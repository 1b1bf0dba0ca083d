--------------------------- MODULE MCPolicyCache ---------------------------
EXTENDS PolicyCache

Default == [pubsub |-> TRUE, strict |-> FALSE]

Silent == [pubsub |-> FALSE, strict |-> TRUE]

Settings == {Default, Silent}
=============================================================================
