--------------------------- MODULE MCProvisioning ---------------------------
EXTENDS Provisioning, TLC

CONSTANT Admin

Symmetry == Permutations(Admin)

Sessions == Admin \cup Script

\* A policy for many, which the benchmark's payload of that name cannot be
\* laid over; and one for few.
Wide == [name |-> "benchmark-ip-hotspot", rate |-> 2, priority |-> 1, route |-> "user",
         burst_capacity |-> 3]

Narrow == [name |-> "vip-user-route", algorithm |-> "fixed_window", rate |-> 1,
           route |-> "user", user_id |-> "vip"]

Bodies == {Wide, Narrow}

Patches ==
  {[algorithm |-> "fixed_window", burst_capacity |-> Null],
   [burst_capacity |-> 1],
   [name |-> "vip-user-route", rate |-> Null],
   [name |-> "vip-user-route"],
   [active |-> FALSE, burst_capacity |-> Null]}

Calls ==
  {[route |-> "user", path_user |-> u, header_user |-> "vip", forwarded |-> <<>>,
    client |-> "c", tenant |-> Null, api_key |-> Null] : u \in {"joe", Null}}

\* Two requests at a time, three in all.
AdminOnly == {[scripts |-> {}, scenario |-> "mixed", writes |-> 3]}

\* A script, and requests that get in its way.
WithSeed == {[scripts |-> {"seed"}, scenario |-> "mixed", writes |-> 1]}

WithBenchmark == {[scripts |-> {"benchmark"}, scenario |-> "ip-hotspot", writes |-> 2]}

\* Every scenario of the benchmark.
Benchmarks ==
  {[scripts |-> {"benchmark"}, scenario |-> s, writes |-> 0] :
     s \in {"protected-burst", "user-hotspot", "platform-services", "mixed"}}

Plans == AdminOnly \cup WithSeed \cup WithBenchmark \cup Benchmarks
=============================================================================
