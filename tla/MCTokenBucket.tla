--------------------------- MODULE MCTokenBucket ---------------------------
EXTENDS TokenBucket, TLC

Symmetry == Permutations(Request)
=============================================================================
