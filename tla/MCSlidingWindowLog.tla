------------------------ MODULE MCSlidingWindowLog ------------------------
EXTENDS SlidingWindowLog, TLC

Symmetry == Permutations(Request)
=============================================================================
