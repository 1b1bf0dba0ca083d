--------------------------- MODULE MCFixedWindow ---------------------------
EXTENDS FixedWindow, TLC

Symmetry == Permutations(Request)
=============================================================================
