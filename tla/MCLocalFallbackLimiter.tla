---------------------- MODULE MCLocalFallbackLimiter ----------------------
EXTENDS LocalFallbackLimiter, TLC

Symmetry == Permutations(Request)
=============================================================================
