--------------------------- MODULE MCRegisterGuard ---------------------------
EXTENDS RegisterGuard
Symmetry == Permutations(Address)
=============================================================================
