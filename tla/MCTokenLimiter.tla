--------------------------- MODULE MCTokenLimiter ---------------------------
EXTENDS TokenLimiter, TLC
Symmetry == Permutations(Task) \cup Permutations(Token) \cup Permutations(Call)
=============================================================================
