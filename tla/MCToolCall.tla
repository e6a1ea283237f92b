----------------------------- MODULE MCToolCall -----------------------------
EXTENDS ToolCall, TLC
Symmetry == Permutations(Call) \cup Permutations(Org)
=============================================================================
