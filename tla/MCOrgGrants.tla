---------------------------- MODULE MCOrgGrants ----------------------------
EXTENDS OrgGrants, TLC
Symmetry == Permutations(Org)
=============================================================================
