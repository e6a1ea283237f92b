---------------------------- MODULE MCOAuthFlow ----------------------------
EXTENDS OAuthFlow, TLC
Symmetry == Permutations(Req) \cup Permutations(Login)
=============================================================================
