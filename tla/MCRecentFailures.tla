-------------------------- MODULE MCRecentFailures --------------------------
EXTENDS RecentFailures

CONSTANTS ta, tb
Alphabet == (ta :> 2) @@ (tb :> 1)
=============================================================================
