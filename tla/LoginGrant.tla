----------------------------- MODULE LoginGrant -----------------------------
(***************************************************************************)
(* What the authorization server promises about one login, whoever calls   *)
(* which endpoint in which order and whatever fails: it moves forward      *)
(* through its phases, gets its access tokens only on entering "granted",  *)
(* and once over it stays over.                                            *)
(*                                                                         *)
(*   none -> asked -> authenticated -> approved -> granted <-> live        *)
(*                                                                         *)
(* OAuthFlow implements this specification (Phase and Grants there).       *)
(***************************************************************************)
CONSTANTS
    Login,   \* logins
    Token    \* names of access tokens

VARIABLES
    phase,   \* phase of each login
    grants   \* access tokens in force, with the login they act for

vars == <<phase, grants>>

Phases == {"none", "asked", "authenticated", "approved", "granted", "live", "over"}

Init ==
    /\ phase = [l \in Login |-> "none"]
    /\ grants = {}

Move(l, from, to) ==
    /\ phase[l] \in from
    /\ phase' = [phase EXCEPT ![l] = to]

\* The user is sent to the identity provider.
Ask(l) == Move(l, {"none"}, "asked") /\ UNCHANGED grants

\* The identity provider vouches for the user.
Authenticate(l) == Move(l, {"asked"}, "authenticated") /\ UNCHANGED grants

\* The user presses Approve.
Approve(l) == Move(l, {"authenticated"}, "approved") /\ UNCHANGED grants

\* A token request gets at most one access token (storing it may fail).
Grant(l) ==
    /\ Move(l, {"approved", "live"}, "granted")
    /\ \/ \E t \in Token : grants' = grants \cup {<<l, t>>}
       \/ UNCHANGED grants

\* The client is left with a refresh token.
Settle(l) == Move(l, {"granted"}, "live") /\ UNCHANGED grants

\* The login ends: refused, failed, lost, expired or revoked.
End(l) == Move(l, Phases \ {"over"}, "over") /\ UNCHANGED grants

Withdraw(g) == grants' = grants \ {g} /\ UNCHANGED phase

Next ==
    \/ \E l \in Login : Ask(l) \/ Authenticate(l) \/ Approve(l) \/ Grant(l)
                            \/ Settle(l) \/ End(l)
    \/ \E g \in grants : Withdraw(g)

Spec == Init /\ [][Next]_vars
=============================================================================
