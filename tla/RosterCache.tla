---------------------------- MODULE RosterCache ----------------------------
(***************************************************************************)
(* cachedOrganizations and resolveOrgID: the organization roster memoized  *)
(* on a Client, and what a repository-scoped tool call without an          *)
(* organization_id decides from it.                                        *)
(*                                                                         *)
(* The mutex is released while the roster is fetched, so any number of     *)
(* calls may fetch at once, and each stores its own answer when it comes.  *)
(***************************************************************************)
EXTENDS Integers, FiniteSets

CONSTANTS
    Call,       \* goroutines of one Client
    Org,
    TTL,        \* orgsCacheTTL (60 s)
    RoundTrip,  \* Timeout of the Client's http.Client (30 s)
    MaxTime,    \* bound on the clock
    MaxChanges  \* bound on the changes of the roster

ASSUME RosterAssumption == {TTL, RoundTrip, MaxTime, MaxChanges} \subseteq Nat /\ TTL > 0

VARIABLES
    now,
    roster,   \* platform-api: the organizations of the token's owner
    cache,    \* orgsCache, orgsCached and orgsExpires
    pending,  \* per call: what it is doing
    lastHeld, \* history: the last time each set was the roster, or Never
    changes,  \* history: how often the roster changed
    verdict   \* history: what the last step decided, and how old its roster was

vars == <<now, roster, cache, pending, lastHeld, changes, verdict>>
-----------------------------------------------------------------------------
Never == -1 - TTL - RoundTrip
Rosters == SUBSET Org
NoCache == [cached |-> FALSE, orgs |-> {}, expires |-> 0]
Idle == [phase |-> "idle", since |-> 0, orgs |-> {}]
NoVerdict == [kind |-> "none", age |-> 0]

\* Every variable has its type, and the memo never expires later than a TTL.
TypeOK ==
    /\ now \in 0..MaxTime
    /\ roster \in Rosters
    /\ cache \in [cached : BOOLEAN, orgs : Rosters, expires : Nat]
    /\ cache.expires <= now + TTL
    /\ pending \in [Call -> [phase : {"idle", "asked", "answered"},
                             since : 0..MaxTime, orgs : Rosters]]
    /\ lastHeld \in [Rosters -> {Never} \cup 0..MaxTime]
    /\ changes \in 0..MaxChanges
    /\ verdict \in [kind : {"none", "auto", "refused", "error"}, age : Nat]

Init ==
    /\ now = 0
    /\ roster \in Rosters
    /\ cache = NoCache
    /\ pending = [c \in Call |-> Idle]
    /\ lastHeld = [r \in Rosters |-> IF r = roster THEN 0 ELSE Never]
    /\ changes = 0
    /\ verdict = NoVerdict
-----------------------------------------------------------------------------
\* resolveOrgID: with none or one, platform-api scopes the call; with more,
\* the call is refused with an error that names them.
Decide(orgs) ==
    verdict' = [kind |-> IF Cardinality(orgs) <= 1 THEN "auto" ELSE "refused",
                age |-> now - lastHeld[orgs]]

\* Mutant: a memo that is never stale.
FreshWhenCached == cache.cached

Fresh == cache.cached /\ now < cache.expires

\* A fresh memo decides the call under the mutex.
ServeCached(c) ==
    /\ pending[c].phase = "idle"
    /\ Fresh
    /\ Decide(cache.orgs)
    /\ UNCHANGED <<now, roster, cache, pending, lastHeld, changes>>

Ask(c) ==
    /\ pending[c].phase = "idle"
    /\ ~Fresh
    /\ pending' = [pending EXCEPT ![c] = [phase |-> "asked", since |-> now, orgs |-> {}]]
    /\ verdict' = NoVerdict
    /\ UNCHANGED <<now, roster, cache, lastHeld, changes>>

\* platform-api reads the roster somewhere within the round trip.
Answer(c) ==
    /\ pending[c].phase = "asked"
    /\ pending' = [pending EXCEPT ![c].phase = "answered", ![c].orgs = roster]
    /\ verdict' = NoVerdict
    /\ UNCHANGED <<now, roster, cache, lastHeld, changes>>

\* Mutant: the error path memoizes the empty response it was left with.
FailCached(c) ==
    /\ pending[c].phase # "idle"
    /\ cache' = [cached |-> TRUE, orgs |-> {}, expires |-> now + TTL]
    /\ pending' = [pending EXCEPT ![c] = Idle]
    /\ verdict' = [kind |-> "error", age |-> 0]
    /\ UNCHANGED <<now, roster, lastHeld, changes>>

\* GetJSON returns an error: nothing is memoized.
Fail(c) ==
    /\ pending[c].phase # "idle"
    /\ pending' = [pending EXCEPT ![c] = Idle]
    /\ verdict' = [kind |-> "error", age |-> 0]
    /\ UNCHANGED <<now, roster, cache, lastHeld, changes>>

\* Mutant: the memo lasts twice as long.
ExpiryTwice == now + 2 * TTL

Expiry == now + TTL

\* The answer is stored under the mutex, whatever was stored meanwhile.
Store(c) ==
    /\ pending[c].phase = "answered"
    /\ cache' = [cached |-> TRUE, orgs |-> pending[c].orgs, expires |-> Expiry]
    /\ pending' = [pending EXCEPT ![c] = Idle]
    /\ Decide(pending[c].orgs)
    /\ UNCHANGED <<now, roster, lastHeld, changes>>

\* An invitation accepted or a membership revoked, in another tab.
ChangeRoster(r) ==
    /\ r # roster /\ changes < MaxChanges
    /\ changes' = changes + 1
    /\ roster' = r
    /\ lastHeld' = [lastHeld EXCEPT ![r] = now]
    /\ verdict' = NoVerdict
    /\ UNCHANGED <<now, cache, pending>>

\* Time passes; the http.Client gives up on a request after RoundTrip.
Tick ==
    /\ now < MaxTime
    /\ \A c \in Call : pending[c].phase # "idle" => now < pending[c].since + RoundTrip
    /\ now' = now + 1
    /\ lastHeld' = [lastHeld EXCEPT ![roster] = now + 1]
    /\ verdict' = NoVerdict
    /\ UNCHANGED <<roster, cache, pending, changes>>

\* A step of a call that leaves the roster and its memo alone.
Elsewhere ==
    /\ verdict' = NoVerdict
    /\ UNCHANGED <<now, roster, cache, pending, lastHeld, changes>>

Next ==
    \/ \E c \in Call : ServeCached(c) \/ Ask(c) \/ Answer(c) \/ Fail(c) \/ Store(c)
    \/ \E r \in Rosters : ChangeRoster(r)
    \/ Tick
    \/ Elsewhere

Spec == Init /\ [][Next]_vars
-----------------------------------------------------------------------------
(* Safety.                                                                 *)

\* However fetches overlap, fail and overwrite each other's memo, a call is
\* scoped or refused on a roster that was the owner's less than one TTL and
\* one round trip ago; a refusal names no organization lost before that.
NoStaleVerdict == verdict.kind \in {"auto", "refused"} => verdict.age < TTL + RoundTrip
=============================================================================
