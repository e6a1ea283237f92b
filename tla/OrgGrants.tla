----------------------------- MODULE OrgGrants -----------------------------
(***************************************************************************)
(* Which organizations a session is granted: resolveUserOrgs (mongo.go),   *)
(* called by callback at login and by tokenRefresh at every refresh, with  *)
(* the last-known set that the refresh row carries as its fallback.        *)
(*                                                                         *)
(* One person, one login after another.  A refresh token is single use, so *)
(* at most one request of the person is under way (OAuthFlow has the       *)
(* races); the users and memberships collections change under it.          *)
(***************************************************************************)
EXTENDS FiniteSets, Naturals

CONSTANTS
    Org,
    MaxChanges,  \* bound on the changes of users and memberships
    MaxRequests  \* bound on the logins and refreshes

ASSUME GrantsAssumption == {MaxChanges, MaxRequests} \subseteq Nat

VARIABLES
    users,        \* documents of the person: "sub" has the Cognito sub as its
                  \* id, "legacy" only the email; both have the email
    memberships,  \* by document and organization: its status
    request,      \* the login or refresh under way
    row,          \* the organizations of the live refresh row
    session,      \* history: the last session persisted
    known,        \* history: the last-known set the request started from
    held,         \* history: organizations held since the login
    ruledOut,     \* history: not held at the last sound resolution, nor since
    changes,
    requests

vars == <<users, memberships, request, row, session, known, held, ruledOut, changes, requests>>
-----------------------------------------------------------------------------
Document == {"sub", "legacy"}
Status == {"none", "sandbox", "active"}  \* "none" also stands for an inactive one

\* `sound`: no fault and no fallback so far.  `stable`: the documents of the
\* person have not changed so far.
NoRequest == [kind |-> "none", step |-> "none", doc |-> "none", orgs |-> {},
              sound |-> TRUE, stable |-> TRUE, fault |-> FALSE, ever |-> {}, always |-> {}]
NoRow == [live |-> FALSE, orgs |-> {}]

Step == {"none", "by sub", "by email", "memberships", "persist", "rotate"}
Request == [kind : {"none", "login", "refresh"}, step : Step, doc : Document \cup {"none"},
            orgs : SUBSET Org, sound : BOOLEAN, stable : BOOLEAN, fault : BOOLEAN,
            ever : SUBSET Org, always : SUBSET Org]

\* Every variable has its type, and a resolution reads the memberships of a
\* document it found.
TypeOK ==
    /\ users \in SUBSET Document
    /\ memberships \in [Document -> [Org -> Status]]
    /\ request \in Request
    /\ request.step = "memberships" => request.doc \in Document
    /\ row \in [live : BOOLEAN, orgs : SUBSET Org]
    /\ session \in Request
    /\ {known, held, ruledOut} \subseteq SUBSET Org
    /\ changes \in 0..MaxChanges /\ requests \in 0..MaxRequests

\* Mutant: the filter forgets the sandbox condition.
ActiveSandboxToo(m, d) == {o \in Org : m[d][o] # "none"}

\* The filter of the memberships query.
Active(m, d) == {o \in Org : m[d][o] = "active"}

\* The organizations of any membership, and those of the document that the
\* lookups prefer.
Entitled(m) == {o \in Org : \E d \in Document : m[d][o] = "active"}
Preferred(us, m) ==
    IF us = {} THEN {}
    ELSE LET d == IF "sub" \in us THEN "sub" ELSE "legacy" IN {o \in Org : m[d][o] = "active"}

Init ==
    /\ users \in SUBSET Document
    /\ memberships \in [Document -> [Org -> Status]]
    /\ request = NoRequest /\ session = NoRequest
    /\ row = NoRow
    /\ known = {} /\ held = {} /\ ruledOut = {}
    /\ changes = 0 /\ requests = 0
-----------------------------------------------------------------------------
Begin(kind) ==
    /\ request = NoRequest /\ requests < MaxRequests
    /\ requests' = requests + 1
    /\ request' = [NoRequest EXCEPT !.kind = kind, !.step = "by sub",
                     !.ever = Entitled(memberships),
                     !.always = Preferred(users, memberships)]
    /\ known' = IF kind = "refresh" THEN row.orgs ELSE {}
    /\ UNCHANGED <<users, memberships, ruledOut, changes>>

\* callback, past its Cognito exchange: a login that owes the last one nothing.
Login ==
    /\ Begin("login")
    /\ held' = Entitled(memberships)
    /\ row' = NoRow /\ session' = NoRequest

\* tokenRefresh, past its Cognito exchange: the row is gone from the store.
Refresh ==
    /\ row.live
    /\ Begin("refresh")
    /\ row' = NoRow
    /\ UNCHANGED <<held, session>>

\* The rest of a request leaves the documents and the login's history alone.
InRequest == UNCHANGED <<users, memberships, known, held, changes, requests>>

\* callback goes on with none, tokenRefresh with the last-known set.
Fallback == IF request.kind = "refresh" THEN known ELSE {}

GiveUp(fault) ==
    request' = [request EXCEPT !.step = "persist", !.orgs = Fallback, !.sound = FALSE,
                                !.fault = @ \/ fault]

\* Mutant: the email decides at once.
FindBySubSkipped ==
    /\ request.step = "by sub"
    /\ request' = [request EXCEPT !.step = "by email"]
    /\ InRequest /\ UNCHANGED <<row, session, ruledOut>>

\* FindOne by id.  An error of any kind leads to the lookup by email.
FindBySub ==
    /\ request.step = "by sub"
    /\ \/ /\ "sub" \in users
          /\ request' = [request EXCEPT !.step = "memberships", !.doc = "sub"]
       \/ /\ "sub" \notin users
          /\ request' = [request EXCEPT !.step = "by email"]
       \/ request' = [request EXCEPT !.step = "by email", !.sound = FALSE, !.fault = TRUE]
    /\ InRequest /\ UNCHANGED <<row, session, ruledOut>>

\* Mutant: a missing document is not noticed, and its empty id is queried.
FindByEmailUnchecked ==
    /\ request.step = "by email"
    /\ \/ \E d \in users : request' = [request EXCEPT !.step = "memberships", !.doc = d]
       \/ users = {} /\ request' = [request EXCEPT !.step = "memberships"]
       \/ GiveUp(TRUE)
    /\ InRequest /\ UNCHANGED <<row, session, ruledOut>>

\* FindOne by email returns any document with that email.
FindByEmail ==
    /\ request.step = "by email"
    /\ \/ \E d \in users : request' = [request EXCEPT !.step = "memberships", !.doc = d]
       \/ users = {} /\ GiveUp(FALSE)
       \/ GiveUp(TRUE)
    /\ InRequest /\ UNCHANGED <<row, session, ruledOut>>

\* The cursor is read to its end, or stops early: Next() returns FALSE on an
\* error too, and cursor.Err() is not consulted.
ReadMemberships ==
    LET active == Active(memberships, request.doc)
    IN  /\ request.step = "memberships"
        /\ \/ /\ request' = [request EXCEPT !.step = "persist", !.orgs = active]
              /\ ruledOut' = IF request.sound THEN Org \ Entitled(memberships)
                             ELSE ruledOut
           \/ /\ \E part \in SUBSET active \ {active} :
                    request' = [request EXCEPT !.step = "persist", !.orgs = part,
                                               !.sound = FALSE, !.fault = TRUE]
              /\ UNCHANGED ruledOut
           \/ GiveUp(TRUE) /\ UNCHANGED ruledOut
        /\ InRequest /\ UNCHANGED <<row, session>>

\* The session is written, or the write fails and the token stays useless.
Persist ==
    /\ request.step = "persist"
    /\ request' = [request EXCEPT !.step = "rotate"]
    /\ session' \in {request, session}
    /\ InRequest /\ UNCHANGED <<row, ruledOut>>

\* Mutant: the rotated row carries the set of the row it replaces.
RotateKeepsKnown ==
    /\ request.step = "rotate"
    /\ row' \in {[live |-> TRUE,
                  orgs |-> IF request.kind = "refresh" THEN known ELSE request.orgs], NoRow}
    /\ request' = NoRequest
    /\ InRequest /\ UNCHANGED <<session, ruledOut>>

\* The new refresh row carries the organizations of this request.
Rotate ==
    /\ request.step = "rotate"
    /\ row' \in {[live |-> TRUE, orgs |-> request.orgs], NoRow}
    /\ request' = NoRequest
    /\ InRequest /\ UNCHANGED <<session, ruledOut>>

\* The task stops, or the user never completes the login.
Abandon ==
    /\ request # NoRequest
    /\ request' = NoRequest
    /\ InRequest /\ UNCHANGED <<row, session, ruledOut>>

\* Elsewhere: memberships granted or revoked, documents migrated or deleted.
Change ==
    /\ changes < MaxChanges
    /\ changes' = changes + 1
    /\ \/ /\ \E d \in Document, o \in Org, s \in Status :
                memberships' = [memberships EXCEPT ![d][o] = s]
          /\ users' = users
       \/ /\ users' \in SUBSET Document \ {users}
          /\ memberships' = memberships
    /\ LET entitled == Entitled(memberships')
           preferred == Preferred(users', memberships')
       IN  /\ held' = held \cup entitled
           /\ ruledOut' = ruledOut \ entitled
           /\ request' = IF request = NoRequest THEN request
                         ELSE [request EXCEPT !.ever = @ \cup entitled,
                                 !.always = @ \cap preferred,
                                 !.stable = @ /\ users' = users]
    /\ UNCHANGED <<row, session, known, requests>>

Next ==
    \/ Login \/ Refresh
    \/ FindBySub \/ FindByEmail \/ ReadMemberships \/ Persist \/ Rotate
    \/ Abandon \/ Change

Spec == Init /\ [][Next]_vars
-----------------------------------------------------------------------------
(* Safety.                                                                 *)

\* Faults, fallbacks and stale rows never grant an organization that the
\* person did not hold at some time since the login.
OrgsWereHeld == session.orgs \subseteq held

\* A resolution that meets no fault and does not fall back grants no
\* organization that was held at no time of the request.  It grants every one
\* that was held all through it too, but only if the documents of the person
\* stayed the same: the lookup and the memberships are two reads
\* (mongo.go:106-120), and a migration between them can leave the memberships
\* of the old document behind, so that a live organization is not granted
\* although nothing failed.
SoundIsCurrent ==
    session.kind # "none" /\ session.sound =>
        /\ session.orgs \subseteq session.ever
        /\ session.stable => session.always \subseteq session.orgs

\* An organization that a sound resolution found revoked does not come back
\* through a later fallback on the last-known set, unless it is granted anew.
RevokedStaysOut ==
    /\ row.orgs \cap ruledOut = {}
    /\ request.orgs \cap ruledOut = {}

\* oauth.go:687: "Re-resolve org memberships so grants/revocations at the
\* org level take effect on refresh", where the database answers.
RevocationTakesEffect ==
    session.kind = "refresh" /\ ~session.fault => session.orgs \subseteq session.ever

\* oauth.go:688: "Fall back to the last-known set on a transient DocumentDB
\* error rather than dropping a live user".
FaultDropsNobody ==
    request.kind = "refresh" /\ request.step = "persist" /\ request.fault =>
        (known \cap request.always) \subseteq request.orgs
=============================================================================
