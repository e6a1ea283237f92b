----------------------------- MODULE OAuthFlow -----------------------------
(***************************************************************************)
(* The authorization server of cmd/mcp-remote: /oauth/authorize,           *)
(* /oauth/callback, /oauth/consent, /oauth/token (both grants) and         *)
(* /oauth/revoke, running in any number of HTTP handler goroutines of any  *)
(* number of tasks over one shared store.                                  *)
(*                                                                         *)
(* A handler touches the world through calls that may each fail: the       *)
(* store (DynamoDB or sync.Map), Cognito, KMS and DocumentDB.  Every call  *)
(* that changes shared state is one atomic step; between two calls of one  *)
(* handler anything else may happen, and the handler may die.              *)
(*                                                                         *)
(* The pending, codes and refresh tables are one set of rows, `store`: the *)
(* stage of a row names its table and, inside the pending table, whether   *)
(* its key carries consentPrefix.  Keys are 128 to 256 random bits, so     *)
(* they are named in the order they are minted and can be presented only   *)
(* by somebody who received them.                                          *)
(***************************************************************************)
EXTENDS Integers, FiniteSets

CONSTANTS
    Login,         \* authorization requests, each started by one /authorize
    Req,           \* handler goroutines that hold a popped row
    PendingTTL,    \* /authorize to /callback          (15 minutes)
    ConsentTTL,    \* consent page to decision         (15 minutes)
    CodeTTL,       \* authCodeTTL                      (60 seconds)
    AccessTTL,     \* accessTokenTTL                   (1 hour)
    RefreshTTL,    \* refreshTokenTTL                  (30 days)
    UpstreamTTL,   \* life of a Cognito refresh token  (30 days)
    HandlerDelay,  \* how long a handler may run
    MaxTime,       \* bound on the clock
    MaxKey         \* bound on the keys minted

ASSUME TTLAssumption ==
    /\ {PendingTTL, ConsentTTL, CodeTTL, AccessTTL, RefreshTTL} \subseteq Nat
    /\ {UpstreamTTL, HandlerDelay, MaxTime, MaxKey} \subseteq Nat

VARIABLES
    now,         \* wall clock, shared by all tasks
    minted,      \* keys minted so far are 1..minted
    store,       \* rows of the pending, codes and refresh tables
    sessions,    \* rows of mcpSessions, which platform-api reads
    handed,      \* keys that have left the server in a response
    req,         \* what each handler goroutine is doing
    begun,       \* logins whose /authorize was served
    authedAt,    \* when Cognito last authenticated a login
    approved,    \* logins whose user clicked Approve
    revokedAt,   \* when /oauth/revoke removed a login's refresh token
    disabledAt   \* when the user's Cognito account was disabled

vars == <<now, minted, store, sessions, handed, req, begun, authedAt,
          approved, revokedAt, disabledAt>>
-----------------------------------------------------------------------------
Never == -1
Time == Nat \cup {Never}
Stage == {"authorize", "consent", "code", "refresh"}
PendingTable == {"authorize", "consent"}

\* `enc`: the row carries an encrypted Cognito refresh token.
Row == [key : Nat, login : Login, stage : Stage, expires : Nat, enc : BOOLEAN]
Session == [key : Nat, login : Login, expires : Nat, via : {"code", "refresh"}]

Idle == [pc |-> "idle"]
Working == {"exchange", "stash", "decide", "persist", "issue",
            "cognito", "repersist", "rotate"}
\* `access` is the access token a /token handler will answer with.
Busy == [pc : Working, since : Nat, row : Row, access : Nat]

\* Every variable has its type.
TypeOK ==
    /\ now \in Nat
    /\ minted \in Nat
    /\ store \subseteq Row
    /\ sessions \subseteq Session
    /\ handed \subseteq Nat
    /\ req \in [Req -> {Idle} \cup Busy]
    /\ begun \subseteq Login
    /\ authedAt \in [Login -> Time]
    /\ approved \subseteq Login
    /\ revokedAt \in [Login -> Time]
    /\ disabledAt \in Time

Init ==
    /\ now = 0
    /\ minted = 0
    /\ store = {}
    /\ sessions = {}
    /\ handed = {}
    /\ req = [r \in Req |-> Idle]
    /\ begun = {}
    /\ authedAt = [l \in Login |-> Never]
    /\ approved = {}
    /\ revokedAt = [l \in Login |-> Never]
    /\ disabledAt = Never
-----------------------------------------------------------------------------
(* The Store interface.                                                    *)

\* Mutant: the row is read and never deleted.
PopReadsOnly(table, x) == table

\* PopCode, PopPending, PopRefresh: one DeleteItem that returns the old row,
\* or one LoadAndDelete.  A key that is not found changes nothing.
Pop(table, x) == table \ {x}

\* PutPending, PutCode, PutRefresh.  A reported failure may still have been
\* applied: the answer of DynamoDB can be lost.
Put(x, reported) ==
    \/ store' = store \cup {x}
    \/ ~reported /\ store' = store

\* Rows whose key somebody outside the server can present.
Presentable(stages) == {x \in store : x.key \in handed /\ x.stage \in stages}

\* Mutant: no Expires comparison, only the table's own TTL.
ExpiredNever(x) == FALSE

Expired(x) == now > x.expires

Fresh == minted + 1
Mint == minted < MaxKey /\ minted' = Fresh

Start(r, pc, x) ==
    req' = [req EXCEPT ![r] = [pc |-> pc, since |-> now, row |-> x, access |-> 0]]
Goto(r, pc) == req' = [req EXCEPT ![r].pc = pc]
Finish(r) == req' = [req EXCEPT ![r] = Idle]

Holding(r) == req[r].row
-----------------------------------------------------------------------------
(* GET /oauth/authorize.  The checks before PutPending only read.          *)

Authorize(l) ==
    /\ l \notin begun
    /\ Mint
    /\ begun' = begun \cup {l}
    /\ \E ok \in BOOLEAN :
          /\ Put([key |-> Fresh, login |-> l, stage |-> "authorize",
                  expires |-> now + PendingTTL, enc |-> FALSE], ok)
          /\ handed' = IF ok THEN handed \cup {Fresh} ELSE handed
    /\ UNCHANGED <<now, sessions, req, authedAt, approved, revokedAt, disabledAt>>
-----------------------------------------------------------------------------
(* GET /oauth/callback.                                                    *)

\* The pop is by raw state: a browser that sends "consent:<key>" as state
\* reaches the consent row of its own login, so both stages can be popped.
CallbackPop(r, x) ==
    /\ req[r] = Idle
    /\ x \in Presentable(PendingTable)
    /\ store' = Pop(store, x)
    /\ IF Expired(x) THEN UNCHANGED req ELSE Start(r, "exchange", x)
    /\ UNCHANGED <<now, minted, sessions, handed, begun, authedAt, approved,
                   revokedAt, disabledAt>>

\* exchangeCognitoCode, then Encrypt (best effort: no Cognito refresh token,
\* or no ciphertext, leaves enc FALSE).  Cognito refuses a disabled user.
CallbackExchange(r) ==
    /\ req[r].pc = "exchange"
    /\ \/ /\ Finish(r)
          /\ UNCHANGED authedAt
       \/ /\ disabledAt = Never
          /\ \E enc \in BOOLEAN :
                req' = [req EXCEPT ![r].pc = "stash", ![r].row.enc = enc]
          /\ authedAt' = [authedAt EXCEPT ![Holding(r).login] = now]
    /\ UNCHANGED <<now, minted, store, sessions, handed, begun, approved,
                   revokedAt, disabledAt>>

\* stashConsent, and the page that carries the consent key.
CallbackStash(r) ==
    /\ req[r].pc = "stash"
    /\ Mint
    /\ \E ok \in BOOLEAN :
          /\ Put([Holding(r) EXCEPT !.key = Fresh, !.stage = "consent",
                                    !.expires = now + ConsentTTL], ok)
          /\ handed' = IF ok THEN handed \cup {Fresh} ELSE handed
    /\ Finish(r)
    /\ UNCHANGED <<now, sessions, begun, authedAt, approved, revokedAt, disabledAt>>
-----------------------------------------------------------------------------
(* POST /oauth/consent.                                                    *)

\* Mutant: the key is looked up without consentPrefix.
ConsentPopUnprefixed(r, x) ==
    /\ req[r] = Idle
    /\ x \in Presentable(PendingTable)
    /\ store' = Pop(store, x)
    /\ IF Expired(x) THEN UNCHANGED req ELSE Start(r, "decide", x)
    /\ UNCHANGED <<now, minted, sessions, handed, begun, authedAt, approved,
                   revokedAt, disabledAt>>

ConsentPop(r, x) ==
    /\ req[r] = Idle
    /\ x \in Presentable({"consent"})
    /\ store' = Pop(store, x)
    /\ IF Expired(x) THEN UNCHANGED req ELSE Start(r, "decide", x)
    /\ UNCHANGED <<now, minted, sessions, handed, begun, authedAt, approved,
                   revokedAt, disabledAt>>

\* The user denied, or the client's current registration could not be read
\* or no longer lists the redirect URI.
ConsentRefuse(r) ==
    /\ req[r].pc = "decide"
    /\ Finish(r)
    /\ UNCHANGED <<now, minted, store, sessions, handed, begun, authedAt,
                   approved, revokedAt, disabledAt>>

ConsentApprove(r) ==
    /\ req[r].pc = "decide"
    /\ Mint
    /\ approved' = approved \cup {Holding(r).login}
    /\ \E ok \in BOOLEAN :
          /\ Put([Holding(r) EXCEPT !.key = Fresh, !.stage = "code",
                                    !.expires = now + CodeTTL], ok)
          /\ handed' = IF ok THEN handed \cup {Fresh} ELSE handed
    /\ Finish(r)
    /\ UNCHANGED <<now, sessions, begun, authedAt, revokedAt, disabledAt>>
-----------------------------------------------------------------------------
(* POST /oauth/token, shared by the two grants.                            *)

\* persistMCPSession: a failed insert is only logged, so the handler goes on
\* with its access token either way.
PersistSession(r, via, next) ==
    /\ Mint
    /\ \/ sessions' = sessions \cup
              {[key |-> Fresh, login |-> Holding(r).login,
                expires |-> now + AccessTTL, via |-> via]}
       \/ UNCHANGED sessions
    /\ req' = [req EXCEPT ![r].pc = next, ![r].access = Fresh]

\* The tail of both grants: store the refresh token, then answer.  A failed
\* PutRefresh only leaves refresh_token out of the answer.
AnswerWithRefresh(r, expires) ==
    /\ Mint
    /\ \E ok \in BOOLEAN :
          /\ Put([Holding(r) EXCEPT !.key = Fresh, !.stage = "refresh",
                                    !.expires = expires], ok)
          /\ handed' = handed \cup {req[r].access} \cup (IF ok THEN {Fresh} ELSE {})
    /\ Finish(r)

AnswerWithoutRefresh(r) ==
    /\ handed' = handed \cup {req[r].access}
    /\ Finish(r)
    /\ UNCHANGED <<minted, store>>
-----------------------------------------------------------------------------
(* grant_type=authorization_code.                                          *)

\* Mutant: the code stays in its table until it expires.
CodePopKeepsRow(r, x) ==
    /\ req[r] = Idle
    /\ x \in Presentable({"code"})
    /\ Start(r, "persist", x)
    /\ UNCHANGED <<now, minted, store, sessions, handed, begun, authedAt,
                   approved, revokedAt, disabledAt>>

\* `matches`: client_id, redirect_uri and code_verifier are those of the code.
\* A mismatch has consumed the code all the same.
CodePop(r, x) ==
    /\ req[r] = Idle
    /\ x \in Presentable({"code"})
    /\ store' = Pop(store, x)
    /\ \E matches \in BOOLEAN :
          IF Expired(x) \/ ~matches THEN UNCHANGED req ELSE Start(r, "persist", x)
    /\ UNCHANGED <<now, minted, sessions, handed, begun, authedAt, approved,
                   revokedAt, disabledAt>>

CodePersist(r) ==
    /\ req[r].pc = "persist"
    /\ PersistSession(r, "code", "issue")
    /\ UNCHANGED <<now, store, handed, begun, authedAt, approved, revokedAt,
                   disabledAt>>

\* Mutant: the refresh token is stored without an Expires.
CodeIssueNoExpiry(r) ==
    /\ req[r].pc = "issue"
    /\ IF Holding(r).enc THEN AnswerWithRefresh(r, Never)
                         ELSE AnswerWithoutRefresh(r)
    /\ UNCHANGED <<now, sessions, begun, authedAt, approved, revokedAt, disabledAt>>

CodeIssue(r) ==
    /\ req[r].pc = "issue"
    /\ IF Holding(r).enc THEN AnswerWithRefresh(r, now + RefreshTTL)
                         ELSE AnswerWithoutRefresh(r)
    /\ UNCHANGED <<now, sessions, begun, authedAt, approved, revokedAt, disabledAt>>
-----------------------------------------------------------------------------
(* grant_type=refresh_token.                                               *)

\* `matches`: client_id is absent or that of the token.
RefreshPop(r, x) ==
    /\ req[r] = Idle
    /\ x \in Presentable({"refresh"})
    /\ store' = Pop(store, x)
    /\ \E matches \in BOOLEAN :
          IF Expired(x) \/ ~matches THEN UNCHANGED req ELSE Start(r, "cognito", x)
    /\ UNCHANGED <<now, minted, sessions, handed, begun, authedAt, approved,
                   revokedAt, disabledAt>>

\* Mutant: an answer of Cognito other than 200 does not stop the grant.
CognitoAcceptsAnyone(l) == now <= authedAt[l] + UpstreamTTL

\* Cognito accepts a refresh token of an enabled user for UpstreamTTL.
CognitoAccepts(l) == disabledAt = Never /\ now <= authedAt[l] + UpstreamTTL

\* Decrypt, then refreshCognito: the revocation gate.  Any error ends the
\* request with invalid_grant; the popped token is gone.
RefreshCognito(r) ==
    /\ req[r].pc = "cognito"
    /\ \/ Finish(r)
       \/ CognitoAccepts(Holding(r).login) /\ Goto(r, "repersist")
    /\ UNCHANGED <<now, minted, store, sessions, handed, begun, authedAt,
                   approved, revokedAt, disabledAt>>

RefreshPersist(r) ==
    /\ req[r].pc = "repersist"
    /\ PersistSession(r, "refresh", "rotate")
    /\ UNCHANGED <<now, store, handed, begun, authedAt, approved, revokedAt,
                   disabledAt>>

\* Mutant: every rotation opens a new 30-day window.
RefreshRotateExtends(r) ==
    /\ req[r].pc = "rotate"
    /\ AnswerWithRefresh(r, now + RefreshTTL)
    /\ UNCHANGED <<now, sessions, begun, authedAt, approved, revokedAt, disabledAt>>

\* Same ciphertext, same absolute expiry.
RefreshRotate(r) ==
    /\ req[r].pc = "rotate"
    /\ AnswerWithRefresh(r, Holding(r).expires)
    /\ UNCHANGED <<now, sessions, begun, authedAt, approved, revokedAt, disabledAt>>
-----------------------------------------------------------------------------
(* POST /oauth/revoke.  Whatever the hint, both deletes are tried, each may *)
(* fail, and the answer is 200.  A token is an access token or a refresh   *)
(* token, so only one of the two can find a row.                           *)

RevokeAccess(s) ==
    /\ s \in sessions /\ s.key \in handed
    /\ sessions' = sessions \ {s}
    /\ UNCHANGED <<now, minted, store, handed, req, begun, authedAt, approved,
                   revokedAt, disabledAt>>

\* Mutant: the row is looked up and left where it is.
RevokeRefreshKeepsRow(x) ==
    /\ x \in Presentable({"refresh"})
    /\ revokedAt' = [revokedAt EXCEPT ![x.login] = now]
    /\ UNCHANGED <<now, minted, store, sessions, handed, req, begun, authedAt,
                   approved, disabledAt>>

RevokeRefresh(x) ==
    /\ x \in Presentable({"refresh"})
    /\ store' = Pop(store, x)
    /\ revokedAt' = [revokedAt EXCEPT ![x.login] = now]
    /\ UNCHANGED <<now, minted, sessions, handed, req, begun, authedAt,
                   approved, disabledAt>>
-----------------------------------------------------------------------------
(* The environment.                                                        *)

\* The task dies, the request's context is cancelled, or a handler panics.
Crash(r) ==
    /\ req[r] # Idle
    /\ Finish(r)
    /\ UNCHANGED <<now, minted, store, sessions, handed, begun, authedAt,
                   approved, revokedAt, disabledAt>>

\* An administrator disables the user's Cognito account.
DisableUser ==
    /\ disabledAt = Never
    /\ disabledAt' = now
    /\ UNCHANGED <<now, minted, store, sessions, handed, req, begun, authedAt,
                   approved, revokedAt>>

Tick ==
    /\ now < MaxTime
    /\ \A r \in Req : req[r] # Idle => now < req[r].since + HandlerDelay
    /\ now' = now + 1
    /\ UNCHANGED <<minted, store, sessions, handed, req, begun, authedAt,
                   approved, revokedAt, disabledAt>>
-----------------------------------------------------------------------------
Pops(r) == \E x \in store :
              CallbackPop(r, x) \/ ConsentPop(r, x) \/ CodePop(r, x) \/ RefreshPop(r, x)

Handle(r) ==
    \/ CallbackExchange(r) \/ CallbackStash(r)
    \/ ConsentRefuse(r) \/ ConsentApprove(r)
    \/ CodePersist(r) \/ CodeIssue(r)
    \/ RefreshCognito(r) \/ RefreshPersist(r) \/ RefreshRotate(r)

Next ==
    \/ \E l \in Login : Authorize(l)
    \/ \E r \in Req : Pops(r) \/ Handle(r) \/ Crash(r)
    \/ \E s \in sessions : RevokeAccess(s)
    \/ \E x \in store : RevokeRefresh(x)
    \/ DisableUser
    \/ Tick

Spec == Init /\ [][Next]_vars
-----------------------------------------------------------------------------
(* Safety.                                                                 *)

Rows(l) == {x \in store : x.login = l}
Holders(l) == {r \in Req : req[r] # Idle /\ Holding(r).login = l}

\* A login is in one place at a time: in one row of one table, or in the
\* hands of one handler, or over.  Replays, double submits, parallel requests
\* with one token, failed writes and crashes never make two of it.
UniqueGrant ==
    \A l \in Login :
        /\ \A x, y \in Rows(l) : x = y
        /\ \A r, s \in Holders(l) : r = s
        /\ Rows(l) = {} \/ Holders(l) = {}

\* "One approval can never mint two codes" and one code never two sessions:
\* at most one session of a login comes from a code.
OneCodeGrant ==
    \A s, t \in sessions :
        s.login = t.login /\ s.via = "code" /\ t.via = "code" => s = t

\* No code, refresh token or session exists for a login that Cognito has not
\* authenticated and whose user has not pressed Approve.
OnlyApproved ==
    /\ \A x \in store : x.stage \in {"code", "refresh"} =>
          x.login \in approved /\ authedAt[x.login] # Never
    /\ \A s \in sessions : s.login \in approved /\ authedAt[s.login] # Never

\* Once /oauth/revoke has removed the refresh token of a login, no row, no
\* handler and no new session of that login ever appears: what it still holds
\* expires within one access-token TTL.
RevokedFamilyDies ==
    \A l \in Login : revokedAt[l] # Never =>
        /\ Rows(l) = {} /\ Holders(l) = {}
        /\ \A s \in sessions : s.login = l => s.expires <= revokedAt[l] + AccessTTL

\* The Cognito gate: a disabled user gets no session from the refresh grant,
\* except by a request that had passed the gate already.
RefreshStopsAtDisable ==
    disabledAt # Never =>
        \A s \in sessions : s.via = "refresh" =>
            s.expires <= disabledAt + HandlerDelay + AccessTTL

\* The longest way from the Cognito exchange to the code grant: the callback,
\* consent and token handlers, an undecided consent page and an unused code.
LoginSpan == ConsentTTL + CodeTTL + 3 * HandlerDelay

\* All access of a disabled user ends within the time a login in progress may
\* still take plus one access-token TTL.
OffboardingBound ==
    disabledAt # Never =>
        \A s \in sessions : s.expires <= disabledAt + LoginSpan + AccessTTL

\* Rotation does not extend the session: a refresh token, however often
\* rotated, expires RefreshTTL after the code exchange of its login.
RefreshWindow ==
    \A x \in store : x.stage = "refresh" =>
        x.expires <= authedAt[x.login] + LoginSpan + RefreshTTL

\* oauth.go:81-84 and :634-636: once the Cognito account is disabled, access
\* ends within one access-token TTL.
OffboardedWithinAccessTTL ==
    disabledAt # Never =>
        \A s \in sessions : s.expires <= disabledAt + HandlerDelay + AccessTTL
-----------------------------------------------------------------------------
(* The login as its client sees it: an implementation of LoginGrant.       *)

StagePhase(x) ==
    CASE x.stage = "authorize" -> "asked"
      [] x.stage = "consent"   -> "authenticated"
      [] x.stage = "code"      -> "approved"
      [] x.stage = "refresh"   -> "live"

HolderPhase(r) ==
    CASE req[r].pc = "stash"             -> "authenticated"
      [] req[r].pc \in {"issue", "rotate"} -> "granted"
      [] OTHER                           -> StagePhase(Holding(r))

Phase(l) ==
    CASE l \notin begun   -> "none"
      [] Rows(l) # {}     -> StagePhase(CHOOSE x \in Rows(l) : TRUE)
      [] Holders(l) # {}  -> HolderPhase(CHOOSE r \in Holders(l) : TRUE)
      [] OTHER            -> "over"

Grants == {<<s.login, s.key>> : s \in sessions}

Promise == INSTANCE LoginGrant WITH
    phase <- [l \in Login |-> Phase(l)], grants <- Grants, Token <- 1..MaxKey

\* Every behaviour of the server, with its failures, crashes and replays, is
\* one that LoginGrant allows for each of its logins.
ImplementsLoginGrant == Promise!Spec
=============================================================================
