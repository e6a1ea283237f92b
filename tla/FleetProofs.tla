---------------------------- MODULE FleetProofs ----------------------------
(***************************************************************************)
(* What a fleet keeps, for every number of tasks and clients and every     *)
(* environment it may begin with: the types, the logins in the shared      *)
(* tables, and the secrets under the key; and what it comes to once every  *)
(* task is well: sessions for those who go on, refreshes without refusals. *)
(***************************************************************************)
EXTENDS Fleet, Naturals, TLAPS

\* What a task chose when it started is what its environment and its luck
\* with AWS call for, for as long as it runs.
ChoiceKept ==
    \A t \in Running :
        /\ task[t].store = buildOAuthStore(task[t].env, task[t].awsForStore)
        /\ task[t].crypter = buildCrypter(task[t].env, task[t].awsForKMS)

\* Only a client that is signed in holds a refresh token.
TokensAreLate == \A c \in refreshable : step[c] \in {"ready", "refresh"}

FleetInv == TypeOK /\ ChoiceKept /\ TokensAreLate

LEMMA DownIsDown == Down.up = FALSE
  BY DEF Down

LEMMA RunningIsUp ==
    ASSUME TypeOK, NEW t \in Task, task[t].up
    PROVE  task[t] \in Up /\ t \in Running
  <1>1. task[t] # Down
    BY DownIsDown, Zenon
  <1> QED
    BY <1>1 DEF TypeOK, Running
-----------------------------------------------------------------------------
(* The effect of a request on rows.                                        *)

LEMMA PlaceTyped == \A t \in Task : Place(t) \in Task \cup {Shared}
  BY DEF Place

LEMMA NewRowTyped ==
    ASSUME NEW t \in Task, NEW c \in Client, NEW orgs \in BOOLEAN
    PROVE  /\ NewRow(t, "client", c, "none", FALSE) \in Row
           /\ NewRow(t, "pending", c, "none", FALSE) \in Row
           /\ \A s \in {"none", "plain", "sealed"} :
                 /\ NewRow(t, "consent", c, s, orgs) \in Row
                 /\ NewRow(t, "code", c, s, orgs) \in Row
           /\ \A s \in {"plain", "sealed"} : NewRow(t, "refresh", c, s, orgs) \in Row
  BY PlaceTyped DEF NewRow, Row, RowOf

LEMMA RowFields ==
    ASSUME NEW x \in Row
    PROVE  /\ x.client \in Client /\ x.orgs \in BOOLEAN
           /\ x.secret \in {"none", "plain", "sealed"}
           /\ x.kind = "refresh" => x.secret # "none"
  BY DEF Row, RowOf

LEMMA EncryptTyped ==
    ASSUME TypeOK, NEW t \in Task, task[t].up
    PROVE  Encrypt(t) \in {"none", "plain", "sealed"}
  <1>1. task[t].crypter \in {"kms", "plaintext", "erroring"}
    BY RunningIsUp DEF Up
  <1> QED
    BY <1>1 DEF Encrypt

LEMMA SessionTyped ==
    ASSUME NEW t, NEW orgs
    PROVE  Session(t, orgs) \in {"none", "empty", "scoped"}
  BY DEF Session

\* What an answer with tokens does to the state.
LEMMA AnswerTyped ==
    ASSUME TypeOK, TokensAreLate, NEW t \in Task, NEW c \in Client,
           NEW secret \in {"none", "plain", "sealed"}, NEW orgs \in BOOLEAN,
           Answer(t, c, secret, orgs), UNCHANGED <<env, task, registered>>
    PROVE  TypeOK' /\ TokensAreLate'
  <1>1. secret # "none" => NewRow(t, "refresh", c, secret, orgs) \in Row
    BY NewRowTyped
  <1>2. rows' \subseteq Row /\ refreshable' \subseteq Client
    BY <1>1 DEF Answer, TypeOK
  <1>3. step' = [step EXCEPT ![c] = "ready"] /\ step' \in [Client -> Step]
    BY DEF Answer, GoTo, TypeOK, Step
  <1>4. sessions' \in [Client -> {"none", "empty", "scoped"}]
    BY SessionTyped DEF Answer, TypeOK
  <1>5. TokensAreLate'
    BY <1>3 DEF Answer, TypeOK, TokensAreLate
  <1> QED
    BY <1>2, <1>3, <1>4, <1>5 DEF TypeOK

LEMMA GiveUpTyped ==
    ASSUME TypeOK, TokensAreLate, NEW c \in Client, GiveUp(c),
           UNCHANGED <<env, task, registered, sessions>>
    PROVE  TypeOK' /\ TokensAreLate'
  BY DEF GiveUp, GoTo, TypeOK, TokensAreLate, Step

\* A login that goes on with a row of its next stage.
LEMMA AdvanceTyped ==
    ASSUME TypeOK, TokensAreLate, NEW c \in Client, NEW s \in Step, NEW x \in Row,
           step[c] \notin {"ready", "refresh"}, Advance(c, s, x),
           registered' \subseteq Client,
           UNCHANGED <<env, task, sessions, refreshable>>
    PROVE  TypeOK' /\ TokensAreLate'
  BY DEF Advance, GoTo, TypeOK, TokensAreLate
-----------------------------------------------------------------------------
LEMMA InitSafe == Init => FleetInv
  <1> SUFFICES ASSUME Init PROVE FleetInv
    OBVIOUS
  <1>1. TypeOK
    BY FleetAssumption DEF Init, TypeOK, Step
  <1>2. Running = {}
    BY DEF Init, Running, Down
  <1> QED
    BY <1>1, <1>2 DEF Init, FleetInv, ChoiceKept, TokensAreLate

LEMMA RequestSafe ==
    ASSUME TypeOK, TokensAreLate, NEW t \in Task, task[t].up, NEW c \in Client,
           Request(t, c)
    PROVE  TypeOK' /\ TokensAreLate'
  <1>1. step[c] \in Step /\ task[t].env \subseteq Variable /\ task[t].db \in BOOLEAN
    BY RunningIsUp DEF TypeOK, Up
  <1>2. CASE Challenge(t, c) \/ Discover(t, c)
    <2>1. /\ UNCHANGED <<env, task, rows, sessions, registered, refreshable>>
          /\ step[c] \in {"start", "discover"}
          /\ \/ UNCHANGED step
             \/ \E s \in Step : GoTo(c, s)
      BY <1>2 DEF Challenge, Discover, Step
    <2> QED
      BY <2>1 DEF TypeOK, TokensAreLate, GoTo
  <1>3. CASE Register(t, c)
    <2>1. "authorize" \in Step /\ registered' \subseteq Client
      BY <1>3 DEF Register, TypeOK, Step
    <2> QED
      BY <1>3, <2>1, NewRowTyped, AdvanceTyped DEF Register
  <1>4. CASE Authorize(t, c)
    <2>1. CASE GiveUp(c) /\ UNCHANGED registered
      BY <1>4, <2>1, GiveUpTyped DEF Authorize
    <2>2. CASE /\ registered' = registered \ {c}
               /\ GoTo(c, "register")
               /\ rows' = {x \in rows : x.client # c}
               /\ UNCHANGED refreshable
      BY <1>4, <2>2 DEF Authorize, GoTo, TypeOK, TokensAreLate, Step
    <2>3. CASE /\ Advance(c, "callback", NewRow(t, "pending", c, "none", FALSE))
               /\ UNCHANGED <<registered, refreshable>>
      <3>1. "callback" \in Step /\ registered' \subseteq Client
        BY <2>3 DEF TypeOK, Step, KeyOf
      <3> QED
        BY <1>4, <2>3, <3>1, NewRowTyped, AdvanceTyped DEF Authorize
    <2> QED
      BY <1>4, <2>1, <2>2, <2>3 DEF Authorize
  <1>5. CASE Callback(t, c)
    <2>1. CASE GiveUp(c)
      BY <1>5, <2>1, GiveUpTyped DEF Callback
    <2>2. CASE /\ Advance(c, "consent", NewRow(t, "consent", c, Encrypt(t), task[t].db))
               /\ UNCHANGED refreshable
      <3>1. "consent" \in Step /\ registered' \subseteq Client
        BY <1>5 DEF Callback, TypeOK, Step, KeyOf
      <3>2. NewRow(t, "consent", c, Encrypt(t), task[t].db) \in Row
        BY <1>1, EncryptTyped, NewRowTyped
      <3> QED
        BY <1>5, <2>2, <3>1, <3>2, AdvanceTyped DEF Callback
    <2> QED
      BY <1>5, <2>1, <2>2 DEF Callback
  <1>6. CASE Consent(t, c)
    <2>1. CASE GiveUp(c)
      BY <1>6, <2>1, GiveUpTyped DEF Consent
    <2>2. ASSUME NEW x \in At(Place(t), "consent", c),
                 Advance(c, "code", NewRow(t, "code", c, x.secret, x.orgs)),
                 UNCHANGED refreshable
          PROVE  TypeOK' /\ TokensAreLate'
      <3>1. "code" \in Step /\ registered' \subseteq Client
        BY <1>6 DEF Consent, TypeOK, Step, KeyOf
      <3>2. x \in Row
        BY DEF At, TypeOK
      <3>3. NewRow(t, "code", c, x.secret, x.orgs) \in Row
        BY <3>2, RowFields, NewRowTyped
      <3> QED
        BY <1>6, <2>2, <3>1, <3>3, AdvanceTyped DEF Consent
    <2> QED
      BY <1>6, <2>1, <2>2 DEF Consent
  <1>7. CASE ExchangeCode(t, c)
    <2>1. CASE GiveUp(c) /\ UNCHANGED sessions
      BY <1>7, <2>1, GiveUpTyped DEF ExchangeCode
    <2>2. ASSUME NEW x \in At(Place(t), "code", c), Answer(t, c, x.secret, x.orgs)
          PROVE  TypeOK' /\ TokensAreLate'
      <3>1. x \in Row
        BY DEF At, TypeOK
      <3> QED
        BY <1>7, <2>2, <3>1, RowFields, AnswerTyped DEF ExchangeCode
    <2> QED
      BY <1>7, <2>1, <2>2 DEF ExchangeCode
  <1>8. CASE Refresh(t, c)
    <2>1. CASE GiveUp(c) /\ UNCHANGED sessions
      BY <1>8, <2>1, GiveUpTyped DEF Refresh
    <2>2. ASSUME NEW x \in At(Place(t), "refresh", c),
                 Answer(t, c, x.secret, task[t].db \/ x.orgs)
          PROVE  TypeOK' /\ TokensAreLate'
      <3>1. x \in Row
        BY DEF At, TypeOK
      <3>2. (task[t].db \/ x.orgs) \in BOOLEAN
        OBVIOUS
      <3> QED
        BY <1>8, <2>2, <3>1, <3>2, RowFields, AnswerTyped DEF Refresh
    <2> QED
      BY <1>8, <2>1, <2>2 DEF Refresh
  <1> QED
    BY <1>2, <1>3, <1>4, <1>5, <1>6, <1>7, <1>8 DEF Request
-----------------------------------------------------------------------------
LEMMA NextSafe == FleetInv /\ [Next]_vars => FleetInv'
  <1> SUFFICES ASSUME FleetInv, [Next]_vars PROVE FleetInv'
    OBVIOUS
  <1>0. TypeOK /\ ChoiceKept /\ TokensAreLate
    BY DEF FleetInv
  <1>1. UNCHANGED task => ChoiceKept'
    BY <1>0 DEF ChoiceKept, Running
  <1>2. ASSUME NEW t \in Task, Start(t) PROVE FleetInv'
    <2>1. PICK db \in BOOLEAN, forStore \in BOOLEAN, forKMS \in BOOLEAN :
              task' = [task EXCEPT ![t] =
                         [up |-> TRUE, env |-> env,
                          awsForStore |-> forStore, awsForKMS |-> forKMS,
                          store |-> buildOAuthStore(env, forStore),
                          crypter |-> buildCrypter(env, forKMS), db |-> db]]
      BY <1>2 DEF Start, Luck
    <2>2. /\ buildOAuthStore(env, forStore) \in {"dynamo", "memory"}
          /\ buildCrypter(env, forKMS) \in {"kms", "plaintext", "erroring"}
      BY DEF buildOAuthStore, buildCrypter
    <2>3. task' \in [Task -> {Down} \cup Up]
      BY <1>0, <2>1, <2>2 DEF TypeOK, Up
    <2>4. TypeOK' /\ TokensAreLate'
      BY <1>0, <1>2, <2>3 DEF Start, TypeOK, TokensAreLate
    <2>5. task \in [Task -> {Down} \cup Up]
      BY <1>0 DEF TypeOK
    <2>6. ASSUME NEW u \in Running', u # t
          PROVE  /\ task'[u].store = buildOAuthStore(task'[u].env, task'[u].awsForStore)
                 /\ task'[u].crypter = buildCrypter(task'[u].env, task'[u].awsForKMS)
      <3>1. u \in Running /\ task'[u] = task[u]
        BY <2>1, <2>5, <2>6 DEF Running
      <3> QED
        BY <1>0, <3>1 DEF ChoiceKept
    <2>7. /\ task'[t].store = buildOAuthStore(task'[t].env, task'[t].awsForStore)
          /\ task'[t].crypter = buildCrypter(task'[t].env, task'[t].awsForKMS)
      BY <2>1, <2>5
    <2>8. ChoiceKept'
      BY <2>6, <2>7 DEF ChoiceKept
    <2> QED
      BY <2>4, <2>8 DEF FleetInv
  <1>3. ASSUME NEW t \in Task, Stop(t) PROVE FleetInv'
    <2>1. TypeOK' /\ TokensAreLate'
      BY <1>0, <1>3 DEF Stop, TypeOK, TokensAreLate
    <2>2. \A u \in Running' : u \in Running /\ task'[u] = task[u]
      BY <1>0, <1>3 DEF Stop, Running, TypeOK, Down
    <2> QED
      BY <1>0, <2>1, <2>2 DEF FleetInv, ChoiceKept
  <1>4. ASSUME NEW v \in Variable, Provision(v) PROVE FleetInv'
    BY <1>0, <1>1, <1>4 DEF Provision, FleetInv, TypeOK, TokensAreLate
  <1>5. ASSUME NEW c \in Client, Serve(c) PROVE FleetInv'
    <2>1. PICK t \in Task : task[t].up /\ Request(t, c)
      BY <1>5 DEF Serve
    <2>2. UNCHANGED task
      BY <2>1 DEF Request, Challenge, Discover, Register, Authorize, Callback,
                  Consent, ExchangeCode, Refresh
    <2> QED
      BY <1>0, <1>1, <2>1, <2>2, RequestSafe DEF FleetInv
  <1>6. ASSUME NEW c \in Client, AccessExpires(c) \/ WindowEnds(c) PROVE FleetInv'
    <2>1. TypeOK'
      BY <1>0, <1>6 DEF AccessExpires, WindowEnds, GoTo, TypeOK, Step
    <2>2. TokensAreLate'
      BY <1>0, <1>6 DEF AccessExpires, WindowEnds, GoTo, TypeOK, TokensAreLate
    <2> QED
      BY <1>1, <1>6, <2>1, <2>2 DEF AccessExpires, WindowEnds, FleetInv
  <1>7. CASE UNCHANGED vars
    BY <1>0, <1>1, <1>7 DEF vars, FleetInv, TypeOK, TokensAreLate
  <1> QED
    BY <1>2, <1>3, <1>4, <1>5, <1>6, <1>7 DEF Next

LEMMA FleetInvariance == Spec => []FleetInv
  BY InitSafe, NextSafe, PTL DEF Spec

\* No handler stores a refresh token without an upstream one, whatever crypter
\* and database its task started with, and every variable keeps its type.
THEOREM FleetTypes == Spec => []TypeOK
  <1>1. FleetInv => TypeOK
    BY DEF FleetInv
  <1> QED
    BY <1>1, FleetInvariance, PTL
-----------------------------------------------------------------------------
(* Secrets.                                                                *)

\* A task that was given the key never encrypts to plaintext.
LEMMA KeyedTaskSeals ==
    ASSUME FleetInv, Sealed, NEW t \in Task, task[t].up
    PROVE  Encrypt(t) \in {"none", "sealed"}
  <1>1. t \in Running /\ task[t].crypter = buildCrypter(task[t].env, task[t].awsForKMS)
    BY RunningIsUp DEF FleetInv, ChoiceKept
  <1>2. task[t].crypter \in {"kms", "erroring"}
    BY <1>1 DEF Sealed, buildCrypter
  <1> QED
    BY <1>2 DEF Encrypt

LEMMA RequestSeals ==
    ASSUME FleetInv, Sealed, NEW t \in Task, task[t].up, NEW c \in Client,
           Request(t, c)
    PROVE  \A x \in rows' : x.secret # "plain"
  <1>1. \A x \in rows : x.secret # "plain"
    BY DEF Sealed
  <1>2. \A kind, secret, orgs : NewRow(t, kind, c, secret, orgs).secret = secret
    BY DEF NewRow
  <1>10. /\ NewRow(t, "client", c, "none", FALSE).secret # "plain"
         /\ NewRow(t, "pending", c, "none", FALSE).secret # "plain"
    BY DEF NewRow
  <1>3. CASE Challenge(t, c) \/ Discover(t, c)
    BY <1>1, <1>3 DEF Challenge, Discover
  <1>4. CASE Register(t, c)
    BY <1>1, <1>4, <1>10 DEF Register, Advance
  <1>5. CASE Authorize(t, c)
    BY <1>1, <1>5, <1>10 DEF Authorize, Advance, GiveUp
  <1>6. CASE Callback(t, c)
    BY <1>1, <1>2, <1>6, KeyedTaskSeals DEF Callback, Advance, GiveUp
  <1>7. CASE Consent(t, c)
    BY <1>1, <1>2, <1>7 DEF Consent, Advance, GiveUp, At
  <1>8. CASE ExchangeCode(t, c)
    BY <1>1, <1>2, <1>8 DEF ExchangeCode, Answer, GiveUp, At
  <1>9. CASE Refresh(t, c)
    BY <1>1, <1>2, <1>9 DEF Refresh, Answer, GiveUp, At
  <1> QED
    BY <1>3, <1>4, <1>5, <1>6, <1>7, <1>8, <1>9 DEF Request

LEMMA RequestKeepsTasks ==
    ASSUME NEW t \in Task, NEW c \in Client, Request(t, c)
    PROVE  UNCHANGED <<env, task>>
  BY DEF Request, Challenge, Discover, Register, Authorize, Callback, Consent,
         ExchangeCode, Refresh

LEMMA SealedNext == FleetInv /\ [Next]_vars => [Sealed => Sealed']_vars
  <1> SUFFICES ASSUME FleetInv, [Next]_vars, Sealed PROVE Sealed'
    OBVIOUS
  <1>0. /\ task \in [Task -> {Down} \cup Up]
        /\ "OAUTH_KMS_KEY_ARN" \in env
        /\ \A t \in Running : "OAUTH_KMS_KEY_ARN" \in task[t].env
        /\ \A x \in rows : x.secret # "plain"
    BY DEF FleetInv, TypeOK, Sealed
  <1>1. ASSUME NEW t \in Task, Start(t) PROVE Sealed'
    <2>1. \A u \in Running' : IF u = t THEN task'[u].env = env
                             ELSE u \in Running /\ task'[u] = task[u]
      BY <1>0, <1>1 DEF Start, Running
    <2> QED
      BY <1>0, <1>1, <2>1 DEF Start, Sealed
  <1>2. ASSUME NEW t \in Task, Stop(t) PROVE Sealed'
    <2>1. \A u \in Running' : u \in Running /\ task'[u] = task[u]
      BY <1>0, <1>2, DownIsDown DEF Stop, Running
    <2> QED
      BY <1>0, <1>2, <2>1 DEF Stop, Sealed
  <1>3. ASSUME NEW v \in Variable, Provision(v) PROVE Sealed'
    BY <1>0, <1>3 DEF Provision, Sealed, Running
  <1>4. ASSUME NEW c \in Client, Serve(c) PROVE Sealed'
    <2>1. PICK t \in Task : task[t].up /\ Request(t, c)
      BY <1>4 DEF Serve
    <2> QED
      BY <1>0, <2>1, RequestSeals, RequestKeepsTasks DEF Sealed, Running
  <1>5. ASSUME NEW c \in Client, AccessExpires(c) \/ WindowEnds(c) PROVE Sealed'
    BY <1>0, <1>5 DEF AccessExpires, WindowEnds, Sealed, Running
  <1>6. CASE UNCHANGED vars
    BY <1>0, <1>6 DEF vars, Sealed, Running
  <1> QED
    BY <1>1, <1>2, <1>3, <1>4, <1>5, <1>6 DEF Next

\* buildCrypter: once every task has the key, no upstream refresh token is
\* stored in the clear again.
THEOREM SecretsStaySealed == Spec => SealedStays
  BY FleetInvariance, SealedNext, PTL DEF Spec, SealedStays
-----------------------------------------------------------------------------
(* Logins.                                                                 *)

\* What one client holds is in the tables.
HeldIsShared(c) ==
    /\ c \in registered => Has(Shared, "client", c)
    /\ c \in refreshable => Has(Shared, "refresh", c)
    /\ step[c] \in DOMAIN KeyOf => Has(Shared, KeyOf[step[c]], c)

LEMMA ReachableIsAll == Reachable <=> \A c \in Client : HeldIsShared(c)
  BY DEF Reachable, HeldIsShared

LEMMA SharingTaskIsShared ==
    ASSUME FleetInv, Sharing, NEW t \in Task, task[t].up
    PROVE  Place(t) = Shared
  <1>1. t \in Running /\ task[t].store = buildOAuthStore(task[t].env, task[t].awsForStore)
    BY RunningIsUp DEF FleetInv, ChoiceKept
  <1>2. task[t].store = "dynamo"
    BY <1>1 DEF Sharing, buildOAuthStore
  <1> QED
    BY <1>2 DEF Place
\* Requests of one client leave what another holds alone.
LEMMA OthersKeep ==
    ASSUME TypeOK, NEW t \in Task, NEW c \in Client, Request(t, c),
           NEW d \in Client, d # c
    PROVE  /\ step'[d] = step[d]
           /\ d \in registered' <=> d \in registered
           /\ d \in refreshable' <=> d \in refreshable
           /\ \A x : x.client = d => (x \in rows' <=> x \in rows)
  <1>0. step \in [Client -> Step]
    BY DEF TypeOK
  <1>1. \A kind, secret, orgs : NewRow(t, kind, c, secret, orgs).client = c
    BY DEF NewRow
  <1>2. CASE Challenge(t, c) \/ Discover(t, c)
    BY <1>0, <1>2 DEF Challenge, Discover, GoTo
  <1>3. CASE Register(t, c)
    BY <1>0, <1>1, <1>3 DEF Register, Advance, GoTo, Flow
  <1>4. CASE Authorize(t, c)
    <2> DEFINE new == NewRow(t, "pending", c, "none", FALSE)
    <2>1. new.client = c
      BY DEF NewRow
    <2> HIDE DEF new
    <2>2. CASE GiveUp(c) /\ UNCHANGED registered
      BY <1>0, <2>2 DEF GiveUp, GoTo, Flow
    <2>3. CASE /\ registered' = registered \ {c}
               /\ GoTo(c, "register")
               /\ rows' = {x \in rows : x.client # c}
               /\ UNCHANGED refreshable
      BY <1>0, <2>3 DEF GoTo
    <2>4. CASE Advance(c, "callback", new) /\ UNCHANGED <<registered, refreshable>>
      BY <1>0, <2>1, <2>4 DEF Advance, GoTo, Flow
    <2> QED
      BY <1>4, <2>2, <2>3, <2>4 DEF Authorize, new
  <1>5. CASE Callback(t, c)
    BY <1>0, <1>1, <1>5 DEF Callback, Advance, GiveUp, GoTo, Flow
  <1>6. CASE Consent(t, c)
    BY <1>0, <1>1, <1>6 DEF Consent, Advance, GiveUp, GoTo, Flow
  <1>7. CASE ExchangeCode(t, c)
    BY <1>0, <1>1, <1>7 DEF ExchangeCode, Answer, GiveUp, GoTo, Flow
  <1>8. CASE Refresh(t, c)
    BY <1>0, <1>1, <1>8 DEF Refresh, Answer, GiveUp, GoTo, Flow
  <1> QED
    BY <1>2, <1>3, <1>4, <1>5, <1>6, <1>7, <1>8 DEF Request

\* Rows of a client other than its registration may go; what it holds then
\* must be among the rows that come.
LEMMA OwnFlow ==
    ASSUME NEW c \in Client,
           \A x \in rows : x.kind = "client" => x \in rows',
           c \in registered' => c \in registered,
           HeldIsShared(c)
    PROVE  c \in registered' => Has(Shared, "client", c)'
  BY DEF HeldIsShared, Has, At

LEMMA RequestHolds ==
    ASSUME FleetInv, Sharing, NEW t \in Task, task[t].up, NEW c \in Client,
           HeldIsShared(c), Request(t, c)
    PROVE  HeldIsShared(c)'
  <1>0. /\ Place(t) = Shared
        /\ step \in [Client -> Step]
        /\ c \in refreshable => step[c] \in {"ready", "refresh"}
    BY SharingTaskIsShared DEF FleetInv, TypeOK, TokensAreLate
  <1>1. \A kind, secret, orgs :
           LET x == NewRow(t, kind, c, secret, orgs)
           IN  x.at = Shared /\ x.kind = kind /\ x.client = c
    BY <1>0 DEF NewRow
  <1>2. ASSUME GiveUp(c), UNCHANGED registered PROVE HeldIsShared(c)'
    <2>1. c \notin refreshable' /\ step'[c] = "start"
      BY <1>0, <1>2 DEF GiveUp, GoTo
    <2>2. \A x \in rows : x.kind = "client" => x \in rows'
      BY <1>2 DEF GiveUp, Flow
    <2>3. c \in registered' => Has(Shared, "client", c)'
      BY <1>2, <2>2, OwnFlow
    <2> QED
      BY <2>1, <2>3 DEF HeldIsShared, KeyOf
  <1>3. ASSUME NEW s \in Step, NEW kind, NEW secret, NEW orgs,
               Advance(c, s, NewRow(t, kind, c, secret, orgs)),
               c \notin refreshable', c \in registered' => c \in registered,
               s \in DOMAIN KeyOf => kind = KeyOf[s]
        PROVE  HeldIsShared(c)'
    <2>1. step'[c] = s /\ NewRow(t, kind, c, secret, orgs) \in rows'
      BY <1>0, <1>3 DEF Advance, GoTo
    <2>2. \A x \in rows : x.kind = "client" => x \in rows'
      BY <1>3 DEF Advance, Flow
    <2>3. c \in registered' => Has(Shared, "client", c)'
      BY <1>3, <2>2, OwnFlow
    <2>4. s \in DOMAIN KeyOf => Has(Shared, KeyOf[s], c)'
      BY <1>1, <1>3, <2>1 DEF Has, At
    <2> QED
      BY <1>3, <2>1, <2>3, <2>4 DEF HeldIsShared
  <1>4. ASSUME NEW secret, NEW orgs, Answer(t, c, secret, orgs), UNCHANGED registered
        PROVE  HeldIsShared(c)'
    <2>1. step'[c] = "ready"
      BY <1>0, <1>4 DEF Answer, GoTo
    <2>2. \A x \in rows : x.kind = "client" => x \in rows'
      BY <1>4 DEF Answer, Flow
    <2>3. c \in registered' => Has(Shared, "client", c)'
      BY <1>4, <2>2, OwnFlow
    <2>4. c \in refreshable' => NewRow(t, "refresh", c, secret, orgs) \in rows'
      BY <1>4 DEF Answer
    <2>5. c \in refreshable' => Has(Shared, "refresh", c)'
      BY <1>1, <2>4 DEF Has, At
    <2> QED
      BY <2>1, <2>3, <2>5 DEF HeldIsShared, KeyOf
  <1>5. CASE Challenge(t, c) \/ Discover(t, c)
    <2>1. UNCHANGED <<rows, registered, refreshable>>
      BY <1>5 DEF Challenge, Discover
    <2>2. step'[c] \notin DOMAIN KeyOf \/ step'[c] = step[c]
      BY <1>0, <1>5 DEF Challenge, Discover, GoTo, KeyOf
    <2> QED
      BY <2>1, <2>2 DEF HeldIsShared, Has, At
  <1>6. CASE Register(t, c)
    <2> DEFINE new == NewRow(t, "client", c, "none", FALSE)
    <2>1. /\ step'[c] = "authorize" /\ new \in rows' /\ c \notin refreshable'
      BY <1>0, <1>6 DEF Register, Advance, GoTo
    <2>2. new.at = Shared /\ new.kind = "client" /\ new.client = c
      BY <1>0 DEF NewRow
    <2> HIDE DEF new
    <2> QED
      BY <2>1, <2>2 DEF HeldIsShared, Has, At, KeyOf
  <1>7. CASE Authorize(t, c)
    <2>1. CASE /\ registered' = registered \ {c}
               /\ GoTo(c, "register")
               /\ UNCHANGED refreshable
      BY <1>0, <1>7, <2>1 DEF Authorize, GoTo, HeldIsShared, KeyOf
    <2>2. CASE /\ Advance(c, "callback", NewRow(t, "pending", c, "none", FALSE))
               /\ UNCHANGED <<registered, refreshable>>
      BY <1>0, <1>3, <1>7, <2>2 DEF Authorize, KeyOf, Step
    <2> QED
      BY <1>2, <1>7, <2>1, <2>2 DEF Authorize
  <1>8. CASE Callback(t, c)
    <2>1. CASE /\ Advance(c, "consent", NewRow(t, "consent", c, Encrypt(t), task[t].db))
               /\ UNCHANGED refreshable
      BY <1>0, <1>3, <1>8, <2>1 DEF Callback, KeyOf, Step
    <2> QED
      BY <1>2, <1>8, <2>1 DEF Callback
  <1>9. CASE Consent(t, c)
    <2>1. ASSUME NEW x \in At(Place(t), "consent", c),
                 Advance(c, "code", NewRow(t, "code", c, x.secret, x.orgs)),
                 UNCHANGED refreshable
          PROVE  HeldIsShared(c)'
      BY <1>0, <1>3, <1>9, <2>1 DEF Consent, KeyOf, Step
    <2> QED
      BY <1>2, <1>9, <2>1 DEF Consent
  <1>10. CASE ExchangeCode(t, c)
    BY <1>2, <1>4, <1>10 DEF ExchangeCode
  <1>11. CASE Refresh(t, c)
    BY <1>2, <1>4, <1>11 DEF Refresh
  <1> QED
    BY <1>5, <1>6, <1>7, <1>8, <1>9, <1>10, <1>11 DEF Request
-----------------------------------------------------------------------------
LEMMA ReachableNext ==
    FleetInv /\ [Next]_vars => [Sharing /\ Reachable => Reachable']_vars
  <1> SUFFICES ASSUME FleetInv, [Next]_vars, Sharing, Reachable
               PROVE  Reachable'
    OBVIOUS
  <1>0. TypeOK /\ \A c \in Client : HeldIsShared(c)
    BY ReachableIsAll DEF FleetInv
  <1>1. ASSUME UNCHANGED <<step, registered, refreshable>>,
               \A x \in rows : x.at = Shared => x \in rows'
        PROVE  Reachable'
    BY <1>0, <1>1 DEF HeldIsShared, Reachable, Has, At
  <1>2. ASSUME NEW t \in Task, Start(t) \/ Stop(t) PROVE Reachable'
    <2>1. t # Shared
      BY FleetAssumption
    <2> QED
      BY <1>1, <1>2, <2>1 DEF Start, Stop
  <1>3. ASSUME NEW v \in Variable, Provision(v) PROVE Reachable'
    BY <1>1, <1>3 DEF Provision
  <1>4. ASSUME NEW c \in Client, Serve(c) PROVE Reachable'
    <2>1. PICK t \in Task : task[t].up /\ Request(t, c)
      BY <1>4 DEF Serve
    <2>2. HeldIsShared(c)'
      BY <1>0, <2>1, RequestHolds
    <2>3. ASSUME NEW d \in Client, d # c PROVE HeldIsShared(d)'
      <3>1. /\ step'[d] = step[d]
            /\ d \in registered' <=> d \in registered
            /\ d \in refreshable' <=> d \in refreshable
            /\ \A x : x.client = d => (x \in rows' <=> x \in rows)
        BY <1>0, <2>1, <2>3, OthersKeep
      <3>2. \A kind : Has(Shared, kind, d) => Has(Shared, kind, d)'
        BY <3>1 DEF Has, At
      <3> QED
        BY <1>0, <3>1, <3>2 DEF HeldIsShared
    <2> QED
      BY <2>2, <2>3 DEF Reachable, HeldIsShared
  <1>5. ASSUME NEW c \in Client, AccessExpires(c) PROVE Reachable'
    <2>1. \A d \in Client : step'[d] \in DOMAIN KeyOf => step'[d] = step[d]
      BY <1>0, <1>5 DEF AccessExpires, GoTo, TypeOK, KeyOf
    <2>2. UNCHANGED <<rows, registered, refreshable>>
      BY <1>5 DEF AccessExpires
    <2> QED
      BY <1>0, <2>1, <2>2 DEF HeldIsShared, Reachable, Has, At
  <1>6. ASSUME NEW c \in Client, WindowEnds(c) PROVE Reachable'
    <2>1. /\ UNCHANGED <<step, registered>> /\ step[c] \notin DOMAIN KeyOf
          /\ refreshable' = refreshable \ {c}
      BY <1>6 DEF WindowEnds, KeyOf
    <2>2. \A x \in rows : x.kind = "client" \/ x.client # c => x \in rows'
      BY <1>6 DEF WindowEnds, Flow
    <2> QED
      BY <1>0, <2>1, <2>2 DEF HeldIsShared, Reachable, Has, At
  <1>7. CASE UNCHANGED vars
    BY <1>1, <1>7 DEF vars
  <1> QED
    BY <1>2, <1>3, <1>4, <1>5, <1>6, <1>7 DEF Next

-----------------------------------------------------------------------------
(* A login and a refresh token last.                                       *)

\* Nobody gets as far as authorize without a client_id.
LoginsAreRegistered == \A c \in Client : LogsIn(c) => c \in registered

\* What a step may not take from a client.
Lasts(c) ==
    /\ c \in registered => c \in registered'
    /\ LogsIn(c) /\ (\A t \in Running : CognitoReturns(t)) => step'[c] # "start"
    /\ c \in refreshable /\ Redeems(c) => c \in refreshable' \/ WindowEnds(c)

LEMMA RegisteredNext ==
    FleetInv /\ LoginsAreRegistered /\ [Next]_vars => LoginsAreRegistered'
  <1> SUFFICES ASSUME FleetInv, LoginsAreRegistered, [Next]_vars,
                      NEW d \in Client, LogsIn(d)'
               PROVE  d \in registered'
    BY DEF LoginsAreRegistered
  <1>0. step \in [Client -> Step] /\ TypeOK /\ (LogsIn(d) => d \in registered)
    BY DEF FleetInv, TypeOK, LoginsAreRegistered
  <1>1. CASE UNCHANGED <<step, registered>>
    BY <1>0, <1>1 DEF LogsIn
  <1>2. ASSUME NEW t \in Task, NEW c \in Client, Request(t, c) PROVE d \in registered'
    <2>1. CASE d # c
      BY <1>0, <1>2, <2>1, OthersKeep DEF LogsIn
    <2>2. CASE d = c
      <3>1. CASE Challenge(t, c)
        BY <1>0, <2>2, <3>1 DEF Challenge, GoTo, LogsIn, KeyOf
      <3>2. CASE Discover(t, c)
        BY <1>0, <2>2, <3>2 DEF Discover, GoTo, LogsIn, KeyOf
      <3>3. CASE Register(t, c)
        BY <2>2, <3>3 DEF Register
      <3>4. CASE Authorize(t, c)
        BY <1>0, <2>2, <3>4 DEF Authorize, GiveUp, Advance, GoTo, LogsIn, KeyOf
      <3>5. CASE Callback(t, c) \/ Consent(t, c)
        BY <1>0, <2>2, <3>5 DEF Callback, Consent, GiveUp, Advance, GoTo, LogsIn, KeyOf
      <3>6. CASE ExchangeCode(t, c)
        BY <1>0, <2>2, <3>6 DEF ExchangeCode, GiveUp, Answer, GoTo, LogsIn, KeyOf
      <3>7. CASE Refresh(t, c)
        BY <1>0, <2>2, <3>7 DEF Refresh, GiveUp, Answer, GoTo, LogsIn, KeyOf
      <3> QED
        BY <1>2, <3>1, <3>2, <3>3, <3>4, <3>5, <3>6, <3>7 DEF Request
    <2> QED
      BY <2>1, <2>2
  <1>3. ASSUME NEW c \in Client, AccessExpires(c) PROVE d \in registered'
    BY <1>0, <1>3 DEF AccessExpires, GoTo, LogsIn, KeyOf
  <1> QED
    BY <1>1, <1>2, <1>3 DEF Next, Serve, Start, Stop, Provision, WindowEnds, vars

LEMMA RequestLasts ==
    ASSUME FleetInv, Sharing, LoginsAreRegistered, NEW t \in Task, task[t].up,
           NEW c \in Client, HeldIsShared(c), Request(t, c)
    PROVE  Lasts(c)
  <1>0. /\ Place(t) = Shared /\ t \in Running
        /\ step \in [Client -> Step] /\ rows \subseteq Row
        /\ c \in refreshable => step[c] \in {"ready", "refresh"}
        /\ LogsIn(c) => c \in registered /\ Has(Shared, "client", c)
    BY SharingTaskIsShared, RunningIsUp
       DEF FleetInv, TypeOK, TokensAreLate, LoginsAreRegistered, HeldIsShared
  <1>1. CASE Challenge(t, c) \/ Discover(t, c)
    BY <1>0, <1>1 DEF Challenge, Discover, Lasts, LogsIn, KeyOf
  <1>2. CASE Register(t, c)
    BY <1>0, <1>2 DEF Register, Lasts, LogsIn, KeyOf
  <1>3. CASE Authorize(t, c)
    <2>1. LogsIn(c) /\ c \notin refreshable
      BY <1>0, <1>3 DEF Authorize, LogsIn
    <2>2. registered' = registered
      BY <1>0, <1>3, <2>1 DEF Authorize
    <2>3. CognitoReturns(t) => step'[c] = "callback"
      BY <1>0, <1>3, <2>1 DEF Authorize, Advance, GoTo
    <2> QED
      BY <1>0, <2>1, <2>2, <2>3 DEF Lasts
  <1>4. CASE Callback(t, c)
    <2>1. c \notin refreshable /\ Has(Place(t), "pending", c) /\ registered' = registered
      BY <1>0, <1>4 DEF Callback, HeldIsShared, KeyOf
    <2>2. CognitoReturns(t) => step'[c] = "consent"
      BY <1>0, <1>4, <2>1 DEF Callback, Advance, GoTo
    <2> QED
      BY <1>0, <2>1, <2>2 DEF Lasts
  <1>5. CASE Consent(t, c)
    <2>1. /\ c \notin refreshable /\ Has(Place(t), "consent", c) /\ registered' = registered
          /\ Has(Place(t), "client", c)
      BY <1>0, <1>5 DEF Consent, HeldIsShared, KeyOf, LogsIn
    <2>2. step'[c] = "code"
      BY <1>0, <1>5, <2>1 DEF Consent, Advance, GoTo
    <2> QED
      BY <2>1, <2>2 DEF Lasts
  <1>6. CASE ExchangeCode(t, c)
    <2>1. c \notin refreshable /\ Has(Place(t), "code", c) /\ registered' = registered
      BY <1>0, <1>6 DEF ExchangeCode, HeldIsShared, KeyOf
    <2>2. step'[c] = "ready"
      BY <1>0, <1>6, <2>1 DEF ExchangeCode, Answer, GoTo
    <2> QED
      BY <2>1, <2>2 DEF Lasts
  <1>7. CASE Refresh(t, c)
    <2>1. ~LogsIn(c) /\ registered' = registered
      BY <1>7 DEF Refresh, LogsIn, KeyOf
    <2>2. ASSUME c \in refreshable, Redeems(c) PROVE c \in refreshable'
      <3>1. /\ Has(Place(t), "refresh", c) /\ StoresRefresh(t)
            /\ \A x \in At(Place(t), "refresh", c) : Recovers(t, x.secret)
        BY <1>0, <2>2 DEF HeldIsShared, Redeems
      <3>2. PICK x \in At(Place(t), "refresh", c) :
                Answer(t, c, x.secret, task[t].db \/ x.orgs)
        BY <1>7, <3>1 DEF Refresh
      <3>3. x.secret # "none"
        BY <1>0, RowFields DEF At
      <3> QED
        BY <3>1, <3>2, <3>3 DEF Answer
    <2> QED
      BY <2>1, <2>2 DEF Lasts
  <1> QED
    BY <1>1, <1>2, <1>3, <1>4, <1>5, <1>6, <1>7 DEF Request

LEMMA LastsNext ==
    ASSUME FleetInv, LoginsAreRegistered, Next, Sharing, Reachable, NEW d \in Client
    PROVE  Lasts(d)
  <1>0. TypeOK /\ HeldIsShared(d) /\ step \in [Client -> Step]
    BY ReachableIsAll DEF FleetInv, TypeOK
  <1>1. CASE UNCHANGED <<step, registered, refreshable>>
    BY <1>0, <1>1 DEF Lasts, LogsIn, KeyOf
  <1>2. ASSUME NEW c \in Client, Serve(c) PROVE Lasts(d)
    <2>1. PICK t \in Task : task[t].up /\ Request(t, c)
      BY <1>2 DEF Serve
    <2>2. CASE d = c
      BY <1>0, <2>1, <2>2, RequestLasts
    <2>3. CASE d # c
      BY <1>0, <2>1, <2>3, OthersKeep DEF Lasts, LogsIn, KeyOf
    <2> QED
      BY <2>2, <2>3
  <1>3. ASSUME NEW c \in Client, AccessExpires(c) PROVE Lasts(d)
    BY <1>0, <1>3 DEF AccessExpires, GoTo, Lasts, LogsIn, KeyOf
  <1>4. ASSUME NEW c \in Client, WindowEnds(c) PROVE Lasts(d)
    BY <1>0, <1>4 DEF WindowEnds, Lasts, LogsIn, KeyOf
  <1> QED
    BY <1>1, <1>2, <1>3, <1>4 DEF Next, Start, Stop, Provision

LEMMA LoginsLast ==
    FleetInv /\ LoginsAreRegistered /\ [Next]_vars =>
        [Sharing /\ Reachable =>
            /\ Reachable'
            /\ registered \subseteq registered'
            /\ \A c \in Client :
                  /\ LogsIn(c) /\ (\A t \in Running : CognitoReturns(t)) => step'[c] # "start"
                  /\ c \in refreshable /\ Redeems(c)
                        => c \in refreshable' \/ WindowEnds(c)]_vars
  <1> SUFFICES ASSUME FleetInv, LoginsAreRegistered, Next, Sharing, Reachable
               PROVE  /\ Reachable' \/ UNCHANGED vars
                      /\ registered \subseteq registered'
                      /\ \A c \in Client : Lasts(c)
    BY ReachableNext DEF Lasts
  <1>1. \A c \in Client : Lasts(c)
    BY LastsNext
  <1>2. registered \subseteq registered'
    BY <1>1 DEF Lasts, FleetInv, TypeOK
  <1> QED
    BY <1>1, <1>2, ReachableNext

\* buildOAuthStore, PutRefresh and the handlers: while the tasks that run were
\* given the tables, no deploy, crash, other client or task of another
\* environment costs a client its client_id, or a login that they can all
\* complete with Cognito, or a refresh token that they can all redeem.
THEOREM LoginsSurvive == Spec => LoginsSurviveDeploys
  <1>1. Init => LoginsAreRegistered
    BY DEF Init, LoginsAreRegistered, LogsIn, KeyOf
  <1>2. Spec => []LoginsAreRegistered
    BY <1>1, RegisteredNext, FleetInvariance, PTL DEF Spec
  <1> QED
    BY <1>2, FleetInvariance, LoginsLast, PTL DEF Spec, LoginsSurviveDeploys
-----------------------------------------------------------------------------
(* What SignsIn needs of the state.                                        *)

\* A login whose keys any task can redeem and whose organizations are known,
\* or that holds no key yet.
OnTrack(c) ==
    /\ step[c] \in {"callback", "consent"} => Has(Shared, "client", c)
    /\ step[c] \in DOMAIN KeyOf => Has(Shared, KeyOf[step[c]], c)
    /\ step[c] = "consent" => \A x \in At(Shared, "consent", c) : x.orgs
    /\ step[c] = "code" => \A x \in At(Shared, "code", c) : x.orgs
    /\ step[c] = "ready" => sessions[c] = "scoped"

\* How many requests, at most, are left until the client has a session.  A
\* client_id that the tables do not know costs a registration more.
Distance(c) ==
    CASE step[c] = "ready"     -> 0
      [] step[c] = "code"      -> 1
      [] step[c] = "consent"   -> 2
      [] step[c] = "callback"  -> 3
      [] step[c] = "authorize" -> IF Has(Shared, "client", c) THEN 4 ELSE 6
      [] step[c] = "register"  -> 5
      [] step[c] = "discover"  -> 7
      [] step[c] = "start"     -> 8
      [] step[c] = "refresh"   -> 9

\* While every task serves, each answer brings a client closer to its session,
\* or puts a login that cannot end well back on track, once: from then on it
\* stays there, through deploys, other clients, expiry and refreshes.
LoginsAdvance ==
    [][Serving =>
          \A c \in Client :
             /\ OnTrack(c) \/ AccessExpires(c) => OnTrack(c)'
             /\ Serve(c) => \/ Distance(c)' < Distance(c)
                            \/ ~OnTrack(c) /\ OnTrack(c)'
             /\ Serve(c) \/ AccessExpires(c) \/ Distance(c)' = Distance(c)]_vars

LEMMA ServingTask ==
    ASSUME FleetInv, Serving, NEW t \in Task
    PROVE  /\ task[t].up /\ Place(t) = Shared
           /\ Issuer(t) = "own" /\ CognitoReturns(t) /\ task[t].db
  <1>1. task[t].up /\ t \in Running
    BY DEF Serving, Running
  <1>2. task[t].store = buildOAuthStore(task[t].env, task[t].awsForStore)
    BY <1>1 DEF FleetInv, ChoiceKept
  <1>3. task[t].store = "dynamo"
    BY <1>2 DEF Serving, buildOAuthStore
  <1>4. Place(t) = Shared
    BY <1>3 DEF Place
  <1>5. Issuer(t) = "own"
    BY DEF Serving, Issuer
  <1>6. CognitoReturns(t) /\ task[t].db
    BY <1>5 DEF Serving, CognitoReturns
  <1> QED
    BY <1>1, <1>4, <1>5, <1>6

\* A client without a key is on track.
LEMMA KeylessOnTrack ==
    ASSUME NEW c,
           step'[c] \in {"start", "discover", "register", "authorize", "refresh"}
    PROVE  OnTrack(c)'
  BY DEF OnTrack, KeyOf

\* A step that touches nothing of a client leaves it where it was.
LEMMA UntouchedStays ==
    ASSUME NEW c, step'[c] = step[c], sessions'[c] = sessions[c],
           \A x : x.client = c /\ x.at = Shared => (x \in rows' <=> x \in rows)
    PROVE  /\ OnTrack(c) => OnTrack(c)'
           /\ Distance(c)' = Distance(c)
  <1>1. \A kind : At(Shared, kind, c)' = At(Shared, kind, c)
    BY DEF At
  <1>2. \A kind : Has(Shared, kind, c)' <=> Has(Shared, kind, c)
    BY <1>1 DEF Has
  <1>3. OnTrack(c) => OnTrack(c)'
    BY <1>1, <1>2 DEF OnTrack
  <1>4. Distance(c)' = Distance(c)
    BY <1>2 DEF Distance
  <1> QED
    BY <1>3, <1>4

\* The row that a login goes on with is the only one of its kind.
LEMMA AdvanceRow ==
    ASSUME NEW t \in Task, Place(t) = Shared, NEW c \in Client,
           NEW s, NEW kind, kind # "client", NEW secret, NEW orgs,
           Advance(c, s, NewRow(t, kind, c, secret, orgs))
    PROVE  /\ At(Shared, kind, c)' = {NewRow(t, kind, c, secret, orgs)}
           /\ Has(Shared, kind, c)'
           /\ Has(Shared, "client", c) => Has(Shared, "client", c)'
  <1> DEFINE new == NewRow(t, kind, c, secret, orgs)
  <1>1. new.at = Shared /\ new.kind = kind /\ new.client = c
    BY DEF NewRow
  <1>2. rows' = (rows \ Flow(c)) \cup {new}
    BY DEF Advance
  <1> HIDE DEF new
  <1>3. At(Shared, kind, c)' = {new}
    BY <1>1, <1>2 DEF At, Flow
  <1>4. Has(Shared, "client", c) => Has(Shared, "client", c)'
    BY <1>2 DEF Has, At, Flow
  <1> QED
    BY <1>3, <1>4 DEF Has, new

LEMMA RequestAdvances ==
    ASSUME FleetInv, Serving, NEW t \in Task, NEW c \in Client, Request(t, c)
    PROVE  /\ OnTrack(c) => OnTrack(c)'
           /\ \/ Distance(c)' < Distance(c)
              \/ ~OnTrack(c) /\ OnTrack(c)'
  <1>1. /\ Place(t) = Shared /\ Issuer(t) = "own" /\ CognitoReturns(t)
        /\ task[t].db
        /\ step \in [Client -> Step]
        /\ sessions \in [Client -> {"none", "empty", "scoped"}]
    BY ServingTask DEF FleetInv, TypeOK
  <1>2. GiveUp(c) => step'[c] = "start" /\ OnTrack(c)' /\ Distance(c)' = 8
    BY <1>1, KeylessOnTrack DEF GiveUp, GoTo, Distance
  <1>3. CASE Challenge(t, c)
    <2>1. step[c] = "start" /\ step'[c] = "discover"
      BY <1>1, <1>3 DEF Challenge, GoTo, serveMCP, Sees, Exposed
    <2> QED
      BY <2>1, KeylessOnTrack DEF Distance
  <1>4. CASE Discover(t, c)
    <2>1. step[c] = "discover" /\ step'[c] \in {"authorize", "register"}
      BY <1>1, <1>4 DEF Discover, GoTo
    <2> QED
      BY <2>1, KeylessOnTrack DEF Distance
  <1>5. CASE Register(t, c)
    <2> DEFINE new == NewRow(t, "client", c, "none", FALSE)
    <2>1. step[c] = "register" /\ step'[c] = "authorize" /\ new \in rows'
      BY <1>1, <1>5 DEF Register, Advance, GoTo
    <2>2. new.at = Shared /\ new.kind = "client" /\ new.client = c
      BY <1>1 DEF NewRow
    <2> HIDE DEF new
    <2>3. Has(Shared, "client", c)'
      BY <2>1, <2>2 DEF Has, At
    <2> QED
      BY <2>1, <2>3, KeylessOnTrack DEF Distance
  <1>6. CASE Authorize(t, c)
    <2>1. CASE Has(Shared, "client", c)
      <3>1. Advance(c, "callback", NewRow(t, "pending", c, "none", FALSE))
        BY <1>1, <1>6, <2>1 DEF Authorize
      <3>2. Has(Shared, "client", c)' /\ Has(Shared, "pending", c)'
        BY <1>1, <2>1, <3>1, AdvanceRow
      <3>3. step[c] = "authorize" /\ step'[c] = "callback"
        BY <1>1, <1>6, <3>1 DEF Authorize, Advance, GoTo
      <3>4. OnTrack(c)'
        BY <3>2, <3>3 DEF OnTrack, KeyOf
      <3> QED
        BY <2>1, <3>3, <3>4 DEF Distance
    <2>2. CASE ~Has(Shared, "client", c)
      <3>1. step[c] = "authorize" /\ step'[c] = "register"
        BY <1>1, <1>6, <2>2 DEF Authorize, GoTo
      <3> QED
        BY <2>2, <3>1, KeylessOnTrack DEF Distance
    <2> QED
      BY <2>1, <2>2
  <1>7. CASE Callback(t, c)
    <2>1. step[c] = "callback"
      BY <1>7 DEF Callback
    <2>2. CASE Has(Shared, "pending", c)
      <3>1. Advance(c, "consent", NewRow(t, "consent", c, Encrypt(t), task[t].db))
        BY <1>1, <1>7, <2>2 DEF Callback
      <3>2. step'[c] = "consent"
        BY <1>1, <3>1 DEF Advance, GoTo
      <3>3. /\ At(Shared, "consent", c)'
                 = {NewRow(t, "consent", c, Encrypt(t), task[t].db)}
            /\ Has(Shared, "consent", c)'
            /\ Has(Shared, "client", c) => Has(Shared, "client", c)'
        <4> DEFINE secret == Encrypt(t)
                   orgs == task[t].db
        <4>1. "consent" # "client" /\ Place(t) = Shared
          BY <1>1
        <4>2. Advance(c, "consent", NewRow(t, "consent", c, secret, orgs))
          BY <3>1
        <4> HIDE DEF secret, orgs
        <4>3. /\ At(Shared, "consent", c)' = {NewRow(t, "consent", c, secret, orgs)}
              /\ Has(Shared, "consent", c)'
              /\ Has(Shared, "client", c) => Has(Shared, "client", c)'
          BY <4>1, <4>2, AdvanceRow
        <4> QED
          BY <4>3 DEF secret, orgs
      <3>4. \A x \in At(Shared, "consent", c)' : x.orgs
        BY <1>1, <3>3 DEF NewRow
      <3>5. OnTrack(c) => OnTrack(c)'
        BY <2>1, <3>2, <3>3, <3>4 DEF OnTrack, KeyOf
      <3> QED
        BY <2>1, <3>2, <3>5 DEF Distance
    <2>3. CASE ~Has(Shared, "pending", c)
      <3>1. GiveUp(c)
        BY <1>1, <1>7, <2>3 DEF Callback
      <3>2. ~OnTrack(c)
        BY <2>1, <2>3 DEF OnTrack, KeyOf
      <3> QED
        BY <1>2, <3>1, <3>2
    <2> QED
      BY <2>2, <2>3
  <1>8. CASE Consent(t, c)
    <2>1. step[c] = "consent"
      BY <1>8 DEF Consent
    <2>2. ASSUME NEW x \in At(Shared, "consent", c),
                 Advance(c, "code", NewRow(t, "code", c, x.secret, x.orgs))
          PROVE  (OnTrack(c) => OnTrack(c)') /\ Distance(c)' < Distance(c)
      <3>1. step'[c] = "code"
        BY <1>1, <2>2 DEF Advance, GoTo
      <3>2. /\ At(Shared, "code", c)' = {NewRow(t, "code", c, x.secret, x.orgs)}
            /\ Has(Shared, "code", c)'
        BY <1>1, <2>2, AdvanceRow
      <3>3. OnTrack(c) => \A y \in At(Shared, "code", c)' : y.orgs
        BY <2>1, <3>2 DEF OnTrack, NewRow
      <3>4. OnTrack(c) => OnTrack(c)'
        BY <3>1, <3>2, <3>3 DEF OnTrack, KeyOf
      <3> QED
        BY <2>1, <3>1, <3>4 DEF Distance
    <2>3. CASE GiveUp(c) /\ (~Has(Shared, "consent", c) \/ ~Has(Shared, "client", c))
      <3>1. ~OnTrack(c)
        BY <2>1, <2>3 DEF OnTrack, KeyOf
      <3> QED
        BY <1>2, <2>3, <3>1
    <2> QED
      BY <1>1, <1>8, <2>2, <2>3 DEF Consent
  <1>9. ASSUME NEW secret, NEW orgs, Answer(t, c, secret, orgs)
        PROVE  /\ step'[c] = "ready" /\ Distance(c)' = 0
               /\ orgs => OnTrack(c)'
    <2>1. step'[c] = "ready" /\ sessions'[c] = Session(t, orgs)
      BY <1>1, <1>9 DEF Answer, GoTo
    <2>2. orgs => sessions'[c] = "scoped"
      BY <1>1, <2>1 DEF Session
    <2> QED
      BY <2>1, <2>2 DEF OnTrack, KeyOf, Distance
  <1>10. CASE ExchangeCode(t, c)
    <2>1. step[c] = "code" /\ Distance(c) = 1
      BY <1>10 DEF ExchangeCode, Distance
    <2>2. CASE GiveUp(c) /\ ~Has(Shared, "code", c)
      <3>1. ~OnTrack(c)
        BY <2>1, <2>2 DEF OnTrack, KeyOf
      <3> QED
        BY <1>2, <2>2, <3>1
    <2>3. ASSUME NEW x \in At(Shared, "code", c), Answer(t, c, x.secret, x.orgs)
          PROVE  (OnTrack(c) => OnTrack(c)') /\ Distance(c)' < Distance(c)
      <3>1. OnTrack(c) => x.orgs
        BY <2>1 DEF OnTrack
      <3>2. Distance(c)' = 0 /\ (x.orgs => OnTrack(c)')
        BY <1>9, <2>3
      <3> QED
        BY <2>1, <3>1, <3>2
    <2> QED
      BY <1>1, <1>10, <2>2, <2>3 DEF ExchangeCode
  <1>11. CASE Refresh(t, c)
    <2>1. Distance(c) = 9
      BY <1>11 DEF Refresh, Distance
    <2>2. ASSUME NEW secret, NEW orgs, Answer(t, c, secret, task[t].db \/ orgs)
          PROVE  OnTrack(c)' /\ Distance(c)' = 0
      BY <1>1, <1>9, <2>2
    <2>3. OnTrack(c)' /\ Distance(c)' \in {0, 8}
      BY <1>2, <1>11, <2>2 DEF Refresh
    <2> QED
      BY <2>1, <2>3
  <1> QED
    BY <1>3, <1>4, <1>5, <1>6, <1>7, <1>8, <1>10, <1>11 DEF Request

LEMMA RequestKeepsSessions ==
    ASSUME TypeOK, NEW t \in Task, NEW c \in Client, Request(t, c),
           NEW d \in Client, d # c
    PROVE  sessions'[d] = sessions[d]
  BY DEF TypeOK, Request, Challenge, Discover, Register, Authorize, Callback,
         Consent, ExchangeCode, Refresh, Answer

\* A step that is no request and no expiry of a client leaves it where it was.
LEMMA WaitsInPlace ==
    ASSUME FleetInv, Serving, [Next]_vars, NEW c \in Client,
           ~Serve(c), ~AccessExpires(c)
    PROVE  /\ OnTrack(c) => OnTrack(c)'
           /\ Distance(c)' = Distance(c)
  <1>0. TypeOK /\ step \in [Client -> Step]
        /\ sessions \in [Client -> {"none", "empty", "scoped"}]
    BY DEF FleetInv, TypeOK
  <1>1. ASSUME NEW t \in Task, Start(t)
        PROVE  (OnTrack(c) => OnTrack(c)') /\ Distance(c)' = Distance(c)
    BY <1>1, UntouchedStays DEF Start
  <1>2. ASSUME NEW t \in Task, Stop(t)
        PROVE  (OnTrack(c) => OnTrack(c)') /\ Distance(c)' = Distance(c)
    <2>1. \A x : x.at = Shared => (x \in rows' <=> x \in rows)
      BY <1>2, FleetAssumption DEF Stop
    <2> QED
      BY <1>2, <2>1, UntouchedStays DEF Stop
  <1>3. ASSUME NEW v \in Variable, Provision(v)
        PROVE  (OnTrack(c) => OnTrack(c)') /\ Distance(c)' = Distance(c)
    BY <1>3, UntouchedStays DEF Provision
  <1>4. ASSUME NEW d \in Client, Serve(d)
        PROVE  (OnTrack(c) => OnTrack(c)') /\ Distance(c)' = Distance(c)
    <2>1. PICK t \in Task : task[t].up /\ Request(t, d)
      BY <1>4 DEF Serve
    <2>2. c # d
      BY <1>4
    <2>3. /\ step'[c] = step[c]
          /\ \A x : x.client = c => (x \in rows' <=> x \in rows)
      BY <1>0, <2>1, <2>2, OthersKeep
    <2>4. sessions'[c] = sessions[c]
      BY <1>0, <2>1, <2>2, RequestKeepsSessions
    <2> QED
      BY <2>3, <2>4, UntouchedStays
  <1>5. ASSUME NEW d \in Client, AccessExpires(d)
        PROVE  (OnTrack(c) => OnTrack(c)') /\ Distance(c)' = Distance(c)
    <2>1. c # d
      BY <1>5
    <2>2. step'[c] = step[c] /\ sessions'[c] = sessions[c] /\ rows' = rows
      BY <1>0, <1>5, <2>1 DEF AccessExpires, GoTo
    <2> QED
      BY <2>2, UntouchedStays
  <1>6. ASSUME NEW d \in Client, WindowEnds(d)
        PROVE  (OnTrack(c) => OnTrack(c)') /\ Distance(c)' = Distance(c)
    <2>1. UNCHANGED <<step, sessions>> /\ rows' = rows \ Flow(d)
      BY <1>6 DEF WindowEnds
    <2>2. CASE c = d
      <3>1. step[c] = "ready" /\ step'[c] = "ready"
        BY <1>6, <2>1, <2>2 DEF WindowEnds
      <3> QED
        BY <2>1, <3>1 DEF OnTrack, Distance, KeyOf
    <2>3. CASE c # d
      <3>1. \A x : x.client = c => (x \in rows' <=> x \in rows)
        BY <2>1, <2>3 DEF Flow
      <3> QED
        BY <2>1, <3>1, UntouchedStays
    <2> QED
      BY <2>2, <2>3
  <1>7. CASE UNCHANGED vars
    BY <1>7, UntouchedStays DEF vars
  <1> QED
    BY <1>1, <1>2, <1>3, <1>4, <1>5, <1>6, <1>7 DEF Next

LEMMA AdvanceNext ==
    FleetInv /\ [Next]_vars =>
       [Serving =>
          \A c \in Client :
             /\ OnTrack(c) \/ AccessExpires(c) => OnTrack(c)'
             /\ Serve(c) => \/ Distance(c)' < Distance(c)
                            \/ ~OnTrack(c) /\ OnTrack(c)'
             /\ Serve(c) \/ AccessExpires(c) \/ Distance(c)' = Distance(c)]_vars
  <1> SUFFICES ASSUME FleetInv, [Next]_vars, Serving, NEW c \in Client
               PROVE  /\ OnTrack(c) \/ AccessExpires(c) => OnTrack(c)'
                      /\ Serve(c) => \/ Distance(c)' < Distance(c)
                                     \/ ~OnTrack(c) /\ OnTrack(c)'
                      /\ \/ Serve(c) \/ AccessExpires(c)
                         \/ Distance(c)' = Distance(c)
    OBVIOUS
  <1>1. ASSUME Serve(c)
        PROVE  /\ OnTrack(c) => OnTrack(c)'
               /\ Distance(c)' < Distance(c) \/ (~OnTrack(c) /\ OnTrack(c)')
    <2>1. PICK t \in Task : task[t].up /\ Request(t, c)
      BY <1>1 DEF Serve
    <2> QED
      BY <2>1, RequestAdvances
  <1>2. AccessExpires(c) => OnTrack(c)'
    <2>1. AccessExpires(c) => step'[c] \in {"start", "refresh"}
      BY DEF AccessExpires, GoTo, FleetInv, TypeOK
    <2> QED
      BY <2>1, KeylessOnTrack
  <1>3. ASSUME ~Serve(c), ~AccessExpires(c)
        PROVE  (OnTrack(c) => OnTrack(c)') /\ Distance(c)' = Distance(c)
    BY <1>3, WaitsInPlace
  <1> QED
    BY <1>1, <1>2, <1>3

\* Every handler from the 401 of requireBearer to the token response: while
\* each task has issuer, Cognito, tables and database, the requests of a login
\* lead to a session with organizations, at most nine of them after the first
\* answer that finds it on track.  With the fairness of FairSpec this is the
\* argument for SignsIn.
THEOREM LoginsComeCloser == Spec => LoginsAdvance
  BY FleetInvariance, AdvanceNext, PTL DEF Spec, LoginsAdvance

\* A client goes on with what it began, and its sessions expire.
GoesOn(c) == []<><<Serve(c) \/ AccessExpires(c)>>_vars

Within(c, k) == Distance(c) <= k
Scoped(c) == sessions[c] = "scoped"

\* A client that is k answers away is nearer, or has not been answered yet.
StageStep(c, k, j) ==
    Within(c, k) /\ ~(OnTrack(c) /\ Scoped(c)) =>
       \/ ~OnTrack(c) /\ OnTrack(c)'
       \/ Within(c, j)'
       \/ Within(c, k)' /\ [~(Serve(c) \/ AccessExpires(c))]_vars

LEMMA DistanceRange == TypeOK => \A c \in Client : Distance(c) \in 0..9
  BY DEF TypeOK, Step, KeyOf, Distance

LEMMA StageSteps ==
    ASSUME FleetInv, FleetInv', [Next]_vars, Serving, NEW c \in Client
    PROVE  /\ OnTrack(c) => OnTrack(c)'
           /\ \A j, k \in 0..9 : k = j + 1 => StageStep(c, k, j)
           /\ Within(c, 0) /\ ~(OnTrack(c) /\ Scoped(c)) =>
                 \/ ~OnTrack(c) /\ OnTrack(c)'
                 \/ /\ Within(c, 0)'
                    /\ [~(Serve(c) \/ AccessExpires(c))]_vars
  <1>1. Distance(c) \in 0..9 /\ Distance(c)' \in 0..9
    <2>1. TypeOK' => Distance(c)' \in 0..9
      BY DEF TypeOK, Step, KeyOf, Distance
    <2> QED
      BY <2>1, DistanceRange DEF FleetInv
  <1>2. CASE UNCHANGED vars
    <2>1. (OnTrack(c) => OnTrack(c)') /\ Distance(c)' = Distance(c)
      BY <1>2, UntouchedStays DEF vars
    <2> QED
      BY <1>1, <1>2, <2>1 DEF StageStep, Within
  <1>3. CASE ~Serve(c) /\ ~AccessExpires(c)
    <2>1. (OnTrack(c) => OnTrack(c)') /\ Distance(c)' = Distance(c)
      BY <1>3, WaitsInPlace
    <2> QED
      BY <1>1, <1>3, <2>1 DEF StageStep, Within
  <1>4. CASE Serve(c)
    <2>1. PICK t \in Task : task[t].up /\ Request(t, c)
      BY <1>4 DEF Serve
    <2>2. /\ OnTrack(c) => OnTrack(c)'
          /\ Distance(c)' < Distance(c) \/ (~OnTrack(c) /\ OnTrack(c)')
      BY <2>1, RequestAdvances
    <2> QED
      BY <1>1, <2>2 DEF StageStep, Within
  <1>5. CASE AccessExpires(c)
    <2>1. step[c] = "ready" /\ step'[c] \in {"start", "refresh"}
      BY <1>5 DEF AccessExpires, GoTo, FleetInv, TypeOK
    <2>2. OnTrack(c)' /\ (OnTrack(c) => Scoped(c))
      BY <2>1, KeylessOnTrack DEF OnTrack, Scoped
    <2> QED
      BY <2>2 DEF StageStep
  <1> QED
    BY <1>2, <1>3, <1>4, <1>5

\* What holds from the time on at which every task serves.
Served == []FleetInv /\ [][Next]_vars /\ []Serving

\* One answer after the other.
LEMMA StageEnds ==
    ASSUME NEW c \in Client, NEW j \in 0..9, NEW k \in 0..9, k = j + 1
    PROVE  Served /\ GoesOn(c) =>
              /\ [](OnTrack(c) /\ Within(c, k) =>
                       <>(Scoped(c) \/ (OnTrack(c) /\ Within(c, j))))
              /\ [](Within(c, k) => <>(OnTrack(c) \/ Within(c, j)))
  <1>1. FleetInv /\ FleetInv' /\ [Next]_vars /\ Serving =>
           /\ OnTrack(c) => OnTrack(c)'
           /\ Within(c, k) /\ ~(OnTrack(c) /\ Scoped(c)) =>
                 \/ ~OnTrack(c) /\ OnTrack(c)'
                 \/ Within(c, j)'
                 \/ Within(c, k)' /\ [~(Serve(c) \/ AccessExpires(c))]_vars
    BY StageSteps DEF StageStep
  <1> QED
    BY <1>1, PTL DEF Served, GoesOn

\* The two halves of StageEnds for one client.
Stage(c, k, j) ==
    Served /\ GoesOn(c) =>
       /\ [](OnTrack(c) /\ Within(c, k) =>
                <>(Scoped(c) \/ (OnTrack(c) /\ Within(c, j))))
       /\ [](Within(c, k) => <>(OnTrack(c) \/ Within(c, j)))

LEMMA GoingOnIsScoped ==
    ASSUME NEW c \in Client
    PROVE  Served /\ GoesOn(c) => []<>Scoped(c)
  <1>1. \A j, k \in 0..9 : k = j + 1 => Stage(c, k, j)
    BY StageEnds DEF Stage
  <1>2. FleetInv => Within(c, 9)
    BY DistanceRange DEF FleetInv, Within
  <1>3. FleetInv /\ OnTrack(c) /\ Within(c, 0) => Scoped(c)
    <2>1. FleetInv /\ Within(c, 0) => step[c] = "ready"
      BY DEF FleetInv, TypeOK, Step, KeyOf, Within, Distance
    <2> QED
      BY <2>1 DEF OnTrack, Scoped
  <1>4. FleetInv /\ FleetInv' /\ [Next]_vars /\ Serving =>
           (Within(c, 0) /\ ~(OnTrack(c) /\ Scoped(c)) =>
              \/ ~OnTrack(c) /\ OnTrack(c)'
              \/ Within(c, 0)' /\ [~(Serve(c) \/ AccessExpires(c))]_vars)
    BY StageSteps
  <1>5. /\ Stage(c, 9, 8) /\ Stage(c, 8, 7) /\ Stage(c, 7, 6)
        /\ Stage(c, 6, 5) /\ Stage(c, 5, 4) /\ Stage(c, 4, 3)
        /\ Stage(c, 3, 2) /\ Stage(c, 2, 1) /\ Stage(c, 1, 0)
    BY <1>1
  <1> QED
    BY <1>2, <1>3, <1>4, <1>5, PTL DEF Served, GoesOn, Stage

\* The whole way from the 401 of requireBearer to the token response: once every
\* task serves for good, a client that goes on gets a session with its
\* organizations again and again.  This is SignsIn but for its fairness, which
\* says that a client whose request can be served does go on.
THEOREM ClientsThatGoOnSignIn ==
    Spec => (<>[]Serving =>
                \A c \in Client :
                   []<><<Serve(c) \/ AccessExpires(c)>>_vars
                      => []<>(sessions[c] = "scoped"))
  <1>1. ASSUME NEW c \in Client
        PROVE  Spec => (<>[]Serving => (GoesOn(c) => []<>Scoped(c)))
    <2>1. Served /\ GoesOn(c) => []<>Scoped(c)
      BY GoingOnIsScoped
    <2> QED
      BY <2>1, FleetInvariance, PTL DEF Spec, Served, GoesOn
  <1> QED
    BY <1>1 DEF GoesOn, Scoped
-----------------------------------------------------------------------------
(* What SilentRefresh needs of the state.                                  *)

\* The refresh token of a client, if it has one, is where every task finds it,
\* and no task that holds the key would fail to decrypt what a row carries.
Redeemable(c) ==
    /\ c \in refreshable \/ step[c] = "refresh" => Has(Shared, "refresh", c)
    /\ \A x \in rows : x.client = c /\ x.at = Shared => x.secret # "plain"

LEMMA SettledTask ==
    ASSUME FleetInv, Settled, NEW t \in Task
    PROVE  /\ Place(t) = Shared /\ StoresRefresh(t) /\ Encrypt(t) = "sealed"
           /\ \A secret : secret = "sealed" => Recovers(t, secret)
           /\ Recovers(t, "plain") = FALSE
  <1>1. /\ Place(t) = Shared /\ t \in Running
        /\ task[t].env = Variable /\ task[t].awsForKMS
    BY ServingTask DEF Settled, Serving
  <1>2. task[t].crypter = buildCrypter(task[t].env, task[t].awsForKMS)
    BY <1>1 DEF FleetInv, ChoiceKept
  <1>3. task[t].crypter = "kms"
    BY <1>1, <1>2 DEF buildCrypter, Variable
  <1> QED
    BY <1>1, <1>3 DEF StoresRefresh, Variable, Encrypt, Recovers

\* An answer that begins a login again leaves nothing to redeem.
LEMMA GiveUpRedeemable ==
    ASSUME FleetInv, NEW c \in Client, GiveUp(c)
    PROVE  Redeemable(c)' /\ step'[c] = "start"
  <1>1. step'[c] = "start" /\ c \notin refreshable'
    BY DEF GiveUp, GoTo, FleetInv, TypeOK
  <1>2. ASSUME NEW x \in rows', x.client = c PROVE x.secret # "plain"
    <2>1. x \in Row /\ x.kind = "client"
      BY <1>2 DEF GiveUp, Flow, FleetInv, TypeOK
    <2> QED
      BY <2>1 DEF Row, RowOf
  <1> QED
    BY <1>1, <1>2 DEF Redeemable

\* A login goes on with a secret that is not in the clear.
LEMMA AdvanceRedeemable ==
    ASSUME FleetInv, NEW t \in Task, NEW c \in Client, NEW s \in Step,
           s # "refresh", NEW kind, NEW secret, secret # "plain", NEW orgs,
           step[c] \notin {"ready", "refresh"}, UNCHANGED refreshable,
           Advance(c, s, NewRow(t, kind, c, secret, orgs)), Redeemable(c)
    PROVE  Redeemable(c)'
  <1> DEFINE new == NewRow(t, kind, c, secret, orgs)
  <1>1. new.secret # "plain"
    BY DEF NewRow
  <1>2. rows' = (rows \ Flow(c)) \cup {new}
    BY DEF Advance
  <1>3. c \notin refreshable' /\ step'[c] = s
    BY DEF FleetInv, TypeOK, TokensAreLate, Advance, GoTo
  <1> HIDE DEF new
  <1>4. \A x \in rows' : x.client = c /\ x.at = Shared => x.secret # "plain"
    BY <1>1, <1>2 DEF Redeemable
  <1> QED
    BY <1>3, <1>4 DEF Redeemable

\* The tail of both grants: a stored secret is the one the answer was given.
LEMMA AnswerRedeemable ==
    ASSUME FleetInv, Settled, NEW t \in Task, NEW c \in Client,
           NEW secret, secret # "plain", NEW orgs, Answer(t, c, secret, orgs)
    PROVE  Redeemable(c)' /\ step'[c] = "ready"
  <1> DEFINE new == NewRow(t, "refresh", c, secret, orgs)
  <1>1. /\ new.at = Shared /\ new.kind = "refresh" /\ new.client = c
        /\ new.secret # "plain"
    BY SettledTask DEF NewRow
  <1>2. step'[c] = "ready"
    BY DEF Answer, GoTo, FleetInv, TypeOK
  <1>3. \A x \in rows \ Flow(c) : x.client = c => x.secret # "plain"
    BY DEF Flow, FleetInv, TypeOK, Row, RowOf
  <1>4. IF secret # "none" /\ StoresRefresh(t)
        THEN rows' = (rows \ Flow(c)) \cup {new}
        ELSE rows' = rows \ Flow(c) /\ c \notin refreshable'
    BY DEF Answer
  <1> HIDE DEF new
  <1>5. \A x \in rows' : x.client = c => x.secret # "plain"
    BY <1>1, <1>3, <1>4
  <1>6. c \in refreshable' => Has(Shared, "refresh", c)'
    BY <1>1, <1>4 DEF Has, At
  <1> QED
    BY <1>2, <1>5, <1>6 DEF Redeemable

LEMMA RequestRedeemable ==
    ASSUME FleetInv, Settled, NEW t \in Task, NEW c \in Client, Request(t, c)
    PROVE  /\ Redeemable(c) => Redeemable(c)'
           /\ step[c] = "refresh" =>
                 /\ Redeemable(c)'
                 /\ Redeemable(c) => step'[c] # "start"
  <1>1. /\ Place(t) = Shared /\ StoresRefresh(t) /\ Encrypt(t) = "sealed"
        /\ step \in [Client -> Step] /\ rows \subseteq Row
        /\ c \in refreshable => step[c] \in {"ready", "refresh"}
    BY SettledTask DEF FleetInv, TypeOK, TokensAreLate
  <1>2. ASSUME NEW kind, NEW x \in At(Shared, kind, c), Redeemable(c)
        PROVE  x.secret # "plain"
    BY <1>2 DEF At, Redeemable
  <1>3. CASE Challenge(t, c) \/ Discover(t, c)
    <2>1. UNCHANGED <<rows, refreshable>> /\ step[c] # "refresh"
      BY <1>3 DEF Challenge, Discover
    <2>2. step'[c] # "refresh"
      BY <1>1, <1>3 DEF Challenge, Discover, GoTo
    <2> QED
      BY <2>1, <2>2 DEF Redeemable, Has, At
  <1>4. CASE Register(t, c)
    <2>1. /\ step[c] = "register" /\ UNCHANGED refreshable
          /\ Advance(c, "authorize", NewRow(t, "client", c, "none", FALSE))
      BY <1>4 DEF Register
    <2>2. "authorize" \in Step
      BY DEF Step
    <2> QED
      BY <2>1, <2>2, AdvanceRedeemable
  <1>5. CASE Authorize(t, c)
    <2>1. step[c] = "authorize"
      BY <1>5 DEF Authorize
    <2>2. CASE GoTo(c, "register") /\ rows' = {x \in rows : x.client # c}
               /\ UNCHANGED refreshable
      <3>1. step'[c] = "register" /\ c \notin refreshable'
        BY <1>1, <2>1, <2>2 DEF GoTo
      <3> QED
        BY <2>1, <2>2, <3>1 DEF Redeemable
    <2>3. CASE Advance(c, "callback", NewRow(t, "pending", c, "none", FALSE))
               /\ UNCHANGED refreshable
      <3>1. "callback" \in Step
        BY DEF Step, KeyOf
      <3> QED
        BY <2>1, <2>3, <3>1, AdvanceRedeemable
    <2> QED
      BY <1>5, <2>1, <2>2, <2>3, GiveUpRedeemable DEF Authorize
  <1>6. CASE Callback(t, c)
    <2>1. step[c] = "callback"
      BY <1>6 DEF Callback
    <2>2. CASE Advance(c, "consent", NewRow(t, "consent", c, "sealed", task[t].db))
               /\ UNCHANGED refreshable
      <3>1. "consent" \in Step
        BY DEF Step, KeyOf
      <3> QED
        BY <2>1, <2>2, <3>1, AdvanceRedeemable
    <2> QED
      BY <1>1, <1>6, <2>1, <2>2, GiveUpRedeemable DEF Callback
  <1>7. CASE Consent(t, c)
    <2>1. step[c] = "consent"
      BY <1>7 DEF Consent
    <2>2. ASSUME NEW x \in At(Shared, "consent", c), Redeemable(c),
                 Advance(c, "code", NewRow(t, "code", c, x.secret, x.orgs)),
                 UNCHANGED refreshable
          PROVE  Redeemable(c)'
      <3>1. "code" \in Step /\ x.secret # "plain"
        BY <1>2, <2>2 DEF Step, KeyOf
      <3> QED
        BY <2>1, <2>2, <3>1, AdvanceRedeemable
    <2> QED
      BY <1>1, <1>7, <2>1, <2>2, GiveUpRedeemable DEF Consent
  <1>8. CASE ExchangeCode(t, c)
    <2>1. step[c] = "code"
      BY <1>8 DEF ExchangeCode
    <2>2. ASSUME NEW x \in At(Shared, "code", c), Redeemable(c),
                 Answer(t, c, x.secret, x.orgs)
          PROVE  Redeemable(c)'
      BY <1>2, <2>2, AnswerRedeemable
    <2> QED
      BY <1>1, <1>8, <2>1, <2>2, GiveUpRedeemable DEF ExchangeCode
  <1>9. CASE Refresh(t, c)
    <2>1. step[c] = "refresh"
      BY <1>9 DEF Refresh
    <2>2. CASE GiveUp(c) /\ ~Has(Shared, "refresh", c)
      <3>1. ~Redeemable(c)
        BY <2>1, <2>2 DEF Redeemable
      <3> QED
        BY <2>2, <3>1, GiveUpRedeemable
    <2>3. ASSUME NEW x \in At(Shared, "refresh", c),
                 IF Recovers(t, x.secret)
                 THEN Answer(t, c, x.secret, task[t].db \/ x.orgs)
                 ELSE GiveUp(c)
          PROVE  Redeemable(c)' /\ (Redeemable(c) => step'[c] # "start")
      <3>1. x.secret \in {"plain", "sealed"}
        BY <1>1 DEF At, Row, RowOf
      <3>2. CASE x.secret = "sealed"
        <4>1. Answer(t, c, x.secret, task[t].db \/ x.orgs)
          BY <2>3, <3>2, SettledTask
        <4>2. Redeemable(c)' /\ step'[c] = "ready"
          BY <3>2, <4>1, AnswerRedeemable
        <4> QED
          BY <4>2
      <3>3. CASE x.secret = "plain"
        <4>1. GiveUp(c)
          BY <2>3, <3>3, SettledTask
        <4>2. ~Redeemable(c)
          BY <1>2, <3>3
        <4> QED
          BY <4>1, <4>2, GiveUpRedeemable
      <3> QED
        BY <3>1, <3>2, <3>3
    <2> QED
      BY <1>1, <1>9, <2>1, <2>2, <2>3 DEF Refresh
  <1> QED
    BY <1>3, <1>4, <1>5, <1>6, <1>7, <1>8, <1>9 DEF Request

\* A step that takes from a client nothing but an unused token.
LEMMA RedeemableStays ==
    ASSUME NEW c, Redeemable(c), step'[c] = step[c],
           c \in refreshable' => c \in refreshable,
           \A x \in rows' : x.client = c /\ x.at = Shared => x \in rows,
           \A x \in rows :
              x.client = c /\ x.at = Shared /\ x.kind = "refresh" => x \in rows'
    PROVE  Redeemable(c)' /\ (step[c] = "refresh" => step'[c] # "start")
  <1>1. Has(Shared, "refresh", c) => Has(Shared, "refresh", c)'
    BY DEF Has, At
  <1> QED
    BY <1>1 DEF Redeemable

\* What one step does to the token of one client.
Kept(c) ==
    /\ Redeemable(c) => /\ Redeemable(c)'
                        /\ step[c] = "refresh" => step'[c] # "start"
    /\ step[c] = "refresh" /\ step'[c] # "refresh" => Redeemable(c)'

LEMMA RedeemableNext ==
    ASSUME FleetInv, [Next]_vars, Settled, NEW c \in Client
    PROVE  Kept(c)
  <1>0. TypeOK /\ step \in [Client -> Step]
    BY DEF FleetInv, TypeOK
  <1>1. ASSUME Redeemable(c) => /\ Redeemable(c)'
                                /\ step[c] = "refresh" => step'[c] # "start",
               step[c] # "refresh" \/ step'[c] = step[c]
        PROVE  Kept(c)
    BY <1>1 DEF Kept
  <1>2. CASE Serve(c)
    <2>1. PICK t \in Task : task[t].up /\ Request(t, c)
      BY <1>2 DEF Serve
    <2> QED
      BY <2>1, RequestRedeemable DEF Kept
  <1>3. ASSUME NEW d \in Client, d # c, Serve(d) PROVE Kept(c)
    <2>1. PICK t \in Task : task[t].up /\ Request(t, d)
      BY <1>3 DEF Serve
    <2>2. /\ step'[c] = step[c]
          /\ c \in refreshable' <=> c \in refreshable
          /\ \A x : x.client = c => (x \in rows' <=> x \in rows)
      BY <1>0, <1>3, <2>1, OthersKeep
    <2> QED
      BY <1>1, <2>2, RedeemableStays
  <1>4. ASSUME NEW t \in Task, Start(t) \/ Stop(t) PROVE Kept(c)
    <2>1. t # Shared
      BY FleetAssumption
    <2> QED
      BY <1>1, <1>4, <2>1, RedeemableStays DEF Start, Stop
  <1>5. ASSUME NEW v \in Variable, Provision(v) PROVE Kept(c)
    BY <1>1, <1>5, RedeemableStays DEF Provision
  <1>6. ASSUME NEW d \in Client, AccessExpires(d) PROVE Kept(c)
    <2>1. CASE d = c
      <3>1. /\ step[c] = "ready" /\ UNCHANGED <<rows, refreshable>>
            /\ step'[c] = "refresh" => c \in refreshable
        BY <1>0, <1>6, <2>1 DEF AccessExpires, GoTo
      <3>2. Redeemable(c) => Redeemable(c)'
        BY <3>1 DEF Redeemable, Has, At
      <3> QED
        BY <3>1, <3>2 DEF Kept
    <2>2. CASE d # c
      <3>1. step'[c] = step[c] /\ UNCHANGED <<rows, refreshable>>
        BY <1>0, <1>6, <2>2 DEF AccessExpires, GoTo
      <3> QED
        BY <1>1, <3>1, RedeemableStays
    <2> QED
      BY <2>1, <2>2
  <1>7. ASSUME NEW d \in Client, WindowEnds(d) PROVE Kept(c)
    <2>1. /\ UNCHANGED step /\ rows' = rows \ Flow(d)
          /\ step[d] = "ready" /\ refreshable' = refreshable \ {d}
      BY <1>7 DEF WindowEnds
    <2>2. CASE d = c
      BY <2>1, <2>2 DEF Kept, Redeemable
    <2>3. CASE d # c
      <3>1. \A x : x.client = c => (x \in rows' <=> x \in rows)
        BY <2>1, <2>3 DEF Flow
      <3> QED
        BY <1>1, <2>1, <2>3, <3>1, RedeemableStays
    <2> QED
      BY <2>2, <2>3
  <1>8. CASE UNCHANGED vars
    <2>1. UNCHANGED <<rows, step, refreshable>>
      BY <1>8 DEF vars
    <2>2. Redeemable(c) => Redeemable(c)' /\ (step[c] = "refresh" => step'[c] # "start")
      BY <2>1, RedeemableStays
    <2> QED
      BY <1>1, <2>1, <2>2
  <1> QED
    BY <1>2, <1>3, <1>4, <1>5, <1>6, <1>7, <1>8 DEF Next

\* Decrypt and the rotation of postToken, for each client by itself.
LEMMA RedeemableLasts == Spec => [][Settled => \A c \in Client : Kept(c)]_vars
  <1>1. FleetInv /\ [Next]_vars => [Settled => \A c \in Client : Kept(c)]_vars
    BY RedeemableNext
  <1> QED
    BY <1>1, FleetInvariance, PTL DEF Spec

\* buildCrypter, Decrypt and the rotation of postToken: once every task has
\* everything, no refresh is refused any more from some time on.  No fairness
\* is needed: either a refresh comes, and from its answer on tokens can be
\* redeemed, or none comes, and none is refused.
THEOREM RefreshesAreSilent == Spec => SilentRefresh
  <1>1. ASSUME NEW c \in Client
        PROVE  Spec => (<>[]Settled =>
                           <>[][step[c] = "refresh" => step'[c] # "start"]_vars)
    <2> DEFINE R == Redeemable(c)
    <2>1. FleetInv /\ [Next]_vars /\ Settled /\ R => R'
      BY RedeemableNext DEF Kept
    <2>2. FleetInv /\ [Next]_vars /\ Settled /\ R
             => [step[c] = "refresh" => step'[c] # "start"]_vars
      BY RedeemableNext DEF Kept
    <2>3. FleetInv /\ [Next]_vars /\ Settled
             => [step[c] = "refresh" => step'[c] # "start"]_vars \/ R'
      BY RedeemableNext DEF Kept
    <2> HIDE DEF R
    <2> QED
      BY <2>1, <2>2, <2>3, FleetInvariance, PTL DEF Spec
  <1> QED
    BY <1>1 DEF SilentRefresh
=============================================================================
