-------------------------- MODULE OAuthFlowProofs --------------------------
(***************************************************************************)
(* Theorems about OAuthFlow for every number of logins and handlers, every *)
(* TTL, every handler delay and every bound: its types, what a login gives *)
(* and to whom, and how long access lasts.                                 *)
(***************************************************************************)
EXTENDS OAuthFlow, TLAPS
-----------------------------------------------------------------------------
(* Type correctness.                                                       *)

\* Init establishes the type invariant.
LEMMA TypeInit == Init => TypeOK
  BY DEF Init, TypeOK, Time, Never

\* Minting yields one more key.
LEMMA MintType == TypeOK /\ Mint => Fresh \in Nat /\ minted' \in Nat
  BY DEF TypeOK, Mint, Fresh

\* Storing a row keeps the store a set of rows.
LEMMA PutType ==
  ASSUME TypeOK, NEW x \in Row, NEW ok \in BOOLEAN, Put(x, ok)
  PROVE  store' \subseteq Row
  BY DEF TypeOK, Put

\* A busy handler holds a row, and may end or go on with it.
LEMMA BusyType ==
  ASSUME TypeOK, NEW r \in Req, NEW pc \in Working, req[r].pc = pc
  PROVE  req[r] \in Busy /\ Holding(r) \in Row
  BY DEF TypeOK, Idle, Busy, Holding, Working

\* A handler that ends, starts or goes on keeps the type of req.
LEMMA FinishType ==
  ASSUME TypeOK, NEW r \in Req, Finish(r) PROVE req' \in [Req -> {Idle} \cup Busy]
  BY DEF TypeOK, Finish

\* persistMCPSession keeps every type, whether or not the insert succeeds.
LEMMA PersistType ==
  ASSUME TypeOK, NEW r \in Req, NEW via \in {"code", "refresh"},
         NEW pc \in Working, req[r].pc = pc, NEW next \in Working,
         PersistSession(r, via, next)
  PROVE  /\ minted' \in Nat
         /\ sessions' \subseteq Session
         /\ req' \in [Req -> {Idle} \cup Busy]
<1>1. Fresh \in Nat /\ minted' \in Nat
  BY MintType DEF PersistSession
<1>2. req[r] \in Busy /\ Holding(r) \in Row
  BY BusyType
<1>3. [key |-> Fresh, login |-> Holding(r).login,
       expires |-> now + AccessTTL, via |-> via] \in Session
  BY <1>1, <1>2, TTLAssumption DEF TypeOK, Row, Session
<1>4. sessions' \subseteq Session
  BY <1>3 DEF PersistSession, TypeOK
<1>5. [req[r] EXCEPT !.pc = next, !.access = Fresh] \in Busy
  BY <1>1, <1>2 DEF Busy
<1>6. req' = [req EXCEPT ![r] = [req[r] EXCEPT !.pc = next, !.access = Fresh]]
  BY DEF PersistSession
<1>7. req' \in [Req -> {Idle} \cup Busy]
  BY <1>5, <1>6 DEF TypeOK
<1> QED
  BY <1>1, <1>4, <1>7

\* The answer of a token request keeps every type.
LEMMA AnswerType ==
  ASSUME TypeOK, NEW r \in Req, NEW pc \in Working, req[r].pc = pc,
         NEW expires \in Nat,
         AnswerWithRefresh(r, expires) \/ AnswerWithoutRefresh(r)
  PROVE  /\ minted' \in Nat
         /\ store' \subseteq Row
         /\ handed' \subseteq Nat
         /\ req' \in [Req -> {Idle} \cup Busy]
<1> DEFINE y == [Holding(r) EXCEPT !.key = Fresh, !.stage = "refresh",
                                   !.expires = expires]
<1>1. req[r] \in Busy /\ req[r].access \in Nat /\ Holding(r) \in Row
  BY BusyType DEF Busy
<1>2. req' \in [Req -> {Idle} \cup Busy]
  BY FinishType DEF AnswerWithRefresh, AnswerWithoutRefresh
<1>3. CASE AnswerWithRefresh(r, expires)
  <2>1. Fresh \in Nat /\ minted' \in Nat
    BY <1>3, MintType DEF AnswerWithRefresh
  <2>2. y \in Row
    BY <1>1, <2>1 DEF Row, Stage
  <2>3. PICK ok \in BOOLEAN :
          /\ Put(y, ok)
          /\ handed' = handed \cup {req[r].access} \cup (IF ok THEN {Fresh} ELSE {})
    BY <1>3 DEF AnswerWithRefresh
  <2>4. store' \subseteq Row
    BY <2>2, <2>3, PutType
  <2> QED
    BY <1>1, <1>2, <2>1, <2>3, <2>4 DEF TypeOK
<1>4. CASE AnswerWithoutRefresh(r)
  BY <1>1, <1>2, <1>4 DEF AnswerWithoutRefresh, TypeOK
<1> QED
  BY <1>3, <1>4

\* Every step, of any handler or of the environment, keeps it.
LEMMA TypeStep == TypeOK /\ [Next]_vars => TypeOK'
<1> SUFFICES ASSUME TypeOK, [Next]_vars PROVE TypeOK'
  OBVIOUS
<1> USE TTLAssumption DEF TypeOK, Time, Never, Row, Session, Stage, Busy, Working
<1>1. ASSUME NEW l \in Login, Authorize(l) PROVE TypeOK'
  <2>1. Fresh \in Nat /\ minted' \in Nat
    BY <1>1, MintType DEF Authorize
  <2>2. [key |-> Fresh, login |-> l, stage |-> "authorize",
         expires |-> now + PendingTTL, enc |-> FALSE] \in Row
    BY <2>1
  <2>3. store' \subseteq Row
    <3> HIDE DEF Row, TypeOK
    <3> QED
      BY <1>1, <2>2, PutType DEF Authorize
  <2> QED
    BY <1>1, <2>1, <2>3 DEF Authorize
<1>2. ASSUME NEW r \in Req, NEW x \in store, CallbackPop(r, x) PROVE TypeOK'
  BY <1>2 DEF CallbackPop, Pop, Start
<1>3. ASSUME NEW r \in Req, NEW x \in store, ConsentPop(r, x) PROVE TypeOK'
  BY <1>3 DEF ConsentPop, Pop, Start
<1>4. ASSUME NEW r \in Req, NEW x \in store, CodePop(r, x) PROVE TypeOK'
  BY <1>4 DEF CodePop, Pop, Start
<1>5. ASSUME NEW r \in Req, NEW x \in store, RefreshPop(r, x) PROVE TypeOK'
  BY <1>5 DEF RefreshPop, Pop, Start
<1>6. ASSUME NEW r \in Req, CallbackExchange(r) PROVE TypeOK'
  BY <1>6 DEF CallbackExchange, Finish, Holding, Idle
<1>7. ASSUME NEW r \in Req, CallbackStash(r) PROVE TypeOK'
  <2> DEFINE y == [Holding(r) EXCEPT !.key = Fresh, !.stage = "consent",
                                     !.expires = now + ConsentTTL]
  <2>0. now + ConsentTTL \in Nat
    OBVIOUS
  <2>1. Fresh \in Nat /\ minted' \in Nat
    BY <1>7, MintType DEF CallbackStash
  <2>2. Holding(r) \in Row
    BY <1>7, BusyType DEF CallbackStash
  <2>3. y \in Row
    BY <2>0, <2>1, <2>2
  <2>4. PICK ok \in BOOLEAN : /\ Put(y, ok)
                              /\ handed' = IF ok THEN handed \cup {Fresh} ELSE handed
    BY <1>7 DEF CallbackStash
  <2>5. store' \subseteq Row
    <3> HIDE DEF y, Row, TypeOK
    <3> QED
      BY <2>3, <2>4, PutType
  <2>6. req' \in [Req -> {Idle} \cup Busy]
    BY <1>7, FinishType DEF CallbackStash
  <2> QED
    BY <1>7, <2>1, <2>2, <2>4, <2>5, <2>6 DEF CallbackStash
<1>8. ASSUME NEW r \in Req, ConsentRefuse(r) PROVE TypeOK'
  BY <1>8 DEF ConsentRefuse, Finish
<1>9. ASSUME NEW r \in Req, ConsentApprove(r) PROVE TypeOK'
  <2> DEFINE y == [Holding(r) EXCEPT !.key = Fresh, !.stage = "code",
                                     !.expires = now + CodeTTL]
  <2>0. now + CodeTTL \in Nat
    OBVIOUS
  <2>1. Fresh \in Nat /\ minted' \in Nat
    BY <1>9, MintType DEF ConsentApprove
  <2>2. Holding(r) \in Row
    BY <1>9, BusyType DEF ConsentApprove
  <2>3. y \in Row
    BY <2>0, <2>1, <2>2
  <2>4. PICK ok \in BOOLEAN : /\ Put(y, ok)
                              /\ handed' = IF ok THEN handed \cup {Fresh} ELSE handed
    BY <1>9 DEF ConsentApprove
  <2>5. store' \subseteq Row
    <3> HIDE DEF y, Row, TypeOK
    <3> QED
      BY <2>3, <2>4, PutType
  <2>6. req' \in [Req -> {Idle} \cup Busy]
    BY <1>9, FinishType DEF ConsentApprove
  <2> QED
    BY <1>9, <2>1, <2>2, <2>4, <2>5, <2>6 DEF ConsentApprove
<1>10. ASSUME NEW r \in Req, CodePersist(r) PROVE TypeOK'
  <2>1. req[r].pc = "persist" /\ PersistSession(r, "code", "issue")
    BY <1>10 DEF CodePersist
  <2>2. /\ minted' \in Nat /\ sessions' \subseteq Session
        /\ req' \in [Req -> {Idle} \cup Busy]
    BY <2>1, PersistType
  <2> QED
    BY <1>10, <2>2 DEF CodePersist
<1>11. ASSUME NEW r \in Req, CodeIssue(r) PROVE TypeOK'
  <2>1. /\ req[r].pc = "issue" /\ now + RefreshTTL \in Nat
        /\ AnswerWithRefresh(r, now + RefreshTTL) \/ AnswerWithoutRefresh(r)
    BY <1>11 DEF CodeIssue
  <2>2. /\ minted' \in Nat /\ store' \subseteq Row /\ handed' \subseteq Nat
        /\ req' \in [Req -> {Idle} \cup Busy]
    BY <2>1, AnswerType
  <2> QED
    BY <1>11, <2>2 DEF CodeIssue
<1>12. ASSUME NEW r \in Req, RefreshCognito(r) PROVE TypeOK'
  BY <1>12 DEF RefreshCognito, Finish, Goto, Idle
<1>13. ASSUME NEW r \in Req, RefreshPersist(r) PROVE TypeOK'
  <2>1. req[r].pc = "repersist" /\ PersistSession(r, "refresh", "rotate")
    BY <1>13 DEF RefreshPersist
  <2>2. /\ minted' \in Nat /\ sessions' \subseteq Session
        /\ req' \in [Req -> {Idle} \cup Busy]
    BY <2>1, PersistType
  <2> QED
    BY <1>13, <2>2 DEF RefreshPersist
<1>14. ASSUME NEW r \in Req, RefreshRotate(r) PROVE TypeOK'
  <2>1. /\ req[r].pc = "rotate"
        /\ AnswerWithRefresh(r, Holding(r).expires)
    BY <1>14 DEF RefreshRotate
  <2>2. Holding(r).expires \in Nat
    BY <2>1, BusyType
  <2>3. /\ minted' \in Nat /\ store' \subseteq Row /\ handed' \subseteq Nat
        /\ req' \in [Req -> {Idle} \cup Busy]
    BY <2>1, <2>2, AnswerType
  <2> QED
    BY <1>14, <2>3 DEF RefreshRotate
<1>15. ASSUME NEW r \in Req, Crash(r) PROVE TypeOK'
  BY <1>15 DEF Crash, Finish
<1>16. ASSUME NEW s \in sessions, RevokeAccess(s) PROVE TypeOK'
  BY <1>16 DEF RevokeAccess
<1>17. ASSUME NEW x \in store, RevokeRefresh(x) PROVE TypeOK'
  BY <1>17 DEF RevokeRefresh, Pop
<1>18. ASSUME DisableUser PROVE TypeOK'
  BY <1>18 DEF DisableUser
<1>19. ASSUME Tick PROVE TypeOK'
  BY <1>19 DEF Tick
<1>20. CASE UNCHANGED vars
  BY <1>20 DEF vars
<1> QED
  BY <1>1, <1>2, <1>3, <1>4, <1>5, <1>6, <1>7, <1>8, <1>9, <1>10, <1>11, <1>12,
     <1>13, <1>14, <1>15, <1>16, <1>17, <1>18, <1>19, <1>20
  DEF Next, Pops, Handle

\* Every variable keeps its type in every behaviour.
THEOREM TypeCorrect == Spec => []TypeOK
  BY TypeInit, TypeStep, PTL DEF Spec
-----------------------------------------------------------------------------
(* What the actions do to the rows and to the handlers, without the        *)
(* records: a handler takes a row, works on the login it holds, or gives   *)
(* it back as a row of a later stage.                                      *)

Others(r) == \A q \in Req \ {r} : req'[q] = req[q]

Take(r, x, pc) ==
    /\ req[r] = Idle
    /\ x \in store /\ store' = store \ {x}
    /\ Others(r)
    /\ \/ req'[r] = Idle
       \/ req'[r] # Idle /\ req'[r].pc = pc /\ req'[r].row = x

Work(r, pc) ==
    /\ req[r] # Idle
    /\ store' = store
    /\ Others(r)
    /\ \/ req'[r] = Idle
       \/ /\ req'[r] # Idle /\ req'[r].pc = pc
          /\ req'[r].row.login = req[r].row.login

Give(r, stage) ==
    /\ req[r] # Idle
    /\ Others(r)
    /\ req'[r] = Idle
    /\ \/ store' = store
       \/ \E y \in Row : /\ y.login = req[r].row.login /\ y.stage = stage
                         /\ store' = store \cup {y}

\* The four pops take a row of their stage.
LEMMA PopEffect ==
  ASSUME TypeOK, NEW r \in Req, NEW x \in store
  PROVE  /\ CallbackPop(r, x) => Take(r, x, "exchange")
         /\ ConsentPop(r, x) => Take(r, x, "decide") /\ x.stage = "consent"
         /\ CodePop(r, x) => Take(r, x, "persist") /\ x.stage = "code"
         /\ RefreshPop(r, x) => Take(r, x, "cognito") /\ x.stage = "refresh"
<1>1. ASSUME NEW pc \in Working, Start(r, pc, x)
      PROVE  /\ Others(r) /\ req'[r] # Idle
             /\ req'[r].pc = pc /\ req'[r].row = x
  BY <1>1 DEF Start, TypeOK, Others, Idle, Working
<1>2. UNCHANGED req => Others(r) /\ req'[r] = req[r]
  BY DEF Others
<1>3. {"exchange", "decide", "persist", "cognito"} \subseteq Working
  BY DEF Working
<1>4. CallbackPop(r, x) => Take(r, x, "exchange")
  BY <1>1, <1>2, <1>3 DEF CallbackPop, Presentable, Pop, Take
<1>5. ConsentPop(r, x) => Take(r, x, "decide") /\ x.stage = "consent"
  BY <1>1, <1>2, <1>3 DEF ConsentPop, Presentable, Pop, Take
<1>6. CodePop(r, x) => Take(r, x, "persist") /\ x.stage = "code"
  BY <1>1, <1>2, <1>3 DEF CodePop, Presentable, Pop, Take
<1>7. RefreshPop(r, x) => Take(r, x, "cognito") /\ x.stage = "refresh"
  BY <1>1, <1>2, <1>3 DEF RefreshPop, Presentable, Pop, Take
<1> QED
  BY <1>4, <1>5, <1>6, <1>7

\* A handler that ends is idle, and no other handler has moved.
LEMMA FinishEffect ==
  ASSUME TypeOK, NEW r \in Req, Finish(r)
  PROVE  Others(r) /\ req'[r] = Idle
  BY DEF TypeOK, Finish, Others

\* The steps that end a request or go on to the next call.
LEMMA WorkEffect ==
  ASSUME TypeOK, NEW r \in Req
  PROVE  /\ CallbackExchange(r) => Work(r, "stash")
         /\ ConsentRefuse(r) => Work(r, "decide")
         /\ CodePersist(r) => Work(r, "issue")
         /\ RefreshCognito(r) => Work(r, "repersist")
         /\ RefreshPersist(r) => Work(r, "rotate")
         /\ Crash(r) => Work(r, "idle")
<1>1. CallbackExchange(r) => Work(r, "stash")
  <2>1. CASE Finish(r)
    BY <2>1, FinishEffect DEF CallbackExchange, Work, Idle
  <2>2. ASSUME req[r].pc = "exchange", NEW enc \in BOOLEAN,
               req' = [req EXCEPT ![r].pc = "stash", ![r].row.enc = enc]
        PROVE  /\ Others(r) /\ req'[r] # Idle /\ req'[r].pc = "stash"
               /\ req'[r].row.login = req[r].row.login
    <3>1. req[r] \in Busy
      BY <2>2, BusyType DEF Working
    <3>2. req'[r] = [req[r] EXCEPT !.pc = "stash", !.row.enc = enc]
      BY <2>2 DEF TypeOK
    <3> QED
      BY <2>2, <3>1, <3>2 DEF TypeOK, Others, Idle, Busy, Row
  <2> QED
    BY <2>1, <2>2 DEF CallbackExchange, Work, Idle
<1>2. ConsentRefuse(r) => Work(r, "decide")
  BY FinishEffect DEF ConsentRefuse, Work, Idle
<1>3. ASSUME NEW via, NEW pc \in Working, NEW next \in Working, req[r].pc = pc,
             PersistSession(r, via, next)
      PROVE  /\ Others(r) /\ req'[r] # Idle /\ req'[r].pc = next
             /\ req'[r].row.login = req[r].row.login
  <2>1. req[r] \in Busy
    BY <1>3, BusyType
  <2>2. req'[r] = [req[r] EXCEPT !.pc = next, !.access = Fresh]
    BY <1>3 DEF PersistSession, TypeOK
  <2>3. \A q \in Req \ {r} : req'[q] = req[q]
    BY <1>3 DEF PersistSession, TypeOK
  <2> QED
    BY <2>1, <2>2, <2>3 DEF Others, Idle, Busy, Working
<1>4. CodePersist(r) => Work(r, "issue")
  BY <1>3 DEF CodePersist, Work, Idle, Working
<1>5. RefreshPersist(r) => Work(r, "rotate")
  BY <1>3 DEF RefreshPersist, Work, Idle, Working
<1>6. RefreshCognito(r) => Work(r, "repersist")
  <2>1. CASE Finish(r)
    BY <2>1, FinishEffect DEF RefreshCognito, Work, Idle
  <2>2. CASE req[r].pc = "cognito" /\ Goto(r, "repersist")
    <3>1. req[r] \in Busy
      BY <2>2, BusyType DEF Working
    <3>2. req'[r] = [req[r] EXCEPT !.pc = "repersist"]
      BY <2>2 DEF Goto, TypeOK
    <3>3. Others(r)
      BY <2>2 DEF Goto, TypeOK, Others
    <3> QED
      BY <2>2, <3>1, <3>2, <3>3 DEF RefreshCognito, Work, Idle, Busy
  <2> QED
    BY <2>1, <2>2 DEF RefreshCognito
<1>7. Crash(r) => Work(r, "idle")
  BY FinishEffect DEF Crash, Work
<1> QED
  BY <1>1, <1>2, <1>4, <1>5, <1>6, <1>7

\* The steps that store the next row and answer.
LEMMA GiveEffect ==
  ASSUME TypeOK, NEW r \in Req
  PROVE  /\ CallbackStash(r) => Give(r, "consent")
         /\ ConsentApprove(r) => Give(r, "code")
         /\ CodeIssue(r) => Give(r, "refresh")
         /\ RefreshRotate(r) => Give(r, "refresh")
<1>1. ASSUME NEW pc \in Working, req[r].pc = pc, Mint, Finish(r), NEW stage \in Stage,
             NEW e \in Nat, NEW ok \in BOOLEAN,
             Put([Holding(r) EXCEPT !.key = Fresh, !.stage = stage, !.expires = e], ok)
      PROVE  Give(r, stage)
  <2> DEFINE y == [Holding(r) EXCEPT !.key = Fresh, !.stage = stage, !.expires = e]
  <2>1. Holding(r) \in Row /\ req[r] # Idle
    BY <1>1, BusyType DEF Idle, Working
  <2>2. Fresh \in Nat
    BY <1>1, MintType
  <2>3. y \in Row /\ y.login = req[r].row.login /\ y.stage = stage
    BY <2>1, <2>2 DEF Row, Holding
  <2>4. store' = store \/ store' = store \cup {y}
    BY <1>1 DEF Put
  <2>5. Others(r) /\ req'[r] = Idle
    BY <1>1, FinishEffect
  <2> HIDE DEF y
  <2> QED
    BY <2>1, <2>3, <2>4, <2>5 DEF Give
<1>2. /\ {"consent", "code", "refresh"} \subseteq Stage
      /\ {"stash", "decide", "issue", "rotate"} \subseteq Working
  BY DEF Stage, Working
<1>3. CallbackStash(r) => Give(r, "consent")
  <2>1. now + ConsentTTL \in Nat
    BY TTLAssumption DEF TypeOK
  <2> QED
    BY <1>1, <1>2, <2>1 DEF CallbackStash
<1>4. ConsentApprove(r) => Give(r, "code")
  <2>1. now + CodeTTL \in Nat
    BY TTLAssumption DEF TypeOK
  <2> QED
    BY <1>1, <1>2, <2>1 DEF ConsentApprove
<1>5. ASSUME NEW pc \in Working, req[r].pc = pc, NEW e \in Nat, AnswerWithRefresh(r, e)
      PROVE  Give(r, "refresh")
  BY <1>1, <1>2, <1>5 DEF AnswerWithRefresh
<1>6. ASSUME req[r].pc = "issue", AnswerWithoutRefresh(r) PROVE Give(r, "refresh")
  BY <1>6, FinishEffect DEF AnswerWithoutRefresh, Give, Idle
<1>7. CodeIssue(r) => Give(r, "refresh")
  <2>1. now + RefreshTTL \in Nat
    BY TTLAssumption DEF TypeOK
  <2> QED
    BY <1>2, <1>5, <1>6, <2>1 DEF CodeIssue
<1>8. RefreshRotate(r) => Give(r, "refresh")
  <2>1. req[r].pc = "rotate" => Holding(r).expires \in Nat
    BY <1>2, BusyType DEF Row
  <2> QED
    BY <1>2, <1>5, <2>1 DEF RefreshRotate
<1> QED
  BY <1>3, <1>4, <1>7, <1>8
-----------------------------------------------------------------------------
(* The inductive invariant behind UniqueGrant, OneCodeGrant, OnlyApproved  *)
(* and RevokedFamilyDies.                                                  *)

\* UniqueGrant, pair by pair.
Alone ==
    /\ \A x, y \in store : x.login = y.login => x = y
    /\ \A r, s \in Req :
          req[r] # Idle /\ req[s] # Idle /\ Holding(r).login = Holding(s).login
          => r = s
    /\ \A x \in store, r \in Req : req[r] # Idle => x.login # Holding(r).login

\* pcs reached after Cognito vouched for the user, after the user's consent,
\* and after the code was turned into a session.
AfterLogin == Working \ {"exchange"}
AfterConsent == {"persist", "issue", "cognito", "repersist", "rotate"}
AfterCode == AfterConsent \ {"persist"}

Authed(l) == authedAt[l] # Never

\* What a row says of its login.
RowsEarned ==
    \A x \in store :
        /\ x.login \in begun
        /\ x.stage # "authorize" => Authed(x.login)
        /\ x.stage \in {"code", "refresh"} => x.login \in approved

\* What the program point of a handler says of the login it holds.
HoldersEarned ==
    \A r \in Req : req[r] # Idle =>
        /\ Holding(r).login \in begun
        /\ req[r].pc \in AfterLogin => Authed(Holding(r).login)
        /\ req[r].pc \in AfterConsent => Holding(r).login \in approved

\* A session was earned, and is at most one access-token TTL from its end.
SessionsEarned ==
    \A s \in sessions :
        /\ s.login \in begun /\ Authed(s.login) /\ s.login \in approved
        /\ s.expires <= now + AccessTTL

\* A login with a session from a code is past its code.
CodeSpent ==
    \A s \in sessions : s.via = "code" =>
        /\ \A x \in store : x.login = s.login => x.stage = "refresh"
        /\ \A r \in Req : req[r] # Idle /\ Holding(r).login = s.login =>
              req[r].pc \in AfterCode

\* RevokedFamilyDies; and only a begun login can have been revoked.
RevokedStaysDead ==
    \A l \in Login : revokedAt[l] # Never =>
        /\ l \in begun
        /\ \A x \in store : x.login # l
        /\ \A r \in Req : req[r] # Idle => Holding(r).login # l
        /\ \A s \in sessions : s.login = l => s.expires <= revokedAt[l] + AccessTTL

GrantInv ==
    /\ TypeOK
    /\ Alone
    /\ RowsEarned
    /\ HoldersEarned
    /\ SessionsEarned
    /\ CodeSpent
    /\ OneCodeGrant
    /\ RevokedStaysDead
-----------------------------------------------------------------------------
(* Each kind of step keeps the parts of GrantInv that speak of one place.  *)

\* Taking a row moves its login from the store to one handler.
LEMMA AloneTake ==
  ASSUME Alone, NEW r \in Req, NEW x, NEW pc, Take(r, x, pc) PROVE Alone'
  BY DEF Alone, Take, Others, Holding

\* Working on a login leaves it where it is, or ends it.
LEMMA AloneWork ==
  ASSUME Alone, NEW r \in Req, NEW pc, Work(r, pc) PROVE Alone'
  BY DEF Alone, Work, Others, Holding

\* Giving a row back moves the login from the handler to the store.
LEMMA AloneGive ==
  ASSUME Alone, NEW r \in Req, NEW stage, Give(r, stage) PROVE Alone'
  BY DEF Alone, Give, Others, Holding

Kept == UNCHANGED <<begun, authedAt, approved, revokedAt, sessions>> /\ now' = now

\* Taking a row keeps the whole of GrantInv if the row's stage has earned the
\* program point it leads to.
LEMMA TakeKeeps ==
  ASSUME GrantInv, TypeOK', Kept, NEW r \in Req, NEW x \in store, NEW pc \in Working,
         Take(r, x, pc),
         pc \in AfterLogin => x.stage # "authorize",
         pc \in AfterConsent => x.stage \in {"code", "refresh"},
         x.stage = "refresh" => pc \in AfterCode
  PROVE  GrantInv'
<1> USE DEF GrantInv, Kept
<1>1. Alone'
  BY AloneTake
<1>2. RowsEarned'
  BY DEF RowsEarned, Take, Authed
<1>3. HoldersEarned'
  BY DEF RowsEarned, HoldersEarned, Take, Others, Holding, Authed
<1>4. SessionsEarned'
  BY DEF SessionsEarned, Authed
<1>5. CodeSpent'
  BY DEF CodeSpent, Take, Others, Holding
<1>6. OneCodeGrant'
  BY DEF OneCodeGrant
<1>7. RevokedStaysDead'
  BY DEF RevokedStaysDead, Take, Others, Holding
<1> QED
  BY <1>1, <1>2, <1>3, <1>4, <1>5, <1>6, <1>7

\* So does going on with a login that has earned the next program point.
LEMMA WorkKeeps ==
  ASSUME GrantInv, TypeOK', Kept, NEW r \in Req, NEW pc, Work(r, pc),
         pc \in AfterLogin => req[r].pc \in AfterLogin,
         pc \in AfterConsent => req[r].pc \in AfterConsent,
         req[r].pc \in AfterCode => pc \in AfterCode \/ req'[r] = Idle
  PROVE  GrantInv'
<1> USE DEF GrantInv, Kept
<1>1. Alone'
  BY AloneWork
<1>2. RowsEarned'
  BY DEF RowsEarned, Work, Authed
<1>3. HoldersEarned'
  BY DEF HoldersEarned, Work, Others, Holding, Authed
<1>4. SessionsEarned'
  BY DEF SessionsEarned, Authed
<1>5. CodeSpent'
  BY DEF CodeSpent, Work, Others, Holding
<1>6. OneCodeGrant'
  BY DEF OneCodeGrant
<1>7. RevokedStaysDead'
  BY DEF RevokedStaysDead, Work, Others, Holding
<1> QED
  BY <1>1, <1>2, <1>3, <1>4, <1>5, <1>6, <1>7

\* And storing a row of a stage that the login has earned.
LEMMA GiveKeeps ==
  ASSUME GrantInv, TypeOK', NEW r \in Req, NEW stage, Give(r, stage),
         UNCHANGED <<begun, authedAt, revokedAt, sessions, now>>,
         approved' = approved \/ approved' = approved \cup {Holding(r).login},
         req[r].pc \in AfterLogin,
         stage \in {"code", "refresh"} => Holding(r).login \in approved',
         req[r].pc \in AfterCode => stage = "refresh"
  PROVE  GrantInv'
<1> USE DEF GrantInv
<1>1. Alone'
  BY AloneGive
<1>2. RowsEarned'
  BY DEF RowsEarned, HoldersEarned, Give, Authed, Holding
<1>3. HoldersEarned'
  BY DEF HoldersEarned, Give, Others, Holding, Authed
<1>4. SessionsEarned'
  BY DEF SessionsEarned, Authed
<1>5. CodeSpent'
  BY DEF CodeSpent, Give, Others, Holding
<1>6. OneCodeGrant'
  BY DEF OneCodeGrant
<1>7. RevokedStaysDead'
  BY DEF RevokedStaysDead, HoldersEarned, Give, Others, Holding
<1> QED
  BY <1>1, <1>2, <1>3, <1>4, <1>5, <1>6, <1>7
-----------------------------------------------------------------------------
(* GrantInv is inductive.                                                  *)

LEMMA GrantInit == Init => GrantInv
<1> SUFFICES ASSUME Init PROVE GrantInv
  OBVIOUS
<1>1. TypeOK
  BY TypeInit
<1>2. store = {} /\ sessions = {}
  BY DEF Init
<1>3. \A r \in Req : req[r] = Idle
  BY DEF Init
<1>4. \A l \in Login : revokedAt[l] = Never
  BY DEF Init
<1> QED
  BY <1>1, <1>2, <1>3, <1>4
  DEF GrantInv, Alone, RowsEarned, HoldersEarned, SessionsEarned, CodeSpent,
      OneCodeGrant, RevokedStaysDead

\* A new login has no row, no handler, no session and was never revoked.
LEMMA AuthorizeKeeps ==
  ASSUME GrantInv, TypeOK', NEW l \in Login, Authorize(l) PROVE GrantInv'
<1> USE DEF GrantInv
<1> DEFINE x == [key |-> Fresh, login |-> l, stage |-> "authorize",
                 expires |-> now + PendingTTL, enc |-> FALSE]
<1>1. x.login = l /\ x.stage = "authorize"
  OBVIOUS
<1>2. store' = store \/ store' = store \cup {x}
  BY DEF Authorize, Put
<1>3. /\ l \notin begun /\ begun' = begun \cup {l}
      /\ UNCHANGED <<now, sessions, req, authedAt, approved, revokedAt>>
  BY DEF Authorize
<1> HIDE DEF x
<1>4. Alone'
  BY <1>1, <1>2, <1>3 DEF Alone, RowsEarned, HoldersEarned, Holding
<1>5. RowsEarned'
  BY <1>1, <1>2, <1>3 DEF RowsEarned, Authed
<1>6. HoldersEarned'
  BY <1>3 DEF HoldersEarned, Authed, Holding
<1>7. SessionsEarned'
  BY <1>3 DEF SessionsEarned, Authed
<1>8. CodeSpent'
  BY <1>1, <1>2, <1>3 DEF CodeSpent, SessionsEarned, Holding
<1>9. OneCodeGrant'
  BY <1>3 DEF OneCodeGrant
<1>10. RevokedStaysDead'
  BY <1>1, <1>2, <1>3 DEF RevokedStaysDead, Holding
<1> QED
  BY <1>4, <1>5, <1>6, <1>7, <1>8, <1>9, <1>10

\* The Cognito exchange authenticates the login its handler holds.
LEMMA ExchangeKeeps ==
  ASSUME GrantInv, TypeOK', NEW r \in Req, CallbackExchange(r) PROVE GrantInv'
<1> USE DEF GrantInv
<1>1. Work(r, "stash")
  BY WorkEffect
<1>2. /\ UNCHANGED <<begun, approved, revokedAt, sessions, now>>
      /\ req[r].pc = "exchange"
  BY DEF CallbackExchange
<1>3. req[r] \in Busy /\ Holding(r) \in Row
  BY <1>2, BusyType DEF Working
<1>4. \A k \in Login : Authed(k) => Authed(k)'
  BY <1>3 DEF CallbackExchange, Authed, TypeOK, Row, Never
<1>5. req'[r] # Idle => Authed(Holding(r).login)'
  <2>1. CASE Finish(r)
    BY <2>1, FinishEffect
  <2>2. CASE authedAt' = [authedAt EXCEPT ![Holding(r).login] = now]
    <3>1. authedAt'[Holding(r).login] = now /\ now # Never
      BY <1>3, <2>2 DEF TypeOK, Row, Never
    <3>2. req'[r] # Idle => Holding(r)'.login = Holding(r).login
      BY <1>1 DEF Work, Holding
    <3> QED
      BY <3>1, <3>2 DEF Authed
  <2> QED
    BY <2>1, <2>2 DEF CallbackExchange
<1>6. Alone'
  BY <1>1, AloneWork
<1>7. RowsEarned'
  BY <1>1, <1>2, <1>4 DEF RowsEarned, Work, TypeOK, Row
<1>8. HoldersEarned'
  <2> SUFFICES ASSUME NEW q \in Req, req'[q] # Idle
               PROVE  /\ Holding(q)'.login \in begun'
                      /\ req'[q].pc \in AfterLogin => Authed(Holding(q).login)'
                      /\ req'[q].pc \in AfterConsent => Holding(q)'.login \in approved'
    BY DEF HoldersEarned
  <2>1. CASE q # r
    <3>1. req'[q] = req[q] /\ req[q] \in Busy
      BY <1>1, <2>1 DEF Work, Others, TypeOK
    <3>2. Holding(q)' = Holding(q) /\ Holding(q).login \in Login
      BY <3>1 DEF Holding, Busy, Row
    <3> QED
      BY <1>2, <1>4, <3>1, <3>2 DEF HoldersEarned, Authed
  <2>2. CASE q = r
    BY <1>1, <1>2, <1>5, <2>2
    DEF HoldersEarned, Work, Holding, AfterConsent, Authed, Idle
  <2> QED
    BY <2>1, <2>2
<1>9. SessionsEarned'
  BY <1>2, <1>4 DEF SessionsEarned, TypeOK, Session
<1>10. CodeSpent'
  BY <1>1, <1>2 DEF CodeSpent, Work, Others, Holding, AfterCode, AfterConsent
<1>11. OneCodeGrant'
  BY <1>2 DEF OneCodeGrant
<1>12. RevokedStaysDead'
  BY <1>1, <1>2 DEF RevokedStaysDead, Work, Others, Holding
<1> QED
  BY <1>6, <1>7, <1>8, <1>9, <1>10, <1>11, <1>12

\* Both grants insert a session for the login their handler holds; the code
\* grant only for a login that has none from a code yet.
LEMMA PersistKeeps ==
  ASSUME GrantInv, TypeOK', NEW r \in Req, NEW via, NEW next \in AfterCode,
         PersistSession(r, via, next), Work(r, next), req[r].pc \in AfterConsent,
         via = "code" => req[r].pc = "persist",
         via # "code" => req[r].pc \in AfterCode,
         UNCHANGED <<now, store, begun, authedAt, approved, revokedAt>>
  PROVE  GrantInv'
<1> USE DEF GrantInv
<1> DEFINE h == Holding(r).login
           s == [key |-> Fresh, login |-> h, expires |-> now + AccessTTL, via |-> via]
<1>1. s.login = h /\ s.expires = now + AccessTTL /\ s.via = via
  OBVIOUS
<1>2. sessions' = sessions \/ sessions' = sessions \cup {s}
  BY DEF PersistSession
<1>3. h \in Login /\ h \in begun /\ Authed(h) /\ h \in approved
  <2>1. PICK pc \in Working : req[r].pc = pc
    BY DEF AfterConsent, Working
  <2>2. Holding(r) \in Row /\ req[r] # Idle /\ req[r].pc \in AfterLogin
    BY <2>1, BusyType DEF AfterConsent, AfterLogin, Working, Idle
  <2> QED
    BY <2>2 DEF HoldersEarned, Row
<1> HIDE DEF s
<1>4. Alone'
  BY AloneWork
<1>5. RowsEarned'
  BY DEF RowsEarned, Authed
<1>6. HoldersEarned'
  BY <1>3 DEF HoldersEarned, Work, Others, Holding, Authed
<1>7. SessionsEarned'
  BY <1>1, <1>2, <1>3, TTLAssumption DEF SessionsEarned, Authed, TypeOK
<1>8. req[r] # Idle /\ \A x \in store : x.login # h
  BY DEF Alone, Work, Holding
<1>9. CodeSpent'
  BY <1>1, <1>2, <1>8 DEF CodeSpent, Alone, Work, Others, Holding
<1>10. via = "code" => \A t \in sessions : t.via = "code" => t.login # h
  BY <1>8 DEF CodeSpent, AfterCode
<1>11. OneCodeGrant'
  BY <1>1, <1>2, <1>10 DEF OneCodeGrant
<1>12. revokedAt[h] = Never
  BY <1>3, <1>8 DEF RevokedStaysDead
<1>13. RevokedStaysDead'
  BY <1>1, <1>2, <1>12 DEF RevokedStaysDead, Work, Others, Holding
<1> QED
  BY <1>4, <1>5, <1>6, <1>7, <1>9, <1>11, <1>13

\* Removing the refresh token of a login leaves nothing of it but sessions.
LEMMA RevokeKeeps ==
  ASSUME GrantInv, TypeOK', NEW x \in store, RevokeRefresh(x) PROVE GrantInv'
<1> USE DEF GrantInv
<1>1. /\ store' = store \ {x}
      /\ UNCHANGED <<now, sessions, req, begun, authedAt, approved>>
      /\ x.login \in Login /\ now \in Nat
  BY DEF RevokeRefresh, Pop, TypeOK, Row
<1>2. Alone' /\ RowsEarned' /\ HoldersEarned' /\ SessionsEarned' /\ OneCodeGrant'
  BY <1>1 DEF Alone, RowsEarned, HoldersEarned, SessionsEarned, OneCodeGrant,
              Holding, Authed
<1>3. CodeSpent'
  BY <1>1 DEF CodeSpent, Holding
<1>4. /\ revokedAt'[x.login] = now
      /\ \A l \in Login \ {x.login} : revokedAt'[l] = revokedAt[l]
  BY <1>1 DEF RevokeRefresh, TypeOK
<1>5. /\ \A y \in store' : y.login # x.login
      /\ \A r \in Req : req'[r] # Idle => req'[r].row.login # x.login
  BY <1>1 DEF Alone, Holding
<1>6. x.login \in begun /\ \A s \in sessions : s.expires <= now + AccessTTL
  BY DEF RowsEarned, SessionsEarned
<1>7. RevokedStaysDead'
  BY <1>1, <1>4, <1>5, <1>6 DEF RevokedStaysDead, Holding
<1> QED
  BY <1>2, <1>3, <1>7

\* Steps that leave rows, handlers and history alone.
LEMMA QuietKeeps ==
  ASSUME GrantInv, TypeOK',
         UNCHANGED <<store, req, begun, authedAt, approved, revokedAt>>,
         sessions' \subseteq sessions, now' = now \/ now' = now + 1
  PROVE  GrantInv'
<1> USE DEF GrantInv
<1>1. Alone' /\ RowsEarned' /\ HoldersEarned'
  BY DEF Alone, RowsEarned, HoldersEarned, Holding, Authed
<1>2. SessionsEarned'
  BY TTLAssumption DEF SessionsEarned, Authed, TypeOK, Session
<1>3. CodeSpent' /\ OneCodeGrant' /\ RevokedStaysDead'
  BY DEF CodeSpent, OneCodeGrant, RevokedStaysDead, Holding
<1> QED
  BY <1>1, <1>2, <1>3

LEMMA GrantStep == GrantInv /\ [Next]_vars => GrantInv'
<1> SUFFICES ASSUME GrantInv, [Next]_vars PROVE GrantInv'
  OBVIOUS
<1>0. TypeOK /\ TypeOK'
  BY TypeStep DEF GrantInv
<1> USE <1>0 DEF AfterLogin, AfterConsent, AfterCode, Working
<1>1. ASSUME NEW l \in Login, Authorize(l) PROVE GrantInv'
  BY <1>1, AuthorizeKeeps
<1>2. ASSUME NEW r \in Req, NEW x \in store, CallbackPop(r, x) PROVE GrantInv'
  <2>1. Take(r, x, "exchange") /\ x.stage \in PendingTable
    BY <1>2, PopEffect DEF CallbackPop, Presentable
  <2> QED
    BY <1>2, <2>1, TakeKeeps DEF CallbackPop, Kept, PendingTable
<1>3. ASSUME NEW r \in Req, NEW x \in store, ConsentPop(r, x) PROVE GrantInv'
  <2>1. Take(r, x, "decide") /\ x.stage = "consent"
    BY <1>3, PopEffect
  <2> QED
    BY <1>3, <2>1, TakeKeeps DEF ConsentPop, Kept
<1>4. ASSUME NEW r \in Req, NEW x \in store, CodePop(r, x) PROVE GrantInv'
  <2>1. Take(r, x, "persist") /\ x.stage = "code"
    BY <1>4, PopEffect
  <2> QED
    BY <1>4, <2>1, TakeKeeps DEF CodePop, Kept
<1>5. ASSUME NEW r \in Req, NEW x \in store, RefreshPop(r, x) PROVE GrantInv'
  <2>1. Take(r, x, "cognito") /\ x.stage = "refresh"
    BY <1>5, PopEffect
  <2> QED
    BY <1>5, <2>1, TakeKeeps DEF RefreshPop, Kept
<1>6. ASSUME NEW r \in Req, CallbackExchange(r) PROVE GrantInv'
  BY <1>6, ExchangeKeeps
<1>7. ASSUME NEW r \in Req, CallbackStash(r) PROVE GrantInv'
  <2>1. Give(r, "consent")
    BY <1>7, GiveEffect
  <2> QED
    BY <1>7, <2>1, GiveKeeps DEF CallbackStash
<1>8. ASSUME NEW r \in Req, ConsentRefuse(r) PROVE GrantInv'
  <2>1. Work(r, "decide")
    BY <1>8, WorkEffect
  <2> QED
    BY <1>8, <2>1, WorkKeeps DEF ConsentRefuse, Kept
<1>9. ASSUME NEW r \in Req, ConsentApprove(r) PROVE GrantInv'
  <2>1. Give(r, "code")
    BY <1>9, GiveEffect
  <2> QED
    BY <1>9, <2>1, GiveKeeps DEF ConsentApprove
<1>10. ASSUME NEW r \in Req, CodePersist(r) PROVE GrantInv'
  <2>1. Work(r, "issue")
    BY <1>10, WorkEffect
  <2> QED
    BY <1>10, <2>1, PersistKeeps DEF CodePersist
<1>11. ASSUME NEW r \in Req, CodeIssue(r) PROVE GrantInv'
  <2>1. Give(r, "refresh")
    BY <1>11, GiveEffect
  <2>2. Holding(r).login \in approved
    BY <1>11 DEF CodeIssue, GrantInv, HoldersEarned, Idle
  <2> QED
    BY <1>11, <2>1, <2>2, GiveKeeps DEF CodeIssue
<1>12. ASSUME NEW r \in Req, RefreshCognito(r) PROVE GrantInv'
  <2>1. Work(r, "repersist")
    BY <1>12, WorkEffect
  <2> QED
    BY <1>12, <2>1, WorkKeeps DEF RefreshCognito, Kept
<1>13. ASSUME NEW r \in Req, RefreshPersist(r) PROVE GrantInv'
  <2>1. Work(r, "rotate")
    BY <1>13, WorkEffect
  <2> QED
    BY <1>13, <2>1, PersistKeeps DEF RefreshPersist
<1>14. ASSUME NEW r \in Req, RefreshRotate(r) PROVE GrantInv'
  <2>1. Give(r, "refresh")
    BY <1>14, GiveEffect
  <2>2. Holding(r).login \in approved
    BY <1>14 DEF RefreshRotate, GrantInv, HoldersEarned, Idle
  <2> QED
    BY <1>14, <2>1, <2>2, GiveKeeps DEF RefreshRotate
<1>15. ASSUME NEW r \in Req, Crash(r) PROVE GrantInv'
  <2>1. Work(r, "idle") /\ req'[r] = Idle
    BY <1>15, WorkEffect, FinishEffect DEF Crash
  <2> QED
    BY <1>15, <2>1, WorkKeeps DEF Crash, Kept
<1>16. ASSUME NEW s \in sessions, RevokeAccess(s) PROVE GrantInv'
  BY <1>16, QuietKeeps DEF RevokeAccess
<1>17. ASSUME NEW x \in store, RevokeRefresh(x) PROVE GrantInv'
  BY <1>17, RevokeKeeps
<1>18. ASSUME DisableUser PROVE GrantInv'
  BY <1>18, QuietKeeps DEF DisableUser
<1>19. ASSUME Tick PROVE GrantInv'
  BY <1>19, QuietKeeps DEF Tick
<1>20. CASE UNCHANGED vars
  BY <1>20, QuietKeeps DEF vars
<1> QED
  BY <1>1, <1>2, <1>3, <1>4, <1>5, <1>6, <1>7, <1>8, <1>9, <1>10, <1>11, <1>12,
     <1>13, <1>14, <1>15, <1>16, <1>17, <1>18, <1>19, <1>20
  DEF Next, Pops, Handle
-----------------------------------------------------------------------------
(* The theorems.                                                           *)

\* The inductive invariant says what the checked invariants say.
LEMMA GrantInvImplies ==
  GrantInv => UniqueGrant /\ OneCodeGrant /\ OnlyApproved /\ RevokedFamilyDies
<1> SUFFICES ASSUME GrantInv
             PROVE  UniqueGrant /\ OneCodeGrant /\ OnlyApproved /\ RevokedFamilyDies
  OBVIOUS
<1>1. UniqueGrant
  BY DEF GrantInv, Alone, UniqueGrant, Rows, Holders
<1>2. OnlyApproved
  BY DEF GrantInv, RowsEarned, SessionsEarned, OnlyApproved, Authed
<1>3. RevokedFamilyDies
  BY DEF GrantInv, RevokedStaysDead, RevokedFamilyDies, Rows, Holders
<1> QED
  BY <1>1, <1>2, <1>3 DEF GrantInv

\* A login is in one place at a time, whatever is replayed, fails or crashes.
THEOREM GrantIsUnique == Spec => []UniqueGrant
  BY GrantInit, GrantStep, GrantInvImplies, PTL DEF Spec

\* One approval, and one code, give at most one session.
THEOREM CodeGrantsOnce == Spec => []OneCodeGrant
  BY GrantInit, GrantStep, GrantInvImplies, PTL DEF Spec

\* Codes, refresh tokens and sessions exist only for logins that Cognito
\* authenticated and whose user approved.
THEOREM GrantIsApproved == Spec => []OnlyApproved
  BY GrantInit, GrantStep, GrantInvImplies, PTL DEF Spec

\* A login whose refresh token was revoked is over.
THEOREM RevocationIsFinal == Spec => []RevokedFamilyDies
  BY GrantInit, GrantStep, GrantInvImplies, PTL DEF Spec
-----------------------------------------------------------------------------
(* How long access lasts: the theorems about RefreshStopsAtDisable,        *)
(* OffboardingBound and RefreshWindow.  Each step of a login is bounded by *)
(* the step before it, back to the moment Cognito authenticated the user.  *)

\* How long after the Cognito exchange a row of a stage may still be in force.
Span(stage) ==
    CASE stage = "consent" -> HandlerDelay + ConsentTTL
      [] stage = "code"    -> 2 * HandlerDelay + ConsentTTL + CodeTTL
      [] stage = "refresh" -> LoginSpan + RefreshTTL
      [] OTHER             -> 0

RowOnTime(x) ==
    x.stage # "authorize" => x.expires <= authedAt[x.login] + Span(x.stage)

RowTimes == \A x \in store : RowOnTime(x)

\* What the program point of a handler says of the time it started.
OnTime(r) ==
    LET since == req[r].since
        authed == authedAt[Holding(r).login]
    IN  /\ since <= now /\ now <= since + HandlerDelay
        /\ req[r].pc = "stash" => since <= authed
        /\ req[r].pc = "decide" => since <= authed + Span("consent")
        /\ req[r].pc \in {"persist", "issue"} => since <= authed + Span("code")
        /\ req[r].pc \in {"cognito", "repersist", "rotate"} =>
              Holding(r).expires <= authed + Span("refresh")
        /\ req[r].pc = "repersist" /\ disabledAt # Never => since <= disabledAt

HolderTimes == \A r \in Req : req[r] # Idle => OnTime(r)

\* Cognito authenticates nobody in the future, and nobody it has disabled.
AuthTimes ==
    /\ \A l \in Login : authedAt[l] <= now
    /\ disabledAt # Never =>
          disabledAt <= now /\ \A l \in Login : authedAt[l] <= disabledAt

SessionTimes ==
    /\ \A s \in sessions : s.expires <= now + AccessTTL
    /\ RefreshStopsAtDisable
    /\ OffboardingBound

TimingInv == TypeOK /\ RowTimes /\ HolderTimes /\ AuthTimes /\ SessionTimes

LEMMA SpanType ==
  /\ Span("consent") = HandlerDelay + ConsentTTL
  /\ Span("code") = 2 * HandlerDelay + ConsentTTL + CodeTTL
  /\ Span("refresh") = LoginSpan + RefreshTTL
  /\ LoginSpan = Span("code") + HandlerDelay
  /\ \A stage \in Stage : Span(stage) \in Nat
  /\ LoginSpan \in Nat
<1>1. /\ HandlerDelay \in Nat /\ ConsentTTL \in Nat /\ CodeTTL \in Nat
      /\ RefreshTTL \in Nat
  BY TTLAssumption
<1> QED
  BY <1>1 DEF Span, LoginSpan, Stage
-----------------------------------------------------------------------------
(* What each part needs from a step.                                       *)

\* The clock and the authentication times never go back.
Later == now' = now /\ disabledAt' = disabledAt
         /\ \A l \in Login : authedAt[l] <= authedAt'[l]

\* Rows stay on time if every new one is.
LEMMA RowsKeep ==
  ASSUME TypeOK, TypeOK', RowTimes, \A l \in Login : authedAt[l] <= authedAt'[l],
         \A x \in store' : x \in store \/ RowOnTime(x)'
  PROVE  RowTimes'
<1> SUFFICES ASSUME NEW x \in store' PROVE RowOnTime(x)'
  BY DEF RowTimes
<1>1. CASE x \in store
  <2>1. /\ x \in Row /\ authedAt[x.login] \in Int /\ authedAt'[x.login] \in Int
        /\ authedAt[x.login] <= authedAt'[x.login]
    BY <1>1 DEF TypeOK, Row, Time, Never
  <2>2. RowOnTime(x) /\ x.expires \in Int /\ Span(x.stage) \in Int
    BY <1>1, <2>1, SpanType DEF RowTimes, Row
  <2> QED
    BY <2>1, <2>2 DEF RowOnTime
<1> QED
  BY <1>1

\* Handlers stay on time if the one that moved does.
LEMMA HoldersKeep ==
  ASSUME TypeOK, TypeOK', HolderTimes, Later, NEW r \in Req, Others(r),
         req'[r] # Idle => OnTime(r)'
  PROVE  HolderTimes'
<1> SUFFICES ASSUME NEW q \in Req, req'[q] # Idle, q # r PROVE OnTime(q)'
  BY DEF HolderTimes
<1>1. req'[q] = req[q] /\ req[q] \in Busy /\ OnTime(q)
  BY DEF HolderTimes, Others, TypeOK
<1>2. Holding(q)' = Holding(q) /\ Holding(q) \in Row /\ req[q].since \in Int
  BY <1>1 DEF Holding, Busy
<1>3. /\ authedAt[Holding(q).login] \in Int /\ authedAt'[Holding(q).login] \in Int
      /\ authedAt[Holding(q).login] <= authedAt'[Holding(q).login]
      /\ Holding(q).expires \in Int
  BY <1>2 DEF TypeOK, Row, Time, Never, Later
<1>4. Span("consent") \in Int /\ Span("code") \in Int /\ Span("refresh") \in Int
  BY SpanType DEF Stage
<1> QED
  BY <1>1, <1>2, <1>3, <1>4 DEF OnTime, Later

\* Sessions stay bounded if they only go.
LEMMA SessionsKeep ==
  ASSUME SessionTimes, sessions' \subseteq sessions, now' = now,
         disabledAt' = disabledAt
  PROVE  SessionTimes'
  BY DEF SessionTimes, RefreshStopsAtDisable, OffboardingBound

\* Nobody is authenticated by most steps.
LEMMA AuthKeeps ==
  ASSUME AuthTimes, UNCHANGED <<now, authedAt, disabledAt>> PROVE AuthTimes'
  BY DEF AuthTimes
-----------------------------------------------------------------------------
(* Each kind of step keeps TimingInv.                                      *)

\* A pop only takes a row away, and a handler it starts has all of its delay.
LEMMA PopTimes ==
  ASSUME TimingInv, TypeOK', NEW r \in Req, NEW x \in store,
         NEW pc \in Working,
         store' \subseteq store, UNCHANGED <<now, sessions, authedAt, disabledAt>>,
         UNCHANGED req \/ (Start(r, pc, x) /\ now <= x.expires),
         pc \in {"exchange", "decide", "persist", "cognito"},
         pc = "decide" => x.stage = "consent",
         pc = "persist" => x.stage = "code",
         pc = "cognito" => x.stage = "refresh"
  PROVE  TimingInv'
<1>0. TypeOK /\ RowTimes /\ HolderTimes /\ AuthTimes /\ SessionTimes
  BY DEF TimingInv
<1>1. Later
  BY <1>0 DEF Later, AuthTimes, TypeOK, Time, Never
<1>2. RowTimes' /\ AuthTimes' /\ SessionTimes'
  BY <1>0, <1>1, RowsKeep, AuthKeeps, SessionsKeep DEF Later
<1>3. CASE UNCHANGED req
  <2>1. Others(r) /\ req'[r] = req[r]
    BY <1>3 DEF Others
  <2>2. req'[r] # Idle => OnTime(r)'
    <3>1. req[r] # Idle => OnTime(r)
      BY <1>0 DEF HolderTimes
    <3> QED
      BY <1>3, <3>1 DEF OnTime, Holding
  <2> QED
    BY <1>0, <1>1, <1>2, <2>1, <2>2, HoldersKeep DEF TimingInv
<1>4. CASE Start(r, pc, x) /\ now <= x.expires
  <2>1. /\ req'[r] = [pc |-> pc, since |-> now, row |-> x, access |-> 0]
        /\ Others(r)
    BY <1>0, <1>4 DEF Start, TypeOK, Others
  <2>2. /\ req'[r].pc = pc /\ req'[r].since = now /\ Holding(r)' = x
    BY <2>1 DEF Holding
  <2>3. RowOnTime(x) /\ now \in Nat /\ HandlerDelay \in Nat
    BY <1>0, TTLAssumption DEF RowTimes, TypeOK
  <2>4. x \in Row /\ authedAt[x.login] \in Int
    BY <1>0 DEF TypeOK, Row, Time, Never
  <2>5. Span("consent") \in Int /\ Span("code") \in Int /\ x.expires \in Int
    BY <2>4, SpanType DEF Stage, Row
  <2>6. OnTime(r)'
    BY <1>4, <2>2, <2>3, <2>4, <2>5 DEF OnTime, RowOnTime
  <2> QED
    BY <1>0, <1>1, <1>2, <2>1, <2>6, HoldersKeep DEF TimingInv
<1> QED
  BY <1>3, <1>4

\* A handler that ends leaves everything else as it was.
LEMMA EndTimes ==
  ASSUME TimingInv, TypeOK', NEW r \in Req, Finish(r), Later,
         AuthTimes', SessionTimes', RowTimes'
  PROVE  TimingInv'
<1>1. Others(r) /\ req'[r] = Idle
  BY FinishEffect DEF TimingInv
<1> QED
  BY <1>1, HoldersKeep DEF TimingInv

\* Storing a row that is on time, and answering.
LEMMA StoreTimes ==
  ASSUME TimingInv, TypeOK', NEW r \in Req, Finish(r),
         UNCHANGED <<now, sessions, authedAt, disabledAt>>,
         NEW e \in Nat, NEW stage \in Stage, NEW pc \in Working, req[r].pc = pc,
         Mint, NEW ok \in BOOLEAN,
         Put([Holding(r) EXCEPT !.key = Fresh, !.stage = stage, !.expires = e], ok),
         stage # "authorize" => e <= authedAt[Holding(r).login] + Span(stage)
  PROVE  TimingInv'
<1>0. TypeOK /\ RowTimes /\ AuthTimes /\ SessionTimes
  BY DEF TimingInv
<1>1. Later
  BY <1>0 DEF Later, AuthTimes, TypeOK, Time, Never
<1> DEFINE y == [Holding(r) EXCEPT !.key = Fresh, !.stage = stage, !.expires = e]
<1>2. Holding(r) \in Row
  BY <1>0, BusyType
<1>3. y.stage = stage /\ y.expires = e /\ y.login = Holding(r).login
  BY <1>2 DEF Row
<1>4. store' = store \/ store' = store \cup {y}
  BY DEF Put
<1> HIDE DEF y
<1>5. PICK z : z = y
  OBVIOUS
<1>6. RowOnTime(z)'
  BY <1>3, <1>5 DEF RowOnTime
<1>7. RowTimes'
  BY <1>0, <1>1, <1>4, <1>5, <1>6, RowsKeep DEF Later
<1>8. AuthTimes' /\ SessionTimes'
  BY <1>0, <1>1, AuthKeeps, SessionsKeep
<1> QED
  BY <1>1, <1>7, <1>8, EndTimes

\* Going on to the next call, with the same row and the same start.
LEMMA GoOnTimes ==
  ASSUME TimingInv, TypeOK', NEW r \in Req, NEW pc \in Working, req[r].pc = pc,
         NEW next \in Working, Others(r), req'[r] # Idle,
         req'[r].pc = next, req'[r].since = req[r].since, req'[r].row = req[r].row,
         UNCHANGED <<now, store, authedAt, disabledAt>>,
         SessionTimes',
         \/ pc = "persist" /\ next = "issue"
         \/ pc = "cognito" /\ next = "repersist" /\ disabledAt = Never
         \/ pc = "repersist" /\ next = "rotate"
  PROVE  TimingInv'
<1>0. TypeOK /\ RowTimes /\ HolderTimes /\ AuthTimes
  BY DEF TimingInv
<1>1. Later
  BY <1>0 DEF Later, AuthTimes, TypeOK, Time, Never
<1>2. req[r] # Idle /\ OnTime(r)
  BY <1>0, BusyType DEF HolderTimes, Busy, Idle, Working
<1>3. OnTime(r)'
  BY <1>2 DEF OnTime, Holding
<1>4. RowTimes' /\ AuthTimes'
  BY <1>0, <1>1, RowsKeep, AuthKeeps DEF Later
<1> QED
  BY <1>0, <1>1, <1>3, <1>4, HoldersKeep DEF TimingInv

\* What persistMCPSession does to the handler.
LEMMA PersistMoves ==
  ASSUME TypeOK, NEW r \in Req, NEW via, NEW pc \in Working, req[r].pc = pc,
         NEW next \in Working, PersistSession(r, via, next)
  PROVE  /\ Others(r) /\ req'[r] # Idle /\ req'[r].pc = next
         /\ req'[r].since = req[r].since /\ req'[r].row = req[r].row
<1>1. req[r] \in Busy
  BY BusyType
<1>2. /\ req'[r] = [req[r] EXCEPT !.pc = next, !.access = Fresh]
      /\ \A q \in Req \ {r} : req'[q] = req[q]
  BY DEF PersistSession, TypeOK
<1> QED
  BY <1>1, <1>2 DEF Others, Idle, Busy, Working

\* A session of the code grant ends in time.
LEMMA CodePersistTimes ==
  ASSUME TimingInv, TypeOK', NEW r \in Req, CodePersist(r) PROVE TimingInv'
<1>0. TypeOK /\ HolderTimes /\ AuthTimes /\ SessionTimes
  BY DEF TimingInv
<1>1. /\ req[r].pc = "persist" /\ PersistSession(r, "code", "issue")
      /\ UNCHANGED <<now, store, authedAt, disabledAt>>
  BY DEF CodePersist
<1>2. /\ Others(r) /\ req'[r] # Idle /\ req'[r].pc = "issue"
      /\ req'[r].since = req[r].since /\ req'[r].row = req[r].row
  BY <1>0, <1>1, PersistMoves DEF Working
<1>3. OnTime(r) /\ Holding(r) \in Row /\ req[r].since \in Nat
  BY <1>0, <1>1, BusyType DEF HolderTimes, Busy, Idle, Working
<1>4. authedAt[Holding(r).login] \in Int /\ now \in Int /\ AccessTTL \in Nat
  BY <1>0, <1>3, TTLAssumption DEF TypeOK, Row, Time, Never
<1>5. /\ Span("code") \in Int /\ LoginSpan \in Int /\ HandlerDelay \in Int
      /\ LoginSpan = Span("code") + HandlerDelay
  BY SpanType, TTLAssumption DEF Stage
<1>6. now <= authedAt[Holding(r).login] + LoginSpan
  BY <1>1, <1>3, <1>4, <1>5 DEF OnTime
<1>7. disabledAt # Never => now + AccessTTL <= disabledAt + LoginSpan + AccessTTL
  BY <1>0, <1>3, <1>4, <1>5, <1>6 DEF AuthTimes, Row, TypeOK, Time
<1>8. PICK s : /\ s.expires = now + AccessTTL /\ s.via = "code"
               /\ sessions' = sessions \/ sessions' = sessions \cup {s}
  <2> DEFINE t == [key |-> Fresh, login |-> Holding(r).login,
                   expires |-> now + AccessTTL, via |-> "code"]
  <2>1. t.expires = now + AccessTTL /\ t.via = "code"
    OBVIOUS
  <2> QED
    BY <1>1, <2>1 DEF PersistSession
<1>9. SessionTimes'
  <2>1. RefreshStopsAtDisable'
    BY <1>0, <1>1, <1>8 DEF SessionTimes, RefreshStopsAtDisable
  <2>2. OffboardingBound'
    BY <1>0, <1>1, <1>7, <1>8 DEF SessionTimes, OffboardingBound
  <2>3. \A t \in sessions' : t.expires <= now' + AccessTTL
    BY <1>0, <1>1, <1>4, <1>8 DEF SessionTimes
  <2> QED
    BY <2>1, <2>2, <2>3 DEF SessionTimes
<1> QED
  BY <1>1, <1>2, <1>9, GoOnTimes DEF Working

\* A session of the refresh grant comes from a handler that had passed the
\* Cognito gate, and ends in time.
LEMMA RefreshPersistTimes ==
  ASSUME TimingInv, TypeOK', NEW r \in Req, RefreshPersist(r) PROVE TimingInv'
<1>0. TypeOK /\ HolderTimes /\ AuthTimes /\ SessionTimes
  BY DEF TimingInv
<1>1. /\ req[r].pc = "repersist" /\ PersistSession(r, "refresh", "rotate")
      /\ UNCHANGED <<now, store, authedAt, disabledAt>>
  BY DEF RefreshPersist
<1>2. /\ Others(r) /\ req'[r] # Idle /\ req'[r].pc = "rotate"
      /\ req'[r].since = req[r].since /\ req'[r].row = req[r].row
  BY <1>0, <1>1, PersistMoves DEF Working
<1>3. OnTime(r) /\ req[r].since \in Nat
  BY <1>0, <1>1, BusyType DEF HolderTimes, Busy, Idle, Working
<1>4. now \in Int /\ AccessTTL \in Nat /\ HandlerDelay \in Nat /\ disabledAt \in Int
  BY <1>0, TTLAssumption DEF TypeOK, Time, Never
<1>5. disabledAt # Never => now + AccessTTL <= disabledAt + HandlerDelay + AccessTTL
  BY <1>1, <1>3, <1>4 DEF OnTime
<1>6. /\ LoginSpan \in Int /\ HandlerDelay <= LoginSpan
  <2>1. Span("code") \in Nat /\ LoginSpan = Span("code") + HandlerDelay
    BY SpanType DEF Stage
  <2> QED
    BY <1>4, <2>1
<1>7. disabledAt # Never => now + AccessTTL <= disabledAt + LoginSpan + AccessTTL
  BY <1>4, <1>5, <1>6
<1>8. PICK s : /\ s.expires = now + AccessTTL
               /\ sessions' = sessions \/ sessions' = sessions \cup {s}
  <2> DEFINE t == [key |-> Fresh, login |-> Holding(r).login,
                   expires |-> now + AccessTTL, via |-> "refresh"]
  <2>1. t.expires = now + AccessTTL
    OBVIOUS
  <2> QED
    BY <1>1, <2>1 DEF PersistSession
<1>9. SessionTimes'
  <2>1. RefreshStopsAtDisable'
    BY <1>0, <1>1, <1>5, <1>8 DEF SessionTimes, RefreshStopsAtDisable
  <2>2. OffboardingBound'
    BY <1>0, <1>1, <1>7, <1>8 DEF SessionTimes, OffboardingBound
  <2>3. \A t \in sessions' : t.expires <= now' + AccessTTL
    BY <1>0, <1>1, <1>4, <1>8 DEF SessionTimes
  <2> QED
    BY <2>1, <2>2, <2>3 DEF SessionTimes
<1> QED
  BY <1>1, <1>2, <1>9, GoOnTimes DEF Working

\* The Cognito exchange happens while the account is enabled, and now.
LEMMA ExchangeTimes ==
  ASSUME TimingInv, TypeOK', NEW r \in Req, CallbackExchange(r) PROVE TimingInv'
<1>0. TypeOK /\ RowTimes /\ HolderTimes /\ AuthTimes /\ SessionTimes
  BY DEF TimingInv
<1>1. req[r].pc = "exchange" /\ UNCHANGED <<now, store, sessions, disabledAt>>
  BY DEF CallbackExchange
<1>2. req[r] \in Busy /\ Holding(r) \in Row /\ req[r] # Idle
  BY <1>0, <1>1, BusyType DEF Working, Idle
<1>3. CASE Finish(r) /\ UNCHANGED authedAt
  <2>1. Later
    BY <1>0, <1>1, <1>3 DEF Later, AuthTimes, TypeOK, Time, Never
  <2> QED
    BY <1>0, <1>1, <1>3, <2>1, RowsKeep, AuthKeeps, SessionsKeep, EndTimes
    DEF Later
<1>4. ASSUME disabledAt = Never, NEW enc \in BOOLEAN,
             req' = [req EXCEPT ![r].pc = "stash", ![r].row.enc = enc],
             authedAt' = [authedAt EXCEPT ![Holding(r).login] = now]
      PROVE  TimingInv'
  <2>1. req'[r] = [req[r] EXCEPT !.pc = "stash", !.row.enc = enc] /\ Others(r)
    BY <1>0, <1>4 DEF TypeOK, Others
  <2>2. /\ req'[r].pc = "stash" /\ req'[r].since = req[r].since
        /\ Holding(r)'.login = Holding(r).login
    BY <1>2, <2>1 DEF Busy, Row, Holding
  <2>3. /\ authedAt'[Holding(r).login] = now
        /\ \A l \in Login : authedAt'[l] = now \/ authedAt'[l] = authedAt[l]
    BY <1>0, <1>2, <1>4 DEF TypeOK, Row
  <2>4. Later
    BY <1>0, <1>1, <2>3 DEF Later, AuthTimes, TypeOK, Time, Never
  <2>5. OnTime(r)'
    <3>1. OnTime(r)
      BY <1>0, <1>2 DEF HolderTimes
    <3> QED
      BY <1>1, <2>2, <2>3, <3>1 DEF OnTime
  <2>6. AuthTimes'
    BY <1>0, <1>1, <1>4, <2>3 DEF AuthTimes, TypeOK
  <2> QED
    BY <1>0, <1>1, <2>1, <2>4, <2>5, <2>6, RowsKeep, SessionsKeep, HoldersKeep
    DEF TimingInv, Later
<1> QED
  BY <1>3, <1>4 DEF CallbackExchange

\* The four answers that carry a key: each row is on time.
LEMMA StashTimes ==
  ASSUME TimingInv, TypeOK', NEW r \in Req, CallbackStash(r) PROVE TimingInv'
<1>0. TypeOK /\ HolderTimes /\ ConsentTTL \in Nat /\ HandlerDelay \in Nat
  BY TTLAssumption DEF TimingInv
<1>1. /\ req[r].pc = "stash" /\ Mint /\ Finish(r)
      /\ UNCHANGED <<now, sessions, authedAt, disabledAt>>
  BY DEF CallbackStash
<1>2. OnTime(r) /\ Holding(r) \in Row /\ req[r].since \in Int
  BY <1>0, <1>1, BusyType DEF HolderTimes, Busy, Idle, Working
<1>3. authedAt[Holding(r).login] \in Int /\ now \in Nat
  BY <1>0, <1>2 DEF TypeOK, Row, Time, Never
<1>4. now + ConsentTTL <= authedAt[Holding(r).login] + Span("consent")
  BY <1>0, <1>1, <1>2, <1>3, SpanType DEF OnTime
<1>5. PICK ok \in BOOLEAN :
        Put([Holding(r) EXCEPT !.key = Fresh, !.stage = "consent",
                               !.expires = now + ConsentTTL], ok)
  BY DEF CallbackStash
<1>6. now + ConsentTTL \in Nat
  BY <1>0, <1>3
<1> QED
  BY <1>1, <1>4, <1>5, <1>6, StoreTimes DEF Stage, Working

LEMMA ApproveTimes ==
  ASSUME TimingInv, TypeOK', NEW r \in Req, ConsentApprove(r) PROVE TimingInv'
<1>0. TypeOK /\ HolderTimes /\ {ConsentTTL, CodeTTL, HandlerDelay} \subseteq Nat
  BY TTLAssumption DEF TimingInv
<1>1. /\ req[r].pc = "decide" /\ Mint /\ Finish(r)
      /\ UNCHANGED <<now, sessions, authedAt, disabledAt>>
  BY DEF ConsentApprove
<1>2. OnTime(r) /\ Holding(r) \in Row /\ req[r].since \in Int
  BY <1>0, <1>1, BusyType DEF HolderTimes, Busy, Idle, Working
<1>3. authedAt[Holding(r).login] \in Int /\ now \in Nat
  BY <1>0, <1>2 DEF TypeOK, Row, Time, Never
<1>4. now + CodeTTL <= authedAt[Holding(r).login] + Span("code")
  BY <1>0, <1>1, <1>2, <1>3, SpanType DEF OnTime
<1>5. PICK ok \in BOOLEAN :
        Put([Holding(r) EXCEPT !.key = Fresh, !.stage = "code",
                               !.expires = now + CodeTTL], ok)
  BY DEF ConsentApprove
<1>6. now + CodeTTL \in Nat
  BY <1>0, <1>3
<1> QED
  BY <1>1, <1>4, <1>5, <1>6, StoreTimes DEF Stage, Working

\* AnswerWithRefresh and AnswerWithoutRefresh, given an expiry in the window.
LEMMA AnswerTimes ==
  ASSUME TimingInv, TypeOK', NEW r \in Req, NEW e \in Nat,
         NEW pc \in Working, req[r].pc = pc,
         UNCHANGED <<now, sessions, authedAt, disabledAt>>,
         e <= authedAt[Holding(r).login] + Span("refresh"),
         AnswerWithRefresh(r, e) \/ AnswerWithoutRefresh(r)
  PROVE  TimingInv'
<1>0. TypeOK /\ RowTimes /\ AuthTimes /\ SessionTimes
  BY DEF TimingInv
<1>1. CASE AnswerWithRefresh(r, e)
  <2>1. PICK ok \in BOOLEAN :
          Put([Holding(r) EXCEPT !.key = Fresh, !.stage = "refresh", !.expires = e], ok)
    BY <1>1 DEF AnswerWithRefresh
  <2>2. Mint /\ Finish(r)
    BY <1>1 DEF AnswerWithRefresh
  <2> QED
    BY <2>1, <2>2, StoreTimes DEF Stage
<1>2. CASE AnswerWithoutRefresh(r)
  <2>1. Later
    BY <1>0 DEF Later, AuthTimes, TypeOK, Time, Never
  <2> QED
    BY <1>0, <1>2, <2>1, RowsKeep, AuthKeeps, SessionsKeep, EndTimes
    DEF AnswerWithoutRefresh, Later
<1> QED
  BY <1>1, <1>2

LEMMA IssueTimes ==
  ASSUME TimingInv, TypeOK', NEW r \in Req, CodeIssue(r) PROVE TimingInv'
<1>0. TypeOK /\ HolderTimes /\ RefreshTTL \in Nat /\ HandlerDelay \in Nat
  BY TTLAssumption DEF TimingInv
<1>1. req[r].pc = "issue" /\ UNCHANGED <<now, sessions, authedAt, disabledAt>>
  BY DEF CodeIssue
<1>2. OnTime(r) /\ Holding(r) \in Row /\ req[r].since \in Int
  BY <1>0, <1>1, BusyType DEF HolderTimes, Busy, Idle, Working
<1>3. authedAt[Holding(r).login] \in Int /\ now \in Nat
  BY <1>0, <1>2 DEF TypeOK, Row, Time, Never
<1>4. now + RefreshTTL <= authedAt[Holding(r).login] + Span("refresh")
  <2>1. Span("code") \in Nat /\ LoginSpan \in Nat
    BY SpanType DEF Stage
  <2> QED
    BY <1>0, <1>1, <1>2, <1>3, <2>1, SpanType DEF OnTime
<1>5. now + RefreshTTL \in Nat
  BY <1>0, <1>3
<1> QED
  BY <1>1, <1>4, <1>5, AnswerTimes DEF CodeIssue, Working

LEMMA RotateTimes ==
  ASSUME TimingInv, TypeOK', NEW r \in Req, RefreshRotate(r) PROVE TimingInv'
<1>0. TypeOK /\ HolderTimes
  BY DEF TimingInv
<1>1. req[r].pc = "rotate" /\ UNCHANGED <<now, sessions, authedAt, disabledAt>>
  BY DEF RefreshRotate
<1>2. OnTime(r) /\ Holding(r).expires \in Nat
  BY <1>0, <1>1, BusyType DEF HolderTimes, Idle, Working, Row
<1>3. Holding(r).expires <= authedAt[Holding(r).login] + Span("refresh")
  BY <1>1, <1>2 DEF OnTime
<1>4. PICK e \in Nat : e = Holding(r).expires
  BY <1>2
<1> QED
  BY <1>1, <1>3, <1>4, AnswerTimes DEF RefreshRotate, Working

LEMMA CognitoTimes ==
  ASSUME TimingInv, TypeOK', NEW r \in Req, RefreshCognito(r) PROVE TimingInv'
<1>0. TypeOK /\ RowTimes /\ AuthTimes /\ SessionTimes
  BY DEF TimingInv
<1>1. req[r].pc = "cognito" /\ UNCHANGED <<now, store, sessions, authedAt, disabledAt>>
  BY DEF RefreshCognito
<1>2. CASE Finish(r)
  <2>1. Later
    BY <1>0, <1>1 DEF Later, AuthTimes, TypeOK, Time, Never
  <2> QED
    BY <1>0, <1>1, <1>2, <2>1, RowsKeep, AuthKeeps, SessionsKeep, EndTimes DEF Later
<1>3. CASE CognitoAccepts(Holding(r).login) /\ Goto(r, "repersist")
  <2>1. req[r] \in Busy
    BY <1>0, <1>1, BusyType DEF Working
  <2>2. req'[r] = [req[r] EXCEPT !.pc = "repersist"] /\ Others(r)
    BY <1>0, <1>3 DEF Goto, TypeOK, Others
  <2>3. /\ req'[r] # Idle /\ req'[r].pc = "repersist"
        /\ req'[r].since = req[r].since /\ req'[r].row = req[r].row
    BY <2>1, <2>2 DEF Busy, Idle
  <2>4. SessionTimes' /\ disabledAt = Never
    BY <1>0, <1>1, <1>3, SessionsKeep DEF CognitoAccepts
  <2> QED
    BY <1>1, <2>2, <2>3, <2>4, GoOnTimes DEF Working
<1> QED
  BY <1>2, <1>3 DEF RefreshCognito
-----------------------------------------------------------------------------
(* The environment.                                                        *)

\* A step that only forgets rows, sessions or a handler.
LEMMA ForgetTimes ==
  ASSUME TimingInv, TypeOK', store' \subseteq store, sessions' \subseteq sessions,
         UNCHANGED <<now, authedAt, disabledAt>>,
         UNCHANGED req \/ \E r \in Req : Finish(r)
  PROVE  TimingInv'
<1>0. TypeOK /\ RowTimes /\ HolderTimes /\ AuthTimes /\ SessionTimes
  BY DEF TimingInv
<1>1. Later
  BY <1>0 DEF Later, AuthTimes, TypeOK, Time, Never
<1>2. RowTimes' /\ AuthTimes' /\ SessionTimes'
  BY <1>0, <1>1, RowsKeep, AuthKeeps, SessionsKeep DEF Later
<1>3. CASE UNCHANGED req
  <2>1. HolderTimes'
    BY <1>0, <1>3 DEF HolderTimes, OnTime, Holding
  <2> QED
    BY <1>2, <2>1 DEF TimingInv
<1>4. ASSUME NEW r \in Req, Finish(r) PROVE TimingInv'
  BY <1>1, <1>2, <1>4, EndTimes
<1> QED
  BY <1>3, <1>4

\* A new login's row is at the authorize stage.
LEMMA AuthorizeTimes ==
  ASSUME TimingInv, TypeOK', NEW l \in Login, Authorize(l) PROVE TimingInv'
<1>0. TypeOK /\ RowTimes /\ HolderTimes /\ AuthTimes /\ SessionTimes
  BY DEF TimingInv
<1>1. UNCHANGED <<now, sessions, req, authedAt, disabledAt>>
  BY DEF Authorize
<1>2. Later
  BY <1>0, <1>1 DEF Later, AuthTimes, TypeOK, Time, Never
<1>3. PICK x : x.stage = "authorize" /\ (store' = store \/ store' = store \cup {x})
  <2> DEFINE y == [key |-> Fresh, login |-> l, stage |-> "authorize",
                   expires |-> now + PendingTTL, enc |-> FALSE]
  <2>1. y.stage = "authorize"
    OBVIOUS
  <2> QED
    BY <2>1 DEF Authorize, Put
<1>4. RowOnTime(x)'
  BY <1>3 DEF RowOnTime
<1>5. RowTimes'
  BY <1>0, <1>2, <1>3, <1>4, RowsKeep DEF Later
<1>6. HolderTimes'
  BY <1>0, <1>1 DEF HolderTimes, OnTime, Holding
<1> QED
  BY <1>0, <1>1, <1>5, <1>6, AuthKeeps, SessionsKeep DEF TimingInv

\* When the account is disabled, nothing yet in force outlives the bounds.
LEMMA DisableTimes == ASSUME TimingInv, TypeOK', DisableUser PROVE TimingInv'
<1>0. /\ TypeOK /\ RowTimes /\ HolderTimes /\ AuthTimes /\ SessionTimes
      /\ HandlerDelay \in Nat /\ AccessTTL \in Nat /\ LoginSpan \in Nat
  BY TTLAssumption, SpanType DEF TimingInv
<1>1. /\ disabledAt = Never /\ disabledAt' = now
      /\ UNCHANGED <<now, store, sessions, req, authedAt>>
  BY DEF DisableUser
<1>2. RowTimes'
  BY <1>0, <1>1 DEF RowTimes, RowOnTime
<1>3. HolderTimes'
  BY <1>0, <1>1 DEF HolderTimes, OnTime, Holding
<1>4. AuthTimes'
  BY <1>0, <1>1 DEF AuthTimes, TypeOK
<1>5. \A s \in sessions : s.expires \in Int /\ s.expires <= now + AccessTTL
  BY <1>0 DEF SessionTimes, TypeOK, Session
<1>6. SessionTimes'
  BY <1>0, <1>1, <1>5
  DEF SessionTimes, RefreshStopsAtDisable, OffboardingBound, TypeOK
<1> QED
  BY <1>2, <1>3, <1>4, <1>6 DEF TimingInv

\* Time passes only while every handler has some of its delay left.
LEMMA TickTimes == ASSUME TimingInv, TypeOK', Tick PROVE TimingInv'
<1>0. TypeOK /\ RowTimes /\ HolderTimes /\ AuthTimes /\ SessionTimes
  BY DEF TimingInv
<1>1. /\ now' = now + 1 /\ now \in Nat /\ HandlerDelay \in Nat /\ AccessTTL \in Nat
      /\ UNCHANGED <<store, sessions, req, authedAt, disabledAt>>
      /\ \A r \in Req : req[r] # Idle => now < req[r].since + HandlerDelay
  BY <1>0, TTLAssumption DEF Tick, TypeOK
<1>2. RowTimes'
  BY <1>0, <1>1 DEF RowTimes, RowOnTime
<1>3. HolderTimes'
  <2> SUFFICES ASSUME NEW r \in Req, req[r] # Idle PROVE OnTime(r)'
    BY <1>1 DEF HolderTimes
  <2>1. OnTime(r) /\ req[r].since \in Nat /\ now < req[r].since + HandlerDelay
    BY <1>0, <1>1 DEF HolderTimes, TypeOK, Busy
  <2> QED
    BY <1>1, <2>1 DEF OnTime, Holding
<1>4. AuthTimes'
  <2>1. \A l \in Login : authedAt[l] \in Int
    BY <1>0 DEF TypeOK, Time, Never
  <2>2. disabledAt \in Int
    BY <1>0 DEF TypeOK, Time, Never
  <2> QED
    BY <1>0, <1>1, <2>1, <2>2 DEF AuthTimes
<1>5. \A s \in sessions : s.expires \in Int
  BY <1>0 DEF TypeOK, Session
<1>6. SessionTimes'
  BY <1>0, <1>1, <1>5 DEF SessionTimes, RefreshStopsAtDisable, OffboardingBound
<1> QED
  BY <1>2, <1>3, <1>4, <1>6 DEF TimingInv
-----------------------------------------------------------------------------
(* The theorems.                                                           *)

LEMMA TimingInit == Init => TimingInv
<1> SUFFICES ASSUME Init PROVE TimingInv
  OBVIOUS
<1>1. TypeOK
  BY TypeInit
<1>2. /\ store = {} /\ sessions = {} /\ disabledAt = Never /\ now = 0
      /\ \A r \in Req : req[r] = Idle
      /\ \A l \in Login : authedAt[l] = Never
  BY DEF Init
<1> QED
  BY <1>1, <1>2
  DEF TimingInv, RowTimes, HolderTimes, AuthTimes, SessionTimes,
      RefreshStopsAtDisable, OffboardingBound, Never

LEMMA TimingStep == TimingInv /\ [Next]_vars => TimingInv'
<1> SUFFICES ASSUME TimingInv, [Next]_vars PROVE TimingInv'
  OBVIOUS
<1>0. TypeOK /\ TypeOK'
  BY TypeStep DEF TimingInv
<1>1. ASSUME NEW r \in Req, NEW x \in store,
             CallbackPop(r, x) \/ ConsentPop(r, x) \/ CodePop(r, x) \/ RefreshPop(r, x)
      PROVE  TimingInv'
  <2>1. x.expires \in Nat /\ now \in Nat
    BY <1>0 DEF TypeOK, Row
  <2>2. ~Expired(x) => now <= x.expires
    BY <2>1 DEF Expired
  <2>3. CASE CallbackPop(r, x)
    BY <1>0, <2>2, <2>3, PopTimes DEF CallbackPop, Pop, Working
  <2>4. CASE ConsentPop(r, x)
    BY <1>0, <2>2, <2>4, PopTimes DEF ConsentPop, Presentable, Pop, Working
  <2>5. CASE CodePop(r, x)
    BY <1>0, <2>2, <2>5, PopTimes DEF CodePop, Presentable, Pop, Working
  <2>6. CASE RefreshPop(r, x)
    BY <1>0, <2>2, <2>6, PopTimes DEF RefreshPop, Presentable, Pop, Working
  <2> QED
    BY <1>1, <2>3, <2>4, <2>5, <2>6
<1>2. ASSUME NEW r \in Req, ConsentRefuse(r) \/ Crash(r) PROVE TimingInv'
  BY <1>0, <1>2, ForgetTimes DEF ConsentRefuse, Crash
<1>3. ASSUME NEW r \in Req, Handle(r) PROVE TimingInv'
  BY <1>0, <1>2, <1>3, ExchangeTimes, StashTimes, ApproveTimes, CodePersistTimes,
     IssueTimes, CognitoTimes, RefreshPersistTimes, RotateTimes DEF Handle
<1>4. ASSUME NEW s \in sessions, RevokeAccess(s) PROVE TimingInv'
  BY <1>0, <1>4, ForgetTimes DEF RevokeAccess
<1>5. ASSUME NEW x \in store, RevokeRefresh(x) PROVE TimingInv'
  BY <1>0, <1>5, ForgetTimes DEF RevokeRefresh, Pop
<1>6. CASE UNCHANGED vars
  BY <1>0, <1>6, ForgetTimes DEF vars
<1> QED
  BY <1>0, <1>1, <1>2, <1>3, <1>4, <1>5, <1>6, AuthorizeTimes, DisableTimes, TickTimes
  DEF Next, Pops

\* The Cognito gate stops the refresh grant of a disabled user.
THEOREM RefreshStops == Spec => []RefreshStopsAtDisable
<1>1. TimingInv => RefreshStopsAtDisable
  BY DEF TimingInv, SessionTimes
<1> QED
  BY <1>1, TimingInit, TimingStep, PTL DEF Spec

\* All access of a disabled user ends within LoginSpan and one access TTL.
THEOREM OffboardingIsBounded == Spec => []OffboardingBound
<1>1. TimingInv => OffboardingBound
  BY DEF TimingInv, SessionTimes
<1> QED
  BY <1>1, TimingInit, TimingStep, PTL DEF Spec

\* Rotation never extends the window of a refresh token.
THEOREM WindowIsFixed == Spec => []RefreshWindow
<1>1. TimingInv => RefreshWindow
  <2> SUFFICES ASSUME TimingInv, NEW x \in store, x.stage = "refresh"
               PROVE  x.expires <= authedAt[x.login] + LoginSpan + RefreshTTL
    BY DEF RefreshWindow
  <2>1. /\ x.expires <= authedAt[x.login] + Span("refresh")
        /\ Span("refresh") = LoginSpan + RefreshTTL
        /\ LoginSpan \in Int /\ RefreshTTL \in Int
    BY SpanType, TTLAssumption DEF TimingInv, RowTimes, RowOnTime
  <2>2. authedAt[x.login] \in Int /\ x.expires \in Int
    BY DEF TimingInv, TypeOK, Row, Time, Never
  <2> QED
    BY <2>1, <2>2
<1> QED
  BY <1>1, TimingInit, TimingStep, PTL DEF Spec
=============================================================================
