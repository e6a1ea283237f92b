-------------------------- MODULE LoginGrantProofs --------------------------
(***************************************************************************)
(* OAuthFlow implements LoginGrant: for any number of logins and handlers, *)
(* any TTL and any bound, the server keeps the promise it makes about each *)
(* login.                                                                  *)
(***************************************************************************)
EXTENDS OAuthFlowProofs
-----------------------------------------------------------------------------
(* A handler works on a row of the stage its program point is about.       *)

StagesAt(pc) ==
    CASE pc = "exchange"                   -> PendingTable
      [] pc = "decide"                     -> {"consent"}
      [] pc = "persist"                    -> {"code"}
      [] pc \in {"cognito", "repersist"}   -> {"refresh"}
      [] OTHER                             -> Stage

HoldersStaged ==
    \A r \in Req : req[r] # Idle => Holding(r).stage \in StagesAt(req[r].pc)

\* A pop starts its handler on a row of its own stage.
LEMMA StagedTake ==
  ASSUME HoldersStaged, NEW r \in Req, NEW x, NEW pc, Take(r, x, pc),
         x.stage \in StagesAt(pc)
  PROVE  HoldersStaged'
  BY DEF HoldersStaged, Take, Others, Holding

\* A handler that goes on has a row its next program point is about.
LEMMA StagedMove ==
  ASSUME HoldersStaged, NEW r \in Req, Others(r),
         req'[r] # Idle => Holding(r)'.stage \in StagesAt(req'[r].pc)
  PROVE  HoldersStaged'
  BY DEF HoldersStaged, Others, Holding

\* At the program points that may be about any stage, type correctness does.
LEMMA StagedAnywhere ==
  ASSUME TypeOK', NEW r \in Req, req'[r] # Idle,
         req'[r].pc \in {"stash", "issue", "rotate"}
  PROVE  Holding(r)'.stage \in StagesAt(req'[r].pc)
<1>1. Holding(r)'.stage \in Stage
  BY DEF TypeOK, Busy, Row, Holding
<1> QED
  BY <1>1 DEF StagesAt

LEMMA StagedStep ==
  ASSUME TypeOK, TypeOK', HoldersStaged, [Next]_vars PROVE HoldersStaged'
<1>1. UNCHANGED req => HoldersStaged'
  BY DEF HoldersStaged, Holding
<1>2. ASSUME NEW r \in Req, Others(r), req'[r] = Idle PROVE HoldersStaged'
  BY <1>2, StagedMove
<1>3. ASSUME NEW r \in Req, NEW pc \in {"stash", "issue", "rotate"}, Work(r, pc)
      PROVE  HoldersStaged'
  <2>1. Others(r) /\ (req'[r] = Idle \/ req'[r].pc = pc)
    BY <1>3 DEF Work
  <2> QED
    BY <1>3, <2>1, StagedMove, StagedAnywhere
<1>4. ASSUME NEW r \in Req, NEW x \in store, CallbackPop(r, x) PROVE HoldersStaged'
  BY <1>4, PopEffect, StagedTake DEF CallbackPop, Presentable, StagesAt
<1>5. ASSUME NEW r \in Req, NEW x \in store, ConsentPop(r, x) PROVE HoldersStaged'
  BY <1>5, PopEffect, StagedTake DEF StagesAt
<1>6. ASSUME NEW r \in Req, NEW x \in store, CodePop(r, x) PROVE HoldersStaged'
  BY <1>6, PopEffect, StagedTake DEF StagesAt
<1>7. ASSUME NEW r \in Req, NEW x \in store, RefreshPop(r, x) PROVE HoldersStaged'
  BY <1>7, PopEffect, StagedTake DEF StagesAt
<1>8. ASSUME NEW r \in Req, CallbackExchange(r) PROVE HoldersStaged'
  BY <1>3, <1>8, WorkEffect
<1>9. ASSUME NEW r \in Req, CodePersist(r) PROVE HoldersStaged'
  BY <1>3, <1>9, WorkEffect
<1>10. ASSUME NEW r \in Req, RefreshPersist(r) PROVE HoldersStaged'
  BY <1>3, <1>10, WorkEffect
<1>11. ASSUME NEW r \in Req, ConsentRefuse(r) \/ Crash(r) PROVE HoldersStaged'
  BY <1>2, <1>11, FinishEffect DEF ConsentRefuse, Crash
<1>12. ASSUME NEW r \in Req, NEW stage, Give(r, stage) PROVE HoldersStaged'
  BY <1>2, <1>12 DEF Give
<1>13. ASSUME NEW r \in Req, RefreshCognito(r) PROVE HoldersStaged'
  <2>1. CASE Finish(r)
    BY <1>2, <2>1, FinishEffect
  <2>2. CASE Goto(r, "repersist")
    <3>1. req[r].pc = "cognito" /\ req[r] \in Busy /\ req[r] # Idle
      BY <1>13, BusyType DEF RefreshCognito, Working, Idle
    <3>2. Others(r) /\ req'[r] = [req[r] EXCEPT !.pc = "repersist"]
      BY <2>2 DEF Goto, TypeOK, Others
    <3>3. req'[r].pc = "repersist" /\ Holding(r)'.stage = Holding(r).stage
      BY <3>1, <3>2 DEF Busy, Holding
    <3>4. Holding(r).stage = "refresh"
      BY <3>1 DEF HoldersStaged, StagesAt
    <3> QED
      BY <3>2, <3>3, <3>4, StagedMove DEF StagesAt
  <2> QED
    BY <1>13, <2>1, <2>2 DEF RefreshCognito
<1>14. ASSUME NEW r \in Req, Handle(r) PROVE HoldersStaged'
  BY <1>8, <1>9, <1>10, <1>11, <1>12, <1>13, <1>14, GiveEffect DEF Handle
<1>15. ASSUME NEW l \in Login, Authorize(l) PROVE HoldersStaged'
  BY <1>1, <1>15 DEF Authorize
<1>16. ASSUME NEW s \in sessions, RevokeAccess(s) PROVE HoldersStaged'
  BY <1>1, <1>16 DEF RevokeAccess
<1>17. ASSUME NEW x \in store, RevokeRefresh(x) PROVE HoldersStaged'
  BY <1>1, <1>17 DEF RevokeRefresh
<1> QED
  BY <1>1, <1>4, <1>5, <1>6, <1>7, <1>11, <1>14, <1>15, <1>16, <1>17
  DEF Next, Pops, DisableUser, Tick, vars

\* What the mapping below needs to know of a reachable state.
MapInv == GrantInv /\ HoldersStaged

LEMMA MapInvInductive == (Init => MapInv) /\ (MapInv /\ [Next]_vars => MapInv')
<1>1. Init => HoldersStaged
  BY DEF Init, HoldersStaged
<1>2. MapInv /\ [Next]_vars => GrantInv' /\ TypeOK /\ TypeOK'
  BY GrantStep DEF MapInv, GrantInv
<1> QED
  BY <1>1, <1>2, GrantInit, StagedStep DEF MapInv
-----------------------------------------------------------------------------
(* Where a login is decides its phase, and nothing else does.              *)

Nowhere(l) ==
    /\ \A x \in store : x.login # l
    /\ \A r \in Req : req[r] # Idle => Holding(r).login # l

PhaseTold ==
    /\ \A x \in store : Phase(x.login) = StagePhase(x)
    /\ \A r \in Req : req[r] # Idle => Phase(Holding(r).login) = HolderPhase(r)
    /\ \A l \in Login : Nowhere(l) =>
          Phase(l) = IF l \in begun THEN "over" ELSE "none"

LEMMA PhaseIsTold == GrantInv => PhaseTold
<1> SUFFICES ASSUME GrantInv PROVE PhaseTold
  OBVIOUS
<1>0. Alone /\ RowsEarned /\ HoldersEarned
  BY DEF GrantInv
<1>1. ASSUME NEW x \in store PROVE Phase(x.login) = StagePhase(x)
  <2>1. Rows(x.login) = {x} /\ Holders(x.login) = {} /\ x.login \in begun
    BY <1>0 DEF Alone, Rows, Holders, RowsEarned
  <2>2. (CHOOSE y \in Rows(x.login) : TRUE) = x
    BY <2>1
  <2> QED
    BY <2>1, <2>2 DEF Phase
<1>2. ASSUME NEW r \in Req, req[r] # Idle
      PROVE  Phase(Holding(r).login) = HolderPhase(r)
  <2> DEFINE l == Holding(r).login
  <2>1. Rows(l) = {} /\ Holders(l) = {r} /\ l \in begun
    BY <1>0, <1>2 DEF Alone, Rows, Holders, HoldersEarned
  <2>2. (CHOOSE q \in Holders(l) : TRUE) = r
    BY <2>1
  <2> QED
    BY <2>1, <2>2 DEF Phase
<1>3. ASSUME NEW l \in Login, Nowhere(l)
      PROVE  Phase(l) = IF l \in begun THEN "over" ELSE "none"
  <2>1. Rows(l) = {} /\ Holders(l) = {}
    BY <1>3 DEF Nowhere, Rows, Holders
  <2> QED
    BY <2>1 DEF Phase
<1> QED
  BY <1>1, <1>2, <1>3 DEF PhaseTold

LEMMA PhaseIsToldNext == GrantInv' => PhaseTold'
  BY PhaseIsTold, PTL

\* Every other login keeps its phase.
OthersStay(l) == \A k \in Login \ {l} : Phase(k)' = Phase(k)

\* A step that touches the rows and the handler of one login only.
LEMMA FrameStays ==
  ASSUME PhaseTold, PhaseTold', NEW l,
         \A x : x.login # l => (x \in store <=> x \in store'),
         \A q \in Req : \/ req'[q] = req[q]
                        \/ /\ req[q] = Idle \/ Holding(q).login = l
                           /\ req'[q] = Idle \/ Holding(q)'.login = l,
         \A k : k # l => (k \in begun <=> k \in begun')
  PROVE  OthersStay(l)
<1> SUFFICES ASSUME NEW k \in Login \ {l} PROVE Phase(k)' = Phase(k)
  BY DEF OthersStay
<1>1. CASE \E x \in store : x.login = k
  <2>1. PICK x \in store : x.login = k
    BY <1>1
  <2>2. Phase(x.login)' = StagePhase(x) /\ Phase(x.login) = StagePhase(x)
    BY <2>1 DEF PhaseTold, StagePhase
  <2> QED
    BY <2>1, <2>2
<1>2. CASE \E q \in Req : req[q] # Idle /\ Holding(q).login = k
  <2>1. PICK q \in Req : req[q] # Idle /\ Holding(q).login = k
    BY <1>2
  <2>2. req'[q] = req[q] /\ Holding(q)' = Holding(q)
    BY <2>1 DEF Holding
  <2>3. HolderPhase(q)' = HolderPhase(q)
    BY <2>2 DEF HolderPhase
  <2>4. Phase(k) = HolderPhase(q) /\ Phase(k)' = HolderPhase(q)'
    BY <2>1, <2>2 DEF PhaseTold
  <2> QED
    BY <2>3, <2>4
<1>3. CASE Nowhere(k)
  <2>1. Nowhere(k)'
    BY <1>3 DEF Nowhere, Holding
  <2>2. k \in begun <=> k \in begun'
    OBVIOUS
  <2> QED
    BY <1>3, <2>1, <2>2 DEF PhaseTold
<1> QED
  BY <1>1, <1>2, <1>3 DEF Nowhere
-----------------------------------------------------------------------------
(* The three kinds of handler step, as moves of one login.                 *)

LEMMA TakeMoves ==
  ASSUME PhaseTold, PhaseTold', GrantInv, GrantInv', UNCHANGED begun,
         NEW r \in Req, NEW x \in store,
         NEW pc \in {"exchange", "decide", "persist", "cognito"}, Take(r, x, pc)
  PROVE  /\ OthersStay(x.login)
         /\ Phase(x.login) = StagePhase(x)
         /\ Phase(x.login)' \in {StagePhase(x), "over"}
<1> DEFINE l == x.login
<1>1. /\ \A y \in store' : y.login # l
      /\ \A q \in Req : q # r /\ req'[q] # Idle => Holding(q)'.login # l
  BY DEF GrantInv, Alone, Take, Others, Holding
<1>2. OthersStay(l)
  BY <1>1, FrameStays DEF Take, Others, Holding
<1>3. Phase(l) = StagePhase(x) /\ l \in begun /\ l \in Login
  BY DEF PhaseTold, GrantInv, RowsEarned, TypeOK, Row
<1>4. CASE req'[r] = Idle
  <2>1. Nowhere(l)'
    BY <1>1, <1>4 DEF Nowhere
  <2> QED
    BY <1>2, <1>3, <2>1 DEF PhaseTold
<1>5. CASE req'[r] # Idle
  <2>1. req'[r].pc = pc /\ Holding(r)' = x
    BY <1>5 DEF Take, Holding
  <2>2. HolderPhase(r)' = StagePhase(x)
    BY <2>1 DEF HolderPhase, StagePhase
  <2>3. Phase(Holding(r).login)' = HolderPhase(r)'
    BY <1>5 DEF PhaseTold
  <2> QED
    BY <1>2, <1>3, <2>1, <2>2, <2>3
<1> QED
  BY <1>4, <1>5

LEMMA WorkMoves ==
  ASSUME PhaseTold, PhaseTold', GrantInv, GrantInv', UNCHANGED begun,
         NEW r \in Req, NEW pc, Work(r, pc),
         NEW l \in Login, l = Holding(r).login
  PROVE  /\ OthersStay(l)
         /\ Phase(l) = HolderPhase(r)
         /\ \/ Phase(l)' = "over"
            \/ /\ req'[r] # Idle /\ req'[r].pc = pc
               /\ Phase(l)' = HolderPhase(r)'
<1>1. /\ req[r] # Idle
      /\ \A y \in store' : y.login # l
      /\ \A q \in Req : q # r /\ req'[q] # Idle => Holding(q)'.login # l
  BY DEF GrantInv, Alone, Work, Others, Holding
<1>2. OthersStay(l)
  BY <1>1, FrameStays DEF Work, Others, Holding
<1>3. Phase(l) = HolderPhase(r) /\ l \in begun
  BY <1>1 DEF PhaseTold, GrantInv, HoldersEarned
<1>4. CASE req'[r] = Idle
  <2>1. Nowhere(l)'
    BY <1>1, <1>4 DEF Nowhere
  <2> QED
    BY <1>2, <1>3, <2>1 DEF PhaseTold
<1>5. CASE req'[r] # Idle
  <2>1. req'[r].pc = pc /\ Holding(r)'.login = l
    BY <1>5 DEF Work, Holding
  <2> QED
    BY <1>2, <1>3, <1>5, <2>1 DEF PhaseTold
<1> QED
  BY <1>4, <1>5

LEMMA GiveMoves ==
  ASSUME PhaseTold, PhaseTold', GrantInv, GrantInv', UNCHANGED begun,
         NEW r \in Req, NEW stage, Give(r, stage),
         NEW l \in Login, l = Holding(r).login
  PROVE  /\ OthersStay(l)
         /\ Phase(l) = HolderPhase(r)
         /\ \/ Phase(l)' = "over"
            \/ \E y \in Row : /\ y.stage = stage
                              /\ Phase(l)' = StagePhase(y)
<1>1. /\ req[r] # Idle
      /\ \A y \in store : y.login # l
      /\ \A q \in Req : q # r /\ req'[q] # Idle => Holding(q)'.login # l
  BY DEF GrantInv, Alone, Give, Others, Holding
<1>2. OthersStay(l)
  BY <1>1, FrameStays DEF Give, Others, Holding
<1>3. Phase(l) = HolderPhase(r) /\ l \in begun
  BY <1>1 DEF PhaseTold, GrantInv, HoldersEarned
<1>4. CASE store' = store
  <2>1. Nowhere(l)'
    BY <1>1, <1>4 DEF Nowhere, Give
  <2> QED
    BY <1>2, <1>3, <2>1 DEF PhaseTold
<1>5. ASSUME NEW y \in Row, y.login = l, y.stage = stage, store' = store \cup {y}
      PROVE  Phase(l)' = StagePhase(y)
  BY <1>5 DEF PhaseTold, StagePhase
<1> QED
  BY <1>2, <1>3, <1>4, <1>5 DEF Give, Holding
-----------------------------------------------------------------------------
(* A move of one login is a step of LoginGrant.                            *)

PhaseMap == [l \in Login |-> Phase(l)]

Allowed == [Promise!Next]_(Promise!vars)

\* The forward moves of LoginGrant that leave its grants alone.
Forward(from, to) ==
    \/ from = "none" /\ to = "asked"
    \/ from = "asked" /\ to = "authenticated"
    \/ from = "authenticated" /\ to = "approved"
    \/ from = "granted" /\ to = "live"

LEMMA ShiftMap ==
  ASSUME NEW l \in Login, OthersStay(l), NEW to, Phase(l)' = to
  PROVE  PhaseMap' = [PhaseMap EXCEPT ![l] = to]
  BY DEF OthersStay, PhaseMap

LEMMA StepAllowed ==
  ASSUME NEW l \in Login, OthersStay(l), Grants' = Grants,
         \/ Phase(l)' = Phase(l)
         \/ Phase(l) \in Promise!Phases \ {"over"} /\ Phase(l)' = "over"
         \/ Forward(Phase(l), Phase(l)')
  PROVE  Allowed
<1>0. PhaseMap = [k \in Login |-> Phase(k)] /\ PhaseMap[l] = Phase(l)
  BY DEF PhaseMap
<1>1. CASE Phase(l)' = Phase(l)
  <2>1. PhaseMap' = PhaseMap
    BY <1>1 DEF PhaseMap, OthersStay
  <2> QED
    BY <1>0, <2>1 DEF PhaseMap, Allowed, Promise!vars
<1>2. CASE Phase(l) \in Promise!Phases \ {"over"} /\ Phase(l)' = "over"
  <2>1. PhaseMap' = [PhaseMap EXCEPT ![l] = "over"]
    BY <1>2, ShiftMap
  <2>2. Promise!End(l)
    BY <1>0, <1>2, <2>1 DEF PhaseMap, Promise!End, Promise!Move
  <2> QED
    BY <2>2 DEF Allowed, Promise!Next
<1>3. CASE Forward(Phase(l), Phase(l)')
  <2>1. ASSUME NEW to, Phase(l)' = to PROVE PhaseMap' = [PhaseMap EXCEPT ![l] = to]
    BY <2>1, ShiftMap
  <2>2. \/ Promise!Ask(l) \/ Promise!Authenticate(l) \/ Promise!Approve(l)
        \/ Promise!Settle(l)
    BY <1>0, <1>3, <2>1
    DEF PhaseMap, Forward, Promise!Ask, Promise!Authenticate, Promise!Approve,
        Promise!Settle, Promise!Move
  <2> QED
    BY <2>2 DEF Allowed, Promise!Next
<1> QED
  BY <1>1, <1>2, <1>3

\* Entering "granted", with or without a stored access token.
LEMMA GrantAllowed ==
  ASSUME NEW l \in Login, OthersStay(l), Phase(l) \in {"approved", "live"},
         Phase(l)' = "granted", NEW t \in 1..MaxKey,
         Grants' = Grants \/ Grants' = Grants \cup {<<l, t>>}
  PROVE  Allowed
<1>1. PhaseMap' = [PhaseMap EXCEPT ![l] = "granted"] /\ PhaseMap[l] = Phase(l)
  BY ShiftMap DEF PhaseMap
<1>2. Promise!Grant(l)
  BY <1>1 DEF PhaseMap, Promise!Grant, Promise!Move
<1> QED
  BY <1>2 DEF Allowed, Promise!Next

\* A step that touches no row, no handler and no login.
LEMMA QuietAllowed ==
  ASSUME PhaseTold, PhaseTold', UNCHANGED <<store, req, begun>>,
         \/ Grants' = Grants
         \/ \E g \in Grants : Grants' = Grants \ {g}
  PROVE  Allowed
<1>1. ASSUME NEW k \in Login PROVE Phase(k)' = Phase(k)
  <2>1. Rows(k)' = Rows(k) /\ Holders(k)' = Holders(k)
    BY DEF Rows, Holders, Holding
  <2>2. ASSUME NEW q \in Req PROVE HolderPhase(q)' = HolderPhase(q)
    BY DEF HolderPhase, Holding
  <2> QED
    BY <2>1, <2>2 DEF PhaseTold, Rows, Holders, Nowhere
<1>2. PhaseMap' = PhaseMap
  BY <1>1 DEF PhaseMap
<1> QED
  BY <1>2 DEF PhaseMap, Allowed, Promise!Next, Promise!Withdraw, Promise!vars
-----------------------------------------------------------------------------
(* Every step of the server is allowed.                                    *)

LEMMA RowPhases ==
  \A x \in Row : StagePhase(x) \in Promise!Phases \ {"over"}
  BY DEF Row, Stage, StagePhase, Promise!Phases

LEMMA HolderPhases ==
  ASSUME TypeOK, NEW r \in Req, req[r] # Idle
  PROVE  HolderPhase(r) \in Promise!Phases \ {"over"}
<1>1. Holding(r) \in Row
  BY DEF TypeOK, Busy, Holding
<1> QED
  BY <1>1, RowPhases DEF HolderPhase, Promise!Phases

\* The login of a busy handler, as a value that a step does not change.
LEMMA HeldLogin ==
  ASSUME TypeOK, NEW r \in Req, req[r] # Idle
  PROVE  \E l \in Login : l = Holding(r).login
  BY DEF TypeOK, Busy, Row, Holding

\* What the steps below have at hand.
Ready ==
    /\ MapInv /\ MapInv'
    /\ TypeOK /\ TypeOK'
    /\ PhaseTold /\ PhaseTold'

\* Popping a row, for whatever handler, keeps the phase or ends the login.
LEMMA TakeAllowed ==
  ASSUME Ready, UNCHANGED <<begun, sessions>>, NEW r \in Req, NEW x \in store,
         NEW pc \in {"exchange", "decide", "persist", "cognito"}, Take(r, x, pc)
  PROVE  Allowed
<1>1. /\ OthersStay(x.login) /\ Phase(x.login) = StagePhase(x)
      /\ Phase(x.login)' \in {StagePhase(x), "over"}
  BY TakeMoves DEF Ready, MapInv
<1>2. x \in Row /\ x.login \in Login
  BY DEF Ready, TypeOK, Row
<1>3. StagePhase(x) \in Promise!Phases \ {"over"}
  BY <1>2, RowPhases
<1>4. Grants' = Grants
  BY DEF Grants
<1> QED
  BY <1>1, <1>2, <1>3, <1>4, StepAllowed

\* Going on with a login keeps its phase, moves it forward or ends it.
LEMMA WorkAllowed ==
  ASSUME Ready, UNCHANGED <<begun, sessions>>, NEW r \in Req, NEW pc, Work(r, pc),
         req'[r] # Idle => \/ HolderPhase(r)' = HolderPhase(r)
                           \/ Forward(HolderPhase(r), HolderPhase(r)')
  PROVE  Allowed
<1>1. req[r] # Idle
  BY DEF Work
<1>2. PICK l \in Login : l = Holding(r).login
  BY <1>1, HeldLogin DEF Ready
<1>3. /\ OthersStay(l) /\ Phase(l) = HolderPhase(r)
      /\ \/ Phase(l)' = "over"
         \/ req'[r] # Idle /\ Phase(l)' = HolderPhase(r)'
  BY <1>2, WorkMoves DEF Ready, MapInv
<1>4. HolderPhase(r) \in Promise!Phases \ {"over"} /\ Grants' = Grants
  BY <1>1, HolderPhases DEF Ready, Grants
<1> QED
  BY <1>3, <1>4, StepAllowed

\* Storing the next row keeps the phase, moves it forward or ends the login.
LEMMA GiveAllowed ==
  ASSUME Ready, UNCHANGED <<begun, sessions>>, NEW r \in Req, NEW stage, Give(r, stage),
         \A y \in Row : y.stage = stage =>
            \/ StagePhase(y) = HolderPhase(r)
            \/ Forward(HolderPhase(r), StagePhase(y))
  PROVE  Allowed
<1>1. req[r] # Idle
  BY DEF Give
<1>2. PICK l \in Login : l = Holding(r).login
  BY <1>1, HeldLogin DEF Ready
<1>3. /\ OthersStay(l) /\ Phase(l) = HolderPhase(r)
      /\ \/ Phase(l)' = "over"
         \/ \E y \in Row : y.stage = stage /\ Phase(l)' = StagePhase(y)
  BY <1>2, GiveMoves DEF Ready, MapInv
<1>4. HolderPhase(r) \in Promise!Phases \ {"over"} /\ Grants' = Grants
  BY <1>1, HolderPhases DEF Ready, Grants
<1> QED
  BY <1>3, <1>4, StepAllowed

\* Persisting a session is the one way to enter "granted".
LEMMA PersistAllowed ==
  ASSUME Ready, UNCHANGED begun, NEW r \in Req, NEW via,
         NEW pc \in {"issue", "rotate"}, PersistSession(r, via, pc), Work(r, pc),
         req'[r] # Idle, HolderPhase(r) \in {"approved", "live"}
  PROVE  Allowed
<1>1. req[r] # Idle
  BY DEF Work
<1>2. PICK l \in Login : l = Holding(r).login
  BY <1>1, HeldLogin DEF Ready
<1>3. req'[r].pc = pc
  BY DEF Work
<1>4. HolderPhase(r)' = "granted"
  BY <1>3 DEF HolderPhase
<1>5. OthersStay(l) /\ Phase(l) = HolderPhase(r)
  BY <1>2, WorkMoves DEF Ready, MapInv
<1>6. Phase(l)' = "granted"
  <2>1. Holding(r)'.login = l
    BY <1>2 DEF Work, Holding
  <2> QED
    BY <1>4, <2>1 DEF Ready, PhaseTold
<1>7. PICK t \in 1..MaxKey : t = Fresh
  <2>1. minted + 1 \in 1..MaxKey
    BY TTLAssumption DEF PersistSession, Mint, Ready, TypeOK
  <2> QED
    BY <2>1 DEF Fresh
<1>8. Grants' = Grants \/ Grants' = Grants \cup {<<l, t>>}
  BY <1>2, <1>7 DEF PersistSession, Grants
<1> QED
  BY <1>5, <1>6, <1>8, GrantAllowed

\* A handler that persisted a session goes on with its request.
LEMMA PersistEffect ==
  ASSUME TypeOK, NEW r \in Req, NEW via, NEW pc \in Working, req[r].pc = pc,
         NEW next \in Working, PersistSession(r, via, next)
  PROVE  req'[r] # Idle
<1>1. req[r] \in Busy
  BY BusyType
<1>2. req'[r] = [req[r] EXCEPT !.pc = next, !.access = Fresh]
  BY DEF PersistSession, TypeOK
<1> QED
  BY <1>1, <1>2 DEF Idle, Busy, Working

\* A new login is asked for, or is over before its answer is out.
LEMMA AuthorizeAllowed ==
  ASSUME Ready, NEW l \in Login, Authorize(l) PROVE Allowed
<1> DEFINE x == [key |-> Fresh, login |-> l, stage |-> "authorize",
                 expires |-> now + PendingTTL, enc |-> FALSE]
<1>1. x.login = l /\ x.stage = "authorize"
  OBVIOUS
<1>2. store' = store \/ store' = store \cup {x}
  BY DEF Authorize, Put
<1>3. l \notin begun /\ begun' = begun \cup {l} /\ UNCHANGED <<sessions, req>>
  BY DEF Authorize
<1> HIDE DEF x
<1>4. Nowhere(l)
  BY <1>3 DEF Ready, MapInv, GrantInv, RowsEarned, HoldersEarned, Nowhere
<1>5. Phase(l) = "none"
  BY <1>3, <1>4 DEF Ready, PhaseTold
<1>6. OthersStay(l)
  BY <1>1, <1>2, <1>3, FrameStays DEF Ready
<1>7. CASE store' = store
  <2>1. Nowhere(l)'
    BY <1>3, <1>4, <1>7 DEF Nowhere, Holding
  <2>2. Phase(l)' = "over"
    BY <1>3, <2>1 DEF Ready, PhaseTold
  <2> QED
    BY <1>3, <1>5, <1>6, <2>2, StepAllowed DEF Grants, Promise!Phases
<1>8. CASE x \in store'
  <2>1. Phase(l)' = "asked"
    BY <1>1, <1>8 DEF Ready, PhaseTold, StagePhase
  <2> QED
    BY <1>3, <1>5, <1>6, <2>1, StepAllowed DEF Grants, Forward
<1> QED
  BY <1>2, <1>7, <1>8

\* A revoked refresh token leaves its login over.
LEMMA RevokeAllowed ==
  ASSUME Ready, NEW x \in store, RevokeRefresh(x) PROVE Allowed
<1>1. /\ store' = store \ {x} /\ UNCHANGED <<sessions, req, begun>>
      /\ x \in Row /\ x.login \in Login /\ x.login \in begun
  BY DEF RevokeRefresh, Pop, Ready, MapInv, GrantInv, RowsEarned, TypeOK, Row
<1>2. OthersStay(x.login)
  BY <1>1, FrameStays DEF Ready, Holding
<1>3. Nowhere(x.login)'
  BY <1>1 DEF Nowhere, Ready, MapInv, GrantInv, Alone, Holding
<1>4. Phase(x.login) = StagePhase(x) /\ Phase(x.login)' = "over"
  BY <1>1, <1>3 DEF Ready, PhaseTold
<1>5. StagePhase(x) \in Promise!Phases \ {"over"} /\ Grants' = Grants
  BY <1>1, RowPhases DEF Grants
<1> QED
  BY <1>1, <1>2, <1>4, <1>5, StepAllowed

\* Removing a session withdraws its grant, unless another one equals it.
LEMMA RevokeAccessAllowed ==
  ASSUME Ready, NEW s \in sessions, RevokeAccess(s) PROVE Allowed
<1>1. sessions' = sessions \ {s} /\ UNCHANGED <<store, req, begun>>
  BY DEF RevokeAccess
<1>2. <<s.login, s.key>> \in Grants
  BY DEF Grants
<1>3. Grants' = Grants \/ Grants' = Grants \ {<<s.login, s.key>>}
  BY <1>1 DEF Grants
<1> QED
  BY <1>1, <1>2, <1>3, QuietAllowed DEF Ready

LEMMA HandleAllowed ==
  ASSUME Ready, NEW r \in Req, Handle(r) PROVE Allowed
<1>0. TypeOK /\ (req[r] # Idle => Holding(r).stage \in StagesAt(req[r].pc))
  BY DEF Ready, MapInv, HoldersStaged
<1>1. ASSUME CallbackExchange(r) PROVE Allowed
  <2>1. Work(r, "stash") /\ req[r].pc = "exchange" /\ UNCHANGED <<begun, sessions>>
    BY <1>0, <1>1, WorkEffect DEF CallbackExchange
  <2>2. HolderPhase(r) \in {"asked", "authenticated"}
    BY <1>0, <2>1 DEF Work, StagesAt, PendingTable, HolderPhase, StagePhase
  <2>3. req'[r] # Idle => HolderPhase(r)' = "authenticated"
    BY <2>1 DEF Work, HolderPhase
  <2> QED
    BY <2>1, <2>2, <2>3, WorkAllowed DEF Forward
<1>2. ASSUME CallbackStash(r) PROVE Allowed
  <2>1. Give(r, "consent") /\ UNCHANGED <<begun, sessions>>
    BY <1>0, <1>2, GiveEffect DEF CallbackStash
  <2>2. HolderPhase(r) = "authenticated"
    BY <1>2 DEF CallbackStash, HolderPhase
  <2> QED
    BY <2>1, <2>2, GiveAllowed DEF StagePhase
<1>3. ASSUME ConsentRefuse(r) PROVE Allowed
  <2>1. Work(r, "decide") /\ req'[r] = Idle /\ UNCHANGED <<begun, sessions>>
    BY <1>0, <1>3, WorkEffect, FinishEffect DEF ConsentRefuse
  <2> QED
    BY <2>1, WorkAllowed
<1>4. ASSUME ConsentApprove(r) PROVE Allowed
  <2>1. Give(r, "code") /\ UNCHANGED <<begun, sessions>>
    BY <1>0, <1>4, GiveEffect DEF ConsentApprove
  <2>2. HolderPhase(r) = "authenticated"
    BY <1>0, <1>4, <2>1 DEF ConsentApprove, Give, StagesAt, HolderPhase, StagePhase
  <2> QED
    BY <2>1, <2>2, GiveAllowed DEF StagePhase, Forward
<1>5. ASSUME CodePersist(r) PROVE Allowed
  <2>1. Work(r, "issue") /\ PersistSession(r, "code", "issue") /\ UNCHANGED begun
    BY <1>0, <1>5, WorkEffect DEF CodePersist
  <2>2. req[r].pc = "persist" /\ req'[r] # Idle
    BY <1>0, <1>5, PersistEffect DEF CodePersist, Working
  <2>3. HolderPhase(r) = "approved"
    BY <1>0, <2>1, <2>2 DEF Work, StagesAt, HolderPhase, StagePhase
  <2> QED
    BY <2>1, <2>2, <2>3, PersistAllowed
<1>6. ASSUME CodeIssue(r) PROVE Allowed
  <2>1. Give(r, "refresh") /\ UNCHANGED <<begun, sessions>>
    BY <1>0, <1>6, GiveEffect DEF CodeIssue
  <2>2. HolderPhase(r) = "granted"
    BY <1>6 DEF CodeIssue, HolderPhase
  <2> QED
    BY <2>1, <2>2, GiveAllowed DEF StagePhase, Forward
<1>7. ASSUME RefreshCognito(r) PROVE Allowed
  <2>1. Work(r, "repersist") /\ UNCHANGED <<begun, sessions>>
    BY <1>0, <1>7, WorkEffect DEF RefreshCognito
  <2>2. HolderPhase(r) = "live"
    BY <1>0, <1>7, <2>1 DEF RefreshCognito, Work, StagesAt, HolderPhase, StagePhase
  <2>3. req'[r] # Idle => HolderPhase(r)' = "live"
    BY <2>1 DEF Ready, MapInv, HoldersStaged, Work, StagesAt, HolderPhase, StagePhase
  <2> QED
    BY <2>1, <2>2, <2>3, WorkAllowed
<1>8. ASSUME RefreshPersist(r) PROVE Allowed
  <2>1. Work(r, "rotate") /\ PersistSession(r, "refresh", "rotate") /\ UNCHANGED begun
    BY <1>0, <1>8, WorkEffect DEF RefreshPersist
  <2>2. req[r].pc = "repersist" /\ req'[r] # Idle
    BY <1>0, <1>8, PersistEffect DEF RefreshPersist, Working
  <2>3. HolderPhase(r) = "live"
    BY <1>0, <2>1, <2>2 DEF Work, StagesAt, HolderPhase, StagePhase
  <2> QED
    BY <2>1, <2>2, <2>3, PersistAllowed
<1>9. ASSUME RefreshRotate(r) PROVE Allowed
  <2>1. Give(r, "refresh") /\ UNCHANGED <<begun, sessions>>
    BY <1>0, <1>9, GiveEffect DEF RefreshRotate
  <2>2. HolderPhase(r) = "granted"
    BY <1>9 DEF RefreshRotate, HolderPhase
  <2> QED
    BY <2>1, <2>2, GiveAllowed DEF StagePhase, Forward
<1> QED
  BY <1>1, <1>2, <1>3, <1>4, <1>5, <1>6, <1>7, <1>8, <1>9 DEF Handle

LEMMA PopsAllowed ==
  ASSUME Ready, NEW r \in Req, Pops(r) PROVE Allowed
<1>0. TypeOK
  BY DEF Ready
<1>1. PICK x \in store : CallbackPop(r, x) \/ ConsentPop(r, x) \/ CodePop(r, x)
                         \/ RefreshPop(r, x)
  BY DEF Pops
<1>2. UNCHANGED <<begun, sessions>>
  BY <1>1 DEF CallbackPop, ConsentPop, CodePop, RefreshPop
<1>3. \E pc \in {"exchange", "decide", "persist", "cognito"} : Take(r, x, pc)
  BY <1>0, <1>1, PopEffect
<1> QED
  BY <1>2, <1>3, TakeAllowed

LEMMA EveryStepAllowed == MapInv /\ MapInv' /\ [Next]_vars => Allowed
<1> SUFFICES ASSUME MapInv, MapInv', [Next]_vars PROVE Allowed
  OBVIOUS
<1>0. Ready
  BY PhaseIsTold, PhaseIsToldNext DEF Ready, MapInv, GrantInv
<1>1. ASSUME UNCHANGED <<store, req, begun, sessions>> PROVE Allowed
  BY <1>0, <1>1, QuietAllowed DEF Ready, Grants
<1>2. ASSUME NEW r \in Req, Crash(r) PROVE Allowed
  <2>1. Work(r, "idle") /\ req'[r] = Idle /\ UNCHANGED <<begun, sessions>>
    BY <1>0, <1>2, WorkEffect, FinishEffect DEF Ready, Crash
  <2> QED
    BY <1>0, <2>1, WorkAllowed
<1> QED
  BY <1>0, <1>1, <1>2, AuthorizeAllowed, PopsAllowed, HandleAllowed,
     RevokeAllowed, RevokeAccessAllowed
  DEF Next, DisableUser, Tick, vars

LEMMA InitAllowed == Init => Promise!Init
<1> SUFFICES ASSUME Init PROVE Promise!Init
  OBVIOUS
<1>1. \A l \in Login : Phase(l) = "none"
  BY DEF Init, Phase, Rows, Holders
<1> QED
  BY <1>1 DEF Promise!Init, Init, Grants

\* OAuthFlow implements LoginGrant: whatever requests arrive in whatever
\* order, fail, crash or are replayed, a login only moves as promised.
THEOREM LoginGrantIsKept == Spec => ImplementsLoginGrant
  BY MapInvInductive, EveryStepAllowed, InitAllowed, PTL
  DEF Spec, ImplementsLoginGrant, Promise!Spec, Allowed
=============================================================================
