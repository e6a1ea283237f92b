--------------------------- MODULE ToolCallProofs ---------------------------
(***************************************************************************)
(* Tool calls use the roster as RosterCache says they do, so what is       *)
(* proved of RosterCache holds of them; and what a tool call sends, and    *)
(* how long it goes on reading on one decision, is bounded for every       *)
(* number of calls, organizations, listed submissions and slots, every TTL *)
(* and every round trip.                                                   *)
(***************************************************************************)
EXTENDS ToolCall, FiniteSetTheorems, TLAPS
-----------------------------------------------------------------------------
(* The roster.  Its age is not stored anywhere: the memo keeps the time it *)
(* expires, a call in flight the time it began.  RosterInv says that each  *)
(* of the two is late enough: what a call was answered was the owner's     *)
(* roster since the call began, and what the memo holds was the owner's    *)
(* roster at most TTL + RoundTrip before it expires.                       *)

\* The answer a call holds was the roster after the call began.
AnswersAreRecent ==
    \A c \in Call : pending[c].phase = "answered" =>
        lastHeld[pending[c].orgs] >= pending[c].since

\* The http.Client has given up on what is older than a round trip.
CallsAreRecent ==
    \A c \in Call : pending[c].phase # "idle" =>
        pending[c].since <= now /\ now <= pending[c].since + RoundTrip

\* The memo was the roster at most TTL + RoundTrip before it expires.
MemoIsRecent ==
    cache.cached => lastHeld[cache.orgs] >= cache.expires - TTL - RoundTrip

\* The roster has been held up to now, and none is held in the future.
HistoryIsSound ==
    /\ lastHeld[roster] = now
    /\ \A r \in Rosters : lastHeld[r] <= now

RosterInv ==
    /\ TypeOK
    /\ HistoryIsSound
    /\ CallsAreRecent
    /\ AnswersAreRecent
    /\ MemoIsRecent
    /\ NoStaleVerdict
-----------------------------------------------------------------------------
LEMMA RosterInit == Init => RosterInv
  <1> SUFFICES ASSUME Init PROVE RosterInv
    OBVIOUS
  <1> USE RosterAssumption
  <1>1. TypeOK
    BY DEF Init, TypeOK, NoCache, Idle, NoVerdict, Rosters, Never
  <1>2. HistoryIsSound
    BY DEF Init, HistoryIsSound, Never
  <1>3. CallsAreRecent /\ AnswersAreRecent
    BY DEF Init, CallsAreRecent, AnswersAreRecent, Idle
  <1>4. MemoIsRecent /\ NoStaleVerdict
    BY DEF Init, MemoIsRecent, NoStaleVerdict, NoCache, NoVerdict
  <1> QED
    BY <1>1, <1>2, <1>3, <1>4 DEF RosterInv

\* A decision on a roster that was the owner's recently is not stale.
LEMMA DecideRecent ==
    ASSUME NEW orgs \in Rosters, TypeOK, HistoryIsSound,
           lastHeld[orgs] > now - TTL - RoundTrip, Decide(orgs)
    PROVE  /\ verdict' \in [kind : {"none", "auto", "refused", "error"}, age : Nat]
           /\ verdict'.kind \in {"auto", "refused"} => verdict'.age < TTL + RoundTrip
  <1> USE RosterAssumption
  <1>1. /\ lastHeld[orgs] \in Int /\ lastHeld[orgs] <= now /\ now \in Nat
        /\ TTL \in Nat /\ RoundTrip \in Nat
    BY DEF TypeOK, HistoryIsSound, Never
  <1>2. /\ now - lastHeld[orgs] \in Nat
        /\ now - lastHeld[orgs] < TTL + RoundTrip
    BY <1>1
  <1> QED
    BY <1>2 DEF Decide
-----------------------------------------------------------------------------
LEMMA RosterNext == RosterInv /\ [Next]_vars => RosterInv'
  <1> SUFFICES ASSUME RosterInv, [Next]_vars PROVE RosterInv'
    OBVIOUS
  <1> USE RosterAssumption
  <1>0. /\ TypeOK /\ HistoryIsSound /\ CallsAreRecent /\ AnswersAreRecent
        /\ MemoIsRecent /\ NoStaleVerdict
    BY DEF RosterInv
  <1>1. ASSUME NEW c \in Call, ServeCached(c) PROVE RosterInv'
    <2>1. cache.orgs \in Rosters /\ lastHeld[cache.orgs] \in Int
      BY <1>0 DEF TypeOK, Never
    <2>2. lastHeld[cache.orgs] > now - TTL - RoundTrip
      BY <1>0, <1>1, <2>1 DEF ServeCached, Fresh, MemoIsRecent, TypeOK
    <2>3. /\ verdict' \in [kind : {"none", "auto", "refused", "error"}, age : Nat]
          /\ NoStaleVerdict'
      BY <1>0, <1>1, <2>1, <2>2, DecideRecent DEF ServeCached, NoStaleVerdict
    <2>4. TypeOK'
      BY <1>0, <1>1, <2>3 DEF ServeCached, TypeOK
    <2>5. HistoryIsSound' /\ CallsAreRecent' /\ AnswersAreRecent' /\ MemoIsRecent'
      BY <1>0, <1>1 DEF ServeCached, HistoryIsSound, CallsAreRecent, AnswersAreRecent,
                  MemoIsRecent
    <2> QED
      BY <2>3, <2>4, <2>5 DEF RosterInv
  <1>2. ASSUME NEW c \in Call, Ask(c) PROVE RosterInv'
    <2>1. TypeOK'
      BY <1>0, <1>2 DEF Ask, TypeOK, Rosters, NoVerdict
    <2>2. CallsAreRecent' /\ AnswersAreRecent'
      BY <1>0, <1>2 DEF Ask, TypeOK, CallsAreRecent, AnswersAreRecent
    <2>3. HistoryIsSound' /\ MemoIsRecent' /\ NoStaleVerdict'
      BY <1>0, <1>2 DEF Ask, HistoryIsSound, MemoIsRecent, NoStaleVerdict, NoVerdict
    <2> QED
      BY <2>1, <2>2, <2>3 DEF RosterInv
  <1>3. ASSUME NEW c \in Call, Answer(c) PROVE RosterInv'
    <2>1. TypeOK'
      BY <1>0, <1>3 DEF Answer, TypeOK, NoVerdict
    <2>2. CallsAreRecent'
      BY <1>0, <1>3 DEF Answer, TypeOK, CallsAreRecent
    <2>3. AnswersAreRecent'
      BY <1>0, <1>3 DEF Answer, TypeOK, CallsAreRecent, AnswersAreRecent, HistoryIsSound
    <2>4. HistoryIsSound' /\ MemoIsRecent' /\ NoStaleVerdict'
      BY <1>0, <1>3 DEF Answer, HistoryIsSound, MemoIsRecent, NoStaleVerdict, NoVerdict
    <2> QED
      BY <2>1, <2>2, <2>3, <2>4 DEF RosterInv
  <1>4. ASSUME NEW c \in Call, Fail(c) PROVE RosterInv'
    <2>1. TypeOK'
      BY <1>0, <1>4 DEF Fail, TypeOK, Idle, Rosters
    <2>2. CallsAreRecent' /\ AnswersAreRecent'
      BY <1>0, <1>4 DEF Fail, TypeOK, CallsAreRecent, AnswersAreRecent, Idle
    <2>3. HistoryIsSound' /\ MemoIsRecent' /\ NoStaleVerdict'
      BY <1>0, <1>4 DEF Fail, HistoryIsSound, MemoIsRecent, NoStaleVerdict
    <2> QED
      BY <2>1, <2>2, <2>3 DEF RosterInv
  <1>5. ASSUME NEW c \in Call, Store(c) PROVE RosterInv'
    <2> DEFINE answer == pending[c].orgs
    <2>1. /\ answer \in Rosters /\ lastHeld[answer] \in Int
          /\ pending[c].since \in Nat /\ now \in Nat
      BY <1>0 DEF TypeOK, Never
    <2>2. lastHeld[answer] >= now - RoundTrip
      BY <1>0, <1>5, <2>1 DEF Store, CallsAreRecent, AnswersAreRecent
    <2>3. /\ verdict' \in [kind : {"none", "auto", "refused", "error"}, age : Nat]
          /\ NoStaleVerdict'
      <3>1. lastHeld[answer] > now - TTL - RoundTrip
        BY <1>0, <2>1, <2>2
      <3> QED
        BY <1>0, <1>5, <2>1, <3>1, DecideRecent DEF Store, NoStaleVerdict
    <2>4. /\ cache' = [cached |-> TRUE, orgs |-> answer, expires |-> now + TTL]
          /\ lastHeld' = lastHeld /\ now' = now /\ roster' = roster
          /\ pending' = [pending EXCEPT ![c] = Idle] /\ changes' = changes
      BY <1>0, <1>5 DEF Store, Expiry
    <2>5. TypeOK'
      BY <1>0, <2>1, <2>3, <2>4 DEF TypeOK, Idle, Rosters
    <2>6. MemoIsRecent'
      BY <1>0, <2>1, <2>2, <2>4 DEF MemoIsRecent
    <2>7. CallsAreRecent' /\ AnswersAreRecent'
      BY <1>0, <2>4 DEF TypeOK, CallsAreRecent, AnswersAreRecent, Idle
    <2>8. HistoryIsSound'
      BY <1>0, <2>4 DEF HistoryIsSound
    <2> QED
      BY <2>3, <2>5, <2>6, <2>7, <2>8 DEF RosterInv
  <1>6. ASSUME NEW r \in Rosters, ChangeRoster(r) PROVE RosterInv'
    <2>1. TypeOK'
      BY <1>0, <1>6 DEF ChangeRoster, TypeOK, NoVerdict
    <2>2. \A s \in Rosters : lastHeld'[s] >= lastHeld[s] /\ lastHeld'[s] <= now
      BY <1>0, <1>6 DEF ChangeRoster, TypeOK, HistoryIsSound, Never
    <2>3. HistoryIsSound'
      BY <1>0, <1>6, <2>2 DEF ChangeRoster, TypeOK, HistoryIsSound
    <2>4. MemoIsRecent'
      BY <1>0, <1>6, <2>1, <2>2 DEF ChangeRoster, TypeOK, MemoIsRecent, Never
    <2>5. CallsAreRecent' /\ AnswersAreRecent'
      BY <1>0, <1>6, <2>1, <2>2 DEF ChangeRoster, TypeOK, CallsAreRecent,
                              AnswersAreRecent, Never
    <2>6. NoStaleVerdict'
      BY <1>0, <1>6 DEF ChangeRoster, NoStaleVerdict, NoVerdict
    <2> QED
      BY <2>1, <2>3, <2>4, <2>5, <2>6 DEF RosterInv
  <1>7. ASSUME Tick PROVE RosterInv'
    <2>1. TypeOK'
      BY <1>0, <1>7 DEF Tick, TypeOK, NoVerdict
    <2>2. \A s \in Rosters : lastHeld'[s] >= lastHeld[s] /\ lastHeld'[s] <= now + 1
      BY <1>0, <1>7 DEF Tick, TypeOK, HistoryIsSound, Never
    <2>3. HistoryIsSound'
      BY <1>0, <1>7, <2>2 DEF Tick, TypeOK, HistoryIsSound
    <2>4. MemoIsRecent'
      BY <1>0, <1>7, <2>1, <2>2 DEF Tick, TypeOK, MemoIsRecent, Never
    <2>5. AnswersAreRecent'
      BY <1>0, <1>7, <2>1, <2>2 DEF Tick, TypeOK, AnswersAreRecent, Never
    <2>6. CallsAreRecent'
      BY <1>0, <1>7 DEF Tick, TypeOK, CallsAreRecent
    <2>7. NoStaleVerdict'
      BY <1>0, <1>7 DEF Tick, NoStaleVerdict, NoVerdict
    <2> QED
      BY <2>1, <2>3, <2>4, <2>5, <2>6, <2>7 DEF RosterInv
  <1>8. CASE Elsewhere
    BY <1>0, <1>8 DEF Elsewhere, NoVerdict, TypeOK, HistoryIsSound, CallsAreRecent,
                AnswersAreRecent, MemoIsRecent, NoStaleVerdict, RosterInv
  <1>9. CASE UNCHANGED vars
    BY <1>0, <1>9 DEF vars, TypeOK, HistoryIsSound, CallsAreRecent, AnswersAreRecent,
                MemoIsRecent, NoStaleVerdict, RosterInv
  <1> QED
    BY <1>1, <1>2, <1>3, <1>4, <1>5, <1>6, <1>7, <1>8, <1>9 DEF Next

\* cachedOrganizations (client.go:161-184) and resolveOrgID (tools.go:259-289):
\* the roster invariant holds in every reachable state.
THEOREM RosterInvariance == Spec => []RosterInv
  <1> QED
    BY RosterInit, RosterNext, PTL DEF Spec

\* No call is scoped or refused on a roster that the owner lost a TTL and a
\* round trip ago, however many calls fetch at once.
THEOREM RosterIsYoung == Spec => []NoStaleVerdict
  <1>1. RosterInv => NoStaleVerdict
    BY DEF RosterInv
  <1> QED
    BY <1>1, RosterInvariance, PTL
-----------------------------------------------------------------------------
(* The calls.                                                              *)

CallType == [step : {"idle", "resolve", "read", "fan"}, late : BOOLEAN, bad : BOOLEAN,
             guess : BOOLEAN, many : BOOLEAN, basis : Never..MaxTime, since : 0..MaxTime]

FanType == [listed : 0..Fetches, begun : 0..Fetches, open : SUBSET Fetch]

CallsTyped ==
    call \in [Call -> CallType] /\ fan \in [Call -> FanType] /\ badSent \in BOOLEAN

\* A call still to be checked has a late check for whatever is wrong; a call
\* that reads has nothing wrong.
CallsChecked ==
    \A c \in Call :
        /\ call[c].step = "resolve" => (call[c].bad => call[c].late)
        /\ call[c].step \in {"read", "fan"} => ~call[c].bad

\* The first read is no older than a round trip, and the roster behind the
\* reads was the owner's at most TTL + RoundTrip before the first began.
ReadsAreRecent ==
    \A c \in Call :
        /\ call[c].step = "read" =>
              call[c].since <= now /\ now <= call[c].since + RoundTrip
        /\ call[c].step = "read" /\ call[c].guess =>
              /\ call[c].basis <= call[c].since
              /\ call[c].since < call[c].basis + TTL + RoundTrip

\* The reads of a fan-out have numbers of their own, and no more slots than
\* there are.
Fits(x) ==
    /\ x.begun <= x.listed
    /\ IsFiniteSet(x.open) /\ Cardinality(x.open) <= Slots
    /\ \A f \in x.open : f.nr <= x.begun
    /\ \A f, g \in x.open : f.nr = g.nr => f = g

FansFit ==
    \A c \in Call : Fits(fan[c]) /\ (call[c].step # "fan" => fan[c] = NoFan)

\* A read among the first w + 1 rounds of slots began within w + 1 round trips
\* of `first`, and so will the next one.  When all that was listed fits into w
\* rounds, no more than w + 1 round trips have passed.
Paced(x, first, time) ==
    /\ \A f \in x.open : f.since <= time /\ time <= f.since + RoundTrip
    /\ \A f \in x.open, w \in Nat :
          f.nr <= w * Slots + Slots => f.since <= first + w * RoundTrip + RoundTrip
    /\ x.begun < x.listed => \A w \in Nat :
          x.begun < w * Slots + Slots => time <= first + w * RoundTrip + RoundTrip
    /\ \A w \in Nat : x.listed <= w * Slots => time <= first + w * RoundTrip + RoundTrip

\* The last instant at which a call that goes by a roster of `basis` can have
\* begun its first read.
FirstRead(basis) == (basis + TTL + RoundTrip) - 1

FansArePaced ==
    \A c \in Call : call[c].step = "fan" /\ call[c].guess =>
        Paced(fan[c], FirstRead(call[c].basis), now)

CallInv ==
    /\ CallsTyped
    /\ CallsChecked
    /\ ReadsAreRecent
    /\ FansFit
    /\ FansArePaced
    /\ CheckedBeforeSent

ToolInv == RosterInv /\ CallInv
-----------------------------------------------------------------------------
\* Every argument a handler sends is checked, before or after the roster.
LEMMA EveryToolChecks ==
    ASSUME NEW t \in Tools
    PROVE  /\ t.scoped \in BOOLEAN /\ t.many \in BOOLEAN
           /\ \A a \in t.carries : \/ a \in t.first \cup t.late
                                   \/ t.scoped /\ a = "organization_id"
  <1>1. ASSUME NEW first, NEW late, NEW carries, carries \subseteq first \cup late,
               \/ t = Tool(first, late, carries)
               \/ t = [Tool(first, late, carries) EXCEPT !.many = TRUE]
        PROVE  /\ t.scoped \in BOOLEAN /\ t.many \in BOOLEAN
               /\ \A a \in t.carries : \/ a \in t.first \cup t.late
                                       \/ t.scoped /\ a = "organization_id"
    <2>1. /\ t.scoped = TRUE /\ t.many \in BOOLEAN /\ t.first = first /\ t.late = late
          /\ t.carries = carries \cup {"organization_id"}
      <3>1. CASE t = Tool(first, late, carries)
        BY <3>1 DEF Tool
      <3>2. CASE t = [Tool(first, late, carries) EXCEPT !.many = TRUE]
        BY <3>2 DEF Tool
      <3> QED
        BY <1>1, <3>1, <3>2
    <2> QED
      BY <1>1, <2>1
  <1>2. CASE t \in {ListRepositories, GetRunnerStatus, GetRunnerConfigs}
    BY <1>1, <1>2 DEF ListRepositories, GetRunnerStatus, GetRunnerConfigs
  <1>3. CASE t = ListMyOrganizations
    BY <1>3 DEF ListMyOrganizations
  <1>4. CASE t = FindFlakyTests
    <2> DEFINE first == {"repository", "limit"}
               late == {"since"}
               carries == {"repository", "limit", "since"}
    <2>1. carries \subseteq first \cup late /\ t = Tool(first, late, carries)
      BY <1>4 DEF FindFlakyTests
    <2> HIDE DEF first, late, carries
    <2> QED
      BY <1>1, <2>1
  <1>5. CASE t \in {GetTestHistory, GetRunnerUsage}
    BY <1>1, <1>5 DEF GetTestHistory, GetRunnerUsage
  <1>6. CASE t = ListRecentSubmissions
    BY <1>1, <1>6 DEF ListRecentSubmissions
  <1>7. CASE t = GetSubmissionTestResults
    BY <1>1, <1>7 DEF GetSubmissionTestResults
  <1>8. CASE t = GetRecentFailures
    BY <1>1, <1>8 DEF GetRecentFailures
  <1>9. CASE t \in {GetRepoFlakiness, GetRepoCoverage}
    BY <1>1, <1>9 DEF GetRepoFlakiness, GetRepoCoverage
  <1>10. ASSUME NEW checked, t = Resource(checked)
         PROVE  /\ t.scoped \in BOOLEAN /\ t.many \in BOOLEAN
                /\ \A a \in t.carries : \/ a \in t.first \cup t.late
                                        \/ t.scoped /\ a = "organization_id"
    BY <1>10 DEF Resource
  <1>11. CASE t \in {FlakyTestsResource, SubmissionsResource}
    BY <1>10, <1>11 DEF FlakyTestsResource, SubmissionsResource
  <1> QED
    BY <1>2, <1>3, <1>4, <1>5, <1>6, <1>7, <1>8, <1>9, <1>11 DEF Tools

\* A call that passes its first checks with something wrong fails a late one.
LEMMA ArrivalsChecked ==
    ASSUME NEW x \in Arrivals
    PROVE  /\ x = [NoCall EXCEPT !.guess = x.guess, !.many = x.many,
                                 !.late = x.late, !.bad = x.bad]
           /\ x.guess \in BOOLEAN /\ x.many \in BOOLEAN
           /\ x.late \in BOOLEAN /\ x.bad \in BOOLEAN
           /\ x.bad => x.late
  <1>1. PICK t \in Tools, wrong \in SUBSET Arg, given \in BOOLEAN :
            PassesFirst(t, wrong) /\ x = Passed(t, wrong, given)
    BY DEF Arrivals
  <1>2. /\ x.guess = (t.scoped /\ ~given)
        /\ x.many = t.many
        /\ x.late = (wrong \cap t.late # {})
        /\ x.bad = (wrong \cap t.carries # {})
    BY <1>1 DEF Passed, NoCall
  <1>3. x = [NoCall EXCEPT !.guess = x.guess, !.many = x.many,
                           !.late = x.late, !.bad = x.bad]
    BY <1>1 DEF Passed, NoCall
  <1>4. wrong \cap t.carries # {} => wrong \cap t.late # {}
    BY <1>1, EveryToolChecks DEF PassesFirst
  <1> QED
    BY <1>2, <1>3, <1>4, EveryToolChecks

LEMMA NoCallTyped == NoCall \in CallType /\ NoFan \in FanType /\ Fits(NoFan)
  <1>1. NoCall \in CallType
    BY RosterAssumption DEF NoCall, CallType, Never
  <1>2. NoFan \in FanType
    BY ToolAssumption DEF NoFan, FanType
  <1>3. Fits(NoFan)
    BY FS_EmptySet, ToolAssumption DEF NoFan, Fits
  <1> QED
    BY <1>1, <1>2, <1>3

\* What arrives is a call, whatever step it is put at.
LEMMA ArrivalsTyped ==
    ASSUME NEW x \in Arrivals
    PROVE  x \in CallType /\ [x EXCEPT !.step = "resolve"] \in CallType
  <1>1. /\ x = [NoCall EXCEPT !.guess = x.guess, !.many = x.many,
                              !.late = x.late, !.bad = x.bad]
        /\ x.guess \in BOOLEAN /\ x.many \in BOOLEAN
        /\ x.late \in BOOLEAN /\ x.bad \in BOOLEAN
    BY ArrivalsChecked
  <1>2. x \in CallType
    BY <1>1, NoCallTyped DEF CallType
  <1> QED
    BY <1>2 DEF CallType
-----------------------------------------------------------------------------
(* The pace of a fan-out.                                                  *)

LEMMA Rounds ==
    ASSUME NEW w \in Nat, NEW k \in Nat
    PROVE  /\ w * k \in Nat
           /\ 0 * k = 0
           /\ w # 0 => w - 1 \in Nat /\ (w - 1) * k + k = w * k
           /\ (w + 1) * k = w * k + k /\ (2 + w) * k = w * k + k + k
  BY SMT

LEMMA Numbers ==
    ASSUME NEW m \in Int, NEW n \in Int, m <= n + 1
    PROVE  IsFiniteSet(m..n) /\ Cardinality(m..n) = (n + 1) - m
  BY FS_Interval

\* As many reads as there are slots, with numbers of their own up to n, cannot
\* all be among the last Slots - 1 of these numbers.
LEMMA OldestOfAll ==
    ASSUME NEW open, NEW n \in Nat, IsFiniteSet(open), Cardinality(open) >= Slots,
           \A f \in open : f.nr \in Nat /\ f.nr <= n,
           \A f, g \in open : f.nr = g.nr => f = g
    PROVE  \E f \in open : f.nr + Slots <= n + 1
  <1> USE ToolAssumption
  <1> SUFFICES ASSUME \A f \in open : f.nr + Slots > n + 1 PROVE FALSE
    <2>1. \A f \in open : f.nr + Slots <= n + 1 \/ f.nr + Slots > n + 1
      OBVIOUS
    <2> QED
      BY <2>1
  <1> DEFINE last == ((n + 2) - Slots)..n
             number == [f \in open |-> f.nr]
  <1>1. IsFiniteSet(last) /\ Cardinality(last) = Slots - 1
    BY Numbers
  <1>2. number \in Injection(open, last)
    <2>1. \A f \in open : f.nr \in last
      OBVIOUS
    <2> QED
      BY <2>1 DEF Injection, IsInjective
  <1> HIDE DEF last, number
  <1>3. Cardinality(open) <= Cardinality(last)
    BY <1>1, <1>2, FS_Injection
  <1>4. Cardinality(open) \in Nat
    BY FS_CardinalityType
  <1> QED
    BY <1>1, <1>3, <1>4

\* Time passes: a read among the first w rounds is still under way, so no more
\* than w round trips and a read's own have passed.
LEMMA StillPaced ==
    ASSUME NEW x \in FanType, NEW first \in Int, NEW time \in Nat,
           Fits(x), Paced(x, first, time), x.open # {},
           x.begun < x.listed => Cardinality(x.open) >= Slots,
           \A f \in x.open : time < f.since + RoundTrip
    PROVE  Paced(x, first, time + 1)
  <1> USE RosterAssumption, ToolAssumption
  <1>1. /\ x.begun \in Nat /\ x.listed \in Nat /\ x.begun <= x.listed
        /\ \A f \in x.open : f.nr \in Nat \ {0} /\ f.since \in Nat /\ f.nr <= x.begun
    BY DEF Fits, FanType, Fetch
  <1>2. \A f \in x.open : f.since <= time + 1 /\ time + 1 <= f.since + RoundTrip
    BY <1>1 DEF Paced
  <1>3. \A f \in x.open, w \in Nat :
           f.nr <= w * Slots + Slots => f.since <= first + w * RoundTrip + RoundTrip
    BY DEF Paced
  <1>4. ASSUME NEW f \in x.open, NEW w \in Nat, f.nr <= w * Slots
        PROVE  time + 1 <= first + w * RoundTrip + RoundTrip
    <2>1. w # 0
      BY <1>1, <1>4, Rounds
    <2>2. w - 1 \in Nat /\ (w - 1) * Slots + Slots = w * Slots
      BY <2>1, Rounds
    <2>3. (w - 1) * RoundTrip + RoundTrip = w * RoundTrip
      BY <2>1, Rounds
    <2>4. w * RoundTrip \in Nat /\ (w - 1) * RoundTrip \in Nat
      BY <2>2, Rounds
    <2>5. f.since <= first + (w - 1) * RoundTrip + RoundTrip
      BY <1>3, <1>4, <2>2
    <2> QED
      BY <1>1, <2>3, <2>4, <2>5
  <1>5. ASSUME x.begun < x.listed, NEW w \in Nat, x.begun < w * Slots + Slots
        PROVE  time + 1 <= first + w * RoundTrip + RoundTrip
    <2>1. PICK f \in x.open : f.nr + Slots <= x.begun + 1
      BY <1>1, <1>5, OldestOfAll DEF Fits
    <2>2. w * Slots \in Nat
      BY Rounds
    <2>3. f.nr <= w * Slots
      BY <1>1, <1>5, <2>1, <2>2
    <2> QED
      BY <1>4, <2>3
  <1>6. ASSUME NEW w \in Nat, x.listed <= w * Slots
        PROVE  time + 1 <= first + w * RoundTrip + RoundTrip
    <2>1. PICK f \in x.open : TRUE
      OBVIOUS
    <2>2. w * Slots \in Nat
      BY Rounds
    <2>3. f.nr <= w * Slots
      BY <1>1, <1>6, <2>2
    <2> QED
      BY <1>4, <2>3
  <1> QED
    BY <1>2, <1>3, <1>5, <1>6 DEF Paced
-----------------------------------------------------------------------------
(* The steps of a call.                                                    *)

\* A call that is over leaves nothing behind.
LEMMA OverSafe ==
    ASSUME NEW c \in Call, CallInv,
           call' = [call EXCEPT ![c] = NoCall], fan' = [fan EXCEPT ![c] = NoFan],
           UNCHANGED <<now, badSent>>
    PROVE  CallInv'
  <1>1. /\ CallsTyped /\ CallsChecked /\ ReadsAreRecent /\ FansFit /\ FansArePaced
        /\ CheckedBeforeSent
    BY DEF CallInv
  <1>2. NoCall.step = "idle"
    BY DEF NoCall
  <1>3. CallsTyped'
    BY <1>1, NoCallTyped DEF CallsTyped
  <1>4. CallsChecked' /\ ReadsAreRecent'
    BY <1>1, <1>2 DEF CallsTyped, CallsChecked, ReadsAreRecent
  <1>5. FansFit'
    BY <1>1, <1>2, NoCallTyped DEF CallsTyped, FansFit
  <1>6. FansArePaced'
    BY <1>1, <1>2 DEF CallsTyped, FansArePaced
  <1>7. CheckedBeforeSent'
    BY <1>1 DEF CheckedBeforeSent
  <1> QED
    BY <1>3, <1>4, <1>5, <1>6, <1>7 DEF CallInv

LEMMA RefusedSafe ==
    ASSUME NEW c \in Call, CallInv, Refused(c), call[c].step # "fan",
           UNCHANGED <<now, badSent>>
    PROVE  CallInv'
  <1>1. fan[c] = NoFan /\ fan \in [Call -> FanType]
    BY DEF CallInv, FansFit, CallsTyped
  <1>2. fan' = [fan EXCEPT ![c] = NoFan]
    BY <1>1 DEF Refused
  <1> QED
    BY <1>2, OverSafe DEF Refused

\* What is sent with nothing wrong is harmless.
LEMMA SendSafe ==
    ASSUME Send(FALSE), badSent \in BOOLEAN, CheckedBeforeSent
    PROVE  badSent' \in BOOLEAN /\ CheckedBeforeSent'
  <1>1. badSent' = badSent
    BY DEF Send
  <1> QED
    BY <1>1 DEF CheckedBeforeSent

\* A call whose mistakes are all caught by late checks, and whose roster is
\* recent, may go on.
LEMMA CheckAndReadSafe ==
    ASSUME NEW c \in Call, NEW x \in CallType, now \in 0..MaxTime, CallInv,
           call[c].step \in {"idle", "resolve"},
           x.bad => x.late,
           x.guess => x.basis <= now /\ now < x.basis + TTL + RoundTrip,
           CheckAndRead(c, x), UNCHANGED now
    PROVE  CallInv'
  <1>1. /\ CallsTyped /\ CallsChecked /\ ReadsAreRecent /\ FansFit /\ FansArePaced
        /\ CheckedBeforeSent
    BY DEF CallInv
  <1>2. CASE x.late
    BY <1>2, RefusedSafe DEF CheckAndRead
  <1>3. CASE ~x.late
    <2> DEFINE read == [x EXCEPT !.step = "read", !.since = now]
    <2>1. x.bad = FALSE
      BY <1>3 DEF CallType
    <2>2. /\ call' = [call EXCEPT ![c] = read] /\ Send(FALSE)
          /\ fan' = fan /\ now' = now
      BY <1>3, <2>1 DEF CheckAndRead, Read
    <2>3. read \in CallType
      BY DEF CallType
    <2>4. badSent' \in BOOLEAN /\ CheckedBeforeSent'
      BY <1>1, <2>2, SendSafe DEF CallsTyped
    <2>5. CallsTyped'
      BY <1>1, <2>2, <2>3, <2>4 DEF CallsTyped
    <2>6. read.step = "read" /\ read.bad = FALSE /\ read.since = now
          /\ read.guess = x.guess /\ read.basis = x.basis
      BY <2>1 DEF CallType
    <2> HIDE DEF read
    <2>7. CallsChecked'
      BY <1>1, <2>2, <2>6 DEF CallsTyped, CallsChecked
    <2>8. ReadsAreRecent'
      BY <1>1, <2>2, <2>6, RosterAssumption DEF CallsTyped, ReadsAreRecent
    <2>9. FansFit'
      <3>1. fan[c] = NoFan
        BY <1>1 DEF FansFit
      <3> QED
        BY <1>1, <2>2, <2>6, <3>1 DEF CallsTyped, FansFit
    <2>10. FansArePaced'
      BY <1>1, <2>2, <2>6 DEF CallsTyped, FansArePaced
    <2> QED
      BY <2>4, <2>5, <2>7, <2>8, <2>9, <2>10 DEF CallInv
  <1> QED
    BY <1>2, <1>3
-----------------------------------------------------------------------------
(* The steps of a fan-out.                                                 *)

\* The list is read within a round trip, and no read has begun.
LEMMA ListPaced ==
    ASSUME NEW x \in FanType, NEW first \in Int, NEW time \in Nat,
           x.open = {}, x.begun = 0, time <= first + RoundTrip
    PROVE  Paced(x, first, time)
  <1>1. \A w \in Nat : w * RoundTrip \in Nat
    BY Rounds, RosterAssumption
  <1> QED
    BY <1>1, RosterAssumption DEF Paced

\* The next read has the next number, and began now.
LEMMA NextPaced ==
    ASSUME NEW x \in FanType, NEW y \in FanType, NEW first \in Int, NEW time \in Nat,
           Fits(x), x.begun < x.listed, Cardinality(x.open) < Slots,
           y.listed = x.listed, y.begun = x.begun + 1,
           NEW f, f.nr = x.begun + 1, f.since = time, y.open = x.open \cup {f}
    PROVE  Fits(y) /\ (Paced(x, first, time) => Paced(y, first, time))
  <1> USE RosterAssumption, ToolAssumption
  <1>1. x.begun \in Nat /\ x.listed \in Nat /\ \A g \in x.open : g.nr \in Nat /\ g.nr <= x.begun
    BY DEF FanType, Fetch, Fits
  <1>2. Fits(y)
    <2>1. f \notin x.open
      BY <1>1
    <2> DEFINE open == x.open
    <2>2. IsFiniteSet(open) /\ f \notin open
      BY <2>1 DEF Fits
    <2> HIDE DEF open
    <2>3. IsFiniteSet(open \cup {f}) /\ Cardinality(open \cup {f}) = Cardinality(open) + 1
      BY <2>2, FS_AddElement
    <2> USE DEF open
    <2>4. Cardinality(x.open) \in Nat
      BY FS_CardinalityType DEF Fits
    <2>5. Cardinality(y.open) <= Slots
      BY <2>3, <2>4
    <2> QED
      BY <1>1, <2>3, <2>5 DEF Fits
  <1> SUFFICES ASSUME Paced(x, first, time) PROVE Paced(y, first, time)
    BY <1>2
  <1>3. \A g \in y.open : g.since <= time /\ time <= g.since + RoundTrip
    BY DEF Paced
  <1>4. ASSUME NEW g \in y.open, NEW w \in Nat, g.nr <= w * Slots + Slots
        PROVE  g.since <= first + w * RoundTrip + RoundTrip
    <2>1. w * Slots \in Nat
      BY Rounds
    <2>2. CASE g \in x.open
      BY <1>4, <2>2 DEF Paced
    <2>3. CASE g = f
      <3>1. x.begun < w * Slots + Slots
        BY <1>1, <1>4, <2>1, <2>3
      <3> QED
        BY <2>3, <3>1 DEF Paced
    <2> QED
      BY <2>2, <2>3
  <1>5. ASSUME NEW w \in Nat, y.begun < w * Slots + Slots
        PROVE  time <= first + w * RoundTrip + RoundTrip
    <2>1. w * Slots \in Nat
      BY Rounds
    <2>2. x.begun < w * Slots + Slots
      BY <1>1, <1>5, <2>1
    <2> QED
      BY <2>2 DEF Paced
  <1>6. ASSUME NEW w \in Nat, y.listed <= w * Slots
        PROVE  time <= first + w * RoundTrip + RoundTrip
    BY <1>6 DEF Paced
  <1> QED
    BY <1>3, <1>4, <1>5, <1>6 DEF Paced

\* A read that ends makes room.
LEMMA EndPaced ==
    ASSUME NEW x \in FanType, NEW y \in FanType, NEW first \in Int, NEW time \in Nat,
           Fits(x), NEW f \in x.open,
           y.listed = x.listed, y.begun = x.begun, y.open = x.open \ {f}
    PROVE  Fits(y) /\ (Paced(x, first, time) => Paced(y, first, time))
  <1>1. Fits(y)
    <2>1. IsFiniteSet(y.open) /\ Cardinality(y.open) = Cardinality(x.open) - 1
      BY FS_RemoveElement DEF Fits
    <2>2. Cardinality(x.open) \in Nat
      BY FS_CardinalityType DEF Fits
    <2>3. Cardinality(y.open) <= Slots
      BY <2>1, <2>2, ToolAssumption DEF Fits
    <2> QED
      BY <2>1, <2>3 DEF Fits
  <1> QED
    BY <1>1 DEF Paced

\* A step of the fan-out of c alone.
LEMMA FanSafe ==
    ASSUME NEW c \in Call, CallInv, NEW y \in FanType,
           call' = call, fan' = [fan EXCEPT ![c] = y],
           call[c].step = "fan", Fits(y),
           call[c].guess => Paced(y, FirstRead(call[c].basis), now),
           Send(FALSE) \/ UNCHANGED badSent, UNCHANGED now
    PROVE  CallInv'
  <1>1. /\ CallsTyped /\ CallsChecked /\ ReadsAreRecent /\ FansFit /\ FansArePaced
        /\ CheckedBeforeSent
    BY DEF CallInv
  <1>2. badSent' \in BOOLEAN /\ CheckedBeforeSent'
    <2>1. CASE Send(FALSE)
      BY <1>1, <2>1, SendSafe DEF CallsTyped
    <2>2. CASE UNCHANGED badSent
      BY <1>1, <2>2 DEF CallsTyped, CheckedBeforeSent
    <2> QED
      BY <2>1, <2>2
  <1>3. CallsTyped'
    BY <1>1, <1>2 DEF CallsTyped
  <1>4. CallsChecked' /\ ReadsAreRecent'
    BY <1>1 DEF CallsChecked, ReadsAreRecent
  <1>5. FansFit'
    BY <1>1 DEF CallsTyped, FansFit
  <1>6. FansArePaced'
    BY <1>1 DEF CallsTyped, FansArePaced
  <1> QED
    BY <1>2, <1>3, <1>4, <1>5, <1>6 DEF CallInv
-----------------------------------------------------------------------------
LEMMA ToolInitSafe == ToolInit => ToolInv
  <1> SUFFICES ASSUME ToolInit PROVE ToolInv
    OBVIOUS
  <1>1. RosterInv
    BY RosterInit DEF ToolInit
  <1>2. CallsTyped /\ CallsChecked /\ ReadsAreRecent
    BY NoCallTyped DEF ToolInit, CallsTyped, CallsChecked, ReadsAreRecent, NoCall
  <1>3. FansFit /\ FansArePaced
    BY NoCallTyped DEF ToolInit, FansFit, FansArePaced, NoCall
  <1>4. CheckedBeforeSent
    BY DEF ToolInit, CheckedBeforeSent
  <1> QED
    BY <1>1, <1>2, <1>3, <1>4 DEF ToolInv, CallInv

LEMMA ToolStep == [ToolNext]_toolVars => [Next]_vars
  <1> SUFFICES ASSUME [ToolNext]_toolVars PROVE [Next]_vars
    OBVIOUS
  <1>1. CASE \E c \in Call : \/ ResolveDecides(c) \/ ResolveAsks(c)
                             \/ ResolveAnswer(c) \/ ResolveFails(c)
    BY <1>1 DEF ResolveDecides, ResolveAsks, ResolveAnswer, ResolveFails, Next
  <1>2. CASE \E c \in Call : \/ Begin(c) \/ ReadData(c) \/ ReadFails(c)
                             \/ ListSubmissions(c) \/ FetchNext(c) \/ FetchEnds(c)
                             \/ MergeFetched(c)
    BY <1>2 DEF Begin, ReadData, ReadFails, ListSubmissions, FetchNext, FetchEnds,
                MergeFetched, AnswerCall, Next
  <1>3. CASE \/ \E r \in Rosters : ChangeRoster(r)
             \/ ToolTick
    BY <1>3 DEF ToolTick, Next
  <1>4. CASE UNCHANGED toolVars
    BY <1>4 DEF toolVars
  <1> QED
    BY <1>1, <1>2, <1>3, <1>4 DEF ToolNext
-----------------------------------------------------------------------------
LEMMA ToolNextSafe == ToolInv /\ [ToolNext]_toolVars => ToolInv'
  <1> SUFFICES ASSUME ToolInv, [ToolNext]_toolVars PROVE ToolInv'
    OBVIOUS
  <1>1. RosterInv /\ CallInv /\ RosterInv'
    BY RosterNext, ToolStep DEF ToolInv
  <1>2. /\ CallsTyped /\ CallsChecked /\ ReadsAreRecent /\ FansFit /\ FansArePaced
        /\ CheckedBeforeSent
    BY <1>1 DEF CallInv
  <1>3. now \in 0..MaxTime /\ TTL \in Nat /\ RoundTrip \in Nat /\ MaxTime \in Nat
    BY <1>1, RosterAssumption DEF RosterInv, TypeOK
  <1>4. ASSUME NEW c \in Call, Begin(c) PROVE CallInv'
    <2>1. now' = now
      BY <1>4 DEF Begin, Elsewhere
    <2>2. call[c].step = "idle"
      BY <1>4 DEF Begin, NoCall
    <2>3. CASE Refused(c) /\ UNCHANGED badSent
      BY <1>1, <2>1, <2>2, <2>3, RefusedSafe
    <2>4. ASSUME NEW x \in Arrivals, ~x.guess, CheckAndRead(c, x) PROVE CallInv'
      <3>1. x \in CallType
        BY ArrivalsTyped
      <3> QED
        BY <1>1, <1>3, <2>1, <2>2, <2>4, <3>1, ArrivalsChecked, CheckAndReadSafe
    <2>5. ASSUME NEW x \in Arrivals,
                 call' = [call EXCEPT ![c] = [x EXCEPT !.step = "resolve"]],
                 UNCHANGED <<fan, badSent>>
          PROVE  CallInv'
      <3> DEFINE resolving == [x EXCEPT !.step = "resolve"]
      <3>1. x \in CallType /\ resolving \in CallType
        BY ArrivalsTyped
      <3>2. resolving.step = "resolve" /\ (resolving.bad => resolving.late)
        BY <3>1, ArrivalsChecked DEF CallType
      <3>3. call' = [call EXCEPT ![c] = resolving]
        BY <2>5
      <3> HIDE DEF resolving
      <3>4. CallsTyped' /\ CallsChecked'
        BY <1>2, <2>5, <3>1, <3>2, <3>3 DEF CallsTyped, CallsChecked
      <3>5. ReadsAreRecent'
        BY <1>2, <2>1, <3>2, <3>3 DEF CallsTyped, ReadsAreRecent
      <3>6. FansFit'
        <4>1. fan[c] = NoFan
          BY <1>2, <2>2 DEF FansFit
        <4> QED
          BY <1>2, <2>5, <3>2, <3>3, <4>1 DEF CallsTyped, FansFit
      <3>7. FansArePaced'
        BY <1>2, <2>1, <2>5, <3>2, <3>3 DEF CallsTyped, FansArePaced
      <3>8. CheckedBeforeSent'
        BY <1>2, <2>5 DEF CheckedBeforeSent
      <3> QED
        BY <3>4, <3>5, <3>6, <3>7, <3>8 DEF CallInv
    <2> QED
      BY <1>4, <2>3, <2>4, <2>5 DEF Begin
  <1>5. ASSUME NEW c \in Call, ResolveDecides(c) PROVE CallInv'
    <2>1. now' = now /\ call[c].step = "resolve"
      BY <1>5 DEF ResolveDecides, ServeCached, Store
    <2>2. CASE Refused(c) /\ UNCHANGED badSent
      BY <1>1, <2>1, <2>2, RefusedSafe
    <2>3. CASE /\ verdict'.kind = "auto"
               /\ CheckAndRead(c, [call[c] EXCEPT !.basis = now - verdict'.age])
      <3> DEFINE x == [call[c] EXCEPT !.basis = now - verdict'.age]
      <3>1. verdict'.age \in Nat /\ verdict'.age < TTL + RoundTrip
        BY <1>1, <2>3 DEF RosterInv, TypeOK, NoStaleVerdict
      <3>2. now - verdict'.age \in Never..MaxTime
        BY <1>3, <3>1 DEF Never
      <3>3. x \in CallType /\ x.basis = now - verdict'.age
        BY <1>2, <3>2 DEF CallsTyped, CallType
      <3>4. x.bad => x.late
        BY <1>2, <2>1 DEF CallsTyped, CallType, CallsChecked
      <3>5. x.basis <= now /\ now < x.basis + TTL + RoundTrip
        BY <1>3, <3>1, <3>3
      <3>6. CheckAndRead(c, x)
        BY <2>3
      <3> HIDE DEF x
      <3> QED
        BY <1>1, <1>3, <2>1, <3>3, <3>4, <3>5, <3>6, CheckAndReadSafe
    <2> QED
      BY <1>5, <2>2, <2>3 DEF ResolveDecides
  <1>6. ASSUME UNCHANGED <<now, call, fan, badSent>> PROVE CallInv'
    <2>1. UNCHANGED now /\ UNCHANGED call /\ UNCHANGED fan /\ UNCHANGED badSent
      BY <1>6
    <2>2. CallsTyped' /\ CallsChecked' /\ ReadsAreRecent'
      BY <1>2, <2>1 DEF CallsTyped, CallsChecked, ReadsAreRecent
    <2>3. FansFit' /\ FansArePaced' /\ CheckedBeforeSent'
      BY <1>2, <2>1 DEF FansFit, FansArePaced, CheckedBeforeSent
    <2> QED
      BY <2>2, <2>3 DEF CallInv
  <1>7. ASSUME NEW c \in Call, ResolveAsks(c) \/ ResolveAnswer(c) \/ ResolveFails(c)
        PROVE  CallInv'
    <2>1. CASE ResolveAsks(c) \/ ResolveAnswer(c)
      BY <2>1, <1>6 DEF ResolveAsks, ResolveAnswer, Ask, Answer
    <2>2. CASE ResolveFails(c)
      BY <1>1, <2>2, RefusedSafe DEF ResolveFails, Fail
    <2> QED
      BY <1>7, <2>1, <2>2
  <1>8. ASSUME NEW c \in Call, ReadData(c) \/ MergeFetched(c) PROVE CallInv'
    BY <1>1, <1>8, OverSafe DEF ReadData, MergeFetched, AnswerCall, Elsewhere
  <1>9. ASSUME NEW c \in Call, ReadFails(c) PROVE CallInv'
    BY <1>1, <1>9, RefusedSafe DEF ReadFails, Elsewhere
  <1>10. ASSUME NEW c \in Call PROVE /\ fan[c] \in FanType /\ Fits(fan[c])
                                     /\ FirstRead(call[c].basis) \in Int /\ now \in Nat
                                     /\ call[c].step = "fan" /\ call[c].guess =>
                                            Paced(fan[c], FirstRead(call[c].basis), now)
    BY <1>2, <1>3, RosterAssumption
       DEF CallsTyped, CallType, FansFit, FansArePaced, FirstRead, Never
  <1>11. ASSUME NEW c \in Call, ListSubmissions(c) PROVE CallInv'
    <2> DEFINE next == [call[c] EXCEPT !.step = "fan", !.since = 0]
    <2>1. /\ call[c].step = "read" /\ UNCHANGED <<now, badSent>>
          /\ call' = [call EXCEPT ![c] = next]
      BY <1>2, <1>11 DEF ListSubmissions, Elsewhere, CallsTyped
    <2>2. PICK n \in 0..Fetches : fan' = [fan EXCEPT ![c] = [NoFan EXCEPT !.listed = n]]
      BY <1>2, <1>11, <2>1 DEF ListSubmissions, CallsTyped, FansFit
    <2> DEFINE y == [NoFan EXCEPT !.listed = n]
    <2>3. y \in FanType /\ y.open = {} /\ y.begun = 0 /\ y.listed = n
      BY NoCallTyped DEF FanType, NoFan
    <2>4. /\ next \in CallType /\ next.step = "fan" /\ next.bad = call[c].bad
          /\ next.guess = call[c].guess /\ next.basis = call[c].basis
      <3>1. 0 \in 0..MaxTime /\ call[c] \in CallType
        BY <1>2, <1>3 DEF CallsTyped
      <3> QED
        BY <3>1 DEF CallType
    <2>5. fan' = [fan EXCEPT ![c] = y]
      BY <2>2
    <2> HIDE DEF next, y
    <2>6. Fits(y)
      <3>1. IsFiniteSet(y.open) /\ Cardinality(y.open) = 0
        BY <2>3, FS_EmptySet
      <3> QED
        BY <2>3, <3>1, ToolAssumption DEF Fits
    <2>7. ASSUME call[c].guess PROVE Paced(y, FirstRead(call[c].basis), now)
      <3>1. now <= call[c].since + RoundTrip /\ call[c].since < call[c].basis + TTL + RoundTrip
        BY <1>2, <2>1, <2>7 DEF ReadsAreRecent
      <3>2. call[c].since \in Nat /\ call[c].basis \in Int
        BY <1>2, <1>3 DEF CallsTyped, CallType, Never
      <3>3. now <= FirstRead(call[c].basis) + RoundTrip
        BY <1>3, <3>1, <3>2 DEF FirstRead
      <3> QED
        BY <1>10, <2>3, <3>3, ListPaced
    <2>8. CallsTyped'
      BY <1>2, <2>1, <2>3, <2>4, <2>5 DEF CallsTyped
    <2>9. CallsChecked' /\ ReadsAreRecent'
      BY <1>2, <2>1, <2>4 DEF CallsTyped, CallsChecked, ReadsAreRecent
    <2>10. FansFit'
      BY <1>2, <2>1, <2>4, <2>5, <2>6 DEF CallsTyped, FansFit
    <2>11. FansArePaced'
      BY <1>2, <2>1, <2>4, <2>5, <2>7 DEF CallsTyped, FansArePaced
    <2>12. CheckedBeforeSent'
      BY <1>2, <2>1 DEF CheckedBeforeSent
    <2> QED
      BY <2>8, <2>9, <2>10, <2>11, <2>12 DEF CallInv
  <1>12. ASSUME NEW c \in Call, FetchNext(c) PROVE CallInv'
    <2> DEFINE f == [nr |-> fan[c].begun + 1, since |-> now]
               y == [listed |-> fan[c].listed, begun |-> f.nr,
                     open |-> fan[c].open \cup {f}]
    <2>1. /\ call[c].step = "fan" /\ fan[c].begun < fan[c].listed
          /\ Cardinality(fan[c].open) < Slots
          /\ fan' = [fan EXCEPT ![c] = y] /\ UNCHANGED <<now, call>>
      BY <1>2, <1>12 DEF FetchNext, Waits, HasSlot, Elsewhere, CallsTyped
    <2>2. Send(FALSE)
      <3>1. call[c].bad = FALSE
        BY <1>2, <2>1 DEF CallsTyped, CallType, CallsChecked
      <3> QED
        BY <1>12, <3>1 DEF FetchNext
    <2>3. /\ y \in FanType /\ y.listed = fan[c].listed /\ y.begun = fan[c].begun + 1
          /\ y.open = fan[c].open \cup {f}
      <3>1. fan[c].begun + 1 \in 1..Fetches
        BY <1>10, <2>1, ToolAssumption DEF FanType
      <3>2. f \in Fetch
        BY <1>3, <3>1 DEF Fetch
      <3>3. fan[c].open \cup {f} \in SUBSET Fetch
        BY <1>10, <3>2 DEF FanType
      <3>4. fan[c].listed \in 0..Fetches /\ f.nr = fan[c].begun + 1
        BY <1>10 DEF FanType
      <3> HIDE DEF f
      <3> QED
        BY <3>1, <3>3, <3>4 DEF FanType
    <2>4. f.nr = fan[c].begun + 1 /\ f.since = now
      OBVIOUS
    <2> HIDE DEF f, y
    <2>5. Fits(y) /\ (call[c].guess => Paced(y, FirstRead(call[c].basis), now))
      <3> DEFINE x == fan[c]
                 first == FirstRead(call[c].basis)
      <3>1. /\ x \in FanType /\ first \in Int /\ now \in Nat /\ Fits(x)
            /\ call[c].guess => Paced(x, first, now)
        BY <1>10, <2>1
      <3>2. /\ x.begun < x.listed /\ Cardinality(x.open) < Slots
            /\ y.listed = x.listed /\ y.begun = x.begun + 1
            /\ f.nr = x.begun + 1 /\ y.open = x.open \cup {f}
        BY <2>1, <2>3, <2>4
      <3> HIDE DEF x, first
      <3>3. Fits(y) /\ (Paced(x, first, now) => Paced(y, first, now))
        BY <2>3, <2>4, <3>1, <3>2, NextPaced
      <3> QED
        BY <3>1, <3>3 DEF first
    <2> QED
      BY <1>1, <2>1, <2>2, <2>3, <2>5, FanSafe
  <1>13. ASSUME NEW c \in Call, FetchEnds(c) PROVE CallInv'
    <2>1. PICK f \in fan[c].open : fan' = [fan EXCEPT ![c].open = @ \ {f}]
      BY <1>13 DEF FetchEnds
    <2> DEFINE y == [fan[c] EXCEPT !.open = @ \ {f}]
    <2>2. fan' = [fan EXCEPT ![c] = y] /\ UNCHANGED <<now, call, badSent>>
      BY <1>2, <1>13, <2>1 DEF FetchEnds, Elsewhere, CallsTyped
    <2>3. call[c].step = "fan"
      BY <1>2, <2>1 DEF FansFit, NoFan
    <2>4. /\ y \in FanType /\ y.listed = fan[c].listed /\ y.begun = fan[c].begun
          /\ y.open = fan[c].open \ {f}
      BY <1>10 DEF FanType
    <2> HIDE DEF y
    <2>5. Fits(y) /\ (call[c].guess => Paced(y, FirstRead(call[c].basis), now))
      <3> DEFINE x == fan[c]
                 first == FirstRead(call[c].basis)
      <3>1. /\ x \in FanType /\ first \in Int /\ now \in Nat /\ Fits(x)
            /\ call[c].guess => Paced(x, first, now)
        BY <1>10, <2>3
      <3>2. /\ f \in x.open /\ y.listed = x.listed /\ y.begun = x.begun
            /\ y.open = x.open \ {f}
        BY <2>1, <2>4
      <3> HIDE DEF x, first
      <3>3. Fits(y) /\ (Paced(x, first, now) => Paced(y, first, now))
        BY <2>4, <3>1, <3>2, EndPaced
      <3> QED
        BY <3>1, <3>3 DEF first
    <2> QED
      BY <1>1, <2>2, <2>3, <2>4, <2>5, FanSafe
  <1>14. ASSUME NEW r \in Rosters, ChangeRoster(r), UNCHANGED <<call, fan, badSent>>
         PROVE  CallInv'
    BY <1>6, <1>14 DEF ChangeRoster
  <1>15. ASSUME ToolTick PROVE CallInv'
    <2>1. now' = now + 1 /\ UNCHANGED call /\ UNCHANGED fan /\ UNCHANGED badSent
      BY <1>15 DEF ToolTick, Tick
    <2>2. \A c \in Call : call[c].step = "read" => now < call[c].since + RoundTrip
      BY <1>15 DEF ToolTick
    <2>3. ReadsAreRecent'
      <3>1. \A c \in Call : call[c].since \in Nat
        BY <1>2 DEF CallsTyped, CallType
      <3> QED
        BY <1>2, <1>3, <2>1, <2>2, <3>1 DEF ReadsAreRecent
    <2>4. CallsTyped' /\ CallsChecked' /\ FansFit' /\ CheckedBeforeSent'
      BY <1>2, <2>1 DEF CallsTyped, CallsChecked, FansFit, CheckedBeforeSent
    <2>5. FansArePaced'
      <3> SUFFICES ASSUME NEW c \in Call, call[c].step = "fan", call[c].guess
                   PROVE  Paced(fan[c], FirstRead(call[c].basis), now + 1)
        BY <2>1 DEF FansArePaced
      <3> DEFINE x == fan[c]
                 first == FirstRead(call[c].basis)
      <3>1. /\ x \in FanType /\ first \in Int /\ now \in Nat /\ Fits(x)
            /\ Paced(x, first, now)
        BY <1>10
      <3>2. x.open # {} /\ \A f \in x.open : now < f.since + RoundTrip
        BY <1>15 DEF ToolTick
      <3>3. x.begun < x.listed => Cardinality(x.open) >= Slots
        <4>1. Cardinality(x.open) \in Nat
          BY <3>1, FS_CardinalityType DEF Fits
        <4>2. x.begun < x.listed => ~(Cardinality(x.open) < Slots)
          BY <1>15 DEF ToolTick, Waits, HasSlot
        <4> HIDE DEF x
        <4> QED
          BY <4>1, <4>2, ToolAssumption
      <3> HIDE DEF x, first
      <3>4. Paced(x, first, now + 1)
        BY <3>1, <3>2, <3>3, StillPaced
      <3> QED
        BY <3>4 DEF x, first
    <2> QED
      BY <2>3, <2>4, <2>5 DEF CallInv
  <1>16. ASSUME UNCHANGED toolVars PROVE CallInv'
    <2>1. vars' = vars /\ call' = call /\ fan' = fan /\ badSent' = badSent
      BY <1>16 DEF toolVars
    <2>2. now' = now
      BY <2>1 DEF vars
    <2>3. UNCHANGED <<now, call, fan, badSent>>
      BY <2>1, <2>2
    <2> QED
      BY <1>6, <2>3
  <1>17. CallInv'
    <2>1. CASE \E c \in Call :
              \/ Begin(c) \/ ResolveDecides(c) \/ ResolveAsks(c) \/ ResolveAnswer(c)
              \/ ResolveFails(c) \/ ReadData(c) \/ ReadFails(c)
      BY <2>1, <1>4, <1>5, <1>7, <1>8, <1>9
    <2>2. CASE \E c \in Call :
              ListSubmissions(c) \/ FetchNext(c) \/ FetchEnds(c) \/ MergeFetched(c)
      BY <2>2, <1>8, <1>11, <1>12, <1>13
    <2>3. CASE \/ (\E r \in Rosters : ChangeRoster(r)) /\ UNCHANGED <<call, fan, badSent>>
               \/ ToolTick
      BY <2>3, <1>14, <1>15
    <2>4. CASE ToolNext
      BY <2>1, <2>2, <2>3, <2>4 DEF ToolNext
    <2> QED
      BY <1>16, <2>4
  <1> QED
    BY <1>1, <1>17 DEF ToolInv
-----------------------------------------------------------------------------
\* guarded() and the handlers use the roster as RosterCache says: every step of
\* a tool call is a step of the roster or leaves it alone.
THEOREM ToolCallUsesRoster == ToolSpec => Spec
  <1>1. ToolInit => Init
    BY DEF ToolInit
  <1> QED
    BY <1>1, ToolStep, PTL DEF ToolSpec, Spec

\* The inductive invariant holds in every reachable state.
THEOREM ToolInvariance == ToolSpec => []ToolInv
  <1> QED
    BY ToolInitSafe, ToolNextSafe, PTL DEF ToolSpec

\* The roster is fetched only by a call that waits for it, and a call that
\* waits for nothing has nothing left of an earlier fetch.
FetchesBelong ==
    \A c \in Call : /\ pending[c].phase = "idle" => pending[c] = Idle
                    /\ call[c].step # "resolve" => pending[c] = Idle

LEMMA FetchesInit == ToolInit => FetchesBelong
  BY DEF ToolInit, Init, FetchesBelong

LEMMA FetchesNext == ToolInv /\ FetchesBelong /\ [ToolNext]_toolVars => FetchesBelong'
  <1> SUFFICES ASSUME ToolInv, FetchesBelong, [ToolNext]_toolVars PROVE FetchesBelong'
    OBVIOUS
  <1>1. /\ pending \in [Call -> [phase : {"idle", "asked", "answered"},
                                since : 0..MaxTime, orgs : Rosters]]
        /\ call \in [Call -> CallType]
        /\ \A c \in Call : call[c].step # "fan" => fan[c] = NoFan
    BY DEF ToolInv, RosterInv, TypeOK, CallInv, CallsTyped, FansFit
  <1>2. Idle.phase = "idle"
    BY DEF Idle
  <1>3. ASSUME NEW c \in Call, call[c].step # "resolve", UNCHANGED pending,
               \A d \in Call \ {c} : call'[d] = call[d]
        PROVE  FetchesBelong'
    BY <1>3 DEF FetchesBelong
  <1>4. ASSUME NEW c \in Call,
               \/ Begin(c) \/ ReadData(c) \/ ReadFails(c)
               \/ ListSubmissions(c) \/ FetchNext(c) \/ FetchEnds(c) \/ MergeFetched(c)
        PROVE  FetchesBelong'
    <2>1. call[c].step # "resolve"
      <3>1. CASE FetchEnds(c)
        BY <1>1, <3>1 DEF FetchEnds, NoFan
      <3> QED
        BY <1>4, <3>1 DEF Begin, ReadData, ReadFails, ListSubmissions, FetchNext,
                          MergeFetched, NoCall
    <2>2. UNCHANGED pending
      BY <1>4 DEF Begin, ReadData, ReadFails, ListSubmissions, FetchNext, FetchEnds,
                  MergeFetched, AnswerCall, Elsewhere
    <2>3. \A d \in Call \ {c} : call'[d] = call[d]
      <3>1. CASE Begin(c)
        BY <1>1, <3>1 DEF Begin, Refused, CheckAndRead, Read
      <3>2. CASE ReadData(c) \/ ReadFails(c) \/ MergeFetched(c)
        BY <1>1, <3>2 DEF ReadData, ReadFails, MergeFetched, AnswerCall, Refused
      <3>3. CASE ListSubmissions(c) \/ FetchNext(c) \/ FetchEnds(c)
        BY <1>1, <3>3 DEF ListSubmissions, FetchNext, FetchEnds
      <3> QED
        BY <1>4, <3>1, <3>2, <3>3
    <2> QED
      BY <1>3, <2>1, <2>2, <2>3
  <1>5. ASSUME NEW c \in Call,
               \/ ResolveDecides(c) \/ ResolveAsks(c)
               \/ ResolveAnswer(c) \/ ResolveFails(c)
        PROVE  FetchesBelong'
    <2>1. \A d \in Call \ {c} : pending'[d] = pending[d] /\ call'[d] = call[d]
      BY <1>1, <1>5 DEF ResolveDecides, ResolveAsks, ResolveAnswer, ResolveFails,
                        ServeCached, Store, Ask, Answer, Fail, Refused, CheckAndRead, Read
    <2>2. CASE ResolveDecides(c) \/ ResolveFails(c)
      <3>1. pending'[c] = Idle
        BY <1>1, <2>2 DEF ResolveDecides, ResolveFails, ServeCached, Store, Fail,
                          FetchesBelong
      <3> QED
        BY <2>1, <3>1 DEF FetchesBelong
    <2>3. CASE ResolveAsks(c) \/ ResolveAnswer(c)
      <3>1. pending'[c].phase # "idle" /\ call'[c].step = "resolve"
        <4>1. CASE ResolveAsks(c)
          BY <1>1, <4>1 DEF ResolveAsks, Ask
        <4>2. CASE ResolveAnswer(c)
          BY <1>1, <4>2 DEF ResolveAnswer, Answer
        <4> QED
          BY <2>3, <4>1, <4>2
      <3> QED
        BY <2>1, <3>1 DEF FetchesBelong
    <2> QED
      BY <1>5, <2>2, <2>3
  <1>6. ASSUME UNCHANGED <<call, pending>> PROVE FetchesBelong'
    BY <1>6 DEF FetchesBelong
  <1>7. CASE \/ (\E r \in Rosters : ChangeRoster(r)) /\ UNCHANGED <<call, fan, badSent>>
             \/ ToolTick \/ UNCHANGED toolVars
    BY <1>6, <1>7 DEF ChangeRoster, ToolTick, Tick, toolVars, vars
  <1> QED
    BY <1>4, <1>5, <1>7 DEF ToolNext

\* A tool call keeps its type: its fan-out stays within its slots and within
\* what was listed, and a call that is over or reads no longer fetches the
\* roster.
THEOREM ToolTypeCorrect == ToolSpec => []ToolTypeOK
  <1>1. ToolInv /\ FetchesBelong => ToolTypeOK
    <2> SUFFICES ASSUME ToolInv, FetchesBelong PROVE ToolTypeOK
      OBVIOUS
    <2>1. TypeOK /\ CallsTyped
      BY DEF ToolInv, RosterInv, CallInv
    <2>2. \A c \in Call : /\ call[c].step # "resolve" => pending[c] = Idle
                          /\ call[c].step # "fan" => fan[c] = NoFan
                          /\ fan[c].begun <= fan[c].listed
                          /\ Cardinality(fan[c].open) <= Slots
      BY DEF ToolInv, CallInv, FansFit, Fits, FetchesBelong
    <2> QED
      BY <2>1, <2>2 DEF CallsTyped, CallType, FanType, ToolTypeOK
  <1>2. ToolSpec => []FetchesBelong
    BY FetchesInit, FetchesNext, ToolInvariance, PTL DEF ToolSpec
  <1> QED
    BY <1>1, <1>2, ToolInvariance, PTL

\* resolveOrgID over cachedOrganizations: no tool call is scoped or refused on
\* a roster that the owner lost a TTL and a round trip ago.
THEOREM ToolVerdictIsYoung == ToolSpec => []NoStaleVerdict
  <1> QED
    BY RosterIsYoung, ToolCallUsesRoster, PTL

\* The handlers' checks: no request carries an argument that its validator
\* rejects, whether it is checked before or after the roster is fetched.
THEOREM OnlyCheckedIsSent == ToolSpec => []CheckedBeforeSent
  <1>1. ToolInv => CheckedBeforeSent
    BY DEF ToolInv, CallInv
  <1> QED
    BY <1>1, ToolInvariance, PTL

\* Until a call has answered, the roster on whose word platform-api scopes its
\* reads was the owner's less than a TTL and two round trips ago, and a round
\* trip more for every `Slots` of the submissions get_recent_failures lists.
THEOREM ScopedDataIsYoung == ToolSpec => []GuessIsYoung
  <1>1. ToolInv => GuessIsYoung
    <2> SUFFICES ASSUME ToolInv, NEW c \in Call, call[c].step \in {"read", "fan"},
                        call[c].guess, NEW w \in 0..Fetches, fan[c].listed <= w * Slots
                 PROVE  now - call[c].basis < TTL + (2 + w) * RoundTrip
      BY DEF GuessIsYoung
    <2> USE RosterAssumption, ToolAssumption
    <2>1. /\ CallsTyped /\ ReadsAreRecent /\ FansArePaced /\ now \in 0..MaxTime
      BY DEF ToolInv, CallInv, RosterInv, TypeOK
    <2>2. call[c].basis \in Int /\ call[c].since \in Nat /\ now \in Nat /\ w \in Nat
      BY <2>1 DEF CallsTyped, CallType, Never
    <2>3. FirstRead(call[c].basis) \in Int /\ FirstRead(call[c].basis) < call[c].basis + TTL + RoundTrip
      BY <2>2 DEF FirstRead
    <2>4. w * RoundTrip \in Nat /\ (2 + w) * RoundTrip = w * RoundTrip + RoundTrip + RoundTrip
      BY <2>2, Rounds
    <2>5. now <= FirstRead(call[c].basis) + w * RoundTrip + RoundTrip
      <3>1. CASE call[c].step = "read"
        BY <2>1, <2>2, <2>4, <3>1 DEF ReadsAreRecent, FirstRead
      <3>2. CASE call[c].step = "fan"
        BY <2>1, <2>2, <3>2 DEF FansArePaced, Paced
      <3> QED
        BY <3>1, <3>2
    <2> QED
      BY <2>2, <2>3, <2>4, <2>5
  <1> QED
    BY <1>1, ToolInvariance, PTL
=============================================================================
