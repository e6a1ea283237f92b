------------------------- MODULE TokenLimiterProofs -------------------------
(***************************************************************************)
(* The promises of TokenLimiter for any number of tasks, tokens and calls, *)
(* any limit and window, and any skew shorter than the window.             *)
(*                                                                         *)
(* A log forgets, the promises are about every call ever answered, and the *)
(* stamps enter a log out of order.  LimiterInv says what survives that: a *)
(* log never has more young stamps than calls were admitted, and exactly   *)
(* as many for every age that a call still waiting could ask about.        *)
(***************************************************************************)
EXTENDS TokenLimiter, FiniteSetTheorems, WellFoundedInduction, TLAPS

\* The calls of a token that a task admitted with a stamp in (from, to].
AdmittedIn(history, t, k, from, to) ==
    {i \in DOMAIN history :
        /\ history[i].ok /\ history[i].token = k /\ history[i].task = t
        /\ from < history[i].stamp /\ history[i].stamp <= to}

Since(history, t, k, from) == Cardinality(AdmittedIn(history, t, k, from, MaxTime))

\* The stamps of a log after a time.
Young(log, from) == {j \in DOMAIN log : log[j] > from}

\* No call waits longer than the skew.
WaitsAreShort == \A w \in waiting : w.stamp <= now /\ now <= w.stamp + Skew

\* No stamp is from the future.
NothingLate(history, time) == \A i \in DOMAIN history : history[i].stamp <= time

\* The stamps of a log are at most a skew out of order.
Orderly(log, time) ==
    \A i \in DOMAIN log :
        /\ log[i] <= time
        /\ \A j \in DOMAIN log : i < j => log[i] <= log[j] + Skew

LogsInOrder(logs, time) == \A t \in Task, k \in Token : Orderly(logs[t][k], time)

\* A log forgets only what no call can ask about any more.
Remembers(log, history, t, k, time) ==
    \A from \in Int :
        /\ Cardinality(Young(log, from)) <= Since(history, t, k, from)
        /\ from >= time - Window =>
              Cardinality(Young(log, from)) = Since(history, t, k, from)

LogsRemember(logs, history, time) ==
    \A t \in Task, k \in Token : Remembers(logs[t][k], history, t, k, time)

LimiterInv ==
    /\ TypeOK
    /\ WaitsAreShort
    /\ NothingLate(verdicts, now)
    /\ LogsInOrder(hits, now)
    /\ LogsRemember(hits, verdicts, now)
    /\ BudgetPerTask
    /\ RefusalIsEarned
    /\ LogsAreReaped

LEMMA ConstantTypes ==
    /\ Limit \in Nat /\ Window \in Nat /\ Skew \in Nat /\ MaxTime \in Nat
    /\ Limit > 0 /\ Skew < Window
  BY LimiterAssumption
-----------------------------------------------------------------------------
(* The least element of a set of numbers.                                  *)

LEMMA Least ==
    ASSUME NEW S, S \subseteq Nat, S # {}
    PROVE  Min(S) \in S /\ \A m \in S : Min(S) <= m
  <1> DEFINE R == OpToRel(<, Nat)
  <1>1. IsWellFoundedOn(R, Nat)
    BY NatLessThanWellFounded
  <1>2. \A x, y \in Nat : x < y => <<x, y>> \in R
    BY DEF OpToRel
  <1> HIDE DEF R
  <1>3. PICK n \in S : \A y \in S : ~(<<y, n>> \in R)
    BY <1>1, WFMin
  <1>4. \A m \in S : ~(m < n)
    BY <1>2, <1>3
  <1>5. \A m \in S : n <= m
    BY <1>4
  <1> QED
    BY <1>5 DEF Min
\* Induction over a set of numbers.
LEMMA AllUpTo ==
    ASSUME NEW last \in Nat, NEW S, 0 \in S,
           \A n \in 1..last : n - 1 \in S => n \in S
    PROVE  0..last \subseteq S
  <1> SUFFICES ASSUME 0..last \ S # {} PROVE FALSE
    OBVIOUS
  <1> DEFINE left == 0..last \ S
  <1>1. left \subseteq Nat
    OBVIOUS
  <1>2. Min(left) \in left /\ \A m \in left : Min(left) <= m
    <2> HIDE DEF left
    <2> QED
      BY <1>1, Least DEF left
  <1>3. PICK n \in left : \A m \in left : n <= m
    BY <1>2
  <1>4. n \in 1..last /\ n - 1 \in 0..last /\ n - 1 \notin left
    BY <1>3
  <1> QED
    BY <1>4
-----------------------------------------------------------------------------
(* Logs.                                                                   *)

LEMMA LogType ==
    ASSUME NEW log \in Seq(Nat)
    PROVE  /\ Len(log) \in Nat /\ DOMAIN log = 1..Len(log)
           /\ \A i \in DOMAIN log : i \in Nat /\ i > 0 /\ log[i] \in Nat
  OBVIOUS

LEMMA YoungFinite ==
    ASSUME NEW log \in Seq(Nat), NEW from \in Int
    PROVE  IsFiniteSet(Young(log, from)) /\ Cardinality(Young(log, from)) \in Nat
  <1>1. Young(log, from) \subseteq 1..Len(log)
    BY DEF Young
  <1>2. IsFiniteSet(1..Len(log))
    BY FS_Interval
  <1>3. IsFiniteSet(Young(log, from))
    BY <1>1, <1>2, FS_Subset
  <1> QED
    BY <1>3, FS_CardinalityType

\* What DropAged leaves: the log without a prefix of aged stamps.
LEMMA DropsPrefix ==
    ASSUME NEW log \in Seq(Nat), NEW cutoff \in Int
    PROVE  LET left == DropAged(log, cutoff)
           IN  \E m \in 0..Len(log) :
                  /\ left \in Seq(Nat) /\ Len(left) = Len(log) - m
                  /\ \A i \in 1..Len(left) : left[i] = log[i + m]
                  /\ \A i \in 1..m : log[i] <= cutoff
                  /\ m < Len(log) => log[m + 1] > cutoff
  <1> DEFINE young == {i \in DOMAIN log : log[i] > cutoff}
             left == DropAged(log, cutoff)
  <1>1. CASE young = {}
    <2>1. left = <<>>
      BY <1>1 DEF DropAged
    <2>2. \A i \in 1..Len(log) : log[i] <= cutoff
      BY <1>1
    <2> QED
      BY <2>1, <2>2
  <1>2. CASE young # {}
    <2>1. Min(young) \in young /\ \A m \in young : Min(young) <= m
      <3>1. young \subseteq Nat
        OBVIOUS
      <3> HIDE DEF young
      <3> QED
        BY <1>2, <3>1, Least
    <2> DEFINE m == Min(young) - 1
    <2>2. left = SubSeq(log, Min(young), Len(log))
      BY <1>2 DEF DropAged
    <2>3. /\ m \in 0..Len(log) /\ m < Len(log) /\ Min(young) = m + 1
          /\ log[m + 1] > cutoff
      BY <2>1
    <2>4. \A i \in 1..m : log[i] <= cutoff
      <3> SUFFICES ASSUME NEW i \in 1..m, log[i] > cutoff PROVE FALSE
        BY <2>3, LogType
      <3>1. i \in young /\ i \in Nat
        BY <2>3, LogType
      <3>2. Min(young) <= i /\ Min(young) = m + 1 /\ i <= m /\ m \in Nat
        BY <2>1, <2>3, <3>1
      <3> HIDE DEF m, young
      <3> QED
        BY <3>1, <3>2
    <2> HIDE DEF m
    <2>5. left = SubSeq(log, m + 1, Len(log))
      BY <2>2, <2>3
    <2>6. left \in Seq(Nat) /\ Len(left) = Len(log) - m
      BY <2>3, <2>5
    <2>7. \A i \in 1..Len(left) : left[i] = log[i + m]
      BY <2>3, <2>5, <2>6
    <2> QED
      BY <2>3, <2>4, <2>6, <2>7
  <1> QED
    BY <1>1, <1>2

\* Pruning keeps a log in order, leaves nothing older than a skew before the
\* cutoff, and forgets no stamp after it.
PrunedTo(log, left, cutoff, time) ==
    /\ left \in Seq(Nat) /\ Orderly(left, time)
    /\ \A i \in DOMAIN left : left[i] > cutoff - Skew
    /\ \A from \in Int :
          /\ Cardinality(Young(left, from)) <= Cardinality(Young(log, from))
          /\ from >= cutoff =>
                Cardinality(Young(left, from)) = Cardinality(Young(log, from))

LEMMA PruneKeeps ==
    ASSUME NEW log \in Seq(Nat), NEW time \in Nat, Orderly(log, time), NEW cutoff \in Int,
           NEW left, left = DropAged(log, cutoff)
    PROVE  PrunedTo(log, left, cutoff, time)
  <1>1. PICK m \in 0..Len(log) :
           /\ left \in Seq(Nat) /\ Len(left) = Len(log) - m
           /\ \A i \in 1..Len(left) : left[i] = log[i + m]
           /\ \A i \in 1..m : log[i] <= cutoff
           /\ m < Len(log) => log[m + 1] > cutoff
    BY DropsPrefix
  <1>2. /\ Len(log) \in Nat /\ DOMAIN log = 1..Len(log) /\ DOMAIN left = 1..Len(left)
        /\ m \in Nat /\ \A i \in DOMAIN log : log[i] \in Nat
    BY <1>1, LogType
  <1>3. \A i \in DOMAIN left : /\ i \in Nat /\ i > 0 /\ i + m \in DOMAIN log
                                /\ left[i] = log[i + m] /\ m < Len(log)
    <2> SUFFICES ASSUME NEW i \in DOMAIN left
                 PROVE  /\ i \in Nat /\ i > 0 /\ i + m \in DOMAIN log
                        /\ left[i] = log[i + m] /\ m < Len(log)
      OBVIOUS
    <2>1. i \in 1..Len(left) /\ Len(left) = Len(log) - m
      BY <1>2, <1>1
    <2>2. i \in Nat /\ i > 0 /\ i + m \in 1..Len(log) /\ m < Len(log)
      BY <1>2, <2>1
    <2> QED
      BY <1>2, <1>1, <2>1, <2>2
  <1>4. Orderly(left, time)
    <2>1. \A i, j \in DOMAIN left : i < j => i + m < j + m
      BY <1>2, <1>3
    <2> QED
      BY <1>3, <2>1 DEF Orderly
  <1>5. ASSUME NEW i \in DOMAIN left PROVE left[i] > cutoff - Skew
    <2>1. /\ m + 1 \in DOMAIN log /\ i + m \in DOMAIN log /\ left[i] = log[i + m]
          /\ log[m + 1] > cutoff /\ i \in Nat /\ i > 0
      BY <1>2, <1>1, <1>3
    <2>2. log[m + 1] <= log[i + m] + Skew
      <3>1. log[m + 1] \in Nat /\ (i = 1 \/ m + 1 < i + m)
        BY <1>2, <2>1
      <3> QED
        BY <2>1, <3>1, ConstantTypes DEF Orderly
    <2> QED
      BY <1>2, <2>1, <2>2, ConstantTypes
  <1>6. ASSUME NEW from \in Int
        PROVE  /\ Cardinality(Young(left, from)) <= Cardinality(Young(log, from))
               /\ from >= cutoff =>
                     Cardinality(Young(left, from)) = Cardinality(Young(log, from))
    <2> DEFINE shift == [j \in Young(left, from) |-> j + m]
    <2>1. shift \in Injection(Young(left, from), Young(log, from))
      <3>1. \A j \in Young(left, from) : j + m \in Young(log, from)
        BY <1>3 DEF Young
      <3>2. shift \in [Young(left, from) -> Young(log, from)]
        BY <3>1
      <3>3. \A i, j \in Young(left, from) : i # j => shift[i] # shift[j]
        BY <1>2, <1>1 DEF Young
      <3> QED
        BY <3>2, <3>3 DEF Injection, IsInjective
    <2>2. from >= cutoff => shift \in Surjection(Young(left, from), Young(log, from))
      <3> SUFFICES ASSUME from >= cutoff
                   PROVE  shift \in Surjection(Young(left, from), Young(log, from))
        OBVIOUS
      <3>1. shift \in [Young(left, from) -> Young(log, from)]
        BY <2>1 DEF Injection
      <3>2. ASSUME NEW j \in Young(log, from)
            PROVE  \E i \in Young(left, from) : shift[i] = j
        <4>1. j > m /\ j \in 1..Len(log) /\ log[j] > from
          BY <1>2, <1>1, <3>2 DEF Young
        <4>2. j - m \in 1..Len(left) /\ (j - m) + m = j
          BY <1>2, <1>1, <4>1
        <4>3. j - m \in Young(left, from)
          BY <1>2, <1>1, <4>1, <4>2 DEF Young
        <4> QED
          BY <4>2, <4>3
      <3> QED
        BY <3>1, <3>2 DEF Surjection
    <2> HIDE DEF shift
    <2> QED
      BY <2>1, <2>2, YoungFinite, FS_Injection
  <1> QED
    BY <1>1, <1>4, <1>5, <1>6 DEF PrunedTo

LEMMA AppendShape ==
    ASSUME NEW log \in Seq(Nat), NEW stamp \in Nat
    PROVE  LET longer == Append(log, stamp)
               n == Len(log) + 1
           IN  /\ DOMAIN longer = DOMAIN log \cup {n} /\ longer[n] = stamp
               /\ \A i \in DOMAIN log : longer[i] = log[i]
  OBVIOUS

\* A new stamp counts once.
LEMMA AppendCounts ==
    ASSUME NEW log \in Seq(Nat), NEW stamp \in Nat, NEW from \in Int
    PROVE  Cardinality(Young(Append(log, stamp), from)) =
              Cardinality(Young(log, from)) + IF stamp > from THEN 1 ELSE 0
  <1> DEFINE n == Len(log) + 1
             longer == Append(log, stamp)
  <1>1. /\ DOMAIN longer = DOMAIN log \cup {n} /\ n \notin DOMAIN log
        /\ \A j \in DOMAIN log : longer[j] = log[j]
        /\ longer[n] = stamp
    OBVIOUS
  <1> HIDE DEF n, longer
  <1>2. n \notin Young(log, from) /\ IsFiniteSet(Young(log, from))
    BY <1>1, YoungFinite DEF Young
  <1>3. CASE stamp > from
    <2>1. Young(longer, from) = Young(log, from) \cup {n}
      BY <1>1, <1>3 DEF Young
    <2> QED
      BY <1>2, <1>3, <2>1, FS_AddElement DEF longer
  <1>4. CASE ~(stamp > from)
    <2>1. Young(longer, from) = Young(log, from)
      BY <1>1, <1>4 DEF Young
    <2> QED
      BY <1>2, <1>4, <2>1, FS_CardinalityType DEF longer
  <1> QED
    BY <1>3, <1>4

\* It is not far behind what is there, so the log stays in order.
LEMMA AppendOrderly ==
    ASSUME NEW log \in Seq(Nat), NEW time \in Nat, Orderly(log, time),
           NEW stamp \in Nat, stamp <= time, time <= stamp + Skew
    PROVE  Orderly(Append(log, stamp), time)
  <1> DEFINE n == Len(log) + 1
             longer == Append(log, stamp)
  <1>1. /\ DOMAIN longer = DOMAIN log \cup {n} /\ \A j \in DOMAIN log : j < n /\ ~(n < j)
        /\ \A j \in DOMAIN log : longer[j] = log[j] /\ log[j] \in Nat
        /\ longer[n] = stamp /\ ~(n < n)
    OBVIOUS
  <1> HIDE DEF n, longer
  <1>2. \A j \in DOMAIN log : log[j] <= stamp + Skew
    BY <1>1, ConstantTypes DEF Orderly
  <1>3. Orderly(longer, time)
    BY <1>1, <1>2 DEF Orderly
  <1> QED
    BY <1>3 DEF longer

\* A log in order whose oldest stamp is young enough has as many young stamps
\* as it has stamps.
LEMMA AllYoung ==
    ASSUME NEW log \in Seq(Nat), NEW from \in Int, \A i \in DOMAIN log : log[i] > from
    PROVE  Cardinality(Young(log, from)) = Len(log)
  <1>1. Young(log, from) = 1..Len(log)
    BY LogType DEF Young
  <1> QED
    BY <1>1, LogType, FS_Interval

LEMMA YoungAtMostAll ==
    ASSUME NEW log \in Seq(Nat), NEW from \in Int
    PROVE  Cardinality(Young(log, from)) <= Len(log)
  <1>1. Young(log, from) \subseteq 1..Len(log)
    BY LogType DEF Young
  <1>2. IsFiniteSet(1..Len(log)) /\ Cardinality(1..Len(log)) = Len(log)
    BY LogType, FS_Interval
  <1> QED
    BY <1>1, <1>2, FS_Subset
-----------------------------------------------------------------------------
(* The history.                                                            *)

LEMMA AdmittedIsCount ==
    ASSUME NEW t, NEW k, NEW from, NEW to
    PROVE  Admitted({t}, k, from, to) = Cardinality(AdmittedIn(verdicts, t, k, from, to))
  <1>1. {i \in DOMAIN verdicts :
            /\ verdicts[i].ok /\ verdicts[i].token = k /\ verdicts[i].task \in {t}
            /\ from < verdicts[i].stamp /\ verdicts[i].stamp <= to}
          = AdmittedIn(verdicts, t, k, from, to)
    BY DEF AdmittedIn
  <1> QED
    BY <1>1 DEF Admitted

LEMMA AdmittedIsLater ==
    ASSUME NEW later, verdicts' = later, NEW t, NEW k, NEW from, NEW to
    PROVE  Admitted({t}, k, from, to)' = Cardinality(AdmittedIn(later, t, k, from, to))
  <1>1. {i \in DOMAIN later :
            /\ later[i].ok /\ later[i].token = k /\ later[i].task \in {t}
            /\ from < later[i].stamp /\ later[i].stamp <= to}
          = AdmittedIn(later, t, k, from, to)
    BY DEF AdmittedIn
  <1> QED
    BY <1>1 DEF Admitted

LEMMA AdmittedFinite ==
    ASSUME NEW h \in Seq(Verdict), NEW t, NEW k, NEW from, NEW to
    PROVE  /\ IsFiniteSet(AdmittedIn(h, t, k, from, to))
           /\ Cardinality(AdmittedIn(h, t, k, from, to)) \in Nat
  <1>1. AdmittedIn(h, t, k, from, to) \subseteq 1..Len(h)
    BY DEF AdmittedIn
  <1>2. IsFiniteSet(1..Len(h))
    BY FS_Interval
  <1>3. IsFiniteSet(AdmittedIn(h, t, k, from, to))
    BY <1>1, <1>2, FS_Subset
  <1> QED
    BY <1>3, FS_CardinalityType

LEMMA HistoryType ==
    ASSUME NEW h \in Seq(Verdict)
    PROVE  \A i \in DOMAIN h : h[i] \in Verdict /\ h[i].stamp \in Nat
  <1>1. \A i \in DOMAIN h : h[i] \in Verdict
    OBVIOUS
  <1> QED
    BY <1>1 DEF Verdict

\* A span is part of all that came after its beginning.
LEMMA SpanWithin ==
    ASSUME NEW h \in Seq(Verdict), NothingLate(h, MaxTime), NEW t, NEW k,
           NEW from \in Int, NEW to \in Int
    PROVE  Cardinality(AdmittedIn(h, t, k, from, to)) <= Since(h, t, k, from)
  <1>1. AdmittedIn(h, t, k, from, to) \subseteq AdmittedIn(h, t, k, from, MaxTime)
    BY DEF AdmittedIn, NothingLate
  <1> QED
    BY <1>1, AdmittedFinite, FS_Subset DEF Since

\* An admitted call counts once, where it belongs; a refused one nowhere.
LEMMA VerdictCounts ==
    ASSUME NEW h \in Seq(Verdict), NEW e \in Verdict, NEW t, NEW k,
           NEW from \in Int, NEW to \in Int
    PROVE  Cardinality(AdmittedIn(Append(h, e), t, k, from, to)) =
              Cardinality(AdmittedIn(h, t, k, from, to)) +
                 IF e.ok /\ e.token = k /\ e.task = t /\ from < e.stamp /\ e.stamp <= to
                 THEN 1 ELSE 0
  <1> DEFINE n == Len(h) + 1
             longer == Append(h, e)
             counts == e.ok /\ e.token = k /\ e.task = t /\ from < e.stamp /\ e.stamp <= to
  <1>1. /\ DOMAIN longer = DOMAIN h \cup {n} /\ n \notin DOMAIN h
        /\ \A i \in DOMAIN h : longer[i] = h[i]
        /\ longer[n] = e
    OBVIOUS
  <1> HIDE DEF n, longer
  <1>2. /\ IsFiniteSet(AdmittedIn(h, t, k, from, to))
        /\ Cardinality(AdmittedIn(h, t, k, from, to)) \in Nat
    BY AdmittedFinite
  <1>3. n \notin AdmittedIn(h, t, k, from, to)
    BY <1>1 DEF AdmittedIn
  <1>4. CASE counts
    <2>1. AdmittedIn(longer, t, k, from, to) = AdmittedIn(h, t, k, from, to) \cup {n}
      BY <1>1, <1>4 DEF AdmittedIn
    <2>2. Cardinality(AdmittedIn(longer, t, k, from, to))
             = Cardinality(AdmittedIn(h, t, k, from, to)) + 1
      BY <1>2, <1>3, <2>1, FS_AddElement
    <2> QED
      BY <1>4, <2>2 DEF longer
  <1>5. CASE ~counts
    <2>1. AdmittedIn(longer, t, k, from, to) = AdmittedIn(h, t, k, from, to)
      BY <1>1, <1>5 DEF AdmittedIn
    <2> QED
      BY <1>2, <1>5, <2>1, FS_CardinalityType DEF longer
  <1> QED
    BY <1>4, <1>5
-----------------------------------------------------------------------------
(* The invariant.                                                          *)

LEMMA LimiterInit == Init => LimiterInv
  <1> SUFFICES ASSUME Init PROVE LimiterInv
    OBVIOUS
  <1>1. /\ now = 0 /\ waiting = {} /\ verdicts = <<>> /\ DOMAIN verdicts = {}
        /\ hits = [t \in Task |-> [k \in Token |-> <<>>]] /\ DOMAIN <<>> = {}
        /\ \A t \in Task, k \in Token : hits[t][k] = <<>>
    BY DEF Init
  <1>2. TypeOK
    BY <1>1, ConstantTypes DEF TypeOK
  <1>3. WaitsAreShort /\ NothingLate(verdicts, now) /\ LogsInOrder(hits, now)
    BY <1>1 DEF WaitsAreShort, NothingLate, LogsInOrder, Orderly
  <1>4. \A t, k, from, to : Cardinality(AdmittedIn(verdicts, t, k, from, to)) = 0
    <2>1. \A t, k, from, to : AdmittedIn(verdicts, t, k, from, to) = {}
      BY <1>1 DEF AdmittedIn
    <2> QED
      BY <2>1, FS_EmptySet
  <1>5. LogsRemember(hits, verdicts, now)
    <2>1. \A from : Young(<<>>, from) = {}
      BY DEF Young
    <2> QED
      BY <1>1, <1>4, <2>1, FS_EmptySet DEF LogsRemember, Remembers, Since
  <1>6. BudgetPerTask
    <2>1. \A t, k, from, to : Admitted({t}, k, from, to) = 0
      BY <1>4, AdmittedIsCount
    <2>2. 0 <= Limit
      BY ConstantTypes
    <2>3. \A t \in Task, k \in Token, from \in -1..MaxTime :
             Admitted({t}, k, from, from + Window - Skew) = 0
      BY <2>1, Zenon
    <2>4. \A n : n = 0 => n <= Limit
      BY <2>2
    <2> QED
      BY <2>3, <2>4, Zenon DEF BudgetPerTask
  <1>7. RefusalIsEarned /\ LogsAreReaped
    BY <1>1 DEF RefusalIsEarned, LogsAreReaped
  <1> QED
    BY <1>2, <1>3, <1>5, <1>6, <1>7 DEF LimiterInv

\* Only the answers and the logs matter to the promises.
LEMMA PromisesFrame ==
    ASSUME BudgetPerTask, RefusalIsEarned, LogsAreReaped, UNCHANGED <<hits, verdicts>>
    PROVE  BudgetPerTask' /\ RefusalIsEarned' /\ LogsAreReaped'
  BY DEF BudgetPerTask, RefusalIsEarned, LogsAreReaped, Admitted

LEMMA ArriveHolds ==
    ASSUME LimiterInv, NEW c \in Call, NEW t \in Task, NEW k \in Token, Arrive(c, t, k)
    PROVE  LimiterInv'
  <1> DEFINE w == [call |-> c, task |-> t, token |-> k, stamp |-> now]
  <1>1. /\ \A v \in waiting : v.call # c
        /\ waiting' = waiting \cup {w} /\ now' = now /\ hits' = hits /\ verdicts' = verdicts
    BY DEF Arrive
  <1>2. w \in Waiting /\ w.call = c /\ w.stamp = now /\ now \in Nat
    BY ConstantTypes DEF LimiterInv, TypeOK, Waiting
  <1> HIDE DEF w
  <1>3. TypeOK'
    BY <1>1, <1>2 DEF LimiterInv, TypeOK
  <1>4. WaitsAreShort'
    BY <1>1, <1>2, ConstantTypes DEF LimiterInv, WaitsAreShort
  <1>5. BudgetPerTask' /\ RefusalIsEarned' /\ LogsAreReaped'
    BY <1>1, PromisesFrame DEF LimiterInv
  <1> QED
    BY <1>1, <1>3, <1>4, <1>5 DEF LimiterInv

LEMMA TickHolds ==
    ASSUME LimiterInv, Tick
    PROVE  LimiterInv'
  <1>1. /\ now < MaxTime /\ now' = now + 1 /\ hits' = hits /\ waiting' = waiting
        /\ verdicts' = verdicts /\ \A w \in waiting : now < w.stamp + Skew
        /\ now \in Nat
    BY ConstantTypes DEF Tick, LimiterInv, TypeOK
  <1>2. TypeOK'
    BY <1>1, ConstantTypes DEF LimiterInv, TypeOK
  <1>3. WaitsAreShort'
    <2>1. \A w \in waiting : w.stamp \in Nat
      BY DEF LimiterInv, TypeOK, Waiting
    <2> QED
      BY <1>1, <2>1, ConstantTypes DEF LimiterInv, WaitsAreShort
  <1>4. NothingLate(verdicts', now')
    <2>1. \A i \in DOMAIN verdicts : verdicts[i].stamp \in Nat
      BY HistoryType DEF LimiterInv, TypeOK
    <2> QED
      BY <1>1, <2>1 DEF LimiterInv, NothingLate
  <1>5. LogsInOrder(hits', now')
    <2>1. \A t \in Task, k \in Token : \A i \in DOMAIN hits[t][k] : hits[t][k][i] \in Nat
      BY LogType DEF LimiterInv, TypeOK
    <2> QED
      BY <1>1, <2>1 DEF LimiterInv, LogsInOrder, Orderly
  <1>6. LogsRemember(hits', verdicts', now')
    <2>1. ASSUME NEW t \in Task, NEW k \in Token
          PROVE  Remembers(hits[t][k], verdicts, t, k, now + 1)
      <3>1. Remembers(hits[t][k], verdicts, t, k, now)
        BY DEF LimiterInv, LogsRemember
      <3> SUFFICES ASSUME NEW from \in Int
                   PROVE  /\ Cardinality(Young(hits[t][k], from)) <= Since(verdicts, t, k, from)
                          /\ from >= (now + 1) - Window =>
                                Cardinality(Young(hits[t][k], from)) = Since(verdicts, t, k, from)
        BY Zenon DEF Remembers
      <3>2. from >= (now + 1) - Window => from >= now - Window
        BY <1>1, ConstantTypes
      <3> QED
        BY <3>1, <3>2, Zenon DEF Remembers
    <2> QED
      BY <1>1, <2>1 DEF LogsRemember
  <1>7. BudgetPerTask' /\ RefusalIsEarned' /\ LogsAreReaped'
    BY <1>1, PromisesFrame DEF LimiterInv
  <1> QED
    BY <1>2, <1>3, <1>4, <1>5, <1>6, <1>7 DEF LimiterInv

LEMMA AllowHolds ==
    ASSUME LimiterInv, NEW w \in waiting, Allow(w)
    PROVE  LimiterInv'
  <1> DEFINE t0 == w.task
             k0 == w.token
             stamp == w.stamp
             cutoff == stamp - Window
             kept == [k \in Token |-> DropAged(hits[t0][k], cutoff)]
             ok == HasRoom(kept[k0])
             e == [task |-> t0, token |-> k0, stamp |-> stamp, ok |-> ok]
             later == Append(verdicts, e)
  <1>1. /\ t0 \in Task /\ k0 \in Token /\ stamp \in Nat /\ now \in Nat /\ now <= MaxTime
        /\ stamp <= now /\ now <= stamp + Skew
        /\ verdicts \in Seq(Verdict) /\ \A t \in Task, k \in Token : hits[t][k] \in Seq(Nat)
        /\ hits \in [Task -> [Token -> Seq(Nat)]]
    BY ConstantTypes DEF LimiterInv, TypeOK, Waiting, WaitsAreShort
  <1>2. /\ now' = now /\ waiting' = waiting \ {w} /\ verdicts' = later
        /\ hits' = [hits EXCEPT ![t0] =
              IF ok THEN [kept EXCEPT ![k0] = Append(@, stamp)] ELSE kept]
    BY DEF Allow
  <1>3. /\ e \in Verdict /\ e.task = t0 /\ e.token = k0 /\ e.stamp = stamp
        /\ e.ok = ok /\ ok \in BOOLEAN
    BY <1>1 DEF Verdict, HasRoom
  <1>4. cutoff \in Int /\ cutoff = stamp - Window /\ cutoff <= now - Window
    BY <1>1, ConstantTypes
  <1>5. ASSUME NEW k \in Token
        PROVE  /\ kept[k] \in Seq(Nat) /\ Orderly(kept[k], now)
               /\ \A i \in DOMAIN kept[k] : kept[k][i] > cutoff - Skew
               /\ Remembers(kept[k], verdicts, t0, k, now)
               /\ Len(kept[k]) <= Limit
    <2> DEFINE old == hits[t0][k]
    <2>1. kept[k] = DropAged(old, cutoff)
      OBVIOUS
    <2>2. /\ old \in Seq(Nat) /\ Orderly(old, now) /\ Remembers(old, verdicts, t0, k, now)
      BY <1>1 DEF LimiterInv, LogsInOrder, LogsRemember
    <2> HIDE DEF old, kept, cutoff
    <2>3. PrunedTo(old, kept[k], cutoff, now)
      BY <1>1, <1>4, <2>1, <2>2, PruneKeeps
    <2>4. /\ kept[k] \in Seq(Nat) /\ Orderly(kept[k], now)
          /\ \A i \in DOMAIN kept[k] : kept[k][i] > cutoff - Skew
          /\ \A from \in Int :
                /\ Cardinality(Young(kept[k], from)) <= Cardinality(Young(old, from))
                /\ from >= cutoff =>
                      Cardinality(Young(kept[k], from)) = Cardinality(Young(old, from))
      BY <2>3, Zenon DEF PrunedTo
    <2>5. Remembers(kept[k], verdicts, t0, k, now)
      <3> SUFFICES ASSUME NEW from \in Int
                   PROVE  /\ Cardinality(Young(kept[k], from)) <= Since(verdicts, t0, k, from)
                          /\ from >= now - Window =>
                                Cardinality(Young(kept[k], from))
                                   = Since(verdicts, t0, k, from)
        BY DEF Remembers
      <3>1. /\ Cardinality(Young(kept[k], from)) \in Nat
            /\ Cardinality(Young(old, from)) \in Nat
            /\ Since(verdicts, t0, k, from) \in Nat
        BY <1>1, <2>2, <2>4, YoungFinite, AdmittedFinite DEF Since
      <3>2. from >= now - Window => from >= cutoff
        BY <1>1, <1>4, ConstantTypes
      <3> QED
        BY <2>2, <2>4, <3>1, <3>2 DEF Remembers
    <2>6. Len(kept[k]) <= Limit
      <3>1. Len(old) <= Limit
        BY <1>1 DEF LimiterInv, TypeOK, old
      <3>2. PICK m \in 0..Len(old) : Len(kept[k]) = Len(old) - m
        BY <1>4, <2>1, <2>2, DropsPrefix
      <3> QED
        BY <2>2, <3>1, <3>2, ConstantTypes
    <2> QED
      BY <2>4, <2>5, <2>6
  <1>6. kept \in [Token -> Seq(Nat)] /\ (ok => Len(kept[k0]) < Limit)
    BY <1>5 DEF HasRoom
  <1> HIDE DEF e, kept, cutoff, ok, t0, k0, stamp
  <1>7. \A t \in Task, k \in Token :
           hits'[t][k] = IF t # t0 THEN hits[t][k]
                         ELSE IF k = k0 /\ ok THEN Append(kept[k], stamp) ELSE kept[k]
    BY <1>1, <1>2, <1>6
  <1>8. TypeOK'
    <2>1. hits' \in [Task -> [Token -> Seq(Nat)]]
      BY <1>1, <1>2, <1>6
    <2>2. \A t \in Task, k \in Token : Len(hits'[t][k]) <= Limit
      <3> SUFFICES ASSUME NEW t \in Task, NEW k \in Token PROVE Len(hits'[t][k]) <= Limit
        OBVIOUS
      <3>1. Len(hits[t][k]) <= Limit
        BY DEF LimiterInv, TypeOK
      <3>2. /\ kept[k] \in Seq(Nat) /\ Len(kept[k]) \in Nat
            /\ Len(Append(kept[k], stamp)) = Len(kept[k]) + 1
        BY <1>5
      <3>3. Len(kept[k]) <= Limit /\ (k = k0 /\ ok => Len(kept[k]) < Limit)
        BY <1>5, <1>6
      <3>4. CASE t # t0
        BY <1>7, <3>1, <3>4
      <3>5. CASE t = t0 /\ k = k0 /\ ok
        <4>1. hits'[t][k] = Append(kept[k], stamp)
          BY <1>7, <3>5
        <4>2. Len(hits'[t][k]) = Len(kept[k]) + 1
          BY <3>2, <4>1
        <4>3. Len(kept[k]) < Limit
          BY <3>3, <3>5
        <4> QED
          BY <3>2, <4>2, <4>3, ConstantTypes
      <3>6. CASE t = t0 /\ ~(k = k0 /\ ok)
        BY <1>7, <3>3, <3>6
      <3> QED
        BY <3>4, <3>5, <3>6
    <2> QED
      BY <1>1, <1>2, <1>3, <2>1, <2>2 DEF LimiterInv, TypeOK
  <1>9. WaitsAreShort'
    BY <1>2 DEF LimiterInv, WaitsAreShort
  <1>10. /\ later \in Seq(Verdict) /\ DOMAIN later = DOMAIN verdicts \cup {Len(verdicts) + 1}
        /\ Len(verdicts) \in Nat /\ DOMAIN verdicts = 1..Len(verdicts)
        /\ \A i \in DOMAIN verdicts : later[i] = verdicts[i]
        /\ later[Len(verdicts) + 1] = e
    BY <1>1, <1>3
  <1>11. NothingLate(later, now) /\ NothingLate(later, MaxTime)
    <2>1. NothingLate(later, now)
      BY <1>1, <1>3, <1>10 DEF LimiterInv, NothingLate
    <2>2. \A i \in DOMAIN later : later[i].stamp \in Nat
      BY <1>10, HistoryType
    <2> QED
      BY <1>1, <2>1, <2>2, ConstantTypes DEF NothingLate
  <1>12. LogsInOrder(hits', now)
    <2>1. ASSUME NEW t \in Task, NEW k \in Token PROVE Orderly(hits'[t][k], now)
      <3>1. t # t0 => Orderly(hits'[t][k], now)
        BY <1>7 DEF LimiterInv, LogsInOrder
      <3>2. t = t0 /\ ~(k = k0 /\ ok) => Orderly(hits'[t][k], now)
        BY <1>5, <1>7
      <3>3. t = t0 /\ k = k0 /\ ok => Orderly(hits'[t][k], now)
        BY <1>1, <1>5, <1>7, AppendOrderly
      <3> QED
        BY <3>1, <3>2, <3>3
    <2> QED
      BY <2>1 DEF LogsInOrder
  <1>13. ASSUME NEW t, NEW k, NEW from \in Int, NEW to \in Int
         PROVE  Cardinality(AdmittedIn(later, t, k, from, to)) =
                   Cardinality(AdmittedIn(verdicts, t, k, from, to)) +
                      IF ok /\ k0 = k /\ t0 = t /\ from < stamp /\ stamp <= to
                      THEN 1 ELSE 0
    <2>1. Cardinality(AdmittedIn(later, t, k, from, to)) =
             Cardinality(AdmittedIn(verdicts, t, k, from, to)) +
                IF e.ok /\ e.token = k /\ e.task = t /\ from < e.stamp /\ e.stamp <= to
                THEN 1 ELSE 0
      BY <1>1, <1>3, VerdictCounts
    <2> HIDE DEF later
    <2> QED
      BY <1>3, <2>1
  <1>14. ASSUME NEW t, NEW k, NEW from \in Int
         PROVE  Since(later, t, k, from) =
                   Since(verdicts, t, k, from) +
                      IF ok /\ k0 = k /\ t0 = t /\ from < stamp THEN 1 ELSE 0
    <2>1. MaxTime \in Int /\ stamp <= MaxTime
      BY <1>1, ConstantTypes
    <2>2. Cardinality(AdmittedIn(later, t, k, from, MaxTime)) =
             Cardinality(AdmittedIn(verdicts, t, k, from, MaxTime)) +
                IF ok /\ k0 = k /\ t0 = t /\ from < stamp /\ stamp <= MaxTime
                THEN 1 ELSE 0
      BY <1>13, <2>1
    <2> HIDE DEF later
    <2> QED
      BY <2>1, <2>2 DEF Since
  <1>15. \A t, k : \A from \in Int : Since(verdicts, t, k, from) \in Nat
    BY <1>1, AdmittedFinite DEF Since
  <1>16. LogsRemember(hits', later, now)
    <2>1. ASSUME NEW t \in Task, NEW k \in Token, NEW from \in Int
          PROVE  /\ Cardinality(Young(hits'[t][k], from)) <= Since(later, t, k, from)
                 /\ from >= now - Window =>
                       Cardinality(Young(hits'[t][k], from)) = Since(later, t, k, from)
      <3>1. CASE t # t0
        BY <1>7, <1>14, <1>15, <3>1 DEF LimiterInv, LogsRemember, Remembers
      <3>2. CASE t = t0 /\ ~(k = k0 /\ ok)
        BY <1>5, <1>7, <1>14, <1>15, <3>2 DEF Remembers
      <3>3. CASE t = t0 /\ k = k0 /\ ok
        <4>1. hits'[t][k] = Append(kept[k], stamp) /\ Remembers(kept[k], verdicts, t, k, now)
          BY <1>5, <1>7, <3>3
        <4>2. Cardinality(Young(hits'[t][k], from)) =
                 Cardinality(Young(kept[k], from)) + IF stamp > from THEN 1 ELSE 0
          BY <1>1, <1>5, <4>1, AppendCounts
        <4>3. Since(later, t, k, from) =
                 Since(verdicts, t, k, from) + IF stamp > from THEN 1 ELSE 0
          BY <1>1, <1>14, <3>3
        <4>4. Cardinality(Young(kept[k], from)) \in Nat /\ Since(verdicts, t, k, from) \in Nat
          BY <1>5, <1>15, YoungFinite
        <4> QED
          BY <4>1, <4>2, <4>3, <4>4 DEF Remembers
      <3> QED
        BY <3>1, <3>2, <3>3
    <2> QED
      BY <2>1 DEF LogsRemember, Remembers
  <1>17. \A t, k, from, to :
            Admitted({t}, k, from, to)' = Cardinality(AdmittedIn(later, t, k, from, to))
    BY <1>2, AdmittedIsLater
  <1>18. BudgetPerTask'
    <2>1. ASSUME NEW t \in Task, NEW k \in Token, NEW from \in -1..MaxTime
          PROVE  Cardinality(AdmittedIn(later, t, k, from, from + Window - Skew)) <= Limit
      <3> DEFINE to == from + Window - Skew
                 before == Cardinality(AdmittedIn(verdicts, t, k, from, to))
      <3>1. from \in Int /\ to \in Int
        BY ConstantTypes
      <3>2. before <= Limit /\ before \in Nat
        BY <1>1, AdmittedIsCount, AdmittedFinite DEF LimiterInv, BudgetPerTask
      <3>3. Cardinality(AdmittedIn(later, t, k, from, to)) =
               before + IF ok /\ k0 = k /\ t0 = t /\ from < stamp /\ stamp <= to THEN 1 ELSE 0
        <4> HIDE DEF to, later
        <4> QED
          BY <1>13, <3>1
      <3>4. CASE ok /\ k0 = k /\ t0 = t /\ from < stamp /\ stamp <= to
        <4>1. from >= now - Window
          BY <1>1, <3>1, <3>4, ConstantTypes
        <4>2. before <= Since(verdicts, t, k, from)
          <5>1. NothingLate(verdicts, MaxTime)
            <6>1. \A i \in DOMAIN verdicts : verdicts[i].stamp \in Nat
              BY <1>1, HistoryType
            <6> QED
              BY <1>1, <6>1, ConstantTypes DEF LimiterInv, NothingLate
          <5> HIDE DEF to
          <5> QED
            BY <1>1, <3>1, <5>1, SpanWithin
        <4>3. Since(verdicts, t, k, from) = Cardinality(Young(kept[k], from))
          BY <1>5, <3>1, <3>4, <4>1 DEF Remembers
        <4>4. Cardinality(Young(kept[k], from)) <= Len(kept[k]) /\ Len(kept[k]) \in Nat
          BY <1>5, <3>1, YoungAtMostAll, LogType
        <4>5. Len(kept[k]) < Limit
          BY <3>4 DEF ok, HasRoom
        <4>6. before + 1 <= Limit
          <5> HIDE DEF before
          <5> QED
            BY <1>15, <3>1, <3>2, <4>2, <4>3, <4>4, <4>5, ConstantTypes
        <4> QED
          BY <3>3, <3>4, <4>6
      <3>5. CASE ~(ok /\ k0 = k /\ t0 = t /\ from < stamp /\ stamp <= to)
        BY <3>2, <3>3, <3>5
      <3> QED
        BY <3>4, <3>5
    <2> QED
      BY <1>17, <2>1 DEF BudgetPerTask
  <1>19. RefusalIsEarned'
    <2>1. ASSUME NEW i \in DOMAIN later, ~later[i].ok
          PROVE  Since(later, later[i].task, later[i].token, later[i].stamp - Window - Skew)
                    >= Limit
      <3>1. CASE i \in DOMAIN verdicts
        <4> DEFINE v == verdicts[i]
                   from == v.stamp - Window - Skew
        <4>1. later[i] = v /\ from \in Int
          <5>1. verdicts[i].stamp \in Nat
            BY <1>1, <3>1, HistoryType
          <5> QED
            BY <1>10, <3>1, <5>1, ConstantTypes
        <4>2. Since(verdicts, v.task, v.token, from) >= Limit
          BY <2>1, <3>1, <4>1, AdmittedIsCount DEF LimiterInv, RefusalIsEarned, Since
        <4> HIDE DEF v, from
        <4>3. Since(later, v.task, v.token, from) >= Limit
          BY <1>14, <1>15, <4>1, <4>2, ConstantTypes
        <4> QED
          BY <4>1, <4>3 DEF from
      <3>2. CASE i = Len(verdicts) + 1
        <4> DEFINE from == cutoff - Skew
        <4>1. later[i] = e /\ ~ok /\ from \in Int /\ from = stamp - Window - Skew
          BY <1>1, <1>3, <1>4, <1>10, <2>1, <3>2, ConstantTypes
        <4>2. Cardinality(Young(kept[k0], from)) = Len(kept[k0]) /\ Len(kept[k0]) \in Nat
          BY <1>1, <1>5, <4>1, AllYoung, LogType
        <4>3. Len(kept[k0]) >= Limit
          BY <4>1, <4>2, ConstantTypes DEF ok, HasRoom
        <4>4. Cardinality(Young(kept[k0], from)) <= Since(verdicts, t0, k0, from)
          BY <1>1, <1>5, <4>1 DEF Remembers
        <4>5. Since(later, t0, k0, from) >= Limit
          <5> HIDE DEF from
          <5> QED
            BY <1>14, <1>15, <4>1, <4>2, <4>3, <4>4, ConstantTypes
        <4> QED
          BY <1>3, <4>1, <4>5
      <3> QED
        BY <1>10, <3>1, <3>2
    <2> QED
      BY <1>2, <1>17, <2>1 DEF RefusalIsEarned, Since
  <1>20. LogsAreReaped'
    <2>1. ASSUME NEW t \in Task, NEW k \in Token, NEW j \in DOMAIN later,
                 later[j].task = t, \A i \in DOMAIN later : later[i].task = t => i <= j,
                 NEW m \in DOMAIN hits'[t][k]
          PROVE  hits'[t][k][m] > later[j].stamp - Window - Skew
      <3>1. CASE t = t0
        <4>1. later[j] = e /\ later[j].stamp = stamp
          BY <1>3, <1>10, <2>1, <3>1
        <4>2. CASE m \in DOMAIN kept[k] /\ hits'[t][k][m] = kept[k][m]
          <5>1. kept[k][m] > cutoff - Skew
            BY <1>5, <4>2
          <5> QED
            BY <1>4, <4>1, <4>2, <5>1
        <4>3. CASE hits'[t][k][m] = stamp
          BY <1>1, <4>1, <4>3, ConstantTypes
        <4>4. \/ m \in DOMAIN kept[k] /\ hits'[t][k][m] = kept[k][m]
              \/ hits'[t][k][m] = stamp
          <5>1. kept[k] \in Seq(Nat) /\ t \in Task /\ k \in Token
            BY <1>5
          <5>2. CASE k = k0 /\ ok
            <6> DEFINE n == Len(kept[k]) + 1
                       longer == Append(kept[k], stamp)
            <6>1. /\ DOMAIN longer = DOMAIN kept[k] \cup {n} /\ longer[n] = stamp
                  /\ \A i \in DOMAIN kept[k] : longer[i] = kept[k][i]
              BY <1>1, <5>1, AppendShape, Zenon
            <6>2. hits'[t][k] = longer
              BY <1>7, <3>1, <5>1, <5>2, Zenon
            <6> HIDE DEF n, longer
            <6> QED
              BY <2>1, <6>1, <6>2
          <5>3. CASE ~(k = k0 /\ ok)
            <6>1. hits'[t][k] = kept[k]
              BY <1>7, <3>1, <5>1, <5>3, Zenon
            <6> QED
              BY <2>1, <6>1
          <5> QED
            BY <5>2, <5>3
        <4> QED
          BY <4>2, <4>3, <4>4
      <3>2. CASE t # t0
        <4>1. j \in DOMAIN verdicts /\ later[j] = verdicts[j] /\ hits'[t][k] = hits[t][k]
          BY <1>3, <1>7, <1>10, <2>1, <3>2
        <4>2. \A i \in DOMAIN verdicts : verdicts[i].task = t => i <= j
          BY <1>10, <2>1
        <4> QED
          BY <2>1, <4>1, <4>2 DEF LimiterInv, LogsAreReaped
      <3> QED
        BY <3>1, <3>2
    <2> QED
      BY <1>2, <2>1 DEF LogsAreReaped
  <1> QED
    BY <1>2, <1>8, <1>9, <1>11, <1>12, <1>16, <1>18, <1>19, <1>20 DEF LimiterInv

LEMMA LimiterNext == LimiterInv /\ [Next]_vars => LimiterInv'
  <1> SUFFICES ASSUME LimiterInv, [Next]_vars PROVE LimiterInv'
    OBVIOUS
  <1>1. CASE \E c \in Call, t \in Task, k \in Token : Arrive(c, t, k)
    BY <1>1, ArriveHolds
  <1>2. CASE \E w \in waiting : Allow(w)
    BY <1>2, AllowHolds
  <1>3. CASE Tick
    BY <1>3, TickHolds
  <1>4. CASE UNCHANGED vars
    <2>1. BudgetPerTask' /\ RefusalIsEarned' /\ LogsAreReaped'
      BY <1>4, PromisesFrame DEF LimiterInv, vars
    <2>2. TypeOK' /\ WaitsAreShort'
      BY <1>4 DEF LimiterInv, TypeOK, WaitsAreShort, vars
    <2> QED
      BY <1>4, <2>1, <2>2 DEF LimiterInv, vars
  <1> QED
    BY <1>1, <1>2, <1>3, <1>4 DEF Next

LEMMA LimiterInvariance == Spec => []LimiterInv
  BY LimiterInit, LimiterNext, PTL DEF Spec
-----------------------------------------------------------------------------
\* Every variable keeps its type, no log holds more stamps than the budget and
\* no goroutine waits twice.
THEOREM LimiterTypes == Spec => []TypeOK
  BY LimiterInvariance, PTL DEF LimiterInv

\* tokenLimiter.allow: one process never admits more than the limit in a
\* window shorter by the skew, in whatever order its callers get the mutex.
THEOREM BudgetIsKept == Spec => []BudgetPerTask
  BY LimiterInvariance, PTL DEF LimiterInv

\* tokenLimiter.allow: only a token whose own calls spent the budget within
\* a window and a skew is refused.
THEOREM RefusalsAreFair == Spec => []RefusalIsEarned
  BY LimiterInvariance, PTL DEF LimiterInv

\* The pruning loop of allow(): a process holds no stamp older than a window
\* and a skew before the last call it answered.
THEOREM LogsStayShort == Spec => []LogsAreReaped
  BY LimiterInvariance, PTL DEF LimiterInv
-----------------------------------------------------------------------------
(* Several processes.  Nothing is shared between them, so a token that     *)
(* reaches all of them has the budget of each (BudgetPerToken fails); more *)
(* than that it cannot have.                                               *)

BudgetOfTasks ==
    \A tasks \in SUBSET Task : IsFiniteSet(tasks) =>
        \A k \in Token, from \in -1..MaxTime :
            Admitted(tasks, k, from, from + Window - Skew) <= Limit * Cardinality(tasks)

\* What a set of tasks admits, one of them set apart.
LEMMA AdmittedApart ==
    ASSUME TypeOK, NEW tasks, NEW t \in tasks, NEW k, NEW from, NEW to
    PROVE  /\ Admitted(tasks, k, from, to) <= Admitted(tasks \ {t}, k, from, to)
                                              + Admitted({t}, k, from, to)
           /\ Admitted(tasks, k, from, to) \in Nat
           /\ Admitted(tasks \ {t}, k, from, to) \in Nat
           /\ Admitted({t}, k, from, to) \in Nat
  <1> DEFINE By(T) == {i \in DOMAIN verdicts :
                /\ verdicts[i].ok /\ verdicts[i].token = k /\ verdicts[i].task \in T
                /\ from < verdicts[i].stamp /\ verdicts[i].stamp <= to}
             others == By(tasks \ {t})
             own == By({t})
  <1>1. \A T : Admitted(T, k, from, to) = Cardinality(By(T))
    BY DEF Admitted
  <1>2. \A T : By(T) \subseteq 1..Len(verdicts)
    BY DEF TypeOK
  <1>3. By(tasks) = others \cup own
    OBVIOUS
  <1>4. IsFiniteSet(1..Len(verdicts))
    BY FS_Interval DEF TypeOK
  <1> HIDE DEF By
  <1>5. \A T : IsFiniteSet(By(T)) /\ Cardinality(By(T)) \in Nat
    BY <1>2, <1>4, FS_Subset, FS_CardinalityType
  <1>6. Cardinality(others \cup own)
           = Cardinality(others) + Cardinality(own) - Cardinality(others \cap own)
    BY <1>5, FS_Union
  <1>7. Cardinality(others \cap own) \in Nat
    <2>1. IsFiniteSet(others \cap own)
      BY <1>5, FS_Subset
    <2> QED
      BY <2>1, FS_CardinalityType
  <1>8. /\ Admitted(tasks, k, from, to) = Cardinality(others \cup own)
        /\ Admitted(tasks \ {t}, k, from, to) = Cardinality(others)
        /\ Admitted({t}, k, from, to) = Cardinality(own)
    BY <1>1, <1>3, Zenon
  <1>9. /\ Cardinality(others \cup own) \in Nat
        /\ Cardinality(others) \in Nat /\ Cardinality(own) \in Nat
    BY <1>3, <1>5, Zenon
  <1> HIDE DEF others, own
  <1> QED
    BY <1>6, <1>7, <1>8, <1>9

LEMMA BudgetsAdd ==
    ASSUME TypeOK, BudgetPerTask
    PROVE  BudgetOfTasks
  <1> SUFFICES ASSUME NEW all \in SUBSET Task, IsFiniteSet(all),
                      NEW k \in Token, NEW from \in -1..MaxTime
               PROVE  Admitted(all, k, from, from + Window - Skew) <= Limit * Cardinality(all)
    BY DEF BudgetOfTasks
  <1> DEFINE to == from + Window - Skew
             Kept(n) == \A tasks \in SUBSET Task :
                IsFiniteSet(tasks) /\ Cardinality(tasks) = n =>
                    Admitted(tasks, k, from, to) <= Limit * n
             last == Cardinality(all)
             S == {n \in 0..last : Kept(n)}
  <1>1. last \in Nat
    BY FS_CardinalityType
  <1>2. Kept(0)
    <2> SUFFICES ASSUME NEW tasks \in SUBSET Task, IsFiniteSet(tasks), Cardinality(tasks) = 0
                 PROVE  Admitted(tasks, k, from, to) <= Limit * 0
      OBVIOUS
    <2>1. tasks = {}
      BY FS_EmptySet
    <2> HIDE DEF to
    <2>2. Admitted({}, k, from, to) = Cardinality({})
      <3>1. {i \in DOMAIN verdicts :
                /\ verdicts[i].ok /\ verdicts[i].token = k /\ verdicts[i].task \in {}
                /\ from < verdicts[i].stamp /\ verdicts[i].stamp <= to} = {}
        OBVIOUS
      <3> QED
        BY <3>1 DEF Admitted
    <2>3. Limit * 0 = 0
      BY ConstantTypes
    <2> QED
      BY <2>1, <2>2, <2>3, FS_EmptySet
  <1>3. ASSUME NEW n \in 1..last, Kept(n - 1) PROVE Kept(n)
    <2> SUFFICES ASSUME NEW tasks \in SUBSET Task, IsFiniteSet(tasks), Cardinality(tasks) = n
                 PROVE  Admitted(tasks, k, from, to) <= Limit * n
      OBVIOUS
    <2>1. PICK t \in tasks : TRUE
      BY FS_EmptySet
    <2>2. /\ IsFiniteSet(tasks \ {t}) /\ Cardinality(tasks \ {t}) = n - 1
          /\ tasks \ {t} \in SUBSET Task
      BY FS_RemoveElement
    <2>3. Admitted(tasks \ {t}, k, from, to) <= Limit * (n - 1)
      BY <1>3, <2>2
    <2>4. Admitted({t}, k, from, to) <= Limit
      BY DEF BudgetPerTask
    <2>5. Limit * (n - 1) + Limit = Limit * n /\ Limit * (n - 1) \in Nat /\ Limit \in Nat
      BY ConstantTypes
    <2> HIDE DEF to
    <2>6. /\ Admitted(tasks, k, from, to) <= Admitted(tasks \ {t}, k, from, to)
                                              + Admitted({t}, k, from, to)
          /\ Admitted(tasks, k, from, to) \in Nat
          /\ Admitted(tasks \ {t}, k, from, to) \in Nat
          /\ Admitted({t}, k, from, to) \in Nat
      BY AdmittedApart
    <2> QED
      BY <2>3, <2>4, <2>5, <2>6
  <1> HIDE DEF Kept, last
  <1>4. 0..last \subseteq S
    <2>1. 0 \in S /\ \A n \in 1..last : n - 1 \in S => n \in S
      BY <1>1, <1>2, <1>3
    <2> HIDE DEF S
    <2> QED
      BY <1>1, <2>1, AllUpTo
  <1>5. Kept(last)
    BY <1>1, <1>4
  <1> QED
    BY <1>5 DEF Kept, last

\* However a load balancer spreads the calls of a token over the processes,
\* they admit no more than the sum of their budgets.
THEOREM FleetBudgetIsKept == Spec => []BudgetOfTasks
  <1>1. LimiterInv => BudgetOfTasks
    BY BudgetsAdd DEF LimiterInv
  <1> QED
    BY <1>1, LimiterInvariance, PTL
=============================================================================
