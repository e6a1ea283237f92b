------------------------ MODULE RegisterGuardProofs ------------------------
(***************************************************************************)
(* The promises of RegisterGuard for any number of addresses, any limit    *)
(* and any window.                                                         *)
(*                                                                         *)
(* The limiter keeps a count and a reset time per address; its promises    *)
(* speak of every request ever served.  GuardInv ties the two: the count   *)
(* of a bucket is the number of requests let through since it was opened,  *)
(* and before that, within one window, there was at most one budget.       *)
(***************************************************************************)
EXTENDS RegisterGuard, FiniteSetTheorems, TLAPS

\* Requests of an address let through in [from, to], in a history.
PassedIn(history, a, from, to) ==
    {i \in DOMAIN history :
        /\ history[i].address = a /\ history[i].passed
        /\ from <= history[i].at /\ history[i].at <= to}

N(history, a, from, to) == Cardinality(PassedIn(history, a, from, to))

MapOK(b) ==
    /\ DOMAIN b \subseteq Address
    /\ \A a \in DOMAIN b : b[a] \in Bucket /\ b[a].count \in 1..Limit

\* No bucket of the map has run out.
Reaped(b, time) == \A a \in DOMAIN b : time <= b[a].reset

NothingLate(history, time) == \A i \in DOMAIN history : history[i].at <= time

\* The last request of an address that was let through came by then.
LetThroughBy(history, a, time) ==
    \A i \in DOMAIN history :
        history[i].address = a /\ history[i].passed => history[i].at <= time

\* What a bucket, or its absence, says of the past.
CountsRight(b, history, time) ==
    \A a \in Address :
        IF a \in DOMAIN b
        THEN LET opened == b[a].reset - Window
             IN  /\ opened <= time
                 /\ LetThroughBy(history, a, b[a].reset)
                 /\ N(history, a, opened, time) = b[a].count
                 /\ N(history, a, opened - Window, opened - 1) <= Limit
        ELSE /\ LetThroughBy(history, a, time - 1)
             /\ N(history, a, time - Window, time) <= Limit

GuardInv ==
    /\ TypeOK
    /\ NothingLate(served, now)
    /\ CountsRight(buckets, served, now)
    /\ RegistrationBudget
    /\ LimitIsEarned
    /\ BucketsAreReaped
    /\ RegisteredAreSafe
-----------------------------------------------------------------------------
(* Counting in a history.                                                  *)

LEMMA PassedIsCount ==
    ASSUME NEW a, NEW from, NEW to
    PROVE  Passed(a, from, to) = N(served, a, from, to)
  BY DEF Passed, PassedIn, N

LEMMA PassedInFinite ==
    ASSUME NEW h \in Seq(Served), NEW a, NEW from \in Int, NEW to \in Int
    PROVE  /\ IsFiniteSet(PassedIn(h, a, from, to))
           /\ N(h, a, from, to) \in Nat
  <1>1. PassedIn(h, a, from, to) \subseteq 1..Len(h)
    BY DEF PassedIn
  <1>2. IsFiniteSet(1..Len(h))
    BY FS_Interval
  <1> QED
    BY <1>1, <1>2, FS_Subset, FS_CardinalityType DEF N

LEMMA HistoryType ==
    ASSUME NEW h \in Seq(Served)
    PROVE  \A i \in DOMAIN h : h[i] \in Served /\ h[i].at \in Nat
  <1>1. \A i \in DOMAIN h : h[i] \in Served
    OBVIOUS
  <1> QED
    BY <1>1 DEF Served

\* A wider span has no fewer requests.
LEMMA Wider ==
    ASSUME NEW h \in Seq(Served), NEW a,
           NEW from \in Int, NEW to \in Int, NEW from2 \in Int, NEW to2 \in Int,
           from2 <= from, to <= to2
    PROVE  N(h, a, from, to) <= N(h, a, from2, to2)
  <1>1. PassedIn(h, a, from, to) \subseteq PassedIn(h, a, from2, to2)
    <2>1. \A i \in DOMAIN h : h[i].at \in Int
      BY HistoryType
    <2> QED
      BY <2>1 DEF PassedIn
  <1> QED
    BY <1>1, PassedInFinite, FS_Subset DEF N

\* A span has no more requests than two that cover it.
LEMMA Covered ==
    ASSUME NEW h \in Seq(Served), NEW a,
           NEW from \in Int, NEW mid \in Int, NEW to \in Int
    PROVE  N(h, a, from, to) <= N(h, a, from, mid - 1) + N(h, a, mid, to)
  <1> DEFINE S == PassedIn(h, a, from, mid - 1)
             T == PassedIn(h, a, mid, to)
  <1>1. PassedIn(h, a, from, to) \subseteq S \cup T
    <2>1. \A i \in DOMAIN h : h[i].at \in Int
      BY HistoryType
    <2> QED
      BY <2>1 DEF PassedIn
  <1>2. IsFiniteSet(S) /\ IsFiniteSet(T)
    BY PassedInFinite
  <1>3. /\ IsFiniteSet(S \cup T)
        /\ Cardinality(S \cup T) = Cardinality(S) + Cardinality(T) - Cardinality(S \cap T)
    BY <1>2, FS_Union
  <1>4. Cardinality(S) \in Nat /\ Cardinality(T) \in Nat /\ Cardinality(S \cap T) \in Nat
    BY <1>2, FS_Intersection, FS_CardinalityType
  <1>5. Cardinality(PassedIn(h, a, from, to)) <= Cardinality(S \cup T)
    BY <1>1, <1>3, FS_Subset
  <1>6. Cardinality(PassedIn(h, a, from, to)) \in Nat
    BY PassedInFinite DEF N
  <1> HIDE DEF S, T
  <1>7. Cardinality(PassedIn(h, a, from, to)) <= Cardinality(S) + Cardinality(T)
    BY <1>3, <1>4, <1>5, <1>6
  <1> QED
    BY <1>7 DEF S, T, N

\* One more request counts once, where it belongs.
LEMMA OneMore ==
    ASSUME NEW h \in Seq(Served), NEW e \in Served, NEW a,
           NEW from \in Int, NEW to \in Int
    PROVE  LET new == N(Append(h, e), a, from, to)
               old == N(h, a, from, to)
           IN  /\ e.address = a /\ e.passed /\ from <= e.at /\ e.at <= to => new = old + 1
               /\ ~(e.address = a /\ e.passed /\ from <= e.at /\ e.at <= to) => new = old
  <1> DEFINE n == Len(h) + 1
  <1>1. /\ DOMAIN Append(h, e) = DOMAIN h \cup {n} /\ n \notin DOMAIN h
        /\ \A i \in DOMAIN h : Append(h, e)[i] = h[i]
        /\ Append(h, e)[n] = e
    OBVIOUS
  <1>2. IsFiniteSet(PassedIn(h, a, from, to)) /\ n \notin PassedIn(h, a, from, to)
    <2>1. PassedIn(h, a, from, to) \subseteq DOMAIN h
      BY DEF PassedIn
    <2> QED
      BY <1>1, <2>1, PassedInFinite
  <1> HIDE DEF n
  <1>3. CASE e.address = a /\ e.passed /\ from <= e.at /\ e.at <= to
    <2>1. PassedIn(Append(h, e), a, from, to) = PassedIn(h, a, from, to) \cup {n}
      BY <1>1, <1>3 DEF PassedIn
    <2>2. N(Append(h, e), a, from, to) = N(h, a, from, to) + 1
      BY <1>2, <2>1, FS_AddElement DEF N
    <2> QED
      BY <1>3, <2>2
  <1>4. CASE ~(e.address = a /\ e.passed /\ from <= e.at /\ e.at <= to)
    <2>1. PassedIn(Append(h, e), a, from, to) = PassedIn(h, a, from, to)
      BY <1>1, <1>4 DEF PassedIn
    <2> QED
      BY <1>4, <2>1 DEF N
  <1> QED
    BY <1>3, <1>4
-----------------------------------------------------------------------------
(* The bucket map.                                                         *)

LEMMA ReapedMap ==
    ASSUME NEW b, NEW time
    PROVE  /\ DOMAIN Unexpired(b, time) = {a \in DOMAIN b : time <= b[a].reset}
           /\ \A a \in DOMAIN Unexpired(b, time) : Unexpired(b, time)[a] = b[a]
  BY DEF Unexpired, Restrict

\* `new` is `b` with one more request of `a` counted at `time`.
CountsIn(new, b, a, time) ==
    /\ DOMAIN new = DOMAIN b \cup {a}
    /\ \A x \in DOMAIN b \ {a} : new[x] = b[x]
    /\ a \notin DOMAIN b => new[a] = [count |-> 1, reset |-> time + Window]
    /\ a \in DOMAIN b => new[a] = [count |-> b[a].count + 1, reset |-> b[a].reset]

LEMMA CountedMap ==
    ASSUME NEW b, MapOK(b), NEW a \in Address, NEW time \in Nat
    PROVE  CountsIn(Counted(b, a, time), b, a, time)
  <1>1. CASE a \in DOMAIN b
    BY <1>1 DEF Counted, With, Bucket, MapOK, CountsIn
  <1>2. CASE a \notin DOMAIN b
    BY <1>2 DEF Counted, With, CountsIn
  <1> QED
    BY <1>1, <1>2
-----------------------------------------------------------------------------
(* What the limiter does to the counts.                                    *)

LEMMA MapTypes ==
    ASSUME NEW b, MapOK(b), NEW a \in DOMAIN b
    PROVE  a \in Address /\ b[a].count \in Nat /\ b[a].reset \in Nat /\ b[a].count <= Limit
  BY GuardAssumption DEF MapOK, Bucket

\* Reaping: a bucket that ran out leaves at most a budget within the window.
LEMMA ReapedCounts ==
    ASSUME NEW h \in Seq(Served), NEW t \in Nat, NEW b, MapOK(b), CountsRight(b, h, t)
    PROVE  LET live == Unexpired(b, t)
           IN  /\ MapOK(live)
               /\ CountsRight(live, h, t)
               /\ Reaped(live, t)
  <1> DEFINE live == Unexpired(b, t)
  <1>1. /\ DOMAIN live = {a \in DOMAIN b : t <= b[a].reset}
        /\ \A a \in DOMAIN live : live[a] = b[a]
    BY ReapedMap
  <1> HIDE DEF live
  <1>2. MapOK(live) /\ Reaped(live, t)
    BY <1>1 DEF MapOK, Reaped
  <1>3. ASSUME NEW a \in Address, a \in DOMAIN b, a \notin DOMAIN live
        PROVE  LetThroughBy(h, a, t - 1) /\ N(h, a, t - Window, t) <= Limit
    <2> DEFINE opened == b[a].reset - Window
    <2>1. /\ b[a].reset \in Nat /\ b[a].count <= Limit /\ b[a].count \in Nat
          /\ b[a].reset < t /\ Window \in Nat /\ Limit \in Nat
      BY <1>1, <1>3, MapTypes, GuardAssumption
    <2>2. LetThroughBy(h, a, b[a].reset) /\ N(h, a, opened, t) = b[a].count
      BY <1>3 DEF CountsRight
    <2>3. LetThroughBy(h, a, t - 1)
      BY <2>1, <2>2, HistoryType DEF LetThroughBy
    <2>4. N(h, a, t - Window, t) <= N(h, a, opened, t)
      BY <2>1, Wider
    <2>5. N(h, a, t - Window, t) \in Nat
      BY <2>1, PassedInFinite
    <2> QED
      BY <2>1, <2>2, <2>3, <2>4, <2>5
  <1>4. CountsRight(live, h, t)
    BY <1>1, <1>3 DEF CountsRight
  <1> QED
    BY <1>2, <1>4 DEF live

\* A refused request counts nowhere.
LEMMA RefusedCounts ==
    ASSUME NEW h \in Seq(Served), NEW e \in Served, ~e.passed
    PROVE  /\ \A x : \A from, to \in Int : N(Append(h, e), x, from, to) = N(h, x, from, to)
           /\ \A x, time : LetThroughBy(h, x, time) => LetThroughBy(Append(h, e), x, time)
  <1>1. \A x : \A from, to \in Int : N(Append(h, e), x, from, to) = N(h, x, from, to)
    BY OneMore
  <1>2. /\ DOMAIN Append(h, e) = DOMAIN h \cup {Len(h) + 1}
        /\ \A i \in DOMAIN h : Append(h, e)[i] = h[i]
        /\ Append(h, e)[Len(h) + 1] = e
    OBVIOUS
  <1> QED
    BY <1>1, <1>2 DEF LetThroughBy

\* Time passes: the requests so far are not later than they were.
LEMMA TickCounts ==
    ASSUME NEW h \in Seq(Served), NEW t \in Nat, NEW b, MapOK(b), NothingLate(h, t),
           CountsRight(b, h, t)
    PROVE  CountsRight(b, h, t + 1) /\ NothingLate(h, t + 1)
  <1>0. Window \in Nat /\ Limit \in Nat /\ \A i \in DOMAIN h : h[i].at \in Nat /\ h[i].at <= t
    BY GuardAssumption, HistoryType DEF NothingLate
  <1>1. \A a : \A from \in Int : N(h, a, from, t + 1) = N(h, a, from, t)
    <2>1. ASSUME NEW a, NEW from \in Int
          PROVE  PassedIn(h, a, from, t + 1) = PassedIn(h, a, from, t)
      BY <1>0 DEF PassedIn
    <2> QED
      BY <2>1 DEF N
  <1>2. ASSUME NEW a \in Address, a \notin DOMAIN b
        PROVE  LetThroughBy(h, a, t) /\ N(h, a, t + 1 - Window, t + 1) <= Limit
    <2>1. LetThroughBy(h, a, t)
      BY <1>0 DEF LetThroughBy
    <2>2. N(h, a, t + 1 - Window, t) <= N(h, a, t - Window, t)
      BY <1>0, Wider
    <2>3. N(h, a, t - Window, t) <= Limit
      BY <1>2 DEF CountsRight
    <2>4. N(h, a, t + 1 - Window, t) \in Nat /\ N(h, a, t - Window, t) \in Nat
      BY <1>0, PassedInFinite
    <2> QED
      BY <1>0, <1>1, <2>1, <2>2, <2>3, <2>4
  <1>3. ASSUME NEW a \in Address, a \in DOMAIN b
        PROVE  LET opened == b[a].reset - Window
               IN  opened <= t + 1 /\ N(h, a, opened, t + 1) = b[a].count
    BY <1>0, <1>1, <1>3, MapTypes DEF CountsRight
  <1>4. CountsRight(b, h, t + 1)
    BY <1>0, <1>2, <1>3 DEF CountsRight
  <1> QED
    BY <1>0, <1>4 DEF NothingLate

\* A request of `a` that was let through counts in the bucket of `a` only.
LEMMA PassedCounts ==
    ASSUME NEW h \in Seq(Served), NEW t \in Nat, NEW b, MapOK(b), NothingLate(h, t),
           CountsRight(b, h, t), Reaped(b, t),
           NEW a \in Address, ~Spent(b, a),
           NEW e \in Served, e.address = a, e.passed, e.at = t,
           NEW new, CountsIn(new, b, a, t)
    PROVE  MapOK(new) /\ CountsRight(new, Append(h, e), t) /\ Reaped(new, t)
  <1> DEFINE later == Append(h, e)
  <1>0. Window \in Nat /\ Limit \in Nat /\ Limit > 0
    BY GuardAssumption
  <1>1. /\ DOMAIN new = DOMAIN b \cup {a}
        /\ \A x \in DOMAIN b \ {a} : new[x] = b[x]
        /\ a \notin DOMAIN b => new[a] = [count |-> 1, reset |-> t + Window]
        /\ a \in DOMAIN b => new[a] = [count |-> b[a].count + 1, reset |-> b[a].reset]
    BY DEF CountsIn
  <1>2. /\ DOMAIN later = DOMAIN h \cup {Len(h) + 1}
        /\ \A i \in DOMAIN h : later[i] = h[i]
        /\ later[Len(h) + 1] = e
    OBVIOUS
  <1>3. \A x : \A from, to \in Int :
           /\ x = a /\ from <= t /\ t <= to => N(later, x, from, to) = N(h, x, from, to) + 1
           /\ ~(x = a /\ from <= t /\ t <= to) => N(later, x, from, to) = N(h, x, from, to)
    BY OneMore
  <1>4. \A x, time : x # a /\ LetThroughBy(h, x, time) => LetThroughBy(later, x, time)
    BY <1>2 DEF LetThroughBy
  <1> HIDE DEF later
  <1>5. MapOK(new) /\ Reaped(new, t)
    <2>1. CASE a \in DOMAIN b
      BY <1>0, <1>1, <2>1, MapTypes DEF MapOK, Bucket, Spent, Reaped
    <2>2. CASE a \notin DOMAIN b
      BY <1>0, <1>1, <2>2 DEF MapOK, Bucket, Reaped
    <2> QED
      BY <2>1, <2>2
  <1>6. ASSUME NEW x \in Address, x # a
        PROVE  IF x \in DOMAIN new
               THEN LET opened == new[x].reset - Window
                    IN  /\ opened <= t
                        /\ LetThroughBy(later, x, new[x].reset)
                        /\ N(later, x, opened, t) = new[x].count
                        /\ N(later, x, opened - Window, opened - 1) <= Limit
               ELSE LetThroughBy(later, x, t - 1) /\ N(later, x, t - Window, t) <= Limit
    BY <1>0, <1>1, <1>3, <1>4, <1>6, MapTypes DEF CountsRight
  <1>7. a \in DOMAIN new
    BY <1>1
  <1>8. LetThroughBy(later, a, new[a].reset)
    <2>1. \A i \in DOMAIN later : later[i].at <= t
      BY <1>2 DEF NothingLate
    <2>2. \A i \in DOMAIN later : later[i].at \in Nat
      BY <1>2, HistoryType DEF Served
    <2>3. t <= new[a].reset /\ new[a].reset \in Nat
      BY <1>5, <1>7, MapTypes DEF Reaped
    <2> QED
      BY <2>1, <2>2, <2>3 DEF LetThroughBy
  <1>9. LET opened == new[a].reset - Window
        IN  /\ opened <= t
            /\ N(later, a, opened, t) = new[a].count
            /\ N(later, a, opened - Window, opened - 1) <= Limit
    <2>1. CASE a \in DOMAIN b
      BY <1>0, <1>1, <1>3, <2>1, MapTypes DEF CountsRight
    <2>2. CASE a \notin DOMAIN b
      <3>1. new[a].reset - Window = t /\ new[a].count = 1
        BY <1>0, <1>1, <2>2
      <3>2. PassedIn(h, a, t, t) = {}
        BY <2>2, HistoryType DEF CountsRight, LetThroughBy, PassedIn
      <3>3. N(later, a, t, t) = 1
        <4>1. N(h, a, t, t) = 0
          BY <3>2, FS_EmptySet DEF N
        <4> QED
          BY <1>3, <4>1
      <3>4. N(h, a, t - Window, t) <= Limit
        BY <2>2 DEF CountsRight
      <3>5. N(h, a, t - Window, t - 1) <= N(h, a, t - Window, t)
        BY <1>0, Wider
      <3>6. N(h, a, t - Window, t - 1) \in Nat /\ N(h, a, t - Window, t) \in Nat
        BY <1>0, PassedInFinite
      <3>7. N(later, a, t - Window, t - 1) = N(h, a, t - Window, t - 1)
        BY <1>0, <1>3
      <3> QED
        BY <1>0, <3>1, <3>3, <3>4, <3>5, <3>6, <3>7
    <2> QED
      BY <2>1, <2>2
  <1>10. CountsRight(new, later, t)
    BY <1>6, <1>7, <1>8, <1>9 DEF CountsRight
  <1> QED
    BY <1>5, <1>10 DEF later

\* With a live bucket that is not spent, or none, there is room for one more
\* in every span of a window that reaches up to now.
LEMMA RoomForOne ==
    ASSUME NEW h \in Seq(Served), NEW t \in Nat, NEW b, MapOK(b), NothingLate(h, t),
           CountsRight(b, h, t), Reaped(b, t),
           NEW a \in Address, ~Spent(b, a),
           NEW from \in Nat, t <= from + Window
    PROVE  N(h, a, from, from + Window) + 1 <= 2 * Limit
  <1>0. /\ Window \in Nat /\ Limit \in Nat /\ Limit > 0
        /\ \A i \in DOMAIN h : h[i].at \in Nat /\ h[i].at <= t
    BY GuardAssumption, HistoryType DEF NothingLate
  <1>1. N(h, a, from, from + Window) <= N(h, a, t - Window, t)
    <2>1. PassedIn(h, a, from, from + Window) = PassedIn(h, a, from, t)
      BY <1>0 DEF PassedIn
    <2> QED
      BY <1>0, <2>1, Wider DEF N
  <1>2. N(h, a, from, from + Window) \in Nat /\ N(h, a, t - Window, t) \in Nat
    BY <1>0, PassedInFinite
  <1>3. CASE a \notin DOMAIN b
    BY <1>0, <1>1, <1>2, <1>3 DEF CountsRight
  <1>4. CASE a \in DOMAIN b
    <2> DEFINE opened == b[a].reset - Window
    <2>1. /\ opened \in Int /\ b[a].count \in Nat /\ b[a].count < Limit
          /\ opened <= t /\ t <= opened + Window
          /\ N(h, a, opened, t) = b[a].count
          /\ N(h, a, opened - Window, opened - 1) <= Limit
      BY <1>0, <1>4, MapTypes DEF CountsRight, Spent, Reaped
    <2> HIDE DEF opened
    <2>2. N(h, a, t - Window, t) <= N(h, a, t - Window, opened - 1) + N(h, a, opened, t)
      BY <1>0, <2>1, Covered
    <2>3. N(h, a, t - Window, opened - 1) <= N(h, a, opened - Window, opened - 1)
      BY <1>0, <2>1, Wider
    <2>4. /\ N(h, a, t - Window, opened - 1) \in Nat
          /\ N(h, a, opened - Window, opened - 1) \in Nat
      BY <1>0, <2>1, PassedInFinite
    <2>5. N(h, a, t - Window, opened - 1) <= Limit /\ N(h, a, opened, t) \in Nat
          /\ N(h, a, opened, t) + 1 <= Limit
      BY <1>0, <2>1, <2>3, <2>4
    <2>6. N(h, a, t - Window, t) + 1 <= Limit + Limit
      BY <1>0, <1>2, <2>2, <2>4, <2>5
    <2> QED
      BY <1>0, <1>1, <1>2, <2>6
  <1> QED
    BY <1>3, <1>4
-----------------------------------------------------------------------------
(* What a request does.                                                    *)

Entry(a, passed) == [address |-> a, at |-> now, passed |-> passed]

LEMMA EntryType ==
    ASSUME TypeOK, NEW a \in Address, NEW passed \in BOOLEAN
    PROVE  /\ Entry(a, passed) \in Served
           /\ Entry(a, passed).address = a /\ Entry(a, passed).at = now
  BY GuardAssumption DEF TypeOK, Entry, Served

\* The rightmost forwarded entry is the one the load balancer wrote.
LEMMA KeyIsAddress ==
    ASSUME NEW a \in Address, NEW forged \in {<<>>} \cup {<<f>> : f \in Address}
    PROVE  ClientIP(Append(forged, a)) = a
  <1>1. forged \in Seq(Address)
    <2>1. CASE forged = <<>>
      BY <2>1
    <2>2. ASSUME NEW f \in Address, forged = <<f>> PROVE forged \in Seq(Address)
      BY <2>2
    <2> QED
      BY <2>1, <2>2
  <1> QED
    BY <1>1 DEF ClientIP, Last

LEMMA RegisterSteps ==
    ASSUME NEW a \in Address, NEW forged \in {<<>>} \cup {<<f>> : f \in Address},
           NEW request \in Request, Register(a, forged, request)
    PROVE  LET live == Unexpired(buckets, now)
           IN  /\ now' = now
               /\ \/ /\ Spent(live, a)
                     /\ buckets' = live
                     /\ served' = Append(served, Entry(a, FALSE))
                     /\ clients' = clients
                  \/ /\ ~Spent(live, a)
                     /\ buckets' = Counted(live, a, now)
                     /\ served' = Append(served, Entry(a, TRUE))
                     /\ \/ clients' = clients
                        \/ /\ ValidRegistration(request)
                           /\ clients' = clients \cup {request.uris}
  BY KeyIsAddress DEF Register, Answered, Entry

LEMMA RequestURIs == \A request \in Request : request.uris \subseteq URI
  <1>1. \A scheme \in Scheme, host \in Host : Plain(scheme, host) \in URI
    BY DEF Plain, URI
  <1>2. \A u \in URI : [u EXCEPT !.fragment = TRUE] \in URI /\ [u EXCEPT !.long = TRUE] \in URI
    BY DEF URI
  <1>3. {"https", "http", "", "com.example.app", "javascript"} = Scheme
        /\ {"", "localhost", "example.com"} = Host
    BY DEF Scheme, Host
  <1>4. Plain("https", "example.com") \in URI
    BY <1>1, <1>3
  <1>5. GoodURIs \subseteq URI
    BY <1>1, <1>3 DEF GoodURIs
  <1>6. BadURIs \subseteq URI
    BY <1>1, <1>2, <1>3, <1>4 DEF BadURIs
  <1> QED
    BY <1>4, <1>5, <1>6 DEF Request

\* What a valid registration stores is safe to send a code to.
LEMMA ValidIsSafe ==
    ASSUME NEW request, ValidRegistration(request)
    PROVE  /\ request.uris # {}
           /\ \A u \in request.uris :
                 /\ u.scheme \notin {"", "javascript"} /\ ~u.fragment
                 /\ u.scheme = "http" => Loopback(u.host)
  BY DEF ValidRegistration, ValidRedirectURI, Dotted
-----------------------------------------------------------------------------
(* The invariant.                                                          *)

LEMMA GuardInit == Init => GuardInv
  <1> SUFFICES ASSUME Init PROVE GuardInv
    OBVIOUS
  <1>0. /\ now = 0 /\ DOMAIN buckets = {} /\ clients = {} /\ served = <<>>
        /\ Window \in Nat /\ Limit \in Nat /\ Limit > 0 /\ MaxTime \in Nat
    BY GuardAssumption DEF Init
  <1>1. TypeOK
    BY <1>0 DEF TypeOK
  <1>2. \A a, from, to : N(served, a, from, to) = 0
    <2>1. \A a, from, to : PassedIn(served, a, from, to) = {}
      BY <1>0 DEF PassedIn
    <2> QED
      BY <2>1, FS_EmptySet DEF N
  <1>3. NothingLate(served, now) /\ CountsRight(buckets, served, now)
    BY <1>0, <1>2 DEF NothingLate, CountsRight, LetThroughBy
  <1>4. RegistrationBudget
    BY <1>0, <1>2, PassedIsCount DEF RegistrationBudget
  <1>5. LimitIsEarned /\ BucketsAreReaped /\ RegisteredAreSafe
    BY <1>0 DEF LimitIsEarned, BucketsAreReaped, RegisteredAreSafe
  <1> QED
    BY <1>1, <1>3, <1>4, <1>5 DEF GuardInv

Stored(uris) ==
    /\ uris \subseteq URI /\ uris # {}
    /\ \A u \in uris :
          /\ u.scheme \notin {"", "javascript"} /\ ~u.fragment
          /\ u.scheme = "http" => Loopback(u.host)

\* An answer that there was room for, or that was earned, in a map whose
\* counts are right.
LEMMA AnswerHolds ==
    ASSUME GuardInv, NEW e \in Served, e.at = now, now' = now, served' = Append(served, e),
           MapOK(buckets'), CountsRight(buckets', served', now), Reaped(buckets', now),
           e.passed => \A from \in Nat : now <= from + Window =>
                          N(served, e.address, from, from + Window) + 1 <= 2 * Limit,
           ~e.passed => N(served, e.address, now - Window, now) >= Limit,
           \A uris \in clients' : uris \in clients \/ Stored(uris)
    PROVE  GuardInv'
  <1>0. /\ Window \in Nat /\ Limit \in Nat /\ Limit > 0 /\ now \in Nat /\ MaxTime \in Nat
        /\ served \in Seq(Served) /\ served' \in Seq(Served)
    BY GuardAssumption DEF GuardInv, TypeOK
  <1>1. /\ DOMAIN served' = DOMAIN served \cup {Len(served) + 1}
        /\ Len(served') = Len(served) + 1
        /\ \A i \in DOMAIN served : served'[i] = served[i]
        /\ served'[Len(served) + 1] = e
    BY <1>0
  <1>2. \A x : \A from, to \in Int :
           /\ x = e.address /\ e.passed /\ from <= now /\ now <= to =>
                 N(served', x, from, to) = N(served, x, from, to) + 1
           /\ ~(x = e.address /\ e.passed /\ from <= now /\ now <= to) =>
                 N(served', x, from, to) = N(served, x, from, to)
    BY <1>0, OneMore
  <1>3. \A x : \A from, to \in Int : N(served, x, from, to) <= N(served', x, from, to)
    BY <1>0, <1>2, PassedInFinite
  <1>10. \A x, from, to : Passed(x, from, to)' = N(served', x, from, to)
    BY DEF Passed, PassedIn, N
  <1>11. \A x : \A from, to \in Int :
            N(served, x, from, to) \in Nat /\ N(served', x, from, to) \in Nat
    <2>1. \A h \in Seq(Served) : \A x : \A from, to \in Int : N(h, x, from, to) \in Nat
      BY PassedInFinite
    <2> QED
      BY <1>0, <2>1
  <1>12. \A x : \A from, from2, to \in Int : from2 <= from =>
            N(served', x, from, to) <= N(served', x, from2, to)
    <2>1. \A h \in Seq(Served) : \A x : \A from, from2, to \in Int : from2 <= from =>
             N(h, x, from, to) <= N(h, x, from2, to)
      <3>1. ASSUME NEW h \in Seq(Served), NEW x, NEW from \in Int, NEW from2 \in Int,
                   NEW to \in Int, from2 <= from
            PROVE  N(h, x, from, to) <= N(h, x, from2, to)
        BY <3>1, Wider
      <3> QED
        BY <3>1
    <2>2. served' \in Seq(Served)
      BY <1>0
    <2> QED
      BY <2>1, <2>2, Zenon
  <1>4. TypeOK'
    BY <1>0 DEF GuardInv, TypeOK, MapOK, RegisteredAreSafe, Stored
  <1>5. NothingLate(served', now')
    BY <1>0, <1>1 DEF GuardInv, NothingLate
  <1>6. RegistrationBudget'
    <2>1. ASSUME NEW a \in Address, NEW from \in 0..MaxTime
          PROVE  N(served', a, from, from + Window) <= 2 * Limit
      <3>1. from \in Nat /\ from + Window \in Nat
        BY <1>0
      <3>2. N(served, a, from, from + Window) <= 2 * Limit
        BY PassedIsCount DEF GuardInv, RegistrationBudget
      <3>3. CASE a = e.address /\ e.passed /\ from <= now /\ now <= from + Window
        BY <1>2, <3>1, <3>3
      <3>4. CASE ~(a = e.address /\ e.passed /\ from <= now /\ now <= from + Window)
        BY <1>2, <3>1, <3>2, <3>4
      <3> QED
        BY <3>3, <3>4
    <2> QED
      BY <1>10, <2>1 DEF RegistrationBudget
  <1>7. LimitIsEarned'
    <2>1. ASSUME NEW i \in DOMAIN served', ~served'[i].passed
          PROVE  N(served', served'[i].address, served'[i].at - Window, served'[i].at) >= Limit
      <3>1. CASE i \in DOMAIN served
        <4>1. served'[i] = served[i] /\ served[i].at \in Nat
          BY <1>0, <1>1, <3>1, HistoryType
        <4> DEFINE v == served[i]
        <4>2. N(served, v.address, v.at - Window, v.at) >= Limit
          BY <2>1, <3>1, <4>1, PassedIsCount DEF GuardInv, LimitIsEarned
        <4>3. N(served, v.address, v.at - Window, v.at)
                 <= N(served', v.address, v.at - Window, v.at)
          BY <1>0, <1>3, <4>1
        <4>4. /\ N(served, v.address, v.at - Window, v.at) \in Nat
              /\ N(served', v.address, v.at - Window, v.at) \in Nat
          <5>1. v.at \in Int /\ v.at - Window \in Int
            BY <1>0, <4>1
          <5> HIDE DEF v
          <5> QED
            BY <1>11, <5>1
        <4> QED
          BY <1>0, <4>1, <4>2, <4>3, <4>4
      <3>2. CASE i = Len(served) + 1
        <4>1. served'[i] = e /\ ~e.passed
          BY <1>1, <2>1, <3>2
        <4> QED
          BY <1>0, <1>2, <4>1
      <3> QED
        BY <1>1, <3>1, <3>2
    <2> QED
      BY <1>10, <2>1 DEF LimitIsEarned
  <1>8. BucketsAreReaped'
    <2>1. Last(served') = e
      BY <1>0, <1>1 DEF Last
    <2>2. ASSUME NEW a \in DOMAIN buckets'
          PROVE  N(served', a, now - Window, now) > 0
      <3> DEFINE opened == buckets'[a].reset - Window
      <3>1. /\ a \in Address /\ buckets'[a].count \in Nat /\ buckets'[a].count > 0
            /\ buckets'[a].reset \in Nat /\ now <= buckets'[a].reset
        BY <1>0 DEF MapOK, Bucket, Reaped
      <3>2. N(served', a, opened, now) = buckets'[a].count
        BY <3>1 DEF CountsRight
      <3>3. N(served', a, opened, now) <= N(served', a, now - Window, now)
        <4>1. /\ opened \in Int /\ now - Window \in Int /\ now \in Int
              /\ now - Window <= opened
          BY <1>0, <3>1
        <4> HIDE DEF opened
        <4> QED
          BY <1>12, <4>1
      <3>4. N(served', a, now - Window, now) \in Nat
        BY <1>0, <1>11
      <3> QED
        BY <3>1, <3>2, <3>3, <3>4
    <2> QED
      BY <1>10, <2>1, <2>2 DEF BucketsAreReaped
  <1>9. RegisteredAreSafe'
    BY DEF GuardInv, RegisteredAreSafe, Stored
  <1> QED
    BY <1>4, <1>5, <1>6, <1>7, <1>8, <1>9 DEF GuardInv

LEMMA RegisterHolds ==
    ASSUME GuardInv, NEW a \in Address, NEW forged \in {<<>>} \cup {<<f>> : f \in Address},
           NEW request \in Request, Register(a, forged, request)
    PROVE  GuardInv'
  <1> DEFINE live == Unexpired(buckets, now)
             refusal == Entry(a, FALSE)
             admission == Entry(a, TRUE)
  <1>0. /\ served \in Seq(Served) /\ now \in Nat /\ MapOK(buckets)
        /\ NothingLate(served, now) /\ CountsRight(buckets, served, now)
        /\ Window \in Nat /\ Limit \in Nat
    BY GuardAssumption DEF GuardInv, TypeOK, MapOK
  <1>1. MapOK(live) /\ CountsRight(live, served, now) /\ Reaped(live, now)
    BY <1>0, ReapedCounts
  <1>2. /\ now' = now
        /\ \/ /\ Spent(live, a)
              /\ buckets' = live
              /\ served' = Append(served, refusal)
              /\ clients' = clients
           \/ /\ ~Spent(live, a)
              /\ buckets' = Counted(live, a, now)
              /\ served' = Append(served, admission)
              /\ \/ clients' = clients
                 \/ /\ ValidRegistration(request)
                    /\ clients' = clients \cup {request.uris}
    BY RegisterSteps
  <1>3. /\ refusal \in Served /\ refusal.address = a /\ refusal.at = now
        /\ admission \in Served /\ admission.address = a /\ admission.at = now
    BY EntryType DEF GuardInv
  <1>4. refusal.passed = FALSE /\ admission.passed = TRUE
    BY DEF Entry
  <1>5. \A uris \in clients' : uris \in clients \/ Stored(uris)
    <2>1. ValidRegistration(request) => Stored(request.uris)
      BY ValidIsSafe, RequestURIs DEF Stored
    <2> QED
      BY <1>2, <2>1
  <1> HIDE DEF live, refusal, admission
  <1>6. CASE Spent(live, a) /\ buckets' = live /\ served' = Append(served, refusal)
    <2>1. /\ \A x : \A from, to \in Int :
                N(Append(served, refusal), x, from, to) = N(served, x, from, to)
          /\ \A x, time : LetThroughBy(served, x, time) =>
                LetThroughBy(Append(served, refusal), x, time)
      BY <1>0, <1>3, <1>4, RefusedCounts
    <2>2. CountsRight(live, Append(served, refusal), now)
      <3>1. \A x \in DOMAIN live : live[x].reset \in Nat
        BY <1>1, MapTypes
      <3> QED
        BY <1>0, <1>1, <2>1, <3>1 DEF CountsRight
    <2>3. N(served, a, now - Window, now) >= Limit
      <3> DEFINE opened == live[a].reset - Window
      <3>1. a \in DOMAIN live /\ live[a].count >= Limit
        BY <1>6 DEF Spent
      <3>2. /\ live[a].reset \in Nat /\ now <= live[a].reset /\ live[a].count \in Nat
            /\ N(served, a, opened, now) = live[a].count
        BY <1>1, <3>1, MapTypes DEF CountsRight, Reaped
      <3>3. N(served, a, opened, now) <= N(served, a, now - Window, now)
        BY <1>0, <3>2, Wider
      <3>4. N(served, a, now - Window, now) \in Nat
        BY <1>0, PassedInFinite
      <3> QED
        BY <1>0, <3>1, <3>2, <3>3, <3>4
    <2> QED
      BY <1>1, <1>2, <1>3, <1>4, <1>5, <1>6, <2>2, <2>3, AnswerHolds
  <1>7. CASE ~Spent(live, a) /\ buckets' = Counted(live, a, now)
             /\ served' = Append(served, admission)
    <2>1. CountsIn(buckets', live, a, now)
      BY <1>0, <1>1, <1>7, CountedMap
    <2>2. /\ MapOK(buckets') /\ Reaped(buckets', now)
          /\ CountsRight(buckets', Append(served, admission), now)
      BY <1>0, <1>1, <1>3, <1>4, <1>7, <2>1, PassedCounts
    <2>3. ASSUME NEW from \in Nat, now <= from + Window
          PROVE  N(served, a, from, from + Window) + 1 <= 2 * Limit
      BY <1>0, <1>1, <1>7, <2>3, RoomForOne
    <2> QED
      BY <1>2, <1>3, <1>4, <1>5, <1>7, <2>2, <2>3, AnswerHolds
  <1> QED
    BY <1>2, <1>6, <1>7

LEMMA GuardNext == GuardInv /\ [Next]_vars => GuardInv'
  <1> SUFFICES ASSUME GuardInv, [Next]_vars PROVE GuardInv'
    OBVIOUS
  <1>1. CASE Tick
    <2>0. /\ now \in Nat /\ now' = now + 1 /\ now' \in 0..MaxTime
          /\ served \in Seq(Served) /\ MapOK(buckets)
          /\ buckets' = buckets /\ served' = served /\ clients' = clients
      BY <1>1, GuardAssumption DEF Tick, GuardInv, TypeOK, MapOK
    <2>1. NothingLate(served', now') /\ CountsRight(buckets', served', now')
      BY <2>0, TickCounts DEF GuardInv
    <2>2. TypeOK'
      BY <2>0 DEF GuardInv, TypeOK
    <2>3. (RegistrationBudget /\ LimitIsEarned /\ BucketsAreReaped /\ RegisteredAreSafe)'
      BY <2>0 DEF GuardInv, RegistrationBudget, LimitIsEarned, BucketsAreReaped,
         RegisteredAreSafe, Passed
    <2> QED
      BY <2>1, <2>2, <2>3 DEF GuardInv
  <1>2. CASE UNCHANGED vars
    <2>1. TypeOK' /\ NothingLate(served', now') /\ CountsRight(buckets', served', now')
      BY <1>2 DEF GuardInv, TypeOK, vars
    <2>2. (RegistrationBudget /\ LimitIsEarned /\ BucketsAreReaped /\ RegisteredAreSafe)'
      BY <1>2 DEF GuardInv, RegistrationBudget, LimitIsEarned, BucketsAreReaped,
         RegisteredAreSafe, Passed, vars
    <2> QED
      BY <2>1, <2>2 DEF GuardInv
  <1> QED
    BY <1>1, <1>2, RegisterHolds DEF Next

LEMMA GuardInvariance == Spec => []GuardInv
  BY GuardInit, GuardNext, PTL DEF Spec

\* Every variable keeps its type, and no bucket counts past the limit.
THEOREM GuardTypes == Spec => []TypeOK
  BY GuardInvariance, PTL DEF GuardInv

\* rateLimiter.allow: at most two budgets of an address pass in any span of
\* one window, for every limit, window and number of addresses.
THEOREM BudgetHolds == Spec => []RegistrationBudget
  BY GuardInvariance, PTL DEF GuardInv

\* rateLimiter.allow: an address is refused only on its own requests, all of
\* them let through within the window before.
THEOREM RefusalsAreEarned == Spec => []LimitIsEarned
  BY GuardInvariance, PTL DEF GuardInv

\* The reaping loop of allow(): the map holds only addresses that were let
\* through within the window before the last request.
THEOREM MapStaysSmall == Spec => []BucketsAreReaped
  BY GuardInvariance, PTL DEF GuardInv

\* validateRegistration and validateRedirectURI: nothing unsafe is stored.
THEOREM StoredClientsAreSafe == Spec => []RegisteredAreSafe
  BY GuardInvariance, PTL DEF GuardInv
=============================================================================
