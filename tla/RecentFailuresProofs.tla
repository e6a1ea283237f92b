------------------------ MODULE RecentFailuresProofs ------------------------
(***************************************************************************)
(* The promises of RecentFailures for any number of submissions, tests and *)
(* slots, any listings and any order in which the fetches end or fail.     *)
(*                                                                         *)
(* MergedUpTo is recursive.  What it computes follows by induction over    *)
(* the submissions, and the induction is over a set of numbers: the least  *)
(* number missing from the set would be 0 or follow a number that is there.*)
(***************************************************************************)
EXTENDS RecentFailures, FiniteSetTheorems, WellFoundedInduction, TLAPS

\* The submissions among the first n that were fetched and list a test.
FailedUpTo(id, n) == {i \in 1..n : results[i].ok /\ id \in Ids(results[i].tests)}

SeenUpTo(n) == {id \in Test : FailedUpTo(id, n) # {}}

\* The row of a test after the first n submissions.
RowUpTo(id, n) ==
    [id |-> id, count |-> Cardinality(FailedUpTo(id, n)), recent |-> Min(FailedUpTo(id, n)),
     place |-> FirstPlace(results[Min(FailedUpTo(id, n))].tests, id)]

RowsUpTo(n) == [id \in SeenUpTo(n) |-> RowUpTo(id, n)]

\* A stored answer is the listing of its submission.
StoredAsListed == \A i \in Submission : results[i].ok => results[i].tests = listed[i]

\* The tool answers once no goroutine is left.
AnswersLast == reply.done => \A i \in Submission : phase[i] = "done"

FetchInv ==
    /\ TypeOK
    /\ FanOutIsBounded
    /\ StoredAsListed
    /\ AnswersLast
    /\ RowsAreRight
    /\ OrderIsDetermined

LEMMA FanOutConstants ==
    /\ N \in Nat /\ Slots \in Nat /\ MaxTests \in Nat /\ Slots > 0
    /\ NameOf \in [Test -> Nat] /\ NoId \notin Test
  BY FanOutAssumption
-----------------------------------------------------------------------------
(* Induction over a set of numbers.                                        *)

LEMMA LeastOf ==
    ASSUME NEW S, S \subseteq Nat, S # {}
    PROVE  Min(S) \in S /\ \A m \in S : Min(S) <= m
  <1> DEFINE R == OpToRel(<, Nat)
  <1>1. IsWellFoundedOn(R, Nat)
    BY NatLessThanWellFounded
  <1>2. \A x, y \in Nat : x < y => <<x, y>> \in R
    BY DEF OpToRel
  <1> HIDE DEF R
  <1>3. PICK n \in S : \A y \in S : ~(<<y, n>> \in R)
    BY <1>1, WFMin
  <1>4. \A m \in S : ~(m < n)
    BY <1>2, <1>3
  <1>5. \A m \in S : n <= m
    BY <1>4
  <1> QED
    BY <1>5 DEF Min

LEMMA LeastUnique ==
    ASSUME NEW S, S \subseteq Nat, NEW n \in S, \A m \in S : n <= m
    PROVE  Min(S) = n
  <1>1. PICK k \in S : Min(S) = k /\ k <= n
    BY LeastOf
  <1>2. n <= k /\ n \in Nat /\ k \in Nat
    BY <1>1
  <1> QED
    BY <1>1, <1>2

LEMMA AllUpTo ==
    ASSUME NEW last \in Nat, NEW S, 0 \in S,
           \A n \in 1..last : n - 1 \in S => n \in S
    PROVE  0..last \subseteq S
  <1> SUFFICES ASSUME 0..last \ S # {} PROVE FALSE
    OBVIOUS
  <1> DEFINE left == 0..last \ S
  <1>1. left \subseteq Nat
    OBVIOUS
  <1>2. Min(left) \in left /\ \A m \in left : Min(left) <= m
    <2> HIDE DEF left
    <2> QED
      BY <1>1, LeastOf DEF left
  <1>3. PICK n \in left : \A m \in left : n <= m
    BY <1>2
  <1>4. n \in 1..last /\ n - 1 \in 0..last /\ n - 1 \notin left
    BY <1>3
  <1> QED
    BY <1>4
-----------------------------------------------------------------------------
(* Listings.                                                               *)

LEMMA ListingType ==
    ASSUME NEW tests \in Listing
    PROVE  /\ \E n \in Nat : DOMAIN tests = 1..n
           /\ \A j \in DOMAIN tests : tests[j] \in Test \cup {NoId}
           /\ Ids(tests) \subseteq Test
           /\ IsFiniteSet(Ids(tests))
  <1>1. PICK n \in 0..MaxTests : tests \in [1..n -> Test \cup {NoId}]
    BY DEF Listing
  <1>2. n \in Nat /\ DOMAIN tests = 1..n
        /\ \A j \in DOMAIN tests : tests[j] \in Test \cup {NoId}
    BY <1>1, FanOutConstants
  <1>3. Ids(tests) \subseteq Test
    BY <1>2 DEF Ids, ToSet
  <1>4. IsFiniteSet(ToSet(tests))
    <2>1. IsFiniteSet(1..n)
      BY <1>2, FS_Interval
    <2>2. tests \in Surjection(1..n, ToSet(tests))
      BY <1>1 DEF Surjection, ToSet
    <2> QED
      BY <2>1, <2>2, FS_Surjection
  <1>5. IsFiniteSet(Ids(tests))
    BY <1>4, FS_Subset DEF Ids
  <1> QED
    BY <1>2, <1>3, <1>5

\* The first place of a listed test.
LEMMA FirstPlaceIsFirst ==
    ASSUME NEW tests \in Listing, NEW id \in Ids(tests)
    PROVE  /\ FirstPlace(tests, id) \in Nat
           /\ tests[FirstPlace(tests, id)] = id
           /\ \A j \in 1..FirstPlace(tests, id) - 1 : tests[j] # id
  <1> DEFINE places == {j \in DOMAIN tests : tests[j] = id}
  <1>1. PICK n \in Nat : DOMAIN tests = 1..n
    BY ListingType
  <1>2. places \subseteq Nat /\ places # {}
    BY <1>1 DEF Ids, ToSet
  <1>3. Min(places) \in places /\ \A j \in places : Min(places) <= j
    <2> HIDE DEF places
    <2> QED
      BY <1>2, LeastOf
  <1>4. PICK p \in places : FirstPlace(tests, id) = p /\ \A j \in places : p <= j
    BY <1>3 DEF FirstPlace
  <1>5. p \in 1..n /\ tests[p] = id
    BY <1>1, <1>4
  <1>6. \A j \in 1..p - 1 : j \in DOMAIN tests /\ ~(p <= j)
    BY <1>1, <1>5
  <1> QED
    BY <1>4, <1>5, <1>6
-----------------------------------------------------------------------------
(* The merge.                                                              *)

LEMMA FailedUpToSubset ==
    ASSUME NEW id, NEW n \in Nat
    PROVE  /\ FailedUpTo(id, n) \subseteq Nat /\ IsFiniteSet(FailedUpTo(id, n))
           /\ FailedUpTo(id, n) \subseteq 1..n
  <1>1. FailedUpTo(id, n) \subseteq 1..n /\ IsFiniteSet(1..n)
    BY FS_Interval DEF FailedUpTo
  <1> QED
    BY <1>1, FS_Subset

\* One more submission: it is counted where it lists the test.
LEMMA FailedStep ==
    ASSUME NEW id, NEW n \in Nat, n > 0
    PROVE  /\ n \notin FailedUpTo(id, n - 1)
           /\ FailedUpTo(id, n) =
                 IF results[n].ok /\ id \in Ids(results[n].tests)
                 THEN FailedUpTo(id, n - 1) \cup {n} ELSE FailedUpTo(id, n - 1)
  <1>1. 1..n = 1..(n - 1) \cup {n} /\ n \notin 1..(n - 1)
    OBVIOUS
  <1> QED
    BY <1>1 DEF FailedUpTo

\* A row that is there keeps its sighting, a new one gets this one.
LEMMA RowStep ==
    ASSUME NEW id, NEW n \in Nat, n > 0, results[n].ok, id \in Ids(results[n].tests)
    PROVE  RowUpTo(id, n) =
              IF FailedUpTo(id, n - 1) # {}
              THEN [RowUpTo(id, n - 1) EXCEPT !.count = @ + 1]
              ELSE [id |-> id, count |-> 1, recent |-> n,
                    place |-> FirstPlace(results[n].tests, id)]
  <1> DEFINE before == FailedUpTo(id, n - 1)
             after == FailedUpTo(id, n)
  <1>1. n \notin before /\ after = before \cup {n}
    BY FailedStep
  <1>2. n - 1 \in Nat
    OBVIOUS
  <1>3. before \subseteq Nat /\ before \subseteq 1..(n - 1) /\ IsFiniteSet(before)
    BY <1>2, FailedUpToSubset
  <1> HIDE DEF before, after
  <1>4. Cardinality(after) = Cardinality(before) + 1
    BY <1>1, <1>3, FS_AddElement
  <1>5. after \subseteq Nat
    BY <1>1, <1>3
  <1>6. CASE before # {}
    <2>1. Min(before) \in before /\ \A m \in before : Min(before) <= m
      BY <1>3, <1>6, LeastOf
    <2>2. Min(before) \in after /\ Min(before) <= n
      <3>1. \A m \in 1..(n - 1) : m <= n
        OBVIOUS
      <3> QED
        BY <1>1, <1>3, <2>1, <3>1, Zenon
    <2>3. \A m \in after : Min(before) <= m
      BY <1>1, <2>1, <2>2
    <2>4. Min(after) = Min(before)
      BY <1>5, <2>2, <2>3, LeastUnique
    <2> QED
      BY <1>4, <1>6, <2>4 DEF RowUpTo, before, after
  <1>7. CASE before = {}
    <2>1. after = {n}
      BY <1>1, <1>7
    <2>2. Min(after) = n
      BY <1>5, <2>1, LeastUnique
    <2>3. Cardinality(after) = 1
      BY <2>1, FS_Singleton
    <2> QED
      BY <1>7, <2>2, <2>3 DEF RowUpTo, before, after
  <1> QED
    BY <1>6, <1>7 DEF before

LEMMA RowsStep ==
    ASSUME NEW n \in 1..N, results \in [Submission -> [ok : BOOLEAN, tests : Listing]]
    PROVE  RowsUpTo(n) = Merge(RowsUpTo(n - 1), n)
  <1> DEFINE tests == results[n].tests
             rows == RowsUpTo(n - 1)
  <1>1. n \in Nat /\ n > 0 /\ n - 1 \in Nat /\ n \in Submission
    BY FanOutConstants DEF Submission
  <1>2. tests \in Listing /\ Ids(tests) \subseteq Test
    BY <1>1, ListingType
  <1>3. DOMAIN rows = SeenUpTo(n - 1) /\ \A id \in SeenUpTo(n - 1) : rows[id] = RowUpTo(id, n - 1)
    BY DEF RowsUpTo
  <1>4. CASE results[n].ok
    <2>1. SeenUpTo(n) = SeenUpTo(n - 1) \cup Ids(tests)
      BY <1>1, <1>2, <1>4, FailedStep DEF SeenUpTo
    <2>2. ASSUME NEW id \in SeenUpTo(n)
          PROVE  RowUpTo(id, n) =
                    IF id \in SeenUpTo(n - 1)
                    THEN [rows[id] EXCEPT !.count = IF id \in Ids(tests) THEN @ + 1 ELSE @]
                    ELSE [id |-> id, count |-> 1, recent |-> n, place |-> FirstPlace(tests, id)]
      <3>1. id \in SeenUpTo(n - 1) <=> FailedUpTo(id, n - 1) # {}
        BY DEF SeenUpTo
      <3>2. CASE id \in Ids(tests)
        BY <1>1, <1>3, <1>4, <3>1, <3>2, RowStep
      <3>3. CASE id \notin Ids(tests)
        <4>1. FailedUpTo(id, n) = FailedUpTo(id, n - 1) /\ id \in SeenUpTo(n - 1)
          BY <1>1, <2>1, <3>3, FailedStep
        <4>2. RowUpTo(id, n) = rows[id]
          BY <1>3, <4>1 DEF RowUpTo
        <4>3. rows[id] = [rows[id] EXCEPT !.count = @]
          BY <1>3, <4>1 DEF RowUpTo
        <4> QED
          BY <3>3, <4>1, <4>2, <4>3
      <3> QED
        BY <3>2, <3>3
    <2> HIDE DEF rows, tests
    <2>3. RowsUpTo(n) = [id \in SeenUpTo(n - 1) \cup Ids(tests) |->
             IF id \in SeenUpTo(n - 1)
             THEN [rows[id] EXCEPT !.count = IF id \in Ids(tests) THEN @ + 1 ELSE @]
             ELSE [id |-> id, count |-> 1, recent |-> n, place |-> FirstPlace(tests, id)]]
      BY <2>1, <2>2 DEF RowsUpTo
    <2> QED
      BY <1>3, <1>4, <2>3 DEF Merge, MergeSubmission, rows, tests
  <1>5. CASE ~results[n].ok
    <2>1. \A id : FailedUpTo(id, n) = FailedUpTo(id, n - 1)
      BY <1>1, <1>5, FailedStep
    <2> QED
      BY <1>5, <2>1 DEF RowsUpTo, SeenUpTo, RowUpTo, Merge
  <1> QED
    BY <1>4, <1>5, <1>1 DEF Submission

\* The loop computes the rows of their declarative definition.
LEMMA MergedIsRows ==
    ASSUME results \in [Submission -> [ok : BOOLEAN, tests : Listing]]
    PROVE  Merged = RowsUpTo(N)
  <1> DEFINE G(f) == [n \in 0..N |-> IF n = 0 THEN <<>> ELSE Merge(f[n - 1], n)]
             rows == [n \in 0..N |-> RowsUpTo(n)]
  <1>1. RowsUpTo(0) = <<>>
    <2>1. SeenUpTo(0) = {}
      BY DEF SeenUpTo, FailedUpTo
    <2> QED
      BY <2>1 DEF RowsUpTo
  <1>2. \A n \in 1..N : RowsUpTo(n) = Merge(RowsUpTo(n - 1), n)
    BY RowsStep
  <1>3. rows = G(rows)
    <2>1. ASSUME NEW n \in 0..N, n # 0
          PROVE  RowsUpTo(n) = Merge(rows[n - 1], n)
      <3>1. n \in 1..N /\ n - 1 \in 0..N
        BY <2>1, FanOutConstants
      <3> QED
        BY <1>2, <3>1
    <2> QED
      BY <1>1, <2>1
  <1>4. MergedUpTo = G(MergedUpTo)
    <2>1. MergedUpTo = CHOOSE f : f = G(f)
      BY DEF MergedUpTo
    <2> HIDE DEF G, rows
    <2> QED
      BY <1>3, <2>1
  <1>5. \A n \in 0..N : MergedUpTo[n] = IF n = 0 THEN <<>> ELSE Merge(MergedUpTo[n - 1], n)
    <2> DEFINE f == MergedUpTo
    <2>1. f = G(f)
      BY <1>4
    <2> HIDE DEF f
    <2>2. \A n \in 0..N : f[n] = IF n = 0 THEN <<>> ELSE Merge(f[n - 1], n)
      BY <2>1
    <2> QED
      BY <2>2 DEF f
  <1> DEFINE S == {n \in 0..N : MergedUpTo[n] = RowsUpTo(n)}
  <1>6. 0 \in S
    BY <1>1, <1>5, FanOutConstants
  <1>7. ASSUME NEW n \in 1..N, n - 1 \in S PROVE n \in S
    <2>1. n \in 0..N /\ n # 0
      BY FanOutConstants
    <2>2. MergedUpTo[n] = Merge(RowsUpTo(n - 1), n)
      BY <1>5, <1>7, <2>1
    <2> QED
      BY <1>2, <2>1, <2>2
  <1>8. 0..N \subseteq S
    <2> HIDE DEF S
    <2> QED
      BY <1>6, <1>7, AllUpTo, FanOutConstants
  <1> QED
    BY <1>8, FanOutConstants DEF Merged

LEMMA SeenIsFinite ==
    ASSUME results \in [Submission -> [ok : BOOLEAN, tests : Listing]]
    PROVE  IsFiniteSet(SeenUpTo(N))
  <1> DEFINE S == {n \in 0..N : IsFiniteSet(SeenUpTo(n))}
  <1>1. 0 \in S
    <2>1. SeenUpTo(0) = {}
      BY DEF SeenUpTo, FailedUpTo
    <2> QED
      <3>1. IsFiniteSet(SeenUpTo(0))
        BY <2>1, FS_EmptySet
      <3>2. 0 \in 0..N
        BY FanOutConstants
      <3> QED
        BY <3>1, <3>2
  <1>2. ASSUME NEW n \in 1..N, n - 1 \in S PROVE n \in S
    <2>1. n \in 0..N /\ n \in Nat /\ n > 0 /\ n \in Submission
      BY FanOutConstants DEF Submission
    <2>2. IsFiniteSet(Ids(results[n].tests))
      BY <2>1, ListingType
    <2>3. IsFiniteSet(SeenUpTo(n - 1) \cup Ids(results[n].tests))
      BY <1>2, <2>2, FS_Union
    <2>4. SeenUpTo(n) \subseteq SeenUpTo(n - 1) \cup Ids(results[n].tests)
      BY <2>1, FailedStep DEF SeenUpTo
    <2>5. IsFiniteSet(SeenUpTo(n))
      BY <2>3, <2>4, FS_Subset
    <2> QED
      BY <2>1, <2>5
  <1>3. 0..N \subseteq S
    <2> HIDE DEF S
    <2> QED
      BY <1>1, <1>2, AllUpTo, FanOutConstants
  <1> QED
    BY <1>3, FanOutConstants

\* A ranked order has every row once.
LEMMA RankedOnce ==
    ASSUME NEW rows, IsFiniteSet(rows), NEW s \in Ranked(rows)
    PROVE  /\ s \in Seq(rows) /\ Len(s) \in Nat /\ DOMAIN s = 1..Len(s)
           /\ {s[k] : k \in DOMAIN s} = rows
           /\ \A k, m \in DOMAIN s : s[k] = s[m] => k = m
           /\ \A k, m \in DOMAIN s : k < m => Before(s[k], s[m])
  <1> DEFINE n == Cardinality(rows)
  <1>1. n \in Nat
    BY FS_CardinalityType
  <1>2. /\ s \in [1..n -> rows] /\ {s[k] : k \in DOMAIN s} = rows
        /\ \A k, m \in DOMAIN s : k < m => Before(s[k], s[m])
    BY DEF Ranked, ToSet
  <1> HIDE DEF n
  <1>3. s \in Seq(rows) /\ Len(s) = n /\ DOMAIN s = 1..n
    BY <1>1, <1>2
  <1>4. s \in Surjection(1..n, rows)
    BY <1>2 DEF Surjection
  <1>5. IsFiniteSet(1..n) /\ Cardinality(1..n) = n
    BY <1>1, FS_Interval
  <1>6. s \in Injection(1..n, rows)
    BY <1>4, <1>5, FS_SurjSameCardinalityImpliesInj DEF n
  <1>7. \A k, m \in 1..n : s[k] = s[m] => k = m
    BY <1>6 DEF Injection, IsInjective
  <1> QED
    BY <1>1, <1>2, <1>3, <1>7
-----------------------------------------------------------------------------
(* The invariant.                                                          *)

\* The fetched submissions that list a test, read off the answers.
LEMMA FailedInIsUpTo ==
    ASSUME StoredAsListed, NEW id
    PROVE  FailedIn(id) = FailedUpTo(id, N)
  BY DEF StoredAsListed, FailedIn, FailedUpTo, Submission

\* What the row of a failed test says.
LEMMA RowIsRight ==
    ASSUME TypeOK, StoredAsListed, NEW id \in SeenUpTo(N)
    PROVE  /\ RowUpTo(id, N) \in Row /\ RowUpTo(id, N).id = id
           /\ RowUpTo(id, N).count = Cardinality(FailedIn(id))
           /\ RowUpTo(id, N).recent = Min(FailedIn(id))
           /\ listed[RowUpTo(id, N).recent][RowUpTo(id, N).place] = id
           /\ \A j \in 1..RowUpTo(id, N).place - 1 : listed[RowUpTo(id, N).recent][j] # id
  <1> DEFINE failed == FailedUpTo(id, N)
             first == Min(failed)
  <1>1. failed \subseteq Nat /\ failed \subseteq 1..N /\ IsFiniteSet(failed) /\ failed # {}
        /\ id \in Test
    BY FailedUpToSubset, FanOutConstants DEF SeenUpTo
  <1>2. failed = FailedIn(id)
    BY FailedInIsUpTo
  <1>3. first \in failed
    <2> HIDE DEF failed
    <2> QED
      BY <1>1, LeastOf
  <1>4. first \in Submission /\ results[first].ok /\ id \in Ids(results[first].tests)
    BY <1>3 DEF FailedUpTo, Submission
  <1>5. results[first].tests \in Listing /\ results[first].tests = listed[first]
    BY <1>4 DEF TypeOK, StoredAsListed
  <1>6. Cardinality(failed) \in Nat
    BY <1>1, FS_CardinalityType
  <1>7. RowUpTo(id, N) = [id |-> id, count |-> Cardinality(failed), recent |-> first,
                          place |-> FirstPlace(listed[first], id)]
    BY <1>5 DEF RowUpTo
  <1> HIDE DEF failed, first
  <1>8. /\ FirstPlace(listed[first], id) \in Nat
        /\ listed[first][FirstPlace(listed[first], id)] = id
        /\ \A j \in 1..FirstPlace(listed[first], id) - 1 : listed[first][j] # id
    BY <1>4, <1>5, FirstPlaceIsFirst
  <1>9. RowUpTo(id, N) \in Row
    BY <1>1, <1>4, <1>6, <1>7, <1>8 DEF Row
  <1> QED
    BY <1>2, <1>7, <1>8, <1>9 DEF first

LEMMA FetchInit == Init => FetchInv
  <1> SUFFICES ASSUME Init PROVE FetchInv
    OBVIOUS
  <1>1. /\ listed \in [Submission -> Listing] /\ phase = [i \in Submission |-> "waiting"]
        /\ sem = 0 /\ results = [i \in Submission |-> NotFetched] /\ reply = NoReply
    BY DEF Init
  <1>2. {i \in Submission : phase[i] = "fetching"} = {}
    BY <1>1
  <1>3. Cardinality({i \in Submission : phase[i] = "fetching"}) = 0
    BY <1>2, FS_EmptySet
  <1>4. <<>> \in Listing
    <2>1. <<>> \in [1..0 -> Test \cup {NoId}] /\ 0 \in 0..MaxTests
      BY FanOutConstants
    <2> QED
      BY <2>1 DEF Listing
  <1>5. TypeOK
    <2>1. NotFetched \in [ok : BOOLEAN, tests : Listing]
      BY <1>4 DEF NotFetched
    <2>2. NoReply \in [done : BOOLEAN, inspected : 0..N, rows : Seq(Row)]
      BY FanOutConstants DEF NoReply
    <2> QED
      BY <1>1, <1>3, <2>1, <2>2 DEF TypeOK
  <1>6. FanOutIsBounded
    BY <1>3, FanOutConstants DEF FanOutIsBounded
  <1>7. StoredAsListed
    BY <1>1 DEF StoredAsListed, NotFetched
  <1>8. AnswersLast /\ RowsAreRight /\ OrderIsDetermined
    BY <1>1 DEF AnswersLast, RowsAreRight, OrderIsDetermined, NoReply
  <1> QED
    BY <1>5, <1>6, <1>7, <1>8 DEF FetchInv

\* While a goroutine is left the tool has not answered.
LEMMA NotAnswered ==
    ASSUME FetchInv, NEW i \in Submission, phase[i] # "done"
    PROVE  ~reply.done
  BY DEF FetchInv, AnswersLast

\* The slots in use, as goroutines take and give them back.
LEMMA SlotTaken ==
    ASSUME FetchInv, NEW i \in Submission, phase[i] = "waiting",
           phase' = [phase EXCEPT ![i] = "fetching"]
    PROVE  /\ Cardinality({j \in Submission : phase'[j] = "fetching"}) = sem + 1
           /\ phase' \in [Submission -> {"waiting", "fetching", "done"}]
           /\ sem \in Nat
  <1> DEFINE busy == {j \in Submission : phase[j] = "fetching"}
             later == {j \in Submission : phase'[j] = "fetching"}
  <1>1. phase \in [Submission -> {"waiting", "fetching", "done"}] /\ sem = Cardinality(busy)
    BY DEF FetchInv, TypeOK
  <1>2. busy \subseteq 1..N /\ IsFiniteSet(1..N)
    BY FS_Interval, FanOutConstants DEF Submission
  <1>3. IsFiniteSet(busy)
    BY <1>2, FS_Subset
  <1>4. later = busy \cup {i} /\ i \notin busy
    BY <1>1
  <1> HIDE DEF busy, later
  <1>5. Cardinality(later) = sem + 1 /\ sem \in Nat
    BY <1>1, <1>3, <1>4, FS_AddElement, FS_CardinalityType
  <1> QED
    BY <1>1, <1>5 DEF later

LEMMA SlotReleased ==
    ASSUME FetchInv, NEW i \in Submission, phase[i] = "fetching",
           phase' = [phase EXCEPT ![i] = "done"]
    PROVE  /\ Cardinality({j \in Submission : phase'[j] = "fetching"}) = sem - 1
           /\ phase' \in [Submission -> {"waiting", "fetching", "done"}]
           /\ sem \in Nat
  <1> DEFINE busy == {j \in Submission : phase[j] = "fetching"}
             later == {j \in Submission : phase'[j] = "fetching"}
  <1>1. phase \in [Submission -> {"waiting", "fetching", "done"}] /\ sem = Cardinality(busy)
    BY DEF FetchInv, TypeOK
  <1>2. busy \subseteq 1..N /\ IsFiniteSet(1..N)
    BY FS_Interval, FanOutConstants DEF Submission
  <1>3. IsFiniteSet(busy)
    BY <1>2, FS_Subset
  <1>4. later = busy \ {i} /\ i \in busy
    BY <1>1
  <1> HIDE DEF busy, later
  <1>5. Cardinality(later) = sem - 1 /\ sem \in Nat
    BY <1>1, <1>3, <1>4, FS_RemoveElement, FS_CardinalityType
  <1> QED
    BY <1>1, <1>5 DEF later

LEMMA AcquireHolds ==
    ASSUME FetchInv, NEW i \in Submission, Acquire(i)
    PROVE  FetchInv'
  <1>1. /\ phase[i] = "waiting" /\ sem < Slots /\ phase' = [phase EXCEPT ![i] = "fetching"]
        /\ sem' = sem + 1 /\ listed' = listed /\ results' = results /\ reply' = reply
    BY DEF Acquire
  <1>2. /\ Cardinality({j \in Submission : phase'[j] = "fetching"}) = sem + 1
        /\ phase' \in [Submission -> {"waiting", "fetching", "done"}] /\ sem \in Nat
    BY <1>1, SlotTaken
  <1>3. ~reply.done
    BY <1>1, NotAnswered
  <1>4. TypeOK'
    BY <1>1, <1>2 DEF FetchInv, TypeOK
  <1>5. FanOutIsBounded'
    BY <1>1, <1>2, FanOutConstants DEF FanOutIsBounded
  <1>6. StoredAsListed'
    BY <1>1 DEF FetchInv, StoredAsListed
  <1>7. (AnswersLast /\ RowsAreRight /\ OrderIsDetermined)'
    BY <1>1, <1>3 DEF AnswersLast, RowsAreRight, OrderIsDetermined
  <1> QED
    BY <1>4, <1>5, <1>6, <1>7 DEF FetchInv

\* An answer that arrives or fails: the slot is released.
LEMMA ReleaseHolds ==
    ASSUME FetchInv, NEW i \in Submission, Deliver(i) \/ Skip(i)
    PROVE  FetchInv'
  <1>1. /\ phase[i] = "fetching" /\ phase' = [phase EXCEPT ![i] = "done"]
        /\ sem' = sem - 1 /\ listed' = listed /\ reply' = reply
        /\ \/ results' = results
           \/ results' = [results EXCEPT ![i] = [ok |-> TRUE, tests |-> listed[i]]]
    BY DEF Deliver, Skip
  <1>2. /\ Cardinality({j \in Submission : phase'[j] = "fetching"}) = sem - 1
        /\ phase' \in [Submission -> {"waiting", "fetching", "done"}] /\ sem \in Nat
    BY <1>1, SlotReleased
  <1>3. ~reply.done
    BY <1>1, NotAnswered
  <1>4. TypeOK'
    <2>1. results' \in [Submission -> [ok : BOOLEAN, tests : Listing]]
      <3>1. results \in [Submission -> [ok : BOOLEAN, tests : Listing]] /\ listed[i] \in Listing
        BY DEF FetchInv, TypeOK
      <3>2. [ok |-> TRUE, tests |-> listed[i]] \in [ok : BOOLEAN, tests : Listing]
        BY <3>1
      <3> QED
        BY <1>1, <3>1, <3>2
    <2> QED
      BY <1>1, <1>2, <2>1 DEF FetchInv, TypeOK
  <1>5. FanOutIsBounded'
    <2>1. sem <= Slots
      BY DEF FetchInv, TypeOK, FanOutIsBounded
    <2> QED
      BY <1>1, <1>2, <2>1, FanOutConstants DEF FanOutIsBounded
  <1>6. StoredAsListed'
    BY <1>1 DEF FetchInv, TypeOK, StoredAsListed
  <1>7. (AnswersLast /\ RowsAreRight /\ OrderIsDetermined)'
    BY <1>1, <1>3 DEF AnswersLast, RowsAreRight, OrderIsDetermined
  <1> QED
    BY <1>4, <1>5, <1>6, <1>7 DEF FetchInv

LEMMA FirstNumbers ==
    ASSUME NEW n \in Nat
    PROVE  IsFiniteSet(1..n) /\ Cardinality(1..n) = n
  BY FS_Interval

\* In a sequence that has every failed test once and none before one that
\* outranks it, each stands at a place that is left to it.
LEMMA RankedPlaces ==
    ASSUME NEW rows, NEW s, Len(s) \in Nat, DOMAIN s = 1..Len(s), s \in [1..Len(s) -> rows],
           {s[k].id : k \in DOMAIN s} = Failed,
           \A k, m \in DOMAIN s : s[k].id = s[m].id => k = m,
           \A k, m \in DOMAIN s : k < m => ~Outranks(s[m].id, s[k].id),
           \A k \in DOMAIN s : ~Outranks(s[k].id, s[k].id),
           NEW k \in DOMAIN s
    PROVE  Placed(s[k].id, k)
  <1> DEFINE own == s[k].id
             above == {id \in Failed : Outranks(id, own)}
             notBelow == {id \in Failed : ~Outranks(own, id)}
             ids(n) == {s[m].id : m \in 1..n}
  <1>1. k \in Nat /\ k > 0 /\ 1..k \subseteq DOMAIN s /\ 1..k - 1 \subseteq DOMAIN s
    OBVIOUS
  <1>2. ASSUME NEW n \in Nat, 1..n \subseteq DOMAIN s
        PROVE  IsFiniteSet(ids(n)) /\ Cardinality(ids(n)) = n
    <2> DEFINE f == [m \in 1..n |-> s[m].id]
    <2>1. f \in Bijection(1..n, ids(n))
      BY <1>2 DEF Bijection, Injection, Surjection, IsInjective
    <2>2. IsFiniteSet(1..n) /\ Cardinality(1..n) = n
      BY FirstNumbers
    <2> DEFINE image == ids(n)
    <2>3. f \in Bijection(1..n, image)
      BY <2>1
    <2> HIDE DEF f, ids, image
    <2>4. IsFiniteSet(image) /\ Cardinality(image) = Cardinality(1..n)
      <3>1. ExistsBijection(1..n, image)
        BY <2>3 DEF ExistsBijection
      <3> QED
        BY <2>2, <3>1, FS_Bijection
    <2> QED
      BY <2>2, <2>4 DEF image
  <1>3. IsFiniteSet(Failed)
    <2>1. ids(Len(s)) = Failed
      OBVIOUS
    <2> QED
      BY <1>2, <2>1
  <1>4. above \subseteq ids(k - 1)
    <2> SUFFICES ASSUME NEW m \in DOMAIN s, Outranks(s[m].id, own) PROVE m \in 1..k - 1
      OBVIOUS
    <2>1. ~(k < m) /\ m # k
      OBVIOUS
    <2> QED
      BY <1>1, <2>1
  <1>5. ids(k) \subseteq notBelow
    <2> SUFFICES ASSUME NEW m \in 1..k PROVE s[m].id \in Failed /\ ~Outranks(own, s[m].id)
      OBVIOUS
    <2>1. m \in DOMAIN s /\ (m = k \/ m < k)
      BY <1>1
    <2> QED
      BY <2>1
  <1>6. /\ IsFiniteSet(ids(k - 1)) /\ Cardinality(ids(k - 1)) = k - 1
        /\ Cardinality(ids(k)) = k
    <2>1. k - 1 \in Nat
      BY <1>1
    <2> HIDE DEF ids
    <2> QED
      BY <1>1, <1>2, <2>1
  <1>7. Cardinality(above) <= k - 1 /\ Cardinality(above) \in Nat
    <2> HIDE DEF above, ids
    <2> QED
      BY <1>4, <1>6, FS_Subset, FS_CardinalityType
  <1>8. k <= Cardinality(notBelow)
    <2>1. IsFiniteSet(notBelow)
      BY <1>3, FS_Subset
    <2> HIDE DEF notBelow, ids
    <2> QED
      BY <1>5, <1>6, <2>1, FS_Subset
  <1> QED
    BY <1>1, <1>7, <1>8 DEF Placed

LEMMA FinishHolds ==
    ASSUME FetchInv, Finish
    PROVE  FetchInv'
  <1> DEFINE rows == {Merged[id] : id \in DOMAIN Merged}
  <1>1. /\ \A i \in Submission : phase[i] = "done"
        /\ UNCHANGED <<listed, phase, sem, results>>
    BY DEF Finish
  <1>2. PICK s \in Ranked(rows) : reply' = [done |-> TRUE, inspected |-> N, rows |-> s]
    BY DEF Finish
  <1>3. TypeOK /\ StoredAsListed /\ results \in [Submission -> [ok : BOOLEAN, tests : Listing]]
    BY DEF FetchInv, TypeOK
  <1>4. rows = {RowUpTo(id, N) : id \in SeenUpTo(N)}
    BY <1>3, MergedIsRows DEF RowsUpTo
  <1>5. IsFiniteSet(rows)
    <2>1. IsFiniteSet(SeenUpTo(N))
      BY <1>3, SeenIsFinite
    <2>2. RowsUpTo(N) \in Surjection(SeenUpTo(N), rows)
      BY <1>4 DEF RowsUpTo, Surjection
    <2> HIDE DEF rows
    <2> QED
      BY <2>1, <2>2, FS_Surjection
  <1> HIDE DEF rows
  <1>6. /\ s \in Seq(rows) /\ Len(s) \in Nat /\ DOMAIN s = 1..Len(s)
        /\ {s[k] : k \in DOMAIN s} = rows
        /\ \A k, m \in DOMAIN s : s[k] = s[m] => k = m
        /\ \A k, m \in DOMAIN s : k < m => Before(s[k], s[m])
    BY <1>2, <1>5, RankedOnce
  <1>7. ASSUME NEW r \in rows
        PROVE  /\ r \in Row /\ r.id \in SeenUpTo(N) /\ r = RowUpTo(r.id, N)
               /\ r.count = Cardinality(FailedIn(r.id)) /\ r.recent = Min(FailedIn(r.id))
               /\ listed[r.recent][r.place] = r.id
               /\ \A j \in 1..r.place - 1 : listed[r.recent][j] # r.id
    <2>1. PICK id \in SeenUpTo(N) : r = RowUpTo(id, N)
      BY <1>4
    <2> QED
      BY <1>3, <2>1, RowIsRight
  <1>8. \A k \in DOMAIN s : s[k] \in rows
    BY <1>6
  <1>9. TypeOK'
    <2>1. rows \subseteq Row /\ N \in 0..N
      BY <1>7, FanOutConstants
    <2>2. s \in Seq(Row)
      BY <1>6, <2>1
    <2> QED
      BY <1>1, <1>2, <1>3, <2>1, <2>2 DEF TypeOK
  <1>10. FanOutIsBounded' /\ StoredAsListed' /\ AnswersLast'
    BY <1>1 DEF FetchInv, FanOutIsBounded, StoredAsListed, AnswersLast
  <1>11. (\A id : FailedIn(id)' = FailedIn(id)) /\ Failed' = Failed
    BY <1>1 DEF FailedIn, Failed
  <1>12. RowsAreRight'
    <2>1. {s[k].id : k \in DOMAIN s} = Failed
      <3>1. \A id \in SeenUpTo(N) : RowUpTo(id, N) \in rows /\ RowUpTo(id, N).id = id
        BY <1>3, <1>4, RowIsRight
      <3>2. {r.id : r \in rows} = SeenUpTo(N)
        BY <1>7, <3>1
      <3>3. SeenUpTo(N) = Failed
        BY <1>3, FailedInIsUpTo DEF SeenUpTo, Failed
      <3>4. {s[k].id : k \in DOMAIN s} = {r.id : r \in rows}
        BY <1>6
      <3> QED
        BY <3>2, <3>3, <3>4
    <2>2. \A k, m \in DOMAIN s : s[k].id = s[m].id => k = m
      BY <1>6, <1>7, <1>8
    <2>3. reply'.rows = s
      BY <1>2
    <2> QED
      BY <1>1, <1>7, <1>8, <1>11, <2>1, <2>2, <2>3 DEF RowsAreRight
  <1>13. OrderIsDetermined'
    <2>1. s \in [1..Len(s) -> rows] /\ {s[k].id : k \in DOMAIN s} = Failed
          /\ \A k, m \in DOMAIN s : s[k].id = s[m].id => k = m
      BY <1>2, <1>6, <1>7, <1>8, <1>11, <1>12 DEF RowsAreRight
    <2>2. \A k, m \in DOMAIN s : k < m => ~Outranks(s[m].id, s[k].id)
      <3>1. \A r, q \in rows : Before(r, q) => ~Outranks(q.id, r.id)
        <4>1. \A r \in rows : /\ r.count \in Nat /\ r.id \in Test /\ NameOf[r.id] \in Nat
                              /\ r.count = Cardinality(FailedIn(r.id))
          BY <1>7, FanOutConstants DEF Row
        <4> QED
          BY <4>1 DEF Before, Outranks
      <3> QED
        BY <1>6, <1>8, <3>1
    <2>3. \A k \in DOMAIN s : ~Outranks(s[k].id, s[k].id)
      <3>1. \A k \in DOMAIN s : /\ Cardinality(FailedIn(s[k].id)) \in Nat
                                /\ NameOf[s[k].id] \in Nat
        BY <1>7, <1>8, FanOutConstants DEF Row
      <3> QED
        BY <3>1 DEF Outranks
    <2>4. ASSUME NEW k \in DOMAIN s PROVE Placed(s[k].id, k)
      BY <1>6, <2>1, <2>2, <2>3, <2>4, RankedPlaces
    <2> QED
      BY <1>2, <1>11, <2>4 DEF OrderIsDetermined, Placed, Outranks
  <1> QED
    BY <1>9, <1>10, <1>12, <1>13 DEF FetchInv

LEMMA FetchNext == FetchInv /\ [Next]_vars => FetchInv'
  <1> SUFFICES ASSUME FetchInv, [Next]_vars PROVE FetchInv'
    OBVIOUS
  <1>1. CASE \E i \in Submission : Fetch(i)
    BY <1>1, AcquireHolds, ReleaseHolds DEF Fetch
  <1>2. CASE Finish
    BY <1>2, FinishHolds
  <1>3. CASE UNCHANGED vars
    <2>1. (\A id : FailedIn(id)' = FailedIn(id)) /\ Failed' = Failed
      BY <1>3 DEF FailedIn, Failed, vars
    <2>2. RowsAreRight'
      BY <1>3, <2>1 DEF FetchInv, RowsAreRight, vars
    <2>3. OrderIsDetermined'
      BY <1>3, <2>1 DEF FetchInv, OrderIsDetermined, Placed, Outranks, vars
    <2> QED
      BY <1>3, <2>2, <2>3 DEF FetchInv, TypeOK, FanOutIsBounded, StoredAsListed, AnswersLast, vars
  <1> QED
    BY <1>1, <1>2, <1>3 DEF Next

LEMMA FetchInvariance == Spec => []FetchInv
  BY FetchInit, FetchNext, PTL DEF Spec

\* Every variable has its type and the semaphore counts the goroutines that are
\* fetching: each way out of getRecentFailures' goroutine gives its slot back.
THEOREM FetchTypes == Spec => []TypeOK
  <1>1. FetchInv => TypeOK
    BY DEF FetchInv
  <1> QED
    BY <1>1, FetchInvariance, PTL

\* A call of the tool has at most maxConcurrentFetches requests under way,
\* however many submissions are listed.
THEOREM FetchesAreBounded == Spec => []FanOutIsBounded
  <1>1. FetchInv => FanOutIsBounded
    BY DEF FetchInv
  <1> QED
    BY <1>1, FetchInvariance, PTL

\* The loop over the results, whatever the order in which they came, answers
\* exactly the tests that failed in a fetched submission, each once, with its
\* count and its most recent sighting.
THEOREM MergeIsRight == Spec => []RowsAreRight
  <1>1. FetchInv => RowsAreRight
    BY DEF FetchInv
  <1> QED
    BY <1>1, FetchInvariance, PTL

\* After sortRecentFailures every row stands at a place that the counts and the
\* names leave to its test, in whatever order the map gave the rows.
THEOREM RankingIsDetermined == Spec => []OrderIsDetermined
  <1>1. FetchInv => OrderIsDetermined
    BY DEF FetchInv
  <1> QED
    BY <1>1, FetchInvariance, PTL

\* Two tests to which the same place is left share both count and name: the
\* answers that two orders of the map give to the same fetches differ, row by
\* row, at most between such tests.
THEOREM OnePlaceOneTie ==
    ASSUME FetchInv, NEW a \in Failed, NEW b \in Failed, NEW k \in Nat,
           Placed(a, k), Placed(b, k)
    PROVE  /\ Cardinality(FailedIn(a)) = Cardinality(FailedIn(b))
           /\ NameOf[a] = NameOf[b]
  <1>1. IsFiniteSet(Failed)
    <2>1. /\ results \in [Submission -> [ok : BOOLEAN, tests : Listing]]
          /\ StoredAsListed
      BY DEF FetchInv, TypeOK
    <2>2. SeenUpTo(N) = Failed
      BY <2>1, FailedInIsUpTo DEF SeenUpTo, Failed
    <2> QED
      BY <2>1, <2>2, SeenIsFinite
  <1>2. ASSUME NEW id \in Failed PROVE Cardinality(FailedIn(id)) \in Nat /\ NameOf[id] \in Nat
    <2>1. IsFiniteSet(Submission)
      BY FS_Interval, FanOutConstants DEF Submission
    <2>2. IsFiniteSet(FailedIn(id))
      BY <2>1, FS_Subset DEF FailedIn
    <2> QED
      BY <2>2, FS_CardinalityType, FanOutConstants DEF Failed
  <1>3. ASSUME NEW x \in Failed, NEW y \in Failed, Placed(x, k), Placed(y, k), Outranks(x, y)
        PROVE  FALSE
    <2> DEFINE notBelow == {id \in Failed : ~Outranks(x, id)}
               above == {id \in Failed : Outranks(id, y)}
    <2>1. notBelow \subseteq above
      BY <1>2, <1>3 DEF Outranks
    <2>2. IsFiniteSet(above)
      BY <1>1, FS_Subset
    <2>3. Cardinality(above) < k /\ k <= Cardinality(notBelow)
      BY <1>3 DEF Placed
    <2> HIDE DEF notBelow, above
    <2> QED
      BY <2>1, <2>2, <2>3, FS_Subset, FS_CardinalityType
  <1>4. ~Outranks(a, b) /\ ~Outranks(b, a)
    BY <1>3
  <1> QED
    BY <1>2, <1>4 DEF Outranks
-----------------------------------------------------------------------------
(* The answer.  Liveness is TLC's to check (Answers); what it rests on is  *)
(* proved: until the tool has answered somebody can move, and every step   *)
(* is one of finitely many.                                                *)

MergedRows == {Merged[id] : id \in DOMAIN Merged}

\* A fetch may end, or a slot is free for a goroutine that waits for one, or
\* all are done and the sort has a result.
SomebodyCanMove ==
    \/ reply.done
    \/ \E i \in Submission : phase[i] = "fetching"
    \/ sem < Slots /\ \E i \in Submission : phase[i] = "waiting"
    \/ (\A i \in Submission : phase[i] = "done") /\ Ranked(MergedRows) # {}

\* Each goroutine takes a slot and gives it back, then the tool answers.
StepsLeft ==
    Cardinality({i \in Submission : phase[i] = "waiting"}) +
    Cardinality({i \in Submission : phase[i] # "done"}) +
    IF reply.done THEN 0 ELSE 1

CountedRow == {r \in Row : r.count <= N}

\* Some row comes before all others: one of those with the highest count.
LEMMA FirstRow ==
    ASSUME NEW rows, rows \subseteq CountedRow, rows # {}
    PROVE  \E r \in rows : \A q \in rows : Before(r, q)
  <1>1. \A r \in rows : r.count \in Nat /\ r.count <= N /\ NameOf[r.id] \in Nat
    BY FanOutConstants DEF CountedRow, Row
  <1> DEFINE behind == {N - r.count : r \in rows}
  <1>2. behind \subseteq Nat /\ behind # {}
    BY <1>1, FanOutConstants
  <1>3. Min(behind) \in behind /\ \A b \in behind : Min(behind) <= b
    <2> HIDE DEF behind
    <2> QED
      BY <1>2, LeastOf
  <1>4. PICK top \in rows : \A b \in behind : N - top.count <= b
    BY <1>3
  <1>5. ASSUME NEW r \in rows PROVE r.count <= top.count
    <2>1. N - top.count <= N - r.count
      BY <1>4
    <2>2. r.count \in Nat /\ top.count \in Nat /\ N \in Nat
      BY <1>1, FanOutConstants
    <2> QED
      BY <2>1, <2>2
  <1> DEFINE best == {r \in rows : r.count = top.count}
             names == {NameOf[r.id] : r \in best}
  <1>6. names \subseteq Nat /\ names # {}
    BY <1>1, <1>4
  <1>7. Min(names) \in names /\ \A b \in names : Min(names) <= b
    <2> HIDE DEF names
    <2> QED
      BY <1>6, LeastOf
  <1>8. PICK r \in best : \A q \in best : NameOf[r.id] <= NameOf[q.id]
    BY <1>7
  <1>9. ASSUME NEW q \in rows PROVE Before(r, q)
    BY <1>1, <1>4, <1>5, <1>8 DEF Before
  <1> QED
    BY <1>8, <1>9

\* A row put before the others that come after it.
LEMMA RankFirst ==
    ASSUME NEW rows, IsFiniteSet(rows), NEW r \in rows, \A q \in rows : Before(r, q),
           NEW s \in Ranked(rows \ {r})
    PROVE  Ranked(rows) # {}
  <1> DEFINE n == Cardinality(rows \ {r})
             longer == [k \in 1..(n + 1) |-> IF k = 1 THEN r ELSE s[k - 1]]
  <1>1. IsFiniteSet(rows \ {r}) /\ n \in Nat /\ Cardinality(rows) = n + 1
    <2>1. IsFiniteSet(rows \ {r})
      BY FS_RemoveElement
    <2>2. rows = (rows \ {r}) \cup {r} /\ r \notin rows \ {r}
      OBVIOUS
    <2> QED
      BY <2>1, <2>2, FS_AddElement, FS_CardinalityType
  <1>2. /\ s \in [1..n -> rows \ {r}] /\ {s[k] : k \in 1..n} = rows \ {r}
        /\ \A j, k \in 1..n : j < k => Before(s[j], s[k])
    BY DEF Ranked, ToSet
  <1> HIDE DEF n
  <1>3. \A k \in 1..(n + 1) : k = 1 \/ k - 1 \in 1..n
    BY <1>1
  <1>4. longer \in [1..(n + 1) -> rows]
    BY <1>2, <1>3
  <1>5. {longer[k] : k \in 1..(n + 1)} = rows
    <2>1. 1 \in 1..(n + 1) /\ longer[1] = r
      BY <1>1
    <2>2. ASSUME NEW q \in rows \ {r} PROVE \E k \in 1..(n + 1) : longer[k] = q
      <3>1. PICK k \in 1..n : s[k] = q
        BY <1>2
      <3>2. k + 1 \in 1..(n + 1) /\ k + 1 # 1 /\ (k + 1) - 1 = k
        BY <1>1
      <3> QED
        BY <3>1, <3>2
    <2> QED
      BY <1>4, <2>1, <2>2
  <1>6. ASSUME NEW j \in 1..(n + 1), NEW k \in 1..(n + 1), j < k
        PROVE  Before(longer[j], longer[k])
    <2>1. k - 1 \in 1..n /\ longer[k] = s[k - 1] /\ longer[k] \in rows
      BY <1>1, <1>3, <1>4, <1>6
    <2>2. CASE j = 1
      BY <2>1, <2>2
    <2>3. CASE j # 1
      <3>1. j - 1 \in 1..n /\ j - 1 < k - 1 /\ longer[j] = s[j - 1]
        BY <1>1, <1>3, <1>6, <2>3
      <3> QED
        BY <1>2, <2>1, <3>1
    <2> QED
      BY <2>2, <2>3
  <1> HIDE DEF longer
  <1>7. longer \in Ranked(rows)
    BY <1>1, <1>4, <1>5, <1>6 DEF Ranked, ToSet
  <1> QED
    BY <1>7

\* The sort has a result whatever rows it is given.
LEMMA RankedExists ==
    ASSUME NEW rows, rows \subseteq CountedRow, IsFiniteSet(rows)
    PROVE  Ranked(rows) # {}
  <1> DEFINE Sortable(n) == \A q \in SUBSET CountedRow :
                IsFiniteSet(q) /\ Cardinality(q) = n => Ranked(q) # {}
             last == Cardinality(rows)
             S == {n \in 0..last : Sortable(n)}
  <1>1. last \in Nat
    BY FS_CardinalityType
  <1>2. Sortable(0)
    <2> SUFFICES ASSUME NEW q \in SUBSET CountedRow, IsFiniteSet(q), Cardinality(q) = 0
                 PROVE  <<>> \in Ranked(q)
      OBVIOUS
    <2>1. q = {}
      BY FS_EmptySet
    <2>2. <<>> \in [1..0 -> {}] /\ DOMAIN <<>> = {}
      OBVIOUS
    <2> QED
      BY <2>1, <2>2 DEF Ranked, ToSet
  <1>3. ASSUME NEW n \in 1..last, Sortable(n - 1) PROVE Sortable(n)
    <2> SUFFICES ASSUME NEW q \in SUBSET CountedRow, IsFiniteSet(q), Cardinality(q) = n
                 PROVE  Ranked(q) # {}
      OBVIOUS
    <2>1. q # {}
      BY FS_EmptySet
    <2>2. PICK r \in q : \A p \in q : Before(r, p)
      BY <2>1, FirstRow
    <2>3. IsFiniteSet(q \ {r}) /\ Cardinality(q \ {r}) = n - 1 /\ q \ {r} \in SUBSET CountedRow
      BY FS_RemoveElement
    <2>4. Ranked(q \ {r}) # {}
      BY <1>3, <2>3
    <2> QED
      BY <2>2, <2>4, RankFirst
  <1> HIDE DEF Sortable, last
  <1>4. 0 \in S
    BY <1>1, <1>2
  <1>5. \A n \in 1..last : n - 1 \in S => n \in S
    BY <1>1, <1>3
  <1>6. 0..last \subseteq S
    <2> HIDE DEF S
    <2> QED
      BY <1>1, <1>4, <1>5, AllUpTo
  <1>7. Sortable(last)
    BY <1>1, <1>6
  <1> QED
    BY <1>7 DEF Sortable, last

LEMMA FetchMoves == FetchInv => SomebodyCanMove
  <1> SUFFICES ASSUME FetchInv PROVE SomebodyCanMove
    OBVIOUS
  <1> DEFINE busy == {i \in Submission : phase[i] = "fetching"}
  <1>1. /\ TypeOK /\ StoredAsListed
        /\ phase \in [Submission -> {"waiting", "fetching", "done"}] /\ sem = Cardinality(busy)
        /\ results \in [Submission -> [ok : BOOLEAN, tests : Listing]]
    BY DEF FetchInv, TypeOK
  <1>2. busy = {} => sem < Slots
    BY <1>1, FS_EmptySet, FanOutConstants
  <1>3. ASSUME \A i \in Submission : phase[i] = "done" PROVE Ranked(MergedRows) # {}
    <2>1. MergedRows = {RowUpTo(id, N) : id \in SeenUpTo(N)}
      BY <1>1, MergedIsRows DEF MergedRows, RowsUpTo
    <2>2. IsFiniteSet(MergedRows)
      <3>1. RowsUpTo(N) \in Surjection(SeenUpTo(N), MergedRows)
        BY <2>1 DEF RowsUpTo, Surjection
      <3>2. IsFiniteSet(SeenUpTo(N))
        BY <1>1, SeenIsFinite
      <3> QED
        BY <3>1, <3>2, FS_Surjection
    <2>3. ASSUME NEW id \in SeenUpTo(N) PROVE RowUpTo(id, N) \in CountedRow
      <3>1. RowUpTo(id, N) \in Row
        BY <1>1, RowIsRight
      <3>2. Cardinality(FailedUpTo(id, N)) <= N
        <4>1. FailedUpTo(id, N) \subseteq 1..N
          BY FailedUpToSubset, FanOutConstants
        <4>2. IsFiniteSet(1..N) /\ Cardinality(1..N) = N
          BY FS_Interval, FanOutConstants
        <4> QED
          BY <4>1, <4>2, FS_Subset
      <3>3. RowUpTo(id, N).count = Cardinality(FailedUpTo(id, N))
        BY DEF RowUpTo
      <3> QED
        BY <3>1, <3>2, <3>3 DEF CountedRow
    <2> QED
      BY <2>1, <2>2, <2>3, RankedExists
  <1> QED
    BY <1>1, <1>2, <1>3 DEF SomebodyCanMove

LEMMA FetchCountsDown == FetchInv /\ [Next]_vars => [StepsLeft' < StepsLeft]_vars
  <1> SUFFICES ASSUME FetchInv, Next PROVE StepsLeft' < StepsLeft
    BY DEF vars
  <1> DEFINE idle == {i \in Submission : phase[i] = "waiting"}
             left == {i \in Submission : phase[i] # "done"}
             idleLater == {i \in Submission : phase'[i] = "waiting"}
             leftLater == {i \in Submission : phase'[i] # "done"}
             unanswered == IF reply.done THEN 0 ELSE 1
  <1>1. phase \in [Submission -> {"waiting", "fetching", "done"}]
    BY DEF FetchInv, TypeOK
  <1>2. IsFiniteSet(idle) /\ IsFiniteSet(left)
    <2>1. IsFiniteSet(Submission) /\ idle \subseteq Submission /\ left \subseteq Submission
      BY FS_Interval, FanOutConstants DEF Submission
    <2> HIDE DEF idle, left
    <2> QED
      BY <2>1, FS_Subset
  <1>3. Cardinality(idle) \in Nat /\ Cardinality(left) \in Nat
    <2> HIDE DEF idle, left
    <2> QED
      BY <1>2, FS_CardinalityType
  <1>4. StepsLeft = Cardinality(idle) + Cardinality(left) + unanswered
    BY DEF StepsLeft
  <1>5. StepsLeft' = Cardinality(idleLater) + Cardinality(leftLater) + unanswered'
    BY DEF StepsLeft
  <1>6. ASSUME NEW i \in Submission, Acquire(i) PROVE StepsLeft' < StepsLeft
    <2>1. idleLater = idle \ {i} /\ i \in idle /\ leftLater = left /\ reply' = reply
      BY <1>1, <1>6 DEF Acquire
    <2> HIDE DEF idle, left, idleLater, leftLater
    <2>2. Cardinality(idleLater) = Cardinality(idle) - 1
      BY <1>2, <2>1, FS_RemoveElement
    <2> QED
      BY <1>3, <1>4, <1>5, <2>1, <2>2
  <1>7. ASSUME NEW i \in Submission, Deliver(i) \/ Skip(i) PROVE StepsLeft' < StepsLeft
    <2>1. leftLater = left \ {i} /\ i \in left /\ idleLater = idle /\ reply' = reply
      BY <1>1, <1>7 DEF Deliver, Skip
    <2> HIDE DEF idle, left, idleLater, leftLater
    <2>2. Cardinality(leftLater) = Cardinality(left) - 1
      BY <1>2, <2>1, FS_RemoveElement
    <2> QED
      BY <1>3, <1>4, <1>5, <2>1, <2>2
  <1>8. ASSUME Finish PROVE StepsLeft' < StepsLeft
    <2>1. idleLater = idle /\ leftLater = left /\ ~reply.done /\ reply'.done
      BY <1>8 DEF Finish
    <2> HIDE DEF idle, left, idleLater, leftLater
    <2> QED
      BY <1>3, <1>4, <1>5, <2>1
  <1> QED
    BY <1>6, <1>7, <1>8 DEF Next, Fetch

\* getRecentFailures cannot block: as long as the tool has not answered a fetch
\* is under way, or a slot is free for a goroutine that waits, or the merged
\* rows can be ranked.
THEOREM FetchNeverBlocks == Spec => []SomebodyCanMove
  BY FetchMoves, FetchInvariance, PTL

\* And it cannot go round: every step leaves fewer steps to take.
THEOREM FetchStepsRunOut == Spec => [][StepsLeft' < StepsLeft]_vars
  BY FetchCountsDown, FetchInvariance, PTL DEF Spec
=============================================================================
