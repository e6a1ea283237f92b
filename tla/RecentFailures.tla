--------------------------- MODULE RecentFailures ---------------------------
(***************************************************************************)
(* getRecentFailures: one tool call fetches the failed tests of the recent *)
(* submissions concurrently, through a semaphore, and merges the answers   *)
(* in submission order once all goroutines are done.                       *)
(*                                                                         *)
(* Submissions are numbered as listed, newest first.  Of a failed test     *)
(* only the testCaseId matters here, and its place in its listing, which   *)
(* is what tells its run time, message and body apart.                     *)
(***************************************************************************)
EXTENDS Integers, Sequences, FiniteSets, FiniteSetsExt, SequencesExt

CONSTANTS
    N,         \* submissions listed
    Test,      \* testCaseIds
    NoId,      \* the testCaseId of a row that has none
    NameOf,    \* the place of each test's name in the alphabet
    Slots,     \* maxConcurrentFetches (6)
    MaxTests   \* bound on the failed tests of a submission

ASSUME FanOutAssumption ==
    {N, Slots, MaxTests} \subseteq Nat /\ Slots > 0 /\ NameOf \in [Test -> Nat] /\ NoId \notin Test

VARIABLES
    listed,   \* platform-api: the failed tests of each submission
    phase,    \* of each goroutine
    sem,      \* places taken in the semaphore
    results,  \* by submission: what its goroutine stored
    reply     \* the answer of the tool

vars == <<listed, phase, sem, results, reply>>
-----------------------------------------------------------------------------
Submission == 1..N
Listing == UNION {[1..n -> Test \cup {NoId}] : n \in 0..MaxTests}
Row == [id : Test, count : Nat, recent : Submission, place : Nat]
NotFetched == [ok |-> FALSE, tests |-> <<>>]
NoReply == [done |-> FALSE, inspected |-> 0, rows |-> <<>>]

\* Every variable has its type, and the semaphore counts the goroutines that
\* are fetching.
TypeOK ==
    /\ listed \in [Submission -> Listing]
    /\ phase \in [Submission -> {"waiting", "fetching", "done"}]
    /\ sem = Cardinality({i \in Submission : phase[i] = "fetching"})
    /\ results \in [Submission -> [ok : BOOLEAN, tests : Listing]]
    /\ reply \in [done : BOOLEAN, inspected : 0..N, rows : Seq(Row)]

Init ==
    /\ listed \in [Submission -> Listing]
    /\ phase = [i \in Submission |-> "waiting"]
    /\ sem = 0
    /\ results = [i \in Submission |-> NotFetched]
    /\ reply = NoReply
-----------------------------------------------------------------------------
(* The goroutines.                                                         *)

\* Mutant: the fan-out is not bounded.
AcquireUnbounded(i) ==
    /\ phase[i] = "waiting"
    /\ phase' = [phase EXCEPT ![i] = "fetching"]
    /\ sem' = sem + 1
    /\ UNCHANGED <<listed, results, reply>>

Acquire(i) ==
    /\ phase[i] = "waiting"
    /\ sem < Slots
    /\ phase' = [phase EXCEPT ![i] = "fetching"]
    /\ sem' = sem + 1
    /\ UNCHANGED <<listed, results, reply>>

\* The answer is stored at the submission's index, then the slot is released.
Deliver(i) ==
    /\ phase[i] = "fetching"
    /\ results' = [results EXCEPT ![i] = [ok |-> TRUE, tests |-> listed[i]]]
    /\ phase' = [phase EXCEPT ![i] = "done"]
    /\ sem' = sem - 1
    /\ UNCHANGED <<listed, reply>>

\* Mutant: the error path returns before the release.
SkipKeepsSlot(i) ==
    /\ phase[i] = "fetching"
    /\ phase' = [phase EXCEPT ![i] = "done"]
    /\ UNCHANGED <<listed, sem, results, reply>>

\* Any error, a timeout or a cancelled call: the submission is left out.
Skip(i) ==
    /\ phase[i] = "fetching"
    /\ phase' = [phase EXCEPT ![i] = "done"]
    /\ sem' = sem - 1
    /\ UNCHANGED <<listed, results, reply>>
-----------------------------------------------------------------------------
(* The merge.                                                              *)

Ids(tests) == ToSet(tests) \ {NoId}
FirstPlace(tests, id) == Min({j \in DOMAIN tests : tests[j] = id})

\* Mutant: a retry counts as another failure.
MergeSubmissionRetries(agg, i) ==
    LET tests == results[i].tests
        times(id) == Cardinality({j \in DOMAIN tests : tests[j] = id})
    IN  [id \in DOMAIN agg \cup Ids(tests) |->
          IF id \in DOMAIN agg
          THEN [agg[id] EXCEPT !.count = @ + times(id)]
          ELSE [id |-> id, count |-> times(id), recent |-> i, place |-> FirstPlace(tests, id)]]

\* A submission counts once for each of its tests; the most_recent_* fields
\* are those of the first sighting and stay.
MergeSubmission(agg, i) ==
    LET tests == results[i].tests
    IN  [id \in DOMAIN agg \cup Ids(tests) |->
          IF id \in DOMAIN agg
          THEN [agg[id] EXCEPT !.count = IF id \in Ids(tests) THEN @ + 1 ELSE @]
          ELSE [id |-> id, count |-> 1, recent |-> i, place |-> FirstPlace(tests, id)]]

\* Mutant: the submissions are merged oldest first.
MergeOldest(agg, i) ==
    IF results[N + 1 - i].ok THEN MergeSubmission(agg, N + 1 - i) ELSE agg

\* A submission whose fetch failed is passed over.
Merge(agg, i) == IF results[i].ok THEN MergeSubmission(agg, i) ELSE agg

\* The aggregate after the first n submissions, newest first.
MergedUpTo[n \in 0..N] == IF n = 0 THEN <<>> ELSE Merge(MergedUpTo[n - 1], n)

Merged == MergedUpTo[N]

\* Mutant: rows of equal count keep the map's order.
BeforeByCount(r, s) == r.count >= s.count

\* sortRecentFailures: by failure_count, highest first, then by name.
Before(r, s) ==
    \/ r.count > s.count
    \/ r.count = s.count /\ NameOf[r.id] <= NameOf[s.id]

\* The rows come out of a map in any order and the sort is stable: every
\* ranked order of them is a possible answer.
Ranked(rows) ==
    {s \in [1..Cardinality(rows) -> rows] :
        /\ ToSet(s) = rows
        /\ \A j, k \in DOMAIN s : j < k => Before(s[j], s[k])}

\* After wg.Wait(): merge, rank, answer.
Finish ==
    /\ ~reply.done
    /\ \A i \in Submission : phase[i] = "done"
    /\ \E rows \in Ranked({Merged[id] : id \in DOMAIN Merged}) :
          reply' = [done |-> TRUE, inspected |-> N, rows |-> rows]
    /\ UNCHANGED <<listed, phase, sem, results>>

Fetch(i) == Acquire(i) \/ Deliver(i) \/ Skip(i)

Next == (\E i \in Submission : Fetch(i)) \/ Finish

\* Goroutines are scheduled and every request ends within the Client's
\* timeout, so no goroutine waits for ever while it can move; the channel
\* serves blocked senders in order, so a waiting one is not overtaken for
\* ever either (each goroutine takes a slot once).
Fairness == (\A i \in Submission : WF_vars(Fetch(i))) /\ WF_vars(Finish)

Spec == Init /\ [][Next]_vars /\ Fairness
-----------------------------------------------------------------------------
(* Properties.                                                             *)

FailedIn(id) == {i \in Submission : results[i].ok /\ id \in Ids(listed[i])}
Failed == {id \in Test : FailedIn(id) # {}}

\* Whatever the order in which the fetches end, the rows are exactly the
\* tests that failed in a fetched submission, each counted once per fetched
\* submission and described by its first listing in the newest of them.
RowsAreRight ==
    reply.done =>
        /\ {reply.rows[k].id : k \in DOMAIN reply.rows} = Failed
        /\ \A k, m \in DOMAIN reply.rows : reply.rows[k].id = reply.rows[m].id => k = m
        /\ \A k \in DOMAIN reply.rows :
              LET r == reply.rows[k]
              IN  /\ r.count = Cardinality(FailedIn(r.id))
                  /\ r.recent = Min(FailedIn(r.id))
                  /\ listed[r.recent][r.place] = r.id
                  /\ \A j \in 1..r.place - 1 : listed[r.recent][j] # r.id

Outranks(id, other) ==
    \/ Cardinality(FailedIn(id)) > Cardinality(FailedIn(other))
    \/ /\ Cardinality(FailedIn(id)) = Cardinality(FailedIn(other))
       /\ NameOf[id] < NameOf[other]

\* The places in the ranking that the counts and names leave to a test.
Placed(id, k) ==
    /\ Cardinality({other \in Failed : Outranks(other, id)}) < k
    /\ k <= Cardinality({other \in Failed : ~Outranks(id, other)})

\* The answer does not depend on the map's iteration order but between tests
\* that share both their count and their name: a row stands behind all the
\* tests that outrank its own, and before all that its own outranks, so two
\* answers to the same fetches differ at most within such a tie.
OrderIsDetermined ==
    reply.done => \A k \in DOMAIN reply.rows : Placed(reply.rows[k].id, k)

\* platform-api never sees more than maxConcurrentFetches requests of a call.
FanOutIsBounded == Cardinality({i \in Submission : phase[i] = "fetching"}) <= Slots

\* The tool answers, however many fetches fail.
Answers == <>reply.done

\* tools.go:757, the schema of failure_count: "how many of the inspected
\* submissions this test failed in", with submissions_inspected beside it.
CountsInspected ==
    reply.done =>
        \A k \in DOMAIN reply.rows :
            reply.rows[k].count =
                Cardinality({i \in 1..reply.inspected : reply.rows[k].id \in Ids(listed[i])})
=============================================================================
