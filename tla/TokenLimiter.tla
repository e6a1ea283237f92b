---------------------------- MODULE TokenLimiter ----------------------------
(***************************************************************************)
(* tokenLimiter of internal/mcpserver/policy.go: a sliding log of admitted *)
(* tool calls per hashed token, one log per server process.                *)
(*                                                                         *)
(* guarded() reads the clock and only then calls allow(), which takes the  *)
(* mutex, so two calls of one process may enter the log in an order that   *)
(* is not the order of their stamps.  Skew bounds how long a call may wait *)
(* between its time.Now() and the mutex.                                   *)
(*                                                                         *)
(* A restarted process has an empty log: it is a new element of Task.      *)
(***************************************************************************)
EXTENDS Integers, Sequences, FiniteSets, FiniteSetsExt

CONSTANTS
    Task,     \* server processes, each with a defaultLimiter of its own
    Token,    \* hashed tokens (or "anonymous")
    Call,     \* goroutines serving a tool call
    Limit,    \* toolRateLimit   (120)
    Window,   \* toolRateWindow  (1 minute)
    Skew,     \* longest wait between time.Now() and the mutex
    MaxTime,  \* bound on the clock
    MaxCalls  \* bound on the calls that reach a limiter

ASSUME LimiterAssumption ==
    /\ {Limit, Window, Skew, MaxTime, MaxCalls} \subseteq Nat
    /\ Limit > 0 /\ Skew < Window

VARIABLES
    now,
    hits,      \* per task and token: stamps, in the order they were appended
    waiting,   \* calls between time.Now() and the mutex
    verdicts   \* history: every answer of allow(), in the order it was given

vars == <<now, hits, waiting, verdicts>>
-----------------------------------------------------------------------------
Waiting == [call : Call, task : Task, token : Token, stamp : Nat]
Verdict == [task : Task, token : Token, stamp : Nat, ok : BOOLEAN]

\* Every variable has its type, a log never holds more stamps than the
\* budget, and a call waits at most once.
TypeOK ==
    /\ now \in 0..MaxTime
    /\ hits \in [Task -> [Token -> Seq(Nat)]]
    /\ \A t \in Task, k \in Token : Len(hits[t][k]) <= Limit
    /\ waiting \subseteq Waiting
    /\ \A v, w \in waiting : v.call = w.call => v = w
    /\ verdicts \in Seq(Verdict)

Init ==
    /\ now = 0
    /\ hits = [t \in Task |-> [k \in Token |-> <<>>]]
    /\ waiting = {}
    /\ verdicts = <<>>
-----------------------------------------------------------------------------
\* guarded(): the stamp is read before the lock is taken.
Arrive(c, t, k) ==
    /\ \A w \in waiting : w.call # c
    /\ Len(verdicts) + Cardinality(waiting) < MaxCalls
    /\ waiting' = waiting \cup {[call |-> c, task |-> t, token |-> k, stamp |-> now]}
    /\ UNCHANGED <<now, hits, verdicts>>

\* Mutant: the whole log is dropped as soon as its oldest stamp has aged out.
DropAgedAll(stamps, cutoff) ==
    IF stamps # <<>> /\ stamps[1] <= cutoff THEN <<>> ELSE stamps

\* Mutant: nothing is dropped.
DropAgedNone(stamps, cutoff) == stamps

\* Drop the aged stamps at the head of a log: the scan stops at the first
\* stamp after the cutoff, wherever older ones may follow.
DropAged(stamps, cutoff) ==
    LET young == {i \in DOMAIN stamps : stamps[i] > cutoff}
    IN  IF young = {} THEN <<>> ELSE SubSeq(stamps, Min(young), Len(stamps))

\* Mutant: off by one, a full log takes one more.
HasRoomOneMore(stamps) == Len(stamps) <= Limit

HasRoom(stamps) == Len(stamps) < Limit

\* Mutant: only the log of the calling token is pruned.
AllowPrunesOwnLog(w) ==
    LET own == DropAged(hits[w.task][w.token], w.stamp - Window)
        ok == HasRoom(own)
    IN  /\ w \in waiting
        /\ waiting' = waiting \ {w}
        /\ hits' = [hits EXCEPT ![w.task][w.token] =
              IF ok THEN Append(own, w.stamp) ELSE own]
        /\ verdicts' = Append(verdicts,
              [task |-> w.task, token |-> w.token, stamp |-> w.stamp, ok |-> ok])
        /\ UNCHANGED now

\* allow(): under the mutex, prune the logs of all tokens, then decide.
Allow(w) ==
    LET kept == [k \in Token |-> DropAged(hits[w.task][k], w.stamp - Window)]
        ok == HasRoom(kept[w.token])
    IN  /\ w \in waiting
        /\ waiting' = waiting \ {w}
        /\ hits' = [hits EXCEPT ![w.task] =
              IF ok THEN [kept EXCEPT ![w.token] = Append(@, w.stamp)] ELSE kept]
        /\ verdicts' = Append(verdicts,
              [task |-> w.task, token |-> w.token, stamp |-> w.stamp, ok |-> ok])
        /\ UNCHANGED now

Tick ==
    /\ now < MaxTime
    /\ \A w \in waiting : now < w.stamp + Skew
    /\ now' = now + 1
    /\ UNCHANGED <<hits, waiting, verdicts>>

Next ==
    \/ \E c \in Call, t \in Task, k \in Token : Arrive(c, t, k)
    \/ \E w \in waiting : Allow(w)
    \/ Tick

Spec == Init /\ [][Next]_vars
-----------------------------------------------------------------------------
(* Safety.                                                                 *)

\* Calls of a token that a set of tasks admitted with a stamp in (from, to].
Admitted(tasks, k, from, to) ==
    Cardinality({i \in DOMAIN verdicts :
        /\ verdicts[i].ok /\ verdicts[i].token = k /\ verdicts[i].task \in tasks
        /\ from < verdicts[i].stamp /\ verdicts[i].stamp <= to})

\* One process admits at most Limit calls of a token in any window that is
\* shorter than toolRateWindow by the skew, however the callers interleave.
BudgetPerTask ==
    \A t \in Task, k \in Token, from \in -1..MaxTime :
        Admitted({t}, k, from, from + Window - Skew) <= Limit

\* A refused call had a spent budget: the process admitted Limit calls of the
\* same token that are younger than a window and a skew.
RefusalIsEarned ==
    \A i \in DOMAIN verdicts : ~verdicts[i].ok =>
        LET v == verdicts[i]
        IN  Admitted({v.task}, v.token, v.stamp - Window - Skew, MaxTime) >= Limit

\* The map does not grow with the tokens ever seen: a process holds no stamp
\* older than a window and a skew before the last call it answered.
LogsAreReaped ==
    \A t \in Task, k \in Token, j \in DOMAIN verdicts :
        (verdicts[j].task = t /\ \A i \in DOMAIN verdicts : verdicts[i].task = t => i <= j)
        => \A i \in DOMAIN hits[t][k] : hits[t][k][i] > verdicts[j].stamp - Window - Skew

\* SECURITY.md:86: "120 tool calls per hashed token per rolling minute".
BudgetPerToken ==
    \A k \in Token, from \in -1..MaxTime :
        Admitted(Task, k, from, from + Window) <= Limit
=============================================================================
