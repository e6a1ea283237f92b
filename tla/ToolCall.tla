------------------------------ MODULE ToolCall ------------------------------
(***************************************************************************)
(* A tool call from its arrival to its answer: the per-token limiter of    *)
(* guarded(), the handler's own checks, resolveOrgID over the memoized     *)
(* roster (RosterCache), and the reads of platform-api through Client.Get: *)
(* one for most tools; for get_recent_failures a list of submissions, and  *)
(* then one read of each of them through a few slots, all of them scoped   *)
(* by what resolveOrgID said at the beginning.                             *)
(*                                                                         *)
(* Calls share one Client, as the goroutines of the stdio server do.       *)
(* TokenLimiter says when the limiter refuses and RecentFailures how the   *)
(* reads of get_recent_failures are merged; here the limiter may refuse    *)
(* any call, and a tool is what it checks and what it reads.  The two      *)
(* resources are calls of the same kind.  A read stands for the request    *)
(* and the redirects it follows: the http.Client's Timeout bounds them     *)
(* together.  Between its reads a call takes no time.                      *)
(***************************************************************************)
EXTENDS RosterCache

CONSTANTS
    Fetches, \* submissions get_recent_failures lists at most (50)
    Slots    \* maxConcurrentFetches (6)

ASSUME ToolAssumption == Fetches \in Nat /\ Slots \in Nat \ {0}

VARIABLES
    call,    \* what each goroutine's tool call is doing
    fan,     \* per call: the reads of the listed submissions
    badSent  \* history: an argument left that its validator rejects

toolVars == <<vars, call, fan, badSent>>
-----------------------------------------------------------------------------
(* The tools: what a handler checks before resolveOrgID (`first`) and after *)
(* (`late`), what it puts in the path or the query (`carries`), and        *)
(* whether it goes on to many reads.  Only arguments that have a validator *)
(* are named.                                                              *)

Arg == {"organization_id", "repository", "owner", "name", "test_id",
        "submission_id", "limit", "since", "submissions", "days"}

Tool(first, late, carries) ==
    [scoped |-> TRUE, first |-> first, late |-> late,
     carries |-> carries \cup {"organization_id"}, many |-> FALSE]

ListMyOrganizations ==
    [scoped |-> FALSE, first |-> {}, late |-> {}, carries |-> {}, many |-> FALSE]

ListRepositories    == Tool({}, {}, {})
FindFlakyTests      ==
    Tool({"repository", "limit"}, {"since"}, {"repository", "limit", "since"})
GetTestHistory      == Tool({"test_id"}, {}, {"test_id"})

ListRecentSubmissions ==
    Tool({"owner", "name", "limit"}, {}, {"owner", "name", "limit"})

\* Mutant: the submission id goes into the path as it came.
GetSubmissionTestResultsUnchecked ==
    Tool({"owner", "name", "limit"}, {}, {"owner", "name", "submission_id", "limit"})

GetSubmissionTestResults ==
    Tool({"owner", "name", "submission_id", "limit"}, {},
         {"owner", "name", "submission_id", "limit"})

GetRecentFailures ==
    [Tool({"owner", "name", "submissions"}, {}, {"owner", "name", "submissions"})
        EXCEPT !.many = TRUE]

GetRepoFlakiness == Tool({"repository"}, {}, {"repository"})
GetRepoCoverage  == Tool({"repository"}, {}, {"repository"})
GetRunnerStatus  == Tool({}, {}, {})
GetRunnerUsage   == Tool({"days"}, {}, {"days"})
GetRunnerConfigs == Tool({}, {}, {})

\* A resource takes its repository from a URI and has no organization; it
\* does not pass guarded(), so only its checks can refuse it at once.
Resource(checked) ==
    [scoped |-> FALSE, first |-> checked, late |-> {}, carries |-> checked,
     many |-> FALSE]

FlakyTestsResource  == Resource({"repository"})
SubmissionsResource == Resource({"owner", "name"})

Tools == {ListMyOrganizations, ListRepositories, FindFlakyTests, GetTestHistory,
          ListRecentSubmissions, GetSubmissionTestResults, GetRecentFailures,
          GetRepoFlakiness, GetRepoCoverage, GetRunnerStatus, GetRunnerUsage,
          GetRunnerConfigs, FlakyTestsResource, SubmissionsResource}
-----------------------------------------------------------------------------
\* `late`: a late check will fail.  `bad`: what is sent carries an argument
\* that its validator rejects.  `guess`: no organization_id, so platform-api
\* chooses; `basis`: when the roster that allowed it last was the owner's.
\* `since`: when the read under way, for get_recent_failures the list, began.
NoCall == [step |-> "idle", late |-> FALSE, bad |-> FALSE, guess |-> FALSE,
           many |-> FALSE, basis |-> 0, since |-> 0]

\* A submission's read that holds a slot: the nr-th to get one, and when.
Fetch == [nr : 1..Fetches, since : 0..MaxTime]
NoFan == [listed |-> 0, begun |-> 0, open |-> {}]

\* Every variable has its type, and no call holds more than its slots.
ToolTypeOK ==
    /\ TypeOK
    /\ call \in [Call -> [step : {"idle", "resolve", "read", "fan"}, late : BOOLEAN,
                          bad : BOOLEAN, guess : BOOLEAN, many : BOOLEAN,
                          basis : Never..MaxTime, since : 0..MaxTime]]
    /\ fan \in [Call -> [listed : 0..Fetches, begun : 0..Fetches, open : SUBSET Fetch]]
    /\ badSent \in BOOLEAN
    /\ \A c \in Call : /\ call[c].step # "resolve" => pending[c] = Idle
                       /\ call[c].step # "fan" => fan[c] = NoFan
                       /\ fan[c].begun <= fan[c].listed
                       /\ Cardinality(fan[c].open) <= Slots

ToolInit ==
    /\ Init
    /\ call = [c \in Call |-> NoCall]
    /\ fan = [c \in Call |-> NoFan]
    /\ badSent = FALSE
-----------------------------------------------------------------------------
\* The handler returns an error: the plan texts of overageAware, a status of
\* 400 or more, a body that does not decode, a timeout, a refused redirect.
Refused(c) ==
    /\ call' = [call EXCEPT ![c] = NoCall]
    /\ UNCHANGED fan

Send(bad) == badSent' = (badSent \/ bad)

Read(c, x) ==
    /\ call' = [call EXCEPT ![c] = [x EXCEPT !.step = "read", !.since = now]]
    /\ Send(x.bad)
    /\ UNCHANGED fan

\* Mutant: the late checks are forgotten.
ReadUnchecked(c, x) == Read(c, x)

\* Past resolveOrgID: the late checks, then Client.Get.
CheckAndRead(c, x) ==
    IF x.late THEN Refused(c) /\ UNCHANGED badSent ELSE Read(c, x)

\* What is left of a call of tool t after its first checks, with at most one
\* bad argument and with or without an organization_id.
Passed(t, wrong, given) ==
    [NoCall EXCEPT !.guess = t.scoped /\ ~given,
                   !.many = t.many,
                   !.late = wrong \cap t.late # {},
                   !.bad = wrong \cap t.carries # {}]

PassesFirst(t, wrong) ==
    wrong \cap t.first = {} /\ ~(t.scoped /\ "organization_id" \in wrong)

Arrivals == {Passed(x[1], x[2], x[3]) :
                x \in {y \in Tools \X ({{}} \cup {{a} : a \in Arg}) \X BOOLEAN :
                          PassesFirst(y[1], y[2])}}

\* allow() or a first check refuses the call, or it goes on.
Begin(c) ==
    /\ call[c] = NoCall
    /\ \/ Refused(c) /\ UNCHANGED badSent
       \/ \E x \in Arrivals :
             IF x.guess
             THEN /\ call' = [call EXCEPT ![c] = [x EXCEPT !.step = "resolve"]]
                  /\ UNCHANGED <<fan, badSent>>
             ELSE CheckAndRead(c, x)
    /\ Elsewhere

\* The roster decides: one organization or none, and platform-api scopes the
\* call; several, and it is refused with their names.
ResolveDecides(c) ==
    /\ call[c].step = "resolve"
    /\ ServeCached(c) \/ Store(c)
    /\ IF verdict'.kind = "auto"
       THEN CheckAndRead(c, [call[c] EXCEPT !.basis = now - verdict'.age])
       ELSE Refused(c) /\ UNCHANGED badSent

ResolveAsks(c) ==
    /\ call[c].step = "resolve"
    /\ Ask(c)
    /\ UNCHANGED <<call, fan, badSent>>

ResolveAnswer(c) ==
    /\ call[c].step = "resolve"
    /\ Answer(c)
    /\ UNCHANGED <<call, fan, badSent>>

ResolveFails(c) ==
    /\ call[c].step = "resolve"
    /\ Fail(c)
    /\ Refused(c)
    /\ UNCHANGED badSent
-----------------------------------------------------------------------------
\* The handler returns what it read.
AnswerCall(c) ==
    /\ call' = [call EXCEPT ![c] = NoCall]
    /\ fan' = [fan EXCEPT ![c] = NoFan]
    /\ Elsewhere /\ UNCHANGED badSent

\* One read is all there is.
ReadData(c) ==
    /\ call[c].step = "read" /\ ~call[c].many
    /\ AnswerCall(c)

ReadFails(c) ==
    /\ call[c].step = "read"
    /\ Refused(c)
    /\ Elsewhere /\ UNCHANGED badSent

\* get_recent_failures has its list, and starts a goroutine per submission.
ListSubmissions(c) ==
    /\ call[c].step = "read" /\ call[c].many
    /\ call' = [call EXCEPT ![c].step = "fan", ![c].since = 0]
    /\ \E n \in 0..Fetches : fan' = [fan EXCEPT ![c].listed = n]
    /\ Elsewhere /\ UNCHANGED badSent

\* Mutant: one submission after the other, as the loop once was.
HasSlotSerial(open) == open = {}

HasSlot(open) == Cardinality(open) < Slots

\* A goroutine has not got its slot yet.
Waits(c) == fan[c].begun < fan[c].listed

\* One of them, whichever it is, gets a slot and reads its submission.
FetchNext(c) ==
    /\ call[c].step = "fan" /\ Waits(c) /\ HasSlot(fan[c].open)
    /\ LET next == [nr |-> fan[c].begun + 1, since |-> now]
       IN  fan' = [fan EXCEPT ![c] = [listed |-> @.listed, begun |-> next.nr,
                                      open |-> @.open \cup {next}]]
    /\ Send(call[c].bad)
    /\ Elsewhere /\ UNCHANGED call

\* The read is answered or it fails: a failure only leaves a submission out.
FetchEnds(c) ==
    /\ \E f \in fan[c].open : fan' = [fan EXCEPT ![c].open = @ \ {f}]
    /\ Elsewhere /\ UNCHANGED <<call, badSent>>

\* wg.Wait() returns: what was read is merged.
MergeFetched(c) ==
    /\ call[c].step = "fan" /\ ~Waits(c) /\ fan[c].open = {}
    /\ AnswerCall(c)

\* A read takes at most RoundTrip; no goroutine waits beside a free slot, and
\* a call whose reads are over answers at once.
ToolTick ==
    /\ Tick
    /\ \A c \in Call :
          /\ call[c].step = "read" => now < call[c].since + RoundTrip
          /\ call[c].step = "fan" =>
                /\ fan[c].open # {}
                /\ Waits(c) => ~HasSlot(fan[c].open)
                /\ \A f \in fan[c].open : now < f.since + RoundTrip
    /\ UNCHANGED <<call, fan, badSent>>

ToolNext ==
    \/ \E c \in Call :
          \/ Begin(c)
          \/ ResolveDecides(c) \/ ResolveAsks(c) \/ ResolveAnswer(c) \/ ResolveFails(c)
          \/ ReadData(c) \/ ReadFails(c)
          \/ ListSubmissions(c) \/ FetchNext(c) \/ FetchEnds(c) \/ MergeFetched(c)
    \/ (\E r \in Rosters : ChangeRoster(r)) /\ UNCHANGED <<call, fan, badSent>>
    \/ ToolTick

ToolSpec == ToolInit /\ [][ToolNext]_toolVars
-----------------------------------------------------------------------------
(* Safety.                                                                 *)

\* No request carries an argument that its validator rejects, also when the
\* check comes after the roster has been fetched (`since` of find_flaky_tests).
CheckedBeforeSent == ~badSent

\* What a call reads without an organization_id is scoped by platform-api on
\* the word of a roster.  Until the call has answered, that roster was the
\* owner's less than one TTL and two round trips ago: the memo's, the roster
\* fetch's and the read's own.  The submissions get_recent_failures lists are
\* read on the same word, and each `Slots` of them, or what is left of them,
\* make it at most one round trip older.
GuessIsYoung ==
    \A c \in Call : call[c].step \in {"read", "fan"} /\ call[c].guess =>
        \A w \in 0..Fetches : fan[c].listed <= w * Slots =>
            now - call[c].basis < TTL + (2 + w) * RoundTrip
=============================================================================
