--------------------------- MODULE RegisterGuard ---------------------------
(***************************************************************************)
(* POST /oauth/register and its guards, register_guard.go: the fixed-      *)
(* window limiter keyed by client address, in the memory of one task (tasks  *)
(* share no bucket), the checks on the request, and the clients table.     *)
(*                                                                         *)
(* allow() reads the clock under its mutex, so a request is one step: what *)
(* follows the limiter only adds a row under a fresh client id.            *)
(***************************************************************************)
EXTENDS Integers, Sequences, FiniteSets, SequencesExt

CONSTANTS
    Address,   \* addresses the load balancer sees
    Limit,     \* registerRateLimit   (10)
    Window,    \* registerRateWindow  (10 minutes)
    MaxTime,   \* bound on the clock
    MaxCalls   \* bound on the requests served

ASSUME GuardAssumption ==
    {Limit, Window, MaxTime, MaxCalls} \subseteq Nat /\ Limit > 0 /\ Window > 0

VARIABLES
    now,
    buckets,   \* the addresses counted, each with its count and reset time
    clients,   \* redirect URIs of the rows in the clients table
    served     \* history: every request, and whether the limiter let it through

vars == <<now, buckets, clients, served>>
-----------------------------------------------------------------------------
(* What validateRedirectURI and isLoopbackHost tell apart in a URI.        *)

Scheme == {"https", "http", "", "com.example.app", "javascript"}
Dotted == {"com.example.app"}
Host == {"", "localhost", "example.com"}
URI == [scheme : Scheme, host : Host, fragment : BOOLEAN, long : BOOLEAN]

Loopback(host) == host = "localhost"

ValidRedirectURI(u) ==
    /\ ~u.long /\ ~u.fragment
    /\ \/ u.scheme = "https" /\ u.host # ""
       \/ u.scheme = "http" /\ Loopback(u.host)
       \/ u.scheme \in Dotted

\* Mutant: one acceptable URI vouches for the others.
ValidRegistrationSome(request) ==
    /\ ~request.tooMany /\ ~request.longName
    /\ \E u \in request.uris : ValidRedirectURI(u)

\* validateRegistration: between one and maxRedirectURIs URIs, all of them
\* valid, and a client_name that is not too long.
ValidRegistration(request) ==
    /\ request.uris # {} /\ ~request.tooMany /\ ~request.longName
    /\ \A u \in request.uris : ValidRedirectURI(u)

Plain(scheme, host) == [scheme |-> scheme, host |-> host, fragment |-> FALSE, long |-> FALSE]

\* Requests that tell the checks apart: a good URI of each kind, and each way
\* to be refused beside a good URI.
GoodURIs == {Plain("https", "example.com"), Plain("http", "localhost"),
             Plain("com.example.app", "")}
BadURIs == {Plain("https", ""), Plain("http", "example.com"), Plain("", "example.com"),
            Plain("javascript", "")}
           \cup {[Plain("https", "example.com") EXCEPT !.fragment = TRUE],
                 [Plain("https", "example.com") EXCEPT !.long = TRUE]}
Request ==
    [uris : {{}, {Plain("https", "example.com")}}
               \cup {{Plain("https", "example.com"), u} : u \in BadURIs},
     tooMany : {FALSE}, longName : {FALSE}]
    \cup [uris : {GoodURIs}, tooMany : BOOLEAN, longName : BOOLEAN]
-----------------------------------------------------------------------------
Bucket == [count : Nat, reset : Nat]
Served == [address : Address, at : Nat, passed : BOOLEAN]

\* Every variable has its type, and no bucket counts past its limit.
TypeOK ==
    /\ now \in 0..MaxTime
    /\ DOMAIN buckets \subseteq Address
    /\ \A a \in DOMAIN buckets : buckets[a] \in Bucket /\ buckets[a].count \in 1..Limit
    /\ clients \subseteq SUBSET URI
    /\ served \in Seq(Served)

Init ==
    /\ now = 0
    /\ buckets = <<>>
    /\ clients = {}
    /\ served = <<>>
-----------------------------------------------------------------------------
\* Mutant: the first entry, which the caller wrote.
ClientIPFirst(forwarded) == forwarded[1]

\* clientIP: the rightmost X-Forwarded-For entry is the load balancer's.
ClientIP(forwarded) == Last(forwarded)

\* Mutant: expired buckets stay.
UnexpiredAll(b, time) == b

\* The reaping loop of allow(): now.After(reset) drops a bucket.
Unexpired(b, time) == Restrict(b, {a \in DOMAIN b : time <= b[a].reset})

With(b, a, bucket) == [x \in DOMAIN b \cup {a} |-> IF x = a THEN bucket ELSE b[x]]

\* Mutant: every request of a bucket pushes its reset time back.
CountedSliding(b, a, time) ==
    With(b, a, [count |-> IF a \in DOMAIN b THEN b[a].count + 1 ELSE 1,
                reset |-> time + Window])

\* Mutant: the bucket starts at zero.
CountedFromZero(b, a, time) ==
    With(b, a, IF a \in DOMAIN b THEN [b[a] EXCEPT !.count = @ + 1]
               ELSE [count |-> 0, reset |-> time + Window])

\* The first request of a window opens its bucket, later ones count in it.
Counted(b, a, time) ==
    With(b, a, IF a \in DOMAIN b THEN [b[a] EXCEPT !.count = @ + 1]
               ELSE [count |-> 1, reset |-> time + Window])

Spent(b, a) == a \in DOMAIN b /\ b[a].count >= Limit

Answered(a, passed) ==
    served' = Append(served, [address |-> a, at |-> now, passed |-> passed])

\* register: limiter, then the checks, then PutClient, which may fail with or
\* without the row stored.  `forged` is what the caller put in the header.
Register(a, forged, request) ==
    LET live == Unexpired(buckets, now)
        key  == ClientIP(Append(forged, a))
    IN  /\ Len(served) < MaxCalls
        /\ IF Spent(live, key)
           THEN /\ buckets' = live
                /\ Answered(a, FALSE)
                /\ UNCHANGED clients
           ELSE /\ buckets' = Counted(live, key, now)
                /\ Answered(a, TRUE)
                /\ clients' \in IF ValidRegistration(request)
                                THEN {clients, clients \cup {request.uris}} ELSE {clients}
        /\ UNCHANGED now

Tick ==
    /\ now < MaxTime
    /\ now' = now + 1
    /\ UNCHANGED <<buckets, clients, served>>

Next ==
    \/ \E a \in Address, forged \in {<<>>} \cup {<<f>> : f \in Address},
          request \in Request : Register(a, forged, request)
    \/ Tick

Spec == Init /\ [][Next]_vars
-----------------------------------------------------------------------------
(* Safety.                                                                 *)

\* Requests of an address that the limiter let through in [from, to].
Passed(a, from, to) ==
    Cardinality({i \in DOMAIN served :
        /\ served[i].address = a /\ served[i].passed
        /\ from <= served[i].at /\ served[i].at <= to})

\* Whatever a caller writes in X-Forwarded-For, a task lets at most two
\* budgets of one real address through in any span of one window (a fixed
\* window can be used up at its end and again at the start of the next).
RegistrationBudget ==
    \A a \in Address, from \in 0..MaxTime : Passed(a, from, from + Window) <= 2 * Limit

\* A limited address has spent its own budget: Limit of its requests passed
\* within the window before, so nobody can lock another address out.
LimitIsEarned ==
    \A i \in DOMAIN served : ~served[i].passed =>
        Passed(served[i].address, served[i].at - Window, served[i].at) >= Limit

\* A spray of addresses does not grow the map: after a request, a bucket
\* belongs to an address that was let through within the window before.
BucketsAreReaped ==
    served # <<>> =>
        \A a \in DOMAIN buckets :
            Passed(a, Last(served).at - Window, Last(served).at) > 0

\* No stored client can have a code sent over a network in the clear, into a
\* script, or to a URI that a browser resolves on its own page.
RegisteredAreSafe ==
    \A uris \in clients : uris # {} /\ \A u \in uris :
        /\ u.scheme \notin {"", "javascript"} /\ ~u.fragment
        /\ u.scheme = "http" => Loopback(u.host)
=============================================================================
