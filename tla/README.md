# A verification of buildpulse-mcp

TLA+ models of the two programs of this repository, the hosted MCP server
(`cmd/mcp-remote`, an OAuth 2.1 authorization server in front of an MCP server)
and the local one (`cmd/mcp`, stdio), with TLC runs over small instances and
TLAPS proofs of the properties that matter most.

    tlc -workers 2 -config MCOAuthFlow.cfg MCOAuthFlow     # one run
    tlapm OAuthFlowProofs.tla                              # the proofs of one module

`PROJECT.json` lists components, runs, mutants, hazards, findings and theorems,
and maps every definition to the lines it models.

## 1. Inventory

| Component | State | Operations | Hard behaviour |
|---|---|---|---|
| OAuth handlers (`oauth.go`, `consent.go`) | none of their own; locals of a running handler | authorize, callback, consent, token (code and refresh grant), revoke | each handler is a sequence of calls to DynamoDB, Cognito, KMS and DocumentDB that fail separately; handlers run in several tasks; requests are retried and replayed |
| Login store (`store*.go`) | tables clients, pending, codes, refresh | Put, Pop, GetClient | pops must be atomic across tasks; a put may be applied and reported as failed; rows expire |
| DocumentDB (`mongo.go`) | mcpSessions, users, memberships | persist and delete a session, resolve organizations | memberships change between two requests and inside one; queries fail or break midway |
| Crypter (`crypto.go`) | none | Encrypt, Decrypt | best effort on login, required on refresh |
| Registration (`register_guard.go`, `register`) | buckets per address, clients table | register | window edges, forged headers, growth |
| Tool policy (`policy.go`) | a log of stamps per token | allow, audit | stamps taken before the mutex, one limiter per process |
| Platform client (`client.go`) | roster memo under a mutex | Get, GetJSON, cachedOrganizations | redirects, timeouts, concurrent fetches of the memo |
| Tools (`tools*.go`, `validate.go`) | none | twelve tools | checks before and after the roster is fetched, an unscoped call, the fan-out of get_recent_failures on one decision |
| HTTP edge (`requireBearer`, `withCORS`, discovery documents in `main.go`, `oauth.go`) | none | preflight, challenge, discovery | the first steps of a sign-in: a client that cannot read the challenge, or is sent to another deployment, never gets to the rest |
| Startup (`main`, `store_init.go`, `buildCrypter`, `initMongo`) | which store, crypter and database client a task has, for its life | select | silent fallback to a store in memory; tasks that found different things serve one login |
| Public pages, prompts, resources, stdio main | none | routing, fixed text, two reads | stateless |
| npm installer | a binary on disk | download, unpack, chmod | interrupted downloads |
| Infrastructure and workflows | declarative | - | how many tasks share which tables |

A request enters the hosted server through `requireBearer`, gets a `Client` with
its own token, and is served by an MCP server built for it; every tool is wrapped
in `guarded` (limiter, audit, plan errors) and reads platform-api, which looks the
token up in the sessions that the OAuth handlers wrote. So the authorization
server and the tools meet in one place, the row of `mcpSessions`. The hosted
server is stateless: its Client lives as long as one request. In the stdio
server one Client, with its roster memo, serves all calls of the process.

What makes each part correct:

* the authorization server: a login moves in one direction through its stages
  and is never duplicated, whatever is retried, lost or raced; nothing is granted
  that was not authenticated and approved; revocation and offboarding end access
  within a stated time;
* organization resolution: a session has the organizations its person holds,
  faults of the database take nothing away and give nothing back (section 3 says
  where the code falls short of this);
* the limiters: no more than the budget, no refusal without a spent budget, no
  growth;
* a tool call: only checked arguments leave, a call is left unscoped only on a
  recent roster, and reads on that decision for a bounded time;
* the fleet of tasks: a deploy takes from a client nothing that all running tasks
  can serve, secrets are stored under the key once there is one, and everybody is
  signed in once the tasks serve;
* get_recent_failures: the merged answer does not depend on the order in which
  concurrent fetches end, and the call always answers.

## 2. Modules

| Module | Models | State and actions |
|---|---|---|
| `OAuthFlow` | the OAuth handlers over the store, sessions and Cognito | `store` is the pending, codes and refresh tables (`stage` names the table and the key prefix); `req` is the program point and popped row of each handler goroutine; one action per fallible call (`CallbackPop`, `CallbackExchange`, `CallbackStash`, ...) |
| `LoginGrant` | the promise per login: none, asked, authenticated, approved, granted/live, over | abstract; `OAuthFlow` implements it by `Phase` and `Grants` |
| `Fleet` | the hosted server end to end: the edge, startup selection, and each OAuth handler as one step of any task | `task` is what each task found when it started (`Start`, `Stop`, `Provision`); `rows` are the shared tables and the stores in memory; `step` is the request each client makes next (`Challenge`, `Discover`, `Register`, ..., `Refresh`) |
| `OrgGrants` | `resolveUserOrgs` and the organizations that login and refresh carry | one request at a time (`FindBySub`, `FindByEmail`, `ReadMemberships`, `Persist`, `Rotate`) against `Change` |
| `RegisterGuard` | `register`, `rateLimiter`, `clientIP`, `validateRegistration` | `Register` is one step, as everything that matters happens under the mutex |
| `TokenLimiter` | `tokenLimiter.allow` as `guarded` calls it | `Arrive` reads the clock, `Allow` takes the mutex |
| `RosterCache` | `cachedOrganizations`, `resolveOrgID` | `ServeCached`, `Ask`, `Answer`, `Store`, `Fail` against `ChangeRoster` |
| `ToolCall` | a tool call from `guarded` to its answer; composes with `RosterCache` by extending it | `Begin`, the roster's actions, `ReadData`, `ReadFails`; for get_recent_failures `ListSubmissions`, `FetchNext`, `FetchEnds`, `MergeFetched`; `Tools` says what each of the twelve tools and the two resources checks when, and what it sends; a resource passes no guard |
| `RecentFailures` | `getRecentFailures` | one goroutine per submission (`Acquire`, `Deliver`, `Skip`), then `Finish`: merge (`MergedUpTo`, a recursive function over the submissions, as the loop), rank and answer. Init chooses what platform-api will answer |
| `OAuthFlowProofs`, `LoginGrantProofs` | theorems about `OAuthFlow`: safety and times, and its implementation of `LoginGrant` | the second extends the first |
| `ToolCallProofs` | theorems about `RosterCache` and `ToolCall` | |
| `FleetProofs`, `OrgGrantsProofs`, `RegisterGuardProofs`, `TokenLimiterProofs`, `RecentFailuresProofs` | theorems about the module each is named after | |

`MC...` modules give constants values and symmetry sets. An operator whose
comment begins with "Mutant:" is a plausible bug of the definition that follows
it; `PROJECT.json` pairs it with the properties that notice it. No specification
uses one.

## 3. Runs

| Run | Question | Bounds |
|---|---|---|
| `oauth_flow` | Do the safety invariants of the authorization server hold, and does it implement `LoginGrant`? | one login, two handlers, eight keys, clock to 6, TTLs of 1 and 2: two handlers can race for each row, and the clock reaches past a code grant's session and past a rotation |
| `fleet` | Does a login survive tasks that differ, are secrets stored under the key, and is everybody signed in and silently refreshed once the tasks serve? | two tasks, one client in a browser, four environments to begin with (before the refresh table and the key, with the key, without issuer and database, without tables), every variable provisioned at any time: each pair of different tasks meets at each step of a login |
| `token_limiter` | Is the budget kept, earned and forgotten in one process? | limit 2, window 3, skew 1, five calls of two tokens from two goroutines: the budget fills, ages out and fills again while stamps arrive out of order |
| `register_guard` | The same for registration, and what is stored | limit 2, window 2, six calls in six instants: three windows |
| `tool_call` | What arguments leave, and how old is the roster behind what a call reads? | two calls, two organizations, TTL 1, round trip 1, clock to 4, one change, up to three submissions through two slots: fetches of the roster overlap, an old answer overwrites a new one, the memo ages, a read waits for a slot, and the clock reaches past the bound of one wave |
| `recent_failures` | Is the answer right in every completion order, and does it come? | three submissions through two slots, up to two failed rows each of two tests (the same test twice is a retry) or without an id: one goroutine always waits, ties and ranks both occur |
| `org_grants` | What does a session grant while everything changes? | one organization, four changes, four requests |

No definition of `OAuthFlow` lets one login read another's row, and every property
of it speaks of one login at a time; that many logins in one store do not disturb
each other is proved (`GrantIsUnique`, `LoginGrantIsKept`).

The properties of `OrgGrants` speak of each organization alone, and no
definition relates two, except that a broken cursor loses some of them; one
organization is enough for the passing run, and the violation runs use two.

Five runs are expected to be violated. Each states what a comment or a document
says and the code does not do (`findings` in `PROJECT.json`):

* `offboarding`: "access ends within one access-token TTL" (`oauth.go:81`, `:636`)
  leaves out a login that has passed Cognito when the account is disabled. What
  does hold is `OffboardingBound`, which adds the time such a login may take.
* `token_budget`: "120 tool calls per hashed token per rolling minute"
  (`SECURITY.md:86`) is the budget of one process, and two run in production.
* `inspected`: `failure_count` counts "how many of the inspected submissions"
  failed, but a submission whose fetch failed counts as inspected. A test asserts
  that count (`recent_failures_test.go:190`, "both were attempted"), so it may be
  the wording that is to change.
* `revocation`: a missing user document is taken for a transient error, and the
  organizations are granted again at every refresh.
* `truncated`: a memberships cursor that breaks is taken for its end, so that a
  live user loses organizations.

Deadlock is checked in `fleet`, which can always go on. Elsewhere it is off: the
clocks and the numbers of requests are bounded, and `RecentFailures` ends when the
tool has answered. That the tool does answer is the liveness property `Answers`.

**Fairness.** `RecentFailures` assumes weak fairness of each goroutine's steps and
of the merge: the Go scheduler runs a runnable goroutine, a free slot of a channel
goes to a waiting sender, and the `http.Client` gives up after 30 s, so that a
fetch ends either way. `Fleet` assumes weak fairness of the requests of each client
and of the expiry of its access token: a client, with its user, goes on with the
login it began, and an hour passes. It assumes nothing of tasks, deploys or luck
with AWS: `SignsIn` and `SilentRefresh` are promises from the time on at which
every task has what the property names (`Serving`, `Settled`). No other liveness is
claimed; where the clock stops at a bound, a promise about what comes after it
would be empty.

**Time.** A model clock counts in a unit that stands for the shortest lifetime in
it. A handler may run for `HandlerDelay` (the Cognito client gives up after 10 s;
DynamoDB and DocumentDB calls end with the request's context) and a request to
platform-api for `RoundTrip` (30 s, the `Timeout` of the http.Client, which bounds
a request and its redirects together): these are assumptions about the environment
and appear as guards of `Tick`. So does, in `ToolCall`, that what a call does
between its reads takes no time: a goroutine does not wait beside a free slot, and
a call whose reads are over answers.

## 4. Proofs

TLC sees one or two logins, calls or tasks; the theorems hold for every number of
them and for every value of the constants that satisfies the named assumptions
(`TTLAssumption`, `FleetAssumption`, `GuardAssumption`, `RosterAssumption`,
`ToolAssumption`, `LimiterAssumption`, `FanOutAssumption`: bounds and lifetimes are
natural numbers, a TTL, a limit or the number of slots is positive, browsers are
clients, a call waits for the mutex less than a window, names are ordered). No set of nodes, tokens, tests or calls is assumed to be finite.

**OAuthFlowProofs.** `TypeOK` is inductive by itself. `UniqueGrant` is not: that a
handler's put does not make a second row needs that nobody else holds the login,
and that a session from a code is the only one needs to know where its login can
still be. `GrantInv` adds `Alone` (a login is in one row or one handler),
`RowsEarned` and `HoldersEarned` (what a stage or a program point says of the
login's past), `CodeSpent` (a login with a session from a code is past its code)
and `RevokedStaysDead`. Most actions are one of three kinds, taking a row,
working on it, giving one back; each kind has its lemma, and each action is
shown to be of a kind. Results: `TypeCorrect`, `GrantIsUnique`,
`CodeGrantsOnce`, `GrantIsApproved`, `RevocationIsFinal`.

Times, in the same module: no variable says how old a login is. `TimingInv` bounds
each row and each handler by the step before it (`RowTimes`, `HolderTimes`), back
to the instant Cognito authenticated the user, which is not after the account was
disabled (`AuthTimes`); `Span` adds the lifetimes up. Results: `RefreshStops`,
`OffboardingIsBounded`, `WindowIsFixed`.

**LoginGrantProofs.** Every step of `OAuthFlow` is a step of `LoginGrant` or none,
under `Phase` and `Grants`. The phase of a login is a function of where its row or
its handler is, which is well defined by `Alone` (`PhaseIsTold`). A take, a piece
of work and a give move one login and leave every other where it was
(`TakeMoves`, `WorkMoves`, `GiveMoves`); a table of the phases before and after
(`RowPhases`, `HolderPhases`) shows each move to be one that the promise allows.
Result: `LoginGrantIsKept`.

**FleetProofs.** `FleetInv` adds to the types that a running task still has what its
environment and its luck called for when it started (`ChoiceKept`), without which
a task could begin to write in the clear, and that only a signed-in client holds a
refresh token (`TokensAreLate`), without which giving up in the middle of a login
could take one away. `LoginsSurvive` has two halves: what a client holds stays in
the tables (`ReachableNext`), and it holds on to what all running tasks can serve
(`LoginsLast`): its registration, since a login under way is that of a registered
client (`LoginsAreRegistered`); a login that Cognito completes at each of them; a
refresh token whose table and secret each of them can use. The last two conditions
are needed: a task without Cognito, without the refresh table or with another
crypter ends the login it meets. Results: `FleetTypes`, `SecretsStaySealed`,
`LoginsSurvive`.

Signing in, in the same module, is a descent: `Distance` counts the answers a
client is from its session, nine at most, and a login is `OnTrack` when every key
it holds is in the tables and carries its organizations. While every task serves,
each answer to a client comes nearer or puts it on track, once, and no step of
another actor takes it back (`RequestAdvances`, `WaitsInPlace`; as one property
`LoginsAdvance`). Stage by stage (`StageEnds`) this makes the temporal theorem
`ClientsThatGoOnSignIn`: from the time on at which every task serves, a client that
goes on has a session with its organizations again and again. `SignsIn` says the
same under `Fairness`; what is left between the two is that a request can always be
served, which is ENABLED and stays with TLC.

`SilentRefresh` needs no fairness and is proved as it stands: a token that is
`Redeemable` stays so until its window ends, and the first answer to a refresh
leaves the client with such a token or with none (`Kept`). Either that answer
comes, and no refresh is refused after it, or no refresh is answered at all.
Results: `LoginsComeCloser`, `ClientsThatGoOnSignIn`, `RefreshesAreSilent`.

**OrgGrantsProofs.** A session is a copy of what its request resolved, so the
promises about sessions rest on what is known of the request at each query.
`GrantsInv` says that the row, the request and the last-known set hold only what
was held since the login (`AllHeld`), that a request without a fault so far goes by
some document there was, and by the preferred one as long as the documents stay the
same (`SoundSoFar`), and that what was ruled out is neither in a membership nor in a
set that may still be used (`NoWayBack`). Results:
`GrantsTypes`, `NothingIsInvented`, `SoundResolutions`, `RevocationsLast`.

**RegisterGuardProofs.** The limiter keeps a count and a reset time; its promises
speak of every request served. `GuardInv` ties them (`CountsRight`): the count of a
bucket is the number of requests of its address let through since it was opened,
and in the window before that there was at most one budget. Any span of one window
is covered by two such spans, which gives the bound of two budgets; that a refusal
was earned, and that a bucket left in the map was used, follow from the count.
Results: `GuardTypes`, `BudgetHolds`, `RefusalsAreEarned`, `MapStaysSmall`,
`StoredClientsAreSafe`.

**ToolCallProofs.** First `RosterCache`: no variable holds the age of a roster; the
memo has its expiry and a call its beginning. `RosterInv` says that what a call was answered
was the roster after the call began (`AnswersAreRecent`), that a call is no older
than a round trip (`CallsAreRecent`), and that what the memo holds was the roster
at most TTL + RoundTrip before it expires (`MemoIsRecent`). Result:
`RosterIsYoung`.

Then the calls: every step of `ToolCall` is a step of `RosterCache` or leaves
it alone (`ToolCallUsesRoster`), so `RosterIsYoung` carries over. `ToolInv` adds
that a call with something wrong still has a check before it that will fail
(`CallsChecked`, from the lemma `EveryToolChecks` over the table of tools) and
that a read rests on a recent roster (`ReadsAreRecent`). How long a fan-out takes is
not stored anywhere either. `Paced` numbers its reads by the order in which they got
a slot, and says that one among the first `w + 1` rounds of slots began within
`w + 1` round trips of the last instant at which the call, given its roster, can
have begun its first read. Time passes only while every slot is
taken or nobody waits; the oldest of the reads that hold the slots is then a round
behind the next one (`OldestOfAll`, a pigeonhole), and it ends within a round trip
(`StillPaced`). Results: `ToolTypeCorrect`, `OnlyCheckedIsSent`, `ScopedDataIsYoung`.

**TokenLimiterProofs.** A log forgets, stamps enter it out of order, and the
promises are about every call ever answered. `LimiterInv` says what survives that:
stamps are at most a skew out of order (`LogsInOrder`, since no call waits longer,
`WaitsAreShort`), and a log never has more young stamps than calls were admitted,
and exactly as many for every age that a call still waiting could ask about
(`LogsRemember`). Pruning keeps this although the scan stops at the first young
stamp (`PruneKeeps`): what it leaves behind that stamp is at most a skew older. An
admission then counts calls, not stamps, and the budget follows; a refusal had a
full log, each stamp of which was a call. `BudgetOfTasks` adds the budgets of any
finite set of processes up: it is what holds in place of the sentence that
`token_budget` refutes. Results: `LimiterTypes`, `BudgetIsKept`,
`FleetBudgetIsKept`, `RefusalsAreFair`, `LogsStayShort`.

**RecentFailuresProofs.** `FetchInv` ties the semaphore to the goroutines, what is
stored to what was listed (`StoredAsListed`) and the answer to the end of all
goroutines (`AnswersLast`); it says nothing of the order in which fetches end,
which is why the answer cannot depend on it. The merge is a recursive function.
That it computes `RowsUpTo`, the rows of their declarative definition, is shown by
induction over the submissions (`RowsStep`, `MergedIsRows`). The library's
induction theorems take a predicate as a parameter, which the provers cannot
instantiate, so the induction is over a set: the
least number missing from it (`LeastOf`, from the well-foundedness of `<`) would be
0 or follow one that is there (`AllUpTo`). That a ranked order has every row once
is the fact that a surjection between finite sets of one size is injective
(`RankedOnce`). `Answers` itself is liveness; what it needs of the state is proved:
until the tool has answered somebody can move, where the sort has a result for any
rows (`RankedExists`), and every step leaves fewer to take. `Placed` says which
places the counts and names of all failed tests leave to a test: behind those that
outrank it, before those it outranks. A ranked order puts every row at such a place
(`RankedPlaces`, by counting), and a place is left only to tests of one tie
(`OnePlaceOneTie`). Results: `FetchTypes`, `FetchesAreBounded`, `MergeIsRight`,
`RankingIsDetermined`, `OnePlaceOneTie`, `FetchNeverBlocks`, `FetchStepsRunOut`.

**Only model-checked:** the liveness properties `Answers` and `SignsIn`, as fairness
and ENABLED are out of the prover's reach; what each needs besides is proved above.
Every other property of a passing run is a theorem.

## 5. Abstractions

* Keys, codes and tokens are numbered as they are minted; only somebody who was
  given one can present it (they have 128 bits and more). PKCE, client id and
  redirect URI of a request either match or not.
* DynamoDB's TTL reaper is not an action: it removes only rows that every reader
  rejects already. `Expires` truncated to seconds is below the clock's unit.
* A put that was reported as failed may have been applied, but not later than the
  handler's answer. The hint of a revocation decides the order of the two
  deletes only.
* The second look at a client's registration in the consent handler is part of
  `ConsentRefuse`. A disabled account is not enabled again.
* The memory store behaves as the DynamoDB store for one process. `OAuthFlow` has
  the store that all tasks share; a store in memory, and its loss with the process,
  are in `Fleet`.
* In `Fleet` a handler is one step and lifetimes are events (`AccessExpires`,
  `WindowEnds`): calls that fail, crashes between them and the clock are
  `OAuthFlow`'s. A client presents only the keys it holds now, so a row that
  nobody can reach is dropped at once.
* In `ToolCall` the limiter may refuse any call (when it does is `TokenLimiter`'s
  question), a call has at most one bad argument, and only arguments with a
  validator are named. Statuses and plan texts end a call with an error alike.
* `ToolCall` has no URLs. `resolveAPIURL` checks that a request goes to the
  configured base and `sameHostRedirect` compares each hop with the first request;
  both decide from their arguments alone, where a unit test reaches as far as a
  model. In `ToolCall` a refused URL or redirect is a read that fails.
* `ToolCall` bounds what one call lists by `Fetches` (50, which platform-api is
  asked for); what the reads return is in `RecentFailures`, whose fan-out is the
  same one without a clock.
* `RecentFailures` takes a listing's page of failed tests as complete (the code
  asks for 100); tests are told apart by id and by their place in their listing.
  The sort and the map's iteration order are one nondeterministic choice of a
  ranked order; `OrderIsDetermined` says what that choice may change.
* The audit line, logging, HTML, metadata documents and badge parsing are left out.

## 6. Remarks on the code

Observations made while modelling; no run is about them.

* `.infra/main.tf:126-130` says that without either `OAUTH_REFRESH_TABLE` or
  `OAUTH_KMS_KEY_ARN` the server goes without silent refresh. With the table and
  without the key `buildCrypter` chooses `plaintextCrypter`, and refresh tokens are
  issued over Cognito tokens stored in base64. `SealedStays` therefore speaks of
  deployments that have the key.
* `PopRefresh` comes before `Decrypt`, so a task that started without AWS
  (`erroringCrypter`) consumes the refresh tokens it is sent: it does more than
  "won't issue refresh tokens" (`crypto.go:89-91`). The client signs in again;
  `SilentRefresh` holds once every task has the key.
* A hop ends what the task it meets cannot serve: a task without Cognito ends a
  login at its callback, one without the refresh table or with another crypter ends
  a refresh token. `LoginsSurviveDeploys` therefore asks it of every task that runs,
  and `SilentRefresh` and `SignsIn` say that it ends once the tasks agree.
* A migration of a person from a legacy document to one with a sub, between the
  lookup and the memberships of one resolution (`mongo.go:106-120`), can leave the
  session without an organization held throughout, without any fault.
  `SoundIsCurrent` promises the lower half only while the documents stay the same.
* A task whose first ping of DocumentDB failed stays without a database for its
  life (`main.go`), and its sessions are not seen by platform-api. `Serving` needs
  every task to have one.
* The two resources are read without the limiter and without an audit line.

## 7. Not modelled

* The npm installer (`npm/lib/install.js`): a sequential script of a client
  machine. Its one hazard, a partial download that the next run takes for an
  installed binary, is listed.
* Public pages, prompts, and the stdio server's `main`: fixed text and wiring, with
  no state that a later request reads. What the stdio server shares between calls,
  the roster memo, is in `ToolCall`.
* Decoding and shaping of the tools' results, except for get_recent_failures; badge
  parsing; HTML; logging and the audit line.
* Infrastructure, release workflows and scripts are declarative; the model takes
  from them how many tasks there are, what they share and which variables they get.

What could still be added: the organizations of a session through the rotations of
a family, with the store of `OAuthFlow` and the resolution of `OrgGrants` in one
module (`OrgGrants` has one row at a time).
