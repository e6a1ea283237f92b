------------------------------- MODULE Fleet -------------------------------
(***************************************************************************)
(* The hosted server end to end: clients that sign in through the edge     *)
(* (requireBearer, CORS, discovery), a load balancer that sends each       *)
(* request to any task, and tasks that chose their store, crypter and      *)
(* database client when they started.                                      *)
(*                                                                         *)
(* A task reads its environment and dials AWS and DocumentDB once; what it *)
(* found stays with it until it stops.  Tasks started before and after a   *)
(* change of the environment, or with and without luck, serve side by      *)
(* side during a deploy, and a login hops between them.                    *)
(*                                                                         *)
(* Simplifications: a handler is one step, as OAuthFlow has its calls, its *)
(* crashes and its races; lifetimes are events; a client presents only the *)
(* keys it holds now, so a row nobody can reach any more is swept at once  *)
(* instead of waiting for the reaper of its table.                         *)
(***************************************************************************)
EXTENDS FiniteSets

CONSTANTS
    Task,          \* ECS tasks behind the load balancer
    Client,        \* MCP clients, each with a user of its own
    Browser,       \* the clients that run in a browser
    InitialEnv,    \* environments a deployment may begin with
    Shared         \* the DynamoDB tables

\* The environment variables that decide something here.  OAUTH_TABLES are
\* the three tables of clients, codes and pending requests, COGNITO the
\* domain and the client ID.
Variable == {"MCP_ISSUER", "COGNITO", "MONGODB_URI", "OAUTH_TABLES",
             "OAUTH_REFRESH_TABLE", "OAUTH_KMS_KEY_ARN"}

ASSUME FleetAssumption ==
    /\ Shared \notin Task
    /\ Browser \subseteq Client
    /\ InitialEnv \subseteq SUBSET Variable

VARIABLES
    env,           \* the variables set for tasks that start now
    task,          \* each task, with what it found when it started
    rows,          \* the rows of the shared tables and of memory stores
    sessions,      \* what mcpSessions says of each client's access token
    step,          \* the request each client makes next
    registered,    \* clients that hold a client_id
    refreshable    \* clients that hold a refresh token

vars == <<env, task, rows, sessions, step, registered, refreshable>>
-----------------------------------------------------------------------------
Down == [up |-> FALSE]
Up == [up : {TRUE}, env : SUBSET Variable, awsForStore : BOOLEAN,
       awsForKMS : BOOLEAN, store : {"dynamo", "memory"},
       crypter : {"kms", "plaintext", "erroring"}, db : BOOLEAN]

\* `secret` is the Cognito refresh token that a row carries, `orgs` whether
\* it carries the organizations of its user.
RowOf(kinds, secrets, orgs) ==
    [at : Task \cup {Shared}, kind : kinds, client : Client,
     secret : secrets, orgs : orgs]
Row == RowOf({"client", "pending"}, {"none"}, {FALSE})
       \cup RowOf({"consent", "code"}, {"none", "plain", "sealed"}, BOOLEAN)
       \cup RowOf({"refresh"}, {"plain", "sealed"}, BOOLEAN)

\* A login passes through these requests, each with a key from the one before.
KeyOf == [callback |-> "pending", consent |-> "consent", code |-> "code"]
Step == {"start", "discover", "register", "authorize", "ready", "refresh"}
        \cup DOMAIN KeyOf

\* Every variable has its type; a refresh token always has an upstream one.
TypeOK ==
    /\ env \subseteq Variable
    /\ task \in [Task -> {Down} \cup Up]
    /\ rows \subseteq Row
    /\ sessions \in [Client -> {"none", "empty", "scoped"}]
    /\ step \in [Client -> Step]
    /\ registered \subseteq Client
    /\ refreshable \subseteq Client

Init ==
    /\ env \in InitialEnv
    /\ task = [t \in Task |-> Down]
    /\ rows = {}
    /\ sessions = [c \in Client |-> "none"]
    /\ step = [c \in Client |-> "start"]
    /\ registered = {}
    /\ refreshable = {}
-----------------------------------------------------------------------------
(* Starting and stopping a task.                                           *)

\* Mutant: the refresh table is part of the gate.
StoreGateWantsRefresh(e, aws) ==
    IF {"OAUTH_TABLES", "OAUTH_REFRESH_TABLE"} \subseteq e /\ aws
    THEN "dynamo" ELSE "memory"

\* The refresh table is not part of the gate, so the code can be deployed
\* before the table exists.
buildOAuthStore(e, aws) ==
    IF "OAUTH_TABLES" \in e /\ aws THEN "dynamo" ELSE "memory"

\* Mutant: a key that cannot be used is treated as no key.
CrypterFallsBack(e, aws) ==
    IF "OAUTH_KMS_KEY_ARN" \in e /\ aws THEN "kms" ELSE "plaintext"

buildCrypter(e, aws) ==
    IF "OAUTH_KMS_KEY_ARN" \notin e THEN "plaintext"
    ELSE IF aws THEN "kms" ELSE "erroring"

\* What a call to AWS or DocumentDB may find: asked only when configured.
Luck(variable) == IF variable \in env THEN BOOLEAN ELSE {FALSE}

\* main: initMongo, buildOAuthStore, buildCrypter, each once.
Start(t) ==
    /\ task[t] = Down
    /\ \E db \in Luck("MONGODB_URI"), forStore \in Luck("OAUTH_TABLES"),
          forKMS \in Luck("OAUTH_KMS_KEY_ARN") :
          task' = [task EXCEPT ![t] =
                     [up |-> TRUE, env |-> env,
                      awsForStore |-> forStore, awsForKMS |-> forKMS,
                      store |-> buildOAuthStore(env, forStore),
                      crypter |-> buildCrypter(env, forKMS), db |-> db]]
    /\ UNCHANGED <<env, rows, sessions, step, registered, refreshable>>

\* A deploy, a scale-in or a crash: a store in memory goes with its process.
Stop(t) ==
    /\ task[t].up
    /\ task' = [task EXCEPT ![t] = Down]
    /\ rows' = {x \in rows : x.at # t}
    /\ UNCHANGED <<env, sessions, step, registered, refreshable>>

\* The environment gains a variable; tasks see it when they start.
Provision(variable) ==
    /\ variable \notin env
    /\ env' = env \cup {variable}
    /\ UNCHANGED <<task, rows, sessions, step, registered, refreshable>>
-----------------------------------------------------------------------------
(* The store a task uses.                                                  *)

Place(t) == IF task[t].store = "memory" THEN t ELSE Shared

At(place, kind, c) ==
    {x \in rows : x.at = place /\ x.kind = kind /\ x.client = c}
Has(place, kind, c) == At(place, kind, c) # {}

\* The rows of a client that only its flow and its tokens reach.
Flow(c) == {x \in rows : x.client = c /\ x.kind # "client"}

NewRow(t, kind, c, secret, orgs) ==
    [at |-> Place(t), kind |-> kind, client |-> c, secret |-> secret,
     orgs |-> orgs]

\* PutRefresh and PopRefresh of a task that knows no refresh table store
\* and find nothing.
StoresRefresh(t) ==
    task[t].store = "memory" \/ "OAUTH_REFRESH_TABLE" \in task[t].env

GoTo(c, s) == step' = [step EXCEPT ![c] = s]

\* The answer is an error: the client begins a login again, and no row of
\* the old one can be reached.
GiveUp(c) ==
    /\ GoTo(c, "start")
    /\ rows' = rows \ Flow(c)
    /\ refreshable' = refreshable \ {c}

\* The client's next key is in `x`; the row it presented is gone.
Advance(c, s, x) ==
    /\ GoTo(c, s)
    /\ rows' = (rows \ Flow(c)) \cup {x}
-----------------------------------------------------------------------------
(* The edge.                                                               *)

Issuer(t) == IF "MCP_ISSUER" \in task[t].env THEN "own" ELSE "default"

\* What an Authorization header may look like to extractToken.
Header == {"missing", "scheme only", "other scheme", "no credential",
           "bearer", "token"}
extractTokenFails(h) == h \notin {"bearer", "token"}

\* Mutant: /mcp is the SDK handler itself, which answers 400 without a token.
unguarded(t, method, h) ==
    IF method = "OPTIONS" THEN [status |-> 204, challenge |-> "none"]
    ELSE IF extractTokenFails(h) THEN [status |-> 400, challenge |-> "none"]
    ELSE [status |-> 200, challenge |-> "none"]

\* Mutant: the challenge names the production host.
challengesDefault(t, method, h) ==
    IF method = "OPTIONS" THEN [status |-> 204, challenge |-> "none"]
    ELSE IF extractTokenFails(h) THEN [status |-> 401, challenge |-> "default"]
    ELSE [status |-> 200, challenge |-> "none"]

\* withCORS answers a preflight, requireBearer a request without credentials.
serveMCP(t, method, h) ==
    IF method = "OPTIONS" THEN [status |-> 204, challenge |-> "none"]
    ELSE IF extractTokenFails(h) THEN [status |-> 401, challenge |-> Issuer(t)]
    ELSE [status |-> 200, challenge |-> "none"]

\* The response headers a script may read.
Exposed == {"Mcp-Session-Id", "Mcp-Protocol-Version", "WWW-Authenticate"}

\* A browser sends its request only after a preflight, and its script sees
\* the challenge only if that header is exposed.
Sees(c, t, answer) ==
    /\ answer.status = 401
    /\ c \in Browser => /\ serveMCP(t, "OPTIONS", "missing").status = 204
                        /\ "WWW-Authenticate" \in Exposed

\* A client without credentials calls /mcp.  It goes on if it can read where
\* to authenticate, and if that is this deployment.
Challenge(t, c) ==
    /\ step[c] = "start"
    /\ \E h \in Header :
          /\ extractTokenFails(h)
          /\ LET answer == serveMCP(t, "POST", h)
             IN  IF Sees(c, t, answer) /\ answer.challenge = "own"
                 THEN GoTo(c, "discover") ELSE UNCHANGED step
    /\ UNCHANGED <<env, task, rows, sessions, registered, refreshable>>

\* The protected-resource document names the authorization server, whose
\* metadata names the endpoints: both are built from the issuer.
Discover(t, c) ==
    /\ step[c] = "discover"
    /\ GoTo(c, IF Issuer(t) # "own" THEN "start"
               ELSE IF c \in registered THEN "authorize" ELSE "register")
    /\ UNCHANGED <<env, task, rows, sessions, registered, refreshable>>
-----------------------------------------------------------------------------
(* The authorization server, one handler to a step.                        *)

Register(t, c) ==
    /\ step[c] = "register"
    /\ registered' = registered \cup {c}
    /\ Advance(c, "authorize", NewRow(t, "client", c, "none", FALSE))
    /\ UNCHANGED <<env, task, sessions, refreshable>>

\* Cognito redirects to the issuer's /oauth/callback, and hands tokens only to
\* a request that names the same redirect URI.
CognitoReturns(t) == "COGNITO" \in task[t].env /\ Issuer(t) = "own"

\* A task that does not know the client sends it back to register; its old
\* client_id is of no further use.
Authorize(t, c) ==
    /\ step[c] = "authorize"
    /\ IF ~CognitoReturns(t)
       THEN GiveUp(c) /\ UNCHANGED registered
       ELSE IF ~Has(Place(t), "client", c)
       THEN /\ registered' = registered \ {c}
            /\ GoTo(c, "register")
            /\ rows' = {x \in rows : x.client # c}
            /\ UNCHANGED refreshable
       ELSE /\ Advance(c, "callback", NewRow(t, "pending", c, "none", FALSE))
            /\ UNCHANGED <<registered, refreshable>>
    /\ UNCHANGED <<env, task, sessions>>

\* Encrypt: an error leaves the login without an upstream refresh token.
Encrypt(t) == CASE task[t].crypter = "kms"       -> "sealed"
                [] task[t].crypter = "plaintext" -> "plain"
                [] task[t].crypter = "erroring"  -> "none"

\* Mutant: a refresh token that cannot be encrypted ends the login.
CallbackNeedsSecret(t, c) ==
    /\ step[c] = "callback"
    /\ IF CognitoReturns(t) /\ Has(Place(t), "pending", c) /\ Encrypt(t) # "none"
       THEN /\ Advance(c, "consent",
                       NewRow(t, "consent", c, Encrypt(t), task[t].db))
            /\ UNCHANGED refreshable
       ELSE GiveUp(c)
    /\ UNCHANGED <<env, task, sessions, registered>>

\* Without a database resolveUserOrgs fails and the login goes on.
Callback(t, c) ==
    /\ step[c] = "callback"
    /\ IF CognitoReturns(t) /\ Has(Place(t), "pending", c)
       THEN /\ Advance(c, "consent",
                       NewRow(t, "consent", c, Encrypt(t), task[t].db))
            /\ UNCHANGED refreshable
       ELSE GiveUp(c)
    /\ UNCHANGED <<env, task, sessions, registered>>

\* The user approves.
Consent(t, c) ==
    /\ step[c] = "consent"
    /\ \/ /\ ~Has(Place(t), "consent", c) \/ ~Has(Place(t), "client", c)
          /\ GiveUp(c)
       \/ /\ Has(Place(t), "client", c)
          /\ \E x \in At(Place(t), "consent", c) :
                Advance(c, "code", NewRow(t, "code", c, x.secret, x.orgs))
          /\ UNCHANGED refreshable
    /\ UNCHANGED <<env, task, sessions, registered>>

\* persistMCPSession, whose failure is only logged.
Session(t, orgs) ==
    IF ~task[t].db THEN "none" ELSE IF orgs THEN "scoped" ELSE "empty"

\* Mutant: a refresh token is issued without an upstream one.
AnswerAlwaysRefreshes(t, c, secret, orgs) ==
    /\ GoTo(c, "ready")
    /\ sessions' = [sessions EXCEPT ![c] = Session(t, orgs)]
    /\ IF StoresRefresh(t)
       THEN /\ rows' = (rows \ Flow(c))
                         \cup {NewRow(t, "refresh", c, secret, orgs)}
            /\ refreshable' = refreshable \cup {c}
       ELSE /\ rows' = rows \ Flow(c)
            /\ refreshable' = refreshable \ {c}

\* Mutant: the refresh token is handed out although it was not stored.
AnswerIgnoresPutRefresh(t, c, secret, orgs) ==
    /\ GoTo(c, "ready")
    /\ sessions' = [sessions EXCEPT ![c] = Session(t, orgs)]
    /\ rows' = (rows \ Flow(c)) \cup
                  {x \in {NewRow(t, "refresh", c, secret, orgs)} :
                      secret # "none" /\ StoresRefresh(t)}
    /\ refreshable' = IF secret # "none" THEN refreshable \cup {c}
                                         ELSE refreshable \ {c}

\* The tail of both grants: PutRefresh, and the answer.
Answer(t, c, secret, orgs) ==
    /\ GoTo(c, "ready")
    /\ sessions' = [sessions EXCEPT ![c] = Session(t, orgs)]
    /\ IF secret # "none" /\ StoresRefresh(t)
       THEN /\ rows' = (rows \ Flow(c))
                         \cup {NewRow(t, "refresh", c, secret, orgs)}
            /\ refreshable' = refreshable \cup {c}
       ELSE /\ rows' = rows \ Flow(c)
            /\ refreshable' = refreshable \ {c}

ExchangeCode(t, c) ==
    /\ step[c] = "code"
    /\ \/ ~Has(Place(t), "code", c) /\ GiveUp(c) /\ UNCHANGED sessions
       \/ \E x \in At(Place(t), "code", c) : Answer(t, c, x.secret, x.orgs)
    /\ UNCHANGED <<env, task, registered>>

\* Decrypt, and Cognito's verdict on the result: base64 decodes a ciphertext
\* of KMS as well, to bytes that Cognito refuses.
Recovers(t, secret) ==
    /\ "COGNITO" \in task[t].env
    /\ \/ task[t].crypter = "kms" /\ secret = "sealed"
       \/ task[t].crypter = "plaintext" /\ secret = "plain"

\* Mutant: the answer carries the old refresh token, which was popped.
RefreshWithoutRotation(t, c) ==
    /\ step[c] = "refresh"
    /\ \/ /\ ~StoresRefresh(t) \/ ~Has(Place(t), "refresh", c)
          /\ GiveUp(c)
          /\ UNCHANGED sessions
       \/ /\ StoresRefresh(t)
          /\ \E x \in At(Place(t), "refresh", c) :
                IF Recovers(t, x.secret)
                THEN /\ GoTo(c, "ready")
                     /\ sessions' = [sessions EXCEPT ![c] =
                                       Session(t, task[t].db \/ x.orgs)]
                     /\ rows' = rows \ Flow(c)
                     /\ UNCHANGED refreshable
                ELSE GiveUp(c) /\ UNCHANGED sessions
    /\ UNCHANGED <<env, task, registered>>

\* The pop comes first: a task that cannot decrypt has consumed the token.
\* Organizations are resolved again, or carried over without a database.
Refresh(t, c) ==
    /\ step[c] = "refresh"
    /\ \/ /\ ~StoresRefresh(t) \/ ~Has(Place(t), "refresh", c)
          /\ GiveUp(c)
          /\ UNCHANGED sessions
       \/ /\ StoresRefresh(t)
          /\ \E x \in At(Place(t), "refresh", c) :
                IF Recovers(t, x.secret)
                THEN Answer(t, c, x.secret, task[t].db \/ x.orgs)
                ELSE GiveUp(c) /\ UNCHANGED sessions
    /\ UNCHANGED <<env, task, registered>>

\* expires_in has passed: platform-api refuses the access token, and the
\* client refreshes it if it can.
AccessExpires(c) ==
    /\ step[c] = "ready"
    /\ sessions' = [sessions EXCEPT ![c] = "none"]
    /\ GoTo(c, IF c \in refreshable THEN "refresh" ELSE "start")
    /\ UNCHANGED <<env, task, rows, registered, refreshable>>

\* The 30-day window of a refresh token ends: it is as good as none.
WindowEnds(c) ==
    /\ step[c] = "ready" /\ c \in refreshable
    /\ rows' = rows \ Flow(c)
    /\ refreshable' = refreshable \ {c}
    /\ UNCHANGED <<env, task, sessions, step, registered>>
-----------------------------------------------------------------------------
Request(t, c) ==
    \/ Challenge(t, c) \/ Discover(t, c)  \/ Register(t, c)
    \/ Authorize(t, c) \/ Callback(t, c)  \/ Consent(t, c)
    \/ ExchangeCode(t, c) \/ Refresh(t, c)

\* The load balancer picks any task that runs.
Serve(c) == \E t \in Task : task[t].up /\ Request(t, c)

Next ==
    \/ \E t \in Task : Start(t) \/ Stop(t)
    \/ \E v \in Variable : Provision(v)
    \/ \E c \in Client : Serve(c) \/ AccessExpires(c) \/ WindowEnds(c)

Spec == Init /\ [][Next]_vars

\* A client goes on with what it began, its user included, and time passes.
Fairness ==
    \A c \in Client : WF_vars(Serve(c)) /\ WF_vars(AccessExpires(c))

FairSpec == Spec /\ Fairness
-----------------------------------------------------------------------------
(* What the fleet promises.                                                *)

Running == {t \in Task : task[t].up}

\* Every task that runs was given the tables and loaded its AWS configuration.
Sharing == \A t \in Running : /\ "OAUTH_TABLES" \in task[t].env
                              /\ task[t].awsForStore

\* Whatever a client holds is in the tables, where every task finds it.
Reachable ==
    \A c \in Client :
        /\ c \in registered => Has(Shared, "client", c)
        /\ c \in refreshable => Has(Shared, "refresh", c)
        /\ step[c] \in DOMAIN KeyOf => Has(Shared, KeyOf[step[c]], c)

\* The client has a login under way.
LogsIn(c) == step[c] \in {"authorize"} \cup DOMAIN KeyOf

\* Every task that runs knows the refresh table and can use what the refresh
\* token of the client stands for.
Redeems(c) ==
    \A t \in Running : /\ StoresRefresh(t)
                      /\ \A x \in At(Shared, "refresh", c) : Recovers(t, x.secret)

\* While every task that runs is given the tables, no deploy, crash or hop
\* moves what a client holds out of their reach, and no client has to register
\* again.  If they can all complete a login with Cognito, none that has reached
\* authorize is thrown back to its start, whatever crypters, databases and
\* refresh tables it meets; and a refresh token is lost only to its window or
\* to a task that does not know its table or cannot use its secret.
LoginsSurviveDeploys ==
    [][Sharing /\ Reachable =>
          /\ Reachable'
          /\ registered \subseteq registered'
          /\ \A c \in Client :
                /\ LogsIn(c) /\ (\A t \in Running : CognitoReturns(t))
                      => step'[c] # "start"
                /\ c \in refreshable /\ Redeems(c)
                      => c \in refreshable' \/ WindowEnds(c)]_vars

\* The key is set, for new tasks and for those that run, and nothing is
\* stored in the clear.
Sealed ==
    /\ "OAUTH_KMS_KEY_ARN" \in env
    /\ \A t \in Running : "OAUTH_KMS_KEY_ARN" \in task[t].env
    /\ \A x \in rows : x.secret # "plain"

\* Once the key is everywhere no Cognito refresh token is ever stored in the
\* clear again, whatever AWS answers to the tasks that start: a task that
\* cannot use the key does without.
SealedStays == [][Sealed => Sealed']_vars

\* Every task has what a login needs.  Neither the refresh table nor the key
\* is part of it, nor need the tasks agree on them.
Serving ==
    /\ Running = Task
    /\ \A t \in Task : /\ {"MCP_ISSUER", "COGNITO", "OAUTH_TABLES"} \subseteq task[t].env
                       /\ task[t].awsForStore /\ task[t].db

\* Once every task serves, every client that starts from a bare request to
\* /mcp gets, again and again, a session with its organizations, whatever it
\* held before and whichever task answers each request.
SignsIn ==
    <>[]Serving => \A c \in Client : []<>(sessions[c] = "scoped")

\* Every task has everything.
Settled == Serving /\ \A t \in Task : task[t].env = Variable /\ task[t].awsForKMS

\* Once every task has everything no refresh is refused any more: a login
\* made before is refused at most once, and the one after it lasts.
SilentRefresh ==
    <>[]Settled =>
        \A c \in Client :
            <>[][step[c] = "refresh" => step'[c] # "start"]_vars
=============================================================================
