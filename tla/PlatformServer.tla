--------------------------- MODULE PlatformServer ---------------------------
(***************************************************************************)
(* The platform's process and the requests in it: the start and the stop   *)
(* of src/src/runtime/node-bootstrap.ts under                              *)
(* src/scripts/platform-start.mjs, requests that arrive, are dispatched    *)
(* and wait for the database at the awaits of src/src/http/node-adapter.ts *)
(* and src/src/http/handlers.ts, and the CSRF tokens of                    *)
(* src/src/http/csrf-token-service.ts in their table.                      *)
(*                                                                         *)
(* Between two awaits a request runs alone, so one action is what it does  *)
(* from one await to the next.  The mutations behind the admin routes are  *)
(* one step here (AdminTransaction takes them apart); launch, sign-in and  *)
(* service routes are answered in one step (AppLaunch, SignInState).       *)
(***************************************************************************)
EXTENDS HttpRoutes, FiniteSets

CONSTANTS Requests,     \* the requests of a behaviour
          Sessions,     \* the platform sessions
          Arrivals(_),  \* what a request may be after so many, its session and token apart
          EndOf,        \* EndOf[s]: when session s expires
          MaxTokens,    \* maxActiveCsrfTokensPerSessionPurpose
          TTL,          \* csrfTokenTtlSeconds
          MaxClock,     \* bound of the clock
          MaxSignals    \* bound of the signals a behaviour sends

ASSUME ServerAssumption ==
    /\ MaxTokens \in Nat \ {0} /\ TTL \in Nat \ {0}
    /\ MaxClock \in Nat \ {0} /\ MaxSignals \in Nat
    /\ EndOf \in [Sessions -> Nat]
    /\ \A n \in 0 .. Cardinality(Requests) :
         \A a \in Arrivals(n) : "path" \in DOMAIN a /\ a.path \in Paths

ASSUME RequestsAssumption == IsFiniteSet(Requests)

VARIABLES phase,      \* where executePlatformStart or the shutdown handler is
          pool,       \* the database client of start()
          accepting,  \* the server listens
          handlers,   \* the signals whose once-listener is registered
          signals,    \* the signals sent so far
          exit,       \* how the process ended
          clock, live, tokens, req, gone

process == <<phase, pool, accepting, handlers, signals, exit>>
data == <<live, tokens>>
vars == <<process, clock, data, req, gone>>

Signals == {"SIGINT", "SIGTERM"}

-----------------------------------------------------------------------------
(* Rows and requests. *)

\* A row of csrf_tokens; its id stands for its hash as well.
Row(id, s, at) == [id |-> id, session |-> s, createdAt |-> at, expiresAt |-> at + TTL]
Earlier == {Row(s, s, 0) : s \in Sessions}      \* issued by an earlier process
NoRow == [id |-> NoToken]

Idle == [pc |-> "idle"]
Waiting == {"token", "session", "begin", "insert", "commit", "revoke", "elsewhere"}
InFlight(r) == req[r].pc \in Waiting \cup {"body"}
Holding(r) == req[r].pc = "insert"              \* inside db.transaction
Arrived(r) == req[r].pc # "idle"
Issued == Earlier \cup {req[r].row : r \in {x \in Requests : Arrived(x) /\ req[x].row # NoRow}}

\* The request with a response; its client reads it unless it has gone.
Answered(rec, status) == [rec EXCEPT !.pc = "done", !.status = status]

Reads == {"platform_session_app_access", "platform_session_context",
          "platform_workspace_members", "platform_workspace_member_approvals",
          "platform_workspace_app_entitlements", "platform_workspace_audit_events"}
AdminWrites == {"platform_workspace_member_add", "platform_workspace_member_approval_revoke",
                "platform_workspace_member_role", "platform_workspace_member_disable",
                "platform_workspace_member_reactivate", "platform_workspace_member_remove",
                "platform_workspace_sqag_entitlement_status"}
BySession == Reads \cup AdminWrites \cup
             {"platform_session_csrf", "platform_app_launch", "platform_logout"}

\* A handler up to its first await.
Enter(rec) ==
    IF rec.id \in Pages THEN Answered(rec, 200)
    ELSE IF rec.id \notin BySession THEN [rec EXCEPT !.pc = "elsewhere"]
    ELSE IF rec.q.session = NoSession
    THEN Answered(rec, IF rec.id = "platform_logout" THEN 200 ELSE 401)
    ELSE IF rec.id = "platform_app_launch" THEN Answered(rec, 410)
    ELSE [rec EXCEPT !.pc = "session"]

\* The checks of the branch from the n-th on, up to the first that refuses or
\* has to look a token up.
Proceed(rec, n) ==
    LET checks == RouteChecks(rec.id)
        i == SelectInSubSeq(checks, n, Len(checks),
                            LAMBDA c : c = "security" \/ ~ Passes(c, rec.id, rec.q))
    IN  IF i = 0 THEN Enter([rec EXCEPT !.handled = TRUE])
        ELSE IF Passes(checks[i], rec.id, rec.q) THEN [rec EXCEPT !.pc = "token", !.check = i]
        ELSE Answered(rec, Refusal(checks[i], rec.id, rec.q))

\* handleNodePlatformHttpRequest up to its first await.
Dispatched(rec) ==
    LET host == HostRefusal(rec.q)
        routing == RoutingRefusal(rec.q)
    IN  IF host # 0 THEN Answered(rec, host)
        ELSE IF routing # 0 THEN Answered(rec, routing)
        ELSE Proceed([rec EXCEPT !.id = RouteOf[rec.q.path].id], 1)

-----------------------------------------------------------------------------
(* The process. *)

Init ==
    /\ phase = "off" /\ pool = "none" /\ accepting = FALSE
    /\ handlers = {} /\ signals = 0 /\ exit = "none"
    /\ clock = 1 /\ live = Sessions /\ tokens = Earlier
    /\ req = [r \in Requests |-> Idle] /\ gone = {}

\* start() up to its first await: the configuration is refused, or the pool is
\* created and asked for the posture of the database.
Start ==
    /\ phase = "off"
    /\ \/ phase' = "exited" /\ exit' = "1" /\ UNCHANGED pool
       \/ phase' = "posture" /\ pool' = "open" /\ UNCHANGED exit
    /\ UNCHANGED <<accepting, handlers, signals, clock, data, req, gone>>

\* MUTANT of Listen: the handlers are registered before the server listens.
ListenHandled ==
    /\ phase = "posture" /\ phase' = "listening" /\ handlers' = Signals
    /\ UNCHANGED <<pool, accepting, signals, exit, clock, data, req, gone>>

Listen ==
    /\ phase = "posture" /\ phase' = "listening"
    /\ UNCHANGED <<pool, accepting, handlers, signals, exit, clock, data, req, gone>>

\* The callback of listen: start() returns and the handlers are registered
\* before another event is taken.
Listening ==
    /\ phase = "listening" /\ phase' = "serving"
    /\ accepting' = TRUE /\ handlers' = Signals
    /\ UNCHANGED <<pool, signals, exit, clock, data, req, gone>>

\* MUTANT of StartFails: the catch of start() does not close the database.
FailLeavingPool ==
    /\ phase \in {"posture", "listening"}
    /\ phase' = "exited" /\ exit' = "1"
    /\ UNCHANGED <<pool, accepting, handlers, signals, clock, data, req, gone>>

\* The posture is refused, the dependencies cannot be composed or the port is
\* taken: the database is closed, whatever closing it says, and the process ends.
StartFails ==
    /\ phase \in {"posture", "listening"}
    /\ phase' = "exited" /\ exit' = "1" /\ pool' = "closed"
    /\ UNCHANGED <<accepting, handlers, signals, clock, data, req, gone>>

\* The process is gone; what it had not committed is undone by the database.
Dies(how) ==
    /\ phase' = "exited" /\ exit' = how
    /\ accepting' = FALSE /\ pool' = IF pool = "none" THEN "none" ELSE "closed"
    /\ req' = [r \in Requests |-> IF InFlight(r) THEN [req[r] EXCEPT !.pc = "dead"] ELSE req[r]]
    /\ UNCHANGED <<clock, data, gone>>

\* A signal: its listener runs once and, the first time, calls stop(), which
\* closes the server before its first await.  A signal without a listener
\* kills the process.
Signal(s) ==
    /\ phase \notin {"off", "exited"} /\ signals < MaxSignals
    /\ signals' = signals + 1
    /\ handlers' = handlers \ {s}
    /\ IF s \notin handlers THEN Dies("killed")
       ELSE IF phase = "serving"
       THEN /\ phase' = "closing" /\ accepting' = FALSE
            /\ UNCHANGED <<pool, exit, clock, data, req, gone>>
       ELSE UNCHANGED <<phase, accepting, pool, exit, clock, data, req, gone>>

\* MUTANT of ServerClosed: stop() closes the database while the server still
\* finishes its requests.
CloseTogether ==
    /\ phase = "closing"
    /\ phase' = "ending" /\ pool' = "ending"
    /\ UNCHANGED <<accepting, handlers, signals, exit, clock, data, req, gone>>

\* server.close calls back when the last connection is closed: every request
\* was answered or its client has gone.  The pool is ended then.
ServerClosed ==
    /\ phase = "closing"
    /\ \A r \in Requests : InFlight(r) => r \in gone
    /\ phase' = "ending" /\ pool' = "ending"
    /\ UNCHANGED <<accepting, handlers, signals, exit, clock, data, req, gone>>

\* pool.end() waits for the connections that transactions hold.
PoolEnded ==
    /\ phase = "ending" /\ \A r \in Requests : ~ Holding(r)
    /\ phase' = "exited" /\ exit' = "0" /\ pool' = "closed"
    /\ UNCHANGED <<accepting, handlers, signals, clock, data, req, gone>>

\* The server of the database drops an idle connection.  The pool emits an
\* error no listener takes, and the process ends with it.
IdleConnectionLost ==
    /\ pool = "open" /\ phase # "off"
    /\ Dies("uncaught")
    /\ UNCHANGED <<handlers, signals>>

Tick == clock < MaxClock /\ clock' = clock + 1 /\ UNCHANGED <<process, data, req, gone>>

-----------------------------------------------------------------------------
(* The requests. *)

\* The request as its browser sends it.
Sent(a, s, t) ==
    [f \in DOMAIN a \cup {"session", "token"} |->
        CASE f = "session" -> s [] f = "token" -> t [] OTHER -> a[f]]

\* A connection with a request: its session and token are the browser's, which
\* knows the tokens it was given for any of its sessions and sends one with a
\* POST.
Arrive(r, a, s, t) ==
    /\ accepting /\ req[r].pc = "idle"
    /\ t # NoToken => a.method = "POST"
    /\ req' = [req EXCEPT ![r] =
         [pc |-> "body", q |-> Sent(a, s, t), id |-> "none", at |-> 0,
          check |-> 0, handled |-> FALSE, seen |-> {}, row |-> NoRow, status |-> 0,
          changed |-> FALSE, wasLive |-> s \in live]]
    /\ UNCHANGED <<process, clock, data, gone>>

\* The client leaves.  A body that is still being read is never complete, and
\* the request fails; later on the handler does not notice.
Leave(r) ==
    /\ InFlight(r) /\ r \notin gone
    /\ gone' = gone \cup {r}
    /\ req' = IF req[r].pc = "body" THEN [req EXCEPT ![r] = Answered(@, 500)] ELSE req
    /\ UNCHANGED <<process, clock, data>>

\* MUTANT of Dispatch: what the handling of a request throws is not caught.
DispatchUncaught(r) ==
    /\ req[r].pc = "body"
    /\ RouteOf[req[r].q.path].id # "throws"
    /\ req' = [req EXCEPT ![r] = Dispatched([@ EXCEPT !.at = clock])]
    /\ UNCHANGED <<process, clock, data, gone>>

\* The body is there: the adapter reads the clock once and runs up to the
\* first await.  What it throws the server answers with 500.
Dispatch(r) ==
    /\ req[r].pc = "body"
    /\ req' = [req EXCEPT ![r] = Dispatched([@ EXCEPT !.at = clock])]
    /\ UNCHANGED <<process, clock, data, gone>>

\* A statement on the pool: it may fail at any time and fails once the pool is
\* being ended, except in a transaction that has its connection.
Statement(r, pc, ok) ==
    /\ req[r].pc = pc
    /\ ok => pool = "open" \/ pc = "insert"
    /\ UNCHANGED <<process, clock, gone>>

\* MUTANT of ValidToken: the lookup is by hash alone.
AnySessionsToken(rec) ==
    \E row \in tokens : row.id = rec.q.token.id /\ row.expiresAt > rec.at

\* The row is looked up by session and hash, and must not have expired when
\* the request was dispatched.
ValidToken(rec) ==
    \E row \in tokens :
        row.session = rec.q.session /\ row.id = rec.q.token.id /\ row.expiresAt > rec.at

\* validateHttpRequestSecurityForRoute after its await; a failure counts as an
\* invalid token.
LookUpToken(r, ok) ==
    /\ Statement(r, "token", ok)
    /\ req' = [req EXCEPT ![r] = IF ok /\ ValidToken(@) THEN Proceed(@, @.check + 1)
                                 ELSE Answered(@, 403)]
    /\ UNCHANGED data

\* MUTANT of SessionHolds: a revoked session is still taken.
SessionNotExpired(rec) == EndOf[rec.q.session] > rec.at

SessionHolds(rec) == rec.q.session \in live /\ EndOf[rec.q.session] > rec.at

\* The handler's own read of the session, after the security of the request.
ReadSession(r, ok) ==
    /\ Statement(r, "session", ok)
    /\ req' = [req EXCEPT ![r] =
         IF @.id = "platform_logout"
         THEN IF ok /\ @.q.session \in live THEN [@ EXCEPT !.pc = "revoke"]
              ELSE Answered(@, 200)
         ELSE IF ~ ok THEN Answered(@, 500)
         ELSE IF ~ SessionHolds(@) THEN Answered(@, IF @.id \in AdminWrites THEN 403 ELSE 401)
         ELSE CASE @.id \in Reads -> Answered(@, 200)
                [] @.id \in AdminWrites -> [@ EXCEPT !.pc = "commit"]
                [] OTHER -> [@ EXCEPT !.pc = "begin"]]
    /\ UNCHANGED data

\* The admin transaction commits.
CommitChange(r, ok) ==
    /\ Statement(r, "commit", ok)
    /\ req' = [req EXCEPT ![r] = IF ok THEN Answered([@ EXCEPT !.changed = TRUE], 200)
                                 ELSE Answered(@, 500)]
    /\ UNCHANGED data

\* sessions.revoke; the answer is the same when it fails.
Revoke(r, ok) ==
    /\ Statement(r, "revoke", ok)
    /\ live' = IF ok THEN live \ {req[r].q.session} ELSE live
    /\ req' = [req EXCEPT ![r] = Answered([@ EXCEPT !.changed = ok], 200)]
    /\ UNCHANGED tokens

OfSession(s, rows) == {row \in rows : row.session = s}

\* createBoundedForSession takes its snapshot.
BeginIssue(r, ok) ==
    /\ Statement(r, "begin", ok)
    /\ req' = [req EXCEPT ![r] =
         IF ok THEN [@ EXCEPT !.pc = "insert", !.seen = OfSession(req[r].q.session, tokens)]
         ELSE Answered(@, 500)]
    /\ UNCHANGED data

\* MUTANT of Kept: the newest are evicted, the oldest kept.
KeptOldest(rows, n) ==
    {k \in SUBSET rows : /\ Cardinality(k) = IF Cardinality(rows) < n THEN Cardinality(rows) ELSE n
                         /\ \A x \in k, y \in rows \ k : x.createdAt <= y.createdAt}

\* The n newest rows.  Rows of one instant are ordered by their random ids.
Kept(rows, n) ==
    {k \in SUBSET rows : /\ Cardinality(k) = IF Cardinality(rows) < n THEN Cardinality(rows) ELSE n
                         /\ \A x \in k, y \in rows \ k : x.createdAt >= y.createdAt}

\* MUTANT of Serializable: the transaction runs on its snapshot alone.
SnapshotOnly(r) == TRUE

\* Of two serializable issues for one session that overlap, the second to
\* commit has read the rows the first one changed and is aborted.
Serializable(r) == req[r].seen = OfSession(req[r].q.session, tokens)

\* Expired rows are deleted, the oldest of the others evicted to make room,
\* the new row inserted, and the transaction committed; it is not retried.
InsertToken(r, ok) ==
    /\ Statement(r, "insert", ok)
    /\ LET rec == req[r]
           active == {row \in rec.seen : row.expiresAt > rec.at}
           new == Row(r, rec.q.session, rec.at)
       IN  IF ok /\ Serializable(r)
           THEN \E kept \in Kept(active, MaxTokens - 1) :
                  /\ tokens' = (tokens \ (rec.seen \ kept)) \cup {new}
                  /\ req' = [req EXCEPT ![r] = Answered([@ EXCEPT !.row = new], 200)]
           ELSE req' = [req EXCEPT ![r] = Answered(@, 500)] /\ UNCHANGED tokens
    /\ UNCHANGED live

\* The handlers that other modules take apart.
Elsewhere(r) ==
    /\ Statement(r, "elsewhere", FALSE)
    /\ \E status \in {200, 302, 400, 401, 403, 500, 502} :
         req' = [req EXCEPT ![r] = Answered(@, status)]
    /\ UNCHANGED data

RequestStep(r) ==
    \/ Dispatch(r) \/ Elsewhere(r)
    \/ \E ok \in BOOLEAN :
         LookUpToken(r, ok) \/ ReadSession(r, ok) \/ CommitChange(r, ok)
         \/ Revoke(r, ok) \/ BeginIssue(r, ok) \/ InsertToken(r, ok)

ProcessStep == Listen \/ Listening \/ StartFails \/ ServerClosed \/ PoolEnded

Next ==
    \/ Start \/ ProcessStep \/ IdleConnectionLost \/ Tick
    \/ \E s \in Signals : Signal(s)
    \/ \E r \in {x \in Requests : accepting /\ ~ Arrived(x)} :
         \E a \in Arrivals(Cardinality({x \in Requests : Arrived(x)})), s \in Sessions \cup {NoSession}, t \in Issued \cup {NoToken} :
            Arrive(r, a, s, t)
    \/ \E r \in Requests : Leave(r) \/ RequestStep(r)

Spec == Init /\ [][Next]_vars

\* Every await ends: a query returns or fails, a body is read within the
\* server's own timeout, listen calls back, and a closing server closes.
FairSpec ==
    /\ Spec
    /\ WF_vars(ProcessStep)
    /\ \A r \in Requests : WF_vars(RequestStep(r))

-----------------------------------------------------------------------------
(* Properties. *)

\* Every variable has its type; until start() has returned nothing listens and
\* no signal is handled.
TypeOK ==
    /\ phase \in {"off", "posture", "listening", "serving", "closing", "ending", "exited"}
    /\ pool \in {"none", "open", "ending", "closed"}
    /\ accepting \in BOOLEAN /\ handlers \subseteq Signals /\ signals \in 0 .. MaxSignals
    /\ exit \in {"none", "0", "1", "killed", "uncaught"}
    /\ clock \in 1 .. MaxClock /\ live \subseteq Sessions /\ tokens \subseteq Issued
    /\ phase \in {"off", "posture", "listening"} => handlers = {} /\ ~ accepting
    /\ gone \subseteq Requests
    /\ \A r \in Requests : req[r].pc \in {"idle", "body", "done", "dead"} \cup Waiting

\* A session never has more tokens in the table than the maximum, though
\* issues for it overlap and read the clock in another order than they commit
\* (createBoundedForSession).
TokensBounded == \A s \in Sessions : Cardinality(OfSession(s, tokens)) <= MaxTokens

\* A token the browser was given stays in the table until an issue for the
\* same session saw it expired, or one took its place while as many tokens as
\* fit beside it, none of them older, were issued for that session: another
\* session's issue never takes it away (selectOldestCsrfTokenIds).  The issue
\* that takes its place may itself be of an earlier clock.
GivenTokenKept ==
    \A row \in Issued \ tokens :
        LET others == OfSession(row.session, Issued) \ {row}
        IN  \/ \E other \in others : other.createdAt >= row.expiresAt
            \/ \E last \in others :
                 Cardinality({o \in others \ {last} : o.createdAt >= row.createdAt})
                     >= MaxTokens - 1

\* Whatever a request changed it changed under a session that was live when
\* the request arrived and had not expired, with an unexpired token issued to
\* that very session: the token is checked before the session is read, and a
\* logout may come between (validateHttpRequestSecurityForRoute, the admin
\* handlers, handleLogoutRequest).
ChangesByRight ==
    \A r \in Requests : Arrived(r) /\ req[r].changed =>
        LET rec == req[r]
        IN  /\ rec.wasLive
            /\ \E row \in Issued : /\ row.id = rec.q.token.id
                                   /\ row.session = rec.q.session /\ row.expiresAt > rec.at
            /\ rec.id \in AdminWrites => EndOf[rec.q.session] > rec.at

\* What tokens are worth: few, kept, and nothing is changed without one.
TokenInvariant == TypeOK /\ TokensBounded /\ GivenTokenKept /\ ChangesByRight

\* A stop takes the database from nobody who still waits for an answer: the
\* pool is ended when every request was answered or its client has left
\* (stop() of createPlatformNodeBootstrap).
NobodyCutOff ==
    pool \in {"ending", "closed"} /\ exit \in {"none", "0"} =>
        \A r \in Requests : InFlight(r) => r \in gone

\* A process that ended left no pool behind and does not listen; one that
\* ended well has answered every request whose client stayed (start(), stop(),
\* createPlatformStartShutdownHandler).
NothingLeftBehind ==
    exit # "none" =>
        /\ pool \in {"none", "closed"} /\ ~ accepting
        /\ exit = "0" => \A r \in Requests \ gone : req[r].pc \in {"idle", "done"}

\* The end of a process, for those who wait for it and for the database.
StopInvariant == NobodyCutOff /\ NothingLeftBehind

\* A request reaches its handler only with what the contract of its route
\* asks for: the method, the query, the origin, and a token of its session
\* (HTTP_ROUTE_CONTRACTS against handleNodePlatformHttpRequest); it gets an
\* answer other than a refusal only with a session where one is required.
ContractKept ==
    \A r \in Requests : Arrived(r) /\ req[r].handled =>
        \E i \in DOMAIN HTTP_ROUTE_CONTRACTS :
            LET c == HTTP_ROUTE_CONTRACTS[i]
                rec == req[r]
            IN  /\ c.id = rec.id /\ c.method = rec.q.method
                /\ c.requiredQuery \subseteq rec.q.query
                /\ c.csrf => /\ RequestOrigin(rec.q) = "allowed"
                             /\ \E row \in Issued : row.id = rec.q.token.id
                                                    /\ row.session = rec.q.session
                /\ c.browserSession = "required" /\ rec.q.session = NoSession
                       => rec.pc = "done" /\ rec.status \in {401, 403}

\* A path of one route with its method is never answered as unknown or as
\* the wrong method: no route hides another one (findRouteByPath takes the
\* first match whatever its method).
NoRouteHidden ==
    \A r \in Requests : Arrived(r) /\ req[r].pc = "done" /\ req[r].status \in {404, 405} =>
        \A i \in DOMAIN HTTP_ROUTE_CONTRACTS :
            LET c == HTTP_ROUTE_CONTRACTS[i]
                q == req[r].q
            IN  ~ /\ c.method = q.method /\ Len(c.path) = Len(q.path)
                  /\ \A k \in DOMAIN c.path : c.path[k] \in {Param, q.path[k]}

\* Every request meets its route's contract, and none another route's.
RoutingInvariant == ContractKept /\ NoRouteHidden

\* A shutdown that has begun ends the process, whatever the requests in flight
\* meet.
ShutdownEnds == phase = "closing" ~> phase = "exited"

=============================================================================
