-------------------------- MODULE MCPlatformServer --------------------------
(***************************************************************************)
(* A few well-formed requests under start, stop and signals, and, alone, a   *)
(* request of any shape to any route.                                        *)
(***************************************************************************)
EXTENDS PlatformServer, TLC

CONSTANTS r1, r2, s1, s2

Shape(path, method, host, origin, referer, query, body, service) ==
    [path |-> path, method |-> method, host |-> host, origin |-> origin, referer |-> referer,
     query |-> query, body |-> body, service |-> service]

Plain(path, method) == Shape(path, method, "configured", "allowed", "none", {}, TRUE, FALSE)

\* Issue a token, change a membership, log out; or a path nothing can decode.
WellFormed ==
    { Plain(Api(<<"session", "csrf">>), "GET"),
      Plain(Api(<<"workspaces", "w", "members", "m", "disable">>), "POST"),
      Plain(Api(<<"logout">>), "POST"),
      Plain(Api(<<"workspaces", Malformed, "members">>), "GET") }

\* Every route with its parameter given, and paths of none, with either method, and
\* with what a route may ask for missing one at a time: a query, the body, the host,
\* the origin.
PathsOf(routes) == {[k \in DOMAIN routes[i].path |->
                       IF routes[i].path[k] = Param THEN "x" ELSE routes[i].path[k]] :
                    i \in DOMAIN routes}
SomePaths == PathsOf(HTTP_ROUTE_CONTRACTS) \cup
             {<<"nothing">>, Api(<<"workspaces", Malformed, "nothing">>)}
Parameters == {"workspaceId", "appKey", "role", "status", "code", "state"}
AnyShape ==
    UNION { { Shape(path, method, "configured", "allowed", "none", query, TRUE, service) :
                query \in {{}, {"workspaceId", "appKey"}, {"role", "code"}, Parameters},
                service \in BOOLEAN }
            \cup { Shape(path, method, "configured", "allowed", "none", Parameters, FALSE, service) :
                service \in BOOLEAN }
            \cup { Shape(path, method, "configured", origin, referer, Parameters, TRUE, FALSE) :
                origin \in {"none", "allowed", "foreign"}, referer \in {"none", "allowed"} }
            \cup { Shape(path, method, host, "allowed", "none", Parameters, TRUE, FALSE) :
                host \in {"www", "other"} } :
            path \in SomePaths, method \in {"GET", "POST"} }

PathsAsked == {a.path : a \in WellFormed \cup AnyShape}

\* Only the first request has any shape; nothing else then arrives, and no signal.
MCArrivals(n) == IF n = 0 THEN WellFormed \cup AnyShape ELSE WellFormed

IsWellFormed(r) ==
    /\ req[r].q.session # NoSession
    /\ \E a \in WellFormed : \A f \in DOMAIN a : req[r].q[f] = a[f]
AloneUnlessWellFormed ==
    \A r \in Requests : Arrived(r) /\ ~ IsWellFormed(r) =>
        /\ r = r1 /\ ~ Arrived(r2) /\ req[r].q.session # s2
        /\ clock = 1 /\ signals = 0 /\ phase = "serving" /\ gone = {}
\* Which of two requests has which name does not matter: one naming of each pair.
Rank(r) == CHOOSE i \in 1 .. 4 : req[r].q.path = << Api(<<"workspaces", Malformed, "members">>),
    Api(<<"workspaces", "w", "members", "m", "disable">>), Api(<<"session", "csrf">>),
    Api(<<"logout">>) >>[i]
EachPairOnce ==
    /\ Arrived(r1) /\ Arrived(r2) => Rank(r1) <= Rank(r2)
    /\ Arrived(r1) /\ ~ Arrived(r2) /\ IsWellFormed(r1) => Rank(r1) < 4

\* The clock moves for the tokens: after the first instant nobody leaves and nobody
\* signals twice, and by the last nothing ends.
TokensAtTheLast ==
    /\ clock = MaxClock => signals = 0 /\ gone = {} /\ phase = "serving"
    /\ clock > 1 => signals <= 1 /\ gone = {}

AllWired == Dependencies
Ends == (s1 :> 2) @@ (s2 :> 4)
=============================================================================
