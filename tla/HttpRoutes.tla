----------------------------- MODULE HttpRoutes -----------------------------
(***************************************************************************)
(* The routes of the platform server and the checks a request passes       *)
(* before its handler runs: the contract table of                          *)
(* src/src/http/route-contracts.ts, and the checks the adapter of          *)
(* src/src/http/node-adapter.ts makes branch by branch, which nothing in   *)
(* the code ties to the table.                                             *)
(*                                                                         *)
(* A request is a record [path, method, host, origin, referer, session,    *)
(* token, query, body, service]: its path as a sequence of segments, the   *)
(* session its cookie names, the CSRF token it presents, the set of query  *)
(* parameters it gives, whether its body has the fields the route reads,   *)
(* and whether it carries the service's secret.                            *)
(***************************************************************************)
EXTENDS Sequences, SequencesExt, Naturals

CONSTANTS Paths,        \* the paths that are asked for
          Wired,        \* the optional dependencies the process was given
          PublicBase,   \* the configured public base URL: "none", "apex", "other" or "invalid"
          NoSession,    \* a request whose cookie names no session
          NoToken       \* a request with no well-formed x-csrf-token header

Dependencies == {"csrfTokenIssuer", "csrfTokenValidator", "authStart",
                 "authCallback", "appLaunchIntent", "appLaunchTokenConsume",
                 "sqagBrowserLaunch", "accessValidationGrant"}

ASSUME WiredAssumption == Wired \subseteq Dependencies
ASSUME PathsAssumption == Paths \subseteq Seq(STRING)
ASSUME PublicBaseAssumption == PublicBase \in {"none", "apex", "other", "invalid"}

-----------------------------------------------------------------------------
(* The table. *)

Param == ":"                       \* a segment that stands for any text
Malformed == "%"                   \* a segment decodeURIComponent throws on

Route(id, method, path, session, csrf, query) ==
    [id |-> id, method |-> method, path |-> path, browserSession |-> session,
     csrf |-> csrf, requiredQuery |-> query]

Api(path) == <<"api", "platform">> \o path
Workspace(path) == Api(<<"workspaces", Param>>) \o path
Open(id, method, path) == Route(id, method, path, "none", FALSE, {})
Read(id, path, query) == Route(id, "GET", path, "required", FALSE, query)
Write(id, path, query) == Route(id, "POST", path, "required", TRUE, query)
Service(id, path) == Open(id, "POST", <<"api", "internal", "sqag">> \o path)

PageRoutes ==
    << Open("platform_landing_page", "GET", << >>),
       Open("platform_solutions_page", "GET", <<"solutions">>),
       Open("platform_resources_page", "GET", <<"resources">>),
       Open("platform_resource_article_page", "GET", <<"resources", "platform-launch-boundaries">>),
       Open("platform_about_page", "GET", <<"about">>),
       Open("platform_contact_page", "GET", <<"contact">>),
       Open("platform_request_access_page", "GET", <<"request-access">>),
       Open("platform_login_page", "GET", <<"login">>),
       Open("platform_app_shell", "GET", <<"app">>),
       Open("platform_admin_shell", "GET", <<"app", "admin">>),
       Open("healthz", "GET", <<"healthz">>) >>

SessionRoutes ==
    << Open("platform_auth_start", "GET", Api(<<"auth", "start">>)),
       Route("platform_auth_callback", "GET", Api(<<"auth", "callback">>), "none", FALSE,
             {"code", "state"}),
       Read("platform_session_app_access", Api(<<"session", "app-access">>),
            {"workspaceId", "appKey"}),
       Read("platform_session_context", Api(<<"session", "context">>), {}),
       Read("platform_session_csrf", Api(<<"session", "csrf">>), {}) >>

AdminRoutes ==
    << Read("platform_workspace_members", Workspace(<<"members">>), {}),
       Write("platform_workspace_member_add", Workspace(<<"members", "add">>), {}),
       Read("platform_workspace_member_approvals", Workspace(<<"member-approvals">>), {}),
       Write("platform_workspace_member_approval_revoke",
             Workspace(<<"member-approvals", Param, "revoke">>), {}),
       Write("platform_workspace_member_role", Workspace(<<"members", Param, "role">>), {"role"}),
       Write("platform_workspace_member_disable", Workspace(<<"members", Param, "disable">>), {}),
       Write("platform_workspace_member_reactivate",
             Workspace(<<"members", Param, "reactivate">>), {}),
       Write("platform_workspace_member_remove", Workspace(<<"members", Param, "remove">>), {}),
       Read("platform_workspace_app_entitlements", Workspace(<<"app-entitlements">>), {}),
       Write("platform_workspace_sqag_entitlement_status",
             Workspace(<<"app-entitlements", "sqag", "status">>), {"status"}),
       Read("platform_workspace_audit_events", Workspace(<<"audit-events">>), {}) >>

LaunchRoutes ==
    << Write("platform_app_launch", Api(<<"apps", "launch">>), {"workspaceId", "appKey"}),
       Write("platform_sqag_launch_open", Api(<<"apps", "launch", "open">>),
             {"workspaceId", "appKey"}),
       Route("platform_app_launch_consume", "POST", Api(<<"apps", "launch", "consume">>),
             "none", FALSE, {"appKey"}),
       Service("platform_sqag_finalization_register", <<"finalizations", "register">>),
       Service("platform_sqag_finalization_consume", <<"finalizations", "consume">>),
       Service("platform_sqag_access_validate", <<"access", "validate">>),
       Service("platform_sqag_access_revoke", <<"access", "revoke">>),
       Route("platform_logout", "POST", Api(<<"logout">>), "optional", TRUE, {}) >>

HTTP_ROUTE_CONTRACTS == PageRoutes \o SessionRoutes \o AdminRoutes \o LaunchRoutes

Ids(routes) == {routes[i].id : i \in DOMAIN routes}
Pages == Ids(PageRoutes)
ServiceIds == {"platform_sqag_finalization_register", "platform_sqag_finalization_consume",
               "platform_sqag_access_validate", "platform_sqag_access_revoke"}

-----------------------------------------------------------------------------
(* From a path to its route. *)

\* MUTANT of MatchRoutePath: a pattern matches every path that begins with it.
PrefixMatch(pattern, path) ==
    IF Len(pattern) > Len(path) THEN "no"
    ELSE IF \A k \in DOMAIN pattern : pattern[k] \in {Param, path[k]} THEN "yes" ELSE "no"

\* The first segment that decides: a literal that differs, or a malformed one
\* where the pattern has a parameter.
MatchRoutePath(pattern, path) ==
    IF Len(pattern) # Len(path) THEN "no"
    ELSE LET i == SelectInSeq([k \in DOMAIN path |-> <<pattern[k], path[k]>>],
                              LAMBDA s : IF s[1] = Param THEN s[2] = Malformed
                                         ELSE s[1] # s[2])
         IN  IF i = 0 THEN "yes" ELSE IF pattern[i] = Param THEN "throws" ELSE "no"

\* The number of a path's route, 0 when there is none.
FindRouteByPath(path) ==
    SelectInSeq(HTTP_ROUTE_CONTRACTS, LAMBDA r : MatchRoutePath(r.path, path) # "no")

\* What is decided of a path alone: its route, "none" or "throws".
RouteOf == [path \in Paths |->
    LET i == FindRouteByPath(path)
    IN  IF i = 0 THEN [id |-> "none"]
        ELSE IF MatchRoutePath(HTTP_ROUTE_CONTRACTS[i].path, path) = "throws"
             THEN [id |-> "throws"] ELSE HTTP_ROUTE_CONTRACTS[i]]

-----------------------------------------------------------------------------
(* The checks of a branch, in the order the adapter makes them. *)

\* The query parameters a branch reads and insists on.  The callback's are
\* read by its handler.
QueryRead(id) ==
    CASE id \in {"platform_session_app_access", "platform_app_launch",
                 "platform_sqag_launch_open"}                  -> {"workspaceId", "appKey"}
      [] id = "platform_app_launch_consume"                    -> {"appKey"}
      [] id = "platform_workspace_member_role"                 -> {"role"}
      [] id = "platform_workspace_sqag_entitlement_status"     -> {"status"}
      [] id = "platform_auth_callback"                         -> {"code", "state"}
      [] OTHER                                                 -> {}

\* MUTANT of SecuredBranches: the branch that reactivates a member was written
\* without the call of validateAdminRouteSecurity.
OneForgotten ==
    {"platform_workspace_member_add", "platform_workspace_member_approval_revoke",
     "platform_workspace_member_role", "platform_workspace_member_disable",
     "platform_workspace_member_remove", "platform_workspace_sqag_entitlement_status",
     "platform_app_launch", "platform_sqag_launch_open", "platform_logout"}

\* The branches that call validateAdminRouteSecurity or
\* validateHttpRequestSecurityForRoute.
SecuredBranches ==
    {"platform_workspace_member_add", "platform_workspace_member_approval_revoke",
     "platform_workspace_member_role", "platform_workspace_member_disable",
     "platform_workspace_member_reactivate", "platform_workspace_member_remove",
     "platform_workspace_sqag_entitlement_status", "platform_app_launch",
     "platform_sqag_launch_open", "platform_logout"}

\* What a branch checks besides its query and the security of the request.
OtherChecks(id) ==
    CASE id = "platform_auth_start"           -> <<"authStart">>
      [] id = "platform_auth_callback"        -> <<"authCallback">>
      [] id = "platform_session_csrf"         -> <<"csrfTokenIssuer">>
      [] id = "platform_workspace_member_add" -> <<"body">>
      [] id = "platform_app_launch"           -> <<"appLaunchIntent">>
      [] id = "platform_sqag_launch_open"     -> <<"separateOrigin">>
      [] id = "platform_app_launch_consume"   -> <<"appLaunchTokenConsume">>
      [] id = "platform_sqag_access_revoke"   -> <<"service">>
      [] id \in ServiceIds \ {"platform_sqag_access_revoke"} -> <<"service", "body">>
      [] OTHER                                -> << >>

OnlyIf(condition, check) == IF condition THEN <<check>> ELSE << >>

RouteChecks(id) ==
    LET query == OnlyIf(QueryRead(id) # {}, "query")
    IN  IF id = "platform_auth_callback" THEN OtherChecks(id) \o query
        ELSE query \o OnlyIf(id = "platform_sqag_launch_open", "session")
                   \o OnlyIf(id \in SecuredBranches, "security") \o OtherChecks(id)

\* The origin that is validated: the Origin header when there is one, the
\* origin of the Referer otherwise.
RequestOrigin(q) == IF q.origin # "none" THEN q.origin ELSE q.referer

\* Does the request pass the check?  For "security" this is what comes before
\* the token is looked up.
Passes(check, id, q) ==
    CASE check = "query"          -> QueryRead(id) \subseteq q.query
      [] check = "body"           -> q.body
      [] check = "session"        -> q.session # NoSession
      [] check = "security"       -> /\ RequestOrigin(q) = "allowed"
                                     /\ q.token # NoToken
                                     /\ "csrfTokenValidator" \in Wired
      [] check = "service"        -> q.service /\ "accessValidationGrant" \in Wired
      [] check = "separateOrigin" -> /\ {"appLaunchIntent", "sqagBrowserLaunch"} \subseteq Wired
                                     /\ q.origin # "none"
      [] OTHER                    -> check \in Wired

Refusal(check, id, q) ==
    CASE check \in {"query", "body"} -> IF id \in ServiceIds THEN 403 ELSE 400
      [] check = "session"           -> 401
      [] check = "service"           -> 403
      [] check = "separateOrigin"    -> 503
      [] check = "security"          ->
             IF RequestOrigin(q) = "allowed" /\ q.token # NoToken THEN 500 ELSE 403
      [] OTHER                       -> 500

-----------------------------------------------------------------------------
(* What is settled before a route is looked up. *)

\* 0: the host is served.
HostRefusal(q) ==
    CASE PublicBase = "none"                        -> 0
      [] PublicBase = "invalid"                     -> 421
      [] PublicBase = "apex" /\ q.host = "www"      -> 308
      [] OTHER -> IF q.host = "configured" THEN 0 ELSE 421

\* 0: the path and the method are those of a route.
RoutingRefusal(q) ==
    CASE RouteOf[q.path].id = "none"   -> 404
      [] RouteOf[q.path].id = "throws" -> 500
      [] OTHER -> IF RouteOf[q.path].method = q.method THEN 0 ELSE 405

=============================================================================
