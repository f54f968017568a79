------------------------ MODULE PlatformServerProofs ------------------------
(***************************************************************************)
(* Proofs about PlatformServer, for any requests, sessions, bounds and     *)
(* signals: tokens stay few and are kept, nothing is changed without one,  *)
(* a stop cuts nobody off, and every request meets the contract of the     *)
(* route its path has.                                                     *)
(***************************************************************************)
EXTENDS PlatformServer, FiniteSetTheorems, SequenceTheorems, TLAPS

AnySession == Sessions \cup {NoSession}
Changing == AdminWrites \cup {"platform_logout"}

Fields == {"pc", "q", "id", "at", "check", "handled", "seen", "row", "status", "changed", "wasLive"}

\* A token of the session was issued that had not expired when the request
\* was dispatched.
Shown(rec) ==
  \E row \in Issued : /\ row.id = rec.q.token.id
                      /\ row.session = rec.q.session /\ row.expiresAt > rec.at

\* What holds of a request at each of its awaits.
RequestOK(rec) ==
  /\ DOMAIN rec = Fields
  /\ rec.pc \in {"body", "done", "dead"} \cup Waiting /\ rec.at \in Nat
  /\ rec.q.session \in AnySession
  /\ rec.q.session \in live => rec.wasLive
  /\ rec.pc \notin {"body", "done", "dead"} => rec.at >= 1
  /\ rec.row # NoRow => rec.pc = "done" /\ rec.at >= 1
  /\ rec.id \in Changing /\ rec.pc \in {"session", "commit", "revoke"} => Shown(rec)
  /\ rec.pc = "commit" => rec.id \in AdminWrites /\ rec.wasLive /\ EndOf[rec.q.session] > rec.at
  /\ rec.pc = "revoke" => rec.id = "platform_logout" /\ rec.wasLive
  /\ rec.changed =>
       /\ rec.pc = "done" /\ rec.wasLive /\ Shown(rec)
       /\ rec.id \in AdminWrites => EndOf[rec.q.session] > rec.at

Requested ==
  /\ DOMAIN req = Requests
  /\ \A r \in Requests :
       \/ req[r] = Idle
       \/ /\ RequestOK(req[r])
          /\ req[r].row # NoRow => req[r].row = Row(r, req[r].q.session, req[r].at)
          /\ req[r].pc = "dead" => exit \notin {"none", "0"}

\* The phase of the process decides what else of it holds.
Phased ==
  /\ phase \in {"off", "posture", "listening", "serving", "closing", "ending", "exited"}
  /\ pool \in {"none", "open", "ending", "closed"}
  /\ accepting \in BOOLEAN /\ handlers \subseteq Signals /\ signals \in 0 .. MaxSignals
  /\ exit \in {"none", "0", "1", "killed", "uncaught"}
  /\ phase \in {"off", "posture", "listening"} => handlers = {}
  /\ accepting => phase = "serving"
  /\ phase = "off" => pool = "none"
  /\ phase \in {"posture", "listening", "serving", "closing"} => pool = "open"
  /\ phase = "ending" => pool = "ending"
  /\ phase = "exited" => pool \in {"none", "closed"}
  /\ phase = "exited" <=> exit # "none"
  /\ exit = "0" => pool = "closed"

Stored ==
  /\ clock \in 1 .. MaxClock /\ live \subseteq Sessions /\ gone \subseteq Requests
  /\ tokens \subseteq Issued
  /\ \A s \in AnySession :
       IsFiniteSet(OfSession(s, Issued)) /\ Cardinality(OfSession(s, tokens)) <= MaxTokens

IInv == Phased /\ Requested /\ Stored /\ GivenTokenKept /\ NobodyCutOff

-----------------------------------------------------------------------------
(* Rows *)

\* What was issued: rows of earlier processes, and of requests of this one.
LEMMA IssuedRows ==
  ASSUME Requested, NEW row \in Issued
  PROVE  /\ row.session \in AnySession /\ row.createdAt \in Nat /\ row.expiresAt = row.createdAt + TTL
         /\ \/ row.createdAt = 0
            \/ \E r \in Requests : Arrived(r) /\ req[r].row = row /\ row.id = r /\ req[r].row # NoRow
<1>1. CASE row \in Earlier
  BY <1>1 DEF Earlier, Row, AnySession
<1>2. CASE row \notin Earlier
  <2>1. PICK r \in Requests : Arrived(r) /\ req[r].row # NoRow /\ row = req[r].row
    BY <1>2 DEF Issued
  <2>2. req[r] # Idle
    BY <2>1 DEF Arrived, Idle
  <2>3. PICK s \in AnySession, at \in Nat : row = Row(r, s, at)
    BY <2>1, <2>2 DEF Requested, RequestOK
  <2>4. row.id = r /\ row.session = s /\ row.createdAt = at /\ row.expiresAt = at + TTL
    BY <2>3 DEF Row
  <2> QED
    BY <2>1, <2>4
<1> QED
  BY <1>1, <1>2

\* A row is not the absence of one.
LEMMA RowIsRow == \A id, s, at : Row(id, s, at) # NoRow
<1> SUFFICES ASSUME NEW id, NEW s, NEW at PROVE Row(id, s, at) # NoRow
  OBVIOUS
<1>1. "session" \in DOMAIN Row(id, s, at) /\ "session" \notin DOMAIN NoRow
  BY DEF Row, NoRow
<1> QED
  BY <1>1

\* Nothing is issued by a step that gives no request a row.
LEMMA IssuedSame ==
  ASSUME \A r \in Requests :
           /\ (Arrived(r) /\ req[r].row # NoRow) <=> (Arrived(r) /\ req[r].row # NoRow)'
           /\ Arrived(r) /\ req[r].row # NoRow => req'[r].row = req[r].row
  PROVE  Issued' = Issued
<1>1. \A row : row \in {req[r].row : r \in {x \in Requests : Arrived(x) /\ req[x].row # NoRow}}
        <=> row \in {req[r].row : r \in {x \in Requests : Arrived(x) /\ req[x].row # NoRow}}'
  OBVIOUS
<1> QED
  BY <1>1 DEF Issued, Earlier

-----------------------------------------------------------------------------
(* The table of routes *)

\* A path that a pattern may stand for.
Compatible(pattern, path) ==
  Len(pattern) = Len(path) /\ \A k \in DOMAIN pattern : pattern[k] \in {Param, path[k]}

\* The method of whatever route a path has: its length and its second and
\* third segments tell.
MethodOf(path) ==
  IF \/ Len(path) = 3 \/ Len(path) >= 6
     \/ Len(path) = 4 /\ path[3] = "apps"
     \/ Len(path) = 5 /\ (path[2] = "internal" \/ path[3] = "apps")
  THEN "POST" ELSE "GET"

\* What of a pattern tells the method is no parameter.
PatternOK(path) ==
  /\ Len(path) \in Nat /\ DOMAIN path = 1 .. Len(path)
  /\ Len(path) >= 3 => path[2] # Param /\ path[3] # Param

\* The branches that answer nobody without a session.
AskSession == (BySession \ {"platform_logout"}) \cup {"platform_sqag_launch_open"}

\* A route of the table against the branch that answers it.
RouteAgrees(c) ==
  /\ c.id \notin {"none", "throws"}
  /\ PatternOK(c.path) /\ c.method = MethodOf(c.path)
  /\ c.requiredQuery \subseteq QueryRead(c.id)
  /\ c.csrf => c.id \in SecuredBranches
  /\ c.browserSession = "required" => c.id \in AskSession

\* A route for everybody.
LEMMA OpenAgrees ==
  ASSUME NEW id, NEW method, NEW path, id \notin {"none", "throws"},
         PatternOK(path), method = MethodOf(path)
  PROVE  RouteAgrees(Open(id, method, path))
  BY DEF Open, Route, RouteAgrees

\* The four parts of the table, route by route.
LEMMA PageRoutesAgree == \A i \in 1 .. 11 : RouteAgrees(PageRoutes[i])
<1>1. \A a : PatternOK(<<a>>) /\ MethodOf(<<a>>) = "GET"
  BY DEF PatternOK, MethodOf
<1>2. \A a, b : PatternOK(<<a, b>>) /\ MethodOf(<<a, b>>) = "GET"
  BY DEF PatternOK, MethodOf
<1>3. PatternOK(<< >>) /\ MethodOf(<< >>) = "GET"
  BY DEF PatternOK, MethodOf
<1> QED
  BY <1>1, <1>2, <1>3, OpenAgrees DEF PageRoutes

LEMMA SessionRoutesAgree == \A i \in 1 .. 5 : RouteAgrees(SessionRoutes[i])
<1>2. \A b : PatternOK(Api(<<"auth", b>>)) /\ MethodOf(Api(<<"auth", b>>)) = "GET"
  BY DEF PatternOK, MethodOf, Api, Param
<1>3. \A b : PatternOK(Api(<<"session", b>>)) /\ MethodOf(Api(<<"session", b>>)) = "GET"
  BY DEF PatternOK, MethodOf, Api, Param
<1>4. QueryRead("platform_auth_callback") = {"code", "state"}
  BY DEF QueryRead
<1>5. QueryRead("platform_session_app_access") = {"workspaceId", "appKey"}
  BY DEF QueryRead
<1>6. {"platform_session_app_access", "platform_session_context", "platform_session_csrf"}
        \subseteq AskSession
  BY DEF AskSession, BySession, Reads
<1>7. RouteAgrees(SessionRoutes[1])
  BY <1>2, OpenAgrees DEF SessionRoutes
<1>8. RouteAgrees(SessionRoutes[2])
  BY <1>2, <1>4 DEF SessionRoutes, Route, RouteAgrees
<1>9. RouteAgrees(SessionRoutes[3])
  BY <1>3, <1>5, <1>6 DEF SessionRoutes, Read, Route, RouteAgrees
<1>10. RouteAgrees(SessionRoutes[4]) /\ RouteAgrees(SessionRoutes[5])
  BY <1>3, <1>6 DEF SessionRoutes, Read, Route, RouteAgrees
<1> QED
  BY <1>7, <1>8, <1>9, <1>10

LEMMA AdminRoutesAgree == \A i \in 1 .. 11 : RouteAgrees(AdminRoutes[i])
<1>1. \A a : PatternOK(Workspace(<<a>>)) /\ MethodOf(Workspace(<<a>>)) = "GET"
  BY DEF PatternOK, MethodOf, Workspace, Api, Param
<1>2. \A a, b : PatternOK(Workspace(<<a, b>>)) /\ MethodOf(Workspace(<<a, b>>)) = "POST"
  BY DEF PatternOK, MethodOf, Workspace, Api, Param
<1>3. \A a, b, d : PatternOK(Workspace(<<a, b, d>>)) /\ MethodOf(Workspace(<<a, b, d>>)) = "POST"
  BY DEF PatternOK, MethodOf, Workspace, Api, Param
<1>4. QueryRead("platform_workspace_member_role") = {"role"}
  BY DEF QueryRead
<1>5. QueryRead("platform_workspace_sqag_entitlement_status") = {"status"}
  BY DEF QueryRead
<1>6. \A id \in Reads : id \notin {"none", "throws"} /\ id \in AskSession
  BY DEF AskSession, BySession, Reads
<1>7. \A id \in AdminWrites :
        id \notin {"none", "throws"} /\ id \in AskSession /\ id \in SecuredBranches
  BY DEF AskSession, BySession, AdminWrites, SecuredBranches
<1>8. \A id \in Reads : \A a : RouteAgrees(Read(id, Workspace(<<a>>), {}))
  BY <1>1, <1>6 DEF Read, Route, RouteAgrees
<1>9. \A id \in AdminWrites : \A a, b : RouteAgrees(Write(id, Workspace(<<a, b>>), {}))
  BY <1>2, <1>7 DEF Write, Route, RouteAgrees
<1>10. ASSUME NEW id \in AdminWrites, NEW a, NEW b, NEW d
       PROVE  RouteAgrees(Write(id, Workspace(<<a, b, d>>), {}))
  <2>1. PICK path : path = Workspace(<<a, b, d>>) /\ PatternOK(path) /\ MethodOf(path) = "POST"
    BY <1>3
  <2>2. RouteAgrees(Write(id, path, {}))
    BY <1>7, <2>1 DEF Write, Route, RouteAgrees
  <2> QED
    BY <2>1, <2>2
<1>11. RouteAgrees(AdminRoutes[5]) /\ RouteAgrees(AdminRoutes[10])
  BY <1>3, <1>4, <1>5, <1>7 DEF AdminRoutes, Write, Route, RouteAgrees, AdminWrites
<1>12. \A i \in {1, 3, 9, 11} : RouteAgrees(AdminRoutes[i])
  BY <1>8 DEF AdminRoutes, Reads
<1>13. \A i \in {2, 4, 6, 7, 8} : RouteAgrees(AdminRoutes[i])
  BY <1>9, <1>10 DEF AdminRoutes, AdminWrites
<1> QED
  BY <1>11, <1>12, <1>13

LEMMA LaunchRoutesAgree == \A i \in 1 .. 8 : RouteAgrees(LaunchRoutes[i])
<1>1. PatternOK(Api(<<"logout">>)) /\ MethodOf(Api(<<"logout">>)) = "POST"
  BY DEF PatternOK, MethodOf, Api, Param
<1>2. \A a : PatternOK(Api(<<"apps", a>>)) /\ MethodOf(Api(<<"apps", a>>)) = "POST"
  BY DEF PatternOK, MethodOf, Api, Param
<1>3. \A a, b : PatternOK(Api(<<"apps", a, b>>)) /\ MethodOf(Api(<<"apps", a, b>>)) = "POST"
  BY DEF PatternOK, MethodOf, Api, Param
<1>4. \A a, b : LET path == <<"api", "internal", "sqag">> \o <<a, b>>
                IN  PatternOK(path) /\ MethodOf(path) = "POST"
  BY DEF PatternOK, MethodOf, Param
<1>5. QueryRead("platform_app_launch") = {"workspaceId", "appKey"}
  BY DEF QueryRead
<1>6. QueryRead("platform_sqag_launch_open") = {"workspaceId", "appKey"}
  BY DEF QueryRead
<1>7. QueryRead("platform_app_launch_consume") = {"appKey"}
  BY DEF QueryRead
<1>8. RouteAgrees(LaunchRoutes[1])
  BY <1>2, <1>5 DEF LaunchRoutes, Write, Route, RouteAgrees, AskSession, BySession, SecuredBranches
<1>9. RouteAgrees(LaunchRoutes[2])
  BY <1>3, <1>6 DEF LaunchRoutes, Write, Route, RouteAgrees, AskSession, SecuredBranches
<1>10. RouteAgrees(LaunchRoutes[3])
  BY <1>3, <1>7 DEF LaunchRoutes, Route, RouteAgrees
<1>11. \A i \in 4 .. 7 : RouteAgrees(LaunchRoutes[i])
  BY <1>4, OpenAgrees DEF LaunchRoutes, Service
<1>12. RouteAgrees(LaunchRoutes[8])
  BY <1>1 DEF LaunchRoutes, Route, RouteAgrees, SecuredBranches
<1> QED
  BY <1>8, <1>9, <1>10, <1>11, <1>12

\* Every route of the table agrees with its branch.
LEMMA TableAgrees ==
  /\ Len(HTTP_ROUTE_CONTRACTS) \in Nat
  /\ DOMAIN HTTP_ROUTE_CONTRACTS = 1 .. Len(HTTP_ROUTE_CONTRACTS)
  /\ \A i \in DOMAIN HTTP_ROUTE_CONTRACTS : RouteAgrees(HTTP_ROUTE_CONTRACTS[i])
<1> DEFINE Rows == {PageRoutes[i] : i \in 1 .. 11} \cup {SessionRoutes[i] : i \in 1 .. 5}
                   \cup {AdminRoutes[i] : i \in 1 .. 11} \cup {LaunchRoutes[i] : i \in 1 .. 8}
<1>1. PageRoutes \in Seq({PageRoutes[i] : i \in 1 .. 11})
  BY DEF PageRoutes
<1>2. SessionRoutes \in Seq({SessionRoutes[i] : i \in 1 .. 5})
  <2>1. ASSUME NEW a, NEW b, NEW c, NEW d, NEW e
        PROVE  <<a, b, c, d, e>> \in Seq({<<a, b, c, d, e>>[i] : i \in 1 .. 5})
    OBVIOUS
  <2>2. PICK a, b, c, d, e : SessionRoutes = <<a, b, c, d, e>>
    BY Zenon DEF SessionRoutes
  <2> QED
    BY <2>1, <2>2
<1>3. AdminRoutes \in Seq({AdminRoutes[i] : i \in 1 .. 11})
  BY DEF AdminRoutes
<1>4. LaunchRoutes \in Seq({LaunchRoutes[i] : i \in 1 .. 8})
  <2>1. ASSUME NEW a, NEW b, NEW c, NEW d, NEW e, NEW f, NEW g, NEW h
        PROVE  <<a, b, c, d, e, f, g, h>> \in Seq({<<a, b, c, d, e, f, g, h>>[i] : i \in 1 .. 8})
    OBVIOUS
  <2>2. PICK a, b, c, d, e, f, g, h : LaunchRoutes = <<a, b, c, d, e, f, g, h>>
    BY Zenon DEF LaunchRoutes
  <2> QED
    BY <2>1, <2>2
<1>5. \A c \in Rows : RouteAgrees(c)
  BY PageRoutesAgree, SessionRoutesAgree, AdminRoutesAgree, LaunchRoutesAgree
<1>6. PICK R : R = Rows
  OBVIOUS
<1> HIDE DEF Rows
<1>7. PICK p \in Seq(R), q \in Seq(R), a \in Seq(R), l \in Seq(R) :
        /\ p = PageRoutes /\ q = SessionRoutes /\ a = AdminRoutes /\ l = LaunchRoutes
  <2>1. /\ {PageRoutes[i] : i \in 1 .. 11} \subseteq R /\ {SessionRoutes[i] : i \in 1 .. 5} \subseteq R
        /\ {AdminRoutes[i] : i \in 1 .. 11} \subseteq R /\ {LaunchRoutes[i] : i \in 1 .. 8} \subseteq R
    BY <1>6 DEF Rows
  <2>2. PageRoutes \in Seq(R)
    BY <1>1, <2>1, SeqMonotonic
  <2>3. SessionRoutes \in Seq(R)
    BY <1>2, <2>1, SeqMonotonic
  <2>4. AdminRoutes \in Seq(R)
    BY <1>3, <2>1, SeqMonotonic
  <2>5. LaunchRoutes \in Seq(R)
    BY <1>4, <2>1, SeqMonotonic
  <2> QED
    BY <2>2, <2>3, <2>4, <2>5
<1>8. PICK all \in Seq(R) : all = HTTP_ROUTE_CONTRACTS
  <2>1. \A s, t \in Seq(R) : s \o t \in Seq(R)
    BY ConcatProperties
  <2>2. ((p \o q) \o a) \o l \in Seq(R)
    BY <2>1
  <2> QED
    BY <1>7, <2>2 DEF HTTP_ROUTE_CONTRACTS
<1>9. Len(all) \in Nat /\ DOMAIN all = 1 .. Len(all) /\ \A i \in 1 .. Len(all) : all[i] \in R
  BY LenProperties
<1>10. \A i \in DOMAIN all : RouteAgrees(all[i])
  BY <1>5, <1>6, <1>9
<1> QED
  BY <1>8, <1>9, <1>10

-----------------------------------------------------------------------------
(* The route of a path *)

\* The least of a set of numbers is one of them.
LEMMA LeastIsIn ==
  ASSUME NEW I \in SUBSET Nat, I # {}
  PROVE  Min(I) \in I /\ \A j \in I : Min(I) <= j
<1>1. IsWellFoundedOn(OpToRel(<, Nat), Nat)
  BY NatLessThanWellFounded
<1>2. PICK k \in I : \A j \in I : ~ (<<j, k>> \in OpToRel(<, Nat))
  BY <1>1, WFMin
<1>3. k \in Nat /\ \A j \in I : j \in Nat
  OBVIOUS
<1>4. \A j \in I : ~ (j < k)
  BY <1>2, <1>3 DEF OpToRel
<1>5. \E x \in I : \A j \in I : x <= j
  BY <1>3, <1>4
<1> QED
  BY <1>5 DEF Min

\* A path is matched only if the pattern stands for it; one that does is
\* matched, or malformed.
LEMMA MatchCompatible ==
  ASSUME NEW pattern, PatternOK(pattern), NEW path \in Seq(STRING)
  PROVE  /\ MatchRoutePath(pattern, path) \in {"no", "yes", "throws"}
         /\ MatchRoutePath(pattern, path) = "yes" => Compatible(pattern, path)
         /\ Compatible(pattern, path) => MatchRoutePath(pattern, path) # "no"
<1>1. CASE Len(pattern) # Len(path)
  BY <1>1 DEF MatchRoutePath, Compatible
<1>2. CASE Len(pattern) = Len(path)
  <2> DEFINE pairs == [k \in DOMAIN path |-> <<pattern[k], path[k]>>]
             I == {k \in 1 .. Len(pairs) : IF pairs[k][1] = Param THEN pairs[k][2] = Malformed
                                           ELSE pairs[k][1] # pairs[k][2]}
             i == IF I # {} THEN Min(I) ELSE 0
  <2>1. MatchRoutePath(pattern, path) =
          IF i = 0 THEN "yes" ELSE IF pattern[i] = Param THEN "throws" ELSE "no"
    BY <1>2 DEF MatchRoutePath, SelectInSeq
  <2>2. PICK n \in Nat : n = Len(path) /\ DOMAIN path = 1 .. n /\ DOMAIN pattern = 1 .. n
    BY <1>2, LenProperties DEF PatternOK
  <2>3. Len(pairs) = n
    BY <2>2
  <2>4. I = {k \in 1 .. n : IF pattern[k] = Param THEN path[k] = Malformed ELSE pattern[k] # path[k]}
    BY <2>2, <2>3
  <2>5. I \in SUBSET Nat /\ 0 \notin I
    BY <2>4
  <2> HIDE DEF I
  <2>6. IF i = 0 THEN I = {} ELSE i \in I
    BY <2>5, LeastIsIn
  <2> HIDE DEF i
  <2>7. CASE i = 0
    <3>1. Compatible(pattern, path)
      BY <1>2, <2>2, <2>4, <2>6, <2>7 DEF Compatible
    <3> QED
      BY <2>1, <2>7, <3>1
  <2>8. CASE i # 0 /\ pattern[i] = Param
    BY <2>1, <2>8
  <2>9. CASE i # 0 /\ pattern[i] # Param
    <3>1. i \in 1 .. n /\ pattern[i] # path[i]
      BY <2>4, <2>6, <2>9
    <3>2. ~ Compatible(pattern, path)
      BY <2>2, <2>9, <3>1 DEF Compatible
    <3> QED
      BY <2>1, <2>9, <3>2
  <2> QED
    BY <2>7, <2>8, <2>9
<1> QED
  BY <1>1, <1>2

\* A route of the table with the name and the method.
RouteOfMethod(id, method) ==
  \E i \in DOMAIN HTTP_ROUTE_CONTRACTS :
    HTTP_ROUTE_CONTRACTS[i].id = id /\ HTTP_ROUTE_CONTRACTS[i].method = method

\* No route of the table with the method stands for the path.
NoneFor(path, method) ==
  \A i \in DOMAIN HTTP_ROUTE_CONTRACTS :
    ~ (HTTP_ROUTE_CONTRACTS[i].method = method /\ Compatible(HTTP_ROUTE_CONTRACTS[i].path, path))

\* A path has no route, one that throws, or one it matches.
LEMMA RouteOfPath ==
  ASSUME NEW path \in Paths
  PROVE  LET c == RouteOf[path]
         IN  \/ c.id = "none" /\ \A k \in DOMAIN HTTP_ROUTE_CONTRACTS :
                                   ~ Compatible(HTTP_ROUTE_CONTRACTS[k].path, path)
             \/ c.id = "throws"
             \/ /\ c.id \notin {"none", "throws"} /\ Compatible(c.path, path)
                /\ \E k \in DOMAIN HTTP_ROUTE_CONTRACTS : c = HTTP_ROUTE_CONTRACTS[k]
<1> DEFINE T == HTTP_ROUTE_CONTRACTS
           I == {k \in 1 .. Len(T) : MatchRoutePath(T[k].path, path) # "no"}
           i == IF I # {} THEN Min(I) ELSE 0
<1>1. path \in Seq(STRING)
  BY PathsAssumption
<1>2. FindRouteByPath(path) = i
  BY DEF FindRouteByPath, SelectInSeq
<1>3. RouteOf[path] = IF i = 0 THEN [id |-> "none"]
                      ELSE IF MatchRoutePath(T[i].path, path) = "throws" THEN [id |-> "throws"] ELSE T[i]
  BY <1>2 DEF RouteOf
<1> HIDE DEF T
<1>4. Len(T) \in Nat /\ DOMAIN T = 1 .. Len(T) /\ \A k \in DOMAIN T : RouteAgrees(T[k])
  BY TableAgrees DEF T
<1>5. I \in SUBSET Nat /\ 0 \notin I /\ I \subseteq DOMAIN T
  BY <1>4
<1>6. \A k \in DOMAIN T :
        /\ MatchRoutePath(T[k].path, path) \in {"no", "yes", "throws"}
        /\ MatchRoutePath(T[k].path, path) = "yes" => Compatible(T[k].path, path)
        /\ Compatible(T[k].path, path) => MatchRoutePath(T[k].path, path) # "no"
  BY <1>1, <1>4, MatchCompatible DEF RouteAgrees
<1>7. \A k \in I : MatchRoutePath(T[k].path, path) # "no"
  OBVIOUS
<1>8. I = {} => \A k \in DOMAIN T : ~ Compatible(T[k].path, path)
  BY <1>4, <1>6
<1> HIDE DEF I
<1>9. IF i = 0 THEN I = {} ELSE i \in I
  BY <1>5, LeastIsIn
<1> HIDE DEF i
<1>10. CASE i = 0
  <2>1. RouteOf[path].id = "none"
    BY <1>3, <1>10
  <2> QED
    BY <1>8, <1>9, <1>10, <2>1 DEF T
<1>11. CASE i # 0 /\ MatchRoutePath(T[i].path, path) = "throws"
  <2>1. RouteOf[path].id = "throws"
    BY <1>3, <1>11
  <2> QED
    BY <2>1
<1>12. CASE i # 0 /\ MatchRoutePath(T[i].path, path) # "throws"
  <2>1. RouteOf[path] = T[i] /\ i \in DOMAIN T
    BY <1>3, <1>5, <1>9, <1>12
  <2>2. MatchRoutePath(T[i].path, path) = "yes"
    BY <1>6, <1>7, <1>9, <1>12, <2>1
  <2>3. Compatible(T[i].path, path) /\ T[i].id \notin {"none", "throws"}
    BY <1>4, <1>6, <2>1, <2>2 DEF RouteAgrees
  <2> QED
    BY <2>1, <2>3 DEF T
<1> QED
  BY <1>10, <1>11, <1>12

\* Patterns that stand for one path are of one method.
LEMMA OneMethod ==
  ASSUME NEW c, NEW path, RouteAgrees(c), Compatible(c.path, path)
  PROVE  c.method = MethodOf(path)
<1>1. PICK pattern : pattern = c.path
  OBVIOUS
<1>2. PatternOK(pattern) /\ c.method = MethodOf(pattern) /\ Compatible(pattern, path)
  BY <1>1 DEF RouteAgrees
<1>3. PICK n \in Nat : n = Len(pattern) /\ n = Len(path) /\ DOMAIN pattern = 1 .. n
  BY <1>2 DEF PatternOK, Compatible
<1>4. n >= 3 => path[2] = pattern[2] /\ path[3] = pattern[3]
  <2>1. n >= 3 => 2 \in 1 .. n /\ 3 \in 1 .. n
    OBVIOUS
  <2> QED
    BY <1>2, <1>3, <2>1 DEF PatternOK, Compatible
<1>5. MethodOf(path) = MethodOf(pattern)
  BY <1>3, <1>4 DEF MethodOf
<1> QED
  BY <1>2, <1>5

\* A path whose route has another method, or none, is of no route with the
\* method that was asked for.
LEMMA RefusalOfNone ==
  ASSUME NEW q, q.path \in Paths
  PROVE  /\ RoutingRefusal(q) \in {404, 405} => NoneFor(q.path, q.method)
         /\ RoutingRefusal(q) = 0 => RouteOfMethod(RouteOf[q.path].id, q.method)
<1>1. PICK path, method : path \in Paths /\ path = q.path /\ method = q.method
  OBVIOUS
<1>2. PICK c : c = RouteOf[path]
  OBVIOUS
<1>3. RoutingRefusal(q) = CASE c.id = "none" -> 404
                            [] c.id = "throws" -> 500
                            [] OTHER -> IF c.method = method THEN 0 ELSE 405
  BY <1>1, <1>2 DEF RoutingRefusal
<1>4. CASE c.id = "none"
  <2>1. RoutingRefusal(q) = 404
    BY <1>3, <1>4
  <2>2. NoneFor(path, method)
    BY <1>1, <1>2, <1>4, RouteOfPath DEF NoneFor
  <2> QED
    BY <1>1, <2>1, <2>2
<1>5. CASE c.id = "throws"
  <2>1. RoutingRefusal(q) = 500
    BY <1>3, <1>5
  <2> QED
    BY <2>1
<1>6. CASE c.id \notin {"none", "throws"}
  <2>1. RoutingRefusal(q) = IF c.method = method THEN 0 ELSE 405
    BY <1>3, <1>6
  <2>2. Compatible(c.path, path) /\ \E k \in DOMAIN HTTP_ROUTE_CONTRACTS : c = HTTP_ROUTE_CONTRACTS[k]
    BY <1>1, <1>2, <1>6, RouteOfPath
  <2>3. c.method = MethodOf(path)
    BY <1>1, <2>2, TableAgrees, OneMethod
  <2>4. CASE c.method = method
    BY <1>1, <1>2, <2>1, <2>2, <2>4 DEF RouteOfMethod
  <2>5. CASE c.method # method
    <3>1. NoneFor(path, method)
      BY <1>1, <2>3, <2>5, TableAgrees, OneMethod DEF NoneFor
    <3> QED
      BY <1>1, <2>1, <2>5, <3>1
  <2> QED
    BY <2>4, <2>5
<1> QED
  BY <1>4, <1>5, <1>6

-----------------------------------------------------------------------------
(* The checks of a branch *)

\* What the branches check.
Checks == {"query", "security", "session", "body", "service", "separateOrigin"} \cup Dependencies

Has(checks, check) == \E k \in 1 .. Len(checks) : checks[k] = check

\* A check of either part is one of the whole.
LEMMA HasJoined ==
  ASSUME NEW s \in Seq(Checks), NEW t \in Seq(Checks), NEW check, Has(s, check) \/ Has(t, check)
  PROVE  Has(s \o t, check)
<1>1. PICK m \in Nat, n \in Nat : m = Len(s) /\ n = Len(t)
  BY LenProperties
<1>2. Len(s \o t) = m + n
      /\ \A i \in 1 .. m + n : (s \o t)[i] = IF i <= m THEN s[i] ELSE t[i - m]
  <2>1. /\ Len(s \o t) = Len(s) + Len(t)
        /\ \A i \in 1 .. Len(s) + Len(t) : (s \o t)[i] = IF i <= Len(s) THEN s[i] ELSE t[i - Len(s)]
    BY ConcatProperties
  <2> QED
    BY <1>1, <2>1
<1>3. CASE Has(s, check)
  <2>1. PICK k \in 1 .. m : s[k] = check
    BY <1>1, <1>3 DEF Has
  <2>2. k \in 1 .. m + n /\ k <= m
    OBVIOUS
  <2> QED
    BY <1>2, <2>1, <2>2 DEF Has
<1>4. CASE Has(t, check)
  <2>1. PICK k \in 1 .. n : t[k] = check
    BY <1>1, <1>4 DEF Has
  <2>2. m + k \in 1 .. m + n /\ ~(m + k <= m) /\ (m + k) - m = k
    OBVIOUS
  <2> QED
    BY <1>2, <2>1, <2>2 DEF Has
<1> QED
  BY <1>3, <1>4

\* Branch by branch.
LEMMA OtherChecksAre == \A id : OtherChecks(id) \in Seq(Checks)
<1> TAKE id
<1>1. \A x, y \in Checks : << >> \in Seq(Checks) /\ <<x>> \in Seq(Checks) /\ <<x, y>> \in Seq(Checks)
  OBVIOUS
<1>2. {"authStart", "authCallback", "csrfTokenIssuer", "body", "appLaunchIntent", "separateOrigin",
       "appLaunchTokenConsume", "service"} \subseteq Checks
  BY DEF Checks, Dependencies
<1>3. OtherChecks("platform_auth_start") = <<"authStart">>
  BY DEF OtherChecks, ServiceIds
<1>4. OtherChecks("platform_auth_callback") = <<"authCallback">>
  BY DEF OtherChecks, ServiceIds
<1>5. OtherChecks("platform_session_csrf") = <<"csrfTokenIssuer">>
  BY DEF OtherChecks, ServiceIds
<1>6. OtherChecks("platform_workspace_member_add") = <<"body">>
  BY DEF OtherChecks, ServiceIds
<1>7. OtherChecks("platform_app_launch") = <<"appLaunchIntent">>
  BY DEF OtherChecks, ServiceIds
<1>8. OtherChecks("platform_sqag_launch_open") = <<"separateOrigin">>
  BY DEF OtherChecks, ServiceIds
<1>9. OtherChecks("platform_app_launch_consume") = <<"appLaunchTokenConsume">>
  BY DEF OtherChecks, ServiceIds
<1>10. OtherChecks("platform_sqag_access_revoke") = <<"service">>
  BY DEF OtherChecks, ServiceIds
<1>11. \A x \in ServiceIds : x # "platform_sqag_access_revoke" => OtherChecks(x) = <<"service", "body">>
  BY DEF OtherChecks, ServiceIds
<1>12. ASSUME id \notin ServiceIds \cup {"platform_auth_start",
                       "platform_auth_callback",
                       "platform_session_csrf",
                       "platform_workspace_member_add",
                       "platform_app_launch",
                       "platform_sqag_launch_open",
                       "platform_app_launch_consume",
                       "platform_sqag_access_revoke"}
       PROVE  OtherChecks(id) = << >>
  BY <1>12 DEF OtherChecks
<1> QED
  BY <1>1, <1>2, <1>3, <1>4, <1>5, <1>6, <1>7, <1>8, <1>9, <1>10, <1>11, <1>12

\* The checks that the contract of a route rests on are made.
LEMMA Checked ==
  ASSUME NEW id
  PROVE  /\ id \in SecuredBranches => Has(RouteChecks(id), "security")
         /\ QueryRead(id) # {} => Has(RouteChecks(id), "query")
         /\ id = "platform_sqag_launch_open" => Has(RouteChecks(id), "session")
<1>1. PICK query, session, security, other :
        /\ query = OnlyIf(QueryRead(id) # {}, "query")
        /\ session = OnlyIf(id = "platform_sqag_launch_open", "session")
        /\ security = OnlyIf(id \in SecuredBranches, "security") /\ other = OtherChecks(id)
  OBVIOUS
<1>2. \A x \in Checks : << >> \in Seq(Checks) /\ <<x>> \in Seq(Checks) /\ Has(<<x>>, x)
  BY DEF Has
<1>3. {"query", "session", "security"} \subseteq Checks
  BY DEF Checks
<1>4. /\ query \in Seq(Checks) /\ session \in Seq(Checks)
      /\ security \in Seq(Checks) /\ other \in Seq(Checks)
  BY <1>1, <1>2, <1>3, OtherChecksAre DEF OnlyIf
<1>5. /\ id \in SecuredBranches => Has(security, "security")
      /\ QueryRead(id) # {} => Has(query, "query")
      /\ id = "platform_sqag_launch_open" => Has(session, "session")
  BY <1>1, <1>2, <1>3 DEF OnlyIf
<1>6. RouteChecks(id) = IF id = "platform_auth_callback" THEN other \o query
                        ELSE ((query \o session) \o security) \o other
  BY <1>1 DEF RouteChecks
<1>7. CASE id = "platform_auth_callback"
  <2>1. id \notin SecuredBranches
    BY <1>7 DEF SecuredBranches
  <2> QED
    BY <1>4, <1>5, <1>6, <1>7, <2>1, HasJoined
<1>8. CASE id # "platform_auth_callback"
  <2>1. \A s, t \in Seq(Checks) : s \o t \in Seq(Checks)
    BY ConcatProperties
  <2>2. PICK two \in Seq(Checks), three \in Seq(Checks) :
          two = query \o session /\ three = two \o security
    BY <1>4, <2>1
  <2>3. \A x : Has(query, x) \/ Has(session, x) => Has(two, x)
    BY <1>4, <2>2, HasJoined
  <2>4. \A x : Has(two, x) \/ Has(security, x) => Has(three, x)
    BY <1>4, <2>2, HasJoined
  <2>5. \A x : Has(three, x) => Has(three \o other, x)
    BY <1>4, HasJoined
  <2>6. RouteChecks(id) = three \o other
    BY <1>6, <1>8, <2>2
  <2> QED
    BY <1>5, <2>3, <2>4, <2>5, <2>6
<1> QED
  BY <1>7, <1>8

\* No page is for those with a session.
LEMMA PagesAskNothing == Pages \cap BySession = {}
<1>1. Pages = {PageRoutes[i].id : i \in 1 .. 11}
  BY DEF Pages, Ids, PageRoutes
<1>2. \A i \in 1 .. 11 : PageRoutes[i].id \in
        {"platform_landing_page", "platform_solutions_page", "platform_resources_page",
         "platform_resource_article_page", "platform_about_page", "platform_contact_page",
         "platform_request_access_page", "platform_login_page", "platform_app_shell",
         "platform_admin_shell", "healthz"}
  BY DEF PageRoutes, Open, Route
<1> QED
  BY <1>1, <1>2 DEF BySession, Reads, AdminWrites

LEMMA RouteChecksAre == \A id : RouteChecks(id) \in Seq(Checks)
<1> TAKE id
<1>1. PICK query, session, security, other :
        /\ query = OnlyIf(QueryRead(id) # {}, "query")
        /\ session = OnlyIf(id = "platform_sqag_launch_open", "session")
        /\ security = OnlyIf(id \in SecuredBranches, "security") /\ other = OtherChecks(id)
  OBVIOUS
<1>2. \A x \in Checks : << >> \in Seq(Checks) /\ <<x>> \in Seq(Checks)
  OBVIOUS
<1>3. {"query", "session", "security"} \subseteq Checks
  BY DEF Checks
<1>4. /\ query \in Seq(Checks) /\ session \in Seq(Checks)
      /\ security \in Seq(Checks) /\ other \in Seq(Checks)
  BY <1>1, <1>2, <1>3, OtherChecksAre DEF OnlyIf
<1>5. \A s, t \in Seq(Checks) : s \o t \in Seq(Checks)
  BY ConcatProperties
<1>6. other \o query \in Seq(Checks) /\ ((query \o session) \o security) \o other \in Seq(Checks)
  BY <1>4, <1>5
<1> QED
  BY <1>1, <1>6 DEF RouteChecks

-----------------------------------------------------------------------------
(* From one await to the next *)

\* A request that was dispatched and has changed nothing yet.
Fresh(rec) ==
  /\ DOMAIN rec = Fields /\ rec.at \in Nat /\ rec.at >= 1
  /\ rec.q.session \in AnySession
  /\ rec.q.session \in live => rec.wasLive
  /\ rec.row = NoRow /\ ~ rec.changed

\* The same request, somewhere else.
Moved(rec, x) ==
  /\ DOMAIN x = Fields /\ x.q = rec.q /\ x.at = rec.at /\ x.id = rec.id /\ x.row = rec.row
  /\ x.changed = rec.changed /\ x.wasLive = rec.wasLive

LEMMA MovedOK ==
  ASSUME NEW rec, NEW x, Fresh(rec), Moved(rec, x),
         \/ x.pc \in {"done", "elsewhere", "token", "begin", "insert"}
         \/ x.pc = "session" /\ (rec.id \in Changing => Shown(rec))
  PROVE  RequestOK(x) /\ x.row = NoRow /\ x.pc # "dead" /\ x.pc # "idle"
<1>1. x.pc = "session" /\ x.id \in Changing => Shown(x)
  BY DEF Shown, Moved
<1> QED
  BY <1>1 DEF RequestOK, Fresh, Moved, Waiting

LEMMA AnsweredMoved ==
  ASSUME NEW rec, NEW status, DOMAIN rec = Fields
  PROVE  Moved(rec, Answered(rec, status)) /\ Answered(rec, status).pc = "done"
  BY DEF Moved, Answered, Fields

\* The handler runs up to its first await: what it does is its own.
LEMMA EnterOK ==
  ASSUME NEW rec, Fresh(rec), rec.id \in Changing => Shown(rec)
  PROVE  RequestOK(Enter(rec)) /\ Moved(rec, Enter(rec))
         /\ Enter(rec).row = NoRow /\ Enter(rec).pc # "dead" /\ Enter(rec).pc # "idle"
<1> DEFINE x == Enter(rec)
<1>0. DOMAIN rec = Fields
  BY DEF Fresh
<1>1. PICK page, out, gone410 :
        /\ page = Answered(rec, 200) /\ gone410 = Answered(rec, 410)
        /\ out = Answered(rec, IF rec.id = "platform_logout" THEN 200 ELSE 401)
  OBVIOUS
<1>2. PICK reads, other :
        reads = [rec EXCEPT !.pc = "session"] /\ other = [rec EXCEPT !.pc = "elsewhere"]
  OBVIOUS
<1>3. x \in {page, out, gone410, reads, other}
  <2>1. CASE rec.id \in Pages
    BY <1>1, <2>1 DEF Enter
  <2>2. CASE rec.id \notin Pages /\ rec.id \in BySession
    BY <1>1, <1>2, <2>2 DEF Enter
  <2>3. CASE rec.id \notin Pages /\ rec.id \notin BySession
    BY <1>2, <2>3 DEF Enter
  <2> QED
    BY <2>1, <2>2, <2>3
<1>4. \A y \in {page, out, gone410} : Moved(rec, y) /\ y.pc = "done"
  BY <1>0, <1>1, AnsweredMoved
<1>5. Moved(rec, reads) /\ reads.pc = "session" /\ Moved(rec, other) /\ other.pc = "elsewhere"
  BY <1>0, <1>2 DEF Moved, Fields
<1>6. Moved(rec, x) /\ x.pc \in {"done", "session", "elsewhere"}
  BY <1>3, <1>4, <1>5
<1> HIDE DEF x
<1>7. RequestOK(x) /\ x.row = NoRow /\ x.pc # "dead" /\ x.pc # "idle"
  BY <1>6, MovedOK
<1> QED
  BY <1>6, <1>7 DEF x

\* The checks of a branch from one of them on: one that has a token to look up
\* is never passed over.
LEMMA ProceedOK ==
  ASSUME NEW rec, Fresh(rec), NEW n, rec.id \in Changing => n = 1 \/ Shown(rec)
  PROVE  RequestOK(Proceed(rec, n)) /\ Proceed(rec, n).q = rec.q
         /\ Proceed(rec, n).row = NoRow /\ Proceed(rec, n).pc # "dead" /\ Proceed(rec, n).pc # "idle"
<1> DEFINE checks == RouteChecks(rec.id)
           I == {k \in n .. Len(checks) : checks[k] = "security" \/ ~ Passes(checks[k], rec.id, rec.q)}
           i == IF I # {} THEN Min(I) ELSE 0
           x == Proceed(rec, n)
<1>1. x = IF i = 0 THEN Enter([rec EXCEPT !.handled = TRUE])
          ELSE IF Passes(checks[i], rec.id, rec.q) THEN [rec EXCEPT !.pc = "token", !.check = i]
          ELSE Answered(rec, Refusal(checks[i], rec.id, rec.q))
  BY DEF Proceed, SelectInSubSeq
<1>2. n = 1 /\ i = 0 => I = {}
  <2> SUFFICES ASSUME I # {}, n = 1 PROVE Min(I) # 0
    OBVIOUS
  <2>1. I \in SUBSET Nat /\ 0 \notin I
    OBVIOUS
  <2> HIDE DEF I
  <2>2. Min(I) \in I
    BY <2>1, LeastIsIn
  <2> QED
    BY <2>1, <2>2
<1>3. i = 0 => rec.id \notin Changing \/ Shown(rec)
  <2> SUFFICES ASSUME I = {}, rec.id \in Changing, n = 1 PROVE FALSE
    BY <1>2
  <2>1. rec.id \in SecuredBranches
    BY DEF Changing, AdminWrites, SecuredBranches
  <2>2. PICK k \in 1 .. Len(checks) : checks[k] = "security"
    BY <2>1, Checked DEF Has
  <2> QED
    BY <2>2
<1> HIDE DEF i, I, checks
<1>4. CASE i = 0
  <2>1. PICK y : y = [rec EXCEPT !.handled = TRUE]
    OBVIOUS
  <2>2. Fresh(y) /\ y.id = rec.id /\ y.q = rec.q /\ y.at = rec.at
    BY <2>1 DEF Fresh, Fields
  <2>3. y.id \in Changing => Shown(y)
    BY <1>3, <1>4, <2>2 DEF Shown
  <2>4. x = Enter(y)
    BY <1>1, <1>4, <2>1
  <2> HIDE DEF x
  <2>5. RequestOK(x) /\ Moved(y, x) /\ x.row = NoRow /\ x.pc # "dead" /\ x.pc # "idle"
    BY <2>2, <2>3, <2>4, EnterOK
  <2>6. x.q = rec.q
    BY <2>2, <2>5 DEF Moved
  <2> QED
    BY <2>5, <2>6 DEF x
<1>5. CASE i # 0 /\ Passes(checks[i], rec.id, rec.q)
  <2>1. x = [rec EXCEPT !.pc = "token", !.check = i]
    BY <1>1, <1>5
  <2> HIDE DEF x
  <2>2. Moved(rec, x) /\ x.pc = "token"
    BY <2>1 DEF Moved, Fresh, Fields
  <2> QED
    BY <2>2, MovedOK DEF Moved, x
<1>6. CASE i # 0 /\ ~ Passes(checks[i], rec.id, rec.q)
  <2>1. x = Answered(rec, Refusal(checks[i], rec.id, rec.q))
    BY <1>1, <1>6
  <2> HIDE DEF x
  <2>2. Moved(rec, x) /\ x.pc = "done"
    BY <2>1, AnsweredMoved DEF Fresh
  <2> QED
    BY <2>2, MovedOK DEF Moved, x
<1> QED
  BY <1>4, <1>5, <1>6

\* The adapter takes a request whose body is there.
LEMMA DispatchedOK ==
  ASSUME NEW rec, Fresh(rec)
  PROVE  RequestOK(Dispatched(rec)) /\ Dispatched(rec).q = rec.q
         /\ Dispatched(rec).row = NoRow /\ Dispatched(rec).pc # "dead" /\ Dispatched(rec).pc # "idle"
<1> DEFINE x == Dispatched(rec)
           host == HostRefusal(rec.q)
           routing == RoutingRefusal(rec.q)
<1>1. CASE host # 0 \/ routing # 0
  <2>1. x \in {Answered(rec, host), Answered(rec, routing)}
    BY <1>1 DEF Dispatched
  <2>2. PICK y, z : y = Answered(rec, host) /\ z = Answered(rec, routing) /\ x \in {y, z}
    BY <2>1
  <2> HIDE DEF x
  <2>3. Moved(rec, x) /\ x.pc = "done"
    BY <2>2, AnsweredMoved DEF Fresh
  <2> QED
    BY <2>3, MovedOK DEF Moved, x
<1>2. CASE ~(host # 0 \/ routing # 0)
  <2>1. PICK y : y = [rec EXCEPT !.id = RouteOf[rec.q.path].id]
    OBVIOUS
  <2>2. Fresh(y) /\ y.q = rec.q
    BY <2>1 DEF Fresh, Fields
  <2>3. x = Proceed(y, 1)
    BY <1>2, <2>1 DEF Dispatched
  <2> HIDE DEF x
  <2> QED
    BY <2>2, <2>3, ProceedOK DEF x
<1> QED
  BY <1>1, <1>2
-----------------------------------------------------------------------------
(* The initial state *)

LEMMA InitIInv == Init => IInv
<1> SUFFICES ASSUME Init PROVE IInv
  OBVIOUS
<1>1. Phased
  <2>1. MaxSignals \in Nat
    BY ServerAssumption
  <2>2. accepting \in BOOLEAN
    BY DEF Init
  <2> QED
    BY <2>1, <2>2 DEF Init, Phased
<1>2. Requested
  BY DEF Init, Requested
<1>3. Issued = Earlier
  <2>1. \A r \in Requests : ~ Arrived(r)
    BY DEF Init, Arrived, Idle
  <2> QED
    BY <2>1 DEF Issued
<1>4. ASSUME NEW s \in AnySession
      PROVE  IsFiniteSet(OfSession(s, Issued)) /\ Cardinality(OfSession(s, tokens)) <= MaxTokens
  <2>1. OfSession(s, Earlier) \in SUBSET {Row(s, s, 0)}
    BY DEF OfSession, Earlier, Row
  <2>2. IsFiniteSet({Row(s, s, 0)}) /\ Cardinality({Row(s, s, 0)}) = 1
    BY FS_Singleton
  <2>3. IsFiniteSet(OfSession(s, Earlier)) /\ Cardinality(OfSession(s, Earlier)) <= 1
    BY <2>1, <2>2, FS_Subset
  <2>4. Cardinality(OfSession(s, Earlier)) \in Nat
    BY <2>3, FS_CardinalityType
  <2> QED
    BY <1>3, <2>3, <2>4, ServerAssumption DEF Init
<1>5. Stored
  BY <1>3, <1>4, ServerAssumption DEF Init, Stored
<1>6. GivenTokenKept /\ NobodyCutOff
  BY <1>3 DEF Init, GivenTokenKept, NobodyCutOff
<1> QED
  BY <1>1, <1>2, <1>5, <1>6 DEF IInv

-----------------------------------------------------------------------------
(* The steps of a request *)

\* What was shown stays shown, and no session comes to life.
LEMMA StillOK ==
  ASSUME NEW rec, RequestOK(rec), Issued \subseteq Issued', live' \subseteq live
  PROVE  RequestOK(rec)'
<1>1. Shown(rec) => Shown(rec)'
  BY DEF Shown
<1> QED
  BY <1>1 DEF RequestOK

LEMMA RequestIInv ==
  ASSUME IInv, NEW r \in Requests, InFlight(r) \/ (req[r] = Idle /\ pool = "open"),
         NEW x, RequestOK(x), x.row = NoRow, x.pc # "dead",
         DOMAIN req' = Requests, req'[r] = x, \A o \in Requests \ {r} : req'[o] = req[o],
         UNCHANGED <<process, clock, tokens>>, live' \subseteq live,
         gone \subseteq gone', gone' \subseteq Requests
  PROVE  IInv'
<1>1. Phased /\ Requested /\ Stored /\ GivenTokenKept /\ NobodyCutOff
  BY DEF IInv
<1>2. DOMAIN req' = Requests /\ req'[r] = x /\ \A o \in Requests \ {r} : req'[o] = req[o]
  OBVIOUS
<1>3. req[r] = Idle \/ req[r].row = NoRow
  BY <1>1 DEF Requested, RequestOK, InFlight, Waiting
<1>4. Issued' = Issued
  <2>1. ~ (Arrived(r) /\ req[r].row # NoRow) /\ ~ (Arrived(r) /\ req[r].row # NoRow)'
    BY <1>2, <1>3 DEF Arrived, Idle
  <2>2. \A o \in Requests \ {r} : Arrived(o)' <=> Arrived(o)
    BY <1>2 DEF Arrived
  <2> QED
    BY <1>2, <2>1, <2>2, IssuedSame
<1>5. Phased'
  BY <1>1 DEF Phased, process
<1>6. Requested'
  <2>1. exit' = exit
    BY DEF process
  <2>2. ASSUME NEW o \in Requests
        PROVE  \/ req'[o] = Idle
               \/ /\ RequestOK(req[o])'
                  /\ req'[o].row # NoRow => req'[o].row = Row(o, req'[o].q.session, req'[o].at)
                  /\ req'[o].pc = "dead" => exit' \notin {"none", "0"}
    <3>1. PICK y : y = req'[o]
      OBVIOUS
    <3>2. CASE o = r
      <4>1. RequestOK(y)'
        BY <1>2, <1>4, <3>1, <3>2, StillOK
      <4>2. RequestOK(req[o])'
        BY <3>1, <4>1 DEF RequestOK, Shown
      <4> QED
        BY <1>2, <3>2, <4>2
    <3>3. CASE o # r /\ req[o] # Idle
      <4>1. RequestOK(y)
        BY <1>1, <1>2, <3>1, <3>3 DEF Requested
      <4>2. RequestOK(y)'
        BY <1>4, <4>1, StillOK
      <4>3. RequestOK(req[o])'
        BY <3>1, <4>2 DEF RequestOK, Shown
      <4> QED
        BY <1>1, <1>2, <2>1, <3>3, <4>3 DEF Requested
    <3> QED
      BY <1>2, <3>2, <3>3
  <2> QED
    BY <1>2, <2>2 DEF Requested, Idle
<1>7. Stored'
  BY <1>1, <1>4 DEF Stored, OfSession
<1>8. GivenTokenKept'
  BY <1>1, <1>4 DEF GivenTokenKept, OfSession
<1>9. NobodyCutOff'
  <2>1. pool' = pool /\ exit' = exit
    BY DEF process
  <2>2. \A o \in Requests \ {r} : InFlight(o)' <=> InFlight(o)
    BY <1>2 DEF InFlight
  <2> QED
    BY <1>1, <2>1, <2>2 DEF NobodyCutOff
<1> QED
  BY <1>5, <1>6, <1>7, <1>8, <1>9 DEF IInv

\* A request in flight has changed nothing and was given nothing.
LEMMA InFlightOK ==
  ASSUME IInv, NEW r \in Requests, InFlight(r)
  PROVE  /\ RequestOK(req[r]) /\ req[r].row = NoRow /\ ~ req[r].changed
         /\ req[r].pc \notin {"body"} => Fresh(req[r])
<1>1. req[r] # Idle
  BY DEF InFlight, Idle, Waiting
<1>2. RequestOK(req[r]) /\ req[r].pc \notin {"done", "dead"}
  BY <1>1 DEF IInv, Requested, InFlight, Waiting
<1> QED
  BY <1>2 DEF RequestOK, Fresh

LEMMA AnsweredOK ==
  ASSUME NEW rec, RequestOK(rec), rec.row = NoRow, ~ rec.changed, NEW status
  PROVE  /\ RequestOK(Answered(rec, status)) /\ Answered(rec, status).row = NoRow
         /\ Answered(rec, status).pc = "done"
<1>1. PICK x : x = Answered(rec, status)
  OBVIOUS
<1>2. Moved(rec, x) /\ x.pc = "done"
  BY <1>1, AnsweredMoved DEF RequestOK
<1>3. RequestOK(x) /\ x.row = NoRow
  BY <1>2 DEF RequestOK, Moved
<1> QED
  BY <1>1, <1>2, <1>3

-----------------------------------------------------------------------------
(* The steps of the process *)

\* A step that moves only the process and the clock.
LEMMA ProcessIInv ==
  ASSUME IInv, Phased', NobodyCutOff', UNCHANGED <<data, req, gone>>, clock' \in 1 .. MaxClock,
         exit \notin {"none", "0"} => exit' \notin {"none", "0"}
  PROVE  IInv'
<1>1. Phased /\ Requested /\ Stored /\ GivenTokenKept
  BY DEF IInv
<1>2. live' = live /\ tokens' = tokens /\ req' = req /\ gone' = gone
  BY DEF data
<1>3. Issued' = Issued
  BY <1>2, IssuedSame DEF Arrived
<1>4. Requested'
  <2>1. ASSUME NEW r \in Requests, RequestOK(req[r])
        PROVE  RequestOK(req[r])'
    <3>1. PICK y : y = req[r]
      OBVIOUS
    <3>2. RequestOK(y)'
      BY <1>2, <1>3, <2>1, <3>1, StillOK
    <3> QED
      BY <1>2, <3>1, <3>2 DEF RequestOK, Shown
  <2> QED
    BY <1>1, <1>2, <2>1 DEF Requested, Idle
<1>5. Stored'
  BY <1>1, <1>2, <1>3 DEF Stored, OfSession
<1>6. GivenTokenKept'
  BY <1>1, <1>2, <1>3 DEF GivenTokenKept, OfSession
<1> QED
  BY <1>4, <1>5, <1>6 DEF IInv

\* A request that dies with the process.
LEMMA DeadOK ==
  ASSUME NEW rec, RequestOK(rec), rec.pc \in Waiting \cup {"body"}
  PROVE  RequestOK([rec EXCEPT !.pc = "dead"]) /\ [rec EXCEPT !.pc = "dead"].row = NoRow
<1>1. PICK x : x = [rec EXCEPT !.pc = "dead"]
  OBVIOUS
<1>2. /\ DOMAIN x = Fields /\ x.pc = "dead" /\ x.at = rec.at /\ x.q = rec.q /\ x.row = rec.row
      /\ x.id = rec.id /\ x.changed = rec.changed /\ x.wasLive = rec.wasLive
  BY <1>1 DEF RequestOK, Fields
<1>3. rec.row = NoRow /\ ~ rec.changed
  BY DEF RequestOK, Waiting
<1>4. RequestOK(x) /\ x.row = NoRow
  BY <1>2, <1>3 DEF RequestOK
<1> QED
  BY <1>1, <1>4

LEMMA DiesIInv ==
  ASSUME IInv, NEW how \in {"killed", "uncaught"}, Dies(how), phase # "off",
         handlers' \subseteq handlers, signals' \in 0 .. MaxSignals
  PROVE  IInv'
<1>1. Phased /\ Requested /\ Stored /\ GivenTokenKept
  BY DEF IInv
<1>2. /\ live' = live /\ tokens' = tokens /\ gone' = gone /\ clock' = clock /\ exit' = how
      /\ DOMAIN req' = Requests
      /\ \A r \in Requests : ~ InFlight(r) => req'[r] = req[r]
      /\ \A r \in Requests : InFlight(r) => req'[r] = [req[r] EXCEPT !.pc = "dead"]
  BY DEF Dies, data
<1>3. ASSUME NEW r \in Requests, InFlight(r)
      PROVE  /\ req[r].row = NoRow /\ req'[r].row = NoRow
             /\ RequestOK([req[r] EXCEPT !.pc = "dead"])
  BY <1>2, <1>3, InFlightOK, DeadOK DEF InFlight
<1>4. Issued' = Issued
  <2>1. \A r \in Requests : InFlight(r) => req[r].row = NoRow /\ req'[r].row = NoRow
    BY <1>3
  <2>2. \A r \in Requests : ~ InFlight(r) => (Arrived(r)' <=> Arrived(r)) /\ req'[r] = req[r]
    BY <1>2 DEF Arrived
  <2> QED
    BY <2>1, <2>2, IssuedSame
<1>5. Phased'
  BY <1>1 DEF Phased, Dies
<1>6. Requested'
  <2>1. ASSUME NEW r \in Requests, RequestOK(req'[r])
        PROVE  RequestOK(req[r])'
    <3>1. PICK y : y = req'[r]
      OBVIOUS
    <3>2. RequestOK(y)'
      BY <1>2, <1>4, <2>1, <3>1, StillOK
    <3> QED
      BY <3>1, <3>2 DEF RequestOK, Shown
  <2>2. ASSUME NEW r \in Requests, InFlight(r)
        PROVE  RequestOK(req[r])' /\ req'[r].row = NoRow
    BY <1>2, <1>3, <2>1, <2>2
  <2>3. ASSUME NEW r \in Requests, ~ InFlight(r), req[r] # Idle
        PROVE  /\ RequestOK(req[r])'
               /\ req'[r].row # NoRow => req'[r].row = Row(r, req'[r].q.session, req'[r].at)
    <3>1. RequestOK(req'[r])
      BY <1>1, <1>2, <2>3 DEF Requested
    <3> QED
      BY <1>1, <1>2, <2>1, <2>3, <3>1 DEF Requested
  <2>4. Idle' = Idle /\ exit' \notin {"none", "0"}
    BY <1>2 DEF Idle
  <2> QED
    BY <1>2, <2>2, <2>3, <2>4 DEF Requested
<1>7. Stored'
  BY <1>1, <1>2, <1>4 DEF Stored, OfSession
<1>8. GivenTokenKept'
  BY <1>1, <1>2, <1>4 DEF GivenTokenKept, OfSession
<1>9. NobodyCutOff'
  BY <1>2 DEF NobodyCutOff
<1> QED
  BY <1>5, <1>6, <1>7, <1>8, <1>9 DEF IInv

\* The start, the stop, a signal, and time.
LEMMA ProcessStepsIInv ==
  ASSUME IInv, Start \/ ProcessStep \/ IdleConnectionLost \/ Tick \/ (\E s \in Signals : Signal(s))
  PROVE  IInv'
<1>1. Phased /\ NobodyCutOff /\ clock \in 1 .. MaxClock
  BY DEF IInv, Stored
<1>2. CASE Start
  <2>1. Phased' /\ NobodyCutOff'
    <3>1. UNCHANGED <<accepting, handlers, signals, gone, req>> /\ exit = "none"
      BY <1>1, <1>2 DEF Start, Phased
    <3>2. CASE phase' = "exited" /\ exit' = "1" /\ UNCHANGED pool
      BY <1>1, <1>2, <3>1, <3>2 DEF Start, Phased, NobodyCutOff
    <3>3. CASE phase' = "posture" /\ pool' = "open" /\ UNCHANGED exit
      BY <1>1, <1>2, <3>1, <3>3 DEF Start, Phased, NobodyCutOff
    <3> QED
      BY <1>2, <3>2, <3>3 DEF Start
  <2>2. exit = "none" /\ UNCHANGED <<clock, data, req, gone>>
    BY <1>1, <1>2 DEF Start, Phased
  <2> QED
    BY <1>1, <2>1, <2>2, ProcessIInv
<1>3. CASE Listen
  <2>1. Phased' /\ NobodyCutOff'
    BY <1>1, <1>3 DEF Listen, Phased, NobodyCutOff
  <2> QED
    BY <1>1, <1>3, <2>1, ProcessIInv DEF Listen
<1>10. CASE Listening
  <2>1. pool = "open" /\ pool' = "open" /\ exit = "none"
    BY <1>1, <1>10 DEF Listening, Phased
  <2>2. NobodyCutOff'
    BY <2>1 DEF NobodyCutOff
  <2>3. accepting' \in BOOLEAN /\ handlers' \subseteq Signals
    BY <1>10 DEF Listening
  <2>4. Phased'
    BY <1>1, <1>10, <2>1, <2>3 DEF Listening, Phased
  <2> QED
    BY <1>1, <1>10, <2>2, <2>4, ProcessIInv DEF Listening
<1>4. CASE StartFails
  <2>1. Phased' /\ NobodyCutOff'
    BY <1>1, <1>4 DEF StartFails, Phased, NobodyCutOff
  <2> QED
    BY <1>1, <1>4, <2>1, ProcessIInv DEF StartFails
<1>5. CASE ServerClosed
  <2>1. Phased' /\ NobodyCutOff'
    BY <1>1, <1>5 DEF ServerClosed, Phased, NobodyCutOff, InFlight
  <2> QED
    BY <1>1, <1>5, <2>1, ProcessIInv DEF ServerClosed
<1>6. CASE PoolEnded
  <2>1. exit = "none" /\ pool = "ending"
    BY <1>1, <1>6 DEF PoolEnded, Phased
  <2>2. Phased' /\ NobodyCutOff'
    BY <1>1, <1>6, <2>1 DEF PoolEnded, Phased, NobodyCutOff, InFlight
  <2> QED
    BY <1>1, <1>6, <2>1, <2>2, ProcessIInv DEF PoolEnded
<1>7. CASE IdleConnectionLost
  <2>1. signals' \in 0 .. MaxSignals /\ handlers' \subseteq handlers
    BY <1>1, <1>7 DEF IdleConnectionLost, Phased
  <2> QED
    BY <1>7, <2>1, DiesIInv DEF IdleConnectionLost
<1>8. CASE Tick
  <2>1. Phased' /\ NobodyCutOff'
    BY <1>1, <1>8 DEF Tick, process, Phased, NobodyCutOff, InFlight
  <2>2. clock' \in 1 .. MaxClock /\ exit' = exit /\ UNCHANGED <<data, req, gone>>
    <3>1. MaxClock \in Nat
      BY ServerAssumption
    <3> QED
      BY <1>1, <1>8, <3>1 DEF Tick, process
  <2> QED
    BY <2>1, <2>2, ProcessIInv
<1>9. ASSUME NEW s \in Signals, Signal(s)
      PROVE  IInv'
  <2>1. signals' \in 0 .. MaxSignals
    <3>1. MaxSignals \in Nat
      BY ServerAssumption
    <3> QED
      BY <1>1, <1>9, <3>1 DEF Signal, Phased
  <2>2. handlers' \subseteq handlers /\ phase # "off"
    BY <1>9 DEF Signal
  <2>3. CASE s \notin handlers
    <3>1. Dies("killed")
      BY <1>9, <2>3 DEF Signal
    <3> QED
      BY <2>1, <2>2, <3>1, DiesIInv
  <2>4. CASE s \in handlers /\ phase = "serving"
    <3>1. /\ phase' = "closing" /\ accepting' = FALSE
          /\ UNCHANGED <<pool, exit, clock, data, req, gone>>
      BY <1>9, <2>4 DEF Signal
    <3>2. Phased' /\ NobodyCutOff'
      BY <1>1, <2>1, <2>2, <2>4, <3>1 DEF Phased, NobodyCutOff, InFlight
    <3> QED
      BY <1>1, <3>1, <3>2, ProcessIInv
  <2>5. CASE s \in handlers /\ phase # "serving"
    <3>1. UNCHANGED <<phase, accepting, pool, exit, clock, data, req, gone>>
      BY <1>9, <2>5 DEF Signal
    <3>2. Phased' /\ NobodyCutOff'
      BY <1>1, <2>1, <2>2, <2>5, <3>1 DEF Phased, NobodyCutOff, InFlight
    <3> QED
      BY <1>1, <3>1, <3>2, ProcessIInv
  <2> QED
    BY <2>3, <2>4, <2>5
<1> QED
  BY <1>2, <1>3, <1>4, <1>5, <1>6, <1>7, <1>8, <1>9, <1>10 DEF ProcessStep

-----------------------------------------------------------------------------
(* The steps of a request, one by one *)

LEMMA ArriveIInv ==
  ASSUME IInv, NEW r \in Requests, NEW a, NEW s \in AnySession, NEW t, Arrive(r, a, s, t)
  PROVE  IInv'
<1>1. Phased /\ Requested /\ gone \subseteq Requests
  BY DEF IInv, Stored
<1>2. req[r] = Idle /\ pool = "open"
  BY <1>1 DEF Arrive, Phased, Requested, RequestOK, Waiting
<1>3. PICK q : q = Sent(a, s, t)
  OBVIOUS
<1>4. q.session = s
  BY <1>3 DEF Sent
<1>5. PICK was \in BOOLEAN : was = (s \in live)
  <2>1. (s \in live) \in BOOLEAN
    OBVIOUS
  <2> QED
    BY <2>1, Zenon
<1>6. PICK x : x = [pc |-> "body", q |-> q, id |-> "none", at |-> 0,
                    check |-> 0, handled |-> FALSE, seen |-> {}, row |-> NoRow, status |-> 0,
                    changed |-> FALSE, wasLive |-> was]
  OBVIOUS
<1>7. RequestOK(x) /\ x.row = NoRow /\ x.pc # "dead"
  BY <1>4, <1>5, <1>6 DEF RequestOK, Fields, AnySession
<1>8. req' = [req EXCEPT ![r] = x] /\ UNCHANGED <<process, clock, data, gone>>
  BY <1>3, <1>5, <1>6 DEF Arrive
<1>9. DOMAIN req' = Requests /\ req'[r] = x /\ \A o \in Requests \ {r} : req'[o] = req[o]
  BY <1>1, <1>8 DEF Requested
<1> QED
  BY <1>1, <1>2, <1>7, <1>8, <1>9, RequestIInv DEF data

LEMMA LeaveIInv ==
  ASSUME IInv, NEW r \in Requests, Leave(r)
  PROVE  IInv'
<1>1. Requested /\ gone \subseteq Requests
  BY DEF IInv, Stored
<1>2. InFlight(r) /\ gone' = gone \cup {r} /\ UNCHANGED <<process, clock, data>>
  BY DEF Leave
<1>3. RequestOK(req[r]) /\ req[r].row = NoRow /\ ~ req[r].changed /\ req[r].pc # "dead"
  BY <1>2, InFlightOK DEF InFlight, Waiting
<1>4. PICK x : x = IF req[r].pc = "body" THEN Answered(req[r], 500) ELSE req[r]
  OBVIOUS
<1>5. RequestOK(x) /\ x.row = NoRow /\ x.pc # "dead"
  BY <1>3, <1>4, AnsweredOK
<1>6. DOMAIN req' = Requests /\ req'[r] = x /\ \A o \in Requests \ {r} : req'[o] = req[o]
  BY <1>1, <1>4 DEF Leave, Requested
<1> QED
  BY <1>1, <1>2, <1>5, <1>6, RequestIInv DEF data

\* Any other step of a request in flight that leaves the tokens alone.
LEMMA InFlightIInv ==
  ASSUME IInv, NEW r \in Requests, InFlight(r),
         NEW x, RequestOK(x), x.row = NoRow, x.pc # "dead", req' = [req EXCEPT ![r] = x],
         UNCHANGED <<process, clock, gone, tokens>>, live' \subseteq live
  PROVE  IInv'
<1>1. Requested /\ gone \subseteq Requests
  BY DEF IInv, Stored
<1>2. DOMAIN req' = Requests /\ req'[r] = x /\ \A o \in Requests \ {r} : req'[o] = req[o]
  BY <1>1 DEF Requested
<1> QED
  BY <1>1, <1>2, RequestIInv

LEMMA DispatchIInv ==
  ASSUME IInv, NEW r \in Requests, Dispatch(r)
  PROVE  IInv'
<1>1. InFlight(r) /\ clock \in Nat /\ clock >= 1
  BY ServerAssumption DEF Dispatch, InFlight, IInv, Stored
<1>2. PICK rec : rec = [req[r] EXCEPT !.at = clock]
  OBVIOUS
<1>3. Fresh(rec)
  BY <1>1, <1>2, InFlightOK DEF Fresh, RequestOK, Fields
<1>4. PICK x : x = Dispatched(rec)
  OBVIOUS
<1>5. RequestOK(x) /\ x.row = NoRow /\ x.pc # "dead"
  BY <1>3, <1>4, DispatchedOK
<1>6. req' = [req EXCEPT ![r] = x] /\ UNCHANGED <<process, clock, data, gone>>
  BY <1>2, <1>4 DEF Dispatch
<1> QED
  BY <1>1, <1>5, <1>6, InFlightIInv DEF data

LEMMA ElsewhereIInv ==
  ASSUME IInv, NEW r \in Requests, Elsewhere(r)
  PROVE  IInv'
<1>1. InFlight(r) /\ UNCHANGED <<process, clock, gone, data>>
  BY DEF Elsewhere, Statement, InFlight, Waiting
<1>2. PICK status : req' = [req EXCEPT ![r] = Answered(@, status)]
  BY DEF Elsewhere
<1>3. PICK x : x = Answered(req[r], status)
  OBVIOUS
<1>4. RequestOK(x) /\ x.row = NoRow /\ x.pc # "dead"
  BY <1>1, <1>3, InFlightOK, AnsweredOK
<1> QED
  BY <1>1, <1>2, <1>3, <1>4, InFlightIInv DEF data

LEMMA LookUpTokenIInv ==
  ASSUME IInv, NEW r \in Requests, NEW ok \in BOOLEAN, LookUpToken(r, ok)
  PROVE  IInv'
<1>1. InFlight(r) /\ req[r].pc = "token" /\ UNCHANGED <<process, clock, gone, data>>
  BY DEF LookUpToken, Statement, InFlight, Waiting
<1>2. PICK rec : rec = req[r]
  OBVIOUS
<1>3. Fresh(rec) /\ RequestOK(rec) /\ rec.row = NoRow /\ ~ rec.changed
  BY <1>1, <1>2, InFlightOK
<1>4. PICK x : x = IF ok /\ ValidToken(rec) THEN Proceed(rec, rec.check + 1) ELSE Answered(rec, 403)
  OBVIOUS
<1>5. RequestOK(x) /\ x.row = NoRow /\ x.pc # "dead"
  <2>1. CASE ok /\ ValidToken(rec)
    <3>1. Shown(rec)
      BY <2>1 DEF ValidToken, Shown, IInv, Stored
    <3> QED
      BY <1>3, <1>4, <2>1, <3>1, ProceedOK
  <2>2. CASE ~(ok /\ ValidToken(rec))
    BY <1>3, <1>4, <2>2, AnsweredOK
  <2> QED
    BY <2>1, <2>2
<1>6. req' = [req EXCEPT ![r] = x]
  BY <1>2, <1>4 DEF LookUpToken
<1> QED
  BY <1>1, <1>5, <1>6, InFlightIInv DEF data

LEMMA ReadSessionIInv ==
  ASSUME IInv, NEW r \in Requests, NEW ok \in BOOLEAN, ReadSession(r, ok)
  PROVE  IInv'
<1>1. InFlight(r) /\ req[r].pc = "session" /\ UNCHANGED <<process, clock, gone, data>>
  BY DEF ReadSession, Statement, InFlight, Waiting
<1>2. PICK rec : rec = req[r]
  OBVIOUS
<1>3. /\ Fresh(rec) /\ RequestOK(rec) /\ rec.row = NoRow /\ ~ rec.changed /\ rec.pc = "session"
      /\ DOMAIN rec = Fields
  BY <1>1, <1>2, InFlightOK DEF Fresh
<1>4. rec.id \in Changing => Shown(rec)
  BY <1>3 DEF RequestOK
<1>5. ASSUME NEW status, NEW x, x = Answered(rec, status), req' = [req EXCEPT ![r] = x]
      PROVE  IInv'
  <2>1. RequestOK(x) /\ x.row = NoRow /\ x.pc # "dead"
    BY <1>3, <1>5, AnsweredOK
  <2> QED
    BY <1>1, <1>5, <2>1, InFlightIInv DEF data
<1>6. ASSUME NEW pc, NEW x, x = [rec EXCEPT !.pc = pc], req' = [req EXCEPT ![r] = x],
             \/ pc = "revoke" /\ rec.id = "platform_logout" /\ rec.q.session \in live
             \/ pc = "commit" /\ rec.id \in AdminWrites /\ SessionHolds(rec)
             \/ pc = "begin"
      PROVE  IInv'
  <2>1. Moved(rec, x) /\ x.pc = pc
    BY <1>3, <1>6 DEF Moved, Fields
  <2>2. CASE pc = "begin"
    BY <1>1, <1>3, <1>6, <2>1, <2>2, MovedOK, InFlightIInv DEF data
  <2>3. CASE pc = "revoke" /\ rec.id = "platform_logout" /\ rec.q.session \in live
    <3>1. Shown(x) /\ x.wasLive
      BY <1>3, <1>4, <2>1, <2>3 DEF Moved, Shown, Changing, Fresh
    <3>2. RequestOK(x) /\ x.row = NoRow /\ x.pc # "dead"
      BY <1>3, <2>1, <2>3, <3>1 DEF RequestOK, Fresh, Moved, Waiting
    <3> QED
      BY <1>1, <1>6, <3>2, InFlightIInv DEF data
  <2>4. CASE pc = "commit" /\ rec.id \in AdminWrites /\ SessionHolds(rec)
    <3>1. Shown(x) /\ x.wasLive /\ EndOf[x.q.session] > x.at
      BY <1>3, <1>4, <2>1, <2>4 DEF Moved, Shown, Changing, Fresh, SessionHolds
    <3>2. RequestOK(x) /\ x.row = NoRow /\ x.pc # "dead"
      BY <1>3, <2>1, <2>4, <3>1 DEF RequestOK, Fresh, Moved, Waiting
    <3> QED
      BY <1>1, <1>6, <3>2, InFlightIInv DEF data
  <2> QED
    BY <1>6, <2>2, <2>3, <2>4
<1>7. CASE rec.id = "platform_logout" /\ ok /\ rec.q.session \in live
  <2>1. req' = [req EXCEPT ![r] = [rec EXCEPT !.pc = "revoke"]]
    BY <1>2, <1>7 DEF ReadSession
  <2> QED
    BY <1>6, <1>7, <2>1
<1>8. CASE rec.id = "platform_logout" /\ ~(ok /\ rec.q.session \in live)
  <2>1. req' = [req EXCEPT ![r] = Answered(rec, 200)]
    BY <1>2, <1>8 DEF ReadSession
  <2> QED
    BY <1>5, <2>1
<1>9. CASE rec.id # "platform_logout" /\ ~ ok
  <2>1. req' = [req EXCEPT ![r] = Answered(rec, 500)]
    BY <1>2, <1>9 DEF ReadSession
  <2> QED
    BY <1>5, <2>1
<1>10. CASE rec.id # "platform_logout" /\ ok /\ ~ SessionHolds(rec)
  <2>1. req' = [req EXCEPT ![r] = Answered(rec, IF rec.id \in AdminWrites THEN 403 ELSE 401)]
    BY <1>2, <1>10 DEF ReadSession
  <2> QED
    BY <1>5, <2>1
<1>11. CASE rec.id # "platform_logout" /\ ok /\ SessionHolds(rec)
  <2>1. CASE rec.id \in Reads
    <3>1. req' = [req EXCEPT ![r] = Answered(rec, 200)]
      BY <1>2, <1>11, <2>1 DEF ReadSession, Reads, AdminWrites
    <3> QED
      BY <1>5, <3>1
  <2>2. CASE rec.id \in AdminWrites
    <3>1. rec.id \notin Reads
      BY <2>2 DEF Reads, AdminWrites
    <3>2. req' = [req EXCEPT ![r] = [rec EXCEPT !.pc = "commit"]]
      BY <1>2, <1>11, <2>2, <3>1 DEF ReadSession
    <3> QED
      BY <1>6, <1>11, <2>2, <3>2
  <2>3. CASE rec.id \notin Reads /\ rec.id \notin AdminWrites
    <3>1. req' = [req EXCEPT ![r] = [rec EXCEPT !.pc = "begin"]]
      BY <1>2, <1>11, <2>3 DEF ReadSession
    <3> QED
      BY <1>6, <3>1
  <2> QED
    BY <2>1, <2>2, <2>3
<1> QED
  BY <1>7, <1>8, <1>9, <1>10, <1>11

LEMMA CommitChangeIInv ==
  ASSUME IInv, NEW r \in Requests, NEW ok \in BOOLEAN, CommitChange(r, ok)
  PROVE  IInv'
<1>1. InFlight(r) /\ req[r].pc = "commit" /\ UNCHANGED <<process, clock, gone, data>>
  BY DEF CommitChange, Statement, InFlight, Waiting
<1>2. PICK rec : rec = req[r]
  OBVIOUS
<1>3. /\ RequestOK(rec) /\ rec.row = NoRow /\ ~ rec.changed /\ rec.pc = "commit"
      /\ DOMAIN rec = Fields
  BY <1>1, <1>2, InFlightOK DEF RequestOK
<1>4. PICK y : y = [rec EXCEPT !.changed = TRUE]
  OBVIOUS
<1>5. DOMAIN y = Fields /\ y.q = rec.q /\ y.at = rec.at /\ y.id = rec.id /\ y.row = rec.row
      /\ y.wasLive = rec.wasLive
  BY <1>3, <1>4 DEF Fields
<1>6. PICK x : x = IF ok THEN Answered(y, 200) ELSE Answered(rec, 500)
  OBVIOUS
<1>7. RequestOK(x) /\ x.row = NoRow /\ x.pc # "dead"
  <2>1. CASE ok
    <3>1. Moved(y, x) /\ x.pc = "done"
      BY <1>5, <1>6, <2>1, AnsweredMoved
    <3>2. Shown(x)
      BY <1>3, <1>5, <3>1 DEF RequestOK, Shown, Moved, Changing
    <3> QED
      BY <1>3, <1>5, <3>1, <3>2 DEF RequestOK, Moved
  <2>2. CASE ~ ok
    BY <1>3, <1>6, <2>2, AnsweredOK
  <2> QED
    BY <2>1, <2>2
<1>8. req' = [req EXCEPT ![r] = x]
  BY <1>2, <1>4, <1>6 DEF CommitChange
<1> QED
  BY <1>1, <1>7, <1>8, InFlightIInv DEF data

LEMMA RevokeIInv ==
  ASSUME IInv, NEW r \in Requests, NEW ok \in BOOLEAN, Revoke(r, ok)
  PROVE  IInv'
<1>1. /\ InFlight(r) /\ req[r].pc = "revoke"
      /\ UNCHANGED <<process, clock, gone, tokens>> /\ live' \subseteq live
  BY DEF Revoke, Statement, InFlight, Waiting
<1>2. PICK rec : rec = req[r]
  OBVIOUS
<1>3. /\ RequestOK(rec) /\ rec.row = NoRow /\ ~ rec.changed /\ rec.pc = "revoke"
      /\ DOMAIN rec = Fields
  BY <1>1, <1>2, InFlightOK DEF RequestOK
<1>4. PICK y : y = [rec EXCEPT !.changed = ok]
  OBVIOUS
<1>5. DOMAIN y = Fields /\ y.q = rec.q /\ y.at = rec.at /\ y.id = rec.id /\ y.row = rec.row
      /\ y.wasLive = rec.wasLive
  BY <1>3, <1>4 DEF Fields
<1>6. PICK x : x = Answered(y, 200)
  OBVIOUS
<1>7. RequestOK(x) /\ x.row = NoRow /\ x.pc # "dead"
  <2>1. Moved(y, x) /\ x.pc = "done"
    BY <1>5, <1>6, AnsweredMoved
  <2>2. Shown(x)
    BY <1>3, <1>5, <2>1 DEF RequestOK, Shown, Moved, Changing
  <2>3. x.id \notin AdminWrites
    BY <1>3, <1>5, <2>1 DEF RequestOK, Moved, AdminWrites
  <2> QED
    BY <1>3, <1>5, <2>1, <2>2, <2>3 DEF RequestOK, Moved
<1>8. req' = [req EXCEPT ![r] = x]
  BY <1>2, <1>4, <1>6 DEF Revoke
<1> QED
  BY <1>1, <1>7, <1>8, InFlightIInv

LEMMA BeginIssueIInv ==
  ASSUME IInv, NEW r \in Requests, NEW ok \in BOOLEAN, BeginIssue(r, ok)
  PROVE  IInv'
<1>1. InFlight(r) /\ req[r].pc = "begin" /\ UNCHANGED <<process, clock, gone, data>>
  BY DEF BeginIssue, Statement, InFlight, Waiting
<1>2. PICK rec : rec = req[r]
  OBVIOUS
<1>3. Fresh(rec) /\ RequestOK(rec) /\ rec.row = NoRow /\ ~ rec.changed /\ DOMAIN rec = Fields
  BY <1>1, <1>2, InFlightOK DEF Fresh
<1>4. PICK x : x = IF ok THEN [rec EXCEPT !.pc = "insert",
                                          !.seen = OfSession(rec.q.session, tokens)]
                   ELSE Answered(rec, 500)
  OBVIOUS
<1>5. RequestOK(x) /\ x.row = NoRow /\ x.pc # "dead"
  <2>1. CASE ok
    <3>1. Moved(rec, x) /\ x.pc = "insert"
      BY <1>3, <1>4, <2>1 DEF Moved, Fields
    <3> QED
      BY <1>3, <3>1, MovedOK
  <2>2. CASE ~ ok
    BY <1>3, <1>4, <2>2, AnsweredOK
  <2> QED
    BY <2>1, <2>2
<1>6. req' = [req EXCEPT ![r] = x]
  BY <1>2, <1>4 DEF BeginIssue
<1> QED
  BY <1>1, <1>5, <1>6, InFlightIInv DEF data

-----------------------------------------------------------------------------
(* An issue commits *)

\* The rows an issue keeps: a row it drops gives way to as many, none older.
LEMMA KeptOK ==
  ASSUME NEW rows, IsFiniteSet(rows), NEW n \in Nat, NEW kept \in Kept(rows, n)
  PROVE  /\ kept \subseteq rows /\ IsFiniteSet(kept) /\ Cardinality(kept) \in Nat
         /\ Cardinality(kept) <= n
         /\ \A row \in rows \ kept : /\ Cardinality(kept) = n
                                     /\ \A o \in kept : o.createdAt >= row.createdAt
<1>1. kept \in SUBSET rows
  BY DEF Kept
<1>2. /\ Cardinality(kept) = IF Cardinality(rows) < n THEN Cardinality(rows) ELSE n
      /\ \A x \in kept, y \in rows \ kept : x.createdAt >= y.createdAt
  BY DEF Kept
<1>3. IsFiniteSet(kept) /\ (Cardinality(kept) = Cardinality(rows) => kept = rows)
  BY <1>1, FS_Subset
<1>4. Cardinality(kept) \in Nat /\ Cardinality(rows) \in Nat
  BY <1>3, FS_CardinalityType
<1> QED
  BY <1>1, <1>2, <1>3, <1>4

\* Room for another row never takes from those who have counted their rows.
LEMMA MoreRows ==
  ASSUME NEW some, NEW more, some \subseteq more, IsFiniteSet(more)
  PROVE  /\ Cardinality(some) \in Nat /\ Cardinality(more) \in Nat
         /\ Cardinality(some) <= Cardinality(more)
<1>1. IsFiniteSet(some) /\ Cardinality(some) <= Cardinality(more)
  BY FS_Subset
<1> QED
  BY <1>1, FS_CardinalityType

\* The table after an issue for session s that kept some of its rows.
Issue(s, new, kept) ==
  /\ new.session = s /\ new \notin Issued /\ Issued' = Issued \cup {new}
  /\ kept \in Kept({row \in OfSession(s, tokens) : row.expiresAt > new.createdAt}, MaxTokens - 1)
  /\ tokens' = (tokens \ (OfSession(s, tokens) \ kept)) \cup {new}

LEMMA IssueKeeps ==
  ASSUME Stored, NEW s \in AnySession, NEW new, NEW kept, Issue(s, new, kept)
  PROVE  /\ kept \subseteq OfSession(s, tokens) /\ IsFiniteSet(kept)
         /\ Cardinality(kept) \in Nat /\ Cardinality(kept) <= MaxTokens - 1
         /\ \A row \in OfSession(s, tokens) \ kept : row.expiresAt > new.createdAt =>
              /\ Cardinality(kept) = MaxTokens - 1
              /\ \A o \in kept : o.createdAt >= row.createdAt
<1> DEFINE active == {row \in OfSession(s, tokens) : row.expiresAt > new.createdAt}
<1>1. active \subseteq OfSession(s, Issued)
  BY DEF OfSession, Stored
<1>2. IsFiniteSet(active)
  BY <1>1, FS_Subset DEF Stored
<1>3. MaxTokens - 1 \in Nat
  BY ServerAssumption
<1>4. kept \in Kept(active, MaxTokens - 1)
  BY DEF Issue
<1>5. \A row \in OfSession(s, tokens) : row.expiresAt > new.createdAt => row \in active
  OBVIOUS
<1>6. active \subseteq OfSession(s, tokens)
  OBVIOUS
<1> HIDE DEF active
<1> QED
  BY <1>2, <1>3, <1>4, <1>5, <1>6, KeptOK

LEMMA IssueStored ==
  ASSUME Stored, NEW s \in AnySession, NEW new, NEW kept, Issue(s, new, kept),
         clock' = clock, live' = live, gone' = gone
  PROVE  Stored'
<1>1. kept \subseteq OfSession(s, tokens) /\ IsFiniteSet(kept)
      /\ Cardinality(kept) \in Nat /\ Cardinality(kept) <= MaxTokens - 1
  BY IssueKeeps
<1>2. tokens' \subseteq Issued'
  BY DEF Issue, Stored
<1>3. ASSUME NEW o \in AnySession
      PROVE  IsFiniteSet(OfSession(o, Issued)') /\ Cardinality(OfSession(o, tokens)') <= MaxTokens
  <2>1. IsFiniteSet(OfSession(o, Issued)) /\ Cardinality(OfSession(o, tokens)) <= MaxTokens
    BY DEF Stored
  <2>2. CASE o # s
    <3>1. OfSession(o, Issued)' = OfSession(o, Issued) /\ OfSession(o, tokens)' = OfSession(o, tokens)
      BY <2>2 DEF Issue, OfSession
    <3> QED
      BY <2>1, <3>1
  <2>3. CASE o = s
    <3>1. OfSession(s, Issued)' = OfSession(s, Issued) \cup {new}
      BY DEF Issue, OfSession
    <3>2. OfSession(s, tokens)' = kept \cup {new} /\ new \notin kept
      BY <1>1 DEF Issue, OfSession, Stored
    <3>3. IsFiniteSet(OfSession(s, Issued) \cup {new})
      BY <2>1, <2>3, FS_AddElement
    <3>4. Cardinality(kept \cup {new}) = Cardinality(kept) + 1
      BY <1>1, <3>2, FS_AddElement
    <3>5. MaxTokens \in Nat
      BY ServerAssumption
    <3> QED
      BY <1>1, <2>3, <3>1, <3>2, <3>3, <3>4, <3>5
  <2> QED
    BY <2>2, <2>3
<1> QED
  BY <1>2, <1>3 DEF Stored

LEMMA IssueGivenTokenKept ==
  ASSUME Requested, Stored, GivenTokenKept, NEW s \in AnySession, NEW new, NEW kept,
         Issue(s, new, kept), new.createdAt \in Nat, Stored'
  PROVE  GivenTokenKept'
<1> SUFFICES ASSUME NEW row \in Issued' \ tokens'
             PROVE  LET others == OfSession(row.session, Issued') \ {row}
                    IN  \/ \E other \in others : other.createdAt >= row.expiresAt
                        \/ \E last \in others :
                             Cardinality({o \in others \ {last} : o.createdAt >= row.createdAt})
                                 >= MaxTokens - 1
  BY DEF GivenTokenKept, OfSession
<1>1. row \in Issued /\ row # new
  BY DEF Issue
<1>2. row.session \in AnySession /\ row.createdAt \in Nat /\ row.expiresAt = row.createdAt + TTL
  BY <1>1, IssuedRows
<1>3. PICK more : more = OfSession(row.session, Issued') \ {row}
  OBVIOUS
<1>4. IsFiniteSet(more)
  <2>1. IsFiniteSet(OfSession(row.session, Issued'))
    BY <1>2 DEF Stored, OfSession
  <2> QED
    BY <1>3, <2>1, FS_Subset
<1>5. MaxTokens - 1 \in Nat
  BY ServerAssumption
<1>6. CASE row \notin tokens
  <2>1. PICK others : others = OfSession(row.session, Issued) \ {row}
    OBVIOUS
  <2>2. others \subseteq more
    BY <1>3, <2>1 DEF Issue, OfSession
  <2>3. \/ \E other \in others : other.createdAt >= row.expiresAt
        \/ \E last \in others :
             Cardinality({o \in others \ {last} : o.createdAt >= row.createdAt}) >= MaxTokens - 1
    BY <1>1, <1>6, <2>1 DEF GivenTokenKept
  <2>4. CASE \E other \in others : other.createdAt >= row.expiresAt
    BY <1>3, <2>2, <2>4
  <2>5. ASSUME NEW last \in others,
               Cardinality({o \in others \ {last} : o.createdAt >= row.createdAt}) >= MaxTokens - 1
        PROVE  \E l \in more :
                 Cardinality({o \in more \ {l} : o.createdAt >= row.createdAt}) >= MaxTokens - 1
    <3>1. IsFiniteSet({o \in more \ {last} : o.createdAt >= row.createdAt})
      BY <1>4, FS_Subset
    <3>2. PICK m \in Nat, n \in Nat :
            /\ m = Cardinality({o \in others \ {last} : o.createdAt >= row.createdAt})
            /\ n = Cardinality({o \in more \ {last} : o.createdAt >= row.createdAt})
            /\ m <= n
      BY <2>2, <3>1, MoreRows
    <3>3. n >= MaxTokens - 1
      BY <1>5, <2>5, <3>2
    <3> QED
      BY <2>2, <3>2, <3>3
  <2> QED
    BY <1>3, <2>3, <2>4, <2>5
<1>7. CASE row \in tokens
  <2>1. row \in OfSession(s, tokens) \ kept /\ row.session = s /\ new \in more
    BY <1>1, <1>3, <1>7 DEF Issue, OfSession
  <2>2. CASE ~(row.expiresAt > new.createdAt)
    <3>1. row.expiresAt \in Nat
      BY <1>2, ServerAssumption
    <3>2. new.createdAt >= row.expiresAt
      BY <2>2, <3>1
    <3> QED
      BY <1>3, <2>1, <3>2
  <2>3. CASE row.expiresAt > new.createdAt
    <3>1. /\ kept \subseteq OfSession(s, tokens) /\ Cardinality(kept) = MaxTokens - 1
          /\ \A o \in kept : o.createdAt >= row.createdAt
      BY <2>1, <2>3, IssueKeeps
    <3>2. kept \subseteq {o \in more \ {new} : o.createdAt >= row.createdAt}
      BY <1>3, <2>1, <3>1 DEF Issue, OfSession, Stored
    <3>3. IsFiniteSet({o \in more \ {new} : o.createdAt >= row.createdAt})
      BY <1>4, FS_Subset
    <3>4. PICK m \in Nat, n \in Nat :
            /\ m = Cardinality(kept) /\ m <= n
            /\ n = Cardinality({o \in more \ {new} : o.createdAt >= row.createdAt})
      BY <3>2, <3>3, MoreRows
    <3>5. n >= MaxTokens - 1
      BY <1>5, <3>1, <3>4
    <3> QED
      BY <1>3, <2>1, <3>4, <3>5
  <2> QED
    BY <2>2, <2>3
<1> QED
  BY <1>6, <1>7

LEMMA InsertTokenIInv ==
  ASSUME IInv, NEW r \in Requests, NEW ok \in BOOLEAN, InsertToken(r, ok)
  PROVE  IInv'
<1>1. /\ InFlight(r) /\ req[r].pc = "insert" /\ live' = live
      /\ UNCHANGED <<process, clock, gone>>
  BY DEF InsertToken, Statement, InFlight, Waiting
<1>2. PICK rec : rec = req[r]
  OBVIOUS
<1>3. Fresh(rec) /\ RequestOK(rec) /\ rec.row = NoRow /\ ~ rec.changed /\ DOMAIN rec = Fields
  BY <1>1, <1>2, InFlightOK DEF Fresh
<1>4. Phased /\ Requested /\ Stored /\ GivenTokenKept /\ NobodyCutOff
  BY DEF IInv
<1>5. CASE ~ (ok /\ Serializable(r))
  <2>1. PICK x : x = Answered(rec, 500)
    OBVIOUS
  <2>2. RequestOK(x) /\ x.row = NoRow /\ x.pc # "dead"
    BY <1>3, <2>1, AnsweredOK
  <2>3. req' = [req EXCEPT ![r] = x] /\ tokens' = tokens
    BY <1>2, <1>5, <2>1 DEF InsertToken
  <2> QED
    BY <1>1, <2>2, <2>3, InFlightIInv
<1>6. CASE ok /\ Serializable(r)
  <2>1. PICK s \in AnySession, at \in Nat : s = rec.q.session /\ at = rec.at /\ at >= 1
    BY <1>3 DEF Fresh
  <2>2. PICK new : new = Row(r, s, at)
    OBVIOUS
  <2>3. new.id = r /\ new.session = s /\ new.createdAt = at /\ new # NoRow
    BY <2>2, RowIsRow DEF Row
  <2>4. rec.seen = OfSession(s, tokens)
    BY <1>2, <1>6, <2>1 DEF Serializable
  <2>5. PICK kept \in Kept({row \in OfSession(s, tokens) : row.expiresAt > at}, MaxTokens - 1) :
          /\ tokens' = (tokens \ (OfSession(s, tokens) \ kept)) \cup {new}
          /\ req' = [req EXCEPT ![r] = Answered([req[r] EXCEPT !.row = new], 200)]
    <3>1. \E kept \in Kept({row \in req[r].seen : row.expiresAt > req[r].at}, MaxTokens - 1) :
            /\ tokens' = (tokens \ (req[r].seen \ kept)) \cup {Row(r, req[r].q.session, req[r].at)}
            /\ req' = [req EXCEPT ![r] =
                 Answered([req[r] EXCEPT !.row = Row(r, req[r].q.session, req[r].at)], 200)]
      BY <1>6 DEF InsertToken
    <3>2. req[r].seen = OfSession(s, tokens) /\ req[r].at = at /\ Row(r, req[r].q.session, req[r].at) = new
      BY <1>2, <2>1, <2>2, <2>4
    <3> QED
      BY <3>1, <3>2
  <2>6. PICK y : y = [rec EXCEPT !.row = new]
    OBVIOUS
  <2>7. /\ DOMAIN y = Fields /\ y.q = rec.q /\ y.at = rec.at /\ y.row = new
        /\ y.changed = rec.changed /\ y.wasLive = rec.wasLive
    BY <1>3, <2>6 DEF Fields
  <2>8. PICK x : x = Answered(y, 200)
    OBVIOUS
  <2>9. Moved(y, x) /\ x.pc = "done"
    BY <2>7, <2>8, AnsweredMoved
  <2>10. RequestOK(x) /\ x.row = Row(r, x.q.session, x.at) /\ x.row = new
    BY <1>3, <2>1, <2>2, <2>7, <2>9 DEF RequestOK, Moved
  <2>11. DOMAIN req' = Requests /\ req'[r] = x /\ \A o \in Requests \ {r} : req'[o] = req[o]
    BY <1>2, <1>4, <2>5, <2>6, <2>8 DEF Requested
  <2>12. new \notin Issued
    BY <1>2, <1>3, <1>4, <2>1, <2>3, IssuedRows
  <2>13. Issued' = Issued \cup {new}
    <3>1. Arrived(r)' /\ req'[r].row = new
      BY <2>9, <2>10, <2>11 DEF Arrived
    <3>2. \A o \in Requests \ {r} : (Arrived(o)' <=> Arrived(o)) /\ req'[o] = req[o]
      BY <2>11 DEF Arrived
    <3>3. \A row : row \in {req[o].row : o \in {o \in Requests : Arrived(o) /\ req[o].row # NoRow}}'
            <=> \/ row \in {req[o].row : o \in {o \in Requests : Arrived(o) /\ req[o].row # NoRow}}
                \/ row = new
      BY <1>2, <1>3, <2>3, <3>1, <3>2
    <3> QED
      BY <3>3 DEF Issued, Earlier
  <2>14. Issue(s, new, kept)
    BY <2>3, <2>5, <2>12, <2>13 DEF Issue
  <2>15. Phased'
    BY <1>1, <1>4 DEF Phased, process
  <2>16. Stored'
    BY <1>1, <1>4, <2>14, IssueStored
  <2>17. GivenTokenKept'
    BY <1>4, <2>3, <2>14, <2>16, IssueGivenTokenKept
  <2>18. NobodyCutOff'
    <3>1. pool' = pool /\ exit' = exit /\ gone' = gone
      BY <1>1 DEF process
    <3>2. (\A o \in Requests \ {r} : InFlight(o)' <=> InFlight(o)) /\ ~ InFlight(r)'
      BY <2>9, <2>11 DEF InFlight, Waiting
    <3> QED
      BY <1>4, <3>1, <3>2 DEF NobodyCutOff
  <2>19. Requested'
    <3>1. ASSUME NEW o \in Requests, RequestOK(req'[o])
          PROVE  RequestOK(req[o])'
      <4>1. PICK z : z = req'[o]
        OBVIOUS
      <4>2. RequestOK(z)'
        BY <1>1, <2>13, <3>1, <4>1, StillOK
      <4> QED
        BY <4>1, <4>2 DEF RequestOK, Shown
    <3>2. RequestOK(req[r])'
      BY <2>10, <2>11, <3>1
    <3>3. ASSUME NEW o \in Requests \ {r}, req[o] # Idle
          PROVE  /\ RequestOK(req[o])'
                 /\ req'[o].row # NoRow => req'[o].row = Row(o, req'[o].q.session, req'[o].at)
                 /\ req'[o].pc = "dead" => exit' \notin {"none", "0"}
      <4>1. RequestOK(req'[o])
        BY <1>4, <2>11, <3>3 DEF Requested
      <4>2. exit' = exit
        BY <1>1 DEF process
      <4> QED
        BY <1>4, <2>11, <3>1, <3>3, <4>1, <4>2 DEF Requested
    <3> QED
      BY <2>9, <2>10, <2>11, <3>2, <3>3 DEF Requested, Idle
  <2> QED
    BY <2>15, <2>16, <2>17, <2>18, <2>19 DEF IInv
<1> QED
  BY <1>5, <1>6

-----------------------------------------------------------------------------
(* Every step *)

LEMMA NextIInv == IInv /\ [Next]_vars => IInv'
<1> SUFFICES ASSUME IInv, [Next]_vars PROVE IInv'
  OBVIOUS
<1>1. CASE Start \/ ProcessStep \/ IdleConnectionLost \/ Tick \/ (\E s \in Signals : Signal(s))
  BY <1>1, ProcessStepsIInv
<1>2. ASSUME NEW r \in Requests, NEW a, NEW s \in AnySession, NEW t, Arrive(r, a, s, t)
      PROVE  IInv'
  BY <1>2, ArriveIInv
<1>3. ASSUME NEW r \in Requests, Leave(r) \/ RequestStep(r)
      PROVE  IInv'
  <2>1. CASE Leave(r)
    BY <2>1, LeaveIInv
  <2>2. CASE Dispatch(r) \/ Elsewhere(r)
    BY <2>2, DispatchIInv, ElsewhereIInv
  <2>3. ASSUME NEW ok \in BOOLEAN,
               \/ LookUpToken(r, ok) \/ ReadSession(r, ok) \/ CommitChange(r, ok)
               \/ Revoke(r, ok) \/ BeginIssue(r, ok) \/ InsertToken(r, ok)
        PROVE  IInv'
    BY <2>3, LookUpTokenIInv, ReadSessionIInv, CommitChangeIInv, RevokeIInv, BeginIssueIInv,
       InsertTokenIInv
  <2> QED
    BY <1>3, <2>1, <2>2, <2>3 DEF RequestStep
<1>4. CASE UNCHANGED vars
  <2>1. UNCHANGED <<data, req, gone>> /\ clock' = clock /\ exit' = exit
    BY <1>4 DEF vars, process
  <2>2. Phased' /\ NobodyCutOff' /\ clock' \in 1 .. MaxClock
    BY <1>4 DEF vars, process, IInv, Stored, Phased, NobodyCutOff, InFlight
  <2> QED
    BY <2>1, <2>2, ProcessIInv
<1> QED
  BY <1>1, <1>2, <1>3, <1>4 DEF Next, AnySession

LEMMA TypeOKHolds == IInv => TypeOK
<1> SUFFICES ASSUME IInv PROVE TypeOK
  OBVIOUS
<1>1. Phased /\ Requested /\ Stored
  BY DEF IInv
<1>2. \A r \in Requests : req[r].pc \in {"idle", "body", "done", "dead"} \cup Waiting
  BY <1>1 DEF Requested, RequestOK, Idle
<1> QED
  BY <1>1, <1>2 DEF Phased, Stored, TypeOK

LEMMA ChangesByRightHolds == IInv => ChangesByRight
<1> SUFFICES ASSUME IInv, NEW r \in Requests, Arrived(r), req[r].changed
             PROVE  /\ req[r].wasLive /\ Shown(req[r])
                    /\ req[r].id \in AdminWrites => EndOf[req[r].q.session] > req[r].at
  BY DEF ChangesByRight, Shown
<1>1. req[r] # Idle
  BY DEF Arrived, Idle
<1> QED
  BY <1>1 DEF IInv, Requested, RequestOK

LEMMA NothingLeftBehindHolds == IInv => NothingLeftBehind
<1> SUFFICES ASSUME IInv, exit # "none"
             PROVE  /\ pool \in {"none", "closed"} /\ ~ accepting
                    /\ exit = "0" => \A r \in Requests \ gone : req[r].pc \in {"idle", "done"}
  BY DEF NothingLeftBehind
<1>1. pool \in {"none", "closed"} /\ ~ accepting
  BY DEF IInv, Phased
<1>2. ASSUME exit = "0", NEW r \in Requests \ gone PROVE req[r].pc \in {"idle", "done"}
  <2>1. req[r] = Idle \/ (RequestOK(req[r]) /\ req[r].pc # "dead")
    BY <1>2 DEF IInv, Requested
  <2>2. pool = "closed"
    BY <1>2 DEF IInv, Phased
  <2>3. ~ InFlight(r)
    BY <1>2, <2>2 DEF IInv, NobodyCutOff
  <2> QED
    BY <2>1, <2>3 DEF RequestOK, InFlight, Idle
<1> QED
  BY <1>1, <1>2

-----------------------------------------------------------------------------
(* A request meets the contract of its route *)

\* A token of the session was issued, expired by now or not.
Given(rec) == \E row \in Issued : row.id = rec.q.token.id /\ row.session = rec.q.session

\* What a handled request has shown: ContractKept of one request.
Contract(rec) ==
  \E i \in DOMAIN HTTP_ROUTE_CONTRACTS :
    LET c == HTTP_ROUTE_CONTRACTS[i]
    IN  /\ c.id = rec.id /\ c.method = rec.q.method
        /\ c.requiredQuery \subseteq rec.q.query
        /\ c.csrf => /\ RequestOrigin(rec.q) = "allowed"
                     /\ \E row \in Issued : row.id = rec.q.token.id
                                            /\ row.session = rec.q.session
        /\ c.browserSession = "required" /\ rec.q.session = NoSession
               => rec.pc = "done" /\ rec.status \in {401, 403}

\* The checks before the n-th are passed, by their values.
PassedTo(rec, n) ==
  \A k \in 1 .. Len(RouteChecks(rec.id)) :
    k < n => Passes(RouteChecks(rec.id)[k], rec.id, rec.q)

\* What holds of a request's route at each of its awaits.
RouteOK(rec) ==
  /\ rec.q.path \in Paths
  /\ rec.pc = "body" => ~ rec.handled
  /\ rec.pc = "token" => /\ ~ rec.handled /\ RouteOfMethod(rec.id, rec.q.method)
                         /\ rec.check \in Nat /\ PassedTo(rec, rec.check + 1)
  /\ rec.pc = "done" /\ rec.status \in {404, 405} => NoneFor(rec.q.path, rec.q.method)
  /\ rec.handled => Contract(rec)

Routed == \A r \in Requests : Arrived(r) => RouteOK(req[r])

\* A request that goes on to another await, or is answered there.
LEMMA RouteMoved ==
  ASSUME NEW rec, NEW x, RouteOK(rec), rec.pc # "done",
         x.q = rec.q, x.id = rec.id, x.handled = rec.handled,
         x.pc \notin {"token", "body"}, x.pc = "done" => x.status \notin {404, 405}
  PROVE  RouteOK(x)
<1>1. Contract(rec) => Contract(x)
  BY DEF Contract
<1> QED
  BY <1>1 DEF RouteOK

\* A handler is entered with all that its contract asks for.
LEMMA EnterRoutes ==
  ASSUME NEW rec, DOMAIN rec = Fields, rec.q.path \in Paths, rec.handled,
         RouteOfMethod(rec.id, rec.q.method), PassedTo(rec, Len(RouteChecks(rec.id)) + 1),
         rec.id \in SecuredBranches => Given(rec)
  PROVE  RouteOK(Enter(rec))
<1>1. PICK c, i : i \in DOMAIN HTTP_ROUTE_CONTRACTS /\ c = HTTP_ROUTE_CONTRACTS[i]
                  /\ c.id = rec.id /\ c.method = rec.q.method
  BY DEF RouteOfMethod
<1>2. RouteAgrees(c)
  BY <1>1, TableAgrees
<1>3. PICK checks : checks = RouteChecks(rec.id)
  OBVIOUS
<1>4. \A check : Has(checks, check) => Passes(check, rec.id, rec.q)
  <2> SUFFICES ASSUME NEW k \in 1 .. Len(checks) PROVE Passes(checks[k], rec.id, rec.q)
    BY DEF Has
  <2>1. checks \in Seq(Checks)
    BY <1>3, RouteChecksAre
  <2>2. PICK n \in Nat : n = Len(checks)
    BY <2>1, LenProperties
  <2>3. k < n + 1
    BY <2>2
  <2> QED
    BY <1>3, <2>2, <2>3 DEF PassedTo
<1>5. c.requiredQuery \subseteq rec.q.query
  <2>1. c.requiredQuery \subseteq QueryRead(rec.id)
    BY <1>1, <1>2 DEF RouteAgrees
  <2>2. QueryRead(rec.id) # {} => Passes("query", rec.id, rec.q)
    BY <1>3, <1>4, Checked
  <2>3. Passes("query", rec.id, rec.q) => QueryRead(rec.id) \subseteq rec.q.query
    BY DEF Passes
  <2> QED
    BY <2>1, <2>2, <2>3
<1>6. c.csrf => RequestOrigin(rec.q) = "allowed" /\ Given(rec)
  <2>1. c.csrf => rec.id \in SecuredBranches
    BY <1>1, <1>2 DEF RouteAgrees
  <2>2. rec.id \in SecuredBranches => Passes("security", rec.id, rec.q)
    BY <1>3, <1>4, Checked
  <2>3. Passes("security", rec.id, rec.q) => RequestOrigin(rec.q) = "allowed"
    BY DEF Passes
  <2> QED
    BY <2>1, <2>2, <2>3
<1>7. c.browserSession = "required" =>
        \/ rec.id \in BySession \ {"platform_logout"}
        \/ rec.id = "platform_sqag_launch_open" /\ rec.q.session # NoSession
  <2>1. rec.id = "platform_sqag_launch_open" => Passes("session", rec.id, rec.q)
    BY <1>3, <1>4, Checked
  <2>2. Passes("session", rec.id, rec.q) => rec.q.session # NoSession
    BY DEF Passes
  <2> QED
    BY <1>1, <1>2, <2>1, <2>2 DEF RouteAgrees, AskSession
<1>8. PICK x : x = Enter(rec)
  OBVIOUS
<1>9. /\ x.q = rec.q /\ x.id = rec.id /\ x.handled = rec.handled
      /\ x.pc \in {"done", "elsewhere", "session"}
      /\ x.pc = "done" => x.status \in {200, 401, 410}
  <2>1. CASE rec.id \in Pages
    BY <1>8, <2>1 DEF Enter, Answered, Fields
  <2>2. CASE rec.id \notin Pages /\ rec.id \notin BySession
    BY <1>8, <2>2 DEF Enter, Fields
  <2>3. CASE rec.id \notin Pages /\ rec.id \in BySession
    <3>1. (\E status \in {200, 401, 410} : x = Answered(rec, status)) \/ x = [rec EXCEPT !.pc = "session"]
      BY <1>8, <2>3 DEF Enter
    <3>3. CASE x = [rec EXCEPT !.pc = "session"]
      BY <3>3 DEF Fields
    <3>4. CASE \E status \in {200, 401, 410} : x = Answered(rec, status)
      <4>1. PICK status \in {200, 401, 410} : x = Answered(rec, status)
        BY <3>4
      <4>2. /\ x.q = rec.q /\ x.id = rec.id /\ x.handled = rec.handled
            /\ x.pc = "done" /\ x.status = status
        BY <4>1 DEF Answered, Fields
      <4> QED
        BY <4>2
    <3> QED
      BY <3>1, <3>3, <3>4
  <2> QED
    BY <2>1, <2>2, <2>3
<1>10. c.browserSession = "required" /\ rec.q.session = NoSession => x.pc = "done" /\ x.status \in {401, 403}
  <2> SUFFICES ASSUME c.browserSession = "required", rec.q.session = NoSession
               PROVE  x.pc = "done" /\ x.status \in {401, 403}
    OBVIOUS
  <2>1. rec.id \in BySession \ {"platform_logout"}
    BY <1>7
  <2>2. rec.id \notin Pages
    BY <2>1, PagesAskNothing
  <2>3. x = Answered(rec, 401)
    BY <1>8, <2>1, <2>2 DEF Enter
  <2> QED
    BY <2>3 DEF Answered, Fields
<1>11. Contract(x)
  <2>1. /\ c.id = x.id /\ c.method = x.q.method /\ c.requiredQuery \subseteq x.q.query
        /\ c.csrf => RequestOrigin(x.q) = "allowed" /\ Given(x)
    BY <1>1, <1>5, <1>6, <1>9 DEF Given
  <2> QED
    BY <1>1, <1>9, <1>10, <2>1 DEF Contract, Given
<1>12. x.pc = "done" => x.status \notin {404, 405}
  BY <1>9
<1> QED
  BY <1>8, <1>9, <1>11, <1>12 DEF RouteOK

\* No check refuses a request as unknown or as of the wrong method.
LEMMA Refusals == \A check, id, q : Refusal(check, id, q) \in {400, 401, 403, 500, 503}
<1> TAKE check, id, q
<1>1. CASE check \in {"query", "body"}
  BY <1>1 DEF Refusal
<1>2. CASE check = "session"
  BY <1>2 DEF Refusal
<1>3. CASE check = "service"
  BY <1>3 DEF Refusal
<1>4. CASE check = "separateOrigin"
  BY <1>4 DEF Refusal
<1>5. CASE check = "security"
  BY <1>5 DEF Refusal
<1>6. CASE check \notin {"query", "body", "session", "service", "separateOrigin", "security"}
  BY <1>6 DEF Refusal
<1> QED
  BY <1>1, <1>2, <1>3, <1>4, <1>5, <1>6

\* The checks of a branch from one of them on: the handler is entered when
\* they are all passed.
LEMMA ProceedRoutes ==
  ASSUME NEW rec, DOMAIN rec = Fields, rec.q.path \in Paths, ~ rec.handled,
         RouteOfMethod(rec.id, rec.q.method),
         NEW n \in Nat \ {0}, PassedTo(rec, n), n = 1 \/ Given(rec)
  PROVE  RouteOK(Proceed(rec, n))
<1> DEFINE checks == RouteChecks(rec.id)
           I == {k \in n .. Len(checks) : checks[k] = "security" \/ ~ Passes(checks[k], rec.id, rec.q)}
           i == IF I # {} THEN Min(I) ELSE 0
           x == Proceed(rec, n)
<1>1. x = IF i = 0 THEN Enter([rec EXCEPT !.handled = TRUE])
          ELSE IF Passes(checks[i], rec.id, rec.q) THEN [rec EXCEPT !.pc = "token", !.check = i]
          ELSE Answered(rec, Refusal(checks[i], rec.id, rec.q))
  BY DEF Proceed, SelectInSubSeq
<1>2. PICK last \in Nat : last = Len(checks)
  BY RouteChecksAre, LenProperties
<1>3. I \in SUBSET Nat /\ 0 \notin I /\ I \subseteq n .. last
  BY <1>2
<1>4. \A k \in n .. last : k \notin I => checks[k] # "security" /\ Passes(checks[k], rec.id, rec.q)
  BY <1>2
<1> HIDE DEF I
<1>5. IF i = 0 THEN I = {} ELSE i \in n .. last /\ \A k \in I : i <= k
  <2>1. I # {} => Min(I) \in I /\ \A k \in I : Min(I) <= k
    BY <1>3, LeastIsIn
  <2> QED
    BY <1>3, <2>1
<1>6. \A k \in 1 .. last : k < n => Passes(checks[k], rec.id, rec.q)
  BY <1>2 DEF PassedTo
<1> HIDE DEF i
<1>7. CASE i = 0
  <2>1. PICK y : y = [rec EXCEPT !.handled = TRUE]
    OBVIOUS
  <2>2. DOMAIN y = Fields /\ y.id = rec.id /\ y.q = rec.q /\ y.handled
    BY <2>1 DEF Fields
  <2>3. \A k \in 1 .. last : k >= n => checks[k] # "security" /\ Passes(checks[k], rec.id, rec.q)
    BY <1>4, <1>5, <1>7
  <2>4. PassedTo(y, Len(RouteChecks(y.id)) + 1)
    <3>1. \A k \in 1 .. last : Passes(checks[k], rec.id, rec.q)
      BY <1>6, <2>3
    <3> QED
      BY <1>2, <2>2, <3>1 DEF PassedTo
  <2>5. rec.id \in SecuredBranches => Given(y)
    <3> SUFFICES ASSUME rec.id \in SecuredBranches PROVE Given(rec)
      BY <2>2 DEF Given
    <3>1. PICK k \in 1 .. last : checks[k] = "security"
      BY <1>2, Checked DEF Has
    <3>2. n # 1
      BY <2>3, <3>1
    <3> QED
      BY <3>2
  <2>6. RouteOK(Enter(y))
    BY <2>2, <2>4, <2>5, EnterRoutes
  <2> QED
    BY <1>1, <1>7, <2>1, <2>6
<1>8. CASE i # 0 /\ Passes(checks[i], rec.id, rec.q)
  <2>1. x = [rec EXCEPT !.pc = "token", !.check = i]
    BY <1>1, <1>8
  <2> HIDE DEF x
  <2>2. /\ x.pc = "token" /\ x.check = i /\ x.q = rec.q /\ x.id = rec.id /\ ~ x.handled
    BY <2>1 DEF Fields
  <2>3. i \in Nat /\ \A k \in 1 .. last : k < i + 1 => Passes(checks[k], rec.id, rec.q)
    <3>1. i \in n .. last
      BY <1>5, <1>8
    <3>2. \A k \in 1 .. last : k >= n /\ k < i => Passes(checks[k], rec.id, rec.q)
      BY <1>3, <1>4, <1>5, <1>8, <3>1
    <3> QED
      BY <1>6, <1>8, <3>1, <3>2
  <2>4. PassedTo(x, x.check + 1)
    BY <1>2, <2>2, <2>3 DEF PassedTo
  <2>5. RouteOK(x)
    BY <2>2, <2>3, <2>4 DEF RouteOK
  <2> QED
    BY <2>5 DEF x
<1>9. CASE i # 0 /\ ~ Passes(checks[i], rec.id, rec.q)
  <2>1. PICK status : status = Refusal(checks[i], rec.id, rec.q) /\ status \notin {404, 405}
    BY Refusals
  <2>2. x = Answered(rec, status)
    BY <1>1, <1>9, <2>1
  <2> HIDE DEF x
  <2>3. x.pc = "done" /\ x.status = status /\ x.q = rec.q /\ ~ x.handled
    BY <2>2 DEF Answered, Fields
  <2>4. RouteOK(x)
    BY <2>1, <2>3 DEF RouteOK
  <2> QED
    BY <2>4 DEF x
<1> QED
  BY <1>7, <1>8, <1>9

\* The adapter takes a request whose body is there.
LEMMA DispatchedRoutes ==
  ASSUME NEW rec, DOMAIN rec = Fields, rec.q.path \in Paths, ~ rec.handled
  PROVE  RouteOK(Dispatched(rec))
<1>1. PICK host : host = HostRefusal(rec.q) /\ host \in {0, 308, 421}
  <2>1. CASE PublicBase = "none"
    BY <2>1 DEF HostRefusal
  <2>2. CASE PublicBase = "invalid"
    BY <2>2 DEF HostRefusal
  <2>3. CASE PublicBase = "apex" /\ rec.q.host = "www"
    BY <2>3 DEF HostRefusal
  <2>4. CASE PublicBase \notin {"none", "invalid"} /\ ~(PublicBase = "apex" /\ rec.q.host = "www")
    BY <2>4 DEF HostRefusal
  <2> QED
    BY <2>1, <2>2, <2>3, <2>4
<1>2. PICK routing : routing = RoutingRefusal(rec.q)
  OBVIOUS
<1>3. \A status : /\ Answered(rec, status).pc = "done" /\ Answered(rec, status).status = status
                  /\ Answered(rec, status).q = rec.q /\ ~ Answered(rec, status).handled
  BY DEF Answered, Fields
<1>4. CASE host # 0
  <2>1. Dispatched(rec) = Answered(rec, host)
    BY <1>1, <1>4 DEF Dispatched
  <2>2. RouteOK(Answered(rec, host))
    BY <1>1, <1>3, <1>4 DEF RouteOK
  <2> QED
    BY <2>1, <2>2
<1>5. CASE host = 0 /\ routing # 0
  <2>1. Dispatched(rec) = Answered(rec, routing)
    BY <1>1, <1>2, <1>5 DEF Dispatched
  <2>2. routing \in {404, 405} => NoneFor(rec.q.path, rec.q.method)
    BY <1>2, RefusalOfNone
  <2>3. RouteOK(Answered(rec, routing))
    BY <1>3, <2>2 DEF RouteOK
  <2> QED
    BY <2>1, <2>3
<1>6. CASE host = 0 /\ routing = 0
  <2>1. PICK y : y = [rec EXCEPT !.id = RouteOf[rec.q.path].id]
    OBVIOUS
  <2>2. /\ DOMAIN y = Fields /\ y.q = rec.q /\ ~ y.handled /\ y.id = RouteOf[rec.q.path].id
    BY <2>1 DEF Fields
  <2>3. RouteOfMethod(y.id, y.q.method)
    BY <1>2, <1>6, <2>2, RefusalOfNone
  <2>4. PassedTo(y, 1)
    BY DEF PassedTo
  <2>5. RouteOK(Proceed(y, 1))
    BY <2>2, <2>3, <2>4, ProceedRoutes
  <2> QED
    BY <1>1, <1>2, <1>6, <2>1, <2>5 DEF Dispatched
<1> QED
  BY <1>1, <1>4, <1>5, <1>6

-----------------------------------------------------------------------------
(* Every step keeps the contracts *)

LEMMA InitRouted == Init => Routed
  BY DEF Init, Routed, Arrived, Idle

\* What was issued stays issued where no answer is changed.
LEMMA IssuedGrows ==
  ASSUME IInv, \A r \in Requests : req[r].pc = "done" => req'[r] = req[r]
  PROVE  Issued \subseteq Issued'
<1> SUFFICES ASSUME NEW row \in Issued PROVE row \in Issued'
  OBVIOUS
<1>1. CASE row \in Earlier
  BY <1>1 DEF Issued, Earlier
<1>2. CASE row \notin Earlier
  <2>1. PICK r \in Requests : Arrived(r) /\ req[r].row # NoRow /\ row = req[r].row
    BY <1>2 DEF Issued
  <2>2. req[r].pc = "done"
    BY <2>1 DEF IInv, Requested, RequestOK, Arrived, Idle
  <2>3. req'[r] = req[r]
    BY <2>2
  <2>4. Arrived(r)' /\ req'[r].row # NoRow /\ row = req'[r].row
    BY <2>1, <2>3 DEF Arrived
  <2> QED
    BY <2>4 DEF Issued
<1> QED
  BY <1>1, <1>2

\* What a request has shown of its route it has shown for good.
LEMMA RouteStill ==
  ASSUME NEW x, RouteOK(x), Issued \subseteq Issued'
  PROVE  RouteOK(x)'
<1>1. Contract(x) => Contract(x)'
  BY DEF Contract
<1> QED
  BY <1>1 DEF RouteOK

\* One request moves.
LEMMA OneRouted ==
  ASSUME IInv, Routed, NEW r \in Requests, req[r].pc # "done",
         \A o \in Requests \ {r} : req'[o] = req[o], NEW x, req'[r] = x, RouteOK(x)
  PROVE  Routed'
<1>1. Issued \subseteq Issued'
  BY IssuedGrows
<1>2. ASSUME NEW o \in Requests, Arrived(o)' PROVE RouteOK(req[o])'
  <2>1. PICK y : y = req'[o]
    OBVIOUS
  <2>2. RouteOK(y)
    BY <1>2, <2>1 DEF Routed, Arrived
  <2>3. RouteOK(y)'
    BY <1>1, <2>2, RouteStill
  <2> QED
    BY <2>1, <2>3 DEF RouteOK, Contract
<1> QED
  BY <1>2 DEF Routed

\* A request past its routing goes on to another await or to its answer.
Onward(rec, x) ==
  /\ x.q = rec.q /\ x.id = rec.id /\ x.handled = rec.handled
  /\ x.pc \notin {"token", "body"}
  /\ x.pc = "done" => x.status \notin {404, 405}

LEMMA GoesOn ==
  ASSUME IInv, Routed, NEW r \in Requests, InFlight(r),
         \A o \in Requests \ {r} : req'[o] = req[o],
         NEW rec, rec = req[r], NEW x, x = req'[r], Onward(rec, x)
  PROVE  Routed'
<1>1. Arrived(r) /\ req[r].pc # "done"
  BY DEF InFlight, Arrived, Waiting
<1>2. RouteOK(rec)
  BY <1>1 DEF Routed
<1>3. RouteOK(x)
  BY <1>1, <1>2, RouteMoved DEF Onward
<1> QED
  BY <1>1, <1>3, OneRouted

\* Nothing happens to the requests.
LEMMA SameRouted ==
  ASSUME IInv, Routed, req' = req
  PROVE  Routed'
<1>1. Issued \subseteq Issued'
  BY IssuedGrows
<1>2. ASSUME NEW o \in Requests, Arrived(o)' PROVE RouteOK(req[o])'
  <2>1. PICK y : y = req[o]
    OBVIOUS
  <2>2. RouteOK(y)'
    BY <1>1, <1>2, <2>1, RouteStill DEF Routed, Arrived
  <2> QED
    BY <2>1, <2>2 DEF RouteOK, Contract
<1> QED
  BY <1>2 DEF Routed

LEMMA ArriveRouted ==
  ASSUME IInv, Routed, NEW r \in Requests,
         NEW a \in Arrivals(Cardinality({x \in Requests : Arrived(x)})),
         NEW s, NEW t, Arrive(r, a, s, t)
  PROVE  Routed'
<1>1. a.path \in Paths /\ "path" \in DOMAIN a
  <2>1. Cardinality({x \in Requests : Arrived(x)}) \in 0 .. Cardinality(Requests)
    <3>1. PICK few : few = {x \in Requests : Arrived(x)} /\ few \in SUBSET Requests
      OBVIOUS
    <3>2. IsFiniteSet(few) /\ Cardinality(few) <= Cardinality(Requests)
      BY <3>1, FS_Subset, RequestsAssumption
    <3>3. Cardinality(few) \in Nat /\ Cardinality(Requests) \in Nat
      BY <3>2, FS_CardinalityType, RequestsAssumption
    <3> QED
      BY <3>1, <3>2, <3>3
  <2> QED
    BY <2>1, ServerAssumption
<1>2. PICK q : q = Sent(a, s, t)
  OBVIOUS
<1>3. q.path = a.path
  BY <1>1, <1>2 DEF Sent
<1>4. PICK x : x = [pc |-> "body", q |-> q, id |-> "none", at |-> 0,
                    check |-> 0, handled |-> FALSE, seen |-> {}, row |-> NoRow, status |-> 0,
                    changed |-> FALSE, wasLive |-> s \in live]
  OBVIOUS
<1>5. RouteOK(x)
  BY <1>1, <1>3, <1>4 DEF RouteOK
<1>6. req'[r] = x /\ (\A o \in Requests \ {r} : req'[o] = req[o]) /\ req[r].pc # "done"
  <2>1. DOMAIN req = Requests
    BY DEF IInv, Requested
  <2>2. req' = [req EXCEPT ![r] = x] /\ req[r].pc = "idle"
    BY <1>2, <1>4 DEF Arrive
  <2> QED
    BY <2>1, <2>2
<1> QED
  BY <1>5, <1>6, OneRouted

LEMMA LeaveRouted ==
  ASSUME IInv, Routed, NEW r \in Requests, Leave(r)
  PROVE  Routed'
<1>1. InFlight(r)
  BY DEF Leave
<1>2. DOMAIN req[r] = Fields /\ DOMAIN req = Requests
  BY <1>1, InFlightOK DEF IInv, Requested, RequestOK
<1>3. CASE req[r].pc = "body"
  <2>1. PICK x : x = Answered(req[r], 500)
    OBVIOUS
  <2>2. req'[r] = x /\ \A o \in Requests \ {r} : req'[o] = req[o]
    BY <1>2, <1>3, <2>1 DEF Leave
  <2>3. Onward(req[r], x)
    BY <1>2, <2>1 DEF Onward, Answered, Fields
  <2> QED
    BY <1>1, <2>2, <2>3, GoesOn
<1>4. CASE req[r].pc # "body"
  <2>1. req' = req
    BY <1>4 DEF Leave
  <2> QED
    BY <2>1, SameRouted
<1> QED
  BY <1>3, <1>4

LEMMA DispatchRouted ==
  ASSUME IInv, Routed, NEW r \in Requests, Dispatch(r)
  PROVE  Routed'
<1>1. InFlight(r) /\ req[r].pc = "body" /\ Arrived(r)
  BY DEF Dispatch, InFlight, Arrived
<1>2. DOMAIN req[r] = Fields /\ DOMAIN req = Requests
  BY <1>1, InFlightOK DEF IInv, Requested, RequestOK
<1>3. req[r].q.path \in Paths /\ ~ req[r].handled
  BY <1>1 DEF Routed, RouteOK
<1>4. PICK y : y = [req[r] EXCEPT !.at = clock]
  OBVIOUS
<1>5. DOMAIN y = Fields /\ y.q = req[r].q /\ y.handled = req[r].handled
  BY <1>2, <1>4 DEF Fields
<1>6. PICK x : x = Dispatched(y)
  OBVIOUS
<1>7. RouteOK(x)
  BY <1>3, <1>5, <1>6, DispatchedRoutes
<1>8. req'[r] = x /\ \A o \in Requests \ {r} : req'[o] = req[o]
  BY <1>2, <1>4, <1>6 DEF Dispatch
<1> QED
  BY <1>1, <1>7, <1>8, OneRouted

LEMMA LookUpTokenRouted ==
  ASSUME IInv, Routed, NEW r \in Requests, NEW ok \in BOOLEAN, LookUpToken(r, ok)
  PROVE  Routed'
<1>1. InFlight(r) /\ req[r].pc = "token" /\ Arrived(r)
  BY DEF LookUpToken, Statement, InFlight, Arrived, Waiting
<1>2. DOMAIN req[r] = Fields /\ DOMAIN req = Requests /\ tokens \subseteq Issued
  BY <1>1, InFlightOK DEF IInv, Requested, RequestOK, Stored
<1>3. PICK rec : rec = req[r]
  OBVIOUS
<1>4. /\ rec.q.path \in Paths /\ ~ rec.handled /\ RouteOfMethod(rec.id, rec.q.method)
      /\ rec.check \in Nat /\ PassedTo(rec, rec.check + 1)
  BY <1>1, <1>3 DEF Routed, RouteOK
<1>5. CASE ok /\ ValidToken(rec)
  <2>1. Given(rec)
    BY <1>2, <1>5 DEF ValidToken, Given
  <2>2. PICK n \in Nat \ {0} : n = rec.check + 1
    BY <1>4
  <2>3. PICK x : x = Proceed(rec, n)
    OBVIOUS
  <2>4. RouteOK(x)
    BY <1>2, <1>3, <1>4, <2>1, <2>2, <2>3, ProceedRoutes
  <2>5. req'[r] = x /\ \A o \in Requests \ {r} : req'[o] = req[o]
    BY <1>2, <1>3, <1>5, <2>2, <2>3 DEF LookUpToken
  <2> QED
    BY <1>1, <2>4, <2>5, OneRouted
<1>6. CASE ~ (ok /\ ValidToken(rec))
  <2>1. PICK x : x = Answered(rec, 403)
    OBVIOUS
  <2>2. req'[r] = x /\ \A o \in Requests \ {r} : req'[o] = req[o]
    BY <1>2, <1>3, <1>6, <2>1 DEF LookUpToken
  <2>3. Onward(req[r], x)
    BY <1>2, <1>3, <2>1 DEF Onward, Answered, Fields
  <2> QED
    BY <1>1, <2>2, <2>3, GoesOn
<1> QED
  BY <1>5, <1>6

\* The answers to a request that was routed.
Statuses == {200, 302, 400, 401, 403, 500, 502}

\* An answer, with whatever else is written of the request.
LEMMA AnsweredOnward ==
  ASSUME NEW rec, NEW y, DOMAIN y = Fields, y.q = rec.q, y.id = rec.id, y.handled = rec.handled,
         NEW status \in Statuses
  PROVE  Onward(rec, Answered(y, status))
<1>1. status \notin {404, 405}
  BY DEF Statuses
<1>2. PICK x : x = Answered(y, status)
  OBVIOUS
<1>3. /\ x.q = rec.q /\ x.id = rec.id /\ x.handled = rec.handled
      /\ x.pc = "done" /\ x.status = status
  BY <1>2 DEF Answered, Fields
<1>4. Onward(rec, x)
  BY <1>1, <1>3 DEF Onward
<1> QED
  BY <1>2, <1>4

\* The statements of a handler.
LEMMA StatementRouted ==
  ASSUME IInv, Routed, NEW r \in Requests, NEW ok \in BOOLEAN,
         \/ ReadSession(r, ok) \/ CommitChange(r, ok) \/ Revoke(r, ok)
         \/ BeginIssue(r, ok) \/ InsertToken(r, ok) \/ Elsewhere(r)
  PROVE  Routed'
<1>1. InFlight(r)
  BY DEF ReadSession, CommitChange, Revoke, BeginIssue, InsertToken, Elsewhere, Statement,
         InFlight, Waiting
<1>2. PICK rec : rec = req[r]
  OBVIOUS
<1>3. DOMAIN rec = Fields /\ DOMAIN req = Requests
  BY <1>1, <1>2, InFlightOK DEF IInv, Requested, RequestOK
<1>4. PICK x : x = req'[r]
  OBVIOUS
<1>5. PICK ok200 \in Statuses, no401 \in Statuses, no403 \in Statuses, failed \in Statuses :
        ok200 = 200 /\ no401 = 401 /\ no403 = 403 /\ failed = 500
  BY DEF Statuses
<1>6. CASE ReadSession(r, ok)
  <2>1. \/ x = Answered(rec, ok200) \/ x = Answered(rec, no401) \/ x = Answered(rec, no403)
        \/ x = Answered(rec, failed) \/ x = [rec EXCEPT !.pc = "revoke"]
        \/ x = [rec EXCEPT !.pc = "commit"] \/ x = [rec EXCEPT !.pc = "begin"]
    <3>1. CASE rec.id = "platform_logout"
      BY <1>2, <1>3, <1>4, <1>5, <1>6, <3>1 DEF ReadSession
    <3>2. CASE rec.id # "platform_logout" /\ ~ (ok /\ SessionHolds(rec))
      BY <1>2, <1>3, <1>4, <1>5, <1>6, <3>2 DEF ReadSession
    <3>3. CASE rec.id # "platform_logout" /\ ok /\ SessionHolds(rec)
      <4>1. x = CASE rec.id \in Reads -> Answered(rec, 200)
                  [] rec.id \in AdminWrites -> [rec EXCEPT !.pc = "commit"]
                  [] OTHER -> [rec EXCEPT !.pc = "begin"]
        BY <1>2, <1>3, <1>4, <1>6, <3>3 DEF ReadSession
      <4>2. rec.id \in Reads => rec.id \notin AdminWrites
        BY DEF Reads, AdminWrites
      <4>3. CASE rec.id \in Reads
        BY <1>5, <4>1, <4>2, <4>3
      <4>4. CASE rec.id \in AdminWrites
        BY <4>1, <4>2, <4>4
      <4>5. CASE rec.id \notin Reads /\ rec.id \notin AdminWrites
        BY <4>1, <4>5
      <4> QED
        BY <4>3, <4>4, <4>5
    <3> QED
      BY <3>1, <3>2, <3>3
  <2>2. \A status \in Statuses : Onward(rec, Answered(rec, status))
    BY <1>3, AnsweredOnward
  <2>3. \A pc \in {"revoke", "commit", "begin"} : x = [rec EXCEPT !.pc = pc] => Onward(rec, x)
    BY <1>3 DEF Onward, Fields
  <2>4. Onward(rec, x)
    BY <2>1, <2>2, <2>3
  <2>5. \A o \in Requests \ {r} : req'[o] = req[o]
    BY <1>3, <1>6 DEF ReadSession
  <2> QED
    BY <1>1, <1>2, <1>4, <2>4, <2>5, GoesOn
<1>7. CASE CommitChange(r, ok) \/ Revoke(r, ok)
  <2>1. PICK y, value : y = [rec EXCEPT !.changed = value]
                        /\ (x = Answered(y, ok200) \/ x = Answered(rec, failed))
    <3>1. CASE CommitChange(r, ok)
      BY <1>2, <1>3, <1>4, <1>5, <3>1 DEF CommitChange
    <3>2. CASE Revoke(r, ok)
      BY <1>2, <1>3, <1>4, <1>5, <3>2 DEF Revoke
    <3> QED
      BY <1>7, <3>1, <3>2
  <2>2. DOMAIN y = Fields /\ y.q = rec.q /\ y.id = rec.id /\ y.handled = rec.handled
    BY <1>3, <2>1 DEF Fields
  <2>3. Onward(rec, x)
    BY <1>3, <2>1, <2>2, AnsweredOnward
  <2>4. \A o \in Requests \ {r} : req'[o] = req[o]
    BY <1>3, <1>7 DEF CommitChange, Revoke
  <2> QED
    BY <1>1, <1>2, <1>4, <2>3, <2>4, GoesOn
<1>8. CASE BeginIssue(r, ok)
  <2>1. ASSUME ok PROVE Onward(rec, x)
    <3>1. x = [rec EXCEPT !.pc = "insert", !.seen = OfSession(rec.q.session, tokens)]
      BY <1>2, <1>3, <1>4, <1>8, <2>1 DEF BeginIssue
    <3>2. x.q = rec.q /\ x.id = rec.id /\ x.handled = rec.handled /\ x.pc = "insert"
      BY <1>3, <3>1 DEF Fields
    <3> QED
      BY <3>2 DEF Onward
  <2>2. ASSUME ~ ok PROVE Onward(rec, x)
    <3>1. x = Answered(rec, failed)
      BY <1>2, <1>3, <1>4, <1>5, <1>8, <2>2 DEF BeginIssue
    <3>2. Onward(rec, Answered(rec, failed))
      BY <1>3, AnsweredOnward
    <3> QED
      BY <3>1, <3>2
  <2>3. \A o \in Requests \ {r} : req'[o] = req[o]
    BY <1>3, <1>8 DEF BeginIssue
  <2> QED
    BY <1>1, <1>2, <1>4, <2>1, <2>2, <2>3, GoesOn
<1>9. CASE InsertToken(r, ok)
  <2>1. PICK y, row : y = [rec EXCEPT !.row = row]
                      /\ (x = Answered(y, ok200) \/ x = Answered(rec, failed))
    <3>1. CASE ok /\ Serializable(r)
      <4>1. req' = [req EXCEPT ![r] =
              Answered([req[r] EXCEPT !.row = Row(r, req[r].q.session, req[r].at)], 200)]
        BY <1>9, <3>1 DEF InsertToken
      <4> QED
        BY <1>2, <1>3, <1>4, <1>5, <4>1
    <3>2. CASE ~ (ok /\ Serializable(r))
      <4>1. req' = [req EXCEPT ![r] = Answered(req[r], 500)]
        BY <1>9, <3>2 DEF InsertToken
      <4>2. x = Answered(rec, failed)
        BY <1>2, <1>3, <1>4, <1>5, <4>1
      <4>3. PICK y : y = [rec EXCEPT !.row = NoRow]
        OBVIOUS
      <4> QED
        BY <4>2, <4>3
    <3> QED
      BY <3>1, <3>2
  <2>2. DOMAIN y = Fields /\ y.q = rec.q /\ y.id = rec.id /\ y.handled = rec.handled
    BY <1>3, <2>1 DEF Fields
  <2>3. Onward(rec, x)
    BY <1>3, <2>1, <2>2, AnsweredOnward
  <2>4. \A o \in Requests \ {r} : req'[o] = req[o]
    BY <1>3, <1>9 DEF InsertToken
  <2> QED
    BY <1>1, <1>2, <1>4, <2>3, <2>4, GoesOn
<1>10. CASE Elsewhere(r)
  <2>1. PICK status \in Statuses : x = Answered(rec, status)
    BY <1>2, <1>3, <1>4, <1>10 DEF Elsewhere, Statuses
  <2>2. Onward(rec, x)
    BY <1>3, <2>1, AnsweredOnward
  <2>3. \A o \in Requests \ {r} : req'[o] = req[o]
    BY <1>3, <1>10 DEF Elsewhere
  <2> QED
    BY <1>1, <1>2, <1>4, <2>2, <2>3, GoesOn
<1> QED
  BY <1>6, <1>7, <1>8, <1>9, <1>10

\* The process is gone, and its requests with it.
LEMMA DiesRouted ==
  ASSUME IInv, Routed, NEW how, Dies(how)
  PROVE  Routed'
<1>1. req' = [r \in Requests |-> IF InFlight(r) THEN [req[r] EXCEPT !.pc = "dead"] ELSE req[r]]
  BY DEF Dies
<1>2. \A r \in Requests : req[r].pc = "done" => req'[r] = req[r]
  BY <1>1 DEF InFlight, Waiting
<1>3. Issued \subseteq Issued'
  BY <1>2, IssuedGrows
<1>4. ASSUME NEW r \in Requests, Arrived(r)' PROVE RouteOK(req[r])'
  <2>1. PICK rec, x : rec = req[r] /\ x = req'[r]
    OBVIOUS
  <2>2. RouteOK(x)
    <3>1. CASE InFlight(r)
      <4>1. x = [rec EXCEPT !.pc = "dead"] /\ DOMAIN rec = Fields
        BY <1>1, <2>1, <3>1, InFlightOK DEF RequestOK
      <4>2. x.q = rec.q /\ x.id = rec.id /\ x.handled = rec.handled /\ x.pc = "dead"
        BY <4>1 DEF Fields
      <4>3. RouteOK(rec) /\ rec.pc # "done"
        BY <2>1, <3>1 DEF Routed, Arrived, InFlight, Waiting
      <4> QED
        BY <4>2, <4>3, RouteMoved
    <3>2. CASE ~ InFlight(r)
      BY <1>1, <1>4, <2>1, <3>2 DEF Routed, Arrived
    <3> QED
      BY <3>1, <3>2
  <2>3. RouteOK(x)'
    BY <1>3, <2>2, RouteStill
  <2> QED
    BY <2>1, <2>3 DEF RouteOK, Contract
<1> QED
  BY <1>4 DEF Routed

LEMMA NextRouted == IInv /\ Routed /\ [Next]_vars => Routed'
<1> SUFFICES ASSUME IInv, Routed, [Next]_vars PROVE Routed'
  OBVIOUS
<1>1. CASE Start \/ ProcessStep \/ Tick \/ UNCHANGED vars
  <2>1. req' = req
    BY <1>1 DEF Start, ProcessStep, Listen, Listening, StartFails, ServerClosed, PoolEnded, Tick, vars
  <2> QED
    BY <2>1, SameRouted
<1>2. CASE IdleConnectionLost
  BY <1>2, DiesRouted DEF IdleConnectionLost
<1>3. ASSUME NEW s \in Signals, Signal(s) PROVE Routed'
  <2>1. (\E how : Dies(how)) \/ req' = req
    BY <1>3 DEF Signal
  <2> QED
    BY <2>1, DiesRouted, SameRouted
<1>4. ASSUME NEW r \in Requests, NEW a \in Arrivals(Cardinality({x \in Requests : Arrived(x)})),
             NEW s, NEW t, Arrive(r, a, s, t)
      PROVE  Routed'
  BY <1>4, ArriveRouted
<1>5. ASSUME NEW r \in Requests, Leave(r) \/ RequestStep(r) PROVE Routed'
  <2>1. CASE Leave(r)
    BY <2>1, LeaveRouted
  <2>2. CASE Dispatch(r)
    BY <2>2, DispatchRouted
  <2>3. ASSUME NEW ok \in BOOLEAN, LookUpToken(r, ok) PROVE Routed'
    BY <2>3, LookUpTokenRouted
  <2>4. ASSUME NEW ok \in BOOLEAN,
               \/ ReadSession(r, ok) \/ CommitChange(r, ok) \/ Revoke(r, ok)
               \/ BeginIssue(r, ok) \/ InsertToken(r, ok) \/ Elsewhere(r)
        PROVE  Routed'
    BY <2>4, StatementRouted
  <2> QED
    BY <1>5, <2>1, <2>2, <2>3, <2>4 DEF RequestStep
<1> QED
  BY <1>1, <1>2, <1>3, <1>4, <1>5 DEF Next

LEMMA RoutingHolds == Routed => RoutingInvariant
<1> SUFFICES ASSUME Routed, NEW r \in Requests, Arrived(r)
             PROVE  /\ req[r].handled => Contract(req[r])
                    /\ req[r].pc = "done" /\ req[r].status \in {404, 405} =>
                          NoneFor(req[r].q.path, req[r].q.method)
  BY DEF RoutingInvariant, ContractKept, NoRouteHidden, Contract, NoneFor, Compatible
<1> QED
  BY DEF Routed, RouteOK

-----------------------------------------------------------------------------
(* Theorems *)

\* What tokens are worth, for any requests, sessions and bounds: a session has
\* few of them, one that was given is kept until it expired or as many younger
\* ones were issued for its own session, and nothing is changed without one
\* (createBoundedForSession, validateHttpRequestSecurityForRoute).
THEOREM TokensSafe == Spec => []TokenInvariant
<1>1. IInv => TokenInvariant
  BY TypeOKHolds, ChangesByRightHolds DEF IInv, Stored, AnySession, TokensBounded, TokenInvariant
<1> QED
  BY InitIInv, NextIInv, <1>1, PTL DEF Spec

\* A stop takes the database from nobody who waits for an answer and leaves
\* neither a pool nor a listener behind, whatever signals arrive when and
\* whatever fails (stop() of createPlatformNodeBootstrap).
THEOREM StopSafe == Spec => []StopInvariant
<1>1. IInv => StopInvariant
  BY NothingLeftBehindHolds DEF IInv, StopInvariant
<1> QED
  BY InitIInv, NextIInv, <1>1, PTL DEF Spec

\* Every request meets the contract of its route, for any paths, requests and
\* dependencies: its handler is reached with the method, the query, the origin
\* and the token the table asks for, and no route hides another of the table
\* (HTTP_ROUTE_CONTRACTS, handleNodePlatformHttpRequest, findRouteByPath).
THEOREM RoutingSafe == Spec => []RoutingInvariant
<1> QED
  BY InitIInv, NextIInv, InitRouted, NextRouted, RoutingHolds, PTL DEF Spec
=============================================================================
