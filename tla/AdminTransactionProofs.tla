----------------------- MODULE AdminTransactionProofs -----------------------
(***************************************************************************)
(* Proofs about AdminTransaction, for any number of requests, workspaces,  *)
(* people and retries: the committed mutations implement AdminLedger, and  *)
(* each is committed at most once.                                         *)
(*                                                                         *)
(* The argument: where a transaction's snapshot differs from the committed *)
(* tables, a request that committed since is to blame (SnapshotDrift).     *)
(* The validation lets a transaction commit only if nobody who committed   *)
(* since both changed what it read and read what it changes, and every row *)
(* its guards relied on was changed, if at all, by such a request.  So the *)
(* guards hold of the committed tables at the commit (CommitView).         *)
(***************************************************************************)
EXTENDS AdminTransaction, TLAPS

\* t is a request that committed since r's snapshot and wrote p's row of w.
Wrote(t, r, w, p) == t \in after[r] /\ Ws(t) = w /\ Target(t) = p

SnapshotDrift(r) ==
  \A w \in Workspaces, p \in People :
    snap[r][w][p] # member[w][p] =>
      /\ \E t \in Requests : Wrote(t, r, w, p)
      /\ snap[r][w][p] # NoMembership => \E t \in Requests : Wrote(t, r, w, p) /\ Lists(t)
      /\ snap[r][w][p].status = "active" /\ member[w][p].status # "active"
           => \E t \in Requests : Wrote(t, r, w, p) /\ Kind(t) \in {"disable", "remove"}

Inv ==
  /\ TypeOK
  /\ AppliedAtMostOnce
  /\ \A r \in Requests : Active(r) =>
       /\ SnapshotDrift(r)
       /\ ActiveAdmin(snap[r][Ws(r)][Actor(r)])
       /\ \A t \in after[r] : t # r /\ applied[t] > 0
       /\ pc[r] = "written" => Permitted(r)

\* The fields of a request.
LEMMA RequestFields ==
  ASSUME TypeOK, NEW r \in Requests
  PROVE  /\ Ws(r) \in Workspaces /\ Actor(r) \in People /\ Target(r) \in People
         /\ req[r].op \in Operation
         /\ Kind(r) \in {"role", "add", "disable", "reactivate", "remove"}
<1>1. req[r] \in Request
  BY DEF TypeOK
<1>2. req[r].op \in Operation
  BY <1>1, RequestsAssumption DEF Request
<1>3. Kind(r) \in {"role", "add", "disable", "reactivate", "remove"}
  BY <1>2 DEF Operation, Kind
<1> QED
  BY <1>1, <1>2, <1>3 DEF Request, Ws, Actor, Target

\* A request that passed its validation conflicts both ways with none that
\* committed since its snapshot.
LEMMA NoCycle ==
  ASSUME NEW r \in Requests, Serializable(r), NEW t \in after[r]
  PROVE  ~(Precedes(r, t) /\ Precedes(t, r))
  BY DEF Serializable

\* At its commit, what a request's guards relied on still holds: its target's
\* row, its actor's row, and, where it leaves the target's sessions alone, an
\* active membership elsewhere.
LEMMA CommitView ==
  ASSUME Inv, NEW r \in Requests, pc[r] = "written", Serializable(r)
  PROVE  /\ member[Ws(r)][Target(r)] = snap[r][Ws(r)][Target(r)]
         /\ member[Ws(r)][Actor(r)] = snap[r][Ws(r)][Actor(r)]
         /\ Kind(r) \in {"disable", "remove"} /\ ~Revokes(r)
              => \E v \in Workspaces \ {Ws(r)} : member[v][Target(r)].status = "active"
<1> DEFINE w == Ws(r)
           p == Target(r)
           a == Actor(r)
<1>1. TypeOK /\ w \in Workspaces /\ p \in People /\ a \in People
  BY RequestFields DEF Inv
<1>2. /\ SnapshotDrift(r) /\ ActiveAdmin(snap[r][w][a]) /\ ReadAll(r)
      /\ \A t \in after[r] : t # r /\ ReadAll(t)
  BY DEF Inv, Active, ReadAll
<1>3. member[w][p] = snap[r][w][p]
  <2> SUFFICES ASSUME member[w][p] # snap[r][w][p] PROVE FALSE
    OBVIOUS
  <2>1. PICK t \in Requests : Wrote(t, r, w, p)
    BY <1>1, <1>2 DEF SnapshotDrift
  <2>2. Precedes(r, t) /\ Precedes(t, r)
    BY <1>2, <2>1 DEF Precedes, ReadsMembership, Wrote
  <2> QED
    BY <2>1, <2>2, NoCycle DEF Wrote
<1>4. member[w][a] = snap[r][w][a]
  <2> SUFFICES ASSUME member[w][a] # snap[r][w][a] PROVE FALSE
    OBVIOUS
  <2>1. snap[r][w][a] # NoMembership
    BY <1>2 DEF ActiveAdmin, NoMembership
  <2>2. PICK t \in Requests : Wrote(t, r, w, a) /\ Lists(t)
    BY <1>1, <1>2, <2>1 DEF SnapshotDrift
  <2>3. Precedes(r, t) /\ Precedes(t, r)
    BY <1>2, <2>2 DEF Precedes, ReadsMembership, Wrote
  <2> QED
    BY <2>2, <2>3, NoCycle DEF Wrote
<1>5. ASSUME Kind(r) \in {"disable", "remove"}, ~Revokes(r)
      PROVE  \E v \in Workspaces \ {w} : member[v][p].status = "active"
  <2>1. PICK v \in Workspaces \ {w} : snap[r][v][p].status = "active"
    BY <1>5 DEF Revokes
  <2> SUFFICES ASSUME member[v][p].status # "active" PROVE FALSE
    BY <2>1
  <2>2. PICK t \in Requests : Wrote(t, r, v, p) /\ Kind(t) \in {"disable", "remove"}
    BY <1>1, <1>2, <2>1 DEF SnapshotDrift
  <2>3. Precedes(r, t) /\ Precedes(t, r)
    BY <1>2, <1>5, <2>2 DEF Precedes, ReadsMembership, Wrote
  <2> QED
    BY <2>2, <2>3, NoCycle DEF Wrote
<1> QED
  BY <1>3, <1>4, <1>5

\* What a permitted mutation makes of a row.
LEMMA ChangedRow ==
  ASSUME NEW op \in Operation, NEW m \in Memberships,
         op.kind # "add" => m # NoMembership
  PROVE  /\ Changed(op, m) \in Memberships
         /\ op.kind \notin {"disable", "remove"} /\ m.status = "active"
              => Changed(op, m).status = "active"
<1> USE DEF Operation, Memberships, NoMembership, Changed
<1>1. CASE op.kind = "role"
  BY <1>1
<1>2. CASE op.kind = "add"
  BY <1>2
<1>3. CASE op.kind = "disable"
  BY <1>3
<1>4. CASE op.kind = "reactivate"
  BY <1>4
<1>5. CASE op.kind = "remove"
  BY <1>5
<1> QED
  BY <1>1, <1>2, <1>3, <1>4, <1>5
-----------------------------------------------------------------------------
(* The invariant is inductive *)

LEMMA InitInv == Init => Inv
<1> SUFFICES ASSUME Init PROVE Inv
  OBVIOUS
<1>1. TypeOK
  BY AttemptsAssumption, InitialAssumption DEF Init, TypeOK, Waiting
<1>2. AppliedAtMostOnce
  BY DEF Init, AppliedAtMostOnce
<1>3. \A r \in Requests : ~Active(r)
  BY DEF Init, Active
<1> QED
  BY <1>1, <1>2, <1>3 DEF Inv

\* A step that commits nothing and takes no snapshot.
LEMMA QuietStep ==
  ASSUME Inv, TypeOK', UNCHANGED <<member, req, snap, after, applied>>,
         \A r \in Requests :
           /\ pc'[r] \in Waiting => pc[r] \in Waiting
           /\ pc'[r] = "refused" => pc[r] \in Waiting \cup {"refused"}
           /\ pc'[r] = "committed" => pc[r] = "committed"
           /\ Active(r)' => Active(r)
           /\ pc'[r] = "written" => pc[r] = "written" \/ Permitted(r)
  PROVE  Inv'
<1>1. AppliedAtMostOnce'
  BY DEF Inv, AppliedAtMostOnce
<1>2. ASSUME NEW r \in Requests, Active(r)'
      PROVE  /\ SnapshotDrift(r)'
             /\ ActiveAdmin(snap[r][Ws(r)][Actor(r)])'
             /\ \A t \in after'[r] : t # r /\ applied'[t] > 0
             /\ pc'[r] = "written" => Permitted(r)'
  <2>1. Active(r)
    BY <1>2
  <2>2. SnapshotDrift(r)'
    BY <2>1 DEF Inv, SnapshotDrift, Wrote, Ws, Target, Lists, Kind
  <2>3. pc'[r] = "written" => Permitted(r)'
    BY <2>1 DEF Inv, Permitted, LastAdmin, Ws, Target, Actor, Kind
  <2> QED
    BY <2>1, <2>2, <2>3 DEF Inv, Ws, Actor
<1> QED
  BY <1>1, <1>2 DEF Inv

LEMMA AuthorizeStep ==
  ASSUME Inv, NEW r \in Requests, Authorize(r)
  PROVE  Inv'
<1>1. TypeOK'
  BY DEF Inv, TypeOK, Authorize, Waiting, Ended
<1>2. AppliedAtMostOnce'
  BY DEF Inv, TypeOK, Authorize, AppliedAtMostOnce, Waiting
<1>3. ASSUME NEW x \in Requests, Active(x)'
      PROVE  /\ SnapshotDrift(x)'
             /\ ActiveAdmin(snap[x][Ws(x)][Actor(x)])'
             /\ \A t \in after'[x] : t # x /\ applied'[t] > 0
             /\ pc'[x] = "written" => Permitted(x)'
  <2>1. CASE x = r
    <3>1. pc'[r] = "authorized" /\ ActiveAdmin(member[Ws(r)][Actor(r)]) /\ snap'[r] = member
      BY <1>3, <2>1 DEF Authorize, Active, Inv, TypeOK
    <3>2. after'[r] = {} /\ member' = member /\ req' = req
      BY DEF Authorize, Inv, TypeOK
    <3> QED
      BY <2>1, <3>1, <3>2 DEF SnapshotDrift, Ws, Actor
  <2>2. CASE x # r
    <3>1. /\ Active(x) /\ pc'[x] = pc[x] /\ snap'[x] = snap[x] /\ after'[x] = after[x]
          /\ UNCHANGED <<member, req, applied>>
      BY <1>3, <2>2 DEF Authorize, Active, Inv, TypeOK
    <3>2. SnapshotDrift(x)'
      BY <3>1 DEF Inv, SnapshotDrift, Wrote, Ws, Target, Lists, Kind
    <3>3. pc'[x] = "written" => Permitted(x)'
      BY <3>1 DEF Inv, Permitted, LastAdmin, Ws, Target, Actor, Kind
    <3> QED
      BY <3>1, <3>2, <3>3 DEF Inv, Ws, Actor
  <2> QED
    BY <2>1, <2>2
<1> QED
  BY <1>1, <1>2, <1>3 DEF Inv

LEMMA CommitStep ==
  ASSUME Inv, NEW r \in Requests, Commit(r)
  PROVE  Inv'
<1> DEFINE w == Ws(r)
           p == Target(r)
<1>1. /\ TypeOK /\ w \in Workspaces /\ p \in People /\ req[r].op \in Operation
      /\ member[w][p] \in Memberships
  BY RequestFields DEF Inv, TypeOK
<1>2. /\ member[w][p] = snap[r][w][p] /\ Permitted(r) /\ applied[r] = 0
  BY CommitView DEF Inv, Commit, Active, AppliedAtMostOnce, Waiting, TypeOK
<1>3. Kind(r) # "add" => member[w][p] # NoMembership
  BY <1>2 DEF Permitted
<1>4. Kind(r) = "add" => member[w][p] = NoMembership
  BY <1>2 DEF Permitted
<1>5. /\ Changed(req[r].op, member[w][p]) \in Memberships
      /\ Kind(r) \notin {"disable", "remove"} /\ member[w][p].status = "active"
           => Changed(req[r].op, member[w][p]).status = "active"
  BY <1>1, <1>3, ChangedRow DEF Kind
<1>6. /\ member' = [member EXCEPT ![w][p] = Changed(req[r].op, member[w][p])]
      /\ UNCHANGED <<req, snap, attempt>>
      /\ applied' = [applied EXCEPT ![r] = 1]
      /\ after' = [t \in Requests |-> IF Active(t) /\ t # r THEN after[t] \cup {r} ELSE after[t]]
      /\ \A x \in Requests : x # r => pc'[x] = pc[x]
      /\ pc'[r] \in {"committed", "failed"}
  BY <1>2 DEF Commit, Inv, TypeOK
<1>7. TypeOK'
  <2>1. member' \in [Workspaces -> [People -> Memberships]]
    BY <1>1, <1>5, <1>6 DEF TypeOK
  <2>2. holder' \in [Workspaces -> Requests \cup {Nobody}]
    BY <1>1 DEF Commit, Unlock, TypeOK
  <2>3. after' \in [Requests -> SUBSET Requests]
    BY <1>1, <1>6 DEF TypeOK
  <2>4. pc' \in [Requests -> Waiting \cup Ended] /\ live' \subseteq People
    BY <1>1 DEF Commit, TypeOK, Ended
  <2> QED
    BY <1>1, <1>6, <2>1, <2>2, <2>3, <2>4 DEF TypeOK
<1>8. AppliedAtMostOnce'
  BY <1>1, <1>6 DEF Inv, TypeOK, AppliedAtMostOnce, Waiting
<1>9. ASSUME NEW x \in Requests, Active(x)'
      PROVE  /\ SnapshotDrift(x)'
             /\ ActiveAdmin(snap[x][Ws(x)][Actor(x)])'
             /\ \A t \in after'[x] : t # x /\ applied'[t] > 0
             /\ pc'[x] = "written" => Permitted(x)'
  <2>1. x # r /\ Active(x) /\ pc'[x] = pc[x] /\ after'[x] = after[x] \cup {r}
    BY <1>6, <1>9 DEF Active
  <2>2. /\ SnapshotDrift(x) /\ ActiveAdmin(snap[x][Ws(x)][Actor(x)])
        /\ \A t \in after[x] : t # x /\ applied[t] > 0
        /\ pc[x] = "written" => Permitted(x)
    BY <2>1 DEF Inv
  <2>3. \A t \in after'[x] : t # x /\ applied'[t] > 0
    BY <1>1, <1>6, <2>1, <2>2 DEF TypeOK
  <2>4. ASSUME NEW v \in Workspaces, NEW q \in People, snap[x][v][q] # member'[v][q]
        PROVE  /\ \E t \in Requests : Wrote(t, x, v, q)'
               /\ snap[x][v][q] # NoMembership => \E t \in Requests : (Wrote(t, x, v, q) /\ Lists(t))'
               /\ snap[x][v][q].status = "active" /\ member'[v][q].status # "active"
                    => \E t \in Requests : (Wrote(t, x, v, q) /\ Kind(t) \in {"disable", "remove"})'
    <3>1. \A t \in Requests : /\ Wrote(t, x, v, q) => Wrote(t, x, v, q)'
                              /\ Lists(t)' = Lists(t) /\ Kind(t)' = Kind(t)
      BY <1>6, <2>1 DEF Wrote, Ws, Target, Lists, Kind
    <3>2. CASE ~(v = w /\ q = p)
      <4>1. member'[v][q] = member[v][q]
        BY <1>1, <1>6, <3>2 DEF TypeOK
      <4> QED
        BY <2>2, <2>4, <3>1, <4>1 DEF SnapshotDrift
    <3>3. CASE v = w /\ q = p
      <4>1. Wrote(r, x, v, q)'
        BY <1>6, <2>1, <3>3 DEF Wrote, Ws, Target
      <4>2. member'[v][q] = Changed(req[r].op, member[v][q])
        BY <1>1, <1>6, <3>3 DEF TypeOK
      <4>3. ASSUME snap[x][v][q] # NoMembership
            PROVE  \E t \in Requests : (Wrote(t, x, v, q) /\ Lists(t))'
        <5>1. CASE Lists(r)
          BY <3>1, <4>1, <5>1
        <5>2. CASE ~Lists(r)
          BY <1>4, <2>2, <3>1, <3>3, <4>3, <5>2 DEF SnapshotDrift, Lists
        <5> QED
          BY <5>1, <5>2
      <4>4. ASSUME snap[x][v][q].status = "active", member'[v][q].status # "active"
            PROVE  \E t \in Requests : (Wrote(t, x, v, q) /\ Kind(t) \in {"disable", "remove"})'
        <5>1. CASE Kind(r) \in {"disable", "remove"}
          BY <3>1, <4>1, <5>1
        <5>2. CASE Kind(r) \notin {"disable", "remove"}
          <6>1. member[v][q].status # "active"
            BY <1>5, <3>3, <4>2, <4>4, <5>2
          <6> QED
            BY <2>2, <3>1, <4>4, <6>1 DEF SnapshotDrift
        <5> QED
          BY <5>1, <5>2
      <4> QED
        BY <4>1, <4>3, <4>4
    <3> QED
      BY <3>2, <3>3
  <2>5. SnapshotDrift(x)'
    BY <1>6, <2>4 DEF SnapshotDrift
  <2>6. pc'[x] = "written" => Permitted(x)'
    BY <1>6, <2>1, <2>2 DEF Permitted, LastAdmin, Ws, Target, Actor, Kind
  <2> QED
    BY <1>6, <2>2, <2>3, <2>5, <2>6 DEF Ws, Actor
<1> QED
  BY <1>7, <1>8, <1>9 DEF Inv

LEMMA NextInv == Inv /\ [Next]_vars => Inv'
<1> SUFFICES ASSUME Inv, [Next]_vars PROVE Inv'
  OBVIOUS
<1>1. TypeOK
  BY DEF Inv
<1>2. ASSUME NEW r \in Requests, LockForAdminMutation(r) PROVE Inv'
  <2>1. TypeOK'
    BY <1>1, <1>2, RequestFields DEF TypeOK, LockForAdminMutation, Waiting
  <2> QED
    BY <1>1, <1>2, <2>1, QuietStep DEF LockForAdminMutation, TypeOK, Active, Waiting
<1>3. ASSUME NEW r \in Requests, Refuse(r) PROVE Inv'
  <2>1. TypeOK'
    BY <1>1, <1>3 DEF TypeOK, Refuse, Unlock, Ended
  <2>2. pc[r] \in Waiting
    BY <1>3 DEF Refuse, Prepared, Waiting
  <2> QED
    BY <1>1, <1>3, <2>1, <2>2, QuietStep DEF Refuse, TypeOK, Active, Waiting
<1>4. ASSUME NEW r \in Requests, Write(r) PROVE Inv'
  <2>1. TypeOK'
    BY <1>1, <1>4 DEF TypeOK, Write, Waiting
  <2>2. Active(r) /\ pc[r] \in Waiting /\ Permitted(r)
    BY <1>4 DEF Write, Prepared, Active, Waiting
  <2> QED
    BY <1>1, <1>4, <2>1, <2>2, QuietStep DEF Write, TypeOK, Active, Waiting
<1>5. ASSUME NEW r \in Requests, SerializationFailure(r) PROVE Inv'
  <2>1. TypeOK'
    <3>1. holder' \in [Workspaces -> Requests \cup {Nobody}]
      BY <1>1, <1>5 DEF TypeOK, SerializationFailure, Unlock
    <3>2. attempt[r] \in 0..LastAttempt /\ (attempt[r] < LastAttempt => attempt[r] + 1 \in 0..LastAttempt)
      BY <1>1, AttemptsAssumption DEF TypeOK
    <3>3. attempt' \in [Requests -> 0..LastAttempt]
      BY <1>1, <1>5, <3>2 DEF TypeOK, SerializationFailure
    <3>4. pc' \in [Requests -> Waiting \cup Ended]
      BY <1>1, <1>5 DEF TypeOK, SerializationFailure, Waiting, Ended
    <3> QED
      BY <1>1, <1>5, <3>1, <3>3, <3>4 DEF TypeOK, SerializationFailure
  <2>2. pc[r] \in Waiting
    BY <1>5 DEF SerializationFailure, Active, Waiting
  <2> QED
    BY <1>1, <1>5, <2>1, <2>2, QuietStep DEF SerializationFailure, TypeOK, Active, Waiting
<1>6. ASSUME NEW r \in Requests, Fail(r) PROVE Inv'
  <2>1. TypeOK'
    BY <1>1, <1>6 DEF TypeOK, Fail, Unlock, Ended
  <2> QED
    BY <1>1, <1>6, <2>1, QuietStep DEF Fail, TypeOK, Active, Waiting
<1>7. ASSUME NEW p \in People, Logout(p) PROVE Inv'
  <2>1. TypeOK'
    BY <1>1, <1>7 DEF TypeOK, Logout
  <2> QED
    BY <1>7, <2>1, QuietStep DEF Logout, Active
<1>8. CASE UNCHANGED vars
  <2>1. TypeOK'
    BY <1>1, <1>8 DEF TypeOK, vars
  <2> QED
    BY <1>8, <2>1, QuietStep DEF vars, Active
<1> QED
  BY <1>2, <1>3, <1>4, <1>5, <1>6, <1>7, <1>8, AuthorizeStep, CommitStep DEF Next, Progress, Finished

\* Types, at-most-once and the snapshot invariant hold always.
THEOREM InvCorrect == Spec => []Inv
  BY InitInv, NextInv, PTL DEF Spec

\* The rows, the snapshots and what every request knows keep their types: TypeOK.
THEOREM TypeCorrect == Spec => []TypeOK
<1>1. Inv => TypeOK
  BY DEF Inv
<1> QED
  BY <1>1, InvCorrect, PTL

\* A request's mutation is committed at most once over all its attempts.
THEOREM AtMostOnce == Spec => []AppliedAtMostOnce
<1>1. Inv => AppliedAtMostOnce
  BY DEF Inv
<1> QED
  BY <1>1, InvCorrect, PTL
-----------------------------------------------------------------------------
(* The refinement *)

\* A commit is a change of the ledger, made by an admin of the moment.
LEMMA CommitIsChange ==
  ASSUME Inv, NEW r \in Requests, Commit(r)
  PROVE  Ledger!Next
<1> DEFINE w == Ws(r)
           p == Target(r)
           a == Actor(r)
           m == Changed(req[r].op, member[w][p])
<1>1. /\ TypeOK /\ w \in Workspaces /\ p \in People /\ a \in People
      /\ req[r].op \in Operation /\ member[w][p] \in Memberships
  BY RequestFields DEF Inv, TypeOK
<1>2. pc[r] = "written" /\ Serializable(r) /\ Permitted(r) /\ ActiveAdmin(snap[r][w][a])
  BY DEF Inv, Commit, Active
<1>3. member[w][p] = snap[r][w][p] /\ member[w][a] = snap[r][w][a]
  BY <1>2, CommitView
<1>4. a # p
  BY <1>2 DEF Permitted, ActiveAdmin, NoMembership
<1>5. Ledger!Administers(a, w)
  BY <1>2, <1>3 DEF Ledger!Administers, ActiveAdmin
<1>6. m \in Memberships /\ (Kind(r) \notin {"disable", "remove"} /\ member[w][p].status = "active"
                              => m.status = "active")
  BY <1>1, <1>2, <1>3, ChangedRow DEF Permitted, Kind
<1>7. member' = [member EXCEPT ![w][p] = m] /\ live' = IF Revokes(r) THEN live \ {p} ELSE live
  BY DEF Commit
<1>8. ASSUME Ledger!Affiliated(member, p), ~Ledger!Affiliated(member', p)
      PROVE  p \notin live'
  <2>1. \A v \in Workspaces \ {w} : member[v][p].status # "active"
    BY <1>1, <1>7, <1>8 DEF Ledger!Affiliated, TypeOK
  <2>2. member[w][p].status = "active" /\ m.status # "active"
    BY <1>1, <1>7, <1>8, <2>1 DEF Ledger!Affiliated, TypeOK
  <2>3. Kind(r) \in {"disable", "remove"}
    BY <1>6, <2>2
  <2>4. Revokes(r)
    BY <1>2, <2>1, <2>3, CommitView
  <2> QED
    BY <1>7, <2>4
<1>9. Ledger!Change(a, w, p, m)
  BY <1>4, <1>5, <1>7, <1>8 DEF Ledger!Change
<1> QED
  BY <1>1, <1>6, <1>9 DEF Ledger!Next

LEMMA StepIsLedgerStep == Inv /\ [Next]_vars => [Ledger!Next]_(Ledger!vars)
<1> SUFFICES ASSUME Inv, [Next]_vars PROVE [Ledger!Next]_(Ledger!vars)
  OBVIOUS
<1>1. ASSUME NEW r \in Requests, Commit(r) PROVE Ledger!Next
  BY <1>1, CommitIsChange
<1>2. ASSUME NEW r \in Requests,
             \/ Authorize(r) \/ LockForAdminMutation(r) \/ Refuse(r) \/ Write(r)
             \/ SerializationFailure(r) \/ Fail(r)
      PROVE  UNCHANGED <<member, live>>
  BY <1>2 DEF Authorize, LockForAdminMutation, Refuse, Write, SerializationFailure, Fail
<1>3. ASSUME NEW p \in People, Logout(p) PROVE Ledger!Next
  BY <1>3 DEF Logout, Ledger!Next, Ledger!Logout
<1>4. CASE UNCHANGED vars
  BY <1>4 DEF vars, Ledger!vars
<1> QED
  BY <1>1, <1>2, <1>3, <1>4 DEF Next, Progress, Finished, vars, Ledger!vars

\* Interleaved and retried transactions implement the ledger.
THEOREM LedgerImplemented == Spec => ImplementsLedger
<1>1. Init => Ledger!Init
  BY DEF Init, Ledger!Init
<1> QED
  BY <1>1, StepIsLedgerStep, InvCorrect, PTL DEF Spec, Ledger!Spec, ImplementsLedger
=============================================================================
