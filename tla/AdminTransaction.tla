-------------------------- MODULE AdminTransaction --------------------------
(***************************************************************************)
(* Admin mutations that run at the same time, statement by statement:      *)
(* workspaceAdminTransactions.run of src/src/db/repositories.ts around the *)
(* bodies of src/src/platform/workspace-admin-service.ts.                  *)
(*                                                                         *)
(* A transaction is SERIALIZABLE.  Its first statement, in                 *)
(* requireAdminContext, fixes the snapshot all its later reads see; only   *)
(* then does it take the workspace row's lock (FOR UPDATE), so what it     *)
(* reads after waiting for the lock is as old as before.  What protects    *)
(* the guards is the database's validation at commit, modelled by its      *)
(* read-write conflicts: a transaction that read what a concurrent one     *)
(* has changed and committed may not commit when somebody concurrent read  *)
(* what it changes itself.  A serialization failure starts the body again  *)
(* on a new snapshot, at most LastAttempt times; any other error is final. *)
(*                                                                         *)
(* The mutations are those of existing members (change role, disable,      *)
(* reactivate, remove) and the addition of a known user, which takes no    *)
(* lock.                                                                   *)
(***************************************************************************)
EXTENDS Naturals, FiniteSets

CONSTANTS
  Workspaces, People, Roles,
  Requests,        \* the admin requests under way
  Operations,      \* what they may ask for: a subset of Operation
  InitialMembers,  \* the membership tables to start from
  LastAttempt,     \* bound of the retries: 2 in the code
  Nobody           \* the holder of a lock nobody holds

VARIABLES
  member,   \* the committed membership rows
  live,     \* the people who have a session that is not revoked
  req,      \* req[r]: what request r asks for
  pc,       \* pc[r]: where r stands
  snap,     \* snap[r]: the memberships in the snapshot of r's transaction
  after,    \* after[r]: requests that committed after r's snapshot was taken
  holder,   \* holder[w]: the request whose transaction has locked row w
  attempt,  \* attempt[r]: serialization failures r has been retried after
  applied   \* history: how often r's mutation has been committed

vars == <<member, live, req, pc, snap, after, holder, attempt, applied>>

NoMembership == [role |-> "none", status |-> "none"]
Memberships == [role : Roles, status : {"active", "disabled"}] \cup {NoMembership}

Operation ==
  [kind : {"role", "add"}, role : Roles]
    \cup [kind : {"disable", "reactivate", "remove"}, role : {"none"}]
Request == [actor : People, workspace : Workspaces, target : People, op : Operations]

Waiting == {"begun", "authorized", "locked", "written"}
Ended == {"committed", "refused", "failed"}

ASSUME RequestsAssumption == Nobody \notin Requests /\ Operations \subseteq Operation
ASSUME RolesAssumption == "admin" \in Roles /\ "none" \notin Roles
ASSUME AttemptsAssumption == LastAttempt \in Nat
ASSUME InitialAssumption == InitialMembers \subseteq [Workspaces -> [People -> Memberships]]

TypeOK ==
  /\ member \in [Workspaces -> [People -> Memberships]]
  /\ live \subseteq People
  /\ req \in [Requests -> Request]
  /\ pc \in [Requests -> Waiting \cup Ended]
  /\ snap \in [Requests -> [Workspaces -> [People -> Memberships]]]
  /\ after \in [Requests -> SUBSET Requests]
  /\ holder \in [Workspaces -> Requests \cup {Nobody}]
  /\ attempt \in [Requests -> 0..LastAttempt]
  /\ applied \in [Requests -> Nat]

Init ==
  /\ member \in InitialMembers
  /\ live = People
  /\ req \in [Requests -> Request]
  /\ pc = [r \in Requests |-> "begun"]
  /\ snap = [r \in Requests |-> member]
  /\ after = [r \in Requests |-> {}]
  /\ holder = [w \in Workspaces |-> Nobody]
  /\ attempt = [r \in Requests |-> 0]
  /\ applied = [r \in Requests |-> 0]

-----------------------------------------------------------------------------
(* What a request reads and writes *)

Ws(r) == req[r].workspace
Actor(r) == req[r].actor
Target(r) == req[r].target
Kind(r) == req[r].op.kind

ActiveAdmin(m) == m.role = "admin" /\ m.status = "active"

\* Adding a member reads the target's row alone; the other mutations lock the
\* workspace and list its memberships.
Lists(r) == Kind(r) # "add"
Active(r) == pc[r] \in {"authorized", "locked", "written"}
ReadAll(r) == pc[r] = "written" \/ applied[r] > 0

\* revokeSessionsWithoutActiveMemberships, on the snapshot.
Revokes(r) ==
  /\ Kind(r) \in {"disable", "remove"}
  /\ \A v \in Workspaces \ {Ws(r)} : snap[r][v][Target(r)].status # "active"

ReadsMembership(r, w, p) ==
  \/ w = Ws(r) /\ p = Actor(r)
  \/ ReadAll(r) /\ w = Ws(r) /\ (Lists(r) \/ p = Target(r))
  \/ ReadAll(r) /\ Kind(r) \in {"disable", "remove"} /\ p = Target(r)

ReadsSessions(r, p) == p = Actor(r) \/ (ReadAll(r) /\ Revokes(r) /\ p = Target(r))

\* r has read what t writes, as it was before t.
Precedes(r, t) ==
  /\ r # t
  /\ \/ ReadsMembership(r, Ws(t), Target(t))
     \/ Revokes(t) /\ ReadsSessions(r, Target(t))

\* Both write the same membership row or the same session rows.
SameRows(r, t) ==
  /\ Target(r) = Target(t)
  /\ Ws(r) = Ws(t) \/ (Revokes(r) /\ Revokes(t))

\* MUTANT of Serializable: the isolation level is left at REPEATABLE READ.
SnapshotIsolation(r) == TRUE

\* The validation of a serializable transaction at its commit: r is not the
\* middle of two read-write conflicts whose last end has committed, nor the
\* first of two whose middle has.
Serializable(r) ==
  /\ ~\E t \in after[r], u \in after[r] \cup {v \in Requests : Active(v)} :
        Precedes(r, t) /\ Precedes(u, r)
  /\ ~\E t \in after[r] : \E u \in after[t] : Precedes(r, t) /\ Precedes(t, u)

\* The guards of the mutations, in the snapshot.
LastAdmin(r) ==
  LET rows == snap[r][Ws(r)] IN
  /\ ActiveAdmin(rows[Target(r)])
  /\ Cardinality({p \in People : ActiveAdmin(rows[p])}) <= 1

Permitted(r) ==
  LET row == snap[r][Ws(r)][Target(r)] IN
  IF Kind(r) = "add" THEN row = NoMembership
  ELSE /\ row # NoMembership
       /\ Target(r) # Actor(r)
       /\ Kind(r) = "reactivate" => row.status = "disabled"
       /\ Kind(r) \in {"disable", "remove"} \/ (Kind(r) = "role" /\ req[r].op.role # "admin")
            => ~LastAdmin(r)

Changed(op, m) ==
  CASE op.kind = "role" -> [m EXCEPT !.role = op.role]
    [] op.kind = "add" -> [role |-> op.role, status |-> "active"]
    [] op.kind = "disable" -> [m EXCEPT !.status = "disabled"]
    [] op.kind = "reactivate" -> [m EXCEPT !.status = "active"]
    [] op.kind = "remove" -> NoMembership

-----------------------------------------------------------------------------
(* The statements of a request's transaction *)

\* MUTANT of Unlock: the rolled back transaction's connection is never released.
KeepLocks(r) == UNCHANGED holder

Unlock(r) == holder' = [w \in Workspaces |-> IF holder[w] = r THEN Nobody ELSE holder[w]]

\* The first statements: requireAdminContext, which fixes the snapshot.
Authorize(r) ==
  /\ pc[r] = "begun"
  /\ snap' = [snap EXCEPT ![r] = member]
  /\ after' = [after EXCEPT ![r] = {}]
  /\ pc' = [pc EXCEPT ![r] =
              IF Actor(r) \in live /\ ActiveAdmin(member[Ws(r)][Actor(r)])
              THEN "authorized" ELSE "refused"]
  /\ UNCHANGED <<member, live, req, holder, attempt, applied>>

LockForAdminMutation(r) ==
  /\ pc[r] = "authorized" /\ Lists(r)
  /\ holder[Ws(r)] = Nobody
  /\ holder' = [holder EXCEPT ![Ws(r)] = r]
  /\ pc' = [pc EXCEPT ![r] = "locked"]
  /\ UNCHANGED <<member, live, req, snap, after, attempt, applied>>

Prepared(r) == pc[r] = IF Lists(r) THEN "locked" ELSE "authorized"

\* A guard throws: the transaction rolls back.
Refuse(r) ==
  /\ Prepared(r) /\ ~Permitted(r)
  /\ pc' = [pc EXCEPT ![r] = "refused"]
  /\ Unlock(r)
  /\ UNCHANGED <<member, live, req, snap, after, attempt, applied>>

\* The row changes and the audit event.  A row another transaction has written
\* makes the statement wait for its end; one that was changed since the snapshot
\* makes it fail.
Write(r) ==
  /\ Prepared(r) /\ Permitted(r)
  /\ \A t \in Requests \ {r} : pc[t] = "written" => ~SameRows(r, t)
  /\ \A t \in after[r] : ~SameRows(r, t)
  /\ pc' = [pc EXCEPT ![r] = "written"]
  /\ UNCHANGED <<member, live, req, snap, after, holder, attempt, applied>>

\* MUTANT of Commit: an unacknowledged commit is taken for a failed one and retried.
CommitOrRetry(r) ==
  /\ pc[r] = "written" /\ Serializable(r)
  /\ member' = [member EXCEPT ![Ws(r)][Target(r)] = Changed(req[r].op, @)]
  /\ live' = IF Revokes(r) THEN live \ {Target(r)} ELSE live
  /\ \E outcome \in {"committed", "begun"} : pc' = [pc EXCEPT ![r] = outcome]
  /\ after' = [t \in Requests |-> IF Active(t) /\ t # r THEN after[t] \cup {r} ELSE after[t]]
  /\ applied' = [applied EXCEPT ![r] = @ + 1]
  /\ Unlock(r)
  /\ UNCHANGED <<req, snap, attempt>>

\* The commit.  Its acknowledgement may be lost: the caller is then told that
\* the mutation failed.
Commit(r) ==
  /\ pc[r] = "written" /\ Serializable(r)
  /\ member' = [member EXCEPT ![Ws(r)][Target(r)] = Changed(req[r].op, @)]
  /\ live' = IF Revokes(r) THEN live \ {Target(r)} ELSE live
  /\ \E outcome \in {"committed", "failed"} : pc' = [pc EXCEPT ![r] = outcome]
  /\ after' = [t \in Requests |-> IF Active(t) /\ t # r THEN after[t] \cup {r} ELSE after[t]]
  /\ applied' = [applied EXCEPT ![r] = @ + 1]
  /\ Unlock(r)
  /\ UNCHANGED <<req, snap, attempt>>

\* r cannot go on: its write or its commit is refused by the database.
Doomed(r) ==
  \/ Prepared(r) /\ Permitted(r) /\ \E t \in after[r] : SameRows(r, t)
  \/ pc[r] = "written" /\ ~Serializable(r)

\* MUTANT of SerializationFailure: one attempt too many.
RetryOnceMore(r) ==
  /\ Active(r)
  /\ Doomed(r) \/ \E t \in Requests \ {r} : Active(t) \/ t \in after[r]
  /\ Unlock(r)
  /\ IF attempt[r] <= LastAttempt
     THEN pc' = [pc EXCEPT ![r] = "begun"] /\ attempt' = [attempt EXCEPT ![r] = @ + 1]
     ELSE pc' = [pc EXCEPT ![r] = "failed"] /\ UNCHANGED attempt
  /\ UNCHANGED <<member, live, req, snap, after, applied>>

\* Error 40001, which the database may also raise when it merely suspects a cycle.
SerializationFailure(r) ==
  /\ Active(r)
  /\ Doomed(r) \/ \E t \in Requests \ {r} : Active(t) \/ t \in after[r]
  /\ Unlock(r)
  /\ IF attempt[r] < LastAttempt
     THEN pc' = [pc EXCEPT ![r] = "begun"] /\ attempt' = [attempt EXCEPT ![r] = @ + 1]
     ELSE pc' = [pc EXCEPT ![r] = "failed"] /\ UNCHANGED attempt
  /\ UNCHANGED <<member, live, req, snap, after, applied>>

\* Any other error, a serialization failure whose code is hidden in a wrapping
\* error included: not retried.
Fail(r) ==
  /\ pc[r] \in Waiting
  /\ pc' = [pc EXCEPT ![r] = "failed"]
  /\ Unlock(r)
  /\ UNCHANGED <<member, live, req, snap, after, attempt, applied>>

\* A person's logout, outside these transactions.
Logout(p) ==
  /\ p \in live
  /\ live' = live \ {p}
  /\ UNCHANGED <<member, req, pc, snap, after, holder, attempt, applied>>

-----------------------------------------------------------------------------
\* What the database and the runtime do unless something fails.
Progress(r) ==
  \/ Authorize(r)
  \/ LockForAdminMutation(r)
  \/ Refuse(r)
  \/ Write(r)
  \/ Commit(r)
  \/ Doomed(r) /\ SerializationFailure(r)

Finished == (\A r \in Requests : pc[r] \in Ended) /\ UNCHANGED vars

Next ==
  \/ \E r \in Requests : Progress(r) \/ SerializationFailure(r) \/ Fail(r)
  \/ \E p \in People : Logout(p)
  \/ Finished

Spec == Init /\ [][Next]_vars

\* The event loop and the database go on with every request they have.
FairSpec == Spec /\ \A r \in Requests : WF_vars(Progress(r))

-----------------------------------------------------------------------------
(* Properties *)

\* However they interleave and are retried, the committed mutations are steps of
\* the ledger: each is made by somebody else who administers the workspace at
\* the moment of the commit, not merely in the snapshot it was judged on, and a
\* user whose memberships end one in each of two transactions loses the sessions.
Ledger == INSTANCE AdminLedger WITH member <- member, live <- live
ImplementsLedger == Ledger!Spec

\* A request's mutation is committed at most once over all its attempts; it is
\* committed when the caller is told so and not when it is refused.
AppliedAtMostOnce ==
  \A r \in Requests :
    /\ applied[r] <= 1
    /\ pc[r] = "committed" => applied[r] = 1
    /\ pc[r] \in Waiting \cup {"refused"} => applied[r] = 0

\* No request waits for ever, for the workspace lock, for a row or in retries.
EveryRequestEnds == \A r \in Requests : <>(pc[r] \in Ended)
=============================================================================
