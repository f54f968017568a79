-------------------------- MODULE DurableOperation --------------------------
(***************************************************************************)
(* executeDurablePlan (src/src/db/durable-operations.ts): the guarded way  *)
(* an operator changes grants, default ACLs and ownership of the platform  *)
(* database, or applies its migrations, and the receipt it answers with.   *)
(*                                                                         *)
(* Several executors run at once against one database.  Each observes the  *)
(* database on a connection of its own, opens a SERIALIZABLE transaction,  *)
(* asks for the target's advisory lock, observes twice more, applies the   *)
(* plan, commits, verifies; on a failure it rolls back and, if the         *)
(* database is not as it was, runs the plan's inverse or the external      *)
(* restore capability.  Each of these steps is an action, since others     *)
(* commit in between; a transaction's snapshot is taken when it ASKS for   *)
(* the lock, so what it reads under the lock may be older than the lock.   *)
(*                                                                         *)
(* The committed state is the set of rights in force; a right lies on one  *)
(* object, whose rights are the authority an inverse is bound to.  Digests *)
(* are the states they are computed from.  A connection may break at any   *)
(* statement; when it does while COMMIT is on its way, the server decides  *)
(* later whether the transaction commits.                                  *)
(***************************************************************************)
EXTENDS Naturals, Sequences

CONSTANTS
  Executors,    \* calls of executeDurablePlan
  Rights,       \* what a GRANT or a REVOKE of one privilege changes
  ObjectOf,     \* the object each right lies on
  Ledger,       \* the object drizzle.__drizzle_migrations
  PlansFor,     \* the plans each executor may be called with
  Initial,      \* rights in force at the start
  Drifting,     \* rights somebody may change by hand
  ReadyStates,  \* states that pass the canonical readiness checks
  MaxFaults,    \* bound: refusals and broken connections
  MaxDrift      \* bound: changes made by somebody who takes no lock

\* kind: "reversible" plans have a repository inverse, "irreversible" ones hold
\* an operation whose transition is not supported; capable: a restore
\* capability was passed in.
Operation == [grant : BOOLEAN, right : Rights]
Plan == [kind : {"reversible", "irreversible", "migration"}, pre : SUBSET Rights,
         ops : Seq(Operation), capable : BOOLEAN]

ASSUME PlansAssumption == PlansFor \in [Executors -> SUBSET Plan]
ASSUME StatesAssumption == Initial \subseteq Rights /\ Drifting \subseteq Rights
ASSUME FaultsAssumption == MaxFaults \in Nat /\ MaxDrift \in Nat

VARIABLES
  db,          \* the rights in force: what is committed
  plan,        \* plan[e]: the plan e was called with
  run,         \* run[e]: the local variables of e's call
  txn,         \* txn[e][k]: e's forward or inverse transaction on the server
  snap,        \* snap[e]: the snapshot of e's latest transaction
  receipt,     \* receipt[e]: what e's call was answered with
  landed,      \* history: executors whose forward transaction committed
  undone,      \* history: executors whose inverse transaction committed
  disturbed,   \* history: executors under which db was changed without the target lock,
               \* after postLockObserved
  faults, drifts

vars == <<db, plan, run, txn, snap, receipt, landed, undone, disturbed, faults, drifts>>

Kinds == {"forward", "inverse"}
\* waiting: for the target lock.  lost: open, but its client is gone.
TxnStates == {"none", "waiting", "held", "lost", "committing", "over"}
CommitStates == {"NOT_STARTED", "NOT_COMMITTED", "COMMITTED", "INDETERMINATE"}
Restorations == {"NOT_REQUIRED", "VERIFIED", "FAILED", "AMBIGUOUS"}
Phases == {"ADMISSION", "OBSERVE", "PLAN", "PRESTATE", "INVERSE", "PREWRITE", "FORWARD", "COMMIT",
           "ROLLBACK", "RESTORE", "RESTORE_VERIFY", "FINAL_VERIFY", "RECEIPT"}
\* The codes that are told apart here; NONE before there is one.
Codes == {"NONE", "SUCCESS", "REVISION_MISMATCH", "OBSERVATION_FAILED", "PREWRITE_DRIFT",
          "RESTORE_CAPABILITY_REQUIRED", "MUTATION_FAILED", "WRITE_INDETERMINATE", "COMMIT_FAILED",
          "COMMIT_INDETERMINATE", "ROLLBACK_FAILED", "RESTORE_EXECUTION_FAILED", "RESTORATION_FAILED",
          "RESTORATION_AMBIGUOUS", "FINAL_VERIFICATION_FAILED", "RECEIPT_REJECTED",
          "UNEXPECTED_FAILURE"}
Steps == {"admit", "observe", "begin", "wait", "recheck", "postlock", "forward", "final",
          "rollback", "verify", "undo", "undowait", "undocheck", "undocommit", "reverify",
          "verifyundo", "restore", "verifyrestore", "done"}

\* rb, inv and ext merge the attempted and verified flags of a recovery; "failed"
\* is rollbackFailure, or a recoveryCode of RESTORE_EXECUTION_FAILED.
Local == [pc : Steps, alive : BOOLEAN, applied : Nat, started : BOOLEAN,
          commit : CommitStates, phase : Phases, code : Codes,
          rb : {"no", "tried", "failed", "verified"}, inv : {"no", "tried", "verified"},
          ext : {"no", "tried", "failed", "verified"},
          restoration : Restorations, readiness : {"NOT_RUN", "PASS", "FAIL"}]

Start == [pc |-> "admit", alive |-> TRUE, applied |-> 0, started |-> FALSE,
          commit |-> "NOT_STARTED", phase |-> "PLAN", code |-> "NONE",
          rb |-> "no", inv |-> "no", ext |-> "no",
          restoration |-> "NOT_REQUIRED", readiness |-> "NOT_RUN"]

Receipts == [phase : Phases, outcome : {"PASS", "FAIL", "BLOCKED"}, code : Codes,
             started : BOOLEAN, commit : CommitStates,
             rollback : {"no", "attempted", "verified"}, inverse : {"no", "attempted", "verified"},
             external : {"no", "attempted", "verified"},
             restoration : Restorations, readiness : {"NOT_RUN", "PASS", "FAIL"}]

\* NoReceipt: not answered yet.  Rejected: the call threw RECEIPT_REJECTED.
NoReceipt == [outcome |-> "none"]
Rejected == [outcome |-> "rejected"]

TypeOK ==
  /\ db \subseteq Rights
  /\ plan \in [Executors -> Plan] /\ \A e \in Executors : plan[e] \in PlansFor[e]
  /\ run \in [Executors -> Local] /\ \A e \in Executors : run[e].applied <= Len(plan[e].ops)
  /\ txn \in [Executors -> [Kinds -> TxnStates]]
  /\ snap \in [Executors -> SUBSET Rights]
  /\ receipt \in [Executors -> Receipts \cup {NoReceipt, Rejected}]
  /\ landed \subseteq Executors /\ undone \subseteq Executors /\ disturbed \subseteq Executors
  /\ faults \in 0..MaxFaults /\ drifts \in 0..MaxDrift

Init ==
  /\ db = Initial
  /\ plan \in {p \in [Executors -> UNION {PlansFor[e] : e \in Executors}] :
               \A e \in Executors : p[e] \in PlansFor[e]}
  /\ run = [e \in Executors |-> Start]
  /\ txn = [e \in Executors |-> [k \in Kinds |-> "none"]]
  /\ snap = [e \in Executors |-> {}]
  /\ receipt = [e \in Executors |-> NoReceipt]
  /\ landed = {} /\ undone = {} /\ disturbed = {}
  /\ faults = 0 /\ drifts = 0

-----------------------------------------------------------------------------
(* Plans *)

Touched(p) == {p.ops[i].right : i \in DOMAIN p.ops}

\* The last operation on a right decides.
Forward(p, d) ==
  {r \in Rights :
     \/ r \in d \ Touched(p)
     \/ \E i \in DOMAIN p.ops :
          /\ p.ops[i] = [grant |-> TRUE, right |-> r]
          /\ \A j \in DOMAIN p.ops : j > i => p.ops[j].right # r}

\* The frozen inverse puts every right the plan names back as the prestate had it.
Undo(p, d) == (d \ Touched(p)) \cup (p.pre \cap Touched(p))

\* authorityForOperation: all the rights on the objects the plan touches.
Authority(p, d) == {r \in d : \E q \in Touched(p) : ObjectOf[q] = ObjectOf[r]}

BoundTo(p, d) == Authority(p, d) = Authority(p, Forward(p, p.pre))

\* requiresRestoreCapability.
NeedsCapability(p) == p.kind = "migration" /\ p.ops # <<>>

\* acquireMutationLocks locks the relations a plan names, and for a migration the ledger.
LocksLedger(p) == NeedsCapability(p) \/ \E r \in Touched(p) : ObjectOf[r] = Ledger

-----------------------------------------------------------------------------
(* Receipts *)

Listed(o, phase, code) ==
  <<o, phase, code>> \in
    {<<"PASS", "FINAL_VERIFY", "SUCCESS">>,
     <<"BLOCKED", "ADMISSION", "REVISION_MISMATCH">>,
     <<"BLOCKED", "OBSERVE", "OBSERVATION_FAILED">>,
     <<"BLOCKED", "PRESTATE", "PREWRITE_DRIFT">>,
     <<"BLOCKED", "INVERSE", "RESTORE_CAPABILITY_REQUIRED">>,
     <<"BLOCKED", "PREWRITE", "OBSERVATION_FAILED">>,
     <<"BLOCKED", "PREWRITE", "PREWRITE_DRIFT">>,
     <<"FAIL", "FORWARD", "MUTATION_FAILED">>,
     <<"FAIL", "FORWARD", "WRITE_INDETERMINATE">>,
     <<"FAIL", "COMMIT", "COMMIT_FAILED">>,
     <<"FAIL", "COMMIT", "COMMIT_INDETERMINATE">>,
     <<"FAIL", "ROLLBACK", "ROLLBACK_FAILED">>,
     <<"FAIL", "RESTORE", "RESTORE_EXECUTION_FAILED">>,
     <<"FAIL", "RESTORE_VERIFY", "RESTORATION_FAILED">>,
     <<"FAIL", "RESTORE_VERIFY", "RESTORATION_AMBIGUOUS">>,
     <<"FAIL", "FINAL_VERIFY", "FINAL_VERIFICATION_FAILED">>,
     <<"FAIL", "RECEIPT", "RECEIPT_REJECTED">>}

Attempted(r) == r.rollback # "no" \/ r.inverse # "no" \/ r.external # "no"
Recovered(r) == "verified" \in {r.rollback, r.inverse, r.external}

\* validateReceipt.
ValidPass(r) ==
  /\ r.readiness = "PASS" /\ r.commit = "COMMITTED"
  /\ ~Attempted(r) /\ r.restoration = "NOT_REQUIRED"
ValidBlocked(r) ==
  /\ ~r.started /\ r.commit = "NOT_STARTED" /\ r.restoration = "NOT_REQUIRED"
  /\ r.readiness = "NOT_RUN"
ValidUnstarted(r) ==
  /\ r.phase \in {"RECEIPT", "FORWARD"}
  /\ r.phase = "FORWARD" => r.code = "MUTATION_FAILED"
  /\ r.commit = "NOT_STARTED" /\ r.restoration = "NOT_REQUIRED" /\ r.readiness = "NOT_RUN"
ValidFailure(r) ==
  /\ r.restoration # "NOT_REQUIRED"
  /\ r.phase = "ROLLBACK" => r.rollback = "attempted" /\ r.commit # "COMMITTED"
  /\ r.phase = "FORWARD" => r.rollback # "no" /\ r.commit = "NOT_COMMITTED"
  /\ r.phase = "COMMIT" => r.rollback # "no"
  /\ r.phase = "FINAL_VERIFY" =>
       r.commit = "COMMITTED" /\ r.restoration = "VERIFIED" /\ Attempted(r)
  /\ r.phase = "RESTORE" => r.external = "attempted" /\ r.restoration = "AMBIGUOUS"
  /\ r.phase = "RESTORE_VERIFY" => Attempted(r) /\ r.restoration # "VERIFIED"
Valid(r) ==
  /\ Listed(r.outcome, r.phase, r.code)
  /\ Recovered(r) => r.restoration = "VERIFIED"
  /\ ~r.started => ~Attempted(r)
  /\ r.started => r.commit # "NOT_STARTED"
  /\ r.rollback # "no" => r.commit # "COMMITTED"
  /\ r.restoration = "NOT_REQUIRED" => ~Attempted(r)
  /\ r.restoration = "VERIFIED" => r.started /\ Attempted(r)
  /\ CASE r.outcome = "PASS" -> ValidPass(r)
       [] r.outcome = "BLOCKED" -> ValidBlocked(r)
       [] OTHER -> IF r.started THEN ValidFailure(r) ELSE ValidUnstarted(r)

Flag(f) == IF f = "failed" \/ f = "tried" THEN "attempted" ELSE f
Unverified(f) == IF f = "verified" THEN "attempted" ELSE f

\* makeReceipt's second try, when the first is not a valid receipt.
RestoredAs(r) == IF ~r.started THEN "NOT_REQUIRED"
                 ELSE IF r.restoration = "VERIFIED" THEN "VERIFIED" ELSE "AMBIGUOUS"
Kept(r, f) == IF RestoredAs(r) = "VERIFIED" THEN f ELSE Unverified(f)

Fallback(r) ==
  [phase |-> "RECEIPT", outcome |-> "FAIL", code |-> "RECEIPT_REJECTED", started |-> r.started,
   commit |-> IF r.started /\ r.commit = "NOT_STARTED" THEN "INDETERMINATE" ELSE r.commit,
   rollback |-> Kept(r, r.rollback), inverse |-> Kept(r, r.inverse),
   external |-> Kept(r, r.external), restoration |-> RestoredAs(r),
   readiness |-> IF r.started THEN r.readiness ELSE "NOT_RUN"]

MakeReceipt(r) ==
  IF Valid(r) THEN r ELSE IF Valid(Fallback(r)) THEN Fallback(r) ELSE Rejected

-----------------------------------------------------------------------------
(* The server *)

Holding(e, k) == txn[e][k] \in {"held", "lost", "committing"}
TargetLocked == \E e \in Executors, k \in Kinds : Holding(e, k)
\* An observation reads the ledger, and a plan locks it in ACCESS EXCLUSIVE mode.
CanObserve == ~\E e \in Executors, k \in Kinds : Holding(e, k) /\ LocksLedger(plan[e])
Sets(e, k, s) == [txn EXCEPT ![e][k] = s]

\* Objects an open transaction has changed, which nobody else can change.
Dirty == {ObjectOf[r] : r \in
            UNION {{plan[e].ops[i].right : i \in 1..run[e].applied} :
                     e \in {x \in Executors : Holding(x, "forward")}}
            \cup UNION {Touched(plan[e]) : e \in {x \in Executors : Holding(x, "inverse")}}}

\* Executors past postLockObserved whose transaction is still open.
Observed == {e \in Executors : Holding(e, "forward") /\ run[e].pc \notin {"recheck", "postlock"}}

\* A grant or revoke by hand, in a transaction of its own and without the lock.
Drift(r) ==
  /\ drifts < MaxDrift /\ drifts' = drifts + 1
  /\ ObjectOf[r] \notin Dirty
  /\ db' = IF r \in db THEN db \ {r} ELSE db \cup {r}
  /\ disturbed' = disturbed \cup Observed
  /\ UNCHANGED <<plan, run, txn, snap, receipt, landed, undone, faults>>

Land(e, k) ==
  /\ db' = IF k = "forward" THEN Forward(plan[e], db) ELSE Undo(plan[e], db)
  /\ landed' = IF k = "forward" THEN landed \cup {e} ELSE landed
  /\ undone' = IF k = "inverse" THEN undone \cup {e} ELSE undone

\* The server finishes a transaction whose client is gone.  One that had been
\* sent COMMIT may have been committed.
FinishOrphan(e, k) ==
  /\ txn[e][k] \in {"lost", "committing"}
  /\ txn' = Sets(e, k, "over")
  /\ \/ UNCHANGED <<db, landed, undone>>
     \/ txn[e][k] = "committing" /\ Land(e, k)
  /\ UNCHANGED <<plan, run, snap, receipt, disturbed, faults, drifts>>

Fault == faults < MaxFaults /\ faults' = faults + 1
Fine == UNCHANGED faults

-----------------------------------------------------------------------------
(* How a call goes on, and how it ends *)

At(e, pc) == run[e].pc = pc
Continue(e, y) == run' = [run EXCEPT ![e] = y] /\ UNCHANGED receipt
Goto(e, pc) == Continue(e, [run[e] EXCEPT !.pc = pc])

Answer(e, y, r) ==
  /\ run' = [run EXCEPT ![e] = [y EXCEPT !.pc = "done"]]
  /\ receipt' = [receipt EXCEPT ![e] = MakeReceipt(r)]

\* The catch clause of a call that has sent no mutation.
Refusal(phase, code, readiness) ==
  [phase |-> phase, outcome |-> IF phase = "FORWARD" THEN "FAIL" ELSE "BLOCKED", code |-> code,
   started |-> FALSE, commit |-> "NOT_STARTED", rollback |-> "no", inverse |-> "no",
   external |-> "no", restoration |-> "NOT_REQUIRED", readiness |-> readiness]

Refuse(e, phase, code, readiness) == Answer(e, run[e], Refusal(phase, code, readiness))

\* The end of the catch clause of a call that has.
ReceiptPhase(y) ==
  IF y.ext = "failed" THEN "RESTORE"
  ELSE IF y.rb = "failed" THEN "ROLLBACK"
  ELSE IF y.restoration = "VERIFIED" THEN y.phase ELSE "RESTORE_VERIFY"
SemanticCode(y) ==
  IF y.ext = "failed" THEN "RESTORE_EXECUTION_FAILED"
  ELSE IF y.rb = "failed" THEN "ROLLBACK_FAILED"
  ELSE IF y.restoration = "VERIFIED" THEN y.code
  ELSE IF y.restoration = "FAILED" THEN "RESTORATION_FAILED" ELSE "RESTORATION_AMBIGUOUS"

Failure(y) ==
  [phase |-> ReceiptPhase(y), outcome |-> "FAIL", code |-> SemanticCode(y), started |-> TRUE,
   commit |-> y.commit, rollback |-> Flag(y.rb), inverse |-> Flag(y.inv),
   external |-> Flag(y.ext), restoration |-> y.restoration, readiness |-> y.readiness]

Conclude(e, y) == Answer(e, y, Failure(y))

\* Restoration has been judged: the restore capability is the last resort.
Judged(e, y) ==
  IF y.restoration # "VERIFIED" /\ plan[e].capable
  THEN Continue(e, [y EXCEPT !.pc = "restore"]) ELSE Conclude(e, y)

\* A mutation has been sent and something failed.
Recover(e, y) == Continue(e, [y EXCEPT !.pc = IF y.commit = "COMMITTED" THEN "verify" ELSE "rollback"])

-----------------------------------------------------------------------------
(* Before the first write *)

Quiet == UNCHANGED <<db, plan, landed, undone, disturbed, drifts>>

Admit(e) ==
  /\ At(e, "admit")
  /\ \/ Fault /\ Refuse(e, "ADMISSION", "REVISION_MISMATCH", "NOT_RUN")
     \/ /\ NeedsCapability(plan[e]) /\ ~plan[e].capable /\ Fine
        /\ Refuse(e, "ADMISSION", "RESTORE_CAPABILITY_REQUIRED", "NOT_RUN")
     \/ (NeedsCapability(plan[e]) => plan[e].capable) /\ Goto(e, "observe") /\ Fine
  /\ UNCHANGED <<txn, snap>> /\ Quiet

\* The first observation, and the frozen inverse.
Observe(e) ==
  /\ At(e, "observe")
  /\ \/ Fault /\ Refuse(e, "OBSERVE", "OBSERVATION_FAILED", "NOT_RUN")
     \/ CanObserve /\ db # plan[e].pre /\ Fine /\ Refuse(e, "PRESTATE", "PREWRITE_DRIFT", "NOT_RUN")
     \/ /\ CanObserve /\ db = plan[e].pre /\ Fine
        /\ IF plan[e].kind = "irreversible" /\ ~plan[e].capable
           THEN Refuse(e, "INVERSE", "RESTORE_CAPABILITY_REQUIRED", "NOT_RUN")
           ELSE Goto(e, "begin")
  /\ UNCHANGED <<txn, snap>> /\ Quiet

\* BEGIN, and the statement that asks for the target lock: it fixes the snapshot.
RequestTargetLock(e) ==
  /\ At(e, "begin")
  /\ \/ Fault /\ Refuse(e, "PREWRITE", "UNEXPECTED_FAILURE", "NOT_RUN") /\ UNCHANGED <<txn, snap>>
     \/ /\ Fine /\ Goto(e, "wait")
        /\ txn' = Sets(e, "forward", "waiting") /\ snap' = [snap EXCEPT ![e] = db]
  /\ Quiet

AcquireTargetLock(e) ==
  /\ At(e, "wait")
  /\ \/ /\ Fault /\ Refuse(e, "PREWRITE", "UNEXPECTED_FAILURE", "NOT_RUN")
        /\ txn' = Sets(e, "forward", "over")
     \/ ~TargetLocked /\ Fine /\ Goto(e, "recheck") /\ txn' = Sets(e, "forward", "held")
  /\ UNCHANGED snap /\ Quiet

\* MUTANT of PrewriteFails: the connection, and so the transaction, stays open.
PrewriteFailsUnclosed(e, code) == Refuse(e, "PREWRITE", code, "NOT_RUN") /\ UNCHANGED txn

PrewriteFails(e, code) ==
  Refuse(e, "PREWRITE", code, "NOT_RUN") /\ txn' = Sets(e, "forward", "over")

\* assertPrewriteBinding of what was seen: the snapshot, or what is committed by now.
Recheck(e, seen, next) ==
  IF seen = plan[e].pre THEN Goto(e, next) /\ UNCHANGED txn ELSE PrewriteFails(e, "PREWRITE_DRIFT")

Revalidate(e) ==
  /\ At(e, "recheck") /\ UNCHANGED snap /\ Quiet
  /\ \/ Fault /\ PrewriteFails(e, "OBSERVATION_FAILED")
     \/ Fine /\ Recheck(e, snap[e], "postlock")

\* MUTANT of ObserveAfterLock: what the transaction itself sees is looked at again.
ObserveInTransaction(e) ==
  At(e, "postlock") /\ Fine /\ Recheck(e, snap[e], "forward") /\ UNCHANGED snap /\ Quiet

\* postLockObserved: a connection of its own, so what is committed is seen.
ObserveAfterLock(e) ==
  /\ At(e, "postlock") /\ UNCHANGED snap /\ Quiet
  /\ \/ Fault /\ PrewriteFails(e, "OBSERVATION_FAILED")
     \/ CanObserve /\ Fine /\ Recheck(e, db, "forward")

-----------------------------------------------------------------------------
(* The plan *)

\* MUTANT of MoreToApply: one operation too many is asked for.
OneMoreToApply(e) == run[e].applied <= Len(plan[e].ops)

\* The loop over the operations.
MoreToApply(e) == run[e].applied < Len(plan[e].ops)

\* MutationSessionImpl.applyOperation, once per operation.
ApplyOperation(e) ==
  /\ At(e, "forward") /\ MoreToApply(e)
  /\ LET y == [run[e] EXCEPT !.started = TRUE, !.phase = "FORWARD"]
     IN  \/ Fine /\ Continue(e, [y EXCEPT !.applied = @ + 1]) /\ UNCHANGED txn
         \/ Fault /\ Recover(e, [y EXCEPT !.code = "MUTATION_FAILED"]) /\ UNCHANGED txn
         \/ /\ Fault /\ txn' = Sets(e, "forward", "lost")
            /\ \E c \in {"MUTATION_FAILED", "WRITE_INDETERMINATE"} :
                 Recover(e, [y EXCEPT !.code = c, !.alive = FALSE])
  /\ UNCHANGED snap /\ Quiet

\* COMMIT failed: commitFailureCode goes by the code of the driver's error, which
\* an error that says only that the connection ended does not carry.
CommitFails(e, alive, commit, code) ==
  LET y == [run[e] EXCEPT !.alive = alive, !.commit = commit, !.phase = "COMMIT", !.code = code]
  IN  IF y.started THEN Recover(e, y) ELSE Refuse(e, "COMMIT", code, "NOT_RUN")

Commit(e) ==
  /\ At(e, "forward") /\ ~MoreToApply(e)
  /\ \/ /\ Fine /\ Land(e, "forward") /\ txn' = Sets(e, "forward", "over")
        /\ Continue(e, [run[e] EXCEPT !.commit = "COMMITTED", !.pc = "final"])
     \/ /\ Fault /\ txn' = Sets(e, "forward", "over") /\ UNCHANGED <<db, landed, undone>>
        /\ CommitFails(e, TRUE, "NOT_COMMITTED", "COMMIT_FAILED")
     \/ /\ Fault /\ txn' = Sets(e, "forward", "committing") /\ UNCHANGED <<db, landed, undone>>
        /\ \/ CommitFails(e, FALSE, "INDETERMINATE", "COMMIT_INDETERMINATE")
           \/ CommitFails(e, FALSE, "NOT_COMMITTED", "COMMIT_FAILED")
  /\ UNCHANGED <<plan, snap, disturbed, drifts>>

FinalFails(e, readiness) ==
  LET y == [run[e] EXCEPT !.phase = "FINAL_VERIFY", !.code = "FINAL_VERIFICATION_FAILED",
                          !.readiness = readiness]
  IN  IF y.started THEN Recover(e, y)
      ELSE Refuse(e, "FINAL_VERIFY", "FINAL_VERIFICATION_FAILED", readiness)

Success(e) ==
  [phase |-> "FINAL_VERIFY", outcome |-> "PASS", code |-> "SUCCESS", started |-> run[e].started,
   commit |-> "COMMITTED", rollback |-> "no", inverse |-> "no", external |-> "no",
   restoration |-> "NOT_REQUIRED", readiness |-> "PASS"]

FinalVerify(e) ==
  /\ At(e, "final")
  /\ \/ Fault /\ FinalFails(e, "NOT_RUN")
     \/ CanObserve /\ db \notin ReadyStates /\ Fine /\ FinalFails(e, "FAIL")
     \/ /\ CanObserve /\ db \in ReadyStates /\ Fine
        /\ Answer(e, [run[e] EXCEPT !.readiness = "PASS"], Success(e))
  /\ UNCHANGED <<txn, snap>> /\ Quiet

-----------------------------------------------------------------------------
(* Recovery *)

RolledBack(e) == [run[e] EXCEPT !.pc = "verify",
                    !.commit = IF @ = "NOT_STARTED" THEN "NOT_COMMITTED" ELSE @]
Closed(e) == IF txn[e]["forward"] = "held" THEN "lost" ELSE txn[e]["forward"]

\* MUTANT of Rollback: a broken connection is taken to have rolled back.
RollbackAssumed(e) ==
  /\ At(e, "rollback") /\ Fine /\ Continue(e, [RolledBack(e) EXCEPT !.rb = "tried"])
  /\ txn' = Sets(e, "forward", IF run[e].alive THEN "over" ELSE Closed(e))
  /\ UNCHANGED snap /\ Quiet
\* ROLLBACK on the mutation connection, which is closed next.
Rollback(e) ==
  /\ At(e, "rollback")
  /\ \/ /\ run[e].alive /\ Fine /\ Continue(e, [RolledBack(e) EXCEPT !.rb = "tried"])
        /\ txn' = Sets(e, "forward", "over")
     \/ /\ IF run[e].alive THEN Fault ELSE Fine
        /\ Continue(e, [RolledBack(e) EXCEPT !.rb = "failed", !.alive = FALSE])
        /\ txn' = Sets(e, "forward", Closed(e))
  /\ UNCHANGED snap /\ Quiet

\* verifyRestoration.
Restoration(e, v) ==
  \/ v = "AMBIGUOUS" /\ Fault
  \/ /\ CanObserve /\ Fine
     /\ v = IF db = plan[e].pre /\ db \in ReadyStates THEN "VERIFIED" ELSE "FAILED"

VerifyRestoration(e) ==
  /\ At(e, "verify")
  /\ \E v \in Restorations :
       /\ Restoration(e, v)
       /\ LET y == [run[e] EXCEPT !.restoration = v,
                      !.rb = IF @ = "tried" /\ v = "VERIFIED" THEN "verified" ELSE @]
          IN  IF v = "FAILED" /\ plan[e].kind = "reversible"
              THEN Continue(e, [y EXCEPT !.pc = "undo"]) ELSE Judged(e, y)
  /\ UNCHANGED <<txn, snap>> /\ Quiet

\* executeFrozenInverse, on a connection of its own.  When it throws, restoration
\* has failed.
InverseFails(e) == Judged(e, [run[e] EXCEPT !.inv = "tried", !.restoration = "FAILED"])

RequestInverse(e) ==
  /\ At(e, "undo")
  /\ \/ Fault /\ InverseFails(e) /\ UNCHANGED <<txn, snap>>
     \/ /\ Fine /\ Continue(e, [run[e] EXCEPT !.pc = "undowait", !.inv = "tried"])
        /\ txn' = Sets(e, "inverse", "waiting") /\ snap' = [snap EXCEPT ![e] = db]
  /\ Quiet

AcquireInverse(e) ==
  /\ At(e, "undowait")
  /\ \/ Fault /\ InverseFails(e) /\ txn' = Sets(e, "inverse", "over")
     \/ ~TargetLocked /\ Fine /\ Goto(e, "undocheck") /\ txn' = Sets(e, "inverse", "held")
  /\ UNCHANGED snap /\ Quiet

\* The recheck of post_forward_authority, in the transaction only.
CheckInverse(e) ==
  /\ At(e, "undocheck")
  /\ \/ /\ Fault \/ (~BoundTo(plan[e], snap[e]) /\ Fine)
        /\ InverseFails(e) /\ txn' = Sets(e, "inverse", "over")
     \/ BoundTo(plan[e], snap[e]) /\ Fine /\ Goto(e, "undocommit") /\ UNCHANGED txn
  /\ UNCHANGED snap /\ Quiet

\* The inverse's statements and its COMMIT.
CommitInverse(e) ==
  /\ At(e, "undocommit")
  /\ \/ Fine /\ Land(e, "inverse") /\ txn' = Sets(e, "inverse", "over") /\ Goto(e, "reverify")
     \/ /\ Fault /\ InverseFails(e) /\ UNCHANGED <<db, landed, undone>>
        /\ \E s \in {"over", "lost", "committing"} : txn' = Sets(e, "inverse", s)
  /\ UNCHANGED <<plan, snap, disturbed, drifts>>

\* executeFrozenInverse verifies before it returns, and its caller once more.
VerifyInverse(e) ==
  /\ At(e, "reverify")
  /\ \E v \in Restorations :
       /\ Restoration(e, v)
       /\ IF v = "VERIFIED"
          THEN Continue(e, [run[e] EXCEPT !.pc = "verifyundo", !.inv = "verified"])
          ELSE InverseFails(e)
  /\ UNCHANGED <<txn, snap>> /\ Quiet

VerifyAfterInverse(e) ==
  /\ At(e, "verifyundo")
  /\ \E v \in Restorations :
       Restoration(e, v) /\ Judged(e, [run[e] EXCEPT !.restoration = v])
  /\ UNCHANGED <<txn, snap>> /\ Quiet

\* executeRestoreCapability: it either throws or says it has restored.
ExecuteRestoreCapability(e) ==
  /\ At(e, "restore")
  /\ \/ /\ Fault /\ UNCHANGED <<db, disturbed>>
        /\ Conclude(e, [run[e] EXCEPT !.ext = "failed", !.restoration = "AMBIGUOUS"])
     \/ /\ Fine /\ db' \in {db, plan[e].pre} /\ disturbed' = disturbed \cup Observed
        /\ Continue(e, [run[e] EXCEPT !.ext = "tried", !.pc = "verifyrestore"])
  /\ UNCHANGED <<plan, txn, snap, landed, undone, drifts>>

VerifyRestore(e) ==
  /\ At(e, "verifyrestore")
  /\ \E v \in Restorations :
       /\ Restoration(e, v)
       /\ Conclude(e, [run[e] EXCEPT !.restoration = v,
                         !.ext = IF v = "VERIFIED" THEN "verified" ELSE @])
  /\ UNCHANGED <<txn, snap>> /\ Quiet

-----------------------------------------------------------------------------

Execute(e) ==
  \/ Admit(e) \/ Observe(e) \/ RequestTargetLock(e) \/ AcquireTargetLock(e) \/ Revalidate(e)
  \/ ObserveAfterLock(e) \/ ApplyOperation(e) \/ Commit(e) \/ FinalVerify(e)
  \/ Rollback(e) \/ VerifyRestoration(e) \/ RequestInverse(e) \/ AcquireInverse(e)
  \/ CheckInverse(e) \/ CommitInverse(e) \/ VerifyInverse(e) \/ VerifyAfterInverse(e)
  \/ ExecuteRestoreCapability(e) \/ VerifyRestore(e)

Next ==
  \/ \E e \in Executors : Execute(e)
  \/ \E e \in Executors, k \in Kinds : FinishOrphan(e, k)
  \/ \E r \in Drifting : Drift(r)

Spec == Init /\ [][Next]_vars

\* A call goes on as long as its promises settle, and the server gives up, or
\* commits, a transaction whose client is gone.
Fairness ==
  /\ \A e \in Executors : WF_vars(Execute(e))
  /\ \A e \in Executors, k \in Kinds : WF_vars(FinishOrphan(e, k))
FairSpec == Spec /\ Fairness

-----------------------------------------------------------------------------
(* What it promises *)

\* A plan is committed on the very prestate it was made for, whoever else runs
\* plans at the time: only a change made without the target lock, after the last
\* observation, can slip under it (postLockObserved, durable-operations.ts:3842).
ForwardOnPlannedState ==
  [][\A e \in Executors : e \in (landed' \ landed) \ disturbed => db = plan[e].pre]_vars

\* A receipt does not claim more than the server has done: PASS and COMMITTED are
\* said of a plan that is committed, nothing is said to be blocked or rolled back
\* that is, or may yet be, committed, and a verified inverse has been committed.
ReceiptTruthful ==
  \A e \in Executors : LET r == receipt[e] IN
    r \in Receipts =>
      /\ r.outcome = "PASS" \/ r.commit = "COMMITTED" => e \in landed
      /\ r.outcome = "BLOCKED" \/ r.rollback = "verified" =>
           e \notin landed /\ txn[e]["forward"] # "committing"
      /\ r.inverse = "verified" => e \in undone

\* Every call is answered, though it may wait for the others' locks and for
\* transactions whose client is gone.
EveryCallEnds == <>(\A e \in Executors : At(e, "done"))
=============================================================================
