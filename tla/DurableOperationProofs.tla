------------------------ MODULE DurableOperationProofs ------------------------
(***************************************************************************)
(* Theorems about DurableOperation.  The properties are not inductive by   *)
(* themselves; Inv is.  It says that the target lock is held by one        *)
(* transaction at a time (Exclusive), that the place a call has reached    *)
(* and the variables it keeps agree with what the server has done for it   *)
(* (Call), and that the database is on the prestate of whoever is past its *)
(* last observation and still holds the lock (Steady): nobody commits      *)
(* without the lock but the writers that `disturbed' records.              *)
(***************************************************************************)
EXTENDS DurableOperation, TLAPS

(***************************************************************************)
(* Types                                                                   *)
(***************************************************************************)

\* The local variables a call of e's plan may have.
Locals(e) == {y \in Local : y.applied <= Len(plan[e].ops)}

\* The part of TypeOK that an action of a call changes by Continue or Answer.
CallsTyped ==
  /\ run \in [Executors -> Local] /\ \A e \in Executors : run[e].applied <= Len(plan[e].ops)
  /\ receipt \in [Executors -> Receipts \cup {NoReceipt, Rejected}]

LEMMA ReceiptTyped ==
  ASSUME NEW r \in Receipts
  PROVE  MakeReceipt(r) \in Receipts \cup {Rejected}
<1>1. RestoredAs(r) \in Restorations
  BY DEF RestoredAs, Restorations
<1>2. /\ Kept(r, r.rollback) \in {"no", "attempted", "verified"}
      /\ Kept(r, r.inverse) \in {"no", "attempted", "verified"}
      /\ Kept(r, r.external) \in {"no", "attempted", "verified"}
  BY DEF Kept, Unverified, Receipts
<1>3. (IF r.started /\ r.commit = "NOT_STARTED" THEN "INDETERMINATE" ELSE r.commit) \in CommitStates
  BY DEF Receipts, CommitStates
<1>4. (IF r.started THEN r.readiness ELSE "NOT_RUN") \in {"NOT_RUN", "PASS", "FAIL"}
  BY DEF Receipts
<1>5. r.started \in BOOLEAN
  BY DEF Receipts
<1>6. Fallback(r) \in Receipts
  <2>1. "RECEIPT" \in Phases /\ "RECEIPT_REJECTED" \in Codes
    BY DEF Phases, Codes
  <2> QED BY <1>1, <1>2, <1>3, <1>4, <1>5, <2>1 DEF Fallback, Receipts
<1> QED BY <1>6 DEF MakeReceipt

LEMMA ContinueTyped ==
  ASSUME TypeOK, NEW e \in Executors, NEW y \in Locals(e), Continue(e, y), UNCHANGED plan
  PROVE  CallsTyped'
BY DEF TypeOK, Locals, Continue, CallsTyped

LEMMA AnswerTyped ==
  ASSUME TypeOK, NEW e \in Executors, NEW y \in Locals(e), NEW r \in Receipts,
         Answer(e, y, r), UNCHANGED plan
  PROVE  CallsTyped'
<1>1. [y EXCEPT !.pc = "done"] \in Locals(e)
  BY DEF Locals, Local, Steps
<1>2. MakeReceipt(r) \in Receipts \cup {NoReceipt, Rejected}
  BY ReceiptTyped
<1> QED BY <1>1, <1>2 DEF TypeOK, Locals, Answer, CallsTyped

LEMMA RefuseTyped ==
  ASSUME TypeOK, NEW e \in Executors, NEW phase \in Phases, NEW code \in Codes,
         NEW readiness \in {"NOT_RUN", "PASS", "FAIL"},
         Refuse(e, phase, code, readiness), UNCHANGED plan
  PROVE  CallsTyped'
<1>1. run[e] \in Locals(e)
  BY DEF TypeOK, Locals
<1>2. Refusal(phase, code, readiness) \in Receipts
  BY DEF Refusal, Receipts, CommitStates, Restorations
<1> QED BY <1>1, <1>2, AnswerTyped DEF Refuse

LEMMA FailureTyped ==
  ASSUME NEW y \in Local
  PROVE  Failure(y) \in Receipts
<1>1. y.phase \in Phases /\ y.code \in Codes
  BY DEF Local
<1>2. ReceiptPhase(y) \in Phases
  BY <1>1 DEF ReceiptPhase, Phases
<1>3. SemanticCode(y) \in Codes
  BY <1>1 DEF SemanticCode, Codes
<1>4. /\ Flag(y.rb) \in {"no", "attempted", "verified"}
      /\ Flag(y.inv) \in {"no", "attempted", "verified"}
      /\ Flag(y.ext) \in {"no", "attempted", "verified"}
  BY DEF Local, Flag
<1> QED BY <1>2, <1>3, <1>4 DEF Failure, Receipts, Local

LEMMA ConcludeTyped ==
  ASSUME TypeOK, NEW e \in Executors, NEW y \in Locals(e), Conclude(e, y), UNCHANGED plan
  PROVE  CallsTyped'
<1>1. y \in Local
  BY DEF Locals
<1> QED BY <1>1, FailureTyped, AnswerTyped DEF Conclude

LEMMA JudgedTyped ==
  ASSUME TypeOK, NEW e \in Executors, NEW y \in Locals(e), Judged(e, y), UNCHANGED plan
  PROVE  CallsTyped'
<1>1. [y EXCEPT !.pc = "restore"] \in Locals(e)
  BY DEF Locals, Local, Steps
<1> QED BY <1>1, ContinueTyped, ConcludeTyped DEF Judged

LEMMA RecoverTyped ==
  ASSUME TypeOK, NEW e \in Executors, NEW y \in Locals(e), Recover(e, y), UNCHANGED plan
  PROVE  CallsTyped'
<1>1. [y EXCEPT !.pc = IF y.commit = "COMMITTED" THEN "verify" ELSE "rollback"] \in Locals(e)
  BY DEF Locals, Local, Steps
<1> QED BY <1>1, ContinueTyped DEF Recover

LEMMA FaultsTyped ==
  ASSUME TypeOK, Fault \/ Fine
  PROVE  faults' \in 0..MaxFaults
BY FaultsAssumption DEF TypeOK, Fault, Fine

LEMMA SetsTyped ==
  ASSUME TypeOK, NEW e \in Executors, NEW k \in Kinds, NEW s \in TxnStates
  PROVE  Sets(e, k, s) \in [Executors -> [Kinds -> TxnStates]]
BY DEF TypeOK, Sets

LEMMA QuietTyped ==
  ASSUME TypeOK, CallsTyped', Quiet, Fault \/ Fine,
         txn' \in [Executors -> [Kinds -> TxnStates]], snap' \in [Executors -> SUBSET Rights]
  PROVE  TypeOK'
<1>1. faults' \in 0..MaxFaults
  BY FaultsTyped
<1> QED BY <1>1 DEF TypeOK, CallsTyped, Quiet

\* What every action below starts from.
LEMMA Known ==
  ASSUME TypeOK, NEW e \in Executors
  PROVE  /\ run[e] \in Locals(e) /\ run[e] \in Local
         /\ plan[e] \in Plan /\ plan[e].pre \subseteq Rights /\ Len(plan[e].ops) \in Nat
         /\ db \subseteq Rights
         /\ txn \in [Executors -> [Kinds -> TxnStates]] /\ snap \in [Executors -> SUBSET Rights]
         /\ txn[e]["forward"] \in TxnStates /\ txn[e]["inverse"] \in TxnStates
<1>1. plan[e] \in Plan
  BY DEF TypeOK
<1>2. plan[e].pre \subseteq Rights /\ plan[e].ops \in Seq(Operation)
  BY <1>1 DEF Plan
<1>3. Len(plan[e].ops) \in Nat
  BY <1>2
<1> QED BY <1>1, <1>2, <1>3 DEF TypeOK, Locals, Kinds

\* Names, so that the sets they are from need not be expanded.
LEMMA Names ==
  /\ {"final", "verify", "undowait", "verifyundo", "verifyrestore", "undo", "restore",
      "rollback", "done"} \subseteq Steps
  /\ {"FORWARD", "COMMIT", "FINAL_VERIFY"} \subseteq Phases
  /\ {"MUTATION_FAILED", "WRITE_INDETERMINATE", "FINAL_VERIFICATION_FAILED"} \subseteq Codes
  /\ {"COMMITTED", "NOT_COMMITTED", "NOT_STARTED"} \subseteq CommitStates
  /\ {"FAILED", "AMBIGUOUS", "VERIFIED"} \subseteq Restorations
BY DEF Steps, Phases, Codes, CommitStates, Restorations

LEMMA LocalsOf ==
  ASSUME NEW e \in Executors, NEW y \in Locals(e), NEW z \in Local, z.applied = y.applied
  PROVE  z \in Locals(e)
BY DEF Locals

LEMMA GotoTyped ==
  ASSUME TypeOK, NEW e \in Executors, NEW pc \in Steps, Goto(e, pc), UNCHANGED plan
  PROVE  CallsTyped'
<1>1. [run[e] EXCEPT !.pc = pc] \in Locals(e)
  BY Known DEF Locals, Local
<1> QED BY <1>1, ContinueTyped DEF Goto

LEMMA BeforeForwardTyped ==
  ASSUME TypeOK, NEW e \in Executors, Admit(e) \/ Observe(e) \/ RequestTargetLock(e) \/ AcquireTargetLock(e)
  PROVE  TypeOK'
<1> USE Known
<1>0. ASSUME NEW phase \in Phases, NEW code \in Codes, Refuse(e, phase, code, "NOT_RUN"), Quiet
      PROVE  CallsTyped'
  BY <1>0, RefuseTyped DEF Quiet
<1>1. CASE Admit(e)
  <2>1. CallsTyped'
    BY <1>1, <1>0, GotoTyped DEF Admit, Quiet, Steps, Phases, Codes
  <2>2. Fault \/ Fine
    BY <1>1 DEF Admit
  <2> QED BY <1>1, <2>1, <2>2, QuietTyped DEF Admit
<1>2. CASE Observe(e)
  <2>1. CallsTyped'
    BY <1>2, <1>0, GotoTyped DEF Observe, Quiet, Steps, Phases, Codes
  <2>2. Fault \/ Fine
    BY <1>2 DEF Observe
  <2> QED BY <1>2, <2>1, <2>2, QuietTyped DEF Observe
<1>3. CASE RequestTargetLock(e)
  <2>1. CallsTyped'
    BY <1>3, <1>0, GotoTyped DEF RequestTargetLock, Quiet, Steps, Phases, Codes
  <2>2. (Fault \/ Fine) /\ snap' \in [Executors -> SUBSET Rights]
    BY <1>3 DEF RequestTargetLock
  <2>3. txn' \in [Executors -> [Kinds -> TxnStates]]
    BY <1>3, SetsTyped DEF RequestTargetLock, Kinds, TxnStates
  <2> QED BY <1>3, <2>1, <2>2, <2>3, QuietTyped DEF RequestTargetLock
<1>4. CASE AcquireTargetLock(e)
  <2>1. CallsTyped'
    BY <1>4, <1>0, GotoTyped DEF AcquireTargetLock, Quiet, Steps, Phases, Codes
  <2>2. (Fault \/ Fine) /\ snap' \in [Executors -> SUBSET Rights]
    BY <1>4 DEF AcquireTargetLock
  <2>3. txn' \in [Executors -> [Kinds -> TxnStates]]
    BY <1>4, SetsTyped DEF AcquireTargetLock, Kinds, TxnStates
  <2> QED BY <1>4, <2>1, <2>2, <2>3, QuietTyped DEF AcquireTargetLock
<1> QED BY <1>1, <1>2, <1>3, <1>4

LEMMA RecheckTyped ==
  ASSUME TypeOK, NEW e \in Executors, Revalidate(e) \/ ObserveAfterLock(e)
  PROVE  TypeOK'
<1> USE Known
<1>1. ASSUME NEW code \in Codes, PrewriteFails(e, code), Quiet
      PROVE  CallsTyped' /\ txn' \in [Executors -> [Kinds -> TxnStates]]
  <2>1. CallsTyped'
    BY <1>1, RefuseTyped DEF PrewriteFails, Quiet, Phases
  <2> QED BY <1>1, <2>1, SetsTyped DEF PrewriteFails, Kinds, TxnStates
<1>2. ASSUME NEW seen, NEW next \in Steps, Recheck(e, seen, next), Quiet
      PROVE  CallsTyped' /\ txn' \in [Executors -> [Kinds -> TxnStates]]
  <2>1. CASE seen = plan[e].pre
    BY <1>2, <2>1, GotoTyped DEF Recheck, Quiet
  <2>2. CASE seen # plan[e].pre
    BY <1>2, <2>2, <1>1 DEF Recheck, Codes
  <2> QED BY <2>1, <2>2
<1>3. Quiet /\ UNCHANGED snap /\ (Fault \/ Fine)
  BY DEF Revalidate, ObserveAfterLock
<1>4. CallsTyped' /\ txn' \in [Executors -> [Kinds -> TxnStates]]
  <2>1. CASE Revalidate(e)
    BY <2>1, <1>1, <1>2, <1>3 DEF Revalidate, Steps, Codes
  <2>2. CASE ObserveAfterLock(e)
    BY <2>2, <1>1, <1>2, <1>3 DEF ObserveAfterLock, Steps, Codes
  <2> QED BY <2>1, <2>2
<1> QED BY <1>3, <1>4, QuietTyped

LEMMA ApplyTyped ==
  ASSUME TypeOK, NEW e \in Executors, ApplyOperation(e)
  PROVE  TypeOK'
<1> USE Known
<1> DEFINE y == [run[e] EXCEPT !.started = TRUE, !.phase = "FORWARD"]
<1>1. run[e].applied \in Nat /\ run[e].applied + 1 <= Len(plan[e].ops)
  BY DEF ApplyOperation, MoreToApply, Locals, Local
<1>2. y \in Local /\ y.applied = run[e].applied
  BY Names DEF Local
<1> HIDE DEF y
<1>3. y \in Locals(e)
  BY <1>2, LocalsOf
<1>4. [y EXCEPT !.applied = @ + 1] \in Locals(e)
  <2>1. y.applied + 1 \in Nat /\ y.applied + 1 <= Len(plan[e].ops)
    BY <1>1, <1>2
  <2>2. [y EXCEPT !.applied = y.applied + 1] \in Local
    BY <1>2, <2>1 DEF Local
  <2>3. [y EXCEPT !.applied = y.applied + 1].applied = y.applied + 1
    BY <1>2 DEF Local
  <2> QED BY <2>1, <2>2, <2>3 DEF Locals
<1>5. ASSUME NEW c \in {"MUTATION_FAILED", "WRITE_INDETERMINATE"}, NEW alive \in BOOLEAN
      PROVE  /\ [y EXCEPT !.code = c] \in Locals(e)
             /\ [y EXCEPT !.code = c, !.alive = alive] \in Locals(e)
  <2>1. c \in Codes
    BY Names
  <2>2. [y EXCEPT !.code = c] \in Local /\ [y EXCEPT !.code = c].applied = y.applied
    BY <1>2, <2>1 DEF Local
  <2>3. /\ [y EXCEPT !.code = c, !.alive = alive] \in Local
        /\ [y EXCEPT !.code = c, !.alive = alive].applied = y.applied
    BY <1>2, <2>1 DEF Local
  <2> QED BY <1>3, <2>2, <2>3, LocalsOf
<1>6. Quiet /\ UNCHANGED plan /\ snap' = snap /\ (Fault \/ Fine)
  BY DEF ApplyOperation, Quiet
<1>7. CallsTyped'
  BY <1>4, <1>5, <1>6, ContinueTyped, RecoverTyped DEF ApplyOperation, y
<1>8. txn' \in [Executors -> [Kinds -> TxnStates]]
  BY SetsTyped DEF ApplyOperation, Kinds, TxnStates
<1> QED BY <1>6, <1>7, <1>8, QuietTyped

LEMMA LandTyped ==
  ASSUME TypeOK, NEW e \in Executors, NEW k \in Kinds, Land(e, k)
  PROVE  db' \subseteq Rights /\ landed' \subseteq Executors /\ undone' \subseteq Executors
<1> USE Known
<1>1. Forward(plan[e], db) \subseteq Rights
  BY DEF Forward
<1>2. Undo(plan[e], db) \subseteq Rights
  BY DEF Undo
<1> QED BY <1>1, <1>2 DEF Land, TypeOK

LEMMA CommitFailsTyped ==
  ASSUME TypeOK, NEW e \in Executors, NEW alive \in BOOLEAN, NEW commit \in CommitStates,
         NEW code \in Codes, CommitFails(e, alive, commit, code), UNCHANGED plan
  PROVE  CallsTyped'
<1> DEFINE y == [run[e] EXCEPT !.alive = alive, !.commit = commit, !.phase = "COMMIT", !.code = code]
<1>0. run[e] \in Local /\ run[e] \in Locals(e)
  BY Known
<1>1. y \in Locals(e)
  <2>1. y \in Local /\ y.applied = run[e].applied
    BY <1>0, Names DEF Local
  <2> QED BY <1>0, <2>1, LocalsOf
<1>2. "COMMIT" \in Phases
  BY Names
<1> QED BY <1>1, <1>2, RecoverTyped, RefuseTyped DEF CommitFails

LEMMA CommitTyped ==
  ASSUME TypeOK, NEW e \in Executors, Commit(e)
  PROVE  TypeOK'
<1> USE Known
<1>1. db' \subseteq Rights /\ landed' \subseteq Executors /\ undone' \subseteq Executors
  BY LandTyped DEF Commit, Kinds, TypeOK
<1>2. CallsTyped'
  <2>1. [run[e] EXCEPT !.commit = "COMMITTED", !.pc = "final"] \in Locals(e)
    <3> DEFINE y == [run[e] EXCEPT !.commit = "COMMITTED", !.pc = "final"]
    <3>1. y \in Local /\ y.applied = run[e].applied
      BY Names DEF Local
    <3> QED BY <3>1, LocalsOf
  <2>2. UNCHANGED plan
    BY DEF Commit
  <2>3. CASE Continue(e, [run[e] EXCEPT !.commit = "COMMITTED", !.pc = "final"])
    BY <2>1, <2>2, <2>3, ContinueTyped
  <2>4. CASE \/ CommitFails(e, TRUE, "NOT_COMMITTED", "COMMIT_FAILED")
             \/ CommitFails(e, FALSE, "INDETERMINATE", "COMMIT_INDETERMINATE")
             \/ CommitFails(e, FALSE, "NOT_COMMITTED", "COMMIT_FAILED")
    BY <2>2, <2>4, CommitFailsTyped DEF CommitStates, Codes
  <2> QED BY <2>3, <2>4 DEF Commit
<1>3. txn' \in [Executors -> [Kinds -> TxnStates]]
  <2>1. PICK s \in TxnStates : txn' = Sets(e, "forward", s)
    BY DEF Commit, TxnStates
  <2>2. "forward" \in Kinds
    BY DEF Kinds
  <2>3. Sets(e, "forward", s) \in [Executors -> [Kinds -> TxnStates]]
    BY <2>2, SetsTyped
  <2> QED BY <2>1, <2>3
<1>4. faults' \in 0..MaxFaults
  BY FaultsTyped DEF Commit
<1> QED BY <1>1, <1>2, <1>3, <1>4 DEF Commit, TypeOK, CallsTyped

LEMMA FinalVerifyTyped ==
  ASSUME TypeOK, NEW e \in Executors, FinalVerify(e)
  PROVE  TypeOK'
<1> USE Known
<1>1. Quiet /\ UNCHANGED <<plan, txn, snap>> /\ (Fault \/ Fine)
  BY DEF FinalVerify, Quiet
<1>2. ASSUME NEW readiness \in {"NOT_RUN", "PASS", "FAIL"}, FinalFails(e, readiness)
      PROVE  CallsTyped'
  <2> DEFINE y == [run[e] EXCEPT !.phase = "FINAL_VERIFY", !.code = "FINAL_VERIFICATION_FAILED",
                                 !.readiness = readiness]
  <2>0. y \in Local /\ y.applied = run[e].applied
    BY Names DEF Local
  <2>1. y \in Locals(e)
    BY <2>0, LocalsOf
  <2>2. "FINAL_VERIFY" \in Phases /\ "FINAL_VERIFICATION_FAILED" \in Codes
    BY Names
  <2> QED BY <1>1, <1>2, <2>1, <2>2, RecoverTyped, RefuseTyped DEF FinalFails
<1>3. ASSUME Answer(e, [run[e] EXCEPT !.readiness = "PASS"], Success(e))
      PROVE  CallsTyped'
  <2>1. [run[e] EXCEPT !.readiness = "PASS"] \in Locals(e) /\ run[e].started \in BOOLEAN
    BY DEF Locals, Local
  <2>2. Success(e) \in Receipts
    BY <2>1 DEF Success, Receipts, Phases, Codes, CommitStates, Restorations
  <2> QED BY <1>1, <1>3, <2>1, <2>2, AnswerTyped
<1>4. CallsTyped'
  BY <1>2, <1>3 DEF FinalVerify
<1> QED BY <1>1, <1>4, QuietTyped

LEMMA RollbackTyped ==
  ASSUME TypeOK, NEW e \in Executors, Rollback(e)
  PROVE  TypeOK'
<1> USE Known
<1>1. RolledBack(e) \in Locals(e)
  <2>1. (IF run[e].commit = "NOT_STARTED" THEN "NOT_COMMITTED" ELSE run[e].commit) \in CommitStates
    BY Names DEF Local
  <2>2. RolledBack(e) \in Local /\ RolledBack(e).applied = run[e].applied
    BY <2>1, Names DEF RolledBack, Local
  <2> QED BY <2>2, LocalsOf
<1>2. [RolledBack(e) EXCEPT !.rb = "tried"] \in Locals(e)
  BY <1>1 DEF Locals, Local
<1>3. [RolledBack(e) EXCEPT !.rb = "failed", !.alive = FALSE] \in Locals(e)
  BY <1>1 DEF Locals, Local
<1>4. Quiet /\ UNCHANGED <<plan, snap>> /\ (Fault \/ Fine)
  BY DEF Rollback, Quiet
<1>5. CallsTyped'
  BY <1>2, <1>3, <1>4, ContinueTyped DEF Rollback
<1>6. Closed(e) \in TxnStates
  BY DEF Closed, TxnStates
<1>7. PICK s \in TxnStates : txn' = Sets(e, "forward", s)
  BY <1>6 DEF Rollback, TxnStates
<1>8. "forward" \in Kinds
  BY DEF Kinds
<1>9. Sets(e, "forward", s) \in [Executors -> [Kinds -> TxnStates]]
  BY <1>8, SetsTyped
<1> QED BY <1>4, <1>5, <1>7, <1>9, QuietTyped

LEMMA JudgementTyped ==
  ASSUME TypeOK, NEW e \in Executors, VerifyRestoration(e) \/ VerifyAfterInverse(e) \/ VerifyRestore(e)
  PROVE  TypeOK'
<1> USE Known
<1>1. Quiet /\ UNCHANGED <<plan, txn, snap>>
  BY DEF VerifyRestoration, VerifyAfterInverse, VerifyRestore, Quiet
<1>2. Fault \/ Fine
  BY DEF VerifyRestoration, VerifyAfterInverse, VerifyRestore, Restoration
<1>3. CallsTyped'
  <2>1. CASE VerifyRestoration(e)
    <3>1. PICK v \in Restorations :
            LET y == [run[e] EXCEPT !.restoration = v,
                        !.rb = IF @ = "tried" /\ v = "VERIFIED" THEN "verified" ELSE @]
            IN  IF v = "FAILED" /\ plan[e].kind = "reversible"
                THEN Continue(e, [y EXCEPT !.pc = "undo"]) ELSE Judged(e, y)
      BY <2>1 DEF VerifyRestoration
    <3> DEFINE y == [run[e] EXCEPT !.restoration = v,
                       !.rb = IF @ = "tried" /\ v = "VERIFIED" THEN "verified" ELSE @]
    <3>2. (IF run[e].rb = "tried" /\ v = "VERIFIED" THEN "verified" ELSE run[e].rb)
             \in {"no", "tried", "failed", "verified"}
      BY DEF Local
    <3>3. y \in Local /\ y.applied = run[e].applied
      BY <3>2 DEF Local
    <3>4. Continue(e, [y EXCEPT !.pc = "undo"]) \/ Judged(e, y)
      BY <3>1
    <3> HIDE DEF y
    <3>5. y \in Locals(e)
      BY <3>3, LocalsOf
    <3>6. [y EXCEPT !.pc = "undo"] \in Local /\ [y EXCEPT !.pc = "undo"].applied = y.applied
      BY <3>3, Names DEF Local
    <3>7. [y EXCEPT !.pc = "undo"] \in Locals(e)
      BY <3>5, <3>6, LocalsOf
    <3> QED BY <1>1, <3>4, <3>5, <3>7, ContinueTyped, JudgedTyped
  <2>2. CASE VerifyAfterInverse(e)
    <3>1. PICK v \in Restorations : Judged(e, [run[e] EXCEPT !.restoration = v])
      BY <2>2 DEF VerifyAfterInverse
    <3>2. [run[e] EXCEPT !.restoration = v] \in Locals(e)
      BY DEF Locals, Local
    <3> QED BY <1>1, <3>1, <3>2, JudgedTyped
  <2>3. CASE VerifyRestore(e)
    <3>1. PICK v \in Restorations :
            Conclude(e, [run[e] EXCEPT !.restoration = v, !.ext = IF v = "VERIFIED" THEN "verified" ELSE @])
      BY <2>3 DEF VerifyRestore
    <3> DEFINE y == [run[e] EXCEPT !.restoration = v, !.ext = IF v = "VERIFIED" THEN "verified" ELSE @]
    <3>2. (IF v = "VERIFIED" THEN "verified" ELSE run[e].ext) \in {"no", "tried", "failed", "verified"}
      BY DEF Local
    <3>3. y \in Local /\ y.applied = run[e].applied
      BY <3>2 DEF Local
    <3>4. y \in Locals(e)
      BY <3>3, LocalsOf
    <3> QED BY <1>1, <3>1, <3>4, ConcludeTyped
  <2> QED BY <2>1, <2>2, <2>3
<1> QED BY <1>1, <1>2, <1>3, QuietTyped

LEMMA InverseFailsTyped ==
  ASSUME TypeOK, NEW e \in Executors, InverseFails(e), UNCHANGED plan
  PROVE  CallsTyped'
<1> DEFINE y == [run[e] EXCEPT !.inv = "tried", !.restoration = "FAILED"]
<1>1. run[e] \in Local /\ run[e] \in Locals(e)
  BY Known
<1>2. y \in Local /\ y.applied = run[e].applied
  BY <1>1, Names DEF Local
<1>3. y \in Locals(e)
  BY <1>1, <1>2, LocalsOf
<1> QED BY <1>3, JudgedTyped DEF InverseFails

LEMMA InverseTyped ==
  ASSUME TypeOK, NEW e \in Executors, RequestInverse(e) \/ AcquireInverse(e) \/ CheckInverse(e)
  PROVE  TypeOK'
<1> USE Known
<1>1. Quiet /\ UNCHANGED plan /\ (Fault \/ Fine) /\ snap' \in [Executors -> SUBSET Rights]
  BY DEF RequestInverse, AcquireInverse, CheckInverse, Quiet
<1>2. PICK s \in TxnStates : txn' = Sets(e, "inverse", s) \/ UNCHANGED txn
  BY DEF RequestInverse, AcquireInverse, CheckInverse, TxnStates
<1>3. "inverse" \in Kinds
  BY DEF Kinds
<1>4. Sets(e, "inverse", s) \in [Executors -> [Kinds -> TxnStates]]
  BY <1>3, SetsTyped
<1>5. txn' \in [Executors -> [Kinds -> TxnStates]]
  BY <1>2, <1>4
<1>6. CallsTyped'
  <2>1. CASE InverseFails(e)
    BY <1>1, <2>1, InverseFailsTyped
  <2>2. CASE Goto(e, "undocheck") \/ Goto(e, "undocommit")
    BY <1>1, <2>2, GotoTyped DEF Steps
  <2>3. CASE Continue(e, [run[e] EXCEPT !.pc = "undowait", !.inv = "tried"])
    <3> DEFINE y == [run[e] EXCEPT !.pc = "undowait", !.inv = "tried"]
    <3>1. y \in Local /\ y.applied = run[e].applied
      BY Names DEF Local
    <3>2. y \in Locals(e)
      BY <3>1, LocalsOf
    <3> QED BY <1>1, <2>3, <3>2, ContinueTyped
  <2> QED BY <2>1, <2>2, <2>3 DEF RequestInverse, AcquireInverse, CheckInverse
<1> QED BY <1>1, <1>5, <1>6, QuietTyped

LEMMA CommitInverseTyped ==
  ASSUME TypeOK, NEW e \in Executors, CommitInverse(e)
  PROVE  TypeOK'
<1> USE Known
<1>0. "inverse" \in Kinds
  BY DEF Kinds
<1>1. db' \subseteq Rights /\ landed' \subseteq Executors /\ undone' \subseteq Executors
  BY <1>0, LandTyped DEF CommitInverse, TypeOK
<1>2. UNCHANGED plan
  BY DEF CommitInverse
<1>3. CallsTyped'
  <2>1. CASE InverseFails(e)
    BY <1>2, <2>1, InverseFailsTyped
  <2>2. CASE Goto(e, "reverify")
    BY <1>2, <2>2, GotoTyped DEF Steps
  <2> QED BY <2>1, <2>2 DEF CommitInverse
<1>4. PICK s \in TxnStates : txn' = Sets(e, "inverse", s)
  BY DEF CommitInverse, TxnStates
<1>5. Sets(e, "inverse", s) \in [Executors -> [Kinds -> TxnStates]]
  BY <1>0, SetsTyped
<1>6. faults' \in 0..MaxFaults
  BY FaultsTyped DEF CommitInverse
<1> QED BY <1>1, <1>3, <1>4, <1>5, <1>6 DEF CommitInverse, TypeOK, CallsTyped

LEMMA VerifyInverseTyped ==
  ASSUME TypeOK, NEW e \in Executors, VerifyInverse(e)
  PROVE  TypeOK'
<1> USE Known
<1>1. Quiet /\ UNCHANGED <<plan, txn, snap>> /\ (Fault \/ Fine)
  BY DEF VerifyInverse, Quiet, Restoration
<1>2. CallsTyped'
  <2> DEFINE y == [run[e] EXCEPT !.pc = "verifyundo", !.inv = "verified"]
  <2>1. y \in Local /\ y.applied = run[e].applied
    BY Names DEF Local
  <2>2. y \in Locals(e)
    BY <2>1, LocalsOf
  <2>3. Continue(e, y) \/ InverseFails(e)
    BY DEF VerifyInverse
  <2> QED BY <1>1, <2>2, <2>3, ContinueTyped, InverseFailsTyped
<1> QED BY <1>1, <1>2, QuietTyped

LEMMA ExecuteRestoreTyped ==
  ASSUME TypeOK, NEW e \in Executors, ExecuteRestoreCapability(e)
  PROVE  TypeOK'
<1> USE Known
<1>1. UNCHANGED <<plan, txn, snap, landed, undone, drifts>> /\ (Fault \/ Fine)
  BY DEF ExecuteRestoreCapability
<1>2. db' \subseteq Rights /\ disturbed' \subseteq Executors
  BY DEF ExecuteRestoreCapability, Observed, TypeOK
<1>3. CallsTyped'
  <2> DEFINE y == [run[e] EXCEPT !.ext = "failed", !.restoration = "AMBIGUOUS"]
             z == [run[e] EXCEPT !.ext = "tried", !.pc = "verifyrestore"]
  <2>1. y \in Local /\ y.applied = run[e].applied
    BY Names DEF Local
  <2>2. z \in Local /\ z.applied = run[e].applied
    BY Names DEF Local
  <2>3. y \in Locals(e) /\ z \in Locals(e)
    BY <2>1, <2>2, LocalsOf
  <2>4. Conclude(e, y) \/ Continue(e, z)
    BY DEF ExecuteRestoreCapability
  <2> QED BY <1>1, <2>3, <2>4, ContinueTyped, ConcludeTyped
<1>4. faults' \in 0..MaxFaults
  BY <1>1, FaultsTyped
<1> QED BY <1>1, <1>2, <1>3, <1>4 DEF TypeOK, CallsTyped

LEMMA FinishOrphanTyped ==
  ASSUME TypeOK, NEW e \in Executors, NEW k \in Kinds, FinishOrphan(e, k)
  PROVE  TypeOK'
<1>1. db' \subseteq Rights /\ landed' \subseteq Executors /\ undone' \subseteq Executors
  BY LandTyped DEF FinishOrphan, TypeOK
<1>2. "over" \in TxnStates
  BY DEF TxnStates
<1>3. Sets(e, k, "over") \in [Executors -> [Kinds -> TxnStates]]
  BY <1>2, SetsTyped
<1> QED BY <1>1, <1>3 DEF FinishOrphan, TypeOK

LEMMA DriftTyped ==
  ASSUME TypeOK, NEW r \in Drifting, Drift(r)
  PROVE  TypeOK'
<1>1. db' \subseteq Rights /\ disturbed' \subseteq Executors
  BY StatesAssumption DEF Drift, TypeOK, Observed
<1>2. drifts' \in 0..MaxDrift
  BY FaultsAssumption DEF Drift, TypeOK
<1> QED BY <1>1, <1>2 DEF Drift, TypeOK

LEMMA InitTyped == Init => TypeOK
<1> SUFFICES ASSUME Init PROVE TypeOK
  OBVIOUS
<1>1. plan \in [Executors -> Plan] /\ \A e \in Executors : plan[e] \in PlansFor[e]
  BY PlansAssumption DEF Init
<1>2. \A e \in Executors : Len(plan[e].ops) \in Nat
  <2> TAKE e \in Executors
  <2>1. plan[e].ops \in Seq(Operation)
    BY <1>1 DEF Plan
  <2> QED BY <2>1
<1>3. Start \in Local /\ Start.applied = 0
  BY DEF Start, Local, Steps, CommitStates, Restorations, Phases, Codes
<1>4. run \in [Executors -> Local] /\ \A e \in Executors : run[e].applied <= Len(plan[e].ops)
  BY <1>2, <1>3 DEF Init
<1> QED BY <1>1, <1>4, StatesAssumption, FaultsAssumption DEF Init, TypeOK, TxnStates

LEMMA NextTyped == TypeOK /\ [Next]_vars => TypeOK'
<1> SUFFICES ASSUME TypeOK, [Next]_vars PROVE TypeOK'
  OBVIOUS
<1>1. ASSUME NEW e \in Executors, Execute(e) PROVE TypeOK'
  BY <1>1, BeforeForwardTyped, RecheckTyped, ApplyTyped, CommitTyped, FinalVerifyTyped,
     RollbackTyped, JudgementTyped, InverseTyped, CommitInverseTyped, VerifyInverseTyped,
     ExecuteRestoreTyped DEF Execute
<1>2. CASE UNCHANGED vars
  BY <1>2 DEF vars, TypeOK
<1> QED BY <1>1, <1>2, FinishOrphanTyped, DriftTyped DEF Next

\* TypeOK for any executors, rights and plans: every local variable of a call and
\* every receipt holds one of the code's values.
THEOREM TypeCorrect == Spec => []TypeOK
BY InitTyped, NextTyped, PTL DEF Spec

(***************************************************************************)
(* Safety                                                                  *)
(***************************************************************************)

\* The target lock is held by one transaction at a time.
Exclusive ==
  \A e, f \in Executors, k, l \in Kinds : Holding(e, k) /\ Holding(f, l) => e = f /\ k = l

\* Where a call is tells what its transactions are.
Placed(e) ==
  /\ run[e].pc \in {"admit", "observe", "begin"} => txn[e]["forward"] = "none"
  /\ run[e].pc = "wait" => txn[e]["forward"] = "waiting"
  /\ run[e].pc \in {"recheck", "postlock", "forward"} => txn[e]["forward"] = "held"
  /\ run[e].pc = "final" => run[e].commit = "COMMITTED"
  /\ run[e].pc \in {"undocheck", "undocommit"} => txn[e]["inverse"] = "held"
  /\ run[e].pc # "done" => receipt[e] = NoReceipt

\* What a call says it has done has been done.
Accurate(e) ==
  /\ run[e].commit = "COMMITTED" => e \in landed
  /\ e \in landed => txn[e]["forward"] = "over"
  /\ run[e].pc = "rollback" /\ run[e].alive => txn[e]["forward"] \in {"held", "over"} /\ e \notin landed
  /\ run[e].rb \in {"tried", "verified"} => txn[e]["forward"] = "over" /\ e \notin landed
  /\ run[e].inv = "verified" \/ run[e].pc \in {"reverify", "verifyundo"} => e \in undone

\* ReceiptTruthful, of one call.
Truthful(e) ==
  receipt[e] \in Receipts =>
    /\ receipt[e].outcome = "PASS" \/ receipt[e].commit = "COMMITTED" => e \in landed
    /\ receipt[e].outcome = "BLOCKED" \/ receipt[e].rollback = "verified" =>
         e \notin landed /\ txn[e]["forward"] # "committing"
    /\ receipt[e].inverse = "verified" => e \in undone

Call(e) == Placed(e) /\ Accurate(e) /\ Truthful(e)

\* Past the last observation nobody but a writer without the lock changes anything.
Steady == \A e \in Observed \ disturbed : db = plan[e].pre

Inv == TypeOK /\ Exclusive /\ Steady /\ \A e \in Executors : Call(e)

-----------------------------------------------------------------------------
(* What a step of e's call must show *)

Early == {"ADMISSION", "OBSERVE", "PRESTATE", "INVERSE", "PREWRITE"}

\* A step leaves the other calls alone.
Alone(e) == \A f \in Executors \ {e} : run'[f] = run[f] /\ receipt'[f] = receipt[f]

\* A step changes one transaction of e at most, and takes no lock with it.
Releases(e) ==
  \/ UNCHANGED txn
  \/ \E k \in Kinds, s \in TxnStates :
       txn' = Sets(e, k, s) /\ (s \in {"held", "lost", "committing"} => Holding(e, k))

\* The local variables y agree with what the server has done.
Sound(e, y) ==
  /\ y.commit = "COMMITTED" => e \in landed'
  /\ e \in landed' => txn'[e]["forward"] = "over"
  /\ y.rb \in {"tried", "verified"} => txn'[e]["forward"] = "over" /\ e \notin landed'
  /\ y.inv = "verified" => e \in undone'

LEMMA MakeReceiptFacts ==
  ASSUME NEW r \in Receipts, MakeReceipt(r) \in Receipts
  PROVE  LET q == MakeReceipt(r) IN
         /\ q.outcome = "PASS" \/ q.commit = "COMMITTED" => r.commit = "COMMITTED"
         /\ q.outcome = "BLOCKED" => r.outcome = "BLOCKED" /\ r.phase \in Early
         /\ q.rollback = "verified" => r.rollback = "verified"
         /\ q.inverse = "verified" => r.inverse = "verified"
<1> DEFINE q == MakeReceipt(r)
<1>0. Rejected \notin Receipts
  BY DEF Rejected, Receipts
<1>1. CASE q = r /\ Valid(r)
  <2>1. r.outcome = "PASS" => r.commit = "COMMITTED"
    BY <1>1 DEF Valid, ValidPass
  <2>2. r.outcome = "BLOCKED" => r.phase \in Early
    BY <1>1 DEF Valid, Listed, Early
  <2> QED BY <1>1, <2>1, <2>2
<1>2. CASE q = Fallback(r)
  <2>1. q.outcome = "FAIL" /\ q.rollback = Kept(r, r.rollback) /\ q.inverse = Kept(r, r.inverse)
    BY <1>2 DEF Fallback
  <2>2. q.commit = "COMMITTED" => r.commit = "COMMITTED"
    BY <1>2 DEF Fallback
  <2>3. \A x : Kept(r, x) = "verified" => x = "verified"
    BY DEF Kept, Unverified
  <2> QED BY <2>1, <2>2, <2>3
<1>3. (q = r /\ Valid(r)) \/ q = Fallback(r) \/ q = Rejected
  BY DEF MakeReceipt
<1> QED BY <1>0, <1>1, <1>2, <1>3

LEMMA ContinueAlone ==
  ASSUME TypeOK, NEW e \in Executors, NEW y, Continue(e, y)
  PROVE  Alone(e) /\ run'[e] = y /\ receipt'[e] = receipt[e]
BY DEF TypeOK, Continue, Alone

LEMMA AnswerAlone ==
  ASSUME TypeOK, NEW e \in Executors, NEW y, NEW r, Answer(e, y, r)
  PROVE  Alone(e) /\ run'[e] = [y EXCEPT !.pc = "done"] /\ receipt'[e] = MakeReceipt(r)
BY DEF TypeOK, Answer, Alone

LEMMA AnsweredCall ==
  ASSUME Inv, NEW e \in Executors, NEW y \in Local, NEW r \in Receipts, Answer(e, y, r), Sound(e, y),
         r.commit = "COMMITTED" => e \in landed',
         (r.outcome = "BLOCKED" /\ r.phase \in Early) \/ r.rollback = "verified" =>
           e \notin landed' /\ txn'[e]["forward"] # "committing",
         r.inverse = "verified" => e \in undone'
  PROVE  Call(e)'
<1>1. run'[e] = [y EXCEPT !.pc = "done"] /\ receipt'[e] = MakeReceipt(r)
  BY AnswerAlone DEF Inv
<1>2. /\ run'[e].pc = "done" /\ run'[e].commit = y.commit
      /\ run'[e].rb = y.rb /\ run'[e].inv = y.inv
  BY <1>1 DEF Local
<1>3. Placed(e)'
  BY <1>2 DEF Placed
<1>4. Accurate(e)'
  BY <1>2 DEF Accurate, Sound
<1>5. Truthful(e)'
  BY <1>1, MakeReceiptFacts DEF Truthful
<1> QED BY <1>3, <1>4, <1>5 DEF Call

LEMMA RefusedCall ==
  ASSUME Inv, NEW e \in Executors, NEW phase \in Phases, NEW code \in Codes,
         NEW readiness \in {"NOT_RUN", "PASS", "FAIL"}, Refuse(e, phase, code, readiness),
         Sound(e, run[e]), phase \in Early => e \notin landed' /\ txn'[e]["forward"] # "committing"
  PROVE  Call(e)' /\ Alone(e)
<1> DEFINE r == Refusal(phase, code, readiness)
<1>1. run[e] \in Local
  BY Known DEF Inv
<1>2. r \in Receipts
  BY DEF Refusal, Receipts, CommitStates, Restorations
<1>3. r.commit = "NOT_STARTED" /\ r.rollback = "no" /\ r.inverse = "no" /\ r.phase = phase
  BY DEF Refusal
<1>4. Answer(e, run[e], r)
  BY DEF Refuse
<1> HIDE DEF r
<1>5. Call(e)'
  BY <1>1, <1>2, <1>3, <1>4, AnsweredCall
<1> QED BY <1>4, <1>5, AnswerAlone DEF Inv

LEMMA ConcludedCall ==
  ASSUME Inv, NEW e \in Executors, NEW y \in Locals(e), Conclude(e, y), Sound(e, y)
  PROVE  Call(e)' /\ Alone(e)
<1> DEFINE r == Failure(y)
<1>1. y \in Local
  BY DEF Locals
<1>2. r \in Receipts
  BY <1>1, FailureTyped
<1>3. /\ r.commit = y.commit /\ r.outcome = "FAIL"
      /\ r.rollback = Flag(y.rb) /\ r.inverse = Flag(y.inv)
  BY DEF Failure
<1>4. \A x : Flag(x) = "verified" => x = "verified"
  BY DEF Flag
<1>5. Answer(e, y, r)
  BY DEF Conclude
<1> HIDE DEF r
<1>6. r.rollback = "verified" => e \notin landed' /\ txn'[e]["forward"] # "committing"
  BY <1>3, <1>4 DEF Sound
<1>7. Call(e)'
  BY <1>1, <1>2, <1>3, <1>4, <1>5, <1>6, AnsweredCall DEF Sound
<1> QED BY <1>5, <1>7, AnswerAlone DEF Inv

\* A call that goes on somewhere no clause of Placed or Accurate is about.
LEMMA ContinuedCall ==
  ASSUME Inv, NEW e \in Executors, NEW y \in Local, Continue(e, y), run[e].pc # "done", Sound(e, y),
         y.pc \in {"wait", "recheck", "postlock", "forward"} =>
           txn'[e]["forward"] = IF y.pc = "wait" THEN "waiting" ELSE "held",
         y.pc \in {"admit", "observe", "begin"} => txn'[e]["forward"] = "none",
         y.pc = "final" => y.commit = "COMMITTED",
         y.pc \in {"undocheck", "undocommit"} => txn'[e]["inverse"] = "held",
         y.pc = "rollback" /\ y.alive => txn'[e]["forward"] \in {"held", "over"} /\ e \notin landed',
         y.pc \in {"reverify", "verifyundo"} => e \in undone'
  PROVE  Call(e)' /\ Alone(e)
<1>1. Alone(e) /\ run'[e] = y /\ receipt'[e] = receipt[e]
  BY ContinueAlone DEF Inv
<1>2. receipt[e] = NoReceipt
  BY DEF Inv, Call, Placed
<1>3. Placed(e)'
  BY <1>1, <1>2 DEF Placed
<1>4. Accurate(e)'
  BY <1>1 DEF Accurate, Sound
<1>5. NoReceipt \notin Receipts
  BY DEF NoReceipt, Receipts
<1>6. Truthful(e)'
  BY <1>1, <1>2, <1>5 DEF Truthful
<1> QED BY <1>1, <1>3, <1>4, <1>6 DEF Call

LEMMA JudgedCall ==
  ASSUME Inv, NEW e \in Executors, NEW y \in Locals(e), Judged(e, y), run[e].pc # "done", Sound(e, y)
  PROVE  Call(e)' /\ Alone(e)
<1>1. CASE Conclude(e, y)
  BY <1>1, ConcludedCall
<1>2. CASE Continue(e, [y EXCEPT !.pc = "restore"])
  <2> DEFINE z == [y EXCEPT !.pc = "restore"]
  <2>1. y \in Local
    BY DEF Locals
  <2>2. z \in Local
    BY <2>1, Names DEF Local
  <2>3. z.pc = "restore" /\ z.commit = y.commit /\ z.rb = y.rb /\ z.inv = y.inv
    BY <2>1 DEF Local
  <2>4. Sound(e, z)
    BY <2>3 DEF Sound
  <2> HIDE DEF z
  <2> QED BY <1>2, <2>2, <2>3, <2>4, ContinuedCall DEF z
<1> QED BY <1>1, <1>2 DEF Judged

LEMMA RecoveredCall ==
  ASSUME Inv, NEW e \in Executors, NEW y \in Locals(e), Recover(e, y), run[e].pc # "done", Sound(e, y),
         y.commit # "COMMITTED" /\ y.alive => txn'[e]["forward"] \in {"held", "over"} /\ e \notin landed'
  PROVE  Call(e)' /\ Alone(e)
<1> DEFINE pc == IF y.commit = "COMMITTED" THEN "verify" ELSE "rollback"
           z == [y EXCEPT !.pc = pc]
<1>1. y \in Local
  BY DEF Locals
<1>2. pc \in Steps
  BY Names
<1>3. Continue(e, z)
  BY DEF Recover
<1>4. pc \in {"verify", "rollback"} /\ (pc = "rollback" => y.commit # "COMMITTED")
  OBVIOUS
<1> HIDE DEF pc
<1>5. z \in Local
  BY <1>1, <1>2 DEF Local
<1>6. z.pc = pc /\ z.commit = y.commit /\ z.rb = y.rb /\ z.inv = y.inv /\ z.alive = y.alive
  BY <1>1 DEF Local
<1>7. Sound(e, z)
  BY <1>6 DEF Sound
<1> HIDE DEF z
<1> QED BY <1>3, <1>4, <1>5, <1>6, <1>7, ContinuedCall

LEMMA InverseFailsCall ==
  ASSUME Inv, NEW e \in Executors, InverseFails(e), run[e].pc # "done",
         Sound(e, [run[e] EXCEPT !.inv = "tried", !.restoration = "FAILED"])
  PROVE  Call(e)' /\ Alone(e)
<1> DEFINE y == [run[e] EXCEPT !.inv = "tried", !.restoration = "FAILED"]
<1>1. run[e] \in Local /\ run[e] \in Locals(e)
  BY Known DEF Inv
<1>2. y \in Local /\ y.applied = run[e].applied
  BY <1>1, Names DEF Local
<1>3. y \in Locals(e)
  BY <1>1, <1>2, LocalsOf
<1>4. Judged(e, y)
  BY DEF InverseFails
<1> HIDE DEF y
<1> QED BY <1>3, <1>4, JudgedCall DEF y

-----------------------------------------------------------------------------
(* What a step must show of everything else *)

LEMMA OtherCalls ==
  ASSUME Inv, NEW e \in Executors, NEW f \in Executors, f # e, Alone(e), txn'[f] = txn[f],
         f \in landed' <=> f \in landed, f \in undone' <=> f \in undone
  PROVE  Call(f)'
<1>1. run'[f] = run[f] /\ receipt'[f] = receipt[f] /\ Call(f)
  BY DEF Inv, Alone
<1>2. Placed(f)'
  BY <1>1 DEF Call, Placed
<1>3. Accurate(f)'
  BY <1>1 DEF Call, Accurate
<1>4. Truthful(f)'
  BY <1>1 DEF Call, Truthful
<1> QED BY <1>2, <1>3, <1>4 DEF Call

LEMMA SetsOne ==
  ASSUME TypeOK, NEW e \in Executors, NEW k \in Kinds, NEW s, txn' = Sets(e, k, s)
  PROVE  /\ txn'[e][k] = s
         /\ \A l \in Kinds \ {k} : txn'[e][l] = txn[e][l]
         /\ \A f \in Executors \ {e} : txn'[f] = txn[f]
<1>1. txn \in [Executors -> [Kinds -> TxnStates]]
  BY DEF TypeOK
<1> QED BY <1>1 DEF Sets

LEMMA ReleasesHold ==
  ASSUME TypeOK, NEW e \in Executors, Releases(e)
  PROVE  /\ \A f \in Executors, l \in Kinds : Holding(f, l)' => Holding(f, l)
         /\ \A f \in Executors \ {e} : txn'[f] = txn[f]
<1>1. CASE UNCHANGED txn
  BY <1>1 DEF Holding
<1>2. CASE \E k \in Kinds, s \in TxnStates :
             txn' = Sets(e, k, s) /\ (s \in {"held", "lost", "committing"} => Holding(e, k))
  <2>1. PICK k \in Kinds, s \in TxnStates :
          txn' = Sets(e, k, s) /\ (s \in {"held", "lost", "committing"} => Holding(e, k))
    BY <1>2
  <2>2. /\ txn'[e][k] = s
        /\ \A l \in Kinds \ {k} : txn'[e][l] = txn[e][l]
        /\ \A f \in Executors \ {e} : txn'[f] = txn[f]
    BY <2>1, SetsOne
  <2>3. ASSUME NEW f \in Executors, NEW l \in Kinds, Holding(f, l)'
        PROVE  Holding(f, l)
    <3>1. CASE f # e
      BY <2>2, <2>3, <3>1 DEF Holding
    <3>2. CASE f = e /\ l # k
      BY <2>2, <2>3, <3>2 DEF Holding
    <3>3. CASE f = e /\ l = k
      BY <2>1, <2>2, <2>3, <3>3 DEF Holding
    <3> QED BY <3>1, <3>2, <3>3
  <2> QED BY <2>2, <2>3
<1> QED BY <1>1, <1>2 DEF Releases

\* Most steps: e's call moves on, and the database stays as it is.
LEMMA QuietStep ==
  ASSUME Inv, TypeOK', NEW e \in Executors, Quiet, Alone(e), Releases(e), Call(e)',
         run[e].pc \in {"recheck", "postlock"} =>
           \/ txn'[e]["forward"] = "over" \/ run'[e].pc = "postlock" \/ db = plan[e].pre
  PROVE  Inv'
<1>1. TypeOK
  BY DEF Inv
<1>2. /\ \A f \in Executors, l \in Kinds : Holding(f, l)' => Holding(f, l)
      /\ \A f \in Executors \ {e} : txn'[f] = txn[f]
  BY <1>1, ReleasesHold
<1>3. Exclusive'
  BY <1>2 DEF Inv, Exclusive
<1>4. \A f \in Executors : Call(f)'
  <2> TAKE f \in Executors
  <2>1. CASE f = e
    BY <2>1
  <2>2. CASE f # e
    BY <1>2, <2>2, OtherCalls DEF Quiet
  <2> QED BY <2>1, <2>2
<1>5. Steady'
  <2>1. ASSUME NEW f \in Observed' \ disturbed'
        PROVE  db' = plan'[f].pre
    <3>1. f \in Executors /\ Holding(f, "forward")' /\ run'[f].pc \notin {"recheck", "postlock"}
      BY <2>1 DEF Observed
    <3>2. "forward" \in Kinds
      BY DEF Kinds
    <3>3. Holding(f, "forward")
      BY <1>2, <3>1, <3>2
    <3>4. CASE run[f].pc \notin {"recheck", "postlock"}
      BY <2>1, <3>1, <3>3, <3>4 DEF Inv, Steady, Observed, Quiet
    <3>5. CASE f = e /\ run[e].pc \in {"recheck", "postlock"}
      <4>1. txn'[e]["forward"] # "over"
        BY <3>1, <3>5 DEF Holding
      <4> QED BY <3>1, <3>5, <4>1 DEF Quiet
    <3>6. CASE f # e
      <4>1. run'[f] = run[f]
        BY <3>1, <3>6 DEF Alone
      <4> QED BY <3>1, <3>4, <4>1
    <3> QED BY <3>4, <3>5, <3>6
  <2> QED BY <2>1 DEF Steady
<1> QED BY <1>3, <1>4, <1>5 DEF Inv

\* A transaction gets the target lock.
LEMMA AcquireStep ==
  ASSUME Inv, TypeOK', NEW e \in Executors, NEW k \in Kinds, Quiet, Alone(e), ~TargetLocked,
         txn' = Sets(e, k, "held"), Call(e)', k = "forward" => run'[e].pc = "recheck"
  PROVE  Inv'
<1>1. /\ \A l \in Kinds \ {k} : txn'[e][l] = txn[e][l]
      /\ \A f \in Executors \ {e} : txn'[f] = txn[f]
  BY SetsOne DEF Inv
<1>2. \A f \in Executors, l \in Kinds : Holding(f, l)' => f = e /\ l = k
  BY <1>1 DEF TargetLocked, Holding
<1>3. Exclusive'
  BY <1>2 DEF Exclusive
<1>4. \A f \in Executors : Call(f)'
  <2> TAKE f \in Executors
  <2>1. CASE f = e
    BY <2>1
  <2>2. CASE f # e
    BY <1>1, <2>2, OtherCalls DEF Quiet
  <2> QED BY <2>1, <2>2
<1>5. Steady'
  <2>1. Observed' = {}
    BY <1>2 DEF Observed, Kinds
  <2> QED BY <2>1 DEF Steady
<1> QED BY <1>3, <1>4, <1>5 DEF Inv

\* A transaction that holds the lock is committed.
LEMMA LandStep ==
  ASSUME Inv, TypeOK', NEW e \in Executors, NEW k \in Kinds, Holding(e, k), Land(e, k),
         txn' = Sets(e, k, "over"), Alone(e), Call(e)'
  PROVE  Inv'
<1>1. /\ txn'[e][k] = "over"
      /\ \A l \in Kinds \ {k} : txn'[e][l] = txn[e][l]
      /\ \A f \in Executors \ {e} : txn'[f] = txn[f]
  BY SetsOne DEF Inv
<1>2. \A f \in Executors, l \in Kinds : Holding(f, l) => f = e /\ l = k
  BY DEF Inv, Exclusive
<1>3. \A f \in Executors, l \in Kinds : ~Holding(f, l)'
  BY <1>1, <1>2 DEF Holding
<1>4. Exclusive'
  BY <1>3 DEF Exclusive
<1>5. \A f \in Executors : Call(f)'
  <2> TAKE f \in Executors
  <2>1. CASE f = e
    BY <2>1
  <2>2. CASE f # e
    <3>1. (f \in landed' <=> f \in landed) /\ (f \in undone' <=> f \in undone)
      BY <2>2 DEF Land
    <3> QED BY <1>1, <2>2, <3>1, OtherCalls
  <2> QED BY <2>1, <2>2
<1>6. Steady'
  <2>1. Observed' = {}
    BY <1>3 DEF Observed, Kinds
  <2> QED BY <2>1 DEF Steady
<1> QED BY <1>4, <1>5, <1>6 DEF Inv

-----------------------------------------------------------------------------
(* The steps *)

LEMMA SoundStill ==
  ASSUME Inv, NEW e \in Executors, NEW y, UNCHANGED <<landed, undone>>,
         txn[e]["forward"] = "over" => txn'[e]["forward"] = "over",
         y.commit = "COMMITTED" => run[e].commit = "COMMITTED",
         y.rb \in {"tried", "verified"} => run[e].rb \in {"tried", "verified"},
         y.inv = "verified" => run[e].inv = "verified"
  PROVE  Sound(e, y)
BY DEF Inv, Call, Accurate, Sound

LEMMA GotoCall ==
  ASSUME Inv, NEW e \in Executors,
         NEW pc \in Steps \ {"final", "rollback", "reverify", "verifyundo"},
         Goto(e, pc), run[e].pc # "done", UNCHANGED <<landed, undone>>,
         txn[e]["forward"] = "over" => txn'[e]["forward"] = "over",
         pc \in {"wait", "recheck", "postlock", "forward"} =>
           txn'[e]["forward"] = IF pc = "wait" THEN "waiting" ELSE "held",
         pc \in {"admit", "observe", "begin"} => txn'[e]["forward"] = "none",
         pc \in {"undocheck", "undocommit"} => txn'[e]["inverse"] = "held"
  PROVE  Call(e)' /\ Alone(e) /\ run'[e].pc = pc
<1> DEFINE y == [run[e] EXCEPT !.pc = pc]
<1>1. run[e] \in Local
  BY Known DEF Inv
<1>2. y \in Local
  BY <1>1 DEF Local
<1>3. y.pc = pc /\ y.commit = run[e].commit /\ y.rb = run[e].rb /\ y.inv = run[e].inv
  BY <1>1 DEF Local
<1>4. Continue(e, y)
  BY DEF Goto
<1> HIDE DEF y
<1>5. Sound(e, y)
  BY <1>3, SoundStill
<1>6. Call(e)' /\ Alone(e)
  BY <1>2, <1>3, <1>4, <1>5, ContinuedCall
<1> QED BY <1>3, <1>4, <1>6, ContinueAlone DEF Inv

LEMMA AdmitStep ==
  ASSUME Inv, TypeOK', NEW e \in Executors, Admit(e) \/ Observe(e)
  PROVE  Inv'
<1>1. Quiet /\ UNCHANGED <<landed, undone, txn>>
  BY DEF Admit, Observe, Quiet
<1>2. run[e].pc \in {"admit", "observe"} /\ txn[e]["forward"] = "none" /\ e \notin landed
  BY DEF Admit, Observe, At, Inv, Call, Placed, Accurate
<1>3. Sound(e, run[e])
  BY <1>1, SoundStill
<1>4. CASE \E phase \in Phases, code \in Codes : Refuse(e, phase, code, "NOT_RUN")
  <2>1. Call(e)' /\ Alone(e)
    BY <1>1, <1>2, <1>3, <1>4, RefusedCall
  <2> QED BY <1>1, <1>2, <2>1, QuietStep DEF Releases
<1>5. CASE \E pc \in {"observe", "begin"} : Goto(e, pc)
  <2>1. Call(e)' /\ Alone(e)
    BY <1>1, <1>2, <1>5, GotoCall DEF Steps
  <2> QED BY <1>1, <1>2, <2>1, QuietStep DEF Releases
<1>6. \/ \E phase \in Phases, code \in Codes : Refuse(e, phase, code, "NOT_RUN")
      \/ \E pc \in {"observe", "begin"} : Goto(e, pc)
  BY DEF Admit, Observe, Phases, Codes
<1> QED BY <1>4, <1>5, <1>6

LEMMA RequestTargetLockStep ==
  ASSUME Inv, TypeOK', NEW e \in Executors, RequestTargetLock(e)
  PROVE  Inv'
<1>1. Quiet /\ UNCHANGED <<landed, undone>>
  BY DEF RequestTargetLock, Quiet
<1>2. run[e].pc = "begin" /\ txn[e]["forward"] = "none" /\ e \notin landed
  BY DEF RequestTargetLock, At, Inv, Call, Placed, Accurate
<1>3. CASE Refuse(e, "PREWRITE", "UNEXPECTED_FAILURE", "NOT_RUN") /\ UNCHANGED txn
  <2>1. Sound(e, run[e])
    BY <1>1, <1>3, SoundStill
  <2>2. "PREWRITE" \in Phases /\ "UNEXPECTED_FAILURE" \in Codes
    BY DEF Phases, Codes
  <2>3. Call(e)' /\ Alone(e)
    BY <1>1, <1>2, <1>3, <2>1, <2>2, RefusedCall
  <2> QED BY <1>1, <1>2, <1>3, <2>3, QuietStep DEF Releases
<1>4. CASE Goto(e, "wait") /\ txn' = Sets(e, "forward", "waiting")
  <2>1. "forward" \in Kinds /\ "waiting" \in TxnStates
    BY DEF Kinds, TxnStates
  <2>2. txn'[e]["forward"] = "waiting"
    BY <1>4, <2>1, SetsOne DEF Inv
  <2>3. Call(e)' /\ Alone(e)
    BY <1>1, <1>2, <1>4, <2>2, GotoCall DEF Steps
  <2>4. Releases(e)
    BY <1>4, <2>1 DEF Releases
  <2> QED BY <1>1, <1>2, <2>3, <2>4, QuietStep
<1> QED BY <1>3, <1>4 DEF RequestTargetLock

LEMMA AcquireTargetLockStep ==
  ASSUME Inv, TypeOK', NEW e \in Executors, AcquireTargetLock(e)
  PROVE  Inv'
<1>1. Quiet /\ UNCHANGED <<landed, undone>>
  BY DEF AcquireTargetLock, Quiet
<1>2. run[e].pc = "wait" /\ txn[e]["forward"] = "waiting" /\ e \notin landed
  BY DEF AcquireTargetLock, At, Inv, Call, Placed, Accurate
<1>3. "forward" \in Kinds /\ "over" \in TxnStates
  BY DEF Kinds, TxnStates
<1>4. CASE Refuse(e, "PREWRITE", "UNEXPECTED_FAILURE", "NOT_RUN") /\ txn' = Sets(e, "forward", "over")
  <2>0. txn'[e]["forward"] = "over"
    BY <1>3, <1>4, SetsOne DEF Inv
  <2>1. Sound(e, run[e])
    BY <1>1, <2>0, SoundStill
  <2>2. "PREWRITE" \in Phases /\ "UNEXPECTED_FAILURE" \in Codes
    BY DEF Phases, Codes
  <2>3. Call(e)' /\ Alone(e)
    BY <1>1, <1>2, <1>4, <2>0, <2>1, <2>2, RefusedCall
  <2>4. Releases(e)
    BY <1>3, <1>4 DEF Releases
  <2> QED BY <1>1, <1>2, <2>3, <2>4, QuietStep
<1>5. CASE ~TargetLocked /\ Goto(e, "recheck") /\ txn' = Sets(e, "forward", "held")
  <2>1. txn'[e]["forward"] = "held"
    BY <1>3, <1>5, SetsOne DEF Inv
  <2>2. Call(e)' /\ Alone(e) /\ run'[e].pc = "recheck"
    BY <1>1, <1>2, <1>5, <2>1, GotoCall DEF Steps
  <2> QED BY <1>1, <1>3, <1>5, <2>2, AcquireStep
<1> QED BY <1>4, <1>5 DEF AcquireTargetLock

LEMMA PrewriteFailsStep ==
  ASSUME Inv, TypeOK', NEW e \in Executors, NEW code \in Codes, PrewriteFails(e, code), Quiet,
         run[e].pc \in {"recheck", "postlock"}
  PROVE  Inv'
<1>1. UNCHANGED <<landed, undone>>
  BY DEF Quiet
<1>2. txn[e]["forward"] = "held" /\ e \notin landed
  BY DEF Inv, Call, Placed, Accurate
<1>3. "forward" \in Kinds /\ "over" \in TxnStates /\ "PREWRITE" \in Phases
  BY DEF Kinds, TxnStates, Phases
<1>4. txn' = Sets(e, "forward", "over") /\ Refuse(e, "PREWRITE", code, "NOT_RUN")
  BY DEF PrewriteFails
<1>5. txn'[e]["forward"] = "over"
  BY <1>3, <1>4, SetsOne DEF Inv
<1>6. Sound(e, run[e])
  BY <1>1, <1>5, SoundStill
<1>7. Call(e)' /\ Alone(e)
  BY <1>1, <1>2, <1>3, <1>4, <1>5, <1>6, RefusedCall
<1>8. Releases(e)
  BY <1>3, <1>4 DEF Releases
<1> QED BY <1>5, <1>7, <1>8, QuietStep

LEMMA RecheckStep ==
  ASSUME Inv, TypeOK', NEW e \in Executors, Revalidate(e) \/ ObserveAfterLock(e)
  PROVE  Inv'
<1>1. Quiet /\ UNCHANGED <<landed, undone>>
  BY DEF Revalidate, ObserveAfterLock, Quiet
<1>2. run[e].pc \in {"recheck", "postlock"} /\ txn[e]["forward"] = "held"
  BY DEF Revalidate, ObserveAfterLock, At, Inv, Call, Placed
<1>3. CASE \E code \in Codes : PrewriteFails(e, code)
  BY <1>1, <1>2, <1>3, PrewriteFailsStep
<1>4. CASE /\ UNCHANGED txn
           /\ Goto(e, "postlock") \/ (Goto(e, "forward") /\ db = plan[e].pre)
  <2>1. Call(e)' /\ Alone(e)
    BY <1>1, <1>2, <1>4, GotoCall DEF Steps
  <2>2. run'[e].pc = "postlock" \/ db = plan[e].pre
    BY <1>1, <1>2, <1>4, GotoCall DEF Steps
  <2>3. Releases(e)
    BY <1>4 DEF Releases
  <2> QED BY <1>1, <2>1, <2>2, <2>3, QuietStep
<1>5. \/ \E code \in Codes : PrewriteFails(e, code)
      \/ /\ UNCHANGED txn
         /\ Goto(e, "postlock") \/ (Goto(e, "forward") /\ db = plan[e].pre)
  BY DEF Revalidate, ObserveAfterLock, Recheck, Codes
<1> QED BY <1>3, <1>4, <1>5

LEMMA ApplyStep ==
  ASSUME Inv, TypeOK', NEW e \in Executors, ApplyOperation(e)
  PROVE  Inv'
<1> DEFINE y == [run[e] EXCEPT !.started = TRUE, !.phase = "FORWARD"]
<1>1. Quiet /\ UNCHANGED <<landed, undone>> /\ run[e].pc = "forward" /\ txn[e]["forward"] = "held"
  BY DEF ApplyOperation, Quiet, At, Inv, Call, Placed
<1>2. e \notin landed /\ run[e] \in Local /\ run[e] \in Locals(e)
  BY <1>1, Known DEF Inv, Call, Accurate
<1>3. "forward" \in Kinds /\ "lost" \in TxnStates
  BY DEF Kinds, TxnStates
<1>4. /\ y \in Local /\ y.applied = run[e].applied /\ y.pc = "forward"
      /\ y.commit = run[e].commit /\ y.rb = run[e].rb /\ y.inv = run[e].inv
  BY <1>1, <1>2, Names DEF Local
<1>5. \/ Continue(e, [y EXCEPT !.applied = y.applied + 1]) /\ UNCHANGED txn
      \/ Recover(e, [y EXCEPT !.code = "MUTATION_FAILED"]) /\ UNCHANGED txn
      \/ /\ txn' = Sets(e, "forward", "lost")
         /\ \E c \in {"MUTATION_FAILED", "WRITE_INDETERMINATE"} :
              Recover(e, [y EXCEPT !.code = c, !.alive = FALSE])
  BY DEF ApplyOperation
<1> HIDE DEF y
<1>6. Releases(e)
  BY <1>1, <1>3, <1>5 DEF Releases, Holding
<1>7. CASE Continue(e, [y EXCEPT !.applied = y.applied + 1]) /\ UNCHANGED txn
  <2> DEFINE z == [y EXCEPT !.applied = y.applied + 1]
  <2>1. z \in Local /\ z.pc = "forward"
        /\ z.commit = y.commit /\ z.rb = y.rb /\ z.inv = y.inv
    BY <1>4 DEF Local
  <2>2. Continue(e, z)
    BY <1>7
  <2> HIDE DEF z
  <2>3. Sound(e, z)
    BY <1>1, <1>4, <1>7, <2>1, SoundStill
  <2>4. Call(e)' /\ Alone(e)
    BY <1>1, <1>7, <2>1, <2>2, <2>3, ContinuedCall
  <2> QED BY <1>1, <1>6, <2>4, QuietStep
<1>8. ASSUME NEW z \in Local, Recover(e, z), z.applied = y.applied,
             z.commit = y.commit /\ z.rb = y.rb /\ z.inv = y.inv,
             z.alive => UNCHANGED txn
      PROVE  Inv'
  <2>1. z \in Locals(e)
    BY <1>2, <1>4, <1>8, LocalsOf
  <2>2. Sound(e, z)
    <3>1. ~(run[e].rb \in {"tried", "verified"}) /\ run[e].commit # "COMMITTED"
      BY <1>1, <1>2 DEF Inv, Call, Accurate
    <3>2. run[e].inv = "verified" => e \in undone'
      BY <1>1 DEF Inv, Call, Accurate
    <3> QED BY <1>1, <1>2, <1>4, <1>8, <3>1, <3>2 DEF Sound
  <2>3. Call(e)' /\ Alone(e)
    BY <1>1, <1>2, <1>8, <2>1, <2>2, RecoveredCall
  <2> QED BY <1>1, <1>6, <2>3, QuietStep
<1>9. ASSUME NEW c \in {"MUTATION_FAILED", "WRITE_INDETERMINATE"},
             \/ Recover(e, [y EXCEPT !.code = c]) /\ UNCHANGED txn
             \/ Recover(e, [y EXCEPT !.code = c, !.alive = FALSE])
      PROVE  Inv'
  <2> DEFINE u == [y EXCEPT !.code = c]
             w == [y EXCEPT !.code = c, !.alive = FALSE]
  <2>1. c \in Codes
    BY Names
  <2>2. u \in Local /\ u.applied = y.applied /\ u.commit = y.commit /\ u.rb = y.rb /\ u.inv = y.inv
    BY <1>4, <2>1 DEF Local
  <2>3. w \in Local /\ w.applied = y.applied /\ w.commit = y.commit /\ w.rb = y.rb /\ w.inv = y.inv
        /\ ~w.alive
    BY <1>4, <2>1 DEF Local
  <2>4. (Recover(e, u) /\ UNCHANGED txn) \/ Recover(e, w)
    BY <1>9
  <2> HIDE DEF u, w
  <2> QED BY <1>8, <2>2, <2>3, <2>4
<1> QED BY <1>5, <1>7, <1>9

\* Nothing has been said to be rolled back, and nothing is committed.
LEMMA BeforeCommitSound ==
  ASSUME Inv, NEW e \in Executors, run[e].pc = "forward", NEW y, UNCHANGED <<landed, undone>>,
         y.commit = run[e].commit \/ y.commit # "COMMITTED", y.rb = run[e].rb, y.inv = run[e].inv
  PROVE  Sound(e, y)
<1>1. txn[e]["forward"] = "held" /\ e \notin landed
  BY DEF Inv, Call, Placed, Accurate
<1>2. run[e].commit # "COMMITTED" /\ ~(run[e].rb \in {"tried", "verified"})
  BY <1>1 DEF Inv, Call, Accurate
<1>3. run[e].inv = "verified" => e \in undone
  BY DEF Inv, Call, Accurate
<1> QED BY <1>1, <1>2, <1>3 DEF Sound

LEMMA CommitFailsCall ==
  ASSUME Inv, NEW e \in Executors, run[e].pc = "forward", UNCHANGED <<landed, undone>>,
         NEW alive \in BOOLEAN, NEW commit \in CommitStates \ {"COMMITTED"}, NEW code \in Codes,
         CommitFails(e, alive, commit, code), alive => txn'[e]["forward"] = "over"
  PROVE  Call(e)' /\ Alone(e)
<1> DEFINE y == [run[e] EXCEPT !.alive = alive, !.commit = commit, !.phase = "COMMIT", !.code = code]
<1>1. run[e] \in Local /\ run[e] \in Locals(e) /\ e \notin landed
  BY Known DEF Inv, Call, Placed, Accurate
<1>2. /\ y \in Local /\ y.applied = run[e].applied /\ y.alive = alive /\ y.commit = commit
      /\ y.rb = run[e].rb /\ y.inv = run[e].inv
  BY <1>1, Names DEF Local
<1>3. Recover(e, y) \/ Refuse(e, "COMMIT", code, "NOT_RUN")
  BY DEF CommitFails
<1> HIDE DEF y
<1>4. CASE Recover(e, y)
  <2>1. y \in Locals(e)
    BY <1>1, <1>2, LocalsOf
  <2>2. Sound(e, y)
    BY <1>2, BeforeCommitSound
  <2> QED BY <1>1, <1>2, <1>4, <2>1, <2>2, RecoveredCall
<1>5. CASE Refuse(e, "COMMIT", code, "NOT_RUN")
  <2>1. Sound(e, run[e])
    BY BeforeCommitSound
  <2>2. "COMMIT" \in Phases /\ "COMMIT" \notin Early
    BY Names DEF Early
  <2> QED BY <1>5, <2>1, <2>2, RefusedCall
<1> QED BY <1>3, <1>4, <1>5

LEMMA CommitStep ==
  ASSUME Inv, TypeOK', NEW e \in Executors, Commit(e)
  PROVE  Inv'
<1>1. run[e].pc = "forward" /\ txn[e]["forward"] = "held" /\ UNCHANGED <<plan, disturbed, drifts>>
  BY DEF Commit, At, Inv, Call, Placed
<1>2. run[e] \in Local /\ "forward" \in Kinds /\ {"over", "committing"} \subseteq TxnStates
  BY Known DEF Inv, Kinds, TxnStates
<1>3. CASE /\ Land(e, "forward") /\ txn' = Sets(e, "forward", "over")
           /\ Continue(e, [run[e] EXCEPT !.commit = "COMMITTED", !.pc = "final"])
  <2> DEFINE y == [run[e] EXCEPT !.commit = "COMMITTED", !.pc = "final"]
  <2>1. y \in Local /\ y.pc = "final" /\ y.commit = "COMMITTED" /\ y.rb = run[e].rb /\ y.inv = run[e].inv
    BY <1>2, Names DEF Local
  <2>2. Continue(e, y)
    BY <1>3
  <2> HIDE DEF y
  <2>3. e \in landed' /\ undone' = undone /\ txn'[e]["forward"] = "over"
    BY <1>2, <1>3, SetsOne DEF Land, Inv
  <2>4. Sound(e, y)
    <3>1. ~(run[e].rb \in {"tried", "verified"}) /\ (run[e].inv = "verified" => e \in undone)
      BY <1>1 DEF Inv, Call, Accurate
    <3> QED BY <2>1, <2>3, <3>1 DEF Sound
  <2>5. Call(e)' /\ Alone(e)
    BY <1>1, <2>1, <2>2, <2>4, ContinuedCall
  <2>6. Holding(e, "forward")
    BY <1>1 DEF Holding
  <2> QED BY <1>2, <1>3, <2>5, <2>6, LandStep
<1>4. ASSUME NEW s \in {"over", "committing"}, txn' = Sets(e, "forward", s),
             UNCHANGED <<db, landed, undone>>,
             NEW alive \in BOOLEAN, NEW commit \in CommitStates \ {"COMMITTED"}, NEW code \in Codes,
             CommitFails(e, alive, commit, code), alive => s = "over"
      PROVE  Inv'
  <2>1. s \in TxnStates
    BY <1>2
  <2>2. txn'[e]["forward"] = s
    BY <1>2, <1>4, SetsOne DEF Inv
  <2>3. Call(e)' /\ Alone(e)
    BY <1>1, <1>4, <2>2, CommitFailsCall
  <2>4. Releases(e)
    BY <1>1, <1>2, <1>4, <2>1 DEF Releases, Holding
  <2>5. Quiet
    BY <1>1, <1>4 DEF Quiet
  <2> QED BY <1>1, <2>3, <2>4, <2>5, QuietStep
<1>5. CASE /\ txn' = Sets(e, "forward", "over") /\ UNCHANGED <<db, landed, undone>>
           /\ CommitFails(e, TRUE, "NOT_COMMITTED", "COMMIT_FAILED")
  <2>1. "NOT_COMMITTED" \in CommitStates \ {"COMMITTED"} /\ "COMMIT_FAILED" \in Codes
    BY DEF CommitStates, Codes
  <2> QED BY <1>4, <1>5, <2>1
<1>6. CASE /\ txn' = Sets(e, "forward", "committing") /\ UNCHANGED <<db, landed, undone>>
           /\ \/ CommitFails(e, FALSE, "INDETERMINATE", "COMMIT_INDETERMINATE")
              \/ CommitFails(e, FALSE, "NOT_COMMITTED", "COMMIT_FAILED")
  <2>1. /\ {"NOT_COMMITTED", "INDETERMINATE"} \subseteq CommitStates \ {"COMMITTED"}
        /\ {"COMMIT_FAILED", "COMMIT_INDETERMINATE"} \subseteq Codes
    BY DEF CommitStates, Codes
  <2> QED BY <1>4, <1>6, <2>1
<1> QED BY <1>3, <1>5, <1>6 DEF Commit

LEMMA FinalVerifyStep ==
  ASSUME Inv, TypeOK', NEW e \in Executors, FinalVerify(e)
  PROVE  Inv'
<1>1. Quiet /\ UNCHANGED <<landed, undone, txn>> /\ run[e].pc = "final"
  BY DEF FinalVerify, Quiet, At
<1>2. run[e].commit = "COMMITTED" /\ e \in landed /\ run[e] \in Local /\ run[e] \in Locals(e)
  BY <1>1, Known DEF Inv, Call, Placed, Accurate
<1>3. ASSUME NEW y \in Local, y.commit = run[e].commit, y.rb = run[e].rb, y.inv = run[e].inv
      PROVE  Sound(e, y)
  BY <1>1, <1>3, SoundStill
<1>4. ASSUME NEW readiness \in {"NOT_RUN", "PASS", "FAIL"}, FinalFails(e, readiness)
      PROVE  Call(e)' /\ Alone(e)
  <2> DEFINE y == [run[e] EXCEPT !.phase = "FINAL_VERIFY", !.code = "FINAL_VERIFICATION_FAILED",
                                 !.readiness = readiness]
  <2>1. /\ y \in Local /\ y.applied = run[e].applied
        /\ y.commit = run[e].commit /\ y.rb = run[e].rb /\ y.inv = run[e].inv
    BY <1>2, Names DEF Local
  <2>2. Recover(e, y) \/ Refuse(e, "FINAL_VERIFY", "FINAL_VERIFICATION_FAILED", readiness)
    BY <1>4 DEF FinalFails
  <2> HIDE DEF y
  <2>3. CASE Recover(e, y)
    <3>1. y \in Locals(e)
      BY <1>2, <2>1, LocalsOf
    <3> QED BY <1>1, <1>2, <1>3, <2>1, <2>3, <3>1, RecoveredCall
  <2>4. CASE Refuse(e, "FINAL_VERIFY", "FINAL_VERIFICATION_FAILED", readiness)
    <3>1. "FINAL_VERIFY" \in Phases \ Early /\ "FINAL_VERIFICATION_FAILED" \in Codes
      BY Names DEF Early
    <3> QED BY <1>2, <1>3, <2>4, <3>1, RefusedCall
  <2> QED BY <2>2, <2>3, <2>4
<1>5. ASSUME Answer(e, [run[e] EXCEPT !.readiness = "PASS"], Success(e))
      PROVE  Call(e)' /\ Alone(e)
  <2> DEFINE y == [run[e] EXCEPT !.readiness = "PASS"]
             r == Success(e)
  <2>1. y \in Local /\ y.commit = run[e].commit /\ y.rb = run[e].rb /\ y.inv = run[e].inv
    BY <1>2 DEF Local
  <2>2. run[e].started \in BOOLEAN
    BY <1>2 DEF Local
  <2>3. r \in Receipts
    BY <2>2 DEF Success, Receipts, Phases, Codes, CommitStates, Restorations
  <2>4. r.phase \notin Early /\ r.rollback = "no" /\ r.inverse = "no"
    BY DEF Success, Early
  <2>5. Answer(e, y, r)
    BY <1>5
  <2> HIDE DEF y, r
  <2>6. Call(e)'
    BY <1>1, <1>2, <1>3, <2>1, <2>3, <2>4, <2>5, AnsweredCall
  <2> QED BY <2>5, <2>6, AnswerAlone DEF Inv
<1>6. Call(e)' /\ Alone(e)
  BY <1>4, <1>5 DEF FinalVerify
<1>7. Releases(e)
  BY <1>1 DEF Releases
<1> QED BY <1>1, <1>6, <1>7, QuietStep

LEMMA RollbackStep ==
  ASSUME Inv, TypeOK', NEW e \in Executors, Rollback(e)
  PROVE  Inv'
<1> DEFINE y == [RolledBack(e) EXCEPT !.rb = "tried"]
           z == [RolledBack(e) EXCEPT !.rb = "failed", !.alive = FALSE]
<1>1. Quiet /\ UNCHANGED <<landed, undone>> /\ run[e].pc = "rollback"
  BY DEF Rollback, Quiet, At
<1>2. run[e] \in Local /\ "forward" \in Kinds /\ "over" \in TxnStates
  BY Known DEF Inv, Kinds, TxnStates
<1>3. /\ RolledBack(e) \in Local /\ RolledBack(e).pc = "verify" /\ RolledBack(e).inv = run[e].inv
      /\ RolledBack(e).commit = "COMMITTED" => run[e].commit = "COMMITTED"
  <2> DEFINE commit == IF run[e].commit = "NOT_STARTED" THEN "NOT_COMMITTED" ELSE run[e].commit
  <2>1. commit \in CommitStates /\ (commit = "COMMITTED" => run[e].commit = "COMMITTED")
    BY <1>2, Names DEF Local
  <2>2. RolledBack(e) = [run[e] EXCEPT !.pc = "verify", !.commit = commit]
    BY DEF RolledBack
  <2> HIDE DEF commit
  <2>3. "verify" \in Steps
    BY Names
  <2>4. RolledBack(e) \in Local
    BY <1>2, <2>1, <2>2, <2>3 DEF Local
  <2>5. /\ RolledBack(e).pc = "verify" /\ RolledBack(e).inv = run[e].inv
        /\ RolledBack(e).commit = commit
    BY <1>2, <2>2 DEF Local
  <2> QED BY <2>1, <2>4, <2>5
<1>4. /\ y \in Local /\ y.pc = "verify" /\ y.inv = run[e].inv /\ y.rb = "tried"
      /\ y.commit = "COMMITTED" => run[e].commit = "COMMITTED"
  BY <1>3 DEF Local
<1>5. /\ z \in Local /\ z.pc = "verify" /\ z.inv = run[e].inv /\ z.rb = "failed"
      /\ z.commit = "COMMITTED" => run[e].commit = "COMMITTED"
  BY <1>3 DEF Local
<1>6. \/ run[e].alive /\ Continue(e, y) /\ txn' = Sets(e, "forward", "over")
      \/ Continue(e, z) /\ txn' = Sets(e, "forward", Closed(e))
  BY DEF Rollback
<1> HIDE DEF y, z
<1>7. CASE run[e].alive /\ Continue(e, y) /\ txn' = Sets(e, "forward", "over")
  <2>1. txn'[e]["forward"] = "over" /\ e \notin landed
    BY <1>1, <1>2, <1>7, SetsOne DEF Inv, Call, Accurate
  <2>2. Sound(e, y)
    BY <1>1, <1>4, <2>1 DEF Sound, Inv, Call, Accurate
  <2>3. Call(e)' /\ Alone(e)
    BY <1>1, <1>4, <1>7, <2>2, ContinuedCall
  <2>4. Releases(e)
    BY <1>2, <1>7 DEF Releases
  <2> QED BY <1>1, <2>3, <2>4, QuietStep
<1>8. CASE Continue(e, z) /\ txn' = Sets(e, "forward", Closed(e))
  <2>1. txn'[e]["forward"] = Closed(e) /\ (txn[e]["forward"] = "over" => Closed(e) = "over")
    BY <1>2, <1>8, SetsOne DEF Inv, Closed
  <2>2. Sound(e, z)
    BY <1>1, <1>5, <2>1, SoundStill
  <2>3. Call(e)' /\ Alone(e)
    BY <1>1, <1>5, <1>8, <2>2, ContinuedCall
  <2>4. Closed(e) \in TxnStates /\ (Closed(e) \in {"held", "lost", "committing"} => Holding(e, "forward"))
    BY Known DEF Inv, Closed, Holding, TxnStates
  <2>5. Releases(e)
    BY <1>2, <1>8, <2>4 DEF Releases
  <2> QED BY <1>1, <2>3, <2>5, QuietStep
<1> QED BY <1>6, <1>7, <1>8

\* What the steps that look at the database, or give up the inverse, come down to.
LEMMA CheckStep ==
  ASSUME Inv, TypeOK', NEW e \in Executors, Quiet, Releases(e), run[e].pc \notin {"recheck", "postlock"},
         Call(e)' /\ Alone(e)
  PROVE  Inv'
BY QuietStep

LEMMA InverseFailsStep ==
  ASSUME Inv, TypeOK', NEW e \in Executors, Quiet, Releases(e), InverseFails(e),
         run[e].pc \notin {"recheck", "postlock", "done"}, txn'[e]["forward"] = txn[e]["forward"]
  PROVE  Inv'
<1> DEFINE y == [run[e] EXCEPT !.inv = "tried", !.restoration = "FAILED"]
<1>1. run[e] \in Local
  BY Known DEF Inv
<1>2. y.commit = run[e].commit /\ y.rb = run[e].rb /\ y.inv = "tried"
  BY <1>1 DEF Local
<1>3. UNCHANGED <<landed, undone>>
  BY DEF Quiet
<1> HIDE DEF y
<1>4. Sound(e, y)
  BY <1>2, <1>3, SoundStill
<1>5. Call(e)' /\ Alone(e)
  BY <1>4, InverseFailsCall DEF y
<1> QED BY <1>5, CheckStep

LEMMA JudgementStep ==
  ASSUME Inv, TypeOK', NEW e \in Executors,
         VerifyRestoration(e) \/ VerifyAfterInverse(e) \/ VerifyRestore(e)
  PROVE  Inv'
<1>1. /\ Quiet /\ UNCHANGED <<landed, undone, txn>>
      /\ run[e].pc \in {"verify", "verifyundo", "verifyrestore"}
  BY DEF VerifyRestoration, VerifyAfterInverse, VerifyRestore, Quiet, At
<1>2. run[e] \in Local /\ run[e] \in Locals(e)
  BY Known DEF Inv
<1>3. Releases(e)
  BY <1>1 DEF Releases
<1>4. ASSUME NEW y \in Local, y.applied = run[e].applied, y.commit = run[e].commit, y.inv = run[e].inv,
             y.rb \in {"tried", "verified"} => run[e].rb \in {"tried", "verified"}
      PROVE  y \in Locals(e) /\ Sound(e, y)
  BY <1>1, <1>2, <1>4, LocalsOf, SoundStill
<1>5. CASE VerifyRestoration(e)
  <2>1. PICK v \in Restorations :
          LET y == [run[e] EXCEPT !.restoration = v,
                      !.rb = IF @ = "tried" /\ v = "VERIFIED" THEN "verified" ELSE @]
          IN  IF v = "FAILED" /\ plan[e].kind = "reversible"
              THEN Continue(e, [y EXCEPT !.pc = "undo"]) ELSE Judged(e, y)
    BY <1>5 DEF VerifyRestoration
  <2> DEFINE rb == IF run[e].rb = "tried" /\ v = "VERIFIED" THEN "verified" ELSE run[e].rb
             y == [run[e] EXCEPT !.restoration = v, !.rb = rb]
             z == [y EXCEPT !.pc = "undo"]
  <2>2. Continue(e, z) \/ Judged(e, y)
    BY <2>1
  <2>3. /\ rb \in {"no", "tried", "failed", "verified"}
        /\ rb \in {"tried", "verified"} => run[e].rb \in {"tried", "verified"}
    BY <1>2 DEF Local
  <2> HIDE DEF rb
  <2>4. /\ y \in Local /\ y.applied = run[e].applied /\ y.commit = run[e].commit
        /\ y.inv = run[e].inv /\ y.rb = rb
    BY <1>2, <2>3 DEF Local
  <2> HIDE DEF y
  <2>5. /\ z \in Local /\ z.applied = run[e].applied /\ z.commit = run[e].commit
        /\ z.inv = run[e].inv /\ z.rb = rb /\ z.pc = "undo"
    BY <2>4, Names DEF Local
  <2> HIDE DEF z
  <2>6. y \in Locals(e) /\ Sound(e, y) /\ Sound(e, z)
    BY <1>4, <2>3, <2>4, <2>5
  <2>7. Call(e)' /\ Alone(e)
    BY <1>1, <2>2, <2>5, <2>6, ContinuedCall, JudgedCall
  <2> QED BY <1>1, <1>3, <2>7, CheckStep
<1>6. CASE VerifyAfterInverse(e)
  <2>1. PICK v \in Restorations : Judged(e, [run[e] EXCEPT !.restoration = v])
    BY <1>6 DEF VerifyAfterInverse
  <2> DEFINE y == [run[e] EXCEPT !.restoration = v]
  <2>2. /\ y \in Local /\ y.applied = run[e].applied /\ y.commit = run[e].commit
        /\ y.inv = run[e].inv /\ y.rb = run[e].rb
    BY <1>2 DEF Local
  <2>3. Judged(e, y)
    BY <2>1
  <2> HIDE DEF y
  <2>4. Call(e)' /\ Alone(e)
    BY <1>1, <1>4, <2>2, <2>3, JudgedCall
  <2> QED BY <1>1, <1>3, <2>4, CheckStep
<1>7. CASE VerifyRestore(e)
  <2>1. PICK v \in Restorations :
          Conclude(e, [run[e] EXCEPT !.restoration = v, !.ext = IF v = "VERIFIED" THEN "verified" ELSE @])
    BY <1>7 DEF VerifyRestore
  <2> DEFINE ext == IF v = "VERIFIED" THEN "verified" ELSE run[e].ext
             y == [run[e] EXCEPT !.restoration = v, !.ext = ext]
  <2>2. ext \in {"no", "tried", "failed", "verified"}
    BY <1>2 DEF Local
  <2>3. Conclude(e, y)
    BY <2>1
  <2> HIDE DEF ext
  <2>4. /\ y \in Local /\ y.applied = run[e].applied /\ y.commit = run[e].commit
        /\ y.inv = run[e].inv /\ y.rb = run[e].rb
    BY <1>2, <2>2 DEF Local
  <2> HIDE DEF y
  <2>5. Call(e)' /\ Alone(e)
    BY <1>4, <2>3, <2>4, ConcludedCall
  <2> QED BY <1>1, <1>3, <2>5, CheckStep
<1> QED BY <1>5, <1>6, <1>7

LEMMA RequestInverseStep ==
  ASSUME Inv, TypeOK', NEW e \in Executors, RequestInverse(e)
  PROVE  Inv'
<1>1. Quiet /\ UNCHANGED <<landed, undone>> /\ run[e].pc = "undo"
  BY DEF RequestInverse, Quiet, At
<1>2. run[e] \in Local /\ {"forward", "inverse"} \subseteq Kinds /\ "waiting" \in TxnStates
  BY Known DEF Inv, Kinds, TxnStates
<1>3. CASE InverseFails(e) /\ UNCHANGED txn
  <2>1. Releases(e)
    BY <1>3 DEF Releases
  <2> QED BY <1>1, <1>3, <2>1, InverseFailsStep
<1>4. CASE /\ Continue(e, [run[e] EXCEPT !.pc = "undowait", !.inv = "tried"])
           /\ txn' = Sets(e, "inverse", "waiting")
  <2> DEFINE y == [run[e] EXCEPT !.pc = "undowait", !.inv = "tried"]
  <2>1. /\ y \in Local /\ y.pc = "undowait" /\ y.commit = run[e].commit
        /\ y.rb = run[e].rb /\ y.inv = "tried"
    BY <1>2, Names DEF Local
  <2>2. Continue(e, y)
    BY <1>4
  <2> HIDE DEF y
  <2>3. txn'[e]["forward"] = txn[e]["forward"]
    BY <1>2, <1>4, SetsOne DEF Inv
  <2>4. Sound(e, y)
    BY <1>1, <2>1, <2>3, SoundStill
  <2>5. Call(e)' /\ Alone(e)
    BY <1>1, <2>1, <2>2, <2>4, ContinuedCall
  <2>6. Releases(e)
    BY <1>2, <1>4 DEF Releases
  <2> QED BY <1>1, <2>5, <2>6, CheckStep
<1> QED BY <1>3, <1>4 DEF RequestInverse

LEMMA AcquireInverseStep ==
  ASSUME Inv, TypeOK', NEW e \in Executors, AcquireInverse(e)
  PROVE  Inv'
<1>1. Quiet /\ UNCHANGED <<landed, undone>> /\ run[e].pc = "undowait"
  BY DEF AcquireInverse, Quiet, At
<1>2. {"forward", "inverse"} \subseteq Kinds /\ "over" \in TxnStates
  BY DEF Kinds, TxnStates
<1>3. CASE InverseFails(e) /\ txn' = Sets(e, "inverse", "over")
  <2>1. txn'[e]["forward"] = txn[e]["forward"]
    BY <1>2, <1>3, SetsOne DEF Inv
  <2>2. Releases(e)
    BY <1>2, <1>3 DEF Releases
  <2> QED BY <1>1, <1>3, <2>1, <2>2, InverseFailsStep
<1>4. CASE ~TargetLocked /\ Goto(e, "undocheck") /\ txn' = Sets(e, "inverse", "held")
  <2>1. txn'[e]["forward"] = txn[e]["forward"] /\ txn'[e]["inverse"] = "held"
    BY <1>2, <1>4, SetsOne DEF Inv
  <2>2. Call(e)' /\ Alone(e)
    BY <1>1, <1>4, <2>1, GotoCall DEF Steps
  <2> QED BY <1>1, <1>2, <1>4, <2>2, AcquireStep
<1> QED BY <1>3, <1>4 DEF AcquireInverse

LEMMA CheckInverseStep ==
  ASSUME Inv, TypeOK', NEW e \in Executors, CheckInverse(e)
  PROVE  Inv'
<1>1. /\ Quiet /\ UNCHANGED <<landed, undone>> /\ run[e].pc = "undocheck"
      /\ txn[e]["inverse"] = "held"
  BY DEF CheckInverse, Quiet, At, Inv, Call, Placed
<1>2. {"forward", "inverse"} \subseteq Kinds /\ "over" \in TxnStates
  BY DEF Kinds, TxnStates
<1>3. CASE InverseFails(e) /\ txn' = Sets(e, "inverse", "over")
  <2>1. txn'[e]["forward"] = txn[e]["forward"]
    BY <1>2, <1>3, SetsOne DEF Inv
  <2>2. Releases(e)
    BY <1>2, <1>3 DEF Releases
  <2> QED BY <1>1, <1>3, <2>1, <2>2, InverseFailsStep
<1>4. CASE Goto(e, "undocommit") /\ UNCHANGED txn
  <2>1. Call(e)' /\ Alone(e)
    BY <1>1, <1>4, GotoCall DEF Steps
  <2>2. Releases(e)
    BY <1>4 DEF Releases
  <2> QED BY <1>1, <2>1, <2>2, CheckStep
<1> QED BY <1>3, <1>4 DEF CheckInverse

LEMMA CommitInverseStep ==
  ASSUME Inv, TypeOK', NEW e \in Executors, CommitInverse(e)
  PROVE  Inv'
<1>1. /\ UNCHANGED <<plan, disturbed, drifts>> /\ run[e].pc = "undocommit"
      /\ txn[e]["inverse"] = "held" /\ Holding(e, "inverse")
  BY DEF CommitInverse, At, Inv, Call, Placed, Holding
<1>2. /\ run[e] \in Local /\ {"forward", "inverse"} \subseteq Kinds
      /\ {"over", "lost", "committing"} \subseteq TxnStates
  BY Known DEF Inv, Kinds, TxnStates
<1>3. CASE Land(e, "inverse") /\ txn' = Sets(e, "inverse", "over") /\ Goto(e, "reverify")
  <2> DEFINE y == [run[e] EXCEPT !.pc = "reverify"]
  <2>1. /\ y \in Local /\ y.pc = "reverify" /\ y.commit = run[e].commit
        /\ y.rb = run[e].rb /\ y.inv = run[e].inv
    BY <1>2 DEF Local, Steps
  <2>2. Continue(e, y)
    BY <1>3 DEF Goto
  <2> HIDE DEF y
  <2>3. landed' = landed /\ e \in undone' /\ txn'[e]["forward"] = txn[e]["forward"]
    BY <1>2, <1>3, SetsOne DEF Land, Inv
  <2>4. Sound(e, y)
    BY <2>1, <2>3 DEF Sound, Inv, Call, Accurate
  <2>5. Call(e)' /\ Alone(e)
    BY <1>1, <2>1, <2>2, <2>3, <2>4, ContinuedCall
  <2> QED BY <1>1, <1>2, <1>3, <2>5, LandStep
<1>4. CASE /\ InverseFails(e) /\ UNCHANGED <<db, landed, undone>>
           /\ \E s \in {"over", "lost", "committing"} : txn' = Sets(e, "inverse", s)
  <2>1. PICK s \in TxnStates : txn' = Sets(e, "inverse", s)
    BY <1>2, <1>4
  <2>2. txn'[e]["forward"] = txn[e]["forward"]
    BY <1>2, <2>1, SetsOne DEF Inv
  <2>3. Releases(e)
    BY <1>1, <1>2, <2>1 DEF Releases
  <2>4. Quiet
    BY <1>1, <1>4 DEF Quiet
  <2> QED BY <1>1, <1>4, <2>2, <2>3, <2>4, InverseFailsStep
<1> QED BY <1>3, <1>4 DEF CommitInverse

LEMMA VerifyInverseStep ==
  ASSUME Inv, TypeOK', NEW e \in Executors, VerifyInverse(e)
  PROVE  Inv'
<1>1. Quiet /\ UNCHANGED <<landed, undone, txn>> /\ run[e].pc = "reverify"
  BY DEF VerifyInverse, Quiet, At
<1>2. run[e] \in Local /\ e \in undone
  BY <1>1, Known DEF Inv, Call, Accurate
<1>3. Releases(e)
  BY <1>1 DEF Releases
<1>4. CASE InverseFails(e)
  BY <1>1, <1>3, <1>4, InverseFailsStep
<1>5. CASE Continue(e, [run[e] EXCEPT !.pc = "verifyundo", !.inv = "verified"])
  <2> DEFINE y == [run[e] EXCEPT !.pc = "verifyundo", !.inv = "verified"]
  <2>1. /\ y \in Local /\ y.pc = "verifyundo" /\ y.commit = run[e].commit
        /\ y.rb = run[e].rb /\ y.inv = "verified"
    BY <1>2, Names DEF Local
  <2>2. Continue(e, y)
    BY <1>5
  <2> HIDE DEF y
  <2>3. Sound(e, y)
    BY <1>1, <1>2, <2>1 DEF Sound, Inv, Call, Accurate
  <2>4. Call(e)' /\ Alone(e)
    BY <1>1, <1>2, <2>1, <2>2, <2>3, ContinuedCall
  <2> QED BY <1>1, <1>3, <2>4, CheckStep
<1> QED BY <1>4, <1>5 DEF VerifyInverse

\* A write without the target lock disturbs every call that is past its last observation.
LEMMA UnlockedWrite ==
  ASSUME Inv, TypeOK', NEW e \in Executors, UNCHANGED <<plan, txn, landed, undone>>,
         disturbed' = disturbed \cup Observed, Alone(e), Call(e)',
         run[e].pc \notin {"recheck", "postlock"}
  PROVE  Inv'
<1>1. Exclusive'
  BY DEF Inv, Exclusive, Holding
<1>2. Observed' \subseteq Observed
  BY DEF Observed, Holding, Alone
<1>3. Steady'
  BY <1>2 DEF Steady
<1>4. \A f \in Executors : Call(f)'
  BY OtherCalls
<1> QED BY <1>1, <1>3, <1>4 DEF Inv

LEMMA ExecuteRestoreStep ==
  ASSUME Inv, TypeOK', NEW e \in Executors, ExecuteRestoreCapability(e)
  PROVE  Inv'
<1> DEFINE y == [run[e] EXCEPT !.ext = "failed", !.restoration = "AMBIGUOUS"]
           z == [run[e] EXCEPT !.ext = "tried", !.pc = "verifyrestore"]
<1>1. UNCHANGED <<plan, txn, landed, undone, drifts>> /\ run[e].pc = "restore"
  BY DEF ExecuteRestoreCapability, At
<1>2. run[e] \in Local /\ run[e] \in Locals(e)
  BY Known DEF Inv
<1>3. /\ y \in Local /\ y.applied = run[e].applied /\ y.commit = run[e].commit
      /\ y.rb = run[e].rb /\ y.inv = run[e].inv
  BY <1>2, Names DEF Local
<1>4. /\ z \in Local /\ z.pc = "verifyrestore" /\ z.commit = run[e].commit
      /\ z.rb = run[e].rb /\ z.inv = run[e].inv
  BY <1>2, Names DEF Local
<1>5. \/ Conclude(e, y) /\ UNCHANGED <<db, disturbed>>
      \/ Continue(e, z) /\ disturbed' = disturbed \cup Observed
  BY DEF ExecuteRestoreCapability
<1> HIDE DEF y, z
<1>6. Sound(e, y) /\ Sound(e, z)
  BY <1>1, <1>3, <1>4, SoundStill
<1>7. CASE Conclude(e, y) /\ UNCHANGED <<db, disturbed>>
  <2>1. y \in Locals(e)
    BY <1>2, <1>3, LocalsOf
  <2>2. Call(e)' /\ Alone(e)
    BY <1>6, <1>7, <2>1, ConcludedCall
  <2>3. Quiet /\ Releases(e)
    BY <1>1, <1>7 DEF Quiet, Releases
  <2> QED BY <1>1, <2>2, <2>3, CheckStep
<1>8. CASE Continue(e, z) /\ disturbed' = disturbed \cup Observed
  <2>1. Call(e)' /\ Alone(e)
    BY <1>1, <1>4, <1>6, <1>8, ContinuedCall
  <2> QED BY <1>1, <1>8, <2>1, UnlockedWrite
<1> QED BY <1>5, <1>7, <1>8

LEMMA DriftStep ==
  ASSUME Inv, TypeOK', NEW r \in Drifting, Drift(r)
  PROVE  Inv'
<1>1. UNCHANGED <<plan, run, txn, receipt, landed, undone>> /\ disturbed' = disturbed \cup Observed
  BY DEF Drift
<1>2. Exclusive'
  BY <1>1 DEF Inv, Exclusive, Holding
<1>3. Observed' = Observed
  BY <1>1 DEF Observed, Holding
<1>4. Steady'
  BY <1>1, <1>3 DEF Steady
<1>5. \A f \in Executors : Call(f)'
  BY <1>1 DEF Inv, Call, Placed, Accurate, Truthful
<1> QED BY <1>2, <1>4, <1>5 DEF Inv

LEMMA FinishOrphanStep ==
  ASSUME Inv, TypeOK', NEW e \in Executors, NEW k \in Kinds, FinishOrphan(e, k)
  PROVE  Inv'
<1>1. /\ UNCHANGED <<plan, run, snap, receipt, disturbed, drifts>>
      /\ txn[e][k] \in {"lost", "committing"} /\ txn' = Sets(e, k, "over")
      /\ UNCHANGED <<db, landed, undone>> \/ (txn[e][k] = "committing" /\ Land(e, k))
  BY DEF FinishOrphan
<1>2. "over" \in TxnStates /\ Alone(e) /\ Holding(e, k)
  BY <1>1 DEF TxnStates, Alone, Holding
<1>3. txn'[e][k] = "over" /\ \A l \in Kinds \ {k} : txn'[e][l] = txn[e][l]
  BY <1>1, SetsOne DEF Inv
<1>4. /\ run[e].pc \notin {"admit", "observe", "begin", "wait", "recheck", "postlock", "forward"}
           \/ k = "inverse"
      /\ run[e].pc \in {"undocheck", "undocommit"} => k # "inverse"
  BY <1>1 DEF Inv, Call, Placed, Kinds
<1>5. k = "forward" => e \notin landed /\ ~(run[e].rb \in {"tried", "verified"})
                       /\ ~(run[e].pc = "rollback" /\ run[e].alive)
  BY <1>1 DEF Inv, Call, Accurate
<1>6. /\ k = "forward" => undone' = undone
      /\ k = "inverse" => landed' = landed
      /\ landed \subseteq landed' /\ undone \subseteq undone'
  BY <1>1 DEF Land
<1>7. {"forward", "inverse"} = Kinds
  BY DEF Kinds
<1>8. Placed(e)'
  BY <1>1, <1>3, <1>4, <1>7 DEF Inv, Call, Placed
<1>9. Accurate(e)'
  BY <1>1, <1>3, <1>5, <1>6, <1>7 DEF Inv, Call, Accurate
<1>10. Truthful(e)'
  BY <1>1, <1>3, <1>5, <1>6, <1>7 DEF Inv, Call, Truthful
<1>11. Call(e)'
  BY <1>8, <1>9, <1>10 DEF Call
<1>12. CASE UNCHANGED <<db, landed, undone>>
  <2>1. Quiet /\ Releases(e)
    BY <1>1, <1>2, <1>12 DEF Quiet, Releases
  <2>2. run[e].pc \in {"recheck", "postlock"} => run'[e].pc = "postlock" \/ db = plan[e].pre
    <3>1. CASE k = "forward"
      BY <1>4, <3>1
    <3>2. CASE k = "inverse"
      BY <1>1, <1>2, <3>2 DEF Inv, Exclusive, Call, Placed, Holding, Kinds
    <3> QED BY <1>7, <3>1, <3>2
  <2> QED BY <1>2, <1>11, <2>1, <2>2, QuietStep
<1>13. CASE Land(e, k)
  BY <1>1, <1>2, <1>11, <1>13, LandStep
<1> QED BY <1>1, <1>12, <1>13

-----------------------------------------------------------------------------
(* The theorems *)

LEMMA InitInv == Init => Inv
<1> SUFFICES ASSUME Init PROVE Inv
  OBVIOUS
<1>1. TypeOK
  BY InitTyped
<1>2. \A e \in Executors : txn[e] = [k \in Kinds |-> "none"] /\ run[e] = Start /\ receipt[e] = NoReceipt
  BY DEF Init
<1>3. \A e \in Executors, k \in Kinds : ~Holding(e, k)
  BY <1>2 DEF Holding
<1>4. Exclusive /\ Steady
  BY <1>3 DEF Exclusive, Steady, Observed, Kinds
<1>5. ASSUME NEW e \in Executors PROVE Call(e)
  <2>1. txn[e]["forward"] = "none" /\ e \notin landed
    BY <1>2 DEF Init, Kinds
  <2>2. /\ run[e].pc = "admit" /\ run[e].commit = "NOT_STARTED"
        /\ run[e].rb = "no" /\ run[e].inv = "no"
    BY <1>2 DEF Start
  <2>3. receipt[e] = NoReceipt /\ NoReceipt \notin Receipts
    BY <1>2 DEF NoReceipt, Receipts
  <2> QED BY <2>1, <2>2, <2>3 DEF Call, Placed, Accurate, Truthful
<1> QED BY <1>1, <1>4, <1>5 DEF Inv

LEMMA NextInv == Inv /\ [Next]_vars => Inv'
<1> SUFFICES ASSUME Inv, [Next]_vars PROVE Inv'
  OBVIOUS
<1>1. TypeOK'
  BY NextTyped DEF Inv
<1>2. ASSUME NEW e \in Executors, Execute(e) PROVE Inv'
  BY <1>1, <1>2, AdmitStep, RequestTargetLockStep, AcquireTargetLockStep, RecheckStep, ApplyStep,
     CommitStep, FinalVerifyStep, RollbackStep, JudgementStep, RequestInverseStep,
     AcquireInverseStep, CheckInverseStep, CommitInverseStep, VerifyInverseStep,
     ExecuteRestoreStep DEF Execute
<1>3. CASE UNCHANGED vars
  BY <1>3, <1>1 DEF vars, Inv, Exclusive, Holding, Steady, Observed, Call, Placed, Accurate, Truthful
<1> QED BY <1>1, <1>2, <1>3, FinishOrphanStep, DriftStep DEF Next

LEMMA Invariance == Spec => []Inv
BY InitInv, NextInv, PTL DEF Spec

\* Whatever breaks, and however many calls run at once, a receipt claims no more
\* than the server has done or may yet do.
THEOREM ReceiptsTruthful == Spec => []ReceiptTruthful
<1>1. Inv => ReceiptTruthful
  BY DEF Inv, Call, Truthful, ReceiptTruthful
<1> QED BY <1>1, Invariance, PTL

LEMMA OnlyHoldersLand ==
  ASSUME Inv, Next, NEW e \in Executors, e \in landed' \ landed
  PROVE  e \in Observed
<1>1. CASE \E f \in Executors : Commit(f)
  <2>1. PICK f \in Executors : Commit(f)
    BY <1>1
  <2>2. f = e /\ run[e].pc = "forward"
    BY <2>1 DEF Commit, Land, At
  <2>3. txn[e]["forward"] = "held"
    BY <2>2 DEF Inv, Call, Placed
  <2> QED BY <2>2, <2>3 DEF Observed, Holding
<1>2. CASE \E f \in Executors, k \in Kinds : FinishOrphan(f, k)
  <2>1. PICK f \in Executors, k \in Kinds : FinishOrphan(f, k)
    BY <1>2
  <2>2. f = e /\ k = "forward" /\ txn[e]["forward"] \in {"lost", "committing"}
    BY <2>1 DEF FinishOrphan, Land
  <2>3. run[e].pc \notin {"recheck", "postlock"}
    BY <2>2 DEF Inv, Call, Placed
  <2> QED BY <2>2, <2>3 DEF Observed, Holding
<1>3. CASE \E f \in Executors : CommitInverse(f)
  BY <1>3 DEF CommitInverse, Land
<1>4. (\/ \E f \in Executors : Commit(f) \/ CommitInverse(f)
       \/ \E f \in Executors, k \in Kinds : FinishOrphan(f, k)) \/ UNCHANGED landed
  BY DEF Next, Execute, Admit, Observe, RequestTargetLock, AcquireTargetLock, Revalidate,
         ObserveAfterLock, ApplyOperation, FinalVerify, Rollback, VerifyRestoration, RequestInverse,
         AcquireInverse, CheckInverse, VerifyInverse, VerifyAfterInverse, ExecuteRestoreCapability,
         VerifyRestore, Drift, Quiet
<1> QED BY <1>1, <1>2, <1>3, <1>4

\* For any calls, plans and rights: a plan that is committed, at once or by the
\* server later, meets the prestate it was made for, unless somebody has written
\* without the target lock since the call's last observation.
THEOREM CommitsOnPlannedState == Spec => ForwardOnPlannedState
<1>1. Inv /\ [Next]_vars =>
        [\A e \in Executors : e \in (landed' \ landed) \ disturbed => db = plan[e].pre]_vars
  <2> SUFFICES ASSUME Inv, Next, NEW e \in Executors, e \in (landed' \ landed) \ disturbed
               PROVE  db = plan[e].pre
    BY DEF vars
  <2>1. e \in Observed \ disturbed
    BY OnlyHoldersLand
  <2> QED BY <2>1 DEF Inv, Steady
<1> QED BY <1>1, Invariance, PTL DEF Spec, ForwardOnPlannedState

\* The target lock serializes the transactions of all calls, forward and inverse, the
\* ones whose client is gone included.
THEOREM TargetLockExclusive == Spec => []Exclusive
<1>1. Inv => Exclusive
  BY DEF Inv
<1> QED BY <1>1, Invariance, PTL
=============================================================================
