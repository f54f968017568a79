------------------------- MODULE RecoveryStoreProofs -------------------------
(***************************************************************************)
(* Proofs about RecoveryStore, for any number of epochs, controllers,      *)
(* artifacts, transitions and interruptions: an epoch authorizes one       *)
(* restore, "unconsumed" is never said in error, no two controllers wait   *)
(* for each other, and what readers see is the epoch of RecoveryEpoch.     *)
(***************************************************************************)
EXTENDS RecoveryStore, SequenceTheorems, TLAPS

\* What an operation may write: a document and a content its validator takes.
Writes ==
  {<<"made", n>> : n \in 1..4} \cup {<<"manifest", body>> : body \in Bodies}
    \cup {<<"private", "written">>} \cup {<<"binding", a>> : a \in {"PENDING"} \cup Artifacts}
    \cup {<<"ledger", t>> : t \in {"UNCONSUMED"} \cup Transitions}
    \cup {<<f, chain>> : f \in {"spool", "frames"}, chain \in Chains}
    \cup {<<"record", r>> : r \in [body : Bodies, digest : Bodies]}

Ops == {"idle", "locking", "create", "bind", "bind_v2", "transition", "frame", "consume", "supersede"}
Exclusive == Ops \ {"idle", "locking", "create"}

Snapshots ==
  [st : States, art : {"PENDING", "ROW_BOUND"} \cup Artifacts,
   led : {"UNCONSUMED"} \cup Transitions, chain : Chains]

Calls ==
  [op : Ops, epoch : Epochs \cup {None}, locks : SUBSET Epochs, awaits : Epochs \cup {None},
   todo : Seq(Writes), before : Snapshots \cup {Absent}, told : Transitions \cup {Absent}]

Typed ==
  /\ disk \in [Epochs -> Documents]
  /\ interrupts \in 0..MaxInterrupts
  /\ permits \in [Epochs -> SUBSET Transitions]
  /\ claimed \in Epochs \cup {None}
  /\ call \in [Controllers -> Calls]
  /\ \A c \in Controllers :
       IF call[c].op = "idle" THEN call[c] = Idle ELSE call[c].epoch \in Epochs

\* A call holds the lock of the epoch it writes, but for its creation, and a
\* lock is held by one.  A second lock is of a greater reference.
Locked ==
  /\ \A c \in Controllers :
       /\ call[c].op \in Exclusive => call[c].epoch \in call[c].locks
       /\ call[c].op = "create" => call[c].locks = {}
       /\ call[c].awaits # None =>
            call[c].op = "locking" /\ \A e \in call[c].locks : e < call[c].awaits
       /\ call[c].op = "locking" =>
            /\ call[c].todo = <<>> /\ call[c].awaits \in Epochs
            /\ \E e \in Epochs : call[c].locks = {e} /\ call[c].epoch \in {e, call[c].awaits}
  /\ \A c, d \in Controllers : c # d => call[c].locks \cap call[d].locks = {}

\* What is left to write, by operation.
Planned ==
  \A c \in Controllers :
    LET todo == call[c].todo IN
    /\ \A i \in DOMAIN todo :
         /\ todo[i][1] = "made" => call[c].op = "create"
         /\ todo[i][1] = "made" /\ todo[i][2] = 1 => i = 1
         /\ todo[i][1] = "record" /\ call[c].op = "create" => i = Len(todo)
         /\ todo[i][1] = "binding" => call[c].op = "create" \/ todo[i][2] # "PENDING"
         /\ todo[i][1] = "ledger" =>
              \/ call[c].op = "create" /\ todo[i][2] = "UNCONSUMED"
              \/ call[c].op = "consume" /\ i = 1 /\ Len(todo) = 3 /\ todo[i][2] = call[c].told
    /\ call[c].op # "consume" => call[c].told = Absent
    /\ call[c].op = "consume" => call[c].told \in Transitions
    /\ call[c].op = "consume" /\ Len(todo) = 3 => Head(todo)[1] = "ledger"

\* A creation that has made its directory: nobody else is in the epoch, and
\* nobody reads it.
MakesFirst(c) == call[c].todo # <<>> /\ Head(call[c].todo)[1] = "made" /\ Head(call[c].todo)[2] = 1
Building(c) == call[c].op = "create" /\ call[c].todo # <<>> /\ ~MakesFirst(c)

Created ==
  /\ \A e \in Epochs :
       /\ disk[e].record # Absent => disk[e].made >= 1
       /\ disk[e].record = Absent => permits[e] = {} /\ disk[e].ledger \notin Transitions
  /\ \A c \in Controllers :
       /\ call[c].op \in Exclusive => disk[call[c].epoch].record # Absent
       /\ Building(c) => disk[call[c].epoch].record = Absent /\ disk[call[c].epoch].made >= 1
       /\ Building(c) => \A d \in Controllers \ {c} :
            Building(d) => call[d].epoch # call[c].epoch

\* A consumption has its epoch's ledger for itself, and only an epoch that is
\* bound is consumed.
Consumed ==
  /\ \A c \in Controllers : call[c].op = "consume" =>
       /\ Bound(call[c].epoch)
       /\ Len(call[c].todo) <= 3
       /\ disk[call[c].epoch].ledger =
            IF Len(call[c].todo) = 3 THEN "UNCONSUMED" ELSE call[c].told
  /\ \A e \in Epochs : disk[e].ledger \in Transitions => Bound(e)

IInv == Typed /\ Locked /\ Planned /\ Created /\ Consumed /\ OneRestore /\ UnconsumedIsTrue


-----------------------------------------------------------------------------
(* Documents *)

\* The documents of an epoch with one of them replaced.
Replaced(old, f, x) == [old EXCEPT ![f] = x]

\* A document is replaced, and the others of the epoch and all other epochs
\* stay as they are.
OneReplaced(e, f, x) ==
  /\ disk' \in [Epochs -> Documents]
  /\ \A o \in Epochs \ {e} : disk'[o] = disk[o]
  /\ disk'[e].made = IF f = "made" THEN x ELSE disk[e].made
  /\ disk'[e].binding = IF f = "binding" THEN x ELSE disk[e].binding
  /\ disk'[e].ledger = IF f = "ledger" THEN x ELSE disk[e].ledger
  /\ disk'[e].record = IF f = "record" THEN x ELSE disk[e].record
  /\ disk'[e].spool = IF f = "spool" THEN x ELSE disk[e].spool
  /\ disk'[e].frames = IF f = "frames" THEN x ELSE disk[e].frames

LEMMA WriteChanges ==
  ASSUME disk \in [Epochs -> Documents], NEW e \in Epochs, NEW f, NEW x,
         <<f, x>> \in Writes, NEW d, d = Replaced(disk[e], f, x), disk' = [disk EXCEPT ![e] = d]
  PROVE  OneReplaced(e, f, x)
<1>1. disk[e] \in Documents
  OBVIOUS
<1>2. d \in Documents =>
        disk' \in [Epochs -> Documents] /\ disk'[e] = d /\ \A o \in Epochs \ {e} : disk'[o] = disk[o]
  OBVIOUS
<1>3. CASE f = "made"
  <2>1. x \in Directories
    BY <1>3 DEF Writes, Directories
  <2>2. [disk[e] EXCEPT !.made = x] \in Documents
    BY <1>1, <2>1 DEF Documents
  <2>3. d = [disk[e] EXCEPT !.made = x]
    BY <1>3 DEF Replaced
  <2> QED
    BY <1>1, <1>2, <1>3, <2>2, <2>3 DEF Documents, OneReplaced
<1>4. CASE f = "manifest"
  <2>1. x \in Bodies
    BY <1>4 DEF Writes
  <2>2. [disk[e] EXCEPT !.manifest = x] \in Documents
    BY <1>1, <2>1 DEF Documents
  <2>3. d = [disk[e] EXCEPT !.manifest = x]
    BY <1>4 DEF Replaced
  <2> QED
    BY <1>1, <1>2, <1>4, <2>2, <2>3 DEF Documents, OneReplaced
<1>5. CASE f = "private"
  <2>1. x = "written"
    BY <1>5 DEF Writes
  <2>2. [disk[e] EXCEPT !.private = x] \in Documents
    BY <1>1, <2>1 DEF Documents
  <2>3. d = [disk[e] EXCEPT !.private = x]
    BY <1>5 DEF Replaced
  <2> QED
    BY <1>1, <1>2, <1>5, <2>2, <2>3 DEF Documents, OneReplaced
<1>6. CASE f = "binding"
  <2>1. x \in {"PENDING"} \cup Artifacts
    BY <1>6 DEF Writes
  <2>2. [disk[e] EXCEPT !.binding = x] \in Documents
    BY <1>1, <2>1 DEF Documents
  <2>3. d = [disk[e] EXCEPT !.binding = x]
    BY <1>6 DEF Replaced
  <2> QED
    BY <1>1, <1>2, <1>6, <2>2, <2>3 DEF Documents, OneReplaced
<1>7. CASE f = "ledger"
  <2>1. x \in {"UNCONSUMED"} \cup Transitions
    BY <1>7 DEF Writes
  <2>2. [disk[e] EXCEPT !.ledger = x] \in Documents
    BY <1>1, <2>1 DEF Documents
  <2>3. d = [disk[e] EXCEPT !.ledger = x]
    BY <1>7 DEF Replaced
  <2> QED
    BY <1>1, <1>2, <1>7, <2>2, <2>3 DEF Documents, OneReplaced
<1>8. CASE f = "spool"
  <2>1. x \in Chains
    BY <1>8 DEF Writes
  <2>2. [disk[e] EXCEPT !.spool = x] \in Documents
    BY <1>1, <2>1 DEF Documents
  <2>3. d = [disk[e] EXCEPT !.spool = x]
    BY <1>8 DEF Replaced
  <2> QED
    BY <1>1, <1>2, <1>8, <2>2, <2>3 DEF Documents, OneReplaced
<1>9. CASE f = "frames"
  <2>1. x \in Chains
    BY <1>9 DEF Writes
  <2>2. [disk[e] EXCEPT !.frames = x] \in Documents
    BY <1>1, <2>1 DEF Documents
  <2>3. d = [disk[e] EXCEPT !.frames = x]
    BY <1>9 DEF Replaced
  <2> QED
    BY <1>1, <1>2, <1>9, <2>2, <2>3 DEF Documents, OneReplaced
<1>10. CASE f = "record"
  <2>1. x \in [body : Bodies, digest : Bodies]
    BY <1>10 DEF Writes
  <2>2. [disk[e] EXCEPT !.record = x] \in Documents
    BY <1>1, <2>1 DEF Documents
  <2>3. d = [disk[e] EXCEPT !.record = x]
    BY <1>10 DEF Replaced
  <2> QED
    BY <1>1, <1>2, <1>10, <2>2, <2>3 DEF Documents, OneReplaced
<1> QED
  BY <1>3, <1>4, <1>5, <1>6, <1>7, <1>8, <1>9, <1>10 DEF Writes

\* What can be read of an epoch is there in full.
LEMMA LoadsFacts ==
  ASSUME Typed, NEW e \in Epochs, Loads(e)
  PROVE  /\ disk[e].record \in [body : Bodies, digest : Bodies] /\ disk[e].record # Absent
         /\ Body(e) \in Bodies
         /\ disk[e].spool \in Chains /\ disk[e].spool = disk[e].frames
         /\ disk[e].ledger \in {"UNCONSUMED"} \cup Transitions
         /\ disk[e].binding \in {"PENDING", Absent} \cup Artifacts
<1>1. disk[e] \in Documents
  BY DEF Typed
<1>2. Absent \notin {disk[e].manifest, disk[e].private, disk[e].ledger, disk[e].spool, disk[e].record}
  BY DEF Loads, LayoutComplete
<1>3. disk[e].record \in [body : Bodies, digest : Bodies] /\ disk[e].record # Absent
  BY <1>1, <1>2 DEF Documents
<1> QED
  BY <1>1, <1>2, <1>3 DEF Documents, Loads, FramesAgree, Body

\* A chain of frames is a sequence of four at most.
LEMMA ChainIsSeq ==
  ASSUME NEW chain
  PROVE  chain \in Chains <=> chain \in Seq(Stages) /\ Len(chain) <= 4
<1>1. ASSUME chain \in Chains PROVE chain \in Seq(Stages) /\ Len(chain) <= 4
  <2>1. PICK n \in 0..4 : chain \in [1..n -> Stages]
    BY <1>1 DEF Chains
  <2>2. n \in Nat
    OBVIOUS
  <2>3. chain \in Seq(Stages)
    BY <2>1, <2>2, SeqDef
  <2>4. Len(chain) = n
    BY <2>1, <2>2, <2>3, LenProperties
  <2> QED
    BY <2>1, <2>3, <2>4
<1>2. ASSUME chain \in Seq(Stages), Len(chain) <= 4 PROVE chain \in Chains
  <2>1. Len(chain) \in Nat /\ chain \in [1..Len(chain) -> Stages]
    BY <1>2, LenProperties
  <2>2. Len(chain) \in 0..4
    BY <1>2, <2>1
  <2> QED
    BY <2>1, <2>2 DEF Chains
<1> QED
  BY <1>1, <1>2

\* The frame that may come next still fits.
LEMMA ChainGrows ==
  ASSUME Typed, NEW e \in Epochs, Loads(e), NEW stage \in Stages, StageAllowed(e, stage)
  PROVE  Append(disk[e].spool, stage) \in Chains
<1> DEFINE chain == disk[e].spool
<1>1. chain \in Seq(Stages) /\ Len(chain) <= 4 /\ Len(chain) \in Nat /\ DOMAIN chain = 1..Len(chain)
  BY LoadsFacts, ChainIsSeq, LenProperties
<1>2. Last(chain) \notin {"COMMIT", "ABANDON"}
  BY DEF StageAllowed
<1>3. Len(chain) # 4
  <2> SUFFICES ASSUME Len(chain) = 4 PROVE FALSE
    OBVIOUS
  <2>1. chain[4] \notin {"COMMIT", "ABANDON"}
    <3>1. chain # <<>>
      OBVIOUS
    <3> QED
      BY <1>2, <3>1 DEF Last
  <2>2. \A i \in 1..4 : chain[i] \in Follows(IF i = 1 THEN "NONE" ELSE chain[i - 1])
    <3>1. chain = disk[e].frames
      BY LoadsFacts
    <3>2. chain # <<"ABANDON">>
      <4>1. Len(<<"ABANDON">>) = 1
        OBVIOUS
      <4> QED
        BY <4>1
    <3>3. \A i \in DOMAIN disk[e].frames :
            disk[e].frames[i] \in Follows(IF i = 1 THEN "NONE" ELSE disk[e].frames[i - 1])
      BY <3>1, <3>2 DEF Loads, FramesAgree
    <3> QED
      BY <1>1, <3>1, <3>3
  <2> HIDE DEF chain
  <2>3. chain[1] = "EPOCH_READY"
    BY <2>2 DEF Follows
  <2>4. chain[2] \in {"RUNNER_STARTED", "ABANDON"}
    <3>1. chain[2] \in Follows(chain[1])
      BY <2>2
    <3> QED
      BY <2>3, <3>1 DEF Follows
  <2>5. chain[3] \in {"RESTORE_BEGIN", "ABANDON"}
    <3>1. chain[3] \in Follows(chain[2])
      BY <2>2
    <3> QED
      BY <2>4, <3>1 DEF Follows
  <2>6. chain[4] \in {"COMMIT", "ABANDON"}
    <3>1. chain[4] \in Follows(chain[3])
      BY <2>2
    <3> QED
      BY <2>5, <3>1 DEF Follows
  <2> QED
    BY <2>1, <2>6
<1> HIDE DEF chain
<1>4. Append(chain, stage) \in Seq(Stages) /\ Len(Append(chain, stage)) = Len(chain) + 1
  BY <1>1
<1>5. Len(Append(chain, stage)) <= 4
  BY <1>1, <1>3, <1>4
<1>6. Append(chain, stage) \in Chains
  BY <1>4, <1>5, ChainIsSeq
<1> QED
  BY <1>6 DEF chain

-----------------------------------------------------------------------------
(* The initial state *)

LEMMA IdleCall ==
  /\ Idle \in Calls /\ Idle.op = "idle" /\ Idle.locks = {} /\ Idle.awaits = None
  /\ Idle.todo = <<>> /\ DOMAIN Idle.todo = {} /\ Idle.told = Absent
<1>1. <<>> \in Seq(Writes)
  BY EmptySeq
<1> QED
  BY <1>1 DEF Idle, Calls, Ops

LEMMA InitIInv == Init => IInv
<1> SUFFICES ASSUME Init PROVE IInv
  OBVIOUS
<1>1. Untouched \in Documents
  <2>1. <<>> \in Seq(Stages) /\ Len(<<>>) = 0
    BY EmptySeq
  <2>2. <<>> \in Chains
    BY <2>1, ChainIsSeq, 0 <= 4
  <2> QED
    BY <2>2 DEF Untouched, Documents, Directories
<1>2. <<>> \in Seq(Writes) /\ DOMAIN <<>> = {}
  BY EmptySeq
<1>3. Typed
  <2>1. disk \in [Epochs -> Documents] /\ permits \in [Epochs -> SUBSET Transitions]
    BY <1>1 DEF Init
  <2>2. interrupts \in 0..MaxInterrupts /\ claimed \in Epochs \cup {None}
    BY InterruptsAssumption DEF Init
  <2>3. call \in [Controllers -> Calls] /\ \A c \in Controllers : call[c] = Idle
    BY IdleCall DEF Init
  <2> QED
    BY <2>1, <2>2, <2>3, IdleCall DEF Typed
<1>4. Locked /\ Planned
  BY <1>2, NoneAssumption DEF Init, Locked, Planned, Idle, Exclusive
<1>5. Created /\ Consumed
  BY NoneAssumption DEF Init, Created, Consumed, Building, MakesFirst, Untouched, Idle, Exclusive
<1>6. OneRestore /\ UnconsumedIsTrue
  BY DEF Init, OneRestore, UnconsumedIsTrue
<1> QED
  BY <1>3, <1>4, <1>5, <1>6 DEF IInv


-----------------------------------------------------------------------------
(* A call begins, or it answers without a write *)

\* What a snapshot shows.
LEMMA SnapshotType ==
  ASSUME Typed, NEW e \in Epochs, Loads(e)
  PROVE  Snapshot(e) \in Snapshots
<1>1. disk[e].record.body \in Bodies /\ disk[e].frames \in Chains
      /\ disk[e].ledger \in {"UNCONSUMED"} \cup Transitions
  BY LoadsFacts DEF Body
<1> QED
  BY <1>1 DEF Snapshot, Snapshots, Bodies

\* One call changes, and nothing on disk: what has to be known of the call.
LEMMA CallIInv ==
  ASSUME IInv, NEW c \in Controllers, NEW x \in Calls, call' = [call EXCEPT ![c] = x],
         UNCHANGED <<disk, permits>>, interrupts' \in 0..MaxInterrupts,
         claimed' \in Epochs \cup {None}, UnconsumedIsTrue',
         IF x.op = "idle" THEN x = Idle ELSE x.epoch \in Epochs,
         x.op \in Exclusive => x.epoch \in x.locks /\ disk[x.epoch].record # Absent,
         x.op = "create" => x.locks = {},
         x.op = "locking" =>
           /\ x.todo = <<>> /\ x.awaits \in Epochs
           /\ \E e \in Epochs : x.locks = {e} /\ x.epoch \in {e, x.awaits},
         x.awaits # None => x.op = "locking" /\ \A e \in x.locks : e < x.awaits,
         \A d \in Controllers \ {c} : x.locks \cap call[d].locks = {},
         x.op = "create" => x.todo = <<>> \/ (Head(x.todo)[1] = "made" /\ Head(x.todo)[2] = 1),
         \A i \in DOMAIN x.todo :
           /\ x.todo[i][1] = "made" => x.op = "create"
           /\ x.todo[i][1] = "made" /\ x.todo[i][2] = 1 => i = 1
           /\ x.todo[i][1] = "record" /\ x.op = "create" => i = Len(x.todo)
           /\ x.todo[i][1] = "binding" => x.op = "create" \/ x.todo[i][2] # "PENDING"
           /\ x.todo[i][1] = "ledger" =>
                \/ x.op = "create" /\ x.todo[i][2] = "UNCONSUMED"
                \/ x.op = "consume" /\ i = 1 /\ Len(x.todo) = 3 /\ x.todo[i][2] = x.told,
         x.op # "consume" => x.told = Absent,
         x.op = "consume" => /\ x.told \in Transitions /\ Bound(x.epoch) /\ Len(x.todo) = 3
                             /\ Head(x.todo)[1] = "ledger" /\ disk[x.epoch].ledger = "UNCONSUMED"
  PROVE  IInv'
<1>1. Typed /\ Locked /\ Planned /\ Created /\ Consumed /\ OneRestore
  BY DEF IInv
<1>2. /\ call' \in [Controllers -> Calls] /\ call'[c] = x
      /\ \A d \in Controllers \ {c} : call'[d] = call[d]
  BY <1>1 DEF Typed
<1>3. Typed'
  BY <1>1, <1>2 DEF Typed
<1>4. Locked'
  BY <1>1, <1>2 DEF Locked
<1>5. Planned'
  BY <1>1, <1>2 DEF Planned
<1>6. Created'
  <2>1. ~Building(c)'
    BY <1>2 DEF Building, MakesFirst
  <2>2. \A d \in Controllers \ {c} : Building(d)' <=> Building(d)
    BY <1>2 DEF Building, MakesFirst
  <2> QED
    BY <1>1, <1>2, <2>1, <2>2 DEF Created
<1>7. Consumed'
  BY <1>1, <1>2 DEF Consumed, Bound
<1>8. OneRestore'
  BY <1>1 DEF OneRestore
<1> QED
  BY <1>3, <1>4, <1>5, <1>6, <1>7, <1>8 DEF IInv

\* A call that ends.
LEMMA IdleIInv ==
  ASSUME IInv, NEW c \in Controllers, call' = [call EXCEPT ![c] = Idle],
         UNCHANGED <<disk, permits>>, interrupts' \in 0..MaxInterrupts,
         claimed' \in Epochs \cup {None}, UnconsumedIsTrue'
  PROVE  IInv'
<1>1. PICK x \in Calls : x = Idle
  BY IdleCall
<1>2. /\ x.op = "idle" /\ x.locks = {} /\ x.awaits = None /\ x.todo = <<>> /\ DOMAIN x.todo = {}
      /\ x.told = Absent
  BY <1>1, IdleCall
<1>3. call' = [call EXCEPT ![c] = x]
  BY <1>1
<1>4. x.op \notin Exclusive /\ \A d \in Controllers \ {c} : x.locks \cap call[d].locks = {}
  BY <1>2 DEF Exclusive
<1> QED
  BY <1>1, <1>2, <1>3, <1>4, CallIInv

\* "Unconsumed" is said of nothing.
LEMMA NothingClaimed == claimed' = None => UnconsumedIsTrue' /\ claimed' \in Epochs \cup {None}
  BY DEF UnconsumedIsTrue

\* Opening an epoch: nobody has its lock, and its ledger is typed.
LEMMA BeginIInv ==
  ASSUME IInv, NEW c \in Controllers, NEW e \in Epochs, NEW op \in Exclusive,
         NEW locks \in SUBSET Epochs, NEW todo \in Seq(Writes),
         NEW told \in Transitions \cup {Absent}, Begin(c, op, e, locks, todo, told),
         e \in locks, \A d \in Controllers \ {c} : locks \cap call[d].locks = {}, Loads(e),
         \A i \in DOMAIN todo :
           /\ todo[i][1] # "made"
           /\ todo[i][1] = "binding" => todo[i][2] # "PENDING"
           /\ todo[i][1] = "ledger" => op = "consume" /\ i = 1 /\ Len(todo) = 3 /\ todo[i][2] = told,
         op # "consume" => told = Absent,
         op = "consume" => /\ told \in Transitions /\ Bound(e) /\ Len(todo) = 3
                           /\ Head(todo)[1] = "ledger" /\ disk[e].ledger = "UNCONSUMED"
  PROVE  IInv'
<1>1. Typed
  BY DEF IInv
<1>2. [op |-> op, epoch |-> e, locks |-> locks, awaits |-> None, todo |-> todo,
       before |-> Snapshot(e), told |-> told] \in Calls
  BY <1>1, SnapshotType DEF Calls, Exclusive
<1>3. PICK x \in Calls :
        x = [op |-> op, epoch |-> e, locks |-> locks, awaits |-> None, todo |-> todo,
             before |-> Snapshot(e), told |-> told]
  BY <1>2
<1>4. /\ call' = [call EXCEPT ![c] = x] /\ UNCHANGED <<disk, interrupts, permits>> /\ claimed' = None
  BY <1>3 DEF Begin
<1>5. /\ x.op = op /\ x.epoch = e /\ x.locks = locks /\ x.awaits = None /\ x.todo = todo
      /\ x.told = told
  BY <1>3
<1>6. disk[e].record # Absent /\ op \notin {"idle", "locking", "create"}
  BY <1>1, LoadsFacts DEF Exclusive
<1>7. interrupts' \in 0..MaxInterrupts /\ UnconsumedIsTrue' /\ claimed' \in Epochs \cup {None}
  BY <1>1, <1>4, NothingClaimed DEF Typed
<1>8. \A i \in DOMAIN x.todo :
        /\ x.todo[i][1] = "made" => x.op = "create"
        /\ x.todo[i][1] = "made" /\ x.todo[i][2] = 1 => i = 1
        /\ x.todo[i][1] = "record" /\ x.op = "create" => i = Len(x.todo)
        /\ x.todo[i][1] = "binding" => x.op = "create" \/ x.todo[i][2] # "PENDING"
        /\ x.todo[i][1] = "ledger" =>
             \/ x.op = "create" /\ x.todo[i][2] = "UNCONSUMED"
             \/ x.op = "consume" /\ i = 1 /\ Len(x.todo) = 3 /\ x.todo[i][2] = x.told
  BY <1>5, <1>6
<1>9. x.op \notin {"idle", "locking", "create"} /\ x.epoch \in Epochs /\ x.epoch \in x.locks
      /\ disk[x.epoch].record # Absent
  BY <1>5, <1>6
<1>10. \A d \in Controllers \ {c} : x.locks \cap call[d].locks = {}
  BY <1>5
<1>11. /\ x.op # "consume" => x.told = Absent
       /\ x.op = "consume" =>
            /\ x.told \in Transitions /\ Bound(x.epoch) /\ Len(x.todo) = 3
            /\ Head(x.todo)[1] = "ledger" /\ disk[x.epoch].ledger = "UNCONSUMED"
  BY <1>5
<1>12. UNCHANGED <<disk, permits>> /\ x.awaits = None
  BY <1>4, <1>5
<1> QED
  BY <1>2, <1>4, <1>7, <1>8, <1>9, <1>10, <1>11, <1>12, CallIInv

\* An answer, or a permit, of an epoch that can be read.
LEMMA AnswerIInv ==
  ASSUME IInv, NEW claim \in Epochs \cup {None}, Answer(claim),
         permits' \in [Epochs -> SUBSET Transitions], OneRestore', UnconsumedIsTrue',
         \A e \in Epochs : permits'[e] # {} => permits[e] # {} \/ disk[e].record # Absent
  PROVE  IInv'
<1>1. Typed' /\ Locked' /\ Planned'
  BY DEF IInv, Answer, Typed, Locked, Planned
<1>2. Created'
  BY DEF IInv, Answer, Created, Building, MakesFirst
<1>3. Consumed'
  BY DEF IInv, Answer, Consumed, Bound
<1> QED
  BY <1>1, <1>2, <1>3 DEF IInv


-----------------------------------------------------------------------------
(* A document is written *)

\* What a write does: the first write of the plan is no longer to be done,
\* and its document is replaced.
Wrote(c, e, todo, f, x) ==
  /\ todo # <<>> /\ todo \in Seq(Writes) /\ Tail(todo) \in Seq(Writes)
  /\ Len(todo) \in Nat \ {0} /\ Len(Tail(todo)) = Len(todo) - 1
  /\ DOMAIN todo = 1..Len(todo) /\ DOMAIN Tail(todo) = 1..(Len(todo) - 1)
  /\ \A i \in DOMAIN Tail(todo) : Tail(todo)[i] = todo[i + 1] /\ i + 1 \in DOMAIN todo /\ i + 1 # 1
  /\ 1 \in DOMAIN todo /\ Head(todo) = todo[1] /\ todo[1] = <<f, x>> /\ <<f, x>> \in Writes
  /\ call[c].op \notin {"idle", "locking"} /\ e \in Epochs
  /\ call' \in [Controllers -> Calls] /\ call'[c].todo = Tail(todo)
  /\ call'[c].op = call[c].op /\ call'[c].epoch = e /\ call'[c].locks = call[c].locks
  /\ call'[c].awaits = call[c].awaits /\ call'[c].told = call[c].told
  /\ call'[c].before = call[c].before
  /\ \A d \in Controllers \ {c} : call'[d] = call[d]

LEMMA WriteStep ==
  ASSUME IInv, NEW c \in Controllers, Write(c), NEW e, NEW todo, NEW f, NEW x,
         e = call[c].epoch, todo = call[c].todo, f = Head(todo)[1], x = Head(todo)[2]
  PROVE  Wrote(c, e, todo, f, x) /\ OneReplaced(e, f, x)
<1>1. /\ Typed /\ Locked /\ call[c] \in Calls /\ disk \in [Epochs -> Documents]
      /\ call \in [Controllers -> Calls]
  BY DEF IInv, Typed
<1>2. /\ todo # <<>> /\ disk' = [disk EXCEPT ![e] = [@ EXCEPT ![f] = x]]
      /\ call' = [call EXCEPT ![c].todo = Tail(@)]
  BY DEF Write
<1>3. /\ todo \in Seq(Writes) /\ Tail(todo) \in Seq(Writes) /\ Head(todo) \in Writes
      /\ Len(todo) \in Nat \ {0} /\ Len(Tail(todo)) = Len(todo) - 1
      /\ DOMAIN todo = 1..Len(todo) /\ DOMAIN Tail(todo) = 1..(Len(todo) - 1)
      /\ \A i \in DOMAIN Tail(todo) : Tail(todo)[i] = todo[i + 1] /\ i + 1 \in DOMAIN todo /\ i + 1 # 1
      /\ 1 \in DOMAIN todo /\ Head(todo) = todo[1]
  <2>1. todo \in Seq(Writes)
    BY <1>1 DEF Calls
  <2>2. Len(todo) \in Nat \ {0} /\ DOMAIN todo = 1..Len(todo)
    BY <1>2, <2>1, EmptySeq, LenProperties
  <2>3. /\ Tail(todo) \in Seq(Writes) /\ Head(todo) \in Writes /\ Len(Tail(todo)) = Len(todo) - 1
        /\ \A i \in 1..Len(Tail(todo)) : Tail(todo)[i] = todo[i + 1]
    BY <1>2, <2>1, HeadTailProperties
  <2>4. DOMAIN Tail(todo) = 1..(Len(todo) - 1)
    BY <2>3, LenProperties
  <2>5. Head(todo) = todo[1]
    BY <2>1
  <2> QED
    BY <2>1, <2>2, <2>3, <2>4, <2>5
<1>4. Head(todo) = <<f, x>> /\ <<f, x>> \in Writes
  BY <1>3 DEF Writes
<1>5. call[c].op \notin {"idle", "locking"} /\ e \in Epochs
  BY <1>1, <1>2, IdleCall DEF Typed, Locked
<1>6. OneReplaced(e, f, x)
  <2>1. PICK d : d = Replaced(disk[e], f, x)
    OBVIOUS
  <2>2. disk' = [disk EXCEPT ![e] = d]
    BY <1>2, <2>1 DEF Replaced
  <2>3. disk \in [Epochs -> Documents] /\ e \in Epochs /\ <<f, x>> \in Writes
    BY <1>1, <1>4, <1>5
  <2> QED
    BY <2>1, <2>2, <2>3, WriteChanges
<1>7. /\ call' \in [Controllers -> Calls] /\ call'[c].todo = Tail(todo)
      /\ call'[c].op = call[c].op /\ call'[c].epoch = e /\ call'[c].locks = call[c].locks
      /\ call'[c].awaits = call[c].awaits /\ call'[c].told = call[c].told
      /\ call'[c].before = call[c].before
      /\ \A d \in Controllers \ {c} : call'[d] = call[d]
  <2>1. [call[c] EXCEPT !.todo = Tail(todo)] \in Calls
    BY <1>1, <1>3 DEF Calls
  <2>2. call' = [call EXCEPT ![c] = [call[c] EXCEPT !.todo = Tail(todo)]]
    BY <1>2
  <2>3. call'[c] = [call[c] EXCEPT !.todo = Tail(todo)]
    BY <1>1, <2>2
  <2> QED
    BY <1>1, <2>1, <2>2, <2>3 DEF Calls
<1>8. todo[1] = <<f, x>>
  BY <1>3, <1>4
<1> QED
  BY <1>2, <1>3, <1>4, <1>5, <1>6, <1>7, <1>8 DEF Wrote

\* Whoever creates an epoch finds no record in it; whoever writes it otherwise
\* has its lock; and no other call writes it.
LEMMA WriteAlone ==
  ASSUME IInv, NEW c \in Controllers, Write(c), NEW e, NEW f, NEW x,
         e = call[c].epoch, f = Head(call[c].todo)[1], x = Head(call[c].todo)[2]
  PROVE  /\ f = "record" => x # Absent
         /\ f = "made" => x \in 1..4 /\ disk[e].made \in 0..4
         /\ call[c].op = "create" => disk[e].record = Absent
         /\ call[c].op # "create" =>
              e \in call[c].locks /\ disk[e].record # Absent /\ call[c].op \in Exclusive
         /\ \A d \in Controllers \ {c} : call[d].op \in Exclusive => call[d].epoch # e
<1>1. /\ Typed /\ Locked /\ Created /\ call[c] \in Calls /\ disk \in [Epochs -> Documents]
  BY DEF IInv, Typed
<1>2. /\ call[c].todo # <<>> /\ ~(f = "made" /\ disk[e].made >= x)
  BY DEF Write
<1>3. <<f, x>> \in Writes /\ call[c].op \notin {"idle", "locking"} /\ e \in Epochs
  <2>1. PICK todo : todo = call[c].todo
    OBVIOUS
  <2>2. Wrote(c, e, todo, f, x)
    BY <2>1, WriteStep
  <2> QED
    BY <2>2 DEF Wrote
<1>4. f = "record" => x # Absent
  BY <1>3, AbsentAssumption DEF Writes
<1>5. f = "made" => x \in 1..4 /\ disk[e].made \in 0..4
  <2>1. disk[e].made \in 0..4
    BY <1>1, <1>3 DEF Documents, Directories
  <2> QED
    BY <1>3, <2>1 DEF Writes
<1>6. call[c].op = "create" => disk[e].record = Absent
  <2>1. CASE Building(c)
    BY <1>1, <2>1 DEF Created
  <2>2. CASE call[c].op = "create" /\ MakesFirst(c)
    <3>1. f = "made" /\ x = 1
      BY <2>2 DEF MakesFirst
    <3>2. ~(disk[e].made >= 1)
      BY <1>2, <1>5, <3>1
    <3> QED
      BY <1>1, <1>3, <3>2 DEF Created
  <2> QED
    BY <1>2, <2>1, <2>2 DEF Building
<1>7. call[c].op # "create" =>
        /\ e \in call[c].locks /\ disk[e].record # Absent /\ call[c].op \in Exclusive
  BY <1>1, <1>3 DEF Locked, Created, Exclusive, Typed, Calls
<1>8. \A d \in Controllers \ {c} : call[d].op \in Exclusive => call[d].epoch # e
  <2> SUFFICES ASSUME NEW d \in Controllers \ {c}, call[d].op \in Exclusive, call[d].epoch = e PROVE FALSE
    OBVIOUS
  <2>1. e \in call[d].locks /\ disk[e].record # Absent
    BY <1>1 DEF Locked, Created
  <2>2. e \in call[c].locks
    BY <1>6, <1>7, <2>1
  <2> QED
    BY <1>1, <2>1, <2>2 DEF Locked
<1> QED
  BY <1>4, <1>5, <1>6, <1>7, <1>8

LEMMA WriteIInv ==
  ASSUME IInv, NEW c \in Controllers, Write(c)
  PROVE  IInv'
<1> DEFINE e == call[c].epoch
           todo == call[c].todo
           f == Head(todo)[1]
           x == Head(todo)[2]
<1>1. /\ Typed /\ Locked /\ Planned /\ Created /\ Consumed /\ OneRestore
      /\ call[c] \in Calls /\ disk \in [Epochs -> Documents]
      /\ permits \in [Epochs -> SUBSET Transitions]
  BY DEF IInv, Typed
<1>2. /\ todo # <<>> /\ ~(f = "made" /\ disk[e].made >= x)
      /\ disk' = [disk EXCEPT ![e] = [@ EXCEPT ![f] = x]]
      /\ call' = [call EXCEPT ![c].todo = Tail(@)]
      /\ claimed' = None /\ UNCHANGED <<interrupts, permits>>
  BY DEF Write
<1>3. e = call[c].epoch /\ todo = call[c].todo /\ f = Head(todo)[1] /\ x = Head(todo)[2]
  OBVIOUS
<1> HIDE DEF e, f, x, todo
<1>4. Wrote(c, e, todo, f, x) /\ OneReplaced(e, f, x)
  BY <1>3, WriteStep
<1>5. /\ todo \in Seq(Writes) /\ Tail(todo) \in Seq(Writes)
      /\ Len(todo) \in Nat \ {0} /\ Len(Tail(todo)) = Len(todo) - 1
      /\ DOMAIN todo = 1..Len(todo) /\ DOMAIN Tail(todo) = 1..(Len(todo) - 1)
      /\ \A i \in DOMAIN Tail(todo) : Tail(todo)[i] = todo[i + 1] /\ i + 1 \in DOMAIN todo /\ i + 1 # 1
      /\ 1 \in DOMAIN todo /\ Head(todo) = todo[1]
  BY <1>4 DEF Wrote
<1>6. call[c].op \notin {"idle", "locking"} /\ e \in Epochs
  BY <1>4 DEF Wrote
<1>7. /\ disk' \in [Epochs -> Documents]
      /\ \A o \in Epochs \ {e} : disk'[o] = disk[o]
      /\ disk'[e].made = IF f = "made" THEN x ELSE disk[e].made
      /\ disk'[e].binding = IF f = "binding" THEN x ELSE disk[e].binding
      /\ disk'[e].ledger = IF f = "ledger" THEN x ELSE disk[e].ledger
      /\ disk'[e].record = IF f = "record" THEN x ELSE disk[e].record
  BY <1>4 DEF OneReplaced
<1>8. /\ call' \in [Controllers -> Calls] /\ call'[c].todo = Tail(todo)
      /\ call'[c].op = call[c].op /\ call'[c].epoch = e /\ call'[c].locks = call[c].locks
      /\ call'[c].awaits = call[c].awaits /\ call'[c].told = call[c].told
      /\ \A d \in Controllers \ {c} : call'[d] = call[d]
  BY <1>4 DEF Wrote
<1>9. f = "record" => x # Absent
  BY <1>3, WriteAlone
<1>10. f = "made" => x \in 1..4 /\ disk[e].made \in 0..4
  BY <1>3, WriteAlone
\* What the invariant says of this write.
<1>11. /\ f = "made" => call[c].op = "create"
       /\ f = "record" /\ call[c].op = "create" => Len(todo) = 1
       /\ f = "binding" => call[c].op = "create" \/ x # "PENDING"
       /\ f = "ledger" =>
            \/ call[c].op = "create" /\ x = "UNCONSUMED"
            \/ call[c].op = "consume" /\ Len(todo) = 3 /\ x = call[c].told
  <2>1. todo = call[c].todo /\ f = todo[1][1] /\ x = todo[1][2] /\ 1 \in DOMAIN call[c].todo
    BY <1>3, <1>5
  <2> QED
    BY <1>1, <2>1 DEF Planned
<1>12. Typed'
  <2>1. call'[c].op # "idle" /\ call'[c].epoch \in Epochs
    BY <1>6, <1>8
  <2> QED
    BY <1>1, <1>2, <1>7, <1>8, <2>1 DEF Typed
<1>13. Locked'
  <2>1. call[c].op # "locking"
    BY <1>6
  <2> QED
    BY <1>1, <1>8, <2>1 DEF Locked, e
<1>14. Planned'
  <2>1. ASSUME NEW i \in DOMAIN Tail(todo), NEW w, w = Tail(todo)[i]
        PROVE  /\ w[1] = "made" => call[c].op = "create"
               /\ ~(w[1] = "made" /\ w[2] = 1)
               /\ w[1] = "record" /\ call[c].op = "create" => i = Len(Tail(todo))
               /\ w[1] = "binding" => call[c].op = "create" \/ w[2] # "PENDING"
               /\ w[1] = "ledger" => call[c].op = "create" /\ w[2] = "UNCONSUMED"
    <3>1. i + 1 \in DOMAIN todo /\ i + 1 # 1 /\ w = todo[i + 1]
      BY <1>5, <2>1
    <3>2. i + 1 = Len(todo) => i = Len(Tail(todo))
      BY <1>5
    <3> QED
      BY <1>1, <3>1, <3>2 DEF Planned, todo
  <2>2. Len(call'[c].todo) # 3 \/ call'[c].op # "consume"
    <3>1. call'[c].op = "consume" => Len(todo) <= 3
      BY <1>1, <1>8 DEF Consumed, todo
    <3>2. Len(call'[c].todo) = Len(todo) - 1 /\ Len(todo) \in Nat
      BY <1>5, <1>8
    <3> QED
      BY <3>1, <3>2
  <2>3. call'[c].op # "consume" => call'[c].told = Absent
    BY <1>1, <1>8 DEF Planned
  <2>4. call'[c].op = "consume" => call'[c].told \in Transitions
    BY <1>1, <1>8 DEF Planned
  <2>5. ASSUME NEW d \in Controllers \ {c} PROVE call'[d] = call[d]
    BY <1>8
  <2>6. ASSUME NEW i \in DOMAIN call'[c].todo
        PROVE  /\ call'[c].todo[i][1] = "made" => call'[c].op = "create"
               /\ call'[c].todo[i][1] = "made" /\ call'[c].todo[i][2] = 1 => i = 1
               /\ call'[c].todo[i][1] = "record" /\ call'[c].op = "create" => i = Len(call'[c].todo)
               /\ call'[c].todo[i][1] = "binding" => call'[c].op = "create" \/ call'[c].todo[i][2] # "PENDING"
               /\ call'[c].todo[i][1] = "ledger" => call'[c].op = "create" /\ call'[c].todo[i][2] = "UNCONSUMED"
    BY <1>8, <2>1
  <2> QED
    BY <1>1, <2>3, <2>2, <2>4, <2>5, <2>6 DEF Planned
<1>15. /\ call[c].op \in Exclusive => ~Building(c)'
       /\ Building(c)' => call[c].op = "create" /\ Tail(todo) # <<>>
       /\ \A d \in Controllers \ {c} : Building(d)' <=> Building(d)
  BY <1>8 DEF Building, MakesFirst, Exclusive
<1>16. call[c].op = "create" => disk[e].record = Absent
  BY <1>3, WriteAlone
<1>17. call[c].op = "create" =>
         /\ disk'[e].made >= 1
         /\ \A d \in Controllers \ {c} : Building(d) => call[d].epoch # e
  <2>1. CASE Building(c)
    <3>1. disk[e].made >= 1 /\ \A d \in Controllers \ {c} : Building(d) => call[d].epoch # e
      BY <1>1, <2>1 DEF Created, e
    <3>2. disk'[e].made >= 1
      BY <1>7, <1>10, <3>1
    <3> QED
      BY <3>1, <3>2
  <2>2. CASE call[c].op = "create" /\ MakesFirst(c)
    <3>1. f = "made" /\ x = 1
      BY <2>2 DEF MakesFirst, f, x, todo
    <3>2. ~(disk[e].made >= 1) /\ disk'[e].made = 1
      BY <1>2, <1>7, <1>10, <3>1
    <3> QED
      BY <1>1, <3>2 DEF Created
  <2> QED
    BY <1>2, <2>1, <2>2 DEF Building, todo
<1>18. call[c].op # "create" =>
         /\ e \in call[c].locks /\ disk[e].record # Absent /\ call[c].op \in Exclusive
  BY <1>3, WriteAlone
<1>19. \A d \in Controllers \ {c} : call[d].op \in Exclusive => call[d].epoch # e
  BY <1>3, WriteAlone
<1>20. disk'[e].record = Absent => disk[e].record = Absent
  BY <1>7, <1>9
<1>21. Created'
  <2>1. ASSUME NEW o \in Epochs
        PROVE  /\ disk'[o].record # Absent => disk'[o].made >= 1
               /\ disk'[o].record = Absent => permits'[o] = {} /\ disk'[o].ledger \notin Transitions
    <3>1. CASE o # e
      BY <1>1, <1>2, <1>7, <3>1 DEF Created
    <3>2. CASE o = e
      <4>1. disk'[e].record # Absent => disk'[e].made >= 1
        BY <1>1, <1>6, <1>7, <1>11, <1>17, <1>18 DEF Created
      <4>2. ASSUME disk'[e].record = Absent PROVE permits'[e] = {} /\ disk'[e].ledger \notin Transitions
        <5>1. disk[e].record = Absent /\ call[c].op = "create"
          BY <1>18, <1>20, <4>2
        <5> QED
          BY <1>1, <1>2, <1>6, <1>7, <1>11, <5>1, LedgerAssumption DEF Created
      <4> QED
        BY <3>2, <4>1, <4>2
    <3> QED
      BY <3>1, <3>2
  <2>2. ASSUME NEW d \in Controllers, call'[d].op \in Exclusive
        PROVE  disk'[call'[d].epoch].record # Absent
    <3>1. CASE d = c
      BY <1>8, <1>18, <1>20, <2>2, <3>1 DEF Exclusive
    <3>2. CASE d # c
      BY <1>1, <1>7, <1>8, <1>19, <2>2, <3>2 DEF Created, Typed, Exclusive
    <3> QED
      BY <3>1, <3>2
  <2>3. ASSUME NEW d \in Controllers, Building(d)'
        PROVE  /\ disk'[call'[d].epoch].record = Absent /\ disk'[call'[d].epoch].made >= 1
               /\ \A o \in Controllers \ {d} : Building(o)' => call'[o].epoch # call'[d].epoch
    <3>1. CASE d = c
      <4>1. call[c].op = "create" /\ Len(todo) # 1
        <5>1. Tail(todo) # <<>> /\ call[c].op = "create"
          BY <1>15, <2>3, <3>1
        <5>2. Len(Tail(todo)) # 0
          BY <1>5, <5>1, EmptySeq
        <5> QED
          BY <1>5, <5>1, <5>2
      <4>2. disk'[e].record = Absent
        BY <1>7, <1>11, <1>16, <4>1
      <4> QED
        BY <1>8, <1>15, <1>17, <3>1, <4>1, <4>2
    <3>2. CASE d # c
      <4>1. /\ Building(d) /\ call'[d] = call[d] /\ call[d].epoch \in Epochs
            /\ disk[call[d].epoch].record = Absent /\ disk[call[d].epoch].made >= 1
            /\ \A o \in Controllers \ {d} : Building(o) => call[o].epoch # call[d].epoch
        BY <1>1, <1>8, <1>15, <2>3, <3>2 DEF Created, Building, Typed
      <4>2. call[d].epoch # e
        BY <1>17, <1>18, <3>2, <4>1
      <4>3. disk'[call[d].epoch] = disk[call[d].epoch]
        BY <1>7, <4>1, <4>2
      <4>4. ASSUME NEW o \in Controllers \ {d}, Building(o)' PROVE call'[o].epoch # call'[d].epoch
        <5>1. CASE o = c
          BY <1>8, <4>1, <4>2, <5>1
        <5>2. CASE o # c
          BY <1>8, <1>15, <4>1, <4>4, <5>2
        <5> QED
          BY <5>1, <5>2
      <4> QED
        BY <4>1, <4>3, <4>4
    <3> QED
      BY <3>1, <3>2
  <2> QED
    BY <2>1, <2>2, <2>3 DEF Created
<1>22. ASSUME call[c].op # "create", Bound(e), Layout[e] = "v2" PROVE disk'[e].binding # "PENDING"
  BY <1>7, <1>11, <1>22 DEF Bound
<1>23. Consumed'
  <2>1. ASSUME NEW d \in Controllers, call'[d].op = "consume"
        PROVE  /\ Layout[call'[d].epoch] = "v2" => disk'[call'[d].epoch].binding # "PENDING"
               /\ Len(call'[d].todo) <= 3
               /\ disk'[call'[d].epoch].ledger =
                    IF Len(call'[d].todo) = 3 THEN "UNCONSUMED" ELSE call'[d].told
    <3>1. CASE d = c
      <4>1. /\ call[c].op = "consume" /\ Bound(e) /\ Len(todo) <= 3
            /\ disk[e].ledger = IF Len(todo) = 3 THEN "UNCONSUMED" ELSE call[c].told
        BY <1>1, <1>8, <2>1, <3>1 DEF Consumed, e, todo
      <4>2. Len(Tail(todo)) < 3
        BY <1>5, <4>1
      <4>3. Len(todo) = 3 => f = "ledger"
        BY <1>1, <4>1 DEF Planned, f, todo
      <4> QED
        <5>1. Layout[e] = "v2" => disk'[e].binding # "PENDING"
          BY <1>22, <4>1
        <5>2. disk'[e].ledger = call[c].told
          <6>1. CASE Len(todo) = 3
            BY <1>7, <1>11, <4>1, <4>3, <6>1
          <6>2. CASE Len(todo) # 3
            BY <1>7, <1>11, <4>1, <6>2
          <6> QED
            BY <6>1, <6>2
        <5>3. Len(call'[c].todo) <= 3 /\ Len(call'[c].todo) # 3
          <6>1. PICK n \in Nat : n = Len(todo)
            BY <1>5
          <6>2. n <= 3 /\ Len(Tail(todo)) = n - 1
            BY <1>5, <4>1, <6>1
          <6>3. n - 1 <= 3 /\ n - 1 # 3
            BY <6>2
          <6>4. Len(call'[c].todo) = n - 1
            BY <1>8, <6>2
          <6> QED
            BY <6>3, <6>4
        <5> QED
          BY <1>8, <3>1, <5>1, <5>2, <5>3
    <3>2. CASE d # c
      <4>1. /\ call'[d] = call[d] /\ call[d].epoch # e /\ call[d].epoch \in Epochs
        BY <1>1, <1>8, <1>19, <2>1, <3>2 DEF Exclusive, Ops, Typed
      <4>2. disk'[call[d].epoch] = disk[call[d].epoch]
        BY <1>7, <4>1
      <4>0. call[d].op = "consume"
        BY <2>1, <4>1
      <4>3. /\ Layout[call[d].epoch] = "v2" => disk[call[d].epoch].binding # "PENDING"
            /\ Len(call[d].todo) <= 3
            /\ disk[call[d].epoch].ledger =
                 IF Len(call[d].todo) = 3 THEN "UNCONSUMED" ELSE call[d].told
        BY <1>1, <4>0 DEF Consumed, Bound
      <4> QED
        BY <4>1, <4>2, <4>3
    <3> QED
      BY <3>1, <3>2
  <2>2. ASSUME NEW o \in Epochs, disk'[o].ledger \in Transitions, Layout[o] = "v2"
        PROVE  disk'[o].binding # "PENDING"
    <3>1. CASE o # e
      BY <1>1, <1>7, <2>2, <3>1 DEF Consumed, Bound
    <3>2. CASE o = e /\ call[c].op = "create"
      BY <1>1, <1>6, <1>7, <1>11, <1>16, <2>2, <3>2, LedgerAssumption DEF Created
    <3>3. CASE o = e /\ call[c].op # "create"
      <4>1. Bound(e)
        BY <1>1, <1>6, <1>7, <1>11, <2>2, <3>3 DEF Consumed, e
      <4> QED
        BY <1>22, <2>2, <3>3, <4>1
    <3> QED
      BY <3>1, <3>2, <3>3
  <2> QED
    BY <2>1, <2>2 DEF Consumed, Bound
<1>24. OneRestore'
  <2>1. ASSUME NEW o \in Epochs PROVE permits'[o] \subseteq {disk'[o].ledger}
    <3>1. CASE o # e \/ f # "ledger"
      BY <1>1, <1>2, <1>7, <3>1 DEF OneRestore
    <3>2. CASE o = e /\ f = "ledger"
      <4>1. permits[e] = {}
        <5>1. permits[e] \subseteq Transitions /\ permits[e] \subseteq {disk[e].ledger}
          BY <1>1, <1>6 DEF OneRestore
        <5>2. call[c].op = "create" \/ disk[e].ledger = "UNCONSUMED"
          BY <1>1, <1>11, <3>2 DEF Consumed, e, todo
        <5> QED
          BY <1>1, <1>6, <1>16, <5>1, <5>2, LedgerAssumption DEF Created
      <4> QED
        BY <1>2, <3>2, <4>1
    <3> QED
      BY <3>1, <3>2
  <2> QED
    BY <2>1 DEF OneRestore
<1> QED
  BY <1>2, <1>12, <1>13, <1>14, <1>21, <1>23, <1>24, NothingClaimed DEF IInv


-----------------------------------------------------------------------------
(* The operations *)

\* What a call that opens an epoch knows.
LEMMA OpensFacts ==
  ASSUME IInv, NEW c \in Controllers, NEW e \in Epochs, Opens(c, e)
  PROVE  /\ Typed /\ Loads(e) /\ call[c].op = "idle"
         /\ {e} \in SUBSET Epochs /\ \A d \in Controllers \ {c} : {e} \cap call[d].locks = {}
         /\ Body(e) \in Bodies
  BY LoadsFacts, IdleCall DEF IInv, Opens, Free

\* The writes of the operations.
LEMMA WritesHold ==
  /\ \A n \in 1..4 : <<"made", n>> \in Writes
  /\ \A body \in Bodies : <<"manifest", body>> \in Writes
  /\ <<"private", "written">> \in Writes
  /\ \A a \in {"PENDING"} \cup Artifacts : <<"binding", a>> \in Writes
  /\ \A t \in {"UNCONSUMED"} \cup Transitions : <<"ledger", t>> \in Writes
  /\ \A f \in {"spool", "frames"}, chain \in Chains : <<f, chain>> \in Writes
  /\ \A r \in [body : Bodies, digest : Bodies] : <<"record", r>> \in Writes
<1>1. \A n \in 1..4 : <<"made", n>> \in Writes
  BY DEF Writes
<1>2. \A body \in Bodies : <<"manifest", body>> \in Writes
  BY DEF Writes
<1>3. <<"private", "written">> \in Writes
  BY DEF Writes
<1>4. \A a \in {"PENDING"} \cup Artifacts : <<"binding", a>> \in Writes
  BY DEF Writes
<1>5. \A t \in {"UNCONSUMED"} \cup Transitions : <<"ledger", t>> \in Writes
  BY DEF Writes
<1>6. \A f \in {"spool", "frames"}, chain \in Chains : <<f, chain>> \in Writes
  BY DEF Writes
<1>7. \A r \in [body : Bodies, digest : Bodies] : <<"record", r>> \in Writes
  BY DEF Writes
<1> QED
  BY <1>1, <1>2, <1>3, <1>4, <1>5, <1>6, <1>7

\* The manifest and the record of a state.
LEMMA StateUpdateWrites ==
  ASSUME NEW body \in Bodies
  PROVE  /\ StateUpdate(body) \in Seq(Writes) /\ Len(StateUpdate(body)) = 2
         /\ StateUpdate(body)[1] = <<"manifest", body>>
         /\ StateUpdate(body)[2] = <<"record", [body |-> body, digest |-> body]>>
<1>1. <<"manifest", body>> \in Writes
  BY WritesHold
<1>2. <<"record", [body |-> body, digest |-> body]>> \in Writes
  <2>1. [body |-> body, digest |-> body] \in [body : Bodies, digest : Bodies]
    OBVIOUS
  <2> QED
    BY <2>1, WritesHold
<1> QED
  BY <1>1, <1>2 DEF StateUpdate

\* Writes before those of a state.
LEMMA WithStateUpdate ==
  ASSUME NEW first \in Seq(Writes), NEW body \in Bodies
  PROVE  /\ first \o StateUpdate(body) \in Seq(Writes)
         /\ Len(first \o StateUpdate(body)) = Len(first) + 2
         /\ \A i \in DOMAIN (first \o StateUpdate(body)) :
              IF i <= Len(first) THEN (first \o StateUpdate(body))[i] = first[i] /\ i \in DOMAIN first
              ELSE (first \o StateUpdate(body))[i][1] \in {"manifest", "record"}
<1> DEFINE update == StateUpdate(body)
           all == first \o update
<1>1. /\ update \in Seq(Writes) /\ Len(update) = 2
      /\ update[1][1] = "manifest" /\ update[2][1] = "record"
  <2>1. <<"manifest", body>>[1] = "manifest"
        /\ <<"record", [body |-> body, digest |-> body]>>[1] = "record"
    OBVIOUS
  <2> QED
    BY <2>1, StateUpdateWrites
<1> HIDE DEF update
<1>2. /\ all \in Seq(Writes) /\ Len(all) = Len(first) + Len(update)
      /\ \A i \in 1..(Len(first) + Len(update)) :
           all[i] = IF i <= Len(first) THEN first[i] ELSE update[i - Len(first)]
  BY <1>1, ConcatProperties
<1>3. /\ Len(first) \in Nat /\ DOMAIN first = 1..Len(first) /\ DOMAIN all = 1..(Len(first) + 2)
  BY <1>1, <1>2, LenProperties
<1> HIDE DEF all
<1>4. ASSUME NEW i \in DOMAIN all
      PROVE  IF i <= Len(first) THEN all[i] = first[i] /\ i \in DOMAIN first
             ELSE all[i][1] \in {"manifest", "record"}
  <2>1. CASE i <= Len(first)
    BY <1>1, <1>2, <1>3, <2>1
  <2>2. CASE i > Len(first)
    <3>1. i - Len(first) \in {1, 2}
      BY <1>3, <2>2
    <3>2. all[i] = update[i - Len(first)]
      BY <1>1, <1>2, <1>3, <2>2
    <3> QED
      BY <1>1, <1>3, <2>2, <3>1, <3>2
  <2> QED
    BY <1>3, <2>1, <2>2
<1> QED
  BY <1>1, <1>2, <1>4 DEF all, update

\* A call that replaces the state of its epoch, after writes of its own.
LEMMA StateIInv ==
  ASSUME IInv, NEW c \in Controllers, NEW e \in Epochs, Opens(c, e),
         NEW op \in Exclusive \ {"consume"}, NEW first \in Seq(Writes), NEW body \in Bodies,
         \A i \in DOMAIN first : first[i][1] \in {"spool", "frames"} \/ (first[i][1] = "binding" /\ first[i][2] # "PENDING"),
         Begin(c, op, e, {e}, first \o StateUpdate(body), Absent)
  PROVE  IInv'
<1>1. PICK todo \in Seq(Writes) : todo = first \o StateUpdate(body)
  BY WithStateUpdate
<1>2. \A i \in DOMAIN todo :
        \/ todo[i][1] \in {"manifest", "record", "spool", "frames"}
        \/ todo[i][1] = "binding" /\ todo[i][2] # "PENDING"
  BY <1>1, WithStateUpdate
<1>3. Begin(c, op, e, {e}, todo, Absent)
  BY <1>1
<1>4. \A i \in DOMAIN todo :
        /\ todo[i][1] # "made"
        /\ todo[i][1] = "binding" => todo[i][2] # "PENDING"
        /\ todo[i][1] # "ledger"
  BY <1>2
<1>5. op \in Exclusive /\ op # "consume" /\ e \in {e} /\ Absent \in Transitions \cup {Absent}
  OBVIOUS
<1> QED
  BY <1>3, <1>4, <1>5, OpensFacts, BeginIInv

\* Without writes of its own.
LEMMA StateOnlyIInv ==
  ASSUME IInv, NEW c \in Controllers, NEW e \in Epochs, Opens(c, e),
         NEW op \in Exclusive \ {"consume"}, NEW body \in Bodies,
         Begin(c, op, e, {e}, StateUpdate(body), Absent)
  PROVE  IInv'
<1>1. <<>> \in Seq(Writes) /\ DOMAIN <<>> = {}
  BY EmptySeq
<1>2. <<>> \o StateUpdate(body) = StateUpdate(body)
  BY StateUpdateWrites, ConcatEmptySeq
<1> QED
  BY <1>1, <1>2, StateIInv


\* The first layout and the second bind, an epoch becomes ready or active.
LEMMA BindIInv ==
  ASSUME IInv, NEW c \in Controllers, NEW e \in Epochs,
         \/ BindArtifactRow(c, e) \/ MarkReady(c, e) \/ Activate(c, e)
         \/ \E a \in Artifacts : BindArtifact(c, e, a) \/ BindArtifactV2(c, e, a)
  PROVE  IInv'
<1>1. Opens(c, e) /\ Body(e) \in Bodies
  <2>1. Opens(c, e)
    BY DEF BindArtifactRow, MarkReady, Activate, TransitionEpoch, BindArtifact, BindArtifactV2
  <2> QED
    BY <2>1, OpensFacts
<1>2. {"bind", "bind_v2", "transition"} \subseteq Exclusive \ {"consume"}
  BY DEF Exclusive, Ops
<1>3. ASSUME NEW a \in {"ROW_BOUND"} \cup Artifacts PROVE [Body(e) EXCEPT !.art = a] \in Bodies
  BY <1>1 DEF Bodies
<1>4. ASSUME NEW st \in States PROVE [Body(e) EXCEPT !.st = st] \in Bodies
  BY <1>1 DEF Bodies
<1>5. CASE BindArtifactRow(c, e)
  BY <1>1, <1>2, <1>3, <1>5, StateOnlyIInv DEF BindArtifactRow
<1>6. CASE MarkReady(c, e)
  <2>1. "READY" \in States
    BY DEF States
  <2> QED
    BY <1>1, <1>2, <1>4, <1>6, <2>1, StateOnlyIInv DEF MarkReady, TransitionEpoch
<1>7. CASE Activate(c, e)
  <2>1. "ACTIVE" \in States
    BY DEF States
  <2> QED
    BY <1>1, <1>2, <1>4, <1>7, <2>1, StateOnlyIInv DEF Activate, TransitionEpoch
<1>8. ASSUME NEW a \in Artifacts, BindArtifact(c, e, a) PROVE IInv'
  BY <1>1, <1>2, <1>3, <1>8, StateOnlyIInv DEF BindArtifact
<1>9. ASSUME NEW a \in Artifacts, BindArtifactV2(c, e, a) PROVE IInv'
  <2>1. PICK w \in Writes : w = <<"binding", a>>
    BY WritesHold
  <2>2. w[1] = "binding" /\ w[2] # "PENDING"
    BY <2>1, NamedAssumption
  <2>3. PICK first \in Seq(Writes) : first = <<w>>
    <3>1. <<w>> \in Seq(Writes)
      OBVIOUS
    <3> QED
      BY <3>1
  <2>4. \A i \in DOMAIN first : first[i][1] = "binding" /\ first[i][2] # "PENDING"
    <3>1. \A i \in DOMAIN first : first[i] = w
      BY <2>3
    <3> QED
      BY <2>2, <3>1
  <2>5. Begin(c, "bind_v2", e, {e}, first \o StateUpdate([Body(e) EXCEPT !.art = a]), Absent)
    BY <1>9, <2>1, <2>3 DEF BindArtifactV2
  <2> QED
    BY <1>1, <1>2, <1>3, <2>4, <2>5, StateIInv
<1> QED
  BY <1>5, <1>6, <1>7, <1>8, <1>9

\* A frame, the last one or another.
LEMMA FrameIInv ==
  ASSUME IInv, NEW c \in Controllers, NEW e \in Epochs, NEW stage \in Stages,
         Opens(c, e), StageAllowed(e, stage), Begin(c, "frame", e, {e}, FramePlan(e, stage), Absent)
  PROVE  IInv'
<1>1. PICK chain \in Chains : chain = Append(disk[e].spool, stage)
  BY OpensFacts, ChainGrows
<1>2. PICK w \in Writes, v \in Writes : w = <<"frames", chain>> /\ v = <<"spool", chain>>
  BY WritesHold
<1>3. PICK first \in Seq(Writes) : first = <<w, v>>
  <2>1. <<w, v>> \in Seq(Writes)
    OBVIOUS
  <2> QED
    BY <2>1
<1>4. \A i \in DOMAIN first : first[i][1] \in {"spool", "frames"}
  <2>1. \A i \in DOMAIN first : first[i] \in {w, v}
    BY <1>3
  <2>2. w[1] = "frames" /\ v[1] = "spool"
    BY <1>2
  <2> QED
    BY <2>1, <2>2
<1>5. "frame" \in Exclusive \ {"consume"}
  BY DEF Exclusive, Ops
<1>6. ASSUME NEW st \in States PROVE [Body(e) EXCEPT !.st = st] \in Bodies
  BY OpensFacts DEF Bodies
<1>7. {"CONSUMED", "ABANDONED"} \subseteq States
  BY DEF States
<1>8. FramePlan(e, stage) =
        IF stage = "COMMIT" THEN first \o StateUpdate([Body(e) EXCEPT !.st = "CONSUMED"])
        ELSE IF stage = "ABANDON" THEN first \o StateUpdate([Body(e) EXCEPT !.st = "ABANDONED"])
        ELSE first \o <<>>
  BY <1>1, <1>2, <1>3 DEF FramePlan
<1>9. CASE stage = "COMMIT"
  <2>1. Begin(c, "frame", e, {e}, first \o StateUpdate([Body(e) EXCEPT !.st = "CONSUMED"]), Absent)
    BY <1>8, <1>9
  <2> QED
    BY <1>4, <1>5, <1>6, <1>7, <2>1, StateIInv
<1>10. CASE stage = "ABANDON"
  <2>1. Begin(c, "frame", e, {e}, first \o StateUpdate([Body(e) EXCEPT !.st = "ABANDONED"]), Absent)
    BY <1>8, <1>10
  <2> QED
    BY <1>4, <1>5, <1>6, <1>7, <2>1, StateIInv
<1>11. CASE stage \notin {"COMMIT", "ABANDON"}
  <2>1. FramePlan(e, stage) = first
    BY <1>8, <1>11, ConcatEmptySeq
  <2>2. Begin(c, "frame", e, {e}, first, Absent)
    BY <2>1
  <2>3. \A i \in DOMAIN first : first[i][1] \notin {"made", "binding", "ledger"}
    BY <1>4
  <2>4. /\ Loads(e) /\ {e} \in SUBSET Epochs /\ e \in {e}
        /\ \A d \in Controllers \ {c} : {e} \cap call[d].locks = {}
    BY OpensFacts
  <2>5. PICK locks \in SUBSET Epochs : locks = {e}
    BY <2>4
  <2>6. PICK told \in Transitions \cup {Absent} : told = Absent
    OBVIOUS
  <2>7. PICK op \in Exclusive : op = "frame"
    BY <1>5
  <2>8. Begin(c, op, e, locks, first, told)
    BY <2>2, <2>5, <2>6, <2>7
  <2>9. e \in locks /\ \A d \in Controllers \ {c} : locks \cap call[d].locks = {}
    BY <2>4, <2>5
  <2>10. op # "consume" /\ told = Absent
    BY <2>6, <2>7
  <2> QED
    BY <2>3, <2>4, <2>8, <2>9, <2>10, BeginIInv
<1> QED
  BY <1>9, <1>10, <1>11

\* The restore may begin.
LEMMA ConsumeIInv ==
  ASSUME IInv, NEW c \in Controllers, NEW e \in Epochs, NEW t \in Transitions, ConsumeRestore(c, e, t)
  PROVE  IInv'
<1>1. Opens(c, e) /\ Bound(e) /\ disk[e].ledger = "UNCONSUMED"
  BY DEF ConsumeRestore
<1>2. PICK body \in Bodies : body = [Body(e) EXCEPT !.led = "CONSUMED"]
  BY <1>1, OpensFacts DEF Bodies
<1>3. PICK w \in Writes : w = <<"ledger", t>>
  BY WritesHold
<1>4. PICK first \in Seq(Writes) : first = <<w>>
  <2>1. <<w>> \in Seq(Writes)
    OBVIOUS
  <2> QED
    BY <2>1
<1>5. PICK todo \in Seq(Writes) : todo = first \o StateUpdate(body)
  BY WithStateUpdate
<1>6. Len(first) = 1 /\ first[1] = w /\ DOMAIN first = {1}
  BY <1>4
<1>7. /\ Len(todo) = 3 /\ DOMAIN todo = 1..3
      /\ \A i \in 1..3 : IF i <= 1 THEN todo[i] = w ELSE todo[i][1] \in {"manifest", "record"}
  <2>1. Len(todo) = 3
    <3>1. Len(first \o StateUpdate(body)) = Len(first) + 2
      BY WithStateUpdate
    <3> QED
      BY <1>5, <1>6, <3>1
  <2>2. DOMAIN todo = 1..3
    BY <2>1, LenProperties
  <2>3. \A i \in DOMAIN todo :
          IF i <= Len(first) THEN todo[i] = first[i] /\ i \in DOMAIN first
          ELSE todo[i][1] \in {"manifest", "record"}
    BY <1>5, WithStateUpdate
  <2> QED
    BY <1>6, <2>1, <2>2, <2>3
<1>8. Head(todo) = w /\ w[1] = "ledger" /\ w[2] = t
  BY <1>3, <1>7
<1>9. \A i \in DOMAIN todo :
        /\ todo[i][1] # "made" /\ todo[i][1] # "binding"
        /\ todo[i][1] = "ledger" => i = 1 /\ todo[i][2] = t
  BY <1>7, <1>8
<1>10. Begin(c, "consume", e, {e}, todo, t)
  BY <1>2, <1>3, <1>4, <1>5 DEF ConsumeRestore
<1>11. "consume" \in Exclusive
  BY DEF Exclusive, Ops
<1>12. /\ Loads(e) /\ {e} \in SUBSET Epochs /\ e \in {e}
       /\ \A d \in Controllers \ {c} : {e} \cap call[d].locks = {}
  BY <1>1, OpensFacts
<1>13. PICK op \in Exclusive, locks \in SUBSET Epochs, told \in Transitions \cup {Absent} :
         op = "consume" /\ locks = {e} /\ told = t
  BY <1>11, <1>12
<1>14. Begin(c, op, e, locks, todo, told)
  BY <1>10, <1>13
<1>15. e \in locks /\ \A d \in Controllers \ {c} : locks \cap call[d].locks = {}
  BY <1>12, <1>13
<1>16. \A i \in DOMAIN todo :
         /\ todo[i][1] # "made"
         /\ todo[i][1] = "binding" => todo[i][2] # "PENDING"
         /\ todo[i][1] = "ledger" => op = "consume" /\ i = 1 /\ Len(todo) = 3 /\ todo[i][2] = told
  BY <1>7, <1>9, <1>13
<1>17. /\ Head(todo)[1] = "ledger" /\ told \in Transitions /\ Bound(e) /\ Len(todo) = 3
       /\ disk[e].ledger = "UNCONSUMED" /\ op = "consume"
  BY <1>1, <1>7, <1>8, <1>13
<1> QED
  BY <1>12, <1>14, <1>15, <1>16, <1>17, BeginIInv


\* The second of two locks is of the greater reference.
LEMMA OrderedLocks ==
  ASSUME NEW old \in Epochs, NEW new \in Epochs, old # new
  PROVE  /\ LockOrder(old, new)[1] \in Epochs /\ LockOrder(old, new)[2] \in Epochs
         /\ LockOrder(old, new)[1] < LockOrder(old, new)[2]
<1>1. old \in Nat /\ new \in Nat
  BY EpochsAssumption
<1>2. CASE old < new
  BY <1>1, <1>2 DEF LockOrder
<1>3. CASE new < old
  BY <1>1, <1>3 DEF LockOrder
<1> QED
  BY <1>1, <1>2, <1>3

\* A supersession that got its second lock and passed the barrier.
LEMMA SupersedeBegins ==
  ASSUME IInv, NEW c \in Controllers, Supersede(c)
  PROVE  \/ call' = [call EXCEPT ![c] = Idle] /\ claimed' = None /\ UNCHANGED <<disk, interrupts, permits>>
         \/ \E old, new \in Epochs :
              /\ old = call[c].epoch /\ Loads(old) /\ Body(old) \in Bodies /\ Body(old).st \notin Terminal
              /\ \A d \in Controllers \ {c} : {old, new} \cap call[d].locks = {}
              /\ Begin(c, "supersede", old, {old, new},
                       StateUpdate([Body(old) EXCEPT !.st = "SUPERSEDED"]), Absent)
<1>1. /\ call[c].op = "locking" /\ call[c].epoch \in Epochs /\ call[c].locks \subseteq Epochs
      /\ Typed
  BY DEF IInv, Typed, Supersede, Calls
<1> SUFFICES ASSUME ~(call' = [call EXCEPT ![c] = Idle] /\ claimed' = None /\ UNCHANGED <<disk, interrupts, permits>>)
             PROVE  \E old, new \in Epochs :
                      /\ old = call[c].epoch /\ Loads(old) /\ Body(old) \in Bodies /\ Body(old).st \notin Terminal
                      /\ \A d \in Controllers \ {c} : {old, new} \cap call[d].locks = {}
                      /\ Begin(c, "supersede", old, {old, new},
                               StateUpdate([Body(old) EXCEPT !.st = "SUPERSEDED"]), Absent)
  OBVIOUS
<1>2. PICK first \in Epochs, second \in Epochs, old \in Epochs :
        /\ old = call[c].epoch /\ second = call[c].awaits
        /\ call[c].locks = {first} /\ old \in {first, second} /\ first < second
  BY <1>1, NoneAssumption DEF IInv, Locked
<1>3. PICK new : new = IF second = old THEN CHOOSE e \in call[c].locks : TRUE ELSE second
  OBVIOUS
<1>4. (CHOOSE e \in {first} : TRUE) = first
  OBVIOUS
<1>5. new \in Epochs /\ {old, new} = {first, second}
  BY <1>2, <1>3, <1>4
<1>6. /\ Free(second) /\ Supersedable(old, new)
      /\ Begin(c, "supersede", old, {old, new},
               StateUpdate([Body(old) EXCEPT !.st = "SUPERSEDED"]), Absent)
  BY <1>2, <1>3 DEF Supersede
<1>7. Loads(old) /\ Body(old) \in Bodies /\ Body(old).st \notin Terminal
  BY <1>1, <1>6, LoadsFacts DEF Supersedable
<1>8. \A d \in Controllers \ {c} : {old, new} \cap call[d].locks = {}
  <2>1. \A d \in Controllers \ {c} : first \notin call[d].locks /\ second \notin call[d].locks
    BY <1>2, <1>6 DEF IInv, Locked, Free
  <2> QED
    BY <1>5, <2>1
<1> QED
  BY <1>2, <1>5, <1>6, <1>7, <1>8

LEMMA SupersedeIInv ==
  ASSUME IInv, NEW c \in Controllers,
         \/ Supersede(c)
         \/ \E old, new \in Epochs : BeginSupersede(c, old, new)
  PROVE  IInv'
<1>1. ASSUME NEW old \in Epochs, NEW new \in Epochs, BeginSupersede(c, old, new) PROVE IInv'
  <2>1. PICK first \in Epochs, second \in Epochs :
          first = LockOrder(old, new)[1] /\ second = LockOrder(old, new)[2] /\ first < second
    BY <1>1, OrderedLocks DEF BeginSupersede
  <2>2. PICK x \in Calls :
          /\ x.op = "locking" /\ x.epoch = old /\ x.locks = {first} /\ x.awaits = second
          /\ x.todo = <<>> /\ DOMAIN x.todo = {} /\ x.told = Absent
          /\ call' = [call EXCEPT ![c] = x]
    <3> DEFINE x == [Idle EXCEPT !.op = "locking", !.epoch = old, !.locks = {first}, !.awaits = second]
    <3>1. x \in Calls
      BY IdleCall DEF Calls, Ops
    <3>2. /\ x.op = "locking" /\ x.epoch = old /\ x.locks = {first} /\ x.awaits = second
          /\ x.todo = <<>> /\ DOMAIN x.todo = {} /\ x.told = Absent
      BY IdleCall DEF Idle
    <3>3. call' = [call EXCEPT ![c] = x]
      BY <1>1, <2>1 DEF BeginSupersede
    <3> HIDE DEF x
    <3> QED
      BY <3>1, <3>2, <3>3
  <2>3. \A d \in Controllers \ {c} : x.locks \cap call[d].locks = {}
    <3>1. \A d \in Controllers : first \notin call[d].locks
      BY <1>1, <2>1 DEF BeginSupersede, Free
    <3> QED
      BY <2>2, <3>1
  <2>6. old \in {first, second}
    BY <2>1 DEF LockOrder
  <2>4. /\ UNCHANGED <<disk, permits>> /\ interrupts' \in 0..MaxInterrupts
        /\ claimed' \in Epochs \cup {None} /\ UnconsumedIsTrue'
    BY <1>1, NothingClaimed DEF BeginSupersede, IInv, Typed
  <2>5. x.op \notin Exclusive /\ \A e \in x.locks : e < x.awaits
    BY <2>1, <2>2 DEF Exclusive
  <2> QED
    BY <2>2, <2>3, <2>6, <2>4, <2>5, CallIInv
<1>2. ASSUME Supersede(c) PROVE IInv'
  <2>1. /\ call[c].op = "locking" /\ call[c].epoch \in Epochs /\ call[c].locks \subseteq Epochs
        /\ Typed
    BY <1>2 DEF IInv, Typed, Supersede, Calls
  <2>2. CASE call' = [call EXCEPT ![c] = Idle] /\ claimed' = None /\ UNCHANGED <<disk, interrupts, permits>>
    <3>1. interrupts' \in 0..MaxInterrupts
      BY <2>1, <2>2 DEF Typed
    <3> QED
      BY <2>2, <3>1, NothingClaimed, IdleIInv
  <2>3. CASE ~(call' = [call EXCEPT ![c] = Idle] /\ claimed' = None /\ UNCHANGED <<disk, interrupts, permits>>)
    <3>1. PICK old \in Epochs, new \in Epochs :
            /\ Loads(old) /\ Body(old) \in Bodies
            /\ \A d \in Controllers \ {c} : {old, new} \cap call[d].locks = {}
            /\ Begin(c, "supersede", old, {old, new},
                     StateUpdate([Body(old) EXCEPT !.st = "SUPERSEDED"]), Absent)
      BY <1>2, <2>3, SupersedeBegins
    <3>2. PICK body \in Bodies : body = [Body(old) EXCEPT !.st = "SUPERSEDED"]
      BY <3>1 DEF Bodies, States
    <3>3. PICK todo \in Seq(Writes) :
            /\ todo = StateUpdate(body)
            /\ \A i \in DOMAIN todo : todo[i][1] \in {"manifest", "record"}
      <4>1. /\ StateUpdate(body) \in Seq(Writes) /\ Len(StateUpdate(body)) = 2
            /\ StateUpdate(body)[1] = <<"manifest", body>>
            /\ StateUpdate(body)[2] = <<"record", [body |-> body, digest |-> body]>>
        BY StateUpdateWrites
      <4>2. DOMAIN StateUpdate(body) = 1..2
        BY <4>1, LenProperties
      <4> QED
        BY <4>1, <4>2
    <3>4. PICK op \in Exclusive, locks \in SUBSET Epochs, told \in Transitions \cup {Absent} :
            op = "supersede" /\ locks = {old, new} /\ told = Absent
      BY DEF Exclusive, Ops
    <3>5. Begin(c, op, old, locks, todo, told)
      BY <3>1, <3>2, <3>3, <3>4
    <3>6. old \in locks /\ \A d \in Controllers \ {c} : locks \cap call[d].locks = {}
      BY <3>1, <3>4
    <3>7. \A i \in DOMAIN todo : todo[i][1] \notin {"made", "binding", "ledger"}
      BY <3>3
    <3>8. op # "consume" /\ told = Absent
      BY <3>4
    <3> QED
      BY <3>1, <3>5, <3>6, <3>7, <3>8, BeginIInv
  <2> QED
    BY <2>2, <2>3
<1> QED
  BY <1>1, <1>2


-----------------------------------------------------------------------------
(* Answers, returns and interruptions *)

\* Nothing is permitted of an epoch whose ledger is unconsumed.
LEMMA UnconsumedEpoch ==
  ASSUME IInv, NEW e \in Epochs, disk[e].ledger = "UNCONSUMED"
  PROVE  permits[e] = {}
<1>1. permits[e] \subseteq Transitions /\ permits[e] \subseteq {disk[e].ledger}
  BY DEF IInv, Typed, OneRestore
<1> QED
  BY <1>1, LedgerAssumption

\* An epoch that is not bound was not consumed either.
LEMMA RefusedEpoch ==
  ASSUME IInv, NEW c \in Controllers, NEW e \in Epochs, Classify(c, e) \/ RefuseRestore(c, e)
  PROVE  disk[e].ledger = "UNCONSUMED"
<1>1. CASE Bound(e)
  BY <1>1 DEF Classify, RefuseRestore
<1>2. CASE ~Bound(e)
  <2>1. Typed /\ Loads(e)
    BY DEF IInv, Opens, Classify, RefuseRestore
  <2>2. disk[e].ledger \in {"UNCONSUMED"} \cup Transitions
    BY <2>1, LoadsFacts
  <2> QED
    BY <1>2, <2>2 DEF IInv, Consumed
<1> QED
  BY <1>1, <1>2

LEMMA AnswersIInv ==
  ASSUME IInv, NEW c \in Controllers, NEW e \in Epochs,
         \/ Classify(c, e) \/ RefuseRestore(c, e)
         \/ \E t \in Transitions : ReissuePermit(c, e, t)
  PROVE  IInv'
<1>1. CASE Classify(c, e) \/ RefuseRestore(c, e)
  <2>1. Answer(e) /\ UNCHANGED permits /\ claimed' = e /\ UNCHANGED disk
    BY <1>1 DEF Classify, RefuseRestore, Answer
  <2>2. permits[e] = {} /\ disk[e].ledger = "UNCONSUMED"
    BY <1>1, RefusedEpoch, UnconsumedEpoch
  <2>3. OneRestore' /\ UnconsumedIsTrue' /\ permits' \in [Epochs -> SUBSET Transitions]
    BY <2>1, <2>2 DEF IInv, Typed, OneRestore, UnconsumedIsTrue
  <2> QED
    BY <2>1, <2>3, AnswerIInv
<1>2. ASSUME NEW t \in Transitions, ReissuePermit(c, e, t) PROVE IInv'
  <2>1. /\ Answer(None) /\ claimed' = None /\ UNCHANGED disk /\ disk[e].ledger = t /\ Loads(e)
        /\ permits' = [permits EXCEPT ![e] = @ \cup {t}]
    BY <1>2 DEF ReissuePermit, Answer, Opens
  <2>2. permits \in [Epochs -> SUBSET Transitions] /\ Typed /\ OneRestore
    BY DEF IInv, Typed
  <2>3. permits' \in [Epochs -> SUBSET Transitions] /\ OneRestore'
    BY <2>1, <2>2 DEF OneRestore
  <2>4. disk[e].record # Absent /\ UnconsumedIsTrue'
    BY <2>1, <2>2, LoadsFacts, NothingClaimed
  <2>5. \A o \in Epochs : permits'[o] # {} => permits[o] # {} \/ disk[o].record # Absent
    BY <2>1, <2>2, <2>4
  <2> QED
    BY <2>1, <2>3, <2>4, <2>5, AnswerIInv
<1> QED
  BY <1>1, <1>2

\* A caller is told of the transition the ledger holds.
LEMMA ReturnIInv ==
  ASSUME IInv, NEW c \in Controllers, Return(c)
  PROVE  IInv'
<1>1. /\ Typed /\ Locked /\ Planned /\ Created /\ Consumed /\ OneRestore
      /\ call \in [Controllers -> Calls] /\ permits \in [Epochs -> SUBSET Transitions]
  BY DEF IInv, Typed
<1>2. /\ call[c].op \notin {"idle", "locking"} /\ call[c].todo = <<>>
      /\ call' = [call EXCEPT ![c] = Idle] /\ claimed' = None /\ UNCHANGED <<disk, interrupts>>
  BY DEF Return
<1>3. PICK e \in Epochs, told \in Transitions \cup {Absent} :
        e = call[c].epoch /\ told = call[c].told
  BY <1>1, <1>2, IdleCall DEF Typed, Calls
<1>4. CASE told = Absent \/ ~Loads(e)
  <2>1. UNCHANGED permits
    BY <1>3, <1>4 DEF Return
  <2>2. interrupts' \in 0..MaxInterrupts
    BY <1>1, <1>2 DEF Typed
  <2> QED
    BY <1>2, <2>1, <2>2, NothingClaimed, IdleIInv
<1>5. CASE told # Absent /\ Loads(e)
  <2>1. permits' = [permits EXCEPT ![e] = @ \cup {told}]
    BY <1>3, <1>5 DEF Return
  <2>2. told \in Transitions /\ call[c].op = "consume"
    BY <1>1, <1>3, <1>5 DEF Planned
  <2>3. disk[e].ledger = told
    <3>1. Len(<<>>) = 0
      OBVIOUS
    <3>2. Len(call[c].todo) # 3
      BY <1>2, <3>1
    <3> QED
      BY <1>1, <1>3, <2>2, <3>2 DEF Consumed
  <2>4. disk[e].record # Absent
    BY <1>1, <1>5, LoadsFacts
  <2>5. permits' \in [Epochs -> SUBSET Transitions] /\ OneRestore'
    BY <1>1, <1>2, <2>1, <2>2, <2>3 DEF OneRestore
  <2>6. /\ call' \in [Controllers -> Calls] /\ call'[c] = Idle
        /\ \A d \in Controllers \ {c} : call'[d] = call[d]
    BY <1>1, <1>2, IdleCall
  <2>7. Typed'
    BY <1>1, <1>2, <2>5, <2>6, IdleCall, NothingClaimed DEF Typed
  <2>8. Locked' /\ Planned'
    BY <1>1, <2>6, IdleCall DEF Locked, Planned, Exclusive
  <2>9. Created'
    <3>1. ~Building(c)' /\ \A d \in Controllers \ {c} : Building(d)' <=> Building(d)
      BY <2>6, IdleCall DEF Building, MakesFirst
    <3>2. \A o \in Epochs : disk'[o].record = Absent => permits'[o] = {}
      BY <1>1, <1>2, <2>1, <2>4 DEF Created
    <3> QED
      BY <1>1, <1>2, <2>6, <3>1, <3>2, IdleCall DEF Created, Exclusive
  <2>10. Consumed'
    BY <1>1, <1>2, <2>6, IdleCall DEF Consumed, Bound
  <2> QED
    BY <1>2, <2>5, <2>7, <2>8, <2>9, <2>10, NothingClaimed DEF IInv
<1> QED
  BY <1>4, <1>5

\* A call fails or dies, or finds that the epoch is made already.
LEMMA InterruptIInv ==
  ASSUME IInv, NEW c \in Controllers, Interrupt(c) \/ Collide(c)
  PROVE  IInv'
<1>1. /\ Typed /\ interrupts \in 0..MaxInterrupts
      /\ call' = [call EXCEPT ![c] = Idle] /\ UNCHANGED <<disk, permits>>
  BY DEF Interrupt, Collide, IInv, Typed
<1>2. interrupts' \in 0..MaxInterrupts
  BY <1>1, InterruptsAssumption DEF Interrupt, Collide
<1>3. claimed' \in {None, BindingClaim(c)}
  BY DEF Interrupt, Collide
<1>4. CASE claimed' = None
  BY <1>1, <1>2, <1>4, NothingClaimed, IdleIInv
<1>5. CASE claimed' = BindingClaim(c) /\ claimed' # None
  <2>1. PICK e : e = call[c].epoch /\ claimed' = e /\ disk[e].ledger = "UNCONSUMED" /\ call[c].op = "bind_v2"
    BY <1>5 DEF BindingClaim
  <2>2. e \in Epochs
    BY <1>1, <2>1, IdleCall DEF Typed
  <2>3. permits[e] = {}
    BY <2>1, <2>2, UnconsumedEpoch
  <2>4. UnconsumedIsTrue' /\ claimed' \in Epochs \cup {None}
    BY <1>1, <2>1, <2>2, <2>3 DEF UnconsumedIsTrue
  <2> QED
    BY <1>1, <1>2, <2>4, IdleIInv
<1> QED
  BY <1>3, <1>4, <1>5


-----------------------------------------------------------------------------
(* Creation *)

\* Two parts of a plan, one after the other.
LEMMA PlanParts ==
  ASSUME NEW s \in Seq(Writes), NEW t \in Seq(Writes)
  PROVE  /\ s \o t \in Seq(Writes) /\ Len(s \o t) = Len(s) + Len(t)
         /\ \A i \in DOMAIN (s \o t) :
              \/ i \in DOMAIN s /\ (s \o t)[i] = s[i]
              \/ i - Len(s) \in DOMAIN t /\ (s \o t)[i] = t[i - Len(s)]
<1>1. PICK m \in Nat, n \in Nat, both \in Seq(Writes) :
        /\ m = Len(s) /\ n = Len(t) /\ both = s \o t
        /\ DOMAIN s = 1..m /\ DOMAIN t = 1..n
  BY ConcatProperties, LenProperties
<1>2. /\ Len(both) = m + n
      /\ \A i \in 1..(m + n) : both[i] = IF i <= m THEN s[i] ELSE t[i - m]
  BY <1>1, ConcatProperties
<1>3. DOMAIN both = 1..(m + n)
  BY <1>1, <1>2, LenProperties
<1>4. ASSUME NEW i \in 1..(m + n)
      PROVE  (i \in 1..m /\ both[i] = s[i]) \/ (i - m \in 1..n /\ both[i] = t[i - m])
  BY <1>2
<1> QED
  BY <1>1, <1>2, <1>3, <1>4

\* The directory of the epoch is made first and the record is written last.
LEMMA CreatePlanWrites ==
  ASSUME NEW e \in Epochs, NEW supersedes \in Epochs \cup {None}
  PROVE  /\ CreatePlan(e, supersedes) \in Seq(Writes)
         /\ CreatePlan(e, supersedes) # <<>>
         /\ Head(CreatePlan(e, supersedes)) = <<"made", 1>>
         /\ \A i \in DOMAIN CreatePlan(e, supersedes) :
              LET w == CreatePlan(e, supersedes)[i] IN
              /\ w[1] = "made" /\ w[2] = 1 => i = 1
              /\ w[1] = "record" => i = Len(CreatePlan(e, supersedes))
              /\ w[1] = "ledger" => w[2] = "UNCONSUMED"
              /\ w[1] = "record" => /\ w[2].body.st = "INITIALISED" /\ w[2].body.art = "PENDING"
                                    /\ w[2].body.led = "UNCONSUMED"
<1>1. PICK body \in Bodies :
        body = [st |-> "INITIALISED", art |-> "PENDING", led |-> "UNCONSUMED", supersedes |-> supersedes]
  BY DEF Bodies, States
<1>2. PICK w1 \in Writes, w2 \in Writes, w3 \in Writes, w4 \in Writes :
        w1 = <<"made", 1>> /\ w2 = <<"made", 2>> /\ w3 = <<"made", 3>> /\ w4 = <<"made", 4>>
  <2>1. 1 \in 1..4 /\ 2 \in 1..4 /\ 3 \in 1..4 /\ 4 \in 1..4
    OBVIOUS
  <2> QED
    BY <2>1, WritesHold
<1>3. PICK w5 \in Writes, w6 \in Writes, w7 \in Writes, w8 \in Writes :
        /\ w5 = <<"manifest", body>> /\ w6 = <<"private", "written">>
        /\ w7 = <<"ledger", "UNCONSUMED">> /\ w8 = <<"spool", <<>> >>
  <2>1. <<>> \in Chains
    <3>1. <<>> \in Seq(Stages) /\ Len(<<>>) = 0
      BY EmptySeq
    <3> QED
      BY <3>1, ChainIsSeq, 0 <= 4
  <2> QED
    BY <2>1, WritesHold
<1>4. PICK w9 \in Writes, w10 \in Writes :
        w9 = <<"binding", "PENDING">> /\ w10 = <<"record", [body |-> body, digest |-> body]>>
  <2>1. [body |-> body, digest |-> body] \in [body : Bodies, digest : Bodies]
    OBVIOUS
  <2> QED
    BY <2>1, WritesHold
<1>5. /\ w1[1] = "made" /\ w2[1] = "made" /\ w3[1] = "made" /\ w4[1] = "made"
      /\ w2[2] = 2 /\ w3[2] = 3 /\ w4[2] = 4
  BY <1>2
<1>6. /\ w5[1] = "manifest" /\ w6[1] = "private" /\ w7[1] = "ledger" /\ w7[2] = "UNCONSUMED"
      /\ w8[1] = "spool" /\ w9[1] = "binding" /\ w10[1] = "record"
  BY <1>3, <1>4
<1>7. PICK start \in Seq(Writes) : start = <<w1, w2, w3, w4, w5, w6, w7, w8>>
  <2>1. <<w1, w2, w3, w4, w5, w6, w7, w8>> \in Seq(Writes)
    OBVIOUS
  <2> QED
    BY <2>1
<1>8. /\ Len(start) = 8 /\ DOMAIN start = 1..8 /\ start[1] = w1
      /\ \A i \in 2..8 : start[i] \in {w2, w3, w4, w5, w6, w7, w8}
  BY <1>7
<1>9. PICK binding \in Seq(Writes) :
        /\ binding = IF Layout[e] = "v2" THEN <<w9>> ELSE <<>>
        /\ \A i \in DOMAIN binding : binding[i] = w9
  <2>1. <<w9>> \in Seq(Writes) /\ \A i \in DOMAIN <<w9>> : <<w9>>[i] = w9
    OBVIOUS
  <2>2. <<>> \in Seq(Writes) /\ DOMAIN <<>> = {}
    BY EmptySeq
  <2> QED
    BY <2>1, <2>2
<1>10. PICK end \in Seq(Writes) : end = <<w10>> /\ Len(end) = 1 /\ DOMAIN end = {1} /\ end[1] = w10
  <2>1. <<w10>> \in Seq(Writes) /\ Len(<<w10>>) = 1 /\ DOMAIN <<w10>> = {1} /\ <<w10>>[1] = w10
    OBVIOUS
  <2> QED
    BY <2>1
<1>11. PICK middle \in Seq(Writes), m \in Nat :
         /\ middle = start \o binding /\ m = Len(middle) /\ m >= 8
         /\ \A i \in DOMAIN middle :
              \/ i \in 1..8 /\ middle[i] = start[i]
              \/ i # 1 /\ middle[i] = w9
  <2>1. /\ start \o binding \in Seq(Writes) /\ Len(start \o binding) = Len(start) + Len(binding)
        /\ \A i \in DOMAIN (start \o binding) :
             \/ i \in DOMAIN start /\ (start \o binding)[i] = start[i]
             \/ i - Len(start) \in DOMAIN binding /\ (start \o binding)[i] = binding[i - Len(start)]
    BY PlanParts
  <2>2. PICK middle \in Seq(Writes) : middle = start \o binding
    BY <2>1
  <2>3. PICK n \in Nat : n = Len(binding) /\ DOMAIN binding = 1..n
    BY LenProperties
  <2>4. Len(middle) = 8 + n
    BY <1>8, <2>1, <2>2, <2>3
  <2>5. \A i \in DOMAIN middle :
          \/ i \in 1..8 /\ middle[i] = start[i]
          \/ i # 1 /\ middle[i] = w9
    <3>1. 1 - 8 \notin 1..n
      OBVIOUS
    <3> QED
      BY <1>8, <1>9, <2>1, <2>2, <2>3, <3>1
  <2>6. PICK m \in Nat : m = 8 + n /\ m >= 8
    OBVIOUS
  <2> QED
    BY <2>2, <2>4, <2>5, <2>6
<1>12. PICK todo \in Seq(Writes) :
         /\ todo = middle \o end /\ Len(todo) = m + 1 /\ m + 1 >= 9
         /\ \A i \in DOMAIN todo :
              \/ i \in DOMAIN middle /\ todo[i] = middle[i]
              \/ i - m = 1 /\ todo[i] = w10
  <2>1. /\ middle \o end \in Seq(Writes) /\ Len(middle \o end) = Len(middle) + Len(end)
        /\ \A i \in DOMAIN (middle \o end) :
             \/ i \in DOMAIN middle /\ (middle \o end)[i] = middle[i]
             \/ i - Len(middle) \in DOMAIN end /\ (middle \o end)[i] = end[i - Len(middle)]
    BY PlanParts
  <2>2. PICK todo \in Seq(Writes) : todo = middle \o end
    BY <2>1
  <2>3. Len(todo) = m + 1
    BY <1>10, <1>11, <2>1, <2>2
  <2>4. m + 1 >= 9
    BY <1>11
  <2>5. \A i \in DOMAIN todo :
          \/ i \in DOMAIN middle /\ todo[i] = middle[i]
          \/ i - m = 1 /\ todo[i] = w10
    BY <1>10, <1>11, <2>1, <2>2
  <2> QED
    BY <2>2, <2>3, <2>4, <2>5
<1>13. CreatePlan(e, supersedes) = todo
  BY <1>1, <1>2, <1>3, <1>4, <1>7, <1>9, <1>10, <1>11, <1>12 DEF CreatePlan
<1>14. DOMAIN todo = 1..Len(todo)
  BY LenProperties
<1>15. ASSUME NEW i \in DOMAIN todo
       PROVE  \/ i = 1 /\ todo[i] = w1
              \/ todo[i] \in {w2, w3, w4, w5, w6, w7, w8, w9}
              \/ i = Len(todo) /\ todo[i] = w10
  <2>1. i \in Nat /\ i >= 1
    BY <1>12, <1>14
  <2>2. CASE i \in DOMAIN middle /\ todo[i] = middle[i]
    <3>1. CASE i = 1
      BY <1>8, <1>11, <2>2, <3>1
    <3>2. CASE i # 1
      BY <1>8, <1>11, <2>1, <2>2, <3>2
    <3> QED
      BY <3>1, <3>2
  <2>3. CASE i - m = 1 /\ todo[i] = w10
    BY <1>11, <1>12, <2>1, <2>3
  <2> QED
    BY <1>12, <2>2, <2>3
<1>16. ASSUME NEW i \in DOMAIN todo
       PROVE  /\ todo[i][1] = "made" /\ todo[i][2] = 1 => i = 1
              /\ todo[i][1] = "record" => i = Len(todo)
              /\ todo[i][1] = "ledger" => todo[i][2] = "UNCONSUMED"
              /\ todo[i][1] = "record" =>
                   /\ todo[i][2].body.st = "INITIALISED" /\ todo[i][2].body.art = "PENDING"
                   /\ todo[i][2].body.led = "UNCONSUMED"
  <2>1. CASE i = 1 /\ todo[i] = w1
    BY <1>5, <2>1
  <2>2. CASE todo[i] \in {w2, w3, w4, w5, w6, w7, w8, w9}
    <3>1. ASSUME NEW w \in {w2, w3, w4, w5, w6, w7, w8, w9}
          PROVE  /\ ~(w[1] = "made" /\ w[2] = 1) /\ w[1] # "record"
                 /\ w[1] = "ledger" => w[2] = "UNCONSUMED"
      BY <1>5, <1>6
    <3> QED
      BY <2>2, <3>1
  <2>3. CASE i = Len(todo) /\ todo[i] = w10
    <3>1. w10[2].body = body
      BY <1>4
    <3> QED
      BY <1>1, <1>6, <2>3, <3>1
  <2> QED
    BY <1>15, <2>1, <2>2, <2>3
<1>17. todo # <<>> /\ Head(todo) = <<"made", 1>>
  <2>1. 1 \in DOMAIN todo
    <3>1. 1 \in 1..(m + 1)
      BY <1>11, <1>12
    <3> QED
      BY <1>12, <1>14, <3>1
  <2>2. todo[1] = w1
    <3>1. 1 - m # 1
      BY <1>11
    <3>2. 1 \in DOMAIN middle /\ todo[1] = middle[1]
      BY <1>12, <2>1, <3>1
    <3> QED
      BY <1>8, <1>11, <3>2
  <2>3. todo # <<>>
    BY <2>1, EmptySeq
  <2> QED
    BY <1>2, <2>1, <2>2, <2>3
<1> QED
  BY <1>13, <1>16, <1>17

LEMMA CreateIInv ==
  ASSUME IInv, NEW c \in Controllers, NEW e \in Epochs, NEW supersedes \in Epochs \cup {None},
         CreateEpoch(c, e, supersedes)
  PROVE  IInv'
<1>1. PICK todo \in Seq(Writes) :
        /\ todo = CreatePlan(e, supersedes) /\ Head(todo) = <<"made", 1>>
        /\ \A i \in DOMAIN todo :
             /\ todo[i][1] = "made" /\ todo[i][2] = 1 => i = 1
             /\ todo[i][1] = "record" => i = Len(todo)
             /\ todo[i][1] = "ledger" => todo[i][2] = "UNCONSUMED"
  BY CreatePlanWrites
<1>2. PICK x \in Calls :
        /\ x.op = "create" /\ x.epoch = e /\ x.locks = {} /\ x.awaits = None
        /\ x.todo = todo /\ x.told = Absent
        /\ call' = [call EXCEPT ![c] = x]
  <2> DEFINE x == [Idle EXCEPT !.op = "create", !.epoch = e, !.todo = todo]
  <2>1. x \in Calls
    BY IdleCall DEF Calls, Ops
  <2>2. /\ x.op = "create" /\ x.epoch = e /\ x.locks = {} /\ x.awaits = None
        /\ x.todo = todo /\ x.told = Absent
    BY IdleCall DEF Idle
  <2>3. call' = [call EXCEPT ![c] = x]
    BY <1>1 DEF CreateEpoch
  <2> HIDE DEF x
  <2> QED
    BY <2>1, <2>2, <2>3
<1>3. /\ UNCHANGED <<disk, permits>> /\ interrupts' \in 0..MaxInterrupts
      /\ claimed' \in Epochs \cup {None} /\ UnconsumedIsTrue'
  BY NothingClaimed DEF CreateEpoch, IInv, Typed
<1>4. Head(x.todo)[1] = "made" /\ Head(x.todo)[2] = 1
  BY <1>1, <1>2
<1>5. x.op \notin Exclusive /\ x.op \notin {"idle", "locking", "consume"}
  BY <1>2 DEF Exclusive
<1>6. \A i \in DOMAIN x.todo :
        /\ x.todo[i][1] = "made" => x.op = "create"
        /\ x.todo[i][1] = "made" /\ x.todo[i][2] = 1 => i = 1
        /\ x.todo[i][1] = "record" /\ x.op = "create" => i = Len(x.todo)
        /\ x.todo[i][1] = "binding" => x.op = "create" \/ x.todo[i][2] # "PENDING"
        /\ x.todo[i][1] = "ledger" =>
             \/ x.op = "create" /\ x.todo[i][2] = "UNCONSUMED"
             \/ x.op = "consume" /\ i = 1 /\ Len(x.todo) = 3 /\ x.todo[i][2] = x.told
  BY <1>1, <1>2
<1> QED
  BY <1>2, <1>3, <1>4, <1>5, <1>6, CallIInv


-----------------------------------------------------------------------------
(* The store *)

LEMMA NextIInv ==
  ASSUME IInv, [Next]_vars
  PROVE  IInv'
<1>1. CASE UNCHANGED vars
  BY <1>1 DEF vars, IInv, Typed, Locked, Planned, Created, Building, MakesFirst, Consumed, Bound,
               OneRestore, UnconsumedIsTrue
<1>2. ASSUME NEW c \in Controllers, Write(c) \/ Return(c) \/ Interrupt(c) \/ Collide(c) \/ Supersede(c)
      PROVE  IInv'
  BY <1>2, WriteIInv, ReturnIInv, InterruptIInv, SupersedeIInv
<1>3. ASSUME NEW c \in Controllers, NEW e \in Epochs,
             \E supersedes \in (Epochs \ {e}) \cup {None} : CreateEpoch(c, e, supersedes)
      PROVE  IInv'
  BY <1>3, CreateIInv
<1>4. ASSUME NEW c \in Controllers, NEW e \in Epochs,
             \/ BindArtifactRow(c, e) \/ MarkReady(c, e) \/ Activate(c, e)
             \/ \E a \in Artifacts : BindArtifact(c, e, a) \/ BindArtifactV2(c, e, a)
      PROVE  IInv'
  BY <1>4, BindIInv
<1>5. ASSUME NEW c \in Controllers, NEW e \in Epochs, Abandon(c, e) \/ \E stage \in Stages : IngestFrame(c, e, stage)
      PROVE  IInv'
  BY <1>5, FrameIInv DEF Abandon, IngestFrame, Stages
<1>6. ASSUME NEW c \in Controllers, NEW e \in Epochs,
             \/ \E t \in Transitions : ConsumeRestore(c, e, t) \/ ReissuePermit(c, e, t)
             \/ RefuseRestore(c, e) \/ Classify(c, e)
      PROVE  IInv'
  BY <1>6, ConsumeIInv, AnswersIInv
<1>7. ASSUME NEW c \in Controllers, NEW e \in Epochs, \E new \in Epochs : BeginSupersede(c, e, new)
      PROVE  IInv'
  BY <1>7, SupersedeIInv
<1> QED
  BY <1>1, <1>2, <1>3, <1>4, <1>5, <1>6, <1>7 DEF Next

\* Locks are taken in the order of the references.
LEMMA LockedNoWait == Typed /\ Locked => NoCircularWait
<1> SUFFICES ASSUME Typed, Locked, NEW c \in Controllers, NEW d \in Controllers,
                    call[c].awaits \in call[d].locks, call[d].awaits \in call[c].locks
             PROVE  FALSE
  BY DEF NoCircularWait
<1>1. call[c].locks \subseteq Epochs /\ call[d].locks \subseteq Epochs
  BY DEF Typed, Calls
<1>2. PICK m \in Epochs, n \in Epochs : m = call[c].awaits /\ n = call[d].awaits
  BY <1>1
<1>3. m \in Nat /\ n \in Nat /\ m # None /\ n # None
  BY EpochsAssumption, NoneAssumption
<1>4. n < m /\ m < n
  BY <1>2, <1>3 DEF Locked
<1> QED
  BY <1>3, <1>4

\* Whatever fails, is asked again or runs at the same time: all permits of an
\* epoch are for the one transition its ledger holds, "unconsumed" is never
\* said of an epoch whose restore was permitted, and no two controllers wait
\* for each other's locks (platform-recovery-controller-store.py).
THEOREM StoreSafe == Spec => []StoreInvariant
<1>1. Init => IInv
  BY InitIInv
<1>2. IInv /\ [Next]_vars => IInv'
  BY NextIInv
<1>3. IInv => StoreInvariant
  <2> SUFFICES ASSUME IInv PROVE StoreInvariant
    OBVIOUS
  <2>1. TypeOK
    BY DEF IInv, Typed, TypeOK, Calls
  <2> QED
    BY <2>1, LockedNoWait DEF IInv, StoreInvariant
<1> QED
  BY <1>1, <1>2, <1>3, PTL DEF Spec

-----------------------------------------------------------------------------
(***************************************************************************)
(* The refinement.  A call that writes an epoch turns the snapshot it      *)
(* began with into another, document by document; between its writes a     *)
(* reader gets the first, the second, or nothing.                          *)
(***************************************************************************)

\* The frame an operation may add to what it has read.
MayFollow(b, stage) ==
  /\ b.st \notin Terminal
  /\ \/ stage = "EPOCH_READY" /\ Last(b.chain) = "NONE" /\ b.led = "UNCONSUMED"
     \/ stage = "RUNNER_STARTED" /\ Last(b.chain) = "EPOCH_READY" /\ b.led = "UNCONSUMED"
     \/ stage = "RESTORE_BEGIN" /\ Last(b.chain) = "RUNNER_STARTED" /\ b.led # "UNCONSUMED"
     \/ stage = "COMMIT" /\ Last(b.chain) = "RESTORE_BEGIN" /\ b.led # "UNCONSUMED"
     \/ stage = "ABANDON" /\ (b.led # "UNCONSUMED" <=> Last(b.chain) = "RESTORE_BEGIN")

\* The state an epoch is left in by a frame.
Ended(st, stage) ==
  IF stage = "COMMIT" THEN "CONSUMED" ELSE IF stage = "ABANDON" THEN "ABANDONED" ELSE st

\* What an operation makes of the snapshot it began with.
Becomes(op, told, b, n) ==
  \/ /\ op \in {"bind", "bind_v2"}
     /\ b.art \notin Artifacts /\ n.art \in Artifacts \cup {"ROW_BOUND"}
     /\ n.st = b.st /\ n.led = b.led /\ n.chain = b.chain
  \/ /\ op = "transition"
     /\ (b.st = "INITIALISED" /\ n.st = "READY") \/ (b.st = "READY" /\ n.st = "ACTIVE")
     /\ n.art = b.art /\ n.led = b.led /\ n.chain = b.chain
  \/ /\ op = "supersede"
     /\ b.st \notin Terminal /\ n.st = "SUPERSEDED"
     /\ n.art = b.art /\ n.led = b.led /\ n.chain = b.chain
  \/ /\ op = "consume"
     /\ b.st = "ACTIVE" /\ b.led = "UNCONSUMED"
     /\ Last(b.chain) = "RUNNER_STARTED" /\ Len(b.chain) >= 2
     /\ n.st = b.st /\ n.art = b.art /\ n.chain = b.chain /\ n.led = told
  \/ /\ op = "frame"
     /\ \E stage \in Stages :
          /\ MayFollow(b, stage)
          /\ n.chain = Append(b.chain, stage) /\ n.st = Ended(b.st, stage)
     /\ n.art = b.art /\ n.led = b.led

\* The order in which documents are replaced.
Rank(f) == IF f = "record" THEN 4 ELSE IF f = "manifest" THEN 3 ELSE IF f = "spool" THEN 2 ELSE 1

Pending(todo, f) == \E i \in DOMAIN todo : todo[i][1] = f

\* Documents that are still to be written are of the snapshot the call began
\* with, the others of the one it ends with; and which are still to be
\* written tells a reader whether it gets one of the two.
Halfway(op, told, b, todo, d, n) ==
  /\ b \in Snapshots /\ n \in Snapshots /\ Becomes(op, told, b, n)
  /\ \A i, j \in DOMAIN todo : i < j => Rank(todo[i][1]) < Rank(todo[j][1])
  /\ \A i \in DOMAIN todo :
       /\ todo[i][1] = "record" => todo[i][2].body.st = n.st /\ todo[i][2].body.art = n.art
       /\ todo[i][1] \in {"frames", "spool"} => op = "frame" /\ todo[i][2] = n.chain
       /\ todo[i][1] = "ledger" => todo[i][2] = n.led
  /\ Pending(todo, "frames") => Pending(todo, "spool")
  /\ Pending(todo, "ledger") => Pending(todo, "record")
  /\ Pending(todo, "spool") /\ n.st # b.st => Pending(todo, "record")
  /\ op = "frame" /\ Pending(todo, "record") => n.st # b.st
  /\ IF Pending(todo, "record") THEN d.record.body.st = b.st /\ d.record.body.art = b.art
     ELSE d.record.body.st = n.st /\ d.record.body.art = n.art
  /\ d.ledger = IF Pending(todo, "ledger") THEN b.led ELSE n.led
  /\ d.frames = IF Pending(todo, "frames") THEN b.chain ELSE n.chain
  /\ d.spool = IF Pending(todo, "spool") THEN b.chain ELSE n.chain

\* Every call that writes is halfway; a creation ends with an initial record;
\* a restore is only authorized once a runner has started.
Story ==
  /\ \A c \in Controllers : call[c].op \in Exclusive =>
       \E n : Halfway(call[c].op, call[c].told, call[c].before, call[c].todo, disk[call[c].epoch], n)
  /\ \A c \in Controllers : call[c].op = "create" =>
       \A i \in DOMAIN call[c].todo : call[c].todo[i][1] = "record" =>
         /\ call[c].todo[i][2].body.st = "INITIALISED" /\ call[c].todo[i][2].body.art = "PENDING"
         /\ call[c].todo[i][2].body.led = "UNCONSUMED"
  /\ \A e \in Epochs : disk[e].ledger \in Transitions => Len(disk[e].frames) >= 2

\* One document of a plan is written.
LEMMA HalfwayOn ==
  ASSUME NEW op, NEW told, NEW b, NEW n, NEW todo \in Seq(Writes), todo # <<>>,
         NEW d, NEW d2, Halfway(op, told, b, todo, d, n), NEW f, NEW x, todo[1] = <<f, x>>,
         d2.ledger = IF f = "ledger" THEN x ELSE d.ledger,
         d2.record = IF f = "record" THEN x ELSE d.record,
         d2.spool = IF f = "spool" THEN x ELSE d.spool,
         d2.frames = IF f = "frames" THEN x ELSE d.frames
  PROVE  Halfway(op, told, b, Tail(todo), d2, n)
<1>1. PICK rest \in Seq(Writes), m \in Nat :
        /\ rest = Tail(todo) /\ DOMAIN rest = 1..m /\ DOMAIN todo = 1..(m + 1)
        /\ \A i \in 1..m : rest[i] = todo[i + 1]
  <2>1. /\ Tail(todo) \in Seq(Writes) /\ Len(todo) \in Nat \ {0} /\ Len(Tail(todo)) = Len(todo) - 1
        /\ DOMAIN todo = 1..Len(todo) /\ DOMAIN Tail(todo) = 1..Len(Tail(todo))
        /\ \A i \in 1..Len(Tail(todo)) : Tail(todo)[i] = todo[i + 1]
    <3>1. Len(todo) \in Nat \ {0} /\ DOMAIN todo = 1..Len(todo)
      BY EmptySeq, LenProperties
    <3>2. /\ Tail(todo) \in Seq(Writes) /\ Len(Tail(todo)) = Len(todo) - 1
          /\ \A i \in 1..Len(Tail(todo)) : Tail(todo)[i] = todo[i + 1]
      BY HeadTailProperties
    <3>3. DOMAIN Tail(todo) = 1..Len(Tail(todo))
      BY <3>2, LenProperties
    <3> QED
      BY <3>1, <3>2, <3>3
  <2>2. PICK k \in Nat \ {0} : k = Len(todo)
    BY <2>1
  <2>3. PICK m \in Nat : m = k - 1 /\ k = m + 1
    OBVIOUS
  <2>4. Len(todo) = m + 1 /\ Len(Tail(todo)) = m
    BY <2>1, <2>2, <2>3
  <2> QED
    BY <2>1, <2>4
<1>2. todo[1][1] = f /\ todo[1][2] = x /\ 1 \in 1..(m + 1)
  BY <1>1
<1>3. \A i \in 1..m : i + 1 \in 1..(m + 1) /\ 1 < i + 1 /\ Rank(f) < Rank(rest[i][1])
  BY <1>1, <1>2 DEF Halfway
<1>4. \A i \in 1..m : rest[i][1] # f
  BY <1>3 DEF Rank
<1>5. ASSUME NEW g PROVE Pending(rest, g) <=> Pending(todo, g) /\ g # f
  <2>1. ASSUME Pending(rest, g) PROVE Pending(todo, g) /\ g # f
    BY <1>1, <1>3, <1>4, <2>1 DEF Pending
  <2>2. ASSUME Pending(todo, g), g # f PROVE Pending(rest, g)
    <3>1. PICK i \in 1..(m + 1) : todo[i][1] = g
      BY <1>1, <2>2 DEF Pending
    <3>2. i - 1 \in 1..m /\ (i - 1) + 1 = i
      BY <1>2, <2>2, <3>1
    <3>3. rest[i - 1][1] = g
      BY <1>1, <3>1, <3>2
    <3> QED
      BY <1>1, <3>2, <3>3 DEF Pending
  <2> QED
    BY <2>1, <2>2
<1>6. Pending(todo, f)
  BY <1>1, <1>2 DEF Pending
<1>7. ASSUME f = "record", NEW g, Pending(rest, g) PROVE FALSE
  <2>1. PICK i \in 1..m : rest[i][1] = g
    BY <1>1, <1>7 DEF Pending
  <2>2. 4 < Rank(g)
    BY <1>3, <1>7, <2>1 DEF Rank
  <2> QED
    BY <2>2 DEF Rank
<1>8. ASSUME f = "spool", Pending(rest, "frames") PROVE FALSE
  <2>1. PICK i \in 1..m : rest[i][1] = "frames"
    BY <1>1, <1>8 DEF Pending
  <2>2. Rank("spool") < Rank("frames")
    BY <1>3, <1>8, <2>1
  <2> QED
    BY <2>2 DEF Rank
<1>9. \A i, j \in 1..m : i < j => Rank(rest[i][1]) < Rank(rest[j][1])
  <2> TAKE i \in 1..m, j \in 1..m
  <2> HAVE i < j
  <2>1. i + 1 \in 1..(m + 1) /\ j + 1 \in 1..(m + 1) /\ i + 1 < j + 1
    OBVIOUS
  <2>2. Rank(todo[i + 1][1]) < Rank(todo[j + 1][1])
    BY <1>1, <2>1 DEF Halfway
  <2> QED
    BY <1>1, <2>2
<1>10. \A i \in 1..m :
         /\ rest[i][1] = "record" => rest[i][2].body.st = n.st /\ rest[i][2].body.art = n.art
         /\ rest[i][1] \in {"frames", "spool"} => op = "frame" /\ rest[i][2] = n.chain
         /\ rest[i][1] = "ledger" => rest[i][2] = n.led
  BY <1>1, <1>3 DEF Halfway
<1>11. /\ f = "record" => x.body.st = n.st /\ x.body.art = n.art
       /\ f \in {"frames", "spool"} => x = n.chain
       /\ f = "ledger" => x = n.led
  BY <1>1, <1>2 DEF Halfway
<1>12. /\ Pending(rest, "frames") => Pending(rest, "spool")
       /\ Pending(rest, "ledger") => Pending(rest, "record")
       /\ Pending(rest, "spool") /\ n.st # b.st => Pending(rest, "record")
       /\ op = "frame" /\ Pending(rest, "record") => n.st # b.st
  BY <1>5, <1>7, <1>8 DEF Halfway
<1>13. IF Pending(rest, "record") THEN d2.record.body.st = b.st /\ d2.record.body.art = b.art
       ELSE d2.record.body.st = n.st /\ d2.record.body.art = n.art
  BY <1>5, <1>11 DEF Halfway
<1>14. /\ d2.ledger = IF Pending(rest, "ledger") THEN b.led ELSE n.led
       /\ d2.frames = IF Pending(rest, "frames") THEN b.chain ELSE n.chain
       /\ d2.spool = IF Pending(rest, "spool") THEN b.chain ELSE n.chain
  BY <1>5, <1>11 DEF Halfway
<1>15. Halfway(op, told, b, rest, d2, n)
  BY <1>1, <1>9, <1>10, <1>12, <1>13, <1>14 DEF Halfway
<1> QED
  BY <1>1, <1>15

\* A chain that ends is one of a state that has ended.
LEMMA LastAppended ==
  ASSUME NEW chain \in Seq(Stages), NEW stage \in Stages
  PROVE  Append(chain, stage) # chain /\ Last(Append(chain, stage)) = stage
<1>1. PICK n \in Nat : n = Len(chain)
  BY LenProperties
<1>2. /\ Append(chain, stage) \in Seq(Stages) /\ Len(Append(chain, stage)) = n + 1
      /\ Append(chain, stage)[n + 1] = stage
  BY <1>1, AppendProperties
<1>3. n + 1 # n /\ n + 1 # 0
  OBVIOUS
<1>4. Append(chain, stage) # chain
  BY <1>1, <1>2, <1>3
<1>5. Append(chain, stage) # <<>>
  BY <1>2, <1>3, EmptySeq
<1> QED
  BY <1>2, <1>4, <1>5 DEF Last

\* A reader that gets anything half way gets the snapshot the call began with
\* or the one it ends with, and the latter once everything is written.
LEMMA ReaderGets ==
  ASSUME Typed, NEW e \in Epochs, Loads(e), NEW op, NEW told, NEW b, NEW n, NEW todo,
         Halfway(op, told, b, todo, disk[e], n)
  PROVE  /\ Snapshot(e) \in {b, n}
         /\ todo = <<>> => Snapshot(e) = n
<1>1. b \in Snapshots /\ n \in Snapshots /\ Snapshot(e) \in Snapshots /\ Becomes(op, told, b, n)
  BY SnapshotType DEF Halfway
<1>2. /\ Snapshot(e).st = disk[e].record.body.st /\ Snapshot(e).art = disk[e].record.body.art
      /\ Snapshot(e).led = disk[e].ledger /\ Snapshot(e).chain = disk[e].frames
      /\ disk[e].spool = disk[e].frames
  BY LoadsFacts DEF Snapshot
<1>3. ASSUME NEW y \in Snapshots, Snapshot(e).st = y.st, Snapshot(e).art = y.art,
             Snapshot(e).led = y.led, Snapshot(e).chain = y.chain
      PROVE  Snapshot(e) = y
  BY <1>1, <1>3 DEF Snapshots
<1>4. /\ IF Pending(todo, "record") THEN Snapshot(e).st = b.st /\ Snapshot(e).art = b.art
         ELSE Snapshot(e).st = n.st /\ Snapshot(e).art = n.art
      /\ Snapshot(e).led = IF Pending(todo, "ledger") THEN b.led ELSE n.led
      /\ Snapshot(e).chain = IF Pending(todo, "frames") THEN b.chain ELSE n.chain
      /\ Snapshot(e).chain = IF Pending(todo, "spool") THEN b.chain ELSE n.chain
  BY <1>2 DEF Halfway
<1>5. /\ Pending(todo, "frames") => op = "frame"
      /\ Pending(todo, "frames") => Pending(todo, "spool")
      /\ Pending(todo, "ledger") => Pending(todo, "record")
      /\ Pending(todo, "spool") => op = "frame"
      /\ Pending(todo, "spool") /\ n.st # b.st => Pending(todo, "record")
      /\ op = "frame" /\ Pending(todo, "record") => n.st # b.st
  BY DEF Halfway, Pending
<1>6. CASE op = "frame"
  <2>1. PICK stage \in Stages : MayFollow(b, stage) /\ n.chain = Append(b.chain, stage) /\ n.st = Ended(b.st, stage)
    BY <1>1, <1>6 DEF Becomes
  <2>2. n.art = b.art /\ n.led = b.led
    BY <1>1, <1>6 DEF Becomes
  <2>3. n.chain # b.chain /\ Last(n.chain) = stage
    BY <1>1, <2>1, ChainIsSeq, LastAppended DEF Snapshots
  <2>4. CASE Pending(todo, "frames")
    <3>1. Snapshot(e).chain = b.chain /\ Snapshot(e).led = b.led /\ Snapshot(e).art = b.art
      BY <1>4, <2>2, <2>4
    <3>2. Snapshot(e).st = b.st
      BY <1>4, <1>5, <1>6, <2>4
    <3>3. Snapshot(e) = b
      BY <1>1, <1>3, <3>1, <3>2
    <3>4. todo # <<>>
      BY <2>4 DEF Pending
    <3> QED
      BY <3>3, <3>4
  <2>5. CASE ~Pending(todo, "frames")
    <3>1. ~Pending(todo, "spool") /\ Snapshot(e).chain = n.chain
      BY <1>4, <2>3, <2>5
    <3>2. ASSUME Pending(todo, "record") PROVE FALSE
      <4>1. n.st # b.st /\ disk[e].record.body.st = b.st
        BY <1>2, <1>4, <1>5, <1>6, <3>2
      <4>2. stage \in {"COMMIT", "ABANDON"} /\ n.st = IF stage = "COMMIT" THEN "CONSUMED" ELSE "ABANDONED"
        BY <2>1, <4>1 DEF Ended
      <4>3. Last(disk[e].spool) = stage
        BY <1>2, <2>3, <3>1
      <4>4. disk[e].record.body.st = n.st
        BY <4>2, <4>3 DEF Loads, SpoolAgrees
      <4> QED
        BY <4>1, <4>4
    <3>3. Snapshot(e) = n
      BY <1>1, <1>3, <1>4, <2>2, <3>1, <3>2
    <3> QED
      BY <3>3
  <2> QED
    BY <2>4, <2>5
<1>7. CASE op = "consume"
  <2>1. n.st = b.st /\ n.art = b.art /\ n.chain = b.chain
    BY <1>1, <1>7 DEF Becomes
  <2>2. Snapshot(e).st = b.st /\ Snapshot(e).art = b.art /\ Snapshot(e).chain = b.chain
    BY <1>4, <2>1
  <2>3. Snapshot(e).led \in {b.led, n.led}
    BY <1>4
  <2>4. Snapshot(e) \in {b, n}
    BY <1>1, <1>3, <2>1, <2>2, <2>3
  <2>5. ASSUME todo = <<>> PROVE Snapshot(e) = n
    <3>1. ~Pending(todo, "ledger")
      BY <2>5 DEF Pending
    <3> QED
      BY <1>1, <1>3, <1>4, <2>1, <2>2, <3>1
  <2> QED
    BY <2>4, <2>5
<1>8. CASE op \notin {"frame", "consume"}
  <2>1. n.led = b.led /\ n.chain = b.chain
    BY <1>1, <1>8 DEF Becomes
  <2>2. Snapshot(e).led = b.led /\ Snapshot(e).chain = b.chain
    BY <1>4, <2>1
  <2>3. Snapshot(e) \in {b, n}
    BY <1>1, <1>3, <1>4, <2>1, <2>2
  <2>4. ASSUME todo = <<>> PROVE Snapshot(e) = n
    <3>1. ~Pending(todo, "record")
      BY <2>4 DEF Pending
    <3> QED
      BY <1>1, <1>3, <1>4, <2>1, <2>2, <3>1
  <2> QED
    BY <2>3, <2>4
<1> QED
  BY <1>6, <1>7, <1>8

-----------------------------------------------------------------------------
(* The story is kept *)

LEMMA InitStory == Init => Story
<1> SUFFICES ASSUME Init PROVE Story
  OBVIOUS
<1>1. \A c \in Controllers : call[c].op = "idle"
  BY IdleCall DEF Init
<1>2. \A e \in Epochs : disk[e].ledger = Absent
  BY DEF Init, Untouched
<1> QED
  BY <1>1, <1>2, NoneAssumption DEF Story, Exclusive

\* A call changes and nothing on disk: it begins to write as its operation
\* does, or it does not write.
LEMMA CallStory ==
  ASSUME Typed, Story, NEW c \in Controllers, NEW x, call' = [call EXCEPT ![c] = x], UNCHANGED disk,
         x.op \in Exclusive => \E n : Halfway(x.op, x.told, x.before, x.todo, disk[x.epoch], n),
         x.op = "create" => \A i \in DOMAIN x.todo : x.todo[i][1] = "record" =>
           /\ x.todo[i][2].body.st = "INITIALISED" /\ x.todo[i][2].body.art = "PENDING"
           /\ x.todo[i][2].body.led = "UNCONSUMED"
  PROVE  Story'
<1>1. call'[c] = x /\ \A d \in Controllers \ {c} : call'[d] = call[d]
  BY DEF Typed
<1>2. ASSUME NEW d \in Controllers, call'[d].op \in Exclusive
      PROVE  \E n : Halfway(call'[d].op, call'[d].told, call'[d].before, call'[d].todo, disk'[call'[d].epoch], n)
  <2>1. CASE d = c
    BY <1>1, <1>2, <2>1
  <2>2. CASE d # c
    BY <1>1, <1>2, <2>2 DEF Story
  <2> QED
    BY <2>1, <2>2
<1>3. ASSUME NEW d \in Controllers, call'[d].op = "create"
      PROVE  \A i \in DOMAIN call'[d].todo : call'[d].todo[i][1] = "record" =>
               /\ call'[d].todo[i][2].body.st = "INITIALISED" /\ call'[d].todo[i][2].body.art = "PENDING"
               /\ call'[d].todo[i][2].body.led = "UNCONSUMED"
  BY <1>1, <1>3 DEF Story
<1>4. \A e \in Epochs : disk'[e].ledger \in Transitions => Len(disk'[e].frames) >= 2
  BY DEF Story
<1> QED
  BY <1>2, <1>3, <1>4 DEF Story

\* A call that ends, or waits for its second lock.
LEMMA QuietStory ==
  ASSUME Typed, Story, NEW c \in Controllers, NEW x, call' = [call EXCEPT ![c] = x], UNCHANGED disk,
         x.op \in {"idle", "locking"}
  PROVE  Story'
<1>1. x.op \notin Exclusive /\ x.op # "create"
  BY DEF Exclusive
<1> QED
  BY <1>1, CallStory

\* The writes of a state, after others.
EndsWithState(todo, first, body, k) ==
  /\ todo \in Seq(Writes) /\ DOMAIN todo = 1..(k + 2)
  /\ \A i \in 1..k : todo[i] = first[i]
  /\ todo[k + 1] = <<"manifest", body>>
  /\ todo[k + 2] = <<"record", [body |-> body, digest |-> body]>>

LEMMA PlanShape ==
  ASSUME NEW first \in Seq(Writes), NEW body \in Bodies, NEW k \in Nat, k = Len(first),
         NEW todo, todo = first \o StateUpdate(body)
  PROVE  EndsWithState(todo, first, body, k)
<1>1. PICK update \in Seq(Writes) :
        /\ update = StateUpdate(body) /\ Len(update) = 2 /\ update[1] = <<"manifest", body>>
        /\ update[2] = <<"record", [body |-> body, digest |-> body]>>
  BY StateUpdateWrites
<1>2. /\ todo \in Seq(Writes) /\ Len(todo) = k + 2
      /\ \A i \in 1..(k + 2) : todo[i] = IF i <= k THEN first[i] ELSE update[i - k]
  <2>1. /\ first \o update \in Seq(Writes) /\ Len(first \o update) = Len(first) + Len(update)
        /\ \A i \in 1..(Len(first) + Len(update)) :
             (first \o update)[i] = IF i <= Len(first) THEN first[i] ELSE update[i - Len(first)]
    BY ConcatProperties
  <2> QED
    BY <1>1, <2>1
<1>3. DOMAIN todo = 1..(k + 2)
  BY <1>2, LenProperties
<1>4. k + 1 \in 1..(k + 2) /\ k + 2 \in 1..(k + 2) /\ ~(k + 1 <= k) /\ ~(k + 2 <= k)
      /\ (k + 1) - k = 1 /\ (k + 2) - k = 2
  OBVIOUS
<1>5. \A i \in 1..k : i \in 1..(k + 2) /\ i <= k
  OBVIOUS
<1> QED
  BY <1>1, <1>2, <1>3, <1>4, <1>5 DEF EndsWithState

\* A plan that ends with the writes of a state, before any of it is written.
LEMMA PlanHalfway ==
  ASSUME Typed, NEW e \in Epochs, Loads(e), NEW op, NEW told, NEW n \in Snapshots,
         Becomes(op, told, Snapshot(e), n),
         NEW body \in Bodies, body.st = n.st, body.art = n.art, op = "frame" => n.st # Body(e).st,
         NEW first \in Seq(Writes), NEW k \in Nat, k = Len(first), NEW todo, todo = first \o StateUpdate(body),
         \A i, j \in 1..k : i < j => Rank(first[i][1]) < Rank(first[j][1]),
         \A i \in 1..k :
           /\ first[i][1] \in {"binding", "ledger", "frames", "spool"}
           /\ first[i][1] \in {"frames", "spool"} => op = "frame" /\ first[i][2] = n.chain
           /\ first[i][1] = "ledger" => op = "consume" /\ first[i][2] = n.led,
         op = "frame" => (\E i \in 1..k : first[i][1] = "frames") /\ (\E i \in 1..k : first[i][1] = "spool"),
         op = "consume" => \E i \in 1..k : first[i][1] = "ledger"
  PROVE  Halfway(op, told, Snapshot(e), todo, disk[e], n)
<1>1. PICK b : b = Snapshot(e)
  OBVIOUS
<1>2. /\ b \in Snapshots /\ b.st = disk[e].record.body.st /\ b.art = disk[e].record.body.art
      /\ b.led = disk[e].ledger /\ b.chain = disk[e].frames /\ disk[e].spool = disk[e].frames
      /\ Body(e) = disk[e].record.body
  BY <1>1, SnapshotType, LoadsFacts DEF Snapshot, Body
<1>3. PICK w \in Writes, v \in Writes :
        /\ w = <<"manifest", body>> /\ v = <<"record", [body |-> body, digest |-> body]>>
        /\ w[1] = "manifest" /\ v[1] = "record" /\ v[2].body = body
  <2>1. <<"manifest", body>> \in Writes
    BY WritesHold
  <2>2. <<"record", [body |-> body, digest |-> body]>> \in Writes
    <3>1. [body |-> body, digest |-> body] \in [body : Bodies, digest : Bodies]
      OBVIOUS
    <3> QED
      BY <3>1, WritesHold
  <2>3. /\ <<"manifest", body>>[1] = "manifest" /\ <<"record", [body |-> body, digest |-> body]>>[1] = "record"
        /\ <<"record", [body |-> body, digest |-> body]>>[2].body = body
    OBVIOUS
  <2> QED
    BY <2>1, <2>2, <2>3
<1>4. /\ DOMAIN todo = 1..(k + 2) /\ \A i \in 1..k : todo[i] = first[i]
      /\ todo[k + 1] = w /\ todo[k + 2] = v
  <2>1. EndsWithState(todo, first, body, k)
    BY PlanShape
  <2> QED
    BY <1>3, <2>1 DEF EndsWithState
<1>5. \A i \in 1..(k + 2) : i \in 1..k \/ i = k + 1 \/ i = k + 2
  OBVIOUS
<1>6. \A i \in 1..k : i \in 1..(k + 2) /\ Rank(first[i][1]) < 3
  BY DEF Rank
<1>7. Rank("manifest") = 3 /\ Rank("record") = 4
  BY DEF Rank
<1>8. ASSUME NEW i \in 1..(k + 2), NEW j \in 1..(k + 2), i < j
      PROVE  Rank(todo[i][1]) < Rank(todo[j][1])
  <2>1. CASE j \in 1..k
    <3>1. i \in 1..k
      BY <1>8, <2>1
    <3> QED
      BY <1>4, <1>8, <2>1, <3>1
  <2>2. CASE j = k + 1
    <3>1. i \in 1..k
      BY <1>8, <2>2
    <3> QED
      BY <1>3, <1>4, <1>6, <1>7, <2>2, <3>1
  <2>3. CASE j = k + 2
    <3>1. CASE i \in 1..k
      <4>1. Rank(todo[i][1]) < 3
        BY <1>4, <1>6, <3>1
      <4>2. Rank(todo[i][1]) \in Nat
        BY DEF Rank
      <4>3. Rank(todo[j][1]) = 4
        BY <1>3, <1>4, <1>7, <2>3
      <4>4. PICK m \in Nat : m = Rank(todo[i][1])
        BY <4>2
      <4>5. m < 3
        BY <4>1, <4>4
      <4>6. m < 4
        BY <4>5
      <4> QED
        BY <4>3, <4>4, <4>6
    <3>2. CASE i = k + 1
      BY <1>3, <1>4, <1>7, <2>3, <3>2
    <3>3. i # k + 2
      BY <1>8, <2>3
    <3> QED
      BY <1>5, <3>1, <3>2, <3>3
  <2> QED
    BY <1>5, <2>1, <2>2, <2>3
<1>9. ASSUME NEW i \in 1..(k + 2)
      PROVE  /\ todo[i][1] = "record" => todo[i][2].body.st = n.st /\ todo[i][2].body.art = n.art
             /\ todo[i][1] \in {"frames", "spool"} => op = "frame" /\ todo[i][2] = n.chain
             /\ todo[i][1] = "ledger" => op = "consume" /\ todo[i][2] = n.led
  <2>1. CASE i \in 1..k
    BY <1>4, <2>1
  <2>2. CASE i = k + 1
    BY <1>3, <1>4, <2>2
  <2>3. CASE i = k + 2
    BY <1>3, <1>4, <2>3
  <2> QED
    BY <1>5, <2>1, <2>2, <2>3
<1>10. Pending(todo, "record")
  <2>1. PICK i \in 1..(k + 2) : i = k + 2
    OBVIOUS
  <2>2. todo[i] = v
    BY <1>4, <2>1
  <2> QED
    BY <1>3, <1>4, <2>2 DEF Pending
<1>11. /\ Pending(todo, "frames") <=> op = "frame"
       /\ Pending(todo, "spool") <=> op = "frame"
       /\ Pending(todo, "ledger") <=> op = "consume"
  <2>1. ASSUME NEW g \in {"frames", "spool", "ledger"}, \E i \in 1..k : first[i][1] = g
        PROVE  Pending(todo, g)
    BY <1>4, <1>6, <2>1 DEF Pending
  <2>2. /\ Pending(todo, "frames") => op = "frame"
        /\ Pending(todo, "spool") => op = "frame"
        /\ Pending(todo, "ledger") => op = "consume"
    BY <1>4, <1>9 DEF Pending
  <2> QED
    BY <2>1, <2>2
<1>12. (op # "consume" => n.led = b.led) /\ (op # "frame" => n.chain = b.chain)
  BY <1>1 DEF Becomes
<1>13. Halfway(op, told, b, todo, disk[e], n)
  <2>1. /\ b \in Snapshots /\ n \in Snapshots /\ Becomes(op, told, b, n)
        /\ \A i, j \in DOMAIN todo : i < j => Rank(todo[i][1]) < Rank(todo[j][1])
        /\ \A i \in DOMAIN todo :
             /\ todo[i][1] = "record" => todo[i][2].body.st = n.st /\ todo[i][2].body.art = n.art
             /\ todo[i][1] \in {"frames", "spool"} => op = "frame" /\ todo[i][2] = n.chain
             /\ todo[i][1] = "ledger" => todo[i][2] = n.led
    <3>1. \A i, j \in DOMAIN todo : i < j => Rank(todo[i][1]) < Rank(todo[j][1])
      BY <1>4, <1>8
    <3>2. \A i \in DOMAIN todo :
            /\ todo[i][1] = "record" => todo[i][2].body.st = n.st /\ todo[i][2].body.art = n.art
            /\ todo[i][1] \in {"frames", "spool"} => op = "frame" /\ todo[i][2] = n.chain
            /\ todo[i][1] = "ledger" => todo[i][2] = n.led
      BY <1>4, <1>9
    <3> QED
      BY <1>1, <1>2, <3>1, <3>2
  <2>2. /\ Pending(todo, "frames") => Pending(todo, "spool")
        /\ Pending(todo, "ledger") => Pending(todo, "record")
        /\ Pending(todo, "spool") /\ n.st # b.st => Pending(todo, "record")
        /\ op = "frame" /\ Pending(todo, "record") => n.st # b.st
    BY <1>2, <1>10, <1>11
  <2>3. /\ IF Pending(todo, "record") THEN disk[e].record.body.st = b.st /\ disk[e].record.body.art = b.art
           ELSE disk[e].record.body.st = n.st /\ disk[e].record.body.art = n.art
        /\ disk[e].ledger = IF Pending(todo, "ledger") THEN b.led ELSE n.led
        /\ disk[e].frames = IF Pending(todo, "frames") THEN b.chain ELSE n.chain
        /\ disk[e].spool = IF Pending(todo, "spool") THEN b.chain ELSE n.chain
    BY <1>2, <1>10, <1>11, <1>12
  <2> QED
    BY <2>1, <2>2, <2>3 DEF Halfway
<1> QED
  BY <1>1, <1>13

\* A call opens its epoch.
LEMMA BeginStory ==
  ASSUME IInv, Story, NEW c \in Controllers, NEW e, NEW op \in Exclusive, NEW locks, NEW todo,
         NEW told, NEW n, Begin(c, op, e, locks, todo, told),
         Halfway(op, told, Snapshot(e), todo, disk[e], n)
  PROVE  Story'
<1>1. PICK x :
        x = [op |-> op, epoch |-> e, locks |-> locks, awaits |-> None, todo |-> todo,
             before |-> Snapshot(e), told |-> told]
  OBVIOUS
<1>2. x.op = op /\ x.epoch = e /\ x.todo = todo /\ x.before = Snapshot(e) /\ x.told = told
  BY <1>1
<1>3. call' = [call EXCEPT ![c] = x] /\ UNCHANGED disk
  BY <1>1 DEF Begin
<1>4. x.op # "create" /\ \E m : Halfway(x.op, x.told, x.before, x.todo, disk[x.epoch], m)
  BY <1>2 DEF Exclusive
<1> QED
  BY <1>3, <1>4, CallStory DEF IInv

\* Only the state of the epoch is replaced.
LEMMA StateStory ==
  ASSUME IInv, Story, NEW c \in Controllers, NEW e \in Epochs, Loads(e),
         NEW op \in Exclusive \ {"frame", "consume"}, NEW locks, NEW told, NEW body \in Bodies,
         NEW n \in Snapshots, n.st = body.st, n.art = body.art, Becomes(op, told, Snapshot(e), n),
         Begin(c, op, e, locks, StateUpdate(body), told)
  PROVE  Story'
<1>1. PICK first \in Seq(Writes) : first = <<>> /\ Len(first) = 0
  BY EmptySeq
<1>2. PICK todo : todo = first \o StateUpdate(body)
  OBVIOUS
<1>3. todo = StateUpdate(body)
  BY <1>1, <1>2, StateUpdateWrites, ConcatEmptySeq
<1>4. \A i \in 1..0 : FALSE
  OBVIOUS
<1>5. PICK k \in Nat : k = 0 /\ k = Len(first) /\ \A i \in 1..k : FALSE
  BY <1>1, <1>4
<1>6. Halfway(op, told, Snapshot(e), todo, disk[e], n)
  <2>1. op # "frame" /\ op # "consume"
    OBVIOUS
  <2>2. Typed
    BY DEF IInv
  <2> QED
    BY <1>2, <1>5, <2>1, <2>2, PlanHalfway
<1>7. Begin(c, op, e, locks, todo, told)
  BY <1>3
<1> QED
  BY <1>6, <1>7, BeginStory

\* A snapshot with its state or its artifact replaced.
LEMMA Replacing ==
  ASSUME NEW b \in Snapshots
  PROVE  /\ \A st \in States : [b EXCEPT !.st = st] \in Snapshots
         /\ \A art \in {"ROW_BOUND"} \cup Artifacts : [b EXCEPT !.art = art] \in Snapshots
         /\ \A led \in Transitions : [b EXCEPT !.led = led] \in Snapshots
  BY DEF Snapshots

\* What record and manifest say, with one field of it replaced.
LEMMA BodyReplaced ==
  ASSUME NEW old \in Bodies
  PROVE  /\ \A st \in States : \E body \in Bodies :
              body = [old EXCEPT !.st = st] /\ body.st = st /\ body.art = old.art
         /\ \A art \in {"ROW_BOUND"} \cup Artifacts : \E body \in Bodies :
              body = [old EXCEPT !.art = art] /\ body.art = art /\ body.st = old.st
         /\ \E body \in Bodies :
              body = [old EXCEPT !.led = "CONSUMED"] /\ body.st = old.st /\ body.art = old.art
<1>1. ASSUME NEW st \in States
      PROVE  \E body \in Bodies : body = [old EXCEPT !.st = st] /\ body.st = st /\ body.art = old.art
  <2>1. [old EXCEPT !.st = st] \in Bodies
    BY DEF Bodies
  <2>2. [old EXCEPT !.st = st].st = st /\ [old EXCEPT !.st = st].art = old.art
    BY DEF Bodies
  <2> QED
    BY <2>1, <2>2
<1>2. ASSUME NEW art \in {"ROW_BOUND"} \cup Artifacts
      PROVE  \E body \in Bodies : body = [old EXCEPT !.art = art] /\ body.art = art /\ body.st = old.st
  <2>1. [old EXCEPT !.art = art] \in Bodies
    BY DEF Bodies
  <2>2. [old EXCEPT !.art = art].art = art /\ [old EXCEPT !.art = art].st = old.st
    BY DEF Bodies
  <2> QED
    BY <2>1, <2>2
<1>3. \E body \in Bodies :
        body = [old EXCEPT !.led = "CONSUMED"] /\ body.st = old.st /\ body.art = old.art
  <2>1. [old EXCEPT !.led = "CONSUMED"] \in Bodies
    BY DEF Bodies
  <2>2. [old EXCEPT !.led = "CONSUMED"].st = old.st /\ [old EXCEPT !.led = "CONSUMED"].art = old.art
    BY DEF Bodies
  <2> QED
    BY <2>1, <2>2
<1> QED
  BY <1>1, <1>2, <1>3

LEMMA BindStory ==
  ASSUME IInv, Story, NEW c \in Controllers, NEW e \in Epochs,
         \/ BindArtifactRow(c, e) \/ MarkReady(c, e) \/ Activate(c, e)
         \/ \E a \in Artifacts : BindArtifact(c, e, a) \/ BindArtifactV2(c, e, a)
  PROVE  Story'
<1>1. Opens(c, e)
  BY DEF BindArtifactRow, MarkReady, Activate, TransitionEpoch, BindArtifact, BindArtifactV2
<1>2. Loads(e) /\ Body(e) \in Bodies /\ Typed
  BY <1>1, OpensFacts
<1>3. PICK b \in Snapshots :
        b = Snapshot(e) /\ b.st = Body(e).st /\ b.art = Body(e).art
  BY <1>2, SnapshotType DEF Snapshot, Body
<1>4. {"bind", "bind_v2", "transition"} \subseteq Exclusive \ {"frame", "consume"}
  BY DEF Exclusive, Ops
<1>5. ASSUME NEW a \in {"ROW_BOUND"} \cup Artifacts, b.art \notin Artifacts,
             Begin(c, "bind", e, {e}, StateUpdate([Body(e) EXCEPT !.art = a]), Absent)
      PROVE  Story'
  <2>1. PICK body \in Bodies : body = [Body(e) EXCEPT !.art = a] /\ body.st = b.st /\ body.art = a
    <3>1. PICK y \in Bodies : y = [Body(e) EXCEPT !.art = a] /\ y.st = Body(e).st /\ y.art = a
      <4>1. PICK old \in Bodies : old = Body(e)
        BY <1>2
      <4>2. \E y \in Bodies : y = [old EXCEPT !.art = a] /\ y.art = a /\ y.st = old.st
        BY BodyReplaced
      <4> QED
        BY <4>1, <4>2
    <3>2. y.st = b.st
      BY <1>3, <3>1
    <3> QED
      BY <3>1, <3>2
  <2>2. PICK n \in Snapshots : n = [b EXCEPT !.art = a]
    BY Replacing
  <2>3. /\ n.st = b.st /\ n.art = a /\ n.led = b.led /\ n.chain = b.chain
        /\ Becomes("bind", Absent, b, n)
    <3>1. n.st = b.st /\ n.art = a /\ n.led = b.led /\ n.chain = b.chain
      BY <2>2 DEF Snapshots
    <3> QED
      BY <1>5, <3>1 DEF Becomes
  <2> QED
    BY <1>2, <1>3, <1>4, <1>5, <2>1, <2>3, StateStory
<1>6. ASSUME NEW st \in States, \/ b.st = "INITIALISED" /\ st = "READY"
                                \/ b.st = "READY" /\ st = "ACTIVE",
             Begin(c, "transition", e, {e}, StateUpdate([Body(e) EXCEPT !.st = st]), Absent)
      PROVE  Story'
  <2>1. PICK body \in Bodies : body = [Body(e) EXCEPT !.st = st] /\ body.st = st /\ body.art = b.art
    <3>1. \E y \in Bodies : y = [Body(e) EXCEPT !.st = st] /\ y.st = st /\ y.art = Body(e).art
      BY <1>2, BodyReplaced
    <3> QED
      BY <1>3, <3>1
  <2>2. PICK n \in Snapshots : n = [b EXCEPT !.st = st]
    BY Replacing
  <2>3. /\ n.st = st /\ n.art = b.art /\ n.led = b.led /\ n.chain = b.chain
        /\ Becomes("transition", Absent, b, n)
    <3>1. n.st = st /\ n.art = b.art /\ n.led = b.led /\ n.chain = b.chain
      BY <2>2 DEF Snapshots
    <3> QED
      BY <1>6, <3>1 DEF Becomes
  <2> QED
    BY <1>2, <1>3, <1>4, <1>6, <2>1, <2>3, StateStory
<1>7. CASE BindArtifactRow(c, e)
  BY <1>3, <1>5, <1>7, NamedAssumption DEF BindArtifactRow
<1>8. CASE MarkReady(c, e)
  BY <1>3, <1>6, <1>8 DEF MarkReady, TransitionEpoch, States
<1>9. CASE Activate(c, e)
  BY <1>3, <1>6, <1>9 DEF Activate, TransitionEpoch, States
<1>10. ASSUME NEW a \in Artifacts, BindArtifact(c, e, a) PROVE Story'
  BY <1>3, <1>5, <1>10, NamedAssumption DEF BindArtifact
<1>11. ASSUME NEW a \in Artifacts, BindArtifactV2(c, e, a) PROVE Story'
  <2>1. PICK w \in Writes : w = <<"binding", a>> /\ w[1] = "binding"
    <3>1. <<"binding", a>> \in Writes
      BY WritesHold
    <3>2. <<"binding", a>>[1] = "binding"
      OBVIOUS
    <3> QED
      BY <3>1, <3>2
  <2>2. PICK first \in Seq(Writes) : first = <<w>> /\ Len(first) = 1 /\ first[1] = w
    <3>1. <<w>> \in Seq(Writes) /\ Len(<<w>>) = 1 /\ <<w>>[1] = w
      OBVIOUS
    <3> QED
      BY <3>1
  <2>3. PICK body \in Bodies : body = [Body(e) EXCEPT !.art = a] /\ body.st = b.st /\ body.art = a
    <3>1. \E y \in Bodies : y = [Body(e) EXCEPT !.art = a] /\ y.st = Body(e).st /\ y.art = a
      BY <1>2, BodyReplaced
    <3> QED
      BY <1>3, <3>1
  <2>4. PICK n \in Snapshots : n = [b EXCEPT !.art = a]
    BY Replacing
  <2>5. b.art = "PENDING"
    BY <1>1, <1>3, <1>11 DEF BindArtifactV2, Opens, Loads, BindingAgrees, Body
  <2>6. /\ n.st = b.st /\ n.art = a /\ n.led = b.led /\ n.chain = b.chain
        /\ Becomes("bind_v2", Absent, b, n)
    <3>1. n.st = b.st /\ n.art = a /\ n.led = b.led /\ n.chain = b.chain
      BY <2>4 DEF Snapshots
    <3> QED
      BY <2>5, <3>1, NamedAssumption DEF Becomes
  <2>7. PICK todo : todo = first \o StateUpdate(body)
    OBVIOUS
  <2>8. Begin(c, "bind_v2", e, {e}, todo, Absent)
    BY <1>11, <2>1, <2>2, <2>3, <2>7 DEF BindArtifactV2
  <2>9. PICK k \in Nat : k = 1 /\ k = Len(first)
    BY <2>2
  <2>10. \A i \in 1..k : i = 1 /\ first[i][1] = "binding"
    BY <2>1, <2>2, <2>9
  <2>11. \A i, j \in 1..k : ~(i < j)
    BY <2>9
  <2>12. Halfway("bind_v2", Absent, b, todo, disk[e], n)
    BY <1>2, <1>3, <2>3, <2>6, <2>7, <2>9, <2>10, <2>11, PlanHalfway
  <2> QED
    BY <1>3, <1>4, <2>8, <2>12, BeginStory
<1> QED
  BY <1>7, <1>8, <1>9, <1>10, <1>11

\* How long a chain that can be read is, by its last frame.
LEMMA ChainLength ==
  ASSUME Typed, NEW e \in Epochs, Loads(e), NEW chain, chain = disk[e].frames
  PROVE  /\ chain \in Seq(Stages) /\ Len(chain) \in Nat
         /\ Last(chain) \in Stages \cup {"NONE"}
         /\ Last(chain) = "NONE" => chain = <<>> /\ Len(chain) = 0
         /\ Last(chain) = "EPOCH_READY" => chain = <<"EPOCH_READY">> /\ Len(chain) = 1
         /\ Last(chain) = "RUNNER_STARTED" => Len(chain) >= 2
<1>1. chain \in Chains /\ chain \in Seq(Stages)
  BY LoadsFacts, ChainIsSeq
<1>2. PICK m \in Nat : m = Len(chain) /\ DOMAIN chain = 1..m /\ (chain = <<>> <=> m = 0)
  <2>1. Len(chain) \in Nat /\ DOMAIN chain = 1..Len(chain)
    BY <1>1, LenProperties
  <2>2. chain = <<>> <=> Len(chain) = 0
    BY <1>1, EmptySeq
  <2> QED
    BY <2>1, <2>2
<1>3. "NONE" \notin Stages
  BY DEF Stages
<1>4. ASSUME m # 0
      PROVE  /\ Last(chain) = chain[m] /\ m \in 1..m /\ chain[m] \in Stages
  BY <1>1, <1>2, <1>4 DEF Last
<1>5. CASE m = 0
  <2>1. Last(chain) = "NONE" /\ chain = <<>> /\ Len(chain) = 0
    BY <1>2, <1>5 DEF Last
  <2> QED
    BY <1>1, <2>1
<1>6. CASE m # 0
  <2>1. /\ Last(chain) = chain[m] /\ m \in 1..m /\ chain[m] \in Stages
    BY <1>4, <1>6
  <2>2. ASSUME chain[m] \in {"EPOCH_READY", "RUNNER_STARTED"}
        PROVE  chain[m] \in Follows(IF m = 1 THEN "NONE" ELSE chain[m - 1])
    <3>1. chain # <<"ABANDON">>
      <4>1. ASSUME chain = <<"ABANDON">> PROVE FALSE
        <5>1. m = 1 /\ chain[1] = "ABANDON"
          BY <1>2, <4>1
        <5> QED
          BY <2>2, <5>1
      <4> QED
        BY <4>1
    <3> QED
      BY <1>2, <2>1, <3>1 DEF Loads, FramesAgree
  <2>3. ASSUME chain[m] = "EPOCH_READY" PROVE chain = <<"EPOCH_READY">> /\ m = 1
    <3>1. m = 1
      <4>1. ASSUME m # 1 PROVE FALSE
        <5>1. m - 1 \in 1..m /\ chain[m - 1] \in Stages
          <6>1. m - 1 \in 1..m
            BY <1>6, <4>1
          <6> QED
            BY <1>1, <1>2, <6>1
        <5>2. "EPOCH_READY" \in Follows(chain[m - 1])
          BY <2>2, <2>3, <4>1
        <5> QED
          BY <1>3, <5>1, <5>2 DEF Follows
      <4> QED
        BY <4>1
    <3>2. chain = <<"EPOCH_READY">>
      <4>1. Len(<<"EPOCH_READY">>) = 1 /\ <<"EPOCH_READY">>[1] = "EPOCH_READY" /\ <<"EPOCH_READY">> \in Seq(Stages)
        BY DEF Stages
      <4> QED
        BY <1>1, <1>2, <2>3, <3>1, <4>1
    <3> QED
      BY <3>1, <3>2
  <2>4. ASSUME chain[m] = "RUNNER_STARTED" PROVE m >= 2
    <3>1. m # 1
      BY <2>2, <2>4 DEF Follows
    <3> QED
      BY <1>6, <3>1
  <2> QED
    BY <1>1, <1>2, <1>3, <1>6, <2>1, <2>3, <2>4
<1> QED
  BY <1>5, <1>6

\* The frame that is allowed is one that may follow.
LEMMA AllowedFollows ==
  ASSUME IInv, Story, NEW e \in Epochs, Loads(e), NEW stage \in Stages, StageAllowed(e, stage),
         Body(e).st \notin Terminal
  PROVE  MayFollow(Snapshot(e), stage)
<1>1. Typed
  BY DEF IInv
<1>2. PICK b, chain :
        /\ b = Snapshot(e) /\ chain = disk[e].frames /\ chain = disk[e].spool /\ b.chain = chain
        /\ b.st = Body(e).st /\ b.led = disk[e].ledger
  <2>1. /\ Snapshot(e).chain = disk[e].frames /\ Snapshot(e).st = Body(e).st
        /\ Snapshot(e).led = disk[e].ledger
    BY DEF Snapshot, Body
  <2>2. disk[e].spool = disk[e].frames
    BY <1>1, LoadsFacts
  <2> QED
    BY <2>1, <2>2
<1>3. b.led \in Transitions => Len(chain) >= 2
  BY <1>2 DEF Story
<1>4. b.led \in {"UNCONSUMED"} \cup Transitions
  BY <1>1, <1>2, LoadsFacts
<1>5. /\ Last(chain) = "NONE" => Len(chain) = 0
      /\ Last(chain) = "EPOCH_READY" => Len(chain) = 1
      /\ Len(chain) \in Nat /\ Last(chain) \in Stages \cup {"NONE"}
  BY <1>1, <1>2, ChainLength
<1>6. ASSUME Last(chain) \in {"NONE", "EPOCH_READY"} PROVE b.led = "UNCONSUMED"
  <2>1. PICK k \in Nat : k = Len(chain) /\ k \in {0, 1}
    BY <1>5, <1>6
  <2>2. ~(k >= 2)
    BY <2>1
  <2> QED
    BY <1>3, <1>4, <2>1, <2>2
<1>7. /\ Last(chain) \notin {"COMMIT", "ABANDON"}
      /\ \/ stage = "ABANDON" /\ b.led = "UNCONSUMED" /\ chain = <<>>
         \/ stage = "EPOCH_READY" /\ stage \in Follows(Last(chain))
         \/ stage = "RUNNER_STARTED" /\ stage \in Follows(Last(chain))
         \/ stage \in {"RESTORE_BEGIN", "COMMIT"} /\ stage \in Follows(Last(chain)) /\ b.led # "UNCONSUMED"
         \/ stage = "ABANDON" /\ LegalAbandon(Last(chain), b.led # "UNCONSUMED")
  BY <1>2 DEF StageAllowed, Stages
<1>8. CASE stage = "ABANDON"
  <2>1. Last(<<>>) = "NONE"
    BY DEF Last
  <2> QED
    BY <1>2, <1>7, <1>8, <2>1 DEF MayFollow, LegalAbandon
<1>9. CASE stage # "ABANDON"
  <2>1. Last(chain) \in {"NONE", "EPOCH_READY", "RUNNER_STARTED", "RESTORE_BEGIN"}
    BY <1>5, <1>7 DEF Stages
  <2>2. \/ stage = "EPOCH_READY" /\ Last(chain) = "NONE"
        \/ stage = "RUNNER_STARTED" /\ Last(chain) = "EPOCH_READY"
        \/ stage = "RESTORE_BEGIN" /\ Last(chain) = "RUNNER_STARTED" /\ b.led # "UNCONSUMED"
        \/ stage = "COMMIT" /\ Last(chain) = "RESTORE_BEGIN" /\ b.led # "UNCONSUMED"
    BY <1>7, <1>9, <2>1 DEF Follows
  <2> QED
    BY <1>2, <1>6, <2>2 DEF MayFollow
<1> QED
  BY <1>8, <1>9

LEMMA FrameStory ==
  ASSUME IInv, Story, NEW c \in Controllers, NEW e \in Epochs, NEW stage \in Stages, Opens(c, e),
         StageAllowed(e, stage), Body(e).st \notin Terminal,
         Begin(c, "frame", e, {e}, FramePlan(e, stage), Absent)
  PROVE  Story'
<1>1. Loads(e) /\ Body(e) \in Bodies /\ Typed
  BY OpensFacts
<1>2. PICK chain \in Chains : chain = Append(disk[e].spool, stage)
  BY OpensFacts, ChainGrows
<1>3. PICK w \in Writes, v \in Writes :
        /\ w = <<"frames", chain>> /\ v = <<"spool", chain>>
        /\ w[1] = "frames" /\ w[2] = chain /\ v[1] = "spool" /\ v[2] = chain
  BY WritesHold
<1>4. PICK first \in Seq(Writes) : first = <<w, v>> /\ Len(first) = 2 /\ first[1] = w /\ first[2] = v
  <2>1. <<w, v>> \in Seq(Writes) /\ Len(<<w, v>>) = 2 /\ <<w, v>>[1] = w /\ <<w, v>>[2] = v
    OBVIOUS
  <2> QED
    BY <2>1
<1>5. PICK k \in Nat : k = 2 /\ k = Len(first) /\ 1..k = {1, 2} /\ DOMAIN first = 1..k
  <2>1. 1..2 = {1, 2} /\ DOMAIN first = 1..2
    BY <1>4
  <2> QED
    BY <1>4, <2>1
<1>6. PICK b \in Snapshots :
        /\ b = Snapshot(e) /\ b.st = Body(e).st /\ b.art = Body(e).art /\ b.chain = disk[e].spool
        /\ b.chain = disk[e].frames /\ b.led = disk[e].ledger
  BY <1>1, SnapshotType, LoadsFacts DEF Snapshot, Body
<1>7. MayFollow(b, stage) /\ b.st \notin Terminal
  BY <1>1, <1>6, AllowedFollows
<1>8. Ended(b.st, stage) \in States
  BY <1>6 DEF Ended, States, Snapshots
<1>9. PICK n \in Snapshots :
        /\ n.st = Ended(b.st, stage) /\ n.art = b.art /\ n.led = b.led /\ n.chain = chain
  <2>1. [st |-> Ended(b.st, stage), art |-> b.art, led |-> b.led, chain |-> chain] \in Snapshots
    BY <1>8 DEF Snapshots
  <2> QED
    BY <2>1
<1>10. Becomes("frame", Absent, b, n)
  BY <1>2, <1>6, <1>7, <1>9 DEF Becomes
<1>11. /\ \A i, j \in 1..k : i < j => Rank(first[i][1]) < Rank(first[j][1])
       /\ \A i \in 1..k :
            /\ first[i][1] \in {"binding", "ledger", "frames", "spool"}
            /\ first[i][2] = n.chain /\ first[i][1] # "ledger" /\ first[i][1] # "record"
       /\ (\E i \in 1..k : first[i][1] = "frames") /\ (\E i \in 1..k : first[i][1] = "spool")
  <2>1. Rank("frames") = 1 /\ Rank("spool") = 2
    BY DEF Rank
  <2>2. \A i, j \in {1, 2} : i < j => i = 1 /\ j = 2
    OBVIOUS
  <2> QED
    BY <1>3, <1>4, <1>5, <1>9, <2>1, <2>2
<1>12. "frame" \in Exclusive
  BY DEF Exclusive, Ops
<1>13. ASSUME NEW st \in States, n.st = st, st \in Terminal,
              FramePlan(e, stage) = first \o StateUpdate([Body(e) EXCEPT !.st = st])
       PROVE  Story'
  <2>1. PICK body \in Bodies : body = [Body(e) EXCEPT !.st = st] /\ body.st = st /\ body.art = b.art
    <3>1. \E y \in Bodies : y = [Body(e) EXCEPT !.st = st] /\ y.st = st /\ y.art = Body(e).art
      BY <1>1, BodyReplaced
    <3> QED
      BY <1>6, <3>1
  <2>2. PICK todo : todo = first \o StateUpdate(body)
    OBVIOUS
  <2>3. body.st = n.st /\ body.art = n.art /\ n.st # Body(e).st
    BY <1>6, <1>7, <1>9, <1>13, <2>1
  <2>4. Halfway("frame", Absent, b, todo, disk[e], n)
    BY <1>1, <1>5, <1>6, <1>10, <1>11, <2>2, <2>3, PlanHalfway
  <2>5. Begin(c, "frame", e, {e}, todo, Absent)
    BY <1>13, <2>1, <2>2
  <2> QED
    BY <1>6, <1>12, <2>4, <2>5, BeginStory
<1>14. FramePlan(e, stage) =
         IF stage = "COMMIT" THEN first \o StateUpdate([Body(e) EXCEPT !.st = "CONSUMED"])
         ELSE IF stage = "ABANDON" THEN first \o StateUpdate([Body(e) EXCEPT !.st = "ABANDONED"])
         ELSE first \o <<>>
  BY <1>2, <1>3, <1>4 DEF FramePlan
<1>15. CASE stage \in {"COMMIT", "ABANDON"}
  BY <1>9, <1>13, <1>14, <1>15 DEF Ended, States, Terminal
<1>16. CASE stage \notin {"COMMIT", "ABANDON"}
  <2>1. FramePlan(e, stage) = first
    BY <1>14, <1>16, ConcatEmptySeq
  <2>2. Begin(c, "frame", e, {e}, first, Absent)
    BY <2>1
  <2>3. n.st = b.st
    BY <1>9, <1>16 DEF Ended
  <2>4. /\ Pending(first, "frames") /\ Pending(first, "spool")
        /\ ~Pending(first, "record") /\ ~Pending(first, "ledger")
    BY <1>5, <1>11 DEF Pending
  <2>5. disk[e].record.body.st = n.st /\ disk[e].record.body.art = n.art
    BY <1>6, <1>9, <2>3 DEF Body
  <2>6. Halfway("frame", Absent, b, first, disk[e], n)
    BY <1>5, <1>6, <1>9, <1>10, <1>11, <2>3, <2>4, <2>5 DEF Halfway
  <2> QED
    BY <1>6, <1>12, <2>2, <2>6, BeginStory
<1> QED
  BY <1>15, <1>16

LEMMA ConsumeStory ==
  ASSUME IInv, Story, NEW c \in Controllers, NEW e \in Epochs, NEW t \in Transitions, ConsumeRestore(c, e, t)
  PROVE  Story'
<1>1. /\ Opens(c, e) /\ disk[e].ledger = "UNCONSUMED" /\ Body(e).st = "ACTIVE"
      /\ Last(disk[e].spool) = "RUNNER_STARTED"
  BY DEF ConsumeRestore
<1>2. Loads(e) /\ Body(e) \in Bodies /\ Typed
  BY <1>1, OpensFacts
<1>3. PICK b \in Snapshots :
        /\ b = Snapshot(e) /\ b.st = Body(e).st /\ b.art = Body(e).art /\ b.chain = disk[e].spool
        /\ b.chain = disk[e].frames /\ b.led = disk[e].ledger
  BY <1>2, SnapshotType, LoadsFacts DEF Snapshot, Body
<1>4. PICK w \in Writes : w = <<"ledger", t>> /\ w[1] = "ledger" /\ w[2] = t
  <2>1. <<"ledger", t>> \in Writes
    BY WritesHold
  <2>2. <<"ledger", t>>[1] = "ledger" /\ <<"ledger", t>>[2] = t
    OBVIOUS
  <2> QED
    BY <2>1, <2>2
<1>5. PICK first \in Seq(Writes) : first = <<w>> /\ Len(first) = 1 /\ first[1] = w
  <2>1. <<w>> \in Seq(Writes) /\ Len(<<w>>) = 1 /\ <<w>>[1] = w
    OBVIOUS
  <2> QED
    BY <2>1
<1>6. PICK body \in Bodies : body = [Body(e) EXCEPT !.led = "CONSUMED"] /\ body.st = b.st /\ body.art = b.art
  <2>1. \E y \in Bodies : y = [Body(e) EXCEPT !.led = "CONSUMED"] /\ y.st = Body(e).st /\ y.art = Body(e).art
    BY <1>2, BodyReplaced
  <2> QED
    BY <1>3, <2>1
<1>7. PICK n \in Snapshots : n = [b EXCEPT !.led = t]
  BY Replacing
<1>8. n.st = b.st /\ n.art = b.art /\ n.chain = b.chain /\ n.led = t
  BY <1>7 DEF Snapshots
<1>9. Len(b.chain) >= 2
  BY <1>1, <1>2, <1>3, ChainLength
<1>10. Becomes("consume", t, b, n)
  BY <1>1, <1>3, <1>8, <1>9 DEF Becomes
<1>11. PICK k \in Nat : k = 1 /\ k = Len(first)
  BY <1>5
<1>12. \A i \in 1..k : i = 1 /\ first[i][1] = "ledger" /\ first[i][2] = n.led
  BY <1>4, <1>5, <1>8, <1>11
<1>13. (\A i, j \in 1..k : ~(i < j)) /\ \E i \in 1..k : first[i][1] = "ledger"
  BY <1>4, <1>5, <1>11
<1>14. PICK todo : todo = first \o StateUpdate(body)
  OBVIOUS
<1>15. Halfway("consume", t, b, todo, disk[e], n)
  BY <1>2, <1>3, <1>6, <1>8, <1>10, <1>11, <1>12, <1>13, <1>14, PlanHalfway
<1>16. Begin(c, "consume", e, {e}, todo, t)
  BY <1>4, <1>5, <1>6, <1>14 DEF ConsumeRestore
<1>17. "consume" \in Exclusive
  BY DEF Exclusive, Ops
<1> QED
  BY <1>3, <1>15, <1>16, <1>17, BeginStory

LEMMA CreateStory ==
  ASSUME IInv, Story, NEW c \in Controllers, NEW e \in Epochs, NEW supersedes \in Epochs \cup {None},
         CreateEpoch(c, e, supersedes)
  PROVE  Story'
<1>1. PICK todo :
        /\ todo = CreatePlan(e, supersedes)
        /\ \A i \in DOMAIN todo : todo[i][1] = "record" =>
             /\ todo[i][2].body.st = "INITIALISED" /\ todo[i][2].body.art = "PENDING"
             /\ todo[i][2].body.led = "UNCONSUMED"
  BY CreatePlanWrites
<1>2. PICK x : x = [Idle EXCEPT !.op = "create", !.epoch = e, !.todo = todo]
  OBVIOUS
<1>3. x.op = "create" /\ x.todo = todo
  BY <1>2 DEF Idle
<1>4. call' = [call EXCEPT ![c] = x] /\ UNCHANGED disk
  BY <1>1, <1>2 DEF CreateEpoch
<1>5. x.op \notin Exclusive
  BY <1>3 DEF Exclusive
<1> QED
  BY <1>1, <1>3, <1>4, <1>5, CallStory DEF IInv

LEMMA SupersedeStory ==
  ASSUME IInv, Story, NEW c \in Controllers,
         \/ Supersede(c)
         \/ \E old, new \in Epochs : BeginSupersede(c, old, new)
  PROVE  Story'
<1>1. Typed
  BY DEF IInv
<1>2. ASSUME call' = [call EXCEPT ![c] = Idle], UNCHANGED disk PROVE Story'
  <2>1. PICK x : x = Idle /\ x.op \in {"idle", "locking"}
    BY IdleCall
  <2>2. call' = [call EXCEPT ![c] = x]
    BY <1>2, <2>1
  <2> QED
    BY <1>1, <1>2, <2>1, <2>2, QuietStory
<1>3. ASSUME NEW old \in Epochs, NEW new \in Epochs, BeginSupersede(c, old, new) PROVE Story'
  <2>1. PICK x :
          x = [Idle EXCEPT !.op = "locking", !.epoch = old,
                           !.locks = {LockOrder(old, new)[1]}, !.awaits = LockOrder(old, new)[2]]
    OBVIOUS
  <2>2. x.op \in {"idle", "locking"}
    BY <2>1 DEF Idle
  <2>3. call' = [call EXCEPT ![c] = x] /\ UNCHANGED disk
    BY <1>3, <2>1 DEF BeginSupersede
  <2> QED
    BY <1>1, <2>2, <2>3, QuietStory
<1>4. ASSUME NEW old \in Epochs, NEW new \in Epochs, Loads(old), Body(old) \in Bodies, Body(old).st \notin Terminal,
             Begin(c, "supersede", old, {old, new},
                   StateUpdate([Body(old) EXCEPT !.st = "SUPERSEDED"]), Absent)
      PROVE  Story'
  <2>1. PICK b \in Snapshots : b = Snapshot(old) /\ b.st = Body(old).st /\ b.art = Body(old).art
    BY <1>1, <1>4, SnapshotType DEF Snapshot, Body
  <2>2. PICK st \in States : st = "SUPERSEDED"
    BY DEF States
  <2>3. PICK body \in Bodies : body = [Body(old) EXCEPT !.st = st] /\ body.st = st /\ body.art = b.art
    <3>1. \E y \in Bodies : y = [Body(old) EXCEPT !.st = st] /\ y.st = st /\ y.art = Body(old).art
      BY <1>4, BodyReplaced
    <3> QED
      BY <2>1, <3>1
  <2>4. PICK n \in Snapshots : n = [b EXCEPT !.st = st]
    BY Replacing
  <2>5. n.st = st /\ n.art = b.art /\ n.led = b.led /\ n.chain = b.chain
    BY <2>4 DEF Snapshots
  <2>6. Becomes("supersede", Absent, b, n)
    BY <1>4, <2>1, <2>2, <2>5 DEF Becomes
  <2>7. "supersede" \in Exclusive \ {"frame", "consume"}
    BY DEF Exclusive, Ops
  <2>8. Begin(c, "supersede", old, {old, new}, StateUpdate(body), Absent)
    BY <1>4, <2>2, <2>3
  <2> QED
    BY <1>4, <2>1, <2>3, <2>5, <2>6, <2>7, <2>8, StateStory
<1> QED
  BY <1>2, <1>3, <1>4, SupersedeBegins

\* A document of the plan is written.
LEMMA WriteStory ==
  ASSUME IInv, Story, NEW c \in Controllers, Write(c)
  PROVE  Story'
<1>1. PICK e, todo, f, x :
        e = call[c].epoch /\ todo = call[c].todo /\ f = Head(todo)[1] /\ x = Head(todo)[2]
  OBVIOUS
<1>2. Wrote(c, e, todo, f, x) /\ OneReplaced(e, f, x)
  BY <1>1, WriteStep
<1>3. /\ todo # <<>> /\ todo \in Seq(Writes) /\ todo[1] = <<f, x>> /\ e \in Epochs
      /\ DOMAIN Tail(todo) = 1..(Len(todo) - 1) /\ Len(todo) \in Nat \ {0}
      /\ \A i \in DOMAIN Tail(todo) : Tail(todo)[i] = todo[i + 1] /\ i + 1 \in DOMAIN todo
  BY <1>2 DEF Wrote
<1>4. /\ \A o \in Epochs \ {e} : disk'[o] = disk[o]
      /\ disk'[e].ledger = IF f = "ledger" THEN x ELSE disk[e].ledger
      /\ disk'[e].record = IF f = "record" THEN x ELSE disk[e].record
      /\ disk'[e].spool = IF f = "spool" THEN x ELSE disk[e].spool
      /\ disk'[e].frames = IF f = "frames" THEN x ELSE disk[e].frames
  BY <1>2 DEF OneReplaced
<1>5. /\ call'[c].todo = Tail(todo) /\ call'[c].op = call[c].op /\ call'[c].epoch = e
      /\ call'[c].told = call[c].told /\ call'[c].before = call[c].before
      /\ \A d \in Controllers \ {c} : call'[d] = call[d]
  BY <1>2 DEF Wrote
<1>6. /\ call[c].op = "create" => disk[e].record = Absent
      /\ call[c].op # "create" => call[c].op \in Exclusive
      /\ \A d \in Controllers \ {c} : call[d].op \in Exclusive => call[d].epoch # e
  BY <1>1, WriteAlone
<1>7. Typed /\ Created /\ Planned
  BY DEF IInv
<1>8. ASSUME call[c].op \in Exclusive
      PROVE  \E n : /\ Halfway(call[c].op, call[c].told, call[c].before, todo, disk[e], n)
                    /\ Halfway(call[c].op, call[c].told, call[c].before, Tail(todo), disk'[e], n)
  <2>1. PICK n : Halfway(call[c].op, call[c].told, call[c].before, todo, disk[e], n)
    BY <1>1, <1>8 DEF Story
  <2>2. PICK op, told, b, d, d2 :
          op = call[c].op /\ told = call[c].told /\ b = call[c].before /\ d = disk[e] /\ d2 = disk'[e]
    OBVIOUS
  <2>3. Halfway(op, told, b, todo, d, n)
    BY <2>1, <2>2
  <2>4. Halfway(op, told, b, Tail(todo), d2, n)
    BY <1>3, <1>4, <2>2, <2>3, HalfwayOn
  <2> QED
    BY <2>1, <2>2, <2>4
<1>9. ASSUME NEW d \in Controllers, call'[d].op \in Exclusive
      PROVE  \E n : Halfway(call'[d].op, call'[d].told, call'[d].before, call'[d].todo, disk'[call'[d].epoch], n)
  <2>1. CASE d = c
    BY <1>5, <1>8, <1>9, <2>1
  <2>2. CASE d # c
    <3>1. call'[d] = call[d] /\ call[d].epoch # e /\ call[d].epoch \in Epochs
      BY <1>5, <1>6, <1>7, <1>9, <2>2 DEF Typed, Exclusive
    <3>2. disk'[call[d].epoch] = disk[call[d].epoch]
      BY <1>4, <3>1
    <3> QED
      BY <1>9, <3>1, <3>2 DEF Story
  <2> QED
    BY <2>1, <2>2
<1>10. ASSUME NEW d \in Controllers, call'[d].op = "create", NEW i \in DOMAIN call'[d].todo,
             call'[d].todo[i][1] = "record"
      PROVE  /\ call'[d].todo[i][2].body.st = "INITIALISED" /\ call'[d].todo[i][2].body.art = "PENDING"
             /\ call'[d].todo[i][2].body.led = "UNCONSUMED"
  <2>1. CASE d = c
    <3>1. call[c].op = "create" /\ i \in DOMAIN Tail(todo) /\ Tail(todo)[i][1] = "record"
      BY <1>5, <1>10, <2>1
    <3>2. Tail(todo)[i] = todo[i + 1] /\ i + 1 \in DOMAIN todo
      BY <1>3, <3>1
    <3>3. PICK j, w : j = i + 1 /\ w = Tail(todo)[i] /\ w = todo[j] /\ j \in DOMAIN todo
      BY <3>2
    <3>4. w[2].body.st = "INITIALISED" /\ w[2].body.art = "PENDING" /\ w[2].body.led = "UNCONSUMED"
      BY <1>1, <3>1, <3>3 DEF Story
    <3> QED
      BY <1>5, <2>1, <3>3, <3>4
  <2>2. CASE d # c
    BY <1>5, <1>10, <2>2 DEF Story
  <2> QED
    BY <2>1, <2>2
<1>11. ASSUME NEW o \in Epochs, disk'[o].ledger \in Transitions PROVE Len(disk'[o].frames) >= 2
  <2>1. CASE o # e
    BY <1>4, <1>11, <2>1 DEF Story
  <2>2. CASE o = e /\ call[c].op = "create"
    <3>1. disk[e].ledger \notin Transitions
      BY <1>3, <1>6, <1>7, <2>2 DEF Created
    <3>2. f = "ledger" => x = "UNCONSUMED"
      <4>1. f = call[c].todo[1][1] /\ x = call[c].todo[1][2] /\ 1 \in DOMAIN call[c].todo
        BY <1>1, <1>3, <1>2 DEF Wrote
      <4> QED
        BY <1>7, <2>2, <4>1 DEF Planned
    <3> QED
      BY <1>4, <1>11, <2>2, <3>1, <3>2, LedgerAssumption
  <2>3. CASE o = e /\ call[c].op \in Exclusive
    <3>1. PICK n : /\ Halfway(call[c].op, call[c].told, call[c].before, todo, disk[e], n)
                   /\ Halfway(call[c].op, call[c].told, call[c].before, Tail(todo), disk'[e], n)
      BY <1>8, <2>3
    <3>2. PICK b, rest :
            /\ b = call[c].before /\ rest = Tail(todo) /\ b \in Snapshots /\ n \in Snapshots
            /\ Becomes(call[c].op, call[c].told, b, n)
      BY <3>1 DEF Halfway
    <3>3. /\ disk'[e].frames = IF Pending(rest, "frames") THEN b.chain ELSE n.chain
          /\ disk[e].frames = IF Pending(todo, "frames") THEN b.chain ELSE n.chain
          /\ disk'[e].ledger = IF Pending(rest, "ledger") THEN b.led ELSE n.led
          /\ Pending(rest, "frames") => call[c].op = "frame"
          /\ Pending(todo, "frames") => call[c].op = "frame"
      BY <3>1, <3>2 DEF Halfway, Pending
    <3>4. CASE disk[e].ledger \in Transitions
      <4>1. Len(disk[e].frames) >= 2
        BY <1>3, <3>4 DEF Story
      <4>2. n.chain = b.chain \/ \E stage \in Stages : n.chain = Append(b.chain, stage)
        BY <3>2 DEF Becomes
      <4>3. b.chain \in Seq(Stages) /\ Len(b.chain) \in Nat
        BY <3>2, ChainIsSeq, LenProperties DEF Snapshots
      <4>4. Len(n.chain) >= Len(b.chain) /\ Len(n.chain) \in Nat
        BY <4>2, <4>3, AppendProperties
      <4>5. Pending(rest, "frames") => Pending(todo, "frames")
        <5>1. \A i \in DOMAIN rest : rest[i] = todo[i + 1] /\ i + 1 \in DOMAIN todo
          BY <1>3, <3>2
        <5> QED
          BY <5>1 DEF Pending
      <4> QED
        BY <2>3, <3>3, <4>1, <4>3, <4>4, <4>5
    <3>5. CASE disk[e].ledger \notin Transitions
      <4>1. f = "ledger" /\ call[c].op = "consume"
        <5>1. f = "ledger"
          BY <1>4, <1>11, <2>3, <3>5
        <5>2. f = call[c].todo[1][1] /\ 1 \in DOMAIN call[c].todo
          BY <1>1, <1>3, <1>2 DEF Wrote
        <5> QED
          BY <1>7, <2>3, <5>1, <5>2 DEF Planned, Exclusive
      <4>2. n.chain = b.chain /\ Len(b.chain) >= 2
        BY <3>2, <4>1 DEF Becomes
      <4> QED
        BY <2>3, <3>3, <4>2
    <3> QED
      BY <3>4, <3>5
  <2> QED
    BY <1>6, <2>1, <2>2, <2>3
<1> QED
  BY <1>9, <1>10, <1>11 DEF Story

LEMMA NextStory ==
  ASSUME IInv, Story, [Next]_vars
  PROVE  Story'
<1>1. CASE UNCHANGED vars
  BY <1>1 DEF vars, Story
<1>2. ASSUME call' = call, UNCHANGED disk PROVE Story'
  BY <1>2 DEF Story
<1>3. ASSUME NEW c \in Controllers, call' = [call EXCEPT ![c] = Idle], UNCHANGED disk PROVE Story'
  <2>1. PICK x : x = Idle /\ x.op \in {"idle", "locking"}
    BY IdleCall
  <2>2. call' = [call EXCEPT ![c] = x]
    BY <1>3, <2>1
  <2> QED
    BY <1>3, <2>1, <2>2, QuietStory DEF IInv
<1>4. ASSUME NEW c \in Controllers, Return(c) \/ Interrupt(c) \/ Collide(c) PROVE Story'
  BY <1>3, <1>4 DEF Return, Interrupt, Collide
<1>5. ASSUME NEW c \in Controllers, NEW e \in Epochs,
             \/ \E t \in Transitions : ReissuePermit(c, e, t)
             \/ RefuseRestore(c, e) \/ Classify(c, e)
      PROVE  Story'
  BY <1>2, <1>5 DEF ReissuePermit, RefuseRestore, Classify, Answer
<1>6. ASSUME NEW c \in Controllers, NEW e \in Epochs, Abandon(c, e) \/ \E stage \in Stages : IngestFrame(c, e, stage)
      PROVE  Story'
  BY <1>6, FrameStory DEF Abandon, IngestFrame, Stages
<1>7. ASSUME NEW c \in Controllers, NEW e \in Epochs,
             \/ BindArtifactRow(c, e) \/ MarkReady(c, e) \/ Activate(c, e)
             \/ \E a \in Artifacts : BindArtifact(c, e, a) \/ BindArtifactV2(c, e, a)
      PROVE  Story'
  BY <1>7, BindStory
<1>8. ASSUME NEW c \in Controllers, NEW e \in Epochs,
             \/ \E supersedes \in (Epochs \ {e}) \cup {None} : CreateEpoch(c, e, supersedes)
             \/ \E t \in Transitions : ConsumeRestore(c, e, t)
             \/ \E new \in Epochs : BeginSupersede(c, e, new)
      PROVE  Story'
  BY <1>8, CreateStory, ConsumeStory, SupersedeStory
<1>9. ASSUME NEW c \in Controllers, Write(c) \/ Supersede(c) PROVE Story'
  BY <1>9, WriteStory, SupersedeStory
<1> QED
  BY <1>1, <1>4, <1>5, <1>6, <1>7, <1>8, <1>9 DEF Next

-----------------------------------------------------------------------------
(* What is seen of an epoch *)

\* The epoch a call writes is seen as the call found it: no other writes it.
Undisturbed ==
  \A c \in Controllers, e \in Epochs : call[c].op \in Exclusive /\ call[c].epoch = e =>
    Writing(e) = {c} /\ Seen(e) = call[c].before

LEMMA WritersUndisturbed == IInv => Undisturbed
<1> SUFFICES ASSUME IInv, NEW c \in Controllers, NEW e \in Epochs, call[c].op \in Exclusive, call[c].epoch = e
             PROVE  Writing(e) = {c} /\ Seen(e) = call[c].before
  BY DEF Undisturbed
<1>1. Typed /\ Locked
  BY DEF IInv
<1>2. c \in Writing(e)
  BY DEF Writing, Exclusive
<1>3. \A d \in Writing(e) : d = c
  <2> SUFFICES ASSUME NEW d \in Controllers, call[d].epoch = e, call[d].op \notin {"idle", "locking", "create"}, d # c
               PROVE  FALSE
    BY DEF Writing
  <2>1. call[d].op \in Exclusive
    BY <1>1 DEF Typed, Calls, Exclusive
  <2>2. e \in call[d].locks /\ e \in call[c].locks
    BY <1>1, <2>1 DEF Locked
  <2> QED
    BY <1>1, <2>2 DEF Locked
<1>4. Writing(e) = {c}
  BY <1>2, <1>3
<1>5. (CHOOSE d \in {c} : TRUE) = c
  OBVIOUS
<1> QED
  BY <1>4, <1>5 DEF Seen

\* An epoch that nobody has the lock of, or that has no record, is not written.
LEMMA NobodyWrites ==
  ASSUME IInv, NEW e \in Epochs, NEW c \in Controllers, call[c].op \in Exclusive => call[c].epoch # e,
         \/ \A d \in Controllers \ {c} : e \notin call[d].locks
         \/ disk[e].record = Absent
  PROVE  Writing(e) = {}
<1>1. Typed /\ Locked /\ Created
  BY DEF IInv
<1> SUFFICES ASSUME NEW d \in Controllers, call[d].epoch = e, call[d].op \notin {"idle", "locking", "create"}
             PROVE  FALSE
  BY DEF Writing
<1>2. call[d].op \in Exclusive
  BY <1>1 DEF Typed, Calls, Exclusive
<1> QED
  BY <1>1, <1>2 DEF Locked, Created

\* An epoch is not disturbed by what happens to others.
LEMMA SeenUnchanged ==
  ASSUME NEW o \in Epochs, disk'[o] = disk[o], Writing(o)' = Writing(o),
         \A d \in Writing(o) : call'[d].before = call[d].before,
         Creating(o)' = {} <=> Creating(o) = {}
  PROVE  Seen(o)' = Seen(o)
<1>1. Loads(o)' = Loads(o) /\ Snapshot(o)' = Snapshot(o)
  BY DEF Loads, Snapshot
<1>2. CASE Writing(o) # {}
  <2>1. PICK d \in Writing(o) : d = CHOOSE w \in Writing(o) : TRUE
    BY <1>2
  <2>2. Seen(o) = call[d].before
    BY <1>2, <2>1 DEF Seen
  <2>3. Seen(o)' = call'[d].before
    BY <1>2, <2>1 DEF Seen
  <2> QED
    BY <2>1, <2>2, <2>3
<1>3. CASE Writing(o) = {}
  BY <1>1, <1>3 DEF Seen
<1> QED
  BY <1>2, <1>3

\* A call disturbs only the epoch it works on.
LEMMA OthersSeen ==
  ASSUME NEW c \in Controllers, \A d \in Controllers \ {c} : call'[d] = call[d],
         NEW o \in Epochs, disk'[o] = disk[o],
         call[c].op \in {"idle", "locking"} \/ call[c].epoch # o,
         call'[c].op \in {"idle", "locking"} \/ call'[c].epoch # o
  PROVE  Seen(o)' = Seen(o)
<1>1. c \notin Writing(o) /\ c \notin Writing(o)' /\ c \notin Creating(o) /\ c \notin Creating(o)'
  BY DEF Writing, Creating
<1>2. Writing(o)' = Writing(o) /\ Creating(o)' = Creating(o)
  <2>1. \A d \in Controllers \ {c} : (d \in Writing(o)' <=> d \in Writing(o)) /\ (d \in Creating(o)' <=> d \in Creating(o))
    BY DEF Writing, Creating
  <2>2. /\ Writing(o)' \subseteq Controllers /\ Writing(o) \subseteq Controllers
        /\ Creating(o)' \subseteq Controllers /\ Creating(o) \subseteq Controllers
    BY DEF Writing, Creating
  <2> QED
    BY <1>1, <2>1, <2>2
<1>3. \A d \in Writing(o) : call'[d].before = call[d].before
  BY <1>1 DEF Writing
<1> QED
  BY <1>2, <1>3, SeenUnchanged

-----------------------------------------------------------------------------
(* The steps of the abstract epoch *)

Shown == [e \in Epochs |-> Seen(e)]

LEMMA ShownBecomes ==
  ASSUME NEW e \in Epochs, \A o \in Epochs \ {e} : Seen(o)' = Seen(o), NEW y, Seen(e)' = y
  PROVE  Shown' = [Shown EXCEPT ![e] = y] /\ Shown[e] = Seen(e)
BY DEF Shown

LEMMA Stutters ==
  ASSUME \A o \in Epochs : Seen(o)' = Seen(o), permits' = permits
  PROVE  UNCHANGED Abstract!vars
BY DEF Abstract!vars

LEMMA Closes ==
  ASSUME NEW e \in Epochs, \A o \in Epochs \ {e} : Seen(o)' = Seen(o),
         Seen(e) # Unreadable, Seen(e)' = Unreadable, permits' = permits
  PROVE  Abstract!Next
<1>1. Shown' = [Shown EXCEPT ![e] = Unreadable] /\ Shown[e] # Unreadable
  BY ShownBecomes
<1>2. Abstract!Close(e)
  BY <1>1 DEF Shown, Abstract!Close, Abstract!Become
<1> QED
  BY <1>2 DEF Abstract!Next

LEMMA Creates ==
  ASSUME NEW e \in Epochs, \A o \in Epochs \ {e} : Seen(o)' = Seen(o), Seen(e) = NotCreated, permits' = permits,
         Seen(e)' = [st |-> "INITIALISED", art |-> "PENDING", led |-> "UNCONSUMED", chain |-> <<>>]
  PROVE  Abstract!Next
<1>1. /\ Shown' = [Shown EXCEPT ![e] = [st |-> "INITIALISED", art |-> "PENDING", led |-> "UNCONSUMED", chain |-> <<>>]]
      /\ Shown[e] = NotCreated
  BY ShownBecomes
<1>2. Abstract!Create(e)
  BY <1>1 DEF Shown, Abstract!Create, Abstract!Become
<1> QED
  BY <1>2 DEF Abstract!Next

\* A snapshot is neither of the two things that stand for having none.
LEMMA SnapshotIsRead ==
  ASSUME NEW b \in Snapshots
  PROVE  b # NotCreated /\ b # Unreadable
<1>1. b.st \in States
  BY DEF Snapshots
<1>2. NotCreated.st \notin States /\ Unreadable.st \notin States
  BY DEF NotCreated, Unreadable, States
<1> QED
  BY <1>1, <1>2

LEMMA Permits ==
  ASSUME NEW e \in Epochs, NEW t \in Transitions, \A o \in Epochs : Seen(o)' = Seen(o),
         NEW b \in Snapshots, Seen(e) = b, b.st = "ACTIVE", Last(b.chain) = "RUNNER_STARTED", b.led = t,
         permits' = [permits EXCEPT ![e] = @ \cup {t}]
  PROVE  Abstract!Next
<1>1. Shown' = Shown /\ Shown[e] = b
  BY DEF Shown
<1>2. Abstract!Last(b.chain) = "RUNNER_STARTED"
  BY DEF Last, Abstract!Last
<1>3. Abstract!Permit(e, t)
  BY <1>1, <1>2, SnapshotIsRead DEF Shown, Abstract!Permit, Abstract!AwaitsRestore, Abstract!Readable
<1> QED
  BY <1>3 DEF Abstract!Next

\* A call that has written everything changed the epoch in one step.
LEMMA Changes ==
  ASSUME NEW e \in Epochs, \A o \in Epochs \ {e} : Seen(o)' = Seen(o),
         NEW op, NEW told, NEW b \in Snapshots, NEW n \in Snapshots, Becomes(op, told, b, n),
         Seen(e) = b, Seen(e)' = n,
         op = "supersede" => b.led = "UNCONSUMED" /\ b.chain \in {<<>>, <<"EPOCH_READY">>},
         op = "consume" => told \in Transitions,
         \/ permits' = permits
         \/ op = "consume" /\ permits' = [permits EXCEPT ![e] = @ \cup {told}]
  PROVE  Abstract!Next
<1>1. Shown' = [Shown EXCEPT ![e] = n] /\ Shown[e] = b
  BY ShownBecomes
<1>2. /\ b = [st |-> b.st, art |-> b.art, led |-> b.led, chain |-> b.chain]
      /\ n = [st |-> n.st, art |-> n.art, led |-> n.led, chain |-> n.chain]
  BY DEF Snapshots
<1>3. Abstract!Readable(e)
  BY <1>1, SnapshotIsRead DEF Shown, Abstract!Readable
<1>4. Abstract!Last(b.chain) = Last(b.chain)
  BY DEF Last, Abstract!Last
<1>5. b.st \in States /\ (b.st \notin Terminal => b.st \in {"INITIALISED", "READY", "ACTIVE"})
  BY DEF Snapshots, States, Terminal
<1>6. CASE op \in {"bind", "bind_v2"}
  <2>1. n = [b EXCEPT !.art = n.art] /\ b.art \notin Artifacts /\ n.art \in Artifacts \cup {"ROW_BOUND"}
    BY <1>2, <1>6 DEF Becomes
  <2>2. permits' = permits
    BY <1>6
  <2>3. Abstract!Bind(e)
    BY <1>1, <1>3, <2>1, <2>2 DEF Shown, Abstract!Bind, Abstract!Become
  <2> QED
    BY <2>3 DEF Abstract!Next
<1>7. CASE op = "transition"
  <2>1. n = [b EXCEPT !.st = n.st] /\ \/ b.st = "INITIALISED" /\ n.st = "READY"
                                      \/ b.st = "READY" /\ n.st = "ACTIVE"
    BY <1>2, <1>7 DEF Becomes
  <2>2. permits' = permits
    BY <1>7
  <2>3. Abstract!Advance(e)
    BY <1>1, <1>3, <2>1, <2>2 DEF Shown, Abstract!Advance, Abstract!Become
  <2> QED
    BY <2>3 DEF Abstract!Next
<1>8. CASE op = "supersede"
  <2>1. n = [b EXCEPT !.st = "SUPERSEDED"] /\ b.st \notin Terminal
    BY <1>2, <1>8 DEF Becomes
  <2>2. permits' = permits
    BY <1>8
  <2>3. Abstract!Supersede(e)
    BY <1>1, <1>3, <1>5, <1>8, <2>1, <2>2 DEF Shown, Abstract!Supersede, Abstract!Become
  <2> QED
    BY <2>3 DEF Abstract!Next
<1>9. CASE op = "consume"
  <2>1. /\ n = [b EXCEPT !.led = told] /\ b.st = "ACTIVE" /\ b.led = "UNCONSUMED"
        /\ Last(b.chain) = "RUNNER_STARTED"
    BY <1>2, <1>9 DEF Becomes
  <2>2. Shown' = [Shown EXCEPT ![e].led = told]
    BY <1>1, <2>1
  <2>3. Abstract!AwaitsRestore(e)
    BY <1>1, <1>3, <1>4, <2>1 DEF Shown, Abstract!AwaitsRestore
  <2>4. Abstract!Consume(e, told)
    BY <1>1, <2>1, <2>2, <2>3 DEF Shown, Abstract!Consume
  <2> QED
    BY <1>9, <2>4 DEF Abstract!Next
<1>10. CASE op = "frame"
  <2>1. PICK stage \in Stages :
          MayFollow(b, stage) /\ n.chain = Append(b.chain, stage) /\ n.st = Ended(b.st, stage)
    BY <1>10 DEF Becomes
  <2>2. n.art = b.art /\ n.led = b.led
    BY <1>10 DEF Becomes
  <2>3. n = [b EXCEPT !.chain = Append(@, stage),
                      !.st = CASE stage = "COMMIT" -> "CONSUMED"
                               [] stage = "ABANDON" -> "ABANDONED"
                               [] OTHER -> @]
    BY <1>2, <2>1, <2>2 DEF Ended
  <2>4. permits' = permits
    BY <1>10
  <2>5. Abstract!Frame(e, stage)
    BY <1>1, <1>3, <1>4, <1>5, <2>1, <2>3, <2>4 DEF Shown, Abstract!Frame, Abstract!Become, MayFollow
  <2> QED
    BY <2>5 DEF Abstract!Next, Stages
<1> QED
  BY <1>6, <1>7, <1>8, <1>9, <1>10 DEF Becomes

-----------------------------------------------------------------------------
(* Every step is a step of the abstract epoch *)

\* No reader sees anything change, and nobody is given a permit.
Unnoticed == (\A o \in Epochs : Seen(o)' = Seen(o)) /\ permits' = permits

\* A call that opens an epoch: a reader saw what the call has seen.
LEMMA BeginStep ==
  ASSUME IInv, IInv', NEW c \in Controllers, NEW e \in Epochs, NEW op \in Exclusive,
         NEW locks, NEW todo, NEW told, Begin(c, op, e, locks, todo, told),
         Loads(e), call[c].op \in {"idle", "locking"}, \A d \in Controllers \ {c} : e \notin call[d].locks
  PROVE  Unnoticed
<1>1. PICK x :
        x = [op |-> op, epoch |-> e, locks |-> locks, awaits |-> None, todo |-> todo,
             before |-> Snapshot(e), told |-> told]
  OBVIOUS
<1>2. x.op = op /\ x.epoch = e /\ x.before = Snapshot(e)
  BY <1>1
<1>3. /\ call' = [call EXCEPT ![c] = x] /\ UNCHANGED <<disk, permits>> /\ call \in [Controllers -> Calls]
  BY <1>1 DEF Begin, IInv, Typed
<1>4. call'[c] = x /\ \A d \in Controllers \ {c} : call'[d] = call[d]
  BY <1>3
<1>5. Undisturbed'
  BY WritersUndisturbed, PTL
<1>6. Seen(e)' = Snapshot(e)
  BY <1>2, <1>4, <1>5 DEF Undisturbed
<1>7. Writing(e) = {}
  BY NobodyWrites DEF Exclusive
<1>8. Seen(e) = Snapshot(e)
  BY <1>7 DEF Seen
<1>9. ASSUME NEW o \in Epochs \ {e} PROVE Seen(o)' = Seen(o)
  BY <1>2, <1>3, <1>4, OthersSeen
<1> QED
  BY <1>3, <1>6, <1>8, <1>9 DEF Unnoticed

\* All that open an epoch with the lock of it alone.
LEMMA OpeningStep ==
  ASSUME IInv, IInv', NEW c \in Controllers, NEW e \in Epochs,
         \/ BindArtifactRow(c, e) \/ MarkReady(c, e) \/ Activate(c, e) \/ Abandon(c, e)
         \/ \E a \in Artifacts : BindArtifact(c, e, a) \/ BindArtifactV2(c, e, a)
         \/ \E stage \in Stages : IngestFrame(c, e, stage)
         \/ \E t \in Transitions : ConsumeRestore(c, e, t)
  PROVE  Unnoticed
<1>1. PICK op, locks, todo, told :
        op \in Exclusive /\ Opens(c, e) /\ Begin(c, op, e, locks, todo, told)
  <2>1. {"bind", "bind_v2", "transition", "frame", "consume"} \subseteq Exclusive
    BY DEF Exclusive, Ops
  <2>2. CASE \/ BindArtifactRow(c, e) \/ MarkReady(c, e) \/ Activate(c, e)
    BY <2>1, <2>2 DEF BindArtifactRow, MarkReady, Activate, TransitionEpoch
  <2>3. CASE \E a \in Artifacts : BindArtifact(c, e, a) \/ BindArtifactV2(c, e, a)
    BY <2>1, <2>3 DEF BindArtifact, BindArtifactV2
  <2>4. CASE Abandon(c, e) \/ \E stage \in Stages : IngestFrame(c, e, stage)
    BY <2>1, <2>4 DEF Abandon, IngestFrame
  <2>5. CASE \E t \in Transitions : ConsumeRestore(c, e, t)
    BY <2>1, <2>5 DEF ConsumeRestore
  <2> QED
    BY <2>2, <2>3, <2>4, <2>5
<1>2. /\ Loads(e) /\ call[c].op = "idle" /\ \A d \in Controllers \ {c} : e \notin call[d].locks
  BY <1>1, OpensFacts
<1> QED
  BY <1>1, <1>2, BeginStep

\* An epoch is going to be created: it is not, so far.
LEMMA CreateStep ==
  ASSUME IInv, IInv', NEW c \in Controllers, NEW e \in Epochs, NEW supersedes, CreateEpoch(c, e, supersedes)
  PROVE  Unnoticed
<1>1. PICK x : x = [Idle EXCEPT !.op = "create", !.epoch = e, !.todo = CreatePlan(e, supersedes)]
  OBVIOUS
<1>2. x.op = "create" /\ x.epoch = e
  BY <1>1 DEF Idle
<1>3. /\ call[c].op = "idle" /\ call' = [call EXCEPT ![c] = x] /\ UNCHANGED <<disk, permits>>
      /\ disk[e].made = 0 /\ call \in [Controllers -> Calls]
  BY <1>1, IdleCall DEF CreateEpoch, IInv, Typed
<1>4. call'[c] = x /\ \A d \in Controllers \ {c} : call'[d] = call[d]
  BY <1>3
<1>5. disk[e].record = Absent
  BY <1>3 DEF IInv, Created
<1>6. Writing(e) = {} /\ ~Loads(e)
  BY <1>3, <1>5, NobodyWrites DEF Exclusive, Loads, LayoutComplete
<1>7. Writing(e)' = {}
  BY <1>2, <1>4, <1>6 DEF Writing
<1>8. Seen(e) = NotCreated
  BY <1>3, <1>5, <1>6 DEF Seen
<1>9. ~Loads(e)'
  BY <1>3 DEF Loads, LayoutComplete
<1>10. Seen(e)' = NotCreated
  BY <1>3, <1>5, <1>7, <1>9 DEF Seen
<1>11. ASSUME NEW o \in Epochs \ {e} PROVE Seen(o)' = Seen(o)
  BY <1>2, <1>3, <1>4, OthersSeen
<1> QED
  BY <1>3, <1>8, <1>10, <1>11 DEF Unnoticed

\* A call that does not write becomes one that does not write.
LEMMA QuietStep ==
  ASSUME NEW c \in Controllers, call[c].op \in {"idle", "locking"}, call'[c].op \in {"idle", "locking"},
         \A d \in Controllers \ {c} : call'[d] = call[d], disk' = disk, permits' = permits
  PROVE  Unnoticed
<1>1. ASSUME NEW o \in Epochs PROVE Seen(o)' = Seen(o)
  BY OthersSeen
<1> QED
  BY <1>1 DEF Unnoticed

\* A supersession waits, is refused or begins to write the epoch it ends.
LEMMA SupersedeStep ==
  ASSUME IInv, IInv', NEW c \in Controllers,
         \/ Supersede(c)
         \/ \E old, new \in Epochs : BeginSupersede(c, old, new)
  PROVE  Unnoticed
<1>1. Typed
  BY DEF IInv
<1>2. ASSUME NEW old \in Epochs, NEW new \in Epochs, BeginSupersede(c, old, new)
      PROVE  Unnoticed
  <2>1. PICK x :
          x = [Idle EXCEPT !.op = "locking", !.epoch = old,
                           !.locks = {LockOrder(old, new)[1]}, !.awaits = LockOrder(old, new)[2]]
    OBVIOUS
  <2>2. x.op = "locking"
    BY <2>1 DEF Idle
  <2>3. /\ call' = [call EXCEPT ![c] = x] /\ disk' = disk /\ permits' = permits
        /\ call[c].op \in {"idle", "locking"} /\ x.op \in {"idle", "locking"}
    BY <1>2, <2>1, <2>2, IdleCall DEF BeginSupersede
  <2>4. call'[c].op \in {"idle", "locking"} /\ \A d \in Controllers \ {c} : call'[d] = call[d]
    BY <1>1, <2>3 DEF Typed
  <2> QED
    BY <2>3, <2>4, QuietStep
<1>3. ASSUME Supersede(c) PROVE Unnoticed
  <2>1. call[c].op = "locking"
    BY <1>3 DEF Supersede
  <2>2. CASE call' = [call EXCEPT ![c] = Idle] /\ claimed' = None /\ UNCHANGED <<disk, interrupts, permits>>
    <3>1. PICK x : x = Idle /\ x.op \in {"idle", "locking"}
      BY IdleCall
    <3>2. /\ call' = [call EXCEPT ![c] = x] /\ disk' = disk /\ permits' = permits
          /\ call[c].op \in {"idle", "locking"}
      BY <2>1, <2>2, <3>1
    <3>3. call'[c].op \in {"idle", "locking"} /\ \A d \in Controllers \ {c} : call'[d] = call[d]
      BY <1>1, <3>1, <3>2 DEF Typed
    <3> QED
      BY <3>2, <3>3, QuietStep
  <2>3. ASSUME NEW old \in Epochs, NEW new \in Epochs, Loads(old),
               \A d \in Controllers \ {c} : {old, new} \cap call[d].locks = {},
               Begin(c, "supersede", old, {old, new},
                     StateUpdate([Body(old) EXCEPT !.st = "SUPERSEDED"]), Absent)
        PROVE  Unnoticed
    <3>1. "supersede" \in Exclusive /\ \A d \in Controllers \ {c} : old \notin call[d].locks
      BY <2>3 DEF Exclusive, Ops
    <3> QED
      BY <2>1, <2>3, <3>1, BeginStep
  <2> QED
    BY <1>3, <2>2, <2>3, SupersedeBegins
<1> QED
  BY <1>2, <1>3

\* An epoch whose record is the first one it gets, read.
InitialRead ==
  \A e \in Epochs :
    /\ Loads(e)
    /\ disk[e].record.body.st = "INITIALISED" /\ disk[e].record.body.art = "PENDING"
    /\ disk[e].record.body.led = "UNCONSUMED"
    => Snapshot(e) = [st |-> "INITIALISED", art |-> "PENDING", led |-> "UNCONSUMED", chain |-> <<>>]

LEMMA TypedInitialRead == IInv => InitialRead
<1> SUFFICES ASSUME IInv, NEW e \in Epochs, Loads(e), disk[e].record.body.st = "INITIALISED",
                    disk[e].record.body.art = "PENDING", disk[e].record.body.led = "UNCONSUMED"
             PROVE  Snapshot(e) = [st |-> "INITIALISED", art |-> "PENDING", led |-> "UNCONSUMED", chain |-> <<>>]
  BY DEF InitialRead
<1>1. Typed
  BY DEF IInv
<1>2. disk[e].ledger = "UNCONSUMED"
  BY DEF Loads, RecordAgrees
<1>3. PICK chain : chain = disk[e].frames /\ chain = disk[e].spool
  BY <1>1, LoadsFacts
<1>4. Last(chain) \in Stages \cup {"NONE"} /\ (Last(chain) = "NONE" => chain = <<>>)
  BY <1>1, <1>3, ChainLength
<1>5. /\ Last(chain) # "COMMIT" /\ Last(chain) # "ABANDON" /\ Last(chain) # "EPOCH_READY"
      /\ Last(chain) # "RUNNER_STARTED" /\ Last(chain) # "RESTORE_BEGIN"
  BY <1>3 DEF Loads, SpoolAgrees
<1>6. chain = <<>>
  BY <1>4, <1>5 DEF Stages
<1> QED
  BY <1>2, <1>3, <1>6 DEF Snapshot

\* The documents an epoch had are replaced: a reader is shown what the call
\* saw.
LEMMA RewriteStep ==
  ASSUME IInv, IInv', NEW c \in Controllers, Write(c), call[c].op \in Exclusive
  PROVE  UNCHANGED Abstract!vars
<1>1. PICK e, todo, f, x :
        e = call[c].epoch /\ todo = call[c].todo /\ f = Head(todo)[1] /\ x = Head(todo)[2]
  OBVIOUS
<1>2. Wrote(c, e, todo, f, x) /\ OneReplaced(e, f, x)
  BY <1>1, WriteStep
<1>3. /\ e \in Epochs /\ call'[c].op = call[c].op /\ call'[c].epoch = e /\ call'[c].before = call[c].before
      /\ \A d \in Controllers \ {c} : call'[d] = call[d]
  BY <1>2 DEF Wrote
<1>4. \A o \in Epochs \ {e} : disk'[o] = disk[o]
  BY <1>2 DEF OneReplaced
<1>5. Undisturbed /\ Undisturbed'
  BY WritersUndisturbed, PTL
<1>6. Seen(e) = call[c].before
  BY <1>1, <1>3, <1>5 DEF Undisturbed
<1>7. Seen(e)' = call'[c].before
  BY <1>3, <1>5 DEF Undisturbed
<1>8. ASSUME NEW o \in Epochs \ {e} PROVE Seen(o)' = Seen(o)
  BY <1>1, <1>3, <1>4, OthersSeen
<1>9. permits' = permits
  BY DEF Write
<1> QED
  BY <1>3, <1>6, <1>7, <1>8, <1>9, Stutters

\* The documents of a new epoch are written: nothing is there until the
\* record is, which is the last of them.
LEMMA BuildStep ==
  ASSUME IInv, IInv', Story, NEW c \in Controllers, Write(c), call[c].op = "create"
  PROVE  Abstract!Next \/ UNCHANGED Abstract!vars
<1>1. PICK e, todo, f, x :
        e = call[c].epoch /\ todo = call[c].todo /\ f = Head(todo)[1] /\ x = Head(todo)[2]
  OBVIOUS
<1>2. Wrote(c, e, todo, f, x) /\ OneReplaced(e, f, x)
  BY <1>1, WriteStep
<1>3. /\ e \in Epochs /\ call'[c].op = call[c].op /\ call'[c].epoch = e
      /\ \A d \in Controllers \ {c} : call'[d] = call[d]
      /\ 1 \in DOMAIN todo /\ todo[1] = <<f, x>>
  BY <1>2 DEF Wrote
<1>4. /\ \A o \in Epochs \ {e} : disk'[o] = disk[o]
      /\ disk'[e].record = IF f = "record" THEN x ELSE disk[e].record
  BY <1>2 DEF OneReplaced
<1>5. disk[e].record = Absent /\ (f = "record" => x # Absent)
  BY <1>1, WriteAlone
<1>6. permits' = permits
  BY DEF Write
<1>7. ASSUME NEW o \in Epochs \ {e} PROVE Seen(o)' = Seen(o)
  BY <1>1, <1>3, <1>4, OthersSeen
<1>8. Writing(e) = {}
  BY <1>3, <1>5, NobodyWrites DEF Exclusive
<1>9. Writing(e)' = {}
  <2>1. \A d \in Controllers \ {c} : d \notin Writing(e)'
    BY <1>3, <1>8 DEF Writing
  <2>2. c \notin Writing(e)' /\ Writing(e)' \subseteq Controllers
    BY <1>3 DEF Writing
  <2> QED
    BY <2>1, <2>2
<1>10. c \in Creating(e) /\ c \in Creating(e)'
  BY <1>1, <1>3 DEF Creating
<1>11. Seen(e) = NotCreated
  BY <1>5, <1>8, <1>10 DEF Seen, Loads, LayoutComplete
<1>12. CASE f # "record"
  <2>1. disk'[e].record = Absent
    BY <1>4, <1>5, <1>12
  <2>2. ~Loads(e)'
    BY <2>1 DEF Loads, LayoutComplete
  <2>3. Seen(e)' = NotCreated
    BY <1>9, <1>10, <2>1, <2>2 DEF Seen
  <2> QED
    BY <1>6, <1>7, <1>11, <2>3, Stutters
<1>13. CASE f = "record"
  <2>1. disk'[e].record = x /\ x # Absent
    BY <1>4, <1>5, <1>13
  <2>2. todo[1][1] = "record" /\ todo[1][2] = x
    BY <1>3, <1>13
  <2>3. x.body.st = "INITIALISED" /\ x.body.art = "PENDING" /\ x.body.led = "UNCONSUMED"
    BY <1>1, <1>3, <2>2 DEF Story
  <2>4. CASE Loads(e)'
    <3>1. InitialRead'
      BY TypedInitialRead, PTL
    <3>2. Snapshot(e)' = [st |-> "INITIALISED", art |-> "PENDING", led |-> "UNCONSUMED", chain |-> <<>>]
      BY <1>3, <2>1, <2>3, <2>4, <3>1 DEF InitialRead
    <3>3. Seen(e)' = [st |-> "INITIALISED", art |-> "PENDING", led |-> "UNCONSUMED", chain |-> <<>>]
      BY <1>9, <2>4, <3>2 DEF Seen
    <3> QED
      BY <1>3, <1>6, <1>7, <1>11, <3>3, Creates
  <2>5. CASE ~Loads(e)'
    <3>1. Seen(e)' = Unreadable
      BY <1>9, <2>1, <2>5 DEF Seen
    <3>2. NotCreated # Unreadable
      <4>1. NotCreated.st = "absent" /\ Unreadable.st = "unreadable"
        BY DEF NotCreated, Unreadable
      <4> QED
        BY <4>1
    <3> QED
      BY <1>3, <1>6, <1>7, <1>11, <3>1, <3>2, Closes
  <2> QED
    BY <2>4, <2>5
<1> QED
  BY <1>12, <1>13

\* A call that wrote ends, wherever it is: a reader gets what was before, what
\* was to be, or nothing.
LEMMA EndStep ==
  ASSUME IInv, IInv', Story, NEW c \in Controllers, call[c].op \in Exclusive,
         call' = [call EXCEPT ![c] = Idle], disk' = disk,
         \/ permits' = permits
         \/ /\ call[c].todo = <<>> /\ Loads(call[c].epoch) /\ call[c].told # Absent
            /\ permits' = [permits EXCEPT ![call[c].epoch] = @ \cup {call[c].told}]
  PROVE  Abstract!Next \/ UNCHANGED Abstract!vars
<1>1. PICK e, op, told, todo, b :
        e = call[c].epoch /\ op = call[c].op /\ told = call[c].told /\ todo = call[c].todo /\ b = call[c].before
  OBVIOUS
<1>2. Typed /\ Planned /\ Created
  BY DEF IInv
<1>3. e \in Epochs /\ disk[e].record # Absent
  BY <1>1, <1>2 DEF Typed, Created, Exclusive
<1>4. PICK n : Halfway(op, told, b, todo, disk[e], n)
  BY <1>1 DEF Story
<1>5. b \in Snapshots /\ n \in Snapshots /\ Becomes(op, told, b, n)
  BY <1>4 DEF Halfway
<1>6. (op = "consume" => told \in Transitions) /\ (op # "consume" => told = Absent)
  BY <1>1, <1>2 DEF Planned
<1>7. call'[c].op = "idle" /\ \A d \in Controllers \ {c} : call'[d] = call[d]
  BY <1>2, IdleCall DEF Typed
<1>8. Undisturbed
  BY WritersUndisturbed
<1>9. Writing(e) = {c} /\ Seen(e) = b
  BY <1>1, <1>3, <1>8 DEF Undisturbed
<1>10. Writing(e)' = {}
  <2>1. \A d \in Controllers \ {c} : d \notin Writing(e)'
    BY <1>7, <1>9 DEF Writing
  <2>2. c \notin Writing(e)' /\ Writing(e)' \subseteq Controllers
    BY <1>7 DEF Writing
  <2> QED
    BY <2>1, <2>2
<1>11. ASSUME NEW o \in Epochs \ {e} PROVE Seen(o)' = Seen(o)
  BY <1>1, <1>7, OthersSeen
<1>12. Loads(e)' = Loads(e) /\ Snapshot(e)' = Snapshot(e)
  BY DEF Loads, Snapshot
<1>13. CASE Loads(e)
  <2>1. Seen(e)' = Snapshot(e)
    BY <1>10, <1>12, <1>13 DEF Seen
  <2>2. Snapshot(e) \in {b, n} /\ (todo = <<>> => Snapshot(e) = n)
    BY <1>2, <1>3, <1>4, <1>13, ReaderGets
  <2>3. CASE Snapshot(e) = n
    <3>1. ASSUME op = "supersede" PROVE b.led = "UNCONSUMED" /\ b.chain \in {<<>>, <<"EPOCH_READY">>}
      <4>1. n.st = "SUPERSEDED" /\ n.led = b.led /\ n.chain = b.chain
        BY <1>5, <3>1 DEF Becomes
      <4>2. PICK chain : chain = disk[e].frames /\ chain = disk[e].spool
        BY <1>2, <1>3, <1>13, LoadsFacts
      <4>3. disk[e].record.body.st = "SUPERSEDED" /\ disk[e].ledger = b.led /\ chain = b.chain
        BY <2>3, <4>1, <4>2 DEF Snapshot
      <4>4. /\ Last(chain) \in Stages \cup {"NONE"}
            /\ Last(chain) = "NONE" => chain = <<>>
            /\ Last(chain) = "EPOCH_READY" => chain = <<"EPOCH_READY">>
        BY <1>2, <1>3, <1>13, <4>2, ChainLength
      <4>5. /\ Last(chain) # "COMMIT" /\ Last(chain) # "ABANDON"
            /\ Last(chain) # "RUNNER_STARTED" /\ Last(chain) # "RESTORE_BEGIN"
            /\ disk[e].ledger = "UNCONSUMED"
        BY <1>13, <4>2, <4>3 DEF Loads, SpoolAgrees
      <4> QED
        BY <4>3, <4>4, <4>5 DEF Stages
    <3>2. \/ permits' = permits
          \/ op = "consume" /\ permits' = [permits EXCEPT ![e] = @ \cup {told}]
      BY <1>1, <1>6
    <3> QED
      BY <1>3, <1>5, <1>6, <1>9, <1>11, <2>1, <2>3, <3>1, <3>2, Changes
  <2>4. CASE Snapshot(e) = b /\ Snapshot(e) # n
    <3>1. permits' = permits
      BY <1>1, <2>2, <2>4
    <3>2. Seen(e)' = Seen(e)
      BY <1>9, <2>1, <2>4
    <3> QED
      BY <1>11, <3>1, <3>2, Stutters
  <2> QED
    BY <2>2, <2>3, <2>4
<1>14. CASE ~Loads(e)
  <2>1. permits' = permits
    BY <1>1, <1>14
  <2>2. Seen(e)' = Unreadable
    BY <1>3, <1>10, <1>12, <1>14 DEF Seen
  <2>3. Seen(e) # Unreadable
    BY <1>5, <1>9, SnapshotIsRead
  <2> QED
    BY <1>3, <1>11, <2>1, <2>2, <2>3, Closes
<1> QED
  BY <1>13, <1>14

\* A creator stops: unless another is at it, an epoch half made stays so.
LEMMA CreatorEnds ==
  ASSUME IInv, NEW c \in Controllers, call[c].op = "create",
         call' = [call EXCEPT ![c] = Idle], disk' = disk, permits' = permits
  PROVE  Abstract!Next \/ UNCHANGED Abstract!vars
<1>1. PICK e : e = call[c].epoch
  OBVIOUS
<1>2. Typed
  BY DEF IInv
<1>3. e \in Epochs
  BY <1>1, <1>2 DEF Typed
<1>4. call'[c].op = "idle" /\ \A d \in Controllers \ {c} : call'[d] = call[d]
  BY <1>2, IdleCall DEF Typed
<1>5. Writing(e)' = Writing(e) /\ \A d \in Writing(e) : call'[d] = call[d]
  <2>1. c \notin Writing(e) /\ c \notin Writing(e)'
    BY <1>4 DEF Writing
  <2>2. \A d \in Controllers \ {c} : d \in Writing(e)' <=> d \in Writing(e)
    BY <1>4 DEF Writing
  <2>3. Writing(e) \subseteq Controllers /\ Writing(e)' \subseteq Controllers
    BY DEF Writing
  <2> QED
    BY <1>4, <2>1, <2>2, <2>3
<1>6. ASSUME NEW o \in Epochs \ {e} PROVE Seen(o)' = Seen(o)
  BY <1>1, <1>4, OthersSeen
<1>7. Loads(e)' = Loads(e) /\ Snapshot(e)' = Snapshot(e)
  BY DEF Loads, Snapshot
<1>8. ASSUME Seen(e)' = Seen(e) PROVE UNCHANGED Abstract!vars
  BY <1>6, <1>8, Stutters
<1>9. CASE Writing(e) # {}
  <2>1. PICK d \in Writing(e) : d = CHOOSE w \in Writing(e) : TRUE
    BY <1>9
  <2>2. Seen(e) = call[d].before
    BY <1>9, <2>1 DEF Seen
  <2>3. Seen(e)' = call'[d].before
    BY <1>5, <1>9, <2>1 DEF Seen
  <2> QED
    BY <1>5, <1>8, <2>1, <2>2, <2>3
<1>10. CASE Writing(e) = {} /\ (Loads(e) \/ disk[e].record # Absent)
  BY <1>5, <1>7, <1>8, <1>10 DEF Seen
<1>11. CASE Writing(e) = {} /\ ~Loads(e) /\ disk[e].record = Absent
  <2>1. c \in Creating(e)
    BY <1>1 DEF Creating
  <2>2. Seen(e) = NotCreated
    BY <1>11, <2>1 DEF Seen
  <2>3. Seen(e)' = NotCreated \/ Seen(e)' = Unreadable
    BY <1>5, <1>7, <1>11 DEF Seen
  <2>4. NotCreated # Unreadable
    <3>1. NotCreated.st = "absent" /\ Unreadable.st = "unreadable"
      BY DEF NotCreated, Unreadable
    <3> QED
      BY <3>1
  <2>5. CASE Seen(e)' = NotCreated
    BY <1>8, <2>2, <2>5
  <2>6. CASE Seen(e)' = Unreadable
    BY <1>3, <1>6, <2>2, <2>4, <2>6, Closes
  <2> QED
    BY <2>3, <2>5, <2>6
<1> QED
  BY <1>9, <1>10, <1>11

\* A call returns, is interrupted or meets another creator.
LEMMA FinishStep ==
  ASSUME IInv, IInv', Story, NEW c \in Controllers, Return(c) \/ Interrupt(c) \/ Collide(c)
  PROVE  Abstract!Next \/ UNCHANGED Abstract!vars
<1>1. /\ call' = [call EXCEPT ![c] = Idle] /\ disk' = disk /\ call[c].op \notin {"idle", "locking"}
  BY DEF Return, Interrupt, Collide
<1>2. call[c].op \in Exclusive \/ call[c].op = "create"
  BY <1>1 DEF IInv, Typed, Calls, Exclusive
<1>3. \/ permits' = permits
      \/ /\ call[c].todo = <<>> /\ Loads(call[c].epoch) /\ call[c].told # Absent
         /\ permits' = [permits EXCEPT ![call[c].epoch] = @ \cup {call[c].told}]
  BY DEF Return, Interrupt, Collide
<1>4. CASE call[c].op \in Exclusive
  BY <1>1, <1>3, <1>4, EndStep
<1>5. CASE call[c].op = "create"
  <2>1. call[c].told = Absent
    BY <1>5 DEF IInv, Planned
  <2> QED
    BY <1>1, <1>3, <1>5, <2>1, CreatorEnds
<1> QED
  BY <1>2, <1>4, <1>5

\* The store answers: what it is asked for, it was consumed for.
LEMMA AnswerStep ==
  ASSUME IInv, NEW c \in Controllers, NEW e \in Epochs,
         \/ \E t \in Transitions : ReissuePermit(c, e, t)
         \/ RefuseRestore(c, e) \/ Classify(c, e)
  PROVE  Abstract!Next \/ UNCHANGED Abstract!vars
<1>1. call' = call /\ disk' = disk
  BY DEF ReissuePermit, RefuseRestore, Classify, Answer
<1>2. ASSUME NEW o \in Epochs PROVE Seen(o)' = Seen(o)
  <2>1. Writing(o)' = Writing(o) /\ Creating(o)' = Creating(o)
    BY <1>1 DEF Writing, Creating
  <2>2. disk'[o] = disk[o] /\ \A d \in Writing(o) : call'[d].before = call[d].before
    BY <1>1
  <2> QED
    BY <2>1, <2>2, SeenUnchanged
<1>3. CASE RefuseRestore(c, e) \/ Classify(c, e)
  BY <1>2, <1>3, Stutters DEF RefuseRestore, Classify
<1>4. ASSUME NEW t \in Transitions, ReissuePermit(c, e, t) PROVE Abstract!Next
  <2>1. Opens(c, e)
    BY <1>4 DEF ReissuePermit
  <2>2. Typed /\ Loads(e) /\ call[c].op = "idle" /\ \A d \in Controllers \ {c} : e \notin call[d].locks
    BY <2>1, OpensFacts
  <2>3. Writing(e) = {}
    BY <2>2, NobodyWrites DEF Exclusive
  <2>4. PICK b \in Snapshots : b = Snapshot(e)
    BY <2>2, SnapshotType
  <2>5. Seen(e) = b
    BY <2>2, <2>3, <2>4 DEF Seen
  <2>6. disk[e].spool = disk[e].frames
    BY <2>2, LoadsFacts
  <2>7. b.st = "ACTIVE" /\ b.led = t /\ Last(b.chain) = "RUNNER_STARTED"
    BY <1>4, <2>4, <2>6 DEF ReissuePermit, Snapshot, Body
  <2>8. permits' = [permits EXCEPT ![e] = @ \cup {t}]
    BY <1>4 DEF ReissuePermit
  <2> QED
    BY <1>2, <2>5, <2>7, <2>8, Permits
<1> QED
  BY <1>3, <1>4

LEMMA StepIsEpochStep == IInv /\ IInv' /\ Story /\ [Next]_vars => [Abstract!Next]_(Abstract!vars)
<1> SUFFICES ASSUME IInv, IInv', Story, [Next]_vars
             PROVE  Abstract!Next \/ UNCHANGED Abstract!vars
  OBVIOUS
<1>1. CASE UNCHANGED vars
  <2>1. call' = call /\ disk' = disk /\ permits' = permits
    BY <1>1 DEF vars
  <2>2. ASSUME NEW o \in Epochs PROVE Seen(o)' = Seen(o)
    <3>1. Writing(o)' = Writing(o) /\ Creating(o)' = Creating(o)
      BY <2>1 DEF Writing, Creating
    <3>2. disk'[o] = disk[o] /\ \A d \in Writing(o) : call'[d].before = call[d].before
      BY <2>1
    <3> QED
      BY <3>1, <3>2, SeenUnchanged
  <2> QED
    BY <2>1, <2>2, Stutters
<1>2. ASSUME Unnoticed PROVE UNCHANGED Abstract!vars
  BY <1>2, Stutters DEF Unnoticed
<1>3. ASSUME NEW c \in Controllers, NEW e \in Epochs,
             \/ BindArtifactRow(c, e) \/ MarkReady(c, e) \/ Activate(c, e) \/ Abandon(c, e)
             \/ \E a \in Artifacts : BindArtifact(c, e, a) \/ BindArtifactV2(c, e, a)
             \/ \E stage \in Stages : IngestFrame(c, e, stage)
             \/ \E t \in Transitions : ConsumeRestore(c, e, t)
      PROVE  UNCHANGED Abstract!vars
  BY <1>2, <1>3, OpeningStep
<1>4. ASSUME NEW c \in Controllers, NEW e \in Epochs,
             \E supersedes \in (Epochs \ {e}) \cup {None} : CreateEpoch(c, e, supersedes)
      PROVE  UNCHANGED Abstract!vars
  BY <1>2, <1>4, CreateStep
<1>5. ASSUME NEW c \in Controllers, Supersede(c) \/ \E old, new \in Epochs : BeginSupersede(c, old, new)
      PROVE  UNCHANGED Abstract!vars
  BY <1>2, <1>5, SupersedeStep
<1>6. ASSUME NEW c \in Controllers, Write(c) PROVE Abstract!Next \/ UNCHANGED Abstract!vars
  <2>1. call[c].op = "create" \/ call[c].op \in Exclusive
    BY <1>6, WriteAlone
  <2> QED
    BY <1>6, <2>1, RewriteStep, BuildStep
<1>7. ASSUME NEW c \in Controllers, Return(c) \/ Interrupt(c) \/ Collide(c)
      PROVE  Abstract!Next \/ UNCHANGED Abstract!vars
  BY <1>7, FinishStep
<1>8. ASSUME NEW c \in Controllers, NEW e \in Epochs,
             \/ \E t \in Transitions : ReissuePermit(c, e, t)
             \/ RefuseRestore(c, e) \/ Classify(c, e)
      PROVE  Abstract!Next \/ UNCHANGED Abstract!vars
  BY <1>8, AnswerStep
<1> QED
  BY <1>1, <1>3, <1>4, <1>5, <1>6, <1>7, <1>8 DEF Next

LEMMA InitIsEpochInit == Init => Abstract!Init
<1> SUFFICES ASSUME Init PROVE Abstract!Init
  OBVIOUS
<1>1. \A c \in Controllers : call[c].op = "idle"
  BY IdleCall DEF Init
<1>2. ASSUME NEW e \in Epochs PROVE Seen(e) = NotCreated
  <2>1. disk[e].made = 0 /\ disk[e].record = Absent
    BY DEF Init, Untouched
  <2>2. Writing(e) = {}
    BY <1>1 DEF Writing
  <2>3. ~Loads(e)
    BY <2>1 DEF Loads, LayoutComplete
  <2> QED
    BY <2>1, <2>2, <2>3 DEF Seen
<1> QED
  BY <1>2 DEF Init, Abstract!Init

\* Wherever its calls are interrupted and however they interleave, the store
\* does to an epoch, as its reader sees it, what the one-step epoch allows:
\* every operation whole or the epoch closed for ever.
THEOREM EpochImplemented == Spec => ImplementsEpoch
<1>1. Init => IInv /\ Story
  BY InitIInv, InitStory
<1>2. IInv /\ Story /\ [Next]_vars => IInv' /\ Story'
  BY NextIInv, NextStory
<1> QED
  BY <1>1, <1>2, InitIsEpochInit, StepIsEpochStep, PTL DEF Spec, Abstract!Spec, ImplementsEpoch
=============================================================================
