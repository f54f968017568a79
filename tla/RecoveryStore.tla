---------------------------- MODULE RecoveryStore ----------------------------
(***************************************************************************)
(* The recovery controller's store of epochs                               *)
(* (src/scripts/platform-recovery-controller-store.py).  An epoch is a     *)
(* directory of small documents: a manifest, a record that holds the       *)
(* digest of the manifest, a restore ledger, a spool of hash-chained       *)
(* frames with its metadata and, in the second layout, the binding of the  *)
(* backup artifact.  Each document is replaced atomically and flushed, but *)
(* an operation replaces two to nine of them, one after the other, and the *)
(* controller may fail or be killed between any two.  What makes that safe *)
(* is the reader: it refuses an epoch whose documents do not agree.        *)
(*                                                                         *)
(* A digest is the content it is computed from.  Controllers are separate  *)
(* processes: they exclude each other by the lock file of the epoch only,  *)
(* and the creator of an epoch does not take it.                           *)
(***************************************************************************)
EXTENDS Naturals, Sequences

CONSTANTS
  Epochs,         \* epoch references, naturals: sorted() is their order
  Layout,         \* "v1" or "v2" for each epoch
  Artifacts,      \* pairs of an execution row and an artifact file
  Named,          \* the artifact the private identities of a v1 epoch name
  Transitions,    \* pairs of a transition id and a commitment to its data
  Controllers,    \* processes that use the store
  Absent,         \* the content of a document that was never written
  None,           \* no epoch
  MaxInterrupts   \* bound: operations that fail or are killed half way

ASSUME EpochsAssumption == Epochs \subseteq Nat /\ Layout \in [Epochs -> {"v1", "v2"}]
ASSUME NoneAssumption == None \notin Epochs /\ Absent \notin Transitions
ASSUME NamedAssumption == Named \in Artifacts /\ {"PENDING", "ROW_BOUND"} \cap Artifacts = {}
ASSUME LedgerAssumption == "UNCONSUMED" \notin Transitions
ASSUME InterruptsAssumption == MaxInterrupts \in Nat

VARIABLES
  disk,        \* the documents of each epoch
  call,        \* what each controller is doing
  interrupts,  \* operations interrupted so far
  permits,     \* history: the permits that callers were given
  claimed      \* the epoch the last answer called unconsumed, or None

vars == <<disk, call, interrupts, permits, claimed>>

Stages == {"EPOCH_READY", "RUNNER_STARTED", "RESTORE_BEGIN", "COMMIT", "ABANDON"}
States == {"INITIALISED", "READY", "ACTIVE", "ABANDONED", "SUPERSEDED", "CONSUMED"}
Terminal == {"ABANDONED", "SUPERSEDED", "CONSUMED"}

\* MUTANT of Follows: a runner that starts again is accepted.
FollowsOrRepeats(stage) ==
  CASE stage = "NONE" -> {"EPOCH_READY"}
    [] stage = "EPOCH_READY" -> {"RUNNER_STARTED", "ABANDON"}
    [] stage = "RUNNER_STARTED" -> {"RUNNER_STARTED", "RESTORE_BEGIN", "ABANDON"}
    [] stage = "RESTORE_BEGIN" -> {"COMMIT", "ABANDON"}
    [] OTHER -> {}

Follows(stage) ==
  CASE stage = "NONE" -> {"EPOCH_READY"}
    [] stage = "EPOCH_READY" -> {"RUNNER_STARTED", "ABANDON"}
    [] stage = "RUNNER_STARTED" -> {"RESTORE_BEGIN", "ABANDON"}
    [] stage = "RESTORE_BEGIN" -> {"COMMIT", "ABANDON"}
    [] OTHER -> {}

Last(chain) == IF chain = <<>> THEN "NONE" ELSE chain[Len(chain)]

\* What record and manifest both say of the epoch.
Bodies ==
  [st : States, art : {"PENDING", "ROW_BOUND"} \cup Artifacts,
   led : {"UNCONSUMED", "CONSUMED"}, supersedes : Epochs \cup {None}]

\* A record that was never written is no record.
ASSUME AbsentAssumption == Absent \notin [body : Bodies, digest : Bodies]

\* The spool's metadata is a summary of the chain of frames it has counted.
Chains == UNION {[1..n -> Stages] : n \in 0..4}

Directories == 0..4   \* epoch, lock file, spool, frames are made in this order

Documents ==
  [made : Directories,
   manifest : Bodies \cup {Absent},
   private : {"written", Absent},
   binding : {"PENDING", Absent} \cup Artifacts,
   ledger : {"UNCONSUMED", Absent} \cup Transitions,
   spool : Chains \cup {Absent},
   frames : Chains,
   record : [body : Bodies, digest : Bodies] \cup {Absent}]

Untouched ==
  [made |-> 0, manifest |-> Absent, private |-> Absent, binding |-> Absent,
   ledger |-> Absent, spool |-> Absent, frames |-> <<>>, record |-> Absent]

\* A call knows its epoch, the locks it holds and the one it waits for, the
\* writes it has left, what a reader saw when it began, and the transition
\* its caller will be told of.
Idle ==
  [op |-> "idle", epoch |-> None, locks |-> {}, awaits |-> None,
   todo |-> <<>>, before |-> Absent, told |-> Absent]

Init ==
  /\ disk = [e \in Epochs |-> Untouched]
  /\ call = [c \in Controllers |-> Idle]
  /\ interrupts = 0
  /\ permits = [e \in Epochs |-> {}]
  /\ claimed = None

-----------------------------------------------------------------------------
\* Reading an epoch

\* Every document of the layout is there; the record is written last.
LayoutComplete(d, layout) ==
  /\ d.made = 4
  /\ Absent \notin {d.manifest, d.private, d.ledger, d.spool, d.record}
  /\ layout = "v2" => d.binding # Absent

\* Record and manifest agree field by field, and the record's digest is that
\* of the manifest.
RecordAgrees(d) ==
  /\ d.record.body = d.manifest
  /\ d.record.digest = d.manifest
  /\ d.record.body.led = (IF d.ledger = "UNCONSUMED" THEN "UNCONSUMED" ELSE "CONSUMED")
  /\ d.record.body.st = "CONSUMED" => d.record.body.led = "CONSUMED"

\* The second layout: the record names the binding document.
BindingAgrees(d) ==
  /\ d.record.body.art = d.binding
  /\ d.binding = "PENDING" => d.record.body.st \in {"INITIALISED", "ABANDONED", "SUPERSEDED"}

\* The end of the spool and the state of the epoch are of one story.
SpoolAgrees(d) ==
  LET st == d.record.body.st
      consumed == d.ledger # "UNCONSUMED"
      last == Last(d.spool)
  IN CASE last = "COMMIT" -> st = "CONSUMED" /\ consumed
       [] last = "ABANDON" -> st = "ABANDONED"
       [] OTHER ->
            /\ st \notin {"ABANDONED", "CONSUMED"}
            /\ consumed => st = "ACTIVE"
            /\ last = "EPOCH_READY" => st \in {"READY", "ACTIVE", "SUPERSEDED"}
            /\ last = "RUNNER_STARTED" => st = "ACTIVE"
            /\ last = "RESTORE_BEGIN" => st = "ACTIVE" /\ consumed

LegalAbandon(last, consumed) ==
  \/ ~consumed /\ last \in {"EPOCH_READY", "RUNNER_STARTED"}
  \/ consumed /\ last = "RESTORE_BEGIN"

\* MUTANT of FramesAgree: the count of the metadata is not compared.
FramesFollow(d, layout) ==
  \A i \in DOMAIN d.frames :
    d.frames[i] \in Follows(IF i = 1 THEN "NONE" ELSE d.frames[i - 1])

\* The frame files, read one by one, are the chain the metadata counts.
FramesAgree(d, layout) ==
  LET consumed == d.ledger # "UNCONSUMED"
      before(i) == IF i = 1 THEN "NONE" ELSE d.frames[i - 1]
      direct == /\ layout = "v2"
                /\ d.record.body.st = "ABANDONED"
                /\ d.record.body.art = "PENDING"
                /\ ~consumed
                /\ d.frames = <<"ABANDON">>
  IN /\ d.frames = d.spool
     /\ direct \/ \A i \in DOMAIN d.frames :
          /\ d.frames[i] \in Follows(before(i))
          /\ d.frames[i] \in {"RESTORE_BEGIN", "COMMIT"} => consumed
          /\ d.frames[i] = "ABANDON" => LegalAbandon(before(i), consumed)

Loads(e) ==
  /\ LayoutComplete(disk[e], Layout[e])
  /\ RecordAgrees(disk[e])
  /\ Layout[e] = "v2" => BindingAgrees(disk[e])
  /\ SpoolAgrees(disk[e])
  /\ FramesAgree(disk[e], Layout[e])

Snapshot(e) ==
  [st |-> disk[e].record.body.st, art |-> disk[e].record.body.art,
   led |-> disk[e].ledger, chain |-> disk[e].frames]

-----------------------------------------------------------------------------
\* Locks and writes

Free(e) == \A c \in Controllers : e \notin call[c].locks

\* A controller takes the epoch's lock and reads it.  A lock file that is not
\* there, or documents that do not agree, end the call without a change.
Opens(c, e) ==
  /\ call[c] = Idle
  /\ disk[e].made >= 2
  /\ Free(e)
  /\ Loads(e)

Body(e) == disk[e].record.body
Bound(e) == Layout[e] = "v2" => disk[e].binding # "PENDING"

Begin(c, op, e, locks, todo, told) ==
  /\ call' = [call EXCEPT ![c] =
       [op |-> op, epoch |-> e, locks |-> locks, awaits |-> None, todo |-> todo,
        before |-> Snapshot(e), told |-> told]]
  /\ claimed' = None
  /\ UNCHANGED <<disk, interrupts, permits>>

\* The manifest is replaced first, then the record with its digest.
StateUpdate(body) ==
  << <<"manifest", body>>, <<"record", [body |-> body, digest |-> body]>> >>

\* A call that ends without a write of its own: it has read, or refused.
Answer(claim) ==
  /\ claimed' = claim
  /\ UNCHANGED <<disk, call, interrupts>>

\* The next document is replaced, or linked under a name that must be new.
Write(c) ==
  LET e == call[c].epoch
      file == Head(call[c].todo)[1]
      content == Head(call[c].todo)[2]
  IN /\ call[c].todo # <<>>
     /\ ~(file = "made" /\ disk[e].made >= content)
     /\ disk' = [disk EXCEPT ![e] = [@ EXCEPT ![file] = content]]
     /\ call' = [call EXCEPT ![c].todo = Tail(@)]
     /\ claimed' = None
     /\ UNCHANGED <<interrupts, permits>>

\* Everything is written, the epoch is read once more and the caller is told.
Return(c) ==
  LET e == call[c].epoch IN
  /\ call[c].op \notin {"idle", "locking"}
  /\ call[c].todo = <<>>
  /\ call' = [call EXCEPT ![c] = Idle]
  /\ permits' = IF call[c].told # Absent /\ Loads(e)
                  THEN [permits EXCEPT ![e] = @ \cup {call[c].told}] ELSE permits
  /\ claimed' = None
  /\ UNCHANGED <<disk, interrupts>>

\* What bind_artifact_v2 says of a write that failed: it reads the epoch again.
BindingClaim(c) ==
  LET e == call[c].epoch IN
  IF call[c].op = "bind_v2" /\ Loads(e) /\ disk[e].ledger = "UNCONSUMED" /\ Body(e).st = "INITIALISED"
    THEN e ELSE None

\* A write fails, before or after the document was replaced, or the process
\* dies; either way the lock is released and nothing is cleaned up.
Interrupt(c) ==
  /\ call[c].op \notin {"idle", "locking"}
  /\ interrupts < MaxInterrupts
  /\ interrupts' = interrupts + 1
  /\ call' = [call EXCEPT ![c] = Idle]
  /\ claimed' \in {None, BindingClaim(c)}
  /\ UNCHANGED <<disk, permits>>

\* Two creators of one epoch: mkdir refuses the second.
Collide(c) ==
  /\ call[c].op = "create"
  /\ call[c].todo # <<>>
  /\ Head(call[c].todo)[1] = "made"
  /\ disk[call[c].epoch].made >= Head(call[c].todo)[2]
  /\ call' = [call EXCEPT ![c] = Idle]
  /\ claimed' = None
  /\ UNCHANGED <<disk, interrupts, permits>>

-----------------------------------------------------------------------------
\* Operations

\* Directories, documents, and the record at the end.  Creation holds no lock
\* of the store's: the lock file is one of the things it makes.
CreatePlan(e, supersedes) ==
  LET body == [st |-> "INITIALISED", art |-> "PENDING",
               led |-> "UNCONSUMED", supersedes |-> supersedes]
      binding == IF Layout[e] = "v2" THEN << <<"binding", "PENDING">> >> ELSE <<>>
  IN << <<"made", 1>>, <<"made", 2>>, <<"made", 3>>, <<"made", 4>>,
        <<"manifest", body>>, <<"private", "written">>,
        <<"ledger", "UNCONSUMED">>, <<"spool", <<>> >> >>
     \o binding
     \o << <<"record", [body |-> body, digest |-> body]>> >>

CreateEpoch(c, e, supersedes) ==
  /\ call[c] = Idle
  /\ disk[e].made = 0
  /\ call' = [call EXCEPT ![c] =
       [Idle EXCEPT !.op = "create", !.epoch = e, !.todo = CreatePlan(e, supersedes)]]
  /\ claimed' = None
  /\ UNCHANGED <<disk, interrupts, permits>>

\* The first layout binds in two steps what its private identities name.
BindArtifactRow(c, e) ==
  /\ Opens(c, e)
  /\ Layout[e] = "v1"
  /\ Body(e).st \notin Terminal
  /\ Body(e).art = "PENDING"
  /\ Begin(c, "bind", e, {e}, StateUpdate([Body(e) EXCEPT !.art = "ROW_BOUND"]), Absent)

BindArtifact(c, e, a) ==
  /\ Opens(c, e)
  /\ Layout[e] = "v1"
  /\ Body(e).st \notin Terminal
  /\ Body(e).art = "ROW_BOUND"
  /\ a = Named
  /\ Begin(c, "bind", e, {e}, StateUpdate([Body(e) EXCEPT !.art = a]), Absent)

\* The second layout replaces the binding document first.  Binding again to
\* the same artifact answers without a write; to another is refused.
BindArtifactV2(c, e, a) ==
  /\ Opens(c, e)
  /\ Layout[e] = "v2"
  /\ Body(e).st \notin Terminal
  /\ disk[e].binding = "PENDING"
  /\ Begin(c, "bind_v2", e, {e},
           << <<"binding", a>> >> \o StateUpdate([Body(e) EXCEPT !.art = a]), Absent)

TransitionEpoch(c, e, from, to) ==
  /\ Opens(c, e)
  /\ Bound(e)
  /\ Body(e).st = from
  /\ Begin(c, "transition", e, {e}, StateUpdate([Body(e) EXCEPT !.st = to]), Absent)

MarkReady(c, e) == TransitionEpoch(c, e, "INITIALISED", "READY")
Activate(c, e) == TransitionEpoch(c, e, "READY", "ACTIVE")

\* Which frame may come next, judged on what is on disk.
StageAllowed(e, stage) ==
  LET st == Body(e).st
      consumed == disk[e].ledger # "UNCONSUMED"
      last == Last(disk[e].spool)
      direct == /\ stage = "ABANDON"
                /\ Layout[e] = "v2" /\ st = "INITIALISED"
                /\ disk[e].binding = "PENDING" /\ ~consumed /\ disk[e].spool = <<>>
  IN /\ stage # "ABANDON" => Bound(e)
     /\ last \notin {"COMMIT", "ABANDON"}
     /\ \/ direct
        \/ /\ stage \in Follows(last)
           /\ CASE stage = "EPOCH_READY" -> st \in {"READY", "ACTIVE"}
                [] stage = "RUNNER_STARTED" -> st = "ACTIVE"
                [] stage \in {"RESTORE_BEGIN", "COMMIT"} -> st = "ACTIVE" /\ consumed
                [] OTHER -> LegalAbandon(last, consumed)

\* The frame is linked first, then counted; a last frame ends the epoch.
FramePlan(e, stage) ==
  LET chain == Append(disk[e].spool, stage)
      ends == CASE stage = "COMMIT" -> StateUpdate([Body(e) EXCEPT !.st = "CONSUMED"])
                [] stage = "ABANDON" -> StateUpdate([Body(e) EXCEPT !.st = "ABANDONED"])
                [] OTHER -> <<>>
  IN << <<"frames", chain>>, <<"spool", chain>> >> \o ends

Abandon(c, e) ==
  /\ Opens(c, e)
  /\ Body(e).st \notin Terminal
  /\ StageAllowed(e, "ABANDON")
  /\ Begin(c, "frame", e, {e}, FramePlan(e, "ABANDON"), Absent)

\* A runner sends back a frame that prepare_runner_frame gave it at any time
\* before: the frame extends one chain, and its stage is judged again.
IngestFrame(c, e, stage) ==
  /\ Opens(c, e)
  /\ Body(e).st \notin Terminal
  /\ StageAllowed(e, stage)
  /\ Begin(c, "frame", e, {e}, FramePlan(e, stage), Absent)

\* MUTANT of ConsumeRestore: the caller is told before the ledger is written.
ConsumeAndTell(c, e, t) ==
  /\ Opens(c, e)
  /\ Bound(e)
  /\ disk[e].ledger = "UNCONSUMED"
  /\ Body(e).st = "ACTIVE"
  /\ Last(disk[e].spool) = "RUNNER_STARTED"
  /\ permits' = [permits EXCEPT ![e] = @ \cup {t}]
  /\ call' = [call EXCEPT ![c] =
       [op |-> "consume", epoch |-> e, locks |-> {e}, awaits |-> None,
        todo |-> << <<"ledger", t>> >> \o StateUpdate([Body(e) EXCEPT !.led = "CONSUMED"]),
        before |-> Snapshot(e), told |-> Absent]]
  /\ claimed' = None
  /\ UNCHANGED <<disk, interrupts>>

\* The restore may begin: the ledger is replaced before anything else.
ConsumeRestore(c, e, t) ==
  /\ Opens(c, e)
  /\ Bound(e)
  /\ disk[e].ledger = "UNCONSUMED"
  /\ Body(e).st = "ACTIVE"
  /\ Last(disk[e].spool) = "RUNNER_STARTED"
  /\ Begin(c, "consume", e, {e},
           << <<"ledger", t>> >> \o StateUpdate([Body(e) EXCEPT !.led = "CONSUMED"]), t)

\* MUTANT of ReissuePermit: whoever asks again, for whatever transition.
PermitAgain(c, e, t) ==
  /\ Opens(c, e)
  /\ Bound(e)
  /\ disk[e].ledger \in Transitions
  /\ Body(e).st = "ACTIVE"
  /\ Last(disk[e].spool) = "RUNNER_STARTED"
  /\ permits' = [permits EXCEPT ![e] = @ \cup {t}]
  /\ Answer(None)

\* Somebody who asks again for the very transition the ledger was consumed
\* for gets the permit again, as long as the restore has not begun.
ReissuePermit(c, e, t) ==
  /\ Opens(c, e)
  /\ Bound(e)
  /\ disk[e].ledger = t
  /\ Body(e).st = "ACTIVE"
  /\ Last(disk[e].spool) = "RUNNER_STARTED"
  /\ permits' = [permits EXCEPT ![e] = @ \cup {t}]
  /\ Answer(None)

\* A consumption is refused with the word that the ledger is unconsumed: not
\* bound, not active, no runner, or a digest that does not match.
RefuseRestore(c, e) ==
  /\ Opens(c, e)
  /\ \/ ~Bound(e)
     \/ disk[e].ledger = "UNCONSUMED" /\ Body(e).st \notin Terminal
  /\ Answer(e)
  /\ UNCHANGED permits

\* ledger_safety_classification: whatever cannot be read is consumed.
Classify(c, e) ==
  /\ Opens(c, e)
  /\ disk[e].ledger = "UNCONSUMED"
  /\ Answer(e)
  /\ UNCHANGED permits

\* MUTANT of LockOrder: the locks in the order of the call.
AsGiven(old, new) == <<old, new>>

\* Two locks, in the order of the references.
LockOrder(old, new) == IF old < new THEN <<old, new>> ELSE <<new, old>>

BeginSupersede(c, old, new) ==
  /\ old # new
  /\ call[c] = Idle
  /\ disk[LockOrder(old, new)[1]].made >= 2
  /\ Free(LockOrder(old, new)[1])
  /\ call' = [call EXCEPT ![c] =
       [Idle EXCEPT !.op = "locking", !.epoch = old,
                    !.locks = {LockOrder(old, new)[1]}, !.awaits = LockOrder(old, new)[2]]]
  /\ claimed' = None
  /\ UNCHANGED <<disk, interrupts, permits>>

\* The barrier: the new epoch was created to supersede this old one.
Supersedable(old, new) ==
  /\ Loads(old) /\ Loads(new)
  /\ Body(old).st \notin Terminal
  /\ Body(new).st \in {"INITIALISED", "READY"}
  /\ Body(new).supersedes = old

Supersede(c) ==
  LET old == call[c].epoch
      second == call[c].awaits
      new == IF second = old THEN CHOOSE e \in call[c].locks : TRUE ELSE second
  IN /\ call[c].op = "locking"
     /\ Free(second)
     /\ IF disk[second].made >= 2 /\ Supersedable(old, new)
          THEN Begin(c, "supersede", old, {old, new},
                     StateUpdate([Body(old) EXCEPT !.st = "SUPERSEDED"]), Absent)
          ELSE /\ call' = [call EXCEPT ![c] = Idle]
               /\ claimed' = None
               /\ UNCHANGED <<disk, interrupts, permits>>

-----------------------------------------------------------------------------
Next ==
  \E c \in Controllers :
    \/ Write(c) \/ Return(c) \/ Interrupt(c) \/ Collide(c) \/ Supersede(c)
    \/ \E e \in Epochs :
         \/ \E supersedes \in (Epochs \ {e}) \cup {None} : CreateEpoch(c, e, supersedes)
         \/ BindArtifactRow(c, e) \/ MarkReady(c, e) \/ Activate(c, e) \/ Abandon(c, e)
         \/ \E a \in Artifacts : BindArtifact(c, e, a) \/ BindArtifactV2(c, e, a)
         \/ \E stage \in Stages : IngestFrame(c, e, stage)
         \/ \E t \in Transitions : ConsumeRestore(c, e, t) \/ ReissuePermit(c, e, t)
         \/ RefuseRestore(c, e) \/ Classify(c, e)
         \/ \E new \in Epochs : BeginSupersede(c, e, new)

Spec == Init /\ [][Next]_vars

-----------------------------------------------------------------------------
\* Properties

\* Every document has one of the shapes its validator accepts.
TypeOK ==
  /\ disk \in [Epochs -> Documents]
  /\ interrupts \in 0..MaxInterrupts
  /\ permits \in [Epochs -> SUBSET Transitions]
  /\ claimed \in Epochs \cup {None}
  /\ \A c \in Controllers : call[c].locks \subseteq Epochs

\* An epoch authorizes one restore: whatever fails or is asked again, all
\* permits are for the transition its ledger holds.
OneRestore ==
  \A e \in Epochs : permits[e] \subseteq {disk[e].ledger}

\* "Unconsumed" is never said of an epoch whose restore somebody was
\* permitted, nor of one whose ledger is consumed on disk.
UnconsumedIsTrue ==
  claimed # None => permits[claimed] = {} /\ disk[claimed].ledger = "UNCONSUMED"

\* Two supersessions the other way round do not wait for each other.
NoCircularWait ==
  \A c, d \in Controllers :
    call[c].awaits \in call[d].locks => call[d].awaits \notin call[c].locks

\* What the documents of an epoch, its permits and its controllers never break.
StoreInvariant == TypeOK /\ OneRestore /\ UnconsumedIsTrue /\ NoCircularWait

\* Seen through its reader, the store does every operation in one step or
\* closes the epoch for ever, wherever it is interrupted.
Writing(e) == {c \in Controllers : call[c].epoch = e /\ call[c].op \notin {"idle", "locking", "create"}}
Creating(e) == {c \in Controllers : call[c].epoch = e /\ call[c].op = "create"}

NotCreated == [st |-> "absent"]
Unreadable == [st |-> "unreadable"]

Seen(e) ==
  IF Writing(e) # {} THEN call[CHOOSE c \in Writing(e) : TRUE].before
  ELSE IF Loads(e) THEN Snapshot(e)
  ELSE IF disk[e].record = Absent /\ (disk[e].made = 0 \/ Creating(e) # {}) THEN NotCreated
  ELSE Unreadable

Abstract == INSTANCE RecoveryEpoch WITH
  epoch <- [e \in Epochs |-> Seen(e)],
  permits <- permits,
  Absent <- NotCreated,
  Stuck <- Unreadable

ImplementsEpoch == Abstract!Spec

=============================================================================
