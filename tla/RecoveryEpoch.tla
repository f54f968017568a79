---------------------------- MODULE RecoveryEpoch ----------------------------
(***************************************************************************)
(* What the recovery store promises of one epoch, as if each of its        *)
(* operations were a single step: the abstract side of RecoveryStore.tla,  *)
(* which writes an epoch file by file and may be interrupted between any   *)
(* two of them.  An epoch authorizes at most one restore.  It goes through *)
(* its states in order, it is bound to one artifact, its ledger is         *)
(* consumed once and for one transition, a permit for that transition is   *)
(* given only while the restore has not begun, and an epoch that cannot be *)
(* read any more stays that way: nothing is ever taken back.               *)
(***************************************************************************)
EXTENDS Naturals, Sequences

CONSTANTS Epochs, Artifacts, Transitions, Absent, Stuck

VARIABLES
  epoch,    \* Absent, Stuck, or the snapshot a reader gets
  permits   \* the transitions a restore was permitted for

vars == <<epoch, permits>>

Last(chain) == IF chain = <<>> THEN "NONE" ELSE chain[Len(chain)]

Readable(e) == epoch[e] \notin {Absent, Stuck}

\* The epoch is being worked on and its runner has not begun to restore.
AwaitsRestore(e) ==
  /\ Readable(e)
  /\ epoch[e].st = "ACTIVE"
  /\ Last(epoch[e].chain) = "RUNNER_STARTED"

Init ==
  /\ epoch = [e \in Epochs |-> Absent]
  /\ permits = [e \in Epochs |-> {}]

Become(e, snapshot) ==
  /\ epoch' = [epoch EXCEPT ![e] = snapshot]
  /\ UNCHANGED permits

Create(e) ==
  /\ epoch[e] = Absent
  /\ Become(e, [st |-> "INITIALISED", art |-> "PENDING", led |-> "UNCONSUMED", chain |-> <<>>])

Bind(e) ==
  /\ Readable(e)
  /\ epoch[e].art \notin Artifacts
  /\ \E art \in Artifacts \cup {"ROW_BOUND"} :
       Become(e, [epoch[e] EXCEPT !.art = art])

Advance(e) ==
  /\ Readable(e)
  /\ \/ epoch[e].st = "INITIALISED" /\ Become(e, [epoch[e] EXCEPT !.st = "READY"])
     \/ epoch[e].st = "READY" /\ Become(e, [epoch[e] EXCEPT !.st = "ACTIVE"])

\* An epoch is superseded only before its runner has started.
Supersede(e) ==
  /\ Readable(e)
  /\ epoch[e].st \in {"INITIALISED", "READY", "ACTIVE"}
  /\ epoch[e].led = "UNCONSUMED"
  /\ epoch[e].chain \in {<<>>, <<"EPOCH_READY">>}
  /\ Become(e, [epoch[e] EXCEPT !.st = "SUPERSEDED"])

\* The one-way step.  Whoever asked may not live to be told.
Consume(e, t) ==
  /\ AwaitsRestore(e)
  /\ epoch[e].led = "UNCONSUMED"
  /\ epoch' = [epoch EXCEPT ![e].led = t]
  /\ \/ permits' = [permits EXCEPT ![e] = @ \cup {t}]
     \/ UNCHANGED permits

Permit(e, t) ==
  /\ AwaitsRestore(e)
  /\ epoch[e].led = t
  /\ permits' = [permits EXCEPT ![e] = @ \cup {t}]
  /\ UNCHANGED epoch

\* A restore begins and commits only under a consumed ledger; an epoch whose
\* restore was permitted is abandoned only once that restore has begun.
Frame(e, stage) ==
  /\ Readable(e)
  /\ epoch[e].st \in {"INITIALISED", "READY", "ACTIVE"}
  /\ LET last == Last(epoch[e].chain)
         consumed == epoch[e].led # "UNCONSUMED"
     IN \/ stage = "EPOCH_READY" /\ last = "NONE" /\ ~consumed
        \/ stage = "RUNNER_STARTED" /\ last = "EPOCH_READY" /\ ~consumed
        \/ stage = "RESTORE_BEGIN" /\ last = "RUNNER_STARTED" /\ consumed
        \/ stage = "COMMIT" /\ last = "RESTORE_BEGIN" /\ consumed
        \/ stage = "ABANDON" /\ (consumed <=> last = "RESTORE_BEGIN")
  /\ Become(e, [epoch[e] EXCEPT
       !.chain = Append(@, stage),
       !.st = CASE stage = "COMMIT" -> "CONSUMED"
                [] stage = "ABANDON" -> "ABANDONED"
                [] OTHER -> @])

\* An operation was interrupted half way: nobody reads the epoch again.
Close(e) == epoch[e] # Stuck /\ Become(e, Stuck)

Next ==
  \E e \in Epochs :
    \/ Create(e) \/ Bind(e) \/ Advance(e) \/ Supersede(e) \/ Close(e)
    \/ \E t \in Transitions : Consume(e, t) \/ Permit(e, t)
    \/ \E stage \in {"EPOCH_READY", "RUNNER_STARTED", "RESTORE_BEGIN", "COMMIT", "ABANDON"} :
         Frame(e, stage)

Spec == Init /\ [][Next]_vars

=============================================================================
