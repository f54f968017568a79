--------------------------- MODULE MCRecoveryStore ---------------------------
(***************************************************************************)
(* Two epochs, the second of the older layout, and two controllers.        *)
(***************************************************************************)
EXTENDS RecoveryStore, TLC

CONSTANTS c1, c2, a1, a2, t1, t2

Layouts == <<"v2", "v1">>
\* Bound: one epoch of the two is worked on; the other is created, bound or
\* superseded.
OneAtWork ==
  \E e \in Epochs :
    \/ disk[e].record = Absent
    \/ disk[e].spool = <<>> /\ disk[e].record.body.st \in {"INITIALISED", "SUPERSEDED"}

\* Bound: calls for different epochs share no document and no lock, unless
\* one is a supersession; they are not interleaved.
OneEpochAtATime ==
  \A c, d \in Controllers :
    \/ call[c].epoch = call[d].epoch
    \/ {call[c].op, call[d].op} \cap {"idle", "locking", "supersede"} # {}

\* Bound: an epoch is created while the other is untouched or just created; a
\* creation that was broken off is looked at by itself.
CreatedFirst ==
  \A e \in Epochs :
    disk[e].record = Absent /\ (disk[e].made > 0 \/ Creating(e) # {}) =>
      \A other \in Epochs \ {e} :
        \/ disk[other] = Untouched
        \/ /\ Creating(e) # {}
           /\ interrupts = 0
           /\ disk[other].record # Absent
           /\ disk[other].manifest.st = "INITIALISED"
           /\ disk[other].manifest.art = "PENDING"
           /\ disk[other].binding \in {"PENDING", Absent}
           /\ disk[other].frames = <<>>

\* An answer is in no guard: the state without it has the same successors.
Unclaimed == claimed = None

Symmetry == Permutations({c1, c2})

=============================================================================
