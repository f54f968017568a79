------------------------ MODULE MCDurableOperation ------------------------
EXTENDS DurableOperation, TLC

CONSTANTS e1, e2, r1, r2, r3, r4

\* r1 and r2 lie on one object; r3 is a right no ready database has, r4 one
\* on the migration ledger.
MCRights == {r1, r2, r3, r4}
MCObjectOf == (r1 :> "sessions") @@ (r2 :> "sessions") @@ (r3 :> "users") @@ (r4 :> "ledger")
MCReady == {d \in SUBSET MCRights : r3 \notin d}

Gives(r) == [grant |-> TRUE, right |-> r]
Takes(r) == [grant |-> FALSE, right |-> r]
Reversible(pre, ops, capable) ==
  [kind |-> "reversible", pre |-> pre, ops |-> ops, capable |-> capable]

GrantsOne == Reversible({}, <<Gives(r1)>>, FALSE)
Swaps == Reversible({r1}, <<Gives(r2), Takes(r1)>>, FALSE)
BreaksReadiness == Reversible({}, <<Gives(r3)>>, TRUE)
Unsupported == [kind |-> "irreversible", pre |-> {}, ops |-> <<Gives(r2)>>, capable |-> TRUE]
UnsupportedAlone == [Unsupported EXCEPT !.capable = FALSE]
NothingPending == [kind |-> "migration", pre |-> {}, ops |-> <<>>, capable |-> FALSE]
PendingAlone == [kind |-> "migration", pre |-> {}, ops |-> <<Gives(r2)>>, capable |-> FALSE]

\* The plans of two calls that meet; a migration locks the ledger, and is here blocked
\* for want of a restore.
RacingPlans == (e1 :> {GrantsOne, BreaksReadiness, Unsupported}) @@
               (e2 :> {Swaps, UnsupportedAlone, NothingPending, PendingAlone})
=============================================================================
