-------------------------- MODULE MCPersistedLocator --------------------------
(* One request, with timeouts of one tick and a queue of two events. *)
EXTENDS PersistedLocator
=============================================================================
