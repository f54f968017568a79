------------------------ MODULE MCRuntimeActivation ------------------------
(* Model-checking instance of RuntimeActivation. *)
EXTENDS RuntimeActivation

\* The checks of the clock in the module's bounds: every attestation may be
\* used up, and an endpoint that was moved be found out, before the last tick.
ASSUME MaxNow >= Age + Validity
=============================================================================
