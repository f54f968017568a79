---------------------------- MODULE MCAppLaunch ----------------------------
(* Small instances of AppLaunch for TLC. *)
EXTENDS AppLaunch, TLC

Symmetry ==
  Permutations(Slots) \cup Permutations(Tokens) \cup Permutations(Grants)
    \cup Permutations(Handles)
=============================================================================
