------------------------- MODULE MCDatabasePosture -------------------------
(***************************************************************************)
(* DatabasePosture for TLC: every two changes of the operators, to the         *)
(* catalogue or to the environment, then a start, then a migration.            *)
(***************************************************************************)
EXTENDS DatabasePosture

\* The two do not meet before the start, which asks of each by itself: the changes of
\* a behaviour are all to the catalogue or all to the environment. Two changes are
\* those of the hosted environment, one of which can make it a local one.
DriftApart ==
  \/ drifts' = drifts
  \/ env' = Hosted
  \/ cat' = Baseline /\ (drifts' = 1 \/ Cardinality({v \in Variables : env'[v] # Hosted[v]}) <= 2)
=============================================================================
