\* Everything is asked for once, an interruption may come at every step, and an
\* epoch that is closed stays closed: there is nothing left to do.
SPECIFICATION Spec
CONSTANTS
  c1 = c1
  c2 = c2
  a1 = a1
  a2 = a2
  t1 = t1
  t2 = t2
  Epochs = {1, 2}
  Layout <- Layouts
  Artifacts = {a1}
  Named = a1
  Transitions = {t1, t2}
  Controllers = {c1, c2}
  Absent = Absent
  None = None
  MaxInterrupts = 1
CHECK_DEADLOCK FALSE
CONSTRAINTS OneAtWork OneEpochAtATime CreatedFirst Unclaimed
SYMMETRY Symmetry
INVARIANT StoreInvariant
PROPERTY ImplementsEpoch
