\* A refused start ends the run; so do the migrations once everything is made.
CHECK_DEADLOCK FALSE
SPECIFICATION Spec
CONSTANT MaxDrift = 2
ACTION_CONSTRAINT DriftApart
INVARIANT PostureInvariant
INVARIANT ReportsAgree
