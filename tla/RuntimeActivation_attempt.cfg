\* An attempt that has ended, or whose cleanup of docker stays inconclusive, has
\* no step left: the code means it to stay there.
SPECIFICATION ActivationFairSpec
CONSTANTS
  Attempts = 4
  Age = 1
  Validity = 2
  MaxNow = 4
  MaxFaults = 1
  Diverges = TRUE
CHECK_DEADLOCK FALSE
PROPERTY ActivationSafe
PROPERTY AttemptEnds
