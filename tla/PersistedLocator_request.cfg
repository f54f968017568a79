\* One request is served, and the process ends.
SPECIFICATION FairSpec
CHECK_DEADLOCK FALSE
CONSTANTS
  R = 2
  I = 1
  S = 1
  MARGIN = 1
  QueueMax = 2
  MaxRows = 2
INVARIANT AnswersAreTrue
PROPERTY EveryRequestAnswered
