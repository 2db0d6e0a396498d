CONSTANTS
  Workers = {w1, w2}
  Trials = 2
  SpaceSize = 2
  MaxCost = 1
  Endings = {"Completed"}
  MaxLegs = 1
  None = None
SPECIFICATION Spec
INVARIANTS FailuresCheckpointed
CHECK_DEADLOCK FALSE
