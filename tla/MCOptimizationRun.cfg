CONSTANTS
  Workers = {w1, w2}
  Trials = 2
  SpaceSize = 3
  MaxCost = 0
  Endings = {"Completed", "Failed"}
  MaxLegs = 2
  None = None
SPECIFICATION FairSpec
INVARIANTS TypeOK OutcomesKept DrawsNotRepeated CheckpointSound CostBounded
PROPERTIES LegsAreLedgers LegsEnd
CHECK_DEADLOCK FALSE
