CONSTANTS
  Examples = 3
  Concurrency = 2
  MaxRounds = 2
  MaxErrors = 2
  Enough = 2
  None = None
SPECIFICATION Spec
PROPERTIES DeafStartsNothing
CHECK_DEADLOCK FALSE
