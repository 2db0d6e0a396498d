CONSTANTS
  Clients = {c1, c2}
  Trials = 2
  SpaceSize = 2
  Values = {1, 2}
  Interrupts = 1
  None = None
SPECIFICATION FairSpec
INVARIANTS TypeOK HistoryIsJournaled EventsTruthful  BestIsCurrent
PROPERTIES ImplementsLedger BudgetCompletes
CHECK_DEADLOCK FALSE
