CONSTANTS
  Inputs = 4
  Concurrency = 3
  None = None
SPECIFICATION FairSpec
INVARIANTS ViewTruthful ResultMatchesView NothingLeftRunning
PROPERTIES LostObserverLeftAlone AdmissionClosedFirst ImplementsView RunEnds
CHECK_DEADLOCK FALSE
