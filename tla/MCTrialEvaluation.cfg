CONSTANTS
  t1 = t1
  t2 = t2
  Trials <- MCTrials
  Configs = {k1}
  Values = {v1, v2}
  Steps <- MCSteps
  MaxRetries = 1
  Garbled = Garbled
  Unknown = Unknown
  None = None
SPECIFICATION FairSpec
INVARIANTS OneValuePerConfig ReportsTruthful NothingLeftBehind
PROPERTIES TrialsEnd
CHECK_DEADLOCK FALSE
