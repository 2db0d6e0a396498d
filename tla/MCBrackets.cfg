CONSTANTS
  Topologies <- MCTopologies
  Modes = {"hyperband", "bohb"}
  Concurrency = 2
  Dimensions = 1
  Values = {1, 2}
  None = None
SPECIFICATION FairSpec
INVARIANTS PromotesBest PlanFollowed
PROPERTIES ScheduleEnds
CHECK_DEADLOCK FALSE
