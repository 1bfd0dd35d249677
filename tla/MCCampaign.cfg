SPECIFICATION FairSpec
CONSTANTS
  NodeIds = {1, 2, 3}
  FailedMaster = 1
  Hub = 0
  ClusterSize = 3
  Never = Never
  NoNode = NoNode
  NoRun = NoRun
  MaxUnread = 3
  StartOrder <- MCStartOrder
  Topologies <- MCTopologies
  StartRun = 10
  Plans <- MCPlans
INVARIANTS
  PlanFollowed
  ValidIsReal
  TimelineIsPrefix
  StatisticsSound
  OnlyFailedStopsSurvive
PROPERTIES
  SplitIsReal
  EachRunOnce
  ExecutorEnds
