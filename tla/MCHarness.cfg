SPECIFICATION FairSpec
CONSTANTS
  Nodes = {1, 2, 3}
  Master = 1
  Hub = 0
  HubSilent = HubSilent
  StartOrder <- MCStartOrder
  Configs <- MCConfigs
  FactSets <- MCFactSets
  TimingBounds <- MCTimingBounds
  ClusterSize = 3
  HubPort = 85
  MinFreeFloor = 20
  MinSecretLength = 16
  MaxClockOffset = 1
  MinAvailability = 60
  MaxGap = 2
  MinPromotionDelay = 1
  PromotionDeadline = 2
  Hold = 2
  KillGrace = 1
  Settle = 1
  Window = 3
  Baseline = 1
  Flush = 1
  MinObservation = 1
  MaxFaults = 1
  MaxChanges = 1
CONSTRAINT GuardOfScenario
INVARIANTS
  GatesHold
  PassMeansStopped
  StableFailIsReal
  PassSeesDeviations
  FailoverPassIsReal
  HoldAgrees
PROPERTIES
  RunEndsClean
