\* One disturbance of any kind; ticks of 2.5 seconds.
SPECIFICATION FairSpec
CONSTANTS
  Node = {1, 2, 3}
  PeerTimeout = 12
  NoRecord = NoRecord
  StaleAfter = 6
  MinCycle = 2
  MaxCycle = 3
  Majority = 2
  SingleMode = FALSE
  StartRole <- FirstIsMaster
  MaxFaults = 1
  NoPost = NoPost
INVARIANTS
  RolesSound
PROPERTIES
  Convergence
