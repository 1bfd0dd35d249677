\* Two callers of one task with one retry each, nodes come and go.
SPECIFICATION Spec
CONSTANTS
  Node = {n1, n2}
  Owner = {n1, n2}
  NoNode = NoNode
  NodesReturn = TRUE
  Task = {t1}
  NoOwner = NoOwner
  Run = {r1, r2}
  TaskOf <- SameTask
  Eligible <- AllEligible
  LeaderOnly = FALSE
  MaxAttempts = 2
  NoMsg = NoMsg
SYMMETRY Symmetry
INVARIANTS
  NoAbandonedOwnership
  ExclusiveGeneration
PROPERTIES
  ReleasedByItsOwner
  FencedNeverDecides
  EveryCallEnds
  ImplementsTaskOutcome
