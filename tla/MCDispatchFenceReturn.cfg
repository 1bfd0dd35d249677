\* A node that was lost comes back and executes the task again.
SPECIFICATION Spec
CONSTANTS
  Node = {n1, n2}
  Owner = {n1, n2}
  NoNode = NoNode
  NodesReturn = TRUE
  Task = {t1}
  NoOwner = NoOwner
  Run = {r1, r2}
  TaskOf <- SameTask
  Eligible <- AllEligible
  LeaderOnly = FALSE
  MaxAttempts = 1
  NoMsg = NoMsg
PROPERTIES GenerationFence
