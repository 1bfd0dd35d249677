SPECIFICATION Spec
CONSTANTS
  r1 = r1
  r2 = r2
  r3 = r3
  t1 = t1
  t2 = t2
  Request = {r1, r2, r3}
  Id = {t1}
  IdOf <- MCRetries
  NoRequest = NoRequest
  Cancelling = TRUE
  Stopping = TRUE
SYMMETRY MCSymmetry
CHECK_DEADLOCK FALSE
CONSTRAINT OneForgotten
INVARIANTS
  RegistrySound
  NoOverlap
  OwnOutcome
PROPERTIES
  CancelledForGood
