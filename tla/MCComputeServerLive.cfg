SPECIFICATION FairSpec
CONSTANTS
  r1 = r1
  r2 = r2
  r3 = r3
  t1 = t1
  t2 = t2
  Request = {r1, r2, r3}
  Id = {t1, t2}
  IdOf <- MCIdOf
  NoRequest = NoRequest
  Cancelling = FALSE
  Stopping = FALSE
CHECK_DEADLOCK FALSE
INVARIANTS
  OneLoop
  RegistrySound
PROPERTIES
  EverythingEnds
