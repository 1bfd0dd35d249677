\* A process that cannot load its file stays down, hence no deadlock check.
SPECIFICATION Spec
CONSTANTS
  Task = {t1}
  Caller = {c1, c2, c3}
  MaxCrashes = 1
  MaxErrors = 1
  NoFile = NoFile
  Empty = Empty
  Torn = Torn
  NoTask = NoTask
SYMMETRY Symmetry
CHECK_DEADLOCK FALSE
INVARIANTS
  FileSound
  AckedDurable
  AtMostOnce
