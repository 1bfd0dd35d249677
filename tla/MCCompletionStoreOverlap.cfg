SPECIFICATION Spec
CONSTANTS
  Task = {t1}
  Caller = {c1, c2, c3}
  MaxCrashes = 1
  MaxErrors = 1
  NoFile = NoFile
  Empty = Empty
  Torn = Torn
  NoTask = NoTask
SYMMETRY Symmetry
INVARIANTS
  AtomicPersistence
