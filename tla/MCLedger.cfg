\* Writers, reader and crashes interleave at every step.
SPECIFICATION Spec
CONSTANTS
  w1 = w1
  w2 = w2
  r1 = r1
  Writer = {w1, w2}
  Reader = {r1}
  FileBlocks = 2
  MaxBlocks = 8
  MaxCrashes = 2
SYMMETRY Symmetry
CONSTRAINT InTurn
INVARIANTS
  LogSound
PROPERTIES
  AckedSurvives
  NoFalseAlarm
