\* One intake loop and one web request: the request sets last_hash back.
SPECIFICATION Spec
CONSTANTS
  w1 = w1
  w2 = w2
  r1 = r1
  Writer = {w1}
  Reader = {r1}
  FileBlocks = 4
  MaxBlocks = 4
  MaxCrashes = 0
INVARIANTS
  ChainLinked
