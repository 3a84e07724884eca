CONSTANTS
  p1 = p1  p2 = p2  p3 = p3
  x1 = x1  x2 = x2  x3 = x3
  NBUF = 2
  Written = {x1}
  Block0 = x1
  Procs <- MCProcs
  Blocks <- MCBlocks
  Values = {0, 1}
  NoProc = NoProc
  NoValue = NoValue
  ReadFails <- MCReadFails
SPECIFICATION FairSpec
INVARIANTS
  CacheConsistent
PROPERTIES
  ImplementsBlockStore
  RequestsServed
