SPECIFICATION Spec
CONSTANTS
  NPROC = 2
  NFILE = 3
  NOFILE = 2
  NPIPE = 1
  PIPESIZE = 2
  Wrap = 4
  Writes = {3}
  Reads = {2}
  Killable = {2}
INVARIANTS
  RefExact
  EndsOpen
  InOrder
  NoLostSleeper
  OnlyExhaustion
CHECK_DEADLOCK FALSE
