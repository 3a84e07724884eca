CONSTANTS
  NCPU = 2
  NPROC = 4
  MaxSlices <- MCMaxSlices
  MaxSleep = 2
  Calls = {"fork", "exit", "wait", "sleep", "dump"}
SPECIFICATION Spec
INVARIANTS
  IInv
  QueuesIntact
  NoDeadlock
CHECK_DEADLOCK FALSE
