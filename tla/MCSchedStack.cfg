CONSTANTS
  NCPU = 2
  NPROC = 4
  MaxSlices <- MCMaxSlices
  MaxSleep = 1
  Calls = {"fork", "exit", "wait", "sleep"}
SPECIFICATION Spec
INVARIANT
  StackExclusive
CHECK_DEADLOCK FALSE
