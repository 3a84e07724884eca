CONSTANTS
  NCPU = 2
  NPROC = 4
  MaxSlices <- MCMaxSlices
  MaxSleep = 1
  Calls = {"fork", "sleep", "dump"}
SPECIFICATION Spec
INVARIANT
  NeverWedged
CHECK_DEADLOCK FALSE
