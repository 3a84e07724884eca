CONSTANTS
  NCPU = 1
  NPROC = 4
  MaxSlices <- MCMaxSlices
  MaxSleep = 1
  Calls = {"fork", "wait", "kill"}
SPECIFICATION Spec
INVARIANT
  KillWakes
CHECK_DEADLOCK FALSE
