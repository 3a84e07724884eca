CONSTANTS
  NCPU = 1
  NPROC = 3
  MaxSlices <- MCMaxSlices
  MaxSleep = 2
  Calls = {"fork", "exit", "wait", "sleep", "kill"}
SPECIFICATION Spec
INVARIANTS
  OnlyKillPanics
  NoLostWakeup
