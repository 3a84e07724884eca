CONSTANTS
  NCPU = 1
  NPROC = 3
  MaxSlices <- MCMaxSlices
  MaxSleep = 1
  Calls = {"fork"}
SPECIFICATION FairSpec
PROPERTY
  TickPreempts
CHECK_DEADLOCK FALSE
