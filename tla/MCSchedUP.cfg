CONSTANTS
  NCPU = 1
  NPROC = 4
  MaxSlices <- MCMaxSlices
  MaxSleep = 1
  Calls = {"fork", "exit", "wait", "sleep", "dump"}
SPECIFICATION FairSpec
INVARIANTS
  QueueExact
  CurrentIsHead
  TimesliceLive
  NoFault
  ParentAlive
PROPERTIES
  SleepersWake
