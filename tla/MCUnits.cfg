SPECIFICATION UnitsSpec
CONSTANTS
  CPU = {c0, c1}  NoCpu = NoCpu  Locks = {1, 2}
  PAGE = 2  NPAGES = 6  KSTACK = 2  MProcs = {1, 2}  Root = 1
  NB = 4  BSIZE = 2  NDIRECT = 1  IFiles = {1, 2}  IProcs = {1, 2}  Counts = {3}
  INPUT_BUF = 3  Wrap = 6  Keys = {"a", "nl", "^D", "^U", "^H", "nul", "^P"}  TReaders = {1}  Lengths = {1, 3}
  Chars = {"w", " ", "<", ">", "|", "&", ";", "(", ")"}  MaxLine = 4  FewChars = {"w", " ", "<"}  MaxLong = 6  MAXARGS = 3
  Slots = {1, 2, 3, 4, 5, 6}  Shell = 1  NOFILE = 7  NPipes = 2  PipeRoom = 1  Output = 2  MaxTyped = 1
  HEAP = 12  HDR = 2  MINU = 4  PGU = 2  Requests = {1, 3, 4, 7, 9}
  Letters = {"a", "b"}  MaxPattern = 3  MaxText = 3
INVARIANTS MutualExclusion HoldingExact NoPanic PopCliRestores
  MemoryExact ImageIntact BlocksExact FilesReadBack ReadersWake ParsesGrammar ForegroundDone HeapExact MatchesMeaning
PROPERTIES ImplementsLock SpinnersMakeProgress ImplementsTty PromptReturns
CHECK_DEADLOCK FALSE
