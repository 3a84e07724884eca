SPECIFICATION Spec
CONSTANTS
  Procs = {1, 2}
  NI = 3
  NINODE = 3
  Names = {"a", "b"}
  Calls <- MCCalls
  MaxLinks <- MCMaxLinks
INVARIANT
  NlinkIsLinks
CHECK_DEADLOCK FALSE
