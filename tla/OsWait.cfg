SPECIFICATION FairSpec
CONSTANTS
  VProcs = {v1, v2}
  Procs = {p1, p2}
  Streams = {s}
  None = None
  PollInterval = 1
  MaxInterrupts = 1
INVARIANTS TypeOK NoExitSleptOver NoInterruptSleptOver
PROPERTIES NoExitSkipped WaitReturns
CHECK_DEADLOCK FALSE
