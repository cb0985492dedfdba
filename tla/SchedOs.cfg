SPECIFICATION FairSpec
CONSTANTS
  None = None
  Unmade = Unmade
  Thunk = Thunk
  Cell = Cell
  Main = main
  VProcs = {main, a}
  Refs = {x}
  Thunks = {}
  Holds = {}
  Frames = {}
  MaxDepth = 0
  MaxValue = 1
  Procs = {p}
  Streams = {s}
  PollInterval = 2
  MaxInterrupts = 1
  Seeded = FALSE
  Prims = {"suspend", "join", "kill"}
INVARIANTS TypeOK NoMissedChange
PROPERTIES NoStarvation
CHECK_DEADLOCK FALSE
