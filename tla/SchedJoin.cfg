SPECIFICATION Spec
CONSTANTS
  None = None
  Unmade = Unmade
  Thunk = Thunk
  Cell = Cell
  Main = main
  VProcs = {main, a, b, c}
  Refs = {x}
  Thunks = {}
  Holds = {}
  Frames = {}
  MaxDepth = 0
  MaxValue = 1
  Procs = {}
  Streams = {}
  PollInterval = 0
  MaxInterrupts = 0
  Seeded = FALSE
  Prims = {"suspend", "join", "kill", "exit"}
SYMMETRY Symmetry
INVARIANTS Consistent PromptJoin StopIsRight PromptRefChange
