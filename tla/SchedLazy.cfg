SPECIFICATION Spec
CONSTANTS
  None = None
  Unmade = Unmade
  Thunk = Thunk
  Cell = Cell
  Main = main
  VProcs = {main, a, b}
  Refs = {}
  Thunks = {l}
  Holds = {h}
  Frames = {f}
  MaxDepth = 1
  MaxValue = 0
  Procs = {}
  Streams = {}
  PollInterval = 0
  MaxInterrupts = 0
  Seeded = TRUE
  Prims = {"kill", "reenter"}
SYMMETRY Symmetry
INVARIANTS PromptLazy KillSpares KillArrives StopIsRight
PROPERTIES ClaimIsExclusive
