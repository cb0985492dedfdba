SPECIFICATION Spec
CONSTANTS
  None = None
  Objects = {p, g, v}
  Containers = {p, g}
  VProcs = {p}
  GVEnvs = {g}
  GvSlot = s1
  Conts = {v}
  Slots = {s1, s2}
  Holders = {h1, h2}
  MinThreshold = 1
  MaxMade = 2
SYMMETRY Symmetry
INVARIANT TypeOK
PROPERTIES KeepsPromise CollectsAll
CHECK_DEADLOCK FALSE
