CONSTANTS
  Root = root
  Writers = {root, a}
  Cap = 1
  Every = 2
  MaxItems <- TwoEach
  IsSubst = TRUE
  Shared = FALSE
  Kills = TRUE
SPECIFICATION Spec
INVARIANTS NoLostWakeUp SettleReturns
PROPERTY IsFifo
CHECK_DEADLOCK FALSE
