CONSTANTS
  Root = root
  Owner = owner
  Writers = {root, a}
  Readers = {owner, b}
  Cap = 1
  MaxItems = 2
  IsSubst = TRUE
  Kills = TRUE
SPECIFICATION FairSpec
INVARIANTS TypeOK NoLostWakeUp BlockedIsRight OneEvaluates TakenInTurn
PROPERTIES IsFifo PutReturns ReadReturns
