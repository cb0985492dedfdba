CONSTANTS
  Programs <- Names
  Code <- ProgramOf
  Budget = 8
  MaxDepth = 2
  Longest = 14
  Steps = 5
SPECIFICATION FairSpec
INVARIANT CallsNest
PROPERTIES Promise Yields
CHECK_DEADLOCK FALSE
