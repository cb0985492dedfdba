CONSTANTS
  MaxThreads = 3
  Statements = 3
  Cap = 1
  Ops = {"subst", "read", "external", "pipe", "bg", "pending", "wait", "kill", "exit"}
SPECIFICATION FairSpec
PROPERTY ValueArrives
CHECK_DEADLOCK FALSE
