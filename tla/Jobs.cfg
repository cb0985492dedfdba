CONSTANTS
  MaxThreads = 4
  Statements = 3
  Cap = 1
  Ops = {"subst", "read", "external", "pipe", "bg", "pending", "wait", "kill", "exit"}
SPECIFICATION Spec
INVARIANTS NoLateCommand TreeFinishes NoCircle
CHECK_DEADLOCK FALSE
