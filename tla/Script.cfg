CONSTANTS
  Programs <- Safe
SPECIFICATION FairSpec
INVARIANT MetaIsLive
PROPERTIES IsDelimited ScriptEnds
CHECK_DEADLOCK FALSE
