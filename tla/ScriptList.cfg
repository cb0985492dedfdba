CONSTANTS
  Programs <- Both
SPECIFICATION Spec
PROPERTY FullListStops
CHECK_DEADLOCK FALSE
