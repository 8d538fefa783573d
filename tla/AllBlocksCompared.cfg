CONSTANTS
  DEGREE = 3
  IndexRange = 8
  Vars <- MCVars
  Files <- CorrectFiles
SPECIFICATION Spec
INVARIANT AllBlocksCompared
CHECK_DEADLOCK FALSE
