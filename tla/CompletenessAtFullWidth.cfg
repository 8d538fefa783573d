CONSTANTS
  DEGREE = 2
  IndexRange = 8
  Vars <- MCVars
  Files <- CorrectFiles
SPECIFICATION Spec
INVARIANT CompletenessAtFullWidth
CHECK_DEADLOCK FALSE
