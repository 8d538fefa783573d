CONSTANTS
  DEGREE = 3
  IndexRange = 8
  Vars <- MCVars
  Files <- MCFiles
SPECIFICATION FairSpec
INVARIANTS
  TypeOK
  SoundAcceptance
  PrivatePartAccepted
  Completeness
PROPERTIES
  KeepsZeroCheck
  Terminates
CHECK_DEADLOCK FALSE
