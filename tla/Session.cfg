CONSTANTS
  ALICE = ALICE
  BOB = BOB
  PoolSize = 7
  Runs <- MCRuns
SPECIFICATION FairSpec
INVARIANTS
  TypeOK
  PoolInStep
  MessagesExpected
  SameChallenges
  VerdictSound
PROPERTIES
  KeepsZeroCheck
  RejectionReached
  Settles
  HonestRunEnds
CHECK_DEADLOCK FALSE
