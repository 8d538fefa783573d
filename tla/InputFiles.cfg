CONSTANTS
  ALICE = ALICE
  BOB = BOB
  Number <- MCNumber
  InfoFiles <- MCInfoFiles
  Inputs <- MCInputs
  MemoryBound = 3
SPECIFICATION FairInputsSpec
INVARIANTS
  WholeItemsOnly
  PartiesAgree
PROPERTY ReadingEnds
CHECK_DEADLOCK FALSE
