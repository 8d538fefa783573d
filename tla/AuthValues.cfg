CONSTANTS
  Field <- MCField
  zero = 0
  XOR <- MCXor
  gfmul <- MCgfmul
  MaxWires = 3
  MaxBlocks = 2
SPECIFICATION Spec
INVARIANT MacsHold
PROPERTIES
  ComparisonDecides
  SetEqualityDecides
CHECK_DEADLOCK FALSE
