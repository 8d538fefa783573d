CONSTANTS
  IndexRange = 4
  Memories <- MCMemories
SPECIFICATION Spec
INVARIANTS
  TypeOK
  RecordCoherent
  ClearMirrorsCommitted
  LogBounded
  CheckNeverFails
PROPERTY OversizeRejected
CONSTRAINT OversizeInOrder
CHECK_DEADLOCK FALSE
