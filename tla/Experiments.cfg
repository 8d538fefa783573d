CONSTANTS
  Designs = {d1, d2}
  Invocations = 2
  NoLog = NoLog
SPECIFICATION Spec
INVARIANT TableIsFresh
PROPERTY NoRowForFailure
CHECK_DEADLOCK FALSE
