CONSTANTS
  DEGREE = 3
  NumVars = 2
  Clauses <- MCClauses
SPECIFICATION Spec
INVARIANTS
  LiftAgrees
  EqualAgrees
  EvaluateAgrees
CHECK_DEADLOCK FALSE
