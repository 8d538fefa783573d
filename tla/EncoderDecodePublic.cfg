CONSTANTS
  SecretStart = 2
  SecretEnd = 3
  MaxId = 4
  LowRange = 5
  Digest <- MCDigest
SPECIFICATION Spec
INVARIANT DecodeInvertsPublic
CHECK_DEADLOCK FALSE
