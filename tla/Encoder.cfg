CONSTANTS
  SecretStart = 2
  SecretEnd = 3
  MaxId = 4
  LowRange = 5
  Digest <- MCDigest
SPECIFICATION Spec
INVARIANTS
  TypeOK
  EncodeInjective
  NegationCommutes
  PublicLiteralsShared
  DecodeInvertsSecret
CHECK_DEADLOCK FALSE
