CONSTANTS
  RecordSize = 3
  IndexRange = 4
  Indices = {0, 1}
  LogIndices = {0, 1}
  Clauses = {a, b}
  Hashes = {a, b, other}
  geq <- MCgeq
  hash_and_mac <- MChash_and_mac
SPECIFICATION Spec
INVARIANTS
  TypeOK
  
  TruthfulAccepted
CHECK_DEADLOCK FALSE
