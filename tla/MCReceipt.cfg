CONSTANTS
  r1 = r1
  c1 = c1
  c2 = c2
  identity = identity
  other = other
  Roots = {r1, r2}
  Claims = {c1, c2}
  Ids = {identity, other}
  Executions <- MCExecutions
  AllowedRoot = r1
  IdentityId = identity
  NRounds = 3
  NQueries = 2
SPECIFICATION Spec
INVARIANTS
  TypeOK
  Sound
  HonestAccepted
PROPERTY
  BoundByTranscript
CHECK_DEADLOCK FALSE
