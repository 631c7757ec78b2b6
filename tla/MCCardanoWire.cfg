CONSTANTS
  MaxCell = 5
  NPoints = 3
  Order = 3
  Artifacts <- MCArtifacts
SPECIFICATION Spec
INVARIANTS
  TypeOK
  HonestAccepted
  Canonical
  NoPanic
  AcceptedAsWritten
CHECK_DEADLOCK FALSE
