SPECIFICATION Spec
INVARIANTS
  TypeOK
  NoPanic
  SealTiled
  WiresFit
CHECK_DEADLOCK FALSE
