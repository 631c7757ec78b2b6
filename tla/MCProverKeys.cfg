CONSTANTS
  Procs = {p1, p2}
  Seals = {s1, s2}
  Pin = Pin
  DevGens = {d1, d2}
  Absent = Absent
  Mangled = Mangled
  MaxRuns = 3
  MaxAborts = 1
SPECIFICATION Spec
SYMMETRY Symmetry
INVARIANTS
  TypeOK
  ProductionIsPinned
  OutputsOfOneRun
  DumpPublishedWhole
  SelfVerifyFailsFor
CHECK_DEADLOCK FALSE
