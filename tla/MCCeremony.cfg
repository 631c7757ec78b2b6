CONSTANTS
  Procs = {p1, p2}
  Paths = {f1, f2, f3}
  Contributors = {c1, c2}
  Powers = {big}
  Enough = {big}
  Beacons = {b1}
  Outside = Outside
  None = None
  Absent = Absent
  Torn = Torn
  MaxRuns = 5
  MaxFaults = 1
  MaxFiles = 2
SPECIFICATION Spec
SYMMETRY Symmetry
INVARIANTS
  TypeOK
  AsContributed
  NeverStuck
PROPERTIES
  ListIsChain
  ImplementsSetup
CHECK_DEADLOCK FALSE
