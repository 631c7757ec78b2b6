CONSTANTS
  Procs = {p1}
  Seals = {s1}
  Pin = Pin
  DevGens = {d1, d2}
  Absent = Absent
  Mangled = Mangled
  MaxRuns = 4
  MaxAborts = 0
SPECIFICATION Spec
INVARIANT SelfVerifyNeverFails
CHECK_DEADLOCK FALSE
