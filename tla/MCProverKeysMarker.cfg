CONSTANTS
  Procs = {p1}
  Seals = {s1}
  Pin = Pin
  DevGens = {d1, d2}
  Absent = Absent
  Mangled = Mangled
  MaxRuns = 2
  MaxAborts = 0
SPECIFICATION Spec
INVARIANT CeremonyKeysUnmarked
CHECK_DEADLOCK FALSE
