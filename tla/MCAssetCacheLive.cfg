CONSTANTS
  Procs = {p1, p2}
  Inodes = {i1, i2, i3}
  NChunks = 2
  MaxFaults = 1
  None = None
SPECIFICATION FairSpec
PROPERTIES
  FetchEnds
  EventuallyCached
