\* trims of two takes cross: can the arborist die?
SPECIFICATION Spec
CONSTANTS
  c1 = c1  c2 = c2
  d1 = d1  d2 = d2  d3 = d3
  root = root  x = x  y = y
  Child = {c1, c2}
  Digest = {d1, d2}
  Empty = d3
  Verbs = {"take"}
  Dir = {root, x, y}
  Depth = 1
  DirAt <- TwoLevels
  Stocked = {d1, d2}
  CrossDevice = FALSE
  DiskFaults = FALSE
  Kills = FALSE
  Restarts = FALSE
SYMMETRY Symmetry
CHECK_DEADLOCK FALSE
INVARIANTS TrimsSpareArborist
