\* renames fail and the reply says so
SPECIFICATION Spec
CONSTANTS
  c1 = c1  c2 = c2
  d1 = d1  d2 = d2  d3 = d3
  root = root  x = x  y = y
  Child = {c1, c2}
  Digest = {d1}
  Empty = d3
  Verbs = {"put"}
  Dir = {root, x, y}
  Depth = 1
  DirAt <- TwoLevels
  Stocked = {}
  CrossDevice = FALSE
  DiskFaults = TRUE
  Kills = FALSE
  Restarts = FALSE
SYMMETRY Symmetry
CHECK_DEADLOCK FALSE
INVARIANTS AckedPutLanded
