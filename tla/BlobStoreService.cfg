\* one blob, its puts, digests, gets, eats and takes; children die, the server
\* is killed and started again
SPECIFICATION Spec
CONSTANTS
  c1 = c1  c2 = c2
  d1 = d1  d2 = d2  d3 = d3
  root = root  x = x  y = y
  Child = {c1, c2}
  Digest = {d1}
  Empty = d3
  Verbs = {"put", "take", "get", "eat", "digest"}
  Dir = {root, x, y}
  Depth = 1
  DirAt <- TwoLevels
  Stocked = {d1}
  CrossDevice = FALSE
  DiskFaults = FALSE
  Kills = TRUE
  Restarts = TRUE
SYMMETRY Symmetry
CHECK_DEADLOCK FALSE
INVARIANTS TypeOK AckedPutLanded
PROPERTIES ServiceSpec
