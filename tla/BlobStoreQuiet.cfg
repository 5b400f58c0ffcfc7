\* givers, takers and readers of a server that loses no process
SPECIFICATION FairSpec
CONSTANTS
  c1 = c1  c2 = c2
  d1 = d1  d2 = d2  d3 = d3
  root = root  x = x  y = y
  Child = {c1, c2}
  Digest = {d1, d2}
  Empty = d2
  Verbs = {"give", "get", "take"}
  Dir = {root, x, y}
  Depth = 1
  DirAt <- TwoLevels
  Stocked = {d2}
  CrossDevice = FALSE
  DiskFaults = FALSE
  Kills = FALSE
  Restarts = FALSE
CHECK_DEADLOCK FALSE
INVARIANTS RenamesReady NoLitter
PROPERTIES RequestsEnd
