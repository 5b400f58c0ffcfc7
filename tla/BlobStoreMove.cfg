\* tmp/ and data/ on two devices: digests of local files are copied in
SPECIFICATION Spec
CONSTANTS
  c1 = c1  c2 = c2
  d1 = d1  d2 = d2  d3 = d3
  root = root  x = x  y = y
  Child = {c1, c2}
  Digest = {d1}
  Empty = d3
  Verbs = {"digest", "put", "get", "eat", "take"}
  Dir = {root, x, y}
  Depth = 1
  DirAt <- TwoLevels
  Stocked = {}
  CrossDevice = TRUE
  DiskFaults = TRUE
  Kills = TRUE
  Restarts = FALSE
SYMMETRY Symmetry
CHECK_DEADLOCK FALSE
PROPERTIES CompleteStays
