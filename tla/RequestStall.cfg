\* a client stops reading in the middle of a blob
SPECIFICATION FairSpec
CONSTANTS
  c1 = c1  c2 = c2
  Child = {c1}
  MaxAccept = 1
  Kills = FALSE
  Faults = FALSE
  ForkFails = FALSE
  PartialWrites = TRUE
CHECK_DEADLOCK FALSE
PROPERTIES WritesEnd
