\* requests with clients that stall and leave, faults, signals, failing forks
SPECIFICATION FairSpec
CONSTANTS
  c1 = c1  c2 = c2
  Child = {c1}
  MaxAccept = 3
  Kills = TRUE
  Faults = TRUE
  ForkFails = TRUE
  PartialWrites = TRUE
CHECK_DEADLOCK FALSE
INVARIANTS TypeOK Balanced ChatGrammar NosHaveCounters RecordIffAnswered
PROPERTIES RequestsEnd
