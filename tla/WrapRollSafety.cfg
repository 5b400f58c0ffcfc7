\* puts, takes, wraps and rolls; children may be killed, the host may stop
SPECIFICATION Spec
CONSTANTS
  c1 = c1  c2 = c2  c3 = c3  c4 = c4
  boot1 = boot1  boot2 = boot2
  Child = {c1, c2, c3}
  Verbs = {"put", "take", "wrap", "roll"}
  Stamps = {boot1}
  SeqSpan = 65536
  Kills = TRUE
  Reboots = TRUE
CHECK_DEADLOCK FALSE
SYMMETRY Symmetry
INVARIANTS TypeOK LoggedOnce RecordsStored WrapsAccumulate WrapFreezes
