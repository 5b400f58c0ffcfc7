\* no process is lost; the log of the server has a record at first
SPECIFICATION FairSpecOneRecord
CONSTANTS
  c1 = c1  c2 = c2  c3 = c3  c4 = c4
  boot1 = boot1  boot2 = boot2
  Child = {c1, c2, c3, c4}
  Verbs = {"wrap", "roll"}
  Stamps = {boot1}
  SeqSpan = 65536
  Kills = FALSE
  Reboots = FALSE
CHECK_DEADLOCK FALSE
INVARIANTS RecordsStayRolled
PROPERTIES LoggedKept RequestsEnd RecordsLogged
