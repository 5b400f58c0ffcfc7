\* two runs of a client; connections are cut, client and child are killed
SPECIFICATION FairSpec
CONSTANTS
  Verbs = {"get", "take", "put", "give", "eat", "roll", "wrap"}
  Blobs <- TwoBlobs
  Inputs <- SomeInputs
  Rot <- Damaged
  Udig <- TheUdig
  Wire = 3
  MaxRuns = 2
  Cuts = TRUE
  Kills = TRUE
CHECK_DEADLOCK FALSE
INVARIANTS TypeOK NoLoss OkMeansDone DeniedChangesNothing StoreWhole TmpRemoved
PROPERTIES OutputWhole SessionEnds
