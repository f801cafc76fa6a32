SPECIFICATION FairSpec
CONSTANTS
  Bytes = {b1, b2}
  None = None
  Unhashed = Unhashed
  MaxRows = 5
  MaxMoves = 3
  MaxFaults = 1
  Policies = {"keep", "backup_and_remove"}
  SameSecond = TRUE
  WriteInUpload = TRUE
INVARIANTS TypeOK MarkedWasLost
PROPERTIES SupersedesOnlyWhatItMet DeletedStaysDeleted KeepsBoth Converges KeepLocalIsAnswered
