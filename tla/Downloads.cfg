SPECIFICATION FairSpec
CONSTANTS
  r1 = r1
  r2 = r2
  r3 = r3
  Roms = {r1, r2, r3}
  MaxQueueEntries = 2
  None = None
  Kinds = {"hashed", "unhashed", "set"}
  Libraries <- MCLibraries
  Held = {r1}
  Settings <- MCSettings
  Queued <- MCQueued
  MaxPresses = 2
  MaxFaults = 1
  MaxEdits = 1
CHECK_DEADLOCK FALSE
INVARIANTS DownloadsTypeOK DoneIsOnCard
PROPERTIES BoardIsKept PendingEnds
