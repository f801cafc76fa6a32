SPECIFICATION ConsoleSpec
CONSTANTS
  LastSlot = 1
  kMaxRecords = 1
  kMaxStatePlacements = 1
  MaxWrites = 3
  MaxMishaps = 1
  kMaxSaves = 1
  kMaxRetroArchFolders = 1
  MaxFiles = 2
  MaxStirs = 1
  MaxRom = 4
  Ceiling = 2
  kDefaultPageSize = 4
  ServerCap = 3
  kMaxPages = 4
  kMaxIndexRoms = 3
  kMaxAttempts = 2
  MaxMoves = 1
  MaxTime = 3
  kMaxWindow = 2
  kMaxSessions = 1
  MaxSlips = 1
  Writers = {w1, w2}
  kTailLines = 2
  kMaxLineBytes = 2
  kMaxFileBytes = 3
  Silent = Silent
  MaxLines = 3
  MaxCardFaults = 1
  Absent = Absent
  MaxEdits = 1
  MaxShocks = 1
  Size = 2
  kMaxResponse = 2
  kMaxUndeclared = 1
  MaxRedirects = 1
  Total = 2
  Stall = 1
  MaxBreaks = 1
  LibraryRoms = {1, 2, 3}
  kMaxNegotiateRomIds = 2
  kMaxPlanOperations = 2
  max_attempts = 2
  kMaxDeclines = 1
  MaxTicks = 2
  MaxTurns = 2
  LastSlotted = 3
  Archival = {a1}
  States = {s1}
  MigratedSlot <- MCMigratedSlot
  kMaxBaseline = 2
  kRc1MaxRecords = 4
  NoFile = NoFile
  BadLine = BadLine
  BlankLine = BlankLine
  MaxReads = 2
  MaxDbFaults = 1
CHECK_DEADLOCK FALSE
INVARIANTS ConsoleTypeOK NothingIsOverlooked StaysTrueAndHome TextsAreKept
PROPERTIES NothingIsThrownAway
