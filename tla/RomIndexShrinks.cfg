SPECIFICATION RomIndexSpec
CONSTANTS
  MaxRom = 4
  Ceiling = 2
  kDefaultPageSize = 4
  ServerCap = 3
  kMaxPages = 4
  kMaxIndexRoms = 4
  kMaxAttempts = 2
  MaxMoves = 1
CHECK_DEADLOCK FALSE
INVARIANT NoneVanishes
