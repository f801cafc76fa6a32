SPECIFICATION TickSpec
CONSTANTS
  LibraryRoms = {1, 2, 3}
  kMaxNegotiateRomIds = 2
  kMaxPlanOperations = 2
  max_attempts = 2
  kMaxDeclines = 1
  MaxTicks = 2
  MaxTurns = 2
CHECK_DEADLOCK FALSE
INVARIANT UnreportedIsStored
