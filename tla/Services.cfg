SPECIFICATION ServicesSpec
CONSTANTS
  Size = 2
  kMaxResponse = 2
  kMaxUndeclared = 1
  MaxRedirects = 0
  Total = 2
  Stall = 1
  MaxBreaks = 1
  Interval = 1
  Floor = 1
  Cap = 1
  kMaxTlsAttempts = 1
  kMaxRescans = 1
  r1 = r1
  r2 = r2
  Roms = {r1, r2}
  InstallRequests = {1, 2, 3}
  ServerOf <- MCServerOf
  RomOf <- MCRomOf
  MaxClaims = 1
  MaxUpsets = 1
  MaxInstallTouches = 1
  Overlays = {o1, o2}
  kMaxSessions = 2
  kMaxPayloadBytes = 4
  kMaxDiagnosticsInPayload = 3
  MaxTouches = 4
  NoClient = NoClient
  Intervals = {0, 2, 4}
  Lifetimes = {3, 9}
  kMinPollInterval = 1
  kMaxPairingLifetime = 7
  max_poll_backoff = 5
  max_rejected_polls = 2
  Budget = 1
  kMaxNotes = 3
  PlatformList <- MCPlatformList
  Mapped = {1}
  RomsOf <- MCRomsOf
  Multi = {}
  Shelved = {}
  Huge = {12, 21, 22}
  kPageSize = 2
  kPrefetchRows = 0
  kMaxLoadedRows = 3
  kMaxEmptyPages = 2
  kMaxCursors = 2
  kMaxRowsStepped = 1
  NoFetch = NoFetch
  MaxKeys = 2
  MaxCuts = 1
  MaxExpiries = 1
  MaxVisits = 1
  MaxScreens = 2
  NoCall = NoCall
  MaxCalls = 3
  MaxRestarts = 2
  Saves = {s1}
  Nobody = Nobody
  kMaxEntries = 3
  kMaxConflictPage = 2
  kConflictPrefetchRows = 0
  MaxPresses = 2
  MaxJolts = 1
CHECK_DEADLOCK FALSE
INVARIANTS ServicesTypeOK ServedFaithfully ShownWhole
PROPERTIES PollsKeepPace NobodyWaitsForEver
