SPECIFICATION WorkerFairSpec
CONSTANTS
  Interval = FALSE
  OnBoot = FALSE
  MayTimeOut = FALSE
  MaxRescans = 1
  MaxCommands = 1
  MaxGames = 0
  MaxClock = 1
  MaxSleeps = 1
CHECK_DEADLOCK FALSE
PROPERTIES StoppedSyncRuns
