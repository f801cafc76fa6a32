SPECIFICATION OneEventSpec
CONSTANTS
  Interval = FALSE
  OnBoot = TRUE
  MayTimeOut = TRUE
  MaxRescans = 1
  MaxCommands = 1
  MaxGames = 1
  MaxClock = 1
  MaxSleeps = 1
CHECK_DEADLOCK FALSE
INVARIANTS WorkerTypeOK AckMeansQuiet StoppedIsTold
PROPERTIES PressIsAnswered HeldIsSettled AskedIsServed NobodyIsWaitedFor
