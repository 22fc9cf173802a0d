SPECIFICATION Spec
CONSTANTS
  Ticks = {t1}
  None = None
  Events = {1}
  OddsOpen = 3
  ScoreReady = 2
  Official = 1
  ResultsInterval = 1
  ResultsWindow = 1
  Reconcile24 = 2
  Reconcile7 = 3
  HourLen = 1
  DayLen = 4
  BackupHour = 1
  HostFlock = TRUE
  Named = FALSE
  Horizon = 5
  ResultsFinal = TRUE
  Failing <- MCNoFailures
  MaxTransient = 2
  FirstStart <- MCFirstStart
  Starts = {3}
  Punctual = FALSE
  MaxTime = 4
  MaxMoves = 0
  MaxAborts = 0
INVARIANTS ResultsThroughWindow
CHECK_DEADLOCK FALSE
