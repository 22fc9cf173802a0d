SPECIFICATION FairSpec
CONSTANTS
  Ticks = {t1}
  None = None
  Events = {1}
  OddsOpen = 4
  ScoreReady = 3
  Official = 2
  ResultsInterval = 1
  ResultsWindow = 1
  Reconcile24 = 2
  Reconcile7 = 3
  HourLen = 1
  DayLen = 4
  BackupHour = 1
  HostFlock = TRUE
  Named = TRUE
  Horizon = 5
  ResultsFinal = TRUE
  Failing <- MCNoFailures
  MaxTransient = 2
  FirstStart <- MCLateStart
  Starts = {3}
  Punctual = TRUE
  MaxTime = 8
  MaxMoves = 0
  MaxAborts = 1
INVARIANTS NoMissedCard
PROPERTIES ChainCompletes
CHECK_DEADLOCK FALSE
