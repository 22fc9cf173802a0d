SPECIFICATION RunningSpec
CONSTANTS
  Ticks = {t1, t2}
  None = None
  Events = {1}
  OddsOpen = 3
  ScoreReady = 2
  Official = 1
  ResultsInterval = 1
  ResultsWindow = 1
  Reconcile24 = 2
  Reconcile7 = 3
  HourLen = 1
  DayLen = 4
  BackupHour = 3
  HostFlock = FALSE
  Named = FALSE
  Horizon = 5
  ResultsFinal = FALSE
  Failing <- MCHeadFailures
  MaxTransient = 2
  FirstStart <- MCEarlyStart
  Starts = {2}
  Punctual = FALSE
  MaxTime = 1
  MaxMoves = 1
  MaxAborts = 1
INVARIANTS CutoffScored
PROPERTIES RefinesLedger EveryTickEnds
CHECK_DEADLOCK FALSE
