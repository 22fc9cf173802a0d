SPECIFICATION RulesSpec
CONSTANTS
  None = None
  RoundUnits = 4
  Rounds = {3}
  RuleSets = {"under", "void"}
  Candidates <- MCCandidates
  MarketPriority <- MCPriority
  IdentityOrder <- MCReportIds
  Qualified = {"moneyline", "method", "totals"}
  MaxPool = 3
  x1 = x1
  x2 = x2
  f1 = f1
  f2 = f2
  Cards <- MCCards
  ManifestRows <- MCRows
  FirstRow <- MCFirst
  Scopes = {2024}
  SplitCards <- MCSplitCards
  EarlierResults <- MCEarlier
  OtherResults <- MCOther
  BookQuotes <- MCQuotes
  Opponents <- MCSides
  Sources <- MCSources
  Horizons = {None, 9, 13}
  Syncs = {s1, s2}
  MaxTime = 2
  MaxAmends = 1
  MaxFailures = 1
  HistSources <- MCHistorySources
  Precedence <- MCHistorySources
  Seeds <- MCSeeds
  IdAt <- MCIdAt
  BoutKey <- MCBoutKey
  PageContents <- MCPages
  FirstPage <- MCFirstPage
  Statuses = {"linked", "queued"}
  Cutoffs = {2, 3}
  MaxEdits = 1
  MaxCrashes = 1
  Digests = {d1, d2, j1}
  JointDigests = {j1}
  Torn = Torn
  Workers = {w1, w2}
  MaxKills = 1
  q1 = q1
  q2 = q2
  Universe <- MCUniverse
  EventOf <- MCEventOf
  Rows <- MCFacts
  OldLanes <- MCOldLanes
  OtherRows <- MCOtherRows
  SampleBouts = {"y1"}
  Killed = {"ufcstats_public"}
  AsOfs = {2, 3, None}
  DefaultCutoff = 2
  LastTime = 4
  MaxRows = 3
  Programme <- MCProgramme
  CasesOf <- MCCasesOf
  Requested = 1
  MaxDraws = 2
SYMMETRY MCSymmetry
INVARIANTS
  PricedAsSettled
  PickPaysOff
  OrderFree
  OneVersionPerObservation
  NoLookAhead
  SyncAccounts
  RecoverableBundle
  TiersAreIndependent
  ReportAddsUp
  PicksWerePriced
PROPERTIES
  GradesOnlyResolve
  PastLabelsFixed
  EarlierRecordsFixed
  PastOnlyGains
CHECK_DEADLOCK FALSE
