SPECIFICATION Spec
CONSTANTS
  None = None
  CardBouts = {b1, b2}
  Selections = {s1}
  PubStates = {"price_target", "confirmed_value"}
  QuoteTimes = {1, 2}
  ResultVersions <- MCVersions
  OfficialOffset = 2
  ResultsWindow = 0
  Starts = {2, 3}
  MaxClock = 2
  m0 = m0
  m1 = m1
  n1 = n1
  Artifacts <- MCArtifacts
  SpecOf <- MCSpecOf
  First = m0
  Commands = {c1, c2}
  OneAtATime = TRUE
  MaxDecisions = 3
  MaxDeaths = 1
  MatchBouts = {b1, b2}
  Operators = {o1}
  MaxStamp = 2
  MaxWrites = 4
  Books = {k1, k2}
  Sides = {a}
  Prices = {p1, p2}
  CutoffAt = 0
  StartAt = 1
  EndAt = 2
  StaleAfter = 0
  Skews <- MCSkews
  MaxNews = 2
  MaxMatches = 2
  Unreadable = Unreadable
  g1 = g1
  g2 = g2
  Fetchers = {g1, g2}
  Todo <- MCTodo
  Answers <- MCAnswers
  RobotsAnswers <- MCRobots
  MaxRetries = 1
  MaxRobotsRedirects = 1
  Spellings <- MCSpellings
  BornOn <- MCBornOn
  PersonOf <- MCPersonOf
  Listings <- MCListings
  Reports <- MCReports
  Seeds <- MCSeeds
  MaxFighters = 7
  BackupStale = 2
  LiveStale = 1
  QuotaStale = 2
  BackupMaxAge = 1
  FailWindow = 0
  FailThreshold = 2
  LastHour = 3
  MaxChanges = 1
  MaxJobs = 2
SYMMETRY MCSymmetry
INVARIANT
  MissingNeverFlips
CHECK_DEADLOCK FALSE
