SPECIFICATION FairSpec
CONSTANTS
  Publishers = {p1, p2}
  Releases = {r1, r2}
  Files = {f1, f2}
  None = None
  Exclusive = TRUE
  MaxVersions = 3
  MaxCrashes = 2
  MaxFaults = 1
INVARIANT PublishedWhole
PROPERTIES RefinesLastKnownGood OnlyReusedIdLosesLive CrashesHeal
CHECK_DEADLOCK FALSE
