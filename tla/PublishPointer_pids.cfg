SPECIFICATION FairSpec
CONSTANTS
  Publishers = {p1, p2}
  Releases = {r1, r2}
  Files = {f1, f2}
  None = None
  Exclusive = TRUE
  MaxVersions = 3
  MaxCrashes = 1
  MaxFaults = 1
PROPERTY FailedPromoteKeepsLive
CHECK_DEADLOCK FALSE
