\* The bounds on cycles and overrides end every behaviour.
CHECK_DEADLOCK FALSE
SPECIFICATION Spec
CONSTANTS
  cli = cli
  s1 = s1
  s2 = s2
  Sources = {s1, s2}
  Clis = {cli}
  WebSearch = TRUE
  AuditLimit = 2
  MaxBucket = 2
  MaxClock = 2
  MaxOverrides = 1
  MaxFaults = 1
  InitialWindow = 4
  ExpandedWindow = 8
  SampleFloor = 2
  SampleSize = 3
  Buckets = 2
  MaxPerPass = 3
  None = none
INVARIANTS HealthFollowsReaudit ApprovedIsMonitored
PROPERTIES OverridesStand
