\* Late heartbeats, stale workers and three attempts.
CONSTANTS
  j1 = j1
  w1 = w1
  w2 = w2
  id1 = id1
  id2 = id2
  MaxTries = 3
  Jobs = {j1}
  Owners = {id1, id2}
  NoOwner = NoOwner
  MaxAttempts <- MCMaxAttempts
  LeaseDuration = 2
  RetryDelay = 0
  Workers = {w1, w2}
  WorkerId <- MCOneId
  Handled <- MCAllJobs
  OnlyIds <- MCAllJobs
  HeartbeatInterval = 1
  MaxBeatDelay = 1
  NoClaim = NoClaim
  Obstacles = {"EntitlementRequired"}
  Scheduling = {"EntitlementRequired"}
  Passing = {"EntitlementRequired"}
  Actions = {"open", "got_job"}
SPECIFICATION DeliverySpec
SYMMETRY MCSymmetry
INVARIANTS
  CompletedJobSettledDelivery
  SentAttemptWasDelivered
  FreshAttemptOwnsRow
