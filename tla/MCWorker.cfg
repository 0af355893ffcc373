\* Heartbeats may be late by more than a lease; both processes share a worker_id.
CONSTANTS
  j1 = j1
  j2 = j2
  w1 = w1
  w2 = w2
  id1 = id1
  id2 = id2
  Jobs = {j1}
  Owners = {id1, id2}
  NoOwner = NoOwner
  MaxAttempts <- MCMaxAttempts
  LeaseDuration = 2
  RetryDelay = 1
  Workers = {w1, w2}
  WorkerId <- MCOneId
  Handled <- MCAllJobs
  OnlyIds <- MCAllJobs
  HeartbeatInterval = 1
  MaxBeatDelay = 2
  NoClaim = NoClaim
SPECIFICATION FairSpec
INVARIANTS AttemptsAreUnique HeartbeatKeepsClaim
PROPERTIES ImplementsContract EveryJobSettles
