SPECIFICATION FairSpec
CONSTANTS
  a1 = a1
  a2 = a2
  b1 = b1
  A = A
  B = B
  Tasks = {a1, a2, b1}
  Processes = {A, B}
  Home <- MCHome
  NoTask = NoTask
  Lease = 4
  Lag = 1
  OpTime = 6
  Delays = {2, 3}
  ShortestDelay = 2
  FloodWaits = {1, 5}
INVARIANTS OverlapNeedsOverrun
PROPERTIES FloodWaitHonoured PacingHonoured GateReopens
