CONSTANTS
  r1 = r1
  r2 = r2
  None = None
  Queries = {1, 2}
  Runners = {r1, r2}
  BatchLimit = 1
  DailyLimit = 1
  CampaignLimit = 2
  Day = 0
  ReclaimAfter = 1
  MaxAttempts = 2
  HasFallback = FALSE
  MaxClock = 1
  MaxRuns = 1
  MaxPauses = 1
  MaxFaults = 1
SPECIFICATION Spec
SYMMETRY MCSymmetry
INVARIANTS CampaignGoesOn PauseHolds BudgetHolds
\* The bounds on the clock, the commands and the faults end every behaviour.
CHECK_DEADLOCK FALSE
