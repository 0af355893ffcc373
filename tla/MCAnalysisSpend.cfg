SPECIFICATION SpendSpec
CONSTANTS
  a1 = a1
  a2 = a2
  a3 = a3
  Nobody = Nobody
  Analyses = {a1, a2}
  HasFallback = TRUE
  MaxOutputAttempts = 2
  Reserve <- MCReserve
  Costs <- MCCosts
  DailyLimit = 3
  MonthlyLimit = 4
  DaysPerMonth = 2
  MaxDay = 2
INVARIANTS LimitsHold
CHECK_DEADLOCK FALSE
