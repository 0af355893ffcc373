\* The bounds on revisions and time end every behaviour.
CHECK_DEADLOCK FALSE
SPECIFICATION Spec
CONSTANTS
  user = user
  p1 = p1
  p2 = p2
  o1 = o1
  o2 = o2
  w1 = w1
  w2 = w2
  none = none
  Opportunities = {o1, o2}
  Old = {o2}
  Profiles = {p1, p2}
  Users = {user}
  Owner <- MCOwner
  Relevant <- MCRelevant
  MaxOpportunities = 1
  MaximumAge = 1
  SuppressExpired = TRUE
  Workers = {w1, w2}
  MaxRevision <- MCRevisions
  MaxTime = 3
  MaxFaults = 1
SYMMETRY MCSymmetry
INVARIANTS OneActiveProfile NobodyIsLeftOut ActivationIsMatched
