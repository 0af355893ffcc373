SPECIFICATION Spec
CONSTANTS
  t1 = t1
  t2 = t2
  t3 = t3
  None = None
  Tx = {t1, t2}
  Offers <- MCOffersFull
  TrialDays = 1
  MaxTime = 2
  MaxCommands = 2
SYMMETRY MCSymmetry
INVARIANTS DuplicatesDoNotDeadlock
PROPERTIES HistoryIsImmutable AccessFollowsEvidence StoppedUntilResumed
CHECK_DEADLOCK FALSE
