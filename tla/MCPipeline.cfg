SPECIFICATION Spec
CONSTANTS
  m1 = m1
  m2 = m2
  A = A
  B = B
  h1 = h1
  h2 = h2
  task = task
  None = None
  NoDemand = NoDemand
  Answers = {task, NoDemand}
  Messages = {m1, m2}
  Content <- MCContentSame
  ReplyTo <- MCReplySame
  Near <- MCNear
  Handlers = {h1, h2}
  MaxTries <- MCTriesBoth
  DedupWindow = 1
  OpportunityWindow = 1
  MaxTime = 2
SYMMETRY MCSymmetry
INVARIANTS OneCanonicalPerWindow SourcesFollowLinks CacheContradictedOnlyIfOvertaken UnlinkedOnlyIfLate MessagesAreAnswered
CHECK_DEADLOCK FALSE
