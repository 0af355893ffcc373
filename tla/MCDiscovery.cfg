SPECIFICATION DiscoverySpec
CONSTANTS
  c1 = c1
  c2 = c2
  c3 = c3
  graph = graph
  web = web
  profile1 = profile1
  profile2 = profile2
  A = A
  B = B
  C = C
  username = username
  None = None
  Cycles = {c1, c2, c3}
  Keys = {graph, web, profile1, profile2}
  Plan <- MCPlan
  Requested <- MCRequested
  Identities = {A, B, C}
  References = {username}
  Handles = {username}
  Found <- MCFound
  GraphKeys = {graph}
  TelegramKeys = {profile1, profile2}
INVARIANTS EverySourceHasOneCreator NewSourceOwnsItsReferences
PROPERTIES AliasesMoveOnlyInOverlap
