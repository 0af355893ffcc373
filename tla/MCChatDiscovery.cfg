SPECIFICATION ChatSpec
CONSTANTS
  w1 = w1
  w2 = w2
  topic1 = topic1
  chat = chat
  Workers = {w1, w2}
  HasProvider = {w1}
  Topics = {topic1}
  Peers = {chat}
  JobTries = 2
  ScreenLimit = 1
  MaxBucket = 2
  MaxScreens = 2
  MaxFaults = 1
INVARIANTS WatchedUnlessContested NextScreenIsLeft CompletedSearchIsOver
