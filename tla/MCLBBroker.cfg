SPECIFICATION FairSpec
CONSTANTS
  w1 = w1
  w2 = w2
  c1 = c1
  h1 = h1
  h2 = h2
  k1 = k1
  HbOk = HbOk
  None = None
  Workers <- TwoWorkers
  Clients <- OneClient
  HbThreads <- TwoHb
  TkThreads <- OneTk
  MaxClock = 1
  MaxBeats = 1
INVARIANTS
  TypeOK
  StrayOnlyByOverlap
  OnlyStoredWorkersHear
PROPERTIES
  RequestIsServed
  ImplementsDispatch
CHECK_DEADLOCK FALSE
