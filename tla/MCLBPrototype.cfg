SPECIFICATION Spec
CONSTANTS
  c1 = c1
  c2 = c2
  c3 = c3
  w1 = w1
  w2 = w2
  Clients <- ThreeClients
  Workers <- TwoWorkers
  id1 = id1
  id2 = id2
  id3 = id3
  Fixed = Fixed
  Identities <- FourIdentities
INVARIANT FrontendOnlyWithWorker
CHECK_DEADLOCK FALSE
