SPECIFICATION FairSpec
CONSTANTS
  w1 = w1
  w2 = w2
  c1 = c1
  c2 = c2
  h1 = h1
  h2 = h2
  i1 = i1
  None = None
  Tries = 1
  Workers <- TwoWorkers
  Clients <- TwoClients
  Hosts <- TwoHosts
  Slots <- OneSlot
INVARIANTS
  TypeOK
  RegisteredIsOneTask
  NoThreadIsStranded
PROPERTIES
  SessionEnds
CHECK_DEADLOCK FALSE
CONSTRAINT Representative
