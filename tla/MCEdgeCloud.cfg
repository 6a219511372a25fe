SPECIFICATION FairSpec
CONSTANTS
  c1 = c1
  c2 = c2
  Clients <- TwoClients
  MaxPackets = 3
INVARIANTS
  TypeOK
  SamplesInOrder
PROPERTIES
  ClientIsAnswered
  SampleComesBack
CHECK_DEADLOCK FALSE
