SPECIFICATION FairSpec
CONSTANTS
  c1 = c1
  c2 = c2
  HbOk = HbOk
  None = None
  HEARTBEAT_LIVENESS = 3
  HEARTBEAT_INTERVAL = 2
  INTERVAL_INIT = 2
  INTERVAL_MAX = 16
  SIZE_MAX = 15
  Expiry = 20
  ReplyDelay = 17
  Clients <- TwoClients
  MaxUnread = 2
INVARIANTS
  TypeOK
  AttachedIsFresh
  AnsweredStaysAttached
PROPERTIES
  SilentBrokerIsLeft
  AddressIsTaken
CHECK_DEADLOCK FALSE
