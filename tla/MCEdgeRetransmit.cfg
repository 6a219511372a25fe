SPECIFICATION FairSpec
CONSTANTS
  None = None
  MAX_STORAGE_SIZE = 2
  RETRANSMIT_THRESHOLD = 2
  LOSS_THRESHOLD = 2
  Skews <- SmallSkews
  MaxPackets = 4
  MaxAge = 5
INVARIANTS
  TypeOK
  RequestedIsKept
  RecordedIsInTime
  LostHadSecondChance
PROPERTIES
  PacketIsSettled
CHECK_DEADLOCK FALSE
