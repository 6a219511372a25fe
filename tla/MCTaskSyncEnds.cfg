SPECIFICATION FairSpec
CONSTANTS
  s1 = s1
  s2 = s2
  Unreadable = Unreadable
  NoMsg = NoMsg
  BuffSize = 2
  Sessions <- OneSession
  Lengths <- AllLengths
PROPERTIES
  TransferEnds
CHECK_DEADLOCK FALSE
