SPECIFICATION FairSpec
CONSTANTS
  s1 = s1
  s2 = s2
  Unreadable = Unreadable
  NoMsg = NoMsg
  BuffSize = 2
  Sessions <- TwoSessions
  Lengths <- ManyLengths
INVARIANTS
  TypeOK
  RegisteredIsComplete
  ClientDoneIsStored
  BytesConserved
PROPERTIES
  OrdinarySessionsEnd
CHECK_DEADLOCK FALSE
