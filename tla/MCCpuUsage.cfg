SPECIFICATION Spec
CONSTANTS
  NoSample = NoSample
  W = 2
  MaxTicks = 4
INVARIANTS
  UsageIsSound
CHECK_DEADLOCK FALSE
