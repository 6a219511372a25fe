SPECIFICATION Spec
CONSTANTS
  i1 = i1
  i2 = i2
  n1 = n1
  n2 = n2
  Hole = Hole
  None = None
  Chunks = 2
  Intakes <- TwoIntakes
  Names <- TwoNames
  Outside <- NextToTasks
SYMMETRY Alike
INVARIANTS
  TaskHasItsFiles
  SentIsOneTask
CHECK_DEADLOCK FALSE
