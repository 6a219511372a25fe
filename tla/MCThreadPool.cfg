SPECIFICATION FairSpec
CONSTANTS
  w1 = w1
  w2 = w2
  w3 = w3
  t1 = t1
  t2 = t2
  NoThread = NoThread
  NoTask = NoTask
  Workers <- ThreeWorkers
  Tasks <- TwoTasks
INVARIANTS
  TypeOK
  TaskInOnePlace
  NoTaskStranded
PROPERTIES
  OneTaskAfterShutdown
  ImplementsTaskPool
  SubmittedIsExecuted
  ShutdownReturnsUnlessAsleep
CHECK_DEADLOCK FALSE
