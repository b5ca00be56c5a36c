CONSTANTS
  w1 = w1
  w2 = w2
  User = user
  None = none
  Runtimes <- TwoRuntimes
  Workers <- TwoWorkers
  Kinds <- WorkflowsAndActivities
  Registered <- RegisteredKinds
  Internal <- JustW1
  HasForceTime <- JustW2
  InitiateMayFail <- JustW2
  Delayed <- JustW1
  MaxTasks = 1
SPECIFICATION FairSpec
INVARIANTS  OneRuntime 
PROPERTIES RunSettles
CHECK_DEADLOCK FALSE
