CONSTANTS
  r1 = r1
  r2 = r2
  Runs <- TwoRuns
  Threads <- TwoThreads
  MaxActivations = 4
  MaxExits = 1
SPECIFICATION FairSpec
INVARIANTS CacheMirrorsCore ThreadsHoldTheWorkflows
PROPERTIES ActivationsAnswered 
CHECK_DEADLOCK FALSE
