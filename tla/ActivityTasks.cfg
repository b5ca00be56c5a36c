SPECIFICATION FairSpec
CONSTANTS
  Tasks = {t1}
  MaxHeartbeats = 4
  MaxCancels = 2
  ExternalStorage = TRUE
INVARIANTS
  FlushedBeforeFailure
  CancelNotLost
  StreamEndsWithActivity
PROPERTIES
  HeartbeatsInOrder
  Answered
CHECK_DEADLOCK FALSE
