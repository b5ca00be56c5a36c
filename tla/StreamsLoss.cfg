SPECIFICATION Spec
CONSTANTS
  Topics <- AllTopics
  SubscribedTopics <- WantedTopics
  ResponseLimit = 1
  Ttl = 3
  MaxRuns = 3
  MaxTime = 3
  MaxWorkflowItems = 3
  Uses <- PublishOnly
  MaxItems = 1
  MaxInbox = 2
  Unencodable = {1}
  MaxRetryDuration = 1
  RpcTime = 1
  FromOffset = 0
  MaxTimeouts = 2
INVARIANT NoSilentLoss
CHECK_DEADLOCK FALSE
