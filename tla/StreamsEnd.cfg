SPECIFICATION FairSpec
CONSTANTS
  Topics <- AllTopics
  SubscribedTopics <- WantedTopics
  ResponseLimit = 1
  Ttl = 3
  MaxRuns = 2
  MaxTime = 3
  MaxWorkflowItems = 0
  Uses <- SubscribeOnly
  MaxItems = 2
  MaxInbox = 2
  Unencodable <- Nothing
  MaxRetryDuration = 1
  RpcTime = 1
  FromOffset = 0
  MaxTimeouts = 0
PROPERTY SubscriptionEnds
CHECK_DEADLOCK FALSE
