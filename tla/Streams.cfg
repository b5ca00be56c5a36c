SPECIFICATION FairSpec
CONSTANTS
  Topics <- AllTopics
  SubscribedTopics <- WantedTopics
  ResponseLimit = 1
  Ttl = 3
  MaxRuns = 3
  MaxTime = 3
  MaxWorkflowItems = 3
  Uses <- PublishOrSubscribe
  MaxItems = 2
  MaxInbox = 2
  Unencodable <- Nothing
  MaxRetryDuration = 1
  RpcTime = 1
  FromOffset = 0
  MaxTimeouts = 1
INVARIANTS NoSilentLoss FlushIsBarrier
PROPERTIES IsStreamLog CallsSettle ItemsReachSubscriber
CHECK_DEADLOCK FALSE
