CONSTANTS
  Deprecating = {2}
  MaxTasks = 4
  MaxCalls = 3
SPECIFICATION PatchesFairSpec
INVARIANTS ReplayAgrees PatchSticks
PROPERTIES CallbackReturns
