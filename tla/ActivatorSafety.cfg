SPECIFICATION Spec
CONSTANTS
  Operations = {"sleep", "scheduleActivity", "scheduleLocalActivity", "startChild",
                "signalExternal", "cancelExternal", "startNexusOperation"}
  Scopes = {root, shield}
  RootScope = root
  Cancellable = {root}
  MaxOperations = 2
  MaxBackoffs = 1
  MaxJobs = 2
  ExternalCancelPatched = TRUE
INVARIANTS
  NoIllegalState
  AgreesWithCore
  NoPromiseHangs
  CancellationReachesCore
  CancelOnceAfterStart
  
