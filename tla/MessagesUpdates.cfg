SPECIFICATION Spec
CONSTANTS
  a = a
  b = b
  odd = none
  Signals = {s1}
  Updates = {u1}
  Names = {a}
  NameOf <- NamedA
  Conditions = {"value", "drained"}
  InterceptorYields = TRUE
INVARIANTS
  UpdateProtocol
  
  MessagesBeforeEnd
  UnrecordedRunsNothing
  
  DrainedOnResume
