SPECIFICATION FairSpec
CONSTANTS
  Scopes = {root, s1, s2, s3}
  Root = root
  Replaying = TRUE
INVARIANTS
  Shielded
  RequestsDelivered
  NoTimerLeftBehind
PROPERTY
  CancellationPropagates
