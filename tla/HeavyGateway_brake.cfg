SPECIFICATION FairSpec
CONSTANTS
  CommandThreads = {c1}
  Releasers = {}
  ExecutorThreads = 2
  HasBrakeClient = TRUE
  FeedbackMayFail = FALSE
  Workspaces = {"real"}
  LiftSamples = {"locked", "enabled"}
  CommandModes = {"FOLLOW", "STOP"}
  HoldTimeout = 1
  LeaseTimeout = 3
  AckTimeout = 2
  RetryInterval = 1
  MaxLeases = 1
  SeqSpan = 1
  MaxSeq = 2
  GenSpace = 3
INVARIANTS
  CommittedLockIsLatched
PROPERTIES
  BrakeTransitionEnds
  ForcedLockReachesBrake
