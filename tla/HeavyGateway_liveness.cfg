SPECIFICATION FairSpec
CONSTANTS
  CommandThreads = {c1}
  Releasers = {r1}
  ExecutorThreads = 2
  HasBrakeClient = FALSE
  FeedbackMayFail = FALSE
  Workspaces = {"no_mode", "real"}
  LiftSamples = {"enabled"}
  CommandModes = {"HOLD", "FOLLOW", "STOP"}
  HoldTimeout = 1
  LeaseTimeout = 3
  AckTimeout = 2
  RetryInterval = 1
  MaxLeases = 1
  SeqSpan = 1
  MaxSeq = 2
  GenSpace = 3
PROPERTIES
  TransactionResolves
  ReleaseReturns
  FollowingNeedsCommands
