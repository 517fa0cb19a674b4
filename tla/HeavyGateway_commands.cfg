SPECIFICATION Spec
CONSTANTS
  CommandThreads = {c1}
  Releasers = {r1}
  ExecutorThreads = 2
  HasBrakeClient = FALSE
  FeedbackMayFail = TRUE
  Workspaces = {"starting", "real"}
  LiftSamples = {"enabled"}
  CommandModes = {"HOLD", "FOLLOW", "STOP"}
  HoldTimeout = 1
  LeaseTimeout = 3
  AckTimeout = 2
  RetryInterval = 1
  MaxLeases = 1
  SeqSpan = 1
  MaxSeq = 3
  GenSpace = 3
INVARIANTS
  TypeOK
  TransactionBelongsToLease
  AlignmentBeforeFollow
  NoLeaseInFault
PROPERTIES
  RevocationIsFinal
  OnlyDispatchExtendsLease
  InFlightNotReplaced
  WatchdogEnforcesDeadlines
