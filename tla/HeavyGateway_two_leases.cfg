SPECIFICATION Spec
CONSTANTS
  CommandThreads = {c1}
  Releasers = {r1}
  ExecutorThreads = 2
  HasBrakeClient = FALSE
  FeedbackMayFail = FALSE
  Workspaces = {"real"}
  LiftSamples = {"enabled"}
  CommandModes = {"HOLD", "FOLLOW"}
  HoldTimeout = 1
  LeaseTimeout = 3
  AckTimeout = 2
  RetryInterval = 1
  MaxLeases = 2
  SeqSpan = 1
  MaxSeq = 3
  GenSpace = 3
INVARIANTS
  SequencesOrdered
PROPERTIES
  LeaseContract
