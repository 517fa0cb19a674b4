SPECIFICATION Spec
CONSTANTS
  Axes = {a1}
  LocalKinds = {"servo", "absolute"}
  HeavyKinds = {"follow", "hold", "stop"}
  ModeSources = {"service"}
  PowerSources = {}
  MayReject = TRUE
  MayCycle = TRUE
  SimExecution = FALSE
  Feedbacks = {"disabled", "enabled"}
  MaxSeq = 2
INVARIANTS
  TypeOK
  LocalYieldsToGateway
  
  StreamNeedsLease
  WaitHoldsPose
  NoPlanResumes
