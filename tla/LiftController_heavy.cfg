SPECIFICATION Spec
CONSTANTS
  LegacyTypes = {"stream"}
  UseTrajectory = TRUE
  HeavyTypes = {"hold", "stream", "soft_stop"}
  Services = {"soft_stop"}
  MayEstop = FALSE
  MayBlock = FALSE
  MayRezero = FALSE
  MayFail = FALSE
  MayCycle = FALSE
  JogTimeout = 1
  MaxGen = 2
  MaxSeq = 2
INVARIANTS
  StopIsFinal
PROPERTIES
  LocalCommandsStayDrained
  AckedFollowIsExecuted
  MovingNeedsGate
