SPECIFICATION Spec
CONSTANTS
  LegacyTypes = {"jog"}
  UseTrajectory = FALSE
  HeavyTypes = {}
  Services = {"soft_stop", "hold"}
  MayEstop = TRUE
  MayBlock = FALSE
  MayRezero = TRUE
  MayFail = TRUE
  MayCycle = TRUE
  JogTimeout = 1
  MaxGen = 2
  MaxSeq = 1
INVARIANTS
  HoldConfirmedMeansHold
  PowerFollowsMode
PROPERTIES
  NoAutomaticRecovery
