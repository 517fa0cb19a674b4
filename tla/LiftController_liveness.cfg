SPECIFICATION FairSpec
CONSTANTS
  LegacyTypes = {"jog"}
  UseTrajectory = FALSE
  HeavyTypes = {}
  Services = {"soft_stop", "hold"}
  MayEstop = FALSE
  MayBlock = TRUE
  MayRezero = FALSE
  MayFail = FALSE
  MayCycle = FALSE
  JogTimeout = 1
  MaxGen = 2
  MaxSeq = 1
PROPERTIES
  JogNeedsKeepalive
  StopDisables
