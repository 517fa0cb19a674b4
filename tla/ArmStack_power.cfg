SPECIFICATION StackSpec
CONSTANTS
  Axes = {a1}
  EyouAxes = {a1}
  LocalKinds = {}
  HeavyKinds = {}
  ModeSources = {"topic"}
  PowerSources = {"service", "topic"}
  MayReject = FALSE
  MayCycle = FALSE
  SimExecution = FALSE
  Feedbacks = {}
  MaxSeq = 1
  DisableHoldCycles = 2
  ModeHoldCycles = 1
  StandstillCycles = 1
  TakeoverCycles = 1
  MayFault = TRUE
  MayDrop = TRUE
  MayCrash = TRUE
INVARIANTS
  EnableNeedsRequest
  FailedEnableIsUndone
PROPERTIES
  ModeSwitchIsNotAFault
