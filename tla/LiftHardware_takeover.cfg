SPECIFICATION FairSpec
CONSTANTS
  Services = {"takeover","estop","unhold"}
  PowerCommands = {TRUE}
  MotionCommands = {"rest"}
  Faults = {"lost"}
  MaySaveFail = FALSE
  Cycling = {"deactivate"}
  Range = 1
  SearchTravel = 1
  ReleaseWait = 1
  StopDeadline = 1
  TakeoverTimeout = 1
  MismatchDebounce = 2
  RecoveryCycles = 2
  MaxAttempts = 1
  Backoff = 1
  MaxCalls = 2
  MaxFaults = 1
  MaxCycling = 1
PROPERTIES
  TakeoverEnds
  EstopDisables
