SPECIFICATION Spec
CONSTANTS
  Services = {"unlock","lock","takeover","takeover_off","hold","estop","reset"}
  PowerCommands = {TRUE, FALSE}
  MotionCommands = {"up"}
  Faults = {"error"}
  MaySaveFail = FALSE
  Cycling = {}
  Range = 1
  SearchTravel = 1
  ReleaseWait = 1
  StopDeadline = 1
  TakeoverTimeout = 1
  MismatchDebounce = 2
  RecoveryCycles = 2
  MaxAttempts = 1
  Backoff = 1
  MaxCalls = 2
  MaxFaults = 1
  MaxCycling = 1
INVARIANTS
  EstopIsObeyed
PROPERTIES
  MotionNeedsRequest
