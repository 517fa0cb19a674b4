SPECIFICATION Spec
CONSTANTS
  Services = {"zero", "home", "drive_zero"}
  PowerCommands = {TRUE}
  MotionCommands = {"up"}
  Faults = {}
  MaySaveFail = TRUE
  Cycling = {"crash"}
  Range = 1
  SearchTravel = 1
  ReleaseWait = 1
  StopDeadline = 1
  TakeoverTimeout = 1
  MismatchDebounce = 2
  RecoveryCycles = 2
  MaxAttempts = 1
  Backoff = 1
  MaxCalls = 2
  MaxFaults = 0
  MaxCycling = 1
INVARIANTS
  FrameMatchesFile
  HomedMeansCsv
