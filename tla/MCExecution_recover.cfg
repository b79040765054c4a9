SPECIFICATION FairSpec
CONSTANTS
  p1 = p1
  p2 = p2
  Pollers <- OnePoller
  Target = 2
  Step = 1
  MaxReprices = 1
  MaxCancelAttempts = 2
  FallbackAllowed = TRUE
  Env <- NoFaults
  MaxCrashes = 1
CHECK_DEADLOCK FALSE
PROPERTIES
  SubmitRecovered
