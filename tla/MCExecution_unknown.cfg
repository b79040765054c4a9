SPECIFICATION FairSpec
CONSTANTS
  Pollers = {"p"}
  Target = 2
  Step = 1
  MaxReprices = 0
  MaxCancelAttempts = 2
  FallbackAllowed = TRUE
  Env = {"ambiguous"}
  MaxCrashes = 0
PROPERTY SubmittedAges
CHECK_DEADLOCK FALSE
