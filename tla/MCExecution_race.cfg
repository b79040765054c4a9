SPECIFICATION Spec
CONSTANTS
  p1 = p1
  p2 = p2
  Pollers <- TwoPollers
  Target = 2
  Step = 2
  MaxReprices = 1
  MaxCancelAttempts = 2
  FallbackAllowed = TRUE
  Env <- NoFaults
  MaxCrashes = 1
CHECK_DEADLOCK FALSE
SYMMETRY PollerSymmetry
INVARIANTS
  CancelSound
PROPERTIES
  TerminalIsFinal
