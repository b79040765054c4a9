SPECIFICATION Spec
CONSTANTS
  Engines = {"p","q"}
  Events = {"e", "f"}
  PerDay = 1
  MaxDeliveries = 4
  MaxCrashes = 2
  Env = {}
CHECK_DEADLOCK FALSE
INVARIANTS
  CopiedOnce
