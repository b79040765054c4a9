SPECIFICATION Spec
CONSTANTS
  Engines = {"p"}
  Events = {"e", "f"}
  PerDay = 1
  MaxDeliveries = 4
  MaxCrashes = 0
  Env = {}
CHECK_DEADLOCK FALSE
INVARIANTS
  DayLimit
