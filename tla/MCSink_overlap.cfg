SPECIFICATION Spec
CONSTANTS
  Entries = {"a", "b", "c", "d"}
  Poison = {}
  SpoolMax = 2
  MaxFailures = 2
  MaxCrashes = 0
  Env = {}
INVARIANTS DurableIsKept
CHECK_DEADLOCK FALSE
