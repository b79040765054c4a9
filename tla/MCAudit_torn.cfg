SPECIFICATION Spec
CONSTANTS
  Writers = {"server"}
  MaxEntries = 3
  Env = {"crash"}
INVARIANT TornLineIsCut
CHECK_DEADLOCK FALSE
