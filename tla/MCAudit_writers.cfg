SPECIFICATION Spec
CONSTANTS
  Writers = {"server","cli"}
  MaxEntries = 5
  Env = {}
INVARIANT LockKeepsOneChain
CHECK_DEADLOCK FALSE
