SPECIFICATION Spec
CONSTANTS
  Tasks = {"server", "executor"}
  Procs = {"server", "executor"}
  ProcOf <- Apart
  Symbols = {"x","y"}
  Start = 1
  MaxOpen = 2
  Capture = TRUE
  MaxRows = 2
  MaxRestarts = 0
  KindsOf <- NoFlatten
  Env = {}
INVARIANTS CashCovers
CHECK_DEADLOCK FALSE
