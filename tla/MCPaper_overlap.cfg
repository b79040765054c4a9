SPECIFICATION Spec
CONSTANTS
  Tasks = {"engine", "monitor"}
  Procs = {"server"}
  ProcOf <- Together
  Symbols = {"x"}
  Start = 1
  MaxOpen = 2
  Capture = TRUE
  MaxRows = 2
  MaxRestarts = 0
  KindsOf <- NoFlatten
  Env = {}
INVARIANTS ProfitOnce
CHECK_DEADLOCK FALSE
