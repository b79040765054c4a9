SPECIFICATION Spec
CONSTANTS
  Procs = {"sync", "server"}
  Syncers = {"sync"}
  Period = 2
  Limit = 2
  Keep = 3
  MaxTime = 4
  MaxAppends = 3
  MaxCrashes = 1
  Env = {"restart"}
PROPERTIES HistoryKeeps
CHECK_DEADLOCK FALSE
