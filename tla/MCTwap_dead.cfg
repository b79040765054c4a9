SPECIFICATION Spec
CONSTANTS
  Workers <- OneWorker
  Owner <- SameId
  Target = 1
  MinSlice = 1
  MaxSlice = 1
  Deadline = 2
  Interval = 1
  MaxSlices = 4
  MaxCrashes = 1
  Env = {"kill"}
INVARIANT TerminalChildrenDead
CHECK_DEADLOCK FALSE
