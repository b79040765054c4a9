SPECIFICATION Spec
CONSTANTS
  Workers <- OneWorker
  Owner <- SameId
  Target = 3
  MinSlice = 1
  MaxSlice = 2
  Deadline = 2
  Interval = 1
  MaxSlices = 5
  MaxCrashes = 0
  Env = {"unclear", "depth", "kill", "disconnect", "closed", "operator"}
INVARIANTS TypeOK NoOverExposure TerminalChildrenDead BooksBalance CompletedMeansTraded
PROPERTIES EndIsFinal
CHECK_DEADLOCK FALSE
