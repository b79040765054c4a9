SPECIFICATION Spec
CONSTANTS
  Workers <- OneWorker
  Owner <- SameId
  Target = 1
  MinSlice = 1
  MaxSlice = 1
  Deadline = 2
  Interval = 1
  MaxSlices = 4
  MaxCrashes = 0
  Env = {"operator", "unclear"}
PROPERTY CancelStands
CHECK_DEADLOCK FALSE
