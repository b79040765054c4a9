SPECIFICATION Spec
CONSTANTS
  Workers <- TwoWorkers
  Owner <- SameId
  Target = 2
  MinSlice = 1
  MaxSlice = 2
  Deadline = 2
  Interval = 1
  MaxSlices = 3
  MaxCrashes = 0
  Env = {"depth"}
INVARIANTS OneChild QuantityFrozen
CHECK_DEADLOCK FALSE
