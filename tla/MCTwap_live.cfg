SPECIFICATION FairSpec
CONSTANTS
  Workers <- TwoWorkers
  Owner <- OwnId
  Target = 2
  MinSlice = 1
  MaxSlice = 2
  Deadline = 1
  Interval = 1
  MaxSlices = 3
  MaxCrashes = 1
  Env = {"reject"}
INVARIANTS NoOverExposure
PROPERTIES ParentEnds
CHECK_DEADLOCK FALSE
