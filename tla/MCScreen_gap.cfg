SPECIFICATION Spec
CONSTANTS
  Total = 3
  Workers = {"w","v"}
  Every = 2
  MaxRuns = 2
  Env = {}
INVARIANTS PrefixIsDone
CHECK_DEADLOCK FALSE
