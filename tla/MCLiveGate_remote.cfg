SPECIFICATION Spec
CONSTANTS
  server = server
  cli = cli
  r1 = r1
  r2 = r2
  r3 = r3
  q1 = q1
  q2 = q2
  Procs <- TwoProcs
  Servers <- OneProc
  Requests <- WithCli
  ProcOf <- R3AtCli
  Scopes <- OneScope
  Principals <- OnePrincipal
  FourEyes = FALSE
  WriteFaults = TRUE
  MaxAsks = 1
  MaxApprovals = 0
  MaxCrashes = 1
INVARIANT KillDominates
