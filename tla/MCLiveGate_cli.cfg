SPECIFICATION Spec
CONSTANTS
  server = server
  cli = cli
  r1 = r1
  r2 = r2
  r3 = r3
  q1 = q1
  q2 = q2
  Procs <- TwoProcs
  Servers <- OneProc
  Requests <- WithCli
  ProcOf <- R3AtCli
  Scopes <- BothScopes
  Principals <- OnePrincipal
  FourEyes = FALSE
  WriteFaults = FALSE
  MaxAsks = 1
  MaxApprovals = 0
  MaxCrashes = 0
INVARIANT HumanGate
