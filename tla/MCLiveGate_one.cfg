SPECIFICATION Spec
CONSTANTS
  server = server
  cli = cli
  r1 = r1
  r2 = r2
  r3 = r3
  q1 = q1
  q2 = q2
  Procs <- OneProc
  Servers <- OneProc
  Requests <- TwoRequests
  ProcOf <- AllAtServer
  Scopes <- BothScopes
  Principals <- TwoPrincipals
  FourEyes = TRUE
  WriteFaults = FALSE
  MaxAsks = 2
  MaxApprovals = 2
  MaxCrashes = 1
INVARIANTS TypeOK HumanGate KillDominates
SYMMETRY Symmetry
