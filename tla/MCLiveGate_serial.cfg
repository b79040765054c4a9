SPECIFICATION Spec
CONSTANTS
  server = server
  cli = cli
  r1 = r1
  r2 = r2
  r3 = r3
  q1 = q1
  q2 = q2
  Procs <- OneProc
  Servers <- OneProc
  Requests <- OneRequest
  ProcOf <- OnlyR1
  Scopes <- BothScopes
  Principals <- TwoPrincipals
  FourEyes = TRUE
  WriteFaults = FALSE
  MaxAsks = 2
  MaxApprovals = 2
  MaxCrashes = 2
PROPERTY ImplementsContract
