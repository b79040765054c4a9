SPECIFICATION Spec
CONSTANTS
  server = server
  cli = cli
  r1 = r1
  r2 = r2
  r3 = r3
  q1 = q1
  q2 = q2
  Procs <- OneProc
  Servers <- OneProc
  Requests <- TwoRequests
  ProcOf <- AllAtServer
  Scopes <- BothScopes
  Principals <- OnePrincipal
  FourEyes = FALSE
  WriteFaults = FALSE
  MaxAsks = 1
  MaxApprovals = 0
  MaxCrashes = 0
PROPERTY OnlyLegalMoves
