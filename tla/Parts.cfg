SPECIFICATION SumSpec
CONSTANTS
  Procs = {"server", "executor"}
  Servers = {"server"}
  Traders = {"executor"}
  MaxReads = 2
  MaxCalls = 1
  Env = {"dbfail", "lost", "restart"}
  MaxLines = 5  MaxEvidence = 2  MaxTicks = 1  MaxAge = 0  Cooldown = 1
  Entries = {"a", "b", "c", "d"}  Poison = {"d"}  SpoolMax = 2  MaxFailures = 2  MaxBoots = 2
  SinkEnv = {"disk", "quarantine"}
  Sessions = {"s", "t"}  IdleTtl = 2  MaxLife = 4  Grace = 1  RenewWindow = 1  MinRemaining = 1
  MaxClock = 4  MaxEpoch = 1
  Executors = {"p"}  MaxRules = 2  Limit = 1  MaxChanges = 3  MaxDays = 1
  RuleEnv = {"disconnect", "loadfail"}
  Engines = {"p"}  LeaderEvents = {"e", "f"}  PerDay = 1  MaxDeliveries = 4  MaxCrashes = 2
  CopyEnv = {"storefail"}
  Brokers = {"server", "executor"}  Flattening = {"server"}  Symbols = {"x"}  StartCash = 1
  MaxOpen = 2  Capture = TRUE  MaxRows = 2  MaxRestarts = 1  PaperEnv = {"commitfail"}
  Cells = 4  Workers = {"w", "v"}  Every = 2  MaxRuns = 2  ScreenEnv = {"storefail"}
  Frame = 2  Fetched = 2  Room = 3  LastTime = 4  MaxStamps = 3  MaxDeaths = 1
  PlanTotal = 6  PlanSlice = 3  PlanDeadline = 6  PlanSlots = 4  PlanIntervals = {2}  PlanDeltas <- FewDeltas
INVARIANTS TypeOK KnownKillBars OneChain PlanIsExact CooldownHolds DriftOnlyLowers OnlyExposedVanish
  RevokedStaysOut CacheIsCurrent DailyLimit CopiedOnce OnePerSymbol ProfitOnce OnlyLostAreSkipped QuerySees
PROPERTIES KillReaches CancelPhaseEnds WorkflowSettles HistoryKeeps
CHECK_DEADLOCK FALSE
