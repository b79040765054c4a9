------------------------------- MODULE Parts -------------------------------
(***************************************************************************)
(* The components that share no state, as the parts of one specification:  *)
(* the firm's kill switch and a disjoint sum of eleven others. A behaviour *)
(* is one of the part that the variable part names; the others stay as     *)
(* they are. The variables of the others are x1, x2, ... in the order of   *)
(* their modules.                                                          *)
(***************************************************************************)
EXTENDS FirmKillSwitch

CONSTANTS
  MaxLines,                                         \* LiveGateAudit
  MaxEvidence, MaxTicks, MaxAge, Cooldown,          \* StrategyLifecycle
  Entries, Poison, SpoolMax, MaxFailures, MaxBoots, \* AuditSink
  SinkEnv,
  Sessions, IdleTtl, MaxLife, Grace, RenewWindow,      \* AuthSession
  MinRemaining, MaxClock, MaxEpoch,
  Executors, MaxRules, Limit, MaxChanges, MaxDays,  \* RuleExecutor
  RuleEnv,
  Engines, LeaderEvents, PerDay, MaxDeliveries,     \* CopyEngine
  MaxCrashes, CopyEnv,
  Brokers,                                          \* PaperLedger: processes with one task each,
  Flattening,                                       \* and those whose task may flatten all
  Symbols, StartCash, MaxOpen, Capture, MaxRows,
  MaxRestarts, PaperEnv,
  Cells, Workers, Every, MaxRuns, ScreenEnv,        \* ScreeningRun
  Frame, Fetched, Room, LastTime, MaxStamps,        \* MarketHistory
  MaxDeaths,
  PlanTotal, PlanSlice, PlanDeadline, PlanSlots,    \* TwapPlanCases
  PlanIntervals, PlanDeltas

VARIABLES part, x1, x2, x3, x4, x5, x6, x7, x8, x9, x10, x11, x12

xs == <<x1, x2, x3, x4, x5, x6, x7, x8, x9, x10, x11, x12>>
all == <<part, xs, vars>>

FewDeltas == {<<0, 0, 0, 0>>, <<1, 1, 1, 1>>, <<1, -1, 1, 0>>}
PaperKinds == [t \in Brokers |-> {"order", "tick"} \cup (IF t \in Flattening THEN {"flatten"} ELSE {})]

Audit == INSTANCE LiveGateAudit WITH file <- x1, lock <- x2, head <- x3, known <- x4, pc <- x5, size <- x6,
           written <- x7, failed <- x8, holds <- x9, Writers <- {"server"}, MaxEntries <- MaxLines, Env <- {"crash", "failure"}
Planner == INSTANCE TwapPlanCases WITH input <- x1, plan <- x2, fitted <- x3, MaxTotal <- PlanTotal,
           MaxSlice <- PlanSlice, MaxDeadline <- PlanDeadline, MaxSlots <- PlanSlots, Intervals <- PlanIntervals,
           Deltas <- PlanDeltas
Life == INSTANCE StrategyLifecycle WITH row <- x1, evidence <- x2, drift <- x3, now <- x4, hist <- x5,
           MaxTime <- MaxTicks
Sink == INSTANCE AuditSink WITH log <- x1, spool <- x2, quarantine <- x3, drain <- x4, head <- x5,
           outcome <- x6, dropped <- x7, crashes <- x8, exposed <- x9, MaxCrashes <- MaxBoots, Env <- SinkEnv
Session == INSTANCE AuthSession WITH now <- x1, cookies <- x2, file <- x3, cutoff <- x4, epoch <- x5,
           out <- x6, MaxTime <- MaxClock, Idle <- IdleTtl
Rules == INSTANCE RuleExecutor WITH rules <- x1, changes <- x2, today <- x3, opened <- x4, day <- x5,
           position <- x6, notice <- x7, deaf <- x8, missed <- x9, cache <- x10, exec <- x11, pending <- x12,
           Procs <- Executors, Env <- RuleEnv
Copy == INSTANCE CopyEngine WITH link <- x1, quality <- x2, filled <- x3, job <- x4, deliveries <- x5,
           crashes <- x6, Events <- LeaderEvents, Env <- CopyEnv
Paper == INSTANCE PaperLedger WITH rows <- x1, lock <- x2, broker <- x3, task <- x4, snapshot <- x5,
           booked <- x6, exits <- x7, restarts <- x8, Start <- StartCash, Tasks <- Brokers, Procs <- Brokers,
           ProcOf <- [t \in Brokers |-> t], KindsOf <- PaperKinds, Env <- PaperEnv
Screening == INSTANCE ScreeningRun WITH row <- x1, persisted <- x2, given <- x3, run <- x4, work <- x5,
           runs <- x6, lost <- x7, Total <- Cells, Env <- ScreenEnv
History == INSTANCE MarketHistory WITH now <- x1, series <- x2, legacy <- x3, lock <- x4, task <- x5,
           appends <- x6, crashes <- x7, Procs <- {"sync", "server"}, Syncers <- {"sync"}, Period <- Frame,
           Limit <- Fetched, Keep <- Room, MaxTime <- LastTime, MaxAppends <- MaxStamps,
           MaxCrashes <- MaxDeaths, Env <- {"timeout"}

Exec == INSTANCE ExecutionWorkflow WITH wf <- x1, seen <- x2, venue <- x3, elapsed <- x4, sends <- x5,
           crashes <- x6, proc <- x7, Pollers <- {"p"}, Target <- 2, Step <- 1, MaxReprices <- 0,
           MaxCancelAttempts <- 2, FallbackAllowed <- TRUE, MaxCrashes <- 0,
           Env <- {"ambiguous", "lossyReads", "unclearCancel"}

-----------------------------------------------------------------------------
SumInit ==
  /\ Init
  /\ \/ part = "firm" /\ x1 = 0 /\ x2 = 0 /\ x3 = 0 /\ x4 = 0 /\ x5 = 0 /\ x6 = 0 /\ x7 = 0 /\ x8 = 0
        /\ x9 = 0 /\ x10 = 0 /\ x11 = 0 /\ x12 = 0
     \/ part = "audit" /\ Audit!Init /\ x10 = 0 /\ x11 = 0 /\ x12 = 0
     \/ part = "plan" /\ Planner!Init /\ x4 = 0 /\ x5 = 0 /\ x6 = 0 /\ x7 = 0 /\ x8 = 0 /\ x9 = 0
        /\ x10 = 0 /\ x11 = 0 /\ x12 = 0
     \/ part = "life" /\ Life!Init /\ x6 = 0 /\ x7 = 0 /\ x8 = 0 /\ x9 = 0 /\ x10 = 0 /\ x11 = 0
        /\ x12 = 0
     \/ part = "sink" /\ Sink!Init /\ x10 = 0 /\ x11 = 0 /\ x12 = 0
     \/ part = "session" /\ Session!Init /\ x7 = 0 /\ x8 = 0 /\ x9 = 0 /\ x10 = 0 /\ x11 = 0 /\ x12 = 0
     \/ part = "rules" /\ Rules!Init
     \/ part = "copy" /\ Copy!Init /\ x7 = 0 /\ x8 = 0 /\ x9 = 0 /\ x10 = 0 /\ x11 = 0 /\ x12 = 0
     \/ part = "paper" /\ Paper!Init /\ x9 = 0 /\ x10 = 0 /\ x11 = 0 /\ x12 = 0
     \/ part = "history" /\ History!Init /\ x8 = 0 /\ x9 = 0 /\ x10 = 0 /\ x11 = 0 /\ x12 = 0
     \/ part = "exec" /\ Exec!Init /\ x8 = 0 /\ x9 = 0 /\ x10 = 0 /\ x11 = 0 /\ x12 = 0
     \/ part = "screen" /\ Screening!Init /\ x8 = 0 /\ x9 = 0 /\ x10 = 0 /\ x11 = 0 /\ x12 = 0

OfFirm(A) == part = "firm" /\ A /\ UNCHANGED <<part, xs>>
Other(name, used) == part = name /\ UNCHANGED <<part, vars, used>>

OfExec(A) == Other("exec", <<x8, x9, x10, x11, x12>>) /\ A

SumNext ==
  \/ OfFirm(Next)
  \/ Other("audit", <<x10, x11, x12>>) /\ Audit!Next
  \/ Other("plan", <<x4, x5, x6, x7, x8, x9, x10, x11, x12>>) /\ Planner!Next
  \/ Other("life", <<x6, x7, x8, x9, x10, x11, x12>>) /\ Life!Next
  \/ Other("sink", <<x10, x11, x12>>) /\ Sink!Next
  \/ Other("session", <<x7, x8, x9, x10, x11, x12>>) /\ Session!Next
  \/ Other("rules", <<>>) /\ Rules!Next
  \/ Other("copy", <<x7, x8, x9, x10, x11, x12>>) /\ Copy!Next
  \/ Other("paper", <<x9, x10, x11, x12>>) /\ Paper!Next
  \/ Other("history", <<x8, x9, x10, x11, x12>>) /\ History!Next
  \/ OfExec(Exec!Next)
  \/ Other("screen", <<x8, x9, x10, x11, x12>>) /\ Screening!Next

SumSafe == SumInit /\ [][SumNext]_all

SumSpec ==
  /\ SumSafe
  /\ \A p \in Procs : WF_all(OfFirm(Expire(p)))
  /\ \A p \in Procs, r \in Slots : WF_all(OfFirm(Answer(p, r))) /\ WF_all(OfFirm(Deliver(p, r)))
  /\ WF_all(OfExec(Exec!Tick)) /\ WF_all(OfExec(Exec!Controller("p")))

-----------------------------------------------------------------------------
(* Properties *)

ExecRow == IF part = "exec" THEN x1 ELSE [state |-> "none"]
ExecSeen == INSTANCE ExecutionWorkflow WITH wf <- ExecRow, seen <- x2, venue <- x3, elapsed <- x4, sends <- x5,
           crashes <- x6, proc <- x7, Pollers <- {"p"}, Target <- 2, Step <- 1, MaxReprices <- 0,
           MaxCancelAttempts <- 2, FallbackAllowed <- TRUE, MaxCrashes <- 0,
           Env <- {"ambiguous", "lossyReads", "unclearCancel"}

(* A cancel that is answered unclearly is given up or confirmed in the end *)
(* (advancePendingCancel of the execution controller).                     *)
CancelPhaseEnds == ExecSeen!CancelPhaseEnds

(* A workflow comes to an end by its timers, although answers and reads    *)
(* are lost, unless from some moment on it never learns whether its order  *)
(* exists (poll of the execution controller).                              *)
WorkflowSettles == ExecSeen!WorkflowSettles

(* The readable lines of the live gate's log never go back in number, and  *)
(* as long as no fault met the log they are one chain (append, audit.ts).  *)
OneChain == part = "audit" => Audit!OneChain

(* The slices of a plan sum up to the total, each within its bounds, and   *)
(* their times rise and stay before the deadline (planTwap, fitPlan).      *)
PlanIsExact == part = "plan" => Planner!PlanIsExact

(* A version that was degraded is not live again, and no order of it       *)
(* passes, before its cooldown ends (requestTransition, the order gate).   *)
CooldownHolds == part = "life" => Life!CooldownHolds

(* A drift check never brings a version nearer to live, although its state *)
(* may have changed since it was read (checkAndDegrade of the lifecycle).  *)
DriftOnlyLowers == part = "life" => Life!DriftOnlyLowers

(* A record acknowledged as durable that is nowhere any more was spooled   *)
(* while a drain was under way, or could not be quarantined, whatever the  *)
(* disk and crashes do (writeAuditRecord and drainAuditSpool).             *)
OnlyExposedVanish == part = "sink" => Sink!OnlyExposedVanish

(* A session that logged out is never accepted again, one that was cut     *)
(* with all others not before a restart, and no renewal carries either on  *)
(* (revokeSession, revokeAllSessions and renewSession of the sessions).    *)
RevokedStaysOut == part = "session" => Session!RevokedStaysOut

(* A cache that heard of every change holds the rules that are active now  *)
(* (load and the notification listener of the micro executor).             *)
CacheIsCurrent == part = "rules" => Rules!CacheIsCurrent

(* A rule opens no more positions on one day than its limit allows,        *)
(* through reloads that forget the counters (match, load, noteFired).      *)
DailyLimit == part = "rules" => Rules!DailyLimit

(* An event of the leader is executed at most once, and a link that failed *)
(* has no fill (handleLeaderEvent of the copy engine).                     *)
CopiedOnce == part = "copy" => Copy!CopiedOnce

(* No two processes hold open rows of one symbol (submitAtomic of the      *)
(* paper broker).                                                          *)
OnePerSymbol == part = "paper" => Paper!OnePerSymbol

(* The profit of a closed position is booked once (applyExit of the        *)
(* monitor, flattenAll and the hydration of the paper broker).             *)
ProfitOnce == part = "paper" => Paper!ProfitOnce

(* A cell that a resume skips has been handled, or its worker died with it *)
(* or could not write it: none that nobody took (flushProgress and the     *)
(* resume of the screening runner).                                        *)
OnlyLostAreSkipped == part = "screen" => Screening!OnlyLostAreSkipped

(* A stored bar stays, and a final one stays final, until the series has   *)
(* no room for it: the lock of the store keeps a sync, the snapshots and   *)
(* migrations from undoing each other (appendSeries of the store).         *)
HistoryKeeps == [][part = "history" => History!BarsStay]_all

(* A query answers what was stored when it began, although a migration     *)
(* moves the bars to another file meanwhile (query of the store), unless   *)
(* it did not get the lock for its own migration.                          *)
QuerySees == part = "history" => History!QuerySees
=============================================================================
