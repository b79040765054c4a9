# Formal models of ai-trading-firm

TLA+ specifications, TLC instances and TLAPS proofs of the parts of
ai-trading-firm that decide whether, and how often, an order reaches a venue.
The system is a TypeScript application (Next.js, PostgreSQL, state files) of
about 180,000 lines in `src/src`. Its rule is "Die KI schlägt vor - der Code
entscheidet": language models propose, and fixed code admits, sizes, executes
and stops. The models are about that code.

Paths below are relative to the repository's root; `S/` is `src/` inside it
(in PROJECT.json both appear as `src/src/...`).

## 1. Inventory

What acts at the same time: the web server (HTTP handlers that interleave at
every `await`), the micro executor and command line scripts as further
processes, schedulers and timers, the database and the venues. What can fail:
any call to a venue or the database, any write of a file, any process.

| Component | State | Operations | Interacts with | Hard behaviours | What makes it correct |
|---|---|---|---|---|---|
| Execution policy controller (`S/execution/controller.ts`, `store.ts`, `ports.ts`, `livePorts.ts`) | one row and its fills per workflow; orders at the venue | `start`, `poll`, `recover`, `cancelOpen` | HTTP route `app/api/firm/execution/policy`, TWAP children, venue ports, PostgreSQL | several callers on one row, timeouts after the venue acted, lost fill reports, crash between venue and store | never more at the venue than the target; a confirmed cancel is a dead order; terminal rows stay; cancels and workflows end |
| Live gate (`S/live-gate/`) | state file per venue, cache per process, kill file, kill memory, four eyes approval | `transition`, `disable`, `kill`, `clearKill`, `evaluateLiveOrder` | routes `app/api/live/*`, `scripts/live-kill.ts`, order path | request suspended in a check, process with a stale cache, failing write, crash between two files | a kill dominates; live only after the whole matrix with cooldown and two principals |
| Live gate audit (`S/live-gate/audit.ts`) | hash chained NDJSON log, lock file | `append`, `chainHead`, verification | every gate operation, several processes | stale lock takeover, append without the lock after a timeout | one chain: no sequence number twice, no outdated previous hash; a piece of a line is cut |
| TWAP scheduler (`S/execution/twap/`) | parent, slices, lease, events | `tick`, `start`, cancel | execution controller as child executor, kill switch, deadline | two workers, restart between slice and child, unconfirmed cancel | at most one child alive; quantity frozen before the start; terminal only with all children dead |
| Strategy lifecycle (`S/strategyLifecycle/`) | state per version, evidence, transitions | `transition`, evidence, drift evaluation, order gate | order path, audit sink | parallel transitions, repeated keys | one transition per key, no live state without evidence |
| Rule service, rule engine (`S/lib/ruleService.ts`, `ruleEngine.ts`) | immutable rule versions, caches, counters | create, activate, roll back, feedback | micro executor through notifications | stale caches, concurrent activation | at most one active version; executors converge to it |
| Micro executor (`S/lib/microExecutor.ts`) | cooldowns, daily counters, positions cache | tick, match, execute | rule service, kill switch, paper broker | match while a rule is replaced or the switch is pulled | no order past the switch, limits respected across restarts |
| Firm kill switch and circuit breaker (`S/lib/killSwitchDb.ts`, `circuitBreaker.ts`, `killSwitchNonce.ts`, `disarmChallenge.ts`) | database row, cache with lifetime, latch, nonces | pull, disarm, check | every order path, notifications | cache against row, database failure, lost notification | fail closed; latch until disarmed; one nonce, one use |
| Four eyes approvals (`S/lib/fourEyesApproval.ts`) | open proposals | propose, consume | live gate, disarm | expiry, replacement, reuse | two principals, one use |
| Paper broker, trading engine, monitor (`S/lib/broker.ts`, `engine.ts`, `monitor.ts`) | cash, positions, journal | open, close, mark | all order paths, hydration | restart, fills against stale prices | ledger invariants |
| Copy engine (`S/copy/`) | links and intents per leader event | ingest, simulate, mark | follower simulation, store | repeated delivery, crash between intent and mark | one follower order per leader event |
| Reconciliation (`S/brokers/reconciliation.ts`) | last report | run, pause | broker, database, kill switch | snapshot of two sides at different times | critical differences pause, never flatten |
| Sessions (`S/lib/authSession.ts`, `S/auth/`) | signed sessions, revocations | sign in, rotate, revoke | every route | concurrent rotation, clocks | lifetime bounds, revocation is final |
| Durable audit sink (`S/lib/auditSink.ts`) | spool, counters | write, replay | database | partial replay, crash | no record vanishes silently |
| Historical store, market data, perpetuals (`S/lib/marketdata/`, `S/marketdata/`, `S/perpdata/`) | partition files, cursors | append, query, migrate, sync | feeds, lock file | two writers, crash during migration | a stored bar stays and a final bar stays final; a query sees what was stored |
| Cycle engine, screening, forecasts, model routing (`S/cycle/`, `S/screening/`, `S/forecasts/`, `S/routing/`) | run records, ledgers, budgets | run, resume, resolve, route | language models, database | restart half way, double run | one result per key, budgets |
| Numerics and views (backtest, portfolio, attribution, features, signals, scanners, strategy validation, reports, user interface) | none shared | pure computation and rendering | - | - | arithmetic and layout |

PROJECT.json lists every component with its files and status.

## 2. The modules

| Module | Models |
|---|---|
| `ExecutionWorkflow` | the controller, its store and a venue: one workflow, several callers |
| `ExecutionWorkflowProof` | inductive invariants and theorems about it: cancels, terminal rows, DONE |
| `ExecutionWorkflowSingle` | what one caller that does not die guarantees: exposure, order of orders, no orphan |
| `MCExecutionWorkflow` | instances for TLC |
| `LiveGateContract` | what the gate promises for one venue |
| `LiveGate` | service, store, kill file, caches and memory of several processes |
| `LiveGateProof` | inductive invariants and theorems about it, and the refinement of the contract |
| `MCLiveGate` | instances for TLC |
| `TwapPlan` | the planner as functions over whole venue steps |
| `TwapPlanCases` | the planner on every small input, against what a plan has to be |
| `TwapPlanProof` | proofs that a plan is sound and is made whenever there is one, and the lemmas about loops and sums |
| `TwapScheduler` | one TWAP parent, its slices, lease and workers, over child workflows |
| `TwapSchedulerProof` | proofs that a child has the frozen quantity of its slice, that a parent that ended stays so, and that its books are even |
| `MCTwapScheduler` | instances for TLC |
| `FirmKillSwitch` | the firm's kill switch and circuit breaker over several processes |
| `LiveGateAudit` | the gate's hash chained log, its lock file and its writers |
| `StrategyLifecycle` | one strategy version between draft and live |
| `RuleExecutor` | the rules of one symbol, the rule caches and the executions |
| `PaperLedger`, `MCPaperLedger` | the paper account shared by processes, and its instances |
| `CopyEngine` | links, intents and fills per leader event |
| `AuditSink` | the durable audit log with spool, drains and quarantine |
| `AuthSession` | cookies, renewal, logout and the global cut |
| `ScreeningRun` | one screening run with its workers, progress and resume |
| `MarketHistory` | one series of the historical store under sync, snapshots and queries |
| `Parts` | the components that share no state, as the parts of one specification |
| `FirmProof` | inductive invariants and theorems about the firm's kill switch and the paper account |
| `StoresProof` | the same about the gate's log and the historical store |
| `PartsProof` | the same about sessions, lifecycle, audit sink, copy engine, screening run, rules and planner |

Two kinds of composition occur. Where components interact, one is modelled over
the contract of the other: `TwapScheduler` drives children that behave as
`ExecutionWorkflow` shows (an order that may trade while the workflow is open, a
recorded quantity that may lag, final states), and `LiveGate` refines
`LiveGateContract`. Where they share no state, `Parts` takes them as a disjoint
sum: `part` names the component a behaviour is about, and the others stay as
they are. A product would multiply their states and show nothing more. The
constants of `Parts` are those of its components; `Parts.cfg` gives them the
values of the run, and the theorems of `FirmProof`, `StoresProof` and
`PartsProof` are about every value.

### ExecutionWorkflow

A caller of the controller is a *poller*; its program counter `proc[p].pc` says
at which `await` it stands, and `proc[p].rec` is the copy of the row it loaded.
Every `await` on the store or the venue ends a step, so that other pollers, the
venue, a timer or a crash may come in between.

| TLA+ | Code |
|---|---|
| `wf`, `seen` | the row in `execution_workflows`, the ids in `execution_workflow_fills` |
| `venue` | the venue's orders by client order id: attempts `0 .. MaxReprices` and the market fallback `F`; `"wire"` is a request whose answer timed out and which may still arrive |
| `elapsed` | the time to live (state entered SUBMITTED) and the cancel timeout |
| `Mutate` | `store.mutate`: compares the version, checks `ALLOWED_TRANSITIONS`, rejects an overfill, then writes row and fills in one transaction |
| `Start`, `Send`, `Deny`, `PersistFirst`, `PersistReprice`, `PersistFallback`, `Exhaust` | `start`, `reprice`, `fallback`, `handleLimitReject`: gates, the call of the port, and the write that only follows the answer |
| `Poll`, `Resolve`, `ReadOrder`, `ReadFills`, `RecordFills` | `poll` and `reconcile`; the order and its fills are asked concurrently and answered in either order |
| `Live*`, `CheckTtl`, `CancelOrder`, `ConfirmCancel`, `AfterReport` | `pollLiveOrder`, `requestCancel` |
| `Pending*`, `RetryCancel`, `PersistRetry` | `pollCancelPending` |
| `AfterCancel`, `Reprice`, `AfterFallback` | `pollCancelled`, `reprice`, `pollFallback` |
| `CancelOpen`, `Abort` | `cancelOpen` and the polls it makes |
| `Arrive`, `Drop`, `Fill`, `VenueCancel`, `LateReject`, `Crash`, `Tick` | the environment |

Quantities are units and a fill is one unit, so a set of fills has its size as
its quantity and the fill id as its member; prices, fees and texts are left out.
Gates, quotes and account data are read-only predicates: their verdict is a free
choice (`Send` or `Deny`). `Env` names the faults an instance admits.

### LiveGate

A handler of the server runs without interruption until it awaits a check;
`kill` and `clearKill` touch several files one after the other and take one step
per file, because the process may die, or another process act, between them.

| TLA+ | Code |
|---|---|
| `disk` | `venue-{VENUE}.json` (`store.ts`) |
| `cache`, `loaded` | `LiveGateStore.cache` of each process: read once, never refreshed |
| `memory`, `file` | `killedMemory` (`runtime.ts`) and the scopes in the kill file (`killFile.ts`) |
| `req` | a request suspended in a check, or between the steps of `kill`/`clearKill` |
| `cooled`, `expired` | time stamps whose cooldown, or 15 minutes, are over |
| `ready` | the other conditions of `evaluateLiveOrder`: flags, suite stamp, control plane, firm kill switch |
| `BeginCheck`, `CheckPassed`, `CheckFailed` | the five checked transitions: intent, await, commit |
| `Ask`, `Propose`, `DropExpired`, `Approve` | LIVE_PENDING with its cooldown, HUMAN_APPROVED and LIVE_ENABLED with four eyes |
| `Disable`, `KillMemory`, `KillFile`, `KillReset`, `ClearRead`, `ClearWrite` | `disable`, `kill`, `clearKill` |
| `Load`, `Refuse`, `Crash` | first read with the recovery of an intent; a denial, which writes a counter; restart |
| `Allowed` | `evaluateLiveOrder` |

The command line process (`scripts/live-kill.ts`) runs one command and ends, so
it starts only with nothing loaded. `checks.ts` turns every error of a check into
a negative result, so an awaited check never throws. A failing write of the state
file is an alternative of the steps that go on after it; for `Ask`, `BeginCheck`,
`Propose` and `Disable` the handler returns with the record unchanged, which is
`Refuse`. `hist` is a history variable: which kills were filed and acknowledged
and not cleared since, the latest request for live, and who signed it.

`LiveGateContract` is the abstract gate: the state, the kills that stand and
those that were acknowledged. `LiveGate` maps to it with `state <- disk.state`,
`killed <- file`, `acked <- hist.killed`.

### TwapPlan, TwapPlanCases, TwapScheduler

`TwapPlan` follows `plan.ts` operator by operator: `slotCount`, `snapToGrid`,
`EvenSplit`, `JitteredQty`, `repair` with its passes, `scheduleTimes`, `planTwap`,
and `fitPlan` of the scheduler with its eight attempts. Jitter, a hash of the
seed in the code, is any value within the policy's bounds. A loop of the code is
a recursive function of the rounds made so far, and its body an operator of its
own (`Move`, `RepairSlice`, `NextPass`, `NextTime`, `Attempt`), so that the proofs
can speak of the state between two rounds.

| TLA+ | Code |
|---|---|
| `par`, `slices`, `lease` | `execution_twap_parents`, `execution_twap_slices`, the lease of a parent |
| `child[k]` | the workflow of slice k: what has traded, what is recorded, its state |
| `proc[w]` | a call of the API under way: copy of the parent, whether its version and that of its slice are current, the slice it works at |
| `Tick`, `Cancel`, `Resume`, `LeaseFree` | entry points and the claim of the lease |
| `EnsurePlan`, `InsertSlice`, `Planned`, `Started` | planning and its writes, slice by slice |
| `Stop`, `Expire`, `Hold`, `Proceed` | kill switch, deadline, pauses and gates, in the order of `tickLeased` |
| `CancelChild`, `ChildCancelled`, `NotConfirmed`, `DropPending`, `Close` | the way to an end and what an unclear answer makes of it |
| `PollChild`, `ChildPolled`, `Boundary`, `SliceEnded` | `applyView`, `persistReconcile`, `reconcileParent` |
| `Replan`, `Adapted`, `Pick`, `Claim`, `Freeze`, `Send`, `Sent`, `Account` | the rest adapted to the book, the choice and claim of a slice, the start of its child |
| `Fill`, `Pass`, `LeaseExpires`, `Crash` | the venue, time, the lease's end, a worker that ends |

### FirmKillSwitch

The latest row of `kill_switches` is the truth. `read[p][r]` is a query under
way: asked, answered by the database, then handled (`Deliver`), each a step of
its own. The epoch of the cache appears as what it decides: a read that began
before the last invalidation (`cur = FALSE`) may not fill the cache.
`GateCached`, `GateReads`, `Refresh` are `readAuthoritativeKillSwitch` and its
callers; `Kill`, `Disarm`, `Trip`, `Rearm`, `Insert`, `Notify` the routes, the
breaker and the pause of the reconciliation; `Notification`, `Disconnect` the
LISTEN connection. `hist` records the kill that stands, which processes were
told of it, and whether an order that came later passed the gate of one of them.

### The smaller components

* `LiveGateAudit`: `Create`, `CheckStale`, `UnlinkStale`, `GiveUp`, `Release` are
  the lock; `Stat`, `ReadTail` the adoption of what others appended and the cut
  behind the last whole line (`Whole`), which may fail; `Write` and `Crash` leave
  a whole line or a piece: a `"torn"` one that cannot be parsed, or a `"bare"` one
  that lacks only its newline. `verifyAuditFile` and `Opened` accept a bare line
  as the code does, and what is written behind a piece is `"glued"` and
  unreadable. A hash is the number of its entry.
* `StrategyLifecycle`: `Edges` is the table of `states.ts`; `requestTransition`
  with `Supported` (evidence) and `Barred` (cooldown) is one transaction under
  the row lock; `ReadForDrift` and `Degrade` are the two halves of
  `checkAndDegrade`; `orderAllowed` is the order gate.
* `RuleExecutor`: the operations of `ruleService` are changes of the table with
  a notification on its way; pause, archive, reject and upsert read first
  (`Intend`) and write later whatever the row has become (`WriteRule`),
  activation and rollback are one transaction; `LoadBegin`, `LoadRead`,
  `LoadEnd` the load with its version and dirty flag; `Match`, `Submit`,
  `Record`, `Fired` an execution, whose trigger is written after the fill.
* `PaperLedger`: every task syncs (`SyncRead`, `Reconcile`) before it acts;
  `Submit` and `Commit` are `submitAtomic` under the account's advisory lock,
  `List`, `Claim`, `Book` an exit of the monitor, `CloseAll`, `Flat` the
  flattening by the kill switch, which only the web server performs.
* `CopyEngine`: `Receive`, `Gates`, `createIntent`, `RecordIntent`, `Simulate` and
  the marks are the steps of `handleLeaderEvent`, each ended by an await.
* `AuditSink`: `writeAuditRecord`, and a drain that reads the spool, awaits the
  database once per line (`DrainSent`, `DrainPoisoned`, `DrainStopped`) and
  writes the file anew; the drain at boot asks nobody whether one is under way,
  so two may run at once. `exposed` is a history variable: the lines spooled
  while a drain ran, and those that could not be quarantined.
* `AuthSession`: a cookie is its payload; `mintSession`, `renewSession`,
  `revokeSession`, `revokeAllSessions` and the predicates that read them; the
  global cut is in memory and `Restart` loses it.
* `ScreeningRun`: `Take`, `Persist`, `CellDone` per worker, `Flush` of the
  counter, `setRunStatus` under the row's lock, `Crash` and `Begin` again. Every
  call of the database may fail: the insert of a cell and the write of the
  progress (`Progress`) make the run a failed one, the last status is only
  reported. `lost` is a history variable: the cells whose insert failed, and
  those that were counted in the row while still at a worker when the process
  died.
* `MarketHistory`: `Take`, `Judge`, `Remove`, `Timeout`, `Release`, `Unlink` are
  `acquireStoreLock` and `releaseStoreLock`; `Migrate`, `Replace`, `Rename` the
  migration of the legacy file; `Merge`, `Write` the append with its merge and
  compaction; `Query` .. `Answered` a query; `Sync`, `Plan`, `Fetch` the sync's
  decision; `getSnapshot` the snapshots of the manager, each a bar whose stamp
  is its own time (two of one time tie).

## 3. What is checked

| Run | Instance | Shows |
|---|---|---|
| `exec_single` | one caller, all faults of the venue except lost fill reports, `cancelOpen` | `TypeOK`; `NoDoubleExposure`: what may trade or has traded never exceeds the target; `MarketLast`: no limit can trade once the market order is out; `NoOrphan`: an order that may trade is tracked or its failure says so; `DoneMeansFilled`: DONE is never claimed early |
| `exec_race` | two callers, no other faults, one crash | `CancelSound`: a CANCELLED row names a dead order; `TerminalIsFinal`: no stale caller touches a terminal row or forgets a fill |
| `gate_one` | one server, two requests, two scopes, four eyes, one restart | `TypeOK`; `HumanGate`: an order passes only on a request for live younger than the last kill or disable, cooled down, signed by two; `KillDominates` |
| `gate_serial` | one request at a time, two restarts at any step | `ImplementsContract`: the service refines `LiveGateContract` |
| `twap_single` | one worker, target 3, slices of 1 to 2, window of two intervals; unclear cancels and polls, thin books, kill switch, lost connection, closed market, operator | `TypeOK`; `NoOverExposure`: what children hold and traded is at most the target; `TerminalChildrenDead`; `BooksBalance`: no parent fails for an invariant of its own books; `CompletedMeansTraded`; `EndIsFinal` |
| `twap_two` | two workers with one worker id, so that neither lease nor claim keeps them apart, thin books | `OneChild`: one child trades at a time; `QuantityFrozen`: it has the quantity its slice was frozen with |
| `twap_live` | two workers with their own ids, rejected children, one crash, fair | `NoOverExposure`; `ParentEnds`: every parent ends |
| `parts` | the components of `Parts` one after the other | see below |
| `exec_crash` | one caller, one crash | violated: `MarketLast` (section 4) |
| `gate_late` | one server, two requests | violated: `OnlyLegalMoves` |
| `audit_spool` | records spooled while a drain is under way | violated: `DurableIsKept` |
| `screening_gap` | two workers, one crash | violated: `PrefixIsDone` |

The parts of `parts` (some 760,000 states together) and their properties:

| Part | Instance | Shows |
|---|---|---|
| firm | server and executor, two reads each, one call, database failures, lost notifications, restarts | `KnownKillBars`: no order passes in a process that was told of a kill that stands, by its own call or a notification; `KillReaches`: a kill that stands for good bars every trader for good, although every notification is lost |
| audit | one writer, five entries, crashes that leave a fragment of a line or a line without its newline, failed writes and cuts | `OneChain`: the numbers of the readable entries rise whatever happens; and they are one chain as long as no write or cut failed and no start took a line without its newline for whole |
| plan | every target up to 6, bounds up to 3, window up to 6, three jitters | `PlanIsExact`: a plan exists exactly if some number of slices can carry the target, and is then the whole target in legal slices at rising times before the deadline |
| life | two pieces of evidence, one tick, cooldown 1 | `CooldownHolds`, `DriftOnlyLowers`: a drift check never raises a version that moved since it was read |
| sink | four records, one of them poison, spool of two, failing disk and quarantine, two drains at once, two crashes | `OnlyExposedVanish`: what was acknowledged as durable is in the log, the spool, the quarantine, or was reported as dropped, unless it was spooled during a drain or could not be quarantined |
| session | two sessions, four ticks | `RevokedStaysOut`: no cookie of a session that was logged out is accepted or renewed, nor one of a session that was cut with all others, the latter until a restart |
| rules | two rows, limit 1, three changes, two days, lost connection, failing load | `CacheIsCurrent`: a cache that missed nothing has the rules that are active; `DailyLimit` |
| copy | two events delivered up to four times, failing store, two crashes | `CopiedOnce` |
| paper | two processes, one symbol, two positions, failing commits, one restart | `OnePerSymbol`, `ProfitOnce` |
| screen | four cells, two workers, progress every two, failing writes, two starts | `OnlyLostAreSkipped`: the cells a resume skips were handled, or were at a worker when the process died, or their insert failed; no cell that nobody took is skipped |
| history | a sync and a server, five times, three appends, one crash, lock timeouts | `HistoryKeeps`: a stored bar stays and a final one stays final until the series is full; `QuerySees`: a query that had the lock, or needed none, answers all that was stored when it began |
| exec | one caller, ambiguous submits, lost reads, unclear cancels, no reprice budget, fair | `CancelPhaseEnds`; `WorkflowSettles`: a live order comes to an end, or the venue never again shows the order of an ambiguous submit |

Every property of a passing run has a mutant of a definition of the model (its
text is next to the definition it mutates, for example `MutateUnversioned`,
`LeaseFreeReturned`, `isStaleLockAlways`) under which the same run fails.

**What the passing run leaves out.** Some faults make the code violate the very
property, so they are switched off in `parts` and shown by the instances of
section 4: two writers of the gate's log (`GiveUp`) and a disk that takes a part
of a line, a trigger that cannot be recorded or an executor that restarts before
it is (`RecordFails`, `Restart` of `RuleExecutor`), two copy engines, two tasks in
one process of the paper account, and a restart beside a stale lock or a lock
held longer than its lifetime in the historical store (`Restart`, `Age`). The
properties hold for the rest, which is what the run says and no more. In three
parts the fault is in the run and the property names what it may do: a line
without its newline (`OneChain`), a record spooled during a drain or refused by
the quarantine (`OnlyExposedVanish`), and a cell that is overtaken or whose insert
fails (`OnlyLostAreSkipped`).

**Bounds.** Execution: `Target = 2`, `Step = 1` has a partial fill, a remainder
and a full fill; two callers use `Step = 2`, where the order is one step and the
races are about row and order. `MaxReprices = 1` has a first attempt, a reprice
and an exhausted budget; `MaxCancelAttempts = 2` a retry and a last one. `Cap`
stops the history counter `sends` one above its documented limit. One crash is
enough for every pair of steps it can separate, since after it the caller starts
again from the row. Gate: two requests let one overtake another; `MaxAsks = 2`
and `MaxApprovals = 2` allow an old and a new request for live, and an expired
or replaced approval; two scopes tell a kill of all venues from one of this
venue. TWAP: target 3 with slices of 1 to 2 has plans of two and of three slices
and a rest that must be planned again; `MaxSlices` leaves room for the slices
such a new plan adds; a window of two intervals has a slice that can run late,
and a re-plan before the deadline. Firm: two reads let an answer from before a
kill be handled after one from behind it. History: `Keep = 3` of five times
makes the compaction drop bars, and three appends let a forming bar be replaced
by its final one and by a late answer. Runs end where their bounds end, so
`CHECK_DEADLOCK FALSE` is set where a workflow, parent or run is over; the gate
never stops and is checked for deadlock.

**Symmetry** is used for the callers in `exec_race` and for requests and
principals in `gate_one`, under safety properties only.

**Fairness.** In `parts`: the cache of the kill switch expires by the clock, the
database answers a query or fails it, and a handler that was called runs
(`Expire`, `Answer`, `Deliver`); for the execution workflow time passes and a
called controller goes on, since its callers poll again and again
(`execution/twap/scheduler.ts:409` each tick through `twap/child.ts:92`, an
operator or job through `app/api/firm/execution/policy/route.ts:230`, `:268`).
In `twap_live`: time passes, leases expire, ticks come, and a call that began
goes on; the last is written out (`Goes`) rather than as `WF`, because TLC would
have to plan to decide whether a step is enabled. Nothing is assumed of the
venue: fills, arrivals and clear answers may never come, and the order of an
ambiguous submit may never be found. In that case the code leaves its row in
SUBMITTED for ever (`MCExecution_unknown`), so `WorkflowSettles` says that a row
settles or is, from some moment on, SUBMITTED without an order for good.
`CancelPhaseEnds` has no such exception. The part has no crash, no reprice budget
and no order that the venue itself cancels or rejects late, and `WorkflowSettles`
is not claimed for these: a cancel or late reject of the venue stops every poll
(`ExternalCancelAdopted`, section 4), and a market order that a crash hid from
its row, or a repriced limit, can together with lost fill reports bring in more
fills than the row has room for; the store refuses them in every poll, and the
row stays open. `ParentEnds` has no unclear answers: a child that never
answers keeps its parent open and PAUSED (`docs/TWAP_EXECUTION.md:83`).

## 4. Where code and documentation disagree

Four runs find a statement of the repository violated:

1. `exec_crash`: the market fallback is sent before it is written
   (`execution/controller.ts:1240`). When it is reached because a reprice was
   denied, a crash in between leaves a CANCELLED row with reprice budget; the
   next poll sends a limit for the same remainder.
   `docs/POST_ONLY_FALLBACK.md:75` says that restarts do not send twice.
2. `gate_late`: the commit after an awaited check (`live-gate/service.ts:578`)
   does not compare the state with the one the request started from, so a
   `disable` or `kill` in between is followed by a jump, against `states.ts:9`.
3. `audit_spool`: a drain writes the spool anew from the lines it read at its
   start (`lib/auditSink.ts:824`); an entry spooled while it waited for the
   database is deleted, although its caller was told that it is durable. The
   drain at boot (`instrumentation.ts:109`) does not pass `drainInFlight`, and
   the server and the executor share one spool.
4. `screening_gap`: the count of finished cells is stored as the number of the
   first cells that are done (`screening/runner.ts:643`). With the default of
   four workers a slow cell lies before it; a crash then leaves it undone, and
   the resume skips it, against `:54`.

The following were found with the same modules. A cfg is named where one is in
this directory; it is run by hand (section "Running").

Execution. `MCExecution_unknown`: `pollLiveOrder` returns a row without an order
id before it looks at its lifetime (`controller.ts:698`), so a submit that was
answered ambiguously and whose order is never found stays SUBMITTED for ever
(`SubmittedAges`), while `:756` says that SUBMITTED without ACK ages, too.
`MCExecution_two`: with two callers at one CANCELLED row one reprices
while the other, whose gates deny, sends the market order before the version
check stops one of them (`controller.ts:1081`, against `:26`).
`MCExecution_recover`: the first limit is written only after its acknowledgement;
after a crash in between the row is NEW and `poll` returns it without asking the
venue, against `controller.ts:19`. Further properties stated in the module that
do not hold: `ExternalCancelAdopted` (`stateMachine.ts:71` has no edge for an
order cancelled at the venue), `LimitSubmitsBounded` (a reprice rejected out of
CANCELLED cannot be written, so the budget is not used up), `DoneIsRecorded`
(fills read before the last trade and the order after it).

TWAP. `MCTwap_reject`: a rejected child pauses its parent, and the pause breaks
the parent's own books, so it fails for good (`scheduler.ts:660`,
`reconcile.ts:84`); `docs/TWAP_EXECUTION.md` says pause without a submit.
`MCTwap_dead`: after a crash between the start of a child and the write of its
slice, a kill or the deadline ends the parent with a live child. In the same
case a closed market or a lost connection (`Env = {"closed"}`, a `Target` of 2)
drops the slice, and the rest is sent again: `NoOverExposure` fails, against
"Ein Restart mit derselben eingefrorenen Menge trifft denselben Workflow".
`MCTwap_resume`: an operator's cancel that was not confirmed is forgotten by a
tick, since `OPERATOR_CANCEL_UNCONFIRMED` is not among the held pauses. Smaller:
the eight attempts of `fitPlan` may leave a rest unscheduled; an infeasible plan
keeps its parent PLANNED for ever and takes a place in `listActionable`'s limit;
the forced reconciliation knows neither EXPIRED nor COMPLETED.

Live gate. `MCLiveGate_cli`: the cache of the server does not see that the
command line reset the state, against `docs/LIVE_TRADING.md:150`.
`MCLiveGate_clear`: `clearKillEntries` reads, filters and renames without a lock
and loses a kill appended in between, against `killFile.ts:73`; section 5 shows
that this needs two processes and two scopes. Under `WriteFaults` also
`HumanGate` fails: `kill` ignores a failed reset, and `clearKill` does not look
at the state.

The gate's log. `MCAudit_torn`: a crash leaves a last line that lacks only its
newline. It is complete JSON, so the verification accepts it, and the constructor
takes its head and the whole size as known (`audit.ts:321`). The next append finds
the size unchanged (`:425`), cuts nothing and writes its line behind it: two
entries become one line that cannot be read (`TornLineIsCut`), against `:408`.
`MCAudit_writers`: `isStaleLock` calls a lock that has just vanished stale
(`:288`), and the unlink that follows (`:521`) removes the lock another process has
made meanwhile. Two processes append at once and write one number twice
(`LockKeepsOneChain`), against `:31`; no process has to be slow or to die. With
`Env = {"slow"}` or `{"crash"}` they do so in more ways: an append that does not
get the lock goes on without it (`:527`), and a lock that is too old is judged and
removed in two steps (`:519`). A failed write leaves a gap in the numbers. One
writer breaks the chain, too, when the disk takes a part of a line and `writeSync`
only returns how much (`OneChain` with `Env = {"short"}` and `MaxEntries = 5` in
`MCAudit_torn`): the line counts as known in full, so the next append finds the
file shrunk (`:419`), which forgets the head and leaves the fragment, and the
numbers begin again at 1.

Kill switch. A query that the database answered before a kill was acknowledged
is handled after it and disarms the local latch, which some gates ask alone
(`execution/gates.ts:114`, `brokers/alpaca/execution.ts:256`,
`brokers/bitunix/execution.ts:137`, `lib/broker.ts:854`,
`execution/twap/service.ts:100`); `KnownKillBars` is about the gate that reads
row or cache. The breaker's latch is released by a row that is clear, without
the manual disarm `circuitBreaker.ts` asks for.

Historical store. `MCHistory_stale`: two processes judge a lock stale, the second
removal removes the new lock of the first, and an append is lost; a batch that
holds the lock for more than 15 s loses it in the same way; against
`historicalStore.ts:44`. `MCHistory_timeout`: a query that did not get the lock
reads the partition before a migration writes it and the legacy file after its
rename, and misses its bars, against `:47`. With two syncs the slower one's
older answer gets the younger stamp and replaces a final bar by a forming one.
A snapshot appended in the running period makes the sync believe the series
current (`FreshHoldsBar`, `marketdata/sync.ts:1298`).

Copy, paper, rules, lifecycle, sessions, screening, audit. `MCCopy_day`: the
limit of the day sums notionals that are never stored. `MCCopy_two`: a link is
FAILED although its order was filled, as also with one engine whose quality
record fails (`Env = {"qualityfail"}`). `MCPaper_cash`: two processes spend one
unit of cash twice. `MCPaper_overlap`: a profit is booked twice when two tasks
of one process overlap; `MCPaperLedger` finds the same when a commit fails
without the capture of quality records (`Env = {"commitfail"}`, `Capture =
FALSE`). `RuleExecutor!DailyLimit` fails with a crash between fill and record, a
failing record, or two executors (`microExecutor.ts:1361`).
`StrategyLifecycle!LiveNeedsBoth`: either of two kinds of evidence admits
limited live, where `states.ts` asks for both; a recovery accepts old evidence;
going down from LIVE to LIVE_LIMITED stops all orders for the cooldown. The
global cut of sessions is lost in a restart (`stateRegistry.ts:62`). A cell
whose write failed counts as done (`PrefixIsDone` with `Env = {"storefail"}` in
`MCScreen_gap`, also with one worker), and a poisoned line whose quarantine
cannot be written is dropped (`auditSink.ts:710`), which the part `sink` counts
as exposed.

## 5. What is proved

TLAPS checks the theorems for every value of the constants that the named
assumptions allow: any number of pollers, any target and step, any budgets, any
set of faults; any processes, requests, scopes and principals.

* `ExecutionWorkflowProof!TypeCorrect` and `CancelIsSound`. `CancelSound` is not
  inductive: a stale caller could confirm the cancel of an order that is no
  longer the one in the row. `IInv` adds (a) `Fresh`: a copy of the row with the
  current version is the current row, and no copy has a later version; (b)
  `Toldright`: a caller that has been told "canceled" or "filled" of the order in
  its copy was told the truth, and dead orders stay dead; (c) `RowOK`:
  `attempt <= reprices`, so that an attempt number never passes the budget; (d)
  `Sendable`: a caller about to reprice has budget left. The version check of
  `Mutate` then lets only fresh copies through. There is one lemma per action;
  `MutateStep` and `ReturnStep` carry the common part.
* `ExecutionWorkflowProof!TerminalRowsStay`: `Spec => TerminalIsFinal`. It adds
  `AllOpen` to `IInv`: a caller under way holds a row that was not terminal when
  it was loaded. With `Fresh`, whoever passes the version check writes to a row
  that is not terminal; every other step leaves row and fills alone.
* `ExecutionWorkflowProof!DoneIsFilled`: `Spec => []DoneMeansFilled` for any
  number of callers, crashes and lossy reads. `DInv` says that recorded fills
  are fills of the venue, that what a caller was told of the order in its copy
  of the row has happened at the venue, and that the quantity an order is sent
  with is what the recorded fills leave, down to whole steps. An order that is
  reported filled has therefore traded all of the remainder but less than one
  step.
* `ExecutionWorkflowSingle!WorkedInTurn`, and from it `ExposureOnce`,
  `MarketGoesLast` and `NothingLeftBehind`: `NoDoubleExposure`, `MarketLast` and
  `NoOrphan` under the assumption `Alone`: one caller, no crash, complete reads.
  It is needed: `exec_crash` violates `MarketLast` with one crash,
  `MCExecution_two` shows two live orders of two callers. `SInv` says that all
  orders but the one in work are dead with their fills recorded (`Counted`), so
  that the order in work has the quantity they left (`Covered`); which order is
  in work follows from the row and from where the caller stands (`InWork`).
  `NothingLeftBehind` also assumes `Step = 1`: with a coarser step a market
  order that is filled to within dust is declared DONE with a rest that is live
  at the venue (TLC finds it with `Target = 4`, `Step = 2`); `NoOrphan` does not
  tell dust from more.
* `LiveGateProof!TypeCorrect`, with the auxiliary fact that a request waiting for
  a check heads for one of the first five states.
* `LiveGateProof!KillIsDominant`: `OneProcess \/ OneScope` implies
  `Spec => []KillDominates`. `KillInv` says `hist.killed \subseteq hist.filed
  \subseteq file`, that a process has one kill or clear under way at a time, and
  that a clear about to write has read the file as it still is up to its own
  scope. Since the order decision reads the file, a filed kill bars every server,
  whatever its memory and cache.
* `LiveGateProof!HumanGateHolds`: `OneProcess`, writes that succeed and finitely
  many principals imply `Spec => []HumanGate`. `HumanInv` says that a cache is the
  file (`Synced`), that a record beyond LIVE_PENDING stands for a latest request
  that cooled down and was signed twice (`Passed`), that LIVE_PENDING carries the
  stamp of that request (`Pending`), and that an approval is signed for it
  (`Waiting`). A late commit of a check drops both state and approval, so nothing
  of an old request survives into a new one. `MCLiveGate_cli` shows that a second
  process breaks it, and section 4 that a failing write does.
* `LiveGateProof!GateKeepsContract`: `Spec => ImplementsContract`, the refinement
  of `LiveGateContract`, with one process, one request at a time and writes that
  succeed. `GateInv` joins the three invariants above with `Alone`: a request that
  waits for a check finds the state it started from, and a kill or clear half way
  has filed what it must have filed. Each step then is a step of the contract or
  leaves it alone (`Keeps`); a crash in a kill leaves a filed kill that was not
  acknowledged, which the contract allows. With two requests a late commit of a
  check jumps (`gate_late`), so the assumption is needed.
* `LiveGateProof!KillTakesDown` is about the contract alone: an acknowledged kill
  keeps its state down until it is cleared. `KillStaysDown` carries that over to
  the files of the gate by the refinement.

* `TwapSchedulerProof!FrozenQuantityStands`: `Spec => []QuantityFrozen`, whatever
  the workers' ids, the leases and the environment do. `IInv` says of a worker
  between pick and start (`Mine`): if its copy of the slice is current and the
  slice frozen, it would freeze the same quantity again, and once it is about to
  start the child, the slice is frozen with that quantity. Every other write of a
  slice keeps a frozen quantity (`Grown`), and every answer of a child keeps the
  child's (`Fits`). Leases play no part in it: the version of the slice row does.
* `TwapSchedulerProof!EndStays`: `Spec => EndIsFinal` while calls do not overlap
  (`Apart`): there is one worker, or every worker has its own id and no lease runs
  out under a call. `EndInv` says that the call under way, a start apart, holds
  the lease (`Turns`), and of every call (`EndOK`) that its copy of the parent is
  the row if the version is, that it is over or a start once the parent has
  ended, and that a start only plans. A start takes no lease and may come late:
  it may note its plan in a parent that has ended, but writes the status it read.
  The assumption is needed: with one id for two calls, TLC finds a cancel that
  ends the parent, and a tick past its checks that reads the row again and ends
  it as `EXPIRED`. Nothing else about the environment is assumed.
* `TwapSchedulerProof!TwapTyped`, `NeverOverExposed`, `OneChildTrades`,
  `EndedLeavesNone`, `CompletedTraded` and `BooksNeverBroken`: `TypeOK`,
  `NoOverExposure`, `OneChild`, `TerminalChildrenDead`, `CompletedMeansTraded` and
  `BooksBalance` for every target, bounds of a slice, deadline, interval and room
  for slices, under `Sober`: one worker, no crash, and a start of a child that
  answers; all other faults may happen (unclear cancels and polls, thin books,
  kill switch, lost connection, closed market, rejected children, operator). The
  instance of `twap_single` is one of these. `BooksNeverBroken` also excludes
  rejected children, of which `MCTwap_reject` shows that they break the books.
  None of the properties is inductive. Their invariant `Books(w)` says that slices,
  children and the call under way belong together:
  - `Parent`, `Rows`, `Children`: every row is typed, at most one slice is live,
    and what the slices are booked with (`Booked`: a slice that has not ended
    counts whole, an ended one with what it was filled with) is at most the
    target;
  - `Linked`: a slice and its child agree in quantity, fill and end, but for the
    one answer of the child that the call holds and has not written;
  - `Call`: the copy of the parent the call works with is the row;
  - `Stage`: what holds at each place of the call. The books are even (booked and
    unscheduled quantities make the target) except between the first write of a
    new plan and its last, after a slice ended short, and on the way to an end;
    there `Stage` says by how much they are off and that the call mends it before
    it looks at them;
  - `Frozen`: a slice that is frozen and not yet sent is the one the call is
    about to send.
  What the planner returns enters through `FitSound`: a rest is split into slices
  that sum up to at most the rest. The assumptions are needed for exposure: after
  a crash, or a start that throws after the child took it (`"throw"`), the slice
  is still PENDING while its child lives, a lost connection drops it, and the
  rest is sent once more.
* `TwapPlanProof!PlanSound` and `FitSound`: whatever the jitter, a plan is the
  whole target in slices within the bounds, at rising times within the window,
  and a rest that is fitted is sound for at most the rest. `TwapPlanProof!PlanExact`
  adds that a plan is made whenever one exists: of the numbers of slices that
  can carry the target the planner takes the largest (`Slices`, by division), the
  even split of the target is within the bounds but for its last slice, whose
  excess the others have room for (`EvenFits`), so one pass of `repair` settles
  it (`SpreadLast`, `EvenPass`) and the further passes change nothing; and a time
  that is late by at most half of an interval leaves room for the next one
  (`NextOnTime`). The repair of a jittered split may fail, and the plan falls back
  to the even one. `PartsProof!PlansExactly` carries this to `PlanIsExact` of the run,
  for every bound and every set of intervals and jitters. A loop of the planner is
  a recursive function on an interval; that it is one follows from a least
  counterexample (`LeastOf`, `Loop`), and what holds across each of its rounds is
  climbed to by `Climb`, so that no induction theorem with an operator as its
  parameter is needed.

* `FirmProof!TypeCorrect` and `KnownKillIsObeyed`: `Spec => []KnownKillBars` for
  any number of processes, reads and calls and every fault. Told is who pulled
  the switch or got its notification; a process that only read the row is not.
  An order may wait for a read that other reads and answers overtake, so `IInv`
  says: the kill that processes were told of is the latest row and nobody is
  undoing it (`RowStands`); a process that was told has no clear cache, and no
  read of the current epoch that was answered otherwise (`Told`); an order that
  came after the news waits for one read, and if that is answered, the answer is
  a kill (`Waits`). The epoch is what makes it inductive: the pull outdates
  every read the process has under way.

The other theorems of `FirmProof` and those of `StoresProof` and `PartsProof`
have the form `SumSpec => P` with a property `P` of the run `parts`. An invariant
of a part is only about behaviours of that part: no step of `SumSpec` changes
`part`, so each proof is about the steps of one component.

* `StoresProof!OneWriterOneChain`: `OneChain` with one process that appends, for
  any number of entries. `AuditInv` says that only the last line can be
  unfinished, and of the writer (`WriterOK`) one of three: it has read up to the
  last whole line and its head is behind no entry, and without a fault is the
  last one (`UpToDate`); or it started on a file that is no sound chain, knows
  nothing and reads it all before it writes; or it took a line without its
  newline for a whole one, and its head is still behind no entry. So a number in
  memory that never came to the disk leaves a gap but no disorder, and so does a
  glued line. That the chain has no gap is claimed while no write or cut failed
  and no such line was adopted; `MCAudit_torn` shows that the last is
  needed, `MCAudit_writers` that one writer is.
* `StoresProof!StoredBarsStay` and `QueriesSee`: `HistoryKeeps` and `QuerySees`
  for any room, period and length of the run, with the two processes of the code,
  crashes and timeouts, as long as a lock is not held for longer than
  `LOCK_STALE_MS` and a process that died stays away (`MCHistory_stale` shows
  what a takeover of a living owner does). `HistoryInv` says that whoever is under
  the lock holds it and is alive, and that a lock is removed only when its owner
  is dead (`Held`); so what a task read under the lock is still in the files when
  it writes (`FilesOK`). While the legacy file is there, the series holds nothing
  else (`Moving`), which lets a migration be interrupted. A bar of the grid is
  final only when its period is over (`Ripe`), so that rows the venue gave while
  a period ran find no final bar to undo (`IncomingOK`). That a bar which has no
  room has none later (`Covered`, `CoveredOn`) rests on counting the younger
  ones: of those, the ones that compaction drops are not needed to fill the room
  (`TopFills`).
* `PartsProof!RevokedSessionsStayOut`: `RevokedStaysOut`, for any lifetimes: a
  logout holds through restarts, the cut of all sessions until the next one. All
  cookies of a session share birth and absolute end (`OneLife`), no cookie is
  dated later than the clock or one tick behind the cut (`Dated`), and the entry
  of a logout lasts as long as the session could (`Barred`). A restart empties
  the cut in the code (`stateRegistry.ts:62`), and the cookies it kept out are
  good again; the history variable of the model is emptied with it, so the
  theorem says nothing of them afterwards.
* `PartsProof!CooldownIsKept` and `DriftLowers`: `CooldownHolds` and
  `DriftOnlyLowers`, for any cooldown longer than zero. `LifeInv` says that the
  cooldown in the row is that of the latest degradation, that a version which
  came to live from below did so after it, and that a drift check on its way
  from LIVE to LIVE_LIMITED finds LIVE or a cooldown that still runs: whoever
  left LIVE meanwhile did so by an edge that cools. With a cooldown of zero a
  version could come back to PAPER and the check would raise it.
* `PartsProof!OnlyLateLinesVanish`: `OnlyExposedVanish` with two drains at once,
  poisoned lines, failing disk and quarantine, and restarts. `SinkInv` says of a
  drain under way: the lines it has passed are handled, and but for what is
  handled or exposed its lines are those of the spool (`DrainOK`), so that the
  spool it writes anew loses nothing else, whatever another drain wrote before.
  The only assumption is that the limit of the spool is a number. `audit_spool`
  shows the entry that is lost.
* `PartsProof!CopyIsIdempotent`: `CopiedOnce` with one engine and a quality record
  that does not fail. `CopyInv` relates the state of a link to its fills
  (`LinkOK`), and the step the engine stands at to both (`JobOK`): it fills only a
  PENDING link without a fill. `MCCopy_two` needs two engines.
* `PartsProof!NobodysCellIsSkipped`: `OnlyLostAreSkipped` for every finite set of
  workers, any number of cells and a store that fails. `ScreenInv` says that the
  cells before the cursor were handled, are at a worker or were lost, and that
  those counted and those still at a worker are together no more than that
  (`CursorOK`, by the cardinality of the busy workers); so the count in the row,
  however the cells finish, reaches no further than the cursor came.
  `screening_gap` shows the cell that is skipped.
* `PartsProof!HeardCacheIsCurrent`: `CacheIsCurrent`, without an assumption, for
  any number of executors. It is not inductive: a snapshot comes from a read
  that lies behind. `RuleInv` says the same of a snapshot that is being read: if
  it was not outdated by a notice, and none is under way or was lost, it is the
  table of now. A notice that arrives between read and end makes it stale, and a
  stale load is thrown away.
* `PartsProof!LimitHolds`: `DailyLimit` with one executor that does not die and
  whose records do not fail; section 4 shows that each is needed. `DailyInv`
  follows a position through the two places that count it: opened, about to be
  recorded, recorded, about to be noted, noted in memory or loaded from the
  table. A load waits until no execution is under way, so it finds everything
  recorded; what was read before midnight counts for nothing after it.
* `FirmProof!OneOpenPosition`: `OnePerSymbol`, for any processes, symbols
  and positions. `AccountInv` says that the holder of the lock has seen the open
  rows it must not double: others may close rows meanwhile but not open any.
* `FirmProof!ProfitBookedOnce`: `ProfitOnce`, with one task per process and
  a commit that does not fail or is taken back (`Capture`). `BookInv` says of
  each process: a position whose profit it booked is gone from its memory,
  unless a younger row of its symbol exists or is being written; a claim is
  decided by the row, so one process stands before the booking of a row that is
  closed. `MCPaper_overlap` breaks it with two tasks of one process.

The `ASSUME`s of `ExecutionWorkflow` (quantity a positive multiple of the step,
the policy's bounds) come from `assertQtyCompliant` and `parseExecutionPolicy`;
those of `LiveGate` only say what the constants are. TLC evaluates them in every
run.

**Only model-checked:** liveness (`KillReaches`, `CancelPhaseEnds`,
`WorkflowSettles`, `ParentEnds`), since fairness and ENABLED are beyond this
prover. Every other property of a passing run is stated by a theorem, but some
theorems assume more than the run does: `OneChild` of `twap_two` is checked
there with two workers of one id, and `NoOverExposure` of `twap_live` with two
workers and a crash, where the theorems have one worker and no crash. With more
crashes or other faults beside them exposure does not hold (section 4), so a
general theorem would have to name the combinations that are harmless.

## 6. Plan

1. `ExecutionWorkflow`, `LiveGate`, `LiveGateContract` and proofs - done.
2. `TwapScheduler` with the planner, over the contract of a child - done.
3. `FirmKillSwitch` and proof - done. `RuleExecutor`, `StrategyLifecycle`,
   `LiveGateAudit`, `PaperLedger`, `CopyEngine`, `AuditSink`, `AuthSession`,
   `ScreeningRun`, `MarketHistory` - done for the operations section 2 names.
4. Theorems: the safety of the controller, the gate and its refinement, the kill
   switch, the TWAP scheduler with its books and its planner, and of the parts the
   gate's log, sessions, lifecycle, audit sink, copy engine, screening, rules,
   paper account and historical store - done. Left: one child at a time for two
   workers, and exposure through one crash without a fault beside it.
5. An instance of `TwapScheduler` with its children replaced by
   `ExecutionWorkflow` itself is beyond TLC at useful bounds; the way there is a
   contract of a workflow, refined by `ExecutionWorkflow`.

## 7. Not modelled

The map names some per cent of the lines. The greater part of the repository is
code in which no model checker has anything to find: of about 210,000 lines the
largest groups are backtests, indicators, statistics, features, signals and
scanners (floating point arithmetic over candles, one caller, no shared state),
views and routes (parsing and rendering), adapters (the wire formats of venues
and feeds), templates, the schema and configuration tables. What remains is what
section 1 lists, and of it these are left out:

* gates, policies, suites, checks, permissions: predicates without state; their
  verdict is a free choice wherever a modelled step asks for it;
* disarm challenges, nonces, four eyes proposals: each runs without an `await`
  between check and use;
* prices, fees, slippage, latency figures: data no property tells apart;
* perpetual data, forecasts, cycles, model routing: one writer whose repeated
  work writes the same rows, or a pipeline without a second actor;
* reconciliation: a comparison of two snapshots; its effect, the pull of the
  switch, is a step of `FirmKillSwitch`;
* language models, which are input.

PROJECT.json gives the reason for each component.

## Running

    tlc -config MCExecution_single.cfg MCExecutionWorkflow
    tlc -config MCLiveGate_one.cfg MCLiveGate
    tlc -config MCTwap_single.cfg MCTwapScheduler
    tlc -config Parts.cfg Parts
    tlapm ExecutionWorkflowProof.tla
    tlapm ExecutionWorkflowSingle.tla
    tlapm LiveGateProof.tla
    tlapm TwapPlanProof.tla
    tlapm TwapSchedulerProof.tla
    tlapm FirmProof.tla
    tlapm StoresProof.tla
    tlapm PartsProof.tla

The configurations no run of PROJECT.json names are run by hand:

| Configurations | Module | Outcome |
|---|---|---|
| `MCExecution_two`, `MCExecution_recover` | `MCExecutionWorkflow` | violated |
| `MCExecution_unknown` | `ExecutionWorkflow` | violated |
| `MCAudit_torn`, `MCAudit_writers` | `LiveGateAudit` | violated |
| `MCLiveGate_remote` | `MCLiveGate` | passes: a kill from the command line, failing writes |
| `MCLiveGate_cli`, `MCLiveGate_clear` | `MCLiveGate` | violated |
| `MCTwap_dead`, `MCTwap_reject`, `MCTwap_resume` | `MCTwapScheduler` | violated |
| `MCPaper_cash`, `MCPaper_overlap` | `MCPaperLedger` | violated |
| `MCCopy_day`, `MCCopy_two` | `CopyEngine` | violated |
| `MCHistory_stale`, `MCHistory_timeout` | `MarketHistory` | violated |
