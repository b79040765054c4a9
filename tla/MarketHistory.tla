---------------------------- MODULE MarketHistory ----------------------------
(***************************************************************************)
(* One series of the historical store (lib/marketdata/historicalStore.ts)  *)
(* as its processes use it: the market data sync (marketdata/sync.ts), the *)
(* snapshots that the market data manager appends (lib/marketdata/         *)
(* manager.ts), and queries. Operations of the store are synchronous, so a *)
(* process does one at a time; the file operations of two processes        *)
(* interleave.                                                             *)
(*                                                                         *)
(* A candle is keyed by its time. Of its content a bar keeps whether its   *)
(* period was over when it was fetched, and the stamp of its append        *)
(* (fetchedAt, read before the lock is taken). Two syncs have different    *)
(* stamps, a snapshot has the first one always, since no other bar is at   *)
(* its time. The create of the lock file and the write of its owner are one  *)
(* step, and so are the two reads of a migration.                          *)
(***************************************************************************)
EXTENDS Integers, FiniteSets

CONSTANTS
  Procs,
  Syncers,     \* those that sync; the others append snapshots and query
  Period,      \* SUPPORTED_TIMEFRAME_MS in ticks
  Limit,       \* candleLimit
  Keep,        \* maxBarsPerSeries
  MaxTime,     \* bound
  MaxAppends,  \* bound
  MaxCrashes,  \* bound
  Env          \* subset of {"timeout", "stall", "restart"}

VARIABLES
  now,
  series,   \* the partition file: the bar at each time
  legacy,   \* candles.ndjson: whether it is there, and its bars
  lock,     \* .store.lock, or NoLock
  task,     \* what each process is doing
  appends,  \* the last stamp
  crashes

vars == <<now, series, legacy, lock, task, appends, crashes>>

Times == 0 .. MaxTime
NoBar == [at |-> 0, final |-> FALSE]
NoBars == [k \in Times |-> NoBar]
Keys(bars) == {k \in Times : bars[k] # NoBar}
NoLock == [by |-> "none", dead |-> FALSE, old |-> FALSE]
Idle == [pc |-> "idle", kind |-> "none", late |-> FALSE, rows |-> NoBars, buf |-> NoBars, got |-> {}, due |-> {}]
Dead == [Idle EXCEPT !.pc = "dead"]

(* The legacy file holds the bar of time 0, final or not; where it was     *)
(* migrated before, the series holds it.                                   *)
Init ==
  /\ now = Period
  /\ \E final \in BOOLEAN, there \in BOOLEAN :
       LET old == [NoBars EXCEPT ![0] = [at |-> 1, final |-> final]]
       IN /\ legacy = [there |-> there, bars |-> old]
          /\ series = IF there THEN NoBars ELSE old
  /\ lock = NoLock
  /\ task = [t \in Procs |-> Idle]
  /\ appends = 1
  /\ crashes = 0

-----------------------------------------------------------------------------
At(t, pc) == task[t].pc = pc
Go(t, pc) == task' = [task EXCEPT ![t].pc = pc]
Reads(t) == task[t].kind \in {"sync", "query"}

(* Where a task goes on once it let the lock go, or (late) did not get it: *)
(* a failed migration or a timeout fails an append, not a read.            *)
After(t, late) ==
  task' = [task EXCEPT ![t] = IF Reads(t) THEN [@ EXCEPT !.pc = "scan", !.late = late] ELSE Idle]

(* The younger stamp wins a collision, the incoming bar a tie.             *)
mergeEntries(existing, incoming) ==
  [k \in Times |-> IF incoming[k] # NoBar /\ incoming[k].at >= existing[k].at THEN incoming[k] ELSE existing[k]]

Above(k, keys) == Cardinality({u \in keys : u > k})
compactSeries(bars) == [k \in Times |-> IF Above(k, Keys(bars)) >= Keep THEN NoBar ELSE bars[k]]

Stored == IF legacy.there THEN Keys(series) \cup Keys(legacy.bars) ELSE Keys(series)

-----------------------------------------------------------------------------
(* The lock *)

Take(t) ==
  /\ At(t, "acquire") /\ lock = NoLock
  /\ lock' = [NoLock EXCEPT !.by = t]
  /\ Go(t, "inside")
  /\ UNCHANGED <<now, series, legacy, appends, crashes>>

(* Mutant of isStaleLock: the owner of a lock is never found alive.        *)
isStaleLockAlways == lock # NoLock

isStaleLock == lock # NoLock /\ (lock.dead \/ lock.old)

Judge(t) ==
  /\ At(t, "acquire") /\ isStaleLock
  /\ Go(t, "remove")
  /\ UNCHANGED <<now, series, legacy, lock, appends, crashes>>

(* Whatever lock is there by now. *)
Remove(t) ==
  /\ At(t, "remove")
  /\ lock' = NoLock
  /\ Go(t, "acquire")
  /\ UNCHANGED <<now, series, legacy, appends, crashes>>

Timeout(t) ==
  /\ "timeout" \in Env
  /\ At(t, "acquire") /\ lock # NoLock /\ ~ isStaleLock
  /\ After(t, TRUE)
  /\ UNCHANGED <<now, series, legacy, lock, appends, crashes>>

(* The lock of another owner is left alone; the look and the removal are   *)
(* two file operations.                                                    *)
Release(t) ==
  /\ At(t, "release")
  /\ IF lock # NoLock /\ (lock.by # t \/ lock.dead) THEN After(t, FALSE) ELSE Go(t, "unlink")
  /\ UNCHANGED <<now, series, legacy, lock, appends, crashes>>

Unlink(t) ==
  /\ At(t, "unlink")
  /\ lock' = NoLock
  /\ After(t, FALSE)
  /\ UNCHANGED <<now, series, legacy, appends, crashes>>

-----------------------------------------------------------------------------
(* Under the lock: the legacy file first, then the rows of an append. A    *)
(* file is replaced by a rename.                                           *)

Inside(t) ==
  /\ At(t, "inside")
  /\ task' = [task EXCEPT ![t].pc = IF legacy.there THEN "migrate" ELSE IF Reads(t) THEN "release" ELSE "merge"]
  /\ UNCHANGED <<now, series, legacy, lock, appends, crashes>>

(* The migration merges the legacy file into the partition, ... *)
Migrate(t) ==
  /\ At(t, "migrate")
  /\ IF legacy.there
     THEN task' = [task EXCEPT ![t].pc = "replace", ![t].buf = compactSeries(mergeEntries(series, legacy.bars))]
     ELSE Go(t, "release")
  /\ UNCHANGED <<now, series, legacy, lock, appends, crashes>>

Replace(t) ==
  /\ At(t, "replace")
  /\ series' = task[t].buf
  /\ Go(t, "rename")
  /\ UNCHANGED <<now, legacy, lock, appends, crashes>>

(* ... and renames it; a file that is gone is an error. *)
Rename(t) ==
  /\ At(t, "rename")
  /\ legacy' = [legacy EXCEPT !.there = FALSE]
  /\ Go(t, IF legacy.there /\ ~ Reads(t) THEN "merge" ELSE "release")
  /\ UNCHANGED <<now, series, lock, appends, crashes>>

Merge(t) ==
  /\ At(t, "merge")
  /\ LET merged == compactSeries(mergeEntries(series, task[t].rows))
     IN task' = [task EXCEPT ![t].pc = IF merged = series THEN "release" ELSE "write", ![t].buf = merged]
  /\ UNCHANGED <<now, series, legacy, lock, appends, crashes>>

Write(t) ==
  /\ At(t, "write")
  /\ series' = task[t].buf
  /\ Go(t, "release")
  /\ UNCHANGED <<now, legacy, lock, appends, crashes>>

-----------------------------------------------------------------------------
(* Reads: a migration first, as far as the lock can be had. *)

(* Mutant of FirstStep: a read leaves the migration to the next append.    *)
FirstStepScan == "scan"

FirstStep == IF legacy.there THEN "acquire" ELSE "scan"

Query(t) ==
  /\ At(t, "idle") /\ t \notin Syncers
  /\ task' = [task EXCEPT ![t] = [Idle EXCEPT !.pc = FirstStep, !.kind = "query", !.due = Stored]]
  /\ UNCHANGED <<now, series, legacy, lock, appends, crashes>>

Sync(t) ==
  /\ At(t, "idle") /\ t \in Syncers
  /\ task' = [task EXCEPT ![t] = [Idle EXCEPT !.pc = FirstStep, !.kind = "sync"]]
  /\ UNCHANGED <<now, series, legacy, lock, appends, crashes>>

ScanSeries(t) ==
  /\ At(t, "scan")
  /\ task' = [task EXCEPT ![t].pc = "legacy", ![t].got = Keys(series)]
  /\ UNCHANGED <<now, series, legacy, lock, appends, crashes>>

ScanLegacy(t) ==
  /\ At(t, "legacy")
  /\ task' = [task EXCEPT ![t].pc = IF task[t].kind = "sync" THEN "plan" ELSE "answered",
                          ![t].got = IF legacy.there THEN @ \cup Keys(legacy.bars) ELSE @]
  /\ UNCHANGED <<now, series, legacy, lock, appends, crashes>>

Answered(t) ==
  /\ task[t].pc \in {"answered", "fresh"}
  /\ task' = [task EXCEPT ![t] = Idle]
  /\ UNCHANGED <<now, series, legacy, lock, appends, crashes>>

-----------------------------------------------------------------------------
(* The sync: a series that holds the bar of the running period is not      *)
(* fetched; else the venue answers its latest bars, the last one forming.  *)

Floor(time) == (time \div Period) * Period
Grid == {k \in Times : k = Floor(k) /\ k <= now}
Latest == {k \in Grid : Above(k, Grid) < Limit}

Plan(t) ==
  /\ At(t, "plan")
  /\ task' = [task EXCEPT ![t].pc = IF \E k \in task[t].got : k >= Floor(now) THEN "fresh" ELSE "fetch",
                          ![t].due = {Floor(now)}]
  /\ UNCHANGED <<now, series, legacy, lock, appends, crashes>>

Fetch(t) ==
  /\ At(t, "fetch")
  /\ task' = [task EXCEPT ![t].pc = "append", ![t].kind = "append",
        ![t].rows = [k \in Times |-> [NoBar EXCEPT !.at = IF k \in Latest THEN 1 ELSE 0,
                                                  !.final = k \in Latest /\ k + Period <= now]]]
  /\ UNCHANGED <<now, series, legacy, lock, appends, crashes>>

(* appendSeries before the lock: every row gets the stamp.                 *)
Stamped(rows) == [k \in Times |-> IF rows[k] = NoBar THEN NoBar ELSE [rows[k] EXCEPT !.at = appends + 1]]

appendSeries(t) ==
  /\ At(t, "append") /\ appends < MaxAppends
  /\ appends' = appends + 1
  /\ task' = [task EXCEPT ![t].pc = "acquire", ![t].rows = Stamped(@)]
  /\ UNCHANGED <<now, series, legacy, lock, crashes>>

(* The manager appends a snapshot as a candle of one tick, at its time,    *)
(* which is none of the grid. Its stamp is that time, so that two bars of  *)
(* one snapshot tie.                                                       *)
getSnapshot(t) ==
  /\ At(t, "idle") /\ t \notin Syncers /\ now # Floor(now)
  /\ task' = [task EXCEPT ![t] = [Idle EXCEPT !.pc = "acquire", !.kind = "append",
                                             !.rows[now] = [at |-> 1, final |-> TRUE]]]
  /\ UNCHANGED <<now, series, legacy, lock, appends, crashes>>

-----------------------------------------------------------------------------
Tick ==
  /\ now < MaxTime
  /\ now' = now + 1
  /\ UNCHANGED <<series, legacy, lock, task, appends, crashes>>

(* A lock is held for longer than LOCK_STALE_MS. *)
Age ==
  /\ "stall" \in Env /\ lock # NoLock /\ ~ lock.old
  /\ lock' = [lock EXCEPT !.old = TRUE]
  /\ UNCHANGED <<now, series, legacy, task, appends, crashes>>

Crash(t) ==
  /\ crashes < MaxCrashes /\ task[t].pc \notin {"idle", "dead"}
  /\ crashes' = crashes + 1
  /\ task' = [task EXCEPT ![t] = Dead]
  /\ lock' = IF lock.by = t THEN [lock EXCEPT !.dead = TRUE] ELSE lock
  /\ UNCHANGED <<now, series, legacy, appends>>

Restart(t) ==
  /\ "restart" \in Env /\ At(t, "dead")
  /\ task' = [task EXCEPT ![t] = Idle]
  /\ UNCHANGED <<now, series, legacy, lock, appends, crashes>>

Locking(t) == Take(t) \/ Judge(t) \/ Remove(t) \/ Timeout(t) \/ Release(t) \/ Unlink(t)
Merging(t) == Inside(t) \/ Migrate(t) \/ Replace(t) \/ Rename(t) \/ Merge(t) \/ Write(t)
Reading(t) == Query(t) \/ ScanSeries(t) \/ ScanLegacy(t) \/ Answered(t)
Syncing(t) == Sync(t) \/ Plan(t) \/ Fetch(t) \/ appendSeries(t) \/ getSnapshot(t)

Next ==
  \/ \E t \in Procs : Locking(t) \/ Merging(t) \/ Reading(t) \/ Syncing(t) \/ Crash(t) \/ Restart(t)
  \/ Tick \/ Age

Spec == Init /\ [][Next]_vars

-----------------------------------------------------------------------------
(* Properties *)

BarAt(k) == IF series[k] # NoBar THEN series[k] ELSE IF legacy.there THEN legacy.bars[k] ELSE NoBar

(* A stored bar stays, and a final one stays final, until the series has   *)
(* no room for it: no append and no migration loses the update of another  *)
(* process (the lock of the store, writeSeriesFile).                       *)
BarsStay ==
  \A k \in Stored :
    \/ k \in Stored' /\ (BarAt(k).final => BarAt(k).final')
    \/ Cardinality({u \in Stored' : u > k}) >= Keep

HistoryKeeps == [][BarsStay]_vars

Sees(t) == \A k \in task[t].due : k \in task[t].got \/ Above(k, task[t].got) >= Keep

(* A query answers what was stored when it began, although a migration     *)
(* moves the bars from one file to the other meanwhile, unless it gave up  *)
(* its own migration (query, migrateLegacyForRead).                        *)
QuerySees == \A t \in Procs : At(t, "answered") /\ ~ task[t].late => Sees(t)

(* The same for every query: one that did not get the lock reads the       *)
(* partition before the migration of another process writes it, and looks  *)
(* for the legacy file after that process renamed it.                      *)
EveryQuerySees == \A t \in Procs : At(t, "answered") => Sees(t)

(* A series that the sync calls fresh holds the bar of the running period  *)
(* (syncInstrumentWithEnrichment). A snapshot of the period is not the bar. *)
FreshHoldsBar == \A t \in Procs : At(t, "fresh") => task[t].due \subseteq task[t].got
=============================================================================
