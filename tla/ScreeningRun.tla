---------------------------- MODULE ScreeningRun ----------------------------
(***************************************************************************)
(* A screening run (screening/runner.ts) over the cells of one matrix,     *)
(* worked off by a bounded number of concurrent workers, and its row and   *)
(* cells in the database (screening/store.ts). A run that was aborted or   *)
(* that died is resumed behind the cells its row says are done.            *)
(*                                                                         *)
(* One process at a time works on the run.                                 *)
(***************************************************************************)
EXTENDS Integers, FiniteSets

CONSTANTS
  Total,    \* cellsTotal
  Workers,  \* concurrency
  Every,    \* SCREENING_PROGRESS_EVERY
  MaxRuns,  \* bound: times the run is started
  Env       \* subset of {"storefail"}: a call of the database may fail

VARIABLES
  row,        \* strategy_screening_runs: status and cells_done
  persisted,  \* cells with a row in strategy_market_results
  given,      \* history: cells without a version, or whose backtest failed
  run,        \* the process: where it is, and runScreening's counters
  work,       \* the cell each worker is at; 0 between cells, -1 behind one
  runs,
  lost        \* history: cells without a row that were counted when their process died, or whose
              \* insert failed

vars == <<row, persisted, given, run, work, runs, lost>>

NoRun == [pc |-> "off", base |-> 0, next |-> 1, done |-> 0, aborted |-> FALSE, failed |-> FALSE]
Idle == [w \in Workers |-> 0]

Init ==
  /\ row = [status |-> "PENDING", done |-> 0]
  /\ persisted = {} /\ given = {} /\ lost = {}
  /\ run = NoRun /\ work = Idle
  /\ runs = 0

-----------------------------------------------------------------------------
(* setRunStatus, under the lock of the row. DONE without all cells throws. *)
GreaterOf(a, b) == IF a >= b THEN a ELSE b
setRunStatus(status, done) ==
  LET most == GreaterOf(row.done, done)
  IN  row' = IF row.status \in {"DONE", "FAILED"} \/ (status = "DONE" /\ most # Total) THEN row
             ELSE [status |-> status, done |-> most]

(* A call of it that fails makes the run a failed one.                     *)
Failed(r) == [r EXCEPT !.failed = TRUE]
Progress(r, done) ==
  \/ setRunStatus("RUNNING", done) /\ run' = r
  \/ "storefail" \in Env /\ row' = row /\ run' = Failed(r)

(* The run is created, or taken up behind its done prefix. Without its     *)
(* first status no cell is taken.                                          *)
Started == [NoRun EXCEPT !.base = row.done, !.next = row.done + 1, !.done = row.done]
Begin ==
  /\ run.pc = "off" /\ runs < MaxRuns
  /\ runs' = runs + 1
  /\ \/ setRunStatus("RUNNING", row.done) /\ run' = [Started EXCEPT !.pc = "cells"]
     \/ "storefail" \in Env /\ row' = row /\ run' = [Failed(Started) EXCEPT !.pc = "flush"]
  /\ UNCHANGED <<persisted, given, work, lost>>

(* Mutant of Left: the cells left at a signal count as done.               *)
LeftCounted(r) == [r EXCEPT !.done = Total, !.aborted = TRUE]

Left(r) == [r EXCEPT !.aborted = TRUE]

(* The next cell of the shared cursor, or the signal: that cell and the    *)
(* ones behind it are left.                                                *)
Take(w) ==
  /\ run.pc = "cells" /\ work[w] = 0 /\ run.next <= Total /\ ~ run.aborted
  /\ \/ /\ work' = [work EXCEPT ![w] = run.next]
        /\ run' = [run EXCEPT !.next = @ + 1]
     \/ /\ run' = Left(run)
        /\ UNCHANGED work
  /\ UNCHANGED <<row, persisted, given, runs, lost>>

Reported(r) == [r EXCEPT !.done = @ + 1]

(* cellsDone += 1, and flushProgress, which writes every few cells.        *)
Count(r) ==
  IF (Reported(r).done - r.base) % Every = 0
    THEN Progress(Reported(r), Reported(r).done)
    ELSE run' = Reported(r) /\ UNCHANGED row

(* The cell is inserted; the failure of that is one of the run.            *)
Persist(w) ==
  /\ work[w] \in 1..Total
  /\ work' = [work EXCEPT ![w] = -1]
  /\ \/ /\ persisted' = persisted \cup {work[w]}
        /\ UNCHANGED <<run, lost>>
     \/ /\ "storefail" \in Env
        /\ run' = Failed(run)
        /\ lost' = lost \cup {work[w]}
        /\ UNCHANGED persisted
  /\ UNCHANGED <<row, given, runs>>

(* No version, or no backtest: a result of the cell, which is not written. *)
GiveUp(w) ==
  /\ work[w] \in 1..Total
  /\ work' = [work EXCEPT ![w] = -1]
  /\ given' = given \cup {work[w]}
  /\ UNCHANGED <<row, persisted, run, runs, lost>>

CellDone(w) ==
  /\ work[w] = -1
  /\ work' = [work EXCEPT ![w] = 0]
  /\ Count(run)
  /\ UNCHANGED <<persisted, given, runs, lost>>

(* All workers returned: the last flush, then the status, whose failure is *)
(* only reported. A signal goes before a failure.                          *)
Over == run.pc = "flush" \/ (run.pc = "cells" /\ work = Idle /\ (run.next > Total \/ run.aborted))
Flush ==
  /\ Over
  /\ Progress([run EXCEPT !.pc = "close"], run.done)
  /\ UNCHANGED <<persisted, given, work, runs, lost>>

Close ==
  /\ run.pc = "close"
  /\ \/ setRunStatus(IF run.aborted THEN "ABORTED" ELSE IF run.failed THEN "FAILED" ELSE "DONE", run.done)
     \/ "storefail" \in Env /\ row' = row
  /\ run' = NoRun
  /\ UNCHANGED <<persisted, given, work, runs, lost>>

InHand == {work[w] : w \in Workers} \cap 1..Total

Crash ==
  /\ run.pc # "off"
  /\ run' = NoRun /\ work' = Idle
  /\ lost' = lost \cup (InHand \cap 1..row.done)
  /\ UNCHANGED <<row, persisted, given, runs>>

Next ==
  \/ Begin \/ Flush \/ Close \/ Crash
  \/ \E w \in Workers : Take(w) \/ Persist(w) \/ GiveUp(w) \/ CellDone(w)

Spec == Init /\ [][Next]_vars

-----------------------------------------------------------------------------
(* runner.ts:54 "cells_done ist der zusammenhängende erledigte Prefix der  *)
(* stabilen Matrixreihenfolge": every cell a resumed run will skip has its *)
(* row or has failed as a cell, so a run that is DONE has no hole.         *)
PrefixIsDone == 1..row.done \subseteq persisted \cup given

(* What the row counts can be no more than that: the cells before its      *)
(* count have been handled, are at a worker now, or were at one when the   *)
(* process died or the insert failed. A cell nobody took is not skipped.   *)
OnlyLostAreSkipped == 1..row.done \subseteq persisted \cup given \cup InHand \cup lost
=============================================================================
