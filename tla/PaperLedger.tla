---------------------------- MODULE PaperLedger ----------------------------
(***************************************************************************)
(* The paper account shared by several processes: the table positions,     *)
(* and in each process the PaperBroker with its cash and its copy of the   *)
(* open positions (broker.ts, brokerHydration.ts). Tasks run concurrently, *)
(* also within a process: an order of the engine or the executor, a tick   *)
(* of the monitor that closes a position (applyExit), the flattening of    *)
(* all by the kill switch (flattenAll). Each begins with a sync of the     *)
(* broker with the table.                                                  *)
(*                                                                         *)
(* Every position costs one; of its profit only the booking is kept. The   *)
(* other gates of an order, and the condition of an exit, are free.        *)
(***************************************************************************)
EXTENDS Integers, FiniteSets

CONSTANTS
  Tasks, Procs,
  ProcOf,       \* the process a task runs in
  Symbols,
  Start,        \* startEquity
  MaxOpen,      \* RISK_LIMITS.maxConcurrentPositions
  Capture,      \* qualityEnabled()
  MaxRows,      \* bound: positions opened
  MaxRestarts,  \* bound
  KindsOf,      \* subset of {"order", "tick", "flatten"}: what a task does
  Env           \* subset of {"commitfail"}

Rows == 1..MaxRows

VARIABLES
  rows,      \* positions: symbol and status of each row, in order of creation
  lock,      \* the task that holds the advisory lock of the account, or "none"
  broker,    \* the PaperBroker of each process
  task,      \* what each task is doing
  snapshot,  \* equity_snapshots: the last cash, or -1
  booked,    \* history: how often a process booked the profit of a row
  exits,     \* history: how often applyExit closed a row
  restarts

vars == <<rows, lock, broker, task, snapshot, booked, exits, restarts>>

NoRow == [symbol |-> "none", status |-> "none"]
EmptyBroker == [held |-> {}, cash |-> Start, hydrated |-> FALSE]
NoTask == [pc |-> "idle", kind |-> "none", symbol |-> "none", row |-> 0, symbols |-> {}]

Init ==
  /\ rows = [r \in Rows |-> NoRow]
  /\ lock = "none"
  /\ broker = [p \in Procs |-> EmptyBroker]
  /\ task = [t \in Tasks |-> NoTask]
  /\ snapshot = -1
  /\ booked = [p \in Procs |-> [r \in Rows |-> 0]]
  /\ exits = [r \in Rows |-> 0]
  /\ restarts = 0

-----------------------------------------------------------------------------
Open == {r \in Rows : rows[r].status = "OPEN"}
OpenSymbols == {rows[r].symbol : r \in Open}
ClosedRows(s) == {r \in Rows : rows[r] = [symbol |-> s, status |-> "CLOSED"]}
LatestClosed(ss) == {CHOOSE r \in ClosedRows(s) : \A q \in ClosedRows(s) : q <= r : s \in {s \in ss : ClosedRows(s) # {}}}

At(t, pc) == task[t].pc = pc
Go(t, pc) == task' = [task EXCEPT ![t].pc = pc]
Done(t) == task' = [task EXCEPT ![t] = NoTask]
BookedBy(p, rs) == [booked EXCEPT ![p] = [r \in Rows |-> @[r] + (IF r \in rs THEN 1 ELSE 0)]]
ClosedIn(rs) == [r \in Rows |-> IF r \in rs THEN [rows[r] EXCEPT !.status = "CLOSED"] ELSE rows[r]]

Begin(t) ==
  /\ At(t, "idle")
  /\ \E kind \in KindsOf[t], s \in Symbols :
       task' = [task EXCEPT ![t] = [NoTask EXCEPT !.pc = "sync", !.kind = kind, !.symbol = s]]
  /\ UNCHANGED <<rows, lock, broker, snapshot, booked, exits, restarts>>

(* syncPaperBrokerWithDb, under the lock: the open rows are read, ...      *)
SyncRead(t) ==
  /\ At(t, "sync") /\ lock = "none"
  /\ lock' = t
  /\ task' = [task EXCEPT ![t].pc = "reconcile", ![t].symbols = OpenSymbols]
  /\ UNCHANGED <<rows, broker, snapshot, booked, exits, restarts>>

After(kind) == IF kind = "order" THEN "submit" ELSE IF kind = "tick" THEN "list" ELSE "closeAll"

(* ... and the broker takes them over: what it does not hold is adopted,   *)
(* what is no longer open is dropped, with the profit of the last row of   *)
(* the symbol that was closed. A fresh process takes cash from a snapshot. *)
Reconciled(b, seen) ==
  [held |-> seen, hydrated |-> TRUE,
   cash |-> IF b.hydrated \/ b.held # {} THEN b.cash + Cardinality(b.held \ seen) - Cardinality(seen \ b.held)
            ELSE IF snapshot # -1 THEN snapshot
            ELSE Start - Cardinality(seen)]

Reconcile(t) ==
  LET p == ProcOf[t]
      seen == task[t].symbols
  IN /\ At(t, "reconcile")
     /\ lock' = "none"
     /\ broker' = [broker EXCEPT ![p] = Reconciled(@, seen)]
     /\ booked' = BookedBy(p, LatestClosed(broker[p].held \ seen))
     /\ Go(t, After(task[t].kind))
     /\ UNCHANGED <<rows, snapshot, exits, restarts>>

-----------------------------------------------------------------------------
(* Mutant of OpenInDb: only the memory of the process is asked.            *)
OpenInDbUnread(s) == FALSE

OpenInDb(s) == s \in OpenSymbols

Guard(b, s) == s \notin b.held /\ Cardinality(b.held) < MaxOpen /\ b.cash >= 1

(* submitAtomic: under the lock the table is asked for the symbol, then    *)
(* the guards of the process, and the fill changes its memory at once ...  *)
Submit(t) ==
  LET p == ProcOf[t]
      s == task[t].symbol
  IN /\ At(t, "submit") /\ lock = "none"
     /\ \/ /\ ~ OpenInDb(s) /\ Guard(broker[p], s)
           /\ lock' = t
           /\ broker' = [broker EXCEPT ![p].held = @ \cup {s}, ![p].cash = @ - 1]
           /\ Go(t, "commit")
        \/ Done(t) /\ UNCHANGED <<lock, broker>>
     /\ UNCHANGED <<rows, snapshot, booked, exits, restarts>>

(* ... then the row is written and the transaction ends. If it fails, the  *)
(* fill is taken back only where the execution quality is captured.        *)
NextRow == {r \in Rows : rows[r] = NoRow /\ \A q \in 1..(r - 1) : rows[q] # NoRow}

Commit(t) ==
  LET p == ProcOf[t]
      s == task[t].symbol
  IN /\ At(t, "commit")
     /\ lock' = "none"
     /\ \/ /\ \E r \in NextRow : rows' = [rows EXCEPT ![r] = [symbol |-> s, status |-> "OPEN"]]
           /\ Go(t, "snap")
           /\ UNCHANGED broker
        \/ /\ "commitfail" \in Env
           /\ broker' = IF Capture /\ s \in broker[p].held
                        THEN [broker EXCEPT ![p].held = @ \ {s}, ![p].cash = @ + 1]
                        ELSE broker
           /\ Done(t)
           /\ UNCHANGED rows
     /\ UNCHANGED <<snapshot, booked, exits, restarts>>

-----------------------------------------------------------------------------
(* The monitor reads the open rows, and one of them is to be closed.       *)
List(t) ==
  /\ At(t, "list")
  /\ \/ \E r \in Open : task' = [task EXCEPT ![t].pc = "claim", ![t].row = r]
     \/ Done(t)
  /\ UNCHANGED <<rows, lock, broker, snapshot, booked, exits, restarts>>

(* Mutant of Claimable: the update does not ask for the status.            *)
ClaimableAny(r) == TRUE

Claimable(r) == rows[r].status = "OPEN"

(* applyExit: the claim is an update of the row while it is open, without  *)
(* the lock; whoever gets the row books its profit.                        *)
Claim(t) ==
  LET r == task[t].row
  IN /\ At(t, "claim")
     /\ \/ Claimable(r) /\ rows' = ClosedIn({r}) /\ Go(t, "book")
        \/ ~ Claimable(r) /\ Done(t) /\ UNCHANGED rows
     /\ UNCHANGED <<lock, broker, snapshot, booked, exits, restarts>>

Dropped(b, ss) == [b EXCEPT !.held = b.held \ ss, !.cash = b.cash + Cardinality(b.held \cap ss)]

Book(t) ==
  LET p == ProcOf[t]
      r == task[t].row
  IN /\ At(t, "book")
     /\ broker' = [broker EXCEPT ![p] = Dropped(@, {rows[r].symbol})]
     /\ booked' = BookedBy(p, {r})
     /\ exits' = [exits EXCEPT ![r] = @ + 1]
     /\ Go(t, "snap")
     /\ UNCHANGED <<rows, lock, snapshot, restarts>>

(* flattenAll: the memory is emptied, then the rows follow by symbol.      *)
CloseAll(t) ==
  LET p == ProcOf[t]
      held == broker[p].held
  IN /\ At(t, "closeAll")
     /\ broker' = [broker EXCEPT ![p] = Dropped(@, held)]
     /\ booked' = BookedBy(p, {r \in Open : rows[r].symbol \in held})
     /\ task' = [task EXCEPT ![t].pc = "flat", ![t].symbols = held]
     /\ UNCHANGED <<rows, lock, snapshot, exits, restarts>>

Flat(t) ==
  /\ At(t, "flat")
  /\ \/ \E s \in task[t].symbols :
          /\ rows' = ClosedIn({r \in Open : rows[r].symbol = s})
          /\ task' = [task EXCEPT ![t].symbols = @ \ {s}]
     \/ task[t].symbols = {} /\ Go(t, "snap") /\ UNCHANGED rows
  /\ UNCHANGED <<lock, broker, snapshot, booked, exits, restarts>>

WriteSnapshot(t) ==
  /\ At(t, "snap")
  /\ snapshot' = broker[ProcOf[t]].cash
  /\ Done(t)
  /\ UNCHANGED <<rows, lock, broker, booked, exits, restarts>>

Restart(p) ==
  LET own == {t \in Tasks : ProcOf[t] = p}
  IN /\ restarts < MaxRestarts
     /\ restarts' = restarts + 1
     /\ broker' = [broker EXCEPT ![p] = EmptyBroker]
     /\ booked' = [booked EXCEPT ![p] = [r \in Rows |-> 0]]
     /\ task' = [t \in Tasks |-> IF t \in own THEN NoTask ELSE task[t]]
     /\ lock' = IF lock \in own THEN "none" ELSE lock
     /\ UNCHANGED <<rows, snapshot, exits>>

Next ==
  \/ \E t \in Tasks :
       \/ Begin(t) \/ SyncRead(t) \/ Reconcile(t) \/ Submit(t) \/ Commit(t)
       \/ List(t) \/ Claim(t) \/ Book(t) \/ CloseAll(t) \/ Flat(t) \/ WriteSnapshot(t)
  \/ \E p \in Procs : Restart(p)

Spec == Init /\ [][Next]_vars

-----------------------------------------------------------------------------
(* Properties *)

(* No two processes open the same symbol, whatever their memories say.     *)
OnePerSymbol == \A q, r \in Open : rows[q].symbol = rows[r].symbol => q = r

(* Of all exits of a position one takes effect, and no process books its   *)
(* profit twice, though a sync, an exit and a flattening each may find it. *)
ProfitOnce == \A r \in Rows : exits[r] <= 1 /\ \A p \in Procs : booked[p][r] <= 1

(* The open positions of all processes are covered by the one account.     *)
CashCovers == Cardinality(Open) <= Start
=============================================================================
