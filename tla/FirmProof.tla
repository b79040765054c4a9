----------------------------- MODULE FirmProof ------------------------------
(***************************************************************************)
(* Proofs about the two things all processes of the firm share, for every  *)
(* value of the constants. The paper account: two open rows never have one *)
(* symbol, and a profit is booked once. The first needs the rows, the lock *)
(* and what its holder has seen (AccountInv); the second also what every   *)
(* process holds and has booked (BookInv). The kill switch: no order       *)
(* passes the gate of a process that was told of a kill.                   *)
(***************************************************************************)
EXTENDS Parts, FiniteSetTheorems, NaturalsInduction, WellFoundedInduction, TLAPS

-----------------------------------------------------------------------------
(* The paper account: x1 the rows, x2 the lock, x3 the brokers, x4 the     *)
(* tasks, x6 and x7 the histories of bookings and exits.                   *)
OpenRow(r) == x1[r].status = "OPEN"
Used(r) == x1[r].status # "none"

(* Rows are created in their order, and a row is only opened when no other *)
(* of its symbol is open: an open row is the newest of its symbol.         *)
RowOK(x) ==
  /\ x = [symbol |-> x.symbol, status |-> x.status]
  /\ x.status \in {"OPEN", "CLOSED"} \/ x = Paper!NoRow

RowsOK ==
  /\ DOMAIN x1 = Paper!Rows
  /\ \A r \in Paper!Rows : RowOK(x1[r])
  /\ \A q, r \in Paper!Rows : q < r /\ Used(r) => Used(q)
  /\ \A q, r \in Paper!Rows : OpenRow(q) /\ Used(r) /\ x1[r].symbol = x1[q].symbol => r <= q

TaskFields == {"pc", "kind", "symbol", "row", "symbols"}

(* Whoever is about to open a row holds the lock, and the symbol stays     *)
(* free until it does.                                                     *)
AccountInv ==
  /\ RowsOK
  /\ DOMAIN x4 = Brokers /\ \A t \in Brokers : DOMAIN x4[t] = TaskFields
  /\ \A t \in Brokers : x4[t].pc \in {"reconcile", "commit"} => x2 = t
  /\ \A t \in Brokers : x4[t].pc = "commit" => \A r \in Paper!Rows : OpenRow(r) => x1[r].symbol # x4[t].symbol

(* What a step may do to the rows.                                         *)
Closed(r) == [x1[r] EXCEPT !.status = "CLOSED"]
Closes ==
  /\ DOMAIN x1' = Paper!Rows
  /\ \A r \in Paper!Rows : x1'[r] = x1[r] \/ (OpenRow(r) /\ x1'[r] = Closed(r))
Opens(s) ==
  \E r \in Paper!Rows :
    /\ ~ Used(r) /\ \A q \in Paper!Rows : q < r => Used(q)
    /\ x1' = [x1 EXCEPT ![r] = [symbol |-> s, status |-> "OPEN"]]

(* A row that is closed leaves the others as they are.                     *)
LEMMA ClosesOK ==
  ASSUME RowsOK, Closes
  PROVE  /\ RowsOK'
         /\ \A r \in Paper!Rows : x1'[r].symbol = x1[r].symbol /\ (OpenRow(r)' => OpenRow(r)) /\ (Used(r)' <=> Used(r))
<1>1. \A r \in Paper!Rows : /\ x1'[r].symbol = x1[r].symbol /\ (OpenRow(r)' => OpenRow(r)) /\ (Used(r)' <=> Used(r))
                            /\ RowOK(x1'[r])
  <2> SUFFICES ASSUME NEW r \in Paper!Rows, OpenRow(r), x1'[r] = Closed(r)
               PROVE  x1'[r] = [symbol |-> x1[r].symbol, status |-> "CLOSED"]
    BY DEF RowsOK, RowOK, Closes, OpenRow, Used
  <2> QED BY DEF Closed, RowsOK, RowOK
<1> QED BY <1>1 DEF RowsOK, Closes

(* A row that is opened has a symbol no open row has.                      *)
LEMMA OpensOK ==
  ASSUME RowsOK, MaxRows \in Nat, NEW s, Opens(s), \A r \in Paper!Rows : OpenRow(r) => x1[r].symbol # s
  PROVE  /\ RowsOK'
         /\ \E n \in Paper!Rows :
              /\ ~ Used(n) /\ Used(n)' /\ OpenRow(n)' /\ x1'[n].symbol = s
              /\ \A r \in Paper!Rows : Used(r) => r < n /\ x1'[r] = x1[r]
<1>1. PICK n \in Paper!Rows : /\ ~ Used(n) /\ \A q \in Paper!Rows : q < n => Used(q)
                              /\ x1' = [x1 EXCEPT ![n] = [symbol |-> s, status |-> "OPEN"]]
  BY DEF Opens
<1>2. \A r \in Paper!Rows : r \in Int
  BY DEF Paper!Rows
<1>3. Used(n)' /\ OpenRow(n)' /\ x1'[n].symbol = s /\ RowOK(x1'[n]) /\ DOMAIN x1' = Paper!Rows
  BY <1>1 DEF RowsOK, RowOK, Used, OpenRow
<1>4. \A r \in Paper!Rows : r # n => x1'[r] = x1[r]
  BY <1>1 DEF RowsOK
<1>5. \A r \in Paper!Rows : Used(r) => r < n
  BY <1>1, <1>2 DEF RowsOK
<1>6. \A r \in Paper!Rows : r # n => (Used(r)' <=> Used(r)) /\ (OpenRow(r)' <=> OpenRow(r))
  BY <1>4 DEF Used, OpenRow
<1>7. RowsOK'
  <2>1. \A r \in Paper!Rows : RowOK(x1'[r])
    BY <1>3, <1>4, <1>6 DEF RowsOK
  <2>2. \A q, r \in Paper!Rows : q < r /\ Used(r)' => Used(q)'
    BY <1>1, <1>2, <1>3, <1>5, <1>6 DEF RowsOK
  <2>3. ASSUME NEW q \in Paper!Rows, NEW r \in Paper!Rows, OpenRow(q)', Used(r)', x1'[r].symbol = x1'[q].symbol
        PROVE  r <= q
    <3>1. CASE q = n
      BY <1>2, <1>5, <1>6, <2>3, <3>1
    <3>2. CASE q # n /\ r = n
      BY <1>3, <1>4, <1>6, <2>3, <3>2
    <3>3. CASE q # n /\ r # n
      BY <1>4, <1>6, <2>3, <3>3 DEF RowsOK
    <3> QED BY <3>1, <3>2, <3>3
  <2> QED BY <1>3, <2>1, <2>2, <2>3 DEF RowsOK
<1> QED BY <1>1, <1>3, <1>4, <1>5, <1>7

(* A step of one task, as far as rows and lock are concerned.              *)
LEMMA AccountKeeps ==
  ASSUME AccountInv, MaxRows \in Nat, NEW t \in Brokers, NEW l, DOMAIN l = TaskFields,
         x4' = [x4 EXCEPT ![t] = l],
         x2' = x2 \/ x2 \in {"none", t}, "none" \notin Brokers,
         l.pc \in {"reconcile", "commit"} => x2' = t,
         l.pc = "commit" => \A r \in Paper!Rows : OpenRow(r) => x1[r].symbol # l.symbol,
         Closes \/ (x4[t].pc = "commit" /\ Opens(x4[t].symbol) /\ l.pc = "snap")
  PROVE  AccountInv'
<1>1. DOMAIN x4' = Brokers /\ x4'[t] = l /\ \A u \in Brokers : u # t => x4'[u] = x4[u]
  BY DEF AccountInv
<1>2. \A u \in Brokers : DOMAIN x4'[u] = TaskFields
  BY <1>1 DEF AccountInv
<1>3. \A u \in Brokers : x4'[u].pc \in {"reconcile", "commit"} => x2' = u
  BY <1>1 DEF AccountInv
<1>4. CASE Closes
  <2>1. RowsOK' /\ \A r \in Paper!Rows : x1'[r].symbol = x1[r].symbol /\ (OpenRow(r)' => OpenRow(r))
    BY <1>4, ClosesOK DEF AccountInv
  <2> QED BY <1>1, <1>2, <1>3, <2>1 DEF AccountInv
<1>5. CASE x4[t].pc = "commit" /\ Opens(x4[t].symbol) /\ l.pc = "snap"
  <2>1. RowsOK'
    BY <1>5, OpensOK DEF AccountInv
  <2>2. \A u \in Brokers : x4'[u].pc # "commit"
    BY <1>1, <1>5 DEF AccountInv
  <2> QED BY <1>1, <1>2, <1>3, <2>1, <2>2 DEF AccountInv
<1> QED BY <1>4, <1>5

(* Exits and flattening only close rows that are open.                     *)
LEMMA ClosedInCloses ==
  ASSUME RowsOK, NEW rs, x1' = Paper!ClosedIn(rs), \A r \in rs : r \in Paper!Rows /\ OpenRow(r)
  PROVE  Closes
BY DEF Paper!ClosedIn, Closes, Closed, RowsOK

PaperPart == AccountInv /\ MaxRows \in Nat /\ "none" \notin Brokers

(* Every step of the account keeps the invariant.                          *)
LEMMA AccountStep ==
  ASSUME PaperPart, Paper!Next
  PROVE  AccountInv'
<1> USE DEF PaperPart
<1>0. \A t \in Brokers : DOMAIN x4[t] = TaskFields /\ DOMAIN x4 = Brokers
  BY DEF AccountInv
<1>00. RowsOK
  BY DEF AccountInv
<1>1. ASSUME NEW t \in Brokers, Paper!Begin(t)
      PROVE  AccountInv'
  <2>1. PICK kind, s : x4' = [x4 EXCEPT ![t] = [Paper!NoTask EXCEPT !.pc = "sync", !.kind = kind, !.symbol = s]]
    BY <1>1 DEF Paper!Begin
  <2> DEFINE l == [Paper!NoTask EXCEPT !.pc = "sync", !.kind = kind, !.symbol = s]
  <2>2. DOMAIN l = TaskFields /\ l.pc = "sync"
    BY DEF Paper!NoTask, TaskFields
  <2>3. Closes /\ x2' = x2
    BY <1>00, <1>1 DEF Paper!Begin, Closes, RowsOK
  <2> HIDE DEF l
  <2> QED BY <2>1, <2>2, <2>3, AccountKeeps DEF l
<1>2. ASSUME NEW t \in Brokers, Paper!SyncRead(t)
      PROVE  AccountInv'
  <2> DEFINE l == [x4[t] EXCEPT !.pc = "reconcile", !.symbols = Paper!OpenSymbols]
  <2>1. x4' = [x4 EXCEPT ![t] = l] /\ DOMAIN l = TaskFields /\ l.pc = "reconcile"
    BY <1>0, <1>2 DEF Paper!SyncRead, TaskFields
  <2>2. Closes /\ x2 = "none" /\ x2' = t
    BY <1>00, <1>2 DEF Paper!SyncRead, Closes, RowsOK
  <2> HIDE DEF l
  <2> QED BY <2>1, <2>2, AccountKeeps
<1>3. ASSUME NEW t \in Brokers, NEW pc, Paper!Go(t, pc), Closes, pc \notin {"reconcile", "commit"}, x2' = x2 \/ x2 \in {"none", t}
      PROVE  AccountInv'
  <2> DEFINE l == [x4[t] EXCEPT !.pc = pc]
  <2>1. x4' = [x4 EXCEPT ![t] = l] /\ DOMAIN l = TaskFields /\ l.pc = pc
    BY <1>0, <1>3 DEF Paper!Go, TaskFields
  <2> HIDE DEF l
  <2> QED BY <1>3, <2>1, AccountKeeps
<1>4. ASSUME NEW t \in Brokers, Paper!Done(t), Closes, x2' = x2 \/ x2 \in {"none", t}
      PROVE  AccountInv'
  <2>1. DOMAIN Paper!NoTask = TaskFields /\ Paper!NoTask.pc = "idle"
    BY DEF Paper!NoTask, TaskFields
  <2> QED BY <1>4, <2>1, AccountKeeps DEF Paper!Done
<1>5. x1' = x1 => Closes
  BY <1>00 DEF Closes, RowsOK
<1>6. \A t \in Brokers : x4[t].pc \in {"reconcile", "commit"} => x2 = t
  BY DEF AccountInv
<1>7. ASSUME NEW t \in Brokers, Paper!Reconcile(t)
      PROVE  AccountInv'
  <2>1. \A k : Paper!After(k) \notin {"reconcile", "commit"}
    BY DEF Paper!After
  <2> QED BY <1>3, <1>5, <1>6, <1>7, <2>1 DEF Paper!Reconcile, Paper!At
<1>8. ASSUME NEW t \in Brokers, Paper!Submit(t)
      PROVE  AccountInv'
  <2>1. CASE Paper!Done(t) /\ UNCHANGED <<x2, x3>>
    BY <1>4, <1>5, <1>8, <2>1 DEF Paper!Submit
  <2>2. CASE ~ Paper!OpenInDb(x4[t].symbol) /\ x2' = t /\ Paper!Go(t, "commit")
    <3> DEFINE l == [x4[t] EXCEPT !.pc = "commit"]
    <3>1. x4' = [x4 EXCEPT ![t] = l] /\ DOMAIN l = TaskFields /\ l.pc = "commit" /\ l.symbol = x4[t].symbol
      BY <1>0, <2>2 DEF Paper!Go, TaskFields
    <3>2. \A r \in Paper!Rows : OpenRow(r) => x1[r].symbol # x4[t].symbol
      BY <2>2 DEF Paper!OpenInDb, Paper!OpenSymbols, Paper!Open, OpenRow
    <3>3. Closes /\ x2 = "none"
      BY <1>5, <1>8 DEF Paper!Submit
    <3> HIDE DEF l
    <3> QED BY <2>2, <3>1, <3>2, <3>3, AccountKeeps
  <2> QED BY <1>8, <2>1, <2>2 DEF Paper!Submit
<1>9. ASSUME NEW t \in Brokers, Paper!Commit(t)
      PROVE  AccountInv'
  <2>1. x4[t].pc = "commit" /\ x2 = t
    BY <1>6, <1>9 DEF Paper!Commit, Paper!At
  <2>2. CASE Paper!Done(t) /\ x1' = x1
    BY <1>4, <1>5, <2>1, <2>2
  <2>3. CASE Paper!Go(t, "snap") /\ \E r \in Paper!NextRow : x1' = [x1 EXCEPT ![r] = [symbol |-> x4[t].symbol, status |-> "OPEN"]]
    <3> DEFINE l == [x4[t] EXCEPT !.pc = "snap"]
    <3>1. x4' = [x4 EXCEPT ![t] = l] /\ DOMAIN l = TaskFields /\ l.pc = "snap"
      BY <1>0, <2>3 DEF Paper!Go, TaskFields
    <3>2. PICK r \in Paper!NextRow : x1' = [x1 EXCEPT ![r] = [symbol |-> x4[t].symbol, status |-> "OPEN"]]
      BY <2>3
    <3>3. r \in Paper!Rows /\ ~ Used(r)
      BY DEF Paper!NextRow, Used, Paper!NoRow
    <3>4. \A q \in Paper!Rows : q < r => Used(q)
      BY <1>00, <3>3 DEF Paper!NextRow, Paper!Rows, RowsOK, RowOK, Used
    <3>5. Opens(x4[t].symbol)
      BY <3>2, <3>3, <3>4 DEF Opens
    <3> HIDE DEF l
    <3> QED BY <2>1, <3>1, <3>5, AccountKeeps
  <2> QED BY <1>9, <2>2, <2>3 DEF Paper!Commit
<1>10. ASSUME NEW t \in Brokers, Paper!List(t)
      PROVE  AccountInv'
  <2>1. CASE Paper!Done(t)
    BY <1>4, <1>5, <1>10, <2>1 DEF Paper!List
  <2>2. ASSUME NEW r, x4' = [x4 EXCEPT ![t].pc = "claim", ![t].row = r]
        PROVE  AccountInv'
    <3> DEFINE l == [x4[t] EXCEPT !.pc = "claim", !.row = r]
    <3>1. x4' = [x4 EXCEPT ![t] = l] /\ DOMAIN l = TaskFields /\ l.pc = "claim"
      BY <1>0, <2>2 DEF TaskFields
    <3>2. Closes /\ x2' = x2
      BY <1>5, <1>10 DEF Paper!List
    <3> HIDE DEF l
    <3> QED BY <3>1, <3>2, AccountKeeps
  <2> QED BY <1>10, <2>1, <2>2 DEF Paper!List
<1>11. ASSUME NEW t \in Brokers, Paper!Claim(t)
      PROVE  AccountInv'
  <2>1. CASE Paper!Done(t) /\ x1' = x1
    BY <1>4, <1>5, <1>11, <2>1 DEF Paper!Claim
  <2>2. CASE Paper!Claimable(x4[t].row) /\ x1' = Paper!ClosedIn({x4[t].row}) /\ Paper!Go(t, "book")
    <3>1. Closes
      BY <1>00, <2>2 DEF Paper!Claimable, Paper!ClosedIn, Closes, Closed, OpenRow, RowsOK
    <3> QED BY <1>3, <1>11, <2>2, <3>1 DEF Paper!Claim
  <2> QED BY <1>11, <2>1, <2>2 DEF Paper!Claim
<1>12. ASSUME NEW t \in Brokers, Paper!Book(t) \/ Paper!WriteSnapshot(t)
      PROVE  AccountInv'
  BY <1>3, <1>4, <1>5, <1>12 DEF Paper!Book, Paper!WriteSnapshot
<1>13. ASSUME NEW t \in Brokers, Paper!CloseAll(t)
      PROVE  AccountInv'
  <2> DEFINE l == [x4[t] EXCEPT !.pc = "flat", !.symbols = x3[t].held]
  <2>1. x4' = [x4 EXCEPT ![t] = l] /\ DOMAIN l = TaskFields /\ l.pc = "flat"
    BY <1>0, <1>13 DEF Paper!CloseAll, TaskFields
  <2>2. Closes /\ x2' = x2
    BY <1>5, <1>13 DEF Paper!CloseAll
  <2> HIDE DEF l
  <2> QED BY <2>1, <2>2, AccountKeeps
<1>14. ASSUME NEW t \in Brokers, Paper!Flat(t)
      PROVE  AccountInv'
  <2>1. CASE Paper!Go(t, "snap") /\ x1' = x1
    BY <1>3, <1>5, <1>14, <2>1 DEF Paper!Flat
  <2>2. ASSUME NEW s, x1' = Paper!ClosedIn({r \in Paper!Open : x1[r].symbol = s}),
               x4' = [x4 EXCEPT ![t].symbols = @ \ {s}]
        PROVE  AccountInv'
    <3> DEFINE l == [x4[t] EXCEPT !.symbols = @ \ {s}]
    <3>1. x4' = [x4 EXCEPT ![t] = l] /\ DOMAIN l = TaskFields /\ l.pc = "flat"
      BY <1>0, <1>14, <2>2 DEF TaskFields, Paper!Flat, Paper!At
    <3>2. Closes /\ x2' = x2
      BY <1>00, <1>14, <2>2, ClosedInCloses DEF Paper!Flat, Paper!Open, OpenRow
    <3> HIDE DEF l
    <3> QED BY <3>1, <3>2, AccountKeeps
  <2> QED BY <1>14, <2>1, <2>2 DEF Paper!Flat
<1>15. ASSUME NEW p \in Brokers, Paper!Restart(p)
      PROVE  AccountInv'
  <2>1. x4' = [t \in Brokers |-> IF t = p THEN Paper!NoTask ELSE x4[t]]
    BY <1>15 DEF Paper!Restart
  <2>2. x4' = [x4 EXCEPT ![p] = Paper!NoTask]
    BY <1>0, <2>1
  <2>3. x2' = x2 \/ x2 = p
    BY <1>15 DEF Paper!Restart
  <2> QED BY <1>4, <1>5, <1>15, <2>2, <2>3 DEF Paper!Restart, Paper!Done
<1> QED BY <1>1, <1>2, <1>7, <1>8, <1>9, <1>10, <1>11, <1>12, <1>13, <1>14, <1>15 DEF Paper!Next

LEMMA AccountInit == Paper!Init => AccountInv
<1> SUFFICES ASSUME Paper!Init PROVE AccountInv
  OBVIOUS
<1>1. \A r \in Paper!Rows : x1[r] = Paper!NoRow
  BY DEF Paper!Init
<1>2. RowsOK
  BY <1>1 DEF Paper!Init, RowsOK, RowOK, Paper!NoRow, OpenRow, Used
<1> QED BY <1>2 DEF Paper!Init, AccountInv, Paper!NoTask, TaskFields

(* No two open rows of the account have the same symbol: all processes     *)
(* look at the table and insert into it under one lock (submitAtomic),     *)
(* while exits and flattening, which do not take it, only close rows.      *)
THEOREM OneOpenPosition ==
  ASSUME MaxRows \in Nat, "none" \notin Brokers
  PROVE  SumSpec => []OnePerSymbol
<1> DEFINE Inv == part = "paper" => AccountInv
<1>1. SumInit => Inv
  BY AccountInit DEF SumInit
<1>2. Inv /\ [SumNext]_all => Inv'
  <2>1. CASE UNCHANGED all
    BY <2>1 DEF all, xs, AccountInv, RowsOK, OpenRow, Used
  <2>2. CASE SumNext
    <3> SUFFICES ASSUME Inv, part' = "paper" PROVE AccountInv'
      OBVIOUS
    <3>1. part = "paper" /\ Paper!Next
      BY <2>2 DEF SumNext, OfFirm, OfExec, Other
    <3> QED BY <3>1, AccountStep DEF PaperPart
  <2> QED BY <2>1, <2>2
<1>3. Inv => OnePerSymbol
  <2> SUFFICES ASSUME AccountInv PROVE Paper!OnePerSymbol
    BY DEF OnePerSymbol
  <2>1. \A q, r \in Paper!Rows : OpenRow(q) /\ OpenRow(r) /\ x1[r].symbol = x1[q].symbol => r <= q
    BY DEF AccountInv, RowsOK, OpenRow, Used
  <2> QED BY <2>1 DEF Paper!OnePerSymbol, Paper!Open, OpenRow, Paper!Rows
<1> QED BY <1>1, <1>2, <1>3, PTL DEF SumSpec, SumSafe

(* A row was followed by another one of its symbol.                        *)
Newer(r) == \E q \in Paper!Rows : r < q /\ Used(q) /\ x1[q].symbol = x1[r].symbol

(* A process that booked the profit of a row holds its symbol no more, or  *)
(* for a newer row; the row is closed, or about to be by the flattening.   *)
BookedOK(t, r) ==
  x6[t][r] = 1 =>
    /\ Used(r)
    /\ OpenRow(r) => x4[t].pc = "flat" /\ x1[r].symbol \in x4[t].symbols
    /\ x1[r].symbol \in x3[t].held => Newer(r) \/ (x4[t].pc = "commit" /\ x4[t].symbol = x1[r].symbol)
    /\ x4[t].pc = "reconcile" /\ x1[r].symbol \in x4[t].symbols => Newer(r)

(* What a sync has read is still open or has been closed since, and a row  *)
(* that an exit closed is not booked by anybody else.                      *)
TaskOK(t) ==
  /\ x4[t].pc = "reconcile" => Paper!OpenSymbols \subseteq x4[t].symbols
  /\ x4[t].pc \in {"claim", "book"} => x4[t].row \in Paper!Rows
  /\ x4[t].pc = "book" => x1[x4[t].row].status = "CLOSED" /\ x7[x4[t].row] = 0 /\ x6[t][x4[t].row] = 0

BrokerFields == {"held", "cash", "hydrated"}

BookTyped ==
  /\ x7 \in [Paper!Rows -> {0, 1}]
  /\ x6 \in [Brokers -> [Paper!Rows -> {0, 1}]]
  /\ x3 = [t \in Brokers |-> x3[t]] /\ \A t \in Brokers : DOMAIN x3[t] = BrokerFields

BookInv ==
  /\ BookTyped
  /\ \A r \in Paper!Rows : x7[r] = 1 => x1[r].status = "CLOSED"
  /\ \A t \in Brokers : TaskOK(t) /\ \A r \in Paper!Rows : BookedOK(t, r)
  /\ \A t, u \in Brokers : x4[t].pc = "book" /\ x4[u].pc = "book" /\ x4[t].row = x4[u].row => t = u

Moves(t) == Closes \/ (x4[t].pc = "commit" /\ Opens(x4[t].symbol))

(* What a step does to the rows: it closes some, or opens the next one.    *)
LEMMA RowsGrow ==
  ASSUME AccountInv, MaxRows \in Nat, NEW t \in Brokers, Moves(t)
  PROVE  /\ \A r \in Paper!Rows : Used(r) => /\ Used(r)' /\ x1'[r].symbol = x1[r].symbol
                                             /\ OpenRow(r)' => OpenRow(r)
                                             /\ x1[r].status = "CLOSED" => x1'[r].status = "CLOSED"
                                             /\ Newer(r) => Newer(r)'
         /\ x4[t].pc # "commit" => Closes
         /\ Closes => Paper!OpenSymbols' \subseteq Paper!OpenSymbols
<1>1. \A r \in Paper!Rows : Used(r) => /\ Used(r)' /\ x1'[r].symbol = x1[r].symbol
                                       /\ OpenRow(r)' => OpenRow(r)
                                       /\ x1[r].status = "CLOSED" => x1'[r].status = "CLOSED"
  <2>1. CASE Closes
    <3>1. \A r \in Paper!Rows : x1[r].status = "CLOSED" => x1'[r].status = "CLOSED"
      BY <2>1 DEF Closes, OpenRow
    <3> QED BY <2>1, <3>1, ClosesOK DEF AccountInv
  <2>2. CASE x4[t].pc = "commit" /\ Opens(x4[t].symbol)
    <3>1. \A r \in Paper!Rows : Used(r) => x1'[r] = x1[r]
      BY <2>2, OpensOK DEF AccountInv
    <3> QED BY <3>1 DEF Used, OpenRow
  <2> QED BY <2>1, <2>2 DEF Moves
<1>2. \A r \in Paper!Rows : Used(r) /\ Newer(r) => Newer(r)'
  BY <1>1 DEF Newer
<1>3. ASSUME Closes PROVE Paper!OpenSymbols' \subseteq Paper!OpenSymbols
  <2>1. \A r \in Paper!Rows : x1'[r].symbol = x1[r].symbol /\ (OpenRow(r)' => OpenRow(r))
    BY <1>3, ClosesOK DEF AccountInv
  <2>2. SUFFICES ASSUME NEW r \in Paper!Rows, OpenRow(r)' PROVE x1'[r].symbol \in Paper!OpenSymbols
    BY DEF Paper!OpenSymbols, Paper!Open, OpenRow, Paper!Rows
  <2> QED BY <2>1, <2>2 DEF Paper!OpenSymbols, Paper!Open, OpenRow
<1> QED BY <1>1, <1>2, <1>3 DEF Moves

(* A step of one task leaves the books of the others as they should be.    *)
LEMMA BookKeeps ==
  ASSUME AccountInv, BookInv, MaxRows \in Nat, NEW t \in Brokers, Moves(t),
         \A u \in Brokers : u # t => x4'[u] = x4[u] /\ x6'[u] = x6[u] /\ x3'[u] = x3[u],
         BookTyped', TaskOK(t)', \A r \in Paper!Rows : BookedOK(t, r)',
         \A r \in Paper!Rows : x7'[r] = x7[r] \/ (x4[t].pc = "book" /\ x4[t].row = r),
         x4'[t].pc = "book" => OpenRow(x4'[t].row)
  PROVE  BookInv'
<1>1. \A r \in Paper!Rows : Used(r) => /\ Used(r)' /\ x1'[r].symbol = x1[r].symbol
                                       /\ OpenRow(r)' => OpenRow(r)
                                       /\ x1[r].status = "CLOSED" => x1'[r].status = "CLOSED"
                                       /\ Newer(r) => Newer(r)'
  BY RowsGrow
<1>2. \A r \in Paper!Rows : x1[r].status = "CLOSED" => Used(r)
  BY DEF Used
<1>3. ASSUME NEW u \in Brokers, u # t PROVE TaskOK(u)'
  <2>1. TaskOK(u) /\ x4'[u] = x4[u] /\ x6'[u] = x6[u]
    BY <1>3 DEF BookInv
  <2>2. x4[u].pc = "reconcile" => Paper!OpenSymbols' \subseteq x4[u].symbols
    <3> SUFFICES ASSUME x4[u].pc = "reconcile" PROVE Paper!OpenSymbols' \subseteq x4[u].symbols
      OBVIOUS
    <3>1. x4[t].pc # "commit"
      BY <1>3 DEF AccountInv
    <3> QED BY <2>1, <3>1, RowsGrow DEF TaskOK
  <2>3. x4[u].pc = "book" => x1'[x4[u].row].status = "CLOSED" /\ x7'[x4[u].row] = 0 /\ x6'[u][x4[u].row] = 0
    BY <1>1, <1>2, <1>3, <2>1 DEF TaskOK, BookInv
  <2> QED BY <2>1, <2>2, <2>3 DEF TaskOK
<1>4. ASSUME NEW u \in Brokers, u # t, NEW r \in Paper!Rows PROVE BookedOK(u, r)'
  <2>1. BookedOK(u, r) /\ x4'[u] = x4[u] /\ x6'[u] = x6[u] /\ x3'[u] = x3[u]
    BY <1>4 DEF BookInv
  <2> QED BY <1>1, <2>1 DEF BookedOK
<1>5. \A r \in Paper!Rows : x7'[r] = 1 => x1'[r].status = "CLOSED"
  BY <1>1, <1>2 DEF BookInv, TaskOK
<1>6. \A u, v \in Brokers : x4'[u].pc = "book" /\ x4'[v].pc = "book" /\ x4'[u].row = x4'[v].row => u = v
  BY DEF BookInv, TaskOK, OpenRow
<1> QED BY <1>3, <1>4, <1>5, <1>6 DEF BookInv

(* Rows that were not booked before are booked once.                       *)
LEMMA BookedByOK ==
  ASSUME BookTyped, NEW t \in Brokers, NEW rs, \A r \in Paper!Rows : r \in rs => x6[t][r] = 0,
         x6' = Paper!BookedBy(t, rs)
  PROVE  /\ x6' \in [Brokers -> [Paper!Rows -> {0, 1}]]
         /\ \A u \in Brokers : u # t => x6'[u] = x6[u]
         /\ \A r \in Paper!Rows : x6'[t][r] = 1 => r \in rs \/ x6[t][r] = 1
<1> DEFINE f == [r \in Paper!Rows |-> x6[t][r] + (IF r \in rs THEN 1 ELSE 0)]
<1>1. x6' = [x6 EXCEPT ![t] = f]
  BY DEF Paper!BookedBy
<1>2. \A r \in Paper!Rows : x6[t][r] \in {0, 1}
  BY DEF BookTyped
<1>3. f \in [Paper!Rows -> {0, 1}] /\ \A r \in Paper!Rows : f[r] = 1 => r \in rs \/ x6[t][r] = 1
  BY <1>2
<1> HIDE DEF f
<1> QED BY <1>1, <1>3 DEF BookTyped

(* A step that neither books nor changes what the process holds.           *)
LEMMA SameBooked ==
  ASSUME AccountInv, BookInv, MaxRows \in Nat, NEW t \in Brokers, Closes,
         x6' = x6, x3' = x3, x4[t].pc \notin {"flat", "commit"}, x4'[t].pc # "reconcile"
  PROVE  \A r \in Paper!Rows : BookedOK(t, r)'
<1>1. \A r \in Paper!Rows : Used(r) => /\ Used(r)' /\ x1'[r].symbol = x1[r].symbol
                                       /\ OpenRow(r)' => OpenRow(r)
                                       /\ Newer(r) => Newer(r)'
  BY RowsGrow DEF Moves
<1>2. \A r \in Paper!Rows : BookedOK(t, r)
  BY DEF BookInv
<1> QED BY <1>1, <1>2 DEF BookedOK

(* A set of numbers that has a bound has a greatest member.                *)
LEMMA GreatestOf ==
  ASSUME NEW n \in Nat, NEW D, D \subseteq 0 .. n, D # {}
  PROVE  \E m \in D : \A j \in D : j <= m
<1> DEFINE R == OpToRel(<, Nat)
           C == {n - j : j \in D}
<1>1. \A i, j \in Nat : i < j => <<i, j>> \in R
  BY DEF OpToRel
<1>2. IsWellFoundedOn(R, Nat)
  BY NatLessThanWellFounded
<1>3. C \subseteq Nat /\ C # {} /\ D \subseteq Nat
  <2>1. \A j \in 0 .. n : n - j \in Nat /\ j \in Nat
    OBVIOUS
  <2> QED BY <2>1
<1>4. \A j \in D : n - j \in C
  OBVIOUS
<1>5. \A c \in C : \E j \in D : c = n - j
  OBVIOUS
<1> HIDE DEF R, C
<1>6. PICK m \in C : \A j \in C : <<j, m>> \notin R
  BY <1>2, <1>3, WFMin
<1>7. PICK k \in D : m = n - k
  BY <1>5, <1>6
<1>8. ASSUME NEW j \in D PROVE j <= k
  <2>1. <<n - j, m>> \notin R /\ n - j \in Nat /\ m \in Nat /\ j \in Nat /\ k \in Nat
    BY <1>3, <1>4, <1>6, <1>7
  <2>2. ~ (n - j < m)
    BY <1>1, <2>1
  <2> QED BY <1>7, <2>1, <2>2
<1> QED BY <1>7, <1>8

(* The rows a sync books are the latest of their symbols.                  *)
LEMMA LatestOK ==
  ASSUME MaxRows \in Nat, RowsOK, NEW ss, NEW r, r \in Paper!LatestClosed(ss)
  PROVE  /\ r \in Paper!Rows /\ x1[r].status = "CLOSED" /\ x1[r].symbol \in ss
         /\ \A q \in Paper!Rows : x1[q].status = "CLOSED" /\ x1[q].symbol = x1[r].symbol => q <= r
<1>1. PICK s \in {s \in ss : Paper!ClosedRows(s) # {}} :
        r = CHOOSE k \in Paper!ClosedRows(s) : \A q \in Paper!ClosedRows(s) : q <= k
  BY DEF Paper!LatestClosed
<1>2. Paper!ClosedRows(s) \subseteq 0 .. MaxRows /\ Paper!ClosedRows(s) # {} /\ s \in ss
  BY <1>1 DEF Paper!ClosedRows, Paper!Rows
<1>3. \E k \in Paper!ClosedRows(s) : \A q \in Paper!ClosedRows(s) : q <= k
  BY <1>2, GreatestOf
<1>4. r \in Paper!ClosedRows(s) /\ \A q \in Paper!ClosedRows(s) : q <= r
  BY <1>1, <1>3
<1>5. r \in Paper!Rows /\ x1[r] = [symbol |-> s, status |-> "CLOSED"]
  BY <1>4 DEF Paper!ClosedRows
<1> QED BY <1>2, <1>4, <1>5 DEF Paper!ClosedRows, RowsOK, RowOK

BookPart == PaperPart /\ BookInv

(* The steps that change neither rows nor books nor what is held.          *)
LEMMA BookIdle ==
  ASSUME BookPart, NEW t \in Brokers, Closes, UNCHANGED <<x3, x6, x7>>, NEW l, x4' = [x4 EXCEPT ![t] = l],
         x4[t].pc \notin {"flat", "commit"}, l.pc \notin {"reconcile", "book"},
         l.pc = "claim" => l.row \in Paper!Rows
  PROVE  BookInv'
<1>1. x4'[t] = l /\ \A u \in Brokers : u # t => x4'[u] = x4[u]
  BY DEF BookPart, PaperPart, AccountInv
<1>2. \A r \in Paper!Rows : BookedOK(t, r)'
  BY <1>1, SameBooked DEF BookPart, PaperPart
<1>3. TaskOK(t)' /\ BookTyped'
  BY <1>1 DEF TaskOK, BookPart, BookInv, BookTyped
<1> QED BY <1>1, <1>2, <1>3, BookKeeps DEF BookPart, PaperPart, Moves

(* Every step of a task or a restart keeps the books.                      *)
LEMMA BookStep ==
  ASSUME BookPart, Capture \/ "commitfail" \notin PaperEnv, Paper!Next
  PROVE  BookInv'
<1>1. /\ AccountInv /\ BookInv /\ BookTyped /\ RowsOK /\ MaxRows \in Nat
      /\ DOMAIN x4 = Brokers /\ \A t \in Brokers : DOMAIN x4[t] = TaskFields
      /\ x3 = [t \in Brokers |-> x3[t]] /\ DOMAIN x3 = Brokers /\ \A t \in Brokers : DOMAIN x3[t] = BrokerFields
  BY DEF BookPart, PaperPart, BookInv, BookTyped, AccountInv
<1>2. \A t \in Brokers : TaskOK(t) /\ \A r \in Paper!Rows : BookedOK(t, r)
  BY <1>1 DEF BookInv
<1>3. x1' = x1 => Closes
  BY <1>1 DEF Closes, RowsOK
<1>4. \A r \in Paper!Rows : r \in Paper!Open <=> OpenRow(r)
  BY DEF Paper!Open, OpenRow
<1>5. \A t \in Brokers, r \in Paper!Rows : x6[t][r] \in {0, 1}
  BY <1>1 DEF BookTyped
<1>6. ASSUME NEW t \in Brokers, Paper!Begin(t)
      PROVE  BookInv'
  <2>1. PICK kind, s : x4' = [x4 EXCEPT ![t] = [Paper!NoTask EXCEPT !.pc = "sync", !.kind = kind, !.symbol = s]]
    BY <1>6 DEF Paper!Begin
  <2> DEFINE l == [Paper!NoTask EXCEPT !.pc = "sync", !.kind = kind, !.symbol = s]
  <2>2. l.pc = "sync"
    BY DEF Paper!NoTask
  <2>3. Closes /\ UNCHANGED <<x3, x6, x7>> /\ x4[t].pc = "idle"
    BY <1>3, <1>6 DEF Paper!Begin, Paper!At
  <2> HIDE DEF l
  <2> QED BY <2>1, <2>2, <2>3, BookIdle DEF l
<1>7. ASSUME NEW t \in Brokers, Paper!Done(t), Closes, UNCHANGED <<x3, x6, x7>>, x4[t].pc \notin {"flat", "commit"}
      PROVE  BookInv'
  <2>1. Paper!NoTask.pc = "idle"
    BY DEF Paper!NoTask
  <2> QED BY <1>7, <2>1, BookIdle DEF Paper!Done
<1>8. ASSUME NEW t \in Brokers, NEW pc, Paper!Go(t, pc)
      PROVE  /\ x4' = [x4 EXCEPT ![t] = [x4[t] EXCEPT !.pc = pc]]
             /\ x4'[t].pc = pc /\ x4'[t].symbol = x4[t].symbol /\ x4'[t].symbols = x4[t].symbols /\ x4'[t].row = x4[t].row
             /\ \A u \in Brokers : u # t => x4'[u] = x4[u]
  BY <1>1, <1>8 DEF Paper!Go, TaskFields
<1>9. ASSUME NEW t \in Brokers, Paper!SyncRead(t)
      PROVE  BookInv'
  <2> DEFINE l == [x4[t] EXCEPT !.pc = "reconcile", !.symbols = Paper!OpenSymbols]
  <2>1. x4' = [x4 EXCEPT ![t] = l] /\ l.pc = "reconcile" /\ l.symbols = Paper!OpenSymbols
    BY <1>1, <1>9 DEF Paper!SyncRead, TaskFields
  <2>2. UNCHANGED <<x1, x3, x6, x7>> /\ x4[t].pc = "sync"
    BY <1>9 DEF Paper!SyncRead, Paper!At
  <2> HIDE DEF l
  <2>3. x4'[t] = l /\ \A u \in Brokers : u # t => x4'[u] = x4[u]
    BY <1>1, <2>1
  <2>4. Paper!OpenSymbols' = Paper!OpenSymbols
    BY <2>2 DEF Paper!OpenSymbols, Paper!Open, Paper!Rows
  <2>5. ASSUME NEW r \in Paper!Rows PROVE BookedOK(t, r)'
    <3>1. SUFFICES ASSUME x6[t][r] = 1 PROVE BookedOK(t, r)'
      BY <2>2 DEF BookedOK
    <3>2. Used(r) /\ ~ OpenRow(r) /\ (x1[r].symbol \in x3[t].held => Newer(r))
      BY <1>2, <2>2, <3>1 DEF BookedOK
    <3>3. ASSUME x1[r].symbol \in Paper!OpenSymbols PROVE Newer(r)
      <4>1. PICK q \in Paper!Rows : OpenRow(q) /\ x1[q].symbol = x1[r].symbol
        BY <3>3 DEF Paper!OpenSymbols, Paper!Open, OpenRow
      <4>2. r <= q /\ r # q /\ Used(q)
        BY <1>1, <3>2, <4>1 DEF RowsOK, OpenRow, Used
      <4> QED BY <4>1, <4>2 DEF Newer, Paper!Rows
    <3>4. (Used(r) <=> Used(r)') /\ (OpenRow(r) <=> OpenRow(r)') /\ (Newer(r) <=> Newer(r)')
      BY <2>2 DEF Used, OpenRow, Newer
    <3> QED BY <2>1, <2>2, <2>3, <3>2, <3>3, <3>4 DEF BookedOK
  <2>6. TaskOK(t)' /\ BookTyped'
    BY <1>1, <2>1, <2>2, <2>3, <2>4 DEF TaskOK, BookTyped
  <2> QED BY <1>1, <1>3, <2>1, <2>2, <2>3, <2>5, <2>6, BookKeeps DEF Moves
<1>10. ASSUME NEW t \in Brokers, Paper!Reconcile(t)
      PROVE  BookInv'
  <2> DEFINE seen == x4[t].symbols
             ss == x3[t].held \ seen
             pc == Paper!After(x4[t].kind)
             b == Paper!Reconciled(x3[t], seen)
  <2>1. /\ x4[t].pc = "reconcile" /\ UNCHANGED <<x1, x7>> /\ Paper!Go(t, pc)
        /\ x3' = [x3 EXCEPT ![t] = b] /\ x6' = Paper!BookedBy(t, Paper!LatestClosed(ss))
    BY <1>10 DEF Paper!Reconcile, Paper!At
  <2>2. pc \in {"submit", "list", "closeAll"}
    BY DEF Paper!After
  <2>3. b.held = seen /\ DOMAIN b = BrokerFields
    BY DEF Paper!Reconciled, BrokerFields
  <2> HIDE DEF pc, b
  <2>4. x3'[t] = b /\ x3' = [u \in Brokers |-> x3'[u]] /\ \A u \in Brokers : (u # t => x3'[u] = x3[u]) /\ DOMAIN x3'[u] = BrokerFields
    BY <1>1, <2>1, <2>3
  <2>5. ASSUME NEW r \in Paper!Rows, r \in Paper!LatestClosed(ss) PROVE x6[t][r] = 0
    <3>1. x1[r].status = "CLOSED" /\ x1[r].symbol \in ss /\ \A q \in Paper!Rows : x1[q].status = "CLOSED" /\ x1[q].symbol = x1[r].symbol => q <= r
      BY <1>1, <2>5, LatestOK
    <3> SUFFICES ASSUME x6[t][r] = 1 PROVE FALSE
      BY <1>5
    <3>2. PICK q \in Paper!Rows : r < q /\ Used(q) /\ x1[q].symbol = x1[r].symbol
      BY <1>2, <2>1, <3>1 DEF BookedOK, Newer
    <3>3. OpenRow(q)
      <4> SUFFICES ASSUME ~ OpenRow(q) PROVE FALSE
        OBVIOUS
      <4>1. x1[q].status = "CLOSED"
        BY <1>1, <3>2 DEF RowsOK, RowOK, OpenRow, Used, Paper!NoRow
      <4> QED BY <1>1, <3>1, <3>2, <4>1 DEF Paper!Rows
    <3>4. x1[q].symbol \in Paper!OpenSymbols
      BY <3>3 DEF Paper!OpenSymbols, Paper!Open, OpenRow
    <3> QED BY <1>2, <2>1, <3>1, <3>2, <3>4 DEF TaskOK
  <2>6. /\ x6' \in [Brokers -> [Paper!Rows -> {0, 1}]]
        /\ \A u \in Brokers : u # t => x6'[u] = x6[u]
        /\ \A r \in Paper!Rows : x6'[t][r] = 1 => r \in Paper!LatestClosed(ss) \/ x6[t][r] = 1
    BY <1>1, <2>1, <2>5, BookedByOK
  <2>7. x4'[t].pc = pc /\ \A u \in Brokers : u # t => x4'[u] = x4[u]
    BY <1>8, <2>1
  <2>8. ASSUME NEW r \in Paper!Rows PROVE BookedOK(t, r)'
    <3>1. SUFFICES ASSUME x6'[t][r] = 1 PROVE BookedOK(t, r)'
      BY DEF BookedOK
    <3>2. (Used(r) <=> Used(r)') /\ (OpenRow(r) <=> OpenRow(r)') /\ (Newer(r) <=> Newer(r)')
      BY <2>1 DEF Used, OpenRow, Newer
    <3>3. CASE x6[t][r] = 1
      BY <1>2, <2>1, <2>2, <2>3, <2>4, <2>7, <3>2, <3>3 DEF BookedOK
    <3>4. CASE r \in Paper!LatestClosed(ss)
      <4>1. x1[r].status = "CLOSED" /\ x1[r].symbol \in ss
        BY <1>1, <3>4, LatestOK
      <4> QED BY <2>1, <2>2, <2>3, <2>4, <2>7, <3>2, <4>1 DEF BookedOK, OpenRow, Used
    <3> QED BY <2>6, <3>1, <3>3, <3>4
  <2>9. TaskOK(t)' /\ BookTyped'
    BY <1>1, <2>1, <2>2, <2>4, <2>6, <2>7 DEF TaskOK, BookTyped
  <2> QED BY <1>1, <1>3, <2>1, <2>2, <2>4, <2>6, <2>7, <2>8, <2>9, BookKeeps DEF Moves
<1>11. ASSUME NEW t \in Brokers, Paper!Submit(t)
      PROVE  BookInv'
  <2>1. CASE Paper!Done(t) /\ x3' = x3
    BY <1>3, <1>7, <1>11, <2>1 DEF Paper!Submit, Paper!At
  <2>2. CASE /\ x3' = [x3 EXCEPT ![t].held = @ \cup {x4[t].symbol}, ![t].cash = @ - 1]
             /\ Paper!Go(t, "commit")
    <3> DEFINE s == x4[t].symbol
               b == [x3[t] EXCEPT !.held = @ \cup {s}, !.cash = @ - 1]
    <3>1. x3' = [x3 EXCEPT ![t] = b] /\ b.held = x3[t].held \cup {s} /\ DOMAIN b = BrokerFields
      BY <1>1, <2>2 DEF BrokerFields
    <3> HIDE DEF b
    <3>2. x3'[t] = b /\ x3' = [u \in Brokers |-> x3'[u]] /\ \A u \in Brokers : (u # t => x3'[u] = x3[u]) /\ DOMAIN x3'[u] = BrokerFields
      BY <1>1, <3>1
    <3>3. UNCHANGED <<x1, x6, x7>> /\ x4[t].pc = "submit"
      BY <1>11 DEF Paper!Submit, Paper!At
    <3>4. x4'[t].pc = "commit" /\ x4'[t].symbol = s /\ \A u \in Brokers : u # t => x4'[u] = x4[u]
      BY <1>8, <2>2
    <3>5. ASSUME NEW r \in Paper!Rows PROVE BookedOK(t, r)'
      <4>1. (Used(r) <=> Used(r)') /\ (OpenRow(r) <=> OpenRow(r)') /\ (Newer(r) <=> Newer(r)')
        BY <3>3 DEF Used, OpenRow, Newer
      <4> QED BY <1>2, <3>1, <3>2, <3>3, <3>4, <4>1 DEF BookedOK
    <3>6. TaskOK(t)' /\ BookTyped'
      BY <1>1, <3>1, <3>2, <3>3, <3>4 DEF TaskOK, BookTyped
    <3> QED BY <1>1, <1>3, <3>2, <3>3, <3>4, <3>5, <3>6, BookKeeps DEF Moves
  <2> QED BY <1>11, <2>1, <2>2 DEF Paper!Submit
<1>12. ASSUME NEW t \in Brokers, Paper!Commit(t)
      PROVE  BookInv'
  <2> DEFINE s == x4[t].symbol
  <2>1. x4[t].pc = "commit" /\ UNCHANGED <<x6, x7>>
    BY <1>12 DEF Paper!Commit, Paper!At
  <2>2. CASE Paper!Go(t, "snap") /\ x3' = x3 /\ \E r \in Paper!NextRow : x1' = [x1 EXCEPT ![r] = [symbol |-> s, status |-> "OPEN"]]
    <3>1. Opens(s)
      <4>1. PICK r \in Paper!NextRow : x1' = [x1 EXCEPT ![r] = [symbol |-> s, status |-> "OPEN"]]
        BY <2>2
      <4>2. r \in Paper!Rows /\ ~ Used(r)
        BY DEF Paper!NextRow, Used, Paper!NoRow
      <4>3. \A q \in Paper!Rows : q < r => Used(q)
        BY <1>1, <4>2 DEF Paper!NextRow, Paper!Rows, RowsOK, RowOK, Used
      <4> QED BY <4>1, <4>2, <4>3 DEF Opens
    <3>2. \A r \in Paper!Rows : OpenRow(r) => x1[r].symbol # s
      BY <1>1, <2>1 DEF AccountInv
    <3>3. PICK n \in Paper!Rows : /\ ~ Used(n) /\ Used(n)' /\ x1'[n].symbol = s
                                   /\ \A r \in Paper!Rows : Used(r) => r < n /\ x1'[r] = x1[r]
      BY <1>1, <3>1, <3>2, OpensOK
    <3>4. x4'[t].pc = "snap" /\ \A u \in Brokers : u # t => x4'[u] = x4[u]
      BY <1>8, <2>2
    <3>5. Moves(t)
      BY <2>1, <3>1 DEF Moves
    <3>6. \A r \in Paper!Rows : Used(r) => /\ Used(r)' /\ x1'[r].symbol = x1[r].symbol
                                           /\ OpenRow(r)' => OpenRow(r)
                                           /\ Newer(r) => Newer(r)'
      BY <1>1, <3>5, RowsGrow
    <3>7. ASSUME NEW r \in Paper!Rows PROVE BookedOK(t, r)'
      <4>1. Used(r) /\ x1[r].symbol = s => Newer(r)'
        BY <3>3, <3>6 DEF Newer
      <4> QED BY <1>2, <2>1, <2>2, <3>4, <3>6, <4>1 DEF BookedOK
    <3>8. TaskOK(t)' /\ BookTyped'
      BY <1>1, <2>1, <2>2, <3>4 DEF TaskOK, BookTyped
    <3> QED BY <1>1, <2>1, <2>2, <3>4, <3>5, <3>7, <3>8, BookKeeps
  <2>3. CASE /\ "commitfail" \in PaperEnv /\ Paper!Done(t) /\ x1' = x1
             /\ x3' = IF Capture /\ s \in x3[t].held
                      THEN [x3 EXCEPT ![t].held = @ \ {s}, ![t].cash = @ + 1] ELSE x3
    <3> DEFINE b == IF s \in x3[t].held THEN [x3[t] EXCEPT !.held = @ \ {s}, !.cash = @ + 1] ELSE x3[t]
    <3>1. x3' = [x3 EXCEPT ![t] = b] /\ b.held = x3[t].held \ {s} /\ DOMAIN b = BrokerFields
      <4>1. CASE s \in x3[t].held
        BY <1>1, <2>3, <4>1 DEF BrokerFields
      <4>2. CASE s \notin x3[t].held
        <5>1. x3' = x3 /\ b = x3[t]
          BY <2>3, <4>2
        <5>2. x3 = [x3 EXCEPT ![t] = x3[t]] /\ x3[t].held \ {s} = x3[t].held
          BY <4>2, <1>1
        <5> QED BY <1>1, <5>1, <5>2
      <4> QED BY <4>1, <4>2
    <3> HIDE DEF b
    <3>2. x3'[t] = b /\ x3' = [u \in Brokers |-> x3'[u]] /\ \A u \in Brokers : (u # t => x3'[u] = x3[u]) /\ DOMAIN x3'[u] = BrokerFields
      BY <1>1, <3>1
    <3>3. x4'[t].pc = "idle" /\ \A u \in Brokers : u # t => x4'[u] = x4[u]
      BY <1>1, <2>3 DEF Paper!Done, Paper!NoTask
    <3>4. ASSUME NEW r \in Paper!Rows PROVE BookedOK(t, r)'
      <4>1. (Used(r) <=> Used(r)') /\ (OpenRow(r) <=> OpenRow(r)') /\ (Newer(r) <=> Newer(r)')
        BY <2>3 DEF Used, OpenRow, Newer
      <4>2. x1'[r].symbol \in x3'[t].held => x1[r].symbol \in x3[t].held /\ x1[r].symbol # s
        BY <2>3, <3>1, <3>2
      <4> QED BY <1>2, <2>1, <2>3, <3>3, <4>1, <4>2 DEF BookedOK
    <3>5. TaskOK(t)' /\ BookTyped'
      BY <1>1, <2>1, <3>1, <3>2, <3>3 DEF TaskOK, BookTyped
    <3> QED BY <1>1, <1>3, <2>1, <2>3, <3>2, <3>3, <3>4, <3>5, BookKeeps DEF Moves
  <2> QED BY <1>12, <2>2, <2>3 DEF Paper!Commit
<1>13. ASSUME NEW t \in Brokers, Paper!List(t)
      PROVE  BookInv'
  <2>1. CASE Paper!Done(t)
    BY <1>3, <1>7, <1>13, <2>1 DEF Paper!List, Paper!At
  <2>2. ASSUME NEW r \in Paper!Open, x4' = [x4 EXCEPT ![t].pc = "claim", ![t].row = r]
        PROVE  BookInv'
    <3> DEFINE l == [x4[t] EXCEPT !.pc = "claim", !.row = r]
    <3>1. x4' = [x4 EXCEPT ![t] = l] /\ l.pc = "claim" /\ l.row \in Paper!Rows
      BY <1>1, <2>2 DEF TaskFields, Paper!Open
    <3>2. Closes /\ UNCHANGED <<x3, x6, x7>> /\ x4[t].pc = "list"
      BY <1>3, <1>13 DEF Paper!List, Paper!At
    <3> HIDE DEF l
    <3> QED BY <3>1, <3>2, BookIdle
  <2> QED BY <1>13, <2>1, <2>2 DEF Paper!List
<1>14. ASSUME NEW t \in Brokers, Paper!Claim(t)
      PROVE  BookInv'
  <2>1. x4[t].pc = "claim" /\ UNCHANGED <<x3, x6, x7>>
    BY <1>14 DEF Paper!Claim, Paper!At
  <2>2. CASE Paper!Done(t) /\ x1' = x1
    BY <1>3, <1>7, <2>1, <2>2
  <2>3. CASE Paper!Claimable(x4[t].row) /\ x1' = Paper!ClosedIn({x4[t].row}) /\ Paper!Go(t, "book")
    <3> DEFINE r == x4[t].row
    <3>1. r \in Paper!Rows /\ OpenRow(r)
      BY <1>2, <2>1, <2>3 DEF TaskOK, Paper!Claimable, OpenRow
    <3>2. Closes
      BY <1>1, <2>3, <3>1, ClosedInCloses
    <3>3. x4'[t].pc = "book" /\ x4'[t].row = r /\ \A u \in Brokers : u # t => x4'[u] = x4[u]
      BY <1>8, <2>3
    <3>4. \A k \in Paper!Rows : BookedOK(t, k)'
      BY <1>1, <2>1, <3>2, <3>3, SameBooked
    <3>5. x7[r] = 0 /\ x6[t][r] = 0
      <4>1. x7[r] # 1
        BY <1>1, <3>1 DEF BookInv, OpenRow
      <4>2. BookedOK(t, r)
        BY <1>2, <3>1
      <4>3. x6[t][r] # 1
        BY <2>1, <3>1, <4>2 DEF BookedOK
      <4>4. x7[r] \in {0, 1} /\ x6[t][r] \in {0, 1}
        BY <1>1, <3>1 DEF BookTyped
      <4> QED BY <4>1, <4>3, <4>4
    <3>6. x1'[r].status = "CLOSED"
      BY <1>1, <2>3, <3>1 DEF Paper!ClosedIn, RowsOK, RowOK
    <3>7. TaskOK(t)' /\ BookTyped'
      BY <1>1, <2>1, <3>1, <3>3, <3>5, <3>6 DEF TaskOK, BookTyped
    <3> QED BY <1>1, <2>1, <3>1, <3>2, <3>3, <3>4, <3>7, BookKeeps DEF Moves
  <2> QED BY <1>14, <2>2, <2>3 DEF Paper!Claim
<1>15. ASSUME NEW t \in Brokers, NEW ss, x3' = [x3 EXCEPT ![t] = Paper!Dropped(@, ss)]
      PROVE  x3'[t].held = x3[t].held \ ss /\ x3' = [u \in Brokers |-> x3'[u]] /\ \A u \in Brokers : (u # t => x3'[u] = x3[u]) /\ DOMAIN x3'[u] = BrokerFields
  <2> DEFINE b == Paper!Dropped(x3[t], ss)
  <2>1. b.held = x3[t].held \ ss /\ DOMAIN b = BrokerFields
    BY <1>1 DEF Paper!Dropped, BrokerFields
  <2> HIDE DEF b
  <2>2. x3' = [x3 EXCEPT ![t] = b]
    BY <1>15 DEF b
  <2> QED BY <1>1, <2>1, <2>2
<1>16. ASSUME NEW t \in Brokers, Paper!Book(t)
      PROVE  BookInv'
  <2> DEFINE k == x4[t].row
  <2>1. x4[t].pc = "book" /\ x1' = x1 /\ x6' = Paper!BookedBy(t, {k}) /\ x7' = [x7 EXCEPT ![k] = @ + 1] /\ Paper!Go(t, "snap")
    BY <1>16 DEF Paper!Book, Paper!At
  <2>2. k \in Paper!Rows /\ x1[k].status = "CLOSED" /\ x7[k] = 0 /\ x6[t][k] = 0
    BY <1>2, <2>1 DEF TaskOK
  <2>3. x3'[t].held = x3[t].held \ {x1[k].symbol} /\ x3' = [u \in Brokers |-> x3'[u]] /\ \A u \in Brokers : (u # t => x3'[u] = x3[u]) /\ DOMAIN x3'[u] = BrokerFields
    BY <1>15, <1>16 DEF Paper!Book
  <2>4. /\ x6' \in [Brokers -> [Paper!Rows -> {0, 1}]]
        /\ \A u \in Brokers : u # t => x6'[u] = x6[u]
        /\ \A r \in Paper!Rows : x6'[t][r] = 1 => r \in {k} \/ x6[t][r] = 1
    <3>1. \A r \in Paper!Rows : r \in {k} => x6[t][r] = 0
      BY <2>2
    <3> QED BY <1>1, <2>1, <3>1, BookedByOK
  <2>5. x7' \in [Paper!Rows -> {0, 1}] /\ \A r \in Paper!Rows : r # k => x7'[r] = x7[r]
    BY <1>1, <2>1, <2>2 DEF BookTyped
  <2>6. x4'[t].pc = "snap" /\ \A u \in Brokers : u # t => x4'[u] = x4[u]
    BY <1>8, <2>1
  <2>7. ASSUME NEW r \in Paper!Rows PROVE BookedOK(t, r)'
    <3>1. (Used(r) <=> Used(r)') /\ (OpenRow(r) <=> OpenRow(r)') /\ (Newer(r) <=> Newer(r)')
      BY <2>1 DEF Used, OpenRow, Newer
    <3>2. CASE r = k
      BY <2>1, <2>2, <2>3, <2>6, <3>1, <3>2 DEF BookedOK, Used, OpenRow
    <3>3. CASE r # k
      BY <1>2, <2>1, <2>3, <2>4, <2>6, <3>1, <3>3 DEF BookedOK
    <3> QED BY <3>2, <3>3
  <2>8. TaskOK(t)' /\ BookTyped'
    BY <1>1, <2>3, <2>4, <2>5, <2>6, <2>1 DEF TaskOK, BookTyped
  <2> QED BY <1>1, <1>3, <2>1, <2>3, <2>4, <2>5, <2>6, <2>7, <2>8, BookKeeps DEF Moves
<1>17. ASSUME NEW t \in Brokers, Paper!CloseAll(t)
      PROVE  BookInv'
  <2> DEFINE held == x3[t].held
             rs == {r \in Paper!Open : x1[r].symbol \in held}
             l == [x4[t] EXCEPT !.pc = "flat", !.symbols = held]
  <2>1. x4[t].pc = "closeAll" /\ UNCHANGED <<x1, x7>> /\ x6' = Paper!BookedBy(t, rs)
    BY <1>17 DEF Paper!CloseAll, Paper!At
  <2>2. x4' = [x4 EXCEPT ![t] = l] /\ l.pc = "flat" /\ l.symbols = held
    BY <1>1, <1>17 DEF Paper!CloseAll, TaskFields
  <2> HIDE DEF l
  <2>3. x4'[t] = l /\ \A u \in Brokers : u # t => x4'[u] = x4[u]
    BY <1>1, <2>2
  <2>4. x3'[t].held = held \ held /\ x3' = [u \in Brokers |-> x3'[u]] /\ \A u \in Brokers : (u # t => x3'[u] = x3[u]) /\ DOMAIN x3'[u] = BrokerFields
    BY <1>15, <1>17 DEF Paper!CloseAll
  <2>5. \A r \in Paper!Rows : r \in rs => OpenRow(r) /\ x1[r].symbol \in held
    BY <1>4
  <2> HIDE DEF rs
  <2>6. ASSUME NEW r \in Paper!Rows, r \in rs PROVE x6[t][r] = 0
    BY <1>2, <1>5, <2>1, <2>5, <2>6 DEF BookedOK
  <2>7. /\ x6' \in [Brokers -> [Paper!Rows -> {0, 1}]]
        /\ \A u \in Brokers : u # t => x6'[u] = x6[u]
        /\ \A r \in Paper!Rows : x6'[t][r] = 1 => r \in rs \/ x6[t][r] = 1
    BY <1>1, <2>1, <2>6, BookedByOK
  <2>8. ASSUME NEW r \in Paper!Rows PROVE BookedOK(t, r)'
    <3>1. SUFFICES ASSUME x6'[t][r] = 1 PROVE BookedOK(t, r)'
      BY DEF BookedOK
    <3>2. (Used(r) <=> Used(r)') /\ (OpenRow(r) <=> OpenRow(r)') /\ (Newer(r) <=> Newer(r)')
      BY <2>1 DEF Used, OpenRow, Newer
    <3>3. OpenRow(r) => r \in rs
      BY <1>2, <2>1, <2>7, <3>1 DEF BookedOK
    <3>4. Used(r)
      BY <1>2, <2>5, <2>7, <3>1 DEF BookedOK, OpenRow, Used
    <3> QED BY <2>1, <2>2, <2>3, <2>4, <2>5, <3>2, <3>3, <3>4 DEF BookedOK
  <2>9. TaskOK(t)' /\ BookTyped'
    BY <1>1, <2>1, <2>2, <2>3, <2>4, <2>7 DEF TaskOK, BookTyped
  <2> QED BY <1>1, <1>3, <2>1, <2>2, <2>3, <2>4, <2>7, <2>8, <2>9, BookKeeps DEF Moves
<1>18. ASSUME NEW t \in Brokers, Paper!Flat(t)
      PROVE  BookInv'
  <2>1. x4[t].pc = "flat" /\ UNCHANGED <<x3, x6, x7>>
    BY <1>18 DEF Paper!Flat, Paper!At
  <2>2. ASSUME Closes, NEW pc \in {"flat", "snap"}, NEW ss, x4'[t].pc = pc, x4'[t].symbols = ss,
               \A r \in Paper!Rows : OpenRow(r)' /\ x1[r].symbol \in x4[t].symbols => pc = "flat" /\ x1[r].symbol \in ss,
               \A u \in Brokers : u # t => x4'[u] = x4[u]
        PROVE  BookInv'
    <3>1. \A r \in Paper!Rows : Used(r) => /\ Used(r)' /\ x1'[r].symbol = x1[r].symbol
                                           /\ OpenRow(r)' => OpenRow(r)
                                           /\ Newer(r) => Newer(r)'
      BY <1>1, <2>2, RowsGrow DEF Moves
    <3>2. ASSUME NEW r \in Paper!Rows PROVE BookedOK(t, r)'
      BY <1>2, <2>1, <2>2, <3>1 DEF BookedOK
    <3>3. TaskOK(t)' /\ BookTyped'
      BY <1>1, <2>1, <2>2 DEF TaskOK, BookTyped
    <3> QED BY <1>1, <2>1, <2>2, <3>2, <3>3, BookKeeps DEF Moves
  <2>3. CASE x4[t].symbols = {} /\ Paper!Go(t, "snap") /\ x1' = x1
    BY <1>3, <1>8, <2>2, <2>3
  <2>4. ASSUME NEW s, x1' = Paper!ClosedIn({r \in Paper!Open : x1[r].symbol = s}),
               x4' = [x4 EXCEPT ![t].symbols = @ \ {s}]
        PROVE  BookInv'
    <3> DEFINE l == [x4[t] EXCEPT !.symbols = @ \ {s}]
    <3>1. x4' = [x4 EXCEPT ![t] = l] /\ l.pc = "flat" /\ l.symbols = x4[t].symbols \ {s}
      BY <1>1, <2>1, <2>4 DEF TaskFields
    <3> HIDE DEF l
    <3>2. x4'[t] = l /\ \A u \in Brokers : u # t => x4'[u] = x4[u]
      BY <1>1, <3>1
    <3>3. Closes
      BY <1>1, <1>4, <2>4, ClosedInCloses DEF Paper!Open
    <3>4. ASSUME NEW r \in Paper!Rows, OpenRow(r)' PROVE x1[r].symbol # s
      <4> SUFFICES ASSUME x1[r].symbol = s PROVE FALSE
        OBVIOUS
      <4>1. OpenRow(r)
        BY <1>1, <3>3, <3>4, ClosesOK
      <4>2. x1'[r] = [x1[r] EXCEPT !.status = "CLOSED"]
        BY <1>4, <2>4, <4>1 DEF Paper!ClosedIn
      <4>3. x1'[r].status = "CLOSED"
        BY <1>1, <4>2 DEF RowsOK, RowOK
      <4> QED BY <3>4, <4>3 DEF OpenRow
    <3> QED BY <2>2, <3>1, <3>2, <3>3, <3>4
  <2> QED BY <1>18, <2>3, <2>4 DEF Paper!Flat
<1>19. ASSUME NEW t \in Brokers, Paper!WriteSnapshot(t)
      PROVE  BookInv'
  BY <1>3, <1>7, <1>19 DEF Paper!WriteSnapshot, Paper!At
<1>20. ASSUME NEW p \in Brokers, Paper!Restart(p)
      PROVE  BookInv'
  <2>1. x4'[p].pc = "idle" /\ \A u \in Brokers : u # p => x4'[u] = x4[u]
    <3>1. x4' = [t \in Brokers |-> IF t = p THEN Paper!NoTask ELSE x4[t]]
      BY <1>20 DEF Paper!Restart
    <3> QED BY <3>1 DEF Paper!NoTask
  <2>2. UNCHANGED <<x1, x7>>
    BY <1>20 DEF Paper!Restart
  <2>3. /\ x6' \in [Brokers -> [Paper!Rows -> {0, 1}]] /\ \A r \in Paper!Rows : x6'[p][r] = 0
        /\ \A u \in Brokers : u # p => x6'[u] = x6[u]
    BY <1>1, <1>20 DEF Paper!Restart, BookTyped
  <2>4. x3' = [t \in Brokers |-> x3'[t]] /\ \A u \in Brokers : (u # p => x3'[u] = x3[u]) /\ DOMAIN x3'[u] = BrokerFields
    BY <1>1, <1>20 DEF Paper!Restart, Paper!EmptyBroker, BrokerFields
  <2>5. TaskOK(p)' /\ BookTyped' /\ \A r \in Paper!Rows : BookedOK(p, r)'
    BY <1>1, <2>1, <2>2, <2>3, <2>4 DEF TaskOK, BookTyped, BookedOK
  <2> QED BY <1>1, <1>3, <2>1, <2>2, <2>3, <2>4, <2>5, BookKeeps DEF Moves
<1> QED BY <1>6, <1>9, <1>10, <1>11, <1>12, <1>13, <1>14, <1>16, <1>17, <1>18, <1>19, <1>20 DEF Paper!Next

(* Of all exits of a position one takes effect, and no process books its   *)
(* profit twice, though a sync, an exit and a flattening each may find it  *)
(* closed (applyExit, flattenAll, syncPaperBrokerWithDb): a fill whose     *)
(* transaction failed has to be taken back, or must not fail.              *)
THEOREM ProfitBookedOnce ==
  ASSUME MaxRows \in Nat, "none" \notin Brokers, Capture \/ "commitfail" \notin PaperEnv
  PROVE  SumSpec => []ProfitOnce
<1> DEFINE Inv == part = "paper" => AccountInv /\ BookInv
<1>1. SumInit => Inv
  <2> SUFFICES ASSUME Paper!Init PROVE AccountInv /\ BookInv
    BY DEF SumInit
  <2>1. BookTyped
    BY DEF Paper!Init, BookTyped, Paper!EmptyBroker, BrokerFields
  <2>2. \A t \in Brokers : x4[t].pc = "idle" /\ \A r \in Paper!Rows : x6[t][r] = 0 /\ x7[r] = 0
    BY DEF Paper!Init, Paper!NoTask
  <2> QED BY <2>1, <2>2, AccountInit DEF BookInv, TaskOK, BookedOK, Paper!Init
<1>2. Inv /\ [SumNext]_all => Inv'
  <2>1. CASE UNCHANGED all
    BY <2>1 DEF all, xs, AccountInv, RowsOK, OpenRow, Used, BookInv, BookTyped, TaskOK, BookedOK, Newer,
                Paper!OpenSymbols, Paper!Open
  <2>2. CASE SumNext
    <3> SUFFICES ASSUME Inv, part' = "paper" PROVE AccountInv' /\ BookInv'
      OBVIOUS
    <3>1. part = "paper" /\ Paper!Next
      BY <2>2 DEF SumNext, OfFirm, OfExec, Other
    <3> QED BY <3>1, AccountStep, BookStep DEF PaperPart, BookPart
  <2> QED BY <2>1, <2>2
<1>3. Inv => ProfitOnce
  <2> SUFFICES ASSUME BookTyped PROVE Paper!ProfitOnce
    BY DEF ProfitOnce, BookInv
  <2>1. \A r \in Paper!Rows : x7[r] \in {0, 1} /\ \A p \in Brokers : x6[p][r] \in {0, 1}
    BY DEF BookTyped
  <2> QED BY <2>1 DEF Paper!ProfitOnce, Paper!Rows
<1> QED BY <1>1, <1>2, <1>3, PTL DEF SumSpec, SumSafe

-----------------------------------------------------------------------------
(* The firm's kill switch, of Spec. A process that was told has no cache   *)
(* that is clear, and no read of the current epoch that was answered       *)
(* otherwise: what it knew before belongs to an earlier epoch. The kill it *)
(* was told of is the latest row until a disarm begins, so that every      *)
(* later answer is a kill too.                                             *)
USE FirmAssumption DEF Slots, Calls

Words == {"none", "armed", "clear"}
Reads == [st : {"idle", "asked", "answered", "failed"}, val : Words, cur : BOOLEAN, shared : BOOLEAN]

(* The kill that stands is the latest row, and nobody is undoing it. *)
RowStands ==
  /\ hist.told # {} => hist.stands
  /\ hist.stands => row = "armed" /\ \A c \in Calls : ~ Disarming(c)

(* What a process that was told may still have of the time before. *)
Fresh(x) == x.st = "answered" /\ x.cur => x.val = "armed"
Told(p) == p \in hist.told => cache[p] # "clear" /\ \A r \in Slots : Fresh(read[p][r])

(* An order that came after the news waits for one answer, a kill. *)
Waits(p) ==
  /\ \A r, s \in order[p].on : r = s
  /\ order[p].late => p \in hist.told /\ \A r \in order[p].on : read[p][r].st = "answered" => read[p][r].val = "armed"

(* A call under way is in a process. *)
Inside == \A c \in Calls : call[c].at \in {"insert", "notify"} => call[c].in \in Procs

IInv ==
  /\ TypeOK /\ KnownKillBars
  /\ RowStands /\ Inside
  /\ \A p \in Procs : Told(p) /\ Waits(p)

-----------------------------------------------------------------------------
LEMMA AppendSeq == ASSUME NEW S, NEW f \in Seq(S), NEW x \in S PROVE Append(f, x) \in Seq(S)
  OBVIOUS

LEMMA TailSeq == ASSUME NEW S, NEW f \in Seq(S), f # <<>> PROVE Tail(f) \in Seq(S)
  OBVIOUS

(* One read of one process changes. *)
LEMMA ReadSet ==
  ASSUME TypeOK, NEW p \in Procs, NEW r \in Slots, NEW x \in Reads,
         Set(p, r, x)
  PROVE  /\ read' \in [Procs -> [Slots -> Reads]]
         /\ read'[p][r] = x
         /\ \A q \in Procs, s \in Slots : q # p \/ s # r => read'[q][s] = read[q][s]
  BY DEF Set, TypeOK, Reads, Words

(* The reads of a process are outdated. *)
LEMMA OutdatedReads ==
  ASSUME NEW f \in [Slots -> Reads]
  PROVE  /\ Outdated(f) \in [Slots -> Reads]
         /\ \A s \in Slots : /\ ~ Outdated(f)[s].cur
                             /\ Outdated(f)[s].st = f[s].st /\ Outdated(f)[s].val = f[s].val
  BY DEF Outdated, Reads, Words

LEMMA NoReadType == NoRead \in Reads /\ NoRead.st = "idle"
  BY DEF NoRead, Reads, Words

LEMMA ReadType == ASSUME TypeOK PROVE read \in [Procs -> [Slots -> Reads]]
  BY DEF TypeOK, Reads, Words

LEMMA HistType ==
  ASSUME TypeOK
  PROVE  hist = [stands |-> hist.stands, told |-> hist.told, slipped |-> hist.slipped]
  BY DEF TypeOK

-----------------------------------------------------------------------------
(* One lemma per step. *)

LEMMA InitOK == Init => IInv
<1> SUFFICES ASSUME Init PROVE IInv
  OBVIOUS
<1>1. TypeOK
  BY DEF Init, TypeOK, NoRead, NewCall, Kills
<1>2. hist.told = {} /\ ~ hist.slipped /\ ~ hist.stands
  BY DEF Init
<1>3. \A p \in Procs : Told(p) /\ Waits(p)
  BY <1>2 DEF Told, Waits, Init
<1> QED BY <1>1, <1>2, <1>3 DEF IInv, RowStands, KnownKillBars, Inside, Init, NewCall

(* A step that asks, or does something that no order sees. *)
LEMMA AskOK ==
  ASSUME IInv, NEW p \in Procs, NEW r \in Slots, NEW shared \in BOOLEAN, Ask(p, r, shared),
         UNCHANGED <<row, latch, synced, cache, call, notes, breaker, hist>>
  PROVE  /\ read' \in [Procs -> [Slots -> Reads]]
         /\ read'[p][r].st = "asked"
         /\ \A q \in Procs : Told(q)'
         /\ \A q \in Procs, s \in Slots : read'[q][s].st = "answered" => read'[q][s] = read[q][s]
<1> DEFINE x == [st |-> "asked", val |-> "none", cur |-> TRUE, shared |-> shared]
<1>1. x \in Reads /\ x.st = "asked"
  BY DEF Reads, Words
<1> HIDE DEF x
<1>2. Set(p, r, x)
  BY DEF Ask, x
<1>3. /\ read' \in [Procs -> [Slots -> Reads]]
      /\ read'[p][r] = x
      /\ \A q \in Procs, s \in Slots : q # p \/ s # r => read'[q][s] = read[q][s]
  BY <1>1, <1>2, ReadSet DEF IInv
<1>4. \A q \in Procs, s \in Slots : read'[q][s] = read[q][s] \/ read'[q][s].st = "asked"
  BY <1>1, <1>3
<1>5. ASSUME NEW q \in Procs PROVE Told(q)'
  <2>1. Told(q) /\ hist' = hist /\ cache' = cache
    BY DEF IInv
  <2>2. \A s \in Slots : Fresh(read[q][s]) => Fresh(read'[q][s])
    BY <1>4 DEF Fresh
  <2> QED BY <2>1, <2>2 DEF Told
<1>6. \A q \in Procs, s \in Slots : read'[q][s].st = "answered" => read'[q][s] = read[q][s]
  BY <1>4
<1> QED BY <1>1, <1>3, <1>5, <1>6

LEMMA GateReadsOK == ASSUME IInv, NEW p \in Procs, GateReads(p) PROVE IInv'
<1>1. PICK r \in Slots :
         /\ \/ r \in Shared(p) /\ read' = read
            \/ Shared(p) = {} /\ Ask(p, r, TRUE)
         /\ order' = [order EXCEPT ![p] = [on |-> {r}, late |-> p \in hist.told]]
  BY DEF GateReads
<1>2. /\ read' \in [Procs -> [Slots -> Reads]]
      /\ \A q \in Procs : Told(q)'
      /\ \A q \in Procs, s \in Slots : read'[q][s].st = "answered" => read'[q][s] = read[q][s]
      /\ read'[p][r].st = "answered" => read[p][r].cur
  <2>1. CASE r \in Shared(p) /\ read' = read
    BY <2>1, ReadType DEF GateReads, IInv, Told, Shared
  <2>2. CASE Ask(p, r, TRUE)
    BY <2>2, AskOK DEF GateReads
  <2> QED BY <1>1, <2>1, <2>2
<1>3. order' \in [Procs -> [on : SUBSET Slots, late : BOOLEAN]]
  BY <1>1 DEF IInv, TypeOK
<1>4. \A q \in Procs : Waits(q)'
  <2> SUFFICES ASSUME NEW q \in Procs PROVE Waits(q)'
    OBVIOUS
  <2>1. CASE q = p
    <3>1. order'[p].on = {r} /\ order'[p].late = (p \in hist.told)
      BY <1>1 DEF IInv, TypeOK
    <3>2. p \in hist.told /\ read'[p][r].st = "answered" => read'[p][r].val = "armed"
      BY <1>2 DEF IInv, Told, Fresh
    <3>3. hist' = hist
      BY DEF GateReads
    <3>4. \A a, b \in order'[p].on : a = b
      BY <3>1
    <3>5. order'[p].late => p \in hist'.told
      BY <3>1, <3>3
    <3>6. \A a \in order'[p].on : p \in hist.told /\ read'[p][a].st = "answered" => read'[p][a].val = "armed"
      BY <3>1, <3>2
    <3> QED BY <2>1, <3>3, <3>4, <3>5, <3>6 DEF Waits
  <2>2. CASE q # p
    <3>1. order'[q] = order[q]
      BY <1>1, <2>2 DEF IInv, TypeOK
    <3>2. order[q].on \subseteq Slots
      BY DEF IInv, TypeOK
    <3>3. Waits(q) /\ hist' = hist
      BY DEF IInv, GateReads
    <3>4. \A s \in Slots : read'[q][s].st = "answered" => read'[q][s] = read[q][s]
      BY <1>2
    <3> QED BY <3>1, <3>2, <3>3, <3>4 DEF Waits
  <2> QED BY <2>1, <2>2
<1> QED BY <1>2, <1>3, <1>4 DEF IInv, TypeOK, GateReads, RowStands, KnownKillBars, Disarming, Inside, Reads, Words

LEMMA GateCachedOK == ASSUME IInv, NEW p \in Procs, GateCached(p) PROVE IInv'
<1>1. hist'.told = hist.told /\ hist'.stands = hist.stands /\ ~ hist'.slipped
      /\ hist' \in [stands : BOOLEAN, told : SUBSET Procs, slipped : BOOLEAN]
  BY DEF GateCached, IInv, TypeOK, Told, KnownKillBars
<1>2. TypeOK'
  BY <1>1 DEF GateCached, SyncLatch, IInv, TypeOK
<1> QED BY <1>1, <1>2 DEF GateCached, IInv, RowStands, Told, Waits, KnownKillBars, Disarming, Inside

LEMMA RefreshOK == ASSUME IInv, NEW p \in Procs, Refresh(p) PROVE IInv'
<1>1. PICK r \in Slots : Ask(p, r, TRUE)
  BY DEF Refresh
<1>2. /\ read' \in [Procs -> [Slots -> Reads]]
      /\ \A q \in Procs : Told(q)'
      /\ \A q \in Procs, s \in Slots : read'[q][s].st = "answered" => read'[q][s] = read[q][s]
  BY <1>1, AskOK DEF Refresh
<1>3. \A q \in Procs : Waits(q)'
  <2> SUFFICES ASSUME NEW q \in Procs PROVE Waits(q)'
    OBVIOUS
  <2>1. order[q].on \subseteq Slots /\ Waits(q) /\ order' = order /\ hist' = hist
    BY DEF IInv, TypeOK, Refresh
  <2>2. \A s \in Slots : read'[q][s].st = "answered" => read'[q][s] = read[q][s]
    BY <1>2
  <2> QED BY <2>1, <2>2 DEF Waits
<1> QED BY <1>2, <1>3 DEF IInv, TypeOK, Refresh, RowStands, KnownKillBars, Disarming, Inside, Reads, Words

LEMMA AnswerOK == ASSUME IInv, NEW p \in Procs, NEW r \in Slots, Answer(p, r) PROVE IInv'
<1>1. PICK x \in Reads :
         /\ Set(p, r, x)
         /\ x.st \in {"answered", "failed"} /\ x.cur = read[p][r].cur
         /\ x.st = "answered" => x.val = row
  <2>1. read[p][r] \in Reads /\ row \in Words
    BY ReadType DEF IInv, TypeOK, Words
  <2> DEFINE a == [read[p][r] EXCEPT !.st = "answered", !.val = row]
             f == [read[p][r] EXCEPT !.st = "failed"]
  <2>2. a \in Reads /\ a.st = "answered" /\ a.cur = read[p][r].cur /\ a.val = row
    BY <2>1 DEF Reads
  <2>3. f \in Reads /\ f.st = "failed" /\ f.cur = read[p][r].cur
    BY <2>1 DEF Reads
  <2>4. Set(p, r, a) \/ Set(p, r, f)
    BY DEF Answer
  <2> HIDE DEF a, f
  <2>5. CASE Set(p, r, a)
    BY <2>2, <2>5
  <2>6. CASE Set(p, r, f)
    BY <2>3, <2>6
  <2> QED BY <2>4, <2>5, <2>6
<1>2. /\ read' \in [Procs -> [Slots -> Reads]]
      /\ read'[p][r] = x
      /\ \A q \in Procs, s \in Slots : q # p \/ s # r => read'[q][s] = read[q][s]
  BY <1>1, ReadSet DEF IInv
<1>3. \A q \in Procs : q \in hist.told => row = "armed"
  BY DEF IInv, RowStands
<1>4. \A q \in Procs : Told(q)'
  BY <1>1, <1>2, <1>3 DEF Answer, IInv, Told, Fresh
<1>5. \A q \in Procs : Waits(q)'
  <2> SUFFICES ASSUME NEW q \in Procs PROVE Waits(q)'
    OBVIOUS
  <2>1. order[q].on \subseteq Slots /\ order' = order /\ hist' = hist
    BY DEF Answer, IInv, TypeOK
  <2>2. Waits(q)
    BY DEF IInv
  <2>3. ASSUME NEW s \in Slots, q \in hist.told, read'[q][s].st = "answered"
        PROVE  read'[q][s].val = "armed" \/ read'[q][s] = read[q][s]
    <3>1. CASE q = p /\ s = r
      BY <1>1, <1>2, <1>3, <2>3, <3>1
    <3>2. CASE q # p \/ s # r
      BY <1>2, <3>2
    <3> QED BY <3>1, <3>2
  <2> QED BY <2>1, <2>2, <2>3 DEF Waits
<1> QED BY <1>2, <1>4, <1>5 DEF IInv, TypeOK, Answer, RowStands, KnownKillBars, Disarming, Inside, Reads, Words

(* An answer a told process still waits for, or may keep, is a kill.       *)
LEMMA DeliverOK == ASSUME IInv, NEW p \in Procs, NEW r \in Slots, Deliver(p, r) PROVE IInv'
<1> DEFINE x == read[p][r]
           armed == Status(p, x)
<1>1. x.st \in {"answered", "failed"} /\ armed \in BOOLEAN
  BY DEF Deliver, Status, IInv, TypeOK
<1>2. x.st = "failed" \/ x.val = "armed" => armed
  BY <1>1 DEF Status
<1>3. /\ latch' = [latch EXCEPT ![p] = armed]
      /\ synced' = [synced EXCEPT ![p] = armed /\ (x.st = "failed" \/ x.val # "none")]
      /\ cache' = [cache EXCEPT ![p] = IF x.st = "failed" THEN "none" ELSE IF x.cur THEN Value(armed) ELSE @]
      /\ Set(p, r, NoRead)
      /\ IF order[p].on = {r} THEN order' = [order EXCEPT ![p] = [on |-> {}, late |-> FALSE]] ELSE order' = order
      /\ IF order[p].on = {r} /\ ~ armed THEN Passed(p) ELSE hist' = hist
      /\ UNCHANGED <<row, call, notes, breaker>>
  BY DEF Deliver
<1>4. p \in hist.told /\ x.cur => armed
  BY <1>1, <1>2 DEF IInv, Told, Fresh
<1>5. order[p].on = {r} /\ order[p].late => armed
  BY <1>1, <1>2 DEF IInv, Waits
<1> HIDE DEF armed
<1>6. Value(armed) \in {"armed", "clear"} /\ (armed => Value(armed) = "armed")
  BY DEF Value
<1>7. hist' \in [stands : BOOLEAN, told : SUBSET Procs, slipped : BOOLEAN]
      /\ hist'.told = hist.told /\ hist'.stands = hist.stands /\ ~ hist'.slipped
  BY <1>3, <1>5 DEF Passed, IInv, TypeOK, KnownKillBars
<1>8. /\ read' \in [Procs -> [Slots -> Reads]]
      /\ read'[p][r] = NoRead /\ NoRead.st = "idle"
      /\ \A q \in Procs, s \in Slots : q # p \/ s # r => read'[q][s] = read[q][s]
  BY <1>3, NoReadType, ReadSet DEF IInv
<1>9. cache' \in [Procs -> Words] /\ \A q \in Procs : q \in hist.told => cache'[q] # "clear"
  BY <1>3, <1>4, <1>6 DEF IInv, TypeOK, Told, Words
<1>10. \A q \in Procs : Told(q)'
  BY <1>7, <1>8, <1>9 DEF IInv, Told, Fresh
<1>11. /\ order' \in [Procs -> [on : SUBSET Slots, late : BOOLEAN]]
       /\ \A q \in Procs : order'[q] = order[q] \/ (order'[q].on = {} /\ ~ order'[q].late)
       /\ r \notin order'[p].on
  <2> DEFINE none == [on |-> {}, late |-> FALSE]
  <2>1. order \in [Procs -> [on : SUBSET Slots, late : BOOLEAN]] /\ (order[p].on = {r} \/ r \notin order[p].on)
    BY DEF IInv, Waits, TypeOK
  <2>2. none \in [on : SUBSET Slots, late : BOOLEAN] /\ none.on = {} /\ ~ none.late
    OBVIOUS
  <2> HIDE DEF none
  <2>3. order' = [order EXCEPT ![p] = none] \/ (order' = order /\ r \notin order[p].on)
    BY <1>3, <2>1 DEF none
  <2>4. CASE order' = [order EXCEPT ![p] = none]
    BY <2>1, <2>2, <2>4
  <2>5. CASE order' = order /\ r \notin order[p].on
    BY <2>1, <2>5
  <2> QED BY <2>3, <2>4, <2>5
<1>12. \A q \in Procs : Waits(q)'
  <2> SUFFICES ASSUME NEW q \in Procs PROVE Waits(q)'
    OBVIOUS
  <2>1. CASE order'[q].on = {} /\ ~ order'[q].late
    BY <2>1 DEF Waits
  <2>2. CASE order'[q] = order[q]
    <3>1. \A s \in order'[q].on : s \in Slots /\ (q # p \/ s # r)
      BY <1>11, <2>2
    <3>2. \A s \in order'[q].on : read'[q][s] = read[q][s]
      BY <3>1, <1>8
    <3> QED BY <1>7, <2>2, <3>2 DEF IInv, Waits
  <2> QED BY <1>11, <2>1, <2>2
<1>13. TypeOK'
  <2>1. latch' \in [Procs -> BOOLEAN] /\ synced' \in [Procs -> BOOLEAN]
    BY <1>1, <1>3 DEF IInv, TypeOK, armed
  <2> QED BY <1>3, <1>7, <1>8, <1>9, <1>11, <2>1 DEF IInv, TypeOK, Reads, Words
<1> QED BY <1>3, <1>7, <1>10, <1>12, <1>13 DEF IInv, RowStands, KnownKillBars, Disarming, Inside

LEMMA ExpireOK == ASSUME IInv, NEW p \in Procs, Expire(p) PROVE IInv'
<1>1. \A q \in Procs : cache'[q] # "clear" \/ cache'[q] = cache[q]
  BY DEF Expire, IInv, TypeOK
<1> QED BY <1>1 DEF Expire, IInv, TypeOK, RowStands, Told, Waits, KnownKillBars, Disarming, Inside

(* A kill begins. *)
LEMMA BeginOK ==
  ASSUME IInv, NEW p \in Procs, NEW c \in Calls, NEW kind \in Kills, Begin(c, p, kind),
         UNCHANGED <<row, synced, cache, read, order, notes, hist>>, breaker' \in [Procs -> BOOLEAN]
  PROVE  IInv'
<1>1. call' \in [Calls -> [kind : Kills \cup {"none", "disarm"}, at : {"new", "insert", "notify", "done"},
                           in : Servers \cup {"none"}]]
      /\ (\A d \in Calls : Disarming(d)' => Disarming(d)) /\ Inside'
  BY DEF Begin, IInv, TypeOK, Disarming, Inside, Kills
<1>2. latch' \in [Procs -> BOOLEAN]
  BY DEF Begin, IInv, TypeOK
<1> QED BY <1>1, <1>2 DEF IInv, TypeOK, RowStands, Told, Waits, KnownKillBars

LEMMA KillOK == ASSUME IInv, NEW p \in Procs, NEW c \in Calls, Kill(c, p) PROVE IInv'
  BY BeginOK DEF Kill, IInv, TypeOK

LEMMA TripOK == ASSUME IInv, NEW p \in Procs, NEW c \in Calls, Trip(c, p) PROVE IInv'
<1>1. breaker' \in [Procs -> BOOLEAN] /\ "kill" \in Kills
  BY DEF Trip, IInv, TypeOK, Kills
<1> QED BY <1>1, BeginOK DEF Trip

LEMMA RearmOK == ASSUME IInv, NEW p \in Procs, Rearm(p) PROVE IInv'
  BY DEF Rearm, IInv, TypeOK, RowStands, Told, Waits, KnownKillBars, Disarming, Inside

(* A disarm begins: from here on nobody is held to know of the kill.       *)
LEMMA DisarmOK == ASSUME IInv, NEW p \in Procs, NEW c \in Calls, Disarm(c, p) PROVE IInv'
<1>1. hist' \in [stands : BOOLEAN, told : SUBSET Procs, slipped : BOOLEAN]
      /\ hist'.told = {} /\ ~ hist'.stands /\ hist'.slipped = hist.slipped
  BY DEF Disarm, IInv, TypeOK
<1>2. order' \in [Procs -> [on : SUBSET Slots, late : BOOLEAN]]
      /\ \A q \in Procs : order'[q].on = order[q].on /\ ~ order'[q].late
  <2>1. order' = [q \in Procs |-> [order[q] EXCEPT !.late = FALSE]]
    BY DEF Disarm
  <2>2. \A q \in Procs : order[q] \in [on : SUBSET Slots, late : BOOLEAN]
    BY DEF IInv, TypeOK
  <2> QED BY <2>1, <2>2
<1>3. call' \in [Calls -> [kind : Kills \cup {"none", "disarm"}, at : {"new", "insert", "notify", "done"},
                           in : Servers \cup {"none"}]] /\ latch' \in [Procs -> BOOLEAN] /\ Inside'
  BY DEF Disarm, Begin, IInv, TypeOK, Inside
<1>4. \A q \in Procs : Told(q)' /\ Waits(q)'
  BY <1>1, <1>2 DEF Told, Waits, IInv
<1> QED BY <1>1, <1>2, <1>3, <1>4 DEF Disarm, IInv, TypeOK, RowStands, KnownKillBars

LEMMA DoneOK ==
  ASSUME TypeOK, NEW c \in Calls, Done(c)
  PROVE  /\ call' \in [Calls -> [kind : Kills \cup {"none", "disarm"}, at : {"new", "insert", "notify", "done"},
                                  in : Servers \cup {"none"}]]
         /\ (\A d \in Calls : Disarming(d)' => Disarming(d)) /\ (Inside => Inside')
<1>1. call'[c].at = "done" /\ \A d \in Calls : d # c => call'[d] = call[d]
  BY DEF Done, NewCall, TypeOK
<1>2. call' \in [Calls -> [kind : Kills \cup {"none", "disarm"}, at : {"new", "insert", "notify", "done"},
                           in : Servers \cup {"none"}]]
  BY DEF Done, NewCall, TypeOK
<1>3. \A d \in Calls : d # c => call[d] = call'[d]
  BY <1>1
<1>4. \A d \in Calls : Disarming(d)' => Disarming(d)
  BY <1>1, <1>3 DEF Disarming
<1>5. Inside => Inside'
  BY <1>1, <1>3 DEF Inside
<1> QED BY <1>2, <1>4, <1>5

(* A row is written: by a disarm only while no kill stands. *)
LEMMA InsertOK == ASSUME IInv, NEW c \in Calls, Insert(c) PROVE IInv'
<1>1. /\ call' \in [Calls -> [kind : Kills \cup {"none", "disarm"}, at : {"new", "insert", "notify", "done"},
                               in : Servers \cup {"none"}]]
      /\ (\A d \in Calls : Disarming(d)' => Disarming(d)) /\ Inside'
  <2>1. CASE Done(c)
    BY <2>1, DoneOK DEF IInv
  <2>2. CASE call' = [call EXCEPT ![c] = [@ EXCEPT !.at = "notify"]]
    <3> DEFINE x == [call[c] EXCEPT !.at = "notify"]
    <3>1. call \in [Calls -> [kind : Kills \cup {"none", "disarm"}, at : {"new", "insert", "notify", "done"},
                             in : Servers \cup {"none"}]]
      BY DEF IInv, TypeOK
    <3>2. /\ x \in [kind : Kills \cup {"none", "disarm"}, at : {"new", "insert", "notify", "done"},
                   in : Servers \cup {"none"}]
          /\ x.kind = call[c].kind /\ x.at = "notify" /\ x.in = call[c].in
      BY <3>1
    <3>3. call' = [call EXCEPT ![c] = x] /\ call[c].at = "insert"
      BY <2>2 DEF Insert
    <3> HIDE DEF x
    <3>4. /\ call' \in [Calls -> [kind : Kills \cup {"none", "disarm"}, at : {"new", "insert", "notify", "done"},
                                 in : Servers \cup {"none"}]]
          /\ call'[c] = x /\ \A d \in Calls : d # c => call'[d] = call[d]
      BY <3>1, <3>2, <3>3
    <3>5. \A d \in Calls : Disarming(d)' => Disarming(d)
      BY <3>2, <3>3, <3>4 DEF Disarming
    <3>6. Inside'
      BY <3>2, <3>3, <3>4 DEF IInv, Inside
    <3> QED BY <3>4, <3>5, <3>6
  <2> QED BY <2>1, <2>2 DEF Insert
<1>2. row' \in Words /\ (row' # "armed" => row' = row \/ Disarming(c))
  BY DEF Insert, Disarming, Inside, IInv, TypeOK, Words
<1>3. RowStands'
  BY <1>1, <1>2 DEF Insert, IInv, RowStands
<1> QED BY <1>1, <1>2, <1>3 DEF Insert, IInv, TypeOK, Told, Waits, KnownKillBars, Words

(* The news of a kill that stands: the cache is the kill, and no read of   *)
(* before may fill it.                                                     *)
LEMMA NotifyOK == ASSUME IInv, NEW c \in Calls, Notify(c) PROVE IInv'
<1> DEFINE p == call[c].in
           armed == call[c].kind # "disarm"
           stands == armed /\ row = "armed" /\ \A d \in Calls : ~ Disarming(d)
<1>1. /\ Done(c) /\ SyncLatch(p, armed)
      /\ cache' = [cache EXCEPT ![p] = Value(armed)]
      /\ read' = [read EXCEPT ![p] = Outdated(@)]
      /\ \/ notes' = [q \in Procs |-> Append(notes[q], armed)]
         \/ notes' = notes
      /\ hist' = IF stands THEN [hist EXCEPT !.stands = TRUE, !.told = @ \cup {p}] ELSE hist
      /\ UNCHANGED <<row, order, breaker>>
  BY DEF Notify
<1>2. p \in Servers \cup {"none"}
  BY DEF IInv, TypeOK
<1>3. ~ armed => hist.told = {} /\ ~ hist.stands
  BY DEF Notify, IInv, RowStands, Disarming, Inside
<1>4. Value(armed) \in Words /\ (armed => Value(armed) = "armed")
  BY DEF Value, Words
<1>5. armed \in BOOLEAN
  OBVIOUS
<1>6. /\ call' \in [Calls -> [kind : Kills \cup {"none", "disarm"}, at : {"new", "insert", "notify", "done"},
                               in : Servers \cup {"none"}]]
      /\ (\A d \in Calls : Disarming(d)' => Disarming(d)) /\ Inside'
  BY <1>1, DoneOK DEF IInv
<1> HIDE DEF p, armed
<1>7. p \in Procs
  BY DEF Notify, IInv, Inside, p
<1>8. stands => armed /\ row = "armed" /\ \A d \in Calls : ~ Disarming(d)
  OBVIOUS
<1> HIDE DEF stands
<1>9. /\ hist' \in [stands : BOOLEAN, told : SUBSET Procs, slipped : BOOLEAN]
      /\ \/ hist' = hist
         \/ stands /\ hist'.stands /\ hist'.told = hist.told \cup {p}
      /\ ~ hist'.slipped
  BY <1>1, <1>7 DEF IInv, TypeOK, KnownKillBars
<1>10. RowStands'
  <2>1. row' = row
    BY <1>1
  <2>2. CASE hist' = hist
    BY <1>6, <2>1, <2>2 DEF IInv, RowStands
  <2>3. CASE stands /\ hist'.stands
    BY <1>6, <1>8, <2>1, <2>3 DEF IInv, RowStands
  <2> QED BY <1>9, <2>2, <2>3
<1>11. cache' \in [Procs -> Words] /\ \A q \in Procs : cache'[q] = IF q = p THEN Value(armed) ELSE cache[q]
  BY <1>1, <1>4, <1>7 DEF IInv, TypeOK, Words
<1>12. /\ read' \in [Procs -> [Slots -> Reads]]
       /\ \A s \in Slots : ~ read'[p][s].cur
       /\ \A q \in Procs, s \in Slots : read'[q][s].st = read[q][s].st /\ read'[q][s].val = read[q][s].val
       /\ \A q \in Procs : q # p => read'[q] = read[q]
  <2>1. read \in [Procs -> [Slots -> Reads]]
    BY ReadType DEF IInv
  <2>2. read' = [read EXCEPT ![p] = Outdated(read[p])]
    BY <1>1
  <2> QED BY <1>7, <2>1, <2>2, OutdatedReads
<1>13. \A q \in Procs : Told(q)'
  <2> SUFFICES ASSUME NEW q \in Procs, q \in hist'.told
               PROVE  cache'[q] # "clear" /\ \A s \in Slots : Fresh(read[q][s])'
    BY DEF Told
  <2>1. CASE q = p
    <3>1. armed
      BY <1>3, <1>8, <1>9
    <3> QED BY <2>1, <3>1, <1>4, <1>7, <1>11, <1>12 DEF Fresh
  <2>2. CASE q # p
    <3>1. q \in hist.told
      BY <1>9, <2>2
    <3>2. cache[q] # "clear" /\ \A s \in Slots : Fresh(read[q][s])
      BY <3>1 DEF IInv, Told
    <3>3. cache'[q] = cache[q] /\ read'[q] = read[q]
      BY <2>2, <1>11, <1>12
    <3> QED BY <3>2, <3>3 DEF Fresh
  <2> QED BY <2>1, <2>2
<1>14. \A q \in Procs : Waits(q)'
  <2>1. (\A q \in Procs : order[q].on \subseteq Slots) /\ order' = order
    BY <1>1 DEF IInv, TypeOK
  <2> QED BY <1>9, <1>12, <2>1 DEF IInv, Waits
<1>15. TypeOK'
  <2>1. notes' \in [Procs -> Seq(BOOLEAN)]
    <3>1. notes \in [Procs -> Seq(BOOLEAN)]
      BY DEF IInv, TypeOK
    <3>2. \A q \in Procs : Append(notes[q], armed) \in Seq(BOOLEAN)
      BY <1>5, <3>1, AppendSeq
    <3> QED BY <1>1, <3>1, <3>2
  <2>2. latch' \in [Procs -> BOOLEAN] /\ synced' \in [Procs -> BOOLEAN]
    BY <1>1, <1>5 DEF IInv, TypeOK, SyncLatch
  <2> QED BY <1>1, <1>6, <1>9, <1>11, <1>12, <2>1, <2>2 DEF IInv, TypeOK, Reads, Words
<1> QED BY <1>6, <1>9, <1>10, <1>13, <1>14, <1>15 DEF IInv, KnownKillBars

(* What a process forgets, with its epoch, harms nobody. *)
LEMMA ForgetOK ==
  ASSUME IInv, NEW p \in Procs, NEW f \in [Slots -> Reads],
         cache' = [cache EXCEPT ![p] = "none"], read' = [read EXCEPT ![p] = f],
         \A s \in Slots : (f[s].st = "answered" => f[s].val = read[p][s].val /\ read[p][s].st = "answered")
                        /\ ~ (f[s].st = "answered" /\ f[s].cur),
         UNCHANGED order, hist'.told \in {hist.told, hist.told \cup {p}}
  PROVE  /\ cache' \in [Procs -> Words] /\ read' \in [Procs -> [Slots -> Reads]]
         /\ \A q \in Procs : Told(q)' /\ Waits(q)'
<1>1. read \in [Procs -> [Slots -> Reads]] /\ cache \in [Procs -> Words]
  BY ReadType DEF IInv, TypeOK, Words
<1>2. /\ cache' \in [Procs -> Words] /\ read' \in [Procs -> [Slots -> Reads]]
      /\ cache'[p] = "none" /\ read'[p] = f
      /\ \A q \in Procs : q # p => cache'[q] = cache[q] /\ read'[q] = read[q]
  BY <1>1 DEF Words
<1>3. \A q \in Procs : Told(q)'
  <2> SUFFICES ASSUME NEW q \in Procs PROVE Told(q)'
    OBVIOUS
  <2>1. CASE q = p
    BY <1>2, <2>1 DEF Told, Fresh
  <2>2. CASE q # p
    BY <1>2, <2>2 DEF Told, Fresh, IInv
  <2> QED BY <2>1, <2>2
<1>4. \A q \in Procs : Waits(q)'
  <2>1. \A q \in Procs : order[q].on \subseteq Slots
    BY DEF IInv, TypeOK
  <2>2. \A q \in Procs, s \in Slots : read'[q][s].st = "answered" =>
           read[q][s].st = "answered" /\ read'[q][s].val = read[q][s].val
    BY <1>2
  <2> QED BY <2>1, <2>2 DEF IInv, Waits
<1> QED BY <1>2, <1>3, <1>4

LEMMA DisconnectOK == ASSUME IInv, NEW p \in Procs, Disconnect(p) PROVE IInv'
<1> DEFINE f == Outdated(read[p])
<1>1. read[p] \in [Slots -> Reads]
  BY ReadType DEF IInv
<1>2. f \in [Slots -> Reads] /\ \A s \in Slots : ~ f[s].cur /\ f[s].st = read[p][s].st /\ f[s].val = read[p][s].val
  BY <1>1, OutdatedReads
<1>3. cache' = [cache EXCEPT ![p] = "none"] /\ read' = [read EXCEPT ![p] = f]
  BY DEF Disconnect
<1> HIDE DEF f
<1>4. /\ cache' \in [Procs -> Words] /\ read' \in [Procs -> [Slots -> Reads]]
      /\ \A q \in Procs : Told(q)' /\ Waits(q)'
  <2>1. /\ UNCHANGED order /\ hist'.told \in {hist.told, hist.told \cup {p}}
        /\ \A s \in Slots : (f[s].st = "answered" => f[s].val = read[p][s].val /\ read[p][s].st = "answered")
                           /\ ~ (f[s].st = "answered" /\ f[s].cur)
    BY <1>2 DEF Disconnect
  <2> QED BY <1>2, <1>3, <2>1, ForgetOK
<1>5. notes' \in [Procs -> Seq(BOOLEAN)]
  BY DEF Disconnect, IInv, TypeOK
<1> QED BY <1>4, <1>5 DEF Disconnect, IInv, TypeOK, RowStands, KnownKillBars, Disarming, Inside, Reads, Words

LEMMA NotificationOK == ASSUME IInv, NEW p \in Procs, Notification(p) PROVE IInv'
<1>1. PICK r \in Slots : read' = [read EXCEPT ![p] =
        [Outdated(@) EXCEPT ![r] = [st |-> "asked", val |-> "none", cur |-> TRUE, shared |-> FALSE]]]
  BY DEF Notification
<1> DEFINE x == [st |-> "asked", val |-> "none", cur |-> TRUE, shared |-> FALSE]
           f == [Outdated(read[p]) EXCEPT ![r] = x]
<1>2. x \in Reads /\ x.st = "asked"
  BY DEF Reads, Words
<1>3. read' = [read EXCEPT ![p] = f]
  BY <1>1
<1>4. read[p] \in [Slots -> Reads]
  BY ReadType DEF IInv
<1> HIDE DEF x
<1>5. f \in [Slots -> Reads] /\ \A s \in Slots :
        (f[s].st = "answered" => f[s].val = read[p][s].val /\ read[p][s].st = "answered")
        /\ ~ (f[s].st = "answered" /\ f[s].cur)
  BY <1>2, <1>4, OutdatedReads
<1> HIDE DEF f
<1>6. /\ hist' \in [stands : BOOLEAN, told : SUBSET Procs, slipped : BOOLEAN]
      /\ hist'.told \in {hist.told, hist.told \cup {p}} /\ hist'.stands = hist.stands /\ ~ hist'.slipped
      /\ hist'.told # {} => hist.stands
  BY DEF Notification, IInv, TypeOK, KnownKillBars, RowStands
<1>7. cache' = [cache EXCEPT ![p] = "none"] /\ UNCHANGED <<row, order, call, breaker>>
  BY DEF Notification
<1>8. /\ cache' \in [Procs -> Words] /\ read' \in [Procs -> [Slots -> Reads]]
      /\ \A q \in Procs : Told(q)' /\ Waits(q)'
  BY <1>3, <1>5, <1>6, <1>7, ForgetOK
<1>9. TypeOK'
  <2>1. notes' \in [Procs -> Seq(BOOLEAN)]
    <3>1. notes \in [Procs -> Seq(BOOLEAN)] /\ notes[p] # <<>> /\ notes' = [notes EXCEPT ![p] = Tail(notes[p])]
      BY DEF Notification, IInv, TypeOK
    <3>2. Tail(notes[p]) \in Seq(BOOLEAN)
      BY <3>1, TailSeq
    <3> QED BY <3>1, <3>2
  <2>2. latch' \in [Procs -> BOOLEAN] /\ synced' \in [Procs -> BOOLEAN]
    BY DEF Notification, SyncLatch, IInv, TypeOK
  <2> QED BY <1>6, <1>7, <1>8, <2>1, <2>2 DEF IInv, TypeOK, Reads, Words
<1> QED BY <1>6, <1>7, <1>8, <1>9 DEF IInv, RowStands, KnownKillBars, Disarming, Inside

LEMMA RestartOK == ASSUME IInv, NEW p \in Procs, Restart(p) PROVE IInv'
<1>1. /\ read' \in [Procs -> [Slots -> Reads]] /\ cache' \in [Procs -> Words]
      /\ \A s \in Slots : read'[p][s] = NoRead
      /\ cache'[p] = "none" /\ \A q \in Procs : q # p => read'[q] = read[q] /\ cache'[q] = cache[q]
  BY ReadType, NoReadType DEF Restart, IInv, TypeOK, Words
<1>2. \A q \in Procs : Told(q)'
  <2> SUFFICES ASSUME NEW q \in Procs PROVE Told(q)'
    OBVIOUS
  <2>1. hist' = hist
    BY DEF Restart
  <2>2. CASE q = p
    BY <1>1, <2>2, NoReadType DEF Told, Fresh
  <2>3. CASE q # p
    BY <1>1, <2>1, <2>3 DEF Told, Fresh, IInv
  <2> QED BY <2>2, <2>3
<1>3. /\ order' \in [Procs -> [on : SUBSET Slots, late : BOOLEAN]]
      /\ order'[p].on = {} /\ ~ order'[p].late /\ \A q \in Procs : q # p => order'[q] = order[q]
  BY DEF Restart, IInv, TypeOK
<1>4. \A q \in Procs : Waits(q)'
  <2> SUFFICES ASSUME NEW q \in Procs PROVE Waits(q)'
    OBVIOUS
  <2>1. hist' = hist
    BY DEF Restart
  <2>2. CASE q = p
    BY <1>3, <2>2 DEF Waits
  <2>3. CASE q # p
    BY <1>1, <1>3, <2>1, <2>3 DEF Waits, IInv
  <2> QED BY <2>2, <2>3
<1>5. call' \in [Calls -> [kind : Kills \cup {"none", "disarm"}, at : {"new", "insert", "notify", "done"},
                           in : Servers \cup {"none"}]]
      /\ (\A d \in Calls : Disarming(d)' => Disarming(d)) /\ Inside'
  <2>1. \A d \in Calls : call'[d] = call[d] \/ (call'[d] = [NewCall EXCEPT !.at = "done"])
    BY DEF Restart
  <2>2. [NewCall EXCEPT !.at = "done"] \in [kind : Kills \cup {"none", "disarm"}, at : {"new", "insert", "notify", "done"},
           in : Servers \cup {"none"}] /\ [NewCall EXCEPT !.at = "done"].at = "done"
    BY DEF NewCall
  <2>3. call' = [d \in Calls |-> call'[d]] /\ call \in [Calls -> [kind : Kills \cup {"none", "disarm"},
           at : {"new", "insert", "notify", "done"}, in : Servers \cup {"none"}]]
    BY DEF Restart, IInv, TypeOK
  <2> QED BY <2>1, <2>2, <2>3 DEF IInv, Disarming, Inside
<1>6. TypeOK'
  <2>1. /\ latch' \in [Procs -> BOOLEAN] /\ synced' \in [Procs -> BOOLEAN] /\ breaker' \in [Procs -> BOOLEAN]
        /\ notes' \in [Procs -> Seq(BOOLEAN)] /\ UNCHANGED <<row, hist>>
    BY DEF Restart, IInv, TypeOK
  <2> QED BY <1>1, <1>3, <1>5, <2>1 DEF IInv, TypeOK, Reads, Words
<1> QED BY <1>2, <1>4, <1>5, <1>6 DEF Restart, IInv, RowStands, KnownKillBars

LEMMA NextOK == ASSUME IInv, [Next]_vars PROVE IInv'
<1>1. CASE UNCHANGED vars
  BY <1>1 DEF vars, IInv, TypeOK, RowStands, Told, Fresh, Waits, KnownKillBars, Disarming, Inside
<1>2. CASE Next
  BY <1>2, GateCachedOK, GateReadsOK, RefreshOK, AnswerOK, DeliverOK, ExpireOK, KillOK, TripOK, RearmOK,
     DisarmOK, InsertOK, NotifyOK, NotificationOK, DisconnectOK, RestartOK DEF Next
<1> QED BY <1>1, <1>2

(* Every variable stays in its domain, in every number of processes, calls *)
(* and reads (killSwitchDb.ts).                                            *)
THEOREM TypeCorrect == Spec => []TypeOK
  BY InitOK, NextOK, PTL DEF Spec, IInv

(* No order passes the gate of a process that was told of a kill, by its   *)
(* own pull or by a notification, before a disarm begins: not by the cache *)
(* and not by a read from before the kill (readAuthoritativeKillSwitch and *)
(* its epochs). A process that only read the kill is not counted as told.  *)
THEOREM KnownKillIsObeyed == Spec => []KnownKillBars
  BY InitOK, NextOK, PTL DEF Spec, IInv
=============================================================================
