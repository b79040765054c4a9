--------------------------- MODULE FirmKillSwitch ---------------------------
(***************************************************************************)
(* The firm's kill switch over several processes (lib/killSwitchDb.ts,     *)
(* riskGuard.ts, circuitBreaker.ts, the route app/api/firm/kill and the    *)
(* pause of brokers/reconciliation.ts).                                    *)
(*                                                                         *)
(* The latest row of kill_switches is the truth. Each process has a latch, *)
(* a cache of at most 500 ms, reads of the row under way, and a listener   *)
(* for notifications that may be lost. An epoch of the cache is modelled   *)
(* by what it decides: "cur" says that a read began in the current epoch.  *)
(***************************************************************************)
EXTENDS Integers, Sequences

CONSTANTS
  Procs,      \* server, micro executor
  Servers,    \* the processes with the routes, the breaker and the reconciliation
  Traders,    \* the processes whose orders pass the gate
  MaxReads,   \* bound: reads of the row a process may have under way
  MaxCalls,   \* bound: calls that write a row, numbered as they begin
  Env         \* a subset of Events

Events == {"dbfail",   \* a query or an insert fails
           "lost",     \* notifications are lost with the connection
           "restart"}  \* a process ends and hydrates again

Slots == 1 .. MaxReads
Calls == 1 .. MaxCalls

ASSUME FirmAssumption ==
  MaxReads \in Nat /\ MaxCalls \in Nat /\ Servers \subseteq Procs /\ Traders \subseteq Procs /\ Env \subseteq Events

VARIABLES
  row,      \* the latest row of kill_switches: "none", "armed" or "clear"
  latch,    \* riskGuard.killSwitch of each process
  synced,   \* killSwitchSyncedFromDb
  cache,    \* killSwitchDbCache while it is fresh: "none", "armed", "clear"
  read,     \* reads of the row under way
  order,    \* an order at its gate
  call,     \* calls that write a row: kind, process and next step
  notes,    \* notifications a process has not handled yet
  breaker,  \* circuitBreakerLatch
  hist      \* history: the kill that stands, who was told, an order that slipped

vars == <<row, latch, synced, cache, read, order, call, notes, breaker, hist>>

NoRead == [st |-> "idle", val |-> "none", cur |-> FALSE, shared |-> FALSE]
NewCall == [kind |-> "none", at |-> "new", in |-> "none"]
(* Mutant of Value: the word of the reply, not of the row. *)
ValueReply(armed) == IF armed THEN "armed" ELSE "disarmed"

Value(armed) == IF armed THEN "armed" ELSE "clear"
Kills == {"kill", "recon"}

Init ==
  /\ row = "none"
  /\ latch = [p \in Procs |-> FALSE]
  /\ synced = [p \in Procs |-> FALSE]
  /\ cache = [p \in Procs |-> "none"]
  /\ read = [p \in Procs |-> [r \in Slots |-> NoRead]]
  /\ order = [p \in Procs |-> [on |-> {}, late |-> FALSE]]
  /\ call = [c \in Calls |-> NewCall]
  /\ notes = [p \in Procs |-> <<>>]
  /\ breaker = [p \in Procs |-> FALSE]
  /\ hist = [stands |-> FALSE, told |-> {}, slipped |-> FALSE]

(* syncLocalLatchFromDb *)
SyncLatch(p, armed) ==
  /\ latch' = [latch EXCEPT ![p] = armed]
  /\ synced' = [synced EXCEPT ![p] = armed]

(* bumpEpoch: reads that began before are no longer shared and do not fill *)
(* the cache.                                                              *)
Outdated(reads) == [r \in Slots |-> [reads[r] EXCEPT !.cur = FALSE]]

Passed(p) == hist' = [hist EXCEPT !.slipped = @ \/ order[p].late]

-----------------------------------------------------------------------------
(* readAuthoritativeKillSwitch *)

Set(p, r, x) == read' = [read EXCEPT ![p] = [@ EXCEPT ![r] = x]]

Ask(p, r, shared) ==
  /\ read[p][r].st = "idle"
  /\ \A s \in 1 .. (r - 1) : read[p][s].st # "idle"
  /\ Set(p, r, [st |-> "asked", val |-> "none", cur |-> TRUE, shared |-> shared])

Shared(p) == {r \in Slots : read[p][r].st # "idle" /\ read[p][r].shared /\ read[p][r].cur}

(* An order with a fresh cache is decided at once. *)
GateCached(p) ==
  /\ p \in Traders
  /\ order[p].on = {} /\ cache[p] # "none"
  /\ SyncLatch(p, cache[p] = "armed")
  /\ hist' = [hist EXCEPT !.slipped = @ \/ (cache[p] = "clear" /\ p \in hist.told)]
  /\ UNCHANGED <<row, cache, read, order, call, notes, breaker>>

(* An order without one waits for a read, its own or one under way. *)
GateReads(p) ==
  /\ p \in Traders
  /\ order[p].on = {} /\ cache[p] = "none"
  /\ \E r \in Slots :
       /\ \/ r \in Shared(p) /\ read' = read
          \/ Shared(p) = {} /\ Ask(p, r, TRUE)
       /\ order' = [order EXCEPT ![p] = [on |-> {r}, late |-> p \in hist.told]]
  /\ UNCHANGED <<row, latch, synced, cache, call, notes, breaker, hist>>

(* evaluateAuthoritativeKillSwitchSync without a fresh cache denies and    *)
(* reads in the background.                                                *)
Refresh(p) ==
  /\ p \in Traders
  /\ cache[p] = "none" /\ Shared(p) = {}
  /\ \E r \in Slots : Ask(p, r, TRUE)
  /\ UNCHANGED <<row, latch, synced, cache, order, call, notes, breaker, hist>>

(* The database answers, or fails. *)
Answer(p, r) ==
  /\ read[p][r].st = "asked"
  /\ \/ Set(p, r, [read[p][r] EXCEPT !.st = "answered", !.val = row])
     \/ "dbfail" \in Env /\ Set(p, r, [read[p][r] EXCEPT !.st = "failed"])
  /\ UNCHANGED <<row, latch, synced, cache, order, call, notes, breaker, hist>>

(* Mutant of Status: a failed read leaves the last verdict. *)
StatusLast(p, x) ==
  CASE x.st = "failed" -> latch[p]
    [] x.st # "failed" /\ x.val = "none" -> latch[p] /\ ~ synced[p]
    [] x.st # "failed" /\ x.val # "none" -> x.val = "armed"

(* The verdict of a read: a failure is taken for a kill, and without any   *)
(* row a latch that was not pulled by a read stays.                        *)
Status(p, x) ==
  CASE x.st = "failed" -> TRUE
    [] x.st # "failed" /\ x.val = "none" -> latch[p] /\ ~ synced[p]
    [] x.st # "failed" /\ x.val # "none" -> x.val = "armed"

Deliver(p, r) ==
  LET x == read[p][r]
      armed == Status(p, x)
  IN /\ x.st \in {"answered", "failed"}
     /\ latch' = [latch EXCEPT ![p] = armed]
     /\ synced' = [synced EXCEPT ![p] = armed /\ (x.st = "failed" \/ x.val # "none")]
     /\ cache' = [cache EXCEPT ![p] = IF x.st = "failed" THEN "none"
                                      ELSE IF x.cur THEN Value(armed) ELSE @]
     /\ Set(p, r, NoRead)
     /\ IF order[p].on = {r} THEN order' = [order EXCEPT ![p] = [on |-> {}, late |-> FALSE]] ELSE order' = order
     /\ IF order[p].on = {r} /\ ~ armed THEN Passed(p) ELSE hist' = hist
     /\ UNCHANGED <<row, call, notes, breaker>>

(* Mutant of Expire: every use renews the lifetime. *)
ExpireRenewed(p) ==
  /\ cache[p] # "none"
  /\ cache' = [cache EXCEPT ![p] = @]
  /\ UNCHANGED <<row, latch, synced, read, order, call, notes, breaker, hist>>

(* The lifetime of the cache is over. *)
Expire(p) ==
  /\ cache[p] # "none"
  /\ cache' = [cache EXCEPT ![p] = "none"]
  /\ UNCHANGED <<row, latch, synced, read, order, call, notes, breaker, hist>>

-----------------------------------------------------------------------------
(* Calls that write a row: the latch first, then the row, then the news. *)

Begin(c, p, kind) ==
  /\ call[c].at = "new" /\ p \in Servers
  /\ \A d \in 1 .. (c - 1) : call[d].at # "new"
  /\ call' = [call EXCEPT ![c] = [kind |-> kind, at |-> "insert", in |-> p]]
  /\ latch' = [latch EXCEPT ![p] = kind # "disarm"]

(* POST /api/firm/kill with arm (the drawdown stop of the engine is alike),*)
(* and the pause of the reconciliation.                                    *)
Kill(c, p) ==
  /\ \E kind \in Kills : Begin(c, p, kind)
  /\ UNCHANGED <<row, synced, cache, read, order, notes, breaker, hist>>

(* POST /api/firm/kill without arm, with a challenge and its audit record. *)
Disarm(c, p) ==
  /\ Begin(c, p, "disarm")
  /\ order' = [q \in Procs |-> [order[q] EXCEPT !.late = FALSE]]
  /\ hist' = [hist EXCEPT !.stands = FALSE, !.told = {}]
  /\ UNCHANGED <<row, synced, cache, read, notes, breaker>>

(* checkCircuitBreaker with a trigger: not while it is latched and the     *)
(* switch is pulled.                                                       *)
Trip(c, p) ==
  /\ ~ (breaker[p] /\ latch[p])
  /\ Begin(c, p, "kill")
  /\ breaker' = [breaker EXCEPT ![p] = TRUE]
  /\ UNCHANGED <<row, synced, cache, read, order, notes, hist>>

(* ... and without: the latch falls when the switch is not pulled. *)
Rearm(p) ==
  /\ breaker[p] /\ ~ latch[p]
  /\ breaker' = [breaker EXCEPT ![p] = FALSE]
  /\ UNCHANGED <<row, latch, synced, cache, read, order, call, notes, hist>>

Done(c) == call' = [call EXCEPT ![c] = [NewCall EXCEPT !.at = "done"]]

(* An insert that fails ends the call: the route answers with an error,    *)
(* the breaker and the reconciliation go on. The latter sends no news.     *)
Insert(c) ==
  /\ call[c].at = "insert"
  /\ \/ /\ row' = IF call[c].kind = "disarm" THEN "clear" ELSE "armed"
        /\ IF call[c].kind = "recon" THEN Done(c) ELSE call' = [call EXCEPT ![c] = [@ EXCEPT !.at = "notify"]]
     \/ "dbfail" \in Env /\ row' = row /\ Done(c)
  /\ UNCHANGED <<latch, synced, cache, read, order, notes, breaker, hist>>

Disarming(c) == call[c].kind = "disarm" /\ call[c].at \in {"insert", "notify"}

(* notifyFirmControlChanged; the caller of a kill then has its answer. The *)
(* kill stands if no disarm is under way and no later row undid it.        *)
Notify(c) ==
  LET p == call[c].in
      armed == call[c].kind # "disarm"
      stands == armed /\ row = "armed" /\ \A d \in Calls : ~ Disarming(d)
  IN /\ call[c].at = "notify"
     /\ Done(c)
     /\ SyncLatch(p, armed)
     /\ cache' = [cache EXCEPT ![p] = Value(armed)]
     /\ read' = [read EXCEPT ![p] = Outdated(@)]
     /\ \/ notes' = [q \in Procs |-> Append(notes[q], armed)]
        \/ "lost" \in Env /\ notes' = notes
     /\ hist' = IF stands THEN [hist EXCEPT !.stands = TRUE, !.told = @ \cup {p}] ELSE hist
     /\ UNCHANGED <<row, order, breaker>>

-----------------------------------------------------------------------------
(* FirmControlNotificationListener *)

(* A kill pulls the latch at once; the row decides by a read of its own. *)
Notification(p) ==
  /\ notes[p] # <<>>
  /\ notes' = [notes EXCEPT ![p] = Tail(@)]
  /\ IF Head(notes[p]) THEN SyncLatch(p, TRUE) ELSE UNCHANGED <<latch, synced>>
  /\ cache' = [cache EXCEPT ![p] = "none"]
  /\ \E r \in Slots :
       /\ read[p][r].st = "idle"
       /\ \A s \in 1 .. (r - 1) : read[p][s].st # "idle"
       /\ read' = [read EXCEPT ![p] =
                     [Outdated(@) EXCEPT ![r] = [st |-> "asked", val |-> "none", cur |-> TRUE, shared |-> FALSE]]]
  /\ hist' = IF Head(notes[p]) /\ hist.stands THEN [hist EXCEPT !.told = @ \cup {p}] ELSE hist
  /\ UNCHANGED <<row, order, call, breaker>>

(* handleDisconnect *)
Disconnect(p) ==
  /\ "lost" \in Env /\ notes[p] # <<>>
  /\ notes' = [notes EXCEPT ![p] = <<>>]
  /\ cache' = [cache EXCEPT ![p] = "none"]
  /\ read' = [read EXCEPT ![p] = Outdated(@)]
  /\ UNCHANGED <<row, latch, synced, order, call, breaker, hist>>

(* A restart: the memory is empty but for the hydrated latch. *)
Restart(p) ==
  /\ "restart" \in Env
  /\ latch' = [latch EXCEPT ![p] = row = "armed"]
  /\ synced' = [synced EXCEPT ![p] = FALSE]
  /\ cache' = [cache EXCEPT ![p] = "none"]
  /\ read' = [read EXCEPT ![p] = [r \in Slots |-> NoRead]]
  /\ order' = [order EXCEPT ![p] = [on |-> {}, late |-> FALSE]]
  /\ call' = [c \in Calls |-> IF call[c].in = p THEN [NewCall EXCEPT !.at = "done"] ELSE call[c]]
  /\ notes' = [notes EXCEPT ![p] = <<>>]
  /\ breaker' = [breaker EXCEPT ![p] = FALSE]
  /\ UNCHANGED <<row, hist>>

-----------------------------------------------------------------------------
Next ==
  \/ \E c \in Calls : Insert(c) \/ Notify(c)
  \/ \E p \in Procs :
       \/ GateCached(p) \/ GateReads(p) \/ Refresh(p) \/ Expire(p)
       \/ \E r \in Slots : Answer(p, r) \/ Deliver(p, r)
       \/ \E c \in Calls : Kill(c, p) \/ Disarm(c, p) \/ Trip(c, p)
       \/ Rearm(p) \/ Notification(p) \/ Disconnect(p) \/ Restart(p)

Spec == Init /\ [][Next]_vars

-----------------------------------------------------------------------------
(* Properties *)

TypeOK ==
  /\ row \in {"none", "armed", "clear"}
  /\ latch \in [Procs -> BOOLEAN] /\ synced \in [Procs -> BOOLEAN]
  /\ cache \in [Procs -> {"none", "armed", "clear"}]
  /\ read \in [Procs -> [Slots -> [st : {"idle", "asked", "answered", "failed"}, val : {"none", "armed", "clear"},
                                   cur : BOOLEAN, shared : BOOLEAN]]]
  /\ order \in [Procs -> [on : SUBSET Slots, late : BOOLEAN]]
  /\ call \in [Calls -> [kind : Kills \cup {"none", "disarm"}, at : {"new", "insert", "notify", "done"},
                         in : Servers \cup {"none"}]]
  /\ notes \in [Procs -> Seq(BOOLEAN)]
  /\ breaker \in [Procs -> BOOLEAN]
  /\ hist \in [stands : BOOLEAN, told : SUBSET Procs, slipped : BOOLEAN]

(* An order that comes to the gate of a process that knows of a kill, from *)
(* its own call or by a notification, does not pass before a disarm: no    *)
(* cache and no read from before the kill lets it through.                 *)
KnownKillBars == ~ hist.slipped

(* A kill that stands bars, in the end, the orders of every process,       *)
(* although no notification need arrive: caches end, reads are answered.   *)
MayPass(p) ==
  \/ order[p].on = {} /\ cache[p] = "clear"
  \/ \E r \in order[p].on : read[p][r].st = "answered" /\ ~ Status(p, read[p][r])
KillReaches == (<>[]hist.stands) => <>[](\A p \in Traders : ~ MayPass(p))

FairSpec ==
  /\ Spec
  /\ \A p \in Procs : WF_vars(Expire(p))
  /\ \A p \in Procs, r \in Slots : WF_vars(Answer(p, r)) /\ WF_vars(Deliver(p, r))
=============================================================================
