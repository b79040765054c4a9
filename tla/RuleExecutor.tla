---------------------------- MODULE RuleExecutor ----------------------------
(***************************************************************************)
(* Trade rules of one symbol and mission: the rows of trade_rules and the  *)
(* operations of ruleService on them, the NOTIFY of each committed change, *)
(* the RuleCache of each executor process, which loads in two steps, and   *)
(* the execution of a matching rule (microExecutor.ts), which opens the    *)
(* one position of the symbol and records the trigger afterwards.          *)
(*                                                                         *)
(* Whether a rule's condition is true, and every gate on the way, is a     *)
(* free choice; cooldown and backoff only delay. A row's number is its     *)
(* place in the order of creation.                                         *)
(***************************************************************************)
EXTENDS Integers, FiniteSets

CONSTANTS
  Procs,       \* executor processes
  MaxRules,    \* bound: rows created
  Limit,       \* maxExecutionsPerDay of every rule
  MaxChanges,  \* bound: changes of the table
  MaxDays,     \* bound: days
  Env          \* subset of {"loadfail", "recordfail", "disconnect", "crash"}: what may go wrong

Rows == 1..MaxRules
NoRow == 0

VARIABLES
  rules,     \* trade_rules: status and previousVersionId of each row
  pending,   \* operations that have read and not yet written: the row they read, the status they will write
  changes,   \* number of changes so far
  today,     \* executions recorded today, by row
  opened,    \* history: positions a row opened today
  day,
  position,  \* the row whose position is open
  notice,    \* a notification on its way to each process
  deaf,      \* processes whose LISTEN connection is lost
  missed,    \* history: processes whose snapshot (in use, being read) missed a change
  cache,     \* the RuleCache of each process
  exec       \* executions under way: where each row stands in each process

vars == <<rules, pending, changes, today, opened, day, position, notice, deaf, missed, cache, exec>>

Active == {r \in Rows : rules[r].status = "ACTIVE"}
Zero == [r \in Rows |-> 0]

NoLoad == [stage |-> "idle", rows |-> {}, counts |-> Zero, day |-> 0, stale |-> FALSE]
EmptyCache == [rows |-> {}, counts |-> Zero, ram |-> Zero, day |-> 0, dirty |-> TRUE, load |-> NoLoad]
Idle == [r \in Rows |-> "no"]

Init ==
  /\ rules = [r \in Rows |-> [status |-> "none", prev |-> NoRow]]
  /\ pending = {} /\ changes = 0 /\ day = 0
  /\ today = Zero /\ opened = Zero
  /\ position = NoRow
  /\ notice = {} /\ deaf = {} /\ missed = [used |-> {}, read |-> {}]
  /\ cache = [p \in Procs |-> EmptyCache]
  /\ exec = [p \in Procs |-> Idle]

-----------------------------------------------------------------------------
Miss(ps) == [used |-> missed.used \cup ps, read |-> missed.read \cup ps]

(* A committed change of the table; its trigger notifies whoever listens.  *)
Change(new) ==
  /\ changes < MaxChanges
  /\ rules' = new
  /\ changes' = changes + 1
  /\ notice' = notice \cup (Procs \ deaf)
  /\ missed' = Miss(deaf)
  /\ UNCHANGED <<today, opened, day, position, deaf, cache, exec>>

(* Most operations of ruleService read, and write later what they decided, *)
(* whatever the row has become.                                            *)
Intend(r, s) ==
  /\ changes + Cardinality(pending) < MaxChanges
  /\ pending' = pending \cup {[row |-> r, status |-> s]}
  /\ UNCHANGED <<rules, changes, today, opened, day, position, notice, deaf, missed, cache, exec>>

(* A new version names the active row as its predecessor.                  *)
upsertRuleSpec == \E prev \in IF Active = {} THEN {NoRow} ELSE Active : Intend(prev, "DRAFT")
pauseRule(r) == rules[r].status = "ACTIVE" /\ Intend(r, "PAUSED")
archiveRule(r) == rules[r].status \in {"DRAFT", "PAUSED", "REJECTED", "ARCHIVED"} /\ Intend(r, "ARCHIVED")
rejectRule(r) == rules[r].status = "DRAFT" /\ Intend(r, "REJECTED")

Free(r) == rules[r].status = "none" /\ \A q \in 1..(r - 1) : rules[q].status # "none"
Written(o) == IF o.status = "DRAFT"
                THEN {[rules EXCEPT ![r] = [status |-> "DRAFT", prev |-> o.row]] : r \in {q \in Rows : Free(q)}}
                ELSE {[rules EXCEPT ![o.row].status = o.status]}
WriteRule(o) ==
  /\ pending' = pending \ {o}
  /\ \E new \in Written(o) : Change(new)

(* These two are one transaction each; a second activation at the same     *)
(* time fails by the unique index of the active rule.                      *)
activateRule(r) ==
  /\ rules[r].status \in {"DRAFT", "PAUSED", "REJECTED"}
  /\ Change([q \in Rows |-> IF q = r THEN [rules[q] EXCEPT !.status = "ACTIVE"]
                            ELSE IF q \in Active THEN [rules[q] EXCEPT !.status = "SUPERSEDED"]
                            ELSE rules[q]])
  /\ UNCHANGED pending

rollbackRule(r) ==
  /\ rules[r].status = "ACTIVE" /\ rules[r].prev # NoRow
  /\ Change([rules EXCEPT ![r].status = "SUPERSEDED", ![rules[r].prev].status = "ACTIVE"])
  /\ UNCHANGED pending

-----------------------------------------------------------------------------
(* RuleCache.invalidate, from the notification: the snapshot is not used   *)
(* any more, and a load that is under way will be thrown away.             *)
Notified(p) ==
  /\ p \in notice
  /\ notice' = notice \ {p}
  /\ cache' = [cache EXCEPT ![p].dirty = TRUE, ![p].load.stale = TRUE]
  /\ UNCHANGED <<rules, pending, changes, today, opened, day, position, deaf, missed, exec>>

Executing(p) == {r \in Rows : exec[p][r] # "no"}

(* RuleCache.load: it waits for executions under way, as none may begin    *)
(* while it reads; then it reads.                                          *)
LoadBegin(p) ==
  /\ cache[p].load.stage = "idle"
  /\ cache' = [cache EXCEPT ![p].load = [NoLoad EXCEPT !.stage = "wait"]]
  /\ UNCHANGED <<rules, pending, changes, today, opened, day, position, notice, deaf, missed, exec>>

LoadRead(p) ==
  /\ cache[p].load.stage = "wait" /\ Executing(p) = {}
  /\ cache' = [cache EXCEPT ![p].load =
                 [@ EXCEPT !.stage = "read", !.rows = Active, !.counts = today, !.day = day]]
  /\ missed' = [missed EXCEPT !.read = @ \ {p}]
  /\ UNCHANGED <<rules, pending, changes, today, opened, day, position, notice, deaf, exec>>

(* applySnapshot swaps everything at once.                                 *)
Applied(c) ==
  [c EXCEPT !.rows = c.load.rows, !.ram = Zero, !.day = day, !.dirty = FALSE, !.load = NoLoad,
            !.counts = IF c.load.day = day THEN c.load.counts ELSE Zero]

(* Mutant of Loaded: a snapshot is used whatever was notified meanwhile.   *)
LoadedAnyway(c) == Applied(c)

Loaded(c) == IF c.load.stale THEN [c EXCEPT !.load = NoLoad] ELSE Applied(c)

LoadEnd(p) ==
  /\ cache[p].load.stage = "read"
  /\ cache' = [cache EXCEPT ![p] = Loaded(@)]
  /\ missed' = IF p \in missed.read \/ cache[p].load.stale THEN missed ELSE [missed EXCEPT !.used = @ \ {p}]
  /\ UNCHANGED <<rules, pending, changes, today, opened, day, position, notice, deaf, exec>>

LoadFails(p) ==
  /\ "loadfail" \in Env /\ cache[p].load.stage = "read"
  /\ cache' = [cache EXCEPT ![p].load = NoLoad]
  /\ UNCHANGED <<rules, pending, changes, today, opened, day, position, notice, deaf, missed, exec>>

-----------------------------------------------------------------------------
(* resetDayIfNeeded *)
Today(c) == IF c.day = day THEN c ELSE [c EXCEPT !.day = day, !.ram = Zero, !.counts = Zero]

(* Mutant of MayBegin: an execution may begin while a snapshot is read.    *)
MayBeginReading(p, r) == ~ cache[p].dirty /\ exec[p][r] = "no"

MayBegin(p, r) == ~ cache[p].dirty /\ exec[p][r] = "no" /\ cache[p].load.stage = "idle"

(* RuleCache.match and beginExecution *)
Match(p, r) ==
  /\ MayBegin(p, r)
  /\ r \in cache[p].rows
  /\ LET c == Today(cache[p])
     IN /\ c.counts[r] + c.ram[r] < Limit
        /\ cache' = [cache EXCEPT ![p] = c]
  /\ exec' = [exec EXCEPT ![p][r] = "begun"]
  /\ UNCHANGED <<rules, pending, changes, today, opened, day, position, notice, deaf, missed>>

(* submitAtomic under the lock of the account: the open position of the    *)
(* symbol is looked up in the database.                                    *)
Submit(p, r) ==
  /\ exec[p][r] = "begun" /\ position = NoRow
  /\ position' = r
  /\ opened' = [opened EXCEPT ![r] = @ + 1]
  /\ exec' = [exec EXCEPT ![p][r] = "filled"]
  /\ UNCHANGED <<rules, pending, changes, today, day, notice, deaf, missed, cache>>

(* A gate, a kill or the open position blocks.                             *)
Blocked(p, r) ==
  /\ exec[p][r] = "begun"
  /\ exec' = [exec EXCEPT ![p][r] = "no"]
  /\ UNCHANGED <<rules, pending, changes, today, opened, day, position, notice, deaf, missed, cache>>

(* The row of rule_executions, written after the position.                 *)
Record(p, r) ==
  /\ exec[p][r] = "filled"
  /\ today' = [today EXCEPT ![r] = @ + 1]
  /\ exec' = [exec EXCEPT ![p][r] = "recorded"]
  /\ UNCHANGED <<rules, pending, changes, opened, day, position, notice, deaf, missed, cache>>

(* It fails: the outcome is ERROR and nothing is noted.                    *)
RecordFails(p, r) ==
  /\ "recordfail" \in Env /\ exec[p][r] = "filled"
  /\ exec' = [exec EXCEPT ![p][r] = "no"]
  /\ UNCHANGED <<rules, pending, changes, today, opened, day, position, notice, deaf, missed, cache>>

(* noteFired and endExecution *)
Fired(p, r) ==
  /\ exec[p][r] = "recorded"
  /\ LET c == Today(cache[p]) IN cache' = [cache EXCEPT ![p] = [c EXCEPT !.ram[r] = @ + 1]]
  /\ exec' = [exec EXCEPT ![p][r] = "no"]
  /\ UNCHANGED <<rules, pending, changes, today, opened, day, position, notice, deaf, missed>>

-----------------------------------------------------------------------------
(* The position is closed by its exits; the day turns;   *)
(* the LISTEN connection breaks and comes back; a process restarts.        *)
Close ==
  /\ position # NoRow
  /\ position' = NoRow
  /\ UNCHANGED <<rules, pending, changes, today, opened, day, notice, deaf, missed, cache, exec>>

NextDay ==
  /\ day < MaxDays
  /\ day' = day + 1 /\ today' = Zero /\ opened' = Zero
  /\ UNCHANGED <<rules, pending, changes, position, notice, deaf, missed, cache, exec>>

Disconnect(p) ==
  /\ "disconnect" \in Env /\ p \notin deaf
  /\ deaf' = deaf \cup {p}
  /\ missed' = Miss(notice \cap {p})
  /\ notice' = notice \ {p}
  /\ UNCHANGED <<rules, pending, changes, today, opened, day, position, cache, exec>>

Reconnect(p) ==
  /\ p \in deaf
  /\ deaf' = deaf \ {p}
  /\ UNCHANGED <<rules, pending, changes, today, opened, day, position, notice, missed, cache, exec>>

Restart(p) ==
  /\ "crash" \in Env
  /\ cache' = [cache EXCEPT ![p] = [EmptyCache EXCEPT !.day = day]]
  /\ exec' = [exec EXCEPT ![p] = Idle]
  /\ UNCHANGED <<rules, pending, changes, today, opened, day, position, notice, deaf, missed>>

Next ==
  \/ upsertRuleSpec \/ \E o \in pending : WriteRule(o)
  \/ \E r \in Rows : activateRule(r) \/ pauseRule(r) \/ archiveRule(r) \/ rejectRule(r) \/ rollbackRule(r)
  \/ \E p \in Procs :
       \/ Notified(p) \/ LoadBegin(p) \/ LoadRead(p) \/ LoadEnd(p) \/ LoadFails(p)
       \/ Disconnect(p) \/ Reconnect(p) \/ Restart(p)
       \/ \E r \in Rows :
            Match(p, r) \/ Submit(p, r) \/ Blocked(p, r) \/ Record(p, r) \/ RecordFails(p, r) \/ Fired(p, r)
  \/ Close \/ NextDay

Spec == Init /\ [][Next]_vars

-----------------------------------------------------------------------------
(* Properties *)

(* A cache that may be matched against holds exactly the active rules,     *)
(* unless a notification is still on its way or was lost: a change that    *)
(* commits while a load reads is not overwritten by what the load read.    *)
CacheIsCurrent ==
  \A p \in Procs : ~ cache[p].dirty /\ p \notin notice \cup missed.used => cache[p].rows = Active

(* No rule opens more positions on a day than its limit, though the count  *)
(* is kept in two places and a load replaces the one by the other.         *)
DailyLimit == \A r \in Rows : opened[r] <= Limit
=============================================================================
