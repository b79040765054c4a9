------------------------------ MODULE LiveGate ------------------------------
(***************************************************************************)
(* The gate every live order has to pass (src/src/live-gate): the state    *)
(* machine of one venue (service.ts, states.ts), its state file with a     *)
(* cache per process (store.ts), the kill switch in memory and in a file   *)
(* (runtime.ts, killFile.ts) and the decision on an order (enforcer.ts).   *)
(*                                                                         *)
(* The server handles several requests; a command line process shares its  *)
(* directory.  A handler runs until it awaits a check, so a synchronous    *)
(* stretch is one step; kill and clearKill, which touch several files in   *)
(* a row, take one step per file, for a crash or another process to come   *)
(* in between.  Reasons, actors and the audit log are left out.            *)
(***************************************************************************)
EXTENDS Integers, FiniteSets

CONSTANTS
  Procs,          \* the operating system processes that share the directory
  Servers,        \* those among them that serve transition and place orders
  Requests,       \* the requests a process can have in flight
  ProcOf,         \* the process of a request
  Scopes,         \* what a kill may be aimed at: "ALL" venues, this venue
  Principals,     \* the authenticated principals
  FourEyes,       \* LIVE_GATE_FOUR_EYES
  WriteFaults,    \* whether a write of a file may fail
  MaxAsks,        \* bound on the entries into LIVE_PENDING
  MaxApprovals,   \* bound on the first approvals
  MaxCrashes      \* bound on crashes and restarts of servers

ASSUME ProcessAssumption ==
  /\ Servers \subseteq Procs /\ ProcOf \in [Requests -> Procs]
  /\ "ALL" \in Scopes
  /\ FourEyes \in BOOLEAN /\ WriteFaults \in BOOLEAN
ASSUME BoundAssumption ==
  MaxAsks \in Nat /\ MaxApprovals \in Nat /\ MaxCrashes \in Nat

VARIABLES
  disk,      \* venue-{VENUE}.json
  cache,     \* LiveGateStore.cache of every process
  loaded,    \* the processes whose cache holds the record
  memory,    \* killedMemory of every process
  file,      \* kill-switch.json: the scopes with an entry
  req,       \* the requests in flight
  cooled,    \* the entries into LIVE_PENDING whose cooldown is over
  expired,   \* the first approvals whose 15 minutes are over
  asks,      \* entries into LIVE_PENDING so far: their time stamps
  approvals, \* first approvals so far: their approvalIds
  ready,     \* flags, suite stamp, control plane and firm kill switch say yes
  crashes,   \* crashes so far
  hist       \* history: the kills filed and those acknowledged that nobody has
             \* cleared, the latest request for live, who signed which

vars == <<disk, cache, loaded, memory, file, req, cooled, expired, asks,
          approvals, ready, crashes, hist>>

(* What the gate promises, read off the files. *)
Contract == INSTANCE LiveGateContract
              WITH state <- disk.state, killed <- file, acked <- hist.killed

DISCONNECTED == 0
PAPER_APPROVED == 5
LIVE_PENDING == 6
HUMAN_APPROVED == 7
LIVE_ENABLED == 8
States == DISCONNECTED .. LIVE_ENABLED

(* A record.  intent: pendingTransition is set; asked: livePendingAt;      *)
(* approval: the first approval, with its proposer, its id and its target. *)
NoApproval == [id |-> 0, by |-> {}, to |-> DISCONNECTED]
InitialRecord == [state |-> DISCONNECTED, intent |-> FALSE, asked |-> 0, approval |-> NoApproval]

Approvals == [id : 0 .. MaxApprovals, by : SUBSET Principals, to : States]
Records == [state : States, intent : BOOLEAN, asked : 0 .. MaxAsks, approval : Approvals]

(* A request between two steps.  to: the state it heads for; scope and     *)
(* entries: of a kill or a clear under way.                                *)
Idle == [pc |-> "idle", to |-> DISCONNECTED, scope |-> "ALL", entries |-> {}]
Locals == [pc : {"idle", "check", "file", "reset", "unlink"}, to : States, scope : Scopes,
           entries : SUBSET Scopes]

Init ==
  /\ disk = InitialRecord
  /\ cache = [p \in Procs |-> InitialRecord]
  /\ loaded = {}
  /\ memory = [p \in Procs |-> {}]
  /\ file = {}
  /\ req = [r \in Requests |-> Idle]
  /\ cooled = {} /\ expired = {} /\ asks = 0 /\ approvals = 0
  /\ ready = FALSE /\ crashes = 0
  /\ hist = [filed |-> {}, killed |-> {}, ask |-> 0, signed |-> {}]

-----------------------------------------------------------------------------
(* The store.                                                              *)

(* read, the first time: an intent found in the file is a transition that  *)
(* a crash has cut off, and is dropped.                                    *)
Load(p) ==
  LET rec == [disk EXCEPT !.intent = FALSE] IN
  /\ p \notin loaded
  /\ loaded' = loaded \cup {p}
  /\ cache' = [cache EXCEPT ![p] = rec]
  /\ disk' = rec \/ (WriteFaults /\ UNCHANGED disk)
  /\ UNCHANGED <<memory, file, req, cooled, expired, asks, approvals, ready, crashes, hist>>

Write(p, rec) == disk' = rec /\ cache' = [cache EXCEPT ![p] = rec]
NotWritten == WriteFaults /\ UNCHANGED <<disk, cache>>

(* auditDeny counts the denial in the record it has and writes it back. *)
AuditDeny(p) == Write(p, cache[p]) \/ NotWritten

(* r's process is idle or awaits a check; its Turn comes with the record.  *)
Free(r) == \A s \in Requests : ProcOf[s] = ProcOf[r] => req[s].pc \in {"idle", "check"}
Turn(r) == Free(r) /\ ProcOf[r] \in loaded

Goes(r, l) == req' = [req EXCEPT ![r] = l]

(* Mutant of Killed: a kill is known to its own process only. *)
KilledHere(p) == memory[p] # {}

(* isKilled: the memory of the process, then the file. *)
Killed(p) == memory[p] # {} \/ file # {}

-----------------------------------------------------------------------------
(* transition                                                              *)

(* A request that the policy, the matrix, a kill or a failed write denies. *)
Refuse(r) ==
  /\ Turn(r) /\ ProcOf[r] \in Servers /\ req[r].pc = "idle"
  /\ AuditDeny(ProcOf[r])
  /\ UNCHANGED <<loaded, memory, file, req, cooled, expired, asks, approvals, ready, crashes, hist>>

(* The part every request for the next state goes through. *)
Requested(r, to) ==
  /\ Turn(r) /\ ProcOf[r] \in Servers /\ req[r].pc = "idle"
  /\ ~Killed(ProcOf[r])
  /\ cache[ProcOf[r]].state = to - 1

(* An intent is written before a check is awaited. *)
BeginCheck(r) ==
  LET p == ProcOf[r] to == cache[p].state + 1 IN
  /\ to <= PAPER_APPROVED /\ Requested(r, to)
  /\ Write(p, [cache[p] EXCEPT !.intent = TRUE])
  /\ Goes(r, [Idle EXCEPT !.pc = "check", !.to = to])
  /\ UNCHANGED <<loaded, memory, file, cooled, expired, asks, approvals, ready, crashes, hist>>

CheckFailed(r) ==
  LET p == ProcOf[r] IN
  /\ Turn(r) /\ req[r].pc = "check"
  /\ Write(p, [cache[p] EXCEPT !.intent = FALSE]) \/ NotWritten
  /\ Goes(r, Idle)
  /\ UNCHANGED <<loaded, memory, file, cooled, expired, asks, approvals, ready, crashes, hist>>

(* Mutant of Committed: each later step restarts the cooldown. *)
CommittedRestarts(p, to) ==
  [cache[p] EXCEPT !.state = to, !.intent = FALSE, !.approval = NoApproval,
                   !.asked = IF to >= LIVE_PENDING THEN asks + 1 ELSE @]

(* The commit reads the record again and overwrites what it finds. *)
Committed(p, to) ==
  [cache[p] EXCEPT !.state = to, !.intent = FALSE, !.approval = NoApproval,
                   !.asked = IF to = LIVE_PENDING THEN asks + 1
                             ELSE IF to = HUMAN_APPROVED THEN 0 ELSE @]

CheckPassed(r) ==
  LET p == ProcOf[r] IN
  /\ Turn(r) /\ req[r].pc = "check"
  /\ Write(p, Committed(p, req[r].to)) \/ (WriteFaults /\ AuditDeny(p))
  /\ Goes(r, Idle)
  /\ UNCHANGED <<loaded, memory, file, cooled, expired, asks, approvals, ready, crashes, hist>>

(* LIVE_PENDING starts the cooldown. *)
Ask(r) ==
  /\ Requested(r, LIVE_PENDING) /\ asks < MaxAsks
  /\ Write(ProcOf[r], Committed(ProcOf[r], LIVE_PENDING))
  /\ asks' = asks + 1
  /\ hist' = [hist EXCEPT !.ask = asks + 1]
  /\ UNCHANGED <<loaded, memory, file, req, cooled, expired, approvals, ready, crashes>>

(* The human gate: confirmed, with a reason, after the cooldown. *)
HumanStep(r, to) ==
  /\ to \in {HUMAN_APPROVED, LIVE_ENABLED}
  /\ Requested(r, to)
  /\ to = HUMAN_APPROVED => cache[ProcOf[r]].asked \in cooled

Sign(q) == [hist EXCEPT !.signed = @ \cup {<<q, hist.ask>>}]

(* enforceFourEyes, first step: the approval waits in the record. *)
Propose(r, q, to) ==
  LET p == ProcOf[r] IN
  /\ FourEyes /\ HumanStep(r, to)
  /\ cache[p].approval = NoApproval /\ approvals < MaxApprovals
  /\ Write(p, [cache[p] EXCEPT !.approval = [id |-> approvals + 1, by |-> {q}, to |-> to]])
  /\ approvals' = approvals + 1
  /\ hist' = Sign(q)
  /\ UNCHANGED <<loaded, memory, file, req, cooled, expired, asks, ready, crashes>>

(* enforceFourEyes, second step: an approval that has expired is dropped. *)
DropExpired(r, to) ==
  LET p == ProcOf[r] IN
  /\ FourEyes /\ HumanStep(r, to) /\ cache[p].approval.id \in expired
  /\ Write(p, [cache[p] EXCEPT !.approval = NoApproval])
  /\ UNCHANGED <<loaded, memory, file, req, cooled, expired, asks, approvals, ready, crashes, hist>>

(* Mutant of Countersigned: any principal may countersign. *)
CountersignedBySelf(a, q, to) == a.id # 0 /\ a.id \notin expired /\ a.to = to

(* evaluateFourEyes for a caller who presents the approvalId. *)
Countersigned(a, q, to) ==
  a.id # 0 /\ a.id \notin expired /\ a.to = to /\ q \notin a.by

(* HUMAN_APPROVED and LIVE_ENABLED; the latter asks the enforcer first. *)
Approve(r, q, to) ==
  LET p == ProcOf[r] IN
  /\ HumanStep(r, to)
  /\ FourEyes => Countersigned(cache[p].approval, q, to)
  /\ to = LIVE_ENABLED => ready
  /\ Write(p, Committed(p, to))
  /\ hist' = Sign(q)
  /\ UNCHANGED <<loaded, memory, file, req, cooled, expired, asks, approvals, ready, crashes>>

-----------------------------------------------------------------------------
(* disable, kill and clearKill                                             *)

Reset(rec) == [rec EXCEPT !.state = DISCONNECTED, !.intent = FALSE, !.asked = 0,
                          !.approval = NoApproval]

Disable(r) ==
  LET p == ProcOf[r] IN
  /\ Turn(r) /\ p \in Servers /\ req[r].pc = "idle" /\ cache[p].state # DISCONNECTED
  /\ Write(p, Reset(cache[p]))
  /\ hist' = [hist EXCEPT !.ask = 0]
  /\ UNCHANGED <<loaded, memory, file, req, cooled, expired, asks, approvals, ready, crashes>>

(* A server is free to act; the command line runs one command and ends. *)
Starts(r) ==
  LET p == ProcOf[r] IN
  /\ Free(r) /\ req[r].pc = "idle"
  /\ p \in Servers \/ (p \notin loaded /\ memory[p] = {})

(* kill: the memory first, then the file, then the state. *)
KillMemory(r, s) ==
  LET p == ProcOf[r] IN
  /\ Starts(r)
  /\ memory' = [memory EXCEPT ![p] = @ \cup {s}]
  /\ Goes(r, [Idle EXCEPT !.pc = "file", !.scope = s])
  /\ UNCHANGED <<disk, cache, loaded, file, cooled, expired, asks, approvals, ready, crashes, hist>>

KillFile(r) ==
  /\ req[r].pc = "file"
  /\ \/ /\ file' = file \cup {req[r].scope}
        /\ hist' = [hist EXCEPT !.filed = @ \cup {req[r].scope}]
     \/ WriteFaults /\ UNCHANGED <<file, hist>>
  /\ Goes(r, [req[r] EXCEPT !.pc = "reset"])
  /\ UNCHANGED <<disk, cache, loaded, memory, cooled, expired, asks, approvals, ready, crashes>>

(* kill returns: the kill stands if it was filed and not cleared since. *)
Acknowledged(r) ==
  [hist EXCEPT !.ask = 0, !.killed = @ \cup ({req[r].scope} \cap hist.filed)]

(* Mutant of KillReset: the state of the venue is not taken down. *)
KillResetForgotten(r) ==
  /\ req[r].pc = "reset" /\ ProcOf[r] \in loaded
  /\ hist' = Acknowledged(r)
  /\ Goes(r, Idle)
  /\ UNCHANGED <<disk, cache, loaded, memory, file, cooled, expired, asks, approvals, ready, crashes>>

KillReset(r) ==
  LET p == ProcOf[r] IN
  /\ req[r].pc = "reset" /\ ProcOf[r] \in loaded
  /\ Write(p, Reset(cache[p])) \/ NotWritten
  /\ hist' = Acknowledged(r)
  /\ Goes(r, Idle)
  /\ UNCHANGED <<loaded, memory, file, cooled, expired, asks, approvals, ready, crashes>>

(* clearKill: the entries are read, then those of other scopes written. *)
ClearRead(r, s) ==
  /\ Starts(r)
  /\ Goes(r, [Idle EXCEPT !.pc = "unlink", !.scope = s, !.entries = file])
  /\ UNCHANGED <<disk, cache, loaded, memory, file, cooled, expired, asks, approvals, ready, crashes, hist>>

(* Mutant of ClearWrite: clearing one scope empties the file. *)
ClearWriteAll(r) ==
  LET p == ProcOf[r] s == req[r].scope IN
  /\ req[r].pc = "unlink"
  /\ file' = IF s \in req[r].entries THEN {} ELSE file
  /\ memory' = [memory EXCEPT ![p] = @ \ {s}]
  /\ hist' = [hist EXCEPT !.filed = @ \ {s}, !.killed = @ \ {s}]
  /\ Goes(r, Idle)
  /\ UNCHANGED <<disk, cache, loaded, cooled, expired, asks, approvals, ready, crashes>>

ClearWrite(r) ==
  LET p == ProcOf[r] s == req[r].scope IN
  /\ req[r].pc = "unlink"
  /\ file' = IF s \in req[r].entries THEN req[r].entries \ {s} ELSE file
  /\ memory' = [memory EXCEPT ![p] = @ \ {s}]
  /\ hist' = [hist EXCEPT !.filed = @ \ {s}, !.killed = @ \ {s}]
  /\ Goes(r, Idle)
  /\ UNCHANGED <<disk, cache, loaded, cooled, expired, asks, approvals, ready, crashes>>

-----------------------------------------------------------------------------
(* The environment.                                                        *)

(* The process ends or restarts: cache, memory and requests are lost. *)
Crash(p) ==
  /\ IF p \in Servers THEN crashes < MaxCrashes /\ crashes' = crashes + 1
     ELSE UNCHANGED crashes
  /\ loaded' = loaded \ {p}
  /\ cache' = [cache EXCEPT ![p] = InitialRecord]
  /\ memory' = [memory EXCEPT ![p] = {}]
  /\ req' = [r \in Requests |-> IF ProcOf[r] = p THEN Idle ELSE req[r]]
  /\ UNCHANGED <<disk, file, cooled, expired, asks, approvals, ready, hist>>

Tick ==
  /\ \/ \E n \in (1 .. asks) \ cooled : cooled' = cooled \cup {n} /\ UNCHANGED expired
     \/ \E n \in (1 .. approvals) \ expired : expired' = expired \cup {n} /\ UNCHANGED cooled
  /\ UNCHANGED <<disk, cache, loaded, memory, file, req, asks, approvals, ready, crashes, hist>>

(* Flags, suite stamp, control plane and the firm's own kill switch. *)
Switch ==
  /\ ready' = ~ready
  /\ UNCHANGED <<disk, cache, loaded, memory, file, req, cooled, expired, asks, approvals,
                 crashes, hist>>

Transition(r) ==
  \/ Refuse(r) \/ BeginCheck(r) \/ CheckFailed(r) \/ CheckPassed(r) \/ Ask(r)
  \/ \E to \in {HUMAN_APPROVED, LIVE_ENABLED} :
       DropExpired(r, to) \/ \E q \in Principals : Propose(r, q, to) \/ Approve(r, q, to)

Next ==
  \/ \E p \in Procs : Load(p) \/ Crash(p)
  \/ \E r \in Requests :
       \/ Transition(r) \/ Disable(r) \/ KillFile(r) \/ KillReset(r) \/ ClearWrite(r)
       \/ \E s \in Scopes : KillMemory(r, s) \/ ClearRead(r, s)
  \/ Tick \/ Switch

Spec == Init /\ [][Next]_vars

-----------------------------------------------------------------------------
(* evaluateLiveOrder                                                       *)

Known(p) == IF p \in loaded THEN cache[p] ELSE disk
Allowed(p) == ready /\ ~Killed(p) /\ Known(p).state = LIVE_ENABLED

(* Every variable stays in its domain; one type invariant for the module. *)
TypeOK ==
  /\ disk \in Records
  /\ cache \in [Procs -> Records]
  /\ loaded \subseteq Procs
  /\ memory \in [Procs -> SUBSET Scopes]
  /\ file \subseteq Scopes
  /\ req \in [Requests -> Locals]
  /\ cooled \subseteq 1 .. MaxAsks /\ expired \subseteq 1 .. MaxApprovals
  /\ asks \in 0 .. MaxAsks /\ approvals \in 0 .. MaxApprovals
  /\ ready \in BOOLEAN /\ crashes \in 0 .. MaxCrashes
  /\ hist \in [filed : SUBSET Scopes, killed : SUBSET Scopes, ask : 0 .. MaxAsks,
               signed : SUBSET (Principals \X (0 .. MaxAsks))]

(* kill: once it is acknowledged no process lets an order pass, through    *)
(* restarts and concurrent requests, until its scope is cleared.           *)
KillDominates == hist.killed # {} => \A p \in Servers : ~Allowed(p)

(* The human gate: a process that lets an order pass does so on a request  *)
(* for live that was made after the latest kill or disable returned, has   *)
(* cooled down and, with four eyes, was signed by two principals.          *)
Signers == {q \in Principals : <<q, hist.ask>> \in hist.signed}
HumanGate ==
  (\E p \in Servers : Allowed(p)) =>
    hist.ask \in cooled /\ (FourEyes => Cardinality(Signers) >= 2)

(* states.ts: the state moves along the matrix or down to DISCONNECTED. *)
OnlyLegalMoves ==
  [][\A p \in Servers : LET a == Known(p).state b == Known(p)'.state IN
       b \in {a, a + 1, DISCONNECTED}]_vars

(* One request at a time, the service is the contract, though a crash may  *)
(* cut a check, a kill or a clear in two.                                  *)
ImplementsContract == Contract!Spec
=============================================================================
