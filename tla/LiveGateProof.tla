--------------------------- MODULE LiveGateProof ---------------------------
(***************************************************************************)
(* Proofs about LiveGate, for any number of requests and principals, any   *)
(* bounds and with or without write faults: the type invariant; that an    *)
(* acknowledged kill dominates wherever the kill file is rewritten by one  *)
(* process only, or knows one scope only; and for one process whose writes *)
(* succeed, the human gate, and the contract if it has one request at a    *)
(* time.                                                                   *)
(***************************************************************************)
EXTENDS LiveGate, FiniteSetTheorems, TLAPS

(* A request waits for one of the five automatic checks only. *)
CheckTargets == \A r \in Requests : req[r].pc = "check" => req[r].to <= PAPER_APPROVED

TypeInv == TypeOK /\ CheckTargets

(* Whatever is written is a record; so disk and caches hold records. *)
LEMMA WriteTyped ==
  ASSUME TypeOK, NEW p \in Procs, NEW rec \in Records, Write(p, rec)
  PROVE  disk' \in Records /\ cache' \in [Procs -> Records]
BY DEF TypeOK, Write

LEMMA DenyTyped ==
  ASSUME TypeOK, NEW p \in Procs, AuditDeny(p)
  PROVE  disk' \in Records /\ cache' \in [Procs -> Records]
<1>1. CASE Write(p, cache[p])
  <2>1. cache[p] \in Records BY DEF TypeOK
  <2> QED BY <1>1, <2>1, WriteTyped
<1>2. CASE NotWritten
  BY <1>2 DEF NotWritten, TypeOK
<1> QED BY <1>1, <1>2 DEF AuditDeny

LEMMA IdleTyped == Idle \in Locals
BY ProcessAssumption DEF Idle, Locals, States, DISCONNECTED, LIVE_ENABLED

LEMMA NoApprovalTyped == NoApproval \in Approvals
BY BoundAssumption DEF NoApproval, Approvals, States, DISCONNECTED, LIVE_ENABLED

(* The fields of a record may be replaced one by one. *)
LEMMA RecordFields ==
  ASSUME NEW rec \in Records,
         NEW i \in BOOLEAN, NEW a \in Approvals
  PROVE  /\ [rec EXCEPT !.intent = i] \in Records
         /\ [rec EXCEPT !.approval = a] \in Records
BY DEF Records

(* A commit to a state whose time stamp is still free. *)
LEMMA CommittedTyped ==
  ASSUME TypeOK, NEW p \in Procs, NEW to \in States, to = LIVE_PENDING => asks < MaxAsks
  PROVE  Committed(p, to) \in Records
<1> DEFINE n == IF to = LIVE_PENDING THEN asks + 1
                ELSE IF to = HUMAN_APPROVED THEN 0 ELSE cache[p].asked
<1>1. cache[p] \in Records BY DEF TypeOK
<1>2. cache[p].asked \in 0 .. MaxAsks BY <1>1 DEF Records
<1>3. asks \in 0 .. MaxAsks BY DEF TypeOK
<1>4. n \in 0 .. MaxAsks BY <1>2, <1>3, BoundAssumption
<1>5. FALSE \in BOOLEAN OBVIOUS
<1> HIDE DEF n
<1>6. [cache[p] EXCEPT !.state = to, !.intent = FALSE, !.approval = NoApproval, !.asked = n]
        \in Records
  BY <1>1, <1>4, <1>5, NoApprovalTyped, Zenon DEF Records
<1> QED BY <1>6 DEF Committed, n

LEMMA ResetTyped ==
  ASSUME NEW rec \in Records
  PROVE  Reset(rec) \in Records
<1>1. DISCONNECTED \in States /\ 0 \in 0 .. MaxAsks
  BY BoundAssumption DEF States, DISCONNECTED, LIVE_ENABLED
<1>2. FALSE \in BOOLEAN OBVIOUS
<1> QED BY <1>1, <1>2, NoApprovalTyped, Zenon DEF Reset, Records

(* A request moves on; what it waits for stays an automatic check. *)
LEMMA GoesTyped ==
  ASSUME TypeInv, NEW r \in Requests, NEW l \in Locals,
         l.pc = "check" => l.to <= PAPER_APPROVED, Goes(r, l)
  PROVE  req' \in [Requests -> Locals] /\ CheckTargets'
BY DEF TypeInv, TypeOK, CheckTargets, Goes

(***************************************************************************)
(* The type invariant, action by action.                                   *)
(***************************************************************************)
LEMMA TypeInit == Init => TypeInv
<1> SUFFICES ASSUME Init PROVE TypeInv OBVIOUS
<1>1. InitialRecord \in Records
  BY NoApprovalTyped, BoundAssumption
  DEF InitialRecord, Records, States, DISCONNECTED, LIVE_ENABLED
<1>2. req \in [Requests -> Locals] /\ CheckTargets
  BY IdleTyped DEF Init, CheckTargets, Idle
<1>3. hist \in [filed : SUBSET Scopes, killed : SUBSET Scopes, ask : 0 .. MaxAsks,
                signed : SUBSET (Principals \X (0 .. MaxAsks))]
  BY BoundAssumption DEF Init
<1>4. /\ disk \in Records
      /\ cache \in [Procs -> Records]
      /\ loaded \subseteq Procs
      /\ memory \in [Procs -> SUBSET Scopes]
  BY <1>1 DEF Init
<1>5. 0 \in 0 .. MaxAsks /\ 0 \in 0 .. MaxApprovals /\ 0 \in 0 .. MaxCrashes
  BY BoundAssumption
<1>6. /\ file \subseteq Scopes
      /\ cooled \subseteq 1 .. MaxAsks /\ expired \subseteq 1 .. MaxApprovals
      /\ asks \in 0 .. MaxAsks /\ approvals \in 0 .. MaxApprovals
      /\ ready \in BOOLEAN /\ crashes \in 0 .. MaxCrashes
  BY <1>5, Zenon DEF Init
<1> QED BY <1>2, <1>3, <1>4, <1>6 DEF TypeInv, TypeOK

(* Load, the requests that are refused and the steps of the environment.   *)
LEMMA LoadTyped ==
  ASSUME TypeInv, NEW p \in Procs, Load(p)
  PROVE  TypeInv'
<1>1. [disk EXCEPT !.intent = FALSE] \in Records
  BY RecordFields, NoApprovalTyped DEF TypeInv, TypeOK
<1> QED BY <1>1 DEF Load, TypeInv, TypeOK, CheckTargets

LEMMA RefuseTyped ==
  ASSUME TypeInv, NEW r \in Requests, Refuse(r)
  PROVE  TypeInv'
<1>1. ProcOf[r] \in Procs BY ProcessAssumption
<1>2. disk' \in Records /\ cache' \in [Procs -> Records]
  BY <1>1, DenyTyped DEF Refuse, TypeInv
<1> QED BY <1>2 DEF Refuse, TypeInv, TypeOK, CheckTargets

LEMMA CrashTyped ==
  ASSUME TypeInv, NEW p \in Procs, Crash(p)
  PROVE  TypeInv'
<1>1. InitialRecord \in Records
  BY NoApprovalTyped, BoundAssumption
  DEF InitialRecord, Records, States, DISCONNECTED, LIVE_ENABLED
<1>2. cache' \in [Procs -> Records] BY <1>1 DEF Crash, TypeInv, TypeOK
<1>3. req' \in [Requests -> Locals] /\ CheckTargets'
  BY IdleTyped DEF Crash, TypeInv, TypeOK, CheckTargets, Idle
<1>4. crashes' \in 0 .. MaxCrashes
  BY BoundAssumption DEF Crash, TypeInv, TypeOK
<1>5. loaded' \subseteq Procs /\ memory' \in [Procs -> SUBSET Scopes]
  BY DEF Crash, TypeInv, TypeOK
<1> QED BY <1>2, <1>3, <1>4, <1>5 DEF Crash, TypeInv, TypeOK

LEMMA EnvironmentTyped == ASSUME TypeInv, Tick \/ Switch PROVE TypeInv'
<1>1. CASE Tick
  <2>1. 1 .. asks \subseteq 1 .. MaxAsks /\ 1 .. approvals \subseteq 1 .. MaxApprovals
    BY BoundAssumption DEF TypeInv, TypeOK
  <2>2. cooled' \subseteq 1 .. MaxAsks /\ expired' \subseteq 1 .. MaxApprovals
    BY <1>1, <2>1, Zenon DEF Tick, TypeInv, TypeOK
  <2> QED BY <1>1, <2>2 DEF Tick, TypeInv, TypeOK, CheckTargets
<1>2. CASE Switch BY <1>2 DEF Switch, TypeInv, TypeOK, CheckTargets
<1> QED BY <1>1, <1>2

(* The five automatic checks. *)
LEMMA CheckTyped ==
  ASSUME TypeInv, NEW r \in Requests, BeginCheck(r) \/ CheckFailed(r) \/ CheckPassed(r)
  PROVE  TypeInv'
<1> DEFINE p == ProcOf[r]
<1>1. p \in Procs /\ cache[p] \in Records
  BY ProcessAssumption DEF TypeInv, TypeOK
<1>2. TRUE \in BOOLEAN /\ FALSE \in BOOLEAN OBVIOUS
<1>3. CASE BeginCheck(r)
  <2> DEFINE to == cache[p].state + 1
             l == [Idle EXCEPT !.pc = "check", !.to = to]
  <2>1. to \in States /\ to <= PAPER_APPROVED
    BY <1>1, <1>3 DEF BeginCheck, Records, States, DISCONNECTED, PAPER_APPROVED, LIVE_ENABLED
  <2>2. Goes(r, l) BY <1>3 DEF BeginCheck
  <2>3. l \in Locals /\ l.to = to
    BY <2>1, ProcessAssumption DEF Idle, Locals
  <2>4. [cache[p] EXCEPT !.intent = TRUE] \in Records
    BY <1>1, <1>2, NoApprovalTyped, RecordFields
  <2>5. disk' \in Records /\ cache' \in [Procs -> Records]
    BY <1>1, <1>3, <2>4, WriteTyped DEF BeginCheck, TypeInv
  <2> HIDE DEF l, to
  <2>6. req' \in [Requests -> Locals] /\ CheckTargets'
    BY <2>1, <2>2, <2>3, GoesTyped
  <2> QED BY <1>3, <2>5, <2>6 DEF BeginCheck, TypeInv, TypeOK
<1>4. CASE CheckFailed(r)
  <2>1. [cache[p] EXCEPT !.intent = FALSE] \in Records
    BY <1>1, <1>2, NoApprovalTyped, RecordFields
  <2>2. disk' \in Records /\ cache' \in [Procs -> Records]
    BY <1>1, <1>4, <2>1, WriteTyped DEF CheckFailed, NotWritten, TypeInv, TypeOK
  <2>3. req' \in [Requests -> Locals] /\ CheckTargets'
    BY <1>4, IdleTyped, GoesTyped DEF CheckFailed, Idle
  <2> QED BY <1>4, <2>2, <2>3 DEF CheckFailed, TypeInv, TypeOK
<1>5. CASE CheckPassed(r)
  <2>1. req[r].to \in States /\ req[r].to # LIVE_PENDING
    BY <1>5 DEF CheckPassed, TypeInv, TypeOK, CheckTargets, Locals, PAPER_APPROVED, LIVE_PENDING
  <2>2. Committed(p, req[r].to) \in Records
    BY <1>1, <2>1, CommittedTyped DEF TypeInv
  <2>3. disk' \in Records /\ cache' \in [Procs -> Records]
    BY <1>1, <1>5, <2>2, WriteTyped, DenyTyped DEF CheckPassed, TypeInv
  <2>4. req' \in [Requests -> Locals] /\ CheckTargets'
    BY <1>5, IdleTyped, GoesTyped DEF CheckPassed, Idle
  <2> QED BY <1>5, <2>3, <2>4 DEF CheckPassed, TypeInv, TypeOK
<1> QED BY <1>3, <1>4, <1>5

(* The request for live, and the human gate. *)
LEMMA AskTyped ==
  ASSUME TypeInv, NEW r \in Requests, Ask(r)
  PROVE  TypeInv'
<1> DEFINE p == ProcOf[r]
<1>1. p \in Procs BY ProcessAssumption
<1>2. LIVE_PENDING \in States /\ asks < MaxAsks
  BY DEF Ask, LIVE_PENDING, States, DISCONNECTED, LIVE_ENABLED
<1>3. Committed(p, LIVE_PENDING) \in Records
  BY <1>1, <1>2, CommittedTyped DEF TypeInv
<1>4. disk' \in Records /\ cache' \in [Procs -> Records]
  BY <1>1, <1>3, WriteTyped DEF Ask, TypeInv
<1>5. asks' \in 0 .. MaxAsks
  BY <1>2, BoundAssumption DEF Ask, TypeInv, TypeOK
<1>6. hist' \in [filed : SUBSET Scopes, killed : SUBSET Scopes, ask : 0 .. MaxAsks,
                 signed : SUBSET (Principals \X (0 .. MaxAsks))]
  BY <1>5 DEF Ask, TypeInv, TypeOK
<1> QED BY <1>4, <1>5, <1>6 DEF Ask, TypeInv, TypeOK, CheckTargets

LEMMA SignTyped ==
  ASSUME TypeInv, NEW q \in Principals
  PROVE  Sign(q) \in [filed : SUBSET Scopes, killed : SUBSET Scopes, ask : 0 .. MaxAsks,
                      signed : SUBSET (Principals \X (0 .. MaxAsks))]
<1>1. hist.ask \in 0 .. MaxAsks BY DEF TypeInv, TypeOK
<1>2. <<q, hist.ask>> \in Principals \X (0 .. MaxAsks) BY <1>1
<1>3. hist.signed \cup {<<q, hist.ask>>} \in SUBSET (Principals \X (0 .. MaxAsks))
  BY <1>2 DEF TypeInv, TypeOK
<1> QED BY <1>3 DEF Sign, TypeInv, TypeOK

LEMMA HumanTyped ==
  ASSUME TypeInv, NEW r \in Requests, NEW q \in Principals,
         NEW to \in {HUMAN_APPROVED, LIVE_ENABLED},
         Propose(r, q, to) \/ Approve(r, q, to)
  PROVE  TypeInv'
<1> DEFINE p == ProcOf[r]
<1>1. p \in Procs /\ cache[p] \in Records
  BY ProcessAssumption DEF TypeInv, TypeOK
<1>2. to \in States /\ to # LIVE_PENDING
  BY DEF HUMAN_APPROVED, LIVE_ENABLED, LIVE_PENDING, States, DISCONNECTED
<1>3. FALSE \in BOOLEAN OBVIOUS
<1>4. CASE Propose(r, q, to)
  <2> DEFINE a == [id |-> approvals + 1, by |-> {q}, to |-> to]
  <2>1. approvals' \in 0 .. MaxApprovals /\ approvals + 1 \in 0 .. MaxApprovals
    BY <1>4, BoundAssumption DEF Propose, TypeInv, TypeOK
  <2>2. a \in Approvals BY <1>2, <2>1 DEF Approvals
  <2>3. Write(p, [cache[p] EXCEPT !.approval = a]) BY <1>4 DEF Propose
  <2> HIDE DEF a
  <2>4. [cache[p] EXCEPT !.approval = a] \in Records BY <1>1, <1>3, <2>2, RecordFields
  <2>5. disk' \in Records /\ cache' \in [Procs -> Records]
    BY <1>1, <2>3, <2>4, WriteTyped DEF TypeInv
  <2> QED BY <1>4, <2>1, <2>5, SignTyped DEF Propose, TypeInv, TypeOK, CheckTargets
<1>5. CASE Approve(r, q, to)
  <2>1. Committed(p, to) \in Records BY <1>1, <1>2, CommittedTyped DEF TypeInv
  <2>2. disk' \in Records /\ cache' \in [Procs -> Records]
    BY <1>1, <1>5, <2>1, WriteTyped DEF Approve, TypeInv
  <2> QED BY <1>5, <2>2, SignTyped DEF Approve, TypeInv, TypeOK, CheckTargets
<1> QED BY <1>4, <1>5

LEMMA DropTyped ==
  ASSUME TypeInv, NEW r \in Requests, NEW to, DropExpired(r, to)
  PROVE  TypeInv'
<1>1. ProcOf[r] \in Procs /\ cache[ProcOf[r]] \in Records
  BY ProcessAssumption DEF TypeInv, TypeOK
<1>2. [cache[ProcOf[r]] EXCEPT !.approval = NoApproval] \in Records
  BY <1>1, NoApprovalTyped, RecordFields
<1>3. disk' \in Records /\ cache' \in [Procs -> Records]
  BY <1>1, <1>2, WriteTyped DEF DropExpired, TypeInv
<1> QED BY <1>3 DEF DropExpired, TypeInv, TypeOK, CheckTargets

(* disable, kill and clearKill. *)
LEMMA DisableTyped ==
  ASSUME TypeInv, NEW r \in Requests, Disable(r)
  PROVE  TypeInv'
<1>1. ProcOf[r] \in Procs /\ cache[ProcOf[r]] \in Records
  BY ProcessAssumption DEF TypeInv, TypeOK
<1>2. disk' \in Records /\ cache' \in [Procs -> Records]
  BY <1>1, ResetTyped, WriteTyped DEF Disable, TypeInv
<1>3. 0 \in 0 .. MaxAsks BY BoundAssumption
<1> QED BY <1>2, <1>3 DEF Disable, TypeInv, TypeOK, CheckTargets

LEMMA KillTyped ==
  ASSUME TypeInv, NEW r \in Requests,
         KillFile(r) \/ KillReset(r) \/ \E s \in Scopes : KillMemory(r, s)
  PROVE  TypeInv'
<1>1. ProcOf[r] \in Procs /\ cache[ProcOf[r]] \in Records /\ req[r] \in Locals
  BY ProcessAssumption DEF TypeInv, TypeOK
<1>2. CASE \E s \in Scopes : KillMemory(r, s)
  <2>1. PICK s \in Scopes : KillMemory(r, s) BY <1>2
  <2> DEFINE l == [Idle EXCEPT !.pc = "file", !.scope = s]
  <2>2. l \in Locals /\ l.pc = "file"
    BY IdleTyped DEF Idle, Locals
  <2>3. Goes(r, l) BY <2>1 DEF KillMemory
  <2> HIDE DEF l
  <2>4. req' \in [Requests -> Locals] /\ CheckTargets' BY <2>2, <2>3, GoesTyped
  <2>5. memory' \in [Procs -> SUBSET Scopes]
    BY <1>1, <2>1 DEF KillMemory, TypeInv, TypeOK
  <2> QED BY <2>1, <2>4, <2>5 DEF KillMemory, TypeInv, TypeOK
<1>3. CASE KillFile(r)
  <2> DEFINE l == [req[r] EXCEPT !.pc = "reset"]
  <2>1. l \in Locals /\ l.pc = "reset" BY <1>1 DEF Locals
  <2>2. Goes(r, l) BY <1>3 DEF KillFile
  <2> HIDE DEF l
  <2>3. req' \in [Requests -> Locals] /\ CheckTargets' BY <2>1, <2>2, GoesTyped
  <2>4. req[r].scope \in Scopes BY <1>1 DEF Locals
  <2>5. file' \subseteq Scopes
    BY <1>3, <2>4 DEF KillFile, TypeInv, TypeOK
  <2>6. hist' \in [filed : SUBSET Scopes, killed : SUBSET Scopes, ask : 0 .. MaxAsks,
                   signed : SUBSET (Principals \X (0 .. MaxAsks))]
    BY <1>3, <2>4 DEF KillFile, TypeInv, TypeOK
  <2> QED BY <1>3, <2>3, <2>5, <2>6 DEF KillFile, TypeInv, TypeOK
<1>4. CASE KillReset(r)
  <2>1. disk' \in Records /\ cache' \in [Procs -> Records]
    BY <1>1, <1>4, ResetTyped, WriteTyped DEF KillReset, NotWritten, TypeInv, TypeOK
  <2>2. req' \in [Requests -> Locals] /\ CheckTargets'
    BY <1>4, IdleTyped, GoesTyped DEF KillReset, Idle
  <2>3. 0 \in 0 .. MaxAsks BY BoundAssumption
  <2>4. hist' \in [filed : SUBSET Scopes, killed : SUBSET Scopes, ask : 0 .. MaxAsks,
                   signed : SUBSET (Principals \X (0 .. MaxAsks))]
    BY <1>4, <2>3 DEF KillReset, Acknowledged, TypeInv, TypeOK
  <2> QED BY <1>4, <2>1, <2>2, <2>4 DEF KillReset, TypeInv, TypeOK
<1> QED BY <1>2, <1>3, <1>4

LEMMA ClearTyped ==
  ASSUME TypeInv, NEW r \in Requests,
         ClearWrite(r) \/ \E s \in Scopes : ClearRead(r, s)
  PROVE  TypeInv'
<1>1. ProcOf[r] \in Procs /\ req[r] \in Locals
  BY ProcessAssumption DEF TypeInv, TypeOK
<1>2. CASE \E s \in Scopes : ClearRead(r, s)
  <2>1. PICK s \in Scopes : ClearRead(r, s) BY <1>2
  <2> DEFINE l == [Idle EXCEPT !.pc = "unlink", !.scope = s, !.entries = file]
  <2>2. file \in SUBSET Scopes BY DEF TypeInv, TypeOK
  <2>3. l \in Locals /\ l.pc = "unlink"
    BY <2>2, IdleTyped DEF Idle, Locals
  <2>4. Goes(r, l) BY <2>1 DEF ClearRead
  <2> HIDE DEF l
  <2>5. req' \in [Requests -> Locals] /\ CheckTargets' BY <2>3, <2>4, GoesTyped
  <2> QED BY <2>1, <2>5 DEF ClearRead, TypeInv, TypeOK
<1>3. CASE ClearWrite(r)
  <2>1. req[r].entries \subseteq Scopes /\ req[r].scope \in Scopes BY <1>1 DEF Locals
  <2>2. file' \subseteq Scopes BY <1>3, <2>1 DEF ClearWrite, TypeInv, TypeOK
  <2>3. memory' \in [Procs -> SUBSET Scopes]
    BY <1>1, <1>3, <2>1 DEF ClearWrite, TypeInv, TypeOK
  <2>4. hist' \in [filed : SUBSET Scopes, killed : SUBSET Scopes, ask : 0 .. MaxAsks,
                   signed : SUBSET (Principals \X (0 .. MaxAsks))]
    BY <1>3, <2>1 DEF ClearWrite, TypeInv, TypeOK
  <2>5. req' \in [Requests -> Locals] /\ CheckTargets'
    BY <1>3, IdleTyped, GoesTyped DEF ClearWrite, Idle
  <2> QED BY <1>3, <2>2, <2>3, <2>4, <2>5 DEF ClearWrite, TypeInv, TypeOK
<1> QED BY <1>2, <1>3

LEMMA TypeStep == ASSUME TypeInv, [Next]_vars PROVE TypeInv'
<1>1. CASE UNCHANGED vars
  BY <1>1 DEF vars, TypeInv, TypeOK, CheckTargets
<1>2. CASE \E p \in Procs : Load(p) \/ Crash(p)
  BY <1>2, LoadTyped, CrashTyped
<1>3. ASSUME NEW r \in Requests, Transition(r) PROVE TypeInv'
  BY <1>3, RefuseTyped, CheckTyped, AskTyped, HumanTyped, DropTyped DEF Transition
<1>4. ASSUME NEW r \in Requests,
             Disable(r) \/ KillFile(r) \/ KillReset(r) \/ ClearWrite(r)
             \/ \E s \in Scopes : KillMemory(r, s) \/ ClearRead(r, s)
      PROVE  TypeInv'
  BY <1>4, DisableTyped, KillTyped, ClearTyped
<1>5. CASE Tick \/ Switch BY <1>5, EnvironmentTyped
<1> QED BY <1>1, <1>2, <1>3, <1>4, <1>5 DEF Next

(* Every variable stays in its domain: TypeOK, with what an automatic check*)
(* may lead to, is inductive.                                              *)
THEOREM TypeCorrect == Spec => []TypeOK
<1>1. TypeInv => TypeOK BY DEF TypeInv
<1>2. TypeInv /\ [Next]_vars => TypeInv' BY TypeStep
<1> QED BY <1>1, <1>2, TypeInit, PTL DEF Spec

(***************************************************************************)
(* The kill.  Its file entry stands while the kill does, because a clear   *)
(* that is about to write the file knows what the file says: nobody else   *)
(* in its process writes meanwhile.                                        *)
(***************************************************************************)
Busy(r) == req[r].pc \in {"file", "reset", "unlink"}

OneProcess == \E p : Procs = {p}
OneScope == \E s : Scopes = {s}

KillInv ==
  /\ hist.killed \subseteq hist.filed /\ hist.filed \subseteq file
  /\ \A r, s \in Requests : Busy(r) /\ Busy(s) /\ ProcOf[r] = ProcOf[s] => r = s
  /\ OneProcess => \A r \in Requests : req[r].pc = "unlink" => req[r].entries = file

(* A step that touches neither a kill nor the file, and starts neither.    *)
LEMMA Quiet ==
  ASSUME KillInv, file' = file, hist'.killed = hist.killed, hist'.filed = hist.filed,
         \A r \in Requests : req'[r] = req[r] \/ req'[r].pc \in {"idle", "check"}
  PROVE  KillInv'
BY DEF KillInv, Busy

LEMMA SameProc == ASSUME OneProcess, NEW r \in Requests, NEW s \in Requests
                  PROVE  ProcOf[r] = ProcOf[s]
BY ProcessAssumption DEF OneProcess

LEMMA TransitionQuiet ==
  ASSUME TypeInv, KillInv, NEW r \in Requests, Transition(r) \/ Disable(r)
  PROVE  KillInv'
<1>1. req \in [Requests -> Locals] BY DEF TypeInv, TypeOK
<1>2. CASE Refuse(r) BY <1>2, Quiet DEF Refuse
<1>3. CASE BeginCheck(r)
  <2> DEFINE to == cache[ProcOf[r]].state + 1
             l == [Idle EXCEPT !.pc = "check", !.to = to]
  <2>1. l.pc = "check" BY DEF Idle
  <2>2. Goes(r, l) BY <1>3 DEF BeginCheck
  <2> HIDE DEF l
  <2>3. \A s \in Requests : req'[s] = req[s] \/ req'[s].pc \in {"idle", "check"}
    BY <1>1, <2>1, <2>2 DEF Goes
  <2> QED BY <1>3, <2>3, Quiet DEF BeginCheck
<1>4. CASE CheckFailed(r) \/ CheckPassed(r)
  <2>1. Goes(r, Idle) BY <1>4 DEF CheckFailed, CheckPassed
  <2>2. \A s \in Requests : req'[s] = req[s] \/ req'[s].pc \in {"idle", "check"}
    BY <1>1, <2>1 DEF Goes, Idle
  <2> QED BY <1>4, <2>2, Quiet DEF CheckFailed, CheckPassed
<1>5. CASE Ask(r) BY <1>5, Quiet DEF Ask, TypeInv, TypeOK
<1>6. ASSUME NEW to, NEW q, Propose(r, q, to) \/ Approve(r, q, to) PROVE KillInv'
  BY <1>6, Quiet DEF Propose, Approve, Sign, TypeInv, TypeOK
<1>7. ASSUME NEW to, DropExpired(r, to) PROVE KillInv'
  BY <1>7, Quiet DEF DropExpired
<1>8. CASE Disable(r) BY <1>8, Quiet DEF Disable, TypeInv, TypeOK
<1> QED BY <1>2, <1>3, <1>4, <1>5, <1>6, <1>7, <1>8 DEF Transition

LEMMA KillKeeps ==
  ASSUME TypeInv, KillInv, NEW r \in Requests,
         KillFile(r) \/ KillReset(r) \/ \E s \in Scopes : KillMemory(r, s)
  PROVE  KillInv'
<1>1. req \in [Requests -> Locals] BY DEF TypeInv, TypeOK
<1>2. CASE \E s \in Scopes : KillMemory(r, s)
  <2>1. PICK s \in Scopes : KillMemory(r, s) BY <1>2
  <2> DEFINE l == [Idle EXCEPT !.pc = "file", !.scope = s]
  <2>2. l.pc = "file" BY DEF Idle
  <2>3. Goes(r, l) /\ Free(r) BY <2>1 DEF KillMemory, Starts
  <2> HIDE DEF l
  <2>4. req' = [req EXCEPT ![r] = l] BY <2>3 DEF Goes
  <2>5. UNCHANGED <<file, hist>> BY <2>1 DEF KillMemory
  <2> QED BY <1>1, <2>2, <2>3, <2>4, <2>5 DEF Free, KillInv, Busy
<1>3. CASE KillFile(r)
  <2> DEFINE l == [req[r] EXCEPT !.pc = "reset"]
  <2>1. l.pc = "reset" BY <1>1 DEF Locals
  <2>2. req' = [req EXCEPT ![r] = l] BY <1>3 DEF KillFile, Goes
  <2>3. Busy(r) BY <1>3 DEF KillFile, Busy
  <2> HIDE DEF l
  <2>4. hist'.killed \subseteq hist'.filed /\ hist'.filed \subseteq file'
    BY <1>3 DEF KillFile, KillInv, TypeInv, TypeOK
  <2>5. \A t, s \in Requests : (Busy(t) /\ Busy(s))' /\ ProcOf[t] = ProcOf[s] => t = s
    BY <1>1, <2>1, <2>2, <2>3 DEF KillInv, Busy
  <2>6. OneProcess => \A t \in Requests : req'[t].pc # "unlink"
    BY <1>1, <2>1, <2>2, <2>3, SameProc DEF KillInv, Busy
  <2> QED BY <2>4, <2>5, <2>6 DEF KillInv
<1>4. CASE KillReset(r)
  <2>1. req' = [req EXCEPT ![r] = Idle] /\ UNCHANGED file BY <1>4 DEF KillReset, Goes
  <2>2. hist'.filed = hist.filed /\ hist'.killed \subseteq hist.filed
    BY <1>4 DEF KillReset, Acknowledged, KillInv, TypeInv, TypeOK
  <2> QED BY <1>1, <2>1, <2>2 DEF KillInv, Busy, Idle
<1> QED BY <1>2, <1>3, <1>4

LEMMA ClearKeeps ==
  ASSUME OneProcess \/ OneScope, TypeInv, KillInv, NEW r \in Requests,
         ClearWrite(r) \/ \E s \in Scopes : ClearRead(r, s)
  PROVE  KillInv'
<1>1. req \in [Requests -> Locals] BY DEF TypeInv, TypeOK
<1>2. CASE \E s \in Scopes : ClearRead(r, s)
  <2>1. PICK s \in Scopes : ClearRead(r, s) BY <1>2
  <2> DEFINE l == [Idle EXCEPT !.pc = "unlink", !.scope = s, !.entries = file]
  <2>2. l.pc = "unlink" /\ l.entries = file BY DEF Idle
  <2>3. Goes(r, l) /\ Free(r) BY <2>1 DEF ClearRead, Starts
  <2> HIDE DEF l
  <2>4. req' = [req EXCEPT ![r] = l] BY <2>3 DEF Goes
  <2>5. UNCHANGED <<file, hist>> BY <2>1 DEF ClearRead
  <2> QED BY <1>1, <2>2, <2>3, <2>4, <2>5 DEF Free, KillInv, Busy
<1>3. CASE ClearWrite(r)
  <2> DEFINE s == req[r].scope
  <2>1. req' = [req EXCEPT ![r] = Idle] /\ Busy(r) /\ req[r].pc = "unlink"
    BY <1>3 DEF ClearWrite, Goes, Busy
  <2>2. hist'.filed = hist.filed \ {s} /\ hist'.killed = hist.killed \ {s}
    BY <1>3 DEF ClearWrite, TypeInv, TypeOK
  <2>3. hist.filed \ {s} \subseteq file'
    <3>1. CASE OneProcess
      <4>1. req[r].entries = file BY <2>1, <3>1 DEF KillInv
      <4> QED BY <1>3, <4>1 DEF ClearWrite, KillInv
    <3>2. CASE OneScope
      <4>1. s \in Scopes BY <1>1 DEF Locals
      <4>2. hist.filed \subseteq Scopes BY DEF TypeInv, TypeOK
      <4> QED BY <3>2, <4>1, <4>2 DEF OneScope
    <3> QED BY <3>1, <3>2
  <2>4. \A t, u \in Requests : (Busy(t) /\ Busy(u))' /\ ProcOf[t] = ProcOf[u] => t = u
    BY <1>1, <2>1 DEF KillInv, Busy, Idle
  <2>5. OneProcess => \A t \in Requests : req'[t].pc # "unlink"
    BY <1>1, <2>1, SameProc DEF KillInv, Busy, Idle
  <2> QED BY <2>2, <2>3, <2>4, <2>5 DEF KillInv
<1> QED BY <1>2, <1>3

LEMMA KillStep == ASSUME OneProcess \/ OneScope, TypeInv, KillInv, [Next]_vars PROVE KillInv'
<1>1. CASE UNCHANGED vars
  BY <1>1 DEF vars, KillInv, Busy
<1>2. CASE Tick \/ Switch \/ \E p \in Procs : Load(p)
  BY <1>2, Quiet DEF Tick, Switch, Load
<1>3. CASE \E p \in Procs : Crash(p)
  BY <1>3, Quiet DEF Crash, Idle
<1>4. CASE \E r \in Requests : Transition(r) \/ Disable(r)
  BY <1>4, TransitionQuiet
<1>5. CASE \E r \in Requests : KillFile(r) \/ KillReset(r) \/ \E s \in Scopes : KillMemory(r, s)
  BY <1>5, KillKeeps
<1>6. CASE \E r \in Requests : ClearWrite(r) \/ \E s \in Scopes : ClearRead(r, s)
  BY <1>6, ClearKeeps
<1> QED BY <1>1, <1>2, <1>3, <1>4, <1>5, <1>6 DEF Next

(* kill dominates, for one process with any scopes and for any processes   *)
(* with one scope: an acknowledged kill nobody has cleared bars every order*)
(* through concurrent requests, failing writes and restarts.               *)
THEOREM KillIsDominant ==
  ASSUME OneProcess \/ OneScope
  PROVE  Spec => []KillDominates
<1>1. Init => KillInv
  BY DEF Init, KillInv, Busy, Idle
<1>2. KillInv => KillDominates
  BY DEF KillInv, KillDominates, Allowed, Killed
<1>3. TypeInv /\ [Next]_vars => TypeInv' BY TypeStep
<1>4. TypeInv /\ KillInv /\ [Next]_vars => KillInv' BY KillStep
<1> QED BY <1>1, <1>2, <1>3, <1>4, TypeInit, PTL DEF Spec

(***************************************************************************)
(* The human gate, in one process whose writes succeed.  The record        *)
(* carries what the gate asked for: in LIVE_PENDING the stamp of the       *)
(* latest request for live, in an approval a signature for it, and beyond  *)
(* LIVE_PENDING that it cooled down and was signed twice.  A late commit   *)
(* of a check leads below LIVE_PENDING and drops the approval, so nothing  *)
(* of an old request survives into a new one.                              *)
(***************************************************************************)
SignedBy(q) == <<q, hist.ask>> \in hist.signed
TwoSigned == \E q, s \in Principals : q # s /\ SignedBy(q) /\ SignedBy(s)

Synced == \A p \in loaded : cache[p] = disk
Passed == disk.state > LIVE_PENDING => hist.ask \in cooled /\ (FourEyes => TwoSigned)
Pending == disk.state = LIVE_PENDING => disk.asked = hist.ask
Waiting == disk.approval.id # 0 => disk.state >= LIVE_PENDING /\ \E q \in disk.approval.by : SignedBy(q)

HumanInv == Synced /\ Passed /\ Pending /\ Waiting

-----------------------------------------------------------------------------
(* The one process sees what it writes. *)
LEMMA WriteSynced ==
  ASSUME OneProcess, TypeInv, NEW r \in Requests, NEW rec, Write(ProcOf[r], rec), loaded' = loaded
  PROVE  disk' = rec /\ Synced'
<1>1. \A p \in loaded : p = ProcOf[r] /\ p \in Procs
  BY ProcessAssumption DEF OneProcess, TypeInv, TypeOK
<1> QED BY <1>1 DEF Write, Synced, TypeInv, TypeOK

(* Before it writes, it has what the file says. *)
LEMMA TurnSynced ==
  ASSUME HumanInv, NEW r \in Requests, Turn(r)
  PROVE  cache[ProcOf[r]] = disk
  BY DEF HumanInv, Synced, Turn

LEMMA DiskTyped == ASSUME TypeInv PROVE disk \in Records /\ disk.state \in Int /\ disk.approval \in Approvals
  BY DEF TypeInv, TypeOK, Records, States, DISCONNECTED, LIVE_ENABLED

(* A step that keeps state and stamp of the record and at most drops its   *)
(* approval, while the latest request stays and signatures only come.      *)
LEMMA Kept ==
  ASSUME HumanInv, Synced', disk'.state = disk.state, disk'.asked = disk.asked,
         disk'.approval \in {disk.approval, NoApproval},
         hist'.ask = hist.ask, hist.signed \subseteq hist'.signed, cooled \subseteq cooled'
  PROVE  HumanInv'
<1>1. \A q : SignedBy(q) => SignedBy(q)'
  BY DEF SignedBy
<1>2. TwoSigned => TwoSigned'
  BY <1>1 DEF TwoSigned
<1>3. disk'.approval.id # 0 => disk'.approval = disk.approval
  BY DEF NoApproval
<1> QED BY <1>1, <1>2, <1>3 DEF HumanInv, Passed, Pending, Waiting

(* A step that takes the state below LIVE_PENDING and drops the approval.  *)
LEMMA Lowered ==
  ASSUME Synced', disk'.state \in Int, disk'.state < LIVE_PENDING, disk'.approval = NoApproval
  PROVE  HumanInv'
  BY DEF HumanInv, Passed, Pending, Waiting, NoApproval, LIVE_PENDING

-----------------------------------------------------------------------------
LEMMA HumanInit == Init => HumanInv
  BY DEF Init, InitialRecord, HumanInv, Synced, Passed, Pending, Waiting, NoApproval, DISCONNECTED, LIVE_PENDING

LEMMA LoadHuman == ASSUME OneProcess, ~ WriteFaults, TypeInv, HumanInv, NEW p \in Procs, Load(p) PROVE HumanInv'
<1>1. disk' = [disk EXCEPT !.intent = FALSE] /\ cache' = [cache EXCEPT ![p] = disk'] /\ loaded' = loaded \cup {p}
  BY DEF Load
<1>2. Synced'
  BY <1>1 DEF OneProcess, Synced, TypeInv, TypeOK
<1>3. disk'.state = disk.state /\ disk'.asked = disk.asked /\ disk'.approval = disk.approval
  BY <1>1, DiskTyped DEF Records
<1> QED BY <1>2, <1>3, Kept DEF Load

LEMMA RefuseHuman ==
  ASSUME OneProcess, ~ WriteFaults, TypeInv, HumanInv, NEW r \in Requests, Refuse(r)
  PROVE  HumanInv'
<1>1. Write(ProcOf[r], disk) /\ loaded' = loaded
  BY TurnSynced DEF Refuse, AuditDeny, NotWritten
<1>2. disk' = disk /\ Synced'
  BY <1>1, WriteSynced
<1> QED BY <1>2, Kept DEF Refuse

LEMMA CheckHuman ==
  ASSUME OneProcess, ~ WriteFaults, TypeInv, HumanInv, NEW r \in Requests,
         BeginCheck(r) \/ CheckFailed(r) \/ CheckPassed(r)
  PROVE  HumanInv'
<1>1. cache[ProcOf[r]] = disk /\ loaded' = loaded
  BY TurnSynced DEF BeginCheck, CheckFailed, CheckPassed, Requested
<1>2. ASSUME NEW b \in BOOLEAN, Write(ProcOf[r], [disk EXCEPT !.intent = b]), UNCHANGED <<hist, cooled>>
      PROVE  HumanInv'
  <2>1. disk' = [disk EXCEPT !.intent = b] /\ Synced'
    BY <1>1, <1>2, WriteSynced
  <2>2. disk'.state = disk.state /\ disk'.asked = disk.asked /\ disk'.approval = disk.approval
    BY <2>1, DiskTyped DEF Records
  <2> QED BY <1>2, <2>1, <2>2, Kept
<1>3. CASE BeginCheck(r)
  BY <1>1, <1>2, <1>3 DEF BeginCheck
<1>4. CASE CheckFailed(r)
  BY <1>1, <1>2, <1>4 DEF CheckFailed, NotWritten
<1>5. CASE CheckPassed(r)
  <2>1. Write(ProcOf[r], Committed(ProcOf[r], req[r].to))
    BY <1>5 DEF CheckPassed
  <2>2. disk' = Committed(ProcOf[r], req[r].to) /\ Synced'
    BY <1>1, <2>1, WriteSynced
  <2>3. req[r].to \in Int /\ req[r].to < LIVE_PENDING
    BY <1>5 DEF CheckPassed, TypeInv, TypeOK, CheckTargets, Locals, States, DISCONNECTED, LIVE_ENABLED,
                PAPER_APPROVED, LIVE_PENDING
  <2>4. disk'.state = req[r].to /\ disk'.approval = NoApproval
    BY <1>1, <2>2, DiskTyped DEF Committed, Records
  <2> QED BY <2>2, <2>3, <2>4, Lowered
<1> QED BY <1>3, <1>4, <1>5

LEMMA AskHuman == ASSUME OneProcess, TypeInv, HumanInv, NEW r \in Requests, Ask(r) PROVE HumanInv'
<1>1. cache[ProcOf[r]] = disk /\ Write(ProcOf[r], Committed(ProcOf[r], LIVE_PENDING)) /\ loaded' = loaded
  BY TurnSynced DEF Ask, Requested
<1>2. disk' = Committed(ProcOf[r], LIVE_PENDING) /\ Synced'
  BY <1>1, WriteSynced
<1>3. disk'.state = LIVE_PENDING /\ disk'.approval = NoApproval /\ disk'.asked = asks + 1
  BY <1>1, <1>2, DiskTyped DEF Committed, Records
<1>4. hist'.ask = asks + 1
  BY DEF Ask, TypeInv, TypeOK
<1> QED BY <1>2, <1>3, <1>4 DEF HumanInv, Passed, Pending, Waiting, NoApproval, LIVE_PENDING

(* A signature is for the latest request. *)
LEMMA Signs ==
  ASSUME TypeInv, NEW q \in Principals, hist' = Sign(q)
  PROVE  hist'.ask = hist.ask /\ hist'.signed = hist.signed \cup {<<q, hist.ask>>} /\ SignedBy(q)'
  BY DEF Sign, SignedBy, TypeInv, TypeOK

LEMMA ProposeHuman ==
  ASSUME OneProcess, TypeInv, HumanInv, NEW r \in Requests, NEW q \in Principals,
         NEW to \in {HUMAN_APPROVED, LIVE_ENABLED}, Propose(r, q, to)
  PROVE  HumanInv'
<1> DEFINE a == [id |-> approvals + 1, by |-> {q}, to |-> to]
<1>1. cache[ProcOf[r]] = disk /\ Write(ProcOf[r], [disk EXCEPT !.approval = a]) /\ loaded' = loaded
  BY TurnSynced DEF Propose, HumanStep, Requested
<1>2. disk' = [disk EXCEPT !.approval = a] /\ Synced'
  BY <1>1, WriteSynced
<1>3. disk'.state = disk.state /\ disk'.asked = disk.asked /\ disk'.approval = a
  BY <1>2, DiskTyped DEF Records
<1>4. disk.state = to - 1
  BY <1>1 DEF Propose, HumanStep, Requested
<1>5. hist'.ask = hist.ask /\ hist.signed \subseteq hist'.signed /\ SignedBy(q)'
  BY Signs DEF Propose
<1>6. TwoSigned => TwoSigned'
  BY <1>5 DEF TwoSigned, SignedBy
<1>7. Waiting'
  BY <1>3, <1>4, <1>5 DEF Waiting, HUMAN_APPROVED, LIVE_ENABLED, LIVE_PENDING
<1>8. cooled' = cooled
  BY DEF Propose
<1> QED BY <1>2, <1>3, <1>5, <1>6, <1>7, <1>8 DEF HumanInv, Passed, Pending

LEMMA DropHuman ==
  ASSUME OneProcess, TypeInv, HumanInv, NEW r \in Requests, NEW to, DropExpired(r, to)
  PROVE  HumanInv'
<1>1. cache[ProcOf[r]] = disk /\ Write(ProcOf[r], [disk EXCEPT !.approval = NoApproval]) /\ loaded' = loaded
  BY TurnSynced DEF DropExpired, HumanStep, Requested
<1>2. disk' = [disk EXCEPT !.approval = NoApproval] /\ Synced'
  BY <1>1, WriteSynced
<1>3. disk'.state = disk.state /\ disk'.asked = disk.asked /\ disk'.approval = NoApproval
  BY <1>2, DiskTyped DEF Records
<1> QED BY <1>2, <1>3, Kept DEF DropExpired

(* The step that counts: from LIVE_PENDING the request has cooled down, and*)
(* who countersigns differs from who waits in the approval.                *)
LEMMA ApproveHuman ==
  ASSUME OneProcess, TypeInv, HumanInv, NEW r \in Requests, NEW q \in Principals,
         NEW to \in {HUMAN_APPROVED, LIVE_ENABLED}, Approve(r, q, to)
  PROVE  HumanInv'
<1>1. /\ cache[ProcOf[r]] = disk /\ loaded' = loaded /\ cooled' = cooled
      /\ Write(ProcOf[r], Committed(ProcOf[r], to))
  BY TurnSynced DEF Approve, HumanStep, Requested
<1>2. disk' = Committed(ProcOf[r], to) /\ Synced'
  BY <1>1, WriteSynced
<1>3. disk'.state = to /\ disk'.approval = NoApproval
  BY <1>1, <1>2, DiskTyped DEF Committed, Records
<1>4. disk.state = to - 1 /\ (to = HUMAN_APPROVED => disk.asked \in cooled)
  BY <1>1 DEF Approve, HumanStep, Requested
<1>5. hist'.ask = hist.ask /\ hist.signed \subseteq hist'.signed /\ SignedBy(q)'
  BY Signs DEF Approve
<1>6. hist.ask \in cooled
  BY <1>4 DEF HumanInv, Passed, Pending, HUMAN_APPROVED, LIVE_ENABLED, LIVE_PENDING
<1>7. ASSUME FourEyes PROVE TwoSigned'
  <2>1. disk.approval.id # 0 /\ q \notin disk.approval.by
    BY <1>1, <1>7 DEF Approve, Countersigned
  <2>2. PICK s \in disk.approval.by : SignedBy(s)
    BY <2>1 DEF HumanInv, Waiting
  <2>3. s \in Principals /\ s # q
    BY <2>1, <2>2, DiskTyped DEF Approvals
  <2>4. SignedBy(s)'
    BY <1>5, <2>2 DEF SignedBy
  <2> QED BY <1>5, <2>3, <2>4 DEF TwoSigned
<1> QED BY <1>1, <1>2, <1>3, <1>5, <1>6, <1>7 DEF HumanInv, Passed, Pending, Waiting, NoApproval, HUMAN_APPROVED,
           LIVE_ENABLED, LIVE_PENDING

(* disable and the end of a kill take the state down. *)
LEMMA ResetHuman ==
  ASSUME OneProcess, ~ WriteFaults, TypeInv, HumanInv, NEW r \in Requests, Disable(r) \/ KillReset(r)
  PROVE  HumanInv'
<1>1. cache[ProcOf[r]] = disk /\ Write(ProcOf[r], Reset(disk)) /\ loaded' = loaded
  BY TurnSynced DEF Disable, KillReset, NotWritten, HumanInv, Synced
<1>2. disk' = Reset(disk) /\ Synced'
  BY <1>1, WriteSynced
<1>3. disk'.state = DISCONNECTED /\ disk'.approval = NoApproval
  BY <1>2, DiskTyped DEF Reset, Records
<1> QED BY <1>2, <1>3, Lowered DEF DISCONNECTED, LIVE_PENDING

(* Steps that do not touch the record: of a kill, a clear, the clock.      *)
LEMMA ApartHuman ==
  ASSUME TypeInv, HumanInv,
         \/ \E r \in Requests : KillFile(r) \/ ClearWrite(r) \/ \E s \in Scopes : KillMemory(r, s) \/ ClearRead(r, s)
         \/ Tick \/ Switch \/ UNCHANGED vars
  PROVE  HumanInv'
<1>1. UNCHANGED <<disk, cache, loaded>> /\ cooled \subseteq cooled'
  BY DEF KillFile, ClearWrite, KillMemory, ClearRead, Tick, Switch, vars
<1>2. hist'.ask = hist.ask /\ hist'.signed = hist.signed
  BY DEF KillFile, ClearWrite, KillMemory, ClearRead, Tick, Switch, vars, TypeInv, TypeOK
<1>3. Synced'
  BY <1>1 DEF HumanInv, Synced
<1> QED BY <1>1, <1>2, <1>3, Kept

LEMMA CrashHuman == ASSUME TypeInv, HumanInv, NEW p \in Procs, Crash(p) PROVE HumanInv'
<1>1. loaded' = loaded \ {p} /\ cache' = [cache EXCEPT ![p] = InitialRecord] /\ UNCHANGED <<disk, cooled, hist>>
  BY DEF Crash
<1>2. Synced'
  BY <1>1 DEF HumanInv, Synced, TypeInv, TypeOK
<1> QED BY <1>1, <1>2, Kept

LEMMA HumanStepKeeps ==
  ASSUME OneProcess, ~ WriteFaults, TypeInv, HumanInv, [Next]_vars
  PROVE  HumanInv'
<1>1. CASE \E p \in Procs : Load(p) \/ Crash(p)
  BY <1>1, LoadHuman, CrashHuman
<1>2. ASSUME NEW r \in Requests, Transition(r) PROVE HumanInv'
  <2>1. CASE Refuse(r)
    BY <2>1, RefuseHuman
  <2>2. CASE BeginCheck(r) \/ CheckFailed(r) \/ CheckPassed(r)
    BY <2>2, CheckHuman
  <2>3. CASE Ask(r)
    BY <2>3, AskHuman
  <2>4. ASSUME NEW to \in {HUMAN_APPROVED, LIVE_ENABLED},
               DropExpired(r, to) \/ \E q \in Principals : Propose(r, q, to) \/ Approve(r, q, to)
        PROVE  HumanInv'
    BY <2>4, DropHuman, ProposeHuman, ApproveHuman
  <2> QED BY <1>2, <2>1, <2>2, <2>3, <2>4 DEF Transition
<1>3. CASE \E r \in Requests : Disable(r) \/ KillReset(r)
  BY <1>3, ResetHuman
<1>4. CASE \/ \E r \in Requests : KillFile(r) \/ ClearWrite(r) \/ \E s \in Scopes : KillMemory(r, s) \/ ClearRead(r, s)
           \/ Tick \/ Switch \/ UNCHANGED vars
  BY <1>4, ApartHuman
<1> QED BY <1>1, <1>2, <1>3, <1>4 DEF Next

LEMMA HumanInvImplies == ASSUME IsFiniteSet(Principals), TypeInv, HumanInv PROVE HumanGate
<1> SUFFICES ASSUME NEW p \in Servers, Allowed(p)
             PROVE  hist.ask \in cooled /\ (FourEyes => Cardinality(Signers) >= 2)
  BY DEF HumanGate
<1>1. disk.state = LIVE_ENABLED
  BY DEF Allowed, Known, HumanInv, Synced
<1>2. hist.ask \in cooled /\ (FourEyes => TwoSigned)
  BY <1>1 DEF HumanInv, Passed, LIVE_ENABLED, LIVE_PENDING
<1>3. ASSUME TwoSigned PROVE Cardinality(Signers) >= 2
  <2>1. PICK q, s \in Principals : q # s /\ SignedBy(q) /\ SignedBy(s)
    BY <1>3 DEF TwoSigned
  <2>2. {q, s} \subseteq Signers /\ Signers \subseteq Principals
    BY <2>1 DEF Signers, SignedBy
  <2>3. IsFiniteSet(Signers)
    BY <2>2, FS_Subset
  <2> DEFINE one == {q}
  <2>4. IsFiniteSet(one) /\ Cardinality(one) = 1 /\ s \notin one /\ {q, s} = one \cup {s}
    BY <2>1, FS_Singleton
  <2> HIDE DEF one
  <2>5. Cardinality(one \cup {s}) = 2
    <3>1. Cardinality(one \cup {s}) = IF s \in one THEN Cardinality(one) ELSE Cardinality(one) + 1
      BY <2>4, FS_AddElement, Zenon
    <3> QED BY <2>4, <3>1
  <2>6. Cardinality({q, s}) = 2
    BY <2>4, <2>5
  <2>7. Cardinality({q, s}) <= Cardinality(Signers)
    BY <2>2, <2>3, FS_Subset
  <2>8. Cardinality(Signers) \in Nat
    BY <2>3, FS_CardinalityType
  <2> QED BY <2>6, <2>7, <2>8
<1> QED BY <1>2, <1>3

-----------------------------------------------------------------------------
(* The human gate: a server lets an order pass only on a request for live  *)
(* that is younger than the last kill or disable, cooled down and, with    *)
(* four eyes, signed by two principals (transition, enforceFourEyes), when *)
(* one process owns the directory and its writes succeed.                  *)
THEOREM HumanGateHolds ==
  ASSUME OneProcess, ~ WriteFaults, IsFiniteSet(Principals)
  PROVE  Spec => []HumanGate
<1>1. Init => TypeInv /\ HumanInv
  BY TypeInit, HumanInit
<1>2. TypeInv /\ HumanInv /\ [Next]_vars => (TypeInv /\ HumanInv)'
  BY TypeStep, HumanStepKeeps
<1>3. TypeInv /\ HumanInv => HumanGate
  BY HumanInvImplies
<1> QED BY <1>1, <1>2, <1>3, PTL DEF Spec

(***************************************************************************)
(* The contract (LiveGateContract), read off the files, with one request   *)
(* at a time in one process whose writes succeed.  A check that is awaited *)
(* finds the record as it left it and no kill, because nothing else runs   *)
(* meanwhile; a kill that returns finds its entry still in the file.       *)
(***************************************************************************)
OneRequest == \A r, s \in Requests : r = s

Awaiting ==
  \A r \in Requests : req[r].pc = "check" =>
    ProcOf[r] \in loaded /\ file = {} /\ disk.state = req[r].to - 1
Filed == \A r \in Requests : req[r].pc = "reset" => req[r].scope \in hist.filed
Alone == Awaiting /\ Filed

GateInv == TypeInv /\ KillInv /\ HumanInv /\ Alone

(* What a step has to establish. *)
Keeps == Alone' /\ [Contract!Next]_(Contract!cvars)

(* A step the contract does not see, that leaves the request where it is   *)
(* or at rest.                                                             *)
LEMMA Unseen ==
  ASSUME Alone, disk'.state = disk.state, UNCHANGED <<file, loaded>>,
         hist'.killed = hist.killed, hist'.filed = hist.filed,
         \A r \in Requests : req'[r] = req[r] \/ req'[r].pc \in {"idle", "file", "unlink"}
  PROVE  Keeps
<1>1. UNCHANGED Contract!cvars
  BY DEF Contract!cvars
<1>2. Alone'
  BY DEF Alone, Awaiting, Filed
<1> QED BY <1>1, <1>2 DEF Keeps

(* One step of the matrix, by a request that rests afterwards. *)
LEMMA StepsForward ==
  ASSUME OneRequest, NEW r \in Requests, req'[r].pc = "idle",
         file = {}, disk.state \in States, disk'.state = disk.state + 1, disk'.state \in States,
         UNCHANGED file, hist'.killed = hist.killed
  PROVE  Keeps
<1>1. Contract!Advance
  BY DEF Contract!Advance, Contract!isLegalAdvance, Contract!States, Contract!DISCONNECTED,
         Contract!LIVE_ENABLED, States, DISCONNECTED, LIVE_ENABLED
<1>2. Alone'
  BY DEF Alone, Awaiting, Filed, OneRequest
<1> QED BY <1>1, <1>2 DEF Keeps, Contract!Next

(* What a request that has its turn finds. *)
LEMMA Found ==
  ASSUME GateInv, NEW r \in Requests, Turn(r)
  PROVE  /\ cache[ProcOf[r]] = disk /\ disk \in Records /\ disk.state \in States
         /\ ProcOf[r] \in Procs /\ req \in [Requests -> Locals] /\ ProcOf[r] \in loaded
<1>1. cache[ProcOf[r]] = disk /\ ProcOf[r] \in loaded
  BY TurnSynced DEF GateInv, Turn
<1>2. disk \in Records /\ req \in [Requests -> Locals] /\ disk.state \in States
  BY DEF GateInv, TypeInv, TypeOK, Records
<1> QED BY <1>1, <1>2, ProcessAssumption

(* transition, with the checks of the five automatic gates *)
LEMMA CheckSteps ==
  ASSUME OneProcess, OneRequest, ~ WriteFaults, GateInv, NEW r \in Requests,
         Refuse(r) \/ BeginCheck(r) \/ CheckFailed(r) \/ CheckPassed(r)
  PROVE  Keeps
<1>0. Turn(r)
  BY DEF Refuse, BeginCheck, Requested, CheckFailed, CheckPassed
<1>1. /\ cache[ProcOf[r]] = disk /\ disk \in Records /\ disk.state \in States
      /\ ProcOf[r] \in Procs /\ req \in [Requests -> Locals] /\ ProcOf[r] \in loaded
  BY <1>0, Found
<1>2. CASE Refuse(r)
  <2>1. disk' = disk
    BY <1>1, <1>2 DEF Refuse, AuditDeny, Write, NotWritten
  <2> QED BY <1>2, <2>1, Unseen DEF Refuse, GateInv
<1>3. CASE BeginCheck(r)
  <2> DEFINE to == disk.state + 1
             l == [Idle EXCEPT !.pc = "check", !.to = to]
  <2>1. l.pc = "check" /\ l.to = to
    BY DEF Idle
  <2>2. req' = [req EXCEPT ![r] = l] /\ disk' = [disk EXCEPT !.intent = TRUE]
        /\ UNCHANGED <<file, loaded, hist>> /\ file = {}
    BY <1>1, <1>3 DEF BeginCheck, Goes, Write, Requested, Killed
  <2> HIDE DEF l
  <2>3. disk'.state = disk.state
    BY <1>1, <2>2 DEF Records
  <2>4. Alone'
    <3>1. \A s \in Requests : s = r /\ req'[s] = l
      BY <1>1, <2>2 DEF OneRequest
    <3>2. disk.state = to - 1
      BY <1>1 DEF States, DISCONNECTED, LIVE_ENABLED
    <3> HIDE DEF to
    <3> QED BY <1>1, <2>1, <2>2, <2>3, <3>1, <3>2 DEF Alone, Awaiting, Filed
  <2>5. UNCHANGED Contract!cvars
    BY <2>2, <2>3 DEF Contract!cvars
  <2> QED BY <2>4, <2>5 DEF Keeps
<1>4. CASE CheckFailed(r)
  <2>1. disk' = [disk EXCEPT !.intent = FALSE] /\ req' = [req EXCEPT ![r] = Idle]
        /\ UNCHANGED <<file, loaded, hist>>
    BY <1>1, <1>4 DEF CheckFailed, Goes, Write, NotWritten
  <2>2. disk'.state = disk.state
    BY <1>1, <2>1 DEF Records
  <2>3. \A s \in Requests : req'[s] = req[s] \/ req'[s].pc \in {"idle", "file", "unlink"}
    BY <1>1, <2>1 DEF Idle
  <2> QED BY <2>1, <2>2, <2>3, Unseen DEF GateInv
<1>5. CASE CheckPassed(r)
  <2> DEFINE to == req[r].to
  <2>1. disk' = Committed(ProcOf[r], to) /\ req' = [req EXCEPT ![r] = Idle]
        /\ UNCHANGED <<file, loaded, hist>>
    BY <1>5 DEF CheckPassed, Goes, Write
  <2>2. file = {} /\ disk.state = to - 1 /\ to \in States
    BY <1>1, <1>5 DEF CheckPassed, GateInv, Alone, Awaiting, Locals
  <2>3. disk'.state = to
    BY <1>1, <2>1 DEF Committed, Records
  <2>4. req'[r].pc = "idle"
    BY <1>1, <2>1 DEF Idle
  <2> HIDE DEF to
  <2>5. disk'.state = disk.state + 1
    BY <2>2, <2>3 DEF States, DISCONNECTED, LIVE_ENABLED
  <2> QED BY <1>1, <2>1, <2>2, <2>3, <2>4, <2>5, StepsForward
<1> QED BY <1>2, <1>3, <1>4, <1>5

(* The request for live, the human gate and disable *)
LEMMA HumanSteps ==
  ASSUME OneProcess, OneRequest, ~ WriteFaults, GateInv, NEW r \in Requests,
         \/ Ask(r) \/ Disable(r)
         \/ \E to \in {HUMAN_APPROVED, LIVE_ENABLED} :
              DropExpired(r, to) \/ \E q \in Principals : Propose(r, q, to) \/ Approve(r, q, to)
  PROVE  Keeps
<1>0. Turn(r) /\ req[r].pc = "idle"
  BY DEF Ask, Disable, DropExpired, Propose, Approve, HumanStep, Requested
<1>1. /\ cache[ProcOf[r]] = disk /\ disk \in Records /\ disk.state \in States
      /\ ProcOf[r] \in Procs /\ req \in [Requests -> Locals] /\ ProcOf[r] \in loaded
  BY <1>0, Found
<1>2. ASSUME NEW to \in {LIVE_PENDING, HUMAN_APPROVED, LIVE_ENABLED}, Requested(r, to),
             disk' = Committed(ProcOf[r], to), UNCHANGED <<file, req>>, hist'.killed = hist.killed
      PROVE  Keeps
  <2>1. file = {} /\ disk.state = to - 1 /\ to \in States
    BY <1>1, <1>2 DEF Requested, Killed, States, LIVE_PENDING, HUMAN_APPROVED, LIVE_ENABLED, DISCONNECTED
  <2>2. disk'.state = to
    BY <1>1, <1>2 DEF Committed, Records
  <2>3. disk'.state = disk.state + 1
    BY <2>1, <2>2 DEF States, DISCONNECTED, LIVE_ENABLED
  <2> QED BY <1>0, <1>1, <1>2, <2>1, <2>2, <2>3, StepsForward
<1>3. hist.killed = [hist EXCEPT !.ask = 0].killed /\ hist.killed = [hist EXCEPT !.ask = asks + 1].killed
      /\ \A q : Sign(q).killed = hist.killed /\ Sign(q).filed = hist.filed
      /\ [hist EXCEPT !.ask = 0].filed = hist.filed
  BY DEF GateInv, TypeInv, TypeOK, Sign
<1>4. CASE Ask(r)
  BY <1>2, <1>3, <1>4 DEF Ask, Write
<1>5. ASSUME NEW to \in {HUMAN_APPROVED, LIVE_ENABLED}, NEW q, Approve(r, q, to) PROVE Keeps
  BY <1>2, <1>3, <1>5 DEF Approve, HumanStep, Write
<1>6. ASSUME NEW to, NEW q, Propose(r, q, to) PROVE Keeps
  <2>1. disk'.state = disk.state /\ UNCHANGED <<file, loaded, req>>
    BY <1>1, <1>6 DEF Propose, Write, Records
  <2> QED BY <1>3, <1>6, <2>1, Unseen DEF Propose, GateInv
<1>7. ASSUME NEW to, DropExpired(r, to) PROVE Keeps
  <2>1. disk'.state = disk.state /\ UNCHANGED <<file, loaded, req, hist>>
    BY <1>1, <1>7 DEF DropExpired, Write, Records
  <2> QED BY <2>1, Unseen DEF GateInv
<1>8. CASE Disable(r)
  <2>1. disk'.state = DISCONNECTED /\ UNCHANGED <<file, loaded, req>> /\ hist'.killed = hist.killed
    BY <1>1, <1>3, <1>8 DEF Disable, Write, Reset, Records
  <2>2. Contract!Downgrade
    BY <2>1 DEF Contract!Downgrade, Contract!DISCONNECTED, DISCONNECTED
  <2>3. Alone'
    BY <1>0, <2>1 DEF Alone, Awaiting, Filed, OneRequest
  <2> QED BY <2>2, <2>3 DEF Keeps, Contract!Next
<1> QED BY <1>4, <1>5, <1>6, <1>7, <1>8

(* kill *)
LEMMA KillSteps ==
  ASSUME OneProcess, OneRequest, ~ WriteFaults, GateInv, NEW r \in Requests,
         KillFile(r) \/ KillReset(r) \/ \E s \in Scopes : KillMemory(r, s)
  PROVE  Keeps
<1>1. req \in [Requests -> Locals] /\ \A s \in Requests : s = r
  BY DEF GateInv, TypeInv, TypeOK, OneRequest
<1>2. hist.killed \subseteq Scopes /\ hist.filed \subseteq file
      /\ req[r].scope \in Scopes
  BY <1>1 DEF GateInv, KillInv, TypeInv, TypeOK, Locals
<1>3. CASE \E s \in Scopes : KillMemory(r, s)
  <2>1. PICK s \in Scopes : KillMemory(r, s)
    BY <1>3
  <2> DEFINE l == [Idle EXCEPT !.pc = "file", !.scope = s]
  <2>2. l.pc = "file"
    BY DEF Idle
  <2>3. req' = [req EXCEPT ![r] = l] /\ UNCHANGED <<disk, file, loaded, hist>>
    BY <2>1 DEF KillMemory, Goes
  <2> HIDE DEF l
  <2>4. \A q \in Requests : req'[q] = req[q] \/ req'[q].pc \in {"idle", "file", "unlink"}
    BY <1>1, <2>2, <2>3
  <2> QED BY <2>3, <2>4, Unseen DEF GateInv
<1>4. CASE KillFile(r)
  <2> DEFINE s == req[r].scope
             l == [req[r] EXCEPT !.pc = "reset"]
  <2>1. l.pc = "reset" /\ l.scope = s
    BY <1>1 DEF Locals
  <2>2. req' = [req EXCEPT ![r] = l] /\ file' = file \cup {s} /\ UNCHANGED disk
        /\ hist'.filed = hist.filed \cup {s} /\ hist'.killed = hist.killed
    BY <1>4 DEF KillFile, Goes, GateInv, TypeInv, TypeOK
  <2> HIDE DEF l
  <2>3. Contract!Kill(s)
    BY <2>2 DEF Contract!Kill
  <2>4. Alone'
    BY <1>1, <2>1, <2>2 DEF Alone, Awaiting, Filed
  <2> QED BY <1>2, <2>3, <2>4 DEF Keeps, Contract!Next
<1>5. CASE KillReset(r)
  <2> DEFINE s == req[r].scope
  <2>1. s \in hist.filed /\ ProcOf[r] \in loaded /\ disk \in Records
    BY <1>5 DEF KillReset, GateInv, Alone, Filed, TypeInv, TypeOK
  <2>2. cache[ProcOf[r]] = disk
    BY <2>1 DEF GateInv, HumanInv, Synced
  <2>3. disk'.state = DISCONNECTED
    BY <1>5, <2>1, <2>2 DEF KillReset, Write, NotWritten, Reset, Records
  <2>4. hist'.killed = hist.killed \cup {s} /\ UNCHANGED file /\ req' = [req EXCEPT ![r] = Idle]
    BY <1>5, <2>1 DEF KillReset, Acknowledged, Goes, GateInv, TypeInv, TypeOK
  <2>5. Contract!Ack(s)
    BY <1>2, <2>1, <2>3, <2>4 DEF Contract!Ack, Contract!DISCONNECTED, DISCONNECTED
  <2>6. Alone'
    BY <1>1, <2>4 DEF Alone, Awaiting, Filed, Idle
  <2> QED BY <1>2, <2>5, <2>6 DEF Keeps, Contract!Next
<1> QED BY <1>3, <1>4, <1>5

(* clearKill *)
LEMMA ClearSteps ==
  ASSUME OneProcess, OneRequest, GateInv, NEW r \in Requests,
         ClearWrite(r) \/ \E s \in Scopes : ClearRead(r, s)
  PROVE  Keeps
<1>1. req \in [Requests -> Locals] /\ \A s \in Requests : s = r
  BY DEF GateInv, TypeInv, TypeOK, OneRequest
<1>2. CASE \E s \in Scopes : ClearRead(r, s)
  <2>1. PICK s \in Scopes : ClearRead(r, s)
    BY <1>2
  <2> DEFINE l == [Idle EXCEPT !.pc = "unlink", !.scope = s, !.entries = file]
  <2>2. l.pc = "unlink"
    BY DEF Idle
  <2>3. req' = [req EXCEPT ![r] = l] /\ UNCHANGED <<disk, file, loaded, hist>>
    BY <2>1 DEF ClearRead, Goes
  <2> HIDE DEF l
  <2>4. \A q \in Requests : req'[q] = req[q] \/ req'[q].pc \in {"idle", "file", "unlink"}
    BY <1>1, <2>2, <2>3
  <2> QED BY <2>3, <2>4, Unseen DEF GateInv
<1>3. CASE ClearWrite(r)
  <2> DEFINE s == req[r].scope
  <2>1. req[r].entries = file /\ s \in Scopes
    BY <1>1, <1>3 DEF ClearWrite, GateInv, KillInv, Locals
  <2>2. file' = file \ {s} /\ hist'.killed = hist.killed \ {s} /\ UNCHANGED disk
        /\ req' = [req EXCEPT ![r] = Idle]
    BY <1>3, <2>1 DEF ClearWrite, Goes, GateInv, TypeInv, TypeOK
  <2>3. Contract!Clear(s)
    BY <2>2 DEF Contract!Clear
  <2>4. Alone'
    BY <1>1, <2>2 DEF Alone, Awaiting, Filed, Idle
  <2> QED BY <2>1, <2>3, <2>4 DEF Keeps, Contract!Next
<1> QED BY <1>2, <1>3

(* A load, a crash and the environment *)
LEMMA ProcessSteps ==
  ASSUME OneProcess, ~ WriteFaults, GateInv,
         \/ \E p \in Procs : Load(p) \/ Crash(p)
         \/ Tick \/ Switch \/ UNCHANGED vars
  PROVE  Keeps
<1>1. ASSUME NEW p \in Procs, Load(p) PROVE Keeps
  <2>1. disk'.state = disk.state /\ UNCHANGED <<file, req, hist>> /\ loaded \subseteq loaded'
    BY <1>1 DEF Load, GateInv, TypeInv, TypeOK, Records
  <2>2. UNCHANGED Contract!cvars
    BY <2>1 DEF Contract!cvars
  <2>3. Alone'
    BY <2>1 DEF GateInv, Alone, Awaiting, Filed
  <2> QED BY <2>2, <2>3 DEF Keeps
<1>2. ASSUME NEW p \in Procs, Crash(p) PROVE Keeps
  <2>1. UNCHANGED <<disk, file, hist>>
    BY <1>2 DEF Crash
  <2>2. UNCHANGED Contract!cvars
    BY <2>1 DEF Contract!cvars
  <2>3. \A r \in Requests : req'[r].pc = "idle"
    BY <1>2, ProcessAssumption DEF Crash, OneProcess, Idle
  <2> QED BY <2>2, <2>3 DEF Keeps, Alone, Awaiting, Filed
<1>3. CASE Tick \/ Switch \/ UNCHANGED vars
  BY <1>3, Unseen DEF Tick, Switch, vars, GateInv
<1> QED BY <1>1, <1>2, <1>3

LEMMA ContractStep ==
  ASSUME OneProcess, OneRequest, ~ WriteFaults, GateInv, [Next]_vars
  PROVE  Keeps
<1>1. ASSUME NEW r \in Requests, Transition(r) \/ Disable(r) PROVE Keeps
  BY <1>1, CheckSteps, HumanSteps DEF Transition
<1>2. ASSUME NEW r \in Requests,
             KillFile(r) \/ KillReset(r) \/ ClearWrite(r)
             \/ \E s \in Scopes : KillMemory(r, s) \/ ClearRead(r, s)
      PROVE  Keeps
  BY <1>2, KillSteps, ClearSteps
<1> QED BY <1>1, <1>2, ProcessSteps DEF Next

(* The live gate keeps its contract: with one request at a time in one     *)
(* process whose writes succeed, the files move along the matrix, down to  *)
(* DISCONNECTED, or by a kill or a clear, whatever crash cuts a check, a   *)
(* kill or a clear in two (transition, disable, kill, clearKill).          *)
THEOREM GateKeepsContract ==
  ASSUME OneProcess, OneRequest, ~ WriteFaults
  PROVE  Spec => ImplementsContract
<1>1. Init => GateInv /\ Contract!Init
  <2>1. Init => KillInv /\ Alone
    BY DEF Init, KillInv, Busy, Idle, Alone, Awaiting, Filed
  <2>2. Init => Contract!Init
    BY DEF Init, InitialRecord, Contract!Init, Contract!DISCONNECTED, DISCONNECTED
  <2> QED BY <2>1, <2>2, TypeInit, HumanInit DEF GateInv
<1>2. GateInv /\ [Next]_vars => GateInv' /\ [Contract!Next]_(Contract!cvars)
  BY ContractStep, TypeStep, KillStep, HumanStepKeeps DEF GateInv, Keeps
<1> QED BY <1>1, <1>2, PTL DEF Spec, ImplementsContract, Contract!Spec

(* Whatever the order of kills, downgrades, clears and steps forward: what *)
(* kill and clearKill promise together, by the matrix and the sequence of  *)
(* their effects alone.                                                    *)
THEOREM KillTakesDown == Contract!Spec => []Contract!KillHolds
<1>1. Contract!Init => Contract!KillHolds
  BY DEF Contract!Init, Contract!KillHolds
<1>2. ASSUME Contract!KillHolds, [Contract!Next]_(Contract!cvars) PROVE Contract!KillHolds'
  <2>1. CASE Contract!Advance
    BY <1>2, <2>1 DEF Contract!KillHolds, Contract!Advance
  <2>2. CASE Contract!Downgrade
    BY <1>2, <2>2 DEF Contract!KillHolds, Contract!Downgrade
  <2>3. ASSUME NEW s \in Scopes, Contract!Kill(s) \/ Contract!Ack(s) \/ Contract!Clear(s)
        PROVE  Contract!KillHolds'
    BY <1>2, <2>3 DEF Contract!KillHolds, Contract!Kill, Contract!Ack, Contract!Clear
  <2>4. CASE UNCHANGED Contract!cvars
    BY <1>2, <2>4 DEF Contract!KillHolds, Contract!cvars
  <2> QED BY <1>2, <2>1, <2>2, <2>3, <2>4 DEF Contract!Next
<1> QED BY <1>1, <1>2, PTL DEF Contract!Spec

(* So in the files of the gate an acknowledged kill keeps the venue        *)
(* DISCONNECTED until it is cleared (kill, clearKill, transition).         *)
THEOREM KillStaysDown ==
  ASSUME OneProcess, OneRequest, ~ WriteFaults
  PROVE  Spec => []Contract!KillHolds
  BY GateKeepsContract, KillTakesDown, PTL DEF ImplementsContract
=============================================================================
