---------------------------- MODULE TwapScheduler ----------------------------
(***************************************************************************)
(* The TWAP scheduler (execution/twap/scheduler.ts and store.ts): one      *)
(* parent order, its slices, the lease, and workers that tick, cancel and  *)
(* resume it. Every call of the store or of a child ends a step.           *)
(*                                                                         *)
(* A child is a workflow of the execution controller (child.ts), as its    *)
(* contract: an order that may trade while the workflow is open, a         *)
(* recorded quantity that may lag, and end states that are final.          *)
(*                                                                         *)
(* Quantities are venue steps, and times are units of which Interval make  *)
(* a slot. Versions are modelled by what they decide: "fresh" says that a  *)
(* worker's copy of the parent still has the current version, "sfresh"     *)
(* the same of the slice it is submitting.                                 *)
(***************************************************************************)
EXTENDS TwapPlan, FiniteSets, FiniteSetsExt

CONSTANTS
  Workers,              \* calls of the API, each with one operation at a time
  Owner,                \* the worker id a call names: equal for calls that name none
  Target,               \* targetQty
  MinSlice, MaxSlice,   \* bounds of a slice
  Deadline, Interval,   \* deadlineAt and sliceIntervalMs; startAt is 0
  MaxSlices,            \* bound on the number of slices
  MaxCrashes,           \* bound on crashes
  Env                   \* what the environment may do, a subset of Events

Events == {"unclear",    \* a child does not answer, or answers without news
           "reject",     \* the venue or a gate rejects a child
           "throw",      \* the call that starts a child fails, before or after its order
           "slow",       \* a tick takes longer than its lease
           "depth",      \* the book does not carry the slice
           "kill", "disconnect", "closed",
           "operator"}   \* cancel and resume through the API

ASSUME TwapAssumption ==
  /\ Target \in Nat \ {0} /\ MinSlice \in Nat \ {0} /\ MaxSlice \in Nat
  /\ Deadline \in Nat \ {0} /\ Interval \in Nat \ {0}
  /\ MaxSlices \in Nat /\ MaxCrashes \in Nat
  /\ Env \subseteq Events

VARIABLES
  par,      \* row of execution_twap_parents
  lease,    \* its lease: the call that holds it, and whether its time is over
  slices,   \* rows of execution_twap_slices in the order of their index
  child,    \* the workflow of each slice
  proc,     \* calls under way
  clock,
  crashes

vars == <<par, lease, slices, child, proc, clock, crashes>>

NoWorker == "none"
Actionable == {"PLANNED", "RUNNING", "PAUSED"}
Terminal == {"COMPLETED", "EXPIRED", "CANCELLED", "FAILED"}
Unconfirmed(why) ==
  CASE why = "KILL_SWITCH" -> "KILL_SWITCH_UNCONFIRMED"
    [] why = "DEADLINE" -> "DEADLINE_UNCONFIRMED"
    [] why = "OPERATOR_CANCEL" -> "OPERATOR_CANCEL_UNCONFIRMED"
    [] why = "MARKET_CLOSED" -> "MARKET_CLOSED_UNCONFIRMED"
    [] OTHER -> "CANCEL_UNCONFIRMED"
Held == {"KILL_SWITCH_UNCONFIRMED", "DEADLINE_UNCONFIRMED", "CANCEL_UNCONFIRMED"}
Reasons == Held \cup {"OPERATOR_CANCEL_UNCONFIRMED", "MARKET_CLOSED_UNCONFIRMED",
                      "CHILD_REJECTED", "OPERATOR_CANCEL", "INVARIANT_BROKEN",
                      "OVERFILL", "OTHER"}
ChildEnds == {"DONE", "FAILED", "REJECTED"}
SliceStates == {"PENDING", "SUBMITTED", "PARTIAL", "DONE", "SKIPPED", "CANCELLED"}
Unplanned == -1

Idle == [pc |-> "idle", op |-> "tick", cur |-> [status |-> "PLANNED", reason |-> "OTHER", uns |-> Unplanned, filled |-> 0],
         fresh |-> FALSE, now |-> 0, list |-> {}, ok |-> TRUE, why |-> "OTHER", want |-> "PAUSED",
         k |-> 0, sfresh |-> FALSE, q |-> 0, view |-> [state |-> "open", filled |-> 0],
         todo |-> <<>>, at |-> 0, uns |-> 0, after |-> "submit"]

Init ==
  /\ par = [status |-> "PLANNED", reason |-> "OTHER", uns |-> Unplanned, filled |-> 0]
  /\ lease = [holder |-> NoWorker, expired |-> FALSE]
  /\ slices = <<>>
  /\ child = [k \in 1 .. MaxSlices |-> [state |-> "none", qty |-> 0, traded |-> 0, filled |-> 0, since |-> 0]]
  /\ proc = [w \in Workers |-> Idle]
  /\ clock = 0
  /\ crashes = 0

-----------------------------------------------------------------------------
(* Readings of the slices *)

LiveIn(s) == {k \in DOMAIN s : s[k].status \in {"SUBMITTED", "PARTIAL"}}
SumOver(s, K, F(_)) == Steps([k \in DOMAIN s |-> IF k \in K THEN F(s[k]) ELSE 0])
Filled(s) == SumOver(s, DOMAIN s, LAMBDA x : x.filled)
Open(x) == Larger(0, x.qty - x.filled)

(* scheduler.ts liveOutstanding: a frozen slice counts as sent. *)
Outstanding(s) ==
  SumOver(s, LiveIn(s) \cup {k \in DOMAIN s : s[k].status = "PENDING" /\ s[k].frozen}, Open)

Loose(s) == {k \in DOMAIN s : s[k].status = "PENDING" /\ ~ s[k].frozen}

(* What is planned and not sent. *)
LooseQty(s) == SumOver(s, Loose(s), LAMBDA x : x.qty)

NewSlice(x) == [qty |-> x.qty, filled |-> 0, at |-> x.at, status |-> "PENDING", frozen |-> FALSE, by |-> NoWorker]

(* A slice that left without a child: of it only the place is used again, *)
(* and its quantity if it was frozen.                                     *)
Gone(x, status) == [x EXCEPT !.status = status, !.at = 0, !.by = NoWorker, !.qty = IF x.frozen THEN x.qty ELSE 0]

(* Mutants of SliceStatus: the end state of the child is taken over as it  *)
(* is; a slice with a first fill counts as done.                           *)
SliceStatusRaw(view) ==
  IF view.state = "open" THEN (IF view.filled > 0 THEN "PARTIAL" ELSE "SUBMITTED") ELSE view.state
SliceStatusEager(view) ==
  IF view.state = "open" THEN (IF view.filled > 0 THEN "DONE" ELSE "SUBMITTED")
  ELSE IF view.state = "DONE" THEN "DONE" ELSE "CANCELLED"

(* scheduler.ts sliceStatusOf *)
SliceStatus(view) ==
  CASE view.state = "DONE" -> "DONE"
    [] view.state \in {"FAILED", "REJECTED"} -> "CANCELLED"
    [] view.state = "open" -> IF view.filled > 0 THEN "PARTIAL" ELSE "SUBMITTED"

(* reconcile.ts reconcileParent over the row p at the time now. *)
reconcileParent(p, s, now) ==
  LET filled == Filled(s)
      live == LiveIn(s) # {}
      pending == SumOver(s, {k \in DOMAIN s : s[k].status = "PENDING"}, LAMBDA x : x.qty)
      accounted == filled + SumOver(s, LiveIn(s), Open) + pending + p.uns
      verdict ==
        CASE filled > Target -> <<"FAILED", "OVERFILL">>
          [] filled <= Target /\ p.uns # Unplanned /\ accounted # Target -> <<"FAILED", "INVARIANT_BROKEN">>
          [] OTHER ->
               IF p.status \in {"FAILED", "CANCELLED"} THEN <<p.status, p.reason>>
               ELSE IF ~ live /\ pending = 0 /\ filled = Target THEN <<"COMPLETED", "OTHER">>
               ELSE IF ~ live /\ now >= Deadline THEN <<"EXPIRED", "OTHER">>
               ELSE IF p.status = "PAUSED" THEN <<"PAUSED", p.reason>>
               ELSE IF s = <<>> /\ p.uns = Unplanned THEN <<"PLANNED", "OTHER">>
               ELSE <<"RUNNING", "OTHER">>
  IN [p EXCEPT !.status = verdict[1], !.reason = verdict[2], !.filled = filled]

PlanFrom(total, start) ==
  [total |-> total, lo |-> MinSlice, hi |-> MaxSlice, start |-> start, deadline |-> Deadline,
   interval |-> Interval, delta |-> [i \in 1 .. Deadline |-> 0], late |-> [i \in 1 .. Deadline |-> 0]]
ToSlices(plan) == [i \in 1 .. Len(plan.qty) |-> [qty |-> plan.qty[i], at |-> plan.at[i]]]

-----------------------------------------------------------------------------
(* Writes: every write of a row makes other copies of it outdated. *)

Step(w, r, parentWritten, written) ==
  proc' = [u \in Workers |->
             IF u = w THEN r
             ELSE [proc[u] EXCEPT !.fresh = @ /\ ~ parentWritten,
                                  !.sfresh = @ /\ proc[u].k \notin written]]

At(w, pc) == proc[w].pc = pc
Goto(w, pc) == [proc[w] EXCEPT !.pc = pc]
Leave(w) == [Idle EXCEPT !.pc = "release", !.op = proc[w].op]   \* nothing else is used again

(* store.ts updateParent: a conflict ends the call (STORE_CONFLICT). *)
updateParent(w, new, r) ==
  IF proc[w].fresh
  THEN par' = new /\ Step(w, [r EXCEPT !.cur = new, !.fresh = TRUE], TRUE, {})
  ELSE par' = par /\ Step(w, Leave(w), FALSE, {})

Reloaded(r) == [r EXCEPT !.cur = par, !.fresh = TRUE]

(* scheduler.ts pause: writes unless the parent is paused for that reason. *)
Pause(w, why, r) ==
  IF proc[w].cur.status = "PAUSED" /\ proc[w].cur.reason = why
  THEN par' = par /\ Step(w, r, FALSE, {})
  ELSE updateParent(w, [proc[w].cur EXCEPT !.status = "PAUSED", !.reason = why], r)

(* scheduler.ts applyView: the slice as the child reports it, then the    *)
(* parent is read again.                                                  *)
applyView(w, r) ==
  LET k == proc[w].k
      v == proc[w].view
  IN /\ slices' = [slices EXCEPT ![k].status = SliceStatus(v), ![k].filled = v.filled]
     /\ Step(w, [Reloaded(r) EXCEPT !.k = 0, !.view = Idle.view], FALSE, {k})

-----------------------------------------------------------------------------
(* Children *)

Ended(c) == [c EXCEPT !.filled = c.traded, !.state = IF c.traded = c.qty THEN "DONE" ELSE "FAILED"]
Read(c) == IF c.traded = c.qty THEN Ended(c) ELSE [c EXCEPT !.filled = c.traded]

(* What a poll may do: nothing, read the fills, or find the order at its  *)
(* time to live and end it.                                               *)
PollOutcomes(c) ==
  IF c.state # "open" THEN {c}
  ELSE {Read(c)} \cup (IF clock > c.since THEN {Ended(c)} ELSE {})
                 \cup (IF "unclear" \in Env THEN {c} ELSE {})

(* cancelOpen: confirmed, or left open. *)
CancelOutcomes(c) ==
  IF c.state # "open" THEN {c}
  ELSE {Ended(c)} \cup (IF "unclear" \in Env THEN {c, Read(c)} ELSE {})

View(c) == [state |-> c.state, filled |-> c.filled]

(* The call answers: the view is kept for the write that follows. *)
Answer(w, k, outcomes, pc) ==
  \E c \in outcomes :
    /\ child' = [child EXCEPT ![k] = c]
    /\ Step(w, [proc[w] EXCEPT !.pc = pc, !.k = k, !.view = View(c)], FALSE, {})

-----------------------------------------------------------------------------
(* Start of a call: load and lease (tick, cancel, resume), or none (start). *)

(* Mutant of LeaseFree: only a lease that was given back is free. *)
LeaseFreeReturned(w) == lease.holder = NoWorker

LeaseFree(w) ==
  lease.holder # NoWorker => (lease.expired \/ Owner[lease.holder] = Owner[w])

(* Mutant of Begin: the lease is taken whatever the status. *)
BeginAny(w, op, pc) ==
  /\ At(w, "idle")
  /\ LeaseFree(w)
  /\ lease' = [holder |-> w, expired |-> FALSE]
  /\ Step(w, [Idle EXCEPT !.pc = pc, !.op = op, !.cur = par, !.fresh = TRUE, !.now = clock], TRUE, {})
  /\ UNCHANGED <<par, slices, child, clock, crashes>>

Begin(w, op, pc) ==
  /\ At(w, "idle")
  /\ par.status \in Actionable
  /\ LeaseFree(w)
  /\ lease' = [holder |-> w, expired |-> FALSE]
  /\ Step(w, [Idle EXCEPT !.pc = pc, !.op = op, !.cur = par, !.fresh = TRUE, !.now = clock], TRUE, {})
  /\ UNCHANGED <<par, slices, child, clock, crashes>>

Tick(w) == Begin(w, "tick", IF par.status = "PLANNED" THEN "ensure" ELSE "safety")
Cancel(w) == "operator" \in Env /\ Begin(w, "cancel", "cancel")
Resume(w) == "operator" \in Env /\ par.status = "PAUSED" /\ Begin(w, "resume", "resume")

(* start takes no lease; a repeated start goes on only without slices. *)
Start(w) ==
  /\ At(w, "idle")
  /\ slices = <<>>
  /\ Step(w, [Idle EXCEPT !.pc = "ensure", !.op = "start", !.cur = par, !.fresh = TRUE, !.now = clock], FALSE, {})
  /\ UNCHANGED <<par, lease, slices, child, clock, crashes>>

-----------------------------------------------------------------------------
(* The first plan *)

EnsurePlan(w) ==
  /\ At(w, "ensure")
  /\ LET plan == planTwap(PlanFrom(Target, 0))
     IN IF slices # <<>>
        THEN Step(w, IF proc[w].op = "start" THEN Leave(w) ELSE Goto(w, "started"), FALSE, {})
        ELSE IF plan.code \notin {"OK", "UNSCHEDULABLE"}
        THEN Step(w, Leave(w), FALSE, {})
        ELSE Step(w, [proc[w] EXCEPT !.pc = "insert", !.todo = ToSlices(plan), !.at = 1, !.after = "planned",
                                     !.uns = IF plan.code = "OK" THEN 0 ELSE Target], FALSE, {})
  /\ UNCHANGED <<par, lease, slices, child, clock, crashes>>

(* store.ts insertSlices: one row after the other; an index that exists   *)
(* is a conflict, which ends the call.                                    *)
InsertSlice(w) ==
  /\ At(w, "insert")
  /\ LET p == proc[w]
     IN IF p.todo = <<>>
        THEN slices' = slices /\ Step(w, Goto(w, p.after), FALSE, {})
        ELSE IF Len(slices) >= p.at
        THEN slices' = slices /\ Step(w, Leave(w), FALSE, {})
        ELSE /\ p.at <= MaxSlices
             /\ slices' = Append(slices, NewSlice(Head(p.todo)))
             /\ Step(w, [p EXCEPT !.todo = Tail(@), !.at = @ + 1], FALSE, {})
  /\ UNCHANGED <<par, lease, child, clock, crashes>>

Planned(w) ==
  /\ At(w, "planned")
  /\ updateParent(w, [proc[w].cur EXCEPT !.uns = proc[w].uns, !.reason = "OTHER"],
                  IF proc[w].op = "start" THEN Leave(w) ELSE [Goto(w, "started") EXCEPT !.uns = 0, !.at = 0, !.after = "submit"])
  /\ UNCHANGED <<lease, slices, child, clock, crashes>>

Started(w) ==
  /\ At(w, "started")
  /\ updateParent(w, [proc[w].cur EXCEPT !.status = "RUNNING", !.reason = "OTHER"], Goto(w, "safety"))
  /\ UNCHANGED <<lease, slices, child, clock, crashes>>

-----------------------------------------------------------------------------
(* scheduler.ts tickLeased up to the reconciliation *)

(* cancelParent(reason, want, cancelLive): lists the live slices first. *)
Ending(w, why, want, cancelLive) ==
  [proc[w] EXCEPT !.pc = "cancelling", !.why = why, !.want = want, !.ok = TRUE,
                  !.list = IF cancelLive THEN LiveIn(slices) ELSE {}]

(* safetyOf: the kill switch, the connection and the market are asked now. *)
Stop(w) ==
  /\ At(w, "safety")
  /\ \/ "kill" \in Env /\ Step(w, Ending(w, "KILL_SWITCH", "CANCELLED", TRUE), FALSE, {})
     \/ "disconnect" \in Env /\ Step(w, Ending(w, "OTHER", "PAUSED", FALSE), FALSE, {})
     \/ "closed" \in Env /\ Step(w, Ending(w, "MARKET_CLOSED", "PAUSED", TRUE), FALSE, {})
  /\ UNCHANGED <<par, lease, slices, child, clock, crashes>>

Expire(w) ==
  /\ At(w, "safety")
  /\ proc[w].now >= Deadline
  /\ Step(w, Ending(w, "DEADLINE", "EXPIRED", TRUE), FALSE, {})
  /\ UNCHANGED <<par, lease, slices, child, clock, crashes>>

(* holdPause: an unconfirmed cancel is tried again and ends the parent. *)
Hold(w) ==
  LET cur == proc[w].cur
  IN /\ At(w, "safety")
     /\ proc[w].now < Deadline
     /\ cur.status = "PAUSED" /\ cur.reason \in Held
     /\ Step(w, Ending(w, "DEADLINE", IF cur.reason = "DEADLINE_UNCONFIRMED" THEN "EXPIRED" ELSE "CANCELLED", TRUE),
             FALSE, {})
     /\ UNCHANGED <<par, lease, slices, child, clock, crashes>>

Proceed(w) ==
  LET cur == proc[w].cur
      next == [Goto(w, "polling") EXCEPT !.list = LiveIn(slices)]
  IN /\ At(w, "safety")
     /\ proc[w].now < Deadline
     /\ IF cur.status = "PAUSED"
        THEN /\ cur.reason \notin Held
             /\ updateParent(w, [cur EXCEPT !.status = "RUNNING", !.reason = "OTHER"], next)
        ELSE par' = par /\ Step(w, next, FALSE, {})
     /\ UNCHANGED <<lease, slices, child, clock, crashes>>

CancelAsked(w) ==
  /\ At(w, "cancel")
  /\ Step(w, Ending(w, "OPERATOR_CANCEL", "CANCELLED", TRUE), FALSE, {})
  /\ UNCHANGED <<par, lease, slices, child, clock, crashes>>

Resumed(w) ==
  /\ At(w, "resume")
  /\ updateParent(w, [proc[w].cur EXCEPT !.status = "RUNNING", !.reason = "OTHER"], Leave(w))
  /\ UNCHANGED <<lease, slices, child, clock, crashes>>

-----------------------------------------------------------------------------
(* scheduler.ts cancelParent: cancelLive, then either a pause or dropPending *)
(* and the end of the parent.                                              *)

CancelChild(w) ==
  LET k == Min(proc[w].list)
  IN /\ At(w, "cancelling") /\ proc[w].list # {}
     /\ \/ Answer(w, k, CancelOutcomes(child[k]), "cancelled")
        \/ /\ "unclear" \in Env
           /\ Step(w, [proc[w] EXCEPT !.list = @ \ {k}, !.ok = FALSE], FALSE, {})
           /\ UNCHANGED child
     /\ UNCHANGED <<par, lease, slices, clock, crashes>>

(* Mutant of ChildCancelled: an answer is taken for a confirmation. *)
ChildCancelledAssumed(w) ==
  LET p == proc[w]
  IN /\ At(w, "cancelled")
     /\ applyView(w, [p EXCEPT !.pc = "cancelling", !.list = @ \ {p.k}])
     /\ UNCHANGED <<par, lease, child, clock, crashes>>

ChildCancelled(w) ==
  LET p == proc[w]
  IN /\ At(w, "cancelled")
     /\ applyView(w, [p EXCEPT !.pc = "cancelling", !.list = @ \ {p.k},
                               !.ok = @ /\ p.view.state \in ChildEnds])
     /\ UNCHANGED <<par, lease, child, clock, crashes>>

NotConfirmed(w) ==
  /\ At(w, "cancelling") /\ proc[w].list = {} /\ ~ proc[w].ok
  /\ Pause(w, Unconfirmed(proc[w].why), Leave(w))
  /\ UNCHANGED <<lease, slices, child, clock, crashes>>

DropPending(w) ==
  LET drop == {k \in DOMAIN slices : slices[k].status = "PENDING"}
  IN /\ At(w, "cancelling") /\ proc[w].list = {} /\ proc[w].ok
     /\ slices' = [k \in DOMAIN slices |-> IF k \in drop THEN Gone(slices[k], "CANCELLED") ELSE slices[k]]
     /\ Step(w, Reloaded(Goto(w, "close")), FALSE, drop)
     /\ UNCHANGED <<par, lease, child, clock, crashes>>

(* Mutant of Close: what expires without a live child is complete. *)
CloseComplete(w) ==
  LET filled == Filled(slices)
      status == IF proc[w].want = "EXPIRED" THEN "COMPLETED" ELSE proc[w].want
  IN /\ At(w, "close")
     /\ updateParent(w, [status |-> status,
                         reason |-> IF proc[w].why = "OPERATOR_CANCEL" THEN "OPERATOR_CANCEL" ELSE "OTHER",
                         uns |-> Larger(0, Target - filled - Outstanding(slices)),
                         filled |-> filled],
                     Leave(w))
     /\ UNCHANGED <<lease, slices, child, clock, crashes>>

Close(w) ==
  LET filled == Filled(slices)
      status == IF proc[w].want = "EXPIRED" /\ filled >= Target THEN "COMPLETED" ELSE proc[w].want
  IN /\ At(w, "close")
     /\ updateParent(w, [status |-> status,
                         reason |-> IF proc[w].why = "OPERATOR_CANCEL" THEN "OPERATOR_CANCEL" ELSE "OTHER",
                         uns |-> Larger(0, Target - filled - Outstanding(slices)),
                         filled |-> filled],
                     Leave(w))
     /\ UNCHANGED <<lease, slices, child, clock, crashes>>

-----------------------------------------------------------------------------
(* reconcileLive and cancelExpiredSlice *)

PollChild(w) ==
  LET k == Min(proc[w].list)
  IN /\ At(w, "polling") /\ proc[w].list # {}
     /\ \/ Answer(w, k, PollOutcomes(child[k]), "polled")
        \/ "unclear" \in Env /\ Step(w, Leave(w), FALSE, {}) /\ UNCHANGED child
     /\ UNCHANGED <<par, lease, slices, clock, crashes>>

ChildPolled(w) ==
  /\ At(w, "polled")
  /\ applyView(w, [proc[w] EXCEPT !.pc = IF par.status \in Terminal THEN "release" ELSE "polling",
                                  !.list = @ \ {proc[w].k}])
  /\ UNCHANGED <<par, lease, child, clock, crashes>>

(* The end of the slot: the live slice is cancelled. *)
Boundary(w) ==
  LET live == LiveIn(slices)
      k == Min(live)
  IN /\ At(w, "polling") /\ proc[w].list = {}
     /\ IF live = {} \/ proc[w].now < slices[k].at + Interval
        THEN Step(w, [Goto(w, "replan") EXCEPT !.after = "submit"], FALSE, {}) /\ UNCHANGED child
        ELSE \/ Answer(w, k, CancelOutcomes(child[k]), "ended")
             \/ /\ "unclear" \in Env
                /\ Step(w, [Goto(w, "pause") EXCEPT !.why = "CANCEL_UNCONFIRMED", !.after = "release"], FALSE, {})
                /\ UNCHANGED child
     /\ UNCHANGED <<par, lease, slices, clock, crashes>>

SliceEnded(w) ==
  LET p == proc[w]
  IN /\ At(w, "ended")
     /\ applyView(w, IF p.view.state \in ChildEnds
                     THEN [p EXCEPT !.pc = "replan", !.after = "submit"]
                     ELSE [p EXCEPT !.pc = "pause", !.why = "CANCEL_UNCONFIRMED", !.after = "release"])
     /\ UNCHANGED <<par, lease, child, clock, crashes>>

PauseNow(w) ==
  /\ At(w, "pause")
  /\ Pause(w, proc[w].why, Goto(w, proc[w].after))
  /\ UNCHANGED <<lease, slices, child, clock, crashes>>

-----------------------------------------------------------------------------
(* scheduler.ts replan: the rest of the quantity in the rest of the window. *)

Replan(w) ==
  LET p == proc[w]
      rest == Larger(0, Target - Filled(slices) - Outstanding(slices))
      loose == Loose(slices)
      fitted == IF rest > 0 THEN fitPlan(PlanFrom(rest, snapToGrid(0, Interval, p.now))) ELSE Refused("NONE")
  IN /\ At(w, "replan")
     /\ IF LooseQty(slices) = rest /\ p.cur.uns = 0
        THEN /\ slices' = slices
             /\ Step(w, Goto(w, IF p.after = "submit" /\ p.cur.status # "RUNNING" THEN "release" ELSE p.after), FALSE, {})
        ELSE /\ slices' = [k \in DOMAIN slices |->
                             IF k \in loose THEN Gone(slices[k], "SKIPPED") ELSE slices[k]]
             /\ Step(w, [p EXCEPT !.pc = "insert", !.todo = ToSlices(fitted), !.at = Len(slices) + 1,
                                  !.uns = rest - Steps(fitted.qty),
                                  !.after = IF p.after = "submit" THEN "adapted" ELSE "readapted"],
                     FALSE, loose)
     /\ UNCHANGED <<par, lease, child, clock, crashes>>

(* Mutant of Adapted: the rest that found no slot is not recorded. *)
AdaptedUnrecorded(w) ==
  LET p == proc[w]
      next == IF At(w, "readapted") THEN "account"
              ELSE IF p.cur.status # "RUNNING" THEN "release" ELSE "submit"
  IN /\ p.pc \in {"adapted", "readapted"}
     /\ updateParent(w, [p.cur EXCEPT !.reason = "OTHER"],
                     [Goto(w, next) EXCEPT !.uns = 0, !.at = 0, !.after = "submit"])
     /\ UNCHANGED <<lease, slices, child, clock, crashes>>

Adapted(w) ==
  LET p == proc[w]
      next == IF At(w, "readapted") THEN "account"
              ELSE IF p.cur.status # "RUNNING" THEN "release" ELSE "submit"
  IN /\ p.pc \in {"adapted", "readapted"}
     /\ updateParent(w, [p.cur EXCEPT !.uns = p.uns, !.reason = "OTHER"],
                     [Goto(w, next) EXCEPT !.uns = 0, !.at = 0, !.after = "submit"])
     /\ UNCHANGED <<lease, slices, child, clock, crashes>>

-----------------------------------------------------------------------------
(* pickDue and submitOne *)

(* Mutant of Pick: a live slice does not block the next one. *)
PickAnyway(w) ==
  LET p == proc[w]
      due == {k \in DOMAIN slices : slices[k].status = "PENDING" /\ slices[k].at <= p.now}
      k == Min(due)
      least == IF "depth" \in Env THEN MinSlice ELSE slices[k].qty
  IN /\ At(w, "submit")
     /\ IF due = {}
        THEN Step(w, Goto(w, "account"), FALSE, {})
        ELSE \/ \E q \in IF slices[k].frozen THEN {slices[k].qty} ELSE least .. slices[k].qty :
                  Step(w, [p EXCEPT !.pc = "claim", !.k = k, !.sfresh = TRUE, !.q = q], FALSE, {})
             \/ /\ "depth" \in Env /\ ~ slices[k].frozen
                /\ Step(w, [p EXCEPT !.pc = "pause", !.why = "OTHER", !.after = "account"], FALSE, {})
     /\ UNCHANGED <<par, lease, slices, child, clock, crashes>>

(* assessDepth of an unfrozen slice: a quantity within the bounds. *)
Pick(w) ==
  LET p == proc[w]
      due == {k \in DOMAIN slices : slices[k].status = "PENDING" /\ slices[k].at <= p.now}
      k == Min(due)
      least == IF "depth" \in Env THEN MinSlice ELSE slices[k].qty
  IN /\ At(w, "submit")
     /\ IF LiveIn(slices) # {} \/ due = {}
        THEN Step(w, Goto(w, "account"), FALSE, {})
        ELSE \/ \E q \in IF slices[k].frozen THEN {slices[k].qty} ELSE least .. slices[k].qty :
                  Step(w, [p EXCEPT !.pc = "claim", !.k = k, !.sfresh = TRUE, !.q = q], FALSE, {})
             \/ /\ "depth" \in Env /\ ~ slices[k].frozen
                /\ Step(w, [p EXCEPT !.pc = "pause", !.why = "OTHER", !.after = "account"], FALSE, {})
     /\ UNCHANGED <<par, lease, slices, child, clock, crashes>>

(* store.ts claimSlice: the claim of another owner stands for leaseMs. *)
Claim(w) ==
  LET k == proc[w].k
  IN /\ At(w, "claim")
     /\ \/ /\ proc[w].sfresh /\ slices[k].status = "PENDING"
           /\ slices' = [slices EXCEPT ![k].by = Owner[w]]
           /\ Step(w, Goto(w, "freeze"), FALSE, {k})
        \/ /\ \/ ~ proc[w].sfresh
              \/ slices[k].status # "PENDING"
              \/ slices[k].by \notin {NoWorker, Owner[w]}
           /\ slices' = slices
           /\ Step(w, [Goto(w, "account") EXCEPT !.k = 0, !.sfresh = FALSE, !.q = 0], FALSE, {})
     /\ UNCHANGED <<par, lease, child, clock, crashes>>

(* Mutant of Freeze: marks the slice and leaves its quantity. *)
FreezeMark(w) ==
  LET k == proc[w].k
  IN /\ At(w, "freeze")
     /\ IF proc[w].sfresh
        THEN /\ slices' = [slices EXCEPT ![k].frozen = TRUE]
             /\ Step(w, Goto(w, "send"), FALSE, {k})
        ELSE slices' = slices /\ Step(w, Leave(w), FALSE, {})
     /\ UNCHANGED <<par, lease, child, clock, crashes>>

Freeze(w) ==
  LET k == proc[w].k
  IN /\ At(w, "freeze")
     /\ IF proc[w].sfresh
        THEN /\ slices' = [slices EXCEPT ![k].qty = proc[w].q, ![k].frozen = TRUE]
             /\ Step(w, Goto(w, "send"), FALSE, {k})
        ELSE slices' = slices /\ Step(w, Leave(w), FALSE, {})
     /\ UNCHANGED <<par, lease, child, clock, crashes>>

(* executor.start: the key of the workflow is made of the slice and its   *)
(* quantity; a second start answers with the workflow that exists.        *)
Placed(w) == [state |-> "open", qty |-> proc[w].q, traded |-> 0, filled |-> 0, since |-> clock]
Rejected(w) == [Placed(w) EXCEPT !.state = "REJECTED"]

Send(w) ==
  LET k == proc[w].k
      c == child[k]
  IN /\ At(w, "send")
     /\ \/ Answer(w, k, IF c.state # "none" THEN {c}
                        ELSE {Placed(w)} \cup (IF "reject" \in Env THEN {Rejected(w)} ELSE {}), "sent")
        \/ /\ "throw" \in Env
           /\ child' \in {child, [child EXCEPT ![k] = IF c.state = "none" THEN Placed(w) ELSE c]}
           /\ Step(w, Leave(w), FALSE, {})
     /\ UNCHANGED <<par, lease, slices, clock, crashes>>

Sent(w) ==
  LET p == proc[w]
  IN /\ At(w, "sent")
     /\ IF p.sfresh
        THEN /\ slices' = [slices EXCEPT ![p.k].status = SliceStatus(p.view), ![p.k].filled = p.view.filled]
             /\ Step(w, Reloaded(IF p.view.state \in {"REJECTED", "FAILED"}
                                 THEN [Goto(w, "pause") EXCEPT !.why = "CHILD_REJECTED", !.after = "account", !.q = 0, !.view = Idle.view]
                                 ELSE [Goto(w, "replan") EXCEPT !.after = "account", !.q = 0, !.view = Idle.view]),
                     FALSE, {p.k})
        ELSE slices' = slices /\ Step(w, Leave(w), FALSE, {})
     /\ UNCHANGED <<par, lease, child, clock, crashes>>

(* persistReconcile: the row is read again and written if it changes. *)
Account(w) ==
  LET new == reconcileParent(par, slices, proc[w].now)
  IN /\ At(w, "account")
     /\ IF new.status = par.status /\ new.filled = par.filled
        THEN par' = par /\ Step(w, Leave(w), FALSE, {})
        ELSE par' = new /\ Step(w, Leave(w), TRUE, {})
     /\ UNCHANGED <<lease, slices, child, clock, crashes>>

(* finally releaseLease: only with the token of this call. *)
Release(w) ==
  /\ At(w, "release")
  /\ IF lease.holder = w /\ proc[w].op # "start"
     THEN lease' = [holder |-> NoWorker, expired |-> FALSE] /\ Step(w, Idle, TRUE, {})
     ELSE lease' = lease /\ Step(w, Idle, FALSE, {})
  /\ UNCHANGED <<par, slices, child, clock, crashes>>

-----------------------------------------------------------------------------
(* The environment *)

LeaseExpires ==
  /\ lease.holder # NoWorker /\ ~ lease.expired
  /\ "slow" \in Env \/ At(lease.holder, "idle")
  /\ lease' = [lease EXCEPT !.expired = TRUE]
  /\ UNCHANGED <<par, slices, child, proc, clock, crashes>>

Fill(k) ==
  /\ child[k].state = "open" /\ child[k].traded < child[k].qty
  /\ child' = [child EXCEPT ![k].traded = @ + 1]
  /\ UNCHANGED <<par, lease, slices, proc, clock, crashes>>

Pass ==
  /\ clock < Deadline
  /\ clock' = clock + 1
  /\ UNCHANGED <<par, lease, slices, child, proc, crashes>>

Crash(w) ==
  /\ ~ At(w, "idle") /\ crashes < MaxCrashes
  /\ crashes' = crashes + 1
  /\ Step(w, Idle, FALSE, {})
  /\ UNCHANGED <<par, lease, slices, child, clock>>

-----------------------------------------------------------------------------
Planning(w) == EnsurePlan(w) \/ InsertSlice(w) \/ Planned(w) \/ Started(w)
Deciding(w) == Stop(w) \/ Expire(w) \/ Hold(w) \/ Proceed(w) \/ CancelAsked(w) \/ Resumed(w)
Cancelling(w) == CancelChild(w) \/ ChildCancelled(w) \/ NotConfirmed(w) \/ DropPending(w) \/ Close(w)
Reconciling(w) == PollChild(w) \/ ChildPolled(w) \/ Boundary(w) \/ SliceEnded(w) \/ PauseNow(w)
Submitting(w) == Replan(w) \/ Adapted(w) \/ Pick(w) \/ Claim(w) \/ Freeze(w) \/ Send(w) \/ Sent(w)
Running(w) == Planning(w) \/ Deciding(w) \/ Cancelling(w) \/ Reconciling(w) \/ Submitting(w)
                \/ Account(w) \/ Release(w)

Next ==
  \/ \E w \in Workers : Tick(w) \/ Cancel(w) \/ Resume(w) \/ Start(w) \/ Running(w) \/ Crash(w)
  \/ \E k \in 1 .. MaxSlices : Fill(k)
  \/ LeaseExpires
  \/ Pass

Spec == Init /\ [][Next]_vars

-----------------------------------------------------------------------------
(* Properties *)

TypeOK ==
  /\ par \in [status : Actionable \cup Terminal, reason : Reasons, uns : Unplanned .. Target, filled : 0 .. Target]
  /\ lease \in [holder : Workers \cup {NoWorker}, expired : BOOLEAN]
  /\ Len(slices) <= MaxSlices
  /\ \A k \in DOMAIN slices :
       slices[k] \in [qty : 0 .. Target, filled : 0 .. Target, at : 0 .. Deadline, status : SliceStates,
                      frozen : BOOLEAN, by : {Owner[w] : w \in Workers} \cup {NoWorker}]
  /\ child \in [1 .. MaxSlices -> [state : {"none", "open"} \cup ChildEnds, qty : 0 .. Target,
                                   traded : 0 .. Target, filled : 0 .. Target, since : 0 .. Deadline]]
  /\ clock \in 0 .. Deadline /\ crashes \in 0 .. MaxCrashes

(* What the children have traded and may still trade never exceeds the    *)
(* parent's quantity: no restart, replan or late fill sends a rest twice. *)
Exposure == Steps([k \in 1 .. MaxSlices |-> IF child[k].state = "open" THEN child[k].qty ELSE child[k].traded])
NoOverExposure == Exposure <= Target

(* A live slice blocks the next one: at most one child may trade. *)
OneChild == Cardinality({k \in 1 .. MaxSlices : child[k].state = "open"}) <= 1

(* A parent that ended has no child that may still trade. *)
TerminalChildrenDead == par.status \in Terminal => \A k \in 1 .. MaxSlices : child[k].state # "open"

(* The scheduler's own check of its books (filled, live, pending and       *)
(* unscheduled make the target) never fires: no sequence of partial fills, *)
(* replans, unclear cancels and pauses loses or invents a part.            *)
BooksBalance == par.reason \notin {"INVARIANT_BROKEN", "OVERFILL"}

(* COMPLETED is never claimed early. *)
CompletedMeansTraded ==
  par.status = "COMPLETED" => Steps([k \in 1 .. MaxSlices |-> child[k].traded]) = Target

(* A child has the quantity that was frozen before it was started, so a   *)
(* restart finds the same workflow.                                       *)
QuantityFrozen ==
  \A k \in 1 .. MaxSlices : child[k].state # "none" =>
    k \in DOMAIN slices /\ slices[k].frozen /\ slices[k].qty = child[k].qty

(* A parent that ended stays as it ended. *)
EndIsFinal == [][par.status \in Terminal => par'.status = par.status]_vars

(* A parent the operator cancelled is not set going again but by resume. *)
CancelStands ==
  [][(par.status = "PAUSED" /\ par.reason = "OPERATOR_CANCEL_UNCONFIRMED" /\ par'.status = "RUNNING")
       => \E w \in Workers : At(w, "resume")]_vars

(* A rejected child pauses the parent. *)
RejectPauses ==
  [][par.reason = "CHILD_REJECTED" => par'.status # "FAILED"]_vars

(* The timers run, workers tick, leases end, and a call that began goes on: *)
(* every step of a call is enabled until the call is over, so weak fairness *)
(* of Running(w) is written out (ENABLED of the planner is slow in TLC).    *)
Goes(w) == []<>At(w, "idle") \/ []<><<Running(w)>>_vars

FairSpec ==
  /\ Spec
  /\ WF_vars(Pass)
  /\ WF_vars(LeaseExpires)
  /\ \A w \in Workers : WF_vars(Tick(w)) /\ Goes(w)

(* Every parent ends, for the deadline passes, although a worker may crash *)
(* and keep its lease.                                                    *)
ParentEnds == <>(par.status \in Terminal)
=============================================================================
