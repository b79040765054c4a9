----------------------- MODULE ExecutionWorkflowProof -----------------------
(***************************************************************************)
(* Proofs about ExecutionWorkflow, for any number of pollers, any target,  *)
(* policy and set of faults.  TypeOK and CancelSound are proved from one   *)
(* inductive invariant.  Its heart is that a poller's copy of the row with *)
(* the row's own version IS the row, and that what a poller has been told  *)
(* about a cancel stays true, because a dead order stays dead.             *)
(*                                                                         *)
(* The second half is about the end of a workflow.  One that is DONE or    *)
(* FAILED stays as it is and no recorded fill is forgotten: a poller that  *)
(* is under way holds a row that is not terminal, and a copy that may be   *)
(* written is the row itself, by the version, so nobody who writes does so *)
(* to a terminal row.  And DONE is true: each order is for what was left   *)
(* of the target when its sender looked, and nobody is told of fills the   *)
(* venue did not make.                                                     *)
(***************************************************************************)
EXTENDS ExecutionWorkflow, TLAPS, FiniteSetTheorems

(* An order that was cancelled, or that can no longer trade; v: the venue. *)
IsCanceled(v, o) == v[o].st = "canceled"
IsDead(v, o) == v[o].st \in {"canceled", "filled"}

(* The attempt counter never runs ahead of the reprice budget spent. *)
RowOK(r) == r \in Rows /\ r.attempt <= r.reprices

(* What a poller holds: typed, with budget and quantity for the order it is*)
(* about to send, and right about the cancels it was told of.              *)
Toldright(l, v) ==
  /\ l.view = "CANCELED" /\ l.rec.state # "FALLBACK_SUBMITTED" => IsCanceled(v, l.rec.client)
  /\ \/ l.pc \in {"confirm", "confirmed"}
     \/ l.pc = "retried" /\ l.out = "CONFIRMED"
     => IsDead(v, l.rec.client)

Sendable(l) ==
  /\ l.pc = "quote" => l.rec.reprices < MaxReprices
  /\ l.pc \in {"send", "persist"} =>
       l.qty > 0 /\ (l.kind = "reprice" => l.rec.reprices < MaxReprices)
  /\ l.pc \in {"quote", "send", "persist", "ttl"} => l.rec.state # "FALLBACK_SUBMITTED"

(* A poller that is under way holds a row that exists. *)
Holding(l) == l.pc \notin {"idle", "load"} => l.rec.state # "ABSENT"

LocalOK(l, v) ==
  l \in Locals /\ RowOK(l.rec) /\ Holding(l) /\ Sendable(l) /\ Toldright(l, v)

(* A copy of the row is older than the row, or it is the row. *)
Fresh(r, w) == r.version <= w.version /\ (r.version = w.version => r = w)

VenueOK(v) ==
  /\ v \in [Orders -> VenueOrders]
  /\ \A o \in Orders : v[o].st \in {"wire", "live"} => v[o].filled < v[o].qty

CancelOK(r, v) == r.state \in {"CANCELLED", "FALLBACK_SUBMITTED"} => IsDead(v, r.client)

IInv ==
  /\ RowOK(wf) /\ CancelOK(wf, venue) /\ Fresh(Absent, wf)
  /\ wf.state = "ABSENT" => wf.version = 0
  /\ seen \subseteq Fills
  /\ VenueOK(venue)
  /\ elapsed \subseteq {"ttl", "cancel"}
  /\ sends \in 0 .. Cap
  /\ crashes \in 0 .. MaxCrashes
  /\ proc \in [Pollers -> Locals]
  /\ \A q \in Pollers : LocalOK(proc[q], venue) /\ Fresh(proc[q].rec, wf)

(* A dead order stays dead. *)
DeadStays(v, w) ==
  \A o \in Orders : (IsCanceled(v, o) => IsCanceled(w, o)) /\ (IsDead(v, o) => IsDead(w, o))

USE QuantityAssumption, PolicyAssumption, EnvAssumption

-----------------------------------------------------------------------------
(* Arithmetic and finite sets.                                             *)

(* Rounding down to a multiple of the step does not round up. *)
LEMMA FloorBound ==
  ASSUME NEW n \in Int, NEW s \in Nat \ {0}
  PROVE  (n \div s) * s \in Int /\ (n \div s) * s <= n
  OBVIOUS

(* A set of fills is finite. *)
LEMMA FillsFinite == ASSUME NEW f \in SUBSET Fills PROVE IsFiniteSet(f)
<1>1. IsFiniteSet(Limits) /\ IsFiniteSet({F}) /\ IsFiniteSet(1 .. Target)
  <2>1. 0 \in Int /\ 1 \in Int /\ MaxReprices \in Int /\ Target \in Int
    OBVIOUS
  <2> QED BY <2>1, FS_Interval, FS_Singleton DEF Limits
<1>2. IsFiniteSet(Orders)
  BY <1>1, FS_Union DEF Orders
<1>3. IsFiniteSet(Fills)
  BY <1>1, <1>2, FS_Product DEF Fills
<1> QED BY <1>3, FS_Subset

(* Its size is a number. *)
LEMMA TotalType == ASSUME NEW f \in SUBSET Fills PROVE Total(f) \in Nat
  BY FillsFinite, FS_CardinalityType DEF Total

(* A remainder that is sent is a positive quantity within the target. *)
LEMMA RemainderBound ==
  ASSUME NEW f \in SUBSET Fills, ~NoRemainder(f)
  PROVE  Remainder(f) \in 1 .. Target
<1>1. Total(f) \in Nat
  BY TotalType
<1>2. Remainder(f) \in Int /\ Remainder(f) <= Target - Total(f)
  BY <1>1, FloorBound DEF Remainder
<1> QED BY <1>1, <1>2 DEF NoRemainder

(* Only a pending cancel is confirmed, only a confirmed one falls back. *)
LEMMA CancelEdges ==
  ASSUME NEW s, NEW t, CanTransition(s, t)
  PROVE  /\ t = "CANCELLED" => s \in {"CANCELLED", "CANCEL_PENDING"}
         /\ t = "FALLBACK_SUBMITTED" => s \in {"CANCELLED", "FALLBACK_SUBMITTED"}
  BY DEF CanTransition, ALLOWED_TRANSITIONS

-----------------------------------------------------------------------------
(* What one step of one poller has to establish.                           *)

(* A poller that returns holds nothing. *)
LEMMA EndedOK ==
  ASSUME IInv, NEW p \in Pollers, NEW v
  PROVE  /\ LocalOK(Ended(p), v) /\ Ended(p).rec = Absent
         /\ Ended(p).pc \in {"idle", "load"}
<1>1. proc[p] \in Locals
  BY DEF IInv
<1>2. Absent \in Rows /\ Absent.attempt <= Absent.reprices
  BY DEF Absent, Rows, States, Limits, Reasons
<1>3. Ended(p) \in Locals /\ Ended(p).rec = Absent /\ Ended(p).pc \in {"idle", "load"}
      /\ Ended(p).view = "?"
  <2>1. proc[p].polls \in 0 .. 4
    BY <1>1 DEF Locals
  <2>2. Idle \in Locals /\ Idle.rec = Absent /\ Idle.pc = "idle" /\ Idle.view = "?"
    BY <1>2 DEF Idle, Locals, PCs, Views, Outcomes
  <2>3. ASSUME NEW k \in 0 .. 4, NEW l, l = [Idle EXCEPT !.pc = "load", !.polls = k]
        PROVE  l \in Locals /\ l.rec = Absent /\ l.pc = "load" /\ l.view = "?"
    BY <2>2, <2>3 DEF Locals, PCs
  <2>4. CASE proc[p].polls = 0
    BY <2>2, <2>4 DEF Ended
  <2>5. CASE proc[p].polls # 0
    <3>1. proc[p].polls - 1 \in 0 .. 4
      BY <2>1, <2>5
    <3>2. Ended(p) = [Idle EXCEPT !.pc = "load", !.polls = proc[p].polls - 1]
      BY <2>5 DEF Ended
    <3> QED BY <2>3, <3>1, <3>2
  <2> QED BY <2>4, <2>5
<1> QED BY <1>2, <1>3 DEF LocalOK, RowOK, Holding, Sendable, Toldright

(* While a poller takes a step that leaves the row alone, the others keep  *)
(* what they have, provided dead orders stay dead.                         *)
LEMMA OthersKeep ==
  ASSUME IInv, NEW p \in Pollers, NEW l,
         DeadStays(venue, venue'), LocalOK(l, venue'), Fresh(l.rec, wf),
         wf' = wf, Goto(p, l)
  PROVE  /\ proc' \in [Pollers -> Locals]
         /\ \A q \in Pollers : LocalOK(proc'[q], venue') /\ Fresh(proc'[q].rec, wf')
<1>1. proc' \in [Pollers -> Locals]
  BY DEF IInv, Goto, LocalOK
<1>2. ASSUME NEW q \in Pollers
      PROVE  LocalOK(proc'[q], venue') /\ Fresh(proc'[q].rec, wf')
  <2>1. CASE q = p
    BY <2>1 DEF IInv, Goto
  <2>2. CASE q # p
    <3>1. proc'[q] = proc[q] /\ LocalOK(proc[q], venue) /\ Fresh(proc[q].rec, wf)
      BY <2>2 DEF IInv, Goto
    <3>2. proc[q].rec.client \in Orders
      BY <3>1 DEF LocalOK, RowOK, Rows, Orders
    <3>3. Toldright(proc[q], venue')
      BY <3>1, <3>2 DEF LocalOK, Toldright, DeadStays
    <3> QED BY <3>1, <3>3 DEF LocalOK
  <2> QED BY <2>1, <2>2
<1> QED BY <1>1, <1>2

(* A step that touches neither the store nor the venue. *)
LEMMA LocalStep ==
  ASSUME IInv, NEW p \in Pollers, NEW l,
         Local(p, l), LocalOK(l, venue), Fresh(l.rec, wf)
  PROVE  IInv'
<1>1. UNCHANGED <<wf, seen, venue, elapsed, sends, crashes>> /\ Goto(p, l)
  BY DEF Local
<1>2. DeadStays(venue, venue')
  BY <1>1 DEF DeadStays
<1>3. LocalOK(l, venue')
  BY <1>1
<1>4. /\ proc' \in [Pollers -> Locals]
      /\ \A q \in Pollers : LocalOK(proc'[q], venue') /\ Fresh(proc'[q].rec, wf')
  BY <1>1, <1>2, <1>3, OthersKeep
<1> QED BY <1>1, <1>4 DEF IInv

(* A poller that returns without a write. *)
LEMMA ReturnStep ==
  ASSUME IInv, NEW p \in Pollers, Local(p, Ended(p))
  PROVE  IInv'
<1>1. LocalOK(Ended(p), venue) /\ Fresh(Ended(p).rec, wf)
  BY EndedOK DEF IInv
<1> QED BY <1>1, LocalStep

(* A successful write: the row it replaces is the one the poller loaded.   *)
LEMMA MutateStep ==
  ASSUME IInv, NEW p \in Pollers, NEW new, NEW fills, NEW l,
         Mutate(p, new, fills, l),
         RowOK(new), new.state # "ABSENT", fills \subseteq Fills,
         wf = proc[p].rec /\ CanTransition(wf.state, new.state) => CancelOK(new, venue),
         l.pc \in {"idle", "load"} => l.rec = Absent /\ LocalOK(l, venue),
         l.pc \notin {"idle", "load"} =>
           LocalOK([l EXCEPT !.rec = [new EXCEPT !.version = wf.version + 1]], venue)
  PROVE  IInv'
<1> DEFINE saved == [new EXCEPT !.version = wf.version + 1]
           next == IF l.pc \in {"idle", "load"} THEN l ELSE [l EXCEPT !.rec = saved]
<1>1. CASE ~(proc[p].rec.version = wf.version /\ CanTransition(wf.state, new.state)
             /\ Total(fills) <= Target)
  <2>1. Local(p, Idle)
    BY <1>1 DEF Mutate, Local
  <2>2. LocalOK(Idle, venue)
    BY DEF Idle, LocalOK, Locals, PCs, Views, Outcomes, Absent, RowOK, Rows, States,
           Limits, Reasons, Holding, Sendable, Toldright
  <2>3. Fresh(Idle.rec, wf)
    BY DEF IInv, Idle
  <2> QED BY <2>1, <2>2, <2>3, LocalStep
<1>2. CASE /\ proc[p].rec.version = wf.version /\ CanTransition(wf.state, new.state)
           /\ Total(fills) <= Target
  <2>1. /\ wf' = saved /\ seen' = fills /\ elapsed' = elapsed \ Restarted(new)
        /\ proc' = [proc EXCEPT ![p] = next] /\ UNCHANGED <<venue, sends, crashes>>
    BY <1>2 DEF Mutate, Goto
  <2>2. wf = proc[p].rec
    BY <1>2 DEF IInv, Fresh
  <2>3. RowOK(saved) /\ saved.version = wf.version + 1 /\ wf.version \in Nat
    BY DEF IInv, RowOK, Rows
  <2>4. CancelOK(saved, venue)
    BY <1>2, <2>2 DEF CancelOK, RowOK, Rows
  <2>5. LocalOK(next, venue) /\ (next.rec = Absent \/ next.rec = saved)
    <3>1. CASE l.pc \in {"idle", "load"}
      BY <3>1
    <3>2. CASE l.pc \notin {"idle", "load"}
      <4>1. LocalOK([l EXCEPT !.rec = saved], venue)
        BY <3>2
      <4>2. next = [l EXCEPT !.rec = saved]
        BY <3>2
      <4>3. next.rec = saved
        BY <4>1, <4>2 DEF LocalOK, Locals
      <4> QED BY <4>1, <4>2, <4>3
    <3> QED BY <3>1, <3>2
  <2>6. Fresh(Absent, saved) /\ Fresh(saved, saved) /\ Fresh(next.rec, saved)
    BY <2>3, <2>5 DEF Fresh, Absent
  <2>7. ASSUME NEW q \in Pollers PROVE LocalOK(proc'[q], venue') /\ Fresh(proc'[q].rec, wf')
    <3>1. CASE q = p
      BY <2>1, <2>5, <2>6, <3>1 DEF IInv
    <3>2. CASE q # p
      <4>1. proc'[q] = proc[q] /\ LocalOK(proc[q], venue) /\ Fresh(proc[q].rec, wf)
        BY <2>1, <3>2 DEF IInv
      <4>2. Fresh(proc[q].rec, saved)
        BY <2>3, <4>1 DEF Fresh, LocalOK, RowOK, Rows
      <4> QED BY <2>1, <4>1, <4>2
    <3> QED BY <3>1, <3>2
  <2>8. proc' \in [Pollers -> Locals]
    BY <2>1, <2>5 DEF IInv, LocalOK
  <2>9. elapsed' \subseteq {"ttl", "cancel"}
    BY <2>1 DEF IInv
  <2>10. saved.state # "ABSENT"
    BY DEF RowOK, Rows
  <2> QED BY <2>1, <2>3, <2>4, <2>6, <2>7, <2>8, <2>9, <2>10 DEF IInv
<1> QED BY <1>1, <1>2

(* A write after which the poller returns. *)
LEMMA EndingStep ==
  ASSUME IInv, NEW p \in Pollers, NEW new,
         Transition(p, new, Ended(p)), RowOK(new), new.state # "ABSENT",
         wf = proc[p].rec /\ CanTransition(wf.state, new.state) => CancelOK(new, venue)
  PROVE  IInv'
<1>1. Mutate(p, new, seen, Ended(p)) /\ seen \subseteq Fills
  BY DEF Transition, IInv
<1>2. LocalOK(Ended(p), venue) /\ Ended(p).rec = Absent /\ Ended(p).pc \in {"idle", "load"}
  BY EndedOK
<1> QED BY <1>1, <1>2, MutateStep

(* What is known of a poller and of the row it holds. *)
LEMMA PollerFacts ==
  ASSUME IInv, NEW p \in Pollers
  PROVE  /\ proc[p] \in Locals /\ proc[p].rec \in Rows
         /\ RowOK(proc[p].rec) /\ Holding(proc[p]) /\ Sendable(proc[p]) /\ Toldright(proc[p], venue)
         /\ LocalOK(proc[p], venue) /\ Fresh(proc[p].rec, wf)
  BY DEF IInv, LocalOK, RowOK

(* Giving up ends the handler. *)
LEMMA FailStep ==
  ASSUME IInv, NEW p \in Pollers, NEW why \in Reasons, Fail(p, why)
  PROVE  IInv'
<1> DEFINE new == [proc[p].rec EXCEPT !.state = "FAILED", !.reason = why]
<1>1. RowOK(new) /\ new.state = "FAILED"
  BY PollerFacts DEF RowOK, Rows, States
<1> QED BY <1>1, EndingStep DEF Fail, CancelOK

(* Completion ends the handler. *)
LEMMA DoneStep ==
  ASSUME IInv, NEW p \in Pollers, Done(p)
  PROVE  IInv'
<1> DEFINE new == [proc[p].rec EXCEPT !.state = "DONE", !.reason = "OTHER"]
<1>1. RowOK(new) /\ new.state = "DONE"
  BY PollerFacts DEF RowOK, Rows, States, Reasons
<1> QED BY <1>1, EndingStep DEF Done, CancelOK

(* A write that confirms a cancel of which the poller has been told. *)
LEMMA CancelledStep ==
  ASSUME IInv, NEW p \in Pollers, Transition(p, Cancelled(p), Ended(p)),
         IsDead(venue, proc[p].rec.client)
  PROVE  IInv'
<1>1. RowOK(Cancelled(p)) /\ Cancelled(p).client = proc[p].rec.client
      /\ Cancelled(p).state = "CANCELLED"
  BY PollerFacts DEF Cancelled, RowOK, Rows, States, Reasons
<1> QED BY <1>1, EndingStep DEF CancelOK

-----------------------------------------------------------------------------
(* Steps at the venue.                                                     *)

(* An order may change in any way that keeps a dead order dead. *)
LEMMA VenueUpdate ==
  ASSUME IInv, NEW o \in Orders, NEW v \in VenueOrders,
         v.st \in {"wire", "live"} => v.filled < v.qty,
         IsCanceled(venue, o) => v.st = "canceled",
         IsDead(venue, o) => v.st \in {"canceled", "filled"},
         venue' = [venue EXCEPT ![o] = v]
  PROVE  VenueOK(venue') /\ DeadStays(venue, venue')
  BY DEF IInv, VenueOK, DeadStays, IsCanceled, IsDead

(* What the venue keeps when it is left alone. *)
LEMMA VenueKept ==
  ASSUME IInv, UNCHANGED venue
  PROVE  VenueOK(venue') /\ DeadStays(venue, venue')
  BY DEF IInv, DeadStays

(* A poller's call of the venue. *)
LEMMA PortStep ==
  ASSUME IInv, NEW p \in Pollers, NEW l,
         VenueOK(venue'), DeadStays(venue, venue'),
         UNCHANGED <<wf, seen, elapsed, crashes>>, sends' \in 0 .. Cap,
         Goto(p, l), LocalOK(l, venue'), Fresh(l.rec, wf)
  PROVE  IInv'
<1>1. /\ proc' \in [Pollers -> Locals]
      /\ \A q \in Pollers : LocalOK(proc'[q], venue') /\ Fresh(proc'[q].rec, wf')
  BY OthersKeep
<1>2. CancelOK(wf, venue')
  BY DEF IInv, CancelOK, DeadStays, RowOK, Rows, Orders
<1> QED BY <1>1, <1>2 DEF IInv

(* The environment's steps. *)
LEMMA VenueActs ==
  ASSUME IInv, NEW o \in Orders, Venue(o)
  PROVE  IInv'
<1>1. ASSUME NEW v \in VenueOrders, VenueStep(o, v),
             v.st \in {"wire", "live"} => v.filled < v.qty,
             IsCanceled(venue, o) => v.st = "canceled",
             IsDead(venue, o) => v.st \in {"canceled", "filled"}
      PROVE  IInv'
  <2>1. VenueOK(venue') /\ DeadStays(venue, venue')
    BY <1>1, VenueUpdate DEF VenueStep
  <2>2. CancelOK(wf, venue')
    BY <2>1 DEF IInv, CancelOK, DeadStays, RowOK, Rows, Orders
  <2>3. ASSUME NEW q \in Pollers PROVE LocalOK(proc[q], venue')
    <3>1. proc[q].rec.client \in Orders
      BY PollerFacts DEF Rows, Orders
    <3> QED BY <2>1, <3>1, PollerFacts DEF LocalOK, Toldright, DeadStays
  <2> QED BY <1>1, <2>1, <2>2, <2>3 DEF IInv, VenueStep
<1>2. venue[o] \in VenueOrders
  BY DEF IInv, VenueOK
<1>3. CASE Arrive(o)
  <2> DEFINE v == [venue[o] EXCEPT !.st = "live"]
  <2>1. venue[o].filled < venue[o].qty /\ venue[o].st = "wire"
    BY <1>3 DEF Arrive, IInv, VenueOK
  <2>2. v \in VenueOrders /\ v.st = "live" /\ v.filled < v.qty
    BY <1>2, <2>1 DEF VenueOrders
  <2>3. VenueStep(o, v) /\ ~IsCanceled(venue, o) /\ ~IsDead(venue, o)
    BY <1>3, <2>1 DEF Arrive, IsCanceled, IsDead
  <2> HIDE DEF v
  <2> QED BY <1>1, <2>2, <2>3
<1>4. CASE Drop(o)
  <2> DEFINE v == [venue[o] EXCEPT !.st = "none", !.qty = 0]
  <2>1. v \in VenueOrders /\ v.st = "none"
    <3>1. 0 \in 0 .. Target
      OBVIOUS
    <3> QED BY <1>2, <3>1, Zenon DEF VenueOrders
  <2>2. VenueStep(o, v)
    BY <1>4, Zenon DEF Drop
  <2>3. ~IsCanceled(venue, o) /\ ~IsDead(venue, o)
    BY <1>4 DEF Drop, IsCanceled, IsDead
  <2> HIDE DEF v
  <2> QED BY <1>1, <2>1, <2>2, <2>3
<1>5. CASE Fill(o)
  <2> DEFINE n == venue[o].filled + 1
             v == [venue[o] EXCEPT !.filled = n,
                                   !.st = IF n >= venue[o].qty THEN "filled" ELSE "live"]
  <2>1. venue[o].filled < venue[o].qty /\ venue[o].st = "live"
    BY <1>5 DEF Fill, IInv, VenueOK
  <2>2. v \in VenueOrders /\ (v.st \in {"wire", "live"} => v.filled < v.qty)
    <3>1. n \in 0 .. Target /\ (~(n >= venue[o].qty) => n < venue[o].qty)
      BY <1>2, <2>1 DEF VenueOrders
    <3> HIDE DEF n
    <3>2. /\ v \in VenueOrders /\ v.filled = n /\ v.qty = venue[o].qty
          /\ v.st = IF n >= venue[o].qty THEN "filled" ELSE "live"
      BY <1>2, <3>1, Zenon DEF VenueOrders
    <3> QED BY <3>1, <3>2
  <2>3. VenueStep(o, v)
    BY <1>5, Zenon DEF Fill
  <2>4. ~IsCanceled(venue, o) /\ ~IsDead(venue, o)
    BY <2>1 DEF IsCanceled, IsDead
  <2> HIDE DEF v
  <2> QED BY <1>1, <2>2, <2>3, <2>4
<1>6. CASE VenueCancel(o)
  BY <1>1, <1>2, <1>6 DEF VenueCancel, VenueOrders, IsCanceled, IsDead
<1>7. CASE LateReject(o)
  BY <1>1, <1>2, <1>7 DEF LateReject, VenueOrders, IsCanceled, IsDead
<1> QED BY <1>3, <1>4, <1>5, <1>6, <1>7 DEF Venue

(* A timer that runs out changes nothing the invariant knows of. *)
LEMMA TickStep == ASSUME IInv, Tick PROVE IInv'
<1>1. elapsed' \subseteq {"ttl", "cancel"} /\ UNCHANGED <<wf, seen, venue, sends, crashes, proc>>
  BY DEF Tick, IInv
<1> QED BY <1>1 DEF IInv

-----------------------------------------------------------------------------
(* Steps of the pollers, one lemma per action or group of actions.         *)

(* Moving on to a place where nothing more is asked of what a poller holds.*)
LEMMA Goes ==
  ASSUME NEW l, NEW v, NEW k \in PCs \ {"quote", "send", "persist", "confirm",
                                        "confirmed", "retried"},
         LocalOK(l, v), l.rec.state # "ABSENT",
         k = "ttl" => l.rec.state # "FALLBACK_SUBMITTED"
  PROVE  LocalOK([l EXCEPT !.pc = k], v)
<1> DEFINE m == [l EXCEPT !.pc = k]
<1>1. /\ m \in Locals /\ m.pc = k /\ m.rec = l.rec /\ m.view = l.view
  BY DEF LocalOK, Locals
<1>2. Holding(m) /\ Sendable(m) /\ Toldright(m, v) /\ RowOK(m.rec)
  <2> HIDE DEF m
  <2> QED BY <1>1 DEF LocalOK, Holding, Sendable, Toldright
<1> QED BY <1>1, <1>2 DEF LocalOK

(* A workflow that starts has its row, and the poller holds it. *)
LEMMA StartStep == ASSUME IInv, NEW p \in Pollers, Start(p) PROVE IInv'
<1> DEFINE row == [wf EXCEPT !.state = "NEW", !.version = 1]
           l == [Idle EXCEPT !.pc = "send", !.rec = wf', !.kind = "first", !.qty = Target]
<1>1. wf' = row /\ Goto(p, l) /\ UNCHANGED <<seen, venue, elapsed, sends, crashes>>
  BY DEF Start
<1>2. wf = Absent
  BY DEF Start, IInv, Fresh, Absent
<1>3. RowOK(wf') /\ wf'.version = 1 /\ wf'.state = "NEW"
  <2>1. wf \in Rows /\ 1 \in Nat /\ wf.attempt = 0 /\ wf.reprices = 0
    BY <1>2 DEF IInv, RowOK, Absent
  <2>2. /\ row \in Rows /\ row.version = 1 /\ row.state = "NEW"
        /\ row.attempt = wf.attempt /\ row.reprices = wf.reprices
    BY <2>1, Zenon DEF Rows, States
  <2> HIDE DEF row
  <2> QED BY <1>1, <2>1, <2>2 DEF RowOK
<1>4. Target \in 0 .. Target /\ Target > 0 /\ -1 \in -1 .. Target /\ 0 \in 0 .. 4
  OBVIOUS
<1>5. l \in Locals /\ l.pc = "send" /\ l.rec = wf' /\ l.kind = "first" /\ l.qty = Target
      /\ l.view = "?"
  BY <1>3, <1>4, Zenon DEF Idle, Locals, PCs, Views, Outcomes, RowOK
<1>6. LocalOK(l, venue')
  BY <1>3, <1>4, <1>5 DEF LocalOK, Holding, Sendable, Toldright
<1>7. ASSUME NEW q \in Pollers PROVE LocalOK(proc'[q], venue') /\ Fresh(proc'[q].rec, wf')
  <2>1. CASE q = p
    BY <1>1, <1>5, <1>6, <2>1 DEF IInv, Goto, Fresh
  <2>2. CASE q # p
    <3>1. proc'[q] = proc[q]
      BY <1>1, <2>2 DEF IInv, Goto
    <3>2. LocalOK(proc[q], venue') /\ proc[q].rec.version = 0
      BY <1>1, <1>2, PollerFacts DEF Fresh, Absent, Rows
    <3> QED BY <1>3, <3>1, <3>2 DEF Fresh
  <2> QED BY <2>1, <2>2
<1>8. proc' \in [Pollers -> Locals]
  BY <1>1, <1>6 DEF IInv, Goto, LocalOK
<1>9. CancelOK(wf', venue') /\ Fresh(Absent, wf')
  BY <1>3 DEF CancelOK, Fresh, Absent
<1> QED BY <1>1, <1>3, <1>7, <1>8, <1>9 DEF IInv

(* A crash loses a poller's copy and nothing else. *)
LEMMA CrashStep == ASSUME IInv, NEW p \in Pollers, Crash(p) PROVE IInv'
<1>1. Idle \in Locals /\ Idle.rec = Absent /\ LocalOK(Idle, venue)
  BY DEF Idle, LocalOK, Locals, PCs, Views, Outcomes, Absent, RowOK, Rows, States,
         Limits, Reasons, Holding, Sendable, Toldright
<1>2. DeadStays(venue, venue') /\ LocalOK(Idle, venue') /\ Fresh(Idle.rec, wf)
  BY <1>1 DEF Crash, DeadStays, IInv
<1>3. /\ proc' \in [Pollers -> Locals]
      /\ \A q \in Pollers : LocalOK(proc'[q], venue') /\ Fresh(proc'[q].rec, wf')
  BY <1>2, OthersKeep DEF Crash
<1>4. crashes' \in 0 .. MaxCrashes
  BY DEF Crash, IInv
<1> QED BY <1>3, <1>4 DEF Crash, IInv

(* A poll loads the row as it is. *)
LEMMA PollStep == ASSUME IInv, NEW p \in Pollers, Poll(p) PROVE IInv'
<1> DEFINE l == [Idle EXCEPT !.rec = wf, !.polls = proc[p].polls]
           quoting == [l EXCEPT !.pc = "quote", !.kind = "reprice"]
           k == IF Known(wf) THEN "read" ELSE "resolve"
           reading == [l EXCEPT !.pc = k]
<1>1. \/ Local(p, Ended(p))
      \/ Pollable(wf) /\ wf.state = "REJECTED" /\ Local(p, quoting)
      \/ Pollable(wf) /\ Local(p, reading)
  BY Zenon DEF Poll
<1>2. proc[p].polls \in 0 .. 4 /\ wf \in Rows /\ RowOK(wf)
  BY PollerFacts DEF Locals, IInv, RowOK
<1>3. Pollable(wf) => wf.state # "ABSENT"
  BY DEF Pollable, Live
<1>4. 0 \in 0 .. Target /\ -1 \in -1 .. Target
  OBVIOUS
<1>5. /\ quoting \in Locals /\ quoting.rec = wf /\ quoting.view = "?" /\ quoting.pc = "quote"
      /\ reading \in Locals /\ reading.rec = wf /\ reading.view = "?"
      /\ reading.pc \in {"read", "resolve"}
  <2>1. k \in {"read", "resolve"} /\ k \in PCs
    BY DEF PCs
  <2> HIDE DEF k
  <2> QED BY <1>2, <1>4, <2>1, Zenon DEF Idle, Locals, PCs, Views, Outcomes
<1>6. Fresh(wf, wf)
  BY <1>2 DEF Fresh, Rows
<1> HIDE DEF quoting, reading
<1>7. CASE Local(p, Ended(p))
  BY <1>7, ReturnStep
<1>8. CASE Pollable(wf) /\ wf.state = "REJECTED" /\ Local(p, quoting)
  <2>1. wf.reprices < MaxReprices
    BY <1>8 DEF Pollable, Repricable, Live
  <2>2. LocalOK(quoting, venue)
    BY <1>2, <1>3, <1>5, <1>8, <2>1 DEF LocalOK, Holding, Sendable, Toldright
  <2> QED BY <1>5, <1>6, <1>8, <2>2, LocalStep
<1>9. CASE Pollable(wf) /\ Local(p, reading)
  <2>1. LocalOK(reading, venue)
    BY <1>2, <1>3, <1>5, <1>9 DEF LocalOK, Holding, Sendable, Toldright
  <2> QED BY <1>5, <1>6, <1>9, <2>1, LocalStep
<1> QED BY <1>1, <1>7, <1>8, <1>9

(* A write that leaves the client id alone and confirms nothing keeps the  *)
(* row right about its cancel.                                             *)
LEMMA KeptCancel ==
  ASSUME IInv, NEW new, new.client = wf.client, CanTransition(wf.state, new.state),
         new.state # "CANCELLED" \/ wf.state = "CANCELLED"
  PROVE  CancelOK(new, venue)
  BY CancelEdges DEF IInv, CancelOK

(* A write after which the poller goes on at k. *)
LEMMA ContinueStep ==
  ASSUME IInv, NEW p \in Pollers, NEW new, NEW fills,
         NEW k \in PCs \ {"idle", "load", "send", "persist", "retried"},
         Mutate(p, new, fills, At(p, k)), RowOK(new), fills \subseteq Fills,
         new.state # "ABSENT", new.client = proc[p].rec.client,
         new.state # "CANCELLED" \/ proc[p].rec.state = "CANCELLED",
         new.state = "FALLBACK_SUBMITTED" \/ proc[p].rec.state # "FALLBACK_SUBMITTED",
         k = "quote" => new.reprices < MaxReprices,
         k \in {"quote", "ttl"} => new.state # "FALLBACK_SUBMITTED",
         k \in {"confirm", "confirmed"} => IsDead(venue, new.client)
  PROVE  IInv'
<1> DEFINE saved == [new EXCEPT !.version = wf.version + 1]
           l == At(p, k)
           m == [l EXCEPT !.rec = saved]
<1>1. wf = proc[p].rec /\ CanTransition(wf.state, new.state) => CancelOK(new, venue)
  BY KeptCancel
<1>2. l.pc = k
  BY PollerFacts DEF At, Locals
<1>3. wf.version + 1 \in Nat
  BY DEF IInv, RowOK, Rows
<1>4. /\ saved \in Rows /\ saved.attempt = new.attempt /\ saved.reprices = new.reprices
      /\ saved.state = new.state /\ saved.client = new.client
  BY <1>3 DEF RowOK, Rows
<1>5. /\ m \in Locals /\ m.pc = k /\ m.rec = saved /\ m.view = proc[p].view
  <2>1. proc[p] \in Locals /\ k \in PCs
    BY PollerFacts
  <2> HIDE DEF saved
  <2> QED BY <1>4, <2>1, Zenon DEF At, Locals
<1> HIDE DEF saved, m
<1>6. RowOK(saved)
  BY <1>4 DEF RowOK
<1>7. Toldright(m, venue)
  BY <1>4, <1>5, PollerFacts DEF Toldright
<1>8. Holding(m) /\ Sendable(m)
  BY <1>4, <1>5 DEF Holding, Sendable
<1>9. LocalOK(m, venue)
  BY <1>5, <1>6, <1>7, <1>8 DEF LocalOK
<1> USE DEF saved, m
<1> HIDE DEF l
<1> QED BY <1>1, <1>2, <1>9, MutateStep DEF l

(* The fills a poller writes are fills. *)
LEMMA WithFillsType ==
  ASSUME IInv, NEW o \in Orders, NEW n \in -1 .. Target
  PROVE  WithFills(o, n) \subseteq Fills
  BY DEF IInv, WithFills, FillsOf, Fills

(* The order a row names is an order of the workflow. *)
LEMMA OrderOfType == ASSUME NEW r \in Rows PROVE OrderOf(r) \in Orders /\ r.client \in Orders
  BY DEF OrderOf, Rows, Orders

(* An order found by its client id is noted in the row. *)
LEMMA ResolveStep == ASSUME IInv, NEW p \in Pollers, Resolve(p) PROVE IInv'
<1> DEFINE r == proc[p].rec
           new == IF OrderOf(r) = F THEN [r EXCEPT !.fb = TRUE] ELSE [r EXCEPT !.active = TRUE]
<1>1. CASE Transition(p, new, At(p, "read"))
  <2>1. Mutate(p, new, seen, At(p, "read")) /\ seen \subseteq Fills
    BY <1>1 DEF Transition, IInv
  <2>2. RowOK(new) /\ new.state = r.state /\ new.client = r.client
    BY PollerFacts DEF RowOK, Rows
  <2>3. r.state # "ABSENT"
    BY PollerFacts DEF Resolve, Holding
  <2> HIDE DEF new
  <2> QED BY <2>1, <2>2, <2>3, ContinueStep DEF PCs
<1>2. CASE Local(p, Ended(p))
  BY <1>2, ReturnStep
<1> QED BY <1>1, <1>2 DEF Resolve

(* An answer CANCELED is given only of an order that is cancelled. *)
LEMMA ReadStep ==
  ASSUME IInv, NEW p \in Pollers, ReadOrder(p) \/ ReadFills(p) PROVE IInv'
<1>1. ASSUME ReadOrder(p) PROVE IInv'
  <2>1. PICK v \in {VenueStatus(OrderOf(proc[p].rec)), "NULL"} :
               Local(p, [proc[p] EXCEPT !.view = v])
    BY <1>1 DEF ReadOrder
  <2> DEFINE l == [proc[p] EXCEPT !.view = v]
  <2>2. v \in Views /\ (v = "CANCELED" => IsCanceled(venue, OrderOf(proc[p].rec)))
    BY DEF VenueStatus, Views, IsCanceled
  <2>3. l \in Locals /\ l.view = v /\ l.pc = "read" /\ l.rec = proc[p].rec
    BY <1>1, <2>2, PollerFacts DEF ReadOrder, Locals
  <2>4. Local(p, l)
    BY <2>1
  <2> HIDE DEF l
  <2>5. l.rec.state # "ABSENT"
    BY <1>1, <2>3, PollerFacts DEF ReadOrder, Holding
  <2>6. LocalOK(l, venue)
    BY <2>2, <2>3, <2>5, PollerFacts DEF LocalOK, Holding, Sendable, Toldright, OrderOf
  <2> QED BY <2>3, <2>4, <2>6, PollerFacts, LocalStep
<1>2. ASSUME ReadFills(p) PROVE IInv'
  <2>1. PICK n \in {venue[OrderOf(proc[p].rec)].filled, 0} :
               Local(p, [proc[p] EXCEPT !.got = n])
    BY <1>2 DEF ReadFills
  <2> DEFINE l == [proc[p] EXCEPT !.got = n]
  <2>2. n \in -1 .. Target
    BY OrderOfType, PollerFacts DEF IInv, VenueOK, VenueOrders
  <2>3. /\ l \in Locals /\ l.view = proc[p].view /\ l.pc = "read" /\ l.rec = proc[p].rec
    BY <1>2, <2>2, PollerFacts DEF ReadFills, Locals
  <2>4. Local(p, l)
    BY <2>1
  <2> HIDE DEF l
  <2>5. LocalOK(l, venue)
    BY <1>2, <2>3, PollerFacts DEF ReadFills, LocalOK, Holding, Sendable, Toldright
  <2> QED BY <2>3, <2>4, <2>5, PollerFacts, LocalStep
<1> QED BY <1>1, <1>2

(* Recording fills leaves the cancel of the order as it was. *)
LEMMA RecordStep == ASSUME IInv, NEW p \in Pollers, RecordFills(p) PROVE IInv'
<1> DEFINE r == proc[p].rec
           fills == WithFills(OrderOf(r), proc[p].got)
<1>1. proc[p].pc = "read" /\ r.state # "ABSENT"
  BY PollerFacts DEF RecordFills, Holding
<1>2. CASE Local(p, At(p, "decide"))
  <2>1. LocalOK(At(p, "decide"), venue)
    BY <1>1, Goes, PollerFacts DEF At, PCs
  <2>2. At(p, "decide").rec = r
    BY PollerFacts DEF At, Locals
  <2> QED BY <1>2, <2>1, <2>2, PollerFacts, LocalStep
<1>3. CASE Mutate(p, r, fills, At(p, "decide"))
  <2>1. fills \subseteq Fills
    BY WithFillsType, OrderOfType, PollerFacts DEF Locals
  <2> HIDE DEF fills
  <2> QED BY <1>1, <1>3, <2>1, ContinueStep, PollerFacts DEF PCs
<1>4. CASE Fail(p, "OVERFILL")
  BY <1>4, FailStep DEF Reasons
<1> QED BY <1>2, <1>3, <1>4 DEF RecordFills

(* A write without fills after which the poller goes on at k. *)
LEMMA ContinueTransition ==
  ASSUME IInv, NEW p \in Pollers, NEW new,
         NEW k \in PCs \ {"idle", "load", "send", "persist", "retried", "confirm", "confirmed"},
         Transition(p, new, At(p, k)), RowOK(new), new.state # "ABSENT",
         new.client = proc[p].rec.client, new.state # "CANCELLED",
         proc[p].rec.state # "FALLBACK_SUBMITTED",
         k = "quote" => new.reprices < MaxReprices,
         k \in {"quote", "ttl"} => new.state # "FALLBACK_SUBMITTED"
  PROVE  IInv'
<1>1. Mutate(p, new, seen, At(p, k)) /\ seen \subseteq Fills
  BY DEF Transition, IInv
<1> QED BY <1>1, ContinueStep

(* A step of a poller under way that only moves on. *)
LEMMA MoveStep ==
  ASSUME IInv, NEW p \in Pollers, proc[p].pc \notin {"idle", "load"},
         NEW k \in PCs \ {"quote", "send", "persist", "confirm", "confirmed", "retried"},
         k = "ttl" => proc[p].rec.state # "FALLBACK_SUBMITTED",
         Local(p, At(p, k))
  PROVE  IInv'
<1>1. proc[p].rec.state # "ABSENT"
  BY PollerFacts DEF Holding
<1>2. LocalOK(At(p, k), venue)
  BY <1>1, Goes, PollerFacts DEF At
<1>3. At(p, k).rec = proc[p].rec
  BY PollerFacts DEF At, Locals
<1> QED BY <1>2, <1>3, PollerFacts, LocalStep

(* What a poll of a live order writes. *)
LEMMA LiveStep ==
  ASSUME IInv, NEW p \in Pollers,
         LiveDone(p) \/ LiveCanceled(p) \/ LiveRejected(p) \/ LiveProgress(p)
  PROVE  IInv'
<1> DEFINE r == proc[p].rec
<1>1. proc[p].pc = "decide" /\ r.state \in Live
  BY DEF LiveDone, LiveCanceled, LiveRejected, LiveProgress, Deciding
<1>2. CASE LiveDone(p)
  BY <1>2, DoneStep DEF LiveDone
<1>3. CASE LiveCanceled(p)
  <2>1. IsDead(venue, r.client)
    BY <1>1, <1>3, PollerFacts DEF LiveCanceled, Toldright, Live, IsCanceled, IsDead
  <2>2. Transition(p, Cancelled(p), Ended(p))
    BY <1>3 DEF LiveCanceled, Cancelled
  <2> QED BY <2>1, <2>2, CancelledStep
<1>4. CASE LiveRejected(p)
  <2> DEFINE new == [r EXCEPT !.state = "REJECTED", !.reason = "OTHER"]
  <2>1. RowOK(new) /\ new.state = "REJECTED" /\ new.client = r.client
    BY PollerFacts DEF RowOK, Rows, States, Reasons
  <2>2. Transition(p, new, At(p, "exhaust"))
    BY <1>4 DEF LiveRejected
  <2> HIDE DEF new
  <2> QED BY <1>1, <2>1, <2>2, ContinueTransition DEF PCs, Live
<1>5. CASE LiveProgress(p)
  <2>1. CASE Local(p, At(p, "ttl"))
    BY <1>1, <2>1, MoveStep DEF PCs, Live
  <2> DEFINE s == IF Total(seen) > 0 THEN "PARTIAL" ELSE "ACK"
             new == [r EXCEPT !.state = s, !.reason = "OTHER"]
  <2>2. CASE Transition(p, new, At(p, "ttl"))
    <3>1. s \in {"PARTIAL", "ACK"} /\ s \in States
      BY DEF States
    <3> HIDE DEF s
    <3>2. RowOK(new) /\ new.state = s /\ new.client = r.client
      BY <3>1, PollerFacts DEF RowOK, Rows, Reasons
    <3> HIDE DEF new
    <3> QED BY <1>1, <2>2, <3>1, <3>2, ContinueTransition DEF PCs, Live
  <2> QED BY <1>5, <2>1, <2>2 DEF LiveProgress
<1> QED BY <1>2, <1>3, <1>4, <1>5

(* CANCEL_PENDING is written without a claim about the venue. *)
LEMMA RequestCancelStep ==
  ASSUME IInv, NEW p \in Pollers, proc[p].rec.state # "FALLBACK_SUBMITTED", RequestCancel(p)
  PROVE  IInv'
<1> DEFINE r == proc[p].rec
           new == [r EXCEPT !.state = "CANCEL_PENDING", !.cancels = @ + 1, !.reason = "OTHER"]
<1>1. CASE Fail(p, "CANCEL_UNSUPPORTED")
  BY <1>1, FailStep DEF Reasons
<1>2. CASE Transition(p, new, At(p, "cancel"))
  <2>1. r.cancels + 1 \in Nat
    BY PollerFacts DEF Rows
  <2>2. RowOK(new) /\ new.state = "CANCEL_PENDING" /\ new.client = r.client
    <3>1. /\ new \in Rows /\ new.state = "CANCEL_PENDING" /\ new.client = r.client
          /\ new.attempt = r.attempt /\ new.reprices = r.reprices
      BY <2>1, PollerFacts, Zenon DEF Rows, States, Reasons
    <3> HIDE DEF new
    <3> QED BY <3>1, PollerFacts DEF RowOK
  <2> HIDE DEF new
  <2> QED BY <1>2, <2>2, ContinueTransition DEF PCs
<1> QED BY <1>1, <1>2 DEF RequestCancel

(* The time to live ends in a cancel request or in another poll. *)
LEMMA TtlStep == ASSUME IInv, NEW p \in Pollers, CheckTtl(p) PROVE IInv'
<1>1. CASE Local(p, Ended(p))
  BY <1>1, ReturnStep
<1>2. CASE RequestCancel(p)
  BY <1>2, RequestCancelStep, PollerFacts DEF CheckTtl, Sendable
<1> QED BY <1>1, <1>2 DEF CheckTtl

(* A confirmed cancel leaves a dead order. *)
LEMMA ConfirmedVenue ==
  ASSUME IInv, NEW o \in Orders, CancelConfirmed(o)
  PROVE  VenueOK(venue') /\ DeadStays(venue, venue') /\ IsDead(venue', o)
<1> DEFINE v == [venue[o] EXCEPT !.st = "canceled"]
<1>1. venue[o] \in VenueOrders /\ venue' = [venue EXCEPT ![o] = v]
  BY DEF IInv, VenueOK, CancelConfirmed
<1>2. v \in VenueOrders /\ v.st = "canceled"
  BY <1>1 DEF VenueOrders
<1> HIDE DEF v
<1>3. VenueOK(venue') /\ DeadStays(venue, venue')
  BY <1>1, <1>2, VenueUpdate
<1>4. venue'[o] = v
  BY <1>1 DEF IInv, VenueOK
<1> QED BY <1>2, <1>3, <1>4 DEF IsDead

(* An unclear cancel revives no order. *)
LEMMA UnclearVenue ==
  ASSUME IInv, NEW o \in Orders, CancelUnclear(o)
  PROVE  VenueOK(venue') /\ DeadStays(venue, venue')
  BY ConfirmedVenue, VenueKept DEF CancelUnclear

(* A confirmed cancel has killed the order before its caller knows. *)
LEMMA CancelOrderStep == ASSUME IInv, NEW p \in Pollers, CancelOrder(p) PROVE IInv'
<1> DEFINE r == proc[p].rec
           o == r.client
<1>1. /\ proc[p].pc = "cancel" /\ r.state # "ABSENT" /\ o \in Orders
      /\ UNCHANGED <<wf, seen, elapsed, sends, crashes>> /\ sends' \in 0 .. Cap
  BY PollerFacts, OrderOfType DEF CancelOrder, Holding, IInv
<1>2. ASSUME CancelConfirmed(o), NEW n \in {venue[o].filled, 0},
             Goto(p, [proc[p] EXCEPT !.pc = "confirm", !.got = n])
      PROVE  IInv'
  <2> DEFINE l == [proc[p] EXCEPT !.pc = "confirm", !.got = n]
  <2>1. VenueOK(venue') /\ DeadStays(venue, venue') /\ IsDead(venue', o)
    BY <1>1, <1>2, ConfirmedVenue
  <2>2. n \in -1 .. Target
    BY <1>1 DEF IInv, VenueOK, VenueOrders
  <2>3. l \in Locals /\ l.pc = "confirm" /\ l.rec = r /\ l.view = proc[p].view
    <3>1. proc[p] \in Locals /\ "confirm" \in PCs
      BY PollerFacts DEF PCs
    <3> QED BY <2>2, <3>1, Zenon DEF Locals
  <2>4. Goto(p, l)
    BY <1>2
  <2> HIDE DEF l
  <2>5. LocalOK(l, venue')
    BY <1>1, <2>1, <2>3, PollerFacts DEF LocalOK, Holding, Sendable, Toldright, DeadStays
  <2> QED BY <1>1, <2>1, <2>3, <2>4, <2>5, PollerFacts, PortStep
<1>3. ASSUME UNCHANGED venue, Goto(p, [proc[p] EXCEPT !.pc = "read", !.view = "?", !.got = -1])
      PROVE  IInv'
  <2> DEFINE l == [proc[p] EXCEPT !.pc = "read", !.view = "?", !.got = -1]
  <2>1. VenueOK(venue') /\ DeadStays(venue, venue')
    BY <1>3, VenueKept
  <2>2. -1 \in -1 .. Target
    OBVIOUS
  <2>3. l \in Locals /\ l.pc = "read" /\ l.rec = r /\ l.view = "?"
    <3>1. proc[p] \in Locals /\ "read" \in PCs /\ "?" \in Views
      BY PollerFacts DEF PCs, Views
    <3> QED BY <2>2, <3>1, Zenon DEF Locals
  <2>4. Goto(p, l)
    BY <1>3
  <2> HIDE DEF l
  <2>5. LocalOK(l, venue')
    BY <1>1, <2>3, PollerFacts DEF LocalOK, Holding, Sendable, Toldright
  <2> QED BY <1>1, <2>1, <2>3, <2>4, <2>5, PollerFacts, PortStep
<1>4. ASSUME CancelUnclear(o), Goto(p, Ended(p)) PROVE IInv'
  <2>1. VenueOK(venue') /\ DeadStays(venue, venue')
    BY <1>1, <1>4, UnclearVenue
  <2>2. LocalOK(Ended(p), venue') /\ Fresh(Ended(p).rec, wf)
    BY EndedOK DEF IInv
  <2> QED BY <1>1, <1>4, <2>1, <2>2, PortStep
<1> QED BY <1>2, <1>3, <1>4 DEF CancelOrder

(* The confirmation that is written down was given by the venue. *)
LEMMA ConfirmStep ==
  ASSUME IInv, NEW p \in Pollers, ConfirmCancel(p) \/ AfterReport(p) PROVE IInv'
<1> DEFINE r == proc[p].rec
           fills == WithFills(r.client, proc[p].got)
<1>1. r.state # "ABSENT" /\ IsDead(venue, r.client)
  BY PollerFacts DEF ConfirmCancel, AfterReport, Holding, Toldright
<1>2. CASE Mutate(p, r, fills, At(p, "confirmed"))
  <2>1. fills \subseteq Fills
    BY WithFillsType, OrderOfType, PollerFacts DEF Locals
  <2> HIDE DEF fills
  <2> QED BY <1>1, <1>2, <2>1, ContinueStep, PollerFacts DEF PCs
<1>3. CASE Transition(p, Cancelled(p), Ended(p))
  BY <1>1, <1>3, CancelledStep
<1>4. CASE Done(p)
  BY <1>4, DoneStep
<1> QED BY <1>2, <1>3, <1>4 DEF ConfirmCancel, AfterReport

(* A pending cancel is confirmed only by a CANCELED order. *)
LEMMA PendingStep ==
  ASSUME IInv, NEW p \in Pollers, PendingDone(p) \/ PendingCanceled(p) \/ PendingUnclear(p)
  PROVE  IInv'
<1>1. proc[p].pc = "decide" /\ proc[p].rec.state = "CANCEL_PENDING"
  BY DEF PendingDone, PendingCanceled, PendingUnclear, Deciding
<1>2. CASE PendingDone(p)
  BY <1>2, DoneStep DEF PendingDone
<1>3. CASE PendingCanceled(p)
  <2>1. IsDead(venue, proc[p].rec.client)
    BY <1>1, <1>3, PollerFacts DEF PendingCanceled, Toldright, IsCanceled, IsDead
  <2> QED BY <1>3, <2>1, CancelledStep DEF PendingCanceled
<1>4. CASE PendingUnclear(p)
  <2>1. CASE Local(p, At(p, "retry"))
    BY <1>1, <2>1, MoveStep DEF PCs
  <2>2. CASE Fail(p, "CANCEL_UNRESOLVED")
    BY <2>2, FailStep DEF Reasons
  <2> QED BY <1>4, <2>1, <2>2 DEF PendingUnclear
<1> QED BY <1>2, <1>3, <1>4

(* A repeated cancel is confirmed like the first one. *)
LEMMA RetryStep == ASSUME IInv, NEW p \in Pollers, RetryCancel(p) PROVE IInv'
<1> DEFINE r == proc[p].rec
           o == r.client
<1>1. /\ proc[p].pc = "retry" /\ r.state # "ABSENT" /\ o \in Orders
      /\ UNCHANGED <<wf, seen, elapsed, sends, crashes>> /\ sends' \in 0 .. Cap
  BY PollerFacts, OrderOfType DEF RetryCancel, Holding, IInv
<1>2. PICK x \in {"CONFIRMED", "UNCLEAR"} :
        /\ Goto(p, [proc[p] EXCEPT !.pc = "retried", !.out = x])
        /\ x = "CONFIRMED" => CancelConfirmed(o)
        /\ x = "UNCLEAR" => CancelUnclear(o)
  BY DEF RetryCancel
<1> DEFINE l == [proc[p] EXCEPT !.pc = "retried", !.out = x]
<1>3. VenueOK(venue') /\ DeadStays(venue, venue') /\ (x = "CONFIRMED" => IsDead(venue', o))
  BY <1>1, <1>2, ConfirmedVenue, UnclearVenue
<1>4. l \in Locals /\ l.pc = "retried" /\ l.rec = r /\ l.view = proc[p].view /\ l.out = x
  <2>1. x \in Outcomes /\ "retried" \in PCs /\ proc[p] \in Locals
    BY PollerFacts DEF Outcomes, PCs
  <2> QED BY <2>1, Zenon DEF Locals
<1>5. Goto(p, l)
  BY <1>2
<1> HIDE DEF l
<1>6. LocalOK(l, venue')
  BY <1>1, <1>3, <1>4, PollerFacts DEF LocalOK, Holding, Sendable, Toldright, DeadStays
<1> QED BY <1>1, <1>3, <1>4, <1>5, <1>6, PollerFacts, PortStep

(* Writing down the repeated cancel. *)
LEMMA PersistRetryStep == ASSUME IInv, NEW p \in Pollers, PersistRetry(p) PROVE IInv'
<1> DEFINE r == proc[p].rec
           base == IF proc[p].out = "CONFIRMED" THEN Cancelled(p) ELSE r
           new == [base EXCEPT !.cancels = @ + 1]
<1>1. r.state # "ABSENT" /\ (proc[p].out = "CONFIRMED" => IsDead(venue, r.client))
  BY PollerFacts DEF PersistRetry, Holding, Toldright
<1>2. /\ base \in Rows /\ base.attempt = r.attempt /\ base.reprices = r.reprices
      /\ base.client = r.client
      /\ base.state = IF proc[p].out = "CONFIRMED" THEN "CANCELLED" ELSE r.state
  BY PollerFacts DEF Cancelled, Rows, States, Reasons
<1>3. Transition(p, new, Ended(p))
  BY DEF PersistRetry
<1> HIDE DEF base
<1>4. /\ new \in Rows /\ new.attempt = r.attempt /\ new.reprices = r.reprices
      /\ new.client = r.client /\ new.state = base.state
  <2>1. base.cancels + 1 \in Nat
    BY <1>2 DEF Rows
  <2> QED BY <1>2, <2>1 DEF Rows
<1> HIDE DEF new
<1>5. RowOK(new) /\ new.state # "ABSENT"
  BY <1>1, <1>2, <1>4, PollerFacts DEF RowOK
<1>6. wf = r /\ CanTransition(wf.state, new.state) => CancelOK(new, venue)
  <2>1. CASE proc[p].out = "CONFIRMED"
    BY <1>1, <1>4, <2>1 DEF CancelOK
  <2>2. CASE proc[p].out # "CONFIRMED"
    BY <1>2, <1>4, <2>2, KeptCancel
  <2> QED BY <2>1, <2>2
<1> QED BY <1>3, <1>5, <1>6, EndingStep

(* A poller turns to the order it sends next. *)
LEMMA TurnStep ==
  ASSUME IInv, NEW p \in Pollers, NEW l, Local(p, l),
         l \in Locals, l.rec = proc[p].rec, l.view = proc[p].view,
         l.pc \in {"quote", "send"},
         l.rec.state \notin {"ABSENT", "FALLBACK_SUBMITTED"},
         l.pc = "quote" \/ l.kind = "reprice" => l.rec.reprices < MaxReprices,
         l.pc = "send" => l.qty > 0
  PROVE  IInv'
<1>1. LocalOK(l, venue)
  BY PollerFacts DEF LocalOK, Holding, Sendable, Toldright
<1> QED BY <1>1, PollerFacts, LocalStep

(* After a confirmed cancel the row waits for the next order. *)
LEMMA AfterCancelStep == ASSUME IInv, NEW p \in Pollers, AfterCancel(p) PROVE IInv'
<1> DEFINE r == proc[p].rec
<1>1. proc[p].pc = "decide" /\ r.state = "CANCELLED" /\ proc[p] \in Locals
      /\ {"quote", "send"} \subseteq PCs
  BY PollerFacts DEF AfterCancel, Deciding, PCs
<1>2. CASE Done(p)
  BY <1>2, DoneStep
<1>3. CASE Fail(p, "OTHER")
  BY <1>3, FailStep DEF Reasons
<1>4. ASSUME r.reprices < MaxReprices, Local(p, [At(p, "quote") EXCEPT !.kind = "reprice"])
      PROVE  IInv'
  <2> DEFINE l == [At(p, "quote") EXCEPT !.kind = "reprice"]
  <2>1. l \in Locals /\ l.rec = r /\ l.view = proc[p].view /\ l.pc = "quote"
    BY <1>1, Zenon DEF At, Locals
  <2>2. Local(p, l)
    BY <1>4
  <2> HIDE DEF l
  <2> QED BY <1>1, <1>4, <2>1, <2>2, TurnStep
<1>5. ASSUME ~NoRemainder(seen),
             Local(p, [At(p, "send") EXCEPT !.kind = "fallback", !.qty = Remainder(seen)])
      PROVE  IInv'
  <2> DEFINE l == [At(p, "send") EXCEPT !.kind = "fallback", !.qty = Remainder(seen)]
  <2>1. Remainder(seen) \in 0 .. Target /\ Remainder(seen) > 0
    BY <1>5, RemainderBound DEF IInv
  <2>2. /\ l \in Locals /\ l.rec = r /\ l.view = proc[p].view /\ l.pc = "send"
        /\ l.kind = "fallback" /\ l.qty = Remainder(seen)
    BY <1>1, <2>1, Zenon DEF At, Locals
  <2>3. Local(p, l)
    BY <1>5
  <2> HIDE DEF l
  <2> QED BY <1>1, <2>1, <2>2, <2>3, TurnStep
<1> QED BY <1>2, <1>3, <1>4, <1>5 DEF AfterCancel

(* A reprice sends a positive quantity within the budget. *)
LEMMA RepriceStep == ASSUME IInv, NEW p \in Pollers, Reprice(p) PROVE IInv'
<1> DEFINE r == proc[p].rec
           l == [proc[p] EXCEPT !.kind = "reprice", !.qty = Remainder(seen)]
           limit == [l EXCEPT !.pc = "send"]
           market == [l EXCEPT !.pc = "send", !.kind = "fallback"]
<1>1. /\ proc[p].pc = "quote" /\ proc[p] \in Locals /\ "send" \in PCs
      /\ r.state \notin {"ABSENT", "FALLBACK_SUBMITTED"} /\ r.reprices < MaxReprices
  <2>1. proc[p].pc = "quote"
    BY PollerFacts DEF Reprice, Locals
  <2> QED BY <2>1, PollerFacts DEF Holding, Sendable, PCs
<1>2. \/ Done(p) \/ Fail(p, "OTHER")
      \/ ~NoRemainder(seen) /\ (Local(p, limit) \/ Local(p, market))
  <2>1. l.rec = r
    BY <1>1 DEF Locals
  <2> QED BY <2>1 DEF Reprice
<1>3. CASE Done(p)
  BY <1>3, DoneStep
<1>4. CASE Fail(p, "OTHER")
  BY <1>4, FailStep DEF Reasons
<1>5. CASE ~NoRemainder(seen) /\ (Local(p, limit) \/ Local(p, market))
  <2>1. Remainder(seen) \in 0 .. Target /\ Remainder(seen) > 0
    BY <1>5, RemainderBound DEF IInv
  <2>2. /\ limit \in Locals /\ limit.rec = r /\ limit.view = proc[p].view
        /\ limit.pc = "send" /\ limit.qty = Remainder(seen)
        /\ market \in Locals /\ market.rec = r /\ market.view = proc[p].view
        /\ market.pc = "send" /\ market.qty = Remainder(seen)
    BY <1>1, <2>1, Zenon DEF Locals
  <2> HIDE DEF limit, market
  <2> QED BY <1>1, <1>5, <2>1, <2>2, TurnStep
<1> QED BY <1>2, <1>3, <1>4, <1>5

(* The market order is done, failed or polled again. *)
LEMMA AfterFallbackStep == ASSUME IInv, NEW p \in Pollers, AfterFallback(p) PROVE IInv'
  BY FailStep, DoneStep, ReturnStep DEF AfterFallback, Reasons

(* cancelOpen loads the row as it is. *)
LEMMA CancelOpenStep == ASSUME IInv, NEW p \in Pollers, CancelOpen(p) PROVE IInv'
<1> DEFINE l == [Idle EXCEPT !.pc = "abort", !.rec = wf, !.polls = 4]
<1>1. Local(p, l) /\ wf.state # "ABSENT" /\ RowOK(wf) /\ wf \in Rows
  BY DEF CancelOpen, IInv, RowOK
<1>2. 4 \in 0 .. 4 /\ 0 \in 0 .. Target /\ -1 \in -1 .. Target
  OBVIOUS
<1>3. l \in Locals /\ l.pc = "abort" /\ l.rec = wf /\ l.view = "?"
  BY <1>1, <1>2, Zenon DEF Idle, Locals, PCs, Views, Outcomes
<1> HIDE DEF l
<1>4. LocalOK(l, venue) /\ Fresh(wf, wf)
  BY <1>1, <1>3 DEF LocalOK, Holding, Sendable, Toldright, Fresh, Rows
<1> QED BY <1>1, <1>3, <1>4, LocalStep

(* cancelOpen writes no confirmation of its own. *)
LEMMA AbortStep == ASSUME IInv, NEW p \in Pollers, Abort(p) PROVE IInv'
<1> DEFINE r == proc[p].rec
           new == [r EXCEPT !.state = "FAILED", !.reason = "OTHER"]
<1>1. CASE Transition(p, new, Idle)
  <2>1. RowOK(new) /\ new.state = "FAILED"
    BY PollerFacts DEF RowOK, Rows, States, Reasons
  <2>2. Idle.pc = "idle" /\ Idle.rec = Absent /\ LocalOK(Idle, venue)
    BY DEF Idle, LocalOK, Locals, PCs, Views, Outcomes, Absent, RowOK, Rows, States,
           Limits, Reasons, Holding, Sendable, Toldright
  <2>3. Mutate(p, new, seen, Idle) /\ seen \subseteq Fills /\ CancelOK(new, venue)
    BY <1>1, <2>1 DEF Transition, IInv, CancelOK
  <2> HIDE DEF new
  <2> QED BY <2>1, <2>2, <2>3, MutateStep
<1>2. CASE r.state \in Live /\ RequestCancel(p)
  BY <1>2, RequestCancelStep DEF Live
<1>3. CASE Local(p, Ended(p))
  BY <1>3, ReturnStep
<1> QED BY <1>1, <1>2, <1>3 DEF Abort

(* A refused submit sends nothing. *)
LEMMA DenyStep == ASSUME IInv, NEW p \in Pollers, Deny(p) PROVE IInv'
<1> DEFINE r == proc[p].rec
           new == [r EXCEPT !.state = "REJECTED", !.reprices = MaxReprices, !.reason = "OTHER"]
           market == [proc[p] EXCEPT !.kind = "fallback"]
<1>1. proc[p].pc = "send" /\ r.state \notin {"ABSENT", "FALLBACK_SUBMITTED"} /\ proc[p].qty > 0
  BY PollerFacts DEF Deny, Holding, Sendable
<1>2. CASE Transition(p, new, Ended(p))
  <2>1. MaxReprices \in Limits
    BY DEF Limits
  <2>2. /\ new \in Rows /\ new.state = "REJECTED" /\ new.attempt = r.attempt
        /\ new.reprices = MaxReprices
    BY <2>1, PollerFacts, Zenon DEF Rows, States, Reasons
  <2> HIDE DEF new
  <2>3. RowOK(new)
    BY <2>2, PollerFacts DEF RowOK, Rows, Limits
  <2> QED BY <1>2, <2>2, <2>3, EndingStep DEF CancelOK
<1>3. CASE Local(p, market)
  <2>1. /\ market \in Locals /\ market.rec = r /\ market.view = proc[p].view
        /\ market.pc = "send" /\ market.kind = "fallback" /\ market.qty = proc[p].qty
    BY <1>1, PollerFacts DEF Locals
  <2> HIDE DEF market
  <2> QED BY <1>1, <1>3, <2>1, TurnStep
<1>4. CASE Fail(p, "OTHER")
  BY <1>4, FailStep DEF Reasons
<1> QED BY <1>2, <1>3, <1>4 DEF Deny

(* Using up the budget leaves the order as it was. *)
LEMMA ExhaustStep == ASSUME IInv, NEW p \in Pollers, Exhaust(p) PROVE IInv'
<1> DEFINE r == proc[p].rec
           new == [r EXCEPT !.reprices = MaxReprices]
<1>1. MaxReprices \in Limits
  BY DEF Limits
<1>2. RowOK(new) /\ new.client = r.client /\ new.state = r.state
  BY <1>1, PollerFacts DEF RowOK, Rows, Limits
<1>3. r.state # "ABSENT" /\ Transition(p, new, Ended(p))
  BY PollerFacts DEF Exhaust, Holding
<1> HIDE DEF new
<1>4. wf = r => CancelOK(new, venue)
  BY <1>2 DEF IInv, CancelOK
<1> QED BY <1>2, <1>3, <1>4, EndingStep

(* What the venue may have after a submit was answered, or was not.        *)
LEMMA SentOrder ==
  ASSUME IInv, NEW o \in Orders, NEW q \in 1 .. Target, NEW v,
         v \in {venue[o], Accepted(o, q)} \/ venue[o].st = "none",
         v \in {venue[o], Accepted(o, q), FilledAtOnce(q), [st |-> "wire", qty |-> q, filled |-> 0]},
         venue' = [venue EXCEPT ![o] = v]
  PROVE  VenueOK(venue') /\ DeadStays(venue, venue') /\ v.filled \in 0 .. Target
<1>1. /\ venue[o] \in VenueOrders
      /\ venue[o].st \in {"wire", "live"} => venue[o].filled < venue[o].qty
      /\ q \in 0 .. Target /\ 0 \in 0 .. Target /\ 0 < q
  BY DEF IInv, VenueOK
<1> DEFINE Good(w) == /\ w \in VenueOrders
                      /\ w.st \in {"wire", "live"} => w.filled < w.qty
                      /\ IsCanceled(venue, o) => w.st = "canceled"
                      /\ IsDead(venue, o) => w.st \in {"canceled", "filled"}
<1>2. Good(venue[o])
  BY <1>1 DEF IsCanceled, IsDead
<1>3. venue[o].st = "none" => /\ Good([st |-> "wire", qty |-> q, filled |-> 0])
                              /\ Good([st |-> "live", qty |-> q, filled |-> 0])
                              /\ Good(FilledAtOnce(q))
  BY <1>1 DEF VenueOrders, FilledAtOnce, IsCanceled, IsDead
<1>4. Good(Accepted(o, q))
  <2>1. CASE venue[o].st = "none"
    BY <1>3, <2>1 DEF Accepted
  <2>2. CASE venue[o].st # "none"
    <3> DEFINE st == IF venue[o].st = "wire" THEN "live" ELSE venue[o].st
    <3>1. Accepted(o, q) = [venue[o] EXCEPT !.st = st]
      BY <2>2 DEF Accepted
    <3>2. /\ Accepted(o, q) \in VenueOrders /\ Accepted(o, q).st = st
          /\ Accepted(o, q).filled = venue[o].filled /\ Accepted(o, q).qty = venue[o].qty
      BY <1>1, <3>1 DEF VenueOrders
    <3> HIDE DEF Good
    <3>3. Good(Accepted(o, q))
      BY <1>1, <3>2 DEF Good, IsCanceled, IsDead
    <3> QED BY <3>3
  <2> QED BY <2>1, <2>2
<1>5. Good(v)
  <2> HIDE DEF Good
  <2> QED BY <1>2, <1>3, <1>4
<1> QED BY <1>5, VenueUpdate DEF VenueOrders

(* A submit that was answered in one way or another, and not yet recorded. *)
LEMMA SentStep ==
  ASSUME IInv, NEW p \in Pollers, proc[p].pc = "send", NEW l,
         VenueOK(venue'), DeadStays(venue, venue'),
         UNCHANGED <<wf, seen, elapsed, crashes>>, sends' \in 0 .. Cap, Goto(p, l),
         l \in Locals, l.pc = "persist", l.rec = proc[p].rec, l.kind = proc[p].kind,
         l.qty = proc[p].qty, l.view = proc[p].view
  PROVE  IInv'
<1>1. LocalOK(l, venue')
  BY PollerFacts DEF LocalOK, Holding, Sendable, Toldright, DeadStays, RowOK, Rows, Orders
<1> QED BY <1>1, PollerFacts, PortStep

(* Sending an order, whatever the venue makes of it. *)
LEMMA SendStep == ASSUME IInv, NEW p \in Pollers, Send(p) PROVE IInv'
<1> DEFINE o == OrderToSend(p)
           q == proc[p].qty
<1>1. /\ proc[p].pc = "send" /\ proc[p].rec.state \notin {"ABSENT", "FALLBACK_SUBMITTED"}
      /\ proc[p].kind = "reprice" => proc[p].rec.reprices < MaxReprices
      /\ q \in 1 .. Target
      /\ UNCHANGED <<wf, seen, elapsed, crashes>>
  <2>1. proc[p].pc = "send" /\ UNCHANGED <<wf, seen, elapsed, crashes>>
    BY DEF Send
  <2>2. q \in 0 .. Target
    BY PollerFacts DEF Locals
  <2> QED BY <2>1, <2>2, PollerFacts DEF Holding, Sendable
<1>2. o \in Orders
  <2>1. CASE proc[p].kind = "reprice"
    BY <1>1, <2>1, PollerFacts DEF OrderToSend, Orders, Limits, RowOK, Rows
  <2>2. CASE proc[p].kind # "reprice"
    BY <2>2 DEF OrderToSend, Orders, Limits
  <2> QED BY <2>1, <2>2
<1>3. sends' \in 0 .. Cap
  <2>1. sends' = IF proc[p].kind = "fallback" \/ sends = Cap THEN sends ELSE sends + 1
    BY DEF Send
  <2>2. sends \in 0 .. Cap /\ Cap \in Nat
    BY DEF IInv, Cap
  <2> QED BY <2>1, <2>2
<1>4. proc[p] \in Locals /\ "persist" \in PCs /\ {"ACK", "MAKER", "REJECT", "AMBIGUOUS"} \subseteq Outcomes
  BY PollerFacts DEF PCs, Outcomes
<1>5. ASSUME NEW n \in 0 .. Target, Goto(p, [proc[p] EXCEPT !.pc = "persist", !.out = "ACK", !.got = n]),
             VenueOK(venue'), DeadStays(venue, venue')
      PROVE  IInv'
  <2> DEFINE l == [proc[p] EXCEPT !.pc = "persist", !.out = "ACK", !.got = n]
  <2>1. n \in -1 .. Target /\ "ACK" \in Outcomes
    BY <1>4
  <2>2. /\ l \in Locals /\ l.pc = "persist" /\ l.rec = proc[p].rec /\ l.kind = proc[p].kind
        /\ l.qty = q /\ l.view = proc[p].view
    BY <1>4, <2>1, Zenon DEF Locals
  <2>3. Goto(p, l)
    BY <1>5
  <2> HIDE DEF l
  <2> QED BY <1>1, <1>3, <1>5, <2>2, <2>3, SentStep
<1>6. ASSUME NEW x \in {"MAKER", "REJECT", "AMBIGUOUS"},
             Goto(p, [proc[p] EXCEPT !.pc = "persist", !.out = x]),
             VenueOK(venue'), DeadStays(venue, venue')
      PROVE  IInv'
  <2> DEFINE l == [proc[p] EXCEPT !.pc = "persist", !.out = x]
  <2>1. x \in Outcomes
    BY <1>4
  <2>2. /\ l \in Locals /\ l.pc = "persist" /\ l.rec = proc[p].rec /\ l.kind = proc[p].kind
        /\ l.qty = q /\ l.view = proc[p].view
    BY <1>4, <2>1, Zenon DEF Locals
  <2>3. Goto(p, l)
    BY <1>6
  <2> HIDE DEF l
  <2> QED BY <1>1, <1>3, <1>6, <2>2, <2>3, SentStep
<1>7. ASSUME NEW v \in {Accepted(o, q)} \cup
                 (IF o = F /\ venue[F].st = "none" THEN {FilledAtOnce(q)} ELSE {}),
             venue' = [venue EXCEPT ![o] = v], NEW n \in {0, v.filled},
             Goto(p, [proc[p] EXCEPT !.pc = "persist", !.out = "ACK", !.got = n])
      PROVE  IInv'
  <2>1. /\ v \in {venue[o], Accepted(o, q)} \/ venue[o].st = "none"
        /\ v \in {venue[o], Accepted(o, q), FilledAtOnce(q), [st |-> "wire", qty |-> q, filled |-> 0]}
    BY <1>7
  <2>2. VenueOK(venue') /\ DeadStays(venue, venue') /\ v.filled \in 0 .. Target
    BY <1>1, <1>2, <1>7, <2>1, SentOrder
  <2>3. n \in 0 .. Target
    BY <2>2
  <2> QED BY <1>5, <1>7, <2>2, <2>3
<1>8. ASSUME UNCHANGED venue, NEW x \in {"MAKER", "REJECT"},
             Goto(p, [proc[p] EXCEPT !.pc = "persist", !.out = x])
      PROVE  IInv'
  BY <1>6, <1>8, VenueKept
<1>9. ASSUME NEW v \in {Accepted(o, q), venue[o]} \cup
                 (IF venue[o].st = "none"
                  THEN {[st |-> "wire", qty |-> q, filled |-> 0]} ELSE {}),
             venue' = [venue EXCEPT ![o] = v],
             Goto(p, [proc[p] EXCEPT !.pc = "persist", !.out = "AMBIGUOUS"])
      PROVE  IInv'
  <2>1. /\ v \in {venue[o], Accepted(o, q)} \/ venue[o].st = "none"
        /\ v \in {venue[o], Accepted(o, q), FilledAtOnce(q), [st |-> "wire", qty |-> q, filled |-> 0]}
    BY <1>9
  <2>2. VenueOK(venue') /\ DeadStays(venue, venue')
    BY <1>1, <1>2, <1>9, <2>1, SentOrder
  <2> QED BY <1>6, <1>9, <2>2
<1> QED
  <2> HIDE DEF o, q
  <2> QED BY <1>7, <1>8, <1>9, Zenon DEF Send, o, q

(* Writing down the first submit. *)
LEMMA PersistFirstStep == ASSUME IInv, NEW p \in Pollers, PersistFirst(p) PROVE IInv'
<1> DEFINE r == proc[p].rec
           acked == [r EXCEPT !.state = "SUBMITTED", !.client = 0, !.reason = "OTHER", !.active = TRUE]
           unclear == [r EXCEPT !.state = "SUBMITTED", !.client = 0, !.reason = "OTHER", !.active = FALSE]
           why == IF proc[p].out = "MAKER" THEN "MAKER_REJECT" ELSE "OTHER"
           refused == [r EXCEPT !.state = "REJECTED", !.reason = why]
           load == [Idle EXCEPT !.pc = "load"]
           k == IF proc[p].out = "MAKER" /\ r.reprices < MaxReprices THEN "quote" ELSE "exhaust"
           fills == WithFills(0, proc[p].got)
<1>1. /\ r \in Rows /\ RowOK(r) /\ r.state \notin {"ABSENT", "FALLBACK_SUBMITTED"}
      /\ 0 \in Limits /\ 0 \in Orders
  BY PollerFacts DEF PersistFirst, Holding, Sendable, Limits, Orders
<1>2. CASE Mutate(p, acked, fills, load)
  <2>1. acked \in Rows /\ acked.state = "SUBMITTED" /\ acked.attempt = r.attempt
        /\ acked.reprices = r.reprices
    BY <1>1, Zenon DEF Rows, States, Reasons
  <2>2. RowOK(acked)
    BY <1>1, <2>1 DEF RowOK
  <2>3. fills \subseteq Fills
    BY <1>1, WithFillsType, PollerFacts DEF Locals
  <2>4. LocalOK(load, venue) /\ load.rec = Absent /\ load.pc = "load"
    <3>1. Absent \in Rows /\ Absent.attempt <= Absent.reprices
      BY DEF Absent, Rows, States, Limits, Reasons
    <3>2. load \in Locals /\ load.rec = Absent /\ load.pc = "load" /\ load.view = "?"
      BY <3>1 DEF Idle, Locals, PCs, Views, Outcomes
    <3> HIDE DEF load
    <3> QED BY <3>1, <3>2 DEF LocalOK, RowOK, Holding, Sendable, Toldright
  <2> HIDE DEF acked, fills, load
  <2> QED BY <1>2, <2>1, <2>2, <2>3, <2>4, MutateStep DEF CancelOK
<1>3. CASE Transition(p, unclear, Ended(p))
  <2>1. unclear \in Rows /\ unclear.state = "SUBMITTED" /\ unclear.attempt = r.attempt
        /\ unclear.reprices = r.reprices
    BY <1>1, Zenon DEF Rows, States, Reasons
  <2>2. RowOK(unclear)
    BY <1>1, <2>1 DEF RowOK
  <2> HIDE DEF unclear
  <2> QED BY <1>3, <2>1, <2>2, EndingStep DEF CancelOK
<1>4. CASE Transition(p, refused, At(p, k))
  <2>1. why \in Reasons
    BY DEF Reasons
  <2> HIDE DEF why
  <2>2. /\ refused \in Rows /\ refused.state = "REJECTED" /\ refused.attempt = r.attempt
        /\ refused.reprices = r.reprices /\ refused.client = r.client
    BY <1>1, <2>1, Zenon DEF Rows, States
  <2>3. RowOK(refused)
    BY <1>1, <2>2 DEF RowOK
  <2> HIDE DEF refused
  <2>4. k \in {"quote", "exhaust"} /\ (k = "quote" => refused.reprices < MaxReprices)
    BY <2>2
  <2> HIDE DEF k
  <2> QED BY <1>1, <1>4, <2>2, <2>3, <2>4, ContinueTransition DEF PCs
<1> QED BY <1>2, <1>3, <1>4, Zenon DEF PersistFirst

(* Writing down a reprice: the attempt counter and the budget move on      *)
(* together.                                                               *)
LEMMA PersistRepriceStep == ASSUME IInv, NEW p \in Pollers, PersistReprice(p) PROVE IInv'
<1> DEFINE r == proc[p].rec
           n == r.attempt + 1
           m == r.reprices + 1
           submitted == [r EXCEPT !.state = "SUBMITTED", !.attempt = n, !.client = n,
                                  !.reprices = m, !.reason = "OTHER"]
           acked == [submitted EXCEPT !.active = TRUE, !.cancels = 0, !.confirmed = FALSE]
           unclear == [submitted EXCEPT !.active = FALSE]
           why == IF proc[p].out = "MAKER" THEN "MAKER_REJECT" ELSE "OTHER"
           refused == [r EXCEPT !.state = "REJECTED", !.attempt = n, !.reprices = m, !.reason = why]
           k == IF proc[p].out = "MAKER" /\ r.reprices + 1 < MaxReprices THEN "quote" ELSE "exhaust"
           fills == WithFills(n, proc[p].got)
<1>1. /\ r \in Rows /\ RowOK(r) /\ r.state \notin {"ABSENT", "FALLBACK_SUBMITTED"}
      /\ r.reprices < MaxReprices
  BY PollerFacts DEF PersistReprice, Holding, Sendable
<1>2. n \in Limits /\ m \in Limits /\ n <= m /\ n \in Orders /\ 0 \in Nat
  BY <1>1 DEF RowOK, Rows, Limits, Orders
<1>3. /\ submitted \in Rows /\ submitted.state = "SUBMITTED"
      /\ submitted.attempt = n /\ submitted.reprices = m
  <2> HIDE DEF n, m
  <2> QED BY <1>1, <1>2, Zenon DEF Rows, States, Reasons
<1>4. CASE Mutate(p, acked, fills, Ended(p))
  <2>1. acked \in Rows /\ acked.state = "SUBMITTED" /\ acked.attempt = n /\ acked.reprices = m
    <3> HIDE DEF submitted, n, m
    <3> QED BY <1>2, <1>3, Zenon DEF Rows
  <2>2. RowOK(acked)
    BY <1>2, <2>1, Zenon DEF RowOK
  <2>3. fills \subseteq Fills
    BY <1>2, WithFillsType, PollerFacts DEF Locals
  <2> HIDE DEF acked, fills, submitted, n, m
  <2>4. LocalOK(Ended(p), venue) /\ Ended(p).rec = Absent /\ Ended(p).pc \in {"idle", "load"}
    BY EndedOK
  <2> QED BY <1>4, <2>1, <2>2, <2>3, <2>4, MutateStep DEF CancelOK
<1>5. CASE Transition(p, unclear, Ended(p))
  <2>1. unclear \in Rows /\ unclear.state = "SUBMITTED" /\ unclear.attempt = n /\ unclear.reprices = m
    <3> HIDE DEF submitted, n, m
    <3> QED BY <1>2, <1>3, Zenon DEF Rows
  <2>2. RowOK(unclear)
    BY <1>2, <2>1, Zenon DEF RowOK
  <2> HIDE DEF unclear, submitted, n, m
  <2> QED BY <1>5, <2>1, <2>2, EndingStep DEF CancelOK
<1>6. CASE Transition(p, refused, At(p, k))
  <2>1. why \in Reasons
    BY DEF Reasons
  <2>2. /\ refused \in Rows /\ refused.state = "REJECTED" /\ refused.attempt = n
        /\ refused.reprices = m /\ refused.client = r.client
    <3> HIDE DEF why, n, m
    <3> QED BY <1>1, <1>2, <2>1, Zenon DEF Rows, States
  <2>3. RowOK(refused)
    BY <1>2, <2>2, Zenon DEF RowOK
  <2> HIDE DEF refused
  <2>4. k \in {"quote", "exhaust"} /\ (k = "quote" => refused.reprices < MaxReprices)
    BY <2>2
  <2> HIDE DEF k, n, m
  <2> QED BY <1>1, <1>6, <2>2, <2>3, <2>4, ContinueTransition DEF PCs
<1> QED BY <1>4, <1>5, <1>6, Zenon DEF PersistReprice

(* Writing down the fallback: only a confirmed cancel is followed by it.   *)
LEMMA PersistFallbackStep == ASSUME IInv, NEW p \in Pollers, PersistFallback(p) PROVE IInv'
<1> DEFINE r == proc[p].rec
           acked == [r EXCEPT !.state = "FALLBACK_SUBMITTED", !.reason = "OTHER", !.fb = TRUE]
           unclear == [r EXCEPT !.state = "FALLBACK_SUBMITTED", !.reason = "OTHER", !.fb = FALSE]
           l == [proc[p] EXCEPT !.pc = "read", !.view = "?", !.got = -1]
           fills == WithFills(F, proc[p].got)
<1>1. r \in Rows /\ RowOK(r) /\ r.state # "ABSENT"
  BY PollerFacts DEF PersistFallback, Holding
<1>2. CASE Mutate(p, acked, fills, l)
  <2>1. /\ acked \in Rows /\ acked.state = "FALLBACK_SUBMITTED" /\ acked.attempt = r.attempt
        /\ acked.reprices = r.reprices /\ acked.client = r.client
    BY <1>1, Zenon DEF Rows, States, Reasons
  <2>2. RowOK(acked)
    BY <1>1, <2>1, Zenon DEF RowOK
  <2>3. fills \subseteq Fills
    BY WithFillsType, PollerFacts DEF Locals, Orders
  <2> HIDE DEF acked, fills
  <2>4. wf = r /\ CanTransition(wf.state, acked.state) => CancelOK(acked, venue)
    BY <2>1, KeptCancel
  <2>5. wf.version + 1 \in Nat
    BY DEF IInv, RowOK, Rows
  <2> DEFINE saved == [acked EXCEPT !.version = wf.version + 1]
             next == [l EXCEPT !.rec = saved]
  <2>6. saved \in Rows /\ RowOK(saved) /\ saved.state = "FALLBACK_SUBMITTED"
    BY <2>1, <2>2, <2>5, Zenon DEF Rows, RowOK
  <2> HIDE DEF saved
  <2>7. l.pc = "read" /\ next \in Locals /\ next.pc = "read" /\ next.rec = saved /\ next.view = "?"
    <3>1. proc[p] \in Locals /\ "read" \in PCs /\ "?" \in Views /\ -1 \in -1 .. Target
      BY PollerFacts DEF PCs, Views
    <3> QED BY <2>6, <3>1, Zenon DEF Locals
  <2> HIDE DEF next
  <2>8. LocalOK(next, venue)
    BY <2>6, <2>7 DEF LocalOK, Holding, Sendable, Toldright
  <2>9. LocalOK([l EXCEPT !.rec = [acked EXCEPT !.version = wf.version + 1]], venue)
    BY <2>8 DEF next, saved
  <2> HIDE DEF l
  <2> QED BY <1>2, <2>1, <2>2, <2>3, <2>4, <2>7, <2>9, MutateStep
<1>3. CASE Transition(p, unclear, Ended(p))
  <2>1. /\ unclear \in Rows /\ unclear.state = "FALLBACK_SUBMITTED" /\ unclear.attempt = r.attempt
        /\ unclear.reprices = r.reprices /\ unclear.client = r.client
    BY <1>1, Zenon DEF Rows, States, Reasons
  <2>2. RowOK(unclear)
    BY <1>1, <2>1, Zenon DEF RowOK
  <2> HIDE DEF unclear
  <2>3. wf = r /\ CanTransition(wf.state, unclear.state) => CancelOK(unclear, venue)
    BY <2>1, KeptCancel
  <2> QED BY <1>3, <2>1, <2>2, <2>3, EndingStep
<1>4. CASE Fail(p, "OTHER")
  BY <1>4, FailStep DEF Reasons
<1> QED BY <1>2, <1>3, <1>4, Zenon DEF PersistFallback

-----------------------------------------------------------------------------
(* The invariant and the theorems.                                         *)

(* Nothing is known of a workflow that does not exist yet. *)
LEMMA InitOK == Init => IInv
<1> SUFFICES ASSUME Init PROVE IInv
  OBVIOUS
<1>1. RowOK(Absent) /\ Absent.state = "ABSENT" /\ Absent.version = 0
  BY DEF Absent, RowOK, Rows, States, Limits, Reasons
<1>2. Idle \in Locals /\ Idle.rec = Absent /\ Idle.pc = "idle" /\ Idle.view = "?"
  BY <1>1 DEF RowOK, Idle, Locals, PCs, Views, Outcomes
<1>3. LocalOK(Idle, venue)
  BY <1>1, <1>2 DEF LocalOK, Holding, Sendable, Toldright
<1>4. VenueOK(venue)
  BY DEF Init, VenueOK, VenueOrders
<1>5. /\ proc \in [Pollers -> Locals]
      /\ \A q \in Pollers : proc[q] = Idle
  BY <1>2 DEF Init
<1> QED BY <1>1, <1>2, <1>3, <1>4, <1>5 DEF Init, IInv, CancelOK, Fresh, Cap

(* A step of a handler keeps the invariant. *)
LEMMA ControllerStep == ASSUME IInv, NEW p \in Pollers, Controller(p) PROVE IInv'
  BY DenyStep, SendStep, PersistFirstStep, PersistRepriceStep, PersistFallbackStep,
     ExhaustStep, PollStep, ResolveStep, ReadStep, RecordStep, LiveStep, TtlStep,
     CancelOrderStep, ConfirmStep, PendingStep, RetryStep, PersistRetryStep,
     AfterCancelStep, RepriceStep, AfterFallbackStep, AbortStep DEF Controller

(* Every step keeps the invariant. *)
LEMMA NextOK == IInv /\ [Next]_vars => IInv'
<1> SUFFICES ASSUME IInv, [Next]_vars PROVE IInv'
  OBVIOUS
<1>1. ASSUME NEW p \in Pollers, Start(p) PROVE IInv'
  BY <1>1, StartStep
<1>2. ASSUME NEW p \in Pollers, Controller(p) PROVE IInv'
  BY <1>2, ControllerStep
<1>3. ASSUME NEW p \in Pollers, CancelOpen(p) PROVE IInv'
  BY <1>3, CancelOpenStep
<1>4. ASSUME NEW p \in Pollers, Crash(p) PROVE IInv'
  BY <1>4, CrashStep
<1>5. ASSUME NEW o \in Orders, Venue(o) PROVE IInv'
  BY <1>5, VenueActs
<1>6. CASE Tick
  BY <1>6, TickStep
<1>7. CASE UNCHANGED vars
  BY <1>7 DEF vars, IInv
<1> QED BY <1>1, <1>2, <1>3, <1>4, <1>5, <1>6, <1>7 DEF Next

(* Every variable stays in its domain: the counters of attempts and of     *)
(* reprices stay within the policy's budget, the quantities within the     *)
(* target, under every interleaving and every fault of the venue.          *)
THEOREM TypeCorrect == Spec => []TypeOK
<1>1. IInv => TypeOK
  BY DEF IInv, RowOK, VenueOK, TypeOK
<1> QED BY <1>1, InitOK, NextOK, PTL DEF Spec

(* Bestaetigter Cancel: the row is CANCELLED or in fallback only when the  *)
(* order it names is dead, for any number of concurrent pollers, crashes,  *)
(* lost and late answers (requestCancel, pollCancelPending, store.mutate). *)
THEOREM CancelIsSound == Spec => []CancelSound
<1>1. IInv => CancelSound
  BY DEF IInv, CancelOK, IsDead, CancelSound
<1> QED BY <1>1, InitOK, NextOK, PTL DEF Spec

-----------------------------------------------------------------------------
(* The end of a workflow *)

Terminal == {"DONE", "FAILED"}

(* A poller under way works on a row that was not terminal when loaded.    *)
OpenLocal(l) == l.pc \notin {"idle", "load"} => l.rec.state \notin Terminal
AllOpen == \A q \in Pollers : OpenLocal(proc[q])

(* What a step may do to a terminal row and to the fills. *)
Kept == /\ wf.state \in Terminal => UNCHANGED <<wf, seen>>
        /\ seen \subseteq seen'

(* A step that is harmless, and leaves the pollers with rows that are open.*)
Harmless == Kept /\ AllOpen'

-----------------------------------------------------------------------------
(* Steps shared by the handlers.                                           *)

(* A handler that returns holds nothing. *)
LEMMA Returned == ASSUME NEW p PROVE OpenLocal(Ended(p)) /\ Ended(p).pc \in {"idle", "load"}
  BY DEF Ended, Idle, OpenLocal

(* One poller moves, the others stay. *)
LEMMA OneMoves ==
  ASSUME IInv, AllOpen, NEW p \in Pollers, NEW l, Goto(p, l), OpenLocal(l)
  PROVE  AllOpen'
<1> SUFFICES ASSUME NEW q \in Pollers PROVE OpenLocal(proc'[q])
  BY DEF AllOpen
<1>1. proc'[q] = IF q = p THEN l ELSE proc[q]
  BY DEF Goto, IInv
<1> QED BY <1>1 DEF AllOpen

(* A step that leaves row and fills alone. *)
LEMMA NoWrite ==
  ASSUME IInv, AllOpen, NEW p \in Pollers, NEW l, Goto(p, l), OpenLocal(l), UNCHANGED <<wf, seen>>
  PROVE  Harmless
  BY OneMoves DEF Harmless, Kept

LEMMA LocalHarmless ==
  ASSUME IInv, AllOpen, NEW p \in Pollers, NEW l, Local(p, l), OpenLocal(l)
  PROVE  Harmless
  BY NoWrite DEF Local

(* A poller under way keeps its copy of the row. *)
LEMMA SameCopy ==
  ASSUME IInv, AllOpen, NEW p \in Pollers, proc[p].pc \notin {"idle", "load"}, NEW l, Local(p, l),
         l.rec = proc[p].rec
  PROVE  Harmless
  BY LocalHarmless DEF AllOpen, OpenLocal

(* A write: the version makes the writer's copy the row, which is open.    *)
LEMMA MutateHarmless ==
  ASSUME IInv, AllOpen, NEW p \in Pollers, proc[p].pc \notin {"idle", "load"},
         NEW new, NEW fills, NEW l, Mutate(p, new, fills, l), seen \subseteq fills,
         \/ l.pc \in {"idle", "load"}
         \/ l \in Locals /\ [new EXCEPT !.version = wf.version + 1].state \notin Terminal
  PROVE  Harmless
<1> DEFINE saved == [new EXCEPT !.version = wf.version + 1]
           next == IF l.pc \in {"idle", "load"} THEN l ELSE [l EXCEPT !.rec = saved]
<1>1. CASE ~(proc[p].rec.version = wf.version /\ CanTransition(wf.state, new.state)
             /\ Total(fills) <= Target)
  <2>1. Goto(p, Idle) /\ UNCHANGED <<wf, seen>>
    BY <1>1 DEF Mutate
  <2>2. OpenLocal(Idle)
    BY DEF OpenLocal, Idle
  <2> QED BY <2>1, <2>2, NoWrite
<1>2. CASE /\ proc[p].rec.version = wf.version /\ CanTransition(wf.state, new.state)
           /\ Total(fills) <= Target
  <2>1. seen' = fills /\ Goto(p, next)
    BY <1>2 DEF Mutate
  <2>2. wf.state \notin Terminal
    BY <1>2, PollerFacts DEF Fresh, AllOpen, OpenLocal
  <2>3. OpenLocal(next)
    <3>1. CASE l.pc \in {"idle", "load"}
      BY <3>1 DEF OpenLocal
    <3>2. CASE l.pc \notin {"idle", "load"}
      <4>1. next.rec = saved
        BY <3>2 DEF Locals
      <4> QED BY <3>2, <4>1 DEF OpenLocal
    <3> QED BY <3>1, <3>2
  <2>4. AllOpen'
    BY <2>1, <2>3, OneMoves
  <2> QED BY <2>1, <2>2, <2>4 DEF Harmless, Kept
<1> QED BY <1>1, <1>2

(* A write after which the poller returns. *)
LEMMA EndHarmless ==
  ASSUME IInv, AllOpen, NEW p \in Pollers, proc[p].pc \notin {"idle", "load"},
         NEW new, NEW fills, Mutate(p, new, fills, Ended(p)), seen \subseteq fills
  PROVE  Harmless
  BY Returned, MutateHarmless

LEMMA ReturnHarmless ==
  ASSUME IInv, AllOpen, NEW p \in Pollers, proc[p].pc \notin {"idle", "load"},
         NEW new, Transition(p, new, Ended(p))
  PROVE  Harmless
  BY EndHarmless DEF Transition

(* A write after which the poller goes on with an open row. *)
LEMMA GoOnHarmless ==
  ASSUME IInv, AllOpen, NEW p \in Pollers, proc[p].pc \notin {"idle", "load"},
         NEW new \in Rows, NEW fills, NEW l \in Locals, Mutate(p, new, fills, l),
         seen \subseteq fills, new.state \notin Terminal
  PROVE  Harmless
<1>1. [new EXCEPT !.version = wf.version + 1].state \notin Terminal
  BY DEF Rows
<1> QED BY <1>1, MutateHarmless

LEMMA OnwardHarmless ==
  ASSUME IInv, AllOpen, NEW p \in Pollers, proc[p].pc \notin {"idle", "load"},
         NEW new \in Rows, NEW k \in PCs, NEW fills, Mutate(p, new, fills, At(p, k)),
         seen \subseteq fills, new.state \notin Terminal
  PROVE  Harmless
<1>1. At(p, k) \in Locals
  BY PollerFacts DEF At, Locals
<1> QED BY <1>1, GoOnHarmless

(* A local step to another point of the handler. *)
LEMMA TurnHarmless ==
  ASSUME IInv, AllOpen, NEW p \in Pollers, proc[p].pc \notin {"idle", "load"},
         NEW l, Local(p, l), l = Ended(p) \/ l.rec = proc[p].rec
  PROVE  Harmless
  BY Returned, LocalHarmless, SameCopy

LEMMA AtCopy == ASSUME IInv, NEW p \in Pollers, NEW k PROVE At(p, k).rec = proc[p].rec
  BY PollerFacts DEF At, Locals

(* The row of a poller under way. *)
LEMMA OpenRow ==
  ASSUME AllOpen, NEW p \in Pollers, proc[p].pc \notin {"idle", "load"}
  PROVE  proc[p].rec.state \notin Terminal
  BY DEF AllOpen, OpenLocal

LEMMA FailHarmless ==
  ASSUME IInv, AllOpen, NEW p \in Pollers, proc[p].pc \notin {"idle", "load"}, NEW why, Fail(p, why)
  PROVE  Harmless
  BY ReturnHarmless DEF Fail

LEMMA DoneHarmless ==
  ASSUME IInv, AllOpen, NEW p \in Pollers, proc[p].pc \notin {"idle", "load"}, Done(p)
  PROVE  Harmless
  BY ReturnHarmless DEF Done

LEMMA MoreFills == ASSUME NEW o, NEW n PROVE seen \subseteq WithFills(o, n)
  BY DEF WithFills

-----------------------------------------------------------------------------
(* start and the submits.                                                  *)

LEMMA StartHarmless == ASSUME IInv, AllOpen, NEW p \in Pollers, Start(p) PROVE Harmless
<1> DEFINE l == [Idle EXCEPT !.pc = "send", !.rec = wf', !.kind = "first", !.qty = Target]
<1>1. wf.state = "ABSENT" /\ wf'.state = "NEW" /\ seen' = seen /\ Goto(p, l)
  BY DEF Start, IInv, RowOK, Rows
<1>2. l.rec = wf'
  BY DEF Idle
<1>3. OpenLocal(l)
  BY <1>1, <1>2 DEF OpenLocal, Terminal
<1>4. AllOpen'
  BY <1>1, <1>3, OneMoves
<1> QED BY <1>1, <1>4 DEF Harmless, Kept, Terminal

LEMMA DenyHarmless == ASSUME IInv, AllOpen, NEW p \in Pollers, Deny(p) PROVE Harmless
<1> DEFINE l == [proc[p] EXCEPT !.kind = "fallback"]
<1>1. proc[p].pc \notin {"idle", "load"}
  BY DEF Deny
<1>2. CASE Local(p, l)
  <2>1. l.rec = proc[p].rec
    BY PollerFacts DEF Locals
  <2> QED BY <1>1, <1>2, <2>1, SameCopy
<1> QED BY <1>1, <1>2, ReturnHarmless, FailHarmless DEF Deny

LEMMA SendHarmless == ASSUME IInv, AllOpen, NEW p \in Pollers, Send(p) PROVE Harmless
<1>1. UNCHANGED <<wf, seen>> /\ proc[p].pc \notin {"idle", "load"}
  BY DEF Send
<1>2. PICK out, n : \/ Goto(p, [proc[p] EXCEPT !.pc = "persist", !.out = out])
                    \/ Goto(p, [proc[p] EXCEPT !.pc = "persist", !.out = out, !.got = n])
  BY DEF Send
<1>3. /\ [proc[p] EXCEPT !.pc = "persist", !.out = out].rec = proc[p].rec
      /\ [proc[p] EXCEPT !.pc = "persist", !.out = out, !.got = n].rec = proc[p].rec
  BY PollerFacts DEF Locals
<1>4. /\ OpenLocal([proc[p] EXCEPT !.pc = "persist", !.out = out])
      /\ OpenLocal([proc[p] EXCEPT !.pc = "persist", !.out = out, !.got = n])
  BY <1>1, <1>3, OpenRow DEF OpenLocal
<1> QED BY <1>1, <1>2, <1>4, NoWrite

(* A submit that was rejected is written as REJECTED and taken up again,   *)
(* or marked as final.                                                     *)
LEMMA RejectHarmless ==
  ASSUME IInv, AllOpen, NEW p \in Pollers, proc[p].pc \notin {"idle", "load"},
         NEW new \in Rows, new.state = "REJECTED", NEW k \in {"quote", "exhaust"},
         Transition(p, new, At(p, k))
  PROVE  Harmless
  BY OnwardHarmless DEF Transition, PCs, Terminal

LEMMA PersistFirstHarmless ==
  ASSUME IInv, AllOpen, NEW p \in Pollers, PersistFirst(p) PROVE Harmless
<1> DEFINE r == proc[p].rec
           idle == [Idle EXCEPT !.pc = "load"]
           submitted == [r EXCEPT !.state = "SUBMITTED", !.client = 0, !.reason = "OTHER"]
<1>1. proc[p].pc \notin {"idle", "load"} /\ r \in Rows
  BY PollerFacts DEF PersistFirst
<1>2. CASE Mutate(p, [submitted EXCEPT !.active = TRUE], WithFills(0, proc[p].got), idle)
  <2>1. idle.pc = "load"
    BY DEF Idle
  <2> QED BY <1>1, <1>2, <2>1, MutateHarmless, MoreFills
<1>3. ASSUME NEW why \in {"MAKER_REJECT", "OTHER"}, NEW k \in {"quote", "exhaust"},
             Transition(p, [r EXCEPT !.state = "REJECTED", !.reason = why], At(p, k))
      PROVE  Harmless
  <2>1. /\ [r EXCEPT !.state = "REJECTED", !.reason = why] \in Rows
        /\ [r EXCEPT !.state = "REJECTED", !.reason = why].state = "REJECTED"
    BY <1>1 DEF Rows, States, Reasons
  <2> QED BY <1>1, <1>3, <2>1, RejectHarmless
<1> QED BY <1>1, <1>2, <1>3, ReturnHarmless DEF PersistFirst

LEMMA PersistRepriceHarmless ==
  ASSUME IInv, AllOpen, NEW p \in Pollers, PersistReprice(p) PROVE Harmless
<1> DEFINE r == proc[p].rec
<1>1. /\ proc[p].pc \notin {"idle", "load"} /\ r \in Rows
      /\ r.attempt + 1 \in Limits /\ r.reprices + 1 \in Limits
  <2>1. proc[p].pc = "persist" /\ proc[p].kind = "reprice"
    BY DEF PersistReprice
  <2>2. r \in Rows /\ r.attempt <= r.reprices /\ r.reprices < MaxReprices
    BY <2>1, PollerFacts DEF Sendable, RowOK
  <2>3. r.attempt \in Limits /\ r.reprices \in Limits
    BY <2>2 DEF Rows
  <2>4. r.attempt + 1 \in Limits /\ r.reprices + 1 \in Limits
    BY <2>2, <2>3 DEF Limits
  <2> QED BY <2>1, <2>2, <2>4
<1>2. CASE \E new : Mutate(p, new, WithFills(r.attempt + 1, proc[p].got), Ended(p))
  BY <1>1, <1>2, EndHarmless, MoreFills
<1>3. ASSUME NEW why \in {"MAKER_REJECT", "OTHER"}, NEW k \in {"quote", "exhaust"},
             Transition(p, [r EXCEPT !.state = "REJECTED", !.attempt = r.attempt + 1,
                                     !.reprices = r.reprices + 1, !.reason = why], At(p, k))
      PROVE  Harmless
  <2> DEFINE new == [r EXCEPT !.state = "REJECTED", !.attempt = r.attempt + 1,
                              !.reprices = r.reprices + 1, !.reason = why]
  <2>1. new \in Rows /\ new.state = "REJECTED"
    BY <1>1 DEF Rows, States, Reasons
  <2> QED BY <1>1, <1>3, <2>1, RejectHarmless
<1> QED BY <1>1, <1>2, <1>3, ReturnHarmless DEF PersistReprice

LEMMA PersistFallbackHarmless ==
  ASSUME IInv, AllOpen, NEW p \in Pollers, PersistFallback(p) PROVE Harmless
<1> DEFINE r == proc[p].rec
           submitted == [r EXCEPT !.state = "FALLBACK_SUBMITTED", !.reason = "OTHER"]
           new == [submitted EXCEPT !.fb = TRUE]
           l == [proc[p] EXCEPT !.pc = "read", !.view = "?", !.got = -1]
<1>1. proc[p].pc \notin {"idle", "load"} /\ r \in Rows
  BY PollerFacts DEF PersistFallback
<1>2. submitted \in Rows /\ submitted.state = "FALLBACK_SUBMITTED"
  BY <1>1 DEF Rows, States, Reasons
<1>3. CASE Mutate(p, new, WithFills(F, proc[p].got), l)
  <2>1. new \in Rows /\ new.state \notin Terminal
    BY <1>2 DEF Rows, Terminal
  <2>2. -1 \in -1 .. Target /\ "read" \in PCs /\ "?" \in Views
    BY DEF PCs, Views
  <2>3. l \in Locals
    BY <2>2, PollerFacts, Zenon DEF Locals
  <2> QED BY <1>1, <1>3, <2>1, <2>3, GoOnHarmless, MoreFills
<1> QED BY <1>1, <1>3, ReturnHarmless, FailHarmless DEF PersistFallback

LEMMA ExhaustHarmless == ASSUME IInv, AllOpen, NEW p \in Pollers, Exhaust(p) PROVE Harmless
  BY ReturnHarmless DEF Exhaust

-----------------------------------------------------------------------------
(* poll and reconcile.                                                     *)

LEMMA PollHarmless == ASSUME IInv, AllOpen, NEW p \in Pollers, Poll(p) PROVE Harmless
<1> DEFINE l == [Idle EXCEPT !.rec = wf, !.polls = proc[p].polls]
<1>1. l.rec = wf
  BY DEF Idle
<1>2. CASE Local(p, Ended(p))
  BY <1>2, Returned, LocalHarmless
<1>3. ASSUME Pollable(wf), NEW m, m.rec = wf, Local(p, m) PROVE Harmless
  <2>1. wf.state \notin Terminal
    BY <1>3 DEF Pollable, Live, Terminal
  <2>2. OpenLocal(m)
    BY <1>3, <2>1 DEF OpenLocal
  <2> QED BY <1>3, <2>2, LocalHarmless
<1>4. ASSUME NEW k PROVE /\ [l EXCEPT !.pc = k].rec = wf
                         /\ [l EXCEPT !.pc = k, !.kind = "reprice"].rec = wf
  BY <1>1 DEF Idle
<1> QED BY <1>2, <1>3, <1>4 DEF Poll

LEMMA ResolveHarmless == ASSUME IInv, AllOpen, NEW p \in Pollers, Resolve(p) PROVE Harmless
<1> DEFINE r == proc[p].rec
<1>1. proc[p].pc \notin {"idle", "load"} /\ r \in Rows /\ r.state \notin Terminal
  BY PollerFacts, OpenRow DEF Resolve
<1>2. CASE Local(p, Ended(p))
  BY <1>2, Returned, LocalHarmless
<1>3. ASSUME NEW new \in {[r EXCEPT !.fb = TRUE], [r EXCEPT !.active = TRUE]},
             Transition(p, new, At(p, "read"))
      PROVE  Harmless
  <2>1. new \in Rows /\ new.state \notin Terminal
    BY <1>1, <1>3 DEF Rows
  <2> QED BY <1>1, <1>3, <2>1, OnwardHarmless DEF Transition, PCs
<1> QED BY <1>2, <1>3 DEF Resolve

LEMMA ReadHarmless ==
  ASSUME IInv, AllOpen, NEW p \in Pollers, ReadOrder(p) \/ ReadFills(p) PROVE Harmless
<1>1. proc[p].pc \notin {"idle", "load"}
  BY DEF ReadOrder, ReadFills
<1>2. ASSUME NEW v PROVE /\ [proc[p] EXCEPT !.view = v].rec = proc[p].rec
                         /\ [proc[p] EXCEPT !.got = v].rec = proc[p].rec
  BY PollerFacts DEF Locals
<1>3. CASE ReadOrder(p)
  <2>1. PICK v : Local(p, [proc[p] EXCEPT !.view = v])
    BY <1>3 DEF ReadOrder
  <2> QED BY <1>1, <1>2, <2>1, SameCopy
<1>4. CASE ReadFills(p)
  <2>1. PICK n : Local(p, [proc[p] EXCEPT !.got = n])
    BY <1>4 DEF ReadFills
  <2> QED BY <1>1, <1>2, <2>1, SameCopy
<1> QED BY <1>3, <1>4

LEMMA RecordHarmless == ASSUME IInv, AllOpen, NEW p \in Pollers, RecordFills(p) PROVE Harmless
<1> DEFINE fills == WithFills(OrderOf(proc[p].rec), proc[p].got)
<1>1. proc[p].pc \notin {"idle", "load"} /\ proc[p].rec \in Rows
  BY PollerFacts DEF RecordFills
<1>2. CASE Local(p, At(p, "decide"))
  BY <1>1, <1>2, AtCopy, SameCopy
<1>3. CASE Mutate(p, proc[p].rec, fills, At(p, "decide"))
  BY <1>1, <1>3, OpenRow, MoreFills, OnwardHarmless DEF PCs
<1> QED BY <1>1, <1>2, <1>3, FailHarmless DEF RecordFills

-----------------------------------------------------------------------------
(* Live orders and their cancel.                                           *)

LEMMA LiveHarmless ==
  ASSUME IInv, AllOpen, NEW p \in Pollers,
         LiveDone(p) \/ LiveCanceled(p) \/ LiveRejected(p) \/ LiveProgress(p)
  PROVE  Harmless
<1> DEFINE r == proc[p].rec
<1>1. proc[p].pc \notin {"idle", "load"} /\ r \in Rows
  BY PollerFacts DEF LiveDone, LiveCanceled, LiveRejected, LiveProgress, Deciding
<1>2. ASSUME NEW s \in {"REJECTED", "PARTIAL", "ACK"}, NEW k \in {"exhaust", "ttl"},
             Transition(p, [r EXCEPT !.state = s, !.reason = "OTHER"], At(p, k))
      PROVE  Harmless
  <2> DEFINE new == [r EXCEPT !.state = s, !.reason = "OTHER"]
  <2>1. new \in Rows /\ new.state \notin Terminal
    BY <1>1 DEF Rows, States, Reasons, Terminal
  <2> QED BY <1>1, <1>2, <2>1, OnwardHarmless DEF Transition, PCs
<1>3. CASE Local(p, At(p, "ttl"))
  BY <1>1, <1>3, AtCopy, SameCopy
<1>4. CASE LiveDone(p)
  BY <1>1, <1>4, DoneHarmless DEF LiveDone
<1>5. CASE LiveCanceled(p)
  BY <1>1, <1>5, ReturnHarmless DEF LiveCanceled
<1>6. CASE LiveRejected(p)
  BY <1>2, <1>6 DEF LiveRejected
<1>7. CASE LiveProgress(p)
  BY <1>2, <1>3, <1>7 DEF LiveProgress
<1> QED BY <1>4, <1>5, <1>6, <1>7

LEMMA RequestHarmless ==
  ASSUME IInv, AllOpen, NEW p \in Pollers, proc[p].pc \notin {"idle", "load"}, RequestCancel(p)
  PROVE  Harmless
<1> DEFINE r == proc[p].rec
           new == [r EXCEPT !.state = "CANCEL_PENDING", !.cancels = r.cancels + 1,
                            !.reason = "OTHER"]
<1>1. new \in Rows /\ new.state \notin Terminal
  <2>1. r \in Rows /\ r.cancels + 1 \in Nat
    BY PollerFacts DEF Rows
  <2>2. new \in Rows /\ new.state = "CANCEL_PENDING"
    BY <2>1, Zenon DEF Rows, States, Reasons
  <2> QED BY <2>2 DEF Terminal
<1>2. CASE Transition(p, new, At(p, "cancel"))
  BY <1>1, <1>2, OnwardHarmless DEF Transition, PCs
<1> QED BY <1>2, FailHarmless DEF RequestCancel

LEMMA TtlHarmless == ASSUME IInv, AllOpen, NEW p \in Pollers, CheckTtl(p) PROVE Harmless
  BY RequestHarmless, Returned, LocalHarmless DEF CheckTtl

LEMMA CancelHarmless ==
  ASSUME IInv, AllOpen, NEW p \in Pollers, CancelOrder(p) \/ RetryCancel(p) PROVE Harmless
<1>1. UNCHANGED <<wf, seen>> /\ proc[p].pc \notin {"idle", "load"}
  BY DEF CancelOrder, RetryCancel
<1>2. ASSUME NEW l, l = Ended(p) \/ l.rec = proc[p].rec, Goto(p, l) PROVE Harmless
  <2>1. OpenLocal(l)
    BY <1>1, <1>2, Returned, OpenRow DEF OpenLocal
  <2> QED BY <1>1, <1>2, <2>1, NoWrite
<1>3. ASSUME NEW k, NEW x, NEW n
      PROVE  /\ [proc[p] EXCEPT !.pc = k, !.got = n].rec = proc[p].rec
             /\ [proc[p] EXCEPT !.pc = k, !.out = x].rec = proc[p].rec
             /\ [proc[p] EXCEPT !.pc = k, !.view = x, !.got = n].rec = proc[p].rec
  BY PollerFacts DEF Locals
<1>4. CASE CancelOrder(p)
  <2>1. PICK n : \/ Goto(p, [proc[p] EXCEPT !.pc = "confirm", !.got = n])
                 \/ Goto(p, [proc[p] EXCEPT !.pc = "read", !.view = "?", !.got = -1])
                 \/ Goto(p, Ended(p))
    BY <1>4 DEF CancelOrder
  <2>2. CASE Goto(p, [proc[p] EXCEPT !.pc = "confirm", !.got = n])
    BY <1>2, <1>3, <2>2
  <2>3. CASE Goto(p, [proc[p] EXCEPT !.pc = "read", !.view = "?", !.got = -1])
    <3> DEFINE l == [proc[p] EXCEPT !.pc = "read", !.view = "?", !.got = -1]
    <3>1. l.rec = proc[p].rec /\ Goto(p, l)
      BY <2>3, PollerFacts, Zenon DEF Locals
    <3> HIDE DEF l
    <3> QED BY <1>2, <3>1
  <2> QED BY <1>2, <2>1, <2>2, <2>3
<1>5. CASE RetryCancel(p)
  <2>1. PICK x : Goto(p, [proc[p] EXCEPT !.pc = "retried", !.out = x])
    BY <1>5 DEF RetryCancel
  <2> QED BY <1>2, <1>3, <2>1
<1> QED BY <1>4, <1>5

LEMMA ConfirmHarmless ==
  ASSUME IInv, AllOpen, NEW p \in Pollers, ConfirmCancel(p) \/ AfterReport(p) PROVE Harmless
<1> DEFINE fills == WithFills(proc[p].rec.client, proc[p].got)
<1>1. proc[p].pc \notin {"idle", "load"} /\ proc[p].rec \in Rows
  BY PollerFacts DEF ConfirmCancel, AfterReport
<1>2. CASE Mutate(p, proc[p].rec, fills, At(p, "confirmed"))
  BY <1>1, <1>2, OpenRow, MoreFills, OnwardHarmless DEF PCs
<1> QED BY <1>1, <1>2, ReturnHarmless, DoneHarmless DEF ConfirmCancel, AfterReport

LEMMA PendingHarmless ==
  ASSUME IInv, AllOpen, NEW p \in Pollers,
         PendingDone(p) \/ PendingCanceled(p) \/ PendingUnclear(p) \/ PersistRetry(p)
  PROVE  Harmless
<1>1. proc[p].pc \notin {"idle", "load"}
  BY DEF PendingDone, PendingCanceled, PendingUnclear, PersistRetry, Deciding
<1>2. CASE Local(p, At(p, "retry"))
  BY <1>1, <1>2, AtCopy, SameCopy
<1> QED BY <1>1, <1>2, ReturnHarmless, DoneHarmless, FailHarmless
        DEF PendingDone, PendingCanceled, PendingUnclear, PersistRetry

-----------------------------------------------------------------------------
(* After a cancel: reprice, fallback, and the cancel from outside.         *)

LEMMA AfterCancelHarmless == ASSUME IInv, AllOpen, NEW p \in Pollers, AfterCancel(p) PROVE Harmless
<1>1. proc[p].pc \notin {"idle", "load"}
  BY DEF AfterCancel, Deciding
<1>2. ASSUME NEW k, NEW n
      PROVE  /\ [At(p, "quote") EXCEPT !.kind = k].rec = proc[p].rec
             /\ [At(p, "send") EXCEPT !.kind = k, !.qty = n].rec = proc[p].rec
  <2>1. At(p, "quote") \in Locals /\ At(p, "send") \in Locals
    BY PollerFacts DEF At, Locals, PCs
  <2> QED BY <2>1, AtCopy DEF Locals
<1> QED BY <1>1, <1>2, SameCopy, DoneHarmless, FailHarmless DEF AfterCancel

LEMMA RepriceHarmless == ASSUME IInv, AllOpen, NEW p \in Pollers, Reprice(p) PROVE Harmless
<1> DEFINE l == [proc[p] EXCEPT !.kind = "reprice", !.qty = Remainder(seen)]
           limit == [l EXCEPT !.pc = "send"]
           market == [l EXCEPT !.pc = "send", !.kind = "fallback"]
<1>1. proc[p].pc \notin {"idle", "load"}
  BY DEF Reprice
<1>2. l.rec = proc[p].rec
  BY PollerFacts DEF Locals
<1>3. limit.rec = proc[p].rec /\ market.rec = proc[p].rec
  BY <1>2, PollerFacts DEF Locals
<1> QED BY <1>1, <1>3, SameCopy, DoneHarmless, FailHarmless DEF Reprice

LEMMA AfterFallbackHarmless ==
  ASSUME IInv, AllOpen, NEW p \in Pollers, AfterFallback(p) PROVE Harmless
<1>1. proc[p].pc \notin {"idle", "load"}
  BY DEF AfterFallback, Deciding
<1> QED BY <1>1, TurnHarmless, DoneHarmless, FailHarmless DEF AfterFallback

LEMMA CancelOpenHarmless == ASSUME IInv, AllOpen, NEW p \in Pollers, CancelOpen(p) PROVE Harmless
<1> DEFINE l == [Idle EXCEPT !.pc = "abort", !.rec = wf, !.polls = 4]
<1>1. l.rec = wf
  BY DEF Idle
<1>2. OpenLocal(l)
  BY <1>1 DEF CancelOpen, OpenLocal, Terminal
<1> QED BY <1>2, LocalHarmless DEF CancelOpen

LEMMA AbortHarmless == ASSUME IInv, AllOpen, NEW p \in Pollers, Abort(p) PROVE Harmless
<1>1. proc[p].pc \notin {"idle", "load"}
  BY DEF Abort
<1>2. Idle.pc = "idle"
  BY DEF Idle
<1>3. CASE \E new : Transition(p, new, Idle)
  BY <1>1, <1>2, <1>3, MutateHarmless DEF Transition
<1> QED BY <1>1, <1>3, RequestHarmless, TurnHarmless DEF Abort

-----------------------------------------------------------------------------
(* The theorem.                                                            *)

LEMMA CrashHarmless == ASSUME IInv, AllOpen, NEW p \in Pollers, Crash(p) PROVE Harmless
<1>1. OpenLocal(Idle)
  BY DEF OpenLocal, Idle
<1> QED BY <1>1, NoWrite DEF Crash

LEMMA ControllerHarmless ==
  ASSUME IInv, AllOpen, NEW p \in Pollers, Controller(p) PROVE Harmless
  BY DenyHarmless, SendHarmless, PersistFirstHarmless, PersistRepriceHarmless,
     PersistFallbackHarmless, ExhaustHarmless, PollHarmless, ResolveHarmless, ReadHarmless,
     RecordHarmless, LiveHarmless, TtlHarmless, CancelHarmless, ConfirmHarmless,
     PendingHarmless, AfterCancelHarmless, RepriceHarmless, AfterFallbackHarmless,
     AbortHarmless DEF Controller

LEMMA StepHarmless == ASSUME IInv, AllOpen, [Next]_vars PROVE Harmless
<1>1. CASE UNCHANGED <<wf, seen, proc>>
  BY <1>1 DEF Harmless, Kept, AllOpen
<1>2. ASSUME NEW o \in Orders, Venue(o) PROVE UNCHANGED <<wf, seen, proc>>
  BY <1>2 DEF Venue, Arrive, Drop, Fill, VenueCancel, LateReject, VenueStep
<1>3. ASSUME Tick \/ UNCHANGED vars PROVE UNCHANGED <<wf, seen, proc>>
  BY <1>3 DEF Tick, vars
<1>4. ASSUME NEW p \in Pollers, Start(p) \/ Controller(p) \/ CancelOpen(p) \/ Crash(p)
      PROVE  Harmless
  BY <1>4, StartHarmless, ControllerHarmless, CancelOpenHarmless, CrashHarmless
<1> QED BY <1>1, <1>2, <1>3, <1>4 DEF Next

(* No caller, however stale the row it loaded, touches a row that is DONE  *)
(* or FAILED or forgets a recorded fill, for any number of callers, any    *)
(* policy, crashes and every fault of the venue (store.mutate).            *)
THEOREM TerminalRowsStay == Spec => TerminalIsFinal
<1> DEFINE Inv == IInv /\ AllOpen
<1>1. Init => Inv
  BY InitOK DEF Init, AllOpen, OpenLocal, Idle
<1>2. Inv /\ [Next]_vars => Inv'
  BY NextOK, StepHarmless DEF Harmless
<1>3. Inv /\ [Next]_vars =>
        [/\ wf.state \in {"DONE", "FAILED"} => UNCHANGED <<wf, seen>>
         /\ seen \subseteq seen']_vars
  BY StepHarmless DEF Harmless, Kept, Terminal
<1> QED BY <1>1, <1>2, <1>3, PTL DEF Spec, TerminalIsFinal

-----------------------------------------------------------------------------
(* Sets of fills.                                                          *)

(* OrderToSend, of what a caller holds; l: its locals. *)
NextOrder(l) == CASE l.kind = "first"   -> 0
                  [] l.kind = "reprice" -> l.rec.attempt + 1
                  [] OTHER              -> F

(* s: the fills recorded, v: the venue. *)
Others(s, c) == {f \in s : f[1] # c}
VenueTraded(v) == UNION {FillsOf(o, v[o].filled) : o \in Orders}

(* What the venue's own bookkeeping guarantees of its orders. *)
VenueSound(v) ==
  \A o \in Orders :
    /\ v[o].filled <= v[o].qty
    /\ v[o].st = "none" => v[o].qty = 0
    /\ v[o].st = "filled" => v[o].filled = v[o].qty
    /\ v[o].st \in {"wire", "rejected"} => v[o].filled = 0

(* No fill is recorded that the venue did not make. *)
SeenTrue(s, v) == \A f \in s : f[2] <= v[f[1]].filled

(* The members of a set of fills, and of the first fills of an order.      *)
LEMMA FillPairs ==
  ASSUME NEW s \in SUBSET Fills, NEW f \in s
  PROVE  f = <<f[1], f[2]>> /\ f[1] \in Orders /\ f[2] \in 1 .. Target
  BY DEF Fills

LEMMA FillsOfMember ==
  ASSUME NEW o \in Orders, NEW n \in 0 .. Target
  PROVE  /\ FillsOf(o, n) \subseteq Fills
         /\ \A f \in FillsOf(o, n) : f[1] = o /\ f[2] \in 1 .. n
         /\ \A f \in Fills : f[1] = o /\ f[2] <= n => f \in FillsOf(o, n)
<1>1. 1 .. n \subseteq 1 .. Target
  OBVIOUS
<1>2. FillsOf(o, n) \subseteq Fills
  BY <1>1 DEF FillsOf, Fills
<1>3. \A f \in FillsOf(o, n) : f[1] = o /\ f[2] \in 1 .. n
  BY DEF FillsOf
<1>4. ASSUME NEW f \in Fills, f[1] = o, f[2] <= n PROVE f \in FillsOf(o, n)
  <2>1. f = <<o, f[2]>> /\ f[2] \in 1 .. n
    BY <1>4, FillPairs
  <2> QED BY <2>1 DEF FillsOf
<1> QED BY <1>2, <1>3, <1>4

(* A larger set of fills has no smaller total. *)
LEMMA TotalMono ==
  ASSUME NEW g \in SUBSET Fills, NEW f \in SUBSET g
  PROVE  Total(f) <= Total(g) /\ Total(f) \in Nat /\ Total(g) \in Nat
  BY FillsFinite, FS_Subset, TotalType DEF Total

(* The first n fills of an order are n, and they add to those of others.   *)
LEMMA TotalOf ==
  ASSUME NEW o \in Orders, NEW n \in 0 .. Target
  PROVE  Total(FillsOf(o, n)) = n
<1>1. IsFiniteSet({o}) /\ Cardinality({o}) = 1
  BY FS_Singleton
<1>2. IsFiniteSet(1 .. n) /\ Cardinality(1 .. n) = n
  <2>1. 1 \in Int /\ n \in Int
    OBVIOUS
  <2>2. IsFiniteSet(1 .. n) /\ Cardinality(1 .. n) = IF 1 > n THEN 0 ELSE n - 1 + 1
    BY <2>1, FS_Interval
  <2> QED BY <2>2
<1>3. Cardinality({o} \X (1 .. n)) = 1 * n
  BY <1>1, <1>2, FS_Product
<1> QED BY <1>3 DEF Total, FillsOf

LEMMA TotalWith ==
  ASSUME NEW s \in SUBSET Fills, NEW c \in Orders, NEW n \in 0 .. Target
  PROVE  /\ Others(s, c) \in SUBSET Fills
         /\ Others(s, c) \cup FillsOf(c, n) \in SUBSET Fills
         /\ Total(Others(s, c) \cup FillsOf(c, n)) = Total(Others(s, c)) + n
<1>1. Others(s, c) \in SUBSET Fills /\ FillsOf(c, n) \in SUBSET Fills
  BY FillsOfMember DEF Others
<1>2. Others(s, c) \cap FillsOf(c, n) = {}
  BY FillsOfMember DEF Others
<1>3. IsFiniteSet(Others(s, c)) /\ IsFiniteSet(FillsOf(c, n))
  BY <1>1, FillsFinite
<1>4. Cardinality(Others(s, c) \cup FillsOf(c, n))
        = Cardinality(Others(s, c)) + Cardinality(FillsOf(c, n)) - Cardinality({})
  BY <1>2, <1>3, FS_Union
<1>5. Cardinality(FillsOf(c, n)) = n
  BY TotalOf DEF Total
<1>6. Cardinality(Others(s, c)) \in Nat
  BY <1>3, FS_CardinalityType
<1> QED BY <1>1, <1>4, <1>5, <1>6, FS_EmptySet DEF Total

(* Quantities of the venue's orders. *)
LEMMA VenueTypes ==
  ASSUME NEW v, VenueOK(v), NEW o \in Orders
  PROVE  v[o] \in VenueOrders /\ v[o].qty \in 0 .. Target /\ v[o].filled \in 0 .. Target
  BY DEF VenueOK, VenueOrders

(* What is recorded was traded. *)
LEMMA SeenTraded ==
  ASSUME NEW s \in SUBSET Fills, NEW v, VenueOK(v), SeenTrue(s, v)
  PROVE  /\ s \subseteq VenueTraded(v) /\ VenueTraded(v) \in SUBSET Fills
         /\ \A o \in Orders : FillsOf(o, v[o].filled) \subseteq VenueTraded(v)
<1>1. ASSUME NEW f \in s PROVE f \in VenueTraded(v)
  <2>1. f[1] \in Orders /\ f[2] <= v[f[1]].filled
    BY FillPairs DEF SeenTrue
  <2>2. f \in FillsOf(f[1], v[f[1]].filled)
    BY <2>1, VenueTypes, FillsOfMember
  <2> QED BY <2>1, <2>2 DEF VenueTraded
<1>2. VenueTraded(v) \in SUBSET Fills
  BY VenueTypes, FillsOfMember DEF VenueTraded
<1> QED BY <1>1, <1>2 DEF VenueTraded

(* Rounding down to the step loses less than one step. *)
LEMMA FloorClose ==
  ASSUME NEW n \in Int, NEW s \in Nat \ {0}
  PROVE  (n \div s) * s \in Int /\ (n \div s) * s <= n /\ (n \div s) * s > n - s
  OBVIOUS

LEMMA RemainderExact ==
  ASSUME NEW s \in SUBSET Fills
  PROVE  /\ Remainder(s) \in Int /\ Total(s) \in Nat
         /\ Remainder(s) <= Target - Total(s) /\ Remainder(s) > Target - Total(s) - Step
<1>1. Total(s) \in Nat
  BY TotalType
<1> DEFINE n == Target - Total(s)
<1>2. n \in Int /\ Remainder(s) = (n \div Step) * Step
  BY <1>1 DEF Remainder
<1> HIDE DEF n
<1>3. Remainder(s) \in Int /\ Remainder(s) <= n /\ Remainder(s) > n - Step
  BY <1>2, FloorClose
<1> QED BY <1>1, <1>3 DEF n

(* Without a remainder the venue has traded the target, up to dust. *)
LEMMA DustTraded ==
  ASSUME NEW s \in SUBSET Fills, NEW v, VenueOK(v), SeenTrue(s, v), NoRemainder(s) \/ Complete(s)
  PROVE  /\ Total(VenueTraded(v)) > Target - Step
         /\ Step = 1 => Total(s) >= Target
<1>1. Total(s) \in Nat /\ Total(s) > Target - Step
  BY RemainderExact DEF NoRemainder, Complete
<1>2. Total(s) <= Total(VenueTraded(v)) /\ Total(VenueTraded(v)) \in Nat
  BY SeenTraded, TotalMono
<1> QED BY <1>1, <1>2

-----------------------------------------------------------------------------
(* DONE means traded.  Whoever sends an order sends what was left of the   *)
(* target, up to dust, when it looked; fills are only ever added; so an    *)
(* order that is full makes up for what the others have not brought, and   *)
(* what a caller was told of fills is at most what the venue has made,     *)
(* even when an answer was lost.                                           *)

(* Order by order, with the fills the others brought. *)
Enough(s, v) ==
  \A o \in Orders : v[o].st # "none" => Total(Others(s, o)) + v[o].qty > Target - Step

(* What a caller holds of quantities and answers. *)
Honest(l, s, v) ==
  /\ l.pc = "send" => l.qty > Target - Total(s) - Step
  /\ l.pc = "persist" /\ l.out = "ACK" => l.got <= v[NextOrder(l)].filled
  /\ l.pc = "confirm" => l.got <= v[l.rec.client].filled
  /\ l.pc \in {"resolve", "read"} => l.got <= v[OrderOf(l.rec)].filled
  /\ l.pc = "resolve" => l.view = "?"
  /\ l.pc \in {"read", "decide"} /\ l.view = "FILLED" => v[OrderOf(l.rec)].st = "filled"

Traded(v) == Total(VenueTraded(v)) > Target - Step

DInv ==
  /\ VenueSound(venue) /\ SeenTrue(seen, venue) /\ Enough(seen, venue)
  /\ \A q \in Pollers : Honest(proc[q], seen, venue)
  /\ wf.state = "DONE" => Traded(venue)

Trusted == IInv /\ AllOpen /\ DInv

(* The venue's orders trade, and one that is full stays so. *)
Grows(v, u) ==
  \A o \in Orders : v[o].filled <= u[o].filled /\ (v[o].st = "filled" => u[o].st = "filled")

(* The orders a caller refers to. *)
LEMMA OrdersHeld ==
  ASSUME IInv, NEW p \in Pollers
  PROVE  /\ proc[p] \in Locals /\ proc[p].rec \in Rows /\ proc[p].got \in -1 .. Target
         /\ proc[p].rec.client \in Orders /\ OrderOf(proc[p].rec) \in Orders
         /\ proc[p].pc \in {"send", "persist"} => NextOrder(proc[p]) \in Orders
<1>1. proc[p] \in Locals /\ proc[p].rec \in Rows /\ proc[p].got \in -1 .. Target
  BY PollerFacts DEF Locals
<1>2. proc[p].rec.client \in Orders /\ OrderOf(proc[p].rec) \in Orders
  BY <1>1, OrderOfType
<1>3. ASSUME proc[p].pc \in {"send", "persist"} PROVE NextOrder(proc[p]) \in Orders
  <2>1. proc[p].kind = "reprice" => proc[p].rec.attempt + 1 \in Limits
    BY <1>1, <1>3, PollerFacts DEF Sendable, RowOK, Rows, Limits
  <2> QED BY <2>1 DEF NextOrder, Orders, Limits
<1> QED BY <1>1, <1>2, <1>3

(* What is true of a caller stays true while others record and trade.      *)
LEMMA HonestStays ==
  ASSUME IInv, NEW p \in Pollers, NEW s \in SUBSET Fills, NEW t \in SUBSET Fills, s \subseteq t,
         NEW v, NEW u, VenueOK(v), VenueOK(u), Grows(v, u), Honest(proc[p], s, v)
  PROVE  Honest(proc[p], t, u)
<1> DEFINE l == proc[p]
<1>1. ASSUME NEW o \in Orders, l.got <= v[o].filled PROVE l.got <= u[o].filled
  BY <1>1, OrdersHeld, VenueTypes DEF Grows
<1>2. ASSUME l.qty > Target - Total(s) - Step PROVE l.qty > Target - Total(t) - Step
  BY <1>2, TotalMono, OrdersHeld DEF Locals
<1> QED BY <1>1, <1>2, OrdersHeld DEF Honest, Grows

(* What the venue has traded never shrinks. *)
LEMMA TradedStays ==
  ASSUME NEW v, NEW u, VenueOK(v), VenueOK(u), Grows(v, u), Traded(v)
  PROVE  Traded(u)
<1>1. ASSUME NEW o \in Orders, NEW f \in FillsOf(o, v[o].filled) PROVE f \in FillsOf(o, u[o].filled)
  <2>1. v[o].filled \in 0 .. Target /\ u[o].filled \in 0 .. Target /\ v[o].filled <= u[o].filled
    BY VenueTypes DEF Grows
  <2>2. f \in Fills /\ f[1] = o /\ f[2] \in 1 .. v[o].filled
    BY <2>1, FillsOfMember
  <2>3. f[2] <= u[o].filled
    BY <2>1, <2>2
  <2> QED BY <2>1, <2>2, <2>3, FillsOfMember
<1>2. VenueTraded(v) \subseteq VenueTraded(u) /\ VenueTraded(u) \in SUBSET Fills
  BY <1>1, VenueTypes, FillsOfMember DEF VenueTraded
<1> QED BY <1>2, TotalMono DEF Traded

(* A full order, with what the others brought, is the target up to dust.   *)
LEMMA FullTraded ==
  ASSUME NEW s \in SUBSET Fills, NEW v, VenueOK(v), VenueSound(v), SeenTrue(s, v), Enough(s, v),
         NEW o \in Orders, v[o].st = "filled"
  PROVE  Traded(v)
<1>1. Total(Others(s, o)) + v[o].qty > Target - Step /\ v[o].filled = v[o].qty
  BY DEF Enough, VenueSound
<1>2. v[o].filled \in 0 .. Target /\ v[o].qty \in 0 .. Target
  BY VenueTypes
<1>3. Others(s, o) \cup FillsOf(o, v[o].filled) \subseteq VenueTraded(v)
      /\ VenueTraded(v) \in SUBSET Fills
  BY SeenTraded DEF Others
<1>4. Total(Others(s, o)) + v[o].filled <= Total(VenueTraded(v))
  <2>1. Total(Others(s, o) \cup FillsOf(o, v[o].filled)) = Total(Others(s, o)) + v[o].filled
    BY <1>2, TotalWith
  <2> QED BY <1>3, <2>1, TotalMono
<1>5. Total(Others(s, o)) \in Nat /\ Total(VenueTraded(v)) \in Nat
  BY <1>3, TotalType DEF Others
<1> QED BY <1>1, <1>2, <1>4, <1>5 DEF Traded

(* One caller moves, fills are added, the venue trades. *)
LEMMA CallerMoves ==
  ASSUME Trusted, NEW p \in Pollers, NEW m, Goto(p, m),
         seen' \in SUBSET Fills, seen \subseteq seen', VenueOK(venue'), Grows(venue, venue'),
         VenueSound(venue'), SeenTrue(seen', venue'), Enough(seen', venue'),
         Honest(m, seen', venue'), wf'.state = "DONE" => wf.state = "DONE" \/ Traded(venue')
  PROVE  DInv'
<1>1. seen \in SUBSET Fills /\ VenueOK(venue) /\ IInv
  BY DEF Trusted, IInv
<1>2. ASSUME NEW q \in Pollers PROVE Honest(proc'[q], seen', venue')
  <2>1. CASE q = p
    BY <1>1, <2>1 DEF Goto, IInv
  <2>2. CASE q # p
    <3>1. proc'[q] = proc[q]
      BY <1>1, <2>2 DEF Goto, IInv
    <3>2. Honest(proc[q], seen, venue)
      BY DEF Trusted, DInv
    <3> QED BY <1>1, <3>1, <3>2, HonestStays
  <2> QED BY <2>1, <2>2
<1>3. wf'.state = "DONE" => Traded(venue')
  BY <1>1, TradedStays DEF Trusted, DInv
<1> QED BY <1>2, <1>3 DEF DInv

LEMMA EnoughStays ==
  ASSUME NEW s \in SUBSET Fills, NEW t \in SUBSET Fills, s \subseteq t, NEW v, VenueOK(v), Enough(s, v)
  PROVE  Enough(t, v)
<1> SUFFICES ASSUME NEW o \in Orders, v[o].st # "none"
             PROVE  Total(Others(t, o)) + v[o].qty > Target - Step
  BY DEF Enough
<1>1. Others(s, o) \subseteq Others(t, o) /\ Others(t, o) \in SUBSET Fills
  BY DEF Others
<1>2. Total(Others(s, o)) <= Total(Others(t, o)) /\ Total(Others(s, o)) \in Nat
      /\ Total(Others(t, o)) \in Nat
  BY <1>1, TotalMono
<1>3. v[o].qty \in 0 .. Target /\ Total(Others(s, o)) + v[o].qty > Target - Step
  BY VenueTypes DEF Enough
<1> QED BY <1>2, <1>3

(* A step that touches neither the store nor the venue. *)
LEMMA HonestLocal ==
  ASSUME Trusted, NEW p \in Pollers, NEW m, Local(p, m), Honest(m, seen, venue)
  PROVE  DInv'
<1>1. Goto(p, m) /\ UNCHANGED <<wf, seen, venue>>
  BY DEF Local
<1>2. seen \in SUBSET Fills /\ VenueOK(venue) /\ VenueSound(venue) /\ SeenTrue(seen, venue)
      /\ Enough(seen, venue)
  BY DEF Trusted, IInv, DInv
<1>3. Grows(venue, venue)
  BY <1>2, VenueTypes DEF Grows
<1>4. VenueOK(venue') /\ Grows(venue, venue') /\ VenueSound(venue') /\ SeenTrue(seen', venue')
      /\ Enough(seen', venue') /\ Honest(m, seen', venue') /\ seen' \in SUBSET Fills
  BY <1>1, <1>2, <1>3
<1> QED BY <1>1, <1>4, CallerMoves

(* A write of the store. *)
LEMMA HonestWrite ==
  ASSUME Trusted, NEW p \in Pollers, proc[p].pc \notin {"idle", "load"},
         NEW new \in Rows, NEW fills \in SUBSET Fills, NEW m, Mutate(p, new, fills, m),
         seen \subseteq fills, SeenTrue(fills, venue),
         new.state = "DONE" => proc[p].rec.state = "DONE" \/ Traded(venue),
         LET saved == [new EXCEPT !.version = wf.version + 1] IN
         Honest(IF m.pc \in {"idle", "load"} THEN m ELSE [m EXCEPT !.rec = saved], fills, venue)
  PROVE  DInv'
<1> DEFINE saved == [new EXCEPT !.version = wf.version + 1]
           next == IF m.pc \in {"idle", "load"} THEN m ELSE [m EXCEPT !.rec = saved]
<1>1. saved.state = new.state
  BY DEF Rows
<1>2. Honest(next, fills, venue)
  OBVIOUS
<1>3. VenueOK(venue) /\ VenueSound(venue) /\ SeenTrue(seen, venue) /\ Enough(seen, venue)
      /\ seen \in SUBSET Fills /\ IInv /\ AllOpen
  BY DEF Trusted, IInv, DInv
<1>4. CASE Local(p, Idle)
  <2>1. Honest(Idle, seen, venue)
    BY DEF Honest, Idle
  <2> QED BY <1>4, <2>1, HonestLocal
<1>5. CASE wf' = saved /\ seen' = fills /\ Goto(p, next) /\ UNCHANGED venue
  <2>1. Enough(fills, venue) /\ Grows(venue, venue)
    BY <1>3, EnoughStays, VenueTypes DEF Grows
  <2>2. proc[p].rec.state # "DONE"
    BY <1>3, OpenRow DEF Terminal
  <2> HIDE DEF next, saved
  <2>3. /\ VenueOK(venue') /\ Grows(venue, venue') /\ VenueSound(venue') /\ SeenTrue(seen', venue')
        /\ Enough(seen', venue') /\ Honest(next, seen', venue') /\ seen' \in SUBSET Fills
        /\ wf'.state = "DONE" => Traded(venue')
    BY <1>1, <1>2, <1>3, <1>5, <2>1, <2>2
  <2> QED BY <1>5, <2>3, CallerMoves
<1> QED
  <2> HIDE DEF next, saved
  <2>1. \/ wf' = saved /\ seen' = fills /\ Goto(p, next) /\ UNCHANGED venue
        \/ Local(p, Idle)
    BY DEF Mutate, Local, saved, next
  <2> QED BY <1>4, <1>5, <2>1

(* Points of a handler at which nothing is asked of what a caller holds.   *)
LEMMA NothingHeld ==
  ASSUME NEW m, m.pc \notin {"send", "persist", "confirm", "resolve", "read", "decide"},
         NEW s, NEW v
  PROVE  Honest(m, s, v)
  BY DEF Honest

(* A write after which the caller returns. *)
LEMMA HonestNote ==
  ASSUME Trusted, NEW p \in Pollers, proc[p].pc \notin {"idle", "load"}, NEW new \in Rows,
         NEW fills \in SUBSET Fills, seen \subseteq fills, SeenTrue(fills, venue),
         NEW m, m.pc \in {"idle", "load"}, Mutate(p, new, fills, m),
         new.state = "DONE" => proc[p].rec.state = "DONE" \/ Traded(venue)
  PROVE  DInv'
<1>1. Honest(m, fills, venue)
  BY NothingHeld
<1> QED BY <1>1, HonestWrite

LEMMA HonestEnd ==
  ASSUME Trusted, NEW p \in Pollers, proc[p].pc \notin {"idle", "load"}, NEW new \in Rows,
         NEW m, m.pc \in {"idle", "load"}, Transition(p, new, m),
         new.state = "DONE" => proc[p].rec.state = "DONE" \/ Traded(venue)
  PROVE  DInv'
<1>1. seen \in SUBSET Fills /\ SeenTrue(seen, venue) /\ Mutate(p, new, seen, m)
  BY DEF Trusted, IInv, DInv, Transition
<1> QED BY <1>1, HonestNote

LEMMA HonestReturn ==
  ASSUME Trusted, NEW p \in Pollers, proc[p].pc \notin {"idle", "load"}, NEW new \in Rows,
         Transition(p, new, Ended(p)),
         new.state = "DONE" => proc[p].rec.state = "DONE" \/ Traded(venue)
  PROVE  DInv'
  BY Returned, HonestEnd

LEMMA HonestReturns ==
  ASSUME Trusted, NEW p \in Pollers, Local(p, Ended(p)) PROVE DInv'
  BY Returned, NothingHeld, HonestLocal

(* A write after which the caller goes on to such a point. *)
LEMMA HonestGoesOn ==
  ASSUME Trusted, NEW p \in Pollers, proc[p].pc \notin {"idle", "load"}, NEW new \in Rows,
         new.state # "DONE", NEW fills \in SUBSET Fills, seen \subseteq fills,
         SeenTrue(fills, venue),
         NEW k \in {"ttl", "exhaust", "quote", "cancel", "confirmed"},
         Mutate(p, new, fills, At(p, k))
  PROVE  DInv'
<1> DEFINE saved == [new EXCEPT !.version = wf.version + 1]
           next == [At(p, k) EXCEPT !.rec = saved]
<1>1. At(p, k).pc = k /\ next.pc = k
  BY OrdersHeld DEF Trusted, At, Locals
<1>2. Honest(next, fills, venue)
  BY <1>1, NothingHeld
<1> HIDE DEF next, saved
<1>3. Honest(IF At(p, k).pc \in {"idle", "load"} THEN At(p, k) ELSE next, fills, venue)
  BY <1>1, <1>2
<1> QED BY <1>3, HonestWrite DEF next, saved

LEMMA HonestTurn ==
  ASSUME Trusted, NEW p \in Pollers, proc[p].pc \notin {"idle", "load"}, NEW new \in Rows,
         new.state # "DONE", NEW k \in {"ttl", "exhaust", "quote", "cancel", "confirmed"},
         Transition(p, new, At(p, k))
  PROVE  DInv'
  BY HonestGoesOn DEF Transition, Trusted, IInv, DInv

LEMMA HonestFail ==
  ASSUME Trusted, NEW p \in Pollers, proc[p].pc \notin {"idle", "load"}, NEW why \in Reasons, Fail(p, why)
  PROVE  DInv'
<1> DEFINE new == [proc[p].rec EXCEPT !.state = "FAILED", !.reason = why]
<1>1. new \in Rows /\ new.state = "FAILED" /\ Transition(p, new, Ended(p))
  BY OrdersHeld DEF Trusted, Rows, States, Fail
<1> HIDE DEF new
<1> QED BY <1>1, HonestReturn

LEMMA HonestDone ==
  ASSUME Trusted, NEW p \in Pollers, proc[p].pc \notin {"idle", "load"}, Done(p),
         \/ Complete(seen) \/ NoRemainder(seen)
         \/ proc[p].pc = "decide" /\ proc[p].view = "FILLED"
  PROVE  DInv'
<1> DEFINE new == [proc[p].rec EXCEPT !.state = "DONE", !.reason = "OTHER"]
<1>1. new \in Rows /\ Transition(p, new, Ended(p))
  BY OrdersHeld DEF Trusted, Rows, States, Reasons, Done
<1>2. seen \in SUBSET Fills /\ VenueOK(venue) /\ VenueSound(venue) /\ SeenTrue(seen, venue)
      /\ Enough(seen, venue) /\ Honest(proc[p], seen, venue)
  BY DEF Trusted, IInv, DInv
<1>3. Traded(venue)
  <2>1. CASE Complete(seen) \/ NoRemainder(seen)
    BY <1>2, <2>1, DustTraded DEF Traded
  <2>2. CASE proc[p].pc = "decide" /\ proc[p].view = "FILLED"
    BY <1>2, <2>2, OrdersHeld, FullTraded DEF Honest, Trusted
  <2> QED BY <2>1, <2>2
<1> HIDE DEF new
<1> QED BY <1>1, <1>3, HonestReturn

(* Fills the venue has made may be recorded. *)
LEMMA HonestFills ==
  ASSUME Trusted, NEW o \in Orders, NEW n \in Int, n <= venue[o].filled
  PROVE  WithFills(o, n) \in SUBSET Fills /\ SeenTrue(WithFills(o, n), venue)
         /\ seen \subseteq WithFills(o, n)
<1>1. seen \in SUBSET Fills /\ SeenTrue(seen, venue) /\ venue[o].filled \in 0 .. Target
  BY VenueTypes DEF Trusted, IInv, DInv
<1>2. FillsOf(o, n) \subseteq Fills /\ \A f \in FillsOf(o, n) : f[1] = o /\ f[2] <= venue[o].filled
  <2>1. CASE n \in 0 .. Target
    BY <1>1, <2>1, FillsOfMember
  <2>2. CASE n < 0
    <3>1. 1 .. n = {}
      BY <2>2
    <3> QED BY <3>1 DEF FillsOf
  <2> QED BY <1>1, <2>1, <2>2
<1> QED BY <1>1, <1>2 DEF WithFills, SeenTrue

-----------------------------------------------------------------------------
(* The handlers.                                                           *)

LEMMA StartHonest == ASSUME Trusted, NEW p \in Pollers, Start(p) PROVE DInv'
<1> DEFINE m == [Idle EXCEPT !.pc = "send", !.rec = wf', !.kind = "first", !.qty = Target]
<1>1. Goto(p, m) /\ UNCHANGED <<seen, venue>> /\ wf'.state = "NEW"
  BY DEF Start, Trusted, IInv, RowOK, Rows
<1>2. m.pc = "send" /\ m.qty = Target
  BY DEF Idle
<1> HIDE DEF m
<1>3. seen \in SUBSET Fills /\ VenueOK(venue) /\ VenueSound(venue) /\ SeenTrue(seen, venue)
      /\ Enough(seen, venue) /\ Total(seen) \in Nat
  BY TotalType DEF Trusted, IInv, DInv
<1>4. Grows(venue, venue)
  BY <1>3, VenueTypes DEF Grows
<1>5. Honest(m, seen, venue)
  BY <1>2, <1>3 DEF Honest
<1>6. /\ VenueOK(venue') /\ Grows(venue, venue') /\ VenueSound(venue') /\ SeenTrue(seen', venue')
      /\ Enough(seen', venue') /\ Honest(m, seen', venue') /\ seen' \in SUBSET Fills
  BY <1>1, <1>3, <1>4, <1>5
<1> QED BY <1>1, <1>6, CallerMoves

LEMMA DenyHonest == ASSUME Trusted, NEW p \in Pollers, Deny(p) PROVE DInv'
<1> DEFINE m == [proc[p] EXCEPT !.kind = "fallback"]
           new == [proc[p].rec EXCEPT !.state = "REJECTED", !.reprices = MaxReprices,
                                      !.reason = "OTHER"]
<1>1. proc[p].pc = "send" /\ proc[p] \in Locals /\ proc[p].rec \in Rows
      /\ Honest(proc[p], seen, venue)
  BY OrdersHeld DEF Deny, Trusted, DInv
<1>2. CASE Local(p, m)
  <2>1. m.pc = "send" /\ m.qty = proc[p].qty
    BY <1>1 DEF Locals
  <2> HIDE DEF m
  <2> QED BY <1>1, <1>2, <2>1, HonestLocal DEF Honest
<1>3. CASE Transition(p, new, Ended(p))
  <2>1. new \in Rows /\ new.state = "REJECTED"
    <3>1. MaxReprices \in Limits
      BY DEF Limits
    <3> QED BY <1>1, <3>1, Zenon DEF Rows, States, Reasons
  <2> HIDE DEF new
  <2> QED BY <1>1, <1>3, <2>1, HonestReturn
<1>4. CASE Fail(p, "OTHER")
  BY <1>1, <1>4, HonestFail DEF Reasons
<1> QED BY <1>2, <1>3, <1>4, Zenon DEF Deny

(* What holds once the venue has taken an order, which now is v.           *)
Taken(v, o) ==
  /\ VenueOK(venue') /\ Grows(venue, venue') /\ VenueSound(venue') /\ SeenTrue(seen, venue')
  /\ Enough(seen, venue') /\ v.filled \in 0 .. Target /\ venue'[o] = v

(* What the venue makes of a submit. *)
LEMMA VenueTakes ==
  ASSUME Trusted, NEW o \in Orders, NEW q \in 1 .. Target, q > Target - Total(seen) - Step, NEW v,
         v \in {venue[o], Accepted(o, q)} \/ venue[o].st = "none",
         v \in {venue[o], Accepted(o, q), FilledAtOnce(q), [st |-> "wire", qty |-> q, filled |-> 0]},
         venue' = [venue EXCEPT ![o] = v]
  PROVE  Taken(v, o)
<1>1. VenueOK(venue') /\ v.filled \in 0 .. Target
  BY SentOrder DEF Trusted
<1>2. venue'[o] = v /\ \A a \in Orders : a # o => venue'[a] = venue[a]
  BY DEF Trusted, IInv, VenueOK
<1>3. VenueOK(venue) /\ seen \in SUBSET Fills /\ VenueSound(venue) /\ SeenTrue(seen, venue)
      /\ Enough(seen, venue) /\ venue[o] \in VenueOrders /\ venue[o].filled \in 0 .. Target
      /\ venue[o].qty \in 0 .. Target
  BY VenueTypes DEF Trusted, IInv, DInv
<1>4. CASE venue[o].st # "none"
  <2>1. /\ v.filled = venue[o].filled /\ v.qty = venue[o].qty /\ v.st # "none"
        /\ v.st \in {"filled", "wire", "rejected"} => v.st = venue[o].st
        /\ venue[o].st = "filled" => v.st = "filled"
    BY <1>3, <1>4 DEF Accepted, VenueOrders
  <2>2. VenueSound(venue') /\ SeenTrue(seen, venue')
    BY <1>2, <1>3, <2>1, FillPairs DEF VenueSound, SeenTrue
  <2>3. Enough(seen, venue')
    BY <1>2, <1>3, <1>4, <2>1 DEF Enough
  <2>4. Grows(venue, venue')
    BY <1>2, <1>3, <2>1, VenueTypes DEF Grows
  <2> QED BY <1>1, <1>2, <2>2, <2>3, <2>4 DEF Taken
<1>5. CASE venue[o].st = "none"
  <2>1. venue[o].qty = 0 /\ venue[o].filled = 0
    BY <1>3, <1>5 DEF VenueSound
  <2>2. Accepted(o, q) = [st |-> "live", qty |-> q, filled |-> 0]
    BY <1>5 DEF Accepted
  <2>3. v = venue[o] \/ (v.qty = q /\ v.st # "none" /\ v.filled <= q /\ v.filled >= 0
                         /\ (v.st = "filled" => v.filled = q)
                         /\ (v.st \in {"wire", "rejected"} => v.filled = 0))
    BY <2>2 DEF FilledAtOnce
  <2>4. \A f \in seen : f[1] # o
    <3> SUFFICES ASSUME NEW f \in seen, f[1] = o PROVE FALSE
      OBVIOUS
    <3>1. f[2] \in 1 .. Target /\ f[2] <= venue[o].filled
      BY <1>3, FillPairs DEF SeenTrue
    <3> QED BY <2>1, <3>1
  <2>5. VenueSound(venue')
    BY <1>2, <1>3, <2>1, <2>3 DEF VenueSound
  <2>6. SeenTrue(seen, venue')
    BY <1>2, <1>3, <2>4, FillPairs DEF SeenTrue
  <2>7. Grows(venue, venue')
    <3>1. \A a \in Orders : a # o => venue[a].filled <= venue'[a].filled
                                    /\ (venue[a].st = "filled" => venue'[a].st = "filled")
      BY <1>2, <1>3, VenueTypes
    <3> QED BY <1>2, <1>5, <2>1, <2>3, <3>1 DEF Grows
  <2>8. Enough(seen, venue')
    <3>1. Others(seen, o) = seen
      BY <2>4 DEF Others
    <3>2. Total(seen) \in Nat
      BY <1>3, TotalType
    <3>3. v.st # "none" => Total(Others(seen, o)) + v.qty > Target - Step
      BY <1>5, <2>3, <3>1, <3>2
    <3> QED BY <1>2, <1>3, <3>3 DEF Enough
  <2> QED BY <1>1, <1>2, <2>5, <2>6, <2>7, <2>8 DEF Taken
<1> QED BY <1>4, <1>5

LEMMA SendHonest == ASSUME Trusted, NEW p \in Pollers, Send(p) PROVE DInv'
<1> DEFINE l == proc[p]
           o == NextOrder(l)
           q == l.qty
           wired == [st |-> "wire", qty |-> q, filled |-> 0]
<1>1. l.pc = "send" /\ l \in Locals /\ o \in Orders /\ o = OrderToSend(p)
      /\ q \in 1 .. Target /\ q > Target - Total(seen) - Step /\ UNCHANGED <<wf, seen>>
  <2>1. l.pc = "send" /\ l \in Locals /\ o \in Orders /\ l.qty > 0
    BY OrdersHeld, PollerFacts DEF Send, Trusted, Sendable
  <2>2. q > Target - Total(seen) - Step
    BY <2>1 DEF Trusted, DInv, Honest
  <2>3. o = OrderToSend(p)
    BY DEF NextOrder, OrderToSend
  <2>4. q \in 1 .. Target
    BY <2>1 DEF Locals
  <2> HIDE DEF o, q
  <2> QED BY <2>1, <2>2, <2>3, <2>4 DEF Send
<1>2. seen \in SUBSET Fills /\ VenueOK(venue) /\ VenueSound(venue) /\ SeenTrue(seen, venue)
      /\ Enough(seen, venue)
  BY DEF Trusted, IInv, DInv
<1> HIDE DEF q
<1>3. ASSUME NEW m, Goto(p, m), m.pc = "persist", NextOrder(m) = o,
             NEW v, v \in {venue[o], Accepted(o, q)} \/ venue[o].st = "none",
             v \in {venue[o], Accepted(o, q), FilledAtOnce(q), wired},
             venue' = [venue EXCEPT ![o] = v],
             m.out = "ACK" => m.got \in {0, v.filled}
      PROVE  DInv'
  <2> HIDE DEF o
  <2>1. VenueOK(venue') /\ Grows(venue, venue') /\ VenueSound(venue') /\ SeenTrue(seen, venue')
        /\ Enough(seen, venue') /\ v.filled \in 0 .. Target /\ venue'[o] = v
    <3>1. o \in Orders /\ q \in 1 .. Target /\ q > Target - Total(seen) - Step
      BY <1>1
    <3>2. v \in {venue[o], Accepted(o, q)} \/ venue[o].st = "none"
      BY <1>3
    <3>3. v \in {venue[o], Accepted(o, q), FilledAtOnce(q), [st |-> "wire", qty |-> q, filled |-> 0]}
      BY <1>3
    <3>4. venue' = [venue EXCEPT ![o] = v]
      BY <1>3
    <3>5. Taken(v, o)
      BY <3>1, <3>2, <3>3, <3>4, VenueTakes
    <3> QED BY <3>5 DEF Taken
  <2>2. Honest(m, seen, venue')
    BY <1>3, <2>1 DEF Honest
  <2>3. seen' = seen /\ wf' = wf
    BY <1>1
  <2> QED BY <1>2, <1>3, <2>1, <2>2, <2>3, CallerMoves
<1>4. ASSUME NEW m, m.kind = l.kind, m.rec = l.rec PROVE NextOrder(m) = o
  BY <1>4 DEF NextOrder
<1>5. ASSUME NEW v \in {Accepted(o, q)} \cup
                 (IF o = F /\ venue[F].st = "none" THEN {FilledAtOnce(q)} ELSE {}),
             venue' = [venue EXCEPT ![o] = v], NEW n \in {0, v.filled},
             Goto(p, [l EXCEPT !.pc = "persist", !.out = "ACK", !.got = n])
      PROVE  DInv'
  <2> DEFINE m == [l EXCEPT !.pc = "persist", !.out = "ACK", !.got = n]
  <2>1. m.pc = "persist" /\ m.kind = l.kind /\ m.rec = l.rec /\ m.got = n /\ Goto(p, m)
    BY <1>1, <1>5 DEF Locals
  <2> HIDE DEF m, o, wired
  <2>2. v \in {venue[o], Accepted(o, q)} \/ venue[o].st = "none"
    BY <1>5
  <2>3. v \in {venue[o], Accepted(o, q), FilledAtOnce(q), wired}
    BY <1>5
  <2>4. NextOrder(m) = o
    BY <1>4, <2>1
  <2> QED BY <1>3, <1>5, <2>1, <2>2, <2>3, <2>4
<1>6. ASSUME NEW v \in {Accepted(o, q), venue[o]} \cup
                 (IF venue[o].st = "none" THEN {wired} ELSE {}),
             venue' = [venue EXCEPT ![o] = v],
             Goto(p, [l EXCEPT !.pc = "persist", !.out = "AMBIGUOUS"])
      PROVE  DInv'
  <2> DEFINE m == [l EXCEPT !.pc = "persist", !.out = "AMBIGUOUS"]
  <2>1. m.pc = "persist" /\ m.kind = l.kind /\ m.rec = l.rec /\ m.out = "AMBIGUOUS" /\ Goto(p, m)
    BY <1>1, <1>6 DEF Locals
  <2> HIDE DEF m, o, wired
  <2>2. v \in {venue[o], Accepted(o, q)} \/ venue[o].st = "none"
    BY <1>6
  <2>3. v \in {venue[o], Accepted(o, q), FilledAtOnce(q), wired}
    BY <1>6
  <2>4. NextOrder(m) = o
    BY <1>4, <2>1
  <2> QED BY <1>3, <1>6, <2>1, <2>2, <2>3, <2>4
<1>7. ASSUME UNCHANGED venue, NEW r \in {"MAKER", "REJECT"},
             Goto(p, [l EXCEPT !.pc = "persist", !.out = r])
      PROVE  DInv'
  <2> DEFINE m == [l EXCEPT !.pc = "persist", !.out = r]
  <2>1. m.pc = "persist" /\ m.out = r /\ Goto(p, m)
    BY <1>1, <1>7 DEF Locals
  <2> HIDE DEF m, o
  <2>2. Honest(m, seen, venue) /\ Grows(venue, venue)
    BY <1>2, <2>1, VenueTypes DEF Honest, Grows
  <2>3. /\ VenueOK(venue') /\ Grows(venue, venue') /\ VenueSound(venue') /\ SeenTrue(seen', venue')
        /\ Enough(seen', venue') /\ Honest(m, seen', venue') /\ seen' \in SUBSET Fills /\ wf' = wf
    BY <1>1, <1>2, <1>7, <2>2
  <2> QED BY <1>1, <2>1, <2>3, CallerMoves
<1> QED
  <2>1. \/ \E v \in {Accepted(o, q)} \cup
                    (IF o = F /\ venue[F].st = "none" THEN {FilledAtOnce(q)} ELSE {}) :
             /\ venue' = [venue EXCEPT ![o] = v]
             /\ \E n \in {0, v.filled} :
                  Goto(p, [l EXCEPT !.pc = "persist", !.out = "ACK", !.got = n])
        \/ /\ UNCHANGED venue
           /\ \E r \in {"MAKER", "REJECT"} : Goto(p, [l EXCEPT !.pc = "persist", !.out = r])
        \/ /\ \E v \in {Accepted(o, q), venue[o]} \cup
                       (IF venue[o].st = "none" THEN {wired} ELSE {}) :
                venue' = [venue EXCEPT ![o] = v]
           /\ Goto(p, [l EXCEPT !.pc = "persist", !.out = "AMBIGUOUS"])
    <3> HIDE DEF o
    <3> QED BY <1>1, Zenon DEF Send, l, q, wired
  <2> HIDE DEF o
  <2> QED BY <1>5, <1>6, <1>7, <2>1

(* Fills that came with an acknowledgement. *)
LEMMA AckedFills ==
  ASSUME Trusted, NEW p \in Pollers, proc[p].pc = "persist", proc[p].out = "ACK"
  PROVE  LET fills == WithFills(NextOrder(proc[p]), proc[p].got) IN
         fills \in SUBSET Fills /\ SeenTrue(fills, venue) /\ seen \subseteq fills
<1>1. NextOrder(proc[p]) \in Orders /\ proc[p].got \in Int
      /\ proc[p].got <= venue[NextOrder(proc[p])].filled
  BY OrdersHeld DEF Trusted, DInv, Honest
<1> QED BY <1>1, HonestFills

LEMMA PersistFirstHonest == ASSUME Trusted, NEW p \in Pollers, PersistFirst(p) PROVE DInv'
<1> DEFINE l == proc[p]
           r == l.rec
           acked == [r EXCEPT !.state = "SUBMITTED", !.client = 0, !.reason = "OTHER", !.active = TRUE]
           unclear == [r EXCEPT !.state = "SUBMITTED", !.client = 0, !.reason = "OTHER", !.active = FALSE]
           load == [Idle EXCEPT !.pc = "load"]
<1>1. l.pc = "persist" /\ r \in Rows /\ 0 \in Limits /\ NextOrder(l) = 0
  BY OrdersHeld DEF PersistFirst, Trusted, Limits, NextOrder
<1>2. ASSUME NEW new \in {acked, unclear} PROVE new \in Rows /\ new.state = "SUBMITTED"
  <2>1. r \in Rows /\ 0 \in Limits
    BY <1>1
  <2> HIDE DEF r
  <2>2. acked \in Rows /\ acked.state = "SUBMITTED"
    BY <2>1, Zenon DEF Rows, States, Reasons
  <2>3. unclear \in Rows /\ unclear.state = "SUBMITTED"
    BY <2>1, Zenon DEF Rows, States, Reasons
  <2> QED BY <2>2, <2>3
<1>3. CASE l.out = "ACK" /\ Mutate(p, acked, WithFills(0, l.got), load)
  <2>1. load.pc = "load" /\ acked \in Rows /\ acked.state = "SUBMITTED"
    BY <1>2 DEF Idle
  <2>2. WithFills(0, l.got) \in SUBSET Fills /\ SeenTrue(WithFills(0, l.got), venue)
        /\ seen \subseteq WithFills(0, l.got)
    BY <1>1, <1>3, AckedFills
  <2> HIDE DEF load, acked
  <2> QED BY <1>1, <1>3, <2>1, <2>2, HonestNote
<1>4. CASE Transition(p, unclear, Ended(p))
  <2>1. unclear \in Rows /\ unclear.state = "SUBMITTED"
    BY <1>2
  <2> HIDE DEF unclear
  <2> QED BY <1>1, <1>4, <2>1, HonestReturn
<1>5. ASSUME NEW why \in {"MAKER_REJECT", "OTHER"}, NEW k \in {"quote", "exhaust"},
             Transition(p, [r EXCEPT !.state = "REJECTED", !.reason = why], At(p, k))
      PROVE  DInv'
  <2> DEFINE new == [r EXCEPT !.state = "REJECTED", !.reason = why]
  <2>1. new \in Rows /\ new.state = "REJECTED"
    BY <1>1 DEF Rows, States, Reasons
  <2>2. Transition(p, new, At(p, k))
    BY <1>5
  <2> HIDE DEF new
  <2> QED BY <1>1, <2>1, <2>2, HonestTurn
<1> QED BY <1>3, <1>4, <1>5 DEF PersistFirst

LEMMA PersistRepriceHonest == ASSUME Trusted, NEW p \in Pollers, PersistReprice(p) PROVE DInv'
<1> DEFINE l == proc[p]
           r == l.rec
           n == r.attempt + 1
           b == r.reprices + 1
           submitted == [r EXCEPT !.state = "SUBMITTED", !.attempt = n, !.client = n,
                                  !.reprices = b, !.reason = "OTHER"]
           acked == [submitted EXCEPT !.active = TRUE, !.cancels = 0, !.confirmed = FALSE]
           unclear == [submitted EXCEPT !.active = FALSE]
<1>1. /\ l.pc = "persist" /\ l.kind = "reprice" /\ r \in Rows /\ n \in Limits /\ b \in Limits
      /\ NextOrder(l) = n
  <2>1. l.pc = "persist" /\ l.kind = "reprice"
    BY DEF PersistReprice
  <2>2. r \in Rows /\ r.attempt <= r.reprices /\ r.reprices < MaxReprices
    BY <2>1, PollerFacts DEF Sendable, RowOK, Trusted
  <2>3. n \in Limits /\ b \in Limits
    BY <2>2 DEF Rows, Limits
  <2> QED BY <2>1, <2>2, <2>3 DEF NextOrder
<1> HIDE DEF n, b
<1>2. submitted \in Rows /\ submitted.state = "SUBMITTED" /\ 0 \in Nat
  <2>1. submitted \in Rows /\ submitted.state = "SUBMITTED"
    BY <1>1, Zenon DEF Rows, States, Reasons
  <2> QED BY <2>1
<1> HIDE DEF submitted
<1>3. ASSUME NEW new \in {acked, unclear} PROVE new \in Rows /\ new.state = "SUBMITTED"
  BY <1>2, Zenon DEF Rows
<1>4. CASE l.out = "ACK" /\ Mutate(p, acked, WithFills(n, l.got), Ended(p))
  <2>1. acked \in Rows /\ acked.state = "SUBMITTED" /\ Ended(p).pc \in {"idle", "load"}
    BY <1>3, Returned
  <2>2. WithFills(n, l.got) \in SUBSET Fills /\ SeenTrue(WithFills(n, l.got), venue)
        /\ seen \subseteq WithFills(n, l.got)
    BY <1>1, <1>4, AckedFills
  <2> HIDE DEF acked
  <2> QED BY <1>1, <1>4, <2>1, <2>2, HonestNote
<1>5. CASE Transition(p, unclear, Ended(p))
  <2>1. unclear \in Rows /\ unclear.state = "SUBMITTED"
    BY <1>3
  <2> HIDE DEF unclear
  <2> QED BY <1>1, <1>5, <2>1, HonestReturn
<1>6. ASSUME NEW why \in {"MAKER_REJECT", "OTHER"}, NEW k \in {"quote", "exhaust"},
             Transition(p, [r EXCEPT !.state = "REJECTED", !.attempt = n, !.reprices = b,
                                     !.reason = why], At(p, k))
      PROVE  DInv'
  <2> DEFINE new == [r EXCEPT !.state = "REJECTED", !.attempt = n, !.reprices = b, !.reason = why]
  <2>1. new \in Rows /\ new.state = "REJECTED"
    <3>1. why \in Reasons
      BY DEF Reasons
    <3> QED BY <1>1, <3>1, Zenon DEF Rows, States
  <2>2. Transition(p, new, At(p, k))
    BY <1>6
  <2> HIDE DEF new
  <2> QED BY <1>1, <2>1, <2>2, HonestTurn
<1> QED BY <1>4, <1>5, <1>6 DEF PersistReprice, n, b, submitted

LEMMA PersistFallbackHonest == ASSUME Trusted, NEW p \in Pollers, PersistFallback(p) PROVE DInv'
<1> DEFINE l == proc[p]
           r == l.rec
           acked == [r EXCEPT !.state = "FALLBACK_SUBMITTED", !.reason = "OTHER", !.fb = TRUE]
           unclear == [r EXCEPT !.state = "FALLBACK_SUBMITTED", !.reason = "OTHER", !.fb = FALSE]
           reading == [l EXCEPT !.pc = "read", !.view = "?", !.got = -1]
           fills == WithFills(F, l.got)
<1>1. l.pc = "persist" /\ r \in Rows /\ NextOrder(l) = F /\ l \in Locals
  BY OrdersHeld DEF PersistFallback, Trusted, NextOrder
<1>2. ASSUME NEW new \in {acked, unclear} PROVE new \in Rows /\ new.state = "FALLBACK_SUBMITTED"
  <2> HIDE DEF r
  <2>1. acked \in Rows /\ acked.state = "FALLBACK_SUBMITTED"
    BY <1>1, Zenon DEF Rows, States, Reasons
  <2>2. unclear \in Rows /\ unclear.state = "FALLBACK_SUBMITTED"
    BY <1>1, Zenon DEF Rows, States, Reasons
  <2> QED BY <2>1, <2>2
<1>3. CASE l.out = "ACK" /\ Mutate(p, acked, fills, reading)
  <2> DEFINE saved == [acked EXCEPT !.version = wf.version + 1]
             next == [reading EXCEPT !.rec = saved]
  <2>1. acked \in Rows /\ acked.state = "FALLBACK_SUBMITTED"
    BY <1>2
  <2>2. fills \in SUBSET Fills /\ SeenTrue(fills, venue) /\ seen \subseteq fills
    BY <1>1, <1>3, AckedFills
  <2> HIDE DEF acked, fills
  <2>3. saved.state = "FALLBACK_SUBMITTED"
    BY <2>1 DEF Rows
  <2> HIDE DEF saved
  <2>4. reading.pc = "read" /\ next.pc = "read" /\ next.view = "?" /\ next.got = -1
        /\ next.rec = saved
    BY <1>1 DEF Locals
  <2> HIDE DEF next, reading
  <2>5. F \in Orders /\ venue[F].filled \in 0 .. Target /\ OrderOf(saved) = F
    BY <2>3, VenueTypes DEF Orders, Trusted, IInv, OrderOf
  <2>6. Honest(next, fills, venue)
    BY <2>4, <2>5 DEF Honest
  <2>7. Honest(IF reading.pc \in {"idle", "load"} THEN reading ELSE next, fills, venue)
    BY <2>4, <2>6
  <2> QED BY <1>1, <1>3, <2>1, <2>2, <2>7, HonestWrite DEF next, saved
<1>4. CASE Transition(p, unclear, Ended(p))
  <2>1. unclear \in Rows /\ unclear.state = "FALLBACK_SUBMITTED"
    BY <1>2
  <2> HIDE DEF unclear
  <2> QED BY <1>1, <1>4, <2>1, HonestReturn
<1>5. CASE Fail(p, "OTHER")
  BY <1>1, <1>5, HonestFail DEF Reasons
<1> QED
  <2> HIDE DEF reading
  <2> QED BY <1>3, <1>4, <1>5, Zenon DEF PersistFallback, reading

LEMMA ExhaustHonest == ASSUME Trusted, NEW p \in Pollers, Exhaust(p) PROVE DInv'
<1> DEFINE new == [proc[p].rec EXCEPT !.reprices = MaxReprices]
<1>1. new \in Rows /\ new.state = proc[p].rec.state /\ proc[p].pc = "exhaust"
  <2>1. proc[p].rec \in Rows /\ MaxReprices \in Limits
    BY OrdersHeld DEF Trusted, Limits
  <2> QED BY <2>1, Zenon DEF Rows, Exhaust
<1>2. Transition(p, new, Ended(p))
  BY DEF Exhaust
<1> HIDE DEF new
<1> QED BY <1>1, <1>2, HonestReturn

(* poll and reconcile *)
LEMMA PollHonest == ASSUME Trusted, NEW p \in Pollers, Poll(p) PROVE DInv'
<1> DEFINE l == [Idle EXCEPT !.rec = wf, !.polls = proc[p].polls]
           quoting == [l EXCEPT !.pc = "quote", !.kind = "reprice"]
           k == IF Known(wf) THEN "read" ELSE "resolve"
           reading == [l EXCEPT !.pc = k]
<1>1. \/ Local(p, Ended(p)) \/ Local(p, quoting) \/ Local(p, reading)
  BY Zenon DEF Poll
<1>2. quoting.pc = "quote"
  BY DEF Idle
<1>3. k \in {"read", "resolve"}
  OBVIOUS
<1> HIDE DEF k, quoting
<1>4. reading.pc = k /\ reading.view = "?" /\ reading.got = -1 /\ reading.rec = wf
  BY DEF Idle
<1> HIDE DEF reading
<1>5. OrderOf(wf) \in Orders /\ venue[OrderOf(wf)].filled \in 0 .. Target
  BY OrderOfType, VenueTypes DEF Trusted, IInv, RowOK
<1>6. Honest(quoting, seen, venue) /\ Honest(reading, seen, venue)
  BY <1>2, <1>3, <1>4, <1>5 DEF Honest
<1> QED BY <1>1, <1>6, HonestReturns, HonestLocal

LEMMA ResolveHonest == ASSUME Trusted, NEW p \in Pollers, Resolve(p) PROVE DInv'
<1> DEFINE r == proc[p].rec
<1>1. proc[p].pc = "resolve" /\ proc[p] \in Locals /\ r \in Rows /\ r.state \notin Terminal
      /\ OrderOf(r) \in Orders /\ Honest(proc[p], seen, venue)
      /\ seen \in SUBSET Fills /\ SeenTrue(seen, venue)
  BY OrdersHeld, OpenRow DEF Resolve, Trusted, DInv, IInv
<1>2. ASSUME NEW new, new = [r EXCEPT !.fb = TRUE] \/ new = [r EXCEPT !.active = TRUE],
             Transition(p, new, At(p, "read"))
      PROVE  DInv'
  <2> DEFINE m == At(p, "read")
             saved == [new EXCEPT !.version = wf.version + 1]
             next == [m EXCEPT !.rec = saved]
  <2>1. new \in Rows /\ new.state = r.state /\ new.client = r.client
    BY <1>1, <1>2 DEF Rows
  <2>2. saved.state = r.state /\ saved.client = r.client
    BY <2>1 DEF Rows
  <2> HIDE DEF saved
  <2>3. m.pc = "read" /\ next.pc = "read" /\ next.view = proc[p].view /\ next.got = proc[p].got
        /\ next.rec = saved
    BY <1>1 DEF At, Locals
  <2>4. OrderOf(saved) = OrderOf(r)
    BY <2>2 DEF OrderOf
  <2> HIDE DEF next, m
  <2>5. Honest(next, seen, venue)
    BY <1>1, <2>3, <2>4 DEF Honest
  <2>6. Honest(IF m.pc \in {"idle", "load"} THEN m ELSE next, seen, venue)
        /\ Mutate(p, new, seen, m)
    BY <1>2, <2>3, <2>5 DEF Transition, m
  <2> QED BY <1>1, <2>1, <2>6, HonestWrite DEF next, saved, Terminal
<1>3. CASE Local(p, Ended(p))
  BY <1>3, HonestReturns
<1> QED BY <1>2, <1>3 DEF Resolve

LEMMA ReadHonest == ASSUME Trusted, NEW p \in Pollers, ReadOrder(p) \/ ReadFills(p) PROVE DInv'
<1> DEFINE l == proc[p]
           o == OrderOf(l.rec)
<1>1. l.pc = "read" /\ l \in Locals /\ o \in Orders /\ Honest(l, seen, venue)
      /\ venue[o].filled \in 0 .. Target
  BY OrdersHeld, VenueTypes DEF ReadOrder, ReadFills, Trusted, DInv, IInv
<1>2. ASSUME NEW v \in {VenueStatus(o), "NULL"}, Local(p, [l EXCEPT !.view = v]) PROVE DInv'
  <2> DEFINE m == [l EXCEPT !.view = v]
  <2>1. m.pc = "read" /\ m.view = v /\ m.got = l.got /\ m.rec = l.rec
    BY <1>1 DEF Locals
  <2>2. v = "FILLED" => venue[o].st = "filled"
    BY DEF VenueStatus
  <2> HIDE DEF m
  <2>3. Honest(m, seen, venue)
    BY <1>1, <2>1, <2>2 DEF Honest
  <2> QED BY <1>2, <2>3, HonestLocal DEF m
<1>3. ASSUME NEW n \in {venue[o].filled, 0}, Local(p, [l EXCEPT !.got = n]) PROVE DInv'
  <2> DEFINE m == [l EXCEPT !.got = n]
  <2>1. m.pc = "read" /\ m.view = l.view /\ m.got = n /\ m.rec = l.rec
    BY <1>1 DEF Locals
  <2> HIDE DEF m
  <2>2. Honest(m, seen, venue)
    BY <1>1, <2>1 DEF Honest
  <2> QED BY <1>3, <2>2, HonestLocal DEF m
<1> QED BY <1>2, <1>3 DEF ReadOrder, ReadFills

LEMMA RecordHonest == ASSUME Trusted, NEW p \in Pollers, RecordFills(p) PROVE DInv'
<1> DEFINE l == proc[p]
           fills == WithFills(OrderOf(l.rec), l.got)
           m == At(p, "decide")
           saved == [l.rec EXCEPT !.version = wf.version + 1]
           next == [m EXCEPT !.rec = saved]
<1>1. l.pc = "read" /\ l \in Locals /\ l.rec \in Rows /\ OrderOf(l.rec) \in Orders
      /\ Honest(l, seen, venue) /\ l.got \in Int /\ l.got <= venue[OrderOf(l.rec)].filled
  BY OrdersHeld DEF RecordFills, Trusted, DInv, Honest
<1>2. fills \in SUBSET Fills /\ SeenTrue(fills, venue) /\ seen \subseteq fills
  BY <1>1, HonestFills
<1>3. saved.state = l.rec.state /\ saved.client = l.rec.client
  BY <1>1 DEF Rows
<1> HIDE DEF saved, fills
<1>4. m.pc = "decide" /\ m.view = l.view /\ m.rec = l.rec
      /\ next.pc = "decide" /\ next.view = l.view /\ next.rec = saved
  BY <1>1 DEF At, Locals
<1>5. OrderOf(saved) = OrderOf(l.rec)
  BY <1>3 DEF OrderOf
<1> HIDE DEF m, next
<1>6. Honest(m, seen, venue) /\ Honest(next, fills, venue)
  BY <1>1, <1>4, <1>5 DEF Honest
<1>7. CASE Local(p, m)
  BY <1>6, <1>7, HonestLocal
<1>8. CASE Mutate(p, l.rec, fills, m)
  <2>1. Honest(IF m.pc \in {"idle", "load"} THEN m ELSE next, fills, venue)
    BY <1>4, <1>6
  <2> QED BY <1>1, <1>2, <1>8, <2>1, HonestWrite DEF next, saved
<1>9. CASE Fail(p, "OVERFILL")
  BY <1>1, <1>9, HonestFail DEF Reasons
<1> QED BY <1>7, <1>8, <1>9, Zenon DEF RecordFills, m, fills

(* The caller moves to such a point without a write. *)
LEMMA HonestMove ==
  ASSUME Trusted, NEW p \in Pollers, NEW k \in {"ttl", "retry", "quote", "exhaust"}, Local(p, At(p, k))
  PROVE  DInv'
<1>1. At(p, k).pc = k
  BY OrdersHeld DEF Trusted, At, Locals
<1>2. Honest(At(p, k), seen, venue)
  BY <1>1, NothingHeld
<1> QED BY <1>2, HonestLocal

(* pollLiveOrder *)
LEMMA LiveHonest ==
  ASSUME Trusted, NEW p \in Pollers,
         LiveDone(p) \/ LiveCanceled(p) \/ LiveRejected(p) \/ LiveProgress(p)
  PROVE  DInv'
<1> DEFINE r == proc[p].rec
<1>1. proc[p].pc = "decide" /\ r \in Rows
  BY OrdersHeld DEF Trusted, LiveDone, LiveCanceled, LiveRejected, LiveProgress, Deciding
<1>2. CASE LiveDone(p)
  BY <1>1, <1>2, HonestDone DEF LiveDone
<1>3. CASE LiveCanceled(p)
  <2>1. Cancelled(p) \in Rows /\ Cancelled(p).state = "CANCELLED"
    BY <1>1 DEF Cancelled, Rows, States, Reasons
  <2>2. Transition(p, Cancelled(p), Ended(p))
    BY <1>3 DEF LiveCanceled, Cancelled
  <2> QED BY <1>1, <2>1, <2>2, HonestReturn
<1>4. CASE LiveRejected(p)
  <2> DEFINE new == [r EXCEPT !.state = "REJECTED", !.reason = "OTHER"]
  <2>1. new \in Rows /\ new.state = "REJECTED"
    BY <1>1 DEF Rows, States, Reasons
  <2>2. Transition(p, new, At(p, "exhaust"))
    BY <1>4 DEF LiveRejected
  <2> HIDE DEF new
  <2> QED BY <1>1, <2>1, <2>2, HonestTurn
<1>5. CASE LiveProgress(p)
  <2>1. ASSUME NEW s \in {"PARTIAL", "ACK"},
               Transition(p, [r EXCEPT !.state = s, !.reason = "OTHER"], At(p, "ttl"))
        PROVE  DInv'
    <3> DEFINE new == [r EXCEPT !.state = s, !.reason = "OTHER"]
    <3>1. new \in Rows /\ new.state = s
      BY <1>1 DEF Rows, States, Reasons
    <3>2. Transition(p, new, At(p, "ttl"))
      BY <2>1
    <3> HIDE DEF new
    <3> QED BY <1>1, <3>1, <3>2, HonestTurn
  <2> QED BY <1>5, <2>1, HonestMove DEF LiveProgress
<1> QED BY <1>2, <1>3, <1>4, <1>5

LEMMA RequestHonest ==
  ASSUME Trusted, NEW p \in Pollers, proc[p].pc \notin {"idle", "load"}, RequestCancel(p)
  PROVE  DInv'
<1> DEFINE r == proc[p].rec
           n == r.cancels + 1
           new == [r EXCEPT !.state = "CANCEL_PENDING", !.cancels = n, !.reason = "OTHER"]
<1>1. r \in Rows /\ n \in Nat
  BY OrdersHeld DEF Trusted, Rows
<1> HIDE DEF n
<1>2. new \in Rows /\ new.state = "CANCEL_PENDING"
  BY <1>1, Zenon DEF Rows, States, Reasons
<1>3. CASE Transition(p, new, At(p, "cancel"))
  <2> HIDE DEF new
  <2> QED BY <1>2, <1>3, HonestTurn
<1>4. CASE Fail(p, "CANCEL_UNSUPPORTED")
  BY <1>4, HonestFail DEF Reasons
<1> QED BY <1>3, <1>4 DEF RequestCancel, n

LEMMA TtlHonest == ASSUME Trusted, NEW p \in Pollers, CheckTtl(p) PROVE DInv'
<1>1. proc[p].pc \notin {"idle", "load"}
  BY DEF CheckTtl
<1> QED BY <1>1, RequestHonest, HonestReturns DEF CheckTtl

(* A port call, or the venue by itself, changes an order. *)
LEMMA VenueAlters ==
  ASSUME Trusted, NEW o \in Orders, NEW x, venue' = [venue EXCEPT ![o] = x], VenueOK(venue'),
         x.filled >= venue[o].filled, x.filled <= x.qty,
         x.st = "filled" => x.filled = x.qty,
         x.st \in {"wire", "rejected"} => x.filled = 0,
         venue[o].st = "filled" => x.st = "filled",
         \/ x.st # "none" /\ x.qty = venue[o].qty /\ venue[o].st # "none"
         \/ x.st = "none" /\ x.qty = 0
  PROVE  Grows(venue, venue') /\ VenueSound(venue') /\ SeenTrue(seen, venue')
         /\ Enough(seen, venue') /\ venue'[o] = x
<1>1. venue'[o] = x /\ \A a \in Orders : a # o => venue'[a] = venue[a]
  BY DEF Trusted, IInv, VenueOK
<1>2. VenueOK(venue) /\ seen \in SUBSET Fills /\ VenueSound(venue) /\ SeenTrue(seen, venue)
      /\ Enough(seen, venue)
  BY DEF Trusted, IInv, DInv
<1>3. Grows(venue, venue')
  BY <1>1, <1>2, VenueTypes DEF Grows
<1>4. SeenTrue(seen, venue')
  <2> SUFFICES ASSUME NEW f \in seen PROVE f[2] <= venue'[f[1]].filled
    BY DEF SeenTrue
  <2>1. f[1] \in Orders /\ f[2] \in 1 .. Target /\ f[2] <= venue[f[1]].filled
    BY <1>2, FillPairs DEF SeenTrue
  <2>2. venue[f[1]].filled \in 0 .. Target /\ venue'[f[1]].filled \in 0 .. Target
    BY <1>2, <2>1, VenueTypes
  <2>3. venue[f[1]].filled <= venue'[f[1]].filled
    BY <1>3, <2>1 DEF Grows
  <2> QED BY <2>1, <2>2, <2>3
<1>5. VenueSound(venue') /\ Enough(seen, venue')
  BY <1>1, <1>2 DEF VenueSound, Enough
<1> QED BY <1>1, <1>3, <1>4, <1>5

(* A cancel that is confirmed, and one that is not. *)
LEMMA CancelAlters ==
  ASSUME Trusted, NEW o \in Orders, CancelConfirmed(o) \/ CancelUnclear(o) \/ UNCHANGED venue
  PROVE  VenueOK(venue') /\ Grows(venue, venue') /\ VenueSound(venue') /\ SeenTrue(seen, venue')
         /\ Enough(seen, venue') /\ venue'[o].filled = venue[o].filled
<1>1. VenueOK(venue) /\ VenueSound(venue) /\ SeenTrue(seen, venue) /\ Enough(seen, venue) /\ IInv
      /\ venue[o] \in VenueOrders /\ venue[o].filled \in 0 .. Target
  BY VenueTypes DEF Trusted, IInv, DInv
<1>2. CASE UNCHANGED venue
  <2>1. Grows(venue, venue)
    BY <1>1, VenueTypes DEF Grows
  <2>2. venue' = venue
    BY <1>2
  <2> QED BY <1>1, <2>1, <2>2
<1>3. CASE CancelConfirmed(o)
  <2> DEFINE x == [venue[o] EXCEPT !.st = "canceled"]
  <2>1. x.st = "canceled" /\ x.qty = venue[o].qty /\ x.filled = venue[o].filled
    BY <1>1 DEF VenueOrders
  <2>2. venue' = [venue EXCEPT ![o] = x] /\ venue[o].st \in {"live", "canceled"}
    BY <1>3 DEF CancelConfirmed
  <2> HIDE DEF x
  <2>3. VenueOK(venue')
    BY <1>1, <1>3, ConfirmedVenue
  <2>4. x.filled >= venue[o].filled /\ x.filled <= x.qty
    BY <1>1, <2>1 DEF VenueSound
  <2>5. Grows(venue, venue') /\ VenueSound(venue') /\ SeenTrue(seen, venue')
        /\ Enough(seen, venue') /\ venue'[o] = x
    BY <2>1, <2>2, <2>3, <2>4, VenueAlters
  <2> QED BY <2>1, <2>3, <2>5
<1> QED BY <1>2, <1>3 DEF CancelUnclear

LEMMA CancelOrderHonest ==
  ASSUME Trusted, NEW p \in Pollers, CancelOrder(p) \/ RetryCancel(p) PROVE DInv'
<1> DEFINE l == proc[p]
           o == l.rec.client
<1>1. l \in Locals /\ o \in Orders /\ OrderOf(l.rec) \in Orders /\ UNCHANGED <<wf, seen>>
      /\ seen \in SUBSET Fills /\ VenueOK(venue) /\ venue[o].filled \in 0 .. Target
  BY OrdersHeld, VenueTypes DEF CancelOrder, RetryCancel, Trusted, IInv
<1>2. CancelConfirmed(o) \/ CancelUnclear(o) \/ UNCHANGED venue
  BY DEF CancelOrder, RetryCancel
<1> HIDE DEF o
<1>3. VenueOK(venue') /\ Grows(venue, venue') /\ VenueSound(venue') /\ SeenTrue(seen, venue')
      /\ Enough(seen, venue') /\ venue'[o].filled = venue[o].filled
  BY <1>1, <1>2, CancelAlters
<1>4. ASSUME NEW m, Goto(p, m), Honest(m, seen, venue') PROVE DInv'
  <2>1. seen' = seen /\ wf' = wf
    BY <1>1
  <2> QED BY <1>1, <1>3, <1>4, <2>1, CallerMoves
<1>5. ASSUME NEW n \in {venue[o].filled, 0}, Goto(p, [l EXCEPT !.pc = "confirm", !.got = n])
      PROVE  DInv'
  <2> DEFINE m == [l EXCEPT !.pc = "confirm", !.got = n]
  <2>1. m.pc = "confirm" /\ m.got = n /\ m.rec.client = o /\ Goto(p, m)
    BY <1>1, <1>5 DEF Locals, o
  <2> HIDE DEF m
  <2>2. Honest(m, seen, venue')
    BY <1>1, <1>3, <2>1 DEF Honest
  <2> QED BY <1>4, <2>1, <2>2
<1>6. CASE Goto(p, [l EXCEPT !.pc = "read", !.view = "?", !.got = -1])
  <2> DEFINE m == [l EXCEPT !.pc = "read", !.view = "?", !.got = -1]
  <2>1. m.pc = "read" /\ m.got = -1 /\ m.view = "?" /\ m.rec = l.rec /\ Goto(p, m)
    BY <1>1, <1>6 DEF Locals
  <2> HIDE DEF m
  <2>2. venue'[OrderOf(l.rec)].filled \in 0 .. Target
    BY <1>1, <1>3, VenueTypes
  <2>3. Honest(m, seen, venue')
    BY <2>1, <2>2 DEF Honest
  <2> QED BY <1>4, <2>1, <2>3
<1>7. CASE Goto(p, Ended(p))
  BY <1>4, <1>7, Returned, NothingHeld
<1>8. ASSUME NEW out, Goto(p, [l EXCEPT !.pc = "retried", !.out = out]) PROVE DInv'
  <2>1. [l EXCEPT !.pc = "retried", !.out = out].pc = "retried"
    BY <1>1 DEF Locals
  <2> QED BY <1>4, <1>8, <2>1, NothingHeld
<1> QED BY <1>5, <1>6, <1>7, <1>8 DEF CancelOrder, RetryCancel, o

(* requestCancel, after the confirmation *)
LEMMA ConfirmHonest ==
  ASSUME Trusted, NEW p \in Pollers, ConfirmCancel(p) \/ AfterReport(p) PROVE DInv'
<1> DEFINE l == proc[p]
           r == l.rec
           fills == WithFills(r.client, l.got)
<1>1. l.pc \in {"confirm", "confirmed"} /\ l \in Locals /\ r \in Rows /\ r.client \in Orders
      /\ r.state \notin Terminal
  BY OrdersHeld, OpenRow DEF ConfirmCancel, AfterReport, Trusted
<1>2. CASE Transition(p, Cancelled(p), Ended(p))
  <2>1. Cancelled(p) \in Rows /\ Cancelled(p).state = "CANCELLED"
    BY <1>1 DEF Cancelled, Rows, States, Reasons
  <2> QED BY <1>1, <1>2, <2>1, HonestReturn
<1>3. CASE l.pc = "confirm" /\ Mutate(p, r, fills, At(p, "confirmed"))
  <2>1. l.got \in Int /\ l.got <= venue[r.client].filled
    BY <1>1, <1>3 DEF Trusted, DInv, Honest, Locals
  <2>2. fills \in SUBSET Fills /\ SeenTrue(fills, venue) /\ seen \subseteq fills
    BY <1>1, <2>1, HonestFills
  <2> HIDE DEF fills
  <2> QED BY <1>1, <1>3, <2>2, HonestGoesOn DEF Terminal
<1>4. CASE Complete(seen) /\ Done(p)
  BY <1>1, <1>4, HonestDone
<1> QED
  <2> HIDE DEF fills
  <2> QED BY <1>2, <1>3, <1>4, Zenon DEF ConfirmCancel, AfterReport, fills

(* pollCancelPending *)
LEMMA PendingHonest ==
  ASSUME Trusted, NEW p \in Pollers, PendingDone(p) \/ PendingCanceled(p) \/ PendingUnclear(p)
  PROVE  DInv'
<1>1. proc[p].pc = "decide" /\ proc[p].rec \in Rows
  BY OrdersHeld DEF Trusted, PendingDone, PendingCanceled, PendingUnclear, Deciding
<1>2. Cancelled(p) \in Rows /\ Cancelled(p).state = "CANCELLED"
  BY <1>1 DEF Cancelled, Rows, States, Reasons
<1> QED BY <1>1, <1>2, HonestDone, HonestReturn, HonestMove, HonestFail
        DEF PendingDone, PendingCanceled, PendingUnclear, Reasons

LEMMA PersistRetryHonest == ASSUME Trusted, NEW p \in Pollers, PersistRetry(p) PROVE DInv'
<1> DEFINE r == proc[p].rec
           base == IF proc[p].out = "CONFIRMED" THEN Cancelled(p) ELSE r
           n == base.cancels + 1
           new == [base EXCEPT !.cancels = n]
<1>1. proc[p].pc = "retried" /\ r \in Rows /\ r.state \notin Terminal
  BY OrdersHeld, OpenRow DEF PersistRetry, Trusted
<1>2. Cancelled(p) \in Rows /\ Cancelled(p).state = "CANCELLED"
  BY <1>1 DEF Cancelled, Rows, States, Reasons
<1>3. base \in Rows /\ base.state # "DONE"
  BY <1>1, <1>2 DEF Terminal
<1>4. Transition(p, new, Ended(p))
  BY DEF PersistRetry
<1> HIDE DEF base
<1>5. n \in Nat
  BY <1>3 DEF Rows
<1> HIDE DEF n
<1>6. new \in Rows /\ new.state = base.state
  BY <1>3, <1>5, Zenon DEF Rows
<1> HIDE DEF new
<1> QED BY <1>1, <1>3, <1>4, <1>6, HonestReturn

(* An order about to be sent is what is left, up to dust. *)
LEMMA HonestQuantity ==
  ASSUME Trusted, NEW m, m.pc = "send", m.qty = Remainder(seen)
  PROVE  Honest(m, seen, venue)
<1>1. Remainder(seen) > Target - Total(seen) - Step
  BY RemainderExact DEF Trusted, IInv
<1> QED BY <1>1 DEF Honest

(* pollCancelled, reprice, pollFallback *)
LEMMA AfterCancelHonest ==
  ASSUME Trusted, NEW p \in Pollers, AfterCancel(p) \/ Reprice(p) \/ AfterFallback(p) PROVE DInv'
<1> DEFINE l == [proc[p] EXCEPT !.kind = "reprice", !.qty = Remainder(seen)]
<1>1. proc[p].pc \in {"decide", "quote"} /\ proc[p] \in Locals
  BY OrdersHeld DEF AfterCancel, Deciding, Reprice, AfterFallback, Trusted
<1>2. ASSUME NEW m, Local(p, m), m.pc = "send", m.qty = Remainder(seen) PROVE DInv'
  BY <1>2, HonestQuantity, HonestLocal
<1>3. ASSUME NEW m, Local(p, m), m.pc = "quote" PROVE DInv'
  BY <1>3, NothingHeld, HonestLocal
<1>4. /\ [At(p, "quote") EXCEPT !.kind = "reprice"].pc = "quote"
      /\ [At(p, "send") EXCEPT !.kind = "fallback", !.qty = Remainder(seen)].pc = "send"
      /\ [At(p, "send") EXCEPT !.kind = "fallback", !.qty = Remainder(seen)].qty = Remainder(seen)
      /\ [l EXCEPT !.pc = "send"].pc = "send" /\ [l EXCEPT !.pc = "send"].qty = Remainder(seen)
      /\ [l EXCEPT !.pc = "send", !.kind = "fallback"].pc = "send"
      /\ [l EXCEPT !.pc = "send", !.kind = "fallback"].qty = Remainder(seen)
  BY <1>1 DEF Locals, At
<1>5. CASE Fail(p, "OTHER")
  BY <1>1, <1>5, HonestFail DEF Reasons
<1>6. CASE NoRemainder(seen) /\ Done(p)
  BY <1>1, <1>6, HonestDone
<1> HIDE DEF l
<1>7. CASE AfterCancel(p)
  <2> DEFINE quoting == [At(p, "quote") EXCEPT !.kind = "reprice"]
             market == [At(p, "send") EXCEPT !.kind = "fallback", !.qty = Remainder(seen)]
  <2>1. quoting.pc = "quote" /\ market.pc = "send" /\ market.qty = Remainder(seen)
    BY <1>4
  <2> HIDE DEF quoting, market
  <2>2. Local(p, quoting) \/ Local(p, market) \/ Fail(p, "OTHER") \/ (NoRemainder(seen) /\ Done(p))
    BY <1>7, Zenon DEF AfterCancel, quoting, market
  <2> QED BY <1>2, <1>3, <1>5, <1>6, <2>1, <2>2
<1>8. CASE Reprice(p)
  <2> DEFINE limit == [l EXCEPT !.pc = "send"]
             market == [l EXCEPT !.pc = "send", !.kind = "fallback"]
  <2>1. limit.pc = "send" /\ limit.qty = Remainder(seen)
        /\ market.pc = "send" /\ market.qty = Remainder(seen)
    BY <1>4
  <2> HIDE DEF limit, market
  <2>2. Local(p, limit) \/ Local(p, market) \/ Fail(p, "OTHER") \/ (NoRemainder(seen) /\ Done(p))
    BY <1>8, Zenon DEF Reprice, l, limit, market
  <2> QED BY <1>2, <1>5, <1>6, <2>1, <2>2
<1>9. CASE AfterFallback(p)
  BY <1>5, <1>6, <1>9, HonestReturns DEF AfterFallback
<1> QED BY <1>7, <1>8, <1>9

(* cancelOpen, and a crash *)
LEMMA AbortHonest ==
  ASSUME Trusted, NEW p \in Pollers, CancelOpen(p) \/ Abort(p) \/ Crash(p) PROVE DInv'
<1> DEFINE m == [Idle EXCEPT !.pc = "abort", !.rec = wf, !.polls = 4]
           new == [proc[p].rec EXCEPT !.state = "FAILED", !.reason = "OTHER"]
<1>1. m.pc = "abort" /\ Idle.pc = "idle"
  BY DEF Idle
<1> HIDE DEF m
<1>2. CASE CancelOpen(p)
  <2>1. Local(p, m)
    BY <1>2 DEF CancelOpen, m
  <2> QED BY <1>1, <2>1, NothingHeld, HonestLocal
<1>3. CASE Abort(p)
  <2>1. proc[p].pc = "abort" /\ new \in Rows /\ new.state = "FAILED"
    BY <1>3, OrdersHeld DEF Abort, Trusted, Rows, States, Reasons
  <2>2. CASE Transition(p, new, Idle)
    <3> HIDE DEF new
    <3> QED BY <1>1, <2>1, <2>2, HonestEnd
  <2>3. CASE RequestCancel(p)
    BY <2>1, <2>3, RequestHonest
  <2>4. CASE Local(p, Ended(p))
    BY <2>4, HonestReturns
  <2> QED BY <1>3, <2>2, <2>3, <2>4, Zenon DEF Abort
<1>4. CASE Crash(p)
  <2>1. Goto(p, Idle) /\ UNCHANGED <<wf, seen, venue>>
    BY <1>4 DEF Crash
  <2>2. Honest(Idle, seen, venue)
    BY <1>1, NothingHeld
  <2>3. VenueOK(venue) /\ VenueSound(venue) /\ SeenTrue(seen, venue) /\ Enough(seen, venue)
        /\ seen \in SUBSET Fills /\ Grows(venue, venue)
    BY VenueTypes DEF Trusted, IInv, DInv, Grows
  <2>4. VenueOK(venue') /\ VenueSound(venue') /\ SeenTrue(seen', venue') /\ Enough(seen', venue')
        /\ seen' \in SUBSET Fills /\ Grows(venue, venue') /\ Honest(Idle, seen', venue')
    BY <2>1, <2>2, <2>3
  <2> QED BY <2>1, <2>4, CallerMoves
<1> QED BY <1>2, <1>3, <1>4

(* The venue by itself *)
LEMMA VenueHonest == ASSUME Trusted, NEW o \in Orders, Venue(o) PROVE DInv'
<1>1. VenueOK(venue) /\ VenueOK(venue') /\ VenueSound(venue) /\ venue[o] \in VenueOrders
      /\ venue[o].filled \in 0 .. Target /\ venue[o].qty \in 0 .. Target
      /\ UNCHANGED <<wf, seen, proc>> /\ seen \in SUBSET Fills
  <2>1. IInv'
    BY VenueActs DEF Trusted
  <2> QED BY <2>1, VenueTypes
          DEF Trusted, IInv, DInv, Venue, Arrive, Drop, Fill, VenueCancel, LateReject, VenueStep
<1>2. /\ venue[o].st \in {"wire", "live"} => venue[o].filled < venue[o].qty
      /\ venue[o].filled <= venue[o].qty /\ (venue[o].st = "wire" => venue[o].filled = 0)
  BY <1>1 DEF VenueOK, VenueSound
<1>3. ASSUME Grows(venue, venue'), VenueSound(venue'), SeenTrue(seen, venue'), Enough(seen, venue')
      PROVE  DInv'
  <2>1. ASSUME NEW q \in Pollers PROVE Honest(proc[q], seen, venue')
    BY <1>1, <1>3, HonestStays DEF Trusted, DInv
  <2>2. wf.state = "DONE" => Traded(venue')
    BY <1>1, <1>3, TradedStays DEF Trusted, DInv
  <2> QED BY <1>1, <1>3, <2>1, <2>2 DEF DInv
<1> DEFINE old == venue[o]
           Allowed(x) ==
             /\ x.st \in {"live", "filled", "canceled", "rejected", "none"}
             /\ x.filled >= old.filled /\ x.filled <= x.qty
             /\ x.st = "filled" => x.filled = x.qty
             /\ x.st = "rejected" => x.filled = 0
             /\ x.st # "none" => x.qty = old.qty
             /\ x.st = "none" => x.qty = 0
<1>4. ASSUME NEW x, Allowed(x), venue' = [venue EXCEPT ![o] = x], old.st \in {"wire", "live"}
      PROVE  DInv'
  <2>1. Grows(venue, venue') /\ VenueSound(venue') /\ SeenTrue(seen, venue') /\ Enough(seen, venue')
    BY <1>1, <1>4, VenueAlters
  <2> QED BY <1>3, <2>1
<1>5. CASE Arrive(o)
  <2> DEFINE x == [old EXCEPT !.st = "live"]
  <2>1. x.st = "live" /\ x.qty = old.qty /\ x.filled = old.filled
    BY <1>1 DEF VenueOrders
  <2>2. venue' = [venue EXCEPT ![o] = x] /\ old.st = "wire"
    BY <1>5 DEF Arrive, VenueStep
  <2>3. Allowed(x)
    <3> HIDE DEF x
    <3> QED BY <1>1, <1>2, <2>1, <2>2
  <2> QED BY <1>4, <2>2, <2>3
<1>6. CASE Drop(o)
  <2> DEFINE x == [old EXCEPT !.st = "none", !.qty = 0]
  <2>1. x.st = "none" /\ x.qty = 0 /\ x.filled = old.filled
    BY <1>1 DEF VenueOrders
  <2>2. venue' = [venue EXCEPT ![o] = x] /\ old.st = "wire" /\ old.filled = 0 /\ 0 \in 0 .. Target
    BY <1>1, <1>2, <1>6 DEF Drop, VenueStep
  <2>3. Allowed(x)
    <3> HIDE DEF x
    <3> QED BY <1>1, <2>1, <2>2
  <2> QED BY <1>4, <2>2, <2>3
<1>7. CASE Fill(o)
  <2> DEFINE n == old.filled + 1
             st == IF n >= old.qty THEN "filled" ELSE "live"
             x == [old EXCEPT !.filled = n, !.st = st]
  <2>1. venue' = [venue EXCEPT ![o] = x] /\ old.st = "live"
    BY <1>7 DEF Fill, VenueStep
  <2>2. n \in 0 .. Target /\ n <= old.qty /\ n >= old.filled /\ (st = "filled" => n = old.qty)
        /\ st \in {"filled", "live"}
    BY <1>1, <1>2, <2>1
  <2> HIDE DEF n, st
  <2>3. x.st = st /\ x.qty = old.qty /\ x.filled = n
    BY <1>1 DEF VenueOrders
  <2>4. Allowed(x)
    <3> HIDE DEF x
    <3> QED BY <1>1, <2>2, <2>3
  <2> QED BY <1>4, <2>1, <2>4
<1>8. CASE VenueCancel(o)
  <2> DEFINE x == [old EXCEPT !.st = "canceled"]
  <2>1. x.st = "canceled" /\ x.qty = old.qty /\ x.filled = old.filled
    BY <1>1 DEF VenueOrders
  <2>2. venue' = [venue EXCEPT ![o] = x] /\ old.st = "live"
    BY <1>8 DEF VenueCancel, VenueStep
  <2>3. Allowed(x)
    <3> HIDE DEF x
    <3> QED BY <1>1, <1>2, <2>1, <2>2
  <2> QED BY <1>4, <2>2, <2>3
<1>9. CASE LateReject(o)
  <2> DEFINE x == [old EXCEPT !.st = "rejected"]
  <2>1. x.st = "rejected" /\ x.qty = old.qty /\ x.filled = old.filled
    BY <1>1 DEF VenueOrders
  <2>2. venue' = [venue EXCEPT ![o] = x] /\ old.st = "live" /\ old.filled = 0
    BY <1>9 DEF LateReject, VenueStep
  <2>3. Allowed(x)
    <3> HIDE DEF x
    <3> QED BY <1>1, <1>2, <2>1, <2>2
  <2> QED BY <1>4, <2>2, <2>3
<1> QED BY <1>5, <1>6, <1>7, <1>8, <1>9 DEF Venue

(* Nothing was promised before there is a workflow. *)
LEMMA InitHonest == Init => DInv
<1> SUFFICES ASSUME Init PROVE DInv
  OBVIOUS
<1>1. \A o \in Orders : venue[o].st = "none" /\ venue[o].qty = 0 /\ venue[o].filled = 0
  BY DEF Init
<1>2. seen = {} /\ wf.state = "ABSENT"
  BY DEF Init, Absent
<1>3. \A q \in Pollers : Honest(proc[q], seen, venue)
  <2>1. Honest(Idle, seen, venue)
    BY NothingHeld DEF Idle
  <2> QED BY <2>1 DEF Init
<1> QED BY <1>1, <1>2, <1>3 DEF DInv, VenueSound, SeenTrue, Enough

LEMMA ControllerHonest == ASSUME Trusted, NEW p \in Pollers, Controller(p) PROVE DInv'
  BY DenyHonest, SendHonest, PersistFirstHonest, PersistRepriceHonest, PersistFallbackHonest,
     ExhaustHonest, PollHonest, ResolveHonest, ReadHonest, RecordHonest, LiveHonest, TtlHonest,
     CancelOrderHonest, ConfirmHonest, PendingHonest, PersistRetryHonest, AfterCancelHonest,
     AbortHonest DEF Controller

LEMMA StepHonest == ASSUME Trusted, [Next]_vars PROVE DInv'
<1>1. ASSUME UNCHANGED <<wf, seen, venue, proc>> PROVE DInv'
  BY <1>1 DEF Trusted, DInv
<1>2. ASSUME NEW p \in Pollers, Start(p) \/ Controller(p) \/ CancelOpen(p) \/ Crash(p)
      PROVE  DInv'
  BY <1>2, StartHonest, ControllerHonest, AbortHonest
<1>3. ASSUME NEW o \in Orders, Venue(o) PROVE DInv'
  BY <1>3, VenueHonest
<1>4. ASSUME Tick \/ UNCHANGED vars PROVE UNCHANGED <<wf, seen, venue, proc>>
  BY <1>4 DEF Tick, vars
<1> QED BY <1>1, <1>2, <1>3, <1>4 DEF Next

(* DONE is never claimed early: up to dust below one step the venue has    *)
(* traded the target, for any number of callers, crashes, answers that are *)
(* lost or late, and any budgets (pollLiveOrder, pollCancelPending,        *)
(* pollCancelled, reprice, pollFallback).                                  *)
THEOREM DoneIsFilled == Spec => []DoneMeansFilled
<1>1. Init => Trusted
  BY InitOK, InitHonest DEF Trusted, Init, AllOpen, OpenLocal, Idle
<1>2. Trusted /\ [Next]_vars => Trusted'
  BY NextOK, StepHarmless, StepHonest DEF Harmless, Trusted
<1>3. Trusted => DoneMeansFilled
  BY DEF Trusted, DInv, Traded, VenueTraded, VenueFills, DoneMeansFilled
<1> QED BY <1>1, <1>2, <1>3, PTL DEF Spec
=============================================================================
