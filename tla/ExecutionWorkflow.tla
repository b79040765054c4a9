------------------------- MODULE ExecutionWorkflow -------------------------
(***************************************************************************)
(* The execution policy controller (src/src/execution/controller.ts): one  *)
(* order worked as a post-only limit with a time to live, bounded reprices *)
(* and an optional market fallback.  The workflow row lives in a store     *)
(* with optimistic versions (store.ts); the orders live at a venue behind  *)
(* a port (ports.ts, livePorts.ts).  Several callers (HTTP requests, the   *)
(* TWAP scheduler) may run controller methods on the same row: each one is *)
(* a poller, and every await on the store or on the venue ends a step.     *)
(*                                                                         *)
(* Quantities are counted in units and every fill is one unit, so that a   *)
(* quantity is the number of its fills.  Prices, fees and texts are left   *)
(* out.                                                                    *)
(***************************************************************************)
EXTENDS Integers, FiniteSets

CONSTANTS
  Pollers,            \* the callers of start, poll and cancelOpen
  Target,             \* targetQty of the workflow
  Step,               \* quantityStep of the instrument
  MaxReprices,        \* policy.maxReprices
  MaxCancelAttempts,  \* policy.maxCancelAttempts
  FallbackAllowed,    \* policy.fallbackAllowed
  Env,                \* the faults of the environment this instance admits
  MaxCrashes          \* bound on the crashes of an instance

Faults == {"ambiguous", "lossyReads", "unclearCancel", "venueCancel",
           "lateReject", "cancelOpen"}

(* assertQtyCompliant: the target is a positive multiple of the step. *)
ASSUME QuantityAssumption ==
  /\ Target \in Nat \ {0} /\ Step \in Nat \ {0} /\ Target % Step = 0

(* The bounds parseExecutionPolicy enforces, without their upper limits. *)
ASSUME PolicyAssumption ==
  /\ MaxReprices \in Nat /\ MaxCancelAttempts \in Nat \ {0}
  /\ FallbackAllowed \in BOOLEAN

ASSUME EnvAssumption == Env \subseteq Faults /\ MaxCrashes \in Nat

-----------------------------------------------------------------------------
(* Orders are named by their client order id: limit attempts L0, L1, ...   *)
(* and the single market fallback F.                                       *)

Limits == 0 .. MaxReprices
F == MaxReprices + 1
Orders == Limits \cup {F}

States == {"NEW", "SUBMITTED", "ACK", "PARTIAL", "CANCEL_PENDING",
           "CANCELLED", "FALLBACK_SUBMITTED", "DONE", "REJECTED", "FAILED"}
Live == {"SUBMITTED", "ACK", "PARTIAL"}

ALLOWED_TRANSITIONS ==
  ({"NEW"}                \X {"SUBMITTED", "REJECTED", "FAILED"}) \cup
  ({"SUBMITTED"}          \X {"ACK", "PARTIAL", "CANCEL_PENDING", "REJECTED", "FAILED", "DONE"}) \cup
  ({"ACK"}                \X {"PARTIAL", "DONE", "CANCEL_PENDING", "FAILED"}) \cup
  ({"PARTIAL"}            \X {"DONE", "CANCEL_PENDING", "FAILED"}) \cup
  ({"CANCEL_PENDING"}     \X {"CANCELLED", "DONE", "PARTIAL", "FAILED"}) \cup
  ({"CANCELLED"}          \X {"FALLBACK_SUBMITTED", "DONE", "FAILED", "SUBMITTED"}) \cup
  ({"FALLBACK_SUBMITTED"} \X {"DONE", "FAILED"}) \cup
  ({"REJECTED"}           \X {"SUBMITTED", "FAILED"})

CanTransition(from, to) == from = to \/ <<from, to>> \in ALLOWED_TRANSITIONS

Reasons == {"OTHER", "MAKER_REJECT", "OVERFILL", "CANCEL_UNSUPPORTED",
            "CANCEL_UNRESOLVED"}

Cap == MaxReprices + 2

(* A fill is known by its order and its number: together, the fill id.     *)
Fills == Orders \X (1 .. Target)
FillsOf(o, n) == {o} \X (1 .. n)

(* A set of fills, and what computeRemainder says of it. *)
Total(f) == Cardinality(f)
Remainder(f) == ((Target - Total(f)) \div Step) * Step
Complete(f) == Total(f) >= Target       \* remainderQty <= 0 and not dust
NoRemainder(f) == Remainder(f) <= 0     \* full, or dust only

VARIABLES
  wf,       \* the row of execution_workflows
  seen,     \* execution_workflow_fills: the fills recorded
  venue,    \* the venue's orders
  elapsed,  \* which timers have run out: the ttl, the cancel confirmation
  sends,    \* history: limit submits so far, counted up to Cap
  crashes,  \* crashes so far
  proc      \* the pollers: where each one is, and its local variables

vars == <<wf, seen, venue, elapsed, sends, crashes, proc>>

(* A row.  active: activeOrderId is known; client: the attempt whose client*)
(* id is activeClientOrderId (0 until there is one); fb: fallbackOrderId   *)
(* is known; confirmed: cancelConfirmedAt is set.                          *)
Absent == [state |-> "ABSENT", version |-> 0, attempt |-> 0, reprices |-> 0,
           cancels |-> 0, active |-> FALSE, client |-> 0, fb |-> FALSE,
           confirmed |-> FALSE, reason |-> "OTHER"]

Rows == [state : States \cup {"ABSENT"}, version : Nat, attempt : Limits,
         reprices : Limits, cancels : Nat, active : BOOLEAN, client : Limits,
         fb : BOOLEAN, confirmed : BOOLEAN, reason : Reasons]

(* A poller between two calls.  kind, qty: the order about to be sent; out:*)
(* the outcome of the last call; view, got: what getOrder and getFills     *)
(* answered (got = -1: not yet); polls: polls cancelOpen still has to make.*)
Idle == [pc |-> "idle", rec |-> Absent, kind |-> "none", qty |-> 0,
         out |-> "none", view |-> "?", got |-> -1, polls |-> 0]

Views == {"?", "NULL", "OPEN", "FILLED", "CANCELED", "REJECTED"}
Outcomes == {"none", "ACK", "MAKER", "REJECT", "AMBIGUOUS", "CONFIRMED", "UNCLEAR"}
PCs == {"idle", "load", "resolve", "read", "decide", "ttl", "cancel", "confirm",
        "confirmed", "retry", "retried", "quote", "send", "persist", "exhaust",
        "abort"}

Locals == [pc : PCs, rec : Rows, kind : {"none", "first", "reprice", "fallback"},
           qty : 0 .. Target, out : Outcomes, view : Views, got : -1 .. Target,
           polls : 0 .. 4]

VenueOrders == [st : {"none", "wire", "live", "filled", "canceled", "rejected"},
                qty : 0 .. Target, filled : 0 .. Target]

Init ==
  /\ wf = Absent
  /\ seen = {}
  /\ venue = [o \in Orders |-> [st |-> "none", qty |-> 0, filled |-> 0]]
  /\ elapsed = {} /\ sends = 0 /\ crashes = 0
  /\ proc = [p \in Pollers |-> Idle]

-----------------------------------------------------------------------------
(* Steps shared by the handlers.                                           *)

Goto(p, l) == proc' = [proc EXCEPT ![p] = l]
At(p, k) == [proc[p] EXCEPT !.pc = k]

(* The handler returns; inside cancelOpen it is polled again. *)
Ended(p) == IF proc[p].polls = 0 THEN Idle
            ELSE [Idle EXCEPT !.pc = "load", !.polls = proc[p].polls - 1]

(* Entering SUBMITTED or CANCEL_PENDING starts that state's timer anew. *)
Restarted(new) == IF new.state = wf.state THEN {}
                  ELSE IF new.state = "SUBMITTED" THEN {"ttl"}
                  ELSE IF new.state = "CANCEL_PENDING" THEN {"cancel"} ELSE {}

(* Mutant of Mutate: the version the caller loaded is not compared. *)
MutateUnversioned(p, new, fills, l) ==
  /\ UNCHANGED <<venue, sends, crashes>>
  /\ IF /\ CanTransition(wf.state, new.state)
        /\ Total(fills) <= Target
     THEN LET saved == [new EXCEPT !.version = wf.version + 1] IN
          /\ wf' = saved
          /\ seen' = fills
          /\ elapsed' = elapsed \ Restarted(new)
          /\ Goto(p, IF l.pc \in {"idle", "load"} THEN l ELSE [l EXCEPT !.rec = saved])
     ELSE /\ Goto(p, Idle)
          /\ UNCHANGED <<wf, seen, elapsed>>

(* store.mutate with the record poller p loaded: a stale version, a        *)
(* forbidden edge or an overfill throws and leaves the store as it was;    *)
(* otherwise row and fills are written at once and p goes on as l, with    *)
(* the new row.                                                            *)
Mutate(p, new, fills, l) ==
  /\ UNCHANGED <<venue, sends, crashes>>
  /\ IF /\ proc[p].rec.version = wf.version
        /\ CanTransition(wf.state, new.state)
        /\ Total(fills) <= Target
     THEN LET saved == [new EXCEPT !.version = wf.version + 1] IN
          /\ wf' = saved
          /\ seen' = fills
          /\ elapsed' = elapsed \ Restarted(new)
          /\ Goto(p, IF l.pc \in {"idle", "load"} THEN l ELSE [l EXCEPT !.rec = saved])
     ELSE /\ Goto(p, Idle)
          /\ UNCHANGED <<wf, seen, elapsed>>

Transition(p, new, l) == Mutate(p, new, seen, l)

(* A step of p that touches neither the store nor the venue. *)
Local(p, l) == Goto(p, l) /\ UNCHANGED <<wf, seen, venue, elapsed, sends, crashes>>

Fail(p, why) ==
  Transition(p, [proc[p].rec EXCEPT !.state = "FAILED", !.reason = why], Ended(p))

Done(p) ==
  Transition(p, [proc[p].rec EXCEPT !.state = "DONE", !.reason = "OTHER"], Ended(p))

Known(r) == IF r.state = "FALLBACK_SUBMITTED" THEN r.fb ELSE r.active
OrderOf(r) == IF r.state = "FALLBACK_SUBMITTED" THEN F ELSE r.client

(* Mutant of Repricable: the budget check is off by one. *)
RepricableOnceMore(r) == r.reprices <= MaxReprices /\ r.reason = "MAKER_REJECT"

(* pollRejected: only a maker reject with budget left is taken up again. *)
Repricable(r) == r.reprices < MaxReprices /\ r.reason = "MAKER_REJECT"
Pollable(r) == \/ r.state \in Live \cup {"CANCEL_PENDING", "CANCELLED", "FALLBACK_SUBMITTED"}
               \/ r.state = "REJECTED" /\ Repricable(r)

-----------------------------------------------------------------------------
(* start: the row is created first; a later start with the same key finds  *)
(* it and does nothing.                                                    *)

Start(p) ==
  /\ proc[p].pc = "idle" /\ wf.state = "ABSENT"
  /\ wf' = [wf EXCEPT !.state = "NEW", !.version = 1]
  /\ Goto(p, [Idle EXCEPT !.pc = "send", !.rec = wf', !.kind = "first", !.qty = Target])
  /\ UNCHANGED <<seen, venue, elapsed, sends, crashes>>

(* Submit gates, missing quote or missing capability say no. *)
Deny(p) ==
  LET l == proc[p] r == l.rec IN
  /\ l.pc = "send"
  /\ \/ /\ l.kind = "first"
        /\ Transition(p, [r EXCEPT !.state = "REJECTED", !.reprices = MaxReprices,
                                   !.reason = "OTHER"], Ended(p))
     \/ /\ l.kind = "reprice" /\ r.state = "CANCELLED" /\ FallbackAllowed
        /\ Local(p, [l EXCEPT !.kind = "fallback"])
     \/ /\ l.kind = "reprice" /\ ~(r.state = "CANCELLED" /\ FallbackAllowed)
        /\ Fail(p, "OTHER")
     \/ l.kind = "fallback" /\ Fail(p, "OTHER")

OrderToSend(p) == CASE proc[p].kind = "first"   -> 0
                    [] proc[p].kind = "reprice" -> proc[p].rec.attempt + 1
                    [] OTHER                    -> F

(* What an order looks like once the venue has taken it: a known client id *)
(* stays the order it is.                                                  *)
Accepted(o, q) ==
  IF venue[o].st = "none" THEN [st |-> "live", qty |-> q, filled |-> 0]
  ELSE [venue[o] EXCEPT !.st = IF @ = "wire" THEN "live" ELSE @]

FilledAtOnce(q) == [st |-> "filled", qty |-> q, filled |-> q]

(* placeLimitOrder / placeMarketOrder, after the gates said yes. *)
Send(p) ==
  LET l == proc[p] o == OrderToSend(p) IN
  /\ l.pc = "send"
  /\ l.kind = "fallback" =>
       FallbackAllowed /\ l.rec.confirmed /\ l.rec.state = "CANCELLED"
  /\ sends' = IF l.kind = "fallback" \/ sends = Cap THEN sends ELSE sends + 1
  /\ \/ \E v \in {Accepted(o, l.qty)} \cup
                 (IF o = F /\ venue[F].st = "none" THEN {FilledAtOnce(l.qty)} ELSE {}) :
          /\ venue' = [venue EXCEPT ![o] = v]
          /\ \E n \in {0, v.filled} :
               Goto(p, [l EXCEPT !.pc = "persist", !.out = "ACK", !.got = n])
     \/ /\ UNCHANGED venue
        /\ \E r \in {"MAKER", "REJECT"} :
             /\ r = "MAKER" => o # F /\ venue[o].st = "none"
             /\ Goto(p, [l EXCEPT !.pc = "persist", !.out = r])
     \/ /\ "ambiguous" \in Env
        /\ \E v \in {Accepted(o, l.qty), venue[o]} \cup
                    (IF venue[o].st = "none"
                     THEN {[st |-> "wire", qty |-> l.qty, filled |-> 0]} ELSE {}) :
             venue' = [venue EXCEPT ![o] = v]
        /\ Goto(p, [l EXCEPT !.pc = "persist", !.out = "AMBIGUOUS"])
  /\ UNCHANGED <<wf, seen, elapsed, crashes>>

(* Mutant of WithFills: fills are added without regard to their ids. *)
WithFillsTwice(o, n) ==
  LET k == Cardinality({f \in seen : f[1] = o}) IN seen \cup ({o} \X (k + 1 .. k + n))

(* Fills that came with an acknowledgement or a cancel report. *)
WithFills(o, n) == seen \cup FillsOf(o, n)

(* Mutant of PersistFirst: a timeout is taken for a reject. *)
PersistFirstTimeoutRejected(p) ==
  LET l == proc[p] r == l.rec IN
  /\ l.pc = "persist" /\ l.kind = "first"
  /\ \/ /\ l.out = "ACK"
        /\ Mutate(p, [r EXCEPT !.state = "SUBMITTED", !.client = 0, !.active = TRUE],
                  WithFills(0, l.got), [Idle EXCEPT !.pc = "load"])
     \/ /\ l.out # "ACK"
        /\ Transition(p, [r EXCEPT !.state = "REJECTED"], At(p, "exhaust"))

(* Only after the venue answered is the submit written down. *)
PersistFirst(p) ==
  LET l == proc[p] r == l.rec
      submitted == [r EXCEPT !.state = "SUBMITTED", !.client = 0, !.reason = "OTHER"] IN
  /\ l.pc = "persist" /\ l.kind = "first"
  /\ \/ /\ l.out = "ACK"
        /\ Mutate(p, [submitted EXCEPT !.active = TRUE], WithFills(0, l.got),
                  [Idle EXCEPT !.pc = "load"])
     \/ l.out = "AMBIGUOUS" /\ Transition(p, [submitted EXCEPT !.active = FALSE], Ended(p))
     \/ /\ l.out \in {"MAKER", "REJECT"}
        /\ Transition(p, [r EXCEPT !.state = "REJECTED",
                                   !.reason = IF l.out = "MAKER" THEN "MAKER_REJECT" ELSE "OTHER"],
                      At(p, IF l.out = "MAKER" /\ r.reprices < MaxReprices
                            THEN "quote" ELSE "exhaust"))

(* Mutant of PersistReprice: a timeout is taken for an order not sent. *)
PersistRepriceForgotten(p) ==
  LET l == proc[p] r == l.rec n == r.attempt + 1 IN
  /\ l.pc = "persist" /\ l.kind = "reprice"
  /\ \/ /\ l.out = "ACK"
        /\ Mutate(p, [r EXCEPT !.state = "SUBMITTED", !.attempt = n, !.client = n,
                               !.reprices = @ + 1, !.active = TRUE, !.cancels = 0,
                               !.confirmed = FALSE], WithFills(n, l.got), Ended(p))
     \/ l.out # "ACK" /\ Local(p, Ended(p))

PersistReprice(p) ==
  LET l == proc[p] r == l.rec n == r.attempt + 1
      submitted == [r EXCEPT !.state = "SUBMITTED", !.attempt = n, !.client = n,
                             !.reprices = @ + 1, !.reason = "OTHER"] IN
  /\ l.pc = "persist" /\ l.kind = "reprice"
  /\ \/ /\ l.out = "ACK"
        /\ Mutate(p, [submitted EXCEPT !.active = TRUE, !.cancels = 0, !.confirmed = FALSE],
                  WithFills(n, l.got), Ended(p))
     \/ l.out = "AMBIGUOUS" /\ Transition(p, [submitted EXCEPT !.active = FALSE], Ended(p))
     \/ /\ l.out \in {"MAKER", "REJECT"}
        /\ Transition(p, [r EXCEPT !.state = "REJECTED", !.attempt = n, !.reprices = @ + 1,
                                   !.reason = IF l.out = "MAKER" THEN "MAKER_REJECT" ELSE "OTHER"],
                      At(p, IF l.out = "MAKER" /\ r.reprices + 1 < MaxReprices
                            THEN "quote" ELSE "exhaust"))

PersistFallback(p) ==
  LET l == proc[p]
      submitted == [l.rec EXCEPT !.state = "FALLBACK_SUBMITTED", !.reason = "OTHER"] IN
  /\ l.pc = "persist" /\ l.kind = "fallback"
  /\ \/ /\ l.out = "ACK"
        /\ Mutate(p, [submitted EXCEPT !.fb = TRUE], WithFills(F, l.got),
                  [l EXCEPT !.pc = "read", !.view = "?", !.got = -1])
     \/ l.out = "AMBIGUOUS" /\ Transition(p, [submitted EXCEPT !.fb = FALSE], Ended(p))
     \/ l.out = "REJECT" /\ Fail(p, "OTHER")

(* A reject that is final marks the budget as used up. *)
Exhaust(p) ==
  /\ proc[p].pc = "exhaust"
  /\ Transition(p, [proc[p].rec EXCEPT !.reprices = MaxReprices], Ended(p))

-----------------------------------------------------------------------------
(* poll: load the row, reconcile with the venue, then act.                 *)

Poll(p) ==
  LET l == [Idle EXCEPT !.rec = wf, !.polls = proc[p].polls] IN
  /\ \/ proc[p].pc = "idle" /\ Pollable(wf)
     \/ proc[p].pc = "load"
  /\ \/ ~Pollable(wf) /\ Local(p, Ended(p))
     \/ /\ Pollable(wf) /\ wf.state = "REJECTED"
        /\ Local(p, [l EXCEPT !.pc = "quote", !.kind = "reprice"])
     \/ /\ Pollable(wf) /\ wf.state # "REJECTED"
        /\ Local(p, [l EXCEPT !.pc = IF Known(wf) THEN "read" ELSE "resolve"])

(* reconcile, first part: findOrderByClientId.  Nothing found: no action. *)
Resolve(p) ==
  LET r == proc[p].rec o == OrderOf(r) IN
  /\ proc[p].pc = "resolve"
  /\ \/ /\ venue[o].st \in {"live", "filled", "canceled", "rejected"}
        /\ Transition(p, IF o = F THEN [r EXCEPT !.fb = TRUE] ELSE [r EXCEPT !.active = TRUE],
                      At(p, "read"))
     \/ /\ venue[o].st \in {"none", "wire"} \/ "lossyReads" \in Env
        /\ Local(p, Ended(p))

VenueStatus(o) == CASE venue[o].st = "live"     -> "OPEN"
                    [] venue[o].st = "filled"   -> "FILLED"
                    [] venue[o].st = "canceled" -> "CANCELED"
                    [] venue[o].st = "rejected" -> "REJECTED"
                    [] OTHER                    -> "NULL"

(* reconcile, second part: getOrder and getFills run concurrently, and the *)
(* live ports answer null and [] when the request fails.                   *)
ReadOrder(p) ==
  /\ proc[p].pc = "read" /\ proc[p].view = "?"
  /\ \E v \in {VenueStatus(OrderOf(proc[p].rec))} \cup
              (IF "lossyReads" \in Env THEN {"NULL"} ELSE {}) :
       Local(p, [proc[p] EXCEPT !.view = v])

ReadFills(p) ==
  /\ proc[p].pc = "read" /\ proc[p].got = -1
  /\ \E n \in {venue[OrderOf(proc[p].rec)].filled} \cup
              (IF "lossyReads" \in Env THEN {0} ELSE {}) :
       Local(p, [proc[p] EXCEPT !.got = n])

(* Mutant of RecordFills: no reconciliation once the cancel is confirmed. *)
RecordFillsUnlessCancelled(p) ==
  LET l == proc[p] fills == WithFills(OrderOf(l.rec), l.got) IN
  /\ l.pc = "read" /\ l.view # "?" /\ l.got # -1
  /\ IF fills = seen \/ l.rec.state = "CANCELLED" THEN Local(p, At(p, "decide"))
     ELSE Mutate(p, l.rec, fills, At(p, "decide"))

(* reconcile, third part: fresh fills are written before anything is done. *)
RecordFills(p) ==
  LET l == proc[p] o == OrderOf(l.rec) fills == WithFills(o, l.got) IN
  /\ l.pc = "read" /\ l.view # "?" /\ l.got # -1
  /\ \/ fills = seen /\ Local(p, At(p, "decide"))
     \/ /\ fills # seen /\ Total(fills) <= Target
        /\ Mutate(p, l.rec, fills, At(p, "decide"))
     \/ fills # seen /\ Total(fills) > Target /\ Fail(p, "OVERFILL")

Deciding(p, S) == proc[p].pc = "decide" /\ proc[p].rec.state \in S

(* pollLiveOrder *)
LiveDone(p) ==
  /\ Deciding(p, Live)
  /\ Complete(seen) \/ proc[p].view = "FILLED"
  /\ Done(p)

LiveCanceled(p) ==
  /\ Deciding(p, Live) /\ ~Complete(seen) /\ proc[p].view = "CANCELED"
  /\ Transition(p, [proc[p].rec EXCEPT !.state = "CANCELLED", !.confirmed = TRUE,
                                       !.reason = "OTHER"], Ended(p))

LiveRejected(p) ==
  /\ Deciding(p, Live) /\ ~Complete(seen) /\ proc[p].view = "REJECTED"
  /\ Transition(p, [proc[p].rec EXCEPT !.state = "REJECTED", !.reason = "OTHER"],
                At(p, "exhaust"))

LiveProgress(p) ==
  LET r == proc[p].rec
      ack == r.state = "SUBMITTED" /\ proc[p].view = "OPEN"
      partial == r.state = "ACK" /\ Total(seen) > 0 IN
  /\ Deciding(p, Live) /\ ~Complete(seen) /\ proc[p].view \in {"OPEN", "NULL"}
  /\ \/ /\ ack \/ partial
        /\ Transition(p, [r EXCEPT !.state = IF Total(seen) > 0 THEN "PARTIAL" ELSE "ACK",
                                   !.reason = "OTHER"], At(p, "ttl"))
     \/ ~ack /\ ~partial /\ Local(p, At(p, "ttl"))

(* requestCancel: CANCEL_PENDING is written before the venue is asked. *)
RequestCancel(p) ==
  LET r == proc[p].rec IN
  IF r.active
  THEN Transition(p, [r EXCEPT !.state = "CANCEL_PENDING", !.cancels = @ + 1,
                               !.reason = "OTHER"], At(p, "cancel"))
  ELSE Fail(p, "CANCEL_UNSUPPORTED")

(* Mutant of CheckTtl: an order that was never acknowledged does not age. *)
CheckTtlAfterAck(p) ==
  /\ proc[p].pc = "ttl"
  /\ IF "ttl" \in elapsed /\ proc[p].rec.state # "SUBMITTED"
     THEN RequestCancel(p) ELSE Local(p, Ended(p))

CheckTtl(p) ==
  /\ proc[p].pc = "ttl"
  /\ IF "ttl" \in elapsed THEN RequestCancel(p) ELSE Local(p, Ended(p))

(* cancelOrder of a port: the cancel is confirmed, too late, or unclear. *)
CancelConfirmed(o) ==
  /\ venue[o].st \in {"live", "canceled"}
  /\ venue' = [venue EXCEPT ![o].st = "canceled"]

CancelUnclear(o) ==
  \/ venue[o].st \notin {"live", "canceled"} /\ UNCHANGED venue
  \/ "unclearCancel" \in Env /\ (UNCHANGED venue \/ CancelConfirmed(o))

CancelOrder(p) ==
  LET l == proc[p] o == l.rec.client IN
  /\ l.pc = "cancel"
  /\ \/ /\ CancelConfirmed(o)
        /\ \E n \in {venue[o].filled} \cup (IF "lossyReads" \in Env THEN {0} ELSE {}) :
             Goto(p, [l EXCEPT !.pc = "confirm", !.got = n])
     \/ /\ venue[o].st = "filled" /\ UNCHANGED venue
        /\ Goto(p, [l EXCEPT !.pc = "read", !.view = "?", !.got = -1])
     \/ CancelUnclear(o) /\ Goto(p, Ended(p))
  /\ UNCHANGED <<wf, seen, elapsed, sends, crashes>>

Cancelled(p) == [proc[p].rec EXCEPT !.state = "CANCELLED", !.confirmed = TRUE,
                                    !.reason = "OTHER"]

(* Fills of the cancel report are written before the confirmation. *)
ConfirmCancel(p) ==
  LET l == proc[p] fills == WithFills(l.rec.client, l.got) IN
  /\ l.pc = "confirm"
  /\ IF fills # seen THEN Mutate(p, l.rec, fills, At(p, "confirmed"))
     ELSE Transition(p, Cancelled(p), Ended(p))

AfterReport(p) ==
  /\ proc[p].pc = "confirmed"
  /\ IF Complete(seen) THEN Done(p) ELSE Transition(p, Cancelled(p), Ended(p))

(* pollCancelPending *)
PendingDone(p) ==
  /\ Deciding(p, {"CANCEL_PENDING"})
  /\ Complete(seen) \/ proc[p].view = "FILLED"
  /\ Done(p)

PendingCanceled(p) ==
  /\ Deciding(p, {"CANCEL_PENDING"}) /\ ~Complete(seen) /\ proc[p].view = "CANCELED"
  /\ Transition(p, Cancelled(p), Ended(p))

(* Mutants of PendingUnclear: an exhausted cancel counts as confirmed; an  *)
(* exhausted cancel waits for a definite answer.                           *)
PendingAssumedCanceled(p) ==
  /\ Deciding(p, {"CANCEL_PENDING"}) /\ ~Complete(seen)
  /\ proc[p].view \notin {"FILLED", "CANCELED"}
  /\ IF proc[p].rec.cancels < MaxCancelAttempts /\ "cancel" \notin elapsed
     THEN Local(p, At(p, "retry"))
     ELSE Transition(p, Cancelled(p), Ended(p))

PendingWaitsForAnswer(p) ==
  /\ Deciding(p, {"CANCEL_PENDING"}) /\ ~Complete(seen)
  /\ proc[p].view \notin {"FILLED", "CANCELED"}
  /\ IF proc[p].rec.cancels < MaxCancelAttempts /\ "cancel" \notin elapsed
     THEN Local(p, At(p, "retry"))
     ELSE IF proc[p].view = "OPEN" THEN Fail(p, "CANCEL_UNRESOLVED") ELSE Local(p, Ended(p))

PendingUnclear(p) ==
  /\ Deciding(p, {"CANCEL_PENDING"}) /\ ~Complete(seen)
  /\ proc[p].view \notin {"FILLED", "CANCELED"}
  /\ IF proc[p].rec.cancels < MaxCancelAttempts /\ "cancel" \notin elapsed
     THEN Local(p, At(p, "retry"))
     ELSE Fail(p, "CANCEL_UNRESOLVED")

RetryCancel(p) ==
  LET l == proc[p] o == l.rec.client IN
  /\ l.pc = "retry"
  /\ \/ CancelConfirmed(o) /\ Goto(p, [l EXCEPT !.pc = "retried", !.out = "CONFIRMED"])
     \/ CancelUnclear(o) /\ Goto(p, [l EXCEPT !.pc = "retried", !.out = "UNCLEAR"])
  /\ UNCHANGED <<wf, seen, elapsed, sends, crashes>>

PersistRetry(p) ==
  LET l == proc[p] IN
  /\ l.pc = "retried"
  /\ Transition(p, [(IF l.out = "CONFIRMED" THEN Cancelled(p) ELSE l.rec)
                      EXCEPT !.cancels = @ + 1], Ended(p))

(* pollCancelled: the reprice budget first, then the fallback. *)
AfterCancel(p) ==
  LET r == proc[p].rec IN
  /\ Deciding(p, {"CANCELLED"})
  /\ \/ NoRemainder(seen) /\ Done(p)
     \/ /\ ~NoRemainder(seen) /\ r.reprices < MaxReprices
        /\ Local(p, [At(p, "quote") EXCEPT !.kind = "reprice"])
     \/ /\ ~NoRemainder(seen) /\ r.reprices >= MaxReprices
        /\ IF FallbackAllowed
           THEN Local(p, [At(p, "send") EXCEPT !.kind = "fallback", !.qty = Remainder(seen)])
           ELSE Fail(p, "OTHER")

(* reprice, up to the gates: quote, then the open remainder. *)
Reprice(p) ==
  LET l == [proc[p] EXCEPT !.kind = "reprice", !.qty = Remainder(seen)] IN
  /\ l.pc = "quote"
  /\ \/ ~NoRemainder(seen) /\ Local(p, [l EXCEPT !.pc = "send"])
     \/ NoRemainder(seen) /\ Done(p)
     \/ IF l.rec.state = "CANCELLED" /\ FallbackAllowed /\ ~NoRemainder(seen)
        THEN Local(p, [l EXCEPT !.pc = "send", !.kind = "fallback"])
        ELSE Fail(p, "OTHER")

(* pollFallback: a market order that is not full yet stays as it is. *)
AfterFallback(p) ==
  /\ Deciding(p, {"FALLBACK_SUBMITTED"})
  /\ \/ proc[p].view \in {"REJECTED", "CANCELED"} /\ Fail(p, "OTHER")
     \/ /\ proc[p].view \notin {"REJECTED", "CANCELED"}
        /\ IF NoRemainder(seen) THEN Done(p) ELSE Local(p, Ended(p))

(* cancelOpen: kill switch, deadline or parent cancel from outside. *)
CancelOpen(p) ==
  /\ "cancelOpen" \in Env
  /\ proc[p].pc = "idle" /\ wf.state \notin {"ABSENT", "DONE", "FAILED"}
  /\ ~(wf.state = "REJECTED" /\ wf.reprices >= MaxReprices)
  /\ Local(p, [Idle EXCEPT !.pc = "abort", !.rec = wf, !.polls = 4])

Abort(p) ==
  LET r == proc[p].rec IN
  /\ proc[p].pc = "abort"
  /\ \/ /\ r.state = "NEW"
        /\ Transition(p, [r EXCEPT !.state = "FAILED", !.reason = "OTHER"], Idle)
     \/ r.state \in Live /\ RequestCancel(p)
     \/ r.state \notin Live \cup {"NEW"} /\ Local(p, Ended(p))

-----------------------------------------------------------------------------
(* The environment.                                                        *)

(* The process dies, or its request is aborted, between two awaits. *)
Crash(p) ==
  /\ proc[p].pc # "idle" /\ crashes < MaxCrashes
  /\ crashes' = crashes + 1
  /\ Goto(p, Idle)
  /\ UNCHANGED <<wf, seen, venue, elapsed, sends>>

VenueStep(o, v) ==
  /\ venue' = [venue EXCEPT ![o] = v]
  /\ UNCHANGED <<wf, seen, elapsed, sends, crashes, proc>>

(* A request whose answer timed out arrives late, or never. *)
Arrive(o) == venue[o].st = "wire" /\ VenueStep(o, [venue[o] EXCEPT !.st = "live"])
Drop(o) == venue[o].st = "wire" /\ VenueStep(o, [venue[o] EXCEPT !.st = "none", !.qty = 0])

Fill(o) ==
  LET n == venue[o].filled + 1 IN
  /\ venue[o].st = "live"
  /\ VenueStep(o, [venue[o] EXCEPT !.filled = n,
                                   !.st = IF n >= venue[o].qty THEN "filled" ELSE "live"])

VenueCancel(o) ==
  /\ "venueCancel" \in Env /\ venue[o].st = "live"
  /\ VenueStep(o, [venue[o] EXCEPT !.st = "canceled"])

LateReject(o) ==
  /\ "lateReject" \in Env /\ venue[o].st = "live" /\ venue[o].filled = 0
  /\ VenueStep(o, [venue[o] EXCEPT !.st = "rejected"])

(* A timer of the state the row is in runs out. *)
Tick ==
  LET timer == IF wf.state \in Live THEN "ttl" ELSE "cancel" IN
  /\ wf.state \in Live \cup {"CANCEL_PENDING"} /\ timer \notin elapsed
  /\ elapsed' = elapsed \cup {timer}
  /\ UNCHANGED <<wf, seen, venue, sends, crashes, proc>>

(* The steps the code takes once somebody calls it. *)
Controller(p) ==
  \/ Deny(p) \/ Send(p) \/ PersistFirst(p) \/ PersistReprice(p)
  \/ PersistFallback(p) \/ Exhaust(p) \/ Poll(p) \/ Resolve(p) \/ ReadOrder(p)
  \/ ReadFills(p) \/ RecordFills(p) \/ LiveDone(p) \/ LiveCanceled(p)
  \/ LiveRejected(p) \/ LiveProgress(p) \/ CheckTtl(p) \/ CancelOrder(p)
  \/ ConfirmCancel(p) \/ AfterReport(p) \/ PendingDone(p) \/ PendingCanceled(p)
  \/ PendingUnclear(p) \/ RetryCancel(p) \/ PersistRetry(p) \/ AfterCancel(p)
  \/ Reprice(p) \/ AfterFallback(p) \/ Abort(p)

Venue(o) == Arrive(o) \/ Drop(o) \/ Fill(o) \/ VenueCancel(o) \/ LateReject(o)

Next ==
  \/ \E p \in Pollers : Start(p) \/ Controller(p) \/ CancelOpen(p) \/ Crash(p)
  \/ \E o \in Orders : Venue(o)
  \/ Tick

Spec == Init /\ [][Next]_vars

(* Time passes, and somebody keeps calling: an operator or the scheduler   *)
(* polls every open workflow, and a handler that was called goes on.       *)
Fairness == WF_vars(Tick) /\ \A p \in Pollers : WF_vars(Controller(p))
FairSpec == Spec /\ Fairness

-----------------------------------------------------------------------------
(* Properties.                                                             *)

(* Every variable stays in its domain; one type invariant for the module.  *)
TypeOK ==
  /\ wf \in Rows
  /\ seen \subseteq Fills
  /\ venue \in [Orders -> VenueOrders]
  /\ elapsed \subseteq {"ttl", "cancel"}
  /\ sends \in 0 .. Cap
  /\ crashes \in 0 .. MaxCrashes
  /\ proc \in [Pollers -> Locals]

(* Bestaetigter Cancel: whatever the pollers, crashes and lost answers, the*)
(* row is CANCELLED or in fallback only when the order it names can no     *)
(* longer trade (requestCancel, pollCancelPending and the version check).  *)
CancelSound ==
  wf.state \in {"CANCELLED", "FALLBACK_SUBMITTED"} =>
    venue[wf.client].st \in {"canceled", "filled"}

(* What may still trade, or has traded, on behalf of the workflow. *)
AtRisk(o) == venue[o].st \in {"wire", "live"}
Claims == UNION {FillsOf(o, IF AtRisk(o) THEN venue[o].qty ELSE venue[o].filled) : o \in Orders}

(* Repricing and the fallback never put more at the venue than the target: *)
(* the order being replaced is dead and its fills are counted before the   *)
(* next order is sent (pollCancelled, reprice, fallback).                  *)
NoDoubleExposure == Total(Claims) <= Target

(* The market order goes out last: once the venue has it, no limit order   *)
(* of the workflow can trade any more (evaluateFallbackGates).             *)
MarketLast == venue[F].st # "none" => \A o \in Limits : ~AtRisk(o)

(* An order that may still trade is one the row points to, or one a poller *)
(* has just sent and is about to write down; it is left behind only by a   *)
(* failure whose reason says that its cancel is open.                      *)
Tracked(o) ==
  \/ wf.state \in Live \cup {"CANCEL_PENDING"} /\ o = wf.client
  \/ wf.state = "FALLBACK_SUBMITTED" /\ o = F
  \/ \E p \in Pollers : proc[p].pc = "persist" /\ OrderToSend(p) = o
  \/ wf.state = "FAILED" /\ wf.reason \in {"CANCEL_UNRESOLVED", "CANCEL_UNSUPPORTED"}
NoOrphan == \A o \in Orders : AtRisk(o) => Tracked(o)

(* DONE is never claimed early: up to dust below one step the venue has    *)
(* traded the target, whatever answers were lost (pollLiveOrder and the    *)
(* quantities sent by reprice and fallback).                               *)
VenueFills == UNION {FillsOf(o, venue[o].filled) : o \in Orders}
DoneMeansFilled == wf.state = "DONE" => Total(VenueFills) > Target - Step

(* No step of any caller, however stale the row it loaded, touches a row   *)
(* that is DONE or FAILED, or forgets a recorded fill (store.mutate).      *)
TerminalIsFinal ==
  [][/\ wf.state \in {"DONE", "FAILED"} => UNCHANGED <<wf, seen>>
     /\ seen \subseteq seen']_vars

(* Cancel-Phase: under fair polling every cancel phase ends, even when the *)
(* venue never gives a clear answer (maxCancelAttempts, timeout).          *)
CancelPhaseEnds == wf.state = "CANCEL_PENDING" ~> wf.state # "CANCEL_PENDING"

(* A limit order without reprice budget is brought to an end: filled,      *)
(* failed, rejected or handed over to the market order. The one exception  *)
(* is a submit without an answer whose order is never found.               *)
CameToEnd == wf.state \in {"DONE", "FAILED", "REJECTED", "FALLBACK_SUBMITTED"}
Unanswered == wf.state = "SUBMITTED" /\ ~wf.active
WorkflowSettles == wf.state \in Live ~> (CameToEnd \/ []Unanswered)

(* controller.ts:756: "TTL-Prüfung (ab submittedAt; SUBMITTED ohne ACK     *)
(* altert gleich mit)": no row stays SUBMITTED for ever.                   *)
SubmittedAges == wf.state = "SUBMITTED" ~> wf.state # "SUBMITTED"

(* controller.ts:24: limit submits are at most 1 + maxReprices.            *)
LimitSubmitsBounded == sends <= 1 + MaxReprices

(* controller.ts pollLiveOrder: "Externer Cancel (nicht vom Controller):   *)
(* als bestaetigt uebernehmen" - a cancel made at the venue is taken over. *)
ExternalCancelAdopted ==
  (wf.state \in Live /\ wf.active /\ venue[wf.client].st = "canceled")
     ~> (wf.state \notin Live)

(* controller.ts pollLiveOrder: "Venue meldet voll, Fills decken das Ziel  *)
(* (Rundung)": a row that is DONE has recorded its fills.                  *)
DoneIsRecorded == wf.state = "DONE" => NoRemainder(seen)

(* docs/POST_ONLY_FALLBACK.md: recover "reconstructs" an open workflow: an *)
(* order the venue has taken is eventually known to the row, or gone.      *)
SubmitRecovered == (wf.state = "NEW" /\ venue[0].st = "live") ~>
                     (wf.state # "NEW" \/ venue[0].st # "live")
=============================================================================
