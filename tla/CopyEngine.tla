----------------------------- MODULE CopyEngine -----------------------------
(***************************************************************************)
(* The copy engine (copy/engine.ts): leader events, delivered once or more *)
(* to one or more engines, each of which handles its events one at a time; *)
(* the table copy_order_links (copy/store.ts), the record of execution     *)
(* quality, and the simulated follower that fills on the paper ledger      *)
(* (copy/follower/simulated.ts).                                           *)
(*                                                                         *)
(* Every event asks for a notional of one. Mapping, sizing and the rest of *)
(* the policy are a free verdict beside the limit of the day.              *)
(***************************************************************************)
EXTENDS Integers, FiniteSets

CONSTANTS
  Engines,
  Events,         \* leader events of one day
  PerDay,         \* maxNotionalPerDay
  MaxDeliveries,  \* bound
  MaxCrashes,     \* bound
  Env             \* subset of {"storefail", "qualityfail"}: what may go wrong

VARIABLES
  link,        \* copy_order_links: state and follower_notional by event
  quality,     \* events with an intent in execution_quality_intents
  filled,      \* fills on the paper ledger, by event
  job,         \* the event each engine is working on, and where it is
  deliveries, crashes

vars == <<link, quality, filled, job, deliveries, crashes>>

NoLink == [state |-> "none", notional |-> 0]
Terminal == {"FILLED", "FAILED", "DIVERGED"}

(* todo: what follows a claim, the fill or the mark as failed.             *)
NoJob == [pc |-> "idle", todo |-> "fill", partial |-> FALSE]

Init ==
  /\ link = [e \in Events |-> NoLink]
  /\ quality = {}
  /\ filled = [e \in Events |-> 0]
  /\ job = [p \in Engines |-> [event |-> CHOOSE e \in Events : TRUE, at |-> NoJob]]
  /\ deliveries = 0 /\ crashes = 0

Allowed ==
  [PENDING |-> {"SENT", "FAILED", "DIVERGED"},
   SENT |-> {"PARTIAL", "FILLED", "FAILED", "DIVERGED"},
   PARTIAL |-> {"FILLED", "FAILED", "DIVERGED"}]

-----------------------------------------------------------------------------
At(p) == job[p].at.pc
Event(p) == job[p].event
Move(p, pc) == job' = [job EXCEPT ![p].at.pc = pc]
Done(p) == job' = [job EXCEPT ![p].at = NoJob]
Claim(p, todo) == job' = [job EXCEPT ![p].at.pc = "claim", ![p].at.todo = todo]

(* Mutant of Known: a link left PENDING by a crash is taken up again.      *)
KnownUnlessPending(e) == link[e].state \notin {"none", "PENDING"}

Known(e) == link[e].state # "none"

(* The event comes up in the engine's queue: a link means a duplicate. A   *)
(* read that fails ends the handler.                                       *)
Receive(p, e) ==
  /\ At(p) = "idle" /\ deliveries < MaxDeliveries
  /\ deliveries' = deliveries + 1
  /\ \/ ~ Known(e) /\ job' = [job EXCEPT ![p] = [event |-> e, at |-> [NoJob EXCEPT !.pc = "gates"]]]
     \/ (Known(e) \/ "storefail" \in Env) /\ UNCHANGED job
  /\ UNCHANGED <<link, quality, filled, crashes>>

Counted == {e \in Events : link[e].state \in {"PENDING", "SENT", "PARTIAL", "FILLED"}}
dayNotional == Cardinality({e \in Counted : link[e].notional = 1})

(* The environment is read, then every gate is asked without a pause.      *)
Gates(p) ==
  /\ At(p) = "gates"
  /\ \/ dayNotional + 1 <= PerDay /\ Claim(p, "fill")
     \/ Claim(p, "fail")
  /\ UNCHANGED <<link, quality, filled, deliveries, crashes>>

(* claim passes no notional, so the row counts as zero. *)
Created(e) == IF link[e].state = "none" THEN [link EXCEPT ![e] = [state |-> "PENDING", notional |-> 0]] ELSE link

createIntent(p) ==
  /\ At(p) = "claim"
  /\ \/ link' = Created(Event(p)) /\ Move(p, "check")
     \/ "storefail" \in Env /\ link' \in {link, Created(Event(p))} /\ Done(p)
  /\ UNCHANGED <<quality, filled, deliveries, crashes>>

(* The second read of claim. *)
Check(p) ==
  /\ At(p) = "check"
  /\ \/ link[Event(p)].state = "PENDING" /\ Move(p, job[p].at.todo)
     \/ (link[Event(p)].state # "PENDING" \/ "storefail" \in Env) /\ Done(p)
  /\ UNCHANGED <<link, quality, filled, deliveries, crashes>>

(* The intent is recorded first. One of another delivery has another time, *)
(* a conflict, and any error of the follower leads to failLink.            *)
RecordIntent(p) ==
  /\ At(p) = "fill"
  /\ \/ Event(p) \notin quality /\ quality' = quality \cup {Event(p)} /\ Move(p, "ledger")
     \/ (Event(p) \in quality \/ "qualityfail" \in Env) /\ Claim(p, "fail") /\ UNCHANGED quality
  /\ UNCHANGED <<link, filled, deliveries, crashes>>

Simulate(p) ==
  /\ At(p) = "ledger"
  /\ \/ /\ filled' = [filled EXCEPT ![Event(p)] = @ + 1]
        /\ \/ \E part \in BOOLEAN : job' = [job EXCEPT ![p].at.pc = "sent", ![p].at.partial = part]
           \/ "qualityfail" \in Env /\ Claim(p, "fail")
     \/ filled' = filled /\ Claim(p, "fail")
  /\ UNCHANGED <<link, quality, deliveries, crashes>>

(* store.transition: repeating a state, or SENT after PARTIAL, is no write. *)
Takes(e, s) ==
  \/ link[e].state = s
  \/ s = "SENT" /\ link[e].state = "PARTIAL"
  \/ link[e].state \notin Terminal /\ s \in Allowed[link[e].state]
Marked(e, s) == IF s = "SENT" /\ link[e].state = "PARTIAL" THEN link ELSE [link EXCEPT ![e].state = s]

(* A write that fails may have been committed.                             *)
Mark(p, pc, s, next, lost) ==
  LET done == IF Takes(Event(p), s) THEN {Marked(Event(p), s)} ELSE {}
  IN /\ At(p) = pc
     /\ \/ link' \in done /\ Move(p, next)
        \/ done = {} /\ link' = link /\ Move(p, lost)
        \/ "storefail" \in Env /\ link' \in {link} \cup done /\ Move(p, lost)
     /\ UNCHANGED <<quality, filled, deliveries, crashes>>

markSent(p) == Mark(p, "sent", "SENT", IF job[p].at.partial THEN "partial" ELSE "filled", "end")
markPartial(p) == Mark(p, "partial", "PARTIAL", "filled", "filled")
markFilled(p) == Mark(p, "filled", "FILLED", "end", "end")
markFailed(p) == Mark(p, "fail", "FAILED", "end", "end")
Return(p) == At(p) = "end" /\ Done(p) /\ UNCHANGED <<link, quality, filled, deliveries, crashes>>

Crash(p) ==
  /\ crashes < MaxCrashes /\ At(p) # "idle"
  /\ crashes' = crashes + 1
  /\ Done(p)
  /\ UNCHANGED <<link, quality, filled, deliveries>>

Next ==
  \E p \in Engines :
    \/ \E e \in Events : Receive(p, e)
    \/ Gates(p) \/ createIntent(p) \/ Check(p) \/ RecordIntent(p) \/ Simulate(p)
    \/ markSent(p) \/ markPartial(p) \/ markFilled(p) \/ markFailed(p) \/ Return(p)
    \/ Crash(p)

Spec == Init /\ [][Next]_vars

-----------------------------------------------------------------------------
(* Properties *)

(* Idempotence over redelivery, failing writes and restarts: an event is   *)
(* copied at most once, and a link says so: no fill behind a link that     *)
(* failed, one behind each that was sent.                                  *)
CopiedOnce ==
  \A e \in Events :
    /\ filled[e] <= 1
    /\ link[e].state = "FAILED" => filled[e] = 0
    /\ link[e].state \in {"SENT", "PARTIAL", "FILLED"} => filled[e] = 1

(* The notional copied in a day stays within maxNotionalPerDay.            *)
DayLimit == Cardinality({e \in Events : filled[e] > 0}) <= PerDay
=============================================================================
