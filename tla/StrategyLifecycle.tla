------------------------- MODULE StrategyLifecycle -------------------------
(***************************************************************************)
(* One strategy version between draft and live (strategyLifecycle):        *)
(* requestTransition as one transaction under the row lock, the evidence   *)
(* it demands, the cooldown, and checkAndDegrade, which reads the row      *)
(* before it asks for a transition.                                        *)
(*                                                                         *)
(* Time is counted in ticks. A request whose key was used before is a      *)
(* request that changes nothing. Roles only say who may ask.               *)
(***************************************************************************)
EXTENDS Integers, FiniteSets

CONSTANTS
  MaxEvidence,  \* bound: pieces of evidence recorded
  MaxTime,      \* bound: ticks
  MaxAge,       \* backtestEvidenceMaxAgeMs, paperEvidenceMaxAgeMs
  Cooldown      \* recoveryCooldownMs

VARIABLES
  row,       \* state, cooldownUntil and lastEvidenceId
  evidence,  \* recorded evidence
  drift,     \* a drift check under way: the state it read and its action
  now,
  hist       \* history: the last degradation, and the last move

vars == <<row, evidence, drift, now, hist>>

None == "none"
NoEvidence == [kind |-> None, good |-> FALSE, at |-> -1]
Kinds == {"BACKTEST_RUN", "PAPER_WINDOW", "DRIFT", "RECOVERY"}
Live == {"LIVE_LIMITED", "LIVE"}
Promoting == {"BACKTEST_PASSED", "PAPER"} \cup Live

-----------------------------------------------------------------------------
(* states.ts LIFECYCLE_TRANSITIONS: the evidence an edge accepts ({} where *)
(* it needs none), whether it sets the cooldown, recovers, and whether a   *)
(* drift check may trigger it.                                             *)
Edge(from, to, kinds, cools, recovers, drifts) ==
  [from |-> from, to |-> to, kinds |-> kinds, cools |-> cools, recovers |-> recovers, drifts |-> drifts]
Plain(from, to, kinds) == Edge(from, to, kinds, FALSE, FALSE, FALSE)
Down(from, to) == Edge(from, to, {}, TRUE, FALSE, TRUE)
Recovery(from, to) == Edge(from, to, {"RECOVERY", "DRIFT", "PAPER_WINDOW"}, FALSE, TRUE, FALSE)

Edges ==
  {Plain("DRAFT", "BACKTEST_PENDING", {}),
   Plain("BACKTEST_PENDING", "BACKTEST_PASSED", {"BACKTEST_RUN"}),
   Plain("BACKTEST_PASSED", "PAPER", {"BACKTEST_RUN"}),
   Edge("PAPER", "LIVE_LIMITED", {"BACKTEST_RUN", "PAPER_WINDOW"}, FALSE, FALSE, TRUE),
   Plain("LIVE_LIMITED", "LIVE", {"PAPER_WINDOW", "DRIFT"}),
   Plain("LIVE_LIMITED", "PAPER", {}), Plain("DEGRADED", "PAPER", {}),
   Edge("PAPER", "REJECTED", {}, FALSE, FALSE, TRUE),
   Plain("REJECTED", "DRAFT", {})}
  \cup {Plain(s, "REJECTED", {}) : s \in {"BACKTEST_PENDING", "BACKTEST_PASSED", "DEGRADED", "PAUSED"}}
  \cup {Down(s, "DEGRADED") : s \in {"PAPER", "LIVE_LIMITED", "LIVE"}}
  \cup {Down(s, "PAUSED") : s \in {"PAPER", "LIVE_LIMITED", "LIVE", "DEGRADED"}}
  \cup {Down("LIVE", "LIVE_LIMITED")}
  \cup {Recovery("DEGRADED", "LIVE_LIMITED"), Recovery("PAUSED", "LIVE_LIMITED"), Recovery("PAUSED", "PAPER")}

Init ==
  /\ row = [state |-> "DRAFT", cool |-> 0, ev |-> NoEvidence]
  /\ evidence = {}
  /\ drift = [read |-> None, to |-> None]
  /\ now = 0
  /\ hist = [fell |-> -Cooldown, from |-> None, by |-> None]

-----------------------------------------------------------------------------
(* evaluatePromotionGate: the freshest evidence of every kind the target   *)
(* asks for is fresh and fulfils the policy.                               *)
GateKinds(to) ==
  CASE to \in {"BACKTEST_PASSED", "PAPER"} -> {"BACKTEST_RUN"}
    [] to = "LIVE_LIMITED" -> {"BACKTEST_RUN", "PAPER_WINDOW"}
    [] to = "LIVE" -> {"PAPER_WINDOW", "DRIFT"}

Young(x) == now - x.at <= MaxAge
Freshest(kind) == {x \in evidence : x.kind = kind /\ \A y \in evidence : y.kind = kind => y.at <= x.at}
evaluatePromotionGate(to) == \A k \in GateKinds(to) : \E x \in Freshest(k) : x.good /\ Young(x)

(* Evidence named by the caller is asked for its kind and age only. *)
Supported(e, ev) ==
  \/ e.kinds = {}
  \/ ev = NoEvidence /\ e.to \in Promoting /\ evaluatePromotionGate(e.to)
  \/ ev # NoEvidence /\ ev.kind \in e.kinds /\ Young(ev)

(* Mutant of Barred: the cooldown bars recoveries only. *)
BarredRecovery(e) == e.to \in Promoting /\ row.cool > now /\ e.recovers

Barred(e) == e.to \in Promoting /\ row.cool > now /\ (e.recovers \/ e.to \in Live)

(* Mutant of CooldownAfter: an edge that sets no cooldown ends it. *)
CooldownAfterCleared(e) == IF e.cools THEN now + Cooldown ELSE 0

CooldownAfter(e) == IF e.cools THEN now + Cooldown ELSE row.cool

(* The transaction of requestTransition, along the edge from the state the *)
(* row is in. A refusal, a row that is there already and a key that was    *)
(* used change nothing.                                                    *)
Move(e, ev, by) ==
  /\ e.from = row.state /\ (by = "drift" => e.drifts)
  /\ ~ Barred(e) /\ Supported(e, ev)
  /\ row' = [state |-> e.to, cool |-> CooldownAfter(e), ev |-> IF ev = NoEvidence THEN row.ev ELSE ev]
  /\ hist' = [fell |-> IF e.cools THEN now ELSE hist.fell, from |-> row.state, by |-> by]

requestTransition ==
  /\ \E e \in Edges, ev \in evidence \cup {NoEvidence} : Move(e, ev, "caller")
  /\ UNCHANGED <<evidence, drift, now>>

(* recordEvidence: the same content twice is one piece. *)
recordEvidence ==
  /\ Cardinality(evidence) < MaxEvidence
  /\ \E kind \in Kinds, good \in BOOLEAN :
       evidence' = evidence \cup {[kind |-> kind, good |-> good, at |-> now]}
  /\ UNCHANGED <<row, drift, now, hist>>

-----------------------------------------------------------------------------
(* checkAndDegrade: the target follows from the state that was read.       *)
Target(state, action) ==
  CASE action = "PAUSE" -> "PAUSED"
    [] action = "DEGRADE" -> "DEGRADED"
    [] action = "SCALE_DOWN" -> IF state = "LIVE" THEN "LIVE_LIMITED"
                                ELSE IF state = "LIVE_LIMITED" THEN state ELSE "DEGRADED"

ReadForDrift ==
  /\ drift.to = None /\ row.state \in Live \cup {"PAPER", "DEGRADED"}
  /\ \E action \in {"PAUSE", "DEGRADE", "SCALE_DOWN"} :
       /\ Target(row.state, action) # row.state
       /\ drift' = [read |-> row.state, to |-> Target(row.state, action)]
  /\ UNCHANGED <<row, evidence, now, hist>>

(* Refused if the row has moved to where no such edge leaves.              *)
Degrade ==
  /\ drift.to # None
  /\ \/ \E e \in Edges : e.to = drift.to /\ Move(e, NoEvidence, "drift")
     \/ UNCHANGED <<row, hist>>
  /\ drift' = [read |-> None, to |-> None]
  /\ UNCHANGED <<evidence, now>>

(* A tick is longer than a drift check. *)
Tick ==
  /\ now < MaxTime /\ drift.to = None
  /\ now' = now + 1
  /\ UNCHANGED <<row, evidence, drift, hist>>

Next == requestTransition \/ recordEvidence \/ ReadForDrift \/ Degrade \/ Tick

Spec == Init /\ [][Next]_vars

-----------------------------------------------------------------------------
(* orderGate.ts evaluateLifecycleOrderGate in mode enforce *)
orderAllowed == row.cool <= now /\ row.state \in Live /\ row.ev # NoEvidence /\ Young(row.ev)

(* Properties *)

(* While the cooldown of the last degradation runs, the version does not   *)
(* come back to live, on whatever way, and no order of it passes.          *)
Calm == now >= hist.fell + Cooldown
CooldownHolds ==
  /\ orderAllowed => Calm
  /\ row.state \in Live /\ hist.from \notin Live => Calm

(* A drift check never brings a version nearer to live, though it acts on  *)
(* a state that may have changed since it read it.                         *)
Rank(s) == CASE s = "LIVE" -> 3 [] s = "LIVE_LIMITED" -> 2 [] s = "PAPER" -> 1
             [] s \notin {"LIVE", "LIVE_LIMITED", "PAPER"} -> 0
DriftOnlyLowers == hist.by = "drift" => Rank(row.state) <= Rank(hist.from)

(* A version in PAPER goes live on a good and fresh backtest and paper     *)
(* window.                                                                 *)
LiveNeedsBoth ==
  [][row.state = "PAPER" /\ row'.state = "LIVE_LIMITED" => evaluatePromotionGate("LIVE_LIMITED")]_vars
=============================================================================
