---------------------------- MODULE TwapPlanCases ----------------------------
(***************************************************************************)
(* The planner of the TWAP scheduler on every input within small bounds,   *)
(* against what a plan has to be. A case is drawn, then planned.           *)
(***************************************************************************)
EXTENDS TwapPlan

CONSTANTS
  MaxTotal, MaxSlice, MaxDeadline, MaxSlots,
  Intervals,
  Deltas     \* the jitters of the quantities, one number for each slot

VARIABLES
  input,
  plan,   \* what planTwap returns, NoPlan before
  fitted  \* what fitPlan returns

vars == <<input, plan, fitted>>

NoPlan == Refused("NONE")

(* The jitter of the times is at most half of the interval. *)
Inputs ==
  UNION {[total : 1 .. MaxTotal, lo : 1 .. MaxSlice, hi : 1 .. MaxSlice, start : {0}, deadline : 1 .. MaxDeadline,
          interval : {d}, delta : Deltas, late : [1 .. MaxSlots -> {-(d \div 2), d \div 2}]] : d \in Intervals}

Init == input \in {p \in Inputs : slotCount(p.start, p.deadline, p.interval) <= MaxSlots} /\ plan = NoPlan /\ fitted = NoPlan

Plan ==
  /\ plan = NoPlan
  /\ plan' = planTwap(input) /\ fitted' = fitPlan(input)
  /\ UNCHANGED input

Next == Plan
Spec == Init /\ [][Next]_vars

-----------------------------------------------------------------------------
(* Properties *)

Splits(p) == {n \in 1 .. slotCount(p.start, p.deadline, p.interval) : n * p.lo <= p.total /\ p.total <= n * p.hi}

(* A plan exists exactly if some number of slices within the window can    *)
(* carry the target, and it is then the whole target in legal slices at    *)
(* increasing times before the deadline, whatever the jitter. A rest that  *)
(* is fitted is a sound plan of at most itself, and of all if that goes.   *)
PlanIsExact ==
  plan # NoPlan =>
    /\ plan.code = "OK" <=> Splits(input) # {}
    /\ plan.code = "OK" => Sound(input, plan, input.total) /\ fitted = plan
    /\ fitted.code = "OK" => Steps(fitted.qty) <= input.total /\ Sound(input, fitted, Steps(fitted.qty))
=============================================================================
