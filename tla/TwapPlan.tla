------------------------------ MODULE TwapPlan ------------------------------
(***************************************************************************)
(* The planner of the TWAP scheduler (execution/twap/plan.ts) and the      *)
(* scheduler's fitPlan, over whole venue steps and abstract time units.    *)
(* The jitter comes from a hash of the seed in the code; here it is any    *)
(* value within the bounds the policy allows, one per slot.                *)
(* A loop of the code is a function of the number of its rounds, so that   *)
(* it can be reasoned about.                                               *)
(***************************************************************************)
EXTENDS Integers, Sequences

Smaller(a, b) == IF a <= b THEN a ELSE b
Larger(a, b) == IF a >= b THEN a ELSE b
Steps(s) ==
  LET sum[m \in 0 .. Len(s)] == IF m = 0 THEN 0 ELSE sum[m - 1] + s[m]
  IN sum[Len(s)]
CeilDiv(a, b) == (a + b - 1) \div b

(* plan.ts slotCount: starts of slices before the deadline. *)
slotCount(start, deadline, interval) ==
  IF deadline <= start THEN 0 ELSE CeilDiv(deadline - start, interval)

(* plan.ts snapToGrid: the next point of the parent's grid, not before now. *)
snapToGrid(start, interval, now) ==
  IF now <= start THEN start ELSE start + CeilDiv(now - start, interval) * interval

-----------------------------------------------------------------------------
(* plan.ts repair *)

(* One slice gives (sign = 1) or gets (sign = -1) amount; the others are   *)
(* taken from the last to the first, as far as their bounds allow.         *)
Move(acc, i, j, amount, sign, lo, hi) ==
  LET room == IF sign = 1 THEN hi - acc.s[j] ELSE acc.s[j] - lo
      take == Smaller(room, amount - acc.moved)
  IN IF j = i \/ take <= 0 THEN acc
     ELSE [s |-> [acc.s EXCEPT ![j] = @ + sign * take], moved |-> acc.moved + take]

Spread(s, i, amount, sign, lo, hi) ==
  LET after[m \in 0 .. Len(s)] ==
        IF m = 0 THEN [s |-> s, moved |-> 0]
        ELSE Move(after[m - 1], i, Len(s) + 1 - m, amount, sign, lo, hi)
  IN after[Len(s)]

(* What is left of slice i when r says how much the others moved. *)
Balanced(r, i, amount, sign) ==
  [s |-> [r.s EXCEPT ![i] = @ - sign * r.moved], ok |-> r.moved = amount]

(* Brings slice i into its bounds; ok says that the others had the room. *)
RepairSlice(acc, i, lo, hi) ==
  IF ~ acc.ok \/ acc.s[i] \in lo .. hi THEN acc
  ELSE IF acc.s[i] > hi
  THEN Balanced(Spread(acc.s, i, acc.s[i] - hi, 1, lo, hi), i, acc.s[i] - hi, 1)
  ELSE Balanced(Spread(acc.s, i, lo - acc.s[i], -1, lo, hi), i, lo - acc.s[i], -1)

RepairPass(acc, lo, hi) ==
  LET after[m \in 0 .. Len(acc.s)] == IF m = 0 THEN acc ELSE RepairSlice(after[m - 1], m, lo, hi)
  IN after[Len(acc.s)]

InBounds(s, lo, hi) == \A i \in DOMAIN s : s[i] \in lo .. hi

Repaired(r, lo, hi, total) ==
  [s |-> r.s, ok |-> r.ok /\ InBounds(r.s, lo, hi) /\ Steps(r.s) = total]

(* At most 8 passes per slice; a pass over slices in bounds changes none. *)
NextPass(acc, lo, hi) == IF InBounds(acc.s, lo, hi) THEN acc ELSE RepairPass(acc, lo, hi)

repair(s, lo, hi, total) ==
  LET after[m \in 0 .. 8 * Len(s)] == IF m = 0 THEN [s |-> s, ok |-> TRUE] ELSE NextPass(after[m - 1], lo, hi)
  IN Repaired(after[8 * Len(s)], lo, hi, total)

-----------------------------------------------------------------------------
(* plan.ts planTwap. p: total (the target), lo and hi (minSteps and        *)
(* maxSteps), start, deadline, interval, and per slot the jitters of the   *)
(* quantity (a change in steps) and of the time.                           *)

Refused(code) == [code |-> code, qty |-> <<>>, at |-> <<>>]

(* Mutant of EvenSplit: the residual is forgotten.                         *)
EvenSplitFloor(total, n) == [i \in 1 .. n |-> total \div n]

EvenSplit(total, n) ==
  [i \in 1 .. n |-> IF i < n THEN total \div n ELSE total \div n + (total % n)]

(* jitterFraction is at most a quarter. *)
JitteredQty(s, delta) ==
  LET n == Len(s)
      By(i) == Larger(-((s[i] + 2) \div 4), Smaller(delta[i], (s[i] + 2) \div 4))
      moved == Steps([i \in 1 .. n - 1 |-> By(i)])
  IN [i \in 1 .. n |-> IF i < n THEN s[i] + By(i) ELSE s[i] - moved]

(* plan.ts scheduleTimes: <<>> stands for the error it throws. *)
Time(prev, i, p) ==
  Smaller(Larger(Larger(p.start + (i - 1) * p.interval + p.late[i], p.start), prev + 1), p.deadline - 1)

NextTime(acc, i, p) ==
  LET t == Time(acc.prev, i, p)
  IN IF ~ acc.ok \/ t <= acc.prev THEN [acc EXCEPT !.ok = FALSE]
     ELSE [times |-> Append(acc.times, t), prev |-> t, ok |-> TRUE]

scheduleTimes(n, p) ==
  LET after[m \in 0 .. n] ==
        IF m = 0 THEN [times |-> <<>>, prev |-> p.start - 1, ok |-> TRUE] ELSE NextTime(after[m - 1], m, p)
  IN IF after[n].ok THEN after[n].times ELSE <<>>

(* The plan out of the even split after its repair, if that succeeded. *)
FromSplit(p, n, raw, jittered, times) ==
  IF ~ raw.ok THEN Refused("PLAN_INFEASIBLE")
  ELSE IF times = <<>> THEN Refused("WINDOW_TOO_SHORT")
  ELSE [code |-> "OK", qty |-> IF n > 1 /\ jittered.ok THEN jittered.s ELSE raw.s, at |-> times]

Split(p, n, raw) ==
  FromSplit(p, n, raw, repair(JitteredQty(raw.s, p.delta), p.lo, p.hi, p.total), scheduleTimes(n, p))

WithSlices(p, slots, n) ==
  IF CeilDiv(p.total, p.hi) > slots THEN Refused("WINDOW_TOO_SHORT")
  ELSE IF n < CeilDiv(p.total, p.hi) THEN Refused("BOUNDS_INFEASIBLE")
  ELSE Split(p, n, repair(EvenSplit(p.total, n), p.lo, p.hi, p.total))

planTwap(p) ==
  LET slots == slotCount(p.start, p.deadline, p.interval)
  IN CASE p.deadline <= p.start -> Refused("INVALID_WINDOW")
       [] p.deadline > p.start /\ p.total < p.lo -> Refused("UNSCHEDULABLE")
       [] p.deadline > p.start /\ p.total >= p.lo /\ p.hi < p.lo -> Refused("BOUNDS_INFEASIBLE")
       [] p.deadline > p.start /\ p.total >= p.lo /\ p.hi >= p.lo ->
            WithSlices(p, slots, Smaller(slots, p.total \div p.lo))

(* scheduler.ts fitPlan: at most 8 attempts, each with a smaller total;    *)
(* an UNSCHEDULABLE total is a plan without slices and ends the search.    *)
Retryable == {"WINDOW_TOO_SHORT", "BOUNDS_INFEASIBLE", "PLAN_INFEASIBLE"}

Tried(plan, total, cap) ==
  IF plan.code \notin Retryable
  THEN [plan |-> plan, total |-> total, done |-> TRUE]
  ELSE [plan |-> plan, total |-> Smaller(total - 1, cap), done |-> Smaller(total - 1, cap) <= 0]

Attempt(acc, p, cap) == IF acc.done THEN acc ELSE Tried(planTwap([p EXCEPT !.total = acc.total]), acc.total, cap)

fitPlan(p) ==
  LET cap == slotCount(p.start, p.deadline, p.interval) * p.hi
      after[m \in 0 .. 8] ==
        IF m = 0 THEN [plan |-> Refused("UNSCHEDULABLE"), total |-> p.total, done |-> p.total <= 0]
        ELSE Attempt(after[m - 1], p, cap)
  IN after[8].plan

-----------------------------------------------------------------------------
(* What a plan for the total has to be: all of it in slices within the     *)
(* bounds, at rising times between the start and the deadline.             *)
Increasing(times) == \A i, j \in DOMAIN times : i < j => times[i] < times[j]
Sound(p, r, total) ==
  /\ Steps(r.qty) = total /\ InBounds(r.qty, p.lo, p.hi)
  /\ Len(r.at) = Len(r.qty) /\ Increasing(r.at)
  /\ \A i \in DOMAIN r.at : r.at[i] >= p.start /\ r.at[i] < p.deadline
=============================================================================
