------------------------- MODULE TwapSchedulerProof -------------------------
(***************************************************************************)
(* Proofs about the scheduler, for any target, bounds and deadline. A      *)
(* child has the quantity its slice was frozen with, for any number of     *)
(* workers; a parent that ended stays so while calls do not overlap; and   *)
(* in the second half of the module the books: no quantity is at the venue *)
(* twice, and no end of a parent leaves a child.                           *)
(*                                                                         *)
(* A slice that is frozen stays so with its quantity: a worker about to    *)
(* claim or freeze a slice of which its copy is current would freeze the   *)
(* same quantity again, and a worker whose copy is outdated does not write.*)
(* A worker about to start a child needs no current copy, for its quantity *)
(* is the frozen one already.                                              *)
(***************************************************************************)
EXTENDS TwapScheduler, TwapPlanProof, FiniteSetTheorems

Fields == {"pc", "k", "q", "sfresh", "after"}
Row == {"qty", "filled", "at", "status", "frozen", "by"}
Hot == {"claim", "freeze", "send"}

List(s) == \E n \in Nat : DOMAIN s = 1 .. n /\ s = [i \in 1 .. n |-> s[i]]
SlicesOK == List(slices) /\ \A k \in DOMAIN slices : DOMAIN slices[k] = Row
ChildOK == child = [k \in 1 .. MaxSlices |-> child[k]] /\ \A k \in 1 .. MaxSlices : {"state", "qty"} \subseteq DOMAIN child[k]

(* What a call may rely on when it stands between pick and start. *)
Calm(r) == Fields \subseteq DOMAIN r /\ r.after \notin Hot
Mine(r, s) ==
  /\ Calm(r)
  /\ r.pc \in {"claim", "freeze"} /\ r.sfresh => r.k \in DOMAIN s /\ (s[r.k].frozen => r.q = s[r.k].qty)
  /\ r.pc = "send" => r.k \in DOMAIN s /\ s[r.k].frozen /\ s[r.k].qty = r.q

IInv == SlicesOK /\ ChildOK /\ QuantityFrozen /\ \A w \in Workers : Mine(proc[w], slices)

Plain(r) == Calm(r) /\ r.pc \notin Hot

-----------------------------------------------------------------------------
(* The four ways in which a step writes. *)

(* Rows outside of W stay, and what was frozen stays frozen as it is. *)
Grown(s, t, W) ==
  \A k \in DOMAIN s :
    k \in DOMAIN t /\ (k \notin W => t[k] = s[k]) /\ (s[k].frozen => t[k].frozen /\ t[k].qty = s[k].qty)

(* c may be the next state of the child of slice k. *)
Fits(c, k) ==
  /\ {"state", "qty"} \subseteq DOMAIN c
  /\ c.state # "none" => \/ child[k].state # "none" /\ c.qty = child[k].qty
                         \/ k \in DOMAIN slices /\ slices[k].frozen /\ slices[k].qty = c.qty

LEMMA ChildrenStay ==
  ASSUME IInv, child' = child, NEW W, Grown(slices, slices', W)
  PROVE  ChildOK' /\ QuantityFrozen'
  BY DEF IInv, ChildOK, QuantityFrozen, Grown

LEMMA OneChildMoves ==
  ASSUME IInv, NEW k, NEW c, k \in 1 .. MaxSlices => Fits(c, k), child' = [child EXCEPT ![k] = c], slices' = slices
  PROVE  ChildOK' /\ QuantityFrozen'
<1>1. child' = [j \in 1 .. MaxSlices |-> IF j = k THEN c ELSE child[j]]
  BY DEF IInv, ChildOK
<1>2. ChildOK'
  BY <1>1 DEF IInv, ChildOK, Fits
<1>3. ASSUME NEW j \in 1 .. MaxSlices, child'[j].state # "none"
      PROVE  j \in DOMAIN slices /\ slices[j].frozen /\ slices[j].qty = child'[j].qty
  <2>1. CASE j = k
    BY <1>1, <1>3, <2>1 DEF Fits, IInv, QuantityFrozen
  <2>2. CASE j # k
    BY <1>1, <1>3, <2>2 DEF IInv, QuantityFrozen
  <2> QED BY <2>1, <2>2
<1> QED BY <1>2, <1>3 DEF QuantityFrozen

(* Others lose what was written of their copies, and keep the rest. *)
LEMMA StepMine ==
  ASSUME IInv, NEW w \in Workers, NEW r, NEW pw, NEW W, Step(w, r, pw, W), Mine(r, slices'),
         Grown(slices, slices', W)
  PROVE  \A u \in Workers : Mine(proc[u], slices)'
<1> SUFFICES ASSUME NEW u \in Workers PROVE Mine(proc'[u], slices')
  OBVIOUS
<1>1. CASE u = w
  BY <1>1 DEF Step
<1>2. CASE u # w
  <2>1. Mine(proc[u], slices)
    BY DEF IInv
  <2>2. /\ Fields \subseteq DOMAIN proc'[u]
        /\ proc'[u].pc = proc[u].pc /\ proc'[u].k = proc[u].k /\ proc'[u].q = proc[u].q
        /\ proc'[u].after = proc[u].after
        /\ proc'[u].sfresh => proc[u].sfresh /\ proc[u].k \notin W
    BY <1>2, <2>1 DEF Step, Mine, Calm, Fields
  <2> QED BY <2>1, <2>2 DEF Mine, Calm, Grown
<1> QED BY <1>1, <1>2

LEMMA PlainMine == ASSUME NEW r, NEW s, Plain(r) PROVE Mine(r, s)
  BY DEF Plain, Mine, Hot

LEMMA GrownSame == ASSUME NEW s, NEW W PROVE Grown(s, s, W)
  BY DEF Grown

(* A step that writes no slice and no child. *)
LEMMA PlainStep ==
  ASSUME IInv, NEW w \in Workers, NEW r, NEW pw, NEW W, Step(w, r, pw, W), Plain(r), UNCHANGED <<slices, child>>
  PROVE  IInv'
<1>1. Grown(slices, slices', W)
  BY GrownSame
<1>2. \A u \in Workers : Mine(proc[u], slices)'
  BY <1>1, PlainMine, StepMine
<1> QED BY <1>1, <1>2, ChildrenStay DEF IInv, SlicesOK

(* A step that writes slices. *)
LEMMA SliceStep ==
  ASSUME IInv, NEW w \in Workers, NEW r, NEW pw, NEW W, Step(w, r, pw, W), Mine(r, slices'),
         Grown(slices, slices', W), SlicesOK', child' = child
  PROVE  IInv'
  BY StepMine, ChildrenStay DEF IInv

LEMMA IdlePlain == Plain(Idle)
  BY DEF Plain, Calm, Idle, Fields, Hot

LEMMA LeavePlain == ASSUME NEW w \in Workers PROVE Plain(Leave(w))
  BY IdlePlain DEF Leave, Plain, Calm, Idle, Fields, Hot

LEMMA GotoPlain ==
  ASSUME IInv, NEW w \in Workers, NEW pc, pc \notin Hot
  PROVE  Plain(Goto(w, pc)) /\ Plain(proc[w]) \in BOOLEAN /\ Calm(proc[w])
  BY DEF IInv, Mine, Plain, Calm, Goto, Fields

(* updateParent and pause. *)
LEMMA ParentStep ==
  ASSUME IInv, NEW w \in Workers, NEW new, NEW r, Plain(r), updateParent(w, new, r), UNCHANGED <<slices, child>>
  PROVE  IInv'
<1>1. CASE proc[w].fresh
  <2> DEFINE s == [r EXCEPT !.cur = new, !.fresh = TRUE]
  <2>1. Plain(s)
    BY DEF Plain, Calm, Fields
  <2>2. Step(w, s, TRUE, {})
    BY <1>1 DEF updateParent
  <2> HIDE DEF s
  <2> QED BY <2>1, <2>2, PlainStep
<1>2. CASE ~ proc[w].fresh
  <2>1. Step(w, Leave(w), FALSE, {})
    BY <1>2 DEF updateParent
  <2> QED BY <2>1, LeavePlain, PlainStep
<1> QED BY <1>1, <1>2

LEMMA PauseStep ==
  ASSUME IInv, NEW w \in Workers, NEW why, NEW r, Plain(r), Pause(w, why, r), UNCHANGED <<slices, child>>
  PROVE  IInv'
<1>1. CASE Step(w, r, FALSE, {})
  BY <1>1, PlainStep
<1>2. ASSUME NEW new, updateParent(w, new, r) PROVE IInv'
  BY <1>2, ParentStep
<1> QED BY <1>1, <1>2 DEF Pause

(* The columns a view writes are neither quantity nor mark. *)
LEMMA Viewed ==
  ASSUME IInv, NEW k, NEW status, NEW filled,
         slices' = [slices EXCEPT ![k].status = status, ![k].filled = filled]
  PROVE  SlicesOK' /\ Grown(slices, slices', {k})
<1>1. slices' = [i \in DOMAIN slices |->
                   IF i = k THEN [slices[k] EXCEPT !.status = status, !.filled = filled] ELSE slices[i]]
  BY DEF IInv, SlicesOK, List
<1>2. DOMAIN slices' = DOMAIN slices /\ List(slices')
  BY <1>1 DEF IInv, SlicesOK, List
<1>3. ASSUME NEW i \in DOMAIN slices
      PROVE  /\ DOMAIN slices'[i] = Row
             /\ slices'[i].frozen = slices[i].frozen /\ slices'[i].qty = slices[i].qty
             /\ i # k => slices'[i] = slices[i]
  BY <1>1 DEF IInv, SlicesOK, Row
<1> QED BY <1>2, <1>3 DEF SlicesOK, Grown

LEMMA ViewStep ==
  ASSUME IInv, NEW w \in Workers, NEW r, Plain(r), applyView(w, r), child' = child
  PROVE  IInv'
<1> DEFINE s == [Reloaded(r) EXCEPT !.k = 0, !.view = Idle.view]
<1>1. Plain(s)
  BY DEF Reloaded, Plain, Calm, Fields
<1>2. Step(w, s, FALSE, {proc[w].k})
  BY DEF applyView
<1>3. SlicesOK' /\ Grown(slices, slices', {proc[w].k})
  BY Viewed DEF applyView
<1> HIDE DEF s
<1> QED BY <1>1, <1>2, <1>3, PlainMine, SliceStep

(* A child answers, and the call goes on with its view. *)
LEMMA AnswerStep ==
  ASSUME IInv, NEW w \in Workers, NEW k, NEW outcomes, NEW pc, pc \notin Hot,
         Answer(w, k, outcomes, pc), slices' = slices,
         k \in 1 .. MaxSlices => \A c \in outcomes : Fits(c, k)
  PROVE  IInv'
<1>1. PICK c \in outcomes :
         /\ child' = [child EXCEPT ![k] = c]
         /\ Step(w, [proc[w] EXCEPT !.pc = pc, !.k = k, !.view = View(c)], FALSE, {})
  BY DEF Answer
<1> DEFINE r == [proc[w] EXCEPT !.pc = pc, !.k = k, !.view = View(c)]
<1>2. Plain(r)
  BY DEF IInv, Mine, Plain, Calm, Fields
<1>3. Step(w, r, FALSE, {})
  BY <1>1
<1> HIDE DEF r
<1>4. \A u \in Workers : Mine(proc[u], slices)'
  BY <1>2, <1>3, PlainMine, GrownSame, StepMine
<1>5. ChildOK' /\ QuantityFrozen'
  BY <1>1, OneChildMoves
<1> QED BY <1>4, <1>5 DEF IInv, SlicesOK

LEMMA Outcomes ==
  ASSUME IInv, NEW k \in 1 .. MaxSlices
  PROVE  /\ \A c \in PollOutcomes(child[k]) : Fits(c, k)
         /\ \A c \in CancelOutcomes(child[k]) : Fits(c, k)
<1>1. Fits(child[k], k)
  BY DEF IInv, ChildOK, Fits
<1>2. child[k].state = "open" => Fits(Ended(child[k]), k) /\ Fits(Read(child[k]), k)
  BY DEF IInv, ChildOK, Fits, Ended, Read
<1> QED BY <1>1, <1>2 DEF PollOutcomes, CancelOutcomes

-----------------------------------------------------------------------------
(* One lemma per step. *)

LEMMA InitOK == Init => IInv
<1> SUFFICES ASSUME Init PROVE IInv
  OBVIOUS
<1>1. SlicesOK
  <2>1. slices = <<>> /\ DOMAIN slices = 1 .. 0 /\ slices = [i \in 1 .. 0 |-> slices[i]]
    BY DEF Init
  <2> QED BY <2>1 DEF SlicesOK, List
<1>2. ChildOK /\ QuantityFrozen
  BY DEF Init, ChildOK, QuantityFrozen
<1>3. \A w \in Workers : Mine(proc[w], slices)
  BY IdlePlain, PlainMine DEF Init
<1> QED BY <1>1, <1>2, <1>3 DEF IInv

LEMMA BeginStep ==
  ASSUME IInv, NEW w \in Workers, NEW op, NEW pc, pc \notin Hot, Begin(w, op, pc)
  PROVE  IInv'
<1> DEFINE r == [Idle EXCEPT !.pc = pc, !.op = op, !.cur = par, !.fresh = TRUE, !.now = clock]
<1>1. Plain(r)
  BY IdlePlain DEF Plain, Calm, Idle, Fields
<1>2. Step(w, r, TRUE, {})
  BY DEF Begin
<1> HIDE DEF r
<1> QED BY <1>1, <1>2, PlainStep DEF Begin

LEMMA BeginOK ==
  ASSUME IInv, NEW w \in Workers, Tick(w) \/ Cancel(w) \/ Resume(w) \/ Start(w)
  PROVE  IInv'
<1>1. CASE Start(w)
  <2> DEFINE r == [Idle EXCEPT !.pc = "ensure", !.op = "start", !.cur = par, !.fresh = TRUE, !.now = clock]
  <2>1. Plain(r)
    BY IdlePlain DEF Plain, Calm, Idle, Fields, Hot
  <2>2. Step(w, r, FALSE, {})
    BY <1>1 DEF Start
  <2> HIDE DEF r
  <2> QED BY <1>1, <2>1, <2>2, PlainStep DEF Start
<1>2. CASE Tick(w)
  BY <1>2, BeginStep DEF Tick, Hot
<1>3. CASE Cancel(w) \/ Resume(w)
  BY <1>3, BeginStep DEF Cancel, Resume, Hot
<1> QED BY <1>1, <1>2, <1>3

LEMMA EnsurePlanOK == ASSUME IInv, NEW w \in Workers, EnsurePlan(w) PROVE IInv'
<1>1. PICK r : Step(w, r, FALSE, {}) /\ Plain(r)
  <2>1. Plain(Goto(w, "started")) /\ Plain(Leave(w)) /\ Calm(proc[w])
    BY GotoPlain, LeavePlain DEF Hot
  <2>2. ASSUME NEW t, NEW n PROVE Plain([proc[w] EXCEPT !.pc = "insert", !.todo = t, !.at = 1, !.after = "planned", !.uns = n])
    BY <2>1 DEF Plain, Calm, Fields, Hot
  <2> QED BY <2>1, <2>2 DEF EnsurePlan
<1> QED BY <1>1, PlainStep DEF EnsurePlan

(* A row is added behind the others. *)
LEMMA Appended ==
  ASSUME SlicesOK, NEW x, slices' = Append(slices, x), DOMAIN x = Row
  PROVE  SlicesOK' /\ Grown(slices, slices', {})
<1>1. PICK n \in Nat : DOMAIN slices = 1 .. n /\ slices = [i \in 1 .. n |-> slices[i]]
  BY DEF SlicesOK, List
<1> DEFINE S == {slices[i] : i \in 1 .. n} \cup {x}
<1>2. slices \in Seq(S) /\ Len(slices) = n /\ x \in S
  BY <1>1
<1> HIDE DEF S
<1>3. /\ slices' \in Seq(S) /\ Len(slices') = n + 1
      /\ \A i \in 1 .. n : slices'[i] = slices[i]
      /\ slices'[n + 1] = x
  BY <1>2, AppendProperties
<1>4. DOMAIN slices' = 1 .. n + 1 /\ slices' = [i \in 1 .. n + 1 |-> slices'[i]]
  <2>1. slices' \in [1 .. n + 1 -> S]
    BY <1>3, LenProperties
  <2> QED BY <2>1
<1>5. List(slices')
  BY <1>4 DEF List
<1> QED BY <1>1, <1>3, <1>4, <1>5 DEF SlicesOK, Grown

LEMMA InsertSliceOK == ASSUME IInv, NEW w \in Workers, InsertSlice(w) PROVE IInv'
<1>1. Calm(proc[w])
  BY DEF IInv, Mine
<1>2. CASE Step(w, Goto(w, proc[w].after), FALSE, {}) /\ slices' = slices
  <2>1. Plain(Goto(w, proc[w].after))
    BY <1>1, GotoPlain DEF Calm
  <2> QED BY <1>2, <2>1, PlainStep DEF InsertSlice
<1>3. CASE Step(w, Leave(w), FALSE, {}) /\ slices' = slices
  BY <1>3, LeavePlain, PlainStep DEF InsertSlice
<1>4. CASE /\ slices' = Append(slices, NewSlice(Head(proc[w].todo)))
           /\ Step(w, [proc[w] EXCEPT !.todo = Tail(@), !.at = @ + 1], FALSE, {})
  <2> DEFINE r == [proc[w] EXCEPT !.todo = Tail(@), !.at = @ + 1]
  <2>1. Step(w, r, FALSE, {}) /\ proc[w].pc = "insert"
    BY <1>4 DEF InsertSlice, At
  <2>2. Plain(r)
    BY <1>1, <2>1 DEF Plain, Calm, Fields, Hot
  <2> HIDE DEF r
  <2>3. DOMAIN NewSlice(Head(proc[w].todo)) = Row
    BY DEF NewSlice, Row
  <2>4. SlicesOK' /\ Grown(slices, slices', {})
    BY <1>4, <2>3, Appended DEF IInv
  <2> QED BY <2>1, <2>2, <2>4, PlainMine, SliceStep DEF InsertSlice
<1> QED BY <1>2, <1>3, <1>4 DEF InsertSlice

LEMMA PlannedOK == ASSUME IInv, NEW w \in Workers, Planned(w) \/ Started(w) PROVE IInv'
<1>1. Plain(Leave(w)) /\ Plain(Goto(w, "started")) /\ Plain(Goto(w, "safety"))
  BY LeavePlain, GotoPlain DEF Hot
<1>2. Plain([Goto(w, "started") EXCEPT !.uns = 0, !.at = 0, !.after = "submit"])
  BY <1>1 DEF Plain, Calm, Fields, Hot
<1>3. CASE Planned(w)
  BY <1>1, <1>2, <1>3, ParentStep DEF Planned
<1>4. CASE Started(w)
  BY <1>1, <1>4, ParentStep DEF Started
<1> QED BY <1>3, <1>4

LEMMA DecidingOK == ASSUME IInv, NEW w \in Workers, Deciding(w) PROVE IInv'
<1>1. Calm(proc[w])
  BY DEF IInv, Mine
<1>2. ASSUME NEW why, NEW want, NEW live, Step(w, Ending(w, why, want, live), FALSE, {}), UNCHANGED <<slices, child>>
      PROVE  IInv'
  <2>1. Plain(Ending(w, why, want, live))
    BY <1>1 DEF Ending, Plain, Calm, Fields, Hot
  <2> QED BY <1>2, <2>1, PlainStep
<1>3. CASE Stop(w) \/ Expire(w) \/ Hold(w) \/ CancelAsked(w)
  BY <1>2, <1>3 DEF Stop, Expire, Hold, CancelAsked
<1>4. CASE Proceed(w)
  <2> DEFINE r == [Goto(w, "polling") EXCEPT !.list = LiveIn(slices)]
  <2>1. Plain(r)
    BY GotoPlain DEF Plain, Calm, Fields, Hot
  <2>2. Step(w, r, FALSE, {}) \/ \E new : updateParent(w, new, r)
    BY <1>4 DEF Proceed
  <2> HIDE DEF r
  <2> QED BY <1>4, <2>1, <2>2, PlainStep, ParentStep DEF Proceed
<1>5. CASE Resumed(w)
  BY <1>5, LeavePlain, ParentStep DEF Resumed
<1> QED BY <1>3, <1>4, <1>5 DEF Deciding

LEMMA GoneRow ==
  ASSUME NEW x, DOMAIN x = Row, NEW status
  PROVE  DOMAIN Gone(x, status) = Row /\ (x.frozen => Gone(x, status).frozen /\ Gone(x, status).qty = x.qty)
  BY DEF Gone, Row

(* Rows leave without a child. *)
LEMMA Left ==
  ASSUME SlicesOK, NEW W, NEW status,
         slices' = [k \in DOMAIN slices |-> IF k \in W THEN Gone(slices[k], status) ELSE slices[k]]
  PROVE  SlicesOK' /\ Grown(slices, slices', W)
<1>1. DOMAIN slices' = DOMAIN slices /\ List(slices')
  BY DEF SlicesOK, List
<1> QED BY <1>1, GoneRow DEF SlicesOK, Grown

LEMMA CancellingOK == ASSUME IInv, NEW w \in Workers, Cancelling(w) PROVE IInv'
<1>1. Calm(proc[w])
  BY DEF IInv, Mine
<1>2. CASE CancelChild(w)
  <2> DEFINE k == Min(proc[w].list)
             r == [proc[w] EXCEPT !.list = @ \ {k}, !.ok = FALSE]
  <2>1. CASE Answer(w, k, CancelOutcomes(child[k]), "cancelled")
    BY <1>2, <2>1, Outcomes, AnswerStep DEF CancelChild, Hot
  <2>2. CASE Step(w, r, FALSE, {}) /\ child' = child
    <3>1. Plain(r)
      BY <1>1, <1>2 DEF CancelChild, At, Plain, Calm, Fields, Hot
    <3> HIDE DEF r
    <3> QED BY <1>2, <2>2, <3>1, PlainStep DEF CancelChild
  <2> QED BY <1>2, <2>1, <2>2 DEF CancelChild
<1>3. CASE ChildCancelled(w)
  <2> DEFINE r == [proc[w] EXCEPT !.pc = "cancelling", !.list = @ \ {proc[w].k},
                                  !.ok = @ /\ proc[w].view.state \in ChildEnds]
  <2>1. Plain(r)
    BY <1>1 DEF Plain, Calm, Fields, Hot
  <2>2. applyView(w, r) /\ child' = child
    BY <1>3 DEF ChildCancelled
  <2> HIDE DEF r
  <2> QED BY <2>1, <2>2, ViewStep
<1>4. CASE NotConfirmed(w)
  BY <1>4, LeavePlain, PauseStep DEF NotConfirmed
<1>5. CASE DropPending(w)
  <2> DEFINE drop == {k \in DOMAIN slices : slices[k].status = "PENDING"}
             r == Reloaded(Goto(w, "close"))
  <2>1. Plain(r)
    BY GotoPlain DEF Reloaded, Plain, Calm, Fields, Hot
  <2>2. /\ slices' = [k \in DOMAIN slices |-> IF k \in drop THEN Gone(slices[k], "CANCELLED") ELSE slices[k]]
        /\ Step(w, r, FALSE, drop) /\ child' = child
    BY <1>5 DEF DropPending
  <2> HIDE DEF r, drop
  <2>3. SlicesOK' /\ Grown(slices, slices', drop)
    BY <2>2, Left DEF IInv
  <2> QED BY <2>1, <2>2, <2>3, PlainMine, SliceStep
<1>6. CASE Close(w)
  BY <1>6, LeavePlain, ParentStep DEF Close
<1> QED BY <1>2, <1>3, <1>4, <1>5, <1>6 DEF Cancelling

LEMMA ReconcilingOK == ASSUME IInv, NEW w \in Workers, Reconciling(w) PROVE IInv'
<1>1. Calm(proc[w])
  BY DEF IInv, Mine
<1>2. CASE PollChild(w)
  <2> DEFINE k == Min(proc[w].list)
  <2>1. CASE Answer(w, k, PollOutcomes(child[k]), "polled")
    BY <1>2, <2>1, Outcomes, AnswerStep DEF PollChild, Hot
  <2>2. CASE Step(w, Leave(w), FALSE, {}) /\ child' = child
    BY <1>2, <2>2, LeavePlain, PlainStep DEF PollChild
  <2> QED BY <1>2, <2>1, <2>2 DEF PollChild
<1>3. CASE ChildPolled(w)
  <2> DEFINE r == [proc[w] EXCEPT !.pc = IF par.status \in Terminal THEN "release" ELSE "polling",
                                  !.list = @ \ {proc[w].k}]
  <2>1. Plain(r)
    BY <1>1 DEF Plain, Calm, Fields, Hot
  <2>2. applyView(w, r) /\ child' = child
    BY <1>3 DEF ChildPolled
  <2> HIDE DEF r
  <2> QED BY <2>1, <2>2, ViewStep
<1>4. CASE Boundary(w)
  <2> DEFINE k == Min(LiveIn(slices))
             r == [Goto(w, "replan") EXCEPT !.after = "submit"]
             s == [Goto(w, "pause") EXCEPT !.why = "CANCEL_UNCONFIRMED", !.after = "release"]
  <2>1. Plain(r) /\ Plain(s)
    BY <1>1, GotoPlain DEF Plain, Calm, Fields, Hot
  <2>2. CASE Answer(w, k, CancelOutcomes(child[k]), "ended")
    BY <1>4, <2>2, Outcomes, AnswerStep DEF Boundary, Hot
  <2>3. CASE (Step(w, r, FALSE, {}) \/ Step(w, s, FALSE, {})) /\ child' = child
    <3> HIDE DEF r, s
    <3> QED BY <1>4, <2>1, <2>3, PlainStep DEF Boundary
  <2> QED BY <1>4, <2>2, <2>3 DEF Boundary
<1>5. CASE SliceEnded(w)
  <2>1. PICK r : Plain(r) /\ applyView(w, r)
    <3>1. Plain([proc[w] EXCEPT !.pc = "replan", !.after = "submit"])
      BY <1>1 DEF Plain, Calm, Fields, Hot
    <3>2. Plain([proc[w] EXCEPT !.pc = "pause", !.why = "CANCEL_UNCONFIRMED", !.after = "release"])
      BY <1>1 DEF Plain, Calm, Fields, Hot
    <3> QED BY <1>5, <3>1, <3>2 DEF SliceEnded
  <2> QED BY <1>5, <2>1, ViewStep DEF SliceEnded
<1>6. CASE PauseNow(w)
  <2>1. Plain(Goto(w, proc[w].after))
    BY <1>1, GotoPlain DEF Calm
  <2> QED BY <1>6, <2>1, PauseStep DEF PauseNow
<1> QED BY <1>2, <1>3, <1>4, <1>5, <1>6 DEF Reconciling

LEMMA ReplanOK == ASSUME IInv, NEW w \in Workers, Replan(w) PROVE IInv'
<1>1. Calm(proc[w])
  BY DEF IInv, Mine
<1>2. CASE slices' = slices /\ \E pc : pc \notin Hot /\ Step(w, Goto(w, pc), FALSE, {})
  BY <1>2, GotoPlain, PlainStep DEF Replan
<1>3. CASE /\ slices' = [k \in DOMAIN slices |->
                           IF k \in Loose(slices) THEN Gone(slices[k], "SKIPPED") ELSE slices[k]]
           /\ \E t, a, n, pc :
                /\ pc \notin Hot
                /\ Step(w, [proc[w] EXCEPT !.pc = "insert", !.todo = t, !.at = a, !.uns = n, !.after = pc],
                        FALSE, Loose(slices))
  <2>1. PICK r : Plain(r) /\ Step(w, r, FALSE, Loose(slices))
    BY <1>1, <1>3 DEF Plain, Calm, Fields, Hot
  <2>2. SlicesOK' /\ Grown(slices, slices', Loose(slices))
    BY <1>3, Left DEF IInv
  <2> QED BY <2>1, <2>2, PlainMine, SliceStep DEF Replan
<1>4. {"release", "adapted", "readapted"} \cap Hot = {} /\ proc[w].after \notin Hot
  BY <1>1 DEF Hot, Calm
<1> QED BY <1>2, <1>3, <1>4 DEF Replan

LEMMA AdaptedOK == ASSUME IInv, NEW w \in Workers, Adapted(w) PROVE IInv'
<1> DEFINE next == IF At(w, "readapted") THEN "account"
                   ELSE IF proc[w].cur.status # "RUNNING" THEN "release" ELSE "submit"
           r == [Goto(w, next) EXCEPT !.uns = 0, !.at = 0, !.after = "submit"]
<1>1. next \notin Hot
  BY DEF Hot
<1> HIDE DEF next
<1>2. Plain(r)
  BY <1>1, GotoPlain DEF Plain, Calm, Fields, Hot
<1>3. \E new : updateParent(w, new, r)
  BY DEF Adapted, next
<1> HIDE DEF r
<1> QED BY <1>2, <1>3, ParentStep DEF Adapted

(* A set of indexes has a least one. *)
LEMMA LeastOfList ==
  ASSUME NEW n \in Nat, NEW D, D \subseteq 1 .. n, D # {}
  PROVE  \E m \in D : \A j \in D : m <= j
<1> DEFINE R == OpToRel(<, Nat)
<1>1. \A i, j \in Nat : i < j => <<i, j>> \in R
  BY DEF OpToRel
<1>2. IsWellFoundedOn(R, Nat)
  BY NatLessThanWellFounded
<1>3. D \subseteq Nat
  OBVIOUS
<1> HIDE DEF R
<1>4. PICK m \in D : \A j \in D : <<j, m>> \notin R
  BY <1>2, <1>3, WFMin
<1>5. ASSUME NEW j \in D PROVE m <= j
  <2>1. m \in Nat /\ j \in Nat
    BY <1>3
  <2>2. ~ (j < m)
    BY <1>1, <1>4, <2>1
  <2> QED BY <2>1, <2>2
<1> QED BY <1>5

(* The chosen slice is one of the list, with its quantity if it is frozen. *)
LEMMA PickOK == ASSUME IInv, NEW w \in Workers, Pick(w) PROVE IInv'
<1> DEFINE due == {k \in DOMAIN slices : slices[k].status = "PENDING" /\ slices[k].at <= proc[w].now}
           k == Min(due)
<1>1. Calm(proc[w])
  BY DEF IInv, Mine
<1>2. CASE Step(w, Goto(w, "account"), FALSE, {})
  BY <1>2, GotoPlain, PlainStep DEF Pick, Hot
<1>3. CASE Step(w, [proc[w] EXCEPT !.pc = "pause", !.why = "OTHER", !.after = "account"], FALSE, {})
  <2>1. Plain([proc[w] EXCEPT !.pc = "pause", !.why = "OTHER", !.after = "account"])
    BY <1>1 DEF Plain, Calm, Fields, Hot
  <2> QED BY <1>3, <2>1, PlainStep DEF Pick
<1>4. ASSUME NEW q, due # {}, slices[k].frozen => q = slices[k].qty,
             Step(w, [proc[w] EXCEPT !.pc = "claim", !.k = k, !.sfresh = TRUE, !.q = q], FALSE, {})
      PROVE  IInv'
  <2> DEFINE r == [proc[w] EXCEPT !.pc = "claim", !.k = k, !.sfresh = TRUE, !.q = q]
  <2>1. k \in DOMAIN slices
    <3>1. PICK n \in Nat : DOMAIN slices = 1 .. n
      BY DEF IInv, SlicesOK, List
    <3>2. due \subseteq 1 .. n
      BY <3>1
    <3>3. \E m \in due : \A j \in due : m <= j
      BY <1>4, <3>2, LeastOfList
    <3>4. k \in due
      BY <3>3 DEF Min
    <3> QED BY <3>4
  <2>2. r.pc = "claim" /\ r.k = k /\ r.q = q /\ Calm(r)
    BY <1>1 DEF Calm, Fields
  <2>3. Step(w, r, FALSE, {})
    BY <1>4
  <2> HIDE DEF r, k, due
  <2>4. Mine(r, slices)
    BY <1>4, <2>1, <2>2 DEF Mine
  <2>5. slices' = slices /\ child' = child /\ SlicesOK'
    BY DEF Pick, IInv, SlicesOK
  <2> QED BY <2>3, <2>4, <2>5, GrownSame, SliceStep
<1> QED BY <1>2, <1>3, <1>4 DEF Pick

(* A row is written: its quantity stays if it was frozen. *)
LEMMA Written ==
  ASSUME IInv, NEW k, NEW x, slices' = [i \in DOMAIN slices |-> IF i = k THEN x ELSE slices[i]],
         k \in DOMAIN slices => DOMAIN x = Row /\ (slices[k].frozen => x.frozen /\ x.qty = slices[k].qty)
  PROVE  SlicesOK' /\ Grown(slices, slices', {k}) /\ DOMAIN slices' = DOMAIN slices
<1>1. DOMAIN slices' = DOMAIN slices /\ List(slices')
  BY DEF IInv, SlicesOK, List
<1> QED BY <1>1 DEF IInv, SlicesOK, Grown

LEMMA ClaimOK == ASSUME IInv, NEW w \in Workers, Claim(w) PROVE IInv'
<1> DEFINE k == proc[w].k
<1>1. Mine(proc[w], slices) /\ Calm(proc[w]) /\ proc[w].pc = "claim" /\ child' = child
  BY DEF IInv, Mine, Claim, At
<1>2. CASE /\ proc[w].sfresh
           /\ slices' = [slices EXCEPT ![k].by = Owner[w]]
           /\ Step(w, Goto(w, "freeze"), FALSE, {k})
  <2> DEFINE x == [slices[k] EXCEPT !.by = Owner[w]]
             r == Goto(w, "freeze")
  <2>1. k \in DOMAIN slices /\ (slices[k].frozen => proc[w].q = slices[k].qty)
    BY <1>1, <1>2 DEF Mine
  <2>2. slices' = [i \in DOMAIN slices |-> IF i = k THEN x ELSE slices[i]]
    BY <1>2 DEF IInv, SlicesOK, List
  <2>3. DOMAIN x = Row /\ x.frozen = slices[k].frozen /\ x.qty = slices[k].qty
    BY <2>1 DEF IInv, SlicesOK, Row
  <2>4. Calm(r) /\ r.pc = "freeze" /\ r.k = k /\ r.q = proc[w].q
    BY <1>1 DEF Goto, Calm, Fields
  <2>5. Step(w, r, FALSE, {k})
    BY <1>2
  <2> HIDE DEF x, r, k
  <2>6. SlicesOK' /\ Grown(slices, slices', {k}) /\ DOMAIN slices' = DOMAIN slices
    BY <2>2, <2>3, Written
  <2>7. slices'[k] = x
    BY <2>1, <2>2
  <2>8. Mine(r, slices')
    BY <2>1, <2>3, <2>4, <2>6, <2>7 DEF Mine
  <2> QED BY <1>1, <2>5, <2>6, <2>8, SliceStep
<1>3. CASE slices' = slices /\ Step(w, [Goto(w, "account") EXCEPT !.k = 0, !.sfresh = FALSE, !.q = 0], FALSE, {})
  <2>1. Plain([Goto(w, "account") EXCEPT !.k = 0, !.sfresh = FALSE, !.q = 0])
    BY <1>1 DEF Goto, Plain, Calm, Fields, Hot
  <2> QED BY <1>1, <1>3, <2>1, PlainStep
<1> QED BY <1>2, <1>3 DEF Claim

LEMMA FreezeOK == ASSUME IInv, NEW w \in Workers, Freeze(w) PROVE IInv'
<1> DEFINE k == proc[w].k
<1>1. Mine(proc[w], slices) /\ Calm(proc[w]) /\ proc[w].pc = "freeze" /\ child' = child
  BY DEF IInv, Mine, Freeze, At
<1>2. CASE proc[w].sfresh
  <2> DEFINE x == [slices[k] EXCEPT !.qty = proc[w].q, !.frozen = TRUE]
             r == Goto(w, "send")
  <2>1. k \in DOMAIN slices /\ (slices[k].frozen => proc[w].q = slices[k].qty)
    BY <1>1, <1>2 DEF Mine
  <2>2. /\ slices' = [i \in DOMAIN slices |-> IF i = k THEN x ELSE slices[i]]
        /\ Step(w, r, FALSE, {k})
    BY <1>2 DEF Freeze, IInv, SlicesOK, List
  <2>3. DOMAIN x = Row /\ x.frozen /\ x.qty = proc[w].q
    BY <2>1 DEF IInv, SlicesOK, Row
  <2>4. Calm(r) /\ r.pc = "send" /\ r.k = k /\ r.q = proc[w].q
    BY <1>1 DEF Goto, Calm, Fields
  <2> HIDE DEF x, r, k
  <2>5. SlicesOK' /\ Grown(slices, slices', {k}) /\ DOMAIN slices' = DOMAIN slices
    BY <2>1, <2>2, <2>3, Written
  <2>6. slices'[k] = x
    BY <2>1, <2>2
  <2>7. Mine(r, slices')
    BY <2>1, <2>3, <2>4, <2>5, <2>6 DEF Mine
  <2> QED BY <1>1, <2>2, <2>5, <2>7, SliceStep
<1>3. CASE ~ proc[w].sfresh
  BY <1>1, <1>3, LeavePlain, PlainStep DEF Freeze
<1> QED BY <1>2, <1>3

(* The order that is placed has the quantity of its frozen slice. *)
LEMMA SendOK == ASSUME IInv, NEW w \in Workers, Send(w) PROVE IInv'
<1> DEFINE k == proc[w].k
           answers == IF child[k].state # "none" THEN {child[k]}
                      ELSE {Placed(w)} \cup (IF "reject" \in Env THEN {Rejected(w)} ELSE {})
<1>1. slices' = slices /\ k \in DOMAIN slices /\ slices[k].frozen /\ slices[k].qty = proc[w].q
  BY DEF IInv, Mine, Send, At
<1>2. Fits(Placed(w), k) /\ Fits(Rejected(w), k)
  BY <1>1 DEF Fits, Placed, Rejected
<1>3. k \in 1 .. MaxSlices => Fits(child[k], k)
  BY DEF IInv, ChildOK, Fits
<1>4. CASE Answer(w, k, answers, "sent")
  <2>1. k \in 1 .. MaxSlices => \A c \in answers : Fits(c, k)
    BY <1>2, <1>3
  <2> HIDE DEF k, answers
  <2> QED BY <1>1, <1>4, <2>1, AnswerStep DEF Hot
<1>5. CASE /\ child' \in {child, [child EXCEPT ![k] = IF child[k].state = "none" THEN Placed(w) ELSE child[k]]}
           /\ Step(w, Leave(w), FALSE, {})
  <2>1. \A u \in Workers : Mine(proc[u], slices)'
    BY <1>1, <1>5, LeavePlain, PlainMine, GrownSame, StepMine
  <2>2. ChildOK' /\ QuantityFrozen'
    <3> DEFINE c == IF child[k].state = "none" THEN Placed(w) ELSE child[k]
    <3>1. k \in 1 .. MaxSlices => Fits(c, k)
      BY <1>2, <1>3
    <3>2. CASE child' = child
      BY <1>1, <3>2, GrownSame, ChildrenStay
    <3>3. CASE child' = [child EXCEPT ![k] = c]
      <4> HIDE DEF c, k
      <4> QED BY <1>1, <3>1, <3>3, OneChildMoves
    <3> QED BY <1>5, <3>2, <3>3
  <2> QED BY <1>1, <2>1, <2>2 DEF IInv, SlicesOK
<1> QED BY <1>4, <1>5 DEF Send

LEMMA SentOK == ASSUME IInv, NEW w \in Workers, Sent(w) PROVE IInv'
<1>1. Calm(proc[w])
  BY DEF IInv, Mine
<1>2. CASE proc[w].sfresh
  <2>1. PICK r : Plain(r) /\ Step(w, r, FALSE, {proc[w].k})
    <3>1. /\ Plain(Reloaded([Goto(w, "pause") EXCEPT !.why = "CHILD_REJECTED", !.after = "account", !.q = 0, !.view = Idle.view]))
          /\ Plain(Reloaded([Goto(w, "replan") EXCEPT !.after = "account", !.q = 0, !.view = Idle.view]))
      BY <1>1 DEF Goto, Reloaded, Plain, Calm, Fields, Hot
    <3> QED BY <1>2, <3>1 DEF Sent
  <2>2. SlicesOK' /\ Grown(slices, slices', {proc[w].k})
    BY <1>2, Viewed DEF Sent
  <2> QED BY <2>1, <2>2, PlainMine, SliceStep DEF Sent
<1>3. CASE ~ proc[w].sfresh
  BY <1>3, LeavePlain, PlainStep DEF Sent
<1> QED BY <1>2, <1>3

LEMMA OverOK == ASSUME IInv, NEW w \in Workers, Account(w) \/ Release(w) \/ Crash(w) PROVE IInv'
<1>1. CASE Account(w)
  BY <1>1, LeavePlain, PlainStep DEF Account
<1>2. CASE Release(w)
  BY <1>2, IdlePlain, PlainStep DEF Release
<1>3. CASE Crash(w)
  BY <1>3, IdlePlain, PlainStep DEF Crash
<1> QED BY <1>1, <1>2, <1>3

LEMMA FillOK == ASSUME IInv, NEW k \in 1 .. MaxSlices, Fill(k) PROVE IInv'
<1> DEFINE c == [child[k] EXCEPT !.traded = @ + 1]
<1>1. Fits(c, k)
  BY DEF Fill, IInv, ChildOK, Fits
<1>2. child' = [child EXCEPT ![k] = c] /\ UNCHANGED <<slices, proc>>
  BY DEF Fill
<1> HIDE DEF c
<1>3. ChildOK' /\ QuantityFrozen'
  BY <1>1, <1>2, OneChildMoves
<1> QED BY <1>2, <1>3 DEF IInv, SlicesOK

LEMMA OutsideOK ==
  ASSUME IInv, LeaseExpires \/ Pass \/ UNCHANGED vars
  PROVE  IInv'
<1>1. UNCHANGED <<slices, child, proc>>
  BY DEF LeaseExpires, Pass, vars
<1> QED BY <1>1 DEF IInv, SlicesOK, ChildOK, QuantityFrozen

LEMMA WorkerOK == ASSUME IInv, NEW w \in Workers, Running(w) PROVE IInv'
<1>1. CASE Planning(w)
  BY <1>1, EnsurePlanOK, InsertSliceOK, PlannedOK DEF Planning
<1>2. CASE Deciding(w) \/ Cancelling(w) \/ Reconciling(w)
  BY <1>2, DecidingOK, CancellingOK, ReconcilingOK
<1>3. CASE Submitting(w)
  BY <1>3, ReplanOK, AdaptedOK, PickOK, ClaimOK, FreezeOK, SendOK, SentOK DEF Submitting
<1>4. CASE Account(w) \/ Release(w)
  BY <1>4, OverOK
<1> QED BY <1>1, <1>2, <1>3, <1>4 DEF Running

LEMMA StepOK == IInv /\ [Next]_vars => IInv'
<1> SUFFICES ASSUME IInv, [Next]_vars PROVE IInv'
  OBVIOUS
<1>1. ASSUME NEW w \in Workers, Tick(w) \/ Cancel(w) \/ Resume(w) \/ Start(w) \/ Running(w) \/ Crash(w)
      PROVE  IInv'
  BY <1>1, BeginOK, WorkerOK, OverOK
<1>2. ASSUME NEW k \in 1 .. MaxSlices, Fill(k) PROVE IInv'
  BY <1>2, FillOK
<1>3. CASE LeaseExpires \/ Pass \/ UNCHANGED vars
  BY <1>3, OutsideOK
<1> QED BY <1>1, <1>2, <1>3 DEF Next

(* A child was started with the quantity its slice was frozen with, and    *)
(* the slice keeps both: store.ts freezeSlice and the key of the workflow. *)
THEOREM FrozenQuantityStands == Spec => []QuantityFrozen
<1>1. IInv => QuantityFrozen
  BY DEF IInv
<1> QED BY <1>1, InitOK, StepOK, PTL DEF Spec

-----------------------------------------------------------------------------
(* Calls that do not overlap: there is one worker, or every worker has its *)
(* own id and no lease runs out under a call. Then at most one call, a     *)
(* start apart, is under way: the one that holds the lease.                *)
Alone == \A u, w \in Workers : u = w
Apart ==
  Alone \/ /\ "slow" \notin Env /\ NoWorker \notin Workers
           /\ \A u, w \in Workers : Owner[u] = Owner[w] => u = w
Busy(r) == r.pc # "idle" /\ r.op # "start"
Turns ==
  Alone \/ /\ lease.holder \in Workers \cup {NoWorker}
           /\ \A w \in Workers : Busy(proc[w]) => lease.holder = w /\ ~ lease.expired

(* What a call may still do once the parent has ended. The call that holds *)
(* the lease found the parent open, and only its own writes end it, after  *)
(* which it leaves; a start, which takes none, only plans.                 *)
Used == {"pc", "op", "cur", "fresh", "after"}
Starting == {"ensure", "insert", "planned"}
Over == {"idle", "release"}

EndOK(r, p) ==
  /\ Used \subseteq DOMAIN r
  /\ r.fresh => r.cur = p
  /\ p.status \in Terminal => r.pc \in Over \/ r.op = "start"
  /\ r.op = "start" => r.pc \in Over \cup Starting /\ (r.pc = "insert" => r.after = "planned")

EndInv == "status" \in DOMAIN par /\ Turns /\ \A w \in Workers : EndOK(proc[w], par)

LEMMA OthersBusy ==
  ASSUME EndInv, NEW w \in Workers, NEW r, NEW pw, NEW W, Step(w, r, pw, W),
         NEW u \in Workers, u # w, Busy(proc'[u])
  PROVE  Busy(proc[u])
<1>1. Used \subseteq DOMAIN proc[u]
  BY DEF EndInv, EndOK
<1>2. proc'[u].pc = proc[u].pc /\ proc'[u].op = proc[u].op
  BY <1>1 DEF Step, Used
<1> QED BY <1>2 DEF Busy

LEMMA TurnStays ==
  ASSUME EndInv, NEW w \in Workers, NEW r, NEW pw, NEW W, Step(w, r, pw, W), lease' = lease,
         Busy(r) => Busy(proc[w])
  PROVE  Turns'
<1>1. ASSUME NEW u \in Workers, Busy(proc'[u]) PROVE Busy(proc[u])
  <2>1. CASE u = w
    BY <1>1, <2>1 DEF Step
  <2> QED BY <1>1, <2>1, OthersBusy
<1> QED BY <1>1 DEF EndInv, Turns, Alone

(* A lease is taken only when no call is under way. *)
LEMMA TurnBegins ==
  ASSUME Apart, EndInv, NEW w \in Workers, NEW op, NEW pc, Begin(w, op, pc)
  PROVE  Turns'
<1>1. PICK r : Step(w, r, TRUE, {}) /\ lease' = [holder |-> w, expired |-> FALSE] /\ ~ Busy(proc[w])
  BY DEF Begin, Busy, At
<1>2. ASSUME NEW u \in Workers, u # w, Busy(proc'[u]), ~ Alone PROVE FALSE
  <2>1. lease.holder = u /\ ~ lease.expired /\ u # NoWorker
    BY <1>1, <1>2, OthersBusy DEF EndInv, Turns, Apart
  <2>2. Owner[u] = Owner[w]
    BY <2>1 DEF Begin, LeaseFree
  <2> QED BY <1>2, <2>2 DEF Apart
<1> QED BY <1>1, <1>2 DEF EndInv, Turns, Alone

(* What the call that steps becomes. Only a call that holds the lease may  *)
(* end the parent.                                                         *)
LEMMA EndBecomes ==
  ASSUME EndInv, Turns', NEW w \in Workers, NEW r, NEW pw, NEW W, Step(w, r, pw, W),
         "status" \in DOMAIN par', EndOK(r, par'),
         \/ par' = par
         \/ pw /\ (par'.status \in Terminal => par.status \in Terminal \/ Busy(proc[w]))
  PROVE  EndInv'
<1>1. ASSUME NEW u \in Workers PROVE EndOK(proc'[u], par')
  <2>1. CASE u = w
    BY <2>1 DEF Step
  <2>2. CASE u # w
    <3>1. EndOK(proc[u], par)
      BY DEF EndInv
    <3>2. /\ Used \subseteq DOMAIN proc'[u] /\ proc'[u].pc = proc[u].pc /\ proc'[u].op = proc[u].op
          /\ proc'[u].cur = proc[u].cur /\ proc'[u].after = proc[u].after
          /\ proc'[u].fresh = (proc[u].fresh /\ ~ pw)
      BY <2>2, <3>1 DEF Step, EndOK, Used
    <3>3. Busy(proc[u]) => ~ Busy(proc[w])
      BY <2>2 DEF EndInv, Turns, Alone
    <3> QED BY <3>1, <3>2, <3>3 DEF EndOK, Busy, Over
  <2> QED BY <2>1, <2>2
<1> QED BY <1>1 DEF EndInv

LEMMA EndMoves ==
  ASSUME EndInv, NEW w \in Workers, NEW r, NEW pw, NEW W, Step(w, r, pw, W), lease' = lease,
         "status" \in DOMAIN par', EndOK(r, par'), Busy(r) => Busy(proc[w]),
         \/ par' = par
         \/ pw /\ (par'.status \in Terminal => par.status \in Terminal \/ Busy(proc[w]))
  PROVE  EndInv'
BY TurnStays, EndBecomes DEF EndInv

(* A call that goes on holds what it held. *)
Kept(r, w) == Used \subseteq DOMAIN r /\ r.op = proc[w].op /\ (r.fresh => r.cur = par)

LEMMA EndLeaves ==
  ASSUME EndInv, NEW w \in Workers, NEW pw, NEW W, Step(w, Leave(w), pw, W), ~ At(w, "idle"), lease' = lease,
         "status" \in DOMAIN par', par' = par \/ (pw /\ Busy(proc[w]))
  PROVE  EndInv'
<1>1. Used \subseteq DOMAIN Leave(w) /\ Leave(w).fresh = FALSE /\ Leave(w).pc = "release" /\ Leave(w).op = proc[w].op
  BY DEF Leave, Idle, Used
<1> HIDE DEF Leave
<1> QED BY <1>1, EndMoves DEF EndOK, Over, Busy, At

LEMMA EndGoes ==
  ASSUME EndInv, NEW w \in Workers, proc[w].pc \notin Over \cup Starting,
         NEW r, NEW pw, NEW W, Step(w, r, pw, W), Kept(r, w), par' = par, lease' = lease
  PROVE  EndInv'
<1>1. EndOK(proc[w], par)
  BY DEF EndInv
<1>2. proc[w].op # "start" /\ par.status \notin Terminal /\ Busy(proc[w])
  BY <1>1 DEF EndOK, Busy, Over
<1> QED BY <1>1, <1>2, EndMoves DEF EndOK, Kept, EndInv

(* A write of the parent: it may end it only if the call leaves. *)
LEMMA EndWrites ==
  ASSUME EndInv, NEW w \in Workers, proc[w].pc \notin Over \cup Starting,
         NEW new, NEW r, updateParent(w, new, r), Kept(r, w), "status" \in DOMAIN new, lease' = lease,
         proc[w].fresh /\ new.status \in Terminal => r.pc = "release"
  PROVE  EndInv'
<1>1. CASE proc[w].fresh
  <2> DEFINE s == [r EXCEPT !.cur = new, !.fresh = TRUE]
  <2>1. Step(w, s, TRUE, {}) /\ par' = new
    BY <1>1 DEF updateParent
  <2>2. Used \subseteq DOMAIN s /\ s.cur = new /\ s.pc = r.pc /\ s.op = proc[w].op
    BY DEF Kept, Used
  <2>3. proc[w].op # "start" /\ Busy(proc[w])
    BY DEF EndInv, EndOK, Busy, Over
  <2> HIDE DEF s
  <2>4. EndOK(s, par')
    BY <1>1, <2>1, <2>2, <2>3 DEF EndOK, Over
  <2> QED BY <2>1, <2>3, <2>4, EndMoves
<1>2. CASE ~ proc[w].fresh
  BY <1>2, EndLeaves DEF updateParent, EndInv, At, Over
<1> QED BY <1>1, <1>2

LEMMA KeptGoto ==
  ASSUME EndInv, NEW w \in Workers
  PROVE  /\ \A pc : Kept(Goto(w, pc), w) /\ Goto(w, pc).pc = pc
         /\ Kept(Leave(w), w) /\ Leave(w).pc = "release" /\ Kept(proc[w], w)
<1>1. Used \subseteq DOMAIN proc[w] /\ (proc[w].fresh => proc[w].cur = par)
  BY DEF EndInv, EndOK
<1>2. Kept(Leave(w), w) /\ Leave(w).pc = "release"
  BY DEF Kept, Leave, Idle, Used
<1>3. ASSUME NEW pc PROVE Kept(Goto(w, pc), w) /\ Goto(w, pc).pc = pc
  BY <1>1 DEF Kept, Goto, Used
<1>4. Kept(proc[w], w)
  BY <1>1 DEF Kept
<1> QED BY <1>2, <1>3, <1>4

(* Fields that a call uses besides. *)
LEMMA KeptReload == ASSUME NEW w \in Workers, NEW r, Kept(r, w) PROVE Kept(Reloaded(r), w)
  BY DEF Kept, Reloaded, Used

LEMMA EndViews ==
  ASSUME EndInv, NEW w \in Workers, proc[w].pc \notin Over \cup Starting,
         NEW r, Kept(r, w), applyView(w, r), par' = par, lease' = lease
  PROVE  EndInv'
<1> DEFINE s == [Reloaded(r) EXCEPT !.k = 0, !.view = Idle.view]
<1>1. Kept(s, w)
  BY KeptReload DEF Kept, Used
<1>2. Step(w, s, FALSE, {proc[w].k})
  BY DEF applyView
<1> HIDE DEF s
<1> QED BY <1>1, <1>2, EndGoes

LEMMA EndAnswers ==
  ASSUME EndInv, NEW w \in Workers, proc[w].pc \notin Over \cup Starting,
         NEW k, NEW outcomes, NEW pc, Answer(w, k, outcomes, pc), par' = par, lease' = lease
  PROVE  EndInv'
<1>1. PICK c : Step(w, [proc[w] EXCEPT !.pc = pc, !.k = k, !.view = View(c)], FALSE, {})
  BY DEF Answer
<1> DEFINE r == [proc[w] EXCEPT !.pc = pc, !.k = k, !.view = View(c)]
<1>2. Kept(r, w)
  BY KeptGoto DEF Kept, Used
<1>3. Step(w, r, FALSE, {})
  BY <1>1
<1> HIDE DEF r
<1> QED BY <1>2, <1>3, EndGoes

LEMMA EndPlans == ASSUME EndInv, NEW w \in Workers, Planning(w) PROVE EndInv'
<1>1. EndOK(proc[w], par) /\ "status" \in DOMAIN par
  BY DEF EndInv
<1>2. CASE EnsurePlan(w)
  <2>1. par' = par /\ lease' = lease /\ ~ At(w, "idle") /\ proc[w].pc = "ensure"
    BY <1>2 DEF EnsurePlan, At
  <2>2. CASE proc[w].op # "start" /\ Step(w, Goto(w, "started"), FALSE, {})
    <3>1. Kept(Goto(w, "started"), w) /\ par.status \notin Terminal /\ Busy(proc[w])
      BY <1>1, <2>1, <2>2, KeptGoto DEF EndOK, Over, Busy
    <3>2. EndOK(Goto(w, "started"), par')
      BY <2>1, <2>2, <3>1 DEF EndOK, Kept
    <3> QED BY <1>1, <2>1, <2>2, <3>1, <3>2, EndMoves
  <2>3. CASE Step(w, Leave(w), FALSE, {})
    BY <1>1, <2>1, <2>3, EndLeaves
  <2>4. ASSUME NEW t, NEW n, Step(w, [proc[w] EXCEPT !.pc = "insert", !.todo = t, !.at = 1, !.after = "planned", !.uns = n], FALSE, {})
        PROVE  EndInv'
    <3> DEFINE r == [proc[w] EXCEPT !.pc = "insert", !.todo = t, !.at = 1, !.after = "planned", !.uns = n]
    <3>1. Kept(r, w) /\ r.pc = "insert" /\ r.after = "planned" /\ Step(w, r, FALSE, {})
      BY <2>4, KeptGoto DEF Kept, Used
    <3> HIDE DEF r
    <3>2. EndOK(r, par') /\ (Busy(r) => Busy(proc[w]))
      BY <1>1, <2>1, <3>1 DEF EndOK, Kept, Over, Starting, Busy
    <3> QED BY <1>1, <2>1, <3>1, <3>2, EndMoves
  <2> QED BY <1>2, <2>2, <2>3, <2>4 DEF EnsurePlan
<1>3. CASE InsertSlice(w)
  <2>1. par' = par /\ lease' = lease /\ ~ At(w, "idle") /\ proc[w].pc = "insert"
    BY <1>3 DEF InsertSlice, At
  <2>2. CASE Step(w, Goto(w, proc[w].after), FALSE, {})
    <3>1. Kept(Goto(w, proc[w].after), w) /\ Goto(w, proc[w].after).pc = proc[w].after
      BY KeptGoto
    <3>2. EndOK(Goto(w, proc[w].after), par') /\ (Busy(Goto(w, proc[w].after)) => Busy(proc[w]))
      BY <1>1, <2>1, <3>1 DEF EndOK, Kept, Over, Starting, Busy
    <3> QED BY <1>1, <2>1, <2>2, <3>2, EndMoves
  <2>3. CASE Step(w, Leave(w), FALSE, {})
    BY <1>1, <2>1, <2>3, EndLeaves
  <2>4. CASE Step(w, [proc[w] EXCEPT !.todo = Tail(@), !.at = @ + 1], FALSE, {})
    <3> DEFINE r == [proc[w] EXCEPT !.todo = Tail(@), !.at = @ + 1]
    <3>1. Kept(r, w) /\ r.pc = "insert" /\ r.after = proc[w].after /\ Step(w, r, FALSE, {})
      BY <2>1, <2>4, KeptGoto DEF Kept, Used
    <3> HIDE DEF r
    <3>2. EndOK(r, par') /\ (Busy(r) => Busy(proc[w]))
      BY <1>1, <2>1, <3>1 DEF EndOK, Kept, Over, Starting, Busy
    <3> QED BY <1>1, <2>1, <3>1, <3>2, EndMoves
  <2> QED BY <1>3, <2>2, <2>3, <2>4 DEF InsertSlice
<1>4. CASE Planned(w)
  <2> DEFINE new == [proc[w].cur EXCEPT !.uns = proc[w].uns, !.reason = "OTHER"]
             r == IF proc[w].op = "start" THEN Leave(w)
                  ELSE [Goto(w, "started") EXCEPT !.uns = 0, !.at = 0, !.after = "submit"]
             s == [r EXCEPT !.cur = new, !.fresh = TRUE]
  <2>1. updateParent(w, new, r) /\ proc[w].pc = "planned" /\ lease' = lease /\ ~ At(w, "idle")
    BY <1>4 DEF Planned, At
  <2>2. Kept(r, w) /\ (r.op = "start" => r.pc = "release")
    BY KeptGoto DEF Kept, Used
  <2>3. CASE proc[w].fresh
    <3>1. new.status = par.status /\ "status" \in DOMAIN new
      BY <1>1, <2>3 DEF EndOK
    <3>2. par' = new /\ Step(w, s, TRUE, {})
      BY <2>1, <2>3 DEF updateParent
    <3>3. Used \subseteq DOMAIN s /\ s.cur = new /\ s.op = proc[w].op /\ (s.op = "start" => s.pc = "release")
      <4> HIDE DEF r, new
      <4> QED BY <2>2 DEF Kept, Used
    <3> HIDE DEF s, r, new
    <3>4. EndOK(s, par') /\ (Busy(s) => Busy(proc[w]))
      BY <1>1, <2>1, <3>1, <3>2, <3>3 DEF EndOK, Over, Starting, Busy
    <3> QED BY <2>1, <3>1, <3>2, <3>4, EndMoves
  <2>4. CASE ~ proc[w].fresh
    BY <1>1, <2>1, <2>4, EndLeaves DEF updateParent
  <2> QED BY <2>3, <2>4
<1>5. CASE Started(w)
  <2> DEFINE new == [proc[w].cur EXCEPT !.status = "RUNNING", !.reason = "OTHER"]
  <2>1. /\ updateParent(w, new, Goto(w, "safety")) /\ proc[w].pc = "started" /\ Kept(Goto(w, "safety"), w)
        /\ lease' = lease /\ ~ At(w, "idle")
    BY <1>5, KeptGoto DEF Started, At
  <2>2. proc[w].fresh => "status" \in DOMAIN new /\ new.status = "RUNNING"
    BY <1>1 DEF EndOK
  <2> HIDE DEF new
  <2>3. CASE ~ proc[w].fresh
    BY <1>1, <2>1, <2>3, EndLeaves DEF updateParent
  <2>4. CASE proc[w].fresh
    BY <2>1, <2>2, <2>4, EndWrites DEF Over, Starting, Terminal
  <2> QED BY <2>3, <2>4
<1> QED BY <1>2, <1>3, <1>4, <1>5 DEF Planning

LEMMA EndDecides == ASSUME EndInv, NEW w \in Workers, Deciding(w) PROVE EndInv'
<1>1. EndOK(proc[w], par) /\ "status" \in DOMAIN par /\ proc[w].pc \notin Over \cup Starting /\ lease' = lease /\ ~ At(w, "idle")
  BY DEF EndInv, Deciding, Stop, Expire, Hold, Proceed, CancelAsked, Resumed, At, Over, Starting
<1>2. ASSUME NEW why, NEW want, NEW live, Step(w, Ending(w, why, want, live), FALSE, {}), par' = par, lease' = lease
      PROVE  EndInv'
  <2>1. Kept(Ending(w, why, want, live), w)
    BY KeptGoto DEF Kept, Ending, Used
  <2> QED BY <1>1, <1>2, <2>1, EndGoes
<1>3. CASE Stop(w) \/ Expire(w) \/ Hold(w) \/ CancelAsked(w)
  BY <1>2, <1>3 DEF Stop, Expire, Hold, CancelAsked
<1>4. ASSUME NEW r, Kept(r, w), updateParent(w, [proc[w].cur EXCEPT !.status = "RUNNING", !.reason = "OTHER"], r)
      PROVE  EndInv'
  <2> DEFINE new == [proc[w].cur EXCEPT !.status = "RUNNING", !.reason = "OTHER"]
  <2>1. proc[w].fresh => "status" \in DOMAIN new /\ new.status = "RUNNING"
    BY <1>1 DEF EndOK
  <2>2. updateParent(w, new, r)
    BY <1>4
  <2> HIDE DEF new
  <2>3. CASE ~ proc[w].fresh
    BY <1>1, <2>2, <2>3, EndLeaves DEF updateParent
  <2>4. CASE proc[w].fresh
    BY <1>1, <1>4, <2>1, <2>2, <2>4, EndWrites DEF Terminal
  <2> QED BY <2>3, <2>4
<1>5. CASE Proceed(w)
  <2> DEFINE next == [Goto(w, "polling") EXCEPT !.list = LiveIn(slices)]
  <2>1. Kept(next, w)
    BY KeptGoto DEF Kept, Used
  <2>2. \/ updateParent(w, [proc[w].cur EXCEPT !.status = "RUNNING", !.reason = "OTHER"], next)
        \/ par' = par /\ lease' = lease /\ Step(w, next, FALSE, {})
    BY <1>5 DEF Proceed
  <2> HIDE DEF next
  <2> QED BY <1>1, <1>4, <2>1, <2>2, EndGoes
<1>6. CASE Resumed(w)
  BY <1>4, <1>6, KeptGoto DEF Resumed
<1> QED BY <1>3, <1>5, <1>6 DEF Deciding

(* A pause writes what is not an end. *)
LEMMA EndPauses ==
  ASSUME EndInv, NEW w \in Workers, proc[w].pc \notin Over \cup Starting,
         NEW why, NEW r, Kept(r, w), Pause(w, why, r), lease' = lease
  PROVE  EndInv'
<1> DEFINE new == [proc[w].cur EXCEPT !.status = "PAUSED", !.reason = why]
<1>1. EndOK(proc[w], par) /\ "status" \in DOMAIN par /\ ~ At(w, "idle")
  BY DEF EndInv, At, Over
<1>2. proc[w].fresh => "status" \in DOMAIN new /\ new.status = "PAUSED"
  BY <1>1 DEF EndOK
<1>3. \/ par' = par /\ Step(w, r, FALSE, {})
      \/ updateParent(w, new, r)
  BY DEF Pause
<1> HIDE DEF new
<1>4. CASE updateParent(w, new, r) /\ ~ proc[w].fresh
  BY <1>1, <1>4, EndLeaves DEF updateParent
<1>5. CASE updateParent(w, new, r) /\ proc[w].fresh
  BY <1>2, <1>5, EndWrites DEF Terminal
<1> QED BY <1>3, <1>4, <1>5, EndGoes

LEMMA EndCancels == ASSUME EndInv, NEW w \in Workers, Cancelling(w) PROVE EndInv'
<1>1. EndOK(proc[w], par) /\ "status" \in DOMAIN par /\ proc[w].pc \notin Over \cup Starting /\ lease' = lease /\ ~ At(w, "idle")
  BY DEF EndInv, Cancelling, CancelChild, ChildCancelled, NotConfirmed, DropPending, Close, At, Over, Starting
<1>2. CASE CancelChild(w)
  <2> DEFINE k == Min(proc[w].list)
             r == [proc[w] EXCEPT !.list = @ \ {k}, !.ok = FALSE]
  <2>1. Kept(r, w)
    BY KeptGoto DEF Kept, Used
  <2>2. par' = par /\ lease' = lease /\ (Answer(w, k, CancelOutcomes(child[k]), "cancelled") \/ Step(w, r, FALSE, {}))
    BY <1>2 DEF CancelChild
  <2> HIDE DEF r
  <2> QED BY <1>1, <2>1, <2>2, EndAnswers, EndGoes
<1>3. CASE ChildCancelled(w)
  <2> DEFINE r == [proc[w] EXCEPT !.pc = "cancelling", !.list = @ \ {proc[w].k},
                                  !.ok = @ /\ proc[w].view.state \in ChildEnds]
  <2>1. Kept(r, w)
    BY KeptGoto DEF Kept, Used
  <2>2. applyView(w, r) /\ par' = par /\ lease' = lease
    BY <1>3 DEF ChildCancelled
  <2> HIDE DEF r
  <2> QED BY <1>1, <2>1, <2>2, EndViews
<1>4. CASE NotConfirmed(w)
  BY <1>1, <1>4, KeptGoto, EndPauses DEF NotConfirmed
<1>5. CASE DropPending(w)
  BY <1>1, <1>5, KeptGoto, KeptReload, EndGoes DEF DropPending
<1>6. CASE Close(w)
  <2>1. PICK new : updateParent(w, new, Leave(w)) /\ "status" \in DOMAIN new
    BY <1>6 DEF Close
  <2> QED BY <1>1, <2>1, KeptGoto, EndWrites
<1> QED BY <1>2, <1>3, <1>4, <1>5, <1>6 DEF Cancelling

LEMMA EndReconciles == ASSUME EndInv, NEW w \in Workers, Reconciling(w) PROVE EndInv'
<1>1. EndOK(proc[w], par) /\ "status" \in DOMAIN par /\ proc[w].pc \notin Over \cup Starting /\ lease' = lease /\ ~ At(w, "idle")
  BY DEF EndInv, Reconciling, PollChild, ChildPolled, Boundary, SliceEnded, PauseNow, At, Over, Starting
<1>2. CASE PollChild(w)
  BY <1>1, <1>2, EndAnswers, EndLeaves DEF PollChild
<1>3. CASE ChildPolled(w)
  <2> DEFINE r == [proc[w] EXCEPT !.pc = IF par.status \in Terminal THEN "release" ELSE "polling",
                                  !.list = @ \ {proc[w].k}]
  <2>1. Kept(r, w)
    BY KeptGoto DEF Kept, Used
  <2>2. applyView(w, r) /\ par' = par /\ lease' = lease
    BY <1>3 DEF ChildPolled
  <2> HIDE DEF r
  <2> QED BY <1>1, <2>1, <2>2, EndViews
<1>4. CASE Boundary(w)
  <2> DEFINE k == Min(LiveIn(slices))
             r == [Goto(w, "replan") EXCEPT !.after = "submit"]
             s == [Goto(w, "pause") EXCEPT !.why = "CANCEL_UNCONFIRMED", !.after = "release"]
  <2>1. Kept(r, w) /\ Kept(s, w)
    BY KeptGoto DEF Kept, Used
  <2>2. par' = par /\ lease' = lease /\ (Step(w, r, FALSE, {}) \/ Step(w, s, FALSE, {}) \/ Answer(w, k, CancelOutcomes(child[k]), "ended"))
    BY <1>4 DEF Boundary
  <2> HIDE DEF r, s
  <2> QED BY <1>1, <2>1, <2>2, EndGoes, EndAnswers
<1>5. CASE SliceEnded(w)
  <2> DEFINE r == [proc[w] EXCEPT !.pc = "replan", !.after = "submit"]
             s == [proc[w] EXCEPT !.pc = "pause", !.why = "CANCEL_UNCONFIRMED", !.after = "release"]
  <2>1. Kept(r, w) /\ Kept(s, w)
    BY KeptGoto DEF Kept, Used
  <2>2. par' = par /\ lease' = lease /\ (applyView(w, r) \/ applyView(w, s))
    BY <1>5 DEF SliceEnded
  <2> HIDE DEF r, s
  <2> QED BY <1>1, <2>1, <2>2, EndViews
<1>6. CASE PauseNow(w)
  BY <1>1, <1>6, KeptGoto, EndPauses DEF PauseNow
<1> QED BY <1>2, <1>3, <1>4, <1>5, <1>6 DEF Reconciling

LEMMA EndSubmits == ASSUME EndInv, NEW w \in Workers, Submitting(w) PROVE EndInv'
<1>1. EndOK(proc[w], par) /\ "status" \in DOMAIN par /\ proc[w].pc \notin Over \cup Starting /\ lease' = lease /\ ~ At(w, "idle")
  BY DEF EndInv, Submitting, Replan, Adapted, Pick, Claim, Freeze, Send, Sent, At, Over, Starting
<1>2. CASE Replan(w)
  <2>1. ASSUME NEW t, NEW a, NEW n, NEW pc
        PROVE  Kept([proc[w] EXCEPT !.pc = "insert", !.todo = t, !.at = a, !.uns = n, !.after = pc], w)
    BY KeptGoto DEF Kept, Used
  <2>2. \/ \E pc : Step(w, Goto(w, pc), FALSE, {})
        \/ \E t, a, n, pc : Step(w, [proc[w] EXCEPT !.pc = "insert", !.todo = t, !.at = a, !.uns = n, !.after = pc],
                                FALSE, Loose(slices))
    BY <1>2 DEF Replan
  <2>3. PICK r, W : Kept(r, w) /\ Step(w, r, FALSE, W)
    BY <2>1, <2>2, KeptGoto
  <2> QED BY <1>1, <1>2, <2>3, EndGoes DEF Replan
<1>3. CASE Adapted(w)
  <2> DEFINE next == IF At(w, "readapted") THEN "account"
                     ELSE IF proc[w].cur.status # "RUNNING" THEN "release" ELSE "submit"
             r == [Goto(w, next) EXCEPT !.uns = 0, !.at = 0, !.after = "submit"]
             new == [proc[w].cur EXCEPT !.uns = proc[w].uns, !.reason = "OTHER"]
  <2>1. Kept(r, w)
    BY KeptGoto DEF Kept, Used
  <2>2. updateParent(w, new, r)
    BY <1>3 DEF Adapted
  <2>3. proc[w].fresh => "status" \in DOMAIN new /\ new.status = par.status
    BY <1>1 DEF EndOK
  <2>4. par.status \notin Terminal
    BY <1>1 DEF EndOK
  <2> HIDE DEF r, new, next
  <2>5. CASE ~ proc[w].fresh
    BY <1>1, <2>2, <2>5, EndLeaves DEF updateParent
  <2> QED BY <1>1, <2>1, <2>2, <2>3, <2>4, <2>5, EndWrites
<1>4. CASE Pick(w)
  <2>1. ASSUME NEW k, NEW q PROVE Kept([proc[w] EXCEPT !.pc = "claim", !.k = k, !.sfresh = TRUE, !.q = q], w)
    BY KeptGoto DEF Kept, Used
  <2>2. Kept([proc[w] EXCEPT !.pc = "pause", !.why = "OTHER", !.after = "account"], w)
    BY KeptGoto DEF Kept, Used
  <2>3. \/ Step(w, Goto(w, "account"), FALSE, {})
        \/ \E k, q : Step(w, [proc[w] EXCEPT !.pc = "claim", !.k = k, !.sfresh = TRUE, !.q = q], FALSE, {})
        \/ Step(w, [proc[w] EXCEPT !.pc = "pause", !.why = "OTHER", !.after = "account"], FALSE, {})
    BY <1>4 DEF Pick
  <2>4. PICK r : Kept(r, w) /\ Step(w, r, FALSE, {})
    BY <2>1, <2>2, <2>3, KeptGoto
  <2> QED BY <1>1, <1>4, <2>4, EndGoes DEF Pick
<1>5. CASE Claim(w)
  <2>1. Kept([Goto(w, "account") EXCEPT !.k = 0, !.sfresh = FALSE, !.q = 0], w)
    BY KeptGoto DEF Kept, Used
  <2> QED BY <1>1, <1>5, <2>1, KeptGoto, EndGoes DEF Claim
<1>6. CASE Freeze(w)
  BY <1>1, <1>6, KeptGoto, EndGoes, EndLeaves DEF Freeze
<1>7. CASE Send(w)
  BY <1>1, <1>7, EndAnswers, EndLeaves DEF Send
<1>8. CASE Sent(w)
  <2> DEFINE r == [Goto(w, "pause") EXCEPT !.why = "CHILD_REJECTED", !.after = "account", !.q = 0, !.view = Idle.view]
             s == [Goto(w, "replan") EXCEPT !.after = "account", !.q = 0, !.view = Idle.view]
  <2>1. Kept(r, w) /\ Kept(s, w)
    BY KeptGoto DEF Kept, Used
  <2>2. \/ Step(w, Reloaded(r), FALSE, {proc[w].k})
        \/ Step(w, Reloaded(s), FALSE, {proc[w].k})
        \/ Step(w, Leave(w), FALSE, {})
    BY <1>8 DEF Sent
  <2>3. par' = par
    BY <1>8 DEF Sent
  <2> HIDE DEF r, s
  <2>4. Kept(Reloaded(r), w) /\ Kept(Reloaded(s), w)
    BY <2>1, KeptReload
  <2> QED BY <1>1, <2>2, <2>3, <2>4, EndGoes, EndLeaves
<1> QED BY <1>2, <1>3, <1>4, <1>5, <1>6, <1>7, <1>8 DEF Submitting

(* A call begins with an open parent, a start with any. *)
LEMMA EndBegins ==
  ASSUME Apart, EndInv, NEW w \in Workers, Tick(w) \/ Cancel(w) \/ Resume(w) \/ Start(w)
  PROVE  EndInv'
<1>1. CASE Start(w)
  <2> DEFINE r == [Idle EXCEPT !.pc = "ensure", !.op = "start", !.cur = par, !.fresh = TRUE, !.now = clock]
  <2>1. Used \subseteq DOMAIN r /\ r.pc = "ensure" /\ r.op = "start" /\ r.cur = par
    BY DEF Idle, Used
  <2>2. Step(w, r, FALSE, {}) /\ par' = par /\ lease' = lease
    BY <1>1 DEF Start
  <2> HIDE DEF r
  <2>3. EndOK(r, par') /\ ~ Busy(r)
    BY <2>1, <2>2 DEF EndOK, Starting, Busy
  <2>4. "status" \in DOMAIN par'
    BY <2>2 DEF EndInv
  <2> QED BY <2>2, <2>3, <2>4, EndMoves
<1>2. ASSUME NEW op, NEW pc, op # "start", Begin(w, op, pc) PROVE EndInv'
  <2> DEFINE r == [Idle EXCEPT !.pc = pc, !.op = op, !.cur = par, !.fresh = TRUE, !.now = clock]
  <2>1. Used \subseteq DOMAIN r /\ r.op = op /\ r.cur = par
    BY DEF Idle, Used
  <2>2. Step(w, r, TRUE, {}) /\ par' = par /\ par.status \in Actionable
    BY <1>2 DEF Begin
  <2> HIDE DEF r
  <2>3. EndOK(r, par')
    BY <1>2, <2>1, <2>2 DEF EndOK, Actionable, Terminal
  <2> QED BY <1>2, <2>2, <2>3, TurnBegins, EndBecomes DEF EndInv
<1>3. CASE Tick(w)
  BY <1>2, <1>3 DEF Tick
<1>4. CASE Cancel(w) \/ Resume(w)
  BY <1>2, <1>4 DEF Cancel, Resume
<1> QED BY <1>1, <1>3, <1>4

(* A call ends: it gives the lease back, if it holds it, or it died. *)
LEMMA EndOver ==
  ASSUME EndInv, NEW w \in Workers, Release(w) \/ Crash(w)
  PROVE  EndInv'
<1>1. PICK pw : Step(w, Idle, pw, {}) /\ par' = par
  BY DEF Release, Crash
<1>2. EndOK(Idle, par') /\ ~ Busy(Idle)
  BY DEF EndOK, Idle, Used, Over, Busy
<1>3. CASE lease' = lease
  BY <1>1, <1>2, <1>3, EndMoves DEF EndInv
<1>4. CASE lease.holder = w /\ lease' = [holder |-> NoWorker, expired |-> FALSE]
  <2>1. ASSUME NEW u \in Workers, ~ Alone PROVE ~ Busy(proc'[u])
    <3>1. CASE u = w
      BY <1>1, <1>2, <3>1 DEF Step
    <3>2. CASE u # w
      BY <1>1, <1>4, <2>1, <3>2, OthersBusy DEF EndInv, Turns
    <3> QED BY <3>1, <3>2
  <2>2. Turns'
    BY <1>4, <2>1 DEF Turns, Alone
  <2> QED BY <1>1, <1>2, <2>2, EndBecomes DEF EndInv
<1> QED BY <1>3, <1>4 DEF Release, Crash

LEMMA EndStep == ASSUME Apart, EndInv, [Next]_vars PROVE EndInv'
<1>1. ASSUME NEW w \in Workers, Account(w) PROVE EndInv'
  <2>1. /\ lease' = lease /\ ~ At(w, "idle")
        /\ \/ par' = par /\ Step(w, Leave(w), FALSE, {})
           \/ par' = reconcileParent(par, slices, proc[w].now) /\ Step(w, Leave(w), TRUE, {})
    BY <1>1 DEF Account, At
  <2>2. "status" \in DOMAIN reconcileParent(par, slices, proc[w].now)
    BY DEF reconcileParent, EndInv
  <2>3. Busy(proc[w])
    BY <1>1 DEF Account, At, EndInv, EndOK, Over, Starting, Busy
  <2> QED BY <2>1, <2>2, <2>3, EndLeaves DEF EndInv
<1>2. ASSUME UNCHANGED <<par, lease, proc>> PROVE EndInv'
  BY <1>2 DEF EndInv, Turns, Alone
<1>3. Pass \/ (\E k \in 1 .. MaxSlices : Fill(k)) \/ UNCHANGED vars => UNCHANGED <<par, lease, proc>>
  BY DEF Pass, Fill, vars
<1>4. CASE LeaseExpires
  <2>1. par' = par /\ proc' = proc /\ lease' = [lease EXCEPT !.expired = TRUE]
    BY <1>4 DEF LeaseExpires
  <2>2. ASSUME ~ Alone PROVE \A w \in Workers : ~ Busy(proc[w])
    BY <1>4, <2>2 DEF LeaseExpires, Apart, At, Busy, EndInv, Turns
  <2>3. ~ Alone => lease'.holder \in Workers \cup {NoWorker}
    BY <1>4, <2>1 DEF EndInv, Turns
  <2>4. Turns'
    BY <2>1, <2>2, <2>3 DEF Turns, Alone
  <2> QED BY <2>1, <2>4 DEF EndInv
<1> QED BY <1>1, <1>2, <1>3, <1>4, EndOver, EndBegins, EndPlans, EndDecides, EndCancels, EndReconciles, EndSubmits
        DEF Next, Running

LEMMA EndStarts == Init => EndInv
<1>1. Used \subseteq DOMAIN Idle /\ Idle.fresh = FALSE /\ Idle.op = "tick" /\ Idle.pc = "idle"
  BY DEF Idle, Used
<1> QED BY <1>1 DEF Init, EndInv, EndOK, Over, Turns, Busy, Terminal

(* What a step does to a parent that has ended: it may only note the plan  *)
(* of a start that came late.                                              *)
LEMMA EndHolds ==
  ASSUME EndInv, [Next]_vars, par.status \in Terminal
  PROVE  par'.status = par.status
<1>1. ASSUME NEW w \in Workers, Running(w) PROVE par'.status = par.status
  <2>1. EndOK(proc[w], par) /\ "status" \in DOMAIN par
    BY DEF EndInv
  <2>2. proc[w].pc \in Over \cup Starting
    BY <2>1 DEF EndOK
  <2>3. ~ (Started(w) \/ Deciding(w) \/ Cancelling(w) \/ Reconciling(w) \/ Submitting(w) \/ Account(w))
    BY <2>2 DEF Over, Starting, At, Started, Deciding, Stop, Expire, Hold, Proceed, CancelAsked, Resumed,
       Cancelling, CancelChild, ChildCancelled, NotConfirmed, DropPending, Close,
       Reconciling, PollChild, ChildPolled, Boundary, SliceEnded, PauseNow,
       Submitting, Replan, Adapted, Pick, Claim, Freeze, Send, Sent, Account
  <2>4. CASE Planned(w)
    <3> DEFINE new == [proc[w].cur EXCEPT !.uns = proc[w].uns, !.reason = "OTHER"]
    <3>1. par' = par \/ (proc[w].fresh /\ par' = new)
      BY <2>4 DEF Planned, updateParent
    <3>2. proc[w].fresh => new.status = par.status
      BY <2>1 DEF EndOK
    <3> QED BY <3>1, <3>2
  <2>5. CASE EnsurePlan(w) \/ InsertSlice(w) \/ Release(w)
    BY <2>5 DEF EnsurePlan, InsertSlice, Release
  <2> QED BY <1>1, <2>3, <2>4, <2>5 DEF Running, Planning
<1>2. ASSUME NEW w \in Workers, Tick(w) \/ Cancel(w) \/ Resume(w) \/ Start(w) \/ Crash(w) PROVE par' = par
  BY <1>2 DEF Tick, Cancel, Resume, Start, Crash, Begin
<1>3. LeaseExpires \/ Pass \/ (\E k \in 1 .. MaxSlices : Fill(k)) \/ UNCHANGED vars => par' = par
  BY DEF LeaseExpires, Pass, Fill, vars
<1> QED BY <1>1, <1>2, <1>3 DEF Next

(* While calls do not overlap, a parent that ended stays as it ended,      *)
(* whatever ticks, cancels, resumes, crashes and starts, late ones too,    *)
(* follow (tickLeased, cancelParent, persistReconcile of the scheduler).   *)
THEOREM EndStays == ASSUME Apart PROVE Spec => EndIsFinal
<1>1. EndInv /\ [Next]_vars => EndInv'
  BY EndStep
<1>2. EndInv /\ [Next]_vars => [par.status \in Terminal => par'.status = par.status]_vars
  BY EndHolds
<1> QED BY <1>1, <1>2, EndStarts, PTL DEF Spec, EndIsFinal

-----------------------------------------------------------------------------
(* The books of the scheduler, while calls do not overlap, none crashes    *)
(* and the start of a child answers. Between two steps of a call they are  *)
(* even, or the call is at a place from which it makes them even before it *)
(* looks at them, or ends the parent.                                      *)
Sober == (\E w : Workers = {w}) /\ MaxCrashes = 0 /\ "throw" \notin Env

(* What a slice may still cost: all of it until it has ended, then what it *)
(* was filled with.                                                        *)
Unended == {"PENDING", "SUBMITTED", "PARTIAL"}
Bulk(x) == IF x.status \in Unended THEN x.qty ELSE x.filled
Booked(s) == Steps([k \in DOMAIN s |-> Bulk(s[k])])
Even(q, s) == IF q.uns = Unplanned THEN s = <<>> ELSE Booked(s) + q.uns = Target

Parent(q, s) ==
  /\ q \in [status : Actionable \cup Terminal, reason : Reasons, uns : Unplanned .. Target, filled : 0 .. Target]
  /\ q.status \in Terminal => LiveIn(s) = {}
  /\ q.status = "COMPLETED" => Filled(s) = Target
  /\ "reject" \notin Env => q.reason \notin {"INVARIANT_BROKEN", "OVERFILL"}

SliceRow(x) ==
  /\ x \in [qty : 0 .. Target, filled : 0 .. Target, at : 0 .. Deadline, status : SliceStates,
            frozen : BOOLEAN, by : {Owner[w] : w \in Workers} \cup {NoWorker}]
  /\ x.filled <= x.qty /\ (x.status = "PENDING" => x.filled = 0)
Rows(s) ==
  /\ List(s) /\ Len(s) <= MaxSlices /\ \A k \in DOMAIN s : SliceRow(s[k])
  /\ \A i, j \in LiveIn(s) : i = j
  /\ Booked(s) <= Target

ChildRow(c) ==
  /\ c \in [state : {"none", "open"} \cup ChildEnds, qty : 0 .. Target,
            traded : 0 .. Target, filled : 0 .. Target, since : 0 .. Deadline]
  /\ c.filled <= c.traded /\ c.traded <= c.qty
  /\ c.state \in ChildEnds => c.filled = c.traded
  /\ c.state = "DONE" => c.traded = c.qty
  /\ c.state = "none" => c.traded = 0
Children(c) == c = [k \in 1 .. MaxSlices |-> c[k]] /\ \A k \in 1 .. MaxSlices : ChildRow(c[k])

(* A row says of its child what the child last answered, but for the slice *)
(* of which the call holds an answer that it has not written yet.          *)
Views == {"polled", "ended", "cancelled", "sent"}
Agrees(x, c) ==
  IF c.state = "none" THEN x.filled = 0 /\ x.status \in {"PENDING", "SKIPPED", "CANCELLED"}
  ELSE x.frozen /\ x.qty = c.qty /\ x.filled = c.filled /\ x.status = SliceStatus(View(c))
Awaits(p, x, c) ==
  /\ c.state # "none" /\ x.frozen /\ x.qty = c.qty /\ x.filled <= c.filled /\ p.view = View(c)
  /\ IF p.pc = "sent" THEN x.status = "PENDING" ELSE x.status \in {"SUBMITTED", "PARTIAL"}
Hung(p, k) == p.pc \in Views /\ p.k = k
Linked(p, s, c) ==
  \A k \in 1 .. MaxSlices :
    /\ k \notin DOMAIN s => c[k].state = "none"
    /\ k \in DOMAIN s => IF Hung(p, k) THEN Awaits(p, s[k], c[k]) ELSE Agrees(s[k], c[k])

(* The call is the only writer, so that its copies are current. A start    *)
(* may meet a parent that ended, but then none of its slices.              *)
Names == {"pc", "op", "cur", "fresh", "now", "list", "ok", "why", "want",
          "k", "sfresh", "q", "view", "todo", "at", "uns", "after"}
Call(p, q) ==
  /\ DOMAIN p = Names /\ p.now \in 0 .. Deadline
  /\ p.op = "start" => p.pc \in Over \cup Starting
  /\ p.pc \notin Over =>
       /\ p.fresh /\ p.cur = q
       /\ IF p.op = "start" THEN q.status # "COMPLETED" ELSE q.status \in Actionable

(* A rejected child leaves the books uneven and no child.                  *)
Uneven(q, s) == "reject" \in Env /\ LiveIn(s) = {} /\ q.uns # Unplanned

Levels == {"safety", "cancel", "resume", "started", "submit", "claim", "freeze", "polled", "ended", "cancelled"}
Adding == {"planned", "adapted", "readapted"}
Tells == {"polling", "cancelling", "close", "pause", "account", "replan"}
Sending == {"claim", "freeze", "send", "sent"}
Stops == {"CANCEL_UNCONFIRMED", "OTHER", "CHILD_REJECTED"}
Wants == {"PAUSED", "CANCELLED", "EXPIRED"}

Ahead(todo) == [i \in 1 .. Len(todo) |-> todo[i].qty]
Todo(x) == DOMAIN x = {"qty", "at"} /\ x.qty \in 0 .. Target /\ x.at \in 0 .. Deadline

(* A plan is written row by row.                                           *)
Inserting(p, s) ==
  /\ p.after \in Adding /\ (p.op = "start" => p.after = "planned")
  /\ List(p.todo) /\ (\A i \in DOMAIN p.todo : Todo(p.todo[i]))
  /\ p.at = Len(s) + 1 /\ p.uns \in 0 .. Target
  /\ Booked(s) + Steps(Ahead(p.todo)) + p.uns = Target

(* The slices that are still to be asked; what was not confirmed is live.  *)
Listing(p, s) ==
  /\ p.list \subseteq LiveIn(s)
  /\ p.pc \in {"cancelling", "cancelled"} =>
       /\ p.want \in Wants /\ p.ok \in BOOLEAN
       /\ p.want # "PAUSED" /\ p.ok => LiveIn(s) \subseteq p.list
       /\ p.list # {} \/ p.pc = "cancelled" => p.ok

Closing(p, s) ==
  /\ p.want \in Wants
  /\ p.want # "PAUSED" => LiveIn(s) = {}
  /\ \A k \in DOMAIN s : s[k].status # "PENDING"

(* The slice that is about to be sent, with no other on its way.           *)
Submits(p, q, s) ==
  /\ p.sfresh /\ p.k \in DOMAIN s /\ s[p.k].status = "PENDING" /\ LiveIn(s) = {} /\ q.uns # Unplanned
  /\ p.pc \in {"claim", "freeze"} => ~ s[p.k].frozen /\ p.q \in 0 .. s[p.k].qty
  /\ p.pc = "send" => s[p.k].frozen /\ p.q = s[p.k].qty
  /\ p.pc = "sent" => p.view.state = "open" \/ "reject" \in Env

Stage(p, q, s) ==
  /\ p.pc \in Over \cup Starting \cup Levels \cup Adding \cup Tells \cup Sending
  /\ p.pc \in Over \cup {"ensure"} => Even(q, s) \/ q.status \in Terminal
  /\ p.pc \in Levels => Even(q, s)
  /\ p.pc = "insert" => Inserting(p, s)
  /\ p.pc \in Adding => p.uns \in 0 .. Target /\ Booked(s) + p.uns = Target
  /\ p.pc \in {"polling", "cancelling", "polled", "cancelled"} => Listing(p, s)
  /\ p.pc = "polling" => Even(q, s) \/ LiveIn(s) = {}
  /\ p.pc = "cancelling" => Even(q, s) \/ (LiveIn(s) = {} /\ p.ok)
  /\ p.pc = "close" => Closing(p, s)
  /\ p.pc = "pause" =>
       /\ p.why \in Stops /\ p.after \in {"release", "account"}
       /\ Even(q, s) \/ (p.after = "account" /\ Uneven(q, s))
  /\ p.pc = "account" => Even(q, s) \/ Uneven(q, s)
  /\ p.pc = "replan" => p.after \in {"submit", "account"}
  /\ p.pc \in Sending => Submits(p, q, s)
  /\ p.pc \in Views => p.k \in DOMAIN s

(* Only the slice on its way is frozen and not yet sent.                   *)
Frozen(p, s) == \A k \in DOMAIN s : s[k].status = "PENDING" /\ s[k].frozen => p.pc \in {"send", "sent"} /\ p.k = k

Around ==
  /\ lease \in [holder : Workers \cup {NoWorker}, expired : BOOLEAN]
  /\ clock \in 0 .. Deadline /\ crashes = 0

Books(w) ==
  /\ Parent(par, slices) /\ Rows(slices) /\ Children(child) /\ Linked(proc[w], slices, child)
  /\ Call(proc[w], par) /\ Stage(proc[w], par, slices) /\ Frozen(proc[w], slices) /\ Around

-----------------------------------------------------------------------------
(* Lists of slices and their sums *)

LEMMA ListLen ==
  ASSUME NEW s, List(s)
  PROVE  Len(s) \in Nat /\ DOMAIN s = 1 .. Len(s) /\ s = [i \in 1 .. Len(s) |-> s[i]]
<1>1. PICK n \in Nat : DOMAIN s = 1 .. n /\ s = [i \in 1 .. n |-> s[i]]
  BY DEF List
<1> DEFINE S == {s[i] : i \in 1 .. n}
<1>2. s \in Seq(S)
  BY <1>1
<1> HIDE DEF S
<1>3. Len(s) = n
  <2>1. DOMAIN s = 1 .. Len(s) /\ Len(s) \in Nat
    BY <1>2, LenProperties
  <2> QED BY <1>1, <2>1
<1> QED BY <1>1, <1>3

LEMMA ListNone == List(<<>>) /\ DOMAIN <<>> = {} /\ Len(<<>>) = 0 /\ LiveIn(<<>>) = {}
<1>1. DOMAIN <<>> = 1 .. 0 /\ <<>> = [i \in 1 .. 0 |-> <<>>[i]] /\ 0 \in Nat
  OBVIOUS
<1>2. List(<<>>)
  BY <1>1 DEF List
<1> QED BY <1>1, <1>2 DEF LiveIn

(* The rows of a list, with what is read of them.                          *)
LEMMA RowTyped ==
  ASSUME NEW x, SliceRow(x)
  PROVE  /\ x.qty \in 0 .. Target /\ x.filled \in 0 .. Target /\ x.filled <= x.qty
         /\ x.status \in SliceStates /\ x.frozen \in BOOLEAN /\ Bulk(x) \in 0 .. Target /\ x.filled <= Bulk(x)
         /\ Open(x) = x.qty - x.filled
<1>1. x.qty \in 0 .. Target /\ x.filled \in 0 .. Target /\ x.filled <= x.qty /\ x.status \in SliceStates /\ x.frozen \in BOOLEAN
  BY DEF SliceRow
<1>2. Target \in Nat
  BY TwapAssumption
<1>3. x.qty - x.filled >= 0
  BY <1>1
<1> QED BY <1>1, <1>2, <1>3 DEF Bulk, Open, Larger

(* The lists of terms of which the readings are sums.                      *)
Terms(n) == [1 .. n -> Nat]

(* The terms of h are those of f and g together.                           *)
Together(n, f, g, h) == \A i \in 1 .. n : h[i] = f[i] + g[i]

LEMMA SumTogether ==
  ASSUME NEW n \in Nat, NEW f \in Terms(n), NEW g \in Terms(n), NEW h \in Terms(n), Together(n, f, g, h)
  PROVE  Steps(h) = Steps(f) + Steps(g)
<1>1. f \in [1 .. n -> Int] /\ g \in [1 .. n -> Int] /\ h \in [1 .. n -> Int]
  BY DEF Terms
<1> QED BY <1>1, SumPlus DEF Together

LEMMA TermsInt == ASSUME NEW n \in Nat, NEW f \in Terms(n) PROVE f \in [1 .. n -> Int] /\ Steps(f) \in Nat
<1>1. f \in [1 .. n -> Nat] /\ f \in [1 .. n -> Int]
  BY DEF Terms
<1> QED BY <1>1, SumNat

Bulks(s) == [k \in DOMAIN s |-> Bulk(s[k])]
Fills(s) == [k \in DOMAIN s |-> s[k].filled]
Shipped(s) == [k \in DOMAIN s |-> IF k \in LiveIn(s) \/ (s[k].status = "PENDING" /\ s[k].frozen) THEN Open(s[k]) ELSE 0]
Looses(s) == [k \in DOMAIN s |-> IF k \in Loose(s) THEN s[k].qty ELSE 0]
Lives(s) == [k \in DOMAIN s |-> IF k \in LiveIn(s) THEN Open(s[k]) ELSE 0]
Pendings(s) == [k \in DOMAIN s |-> IF s[k].status = "PENDING" THEN s[k].qty ELSE 0]
LiveQty(s) == SumOver(s, LiveIn(s), Open)
PendingQty(s) == SumOver(s, {k \in DOMAIN s : s[k].status = "PENDING"}, LAMBDA x : x.qty)

LEMMA Readings ==
  ASSUME NEW s
  PROVE  /\ Booked(s) = Steps(Bulks(s)) /\ Filled(s) = Steps(Fills(s)) /\ Outstanding(s) = Steps(Shipped(s))
         /\ LooseQty(s) = Steps(Looses(s)) /\ LiveQty(s) = Steps(Lives(s)) /\ PendingQty(s) = Steps(Pendings(s))
<1>1. Booked(s) = Steps(Bulks(s))
  BY DEF Booked, Bulks
<1>2. Filled(s) = Steps(Fills(s))
  <2>1. Filled(s) = Steps([k \in DOMAIN s |-> IF k \in DOMAIN s THEN s[k].filled ELSE 0])
    BY DEF Filled, SumOver
  <2>2. [k \in DOMAIN s |-> IF k \in DOMAIN s THEN s[k].filled ELSE 0] = Fills(s)
    BY DEF Fills
  <2> QED BY <2>1, <2>2
<1>3. Outstanding(s) = Steps(Shipped(s))
  <2> DEFINE K == LiveIn(s) \cup {k \in DOMAIN s : s[k].status = "PENDING" /\ s[k].frozen}
  <2>1. Outstanding(s) = Steps([k \in DOMAIN s |-> IF k \in K THEN Open(s[k]) ELSE 0])
    BY DEF Outstanding, SumOver
  <2>2. [k \in DOMAIN s |-> IF k \in K THEN Open(s[k]) ELSE 0] = Shipped(s)
    BY DEF Shipped
  <2> QED BY <2>1, <2>2
<1>4. LooseQty(s) = Steps(Looses(s))
  BY DEF LooseQty, SumOver, Looses
<1>5. LiveQty(s) = Steps(Lives(s))
  BY DEF LiveQty, SumOver, Lives
<1>6. PendingQty(s) = Steps(Pendings(s))
  <2> DEFINE K == {k \in DOMAIN s : s[k].status = "PENDING"}
  <2>1. PendingQty(s) = Steps([k \in DOMAIN s |-> IF k \in K THEN s[k].qty ELSE 0])
    BY DEF PendingQty, SumOver
  <2>2. [k \in DOMAIN s |-> IF k \in K THEN s[k].qty ELSE 0] = Pendings(s)
    BY DEF Pendings
  <2> QED BY <2>1, <2>2
<1> QED BY <1>1, <1>2, <1>3, <1>4, <1>5, <1>6

(* What can be read of a list of slices.                                   *)
Listed(s) == List(s) /\ \A k \in DOMAIN s : SliceRow(s[k])

LEMMA TermsTyped ==
  ASSUME NEW s, Listed(s)
  PROVE  LET n == Len(s)
         IN  /\ n \in Nat /\ DOMAIN s = 1 .. n
             /\ Bulks(s) \in Terms(n) /\ Fills(s) \in Terms(n) /\ Shipped(s) \in Terms(n)
             /\ Looses(s) \in Terms(n) /\ Lives(s) \in Terms(n) /\ Pendings(s) \in Terms(n)
<1> DEFINE n == Len(s)
<1>1. n \in Nat /\ DOMAIN s = 1 .. n
  BY ListLen DEF Listed
<1> HIDE DEF n
<1>2. ASSUME NEW k \in 1 .. n PROVE s[k].qty \in Nat /\ s[k].filled \in Nat /\ Bulk(s[k]) \in Nat /\ Open(s[k]) \in Nat
  <2>1. SliceRow(s[k])
    BY <1>1 DEF Listed
  <2>2. Target \in Nat /\ s[k].qty \in 0 .. Target /\ s[k].filled \in 0 .. Target /\ s[k].filled <= s[k].qty
        /\ Bulk(s[k]) \in 0 .. Target /\ Open(s[k]) = s[k].qty - s[k].filled
    BY <2>1, RowTyped, TwapAssumption
  <2> QED BY <2>2
<1> QED BY <1>1, <1>2 DEF Terms, Bulks, Fills, Shipped, Looses, Lives, Pendings, n

(* Filled, outstanding and planned quantity make up the books.             *)
LEMMA Accounts ==
  ASSUME NEW s, Listed(s)
  PROVE  /\ Filled(s) \in Nat /\ Outstanding(s) \in Nat /\ LooseQty(s) \in Nat /\ Booked(s) \in Nat
         /\ LiveQty(s) \in Nat /\ PendingQty(s) \in Nat
         /\ Filled(s) + Outstanding(s) + LooseQty(s) = Booked(s)
         /\ Filled(s) + LiveQty(s) + PendingQty(s) = Booked(s)
<1> DEFINE n == Len(s)
           a == [k \in 1 .. n |-> Fills(s)[k] + Shipped(s)[k]]
           b == [k \in 1 .. n |-> Fills(s)[k] + Lives(s)[k]]
<1>1. /\ n \in Nat /\ DOMAIN s = 1 .. n
      /\ Bulks(s) \in Terms(n) /\ Fills(s) \in Terms(n) /\ Shipped(s) \in Terms(n)
      /\ Looses(s) \in Terms(n) /\ Lives(s) \in Terms(n) /\ Pendings(s) \in Terms(n)
  BY TermsTyped
<1> HIDE DEF n
<1>2. a \in Terms(n) /\ b \in Terms(n)
  <2>1. ASSUME NEW k \in 1 .. n PROVE Fills(s)[k] \in Nat /\ Shipped(s)[k] \in Nat /\ Lives(s)[k] \in Nat
    BY <1>1 DEF Terms
  <2> QED BY <2>1 DEF Terms
<1>3. \A k \in 1 .. n : a[k] = Fills(s)[k] + Shipped(s)[k] /\ b[k] = Fills(s)[k] + Lives(s)[k]
  OBVIOUS
<1> HIDE DEF a, b
<1>4. ASSUME NEW k \in 1 .. n PROVE Bulks(s)[k] = a[k] + Looses(s)[k] /\ Bulks(s)[k] = b[k] + Pendings(s)[k]
  <2> DEFINE x == s[k]
  <2>1. SliceRow(x) /\ k \in DOMAIN s
    BY <1>1 DEF Listed
  <2>2. /\ x.qty \in Nat /\ x.filled \in Nat /\ Open(x) = x.qty - x.filled /\ x.status \in SliceStates /\ x.frozen \in BOOLEAN
        /\ (x.status = "PENDING" => x.filled = 0)
    BY <2>1, RowTyped, TwapAssumption DEF SliceRow
  <2>3. /\ Bulks(s)[k] = (IF x.status \in Unended THEN x.qty ELSE x.filled)
        /\ a[k] = x.filled + (IF x.status \in {"SUBMITTED", "PARTIAL"} \/ (x.status = "PENDING" /\ x.frozen) THEN Open(x) ELSE 0)
        /\ b[k] = x.filled + (IF x.status \in {"SUBMITTED", "PARTIAL"} THEN Open(x) ELSE 0)
        /\ Looses(s)[k] = (IF x.status = "PENDING" /\ ~ x.frozen THEN x.qty ELSE 0)
        /\ Pendings(s)[k] = (IF x.status = "PENDING" THEN x.qty ELSE 0)
    BY <1>3, <2>1 DEF Bulks, Bulk, Fills, Shipped, Lives, Looses, Loose, Pendings, LiveIn
  <2> HIDE DEF x
  <2>4. CASE x.status = "PENDING"
    BY <2>2, <2>3, <2>4 DEF Unended
  <2>5. CASE x.status \in {"SUBMITTED", "PARTIAL"}
    BY <2>2, <2>3, <2>5 DEF Unended
  <2>6. CASE x.status \in {"DONE", "SKIPPED", "CANCELLED"}
    BY <2>2, <2>3, <2>6 DEF Unended
  <2> QED BY <2>2, <2>4, <2>5, <2>6 DEF SliceStates
<1>5. /\ Together(n, a, Looses(s), Bulks(s)) /\ Together(n, b, Pendings(s), Bulks(s))
      /\ Together(n, Fills(s), Shipped(s), a) /\ Together(n, Fills(s), Lives(s), b)
  BY <1>3, <1>4 DEF Together
<1>6. /\ Steps(Fills(s)) \in Nat /\ Steps(Shipped(s)) \in Nat /\ Steps(Looses(s)) \in Nat
      /\ Steps(Lives(s)) \in Nat /\ Steps(Pendings(s)) \in Nat /\ Steps(Bulks(s)) \in Nat
  BY <1>1, TermsInt
<1>7. /\ Steps(Bulks(s)) = Steps(a) + Steps(Looses(s)) /\ Steps(Bulks(s)) = Steps(b) + Steps(Pendings(s))
      /\ Steps(a) = Steps(Fills(s)) + Steps(Shipped(s)) /\ Steps(b) = Steps(Fills(s)) + Steps(Lives(s))
  BY <1>1, <1>2, <1>5, SumTogether
<1> QED BY <1>6, <1>7, Readings

-----------------------------------------------------------------------------
(* Writes of rows *)

(* Of the terms only the one at k is another.                              *)
But(n, k, f, g) == \A i \in 1 .. n : i # k => g[i] = f[i]

LEMMA SumBut ==
  ASSUME NEW n \in Nat, NEW f \in Terms(n), NEW g \in Terms(n), NEW k \in 1 .. n, But(n, k, f, g)
  PROVE  Steps(g) = Steps(f) + (g[k] - f[k])
<1>1. f \in [1 .. n -> Int] /\ g \in [1 .. n -> Int]
  BY DEF Terms
<1> QED BY <1>1, SumChanged DEF But

Put(s, k, x) == [i \in DOMAIN s |-> IF i = k THEN x ELSE s[i]]

LEMMA RowWritten ==
  ASSUME NEW s, Listed(s), NEW k \in DOMAIN s, NEW x, SliceRow(x),
         NEW t, t = Put(s, k, x)
  PROVE  /\ Listed(t) /\ DOMAIN t = DOMAIN s /\ Len(t) = Len(s)
         /\ t[k] = x /\ \A i \in DOMAIN s : i # k => t[i] = s[i]
         /\ Booked(t) = Booked(s) + (Bulk(x) - Bulk(s[k]))
<1> DEFINE n == Len(s)
<1>1. n \in Nat /\ DOMAIN s = 1 .. n
  BY ListLen DEF Listed
<1> HIDE DEF n
<1>2. DOMAIN t = 1 .. n /\ t = [i \in 1 .. n |-> t[i]]
  BY <1>1 DEF Put
<1>3. List(t)
  BY <1>1, <1>2 DEF List
<1>4. Len(t) = n
  <2>1. DOMAIN t = 1 .. Len(t) /\ Len(t) \in Nat
    BY <1>3, ListLen
  <2> QED BY <1>1, <1>2, <2>1
<1>5. t[k] = x /\ \A i \in 1 .. n : i # k => t[i] = s[i]
  BY <1>1 DEF Put
<1>6. Listed(t)
  BY <1>1, <1>2, <1>3, <1>5 DEF Listed
<1> HIDE DEF Listed
<1>7. Bulks(s) \in Terms(n) /\ Bulks(t) \in Terms(n)
  BY <1>4, <1>6, TermsTyped DEF n
<1>9. But(n, k, Bulks(s), Bulks(t))
  BY <1>1, <1>2, <1>5 DEF Bulks, But
<1>10. k \in 1 .. n
  BY <1>1
<1>11. Steps(Bulks(t)) = Steps(Bulks(s)) + (Bulks(t)[k] - Bulks(s)[k])
  BY <1>1, <1>7, <1>9, <1>10, SumBut
<1>12. Bulks(t)[k] = Bulk(x) /\ Bulks(s)[k] = Bulk(s[k])
  BY <1>1, <1>2, <1>5, <1>10 DEF Bulks
<1>13. Booked(t) = Steps(Bulks(t)) /\ Booked(s) = Steps(Bulks(s))
  BY Readings
<1> QED BY <1>1, <1>2, <1>4, <1>5, <1>6, <1>11, <1>12, <1>13 DEF n

(* t is s with the slice x behind the others.                              *)
Longer(s, x, t) ==
  /\ Listed(t) /\ Len(s) \in Nat /\ DOMAIN s = 1 .. Len(s) /\ DOMAIN t = 1 .. Len(s) + 1 /\ Len(t) = Len(s) + 1
  /\ t[Len(s) + 1] = x /\ \A i \in DOMAIN s : t[i] = s[i]
  /\ Booked(t) = Booked(s) + Bulk(x)

LEMMA RowAdded ==
  ASSUME NEW s, Listed(s), NEW x, SliceRow(x), NEW t, t = Append(s, x)
  PROVE  Longer(s, x, t)
<1> DEFINE n == Len(s)
           S == {s[i] : i \in 1 .. n} \cup {x}
<1>1. n \in Nat /\ DOMAIN s = 1 .. n /\ s = [i \in 1 .. n |-> s[i]]
  BY ListLen DEF Listed
<1>2. s \in Seq(S) /\ x \in S
  BY <1>1
<1> HIDE DEF S
<1>3. /\ t \in Seq(S) /\ Len(t) = n + 1 /\ t[n + 1] = x
      /\ \A i \in 1 .. n : t[i] = s[i]
  BY <1>2, AppendProperties
<1> HIDE DEF n
<1>4. DOMAIN t = 1 .. n + 1 /\ t = [i \in 1 .. n + 1 |-> t[i]]
  <2>1. t \in [1 .. n + 1 -> S]
    BY <1>3, LenProperties
  <2> QED BY <2>1
<1>5. List(t)
  <2>1. n + 1 \in Nat
    BY <1>1
  <2> QED BY <1>4, <2>1 DEF List
<1>6. Listed(t)
  <2>1. ASSUME NEW i \in 1 .. n + 1 PROVE SliceRow(t[i])
    <3>1. CASE i = n + 1
      BY <1>3, <3>1
    <3>2. CASE i # n + 1
      <4>1. i \in 1 .. n
        BY <1>1, <3>2
      <4> QED BY <1>1, <1>3, <4>1 DEF Listed
    <3> QED BY <3>1, <3>2
  <2> QED BY <1>4, <1>5, <2>1 DEF Listed
<1> HIDE DEF Listed
<1>7. Bulks(s) \in Terms(n) /\ Bulks(t) \in Terms(n + 1)
  BY <1>3, <1>6, TermsTyped DEF n
<1>8. Bulks(s) \in [1 .. n -> Int] /\ Bulks(t) \in [1 .. n + 1 -> Int]
  BY <1>7 DEF Terms
<1>9. \A i \in 1 .. n : Bulks(t)[i] = Bulks(s)[i]
  BY <1>1, <1>3, <1>4 DEF Bulks
<1>10. Steps(Bulks(t)) = Steps(Bulks(s)) + Bulks(t)[n + 1]
  BY <1>1, <1>8, <1>9, SumMore
<1>11. Bulks(t)[n + 1] = Bulk(x)
  BY <1>1, <1>3, <1>4 DEF Bulks
<1> QED BY <1>1, <1>3, <1>4, <1>6, <1>10, <1>11, Readings DEF n, Longer

(* Slices that leave without a child free what they held.                  *)
Without(s, status) == [k \in DOMAIN s |-> IF k \in Loose(s) THEN Gone(s[k], status) ELSE s[k]]

LEMMA RowsGone ==
  ASSUME NEW s, Listed(s), NEW status \in {"SKIPPED", "CANCELLED"},
         NEW t, t = Without(s, status)
  PROVE  /\ Listed(t) /\ DOMAIN t = DOMAIN s /\ Len(t) = Len(s)
         /\ LiveIn(t) = LiveIn(s) /\ Booked(t) + LooseQty(s) = Booked(s)
         /\ \A k \in DOMAIN s : IF k \in Loose(s) THEN t[k].status = status /\ t[k].filled = 0 ELSE t[k] = s[k]
<1> DEFINE n == Len(s)
<1>1. n \in Nat /\ DOMAIN s = 1 .. n
  BY ListLen DEF Listed
<1> HIDE DEF n
<1>2. DOMAIN t = 1 .. n /\ t = [i \in 1 .. n |-> t[i]]
  BY <1>1 DEF Without
<1>3. List(t)
  BY <1>1, <1>2 DEF List
<1>4. Len(t) = n
  <2>1. DOMAIN t = 1 .. Len(t) /\ Len(t) \in Nat
    BY <1>3, ListLen
  <2> QED BY <1>1, <1>2, <2>1
<1>5. ASSUME NEW k \in 1 .. n, k \in Loose(s)
      PROVE  /\ SliceRow(t[k]) /\ t[k].status = status /\ t[k].filled = 0
             /\ Bulk(t[k]) = 0 /\ Bulk(s[k]) = s[k].qty /\ s[k].status = "PENDING"
  <2> DEFINE x == s[k]
             y == Gone(x, status)
  <2>1. SliceRow(x) /\ x.status = "PENDING" /\ ~ x.frozen
    BY <1>1, <1>5 DEF Listed, Loose
  <2>2. t[k] = y
    BY <1>1, <1>5 DEF Without
  <2>3. x.filled = 0 /\ DOMAIN x = Row
    BY <2>1 DEF SliceRow, Row
  <2>0. x = [qty |-> x.qty, filled |-> x.filled, at |-> x.at, status |-> x.status, frozen |-> x.frozen, by |-> x.by]
    BY <2>1 DEF SliceRow
  <2> HIDE DEF x
  <2>4. y = [qty |-> 0, filled |-> 0, at |-> 0, status |-> status, frozen |-> x.frozen, by |-> NoWorker]
    <3>1. y = [x EXCEPT !.status = status, !.at = 0, !.by = NoWorker, !.qty = 0]
      BY <2>1 DEF Gone
    <3> HIDE DEF y
    <3> QED BY <2>0, <2>3, <3>1
  <2> HIDE DEF y
  <2>5. SliceRow(y)
    <3>1. 0 \in 0 .. Target /\ 0 \in 0 .. Deadline /\ x.frozen \in BOOLEAN /\ status \in SliceStates
      BY <2>1, RowTyped, TwapAssumption DEF SliceStates
    <3> QED BY <2>4, <3>1 DEF SliceRow
  <2>6. Bulk(y) = 0 /\ Bulk(x) = x.qty
    BY <2>1, <2>4 DEF Bulk, Unended
  <2> QED BY <2>1, <2>2, <2>4, <2>5, <2>6 DEF x
<1>6. ASSUME NEW k \in 1 .. n, k \notin Loose(s) PROVE t[k] = s[k]
  BY <1>1, <1>6 DEF Without
<1>7. Listed(t)
  BY <1>1, <1>2, <1>3, <1>5, <1>6 DEF Listed
<1>8. LiveIn(t) = LiveIn(s)
  BY <1>1, <1>2, <1>5, <1>6 DEF LiveIn
<1>9. Booked(t) + LooseQty(s) = Booked(s)
  <2>1. Bulks(s) \in Terms(n) /\ Bulks(t) \in Terms(n) /\ Looses(s) \in Terms(n)
    BY <1>4, <1>7, TermsTyped DEF n
  <2>2. ASSUME NEW k \in 1 .. n PROVE Bulks(s)[k] = Bulks(t)[k] + Looses(s)[k]
    <3>1. /\ Bulks(s)[k] = Bulk(s[k]) /\ Bulks(t)[k] = Bulk(t[k])
          /\ Looses(s)[k] = IF k \in Loose(s) THEN s[k].qty ELSE 0
      BY <1>1, <1>2 DEF Bulks, Looses
    <3>2. Bulk(s[k]) \in Nat /\ s[k].qty \in Nat
      BY <1>1, RowTyped, TwapAssumption DEF Listed
    <3>3. CASE k \in Loose(s)
      BY <1>5, <3>1, <3>2, <3>3
    <3>4. CASE k \notin Loose(s)
      BY <1>6, <3>1, <3>2, <3>4
    <3> QED BY <3>3, <3>4
  <2>3. Together(n, Bulks(t), Looses(s), Bulks(s))
    BY <2>2 DEF Together
  <2>4. Steps(Bulks(s)) = Steps(Bulks(t)) + Steps(Looses(s))
    BY <1>1, <2>1, <2>3, SumTogether
  <2> QED BY <2>4, Readings
<1> QED BY <1>1, <1>2, <1>4, <1>5, <1>6, <1>7, <1>8, <1>9 DEF n

-----------------------------------------------------------------------------
(* What a child answers, written into its slice *)

LEMMA ViewStatus ==
  ASSUME NEW c, ChildRow(c), c.state # "none"
  PROVE  /\ View(c).state = c.state /\ View(c).filled = c.filled /\ c.state \in {"open"} \cup ChildEnds
         /\ c.state = "open" => SliceStatus(View(c)) \in {"SUBMITTED", "PARTIAL"}
         /\ c.state = "DONE" => SliceStatus(View(c)) = "DONE"
         /\ c.state \in {"FAILED", "REJECTED"} => SliceStatus(View(c)) = "CANCELLED"
         /\ SliceStatus(View(c)) \in SliceStates \ {"PENDING"}
<1>1. View(c).state = c.state /\ View(c).filled = c.filled /\ c.state \in {"open"} \cup ChildEnds
  BY DEF View, ChildRow
<1> DEFINE v == View(c)
<1> HIDE DEF v
<1>2. CASE v.state = "open"
  BY <1>1, <1>2 DEF SliceStatus, ChildEnds, v, SliceStates
<1>3. CASE v.state = "DONE"
  BY <1>1, <1>3 DEF SliceStatus, ChildEnds, v, SliceStates
<1>4. CASE v.state \in {"FAILED", "REJECTED"}
  BY <1>1, <1>4 DEF SliceStatus, ChildEnds, v, SliceStates
<1> QED BY <1>1, <1>2, <1>3, <1>4 DEF v, ChildEnds

LEMMA ChildTyped ==
  ASSUME NEW c, ChildRow(c)
  PROVE  /\ c.qty \in 0 .. Target /\ c.traded \in 0 .. Target /\ c.filled \in 0 .. Target
         /\ c.filled <= c.traded /\ c.traded <= c.qty /\ c.filled <= c.qty
         /\ c.state \in {"none", "open"} \cup ChildEnds /\ Target \in Nat
<1>1. /\ c.qty \in 0 .. Target /\ c.traded \in 0 .. Target /\ c.filled \in 0 .. Target
      /\ c.filled <= c.traded /\ c.traded <= c.qty /\ c.state \in {"none", "open"} \cup ChildEnds
  BY DEF ChildRow
<1>2. Target \in Nat
  BY TwapAssumption
<1> QED BY <1>1, <1>2

LEMMA IndexIn ==
  ASSUME NEW s, Rows(s)
  PROVE  Listed(s) /\ Len(s) \in Nat /\ DOMAIN s = 1 .. Len(s) /\ DOMAIN s \subseteq 1 .. MaxSlices /\ LiveIn(s) \subseteq DOMAIN s
<1>1. Listed(s) /\ Len(s) \in Nat /\ DOMAIN s = 1 .. Len(s) /\ Len(s) <= MaxSlices
  BY ListLen DEF Rows, Listed
<1>2. MaxSlices \in Nat
  BY TwapAssumption
<1>3. LiveIn(s) \subseteq DOMAIN s
  BY DEF LiveIn
<1> HIDE DEF Listed
<1> QED BY <1>1, <1>2, <1>3

(* A slice with the answer of its child.                                   *)
Told(x, v) == [x EXCEPT !.status = SliceStatus(v), !.filled = v.filled]

LEMMA ToldRow ==
  ASSUME NEW p, NEW x, NEW c, SliceRow(x), ChildRow(c), Awaits(p, x, c)
  PROVE  LET y == Told(x, p.view)
         IN  /\ SliceRow(y) /\ Agrees(y, c) /\ y.status # "PENDING"
             /\ p.view.state = c.state /\ c.state \in {"open"} \cup ChildEnds
             /\ Bulk(x) = x.qty /\ Bulk(y) <= x.qty
             /\ c.state = "open" => y.status \in {"SUBMITTED", "PARTIAL"} /\ Bulk(y) = x.qty
             /\ c.state # "open" => y.status \notin {"SUBMITTED", "PARTIAL"}
<1> DEFINE y == Told(x, p.view)
<1>1. c.state # "none" /\ x.frozen /\ x.qty = c.qty /\ p.view = View(c) /\ x.status \in Unended
  BY DEF Awaits, Unended
<1>2. /\ View(c).state = c.state /\ View(c).filled = c.filled /\ c.state \in {"open"} \cup ChildEnds
      /\ c.state = "open" => SliceStatus(View(c)) \in {"SUBMITTED", "PARTIAL"}
      /\ c.state = "DONE" => SliceStatus(View(c)) = "DONE"
      /\ c.state \in {"FAILED", "REJECTED"} => SliceStatus(View(c)) = "CANCELLED"
      /\ SliceStatus(View(c)) \in SliceStates \ {"PENDING"}
  BY <1>1, ViewStatus
<1>3. x = [qty |-> x.qty, filled |-> x.filled, at |-> x.at, status |-> x.status, frozen |-> x.frozen, by |-> x.by]
  BY DEF SliceRow
<1>4. y = [qty |-> x.qty, filled |-> c.filled, at |-> x.at, status |-> SliceStatus(View(c)), frozen |-> x.frozen, by |-> x.by]
  <2>1. y = [x EXCEPT !.status = SliceStatus(View(c)), !.filled = c.filled]
    BY <1>1, <1>2 DEF Told
  <2> HIDE DEF y
  <2> QED BY <1>3, <2>1
<1> HIDE DEF y
<1>5. /\ x.qty \in 0 .. Target /\ c.filled \in 0 .. Target /\ c.filled <= c.qty
      /\ x.at \in 0 .. Deadline /\ x.frozen \in BOOLEAN /\ x.by \in {Owner[w] : w \in Workers} \cup {NoWorker}
  BY ChildTyped DEF SliceRow
<1>6. SliceRow(y)
  BY <1>1, <1>2, <1>4, <1>5 DEF SliceRow
<1>7. Agrees(y, c)
  BY <1>1, <1>4 DEF Agrees
<1>8. Bulk(x) = x.qty
  BY <1>1 DEF Bulk
<1>9. Bulk(y) <= x.qty
  <2>1. Bulk(y) = x.qty \/ Bulk(y) = c.filled
    BY <1>4 DEF Bulk
  <2> QED BY <1>1, <1>5, <2>1
<1>10. c.state = "open" => y.status \in {"SUBMITTED", "PARTIAL"} /\ Bulk(y) = x.qty
  BY <1>2, <1>4 DEF Bulk, Unended
<1>11. c.state # "open" => y.status \notin {"SUBMITTED", "PARTIAL"}
  BY <1>2, <1>4 DEF ChildEnds
<1>12. y.status # "PENDING"
  BY <1>2, <1>4
<1> QED BY <1>1, <1>2, <1>6, <1>7, <1>8, <1>9, <1>10, <1>11, <1>12 DEF y

(* t is s with what the call p was told of its slice, in all that it says. *)
Heard(p, s, c, t) ==
  /\ Rows(t) /\ DOMAIN t = DOMAIN s /\ t[p.k].status # "PENDING"
  /\ \A i \in DOMAIN s : i # p.k => t[i] = s[i]
  /\ \A r : r.pc \notin Views => Linked(r, t, c)
  /\ p.view.state \in {"open"} \cup ChildEnds
  /\ p.view.state = "open" => LiveIn(t) = {p.k} /\ Booked(t) = Booked(s)
  /\ p.view.state # "open" => LiveIn(t) = {}

LEMMA ViewWritten ==
  ASSUME NEW s, Rows(s), NEW c, Children(c), NEW p, Linked(p, s, c),
         p.pc \in Views, p.k \in DOMAIN s, p.pc = "sent" => LiveIn(s) = {},
         NEW t, t = Put(s, p.k, Told(s[p.k], p.view))
  PROVE  Heard(p, s, c, t)
<1> DEFINE k == p.k
           y == Told(s[k], p.view)
<1>1. Listed(s) /\ Len(s) \in Nat /\ DOMAIN s = 1 .. Len(s) /\ DOMAIN s \subseteq 1 .. MaxSlices /\ LiveIn(s) \subseteq DOMAIN s
  BY IndexIn
<1>2. SliceRow(s[k]) /\ ChildRow(c[k]) /\ k \in 1 .. MaxSlices /\ k \in DOMAIN s
  BY <1>1 DEF Rows, Children
<1>3. Awaits(p, s[k], c[k])
  BY <1>2 DEF Linked, Hung
<1>4. t = Put(s, k, y)
  OBVIOUS
<1>5. /\ SliceRow(y) /\ Agrees(y, c[k]) /\ y.status # "PENDING"
      /\ p.view.state = c[k].state /\ c[k].state \in {"open"} \cup ChildEnds
      /\ Bulk(s[k]) = s[k].qty /\ Bulk(y) <= s[k].qty
      /\ c[k].state = "open" => y.status \in {"SUBMITTED", "PARTIAL"} /\ Bulk(y) = s[k].qty
      /\ c[k].state # "open" => y.status \notin {"SUBMITTED", "PARTIAL"}
  BY <1>2, <1>3, ToldRow
<1> HIDE DEF y
<1> HIDE DEF k
<1>6. /\ Listed(t) /\ DOMAIN t = DOMAIN s /\ Len(t) = Len(s)
      /\ t[k] = y /\ \A i \in DOMAIN s : i # k => t[i] = s[i]
      /\ Booked(t) = Booked(s) + (Bulk(y) - Bulk(s[k]))
  <2>1. Listed(s) /\ k \in DOMAIN s /\ SliceRow(y) /\ t = Put(s, k, y)
    BY <1>1, <1>2, <1>4, <1>5
  <2> QED BY <2>1, RowWritten
<1>7. \A i \in DOMAIN s : i # k => s[i].status \notin {"SUBMITTED", "PARTIAL"}
  <2>1. CASE p.pc = "sent"
    BY <2>1 DEF LiveIn
  <2>2. CASE p.pc # "sent"
    <3>1. k \in LiveIn(s)
      BY <1>2, <1>3, <2>2 DEF Awaits, LiveIn
    <3> QED BY <3>1 DEF Rows, LiveIn
  <2> QED BY <2>1, <2>2
<1>8. LiveIn(t) = (IF y.status \in {"SUBMITTED", "PARTIAL"} THEN {k} ELSE {})
  BY <1>2, <1>6, <1>7 DEF LiveIn
<1>9. Booked(t) <= Booked(s) /\ (c[k].state = "open" => Booked(t) = Booked(s))
  <2>1. Booked(s) \in Nat
    BY <1>1, Accounts
  <2>2. Bulk(y) \in Nat /\ s[k].qty \in Nat
    BY <1>2, <1>5, RowTyped, ChildTyped
  <2> QED BY <1>5, <1>6, <2>1, <2>2
<1>10. Rows(t)
  <2>1. Booked(s) \in Nat /\ Booked(t) \in Nat /\ Target \in Nat
    BY <1>1, <1>6, Accounts, TwapAssumption
  <2>2. Booked(t) <= Target /\ Len(t) <= MaxSlices
    BY <1>6, <1>9, <2>1 DEF Rows
  <2>3. \A i, j \in LiveIn(t) : i = j
    BY <1>8
  <2> QED BY <1>6, <2>2, <2>3 DEF Rows, Listed
<1>11. ASSUME NEW r, r.pc \notin Views PROVE Linked(r, t, c)
  <2> SUFFICES ASSUME NEW i \in 1 .. MaxSlices
               PROVE  (i \notin DOMAIN t => c[i].state = "none") /\ (i \in DOMAIN t => Agrees(t[i], c[i]))
    BY <1>11 DEF Linked, Hung
  <2>1. CASE i = k
    BY <1>2, <1>5, <1>6, <2>1
  <2>2. CASE i # k
    <3>1. /\ i \notin DOMAIN s => c[i].state = "none"
          /\ i \in DOMAIN s => Agrees(s[i], c[i])
      BY <2>2 DEF Linked, Hung, k
    <3> QED BY <1>6, <2>2, <3>1
  <2> QED BY <2>1, <2>2
<1> HIDE DEF Listed
<1> QED BY <1>5, <1>6, <1>8, <1>9, <1>10, <1>11 DEF k, Heard

-----------------------------------------------------------------------------
(* What a step of the only call does to the books *)

LEMMA IdleNames == DOMAIN Idle = Names /\ Idle.pc = "idle" /\ Idle.now = 0 /\ Idle.op = "tick"
  BY DEF Idle, Names

LEMMA Becomes ==
  ASSUME NEW w, Workers = {w}, NEW r, NEW pw, NEW W, Step(w, r, pw, W),
         Parent(par', slices'), Rows(slices'), Children(child'), Linked(r, slices', child'),
         Call(r, par'), Stage(r, par', slices'), Frozen(r, slices'), Around'
  PROVE  Books(w)'
<1>1. proc'[w] = r
  BY DEF Step
<1> QED BY <1>1 DEF Books

LEMMA LinkedSame ==
  ASSUME NEW p, NEW r, NEW s, NEW c, Linked(p, s, c), p.pc \notin Views, r.pc \notin Views
  PROVE  Linked(r, s, c)
  BY DEF Linked, Hung

LEMMA FrozenSame ==
  ASSUME NEW p, NEW r, NEW s, Frozen(p, s), p.pc \notin {"send", "sent"}
  PROVE  Frozen(r, s)
  BY DEF Frozen

Apart1 == UNCHANGED <<lease, clock, crashes>>

LEMMA AroundSame == ASSUME Around, Apart1 PROVE Around'
  BY DEF Around, Apart1

(* The call goes on and writes nothing.                                    *)
LEMMA Moves ==
  ASSUME NEW w, Workers = {w}, Books(w), NEW r, NEW pw, NEW W, Step(w, r, pw, W),
         UNCHANGED <<par, slices, child>>, Around',
         proc[w].pc \notin Views \cup {"send"}, r.pc \notin Views, Call(r, par), Stage(r, par, slices)
  PROVE  Books(w)'
<1>1. Linked(r, slices, child)
  BY LinkedSame DEF Books
<1>2. Frozen(r, slices)
  <2>1. proc[w].pc \notin {"send", "sent"}
    BY DEF Views
  <2> QED BY <2>1, FrozenSame DEF Books
<1> QED BY <1>1, <1>2, Becomes DEF Books

(* The call writes the parent, of which its copy is current.               *)
LEMMA Writes ==
  ASSUME NEW w, Workers = {w}, Books(w), NEW new, NEW r, updateParent(w, new, r),
         UNCHANGED <<slices, child>>, Around', proc[w].pc \notin Over \cup Views \cup {"send"},
         r.pc \notin Views, DOMAIN r = Names, Parent(new, slices),
         Call([r EXCEPT !.cur = new, !.fresh = TRUE], new), Stage([r EXCEPT !.cur = new, !.fresh = TRUE], new, slices)
  PROVE  Books(w)'
<1> DEFINE R == [r EXCEPT !.cur = new, !.fresh = TRUE]
<1>1. proc[w].fresh
  BY DEF Books, Call
<1>2. par' = new /\ Step(w, R, TRUE, {})
  BY <1>1 DEF updateParent
<1>3. R.pc \notin Views
  BY DEF Names
<1> HIDE DEF R
<1>4. Linked(R, slices, child)
  BY <1>3, LinkedSame DEF Books
<1>5. Frozen(R, slices)
  <2>1. proc[w].pc \notin {"send", "sent"}
    BY DEF Views
  <2> QED BY <2>1, FrozenSame DEF Books
<1>6. Parent(par', slices') /\ Call(R, par') /\ Stage(R, par', slices')
  BY <1>2 DEF R
<1> QED BY <1>2, <1>4, <1>5, <1>6, Becomes DEF Books

(* A call that ends keeps only what it is.                                 *)
LEMMA LeaveCall ==
  ASSUME NEW w, NEW q PROVE Call(Leave(w), q) /\ Leave(w).pc = "release"
<1>1. DOMAIN Leave(w) = Names /\ Leave(w).pc = "release" /\ Leave(w).now = 0
  BY IdleNames DEF Leave, Names
<1>2. 0 \in 0 .. Deadline
  BY TwapAssumption
<1> QED BY <1>1, <1>2 DEF Call, Over

LEMMA OverStage ==
  ASSUME NEW r, NEW q, NEW s, r.pc \in Over, Even(q, s) \/ q.status \in Terminal
  PROVE  Stage(r, q, s) /\ r.pc \notin Views
  BY DEF Stage, Over, Starting, Levels, Adding, Tells, Sending, Views

LEMMA Leaves ==
  ASSUME NEW w, Workers = {w}, Books(w), NEW pw, NEW W, Step(w, Leave(w), pw, W),
         UNCHANGED <<par, slices, child>>, Apart1,
         proc[w].pc \notin Views \cup {"send"}, Even(par, slices) \/ par.status \in Terminal
  PROVE  Books(w)'
<1>1. Call(Leave(w), par) /\ Leave(w).pc = "release"
  BY LeaveCall DEF Books
<1>2. Stage(Leave(w), par, slices) /\ Leave(w).pc \notin Views
  BY <1>1, OverStage DEF Over
<1>3. Around'
  BY AroundSame DEF Books
<1> QED BY <1>1, <1>2, <1>3, Moves

(* The same with a write of the parent.                                    *)
LEMMA LeavesWriting ==
  ASSUME NEW w, Workers = {w}, Books(w), NEW new, updateParent(w, new, Leave(w)),
         UNCHANGED <<slices, child>>, Apart1, proc[w].pc \notin Over \cup Views \cup {"send"},
         Parent(new, slices), Even(new, slices) \/ new.status \in Terminal
  PROVE  Books(w)'
<1> DEFINE r == Leave(w)
           R == [r EXCEPT !.cur = new, !.fresh = TRUE]
<1>1. DOMAIN r = Names /\ r.pc = "release" /\ r.now = 0
  BY IdleNames DEF Leave, Names
<1>2. DOMAIN R = Names /\ R.pc = "release" /\ R.now = 0
  BY <1>1 DEF Names
<1>3. 0 \in 0 .. Deadline
  BY TwapAssumption
<1> HIDE DEF r
<1>4. Call(R, new)
  BY <1>2, <1>3 DEF Call, Over
<1>5. Stage(R, new, slices) /\ r.pc \notin Views
  <2>1. R.pc \in Over /\ r.pc \notin Views
    BY <1>1, <1>2 DEF Over, Views
  <2> HIDE DEF R
  <2> QED BY <2>1, OverStage
<1>6. Around'
  BY AroundSame DEF Books
<1> QED BY <1>1, <1>4, <1>5, <1>6, Writes DEF r

(* A call on its way keeps what it is, and its copy.                       *)
LEMMA CallOn ==
  ASSUME NEW p, NEW q, Call(p, q), p.pc \notin Over, NEW r, DOMAIN r = Names, r.op = p.op, r.now = p.now,
         r.fresh, NEW new, r.cur = new, new.status = q.status \/ (new.status \in Actionable /\ q.status \in Actionable),
         p.op = "start" => r.pc \in Over \cup Starting
  PROVE  Call(r, new)
<1>1. q.status \in Actionable => new.status \in Actionable
  OBVIOUS
<1>2. q.status # "COMPLETED" => new.status # "COMPLETED"
  BY DEF Actionable
<1> QED BY <1>1, <1>2 DEF Call

-----------------------------------------------------------------------------
(* One lemma per step of the call *)

LEMMA BooksInit == ASSUME NEW w, Workers = {w}, Init PROVE Books(w)
<1>1. List(<<>>) /\ DOMAIN <<>> = {} /\ Len(<<>>) = 0 /\ LiveIn(<<>>) = {}
  BY ListNone
<1>2. proc[w] = Idle /\ slices = <<>>
  BY DEF Init
<1>3. Rows(slices)
  <2>1. Booked(<<>>) = Steps(Bulks(<<>>))
    BY Readings
  <2>2. Bulks(<<>>) = <<>>
    BY <1>1 DEF Bulks
  <2>3. Booked(<<>>) = 0
    BY <2>1, <2>2, SumNone
  <2> QED BY <1>1, <1>2, <2>3, TwapAssumption DEF Rows
<1>4. Parent(par, slices)
  <2>1. par = [status |-> "PLANNED", reason |-> "OTHER", uns |-> Unplanned, filled |-> 0]
    BY DEF Init
  <2>2. 0 \in 0 .. Target /\ Unplanned \in Unplanned .. Target
    BY TwapAssumption DEF Unplanned
  <2> QED BY <2>1, <2>2 DEF Parent, Actionable, Terminal, Reasons
<1>5. Children(child) /\ Linked(proc[w], slices, child)
  <2>1. child = [k \in 1 .. MaxSlices |-> [state |-> "none", qty |-> 0, traded |-> 0, filled |-> 0, since |-> 0]]
    BY DEF Init
  <2>2. 0 \in 0 .. Target /\ 0 \in 0 .. Deadline
    BY TwapAssumption
  <2>3. Children(child)
    BY <2>1, <2>2 DEF Children, ChildRow, ChildEnds
  <2> QED BY <1>1, <1>2, <2>1, <2>3 DEF Linked
<1>6. Call(proc[w], par) /\ Frozen(proc[w], slices)
  <2>1. 0 \in 0 .. Deadline
    BY TwapAssumption
  <2> QED BY <1>1, <1>2, <2>1, IdleNames DEF Call, Over, Frozen
<1>7. Stage(proc[w], par, slices)
  <2>1. Even(par, slices)
    BY <1>2 DEF Init, Even
  <2>2. proc[w].pc \in Over
    BY <1>2, IdleNames DEF Over
  <2> QED BY <2>1, <2>2, OverStage
<1>8. Around
  BY TwapAssumption DEF Around, Init
<1> QED BY <1>3, <1>4, <1>5, <1>6, <1>7, <1>8 DEF Books

(* A call that begins. *)
Begun(pc, op) == [Idle EXCEPT !.pc = pc, !.op = op, !.cur = par, !.fresh = TRUE, !.now = clock]

LEMMA BegunNames ==
  ASSUME NEW pc, NEW op
  PROVE  LET r == Begun(pc, op)
         IN  DOMAIN r = Names /\ r.pc = pc /\ r.op = op /\ r.cur = par /\ r.fresh /\ r.now = clock
  BY IdleNames DEF Begun, Names

LEMMA BooksBegin ==
  ASSUME NEW w, Workers = {w}, Books(w), NEW op, op # "start", NEW pc, pc \in {"ensure", "safety", "cancel", "resume"}, Begin(w, op, pc)
  PROVE  Books(w)'
<1> DEFINE r == Begun(pc, op)
<1>1. /\ DOMAIN r = Names /\ r.pc = pc /\ r.op = op /\ r.cur = par /\ r.fresh /\ r.now = clock
  BY BegunNames
<1>2. Step(w, r, TRUE, {}) /\ UNCHANGED <<par, slices, child, clock, crashes>>
  BY DEF Begin, Begun
<1> HIDE DEF r
<1>3. proc[w].pc = "idle" /\ par.status \in Actionable
  BY DEF Begin, At
<1>4. Even(par, slices)
  BY <1>3 DEF Books, Stage, Over, Actionable, Terminal
<1>5. Around'
  <2>1. lease' = [holder |-> w, expired |-> FALSE]
    BY DEF Begin
  <2> QED BY <1>2, <2>1 DEF Around, Books
<1>6. Call(r, par)
  BY <1>1, <1>3 DEF Call, Books, Around
<1>7. Stage(r, par, slices) /\ r.pc \notin Views
  BY <1>1, <1>4 DEF Stage, Over, Starting, Levels, Adding, Tells, Sending, Views
<1>8. proc[w].pc \notin Views \cup {"send"}
  BY <1>3 DEF Views
<1> QED BY <1>2, <1>5, <1>6, <1>7, <1>8, Moves

LEMMA BooksBegins ==
  ASSUME NEW w, Workers = {w}, Books(w), Tick(w) \/ Cancel(w) \/ Resume(w) \/ Start(w)
  PROVE  Books(w)'
<1>1. CASE Tick(w)
  <2>1. (IF par.status = "PLANNED" THEN "ensure" ELSE "safety") \in {"ensure", "safety", "cancel", "resume"}
    OBVIOUS
  <2> QED BY <1>1, <2>1, BooksBegin DEF Tick
<1>2. CASE Cancel(w)
  BY <1>2, BooksBegin DEF Cancel
<1>3. CASE Resume(w)
  BY <1>3, BooksBegin DEF Resume
<1>4. CASE Start(w)
  <2> DEFINE r == Begun("ensure", "start")
  <2>1. DOMAIN r = Names /\ r.pc = "ensure" /\ r.op = "start" /\ r.cur = par /\ r.fresh /\ r.now = clock
    BY BegunNames
  <2>2. Step(w, r, FALSE, {}) /\ UNCHANGED <<par, lease, slices, child, clock, crashes>> /\ slices = <<>> /\ proc[w].pc = "idle"
    BY <1>4 DEF Start, Begun, At
  <2> HIDE DEF r
  <2>3. Even(par, slices) \/ par.status \in Terminal
    BY <2>2 DEF Books, Stage, Over
  <2>4. par.status # "COMPLETED"
    <3>1. Filled(<<>>) = 0
      <4>1. Fills(<<>>) = <<>>
        BY ListNone DEF Fills
      <4> QED BY <4>1, Readings, SumNone
    <3> QED BY <2>2, <3>1, TwapAssumption DEF Books, Parent
  <2>5. Call(r, par)
    BY <2>1, <2>4 DEF Call, Books, Around, Starting
  <2>6. Stage(r, par, slices) /\ r.pc \notin Views
    BY <2>1, <2>3 DEF Stage, Over, Starting, Levels, Adding, Tells, Sending, Views
  <2>7. proc[w].pc \notin Views \cup {"send"} /\ Around'
    BY <2>2, AroundSame DEF Views, Apart1, Books
  <2> QED BY <2>2, <2>5, <2>6, <2>7, Moves
<1> QED BY <1>1, <1>2, <1>3, <1>4

-----------------------------------------------------------------------------
(* Plans as lists of slices to be written *)

LEMMA PlanFromInput ==
  ASSUME NEW total \in Int, NEW start \in Nat
  PROVE  PlanInput(PlanFrom(total, start))
<1> DEFINE p == PlanFrom(total, start)
<1>1. /\ DOMAIN p = PlanFields /\ p.total = total /\ p.lo = MinSlice /\ p.hi = MaxSlice
      /\ p.start = start /\ p.deadline = Deadline /\ p.interval = Interval
      /\ p.delta = [i \in 1 .. Deadline |-> 0] /\ p.late = [i \in 1 .. Deadline |-> 0]
  BY DEF PlanFrom, PlanFields
<1> HIDE DEF p
<1>2. MinSlice \in Nat \ {0} /\ MaxSlice \in Nat /\ Deadline \in Nat \ {0} /\ Interval \in Nat \ {0}
  BY TwapAssumption
<1>3. \A i \in 1 .. slotCount(start, Deadline, Interval) : i \in 1 .. Deadline
  <2>1. CASE Deadline <= start
    BY <2>1 DEF slotCount
  <2>2. CASE ~ (Deadline <= start)
    <3>1. Deadline - start \in Nat \ {0} /\ Deadline - start <= Deadline
      BY <1>2, <2>2
    <3>2. CeilDiv(Deadline - start, Interval) \in 1 .. (Deadline - start)
      BY <1>2, <3>1, Ceil
    <3>3. slotCount(start, Deadline, Interval) = CeilDiv(Deadline - start, Interval)
      BY <2>2 DEF slotCount
    <3> QED BY <1>2, <3>1, <3>2, <3>3
  <2> QED BY <2>1, <2>2
<1>4. \A i \in 1 .. slotCount(p.start, p.deadline, p.interval) : p.late[i] \in Int /\ p.delta[i] \in Int
  BY <1>1, <1>3
<1>5. Windowed(p)
  BY <1>1, <1>2 DEF Windowed
<1>6. PlanInput(p)
  BY <1>1, <1>2, <1>4, <1>5 DEF PlanInput
<1> QED BY <1>6 DEF p

LEMMA PlanWritten ==
  ASSUME NEW total \in Int, NEW start \in Nat, NEW r, NEW t, Right(PlanFrom(total, start), r, t), t <= Target, t \in Int
  PROVE  LET todo == ToSlices(r)
         IN  /\ List(todo) /\ \A i \in DOMAIN todo : Todo(todo[i])
             /\ Steps(Ahead(todo)) = Steps(r.qty) /\ Steps(r.qty) \in 0 .. Target
             /\ Steps(r.qty) = (IF r.code = "OK" THEN t ELSE 0)
<1> DEFINE n == Len(r.qty)
           todo == ToSlices(r)
           p == PlanFrom(total, start)
<1>1. r.qty \in Seq(Int) /\ n \in Nat /\ r.qty \in [1 .. n -> Int] /\ DOMAIN r.qty = 1 .. n
  <2>1. r.qty \in Seq(Int)
    BY DEF Right, Plans
  <2> QED BY <2>1, LenProperties
<1>2. p.lo = MinSlice /\ p.hi = MaxSlice /\ p.start = start /\ p.deadline = Deadline
  BY DEF PlanFrom
<1>3. r.code = "OK" => Sound(p, r, t)
  BY DEF Right
<1>4. r.code # "OK" => n = 0 /\ r.qty = <<>>
  BY DEF Right
<1> HIDE DEF p
<1>a. MinSlice \in Nat \ {0} /\ MaxSlice \in Nat /\ Deadline \in Nat \ {0} /\ Target \in Nat
  BY TwapAssumption
<1>5. todo = [i \in 1 .. n |-> [qty |-> r.qty[i], at |-> r.at[i]]]
  BY DEF ToSlices
<1> HIDE DEF todo, n
<1>6. List(todo) /\ DOMAIN todo = 1 .. n
  BY <1>1, <1>5 DEF List
<1>7. Len(todo) = n
  <2>1. DOMAIN todo = 1 .. Len(todo) /\ Len(todo) \in Nat
    BY <1>6, ListLen
  <2> QED BY <1>1, <1>6, <2>1
<1>8. Ahead(todo) = r.qty
  BY <1>1, <1>5, <1>7 DEF Ahead
<1>9. ASSUME NEW i \in 1 .. n
      PROVE  r.qty[i] \in Nat /\ r.at[i] \in 0 .. Deadline
  <2>1. r.code = "OK"
    BY <1>1, <1>4
  <2>2. InBounds(r.qty, MinSlice, MaxSlice) /\ Len(r.at) = n
        /\ \A j \in DOMAIN r.at : r.at[j] >= start /\ r.at[j] < Deadline
    BY <1>2, <1>3, <2>1 DEF Sound, n
  <2>3. r.qty[i] \in MinSlice .. MaxSlice
    BY <1>1, <2>2 DEF InBounds
  <2>4. r.at \in Seq(Int)
    BY DEF Right, Plans
  <2>5. DOMAIN r.at = 1 .. n /\ r.at[i] \in Int
    BY <2>2, <2>4, LenProperties
  <2> QED BY <1>a, <2>2, <2>3, <2>5
<1>10. Steps(r.qty) \in Nat /\ \A i \in 1 .. n : r.qty[i] <= Steps(r.qty)
  <2>1. r.qty \in [1 .. n -> Nat]
    BY <1>1, <1>9
  <2> QED BY <1>1, <2>1, SumNat
<1>11. Steps(r.qty) = (IF r.code = "OK" THEN t ELSE 0)
  <2>1. CASE r.code = "OK"
    BY <1>3, <2>1 DEF Sound
  <2>2. CASE r.code # "OK"
    BY <1>4, <2>2, SumNone
  <2> QED BY <2>1, <2>2
<1>12. Steps(r.qty) \in 0 .. Target
  BY <1>10, <1>11, <1>a
<1>13. ASSUME NEW i \in 1 .. n PROVE Todo(todo[i])
  <2>1. todo[i] = [qty |-> r.qty[i], at |-> r.at[i]]
    BY <1>5
  <2>2. r.qty[i] \in 0 .. Target
    <3>1. r.qty[i] \in Nat /\ r.qty[i] <= Steps(r.qty)
      BY <1>9, <1>10
    <3> QED BY <1>12, <1>a, <3>1
  <2> QED BY <1>9, <2>1, <2>2 DEF Todo
<1> QED BY <1>6, <1>8, <1>11, <1>12, <1>13 DEF todo

-----------------------------------------------------------------------------
(* The plan is written. *)

(* A call that is about to write rows. *)
LEMMA InsertStage ==
  ASSUME NEW r, NEW q, NEW s, r.pc = "insert", Inserting(r, s)
  PROVE  Stage(r, q, s) /\ r.pc \notin Views
  BY DEF Stage, Over, Starting, Levels, Adding, Tells, Sending, Views

LEMMA AddingStage ==
  ASSUME NEW r, NEW q, NEW s, r.pc \in Adding, r.uns \in 0 .. Target, Booked(s) + r.uns = Target
  PROVE  Stage(r, q, s) /\ r.pc \notin Views
  BY DEF Stage, Over, Starting, Levels, Adding, Tells, Sending, Views

LEMMA LevelStage ==
  ASSUME NEW r, NEW q, NEW s, r.pc \in {"safety", "cancel", "resume", "started", "submit", "account"}, Even(q, s)
  PROVE  Stage(r, q, s) /\ r.pc \notin Views
  BY DEF Stage, Over, Starting, Levels, Adding, Tells, Sending, Views

LEMMA BooksEnsure == ASSUME NEW w, Workers = {w}, Books(w), EnsurePlan(w) PROVE Books(w)'
<1> DEFINE p == proc[w]
           plan == planTwap(PlanFrom(Target, 0))
           uns == IF plan.code = "OK" THEN 0 ELSE Target
           r == [p EXCEPT !.pc = "insert", !.todo = ToSlices(plan), !.at = 1, !.after = "planned", !.uns = uns]
<1>1. p.pc = "ensure" /\ Call(p, par) /\ UNCHANGED <<par, lease, slices, child, clock, crashes>>
  BY DEF EnsurePlan, At, Books
<1>2. Even(par, slices) \/ par.status \in Terminal
  BY <1>1 DEF Books, Stage
<1>3. Apart1 /\ Around' /\ proc[w].pc \notin Views \cup {"send"}
  BY <1>1, AroundSame DEF Apart1, Books, Views
<1>4. CASE Step(w, Leave(w), FALSE, {})
  BY <1>1, <1>2, <1>3, <1>4, Leaves
<1>5. CASE Step(w, Goto(w, "started"), FALSE, {}) /\ p.op # "start"
  <2> DEFINE g == Goto(w, "started")
  <2>1. DOMAIN g = Names /\ g.pc = "started" /\ g.op = p.op /\ g.now = p.now /\ g.cur = p.cur /\ g.fresh = p.fresh
    BY <1>1 DEF Goto, Call, Names
  <2>2. p.fresh /\ p.cur = par /\ par.status \in Actionable
    BY <1>1, <1>5 DEF Call, Over
  <2> HIDE DEF g
  <2>3. Call(g, par)
    BY <1>1, <1>5, <2>1, <2>2, CallOn DEF Over
  <2>4. Even(par, slices)
    BY <1>2, <2>2 DEF Actionable, Terminal
  <2>5. Stage(g, par, slices) /\ g.pc \notin Views
    BY <2>1, <2>4, LevelStage
  <2> QED BY <1>1, <1>3, <1>5, <2>3, <2>5, Moves DEF g
<1>6. CASE Step(w, r, FALSE, {}) /\ slices = <<>> /\ plan.code \in {"OK", "UNSCHEDULABLE"}
  <2>1. /\ DOMAIN r = Names /\ r.pc = "insert" /\ r.op = p.op /\ r.now = p.now /\ r.cur = p.cur /\ r.fresh = p.fresh
        /\ r.todo = ToSlices(plan) /\ r.at = 1 /\ r.after = "planned" /\ r.uns = uns
    BY <1>1 DEF Call, Names
  <2>2. p.fresh /\ p.cur = par
    BY <1>1 DEF Call, Over
  <2> HIDE DEF r
  <2>3. Call(r, par)
    BY <1>1, <2>1, <2>2, CallOn DEF Over, Starting
  <2>4. Target \in Nat /\ Target \in Int /\ 0 \in Nat
    BY TwapAssumption
  <2>5. Right(PlanFrom(Target, 0), plan, Target)
    <3>1. PlanInput(PlanFrom(Target, 0)) /\ PlanFrom(Target, 0).total = Target
      BY <2>4, PlanFromInput DEF PlanFrom
    <3> QED BY <3>1, PlanSound
  <2> HIDE DEF plan
  <2>6. /\ List(ToSlices(plan)) /\ \A i \in DOMAIN ToSlices(plan) : Todo(ToSlices(plan)[i])
        /\ Steps(Ahead(ToSlices(plan))) = Steps(plan.qty) /\ Steps(plan.qty) \in 0 .. Target
        /\ Steps(plan.qty) = (IF plan.code = "OK" THEN Target ELSE 0)
    <3>1. Target <= Target
      BY <2>4
    <3> QED BY <2>4, <2>5, <3>1, PlanWritten
  <2>7. Booked(slices) = 0 /\ Len(slices) = 0
    <3>1. Bulks(<<>>) = <<>>
      BY ListNone DEF Bulks
    <3> QED BY <1>6, <3>1, ListNone, Readings, SumNone
  <2>8. uns \in 0 .. Target /\ Steps(Ahead(ToSlices(plan))) + uns = Target
    BY <2>4, <2>6
  <2>9. Inserting(r, slices)
    BY <2>1, <2>4, <2>6, <2>7, <2>8 DEF Inserting, Adding
  <2>10. Stage(r, par, slices) /\ r.pc \notin Views
    BY <2>1, <2>9, InsertStage
  <2> QED BY <1>1, <1>3, <1>6, <2>3, <2>10, Moves
<1> HIDE DEF r
<1>7. \/ Step(w, Leave(w), FALSE, {})
      \/ Step(w, Goto(w, "started"), FALSE, {}) /\ p.op # "start"
      \/ Step(w, r, FALSE, {}) /\ slices = <<>> /\ plan.code \in {"OK", "UNSCHEDULABLE"}
  <2>1. CASE slices # <<>>
    BY <2>1 DEF EnsurePlan
  <2>2. CASE slices = <<>> /\ plan.code \notin {"OK", "UNSCHEDULABLE"}
    BY <2>2 DEF EnsurePlan
  <2>3. CASE slices = <<>> /\ plan.code \in {"OK", "UNSCHEDULABLE"}
    BY <2>3 DEF EnsurePlan, r
  <2> QED BY <2>1, <2>2, <2>3
<1> QED BY <1>4, <1>5, <1>6, <1>7

LEMMA BooksInsert == ASSUME NEW w, Workers = {w}, Books(w), InsertSlice(w) PROVE Books(w)'
<1> DEFINE p == proc[w]
           s == slices
<1>1. p.pc = "insert" /\ Call(p, par) /\ UNCHANGED <<par, lease, child, clock, crashes>>
  BY DEF InsertSlice, At, Books
<1>2. Inserting(p, s) /\ Rows(s)
  BY <1>1 DEF Books, Stage
<1>3. Apart1 /\ Around' /\ p.pc \notin Views \cup {"send"} /\ p.pc \notin Over
  BY <1>1, AroundSame DEF Apart1, Books, Views, Over
<1>4. p.fresh /\ p.cur = par /\ Listed(s) /\ Len(s) \in Nat
  BY <1>1, <1>2, <1>3, IndexIn DEF Call
<1>5. CASE p.todo = <<>> /\ slices' = slices /\ Step(w, Goto(w, p.after), FALSE, {})
  <2> DEFINE g == Goto(w, p.after)
  <2>1. /\ DOMAIN g = Names /\ g.pc = p.after /\ g.op = p.op /\ g.now = p.now /\ g.cur = p.cur /\ g.fresh = p.fresh
        /\ g.uns = p.uns
    BY <1>1 DEF Goto, Call, Names
  <2> HIDE DEF g
  <2>2. Call(g, par)
    BY <1>1, <1>2, <1>3, <1>4, <2>1, CallOn DEF Starting, Inserting
  <2>3. Steps(Ahead(p.todo)) = 0
    <3>1. Ahead(<<>>) = <<>>
      BY DEF Ahead
    <3> QED BY <1>5, <3>1, SumNone
  <2>4. Booked(s) \in Nat
    BY <1>4, Accounts
  <2>5. g.uns \in 0 .. Target /\ Booked(s) + g.uns = Target /\ g.pc \in Adding
    BY <1>2, <2>1, <2>3, <2>4, TwapAssumption DEF Inserting
  <2>6. Stage(g, par, s) /\ g.pc \notin Views
    BY <2>5, AddingStage
  <2> QED BY <1>1, <1>3, <1>5, <2>2, <2>6, Moves DEF g
<1>6. CASE Len(s) >= p.at
  BY <1>2, <1>4, <1>6 DEF Inserting
<1> DEFINE x == NewSlice(Head(p.todo))
           r == [p EXCEPT !.todo = Tail(@), !.at = @ + 1]
<1>7. CASE /\ p.todo # <<>> /\ p.at <= MaxSlices /\ slices' = Append(slices, x)
           /\ Step(w, r, FALSE, {})
  <2> DEFINE t == slices'
             d == p.todo
             n == Len(d)
  <2>1. /\ DOMAIN r = Names /\ r.pc = "insert" /\ r.op = p.op /\ r.now = p.now /\ r.cur = p.cur /\ r.fresh = p.fresh
        /\ r.todo = Tail(d) /\ r.at = p.at + 1 /\ r.uns = p.uns /\ r.after = p.after
    BY <1>1 DEF Call, Names
  <2> HIDE DEF r
  <2>2. Call(r, par)
    BY <1>1, <1>2, <1>3, <1>4, <2>1, CallOn DEF Starting
  <2>3. n \in Nat \ {0} /\ DOMAIN d = 1 .. n /\ d = [i \in 1 .. n |-> d[i]] /\ d \in Seq({d[i] : i \in 1 .. n})
    <3>1. n \in Nat /\ DOMAIN d = 1 .. n /\ d = [i \in 1 .. n |-> d[i]]
      BY <1>2, ListLen DEF Inserting
    <3>2. d \in Seq({d[i] : i \in 1 .. n})
      BY <3>1
    <3>3. n # 0
      BY <1>7, <3>2
    <3> QED BY <3>1, <3>2, <3>3
  <2>4. Head(d) = d[1] /\ Todo(d[1])
    <3>1. Head(d) = d[1]
      BY <1>7, <2>3
    <3>2. 1 \in 1 .. n
      BY <2>3
    <3> QED BY <1>2, <2>3, <3>1, <3>2 DEF Inserting
  <2>5. /\ Len(Tail(d)) = n - 1 /\ DOMAIN Tail(d) = 1 .. n - 1 /\ List(Tail(d))
        /\ \A i \in 1 .. n - 1 : Tail(d)[i] = d[i + 1]
    <3> DEFINE S == {d[i] : i \in 1 .. n}
    <3>1. d \in Seq(S) /\ d # <<>>
      BY <1>7, <2>3
    <3> HIDE DEF S
    <3>2. /\ Tail(d) \in Seq(S) /\ Len(Tail(d)) = n - 1 /\ \A i \in 1 .. n - 1 : Tail(d)[i] = d[i + 1]
      BY <3>1, HeadTailProperties
    <3>3. n - 1 \in Nat /\ Tail(d) \in [1 .. n - 1 -> S]
      BY <2>3, <3>2, LenProperties
    <3>4. DOMAIN Tail(d) = 1 .. n - 1 /\ Tail(d) = [i \in 1 .. n - 1 |-> Tail(d)[i]]
      BY <3>3
    <3> QED BY <3>2, <3>3, <3>4 DEF List
  <2>6. Steps(Ahead(d)) = d[1].qty + Steps(Ahead(Tail(d)))
    <3> DEFINE f == Ahead(Tail(d))
               h == Ahead(d)
               m == n - 1
    <3>1. m \in Nat /\ n = m + 1
      BY <2>3
    <3>2. \A i \in 1 .. n : d[i].qty \in Int
      BY <1>2, <2>3, TwapAssumption DEF Inserting, Todo
    <3>3. h \in [1 .. n -> Int] /\ \A i \in 1 .. n : h[i] = d[i].qty
      BY <3>2 DEF Ahead
    <3>4. f \in [1 .. m -> Int] /\ \A i \in 1 .. m : f[i] = h[i + 1]
      <4>1. \A i \in 1 .. m : i + 1 \in 1 .. n
        BY <3>1
      <4> QED BY <2>5, <3>2, <3>3, <4>1 DEF Ahead
    <3>5. h[1] = d[1].qty
      BY <2>3, <3>3
    <3> HIDE DEF f, h, m
    <3>6. h \in [1 .. m + 1 -> Int]
      BY <3>1, <3>3
    <3>7. Steps(h) = h[1] + Steps(f)
      BY <3>1, <3>4, <3>6, SumLess
    <3> QED BY <3>5, <3>7 DEF f, h
  <2>7. SliceRow(x) /\ Bulk(x) = d[1].qty /\ x.status = "PENDING" /\ ~ x.frozen /\ x.filled = 0
    <3>1. x = [qty |-> d[1].qty, filled |-> 0, at |-> d[1].at, status |-> "PENDING", frozen |-> FALSE, by |-> NoWorker]
      BY <2>4 DEF NewSlice
    <3> HIDE DEF x
    <3>2. d[1].qty \in 0 .. Target /\ d[1].at \in 0 .. Deadline /\ 0 \in 0 .. Target /\ 0 <= d[1].qty
      BY <2>4, TwapAssumption DEF Todo
    <3> QED BY <3>1, <3>2 DEF SliceRow, Bulk, Unended, SliceStates
  <2> HIDE DEF x
  <2>8. /\ Listed(t) /\ DOMAIN s = 1 .. Len(s) /\ DOMAIN t = 1 .. Len(s) + 1 /\ Len(t) = Len(s) + 1
        /\ t[Len(s) + 1] = x /\ \A i \in DOMAIN s : t[i] = s[i]
        /\ Booked(t) = Booked(s) + Bulk(x)
    <3>1. Listed(s) /\ SliceRow(x) /\ t = Append(s, x)
      BY <1>4, <1>7, <2>7 DEF x
    <3> HIDE DEF s, t
    <3>2. Longer(s, x, t)
      BY <3>1, RowAdded
    <3> QED BY <3>2 DEF Longer
  <2> HIDE DEF t, s, d, n
  <2>9. DOMAIN t = DOMAIN s \cup {Len(s) + 1} /\ Len(s) + 1 \notin DOMAIN s
    BY <1>4, <2>8
  <2>10. LiveIn(t) = LiveIn(s)
    BY <2>7, <2>8, <2>9 DEF LiveIn
  <2>11. Booked(s) \in Nat /\ Booked(t) \in Nat /\ Steps(Ahead(d)) \in Int /\ Steps(Ahead(Tail(d))) \in Nat /\ d[1].qty \in Nat
    <3>1. Booked(s) \in Nat /\ Booked(t) \in Nat
      BY <1>4, <2>8, Accounts
    <3>2. d[1].qty \in Nat
      BY <2>4, TwapAssumption DEF Todo
    <3>3. Steps(Ahead(Tail(d))) \in Nat
      <4>1. n - 1 \in Nat /\ \A i \in 1 .. n - 1 : i + 1 \in 1 .. n
        BY <2>3
      <4>2. \A i \in 1 .. n : d[i].qty \in Nat
        <5>1. \A i \in 1 .. n : Todo(d[i])
          BY <1>2, <2>3 DEF Inserting, d
        <5> QED BY <5>1, TwapAssumption DEF Todo
      <4>3. Ahead(Tail(d)) \in [1 .. n - 1 -> Nat]
        BY <2>5, <4>1, <4>2 DEF Ahead
      <4> QED BY <4>1, <4>3, SumNat
    <3> QED BY <2>6, <3>1, <3>2, <3>3
  <2>12. Booked(t) + Steps(Ahead(Tail(d))) + p.uns = Target /\ p.uns \in 0 .. Target /\ Target \in Nat
    <3>1. Booked(s) + Steps(Ahead(d)) + p.uns = Target /\ p.uns \in 0 .. Target /\ Target \in Nat
      BY <1>2, TwapAssumption DEF Inserting, d, s
    <3> QED BY <2>6, <2>7, <2>8, <2>11, <3>1
  <2>13. Inserting(r, t)
    <3>1. \A i \in DOMAIN Tail(d) : Todo(Tail(d)[i])
      <4>1. \A i \in 1 .. n : Todo(d[i])
        BY <1>2, <2>3 DEF Inserting, d
      <4>2. \A i \in 1 .. n - 1 : i + 1 \in 1 .. n
        BY <2>3
      <4> QED BY <2>5, <4>1, <4>2
    <3>2. r.at = Len(t) + 1
      BY <1>2, <1>4, <2>1, <2>8 DEF Inserting, s
    <3>3. p.after \in Adding /\ (p.op = "start" => p.after = "planned")
      BY <1>2 DEF Inserting
    <3> QED BY <2>1, <2>5, <2>12, <3>1, <3>2, <3>3 DEF Inserting
  <2>14. Stage(r, par, t) /\ r.pc \notin Views
    BY <2>1, <2>13, InsertStage
  <2>15. Len(s) + 1 \in 1 .. MaxSlices /\ Len(t) <= MaxSlices
    BY <1>2, <1>4, <1>7, <2>8, TwapAssumption DEF Inserting, s
  <2>16. Rows(t)
    <3>1. Booked(t) <= Target
      BY <2>11, <2>12
    <3>2. \A i, j \in LiveIn(t) : i = j
      BY <1>2, <2>10 DEF Rows
    <3> QED BY <2>8, <2>15, <3>1, <3>2 DEF Rows, Listed
  <2>17. Parent(par, t)
    <3>1. Parent(par, s) /\ par.status # "COMPLETED"
      BY <1>1, <1>3 DEF Books, Call, Actionable, s
    <3> QED BY <2>10, <3>1 DEF Parent
  <2>18. Linked(r, t, child)
    <3> SUFFICES ASSUME NEW k \in 1 .. MaxSlices
                 PROVE  (k \notin DOMAIN t => child[k].state = "none") /\ (k \in DOMAIN t => Agrees(t[k], child[k]))
      BY <2>14 DEF Linked, Hung
    <3>1. Linked(p, s, child) /\ ~ Hung(p, k)
      BY <1>3 DEF Books, Hung, s
    <3>2. /\ k \notin DOMAIN s => child[k].state = "none"
          /\ k \in DOMAIN s => Agrees(s[k], child[k])
      BY <3>1 DEF Linked
    <3>3. CASE k = Len(s) + 1
      BY <2>7, <2>8, <2>9, <3>2, <3>3 DEF Agrees
    <3>4. CASE k # Len(s) + 1
      BY <2>8, <2>9, <3>2, <3>4
    <3> QED BY <3>3, <3>4
  <2>19. Frozen(r, t)
    <3>1. \A k \in DOMAIN s : ~ (s[k].status = "PENDING" /\ s[k].frozen)
      BY <1>1 DEF Books, Frozen, s
    <3> QED BY <2>7, <2>8, <2>9, <3>1 DEF Frozen
  <2>20. Children(child)
    BY DEF Books
  <2> QED BY <1>1, <1>3, <1>7, <2>2, <2>14, <2>16, <2>17, <2>18, <2>19, <2>20, Becomes DEF t
<1> QED BY <1>5, <1>6, <1>7 DEF InsertSlice

(* What a stage says does not depend on the copy of the parent.            *)
LEMMA StageSame ==
  ASSUME NEW r, DOMAIN r = Names, NEW q, NEW s, Stage(r, q, s), NEW cur
  PROVE  Stage([r EXCEPT !.cur = cur, !.fresh = TRUE], q, s)
<1> DEFINE R == [r EXCEPT !.cur = cur, !.fresh = TRUE]
<1>1. /\ R.pc = r.pc /\ R.uns = r.uns /\ R.list = r.list /\ R.ok = r.ok /\ R.want = r.want /\ R.why = r.why
      /\ R.after = r.after /\ R.k = r.k /\ R.q = r.q /\ R.sfresh = r.sfresh /\ R.view = r.view
      /\ R.todo = r.todo /\ R.at = r.at /\ R.op = r.op
  BY DEF Names
<1> HIDE DEF R
<1>2. Stage(R, q, s)
  BY <1>1 DEF Stage, Inserting, Listing, Closing, Submits
<1> QED BY <1>2 DEF R

LEMMA WritesOn ==
  ASSUME NEW w, Workers = {w}, Books(w), NEW new, NEW r, updateParent(w, new, r),
         UNCHANGED <<slices, child>>, Apart1, proc[w].pc \notin Over \cup Views \cup {"send"},
         r.pc \notin Views, DOMAIN r = Names, r.op = proc[w].op, r.now = proc[w].now,
         r.op = "start" => r.pc \in Over \cup Starting,
         new.status = par.status \/ (new.status \in Actionable /\ par.status \in Actionable),
         Parent(new, slices), Stage(r, new, slices)
  PROVE  Books(w)'
<1> DEFINE R == [r EXCEPT !.cur = new, !.fresh = TRUE]
<1>1. DOMAIN R = Names /\ R.op = r.op /\ R.now = r.now /\ R.pc = r.pc /\ R.cur = new /\ R.fresh
  BY DEF Names
<1>2. Stage(R, new, slices)
  BY StageSame
<1> HIDE DEF R
<1>3. Call(R, new)
  <2>1. Call(proc[w], par)
    BY DEF Books
  <2> QED BY <1>1, <2>1, CallOn
<1>4. Around'
  BY AroundSame DEF Books
<1> QED BY <1>2, <1>3, <1>4, Writes DEF R

(* A parent that goes on or stays as it was.                               *)
Usual == Reasons \ {"INVARIANT_BROKEN", "OVERFILL"}
Revised(q, status, reason, uns, new) ==
  /\ new = [status |-> status, reason |-> reason, uns |-> uns, filled |-> q.filled]
  /\ status \in {q.status} \cup Actionable /\ reason \in Usual /\ uns \in Unplanned .. Target

LEMMA ParentRecord ==
  ASSUME NEW q, NEW s, Parent(q, s)
  PROVE  /\ q = [status |-> q.status, reason |-> q.reason, uns |-> q.uns, filled |-> q.filled]
         /\ q.status \in Actionable \cup Terminal /\ q.reason \in Reasons
         /\ q.uns \in Unplanned .. Target /\ q.filled \in 0 .. Target
  BY DEF Parent

LEMMA ParentOn ==
  ASSUME NEW q, NEW s, Parent(q, s), NEW status, NEW reason, NEW uns, NEW new, Revised(q, status, reason, uns, new)
  PROVE  Parent(new, s) /\ new.status = status /\ new.reason = reason /\ new.uns = uns
<1>1. new = [status |-> status, reason |-> reason, uns |-> uns, filled |-> q.filled]
  BY DEF Revised
<1>2. status \in {q.status} \cup Actionable /\ reason \in Usual /\ uns \in Unplanned .. Target
  BY DEF Revised
<1>3. /\ q.status \in Actionable \cup Terminal /\ q.filled \in 0 .. Target
      /\ (q.status \in Terminal => LiveIn(s) = {}) /\ (q.status = "COMPLETED" => Filled(s) = Target)
  BY DEF Parent
<1>4. status \in Actionable \cup Terminal
  BY <1>2, <1>3
<1>5. (status \in Terminal => LiveIn(s) = {}) /\ (status = "COMPLETED" => Filled(s) = Target)
  <2>1. status \in Actionable => status \notin Terminal /\ status # "COMPLETED"
    BY DEF Actionable, Terminal
  <2> QED BY <1>2, <1>3, <2>1
<1>6. new \in [status : Actionable \cup Terminal, reason : Reasons, uns : Unplanned .. Target, filled : 0 .. Target]
  BY <1>1, <1>2, <1>3, <1>4 DEF Usual
<1>7. new.status = status /\ new.reason = reason /\ new.uns = uns
  BY <1>1
<1>8. new.reason \notin {"INVARIANT_BROKEN", "OVERFILL"}
  BY <1>2, <1>7 DEF Usual
<1> QED BY <1>5, <1>6, <1>7, <1>8 DEF Parent

LEMMA EvenSame == ASSUME NEW q, NEW new, NEW s, new.uns = q.uns, Even(q, s) PROVE Even(new, s)
  BY DEF Even

(* The rest is written, so that the books are even again.                  *)
LEMMA EvenAgain ==
  ASSUME NEW q, NEW s, q.uns \in 0 .. Target, Booked(s) + q.uns = Target PROVE Even(q, s) /\ q.uns # Unplanned
<1>1. q.uns # Unplanned
  BY DEF Unplanned
<1> QED BY <1>1 DEF Even

LEMMA BooksPlanned == ASSUME NEW w, Workers = {w}, Books(w), Planned(w) PROVE Books(w)'
<1> DEFINE p == proc[w]
           new == [par EXCEPT !.uns = p.uns, !.reason = "OTHER"]
           r == [Goto(w, "started") EXCEPT !.uns = 0, !.at = 0, !.after = "submit"]
<1>1. p.pc = "planned" /\ Call(p, par) /\ UNCHANGED <<lease, slices, child, clock, crashes>>
  BY DEF Planned, At, Books
<1>2. p.fresh /\ p.cur = par /\ p.pc \notin Over \cup Views \cup {"send"} /\ Apart1
  BY <1>1 DEF Call, Over, Views, Apart1
<1>3. p.uns \in 0 .. Target /\ Booked(slices) + p.uns = Target
  BY <1>1 DEF Books, Stage, Adding
<1>4. p.uns \in Unplanned .. Target
  BY <1>3, TwapAssumption DEF Unplanned
<1>5. Parent(new, slices) /\ new.status = par.status /\ new.uns = p.uns
  <2>1. Parent(par, slices) /\ "OTHER" \in Usual
    BY DEF Books, Usual, Reasons
  <2>2. par = [status |-> par.status, reason |-> par.reason, uns |-> par.uns, filled |-> par.filled]
    BY <2>1, ParentRecord
  <2>a. new = [par EXCEPT !.uns = p.uns, !.reason = "OTHER"]
    OBVIOUS
  <2> HIDE DEF new, p
  <2>3. new = [status |-> par.status, reason |-> "OTHER", uns |-> p.uns, filled |-> par.filled]
    BY <2>2, <2>a
  <2>4. Revised(par, par.status, "OTHER", p.uns, new)
    BY <1>4, <2>1, <2>3 DEF Revised
  <2> QED BY <2>1, <2>4, ParentOn
<1>6. /\ DOMAIN r = Names /\ r.pc = "started" /\ r.op = p.op /\ r.now = p.now
  BY <1>1 DEF Goto, Call, Names
<1>7. updateParent(w, new, IF p.op = "start" THEN Leave(w) ELSE r)
  BY <1>2 DEF Planned
<1> HIDE DEF new, r
<1>8. Even(new, slices)
  BY <1>3, <1>5, EvenAgain
<1>9. CASE p.op = "start"
  BY <1>1, <1>2, <1>5, <1>7, <1>8, <1>9, LeavesWriting
<1>10. CASE p.op # "start"
  <2>1. Stage(r, new, slices) /\ r.pc \notin Views
    BY <1>6, <1>8, LevelStage
  <2> QED BY <1>1, <1>2, <1>5, <1>6, <1>7, <1>10, <2>1, WritesOn
<1> QED BY <1>9, <1>10

LEMMA BooksStarted == ASSUME NEW w, Workers = {w}, Books(w), Started(w) \/ Resumed(w) PROVE Books(w)'
<1> DEFINE p == proc[w]
           new == [par EXCEPT !.status = "RUNNING", !.reason = "OTHER"]
           r == Goto(w, "safety")
<1>1. p.pc \in {"started", "resume"} /\ Call(p, par) /\ UNCHANGED <<lease, slices, child, clock, crashes>>
  BY DEF Started, Resumed, At, Books
<1>2. /\ p.fresh /\ p.cur = par /\ p.pc \notin Over \cup Views \cup {"send"} /\ Apart1
      /\ p.op # "start" /\ par.status \in Actionable
  BY <1>1 DEF Call, Over, Views, Apart1, Starting
<1>3. Even(par, slices)
  BY <1>1 DEF Books, Stage, Levels
<1>5. Parent(new, slices) /\ new.status = "RUNNING" /\ new.uns = par.uns
  <2>1. Parent(par, slices) /\ "RUNNING" \in {par.status} \cup Actionable /\ "OTHER" \in Usual
    BY DEF Books, Actionable, Usual, Reasons
  <2>2. /\ par = [status |-> par.status, reason |-> par.reason, uns |-> par.uns, filled |-> par.filled]
        /\ par.uns \in Unplanned .. Target
    BY <2>1, ParentRecord
  <2>a. new = [par EXCEPT !.status = "RUNNING", !.reason = "OTHER"]
    OBVIOUS
  <2> HIDE DEF new
  <2>3. new = [status |-> "RUNNING", reason |-> "OTHER", uns |-> par.uns, filled |-> par.filled]
    BY <2>2, <2>a
  <2>4. Revised(par, "RUNNING", "OTHER", par.uns, new)
    BY <2>1, <2>2, <2>3 DEF Revised
  <2> QED BY <2>1, <2>4, ParentOn
<1>6. /\ DOMAIN r = Names /\ r.pc = "safety" /\ r.op = p.op /\ r.now = p.now
  BY <1>1 DEF Goto, Call, Names
<1>7. updateParent(w, new, r) \/ updateParent(w, new, Leave(w))
  BY <1>2 DEF Started, Resumed
<1> HIDE DEF new, r
<1>8. Even(new, slices)
  BY <1>3, <1>5, EvenSame
<1>9. CASE updateParent(w, new, Leave(w))
  BY <1>1, <1>2, <1>5, <1>8, <1>9, LeavesWriting
<1>10. CASE updateParent(w, new, r)
  <2>1. Stage(r, new, slices) /\ r.pc \notin Views
    BY <1>6, <1>8, LevelStage
  <2>2. new.status \in Actionable
    BY <1>5 DEF Actionable
  <2> QED BY <1>1, <1>2, <1>5, <1>6, <1>10, <2>1, <2>2, WritesOn
<1> QED BY <1>7, <1>9, <1>10

-----------------------------------------------------------------------------
(* The call goes on, with its copy. *)
Onward(p, r) == DOMAIN r = Names /\ r.op = p.op /\ r.now = p.now /\ r.cur = p.cur /\ r.fresh = p.fresh

LEMMA GoesOn ==
  ASSUME NEW w, Workers = {w}, Books(w), NEW r, NEW pw, NEW W, Step(w, r, pw, W), UNCHANGED <<par, slices, child>>, Apart1,
         proc[w].pc \notin Over \cup Starting \cup Views \cup {"send"}, r.pc \notin Views,
         Onward(proc[w], r), Stage(r, par, slices)
  PROVE  Books(w)'
<1>1. Call(proc[w], par) /\ Around'
  BY AroundSame DEF Books
<1>2. Call(r, par)
  <2>1. proc[w].fresh /\ proc[w].cur = par /\ proc[w].op # "start"
    BY <1>1 DEF Call
  <2> QED BY <1>1, <2>1, CallOn DEF Onward
<1> QED BY <1>1, <1>2, Moves

LEMMA CancellingStage ==
  ASSUME NEW r, NEW q, NEW s, r.pc = "cancelling", Listing(r, s), Even(q, s) \/ (LiveIn(s) = {} /\ r.ok)
  PROVE  Stage(r, q, s) /\ r.pc \notin Views
  BY DEF Stage, Over, Starting, Levels, Adding, Tells, Sending, Views

LEMMA PollingStage ==
  ASSUME NEW r, NEW q, NEW s, r.pc = "polling", Listing(r, s), Even(q, s) \/ LiveIn(s) = {}
  PROVE  Stage(r, q, s) /\ r.pc \notin Views
  BY DEF Stage, Over, Starting, Levels, Adding, Tells, Sending, Views

LEMMA CloseStage ==
  ASSUME NEW r, NEW q, NEW s, r.pc = "close", Closing(r, s)
  PROVE  Stage(r, q, s) /\ r.pc \notin Views
  BY DEF Stage, Over, Starting, Levels, Adding, Tells, Sending, Views

LEMMA PauseStage ==
  ASSUME NEW r, NEW q, NEW s, r.pc = "pause", r.why \in Stops, r.after \in {"release", "account"},
         Even(q, s) \/ (r.after = "account" /\ Uneven(q, s))
  PROVE  Stage(r, q, s) /\ r.pc \notin Views
  BY DEF Stage, Over, Starting, Levels, Adding, Tells, Sending, Views

LEMMA ReplanStage ==
  ASSUME NEW r, NEW q, NEW s, r.pc = "replan", r.after \in {"submit", "account"}
  PROVE  Stage(r, q, s) /\ r.pc \notin Views
  BY DEF Stage, Over, Starting, Levels, Adding, Tells, Sending, Views

LEMMA AccountStage ==
  ASSUME NEW r, NEW q, NEW s, r.pc = "account", Even(q, s) \/ Uneven(q, s)
  PROVE  Stage(r, q, s) /\ r.pc \notin Views
  BY DEF Stage, Over, Starting, Levels, Adding, Tells, Sending, Views

(* A parent is to be ended or paused: first its live slices. *)
LEMMA BooksEnding ==
  ASSUME NEW w, Workers = {w}, Books(w), NEW why, NEW want \in Wants, NEW live \in BOOLEAN, want = "PAUSED" \/ live,
         proc[w].pc \in {"safety", "cancel"}, Step(w, Ending(w, why, want, live), FALSE, {}),
         UNCHANGED <<par, lease, slices, child, clock, crashes>>
  PROVE  Books(w)'
<1> DEFINE p == proc[w]
           r == Ending(w, why, want, live)
<1>1. Call(p, par) /\ Even(par, slices) /\ p.pc \notin Over \cup Starting \cup Views \cup {"send"} /\ Apart1
  BY DEF Books, Stage, Levels, Over, Starting, Views, Apart1
<1>2. /\ Onward(p, r) /\ r.pc = "cancelling" /\ r.want = want /\ r.ok = TRUE
      /\ r.list = IF live THEN LiveIn(slices) ELSE {}
  BY <1>1 DEF Ending, Call, Names, Onward
<1> HIDE DEF r
<1>3. Listing(r, slices)
  BY <1>2 DEF Listing
<1>4. Stage(r, par, slices) /\ r.pc \notin Views
  BY <1>1, <1>2, <1>3, CancellingStage
<1>5. Step(w, r, FALSE, {}) /\ UNCHANGED <<par, slices, child>>
  BY DEF r
<1> QED BY <1>1, <1>2, <1>4, <1>5, GoesOn

LEMMA BooksEndings ==
  ASSUME NEW w, Workers = {w}, Books(w), Stop(w) \/ Expire(w) \/ Hold(w) \/ CancelAsked(w)
  PROVE  Books(w)'
<1>1. "PAUSED" \in Wants /\ "CANCELLED" \in Wants /\ "EXPIRED" \in Wants /\ TRUE \in BOOLEAN /\ FALSE \in BOOLEAN
  BY DEF Wants
<1>2. /\ UNCHANGED <<par, lease, slices, child, clock, crashes>> /\ proc[w].pc \in {"safety", "cancel"}
      /\ \E why : \/ \E want \in Wants : Step(w, Ending(w, why, want, TRUE), FALSE, {})
                  \/ Step(w, Ending(w, why, "PAUSED", FALSE), FALSE, {})
  <2>1. CASE Stop(w)
    BY <1>1, <2>1 DEF Stop, At
  <2>2. CASE Expire(w)
    BY <1>1, <2>2 DEF Expire, At
  <2>3. CASE Hold(w)
    BY <1>1, <2>3 DEF Hold, At
  <2>4. CASE CancelAsked(w)
    BY <1>1, <2>4 DEF CancelAsked, At
  <2> QED BY <2>1, <2>2, <2>3, <2>4
<1>3. PICK why : \/ \E want \in Wants : Step(w, Ending(w, why, want, TRUE), FALSE, {})
                 \/ Step(w, Ending(w, why, "PAUSED", FALSE), FALSE, {})
  BY <1>2
<1>4. CASE Step(w, Ending(w, why, "PAUSED", FALSE), FALSE, {})
  BY <1>1, <1>2, <1>4, BooksEnding
<1>5. CASE \E want \in Wants : Step(w, Ending(w, why, want, TRUE), FALSE, {})
  <2>1. PICK want \in Wants : Step(w, Ending(w, why, want, TRUE), FALSE, {})
    BY <1>5
  <2> QED BY <1>1, <1>2, <2>1, BooksEnding
<1> QED BY <1>3, <1>4, <1>5

(* The parent is paused or set going, with the rest it has.                *)
LEMMA BooksMarked ==
  ASSUME NEW w, Workers = {w}, Books(w), NEW new, NEW status \in Actionable, NEW reason \in Usual,
         new = [par EXCEPT !.status = status, !.reason = reason]
  PROVE  Parent(new, slices) /\ new.status \in Actionable /\ new.uns = par.uns /\ (Even(par, slices) => Even(new, slices))
<1>1. Parent(par, slices)
  BY DEF Books
<1>2. par = [status |-> par.status, reason |-> par.reason, uns |-> par.uns, filled |-> par.filled] /\ par.uns \in Unplanned .. Target
  BY <1>1, ParentRecord
<1>3. new = [status |-> status, reason |-> reason, uns |-> par.uns, filled |-> par.filled]
  BY <1>2
<1>4. Revised(par, status, reason, par.uns, new)
  BY <1>2, <1>3 DEF Revised
<1>5. Parent(new, slices) /\ new.status = status /\ new.uns = par.uns
  BY <1>1, <1>4, ParentOn
<1> QED BY <1>5, EvenSame

LEMMA BooksProceed == ASSUME NEW w, Workers = {w}, Books(w), Proceed(w) PROVE Books(w)'
<1> DEFINE p == proc[w]
           r == [Goto(w, "polling") EXCEPT !.list = LiveIn(slices)]
           new == [par EXCEPT !.status = "RUNNING", !.reason = "OTHER"]
<1>1. p.pc = "safety" /\ UNCHANGED <<lease, slices, child, clock, crashes>>
  BY DEF Proceed, At
<1>2. /\ Call(p, par) /\ Even(par, slices) /\ p.pc \notin Over \cup Starting \cup Views \cup {"send"} /\ Apart1
      /\ p.cur = par /\ p.op # "start" /\ par.status \in Actionable
  BY <1>1 DEF Books, Stage, Levels, Over, Starting, Views, Apart1, Call
<1>3. Onward(p, r) /\ r.pc = "polling" /\ r.list = LiveIn(slices)
  BY <1>2 DEF Call, Names, Onward, Goto
<1>4. updateParent(w, new, r) \/ (par' = par /\ Step(w, r, FALSE, {}))
  BY <1>2 DEF Proceed
<1>5. /\ Parent(new, slices) /\ new.status \in Actionable /\ Even(new, slices)
  <2>1. new = [par EXCEPT !.status = "RUNNING", !.reason = "OTHER"] /\ "RUNNING" \in Actionable /\ "OTHER" \in Usual
    BY DEF Actionable, Usual, Reasons
  <2> HIDE DEF new
  <2> QED BY <1>2, <2>1, BooksMarked
<1> HIDE DEF r, new
<1>6. Listing(r, slices)
  BY <1>3 DEF Listing
<1>7. Stage(r, par, slices) /\ Stage(r, new, slices) /\ r.pc \notin Views
  BY <1>2, <1>3, <1>5, <1>6, PollingStage
<1>8. CASE updateParent(w, new, r)
  BY <1>1, <1>2, <1>3, <1>5, <1>7, <1>8, WritesOn DEF Onward
<1>9. CASE par' = par /\ Step(w, r, FALSE, {})
  BY <1>1, <1>2, <1>3, <1>7, <1>9, GoesOn
<1> QED BY <1>4, <1>8, <1>9

LEMMA BooksNotConfirmed == ASSUME NEW w, Workers = {w}, Books(w), NotConfirmed(w) PROVE Books(w)'
<1> DEFINE p == proc[w]
           why == Unconfirmed(p.why)
           new == [par EXCEPT !.status = "PAUSED", !.reason = why]
<1>1. p.pc = "cancelling" /\ ~ p.ok /\ UNCHANGED <<lease, slices, child, clock, crashes>>
  BY DEF NotConfirmed, At
<1>2. /\ Call(p, par) /\ Even(par, slices) /\ p.pc \notin Over \cup Starting \cup Views \cup {"send"} /\ Apart1
      /\ p.cur = par /\ p.op # "start" /\ par.status \in Actionable
  BY <1>1 DEF Books, Stage, Levels, Over, Starting, Views, Apart1, Call
<1>3. why \in Usual
  BY DEF Unconfirmed, Usual, Reasons, Held
<1> HIDE DEF why
<1>4. updateParent(w, new, Leave(w)) \/ (par' = par /\ Step(w, Leave(w), FALSE, {}))
  BY <1>2 DEF NotConfirmed, Pause, why
<1>5. /\ Parent(new, slices) /\ Even(new, slices)
  <2>1. new = [par EXCEPT !.status = "PAUSED", !.reason = why] /\ "PAUSED" \in Actionable
    BY DEF Actionable
  <2> HIDE DEF new
  <2> QED BY <1>2, <1>3, <2>1, BooksMarked
<1> HIDE DEF new
<1>6. CASE updateParent(w, new, Leave(w))
  BY <1>1, <1>2, <1>5, <1>6, LeavesWriting
<1>7. CASE par' = par /\ Step(w, Leave(w), FALSE, {})
  BY <1>1, <1>2, <1>7, Leaves
<1> QED BY <1>4, <1>6, <1>7

LEMMA BooksPauseNow == ASSUME NEW w, Workers = {w}, Books(w), PauseNow(w) PROVE Books(w)'
<1> DEFINE p == proc[w]
           why == p.why
           r == Goto(w, p.after)
           new == [par EXCEPT !.status = "PAUSED", !.reason = why]
<1>1. p.pc = "pause" /\ UNCHANGED <<lease, slices, child, clock, crashes>>
  BY DEF PauseNow, At
<1>2. /\ Call(p, par) /\ p.pc \notin Over \cup Starting \cup Views \cup {"send"} /\ Apart1
      /\ p.cur = par /\ p.op # "start" /\ par.status \in Actionable
  BY <1>1 DEF Books, Over, Starting, Views, Apart1, Call
<1>3. why \in Usual /\ p.after \in {"release", "account"} /\ (Even(par, slices) \/ (p.after = "account" /\ Uneven(par, slices)))
  BY <1>1 DEF Books, Stage, Stops, Usual, Reasons, Held
<1>4. updateParent(w, new, r) \/ (par' = par /\ Step(w, r, FALSE, {}))
  BY <1>2 DEF PauseNow, Pause
<1>5. Onward(p, r) /\ r.pc = p.after
  BY <1>2 DEF Call, Names, Onward, Goto
<1>6. /\ Parent(new, slices) /\ new.status \in Actionable /\ new.uns = par.uns /\ (Even(par, slices) => Even(new, slices))
  <2>1. new = [par EXCEPT !.status = "PAUSED", !.reason = why] /\ "PAUSED" \in Actionable
    BY DEF Actionable
  <2> HIDE DEF new
  <2> QED BY <1>3, <2>1, BooksMarked
<1> HIDE DEF r, new
<1>7. Stage(r, par, slices) /\ Stage(r, new, slices) /\ r.pc \notin Views
  <2>1. CASE p.after = "release"
    <3>1. r.pc \in Over /\ Even(par, slices)
      BY <1>3, <1>5, <2>1 DEF Over
    <3> QED BY <1>6, <3>1, OverStage
  <2>2. CASE p.after = "account"
    <3>1. Uneven(par, slices) => Uneven(new, slices)
      BY <1>6 DEF Uneven
    <3> QED BY <1>3, <1>5, <1>6, <2>2, <3>1, AccountStage
  <2> QED BY <1>3, <2>1, <2>2
<1>8. CASE updateParent(w, new, r)
  BY <1>1, <1>2, <1>5, <1>6, <1>7, <1>8, WritesOn DEF Onward
<1>9. CASE par' = par /\ Step(w, r, FALSE, {})
  BY <1>1, <1>2, <1>5, <1>7, <1>9, GoesOn
<1> QED BY <1>4, <1>8, <1>9

(* Without a slice to be sent what is filled and outstanding is booked. *)
LEMMA NoLoose ==
  ASSUME NEW s, Listed(s), Loose(s) = {}
  PROVE  LooseQty(s) = 0 /\ Filled(s) + Outstanding(s) = Booked(s) /\ Filled(s) \in Nat /\ Outstanding(s) \in Nat /\ Booked(s) \in Nat
<1>1. Len(s) \in Nat /\ DOMAIN s = 1 .. Len(s) /\ Looses(s) \in Terms(Len(s))
  BY TermsTyped
<1>2. Looses(s) \in [1 .. Len(s) -> Int] /\ \A k \in 1 .. Len(s) : Looses(s)[k] = 0
  BY <1>1 DEF Looses, Terms
<1>3. Steps(Looses(s)) = 0
  BY <1>1, <1>2, SumZero
<1>4. LooseQty(s) = 0
  BY <1>3, Readings
<1>5. /\ Filled(s) \in Nat /\ Outstanding(s) \in Nat /\ LooseQty(s) \in Nat /\ Booked(s) \in Nat
      /\ Filled(s) + Outstanding(s) + LooseQty(s) = Booked(s)
  BY Accounts
<1> QED BY <1>4, <1>5

LEMMA BooksClose == ASSUME NEW w, Workers = {w}, Books(w), Close(w) PROVE Books(w)'
<1> DEFINE p == proc[w]
           filled == Filled(slices)
           status == IF p.want = "EXPIRED" /\ filled >= Target THEN "COMPLETED" ELSE p.want
           reason == IF p.why = "OPERATOR_CANCEL" THEN "OPERATOR_CANCEL" ELSE "OTHER"
           uns == Larger(0, Target - filled - Outstanding(slices))
           new == [status |-> status, reason |-> reason, uns |-> uns, filled |-> filled]
<1>1. p.pc = "close" /\ UNCHANGED <<lease, slices, child, clock, crashes>> /\ updateParent(w, new, Leave(w))
  BY DEF Close, At
<1>2. p.pc \notin Over \cup Views \cup {"send"} /\ Apart1 /\ Closing(p, slices) /\ Rows(slices)
  BY <1>1 DEF Books, Stage, Over, Views, Apart1
<1>3. Listed(slices) /\ Loose(slices) = {}
  BY <1>2, IndexIn DEF Closing, Loose
<1>4. filled + Outstanding(slices) = Booked(slices) /\ filled \in Nat /\ Outstanding(slices) \in Nat /\ Booked(slices) \in Nat
  BY <1>3, NoLoose
<1>5. Booked(slices) <= Target /\ Target \in Nat
  BY <1>2, TwapAssumption DEF Rows
<1> HIDE DEF filled
<1>6. uns = Target - Booked(slices) /\ uns \in 0 .. Target /\ filled \in 0 .. Target
  BY <1>4, <1>5 DEF Larger
<1>7. reason \in Usual
  BY DEF Usual, Reasons
<1>8. status \in Actionable \cup Terminal /\ (status \in Terminal => LiveIn(slices) = {}) /\ (status = "COMPLETED" => filled = Target)
  <2>1. p.want \in Wants /\ (p.want # "PAUSED" => LiveIn(slices) = {})
    BY <1>2 DEF Closing
  <2>2. CASE p.want = "EXPIRED" /\ filled >= Target
    BY <1>5, <1>6, <2>1, <2>2 DEF Terminal
  <2>3. CASE ~ (p.want = "EXPIRED" /\ filled >= Target)
    BY <2>1, <2>3 DEF Wants, Actionable, Terminal
  <2> QED BY <2>2, <2>3
<1> HIDE DEF status, reason, uns
<1>9. new.status = status /\ new.reason = reason /\ new.uns = uns /\ new.filled = filled
  OBVIOUS
<1>10. Parent(new, slices)
  <2>1. uns \in Unplanned .. Target
    BY <1>5, <1>6 DEF Unplanned
  <2>2. new \in [status : Actionable \cup Terminal, reason : Reasons, uns : Unplanned .. Target, filled : 0 .. Target]
    BY <1>6, <1>7, <1>8, <2>1 DEF Usual
  <2> HIDE DEF new
  <2> QED BY <1>7, <1>8, <1>9, <2>2 DEF Parent, Usual, filled
<1> HIDE DEF new
<1>11. Even(new, slices)
  <2>1. new.uns \in 0 .. Target /\ Booked(slices) + new.uns = Target
    BY <1>4, <1>5, <1>6, <1>9
  <2> QED BY <2>1, EvenAgain
<1> QED BY <1>1, <1>2, <1>10, <1>11, LeavesWriting

LEMMA BooksAdapted == ASSUME NEW w, Workers = {w}, Books(w), Adapted(w) PROVE Books(w)'
<1> DEFINE p == proc[w]
           next == IF At(w, "readapted") THEN "account" ELSE IF p.cur.status # "RUNNING" THEN "release" ELSE "submit"
           r == [Goto(w, next) EXCEPT !.uns = 0, !.at = 0, !.after = "submit"]
           new == [par EXCEPT !.uns = p.uns, !.reason = "OTHER"]
<1>1. p.pc \in {"adapted", "readapted"} /\ UNCHANGED <<lease, slices, child, clock, crashes>>
  BY DEF Adapted
<1>2. /\ Call(p, par) /\ p.pc \notin Over \cup Starting \cup Views \cup {"send"} /\ Apart1
      /\ p.cur = par /\ p.op # "start" /\ par.status \in Actionable
  BY <1>1 DEF Books, Over, Starting, Views, Apart1, Call
<1>3. p.uns \in 0 .. Target /\ Booked(slices) + p.uns = Target
  BY <1>1 DEF Books, Stage, Adding
<1>4. updateParent(w, new, r)
  BY <1>2 DEF Adapted
<1>5. next \in {"account", "release", "submit"}
  OBVIOUS
<1> HIDE DEF next
<1>6. Onward(p, r) /\ r.pc = next
  BY <1>2 DEF Call, Names, Onward, Goto
<1>7. Parent(new, slices) /\ new.status = par.status /\ new.uns = p.uns
  <2>1. Parent(par, slices) /\ "OTHER" \in Usual /\ p.uns \in Unplanned .. Target
    BY <1>3, TwapAssumption DEF Books, Usual, Reasons, Unplanned
  <2>2. par = [status |-> par.status, reason |-> par.reason, uns |-> par.uns, filled |-> par.filled]
    BY <2>1, ParentRecord
  <2>3. new = [par EXCEPT !.uns = p.uns, !.reason = "OTHER"]
    OBVIOUS
  <2> HIDE DEF new, p
  <2>4. new = [status |-> par.status, reason |-> "OTHER", uns |-> p.uns, filled |-> par.filled]
    BY <2>2, <2>3
  <2>5. Revised(par, par.status, "OTHER", p.uns, new)
    BY <2>1, <2>4 DEF Revised
  <2> QED BY <2>1, <2>5, ParentOn
<1> HIDE DEF r, new
<1>8. Even(new, slices)
  BY <1>3, <1>7, EvenAgain
<1>9. Stage(r, new, slices) /\ r.pc \notin Views
  <2>1. CASE next = "release"
    <3>1. r.pc \in Over
      BY <1>6, <2>1 DEF Over
    <3> QED BY <1>8, <3>1, OverStage
  <2>2. CASE next # "release"
    BY <1>5, <1>6, <1>8, <2>2, LevelStage
  <2> QED BY <2>1, <2>2
<1> QED BY <1>1, <1>2, <1>4, <1>6, <1>7, <1>9, WritesOn DEF Onward

-----------------------------------------------------------------------------
(* The reconciliation of the parent. While the books are even it finds no  *)
(* fault.                                                                  *)
Verdict(p, s, now, v) ==
  /\ v.status \in Actionable \cup Terminal /\ v.reason \in Reasons
  /\ v.status \in Terminal => LiveIn(s) = {}
  /\ v.status = "COMPLETED" => Filled(s) = Target
  /\ "reject" \notin Env => v.reason \notin {"INVARIANT_BROKEN", "OVERFILL"}
  /\ Even(p, s) \/ v.status = "FAILED"

LEMMA Reconciled ==
  ASSUME NEW p, NEW s, NEW now, Rows(s), Parent(p, s), p.status \in Actionable, Even(p, s) \/ Uneven(p, s)
  PROVE  LET v == reconcileParent(p, s, now)
         IN  /\ Verdict(p, s, now, v) /\ v.uns = p.uns /\ v.filled = Filled(s) /\ v.filled \in 0 .. Target
             /\ v \in [status : Actionable \cup Terminal, reason : Reasons, uns : Unplanned .. Target, filled : 0 .. Target]
<1> DEFINE filled == Filled(s)
           live == LiveIn(s) # {}
           pending == PendingQty(s)
           accounted == filled + LiveQty(s) + pending + p.uns
           ok == p.uns = Unplanned \/ accounted = Target
           verdict ==
             CASE filled > Target -> <<"FAILED", "OVERFILL">>
               [] filled <= Target /\ p.uns # Unplanned /\ accounted # Target -> <<"FAILED", "INVARIANT_BROKEN">>
               [] OTHER ->
                    IF p.status \in {"FAILED", "CANCELLED"} THEN <<p.status, p.reason>>
                    ELSE IF ~ live /\ pending = 0 /\ filled = Target THEN <<"COMPLETED", "OTHER">>
                    ELSE IF ~ live /\ now >= Deadline THEN <<"EXPIRED", "OTHER">>
                    ELSE IF p.status = "PAUSED" THEN <<"PAUSED", p.reason>>
                    ELSE IF s = <<>> /\ p.uns = Unplanned THEN <<"PLANNED", "OTHER">>
                    ELSE <<"RUNNING", "OTHER">>
           v == [p EXCEPT !.status = verdict[1], !.reason = verdict[2], !.filled = filled]
<1>1. reconcileParent(p, s, now) = v
  BY DEF reconcileParent, LiveQty, PendingQty
<1>2. Listed(s) /\ Booked(s) <= Target /\ Target \in Nat
  BY IndexIn, TwapAssumption DEF Rows
<1>3. /\ Filled(s) \in Nat /\ LiveQty(s) \in Nat /\ PendingQty(s) \in Nat /\ Booked(s) \in Nat
      /\ Filled(s) + LiveQty(s) + PendingQty(s) = Booked(s)
  BY <1>2, Accounts
<1>4. p = [status |-> p.status, reason |-> p.reason, uns |-> p.uns, filled |-> p.filled] /\ p.uns \in Unplanned .. Target
      /\ p.reason \in Reasons
  BY ParentRecord
<1>5. filled \in 0 .. Target /\ accounted = Booked(s) + p.uns
  BY <1>2, <1>3, <1>4 DEF Unplanned
<1>6. ok => Even(p, s)
  <2>1. CASE p.uns = Unplanned
    BY <2>1 DEF Uneven
  <2>2. CASE p.uns # Unplanned
    BY <1>5, <2>2 DEF Even
  <2> QED BY <2>1, <2>2
<1>7. ~ ok => "reject" \in Env /\ ~ live
  <2>1. ~ ok => ~ Even(p, s)
    BY <1>5 DEF Even
  <2> QED BY <2>1 DEF Uneven
<1>8. "reject" \notin Env => p.reason \notin {"INVARIANT_BROKEN", "OVERFILL"}
  BY DEF Parent
<1>9. ~ (filled > Target) /\ filled <= Target
  BY <1>2, <1>5
<1> HIDE DEF accounted, pending, live
<1>10. CASE ~ ok
  <2>1. verdict[1] = "FAILED" /\ verdict[2] = "INVARIANT_BROKEN"
    BY <1>9, <1>10
  <2>a. v = [p EXCEPT !.status = "FAILED", !.reason = "INVARIANT_BROKEN", !.filled = filled]
    BY <2>1
  <2> HIDE DEF v, filled
  <2>2. v = [status |-> "FAILED", reason |-> "INVARIANT_BROKEN", uns |-> p.uns, filled |-> filled]
    BY <1>4, <2>a
  <2> QED BY <1>1, <1>4, <1>5, <1>7, <1>10, <2>2 DEF Verdict, Actionable, Terminal, Reasons, filled, live
<1>11. CASE ok
  <2> DEFINE a == verdict[1]
             b == verdict[2]
  <2>1. /\ a \in {"COMPLETED", "EXPIRED", "PAUSED", "PLANNED", "RUNNING"} /\ b \in {p.reason, "OTHER"}
        /\ a \in {"COMPLETED", "EXPIRED"} => ~ live
        /\ a = "COMPLETED" => filled = Target
    <3>1. verdict = IF ~ live /\ pending = 0 /\ filled = Target THEN <<"COMPLETED", "OTHER">>
                    ELSE IF ~ live /\ now >= Deadline THEN <<"EXPIRED", "OTHER">>
                    ELSE IF p.status = "PAUSED" THEN <<"PAUSED", p.reason>>
                    ELSE IF s = <<>> /\ p.uns = Unplanned THEN <<"PLANNED", "OTHER">>
                    ELSE <<"RUNNING", "OTHER">>
      <4>1. p.status \notin {"FAILED", "CANCELLED"} /\ ~ (p.uns # Unplanned /\ accounted # Target)
        BY <1>11 DEF Actionable
      <4> HIDE DEF ok
      <4> QED BY <1>9, <4>1
    <3> HIDE DEF verdict
    <3> QED BY <3>1
  <2>2. v = [p EXCEPT !.status = a, !.reason = b, !.filled = filled]
    OBVIOUS
  <2> HIDE DEF v, a, b, filled
  <2>3. v = [status |-> a, reason |-> b, uns |-> p.uns, filled |-> filled]
    BY <1>4, <2>2
  <2>4. a \in Actionable \cup Terminal /\ b \in Reasons
    BY <1>4, <2>1 DEF Actionable, Terminal, Reasons
  <2>5. a \in Terminal => LiveIn(s) = {}
    BY <2>1 DEF Actionable, Terminal, live
  <2>6. a = "COMPLETED" => Filled(s) = Target
    BY <2>1 DEF filled
  <2>7. "reject" \notin Env => b \notin {"INVARIANT_BROKEN", "OVERFILL"}
    BY <1>8, <2>1
  <2>8. Even(p, s)
    BY <1>6, <1>11
  <2> QED BY <1>1, <1>4, <1>5, <2>3, <2>4, <2>5, <2>6, <2>7, <2>8 DEF Verdict, filled
<1> QED BY <1>10, <1>11

LEMMA BooksAccount == ASSUME NEW w, Workers = {w}, Books(w), Account(w) PROVE Books(w)'
<1> DEFINE p == proc[w]
           new == reconcileParent(par, slices, p.now)
<1>1. p.pc = "account" /\ UNCHANGED <<lease, slices, child, clock, crashes>>
  BY DEF Account, At
<1>2. /\ Call(p, par) /\ p.pc \notin Over \cup Starting \cup Views \cup {"send"} /\ Apart1
      /\ par.status \in Actionable /\ (Even(par, slices) \/ Uneven(par, slices)) /\ Rows(slices) /\ Parent(par, slices)
  BY <1>1 DEF Books, Over, Starting, Views, Apart1, Call, Stage
<1>3. /\ Verdict(par, slices, p.now, new) /\ new.uns = par.uns /\ new.filled = Filled(slices)
      /\ new \in [status : Actionable \cup Terminal, reason : Reasons, uns : Unplanned .. Target, filled : 0 .. Target]
  BY <1>2, Reconciled
<1>4. \/ new.status = par.status /\ par' = par /\ \E b \in BOOLEAN : Step(w, Leave(w), b, {})
      \/ par' = new /\ \E b \in BOOLEAN : Step(w, Leave(w), b, {})
  BY DEF Account
<1> HIDE DEF new
<1>5. CASE new.status = par.status /\ par' = par /\ \E b \in BOOLEAN : Step(w, Leave(w), b, {})
  <2>1. Even(par, slices)
    BY <1>2, <1>3, <1>5 DEF Verdict, Actionable
  <2> QED BY <1>1, <1>2, <1>5, <2>1, Leaves
<1>6. CASE par' = new /\ \E b \in BOOLEAN : Step(w, Leave(w), b, {})
  <2>1. Parent(new, slices)
    BY <1>3 DEF Parent, Verdict
  <2>2. Even(new, slices) \/ new.status \in Terminal
    BY <1>3, EvenSame DEF Verdict, Terminal
  <2>3. Call(Leave(w), new) /\ Leave(w).pc = "release"
    BY LeaveCall
  <2>4. Stage(Leave(w), new, slices) /\ Leave(w).pc \notin Views
    BY <2>2, <2>3, OverStage DEF Over
  <2>5. Linked(Leave(w), slices, child)
    BY <1>2, <2>4, LinkedSame DEF Books
  <2>6. Frozen(Leave(w), slices)
    <3>1. p.pc \notin {"send", "sent"}
      BY <1>2 DEF Views
    <3> QED BY <3>1, FrozenSame DEF Books
  <2>7. Around' /\ Rows(slices) /\ Children(child)
    BY <1>2, AroundSame DEF Books
  <2> QED BY <1>1, <1>6, <2>1, <2>3, <2>4, <2>5, <2>6, <2>7, Becomes
<1> QED BY <1>4, <1>5, <1>6

LEMMA BooksRelease == ASSUME NEW w, Workers = {w}, Books(w), Release(w) PROVE Books(w)'
<1>1. proc[w].pc = "release" /\ UNCHANGED <<par, slices, child, clock, crashes>> /\ \E b \in BOOLEAN : Step(w, Idle, b, {})
  BY DEF Release, At
<1>2. Around'
  <2>1. lease' \in {lease, [holder |-> NoWorker, expired |-> FALSE]}
    BY DEF Release
  <2>2. Around
    BY DEF Books
  <2>3. [holder |-> NoWorker, expired |-> FALSE] \in [holder : Workers \cup {NoWorker}, expired : BOOLEAN]
    OBVIOUS
  <2>4. lease' \in [holder : Workers \cup {NoWorker}, expired : BOOLEAN]
    BY <2>1, <2>2, <2>3 DEF Around
  <2> QED BY <1>1, <2>2, <2>4 DEF Around
<1>3. Even(par, slices) \/ par.status \in Terminal
  BY <1>1 DEF Books, Stage, Over
<1>4. Call(Idle, par)
  <2>1. 0 \in 0 .. Deadline
    BY TwapAssumption
  <2> QED BY <2>1, IdleNames DEF Call, Over
<1>5. Stage(Idle, par, slices) /\ Idle.pc \notin Views
  BY <1>3, IdleNames, OverStage DEF Over
<1>6. proc[w].pc \notin Views \cup {"send"}
  BY <1>1 DEF Views
<1> QED BY <1>1, <1>2, <1>4, <1>5, <1>6, Moves

-----------------------------------------------------------------------------
(* The slice that is sent *)

LEMMA PendingNone == ASSUME NEW x, NEW c, ChildRow(c), Agrees(x, c), x.status = "PENDING" PROVE c.state = "none" /\ x.filled = 0
<1>1. c.state # "none" => SliceStatus(View(c)) \in SliceStates \ {"PENDING"}
  BY ViewStatus
<1> QED BY <1>1 DEF Agrees

LEMMA SliceTaken ==
  ASSUME NEW s, Rows(s), NEW c, Children(c), NEW p, Linked(p, s, c), p.pc \notin Views, NEW k, k \in DOMAIN s,
         s[k].status = "PENDING", LiveIn(s) = {}, NEW y, SliceRow(y), y.status = "PENDING", y.qty <= s[k].qty,
         NEW t, t = Put(s, k, y)
  PROVE  /\ Rows(t) /\ DOMAIN t = DOMAIN s /\ t[k] = y /\ LiveIn(t) = {}
         /\ \A i \in DOMAIN s : i # k => t[i] = s[i]
         /\ y.qty = s[k].qty => Booked(t) = Booked(s)
         /\ \A r : r.pc \notin Views => Linked(r, t, c)
<1>1. Listed(s) /\ Len(s) \in Nat /\ DOMAIN s = 1 .. Len(s) /\ DOMAIN s \subseteq 1 .. MaxSlices
  BY IndexIn
<1>2. /\ Listed(t) /\ DOMAIN t = DOMAIN s /\ Len(t) = Len(s)
      /\ t[k] = y /\ \A i \in DOMAIN s : i # k => t[i] = s[i]
      /\ Booked(t) = Booked(s) + (Bulk(y) - Bulk(s[k]))
  BY <1>1, RowWritten
<1>3. SliceRow(s[k]) /\ s[k].qty \in 0 .. Target /\ y.qty \in 0 .. Target /\ y.filled = 0
  <2>1. SliceRow(s[k])
    BY DEF Rows
  <2> QED BY <2>1, RowTyped DEF SliceRow
<1>4. Bulk(y) = y.qty /\ Bulk(s[k]) = s[k].qty
  BY DEF Bulk, Unended
<1>5. LiveIn(t) = {}
  BY <1>2 DEF LiveIn
<1>6. Booked(s) \in Nat /\ Booked(s) <= Target /\ Target \in Nat /\ Len(s) <= MaxSlices
  BY <1>1, Accounts, TwapAssumption DEF Rows
<1>7. Booked(t) <= Target /\ (y.qty = s[k].qty => Booked(t) = Booked(s))
  BY <1>2, <1>3, <1>4, <1>6
<1>8. Rows(t)
  <2>1. \A i, j \in LiveIn(t) : i = j
    BY <1>5
  <2> QED BY <1>2, <1>6, <1>7, <2>1 DEF Rows, Listed
<1>9. ASSUME NEW r, r.pc \notin Views PROVE Linked(r, t, c)
  <2> SUFFICES ASSUME NEW i \in 1 .. MaxSlices
               PROVE  (i \notin DOMAIN t => c[i].state = "none") /\ (i \in DOMAIN t => Agrees(t[i], c[i]))
    BY <1>9 DEF Linked, Hung
  <2>1. /\ i \notin DOMAIN s => c[i].state = "none"
        /\ i \in DOMAIN s => Agrees(s[i], c[i])
    BY DEF Linked, Hung
  <2>2. CASE i = k
    <3>1. ChildRow(c[k])
      BY <2>2 DEF Children
    <3>2. c[k].state = "none"
      BY <2>1, <2>2, <3>1, PendingNone
    <3> QED BY <1>2, <1>3, <2>2, <3>2 DEF Agrees
  <2>3. CASE i # k
    BY <1>2, <2>1, <2>3
  <2> QED BY <2>2, <2>3
<1> QED BY <1>2, <1>5, <1>7, <1>8, <1>9

LEMMA PickStage ==
  ASSUME NEW r, NEW q, NEW s, r.pc = "claim", Even(q, s), Submits(r, q, s)
  PROVE  Stage(r, q, s) /\ r.pc \notin Views
  BY DEF Stage, Over, Starting, Levels, Adding, Tells, Sending, Views

LEMMA BooksPick == ASSUME NEW w, Workers = {w}, Books(w), Pick(w) PROVE Books(w)'
<1> DEFINE p == proc[w]
           due == {i \in DOMAIN slices : slices[i].status = "PENDING" /\ slices[i].at <= p.now}
           k == Min(due)
           least == IF "depth" \in Env THEN MinSlice ELSE slices[k].qty
<1>1. p.pc = "submit" /\ UNCHANGED <<par, lease, slices, child, clock, crashes>>
  BY DEF Pick, At
<1>2. /\ Call(p, par) /\ Even(par, slices) /\ p.pc \notin Over \cup Starting \cup Views \cup {"send"} /\ Apart1
      /\ Rows(slices) /\ Frozen(p, slices)
  BY <1>1 DEF Books, Stage, Levels, Over, Starting, Views, Apart1
<1>3. CASE Step(w, Goto(w, "account"), FALSE, {})
  <2> DEFINE r == Goto(w, "account")
  <2>1. Onward(p, r) /\ r.pc = "account"
    BY <1>2 DEF Call, Names, Onward, Goto
  <2> HIDE DEF r
  <2>2. Stage(r, par, slices) /\ r.pc \notin Views
    BY <1>2, <2>1, AccountStage
  <2> QED BY <1>1, <1>2, <1>3, <2>1, <2>2, GoesOn DEF r
<1>4. CASE Step(w, [p EXCEPT !.pc = "pause", !.why = "OTHER", !.after = "account"], FALSE, {})
  <2> DEFINE r == [p EXCEPT !.pc = "pause", !.why = "OTHER", !.after = "account"]
  <2>1. Onward(p, r) /\ r.pc = "pause" /\ r.why = "OTHER" /\ r.after = "account"
    BY <1>2 DEF Call, Names, Onward
  <2> HIDE DEF r
  <2>2. Stage(r, par, slices) /\ r.pc \notin Views
    BY <1>2, <2>1, PauseStage DEF Stops
  <2> QED BY <1>1, <1>2, <1>4, <2>1, <2>2, GoesOn DEF r
<1>5. ASSUME LiveIn(slices) = {}, due # {}, NEW q \in IF slices[k].frozen THEN {slices[k].qty} ELSE least .. slices[k].qty,
             Step(w, [p EXCEPT !.pc = "claim", !.k = k, !.sfresh = TRUE, !.q = q], FALSE, {})
      PROVE  Books(w)'
  <2> DEFINE r == [p EXCEPT !.pc = "claim", !.k = k, !.sfresh = TRUE, !.q = q]
  <2>1. Onward(p, r) /\ r.pc = "claim" /\ r.k = k /\ r.sfresh = TRUE /\ r.q = q
    BY <1>2 DEF Call, Names, Onward
  <2>2. k \in due
    <3>1. due \subseteq Nat
      BY <1>2, IndexIn
    <3> HIDE DEF due
    <3> QED BY <1>5, <3>1, LeastOf DEF Min
  <2>3. k \in DOMAIN slices /\ slices[k].status = "PENDING"
    BY <2>2
  <2> HIDE DEF k, r
  <2>4. ~ slices[k].frozen
    BY <1>1, <1>2, <2>3 DEF Frozen
  <2>5. slices[k].qty \in 0 .. Target
    <3>1. SliceRow(slices[k])
      BY <1>2, <2>3 DEF Rows
    <3> QED BY <3>1, RowTyped
  <2>6. q \in 0 .. slices[k].qty
    BY <1>5, <2>4, <2>5, TwapAssumption
  <2>7. par.uns # Unplanned
    BY <1>2, <2>3, ListNone DEF Even
  <2>8. Submits(r, par, slices)
    BY <1>5, <2>1, <2>3, <2>4, <2>6, <2>7 DEF Submits
  <2>9. Stage(r, par, slices) /\ r.pc \notin Views
    BY <1>2, <2>1, <2>8, PickStage
  <2> QED BY <1>1, <1>2, <1>5, <2>1, <2>9, GoesOn DEF r
<1> QED
  <2>1. CASE LiveIn(slices) # {} \/ due = {}
    BY <1>3, <2>1 DEF Pick
  <2>2. CASE LiveIn(slices) = {} /\ due # {}
    <3>1. \/ \E q \in IF slices[k].frozen THEN {slices[k].qty} ELSE least .. slices[k].qty :
                Step(w, [p EXCEPT !.pc = "claim", !.k = k, !.sfresh = TRUE, !.q = q], FALSE, {})
          \/ Step(w, [p EXCEPT !.pc = "pause", !.why = "OTHER", !.after = "account"], FALSE, {})
      BY <2>2 DEF Pick
    <3> QED BY <1>4, <1>5, <2>2, <3>1
  <2> QED BY <2>1, <2>2

(* A slice on its way is written: its claim, or its quantity.              *)
LEMMA TakenStep ==
  ASSUME NEW w, Workers = {w}, Books(w), NEW r, NEW W, Step(w, r, FALSE, W), UNCHANGED <<par, child>>, Apart1,
         proc[w].pc \in {"claim", "freeze"}, NEW y, slices' = Put(slices, proc[w].k, y),
         SliceRow(y), y.status = "PENDING", y.qty <= slices[proc[w].k].qty,
         y.frozen => r.pc = "send",
         Onward(proc[w], r), r.k = proc[w].k, r.pc \notin Views,
         \A t : t[proc[w].k] = y /\ DOMAIN t = DOMAIN slices /\ LiveIn(t) = {} /\ (y.qty = slices[proc[w].k].qty => Even(par, t))
                  => Stage(r, par, t)
  PROVE  Books(w)'
<1> DEFINE p == proc[w]
           k == p.k
           t == slices'
<1>1. /\ Call(p, par) /\ Even(par, slices) /\ p.pc \notin Over \cup Starting \cup Views \cup {"send"}
      /\ Rows(slices) /\ Frozen(p, slices) /\ Submits(p, par, slices) /\ Linked(p, slices, child) /\ Children(child)
      /\ Parent(par, slices)
  BY DEF Books, Stage, Levels, Over, Starting, Views, Sending
<1>2. k \in DOMAIN slices /\ slices[k].status = "PENDING" /\ LiveIn(slices) = {} /\ par.uns # Unplanned
  BY <1>1 DEF Submits
<1> HIDE DEF k
<1>3. t = Put(slices, k, y) /\ y.qty <= slices[k].qty
  BY DEF k
<1> HIDE DEF t, p
<1>4. /\ Rows(t) /\ DOMAIN t = DOMAIN slices /\ t[k] = y /\ LiveIn(t) = {}
      /\ \A i \in DOMAIN slices : i # k => t[i] = slices[i]
      /\ y.qty = slices[k].qty => Booked(t) = Booked(slices)
      /\ \A x : x.pc \notin Views => Linked(x, t, child)
  BY <1>1, <1>2, <1>3, SliceTaken
<1>5. y.qty = slices[k].qty => Even(par, t)
  BY <1>1, <1>2, <1>4 DEF Even
<1>6. Stage(r, par, t) /\ Linked(r, t, child)
  BY <1>4, <1>5 DEF k, p
<1>7. Parent(par, t)
  BY <1>1, <1>4 DEF Parent, Call, Actionable
<1>8. Call(r, par)
  <2>1. p.fresh /\ p.cur = par /\ p.op # "start"
    BY <1>1 DEF Call
  <2> QED BY <1>1, <2>1, CallOn DEF Onward, p
<1>9. Frozen(r, t)
  <2>1. \A i \in DOMAIN slices : ~ (slices[i].status = "PENDING" /\ slices[i].frozen)
    BY <1>1 DEF Frozen, p
  <2>2. r.k = k
    BY DEF k, p
  <2> QED BY <1>4, <2>1, <2>2 DEF Frozen
<1>10. Around'
  BY AroundSame DEF Books
<1> QED BY <1>1, <1>4, <1>6, <1>7, <1>8, <1>9, <1>10, Becomes DEF t

LEMMA TakenStage ==
  ASSUME NEW r, NEW q, NEW s, Submits(r, q, s), r.pc = "send" \/ (r.pc = "freeze" /\ Even(q, s))
  PROVE  Stage(r, q, s) /\ r.pc \notin Views
  BY DEF Stage, Over, Starting, Levels, Adding, Tells, Sending, Views

LEMMA BooksClaim == ASSUME NEW w, Workers = {w}, Books(w), Claim(w) PROVE Books(w)'
<1> DEFINE p == proc[w]
           k == p.k
           r == Goto(w, "freeze")
           x == slices[k]
           y == [x EXCEPT !.by = Owner[w]]
<1>1. p.pc = "claim" /\ UNCHANGED <<par, lease, child, clock, crashes>>
  BY DEF Claim, At
<1>2. Call(p, par) /\ Rows(slices) /\ Submits(p, par, slices)
  BY <1>1 DEF Books, Stage, Sending
<1>3. k \in DOMAIN slices /\ x.status = "PENDING" /\ p.sfresh /\ ~ x.frozen /\ p.q \in 0 .. x.qty /\ par.uns # Unplanned /\ SliceRow(x)
  BY <1>1, <1>2 DEF Submits, Rows
<1>4. slices' = [slices EXCEPT ![k].by = Owner[w]] /\ Step(w, r, FALSE, {k})
  <2>1. x.by \in {NoWorker, Owner[w]}
    BY <1>3 DEF SliceRow
  <2> QED BY <1>3, <2>1 DEF Claim
<1>5. slices' = Put(slices, k, y)
  BY <1>4 DEF Put
<1>6. Onward(p, r) /\ r.pc = "freeze" /\ r.k = k /\ r.sfresh = p.sfresh /\ r.q = p.q
  BY <1>2 DEF Call, Names, Onward, Goto
<1>7. y = [qty |-> x.qty, filled |-> x.filled, at |-> x.at, status |-> x.status, frozen |-> x.frozen, by |-> Owner[w]]
  <2>1. x = [qty |-> x.qty, filled |-> x.filled, at |-> x.at, status |-> x.status, frozen |-> x.frozen, by |-> x.by]
    BY <1>3 DEF SliceRow
  <2>2. y = [x EXCEPT !.by = Owner[w]]
    OBVIOUS
  <2> HIDE DEF x, y
  <2> QED BY <2>1, <2>2
<1> HIDE DEF x, y, r, k
<1>8. SliceRow(y) /\ y.status = "PENDING" /\ y.qty = x.qty /\ ~ y.frozen
  BY <1>3, <1>7 DEF SliceRow
<1>9. ASSUME NEW t, t[k] = y, DOMAIN t = DOMAIN slices, LiveIn(t) = {}, Even(par, t)
      PROVE  Stage(r, par, t)
  <2>1. Submits(r, par, t)
    BY <1>3, <1>6, <1>8, <1>9 DEF Submits
  <2> QED BY <1>6, <1>9, <2>1, TakenStage
<1>10. y.qty <= x.qty
  BY <1>3, <1>8, RowTyped
<1> QED
  <2>1. p.pc \in {"claim", "freeze"} /\ r.pc \notin Views /\ Apart1
    BY <1>1, <1>6 DEF Views, Apart1
  <2> QED BY <1>1, <1>4, <1>5, <1>6, <1>8, <1>9, <1>10, <2>1, TakenStep DEF k, x

LEMMA BooksFreeze == ASSUME NEW w, Workers = {w}, Books(w), Freeze(w) PROVE Books(w)'
<1> DEFINE p == proc[w]
           k == p.k
           r == Goto(w, "send")
           x == slices[k]
           y == [x EXCEPT !.qty = p.q, !.frozen = TRUE]
<1>1. p.pc = "freeze" /\ UNCHANGED <<par, lease, child, clock, crashes>>
  BY DEF Freeze, At
<1>2. Call(p, par) /\ Rows(slices) /\ Submits(p, par, slices)
  BY <1>1 DEF Books, Stage, Sending
<1>3. k \in DOMAIN slices /\ x.status = "PENDING" /\ p.sfresh /\ ~ x.frozen /\ p.q \in 0 .. x.qty /\ par.uns # Unplanned /\ SliceRow(x)
  BY <1>1, <1>2 DEF Submits, Rows
<1>4. slices' = [slices EXCEPT ![k].qty = p.q, ![k].frozen = TRUE] /\ Step(w, r, FALSE, {k})
  BY <1>3 DEF Freeze
<1>5. slices' = Put(slices, k, y)
  BY <1>3, <1>4 DEF Put
<1>6. Onward(p, r) /\ r.pc = "send" /\ r.k = k /\ r.sfresh = p.sfresh /\ r.q = p.q
  BY <1>2 DEF Call, Names, Onward, Goto
<1> DEFINE q == p.q
<1>7. y = [qty |-> q, filled |-> x.filled, at |-> x.at, status |-> x.status, frozen |-> TRUE, by |-> x.by]
  <2>1. x = [qty |-> x.qty, filled |-> x.filled, at |-> x.at, status |-> x.status, frozen |-> x.frozen, by |-> x.by]
    BY <1>3 DEF SliceRow
  <2>2. y = [x EXCEPT !.qty = q, !.frozen = TRUE]
    OBVIOUS
  <2> HIDE DEF x, y, q
  <2> QED BY <2>1, <2>2
<1>a. q \in 0 .. x.qty /\ r.q = q
  BY <1>3, <1>6
<1> HIDE DEF x, y, r, k, q
<1>b. x.qty \in 0 .. Target /\ x.filled = 0 /\ Target \in Nat
  BY <1>3, RowTyped, TwapAssumption DEF SliceRow
<1>8. SliceRow(y) /\ y.status = "PENDING" /\ y.qty = q /\ y.frozen
  <2>1. q \in 0 .. Target /\ 0 <= q
    BY <1>a, <1>b
  <2> QED BY <1>3, <1>7, <1>b, <2>1 DEF SliceRow
<1>9. ASSUME NEW t, t[k] = y, DOMAIN t = DOMAIN slices, LiveIn(t) = {}
      PROVE  Stage(r, par, t)
  <2>1. Submits(r, par, t)
    BY <1>3, <1>6, <1>8, <1>9, <1>a DEF Submits
  <2> QED BY <1>6, <2>1, TakenStage
<1>10. y.qty <= x.qty
  BY <1>8, <1>a, <1>b
<1> QED
  <2>1. p.pc \in {"claim", "freeze"} /\ r.pc \notin Views /\ Apart1
    BY <1>1, <1>6 DEF Views, Apart1
  <2> QED BY <1>1, <1>4, <1>5, <1>6, <1>8, <1>9, <1>10, <2>1, TakenStep DEF k, x

(* The child answers: its row, and the slice that waits for the answer.    *)
LEMMA HeardStep ==
  ASSUME NEW w, Workers = {w}, Books(w), NEW r, NEW W, Step(w, r, FALSE, W), UNCHANGED <<par, slices>>, Apart1,
         proc[w].pc \notin Over \cup Starting \cup Views, Onward(proc[w], r), NEW k, k \in DOMAIN slices, r.k = k, r.pc \in Views,
         NEW c, ChildRow(c), child' = Put(child, k, c), Awaits(r, slices[k], c),
         Stage(r, par, slices), Frozen(r, slices)
  PROVE  Books(w)'
<1> DEFINE p == proc[w]
           d == child'
<1>1. Call(p, par) /\ Rows(slices) /\ Linked(p, slices, child) /\ Children(child) /\ Parent(par, slices) /\ Around'
  BY AroundSame DEF Books
<1>2. Call(r, par)
  <2>1. p.fresh /\ p.cur = par /\ p.op # "start" /\ p.pc \notin Over
    BY <1>1 DEF Call
  <2> QED BY <1>1, <2>1, CallOn DEF Onward
<1>3. k \in 1 .. MaxSlices
  BY <1>1, IndexIn
<1>4. DOMAIN child = 1 .. MaxSlices
  BY <1>1 DEF Children
<1>5. d = [i \in 1 .. MaxSlices |-> IF i = k THEN c ELSE child[i]]
  BY <1>4 DEF Put
<1> HIDE DEF d
<1>6. d = [i \in 1 .. MaxSlices |-> d[i]] /\ d[k] = c /\ \A i \in 1 .. MaxSlices : i # k => d[i] = child[i]
  BY <1>3, <1>5
<1>7. Children(d)
  BY <1>1, <1>6 DEF Children
<1>8. Linked(r, slices, d)
  <2> SUFFICES ASSUME NEW i \in 1 .. MaxSlices
               PROVE  /\ i \notin DOMAIN slices => d[i].state = "none"
                      /\ i \in DOMAIN slices => IF Hung(r, i) THEN Awaits(r, slices[i], d[i]) ELSE Agrees(slices[i], d[i])
    BY DEF Linked
  <2>1. CASE i = k
    BY <1>6, <2>1 DEF Hung
  <2>2. CASE i # k
    <3>1. ~ Hung(p, i) /\ ~ Hung(r, i)
      BY <2>2 DEF Hung
    <3>2. /\ i \notin DOMAIN slices => child[i].state = "none"
          /\ i \in DOMAIN slices => Agrees(slices[i], child[i])
      BY <1>1, <3>1 DEF Linked
    <3> QED BY <1>6, <2>2, <3>1, <3>2
  <2> QED BY <2>1, <2>2
<1> QED BY <1>1, <1>2, <1>7, <1>8, Becomes DEF d

LEMMA SentStage ==
  ASSUME NEW r, NEW q, NEW s, Submits(r, q, s), r.pc = "sent"
  PROVE  Stage(r, q, s)
  BY DEF Stage, Over, Starting, Levels, Adding, Tells, Sending, Views, Submits

LEMMA BooksSend == ASSUME NEW w, Workers = {w}, "throw" \notin Env, Books(w), Send(w) PROVE Books(w)'
<1> DEFINE p == proc[w]
           k == p.k
           x == slices[k]
<1>1. p.pc = "send" /\ UNCHANGED <<par, lease, slices, clock, crashes>>
  BY DEF Send, At
<1>2. Call(p, par) /\ Rows(slices) /\ Submits(p, par, slices) /\ Children(child) /\ Linked(p, slices, child) /\ Frozen(p, slices) /\ Around
  BY <1>1 DEF Books, Stage, Sending
<1>3. k \in DOMAIN slices /\ x.status = "PENDING" /\ p.sfresh /\ x.frozen /\ p.q = x.qty /\ par.uns # Unplanned /\ SliceRow(x)
      /\ LiveIn(slices) = {}
  BY <1>1, <1>2 DEF Submits, Rows
<1>4. k \in 1 .. MaxSlices /\ ChildRow(child[k]) /\ Agrees(x, child[k])
  <2>1. k \in 1 .. MaxSlices
    BY <1>2, <1>3, IndexIn
  <2> QED BY <1>1, <1>2, <1>3, <2>1 DEF Children, Linked, Hung, Views
<1>5. child[k].state = "none" /\ x.filled = 0
  BY <1>3, <1>4, PendingNone
<1>6. PICK c \in {Placed(w)} \cup (IF "reject" \in Env THEN {Rejected(w)} ELSE {}) :
        /\ child' = [child EXCEPT ![k] = c]
        /\ Step(w, [p EXCEPT !.pc = "sent", !.k = k, !.view = View(c)], FALSE, {})
  BY <1>5 DEF Send, Answer
<1> DEFINE r == [p EXCEPT !.pc = "sent", !.k = k, !.view = View(c)]
<1>7. Onward(p, r) /\ r.pc = "sent" /\ r.k = k /\ r.sfresh = p.sfresh /\ r.q = p.q /\ r.view = View(c)
  BY <1>2 DEF Call, Names, Onward
<1>8. /\ c.state \in {"open", "REJECTED"} /\ (c.state = "REJECTED" => "reject" \in Env)
      /\ c = [state |-> c.state, qty |-> p.q, traded |-> 0, filled |-> 0, since |-> clock]
  <2>1. CASE c = Placed(w)
    BY <2>1 DEF Placed
  <2>2. CASE c = Rejected(w) /\ "reject" \in Env
    BY <2>2 DEF Placed, Rejected
  <2> QED BY <1>6, <2>1, <2>2
<1>9. child' = Put(child, k, c) /\ Step(w, r, FALSE, {})
  BY <1>6 DEF Put
<1>10. Frozen(r, slices)
  BY <1>1, <1>2, <1>7 DEF Frozen
<1> HIDE DEF r, x, k
<1>11. p.q \in 0 .. Target /\ 0 \in 0 .. Target /\ clock \in 0 .. Deadline /\ Target \in Nat
  BY <1>2, <1>3, RowTyped, TwapAssumption DEF Around
<1>12. ChildRow(c)
  BY <1>8, <1>11 DEF ChildRow, ChildEnds
<1>13. Awaits(r, x, c)
  BY <1>3, <1>5, <1>7, <1>8, <1>11 DEF Awaits
<1>14. View(c).state = c.state
  BY DEF View
<1>15. Submits(r, par, slices)
  BY <1>3, <1>7, <1>8, <1>14 DEF Submits, x
<1>16. Stage(r, par, slices)
  BY <1>7, <1>15, SentStage
<1>17. p.pc \notin Over \cup Starting \cup Views /\ r.pc \in Views /\ Apart1
  BY <1>1, <1>7 DEF Over, Starting, Views, Apart1
<1> QED BY <1>1, <1>3, <1>7, <1>9, <1>10, <1>12, <1>13, <1>16, <1>17, HeardStep DEF x

-----------------------------------------------------------------------------
(* The children are asked. *)

LEMMA Told1 ==
  ASSUME NEW c, ChildRow(c), c.state = "open", NEW d, d \in {c, Ended(c), Read(c)}
  PROVE  ChildRow(d) /\ d.state # "none" /\ d.qty = c.qty /\ c.filled <= d.filled
<1>1. c = [state |-> c.state, qty |-> c.qty, traded |-> c.traded, filled |-> c.filled, since |-> c.since] /\ c.since \in 0 .. Deadline
  BY DEF ChildRow
<1>2. c.qty \in 0 .. Target /\ c.traded \in 0 .. Target /\ c.filled \in 0 .. Target /\ c.filled <= c.traded /\ c.traded <= c.qty /\ Target \in Nat
  BY ChildTyped
<1>3. CASE d = c
  BY <1>2, <1>3
<1> DEFINE end == IF c.traded = c.qty THEN "DONE" ELSE "FAILED"
<1>4. CASE d = Ended(c)
  <2>1. d = [c EXCEPT !.filled = c.traded, !.state = end]
    BY <1>4 DEF Ended
  <2>2. end \in ChildEnds /\ (end = "DONE" => c.traded = c.qty) /\ end # "none" /\ end # "open"
    BY DEF ChildEnds
  <2> HIDE DEF end
  <2>3. d = [state |-> end, qty |-> c.qty, traded |-> c.traded, filled |-> c.traded, since |-> c.since]
    BY <1>1, <2>1
  <2> QED BY <1>1, <1>2, <2>2, <2>3 DEF ChildRow
<1>5. CASE d = [c EXCEPT !.filled = c.traded]
  <2>1. d = [state |-> "open", qty |-> c.qty, traded |-> c.traded, filled |-> c.traded, since |-> c.since]
    BY <1>1, <1>5
  <2> QED BY <1>1, <1>2, <2>1 DEF ChildRow, ChildEnds
<1> QED BY <1>3, <1>4, <1>5 DEF Read

LEMMA LiveOpen ==
  ASSUME NEW x, NEW c, ChildRow(c), Agrees(x, c), x.status \in {"SUBMITTED", "PARTIAL"}
  PROVE  c.state = "open" /\ x.frozen /\ x.qty = c.qty /\ x.filled = c.filled
<1>1. c.state # "none" /\ x.frozen /\ x.qty = c.qty /\ x.filled = c.filled /\ x.status = SliceStatus(View(c))
  BY DEF Agrees
<1> QED BY <1>1, ViewStatus DEF ChildEnds

LEMMA HeardStage ==
  ASSUME NEW r, NEW q, NEW s, r.pc \in {"polled", "ended", "cancelled"}, Even(q, s), r.k \in DOMAIN s,
         r.pc # "ended" => Listing(r, s)
  PROVE  Stage(r, q, s)
  BY DEF Stage, Over, Starting, Levels, Adding, Tells, Sending, Views

LEMMA BooksHeard ==
  ASSUME NEW w, Workers = {w}, Books(w), proc[w].pc \in {"polling", "cancelling"}, NEW k, k \in LiveIn(slices),
         NEW pc \in {"polled", "ended", "cancelled"}, pc = "cancelled" => proc[w].pc = "cancelling" /\ proc[w].list # {},
         NEW K, K = PollOutcomes(child[k]) \/ K = CancelOutcomes(child[k]), Answer(w, k, K, pc),
         UNCHANGED <<par, lease, slices, clock, crashes>>
  PROVE  Books(w)'
<1> DEFINE p == proc[w]
           x == slices[k]
           c == child[k]
<1>1. Call(p, par) /\ Rows(slices) /\ Children(child) /\ Linked(p, slices, child) /\ Frozen(p, slices) /\ Listing(p, slices) /\ Even(par, slices)
  BY DEF Books, Stage
<1>2. k \in DOMAIN slices /\ k \in 1 .. MaxSlices /\ x.status \in {"SUBMITTED", "PARTIAL"}
  BY <1>1, IndexIn DEF LiveIn
<1>3. SliceRow(x) /\ ChildRow(c) /\ Agrees(x, c)
  BY <1>1, <1>2 DEF Rows, Children, Linked, Hung, Views
<1>4. c.state = "open" /\ x.frozen /\ x.qty = c.qty /\ x.filled = c.filled
  BY <1>2, <1>3, LiveOpen
<1>5. PICK d \in K : child' = [child EXCEPT ![k] = d] /\ Step(w, [p EXCEPT !.pc = pc, !.k = k, !.view = View(d)], FALSE, {})
  BY DEF Answer
<1>6. d \in {c, Ended(c), Read(c)}
  <2>1. CASE K = PollOutcomes(c)
    BY <1>4, <1>5, <2>1 DEF PollOutcomes
  <2>2. CASE K = CancelOutcomes(c)
    BY <1>4, <1>5, <2>2 DEF CancelOutcomes
  <2> QED BY <2>1, <2>2
<1>7. child' = Put(child, k, d)
  BY <1>5 DEF Put
<1> DEFINE r == [p EXCEPT !.pc = pc, !.k = k, !.view = View(d)]
<1>8. Onward(p, r) /\ r.pc = pc /\ r.k = k /\ r.view = View(d) /\ r.list = p.list /\ r.want = p.want /\ r.ok = p.ok
  BY <1>1 DEF Call, Names, Onward
<1>9. Step(w, r, FALSE, {})
  BY <1>5
<1> HIDE DEF r, x, c
<1>10. ChildRow(d) /\ d.state # "none" /\ d.qty = c.qty /\ c.filled <= d.filled
  BY <1>3, <1>4, <1>6, Told1
<1>11. Awaits(r, x, d)
  BY <1>2, <1>4, <1>8, <1>10 DEF Awaits
<1>12. Listing(r, slices)
  BY <1>1, <1>8 DEF Listing
<1>13. Stage(r, par, slices)
  BY <1>1, <1>2, <1>8, <1>12, HeardStage
<1>14. Frozen(r, slices)
  <2>1. p.pc \notin {"send", "sent"}
    OBVIOUS
  <2> QED BY <1>1, <2>1, FrozenSame
<1>15. p.pc \notin Over \cup Starting \cup Views /\ r.pc \in Views /\ Apart1
  BY <1>8 DEF Over, Starting, Views, Apart1
<1> QED BY <1>2, <1>7, <1>8, <1>9, <1>10, <1>11, <1>13, <1>14, <1>15, HeardStep DEF x

LEMMA LeastIn == ASSUME NEW s, Rows(s), NEW K, K \subseteq LiveIn(s), K # {} PROVE Min(K) \in K /\ K = {Min(K)} /\ LiveIn(s) # {}
<1>1. K \subseteq Nat
  BY IndexIn
<1>2. Min(K) \in K
  BY <1>1, LeastOf DEF Min
<1>3. \A i, j \in LiveIn(s) : i = j
  BY DEF Rows
<1> QED BY <1>2, <1>3

LEMMA BooksCancelChild == ASSUME NEW w, Workers = {w}, Books(w), CancelChild(w) PROVE Books(w)'
<1> DEFINE p == proc[w]
           k == Min(p.list)
           r == [p EXCEPT !.list = @ \ {k}, !.ok = FALSE]
<1>1. p.pc = "cancelling" /\ p.list # {} /\ UNCHANGED <<par, lease, slices, clock, crashes>>
  BY DEF CancelChild, At
<1>2. /\ Call(p, par) /\ Rows(slices) /\ Listing(p, slices) /\ (Even(par, slices) \/ LiveIn(slices) = {})
      /\ p.pc \notin Over \cup Starting \cup Views \cup {"send"} /\ Apart1
  BY <1>1 DEF Books, Stage, Over, Starting, Views, Apart1
<1>3. k \in p.list /\ p.list = {k} /\ LiveIn(slices) # {} /\ k \in LiveIn(slices) /\ Even(par, slices)
  <2>1. p.list \subseteq LiveIn(slices)
    BY <1>2 DEF Listing
  <2> QED BY <1>1, <1>2, <2>1, LeastIn
<1>4. CASE Answer(w, k, CancelOutcomes(child[k]), "cancelled")
  <2> HIDE DEF k
  <2> QED BY <1>1, <1>3, <1>4, BooksHeard
<1>5. CASE Step(w, r, FALSE, {}) /\ UNCHANGED child
  <2>1. Onward(p, r) /\ r.pc = "cancelling" /\ r.list = p.list \ {k} /\ r.want = p.want /\ r.ok = FALSE
    BY <1>1, <1>2 DEF Call, Names, Onward
  <2> HIDE DEF r, k
  <2>2. r.list = {}
    BY <1>3, <2>1
  <2>3. Listing(r, slices)
    BY <1>1, <1>2, <2>1, <2>2 DEF Listing
  <2>4. Stage(r, par, slices) /\ r.pc \notin Views
    BY <1>3, <2>1, <2>3, CancellingStage
  <2> QED BY <1>1, <1>2, <1>5, <2>1, <2>4, GoesOn
<1> QED BY <1>4, <1>5 DEF CancelChild

LEMMA BooksPollChild == ASSUME NEW w, Workers = {w}, Books(w), PollChild(w) PROVE Books(w)'
<1> DEFINE p == proc[w]
           k == Min(p.list)
<1>1. p.pc = "polling" /\ p.list # {} /\ UNCHANGED <<par, lease, slices, clock, crashes>>
  BY DEF PollChild, At
<1>2. /\ Rows(slices) /\ Listing(p, slices) /\ (Even(par, slices) \/ LiveIn(slices) = {})
      /\ p.pc \notin Views \cup {"send"} /\ Apart1
  BY <1>1 DEF Books, Stage, Views, Apart1
<1>3. k \in LiveIn(slices) /\ Even(par, slices)
  <2>1. p.list \subseteq LiveIn(slices)
    BY <1>2 DEF Listing
  <2> QED BY <1>1, <1>2, <2>1, LeastIn
<1>4. CASE Answer(w, k, PollOutcomes(child[k]), "polled")
  <2> HIDE DEF k
  <2> QED BY <1>1, <1>3, <1>4, BooksHeard
<1>5. CASE Step(w, Leave(w), FALSE, {}) /\ UNCHANGED child
  BY <1>1, <1>2, <1>3, <1>5, Leaves
<1> QED BY <1>4, <1>5 DEF PollChild

LEMMA BooksBoundary == ASSUME NEW w, Workers = {w}, Books(w), Boundary(w) PROVE Books(w)'
<1> DEFINE p == proc[w]
           live == LiveIn(slices)
           k == Min(live)
           r == [Goto(w, "replan") EXCEPT !.after = "submit"]
           h == [Goto(w, "pause") EXCEPT !.why = "CANCEL_UNCONFIRMED", !.after = "release"]
<1>1. p.pc = "polling" /\ UNCHANGED <<par, lease, slices, clock, crashes>>
  BY DEF Boundary, At
<1>2. /\ Call(p, par) /\ Rows(slices) /\ (Even(par, slices) \/ live = {})
      /\ p.pc \notin Over \cup Starting \cup Views \cup {"send"} /\ Apart1
  BY <1>1 DEF Books, Stage, Over, Starting, Views, Apart1
<1>3. Onward(p, r) /\ r.pc = "replan" /\ r.after = "submit"
  BY <1>2 DEF Call, Names, Onward, Goto
<1>4. Onward(p, h) /\ h.pc = "pause" /\ h.why = "CANCEL_UNCONFIRMED" /\ h.after = "release"
  BY <1>2 DEF Call, Names, Onward, Goto
<1>5. \/ Step(w, r, FALSE, {}) /\ UNCHANGED child
      \/ live # {} /\ Answer(w, k, CancelOutcomes(child[k]), "ended")
      \/ live # {} /\ Step(w, h, FALSE, {}) /\ UNCHANGED child
  BY DEF Boundary
<1> HIDE DEF r, h
<1>6. CASE Step(w, r, FALSE, {}) /\ UNCHANGED child
  <2>1. Stage(r, par, slices) /\ r.pc \notin Views
    BY <1>3, ReplanStage
  <2> QED BY <1>1, <1>2, <1>3, <1>6, <2>1, GoesOn
<1>7. CASE live # {} /\ Answer(w, k, CancelOutcomes(child[k]), "ended")
  <2>1. k \in live
    BY <1>2, <1>7, LeastIn
  <2> HIDE DEF k
  <2> QED BY <1>1, <1>7, <2>1, BooksHeard
<1>8. CASE live # {} /\ Step(w, h, FALSE, {}) /\ UNCHANGED child
  <2>1. Stage(h, par, slices) /\ h.pc \notin Views
    BY <1>2, <1>4, <1>8, PauseStage DEF Stops
  <2> QED BY <1>1, <1>2, <1>4, <1>8, <2>1, GoesOn
<1> QED BY <1>5, <1>6, <1>7, <1>8

-----------------------------------------------------------------------------
(* The answers are written. *)

(* t is s with what the call p was told of its slice.                      *)
After(p, s, t) ==
  /\ DOMAIN t = DOMAIN s /\ p.k \in DOMAIN s /\ p.view.state \in {"open"} \cup ChildEnds
  /\ p.view.state = "open" => LiveIn(t) = {p.k} /\ Booked(t) = Booked(s)
  /\ p.view.state # "open" => LiveIn(t) = {}

LEMMA ToldStep ==
  ASSUME NEW w, Workers = {w}, Books(w), proc[w].pc \in Views, NEW W, NEW R, Step(w, R, FALSE, W),
         slices' = [slices EXCEPT ![proc[w].k].status = SliceStatus(proc[w].view), ![proc[w].k].filled = proc[w].view.filled],
         UNCHANGED <<par, child>>, Apart1,
         DOMAIN R = Names, R.op = proc[w].op, R.now = proc[w].now, R.cur = par, R.fresh, R.pc \notin Views,
         \A t : After(proc[w], slices, t) => Stage(R, par, t)
  PROVE  Books(w)'
<1> DEFINE p == proc[w]
           k == p.k
           t == slices'
<1>1. /\ Call(p, par) /\ Rows(slices) /\ Linked(p, slices, child) /\ Children(child) /\ Parent(par, slices)
      /\ Frozen(p, slices) /\ Stage(p, par, slices) /\ Around'
  BY AroundSame DEF Books
<1>2. k \in DOMAIN slices /\ (p.pc = "sent" => LiveIn(slices) = {}) /\ p.pc \notin Over \cup Starting
  BY <1>1 DEF Stage, Views, Submits, Sending, Over, Starting
<1>3. t = Put(slices, k, Told(slices[k], p.view))
  BY <1>2 DEF Put, Told
<1> HIDE DEF t, k, p
<1>4. /\ Rows(t) /\ DOMAIN t = DOMAIN slices /\ t[k].status # "PENDING"
      /\ \A i \in DOMAIN slices : i # k => t[i] = slices[i]
      /\ \A r : r.pc \notin Views => Linked(r, t, child)
      /\ p.view.state \in {"open"} \cup ChildEnds
      /\ p.view.state = "open" => LiveIn(t) = {k} /\ Booked(t) = Booked(slices)
      /\ p.view.state # "open" => LiveIn(t) = {}
  <2>1. Heard(p, slices, child, t)
    BY <1>1, <1>2, <1>3, ViewWritten DEF k, p
  <2> QED BY <2>1 DEF Heard, k
<1>5. After(p, slices, t)
  BY <1>2, <1>4 DEF After, k
<1>6. Stage(R, par, t) /\ Linked(R, t, child)
  BY <1>4, <1>5 DEF p
<1>7. Call(R, par) /\ par.status \in Actionable
  <2>1. p.op # "start" /\ p.pc \notin Over /\ par.status \in Actionable
    BY <1>1, <1>2 DEF Call
  <2> QED BY <1>1, <2>1, CallOn DEF p
<1>8. Parent(par, t)
  <2>1. par.status \notin Terminal /\ par.status # "COMPLETED"
    BY <1>7 DEF Actionable, Terminal
  <2> QED BY <1>1, <2>1 DEF Parent
<1>9. Frozen(R, t)
  BY <1>1, <1>4 DEF Frozen, k
<1> QED BY <1>1, <1>4, <1>6, <1>7, <1>8, <1>9, Becomes DEF t

(* While the answer is not written, its slice is the live one.             *)
LEMMA WaitingLive ==
  ASSUME NEW p, NEW q, NEW s, NEW c, Rows(s), Linked(p, s, c), Stage(p, q, s), p.pc \in {"polled", "ended", "cancelled"}
  PROVE  /\ LiveIn(s) = {p.k} /\ q.uns # Unplanned /\ Even(q, s)
         /\ \A t : After(p, s, t) /\ p.view.state = "open" => Even(q, t)
<1>1. p.k \in DOMAIN s /\ Even(q, s) /\ p.pc \in Views /\ p.pc # "sent"
  BY DEF Stage, Levels, Views
<1>2. Awaits(p, s[p.k], c[p.k])
  <2>1. p.k \in 1 .. MaxSlices
    BY <1>1, IndexIn
  <2> QED BY <1>1, <2>1 DEF Linked, Hung
<1>3. p.k \in LiveIn(s)
  BY <1>1, <1>2 DEF Awaits, LiveIn
<1>4. LiveIn(s) = {p.k}
  BY <1>3 DEF Rows
<1>5. q.uns # Unplanned
  BY <1>1, ListNone DEF Even
<1> QED BY <1>1, <1>4, <1>5 DEF Even, After

LEMMA BooksChildPolled == ASSUME NEW w, Workers = {w}, Books(w), ChildPolled(w) PROVE Books(w)'
<1> DEFINE p == proc[w]
           r == [p EXCEPT !.pc = IF par.status \in Terminal THEN "release" ELSE "polling", !.list = @ \ {p.k}]
           R == [Reloaded(r) EXCEPT !.k = 0, !.view = Idle.view]
<1>1. p.pc = "polled" /\ UNCHANGED <<par, lease, child, clock, crashes>> /\ applyView(w, r)
  BY DEF ChildPolled, At
<1>2. Call(p, par) /\ Rows(slices) /\ Linked(p, slices, child) /\ Stage(p, par, slices)
  BY DEF Books
<1>3. par.status \notin Terminal
  BY <1>1, <1>2 DEF Call, Over, Starting, Actionable, Terminal
<1>4. Step(w, R, FALSE, {p.k}) /\ slices' = [slices EXCEPT ![p.k].status = SliceStatus(p.view), ![p.k].filled = p.view.filled]
  BY <1>1 DEF applyView
<1>5. DOMAIN R = Names /\ R.op = p.op /\ R.now = p.now /\ R.cur = par /\ R.fresh = TRUE /\ R.pc = "polling" /\ R.list = p.list \ {p.k}
  BY <1>2, <1>3 DEF Call, Names, Reloaded
<1> HIDE DEF R, r
<1>6. /\ LiveIn(slices) = {p.k} /\ par.uns # Unplanned /\ Even(par, slices)
      /\ \A t : After(p, slices, t) /\ p.view.state = "open" => Even(par, t)
  BY <1>1, <1>2, WaitingLive
<1>7. ASSUME NEW t, After(p, slices, t) PROVE Stage(R, par, t)
  <2>1. p.list \subseteq LiveIn(slices)
    BY <1>1, <1>2 DEF Stage, Listing
  <2>2. R.list = {}
    BY <1>5, <1>6, <2>1
  <2>3. Listing(R, t)
    BY <1>5, <2>2 DEF Listing
  <2>4. Even(par, t) \/ LiveIn(t) = {}
    BY <1>6, <1>7 DEF After
  <2> QED BY <1>5, <2>3, <2>4, PollingStage
<1>8. p.pc \in Views /\ R.pc \notin Views /\ Apart1
  BY <1>1, <1>5 DEF Views, Apart1
<1> QED BY <1>1, <1>4, <1>5, <1>7, <1>8, ToldStep

LEMMA BooksSliceEnded == ASSUME NEW w, Workers = {w}, Books(w), SliceEnded(w) PROVE Books(w)'
<1> DEFINE p == proc[w]
           r == IF p.view.state \in ChildEnds
                THEN [p EXCEPT !.pc = "replan", !.after = "submit"]
                ELSE [p EXCEPT !.pc = "pause", !.why = "CANCEL_UNCONFIRMED", !.after = "release"]
           R == [Reloaded(r) EXCEPT !.k = 0, !.view = Idle.view]
<1>1. p.pc = "ended" /\ UNCHANGED <<par, lease, child, clock, crashes>> /\ applyView(w, r)
  BY DEF SliceEnded, At
<1>2. Call(p, par) /\ Rows(slices) /\ Linked(p, slices, child) /\ Stage(p, par, slices)
  BY DEF Books
<1>4. Step(w, R, FALSE, {p.k}) /\ slices' = [slices EXCEPT ![p.k].status = SliceStatus(p.view), ![p.k].filled = p.view.filled]
  BY <1>1 DEF applyView
<1>5. /\ DOMAIN R = Names /\ R.op = p.op /\ R.now = p.now /\ R.cur = par /\ R.fresh = TRUE
      /\ IF p.view.state \in ChildEnds THEN R.pc = "replan" /\ R.after = "submit"
         ELSE R.pc = "pause" /\ R.why = "CANCEL_UNCONFIRMED" /\ R.after = "release"
  BY <1>2 DEF Call, Names, Reloaded
<1> HIDE DEF R, r
<1>6. /\ LiveIn(slices) = {p.k} /\ par.uns # Unplanned /\ Even(par, slices)
      /\ \A t : After(p, slices, t) /\ p.view.state = "open" => Even(par, t)
  BY <1>1, <1>2, WaitingLive
<1>7. ASSUME NEW t, After(p, slices, t) PROVE Stage(R, par, t)
  <2>1. CASE p.view.state \in ChildEnds
    BY <1>5, <2>1, ReplanStage
  <2>2. CASE p.view.state \notin ChildEnds
    <3>1. Even(par, t)
      BY <1>6, <1>7, <2>2 DEF After
    <3> QED BY <1>5, <2>2, <3>1, PauseStage DEF Stops
  <2> QED BY <2>1, <2>2
<1>8. p.pc \in Views /\ R.pc \notin Views /\ Apart1
  BY <1>1, <1>5 DEF Views, Apart1
<1> QED BY <1>1, <1>4, <1>5, <1>7, <1>8, ToldStep

LEMMA BooksChildCancelled == ASSUME NEW w, Workers = {w}, Books(w), ChildCancelled(w) PROVE Books(w)'
<1> DEFINE p == proc[w]
           r == [p EXCEPT !.pc = "cancelling", !.list = @ \ {p.k}, !.ok = @ /\ p.view.state \in ChildEnds]
           R == [Reloaded(r) EXCEPT !.k = 0, !.view = Idle.view]
<1>1. p.pc = "cancelled" /\ UNCHANGED <<par, lease, child, clock, crashes>> /\ applyView(w, r)
  BY DEF ChildCancelled, At
<1>2. Call(p, par) /\ Rows(slices) /\ Linked(p, slices, child) /\ Stage(p, par, slices)
  BY DEF Books
<1>3. Listing(p, slices)
  BY <1>1, <1>2 DEF Stage
<1>4. Step(w, R, FALSE, {p.k}) /\ slices' = [slices EXCEPT ![p.k].status = SliceStatus(p.view), ![p.k].filled = p.view.filled]
  BY <1>1 DEF applyView
<1>5. /\ DOMAIN R = Names /\ R.op = p.op /\ R.now = p.now /\ R.cur = par /\ R.fresh = TRUE /\ R.pc = "cancelling"
      /\ R.list = p.list \ {p.k} /\ R.want = p.want /\ R.ok = (p.ok /\ p.view.state \in ChildEnds)
  BY <1>2 DEF Call, Names, Reloaded
<1> HIDE DEF R, r
<1>6. /\ LiveIn(slices) = {p.k} /\ par.uns # Unplanned /\ Even(par, slices)
      /\ \A t : After(p, slices, t) /\ p.view.state = "open" => Even(par, t)
  BY <1>1, <1>2, WaitingLive
<1>7. ASSUME NEW t, After(p, slices, t) PROVE Stage(R, par, t)
  <2>1. p.list \subseteq LiveIn(slices) /\ p.want \in Wants /\ p.ok
    BY <1>1, <1>3 DEF Listing
  <2>2. R.list = {}
    BY <1>5, <1>6, <2>1
  <2>3. R.ok \in BOOLEAN /\ (R.ok <=> p.view.state \in ChildEnds)
    BY <1>5, <2>1
  <2>4. p.view.state \in ChildEnds => LiveIn(t) = {}
    BY <1>7 DEF After, ChildEnds
  <2>5. Listing(R, t)
    BY <1>5, <2>1, <2>2, <2>3, <2>4 DEF Listing
  <2>6. p.view.state \notin ChildEnds => Even(par, t)
    BY <1>6, <1>7 DEF After
  <2> QED BY <1>5, <2>3, <2>4, <2>5, <2>6, CancellingStage
<1>8. p.pc \in Views /\ R.pc \notin Views /\ Apart1
  BY <1>1, <1>5 DEF Views, Apart1
<1> QED BY <1>1, <1>4, <1>5, <1>7, <1>8, ToldStep

LEMMA BooksSent == ASSUME NEW w, Workers = {w}, Books(w), Sent(w) PROVE Books(w)'
<1> DEFINE p == proc[w]
           R == Reloaded(IF p.view.state \in {"REJECTED", "FAILED"}
                         THEN [Goto(w, "pause") EXCEPT !.why = "CHILD_REJECTED", !.after = "account", !.q = 0, !.view = Idle.view]
                         ELSE [Goto(w, "replan") EXCEPT !.after = "account", !.q = 0, !.view = Idle.view])
<1>1. p.pc = "sent" /\ UNCHANGED <<par, lease, child, clock, crashes>>
  BY DEF Sent, At
<1>2. Call(p, par) /\ Submits(p, par, slices)
  BY <1>1 DEF Books, Stage, Sending
<1>3. p.sfresh /\ par.uns # Unplanned /\ (p.view.state = "open" \/ "reject" \in Env)
  BY <1>1, <1>2 DEF Submits
<1>4. Step(w, R, FALSE, {p.k}) /\ slices' = [slices EXCEPT ![p.k].status = SliceStatus(p.view), ![p.k].filled = p.view.filled]
  BY <1>3 DEF Sent
<1>5. /\ DOMAIN R = Names /\ R.op = p.op /\ R.now = p.now /\ R.cur = par /\ R.fresh = TRUE
      /\ IF p.view.state \in {"REJECTED", "FAILED"} THEN R.pc = "pause" /\ R.why = "CHILD_REJECTED" /\ R.after = "account"
         ELSE R.pc = "replan" /\ R.after = "account"
  BY <1>2 DEF Call, Names, Reloaded, Goto
<1> HIDE DEF R
<1>6. ASSUME NEW t, After(p, slices, t) PROVE Stage(R, par, t)
  <2>1. CASE p.view.state \in {"REJECTED", "FAILED"}
    <3>1. Uneven(par, t)
      BY <1>3, <1>6, <2>1 DEF Uneven, After
    <3> QED BY <1>5, <2>1, <3>1, PauseStage DEF Stops
  <2>2. CASE p.view.state \notin {"REJECTED", "FAILED"}
    BY <1>5, <2>2, ReplanStage
  <2> QED BY <2>1, <2>2
<1>7. p.pc \in Views /\ R.pc \notin Views /\ Apart1
  BY <1>1, <1>5 DEF Views, Apart1
<1> QED BY <1>1, <1>4, <1>5, <1>6, <1>7, ToldStep

-----------------------------------------------------------------------------
(* Slices leave, and the rest is planned again. *)

(* t is s without the slices that were to be sent and that nobody froze.   *)
Thinned(s, c, t) ==
  /\ Rows(t) /\ DOMAIN t = DOMAIN s /\ Len(t) = Len(s) /\ LiveIn(t) = LiveIn(s) /\ Booked(t) + LooseQty(s) = Booked(s)
  /\ \A k \in DOMAIN s : t[k].status = "PENDING" => s[k].status = "PENDING" /\ s[k].frozen
  /\ \A r : r.pc \notin Views => Linked(r, t, c)

LEMMA RowsLeft ==
  ASSUME NEW s, Rows(s), NEW c, Children(c), NEW p, Linked(p, s, c), p.pc \notin Views, NEW status \in {"SKIPPED", "CANCELLED"},
         NEW t, t = Without(s, status)
  PROVE  Thinned(s, c, t)
<1>1. Listed(s) /\ Len(s) \in Nat /\ DOMAIN s = 1 .. Len(s) /\ DOMAIN s \subseteq 1 .. MaxSlices
  BY IndexIn
<1>2. /\ Listed(t) /\ DOMAIN t = DOMAIN s /\ Len(t) = Len(s)
      /\ LiveIn(t) = LiveIn(s) /\ Booked(t) + LooseQty(s) = Booked(s)
      /\ \A k \in DOMAIN s : IF k \in Loose(s) THEN t[k].status = status /\ t[k].filled = 0 ELSE t[k] = s[k]
  BY <1>1, RowsGone
<1>3. Booked(t) <= Target
  <2>1. Booked(s) \in Nat /\ Booked(t) \in Nat /\ LooseQty(s) \in Nat /\ Booked(s) <= Target
    BY <1>1, <1>2, Accounts DEF Rows
  <2> QED BY <1>2, <2>1, TwapAssumption
<1>4. Rows(t)
  BY <1>2, <1>3 DEF Rows, Listed
<1>5. \A k \in DOMAIN s : t[k].status = "PENDING" => s[k].status = "PENDING" /\ s[k].frozen
  BY <1>2 DEF Loose
<1>6. ASSUME NEW r, r.pc \notin Views PROVE Linked(r, t, c)
  <2> SUFFICES ASSUME NEW k \in 1 .. MaxSlices
               PROVE  (k \notin DOMAIN t => c[k].state = "none") /\ (k \in DOMAIN t => Agrees(t[k], c[k]))
    BY <1>6 DEF Linked, Hung
  <2>1. /\ k \notin DOMAIN s => c[k].state = "none"
        /\ k \in DOMAIN s => Agrees(s[k], c[k])
    BY DEF Linked, Hung
  <2>2. CASE k \in Loose(s)
    <3>1. s[k].status = "PENDING" /\ k \in DOMAIN s
      BY <2>2 DEF Loose
    <3>2. ChildRow(c[k])
      BY DEF Children
    <3>3. c[k].state = "none"
      BY <2>1, <3>1, <3>2, PendingNone
    <3> QED BY <1>2, <2>2, <3>1, <3>3 DEF Agrees
  <2>3. CASE k \notin Loose(s)
    BY <1>2, <2>1, <2>3
  <2> QED BY <2>2, <2>3
<1> QED BY <1>2, <1>4, <1>5, <1>6 DEF Thinned

(* Where the call stands no slice waits frozen. *)
LEMMA ThinStep ==
  ASSUME NEW w, Workers = {w}, Books(w), proc[w].pc \notin Over \cup Starting \cup Views \cup {"send"},
         NEW status \in {"SKIPPED", "CANCELLED"}, slices' = Without(slices, status),
         NEW r, NEW W, Step(w, r, FALSE, W), UNCHANGED <<par, child>>, Apart1,
         DOMAIN r = Names, r.op = proc[w].op, r.now = proc[w].now, r.cur = par, r.fresh, r.pc \notin Views,
         \A t : Thinned(slices, child, t) /\ (\A k \in DOMAIN t : t[k].status # "PENDING") => Stage(r, par, t)
  PROVE  Books(w)'
<1> DEFINE p == proc[w]
           t == slices'
<1>1. /\ Call(p, par) /\ Rows(slices) /\ Linked(p, slices, child) /\ Children(child) /\ Parent(par, slices)
      /\ Frozen(p, slices) /\ Around'
  BY AroundSame DEF Books
<1>2. t = Without(slices, status)
  OBVIOUS
<1> HIDE DEF t, p
<1>3. p.pc \notin Views /\ p.pc \notin {"send", "sent"} /\ p.pc \notin Over \cup Starting
  BY DEF p, Views
<1>4. Thinned(slices, child, t)
  BY <1>1, <1>2, <1>3, RowsLeft
<1>5. \A k \in DOMAIN t : t[k].status # "PENDING"
  BY <1>1, <1>3, <1>4 DEF Thinned, Frozen
<1>6. Stage(r, par, t) /\ Linked(r, t, child) /\ Rows(t)
  BY <1>4, <1>5 DEF Thinned
<1>7. Frozen(r, t)
  BY <1>5 DEF Frozen
<1>8. Call(r, par) /\ par.status \in Actionable
  <2>1. p.op # "start" /\ p.pc \notin Over /\ par.status \in Actionable
    BY <1>1, <1>3 DEF Call
  <2> QED BY <1>1, <2>1, CallOn DEF p
<1>9. Parent(par, t)
  <2>1. par.status \notin Terminal /\ par.status # "COMPLETED"
    BY <1>8 DEF Actionable, Terminal
  <2> QED BY <1>1, <2>1 DEF Parent
<1> QED BY <1>1, <1>6, <1>7, <1>8, <1>9, Becomes DEF t

LEMMA BooksDropPending == ASSUME NEW w, Workers = {w}, Books(w), DropPending(w) PROVE Books(w)'
<1> DEFINE p == proc[w]
           drop == {k \in DOMAIN slices : slices[k].status = "PENDING"}
           r == Reloaded(Goto(w, "close"))
<1>1. /\ p.pc = "cancelling" /\ p.list = {} /\ p.ok /\ UNCHANGED <<par, lease, child, clock, crashes>> /\ Step(w, r, FALSE, drop)
      /\ slices' = [k \in DOMAIN slices |-> IF k \in drop THEN Gone(slices[k], "CANCELLED") ELSE slices[k]]
  BY DEF DropPending, At
<1>2. Call(p, par) /\ Listing(p, slices) /\ Frozen(p, slices)
  BY <1>1 DEF Books, Stage
<1>3. drop = Loose(slices)
  BY <1>1, <1>2 DEF Frozen, Loose
<1> HIDE DEF drop
<1>4. slices' = Without(slices, "CANCELLED")
  BY <1>1, <1>3 DEF Without
<1>5. DOMAIN r = Names /\ r.op = p.op /\ r.now = p.now /\ r.cur = par /\ r.fresh = TRUE /\ r.pc = "close" /\ r.want = p.want
  BY <1>2 DEF Call, Names, Reloaded, Goto
<1> HIDE DEF r
<1>6. ASSUME NEW t, Thinned(slices, child, t), \A k \in DOMAIN t : t[k].status # "PENDING" PROVE Stage(r, par, t)
  <2>1. p.want \in Wants /\ (p.want # "PAUSED" => LiveIn(slices) = {})
    BY <1>1, <1>2 DEF Listing
  <2>2. Closing(r, t)
    BY <1>5, <1>6, <2>1 DEF Closing, Thinned
  <2> QED BY <1>5, <2>2, CloseStage
<1>7. p.pc \notin Over \cup Starting \cup Views \cup {"send"} /\ r.pc \notin Views /\ Apart1
  BY <1>1, <1>5 DEF Over, Starting, Views, Apart1
<1> QED BY <1>1, <1>4, <1>5, <1>6, <1>7, ThinStep

LEMMA SnapNat == ASSUME NEW now \in Nat PROVE snapToGrid(0, Interval, now) \in Nat
<1>1. Interval \in Nat \ {0}
  BY TwapAssumption
<1>2. CASE now = 0
  BY <1>2 DEF snapToGrid
<1>3. CASE now # 0
  <2> DEFINE c == CeilDiv(now, Interval)
  <2>1. c \in Nat
    BY <1>1, <1>3, Ceil
  <2>2. snapToGrid(0, Interval, now) = 0 + CeilDiv(now - 0, Interval) * Interval /\ now - 0 = now
    BY <1>3 DEF snapToGrid
  <2>3. snapToGrid(0, Interval, now) = 0 + c * Interval
    BY <2>2
  <2> HIDE DEF c
  <2>4. c * Interval \in Nat
    BY <1>1, <2>1
  <2> QED BY <2>3, <2>4
<1> QED BY <1>2, <1>3

Fitted(rest, now) == IF rest > 0 THEN fitPlan(PlanFrom(rest, snapToGrid(0, Interval, now))) ELSE Refused("NONE")

LEMMA FittedRest ==
  ASSUME NEW rest \in 0 .. Target, NEW now \in 0 .. Deadline
  PROVE  LET plan == Fitted(rest, now)
         IN  /\ List(ToSlices(plan)) /\ \A i \in DOMAIN ToSlices(plan) : Todo(ToSlices(plan)[i])
             /\ Steps(Ahead(ToSlices(plan))) = Steps(plan.qty) /\ Steps(plan.qty) \in 0 .. rest
<1> DEFINE start == snapToGrid(0, Interval, now)
           from == PlanFrom(rest, start)
           plan == Fitted(rest, now)
<1>1. Target \in Nat /\ rest \in Int /\ rest <= Target /\ rest >= 0 /\ now \in Nat
  BY TwapAssumption
<1>2. start \in Nat
  BY <1>1, SnapNat
<1>3. PlanInput(from) /\ from.total = rest
  BY <1>1, <1>2, PlanFromInput DEF PlanFrom
<1>4. \E t \in Int : Right(from, plan, t) /\ t <= rest
  <2>1. CASE rest > 0
    <3>1. plan = fitPlan(from)
      BY <2>1 DEF Fitted
    <3> HIDE DEF from, plan
    <3>2. PICK t \in Int : Right(from, plan, t) /\ (plan.code = "OK" => t <= rest)
      BY <1>3, <3>1, FitSound
    <3>3. CASE plan.code = "OK"
      BY <3>2, <3>3
    <3>4. CASE plan.code # "OK"
      <4>1. Right(from, plan, rest)
        BY <3>2, <3>4 DEF Right
      <4> QED BY <1>1, <4>1
    <3> QED BY <3>3, <3>4
  <2>2. CASE ~ (rest > 0)
    <3>1. plan = Refused("NONE")
      BY <2>2 DEF Fitted
    <3> HIDE DEF from, plan
    <3>2. Right(from, plan, rest)
      BY <3>1, RefusedRight DEF Codes
    <3> QED BY <1>1, <3>2
  <2> QED BY <2>1, <2>2
<1> HIDE DEF plan
<1>5. PICK t \in Int : Right(from, plan, t) /\ t <= rest
  BY <1>4
<1> HIDE DEF start
<1>6. t <= Target
  BY <1>1, <1>5
<1>7. /\ List(ToSlices(plan)) /\ \A i \in DOMAIN ToSlices(plan) : Todo(ToSlices(plan)[i])
      /\ Steps(Ahead(ToSlices(plan))) = Steps(plan.qty) /\ Steps(plan.qty) \in 0 .. Target
      /\ Steps(plan.qty) = (IF plan.code = "OK" THEN t ELSE 0)
  BY <1>1, <1>2, <1>5, <1>6, PlanWritten
<1>8. Steps(plan.qty) \in 0 .. rest
  BY <1>1, <1>5, <1>7
<1> QED BY <1>7, <1>8 DEF plan

LEMMA BooksReplan == ASSUME NEW w, Workers = {w}, Books(w), Replan(w) PROVE Books(w)'
<1> DEFINE p == proc[w]
           rest == Larger(0, Target - Filled(slices) - Outstanding(slices))
           fitted == Fitted(rest, p.now)
           g == Goto(w, IF p.after = "submit" /\ p.cur.status # "RUNNING" THEN "release" ELSE p.after)
           uns == rest - Steps(fitted.qty)
           r == [p EXCEPT !.pc = "insert", !.todo = ToSlices(fitted), !.at = Len(slices) + 1,
                          !.uns = uns, !.after = IF p.after = "submit" THEN "adapted" ELSE "readapted"]
<1>1. p.pc = "replan" /\ UNCHANGED <<par, lease, child, clock, crashes>>
  BY DEF Replan, At
<1>2. /\ Call(p, par) /\ Rows(slices) /\ p.after \in {"submit", "account"} /\ p.now \in 0 .. Deadline
      /\ p.pc \notin Over \cup Starting \cup Views \cup {"send"} /\ Apart1
      /\ p.cur = par /\ p.op # "start" /\ par.status \in Actionable /\ p.fresh
  BY <1>1 DEF Books, Stage, Over, Starting, Views, Apart1, Call
<1>3. Listed(slices) /\ Len(slices) \in Nat
  BY <1>2, IndexIn
<1>4. /\ Filled(slices) \in Nat /\ Outstanding(slices) \in Nat /\ LooseQty(slices) \in Nat /\ Booked(slices) \in Nat
      /\ Filled(slices) + Outstanding(slices) + LooseQty(slices) = Booked(slices) /\ Booked(slices) <= Target /\ Target \in Nat
  BY <1>2, <1>3, Accounts, TwapAssumption DEF Rows
<1>5. rest = Target - Filled(slices) - Outstanding(slices) /\ rest \in 0 .. Target
  BY <1>4 DEF Larger
<1>6. CASE LooseQty(slices) = rest /\ par.uns = 0 /\ slices' = slices /\ Step(w, g, FALSE, {})
  <2>1. Onward(p, g) /\ g.pc \in {"release", "submit", "account"}
    BY <1>2 DEF Call, Names, Onward, Goto
  <2> HIDE DEF g, rest
  <2>2. Even(par, slices)
    <3>1. Booked(slices) + par.uns = Target /\ par.uns \in 0 .. Target
      BY <1>4, <1>5, <1>6
    <3> QED BY <3>1, EvenAgain
  <2>3. Stage(g, par, slices) /\ g.pc \notin Views
    <3>1. CASE g.pc = "release"
      <4>1. g.pc \in Over
        BY <3>1 DEF Over
      <4> QED BY <2>2, <4>1, OverStage
    <3>2. CASE g.pc # "release"
      BY <2>1, <2>2, <3>2, LevelStage
    <3> QED BY <3>1, <3>2
  <2> QED BY <1>1, <1>2, <1>6, <2>1, <2>3, GoesOn
<1>7. CASE slices' = Without(slices, "SKIPPED") /\ Step(w, r, FALSE, Loose(slices))
  <2>1. /\ DOMAIN r = Names /\ r.op = p.op /\ r.now = p.now /\ r.cur = par /\ r.fresh /\ r.pc = "insert"
        /\ r.todo = ToSlices(fitted) /\ r.at = Len(slices) + 1 /\ r.uns = uns
        /\ r.after \in {"adapted", "readapted"}
    BY <1>2 DEF Call, Names
  <2> HIDE DEF r, rest
  <2>2. /\ List(ToSlices(fitted)) /\ \A i \in DOMAIN ToSlices(fitted) : Todo(ToSlices(fitted)[i])
        /\ Steps(Ahead(ToSlices(fitted))) = Steps(fitted.qty) /\ Steps(fitted.qty) \in 0 .. rest
    BY <1>2, <1>5, FittedRest
  <2> HIDE DEF fitted
  <2>3. uns \in 0 .. Target /\ uns = rest - Steps(fitted.qty)
    BY <1>4, <1>5, <2>2
  <2> HIDE DEF uns
  <2>4. ASSUME NEW t, Thinned(slices, child, t) PROVE Stage(r, par, t)
    <3>1. Booked(t) + LooseQty(slices) = Booked(slices) /\ Len(t) = Len(slices) /\ Rows(t)
      BY <2>4 DEF Thinned
    <3>2. Booked(t) \in Nat
      BY <3>1, IndexIn, Accounts
    <3>3. Booked(t) + Steps(Ahead(r.todo)) + r.uns = Target
      <4> DEFINE x == Steps(fitted.qty)
      <4>1. Steps(Ahead(r.todo)) = x /\ x \in 0 .. rest /\ r.uns = rest - x
        BY <2>1, <2>2, <2>3
      <4> HIDE DEF x
      <4>2. x \in Int /\ rest \in Int
        BY <1>5, <4>1
      <4>3. rest = Target - Filled(slices) - Outstanding(slices) /\ Booked(t) + LooseQty(slices) = Filled(slices) + Outstanding(slices) + LooseQty(slices)
        BY <1>4, <1>5, <3>1
      <4>4. Booked(t) = Filled(slices) + Outstanding(slices)
        BY <1>4, <3>2, <4>3
      <4>5. Booked(t) + rest = Target
        BY <1>4, <4>2, <4>3, <4>4
      <4> QED BY <3>2, <4>1, <4>2, <4>5
    <3>4. Inserting(r, t)
      BY <1>2, <2>1, <2>2, <2>3, <3>1, <3>3 DEF Inserting, Adding
    <3> QED BY <2>1, <3>4, InsertStage
  <2>5. r.pc \notin Views
    BY <2>1 DEF Views
  <2> QED BY <1>1, <1>2, <1>7, <2>1, <2>4, <2>5, ThinStep
<1> HIDE DEF g
<1> QED BY <1>2, <1>6, <1>7 DEF Replan, Fitted, Without, g

-----------------------------------------------------------------------------
(* The environment, and any step                                           *)

(* A fill at the venue changes neither the workflow's record nor a row.     *)
LEMMA BooksFill == ASSUME NEW w, Books(w), NEW k \in 1 .. MaxSlices, Fill(k) PROVE Books(w)'
<1> DEFINE c == child[k]
           d == [c EXCEPT !.traded = @ + 1]
<1>1. /\ c.state = "open" /\ c.traded < c.qty
      /\ child' = [child EXCEPT ![k] = d] /\ UNCHANGED <<par, lease, slices, proc, clock, crashes>>
  BY DEF Fill
<1>2. ChildRow(c) /\ child = [i \in 1 .. MaxSlices |-> child[i]]
  BY DEF Books, Children
<1>3. /\ c = [state |-> c.state, qty |-> c.qty, traded |-> c.traded, filled |-> c.filled, since |-> c.since]
      /\ c.since \in 0 .. Deadline
  BY <1>2 DEF ChildRow
<1>4. /\ c.qty \in 0 .. Target /\ c.traded \in 0 .. Target /\ c.filled \in 0 .. Target
      /\ c.filled <= c.traded /\ c.traded <= c.qty /\ Target \in Nat
  BY <1>2, ChildTyped
<1>5. d = [state |-> "open", qty |-> c.qty, traded |-> c.traded + 1, filled |-> c.filled, since |-> c.since]
  BY <1>1, <1>3
<1>6. ChildRow(d) /\ View(d) = View(c) /\ d.state = c.state /\ d.qty = c.qty /\ d.filled = c.filled
  <2>1. c.traded + 1 \in 0 .. Target /\ c.filled <= c.traded + 1 /\ c.traded + 1 <= c.qty
    BY <1>1, <1>4
  <2>2. "open" \notin ChildEnds /\ "open" \in {"none", "open"} \cup ChildEnds
    BY DEF ChildEnds
  <2>3. ChildRow(d)
    BY <1>3, <1>4, <1>5, <2>1, <2>2 DEF ChildRow
  <2> QED BY <1>1, <1>5, <2>3 DEF View
<1> HIDE DEF d
<1>7. \A i \in 1 .. MaxSlices : child'[i] = IF i = k THEN d ELSE child[i]
  BY <1>1, <1>2
<1>8. Children(child')
  <2>1. child' = [i \in 1 .. MaxSlices |-> child'[i]]
    BY <1>1, <1>2
  <2>2. \A i \in 1 .. MaxSlices : ChildRow(child'[i])
    BY <1>6, <1>7 DEF Books, Children
  <2> QED BY <2>1, <2>2 DEF Children
<1>9. Linked(proc[w], slices, child')
  <2> SUFFICES ASSUME NEW i \in 1 .. MaxSlices
               PROVE  /\ i \notin DOMAIN slices => child'[i].state = "none"
                      /\ i \in DOMAIN slices => IF Hung(proc[w], i) THEN Awaits(proc[w], slices[i], child'[i])
                                                ELSE Agrees(slices[i], child'[i])
    BY DEF Linked
  <2>1. /\ i \notin DOMAIN slices => child[i].state = "none"
        /\ i \in DOMAIN slices => IF Hung(proc[w], i) THEN Awaits(proc[w], slices[i], child[i])
                                  ELSE Agrees(slices[i], child[i])
    BY DEF Books, Linked
  <2>2. CASE i # k
    BY <1>7, <2>1, <2>2
  <2>3. CASE i = k
    <3>1. child'[i] = d /\ child[i] = c
      BY <1>7, <2>3
    <3>2. Awaits(proc[w], slices[i], c) => Awaits(proc[w], slices[i], d)
      BY <1>6 DEF Awaits
    <3>3. Agrees(slices[i], c) => Agrees(slices[i], d)
      BY <1>6 DEF Agrees
    <3> QED BY <1>6, <2>1, <3>1, <3>2, <3>3
  <2> QED BY <2>2, <2>3
<1> QED BY <1>1, <1>8, <1>9 DEF Books, Around

LEMMA BooksOutside ==
  ASSUME NEW w, Books(w), LeaseExpires \/ Pass \/ UNCHANGED vars PROVE Books(w)'
<1>1. CASE LeaseExpires
  <2>1. UNCHANGED <<par, slices, child, proc, clock, crashes>> /\ lease' = [lease EXCEPT !.expired = TRUE]
    BY <1>1 DEF LeaseExpires
  <2>2. Around'
    BY <2>1 DEF Books, Around
  <2> QED BY <2>1, <2>2 DEF Books
<1>2. CASE Pass
  <2>1. UNCHANGED <<par, lease, slices, child, proc, crashes>> /\ clock < Deadline /\ clock' = clock + 1
    BY <1>2 DEF Pass
  <2>2. Around'
    BY <2>1, TwapAssumption DEF Books, Around
  <2> QED BY <2>1, <2>2 DEF Books
<1>3. CASE UNCHANGED vars
  BY <1>3 DEF vars, Books, Around
<1> QED BY <1>1, <1>2, <1>3

LEMMA BooksRunning ==
  ASSUME NEW w, Workers = {w}, "throw" \notin Env, Books(w), Running(w) PROVE Books(w)'
<1>1. CASE Planning(w)
  BY <1>1, BooksEnsure, BooksInsert, BooksPlanned, BooksStarted DEF Planning
<1>2. CASE Deciding(w)
  BY <1>2, BooksEndings, BooksProceed, BooksStarted DEF Deciding
<1>3. CASE Cancelling(w)
  BY <1>3, BooksCancelChild, BooksChildCancelled, BooksNotConfirmed, BooksDropPending, BooksClose DEF Cancelling
<1>4. CASE Reconciling(w)
  BY <1>4, BooksPollChild, BooksChildPolled, BooksBoundary, BooksSliceEnded, BooksPauseNow DEF Reconciling
<1>5. CASE Submitting(w)
  BY <1>5, BooksReplan, BooksAdapted, BooksPick, BooksClaim, BooksFreeze, BooksSend, BooksSent DEF Submitting
<1>6. CASE Account(w) \/ Release(w)
  BY <1>6, BooksAccount, BooksRelease
<1> QED BY <1>1, <1>2, <1>3, <1>4, <1>5, <1>6 DEF Running

LEMMA BooksStep ==
  ASSUME NEW w, Workers = {w}, MaxCrashes = 0, "throw" \notin Env, Books(w), [Next]_vars PROVE Books(w)'
<1>1. CASE \E u \in Workers : Tick(u) \/ Cancel(u) \/ Resume(u) \/ Start(u) \/ Running(u) \/ Crash(u)
  <2>1. Tick(w) \/ Cancel(w) \/ Resume(w) \/ Start(w) \/ Running(w) \/ Crash(w)
    BY <1>1
  <2>2. CASE Tick(w) \/ Cancel(w) \/ Resume(w) \/ Start(w)
    BY <2>2, BooksBegins
  <2>3. CASE Running(w)
    BY <2>3, BooksRunning
  <2>4. ~ Crash(w)
    BY DEF Crash, Books, Around
  <2> QED BY <2>1, <2>2, <2>3, <2>4
<1>2. CASE \E k \in 1 .. MaxSlices : Fill(k)
  BY <1>2, BooksFill
<1>3. CASE LeaseExpires \/ Pass \/ UNCHANGED vars
  BY <1>3, BooksOutside
<1> QED BY <1>1, <1>2, <1>3 DEF Next

-----------------------------------------------------------------------------
(* What the books promise *)

LEMMA BooksTyped == ASSUME NEW w, Books(w), MaxCrashes = 0 PROVE TypeOK
  BY DEF TypeOK, Books, Parent, Rows, SliceRow, Children, ChildRow, Around

(* A child that may trade has a live slice, or the one that was just sent.  *)
LEMMA OpenLive ==
  ASSUME NEW w, Books(w), NEW k \in 1 .. MaxSlices, child[k].state = "open"
  PROVE  /\ k \in DOMAIN slices
         /\ k \in LiveIn(slices) \/ (Hung(proc[w], k) /\ proc[w].pc = "sent" /\ LiveIn(slices) = {})
<1>1. ChildRow(child[k]) /\ Linked(proc[w], slices, child)
  BY DEF Books, Children
<1>2. k \in DOMAIN slices
  BY <1>1 DEF Linked
<1>3. CASE Hung(proc[w], k)
  <2>1. Awaits(proc[w], slices[k], child[k])
    BY <1>1, <1>2, <1>3 DEF Linked
  <2>2. CASE proc[w].pc = "sent"
    <3>1. LiveIn(slices) = {}
      BY <2>2 DEF Books, Stage, Submits, Sending
    <3> QED BY <1>2, <1>3, <2>2, <3>1
  <2>3. CASE proc[w].pc # "sent"
    BY <1>2, <2>1, <2>3 DEF Awaits, LiveIn
  <2> QED BY <2>2, <2>3
<1>4. CASE ~ Hung(proc[w], k)
  <2>1. Agrees(slices[k], child[k])
    BY <1>1, <1>2, <1>4 DEF Linked
  <2>2. slices[k].status = SliceStatus(View(child[k]))
    BY <2>1 DEF Agrees
  <2>3. slices[k].status \in {"SUBMITTED", "PARTIAL"}
    BY <1>1, <2>2, ViewStatus
  <2> QED BY <1>2, <2>3 DEF LiveIn
<1> QED BY <1>3, <1>4

(* A parent that ended is not on the way of a call with an answer.          *)
LEMMA EndedQuiet == ASSUME NEW w, Books(w), par.status \in Terminal PROVE proc[w].pc \notin Views
<1>1. Call(proc[w], par) /\ par.status \notin Actionable
  BY DEF Books, Actionable, Terminal
<1>2. Views \cap (Over \cup Starting) = {}
  BY DEF Views, Over, Starting
<1> QED BY <1>1, <1>2 DEF Call

LEMMA BooksDead == ASSUME NEW w, Books(w) PROVE TerminalChildrenDead
<1> SUFFICES ASSUME par.status \in Terminal, NEW k \in 1 .. MaxSlices, child[k].state = "open" PROVE FALSE
  BY DEF TerminalChildrenDead
<1>1. proc[w].pc \notin Views /\ LiveIn(slices) = {}
  BY EndedQuiet DEF Books, Parent
<1> QED BY <1>1, OpenLive DEF Hung

LEMMA BooksOne == ASSUME NEW w, Books(w) PROVE OneChild
<1> DEFINE O == {k \in 1 .. MaxSlices : child[k].state = "open"}
<1>1. \A i, j \in O : i = j
  <2> SUFFICES ASSUME NEW i \in O, NEW j \in O PROVE i = j
    OBVIOUS
  <2>1. \A a, b \in LiveIn(slices) : a = b
    BY DEF Books, Rows
  <2>2. i \in LiveIn(slices) \/ (Hung(proc[w], i) /\ LiveIn(slices) = {})
    BY OpenLive
  <2>3. j \in LiveIn(slices) \/ (Hung(proc[w], j) /\ LiveIn(slices) = {})
    BY OpenLive
  <2> QED BY <2>1, <2>2, <2>3 DEF Hung
<1>2. CASE O = {}
  <2>1. Cardinality(O) = 0
    BY <1>2, FS_EmptySet
  <2> QED BY <2>1 DEF OneChild
<1>3. CASE O # {}
  <2>1. PICK x : O = {x}
    BY <1>1, <1>3
  <2>2. Cardinality(O) = 1
    BY <2>1, FS_Singleton
  <2> QED BY <2>2 DEF OneChild
<1> QED BY <1>2, <1>3

(* What a child has traded and may still trade is what its slice may cost.  *)
LEMMA ExposedRow ==
  ASSUME NEW w, Books(w), NEW k \in DOMAIN slices
  PROVE  (IF child[k].state = "open" THEN child[k].qty ELSE child[k].traded) <= Bulk(slices[k])
<1> DEFINE c == child[k]
           x == slices[k]
<1>1. k \in 1 .. MaxSlices /\ SliceRow(x)
  BY IndexIn DEF Books, Rows
<1>2. ChildRow(c) /\ (IF Hung(proc[w], k) THEN Awaits(proc[w], x, c) ELSE Agrees(x, c))
  BY <1>1 DEF Books, Children, Linked
<1>3. /\ c.qty \in 0 .. Target /\ c.traded \in 0 .. Target /\ c.filled \in 0 .. Target
      /\ c.filled <= c.traded /\ c.traded <= c.qty /\ c.state \in {"none", "open"} \cup ChildEnds
  BY <1>2, ChildTyped
<1>4. x.qty \in 0 .. Target /\ x.filled \in 0 .. Target /\ Bulk(x) \in 0 .. Target /\ x.filled <= Bulk(x)
  BY <1>1, RowTyped
<1> HIDE DEF c, x
<1>5. CASE Hung(proc[w], k)
  <2>1. x.qty = c.qty /\ x.status \in Unended
    BY <1>2, <1>5 DEF Awaits, Unended
  <2>2. Bulk(x) = c.qty
    BY <2>1 DEF Bulk
  <2>3. (IF c.state = "open" THEN c.qty ELSE c.traded) <= Bulk(x)
    BY <1>3, <2>2
  <2> QED BY <2>3 DEF c, x
<1>6. CASE ~ Hung(proc[w], k)
  <2>1. Agrees(x, c)
    BY <1>2, <1>6
  <2>2. CASE c.state = "none"
    <3>1. c.traded = 0
      BY <1>2, <2>2 DEF ChildRow
    <3>2. (IF c.state = "open" THEN c.qty ELSE c.traded) <= Bulk(x)
      BY <1>4, <2>2, <3>1
    <3> QED BY <3>2 DEF c, x
  <2>3. CASE c.state = "open"
    <3>1. x.qty = c.qty /\ x.status = SliceStatus(View(c))
      BY <2>1, <2>3 DEF Agrees
    <3>2. x.status \in Unended
      BY <1>2, <2>3, <3>1, ViewStatus DEF Unended
    <3>3. (IF c.state = "open" THEN c.qty ELSE c.traded) <= Bulk(x)
      BY <1>3, <2>3, <3>1, <3>2 DEF Bulk
    <3> QED BY <3>3 DEF c, x
  <2>4. CASE c.state \in ChildEnds
    <3>1. c.state # "none" /\ c.state # "open"
      BY <2>4 DEF ChildEnds
    <3>2. c.traded = c.filled /\ x.filled = c.filled
      BY <1>2, <2>1, <2>4, <3>1 DEF ChildRow, Agrees
    <3>3. (IF c.state = "open" THEN c.qty ELSE c.traded) <= Bulk(x)
      BY <1>4, <3>1, <3>2
    <3> QED BY <3>3 DEF c, x
  <2> QED BY <1>3, <2>2, <2>3, <2>4
<1> QED BY <1>5, <1>6

(* The quantities of the children, and those that say as much of the slices. *)
LEMMA ExposureBooked == ASSUME NEW w, Books(w) PROVE NoOverExposure
<1> DEFINE n == Len(slices)
           h == [k \in 1 .. MaxSlices |-> IF child[k].state = "open" THEN child[k].qty ELSE child[k].traded]
           f == [k \in 1 .. n |-> h[k]]
           g == Bulks(slices)
<1>1. n \in Nat /\ DOMAIN slices = 1 .. n /\ n <= MaxSlices /\ MaxSlices \in Nat /\ DOMAIN slices \subseteq 1 .. MaxSlices
  BY IndexIn, TwapAssumption DEF Books, Rows
<1>2. h \in [1 .. MaxSlices -> Int]
  <2> SUFFICES ASSUME NEW k \in 1 .. MaxSlices PROVE h[k] \in Int
    OBVIOUS
  <2>1. ChildRow(child[k])
    BY DEF Books, Children
  <2>2. child[k].qty \in 0 .. Target /\ child[k].traded \in 0 .. Target
    BY <2>1, ChildTyped
  <2> QED BY <2>2
<1>3. \A k \in n + 1 .. MaxSlices : h[k] = 0
  <2> SUFFICES ASSUME NEW k \in n + 1 .. MaxSlices PROVE h[k] = 0
    OBVIOUS
  <2>1. k \in 1 .. MaxSlices /\ k \notin DOMAIN slices
    BY <1>1
  <2>2. child[k].state = "none" /\ ChildRow(child[k])
    BY <2>1 DEF Books, Linked, Children
  <2>3. child[k].traded = 0
    BY <2>2 DEF ChildRow
  <2> QED BY <2>1, <2>2, <2>3
<1>4. f \in [1 .. n -> Int] /\ \A k \in 1 .. n : h[k] = f[k]
  BY <1>1, <1>2
<1>5. g \in [1 .. n -> Int]
  <2>1. Listed(slices)
    BY IndexIn DEF Books
  <2>2. g \in Terms(n)
    BY <2>1, TermsTyped
  <2> QED BY <1>1, <2>2, TermsInt
<1>6. \A k \in 1 .. n : f[k] <= g[k]
  <2> SUFFICES ASSUME NEW k \in 1 .. n PROVE f[k] <= g[k]
    OBVIOUS
  <2>1. k \in DOMAIN slices /\ k \in 1 .. MaxSlices
    BY <1>1
  <2>2. (IF child[k].state = "open" THEN child[k].qty ELSE child[k].traded) <= Bulk(slices[k])
    BY <2>1, ExposedRow
  <2>3. g[k] = Bulk(slices[k])
    BY <2>1 DEF Bulks
  <2> QED BY <2>1, <2>2, <2>3
<1>7. Exposure = Steps(h)
  BY DEF Exposure
<1>8. Steps(g) = Booked(slices) /\ Booked(slices) <= Target /\ Target \in Int
  BY Readings, TwapAssumption DEF Books, Rows
<1> HIDE DEF h, f, g, n
<1>9. Steps(f) \in Int /\ Steps(g) \in Int
  BY <1>1, <1>4, <1>5, SumTyped
<1>10. Steps(h) = Steps(f)
  BY <1>1, <1>2, <1>3, <1>4, SumPadded
<1>11. Steps(f) <= Steps(g)
  BY <1>1, <1>4, <1>5, <1>6, SumLeq
<1> QED BY <1>7, <1>8, <1>9, <1>10, <1>11 DEF NoOverExposure

LEMMA BooksTraded == ASSUME NEW w, Books(w) PROVE CompletedMeansTraded
<1> DEFINE n == Len(slices)
           h == [k \in 1 .. MaxSlices |-> child[k].traded]
           g == Fills(slices)
<1> SUFFICES ASSUME par.status = "COMPLETED" PROVE Steps(h) = Target
  BY DEF CompletedMeansTraded
<1>1. proc[w].pc \notin Views /\ LiveIn(slices) = {} /\ Filled(slices) = Target
  <2>1. par.status \in Terminal
    BY DEF Terminal
  <2> QED BY <2>1, EndedQuiet DEF Books, Parent
<1>2. n \in Nat /\ DOMAIN slices = 1 .. n /\ n <= MaxSlices /\ MaxSlices \in Nat /\ DOMAIN slices \subseteq 1 .. MaxSlices
  BY IndexIn, TwapAssumption DEF Books, Rows
<1>3. h \in [1 .. MaxSlices -> Int]
  <2> SUFFICES ASSUME NEW k \in 1 .. MaxSlices PROVE h[k] \in Int
    OBVIOUS
  <2>1. ChildRow(child[k])
    BY DEF Books, Children
  <2>2. child[k].traded \in 0 .. Target
    BY <2>1, ChildTyped
  <2> QED BY <2>2
<1>4. \A k \in n + 1 .. MaxSlices : h[k] = 0
  <2> SUFFICES ASSUME NEW k \in n + 1 .. MaxSlices PROVE h[k] = 0
    OBVIOUS
  <2>1. k \in 1 .. MaxSlices /\ k \notin DOMAIN slices
    BY <1>2
  <2>2. child[k].state = "none" /\ ChildRow(child[k])
    BY <2>1 DEF Books, Linked, Children
  <2>3. child[k].traded = 0
    BY <2>2 DEF ChildRow
  <2> QED BY <2>1, <2>3
<1>5. g \in [1 .. n -> Int]
  <2>1. Listed(slices)
    BY IndexIn DEF Books
  <2>2. g \in Terms(n)
    BY <2>1, TermsTyped
  <2> QED BY <1>2, <2>2, TermsInt
<1>6. \A k \in 1 .. n : h[k] = g[k]
  <2> SUFFICES ASSUME NEW k \in 1 .. n PROVE h[k] = g[k]
    OBVIOUS
  <2>1. k \in DOMAIN slices /\ k \in 1 .. MaxSlices
    BY <1>2
  <2>2. ChildRow(child[k]) /\ Agrees(slices[k], child[k])
    <3>1. ~ Hung(proc[w], k)
      BY <1>1 DEF Hung
    <3> QED BY <2>1, <3>1 DEF Books, Children, Linked
  <2>3. child[k].state # "open"
    BY <1>1, <2>1, OpenLive DEF Hung
  <2>4. child[k].traded = slices[k].filled
    <3>1. CASE child[k].state = "none"
      BY <2>2, <3>1 DEF Agrees, ChildRow
    <3>2. CASE child[k].state \in ChildEnds
      <4>1. child[k].state # "none"
        BY <3>2 DEF ChildEnds
      <4> QED BY <2>2, <3>2, <4>1 DEF Agrees, ChildRow
    <3> QED BY <2>2, <2>3, <3>1, <3>2, ChildTyped
  <2>5. g[k] = slices[k].filled
    BY <2>1 DEF Fills
  <2> QED BY <2>1, <2>4, <2>5
<1>7. Steps(g) = Target
  BY <1>1, Readings
<1> HIDE DEF h, g, n
<1>8. Steps(h) = Steps(g)
  BY <1>2, <1>3, <1>4, <1>5, <1>6, SumPadded
<1> QED BY <1>7, <1>8

LEMMA BooksEven == ASSUME NEW w, Books(w), "reject" \notin Env PROVE BooksBalance
  BY DEF Books, Parent, BooksBalance

(* From the start and over every step the books are kept.                   *)
Bookkept == \E w : Workers = {w} /\ Books(w)

LEMMA BookInit == ASSUME Sober PROVE Init => Bookkept
  BY BooksInit DEF Sober, Bookkept

LEMMA BookStep == ASSUME Sober PROVE Bookkept /\ [Next]_vars => Bookkept'
<1> SUFFICES ASSUME Bookkept, [Next]_vars PROVE Bookkept'
  OBVIOUS
<1>1. PICK w : Workers = {w} /\ Books(w)
  BY DEF Bookkept
<1>2. Books(w)'
  BY <1>1, BooksStep DEF Sober
<1> QED BY <1>1, <1>2 DEF Bookkept

(* Every row, lease and child has its type while calls take turns.          *)
THEOREM TwapTyped == ASSUME Sober PROVE Spec => []TypeOK
<1>1. Init => Bookkept
  BY BookInit
<1>2. Bookkept /\ [Next]_vars => Bookkept'
  BY BookStep
<1>3. Bookkept => TypeOK
  BY BooksTyped DEF Sober, Bookkept
<1> QED BY <1>1, <1>2, <1>3, PTL DEF Spec

(* What the children have traded and may still trade never exceeds the      *)
(* quantity of the parent, whatever cancels, polls and replans answer.      *)
THEOREM NeverOverExposed == ASSUME Sober PROVE Spec => []NoOverExposure
<1>1. Init => Bookkept
  BY BookInit
<1>2. Bookkept /\ [Next]_vars => Bookkept'
  BY BookStep
<1>3. Bookkept => NoOverExposure
  BY ExposureBooked DEF Bookkept
<1> QED BY <1>1, <1>2, <1>3, PTL DEF Spec

(* A live slice blocks the next: at most one child may trade.               *)
THEOREM OneChildTrades == ASSUME Sober PROVE Spec => []OneChild
<1>1. Init => Bookkept
  BY BookInit
<1>2. Bookkept /\ [Next]_vars => Bookkept'
  BY BookStep
<1>3. Bookkept => OneChild
  BY BooksOne DEF Bookkept
<1> QED BY <1>1, <1>2, <1>3, PTL DEF Spec

(* A parent that ended has no child that may still trade: neither a cancel  *)
(* that is not confirmed nor the deadline ends it over a live order.        *)
THEOREM EndedLeavesNone == ASSUME Sober PROVE Spec => []TerminalChildrenDead
<1>1. Init => Bookkept
  BY BookInit
<1>2. Bookkept /\ [Next]_vars => Bookkept'
  BY BookStep
<1>3. Bookkept => TerminalChildrenDead
  BY BooksDead DEF Bookkept
<1> QED BY <1>1, <1>2, <1>3, PTL DEF Spec

(* COMPLETED is only written when the children traded the whole target.     *)
THEOREM CompletedTraded == ASSUME Sober PROVE Spec => []CompletedMeansTraded
<1>1. Init => Bookkept
  BY BookInit
<1>2. Bookkept /\ [Next]_vars => Bookkept'
  BY BookStep
<1>3. Bookkept => CompletedMeansTraded
  BY BooksTraded DEF Bookkept
<1> QED BY <1>1, <1>2, <1>3, PTL DEF Spec

(* The scheduler's own check of its books never fires when no child is      *)
(* rejected: partial fills, replans, unclear cancels and pauses keep every  *)
(* part of the target in the rows or unscheduled.                           *)
THEOREM BooksNeverBroken == ASSUME Sober, "reject" \notin Env PROVE Spec => []BooksBalance
<1>1. Init => Bookkept
  BY BookInit
<1>2. Bookkept /\ [Next]_vars => Bookkept'
  BY BookStep
<1>3. Bookkept => BooksBalance
  BY BooksEven DEF Bookkept
<1> QED BY <1>1, <1>2, <1>3, PTL DEF Spec
=============================================================================
