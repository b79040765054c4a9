---------------------- MODULE ExecutionWorkflowSingle ----------------------
(***************************************************************************)
(* Proofs about a workflow worked by one caller that is not interrupted    *)
(* and reads what is there: the orders it has at the venue never add up to *)
(* more than the target, the market order goes out last, and no order that *)
(* may still trade is lost from sight.  At any time at most one order, the *)
(* one in work, can trade or has fills that are not recorded; everything   *)
(* else is counted, and what was sent is what was left of the target.      *)
(***************************************************************************)
EXTENDS ExecutionWorkflowProof

(* The one caller; it is not interrupted, and no read of it is lost. *)
Caller == CHOOSE p \in Pollers : TRUE
Alone == Pollers = {Caller} /\ MaxCrashes = 0 /\ "lossyReads" \notin Env

(* OrderToSend, of what a caller holds; l: its locals.  An order is out    *)
(* from the moment the venue may have taken it to the write of the row.    *)
Sent(l) == l.pc = "persist" /\ l.out \in {"ACK", "AMBIGUOUS"}

(* s: the fills recorded, v: the venue, w: the row.  An order is counted   *)
(* when it cannot trade and its fills are recorded.                        *)
CanTrade(v, o) == v[o].st \in {"wire", "live"}
Counted(s, v, o) == ~CanTrade(v, o) /\ FillsOf(o, v[o].filled) \subseteq s
Settled(s, v) == \A o \in Orders : Counted(s, v, o)

(* c is the only order that is not counted, and it was sent for what the   *)
(* others had left of the target, up to dust.                              *)
Covered(s, v, c) ==
  /\ c \in Orders
  /\ \A o \in Orders \ {c} : Counted(s, v, o)
  /\ Total(Others(s, c)) + v[c].qty <= Target
  /\ v[c].st # "none" => Total(Others(s, c)) + v[c].qty > Target - Step
  /\ c # F => v[F].st = "none"

(* The order in work. *)
InWork(l, w) == IF Sent(l) THEN NextOrder(l)
                ELSE IF w.state = "FALLBACK_SUBMITTED" THEN F ELSE w.client

(* The attempts the row has not got to are unknown to the venue. *)
Ahead(l, w, v) ==
  w.state \notin Terminal \cup {"FALLBACK_SUBMITTED"} =>
    \A o \in Limits :
      o > w.attempt \/ w.state \in {"ABSENT", "NEW"} =>
        v[o].st = "none" \/ (Sent(l) /\ o = NextOrder(l))

(* When every order is counted: nothing was sent yet, the last one was     *)
(* rejected, or its fills have been read after it was dead.                *)
Clear(l, w) ==
  \/ w.state \in {"ABSENT", "NEW", "REJECTED"} /\ ~Sent(l)
  \/ l.pc \in {"quote", "send"}
  \/ l.pc = "persist" /\ ~Sent(l)
  \/ l.pc = "decide" /\ w.state = "CANCELLED"

(* What a caller is about to send is the remainder, out of a row that      *)
(* admits it.                                                              *)
Sending(l, w, s) ==
  /\ l.pc \in {"quote", "send", "persist"} => w.state \in {"NEW", "CANCELLED", "REJECTED"}
  /\ l.pc = "quote" => w.state # "NEW"
  /\ l.pc \in {"send", "persist"} =>
       /\ l.kind = "first" <=> w.state = "NEW"
       /\ l.kind = "fallback" => w.state = "CANCELLED"
       /\ l.kind # "none"
       /\ l.qty <= Target - Total(s) /\ l.qty > Target - Total(s) - Step
  /\ l.pc = "persist" => l.out \in {"ACK", "AMBIGUOUS", "MAKER", "REJECT"}

(* What a caller was told about its order is true and stays so. *)
Told(l, w, v) ==
  /\ l.pc = "resolve" => l.view = "?" /\ l.got = -1
  /\ l.pc \in {"cancel", "confirm", "confirmed", "retry", "retried"} =>
       w.state = "CANCEL_PENDING"
  /\ l.pc = "persist" /\ l.out = "ACK" => l.got >= 0 /\ l.got <= v[NextOrder(l)].filled
  /\ l.pc = "confirm" => l.got >= 0 /\ l.got <= v[w.client].filled
  /\ l.pc \in {"resolve", "read", "decide"} =>
       w.state \in Live \cup {"CANCEL_PENDING", "CANCELLED", "FALLBACK_SUBMITTED"}
  /\ l.pc = "read" => l.got <= v[OrderOf(w)].filled
  /\ l.pc = "read" /\ l.got # -1 /\ w.state = "CANCELLED" => l.got = v[w.client].filled
  /\ l.pc \in {"read", "decide"} =>
       /\ l.view = "FILLED" => v[OrderOf(w)].st = "filled"
       /\ l.view = "CANCELED" => v[OrderOf(w)].st = "canceled"
       /\ l.view = "REJECTED" => v[OrderOf(w)].st = "rejected"

(* What is true of a workflow that is over. *)
Quiet(v) == \A o \in Orders : ~CanTrade(v, o)
Concluded(w, v) ==
  /\ w.state = "DONE" => Total(VenueTraded(v)) > Target - Step
  /\ w.state = "DONE" /\ Step = 1 => Quiet(v)
  /\ w.state = "FAILED" /\ w.reason \notin {"CANCEL_UNRESOLVED", "CANCEL_UNSUPPORTED"} =>
       Quiet(v)

(* The caller's copy is the row. *)
Current(l, w) == l.pc \notin {"idle", "load"} => l.rec = w /\ w.state \notin Terminal

Sound(l, w, s, v) ==
  /\ Current(l, w)
  /\ VenueSound(v) /\ SeenTrue(s, v)
  /\ \E c \in Orders : Covered(s, v, c) /\ (w.state \notin Terminal => c = InWork(l, w))
  /\ Ahead(l, w, v)
  /\ Clear(l, w) => Settled(s, v)
  /\ Sending(l, w, s)
  /\ Told(l, w, v)
  /\ Concluded(w, v)

SInv == Sound(proc[Caller], wf, seen, venue)

(* What the invariant of any number of pollers says of one. *)
Typed(l, w, s, v) ==
  l \in Locals /\ RowOK(w) /\ s \in SUBSET Fills /\ VenueOK(v) /\ CancelOK(w, v)

USE QuantityAssumption, PolicyAssumption, EnvAssumption

-----------------------------------------------------------------------------
(* What the order in work and the fills recorded add up to.                *)

(* What is recorded is what others brought, and fills the venue made of c. *)
LEMMA SeenSplit ==
  ASSUME NEW s \in SUBSET Fills, NEW v, VenueOK(v), SeenTrue(s, v), NEW c \in Orders
  PROVE  Total(s) <= Total(Others(s, c)) + v[c].filled
<1>1. v[c].filled \in 0 .. Target
  BY VenueTypes
<1>2. s \subseteq Others(s, c) \cup FillsOf(c, v[c].filled)
  <2> SUFFICES ASSUME NEW f \in s, f[1] = c PROVE f \in FillsOf(c, v[c].filled)
    BY DEF Others
  <2>1. f[2] <= v[c].filled
    BY DEF SeenTrue
  <2> QED BY <1>1, <2>1, FillsOfMember
<1>3. Total(Others(s, c) \cup FillsOf(c, v[c].filled)) = Total(Others(s, c)) + v[c].filled
      /\ Others(s, c) \cup FillsOf(c, v[c].filled) \in SUBSET Fills
  BY <1>1, TotalWith
<1>4. Total(s) <= Total(Others(s, c) \cup FillsOf(c, v[c].filled))
  BY <1>2, <1>3, TotalMono
<1> QED BY <1>3, <1>4

(* No more is ever recorded than the target. *)
LEMMA Within ==
  ASSUME NEW s \in SUBSET Fills, NEW v, VenueOK(v), VenueSound(v), SeenTrue(s, v),
         NEW c, Covered(s, v, c)
  PROVE  Total(s) <= Target
<1>1. c \in Orders /\ v[c].filled <= v[c].qty /\ Total(Others(s, c)) + v[c].qty <= Target
  BY DEF Covered, VenueSound
<1>2. Total(Others(s, c)) \in Nat /\ Total(s) \in Nat
  BY <1>1, TotalMono, TotalWith, VenueTypes DEF Others
<1> QED BY <1>1, <1>2, SeenSplit, VenueTypes

(* Once the target is recorded, nothing is left that could trade. *)
LEMMA FullQuiet ==
  ASSUME NEW s \in SUBSET Fills, NEW v, VenueOK(v), SeenTrue(s, v),
         NEW c, Covered(s, v, c), Total(s) >= Target
  PROVE  Quiet(v)
<1>1. c \in Orders /\ Total(Others(s, c)) + v[c].qty <= Target
      /\ \A o \in Orders \ {c} : ~CanTrade(v, o)
  BY DEF Covered, Counted
<1>2. Total(Others(s, c)) \in Nat /\ Total(s) \in Nat
  BY TotalMono DEF Others
<1>3. v[c].filled \in Nat /\ v[c].qty \in Nat
  BY <1>1, VenueTypes
<1>4. v[c].filled >= v[c].qty
  BY <1>1, <1>2, <1>3, SeenSplit
<1>5. ~CanTrade(v, c)
  BY <1>1, <1>3, <1>4 DEF CanTrade, VenueOK
<1> QED BY <1>1, <1>5 DEF Quiet

(* So it has when the order in work is filled, whatever is recorded. *)
LEMMA FilledTraded ==
  ASSUME NEW s \in SUBSET Fills, NEW v, VenueOK(v), VenueSound(v), SeenTrue(s, v),
         NEW c, Covered(s, v, c), v[c].st = "filled"
  PROVE  Total(VenueTraded(v)) > Target - Step /\ Quiet(v)
<1>1. /\ c \in Orders /\ Total(Others(s, c)) + v[c].qty > Target - Step
      /\ v[c].filled = v[c].qty /\ \A o \in Orders \ {c} : ~CanTrade(v, o)
  BY DEF Covered, VenueSound, Counted
<1>2. v[c].filled \in 0 .. Target
  BY <1>1, VenueTypes
<1>3. Others(s, c) \cup FillsOf(c, v[c].filled) \subseteq VenueTraded(v)
      /\ VenueTraded(v) \in SUBSET Fills
  BY <1>1, SeenTraded DEF Others
<1>4. Total(Others(s, c)) + v[c].filled <= Total(VenueTraded(v))
  <2>1. Total(Others(s, c) \cup FillsOf(c, v[c].filled)) = Total(Others(s, c)) + v[c].filled
    BY <1>1, <1>2, TotalWith
  <2> QED BY <1>3, <2>1, TotalMono
<1>5. Total(Others(s, c)) \in Nat /\ Total(VenueTraded(v)) \in Nat
  BY <1>3, TotalType DEF Others
<1> QED BY <1>1, <1>2, <1>4, <1>5 DEF Quiet, CanTrade

(* Recording fills the venue made of the order in work. *)
LEMMA Recording ==
  ASSUME NEW s \in SUBSET Fills, NEW v, VenueOK(v), VenueSound(v), SeenTrue(s, v),
         NEW c, Covered(s, v, c), NEW n \in Int, n <= v[c].filled
  PROVE  LET t == s \cup FillsOf(c, n) IN
         /\ t \in SUBSET Fills /\ SeenTrue(t, v) /\ Covered(t, v, c) /\ Total(t) <= Target
<1> DEFINE t == s \cup FillsOf(c, n)
<1>1. c \in Orders /\ v[c].filled \in 0 .. Target
  BY VenueTypes DEF Covered
<1>2. FillsOf(c, n) \subseteq Fills /\ \A f \in FillsOf(c, n) : f[1] = c /\ f[2] <= v[c].filled
  <2>1. CASE n \in 0 .. Target
    BY <1>1, <2>1, FillsOfMember
  <2>2. CASE n < 0
    <3>1. 1 .. n = {}
      BY <2>2
    <3> QED BY <3>1 DEF FillsOf
  <2> QED BY <1>1, <2>1, <2>2
<1>3. t \in SUBSET Fills /\ SeenTrue(t, v)
  BY <1>2 DEF SeenTrue
<1>4. Others(t, c) = Others(s, c)
  BY <1>2 DEF Others
<1>5. Covered(t, v, c)
  BY <1>4 DEF Covered, Counted
<1> QED BY <1>3, <1>5, Within

-----------------------------------------------------------------------------
(* What one step has to establish.                                         *)

(* The caller goes on, nothing else changes. *)
LEMMA TurnSound ==
  ASSUME NEW l, NEW m, NEW w, NEW s, NEW v, Sound(l, w, s, v), ~Sent(l), ~Sent(m),
         Current(m, w), Clear(m, w) => Settled(s, v), Sending(m, w, s), Told(m, w, v)
  PROVE  Sound(m, w, s, v)
  BY DEF Sound, InWork, Ahead

(* The caller returns. *)
LEMMA EndSound ==
  ASSUME NEW l, NEW m, NEW w, NEW s, NEW v, Sound(l, w, s, v), ~Sent(l),
         m.pc \in {"idle", "load"}
  PROVE  Sound(m, w, s, v)
<1>1. ~Sent(m) /\ Current(m, w) /\ Sending(m, w, s) /\ Told(m, w, v)
  BY DEF Sent, Current, Sending, Told
<1>2. Clear(m, w) => Settled(s, v)
  BY DEF Clear, Sound
<1> QED BY <1>1, <1>2, TurnSound

(* The row moves along an edge, with the same order in work. *)
LEMMA RowSound ==
  ASSUME NEW l, NEW m, NEW w, NEW n, NEW s, NEW v, Sound(l, w, s, v), ~Sent(l), ~Sent(m),
         w.state \notin Terminal, CanTransition(w.state, n.state),
         n.client = w.client, \A o \in Limits : o > n.attempt => o > w.attempt,
         n.state = "FALLBACK_SUBMITTED" => w.state = "FALLBACK_SUBMITTED",
         Current(m, n), Clear(m, n) => Settled(s, v), Sending(m, n, s), Told(m, n, v),
         Concluded(n, v)
  PROVE  Sound(m, n, s, v)
<1>1. /\ n.state \notin Terminal /\ w.state = "FALLBACK_SUBMITTED" => n.state = "FALLBACK_SUBMITTED"
      /\ n.state \in {"ABSENT", "NEW"} => w.state = n.state
  BY DEF CanTransition, ALLOWED_TRANSITIONS, Terminal
<1>2. \E c \in Orders : Covered(s, v, c) /\ (n.state \notin Terminal => c = InWork(m, n))
  BY <1>1 DEF Sound, InWork
<1>3. Ahead(m, n, v)
  BY <1>1 DEF Sound, Ahead
<1> QED BY <1>2, <1>3 DEF Sound

(* The caller writes the row and returns. *)
LEMMA RowEnds ==
  ASSUME NEW l, NEW m, NEW w, NEW n, NEW s, NEW v, Sound(l, w, s, v), ~Sent(l),
         w.state \notin Terminal, CanTransition(w.state, n.state),
         n.client = w.client, n.attempt = w.attempt,
         n.state = "FALLBACK_SUBMITTED" => w.state = "FALLBACK_SUBMITTED",
         m.pc \in {"idle", "load"},
         n.state = "REJECTED" => Settled(s, v),
         Concluded(n, v)
  PROVE  Sound(m, n, s, v)
<1>1. ~Sent(m) /\ Current(m, n) /\ Sending(m, n, s) /\ Told(m, n, v)
  BY DEF Sent, Current, Sending, Told
<1>2. n.state \in {"ABSENT", "NEW"} => w.state = n.state
  BY DEF CanTransition, ALLOWED_TRANSITIONS
<1>3. Clear(m, n) => Settled(s, v)
  BY <1>2 DEF Clear, Sound
<1> QED BY <1>1, <1>3, RowSound

(* Fills of the order in work are recorded. *)
LEMMA FillsSound ==
  ASSUME NEW l, NEW w, NEW s, NEW v, Typed(l, w, s, v), Sound(l, w, s, v),
         ~Sent(l), l.pc \notin {"quote", "send", "persist"}, w.state \notin Terminal,
         NEW n \in Int, n <= v[InWork(l, w)].filled
  PROVE  LET t == s \cup FillsOf(InWork(l, w), n) IN Typed(l, w, t, v) /\ Sound(l, w, t, v)
<1> DEFINE c == InWork(l, w)
           t == s \cup FillsOf(c, n)
<1>1. Covered(s, v, c) /\ VenueOK(v) /\ VenueSound(v) /\ SeenTrue(s, v) /\ s \in SUBSET Fills
  BY DEF Sound, Typed
<1> HIDE DEF c
<1>2. t \in SUBSET Fills /\ SeenTrue(t, v) /\ Covered(t, v, c) /\ c \in Orders
  BY <1>1, Recording DEF c, Covered
<1>3. Settled(s, v) => Settled(t, v)
  BY DEF Settled, Counted
<1>4. Sending(l, w, t)
  BY DEF Sound, Sending
<1>5. Sound(l, w, t, v)
  BY <1>2, <1>3, <1>4 DEF Sound, c
<1> QED BY <1>2, <1>5 DEF Typed, c

(* An order that can trade is the one in work.                             *)
LEMMA TraderInWork ==
  ASSUME NEW s, NEW v, NEW c, Covered(s, v, c), NEW o \in Orders, CanTrade(v, o)
  PROVE  o = c
  BY DEF Covered, Counted

(* Such an order trades, arrives, is dropped, cancelled or rejected.       *)
LEMMA VenueMoves ==
  ASSUME NEW l, NEW w, NEW s, NEW v, Typed(l, w, s, v), Sound(l, w, s, v),
         NEW o \in Orders, CanTrade(v, o), NEW x \in VenueOrders,
         x.filled >= v[o].filled, x.filled <= x.qty,
         x.st = "filled" => x.filled = x.qty,
         x.st \in {"wire", "rejected"} => x.filled = 0,
         \/ x.st # "none" /\ x.qty = v[o].qty
         \/ x.st = "none" /\ x.qty = 0
  PROVE  Sound(l, w, s, [v EXCEPT ![o] = x])
<1> DEFINE u == [v EXCEPT ![o] = x]
<1>1. u[o] = x /\ \A a \in Orders : a # o => u[a] = v[a]
  BY DEF Typed, VenueOK
<1>2. VenueOK(v) /\ s \in SUBSET Fills /\ w \in Rows /\ l.rec \in Rows /\ l \in Locals
  BY DEF Typed, RowOK, Locals
<1> HIDE DEF u
<1>3. \A a \in Orders : u[a].filled >= v[a].filled
  BY <1>1, <1>2, VenueTypes
<1>4. VenueSound(u)
  BY <1>1 DEF Sound, VenueSound
<1>5. SeenTrue(s, u)
  <2> SUFFICES ASSUME NEW f \in s PROVE f[2] <= u[f[1]].filled
    BY DEF SeenTrue
  <2>1. f[1] \in Orders /\ f[2] \in Int /\ f[2] <= v[f[1]].filled
    BY <1>2, FillPairs DEF Sound, SeenTrue
  <2>2. v[f[1]].filled \in Int /\ u[f[1]].filled \in Int
    BY <1>1, <1>2, <2>1, VenueTypes DEF VenueOrders
  <2> QED BY <1>3, <2>1, <2>2
<1>6. ASSUME NEW c \in Orders, Covered(s, v, c) PROVE Covered(s, u, c) /\ c = o
  <2>1. c = o
    BY <1>6, TraderInWork
  <2>2. \A a \in Orders \ {c} : Counted(s, u, a)
    BY <1>1, <1>6, <2>1 DEF Covered, Counted, CanTrade
  <2>3. Total(Others(s, c)) \in Nat /\ x.qty \in Nat /\ v[o].qty \in Nat
    BY <1>2, VenueTypes, TotalType DEF Others, VenueOrders
  <2>4. Total(Others(s, c)) + x.qty <= Target
    BY <1>2, <1>6, <2>1, <2>3, VenueTypes DEF Covered
  <2>5. v[o].st # "none"
    BY DEF CanTrade
  <2>6. x.st # "none" => Total(Others(s, c)) + x.qty > Target - Step
    BY <1>6, <2>1, <2>5 DEF Covered
  <2>7. c # F => u[F].st = "none"
    BY <1>1, <1>6, <2>1 DEF Covered, Orders
  <2> QED BY <1>1, <2>1, <2>2, <2>4, <2>6, <2>7 DEF Covered
<1>7. \E c \in Orders : Covered(s, u, c) /\ (w.state \notin Terminal => c = InWork(l, w))
  BY <1>6 DEF Sound
<1>8. Ahead(l, w, u)
  <2> SUFFICES ASSUME NEW a \in Limits, v[a].st = "none" PROVE u[a].st = "none"
    BY DEF Sound, Ahead
  <2> QED BY <1>1 DEF CanTrade, Orders
<1>9. ~Clear(l, w)
  BY DEF Sound, Settled, Counted
<1>10. ASSUME w.state = "CANCELLED" PROVE w.client # o
  BY <1>10 DEF Typed, CancelOK, IsDead, CanTrade
<1>11. w.client \in Orders /\ OrderOf(w) \in Orders
  BY <1>2, OrderOfType
<1>12. Told(l, w, u)
  <2>1. ASSUME l.pc = "persist" /\ l.out = "ACK" PROVE l.got <= u[NextOrder(l)].filled
    <3>1. InWork(l, w) \in Orders /\ InWork(l, w) = NextOrder(l)
      <4>1. w.state \notin Terminal
        BY <2>1 DEF Sound, Current
      <4> QED BY <2>1, <4>1 DEF Sound, InWork, Sent, Covered
    <3>2. l.got \in Int /\ l.got <= v[NextOrder(l)].filled
      BY <1>2, <2>1 DEF Sound, Told, Locals
    <3> QED BY <1>1, <1>2, <1>3, <3>1, <3>2, VenueTypes DEF VenueOrders
  <2>2. ASSUME l.pc = "confirm" PROVE l.got <= u[w.client].filled
    <3>1. l.got \in Int /\ l.got <= v[w.client].filled
      BY <1>2, <2>2 DEF Sound, Told, Locals
    <3> QED BY <1>1, <1>2, <1>3, <1>11, <3>1, VenueTypes DEF VenueOrders
  <2>3. ASSUME l.pc = "read" PROVE l.got <= u[OrderOf(w)].filled
    <3>1. l.got \in Int /\ l.got <= v[OrderOf(w)].filled
      BY <1>2, <2>3 DEF Sound, Told, Locals
    <3> QED BY <1>1, <1>2, <1>3, <1>11, <3>1, VenueTypes DEF VenueOrders
  <2>4. ASSUME l.pc = "read", l.got # -1, w.state = "CANCELLED" PROVE l.got = u[w.client].filled
    BY <1>1, <1>10, <1>11, <2>4 DEF Sound, Told
  <2>5. ASSUME NEW k \in {"filled", "canceled", "rejected"}, v[OrderOf(w)].st = k
        PROVE  u[OrderOf(w)].st = k
    BY <1>1, <1>11, <2>5 DEF CanTrade
  <2> QED BY <2>1, <2>2, <2>3, <2>4, <2>5 DEF Sound, Told
<1>13. Concluded(w, u)
  <2>1. ~Quiet(v)
    BY DEF Quiet
  <2>2. ASSUME w.state = "DONE" PROVE Total(VenueTraded(u)) > Target - Step
    <3>1. \A a \in Orders : u[a].filled \in 0 .. Target
      BY <1>1, <1>2, VenueTypes DEF VenueOrders
    <3>2. \A a \in Orders : FillsOf(a, v[a].filled) \subseteq FillsOf(a, u[a].filled)
      <4> SUFFICES ASSUME NEW a \in Orders, NEW f \in FillsOf(a, v[a].filled)
                   PROVE  f \in FillsOf(a, u[a].filled)
        OBVIOUS
      <4>1. v[a].filled \in 0 .. Target /\ u[a].filled \in 0 .. Target
        BY <1>2, <3>1, VenueTypes
      <4>2. f \in Fills /\ f[1] = a /\ f[2] \in 1 .. v[a].filled
        BY <4>1, FillsOfMember
      <4>3. f[2] <= u[a].filled
        BY <1>3, <4>1, <4>2
      <4> QED BY <4>1, <4>2, <4>3, FillsOfMember
    <3>3. VenueTraded(v) \subseteq VenueTraded(u) /\ VenueTraded(u) \in SUBSET Fills
      BY <3>1, <3>2, FillsOfMember DEF VenueTraded
    <3>4. Total(VenueTraded(v)) > Target - Step
      BY <2>2 DEF Sound, Concluded
    <3> QED BY <3>3, <3>4, TotalMono
  <2> QED BY <2>1, <2>2 DEF Sound, Concluded
<1>14. Current(l, w) /\ Sending(l, w, s)
  BY DEF Sound
<1> QED BY <1>4, <1>5, <1>7, <1>8, <1>9, <1>12, <1>13, <1>14 DEF Sound, u

-----------------------------------------------------------------------------
(* Steps shared by the handlers.                                           *)

Working == IInv /\ SInv /\ Alone

(* The caller under way: its copy is the row, which is open. *)
LEMMA TheCaller ==
  ASSUME Working, NEW p \in Pollers
  PROVE  /\ p = Caller /\ proc[p] \in Locals
         /\ Sound(proc[p], wf, seen, venue) /\ Typed(proc[p], wf, seen, venue)
         /\ proc[p].pc \notin {"idle", "load"} => proc[p].rec = wf /\ wf.state \notin Terminal
<1>1. p = Caller
  BY DEF Working, Alone
<1>2. Sound(proc[p], wf, seen, venue)
  BY <1>1 DEF Working, SInv
<1>3. Typed(proc[p], wf, seen, venue)
  BY DEF Working, IInv, Typed
<1> QED BY <1>1, <1>2, <1>3 DEF Sound, Current, Typed

LEMMA Reaches ==
  ASSUME Working, NEW p \in Pollers, NEW m, Goto(p, m), Sound(m, wf', seen', venue')
  PROVE  SInv'
<1>1. proc'[Caller] = m
  BY TheCaller DEF Goto, Working, IInv
<1> QED BY <1>1 DEF SInv

LEMMA LocalReaches ==
  ASSUME Working, NEW p \in Pollers, NEW m, Local(p, m), Sound(m, wf, seen, venue)
  PROVE  SInv'
<1>1. Goto(p, m) /\ UNCHANGED <<wf, seen, venue>>
  BY DEF Local
<1>2. Sound(m, wf', seen', venue')
  BY <1>1
<1> QED BY <1>1, <1>2, Reaches

LEMMA Returns ==
  ASSUME Working, NEW p \in Pollers, Local(p, Ended(p)), ~Sent(proc[p])
  PROVE  SInv'
<1>1. Ended(p).pc \in {"idle", "load"}
  BY EndedOK DEF Working
<1>2. Sound(Ended(p), wf, seen, venue)
  BY <1>1, TheCaller, EndSound
<1> QED BY <1>2, LocalReaches

(* The caller turns to another point of the handler. *)
LEMMA Turns ==
  ASSUME Working, NEW p \in Pollers, NEW m, Local(p, m), ~Sent(proc[p]), ~Sent(m),
         proc[p].pc \notin {"idle", "load"}, m.rec = proc[p].rec,
         Clear(m, wf) => Settled(seen, venue), Sending(m, wf, seen), Told(m, wf, venue)
  PROVE  SInv'
<1>1. Current(m, wf)
  BY TheCaller DEF Current
<1>2. Sound(m, wf, seen, venue)
  BY <1>1, TheCaller, TurnSound
<1> QED BY <1>2, LocalReaches

(* A write of the store: it fails only where nothing is lost by it.        *)
LEMMA Writes ==
  ASSUME Working, NEW p \in Pollers, NEW new, NEW fills, NEW m,
         Mutate(p, new, fills, m), proc[p].pc \notin {"idle", "load"},
         Sent(proc[p]) => CanTransition(wf.state, new.state) /\ Total(fills) <= Target,
         CanTransition(wf.state, new.state) /\ Total(fills) <= Target =>
           LET saved == [new EXCEPT !.version = wf.version + 1] IN
           Sound(IF m.pc \in {"idle", "load"} THEN m ELSE [m EXCEPT !.rec = saved],
                 saved, fills, venue)
  PROVE  SInv'
<1> DEFINE saved == [new EXCEPT !.version = wf.version + 1]
           next == IF m.pc \in {"idle", "load"} THEN m ELSE [m EXCEPT !.rec = saved]
<1>1. proc[p].rec.version = wf.version
  BY TheCaller
<1>2. CASE CanTransition(wf.state, new.state) /\ Total(fills) <= Target
  <2>1. wf' = saved /\ seen' = fills /\ Goto(p, next) /\ UNCHANGED venue
    BY <1>1, <1>2 DEF Mutate
  <2>2. Sound(next, saved, fills, venue)
    BY <1>2
  <2> HIDE DEF next, saved
  <2>3. Sound(next, wf', seen', venue')
    BY <2>1, <2>2
  <2> QED BY <2>1, <2>3, Reaches
<1>3. CASE ~(CanTransition(wf.state, new.state) /\ Total(fills) <= Target)
  <2>1. Local(p, Idle) /\ ~Sent(proc[p])
    BY <1>3 DEF Mutate, Local
  <2>2. Sound(Idle, wf, seen, venue)
    BY <2>1, TheCaller, EndSound DEF Idle
  <2> QED BY <2>1, <2>2, LocalReaches
<1> QED BY <1>2, <1>3

(* What a row becomes when it is saved. *)
LEMMA SavedRow ==
  ASSUME Working, NEW new \in Rows
  PROVE  LET saved == [new EXCEPT !.version = wf.version + 1] IN
         /\ saved \in Rows /\ saved.state = new.state /\ saved.client = new.client
         /\ saved.attempt = new.attempt /\ saved.reason = new.reason
<1>1. wf.version + 1 \in Nat
  BY DEF Working, IInv, RowOK, Rows
<1> QED BY <1>1 DEF Rows

(* A write after which the caller returns. *)
LEMMA WritesLast ==
  ASSUME Working, NEW p \in Pollers, NEW new \in Rows, NEW m, m.pc \in {"idle", "load"},
         Transition(p, new, m),
         proc[p].pc \notin {"idle", "load"}, ~Sent(proc[p]),
         new.client = wf.client, new.attempt = wf.attempt,
         new.state = "FALLBACK_SUBMITTED" => wf.state = "FALLBACK_SUBMITTED",
         new.state = "REJECTED" => Settled(seen, venue),
         Concluded(new, venue)
  PROVE  SInv'
<1> DEFINE saved == [new EXCEPT !.version = wf.version + 1]
<1>1. saved.state = new.state /\ saved.client = wf.client /\ saved.attempt = wf.attempt
      /\ saved.reason = new.reason
  BY SavedRow
<1> HIDE DEF saved
<1>2. Concluded(saved, venue)
  BY <1>1 DEF Concluded
<1>3. wf.state \notin Terminal /\ Sound(proc[p], wf, seen, venue)
  BY TheCaller
<1>4. CanTransition(wf.state, new.state) => Sound(m, saved, seen, venue)
  BY <1>1, <1>2, <1>3, RowEnds
<1>5. Mutate(p, new, seen, m)
  BY DEF Transition
<1> QED BY <1>4, <1>5, Writes DEF saved

LEMMA WritesAndReturns ==
  ASSUME Working, NEW p \in Pollers, NEW new \in Rows, Transition(p, new, Ended(p)),
         proc[p].pc \notin {"idle", "load"}, ~Sent(proc[p]),
         new.client = wf.client, new.attempt = wf.attempt,
         new.state = "FALLBACK_SUBMITTED" => wf.state = "FALLBACK_SUBMITTED",
         new.state = "REJECTED" => Settled(seen, venue),
         Concluded(new, venue)
  PROVE  SInv'
<1>1. Ended(p).pc \in {"idle", "load"}
  BY EndedOK DEF Working
<1> QED BY <1>1, WritesLast

(* A write after which the caller goes on. *)
LEMMA WritesAndGoesOn ==
  ASSUME Working, NEW p \in Pollers, NEW new \in Rows, NEW m \in Locals, m.pc \notin {"idle", "load"},
         Transition(p, new, m), proc[p].pc \notin {"idle", "load"}, ~Sent(proc[p]), ~Sent(m),
         new.client = wf.client, new.state \notin Terminal,
         \A o \in Limits : o > new.attempt => o > wf.attempt,
         new.state = "FALLBACK_SUBMITTED" => wf.state = "FALLBACK_SUBMITTED",
         Clear(m, new) => Settled(seen, venue), Sending(m, new, seen), Told(m, new, venue)
  PROVE  SInv'
<1> DEFINE saved == [new EXCEPT !.version = wf.version + 1]
           next == [m EXCEPT !.rec = saved]
<1>1. saved \in Rows /\ saved.state = new.state /\ saved.client = wf.client
      /\ saved.attempt = new.attempt
  BY SavedRow
<1> HIDE DEF saved
<1>2. /\ next.rec = saved /\ next.pc = m.pc /\ next.out = m.out /\ next.kind = m.kind
      /\ next.qty = m.qty /\ next.view = m.view /\ next.got = m.got
  BY DEF Locals
<1> HIDE DEF next
<1>3. Concluded(saved, venue) /\ Current(next, saved) /\ ~Sent(next)
  BY <1>1, <1>2 DEF Concluded, Terminal, Current, Sent
<1>4. Sending(next, saved, seen)
  BY <1>1, <1>2 DEF Sending
<1>5. OrderOf(saved) = OrderOf(new)
  BY <1>1 DEF OrderOf
<1>6. Told(next, saved, venue)
  BY <1>1, <1>2, <1>5 DEF Told, Sent
<1>7. Clear(next, saved) => Settled(seen, venue)
  BY <1>1, <1>2 DEF Clear, Sent
<1>8. \A o \in Limits : o > saved.attempt => o > wf.attempt
  BY <1>1
<1>9. wf.state \notin Terminal /\ Sound(proc[p], wf, seen, venue)
  BY TheCaller
<1>10. CanTransition(wf.state, new.state) => Sound(next, saved, seen, venue)
  BY <1>1, <1>3, <1>4, <1>6, <1>7, <1>9, <1>8, RowSound
<1>11. Mutate(p, new, seen, m)
  BY DEF Transition
<1> QED BY <1>10, <1>11, Writes DEF saved, next

(* The three endings of a handler: FAILED, DONE, CANCELLED. *)
LEMMA Fails ==
  ASSUME Working, NEW p \in Pollers, NEW why \in Reasons, Fail(p, why),
         proc[p].pc \notin {"idle", "load"}, ~Sent(proc[p]),
         why \in {"CANCEL_UNRESOLVED", "CANCEL_UNSUPPORTED"} \/ Quiet(venue)
  PROVE  SInv'
<1> DEFINE new == [proc[p].rec EXCEPT !.state = "FAILED", !.reason = why]
<1>1. proc[p].rec = wf /\ wf \in Rows
  BY TheCaller DEF Typed, RowOK
<1>2. new \in Rows /\ new.state = "FAILED" /\ new.reason = why /\ new.client = wf.client
      /\ new.attempt = wf.attempt
  BY <1>1 DEF Rows, States
<1>3. Transition(p, new, Ended(p))
  BY DEF Fail
<1> HIDE DEF new
<1>4. Concluded(new, venue)
  BY <1>2 DEF Concluded
<1> QED BY <1>2, <1>3, <1>4, WritesAndReturns

LEMMA Finishes ==
  ASSUME Working, NEW p \in Pollers, Done(p),
         proc[p].pc \notin {"idle", "load"}, ~Sent(proc[p]),
         Total(VenueTraded(venue)) > Target - Step, Step = 1 => Quiet(venue)
  PROVE  SInv'
<1> DEFINE new == [proc[p].rec EXCEPT !.state = "DONE", !.reason = "OTHER"]
<1>1. proc[p].rec = wf /\ wf \in Rows
  BY TheCaller DEF Typed, RowOK
<1>2. new \in Rows /\ new.state = "DONE" /\ new.client = wf.client /\ new.attempt = wf.attempt
  BY <1>1 DEF Rows, States, Reasons
<1>3. Transition(p, new, Ended(p))
  BY DEF Done
<1> HIDE DEF new
<1>4. Concluded(new, venue)
  BY <1>2 DEF Concluded
<1> QED BY <1>2, <1>3, <1>4, WritesAndReturns

LEMMA Cancels ==
  ASSUME Working, NEW p \in Pollers, Transition(p, Cancelled(p), Ended(p)),
         proc[p].pc \notin {"idle", "load"}, ~Sent(proc[p])
  PROVE  SInv'
<1>1. proc[p].rec = wf /\ wf \in Rows
  BY TheCaller DEF Typed, RowOK
<1>2. Cancelled(p) \in Rows /\ Cancelled(p).state = "CANCELLED"
      /\ Cancelled(p).client = wf.client /\ Cancelled(p).attempt = wf.attempt
  BY <1>1 DEF Cancelled, Rows, States, Reasons
<1>3. Concluded(Cancelled(p), venue)
  BY <1>2 DEF Concluded
<1> QED BY <1>2, <1>3, WritesAndReturns

(* Done is claimed with what the store or the venue says. *)
LEMMA FinishesFull ==
  ASSUME Working, NEW p \in Pollers, Done(p),
         proc[p].pc \notin {"idle", "load"}, ~Sent(proc[p]),
         \/ Complete(seen) \/ NoRemainder(seen)
         \/ proc[p].view = "FILLED" /\ proc[p].pc = "decide"
  PROVE  SInv'
<1>1. PICK c \in Orders : Covered(seen, venue, c) /\ c = InWork(proc[p], wf)
  BY TheCaller DEF Sound
<1>2. /\ seen \in SUBSET Fills /\ VenueOK(venue) /\ SeenTrue(seen, venue) /\ VenueSound(venue)
  BY TheCaller DEF Typed, Sound
<1>3. CASE Complete(seen) \/ NoRemainder(seen)
  <2>1. Total(VenueTraded(venue)) > Target - Step /\ (Step = 1 => Total(seen) >= Target)
    BY <1>2, <1>3, DustTraded
  <2>2. Step = 1 => Quiet(venue)
    BY <1>1, <1>2, <2>1, FullQuiet
  <2> QED BY <2>1, <2>2, Finishes
<1>4. CASE proc[p].view = "FILLED" /\ proc[p].pc = "decide"
  <2>1. venue[OrderOf(wf)].st = "filled"
    BY <1>4, TheCaller DEF Sound, Told
  <2>2. OrderOf(wf) = c
    BY <1>1, <1>4 DEF InWork, OrderOf
  <2>3. Total(VenueTraded(venue)) > Target - Step /\ Quiet(venue)
    BY <1>1, <1>2, <2>1, <2>2, FilledTraded
  <2> QED BY <2>3, Finishes
<1> QED BY <1>3, <1>4

-----------------------------------------------------------------------------
(* The steps of the caller.                                                *)

(* A caller at another point of the handler. *)
LEMMA AtFacts ==
  ASSUME Working, NEW p \in Pollers, NEW k \in PCs
  PROVE  /\ At(p, k) \in Locals /\ At(p, k).pc = k /\ At(p, k).rec = proc[p].rec
         /\ At(p, k).out = proc[p].out /\ At(p, k).kind = proc[p].kind
         /\ At(p, k).qty = proc[p].qty /\ At(p, k).view = proc[p].view
         /\ At(p, k).got = proc[p].got
  BY TheCaller DEF At, Locals

(* Places at which nothing is asked of what the caller holds. *)
LEMMA Idles ==
  ASSUME NEW m, NEW w, NEW s, NEW v, m.pc \in {"ttl", "exhaust", "abort", "idle", "load"}
  PROVE  /\ ~Sent(m) /\ Sending(m, w, s) /\ Told(m, w, v)
         /\ Clear(m, w) => w.state \in {"ABSENT", "NEW", "REJECTED"}
  BY DEF Sent, Sending, Told, Clear

(* Nothing is known to the venue before the first submit. *)
LEMMA NothingSent ==
  ASSUME Working, NEW p \in Pollers, wf.state \in {"ABSENT", "NEW"}, ~Sent(proc[p])
  PROVE  seen = {} /\ \A o \in Orders : venue[o].st = "none"
<1>1. PICK c \in Orders : Covered(seen, venue, c) /\ c = InWork(proc[p], wf)
  BY TheCaller DEF Sound, Terminal
<1>2. c \in Limits /\ c # F
  BY <1>1, TheCaller DEF InWork, Typed, RowOK, Rows, Limits, F
<1>3. venue[F].st = "none"
  BY <1>1, <1>2 DEF Covered
<1>4. \A o \in Limits : venue[o].st = "none"
  BY TheCaller DEF Sound, Ahead, Terminal
<1>5. \A o \in Orders : venue[o].st = "none"
  BY <1>3, <1>4 DEF Orders
<1>6. \A f \in seen : FALSE
  <2> SUFFICES ASSUME NEW f \in seen PROVE FALSE
    OBVIOUS
  <2>1. seen \in SUBSET Fills /\ VenueOK(venue) /\ VenueSound(venue) /\ SeenTrue(seen, venue)
    BY TheCaller DEF Typed, Sound
  <2>2. f[1] \in Orders /\ f[2] \in 1 .. Target /\ f[2] <= venue[f[1]].filled
    BY <2>1, FillPairs DEF SeenTrue
  <2>3. venue[f[1]].filled \in 0 .. Target /\ venue[f[1]].qty = 0
        /\ venue[f[1]].filled <= venue[f[1]].qty
    BY <1>5, <2>1, <2>2, VenueTypes DEF VenueSound
  <2> QED BY <2>2, <2>3
<1> QED BY <1>5, <1>6

(* start *)
LEMMA StartSingle == ASSUME Working, NEW p \in Pollers, Start(p) PROVE SInv'
<1> DEFINE row == [wf EXCEPT !.state = "NEW", !.version = 1]
           m == [Idle EXCEPT !.pc = "send", !.rec = wf', !.kind = "first", !.qty = Target]
<1>1. wf' = row /\ Goto(p, m) /\ UNCHANGED <<seen, venue>> /\ wf.state = "ABSENT"
      /\ proc[p].pc = "idle"
  BY DEF Start
<1>2. wf' \in Rows /\ wf'.state = "NEW" /\ wf'.client = wf.client /\ wf'.attempt = wf.attempt
  <2>1. wf \in Rows /\ 1 \in Nat
    BY TheCaller DEF Typed, RowOK
  <2> QED BY <1>1, <2>1, Zenon DEF Rows, States
<1>3. m.pc = "send" /\ m.rec = wf' /\ m.kind = "first" /\ m.qty = Target
  BY DEF Idle
<1> HIDE DEF m, row
<1>4. ~Sent(proc[p]) /\ ~Sent(m)
  BY <1>1, <1>3 DEF Sent
<1>5. seen = {} /\ \A o \in Orders : venue[o].st = "none"
  BY <1>1, <1>4, NothingSent
<1>6. Total(seen) = 0
  BY <1>5, FS_EmptySet DEF Total
<1>7. Sound(proc[p], wf, seen, venue)
  BY TheCaller
<1>8. Settled(seen, venue)
  BY <1>1, <1>4, <1>7 DEF Sound, Clear
<1>9. \E c \in Orders : Covered(seen, venue, c) /\ c = InWork(m, wf')
  BY <1>1, <1>2, <1>4, <1>7 DEF Sound, InWork, Terminal
<1>10. Ahead(m, wf', venue) /\ Concluded(wf', venue) /\ Current(m, wf')
  BY <1>2, <1>3, <1>5 DEF Ahead, Orders, Concluded, Current, Terminal
<1>11. Sending(m, wf', seen) /\ Told(m, wf', venue)
  BY <1>2, <1>3, <1>6 DEF Sending, Told
<1>12. Sound(m, wf', seen, venue)
  BY <1>7, <1>8, <1>9, <1>10, <1>11 DEF Sound
<1>13. Sound(m, wf', seen', venue')
  BY <1>1, <1>12
<1> QED BY <1>1, <1>13, Reaches

(* Submit gates say no. *)
LEMMA DenySingle == ASSUME Working, NEW p \in Pollers, Deny(p) PROVE SInv'
<1> DEFINE denied == [proc[p].rec EXCEPT !.state = "REJECTED", !.reprices = MaxReprices,
                                         !.reason = "OTHER"]
           m == [proc[p] EXCEPT !.kind = "fallback"]
<1>1. proc[p].pc = "send" /\ ~Sent(proc[p]) /\ proc[p].rec = wf /\ wf \in Rows
      /\ proc[p] \in Locals
  BY TheCaller DEF Deny, Sent, Typed, RowOK
<1>2. Settled(seen, venue) /\ Quiet(venue)
  BY <1>1, TheCaller DEF Sound, Clear, Settled, Counted, Quiet
<1>3. CASE Transition(p, denied, Ended(p))
  <2>1. denied \in Rows /\ denied.state = "REJECTED" /\ denied.client = wf.client
        /\ denied.attempt = wf.attempt
    <3>1. MaxReprices \in Limits /\ "REJECTED" \in States /\ "OTHER" \in Reasons
      BY DEF Limits, States, Reasons
    <3> QED BY <1>1, <3>1, Zenon DEF Rows
  <2> HIDE DEF denied
  <2>2. Concluded(denied, venue)
    BY <2>1 DEF Concluded
  <2> QED BY <1>1, <1>2, <1>3, <2>1, <2>2, WritesAndReturns
<1>4. CASE Local(p, m) /\ proc[p].rec.state = "CANCELLED"
  <2>1. m.pc = "send" /\ m.rec = proc[p].rec /\ m.kind = "fallback" /\ m.qty = proc[p].qty
    BY <1>1 DEF Locals
  <2> HIDE DEF m
  <2>2. Sending(m, wf, seen) /\ Told(m, wf, venue) /\ ~Sent(m)
    BY <1>1, <1>4, <2>1, TheCaller DEF Sound, Sending, Told, Sent
  <2> QED BY <1>1, <1>2, <1>4, <2>1, <2>2, Turns
<1>5. CASE Fail(p, "OTHER")
  BY <1>1, <1>2, <1>5, Fails DEF Reasons
<1> QED BY <1>3, <1>4, <1>5, Zenon DEF Deny

(* A final reject: the row stays rejected. *)
LEMMA ExhaustSingle == ASSUME Working, NEW p \in Pollers, Exhaust(p) PROVE SInv'
<1> DEFINE new == [proc[p].rec EXCEPT !.reprices = MaxReprices]
<1>1. proc[p].pc = "exhaust" /\ ~Sent(proc[p]) /\ proc[p].rec = wf /\ wf \in Rows
      /\ wf.state \notin Terminal
  BY TheCaller DEF Exhaust, Sent, Typed, RowOK
<1>2. new \in Rows /\ new.state = wf.state /\ new.client = wf.client
      /\ new.attempt = wf.attempt
  BY <1>1 DEF Rows, Limits
<1>3. Transition(p, new, Ended(p))
  BY DEF Exhaust
<1> HIDE DEF new
<1>4. Concluded(new, venue)
  BY <1>1, <1>2 DEF Concluded, Terminal
<1>5. wf.state = "REJECTED" => Settled(seen, venue)
  BY <1>1, TheCaller DEF Sound, Clear
<1> QED BY <1>1, <1>2, <1>3, <1>4, <1>5, WritesAndReturns

(* poll *)
LEMMA PollSingle == ASSUME Working, NEW p \in Pollers, Poll(p) PROVE SInv'
<1> DEFINE l == [Idle EXCEPT !.rec = wf, !.polls = proc[p].polls]
           quoting == [l EXCEPT !.pc = "quote", !.kind = "reprice"]
           k == IF Known(wf) THEN "read" ELSE "resolve"
           reading == [l EXCEPT !.pc = k]
<1>1. \/ Local(p, Ended(p))
      \/ Pollable(wf) /\ wf.state = "REJECTED" /\ Local(p, quoting)
      \/ Pollable(wf) /\ wf.state # "REJECTED" /\ Local(p, reading)
  BY Zenon DEF Poll
<1>2. proc[p].pc \in {"idle", "load"} /\ ~Sent(proc[p]) /\ Sound(proc[p], wf, seen, venue)
  BY TheCaller DEF Poll, Sent
<1>3. CASE Local(p, Ended(p))
  BY <1>2, <1>3, Returns
<1>4. CASE wf.state = "REJECTED" /\ Local(p, quoting)
  <2>1. quoting.pc = "quote" /\ quoting.rec = wf
    BY DEF Idle
  <2> HIDE DEF quoting
  <2>2. Settled(seen, venue)
    BY <1>2, <1>4 DEF Sound, Clear
  <2>3. ~Sent(quoting) /\ Current(quoting, wf) /\ Sending(quoting, wf, seen) /\ Told(quoting, wf, venue)
    BY <1>4, <2>1 DEF Sent, Current, Terminal, Sending, Told
  <2>4. Sound(quoting, wf, seen, venue)
    BY <1>2, <2>2, <2>3, TurnSound
  <2> QED BY <1>4, <2>4, LocalReaches
<1>5. CASE Pollable(wf) /\ wf.state # "REJECTED" /\ Local(p, reading)
  <2>1. reading.pc \in {"read", "resolve"} /\ reading.rec = wf /\ reading.view = "?"
        /\ reading.got = -1
    BY DEF Idle
  <2> HIDE DEF reading
  <2>2. wf.state \in Live \cup {"CANCEL_PENDING", "CANCELLED", "FALLBACK_SUBMITTED"}
    BY <1>5 DEF Pollable
  <2>3. OrderOf(wf) \in Orders /\ VenueOK(venue)
    BY TheCaller, OrderOfType DEF Typed, RowOK
  <2>4. -1 <= venue[OrderOf(wf)].filled
    BY <2>3, VenueTypes
  <2>5. ~Sent(reading) /\ Current(reading, wf) /\ Sending(reading, wf, seen)
        /\ Told(reading, wf, venue) /\ ~Clear(reading, wf)
    BY <2>1, <2>2, <2>4 DEF Sent, Current, Terminal, Sending, Told, Clear, Live
  <2>6. Sound(reading, wf, seen, venue)
    BY <1>2, <2>5, TurnSound
  <2> QED BY <1>5, <2>6, LocalReaches
<1> QED BY <1>1, <1>3, <1>4, <1>5

(* reconcile, first part: the order id is noted. *)
LEMMA ResolveSingle == ASSUME Working, NEW p \in Pollers, Resolve(p) PROVE SInv'
<1> DEFINE r == proc[p].rec
           found == IF OrderOf(r) = F THEN [r EXCEPT !.fb = TRUE] ELSE [r EXCEPT !.active = TRUE]
           m == At(p, "read")
<1>1. proc[p].pc = "resolve" /\ ~Sent(proc[p]) /\ r = wf /\ wf \in Rows /\ proc[p] \in Locals
      /\ wf.state \notin Terminal
  BY TheCaller DEF Resolve, Sent, Typed, RowOK
<1>2. Transition(p, found, m) \/ Local(p, Ended(p))
  BY Zenon DEF Resolve
<1>3. CASE Local(p, Ended(p))
  BY <1>1, <1>3, Returns
<1>4. CASE Transition(p, found, m)
  <2>1. found \in Rows /\ found.state = wf.state /\ found.client = wf.client
        /\ found.attempt = wf.attempt
    BY <1>1 DEF Rows
  <2>2. m \in Locals /\ m.pc = "read" /\ m.view = "?" /\ m.got = -1
    <3>1. proc[p].view = "?" /\ proc[p].got = -1
      BY <1>1, TheCaller DEF Sound, Told
    <3> QED BY <3>1, AtFacts DEF PCs
  <2> HIDE DEF found, m
  <2>3. wf.state \in Live \cup {"CANCEL_PENDING", "CANCELLED", "FALLBACK_SUBMITTED"}
    BY <1>1, TheCaller DEF Sound, Told
  <2>4. OrderOf(found) \in Orders /\ VenueOK(venue)
    BY <2>1, TheCaller, OrderOfType DEF Typed
  <2>5. -1 <= venue[OrderOf(found)].filled
    BY <2>4, VenueTypes
  <2>6. ~Sent(m) /\ Sending(m, found, seen) /\ Told(m, found, venue) /\ ~Clear(m, found)
    BY <2>1, <2>2, <2>3, <2>5 DEF Sent, Sending, Told, Clear, Live
  <2> QED BY <1>1, <1>4, <2>1, <2>2, <2>6, WritesAndGoesOn
<1> QED BY <1>2, <1>3, <1>4

(* reconcile, second part: what is read is what is there. *)
LEMMA ReadSingle ==
  ASSUME Working, NEW p \in Pollers, ReadOrder(p) \/ ReadFills(p)
  PROVE  SInv'
<1>1. proc[p].pc = "read" /\ ~Sent(proc[p]) /\ proc[p].rec = wf /\ wf \in Rows
      /\ proc[p] \in Locals /\ "lossyReads" \notin Env /\ Sound(proc[p], wf, seen, venue)
  BY TheCaller DEF ReadOrder, ReadFills, Sent, Typed, RowOK, Working, Alone
<1>2. OrderOf(wf) \in Orders /\ venue[OrderOf(wf)].filled \in 0 .. Target
  BY <1>1, TheCaller, OrderOfType, VenueTypes DEF Typed
<1>3. CASE ReadOrder(p)
  <2> DEFINE m == [proc[p] EXCEPT !.view = VenueStatus(OrderOf(wf))]
  <2>1. Local(p, m)
    BY <1>1, <1>3 DEF ReadOrder
  <2>2. m.pc = "read" /\ m.rec = wf /\ m.got = proc[p].got /\ m.view = VenueStatus(OrderOf(wf))
    BY <1>1 DEF Locals
  <2> HIDE DEF m
  <2>3. ~Sent(m) /\ ~Clear(m, wf) /\ Sending(m, wf, seen)
    BY <1>1, <2>2 DEF Sent, Clear, Sending, Sound, Told, Live
  <2>4. Told(m, wf, venue)
    <3>1. /\ m.view = "FILLED" => venue[OrderOf(wf)].st = "filled"
          /\ m.view = "CANCELED" => venue[OrderOf(wf)].st = "canceled"
          /\ m.view = "REJECTED" => venue[OrderOf(wf)].st = "rejected"
      BY <2>2 DEF VenueStatus
    <3> QED BY <1>1, <2>2, <3>1 DEF Sound, Told
  <2> QED BY <1>1, <2>1, <2>2, <2>3, <2>4, Turns
<1>4. CASE ReadFills(p)
  <2> DEFINE m == [proc[p] EXCEPT !.got = venue[OrderOf(wf)].filled]
  <2>1. Local(p, m)
    BY <1>1, <1>4 DEF ReadFills
  <2>2. m.pc = "read" /\ m.rec = wf /\ m.view = proc[p].view /\ m.got = venue[OrderOf(wf)].filled
    BY <1>1 DEF Locals
  <2> HIDE DEF m
  <2>3. ~Sent(m) /\ ~Clear(m, wf) /\ Sending(m, wf, seen)
    BY <1>1, <2>2 DEF Sent, Clear, Sending, Sound, Told, Live
  <2>4. wf.state = "CANCELLED" => OrderOf(wf) = wf.client
    BY DEF OrderOf
  <2>5. Told(m, wf, venue)
    BY <1>1, <1>2, <2>2, <2>4 DEF Sound, Told
  <2> QED BY <1>1, <2>1, <2>2, <2>3, <2>5, Turns
<1> QED BY <1>3, <1>4

(* An order in work that is dead and recorded leaves everything counted.   *)
LEMMA AllCounted ==
  ASSUME NEW s, NEW v, NEW c, Covered(s, v, c), ~CanTrade(v, c), FillsOf(c, v[c].filled) \subseteq s
  PROVE  Settled(s, v)
  BY DEF Covered, Settled, Counted

(* A caller that has recorded what it read decides upon it. *)
LEMMA DecideSound ==
  ASSUME NEW l, NEW m, NEW w, NEW n, NEW s, NEW v, Typed(l, w, s, v), Sound(l, w, s, v),
         l.pc = "read", l.got # -1, l.rec = w, w.state \notin Terminal,
         FillsOf(OrderOf(w), l.got) \subseteq s,
         m.pc = "decide", m.view = l.view, m.rec = n,
         n.state = w.state, n.client = w.client, n.attempt = w.attempt
  PROVE  Sound(m, n, s, v)
<1>1. ~Sent(l) /\ ~Sent(m) /\ Sending(m, n, s) /\ Current(m, n)
  BY DEF Sent, Sending, Current
<1>2. w.state \in Live \cup {"CANCEL_PENDING", "CANCELLED", "FALLBACK_SUBMITTED"}
  BY DEF Sound, Told
<1>3. Clear(m, n) => Settled(s, v)
  <2>1. ASSUME Clear(m, n) PROVE w.state = "CANCELLED"
    BY <1>2, <2>1 DEF Clear, Live
  <2>2. ASSUME w.state = "CANCELLED" PROVE Settled(s, v)
    <3>1. Covered(s, v, w.client)
      BY <1>1, <2>2 DEF Sound, InWork
    <3>2. ~CanTrade(v, w.client)
      BY <2>2 DEF Typed, CancelOK, IsDead, CanTrade
    <3>3. OrderOf(w) = w.client /\ l.got = v[w.client].filled
      BY <2>2 DEF OrderOf, Sound, Told
    <3> QED BY <3>1, <3>2, <3>3, AllCounted
  <2> QED BY <2>1, <2>2
<1>4. OrderOf(n) = OrderOf(w)
  BY DEF OrderOf
<1>5. Told(m, n, v)
  BY <1>2, <1>4 DEF Sound, Told
<1>6. Concluded(n, v)
  BY DEF Concluded, Terminal
<1>7. CanTransition(w.state, n.state)
  BY DEF CanTransition
<1> QED BY <1>1, <1>3, <1>5, <1>6, <1>7, RowSound

(* reconcile, third part *)
LEMMA RecordSingle == ASSUME Working, NEW p \in Pollers, RecordFills(p) PROVE SInv'
<1> DEFINE l == proc[p]
           o == OrderOf(wf)
           fills == WithFills(OrderOf(l.rec), l.got)
           m == At(p, "decide")
<1>1. l.pc = "read" /\ l.got # -1 /\ ~Sent(l) /\ l.rec = wf /\ wf \in Rows /\ l \in Locals
      /\ wf.state \notin Terminal /\ Sound(l, wf, seen, venue) /\ Typed(l, wf, seen, venue)
  BY TheCaller DEF RecordFills, Sent, Typed, RowOK
<1>2. m.pc = "decide" /\ m.view = l.view /\ m.rec = wf /\ m \in Locals
  BY <1>1, AtFacts DEF PCs
<1>3. InWork(l, wf) = o /\ l.got \in Int /\ l.got <= venue[o].filled
  BY <1>1 DEF InWork, OrderOf, Sound, Told, Locals
<1>4. fills = seen \cup FillsOf(o, l.got)
  BY <1>1 DEF WithFills
<1>5. Typed(l, wf, fills, venue) /\ Sound(l, wf, fills, venue) /\ FillsOf(o, l.got) \subseteq fills
  <2>1. Typed(l, wf, seen \cup FillsOf(o, l.got), venue)
        /\ Sound(l, wf, seen \cup FillsOf(o, l.got), venue)
    BY <1>1, <1>3, FillsSound
  <2> QED BY <1>4, <2>1
<1>6. Total(fills) <= Target
  <2>1. PICK c \in Orders : Covered(fills, venue, c)
    BY <1>5 DEF Sound
  <2> QED BY <1>5, <2>1, Within DEF Sound, Typed
<1>7. CASE fills = seen /\ Local(p, m)
  <2>1. Sound(m, wf, seen, venue)
    BY <1>1, <1>2, <1>5, <1>7, DecideSound
  <2> QED BY <1>7, <2>1, LocalReaches
<1>8. CASE Mutate(p, l.rec, fills, m)
  <2> DEFINE saved == [l.rec EXCEPT !.version = wf.version + 1]
             next == [m EXCEPT !.rec = saved]
  <2>1. saved.state = wf.state /\ saved.client = wf.client /\ saved.attempt = wf.attempt
    BY <1>1, SavedRow
  <2> HIDE DEF saved
  <2>2. next.pc = "decide" /\ next.view = l.view /\ next.rec = saved
    BY <1>2 DEF Locals
  <2> HIDE DEF next, m, fills
  <2>3. Sound(next, saved, fills, venue)
    BY <1>1, <1>5, <2>1, <2>2, DecideSound
  <2> QED BY <1>1, <1>2, <1>8, <2>3, Writes DEF saved, next
<1>9. (fills = seen /\ Local(p, m)) \/ Mutate(p, l.rec, fills, m) \/ Total(fills) > Target
  BY Zenon DEF RecordFills
<1>10. ~(Total(fills) > Target)
  <2>1. Total(fills) \in Nat
    BY <1>5, TotalType DEF Typed
  <2> QED BY <1>6, <2>1
<1> QED BY <1>7, <1>8, <1>9, <1>10

(* pollLiveOrder *)
LEMMA LiveSingle ==
  ASSUME Working, NEW p \in Pollers,
         LiveDone(p) \/ LiveCanceled(p) \/ LiveRejected(p) \/ LiveProgress(p)
  PROVE  SInv'
<1> DEFINE l == proc[p]
           rejected == [l.rec EXCEPT !.state = "REJECTED", !.reason = "OTHER"]
           moved == [l.rec EXCEPT !.state = IF Total(seen) > 0 THEN "PARTIAL" ELSE "ACK",
                                  !.reason = "OTHER"]
<1>1. l.pc = "decide" /\ ~Sent(l) /\ l.rec = wf /\ wf \in Rows /\ l \in Locals
      /\ wf.state \in Live /\ Sound(l, wf, seen, venue)
  BY TheCaller DEF LiveDone, LiveCanceled, LiveRejected, LiveProgress, Deciding, Sent, Typed, RowOK
<1>2. CASE LiveDone(p)
  BY <1>1, <1>2, FinishesFull DEF LiveDone
<1>3. CASE LiveCanceled(p)
  BY <1>1, <1>3, Cancels DEF LiveCanceled, Cancelled
<1>4. CASE l.view = "REJECTED" /\ Transition(p, rejected, At(p, "exhaust"))
  <2>1. rejected \in Rows /\ rejected.state = "REJECTED" /\ rejected.client = wf.client
        /\ rejected.attempt = wf.attempt
    BY <1>1 DEF Rows, States, Reasons
  <2>2. At(p, "exhaust") \in Locals /\ At(p, "exhaust").pc = "exhaust"
    BY AtFacts DEF PCs
  <2>3. Settled(seen, venue)
    <3>1. Covered(seen, venue, wf.client) /\ OrderOf(wf) = wf.client
      BY <1>1 DEF Sound, InWork, OrderOf, Live, Terminal
    <3>2. venue[wf.client].st = "rejected" /\ venue[wf.client].filled = 0
      BY <1>1, <1>4, <3>1 DEF Sound, Told, VenueSound, Covered
    <3>3. FillsOf(wf.client, 0) = {}
      <4>1. 1 .. 0 = {}
        OBVIOUS
      <4> QED BY <4>1 DEF FillsOf
    <3> QED BY <3>1, <3>2, <3>3, AllCounted DEF CanTrade
  <2> DEFINE m == At(p, "exhaust")
  <2>4. ~Sent(m) /\ Sending(m, rejected, seen) /\ Told(m, rejected, venue)
    BY <2>2, Idles
  <2>5. rejected.state \notin Terminal /\ rejected.state # "FALLBACK_SUBMITTED"
        /\ m.pc \notin {"idle", "load"} /\ l.pc \notin {"idle", "load"}
    BY <1>1, <2>1, <2>2 DEF Terminal
  <2> HIDE DEF rejected, m
  <2> QED BY <1>1, <1>4, <2>1, <2>2, <2>3, <2>4, <2>5, WritesAndGoesOn DEF m
<1>5. CASE Transition(p, moved, At(p, "ttl"))
  <2> DEFINE k == IF Total(seen) > 0 THEN "PARTIAL" ELSE "ACK"
  <2>0. k \in {"PARTIAL", "ACK"}
    OBVIOUS
  <2> HIDE DEF k
  <2>1. [l.rec EXCEPT !.state = k, !.reason = "OTHER"] = moved
    BY DEF k
  <2> HIDE DEF moved
  <2>2. moved \in Rows /\ moved.state \in {"PARTIAL", "ACK"} /\ moved.client = wf.client
        /\ moved.attempt = wf.attempt
    BY <1>1, <2>0, <2>1 DEF Rows, States, Reasons
  <2>3. At(p, "ttl") \in Locals /\ At(p, "ttl").pc = "ttl"
    BY AtFacts DEF PCs
  <2> QED BY <1>1, <1>5, <2>2, <2>3, Idles, WritesAndGoesOn DEF Terminal
<1>6. CASE Local(p, At(p, "ttl"))
  <2>1. At(p, "ttl") \in Locals /\ At(p, "ttl").pc = "ttl" /\ At(p, "ttl").rec = l.rec
    BY AtFacts DEF PCs
  <2>2. wf.state \notin {"ABSENT", "NEW", "REJECTED"}
    BY <1>1 DEF Live
  <2> DEFINE m == At(p, "ttl")
  <2>3. ~Sent(m) /\ Sending(m, wf, seen) /\ Told(m, wf, venue) /\ ~Clear(m, wf)
    BY <2>1, <2>2, Idles
  <2> HIDE DEF m
  <2>4. Local(p, m) /\ m.rec = l.rec
    BY <1>6, <2>1 DEF m
  <2>5. l.pc \notin {"idle", "load"}
    BY <1>1
  <2> QED BY <1>1, <2>3, <2>4, <2>5, Turns
<1> QED BY <1>2, <1>3, <1>4, <1>5, <1>6 DEF LiveRejected, LiveProgress

(* requestCancel, up to the call of the venue *)
LEMMA RequestSingle ==
  ASSUME Working, NEW p \in Pollers, RequestCancel(p), proc[p].pc \in {"ttl", "abort"}
  PROVE  SInv'
<1> DEFINE pending == [proc[p].rec EXCEPT !.state = "CANCEL_PENDING", !.cancels = @ + 1,
                                          !.reason = "OTHER"]
<1>1. ~Sent(proc[p]) /\ proc[p].rec = wf /\ wf \in Rows /\ proc[p] \in Locals
  BY TheCaller DEF Sent, Typed, RowOK
<1>2. CASE Transition(p, pending, At(p, "cancel"))
  <2>1. pending \in Rows /\ pending.state = "CANCEL_PENDING" /\ pending.client = wf.client
        /\ pending.attempt = wf.attempt
    <3>1. wf.cancels + 1 \in Nat /\ "CANCEL_PENDING" \in States /\ "OTHER" \in Reasons
      BY <1>1 DEF Rows, States, Reasons
    <3> QED BY <1>1, <3>1, Zenon DEF Rows
  <2>2. At(p, "cancel") \in Locals /\ At(p, "cancel").pc = "cancel"
    BY AtFacts DEF PCs
  <2> DEFINE m == At(p, "cancel")
  <2> HIDE DEF pending, m
  <2>3. ~Sent(m) /\ Sending(m, pending, seen) /\ Told(m, pending, venue) /\ ~Clear(m, pending)
    BY <2>1, <2>2 DEF Sent, Sending, Told, Clear, m
  <2> QED BY <1>1, <1>2, <2>1, <2>2, <2>3, WritesAndGoesOn DEF Terminal, m
<1>3. CASE Fail(p, "CANCEL_UNSUPPORTED")
  BY <1>1, <1>3, Fails DEF Reasons
<1> QED BY <1>2, <1>3 DEF RequestCancel

LEMMA TtlSingle == ASSUME Working, NEW p \in Pollers, CheckTtl(p) PROVE SInv'
  BY RequestSingle, Returns DEF CheckTtl, Sent

(* The cancel of a port, when it is confirmed. *)
LEMMA ConfirmedSingle ==
  ASSUME Working, NEW p \in Pollers, ~Sent(proc[p]), CancelConfirmed(wf.client)
  PROVE  /\ Sound(proc[p], wf, seen, venue')
         /\ venue'[wf.client].filled = venue[wf.client].filled
         /\ venue[wf.client].filled \in 0 .. Target
<1> DEFINE o == wf.client
           x == [venue[o] EXCEPT !.st = "canceled"]
<1>1. o \in Orders /\ VenueOK(venue) /\ Sound(proc[p], wf, seen, venue)
  BY TheCaller, OrderOfType DEF Typed, RowOK
<1>2. venue[o] \in VenueOrders /\ venue[o].filled \in 0 .. Target
  BY <1>1, VenueTypes
<1>3. x \in VenueOrders /\ x.st = "canceled" /\ x.filled = venue[o].filled
      /\ x.qty = venue[o].qty
  BY <1>2 DEF VenueOrders
<1>4. venue' = [venue EXCEPT ![o] = x] /\ venue[o].st \in {"live", "canceled"}
  BY DEF CancelConfirmed
<1> HIDE DEF x
<1>5. venue'[o].filled = venue[o].filled
  BY <1>1, <1>3, <1>4 DEF VenueOK
<1>6. CASE venue[o].st = "live"
  <2>1. venue[o].filled <= venue[o].qty
    BY <1>1 DEF Sound, VenueSound
  <2>2. venue[o].filled \in Int
    BY <1>2
  <2>3. Sound(proc[p], wf, seen, [venue EXCEPT ![o] = x])
    <3>1. CanTrade(venue, o) /\ x.filled >= venue[o].filled
      BY <1>3, <1>6, <2>2 DEF CanTrade
    <3>2. Typed(proc[p], wf, seen, venue)
      BY TheCaller
    <3> HIDE DEF o
    <3> QED BY <1>1, <1>3, <2>1, <3>1, <3>2, VenueMoves
  <2> QED BY <1>2, <1>4, <1>5, <2>3
<1>7. CASE venue[o].st = "canceled"
  <2>1. x = venue[o]
    BY <1>2, <1>3, <1>7 DEF VenueOrders, x
  <2>2. venue' = venue
    BY <1>1, <1>4, <2>1 DEF VenueOK
  <2> QED BY <1>1, <1>2, <2>2
<1> QED BY <1>4, <1>6, <1>7

(* requestCancel: the call of the venue *)
LEMMA CancelOrderSingle == ASSUME Working, NEW p \in Pollers, CancelOrder(p) PROVE SInv'
<1> DEFINE l == proc[p]
           o == wf.client
<1>1. l.pc = "cancel" /\ ~Sent(l) /\ l.rec = wf /\ wf \in Rows /\ l \in Locals
      /\ Sound(l, wf, seen, venue) /\ wf.state = "CANCEL_PENDING" /\ "lossyReads" \notin Env
  BY TheCaller DEF CancelOrder, Sent, Typed, RowOK, Sound, Told, Working, Alone
<1>2. UNCHANGED <<wf, seen>>
  BY DEF CancelOrder
<1>3. CASE CancelConfirmed(o) /\ Goto(p, [l EXCEPT !.pc = "confirm", !.got = venue[o].filled])
  <2> DEFINE m == [l EXCEPT !.pc = "confirm", !.got = venue[o].filled]
  <2>1. m.pc = "confirm" /\ m.rec = wf /\ m.got = venue[o].filled
    BY <1>1 DEF Locals
  <2>2. Sound(l, wf, seen, venue') /\ venue'[o].filled = venue[o].filled
        /\ venue[o].filled \in 0 .. Target
    BY <1>1, <1>3, ConfirmedSingle
  <2> HIDE DEF m
  <2>3. ~Sent(m) /\ Current(m, wf) /\ ~Clear(m, wf) /\ Sending(m, wf, seen) /\ Told(m, wf, venue')
    BY <1>1, <2>1, <2>2 DEF Sent, Current, Terminal, Clear, Sending, Told
  <2>4. Sound(m, wf, seen, venue')
    BY <1>1, <2>2, <2>3, TurnSound
  <2> QED BY <1>2, <1>3, <2>4, Reaches DEF m
<1>4. CASE UNCHANGED venue /\ Goto(p, [l EXCEPT !.pc = "read", !.view = "?", !.got = -1])
  <2> DEFINE m == [l EXCEPT !.pc = "read", !.view = "?", !.got = -1]
  <2>1. m.pc = "read" /\ m.rec = wf /\ m.got = -1 /\ m.view = "?"
    BY <1>1 DEF Locals
  <2> HIDE DEF m
  <2>2. venue[OrderOf(wf)].filled \in 0 .. Target
    BY <1>1, TheCaller, OrderOfType, VenueTypes DEF Typed
  <2>3. ~Sent(m) /\ Current(m, wf) /\ ~Clear(m, wf) /\ Sending(m, wf, seen) /\ Told(m, wf, venue)
    BY <1>1, <2>1, <2>2 DEF Sent, Current, Terminal, Clear, Sending, Told
  <2>4. Sound(m, wf, seen, venue)
    BY <1>1, <2>3, TurnSound
  <2>5. Sound(m, wf', seen', venue')
    BY <1>2, <1>4, <2>4
  <2> QED BY <1>4, <2>5, Reaches DEF m
<1>5. CASE CancelUnclear(o) /\ Goto(p, Ended(p))
  <2>1. Sound(l, wf, seen, venue')
    <3>1. CASE UNCHANGED venue
      BY <1>1, <3>1
    <3>2. CASE CancelConfirmed(o)
      BY <1>1, <3>2, ConfirmedSingle
    <3> QED BY <1>5, <3>1, <3>2 DEF CancelUnclear
  <2>2. Ended(p).pc \in {"idle", "load"}
    BY EndedOK DEF Working
  <2>3. Sound(Ended(p), wf', seen', venue')
    BY <1>1, <1>2, <2>1, <2>2, EndSound
  <2> QED BY <1>5, <2>3, Reaches
<1>6. \/ CancelConfirmed(o) /\ \E n \in {venue[o].filled} :
            Goto(p, [l EXCEPT !.pc = "confirm", !.got = n])
      \/ UNCHANGED venue /\ Goto(p, [l EXCEPT !.pc = "read", !.view = "?", !.got = -1])
      \/ CancelUnclear(o) /\ Goto(p, Ended(p))
  BY <1>1 DEF CancelOrder
<1> QED BY <1>3, <1>4, <1>5, <1>6

(* The fills of the cancel report, then the confirmation. *)
LEMMA ConfirmSingle ==
  ASSUME Working, NEW p \in Pollers, ConfirmCancel(p) \/ AfterReport(p)
  PROVE  SInv'
<1> DEFINE l == proc[p]
           o == wf.client
           fills == WithFills(l.rec.client, l.got)
           m == At(p, "confirmed")
<1>1. l.pc \in {"confirm", "confirmed"} /\ ~Sent(l) /\ l.rec = wf /\ wf \in Rows /\ l \in Locals
      /\ Sound(l, wf, seen, venue) /\ Typed(l, wf, seen, venue) /\ wf.state = "CANCEL_PENDING"
      /\ wf.state \notin Terminal
  BY TheCaller DEF ConfirmCancel, AfterReport, Sent, Typed, RowOK, Sound, Told
<1>2. CASE l.pc = "confirm" /\ Mutate(p, l.rec, fills, m)
  <2> DEFINE saved == [l.rec EXCEPT !.version = wf.version + 1]
             next == [m EXCEPT !.rec = saved]
  <2>1. InWork(l, wf) = o /\ l.got \in Int /\ l.got <= venue[o].filled
    BY <1>1, <1>2 DEF InWork, Sound, Told, Locals
  <2>2. fills = seen \cup FillsOf(o, l.got)
    BY <1>1 DEF WithFills
  <2>3. Sound(l, wf, fills, venue)
    <3>1. Sound(l, wf, seen \cup FillsOf(o, l.got), venue)
      BY <1>1, <2>1, FillsSound
    <3> QED BY <2>2, <3>1
  <2>4. saved.state = wf.state /\ saved.client = wf.client /\ saved.attempt = wf.attempt
    BY <1>1, SavedRow
  <2>5. m.pc = "confirmed" /\ m \in Locals
    BY AtFacts DEF PCs
  <2> HIDE DEF saved
  <2>6. next.pc = "confirmed" /\ next.rec = saved
    BY <2>5 DEF Locals
  <2> HIDE DEF next, m, fills
  <2>7. /\ ~Sent(next) /\ Current(next, saved) /\ ~Clear(next, saved) /\ Sending(next, saved, fills)
        /\ Told(next, saved, venue) /\ Concluded(saved, venue)
        /\ CanTransition(wf.state, saved.state)
    BY <1>1, <2>4, <2>6 DEF Sent, Current, Terminal, Clear, Sending, Told, Concluded, CanTransition
  <2>8. Sound(next, saved, fills, venue)
    BY <1>1, <2>3, <2>4, <2>7, RowSound
  <2> QED BY <1>1, <1>2, <2>5, <2>8, Writes DEF saved, next
<1>3. CASE Transition(p, Cancelled(p), Ended(p))
  BY <1>1, <1>3, Cancels
<1>4. CASE Complete(seen) /\ Done(p)
  BY <1>1, <1>4, FinishesFull
<1> QED BY <1>2, <1>3, <1>4, Zenon DEF ConfirmCancel, AfterReport

(* pollCancelPending *)
LEMMA PendingSingle ==
  ASSUME Working, NEW p \in Pollers, PendingDone(p) \/ PendingCanceled(p) \/ PendingUnclear(p)
  PROVE  SInv'
<1> DEFINE m == At(p, "retry")
<1>1. proc[p].pc = "decide" /\ ~Sent(proc[p]) /\ proc[p].rec = wf /\ proc[p] \in Locals
      /\ wf.state = "CANCEL_PENDING"
  BY TheCaller DEF PendingDone, PendingCanceled, PendingUnclear, Deciding, Sent
<1>2. CASE PendingDone(p)
  BY <1>1, <1>2, FinishesFull DEF PendingDone
<1>3. CASE PendingCanceled(p)
  BY <1>1, <1>3, Cancels DEF PendingCanceled
<1>4. CASE Local(p, m)
  <2>1. m.pc = "retry" /\ m.rec = proc[p].rec
    BY AtFacts DEF PCs
  <2> HIDE DEF m
  <2>2. ~Sent(m) /\ ~Clear(m, wf) /\ Sending(m, wf, seen) /\ Told(m, wf, venue)
    BY <1>1, <2>1 DEF Sent, Clear, Sending, Told
  <2> QED BY <1>1, <1>4, <2>1, <2>2, Turns
<1>5. CASE Fail(p, "CANCEL_UNRESOLVED")
  BY <1>1, <1>5, Fails DEF Reasons
<1> QED BY <1>2, <1>3, <1>4, <1>5 DEF PendingUnclear

LEMMA RetrySingle == ASSUME Working, NEW p \in Pollers, RetryCancel(p) PROVE SInv'
<1> DEFINE l == proc[p]
           o == wf.client
<1>1. l.pc = "retry" /\ ~Sent(l) /\ l.rec = wf /\ wf \in Rows /\ l \in Locals
      /\ Sound(l, wf, seen, venue) /\ wf.state = "CANCEL_PENDING"
  BY TheCaller DEF RetryCancel, Sent, Typed, RowOK, Sound, Told
<1>2. UNCHANGED <<wf, seen>>
  BY DEF RetryCancel
<1>3. Sound(l, wf, seen, venue')
  <2>1. CASE UNCHANGED venue
    BY <1>1, <2>1
  <2>2. CASE CancelConfirmed(o)
    BY <1>1, <2>2, ConfirmedSingle
  <2> QED BY <1>1, <2>1, <2>2 DEF RetryCancel, CancelUnclear
<1>4. ASSUME NEW k \in {"CONFIRMED", "UNCLEAR"},
             Goto(p, [l EXCEPT !.pc = "retried", !.out = k])
      PROVE  SInv'
  <2> DEFINE m == [l EXCEPT !.pc = "retried", !.out = k]
  <2>1. m.pc = "retried" /\ m.rec = wf
    BY <1>1 DEF Locals
  <2>2. Goto(p, m)
    BY <1>4
  <2> HIDE DEF m
  <2>3. ~Sent(m) /\ Current(m, wf) /\ ~Clear(m, wf) /\ Sending(m, wf, seen) /\ Told(m, wf, venue')
    BY <1>1, <2>1 DEF Sent, Current, Terminal, Clear, Sending, Told
  <2>4. Sound(m, wf, seen, venue')
    BY <1>1, <1>3, <2>3, TurnSound
  <2> QED BY <1>2, <2>2, <2>4, Reaches
<1> QED BY <1>4 DEF RetryCancel

LEMMA PersistRetrySingle == ASSUME Working, NEW p \in Pollers, PersistRetry(p) PROVE SInv'
<1> DEFINE base == IF proc[p].out = "CONFIRMED" THEN Cancelled(p) ELSE proc[p].rec
           new == [base EXCEPT !.cancels = @ + 1]
<1>1. proc[p].pc = "retried" /\ ~Sent(proc[p]) /\ proc[p].rec = wf /\ wf \in Rows
      /\ wf.state = "CANCEL_PENDING"
  BY TheCaller DEF PersistRetry, Sent, Typed, RowOK, Sound, Told
<1>2. base \in Rows /\ base.state \in {"CANCELLED", "CANCEL_PENDING"}
      /\ base.client = wf.client /\ base.attempt = wf.attempt
  BY <1>1 DEF Cancelled, Rows, States, Reasons
<1>3. Transition(p, new, Ended(p))
  BY DEF PersistRetry
<1> HIDE DEF base
<1>4. new \in Rows /\ new.state = base.state /\ new.client = wf.client /\ new.attempt = wf.attempt
  BY <1>2 DEF Rows
<1> HIDE DEF new
<1>5. Concluded(new, venue)
  BY <1>2, <1>4 DEF Concluded
<1> QED BY <1>1, <1>2, <1>3, <1>4, <1>5, WritesAndReturns

(* pollCancelled *)
LEMMA AfterCancelSingle == ASSUME Working, NEW p \in Pollers, AfterCancel(p) PROVE SInv'
<1> DEFINE l == proc[p]
           quoting == [At(p, "quote") EXCEPT !.kind = "reprice"]
           market == [At(p, "send") EXCEPT !.kind = "fallback", !.qty = Remainder(seen)]
<1>1. l.pc = "decide" /\ ~Sent(l) /\ l.rec = wf /\ l \in Locals /\ wf.state = "CANCELLED"
  BY TheCaller DEF AfterCancel, Deciding, Sent
<1>2. Settled(seen, venue) /\ Quiet(venue)
  BY <1>1, TheCaller DEF Sound, Clear, Settled, Counted, Quiet
<1>3. CASE NoRemainder(seen) /\ Done(p)
  BY <1>1, <1>3, FinishesFull
<1>4. CASE Local(p, quoting)
  <2>1. quoting.pc = "quote" /\ quoting.rec = wf
    BY <1>1, AtFacts DEF PCs, Locals
  <2> HIDE DEF quoting
  <2>2. ~Sent(quoting) /\ Sending(quoting, wf, seen) /\ Told(quoting, wf, venue)
    BY <1>1, <2>1 DEF Sent, Sending, Told
  <2> QED BY <1>1, <1>2, <1>4, <2>1, <2>2, Turns
<1>5. CASE Local(p, market)
  <2>1. At(p, "send") \in Locals /\ At(p, "send").pc = "send" /\ At(p, "send").rec = wf
    BY <1>1, AtFacts DEF PCs
  <2>2. market.pc = "send" /\ market.rec = wf /\ market.kind = "fallback"
        /\ market.qty = Remainder(seen)
    BY <2>1 DEF Locals
  <2>3. Remainder(seen) <= Target - Total(seen) /\ Remainder(seen) > Target - Total(seen) - Step
    BY TheCaller, RemainderExact DEF Typed
  <2> HIDE DEF market
  <2>4. ~Sent(market) /\ Sending(market, wf, seen) /\ Told(market, wf, venue)
    BY <1>1, <2>2, <2>3 DEF Sent, Sending, Told
  <2> QED BY <1>1, <1>2, <1>5, <2>2, <2>4, Turns
<1>6. CASE Fail(p, "OTHER")
  BY <1>1, <1>2, <1>6, Fails DEF Reasons
<1> QED BY <1>3, <1>4, <1>5, <1>6, Zenon DEF AfterCancel

(* reprice, up to the gates *)
LEMMA RepriceSingle == ASSUME Working, NEW p \in Pollers, Reprice(p) PROVE SInv'
<1> DEFINE l == [proc[p] EXCEPT !.kind = "reprice", !.qty = Remainder(seen)]
           limit == [l EXCEPT !.pc = "send"]
           market == [l EXCEPT !.pc = "send", !.kind = "fallback"]
<1>1. proc[p].pc = "quote" /\ ~Sent(proc[p]) /\ proc[p].rec = wf /\ proc[p] \in Locals
  BY TheCaller DEF Reprice, Sent
<1>2. Settled(seen, venue) /\ Quiet(venue) /\ wf.state \in {"CANCELLED", "REJECTED"}
  BY <1>1, TheCaller DEF Sound, Clear, Settled, Counted, Quiet, Sending
<1>3. Remainder(seen) <= Target - Total(seen) /\ Remainder(seen) > Target - Total(seen) - Step
  BY TheCaller, RemainderExact DEF Typed
<1>4. limit.pc = "send" /\ limit.rec = wf /\ limit.kind = "reprice" /\ limit.qty = Remainder(seen)
  BY <1>1 DEF Locals
<1>5. market.pc = "send" /\ market.rec = wf /\ market.kind = "fallback"
      /\ market.qty = Remainder(seen)
  BY <1>1 DEF Locals
<1>6. \/ Local(p, limit)
      \/ NoRemainder(seen) /\ Done(p)
      \/ wf.state = "CANCELLED" /\ Local(p, market)
      \/ Fail(p, "OTHER")
  <2>1. l.rec = wf
    BY <1>1 DEF Locals
  <2> QED BY <2>1, Zenon DEF Reprice
<1> HIDE DEF limit, market
<1>7. CASE Local(p, limit)
  <2>1. ~Sent(limit) /\ Sending(limit, wf, seen) /\ Told(limit, wf, venue)
    BY <1>2, <1>3, <1>4 DEF Sent, Sending, Told
  <2> QED BY <1>1, <1>2, <1>4, <1>7, <2>1, Turns
<1>8. CASE wf.state = "CANCELLED" /\ Local(p, market)
  <2>1. ~Sent(market) /\ Sending(market, wf, seen) /\ Told(market, wf, venue)
    BY <1>3, <1>5, <1>8 DEF Sent, Sending, Told
  <2> QED BY <1>1, <1>2, <1>5, <1>8, <2>1, Turns
<1>9. CASE NoRemainder(seen) /\ Done(p)
  BY <1>1, <1>9, FinishesFull
<1>10. CASE Fail(p, "OTHER")
  BY <1>1, <1>2, <1>10, Fails DEF Reasons
<1> QED BY <1>6, <1>7, <1>8, <1>9, <1>10

(* pollFallback *)
LEMMA AfterFallbackSingle == ASSUME Working, NEW p \in Pollers, AfterFallback(p) PROVE SInv'
<1> DEFINE l == proc[p]
<1>1. l.pc = "decide" /\ ~Sent(l) /\ l.rec = wf /\ wf.state = "FALLBACK_SUBMITTED"
  BY TheCaller DEF AfterFallback, Deciding, Sent
<1>2. CASE l.view \in {"REJECTED", "CANCELED"} /\ Fail(p, "OTHER")
  <2>1. Covered(seen, venue, F) /\ OrderOf(wf) = F
    BY <1>1, TheCaller DEF Sound, InWork, OrderOf, Terminal
  <2>2. venue[F].st \in {"rejected", "canceled"}
    BY <1>1, <1>2, <2>1, TheCaller DEF Sound, Told
  <2>3. Quiet(venue)
    BY <2>1, <2>2 DEF Covered, Counted, Quiet, CanTrade
  <2> QED BY <1>1, <1>2, <2>3, Fails DEF Reasons
<1>3. CASE NoRemainder(seen) /\ Done(p)
  BY <1>1, <1>3, FinishesFull
<1>4. CASE Local(p, Ended(p))
  BY <1>1, <1>4, Returns
<1> QED BY <1>2, <1>3, <1>4, Zenon DEF AfterFallback

(* cancelOpen *)
LEMMA CancelOpenSingle == ASSUME Working, NEW p \in Pollers, CancelOpen(p) PROVE SInv'
<1> DEFINE m == [Idle EXCEPT !.pc = "abort", !.rec = wf, !.polls = 4]
<1>1. Local(p, m) /\ proc[p].pc = "idle" /\ wf.state \notin Terminal /\ wf.state # "ABSENT"
  BY DEF CancelOpen, Terminal
<1>2. m.pc = "abort" /\ m.rec = wf
  BY DEF Idle
<1> HIDE DEF m
<1>3. ~Sent(proc[p]) /\ Current(m, wf) /\ Sound(proc[p], wf, seen, venue)
  BY <1>1, <1>2, TheCaller DEF Sent, Current
<1>4. Clear(m, wf) => Settled(seen, venue)
  BY <1>2, <1>3, Idles DEF Sound, Clear
<1>5. Sound(m, wf, seen, venue)
  BY <1>2, <1>3, <1>4, Idles, TurnSound
<1> QED BY <1>1, <1>5, LocalReaches

LEMMA AbortSingle == ASSUME Working, NEW p \in Pollers, Abort(p) PROVE SInv'
<1> DEFINE new == [proc[p].rec EXCEPT !.state = "FAILED", !.reason = "OTHER"]
<1>1. proc[p].pc = "abort" /\ ~Sent(proc[p]) /\ proc[p].rec = wf /\ wf \in Rows
  BY TheCaller DEF Abort, Sent, Typed, RowOK
<1>2. CASE wf.state = "NEW" /\ Transition(p, new, Idle)
  <2>1. new \in Rows /\ new.state = "FAILED" /\ new.client = wf.client /\ new.attempt = wf.attempt
    BY <1>1 DEF Rows, States, Reasons
  <2> HIDE DEF new
  <2>2. Quiet(venue)
    BY <1>1, <1>2, TheCaller DEF Sound, Clear, Settled, Counted, Quiet
  <2>3. Concluded(new, venue) /\ Idle.pc = "idle"
    BY <2>1, <2>2 DEF Concluded, Idle
  <2> QED BY <1>1, <1>2, <2>1, <2>3, WritesLast
<1>3. CASE RequestCancel(p)
  BY <1>1, <1>3, RequestSingle
<1>4. CASE Local(p, Ended(p))
  BY <1>1, <1>4, Returns
<1> QED BY <1>1, <1>2, <1>3, <1>4, Zenon DEF Abort

(* The order about to be sent is one the venue does not know.              *)
LEMMA NextIsNew ==
  ASSUME Working, NEW p \in Pollers, proc[p].pc = "send"
  PROVE  LET o == NextOrder(proc[p]) IN
         o \in Orders /\ o = OrderToSend(p) /\ venue[o].st = "none"
<1> DEFINE l == proc[p]
<1>1. ~Sent(l) /\ l.rec = wf /\ RowOK(wf) /\ l \in Locals /\ Sound(l, wf, seen, venue)
      /\ wf.state \notin Terminal
  BY TheCaller DEF Sent, Typed
<1>2. NextOrder(l) = OrderToSend(p)
  BY DEF NextOrder, OrderToSend
<1>3. wf.state \in {"NEW", "CANCELLED", "REJECTED"} /\ l.kind \in {"first", "reprice", "fallback"}
      /\ (l.kind = "first" <=> wf.state = "NEW")
  BY <1>1 DEF Sound, Sending, Locals
<1>4. CASE l.kind = "first"
  BY <1>1, <1>2, <1>3, <1>4, NothingSent DEF NextOrder, Orders, Limits
<1>5. CASE l.kind = "reprice"
  <2>1. wf.reprices < MaxReprices
    BY <1>1, <1>5, PollerFacts DEF Working, Sendable
  <2>2. wf.attempt + 1 \in Limits /\ wf.attempt + 1 > wf.attempt
    BY <1>1, <2>1 DEF RowOK, Rows, Limits
  <2>3. NextOrder(l) = wf.attempt + 1
    BY <1>1, <1>5 DEF NextOrder
  <2>4. venue[wf.attempt + 1].st = "none"
    BY <1>1, <1>3, <2>2 DEF Sound, Ahead, Terminal
  <2> QED BY <1>2, <2>2, <2>3, <2>4 DEF Orders
<1>6. CASE l.kind = "fallback"
  <2>1. NextOrder(l) = F
    BY <1>6 DEF NextOrder
  <2>2. Covered(seen, venue, wf.client)
    BY <1>1, <1>3 DEF Sound, InWork
  <2>3. wf.client # F
    BY <1>1 DEF RowOK, Rows, Limits, F
  <2> QED BY <1>2, <2>1, <2>2, <2>3 DEF Covered, Orders
<1> QED BY <1>3, <1>4, <1>5, <1>6

(* The venue takes an order, or may have taken it. *)
LEMMA SendSound ==
  ASSUME NEW l, NEW m, NEW w, NEW s, NEW v, Typed(l, w, s, v), Sound(l, w, s, v),
         l.pc = "send", l.rec = w, w.state \notin Terminal,
         NEW o \in Orders, o = NextOrder(l), v[o].st = "none",
         NEW x \in VenueOrders, x.filled <= x.qty,
         x.st = "filled" => x.filled = x.qty, x.st \in {"wire", "rejected"} => x.filled = 0,
         x.st # "none" => x.qty = l.qty, x.st = "none" => x.qty = 0,
         m.pc = "persist", m.out \in {"ACK", "AMBIGUOUS"}, m.rec = w, m.kind = l.kind,
         m.qty = l.qty, m.out = "ACK" => m.got >= 0 /\ m.got <= x.filled
  PROVE  Sound(m, w, s, [v EXCEPT ![o] = x])
<1> DEFINE u == [v EXCEPT ![o] = x]
<1>1. u[o] = x /\ \A a \in Orders : a # o => u[a] = v[a]
  BY DEF Typed, VenueOK
<1> HIDE DEF u
<1>2. VenueOK(v) /\ s \in SUBSET Fills /\ SeenTrue(s, v) /\ VenueSound(v)
  BY DEF Typed, Sound
<1>3. Settled(s, v) /\ Sent(m) /\ NextOrder(m) = o
  BY DEF Sound, Clear, Sent, NextOrder
<1>4. w.state \in {"NEW", "CANCELLED", "REJECTED"}
      /\ l.qty <= Target - Total(s) /\ l.qty > Target - Total(s) - Step
  BY DEF Sound, Sending
<1>5. \A f \in s : f[1] # o
  <2> SUFFICES ASSUME NEW f \in s, f[1] = o PROVE FALSE
    OBVIOUS
  <2>1. f[2] \in 1 .. Target /\ f[2] <= v[o].filled
    BY <1>2, FillPairs DEF SeenTrue
  <2>2. v[o].filled \in 0 .. Target /\ v[o].filled <= 0
    BY <1>2, VenueTypes DEF VenueSound
  <2> QED BY <2>1, <2>2
<1>6. Others(s, o) = s
  BY <1>5 DEF Others
<1>7. VenueSound(u)
  BY <1>1, <1>2 DEF VenueSound
<1>8. SeenTrue(s, u)
  BY <1>1, <1>2, <1>5, FillPairs DEF SeenTrue
<1>9. Covered(s, u, o)
  <2>1. \A a \in Orders \ {o} : Counted(s, u, a)
    BY <1>1, <1>3 DEF Settled, Counted, CanTrade
  <2>2. Total(s) \in Nat /\ x.qty \in Int /\ (x.st # "none" => x.qty \in Int)
    BY <1>2, TotalType DEF VenueOrders
  <2>3. Total(s) <= Target
    BY <1>2, Within DEF Sound
  <2>4. Total(s) + x.qty <= Target /\ (x.st # "none" => Total(s) + x.qty > Target - Step)
    BY <1>4, <2>2, <2>3
  <2>5. o # F => u[F].st = "none"
    <3>1. Covered(s, v, w.client) /\ w.client # F
      BY <1>4 DEF Sound, InWork, Sent, Terminal, Typed, RowOK, Rows, Limits, F
    <3> QED BY <1>1, <3>1 DEF Covered, Orders
  <2> QED BY <1>1, <1>6, <2>1, <2>4, <2>5 DEF Covered
<1>10. \E c \in Orders : Covered(s, u, c) /\ (w.state \notin Terminal => c = InWork(m, w))
  BY <1>3, <1>9 DEF InWork
<1>11. Ahead(m, w, u)
  BY <1>1, <1>3 DEF Sound, Ahead, Sent, Orders
<1>12. Sending(m, w, s)
  BY DEF Sound, Sending
<1>13. Told(m, w, u) /\ ~Clear(m, w) /\ Current(m, w) /\ Concluded(w, u)
  BY <1>1, <1>3, <1>4 DEF Told, Clear, Sent, Current, Concluded
<1> QED BY <1>7, <1>8, <1>10, <1>11, <1>12, <1>13 DEF Sound, u

(* placeLimitOrder, placeMarketOrder *)
LEMMA SendSingle == ASSUME Working, NEW p \in Pollers, Send(p) PROVE SInv'
<1> DEFINE l == proc[p]
           o == NextOrder(l)
           q == l.qty
           fresh == [st |-> "live", qty |-> q, filled |-> 0]
           wired == [st |-> "wire", qty |-> q, filled |-> 0]
<1>1. l.pc = "send" /\ ~Sent(l) /\ l.rec = wf /\ l \in Locals /\ wf.state \notin Terminal
      /\ Typed(l, wf, seen, venue) /\ Sound(l, wf, seen, venue) /\ UNCHANGED <<wf, seen>>
  BY TheCaller DEF Send, Sent
<1>2. o \in Orders /\ o = OrderToSend(p) /\ venue[o].st = "none"
  BY <1>1, NextIsNew
<1>3. venue[o] \in VenueOrders /\ venue[o].qty = 0 /\ venue[o].filled = 0 /\ q \in 0 .. Target
  <2>1. venue[o].filled \in 0 .. Target /\ venue[o].filled <= venue[o].qty /\ venue[o].qty = 0
    BY <1>1, <1>2, VenueTypes DEF Typed, Sound, VenueSound
  <2> QED BY <1>1, <1>2, <2>1, VenueTypes DEF Typed, Locals
<1>4. Accepted(o, q) = fresh
  BY <1>2 DEF Accepted
<1>5. /\ fresh \in VenueOrders /\ fresh.st = "live" /\ fresh.qty = q /\ fresh.filled = 0
      /\ wired \in VenueOrders /\ wired.st = "wire" /\ wired.qty = q /\ wired.filled = 0
      /\ FilledAtOnce(q) \in VenueOrders /\ FilledAtOnce(q).st = "filled"
      /\ FilledAtOnce(q).qty = q /\ FilledAtOnce(q).filled = q
  BY <1>3 DEF VenueOrders, FilledAtOnce
<1> HIDE DEF fresh, wired
<1>6. ASSUME NEW m, Goto(p, m), m.pc = "persist", m.out \in {"ACK", "AMBIGUOUS"},
             m.rec = wf, m.kind = l.kind, m.qty = q,
             NEW x \in {fresh, wired, FilledAtOnce(q), venue[o]},
             venue' = [venue EXCEPT ![o] = x],
             m.out = "ACK" => m.got \in {0, x.filled}
      PROVE  SInv'
  <2>1. /\ x \in VenueOrders /\ x.filled \in 0 .. Target
        /\ x.filled <= x.qty /\ (x.st = "filled" => x.filled = x.qty)
        /\ x.st \in {"wire", "rejected"} => x.filled = 0
        /\ (x.st # "none" => x.qty = q) /\ (x.st = "none" => x.qty = 0)
    BY <1>2, <1>3, <1>5, <1>6
  <2>2. m.out = "ACK" => m.got >= 0 /\ m.got <= x.filled
    BY <1>6, <2>1
  <2> HIDE DEF o, l, q
  <2>3. Sound(m, wf, seen, [venue EXCEPT ![o] = x])
    BY <1>1, <1>2, <1>6, <2>1, <2>2, SendSound DEF o, q
  <2>4. Sound(m, wf', seen', venue')
    BY <1>1, <1>6, <2>3
  <2> QED BY <1>6, <2>4, Reaches
<1>7. ASSUME NEW v \in {Accepted(o, q)} \cup
                 (IF o = F /\ venue[F].st = "none" THEN {FilledAtOnce(q)} ELSE {}),
             venue' = [venue EXCEPT ![o] = v], NEW n \in {0, v.filled},
             Goto(p, [l EXCEPT !.pc = "persist", !.out = "ACK", !.got = n])
      PROVE  SInv'
  <2> DEFINE m == [l EXCEPT !.pc = "persist", !.out = "ACK", !.got = n]
  <2>1. m.pc = "persist" /\ m.out = "ACK" /\ m.rec = wf /\ m.kind = l.kind /\ m.qty = q
        /\ m.got = n
    BY <1>1 DEF Locals
  <2>2. v \in {fresh, wired, FilledAtOnce(q), venue[o]}
    BY <1>4
  <2>3. Goto(p, m)
    BY <1>7
  <2> HIDE DEF m, o, l, q
  <2> QED BY <1>6, <1>7, <2>1, <2>2, <2>3
<1>8. ASSUME NEW v \in {Accepted(o, q), venue[o]} \cup
                 (IF venue[o].st = "none" THEN {wired} ELSE {}),
             venue' = [venue EXCEPT ![o] = v],
             Goto(p, [l EXCEPT !.pc = "persist", !.out = "AMBIGUOUS"])
      PROVE  SInv'
  <2> DEFINE m == [l EXCEPT !.pc = "persist", !.out = "AMBIGUOUS"]
  <2>1. m.pc = "persist" /\ m.out = "AMBIGUOUS" /\ m.rec = wf /\ m.kind = l.kind /\ m.qty = q
    BY <1>1 DEF Locals
  <2>2. v \in {fresh, wired, FilledAtOnce(q), venue[o]}
    BY <1>4
  <2>3. Goto(p, m)
    BY <1>8
  <2> HIDE DEF m, o, l, q
  <2> QED BY <1>6, <1>8, <2>1, <2>2, <2>3
<1>9. ASSUME UNCHANGED venue, NEW r \in {"MAKER", "REJECT"},
             Goto(p, [l EXCEPT !.pc = "persist", !.out = r])
      PROVE  SInv'
  <2> DEFINE m == [l EXCEPT !.pc = "persist", !.out = r]
  <2>1. m.pc = "persist" /\ m.out = r /\ m.rec = wf /\ m.kind = l.kind /\ m.qty = q
    BY <1>1 DEF Locals
  <2>2. Goto(p, m)
    BY <1>9
  <2> HIDE DEF m
  <2>3. Settled(seen, venue)
    BY <1>1 DEF Sound, Clear
  <2>4. ~Sent(m) /\ Current(m, wf) /\ Sending(m, wf, seen) /\ Told(m, wf, venue)
    BY <1>1, <2>1 DEF Sent, Current, Sound, Sending, Told
  <2>5. Sound(m, wf, seen, venue)
    BY <1>1, <2>3, <2>4, TurnSound
  <2>6. Sound(m, wf', seen', venue')
    BY <1>1, <1>9, <2>5
  <2> QED BY <2>2, <2>6, Reaches
<1>10. o = F => venue[F].st = "none"
  BY <1>2
<1> HIDE DEF q, l
<1> QED
  <2>1. \/ \E v \in {Accepted(o, q)} \cup
                    (IF o = F /\ venue[F].st = "none" THEN {FilledAtOnce(q)} ELSE {}) :
             /\ venue' = [venue EXCEPT ![o] = v]
             /\ \E n \in {0, v.filled} :
                  Goto(p, [l EXCEPT !.pc = "persist", !.out = "ACK", !.got = n])
        \/ /\ UNCHANGED venue
           /\ \E r \in {"MAKER", "REJECT"} : Goto(p, [l EXCEPT !.pc = "persist", !.out = r])
        \/ /\ \E v \in {Accepted(o, q), venue[o]} \cup
                       (IF venue[o].st = "none" THEN {wired} ELSE {}) :
                venue' = [venue EXCEPT ![o] = v]
           /\ Goto(p, [l EXCEPT !.pc = "persist", !.out = "AMBIGUOUS"])
    <3> HIDE DEF o
    <3> QED BY <1>2, Zenon DEF Send, l, q, wired
  <2> HIDE DEF o
  <2> QED BY <1>7, <1>8, <1>9, <2>1

(* An order that was sent is written down. *)
LEMMA NotedSound ==
  ASSUME NEW l, NEW m, NEW w, NEW n, NEW s, NEW t, NEW v,
         Typed(l, w, s, v), Sound(l, w, s, v), Sent(l), l.rec = w, w.state \notin Terminal,
         t \in SUBSET Fills, SeenTrue(t, v), Covered(t, v, NextOrder(l)),
         n.state \in {"SUBMITTED", "FALLBACK_SUBMITTED"},
         n.state = "SUBMITTED" =>
           n.client = NextOrder(l) /\ NextOrder(l) <= n.attempt
           /\ \A o \in Limits : o > n.attempt => o > w.attempt /\ o # NextOrder(l),
         n.state = "FALLBACK_SUBMITTED" => NextOrder(l) = F,
         \/ m.pc \in {"idle", "load"}
         \/ m.pc = "read" /\ m.rec = n /\ n.state = "FALLBACK_SUBMITTED"
            /\ m.view = "?" /\ m.got = -1
  PROVE  Sound(m, n, t, v)
<1>1. VenueSound(v) /\ VenueOK(v) /\ ~Sent(m) /\ ~Clear(m, n) /\ Current(m, n)
  BY DEF Typed, Sound, Sent, Clear, Current, Terminal
<1>2. InWork(m, n) = NextOrder(l) /\ NextOrder(l) \in Orders
  BY <1>1 DEF InWork, Covered
<1>3. Ahead(m, n, v)
  <2>1. w.state \in {"NEW", "CANCELLED", "REJECTED"}
    BY DEF Sound, Sending, Sent
  <2> QED BY <2>1 DEF Sound, Ahead, Terminal
<1>4. Sending(m, n, t) /\ Concluded(n, v)
  BY DEF Sending, Concluded
<1>5. Told(m, n, v)
  <2>1. CASE m.pc \in {"idle", "load"}
    BY <2>1 DEF Told
  <2>2. CASE m.pc = "read" /\ n.state = "FALLBACK_SUBMITTED" /\ m.view = "?" /\ m.got = -1
    <3>1. OrderOf(n) = F /\ F \in Orders
      BY <2>2 DEF OrderOf, Orders
    <3>2. -1 <= v[F].filled
      BY <1>1, <3>1, VenueTypes
    <3> QED BY <2>2, <3>1, <3>2 DEF Told
  <2> QED BY <2>1, <2>2
<1> QED BY <1>1, <1>2, <1>3, <1>4, <1>5 DEF Sound

(* A submit that may have reached the venue is written, with its fills.    *)
LEMMA Notes ==
  ASSUME Working, NEW p \in Pollers, Sent(proc[p]), NEW new \in Rows, NEW fills, NEW m,
         Mutate(p, new, fills, m),
         \/ fills = seen
         \/ proc[p].out = "ACK" /\ fills = WithFills(NextOrder(proc[p]), proc[p].got),
         new.state \in {"SUBMITTED", "FALLBACK_SUBMITTED"}, CanTransition(wf.state, new.state),
         new.state = "SUBMITTED" =>
           new.client = NextOrder(proc[p]) /\ NextOrder(proc[p]) <= new.attempt
           /\ \A o \in Limits : o > new.attempt => o > wf.attempt /\ o # NextOrder(proc[p]),
         new.state = "FALLBACK_SUBMITTED" => NextOrder(proc[p]) = F,
         \/ m.pc \in {"idle", "load"}
         \/ /\ m \in Locals /\ m.pc = "read" /\ new.state = "FALLBACK_SUBMITTED"
            /\ m.view = "?" /\ m.got = -1
  PROVE  SInv'
<1> DEFINE l == proc[p]
           c == NextOrder(l)
           saved == [new EXCEPT !.version = wf.version + 1]
           next == IF m.pc \in {"idle", "load"} THEN m ELSE [m EXCEPT !.rec = saved]
<1>1. l.pc = "persist" /\ l.rec = wf /\ wf.state \notin Terminal /\ l \in Locals
      /\ Typed(l, wf, seen, venue) /\ Sound(l, wf, seen, venue)
  BY TheCaller DEF Sent
<1>2. Covered(seen, venue, c) /\ VenueOK(venue) /\ VenueSound(venue) /\ SeenTrue(seen, venue)
      /\ seen \in SUBSET Fills
  BY <1>1 DEF Sound, InWork, Typed
<1>3. fills \in SUBSET Fills /\ SeenTrue(fills, venue) /\ Covered(fills, venue, c)
      /\ Total(fills) <= Target
  <2>1. CASE fills = seen
    BY <1>2, <2>1, Within
  <2>2. CASE l.out = "ACK" /\ fills = WithFills(c, l.got)
    <3>1. l.got \in Int /\ l.got <= venue[c].filled /\ fills = seen \cup FillsOf(c, l.got)
      BY <1>1, <2>2 DEF Sound, Told, Locals, WithFills
    <3> HIDE DEF c
    <3> QED BY <1>2, <3>1, Recording
  <2> QED BY <2>1, <2>2
<1>4. saved.state = new.state /\ saved.client = new.client /\ saved.attempt = new.attempt
  BY SavedRow
<1>5. \/ next.pc \in {"idle", "load"}
      \/ next.pc = "read" /\ next.rec = saved /\ saved.state = "FALLBACK_SUBMITTED"
         /\ next.view = "?" /\ next.got = -1
  BY <1>4 DEF Locals
<1>6. Sound(next, saved, fills, venue)
  <2> HIDE DEF next, saved, c, l
  <2> QED BY <1>1, <1>3, <1>4, <1>5, NotedSound DEF c, l
<1> QED BY <1>1, <1>3, <1>6, Writes

(* The row a submit is written down from. *)
LEMMA NotedFrom ==
  ASSUME Working, NEW p \in Pollers, proc[p].pc = "persist"
  PROVE  /\ proc[p].rec = wf /\ wf \in Rows /\ wf.attempt <= wf.reprices /\ proc[p] \in Locals
         /\ wf.state \in {"NEW", "CANCELLED", "REJECTED"}
         /\ proc[p].kind = "first" <=> wf.state = "NEW"
         /\ proc[p].kind = "fallback" => wf.state = "CANCELLED"
         /\ proc[p].out \notin {"ACK", "AMBIGUOUS"} =>
              ~Sent(proc[p]) /\ Settled(seen, venue) /\ Quiet(venue)
         /\ proc[p].kind = "reprice" => wf.reprices < MaxReprices
  BY TheCaller, PollerFacts
     DEF Typed, RowOK, Sound, Sending, Sent, Clear, Working, Sendable, Quiet, Settled, Counted

(* start, after the venue answered *)
LEMMA PersistFirstSingle == ASSUME Working, NEW p \in Pollers, PersistFirst(p) PROVE SInv'
<1> DEFINE l == proc[p]
           r == l.rec
           acked == [r EXCEPT !.state = "SUBMITTED", !.client = 0, !.reason = "OTHER", !.active = TRUE]
           unclear == [r EXCEPT !.state = "SUBMITTED", !.client = 0, !.reason = "OTHER", !.active = FALSE]
           why == IF l.out = "MAKER" THEN "MAKER_REJECT" ELSE "OTHER"
           refused == [r EXCEPT !.state = "REJECTED", !.reason = why]
           load == [Idle EXCEPT !.pc = "load"]
           k == IF l.out = "MAKER" /\ r.reprices < MaxReprices THEN "quote" ELSE "exhaust"
           fills == WithFills(0, l.got)
<1>1. /\ l.pc = "persist" /\ l.kind = "first" /\ l.rec = wf /\ wf \in Rows /\ l \in Locals
      /\ wf.state = "NEW"
      /\ l.out \notin {"ACK", "AMBIGUOUS"} =>
           ~Sent(l) /\ Settled(seen, venue) /\ Quiet(venue)
  BY NotedFrom DEF PersistFirst
<1>2. NextOrder(l) = 0 /\ 0 \in Limits /\ wf.attempt \in Limits
  BY <1>1 DEF NextOrder, Limits, Rows
<1>3. ASSUME NEW new \in {acked, unclear}
      PROVE  /\ new \in Rows /\ new.state = "SUBMITTED" /\ new.client = 0
             /\ new.attempt = wf.attempt
  BY <1>1, <1>2, Zenon DEF Rows, States, Reasons
<1>4. CanTransition("NEW", "SUBMITTED")
  BY DEF CanTransition, ALLOWED_TRANSITIONS
<1>5. CASE l.out = "ACK" /\ Mutate(p, acked, fills, load)
  <2>1. load.pc = "load" /\ Sent(l)
    BY <1>1, <1>5 DEF Idle, Sent
  <2>2. acked \in Rows /\ acked.state = "SUBMITTED" /\ acked.client = 0 /\ acked.attempt = wf.attempt
    BY <1>3
  <2>3. fills = WithFills(NextOrder(l), l.got)
    BY <1>2
  <2>4. 0 <= wf.attempt /\ \A o \in Limits : o > wf.attempt => o # 0
    BY <1>2 DEF Limits
  <2> HIDE DEF acked, load, fills
  <2> QED BY <1>1, <1>2, <1>4, <1>5, <2>1, <2>2, <2>3, <2>4, Notes
<1>6. CASE l.out = "AMBIGUOUS" /\ Transition(p, unclear, Ended(p))
  <2>1. Ended(p).pc \in {"idle", "load"} /\ Sent(l) /\ Mutate(p, unclear, seen, Ended(p))
    BY <1>1, <1>6, EndedOK DEF Working, Sent, Transition
  <2>2. unclear \in Rows /\ unclear.state = "SUBMITTED" /\ unclear.client = 0 /\ unclear.attempt = wf.attempt
    BY <1>3
  <2>4. 0 <= wf.attempt /\ \A o \in Limits : o > wf.attempt => o # 0
    BY <1>2 DEF Limits
  <2> HIDE DEF unclear
  <2> QED BY <1>1, <1>2, <1>4, <2>1, <2>2, <2>4, Notes
<1>7. CASE l.out \in {"MAKER", "REJECT"} /\ Transition(p, refused, At(p, k))
  <2>1. why \in Reasons
    BY DEF Reasons
  <2>2. refused \in Rows /\ refused.state = "REJECTED" /\ refused.client = wf.client
        /\ refused.attempt = wf.attempt
    <3> HIDE DEF why
    <3> QED BY <1>1, <2>1, Zenon DEF Rows, States
  <2> HIDE DEF refused
  <2>3. k \in PCs /\ k \in {"quote", "exhaust"}
    BY DEF PCs
  <2> HIDE DEF k
  <2>4. At(p, k) \in Locals /\ At(p, k).pc = k /\ ~Sent(At(p, k))
    BY <2>3, AtFacts DEF Sent
  <2>5. Sending(At(p, k), refused, seen) /\ Told(At(p, k), refused, venue)
    BY <2>2, <2>3, <2>4 DEF Sending, Told
  <2> QED BY <1>1, <1>7, <2>2, <2>3, <2>4, <2>5, WritesAndGoesOn DEF Terminal
<1> QED
  <2> HIDE DEF k, why
  <2> QED BY <1>1, <1>5, <1>6, <1>7, Zenon DEF PersistFirst, k, why

(* reprice, after the venue answered: the attempt counter moves with it *)
LEMMA PersistRepriceSingle == ASSUME Working, NEW p \in Pollers, PersistReprice(p) PROVE SInv'
<1> DEFINE l == proc[p]
           r == l.rec
           n == r.attempt + 1
           b == r.reprices + 1
           submitted == [r EXCEPT !.state = "SUBMITTED", !.attempt = n, !.client = n,
                                  !.reprices = b, !.reason = "OTHER"]
           acked == [submitted EXCEPT !.active = TRUE, !.cancels = 0, !.confirmed = FALSE]
           unclear == [submitted EXCEPT !.active = FALSE]
           why == IF l.out = "MAKER" THEN "MAKER_REJECT" ELSE "OTHER"
           refused == [r EXCEPT !.state = "REJECTED", !.attempt = n, !.reprices = b, !.reason = why]
           k == IF l.out = "MAKER" /\ r.reprices + 1 < MaxReprices THEN "quote" ELSE "exhaust"
           fills == WithFills(n, l.got)
<1>1. /\ l.pc = "persist" /\ l.kind = "reprice" /\ l.rec = wf /\ wf \in Rows /\ l \in Locals
      /\ wf.state \in {"CANCELLED", "REJECTED"} /\ wf.attempt <= wf.reprices
      /\ wf.reprices < MaxReprices
      /\ l.out \notin {"ACK", "AMBIGUOUS"} => ~Sent(l) /\ Settled(seen, venue)
  BY NotedFrom DEF PersistReprice
<1>2. /\ n \in Limits /\ b \in Limits /\ 0 \in Nat /\ n = wf.attempt + 1 /\ NextOrder(l) = n
      /\ n <= n /\ \A o \in Limits : o > n => o > wf.attempt /\ o # n
  BY <1>1 DEF Rows, Limits, NextOrder
<1>3. submitted \in Rows /\ submitted.state = "SUBMITTED" /\ submitted.client = n
      /\ submitted.attempt = n
  <2> HIDE DEF n, b
  <2> QED BY <1>1, <1>2, Zenon DEF Rows, States, Reasons
<1>4. ASSUME NEW new \in {acked, unclear}
      PROVE  new \in Rows /\ new.state = "SUBMITTED" /\ new.client = n /\ new.attempt = n
  <2> HIDE DEF submitted, n, b
  <2> QED BY <1>2, <1>3, Zenon DEF Rows
<1>5. CanTransition(wf.state, "SUBMITTED")
  BY <1>1 DEF CanTransition, ALLOWED_TRANSITIONS
<1>6. Ended(p).pc \in {"idle", "load"}
  BY EndedOK DEF Working
<1>7. CASE l.out = "ACK" /\ Mutate(p, acked, fills, Ended(p))
  <2>1. Sent(l) /\ fills = WithFills(NextOrder(l), l.got)
    BY <1>1, <1>2, <1>7 DEF Sent
  <2>2. acked \in Rows /\ acked.state = "SUBMITTED" /\ acked.client = n /\ acked.attempt = n
    BY <1>4
  <2> HIDE DEF acked, fills, n
  <2> QED BY <1>2, <1>5, <1>6, <1>7, <2>1, <2>2, Notes
<1>8. CASE l.out = "AMBIGUOUS" /\ Transition(p, unclear, Ended(p))
  <2>1. Sent(l) /\ Mutate(p, unclear, seen, Ended(p))
    BY <1>1, <1>8 DEF Sent, Transition
  <2>2. unclear \in Rows /\ unclear.state = "SUBMITTED" /\ unclear.client = n /\ unclear.attempt = n
    BY <1>4
  <2> HIDE DEF unclear, n
  <2> QED BY <1>2, <1>5, <1>6, <2>1, <2>2, Notes
<1>9. CASE l.out \in {"MAKER", "REJECT"} /\ Transition(p, refused, At(p, k))
  <2>1. why \in Reasons
    BY DEF Reasons
  <2>2. refused \in Rows /\ refused.state = "REJECTED" /\ refused.client = wf.client
        /\ refused.attempt = n
    <3> HIDE DEF why, n, b
    <3> QED BY <1>1, <1>2, <2>1, Zenon DEF Rows, States
  <2> HIDE DEF refused
  <2>3. k \in PCs /\ k \in {"quote", "exhaust"}
    BY DEF PCs
  <2> HIDE DEF k, n
  <2>4. At(p, k) \in Locals /\ At(p, k).pc = k /\ ~Sent(At(p, k))
    BY <2>3, AtFacts DEF Sent
  <2>5. Sending(At(p, k), refused, seen) /\ Told(At(p, k), refused, venue)
    BY <2>2, <2>3, <2>4 DEF Sending, Told
  <2> QED BY <1>1, <1>2, <1>9, <2>2, <2>3, <2>4, <2>5, WritesAndGoesOn DEF Terminal
<1> QED
  <2> HIDE DEF k, why
  <2> QED BY <1>7, <1>8, <1>9, Zenon DEF PersistReprice, k, why

(* fallback, after the venue answered *)
LEMMA PersistFallbackSingle == ASSUME Working, NEW p \in Pollers, PersistFallback(p) PROVE SInv'
<1> DEFINE l == proc[p]
           r == l.rec
           acked == [r EXCEPT !.state = "FALLBACK_SUBMITTED", !.reason = "OTHER", !.fb = TRUE]
           unclear == [r EXCEPT !.state = "FALLBACK_SUBMITTED", !.reason = "OTHER", !.fb = FALSE]
           reading == [l EXCEPT !.pc = "read", !.view = "?", !.got = -1]
           fills == WithFills(F, l.got)
<1>1. /\ l.pc = "persist" /\ l.kind = "fallback" /\ l.rec = wf /\ wf \in Rows /\ l \in Locals
      /\ wf.state = "CANCELLED"
      /\ l.out \notin {"ACK", "AMBIGUOUS"} => ~Sent(l) /\ Quiet(venue)
  BY NotedFrom DEF PersistFallback
<1>2. NextOrder(l) = F
  BY <1>1 DEF NextOrder
<1>3. ASSUME NEW new \in {acked, unclear}
      PROVE  new \in Rows /\ new.state = "FALLBACK_SUBMITTED"
  BY <1>1, Zenon DEF Rows, States, Reasons
<1>4. CanTransition("CANCELLED", "FALLBACK_SUBMITTED")
  BY DEF CanTransition, ALLOWED_TRANSITIONS
<1>5. CASE l.out = "ACK" /\ Mutate(p, acked, fills, reading)
  <2>1. Sent(l) /\ fills = WithFills(NextOrder(l), l.got)
    BY <1>1, <1>2, <1>5 DEF Sent
  <2>2. acked \in Rows /\ acked.state = "FALLBACK_SUBMITTED"
    BY <1>3
  <2>3. reading \in Locals /\ reading.pc = "read" /\ reading.view = "?" /\ reading.got = -1
    <3>1. "read" \in PCs /\ "?" \in Views /\ -1 \in -1 .. Target
      BY DEF PCs, Views
    <3> QED BY <1>1, <3>1, Zenon DEF Locals
  <2> HIDE DEF acked, fills, reading
  <2> QED BY <1>1, <1>2, <1>4, <1>5, <2>1, <2>2, <2>3, Notes
<1>6. CASE l.out = "AMBIGUOUS" /\ Transition(p, unclear, Ended(p))
  <2>1. Sent(l) /\ Mutate(p, unclear, seen, Ended(p)) /\ Ended(p).pc \in {"idle", "load"}
    BY <1>1, <1>6, EndedOK DEF Sent, Transition, Working
  <2>2. unclear \in Rows /\ unclear.state = "FALLBACK_SUBMITTED"
    BY <1>3
  <2> HIDE DEF unclear
  <2> QED BY <1>1, <1>2, <1>4, <2>1, <2>2, Notes
<1>7. CASE l.out = "REJECT" /\ Fail(p, "OTHER")
  BY <1>1, <1>7, Fails DEF Reasons
<1> QED BY <1>5, <1>6, <1>7, Zenon DEF PersistFallback

-----------------------------------------------------------------------------
(* The steps of the venue, and the theorems.                               *)

LEMMA VenueSingle == ASSUME Working, NEW o \in Orders, Venue(o) PROVE SInv'
<1> DEFINE l == proc[Caller]
<1>1. Caller \in Pollers /\ Sound(l, wf, seen, venue) /\ Typed(l, wf, seen, venue)
  <2>1. Caller \in Pollers
    BY DEF Working, Alone
  <2> QED BY <2>1, TheCaller
<1>2. /\ venue[o] \in VenueOrders /\ venue[o].filled \in 0 .. Target /\ venue[o].qty \in 0 .. Target
      /\ venue[o].st \in {"wire", "live"} => venue[o].filled < venue[o].qty
      /\ venue[o].filled <= venue[o].qty /\ (venue[o].st = "wire" => venue[o].filled = 0)
  BY <1>1, VenueTypes DEF Typed, VenueOK, Sound, VenueSound
<1>3. ASSUME NEW x \in VenueOrders, VenueStep(o, x), CanTrade(venue, o),
             x.filled >= venue[o].filled, x.filled <= x.qty,
             x.st = "filled" => x.filled = x.qty,
             x.st \in {"wire", "rejected"} => x.filled = 0,
             \/ x.st # "none" /\ x.qty = venue[o].qty
             \/ x.st = "none" /\ x.qty = 0
      PROVE  SInv'
  <2>1. Sound(l, wf, seen, [venue EXCEPT ![o] = x])
    BY <1>1, <1>3, VenueMoves
  <2> QED BY <1>3, <2>1 DEF VenueStep, SInv
<1>4. CASE Arrive(o)
  <2> DEFINE x == [venue[o] EXCEPT !.st = "live"]
  <2>1. x \in VenueOrders /\ x.st = "live" /\ x.qty = venue[o].qty /\ x.filled = venue[o].filled
    BY <1>2 DEF VenueOrders
  <2>2. VenueStep(o, x) /\ CanTrade(venue, o)
    BY <1>4 DEF Arrive, CanTrade
  <2> HIDE DEF x
  <2> QED BY <1>2, <1>3, <2>1, <2>2
<1>5. CASE Drop(o)
  <2> DEFINE x == [venue[o] EXCEPT !.st = "none", !.qty = 0]
  <2>1. x \in VenueOrders /\ x.st = "none" /\ x.qty = 0 /\ x.filled = venue[o].filled
    <3>1. 0 \in 0 .. Target
      OBVIOUS
    <3> QED BY <1>2, <3>1, Zenon DEF VenueOrders
  <2>2. VenueStep(o, x) /\ CanTrade(venue, o) /\ venue[o].filled = 0
    BY <1>2, <1>5 DEF Drop, CanTrade
  <2> HIDE DEF x
  <2> QED BY <1>2, <1>3, <2>1, <2>2
<1>6. CASE Fill(o)
  <2> DEFINE n == venue[o].filled + 1
             st == IF n >= venue[o].qty THEN "filled" ELSE "live"
             x == [venue[o] EXCEPT !.filled = n, !.st = st]
  <2>1. venue[o].st = "live" /\ CanTrade(venue, o) /\ VenueStep(o, x)
    BY <1>6 DEF Fill, CanTrade
  <2>2. n \in 0 .. Target /\ n <= venue[o].qty /\ n >= venue[o].filled
        /\ (st = "filled" => n = venue[o].qty) /\ st \in {"filled", "live"}
    BY <1>2, <2>1
  <2> HIDE DEF n, st
  <2>3. x \in VenueOrders /\ x.st = st /\ x.qty = venue[o].qty /\ x.filled = n
    BY <1>2, <2>2 DEF VenueOrders
  <2> HIDE DEF x
  <2> QED BY <1>3, <2>1, <2>2, <2>3
<1>7. CASE VenueCancel(o)
  <2> DEFINE x == [venue[o] EXCEPT !.st = "canceled"]
  <2>1. x \in VenueOrders /\ x.st = "canceled" /\ x.qty = venue[o].qty /\ x.filled = venue[o].filled
    BY <1>2 DEF VenueOrders
  <2>2. VenueStep(o, x) /\ CanTrade(venue, o)
    BY <1>7 DEF VenueCancel, CanTrade
  <2> HIDE DEF x
  <2> QED BY <1>2, <1>3, <2>1, <2>2
<1>8. CASE LateReject(o)
  <2> DEFINE x == [venue[o] EXCEPT !.st = "rejected"]
  <2>1. x \in VenueOrders /\ x.st = "rejected" /\ x.qty = venue[o].qty /\ x.filled = venue[o].filled
    BY <1>2 DEF VenueOrders
  <2>2. VenueStep(o, x) /\ CanTrade(venue, o) /\ venue[o].filled = 0
    BY <1>8 DEF LateReject, CanTrade
  <2> HIDE DEF x
  <2> QED BY <1>2, <1>3, <2>1, <2>2
<1> QED BY <1>4, <1>5, <1>6, <1>7, <1>8 DEF Venue

(* Nothing is at the venue before there is a workflow. *)
LEMMA InitSingle == Init /\ Alone => SInv
<1> SUFFICES ASSUME Init, Alone PROVE SInv
  OBVIOUS
<1>1. /\ proc[Caller] = Idle /\ Idle.pc = "idle" /\ Absent.state = "ABSENT" /\ Absent.client = 0
      /\ wf = Absent /\ seen = {}
  BY DEF Init, Alone, Idle, Absent
<1>2. \A o \in Orders : venue[o].st = "none" /\ venue[o].qty = 0 /\ venue[o].filled = 0
  BY DEF Init
<1>3. 0 \in Orders /\ 0 # F /\ F \in Orders
  BY DEF Orders, Limits, F
<1>4. VenueSound(venue) /\ SeenTrue(seen, venue)
  BY <1>1, <1>2 DEF VenueSound, SeenTrue
<1>5. \A o \in Orders : Counted(seen, venue, o)
  <2>1. \A o : FillsOf(o, 0) = {}
    BY DEF FillsOf
  <2> QED BY <1>2, <2>1 DEF Counted, CanTrade
<1>6. Covered(seen, venue, 0)
  <2>1. Others(seen, 0) = {} /\ Total({}) = 0
    BY <1>1, FS_EmptySet DEF Others, Total
  <2>2. Total(Others(seen, 0)) + venue[0].qty <= Target /\ venue[0].st = "none"
    <3>1. Total(Others(seen, 0)) = 0 /\ venue[0].qty = 0
      BY <1>2, <1>3, <2>1
    <3> QED BY <1>2, <1>3, <3>1
  <2>3. venue[F].st = "none"
    BY <1>2, <1>3
  <2> QED BY <1>3, <1>5, <2>2, <2>3 DEF Covered
<1>7. ~Sent(Idle) /\ InWork(Idle, Absent) = 0
  BY <1>1 DEF Sent, InWork
<1>8. Current(Idle, Absent) /\ Ahead(Idle, Absent, venue) /\ Settled(seen, venue)
      /\ Sending(Idle, Absent, seen) /\ Told(Idle, Absent, venue) /\ Concluded(Absent, venue)
  BY <1>1, <1>2, <1>5 DEF Current, Ahead, Settled, Sending, Told, Concluded, Orders
<1> QED BY <1>1, <1>3, <1>4, <1>6, <1>7, <1>8 DEF SInv, Sound

LEMMA ControllerSingle == ASSUME Working, NEW p \in Pollers, Controller(p) PROVE SInv'
  BY DenySingle, SendSingle, PersistFirstSingle, PersistRepriceSingle, PersistFallbackSingle,
     ExhaustSingle, PollSingle, ResolveSingle, ReadSingle, RecordSingle, LiveSingle, TtlSingle,
     CancelOrderSingle, ConfirmSingle, PendingSingle, RetrySingle, PersistRetrySingle,
     AfterCancelSingle, RepriceSingle, AfterFallbackSingle, AbortSingle DEF Controller

LEMMA NextSingle == Working /\ [Next]_vars => SInv'
<1> SUFFICES ASSUME Working, [Next]_vars PROVE SInv'
  OBVIOUS
<1>1. ASSUME NEW p \in Pollers, Start(p) \/ CancelOpen(p) PROVE SInv'
  BY <1>1, StartSingle, CancelOpenSingle
<1>2. ASSUME NEW p \in Pollers, Controller(p) PROVE SInv'
  BY <1>2, ControllerSingle
<1>3. ASSUME NEW p \in Pollers, Crash(p) PROVE FALSE
  BY <1>3 DEF Crash, Working, Alone, IInv
<1>4. ASSUME NEW o \in Orders, Venue(o) PROVE SInv'
  BY <1>4, VenueSingle
<1>5. CASE Tick
  BY <1>5 DEF Tick, SInv, Working
<1>6. CASE UNCHANGED vars
  BY <1>6 DEF vars, SInv, Working
<1> QED BY <1>1, <1>2, <1>3, <1>4, <1>5, <1>6 DEF Next

(* The orders of such a workflow are worked one after the other.           *)
THEOREM WorkedInTurn == ASSUME Alone PROVE Spec => [](IInv /\ SInv)
<1>1. Init => IInv /\ SInv
  BY InitOK, InitSingle
<1>2. IInv /\ SInv /\ [Next]_vars => IInv' /\ SInv'
  BY NextOK, NextSingle DEF Working
<1> QED BY <1>1, <1>2, PTL DEF Spec

(* What the order in work may still claim is what the others have left.    *)
LEMMA ClaimsBounded == ASSUME IInv, SInv, Alone PROVE NoDoubleExposure
<1>1. PICK c \in Orders : Covered(seen, venue, c)
  BY DEF SInv, Sound
<1>2. seen \in SUBSET Fills /\ VenueOK(venue) /\ VenueSound(venue)
  BY DEF IInv, SInv, Sound
<1> DEFINE worth(o) == IF AtRisk(o) THEN venue[o].qty ELSE venue[o].filled
           bound == Others(seen, c) \cup FillsOf(c, venue[c].qty)
<1>3. \A o \in Orders : worth(o) \in 0 .. Target /\ worth(o) <= venue[o].qty
  BY <1>2, VenueTypes DEF VenueSound
<1>4. venue[c].qty \in 0 .. Target
  BY <1>2, VenueTypes
<1>5. bound \in SUBSET Fills /\ Total(bound) <= Target
  BY <1>1, <1>2, <1>4, TotalWith DEF Covered
<1>6. ASSUME NEW o \in Orders, NEW f \in FillsOf(o, worth(o)) PROVE f \in bound
  <2>1. f \in Fills /\ f[1] = o /\ f[2] \in 1 .. worth(o)
    <3> HIDE DEF worth
    <3> QED BY <1>3, <1>6, FillsOfMember
  <2>2. CASE o = c
    <3>1. f[2] <= venue[c].qty
      <4> HIDE DEF worth
      <4> QED BY <1>3, <1>4, <2>1, <2>2
    <3>2. f \in FillsOf(c, venue[c].qty)
      BY <1>4, <2>1, <2>2, <3>1, FillsOfMember
    <3> QED BY <3>2
  <2>3. CASE o # c
    <3>1. Counted(seen, venue, o)
      BY <1>1, <2>3 DEF Covered
    <3>2. f \in seen
      BY <1>6, <3>1 DEF Counted, CanTrade, AtRisk
    <3> QED BY <2>1, <2>3, <3>2 DEF Others
  <2> QED BY <2>2, <2>3
<1>7. Claims \subseteq bound
  BY <1>6 DEF Claims
<1>8. Total(Claims) <= Total(bound) /\ Total(Claims) \in Nat /\ Total(bound) \in Nat
  <2> HIDE DEF bound
  <2> QED BY <1>5, <1>7, TotalMono
<1> QED BY <1>5, <1>8 DEF NoDoubleExposure

(* Repricing and the fallback never put more at the venue than the target, *)
(* for any budgets and any answers a caller that is alone gets: before the *)
(* next order is sent the one it replaces is dead and its fills are        *)
(* counted (pollCancelled, reprice, fallback).                             *)
THEOREM ExposureOnce == ASSUME Alone PROVE Spec => []NoDoubleExposure
<1>1. IInv /\ SInv => NoDoubleExposure
  BY ClaimsBounded
<1> QED BY <1>1, WorkedInTurn, PTL

(* The market order goes out last: no limit order of the workflow can      *)
(* trade once the venue has it (evaluateFallbackGates, pollCancelled).     *)
THEOREM MarketGoesLast == ASSUME Alone PROVE Spec => []MarketLast
<1>1. SInv => MarketLast
  BY DEF SInv, Sound, Covered, Counted, CanTrade, AtRisk, MarketLast, Orders, Limits, F
<1> QED BY <1>1, WorkedInTurn, PTL

(* An order that may still trade is never lost from sight when fills are   *)
(* whole steps: the row points to it, or the caller is about to write it   *)
(* down, or the failure says that its cancel is open.                      *)
THEOREM NothingLeftBehind == ASSUME Alone, Step = 1 PROVE Spec => []NoOrphan
<1>1. IInv /\ SInv => NoOrphan
  <2> SUFFICES ASSUME IInv, SInv, NEW o \in Orders, AtRisk(o) PROVE Tracked(o)
    BY DEF NoOrphan
  <2> DEFINE l == proc[Caller]
  <2>1. CanTrade(venue, o) /\ ~Settled(seen, venue) /\ ~Quiet(venue) /\ ~Clear(l, wf)
    BY DEF AtRisk, CanTrade, Settled, Counted, Quiet, SInv, Sound
  <2>2. PICK c \in Orders : Covered(seen, venue, c) /\ (wf.state \notin Terminal => c = InWork(l, wf))
    BY DEF SInv, Sound
  <2>3. o = c
    BY <2>1, <2>2, TraderInWork
  <2>4. CASE wf.state \in Terminal
    BY <2>1, <2>4 DEF SInv, Sound, Concluded, Terminal, Tracked
  <2>5. CASE wf.state \notin Terminal /\ Sent(l)
    <3>1. l.pc = "persist" /\ o = NextOrder(l)
      BY <2>2, <2>3, <2>5 DEF InWork, Sent
    <3>2. OrderToSend(Caller) = NextOrder(l)
      BY DEF OrderToSend, NextOrder
    <3>3. Caller \in Pollers
      BY DEF Alone
    <3> QED BY <3>1, <3>2, <3>3 DEF Tracked
  <2>6. CASE wf.state \notin Terminal /\ ~Sent(l) /\ wf.state = "FALLBACK_SUBMITTED"
    BY <2>2, <2>3, <2>6 DEF InWork, Tracked
  <2>7. CASE wf.state \notin Terminal /\ ~Sent(l) /\ wf.state # "FALLBACK_SUBMITTED"
    <3>1. o = wf.client
      BY <2>2, <2>3, <2>7 DEF InWork
    <3>2. wf.state # "CANCELLED"
      BY <2>1, <3>1 DEF IInv, CancelOK, IsDead, CanTrade
    <3>3. wf.state \in Live \cup {"CANCEL_PENDING"}
      BY <2>1, <2>7, <3>2 DEF Clear, IInv, RowOK, Rows, States, Live, Terminal
    <3> QED BY <3>1, <3>3 DEF Tracked
  <2> QED BY <2>4, <2>5, <2>6, <2>7
<1> QED BY <1>1, WorkedInTurn, PTL
=============================================================================
