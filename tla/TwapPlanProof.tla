--------------------------- MODULE TwapPlanProof ---------------------------
(***************************************************************************)
(* Proofs about the planner, for every input that the policy allows.  What *)
(* planTwap makes and fitPlan fits is sound, and a plan is made exactly if *)
(* some number of slices within the window carries the target.             *)
(*                                                                         *)
(* A loop of the planner is a function of the rounds made so far; that it  *)
(* is one (Loop), and that what holds before the first round and across    *)
(* each holds after the last (Climb), is proved here once, with the sum of *)
(* a sequence, and used in TwapSchedulerProof too.                         *)
(***************************************************************************)
EXTENDS TwapPlan, SequenceTheorems, WellFoundedInduction, TLAPS

(* A set of naturals has a least one. *)
LEMMA LeastOf ==
  ASSUME NEW D, D \subseteq Nat, D # {}
  PROVE  \E m \in D : \A j \in D : m <= j
<1> DEFINE R == OpToRel(<, Nat)
<1>1. \A i, j \in Nat : i < j => <<i, j>> \in R
  BY DEF OpToRel
<1>2. IsWellFoundedOn(R, Nat)
  BY NatLessThanWellFounded
<1> HIDE DEF R
<1>4. PICK m \in D : \A j \in D : <<j, m>> \notin R
  BY <1>2, WFMin
<1>5. ASSUME NEW j \in D PROVE m <= j
  <2>1. m \in Nat /\ j \in Nat
    OBVIOUS
  <2>2. ~ (j < m)
    BY <1>1, <1>4, <2>1
  <2> QED BY <2>1, <2>2
<1> QED BY <1>5

(* What holds before the first round of a loop, and after a round if it    *)
(* held before it, holds after the last.                                   *)
LEMMA Climb ==
  ASSUME NEW n \in Nat, NEW S, 0 \in S, \A i \in 1 .. n : i - 1 \in S => i \in S
  PROVE  n \in S /\ \A i \in 0 .. n : i \in S
<1> DEFINE D == (0 .. n) \ S
<1>1. SUFFICES ASSUME D # {} PROVE FALSE
  OBVIOUS
<1>2. PICK m \in D : \A j \in D : m <= j
  <2>1. D \subseteq Nat
    OBVIOUS
  <2> HIDE DEF D
  <2> QED BY <1>1, <2>1, LeastOf
<1>3. m # 0 /\ m \in 1 .. n
  OBVIOUS
<1>4. m - 1 \notin D
  BY <1>2, <1>3
<1> QED BY <1>3, <1>4

(* A loop of n rounds, of which round m makes h[m][x] out of x, has a run. *)
Closed(h, n, S) == \A m \in 1 .. n : \A x \in S : h[m][x] \in S
Runs(g, h, n, b) == g[0] = b /\ \A m \in 1 .. n : g[m] = h[m][g[m - 1]]

LEMMA Loop ==
  ASSUME NEW n \in Nat, NEW S, NEW b \in S, NEW h, Closed(h, n, S)
  PROVE  \E g \in [0 .. n -> S] : Runs(g, h, n, b)
<1> DEFINE Run(g, k) == g[0] = b /\ \A m \in 1 .. k : g[m] = h[m][g[m - 1]]
           T == {k \in 0 .. n : \E g \in [0 .. k -> S] : Run(g, k)}
<1>1. 0 \in T
  <2> DEFINE e == [m \in 0 .. 0 |-> b]
  <2>1. e \in [0 .. 0 -> S] /\ Run(e, 0)
    OBVIOUS
  <2> HIDE DEF e
  <2>2. \E g \in [0 .. 0 -> S] : Run(g, 0)
    BY <2>1
  <2> QED BY <2>2
<1>2. ASSUME NEW i \in 1 .. n, i - 1 \in T PROVE i \in T
  <2>1. PICK g \in [0 .. i - 1 -> S] : Run(g, i - 1)
    BY <1>2
  <2> DEFINE f == [m \in 0 .. i |-> IF m = i THEN h[i][g[i - 1]] ELSE g[m]]
  <2>2. g[i - 1] \in S /\ h[i][g[i - 1]] \in S
    BY DEF Closed
  <2>3. f \in [0 .. i -> S]
    <3>1. ASSUME NEW m \in 0 .. i, m # i PROVE g[m] \in S
      BY <3>1
    <3> QED BY <2>2, <3>1
  <2>4. f[0] = b
    BY <2>1
  <2>5. ASSUME NEW m \in 1 .. i PROVE f[m] = h[m][f[m - 1]]
    <3>1. f[m - 1] = g[m - 1]
      OBVIOUS
    <3>2. CASE m = i
      BY <3>1, <3>2
    <3>3. CASE m # i
      BY <2>1, <3>1, <3>3
    <3> QED BY <3>2, <3>3
  <2> HIDE DEF f
  <2>6. Run(f, i)
    BY <2>4, <2>5
  <2> QED BY <2>3, <2>6
<1> HIDE DEF T
<1>3. n \in T
  BY <1>1, <1>2, Climb
<1> QED BY <1>3 DEF T, Runs

-----------------------------------------------------------------------------
(* Sums *)

(* A sum is made of the sums of the first terms. *)
LEMMA Sums ==
  ASSUME NEW n \in Nat, NEW f \in [1 .. n -> Int]
  PROVE  \E g \in [0 .. n -> Int] : g[0] = 0 /\ (\A m \in 1 .. n : g[m] = g[m - 1] + f[m]) /\ Steps(f) = g[n]
<1> DEFINE Eq(g) == g = [m \in 0 .. Len(f) |-> IF m = 0 THEN 0 ELSE g[m - 1] + f[m]]
           sum == CHOOSE g : Eq(g)
           h == [m \in 1 .. n |-> [x \in Int |-> x + f[m]]]
<1>1. Len(f) = n
  <2>1. f \in Seq(Int)
    OBVIOUS
  <2> QED BY <2>1, LenProperties
<1>2. PICK g \in [0 .. n -> Int] : Runs(g, h, n, 0)
  <2>1. Closed(h, n, Int) /\ 0 \in Int
    BY DEF Closed
  <2> HIDE DEF h
  <2> QED BY <2>1, Loop
<1>3. Eq(g)
  <2>1. ASSUME NEW m \in 1 .. n PROVE g[m] = g[m - 1] + f[m]
    <3>1. g[m - 1] \in Int
      OBVIOUS
    <3> QED BY <1>2, <3>1 DEF Runs
  <2> QED BY <1>1, <1>2, <2>1 DEF Runs
<1>4. Eq(sum)
  BY <1>3
<1>5. Steps(f) = sum[n]
  BY <1>1 DEF Steps
<1> HIDE DEF sum
<1>6. sum[0] = 0 /\ \A m \in 1 .. n : sum[m] = sum[m - 1] + f[m]
  BY <1>1, <1>4
<1> DEFINE S == {m \in 0 .. n : sum[m] \in Int}
<1>7. \A m \in 0 .. n : m \in S
  <2>1. 0 \in S /\ \A m \in 1 .. n : m - 1 \in S => m \in S
    BY <1>6
  <2> HIDE DEF S
  <2> QED BY <2>1, Climb
<1>8. sum \in [0 .. n -> Int]
  BY <1>1, <1>4, <1>7
<1> QED BY <1>5, <1>6, <1>8
LEMMA SumNone == Steps(<<>>) = 0
<1>1. <<>> \in [1 .. 0 -> Int] /\ 0 \in Nat
  OBVIOUS
<1>2. \E g \in [0 .. 0 -> Int] : g[0] = 0 /\ Steps(<<>>) = g[0]
  BY <1>1, Sums
<1> QED BY <1>2

LEMMA SumTyped == ASSUME NEW n \in Nat, NEW f \in [1 .. n -> Int] PROVE Steps(f) \in Int
<1>1. PICK g \in [0 .. n -> Int] : g[0] = 0 /\ (\A m \in 1 .. n : g[m] = g[m - 1] + f[m]) /\ Steps(f) = g[n]
  BY Sums
<1> QED BY <1>1

(* A sum over a longer list that begins with the shorter one and goes on   *)
(* with nothing is the same.                                               *)
LEMMA SumPadded ==
  ASSUME NEW n \in Nat, NEW k \in Nat, n <= k, NEW f \in [1 .. n -> Int], NEW h \in [1 .. k -> Int],
         \A i \in 1 .. n : h[i] = f[i], \A i \in n + 1 .. k : h[i] = 0
  PROVE  Steps(h) = Steps(f)
<1>1. PICK a \in [0 .. n -> Int] : a[0] = 0 /\ (\A m \in 1 .. n : a[m] = a[m - 1] + f[m]) /\ Steps(f) = a[n]
  BY Sums
<1>2. PICK b \in [0 .. k -> Int] : b[0] = 0 /\ (\A m \in 1 .. k : b[m] = b[m - 1] + h[m]) /\ Steps(h) = b[k]
  BY Sums
<1> DEFINE S == {m \in 0 .. k : b[m] = a[IF m <= n THEN m ELSE n]}
<1>3. 0 \in S
  BY <1>1, <1>2
<1>4. ASSUME NEW m \in 1 .. k, m - 1 \in S PROVE m \in S
  <2>1. CASE m <= n
    BY <1>1, <1>2, <1>4, <2>1
  <2>2. CASE m > n
    <3>1. b[m - 1] = a[n] /\ b[m] = b[m - 1] + 0
      BY <1>2, <1>4, <2>2
    <3>2. a[n] \in Int
      OBVIOUS
    <3> QED BY <2>2, <3>1, <3>2
  <2> QED BY <2>1, <2>2
<1> HIDE DEF S
<1>5. k \in S
  BY <1>3, <1>4, Climb
<1> QED BY <1>1, <1>2, <1>5 DEF S

LEMMA SumMore ==
  ASSUME NEW n \in Nat, NEW f \in [1 .. n -> Int], NEW h \in [1 .. n + 1 -> Int], \A i \in 1 .. n : h[i] = f[i]
  PROVE  Steps(h) = Steps(f) + h[n + 1]
<1>1. PICK a \in [0 .. n -> Int] : a[0] = 0 /\ (\A m \in 1 .. n : a[m] = a[m - 1] + f[m]) /\ Steps(f) = a[n]
  BY Sums
<1>2. PICK b \in [0 .. n + 1 -> Int] :
        b[0] = 0 /\ (\A m \in 1 .. n + 1 : b[m] = b[m - 1] + h[m]) /\ Steps(h) = b[n + 1]
  <2>1. n + 1 \in Nat
    OBVIOUS
  <2> QED BY <2>1, Sums
<1> DEFINE S == {m \in 0 .. n : b[m] = a[m]}
<1>3. 0 \in S
  BY <1>1, <1>2
<1>4. ASSUME NEW m \in 1 .. n, m - 1 \in S PROVE m \in S
  BY <1>1, <1>2, <1>4
<1> HIDE DEF S
<1>5. n \in S
  BY <1>3, <1>4, Climb
<1> QED BY <1>1, <1>2, <1>5 DEF S

LEMMA SumLess ==
  ASSUME NEW n \in Nat, NEW f \in [1 .. n -> Int], NEW h \in [1 .. n + 1 -> Int], \A i \in 1 .. n : f[i] = h[i + 1]
  PROVE  Steps(h) = h[1] + Steps(f)
<1>1. PICK a \in [0 .. n -> Int] : a[0] = 0 /\ (\A m \in 1 .. n : a[m] = a[m - 1] + f[m]) /\ Steps(f) = a[n]
  BY Sums
<1>2. PICK b \in [0 .. n + 1 -> Int] :
        b[0] = 0 /\ (\A m \in 1 .. n + 1 : b[m] = b[m - 1] + h[m]) /\ Steps(h) = b[n + 1]
  <2>1. n + 1 \in Nat
    OBVIOUS
  <2> QED BY <2>1, Sums
<1> DEFINE S == {m \in 0 .. n : b[m + 1] = h[1] + a[m]}
<1>0. h[1] \in Int
  OBVIOUS
<1>3. 0 \in S
  BY <1>0, <1>1, <1>2
<1>4. ASSUME NEW m \in 1 .. n, m - 1 \in S PROVE m \in S
  <2>1. b[m] = h[1] + a[m - 1] /\ b[m + 1] = b[m] + h[m + 1] /\ a[m] = a[m - 1] + f[m] /\ h[m + 1] = f[m]
    BY <1>1, <1>2, <1>4
  <2>2. a[m - 1] \in Int /\ f[m] \in Int /\ m \in 0 .. n
    OBVIOUS
  <2>4. b[m + 1] = h[1] + a[m]
    <3> DEFINE c == h[1]
               x == a[m - 1]
               y == b[m]
               u == f[m]
               v == b[m + 1]
               w == a[m]
    <3>1. c \in Int /\ x \in Int /\ u \in Int /\ y = c + x /\ v = y + u /\ w = x + u
      BY <1>0, <2>1, <2>2
    <3> HIDE DEF c, x, y, u, v, w
    <3>2. v = c + w
      BY <3>1
    <3> QED BY <3>2 DEF c, v, w
  <2> QED BY <2>2, <2>4
<1> HIDE DEF S
<1>5. n \in S
  BY <1>3, <1>4, Climb
<1> QED BY <1>1, <1>2, <1>5 DEF S

LEMMA SumPlus ==
  ASSUME NEW n \in Nat, NEW f \in [1 .. n -> Int], NEW g \in [1 .. n -> Int], NEW h \in [1 .. n -> Int],
         \A i \in 1 .. n : h[i] = f[i] + g[i]
  PROVE  Steps(h) = Steps(f) + Steps(g)
<1>1. PICK a \in [0 .. n -> Int] : a[0] = 0 /\ (\A m \in 1 .. n : a[m] = a[m - 1] + f[m]) /\ Steps(f) = a[n]
  BY Sums
<1>2. PICK b \in [0 .. n -> Int] : b[0] = 0 /\ (\A m \in 1 .. n : b[m] = b[m - 1] + g[m]) /\ Steps(g) = b[n]
  BY Sums
<1>3. PICK c \in [0 .. n -> Int] : c[0] = 0 /\ (\A m \in 1 .. n : c[m] = c[m - 1] + h[m]) /\ Steps(h) = c[n]
  BY Sums
<1> DEFINE S == {m \in 0 .. n : c[m] = a[m] + b[m]}
<1>4. 0 \in S
  BY <1>1, <1>2, <1>3
<1>5. ASSUME NEW m \in 1 .. n, m - 1 \in S PROVE m \in S
  <2>1. c[m - 1] = a[m - 1] + b[m - 1] /\ c[m] = c[m - 1] + (f[m] + g[m]) /\ a[m] = a[m - 1] + f[m] /\ b[m] = b[m - 1] + g[m]
    BY <1>1, <1>2, <1>3, <1>5
  <2>2. a[m - 1] \in Int /\ b[m - 1] \in Int /\ f[m] \in Int /\ g[m] \in Int
    OBVIOUS
  <2> QED BY <2>1, <2>2
<1> HIDE DEF S
<1>6. n \in S
  BY <1>4, <1>5, Climb
<1> QED BY <1>1, <1>2, <1>3, <1>6 DEF S

LEMMA SumLeq ==
  ASSUME NEW n \in Nat, NEW f \in [1 .. n -> Int], NEW g \in [1 .. n -> Int], \A i \in 1 .. n : f[i] <= g[i]
  PROVE  Steps(f) <= Steps(g)
<1>1. PICK a \in [0 .. n -> Int] : a[0] = 0 /\ (\A m \in 1 .. n : a[m] = a[m - 1] + f[m]) /\ Steps(f) = a[n]
  BY Sums
<1>2. PICK b \in [0 .. n -> Int] : b[0] = 0 /\ (\A m \in 1 .. n : b[m] = b[m - 1] + g[m]) /\ Steps(g) = b[n]
  BY Sums
<1> DEFINE S == {m \in 0 .. n : a[m] <= b[m]}
<1>3. 0 \in S
  BY <1>1, <1>2
<1>4. ASSUME NEW m \in 1 .. n, m - 1 \in S PROVE m \in S
  <2>1. a[m - 1] <= b[m - 1] /\ a[m] = a[m - 1] + f[m] /\ b[m] = b[m - 1] + g[m] /\ f[m] <= g[m]
    BY <1>1, <1>2, <1>4
  <2>2. a[m - 1] \in Int /\ b[m - 1] \in Int /\ f[m] \in Int /\ g[m] \in Int
    OBVIOUS
  <2> QED BY <2>1, <2>2
<1> HIDE DEF S
<1>5. n \in S
  BY <1>3, <1>4, Climb
<1> QED BY <1>1, <1>2, <1>5 DEF S

LEMMA SumZero ==
  ASSUME NEW n \in Nat, NEW f \in [1 .. n -> Int], \A i \in 1 .. n : f[i] = 0
  PROVE  Steps(f) = 0
<1>1. Steps(f) = Steps(f) + Steps(f)
  <2>1. \A i \in 1 .. n : f[i] = f[i] + f[i]
    OBVIOUS
  <2> QED BY <2>1, SumPlus
<1> QED BY <1>1, SumTyped

(* The sum changes by what one term changes. *)
LEMMA SumChanged ==
  ASSUME NEW n \in Nat, NEW f \in [1 .. n -> Int], NEW g \in [1 .. n -> Int], NEW k \in 1 .. n,
         \A i \in 1 .. n : i # k => g[i] = f[i]
  PROVE  Steps(g) = Steps(f) + (g[k] - f[k])
<1>1. PICK a \in [0 .. n -> Int] : a[0] = 0 /\ (\A m \in 1 .. n : a[m] = a[m - 1] + f[m]) /\ Steps(f) = a[n]
  BY Sums
<1>2. PICK b \in [0 .. n -> Int] : b[0] = 0 /\ (\A m \in 1 .. n : b[m] = b[m - 1] + g[m]) /\ Steps(g) = b[n]
  BY Sums
<1> DEFINE d == g[k] - f[k]
           S == {m \in 0 .. n : b[m] = a[m] + (IF m < k THEN 0 ELSE d)}
<1>0. d \in Int /\ g[k] = f[k] + d
  OBVIOUS
<1> HIDE DEF d
<1>3. 0 \in S
  BY <1>1, <1>2
<1>4. ASSUME NEW m \in 1 .. n, m - 1 \in S PROVE m \in S
  <2>1. b[m - 1] = a[m - 1] + (IF m - 1 < k THEN 0 ELSE d) /\ a[m] = a[m - 1] + f[m] /\ b[m] = b[m - 1] + g[m]
    BY <1>1, <1>2, <1>4
  <2>2. a[m - 1] \in Int /\ b[m - 1] \in Int /\ f[m] \in Int /\ g[m] \in Int /\ m \in 0 .. n
    OBVIOUS
  <2> DEFINE x == a[m - 1]
             y == b[m - 1]
             u == f[m]
             v == g[m]
             p == a[m]
             q == b[m]
  <2>3. v = (IF m = k THEN u + d ELSE u)
    BY <1>0
  <2>4. b[m] = a[m] + (IF m < k THEN 0 ELSE d)
    <3>1. x \in Int /\ y \in Int /\ u \in Int /\ v \in Int /\ m \in Int /\ k \in Int
      BY <2>2
    <3>2. y = x + (IF m - 1 < k THEN 0 ELSE d) /\ p = x + u /\ q = y + v
      BY <2>1
    <3> HIDE DEF x, y, u, v, p, q
    <3>3. q = p + (IF m < k THEN 0 ELSE d)
      <4>1. CASE m < k
        <5>1. v = u /\ y = x + 0
          BY <2>3, <3>1, <3>2, <4>1
        <5> QED BY <3>1, <3>2, <4>1, <5>1
      <4>2. CASE m = k
        <5>1. v = u + d /\ y = x + 0
          BY <2>3, <3>1, <3>2, <4>2
        <5> QED BY <1>0, <3>1, <3>2, <4>2, <5>1
      <4>3. CASE m > k
        <5>1. v = u /\ y = x + d
          BY <2>3, <3>1, <3>2, <4>3
        <5> QED BY <1>0, <3>1, <3>2, <4>3, <5>1
      <4> QED BY <3>1, <4>1, <4>2, <4>3
    <3> QED BY <3>3 DEF p, q
  <2> QED BY <2>2, <2>4
<1> HIDE DEF S
<1>5. n \in S
  BY <1>3, <1>4, Climb
<1> QED BY <1>0, <1>1, <1>2, <1>5 DEF S, d

LEMMA SumNat ==
  ASSUME NEW n \in Nat, NEW f \in [1 .. n -> Nat]
  PROVE  Steps(f) \in Nat /\ \A k \in 1 .. n : f[k] <= Steps(f)
<1> DEFINE z == [i \in 1 .. n |-> 0]
<1>1. f \in [1 .. n -> Int] /\ z \in [1 .. n -> Int] /\ \A i \in 1 .. n : z[i] = 0
  OBVIOUS
<1> HIDE DEF z
<1>2. Steps(z) = 0
  BY <1>1, SumZero
<1>3. Steps(f) \in Int
  BY <1>1, SumTyped
<1>4. Steps(z) <= Steps(f)
  <2>1. \A i \in 1 .. n : z[i] <= f[i]
    BY <1>1
  <2> QED BY <1>1, <2>1, SumLeq
<1>5. ASSUME NEW k \in 1 .. n PROVE f[k] <= Steps(f)
  <2> DEFINE y == [i \in 1 .. n |-> IF i = k THEN f[k] ELSE 0]
  <2>1. y \in [1 .. n -> Int] /\ y[k] = f[k] /\ \A i \in 1 .. n : y[i] <= f[i] /\ (i # k => y[i] = z[i])
    BY <1>1
  <2> HIDE DEF y
  <2>2. Steps(y) = Steps(z) + (y[k] - z[k])
    BY <1>1, <2>1, SumChanged
  <2>3. Steps(y) <= Steps(f)
    BY <1>1, <2>1, SumLeq
  <2>4. z[k] = 0 /\ f[k] \in Nat
    BY <1>1
  <2> QED BY <1>2, <2>1, <2>2, <2>3, <2>4
<1> QED BY <1>2, <1>3, <1>4, <1>5

-----------------------------------------------------------------------------
(* The planner *)

LEMMA Bounds ==
  ASSUME NEW a \in Int, NEW b \in Int
  PROVE  /\ Smaller(a, b) \in {a, b} /\ Smaller(a, b) <= a /\ Smaller(a, b) <= b
         /\ Larger(a, b) \in {a, b} /\ Larger(a, b) >= a /\ Larger(a, b) >= b
  BY DEF Smaller, Larger

(* The times of a schedule that was made rise from the start to the        *)
(* deadline, one for each slice.                                           *)
Timed(r, m, p) ==
  r.ok => /\ r.times \in [1 .. m -> Int] /\ r.prev = (IF m = 0 THEN p.start - 1 ELSE r.times[m])
          /\ \A i \in 1 .. m : r.times[i] >= p.start /\ r.times[i] < p.deadline
          /\ \A i, j \in 1 .. m : i < j => r.times[i] < r.times[j]

Windowed(p) == p.start \in Int /\ p.deadline \in Int /\ p.interval \in Nat \ {0}

LEMMA NextTimed ==
  ASSUME NEW p, Windowed(p), NEW m \in Nat \ {0}, p.late[m] \in Int,
         NEW r \in [times : Seq(Int), prev : Int, ok : BOOLEAN]
  PROVE  /\ NextTime(r, m, p) \in [times : Seq(Int), prev : Int, ok : BOOLEAN]
         /\ Timed(r, m - 1, p) => Timed(NextTime(r, m, p), m, p)
<1> DEFINE t == Time(r.prev, m, p)
           n == NextTime(r, m, p)
<1>1. t \in Int /\ t < p.deadline
  <2> DEFINE a == p.start + (m - 1) * p.interval + p.late[m]
             b == Larger(a, p.start)
             c == Larger(b, r.prev + 1)
  <2>1. a \in Int
    BY DEF Windowed
  <2> HIDE DEF a
  <2>2. b \in Int
    BY <2>1, Bounds DEF Windowed
  <2> HIDE DEF b
  <2>3. c \in Int
    BY <2>2, Bounds
  <2>4. t = Smaller(c, p.deadline - 1)
    BY DEF Time, a, b
  <2> HIDE DEF c, t
  <2>5. p.deadline \in Int /\ p.deadline - 1 \in Int
    BY DEF Windowed
  <2>6. t \in Int /\ t <= p.deadline - 1
    BY <2>3, <2>4, <2>5, Bounds
  <2> QED BY <2>5, <2>6
<1> HIDE DEF t
<1>2. CASE ~ r.ok \/ t <= r.prev
  <2>1. n = [r EXCEPT !.ok = FALSE]
    BY <1>2 DEF NextTime, t
  <2> HIDE DEF n
  <2> QED BY <2>1 DEF Timed, n
<1>3. CASE r.ok /\ ~ (t <= r.prev)
  <2>1. n = [times |-> Append(r.times, t), prev |-> t, ok |-> TRUE]
    BY <1>3 DEF NextTime, t
  <2> HIDE DEF n
  <2>2. n \in [times : Seq(Int), prev : Int, ok : BOOLEAN]
    BY <1>1, <2>1
  <2>3. ASSUME Timed(r, m - 1, p) PROVE Timed(n, m, p)
    <3>1. /\ r.times \in [1 .. m - 1 -> Int] /\ r.prev = (IF m - 1 = 0 THEN p.start - 1 ELSE r.times[m - 1])
          /\ \A i \in 1 .. m - 1 : r.times[i] >= p.start /\ r.times[i] < p.deadline
          /\ \A i, j \in 1 .. m - 1 : i < j => r.times[i] < r.times[j]
      BY <1>3, <2>3 DEF Timed
    <3>2. r.times \in Seq(Int) /\ Len(r.times) = m - 1
      BY <3>1, LenProperties
    <3> DEFINE s == Append(r.times, t)
    <3>3. /\ s \in Seq(Int) /\ Len(s) = m /\ s[m] = t
          /\ \A i \in 1 .. m - 1 : s[i] = r.times[i]
      BY <1>1, <3>2, AppendProperties
    <3> HIDE DEF s
    <3>4. s \in [1 .. m -> Int]
      BY <3>3, LenProperties
    <3>5. t > r.prev /\ t >= p.start /\ \A i \in 1 .. m - 1 : r.times[i] <= r.prev
      <4>1. t > r.prev
        BY <1>1, <1>3
      <4>2. ASSUME NEW i \in 1 .. m - 1 PROVE r.times[i] <= r.prev /\ p.start <= r.prev
        <5>1. CASE i = m - 1
          BY <3>1, <4>2, <5>1 DEF Windowed
        <5>2. CASE i # m - 1
          <6>1. i < m - 1 /\ m - 1 \in 1 .. m - 1 /\ r.prev = r.times[m - 1]
            BY <3>1, <4>2, <5>2
          <6>2. r.times[i] < r.times[m - 1] /\ r.times[m - 1] >= p.start
            BY <3>1, <6>1
          <6>3. r.times[i] \in Int /\ r.times[m - 1] \in Int
            BY <3>1, <6>1
          <6> QED BY <6>1, <6>2, <6>3 DEF Windowed
        <5> QED BY <5>1, <5>2
      <4>3. t >= p.start
        <5>1. CASE m = 1
          BY <1>1, <3>1, <4>1, <5>1 DEF Windowed
        <5>2. CASE m # 1
          <6>1. m - 1 \in 1 .. m - 1
            BY <5>2
          <6>2. p.start <= r.prev
            BY <4>2, <6>1
          <6> QED BY <1>1, <4>1, <6>2 DEF Windowed
        <5> QED BY <5>1, <5>2
      <4> QED BY <4>1, <4>2, <4>3
    <3>6. ASSUME NEW i \in 1 .. m PROVE s[i] >= p.start /\ s[i] < p.deadline
      <4>1. CASE i = m
        BY <1>1, <3>3, <3>5, <4>1
      <4>2. CASE i # m
        BY <3>1, <3>3, <4>2
      <4> QED BY <4>1, <4>2
    <3>7. ASSUME NEW i \in 1 .. m, NEW j \in 1 .. m, i < j PROVE s[i] < s[j]
      <4>1. i \in 1 .. m - 1 /\ s[i] = r.times[i] /\ r.times[i] \in Int
        BY <3>1, <3>3, <3>7
      <4>2. CASE j = m
        BY <1>1, <3>3, <3>5, <4>1, <4>2
      <4>3. CASE j # m
        BY <3>1, <3>3, <3>7, <4>1, <4>3
      <4> QED BY <4>2, <4>3
    <3>8. n.times = s /\ n.prev = s[m]
      BY <2>1, <3>3 DEF s
    <3> QED BY <3>4, <3>6, <3>7, <3>8 DEF Timed
  <2> QED BY <2>2, <2>3 DEF n
<1> QED BY <1>2, <1>3

(* The records that the rounds of a schedule make, and what holds of each.  *)
Schedules == [times : Seq(Int), prev : Int, ok : BOOLEAN]

LEMMA TimeRounds ==
  ASSUME NEW p, Windowed(p), NEW n \in Nat, \A i \in 1 .. n : p.late[i] \in Int
  PROVE  \E g \in [0 .. n -> Schedules] :
           /\ g[0] = [times |-> <<>>, prev |-> p.start - 1, ok |-> TRUE]
           /\ \A m \in 1 .. n : g[m] = NextTime(g[m - 1], m, p)
           /\ \A m \in 0 .. n : Timed(g[m], m, p)
           /\ scheduleTimes(n, p) = IF g[n].ok THEN g[n].times ELSE <<>>
<1> DEFINE S == Schedules
           b == [times |-> <<>>, prev |-> p.start - 1, ok |-> TRUE]
           Eq(g) == g = [m \in 0 .. n |-> IF m = 0 THEN b ELSE NextTime(g[m - 1], m, p)]
           after == CHOOSE g : Eq(g)
           h == [m \in 1 .. n |-> [x \in S |-> NextTime(x, m, p)]]
<1>1. b \in S /\ Timed(b, 0, p)
  BY DEF Windowed, Timed, Schedules
<1>2. ASSUME NEW m \in 1 .. n, NEW x \in S
      PROVE  NextTime(x, m, p) \in S /\ (Timed(x, m - 1, p) => Timed(NextTime(x, m, p), m, p))
  BY NextTimed DEF Schedules
<1> HIDE DEF S, b
<1>3. Eq(after)
  <2>1. Closed(h, n, S)
    BY <1>2 DEF Closed
  <2> HIDE DEF h
  <2>2. PICK g \in [0 .. n -> S] : Runs(g, h, n, b)
    BY <1>1, <2>1, Loop
  <2>3. ASSUME NEW m \in 1 .. n PROVE g[m] = NextTime(g[m - 1], m, p)
    <3>1. g[m - 1] \in S /\ g[m] = h[m][g[m - 1]]
      BY <2>2 DEF Runs
    <3> QED BY <3>1 DEF h
  <2>4. g[0] = b
    BY <2>2 DEF Runs
  <2>5. Eq(g)
    <3>1. ASSUME NEW m \in 0 .. n PROVE g[m] = IF m = 0 THEN b ELSE NextTime(g[m - 1], m, p)
      <4>1. CASE m = 0
        BY <2>4, <4>1
      <4>2. CASE m # 0
        BY <2>3, <4>2
      <4> QED BY <4>1, <4>2
    <3> QED BY <3>1
  <2> QED BY <2>5
<1>4. scheduleTimes(n, p) = IF after[n].ok THEN after[n].times ELSE <<>>
  BY DEF scheduleTimes, b
<1> HIDE DEF after, h
<1> DEFINE T == {m \in 0 .. n : after[m] \in S /\ Timed(after[m], m, p)}
<1>5. 0 \in T
  BY <1>1, <1>3
<1>6. ASSUME NEW m \in 1 .. n, m - 1 \in T PROVE m \in T
  <2>1. after[m] = NextTime(after[m - 1], m, p)
    BY <1>3
  <2>2. after[m - 1] \in S /\ Timed(after[m - 1], m - 1, p)
    BY <1>6
  <2> QED BY <1>2, <2>1, <2>2
<1>7. \A m \in 0 .. n : after[m] \in S /\ Timed(after[m], m, p)
  <2> HIDE DEF T
  <2>1. \A m \in 0 .. n : m \in T
    BY <1>5, <1>6, Climb
  <2> QED BY <2>1 DEF T
<1>8. after \in [0 .. n -> S]
  BY <1>3, <1>7
<1>9. after[0] = b /\ \A m \in 1 .. n : after[m] = NextTime(after[m - 1], m, p)
  BY <1>3
<1> HIDE DEF T
<1> USE DEF S, b
<1> QED BY <1>4, <1>7, <1>8, <1>9

LEMMA Scheduled ==
  ASSUME NEW p, Windowed(p), NEW n \in Nat, \A i \in 1 .. n : p.late[i] \in Int, scheduleTimes(n, p) # <<>>
  PROVE  LET t == scheduleTimes(n, p)
         IN  /\ t \in [1 .. n -> Int]
             /\ \A i \in 1 .. n : t[i] >= p.start /\ t[i] < p.deadline
             /\ \A i, j \in 1 .. n : i < j => t[i] < t[j]
<1>1. PICK g \in [0 .. n -> Schedules] :
        /\ \A m \in 0 .. n : Timed(g[m], m, p)
        /\ scheduleTimes(n, p) = IF g[n].ok THEN g[n].times ELSE <<>>
  BY TimeRounds
<1>2. n \in 0 .. n
  OBVIOUS
<1> QED BY <1>1, <1>2 DEF Timed


(* The repair works on a list of n whole numbers, and says that it         *)
(* succeeded only of a list within the bounds that makes the total.        *)
Shares(n) == [1 .. n -> Int]
Moving(n) == [s : Shares(n), moved : Int]
Mending(n) == [s : Shares(n), ok : BOOLEAN]

LEMMA ShareLen == ASSUME NEW n \in Nat, NEW s \in Shares(n) PROVE Len(s) = n /\ DOMAIN s = 1 .. n
<1>1. s \in Seq(Int)
  BY DEF Shares
<1> QED BY <1>1, LenProperties DEF Shares

LEMMA MoveTyped ==
  ASSUME NEW n \in Nat, NEW acc \in Moving(n), NEW i, NEW j \in 1 .. n, NEW amount \in Int, NEW sign \in {1, -1},
         NEW lo \in Int, NEW hi \in Int
  PROVE  Move(acc, i, j, amount, sign, lo, hi) \in Moving(n)
<1> DEFINE room == IF sign = 1 THEN hi - acc.s[j] ELSE acc.s[j] - lo
           take == Smaller(room, amount - acc.moved)
           x == acc.s[j] + sign * take
<1>1. acc.s \in [1 .. n -> Int] /\ acc.moved \in Int /\ acc.s[j] \in Int
  BY DEF Moving, Shares
<1>2. room \in Int
  BY <1>1
<1> HIDE DEF room
<1>3. take \in Int
  BY <1>1, <1>2, Bounds
<1> HIDE DEF take
<1>4. sign * take \in Int
  BY <1>3
<1>5. x \in Int
  BY <1>1, <1>4
<1>6. [acc.s EXCEPT ![j] = @ + sign * take] \in [1 .. n -> Int]
  BY <1>1, <1>5
<1>7. [s |-> [acc.s EXCEPT ![j] = @ + sign * take], moved |-> acc.moved + take] \in Moving(n)
  BY <1>1, <1>3, <1>6 DEF Moving, Shares
<1> QED BY <1>7 DEF Move, room, take

(* A loop is the sequence of its rounds.                                    *)
SpreadRun(g, n, s, i, amount, sign, lo, hi) ==
  /\ g \in [0 .. n -> Moving(n)] /\ g[0] = [s |-> s, moved |-> 0]
  /\ \A m \in 1 .. n : g[m] = Move(g[m - 1], i, n + 1 - m, amount, sign, lo, hi)
  /\ Spread(s, i, amount, sign, lo, hi) = g[n]

LEMMA SpreadRounds ==
  ASSUME NEW n \in Nat, NEW s \in Shares(n), NEW i, NEW amount \in Int, NEW sign \in {1, -1}, NEW lo \in Int, NEW hi \in Int
  PROVE  \E g : SpreadRun(g, n, s, i, amount, sign, lo, hi)
<1> DEFINE S == Moving(n)
           b == [s |-> s, moved |-> 0]
           Body(x, m) == Move(x, i, n + 1 - m, amount, sign, lo, hi)
           Eq(g) == g = [m \in 0 .. n |-> IF m = 0 THEN b ELSE Move(g[m - 1], i, n + 1 - m, amount, sign, lo, hi)]
           after == CHOOSE g : Eq(g)
           h == [m \in 1 .. n |-> [x \in S |-> Body(x, m)]]
<1>0. Len(s) = n
  BY ShareLen
<1>1. b \in S
  BY DEF Moving
<1>2. ASSUME NEW m \in 1 .. n, NEW x \in S PROVE Body(x, m) \in S
  <2>1. n + 1 - m \in 1 .. n
    OBVIOUS
  <2> QED BY <2>1, MoveTyped
<1>4. Spread(s, i, amount, sign, lo, hi) = after[n]
  BY <1>0 DEF Spread
<1> HIDE DEF S, b, Body
<1>3. Eq(after)
  <2>1. Closed(h, n, S)
    BY <1>2 DEF Closed
  <2> HIDE DEF h
  <2>2. PICK g \in [0 .. n -> S] : Runs(g, h, n, b)
    BY <1>1, <2>1, Loop
  <2>3. ASSUME NEW m \in 1 .. n PROVE g[m] = Body(g[m - 1], m)
    <3>1. g[m - 1] \in S /\ g[m] = h[m][g[m - 1]]
      BY <2>2 DEF Runs
    <3> QED BY <3>1 DEF h
  <2>4. g[0] = b
    BY <2>2 DEF Runs
  <2>5. ASSUME NEW m \in 0 .. n PROVE g[m] = IF m = 0 THEN b ELSE Body(g[m - 1], m)
    <3>1. CASE m = 0
      BY <2>4, <3>1
    <3>2. CASE m # 0
      BY <2>3, <3>2
    <3> QED BY <3>1, <3>2
  <2>6. Eq(g)
    BY <2>5 DEF Body
  <2> QED BY <2>6
<1> HIDE DEF h, after
<1> DEFINE T == {m \in 0 .. n : after[m] \in S}
<1>5. 0 \in T
  BY <1>1, <1>3
<1>6. ASSUME NEW m \in 1 .. n, m - 1 \in T PROVE m \in T
  <2>1. after[m] = Body(after[m - 1], m)
    BY <1>3 DEF Body
  <2> QED BY <1>2, <1>6, <2>1
<1> HIDE DEF T
<1>7. after \in [0 .. n -> S]
  <2>1. \A m \in 0 .. n : m \in T
    BY <1>0, <1>5, <1>6, Climb
  <2>2. \A m \in 0 .. n : after[m] \in S
    BY <2>1 DEF T
  <2> QED BY <1>3, <2>2
<1>8. after[0] = b /\ \A m \in 1 .. n : after[m] = Body(after[m - 1], m)
  BY <1>0, <1>3 DEF Body
<1> USE DEF S, b, Body
<1> QED BY <1>4, <1>7, <1>8 DEF SpreadRun

LEMMA SpreadTyped ==
  ASSUME NEW n \in Nat, NEW s \in Shares(n), NEW i, NEW amount \in Int, NEW sign \in {1, -1}, NEW lo \in Int, NEW hi \in Int
  PROVE  Spread(s, i, amount, sign, lo, hi) \in Moving(n)
<1>1. PICK g : SpreadRun(g, n, s, i, amount, sign, lo, hi)
  BY SpreadRounds
<1> QED BY <1>1 DEF SpreadRun

LEMMA RepairSliceTyped ==
  ASSUME NEW n \in Nat, NEW acc \in Mending(n), NEW i \in 1 .. n, NEW lo \in Int, NEW hi \in Int
  PROVE  RepairSlice(acc, i, lo, hi) \in Mending(n)
<1>1. acc.s \in Shares(n) /\ acc.s[i] \in Int
  BY DEF Mending, Shares
<1>2. ASSUME NEW r \in Moving(n), NEW amount \in Int, NEW sign \in {1, -1} PROVE Balanced(r, i, amount, sign) \in Mending(n)
  <2>1. r.s \in [1 .. n -> Int] /\ r.moved \in Int /\ sign * r.moved \in Int
    BY DEF Moving, Shares
  <2>2. [r.s EXCEPT ![i] = @ - sign * r.moved] \in [1 .. n -> Int]
    BY <2>1
  <2> QED BY <2>1, <2>2 DEF Balanced, Mending, Shares
<1>3. acc.s[i] - hi \in Int /\ lo - acc.s[i] \in Int
  BY <1>1
<1>4. /\ Spread(acc.s, i, acc.s[i] - hi, 1, lo, hi) \in Moving(n)
      /\ Spread(acc.s, i, lo - acc.s[i], -1, lo, hi) \in Moving(n)
  BY <1>1, <1>3, SpreadTyped
<1> QED BY <1>2, <1>3, <1>4 DEF RepairSlice

LEMMA PassRounds ==
  ASSUME NEW n \in Nat, NEW acc \in Mending(n), NEW lo \in Int, NEW hi \in Int
  PROVE  \E g \in [0 .. n -> Mending(n)] :
           /\ g[0] = acc
           /\ \A m \in 1 .. n : g[m] = RepairSlice(g[m - 1], m, lo, hi)
           /\ RepairPass(acc, lo, hi) = g[n]
<1> DEFINE S == Mending(n)
           b == acc
           Body(x, m) == RepairSlice(x, m, lo, hi)
           Eq(g) == g = [m \in 0 .. n |-> IF m = 0 THEN b ELSE RepairSlice(g[m - 1], m, lo, hi)]
           after == CHOOSE g : Eq(g)
           h == [m \in 1 .. n |-> [x \in S |-> Body(x, m)]]
<1>0. Len(acc.s) = n
  BY ShareLen DEF Mending
<1>1. b \in S
  OBVIOUS
<1>2. ASSUME NEW m \in 1 .. n, NEW x \in S PROVE Body(x, m) \in S
  BY RepairSliceTyped
<1>4. RepairPass(acc, lo, hi) = after[n]
  BY <1>0 DEF RepairPass
<1> HIDE DEF S, b, Body
<1>3. Eq(after)
  <2>1. Closed(h, n, S)
    BY <1>2 DEF Closed
  <2> HIDE DEF h
  <2>2. PICK g \in [0 .. n -> S] : Runs(g, h, n, b)
    BY <1>1, <2>1, Loop
  <2>3. ASSUME NEW m \in 1 .. n PROVE g[m] = Body(g[m - 1], m)
    <3>1. g[m - 1] \in S /\ g[m] = h[m][g[m - 1]]
      BY <2>2 DEF Runs
    <3> QED BY <3>1 DEF h
  <2>4. g[0] = b
    BY <2>2 DEF Runs
  <2>5. ASSUME NEW m \in 0 .. n PROVE g[m] = IF m = 0 THEN b ELSE Body(g[m - 1], m)
    <3>1. CASE m = 0
      BY <2>4, <3>1
    <3>2. CASE m # 0
      BY <2>3, <3>2
    <3> QED BY <3>1, <3>2
  <2>6. Eq(g)
    BY <2>5 DEF Body
  <2> QED BY <2>6
<1> HIDE DEF h, after
<1> DEFINE T == {m \in 0 .. n : after[m] \in S}
<1>5. 0 \in T
  BY <1>1, <1>3
<1>6. ASSUME NEW m \in 1 .. n, m - 1 \in T PROVE m \in T
  <2>1. after[m] = Body(after[m - 1], m)
    BY <1>3 DEF Body
  <2> QED BY <1>2, <1>6, <2>1
<1> HIDE DEF T
<1>7. after \in [0 .. n -> S]
  <2>1. \A m \in 0 .. n : m \in T
    BY <1>0, <1>5, <1>6, Climb
  <2>2. \A m \in 0 .. n : after[m] \in S
    BY <2>1 DEF T
  <2> QED BY <1>3, <2>2
<1>8. after[0] = b /\ \A m \in 1 .. n : after[m] = Body(after[m - 1], m)
  BY <1>0, <1>3 DEF Body
<1> USE DEF S, b, Body
<1> QED BY <1>4, <1>7, <1>8

LEMMA RepairPassTyped ==
  ASSUME NEW n \in Nat, NEW acc \in Mending(n), NEW lo \in Int, NEW hi \in Int
  PROVE  RepairPass(acc, lo, hi) \in Mending(n)
<1>1. \E g \in [0 .. n -> Mending(n)] : RepairPass(acc, lo, hi) = g[n]
  BY PassRounds
<1> QED BY <1>1

RepairRun(g, k, s, lo, hi, total) ==
  /\ g \in [0 .. 8 * k -> Mending(k)] /\ g[0] = [s |-> s, ok |-> TRUE]
  /\ \A m \in 1 .. 8 * k : g[m] = NextPass(g[m - 1], lo, hi)
  /\ repair(s, lo, hi, total) = Repaired(g[8 * k], lo, hi, total)

LEMMA RepairRounds ==
  ASSUME NEW k \in Nat, NEW s \in Shares(k), NEW lo \in Int, NEW hi \in Int, NEW total
  PROVE  \E g : RepairRun(g, k, s, lo, hi, total)
<1> DEFINE n == 8 * k
           S == Mending(k)
           b == [s |-> s, ok |-> TRUE]
           Body(x, m) == NextPass(x, lo, hi)
           Eq(g) == g = [m \in 0 .. n |-> IF m = 0 THEN b ELSE NextPass(g[m - 1], lo, hi)]
           after == CHOOSE g : Eq(g)
           h == [m \in 1 .. n |-> [x \in S |-> Body(x, m)]]
<1>0. Len(s) = k /\ n \in Nat
  BY ShareLen
<1>1. b \in S
  BY DEF Mending
<1>2. ASSUME NEW m \in 1 .. n, NEW x \in S PROVE Body(x, m) \in S
  BY RepairPassTyped DEF NextPass
<1>4. repair(s, lo, hi, total) = Repaired(after[n], lo, hi, total)
  BY <1>0 DEF repair
<1> HIDE DEF n
<1> HIDE DEF S, b, Body
<1>3. Eq(after)
  <2>1. Closed(h, n, S)
    BY <1>2 DEF Closed
  <2> HIDE DEF h
  <2>2. PICK g \in [0 .. n -> S] : Runs(g, h, n, b)
    BY <1>0, <1>1, <2>1, Loop
  <2>3. ASSUME NEW m \in 1 .. n PROVE g[m] = Body(g[m - 1], m)
    <3>1. g[m - 1] \in S /\ g[m] = h[m][g[m - 1]]
      BY <1>0, <2>2 DEF Runs
    <3> QED BY <3>1 DEF h
  <2>4. g[0] = b
    BY <2>2 DEF Runs
  <2>5. ASSUME NEW m \in 0 .. n PROVE g[m] = IF m = 0 THEN b ELSE Body(g[m - 1], m)
    <3>1. CASE m = 0
      BY <2>4, <3>1
    <3>2. CASE m # 0
      BY <1>0, <2>3, <3>2
    <3> QED BY <3>1, <3>2
  <2>6. Eq(g)
    BY <2>5 DEF Body
  <2> QED BY <2>6
<1> HIDE DEF h, after
<1> DEFINE T == {m \in 0 .. n : after[m] \in S}
<1>5. 0 \in T
  BY <1>0, <1>1, <1>3
<1>6. ASSUME NEW m \in 1 .. n, m - 1 \in T PROVE m \in T
  <2>1. after[m] = Body(after[m - 1], m)
    BY <1>0, <1>3 DEF Body
  <2> QED BY <1>2, <1>6, <2>1
<1> HIDE DEF T
<1>7. after \in [0 .. n -> S]
  <2>1. \A m \in 0 .. n : m \in T
    BY <1>0, <1>5, <1>6, Climb
  <2>2. \A m \in 0 .. n : after[m] \in S
    BY <2>1 DEF T
  <2> QED BY <1>3, <2>2
<1>8. after[0] = b /\ \A m \in 1 .. n : after[m] = Body(after[m - 1], m)
  BY <1>0, <1>3 DEF Body
<1> USE DEF n, S, b, Body
<1> QED BY <1>4, <1>7, <1>8 DEF RepairRun

LEMMA RepairTyped ==
  ASSUME NEW k \in Nat, NEW s \in Shares(k), NEW lo \in Int, NEW hi \in Int, NEW total
  PROVE  LET r == repair(s, lo, hi, total)
         IN  r \in Mending(k) /\ (r.ok => InBounds(r.s, lo, hi) /\ Steps(r.s) = total)
<1>1. 8 * k \in 0 .. 8 * k
  OBVIOUS
<1>2. PICK x \in Mending(k) : repair(s, lo, hi, total) = Repaired(x, lo, hi, total)
  <2>1. PICK g : RepairRun(g, k, s, lo, hi, total)
    BY RepairRounds
  <2>2. g[8 * k] \in Mending(k)
    BY <1>1, <2>1 DEF RepairRun
  <2> QED BY <2>1, <2>2 DEF RepairRun
<1>3. /\ Repaired(x, lo, hi, total).s = x.s
      /\ Repaired(x, lo, hi, total).ok <=> x.ok /\ InBounds(x.s, lo, hi) /\ Steps(x.s) = total
  BY DEF Repaired
<1>4. Repaired(x, lo, hi, total) \in Mending(k)
  <2>1. InBounds(x.s, lo, hi) \in BOOLEAN /\ (Steps(x.s) = total) \in BOOLEAN /\ x.s \in Shares(k) /\ x.ok \in BOOLEAN
    BY DEF InBounds, Mending
  <2> QED BY <2>1 DEF Repaired, Mending
<1> QED BY <1>2, <1>3, <1>4


LEMMA Ceil == ASSUME NEW a \in Nat \ {0}, NEW b \in Nat \ {0} PROVE CeilDiv(a, b) \in 1 .. a
<1>1. CeilDiv(a, b) \in Int /\ CeilDiv(a, b) >= 1
  BY DEF CeilDiv
<1>2. CeilDiv(a, b) <= a
  BY DEF CeilDiv
<1> QED BY <1>1, <1>2

(* What the policy makes sure of before it plans: whole steps, a smallest  *)
(* slice of at least one, an interval, and a jitter for every slot.        *)
PlanFields == {"total", "lo", "hi", "start", "deadline", "interval", "delta", "late"}
PlanInput(p) ==
  /\ DOMAIN p = PlanFields /\ p.total \in Int /\ p.lo \in Nat \ {0} /\ p.hi \in Nat
  /\ Windowed(p)
  /\ \A i \in 1 .. slotCount(p.start, p.deadline, p.interval) : p.late[i] \in Int /\ p.delta[i] \in Int

Codes == {"OK", "NONE", "INVALID_WINDOW", "UNSCHEDULABLE", "BOUNDS_INFEASIBLE", "WINDOW_TOO_SHORT", "PLAN_INFEASIBLE"}
Plans == [code : Codes, qty : Seq(Int), at : Seq(Int)]

(* A plan that is made is sound, any other is empty. *)
Right(p, r, total) ==
  /\ r \in Plans
  /\ r.code = "OK" => Sound(p, r, total)
  /\ r.code # "OK" => r.qty = <<>> /\ r.at = <<>>

LEMMA RefusedRight == ASSUME NEW p, NEW total, NEW c \in Codes \ {"OK"} PROVE Right(p, Refused(c), total)
  BY DEF Right, Refused, Plans

LEMMA EvenTyped ==
  ASSUME NEW total \in Int, NEW n \in Nat \ {0}
  PROVE  EvenSplit(total, n) \in Shares(n)
<1>1. total \div n \in Int /\ total % n \in Int
  OBVIOUS
<1> QED BY <1>1 DEF EvenSplit, Shares

LEMMA JitteredTyped ==
  ASSUME NEW n \in Nat, NEW s \in Shares(n), NEW delta, \A i \in 1 .. n : delta[i] \in Int
  PROVE  JitteredQty(s, delta) \in Shares(n)
<1> DEFINE By(i) == Larger(-((s[i] + 2) \div 4), Smaller(delta[i], (s[i] + 2) \div 4))
           moved == Steps([i \in 1 .. n - 1 |-> By(i)])
<1>1. ASSUME NEW i \in 1 .. n PROVE By(i) \in Int /\ s[i] \in Int
  <2> DEFINE q == (s[i] + 2) \div 4
  <2>1. s[i] \in Int /\ q \in Int /\ -q \in Int /\ delta[i] \in Int
    BY DEF Shares
  <2> HIDE DEF q
  <2>2. Smaller(delta[i], q) \in Int
    BY <2>1, Bounds
  <2>3. Larger(-q, Smaller(delta[i], q)) \in Int
    BY <2>1, <2>2, Bounds
  <2> QED BY <2>1, <2>3 DEF q
<1> HIDE DEF By
<1>2. n > 0 => moved \in Int
  <2>1. CASE n > 0
    <3>1. n - 1 \in Nat /\ [i \in 1 .. n - 1 |-> By(i)] \in [1 .. n - 1 -> Int]
      BY <1>1, <2>1
    <3> QED BY <3>1, SumTyped
  <2> QED BY <2>1
<1> HIDE DEF moved
<1>3. ASSUME NEW i \in 1 .. n PROVE (IF i < n THEN s[i] + By(i) ELSE s[i] - moved) \in Int
  BY <1>1, <1>2
<1>4. [i \in 1 .. n |-> IF i < n THEN s[i] + By(i) ELSE s[i] - moved] \in Shares(n)
  BY <1>3 DEF Shares
<1>5. Len(s) = n
  BY ShareLen
<1> QED BY <1>4, <1>5 DEF JitteredQty, moved, By

LEMMA SplitRight ==
  ASSUME NEW p, PlanInput(p), NEW n \in Nat \ {0}, n <= slotCount(p.start, p.deadline, p.interval),
         slotCount(p.start, p.deadline, p.interval) \in Int
  PROVE  Right(p, Split(p, n, repair(EvenSplit(p.total, n), p.lo, p.hi, p.total)), p.total)
<1> DEFINE raw == repair(EvenSplit(p.total, n), p.lo, p.hi, p.total)
           jit == repair(JitteredQty(raw.s, p.delta), p.lo, p.hi, p.total)
           times == scheduleTimes(n, p)
           qty == IF n > 1 /\ jit.ok THEN jit.s ELSE raw.s
           r == [code |-> "OK", qty |-> qty, at |-> times]
<1>1. \A i \in 1 .. n : p.late[i] \in Int /\ p.delta[i] \in Int
  BY DEF PlanInput
<1>2. p.total \in Int /\ p.lo \in Int /\ p.hi \in Int /\ Windowed(p)
  BY DEF PlanInput
<1>3. raw \in Mending(n) /\ (raw.ok => InBounds(raw.s, p.lo, p.hi) /\ Steps(raw.s) = p.total)
  BY <1>2, EvenTyped, RepairTyped
<1> HIDE DEF raw
<1>4. JitteredQty(raw.s, p.delta) \in Shares(n)
  <2>1. raw.s \in Shares(n)
    BY <1>3 DEF Mending
  <2> QED BY <1>1, <2>1, JitteredTyped
<1>5. jit \in Mending(n) /\ (jit.ok => InBounds(jit.s, p.lo, p.hi) /\ Steps(jit.s) = p.total)
  BY <1>2, <1>4, RepairTyped
<1> HIDE DEF jit
<1>6. CASE raw.ok /\ times # <<>>
  <2>1. qty \in Shares(n) /\ InBounds(qty, p.lo, p.hi) /\ Steps(qty) = p.total
    BY <1>3, <1>5, <1>6 DEF Mending
  <2>2. /\ times \in [1 .. n -> Int]
        /\ \A i \in 1 .. n : times[i] >= p.start /\ times[i] < p.deadline
        /\ \A i, j \in 1 .. n : i < j => times[i] < times[j]
    BY <1>1, <1>2, <1>6, Scheduled
  <2> HIDE DEF qty, times
  <2>3. qty \in Seq(Int) /\ Len(qty) = n /\ times \in Seq(Int) /\ Len(times) = n /\ DOMAIN times = 1 .. n
    <3>1. times \in Shares(n)
      BY <2>2 DEF Shares
    <3> QED BY <2>1, <3>1, ShareLen DEF Shares
  <2>4. r \in Plans
    BY <2>3 DEF Plans, Codes
  <2>5. Sound(p, r, p.total)
    BY <2>1, <2>2, <2>3 DEF Sound, Increasing
  <2>6. Split(p, n, raw) = r
    BY <1>6 DEF Split, FromSplit, qty, times, jit
  <2> QED BY <2>4, <2>5, <2>6 DEF Right, raw
<1>7. CASE ~ (raw.ok /\ times # <<>>)
  <2>1. Split(p, n, raw) \in {Refused("PLAN_INFEASIBLE"), Refused("WINDOW_TOO_SHORT")}
    BY <1>7 DEF Split, FromSplit
  <2> QED BY <2>1, RefusedRight DEF raw, Codes
<1> QED BY <1>6, <1>7

(* plan.ts planTwap, for every input: a plan is the whole total in slices  *)
(* within the bounds at rising times within the window, whatever the jitter.*)
THEOREM PlanSound == ASSUME NEW p, PlanInput(p) PROVE Right(p, planTwap(p), p.total)
<1> DEFINE slots == slotCount(p.start, p.deadline, p.interval)
           n == Smaller(slots, p.total \div p.lo)
<1>1. p.start \in Int /\ p.deadline \in Int /\ p.interval \in Nat \ {0} /\ p.total \in Int /\ p.lo \in Nat \ {0} /\ p.hi \in Nat
  BY DEF PlanInput, Windowed
<1>2. CASE p.deadline <= p.start
  BY <1>1, <1>2, RefusedRight DEF planTwap, Codes
<1>3. CASE p.deadline > p.start /\ p.total < p.lo
  BY <1>1, <1>3, RefusedRight DEF planTwap, Codes
<1>4. CASE p.deadline > p.start /\ p.total >= p.lo /\ p.hi < p.lo
  BY <1>1, <1>4, RefusedRight DEF planTwap, Codes
<1>5. CASE p.deadline > p.start /\ p.total >= p.lo /\ p.hi >= p.lo
  <2>1. planTwap(p) = WithSlices(p, slots, n)
    BY <1>1, <1>5 DEF planTwap
  <2>2. slots \in Nat
    <3>1. slots = CeilDiv(p.deadline - p.start, p.interval) /\ p.deadline - p.start \in Nat \ {0}
      BY <1>1, <1>5 DEF slotCount
    <3> QED BY <1>1, <3>1, Ceil
  <2>3. p.total \div p.lo \in Int
    BY <1>1
  <2>4. n \in Int /\ n <= slots
    BY <2>2, <2>3, Bounds
  <2>5. CeilDiv(p.total, p.hi) \in Int /\ CeilDiv(p.total, p.hi) >= 1
    <3>1. p.total \in Nat \ {0} /\ p.hi \in Nat \ {0}
      BY <1>1, <1>5
    <3> QED BY <3>1, Ceil
  <2> HIDE DEF n, slots
  <2>6. CASE CeilDiv(p.total, p.hi) > slots \/ n < CeilDiv(p.total, p.hi)
    BY <2>1, <2>6, RefusedRight DEF WithSlices, Codes
  <2>7. CASE ~ (CeilDiv(p.total, p.hi) > slots \/ n < CeilDiv(p.total, p.hi))
    <3>1. WithSlices(p, slots, n) = Split(p, n, repair(EvenSplit(p.total, n), p.lo, p.hi, p.total))
      BY <2>7 DEF WithSlices
    <3>2. n \in Nat \ {0}
      BY <2>4, <2>5, <2>7
    <3> QED BY <2>1, <2>2, <2>4, <3>1, <3>2, SplitRight DEF slots
  <2> QED BY <2>6, <2>7
<1> QED BY <1>1, <1>2, <1>3, <1>4, <1>5


(* The search of fitPlan: the totals it tries fall, and what it holds is   *)
(* right for some total that is not above the first one.                   *)
Fitting(p) ==
  {a \in [plan : Plans, total : Int, done : BOOLEAN] :
     a.total <= p.total /\ \E total \in Int : (a.plan.code = "OK" => total <= p.total) /\ Right(p, a.plan, total)}

LEMMA SoundScale ==
  ASSUME NEW p, PlanInput(p), NEW x \in Int, NEW r, NEW t, Right([p EXCEPT !.total = x], r, t)
  PROVE  Right(p, r, t)
<1>1. \A f \in PlanFields \ {"total"} : [p EXCEPT !.total = x][f] = p[f]
  BY DEF PlanInput
<1> DEFINE q == [p EXCEPT !.total = x]
<1>2. q.lo = p.lo /\ q.hi = p.hi /\ q.start = p.start /\ q.deadline = p.deadline
  BY <1>1 DEF PlanFields
<1> HIDE DEF q
<1>3. Sound(q, r, t) => Sound(p, r, t)
  BY <1>2 DEF Sound
<1> QED BY <1>3 DEF Right, q

LEMMA ScaledInput ==
  ASSUME NEW p, PlanInput(p), NEW x \in Int
  PROVE  PlanInput([p EXCEPT !.total = x]) /\ [p EXCEPT !.total = x].total = x
<1> DEFINE q == [p EXCEPT !.total = x]
<1>1. DOMAIN q = PlanFields /\ q.total = x
  BY DEF PlanInput, PlanFields
<1>2. /\ q.lo = p.lo /\ q.hi = p.hi /\ q.start = p.start /\ q.deadline = p.deadline /\ q.interval = p.interval
      /\ q.late = p.late /\ q.delta = p.delta
  BY DEF PlanInput, PlanFields
<1> HIDE DEF q
<1>3. PlanInput(q)
  BY <1>1, <1>2 DEF PlanInput, Windowed
<1> QED BY <1>1, <1>3 DEF q

LEMMA AttemptFits ==
  ASSUME NEW p, PlanInput(p), NEW cap \in Int, NEW a \in Fitting(p)
  PROVE  Attempt(a, p, cap) \in Fitting(p)
<1>1. CASE a.done
  BY <1>1 DEF Attempt
<1>2. CASE ~ a.done
  <2> DEFINE q == [p EXCEPT !.total = a.total]
             r == planTwap(q)
             y == Smaller(a.total - 1, cap)
  <2>1. a.total \in Int /\ a.total <= p.total /\ p.total \in Int
    BY DEF Fitting, PlanInput
  <2>2. PlanInput(q) /\ q.total = a.total
    BY <2>1, ScaledInput
  <2>3. Right(q, r, a.total)
    BY <2>2, PlanSound
  <2>4. Right(p, r, a.total)
    BY <2>1, <2>3, SoundScale
  <2>5. y \in Int /\ y <= p.total
    <3>1. a.total - 1 \in Int
      BY <2>1
    <3> QED BY <2>1, <3>1, Bounds
  <2>6. Attempt(a, p, cap) = Tried(r, a.total, cap)
    BY <1>2 DEF Attempt
  <2> HIDE DEF q, r
  <2>7. r \in Plans
    BY <2>4 DEF Right
  <2>8. CASE r.code \notin Retryable
    <3>1. Tried(r, a.total, cap) = [plan |-> r, total |-> a.total, done |-> TRUE]
      BY <2>8 DEF Tried
    <3> QED BY <2>1, <2>4, <2>6, <2>7, <3>1 DEF Fitting
  <2>9. CASE r.code \in Retryable
    <3>1. Tried(r, a.total, cap) = [plan |-> r, total |-> y, done |-> y <= 0]
      BY <2>9 DEF Tried
    <3> HIDE DEF y
    <3>2. (y <= 0) \in BOOLEAN
      BY <2>5
    <3> QED BY <2>1, <2>4, <2>5, <2>6, <2>7, <3>1, <3>2 DEF Fitting
  <2> QED BY <2>8, <2>9
<1> QED BY <1>1, <1>2

LEMMA FitRounds ==
  ASSUME NEW p, PlanInput(p)
  PROVE  \E g \in [0 .. 8 -> Fitting(p)] :
           /\ g[0] = [plan |-> Refused("UNSCHEDULABLE"), total |-> p.total, done |-> p.total <= 0]
           /\ \A m \in 1 .. 8 : g[m] = Attempt(g[m - 1], p, slotCount(p.start, p.deadline, p.interval) * p.hi)
           /\ fitPlan(p) = g[8].plan
<1> DEFINE n == 8
           S == Fitting(p)
           cap == slotCount(p.start, p.deadline, p.interval) * p.hi
           b == [plan |-> Refused("UNSCHEDULABLE"), total |-> p.total, done |-> p.total <= 0]
           Body(x, m) == Attempt(x, p, cap)
           Eq(g) == g = [m \in 0 .. n |-> IF m = 0 THEN b ELSE Attempt(g[m - 1], p, cap)]
           after == CHOOSE g : Eq(g)
           h == [m \in 1 .. n |-> [x \in S |-> Body(x, m)]]
<1>0. n \in Nat
  OBVIOUS
<1>a. p.total \in Int /\ (p.total <= 0) \in BOOLEAN
  BY DEF PlanInput
<1>1. b \in S
  <2>1. Right(p, Refused("UNSCHEDULABLE"), p.total)
    BY RefusedRight DEF Codes
  <2>2. Refused("UNSCHEDULABLE") \in Plans
    BY <2>1 DEF Right
  <2> QED BY <1>a, <2>1, <2>2 DEF Fitting, Refused
<1>b. cap \in Int
  <2>1. slotCount(p.start, p.deadline, p.interval) \in Int
    <3>1. CASE p.deadline <= p.start
      BY <3>1 DEF slotCount
    <3>2. CASE ~ (p.deadline <= p.start)
      <4>1. p.deadline - p.start \in Nat \ {0} /\ p.interval \in Nat \ {0}
        BY <3>2 DEF PlanInput, Windowed
      <4> QED BY <3>2, <4>1, Ceil DEF slotCount
    <3> QED BY <3>1, <3>2
  <2> QED BY <2>1 DEF PlanInput
<1> HIDE DEF cap
<1>2. ASSUME NEW m \in 1 .. n, NEW x \in S PROVE Body(x, m) \in S
  BY <1>b, AttemptFits
<1>4. fitPlan(p) = after[n].plan
  BY DEF fitPlan, cap
<1> HIDE DEF n
<1> HIDE DEF S, b, Body
<1>3. Eq(after)
  <2>1. Closed(h, n, S)
    BY <1>2 DEF Closed
  <2> HIDE DEF h
  <2>2. PICK g \in [0 .. n -> S] : Runs(g, h, n, b)
    BY <1>0, <1>1, <2>1, Loop
  <2>3. ASSUME NEW m \in 1 .. n PROVE g[m] = Body(g[m - 1], m)
    <3>1. g[m - 1] \in S /\ g[m] = h[m][g[m - 1]]
      BY <1>0, <2>2 DEF Runs
    <3> QED BY <3>1 DEF h
  <2>4. g[0] = b
    BY <2>2 DEF Runs
  <2>5. ASSUME NEW m \in 0 .. n PROVE g[m] = IF m = 0 THEN b ELSE Body(g[m - 1], m)
    <3>1. CASE m = 0
      BY <2>4, <3>1
    <3>2. CASE m # 0
      BY <1>0, <2>3, <3>2
    <3> QED BY <3>1, <3>2
  <2>6. Eq(g)
    BY <2>5 DEF Body
  <2> QED BY <2>6
<1> HIDE DEF h, after
<1> DEFINE T == {m \in 0 .. n : after[m] \in S}
<1>5. 0 \in T
  BY <1>0, <1>1, <1>3
<1>6. ASSUME NEW m \in 1 .. n, m - 1 \in T PROVE m \in T
  <2>1. after[m] = Body(after[m - 1], m)
    BY <1>0, <1>3 DEF Body
  <2> QED BY <1>2, <1>6, <2>1
<1> HIDE DEF T
<1>7. after \in [0 .. n -> S]
  <2>1. \A m \in 0 .. n : m \in T
    BY <1>0, <1>5, <1>6, Climb
  <2>2. \A m \in 0 .. n : after[m] \in S
    BY <2>1 DEF T
  <2> QED BY <1>3, <2>2
<1>8. after[0] = b /\ \A m \in 1 .. n : after[m] = Body(after[m - 1], m)
  BY <1>0, <1>3 DEF Body
<1> USE DEF n, S, b, Body
<1> QED BY <1>4, <1>7, <1>8 DEF cap

(* scheduler.ts fitPlan, for every input: what it fits is a sound plan of  *)
(* at most the rest, or nothing.                                           *)
THEOREM FitSound ==
  ASSUME NEW p, PlanInput(p)
  PROVE  \E total \in Int : Right(p, fitPlan(p), total) /\ (fitPlan(p).code = "OK" => total <= p.total)
<1>1. PICK g \in [0 .. 8 -> Fitting(p)] : fitPlan(p) = g[8].plan
  BY FitRounds
<1>2. g[8] \in Fitting(p)
  BY <1>1
<1> QED BY <1>1, <1>2 DEF Fitting

-----------------------------------------------------------------------------
(* When a plan exists                                                      *)

(* Division of whole numbers, and products with a factor that grows.       *)
LEMMA Quotient ==
  ASSUME NEW a \in Nat, NEW n \in Nat \ {0}
  PROVE  /\ a \div n \in Nat /\ a % n \in 0 .. n - 1
         /\ a = n * (a \div n) + (a % n)
  OBVIOUS

LEMMA Product ==
  ASSUME NEW a \in Int, NEW b \in Int, NEW c \in Nat
  PROVE  /\ a * c \in Int /\ b * c \in Int /\ (a - 1) * c = a * c - c /\ (a + 1) * c = a * c + c
         /\ a <= b => a * c <= b * c
<1>1. a * c \in Int /\ b * c \in Int /\ (a - 1) * c = a * c - c /\ (a + 1) * c = a * c + c
  OBVIOUS
<1>2. ASSUME a <= b PROVE a * c <= b * c
  <2>1. b - a \in Nat /\ (b - a) * c = b * c - a * c
    BY <1>2
  <2>2. (b - a) * c >= 0
    BY <2>1
  <2> QED BY <1>1, <2>1, <2>2
<1> QED BY <1>1, <1>2

(* An even split is the whole total.                                       *)
LEMMA EvenSum ==
  ASSUME NEW total \in Nat, NEW n \in Nat \ {0}
  PROVE  Steps(EvenSplit(total, n)) = total
<1> DEFINE base == total \div n
           res == total % n
           f == EvenSplit(total, n)
<1>1. base \in Nat /\ res \in Nat /\ total = n * base + res
  BY Quotient
<1>2. f \in [1 .. n -> Int] /\ \A i \in 1 .. n : f[i] = IF i < n THEN base ELSE base + res
  <2>1. f \in Shares(n)
    BY EvenTyped
  <2> QED BY <2>1 DEF Shares, EvenSplit
<1> HIDE DEF f, base, res
<1>3. PICK g \in [0 .. n -> Int] : g[0] = 0 /\ (\A m \in 1 .. n : g[m] = g[m - 1] + f[m]) /\ Steps(f) = g[n]
  BY <1>2, Sums
<1> DEFINE T == {m \in 0 .. n - 1 : g[m] = m * base}
<1>4. 0 \in T
  BY <1>1, <1>3
<1>5. ASSUME NEW m \in 1 .. n - 1, m - 1 \in T PROVE m \in T
  <2>1. g[m - 1] = (m - 1) * base /\ f[m] = base /\ g[m] = g[m - 1] + f[m]
    BY <1>2, <1>3, <1>5
  <2>2. (m - 1) * base = m * base - base /\ m * base \in Int
    BY <1>1, Product
  <2>3. g[m] = m * base
    BY <1>1, <2>1, <2>2
  <2> QED BY <2>3
<1> HIDE DEF T
<1>6. n - 1 \in T
  <2>1. n - 1 \in Nat
    OBVIOUS
  <2> QED BY <1>4, <1>5, <2>1, Climb
<1>7. g[n - 1] = (n - 1) * base /\ g[n] = g[n - 1] + f[n] /\ f[n] = base + res
  BY <1>2, <1>3, <1>6 DEF T
<1>8. (n - 1) * base = n * base - base /\ n * base \in Int
  BY <1>1, Product
<1>9. g[n] = total
  BY <1>1, <1>7, <1>8
<1> QED BY <1>3, <1>9 DEF f

(* The excess of the last slice of an even split is poured into the others, *)
(* from the last to the first, until it is gone or all of them are full.    *)
Poured(x, m, n, s, base, hi, amount) ==
  /\ x.s[n] = s[n] /\ x.moved \in 0 .. amount
  /\ \A j \in 1 .. n - 1 : IF j <= n - m THEN x.s[j] = base ELSE x.s[j] \in base .. hi
  /\ Steps(x.s) = Steps(s) + x.moved
  /\ x.moved = amount \/ x.moved = (IF m = 0 THEN 0 ELSE (m - 1) * (hi - base))

LEMMA PourStep ==
  ASSUME NEW n \in Nat \ {0}, NEW base \in Nat, NEW lo \in Nat, NEW hi \in Nat, base <= hi, NEW s \in Shares(n),
         NEW amount \in Nat \ {0}, NEW m \in 1 .. n, NEW x \in Moving(n), Poured(x, m - 1, n, s, base, hi, amount)
  PROVE  Poured(Move(x, n, n + 1 - m, amount, 1, lo, hi), m, n, s, base, hi, amount)
<1> DEFINE d == hi - base
           j == n + 1 - m
           take == Smaller(hi - x.s[j], amount - x.moved)
           y == [s |-> [x.s EXCEPT ![j] = @ + 1 * take], moved |-> x.moved + take]
           r == Move(x, n, j, amount, 1, lo, hi)
<1>1. x.s \in [1 .. n -> Int] /\ x.moved \in Int /\ j \in 1 .. n /\ d \in Nat
  BY DEF Moving, Shares
<1>2. /\ x.s[n] = s[n] /\ x.moved \in 0 .. amount
      /\ \A i \in 1 .. n - 1 : IF i <= n - (m - 1) THEN x.s[i] = base ELSE x.s[i] \in base .. hi
      /\ Steps(x.s) = Steps(s) + x.moved
      /\ x.moved = amount \/ x.moved = (IF m - 1 = 0 THEN 0 ELSE (m - 1 - 1) * d)
  BY DEF Poured
<1>3. CASE m = 1
  <2>1. r = x
    BY <1>3 DEF Move
  <2>2. \A i \in 1 .. n - 1 : x.s[i] = base
    BY <1>2, <1>3
  <2>3. x.moved = amount \/ x.moved = (m - 1) * d
    BY <1>1, <1>2, <1>3
  <2> QED BY <1>2, <1>3, <2>1, <2>2, <2>3 DEF Poured
<1>4. CASE m # 1
  <2>1. j \in 1 .. n - 1 /\ j # n /\ x.s[j] = base /\ j = n - m + 1
    <3>1. j \in 1 .. n - 1 /\ j # n /\ j <= n - (m - 1)
      BY <1>4
    <3> QED BY <1>2, <3>1
  <2>2. take = Smaller(d, amount - x.moved)
    BY <2>1
  <2>3. take \in {d, amount - x.moved} /\ take <= d /\ take <= amount - x.moved /\ take \in Int
    <3>1. amount - x.moved \in Int /\ d \in Int
      BY <1>1
    <3> HIDE DEF take, d
    <3> QED BY <2>2, <3>1, Bounds
  <2>4. (m - 1) * d = (m - 1 - 1) * d + d /\ (m - 1) * d \in Int
    <3>1. m - 1 \in Int
      OBVIOUS
    <3> HIDE DEF d
    <3>2. (m - 1 - 1) * d = (m - 1) * d - d /\ (m - 1) * d \in Int
      BY <1>1, <3>1, Product
    <3> QED BY <1>1, <3>2
  <2> DEFINE q1 == (m - 1) * d
             q2 == (m - 1 - 1) * d
  <2>5. x.moved = amount \/ x.moved = q2
    BY <1>2, <1>4
  <2>6. q1 = q2 + d /\ q1 \in Int /\ q2 \in Int
    BY <1>1, <2>4
  <2>9. d = hi - base /\ x.moved \in 0 .. amount /\ x.moved \in Int /\ d \in Nat
    BY <1>1, <1>2
  <2> HIDE DEF q1, q2, d
  <2>7. CASE take <= 0
    <3>1. r = x
      BY <2>1, <2>7 DEF Move, take
    <3>2. x.moved = amount \/ x.moved = q1
      BY <2>3, <2>5, <2>6, <2>7, <2>9
    <3>3. \A i \in 1 .. n - 1 : IF i <= n - m THEN x.s[i] = base ELSE x.s[i] \in base .. hi
      <4> SUFFICES ASSUME NEW i \in 1 .. n - 1 PROVE IF i <= n - m THEN x.s[i] = base ELSE x.s[i] \in base .. hi
        OBVIOUS
      <4>1. CASE i <= n - (m - 1)
        <5>1. x.s[i] = base
          BY <1>2, <4>1
        <5> QED BY <5>1
      <4>2. CASE ~ (i <= n - (m - 1))
        BY <1>2, <4>2
      <4> QED BY <4>1, <4>2
    <3>4. x.moved = amount \/ x.moved = (IF m = 0 THEN 0 ELSE (m - 1) * (hi - base))
      BY <3>2 DEF q1, d
    <3> QED BY <1>2, <3>1, <3>3, <3>4 DEF Poured
  <2>8. CASE ~ (take <= 0)
    <3>1. r = y
      BY <2>1, <2>8 DEF Move, take
    <3> DEFINE t == [x.s EXCEPT ![j] = @ + 1 * take]
    <3>2. t \in [1 .. n -> Int] /\ t[j] = base + take /\ \A i \in 1 .. n : i # j => t[i] = x.s[i]
      <4>1. x.s[j] + 1 * take = base + take /\ base + take \in Int
        BY <2>1, <2>3
      <4> HIDE DEF take
      <4> QED BY <1>1, <4>1
    <3>3. y.s = t /\ y.moved = x.moved + take
      OBVIOUS
    <3> HIDE DEF t, y, r, take, j
    <3>4. Steps(t) = Steps(x.s) + (t[j] - x.s[j])
      BY <1>1, <3>2, SumChanged
    <3>5. Steps(t) = Steps(s) + y.moved
      <4>1. Steps(s) \in Int
        BY SumTyped DEF Shares
      <4>2. Steps(x.s) = Steps(s) + x.moved
        BY <1>2
      <4>3. t[j] - x.s[j] = take
        BY <2>1, <2>3, <3>2
      <4> QED BY <2>3, <2>9, <3>3, <3>4, <4>1, <4>2, <4>3
    <3>6. y.moved \in 0 .. amount /\ (y.moved = amount \/ y.moved = q1)
      BY <2>3, <2>5, <2>6, <2>8, <2>9, <3>3
    <3>7. \A i \in 1 .. n - 1 : IF i <= n - m THEN t[i] = base ELSE t[i] \in base .. hi
      <4> SUFFICES ASSUME NEW i \in 1 .. n - 1 PROVE IF i <= n - m THEN t[i] = base ELSE t[i] \in base .. hi
        OBVIOUS
      <4>1. CASE i = j
        <5>1. t[i] \in base .. hi
          BY <2>3, <2>8, <2>9, <3>2, <4>1
        <5>2. ~ (i <= n - m)
          BY <2>1, <4>1
        <5> QED BY <5>1, <5>2
      <4>2. CASE i # j /\ i <= n - m
        <5>1. i <= n - (m - 1) /\ i \in 1 .. n
          BY <4>2
        <5>2. t[i] = x.s[i]
          BY <3>2, <4>2, <5>1
        <5> QED BY <1>2, <4>2, <5>1, <5>2
      <4>3. CASE i # j /\ ~ (i <= n - m)
        <5>1. ~ (i <= n - (m - 1))
          BY <2>1, <4>3
        <5>2. t[i] = x.s[i]
          <6>1. i \in 1 .. n
            OBVIOUS
          <6> QED BY <3>2, <4>3, <6>1
        <5> QED BY <1>2, <4>3, <5>1, <5>2
      <4> QED BY <4>1, <4>2, <4>3
    <3>8. t[n] = s[n]
      BY <1>2, <2>1, <3>2
    <3>9. y.moved = amount \/ y.moved = (IF m = 0 THEN 0 ELSE (m - 1) * (hi - base))
      BY <3>6 DEF q1, d
    <3>10. Poured(y, m, n, s, base, hi, amount)
      BY <3>3, <3>5, <3>6, <3>7, <3>8, <3>9 DEF Poured
    <3> QED BY <3>1, <3>10 DEF r, j
  <2> QED BY <2>7, <2>8
<1> QED BY <1>3, <1>4

Absorbed(r, n, s, base, hi, amount) ==
  /\ r \in Moving(n) /\ r.moved = amount /\ r.s[n] = s[n]
  /\ \A j \in 1 .. n - 1 : r.s[j] \in base .. hi
  /\ Steps(r.s) = Steps(s) + amount

LEMMA SpreadLast ==
  ASSUME NEW n \in Nat \ {0}, NEW base \in Nat, NEW lo \in Nat, NEW hi \in Nat, base <= hi, NEW s \in Shares(n),
         \A j \in 1 .. n - 1 : s[j] = base, NEW amount \in Nat \ {0}, NEW room, room = (n - 1) * (hi - base), amount <= room
  PROVE  Absorbed(Spread(s, n, amount, 1, lo, hi), n, s, base, hi, amount)
<1>1. PICK g : SpreadRun(g, n, s, n, amount, 1, lo, hi)
  <2>1. n \in Nat /\ amount \in Int /\ 1 \in {1, -1} /\ lo \in Int /\ hi \in Int
    OBVIOUS
  <2> QED BY <2>1, SpreadRounds
<1>2. /\ g \in [0 .. n -> Moving(n)] /\ g[0] = [s |-> s, moved |-> 0]
      /\ \A m \in 1 .. n : g[m] = Move(g[m - 1], n, n + 1 - m, amount, 1, lo, hi)
      /\ Spread(s, n, amount, 1, lo, hi) = g[n]
  BY <1>1 DEF SpreadRun
<1> DEFINE T == {m \in 0 .. n : Poured(g[m], m, n, s, base, hi, amount)}
<1>3. 0 \in T
  <2>1. g[0].s = s /\ g[0].moved = 0
    BY <1>2
  <2>2. Steps(s) \in Int
    BY SumTyped DEF Shares
  <2>3. Poured(g[0], 0, n, s, base, hi, amount)
    BY <2>1, <2>2 DEF Poured
  <2> QED BY <2>3
<1>4. ASSUME NEW m \in 1 .. n, m - 1 \in T PROVE m \in T
  <2>1. g[m - 1] \in Moving(n) /\ g[m] = Move(g[m - 1], n, n + 1 - m, amount, 1, lo, hi)
    BY <1>2
  <2>2. Poured(g[m - 1], m - 1, n, s, base, hi, amount)
    BY <1>4
  <2>3. Poured(g[m], m, n, s, base, hi, amount)
    BY <2>1, <2>2, PourStep
  <2> QED BY <2>3
<1> HIDE DEF T
<1>5. n \in T
  BY <1>3, <1>4, Climb
<1> DEFINE r == g[n]
           full == (n - 1) * (hi - base)
<1>6. Poured(r, n, n, s, base, hi, amount) /\ r \in Moving(n)
  BY <1>2, <1>5 DEF T
<1> HIDE DEF r
<1>7. /\ r.s[n] = s[n] /\ r.moved \in 0 .. amount
      /\ \A j \in 1 .. n - 1 : IF j <= n - n THEN r.s[j] = base ELSE r.s[j] \in base .. hi
      /\ Steps(r.s) = Steps(s) + r.moved
      /\ r.moved = amount \/ r.moved = full
  BY <1>6 DEF Poured
<1>8. full \in Int /\ amount <= full
  OBVIOUS
<1> HIDE DEF full
<1>9. r.moved = amount
  BY <1>7, <1>8
<1>10. \A j \in 1 .. n - 1 : r.s[j] \in base .. hi
  BY <1>7
<1>11. Absorbed(r, n, s, base, hi, amount)
  BY <1>6, <1>7, <1>9, <1>10 DEF Absorbed
<1> QED BY <1>2, <1>11 DEF r

(* What can be carried by n slices has an even split whose parts fit, but   *)
(* for the excess of the last, for which the others have the room.          *)
LEMMA EvenFits ==
  ASSUME NEW total \in Nat, NEW n \in Nat \ {0}, NEW lo \in Nat, NEW hi \in Nat, n * lo <= total, total <= n * hi
  PROVE  LET base == total \div n
             res == total % n
         IN  /\ base \in Nat /\ res \in Nat /\ lo <= base /\ base <= hi
             /\ base + res - hi <= (n - 1) * (hi - base)
<1> DEFINE base == total \div n
           res == total % n
           a == base * n
           b == lo * n
           c == hi * n
<1>1. base \in Nat /\ res \in 0 .. n - 1 /\ total = a + res
  <2>1. base \in Nat /\ res \in 0 .. n - 1 /\ total = n * base + res
    BY Quotient
  <2> HIDE DEF base, res
  <2> QED BY <2>1
<1>2. b <= total /\ total <= c /\ b \in Nat /\ c \in Nat
  OBVIOUS
<1> HIDE DEF base, res
<1>3. lo <= base
  <2> SUFFICES ASSUME base + 1 <= lo PROVE FALSE
    BY <1>1
  <2>1. (base + 1) * n <= b /\ (base + 1) * n = a + n /\ a \in Int
    <3>1. base \in Int /\ base + 1 \in Int /\ lo \in Int
      BY <1>1
    <3>2. (base + 1) * n <= lo * n
      BY <3>1, Product
    <3>3. (base + 1) * n = base * n + n /\ base * n \in Int
      BY <3>1, Product
    <3> QED BY <3>2, <3>3
  <2> HIDE DEF a, b, c
  <2> QED BY <1>1, <1>2, <2>1
<1>4. base <= hi
  <2> SUFFICES ASSUME hi + 1 <= base PROVE FALSE
    BY <1>1
  <2>1. (hi + 1) * n <= a /\ (hi + 1) * n = c + n /\ a \in Int
    <3>1. base \in Int /\ hi + 1 \in Int /\ hi \in Int
      BY <1>1
    <3>2. (hi + 1) * n <= base * n
      BY <3>1, Product
    <3>3. (hi + 1) * n = hi * n + n /\ base * n \in Int
      BY <3>1, Product
    <3> QED BY <3>2, <3>3
  <2> HIDE DEF a, b, c
  <2> QED BY <1>1, <1>2, <2>1
<1>5. base + res - hi <= (n - 1) * (hi - base)
  <2>1. (n - 1) * (hi - base) = c - a - hi + base /\ a \in Int
    BY <1>1
  <2> DEFINE x == (n - 1) * (hi - base)
  <2> HIDE DEF a, b, c, x
  <2>2. x = c - a - hi + base
    BY <2>1 DEF x
  <2>3. base + res - hi <= x
    BY <1>1, <1>2, <2>1, <2>2
  <2> QED BY <2>3 DEF x
<1> QED BY <1>1, <1>3, <1>4, <1>5 DEF base, res

Settled(x, n, lo, hi, total) == x \in Mending(n) /\ x.ok /\ InBounds(x.s, lo, hi) /\ Steps(x.s) = total

(* One pass brings the even split within the bounds.                        *)
LEMMA EvenPass ==
  ASSUME NEW total \in Nat, NEW n \in Nat \ {0}, NEW lo \in Nat, NEW hi \in Nat, n * lo <= total, total <= n * hi
  PROVE  Settled(RepairPass([s |-> EvenSplit(total, n), ok |-> TRUE], lo, hi), n, lo, hi, total)
<1> DEFINE base == total \div n
           res == total % n
           s == EvenSplit(total, n)
           b == [s |-> s, ok |-> TRUE]
           amount == base + res - hi
           room == (n - 1) * (hi - base)
<1>1. base \in Nat /\ res \in Nat /\ lo <= base /\ base <= hi /\ amount <= room
  BY EvenFits
<1>2. s \in Shares(n) /\ Steps(s) = total /\ Len(s) = n /\ DOMAIN s = 1 .. n
  BY EvenTyped, EvenSum, ShareLen
<1>3. (\A j \in 1 .. n - 1 : s[j] = base) /\ s[n] = base + res
  BY DEF EvenSplit
<1> HIDE DEF s, base, res
<1>4. b \in Mending(n) /\ b.s = s /\ b.ok
  BY <1>2 DEF Mending
<1> HIDE DEF b
<1>5. PICK g \in [0 .. n -> Mending(n)] :
        /\ g[0] = b
        /\ \A m \in 1 .. n : g[m] = RepairSlice(g[m - 1], m, lo, hi)
        /\ RepairPass(b, lo, hi) = g[n]
  BY <1>4, PassRounds
<1> DEFINE T == {m \in 0 .. n - 1 : g[m] = b}
<1>6. n - 1 \in T
  <2>1. 0 \in T
    BY <1>5
  <2>2. ASSUME NEW m \in 1 .. n - 1, m - 1 \in T PROVE m \in T
    <3>1. g[m] = RepairSlice(b, m, lo, hi)
      BY <1>5, <2>2
    <3>2. b.s[m] \in lo .. hi
      BY <1>1, <1>3, <1>4
    <3>3. g[m] = b
      BY <3>1, <3>2 DEF RepairSlice
    <3> QED BY <3>3
  <2> HIDE DEF T
  <2>3. n - 1 \in Nat
    OBVIOUS
  <2> QED BY <2>1, <2>2, <2>3, Climb
<1>7. RepairPass(b, lo, hi) = RepairSlice(b, n, lo, hi)
  BY <1>5, <1>6
<1>8. CASE s[n] \in lo .. hi
  <2>1. RepairSlice(b, n, lo, hi) = b
    BY <1>4, <1>8 DEF RepairSlice
  <2>2. InBounds(s, lo, hi)
    <3> SUFFICES ASSUME NEW i \in 1 .. n PROVE s[i] \in lo .. hi
      BY <1>2 DEF InBounds
    <3> QED BY <1>1, <1>3, <1>8
  <2>3. Settled(b, n, lo, hi, total)
    BY <1>2, <1>4, <2>2 DEF Settled
  <2> QED BY <1>7, <2>1, <2>3 DEF b, s
<1>9. CASE s[n] \notin lo .. hi
  <2>1. s[n] > hi /\ s[n] - hi = amount /\ amount \in Nat \ {0}
    BY <1>1, <1>3, <1>9
  <2> DEFINE r == Spread(s, n, amount, 1, lo, hi)
             z == Balanced(r, n, amount, 1)
  <2>2. RepairSlice(b, n, lo, hi) = z
    BY <1>4, <1>9, <2>1 DEF RepairSlice
  <2> HIDE DEF amount, z
  <2>3. /\ r \in Moving(n) /\ r.moved = amount /\ r.s[n] = s[n]
        /\ \A j \in 1 .. n - 1 : r.s[j] \in base .. hi
        /\ Steps(r.s) = Steps(s) + amount
    <3>1. Absorbed(r, n, s, base, hi, amount)
      BY <1>1, <1>2, <1>3, <2>1, SpreadLast
    <3> QED BY <3>1 DEF Absorbed
  <2> HIDE DEF r
  <2>4. r.s \in [1 .. n -> Int] /\ n \in 1 .. n /\ s[n] \in Int
    BY <1>1, <1>3, <2>3 DEF Moving, Shares
  <2> DEFINE t == [r.s EXCEPT ![n] = @ - 1 * r.moved]
  <2>5. z = [s |-> t, ok |-> TRUE]
    BY <2>3 DEF Balanced, z
  <2>6. t \in [1 .. n -> Int] /\ t[n] = s[n] - amount /\ \A i \in 1 .. n : i # n => t[i] = r.s[i]
    <3>1. r.s[n] - 1 * r.moved = s[n] - amount /\ s[n] - amount \in Int
      BY <2>1, <2>3, <2>4
    <3> QED BY <2>4, <3>1
  <2> HIDE DEF t
  <2>7. t[n] = hi
    BY <2>1, <2>4, <2>6
  <2>8. Steps(t) = Steps(r.s) + (t[n] - r.s[n])
    BY <2>4, <2>6, SumChanged
  <2>9. Steps(t) = total
    BY <1>2, <2>1, <2>3, <2>4, <2>6, <2>8
  <2>10. DOMAIN t = 1 .. n /\ InBounds(t, lo, hi)
    <3>1. DOMAIN t = 1 .. n
      BY <2>6
    <3> SUFFICES ASSUME NEW i \in 1 .. n PROVE t[i] \in lo .. hi
      BY <3>1 DEF InBounds
    <3>2. CASE i = n
      BY <1>1, <2>7, <3>2
    <3>3. CASE i # n
      <4>1. t[i] = r.s[i] /\ i \in 1 .. n - 1
        BY <2>6, <3>3
      <4>2. t[i] \in base .. hi
        BY <2>3, <4>1
      <4> QED BY <1>1, <4>2
    <3> QED BY <3>2, <3>3
  <2>11. z \in Mending(n) /\ z.s = t /\ z.ok
    BY <2>5, <2>6 DEF Mending, Shares
  <2>12. Settled(z, n, lo, hi, total)
    BY <2>9, <2>10, <2>11 DEF Settled
  <2> QED BY <1>7, <2>2, <2>12 DEF b, s
<1> QED BY <1>8, <1>9

LEMMA EvenRepaired ==
  ASSUME NEW total \in Nat, NEW n \in Nat \ {0}, NEW lo \in Nat, NEW hi \in Nat, n * lo <= total, total <= n * hi
  PROVE  repair(EvenSplit(total, n), lo, hi, total).ok
<1> DEFINE s == EvenSplit(total, n)
           b == [s |-> s, ok |-> TRUE]
<1>1. s \in Shares(n) /\ Steps(s) = total
  BY EvenTyped, EvenSum
<1>2. PICK g : RepairRun(g, n, s, lo, hi, total)
  <2>1. n \in Nat /\ lo \in Int /\ hi \in Int
    OBVIOUS
  <2> HIDE DEF s
  <2> QED BY <1>1, <2>1, RepairRounds
<1>3. /\ g \in [0 .. 8 * n -> Mending(n)] /\ g[0] = b
      /\ \A m \in 1 .. 8 * n : g[m] = NextPass(g[m - 1], lo, hi)
      /\ repair(s, lo, hi, total) = Repaired(g[8 * n], lo, hi, total)
  BY <1>2 DEF RepairRun
<1>4. Settled(RepairPass(b, lo, hi), n, lo, hi, total)
  BY EvenPass
<1>5. b \in Mending(n) /\ b.s = s /\ b.ok
  BY <1>1 DEF Mending
<1> HIDE DEF s, b
<1> DEFINE T == {m \in 0 .. 8 * n : m = 0 \/ Settled(g[m], n, lo, hi, total)}
<1>6. 0 \in T
  OBVIOUS
<1>7. ASSUME NEW m \in 1 .. 8 * n, m - 1 \in T PROVE m \in T
  <2>1. g[m] = NextPass(g[m - 1], lo, hi)
    BY <1>3
  <2>2. CASE m = 1
    <3>1. g[m] = NextPass(b, lo, hi)
      BY <1>3, <2>1, <2>2
    <3>2. Settled(g[m], n, lo, hi, total)
      <4>1. CASE InBounds(b.s, lo, hi)
        BY <1>1, <1>5, <3>1, <4>1 DEF NextPass, Settled
      <4>2. CASE ~ InBounds(b.s, lo, hi)
        BY <1>4, <3>1, <4>2 DEF NextPass
      <4> QED BY <4>1, <4>2
    <3> QED BY <3>2
  <2>3. CASE m # 1
    <3>1. Settled(g[m - 1], n, lo, hi, total)
      BY <1>7, <2>3
    <3>2. g[m] = g[m - 1]
      BY <2>1, <3>1 DEF NextPass, Settled
    <3> QED BY <3>1, <3>2
  <2> QED BY <2>2, <2>3
<1> HIDE DEF T
<1>8. 8 * n \in T
  <2>1. 8 * n \in Nat
    OBVIOUS
  <2> QED BY <1>6, <1>7, <2>1, Climb
<1>9. Settled(g[8 * n], n, lo, hi, total)
  BY <1>8 DEF T
<1>10. Repaired(g[8 * n], lo, hi, total).ok
  BY <1>9 DEF Repaired, Settled
<1> QED BY <1>3, <1>10 DEF s

(* A slot begins within the window.                                         *)
LEMMA SlotBegins ==
  ASSUME NEW a \in Nat \ {0}, NEW d \in Nat \ {0}, NEW m \in Nat \ {0}, m <= CeilDiv(a, d)
  PROVE  (m - 1) * d \in Nat /\ (m - 1) * d <= a - 1
<1> DEFINE c == CeilDiv(a, d)
           x == a + d - 1
<1>1. x \in Nat /\ c = x \div d
  BY DEF CeilDiv
<1> HIDE DEF c
<1>2. c \in Nat /\ x % d \in 0 .. d - 1 /\ x = d * c + (x % d)
  <2> HIDE DEF x
  <2> QED BY <1>1, Quotient
<1>3. c * d <= x /\ c * d \in Int
  <2> DEFINE y == x % d
             z == d * c
  <2>1. z = c * d /\ z \in Int
    BY <1>2
  <2>2. y \in 0 .. d - 1 /\ x = z + y
    BY <1>2
  <2> HIDE DEF x, y, z
  <2>3. z <= x
    BY <1>1, <2>1, <2>2
  <2> QED BY <2>1, <2>3
<1>4. m * d <= c * d /\ m * d \in Int /\ (m - 1) * d = m * d - d
  <2>1. m <= c
    BY DEF c
  <2> QED BY <1>2, <2>1, Product
<1>5. (m - 1) * d >= 0
  <2>1. m - 1 \in Nat
    OBVIOUS
  <2> QED BY <2>1
<1> DEFINE u == m * d
           v == c * d
           q == (m - 1) * d
<1>6. q \in Int /\ q >= 0 /\ q = u - d /\ u <= v /\ v <= x /\ u \in Int /\ v \in Int
  BY <1>3, <1>4, <1>5
<1> HIDE DEF u, v, q
<1>7. q \in Nat /\ q <= a - 1
  BY <1>6
<1> QED BY <1>7 DEF q

(* A time that is late by at most half of an interval leaves room for the   *)
(* next one.                                                                *)
OnTime(r, m, p) ==
  r.ok /\ r.prev <= (IF m = 0 THEN p.start - 1 ELSE p.start + (m - 1) * p.interval + (p.interval \div 2))

LEMMA NextOnTime ==
  ASSUME NEW p, Windowed(p), p.deadline > p.start, NEW m \in Nat \ {0},
         m <= slotCount(p.start, p.deadline, p.interval),
         p.late[m] \in -(p.interval \div 2) .. (p.interval \div 2),
         NEW r \in Schedules, OnTime(r, m - 1, p)
  PROVE  OnTime(NextTime(r, m, p), m, p)
<1> DEFINE h == p.interval \div 2
           q == (m - 1) * p.interval
           e == (m - 1 - 1) * p.interval
           a == p.start + q + p.late[m]
           b == Larger(a, p.start)
           c == Larger(b, r.prev + 1)
           t == Time(r.prev, m, p)
<1>1. p.start \in Int /\ p.deadline \in Int /\ p.interval \in Nat \ {0} /\ r.prev \in Int /\ p.deadline - p.start \in Nat \ {0}
  BY DEF Windowed, Schedules
<1>2. h \in Nat /\ h + 1 <= p.interval /\ p.late[m] \in -h .. h
  BY <1>1
<1>3. q \in Nat /\ q <= p.deadline - p.start - 1
  <2>1. m <= CeilDiv(p.deadline - p.start, p.interval)
    BY <1>1 DEF slotCount
  <2> QED BY <1>1, <2>1, SlotBegins
<1>4. q = e + p.interval /\ e \in Int
  <2>1. m - 1 \in Int /\ p.interval \in Nat
    BY <1>1
  <2>2. e = q - p.interval
    BY <2>1, Product
  <2> QED BY <1>1, <1>3, <2>2
<1>5. r.ok /\ (m = 1 => r.prev <= p.start - 1) /\ (m # 1 => r.prev <= p.start + e + h)
  <2>1. r.ok /\ r.prev <= (IF m - 1 = 0 THEN p.start - 1 ELSE p.start + e + h)
    BY DEF OnTime
  <2>2. m - 1 = 0 <=> m = 1
    OBVIOUS
  <2> HIDE DEF e, h
  <2> QED BY <2>1, <2>2
<1> HIDE DEF h, q, e
<1>6. r.prev + 1 <= p.start + q
  <2>1. CASE m = 1
    BY <1>1, <1>3, <1>5, <2>1
  <2>2. CASE m # 1
    BY <1>1, <1>2, <1>4, <1>5, <2>2
  <2> QED BY <2>1, <2>2
<1>7. a \in Int /\ a <= p.start + q + h
  BY <1>1, <1>2, <1>3
<1> HIDE DEF a
<1>8. b \in Int /\ b <= p.start + q + h
  BY <1>1, <1>2, <1>3, <1>7, Bounds
<1> HIDE DEF b
<1>9. c \in Int /\ c <= p.start + q + h /\ c >= r.prev + 1
  <2>1. r.prev + 1 \in Int
    BY <1>1
  <2> QED BY <1>1, <1>2, <1>3, <1>6, <1>8, <2>1, Bounds
<1>10. t = Smaller(c, p.deadline - 1)
  BY DEF Time, q, a, b
<1> HIDE DEF c, t
<1>11. t \in Int /\ t <= p.start + q + h /\ t > r.prev
  <2>1. p.deadline - 1 \in Int
    BY <1>1
  <2>2. t \in {c, p.deadline - 1} /\ t <= c
    BY <1>9, <1>10, <2>1, Bounds
  <2> QED BY <1>1, <1>2, <1>3, <1>6, <1>9, <2>1, <2>2
<1>12. NextTime(r, m, p) = [times |-> Append(r.times, t), prev |-> t, ok |-> TRUE]
  <2>1. ~ (~ r.ok \/ t <= r.prev)
    BY <1>1, <1>5, <1>11
  <2> QED BY <2>1 DEF NextTime, t
<1>13. m # 0 /\ t <= p.start + (m - 1) * p.interval + (p.interval \div 2)
  BY <1>11 DEF q, h
<1> QED BY <1>12, <1>13 DEF OnTime

LEMMA TimesFit ==
  ASSUME NEW p, Windowed(p), p.deadline > p.start, NEW n \in Nat \ {0}, n <= slotCount(p.start, p.deadline, p.interval),
         slotCount(p.start, p.deadline, p.interval) \in Int,
         \A i \in 1 .. n : p.late[i] \in -(p.interval \div 2) .. (p.interval \div 2)
  PROVE  scheduleTimes(n, p) # <<>>
<1>1. PICK g \in [0 .. n -> Schedules] :
        /\ g[0] = [times |-> <<>>, prev |-> p.start - 1, ok |-> TRUE]
        /\ \A m \in 1 .. n : g[m] = NextTime(g[m - 1], m, p)
        /\ \A m \in 0 .. n : Timed(g[m], m, p)
        /\ scheduleTimes(n, p) = IF g[n].ok THEN g[n].times ELSE <<>>
  <2>1. \A i \in 1 .. n : p.late[i] \in Int
    <3>1. p.interval \div 2 \in Int
      BY DEF Windowed
    <3> QED BY <3>1
  <2> QED BY <2>1, TimeRounds
<1> DEFINE T == {m \in 0 .. n : OnTime(g[m], m, p)}
<1>2. 0 \in T
  <2>1. OnTime(g[0], 0, p)
    BY <1>1 DEF OnTime, Windowed
  <2> QED BY <2>1
<1>3. ASSUME NEW m \in 1 .. n, m - 1 \in T PROVE m \in T
  <2>1. g[m - 1] \in Schedules /\ OnTime(g[m - 1], m - 1, p) /\ g[m] = NextTime(g[m - 1], m, p)
    BY <1>1, <1>3
  <2>2. m \in Nat \ {0} /\ m <= slotCount(p.start, p.deadline, p.interval)
    OBVIOUS
  <2>3. OnTime(g[m], m, p)
    BY <2>1, <2>2, NextOnTime
  <2> QED BY <2>3
<1> HIDE DEF T
<1>4. n \in T
  BY <1>2, <1>3, Climb
<1>5. g[n].ok
  BY <1>4 DEF T, OnTime
<1>6. g[n].times \in [1 .. n -> Int]
  BY <1>1, <1>5 DEF Timed
<1>7. g[n].times # <<>>
  <2>1. DOMAIN g[n].times = 1 .. n /\ 1 \in 1 .. n
    BY <1>6
  <2> QED BY <2>1
<1> QED BY <1>1, <1>5, <1>7

-----------------------------------------------------------------------------
(* The number of slices that can carry a total, by division.               *)
LEMMA Slices ==
  ASSUME NEW total \in Nat, NEW lo \in Nat \ {0}, NEW hi \in Nat \ {0}, NEW n \in Nat \ {0}
  PROVE  /\ n * lo <= total <=> n <= total \div lo
         /\ total <= n * hi <=> CeilDiv(total, hi) <= n
<1>1. n * lo <= total <=> n <= total \div lo
  <2> DEFINE q == total \div lo
             r == total % lo
             a == q * lo
             b == n * lo
  <2>1. q \in Nat /\ r \in 0 .. lo - 1 /\ total = a + r
    <3>1. q \in Nat /\ r \in 0 .. lo - 1 /\ total = lo * q + r
      BY Quotient
    <3> HIDE DEF q, r
    <3> QED BY <3>1
  <2> HIDE DEF q, r
  <2>2. /\ a \in Int /\ b \in Int
        /\ n <= q => b <= a
        /\ q + 1 <= n => a + lo <= b
    BY <2>1, Product
  <2> HIDE DEF a, b
  <2>3. b <= total <=> n <= q
    BY <2>1, <2>2
  <2> QED BY <2>3 DEF q, b
<1>2. total <= n * hi <=> CeilDiv(total, hi) <= n
  <2> DEFINE x == total + hi - 1
             q == x \div hi
             r == x % hi
             a == q * hi
             b == n * hi
  <2>0. x \in Nat
    OBVIOUS
  <2>1. q \in Nat /\ r \in 0 .. hi - 1 /\ x = a + r
    <3> HIDE DEF x
    <3>1. q \in Nat /\ r \in 0 .. hi - 1 /\ x = hi * q + r
      BY <2>0, Quotient
    <3> HIDE DEF q, r
    <3> QED BY <3>1
  <2>4. CeilDiv(total, hi) = q
    BY DEF CeilDiv
  <2> HIDE DEF q, r
  <2>2. /\ a \in Int /\ b \in Int
        /\ q <= n => a <= b
        /\ n + 1 <= q => b + hi <= a
    BY <2>1, Product
  <2> HIDE DEF a, b
  <2>3. total <= b <=> q <= n
    BY <2>1, <2>2
  <2> QED BY <2>3, <2>4 DEF b
<1> QED BY <1>1, <1>2

(* policy.ts: the jitter of a time is at most half of the interval.        *)
Punctual(p) ==
  \A i \in 1 .. slotCount(p.start, p.deadline, p.interval) : p.late[i] \in -(p.interval \div 2) .. (p.interval \div 2)

Carries(p, n) == n * p.lo <= p.total /\ p.total <= n * p.hi

LEMMA SlotsTyped ==
  ASSUME NEW p, PlanInput(p)
  PROVE  /\ slotCount(p.start, p.deadline, p.interval) \in Nat
         /\ slotCount(p.start, p.deadline, p.interval) # 0 => p.deadline > p.start
<1>1. p.start \in Int /\ p.deadline \in Int /\ p.interval \in Nat \ {0}
  BY DEF PlanInput, Windowed
<1>2. CASE p.deadline <= p.start
  BY <1>2 DEF slotCount
<1>3. CASE ~ (p.deadline <= p.start)
  <2>1. p.deadline - p.start \in Nat \ {0}
    BY <1>1, <1>3
  <2> QED BY <1>1, <1>3, <2>1, Ceil DEF slotCount
<1> QED BY <1>2, <1>3

LEMMA SplitMade ==
  ASSUME NEW p, PlanInput(p), Punctual(p), p.total \in Nat,
         NEW n \in Nat \ {0}, n <= slotCount(p.start, p.deadline, p.interval), Carries(p, n)
  PROVE  Split(p, n, repair(EvenSplit(p.total, n), p.lo, p.hi, p.total)).code = "OK"
<1> DEFINE raw == repair(EvenSplit(p.total, n), p.lo, p.hi, p.total)
<1>1. raw.ok
  BY EvenRepaired DEF PlanInput, Carries
<1>2. scheduleTimes(n, p) # <<>>
  <2>1. slotCount(p.start, p.deadline, p.interval) \in Nat /\ p.deadline > p.start
    BY SlotsTyped
  <2>2. \A i \in 1 .. n : p.late[i] \in -(p.interval \div 2) .. (p.interval \div 2)
    <3>1. \A i \in 1 .. n : i \in 1 .. slotCount(p.start, p.deadline, p.interval)
      BY <2>1
    <3> QED BY <3>1 DEF Punctual
  <2>3. Windowed(p)
    BY DEF PlanInput
  <2> QED BY <2>1, <2>2, <2>3, TimesFit
<1> HIDE DEF raw
<1> QED BY <1>1, <1>2 DEF Split, FromSplit, raw

(* If some number of slices carries the target, so does the number the     *)
(* planner takes, the largest one that the window and the smallest slice   *)
(* allow.                                                                  *)
LEMMA PlanMade ==
  ASSUME NEW p, PlanInput(p), Punctual(p),
         NEW n \in 1 .. slotCount(p.start, p.deadline, p.interval), Carries(p, n)
  PROVE  planTwap(p).code = "OK"
<1> DEFINE slots == slotCount(p.start, p.deadline, p.interval)
           most == p.total \div p.lo
           m == Smaller(slots, most)
           least == CeilDiv(p.total, p.hi)
           raw == repair(EvenSplit(p.total, m), p.lo, p.hi, p.total)
<1>1. slots \in Nat /\ n \in Nat \ {0} /\ n <= slots /\ p.deadline > p.start
  BY SlotsTyped
<1>2. p.total \in Int /\ p.lo \in Nat \ {0} /\ p.hi \in Nat /\ p.start \in Int /\ p.deadline \in Int
  BY DEF PlanInput, Windowed
<1>3. p.total \in Nat /\ p.total >= p.lo /\ p.hi >= p.lo
  <2> DEFINE a == n * p.lo
             b == n * p.hi
  <2>1. a <= p.total /\ p.total <= b
    BY DEF Carries
  <2>2. a \in Int /\ p.lo <= a
    <3>1. p.lo \in Nat /\ 1 <= n /\ n \in Int
      BY <1>1, <1>2
    <3>2. 1 * p.lo <= n * p.lo /\ n * p.lo \in Int
      BY <3>1, Product
    <3> QED BY <3>1, <3>2
  <2>3. b \in Int /\ (p.hi + 1 <= p.lo => b + n <= a)
    <3>1. n \in Nat /\ p.hi \in Int /\ p.hi + 1 \in Int /\ p.lo \in Int
      BY <1>1, <1>2
    <3>2. p.hi * n \in Int /\ (p.hi + 1) * n = p.hi * n + n /\ (p.hi + 1 <= p.lo => (p.hi + 1) * n <= p.lo * n)
      BY <3>1, Product
    <3>3. a = p.lo * n /\ b = p.hi * n
      BY <3>1
    <3> QED BY <3>2, <3>3
  <2> HIDE DEF a, b
  <2>4. p.lo <= p.total /\ p.total \in Nat
    BY <1>2, <2>1, <2>2
  <2>5. ~ (p.hi + 1 <= p.lo)
    BY <1>1, <1>2, <2>1, <2>2, <2>3
  <2> QED BY <1>2, <2>4, <2>5
<1>4. p.hi \in Nat \ {0}
  BY <1>2, <1>3
<1>5. n <= most /\ least <= n /\ most \in Nat /\ least \in Int
  <2>1. n <= most /\ least <= n
    BY <1>1, <1>2, <1>3, <1>4, Slices DEF Carries
  <2>2. most \in Nat
    BY <1>2, <1>3, Quotient
  <2>3. least \in Int
    <3>1. p.total \in Nat \ {0}
      BY <1>2, <1>3
    <3> QED BY <1>4, <3>1, Ceil
  <2> QED BY <2>1, <2>2, <2>3
<1> HIDE DEF slots, most, least
<1>6. m \in Nat \ {0} /\ m <= slots /\ m <= most /\ least <= m
  <2>1. m \in {slots, most} /\ m <= slots /\ m <= most
    BY <1>1, <1>5, Bounds
  <2> HIDE DEF m
  <2> QED BY <1>1, <1>5, <2>1
<1> HIDE DEF m
<1>7. Carries(p, m)
  BY <1>2, <1>3, <1>4, <1>6, Slices DEF Carries, most, least
<1>8. Split(p, m, raw).code = "OK"
  BY <1>3, <1>6, <1>7, SplitMade DEF slots
<1> HIDE DEF raw
<1>9. ~ (least > slots) /\ ~ (m < least)
  BY <1>1, <1>5, <1>6
<1>10. WithSlices(p, slots, m) = Split(p, m, raw)
  BY <1>9 DEF WithSlices, least, raw
<1>11. planTwap(p) = WithSlices(p, slots, m)
  BY <1>1, <1>2, <1>3 DEF planTwap, slots, most, m
<1> QED BY <1>8, <1>10, <1>11

LEMMA PlanNeeds ==
  ASSUME NEW p, PlanInput(p), planTwap(p).code = "OK"
  PROVE  \E n \in 1 .. slotCount(p.start, p.deadline, p.interval) : Carries(p, n)
<1> DEFINE slots == slotCount(p.start, p.deadline, p.interval)
           most == p.total \div p.lo
           m == Smaller(slots, most)
           least == CeilDiv(p.total, p.hi)
<1>1. p.total \in Int /\ p.lo \in Nat \ {0} /\ p.hi \in Nat /\ p.start \in Int /\ p.deadline \in Int
  BY DEF PlanInput, Windowed
<1>2. \A c \in {"INVALID_WINDOW", "UNSCHEDULABLE", "BOUNDS_INFEASIBLE", "WINDOW_TOO_SHORT"} : planTwap(p) # Refused(c)
  BY DEF Refused
<1>3. p.deadline > p.start /\ p.total >= p.lo /\ p.hi >= p.lo /\ planTwap(p) = WithSlices(p, slots, m)
  <2> HIDE DEF slots, m
  <2>1. CASE p.deadline <= p.start
    BY <1>1, <1>2, <2>1 DEF planTwap
  <2>2. CASE p.deadline > p.start /\ p.total < p.lo
    BY <1>1, <1>2, <2>2 DEF planTwap
  <2>3. CASE p.deadline > p.start /\ p.total >= p.lo /\ p.hi < p.lo
    BY <1>1, <1>2, <2>3 DEF planTwap
  <2>4. CASE p.deadline > p.start /\ p.total >= p.lo /\ p.hi >= p.lo
    BY <1>1, <2>4 DEF planTwap, slots, m
  <2> QED BY <1>1, <2>1, <2>2, <2>3, <2>4
<1>4. p.total \in Nat \ {0} /\ p.hi \in Nat \ {0}
  BY <1>1, <1>3
<1>5. slots \in Nat /\ most \in Nat /\ least \in Int /\ least >= 1
  <2>1. slots \in Nat
    BY SlotsTyped
  <2>2. most \in Nat
    BY <1>1, <1>4, Quotient
  <2>3. least \in Int /\ least >= 1
    BY <1>4, Ceil
  <2> QED BY <2>1, <2>2, <2>3
<1>6. ~ (least > slots) /\ ~ (m < least)
  BY <1>2, <1>3 DEF WithSlices
<1> HIDE DEF slots, most, least
<1>7. m \in Nat \ {0} /\ m <= slots /\ m <= most /\ least <= m
  <2>1. m \in {slots, most} /\ m <= slots /\ m <= most
    BY <1>5, Bounds
  <2> HIDE DEF m
  <2> QED BY <1>5, <1>6, <2>1
<1> HIDE DEF m
<1>8. Carries(p, m)
  BY <1>1, <1>4, <1>7, Slices DEF Carries, most, least
<1>9. m \in 1 .. slots
  BY <1>5, <1>7
<1> QED BY <1>8, <1>9 DEF slots

(* What can be planned whole is fitted whole.                              *)
LEMMA FitFirst ==
  ASSUME NEW p, PlanInput(p), p = [f \in PlanFields |-> p[f]], p.total > 0, planTwap(p).code = "OK"
  PROVE  fitPlan(p) = planTwap(p)
<1> DEFINE cap == slotCount(p.start, p.deadline, p.interval) * p.hi
           b == [plan |-> Refused("UNSCHEDULABLE"), total |-> p.total, done |-> p.total <= 0]
           d == [plan |-> planTwap(p), total |-> p.total, done |-> TRUE]
<1>1. PICK g \in [0 .. 8 -> Fitting(p)] :
        /\ g[0] = b
        /\ \A m \in 1 .. 8 : g[m] = Attempt(g[m - 1], p, cap)
        /\ fitPlan(p) = g[8].plan
  BY FitRounds
<1>2. p.total \in Int
  BY DEF PlanInput
<1>3. [p EXCEPT !.total = p.total] = p
  <2> DEFINE q == [p EXCEPT !.total = p.total]
  <2>1. q = [f \in PlanFields |-> q[f]] /\ \A f \in PlanFields : q[f] = p[f]
    BY DEF PlanInput
  <2> HIDE DEF q
  <2>2. [f \in PlanFields |-> q[f]] = [f \in PlanFields |-> p[f]]
    BY <2>1
  <2>3. q = p
    BY <2>1, <2>2
  <2> QED BY <2>3 DEF q
<1> HIDE DEF cap
<1>4. Attempt(b, p, cap) = d
  <2>1. ~ b.done /\ b.total = p.total
    <3>1. (p.total <= 0) = FALSE
      BY <1>2
    <3>2. b = [plan |-> Refused("UNSCHEDULABLE"), total |-> p.total, done |-> FALSE]
      BY <3>1
    <3> HIDE DEF b
    <3> QED BY <3>2
  <2> HIDE DEF b
  <2>2. Attempt(b, p, cap) = Tried(planTwap(p), p.total, cap)
    BY <1>3, <2>1 DEF Attempt
  <2> QED BY <2>2 DEF Tried, Retryable
<1>5. Attempt(d, p, cap) = d
  BY DEF Attempt
<1>6. d.plan = planTwap(p)
  OBVIOUS
<1> HIDE DEF b, d
<1>7. g[1] = d
  BY <1>1, <1>4
<1>8. ASSUME NEW m \in 2 .. 8, g[m - 1] = d PROVE g[m] = d
  BY <1>1, <1>5, <1>8
<1> DEFINE T == {m \in 0 .. 8 : m = 0 \/ g[m] = d}
<1>9. ASSUME NEW m \in 1 .. 8, m - 1 \in T PROVE m \in T
  <2>1. CASE m = 1
    BY <1>7, <2>1
  <2>2. CASE m # 1
    <3>1. m \in 2 .. 8 /\ g[m - 1] = d
      BY <1>9, <2>2
    <3> QED BY <1>8, <3>1
  <2> QED BY <2>1, <2>2
<1>10. 0 \in T
  OBVIOUS
<1> HIDE DEF T
<1>11. 8 \in T
  BY <1>9, <1>10, Climb
<1> QED BY <1>1, <1>6, <1>11 DEF T

(* plan.ts planTwap and scheduler.ts fitPlan, for every input with a jitter *)
(* that the policy allows: there is a plan exactly if some number of slices *)
(* within the window carries the target, a target that has a plan is fitted *)
(* whole, and whatever is fitted is a sound plan of at most the target.     *)
THEOREM PlanExact ==
  ASSUME NEW p, PlanInput(p), p = [f \in PlanFields |-> p[f]], Punctual(p)
  PROVE  /\ planTwap(p).code = "OK" <=> \E n \in 1 .. slotCount(p.start, p.deadline, p.interval) : Carries(p, n)
         /\ planTwap(p).code = "OK" => Sound(p, planTwap(p), p.total) /\ fitPlan(p) = planTwap(p)
         /\ fitPlan(p).code = "OK" => Steps(fitPlan(p).qty) <= p.total /\ Sound(p, fitPlan(p), Steps(fitPlan(p).qty))
<1>1. planTwap(p).code = "OK" <=> \E n \in 1 .. slotCount(p.start, p.deadline, p.interval) : Carries(p, n)
  BY PlanMade, PlanNeeds
<1>2. ASSUME planTwap(p).code = "OK" PROVE Sound(p, planTwap(p), p.total) /\ fitPlan(p) = planTwap(p)
  <2>1. Sound(p, planTwap(p), p.total)
    BY <1>2, PlanSound DEF Right
  <2>2. p.total > 0
    <3>1. p.total \in Int /\ p.lo \in Nat \ {0}
      BY DEF PlanInput
    <3>2. PICK n \in 1 .. slotCount(p.start, p.deadline, p.interval) : Carries(p, n)
      BY <1>2, PlanNeeds
    <3>3. n \in Nat \ {0} /\ n * p.lo <= p.total
      BY <3>2, SlotsTyped DEF Carries
    <3>4. 1 * p.lo <= n * p.lo /\ n * p.lo \in Int
      <4>1. p.lo \in Nat /\ 1 <= n /\ n \in Int
        BY <3>1, <3>3
      <4> HIDE DEF Carries
      <4> QED BY <4>1, Product
    <3> QED BY <3>1, <3>3, <3>4
  <2> QED BY <1>2, <2>1, <2>2, FitFirst
<1>3. ASSUME fitPlan(p).code = "OK"
      PROVE  Steps(fitPlan(p).qty) <= p.total /\ Sound(p, fitPlan(p), Steps(fitPlan(p).qty))
  <2>1. PICK total \in Int : Right(p, fitPlan(p), total) /\ (fitPlan(p).code = "OK" => total <= p.total)
    BY FitSound
  <2>2. Sound(p, fitPlan(p), total) /\ total <= p.total
    BY <1>3, <2>1 DEF Right
  <2>3. Steps(fitPlan(p).qty) = total
    BY <2>2 DEF Sound
  <2> QED BY <2>2, <2>3
<1> QED BY <1>1, <1>2, <1>3
=============================================================================
