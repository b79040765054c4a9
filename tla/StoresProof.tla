---------------------------- MODULE StoresProof -----------------------------
(***************************************************************************)
(* Proofs about what is kept in files, for every value of the constants:   *)
(* the log of the live gate is one chain, with one process that appends,   *)
(* and in the historical store the bars stay and a query sees them, with   *)
(* the two processes that the code has. Both files are read before they    *)
(* are written; what a process has read is still so when it writes.        *)
(***************************************************************************)
EXTENDS Parts, Sequences, SequenceTheorems, FiniteSetTheorems, TLAPS

-----------------------------------------------------------------------------
(* The gate's log: x1 the file, x3 the head in memory, x4 how far the file *)
(* was read, x5 and x6 the step and what it saw, x8 the faults the log met. *)
(* Only the last line can be unfinished. The one writer has read up to the *)
(* last whole line, or it started on a file that is no sound chain and     *)
(* reads it all before it writes, or it took a last line without newline   *)
(* for a whole one. Its head is not behind any whole line, and without a   *)
(* fault it is the last one.                                               *)
Lines == [kind : {"entry", "torn", "bare", "glued"}, seq : Nat, prev : Nat, hash : Nat]
Heads == [seq : Nat, hash : Nat]

TornLast(f) == \A i \in 1 .. Len(f) : Audit!Unfinished(f[i]) => i = Len(f)

Ahead(h, f) == \A i \in 1 .. Len(Audit!Whole(f)) : f[i].kind = "entry" => f[i].seq <= h.seq

UpToDate(h, k, f, bad) ==
  /\ k = Len(Audit!Whole(f))
  /\ Ahead(h, f)
  /\ ~ bad => h = IF k = 0 THEN Audit!NoHead ELSE Audit!HeadOf(f[k])

WriterOK(h, k, pc, n, f, bad) ==
  /\ \/ UpToDate(h, k, f, bad) /\ (pc = "write" /\ ~ bad => Audit!Whole(f) = f)
     \/ k = 0 /\ h = Audit!NoHead /\ pc \notin {"write", "release"}
     \/ bad /\ k = Len(f) /\ Ahead(h, f) /\ pc # "read"
  /\ pc = "read" => n = Len(f)

FileOK(f, bad) ==
  /\ f \in Seq(Lines) /\ TornLast(f) /\ Audit!Ascending(f)
  /\ ~ bad => Audit!verifyAuditFile(Audit!Whole(f))

AuditInv ==
  /\ FileOK(x1, x8 # {}) /\ x7 \in Nat
  /\ x3 \in [{"server"} -> Heads] /\ x4 \in [{"server"} -> Nat]
  /\ DOMAIN x5 = {"server"} /\ x5 = [p \in {"server"} |-> x5[p]]
  /\ x6 = [p \in {"server"} |-> x6[p]]
  /\ WriterOK(x3["server"], x4["server"], x5["server"], x6["server"], x1, x8 # {})

LEMMA CutSeq ==
  ASSUME NEW S, NEW f \in Seq(S), NEW n \in Nat, n <= Len(f)
  PROVE  SubSeq(f, 1, n) \in Seq(S) /\ Len(SubSeq(f, 1, n)) = n /\ \A i \in 1 .. n : SubSeq(f, 1, n)[i] = f[i]
<1>1. SubSeq(f, 1, n) \in Seq(S)
  OBVIOUS
<1>2. Len(SubSeq(f, 1, n)) = n
  OBVIOUS
<1>3. \A i \in 1 .. n : SubSeq(f, 1, n)[i] = f[i]
  OBVIOUS
<1> QED BY <1>1, <1>2, <1>3

(* A set of numbers that has a bound has a greatest member.                *)
LEMMA GreatestOf ==
  ASSUME NEW N \in Nat, NEW K \in SUBSET (0 .. N), K # {}
  PROVE  \E x \in K : \A y \in K : x >= y
<1> DEFINE R == OpToRel(<, Nat)
           C == {N - x : x \in K}
<1>1. \A i, j \in Nat : i < j => <<i, j>> \in R
  BY DEF OpToRel
<1>2. IsWellFoundedOn(R, Nat)
  BY NatLessThanWellFounded
<1>3. C \subseteq Nat /\ C # {} /\ K \subseteq Nat
  <2>1. \A j \in 0 .. N : N - j \in Nat /\ j \in Nat
    OBVIOUS
  <2> QED BY <2>1
<1>4. (\A j \in K : N - j \in C) /\ \A c \in C : \E j \in K : c = N - j
  OBVIOUS
<1> HIDE DEF R, C
<1>5. PICK m \in C : \A j \in C : <<j, m>> \notin R
  BY <1>2, <1>3, WFMin
<1>6. PICK k \in K : m = N - k
  BY <1>4, <1>5
<1>7. ASSUME NEW j \in K PROVE k >= j
  <2>1. <<N - j, m>> \notin R /\ N - j \in Nat /\ m \in Nat /\ j \in Nat /\ k \in Nat
    BY <1>3, <1>4, <1>5, <1>6
  <2>2. ~ (N - j < m)
    BY <1>1, <2>1
  <2> QED BY <1>6, <2>1, <2>2
<1> QED BY <1>7

(* The whole lines of a file.                                              *)
LEMMA WholeOf ==
  ASSUME NEW f \in Seq(Lines), TornLast(f)
  PROVE  /\ Audit!Whole(f) \in Seq(Lines)
         /\ \/ Audit!Whole(f) = f
            \/ Len(f) > 0 /\ Audit!Unfinished(f[Len(f)]) /\ Len(Audit!Whole(f)) = Len(f) - 1
         /\ \A i \in 1 .. Len(Audit!Whole(f)) :
              i <= Len(f) /\ Audit!Whole(f)[i] = f[i] /\ ~ Audit!Unfinished(f[i])
<1>1. CASE f # <<>> /\ Audit!Unfinished(f[Len(f)])
  <2> DEFINE g == SubSeq(f, 1, Len(f) - 1)
  <2>1. Len(f) > 0 /\ Len(f) \in Nat
    BY <1>1
  <2>2. g \in Seq(Lines) /\ Len(g) = Len(f) - 1 /\ \A i \in 1 .. Len(f) - 1 : g[i] = f[i]
    <3>1. Len(f) - 1 \in Nat /\ Len(f) - 1 <= Len(f)
      BY <2>1
    <3> QED BY <3>1, CutSeq
  <2>3. Audit!Whole(f) = g
    BY <1>1 DEF Audit!Whole, Audit!Last, Audit!Front
  <2> HIDE DEF g
  <2> QED BY <1>1, <2>1, <2>2, <2>3 DEF TornLast
<1>2. CASE ~ (f # <<>> /\ Audit!Unfinished(f[Len(f)]))
  <2>1. Audit!Whole(f) = f
    BY <1>2 DEF Audit!Whole, Audit!Last
  <2> QED BY <1>2, <2>1 DEF TornLast
<1> QED BY <1>1, <1>2

(* A line that is read as an entry is whole or lacks only its newline.     *)
LEMMA ReadableWhole ==
  ASSUME NEW l, ~ Audit!Unfinished(l) PROVE Audit!Readable(l) <=> l.kind = "entry"
  BY DEF Audit!Unfinished, Audit!Readable

(* A file that loses its unfinished line.                                  *)
LEMMA WholeIsOK ==
  ASSUME NEW f, NEW bad, FileOK(f, bad)
  PROVE  FileOK(Audit!Whole(f), bad) /\ Audit!Whole(Audit!Whole(f)) = Audit!Whole(f)
<1> DEFINE g == Audit!Whole(f)
<1>1. g \in Seq(Lines) /\ \A i \in 1 .. Len(g) : i <= Len(f) /\ g[i] = f[i] /\ ~ Audit!Unfinished(f[i])
  BY WholeOf DEF FileOK
<1>2. Audit!Whole(g) = g
  BY <1>1 DEF Audit!Whole, Audit!Last
<1>3. Audit!Ascending(g)
  BY <1>1 DEF FileOK, Audit!Ascending
<1> QED BY <1>1, <1>2, <1>3 DEF FileOK, TornLast

(* The file grows by a line behind its whole lines.                        *)
LEMMA FileGrows ==
  ASSUME NEW f, NEW bad, FileOK(f, bad), NEW e \in Lines, NEW late \in BOOLEAN, bad => late,
         Audit!Readable(e) => \A i \in 1 .. Len(Audit!Whole(f)) : f[i].kind = "entry" => f[i].seq < e.seq,
         ~ late => \/ Audit!Unfinished(e)
                   \/ Audit!Follows(Append(Audit!Whole(f), e), Len(Audit!Whole(f)) + 1)
  PROVE  FileOK(Append(Audit!Whole(f), e), late)
<1> DEFINE g == Audit!Whole(f)
           a == Append(g, e)
<1>1. /\ g \in Seq(Lines) /\ FileOK(g, bad)
      /\ \A i \in 1 .. Len(g) : i <= Len(f) /\ g[i] = f[i] /\ ~ Audit!Unfinished(f[i])
  BY WholeOf, WholeIsOK DEF FileOK
<1>0. Audit!Readable(e) => \A i \in 1 .. Len(g) : Audit!Readable(g[i]) => g[i].seq < e.seq
  BY <1>1, ReadableWhole
<1> HIDE DEF g
<1>2. /\ a \in Seq(Lines) /\ Len(a) = Len(g) + 1 /\ a[Len(g) + 1] = e /\ Len(g) \in Nat
      /\ \A i \in 1 .. Len(g) : a[i] = g[i]
  BY <1>1
<1> HIDE DEF a
<1>3. TornLast(a)
  BY <1>1, <1>2 DEF TornLast
<1>4. Audit!Ascending(a)
  <2> SUFFICES ASSUME NEW i \in 1 .. Len(a), NEW j \in 1 .. Len(a), i < j, Audit!Readable(a[i]), Audit!Readable(a[j])
               PROVE  a[i].seq < a[j].seq
    BY <1>2 DEF Audit!Ascending
  <2>1. CASE j = Len(g) + 1
    BY <1>0, <1>2, <2>1
  <2>2. CASE j \in 1 .. Len(g)
    <3>1. i \in 1 .. Len(g) /\ a[i] = g[i] /\ a[j] = g[j]
      BY <1>2, <2>2
    <3>2. \A x, y \in DOMAIN g : x < y /\ Audit!Readable(g[x]) /\ Audit!Readable(g[y]) => g[x].seq < g[y].seq
      BY <1>1 DEF FileOK, Audit!Ascending
    <3>3. i \in DOMAIN g /\ j \in DOMAIN g
      BY <1>1, <2>2, <3>1
    <3> QED BY <3>1, <3>2, <3>3
  <2> QED BY <1>2, <2>1, <2>2
<1>5. ASSUME ~ late PROVE Audit!verifyAuditFile(Audit!Whole(a))
  <2>1. Audit!verifyAuditFile(g)
    BY <1>5 DEF FileOK, g
  <2>2. CASE Audit!Unfinished(e)
    <3>1. Audit!Whole(a) = SubSeq(a, 1, Len(g))
      BY <1>1, <1>2, <2>2 DEF Audit!Whole, Audit!Last, Audit!Front
    <3>2. SubSeq(a, 1, Len(g)) = g
      BY <1>1, <1>2
    <3> QED BY <2>1, <3>1, <3>2
  <2>3. CASE ~ Audit!Unfinished(e)
    <3>1. Audit!Whole(a) = a
      BY <1>2, <2>3 DEF Audit!Whole, Audit!Last
    <3>2. ASSUME NEW i \in 1 .. Len(g) PROVE Audit!Follows(a, i)
      <4>1. Audit!Follows(g, i)
        BY <1>1, <2>1 DEF Audit!verifyAuditFile
      <4>2. i # 1 => i - 1 \in 1 .. Len(g)
        BY <1>2
      <4> QED BY <1>2, <4>1, <4>2 DEF Audit!Follows
    <3>3. Audit!Follows(a, Len(g) + 1)
      BY <1>5, <2>3 DEF a, g
    <3>4. DOMAIN a = 1 .. Len(g) + 1
      BY <1>2
    <3> QED BY <1>2, <3>1, <3>2, <3>3, <3>4 DEF Audit!verifyAuditFile
  <2> QED BY <2>2, <2>3
<1> QED BY <1>2, <1>3, <1>4, <1>5 DEF FileOK, a, g

(* What a step must leave behind.                                          *)
LEMMA AuditMoves ==
  ASSUME AuditInv, NEW h \in Heads, NEW k \in Nat, NEW pc, NEW n,
         x3' = [x3 EXCEPT !["server"] = h], x4' = [x4 EXCEPT !["server"] = k],
         x5' = [x5 EXCEPT !["server"] = pc], x6' = [x6 EXCEPT !["server"] = n],
         x7' \in Nat, FileOK(x1', x8' # {}), WriterOK(h, k, pc, n, x1', x8' # {})
  PROVE  AuditInv'
<1>1. x3'["server"] = h /\ x4'["server"] = k /\ x5'["server"] = pc /\ x6'["server"] = n
  BY DEF AuditInv
<1>2. x3' \in [{"server"} -> Heads] /\ x4' \in [{"server"} -> Nat]
  BY DEF AuditInv
<1>3. x5' = [p \in {"server"} |-> x5'[p]] /\ x6' = [p \in {"server"} |-> x6'[p]]
  BY DEF AuditInv
<1> QED BY <1>1, <1>2, <1>3 DEF AuditInv

(* The steps that only look at the lock or at the size of the file.        *)
LEMMA AuditLooks ==
  ASSUME AuditInv, NEW pc, NEW n, UNCHANGED <<x1, x3, x4, x7, x8>>,
         x5' = [x5 EXCEPT !["server"] = pc], x6' = [x6 EXCEPT !["server"] = n],
         pc # "write", pc # "release" \/ x5["server"] = "release",
         pc = "read" => n = Len(x1) /\ x4["server"] # Len(x1)
  PROVE  AuditInv'
<1>1. x3' = [x3 EXCEPT !["server"] = x3["server"]] /\ x4' = [x4 EXCEPT !["server"] = x4["server"]]
  BY DEF AuditInv
<1>2. x3["server"] \in Heads /\ x4["server"] \in Nat
  BY DEF AuditInv
<1>3. WriterOK(x3["server"], x4["server"], pc, n, x1, x8 # {})
  BY DEF AuditInv, WriterOK
<1> QED BY <1>1, <1>2, <1>3, AuditMoves DEF AuditInv

LEMMA AuditLocks ==
  ASSUME AuditInv, NEW p \in {"server"},
         Audit!Append1(p) \/ Audit!Create(p) \/ Audit!CheckStale(p) \/ Audit!GiveUp(p) \/ Audit!UnlinkStale(p) \/ Audit!Release(p)
  PROVE  AuditInv'
<1>1. UNCHANGED <<x1, x3, x4, x6, x7, x8>> /\ \E pc \in {"lock", "stat", "stale", "unlink", "idle"} : Audit!Goto(p, pc)
  BY DEF Audit!Append1, Audit!Create, Audit!CheckStale, Audit!GiveUp, Audit!UnlinkStale, Audit!Release
<1>2. PICK pc : x5' = [x5 EXCEPT !["server"] = pc] /\ pc \in {"lock", "stat", "stale", "unlink", "idle"}
  BY <1>1 DEF Audit!Goto
<1>3. x6' = [x6 EXCEPT !["server"] = x6["server"]]
  BY <1>1 DEF AuditInv
<1> QED BY <1>1, <1>2, <1>3, AuditLooks

LEMMA AuditStat ==
  ASSUME AuditInv, NEW p \in {"server"}, Audit!Stat(p)
  PROVE  AuditInv'
<1> DEFINE h == x3["server"]
           k == x4["server"]
           g == Audit!Whole(x1)
<1>1. /\ x1 \in Seq(Lines) /\ TornLast(x1) /\ g \in Seq(Lines)
      /\ g = x1 \/ Len(g) = Len(x1) - 1
  BY WholeOf DEF AuditInv, FileOK
<1>2. k = Len(g) \/ k = 0 \/ k = Len(x1)
  BY DEF AuditInv, WriterOK, UpToDate
<1>3. k <= Len(x1) /\ k \in Nat /\ Len(x1) \in Nat
  BY <1>1, <1>2
<1>4. UNCHANGED <<x1, x3, x4, x7, x8>> /\ x6' = [x6 EXCEPT !["server"] = Len(x1)]
  BY <1>3 DEF Audit!Stat
<1>5. CASE Len(x1) = k /\ x5' = [x5 EXCEPT !["server"] = "write"]
  <2>1. x3' = [x3 EXCEPT !["server"] = h] /\ x4' = [x4 EXCEPT !["server"] = k] /\ h \in Heads
    BY <1>4 DEF AuditInv
  <2>2. UpToDate(h, k, x1, x8 # {}) => g = x1
    BY <1>1, <1>3, <1>5 DEF UpToDate
  <2>3. k = 0 /\ h = Audit!NoHead => g = x1 /\ UpToDate(h, k, x1, x8 # {})
    BY <1>1, <1>3, <1>5 DEF UpToDate, Ahead
  <2>4. WriterOK(h, k, "write", Len(x1), x1, x8 # {})
    BY <2>2, <2>3 DEF AuditInv, WriterOK
  <2> HIDE DEF h, k, g
  <2>5. FileOK(x1', x8' # {}) /\ x7' \in Nat
    BY <1>4 DEF AuditInv
  <2>6. WriterOK(h, k, "write", Len(x1), x1', x8' # {})
    BY <1>4, <2>4
  <2> QED BY <1>3, <1>4, <1>5, <2>1, <2>5, <2>6, AuditMoves
<1>6. CASE Len(x1) # k /\ x5' = [x5 EXCEPT !["server"] = "read"]
  BY <1>4, <1>6, AuditLooks
<1> QED BY <1>3, <1>5, <1>6 DEF Audit!Stat, Audit!Goto

(* The head after the lines that were not read yet.                        *)
LEMMA Adopted ==
  ASSUME NEW f \in Seq(Lines), NEW bad, FileOK(f, bad), Audit!Whole(f) = f
  PROVE  /\ Audit!Adopt(Audit!NoHead, f) \in Heads
         /\ UpToDate(Audit!Adopt(Audit!NoHead, f), Len(f), f, bad)
         /\ Ahead(Audit!Adopt(Audit!NoHead, f), f)
<1> DEFINE parsed == {i \in DOMAIN f : f[i].kind = "entry"}
           m == Audit!Max(parsed)
           h == Audit!Adopt(Audit!NoHead, f)
<1>1. DOMAIN f = 1 .. Len(f) /\ Len(f) \in Nat
  OBVIOUS
<1>0. \A i \in 1 .. Len(f) : ~ Audit!Unfinished(f[i])
  BY <1>1, WholeOf DEF FileOK
<1>2. CASE parsed = {}
  <2>1. h = Audit!NoHead /\ h \in Heads /\ h = [seq |-> 0, hash |-> 0]
    BY <1>2 DEF Audit!Adopt, Audit!NoHead, Audit!Genesis, Heads
  <2>2. ~ bad => Len(f) = 0
    <3> SUFFICES ASSUME ~ bad, Len(f) # 0 PROVE FALSE
      OBVIOUS
    <3>1. Audit!Follows(f, 1) /\ 1 \in DOMAIN f
      BY <1>1 DEF FileOK, Audit!verifyAuditFile
    <3> QED BY <1>0, <1>2, <3>1, ReadableWhole DEF Audit!Follows
  <2> HIDE DEF h
  <2> QED BY <1>1, <1>2, <2>1, <2>2 DEF UpToDate, Ahead, h
<1>3. CASE parsed # {}
  <2>1. m \in parsed /\ \A i \in parsed : m >= i
    <3>1. Len(f) \in Nat /\ parsed \in SUBSET (0 .. Len(f))
      BY <1>1
    <3>2. \E x \in parsed : \A y \in parsed : x >= y
      BY <1>3, <3>1, GreatestOf
    <3> QED BY <3>2 DEF Audit!Max
  <2>2. h = Audit!HeadOf(f[m])
    BY <1>3 DEF Audit!Adopt
  <2> HIDE DEF m
  <2>3. f[m] \in Lines /\ m \in 1 .. Len(f)
    BY <1>1, <2>1
  <2>4. h \in Heads /\ h.seq = f[m].seq
    BY <2>2, <2>3 DEF Audit!HeadOf, Lines, Heads
  <2>5. ASSUME NEW i \in 1 .. Len(f), f[i].kind = "entry" PROVE f[i].seq <= h.seq
    <3>1. i \in parsed /\ i <= m /\ f[i].seq \in Nat
      <4>1. f[i] \in Lines /\ i \in parsed /\ m >= i
        BY <1>1, <2>1, <2>5
      <4> QED BY <2>3, <4>1 DEF Lines
    <3>2. i # m => f[i].seq < f[m].seq
      <4>1. Audit!Readable(f[i]) /\ Audit!Readable(f[m])
        BY <2>1, <2>5 DEF Audit!Readable
      <4> QED BY <1>1, <2>1, <2>3, <3>1, <4>1 DEF FileOK, Audit!Ascending
    <3> QED BY <2>3, <2>4, <3>1, <3>2 DEF Lines
  <2>6. ~ bad => m = Len(f) /\ Len(f) # 0
    <3> SUFFICES ASSUME ~ bad PROVE m = Len(f) /\ Len(f) # 0
      OBVIOUS
    <3>1. Audit!Follows(f, Len(f)) /\ Len(f) \in DOMAIN f
      BY <1>1, <2>3 DEF FileOK, Audit!verifyAuditFile
    <3>2. Len(f) \in parsed
      BY <1>0, <1>1, <3>1, ReadableWhole DEF Audit!Follows
    <3> QED BY <1>1, <2>1, <2>3, <3>2
  <2> HIDE DEF h
  <2> QED BY <1>1, <2>2, <2>4, <2>5, <2>6 DEF UpToDate, Ahead, h
<1> QED BY <1>2, <1>3

(* A process that starts. If it takes a line without newline for a whole   *)
(* one, that is noted.                                                     *)
LEMMA AuditOpens ==
  ASSUME NEW f, NEW bad, FileOK(f, bad), NEW late, bad => late,
         Audit!verifyAuditFile(f) /\ Audit!Whole(f) # f => late
  PROVE  /\ Audit!Opened(f).head \in Heads /\ Audit!Opened(f).known \in Nat
         /\ \A n : WriterOK(Audit!Opened(f).head, Audit!Opened(f).known, "idle", n, f, late)
<1> DEFINE o == Audit!Opened(f)
<1>1. f \in Seq(Lines) /\ DOMAIN f = 1 .. Len(f) /\ Len(f) \in Nat
  BY DEF FileOK
<1>2. CASE Audit!verifyAuditFile(f) /\ f # <<>>
  <2> DEFINE m == Len(f)
  <2>1. o.head = Audit!HeadOf(f[m]) /\ o.known = m
    BY <1>2 DEF Audit!Opened, Audit!Last
  <2>2. m \in 1 .. Len(f) /\ f[m] \in Lines
    BY <1>1, <1>2
  <2>3. \A i \in 1 .. Len(f) : f[i].seq = i
    BY <1>1, <1>2 DEF Audit!verifyAuditFile, Audit!Follows
  <2>4. \A i \in 1 .. Len(Audit!Whole(f)) : i <= Len(f)
    BY WholeOf DEF FileOK
  <2>5. o.head \in Heads /\ o.head.seq = m
    BY <2>1, <2>2, <2>3 DEF Audit!HeadOf, Lines, Heads
  <2> HIDE DEF o
  <2>6. Ahead(o.head, f)
    BY <1>1, <2>3, <2>4, <2>5 DEF Ahead
  <2>7. ~ late => UpToDate(o.head, o.known, f, late)
    BY <1>2, <2>1, <2>2, <2>6 DEF UpToDate
  <2>8. late => o.known = Len(f)
    BY <2>1
  <2> QED BY <1>1, <2>1, <2>5, <2>6, <2>7, <2>8 DEF WriterOK, o
<1>3. CASE ~ (Audit!verifyAuditFile(f) /\ f # <<>>)
  <2>1. o.head = Audit!NoHead /\ o.known = 0
    BY <1>3 DEF Audit!Opened
  <2>2. Audit!NoHead \in Heads
    BY DEF Audit!NoHead, Audit!Genesis, Heads
  <2> QED BY <2>1, <2>2 DEF WriterOK
<1> QED BY <1>2, <1>3

(* The part of a sequence from its first to its last element, and none.    *)
LEMMA AllOrNone ==
  ASSUME NEW S, NEW f \in Seq(S)
  PROVE  SubSeq(f, 1, Len(f)) = f /\ SubSeq(f, Len(f) + 1, Len(f)) = <<>>
  OBVIOUS

(* What a read adopts: the head of the whole lines.                        *)
LEMMA AuditAdopts ==
  ASSUME NEW f, NEW bad, FileOK(f, bad), NEW h \in Heads, NEW k \in Nat, NEW n,
         WriterOK(h, k, "read", n, f, bad)
  PROVE  /\ SubSeq(f, 1, n) = f
         /\ Audit!Adopt(h, Audit!NewLines(f, k)) \in Heads
         /\ k + Len(Audit!NewLines(f, k)) = Len(Audit!Whole(f))
         /\ UpToDate(Audit!Adopt(h, Audit!NewLines(f, k)), Len(Audit!Whole(f)), Audit!Whole(f), bad)
         /\ UpToDate(Audit!Adopt(h, Audit!NewLines(f, k)), Len(Audit!Whole(f)), f, TRUE)
<1> DEFINE g == Audit!Whole(f)
           new == Audit!NewLines(f, k)
           a == Audit!Adopt(h, new)
<1>1. /\ f \in Seq(Lines) /\ g \in Seq(Lines) /\ TornLast(f) /\ FileOK(g, bad) /\ Audit!Whole(g) = g
      /\ \A i \in 1 .. Len(g) : i <= Len(f) /\ g[i] = f[i]
  BY WholeOf, WholeIsOK DEF FileOK
<1>2. SubSeq(f, 1, n) = f
  BY <1>1, AllOrNone DEF WriterOK
<1>3. \A H : Ahead(H, f) <=> Ahead(H, g)
  BY <1>1 DEF Ahead
<1> HIDE DEF g
<1>4. CASE UpToDate(h, k, f, bad)
  <2>1. k = Len(g) /\ new = <<>>
    BY <1>1, <1>4, AllOrNone DEF UpToDate, Audit!NewLines, g
  <2>2. a = h
    BY <2>1 DEF Audit!Adopt
  <2>3. UpToDate(h, Len(g), g, bad)
    <3>1. k # 0 => g[k] = f[k]
      BY <1>1, <2>1
    <3> QED BY <1>1, <1>3, <1>4, <2>1, <3>1 DEF UpToDate
  <2>4. UpToDate(h, Len(g), f, TRUE)
    BY <1>4, <2>1 DEF UpToDate, g
  <2>5. k + Len(new) = Len(g)
    BY <1>1, <2>1
  <2> HIDE DEF new, a
  <2>6. a \in Heads /\ UpToDate(a, Len(g), g, bad) /\ UpToDate(a, Len(g), f, TRUE)
    BY <2>2, <2>3, <2>4
  <2> QED BY <1>2, <2>5, <2>6 DEF g, new, a
<1>5. CASE k = 0 /\ h = Audit!NoHead
  <2>1. new = g
    BY <1>1, <1>5, AllOrNone DEF Audit!NewLines, g
  <2>2. a \in Heads /\ UpToDate(a, Len(g), g, bad) /\ Ahead(a, g)
    BY <1>1, <1>5, <2>1, Adopted
  <2> HIDE DEF new, a
  <2>3. UpToDate(a, Len(g), f, TRUE)
    BY <1>3, <2>2 DEF UpToDate, g
  <2>4. k + Len(new) = Len(g)
    BY <1>1, <1>5, <2>1
  <2> QED BY <1>2, <2>2, <2>3, <2>4 DEF g, new, a
<1> QED BY <1>4, <1>5 DEF WriterOK

LEMMA AuditReads ==
  ASSUME AuditInv, NEW p \in {"server"}, Audit!ReadTail(p)
  PROVE  AuditInv'
<1> DEFINE h == x3["server"]
           k == x4["server"]
           g == Audit!Whole(x1)
           new == Audit!NewLines(x1, k)
           a == Audit!Adopt(h, new)
           bad == x8 # {}
<1>1. /\ FileOK(x1, bad) /\ h \in Heads /\ k \in Nat /\ x5["server"] = "read"
      /\ WriterOK(h, k, "read", x6["server"], x1, bad)
  BY DEF AuditInv, Audit!ReadTail
<1>2. /\ SubSeq(x1, 1, x6["server"]) = x1 /\ a \in Heads /\ k + Len(new) = Len(g)
      /\ UpToDate(a, Len(g), g, bad) /\ UpToDate(a, Len(g), x1, TRUE)
  BY <1>1, AuditAdopts
<1>3. /\ x1 \in Seq(Lines) /\ g \in Seq(Lines) /\ FileOK(g, bad) /\ Audit!Whole(g) = g
      /\ g = x1 \/ SubSeq(x1, 1, Len(g)) = g
  <2>1. x1 \in Seq(Lines) /\ g \in Seq(Lines) /\ FileOK(g, bad) /\ Audit!Whole(g) = g
    BY <1>1, WholeOf, WholeIsOK DEF FileOK
  <2>2. ASSUME g # x1 PROVE SubSeq(x1, 1, Len(g)) = g
    <3>1. g = SubSeq(x1, 1, Len(x1) - 1) /\ Len(x1) > 0
      BY <2>1, <2>2 DEF Audit!Whole, Audit!Front
    <3>2. Len(x1) - 1 \in Nat /\ Len(x1) - 1 <= Len(x1)
      BY <2>1, <3>1
    <3>3. Len(g) = Len(x1) - 1
      BY <2>1, <3>1, <3>2, CutSeq
    <3> QED BY <3>1, <3>3
  <2> QED BY <2>1, <2>2
<1>4. /\ x3' = [x3 EXCEPT !["server"] = a] /\ x4' = [x4 EXCEPT !["server"] = Len(g)]
      /\ x5' = [x5 EXCEPT !["server"] = "write"] /\ x6' = [x6 EXCEPT !["server"] = x6["server"]] /\ x7' = x7
      /\ (x1' = g /\ x8' = x8) \/ (x1' = x1 /\ x8' # {})
  <2>1. x6' = x6 /\ x6 = [q \in {"server"} |-> x6[q]]
    BY DEF AuditInv, Audit!ReadTail
  <2> HIDE DEF g, new, a
  <2>2. x4' = [x4 EXCEPT !["server"] = k + Len(new)] /\ x3' = [x3 EXCEPT !["server"] = a]
    BY <1>2 DEF Audit!ReadTail, new, a
  <2>3. (x1' = g /\ x8' = x8) \/ (x1' = x1 /\ x8' # {})
    BY <1>2, <1>3 DEF Audit!ReadTail, g, new
  <2> QED BY <1>2, <2>1, <2>2, <2>3 DEF Audit!ReadTail, Audit!Goto
<1>5. /\ FileOK(x1', x8' # {}) /\ UpToDate(a, Len(g), x1', x8' # {})
      /\ ~ (x8' # {}) => Audit!Whole(x1') = x1'
  <2>1. FileOK(x1, TRUE)
    BY <1>1 DEF FileOK
  <2>2. CASE x1' = g /\ x8' = x8
    <3> HIDE DEF g, a
    <3> QED BY <1>2, <1>3, <2>2
  <2>3. CASE x1' = x1 /\ x8' # {}
    <3> HIDE DEF g, a
    <3> QED BY <1>2, <2>1, <2>3 DEF FileOK, UpToDate
  <2> QED BY <1>4, <2>2, <2>3
<1> HIDE DEF g, new, a
<1>6. WriterOK(a, Len(g), "write", x6["server"], x1', x8' # {})
  BY <1>5 DEF WriterOK
<1>7. Len(g) \in Nat /\ x7' \in Nat
  BY <1>3, <1>4 DEF AuditInv
<1> QED BY <1>2, <1>4, <1>5, <1>6, <1>7, AuditMoves

(* The next entry continues the chain that its writer knows.               *)
LEMMA EntryFits ==
  ASSUME NEW f, NEW bad, FileOK(f, bad), NEW h \in Heads, Ahead(h, f),
         ~ bad => UpToDate(h, Len(Audit!Whole(f)), f, bad), NEW id \in Nat
  PROVE  /\ Audit!Entry(h, id) \in Lines
         /\ \A i \in 1 .. Len(Audit!Whole(f)) : f[i].kind = "entry" => f[i].seq < h.seq + 1
         /\ ~ bad => Audit!Follows(Append(Audit!Whole(f), Audit!Entry(h, id)), Len(Audit!Whole(f)) + 1)
<1> DEFINE g == Audit!Whole(f)
           e == Audit!Entry(h, id)
           k == Len(g)
<1>1. /\ f \in Seq(Lines) /\ g \in Seq(Lines) /\ \A i \in 1 .. Len(g) : i <= Len(f) /\ g[i] = f[i]
  BY WholeOf DEF FileOK
<1>2. e \in Lines /\ e.kind = "entry" /\ e.seq = h.seq + 1 /\ e.prev = h.hash /\ h.seq \in Nat
  BY DEF Heads, Lines, Audit!Entry
<1> HIDE DEF g
<1>3. \A i \in 1 .. Len(g) : f[i].kind = "entry" => f[i].seq < h.seq + 1
  <2>1. \A i \in 1 .. Len(g) : f[i] \in Lines
    BY <1>1
  <2>2. \A i \in 1 .. Len(g) : f[i].seq \in Nat
    BY <2>1 DEF Lines
  <2> QED BY <1>2, <2>2 DEF Ahead, g
<1> HIDE DEF e
<1>5. ASSUME ~ bad PROVE Audit!Follows(Append(g, e), Len(g) + 1)
  <2>1. Audit!verifyAuditFile(g)
    BY <1>5 DEF FileOK, g
  <2>0. UpToDate(h, k, f, bad)
    BY <1>5 DEF g
  <2>2. /\ Append(g, e)[Len(g) + 1] = e /\ Len(g) \in Nat
        /\ \A i \in 1 .. Len(g) : Append(g, e)[i] = g[i]
    BY <1>1, <1>2
  <2>3. CASE k = 0
    <3>1. h.seq = 0 /\ h.hash = 0
      BY <1>5, <2>0, <2>3 DEF UpToDate, Audit!NoHead, Audit!Genesis
    <3> QED BY <1>2, <2>2, <2>3, <3>1 DEF Audit!Follows, Audit!Genesis, Audit!Readable
  <2>4. CASE k # 0
    <3>1. k \in 1 .. Len(g) /\ k \in DOMAIN g
      BY <1>1, <2>4
    <3>2. g[k].seq = k /\ h.seq = g[k].seq /\ h.hash = g[k].hash
      BY <1>1, <1>5, <2>0, <2>1, <2>4, <3>1 DEF UpToDate, Audit!HeadOf, Audit!verifyAuditFile, Audit!Follows
    <3>3. Len(g) + 1 # 1 /\ (Len(g) + 1) - 1 = Len(g)
      BY <2>2, <2>4
    <3>4. Append(g, e)[(Len(g) + 1) - 1] = g[k]
      BY <2>2, <3>1, <3>3
    <3>5. e.seq = Len(g) + 1 /\ e.prev = Append(g, e)[(Len(g) + 1) - 1].hash
      BY <1>2, <3>2, <3>4
    <3> QED BY <1>2, <2>2, <3>3, <3>5 DEF Audit!Follows, Audit!Readable
  <2> QED BY <2>3, <2>4
<1> QED BY <1>2, <1>3, <1>5 DEF e, g

(* What the writer knows when its line is behind the whole lines.          *)
LEMMA WriteCounts ==
  ASSUME NEW f, NEW bad, FileOK(f, bad), NEW h \in Heads, Ahead(h, f),
         NEW id \in Nat, NEW l \in Lines, ~ Audit!Unfinished(l), l.seq = h.seq + 1, l.hash = id,
         NEW new, new = Append(Audit!Whole(f), l)
  PROVE  UpToDate([seq |-> h.seq + 1, hash |-> id], Len(Audit!Whole(f)) + 1, new, bad)
<1> DEFINE g == Audit!Whole(f)
<1>1. f \in Seq(Lines) /\ g \in Seq(Lines) /\ \A i \in 1 .. Len(g) : i <= Len(f) /\ g[i] = f[i]
  BY WholeOf DEF FileOK
<1> HIDE DEF g
<1>2. /\ Len(new) = Len(g) + 1 /\ new[Len(g) + 1] = l /\ Len(g) \in Nat
      /\ \A i \in 1 .. Len(g) : new[i] = g[i]
  BY <1>1 DEF g
<1>3. Audit!Whole(new) = new
  BY <1>2 DEF Audit!Whole, Audit!Last
<1>4. ASSUME NEW i \in 1 .. Len(new), new[i].kind = "entry" PROVE new[i].seq <= h.seq + 1
  <2>1. h.seq \in Nat
    BY DEF Heads
  <2>2. CASE i = Len(g) + 1
    BY <1>2, <2>1, <2>2
  <2>3. CASE i \in 1 .. Len(g)
    <3>1. new[i] = f[i] /\ i \in 1 .. Len(f) /\ f[i] \in Lines
      BY <1>1, <1>2, <2>3
    <3>2. f[i].seq <= h.seq /\ f[i].seq \in Nat
      BY <1>4, <2>3, <3>1 DEF Ahead, Lines, g
    <3> QED BY <2>1, <3>1, <3>2
  <2> QED BY <1>2, <2>2, <2>3
<1>5. [seq |-> h.seq + 1, hash |-> id] = Audit!HeadOf(new[Len(g) + 1])
  BY <1>2 DEF Audit!HeadOf
<1>6. Len(g) + 1 # 0 /\ Len(g) + 1 = Len(Audit!Whole(new))
  BY <1>2, <1>3
<1>7. Ahead([seq |-> h.seq + 1, hash |-> id], new)
  BY <1>3, <1>4 DEF Ahead
<1> QED BY <1>5, <1>6, <1>7 DEF UpToDate, g

LEMMA AuditWrites ==
  ASSUME AuditInv, NEW p \in {"server"}, Audit!Write(p)
  PROVE  AuditInv'
<1> DEFINE h == x3["server"]
           k == x4["server"]
           g == Audit!Whole(x1)
           e == Audit!Entry(h, x7 + 1)
           l == IF g = x1 THEN e ELSE [e EXCEPT !.kind = "glued"]
           H == [seq |-> h.seq + 1, hash |-> x7 + 1]
           bad == x8 # {}
<1>1. /\ FileOK(x1, bad) /\ h \in Heads /\ k \in Nat /\ x5["server"] = "write" /\ x7 + 1 \in Nat
      /\ Ahead(h, x1) /\ k \in {Len(g), Len(x1)}
      /\ ~ bad => g = x1 /\ UpToDate(h, Len(g), x1, bad)
  BY DEF AuditInv, Audit!Write, WriterOK, UpToDate
<1>2. /\ e \in Lines /\ \A i \in 1 .. Len(g) : x1[i].kind = "entry" => x1[i].seq < h.seq + 1
      /\ ~ bad => Audit!Follows(Append(g, e), Len(g) + 1)
  BY <1>1, EntryFits
<1>3. /\ e.kind = "entry" /\ e.seq = h.seq + 1 /\ e.hash = x7 + 1 /\ Audit!HeadOf(e) = H
      /\ H \in Heads
  BY <1>1 DEF Audit!Entry, Audit!HeadOf, Heads
<1>4. Audit!With(x1, e) = Append(g, l)
  BY <1>3 DEF Audit!With, Audit!Unfinished
<1> HIDE DEF e
<1>5. /\ l \in Lines /\ ~ Audit!Unfinished(l) /\ (Audit!Readable(l) => l.seq = h.seq + 1)
      /\ l.seq = h.seq + 1 /\ l.hash = x7 + 1 /\ (~ bad => l = e)
  BY <1>1, <1>2, <1>3 DEF Lines, Audit!Unfinished
<1> HIDE DEF l, H
<1>6. /\ x3' = [x3 EXCEPT !["server"] = H] /\ x5' = [x5 EXCEPT !["server"] = "release"] /\ x7' = x7 + 1
      /\ x6' = [x6 EXCEPT !["server"] = x6["server"]]
  BY <1>3 DEF Audit!Write, Audit!Goto, AuditInv, e
<1>7. CASE x1' = Append(g, l) /\ x4' = [x4 EXCEPT !["server"] = Len(g) + 1] /\ x8' = x8
  <2>1. FileOK(Append(g, l), bad)
    <3>1. Audit!Readable(l) => \A i \in 1 .. Len(g) : x1[i].kind = "entry" => x1[i].seq < l.seq
      BY <1>2, <1>5
    <3>2. ~ bad => Audit!Follows(Append(g, l), Len(g) + 1)
      BY <1>2, <1>5
    <3> QED BY <1>1, <1>5, <3>1, <3>2, FileGrows
  <2>2. UpToDate(H, Len(g) + 1, Append(g, l), bad)
    BY <1>1, <1>5, WriteCounts DEF H
  <2>3. WriterOK(H, Len(g) + 1, "release", x6["server"], x1', x8' # {})
    BY <1>7, <2>2 DEF WriterOK
  <2>4. FileOK(x1', x8' # {}) /\ Len(g) + 1 \in Nat /\ x7' \in Nat
    <3>1. g \in Seq(Lines)
      BY <1>1, WholeOf DEF FileOK
    <3> QED BY <1>1, <1>6, <1>7, <2>1, <3>1
  <2> HIDE DEF h, k, g
  <2> QED BY <1>3, <1>6, <1>7, <2>3, <2>4, AuditMoves
<1>8. CASE x1' = x1 /\ x4' = x4 /\ x8' # {}
  <2>1. x4' = [x4 EXCEPT !["server"] = k]
    BY <1>8 DEF AuditInv
  <2>2. FileOK(x1, TRUE)
    BY <1>1 DEF FileOK
  <2>3. Ahead(H, x1)
    <3>1. \A i \in 1 .. Len(g) : x1[i] \in Lines
      BY <1>1, WholeOf DEF FileOK
    <3>2. \A i \in 1 .. Len(g) : x1[i].seq \in Nat
      BY <3>1 DEF Lines
    <3> QED BY <1>1, <1>2, <3>2 DEF Ahead, H, Heads
  <2>4. WriterOK(H, k, "release", x6["server"], x1, TRUE)
    BY <1>1, <2>3 DEF WriterOK, UpToDate
  <2>5. FileOK(x1', x8' # {}) /\ WriterOK(H, k, "release", x6["server"], x1', x8' # {})
    <3>1. x1' = x1 /\ (x8' # {}) = TRUE
      BY <1>8
    <3> HIDE DEF h, k
    <3> QED BY <2>2, <2>4, <3>1
  <2>6. x7' \in Nat
    BY <1>1, <1>6
  <2> HIDE DEF h, k
  <2> QED BY <1>1, <1>3, <1>6, <2>1, <2>5, <2>6, AuditMoves
<1>9. \/ x1' = Append(g, l) /\ x4' = [x4 EXCEPT !["server"] = Len(g) + 1] /\ x8' = x8
      \/ x1' = x1 /\ x4' = x4 /\ x8' # {}
  <2>1. (IF g = x1 THEN k + 1 ELSE Len(x1)) = Len(g) + 1
    <3>1. x1 \in Seq(Lines) /\ (g = x1 \/ Len(g) = Len(x1) - 1)
      BY <1>1, WholeOf DEF FileOK
    <3> QED BY <1>1, <3>1
  <2>2. Audit!With(x1, e) # x1 => Len(Append(g, l)) = Len(g) + 1
    BY <1>1, <1>5, WholeOf DEF FileOK
  <2>3. \/ x1' = Audit!With(x1, e) /\ x8' = x8 /\ x4' = [x4 EXCEPT !["server"] = IF g = x1 THEN @ + 1 ELSE Len(x1)]
        \/ x1' = x1 /\ x4' = x4 /\ x8' # {}
    BY DEF Audit!Write, e
  <2> QED BY <1>4, <2>1, <2>3
<1> QED BY <1>7, <1>8, <1>9

LEMMA AuditCrashes ==
  ASSUME AuditInv, NEW p \in {"server"}, Audit!Crash(p)
  PROVE  AuditInv'
<1> DEFINE h == x3["server"]
           g == Audit!Whole(x1)
           e == Audit!Entry(h, x7 + 1)
           o == Audit!Opened(x1')
           bad == x8 # {}
<1>1. FileOK(x1, bad) /\ h \in Heads /\ x7 \in Nat
  BY DEF AuditInv
<1>2. FileOK(x1', bad) /\ x7' \in Nat
  <2>1. CASE x1' = x1 /\ x7' = x7
    BY <1>1, <2>1
  <2>2. CASE /\ x5[p] = "write" /\ x7' = x7 + 1
             /\ \E l \in Audit!Pieces(e) : x1' = Audit!With(x1, l)
    <3>1. PICK l \in Audit!Pieces(e) : x1' = Audit!With(x1, l)
      BY <2>2
    <3> DEFINE t == IF g = x1 THEN l ELSE [l EXCEPT !.kind = "torn"]
    <3>2. e \in Lines /\ e.seq = h.seq + 1
      BY <1>1 DEF Audit!Entry, Lines, Heads
    <3>3. l \in Lines /\ Audit!Unfinished(l) /\ l.seq = h.seq + 1
      BY <3>2 DEF Audit!Pieces, Audit!Unfinished, Lines
    <3>4. x1' = Append(g, t)
      BY <3>1, <3>3 DEF Audit!With
    <3>5. t \in Lines /\ Audit!Unfinished(t) /\ t.seq = h.seq + 1
      BY <3>3 DEF Audit!Unfinished, Lines
    <3>6. \A i \in 1 .. Len(g) : x1[i].kind = "entry" => x1[i].seq < h.seq + 1
      <4>1. Ahead(h, x1)
        BY <2>2 DEF AuditInv, WriterOK, UpToDate
      <4>2. \A i \in 1 .. Len(g) : x1[i] \in Lines
        BY <1>1, WholeOf DEF FileOK
      <4>3. \A i \in 1 .. Len(g) : x1[i].seq \in Nat
        BY <4>2 DEF Lines
      <4> QED BY <1>1, <4>1, <4>3 DEF Ahead, Heads
    <3> HIDE DEF t, h, e
    <3>7. FileOK(Append(g, t), bad)
      BY <1>1, <3>5, <3>6, FileGrows
    <3> QED BY <1>1, <2>2, <3>4, <3>7
  <2> QED BY <2>1, <2>2 DEF Audit!Crash
<1>3. /\ x3' = [x3 EXCEPT !["server"] = o.head] /\ x4' = [x4 EXCEPT !["server"] = o.known]
      /\ x5' = [x5 EXCEPT !["server"] = "idle"] /\ x6' = [x6 EXCEPT !["server"] = 0]
  BY DEF Audit!Crash, Audit!Goto
<1>4. /\ bad => x8' # {}
      /\ Audit!verifyAuditFile(x1') /\ Audit!Whole(x1') # x1' => x8' # {}
  BY DEF Audit!Crash, Audit!Noted
<1>5. o.head \in Heads /\ o.known \in Nat /\ WriterOK(o.head, o.known, "idle", 0, x1', x8' # {})
  BY <1>2, <1>4, AuditOpens
<1>6. FileOK(x1', x8' # {})
  BY <1>2, <1>4 DEF FileOK
<1> HIDE DEF o
<1> QED BY <1>2, <1>3, <1>5, <1>6, AuditMoves

LEMMA AuditInit == ASSUME Audit!Init PROVE AuditInv
<1>1. x1 = <<>> /\ x8 = {} /\ x7 = 0
  BY DEF Audit!Init
<1>2. /\ x3 = [p \in {"server"} |-> Audit!NoHead] /\ x4 = [p \in {"server"} |-> 0]
      /\ x5 = [p \in {"server"} |-> "idle"] /\ x6 = [p \in {"server"} |-> 0]
  BY DEF Audit!Init
<1>3. Audit!NoHead \in Heads
  BY DEF Audit!NoHead, Audit!Genesis, Heads
<1>4. FileOK(x1, x8 # {})
  BY <1>1 DEF FileOK, TornLast, Audit!Ascending, Audit!Whole, Audit!verifyAuditFile
<1>5. WriterOK(x3["server"], x4["server"], x5["server"], x6["server"], x1, x8 # {})
  BY <1>2 DEF WriterOK
<1> QED BY <1>1, <1>2, <1>3, <1>4, <1>5 DEF AuditInv

LEMMA AuditStep == ASSUME AuditInv, Audit!Next PROVE AuditInv'
  BY AuditLocks, AuditStat, AuditReads, AuditWrites, AuditCrashes DEF Audit!Next

(* The entries of the gate's log that can be read rise in their numbers;   *)
(* and while no write and no cut failed, and no process took a line        *)
(* without its newline for a whole one, they are one chain without a gap   *)
(* (append, syncHeadFromFile and the constructor of audit.ts), for one     *)
(* process that appends, whatever number of entries, crashes at any place  *)
(* of a write and failures there is.                                       *)
THEOREM OneWriterOneChain == SumSpec => []OneChain
<1> DEFINE Inv == part = "audit" => AuditInv
<1>1. SumInit => Inv
  BY AuditInit DEF SumInit
<1>2. Inv /\ [SumNext]_all => Inv'
  <2>1. CASE UNCHANGED all
    <3>1. UNCHANGED <<part, x1, x3, x4, x5, x6, x7, x8>>
      BY <2>1 DEF all, xs
    <3> QED BY <3>1 DEF AuditInv
  <2>2. CASE SumNext
    <3> SUFFICES ASSUME Inv, part' = "audit" PROVE AuditInv'
      OBVIOUS
    <3>1. part = "audit" /\ Audit!Next
      BY <2>2 DEF SumNext, OfFirm, OfExec, Other
    <3> QED BY <3>1, AuditStep
  <2> QED BY <2>1, <2>2
<1>3. Inv => OneChain
  BY DEF OneChain, Audit!OneChain, AuditInv, FileOK
<1> QED BY <1>1, <1>2, <1>3, PTL DEF SumSpec, SumSafe

-----------------------------------------------------------------------------
(* The historical store: x1 the time, x2 the series, x3 the legacy file,   *)
(* x4 the lock, x5 the tasks, x6 the last stamp. Whoever is inside holds   *)
(* the lock and is alive; a lock is removed by another only if its owner   *)
(* is dead, and then that other is alone. So what a task has read inside   *)
(* is still in the files when it writes (FilesOK). While the legacy file   *)
(* is there, the series holds nothing but bars of it.                      *)
Two == {"sync", "server"}
Bar == [at : Nat, final : BOOLEAN]
Bars == [History!Times -> Bar]
Inner == {"inside", "migrate", "replace", "rename", "merge", "write", "release", "unlink"}
Waits == {"acquire", "remove"}
Pcs == {"idle", "dead", "scan", "legacy", "answered", "plan", "fresh", "fetch", "append"} \cup Waits \cup Inner
Kinds == {"none", "query", "sync", "append"}
Tasks == [pc : Pcs, kind : Kinds, late : BOOLEAN, rows : Bars, buf : Bars,
          got : SUBSET History!Times, due : SUBSET Int]
Locks == [by : Two \cup {"none"}, dead : BOOLEAN, old : {FALSE}]

OnGrid(k) == k = History!Floor(k)

(* What is missing in bars had no room there.                              *)
Covered(D, K) == \A k \in D : k \in K \/ History!Above(k, K) >= Room
InStore(s, l) == IF l.there THEN History!Keys(s) \cup History!Keys(l.bars) ELSE History!Keys(s)

(* A bar of the grid is final only when its period is over.                *)
Ripe(bars, n) == \A k \in History!Times : bars[k].final /\ OnGrid(k) => k + Frame <= n

(* Only the sync has rows of the grid, and where one of them is not final, *)
(* nothing that is stored is.                                              *)
IncomingOK(rows, t, s, l) ==
  \A k \in History!Times : rows[k] # History!NoBar =>
    /\ OnGrid(k) <=> t = "sync"
    /\ t = "server" => rows[k].final
    /\ ~ rows[k].final => ~ s[k].final /\ ~ l.bars[k].final

FilesOK(r, s, l) ==
  /\ r.pc = "replace" => l.there /\ r.buf = History!compactSeries(History!mergeEntries(s, l.bars))
  /\ r.pc = "rename" => l.there /\ Covered(History!Keys(l.bars), History!Keys(s))
  /\ r.pc \in {"merge", "write"} => ~ l.there /\ r.kind \notin {"sync", "query"}
  /\ r.pc = "write" => r.buf = History!compactSeries(History!mergeEntries(s, r.rows))

QueryOK(r, s, l) ==
  r.kind = "query" =>
    /\ r.pc \in Waits \cup Inner \cup {"scan"} => Covered(r.due, InStore(s, l))
    /\ r.pc \in {"release", "unlink"} \/ (r.pc = "scan" /\ ~ r.late) => ~ l.there
    /\ r.pc \in {"legacy", "answered"} /\ ~ r.late => Covered(r.due, r.got)

Whose(r, t) == /\ r.kind = "sync" \/ r.pc \in {"plan", "fetch"} => t = "sync"
               /\ r.pc = "append" => r.kind = "append"
               /\ r.pc \in {"scan", "legacy"} => r.kind \in {"sync", "query"}
               /\ r.pc = "answered" => r.kind = "query"

StoreTaskOK(r, t, n, s, l) ==
  Ripe(r.rows, n) /\ IncomingOK(r.rows, t, s, l) /\ FilesOK(r, s, l) /\ QueryOK(r, s, l) /\ Whose(r, t)

Held(lock, tasks) ==
  /\ \A t \in Two : tasks[t].pc \in Inner => lock.by = t /\ ~ lock.dead
  /\ lock.dead => lock.by \in Two /\ tasks[lock.by].pc = "dead"
  /\ \A t, u \in Two : tasks[t].pc = "remove" /\ u # t => tasks[u].pc = "dead"

Moving(s, l) == l.there => \A k \in History!Times : s[k] = History!NoBar \/ s[k] = l.bars[k]

HistoryInv ==
  /\ x1 \in Nat /\ x2 \in Bars /\ x3 \in [there : BOOLEAN, bars : Bars] /\ x6 \in Nat
  /\ x4 \in Locks /\ x5 \in [Two -> Tasks]
  /\ Moving(x2, x3) /\ Ripe(x2, x1) /\ Ripe(x3.bars, x1)
  /\ Held(x4, x5)
  /\ \A t \in Two : StoreTaskOK(x5[t], t, x1, x2, x3)

-----------------------------------------------------------------------------
(* Sets of times, and what is above one.                                   *)

LEMMA TimesAreNat ==
  ASSUME LastTime \in Nat
  PROVE  History!Times \subseteq Nat /\ 0 \in History!Times /\ IsFiniteSet(History!Times)
<1>1. History!Times = 0 .. LastTime
  BY DEF History!Times
<1> QED BY <1>1, FS_Interval

LEMMA SameCount == ASSUME NEW X PROVE History!Cardinality(X) = Cardinality(X)
  BY DEF History!Cardinality, Cardinality

LEMMA AboveGrows ==
  ASSUME LastTime \in Nat, NEW T, T \subseteq History!Times, NEW S, NEW j, NEW k,
         {u \in S : u > j} \subseteq {u \in T : u > k}
  PROVE  History!Above(j, S) \in Nat /\ History!Above(k, T) \in Nat /\ History!Above(j, S) <= History!Above(k, T)
<1> DEFINE A == {u \in S : u > j}
           B == {u \in T : u > k}
<1>1. IsFiniteSet(B)
  BY TimesAreNat, FS_Subset
<1>2. IsFiniteSet(A) /\ Cardinality(A) <= Cardinality(B)
  BY <1>1, FS_Subset
<1>3. Cardinality(A) \in Nat /\ Cardinality(B) \in Nat
  BY <1>1, <1>2, FS_CardinalityType
<1>4. History!Above(j, S) = Cardinality(A) /\ History!Above(k, T) = Cardinality(B)
  BY SameCount DEF History!Above
<1> HIDE DEF A, B
<1> QED BY <1>2, <1>3, <1>4

(* Of the times that have no room, none is needed to fill it.              *)
LEMMA TopFills ==
  ASSUME LastTime \in Nat, Room \in Nat, NEW K, K \subseteq History!Times, NEW k \in History!Times,
         History!Above(k, K) >= Room
  PROVE  History!Above(k, {u \in K : ~ (History!Above(u, K) >= Room)}) >= Room
<1> DEFINE R == {u \in K : ~ (History!Above(u, K) >= Room)}
           D == {u \in K : u > k /\ History!Above(u, K) >= Room}
<1>0. K \subseteq 0 .. LastTime /\ R \subseteq History!Times /\ R \subseteq K /\ k \in Nat
  <2>1. K \subseteq 0 .. LastTime /\ k \in 0 .. LastTime
    BY DEF History!Times
  <2>2. k \in Nat
    BY <2>1
  <2>3. R \subseteq K /\ R \subseteq History!Times
    OBVIOUS
  <2> HIDE DEF R
  <2> QED BY <2>1, <2>2, <2>3
<1>1. CASE D = {}
  <2>1. {u \in K : u > k} \subseteq {u \in R : u > k}
    BY <1>1
  <2> HIDE DEF R
  <2>2. History!Above(k, K) \in Nat /\ History!Above(k, R) \in Nat /\ History!Above(k, K) <= History!Above(k, R)
    BY <1>0, <2>1, AboveGrows
  <2>3. History!Above(k, R) >= Room
    BY <2>2
  <2> QED BY <2>3 DEF R
<1>2. CASE D # {}
  <2>1. PICK d \in D : \A y \in D : d >= y
    <3>1. D \subseteq 0 .. LastTime
      BY <1>0
    <3> HIDE DEF D
    <3> QED BY <1>2, <3>1, GreatestOf
  <2>2. {u \in K : u > d} \subseteq {u \in R : u > k}
    <3> SUFFICES ASSUME NEW u \in K, u > d PROVE u \in R /\ u > k
      OBVIOUS
    <3>1. u \in Nat /\ d \in Nat /\ d > k
      BY <1>0
    <3>2. u > k /\ u \notin D
      BY <1>0, <2>1, <3>1
    <3> QED BY <3>2
  <2>3. History!Above(d, K) >= Room
    OBVIOUS
  <2> HIDE DEF R, D
  <2>4. /\ History!Above(d, K) \in Nat /\ History!Above(k, R) \in Nat
        /\ History!Above(d, K) <= History!Above(k, R)
    BY <1>0, <2>2, AboveGrows
  <2>5. History!Above(k, R) >= Room
    BY <2>3, <2>4
  <2> QED BY <2>5 DEF R
<1> QED BY <1>1, <1>2

LEMMA CoveredMore ==
  ASSUME LastTime \in Nat, Room \in Nat, NEW D, NEW K, NEW T, K \subseteq T, T \subseteq History!Times, Covered(D, K)
  PROVE  Covered(D, T)
<1> SUFFICES ASSUME NEW k \in D, History!Above(k, K) >= Room PROVE History!Above(k, T) >= Room
  BY DEF Covered
<1>1. {u \in K : u > k} \subseteq {u \in T : u > k}
  OBVIOUS
<1>2. History!Above(k, K) \in Nat /\ History!Above(k, T) \in Nat /\ History!Above(k, K) <= History!Above(k, T)
  BY <1>1, AboveGrows
<1> QED BY <1>2

LEMMA CoveredOn ==
  ASSUME LastTime \in Nat, Room \in Nat, NEW D, D \subseteq Int,
         NEW K, K \subseteq History!Times, NEW T, T \subseteq History!Times, Covered(D, K), Covered(K, T)
  PROVE  Covered(D, T)
<1> SUFFICES ASSUME NEW k \in D, History!Above(k, K) >= Room PROVE History!Above(k, T) >= Room
  BY DEF Covered
<1>0. k \in Int /\ K \subseteq Nat /\ T \subseteq Nat
  BY TimesAreNat
<1>1. CASE {u \in K : u > k} \subseteq T
  <2>1. {u \in K : u > k} \subseteq {u \in T : u > k}
    BY <1>1
  <2>2. History!Above(k, K) \in Nat /\ History!Above(k, T) \in Nat /\ History!Above(k, K) <= History!Above(k, T)
    BY <2>1, AboveGrows
  <2> QED BY <2>2
<1>2. ASSUME NEW u \in K, u > k, u \notin T PROVE History!Above(k, T) >= Room
  <2>1. History!Above(u, T) >= Room
    BY <1>2 DEF Covered
  <2>2. {v \in T : v > u} \subseteq {v \in T : v > k}
    <3>1. ASSUME NEW v \in T, v > u PROVE v > k
      <4>1. v \in Nat /\ u \in Nat /\ k \in Int
        BY <1>0
      <4> QED BY <1>2, <3>1, <4>1
    <3> QED BY <3>1
  <2>3. History!Above(u, T) \in Nat /\ History!Above(k, T) \in Nat /\ History!Above(u, T) <= History!Above(k, T)
    BY <2>2, AboveGrows
  <2> QED BY <2>1, <2>3
<1> QED BY <1>1, <1>2

-----------------------------------------------------------------------------
(* Merging and compacting bars.                                            *)

LEMMA Merged ==
  ASSUME NEW a \in Bars, NEW b \in Bars
  PROVE  /\ History!mergeEntries(a, b) \in Bars
         /\ History!Keys(History!mergeEntries(a, b)) = History!Keys(a) \cup History!Keys(b)
         /\ \A k \in History!Times :
              \/ History!mergeEntries(a, b)[k] = b[k] /\ b[k] # History!NoBar
              \/ History!mergeEntries(a, b)[k] = a[k]
<1> DEFINE m == History!mergeEntries(a, b)
<1>1. \A k \in History!Times : a[k] \in Bar /\ b[k] \in Bar
  BY DEF Bars
<1>2. m = [k \in History!Times |-> IF b[k] # History!NoBar /\ b[k].at >= a[k].at THEN b[k] ELSE a[k]]
  BY DEF History!mergeEntries
<1> HIDE DEF m
<1>3. m \in Bars
  BY <1>1, <1>2 DEF Bars
<1>4. ASSUME NEW k \in History!Times
      PROVE  m[k] # History!NoBar <=> a[k] # History!NoBar \/ b[k] # History!NoBar
  <2>1. CASE b[k] # History!NoBar /\ ~ (b[k].at >= a[k].at)
    <3>1. a[k].at > 0
      BY <1>1, <2>1 DEF Bar
    <3> QED BY <1>2, <2>1, <3>1 DEF History!NoBar
  <2> QED BY <1>2, <2>1
<1>5. History!Keys(m) = History!Keys(a) \cup History!Keys(b)
  BY <1>4 DEF History!Keys
<1> QED BY <1>2, <1>3, <1>5 DEF m

LEMMA Compacted ==
  ASSUME LastTime \in Nat, Room \in Nat, NEW b \in Bars
  PROVE  /\ History!compactSeries(b) \in Bars
         /\ Covered(History!Keys(b), History!Keys(History!compactSeries(b)))
         /\ \A k \in History!Times :
              History!compactSeries(b)[k] = b[k] \/ History!compactSeries(b)[k] = History!NoBar
<1> DEFINE c == History!compactSeries(b)
           K == History!Keys(b)
           R == {u \in K : ~ (History!Above(u, K) >= Room)}
<1>1. c = [k \in History!Times |-> IF History!Above(k, K) >= Room THEN History!NoBar ELSE b[k]]
  BY DEF History!compactSeries
<1>2. History!NoBar \in Bar /\ \A k \in History!Times : b[k] \in Bar
  BY DEF History!NoBar, Bar, Bars
<1> HIDE DEF c
<1>3. c \in Bars /\ \A k \in History!Times : c[k] = b[k] \/ c[k] = History!NoBar
  BY <1>1, <1>2 DEF Bars
<1>4. K \subseteq History!Times
  BY DEF History!Keys
<1>5. History!Keys(c) = R
  BY <1>1 DEF History!Keys
<1>6. ASSUME NEW k \in K, k \notin R PROVE History!Above(k, R) >= Room
  BY <1>4, <1>6, TopFills
<1>7. Covered(K, R)
  BY <1>6 DEF Covered
<1> HIDE DEF K, R
<1> QED BY <1>3, <1>5, <1>7 DEF c, K

(* Bars that are added to a series take the place of others, or fill it.   *)
LEMMA Taken ==
  ASSUME LastTime \in Nat, Room \in Nat, NEW a \in Bars, NEW b \in Bars, NEW c,
         c = History!compactSeries(History!mergeEntries(a, b))
  PROVE  /\ c \in Bars /\ History!Keys(c) \subseteq History!Times
         /\ Covered(History!Keys(a), History!Keys(c)) /\ Covered(History!Keys(b), History!Keys(c))
         /\ \A k \in History!Times :
              \/ c[k] = b[k] /\ b[k] # History!NoBar
              \/ c[k] = a[k]
              \/ c[k] = History!NoBar
<1> DEFINE m == History!mergeEntries(a, b)
<1>1. /\ m \in Bars /\ History!Keys(m) = History!Keys(a) \cup History!Keys(b)
      /\ \A k \in History!Times : (m[k] = b[k] /\ b[k] # History!NoBar) \/ m[k] = a[k]
  BY Merged
<1> HIDE DEF m
<1>2. /\ c \in Bars /\ Covered(History!Keys(m), History!Keys(c))
      /\ \A k \in History!Times : c[k] = m[k] \/ c[k] = History!NoBar
  BY <1>1, Compacted DEF m
<1>3. Covered(History!Keys(a), History!Keys(c)) /\ Covered(History!Keys(b), History!Keys(c))
  BY <1>1, <1>2 DEF Covered
<1>4. History!Keys(c) \subseteq History!Times
  BY DEF History!Keys
<1> QED BY <1>1, <1>2, <1>3, <1>4

-----------------------------------------------------------------------------
(* What a step of a task leaves behind.                                    *)

LEMMA HistoryTask ==
  ASSUME HistoryInv, NEW t \in Two, NEW r \in Tasks, x5' = [x5 EXCEPT ![t] = r], UNCHANGED <<x1, x2, x3>>,
         x4' \in Locks, x6' \in Nat, Held(x4', x5'), StoreTaskOK(r, t, x1, x2, x3)
  PROVE  HistoryInv'
<1>1. x5' \in [Two -> Tasks] /\ x5'[t] = r /\ \A u \in Two : u # t => x5'[u] = x5[u]
  BY DEF HistoryInv
<1>2. \A u \in Two : StoreTaskOK(x5'[u], u, x1', x2', x3')
  BY <1>1 DEF HistoryInv
<1> QED BY <1>1, <1>2 DEF HistoryInv

LEMMA HistoryGoes ==
  ASSUME HistoryInv, NEW t \in Two, NEW r \in Tasks, x5' = [x5 EXCEPT ![t] = r], UNCHANGED <<x1, x2, x3, x4>>,
         x6' \in Nat, x5[t].pc # "dead", r.pc \in Inner => x5[t].pc \in Inner,
         r.pc # "remove", StoreTaskOK(r, t, x1, x2, x3)
  PROVE  HistoryInv'
<1>1. x5' \in [Two -> Tasks] /\ x5'[t] = r /\ \A u \in Two : u # t => x5'[u] = x5[u]
  BY DEF HistoryInv
<1>2. Held(x4', x5')
  BY <1>1 DEF HistoryInv, Held
<1> QED BY <1>2, HistoryTask DEF HistoryInv

LEMMA TaskIs ==
  ASSUME HistoryInv, NEW t \in Two
  PROVE  x5[t] \in Tasks /\ StoreTaskOK(x5[t], t, x1, x2, x3) /\ DOMAIN x5 = Two
  BY DEF HistoryInv

LEMMA IdleOK ==
  ASSUME LastTime \in Nat, NEW t, NEW n, NEW s, NEW l
  PROVE  History!Idle \in Tasks /\ StoreTaskOK(History!Idle, t, n, s, l)
<1>1. History!NoBars \in Bars /\ \A k \in History!Times : History!NoBars[k] = History!NoBar
  BY DEF History!NoBars, History!NoBar, Bars, Bar
<1>2. History!Idle.rows = History!NoBars /\ History!Idle.pc = "idle" /\ History!Idle.kind = "none"
  BY DEF History!Idle
<1>4. History!Idle \in Tasks
  <2>1. {} \in SUBSET History!Times /\ {} \in SUBSET Int
    OBVIOUS
  <2> QED BY <1>1, <2>1 DEF History!Idle, Tasks, Pcs, Kinds
<1>3. Ripe(History!NoBars, n) /\ IncomingOK(History!NoBars, t, s, l)
  BY <1>1 DEF Ripe, IncomingOK, History!NoBar
<1> QED BY <1>2, <1>3, <1>4 DEF StoreTaskOK, FilesOK, QueryOK, Whose

(* A task that lets the lock go, or gives up to wait for it.               *)
LEMMA AfterOK ==
  ASSUME LastTime \in Nat, HistoryInv, NEW t \in Two, NEW late \in BOOLEAN, x5[t].pc \in Waits \cup Inner,
         late \/ x5[t].pc \in {"release", "unlink"}, History!After(t, late)
  PROVE  \E r \in Tasks : /\ x5' = [x5 EXCEPT ![t] = r] /\ StoreTaskOK(r, t, x1, x2, x3)
                          /\ r.pc \in {"scan", "idle"}
<1> DEFINE r == [x5[t] EXCEPT !.pc = "scan", !.late = late]
<1>1. CASE History!Reads(t)
  <2>1. x5' = [x5 EXCEPT ![t] = r]
    BY <1>1 DEF History!After
  <2>2. /\ r \in Tasks /\ r.pc = "scan" /\ r.late = late /\ r.rows = x5[t].rows
        /\ r.kind = x5[t].kind /\ r.due = x5[t].due
    <3>1. x5[t] \in Tasks
      BY TaskIs
    <3> QED BY <3>1 DEF Tasks, Pcs
  <2> HIDE DEF r
  <2>3. StoreTaskOK(r, t, x1, x2, x3)
    BY <1>1, <2>2, TaskIs DEF StoreTaskOK, FilesOK, QueryOK, Whose, Waits, Inner, History!Reads
  <2> QED BY <2>1, <2>2, <2>3
<1>2. CASE ~ History!Reads(t)
  <2>1. x5' = [x5 EXCEPT ![t] = History!Idle]
    BY <1>2 DEF History!After
  <2>2. History!Idle.pc = "idle"
    BY DEF History!Idle
  <2> QED BY <2>1, <2>2, IdleOK
<1> QED BY <1>1, <1>2

(* A task that goes on with what it has.                                   *)
Going(t, pc) == [x5[t] EXCEPT !.pc = pc]

LEMMA GoOK ==
  ASSUME HistoryInv, NEW t \in Two, NEW pc \in Pcs
  PROVE  /\ Going(t, pc) \in Tasks /\ Going(t, pc).pc = pc /\ Going(t, pc).rows = x5[t].rows
         /\ Going(t, pc).buf = x5[t].buf /\ Going(t, pc).kind = x5[t].kind /\ Going(t, pc).due = x5[t].due
         /\ Going(t, pc).got = x5[t].got /\ Going(t, pc).late = x5[t].late
         /\ History!Go(t, pc) => x5' = [x5 EXCEPT ![t] = Going(t, pc)]
<1>1. x5[t] \in Tasks
  BY TaskIs
<1> QED BY <1>1 DEF Going, Tasks, History!Go

LEMMA HistoryLocking ==
  ASSUME LastTime \in Nat, HistoryInv, NEW t \in Two, History!Locking(t)
  PROVE  HistoryInv'
<1>1. CASE History!Take(t)
  <2>1. x5[t].pc = "acquire" /\ History!Go(t, "inside") /\ UNCHANGED <<x1, x2, x3, x6>>
        /\ x4 = History!NoLock /\ x4' = [History!NoLock EXCEPT !.by = t]
    BY <1>1 DEF History!Take, History!At
  <2> DEFINE r == Going(t, "inside")
  <2>2. r \in Tasks /\ x5' = [x5 EXCEPT ![t] = r] /\ r.pc = "inside" /\ r.rows = x5[t].rows
        /\ r.kind = x5[t].kind /\ r.due = x5[t].due
    BY <2>1, GoOK DEF Pcs, Waits, Inner
  <2> HIDE DEF r
  <2>3. StoreTaskOK(r, t, x1, x2, x3)
    BY <2>1, <2>2, TaskIs DEF StoreTaskOK, FilesOK, QueryOK, Whose, Waits, Inner
  <2>4. x4.by = "none" /\ x4'.by = t /\ x4'.dead = FALSE /\ x4' \in Locks
    BY <2>1 DEF History!NoLock, Locks
  <2>5. Held(x4', x5')
    <3>1. x5'[t] = r /\ \A u \in Two : u # t => x5'[u] = x5[u]
      BY <2>2, TaskIs
    <3>2. \A u \in Two : x5[u].pc \notin Inner
      BY <2>4 DEF HistoryInv, Held, Two
    <3> QED BY <2>1, <2>2, <2>4, <3>1, <3>2 DEF HistoryInv, Held
  <2> QED BY <2>1, <2>2, <2>3, <2>4, <2>5, HistoryTask DEF HistoryInv
<1>2. CASE History!Judge(t)
  <2>1. x5[t].pc = "acquire" /\ History!Go(t, "remove") /\ UNCHANGED <<x1, x2, x3, x4, x6>> /\ x4.dead
    BY <1>2 DEF History!Judge, History!At, History!isStaleLock, HistoryInv, Locks
  <2> DEFINE r == Going(t, "remove")
  <2>2. r \in Tasks /\ x5' = [x5 EXCEPT ![t] = r] /\ r.pc = "remove" /\ r.rows = x5[t].rows
        /\ r.kind = x5[t].kind /\ r.due = x5[t].due
    BY <2>1, GoOK DEF Pcs, Waits, Inner
  <2> HIDE DEF r
  <2>3. StoreTaskOK(r, t, x1, x2, x3)
    BY <2>1, <2>2, TaskIs DEF StoreTaskOK, FilesOK, QueryOK, Whose, Waits, Inner
  <2>4. Held(x4', x5')
    <3>1. x5'[t] = r /\ \A u \in Two : u # t => x5'[u] = x5[u]
      BY <2>2, TaskIs
    <3>2. \A u \in Two : u # t => x5[u].pc = "dead"
      BY <2>1 DEF HistoryInv, Held, Two
    <3> QED BY <2>1, <2>2, <3>1, <3>2 DEF HistoryInv, Held, Inner
  <2> QED BY <2>1, <2>2, <2>3, <2>4, HistoryTask DEF HistoryInv
<1>3. CASE History!Remove(t)
  <2>1. x5[t].pc = "remove" /\ History!Go(t, "acquire") /\ UNCHANGED <<x1, x2, x3, x6>> /\ x4' = History!NoLock
    BY <1>3 DEF History!Remove, History!At
  <2> DEFINE r == Going(t, "acquire")
  <2>2. r \in Tasks /\ x5' = [x5 EXCEPT ![t] = r] /\ r.pc = "acquire" /\ r.rows = x5[t].rows
        /\ r.kind = x5[t].kind /\ r.due = x5[t].due
    BY <2>1, GoOK DEF Pcs, Waits, Inner
  <2> HIDE DEF r
  <2>3. StoreTaskOK(r, t, x1, x2, x3)
    BY <2>1, <2>2, TaskIs DEF StoreTaskOK, FilesOK, QueryOK, Whose, Waits, Inner
  <2>4. Held(x4', x5') /\ x4' \in Locks
    <3>1. x5'[t] = r /\ \A u \in Two : u # t => x5'[u] = x5[u]
      BY <2>2, TaskIs
    <3>2. \A u \in Two : u # t => x5[u].pc = "dead"
      BY <2>1 DEF HistoryInv, Held
    <3>3. x4'.dead = FALSE /\ x4' \in Locks
      BY <2>1 DEF History!NoLock, Locks
    <3> QED BY <2>1, <2>2, <3>1, <3>2, <3>3 DEF Held, Inner
  <2> QED BY <2>1, <2>2, <2>3, <2>4, HistoryTask DEF HistoryInv
<1>4. CASE History!Timeout(t)
  <2>1. x5[t].pc = "acquire" /\ History!After(t, TRUE) /\ UNCHANGED <<x1, x2, x3, x4, x6>>
    BY <1>4 DEF History!Timeout, History!At
  <2>2. PICK r \in Tasks : x5' = [x5 EXCEPT ![t] = r] /\ StoreTaskOK(r, t, x1, x2, x3) /\ r.pc \in {"scan", "idle"}
    BY <2>1, AfterOK DEF Waits
  <2> QED BY <2>1, <2>2, HistoryGoes DEF HistoryInv, Inner
<1>5. CASE History!Release(t)
  <2>1. x5[t].pc = "release" /\ UNCHANGED <<x1, x2, x3, x4, x6>>
    BY <1>5 DEF History!Release, History!At
  <2>2. CASE History!After(t, FALSE)
    <3>1. PICK r \in Tasks : x5' = [x5 EXCEPT ![t] = r] /\ StoreTaskOK(r, t, x1, x2, x3) /\ r.pc \in {"scan", "idle"}
      BY <2>1, <2>2, AfterOK DEF Inner
    <3> QED BY <2>1, <3>1, HistoryGoes DEF HistoryInv, Inner
  <2>3. CASE History!Go(t, "unlink")
    <3> DEFINE r == Going(t, "unlink")
    <3>1. r \in Tasks /\ x5' = [x5 EXCEPT ![t] = r] /\ r.pc = "unlink" /\ r.rows = x5[t].rows
          /\ r.kind = x5[t].kind /\ r.due = x5[t].due
      BY <2>3, GoOK DEF Pcs, Waits, Inner
    <3> HIDE DEF r
    <3>2. StoreTaskOK(r, t, x1, x2, x3)
      BY <2>1, <3>1, TaskIs DEF StoreTaskOK, FilesOK, QueryOK, Whose, Inner
    <3> QED BY <2>1, <3>1, <3>2, HistoryGoes DEF HistoryInv, Inner
  <2> QED BY <1>5, <2>2, <2>3 DEF History!Release
<1>6. CASE History!Unlink(t)
  <2>1. x5[t].pc = "unlink" /\ History!After(t, FALSE) /\ UNCHANGED <<x1, x2, x3, x6>> /\ x4' = History!NoLock
    BY <1>6 DEF History!Unlink, History!At
  <2>2. PICK r \in Tasks : x5' = [x5 EXCEPT ![t] = r] /\ StoreTaskOK(r, t, x1, x2, x3) /\ r.pc \in {"scan", "idle"}
    BY <2>1, AfterOK DEF Inner
  <2>3. Held(x4', x5') /\ x4' \in Locks
    <3>1. x5'[t] = r /\ \A u \in Two : u # t => x5'[u] = x5[u]
      BY <2>2, TaskIs
    <3>2. \A u \in Two : u # t => x5[u].pc \notin Inner \cup {"remove"}
      BY <2>1 DEF HistoryInv, Held, Inner
    <3>3. x4'.dead = FALSE /\ x4' \in Locks
      BY <2>1 DEF History!NoLock, Locks
    <3> QED BY <2>2, <3>1, <3>2, <3>3 DEF Held, Inner
  <2> QED BY <2>1, <2>2, <2>3, HistoryTask DEF HistoryInv
<1> QED BY <1>1, <1>2, <1>3, <1>4, <1>5, <1>6 DEF History!Locking

-----------------------------------------------------------------------------
(* The steps under the lock.                                               *)

(* A task under the lock that only reads.                                  *)
LEMMA HistoryInside ==
  ASSUME LastTime \in Nat, Room \in Nat, HistoryInv, NEW t \in Two,
         History!Inside(t) \/ History!Migrate(t) \/ History!Merge(t)
  PROVE  HistoryInv' /\ UNCHANGED <<x2, x3>>
<1>1. CASE History!Inside(t)
  <2> DEFINE pc == IF x3.there THEN "migrate" ELSE IF History!Reads(t) THEN "release" ELSE "merge"
             r == Going(t, pc)
  <2>1. x5[t].pc = "inside" /\ x5' = [x5 EXCEPT ![t].pc = pc] /\ UNCHANGED <<x1, x2, x3, x4, x6>>
    BY <1>1 DEF History!Inside, History!At
  <2>2. pc \in {"migrate", "release", "merge"}
    OBVIOUS
  <2>3. (pc = "release" => ~ x3.there) /\ (pc = "merge" => ~ x3.there /\ x5[t].kind \notin {"sync", "query"})
    BY DEF History!Reads
  <2> HIDE DEF pc
  <2>4. /\ r \in Tasks /\ r.pc = pc /\ r.rows = x5[t].rows /\ r.kind = x5[t].kind /\ r.due = x5[t].due
        /\ x5' = [x5 EXCEPT ![t] = r]
    BY <2>1, <2>2, GoOK DEF Pcs, Inner, History!Go
  <2> HIDE DEF r
  <2>5. StoreTaskOK(r, t, x1, x2, x3)
    BY <2>1, <2>2, <2>3, <2>4, TaskIs DEF StoreTaskOK, FilesOK, QueryOK, Whose, Inner
  <2>6. r.pc # "remove" /\ x5[t].pc \in Inner /\ x5[t].pc # "dead"
    BY <2>1, <2>2, <2>4 DEF Inner
  <2> QED BY <2>1, <2>4, <2>5, <2>6, HistoryGoes DEF HistoryInv
<1>2. CASE History!Migrate(t)
  <2>1. x5[t].pc = "migrate" /\ UNCHANGED <<x1, x2, x3, x4, x6>>
    BY <1>2 DEF History!Migrate, History!At
  <2>2. CASE x3.there
    <3> DEFINE c == History!compactSeries(History!mergeEntries(x2, x3.bars))
               r == [x5[t] EXCEPT !.pc = "replace", !.buf = c]
    <3>1. x5' = [x5 EXCEPT ![t] = r]
      BY <1>2, <2>2 DEF History!Migrate
    <3>2. c \in Bars
      BY Taken DEF HistoryInv
    <3>3. /\ r \in Tasks /\ r.pc = "replace" /\ r.rows = x5[t].rows /\ r.kind = x5[t].kind
          /\ r.due = x5[t].due /\ r.buf = c
      <4>1. x5[t] \in Tasks
        BY TaskIs
      <4> HIDE DEF c
      <4> QED BY <3>2, <4>1 DEF Tasks, Pcs, Inner
    <3> HIDE DEF r
    <3>4. StoreTaskOK(r, t, x1, x2, x3)
      <4>1. r.buf = History!compactSeries(History!mergeEntries(x2, x3.bars))
        BY <3>3
      <4> HIDE DEF c
      <4> QED BY <2>1, <2>2, <3>3, <4>1, TaskIs DEF StoreTaskOK, FilesOK, QueryOK, Whose, Inner
    <3>5. r.pc # "remove" /\ x5[t].pc \in Inner /\ x5[t].pc # "dead"
      BY <2>1, <3>3 DEF Inner
    <3> QED BY <2>1, <3>1, <3>3, <3>4, <3>5, HistoryGoes DEF HistoryInv
  <2>3. CASE ~ x3.there
    <3> DEFINE r == Going(t, "release")
    <3>1. /\ r \in Tasks /\ r.pc = "release" /\ r.rows = x5[t].rows /\ r.kind = x5[t].kind
          /\ r.due = x5[t].due /\ x5' = [x5 EXCEPT ![t] = r]
      BY <1>2, <2>3, GoOK DEF Pcs, Inner, History!Migrate
    <3> HIDE DEF r
    <3>2. StoreTaskOK(r, t, x1, x2, x3)
      BY <2>1, <2>3, <3>1, TaskIs DEF StoreTaskOK, FilesOK, QueryOK, Whose, Inner
    <3>3. r.pc # "remove" /\ x5[t].pc \in Inner /\ x5[t].pc # "dead"
      BY <2>1, <3>1 DEF Inner
    <3> QED BY <2>1, <3>1, <3>2, <3>3, HistoryGoes DEF HistoryInv
  <2> QED BY <2>1, <2>2, <2>3
<1>3. CASE History!Merge(t)
  <2> DEFINE m == History!compactSeries(History!mergeEntries(x2, x5[t].rows))
             pc == IF m = x2 THEN "release" ELSE "write"
             r == [x5[t] EXCEPT !.pc = pc, !.buf = m]
  <2>1. x5[t].pc = "merge" /\ x5' = [x5 EXCEPT ![t] = r] /\ UNCHANGED <<x1, x2, x3, x4, x6>>
    BY <1>3 DEF History!Merge, History!At
  <2>2. x5[t] \in Tasks /\ x5[t].rows \in Bars
    BY TaskIs DEF Tasks
  <2>3. m \in Bars
    BY <2>2, Taken DEF HistoryInv
  <2>4. pc \in {"release", "write"}
    OBVIOUS
  <2>5. /\ r \in Tasks /\ r.pc = pc /\ r.rows = x5[t].rows /\ r.kind = x5[t].kind
        /\ r.due = x5[t].due /\ r.buf = m
    <3> HIDE DEF m, pc
    <3> QED BY <2>2, <2>3, <2>4 DEF Tasks, Pcs, Inner
  <2> HIDE DEF r, pc
  <2>6. StoreTaskOK(r, t, x1, x2, x3)
    <3>1. r.buf = History!compactSeries(History!mergeEntries(x2, r.rows))
      BY <2>5
    <3>2. r.pc \in {"release", "write"}
      BY <2>4, <2>5
    <3> HIDE DEF m
    <3> QED BY <2>1, <2>5, <3>1, <3>2, TaskIs DEF StoreTaskOK, FilesOK, QueryOK, Whose, Inner
  <2>7. r.pc # "remove" /\ x5[t].pc \in Inner /\ x5[t].pc # "dead"
    BY <2>1, <2>4, <2>5 DEF Inner
  <2> QED BY <2>1, <2>5, <2>6, <2>7, HistoryGoes DEF HistoryInv
<1> QED BY <1>1, <1>2, <1>3

(* A task under the lock that replaces a file.                             *)
LEMMA StoreMoves ==
  ASSUME LastTime \in Nat, Room \in Nat, HistoryInv, NEW t \in Two, x5[t].pc \in Inner,
         NEW pc \in {"rename", "merge", "release"}, x5' = [x5 EXCEPT ![t] = Going(t, pc)], UNCHANGED <<x1, x4, x6>>,
         x2' \in Bars, x3' \in [there : BOOLEAN, bars : Bars], x3'.bars = x3.bars, x3'.there => x3.there,
         Covered(InStore(x2, x3), InStore(x2', x3')), Moving(x2', x3'),
         \A k \in History!Times : x2'[k].final => x2[k].final \/ x3.bars[k].final \/ x5[t].rows[k].final,
         FilesOK(Going(t, pc), x2', x3'),
         x5[t].kind = "query" /\ pc = "release" => ~ x3'.there
  PROVE  HistoryInv'
<1> DEFINE r == Going(t, pc)
<1>1. /\ r \in Tasks /\ r.pc = pc /\ r.rows = x5[t].rows /\ r.kind = x5[t].kind /\ r.due = x5[t].due
      /\ pc \in Inner
  <2>1. pc \in Pcs /\ pc \in Inner
    BY DEF Pcs, Inner
  <2> QED BY <2>1, GoOK
<1>2. FilesOK(r, x2', x3') /\ x5' = [x5 EXCEPT ![t] = r]
  OBVIOUS
<1> HIDE DEF r
<1>3. x5' \in [Two -> Tasks] /\ x5'[t] = r /\ \A u \in Two : u # t => x5'[u] = x5[u]
  BY <1>1, <1>2 DEF HistoryInv
<1>4. \A u \in Two : u # t => x5[u].pc \notin Inner
  BY DEF HistoryInv, Held
<1>5. Held(x4', x5')
  BY <1>1, <1>3 DEF HistoryInv, Held, Inner
<1>6. Ripe(x2', x1') /\ Ripe(x3'.bars, x1')
  <2>1. Ripe(x2, x1) /\ Ripe(x3.bars, x1) /\ Ripe(x5[t].rows, x1)
    BY TaskIs DEF HistoryInv, StoreTaskOK
  <2> QED BY <2>1 DEF Ripe
<1>7. ASSUME NEW u \in Two PROVE IncomingOK(x5[u].rows, u, x2', x3')
  <2>1. IncomingOK(x5[u].rows, u, x2, x3) /\ IncomingOK(x5[t].rows, t, x2, x3)
    BY TaskIs DEF StoreTaskOK
  <2> SUFFICES ASSUME NEW k \in History!Times, x5[u].rows[k] # History!NoBar, ~ x5[u].rows[k].final
               PROVE  ~ x2'[k].final
    BY <2>1 DEF IncomingOK
  <2>2. u = "sync" /\ OnGrid(k) /\ ~ x2[k].final /\ ~ x3.bars[k].final
    BY <2>1 DEF IncomingOK, Two
  <2>3. ASSUME x5[t].rows[k].final PROVE FALSE
    <3>1. x5[t].rows[k] # History!NoBar
      BY <2>3 DEF History!NoBar
    <3>2. t = "sync"
      BY <2>1, <2>2, <3>1 DEF IncomingOK
    <3> QED BY <2>2, <2>3, <3>2
  <2> QED BY <2>2, <2>3
<1>8. InStore(x2, x3) \subseteq History!Times /\ InStore(x2', x3') \subseteq History!Times
  BY DEF InStore, History!Keys
<1>9. ASSUME NEW u \in Two, x5[u].kind = "query", x5[u].pc \in Waits \cup Inner \cup {"scan"}
      PROVE  Covered(x5[u].due, InStore(x2', x3'))
  <2>1. Covered(x5[u].due, InStore(x2, x3))
    BY <1>9, TaskIs DEF StoreTaskOK, QueryOK
  <2>2. x5[u].due \subseteq Int
    BY TaskIs DEF Tasks
  <2> QED BY <1>8, <2>1, <2>2, CoveredOn
<1>10. ASSUME NEW u \in Two, u # t PROVE StoreTaskOK(x5[u], u, x1, x2', x3')
  <2>1. StoreTaskOK(x5[u], u, x1, x2, x3)
    BY TaskIs
  <2>2. FilesOK(x5[u], x2', x3')
    BY <1>4, <1>10 DEF FilesOK, Inner
  <2>3. QueryOK(x5[u], x2', x3')
    BY <1>4, <1>9, <1>10, <2>1 DEF StoreTaskOK, QueryOK, Inner
  <2> QED BY <1>7, <2>1, <2>2, <2>3 DEF StoreTaskOK
<1>11. StoreTaskOK(r, t, x1, x2', x3')
  <2>1. StoreTaskOK(x5[t], t, x1, x2, x3)
    BY TaskIs
  <2>2. IncomingOK(r.rows, t, x2', x3')
    BY <1>1, <1>7
  <2>3. QueryOK(r, x2', x3')
    BY <1>1, <1>9 DEF QueryOK, Inner
  <2>4. Ripe(r.rows, x1) /\ Whose(r, t)
    BY <1>1, <2>1 DEF StoreTaskOK, Whose
  <2> QED BY <1>2, <2>2, <2>3, <2>4 DEF StoreTaskOK
<1>12. \A u \in Two : StoreTaskOK(x5'[u], u, x1', x2', x3')
  BY <1>3, <1>10, <1>11
<1> QED BY <1>3, <1>5, <1>6, <1>12 DEF HistoryInv

-----------------------------------------------------------------------------
(* What a read finds at a time, and what of it a step keeps.               *)
BarIn(s, l, k) == IF s[k] # History!NoBar THEN s[k] ELSE IF l.there THEN l.bars[k] ELSE History!NoBar

LEMMA StoreStays ==
  ASSUME LastTime \in Nat, Room \in Nat, x2' \in Bars,
         Covered(InStore(x2, x3), InStore(x2', x3')),
         \A k \in InStore(x2, x3) \cap InStore(x2', x3') : BarIn(x2, x3, k).final => BarIn(x2', x3', k).final
  PROVE  History!BarsStay
<1>1. History!Stored = InStore(x2, x3) /\ History!Stored' = InStore(x2', x3')
  BY DEF History!Stored, InStore
<1>2. \A k : History!BarAt(k) = BarIn(x2, x3, k) /\ (History!BarAt(k).final)' = BarIn(x2', x3', k).final
  BY DEF History!BarAt, BarIn
<1>3. \A k, K : History!Above(k, K) = History!Cardinality({u \in K : u > k})
  BY DEF History!Above
<1> SUFFICES ASSUME NEW k \in InStore(x2, x3)
             PROVE  \/ k \in InStore(x2', x3') /\ (BarIn(x2, x3, k).final => BarIn(x2', x3', k).final)
                    \/ History!Above(k, InStore(x2', x3')) >= Room
  BY <1>1, <1>2, <1>3 DEF History!BarsStay
<1> QED BY DEF Covered

LEMMA StoreSame ==
  ASSUME UNCHANGED <<x2, x3>>
  PROVE  History!BarsStay
BY DEF History!BarsStay, History!BarAt, History!Stored

LEMMA HistoryReplaces ==
  ASSUME LastTime \in Nat, Room \in Nat, HistoryInv, NEW t \in Two, History!Replace(t)
  PROVE  HistoryInv' /\ History!BarsStay
<1> DEFINE r == Going(t, "rename")
           c == x5[t].buf
<1>1. x5[t].pc = "replace" /\ x2' = c /\ UNCHANGED <<x1, x3, x4, x6>>
  BY DEF History!Replace, History!At
<1>2. x3.there /\ c = History!compactSeries(History!mergeEntries(x2, x3.bars))
  BY <1>1, TaskIs DEF StoreTaskOK, FilesOK
<1>3. /\ r.pc = "rename" /\ x5' = [x5 EXCEPT ![t] = r]
  BY GoOK DEF Pcs, Inner, History!Replace
<1> HIDE DEF r, c
<1>4. /\ c \in Bars /\ History!Keys(c) \subseteq History!Times
      /\ Covered(History!Keys(x2), History!Keys(c)) /\ Covered(History!Keys(x3.bars), History!Keys(c))
      /\ \A k \in History!Times : c[k] = x3.bars[k] \/ c[k] = x2[k] \/ c[k] = History!NoBar
  BY <1>2, Taken DEF HistoryInv
<1>5. Moving(x2, x3)
  BY DEF HistoryInv
<1>6. \A k \in History!Times : c[k] = x3.bars[k] \/ c[k] = History!NoBar
  BY <1>2, <1>4, <1>5 DEF Moving
<1>7. Covered(InStore(x2, x3), InStore(x2', x3'))
  <2>1. InStore(x2, x3) = History!Keys(x2) \cup History!Keys(x3.bars)
    BY <1>2 DEF InStore
  <2>2. InStore(x2', x3') = History!Keys(c) \cup History!Keys(x3.bars)
    BY <1>1, <1>2 DEF InStore
  <2>3. History!Keys(x3.bars) \subseteq History!Times
    BY DEF History!Keys
  <2>4. Covered(History!Keys(x2) \cup History!Keys(x3.bars), History!Keys(c))
    BY <1>4 DEF Covered
  <2> QED BY <1>4, <2>1, <2>2, <2>3, <2>4, CoveredMore
<1>8. Moving(x2', x3')
  BY <1>1, <1>6 DEF Moving
<1>9. FilesOK(r, x2', x3')
  BY <1>1, <1>2, <1>3, <1>4 DEF FilesOK
<1>10. \A k \in History!Times : x2'[k].final => x2[k].final \/ x3.bars[k].final \/ x5[t].rows[k].final
  BY <1>1, <1>6 DEF History!NoBar
<1>11. HistoryInv'
  BY <1>1, <1>3, <1>4, <1>7, <1>8, <1>9, <1>10, StoreMoves DEF r, Inner, HistoryInv
<1>12. ASSUME NEW k \in InStore(x2, x3) PROVE BarIn(x2, x3, k).final => BarIn(x2', x3', k).final
  <2>1. k \in History!Times
    BY DEF InStore, History!Keys
  <2> QED BY <1>1, <1>2, <1>5, <1>6, <2>1 DEF BarIn, Moving
<1>13. History!BarsStay
  BY <1>1, <1>4, <1>7, <1>12, StoreStays
<1> QED BY <1>11, <1>13

LEMMA HistoryRenames ==
  ASSUME LastTime \in Nat, Room \in Nat, HistoryInv, NEW t \in Two, History!Rename(t)
  PROVE  HistoryInv' /\ History!BarsStay
<1> DEFINE pc == IF x3.there /\ ~ History!Reads(t) THEN "merge" ELSE "release"
           r == Going(t, pc)
<1>1. x5[t].pc = "rename" /\ x3' = [x3 EXCEPT !.there = FALSE] /\ UNCHANGED <<x1, x2, x4, x6>>
  BY DEF History!Rename, History!At
<1>2. x3.there /\ Covered(History!Keys(x3.bars), History!Keys(x2))
  BY <1>1, TaskIs DEF StoreTaskOK, FilesOK
<1>3. pc \in {"merge", "release"} /\ (pc = "merge" => x5[t].kind \notin {"sync", "query"})
  BY DEF History!Reads
<1>4. History!Go(t, pc)
  BY DEF History!Rename
<1> HIDE DEF pc
<1>5. r.pc = pc /\ r.kind = x5[t].kind /\ x5' = [x5 EXCEPT ![t] = r]
  BY <1>3, <1>4, GoOK DEF Pcs, Inner
<1> HIDE DEF r
<1>6. x3' \in [there : BOOLEAN, bars : Bars] /\ x3'.bars = x3.bars /\ x3'.there = FALSE
  BY <1>1 DEF HistoryInv
<1>7. Covered(InStore(x2, x3), InStore(x2', x3'))
  <2>1. InStore(x2, x3) = History!Keys(x2) \cup History!Keys(x3.bars) /\ InStore(x2', x3') = History!Keys(x2)
    BY <1>1, <1>2, <1>6 DEF InStore
  <2> QED BY <1>2, <2>1 DEF Covered
<1>8. Moving(x2', x3')
  BY <1>6 DEF Moving
<1>9. FilesOK(r, x2', x3')
  BY <1>3, <1>5, <1>6 DEF FilesOK
<1>10. HistoryInv'
  BY <1>1, <1>3, <1>5, <1>6, <1>7, <1>8, <1>9, StoreMoves DEF r, Inner, HistoryInv
<1>11. ASSUME NEW k \in InStore(x2', x3') PROVE BarIn(x2, x3, k).final => BarIn(x2', x3', k).final
  <2>1. k \in History!Times /\ x2[k] # History!NoBar
    BY <1>1, <1>6 DEF InStore, History!Keys
  <2> QED BY <1>1, <2>1 DEF BarIn
<1>12. History!BarsStay
  BY <1>1, <1>7, <1>11, StoreStays DEF HistoryInv
<1> QED BY <1>10, <1>12

LEMMA HistoryWrites ==
  ASSUME LastTime \in Nat, Room \in Nat, HistoryInv, NEW t \in Two, History!Write(t)
  PROVE  HistoryInv' /\ History!BarsStay
<1> DEFINE r == Going(t, "release")
           c == x5[t].buf
           rows == x5[t].rows
<1>1. x5[t].pc = "write" /\ x2' = c /\ UNCHANGED <<x1, x3, x4, x6>>
  BY DEF History!Write, History!At
<1>2. /\ ~ x3.there /\ x5[t].kind # "query" /\ rows \in Bars
      /\ c = History!compactSeries(History!mergeEntries(x2, rows)) /\ IncomingOK(rows, t, x2, x3)
  BY <1>1, TaskIs DEF StoreTaskOK, FilesOK, Tasks
<1>3. r.pc = "release" /\ x5' = [x5 EXCEPT ![t] = r]
  BY GoOK DEF Pcs, Inner, History!Write
<1> HIDE DEF r, c
<1>4. /\ c \in Bars /\ History!Keys(c) \subseteq History!Times /\ Covered(History!Keys(x2), History!Keys(c))
      /\ \A k \in History!Times : (c[k] = rows[k] /\ rows[k] # History!NoBar) \/ c[k] = x2[k] \/ c[k] = History!NoBar
  BY <1>2, Taken DEF HistoryInv
<1>5. InStore(x2, x3) = History!Keys(x2) /\ InStore(x2', x3') = History!Keys(c)
  BY <1>1, <1>2 DEF InStore
<1>6. Covered(InStore(x2, x3), InStore(x2', x3'))
  BY <1>4, <1>5
<1>7. Moving(x2', x3') /\ FilesOK(r, x2', x3')
  BY <1>1, <1>2, <1>3 DEF Moving, FilesOK
<1>8. \A k \in History!Times : x2'[k].final => x2[k].final \/ x3.bars[k].final \/ rows[k].final
  BY <1>1, <1>4 DEF History!NoBar
<1>9. HistoryInv'
  BY <1>1, <1>2, <1>3, <1>4, <1>6, <1>7, <1>8, StoreMoves DEF r, Inner, HistoryInv
<1>10. ASSUME NEW k \in InStore(x2', x3'), BarIn(x2, x3, k).final PROVE BarIn(x2', x3', k).final
  <2>1. k \in History!Times /\ c[k] # History!NoBar /\ BarIn(x2', x3', k) = c[k]
    BY <1>1, <1>5, <1>10 DEF History!Keys, BarIn
  <2>2. x2[k].final
    BY <1>2, <1>10 DEF BarIn, History!NoBar
  <2>3. c[k] = x2[k] \/ (c[k] = rows[k] /\ rows[k].final)
    BY <1>2, <1>4, <2>1, <2>2 DEF IncomingOK
  <2> QED BY <2>1, <2>2, <2>3
<1>11. History!BarsStay
  BY <1>1, <1>4, <1>6, <1>10, StoreStays
<1> QED BY <1>9, <1>11

-----------------------------------------------------------------------------
(* The steps outside the lock.                                             *)

LEMMA HistoryReading ==
  ASSUME LastTime \in Nat, Room \in Nat, HistoryInv, NEW t \in Two, History!Reading(t)
  PROVE  HistoryInv' /\ UNCHANGED <<x2, x3>>
<1>1. CASE History!Query(t)
  <2> DEFINE r == [History!Idle EXCEPT !.pc = History!FirstStep, !.kind = "query", !.due = History!Stored]
  <2>1. x5[t].pc = "idle" /\ x5' = [x5 EXCEPT ![t] = r] /\ UNCHANGED <<x1, x2, x3, x4, x6>>
    BY <1>1 DEF History!Query, History!At
  <2>2. History!FirstStep \in {"acquire", "scan"} /\ (History!FirstStep = "scan" => ~ x3.there)
    BY DEF History!FirstStep
  <2>3. History!Stored = InStore(x2, x3)
    BY DEF History!Stored, InStore
  <2>4. History!Stored \subseteq Int
    BY TimesAreNat DEF History!Stored, History!Keys
  <2>5. /\ r.pc \in {"acquire", "scan"} /\ (r.pc = "scan" => ~ x3.there) /\ r.kind = "query"
        /\ r.rows = History!Idle.rows /\ r.due = InStore(x2, x3) /\ r \in Tasks
    <3>1. History!Idle \in Tasks
      BY IdleOK
    <3> QED BY <2>2, <2>3, <2>4, <3>1 DEF Tasks, Pcs, Waits, Kinds
  <2> HIDE DEF r
  <2>6. StoreTaskOK(r, t, x1, x2, x3)
    BY <2>5, IdleOK DEF StoreTaskOK, FilesOK, QueryOK, Whose, Waits, Inner, Covered
  <2>7. r.pc \notin Inner \cup {"remove"}
    BY <2>5 DEF Inner
  <2> QED BY <2>1, <2>5, <2>6, <2>7, HistoryGoes DEF HistoryInv
<1>2. CASE History!ScanSeries(t)
  <2> DEFINE r == [x5[t] EXCEPT !.pc = "legacy", !.got = History!Keys(x2)]
  <2>1. x5[t].pc = "scan" /\ x5' = [x5 EXCEPT ![t] = r] /\ UNCHANGED <<x1, x2, x3, x4, x6>>
    BY <1>2 DEF History!ScanSeries, History!At
  <2>2. /\ r \in Tasks /\ r.pc = "legacy" /\ r.kind = x5[t].kind /\ r.rows = x5[t].rows
        /\ r.due = x5[t].due /\ r.got = History!Keys(x2) /\ r.late = x5[t].late
    <3>1. x5[t] \in Tasks
      BY TaskIs
    <3>2. History!Keys(x2) \in SUBSET History!Times
      BY DEF History!Keys
    <3> QED BY <3>1, <3>2 DEF Tasks, Pcs
  <2> HIDE DEF r
  <2>3. StoreTaskOK(r, t, x1, x2, x3)
    <3>1. ASSUME r.kind = "query", ~ r.late PROVE Covered(r.due, r.got)
      BY <2>1, <2>2, <3>1, TaskIs DEF StoreTaskOK, QueryOK, InStore
    <3> QED BY <2>1, <2>2, <3>1, TaskIs DEF StoreTaskOK, FilesOK, QueryOK, Whose, Waits, Inner
  <2>4. r.pc \notin Inner \cup {"remove"}
    BY <2>2 DEF Inner
  <2> QED BY <2>1, <2>2, <2>3, <2>4, HistoryGoes DEF HistoryInv
<1>3. CASE History!ScanLegacy(t)
  <2> DEFINE pc == IF x5[t].kind = "sync" THEN "plan" ELSE "answered"
             got == IF x3.there THEN x5[t].got \cup History!Keys(x3.bars) ELSE x5[t].got
             r == [x5[t] EXCEPT !.pc = pc, !.got = got]
  <2>1. x5[t].pc = "legacy" /\ x5' = [x5 EXCEPT ![t] = r] /\ UNCHANGED <<x1, x2, x3, x4, x6>>
    BY <1>3 DEF History!ScanLegacy, History!At
  <2>2. x5[t] \in Tasks /\ x5[t].got \subseteq History!Times
    BY TaskIs DEF Tasks
  <2>3. x5[t].got \subseteq got /\ got \in SUBSET History!Times
    BY <2>2 DEF History!Keys
  <2>4. /\ pc \in {"plan", "answered"} /\ (pc = "plan" => x5[t].kind = "sync")
      /\ (pc = "answered" => x5[t].kind # "sync")
    OBVIOUS
  <2> HIDE DEF pc, got
  <2>5. /\ r \in Tasks /\ r.pc = pc /\ r.kind = x5[t].kind /\ r.rows = x5[t].rows
        /\ r.due = x5[t].due /\ r.got = got /\ r.late = x5[t].late
    BY <2>2, <2>3, <2>4 DEF Tasks, Pcs
  <2> HIDE DEF r
  <2>6. StoreTaskOK(r, t, x1, x2, x3)
    <3>1. ASSUME r.kind = "query", ~ r.late PROVE Covered(r.due, r.got)
      <4>1. Covered(x5[t].due, x5[t].got)
        BY <2>1, <2>5, <3>1, TaskIs DEF StoreTaskOK, QueryOK
      <4> QED BY <2>3, <2>5, <4>1, CoveredMore
    <3> QED BY <2>1, <2>4, <2>5, <3>1, TaskIs DEF StoreTaskOK, FilesOK, QueryOK, Whose, Waits, Inner
  <2>7. r.pc \notin Inner \cup {"remove"}
    BY <2>4, <2>5 DEF Inner
  <2> QED BY <2>1, <2>5, <2>6, <2>7, HistoryGoes DEF HistoryInv
<1>4. CASE History!Answered(t)
  <2>1. /\ x5[t].pc \in {"answered", "fresh"} /\ x5' = [x5 EXCEPT ![t] = History!Idle]
        /\ UNCHANGED <<x1, x2, x3, x4, x6>>
    BY <1>4 DEF History!Answered
  <2>2. History!Idle.pc = "idle"
    BY DEF History!Idle
  <2> QED BY <2>1, <2>2, IdleOK, HistoryGoes DEF HistoryInv, Inner
<1> QED BY <1>1, <1>2, <1>3, <1>4 DEF History!Reading

(* The venue's bars are of the grid; of those that are not final, no final *)
(* bar can be stored.                                                      *)
LEMMA HistorySyncing ==
  ASSUME LastTime \in Nat, Frame \in Nat \ {0}, HistoryInv, NEW t \in Two, History!Syncing(t)
  PROVE  HistoryInv' /\ UNCHANGED <<x2, x3>>
<1>0. History!Times \subseteq Nat /\ x1 \in Nat /\ x6 \in Nat /\ x5[t] \in Tasks /\ StoreTaskOK(x5[t], t, x1, x2, x3)
  BY TimesAreNat, TaskIs DEF HistoryInv
<1>1. CASE History!Sync(t)
  <2> DEFINE r == [History!Idle EXCEPT !.pc = History!FirstStep, !.kind = "sync"]
  <2>1. /\ x5[t].pc = "idle" /\ t = "sync" /\ x5' = [x5 EXCEPT ![t] = r]
        /\ UNCHANGED <<x1, x2, x3, x4, x6>>
    BY <1>1 DEF History!Sync, History!At
  <2>2. History!FirstStep \in {"acquire", "scan"}
    BY DEF History!FirstStep
  <2>3. r.pc \in {"acquire", "scan"} /\ r.kind = "sync" /\ r.rows = History!Idle.rows /\ r \in Tasks
    <3>1. History!Idle \in Tasks
      BY IdleOK
    <3> QED BY <2>2, <3>1 DEF Tasks, Pcs, Waits, Kinds
  <2> HIDE DEF r
  <2>4. StoreTaskOK(r, t, x1, x2, x3)
    BY <2>1, <2>3, IdleOK DEF StoreTaskOK, FilesOK, QueryOK, Whose
  <2>5. r.pc \notin Inner \cup {"remove"}
    BY <2>3 DEF Inner
  <2> QED BY <2>1, <2>3, <2>4, <2>5, HistoryGoes DEF HistoryInv
<1>2. CASE History!Plan(t)
  <2> DEFINE pc == IF \E k \in x5[t].got : k >= History!Floor(x1) THEN "fresh" ELSE "fetch"
             due == {History!Floor(x1)}
             r == [x5[t] EXCEPT !.pc = pc, !.due = due]
  <2>1. x5[t].pc = "plan" /\ x5' = [x5 EXCEPT ![t] = r] /\ UNCHANGED <<x1, x2, x3, x4, x6>>
    BY <1>2 DEF History!Plan, History!At
  <2>2. pc \in {"fresh", "fetch"}
    OBVIOUS
  <2>3. due \in SUBSET Int
    <3>1. x1 \div Frame \in Int
      BY <1>0
    <3> QED BY <3>1 DEF History!Floor
  <2> HIDE DEF pc, due
  <2>4. r \in Tasks /\ r.pc = pc /\ r.kind = x5[t].kind /\ r.rows = x5[t].rows
    BY <1>0, <2>2, <2>3 DEF Tasks, Pcs
  <2> HIDE DEF r
  <2>5. StoreTaskOK(r, t, x1, x2, x3)
    BY <1>0, <2>1, <2>2, <2>4 DEF StoreTaskOK, FilesOK, QueryOK, Whose, Waits, Inner
  <2>6. r.pc \notin Inner \cup {"remove"}
    BY <2>2, <2>4 DEF Inner
  <2> QED BY <2>1, <2>4, <2>5, <2>6, HistoryGoes DEF HistoryInv
<1>3. CASE History!Fetch(t)
  <2> DEFINE bar(k) == [History!NoBar EXCEPT !.at = IF k \in History!Latest THEN 1 ELSE 0,
                                            !.final = k \in History!Latest /\ k + Frame <= x1]
             rows == [k \in History!Times |-> bar(k)]
             r == [x5[t] EXCEPT !.pc = "append", !.kind = "append", !.rows = rows]
  <2>1. x5[t].pc = "fetch" /\ x5' = [x5 EXCEPT ![t] = r] /\ UNCHANGED <<x1, x2, x3, x4, x6>>
    BY <1>3 DEF History!Fetch, History!At
  <2>2. t = "sync"
    BY <1>0, <2>1 DEF StoreTaskOK, Whose
  <2>4. ASSUME NEW k \in History!Times
        PROVE  /\ bar(k) \in Bar
               /\ bar(k).final => k + Frame <= x1
               /\ bar(k) # History!NoBar => k \in History!Latest
               /\ k \in History!Latest /\ ~ bar(k).final => ~ (k + Frame <= x1)
    <3> DEFINE at == IF k \in History!Latest THEN 1 ELSE 0
               final == k \in History!Latest /\ k + Frame <= x1
    <3>1. bar(k) = [History!NoBar EXCEPT !.at = at, !.final = final]
      OBVIOUS
    <3>2. at \in Nat /\ final \in BOOLEAN /\ (k \notin History!Latest => at = 0 /\ ~ final)
      OBVIOUS
    <3>3. final <=> k \in History!Latest /\ k + Frame <= x1
      OBVIOUS
    <3> HIDE DEF bar, at, final
    <3>4. bar(k) \in Bar /\ bar(k).at = at /\ (bar(k).final <=> final)
      BY <3>1, <3>2 DEF Bar, History!NoBar
    <3>5. k \notin History!Latest => bar(k) = History!NoBar
      BY <3>2, <3>4 DEF Bar, History!NoBar
    <3> QED BY <3>3, <3>4, <3>5
  <2>5. rows \in Bars /\ \A k \in History!Times : rows[k] = bar(k)
    BY <2>4 DEF Bars
  <2>6. \A k \in History!Latest : OnGrid(k)
    BY DEF History!Latest, History!Grid, OnGrid
  <2>7. \A k \in History!Times : OnGrid(k) /\ ~ (k + Frame <= x1) => ~ x2[k].final /\ ~ x3.bars[k].final
    BY DEF HistoryInv, Ripe
  <2> HIDE DEF bar, rows
  <2>8. r \in Tasks /\ r.pc = "append" /\ r.kind = "append" /\ r.rows = rows
    BY <1>0, <2>5 DEF Tasks, Pcs, Kinds
  <2>9. Ripe(rows, x1) /\ IncomingOK(rows, t, x2, x3)
    BY <2>2, <2>4, <2>5, <2>6, <2>7 DEF Ripe, IncomingOK
  <2> HIDE DEF r
  <2>10. StoreTaskOK(r, t, x1, x2, x3)
    BY <2>2, <2>8, <2>9 DEF StoreTaskOK, FilesOK, QueryOK, Whose
  <2> QED BY <2>1, <2>8, <2>10, HistoryGoes DEF HistoryInv, Inner
<1>4. CASE History!appendSeries(t)
  <2> DEFINE rows == History!Stamped(x5[t].rows)
             r == [x5[t] EXCEPT !.pc = "acquire", !.rows = rows]
  <2>1. x5[t].pc = "append" /\ x5' = [x5 EXCEPT ![t] = r] /\ x6' = x6 + 1 /\ UNCHANGED <<x1, x2, x3, x4>>
    BY <1>4 DEF History!appendSeries, History!At
  <2>2. x5[t].kind = "append" /\ x5[t].rows \in Bars
    BY <1>0, <2>1 DEF StoreTaskOK, Whose, Tasks
  <2>3. /\ rows \in Bars
        /\ \A k \in History!Times : rows[k].final = x5[t].rows[k].final
        /\ \A k \in History!Times : rows[k] # History!NoBar => x5[t].rows[k] # History!NoBar
    <3>1. rows = [k \in History!Times |-> IF x5[t].rows[k] = History!NoBar THEN History!NoBar
                                         ELSE [x5[t].rows[k] EXCEPT !.at = x6 + 1]]
      BY DEF History!Stamped
    <3>2. \A k \in History!Times : x5[t].rows[k] \in Bar
      BY <2>2 DEF Bars
    <3> HIDE DEF rows
    <3>3. ASSUME NEW k \in History!Times
          PROVE  /\ rows[k] \in Bar
                 /\ rows[k].final = x5[t].rows[k].final
                 /\ rows[k] # History!NoBar => x5[t].rows[k] # History!NoBar
      <4>1. x5[t].rows[k] \in Bar /\ x6 + 1 \in Nat
        BY <1>0, <3>2
      <4>2. CASE x5[t].rows[k] = History!NoBar
        BY <3>1, <4>1, <4>2
      <4>3. CASE x5[t].rows[k] # History!NoBar
        <5>1. rows[k] = [x5[t].rows[k] EXCEPT !.at = x6 + 1]
          BY <3>1, <4>3
        <5> QED BY <4>1, <4>3, <5>1 DEF Bar
      <4> QED BY <4>2, <4>3
    <3>4. rows \in Bars
      BY <3>1, <3>3 DEF Bars
    <3> QED BY <3>3, <3>4
  <2> HIDE DEF rows
  <2>4. r \in Tasks /\ r.pc = "acquire" /\ r.kind = "append" /\ r.rows = rows
    BY <1>0, <2>2, <2>3 DEF Tasks, Pcs, Waits
  <2>5. Ripe(rows, x1) /\ IncomingOK(rows, t, x2, x3)
    BY <1>0, <2>3 DEF StoreTaskOK, Ripe, IncomingOK
  <2> HIDE DEF r
  <2>6. StoreTaskOK(r, t, x1, x2, x3)
    BY <2>4, <2>5 DEF StoreTaskOK, FilesOK, QueryOK, Whose
  <2>7. x6' \in Nat /\ r.pc \notin Inner \cup {"remove"}
    BY <1>0, <2>1, <2>4 DEF Inner
  <2> QED BY <1>0, <2>1, <2>4, <2>6, <2>7, HistoryGoes
<1>5. CASE History!getSnapshot(t)
  <2> DEFINE rows == [History!NoBars EXCEPT ![x1] = [at |-> 1, final |-> TRUE]]
             r == [History!Idle EXCEPT !.pc = "acquire", !.kind = "append", !.rows[x1] = [at |-> 1, final |-> TRUE]]
  <2>1. /\ x5[t].pc = "idle" /\ t # "sync" /\ ~ OnGrid(x1) /\ x5' = [x5 EXCEPT ![t] = r]
        /\ UNCHANGED <<x1, x2, x3, x4, x6>>
    BY <1>5 DEF History!getSnapshot, History!At, OnGrid
  <2>2. /\ rows \in Bars
        /\ \A k \in History!Times : rows[k] # History!NoBar => k = x1 /\ rows[k].final
        /\ \A k \in History!Times : rows[k].final => k = x1
    BY DEF Bars, Bar, History!NoBars, History!NoBar
  <2>3. r = [History!Idle EXCEPT !.pc = "acquire", !.kind = "append", !.rows = rows]
    BY DEF History!Idle
  <2> HIDE DEF r, rows
  <2>4. r \in Tasks /\ r.pc = "acquire" /\ r.kind = "append" /\ r.rows = rows
    <3>1. History!Idle \in Tasks
      BY IdleOK
    <3> QED BY <2>2, <2>3, <3>1 DEF Tasks, Pcs, Waits, Kinds
  <2>5. Ripe(rows, x1) /\ IncomingOK(rows, t, x2, x3)
    BY <2>1, <2>2 DEF Ripe, IncomingOK
  <2>6. StoreTaskOK(r, t, x1, x2, x3)
    BY <2>1, <2>4, <2>5 DEF StoreTaskOK, FilesOK, QueryOK, Whose
  <2> QED BY <2>1, <2>4, <2>6, HistoryGoes DEF r, HistoryInv, Inner
<1> QED BY <1>1, <1>2, <1>3, <1>4, <1>5 DEF History!Syncing

LEMMA HistoryCrash ==
  ASSUME LastTime \in Nat, HistoryInv, NEW t \in Two, History!Crash(t)
  PROVE  HistoryInv' /\ UNCHANGED <<x2, x3>>
<1>1. /\ x5' = [x5 EXCEPT ![t] = History!Dead] /\ UNCHANGED <<x1, x2, x3, x6>>
      /\ x4' = IF x4.by = t THEN [x4 EXCEPT !.dead = TRUE] ELSE x4
  BY DEF History!Crash
<1>2. History!Dead \in Tasks /\ History!Dead.pc = "dead" /\ StoreTaskOK(History!Dead, t, x1, x2, x3)
  <2>1. /\ History!Dead = [History!Idle EXCEPT !.pc = "dead"] /\ History!Idle \in Tasks
        /\ StoreTaskOK(History!Idle, t, x1, x2, x3) /\ History!Idle.kind = "none"
    BY IdleOK DEF History!Dead, History!Idle
  <2>2. /\ History!Dead \in Tasks /\ History!Dead.pc = "dead" /\ History!Dead.kind = "none"
        /\ History!Dead.rows = History!Idle.rows
    BY <2>1 DEF Tasks, Pcs
  <2> QED BY <2>1, <2>2 DEF StoreTaskOK, FilesOK, QueryOK, Whose
<1>3. x4 \in Locks /\ Held(x4, x5)
  BY DEF HistoryInv
<1>4. x4' \in Locks /\ x4'.by = x4.by /\ (x4'.dead <=> x4.dead \/ x4.by = t)
  BY <1>1, <1>3 DEF Locks
<1>5. x5'[t] = History!Dead /\ \A u \in Two : u # t => x5'[u] = x5[u]
  BY <1>1, TaskIs
<1>6. Held(x4', x5')
  BY <1>2, <1>3, <1>4, <1>5 DEF Held, Inner
<1> QED BY <1>1, <1>2, <1>4, <1>6, HistoryTask DEF HistoryInv

LEMMA HistoryTick ==
  ASSUME LastTime \in Nat, Frame \in Nat, HistoryInv, History!Tick
  PROVE  HistoryInv' /\ UNCHANGED <<x2, x3>>
<1>1. x1' = x1 + 1 /\ x1 \in Nat /\ UNCHANGED <<x2, x3, x4, x5, x6>>
  BY DEF History!Tick, HistoryInv
<1>2. ASSUME NEW bars, Ripe(bars, x1) PROVE Ripe(bars, x1')
  <2>1. \A k \in History!Times : k + Frame <= x1 => k + Frame <= x1'
    BY <1>1, TimesAreNat
  <2> QED BY <1>2, <2>1 DEF Ripe
<1>3. \A u \in Two : StoreTaskOK(x5[u], u, x1', x2, x3)
  BY <1>2 DEF HistoryInv, StoreTaskOK
<1> QED BY <1>1, <1>2, <1>3 DEF HistoryInv

-----------------------------------------------------------------------------
(* The store as a whole.                                                   *)

LEMMA HistoryInit ==
  ASSUME LastTime \in Nat, Frame \in Nat, History!Init
  PROVE  HistoryInv
<1>1. PICK final \in BOOLEAN, there \in BOOLEAN :
        LET old == [History!NoBars EXCEPT ![0] = [at |-> 1, final |-> final]]
        IN  x3 = [there |-> there, bars |-> old] /\ x2 = IF there THEN History!NoBars ELSE old
  BY DEF History!Init
<1> DEFINE old == [History!NoBars EXCEPT ![0] = [at |-> 1, final |-> final]]
<1>2. /\ x3 = [there |-> there, bars |-> old] /\ x2 = IF there THEN History!NoBars ELSE old
      /\ x1 = Frame /\ x4 = History!NoLock /\ x5 = [t \in Two |-> History!Idle] /\ x6 = 1
  BY <1>1 DEF History!Init, Two
<1>3. /\ History!NoBars \in Bars /\ Ripe(History!NoBars, Frame)
      /\ \A k \in History!Times : History!NoBars[k] = History!NoBar
  BY DEF History!NoBars, History!NoBar, Bars, Bar, Ripe
<1>4. [at |-> 1, final |-> final] \in Bar
  BY DEF Bar
<1>5. old \in Bars /\ Ripe(old, Frame)
  <2>1. old \in Bars /\ \A k \in History!Times : k # 0 => old[k] = History!NoBars[k]
    BY <1>3, <1>4 DEF Bars
  <2>2. 0 + Frame <= Frame
    OBVIOUS
  <2> HIDE DEF old
  <2> QED BY <1>3, <2>1, <2>2 DEF Ripe
<1> HIDE DEF old
<1>6. x2 \in Bars /\ x3 \in [there : BOOLEAN, bars : Bars] /\ x1 \in Nat /\ x6 \in Nat
  BY <1>2, <1>3, <1>5
<1>7. Moving(x2, x3) /\ Ripe(x2, x1) /\ Ripe(x3.bars, x1)
  BY <1>2, <1>3, <1>5 DEF Moving
<1>8. x4 \in Locks /\ x4.dead = FALSE
  BY <1>2 DEF History!NoLock, Locks
<1>9. \A t \in Two : x5[t] = History!Idle /\ x5[t].pc = "idle"
  BY <1>2 DEF History!Idle
<1>10. x5 \in [Two -> Tasks] /\ \A t \in Two : StoreTaskOK(x5[t], t, x1, x2, x3)
  BY <1>2, <1>9, IdleOK
<1>11. Held(x4, x5)
  BY <1>8, <1>9 DEF Held, Inner
<1> QED BY <1>6, <1>7, <1>8, <1>10, <1>11 DEF HistoryInv

LEMMA HistoryStep ==
  ASSUME LastTime \in Nat, Room \in Nat, Frame \in Nat \ {0}, HistoryInv, History!Next
  PROVE  HistoryInv' /\ History!BarsStay
<1>1. ASSUME NEW t \in Two, History!Locking(t) PROVE HistoryInv' /\ UNCHANGED <<x2, x3>>
  <2>1. HistoryInv'
    BY <1>1, HistoryLocking
  <2>2. UNCHANGED <<x2, x3>>
    BY <1>1 DEF History!Locking, History!Take, History!Judge, History!Remove, History!Timeout, History!Release,
                History!Unlink
  <2> QED BY <2>1, <2>2
<1>2. ASSUME NEW t \in Two, History!Merging(t) PROVE HistoryInv' /\ History!BarsStay
  BY <1>2, HistoryInside, HistoryReplaces, HistoryRenames, HistoryWrites, StoreSame DEF History!Merging
<1>3. ASSUME NEW t \in Two, History!Restart(t) PROVE FALSE
  BY <1>3 DEF History!Restart
<1>4. CASE History!Age
  BY <1>4 DEF History!Age
<1>5. CASE History!Tick
  BY <1>5, HistoryTick, StoreSame
<1>6. CASE \E t \in Two : \/ History!Locking(t) \/ History!Merging(t) \/ History!Reading(t) \/ History!Syncing(t)
                          \/ History!Crash(t) \/ History!Restart(t)
  BY <1>1, <1>2, <1>3, <1>6, HistoryReading, HistorySyncing, HistoryCrash, StoreSame
<1> QED BY <1>4, <1>5, <1>6 DEF History!Next, Two

LEMMA HistoryHolds ==
  ASSUME LastTime \in Nat, Room \in Nat, Frame \in Nat \ {0}
  PROVE  /\ SumInit => (part = "history" => HistoryInv)
         /\ (part = "history" => HistoryInv) /\ [SumNext]_all => (part = "history" => HistoryInv)'
         /\ (part = "history" => HistoryInv) /\ [SumNext]_all => [part = "history" => History!BarsStay]_all
<1> DEFINE Inv == part = "history" => HistoryInv
<1>1. SumInit => Inv
  BY HistoryInit DEF SumInit
<1>2. SumNext /\ (part = "history" \/ part' = "history") => part = "history" /\ part' = "history" /\ History!Next
  BY DEF SumNext, OfFirm, OfExec, Other
<1>3. Inv /\ [SumNext]_all => Inv'
  <2>1. CASE UNCHANGED all
    <3>1. UNCHANGED <<part, x1, x2, x3, x4, x5, x6>>
      BY <2>1 DEF all, xs
    <3> QED BY <3>1 DEF HistoryInv
  <2>2. CASE SumNext
    BY <1>2, <2>2, HistoryStep
  <2> QED BY <2>1, <2>2
<1>4. Inv /\ [SumNext]_all => [part = "history" => History!BarsStay]_all
  <2>1. CASE UNCHANGED all
    BY <2>1
  <2>2. CASE SumNext
    BY <1>2, <2>2, HistoryStep
  <2> QED BY <2>1, <2>2
<1> QED BY <1>1, <1>3, <1>4

(* A bar of the historical store stays, and one of a period that was over  *)
(* stays so, until newer bars have taken its room: the appends, syncs and  *)
(* migrations of two processes do not undo each other (appendSeries, the   *)
(* migration and the lock of the store), whatever crashes and timeouts     *)
(* there are, if no lock is held for longer than LOCK_STALE_MS and a       *)
(* process that died does not come back.                                   *)
THEOREM StoredBarsStay ==
  ASSUME LastTime \in Nat, Room \in Nat, Frame \in Nat \ {0}
  PROVE  SumSpec => HistoryKeeps
<1> DEFINE Inv == part = "history" => HistoryInv
<1>1. SumInit => Inv
  BY HistoryHolds
<1>2. Inv /\ [SumNext]_all => Inv'
  BY HistoryHolds
<1>3. Inv /\ [SumNext]_all => [part = "history" => History!BarsStay]_all
  BY HistoryHolds
<1> QED BY <1>1, <1>2, <1>3, PTL DEF SumSpec, SumSafe, HistoryKeeps

(* A query that got the lock, or needed none, answers every bar that was   *)
(* stored when it began and still has room, although a migration moves the *)
(* bars to the other file meanwhile (query, migrateLegacyForRead).         *)
THEOREM QueriesSee ==
  ASSUME LastTime \in Nat, Room \in Nat, Frame \in Nat \ {0}
  PROVE  SumSpec => []QuerySees
<1> DEFINE Inv == part = "history" => HistoryInv
<1>1. SumInit => Inv
  BY HistoryHolds
<1>2. Inv /\ [SumNext]_all => Inv'
  BY HistoryHolds
<1>3. Inv => QuerySees
  <2> SUFFICES ASSUME HistoryInv, NEW t \in Two, x5[t].pc = "answered", ~ x5[t].late PROVE History!Sees(t)
    BY DEF QuerySees, History!QuerySees, History!At, Two
  <2>1. StoreTaskOK(x5[t], t, x1, x2, x3)
    BY TaskIs
  <2>2. Covered(x5[t].due, x5[t].got)
    BY <2>1 DEF StoreTaskOK, QueryOK, Whose
  <2> QED BY <2>2 DEF Covered, History!Sees
<1> QED BY <1>1, <1>2, <1>3, PTL DEF SumSpec, SumSafe
=============================================================================
