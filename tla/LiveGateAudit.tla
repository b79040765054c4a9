---------------------------- MODULE LiveGateAudit ----------------------------
(***************************************************************************)
(* The audit log of the live gate (live-gate/audit.ts): a file of hash     *)
(* chained lines that several processes append to under a lock file. Every *)
(* call of the file system is a step of its own, for another process may   *)
(* come in between.                                                        *)
(*                                                                         *)
(* The hash of an entry is its id, a number no other entry has; Genesis    *)
(* stands for the 64 zeros. Sizes are counted in lines. A line is an entry;*)
(* the last one may be a "torn" fragment, or "bare": a whole entry that    *)
(* lacks only its newline. A "glued" line is an entry that was written     *)
(* behind one of these, which no reader can parse.                         *)
(***************************************************************************)
EXTENDS Integers, Sequences, SequencesExt

CONSTANTS
  Writers,     \* processes that append: server, command line, micro executor
  MaxEntries,  \* bound on the entries written
  Env          \* a subset of Events

Events == {"crash",    \* a process ends, also in the middle of a write
           "failure",  \* a file cannot be written
          "short",    \* a full disk takes a part of a line, and writeSync does not throw
           "slow"}     \* a process stands still for seconds while it has the lock

VARIABLES
  file,     \* the lines on disk
  lock,     \* the lock file: its owner, and whether that process ended
  holds,    \* the append has a lock file to remove
  head,     \* seq and prevHash in memory of each process
  known,    \* knownSize
  pc, size, \* the step of an append, and the size it saw
  written,  \* entries made so far, the next id
  failed    \* history: "write" or cut failed, a "newline" was missed by a process that opened the file

vars == <<file, lock, holds, head, known, pc, size, written, failed>>

Genesis == 0
NoLock == "none"
NoHead == [seq |-> 0, hash |-> Genesis]
Entry(h, id) == [kind |-> "entry", seq |-> h.seq + 1, prev |-> h.hash, hash |-> id]
Pieces(e) == {[e EXCEPT !.kind = k] : k \in {"torn", "bare"}}
Unfinished(l) == l.kind \in {"torn", "bare"}
Readable(l) == l.kind \in {"entry", "bare"}
HeadOf(e) == [seq |-> e.seq, hash |-> e.hash]

(* verifyAuditFile: numbers from 1 without a gap, each line with the hash  *)
(* of the line before. A missing last newline makes no difference to it.   *)
Follows(f, i) ==
  /\ Readable(f[i])
  /\ f[i].seq = i
  /\ f[i].prev = (IF i = 1 THEN Genesis ELSE f[i - 1].hash)
verifyAuditFile(f) == \A i \in DOMAIN f : Follows(f, i)

(* The file without an unfinished line; only the last line can be one. *)
Whole(f) == IF f # <<>> /\ Unfinished(Last(f)) THEN Front(f) ELSE f

(* The constructor: the head of the file, if the chain is sound. Then the  *)
(* whole file is known, also a last line without its newline.              *)
Opened(f) == IF verifyAuditFile(f) /\ f # <<>> THEN [head |-> HeadOf(Last(f)), known |-> Len(f)]
             ELSE [head |-> NoHead, known |-> 0]
Noted(f) == IF verifyAuditFile(f) /\ Whole(f) # f THEN failed \cup {"newline"} ELSE failed

Init ==
  /\ file = <<>>
  /\ lock = [owner |-> NoLock, left |-> FALSE]
  /\ holds = [p \in Writers |-> FALSE]
  /\ head = [p \in Writers |-> NoHead]
  /\ known = [p \in Writers |-> 0]
  /\ pc = [p \in Writers |-> "idle"]
  /\ size = [p \in Writers |-> 0]
  /\ written = 0
  /\ failed = {}

Goto(p, l) == pc' = [pc EXCEPT ![p] = l]

-----------------------------------------------------------------------------
(* acquireLock *)

Append1(p) ==
  /\ pc[p] = "idle" /\ written < MaxEntries
  /\ Goto(p, "lock")
  /\ UNCHANGED <<file, lock, holds, head, known, size, written, failed>>

(* openSync(lockFile, "wx"); an error of another kind means no lock. *)
Create(p) ==
  /\ pc[p] = "lock"
  /\ \/ /\ lock.owner = NoLock
        /\ lock' = [owner |-> p, left |-> FALSE]
        /\ holds' = [holds EXCEPT ![p] = TRUE]
        /\ Goto(p, "stat")
     \/ lock.owner # NoLock /\ UNCHANGED <<lock, holds>> /\ Goto(p, "stale")
     \/ "failure" \in Env /\ UNCHANGED <<lock, holds>> /\ Goto(p, "stat")
  /\ UNCHANGED <<file, head, known, size, written, failed>>

Old == lock.left \/ "slow" \in Env

(* isStaleLock: a lock that vanished counts as stale, and one whose owner  *)
(* stands still or died gets too old. The owner's number is not found in   *)
(* its JSON text, so its death alone proves nothing.                       *)
CheckStale(p) ==
  /\ pc[p] = "stale"
  /\ \/ (lock.owner = NoLock \/ Old) /\ Goto(p, "unlink")
     \/ lock.owner # NoLock /\ Goto(p, "lock")
  /\ UNCHANGED <<file, lock, holds, head, known, size, written, failed>>

(* The time to wait is over long before a lock is too old: the append goes *)
(* on without one.                                                         *)
GiveUp(p) ==
  /\ pc[p] = "stale"
  /\ lock.owner # NoLock /\ Old
  /\ Goto(p, "stat")
  /\ UNCHANGED <<file, lock, holds, head, known, size, written, failed>>

UnlinkStale(p) ==
  /\ pc[p] = "unlink"
  /\ lock' = [owner |-> NoLock, left |-> FALSE]
  /\ Goto(p, "lock")
  /\ UNCHANGED <<file, holds, head, known, size, written, failed>>

(* release: whatever lock file lies there. *)
Release(p) ==
  /\ pc[p] = "release"
  /\ lock' = IF holds[p] THEN [owner |-> NoLock, left |-> FALSE] ELSE lock
  /\ holds' = [holds EXCEPT ![p] = FALSE]
  /\ Goto(p, "idle")
  /\ UNCHANGED <<file, head, known, size, written, failed>>

-----------------------------------------------------------------------------
(* syncHeadFromFile *)

(* The lines a process has not read yet, and the head after them: the last *)
(* line that can be parsed.                                                *)
NewLines(f, from) == SubSeq(Whole(f), from + 1, Len(Whole(f)))
Adopt(h, lines) ==
  LET parsed == {i \in DOMAIN lines : lines[i].kind = "entry"}
  IN IF parsed = {} THEN h ELSE HeadOf(lines[Max(parsed)])

Stat(p) ==
  /\ pc[p] = "stat"
  /\ size' = [size EXCEPT ![p] = Len(file)]
  /\ IF Len(file) < known[p]
     THEN /\ head' = [head EXCEPT ![p] = Opened(file).head]
          /\ known' = [known EXCEPT ![p] = Len(file)]
          /\ failed' = Noted(file)
          /\ Goto(p, "write")
     ELSE UNCHANGED <<head, known, failed>> /\ Goto(p, IF Len(file) = known[p] THEN "write" ELSE "read")
  /\ UNCHANGED <<file, lock, holds, written>>

(* Mutant of ReadTail: an unfinished last line is left where it is. *)
ReadTailTorn(p) ==
  LET seen == SubSeq(file, 1, size[p])
  IN /\ pc[p] = "read"
     /\ head' = [head EXCEPT ![p] = Adopt(@, NewLines(seen, known[p]))]
     /\ known' = [known EXCEPT ![p] = size[p]]
     /\ Goto(p, "write")
     /\ UNCHANGED <<file, lock, holds, size, written, failed>>

(* The file is cut behind the last whole line that was read, if it can be. *)
ReadTail(p) ==
  LET seen == SubSeq(file, 1, size[p])
      fresh == NewLines(seen, known[p])
      torn == Whole(seen) # seen
  IN /\ pc[p] = "read"
     /\ \/ file' = (IF torn THEN SubSeq(file, 1, known[p] + Len(fresh)) ELSE file) /\ failed' = failed
        \/ torn /\ "failure" \in Env /\ file' = file /\ failed' = failed \cup {"write"}
     /\ head' = [head EXCEPT ![p] = Adopt(@, fresh)]
     /\ known' = [known EXCEPT ![p] = @ + Len(fresh)]
     /\ Goto(p, "write")
     /\ UNCHANGED <<lock, holds, size, written>>

-----------------------------------------------------------------------------
(* The write: head first, then the file. All bytes of the line count as    *)
(* known, also when the disk took fewer.                                   *)

With(f, l) ==
  IF Whole(f) = f THEN Append(f, l)
  ELSE Append(Whole(f), [l EXCEPT !.kind = IF Unfinished(l) THEN "torn" ELSE "glued"])

Write(p) ==
  LET e == Entry(head[p], written + 1)
  IN /\ pc[p] = "write"
     /\ head' = [head EXCEPT ![p] = HeadOf(e)]
     /\ written' = written + 1
     /\ \/ file' = With(file, e) /\ failed' = failed
           /\ known' = [known EXCEPT ![p] = IF Whole(file) = file THEN @ + 1 ELSE Len(file)]
        \/ "failure" \in Env /\ UNCHANGED <<file, known>> /\ failed' = failed \cup {"write"}
        \/ "short" \in Env /\ (\E l \in Pieces(e) : file' = With(file, l)) /\ failed' = failed \cup {"write"}
           /\ known' = [known EXCEPT ![p] = Len(file') + 1]
     /\ Goto(p, "release")
     /\ UNCHANGED <<lock, holds, size>>

(* A process ends, and the next one reads the file when it starts; a write *)
(* may leave any piece of its line. The lock it holds stays and gets old.  *)
Crash(p) ==
  /\ "crash" \in Env /\ pc[p] # "idle"
  /\ \/ file' = file /\ written' = written
     \/ /\ pc[p] = "write" /\ \E l \in Pieces(Entry(head[p], written + 1)) : file' = With(file, l)
        /\ written' = written + 1
  /\ lock' = [lock EXCEPT !.left = @ \/ lock.owner = p]
  /\ holds' = [holds EXCEPT ![p] = FALSE]
  /\ head' = [head EXCEPT ![p] = Opened(file').head]
  /\ known' = [known EXCEPT ![p] = Opened(file').known]
  /\ size' = [size EXCEPT ![p] = 0]
  /\ failed' = Noted(file')
  /\ Goto(p, "idle")

Next ==
  \E p \in Writers :
    \/ Append1(p) \/ Create(p) \/ CheckStale(p) \/ GiveUp(p) \/ UnlinkStale(p) \/ Release(p)
    \/ Stat(p) \/ ReadTail(p) \/ Write(p) \/ Crash(p)

Spec == Init /\ [][Next]_vars

-----------------------------------------------------------------------------
(* Properties *)

TypeOK ==
  /\ Len(file) <= MaxEntries
  /\ lock.owner \in Writers \cup {NoLock}
  /\ written \in 0 .. MaxEntries

(* The lines of the file that can be read never go back in their numbers,  *)
(* through crashes, writes and cuts that fail and lines that were glued    *)
(* together; and as long as none of these faults met the log, the file is  *)
(* one chain without a gap, whatever crash tore its last line.             *)
Ascending(f) ==
  \A i, j \in DOMAIN f : i < j /\ Readable(f[i]) /\ Readable(f[j]) => f[i].seq < f[j].seq
OneChain ==
  /\ Ascending(file)
  /\ failed = {} => verifyAuditFile(Whole(file))

(* audit.ts:408 "Eine halb geschriebene letzte Zeile (abgebrochener        *)
(* Prozess) wird abgeschnitten, damit die neue Zeile nicht an ein          *)
(* Zeilenfragment klebt": no crash in a write breaks the chain.            *)
TornLineIsCut == "write" \notin failed => verifyAuditFile(Whole(file))

(* audit.ts:31 "streng monoton (keine doppelten `seq`, kein veralteter     *)
(* `prevHash`)": under the lock no two processes write the same number, as *)
(* long as no file fails and none stands still.                            *)
LockKeepsOneChain == failed = {} => \A i, j \in DOMAIN file : i # j => file[i].seq # file[j].seq
=============================================================================
