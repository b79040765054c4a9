----------------------------- MODULE AuditSink -----------------------------
(***************************************************************************)
(* The durable audit sink (auditSink.ts) of one process: a record that     *)
(* does not reach audit_log is appended to the spool file, and a drain     *)
(* sends the lines of the spool again, one await per line, before it       *)
(* writes the file anew. Lines the database refuses are quarantined.       *)
(*                                                                         *)
(* Two drains may be under way: the one of the boot, which asks nobody,    *)
(* and the one drainIfPending keeps (drainInFlight).                       *)
(***************************************************************************)
EXTENDS Integers, SequencesExt

CONSTANTS
  Entries,      \* security records, each written once
  Poison,       \* records audit_log refuses always
  SpoolMax,     \* AUDIT_SPOOL_MAX_ENTRIES
  MaxFailures,  \* AUDIT_DRAIN_HEAD_MAX_FAILURES
  MaxCrashes,   \* bound: restarts
  Env           \* subset of {"disk", "quarantine"}: files that may not be writable

VARIABLES
  log,         \* records in audit_log
  spool,       \* lines of audit-pending.ndjson
  quarantine,  \* lines of audit-quarantine.ndjson
  drain,       \* drains under way: the lines read and the next of them
  head,        \* lastFailedHead and headFailures
  outcome,     \* of writeAuditRecord, as the caller saw it
  dropped,     \* lines dropped, and reported, when the spool was full
  crashes,
  exposed      \* history: lines spooled while a drain was under way, since the last restart, and
               \* lines that could not be quarantined

vars == <<log, spool, quarantine, drain, head, outcome, dropped, crashes, exposed>>

Drains == {"boot", "flight"}
NoDrain == [lines |-> <<>>, at |-> 0]
NoHead == [line |-> "none", failures |-> 0]
Running(d) == drain[d] # NoDrain

Begin(lines) == IF lines = <<>> THEN NoDrain ELSE [lines |-> lines, at |-> 1]

Init ==
  /\ log = {} /\ spool = <<>> /\ quarantine = {} /\ dropped = {} /\ exposed = {} /\ crashes = 0
  /\ drain = [d \in Drains |-> NoDrain]
  /\ head = NoHead
  /\ outcome = [e \in Entries |-> "none"]

-----------------------------------------------------------------------------
(* One call of the transport: the row may be stored though the answer is   *)
(* an error; a refused row is neither.                                     *)
Answers(e) == IF e \in Poison THEN {<<FALSE, FALSE>>} ELSE {<<TRUE, TRUE>>, <<TRUE, FALSE>>, <<FALSE, FALSE>>}
Stored(e, a) == IF a[1] THEN log \cup {e} ELSE log

Kept == IF Len(spool) >= SpoolMax THEN SubSeq(spool, Len(spool) - SpoolMax + 2, Len(spool)) ELSE spool

(* drainIfPending, called after a write that reached audit_log. The        *)
(* throttle is a pause of any length.                                      *)
MayDrain ==
  \/ UNCHANGED drain
  \/ ~ Running("flight") /\ spool # <<>> /\ drain' = [drain EXCEPT !["flight"] = Begin(spool)]

(* writeSpoolLines swallows its error, and the file stays as it was.       *)
Writable(lines) == {lines} \cup (IF "disk" \in Env THEN {spool} ELSE {})

(* writeAuditRecord. Its retries have one outcome: stored or not, answered *)
(* or not.                                                                 *)
writeAuditRecord(e) ==
  /\ outcome[e] = "none"
  /\ \E a \in Answers(e) :
       /\ log' = Stored(e, a)
       /\ IF a[2]
            THEN /\ outcome' = [outcome EXCEPT ![e] = "db"]
                 /\ MayDrain
                 /\ UNCHANGED <<spool, dropped, exposed>>
            ELSE /\ \/ /\ \E lines \in Writable(Kept) : spool' = Append(lines, e)
                       /\ dropped' = dropped \cup (ToSet(spool) \ ToSet(Kept))
                       /\ outcome' = [outcome EXCEPT ![e] = "spool"]
                       /\ exposed' = IF \E d \in Drains : Running(d) THEN exposed \cup {e} ELSE exposed
                    \/ /\ "disk" \in Env
                       /\ outcome' = [outcome EXCEPT ![e] = "lost"]
                       /\ UNCHANGED <<spool, dropped, exposed>>
                 /\ UNCHANGED drain
  /\ UNCHANGED <<quarantine, head, crashes>>

-----------------------------------------------------------------------------
(* drainAuditSpool: one line sent, and what follows up to the next await.  *)
Line(d) == drain[d].lines[drain[d].at]
(* Mutant of Rest: the line that failed is not written back.              *)
RestNext(d) == Tail(SubSeq(drain[d].lines, drain[d].at, Len(drain[d].lines)))

Rest(d) == SubSeq(drain[d].lines, drain[d].at, Len(drain[d].lines))
IsLast(d) == drain[d].at = Len(drain[d].lines)

Failures(d) == IF head.line = Line(d) THEN head.failures + 1 ELSE 1

(* On to the next line; after the last one the file is removed.            *)
Advance(d) ==
  /\ spool' \in IF IsLast(d) THEN Writable(<<>>) ELSE {spool}
  /\ drain' = [drain EXCEPT ![d] = IF IsLast(d) THEN NoDrain ELSE [drain[d] EXCEPT !.at = @ + 1]]

DrainSent(d) ==
  /\ Running(d)
  /\ <<TRUE, TRUE>> \in Answers(Line(d))
  /\ log' = log \cup {Line(d)}
  /\ head' = NoHead
  /\ Advance(d)
  /\ UNCHANGED <<quarantine, outcome, dropped, crashes, exposed>>

(* quarantineLines swallows its error, too.                                *)
DrainPoisoned(d) ==
  /\ Running(d)
  /\ \E a \in Answers(Line(d)) : ~ a[2] /\ log' = Stored(Line(d), a)
  /\ Failures(d) >= MaxFailures
  /\ \/ quarantine' = quarantine \cup {Line(d)} /\ exposed' = exposed
     \/ "quarantine" \in Env /\ quarantine' = quarantine /\ exposed' = exposed \cup {Line(d)}
  /\ head' = NoHead
  /\ Advance(d)
  /\ UNCHANGED <<outcome, dropped, crashes>>

DrainStopped(d) ==
  /\ Running(d)
  /\ \E a \in Answers(Line(d)) : ~ a[2] /\ log' = Stored(Line(d), a)
  /\ Failures(d) < MaxFailures
  /\ head' = [line |-> Line(d), failures |-> Failures(d)]
  /\ spool' \in Writable(Rest(d))
  /\ drain' = [drain EXCEPT ![d] = NoDrain]
  /\ UNCHANGED <<quarantine, outcome, dropped, crashes, exposed>>

(* A restart: the boot drains at once, all that is in the spool.           *)
Restart ==
  /\ crashes < MaxCrashes
  /\ crashes' = crashes + 1
  /\ head' = NoHead
  /\ drain' = [d \in Drains |-> IF d = "boot" THEN Begin(spool) ELSE NoDrain]
  /\ exposed' = exposed \ ToSet(spool)
  /\ UNCHANGED <<log, spool, quarantine, outcome, dropped>>

Next ==
  \/ \E e \in Entries : writeAuditRecord(e)
  \/ \E d \in Drains : DrainSent(d) \/ DrainPoisoned(d) \/ DrainStopped(d)
  \/ Restart

Spec == Init /\ [][Next]_vars

-----------------------------------------------------------------------------
(* Properties *)

(* A record whose caller was told that it is durable, and whose loss to a  *)
(* full spool was not reported.                                            *)
Vanished(e) == outcome[e] \in {"db", "spool"} /\ e \notin log \cup ToSet(spool) \cup quarantine \cup dropped

(* auditSink.ts:2 "kein Audit-Eintrag verschwindet still".                 *)
DurableIsKept == \A e \in Entries : ~ Vanished(e)

(* Two drains at once, each with lines of its own moment, an overflow and  *)
(* restarts lose nothing: a record that vanishes was spooled while a drain *)
(* was under way that a restart did not end, or could not be quarantined.  *)
OnlyExposedVanish == \A e \in Entries : Vanished(e) => e \in exposed
=============================================================================
