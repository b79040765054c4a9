---------------------------- MODULE AuthSession ----------------------------
(***************************************************************************)
(* Browser sessions (authSession.ts): login, renewal, logout and the       *)
(* global cut, over the signed cookies a browser and its tabs may still    *)
(* hold, the file of single revocations and the cut in memory.             *)
(*                                                                         *)
(* A cookie is its payload; it cannot be made by anyone else. A session is *)
(* named by its csrf value. Time is counted in ticks; several steps may    *)
(* fall into one tick, as into one millisecond. The cut does not survive a *)
(* restart (stateRegistry.ts:62), the file does.                           *)
(***************************************************************************)
EXTENDS Integers, FiniteSets

CONSTANTS
  Sessions,      \* csrf values, one for each login
  Idle,          \* sessionIdleTtlMs
  MaxLife,       \* sessionMaxLifeMs
  Grace,         \* sessionGraceMs
  RenewWindow,   \* sessionRenewWindowS
  MinRemaining,  \* SESSION_RENEW_MIN_REMAINING_MS
  MaxTime,       \* bound: ticks
  MaxEpoch       \* bound: changes of the credential

VARIABLES
  now,
  cookies,  \* every payload ever signed
  file,     \* session-revocations.json: until when a csrf value is revoked
  cutoff,   \* sessionsRevokedBefore, -1 before the first
  epoch,    \* the credential a new session is bound to
  out       \* history: sessions logged out, and those cut since the start

vars == <<now, cookies, file, cutoff, epoch, out>>

Init ==
  /\ now = 0 /\ cookies = {} /\ cutoff = -1 /\ epoch = 0
  /\ file = [s \in Sessions |-> 0]
  /\ out = [logout |-> {}, cut |-> {}]

LesserOf(a, b) == IF a <= b THEN a ELSE b
GreaterOf(a, b) == IF a >= b THEN a ELSE b

-----------------------------------------------------------------------------
issueInstant == IF cutoff # -1 /\ now <= cutoff THEN cutoff + 1 ELSE now
maxIssuedAt == IF cutoff = -1 THEN now ELSE GreaterOf(now, cutoff + 1)

validPayload(c, grace) ==
  /\ c.iat <= maxIssuedAt
  /\ c.exp > now - grace /\ c.exp > c.iat
  /\ c.max > now /\ c.max >= c.exp /\ c.max - c.iat <= MaxLife

(* The file is read anew at each question, without what has expired.       *)
isSessionRevoked(c) ==
  \/ cutoff # -1 /\ c.iat <= cutoff
  \/ file[c.csrf] > now

sessionActor(c, grace) == validPayload(c, grace) /\ ~ isSessionRevoked(c) /\ c.epoch = epoch
readSession(c) == sessionActor(c, 0)

(* mintSession: the idle deadline never passes the absolute one, and a     *)
(* cookie that is over already is not signed.                              *)
Cookie(s, iat, base, max) == [csrf |-> s, iat |-> iat, exp |-> LesserOf(base + Idle, max), max |-> max, epoch |-> epoch]
mintSession(c) ==
  /\ c.max > c.iat /\ c.exp > now
  /\ cookies' = cookies \cup {c}

issueSession(s) ==
  /\ \A c \in cookies : c.csrf # s
  /\ mintSession(Cookie(s, issueInstant, issueInstant, issueInstant + MaxLife))
  /\ UNCHANGED <<now, file, cutoff, epoch, out>>

renewSession(c) ==
  /\ sessionActor(c, Grace)
  /\ c.exp - now <= RenewWindow
  /\ c.max - now >= MinRemaining
  /\ mintSession(Cookie(c.csrf, c.iat, now, c.max))
  /\ UNCHANGED <<now, file, cutoff, epoch, out>>

(* Mutant of Until: the entry ends with the cookie that logged out.        *)
UntilIdle(c) == c.exp

Until(c) == c.max

(* The logout route: only a session that is valid is revoked. What has     *)
(* expired leaves the file.                                                *)
revokeSession(c) ==
  /\ readSession(c)
  /\ file' = [s \in Sessions |->
                IF s = c.csrf THEN GreaterOf(Until(c), file[s])
                ELSE IF file[s] > now THEN file[s] ELSE 0]
  /\ out' = [out EXCEPT !.logout = @ \cup {c.csrf}]
  /\ UNCHANGED <<now, cookies, cutoff, epoch>>

Cut == IF cutoff = -1 THEN now ELSE GreaterOf(now, cutoff + 1)

revokeAllSessions ==
  /\ Cut <= MaxTime + 1
  /\ cutoff' = Cut
  /\ out' = [out EXCEPT !.cut = {c.csrf : c \in cookies}]
  /\ UNCHANGED <<now, cookies, file, epoch>>

-----------------------------------------------------------------------------
Tick == now < MaxTime /\ now' = now + 1 /\ UNCHANGED <<cookies, file, cutoff, epoch, out>>

(* A token is rotated: cookies of the old one are bound to nothing.        *)
Rotate == epoch < MaxEpoch /\ epoch' = epoch + 1 /\ UNCHANGED <<now, cookies, file, cutoff, out>>

(* A restart takes longer than the tick or two a cut is dated ahead.       *)
Restart ==
  /\ now > cutoff + 1
  /\ cutoff' = -1
  /\ out' = [out EXCEPT !.cut = {}]
  /\ UNCHANGED <<now, cookies, file, epoch>>

Next ==
  \/ \E s \in Sessions : issueSession(s)
  \/ \E c \in cookies : renewSession(c) \/ revokeSession(c)
  \/ revokeAllSessions \/ Tick \/ Rotate \/ Restart

Spec == Init /\ [][Next]_vars

-----------------------------------------------------------------------------
(* Properties *)

(* A session that logged out, or that existed when all were cut and no     *)
(* restart has come since, gets no right again: not through an older or a  *)
(* younger cookie of it, not through a renewal in its grace period, and    *)
(* not by the clock (SEC-08). A log out stands through restarts, too; the  *)
(* cut of all sessions is memory of the process, which a restart empties.  *)
RevokedStaysOut ==
  \A c \in cookies : c.csrf \in out.logout \cup out.cut => ~ sessionActor(c, Grace)
=============================================================================
