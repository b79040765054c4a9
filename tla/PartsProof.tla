----------------------------- MODULE PartsProof -----------------------------
(***************************************************************************)
(* What the run of the parts checks, proved of SumSpec for every value of  *)
(* the constants: sessions, the strategy lifecycle, the audit sink, the    *)
(* copy engine, the screening run, the caches and daily limit of the rules,*)
(* and the planner. Each part has an inductive invariant of its own; the   *)
(* other parts leave it alone, since no step of SumSpec changes the part   *)
(* that a behaviour is about.                                              *)
(***************************************************************************)
EXTENDS Parts, TwapPlanProof, FiniteSetTheorems

-----------------------------------------------------------------------------
(* Sessions: x1 the clock, x2 the cookies, x3 the file of revocations, x4  *)
(* the cut, x5 the epoch, x6 who was logged out or cut.                    *)
(* All cookies of a session share its birth and its absolute end, since a  *)
(* renewal keeps both. The file's entry of a session that logged out lasts *)
(* until that end, and whoever existed at the cut was born before it: no   *)
(* cookie is dated later than one tick after the latest cut, and a restart *)
(* that forgets the cut also forgets who was cut.                          *)
Payloads == [csrf : Sessions, iat : Int, exp : Int, max : Int, epoch : Int]

SessionTyped ==
  /\ x1 \in Nat /\ x4 \in Int /\ x5 \in Int
  /\ x2 \subseteq Payloads
  /\ x3 \in [Sessions -> Int]
  /\ x6 \in [logout : SUBSET Sessions, cut : SUBSET Sessions]

(* Cookies of one session differ only in their idle end.                   *)
OneLife == \A c, d \in x2 : c.csrf = d.csrf => c.iat = d.iat /\ c.max = d.max

(* No cookie is dated later than the clock, or the tick behind the cut.    *)
Dated == \A c \in x2 : c.iat <= x1 \/ (x4 # -1 /\ c.iat <= x4 + 1)

(* Only sessions that exist were logged out or cut.                        *)
KnownSessions == \A s \in x6.logout \cup x6.cut : \E c \in x2 : c.csrf = s

LoggedOut(c) == c.csrf \in x6.logout => c.max <= x3[c.csrf] \/ c.max <= x1
WasCut(c) == c.csrf \in x6.cut => x4 # -1 /\ c.iat <= x4
Barred == \A c \in x2 : LoggedOut(c) /\ WasCut(c)

SessionInv == SessionTyped /\ OneLife /\ Dated /\ KnownSessions /\ Barred

(* What the invariant says of a session that was revoked.                  *)
LEMMA SessionSafe == SessionInv => Session!RevokedStaysOut
<1> SUFFICES ASSUME SessionInv, NEW c \in x2, c.csrf \in x6.logout \cup x6.cut, Session!sessionActor(c, Grace)
             PROVE  FALSE
  BY DEF Session!RevokedStaysOut
<1>1. c.max > x1 /\ ~ (x3[c.csrf] > x1) /\ ~ (x4 # -1 /\ c.iat <= x4)
  BY DEF Session!sessionActor, Session!validPayload, Session!isSessionRevoked
<1>2. LoggedOut(c) /\ WasCut(c)
  BY DEF SessionInv, Barred
<1>3. c.max \in Int /\ c.csrf \in Sessions /\ x3[c.csrf] \in Int /\ x1 \in Int
  BY DEF SessionInv, SessionTyped, Payloads
<1> QED BY <1>1, <1>2, <1>3 DEF LoggedOut, WasCut

LEMMA SessionInit == Session!Init => SessionInv
  BY DEF Session!Init, SessionInv, SessionTyped, OneLife, Dated, KnownSessions, Barred

(* What a cookie signed for a session with this birth and end looks like.  *)
LEMMA PayloadType ==
  ASSUME IdleTtl \in Int, x5 \in Int, NEW s \in Sessions, NEW i \in Int, NEW b \in Int, NEW m \in Int
  PROVE  /\ Session!Cookie(s, i, b, m) \in Payloads
         /\ Session!Cookie(s, i, b, m).csrf = s /\ Session!Cookie(s, i, b, m).iat = i /\ Session!Cookie(s, i, b, m).max = m
  BY DEF Session!Cookie, Payloads, Session!LesserOf

(* One lemma for each operation of the sessions.                           *)
LEMMA SessionIssue ==
  ASSUME IdleTtl \in Int, MaxLife \in Int, SessionInv, NEW s \in Sessions, Session!issueSession(s)
  PROVE  SessionInv'
<1> DEFINE i == Session!issueInstant
           k == Session!Cookie(s, i, i, i + MaxLife)
<1>1. i \in Int /\ (i <= x1 \/ (x4 # -1 /\ i <= x4 + 1))
  BY DEF Session!issueInstant, SessionInv, SessionTyped
<1>2. k \in Payloads /\ k.csrf = s /\ k.iat = i
  BY <1>1, PayloadType DEF SessionInv, SessionTyped
<1>3. x2' = x2 \cup {k} /\ UNCHANGED <<x1, x3, x4, x5, x6>> /\ \A c \in x2 : c.csrf # s
  BY DEF Session!issueSession, Session!mintSession
<1> HIDE DEF i, k
<1>4. s \notin x6.logout \cup x6.cut
  BY <1>3 DEF SessionInv, KnownSessions
<1>5. SessionTyped' /\ OneLife'
  BY <1>2, <1>3 DEF SessionInv, SessionTyped, OneLife
<1>6. Dated' /\ KnownSessions'
  BY <1>1, <1>2, <1>3 DEF SessionInv, Dated, KnownSessions
<1>7. Barred'
  BY <1>2, <1>3, <1>4 DEF SessionInv, Barred, LoggedOut, WasCut
<1> QED BY <1>5, <1>6, <1>7 DEF SessionInv

LEMMA SessionRenew ==
  ASSUME IdleTtl \in Int, SessionInv, NEW c \in x2, Session!renewSession(c)
  PROVE  SessionInv'
<1> DEFINE k == Session!Cookie(c.csrf, c.iat, x1, c.max)
<1>1. c \in Payloads /\ c.csrf \in Sessions /\ c.iat \in Int /\ c.max \in Int /\ x1 \in Int
  BY DEF SessionInv, SessionTyped, Payloads
<1>2. k \in Payloads /\ k.csrf = c.csrf /\ k.iat = c.iat /\ k.max = c.max
  BY <1>1, PayloadType DEF SessionInv, SessionTyped
<1>3. x2' = x2 \cup {k} /\ UNCHANGED <<x1, x3, x4, x5, x6>>
  BY DEF Session!renewSession, Session!mintSession
<1> HIDE DEF k
<1>4. SessionTyped'
  BY <1>2, <1>3 DEF SessionInv, SessionTyped
<1>5. OneLife'
  BY <1>2, <1>3 DEF SessionInv, OneLife
<1>6. Dated' /\ KnownSessions'
  BY <1>2, <1>3 DEF SessionInv, Dated, KnownSessions
<1>7. Barred'
  BY <1>2, <1>3 DEF SessionInv, Barred, LoggedOut, WasCut
<1> QED BY <1>4, <1>5, <1>6, <1>7 DEF SessionInv

LEMMA SessionRevoke ==
  ASSUME SessionInv, NEW c \in x2, Session!revokeSession(c)
  PROVE  SessionInv'
<1> DEFINE entry(s) == IF s = c.csrf THEN Session!GreaterOf(Session!Until(c), x3[s]) ELSE IF x3[s] > x1 THEN x3[s] ELSE 0
<1>1. c.csrf \in Sessions /\ c.max \in Int /\ x1 \in Int /\ \A s \in Sessions : x3[s] \in Int
  BY DEF SessionInv, SessionTyped, Payloads
<1>2. /\ x3' = [s \in Sessions |-> entry(s)]
      /\ x6' = [x6 EXCEPT !.logout = @ \cup {c.csrf}]
      /\ UNCHANGED <<x1, x2, x4, x5>>
  BY DEF Session!revokeSession
<1>3. \A s \in Sessions : entry(s) \in Int /\ (x3[s] > x1 => entry(s) >= x3[s])
  BY <1>1 DEF Session!GreaterOf, Session!Until
<1>4. entry(c.csrf) >= c.max
  BY <1>1 DEF Session!GreaterOf, Session!Until
<1> HIDE DEF entry
<1>5. x3' \in [Sessions -> Int] /\ \A s \in Sessions : x3'[s] = entry(s)
  BY <1>2, <1>3
<1>6. /\ x6' \in [logout : SUBSET Sessions, cut : SUBSET Sessions]
      /\ x6'.cut = x6.cut /\ x6'.logout = x6.logout \cup {c.csrf}
  BY <1>1, <1>2 DEF SessionInv, SessionTyped
<1>7. SessionTyped' /\ OneLife' /\ Dated' /\ KnownSessions'
  BY <1>2, <1>5, <1>6 DEF SessionInv, SessionTyped, OneLife, Dated, KnownSessions
<1>8. ASSUME NEW d \in x2 PROVE LoggedOut(d)' /\ WasCut(d)'
  <2>1. d.csrf \in Sessions /\ d.max \in Int
    BY DEF SessionInv, SessionTyped, Payloads
  <2>2. LoggedOut(d) /\ WasCut(d)
    BY DEF SessionInv, Barred
  <2>3. WasCut(d)'
    BY <1>2, <1>6, <2>2 DEF WasCut
  <2>4. CASE d.csrf = c.csrf
    <3>1. d.max = c.max
      BY <2>4 DEF SessionInv, OneLife
    <3> QED BY <1>4, <1>5, <2>1, <2>3, <2>4, <3>1 DEF LoggedOut
  <2>5. CASE d.csrf # c.csrf
    BY <1>1, <1>2, <1>3, <1>5, <1>6, <2>1, <2>2, <2>3, <2>5 DEF LoggedOut
  <2> QED BY <2>4, <2>5
<1> QED BY <1>2, <1>7, <1>8 DEF SessionInv, Barred

LEMMA SessionCut == ASSUME SessionInv, Session!revokeAllSessions PROVE SessionInv'
<1>1. /\ x4' = Session!Cut /\ x6' = [x6 EXCEPT !.cut = {c.csrf : c \in x2}]
      /\ UNCHANGED <<x1, x2, x3, x5>>
  BY DEF Session!revokeAllSessions
<1>2. x1 \in Nat /\ x4 \in Int /\ \A c \in x2 : c.iat \in Int /\ c.csrf \in Sessions
  BY DEF SessionInv, SessionTyped, Payloads
<1>3. Session!Cut \in Int /\ Session!Cut >= x1 /\ Session!Cut # -1 /\ (x4 # -1 => Session!Cut >= x4 + 1)
  BY <1>2 DEF Session!Cut, Session!GreaterOf
<1>4. \A c \in x2 : c.iat <= Session!Cut
  BY <1>2, <1>3 DEF SessionInv, Dated
<1>5. /\ x6' \in [logout : SUBSET Sessions, cut : SUBSET Sessions]
      /\ x6'.logout = x6.logout /\ x6'.cut = {c.csrf : c \in x2}
  BY <1>1, <1>2 DEF SessionInv, SessionTyped
<1>6. SessionTyped' /\ OneLife'
  BY <1>1, <1>3, <1>5 DEF SessionInv, SessionTyped, OneLife
<1>7. Dated'
  BY <1>1, <1>2, <1>3, <1>4 DEF Dated
<1>8. KnownSessions'
  BY <1>1, <1>5 DEF SessionInv, KnownSessions
<1>9. Barred'
  BY <1>1, <1>3, <1>4, <1>5 DEF SessionInv, Barred, LoggedOut, WasCut
<1> QED BY <1>6, <1>7, <1>8, <1>9 DEF SessionInv

LEMMA SessionTick == ASSUME SessionInv, Session!Tick PROVE SessionInv'
<1>1. x1' = x1 + 1 /\ x1 \in Nat /\ UNCHANGED <<x2, x3, x4, x5, x6>>
  BY DEF Session!Tick, SessionInv, SessionTyped
<1>2. \A c \in x2 : c.iat \in Int /\ c.max \in Int
  BY DEF SessionInv, SessionTyped, Payloads
<1>3. SessionTyped' /\ OneLife' /\ KnownSessions'
  BY <1>1 DEF SessionInv, SessionTyped, OneLife, KnownSessions
<1>4. Dated'
  BY <1>1, <1>2 DEF SessionInv, Dated
<1>5. Barred'
  BY <1>1, <1>2 DEF SessionInv, Barred, LoggedOut, WasCut
<1> QED BY <1>3, <1>4, <1>5 DEF SessionInv

LEMMA SessionRotate == ASSUME SessionInv, Session!Rotate PROVE SessionInv'
  BY DEF Session!Rotate, SessionInv, SessionTyped, OneLife, Dated, KnownSessions, Barred, LoggedOut, WasCut

LEMMA SessionRestart == ASSUME SessionInv, Session!Restart PROVE SessionInv'
<1>1. x4' = -1 /\ x1 > x4 + 1 /\ x6' = [x6 EXCEPT !.cut = {}] /\ UNCHANGED <<x1, x2, x3, x5>>
  BY DEF Session!Restart
<1>2. /\ x6' \in [logout : SUBSET Sessions, cut : SUBSET Sessions]
      /\ x6'.logout = x6.logout /\ x6'.cut = {}
  BY <1>1 DEF SessionInv, SessionTyped
<1>3. SessionTyped' /\ OneLife' /\ KnownSessions'
  BY <1>1, <1>2 DEF SessionInv, SessionTyped, OneLife, KnownSessions
<1>4. \A c \in x2 : c.iat \in Int /\ x1 \in Int /\ x4 \in Int
  BY DEF SessionInv, SessionTyped, Payloads
<1>5. Dated'
  BY <1>1, <1>4 DEF SessionInv, Dated
<1>6. Barred'
  BY <1>1, <1>2 DEF SessionInv, Barred, LoggedOut, WasCut
<1> QED BY <1>3, <1>5, <1>6 DEF SessionInv

(* Every step of the sessions keeps the invariant.                         *)
LEMMA SessionStep == ASSUME IdleTtl \in Int, MaxLife \in Int, SessionInv, Session!Next PROVE SessionInv'
<1>1. CASE \E s \in Sessions : Session!issueSession(s)
  BY <1>1, SessionIssue
<1>2. CASE \E c \in x2 : Session!renewSession(c) \/ Session!revokeSession(c)
  BY <1>2, SessionRenew, SessionRevoke
<1>3. CASE Session!revokeAllSessions \/ Session!Tick
  BY <1>3, SessionCut, SessionTick
<1>4. CASE Session!Rotate \/ Session!Restart
  BY <1>4, SessionRotate, SessionRestart
<1> QED BY <1>1, <1>2, <1>3, <1>4 DEF Session!Next

(* A session that logged out is never accepted or renewed again, and one   *)
(* that was there when all were cut not before the process restarts and    *)
(* forgets the cut (revokeSession, revokeAllSessions and renewSession of   *)
(* authSession.ts), whatever the lifetimes are.                            *)
THEOREM RevokedSessionsStayOut ==
  ASSUME IdleTtl \in Int, MaxLife \in Int
  PROVE  SumSpec => []RevokedStaysOut
<1> DEFINE Inv == part = "session" => SessionInv
<1>1. SumInit => Inv
  BY SessionInit DEF SumInit
<1>2. Inv /\ [SumNext]_all => Inv'
  <2>1. CASE UNCHANGED all
    BY <2>1 DEF all, xs, SessionInv, SessionTyped, OneLife, Dated, KnownSessions, Barred, LoggedOut, WasCut
  <2>2. CASE SumNext
    <3> SUFFICES ASSUME Inv, part' = "session" PROVE SessionInv'
      OBVIOUS
    <3>1. part = "session" /\ Session!Next
      BY <2>2 DEF SumNext, OfFirm, OfExec, Other
    <3> QED BY <3>1, SessionStep
  <2> QED BY <2>1, <2>2
<1>3. Inv => RevokedStaysOut
  BY SessionSafe DEF RevokedStaysOut
<1> QED BY <1>1, <1>2, <1>3, PTL DEF SumSpec, SumSafe

-----------------------------------------------------------------------------
(* The strategy lifecycle: x1 the row, x3 the drift check under way, x4    *)
(* the time, x5 the history.                                               *)
LifeStates == {"DRAFT", "BACKTEST_PENDING", "BACKTEST_PASSED", "PAPER", "LIVE_LIMITED", "LIVE", "DEGRADED",
               "PAUSED", "REJECTED"}

(* Every degradation sets the cooldown and nothing takes it back; a        *)
(* version comes to live from below only when it is over. A drift check    *)
(* that read LIVE finds it still, or a cooldown that outlasts the check.   *)
LifeInv ==
  /\ x4 \in Int /\ x1.cool \in Int /\ x5.fell \in Int
  /\ x1.state \in LifeStates /\ x3.to \in {"none", "PAUSED", "DEGRADED", "LIVE_LIMITED"}
  /\ x5.by = "drift" => x5.from \in LifeStates
  /\ x1.cool = x5.fell + Cooldown
  /\ x1.state \in Life!Live /\ x5.from \notin Life!Live => x4 >= x1.cool
  /\ x3.to = "LIVE_LIMITED" => x1.state = "LIVE" \/ x1.cool > x4
  /\ Life!DriftOnlyLowers

(* The table: what cools into live starts there, LIVE is only left by an   *)
(* edge that cools, and of those a drift check may take into live one      *)
(* starts from PAPER.                                                      *)
LEMMA TableOfStates ==
  ASSUME NEW e \in Life!Edges
  PROVE  /\ e.from \in LifeStates /\ e.to \in LifeStates /\ e.cools \in BOOLEAN
         /\ e.cools /\ e.to \in Life!Live => e.from = "LIVE"
         /\ e.from = "LIVE" => e.cools /\ e.to # "LIVE"
         /\ e.drifts /\ e.to = "LIVE_LIMITED" => e.from \in {"PAPER", "LIVE"}
<1> DEFINE Fits(x) ==
      /\ x.from \in LifeStates /\ x.to \in LifeStates /\ x.cools \in BOOLEAN
      /\ x.cools /\ x.to \in Life!Live => x.from = "LIVE"
      /\ x.from = "LIVE" => x.cools /\ x.to # "LIVE"
      /\ x.drifts /\ x.to = "LIVE_LIMITED" => x.from \in {"PAPER", "LIVE"}
<1>1. ASSUME NEW from \in LifeStates, NEW to \in LifeStates, NEW kinds, from # "LIVE"
      PROVE  Fits(Life!Plain(from, to, kinds))
  BY <1>1 DEF Life!Plain, Life!Edge
<1>2. ASSUME NEW from \in LifeStates, NEW to \in LifeStates, to # "LIVE", to = "LIVE_LIMITED" => from = "LIVE"
      PROVE  Fits(Life!Down(from, to))
  BY <1>2 DEF Life!Down, Life!Edge, Life!Live
<1>3. ASSUME NEW from \in LifeStates, NEW to \in LifeStates, from # "LIVE"
      PROVE  Fits(Life!Recovery(from, to))
  BY <1>3 DEF Life!Recovery, Life!Edge
<1>4. Fits(Life!Edge("PAPER", "LIVE_LIMITED", {"BACKTEST_RUN", "PAPER_WINDOW"}, FALSE, FALSE, TRUE))
      /\ Fits(Life!Edge("PAPER", "REJECTED", {}, FALSE, FALSE, TRUE))
  BY DEF Life!Edge, LifeStates
<1> HIDE DEF Fits
<1>5. Fits(e)
  <2>1. \/ \E from, to \in LifeStates \ {"LIVE"} : \E kinds : e = Life!Plain(from, to, kinds)
        \/ \E from \in LifeStates, to \in {"PAUSED", "DEGRADED"} : e = Life!Down(from, to)
        \/ e = Life!Down("LIVE", "LIVE_LIMITED")
        \/ \E from, to \in LifeStates \ {"LIVE"} : e = Life!Recovery(from, to)
        \/ e = Life!Plain("LIVE_LIMITED", "LIVE", {"PAPER_WINDOW", "DRIFT"})
        \/ e = Life!Edge("PAPER", "LIVE_LIMITED", {"BACKTEST_RUN", "PAPER_WINDOW"}, FALSE, FALSE, TRUE)
        \/ e = Life!Edge("PAPER", "REJECTED", {}, FALSE, FALSE, TRUE)
    BY DEF Life!Edges, LifeStates
  <2>2. \A from, to \in LifeStates : \A kinds : from # "LIVE" => Fits(Life!Plain(from, to, kinds))
    BY <1>1, Zenon
  <2>3. \A from \in LifeStates, to \in {"PAUSED", "DEGRADED"} : Fits(Life!Down(from, to))
    <3>1. {"PAUSED", "DEGRADED"} \subseteq LifeStates
      BY DEF LifeStates
    <3> QED BY <1>2, <3>1
  <2>4. Fits(Life!Down("LIVE", "LIVE_LIMITED"))
    BY <1>2 DEF LifeStates
  <2>5. Fits(Life!Plain("LIVE_LIMITED", "LIVE", {"PAPER_WINDOW", "DRIFT"}))
    BY <1>1 DEF LifeStates
  <2>6. \A from, to \in LifeStates \ {"LIVE"} : Fits(Life!Recovery(from, to))
    BY <1>3
  <2> QED BY <1>4, <2>1, <2>2, <2>3, <2>4, <2>5, <2>6
<1> QED BY <1>5 DEF Fits

(* A move of the state machine keeps what the history says.                *)
LEMMA LifeMove ==
  ASSUME LifeInv, Cooldown \in Nat \ {0}, NEW e \in Life!Edges, NEW ev, NEW by \in {"caller", "drift"},
         Life!Move(e, ev, by), x4' = x4, by = "drift" => e.to = x3.to,
         x3' = x3 \/ x3' = [read |-> "none", to |-> "none"]
  PROVE  LifeInv'
<1> DEFINE nrow == x1'
           nhist == x5'
<1>1. /\ nrow.state = e.to /\ nhist.from = x1.state /\ nhist.by = by /\ e.from = x1.state
      /\ nrow.cool = (IF e.cools THEN x4 + Cooldown ELSE x1.cool)
      /\ nhist.fell = (IF e.cools THEN x4 ELSE x5.fell)
  BY DEF Life!Move, Life!CooldownAfter
<1>2. by = "drift" => e.drifts
  BY DEF Life!Move
<1>3. e.to \in Life!Live => x1.cool <= x4
  BY DEF Life!Move, Life!Barred, LifeInv, Life!Promoting
<1>4. /\ e.from \in LifeStates /\ e.to \in LifeStates /\ e.cools \in BOOLEAN
      /\ e.cools /\ e.to \in Life!Live => e.from = "LIVE"
      /\ e.from = "LIVE" => e.cools /\ e.to # "LIVE"
      /\ e.drifts /\ e.to = "LIVE_LIMITED" => e.from \in {"PAPER", "LIVE"}
  BY TableOfStates
<1>5. /\ x4 \in Int /\ x1.cool \in Int /\ x5.fell \in Int /\ Cooldown \in Nat /\ Cooldown > 0
      /\ x1.cool = x5.fell + Cooldown
  BY DEF LifeInv
<1> HIDE DEF nrow, nhist
<1>6. x4' \in Int /\ nrow.cool \in Int /\ nhist.fell \in Int /\ nrow.cool = nhist.fell + Cooldown
  BY <1>1, <1>4, <1>5
<1>7. nrow.state \in Life!Live /\ nhist.from \notin Life!Live => x4 >= nrow.cool
  BY <1>1, <1>3, <1>4, <1>5 DEF Life!Live
<1>8. x3'.to \in {"none", "PAUSED", "DEGRADED", "LIVE_LIMITED"} /\ (x3'.to = "LIVE_LIMITED" => x3.to = "LIVE_LIMITED")
  BY DEF LifeInv
<1>9. x3'.to = "LIVE_LIMITED" => nrow.cool > x4
  BY <1>1, <1>4, <1>5, <1>8 DEF LifeInv
<1>10. by = "drift" => Life!Rank(nrow.state) <= Life!Rank(nhist.from)
  <2> SUFFICES ASSUME by = "drift" PROVE Life!Rank(e.to) <= Life!Rank(e.from)
    BY <1>1
  <2>1. CASE e.to \in {"PAUSED", "DEGRADED"}
    BY <1>4, <2>1 DEF Life!Rank, LifeStates
  <2>2. CASE e.to = "LIVE_LIMITED"
    <3>1. e.from = "LIVE"
      BY <1>1, <1>2, <1>3, <1>4, <1>5, <2>2 DEF LifeInv, Life!Live
    <3> QED BY <2>2, <3>1 DEF Life!Rank
  <2>3. e.to # "none"
    BY <1>4 DEF LifeStates
  <2> QED BY <2>1, <2>2, <2>3 DEF LifeInv
<1> QED BY <1>1, <1>4, <1>6, <1>7, <1>8, <1>9, <1>10 DEF LifeInv, Life!DriftOnlyLowers, nrow, nhist

(* Every step of the lifecycle keeps the invariant.                        *)
LEMMA LifeStep == ASSUME LifeInv, Cooldown \in Nat \ {0}, Life!Next PROVE LifeInv'
<1>1. CASE Life!requestTransition
  <2>1. PICK e \in Life!Edges, ev \in x2 \cup {Life!NoEvidence} : Life!Move(e, ev, "caller")
    BY <1>1 DEF Life!requestTransition
  <2> QED BY <1>1, <2>1, LifeMove DEF Life!requestTransition
<1>2. CASE Life!recordEvidence
  BY <1>2 DEF Life!recordEvidence, LifeInv, Life!DriftOnlyLowers
<1>3. CASE Life!ReadForDrift
  <2>1. x3'.to \in {"PAUSED", "DEGRADED", "LIVE_LIMITED"} /\ (x3'.to = "LIVE_LIMITED" => x1.state = "LIVE")
    BY <1>3 DEF Life!ReadForDrift, Life!Target
  <2> QED BY <1>3, <2>1 DEF Life!ReadForDrift, LifeInv, Life!DriftOnlyLowers
<1>4. CASE Life!Degrade
  <2>1. x3' = [read |-> "none", to |-> "none"] /\ x4' = x4
    BY <1>4 DEF Life!Degrade, Life!None
  <2>2. CASE UNCHANGED <<x1, x5>>
    BY <2>1, <2>2 DEF LifeInv, Life!DriftOnlyLowers
  <2>3. CASE \E e \in Life!Edges : e.to = x3.to /\ Life!Move(e, Life!NoEvidence, "drift")
    BY <2>1, <2>3, LifeMove
  <2> QED BY <1>4, <2>2, <2>3 DEF Life!Degrade
<1>5. CASE Life!Tick
  BY <1>5 DEF Life!Tick, LifeInv, Life!DriftOnlyLowers, Life!None
<1> QED BY <1>1, <1>2, <1>3, <1>4, <1>5 DEF Life!Next

(* The invariant holds in every behaviour of the part.                     *)
LEMMA LifeCycle == ASSUME Cooldown \in Nat \ {0} PROVE SumSafe => [](part = "life" => LifeInv)
<1> DEFINE Inv == part = "life" => LifeInv
<1>1. SumInit => Inv
  BY DEF SumInit, Life!Init, LifeInv, Life!Live, Life!DriftOnlyLowers, Life!None, LifeStates
<1>2. Inv /\ [SumNext]_all => Inv'
  <2>1. CASE UNCHANGED all
    BY <2>1 DEF all, xs, LifeInv, Life!DriftOnlyLowers
  <2>2. CASE SumNext
    <3> SUFFICES ASSUME Inv, part' = "life" PROVE LifeInv'
      OBVIOUS
    <3>1. part = "life" /\ Life!Next
      BY <2>2 DEF SumNext, OfFirm, OfExec, Other
    <3> QED BY <3>1, LifeStep
  <2> QED BY <2>1, <2>2
<1> QED BY <1>1, <1>2, PTL DEF SumSafe

(* While the cooldown of the last degradation runs, a version does not     *)
(* come to live from below and no order of it passes, whatever sequence of *)
(* transitions, evidence and drift checks (requestTransition, the gate).   *)
THEOREM CooldownIsKept == ASSUME Cooldown \in Nat \ {0} PROVE SumSpec => []CooldownHolds
<1>1. (part = "life" => LifeInv) => CooldownHolds
  BY DEF LifeInv, CooldownHolds, Life!CooldownHolds, Life!orderAllowed, Life!Calm
<1> QED BY <1>1, LifeCycle, PTL DEF SumSpec

(* A drift check never brings a version nearer to live, though it acts on  *)
(* a state that may have moved since it was read (checkAndDegrade).        *)
THEOREM DriftLowers == ASSUME Cooldown \in Nat \ {0} PROVE SumSpec => []DriftOnlyLowers
<1>1. (part = "life" => LifeInv) => DriftOnlyLowers
  BY DEF LifeInv, DriftOnlyLowers
<1> QED BY <1>1, LifeCycle, PTL DEF SumSpec

-----------------------------------------------------------------------------
(* The durable audit sink: x1 the log, x2 the spool, x3 the quarantine,    *)
(* x4 the drains, x6 the outcomes, x7 what was dropped with a report, x9   *)
(* what was exposed.                                                       *)
Members(s) == {s[i] : i \in 1 .. Len(s)}
Handled == x1 \cup x3 \cup x7 \cup x9

(* What a drain has passed was handled; and but for what was handled, it   *)
(* has the lines that are in the spool, since what is spooled meanwhile is *)
(* exposed and another drain only takes away what it has handled itself.   *)
DrainOK(d) ==
  /\ x4[d].at \in 1 .. Len(x4[d].lines)
  /\ \A i \in 1 .. (x4[d].at - 1) : x4[d].lines[i] \in Handled
  /\ Members(x4[d].lines) \subseteq Members(x2) \cup Handled
  /\ Members(x2) \subseteq Members(x4[d].lines) \cup Handled

SinkInv ==
  /\ x2 \in Seq(Entries) /\ x4 \in [Sink!Drains -> [lines : Seq(Entries), at : Nat]]
  /\ DOMAIN x6 = Entries
  /\ \A d \in Sink!Drains : x4[d] # Sink!NoDrain => DrainOK(d)
  /\ \A e \in Entries : x6[e] \in {"db", "spool"} => e \in Handled \cup Members(x2)

(* The entries of the log and of the spool, as sets.                       *)
LEMMA MembersIs == ASSUME NEW s \in Seq(Entries) PROVE Sink!ToSet(s) = Members(s)
  BY DEF Sink!ToSet, Members

LEMMA MembersOfTail ==
  ASSUME NEW s \in Seq(Entries), NEW k \in 1 .. Len(s)
  PROVE  /\ SubSeq(s, k, Len(s)) \in Seq(Entries)
         /\ Members(SubSeq(s, k, Len(s))) = {s[i] : i \in k .. Len(s)}
<1> DEFINE t == SubSeq(s, k, Len(s))
<1>1. t \in Seq(Entries) /\ Len(t) = Len(s) - k + 1 /\ \A i \in 1 .. Len(t) : t[i] = s[k + i - 1]
  OBVIOUS
<1> HIDE DEF t
<1>2. ASSUME NEW i \in k .. Len(s) PROVE s[i] \in Members(t)
  <2>1. i - k + 1 \in 1 .. Len(t) /\ t[i - k + 1] = s[i]
    BY <1>1
  <2> QED BY <2>1 DEF Members
<1>3. Members(t) \subseteq {s[i] : i \in k .. Len(s)}
  <2> SUFFICES ASSUME NEW j \in 1 .. Len(t) PROVE t[j] \in {s[i] : i \in k .. Len(s)}
    BY DEF Members
  <2>1. k + j - 1 \in k .. Len(s) /\ t[j] = s[k + j - 1]
    BY <1>1
  <2> QED BY <2>1
<1>4. Members(t) = {s[i] : i \in k .. Len(s)}
  BY <1>2, <1>3
<1> QED BY <1>1, <1>4 DEF t

LEMMA MembersOfAppend ==
  ASSUME NEW s \in Seq(Entries), NEW e \in Entries
  PROVE  Append(s, e) \in Seq(Entries) /\ Members(Append(s, e)) = Members(s) \cup {e}
<1> DEFINE t == Append(s, e)
<1>1. t \in Seq(Entries) /\ Len(t) = Len(s) + 1 /\ \A i \in 1 .. Len(t) : t[i] = IF i = Len(s) + 1 THEN e ELSE s[i]
  OBVIOUS
<1>2. Len(s) \in Nat
  OBVIOUS
<1> HIDE DEF t
<1>3. Members(t) = Members(s) \cup {e}
  <2>1. \A i \in 1 .. Len(t) : t[i] \in Members(s) \cup {e}
    BY <1>1, <1>2 DEF Members
  <2>2. \A i \in 1 .. Len(s) : s[i] \in Members(t)
    BY <1>1, <1>2 DEF Members
  <2>3. Len(t) \in 1 .. Len(t) /\ t[Len(t)] = e
    BY <1>1, <1>2
  <2> QED BY <2>1, <2>2, <2>3 DEF Members
<1> QED BY <1>1, <1>3 DEF t

(* A drain under way is untouched by what only gets more handled.          *)
LEMMA DrainStays ==
  ASSUME NEW d, DrainOK(d), x4'[d] = x4[d], x2' = x2, Handled \subseteq Handled'
  PROVE  DrainOK(d)'
  BY DEF DrainOK

(* A drain starts from what the spool holds.                               *)
LEMMA DrainBegins ==
  ASSUME x2 \in Seq(Entries), x2 # <<>>, NEW d, x4'[d] = [lines |-> x2, at |-> 1], x2' = x2
  PROVE  DrainOK(d)' /\ [lines |-> x2, at |-> 1] \in [lines : Seq(Entries), at : Nat]
<1>1. 1 \in 1 .. Len(x2)
  OBVIOUS
<1> QED BY <1>1 DEF DrainOK

LEMMA SpoolKept ==
  ASSUME x2 \in Seq(Entries), SpoolMax \in Nat
  PROVE  Sink!Kept \in Seq(Entries)
  BY DEF Sink!Kept

LEMMA KeptIsOld ==
  ASSUME x2 \in Seq(Entries), SpoolMax \in Nat
  PROVE  Members(Sink!Kept) \subseteq Members(x2)
<1> DEFINE n == Len(x2)
           k == n - SpoolMax + 2
           t == SubSeq(x2, k, n)
<1>1. n \in Nat
  OBVIOUS
<1>2. CASE n < SpoolMax
  BY <1>1, <1>2 DEF Sink!Kept
<1>3. CASE n >= SpoolMax
  <2>1. Sink!Kept = t /\ k \in Int /\ k >= 2
    BY <1>1, <1>3 DEF Sink!Kept
  <2>2. Len(t) \in Nat /\ \A i \in 1 .. Len(t) : k + i - 1 \in 1 .. n /\ t[i] = x2[k + i - 1]
    BY <1>1, <2>1
  <2> HIDE DEF t, k
  <2>3. \A i \in 1 .. Len(t) : t[i] \in Members(x2)
    BY <2>2 DEF Members
  <2> QED BY <2>1, <2>3 DEF Members
<1> QED BY <1>1, <1>2, <1>3

(* A step that leaves the spool and the drains alone.                      *)
LEMMA SinkRests ==
  ASSUME SinkInv, UNCHANGED <<x2, x4>>, Handled \subseteq Handled', DOMAIN x6' = Entries,
         \A e \in Entries : x6'[e] \in {"db", "spool"} => x6[e] \in {"db", "spool"} \/ e \in Handled'
  PROVE  SinkInv'
<1>1. \A d \in Sink!Drains : x4'[d] # Sink!NoDrain => DrainOK(d)'
  BY DrainStays DEF SinkInv
<1> QED BY <1>1 DEF SinkInv

(* A write that is acknowledged puts its entry somewhere.                  *)
LEMMA StoredIsKept ==
  ASSUME NEW e, NEW a \in Sink!Answers(e), x1' = Sink!Stored(e, a)
  PROVE  x1 \subseteq x1' /\ (a[2] => e \in x1')
<1>1. a = <<TRUE, TRUE>> \/ a = <<TRUE, FALSE>> \/ a = <<FALSE, FALSE>>
  BY DEF Sink!Answers
<1>2. a[2] => a[1]
  <2>1. CASE a = <<TRUE, TRUE>>
    BY <2>1
  <2>2. CASE a = <<TRUE, FALSE>>
    BY <2>2
  <2>3. CASE a = <<FALSE, FALSE>>
    BY <2>3
  <2> QED BY <1>1, <2>1, <2>2, <2>3
<1> QED BY <1>2 DEF Sink!Stored

LEMMA WriteKeeps ==
  ASSUME SinkInv, SpoolMax \in Nat, NEW e \in Entries, Sink!writeAuditRecord(e)
  PROVE  SinkInv'
<1>0. x2 \in Seq(Entries) /\ x4 \in [Sink!Drains -> [lines : Seq(Entries), at : Nat]] /\ DOMAIN x6 = Entries
  BY DEF SinkInv
<1>1. PICK a \in Sink!Answers(e) :
        /\ x1' = Sink!Stored(e, a)
        /\ IF a[2]
             THEN /\ x6' = [x6 EXCEPT ![e] = "db"]
                  /\ Sink!MayDrain
                  /\ UNCHANGED <<x2, x7, x9>>
             ELSE /\ \/ /\ \E lines \in Sink!Writable(Sink!Kept) : x2' = Append(lines, e)
                        /\ x7' = x7 \cup (Sink!ToSet(x2) \ Sink!ToSet(Sink!Kept))
                        /\ x6' = [x6 EXCEPT ![e] = "spool"]
                        /\ x9' = IF \E d \in Sink!Drains : Sink!Running(d) THEN x9 \cup {e} ELSE x9
                     \/ /\ "disk" \in SinkEnv
                        /\ x6' = [x6 EXCEPT ![e] = "lost"]
                        /\ UNCHANGED <<x2, x7, x9>>
                  /\ UNCHANGED x4
  BY DEF Sink!writeAuditRecord
<1>2. x3' = x3 /\ x1 \subseteq x1' /\ (a[2] => e \in x1')
  BY <1>1, StoredIsKept DEF Sink!writeAuditRecord
<1>3. CASE a[2]
  <2>1. x2' = x2 /\ x7' = x7 /\ x9' = x9 /\ x6' = [x6 EXCEPT ![e] = "db"]
    BY <1>1, <1>3
  <2>2. x4' = x4 \/ (x2 # <<>> /\ x4' = [x4 EXCEPT !["flight"] = [lines |-> x2, at |-> 1]])
    BY <1>1, <1>3 DEF Sink!MayDrain, Sink!Begin
  <2>3. x4' \in [Sink!Drains -> [lines : Seq(Entries), at : Nat]]
    BY <1>0, <2>2
  <2>4. Handled \subseteq Handled' /\ e \in Handled'
    BY <1>2, <1>3, <2>1 DEF Handled
  <2>5. ASSUME NEW d \in Sink!Drains, x4'[d] # Sink!NoDrain PROVE DrainOK(d)'
    <3>1. CASE x4'[d] = x4[d]
      BY <2>1, <2>4, <2>5, <3>1, DrainStays DEF SinkInv
    <3>2. CASE x4'[d] # x4[d]
      <4>1. x2 # <<>> /\ x4'[d] = [lines |-> x2, at |-> 1]
        BY <1>0, <2>2, <3>2
      <4> QED BY <1>0, <2>1, <4>1, DrainBegins
    <3> QED BY <3>1, <3>2
  <2>6. \A f \in Entries : x6'[f] \in {"db", "spool"} => f \in Handled' \cup Members(x2)
    BY <2>1, <2>4 DEF SinkInv
  <2> QED BY <1>0, <2>1, <2>3, <2>5, <2>6 DEF SinkInv
<1>4. CASE ~ a[2]
  <2>2. CASE UNCHANGED <<x2, x4, x7, x9>> /\ x6' = [x6 EXCEPT ![e] = "lost"]
    <3>1. Handled \subseteq Handled' /\ DOMAIN x6' = Entries
      BY <1>0, <1>2, <2>2 DEF Handled
    <3>2. \A f \in Entries : x6'[f] \in {"db", "spool"} => x6[f] \in {"db", "spool"}
      BY <1>0, <2>2
    <3> QED BY <2>2, <3>1, <3>2, SinkRests
  <2>3. CASE /\ \E lines \in Sink!Writable(Sink!Kept) : x2' = Append(lines, e)
             /\ x7' = x7 \cup (Sink!ToSet(x2) \ Sink!ToSet(Sink!Kept))
             /\ x6' = [x6 EXCEPT ![e] = "spool"] /\ x4' = x4
             /\ x9' = IF \E d \in Sink!Drains : Sink!Running(d) THEN x9 \cup {e} ELSE x9
    <3>1. PICK lines \in {Sink!Kept, x2} : x2' = Append(lines, e)
      BY <2>3 DEF Sink!Writable
    <3>2. Sink!Kept \in Seq(Entries) /\ lines \in Seq(Entries)
      BY <1>0, <3>1, SpoolKept
    <3>3. x2' \in Seq(Entries) /\ Members(x2') = Members(lines) \cup {e}
      BY <3>1, <3>2, MembersOfAppend
    <3>4. Members(x2) \subseteq Members(x2') \cup x7' /\ Members(x2') \subseteq Members(x2) \cup {e}
      <4>1. Members(x2) \ Members(Sink!Kept) \subseteq x7'
        BY <1>0, <2>3, <3>2, MembersIs
      <4>2. Members(Sink!Kept) \subseteq Members(x2)
        BY <1>0, KeptIsOld
      <4> QED BY <3>1, <3>3, <4>1, <4>2
    <3>5. Handled \subseteq Handled' /\ x7' \subseteq Handled'
      BY <1>2, <2>3 DEF Handled
    <3>6. ASSUME NEW d \in Sink!Drains, x4'[d] # Sink!NoDrain PROVE DrainOK(d)'
      <4>1. DrainOK(d) /\ x4'[d] = x4[d]
        BY <2>3, <3>6 DEF SinkInv
      <4>2. e \in Handled'
        BY <2>3, <3>6 DEF Sink!Running, Handled
      <4> QED BY <3>4, <3>5, <4>1, <4>2 DEF DrainOK
    <3>7. \A f \in Entries : x6'[f] \in {"db", "spool"} => f \in Handled' \cup Members(x2')
      BY <2>3, <3>3, <3>4, <3>5 DEF SinkInv
    <3>8. DOMAIN x6' = Entries
      BY <1>0, <2>3
    <3> QED BY <1>0, <2>3, <3>3, <3>6, <3>7, <3>8 DEF SinkInv
  <2> QED BY <1>1, <1>4, <2>2, <2>3
<1> QED BY <1>3, <1>4

(* A line that the drain passes was handled; after the last one so is      *)
(* whatever is still in the spool.                                         *)
LEMMA AdvanceKeeps ==
  ASSUME SinkInv, NEW d \in Sink!Drains, Sink!Running(d), Sink!Advance(d),
         Handled \subseteq Handled', Sink!Line(d) \in Handled', x6' = x6
  PROVE  SinkInv'
<1> DEFINE l == x4[d].lines
           n == x4[d].at
<1>0. x2 \in Seq(Entries) /\ x4 \in [Sink!Drains -> [lines : Seq(Entries), at : Nat]] /\ l \in Seq(Entries) /\ n \in Nat
  BY DEF SinkInv
<1>1. DrainOK(d) /\ Sink!Line(d) = l[n] /\ n \in 1 .. Len(l)
  BY DEF SinkInv, Sink!Running, Sink!Line, DrainOK
<1>2. \A i \in 1 .. n : l[i] \in Handled'
  BY <1>0, <1>1 DEF DrainOK
<1>3. CASE n = Len(l)
  <2>1. x2' \in {<<>>, x2} /\ x4' = [x4 EXCEPT ![d] = Sink!NoDrain]
    BY <1>3 DEF Sink!Advance, Sink!IsLast, Sink!Writable
  <2>2. Members(l) \subseteq Handled' /\ Members(x2) \subseteq Handled'
    BY <1>1, <1>2, <1>3 DEF DrainOK, Members
  <2>3. Members(x2') \subseteq Handled' /\ x2' \in Seq(Entries)
    <3>1. Members(<<>>) = {} /\ <<>> \in Seq(Entries)
      BY DEF Members
    <3> QED BY <1>0, <2>1, <2>2, <3>1
  <2>4. x4' \in [Sink!Drains -> [lines : Seq(Entries), at : Nat]]
    BY <1>0, <2>1 DEF Sink!NoDrain
  <2>5. ASSUME NEW c \in Sink!Drains, x4'[c] # Sink!NoDrain PROVE DrainOK(c)'
    <3>1. x4'[c] = x4[c] /\ DrainOK(c)
      BY <1>0, <2>1, <2>5 DEF SinkInv
    <3> QED BY <2>2, <2>3, <3>1 DEF DrainOK
  <2> QED BY <2>2, <2>3, <2>4, <2>5 DEF SinkInv
<1>4. CASE n # Len(l)
  <2>1. x2' = x2 /\ x4' = [x4 EXCEPT ![d] = [x4[d] EXCEPT !.at = @ + 1]]
    BY <1>4 DEF Sink!Advance, Sink!IsLast
  <2>2. x4' \in [Sink!Drains -> [lines : Seq(Entries), at : Nat]] /\ x4'[d].lines = l /\ x4'[d].at = n + 1
    BY <1>0, <2>1
  <2>3. ASSUME NEW c \in Sink!Drains, x4'[c] # Sink!NoDrain PROVE DrainOK(c)'
    <3>1. CASE c = d
      BY <1>0, <1>1, <1>2, <1>4, <2>1, <2>2, <3>1 DEF DrainOK
    <3>2. CASE c # d
      BY <1>0, <2>1, <2>3, <3>2, DrainStays DEF SinkInv
    <3> QED BY <3>1, <3>2
  <2> QED BY <2>1, <2>2, <2>3 DEF SinkInv
<1> QED BY <1>3, <1>4

(* A drain that ends or fails leaves every entry somewhere.                *)
LEMMA StopKeeps ==
  ASSUME SinkInv, NEW d \in Sink!Drains, Sink!DrainStopped(d)
  PROVE  SinkInv'
<1> DEFINE l == x4[d].lines
           n == x4[d].at
<1>0. x2 \in Seq(Entries) /\ x4 \in [Sink!Drains -> [lines : Seq(Entries), at : Nat]] /\ l \in Seq(Entries) /\ n \in Nat
  BY DEF SinkInv
<1>1. DrainOK(d) /\ n \in 1 .. Len(l)
  BY DEF SinkInv, Sink!DrainStopped, Sink!Running, DrainOK
<1> DEFINE r == SubSeq(l, n, Len(l))
<1>2. /\ x2' \in {r, x2} /\ x4' = [x4 EXCEPT ![d] = Sink!NoDrain]
      /\ x3' = x3 /\ x6' = x6 /\ Handled \subseteq Handled'
  BY DEF Sink!DrainStopped, Sink!Rest, Sink!Stored, Handled, Sink!Writable
<1>3. r \in Seq(Entries) /\ Members(r) = {l[i] : i \in n .. Len(l)}
  BY <1>0, <1>1, MembersOfTail
<1> HIDE DEF r
<1>4. Members(l) \subseteq Members(r) \cup Handled /\ Members(r) \subseteq Members(l)
  <2> HIDE DEF l, n
  <2>1. Len(l) \in Nat
    BY <1>0
  <2>2. ASSUME NEW i \in 1 .. Len(l) PROVE l[i] \in Members(r) \cup Handled
    <3>1. CASE i \in n .. Len(l)
      BY <1>3, <3>1
    <3>2. CASE i \in 1 .. (n - 1)
      BY <1>1, <3>2 DEF DrainOK, l, n
    <3> QED BY <1>0, <1>1, <2>1, <3>1, <3>2
  <2>3. \A i \in n .. Len(l) : i \in 1 .. Len(l)
    BY <1>1, <2>1
  <2> QED BY <1>3, <2>2, <2>3 DEF Members
<1>5. Members(x2) \subseteq Members(x2') \cup Handled /\ Members(x2') \subseteq Members(x2) \cup Handled
  BY <1>1, <1>2, <1>4 DEF DrainOK
<1>6. x4' \in [Sink!Drains -> [lines : Seq(Entries), at : Nat]] /\ x2' \in Seq(Entries)
  BY <1>0, <1>2, <1>3 DEF Sink!NoDrain
<1>7. ASSUME NEW c \in Sink!Drains, x4'[c] # Sink!NoDrain PROVE DrainOK(c)'
  <2>1. x4'[c] = x4[c] /\ DrainOK(c)
    BY <1>0, <1>2, <1>7 DEF SinkInv
  <2> QED BY <1>2, <1>5, <2>1 DEF DrainOK
<1> QED BY <1>2, <1>5, <1>6, <1>7 DEF SinkInv

(* Every step of the sink keeps the invariant.                             *)
LEMMA SinkStep ==
  ASSUME SinkInv, SpoolMax \in Nat, Sink!Next
  PROVE  SinkInv'
<1>1. ASSUME NEW d \in Sink!Drains, Sink!DrainSent(d) PROVE SinkInv'
  BY <1>1, AdvanceKeeps DEF Sink!DrainSent, Handled
<1>2. ASSUME NEW d \in Sink!Drains, Sink!DrainPoisoned(d) PROVE SinkInv'
  <2>1. Handled \subseteq Handled' /\ Sink!Line(d) \in Handled'
    BY <1>2 DEF Sink!DrainPoisoned, Handled, Sink!Stored
  <2> QED BY <1>2, <2>1, AdvanceKeeps DEF Sink!DrainPoisoned
<1>3. CASE Sink!Restart
  <2>1. /\ UNCHANGED <<x1, x2, x3, x6, x7>> /\ x9' = x9 \ Sink!ToSet(x2)
        /\ x4' = [d \in Sink!Drains |-> IF d = "boot" THEN Sink!Begin(x2) ELSE Sink!NoDrain]
    BY <1>3 DEF Sink!Restart
  <2>2. x4' \in [Sink!Drains -> [lines : Seq(Entries), at : Nat]]
    BY <2>1 DEF Sink!Begin, Sink!NoDrain, SinkInv
  <2>3. ASSUME NEW d \in Sink!Drains, x4'[d] # Sink!NoDrain PROVE DrainOK(d)'
    BY <2>1, <2>3, DrainBegins DEF Sink!Begin, SinkInv
  <2>4. Handled \cup Members(x2) \subseteq Handled' \cup Members(x2')
    BY <2>1, MembersIs DEF Handled, SinkInv
  <2> QED BY <2>1, <2>2, <2>3, <2>4 DEF SinkInv
<1> QED BY <1>1, <1>2, <1>3, WriteKeeps, StopKeeps DEF Sink!Next

(* Of the records that were acknowledged as durable, those that are not in *)
(* the log, the spool or the quarantine, and whose loss to a full spool    *)
(* was not reported, were spooled while a drain was under way that no      *)
(* restart ended, or could not be quarantined: with two drains at once,    *)
(* poisoned lines, failing disks and restarts (writeAuditRecord,           *)
(* drainAuditSpool).                                                       *)
THEOREM OnlyLateLinesVanish ==
  ASSUME SpoolMax \in Nat
  PROVE  SumSpec => []OnlyExposedVanish
<1> DEFINE Inv == part = "sink" => SinkInv
<1>1. SumInit => Inv
  <2> SUFFICES ASSUME Sink!Init PROVE SinkInv
    BY DEF SumInit
  <2>1. x2 \in Seq(Entries) /\ Sink!NoDrain \in [lines : Seq(Entries), at : Nat]
    BY DEF Sink!Init, Sink!NoDrain
  <2>2. x4 = [d \in Sink!Drains |-> Sink!NoDrain] /\ x6 = [e \in Entries |-> "none"]
    BY DEF Sink!Init
  <2> QED BY <2>1, <2>2 DEF SinkInv
<1>2. Inv /\ [SumNext]_all => Inv'
  <2>1. CASE UNCHANGED all
    BY <2>1 DEF all, xs, SinkInv, DrainOK, Handled
  <2>2. CASE SumNext
    <3> SUFFICES ASSUME Inv, part' = "sink" PROVE SinkInv'
      OBVIOUS
    <3>1. part = "sink" /\ Sink!Next
      BY <2>2 DEF SumNext, OfFirm, OfExec, Other
    <3> QED BY <3>1, SinkStep
  <2> QED BY <2>1, <2>2
<1>3. Inv => OnlyExposedVanish
  BY MembersIs DEF SinkInv, Handled, OnlyExposedVanish, Sink!OnlyExposedVanish, Sink!Vanished
<1> QED BY <1>1, <1>2, <1>3, PTL DEF SumSpec, SumSafe

-----------------------------------------------------------------------------
(* The copy engine: x1 the links, x3 the fills, x4 the engines' jobs. An   *)
(* engine on its own is the only one that moves the link of its event.     *)
OneEngine == \A p, q \in Engines : p = q

CopySteps == {"idle", "gates", "claim", "check", "fill", "ledger", "sent", "partial", "filled", "fail", "end"}
Places == [pc : CopySteps, todo : {"fill", "fail"}, partial : BOOLEAN]
Jobs == [event : LeaderEvents, at : Places]
Links == [state : {"none", "PENDING", "SENT", "PARTIAL", "FILLED", "FAILED", "DIVERGED"}, notional : {0, 1}]
Bought == {"SENT", "PARTIAL", "FILLED"}

(* A fill is behind every link that was sent, and a link that has a fill   *)
(* is not given up.                                                        *)
LinkOK(link, n) ==
  /\ n = 1 => link.state \in {"PENDING"} \cup Bought
  /\ link.state \in Bought => n = 1

(* An engine fills or gives up what is claimed and has no fill, and marks  *)
(* what has one.                                                           *)
JobOK(at, link, n) ==
  /\ at \in {"gates", "claim", "check", "fill", "ledger", "fail"} => n = 0
  /\ at \in {"fill", "ledger", "fail"} => link.state = "PENDING"
  /\ at \in {"sent", "partial", "filled"} => n = 1

CopyInv ==
  /\ x1 \in [LeaderEvents -> Links] /\ x3 \in [LeaderEvents -> {0, 1}] /\ x4 \in [Engines -> Jobs]
  /\ \A e \in LeaderEvents : LinkOK(x1[e], x3[e])
  /\ \A p \in Engines : JobOK(x4[p].at.pc, x1[x4[p].event], x3[x4[p].event])

(* How an engine gets on with its job.                                     *)
LEMMA JobMoves ==
  ASSUME CopyInv, NEW p \in Engines
  PROVE  /\ \A s \in CopySteps :
              Copy!Move(p, s) => x4' \in [Engines -> Jobs] /\ x4'[p].event = x4[p].event /\ x4'[p].at.pc = s
         /\ Copy!Done(p) => x4' \in [Engines -> Jobs] /\ x4'[p].event = x4[p].event /\ x4'[p].at.pc = "idle"
         /\ \A t \in {"fill", "fail"} :
              Copy!Claim(p, t) => x4' \in [Engines -> Jobs] /\ x4'[p].event = x4[p].event /\ x4'[p].at.pc = "claim"
         /\ \A b \in BOOLEAN : x4' = [x4 EXCEPT ![p].at.pc = "sent", ![p].at.partial = b]
              => x4' \in [Engines -> Jobs] /\ x4'[p].event = x4[p].event /\ x4'[p].at.pc = "sent"
<1>0. x4 \in [Engines -> Jobs] /\ x4[p] \in Jobs /\ x4[p].at \in Places
  BY DEF CopyInv, Jobs
<1>1. ASSUME NEW a \in Places, x4' = [x4 EXCEPT ![p] = [x4[p] EXCEPT !.at = a]]
      PROVE  x4' \in [Engines -> Jobs] /\ x4'[p].event = x4[p].event /\ x4'[p].at = a
  BY <1>0, <1>1 DEF Jobs
<1>2. ASSUME NEW s \in CopySteps, Copy!Move(p, s)
      PROVE  x4' \in [Engines -> Jobs] /\ x4'[p].event = x4[p].event /\ x4'[p].at.pc = s
  <2> DEFINE a == [x4[p].at EXCEPT !.pc = s]
  <2>1. a \in Places /\ a.pc = s
    BY <1>0 DEF Places
  <2>2. x4' = [x4 EXCEPT ![p] = [x4[p] EXCEPT !.at = a]]
    BY <1>0, <1>2 DEF Copy!Move
  <2> QED BY <1>1, <2>1, <2>2
<1>3. ASSUME Copy!Done(p)
      PROVE  x4' \in [Engines -> Jobs] /\ x4'[p].event = x4[p].event /\ x4'[p].at.pc = "idle"
  <2>1. Copy!NoJob \in Places /\ Copy!NoJob.pc = "idle"
    BY DEF Copy!NoJob, Places, CopySteps
  <2>2. x4' = [x4 EXCEPT ![p] = [x4[p] EXCEPT !.at = Copy!NoJob]]
    BY <1>0, <1>3 DEF Copy!Done
  <2> QED BY <1>1, <2>1, <2>2
<1>4. ASSUME NEW t \in {"fill", "fail"}, Copy!Claim(p, t)
      PROVE  x4' \in [Engines -> Jobs] /\ x4'[p].event = x4[p].event /\ x4'[p].at.pc = "claim"
  <2> DEFINE a == [x4[p].at EXCEPT !.pc = "claim", !.todo = t]
  <2>1. a \in Places /\ a.pc = "claim"
    BY <1>0 DEF Places, CopySteps
  <2>2. x4' = [x4 EXCEPT ![p] = [x4[p] EXCEPT !.at = a]]
    BY <1>0, <1>4 DEF Copy!Claim
  <2> QED BY <1>1, <2>1, <2>2
<1>5. ASSUME NEW b \in BOOLEAN, x4' = [x4 EXCEPT ![p].at.pc = "sent", ![p].at.partial = b]
      PROVE  x4' \in [Engines -> Jobs] /\ x4'[p].event = x4[p].event /\ x4'[p].at.pc = "sent"
  <2> DEFINE a == [x4[p].at EXCEPT !.pc = "sent", !.partial = b]
  <2>1. a \in Places /\ a.pc = "sent"
    BY <1>0 DEF Places, CopySteps
  <2>2. x4' = [x4 EXCEPT ![p] = [x4[p] EXCEPT !.at = a]]
    BY <1>0, <1>5
  <2> QED BY <1>1, <2>1, <2>2
<1> QED BY <1>2, <1>3, <1>4, <1>5

(* Every step of the engine keeps the invariant.                           *)
LEMMA CopyStep ==
  ASSUME OneEngine, "qualityfail" \notin CopyEnv, CopyInv, NEW p \in Engines,
         \/ \E e \in LeaderEvents : Copy!Receive(p, e)
         \/ Copy!Gates(p) \/ Copy!createIntent(p) \/ Copy!Check(p) \/ Copy!RecordIntent(p) \/ Copy!Simulate(p)
         \/ Copy!markSent(p) \/ Copy!markPartial(p) \/ Copy!markFilled(p) \/ Copy!markFailed(p) \/ Copy!Return(p)
         \/ Copy!Crash(p)
  PROVE  CopyInv'
<1> DEFINE e == x4[p].event
           at == x4[p].at.pc
           New(l, n) == /\ x1' = [x1 EXCEPT ![e] = l] \/ (x1' = x1 /\ l = x1[e])
                        /\ x3' = [x3 EXCEPT ![e] = n] \/ (x3' = x3 /\ n = x3[e])
                        /\ x4' \in [Engines -> Jobs] /\ x4'[p].event = e
                        /\ l \in Links /\ n \in {0, 1} /\ LinkOK(l, n) /\ JobOK(x4'[p].at.pc, l, n)
<1>0. /\ e \in LeaderEvents /\ at \in CopySteps /\ x1[e] \in Links /\ x3[e] \in {0, 1}
      /\ LinkOK(x1[e], x3[e]) /\ JobOK(at, x1[e], x3[e]) /\ x4[p].at.todo \in {"fill", "fail"}
  BY DEF CopyInv, Jobs, Places
<1>1. ASSUME NEW l, NEW n, New(l, n) PROVE CopyInv'
  BY <1>0, <1>1 DEF CopyInv, OneEngine, Jobs
<1>2. ASSUME NEW d \in LeaderEvents, Copy!Receive(p, d) PROVE CopyInv'
  <2>1. CASE x4' = x4
    BY <1>2, <2>1 DEF Copy!Receive, CopyInv
  <2>2. CASE x4' # x4
    <3>1. /\ x1' = x1 /\ x3' = x3 /\ x1[d].state = "none"
          /\ x4' = [x4 EXCEPT ![p] = [event |-> d, at |-> [Copy!NoJob EXCEPT !.pc = "gates"]]]
      BY <1>2, <2>2 DEF Copy!Receive, Copy!Known
    <3>2. x4' \in [Engines -> Jobs] /\ x4'[p].event = d /\ x4'[p].at.pc = "gates"
      BY <3>1 DEF Jobs, Places, Copy!NoJob, CopySteps, CopyInv
    <3>3. x3[d] = 0
      BY <3>1 DEF CopyInv, LinkOK, Bought
    <3> QED BY <3>1, <3>2, <3>3 DEF CopyInv, JobOK, OneEngine
  <2> QED BY <2>1, <2>2
<1>3. CASE Copy!Gates(p)
  <2>1. PICK t \in {"fill", "fail"} : Copy!Claim(p, t)
    BY <1>3 DEF Copy!Gates
  <2>2. x4' \in [Engines -> Jobs] /\ x4'[p].event = e /\ x4'[p].at.pc = "claim"
    BY <2>1, JobMoves
  <2>3. New(x1[e], x3[e])
    BY <1>0, <1>3, <2>2 DEF Copy!Gates, Copy!At, JobOK
  <2> QED BY <1>1, <2>3
<1>4. CASE Copy!createIntent(p)
  <2>1. x4' \in [Engines -> Jobs] /\ x4'[p].event = e /\ x4'[p].at.pc \in {"check", "idle"}
    BY <1>4, JobMoves DEF Copy!createIntent, CopySteps
  <2>2. at = "claim" /\ x3' = x3 /\ x1' \in {x1, Copy!Created(e)}
    BY <1>4 DEF Copy!createIntent, Copy!At, Copy!Event
  <2>3. PICK l \in Links : (l = x1[e] /\ x1' = x1) \/ (l.state = "PENDING" /\ x1' = [x1 EXCEPT ![e] = l])
    <3> DEFINE l == [state |-> "PENDING", notional |-> 0]
    <3>1. l \in Links /\ l.state = "PENDING"
      BY DEF Links
    <3> QED BY <1>0, <2>2, <3>1 DEF Copy!Created
  <2>4. New(l, x3[e])
    BY <1>0, <2>1, <2>2, <2>3 DEF JobOK, LinkOK, Bought
  <2> QED BY <1>1, <2>4
<1>5. CASE Copy!Check(p)
  <2>1. x4' \in [Engines -> Jobs] /\ x4'[p].event = e
    BY <1>0, <1>5, JobMoves DEF Copy!Check, CopySteps
  <2>2. x4'[p].at.pc = "idle" \/ (x4'[p].at.pc \in {"fill", "fail"} /\ x1[e].state = "PENDING")
    BY <1>0, <1>5, JobMoves DEF Copy!Check, CopySteps, Copy!Event
  <2>3. New(x1[e], x3[e])
    BY <1>0, <1>5, <2>1, <2>2 DEF Copy!Check, Copy!At, JobOK
  <2> QED BY <1>1, <2>3
<1>6. CASE Copy!RecordIntent(p)
  <2>1. x4' \in [Engines -> Jobs] /\ x4'[p].event = e /\ x4'[p].at.pc \in {"ledger", "claim"}
    BY <1>6, JobMoves DEF Copy!RecordIntent, CopySteps
  <2>2. New(x1[e], x3[e])
    BY <1>0, <1>6, <2>1 DEF Copy!RecordIntent, Copy!At, JobOK
  <2> QED BY <1>1, <2>2
<1>7. CASE Copy!Simulate(p)
  <2>1. at = "ledger" /\ x3[e] = 0 /\ x1[e].state = "PENDING" /\ x1' = x1
    BY <1>0, <1>7 DEF Copy!Simulate, Copy!At, JobOK
  <2>2. CASE x3' = [x3 EXCEPT ![e] = @ + 1] /\ \E b \in BOOLEAN : x4' = [x4 EXCEPT ![p].at.pc = "sent", ![p].at.partial = b]
    <3>1. x4' \in [Engines -> Jobs] /\ x4'[p].event = e /\ x4'[p].at.pc = "sent"
      BY <2>2, JobMoves
    <3>2. x3' = [x3 EXCEPT ![e] = 1]
      BY <1>0, <2>1, <2>2 DEF CopyInv
    <3>3. New(x1[e], 1)
      BY <1>0, <2>1, <3>1, <3>2 DEF JobOK, LinkOK, Bought
    <3> QED BY <1>1, <3>3
  <2>3. CASE x3' = x3 /\ Copy!Claim(p, "fail")
    <3>1. x4' \in [Engines -> Jobs] /\ x4'[p].event = e /\ x4'[p].at.pc = "claim"
      BY <2>3, JobMoves
    <3>2. New(x1[e], x3[e])
      BY <1>0, <2>1, <2>3, <3>1 DEF JobOK
    <3> QED BY <1>1, <3>2
  <2> QED BY <1>7, <2>2, <2>3 DEF Copy!Simulate, Copy!Event
<1>8. ASSUME NEW s \in {"SENT", "PARTIAL", "FILLED", "FAILED"}, NEW pc, NEW next \in CopySteps, NEW lost \in CopySteps,
             Copy!Mark(p, pc, s, next, lost),
             s \in Bought => pc \in {"sent", "partial", "filled"} /\ {next, lost} \subseteq {"partial", "filled", "end"},
             s = "FAILED" => pc = "fail" /\ next = "end" /\ lost = "end"
      PROVE  CopyInv'
  <2>1. x4' \in [Engines -> Jobs] /\ x4'[p].event = e /\ x4'[p].at.pc \in {next, lost}
    BY <1>8, JobMoves DEF Copy!Mark
  <2>2. at = pc /\ x3' = x3
    BY <1>8 DEF Copy!Mark, Copy!At
  <2>3. x1' = x1 \/ x1' = [x1 EXCEPT ![e].state = s]
    BY <1>8 DEF Copy!Mark, Copy!Marked, Copy!Event
  <2>4. PICK l \in Links : (l = x1[e] /\ x1' = x1) \/ (l.state = s /\ x1' = [x1 EXCEPT ![e] = l])
    <3> DEFINE l == [x1[e] EXCEPT !.state = s]
    <3>1. l \in Links /\ l.state = s
      BY <1>0 DEF Links
    <3> QED BY <1>0, <2>3, <3>1
  <2>5. New(l, x3[e])
    BY <1>0, <1>8, <2>1, <2>2, <2>4 DEF JobOK, LinkOK, Bought
  <2> QED BY <1>1, <2>5
<1>9. CASE Copy!markSent(p) \/ Copy!markPartial(p) \/ Copy!markFilled(p) \/ Copy!markFailed(p)
  BY <1>8, <1>9 DEF Copy!markSent, Copy!markPartial, Copy!markFilled, Copy!markFailed, CopySteps, Bought
<1>10. CASE Copy!Return(p) \/ Copy!Crash(p)
  <2>1. x4' \in [Engines -> Jobs] /\ x4'[p].event = e /\ x4'[p].at.pc = "idle"
    BY <1>10, JobMoves DEF Copy!Return, Copy!Crash
  <2>2. New(x1[e], x3[e])
    BY <1>0, <1>10, <2>1 DEF Copy!Return, Copy!Crash, JobOK
  <2> QED BY <1>1, <2>2
<1> QED BY <1>2, <1>3, <1>4, <1>5, <1>6, <1>7, <1>9, <1>10

(* The copy engine copies an event at most once, through redelivery,       *)
(* failing writes and restarts of the engine.                              *)
THEOREM CopyIsIdempotent ==
  ASSUME OneEngine, LeaderEvents # {}, "qualityfail" \notin CopyEnv
  PROVE  SumSpec => []CopiedOnce
<1> DEFINE Inv == part = "copy" => CopyInv
<1>1. SumInit => Inv
  <2> SUFFICES ASSUME Copy!Init PROVE CopyInv
    BY DEF SumInit
  <2>1. (CHOOSE d \in LeaderEvents : TRUE) \in LeaderEvents
    OBVIOUS
  <2>2. x4 \in [Engines -> Jobs] /\ \A p \in Engines : x4[p].at.pc = "idle"
    BY <2>1 DEF Copy!Init, Copy!NoJob, Jobs, Places, CopySteps
  <2> QED BY <2>2 DEF Copy!Init, CopyInv, Links, LinkOK, JobOK, Bought, Copy!NoLink
<1>2. Inv /\ [SumNext]_all => Inv'
  <2>1. CASE UNCHANGED all
    BY <2>1 DEF all, xs, CopyInv, OneEngine
  <2>2. CASE SumNext
    <3> SUFFICES ASSUME Inv, part' = "copy" PROVE CopyInv'
      OBVIOUS
    <3>1. part = "copy" /\ Copy!Next
      BY <2>2 DEF SumNext, OfFirm, OfExec, Other
    <3> QED BY <3>1, CopyStep DEF Copy!Next
  <2> QED BY <2>1, <2>2
<1>3. Inv => CopiedOnce
  BY DEF CopyInv, LinkOK, CopiedOnce, Copy!CopiedOnce, Bought
<1> QED BY <1>1, <1>2, <1>3, PTL DEF SumSpec, SumSafe

-----------------------------------------------------------------------------
(* The screening runner: x1 the row, x2 and x3 the cells persisted and     *)
(* given up, x4 the run, x5 the workers' cells, x7 the cells that were     *)
(* lost.                                                                   *)
ScreenRuns == [pc : {"off", "cells", "flush", "close"}, base : Nat, next : Nat, done : Nat,
               aborted : BOOLEAN, failed : BOOLEAN]
Statuses == {"PENDING", "RUNNING", "ABORTED", "FAILED", "DONE"}
ScreenRows == [status : Statuses, done : Nat]

Behind == x2 \cup x3 \cup x7 \cup Screening!InHand
Busy == {w \in Workers : x5[w] # 0}

(* The cells before the cursor are behind a worker or at one, and those    *)
(* that were counted and those that are at a worker are no more than that; *)
(* so the row does not count a cell that nobody took.                      *)
CursorOK(n, done, count, cells, busy) ==
  /\ 1 .. (n - 1) \subseteq cells
  /\ done + busy <= n - 1
  /\ count <= n - 1

ScreenInv ==
  /\ x1 \in ScreenRows /\ x4 \in ScreenRuns /\ x5 \in [Workers -> -1 .. Cells]
  /\ 1 .. x1.done \subseteq Behind
  /\ x4.pc # "off" => CursorOK(x4.next, x4.done, x1.done, Behind, Cardinality(Busy))
  /\ x4.pc # "cells" => x5 = Screening!Idle

(* The status of the row never takes cells back, and its count is one of   *)
(* those given.                                                            *)
LEMMA StatusKeeps ==
  ASSUME x1 \in ScreenRows
  PROVE  \A s \in Statuses, n \in Nat :
           Screening!setRunStatus(s, n) => x1' \in ScreenRows /\ x1'.done \in {x1.done, n}
  BY DEF Screening!setRunStatus, Screening!GreaterOf, ScreenRows

SameCursor(r, q) == r.pc = q.pc /\ r.next = q.next /\ r.done = q.done

LEMMA FailedRun ==
  ASSUME NEW r \in ScreenRuns
  PROVE  Screening!Failed(r) \in ScreenRuns /\ SameCursor(Screening!Failed(r), r)
  BY DEF Screening!Failed, ScreenRuns, SameCursor

LEMMA ProgressKeeps ==
  ASSUME x1 \in ScreenRows, NEW r \in ScreenRuns, NEW n \in Nat, Screening!Progress(r, n)
  PROVE  x1' \in ScreenRows /\ x1'.done \in {x1.done, n} /\ x4' \in ScreenRuns /\ SameCursor(x4', r)
<1>1. CASE Screening!setRunStatus("RUNNING", n) /\ x4' = r
  BY <1>1, StatusKeeps DEF Statuses, SameCursor
<1>2. CASE x1' = x1 /\ x4' = Screening!Failed(r)
  BY <1>2, FailedRun
<1> QED BY <1>1, <1>2 DEF Screening!Progress

(* Who is busy is a finite set, and one worker counts for one.             *)
LEMMA BusyCount ==
  ASSUME IsFiniteSet(Workers)
  PROVE  IsFiniteSet(Busy) /\ Cardinality(Busy) \in Nat
<1>1. Busy \subseteq Workers
  BY DEF Busy
<1>2. IsFiniteSet(Busy)
  BY <1>1, FS_Subset
<1> QED BY <1>2, FS_CardinalityType

LEMMA BusyMore ==
  ASSUME IsFiniteSet(Workers), NEW w \in Workers, x5 \in [Workers -> -1 .. Cells], NEW c, c # 0,
         x5[w] = 0, x5' = [x5 EXCEPT ![w] = c]
  PROVE  Cardinality(Busy') = Cardinality(Busy) + 1
<1>1. Busy' = Busy \cup {w} /\ w \notin Busy
  BY DEF Busy
<1> QED BY <1>1, BusyCount, FS_AddElement

LEMMA BusyLess ==
  ASSUME IsFiniteSet(Workers), NEW w \in Workers, x5 \in [Workers -> -1 .. Cells],
         x5[w] # 0, x5' = [x5 EXCEPT ![w] = 0]
  PROVE  Cardinality(Busy') = Cardinality(Busy) - 1
<1>1. Busy' = Busy \ {w} /\ w \in Busy
  BY DEF Busy
<1> QED BY <1>1, BusyCount, FS_RemoveElement

LEMMA NobodyBusy ==
  ASSUME x5 = Screening!Idle, Cells \in Nat
  PROVE  Screening!InHand = {} /\ Busy = {} /\ Cardinality(Busy) = 0 /\ x5 \in [Workers -> -1 .. Cells]
<1>1. Screening!InHand = {} /\ Busy = {} /\ x5 \in [Workers -> -1 .. Cells]
  BY DEF Screening!InHand, Screening!Idle, Busy
<1> QED BY <1>1, FS_EmptySet

(* The row may take the count of the run: it stays below the cursor.       *)
LEMMA RowBelow ==
  ASSUME IsFiniteSet(Workers), ScreenInv, x4.pc # "off", UNCHANGED <<x2, x3, x5, x7>>,
         x1' \in ScreenRows, x1'.done \in {x1.done, x4.done}
  PROVE  /\ 1 .. x1'.done \subseteq Behind' /\ x5' = x5
         /\ CursorOK(x4.next, x4.done, x1'.done, Behind', Cardinality(Busy'))
<1>1. x1.done \in Nat /\ x4.done \in Nat /\ x4.next \in Nat /\ Cardinality(Busy) \in Nat
  BY BusyCount DEF ScreenInv, ScreenRows, ScreenRuns
<1>2. Behind' = Behind /\ Busy' = Busy
  BY DEF Behind, Busy, Screening!InHand
<1>3. CursorOK(x4.next, x4.done, x1.done, Behind, Cardinality(Busy))
  BY DEF ScreenInv
<1> HIDE DEF Behind, Busy, ScreenInv
<1>4. x1'.done <= x4.next - 1
  BY <1>1, <1>3 DEF CursorOK
<1>5. 1 .. x1'.done \subseteq 1 .. (x4.next - 1)
  BY <1>1, <1>4
<1> QED BY <1>2, <1>3, <1>4, <1>5 DEF CursorOK

LEMMA ScreenBegins ==
  ASSUME Cells \in Nat, ScreenInv, Screening!Begin
  PROVE  ScreenInv'
<1>0. x1 \in ScreenRows /\ x1.done \in Nat /\ x5 = Screening!Idle
  BY DEF ScreenInv, ScreenRows, Screening!Begin
<1>1. Screening!Started \in ScreenRuns /\ Screening!Started.next = x1.done + 1 /\ Screening!Started.done = x1.done
  <2> DEFINE start(n, m) == [Screening!NoRun EXCEPT !.base = n, !.next = m, !.done = n]
  <2>1. Screening!NoRun \in ScreenRuns
    BY DEF ScreenRuns, Screening!NoRun
  <2>2. \A n, m \in Nat : start(n, m) \in ScreenRuns /\ start(n, m).next = m /\ start(n, m).done = n
    BY <2>1 DEF ScreenRuns
  <2>3. Screening!Started = start(x1.done, x1.done + 1)
    BY DEF Screening!Started
  <2> HIDE DEF start
  <2> QED BY <1>0, <2>2, <2>3
<1>2. PICK r \in ScreenRuns, c \in {"cells", "flush"} :
        SameCursor(r, Screening!Started) /\ x4' = [r EXCEPT !.pc = c] /\ UNCHANGED <<x2, x3, x5, x7>>
        /\ (Screening!setRunStatus("RUNNING", x1.done) \/ x1' = x1)
  BY <1>1, FailedRun DEF Screening!Begin, SameCursor
<1>3. x4' \in ScreenRuns /\ x4'.pc \in {"cells", "flush"} /\ x4'.next = x1.done + 1 /\ x4'.done = x1.done
  BY <1>1, <1>2 DEF ScreenRuns, SameCursor
<1>4. x1' \in ScreenRows /\ x1'.done = x1.done
  BY <1>0, <1>2, StatusKeeps DEF Statuses
<1>5. Behind' = Behind /\ Cardinality(Busy') = 0 /\ x5' \in [Workers -> -1 .. Cells]
  BY <1>0, <1>2, NobodyBusy DEF Behind, Busy, Screening!InHand
<1>6. 1 .. x1.done \subseteq Behind
  BY DEF ScreenInv
<1>7. x1.done + 1 - 1 = x1.done
  BY <1>0
<1> HIDE DEF Behind, Busy, ScreenInv
<1>8. CursorOK(x4'.next, x4'.done, x1'.done, Behind', Cardinality(Busy'))
  BY <1>0, <1>3, <1>4, <1>5, <1>6, <1>7 DEF CursorOK
<1> QED BY <1>0, <1>2, <1>3, <1>4, <1>5, <1>6, <1>8 DEF ScreenInv

LEMMA ScreenEnds ==
  ASSUME IsFiniteSet(Workers), Cells \in Nat, ScreenInv, Screening!Flush \/ Screening!Close \/ Screening!Crash
  PROVE  ScreenInv'
<1>0. x1 \in ScreenRows /\ x4 \in ScreenRuns /\ x4.done \in Nat /\ x5 \in [Workers -> -1 .. Cells]
  BY DEF ScreenInv, ScreenRuns
<1>1. CASE Screening!Flush
  <2> DEFINE r == [x4 EXCEPT !.pc = "close"]
  <2>1. r \in ScreenRuns /\ r.pc = "close" /\ r.done = x4.done /\ r.next = x4.next
    BY <1>0 DEF ScreenRuns
  <2>2. Screening!Progress(r, x4.done) /\ UNCHANGED <<x2, x3, x5, x7>> /\ x4.pc # "off" /\ x5 = Screening!Idle
    BY <1>1 DEF Screening!Flush, Screening!Over, ScreenInv
  <2> HIDE DEF r
  <2>3. /\ x1' \in ScreenRows /\ x1'.done \in {x1.done, x4.done} /\ x4' \in ScreenRuns
        /\ x4'.pc = "close" /\ x4'.done = x4.done /\ x4'.next = x4.next
    BY <1>0, <2>1, <2>2, ProgressKeeps DEF SameCursor
  <2> QED BY <1>0, <2>2, <2>3, RowBelow DEF ScreenInv
<1>2. CASE Screening!Close
  <2>1. x4.pc = "close" /\ x4' = Screening!NoRun /\ UNCHANGED <<x2, x3, x5, x7>> /\ x5 = Screening!Idle
    BY <1>2 DEF Screening!Close, ScreenInv
  <2>2. x1' \in ScreenRows /\ x1'.done \in {x1.done, x4.done}
    <3>1. (\E s \in Statuses : Screening!setRunStatus(s, x4.done)) \/ x1' = x1
      BY <1>2 DEF Screening!Close, Statuses
    <3> QED BY <1>0, <3>1, StatusKeeps
  <2>3. Screening!NoRun \in ScreenRuns /\ Screening!NoRun.pc = "off"
    BY DEF Screening!NoRun, ScreenRuns
  <2> QED BY <1>0, <2>1, <2>2, <2>3, RowBelow DEF ScreenInv
<1>3. CASE Screening!Crash
  <2>1. /\ x4' = Screening!NoRun /\ x5' = Screening!Idle /\ UNCHANGED <<x1, x2, x3>>
        /\ x7' = x7 \cup (Screening!InHand \cap 1 .. x1.done)
    BY <1>3 DEF Screening!Crash
  <2>2. 1 .. x1.done \subseteq x2 \cup x3 \cup x7 \cup Screening!InHand
    BY DEF ScreenInv, Behind
  <2>3. 1 .. x1'.done \subseteq Behind'
    BY <2>1, <2>2 DEF Behind
  <2>4. Screening!NoRun \in ScreenRuns /\ Screening!NoRun.pc = "off" /\ Screening!Idle \in [Workers -> -1 .. Cells]
    BY DEF Screening!NoRun, ScreenRuns, Screening!Idle
  <2> QED BY <1>0, <2>1, <2>3, <2>4 DEF ScreenInv
<1> QED BY <1>1, <1>2, <1>3

(* The steps of one worker.                                                *)
LEMMA WorkerAt ==
  ASSUME Cells \in Nat, ScreenInv, NEW w \in Workers, x5[w] # 0
  PROVE  x4.pc = "cells"
<1>1. x5 # Screening!Idle
  BY DEF Screening!Idle
<1> QED BY <1>1 DEF ScreenInv

LEMMA ScreenTakes ==
  ASSUME IsFiniteSet(Workers), Cells \in Nat, ScreenInv, NEW w \in Workers, Screening!Take(w)
  PROVE  ScreenInv'
<1>0. /\ x1 \in ScreenRows /\ x4 \in ScreenRuns /\ x1.done \in Nat /\ x4.done \in Nat /\ x4.next \in Nat
      /\ Cardinality(Busy) \in Nat /\ x5 \in [Workers -> -1 .. Cells]
  BY BusyCount DEF ScreenInv, ScreenRows, ScreenRuns
<1>1. x4.pc = "cells" /\ x5[w] = 0 /\ x4.next <= Cells /\ UNCHANGED <<x1, x2, x3, x7>>
  BY DEF Screening!Take
<1>2. 1 .. x1.done \subseteq Behind /\ CursorOK(x4.next, x4.done, x1.done, Behind, Cardinality(Busy))
  BY <1>1 DEF ScreenInv
<1>3. CASE x5' = [x5 EXCEPT ![w] = x4.next] /\ x4' = [x4 EXCEPT !.next = @ + 1]
  <2>0. x4.next # 0
    BY <1>0, <1>2 DEF CursorOK
  <2>1. x4' \in ScreenRuns /\ x4'.pc = "cells" /\ x4'.done = x4.done /\ x4'.next = x4.next + 1
    BY <1>0, <1>1, <1>3 DEF ScreenRuns
  <2>2. x5' \in [Workers -> -1 .. Cells] /\ Cardinality(Busy') = Cardinality(Busy) + 1
    <3>1. x5' \in [Workers -> -1 .. Cells]
      BY <1>0, <1>1, <1>3
    <3>2. Cardinality(Busy') = Cardinality(Busy) + 1
      <4> HIDE DEF Busy
      <4> QED BY <1>0, <1>1, <1>3, <2>0, BusyMore
    <3> QED BY <3>1, <3>2
  <2>3. Behind \cup {x4.next} \subseteq Behind'
    <3>1. x5'[w] = x4.next /\ x4.next \in 1 .. Cells /\ \A v \in Workers : x5[v] \in 1 .. Cells => x5'[v] = x5[v]
      BY <1>0, <1>1, <1>3, <2>0
    <3>2. Screening!InHand \cup {x4.next} \subseteq Screening!InHand'
      BY <3>1 DEF Screening!InHand
    <3> QED BY <1>1, <3>2 DEF Behind
  <2> HIDE DEF Behind, Busy
  <2>4. 1 .. (x4.next + 1 - 1) \subseteq Behind'
    <3>1. \A i \in 1 .. (x4.next + 1 - 1) : i \in 1 .. (x4.next - 1) \/ i = x4.next
      BY <1>0
    <3> QED BY <1>2, <2>3, <3>1 DEF CursorOK
  <2>5. CursorOK(x4'.next, x4'.done, x1'.done, Behind', Cardinality(Busy'))
    BY <1>0, <1>1, <1>2, <2>1, <2>2, <2>4 DEF CursorOK
  <2> QED BY <1>0, <1>1, <1>2, <2>1, <2>2, <2>3, <2>5 DEF ScreenInv
<1>4. CASE x4' = Screening!Left(x4) /\ x5' = x5
  <2>1. x4' \in ScreenRuns /\ SameCursor(x4', x4)
    BY <1>0, <1>4 DEF Screening!Left, ScreenRuns, SameCursor
  <2>2. Behind' = Behind /\ Busy' = Busy
    BY <1>1, <1>4 DEF Behind, Busy, Screening!InHand
  <2> HIDE DEF Behind, Busy
  <2> QED BY <1>0, <1>1, <1>2, <1>4, <2>1, <2>2 DEF ScreenInv, SameCursor
<1> QED BY <1>3, <1>4 DEF Screening!Take

LEMMA ScreenWorks ==
  ASSUME IsFiniteSet(Workers), Cells \in Nat, ScreenInv, NEW w \in Workers,
         Screening!Persist(w) \/ Screening!GiveUp(w)
  PROVE  ScreenInv'
<1>0. x1 \in ScreenRows /\ x4 \in ScreenRuns /\ x5 \in [Workers -> -1 .. Cells]
  BY DEF ScreenInv
<1>1. /\ x5[w] \in 1 .. Cells /\ x5' = [x5 EXCEPT ![w] = -1] /\ x1' = x1
      /\ x4' = x4 \/ x4' = Screening!Failed(x4)
      /\ x2 \cup x3 \cup x7 \cup {x5[w]} \subseteq x2' \cup x3' \cup x7'
  BY DEF Screening!Persist, Screening!GiveUp
<1>2. x5[w] # 0 /\ x4.pc = "cells"
  BY <1>1, WorkerAt
<1>3. x4' \in ScreenRuns /\ SameCursor(x4', x4)
  BY <1>0, <1>1, FailedRun DEF SameCursor
<1>4. x5' \in [Workers -> -1 .. Cells] /\ Busy' = Busy
  <2>1. -1 # 0 /\ -1 \in -1 .. Cells
    OBVIOUS
  <2>2. x5' \in [Workers -> -1 .. Cells]
    BY <1>0, <1>1, <2>1
  <2> QED BY <1>0, <1>1, <1>2, <2>1, <2>2 DEF Busy
<1>5. Behind \subseteq Behind'
  <2>1. Screening!InHand \subseteq Screening!InHand' \cup {x5[w]}
    BY <1>0, <1>1 DEF Screening!InHand
  <2> QED BY <1>1, <2>1 DEF Behind
<1>6. 1 .. x1.done \subseteq Behind /\ CursorOK(x4.next, x4.done, x1.done, Behind, Cardinality(Busy))
  BY <1>2 DEF ScreenInv
<1> HIDE DEF Behind, Busy
<1>7. CursorOK(x4'.next, x4'.done, x1'.done, Behind', Cardinality(Busy'))
  BY <1>1, <1>3, <1>4, <1>5, <1>6 DEF CursorOK, SameCursor
<1> QED BY <1>0, <1>1, <1>2, <1>3, <1>4, <1>5, <1>6, <1>7 DEF ScreenInv, SameCursor

LEMMA ScreenCounts ==
  ASSUME IsFiniteSet(Workers), Cells \in Nat, ScreenInv, NEW w \in Workers, Screening!CellDone(w)
  PROVE  ScreenInv'
<1> DEFINE r == Screening!Reported(x4)
<1>0. /\ x1 \in ScreenRows /\ x4 \in ScreenRuns /\ x1.done \in Nat /\ x4.done \in Nat /\ x4.next \in Nat
      /\ Cardinality(Busy) \in Nat /\ x5 \in [Workers -> -1 .. Cells]
  BY BusyCount DEF ScreenInv, ScreenRows, ScreenRuns
<1>1. x5[w] = -1 /\ x5' = [x5 EXCEPT ![w] = 0] /\ Screening!Count(x4) /\ UNCHANGED <<x2, x3, x7>>
  BY DEF Screening!CellDone
<1>2. x4.pc = "cells"
  BY <1>1, WorkerAt
<1>3. r \in ScreenRuns /\ r.pc = "cells" /\ r.done = x4.done + 1 /\ r.next = x4.next
  BY <1>0, <1>2 DEF ScreenRuns, Screening!Reported
<1>4. Screening!Progress(r, r.done) \/ (x4' = r /\ x1' = x1)
  BY <1>1 DEF Screening!Count
<1> HIDE DEF r
<1>5. /\ x1' \in ScreenRows /\ x1'.done \in {x1.done, x4.done + 1} /\ x4' \in ScreenRuns
      /\ x4'.pc = "cells" /\ x4'.done = x4.done + 1 /\ x4'.next = x4.next
  BY <1>0, <1>3, <1>4, ProgressKeeps DEF SameCursor
<1>6. x5' \in [Workers -> -1 .. Cells] /\ Cardinality(Busy') = Cardinality(Busy) - 1 /\ w \in Busy
  <2>1. 0 \in -1 .. Cells /\ x5[w] # 0
    BY <1>1
  <2>2. x5' \in [Workers -> -1 .. Cells]
    BY <1>0, <1>1, <2>1
  <2>3. w \in Busy
    BY <2>1 DEF Busy
  <2>4. Cardinality(Busy') = Cardinality(Busy) - 1
    <3> HIDE DEF Busy
    <3> QED BY <1>0, <1>1, <2>1, BusyLess
  <2> QED BY <2>2, <2>3, <2>4
<1>7. Cardinality(Busy') \in Nat
  <2>1. Busy' \subseteq Workers
    BY DEF Busy
  <2> QED BY <2>1, FS_Subset, FS_CardinalityType
<1>8. Behind' = Behind
  <2>1. Screening!InHand' = Screening!InHand
    BY <1>0, <1>1 DEF Screening!InHand
  <2> QED BY <1>1, <2>1 DEF Behind
<1>9. 1 .. x1.done \subseteq Behind /\ CursorOK(x4.next, x4.done, x1.done, Behind, Cardinality(Busy))
  BY <1>2 DEF ScreenInv
<1> HIDE DEF Behind, Busy
<1>10. x1'.done <= x4.next - 1
  BY <1>0, <1>5, <1>6, <1>7, <1>9 DEF CursorOK
<1>11. CursorOK(x4'.next, x4'.done, x1'.done, Behind', Cardinality(Busy'))
  BY <1>0, <1>5, <1>6, <1>8, <1>9, <1>10 DEF CursorOK
<1>12. 1 .. x1'.done \subseteq 1 .. (x4.next - 1)
  BY <1>0, <1>5, <1>10
<1> QED BY <1>5, <1>6, <1>8, <1>9, <1>11, <1>12 DEF ScreenInv, CursorOK

(* Every step of the screening run keeps the invariant.                    *)
LEMMA ScreenStep ==
  ASSUME IsFiniteSet(Workers), Cells \in Nat, ScreenInv, Screening!Next
  PROVE  ScreenInv'
  BY ScreenBegins, ScreenEnds, ScreenTakes, ScreenWorks, ScreenCounts DEF Screening!Next

(* A resumed run skips only cells that were handled, or that were at a     *)
(* worker when the process died, or whose insert failed; it skips none     *)
(* that nobody took: for any number of workers that finish in any order,   *)
(* and any store that fails (flushProgress and the resume of the screening *)
(* runner).                                                                *)
THEOREM NobodysCellIsSkipped ==
  ASSUME IsFiniteSet(Workers), Cells \in Nat
  PROVE  SumSpec => []OnlyLostAreSkipped
<1> DEFINE Inv == part = "screen" => ScreenInv
<1>1. SumInit => Inv
  <2> SUFFICES ASSUME Screening!Init PROVE ScreenInv
    BY DEF SumInit
  <2>1. x1 \in ScreenRows /\ x1.done = 0
    BY DEF Screening!Init, ScreenRows, Statuses
  <2>2. x4 \in ScreenRuns /\ x4.pc = "off"
    BY DEF Screening!Init, Screening!NoRun, ScreenRuns
  <2>3. x5 \in [Workers -> -1 .. Cells] /\ x5 = Screening!Idle
    BY DEF Screening!Init, Screening!Idle
  <2> QED BY <2>1, <2>2, <2>3 DEF ScreenInv
<1>2. Inv /\ [SumNext]_all => Inv'
  <2>1. CASE UNCHANGED all
    BY <2>1 DEF all, xs, ScreenInv, Screening!Idle, Behind, Busy, Screening!InHand
  <2>2. CASE SumNext
    <3> SUFFICES ASSUME Inv, part' = "screen" PROVE ScreenInv'
      OBVIOUS
    <3>1. part = "screen" /\ Screening!Next
      BY <2>2 DEF SumNext, OfFirm, OfExec, Other
    <3> QED BY <3>1, ScreenStep
  <2> QED BY <2>1, <2>2
<1>3. Inv => OnlyLostAreSkipped
  BY DEF ScreenInv, Behind, OnlyLostAreSkipped, Screening!OnlyLostAreSkipped
<1> QED BY <1>1, <1>2, <1>3, PTL DEF SumSpec, SumSafe

-----------------------------------------------------------------------------
(* The rules of one symbol: x1 the table, x3 and x4 the executions that    *)
(* were recorded and opened today, x5 the day, x7 the notices under way,   *)
(* x9 who missed one, x10 the caches, x11 the executions.                  *)
Counts == [Rules!Rows -> Nat]
Loads == [stage : {"idle", "wait", "read"}, rows : SUBSET Rules!Rows, counts : Counts, day : Nat, stale : BOOLEAN]
Caches == [rows : SUBSET Rules!Rows, counts : Counts, ram : Counts, day : Nat, dirty : BOOLEAN, load : Loads]

CachesOK ==
  /\ x3 \in Counts /\ x4 \in Counts /\ x5 \in Nat
  /\ x10 \in [Executors -> Caches]
  /\ x11 \in [Executors -> [Rules!Rows -> {"no", "begun", "filled", "recorded"}]]

(* A snapshot in use, and one that is being read, is the table of now, if  *)
(* its process has heard of every change.                                  *)
CurrentOK(c, p, told, late, act) ==
  /\ ~ c.dirty /\ p \notin told /\ p \notin late.used => c.rows = act
  /\ c.load.stage = "read" /\ ~ c.load.stale /\ p \notin told /\ p \notin late.read => c.load.rows = act

MissedOK == DOMAIN x9 = {"used", "read"} /\ x9.read \subseteq x9.used

RuleInv ==
  /\ CachesOK /\ MissedOK
  /\ \A p \in Executors : CurrentOK(x10[p], p, x7, x9, Rules!Active)

(* A step that replaces one cache.                                         *)
LEMMA CacheSet ==
  ASSUME CachesOK, NEW p \in Executors, NEW c \in Caches, x10' = [x10 EXCEPT ![p] = c]
  PROVE  x10' \in [Executors -> Caches] /\ x10'[p] = c /\ \A q \in Executors : q # p => x10'[q] = x10[q]
BY DEF CachesOK

(* The values that a process starts with have the types.                   *)
LEMMA RulesEmpty == Rules!Zero \in Counts /\ Rules!NoLoad \in Loads /\ Rules!EmptyCache \in Caches
  BY DEF Rules!Zero, Counts, Rules!NoLoad, Loads, Rules!EmptyCache, Caches

(* What the steps of an executor make of its cache: the snapshot in use    *)
(* stays, or the one that was read takes its place; or only the day turns. *)
SameSnapshot(c, d) == d.rows = c.rows /\ d.counts = c.counts /\ d.ram = c.ram /\ d.day = c.day

Noticed(c, d) ==
  /\ SameSnapshot(c, d) /\ d.dirty = TRUE
  /\ d.load.stale = TRUE /\ d.load.stage = c.load.stage /\ d.load.day = c.load.day /\ d.load.counts = c.load.counts
Asked(c, d) ==
  /\ SameSnapshot(c, d) /\ d.dirty = c.dirty
  /\ d.load.stage = "read" => d.load.rows = Rules!Active /\ d.load.counts = x3 /\ d.load.day = x5
Takes(c, d) ==
  /\ d.rows = c.load.rows /\ d.dirty = FALSE /\ d.day = x5 /\ d.load.stage = "idle"
  /\ d.ram = Rules!Zero /\ d.counts = IF c.load.day = x5 THEN c.load.counts ELSE Rules!Zero
Counting(c, d, r, n) ==
  /\ d.rows = c.rows /\ d.dirty = c.dirty /\ d.load = c.load /\ d.day = x5
  /\ d.counts = IF c.day = x5 THEN c.counts ELSE Rules!Zero
  /\ \A s \in Rules!Rows : d.ram[s] = (IF c.day = x5 THEN c.ram[s] ELSE 0) + (IF s = r THEN n ELSE 0)

Becomes(p, d) == d \in Caches /\ x10' = [x10 EXCEPT ![p] = d]

LEMMA CacheTyped ==
  ASSUME CachesOK, NEW p \in Executors
  PROVE  x10 \in [Executors -> Caches] /\ x10[p] \in Caches /\ x10[p].load \in Loads /\ x3 \in Counts /\ x5 \in Nat
BY DEF CachesOK, Caches

(* What each operation on a cache makes of it.                             *)
LEMMA NoticeCache ==
  ASSUME CachesOK, NEW p \in Executors, Rules!Notified(p)
  PROVE  \E d : Becomes(p, d) /\ Noticed(x10[p], d)
<1> DEFINE c == x10[p]
           l == [c.load EXCEPT !.stale = TRUE]
           d == [c EXCEPT !.dirty = TRUE, !.load = l]
<1>0. x10 \in [Executors -> Caches] /\ c \in Caches /\ c.load \in Loads
  BY CacheTyped
<1>1. l \in Loads /\ l.stale = TRUE /\ l.stage = c.load.stage /\ l.day = c.load.day /\ l.counts = c.load.counts
  BY <1>0 DEF Loads
<1>2. x10' = [x10 EXCEPT ![p] = d]
  BY <1>0 DEF Rules!Notified, Caches, Loads
<1> HIDE DEF l
<1>3. d \in Caches /\ d.dirty = TRUE /\ d.load = l /\ d.rows = c.rows /\ d.counts = c.counts /\ d.ram = c.ram /\ d.day = c.day
  BY <1>0, <1>1 DEF Caches
<1> HIDE DEF d
<1>4. Noticed(c, d)
  BY <1>1, <1>3 DEF Noticed, SameSnapshot
<1> QED BY <1>2, <1>3, <1>4 DEF Becomes

LEMMA LoadCache ==
  ASSUME CachesOK, NEW p \in Executors, Rules!LoadBegin(p) \/ Rules!LoadFails(p) \/ Rules!LoadRead(p)
  PROVE  \E d : Becomes(p, d) /\ Asked(x10[p], d) /\ (d.load.stage = "read" => Rules!LoadRead(p))
<1> DEFINE c == x10[p]
<1>0. x10 \in [Executors -> Caches] /\ c \in Caches /\ c.load \in Loads /\ x3 \in Counts /\ x5 \in Nat
  BY CacheTyped
<1>1. PICK l \in Loads :
        /\ x10' = [x10 EXCEPT ![p].load = l]
        /\ l.stage = "read" => Rules!LoadRead(p) /\ l.rows = Rules!Active /\ l.counts = x3 /\ l.day = x5
  <2>1. CASE Rules!LoadBegin(p)
    <3> DEFINE l == [Rules!NoLoad EXCEPT !.stage = "wait"]
    <3>1. l \in Loads /\ l.stage = "wait"
      BY RulesEmpty DEF Loads, Rules!NoLoad
    <3>2. x10' = [x10 EXCEPT ![p].load = l]
      BY <2>1 DEF Rules!LoadBegin
    <3> HIDE DEF l
    <3> QED BY <3>1, <3>2
  <2>2. CASE Rules!LoadFails(p)
    <3>1. x10' = [x10 EXCEPT ![p].load = Rules!NoLoad] /\ Rules!NoLoad.stage = "idle"
      BY <2>2 DEF Rules!LoadFails, Rules!NoLoad
    <3> QED BY <3>1, RulesEmpty
  <2>3. CASE Rules!LoadRead(p)
    <3> DEFINE l == [c.load EXCEPT !.stage = "read", !.rows = Rules!Active, !.counts = x3, !.day = x5]
    <3>1. l \in Loads /\ l.stage = "read" /\ l.rows = Rules!Active /\ l.counts = x3 /\ l.day = x5
      BY <1>0 DEF Loads, Rules!Active
    <3>2. x10' = [x10 EXCEPT ![p].load = l]
      BY <1>0, <2>3 DEF Rules!LoadRead
    <3> HIDE DEF l
    <3> QED BY <2>3, <3>1, <3>2
  <2> QED BY <2>1, <2>2, <2>3
<1> DEFINE d == [c EXCEPT !.load = l]
<1>2. d \in Caches /\ d.load = l /\ d.rows = c.rows /\ d.counts = c.counts /\ d.ram = c.ram /\ d.day = c.day /\ d.dirty = c.dirty
  BY <1>0 DEF Caches
<1>3. x10' = [x10 EXCEPT ![p] = d]
  BY <1>0, <1>1 DEF Caches
<1> HIDE DEF d
<1>4. Asked(c, d)
  BY <1>1, <1>2 DEF Asked, SameSnapshot
<1> QED BY <1>1, <1>2, <1>3, <1>4 DEF Becomes

LEMMA EndCache ==
  ASSUME CachesOK, NEW p \in Executors, Rules!LoadEnd(p)
  PROVE  \E d : Becomes(p, d) /\ IF x10[p].load.stale THEN Asked(x10[p], d) /\ d.load.stage = "idle" ELSE Takes(x10[p], d)
<1> DEFINE c == x10[p]
           d == Rules!Loaded(c)
<1>0. x10 \in [Executors -> Caches] /\ c \in Caches /\ c.load \in Loads /\ x5 \in Nat
  BY CacheTyped
<1>1. x10' = [x10 EXCEPT ![p] = d]
  BY DEF Rules!LoadEnd
<1>2. Rules!NoLoad \in Loads /\ Rules!NoLoad.stage = "idle" /\ Rules!Zero \in Counts
  BY RulesEmpty DEF Rules!NoLoad
<1>3. CASE c.load.stale
  <2>1. d = [c EXCEPT !.load = Rules!NoLoad]
    BY <1>3 DEF Rules!Loaded
  <2> HIDE DEF d
  <2>2. d \in Caches /\ Asked(c, d) /\ d.load.stage = "idle"
    BY <1>0, <1>2, <2>1 DEF Caches, Asked, SameSnapshot
  <2> QED BY <1>1, <1>3, <2>2 DEF Becomes
<1>4. CASE ~ c.load.stale
  <2> DEFINE n == IF c.load.day = x5 THEN c.load.counts ELSE Rules!Zero
  <2>1. n \in Counts /\ c.load.rows \in SUBSET Rules!Rows
    BY <1>0, <1>2 DEF Loads
  <2>2. d = [c EXCEPT !.rows = c.load.rows, !.ram = Rules!Zero, !.day = x5, !.dirty = FALSE, !.load = Rules!NoLoad, !.counts = n]
    BY <1>4 DEF Rules!Loaded, Rules!Applied
  <2> HIDE DEF n, d
  <2>3. d \in Caches /\ d.rows = c.load.rows /\ d.ram = Rules!Zero /\ d.day = x5 /\ d.dirty = FALSE
        /\ d.load = Rules!NoLoad /\ d.counts = n
    BY <1>0, <1>2, <2>1, <2>2 DEF Caches
  <2>4. Takes(c, d)
    BY <1>2, <2>3 DEF Takes, n
  <2> QED BY <1>1, <1>4, <2>3, <2>4 DEF Becomes
<1> QED BY <1>3, <1>4

LEMMA CountCache ==
  ASSUME CachesOK, NEW p \in Executors, NEW r \in Rules!Rows, Rules!Match(p, r) \/ Rules!Fired(p, r)
  PROVE  \E d : Becomes(p, d) /\ Counting(x10[p], d, r, IF x11[p][r] = "recorded" THEN 1 ELSE 0)
<1> DEFINE c == x10[p]
           t == Rules!Today(c)
<1>0. x10 \in [Executors -> Caches] /\ c \in Caches /\ x5 \in Nat
  BY CacheTyped
<1>1. /\ t \in Caches /\ t.load = c.load /\ t.dirty = c.dirty /\ t.rows = c.rows /\ t.day = x5
      /\ t.counts = IF c.day = x5 THEN c.counts ELSE Rules!Zero
      /\ t.ram = IF c.day = x5 THEN c.ram ELSE Rules!Zero
  <2>1. CASE c.day = x5
    BY <1>0, <2>1 DEF Rules!Today
  <2>2. CASE c.day # x5
    BY <1>0, <2>2, RulesEmpty DEF Rules!Today, Caches
  <2> QED BY <2>1, <2>2
<1>2. \A s \in Rules!Rows : t.ram[s] = (IF c.day = x5 THEN c.ram[s] ELSE 0) /\ t.ram[s] \in Nat
  BY <1>0, <1>1 DEF Rules!Zero, Caches, Counts
<1>3. CASE Rules!Match(p, r)
  <2>1. x10' = [x10 EXCEPT ![p] = t] /\ x11[p][r] = "no"
    BY <1>3 DEF Rules!Match, Rules!MayBegin
  <2> HIDE DEF t
  <2>2. Counting(c, t, r, 0)
    BY <1>1, <1>2 DEF Counting
  <2> QED BY <1>1, <2>1, <2>2 DEF Becomes
<1>4. CASE Rules!Fired(p, r)
  <2> DEFINE d == [t EXCEPT !.ram = [t.ram EXCEPT ![r] = @ + 1]]
  <2>1. x10' = [x10 EXCEPT ![p] = d] /\ x11[p][r] = "recorded"
    BY <1>1, <1>4 DEF Rules!Fired, Caches
  <2> HIDE DEF t
  <2>2. d \in Caches /\ d.load = t.load /\ d.dirty = t.dirty /\ d.rows = t.rows /\ d.day = t.day /\ d.counts = t.counts
        /\ \A s \in Rules!Rows : d.ram[s] = t.ram[s] + (IF s = r THEN 1 ELSE 0)
    BY <1>1, <1>2 DEF Caches, Counts
  <2> HIDE DEF d
  <2>3. Counting(c, d, r, 1)
    BY <1>1, <1>2, <2>2 DEF Counting
  <2> QED BY <2>1, <2>2, <2>3 DEF Becomes
<1> QED BY <1>3, <1>4

LEMMA RestartCache ==
  ASSUME CachesOK, NEW p \in Executors, Rules!Restart(p)
  PROVE  \E d : Becomes(p, d) /\ d.dirty = TRUE /\ d.load.stage = "idle"
<1> DEFINE d == [Rules!EmptyCache EXCEPT !.day = x5]
<1>1. d \in Caches
  BY CacheTyped, RulesEmpty DEF Caches
<1>2. d.dirty = TRUE /\ d.load.stage = "idle"
  BY DEF Rules!EmptyCache, Rules!NoLoad
<1>3. x10' = [x10 EXCEPT ![p] = d]
  BY DEF Rules!Restart
<1> QED BY <1>1, <1>2, <1>3 DEF Becomes

(* Every operation of the rule service is one change, or it has only read. *)
RuleWork ==
  \/ Rules!upsertRuleSpec \/ \E o \in x12 : Rules!WriteRule(o)
  \/ \E r \in Rules!Rows : \/ Rules!activateRule(r) \/ Rules!pauseRule(r) \/ Rules!archiveRule(r)
                          \/ Rules!rejectRule(r) \/ Rules!rollbackRule(r)

LEMMA RuleChanges ==
  ASSUME RuleWork
  PROVE  (\E new : Rules!Change(new)) \/ UNCHANGED <<x1, x3, x4, x5, x7, x9, x10, x11>>
<1>1. ASSUME NEW r, NEW s, Rules!Intend(r, s) PROVE UNCHANGED <<x1, x3, x4, x5, x7, x9, x10, x11>>
  BY <1>1 DEF Rules!Intend
<1>2. CASE Rules!upsertRuleSpec
  BY <1>1, <1>2 DEF Rules!upsertRuleSpec
<1>3. ASSUME NEW o \in x12, Rules!WriteRule(o) PROVE \E new : Rules!Change(new)
  BY <1>3 DEF Rules!WriteRule
<1>4. ASSUME NEW r \in Rules!Rows, Rules!activateRule(r) \/ Rules!rollbackRule(r) PROVE \E new : Rules!Change(new)
  BY <1>4 DEF Rules!activateRule, Rules!rollbackRule
<1>5. ASSUME NEW r \in Rules!Rows, Rules!pauseRule(r) \/ Rules!archiveRule(r) \/ Rules!rejectRule(r)
      PROVE  UNCHANGED <<x1, x3, x4, x5, x7, x9, x10, x11>>
  BY <1>1, <1>5 DEF Rules!pauseRule, Rules!archiveRule, Rules!rejectRule
<1> QED BY <1>2, <1>3, <1>4, <1>5 DEF RuleWork

(* The types are kept by every step.                                       *)
LEMMA CachesKeep == ASSUME CachesOK, Rules!Next PROVE CachesOK'
<1> DEFINE States == {"no", "begun", "filled", "recorded"}
<1>0. /\ x3 \in Counts /\ x4 \in Counts /\ x5 \in Nat /\ x10 \in [Executors -> Caches]
      /\ x11 \in [Executors -> [Rules!Rows -> States]] /\ Rules!Zero \in Counts
  BY RulesEmpty DEF CachesOK
<1>1. ASSUME NEW c \in Counts, NEW r \in Rules!Rows PROVE [c EXCEPT ![r] = @ + 1] \in Counts
  BY DEF Counts
<1>2. ASSUME NEW p \in Executors, NEW d, Becomes(p, d) PROVE x10' \in [Executors -> Caches]
  BY <1>0, <1>2 DEF Becomes
<1>3. ASSUME NEW new, Rules!Change(new) PROVE CachesOK'
  BY <1>0, <1>3 DEF Rules!Change, CachesOK, Counts, Caches, Loads
<1>4. ASSUME NEW p \in Executors, \/ Rules!Notified(p) \/ Rules!LoadBegin(p) \/ Rules!LoadRead(p) \/ Rules!LoadEnd(p)
                                  \/ Rules!LoadFails(p)
      PROVE CachesOK'
  <2>1. x10' \in [Executors -> Caches]
    BY <1>2, <1>4, NoticeCache, LoadCache, EndCache
  <2>2. UNCHANGED <<x3, x4, x5, x11>>
    BY <1>4 DEF Rules!Notified, Rules!LoadBegin, Rules!LoadRead, Rules!LoadEnd, Rules!LoadFails
  <2> QED BY <1>0, <2>1, <2>2 DEF CachesOK, Counts
<1>5. ASSUME NEW p \in Executors, Rules!Disconnect(p) \/ Rules!Reconnect(p) PROVE CachesOK'
  BY <1>0, <1>5 DEF Rules!Disconnect, Rules!Reconnect, CachesOK, Counts
<1>6. ASSUME NEW p \in Executors, Rules!Restart(p) PROVE CachesOK'
  <2>1. x10' \in [Executors -> Caches]
    BY <1>2, <1>6, RestartCache
  <2>2. Rules!Idle \in [Rules!Rows -> States]
    BY DEF Rules!Idle
  <2>3. x11' \in [Executors -> [Rules!Rows -> States]]
    BY <1>0, <1>6, <2>2 DEF Rules!Restart
  <2>4. UNCHANGED <<x3, x4, x5>>
    BY <1>6 DEF Rules!Restart
  <2> QED BY <1>0, <2>1, <2>3, <2>4 DEF CachesOK, Counts
<1>7. ASSUME NEW p \in Executors, NEW r \in Rules!Rows,
             \/ Rules!Match(p, r) \/ Rules!Submit(p, r) \/ Rules!Blocked(p, r) \/ Rules!Record(p, r)
             \/ Rules!RecordFails(p, r) \/ Rules!Fired(p, r)
      PROVE CachesOK'
  <2>1. \E s \in States : x11' = [x11 EXCEPT ![p][r] = s]
    BY <1>7 DEF Rules!Match, Rules!Submit, Rules!Blocked, Rules!Record, Rules!RecordFails, Rules!Fired
  <2>2. x11' \in [Executors -> [Rules!Rows -> States]]
    BY <1>0, <2>1
  <2>3. x10' \in [Executors -> Caches]
    <3>1. CASE Rules!Match(p, r) \/ Rules!Fired(p, r)
      BY <1>2, <3>1, CountCache
    <3> QED BY <1>0, <1>7, <3>1 DEF Rules!Submit, Rules!Blocked, Rules!Record, Rules!RecordFails
  <2>4. x3' \in Counts /\ x4' \in Counts /\ x5' = x5
    BY <1>0, <1>1, <1>7 DEF Rules!Match, Rules!Submit, Rules!Blocked, Rules!Record, Rules!RecordFails, Rules!Fired
  <2> QED BY <1>0, <2>2, <2>3, <2>4 DEF CachesOK, Counts
<1>8. CASE Rules!Close \/ Rules!NextDay
  BY <1>0, <1>8 DEF Rules!Close, Rules!NextDay, CachesOK, Counts
<1>9. ASSUME UNCHANGED <<x3, x4, x5, x10, x11>> PROVE CachesOK'
  BY <1>0, <1>9 DEF CachesOK, Counts
<1>10. CASE RuleWork
  BY <1>3, <1>9, <1>10, RuleChanges
<1> QED BY <1>4, <1>5, <1>6, <1>7, <1>8, <1>10 DEF Rules!Next, RuleWork

(* A step that hides no change from a cache it does not touch.             *)
LEMMA StillCurrent ==
  ASSUME RuleInv, x1' = x1, NEW p \in Executors, x10'[p] = x10[p],
         p \in x7 => p \in x7' \/ (p \in x9'.used /\ p \in x9'.read),
         p \in x9.used => p \in x9'.used, p \in x9.read => p \in x9'.read
  PROVE  CurrentOK(x10[p], p, x7, x9, Rules!Active)'
<1>1. CurrentOK(x10[p], p, x7, x9, Rules!Active) /\ Rules!Active' = Rules!Active
  BY DEF RuleInv, Rules!Active, Rules!Rows
<1> QED BY <1>1 DEF CurrentOK

(* Every step of the rules keeps the invariant.                            *)
LEMMA RuleStep == ASSUME RuleInv, Rules!Next PROVE RuleInv'
<1>0. CachesOK /\ MissedOK /\ CachesOK' /\ x10 \in [Executors -> Caches]
      /\ \A p \in Executors : CurrentOK(x10[p], p, x7, x9, Rules!Active)
  BY CachesKeep DEF RuleInv, CachesOK
<1>1. ASSUME NEW ps, x9' = Rules!Miss(ps) PROVE MissedOK' /\ x9'.used = x9.used \cup ps /\ x9'.read = x9.read \cup ps
  BY <1>0, <1>1 DEF Rules!Miss, MissedOK
<1>2. ASSUME NEW new, Rules!Change(new) PROVE RuleInv'
  <2>1. x10' = x10 /\ x7' = x7 \cup (Executors \ x8) /\ x9' = Rules!Miss(x8)
    BY <1>2 DEF Rules!Change
  <2>2. ASSUME NEW p \in Executors PROVE CurrentOK(x10[p], p, x7, x9, Rules!Active)'
    BY <1>1, <2>1 DEF CurrentOK
  <2> QED BY <1>0, <1>1, <2>1, <2>2 DEF RuleInv
<1>3. ASSUME MissedOK', x1' = x1, NEW p \in Executors, NEW d, Becomes(p, d),
             \A q \in Executors : q # p => /\ q \in x7 => q \in x7'
                                           /\ q \in x9.used => q \in x9'.used
                                           /\ q \in x9.read => q \in x9'.read,
             CurrentOK(d, p, x7', x9', Rules!Active)
      PROVE  RuleInv'
  <2>1. x10'[p] = d /\ \A q \in Executors : q # p => x10'[q] = x10[q]
    BY <1>0, <1>3 DEF Becomes
  <2>2. Rules!Active' = Rules!Active
    BY <1>3 DEF Rules!Active, Rules!Rows
  <2>3. ASSUME NEW q \in Executors PROVE CurrentOK(x10[q], q, x7, x9, Rules!Active)'
    <3>1. CASE q = p
      BY <1>3, <2>1, <2>2, <3>1
    <3>2. CASE q # p
      BY <1>3, <2>1, <3>2, StillCurrent
    <3> QED BY <3>1, <3>2
  <2> QED BY <1>0, <1>3, <2>3 DEF RuleInv
<1>4. ASSUME NEW p \in Executors, Rules!Notified(p) PROVE RuleInv'
  <2>1. PICK d : Becomes(p, d) /\ Noticed(x10[p], d)
    BY <1>0, <1>4, NoticeCache
  <2>2. UNCHANGED <<x1, x9>> /\ x7' = x7 \ {p}
    BY <1>4 DEF Rules!Notified
  <2>3. CurrentOK(d, p, x7', x9', Rules!Active)
    BY <2>1 DEF CurrentOK, Noticed
  <2> QED BY <1>0, <1>3, <2>1, <2>2, <2>3 DEF MissedOK
<1>5. ASSUME NEW p \in Executors, Rules!LoadBegin(p) \/ Rules!LoadFails(p) \/ Rules!LoadRead(p) PROVE RuleInv'
  <2>1. PICK d : Becomes(p, d) /\ Asked(x10[p], d) /\ (d.load.stage = "read" => Rules!LoadRead(p))
    BY <1>0, <1>5, LoadCache
  <2>2. UNCHANGED <<x1, x7>> /\ x9' \in {x9, [x9 EXCEPT !.read = @ \ {p}]}
    BY <1>5 DEF Rules!LoadBegin, Rules!LoadFails, Rules!LoadRead
  <2>3. MissedOK' /\ x9'.used = x9.used /\ x9.read \ {p} \subseteq x9'.read
    BY <1>0, <2>2 DEF MissedOK
  <2>4. CurrentOK(d, p, x7', x9', Rules!Active)
    BY <1>0, <2>1, <2>2, <2>3 DEF CurrentOK, Asked, SameSnapshot
  <2> QED BY <1>3, <2>1, <2>2, <2>3, <2>4
<1>6. ASSUME NEW p \in Executors, Rules!LoadEnd(p) PROVE RuleInv'
  <2>1. PICK d : Becomes(p, d) /\ IF x10[p].load.stale THEN Asked(x10[p], d) /\ d.load.stage = "idle" ELSE Takes(x10[p], d)
    BY <1>0, <1>6, EndCache
  <2>2. UNCHANGED <<x1, x7>> /\ x10[p].load.stage = "read"
        /\ x9' = IF p \in x9.read \/ x10[p].load.stale THEN x9 ELSE [x9 EXCEPT !.used = @ \ {p}]
    BY <1>6 DEF Rules!LoadEnd
  <2>3. MissedOK' /\ x9'.read = x9.read /\ x9.used \ {p} \subseteq x9'.used
        /\ (p \in x9.read \/ x10[p].load.stale => x9' = x9)
    BY <1>0, <2>2 DEF MissedOK
  <2>4. CurrentOK(d, p, x7', x9', Rules!Active)
    <3>1. CASE x10[p].load.stale
      BY <1>0, <2>1, <2>2, <2>3, <3>1 DEF CurrentOK, Asked, SameSnapshot
    <3>2. CASE ~ x10[p].load.stale
      BY <1>0, <2>1, <2>2, <2>3, <3>2 DEF CurrentOK, Takes, MissedOK
    <3> QED BY <3>1, <3>2
  <2> QED BY <1>3, <2>1, <2>2, <2>3, <2>4
<1>7. ASSUME NEW p \in Executors, NEW r \in Rules!Rows, Rules!Match(p, r) \/ Rules!Fired(p, r) PROVE RuleInv'
  <2>1. PICK d : Becomes(p, d) /\ Counting(x10[p], d, r, IF x11[p][r] = "recorded" THEN 1 ELSE 0)
    BY <1>0, <1>7, CountCache
  <2>2. UNCHANGED <<x1, x7, x9>>
    BY <1>7 DEF Rules!Match, Rules!Fired
  <2>3. CurrentOK(d, p, x7', x9', Rules!Active)
    BY <1>0, <2>1, <2>2 DEF CurrentOK, Counting
  <2> QED BY <1>0, <1>3, <2>1, <2>2, <2>3 DEF MissedOK
<1>8. ASSUME NEW p \in Executors, Rules!Restart(p) PROVE RuleInv'
  <2>1. PICK d : Becomes(p, d) /\ d.dirty = TRUE /\ d.load.stage = "idle"
    BY <1>0, <1>8, RestartCache
  <2>2. UNCHANGED <<x1, x7, x9>>
    BY <1>8 DEF Rules!Restart
  <2>3. CurrentOK(d, p, x7', x9', Rules!Active)
    BY <2>1 DEF CurrentOK
  <2> QED BY <1>0, <1>3, <2>1, <2>2, <2>3 DEF MissedOK
<1>9. ASSUME NEW p \in Executors, Rules!Disconnect(p) PROVE RuleInv'
  <2>1. UNCHANGED <<x1, x10>> /\ x9' = Rules!Miss(x7 \cap {p}) /\ x7' = x7 \ {p}
    BY <1>9 DEF Rules!Disconnect
  <2>2. MissedOK' /\ x9'.used = x9.used \cup (x7 \cap {p}) /\ x9'.read = x9.read \cup (x7 \cap {p})
    BY <1>1, <2>1
  <2>3. \A q \in Executors : CurrentOK(x10[q], q, x7, x9, Rules!Active)'
    BY <2>1, <2>2, StillCurrent
  <2> QED BY <1>0, <2>2, <2>3 DEF RuleInv
<1>10. ASSUME UNCHANGED <<x1, x7, x9, x10>> PROVE RuleInv'
  BY <1>0, <1>10, StillCurrent DEF RuleInv, MissedOK
<1>11. ASSUME NEW p \in Executors, NEW r \in Rules!Rows,
              Rules!Submit(p, r) \/ Rules!Blocked(p, r) \/ Rules!Record(p, r) \/ Rules!RecordFails(p, r)
       PROVE  UNCHANGED <<x1, x7, x9, x10>>
  BY <1>11 DEF Rules!Submit, Rules!Blocked, Rules!Record, Rules!RecordFails
<1>12. Rules!Close \/ Rules!NextDay \/ (\E p \in Executors : Rules!Reconnect(p)) => UNCHANGED <<x1, x7, x9, x10>>
  BY DEF Rules!Close, Rules!NextDay, Rules!Reconnect
<1>13. CASE RuleWork
  BY <1>2, <1>10, <1>13, RuleChanges
<1> QED BY <1>4, <1>5, <1>6, <1>7, <1>8, <1>9, <1>10, <1>11, <1>12, <1>13 DEF Rules!Next, RuleWork

LEMMA RuleStarts == Rules!Init => RuleInv
<1> SUFFICES ASSUME Rules!Init PROVE RuleInv
  OBVIOUS
<1>1. CachesOK
  BY RulesEmpty DEF Rules!Init, CachesOK, Rules!Idle
<1>2. MissedOK
  BY DEF Rules!Init, MissedOK
<1>3. \A p \in Executors : x10[p].dirty = TRUE /\ x10[p].load.stage = "idle"
  BY DEF Rules!Init, Rules!EmptyCache, Rules!NoLoad
<1> QED BY <1>1, <1>2, <1>3 DEF RuleInv, CurrentOK

(* A cache that heard of every change has exactly the rules that are       *)
(* active, however loads, changes and notices overlap, for any number of   *)
(* executors (RuleCache.load and invalidate of the micro executor).        *)
THEOREM HeardCacheIsCurrent == SumSpec => []CacheIsCurrent
<1> DEFINE Inv == part = "rules" => RuleInv
<1>1. SumInit => Inv
  BY RuleStarts DEF SumInit
<1>2. Inv /\ [SumNext]_all => Inv'
  <2>1. CASE UNCHANGED all
    BY <2>1 DEF all, xs, RuleInv, CachesOK, MissedOK, CurrentOK, Rules!Active, Rules!Rows, Counts, Caches, Loads
  <2>2. CASE SumNext
    <3> SUFFICES ASSUME Inv, part' = "rules" PROVE RuleInv'
      OBVIOUS
    <3>1. part = "rules" /\ Rules!Next
      BY <2>2 DEF SumNext, OfFirm, OfExec, Other
    <3> QED BY <3>1, RuleStep
  <2> QED BY <2>1, <2>2
<1>3. Inv => CacheIsCurrent
  BY DEF RuleInv, CurrentOK, CacheIsCurrent, Rules!CacheIsCurrent
<1> QED BY <1>1, <1>2, <1>3, PTL DEF SumSpec, SumSafe

(* One rule on one day: op positions opened and td recorded, a cache c     *)
(* that counts them, an execution e. An opened position is recorded, or    *)
(* about to be, and the cache counts it, or is about to; a load that was   *)
(* read before the day turned counts for nothing, and one that is being    *)
(* read has no execution beside it.                                        *)
Owed(e) == IF e \in {"filled", "recorded"} THEN 1 ELSE 0
Counted(c, d, r) == IF c.day = d THEN c.counts[r] + c.ram[r] ELSE 0

DayOK(c, e, op, td, d, r) ==
  /\ c.day <= d
  /\ op <= td + (IF e = "filled" THEN 1 ELSE 0)
  /\ op + (IF e = "begun" THEN 1 ELSE 0) <= Limit
  /\ op <= Counted(c, d, r) + Owed(e)
  /\ c.load.stage = "read" =>
       e = "no" /\ c.load.day <= d /\ op <= (IF c.load.day = d THEN c.load.counts[r] ELSE 0)

DailyInv ==
  /\ \A r \in Rules!Rows : x4[r] <= Limit
  /\ \A p \in Executors, r \in Rules!Rows : DayOK(x10[p], x11[p][r], x4[r], x3[r], x5, r)

(* The counters of a cache are natural numbers.                            *)
LEMMA CacheNumbers ==
  ASSUME NEW c \in Caches, NEW r \in Rules!Rows, NEW d \in Nat
  PROVE  /\ c.day \in Nat /\ c.load.day \in Nat /\ c.counts[r] \in Nat /\ c.ram[r] \in Nat /\ c.load.counts[r] \in Nat
         /\ Counted(c, d, r) \in Nat
<1>1. /\ c.day \in Nat /\ c.load.day \in Nat /\ c.counts[r] \in Nat /\ c.ram[r] \in Nat /\ c.load.counts[r] \in Nat
  BY DEF Caches, Loads, Counts
<1> QED BY <1>1 DEF Counted

LEMMA OwedIs == \A e : Owed(e) \in {0, 1}
  BY DEF Owed

(* Every step of one executor keeps the daily invariant.                   *)
LEMMA DailyStep ==
  ASSUME \A p, q \in Executors : p = q, RuleEnv \cap {"crash", "recordfail"} = {}, Limit \in Nat,
         CachesOK, DailyInv, Rules!Next
  PROVE  DailyInv'
<1>0. /\ x3 \in Counts /\ x4 \in Counts /\ x5 \in Nat /\ x10 \in [Executors -> Caches]
      /\ x11 \in [Executors -> [Rules!Rows -> {"no", "begun", "filled", "recorded"}]]
  BY DEF CachesOK
<1>1. \A r \in Rules!Rows : x3[r] \in Nat /\ x4[r] \in Nat
  BY <1>0 DEF Counts
<1>2. Rules!Rows' = Rules!Rows
  BY DEF Rules!Rows
<1>3. ASSUME NEW p \in Executors,
             \A r \in Rules!Rows : DayOK(x10'[p], x11'[p][r], x4'[r], x3'[r], x5', r)
      PROVE  DailyInv'
  <2>1. \A q \in Executors : q = p
    OBVIOUS
  <2>2. \A r \in Rules!Rows : x4'[r] <= Limit
    <3> SUFFICES ASSUME NEW r \in Rules!Rows PROVE x4'[r] <= Limit
      OBVIOUS
    <3>1. x4'[r] + (IF x11'[p][r] = "begun" THEN 1 ELSE 0) <= Limit /\ x4' \in [Rules!Rows -> Nat]
      BY <1>3, <1>2, CachesKeep DEF DayOK, CachesOK, Counts
    <3> QED BY <3>1
  <2> QED BY <1>2, <1>3, <2>1, <2>2 DEF DailyInv
<1>4. ASSUME UNCHANGED <<x3, x4, x5, x10, x11>> PROVE DailyInv'
  BY <1>2, <1>4 DEF DailyInv
<1>5. ASSUME NEW p \in Executors, Rules!Notified(p) \/ Rules!LoadBegin(p) \/ Rules!LoadFails(p) \/ Rules!LoadRead(p)
      PROVE  DailyInv'
  <2> DEFINE c == x10[p]
  <2>1. PICK d : /\ Becomes(p, d) /\ SameSnapshot(c, d)
                 /\ d.load.stage = "read" => \/ d.load.stage = c.load.stage /\ d.load.day = c.load.day
                                                /\ d.load.counts = c.load.counts
                                             \/ d.load.counts = x3 /\ d.load.day = x5 /\ Rules!LoadRead(p)
    <3>1. CASE Rules!Notified(p)
      BY <3>1, NoticeCache DEF Noticed
    <3>2. CASE Rules!LoadBegin(p) \/ Rules!LoadFails(p) \/ Rules!LoadRead(p)
      BY <3>2, LoadCache DEF Asked
    <3> QED BY <1>5, <3>1, <3>2
  <2>2. UNCHANGED <<x3, x4, x5, x11>>
    BY <1>5 DEF Rules!Notified, Rules!LoadBegin, Rules!LoadRead, Rules!LoadFails
  <2>3. Rules!LoadRead(p) => \A r \in Rules!Rows : x11[p][r] = "no"
    BY DEF Rules!LoadRead, Rules!Executing
  <2>4. x10'[p] = d /\ d \in Caches /\ c \in Caches
    BY <1>0, <2>1 DEF Becomes
  <2>5. ASSUME NEW r \in Rules!Rows PROVE DayOK(d, x11[p][r], x4[r], x3[r], x5, r)
    <3>1. DayOK(c, x11[p][r], x4[r], x3[r], x5, r) /\ Counted(d, x5, r) = Counted(c, x5, r) /\ d.day = c.day
      BY <2>1 DEF DailyInv, Counted, SameSnapshot
    <3>2. d.load.stage = "read" =>
            /\ x11[p][r] = "no" /\ d.load.day <= x5
            /\ x4[r] <= (IF d.load.day = x5 THEN d.load.counts[r] ELSE 0)
      BY <1>0, <1>1, <2>1, <2>3, <3>1 DEF DayOK
    <3> QED BY <3>1, <3>2 DEF DayOK
  <2> QED BY <1>3, <2>2, <2>4, <2>5
<1>6. ASSUME NEW p \in Executors, Rules!LoadEnd(p) PROVE DailyInv'
  <2> DEFINE c == x10[p]
  <2>1. PICK d : Becomes(p, d) /\ IF c.load.stale THEN Asked(c, d) /\ d.load.stage = "idle" ELSE Takes(c, d)
    BY <1>6, EndCache
  <2>2. UNCHANGED <<x3, x4, x5, x11>> /\ c.load.stage = "read"
    BY <1>6 DEF Rules!LoadEnd
  <2>3. x10'[p] = d /\ d \in Caches /\ c \in Caches /\ d.load.stage = "idle"
    BY <1>0, <2>1 DEF Becomes, Takes
  <2>4. ASSUME NEW r \in Rules!Rows PROVE DayOK(d, x11[p][r], x4[r], x3[r], x5, r)
    <3>1. DayOK(c, x11[p][r], x4[r], x3[r], x5, r)
      BY DEF DailyInv
    <3>2. d.day <= x5 /\ x4[r] <= Counted(d, x5, r)
      <4>1. CASE c.load.stale
        <5>1. d.day = c.day /\ Counted(d, x5, r) = Counted(c, x5, r)
          BY <2>1, <4>1 DEF Asked, SameSnapshot, Counted
        <5>2. Owed(x11[p][r]) = 0 /\ Counted(c, x5, r) \in Nat
          BY <1>0, <2>2, <2>3, <3>1, CacheNumbers DEF DayOK, Owed
        <5> QED BY <1>1, <3>1, <5>1, <5>2 DEF DayOK
      <4>2. CASE ~ c.load.stale
        <5>1. d.day = x5 /\ d.ram[r] = 0 /\ d.counts[r] = IF c.load.day = x5 THEN c.load.counts[r] ELSE 0
          BY <2>1, <4>2 DEF Takes, Rules!Zero
        <5>2. Counted(d, x5, r) = IF c.load.day = x5 THEN c.load.counts[r] ELSE 0
          <6>1. c.load.counts[r] \in Nat
            BY <1>0, <2>3, CacheNumbers
          <6> QED BY <5>1, <6>1 DEF Counted
        <5> QED BY <1>0, <2>2, <3>1, <5>1, <5>2 DEF DayOK
      <4> QED BY <4>1, <4>2
    <3>3. x11[p][r] = "no"
      BY <2>2, <3>1 DEF DayOK
    <3>4. Counted(d, x5, r) \in Nat /\ Owed(x11[p][r]) = 0
      BY <1>0, <2>3, <3>3, CacheNumbers DEF Owed
    <3> QED BY <1>1, <2>3, <3>1, <3>2, <3>3, <3>4 DEF DayOK
  <2> QED BY <1>3, <2>2, <2>3, <2>4
<1>7. ASSUME NEW p \in Executors, NEW r \in Rules!Rows, Rules!Match(p, r) \/ Rules!Fired(p, r) PROVE DailyInv'
  <2> DEFINE c == x10[p]
             e == x11[p][r]
             n == IF e = "recorded" THEN 1 ELSE 0
             f == IF e = "recorded" THEN "no" ELSE "begun"
  <2>1. PICK d : Becomes(p, d) /\ Counting(c, d, r, n)
    BY <1>7, CountCache
  <2>2. UNCHANGED <<x3, x4, x5>> /\ x11' = [x11 EXCEPT ![p][r] = f] /\ e \in {"no", "recorded"}
        /\ (e = "no" => c.load.stage = "idle" /\ Counted(c, x5, r) < Limit)
    <3>1. CASE Rules!Match(p, r)
      BY <1>0, <3>1 DEF Rules!Match, Rules!MayBegin, Rules!Today, Counted, Rules!Zero, Caches
    <3>2. CASE Rules!Fired(p, r)
      BY <3>2 DEF Rules!Fired
    <3> QED BY <1>7, <3>1, <3>2
  <2>3. x10'[p] = d /\ d \in Caches /\ c \in Caches
    BY <1>0, <2>1 DEF Becomes
  <2>4. ASSUME NEW s \in Rules!Rows PROVE DayOK(d, x11'[p][s], x4[s], x3[s], x5, s)
    <3>1. DayOK(c, x11[p][s], x4[s], x3[s], x5, s)
      BY DEF DailyInv
    <3>2. x11'[p][s] = IF s = r THEN f ELSE x11[p][s]
      BY <1>0, <2>2
    <3>3. Counted(d, x5, s) = Counted(c, x5, s) + (IF s = r THEN n ELSE 0)
      BY <1>0, <2>1, <2>3, CacheNumbers DEF Counting, Counted, Rules!Zero
    <3>4. d.day = x5 /\ d.load = c.load
      BY <2>1 DEF Counting
    <3>5. Counted(c, x5, s) \in Nat
      BY <1>0, <2>3, CacheNumbers
    <3>6. CASE s = r
      BY <1>0, <1>1, <2>2, <3>1, <3>2, <3>3, <3>4, <3>5, <3>6 DEF DayOK, Owed
    <3>7. CASE s # r
      BY <1>0, <1>1, <3>1, <3>2, <3>3, <3>4, <3>5, <3>7 DEF DayOK
    <3> QED BY <3>6, <3>7
  <2> QED BY <1>3, <2>2, <2>3, <2>4
<1>8. ASSUME NEW p \in Executors, NEW r \in Rules!Rows, Rules!Submit(p, r) \/ Rules!Blocked(p, r) \/ Rules!Record(p, r)
      PROVE  DailyInv'
  <2> DEFINE c == x10[p]
  <2>1. UNCHANGED <<x5, x10>> /\ c \in Caches
    BY <1>0, <1>8 DEF Rules!Submit, Rules!Blocked, Rules!Record
  <2>2. PICK f : x11' = [x11 EXCEPT ![p][r] = f] /\
          \/ x11[p][r] = "begun" /\ f = "filled" /\ x4' = [x4 EXCEPT ![r] = @ + 1] /\ x3' = x3
          \/ x11[p][r] = "begun" /\ f = "no" /\ x4' = x4 /\ x3' = x3
          \/ x11[p][r] = "filled" /\ f = "recorded" /\ x3' = [x3 EXCEPT ![r] = @ + 1] /\ x4' = x4
    BY <1>8 DEF Rules!Submit, Rules!Blocked, Rules!Record
  <2>3. ASSUME NEW s \in Rules!Rows PROVE DayOK(c, x11'[p][s], x4'[s], x3'[s], x5, s)
    <3>1. DayOK(c, x11[p][s], x4[s], x3[s], x5, s) /\ Counted(c, x5, s) \in Nat
      BY <1>0, <2>1, CacheNumbers DEF DailyInv
    <3>2. CASE s = r
      <4>1. x11'[p][s] = f
        BY <1>0, <2>2, <3>2
      <4>2. x4 \in [Rules!Rows -> Nat] /\ x3 \in [Rules!Rows -> Nat]
        BY <1>0 DEF Counts
      <4>3. \/ x11[p][s] = "begun" /\ f = "filled" /\ x4'[s] = x4[s] + 1 /\ x3'[s] = x3[s]
            \/ x11[p][s] = "begun" /\ f = "no" /\ x4'[s] = x4[s] /\ x3'[s] = x3[s]
            \/ x11[p][s] = "filled" /\ f = "recorded" /\ x4'[s] = x4[s] /\ x3'[s] = x3[s] + 1
        BY <2>2, <3>2, <4>2
      <4> QED BY <1>0, <1>1, <3>1, <4>1, <4>3 DEF DayOK, Owed
    <3>3. CASE s # r
      BY <1>0, <2>2, <3>1, <3>3 DEF Counts
    <3> QED BY <3>2, <3>3
  <2> QED BY <1>3, <2>1, <2>3
<1>9. ASSUME Rules!NextDay PROVE DailyInv'
  <2>1. UNCHANGED <<x10, x11>> /\ x5' = x5 + 1 /\ x3' = Rules!Zero /\ x4' = Rules!Zero
    BY <1>9 DEF Rules!NextDay
  <2>2. \A r \in Rules!Rows : x4'[r] = 0 /\ x3'[r] = 0
    BY <2>1 DEF Rules!Zero
  <2>3. ASSUME NEW p \in Executors, NEW r \in Rules!Rows PROVE DayOK(x10[p], x11[p][r], 0, 0, x5 + 1, r)
    <3>1. DayOK(x10[p], x11[p][r], x4[r], x3[r], x5, r) /\ x10[p] \in Caches
      BY <1>0 DEF DailyInv
    <3>2. x10[p].day <= x5 + 1 /\ Counted(x10[p], x5 + 1, r) \in Nat
      BY <1>0, <3>1, CacheNumbers DEF DayOK
    <3>3. x10[p].load.stage = "read" => x11[p][r] = "no" /\ x10[p].load.day <= x5 /\ x10[p].load.day # x5 + 1
      BY <1>0, <3>1, CacheNumbers DEF DayOK
    <3>4. x11[p][r] = "begun" => 1 <= Limit
      BY <1>1, <3>1 DEF DayOK
    <3> HIDE <3>1
    <3>5. x10[p].load.day \in Nat
      BY <3>1, CacheNumbers, <1>0
    <3> QED BY <1>0, <3>2, <3>3, <3>4, <3>5, OwedIs DEF DayOK
  <2> QED BY <1>2, <2>1, <2>2, <2>3 DEF DailyInv
<1>10. (\E new : Rules!Change(new)) => UNCHANGED <<x3, x4, x5, x10, x11>>
  BY DEF Rules!Change
<1>11. Rules!Close \/ (\E p \in Executors : Rules!Disconnect(p) \/ Rules!Reconnect(p)) => UNCHANGED <<x3, x4, x5, x10, x11>>
  BY DEF Rules!Close, Rules!Disconnect, Rules!Reconnect
<1>12. ~ (\E p \in Executors : Rules!Restart(p)) /\ ~ (\E p \in Executors, r \in Rules!Rows : Rules!RecordFails(p, r))
  BY DEF Rules!Restart, Rules!RecordFails
<1>13. CASE RuleWork
  BY <1>4, <1>10, <1>13, RuleChanges
<1> QED BY <1>4, <1>5, <1>6, <1>7, <1>8, <1>9, <1>11, <1>12, <1>13 DEF Rules!Next, RuleWork

LEMMA DailyStarts == ASSUME Limit \in Nat PROVE Rules!Init => DailyInv
<1> SUFFICES ASSUME Rules!Init PROVE DailyInv
  OBVIOUS
<1>1. /\ \A r \in Rules!Rows : x4[r] = 0 /\ x3[r] = 0
      /\ \A p \in Executors, r \in Rules!Rows : x11[p][r] = "no"
      /\ \A p \in Executors : x10[p] = Rules!EmptyCache /\ x10[p].day = 0 /\ x10[p].load.stage = "idle"
      /\ x5 = 0
  BY DEF Rules!Init, Rules!Zero, Rules!Idle, Rules!EmptyCache, Rules!NoLoad
<1>2. \A r \in Rules!Rows : Counted(Rules!EmptyCache, 0, r) \in Nat
  BY RulesEmpty, CacheNumbers
<1> QED BY <1>1, <1>2 DEF DailyInv, DayOK, Owed

(* A rule opens no more positions on a day than its limit allows, however  *)
(* loads, changes, notices and the turn of the day fall between the match  *)
(* and the note of an execution, if one executor runs, it does not die     *)
(* after an order, and what it executed is recorded (match, load and       *)
(* noteFired of the micro executor).                                       *)
THEOREM LimitHolds ==
  ASSUME \A p, q \in Executors : p = q, RuleEnv \cap {"crash", "recordfail"} = {}, Limit \in Nat
  PROVE  SumSpec => []DailyLimit
<1> DEFINE Inv == part = "rules" => CachesOK /\ DailyInv
<1>1. SumInit => Inv
  BY RuleStarts, DailyStarts DEF SumInit, RuleInv
<1>2. Inv /\ [SumNext]_all => Inv'
  <2>1. CASE UNCHANGED all
    BY <2>1 DEF all, xs, DailyInv, CachesOK, Rules!Rows, Counts, Caches, Loads
  <2>2. CASE SumNext
    <3> SUFFICES ASSUME Inv, part' = "rules" PROVE (CachesOK /\ DailyInv)'
      OBVIOUS
    <3>1. part = "rules" /\ Rules!Next
      BY <2>2 DEF SumNext, OfFirm, OfExec, Other
    <3> QED BY <3>1, CachesKeep, DailyStep
  <2> QED BY <2>1, <2>2
<1>3. Inv => DailyLimit
  BY DEF DailyInv, DailyLimit, Rules!DailyLimit
<1> QED BY <1>1, <1>2, <1>3, PTL DEF SumSpec, SumSafe

-----------------------------------------------------------------------------
(* The planner: x1 the input that was drawn, x2 its plan, x3 what is       *)
(* fitted. The operators of the instance are those of TwapPlan, of which   *)
(* TwapPlanProof speaks.                                                   *)
LEMMA SameSteps == ASSUME NEW s PROVE Planner!Steps(s) = Steps(s)
  BY DEF Planner!Steps, Steps

LEMMA SameSlots == ASSUME NEW a, NEW b, NEW c PROVE Planner!slotCount(a, b, c) = slotCount(a, b, c)
  BY DEF Planner!slotCount, Planner!CeilDiv, slotCount, CeilDiv

LEMMA SameRepair ==
  ASSUME NEW s, NEW lo, NEW hi, NEW total
  PROVE  Planner!repair(s, lo, hi, total) = repair(s, lo, hi, total)
<1>1. ASSUME NEW r PROVE Planner!Repaired(r, lo, hi, total) = Repaired(r, lo, hi, total)
  BY SameSteps DEF Planner!Repaired, Planner!InBounds, Repaired, InBounds
<1> QED BY <1>1 DEF Planner!repair, Planner!NextPass, Planner!InBounds, Planner!RepairPass, Planner!RepairSlice,
            Planner!Balanced, Planner!Spread, Planner!Move, Planner!Smaller,
            repair, NextPass, InBounds, RepairPass, RepairSlice, Balanced, Spread, Move, Smaller

LEMMA SameSplit ==
  ASSUME NEW p, NEW n, NEW raw
  PROVE  Planner!Split(p, n, raw) = Split(p, n, raw)
<1>1. ASSUME NEW s PROVE Planner!JitteredQty(s, p.delta) = JitteredQty(s, p.delta)
  BY SameSteps DEF Planner!JitteredQty, Planner!Larger, Planner!Smaller, JitteredQty, Larger, Smaller
<1>2. Planner!scheduleTimes(n, p) = scheduleTimes(n, p)
  BY DEF Planner!scheduleTimes, Planner!NextTime, Planner!Time, Planner!Smaller, Planner!Larger,
         scheduleTimes, NextTime, Time, Smaller, Larger
<1>3. ASSUME NEW j, NEW t PROVE Planner!FromSplit(p, n, raw, j, t) = FromSplit(p, n, raw, j, t)
  BY DEF Planner!FromSplit, Planner!Refused, FromSplit, Refused
<1> QED BY <1>1, <1>2, <1>3, SameRepair DEF Planner!Split, Split

LEMMA SamePlan == ASSUME NEW p PROVE Planner!planTwap(p) = planTwap(p)
<1>1. ASSUME NEW n PROVE Planner!EvenSplit(p.total, n) = EvenSplit(p.total, n)
  BY DEF Planner!EvenSplit, EvenSplit
<1>2. ASSUME NEW slots, NEW n PROVE Planner!WithSlices(p, slots, n) = WithSlices(p, slots, n)
  BY <1>1, SameSplit, SameRepair DEF Planner!WithSlices, Planner!CeilDiv, Planner!Refused, WithSlices, CeilDiv, Refused
<1> QED BY <1>2, SameSlots DEF Planner!planTwap, Planner!Refused, Planner!Smaller, planTwap, Refused, Smaller

LEMMA SameFit == ASSUME NEW p, PlanInput(p) PROVE Planner!fitPlan(p) = fitPlan(p)
<1> DEFINE cap == Planner!slotCount(p.start, p.deadline, p.interval) * p.hi
           b == [plan |-> Planner!Refused("UNSCHEDULABLE"), total |-> p.total, done |-> p.total <= 0]
           Eq(g) == g = [m \in 0 .. 8 |-> IF m = 0 THEN b ELSE Planner!Attempt(g[m - 1], p, cap)]
           after == CHOOSE g : Eq(g)
<1>1. Planner!fitPlan(p) = after[8].plan
  BY DEF Planner!fitPlan
<1>2. /\ cap = slotCount(p.start, p.deadline, p.interval) * p.hi
      /\ b = [plan |-> Refused("UNSCHEDULABLE"), total |-> p.total, done |-> p.total <= 0]
  BY SameSlots DEF Planner!Refused, Refused
<1> HIDE DEF cap, b
<1>3. PICK g \in [0 .. 8 -> Fitting(p)] :
        /\ g[0] = b
        /\ \A m \in 1 .. 8 : g[m] = Attempt(g[m - 1], p, cap)
        /\ fitPlan(p) = g[8].plan
  BY <1>2, FitRounds
<1>4. ASSUME NEW a PROVE Planner!Attempt(a, p, cap) = Attempt(a, p, cap)
  BY SamePlan DEF Planner!Attempt, Planner!Tried, Planner!Retryable, Planner!Smaller, Attempt, Tried, Retryable, Smaller
<1>5. Eq(g)
  <2>1. ASSUME NEW m \in 0 .. 8 PROVE g[m] = IF m = 0 THEN b ELSE Planner!Attempt(g[m - 1], p, cap)
    BY <1>3, <1>4
  <2> QED BY <1>3, <2>1
<1>6. Eq(after)
  BY <1>5
<1> HIDE DEF after
<1> DEFINE T == {m \in 0 .. 8 : after[m] = g[m]}
<1>7. 0 \in T
  BY <1>3, <1>6
<1>8. ASSUME NEW m \in 1 .. 8, m - 1 \in T PROVE m \in T
  <2>1. after[m] = Planner!Attempt(after[m - 1], p, cap)
    BY <1>6
  <2> QED BY <1>3, <1>4, <1>8, <2>1
<1> HIDE DEF T
<1>9. 8 \in T
  BY <1>7, <1>8, Climb
<1> QED BY <1>1, <1>3, <1>9 DEF T

LEMMA SameSound == ASSUME NEW p, NEW r, NEW total PROVE Planner!Sound(p, r, total) = Sound(p, r, total)
  BY SameSteps DEF Planner!Sound, Planner!InBounds, Planner!Increasing, Sound, InBounds, Increasing

(* An input is planned and fitted as the planner does, or not yet.         *)
PlanInv ==
  /\ x1 \in Planner!Inputs /\ slotCount(x1.start, x1.deadline, x1.interval) <= PlanSlots
  /\ x2 # Planner!NoPlan => x2 = planTwap(x1) /\ x3 = fitPlan(x1)

(* A jitter is a change of the quantity for every slot. *)
DeltasTyped == PlanSlots \in Int /\ \A d \in PlanDeltas : \A i \in 1 .. PlanSlots : d[i] \in Int

LEMMA InputIs ==
  ASSUME PlanInv, DeltasTyped, PlanIntervals \subseteq Nat \ {0}
  PROVE  PlanInput(x1) /\ x1 = [f \in PlanFields |-> x1[f]] /\ Punctual(x1)
<1>1. PICK d \in PlanIntervals :
        x1 \in [total : 1 .. PlanTotal, lo : 1 .. PlanSlice, hi : 1 .. PlanSlice, start : {0}, deadline : 1 .. PlanDeadline,
                interval : {d}, delta : PlanDeltas, late : [1 .. PlanSlots -> {-(d \div 2), d \div 2}]]
  BY DEF PlanInv, Planner!Inputs
<1>2. /\ x1.total \in Nat \ {0} /\ x1.lo \in Nat \ {0} /\ x1.hi \in Nat \ {0} /\ x1.start = 0 /\ x1.deadline \in Nat \ {0}
      /\ x1.interval = d /\ x1.delta \in PlanDeltas /\ x1.late \in [1 .. PlanSlots -> {-(d \div 2), d \div 2}]
  BY <1>1
<1>3. d \in Nat \ {0} /\ d \div 2 \in Nat
  BY <1>1
<1>4. DOMAIN x1 = PlanFields /\ x1 = [f \in PlanFields |-> x1[f]]
  BY <1>1 DEF PlanFields
<1>5. Windowed(x1)
  BY <1>2, <1>3 DEF Windowed
<1>6. slotCount(x1.start, x1.deadline, x1.interval) \in Int
  <2>1. x1.deadline - x1.start \in Nat \ {0}
    BY <1>2
  <2> QED BY <1>2, <1>3, <2>1, Ceil DEF slotCount
<1>7. ASSUME NEW i \in 1 .. slotCount(x1.start, x1.deadline, x1.interval)
      PROVE  x1.late[i] \in Int /\ x1.delta[i] \in Int /\ x1.late[i] \in -(x1.interval \div 2) .. (x1.interval \div 2)
  <2>1. i \in 1 .. PlanSlots
    BY <1>6 DEF PlanInv, DeltasTyped
  <2>2. x1.late[i] \in {-(d \div 2), d \div 2} /\ x1.delta[i] \in Int
    BY <1>2, <2>1 DEF DeltasTyped
  <2> QED BY <1>2, <1>3, <2>2
<1>8. PlanInput(x1)
  <2>1. x1.total \in Int /\ x1.hi \in Nat
    BY <1>2
  <2> QED BY <1>2, <1>4, <1>5, <1>7, <2>1 DEF PlanInput
<1>9. Punctual(x1)
  BY <1>7 DEF Punctual
<1> QED BY <1>4, <1>8, <1>9

LEMMA PlanIs == ASSUME PlanInv, DeltasTyped, PlanIntervals \subseteq Nat \ {0} PROVE Planner!PlanIsExact
<1> SUFFICES ASSUME x2 # Planner!NoPlan
             PROVE  /\ x2.code = "OK" <=> Planner!Splits(x1) # {}
                    /\ x2.code = "OK" => Planner!Sound(x1, x2, x1.total) /\ x3 = x2
                    /\ x3.code = "OK" => Planner!Steps(x3.qty) <= x1.total /\ Planner!Sound(x1, x3, Planner!Steps(x3.qty))
  BY DEF Planner!PlanIsExact
<1>1. PlanInput(x1) /\ x1 = [f \in PlanFields |-> x1[f]] /\ Punctual(x1)
  BY InputIs
<1>2. x2 = planTwap(x1) /\ x3 = fitPlan(x1)
  BY DEF PlanInv
<1>3. /\ x2.code = "OK" <=> \E n \in 1 .. slotCount(x1.start, x1.deadline, x1.interval) : Carries(x1, n)
      /\ x2.code = "OK" => Sound(x1, x2, x1.total) /\ x3 = x2
      /\ x3.code = "OK" => Steps(x3.qty) <= x1.total /\ Sound(x1, x3, Steps(x3.qty))
  BY <1>1, <1>2, PlanExact
<1>4. Planner!Splits(x1) # {} <=> \E n \in 1 .. slotCount(x1.start, x1.deadline, x1.interval) : Carries(x1, n)
  BY SameSlots DEF Planner!Splits, Carries
<1> QED BY <1>3, <1>4, SameSteps, SameSound

(* A plan exists exactly if some number of slices within the window can    *)
(* carry the target, and it is then the whole target in legal slices at    *)
(* increasing times before the deadline, whatever the jitter; what is      *)
(* fitted is a sound plan of at most the target (planTwap, fitPlan).       *)
THEOREM PlansExactly ==
  ASSUME DeltasTyped, PlanIntervals \subseteq Nat \ {0}
  PROVE  SumSpec => []PlanIsExact
<1> DEFINE Inv == part = "plan" => PlanInv
<1>1. SumInit => Inv
  BY SameSlots DEF SumInit, Planner!Init, PlanInv
<1>2. Inv /\ [SumNext]_all => Inv'
  <2>1. CASE UNCHANGED all
    BY <2>1 DEF all, xs, PlanInv
  <2>2. CASE SumNext
    <3> SUFFICES ASSUME Inv, part' = "plan" PROVE PlanInv'
      OBVIOUS
    <3>1. part = "plan" /\ Planner!Next
      BY <2>2 DEF SumNext, OfFirm, OfExec, Other
    <3>a. PlanInput(x1)
      BY <3>1, InputIs
    <3>2. x1' = x1 /\ x2' = planTwap(x1) /\ x3' = fitPlan(x1)
      BY <3>a, <3>1, SamePlan, SameFit DEF Planner!Next, Planner!Plan
    <3> QED BY <3>1, <3>2 DEF PlanInv
  <2> QED BY <2>1, <2>2
<1>3. Inv => PlanIsExact
  BY PlanIs DEF PlanIsExact
<1> QED BY <1>1, <1>2, <1>3, PTL DEF SumSpec, SumSafe
=============================================================================
