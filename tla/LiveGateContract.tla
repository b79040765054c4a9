-------------------------- MODULE LiveGateContract --------------------------
(***************************************************************************)
(* What the live gate promises for one venue (src/src/live-gate/states.ts):*)
(* the state moves one step of the matrix at a time and never while a kill *)
(* stands, every downgrade ends in DISCONNECTED, and a kill that has been  *)
(* acknowledged has taken the state down with it.                          *)
(***************************************************************************)
EXTENDS Integers

CONSTANT Scopes     \* what a kill may be aimed at: all venues, this venue

(* The nine states by their rank in LIVE_GATE_STATES. *)
DISCONNECTED == 0
PAPER_APPROVED == 5
LIVE_PENDING == 6
HUMAN_APPROVED == 7
LIVE_ENABLED == 8
States == DISCONNECTED .. LIVE_ENABLED

VARIABLES
  state,    \* the state of the venue
  killed,   \* the scopes a kill stands for
  acked     \* those among them whose kill has been acknowledged

cvars == <<state, killed, acked>>

Init == state = DISCONNECTED /\ killed = {} /\ acked = {}

(* The matrix: eight steps forward, none of them under a kill. *)
isLegalAdvance(from, to) == from \in States /\ to \in States /\ to = from + 1

Advance == killed = {} /\ isLegalAdvance(state, state') /\ UNCHANGED <<killed, acked>>
Downgrade == state' = DISCONNECTED /\ UNCHANGED <<killed, acked>>
Kill(s) == killed' = killed \cup {s} /\ UNCHANGED <<state, acked>>
Ack(s) == s \in killed /\ state' = DISCONNECTED /\ acked' = acked \cup {s} /\ UNCHANGED killed
Clear(s) == killed' = killed \ {s} /\ acked' = acked \ {s} /\ UNCHANGED state

Next == Advance \/ Downgrade \/ \E s \in Scopes : Kill(s) \/ Ack(s) \/ Clear(s)

Spec == Init /\ [][Next]_cvars

(* An acknowledged kill keeps the venue DISCONNECTED until it is cleared,  *)
(* so that nothing but a full run through the matrix leads back to live.   *)
KillHolds == acked \subseteq killed /\ (acked # {} => state = DISCONNECTED)
=============================================================================
