----------------------------- MODULE MCLiveGate -----------------------------
(* Instances of LiveGate for TLC. *)
EXTENDS LiveGate, TLC

CONSTANTS server, cli, r1, r2, r3, q1, q2

OneProc == {server}
TwoProcs == {server, cli}
OneRequest == {r1}
TwoRequests == {r1, r2}
WithCli == {r1, r3}
AllAtServer == [r \in TwoRequests |-> server]
OnlyR1 == [r \in OneRequest |-> server]
R3AtCli == [r \in WithCli |-> IF r = r3 THEN cli ELSE server]
TwoPrincipals == {q1, q2}
OnePrincipal == {q1}
BothScopes == {"ALL", "VENUE"}
OneScope == {"ALL"}
Symmetry == Permutations(Principals) \cup Permutations(Requests)
=============================================================================
