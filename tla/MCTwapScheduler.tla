--------------------------- MODULE MCTwapScheduler ---------------------------
(* Instances of TwapScheduler for TLC. *)
EXTENDS TwapScheduler, TLC
OneWorker == {"w1"}
TwoWorkers == {"w1", "w2"}
SameId == [w \in Workers |-> "api"]
OwnId == [w \in Workers |-> w]
=============================================================================
