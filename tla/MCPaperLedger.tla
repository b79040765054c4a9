---------------------------- MODULE MCPaperLedger ----------------------------
(* Instances of PaperLedger for TLC. *)
EXTENDS PaperLedger
Apart == [t \in Tasks |-> t]
NoFlatten == [t \in Tasks |-> {"order", "tick"}]
WithFlatten == [t \in Tasks |-> {"order", "tick", "flatten"}]
Together == [t \in Tasks |-> "server"]
=============================================================================
