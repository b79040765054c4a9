------------------------ MODULE MCExecutionWorkflow ------------------------
(* Instances of ExecutionWorkflow for TLC. *)
EXTENDS ExecutionWorkflow, TLC

CONSTANTS p1, p2

OnePoller == {p1}
TwoPollers == {p1, p2}
PollerSymmetry == Permutations(TwoPollers)

NoFaults == {}
VenueFaults == Faults \ {"cancelOpen"}
ReliableFills == Faults \ {"lossyReads"}
UnclearAnswers == {"lossyReads", "unclearCancel"}
VenueCancels == {"venueCancel"}
=============================================================================
