--------------------------- MODULE MCOrchestrator ---------------------------
(* The panel of the experiments A4 and A6: three judges, one of them       *)
(* compromised.                                                            *)
EXTENDS Orchestrator, TLC

CONSTANTS honest1, honest2, byzantine

Panel3 == {honest1, honest2, byzantine}

=============================================================================
