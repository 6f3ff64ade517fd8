--------------------------- MODULE MCAgenticJudge ---------------------------
(* Instances of AgenticJudge.  The calls are interchangeable: no action or *)
(* invariant names one of them.                                            *)
EXTENDS AgenticJudge, TLC

Symmetry == Permutations(Calls)

=============================================================================
