--------------------------- MODULE MCScenarioRuns ---------------------------
(* Instances of ScenarioRuns. *)
EXTENDS ScenarioRuns, TLC

Symmetry == Permutations(Tasks)

=============================================================================
