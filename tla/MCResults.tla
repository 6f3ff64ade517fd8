----------------------------- MODULE MCResults -----------------------------
(* An instance of Results: a repetition of an attack scenario, whose       *)
(* analysis may raise and is then retried, and one of a benign scenario.   *)
EXTENDS Results

=============================================================================
