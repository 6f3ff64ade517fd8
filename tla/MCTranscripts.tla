--------------------------- MODULE MCTranscripts ---------------------------
(* Instances of Transcripts. *)
EXTENDS Transcripts, TLC

Symmetry == Permutations(Judgments)

=============================================================================
