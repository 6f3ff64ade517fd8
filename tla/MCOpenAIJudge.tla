--------------------------- MODULE MCOpenAIJudge ---------------------------
(* An instance of OpenAIJudge: one judgment that was handed a client and   *)
(* one that makes its own.                                                 *)
EXTENDS OpenAIJudge

=============================================================================
