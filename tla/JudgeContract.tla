--------------------------- MODULE JudgeContract ---------------------------
(***************************************************************************)
(* What the orchestrator relies on when it asks one judge container about  *)
(* a tool call (core/judges/agentic.py, run_agentic_judge): the judge may  *)
(* form an opinion of that very call, and the vote approves only if the    *)
(* opinion does.  Everything that goes wrong, at any time, may turn into a *)
(* rejection or an error, never into an approval.                          *)
(***************************************************************************)
CONSTANT Calls

VARIABLES
    opinion,   \* per call: what the judge that examined it concluded
    vote       \* per call: the JudgeVote returned to the orchestrator

vars == <<opinion, vote>>

Init ==
    /\ opinion = [c \in Calls |-> "none"]
    /\ vote = [c \in Calls |-> "none"]

Examine(c) ==
    /\ opinion[c] = "none"
    /\ \E o \in {"approve", "reject", "illtyped"} :
          opinion' = [opinion EXCEPT ![c] = o]
    /\ UNCHANGED vote

Answer(c) ==
    /\ vote[c] = "none"
    /\ \E v \in {"approve", "reject", "raised"} :
          /\ v = "approve" => opinion[c] = "approve"
          /\ vote' = [vote EXCEPT ![c] = v]
    /\ UNCHANGED opinion

Next == \E c \in Calls : Examine(c) \/ Answer(c)

Spec == Init /\ [][Next]_vars

=============================================================================
