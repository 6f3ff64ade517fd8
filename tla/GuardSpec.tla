----------------------------- MODULE GuardSpec -----------------------------
(***************************************************************************)
(* What the experiment around the guard relies on (core/orchestrator.py,   *)
(* core/judge_hook.py): a call is allowed only after its approval is in    *)
(* events/judgment.jsonl, and there is one record per call, which never    *)
(* changes.  The record of a call says no more than that: an agent may be  *)
(* denied what is on record as approved, or be denied before the record    *)
(* comes, and its runtime may stop waiting: the call then goes ahead       *)
(* unguarded, whatever the panel records later.                            *)
(***************************************************************************)
CONSTANTS
    Calls,
    Guarded   \* FALSE for the empty panel of ablation A0

VARIABLES
    answer,   \* per call: what the agent's runtime was told
    record    \* per call: its judgment event

vars == <<answer, record>>

Init ==
    /\ answer = [c \in Calls |-> "none"]
    /\ record = [c \in Calls |-> "none"]

\* The panel has decided and the event is appended, whether or not the agent
\* still waits for the answer.
File(c) ==
    /\ Guarded
    /\ record[c] = "none"
    /\ \E d \in {"approve", "reject"} : record' = [record EXCEPT ![c] = d]
    /\ UNCHANGED answer

Answer(c) ==
    /\ answer[c] = "none"
    /\ \E a \in {"allow", "deny", "unguarded"} :
          /\ a = "allow" /\ Guarded => record[c] = "approve"
          /\ answer' = [answer EXCEPT ![c] = a]
    /\ UNCHANGED record

Next == \E c \in Calls : File(c) \/ Answer(c)

Spec == Init /\ [][Next]_vars

=============================================================================
