----------------------------- MODULE PanelSpec -----------------------------
(***************************************************************************)
(* What a guarded agent is promised about each tool call it proposes       *)
(* (ARCHITECTURE.md, "Fail-closed at every layer"; core/judge_hook.py,     *)
(* core/orchestrator.py): the judges cast ballots, and a call is allowed   *)
(* only once the panel's decision rule approves it.  Denying is possible   *)
(* at any time and for any reason.  An empty panel guards nothing          *)
(* (ablation A0), and the agent's runtime may stop waiting for an answer.  *)
(***************************************************************************)
CONSTANTS
    Judges,
    Requests,
    Majority(_)   \* the decision "approve" or "reject" of a ballot

VARIABLES
    ballot,    \* per request and judge: the vote, "none" before it is cast
    answer     \* per request: what the agent's runtime was told

vars == <<ballot, answer>>

Init ==
    /\ ballot = [r \in Requests |-> [j \in Judges |-> "none"]]
    /\ answer = [r \in Requests |-> "none"]

Cast(r, j) ==
    /\ ballot[r][j] = "none"
    /\ \E v \in {"approve", "reject", "raised"} :
          ballot' = [ballot EXCEPT ![r][j] = v]
    /\ UNCHANGED answer

Approved(r) == Judges = {} \/ Majority(ballot[r]) = "approve"

Answer(r) ==
    /\ answer[r] = "none"
    /\ \E a \in {"allow", "deny", "unguarded"} :
          /\ a = "allow" => Approved(r)
          /\ answer' = [answer EXCEPT ![r] = a]
    /\ UNCHANGED ballot

Next == \E r \in Requests : Answer(r) \/ \E j \in Judges : Cast(r, j)

Spec == Init /\ [][Next]_vars

=============================================================================
