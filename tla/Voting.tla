------------------------------- MODULE Voting -------------------------------
(***************************************************************************)
(* The decision rule of the judge panel (core/voting.py).  A ballot is a   *)
(* function from the judges that voted to their decision; the latency,     *)
(* cost and quorum label the code computes next to the decision are left   *)
(* out, because no guard reads them.                                       *)
(***************************************************************************)
EXTENDS Integers, FiniteSets

Decision == {"approve", "reject"}

Approvals(ballot) == {j \in DOMAIN ballot : ballot[j] = "approve"}

\* Mutant of MajorityVote: a single approval is enough.
AnyApproval(ballot) ==
    IF Approvals(ballot) # {} THEN "approve" ELSE "reject"

\* approvals > n / 2 without the division; every other count, a tie too,
\* is a rejection.  The code raises ValueError on an empty ballot: callers
\* of this operator have a non-empty one.
MajorityVote(ballot) ==
    IF 2 * Cardinality(Approvals(ballot)) > Cardinality(DOMAIN ballot)
    THEN "approve"
    ELSE "reject"

=============================================================================
