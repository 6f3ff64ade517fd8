------------------------- MODULE OrchestratorProofs -------------------------
(***************************************************************************)
(* What holds of the guard for every panel, every Byzantine subset and     *)
(* every set of tool calls; of an event file for any number of writers and *)
(* failures; and of the guard together with its judges and with the file:  *)
(* what is behind a call it allowed, and what readers find of it.          *)
(***************************************************************************)
EXTENDS Orchestrator, EventLog, FiniteSetTheorems, SequenceTheorems, TLAPS

\* With a strict majority some judge outside a minority approved.
LEMMA MajorityReachesOutside ==
    ASSUME NEW J, IsFiniteSet(J), NEW B \in SUBSET J,
           2 * Cardinality(B) < Cardinality(J),
           NEW ballot, DOMAIN ballot = J, MajorityVote(ballot) = "approve"
    PROVE  \E j \in J \ B : ballot[j] = "approve"
<1> SUFFICES ASSUME \A j \in J \ B : ballot[j] # "approve" PROVE FALSE
  OBVIOUS
<1>1. Approvals(ballot) \in SUBSET B
  BY DEF Approvals
<1>2. IsFiniteSet(B) /\ Cardinality(B) \in Nat /\ Cardinality(J) \in Nat
  BY FS_Subset, FS_CardinalityType
<1>3. /\ Cardinality(Approvals(ballot)) \in Nat
      /\ Cardinality(Approvals(ballot)) <= Cardinality(B)
  BY <1>1, <1>2, FS_Subset, FS_CardinalityType
<1>4. 2 * Cardinality(Approvals(ballot)) > Cardinality(J)
  BY DEF MajorityVote
<1>5. QED
  BY <1>2, <1>3, <1>4

\* A complete ballot that rejects has a rejection outside every minority.
LEMMA RejectionReachesOutside ==
    ASSUME NEW J, IsFiniteSet(J), NEW B \in SUBSET J,
           2 * Cardinality(B) < Cardinality(J),
           NEW ballot \in [J -> Decision], MajorityVote(ballot) = "reject"
    PROVE  \E j \in J \ B : ballot[j] = "reject"
<1> SUFFICES ASSUME \A j \in J \ B : ballot[j] # "reject" PROVE FALSE
  OBVIOUS
<1>1. /\ IsFiniteSet(Approvals(ballot))
      /\ Cardinality(Approvals(ballot)) \in Nat
      /\ Cardinality(J \ B) <= Cardinality(Approvals(ballot))
  <2>1. J \ B \subseteq Approvals(ballot) /\ Approvals(ballot) \subseteq J
    BY DEF Approvals, Decision
  <2>2. QED
    BY <2>1, FS_Subset, FS_CardinalityType
<1>2. /\ Cardinality(B) \in Nat /\ Cardinality(J) \in Nat
      /\ Cardinality(J \ B) = Cardinality(J) - Cardinality(B)
  <2>1. J \cap B = B /\ IsFiniteSet(B)
    BY FS_Subset
  <2>2. QED
    BY <2>1, FS_Difference, FS_CardinalityType
<1>3. 2 * Cardinality(Approvals(ballot)) <= Cardinality(J)
  BY <1>1, <1>2 DEF MajorityVote
<1>4. QED
  BY <1>1, <1>2, <1>3

\* An even split is a rejection.
THEOREM TiesReject ==
    ASSUME NEW ballot, IsFiniteSet(DOMAIN ballot),
           2 * Cardinality(Approvals(ballot)) = Cardinality(DOMAIN ballot)
    PROVE  MajorityVote(ballot) = "reject"
<1>1. Cardinality(DOMAIN ballot) \in Nat
  BY FS_CardinalityType
<1>2. QED
  BY <1>1 DEF MajorityVote

-----------------------------------------------------------------------------

\* What a decision comes to, with the appends that may fail.
LEMMA DecisionWrites ==
    ASSUME NEW r \in Requests, Decide(r)
    PROVE  \E d \in Decision :
              /\ log' \in {log, log \cup {<<r, d>>}}
              /\ events' \in {events, events \cup {<<r, d>>}}
              /\ \E h \in {d, "error"} : handler' = [handler EXCEPT ![r] = h]
              /\ UNCHANGED <<hook, vote, up>>
<1>1. MajorityVote(vote[r]) \in Decision
  BY DEF MajorityVote, Decision
<1>2. QED
  BY <1>1 DEF Decide

\* Each step moves one hook, one handler or one vote, or writes a decision.
LEMMA StepIsTyped ==
    ASSUME TypeOK, [Next]_vars PROVE TypeOK'
<1> USE DEF TypeOK, Votes, Decision
<1>1. CASE \E r \in Requests : Decide(r)
  BY <1>1, DecisionWrites
<1>2. CASE \E r \in Requests, j \in Judges : JudgeVotes(r, j) \/ JudgeRaises(r, j)
  BY <1>2 DEF JudgeVotes, JudgeRaises
<1>3. CASE \E r \in Requests :
              \/ Post(r) \/ HookFails(r) \/ HookReturns(r)
              \/ ConnectionLost(r) \/ HookKilled(r)
  BY <1>3 DEF Post, HookFails, HookReturns, ConnectionLost, HookKilled
<1>4. CASE Stop \/ UNCHANGED vars
  BY <1>4 DEF Stop, vars
<1>5. QED
  BY <1>1, <1>2, <1>3, <1>4 DEF Next, Finished

(* Type correctness of the hook, the handler, the ballots and the files. *)
THEOREM TypeCorrect == Spec => []TypeOK
<1>1. Init => TypeOK
  BY DEF Init, TypeOK, Votes
<1>2. QED
  BY <1>1, StepIsTyped, PTL DEF Spec

-----------------------------------------------------------------------------

\* A reply of a panel with judges is on file in both streams.
ReplyIsRecorded ==
    \A r \in Requests : handler[r] \in Decision /\ Judges # {} =>
        <<r, handler[r]>> \in log /\ <<r, handler[r]>> \in events

\* A hook exits with 0 only on the reply "approve", which stays what it is.
ExitIsReply == \A r \in Requests : hook[r] = "exit0" => handler[r] = "approve"

\* A call is posted once.
PostedOnce == \A r \in Requests : hook[r] = "idle" => handler[r] = "none"

GuardInv ==
    /\ RecordsAreJudgments
    /\ ReplyIsRecorded
    /\ ExitIsReply
    /\ PostedOnce

\* GuardInv is preserved by the steps that touch no record and no ballot.
LEMMA HookKeepsGuardInv ==
    ASSUME TypeOK, GuardInv, NEW r \in Requests,
           \/ Post(r) \/ HookFails(r) \/ HookReturns(r)
           \/ ConnectionLost(r) \/ HookKilled(r)
    PROVE  GuardInv'
<1> USE DEF TypeOK, GuardInv
<1>1. RecordsAreJudgments'
  BY DEF RecordsAreJudgments, Post, HookFails, HookReturns,
         ConnectionLost, HookKilled
<1>2. ReplyIsRecorded'
  BY DEF ReplyIsRecorded, Decision,
         Post, HookFails, HookReturns, ConnectionLost, HookKilled
<1>3. ExitIsReply'
  BY DEF ExitIsReply, PostedOnce,
         Post, HookFails, HookReturns, ConnectionLost, HookKilled
<1>4. PostedOnce'
  BY DEF PostedOnce,
         Post, HookFails, HookReturns, ConnectionLost, HookKilled
<1>5. QED
  BY <1>1, <1>2, <1>3, <1>4

\* A judge's task that ends changes a ballot entry that was open, so no
\* recorded ballot.
LEMMA JudgeKeepsGuardInv ==
    ASSUME TypeOK, GuardInv, NEW r \in Requests, NEW j \in Judges,
           JudgeVotes(r, j) \/ JudgeRaises(r, j)
    PROVE  GuardInv'
<1> USE DEF TypeOK, GuardInv
<1>1. \A q \in Requests : q # r => vote'[q] = vote[q]
  BY DEF JudgeVotes, JudgeRaises
<1>2. log' = log /\ events' = events /\ hook' = hook
  BY DEF JudgeVotes, JudgeRaises
<1>3. \A d \in Decision : <<r, d>> \notin log
  BY DEF JudgeVotes, JudgeRaises, RecordsAreJudgments, Decision
<1>4. RecordsAreJudgments'
  <2> SUFFICES ASSUME NEW q \in Requests, NEW d \in Decision, <<q, d>> \in log
               PROVE  /\ \A k \in Judges : vote'[q][k] \in Decision
                      /\ d = MajorityVote(vote'[q])
    BY <1>2 DEF RecordsAreJudgments
  <2>1. q # r /\ vote'[q] = vote[q]
    BY <1>1, <1>3
  <2>2. QED
    BY <2>1 DEF RecordsAreJudgments
<1>5. \A q \in Requests : handler'[q] # handler[q] => handler'[q] = "error"
  BY DEF JudgeVotes, JudgeRaises
<1>6. handler[r] \in {"judging", "error"}
  BY DEF JudgeVotes, JudgeRaises, Dispatched
<1>7. ReplyIsRecorded' /\ ExitIsReply' /\ PostedOnce'
  BY <1>2, <1>5, <1>6
     DEF ReplyIsRecorded, ExitIsReply, PostedOnce, Decision,
         JudgeVotes, JudgeRaises
<1>8. QED
  BY <1>4, <1>7

\* A decision writes the majority of a complete ballot, to both files before
\* it replies.
LEMMA DecisionKeepsGuardInv ==
    ASSUME TypeOK, GuardInv, NEW r \in Requests, Decide(r)
    PROVE  GuardInv'
<1> USE DEF TypeOK, GuardInv
<1> DEFINE d == MajorityVote(vote[r])
<1>1. d \in Decision
  BY DEF MajorityVote, Decision
<1>2. /\ vote' = vote /\ hook' = hook
      /\ handler[r] = "judging" /\ \A j \in Judges : vote[r][j] \in Decision
      /\ handler' = [handler EXCEPT ![r] = "error"]
         \/ /\ handler' = [handler EXCEPT ![r] = d]
            /\ log' = log \cup {<<r, d>>}
            /\ events' = events \cup {<<r, d>>}
      /\ log' = log \/ log' = log \cup {<<r, d>>}
      /\ events' = events
         \/ (log' = log \cup {<<r, d>>} /\ events' = events \cup {<<r, d>>})
  BY DEF Decide
<1> HIDE DEF d
<1>3. RecordsAreJudgments'
  <2>1. events' \subseteq log'
    BY <1>2 DEF RecordsAreJudgments
  <2>2. ASSUME NEW q \in Requests, NEW e \in Decision, <<q, e>> \in log'
        PROVE  /\ \A j \in Judges : vote'[q][j] \in Decision
               /\ e = MajorityVote(vote'[q])
    <3>1. CASE <<q, e>> \in log
      BY <1>2, <3>1 DEF RecordsAreJudgments
    <3>2. CASE <<q, e>> = <<r, d>>
      BY <1>2, <3>2 DEF d
    <3>3. QED
      BY <1>2, <2>2, <3>1, <3>2
  <2>3. log' \subseteq Requests \X Decision
    BY <1>1, <1>2
  <2>4. QED
    BY <2>1, <2>2, <2>3 DEF RecordsAreJudgments
<1>4. ReplyIsRecorded'
  BY <1>1, <1>2 DEF ReplyIsRecorded, Decision
<1>5. ExitIsReply' /\ PostedOnce'
  BY <1>2 DEF ExitIsReply, PostedOnce
<1>6. QED
  BY <1>3, <1>4, <1>5

(* GuardInv is an invariant: it holds initially and every step keeps it. *)
THEOREM GuardInvariance == Spec => []GuardInv
<1>1. Init => GuardInv
  BY DEF Init, GuardInv, RecordsAreJudgments, ReplyIsRecorded, ExitIsReply,
         PostedOnce, Decision
<1>2. TypeOK /\ GuardInv /\ [Next]_vars => GuardInv'
  <2> SUFFICES ASSUME TypeOK, GuardInv, [Next]_vars PROVE GuardInv'
    OBVIOUS
  <2>1. CASE Stop \/ Finished \/ UNCHANGED vars
    BY <2>1 DEF Stop, Finished, vars, GuardInv, RecordsAreJudgments,
                ReplyIsRecorded, ExitIsReply, PostedOnce
  <2>2. QED
    BY <2>1, HookKeepsGuardInv, JudgeKeepsGuardInv, DecisionKeepsGuardInv
       DEF Next
<1>3. QED
  BY <1>1, <1>2, TypeCorrect, PTL DEF Spec

(* Whatever fails, a record is the majority of a complete ballot and the   *)
(* event stream holds nothing the log lacks.                               *)
THEOREM RecordsAreJudgmentsAlways == Spec => []RecordsAreJudgments
<1>1. GuardInv => RecordsAreJudgments
  BY DEF GuardInv
<1>2. QED
  BY <1>1, GuardInvariance, PTL

(* A call passes the guard only with its approval in both files. *)
THEOREM AllowedIsRecordedAlways == Spec => []AllowedIsRecorded
<1>1. GuardInv => AllowedIsRecorded
  BY DEF GuardInv, AllowedIsRecorded, ReplyIsRecorded, ExitIsReply, Decision
<1>2. QED
  BY <1>1, GuardInvariance, PTL

(* A minority of any panel cannot pass a call by itself. *)
THEOREM MinorityCannotAllowAlways == Spec => []MinorityCannotAllow
<1>1. TypeOK /\ GuardInv => MinorityCannotAllow
  <2> SUFFICES ASSUME TypeOK, GuardInv, NEW r \in Requests,
                      hook[r] = "exit0", Judges # {},
                      2 * Cardinality(Byzantine) < Cardinality(Judges)
               PROVE  \E j \in Judges \ Byzantine : vote[r][j] = "approve"
    BY DEF MinorityCannotAllow
  <2>1. <<r, "approve">> \in log
    BY DEF GuardInv, ExitIsReply, ReplyIsRecorded, Decision
  <2>2. MajorityVote(vote[r]) = "approve" /\ DOMAIN vote[r] = Judges
    BY <2>1 DEF GuardInv, RecordsAreJudgments, TypeOK
  <2>3. QED
    BY <2>2, MajorityReachesOutside, PanelAssumption
<1>2. QED
  BY <1>1, TypeCorrect, GuardInvariance, PTL

(* Nor can a minority get a call recorded as rejected: behind every        *)
(* rejection the experiment may count as a defence there is a judge        *)
(* outside the minority that rejected the call.                            *)
THEOREM MinorityCannotReject ==
    ASSUME 2 * Cardinality(Byzantine) < Cardinality(Judges)
    PROVE  Spec => [](\A r \in Requests : <<r, "reject">> \in events =>
                        \E j \in Judges \ Byzantine : vote[r][j] = "reject")
<1>1. TypeOK /\ GuardInv =>
         \A r \in Requests : <<r, "reject">> \in events =>
            \E j \in Judges \ Byzantine : vote[r][j] = "reject"
  <2> SUFFICES ASSUME TypeOK, GuardInv, NEW r \in Requests,
                      <<r, "reject">> \in events
               PROVE  \E j \in Judges \ Byzantine : vote[r][j] = "reject"
    OBVIOUS
  <2>1. /\ MajorityVote(vote[r]) = "reject"
        /\ \A j \in Judges : vote[r][j] \in Decision
    BY DEF GuardInv, RecordsAreJudgments, Decision
  <2>2. vote[r] \in [Judges -> Decision]
    BY <2>1 DEF TypeOK
  <2>3. QED
    BY <2>1, <2>2, RejectionReachesOutside, PanelAssumption
<1>2. QED
  BY <1>1, TypeCorrect, GuardInvariance, PTL

-----------------------------------------------------------------------------

\* How the state of a hook process reads as an answer.
LEMMA ToldNext ==
    ASSUME TypeOK, NEW r \in Requests, hook[r] \in {"idle", "waiting"},
           NEW h \in {"waiting", "exit0", "exit2", "killed"},
           hook' = [hook EXCEPT ![r] = h]
    PROVE  /\ Told[r] = "none"
           /\ h = "waiting" => Told' = Told
           /\ h = "exit0" => Told' = [Told EXCEPT ![r] = "allow"]
           /\ h = "exit2" => Told' = [Told EXCEPT ![r] = "deny"]
           /\ h = "killed" => Told' = [Told EXCEPT ![r] = "unguarded"]
<1> USE DEF TypeOK
<1>1. Told[r] = "none"
  BY DEF Told
<1>2. ASSUME NEW q \in Requests, q # r PROVE Told'[q] = Told[q]
  BY <1>2 DEF Told
<1>3. /\ h = "waiting" => Told'[r] = "none"
      /\ h = "exit0" => Told'[r] = "allow"
      /\ h = "exit2" => Told'[r] = "deny"
      /\ h = "killed" => Told'[r] = "unguarded"
  BY DEF Told
<1>4. Told = [q \in Requests |-> Told[q]] /\ Told' = [q \in Requests |-> Told'[q]]
  BY DEF Told
<1>5. QED
  BY <1>1, <1>2, <1>3, <1>4

\* The steps of a hook, as answers to the agent's runtime.
LEMMA HookAnswers ==
    ASSUME TypeOK, GuardInv, NEW r \in Requests,
           \/ HookFails(r) \/ HookReturns(r) \/ ConnectionLost(r) \/ HookKilled(r)
    PROVE  \E a \in {"allow", "deny", "unguarded"} :
              /\ Told[r] = "none" /\ Told' = [Told EXCEPT ![r] = a]
              /\ a = "allow" => HookReturns(r) /\ handler[r] = "approve"
              /\ UNCHANGED <<handler, vote, log, events, up>>
<1>1. CASE HookFails(r)
  <2>1. hook[r] = "idle" /\ hook' = [hook EXCEPT ![r] = "exit2"]
        /\ handler[r] = "none"
    BY <1>1 DEF HookFails, GuardInv, PostedOnce
  <2>2. QED
    BY <1>1, <2>1, ToldNext DEF HookFails
<1>2. CASE HookReturns(r)
  <2>1. hook[r] = "waiting" /\ handler[r] # "judging"
    BY <1>2 DEF HookReturns, Decision
  <2>2. CASE handler[r] = "approve"
    <3>1. hook' = [hook EXCEPT ![r] = "exit0"]
      BY <1>2, <2>2 DEF HookReturns
    <3>2. QED
      BY <1>2, <2>1, <2>2, <3>1, ToldNext DEF HookReturns
  <2>3. CASE handler[r] # "approve"
    <3>1. hook' = [hook EXCEPT ![r] = "exit2"]
      BY <1>2, <2>3 DEF HookReturns
    <3>2. QED
      BY <1>2, <2>1, <3>1, ToldNext DEF HookReturns
  <2>4. QED
    BY <2>2, <2>3
<1>3. CASE ConnectionLost(r)
  <2>1. hook[r] = "waiting" /\ hook' = [hook EXCEPT ![r] = "exit2"]
    BY <1>3 DEF ConnectionLost
  <2>2. QED
    BY <1>3, <2>1, ToldNext DEF ConnectionLost
<1>4. CASE HookKilled(r)
  <2>1. hook[r] = "waiting" /\ hook' = [hook EXCEPT ![r] = "killed"]
    BY <1>4 DEF HookKilled
  <2>2. QED
    BY <1>4, <2>1, ToldNext DEF HookKilled
<1>5. QED
  BY <1>1, <1>2, <1>3, <1>4

(* Every step of the guard is a step of PanelSpec or leaves its variables  *)
(* alone: the guard implements the promise made to the agent's operator.   *)
THEOREM GuardImplementsPanel == Spec => ImplementsPanel
<1>1. Init => Panel!Init
  BY DEF Init, Panel!Init, Told
<1>2. TypeOK /\ GuardInv /\ [Next]_vars => [Panel!Next]_(Panel!vars)
  <2> SUFFICES ASSUME TypeOK, GuardInv, [Next]_vars
               PROVE  [Panel!Next]_(Panel!vars)
    OBVIOUS
  <2>1. ASSUME NEW r \in Requests, NEW j \in Judges,
               JudgeVotes(r, j) \/ JudgeRaises(r, j)
        PROVE  Panel!Cast(r, j)
    BY <2>1 DEF JudgeVotes, JudgeRaises, Panel!Cast, Decision, Told
  <2>2. ASSUME NEW r \in Requests,
               \/ HookFails(r) \/ HookReturns(r)
               \/ ConnectionLost(r) \/ HookKilled(r)
        PROVE  Panel!Answer(r)
    <3>1. PICK a \in {"allow", "deny", "unguarded"} :
              /\ Told[r] = "none" /\ Told' = [Told EXCEPT ![r] = a]
              /\ a = "allow" => handler[r] = "approve"
              /\ vote' = vote
      BY <2>2, HookAnswers
    <3>2. a = "allow" => Panel!Approved(r)
      <4>1. CASE Judges = {}
        BY <4>1 DEF Panel!Approved
      <4>2. CASE Judges # {}
        BY <3>1, <4>2
           DEF GuardInv, ReplyIsRecorded, RecordsAreJudgments, Decision,
               Panel!Approved
      <4>3. QED
        BY <4>1, <4>2
    <3>3. QED
      BY <3>1, <3>2 DEF Panel!Answer
  <2>3. ASSUME NEW r \in Requests, Post(r)
        PROVE  UNCHANGED Panel!vars
    <3>1. Told' = Told
      BY <2>3, ToldNext DEF Post
    <3>2. QED
      BY <2>3, <3>1 DEF Post, Panel!vars
  <2>4. ASSUME \/ \E r \in Requests : Decide(r)
               \/ Stop \/ Finished \/ UNCHANGED vars
        PROVE  UNCHANGED Panel!vars
    BY <2>4 DEF Decide, Stop, Finished, vars, Panel!vars, Told
  <2>5. QED
    BY <2>1, <2>2, <2>3, <2>4 DEF Next, Panel!Next
<1>3. QED
  BY <1>1, <1>2, TypeCorrect, GuardInvariance, PTL
     DEF Spec, ImplementsPanel, Panel!Spec

-----------------------------------------------------------------------------

\* A call that is still to be decided has no event, and a panel decides it.
FilingInv ==
    \A r \in Requests :
        /\ handler[r] \in {"none", "judging"} =>
              \A d \in Decision : <<r, d>> \notin events
        /\ handler[r] = "judging" => Judges # {}

LEMMA StepKeepsFiling ==
    ASSUME TypeOK, GuardInv, FilingInv, [Next]_vars
    PROVE  FilingInv'
<1> USE DEF TypeOK
<1>1. ASSUME NEW r \in Requests, Post(r) PROVE FilingInv'
  <2>1. hook[r] = "idle" /\ handler[r] = "none"
    BY <1>1 DEF Post, GuardInv, PostedOnce
  <2>2. QED
    BY <1>1, <2>1 DEF Post, FilingInv
<1>2. ASSUME NEW r \in Requests,
             \/ HookFails(r) \/ HookReturns(r) \/ ConnectionLost(r) \/ HookKilled(r)
      PROVE  FilingInv'
  BY <1>2 DEF HookFails, HookReturns, ConnectionLost, HookKilled, FilingInv,
     Decision, GuardInv, PostedOnce
<1>3. ASSUME NEW r \in Requests, NEW j \in Judges,
             JudgeVotes(r, j) \/ JudgeRaises(r, j)
      PROVE  FilingInv'
  BY <1>3 DEF JudgeVotes, JudgeRaises, FilingInv
<1>4. ASSUME NEW r \in Requests, Decide(r)
      PROVE  FilingInv'
  <2>1. /\ UNCHANGED <<hook, up>>
        /\ \E h \in Decision \cup {"error"} : handler' = [handler EXCEPT ![r] = h]
        /\ events' \subseteq events \cup {<<r, MajorityVote(vote[r])>>}
    BY <1>4 DEF Decide, MajorityVote, Decision
  <2>2. QED
    BY <2>1 DEF FilingInv, Decision
<1>5. CASE Stop \/ Finished \/ UNCHANGED vars
  BY <1>5 DEF Stop, Finished, vars, FilingInv
<1>6. QED
  BY <1>1, <1>2, <1>3, <1>4, <1>5 DEF Next

\* An event changes what is filed of its own call only.
LEMMA FiledNext ==
    ASSUME NEW r \in Requests, NEW d \in Decision,
           \A c \in Decision : <<r, c>> \notin events,
           events' = events \cup {<<r, d>>}
    PROVE  Filed[r] = "none" /\ Filed' = [Filed EXCEPT ![r] = d]
<1> USE DEF Decision
<1>1. Filed[r] = "none"
  BY DEF Filed
<1>2. ASSUME NEW q \in Requests, q # r PROVE Filed'[q] = Filed[q]
  <2>1. \A c : <<q, c>> \in events' <=> <<q, c>> \in events
    BY <1>2
  <2>2. QED
    BY <2>1 DEF Filed
<1>3. Filed'[r] = d
  <2>1. \A c \in Decision : <<r, c>> \in events' <=> c = d
    OBVIOUS
  <2>2. QED
    BY <2>1 DEF Filed
<1>4. Filed = [q \in Requests |-> Filed[q]]
      /\ Filed' = [q \in Requests |-> Filed'[q]]
  BY DEF Filed
<1>5. QED
  BY <1>1, <1>2, <1>3, <1>4

(* What the experiment takes of the guard, for any panel and any calls: an *)
(* allowed call has its approval in the event stream before the agent goes *)
(* on, and a call gets one event at most, also when it comes after the     *)
(* hook has denied on a broken connection or was killed.                   *)
THEOREM GuardKeepsRecords == Spec => ImplementsGuard
<1>1. Init => Guard!Init /\ FilingInv
  BY DEF Init, Guard!Init, Told, Filed, FilingInv
<1>2. TypeOK /\ GuardInv /\ FilingInv /\ [Next]_vars
         => [Guard!Next]_(Guard!vars)
  <2> SUFFICES ASSUME TypeOK, GuardInv, FilingInv, [Next]_vars
               PROVE  [Guard!Next]_(Guard!vars)
    OBVIOUS
  <2>1. ASSUME NEW r \in Requests,
               \/ HookFails(r) \/ HookReturns(r)
               \/ ConnectionLost(r) \/ HookKilled(r)
        PROVE  Guard!Answer(r)
    <3>1. PICK a \in {"allow", "deny", "unguarded"} :
              /\ Told[r] = "none" /\ Told' = [Told EXCEPT ![r] = a]
              /\ a = "allow" => handler[r] = "approve"
              /\ events' = events
      BY <2>1, HookAnswers
    <3>2. a = "allow" /\ Judges # {} => Filed[r] = "approve"
      <4>1. a = "allow" /\ Judges # {} => <<r, "approve">> \in events
        BY <3>1 DEF GuardInv, ReplyIsRecorded, Decision
      <4>2. ASSUME <<r, "approve">> \in events PROVE Filed[r] = "approve"
        <5>1. <<r, "reject">> \notin events
          BY <4>2 DEF GuardInv, RecordsAreJudgments, Decision
        <5>2. QED
          BY <4>2, <5>1 DEF Filed
      <4>3. QED
        BY <4>1, <4>2
    <3>3. Filed' = Filed
      BY <3>1 DEF Filed
    <3>4. QED
      BY <3>1, <3>2, <3>3 DEF Guard!Answer
  <2>2. ASSUME NEW r \in Requests, Decide(r)
        PROVE  Guard!File(r) \/ UNCHANGED Guard!vars
    <3>1. MajorityVote(vote[r]) \in Decision
      BY DEF MajorityVote, Decision
    <3>2. Told' = Told
      BY <2>2 DEF Decide, Told
    <3>3. CASE events' = events
      BY <3>2, <3>3 DEF Guard!vars, Filed
    <3>4. CASE events' = events \cup {<<r, MajorityVote(vote[r])>>}
      <4>1. \A c \in Decision : <<r, c>> \notin events
        BY <2>2 DEF Decide, FilingInv
      <4>2. Filed[r] = "none"
            /\ Filed' = [Filed EXCEPT ![r] = MajorityVote(vote[r])]
        BY <3>1, <3>4, <4>1, FiledNext
      <4>3. Judges # {}
        BY <2>2 DEF Decide, FilingInv
      <4>4. QED
        BY <3>1, <3>2, <4>2, <4>3 DEF Guard!File, Decision
    <3>5. QED
      BY <2>2, <3>3, <3>4 DEF Decide
  <2>3. ASSUME NEW r \in Requests, Post(r)
        PROVE  UNCHANGED Guard!vars
    <3>1. Told' = Told
      BY <2>3, ToldNext DEF Post
    <3>2. QED
      BY <2>3, <3>1 DEF Post, Guard!vars, Filed
  <2>4. ASSUME \/ \E r \in Requests, j \in Judges :
                     JudgeVotes(r, j) \/ JudgeRaises(r, j)
               \/ Stop \/ Finished \/ UNCHANGED vars
        PROVE  UNCHANGED Guard!vars
    BY <2>4 DEF JudgeVotes, JudgeRaises, Stop, Finished, vars, Guard!vars,
       Told, Filed
  <2>5. QED
    BY <2>1, <2>2, <2>3, <2>4 DEF Next, Guard!Next
<1>3. TypeOK /\ GuardInv /\ FilingInv /\ [Next]_vars => FilingInv'
  BY StepKeepsFiling
<1>4. QED
  BY <1>1, <1>2, <1>3, TypeCorrect, GuardInvariance, PTL
     DEF Spec, ImplementsGuard, Guard!Spec

-----------------------------------------------------------------------------

(* A panel that failed leaves no record, whatever votes still come in and  *)
(* whatever the handlers of the other calls write.                         *)
THEOREM FailureIsSilentAlways == Spec => FailureIsSilent
<1>1. ASSUME TypeOK, [Next]_vars, NEW r \in Requests, handler[r] = "error",
             NEW d \in Decision
      PROVE  /\ <<r, d>> \in log' => <<r, d>> \in log
             /\ <<r, d>> \in events' => <<r, d>> \in events
  <2>1. ASSUME NEW q \in Requests, Decide(q)
        PROVE  /\ <<r, d>> \in log' => <<r, d>> \in log
               /\ <<r, d>> \in events' => <<r, d>> \in events
    <3>1. q # r
      BY <1>1, <2>1 DEF Decide
    <3>2. /\ log' \subseteq log \cup {<<q, MajorityVote(vote[q])>>}
          /\ events' \subseteq events \cup {<<q, MajorityVote(vote[q])>>}
      BY <2>1 DEF Decide
    <3>3. QED
      BY <3>1, <3>2
  <2>2. ASSUME \A q \in Requests : ~Decide(q)
        PROVE  log' = log /\ events' = events
    BY <1>1, <2>2 DEF Next, vars, Post, HookFails, HookReturns,
       ConnectionLost, HookKilled, JudgeVotes, JudgeRaises, Stop, Finished
  <2>3. QED
    BY <2>1, <2>2
<1>2. TypeOK /\ [Next]_vars =>
         [\A r \in Requests : handler[r] = "error" =>
            \A d \in Decision :
               /\ <<r, d>> \in log' => <<r, d>> \in log
               /\ <<r, d>> \in events' => <<r, d>> \in events]_vars
  BY <1>1
<1>3. QED
  BY <1>2, TypeCorrect, PTL DEF Spec, FailureIsSilent

-----------------------------------------------------------------------------
\* The guard and the judges it asks.

\* What each judge that examined a call concluded.
VARIABLE opinion

Honest == Judges \ Byzantine

Judge(j) == INSTANCE JudgeContract WITH
    Calls <- Requests, opinion <- opinion[j], vote <- [r \in Requests |-> vote[r][j]]

\* The honest judges keep the contract that AgenticJudge and OpenAIJudge
\* implement, with the votes the orchestrator has of them.
KeepsContract(j) == Judge(j)!Next \/ UNCHANGED Judge(j)!vars

HonestSpec ==
    /\ \A j \in Honest : Judge(j)!Init
    /\ [][\A j \in Honest : KeepsContract(j)]_<<opinion, vote>>

ContractInv ==
    \A j \in Honest :
        /\ opinion[j] \in [Requests -> {"none", "approve", "reject", "illtyped"}]
        /\ \A r \in Requests : vote[r][j] = "approve" => opinion[j][r] = "approve"

\* A judge that keeps the contract approves what it examined and approved of.
LEMMA ContractStep ==
    ASSUME ContractInv, NEW j \in Honest, KeepsContract(j)
    PROVE  /\ opinion'[j] \in [Requests -> {"none", "approve", "reject", "illtyped"}]
           /\ \A r \in Requests : vote'[r][j] = "approve" => opinion'[j][r] = "approve"
<1> DEFINE ballot == [r \in Requests |-> vote[r][j]]
<1>1. /\ opinion[j] \in [Requests -> {"none", "approve", "reject", "illtyped"}]
      /\ \A r \in Requests : vote[r][j] = "approve" => opinion[j][r] = "approve"
  BY DEF ContractInv
<1>2. ASSUME NEW c \in Requests, Judge(j)!Examine(c)
      PROVE  /\ opinion[j][c] = "none" /\ ballot' = ballot
             /\ \E o \in {"approve", "reject", "illtyped"} :
                   opinion'[j] = [opinion[j] EXCEPT ![c] = o]
  BY <1>2 DEF Judge!Examine
<1>3. ASSUME NEW c \in Requests, Judge(j)!Answer(c)
      PROVE  /\ opinion'[j] = opinion[j]
             /\ \E v \in {"approve", "reject", "raised"} :
                   /\ v = "approve" => opinion[j][c] = "approve"
                   /\ ballot' = [ballot EXCEPT ![c] = v]
  BY <1>3 DEF Judge!Answer
<1>4. CASE UNCHANGED Judge(j)!vars
  BY <1>1, <1>4 DEF Judge!vars
<1>5. QED
  BY <1>1, <1>2, <1>3, <1>4 DEF KeepsContract, Judge!Next

LEMMA ContractInvariance == HonestSpec => []ContractInv
<1>1. (\A j \in Honest : Judge(j)!Init) => ContractInv
  BY DEF Judge!Init, ContractInv
<1>2. ContractInv /\ [\A j \in Honest : KeepsContract(j)]_<<opinion, vote>>
         => ContractInv'
  <2>1. ContractInv /\ (\A j \in Honest : KeepsContract(j)) => ContractInv'
    BY ContractStep DEF ContractInv
  <2>2. ContractInv /\ UNCHANGED <<opinion, vote>> => ContractInv'
    BY DEF ContractInv
  <2>3. QED
    BY <2>1, <2>2
<1>3. QED
  BY <1>1, <1>2, PTL DEF HonestSpec

(* From the agent's runtime to the verdict: when the honest judges keep    *)
(* their contract and are the majority, a call passes the guard only if an *)
(* honest judge examined that very call and its opinion was to approve.    *)
THEOREM AllowedWasExamined ==
    ASSUME 2 * Cardinality(Byzantine) < Cardinality(Judges)
    PROVE  Spec /\ HonestSpec =>
              [](\A r \in Requests : hook[r] = "exit0" =>
                    \E j \in Honest : opinion[j][r] = "approve")
<1>1. Judges # {}
  BY FS_EmptySet, FS_Subset, FS_CardinalityType, PanelAssumption
<1>2. MinorityCannotAllow /\ ContractInv =>
         \A r \in Requests : hook[r] = "exit0" =>
            \E j \in Honest : opinion[j][r] = "approve"
  BY <1>1 DEF MinorityCannotAllow, ContractInv, Honest
<1>3. QED
  BY <1>2, MinorityCannotAllowAlways, ContractInvariance, PTL

-----------------------------------------------------------------------------
\* events/judgment.jsonl as a file under several writers and readers that
\* take no lock.

USE LogAssumption

\* A line that begins with the remains of a record that was cut short.
Cut(line) == line # <<>> /\ line[1][1] \in torn

\* The line that the newline of r closed.
Closes(line, r) ==
    line = Line(r) \/ (Cut(line) /\ line[Len(line)] = <<r, "body">>)

Begun(r) ==
    r[2] < count[r[1]] \/ (r[2] = count[r[1]] /\ written[r[1]] # "nothing")

StartsARecord(line) ==
    /\ line # <<>> /\ line[1][2] = "head"
    /\ line[1][1] \in Record /\ Begun(line[1][1])

LockHeld ==
    \A w \in Writers :
        /\ lock = w <=> pc[w] = "writing"
        /\ pc[w] = "waiting" => written[w] = "nothing"
        /\ pc[w] \in {"waiting", "writing"} => count[w] >= 1

\* No two lines begin with the same record, and each ends with some record.
LinesFromRecords ==
    /\ \A line \in lines :
          StartsARecord(line) /\ \E r \in Record : Closes(line, r)
    /\ \A l, m \in lines : l[1] = m[1] => l = m
    /\ open # <<>> =>
          StartsARecord(open) /\ \A line \in lines : line[1] # open[1]

\* The holder of the lock adds to an empty line or to a fragment.
OpenIsOwn ==
    /\ lock = None => open = <<>> \/ Cut(open)
    /\ \A w \in Writers : lock = w =>
          /\ written[w] = "nothing" => open = <<>> \/ Cut(open)
          /\ written[w] = "head" =>
                open = << <<Current(w), "head">> >> \/ Cut(open)
          /\ written[w] = "body" => Closes(open, Current(w))
          /\ written[w] = "newline" =>
                open = <<>> /\ \E line \in lines : Closes(line, Current(w))

DoneIsClosed ==
    /\ IsFiniteSet(torn)
    /\ \A r \in done : \E line \in lines : Closes(line, r)

FileInv == LockHeld /\ LinesFromRecords /\ OpenIsOwn /\ DoneIsClosed

\* Appending to a file, piece by piece.
LEMMA AppendFacts ==
    ASSUME NEW P, NEW s \in Seq(P), NEW e \in P
    PROVE  /\ Append(s, e) \in Seq(P) /\ Len(Append(s, e)) = Len(s) + 1
           /\ \A i \in 1 .. Len(s) : Append(s, e)[i] = s[i]
           /\ Append(s, e)[Len(s) + 1] = e
<1>1. Append(s, e) \in Seq(P) /\ Len(Append(s, e)) = Len(s) + 1
  OBVIOUS
<1>2. \A i \in 1 .. Len(s) : Append(s, e)[i] = s[i]
  OBVIOUS
<1>3. Append(s, e)[Len(s) + 1] = e
  OBVIOUS
<1>4. QED
  BY <1>1, <1>2, <1>3

LEMMA SecondOfTwo ==
    ASSUME NEW P, NEW s \in Seq(P), NEW e \in P, NEW t \in Seq(P), NEW u \in Seq(P),
           Len(s) = 1, Len(t) = 2, t[1] = s[1], t[2] = e, Len(u) = Len(s) + 1,
           \A i \in 1 .. Len(s) : u[i] = s[i], u[Len(s) + 1] = e
    PROVE  u = t
<1>1. \A i \in 1 .. Len(u) : u[i] = t[i]
  OBVIOUS
<1>2. QED
  BY <1>1, SeqEqual

LEMMA TwoPieces ==
    ASSUME NEW P, NEW a \in P, NEW b \in P
    PROVE  Append(<< a >>, b) = << a, b >>
<1>1. << a >> \in Seq(P) /\ << a, b >> \in Seq(P) /\ Append(<< a >>, b) \in Seq(P)
  OBVIOUS
<1>2. PICK s \in Seq(P), t \in Seq(P), u \in Seq(P) :
         s = << a >> /\ t = << a, b >> /\ u = Append(s, b)
  BY <1>1
<1>3. Len(s) = 1 /\ s[1] = a /\ Len(t) = 2 /\ t[1] = a /\ t[2] = b
  BY <1>2
<1>4. /\ u \in Seq(P) /\ Len(u) = Len(s) + 1
      /\ \A i \in 1 .. Len(s) : u[i] = s[i]
      /\ u[Len(s) + 1] = b
  BY <1>2, AppendFacts
<1>5. u = t
  BY <1>3, <1>4, SecondOfTwo
<1>6. QED
  BY <1>2, <1>5

LEMMA OnePiece ==
    ASSUME NEW P, NEW a \in P
    PROVE  << a >> # << >> /\ << a >>[1] = a
<1>1. << a >> \in Seq(P) /\ Len(<< a >>) = 1
  OBVIOUS
<1>2. QED
  BY <1>1

LEMMA Appended ==
    ASSUME NEW P, NEW s \in Seq(P), NEW e \in P
    PROVE  /\ Append(s, e) \in Seq(P) /\ Append(s, e) # <<>>
           /\ Append(s, e)[Len(Append(s, e))] = e
           /\ s = <<>> => Append(s, e) = <<e>>
           /\ s # <<>> => Append(s, e)[1] = s[1]
<1>1. /\ Append(s, e) \in Seq(P) /\ Append(s, e) # <<>>
      /\ Append(s, e)[Len(Append(s, e))] = e
  OBVIOUS
<1>2. s = <<>> => Append(s, e) = <<e>>
  OBVIOUS
<1>3. s # <<>> => Append(s, e)[1] = s[1]
  OBVIOUS
<1>4. QED
  BY <1>1, <1>2, <1>3

\* The three steps of a write, with the file they leave.
LEMMA Written ==
    ASSUME LogTypeOK, LockHeld,
           NEW w \in Writers, Write(w)
    PROVE  /\ pc[w] = "writing" /\ lock = w /\ Current(w) \in Record
           /\ UNCHANGED <<pc, count, lock, done, torn>>
           /\ open' \in Seq(Piece) /\ lines' \subseteq Seq(Piece)
           /\ \/ /\ written[w] = "nothing"
                 /\ written' = [written EXCEPT ![w] = "head"]
                 /\ open' = Append(open, <<Current(w), "head">>)
                 /\ lines' = lines
              \/ /\ written[w] = "head"
                 /\ written' = [written EXCEPT ![w] = "body"]
                 /\ open' = Append(open, <<Current(w), "body">>)
                 /\ lines' = lines
              \/ /\ written[w] = "body"
                 /\ written' = [written EXCEPT ![w] = "newline"]
                 /\ lines' = lines \cup {open} /\ open' = <<>>
<1> USE DEF LogTypeOK
<1>1. pc[w] = "writing" /\ UNCHANGED <<pc, count, lock, done, torn>>
  BY DEF Write
<1>2. lock = w /\ Current(w) \in Record
  BY <1>1 DEF LockHeld, Current, Record
<1>3. ASSUME NEW k \in {"head", "body"},
             open' = Append(open, <<Current(w), k>>)
      PROVE  open' \in Seq(Piece)
  <2>1. <<Current(w), k>> \in Piece
    BY <1>2 DEF Piece
  <2>2. QED
    BY <1>3, <2>1, Appended
<1>4. \/ /\ written[w] = "nothing"
         /\ written' = [written EXCEPT ![w] = "head"]
         /\ open' = Append(open, <<Current(w), "head">>) /\ lines' = lines
      \/ /\ written[w] = "head"
         /\ written' = [written EXCEPT ![w] = "body"]
         /\ open' = Append(open, <<Current(w), "body">>) /\ lines' = lines
      \/ /\ written[w] = "body"
         /\ written' = [written EXCEPT ![w] = "newline"]
         /\ lines' = lines \cup {open} /\ open' = <<>>
  BY DEF Write
<1>5. open' \in Seq(Piece)
  BY <1>3, <1>4, EmptySeq
<1>6. lines' \subseteq Seq(Piece)
  BY <1>4
<1>7. QED
  BY <1>1, <1>2, <1>4, <1>5, <1>6

\* Types and the lock: who writes is who holds it.
LEMMA FileTyped == LogSpec => [](LogTypeOK /\ LockHeld)
<1> DEFINE Typed == LogTypeOK /\ LockHeld
<1>1. LogInit => Typed
  BY DEF LogInit, LogTypeOK, LockHeld
<1>2. Typed /\ [LogNext]_logVars => Typed'
  <2> SUFFICES ASSUME Typed, [LogNext]_logVars PROVE Typed'
    OBVIOUS
  <2>0. ASSUME NEW w \in Writers, Write(w)
        PROVE  open' \in Seq(Piece) /\ lines' \subseteq Seq(Piece)
    BY <2>0, Written
  <2> USE DEF LockHeld, LogTypeOK, Goto
  <2>1. ASSUME NEW w \in Writers, Begin(w)
        PROVE  Typed'
    BY <2>1 DEF Begin
  <2>2. ASSUME NEW w \in Writers, Acquire(w)
        PROVE  Typed'
    BY <2>2 DEF Acquire
  <2>3. ASSUME NEW w \in Writers, Write(w)
        PROVE  Typed'
    <3>1. \E k \in {"head", "body", "newline"} :
             written' = [written EXCEPT ![w] = k]
      BY <2>3 DEF Write
    <3>2. open' \in Seq(Piece) /\ lines' \subseteq Seq(Piece)
      BY <2>3, <2>0
    <3>3. pc[w] = "writing" /\ UNCHANGED <<pc, count, lock, done, torn>>
      BY <2>3 DEF Write
    <3>4. QED
      BY <3>1, <3>2, <3>3
  <2>4. ASSUME NEW w \in Writers, Release(w)
        PROVE  Typed'
    BY <2>4 DEF Release, Current, Record
  <2>5. ASSUME NEW w \in Writers, Fail(w) \/ Crash(w)
        PROVE  Typed'
    <3>1. torn' \subseteq Record
      BY <2>5 DEF Fail, Crash, Abandon, Current, Record
    <3>2. QED
      BY <2>5, <3>1 DEF Fail, Crash
  <2>6. CASE UNCHANGED logVars
    BY <2>6 DEF logVars
  <2>7. QED
    BY <2>1, <2>2, <2>3, <2>4, <2>5, <2>6 DEF LogNext, Step
<1>3. QED
  BY <1>1, <1>2, PTL DEF LogSpec

\* What has begun stays begun, and what was cut short stays so.
LEMMA BegunStays ==
    ASSUME LogTypeOK, LockHeld, [LogNext]_logVars
    PROVE  /\ \A r \in Record : Begun(r) => Begun(r)'
           /\ torn \subseteq torn'
           /\ \A line : Cut(line) => Cut(line)'
           /\ \A line, r : Closes(line, r) => Closes(line, r)'
<1> USE DEF LogTypeOK
<1>1. torn \subseteq torn'
  BY DEF LogNext, Step, logVars, Begin, Acquire, Write,
     Release, Fail, Crash, Abandon
<1>2. \A line : Cut(line) => Cut(line)'
  BY <1>1 DEF Cut
<1>3. \A line, r : Closes(line, r) => Closes(line, r)'
  BY <1>2 DEF Closes, Line
<1>4. ASSUME NEW r \in Record, Begun(r) PROVE Begun(r)'
  <2>1. ASSUME NEW w \in Writers, Begin(w) PROVE Begun(r)'
    BY <1>4, <2>1 DEF Begin, Begun, Record
  <2>2. ASSUME NEW w \in Writers, Write(w) PROVE Begun(r)'
    <3>1. count' = count
          /\ \E k \in {"head", "body", "newline"} :
                written' = [written EXCEPT ![w] = k]
      BY <2>2 DEF Write
    <3>2. QED
      BY <1>4, <3>1 DEF Begun, Record
  <2>3. CASE UNCHANGED <<count, written>>
    BY <1>4, <2>3 DEF Begun
  <2>4. QED
    BY <2>1, <2>2, <2>3
       DEF LogNext, Step, logVars, Acquire, Release,
           Fail, Crash
<1>5. QED
  BY <1>1, <1>2, <1>3, <1>4

\* A step that does not touch the file.
LEMMA FileUntouched ==
    ASSUME LogTypeOK, LockHeld, LinesFromRecords,
           [LogNext]_logVars, UNCHANGED <<lines, open>>
    PROVE  LinesFromRecords'
<1>1. \A line : StartsARecord(line) => StartsARecord(line)'
  BY BegunStays DEF StartsARecord
<1>2. QED
  BY <1>1, BegunStays DEF LinesFromRecords

\* A step of one of the writers that adds a piece or a newline.
LEMMA WriteKeepsFile ==
    ASSUME LogTypeOK, LockHeld, FileInv,
           NEW w \in Writers, Write(w)
    PROVE  FileInv'
<1>0. PICK r \in Record : r = Current(w)
  BY Written
<1> USE DEF LogTypeOK
<1>1. /\ lock = w /\ lock' = w /\ r = Current(w)
      /\ UNCHANGED <<pc, count, lock, done, torn>>
  BY <1>0, Written
<1>2. /\ \A q \in Record : Begun(q) => Begun(q)'
      /\ \A line : Cut(line) => Cut(line)'
      /\ \A line, q : Closes(line, q) => Closes(line, q)'
      /\ \A line : StartsARecord(line) => StartsARecord(line)'
  BY BegunStays DEF LogNext, Step, StartsARecord
<1>3. Current(w)' = r
  BY <1>1 DEF Current
<1>4. ASSUME open' = Append(open, <<r, "head">>), lines' = lines,
             written[w] = "nothing", written' = [written EXCEPT ![w] = "head"]
      PROVE  LinesFromRecords' /\ OpenIsOwn'
  <2>1. <<r, "head">> \in Piece
    BY <1>1 DEF Piece
  <2>2. open = <<>> \/ Cut(open)
    BY <1>1, <1>4 DEF FileInv, OpenIsOwn
  <2>3. /\ open' # <<>>
        /\ open = <<>> => open' = << <<r, "head">> >>
        /\ open # <<>> => open'[1] = open[1]
    BY <1>4, <2>1, Appended
  <2>4. CASE open = <<>>
    <3>1. StartsARecord(open)'
      <4>1. Begun(r)'
        BY <1>1, <1>4 DEF Begun, Current
      <4>2. open'[1][2] = "head" /\ open'[1][1] = r
        BY <2>3, <2>4
      <4>3. QED
        BY <1>1, <2>3, <4>1, <4>2 DEF StartsARecord, Record
    <3>2. \A line \in lines : line[1] # <<r, "head">>
      <4>1. ~Begun(r)
        BY <1>1, <1>4 DEF Begun, Current
      <4>2. QED
        BY <4>1 DEF FileInv, LinesFromRecords, StartsARecord
    <3>3. LinesFromRecords'
      BY <1>2, <1>4, <2>3, <2>4, <3>1, <3>2 DEF FileInv, LinesFromRecords
    <3>4. OpenIsOwn'
      BY <1>1, <1>3, <1>4, <2>3, <2>4 DEF OpenIsOwn
    <3>5. QED
      BY <3>3, <3>4
  <2>5. CASE open # <<>>
    <3>1. StartsARecord(open)' /\ Cut(open)'
      BY <1>1, <1>2, <2>2, <2>3, <2>5
         DEF FileInv, LinesFromRecords, StartsARecord, Cut
    <3>2. LinesFromRecords'
      BY <1>2, <1>4, <2>3, <2>5, <3>1 DEF FileInv, LinesFromRecords
    <3>3. OpenIsOwn'
      BY <1>1, <1>4, <3>1 DEF OpenIsOwn
    <3>4. QED
      BY <3>2, <3>3
  <2>6. QED
    BY <2>4, <2>5
<1>5. ASSUME open' = Append(open, <<r, "body">>), lines' = lines,
             written[w] = "head", written' = [written EXCEPT ![w] = "body"]
      PROVE  LinesFromRecords' /\ OpenIsOwn'
  <2>1. <<r, "body">> \in Piece
    BY <1>1 DEF Piece
  <2>2. open = << <<r, "head">> >> \/ Cut(open)
    BY <1>1, <1>5 DEF FileInv, OpenIsOwn
  <2>3. open # <<>>
    <3>1. <<r, "head">> \in Piece
      BY DEF Piece
    <3>2. QED
      BY <2>2, <3>1, OnePiece DEF Cut
  <2>4. /\ open' # <<>> /\ open'[Len(open')] = <<r, "body">>
        /\ open'[1] = open[1]
    BY <1>5, <2>1, <2>3, Appended
  <2>5. StartsARecord(open)'
    BY <1>2, <2>3, <2>4 DEF FileInv, LinesFromRecords, StartsARecord
  <2>6. LinesFromRecords'
    BY <1>2, <1>5, <2>3, <2>4, <2>5 DEF FileInv, LinesFromRecords
  <2>7. Closes(open, r)'
    <3>1. CASE open = << <<r, "head">> >>
      <4>1. open' = Line(r)
        <5>1. <<r, "head">> \in Piece
          BY DEF Piece
        <5>2. PICK a \in Piece, b \in Piece :
                 a = <<r, "head">> /\ b = <<r, "body">>
          BY <2>1, <5>1
        <5>3. Append(<< a >>, b) = << a, b >>
          BY TwoPieces
        <5>4. QED
          BY <1>1, <1>5, <3>1, <5>2, <5>3 DEF Line
      <4>2. QED
        BY <1>1, <4>1 DEF Closes, Line
    <3>2. CASE Cut(open)
      BY <1>1, <1>3, <2>4, <3>2 DEF Closes, Cut
    <3>3. QED
      BY <2>2, <3>1, <3>2
  <2>8. OpenIsOwn'
    BY <1>1, <1>3, <1>5, <2>7 DEF OpenIsOwn
  <2>9. QED
    BY <2>6, <2>8
<1>6. ASSUME lines' = lines \cup {open}, open' = <<>>,
             written[w] = "body", written' = [written EXCEPT ![w] = "newline"]
      PROVE  LinesFromRecords' /\ OpenIsOwn'
  <2>1. Closes(open, r)
    BY <1>1, <1>6 DEF FileInv, OpenIsOwn
  <2>2. open # <<>>
    BY <2>1 DEF Closes, Cut, Line
  <2>3. LinesFromRecords'
    BY <1>1, <1>2, <1>6, <2>1, <2>2 DEF FileInv, LinesFromRecords, Record
  <2>4. OpenIsOwn'
    BY <1>1, <1>2, <1>3, <1>6, <2>1 DEF OpenIsOwn
  <2>5. QED
    BY <2>3, <2>4
<1>7. LinesFromRecords' /\ OpenIsOwn'
  BY <1>0, <1>4, <1>5, <1>6, Written
<1>8. DoneIsClosed'
  <2>1. lines \subseteq lines'
    BY DEF Write
  <2>2. QED
    BY <1>1, <1>2, <2>1 DEF FileInv, DoneIsClosed
<1>9. LockHeld'
  BY <1>1, Written DEF LockHeld
<1>10. QED
  BY <1>7, <1>8, <1>9 DEF FileInv

LEMMA StepKeepsFile ==
    ASSUME LogTypeOK, LockHeld, LockHeld', FileInv,
           [LogNext]_logVars
    PROVE  FileInv'
<1> USE DEF LogTypeOK
<1>1. CASE \E w \in Writers : Write(w)
  BY <1>1, WriteKeepsFile
<1>2. CASE UNCHANGED <<lines, open>>
  <2>1. LinesFromRecords'
    BY <1>2, FileUntouched DEF FileInv
  <2>2. /\ \A line : Cut(line) => Cut(line)'
        /\ \A line, r : Closes(line, r) => Closes(line, r)'
    BY BegunStays
  <2>3. ASSUME NEW w \in Writers, Begin(w)
        PROVE  OpenIsOwn' /\ DoneIsClosed'
    <3>1. /\ lock # w /\ UNCHANGED <<lock, done, torn>>
          /\ \A v \in Writers : v # w =>
                written'[v] = written[v] /\ count'[v] = count[v]
      BY <2>3 DEF Begin, LockHeld
    <3>2. \A v \in Writers : v # w => Current(v)' = Current(v)
      BY <3>1 DEF Current
    <3>3. OpenIsOwn'
      BY <1>2, <2>2, <3>1, <3>2 DEF FileInv, OpenIsOwn
    <3>4. DoneIsClosed'
      BY <1>2, <2>2, <3>1 DEF FileInv, DoneIsClosed
    <3>5. QED
      BY <3>3, <3>4
  <2>4. ASSUME NEW w \in Writers, Acquire(w)
        PROVE  OpenIsOwn' /\ DoneIsClosed'
    <3>1. /\ lock = None /\ lock' = w /\ written[w] = "nothing"
          /\ UNCHANGED <<written, count, done, torn>>
      BY <2>4 DEF Acquire, LockHeld
    <3>2. OpenIsOwn'
      BY <1>2, <2>2, <3>1 DEF FileInv, OpenIsOwn
    <3>3. DoneIsClosed'
      BY <1>2, <2>2, <3>1 DEF FileInv, DoneIsClosed
    <3>4. QED
      BY <3>2, <3>3
  <2>5. ASSUME NEW w \in Writers, Release(w)
        PROVE  OpenIsOwn' /\ DoneIsClosed'
    <3>1. /\ lock = w /\ lock' = None /\ written[w] = "newline"
          /\ done' = done \cup {Current(w)} /\ torn' = torn
      BY <2>5 DEF Release, LockHeld
    <3>2. open = <<>> /\ \E line \in lines : Closes(line, Current(w))
      BY <3>1 DEF FileInv, OpenIsOwn
    <3>3. OpenIsOwn'
      BY <1>2, <3>1, <3>2 DEF OpenIsOwn
    <3>4. DoneIsClosed'
      BY <1>2, <2>2, <3>1, <3>2 DEF FileInv, DoneIsClosed
    <3>5. QED
      BY <3>3, <3>4
  <2>6. ASSUME NEW w \in Writers, Fail(w) \/ Crash(w)
        PROVE  OpenIsOwn' /\ DoneIsClosed'
    <3>1. /\ UNCHANGED <<written, count, done>>
          /\ torn' = torn \/ torn' = torn \cup {Current(w)}
          /\ written[w] \in {"head", "body"} => Current(w) \in torn'
      BY <2>6 DEF Fail, Crash, Abandon
    <3>2. DoneIsClosed'
      <4>1. IsFiniteSet(torn')
        <5>1. IsFiniteSet(torn) /\ IsFiniteSet(torn \cup {Current(w)})
          BY FS_AddElement DEF FileInv, DoneIsClosed
        <5>2. QED
          BY <3>1, <5>1
      <4>2. QED
        BY <1>2, <2>2, <3>1, <4>1 DEF FileInv, DoneIsClosed
    <3>3. CASE pc[w] = "writing"
      <4>1. lock = w /\ lock' = None
        BY <2>6, <3>3 DEF Fail, Crash, LockHeld
      <4>2. open = <<>> \/ Cut(open)'
        <5>1. CASE written[w] = "head" /\ open = << <<Current(w), "head">> >>
          <6>1. open # <<>> /\ open[1] = <<Current(w), "head">>
            BY <5>1, OnePiece
          <6>2. QED
            BY <1>2, <3>1, <5>1, <6>1 DEF Cut
        <5>2. CASE written[w] = "body" /\ open = Line(Current(w))
          <6>1. open # <<>> /\ open[1] = <<Current(w), "head">>
            BY <5>2 DEF Line
          <6>2. QED
            BY <1>2, <3>1, <5>2, <6>1 DEF Cut
        <5>3. \/ open = <<>> \/ Cut(open)
              \/ written[w] = "head" /\ open = << <<Current(w), "head">> >>
              \/ written[w] = "body" /\ open = Line(Current(w))
          BY <4>1 DEF FileInv, OpenIsOwn, Closes
        <5>4. QED
          BY <1>2, <2>2, <5>1, <5>2, <5>3
      <4>3. OpenIsOwn'
        BY <1>2, <4>1, <4>2 DEF OpenIsOwn
      <4>4. QED
        BY <3>2, <4>3
    <3>4. CASE pc[w] # "writing"
      <4>1. lock' = lock
        BY <2>6, <3>4 DEF Fail, Crash, LockHeld
      <4>2. \A v \in Writers : Current(v)' = Current(v)
        BY <3>1 DEF Current
      <4>3. OpenIsOwn'
        BY <1>2, <2>2, <3>1, <4>1, <4>2 DEF FileInv, OpenIsOwn
      <4>4. QED
        BY <3>2, <4>3
    <3>5. QED
      BY <3>3, <3>4
  <2>7. ASSUME UNCHANGED logVars
        PROVE  OpenIsOwn' /\ DoneIsClosed'
    BY <2>7 DEF FileInv, logVars, OpenIsOwn, DoneIsClosed, Closes, Cut,
       Current
  <2>8. OpenIsOwn' /\ DoneIsClosed'
    <3>1. CASE \E w \in Writers : Write(w)
      BY <3>1, WriteKeepsFile DEF FileInv
    <3>2. QED
      BY <2>3, <2>4, <2>5, <2>6, <2>7, <3>1 DEF LogNext, Step
  <2>9. QED
    BY <2>1, <2>8 DEF FileInv
<1>3. QED
  BY <1>1, <1>2
     DEF LogNext, Step, logVars, Begin, Acquire,
         Release, Fail, Crash

LEMMA FileInvariance == LogSpec => [](LogTypeOK /\ LockHeld /\ FileInv)
<1>1. LogInit => FileInv
  <2> SUFFICES ASSUME LogInit PROVE FileInv
    OBVIOUS
  <2>1. LockHeld /\ LinesFromRecords /\ OpenIsOwn
    BY DEF LogInit, LockHeld, LinesFromRecords, OpenIsOwn
  <2>2. DoneIsClosed
    BY FS_EmptySet DEF LogInit, DoneIsClosed
  <2>3. QED
    BY <2>1, <2>2 DEF FileInv
<1>2. LogTypeOK /\ LockHeld /\ LockHeld' /\ FileInv /\ [LogNext]_logVars
         => FileInv'
  BY StepKeepsFile
<1>3. QED
  BY <1>1, <1>2, FileTyped, PTL DEF LogSpec

(* Type correctness of the writers, the lock and the file. *)
THEOREM FileTypeCorrect == LogSpec => []LogTypeOK
<1>1. LogTypeOK /\ LockHeld => LogTypeOK
  OBVIOUS
<1>2. QED
  BY <1>1, FileTyped, PTL

(* Any number of writers and records: while no append was cut short, a     *)
(* reader without a lock misses no record whose append returned, and one   *)
(* that raises has met a record on its way to the file.                    *)
THEOREM CleanLogReadsAlways == LogSpec => []CleanLogReads
<1>1. LogTypeOK /\ FileInv => CleanLogReads
  <2> SUFFICES ASSUME LogTypeOK, FileInv, torn = {}
               PROVE  /\ done \subseteq Tolerant
                      /\ StrictRaises =>
                            \E w \in Writers : lock = w /\ written[w] = "head"
    BY DEF CleanLogReads
  <2>1. \A line : ~Cut(line)
    BY DEF Cut
  <2>2. \A line, r : Closes(line, r) => line = Line(r)
    BY <2>1 DEF Closes
  <2>3. done \subseteq Tolerant
    BY <2>2 DEF LogTypeOK, FileInv, DoneIsClosed, Tolerant
  <2>4. ASSUME StrictRaises
        PROVE  \E w \in Writers : lock = w /\ written[w] = "head"
    <3>1. PICK line \in (lines \cup {open}) \ {<<>>} : ~Parses(line)
      BY <2>4 DEF StrictRaises
    <3>2. \A l \in lines : Parses(l)
      BY <2>2 DEF FileInv, LinesFromRecords, Parses
    <3>3. open # <<>> /\ ~Parses(open)
      BY <3>1, <3>2
    <3>4. PICK w \in Writers : lock = w
      BY <2>1, <3>3 DEF LogTypeOK, FileInv, OpenIsOwn
    <3>5. written[w] = "body" => Parses(open)
      <4>1. lock = w => pc[w] = "writing" /\ count[w] >= 1
        BY DEF FileInv, LockHeld
      <4>2. Current(w) \in Record
        BY <3>4, <4>1 DEF LogTypeOK, Current, Record
      <4>3. QED
        BY <2>2, <3>4, <4>2 DEF FileInv, OpenIsOwn, Parses
    <3>6. written[w] = "head"
      BY <2>1, <3>3, <3>4, <3>5 DEF LogTypeOK, FileInv, OpenIsOwn
    <3>7. QED
      BY <3>4, <3>6
  <2>5. QED
    BY <2>3, <2>4
<1>2. QED
  BY <1>1, FileInvariance, PTL

\* The fragment each lost record has landed on is another one.
LEMMA LostOnFragments ==
    ASSUME LogTypeOK, FileInv
    PROVE  \E f : f \in Injection(done \ Tolerant, torn)
<1> DEFINE S == done \ Tolerant
           line(r) == CHOOSE l \in lines : Closes(l, r)
           f == [r \in S |-> line(r)[1][1]]
<1>1. ASSUME NEW r \in S
      PROVE  /\ line(r) \in lines /\ line(r)[1][1] \in torn
             /\ line(r)[Len(line(r))] = <<r, "body">>
             /\ line(r)[1] = <<line(r)[1][1], "head">>
  <2>1. PICK l \in lines : l = line(r) /\ Closes(l, r)
    BY DEF FileInv, DoneIsClosed
  <2> HIDE DEF line
  <2>2. l # Line(r)
    BY DEF Tolerant, LogTypeOK
  <2>3. l # <<>> /\ l[1][2] = "head"
    BY DEF FileInv, LinesFromRecords, StartsARecord
  <2>4. l \in Seq(Piece) /\ l[1] \in Piece
    BY <2>3 DEF LogTypeOK
  <2>5. l[1] = <<l[1][1], "head">>
    BY <2>3, <2>4 DEF Piece
  <2>6. QED
    BY <2>1, <2>2, <2>5 DEF Closes, Cut
<1> HIDE DEF line
<1>2. f \in [S -> torn]
  BY <1>1
<1>3. ASSUME NEW r \in S, NEW q \in S, f[r] = f[q]
      PROVE  r = q
  <2>1. line(r)[1] = line(q)[1]
    BY <1>1, <1>3
  <2>2. line(r) = line(q)
    BY <1>1, <2>1 DEF FileInv, LinesFromRecords
  <2>3. <<r, "body">> = <<q, "body">>
    BY <1>1, <2>2
  <2>4. QED
    BY <2>3
<1>4. QED
  BY <1>2, <1>3 DEF Injection, IsInjective

(* No append that was cut short costs more than one other record, for any  *)
(* number of writers and failures.                                         *)
THEOREM LossBoundedAlways == LogSpec => []LossBounded
<1>1. LogTypeOK /\ FileInv => LossBounded
  <2> SUFFICES ASSUME LogTypeOK, FileInv
               PROVE  Cardinality(done \ Tolerant) <= Cardinality(torn)
    BY DEF LossBounded
  <2>1. IsFiniteSet(torn)
    BY DEF FileInv, DoneIsClosed
  <2>2. QED
    BY <2>1, LostOnFragments, FS_Injection
<1>2. QED
  BY <1>1, FileInvariance, PTL

-----------------------------------------------------------------------------
\* The guard and the file its judgments go to.

\* Where a judgment is in the file: the record of an append.
CONSTANT Place

PlaceAssumption ==
    /\ Place \in [Requests \X Decision -> Record]
    /\ \A x, y \in Requests \X Decision : Place[x] = Place[y] => x = y

\* The orchestrator takes an event as written when its append returns.
Linked == \A x \in events : Place[x] \in done

\* The allowed calls whose approval a reader that skips bad lines misses.
Missed ==
    {r \in Requests : /\ hook[r] = "exit0"
                      /\ Place[<<r, "approve">>] \notin Tolerant}

(* The results are complete but for what was cut short: of the calls that  *)
(* passed a panel, readers of events/judgment.jsonl miss at most as many   *)
(* approvals as appends were torn, and none in a clean file.               *)
THEOREM ApprovalsAreRead ==
    ASSUME PlaceAssumption, Judges # {}
    PROVE  Spec /\ LogSpec /\ []Linked =>
              [](/\ IsFiniteSet(Missed) /\ Cardinality(Missed) <= Cardinality(torn)
                 /\ torn = {} => Missed = {})
<1> DEFINE Few == /\ IsFiniteSet(Missed) /\ Cardinality(Missed) <= Cardinality(torn)
                  /\ torn = {} => Missed = {}
<1>1. GuardInv /\ LogTypeOK /\ FileInv /\ Linked => Few
  <2> SUFFICES ASSUME GuardInv, LogTypeOK, FileInv, Linked PROVE Few
    OBVIOUS
  <2> DEFINE L == done \ Tolerant
             f == [r \in Missed |-> Place[<<r, "approve">>]]
  <2>1. ASSUME NEW r \in Missed
        PROVE  f[r] \in L
    <3>1. <<r, "approve">> \in events
      BY DEF Missed, GuardInv, ExitIsReply, ReplyIsRecorded, Decision
    <3>2. QED
      BY <3>1 DEF Linked, Missed
  <2>2. \A r, q \in Missed : f[r] = f[q] => r = q
    BY DEF PlaceAssumption, Missed, Decision
  <2>3. f \in Injection(Missed, L)
    BY <2>1, <2>2 DEF Injection, IsInjective
  <2>4. IsFiniteSet(torn) /\ IsFiniteSet(L) /\ Cardinality(L) <= Cardinality(torn)
    BY LostOnFragments, FS_Injection DEF FileInv, DoneIsClosed
  <2> HIDE DEF f, L
  <2>5. IsFiniteSet(Missed) /\ Cardinality(Missed) <= Cardinality(L)
    BY <2>3, <2>4, FS_Injection
  <2>6. Cardinality(Missed) <= Cardinality(torn)
    BY <2>4, <2>5, FS_CardinalityType
  <2>7. torn = {} => Missed = {}
    <3>1. torn = {} => Cardinality(Missed) = 0
      BY <2>5, <2>6, FS_EmptySet, FS_CardinalityType
    <3>2. QED
      BY <2>5, <3>1, FS_EmptySet
  <2>8. QED
    BY <2>5, <2>6, <2>7
<1>2. QED
  BY <1>1, GuardInvariance, FileInvariance, PTL

=============================================================================
