-------------------------- MODULE OpenAIJudgeProofs --------------------------
(***************************************************************************)
(* What holds of the judge behind a chat-completions endpoint for any      *)
(* number of judgments, any sharing of clients and any turn budget,        *)
(* whatever the endpoint answers.                                          *)
(***************************************************************************)
EXTENDS OpenAIJudge, TLAPS

USE OpenAIAssumption, NoneIsNoReply

Progress == {"idle", "asking", "replied", "executing", "done"}

\* The variables by kind.
ControlTypeOK ==
    /\ pc \in [Calls -> Progress]
    /\ turn \in [Calls -> 0 .. TurnBudget]
    /\ pending \in [Calls -> 0 .. MaxToolCalls]
    /\ \A c \in Calls : pc[c] = "executing" => pending[c] > 0

TalkTypeOK ==
    /\ reply \in [Calls -> Replies \cup {None}]
    /\ messages \in [Calls -> Seq(Messages)]
    /\ \A c \in Calls : pc[c] = "replied" => reply[c] # None

ReturnTypeOK ==
    /\ vote \in [Calls -> {"none", "approve", "reject", "raised"}]
    /\ reason \in [Calls -> Categories \cup {"none", "free"}]
    /\ closed \subseteq Calls \cup {"shared"}

Typed == ControlTypeOK /\ TalkTypeOK /\ ReturnTypeOK

Step(c) == Judgment(c) \/ TimesOut(c) \/ Environment(c)

\* The variables of a returning judgment.
returned == <<vote, reason, closed>>

-----------------------------------------------------------------------------
\* The two ways on: another request, or the end.

LEMMA LeaveTyped ==
  ASSUME ReturnTypeOK, NEW c \in Calls,
         NEW v \in {"approve", "reject", "raised"},
         NEW why \in Categories \cup {"none", "free"}, Leave(c, v, why)
  PROVE  ReturnTypeOK'
BY DEF ReturnTypeOK, Leave, Close

LEMMA NextTurnTyped ==
  ASSUME ReturnTypeOK, turn \in [Calls -> 0 .. TurnBudget],
         NEW c \in Calls, NextTurn(c)
  PROVE  /\ ReturnTypeOK'
         /\ turn' \in [Calls -> 0 .. TurnBudget]
         /\ pc' = [pc EXCEPT ![c] = "asking"] \/ pc' = [pc EXCEPT ![c] = "done"]
<1>1. CASE turn[c] < TurnBudget
  BY <1>1 DEF NextTurn, Goto, ReturnTypeOK
<1>2. CASE ~(turn[c] < TurnBudget)
  <2>1. Leave(c, "reject", "judge_timed_out") /\ turn' = turn
    BY <1>2 DEF NextTurn
  <2>2. ReturnTypeOK'
    BY <2>1, LeaveTyped DEF Categories
  <2>3. QED
    BY <2>1, <2>2 DEF Leave, Goto
<1>3. QED
  BY <1>1, <1>2

LEMMA BeginTyped ==
  ASSUME Typed, NEW c \in Calls, Begin(c) PROVE Typed'
<1>1. /\ ReturnTypeOK'
      /\ turn' \in [Calls -> 0 .. TurnBudget]
      /\ pc' = [pc EXCEPT ![c] = "asking"] \/ pc' = [pc EXCEPT ![c] = "done"]
  BY NextTurnTyped DEF Begin, Typed, ControlTypeOK
<1>2. reply' = reply /\ pending' = pending /\ messages' = messages
  BY DEF Begin
<1>3. ControlTypeOK'
  BY <1>1, <1>2 DEF Typed, ControlTypeOK, Progress
<1>4. TalkTypeOK'
  BY <1>1, <1>2 DEF Typed, ControlTypeOK, TalkTypeOK
<1>5. QED
  BY <1>1, <1>3, <1>4 DEF Typed

LEMMA AnsweredTyped ==
  ASSUME Typed, NEW c \in Calls, Answered(c) PROVE Typed'
<1>1. PICK r \in Replies :
         /\ reply' = [reply EXCEPT ![c] = r]
         /\ messages' = [messages EXCEPT
               ![c] = Append(@, [role |-> "assistant", calls |-> r.calls])]
  BY DEF Answered
<1>2. /\ pc' = [pc EXCEPT ![c] = "replied"] /\ turn' = turn
      /\ pending' = pending /\ UNCHANGED returned
  BY DEF Answered, Goto, returned
<1>3. ControlTypeOK'
  BY <1>2 DEF Typed, ControlTypeOK, Progress
<1>4. TalkTypeOK'
  <2>1. [role |-> "assistant", calls |-> r.calls] \in Messages
    BY DEF Replies, Messages
  <2>2. Append(messages[c], [role |-> "assistant", calls |-> r.calls])
           \in Seq(Messages)
    BY <2>1 DEF Typed, TalkTypeOK
  <2>3. messages' \in [Calls -> Seq(Messages)]
    BY <1>1, <2>2 DEF Typed, TalkTypeOK
  <2>4. reply' \in [Calls -> Replies \cup {None}]
    BY <1>1 DEF Typed, TalkTypeOK
  <2>5. \A d \in Calls : pc'[d] = "replied" => reply'[d] # None
    BY <1>1, <1>2 DEF Typed, TalkTypeOK, ControlTypeOK
  <2>6. QED
    BY <2>3, <2>4, <2>5 DEF TalkTypeOK
<1>5. ReturnTypeOK'
  BY <1>2 DEF Typed, ReturnTypeOK, returned
<1>6. QED
  BY <1>3, <1>4, <1>5 DEF Typed

LEMMA InvestigateTyped ==
  ASSUME Typed, NEW c \in Calls, Investigate(c) PROVE Typed'
<1>1. /\ pc' = [pc EXCEPT ![c] = "executing"] /\ turn' = turn
      /\ pending' = [pending EXCEPT ![c] = reply[c].calls]
      /\ reply' = reply /\ messages' = messages /\ UNCHANGED returned
      /\ pc[c] = "replied" /\ reply[c].calls > 0
  BY DEF Investigate, Goto, returned
<1>2. reply[c].calls \in 0 .. MaxToolCalls
  BY <1>1 DEF Typed, TalkTypeOK, Replies
<1>3. ControlTypeOK'
  BY <1>1, <1>2 DEF Typed, ControlTypeOK, Progress
<1>4. TalkTypeOK'
  BY <1>1 DEF Typed, ControlTypeOK, TalkTypeOK
<1>5. ReturnTypeOK'
  BY <1>1 DEF Typed, ReturnTypeOK, returned
<1>6. QED
  BY <1>3, <1>4, <1>5 DEF Typed

LEMMA ExecuteTyped ==
  ASSUME Typed, NEW c \in Calls, Execute(c) PROVE Typed'
<1>1. /\ pending' = [pending EXCEPT ![c] = @ - 1]
      /\ messages' = [messages EXCEPT ![c] = Append(@, Result)]
      /\ reply' = reply /\ pc[c] = "executing"
  BY DEF Execute
<1>2. pending[c] \in 1 .. MaxToolCalls
  BY <1>1 DEF Typed, ControlTypeOK
<1>3. Result \in Messages
  BY <1>2 DEF Result, Messages
<1>4. Append(messages[c], Result) \in Seq(Messages)
  BY <1>3 DEF Typed, TalkTypeOK
<1>5. /\ ReturnTypeOK'
      /\ turn' \in [Calls -> 0 .. TurnBudget]
      /\ \/ pc' = pc /\ pending[c] # 1
         \/ pc' = [pc EXCEPT ![c] = "asking"]
         \/ pc' = [pc EXCEPT ![c] = "done"]
  <2>1. CASE pending[c] = 1
    BY <2>1, NextTurnTyped DEF Execute, Typed, ControlTypeOK
  <2>2. CASE pending[c] # 1
    BY <2>2 DEF Execute, Typed, ControlTypeOK, ReturnTypeOK
  <2>3. QED
    BY <2>1, <2>2
<1>6. ControlTypeOK'
  <2>1. pending' \in [Calls -> 0 .. MaxToolCalls] /\ pc' \in [Calls -> Progress]
    BY <1>1, <1>2, <1>5 DEF Typed, ControlTypeOK, Progress
  <2>2. \A d \in Calls : pc'[d] = "executing" => pending'[d] > 0
    BY <1>1, <1>2, <1>5 DEF Typed, ControlTypeOK
  <2>3. QED
    BY <1>5, <2>1, <2>2 DEF ControlTypeOK
<1>7. TalkTypeOK'
  <2>1. messages' \in [Calls -> Seq(Messages)]
    BY <1>1, <1>4 DEF Typed, TalkTypeOK
  <2>2. \A d \in Calls : pc'[d] = "replied" => reply'[d] # None
    BY <1>1, <1>5 DEF Typed, ControlTypeOK, TalkTypeOK
  <2>3. QED
    BY <1>1, <2>1, <2>2 DEF Typed, TalkTypeOK
<1>8. QED
  BY <1>5, <1>6, <1>7 DEF Typed


\* The actions that end a judgment and touch nothing of its conversation.
Ends(c) == Garbled(c) \/ ExecuteRaises(c) \/ TimesOut(c) \/ Conclude(c)

\* The vote and the reason a judgment can end with.
Fates == {"approve", "reject", "raised"}
Reasons == Categories \cup {"none", "free"}

LEMMA EndsLeaves ==
  ASSUME Typed, NEW c \in Calls, Ends(c)
  PROVE  /\ UNCHANGED talk
         /\ \E v \in Fates, why \in Reasons : Leave(c, v, why)
<1>1. CASE Garbled(c) \/ ExecuteRaises(c)
  BY <1>1 DEF Garbled, ExecuteRaises, Raise, Fates, Reasons
<1>2. CASE TimesOut(c)
  BY <1>2 DEF TimesOut, Fates, Reasons, Categories
<1>3. CASE Conclude(c)
  <2>1. reply[c].text \in Texts
    BY <1>3 DEF Conclude, Typed, TalkTypeOK, Replies
  <2>2. CASE reply[c].text = "illtyped"
    BY <1>3, <2>2 DEF Conclude, Raise, Reasons, Fates
  <2>3. CASE HasVerdict(reply[c].text) /\ reply[c].text # "illtyped"
    <3>1. ParseVerdict(reply[c].text) \in Fates
      BY <2>3 DEF HasVerdict, ParseVerdict, Fates
    <3>2. \E why \in Reasons : Leave(c, ParseVerdict(reply[c].text), why)
      BY <1>3, <2>3 DEF Conclude, Reasons
    <3>3. QED
      BY <1>3, <3>1, <3>2 DEF Conclude
  <2>4. CASE ~HasVerdict(reply[c].text)
    <3>1. Leave(c, "reject", Category(reply[c].text))
      BY <1>3, <2>4 DEF Conclude, HasVerdict
    <3>2. QED
      BY <1>3, <3>1 DEF Conclude, Category, Categories, Reasons, Fates
  <2>5. QED
    BY <2>2, <2>3, <2>4
<1>4. QED
  BY <1>1, <1>2, <1>3 DEF Ends

LEMMA EndsTyped ==
  ASSUME Typed, NEW c \in Calls, Ends(c) PROVE Typed'
<1>1. PICK v \in Fates, why \in Reasons : Leave(c, v, why)
  BY EndsLeaves
<1>2. /\ turn' = turn /\ reply' = reply /\ pending' = pending
      /\ messages' = messages /\ pc' = [pc EXCEPT ![c] = "done"]
  BY <1>1, EndsLeaves DEF talk, Leave, Goto
<1>3. ReturnTypeOK'
  BY <1>1, LeaveTyped DEF Typed, Fates, Reasons
<1>4. ControlTypeOK'
  BY <1>2 DEF Typed, ControlTypeOK, Progress
<1>5. TalkTypeOK'
  BY <1>2 DEF Typed, ControlTypeOK, TalkTypeOK
<1>6. QED
  BY <1>3, <1>4, <1>5 DEF Typed

LEMMA StepCases ==
  ASSUME NEW c, Step(c)
  PROVE  \/ Begin(c) \/ Answered(c) \/ Investigate(c) \/ Execute(c)
         \/ Ends(c)
BY DEF Step, Judgment, Environment, Ends

LEMMA NextCases ==
  ASSUME [Next]_vars
  PROVE  (\E c \in Calls : Step(c)) \/ UNCHANGED vars
BY DEF Next, Step, Finished

LEMMA TypedAlways == Spec => []Typed
<1>1. Init => Typed
  <2> SUFFICES ASSUME Init PROVE Typed
    OBVIOUS
  <2>1. ControlTypeOK
    BY DEF Init, ControlTypeOK, Progress
  <2>2. TalkTypeOK
    BY DEF Init, TalkTypeOK
  <2>3. ReturnTypeOK
    BY DEF Init, ReturnTypeOK
  <2>4. QED
    BY <2>1, <2>2, <2>3 DEF Typed
<1>2. ASSUME Typed, UNCHANGED vars PROVE Typed'
  BY <1>2 DEF Typed, ControlTypeOK, TalkTypeOK, ReturnTypeOK, vars, talk
<1>3. Typed /\ [Next]_vars => Typed'
  BY <1>2, NextCases, StepCases, BeginTyped, AnsweredTyped, InvestigateTyped,
     ExecuteTyped, EndsTyped
<1>4. QED
  BY <1>1, <1>3, PTL DEF Spec

(* Type correctness, for any calls, clients and turn budget. *)
THEOREM TypeCorrect == Spec => []TypeOK
<1>1. Typed => TypeOK
  BY DEF Typed, ControlTypeOK, TalkTypeOK, ReturnTypeOK, TypeOK, Progress
<1>2. QED
  BY <1>1, TypedAlways, PTL

-----------------------------------------------------------------------------
\* A step of one judgment leaves the others alone.

Same(d) ==
    /\ pc'[d] = pc[d] /\ reply'[d] = reply[d] /\ pending'[d] = pending[d]
    /\ messages'[d] = messages[d] /\ vote'[d] = vote[d]
    /\ reason'[d] = reason[d]
    /\ d \in closed' <=> d \in closed

LEMMA LeaveIsOwn ==
  ASSUME Typed, NEW c \in Calls, NEW v, NEW why, Leave(c, v, why),
         NEW d \in Calls, d # c
  PROVE  /\ pc'[d] = pc[d] /\ vote'[d] = vote[d] /\ reason'[d] = reason[d]
         /\ d \in closed' <=> d \in closed
BY DEF Leave, Goto, Close, Typed, ControlTypeOK, ReturnTypeOK

LEMMA NextTurnIsOwn ==
  ASSUME Typed, NEW c \in Calls, NextTurn(c), NEW d \in Calls, d # c
  PROVE  /\ pc'[d] = pc[d] /\ vote'[d] = vote[d] /\ reason'[d] = reason[d]
         /\ d \in closed' <=> d \in closed
<1>1. CASE turn[c] < TurnBudget
  BY <1>1 DEF NextTurn, Goto, Typed, ControlTypeOK
<1>2. CASE ~(turn[c] < TurnBudget)
  BY <1>2, LeaveIsOwn DEF NextTurn
<1>3. QED
  BY <1>1, <1>2

LEMMA OthersSame ==
  ASSUME Typed, NEW c \in Calls, Step(c), NEW d \in Calls, d # c
  PROVE  Same(d)
<1>1. CASE Begin(c)
  BY <1>1, NextTurnIsOwn DEF Begin, Same
<1>2. CASE Answered(c)
  BY <1>2 DEF Answered, Goto, Same, Typed, ControlTypeOK, TalkTypeOK
<1>3. CASE Investigate(c)
  BY <1>3 DEF Investigate, Goto, Same, Typed, ControlTypeOK
<1>4. CASE Execute(c)
  <2>1. /\ pending'[d] = pending[d] /\ messages'[d] = messages[d]
        /\ reply'[d] = reply[d]
    BY <1>4 DEF Execute, Typed, ControlTypeOK, TalkTypeOK
  <2>2. CASE pending[c] = 1
    BY <1>4, <2>1, <2>2, NextTurnIsOwn DEF Execute, Same
  <2>3. CASE pending[c] # 1
    BY <1>4, <2>1, <2>3 DEF Execute, Same
  <2>4. QED
    BY <2>2, <2>3
<1>5. CASE Ends(c)
  BY <1>5, EndsLeaves, LeaveIsOwn DEF Same, talk
<1>6. QED
  BY <1>1, <1>2, <1>3, <1>4, <1>5, StepCases


-----------------------------------------------------------------------------
\* What a judgment knows of itself.

\* ReasonIsTrue of one call.
Answer(c) == reply[c] # None /\ reply[c].calls = 0

Failure(c, why) == vote[c] = "reject" /\ reason[c] = why

TrueReason(c) ==
    vote[c] \in {"approve", "reject"} =>
        /\ ~Answer(c) => Failure(c, "judge_timed_out")
        /\ Answer(c) /\ reply[c].text = "refusal" => Failure(c, "judge_refused")
        /\ Answer(c) /\ reply[c].text = "prose" =>
              Failure(c, "judge_failed_malformed")
        /\ Answer(c) /\ reply[c].text \notin {"refusal", "prose"} =>
              (vote[c] = "approve" <=> reply[c].text = "approve")

OwnInv(c) ==
    /\ vote[c] = "none" <=> pc[c] # "done"
    /\ pc[c] \in {"idle", "asking", "executing"} => ~Answer(c)
    /\ c \notin Sharing => (c \in closed <=> pc[c] = "done")
    /\ TrueReason(c)

\* The end of a judgment, in one place.
Left(c, v, why) ==
    /\ pc'[c] = "done" /\ vote'[c] = v /\ reason'[c] = why
    /\ c \notin Sharing => c \in closed'

LEMMA LeaveLeft ==
  ASSUME Typed, NEW c \in Calls, NEW v, NEW why, Leave(c, v, why)
  PROVE  Left(c, v, why)
BY DEF Leave, Goto, Close, Left, Typed, ControlTypeOK, ReturnTypeOK

LEMMA NextTurnOwn ==
  ASSUME Typed, NEW c \in Calls, NextTurn(c)
  PROVE  \/ /\ pc'[c] = "asking" /\ vote'[c] = vote[c]
            /\ reason'[c] = reason[c] /\ closed' = closed
         \/ Left(c, "reject", "judge_timed_out")
<1>1. CASE turn[c] < TurnBudget
  BY <1>1 DEF NextTurn, Goto, Typed, ControlTypeOK
<1>2. CASE ~(turn[c] < TurnBudget)
  BY <1>2, LeaveLeft DEF NextTurn
<1>3. QED
  BY <1>1, <1>2

LEMMA TurnKeepsOwn ==
  ASSUME Typed, NEW c \in Calls, OwnInv(c), pc[c] \in {"idle", "executing"},
         NextTurn(c), reply'[c] = reply[c]
  PROVE  OwnInv(c)'
<1>1. CASE /\ pc'[c] = "asking" /\ vote'[c] = vote[c]
           /\ reason'[c] = reason[c] /\ closed' = closed
  BY <1>1 DEF OwnInv, TrueReason, Failure, Answer
<1>2. CASE Left(c, "reject", "judge_timed_out")
  BY <1>2 DEF OwnInv, TrueReason, Failure, Answer, Left
<1>3. QED
  BY <1>1, <1>2, NextTurnOwn

LEMMA ConcludeKeepsOwn ==
  ASSUME Typed, NEW c \in Calls, OwnInv(c), Conclude(c) PROVE OwnInv(c)'
<1>1. /\ reply'[c] = reply[c] /\ reply[c].text \in Texts /\ Answer(c)
  BY DEF Conclude, talk, Typed, TalkTypeOK, Replies, Answer
<1>2. CASE HasVerdict(reply[c].text)
  <2>1. /\ ParseVerdict(reply[c].text) \in Fates
        /\ ParseVerdict(reply[c].text) = "approve" <=> reply[c].text = "approve"
        /\ reply[c].text \notin {"refusal", "prose"}
    BY <1>2 DEF HasVerdict, ParseVerdict, Fates
  <2>2. PICK v, why : Leave(c, v, why) /\ v = ParseVerdict(reply[c].text)
    BY <1>2 DEF Conclude, Raise, ParseVerdict
  <2>3. Left(c, v, why)
    BY <2>2, LeaveLeft
  <2>4. QED
    BY <1>1, <2>1, <2>2, <2>3 DEF OwnInv, TrueReason, Failure, Answer, Left, Fates
<1>3. CASE ~HasVerdict(reply[c].text)
  <2>1. Left(c, "reject", Category(reply[c].text))
    BY <1>3, LeaveLeft DEF Conclude, HasVerdict
  <2>2. reply[c].text \in {"refusal", "prose"}
    BY <1>1, <1>3 DEF HasVerdict, Texts
  <2>3. QED
    BY <1>1, <2>1, <2>2 DEF OwnInv, TrueReason, Failure, Answer, Left, Category
<1>4. QED
  BY <1>2, <1>3

LEMMA StepKeepsOwn ==
  ASSUME Typed, NEW c \in Calls, OwnInv(c), Step(c) PROVE OwnInv(c)'
<1>1. CASE Begin(c)
  BY <1>1, TurnKeepsOwn DEF Begin
<1>2. CASE Answered(c)
  <2>1. /\ pc'[c] = "replied" /\ vote'[c] = vote[c] /\ pc[c] = "asking"
        /\ reason'[c] = reason[c] /\ closed' = closed
    BY <1>2 DEF Answered, Goto, Typed, ControlTypeOK
  <2>2. QED
    BY <2>1 DEF OwnInv, TrueReason, Failure, Answer
<1>3. CASE Investigate(c)
  <2>1. /\ pc'[c] = "executing" /\ vote'[c] = vote[c] /\ pc[c] = "replied"
        /\ reason'[c] = reason[c] /\ closed' = closed /\ reply'[c] = reply[c]
        /\ reply[c].calls > 0
    BY <1>3 DEF Investigate, Goto, Typed, ControlTypeOK
  <2>2. ~Answer(c)
    BY <2>1 DEF Answer
  <2>3. QED
    BY <2>1, <2>2 DEF OwnInv, TrueReason, Failure, Answer
<1>4. CASE Execute(c)
  <2>1. CASE pending[c] = 1
    BY <1>4, <2>1, TurnKeepsOwn DEF Execute
  <2>2. CASE pending[c] # 1
    BY <1>4, <2>2 DEF Execute, OwnInv, TrueReason, Failure, Answer
  <2>3. QED
    BY <2>1, <2>2
<1>5. CASE Garbled(c) \/ ExecuteRaises(c)
  <2>1. Left(c, "raised", "none") /\ reply' = reply
    BY <1>5, LeaveLeft DEF Garbled, ExecuteRaises, Raise, talk
  <2>2. QED
    BY <2>1 DEF Left, OwnInv, TrueReason, Failure, Answer
<1>6. CASE TimesOut(c)
  <2>1. /\ Left(c, "reject", "judge_timed_out") /\ reply' = reply
        /\ pc[c] = "asking"
    BY <1>6, LeaveLeft DEF TimesOut, talk
  <2>2. QED
    BY <2>1 DEF Left, OwnInv, TrueReason, Failure, Answer
<1>7. CASE Conclude(c)
  BY <1>7, ConcludeKeepsOwn
<1>8. QED
  BY <1>1, <1>2, <1>3, <1>4, <1>5, <1>6, <1>7, StepCases DEF Ends

LEMMA OwnAlways == Spec => [](\A c \in Calls : OwnInv(c))
<1> DEFINE Inv == \A c \in Calls : OwnInv(c)
<1>1. Init => Inv
  BY DEF Init, OwnInv, TrueReason, Failure, Answer
<1>2. ASSUME Typed, Inv, NEW c \in Calls, Step(c) PROVE Inv'
  <2>1. OwnInv(c)'
    BY <1>2, StepKeepsOwn
  <2>2. ASSUME NEW d \in Calls, d # c PROVE OwnInv(d)'
    BY <1>2, <2>2, OthersSame DEF Same, OwnInv, TrueReason, Failure, Answer
  <2>3. QED
    BY <2>1, <2>2
<1>3. ASSUME Inv, UNCHANGED vars PROVE Inv'
  BY <1>3 DEF OwnInv, TrueReason, Failure, Answer, vars, talk
<1>4. Typed /\ Inv /\ [Next]_vars => Inv'
  BY <1>2, <1>3, NextCases
<1>5. QED
  BY <1>1, <1>4, TypedAlways, PTL DEF Spec

(* A judgment that gave no verdict is a rejection under the category of    *)
(* what happened, and one that gave a verdict votes it, whatever category  *)
(* its own text claims and however many judgments run at the same time.    *)
THEOREM ReasonIsTrueAlways == Spec => []ReasonIsTrue
<1>1. (\A c \in Calls : OwnInv(c)) => ReasonIsTrue
  BY DEF OwnInv, TrueReason, Failure, Answer, ReasonIsTrue
<1>2. QED
  BY <1>1, OwnAlways, PTL

(* A client that was handed in is never closed by a judgment, a judgment's *)
(* own is closed exactly when it is over.                                  *)
THEOREM ClientLifetimeAlways == Spec => []ClientLifetime
<1> DEFINE SharedOpen == "shared" \notin closed
<1>1. Init => SharedOpen
  BY DEF Init
<1>2. ASSUME SharedOpen, NEW c \in Calls, Close(c) PROVE SharedOpen'
  BY <1>2 DEF Close
<1>3. ASSUME SharedOpen, NEW c \in Calls, NextTurn(c) PROVE SharedOpen'
  BY <1>2, <1>3 DEF NextTurn, Leave
<1>4. ASSUME Typed, SharedOpen, NEW c \in Calls, Step(c) PROVE SharedOpen'
  <2>1. CASE Begin(c)
    BY <1>3, <1>4, <2>1 DEF Begin
  <2>2. CASE Answered(c) \/ Investigate(c)
    BY <1>4, <2>2 DEF Answered, Investigate
  <2>3. CASE Execute(c)
    BY <1>3, <1>4, <2>3 DEF Execute
  <2>4. CASE Ends(c)
    BY <1>2, <1>4, <2>4, EndsLeaves DEF Leave
  <2>5. QED
    BY <1>4, <2>1, <2>2, <2>3, <2>4, StepCases
<1>5. ASSUME SharedOpen, UNCHANGED vars PROVE SharedOpen'
  BY <1>5 DEF vars
<1>6. Typed /\ SharedOpen /\ [Next]_vars => SharedOpen'
  BY <1>4, <1>5, NextCases
<1>7. SharedOpen /\ (\A c \in Calls : OwnInv(c)) => ClientLifetime
  BY DEF OwnInv, ClientLifetime
<1>8. QED
  BY <1>1, <1>6, <1>7, TypedAlways, OwnAlways, PTL DEF Spec


-----------------------------------------------------------------------------
\* The refinement of the contract of a judge.

\* The vote of a step repeats the verdict of the reply, or is no approval.
LEMMA VoteStep ==
  ASSUME Typed, NEW c \in Calls, OwnInv(c), Step(c)
  PROVE  \/ vote' = vote
         \/ /\ vote[c] = "none" /\ reply' = reply
            /\ \E v \in Fates :
                  /\ vote' = [vote EXCEPT ![c] = v]
                  /\ v = "approve" => Opinion(reply[c]) = "approve"
<1>1. ASSUME NextTurn(c)
      PROVE  vote' = vote \/ vote' = [vote EXCEPT ![c] = "reject"]
  BY <1>1 DEF NextTurn, Leave
<1>2. CASE Begin(c)
  BY <1>1, <1>2 DEF Begin, OwnInv, Fates
<1>3. CASE Answered(c) \/ Investigate(c)
  BY <1>3 DEF Answered, Investigate
<1>4. CASE Execute(c)
  BY <1>1, <1>4 DEF Execute, OwnInv, Fates
<1>5. CASE Garbled(c) \/ ExecuteRaises(c)
  BY <1>5 DEF Garbled, ExecuteRaises, Raise, Leave, OwnInv, Fates, talk
<1>6. CASE TimesOut(c)
  BY <1>6 DEF TimesOut, Leave, OwnInv, Fates, talk
<1>7. CASE Conclude(c)
  <2>1. /\ reply' = reply /\ reply[c].calls = 0 /\ vote[c] = "none"
        /\ reply[c] \in Replies
    BY <1>7 DEF Conclude, talk, OwnInv, Typed, TalkTypeOK
  <2>2. CASE HasVerdict(reply[c].text)
    <3>1. vote' = [vote EXCEPT ![c] = ParseVerdict(reply[c].text)]
      BY <1>7, <2>2 DEF Conclude, Raise, ParseVerdict, Leave
    <3>2. /\ ParseVerdict(reply[c].text) \in Fates
          /\ ParseVerdict(reply[c].text) = "approve" => reply[c].text = "approve"
      BY <2>2 DEF HasVerdict, ParseVerdict, Fates
    <3>3. ParseVerdict(reply[c].text) = "approve" => Opinion(reply[c]) = "approve"
      BY <2>1, <3>2 DEF Opinion
    <3>4. QED
      BY <2>1, <3>1, <3>2, <3>3
  <2>3. CASE ~HasVerdict(reply[c].text)
    <3>1. vote' = [vote EXCEPT ![c] = "reject"]
      BY <1>7, <2>3 DEF Conclude, HasVerdict, Leave
    <3>2. QED
      BY <2>1, <3>1 DEF Fates
  <2>4. QED
    BY <2>2, <2>3
<1>8. QED
  BY <1>2, <1>3, <1>4, <1>5, <1>6, <1>7, StepCases DEF Ends

\* What the contract sees of the replies.
Opinions == [c \in Calls |-> Opinion(reply[c])]

LEMMA AnsweredExamines ==
  ASSUME Typed, NEW c \in Calls, OwnInv(c), Answered(c)
  PROVE  Contract!Examine(c) \/ UNCHANGED <<Opinions, vote>>
<1>1. PICK r \in Replies : reply' = [reply EXCEPT ![c] = r]
  BY DEF Answered
<1>2. Opinion(reply[c]) = "none"
  <2>1. pc[c] = "asking" /\ reply[c] \in Replies \cup {None}
    BY DEF Answered, Typed, TalkTypeOK
  <2>2. reply[c] = None \/ reply[c].calls > 0
    BY <2>1 DEF OwnInv, Answer, Replies
  <2>3. QED
    BY <2>2 DEF Opinion
<1>3. Opinion(r) \in {"none", "approve", "reject", "illtyped"}
  BY DEF Opinion
<1>4. Opinions' = [Opinions EXCEPT ![c] = Opinion(r)]
  BY <1>1 DEF Opinions, Typed, TalkTypeOK
<1>5. Opinions[c] = "none" /\ vote' = vote
  BY <1>2 DEF Opinions, Answered
<1>6. CASE Opinion(r) = "none"
  BY <1>4, <1>5, <1>6 DEF Opinions
<1>7. CASE Opinion(r) # "none"
  BY <1>3, <1>4, <1>5, <1>7 DEF Contract!Examine, Opinions
<1>8. QED
  BY <1>6, <1>7

(* The judge behind an endpoint keeps the contract of a judge: an approval *)
(* is the verdict the model gave for that call and nothing that fails is   *)
(* one, for any answers, budget and number of judgments.                   *)
THEOREM ContractImplemented == Spec => ImplementsContract
<1>1. Init => Contract!Init
  BY DEF Init, Contract!Init, Opinion
<1>2. ASSUME Typed, \A c \in Calls : OwnInv(c), [Next]_vars
      PROVE  [Contract!Next]_(Contract!vars)
  <2>1. CASE UNCHANGED vars
    BY <2>1 DEF vars, talk, Contract!vars
  <2>2. ASSUME NEW c \in Calls, Step(c) PROVE [Contract!Next]_(Contract!vars)
    <3>1. CASE Answered(c)
      BY <1>2, <3>1, AnsweredExamines
         DEF Contract!Next, Contract!vars, Opinions
    <3>2. CASE ~Answered(c)
      <4>1. reply' = reply
        BY <1>2, <2>2, <3>2, StepCases, EndsLeaves
           DEF Begin, Investigate, Execute, talk
      <4>2. Opinions' = Opinions
        BY <4>1 DEF Opinions
      <4>3. CASE vote' = vote
        BY <4>2, <4>3 DEF Contract!vars, Opinions
      <4>4. CASE vote' # vote
        <5>1. PICK v \in Fates :
                 /\ vote' = [vote EXCEPT ![c] = v]
                 /\ v = "approve" => Opinion(reply[c]) = "approve"
                 /\ vote[c] = "none"
          BY <1>2, <2>2, <4>4, VoteStep
        <5>2. Contract!Answer(c)
          BY <4>2, <5>1 DEF Contract!Answer, Opinions, Fates
        <5>3. QED
          BY <5>2 DEF Contract!Next
      <4>5. QED
        BY <4>3, <4>4
    <3>3. QED
      BY <3>1, <3>2
  <2>3. QED
    BY <1>2, <2>1, <2>2, NextCases
<1>3. QED
  BY <1>1, <1>2, TypedAlways, OwnAlways, PTL
     DEF Spec, ImplementsContract, Contract!Spec

-----------------------------------------------------------------------------
\* The conversation.

\* The tool results the last reply of a call still has to get.
Owed(c) ==
    IF pc[c] = "executing" THEN pending[c]
    ELSE IF pc[c] = "replied" THEN reply[c].calls
    ELSE 0

\* A reply at i is followed by as many results as it has calls, and then by
\* the next reply; only the last one may still be owed some.
Followed(m, owed) ==
    \A i \in 1 .. Len(m) : m[i].role = "assistant" =>
        LET e == i + m[i].calls IN
        /\ \A k \in i + 1 .. e : k <= Len(m) => m[k].role = "tool"
        /\ \/ e < Len(m) /\ m[e + 1].role = "assistant"
           \/ e = Len(m) + owed

TalkInv(c) == pc[c] # "done" => Followed(messages[c], Owed(c))

LEMMA CountsOfCalls ==
  ASSUME NEW m \in Seq(Messages)
  PROVE  \A i \in 1 .. Len(m) : m[i].calls \in Nat
<1>1. \A i \in 1 .. Len(m) : m[i] \in Messages
  OBVIOUS
<1>2. \A x \in Messages : x.calls \in Nat
  BY DEF Messages
<1>3. QED
  BY <1>1, <1>2

LEMMA ReplyFollows ==
  ASSUME NEW m \in Seq(Messages), NEW n \in 0 .. MaxToolCalls, Followed(m, 0)
  PROVE  Followed(Append(m, [role |-> "assistant", calls |-> n]), n)
<1> DEFINE t == Append(m, [role |-> "assistant", calls |-> n])
<1>1. /\ Len(m) \in Nat /\ Len(t) = Len(m) + 1
      /\ \A i \in 1 .. Len(m) : t[i] = m[i]
      /\ t[Len(m) + 1].role = "assistant" /\ t[Len(m) + 1].calls = n
  OBVIOUS
<1>2. \A i \in 1 .. Len(m) : m[i].calls \in Nat
  BY CountsOfCalls
<1> SUFFICES Followed(t, n)
  OBVIOUS
<1> HIDE DEF t
<1> SUFFICES ASSUME NEW i \in 1 .. Len(t), t[i].role = "assistant"
             PROVE  /\ \A k \in i + 1 .. i + t[i].calls :
                          k <= Len(t) => t[k].role = "tool"
                    /\ \/ /\ i + t[i].calls < Len(t)
                          /\ t[i + t[i].calls + 1].role = "assistant"
                       \/ i + t[i].calls = Len(t) + n
  BY DEF Followed
<1>3. CASE i = Len(m) + 1
  BY <1>1, <1>3
<1>4. CASE i \in 1 .. Len(m)
  <2>1. t[i] = m[i] /\ m[i].calls \in Nat /\ i + m[i].calls <= Len(m)
    BY <1>1, <1>2, <1>4 DEF Followed
  <2>2. \A k \in i + 1 .. i + m[i].calls : t[k].role = "tool"
    BY <1>1, <1>4, <2>1 DEF Followed
  <2>3. t[i + m[i].calls + 1].role = "assistant"
    <3>1. CASE i + m[i].calls = Len(m)
      BY <1>1, <3>1
    <3>2. CASE i + m[i].calls # Len(m)
      <4>1. m[i + m[i].calls + 1].role = "assistant"
        BY <1>1, <1>4, <2>1, <3>2 DEF Followed
      <4>2. i + m[i].calls + 1 \in 1 .. Len(m)
        BY <1>1, <1>4, <2>1, <3>2
      <4>3. QED
        BY <1>1, <4>1, <4>2
    <3>3. QED
      BY <3>1, <3>2
  <2>4. QED
    BY <1>1, <2>1, <2>2, <2>3
<1>5. QED
  BY <1>1, <1>3, <1>4

LEMMA ResultFollows ==
  ASSUME NEW m \in Seq(Messages), NEW n \in Nat, n > 0, Followed(m, n)
  PROVE  Followed(Append(m, Result), n - 1)
<1> DEFINE t == Append(m, Result)
<1>1. /\ Len(m) \in Nat /\ Len(t) = Len(m) + 1
      /\ \A i \in 1 .. Len(m) : t[i] = m[i]
      /\ t[Len(m) + 1].role = "tool"
  BY DEF Result
<1>2. \A i \in 1 .. Len(m) : m[i].calls \in Nat
  BY CountsOfCalls
<1> SUFFICES Followed(t, n - 1)
  OBVIOUS
<1> HIDE DEF t
<1> SUFFICES ASSUME NEW i \in 1 .. Len(t), t[i].role = "assistant"
             PROVE  /\ \A k \in i + 1 .. i + t[i].calls :
                          k <= Len(t) => t[k].role = "tool"
                    /\ \/ /\ i + t[i].calls < Len(t)
                          /\ t[i + t[i].calls + 1].role = "assistant"
                       \/ i + t[i].calls = Len(t) + (n - 1)
  BY DEF Followed
<1>3. i \in 1 .. Len(m) /\ t[i] = m[i] /\ m[i].calls \in Nat
  BY <1>1, <1>2
<1>4. \A k \in i + 1 .. i + m[i].calls : k <= Len(t) => t[k].role = "tool"
  BY <1>1, <1>3 DEF Followed
<1>5. \/ i + m[i].calls < Len(m) /\ m[i + m[i].calls + 1].role = "assistant"
      \/ i + m[i].calls = Len(m) + n
  BY <1>1, <1>3 DEF Followed
<1>6. CASE i + m[i].calls = Len(m) + n
  BY <1>1, <1>3, <1>4, <1>6
<1>7. CASE i + m[i].calls < Len(m) /\ m[i + m[i].calls + 1].role = "assistant"
  <2>1. i + m[i].calls + 1 \in 1 .. Len(m)
    BY <1>1, <1>3, <1>7
  <2>2. t[i + m[i].calls + 1].role = "assistant"
    BY <1>1, <1>7, <2>1
  <2>3. QED
    BY <1>1, <1>3, <1>4, <1>7, <2>2
<1>8. QED
  BY <1>5, <1>6, <1>7


LEMMA StepKeepsTalk ==
  ASSUME Typed, NEW c \in Calls, OwnInv(c), TalkInv(c), Step(c)
  PROVE  TalkInv(c)'
<1>1. CASE Begin(c)
  <2>1. /\ messages' = messages /\ pc[c] = "idle"
        /\ pc'[c] \in {"asking", "done"}
    BY <1>1, NextTurnOwn DEF Begin, Left
  <2>2. QED
    BY <2>1 DEF TalkInv, Owed
<1>2. CASE Answered(c)
  <2>1. PICK r \in Replies :
           /\ reply' = [reply EXCEPT ![c] = r]
           /\ messages' = [messages EXCEPT
                 ![c] = Append(@, [role |-> "assistant", calls |-> r.calls])]
    BY <1>2 DEF Answered
  <2>2. pc[c] = "asking" /\ pc'[c] = "replied" /\ reply'[c] = r
    BY <1>2, <2>1 DEF Answered, Goto, Typed, ControlTypeOK, TalkTypeOK
  <2>3. /\ messages'[c]
             = Append(messages[c], [role |-> "assistant", calls |-> r.calls])
        /\ messages[c] \in Seq(Messages)
    BY <2>1 DEF Typed, TalkTypeOK
  <2>4. Followed(messages[c], 0)
    BY <2>2 DEF TalkInv, Owed
  <2>5. r.calls \in 0 .. MaxToolCalls
    BY DEF Replies
  <2>6. Followed(messages'[c], r.calls)
    BY <2>3, <2>4, <2>5, ReplyFollows
  <2>7. QED
    BY <2>2, <2>6 DEF TalkInv, Owed
<1>3. CASE Investigate(c)
  <2>1. /\ pc[c] = "replied" /\ pc'[c] = "executing" /\ messages' = messages
        /\ pending'[c] = reply[c].calls
    BY <1>3 DEF Investigate, Goto, Typed, ControlTypeOK
  <2>2. QED
    BY <2>1 DEF TalkInv, Owed
<1>4. CASE Execute(c)
  <2>1. /\ pc[c] = "executing" /\ pending'[c] = pending[c] - 1
        /\ messages'[c] = Append(messages[c], Result)
        /\ messages[c] \in Seq(Messages)
        /\ pending[c] \in Nat /\ pending[c] > 0
    BY <1>4 DEF Execute, Typed, ControlTypeOK, TalkTypeOK
  <2>2. Followed(messages'[c], pending[c] - 1)
    BY <2>1, ResultFollows DEF TalkInv, Owed
  <2>3. CASE pending[c] = 1
    <3>1. pc'[c] \in {"asking", "done"}
      BY <1>4, <2>3, NextTurnOwn DEF Execute, Left
    <3>2. Followed(messages'[c], 0)
      BY <2>2, <2>3
    <3>3. QED
      BY <3>1, <3>2 DEF TalkInv, Owed
  <2>4. CASE pending[c] # 1
    BY <1>4, <2>1, <2>2, <2>4 DEF Execute, TalkInv, Owed
  <2>5. QED
    BY <2>3, <2>4
<1>5. CASE Ends(c)
  <2>1. pc'[c] = "done"
    BY <1>5, EndsLeaves DEF Leave, Goto, Typed, ControlTypeOK
  <2>2. QED
    BY <2>1 DEF TalkInv
<1>6. QED
  BY <1>1, <1>2, <1>3, <1>4, <1>5, StepCases

LEMMA TalkAlways == Spec => [](\A c \in Calls : TalkInv(c))
<1> DEFINE Inv == \A c \in Calls : TalkInv(c)
           Own == \A c \in Calls : OwnInv(c)
<1>1. Init => Inv
  BY DEF Init, TalkInv, Followed, Owed
<1>2. ASSUME Typed, Own, Inv, NEW c \in Calls, Step(c) PROVE Inv'
  <2>1. TalkInv(c)'
    BY <1>2, StepKeepsTalk
  <2>2. ASSUME NEW d \in Calls, d # c PROVE TalkInv(d)'
    BY <1>2, <2>2, OthersSame DEF Same, TalkInv, Owed
  <2>3. QED
    BY <2>1, <2>2
<1>3. ASSUME Inv, UNCHANGED vars PROVE Inv'
  BY <1>3 DEF TalkInv, Owed, vars, talk
<1>4. Typed /\ Own /\ Inv /\ [Next]_vars => Inv'
  BY <1>2, <1>3, NextCases
<1>5. QED
  BY <1>1, <1>4, TypedAlways, OwnAlways, PTL DEF Spec

(* In every request each reply with tool calls is followed by exactly one  *)
(* result per call, for any number of turns and of calls in a reply.       *)
THEOREM ConversationCompleteAlways == Spec => []ConversationComplete
<1>1. ASSUME Typed, NEW c \in Calls, TalkInv(c), pc[c] = "asking",
             NEW i \in 1 .. Len(messages[c]),
             messages[c][i].role = "assistant"
      PROVE  {j \in i + 1 .. Len(messages[c]) :
                 \A k \in i + 1 .. j : messages[c][k].role = "tool"}
               = i + 1 .. i + messages[c][i].calls
  <2> DEFINE m == messages[c]
             e == i + m[i].calls
  <2>1. m \in Seq(Messages) /\ Followed(m, 0)
    BY <1>1 DEF Typed, TalkTypeOK, TalkInv, Owed
  <2>2. Len(m) \in Nat /\ e \in Nat /\ i \in 1 .. Len(m)
    BY <1>1, <2>1, CountsOfCalls
  <2>3. /\ e <= Len(m)
        /\ \A k \in i + 1 .. e : m[k].role = "tool"
        /\ e < Len(m) => m[e + 1].role = "assistant"
    BY <1>1, <2>1, <2>2 DEF Followed
  <2> HIDE DEF e
  <2>4. ASSUME NEW j \in i + 1 .. Len(m), \A k \in i + 1 .. j : m[k].role = "tool"
        PROVE  j \in i + 1 .. e
    <3>1. CASE j <= e
      BY <2>2, <3>1
    <3>2. CASE j > e
      <4>1. i <= e
        BY <2>1, <2>2, CountsOfCalls DEF e
      <4>2. e + 1 \in i + 1 .. j /\ e < Len(m)
        BY <2>2, <3>2, <4>1
      <4>3. QED
        BY <2>3, <2>4, <4>2
    <3>3. QED
      BY <2>2, <3>1, <3>2
  <2>5. ASSUME NEW j \in i + 1 .. e
        PROVE  j \in i + 1 .. Len(m) /\ \A k \in i + 1 .. j : m[k].role = "tool"
    BY <2>2, <2>3
  <2>6. {j \in i + 1 .. Len(m) : \A k \in i + 1 .. j : m[k].role = "tool"}
          = i + 1 .. e
    BY <2>4, <2>5
  <2>7. QED
    BY <2>6 DEF e
<1>2. Typed /\ (\A c \in Calls : TalkInv(c)) => ConversationComplete
  BY <1>1 DEF ConversationComplete
<1>3. QED
  BY <1>2, TypedAlways, TalkAlways, PTL

=============================================================================
