---------------------------- MODULE OpenAIJudge ----------------------------
(***************************************************************************)
(* The judge behind a chat-completions endpoint (run_openai_judge in       *)
(* core/judges/openai.py).  A judgment is a loop on the host: post the     *)
(* conversation, and either execute the tool calls of the reply in the     *)
(* judge's container and go on, or take the reply as the verdict.  The     *)
(* endpoint may answer anything, late or never.  Judgments of one panel    *)
(* may share an HTTP client; the others make and close one of their own.   *)
(*                                                                         *)
(* The two prompts that open a conversation are left out of it.            *)
(***************************************************************************)
EXTENDS Integers, Sequences

CONSTANTS
    Calls,          \* the tool calls judged
    Sharing,        \* the judgments that were handed an http_client
    TurnBudget,     \* turn_budget: requests a judgment may make
    MaxToolCalls,   \* bound: tool calls in one reply
    None            \* no reply yet

ASSUME OpenAIAssumption ==
    /\ Sharing \subseteq Calls
    /\ "shared" \notin Calls
    /\ TurnBudget \in Nat /\ MaxToolCalls \in Nat

\* What the text of a reply holds: a verdict, JSON in which "decision" is
\* not at the top level, a verdict with a field of another type, a refusal
\* or other prose.
Texts == {"approve", "reject", "nested", "illtyped", "refusal", "prose"}
Replies == [calls : 0 .. MaxToolCalls, text : Texts]
Messages == [role : {"assistant", "tool"}, calls : 0 .. MaxToolCalls]

ASSUME NoneIsNoReply == None \notin Replies

VARIABLES
    pc,         \* per call: the step of run_openai_judge
    turn,       \* per call: turns_used
    reply,      \* per call: the last message of the model
    pending,    \* per call: tool calls of that message still to execute
    messages,   \* per call: the conversation after the two prompts
    vote,       \* per call: the returned vote; "raised" is an exception
    reason,     \* per call: the category the reason begins with; "free" is
                \* a text of the model that begins with none
    closed      \* the HTTP clients that have been closed

talk == <<turn, reply, pending, messages>>
vars == <<pc, talk, vote, reason, closed>>

Categories == {"judge_timed_out", "judge_refused", "judge_failed_malformed"}

TypeOK ==
    /\ pc \in [Calls -> {"idle", "asking", "replied", "executing", "done"}]
    /\ turn \in [Calls -> 0 .. TurnBudget]
    /\ reply \in [Calls -> Replies \cup {None}]
    /\ pending \in [Calls -> 0 .. MaxToolCalls]
    /\ messages \in [Calls -> Seq(Messages)]
    /\ vote \in [Calls -> {"none", "approve", "reject", "raised"}]
    /\ reason \in [Calls -> Categories \cup {"none", "free"}]
    /\ closed \subseteq Calls \cup {"shared"}

Init ==
    /\ pc = [c \in Calls |-> "idle"]
    /\ turn = [c \in Calls |-> 0]
    /\ reply = [c \in Calls |-> None]
    /\ pending = [c \in Calls |-> 0]
    /\ messages = [c \in Calls |-> <<>>]
    /\ vote = [c \in Calls |-> "none"]
    /\ reason = [c \in Calls |-> "none"]
    /\ closed = {}

-----------------------------------------------------------------------------

Goto(c, step) == pc' = [pc EXCEPT ![c] = step]

Client(c) == IF c \in Sharing THEN "shared" ELSE c

\* The finally clause.
Close(c) == closed' = IF c \in Sharing THEN closed ELSE closed \cup {c}

\* The function returns a vote, or an exception leaves it.
Leave(c, v, why) ==
    /\ Goto(c, "done")
    /\ vote' = [vote EXCEPT ![c] = v]
    /\ reason' = [reason EXCEPT ![c] = why]
    /\ Close(c)

Raise(c) == Leave(c, "raised", "none")

\* The head of the loop: another request, or the budget is exhausted.
NextTurn(c) ==
    IF turn[c] < TurnBudget
    THEN /\ Goto(c, "asking")
         /\ turn' = [turn EXCEPT ![c] = @ + 1]
         /\ UNCHANGED <<vote, reason, closed>>
    ELSE Leave(c, "reject", "judge_timed_out") /\ UNCHANGED turn

Begin(c) ==
    /\ pc[c] = "idle"
    /\ NextTurn(c)
    /\ UNCHANGED <<reply, pending, messages>>

\* _post_chat_completion: a reply arrives and joins the conversation.
Answered(c) ==
    /\ pc[c] = "asking"
    /\ Goto(c, "replied")
    /\ \E r \in Replies :
          /\ reply' = [reply EXCEPT ![c] = r]
          /\ messages' = [messages EXCEPT
                ![c] = Append(@, [role |-> "assistant", calls |-> r.calls])]
    /\ UNCHANGED <<turn, pending, vote, reason, closed>>

\* A body that is not JSON, or JSON of another shape: what it raises is not
\* among the exceptions the loop expects.
Garbled(c) ==
    /\ pc[c] = "asking"
    /\ Raise(c)
    /\ UNCHANGED talk

\* Mutant of TimesOut: the timeout is armed for the first request only.
TimesOutOnce(c) ==
    /\ pc[c] = "asking" /\ turn[c] = 1
    /\ Leave(c, "reject", "judge_timed_out")
    /\ UNCHANGED talk

\* asyncio.wait_for gives up, or the request fails (httpx.HTTPError).
TimesOut(c) ==
    /\ pc[c] = "asking"
    /\ Leave(c, "reject", "judge_timed_out")
    /\ UNCHANGED talk

\* The reply has tool calls: whatever its text says is not read.
Investigate(c) ==
    /\ pc[c] = "replied" /\ reply[c].calls > 0
    /\ Goto(c, "executing")
    /\ pending' = [pending EXCEPT ![c] = reply[c].calls]
    /\ UNCHANGED <<turn, reply, messages, vote, reason, closed>>

Result == [role |-> "tool", calls |-> 0]

\* Mutant of Execute: a call with unreadable arguments is passed over.
ExecuteReadable(c) ==
    /\ pc[c] = "executing"
    /\ pending' = [pending EXCEPT ![c] = @ - 1]
    /\ \E m \in {messages[c], Append(messages[c], Result)} :
          messages' = [messages EXCEPT ![c] = m]
    /\ IF pending[c] = 1
       THEN NextTurn(c)
       ELSE UNCHANGED <<pc, turn, vote, reason, closed>>
    /\ UNCHANGED reply

\* _dispatch_tool: arguments that are not JSON count as none, an unknown
\* tool and a failing command give an answer too.  After the last call of
\* the reply the loop goes on, the last turn of the budget included.
Execute(c) ==
    /\ pc[c] = "executing"
    /\ pending' = [pending EXCEPT ![c] = @ - 1]
    /\ messages' = [messages EXCEPT ![c] = Append(@, Result)]
    /\ IF pending[c] = 1
       THEN NextTurn(c)
       ELSE UNCHANGED <<pc, turn, vote, reason, closed>>
    /\ UNCHANGED reply

\* Arguments that are JSON but no object, or no docker to execute with.
ExecuteRaises(c) ==
    /\ pc[c] = "executing"
    /\ Raise(c)
    /\ UNCHANGED talk

\* _extract_verdict_json finds JSON with a "decision" anywhere in it.
HasVerdict(text) == text \in {"approve", "reject", "nested", "illtyped"}

\* Mutant of ParseVerdict: the decision is searched for at any depth.
ParseDeep(text) ==
    CASE text = "illtyped" -> "raised"
      [] text = "nested" -> "approve"
      [] OTHER -> text

\* parse_verdict_json: a decision that is not at the top level is a
\* rejection, an ill-typed field raises.
ParseVerdict(text) ==
    CASE text = "illtyped" -> "raised"
      [] text = "nested" -> "reject"
      [] OTHER -> text

\* Mutant of Category: the refusal patterns are not anchored to a line start.
CategoryLoose(text) ==
    IF text \in {"refusal", "prose"}
    THEN "judge_refused" ELSE "judge_failed_malformed"

\* _looks_like_refusal, for a text without a verdict.
Category(text) ==
    IF text = "refusal" THEN "judge_refused" ELSE "judge_failed_malformed"

\* The reply has no tool calls: it is the verdict, or a failure to give one.
\* The reason of a verdict is the model's own, whatever it begins with.
Conclude(c) ==
    LET text == reply[c].text IN
    /\ pc[c] = "replied" /\ reply[c].calls = 0
    /\ CASE text = "illtyped" -> Raise(c)
         [] HasVerdict(text) /\ text # "illtyped" ->
               \E why \in Categories \cup {"free"} :
                  Leave(c, ParseVerdict(text), why)
         [] OTHER -> Leave(c, "reject", Category(text))
    /\ UNCHANGED talk

Finished == (\A c \in Calls : pc[c] = "done") /\ UNCHANGED vars

Judgment(c) == Begin(c) \/ Investigate(c) \/ Conclude(c)

Environment(c) == Answered(c) \/ Garbled(c) \/ Execute(c) \/ ExecuteRaises(c)

Next == (\E c \in Calls : Judgment(c) \/ TimesOut(c) \/ Environment(c))
        \/ Finished

Spec == Init /\ [][Next]_vars

\* The loop runs and the timeout of a request fires.  No request is assumed
\* to be answered, and no tool call to return: it is a command of the model's
\* choice, which _dispatch_tool awaits without a timeout.
Fairness == \A c \in Calls : WF_vars(Judgment(c)) /\ WF_vars(TimesOut(c))

FairSpec == Spec /\ Fairness

-----------------------------------------------------------------------------

(* The model is never shown a broken conversation: in every request each   *)
(* reply with tool calls is followed by exactly one result per call, also  *)
(* for calls with unreadable arguments, unknown tools or failing commands. *)
ConversationComplete ==
    \A c \in Calls : pc[c] = "asking" =>
        LET m == messages[c]
            Answers(i) == {j \in i + 1 .. Len(m) :
                              \A k \in i + 1 .. j : m[k].role = "tool"}
        IN \A i \in 1 .. Len(m) : m[i].role = "assistant" =>
               Answers(i) = i + 1 .. i + m[i].calls

(* A vote without a verdict is a rejection under the category of what did  *)
(* happen: judge_timed_out if the model never came to an answer, one of    *)
(* the other two if its answer held no verdict.  The converse fails: the   *)
(* reason of a verdict is the model's text, which may begin with any       *)
(* category, but then a verdict was given, and it is the one voted.        *)
ReasonIsTrue ==
    \A c \in Calls : vote[c] \in {"approve", "reject"} =>
        LET Answer == reply[c] # None /\ reply[c].calls = 0
            Failure(why) == vote[c] = "reject" /\ reason[c] = why
        IN CASE ~Answer -> Failure("judge_timed_out")
             [] Answer /\ reply[c].text = "refusal" -> Failure("judge_refused")
             [] Answer /\ reply[c].text = "prose" ->
                   Failure("judge_failed_malformed")
             [] OTHER -> vote[c] = "approve" <=> reply[c].text = "approve"

(* A client is closed by whom it belongs to: the one that was handed in    *)
(* stays open for the other judgments of its owner, and a judgment's own   *)
(* is open while it lasts and closed when it is over, however it ends.     *)
ClientLifetime ==
    /\ "shared" \notin closed
    /\ \A c \in Calls \ Sharing : c \in closed <=> pc[c] = "done"

(* Turn budget and timeout bound a judgment also with an endpoint that     *)
(* never answers or always asks for one more tool: only a tool call that   *)
(* does not return, which nothing bounds, can keep it from its end.        *)
EveryJudgmentReturns ==
    \A c \in Calls : []<>(pc[c] # "executing") => <>(vote[c] # "none")

\* The opinion of a judge is the verdict of the reply that asks for no tool.
Opinion(r) ==
    IF r = None \/ (r # None /\ r.calls > 0) THEN "none"
    ELSE CASE r.text \in {"approve", "reject", "illtyped"} -> r.text
           [] r.text = "nested" -> "reject"
           [] OTHER -> "none"

Contract == INSTANCE JudgeContract WITH
    opinion <- [c \in Calls |-> Opinion(reply[c])]

(* This judge keeps the contract of a judge under every answer of the      *)
(* endpoint: an approval is the verdict the model gave for that call, and  *)
(* whatever fails is a rejection or an exception.                          *)
ImplementsContract == Contract!Spec

=============================================================================
