---------------------------- MODULE Orchestrator ----------------------------
(***************************************************************************)
(* The path of a tool call through the guard: the PreToolUse hook in the   *)
(* agent's container (core/judge_hook.py) posts it to the orchestrator     *)
(* (core/orchestrator.py), whose handler asks every judge of the panel,    *)
(* counts the votes, records the judgment in two files and replies.        *)
(* An agent may have several calls waiting at once.  The handler runs on   *)
(* one asyncio loop and suspends only while it gathers the votes.          *)
(***************************************************************************)
EXTENDS Voting

CONSTANTS
    Judges,      \* the panel; empty in ablation A0
    Byzantine,   \* the judges of the panel that vote as they like
    Requests     \* the tool calls the agent proposes

ASSUME PanelAssumption ==
    /\ IsFiniteSet(Judges)
    /\ Byzantine \subseteq Judges

VARIABLES
    hook,      \* per request: the hook process; exit0 allows, exit2 denies
    handler,   \* per request: the POST /judge handler, or what it replied
    vote,      \* per request and judge: what the judge's task returned
    log,       \* orchestrator.jsonl: <<request, decision>> records
    events,    \* events/judgment.jsonl: <<request, decision>> records
    up         \* the orchestrator process runs

vars == <<hook, handler, vote, log, events, up>>

Votes == Decision \cup {"none", "raised"}

TypeOK ==
    /\ hook \in [Requests -> {"idle", "waiting", "exit0", "exit2", "killed"}]
    /\ handler \in [Requests -> Decision \cup {"none", "judging", "error"}]
    /\ vote \in [Requests -> [Judges -> Votes]]
    /\ log \in SUBSET (Requests \X Decision)
    /\ events \in SUBSET (Requests \X Decision)
    /\ up \in BOOLEAN

Init ==
    /\ hook = [r \in Requests |-> "idle"]
    /\ handler = [r \in Requests |-> "none"]
    /\ vote = [r \in Requests |-> [j \in Judges |-> "none"]]
    /\ log = {}
    /\ events = {}
    /\ up = TRUE

-----------------------------------------------------------------------------

\* The hook posts the call.  Without judges the handler approves at once and
\* records nothing; otherwise it starts a task per judge.
Post(r) ==
    /\ up
    /\ hook[r] = "idle"
    /\ hook' = [hook EXCEPT ![r] = "waiting"]
    /\ handler' = [handler EXCEPT ![r] =
                      IF Judges = {} THEN "approve" ELSE "judging"]
    /\ UNCHANGED <<vote, log, events, up>>

\* Stdin that does not parse, a refused connection, a rejected payload: the
\* hook denies before any judge is asked.
HookFails(r) ==
    /\ hook[r] = "idle"
    /\ hook' = [hook EXCEPT ![r] = "exit2"]
    /\ UNCHANGED <<handler, vote, log, events, up>>

\* The handler has started the judges' tasks; they run to their end also
\* after the handler itself has failed.
Dispatched(r) == up /\ handler[r] \in {"judging", "error"}

JudgeVotes(r, j) ==
    /\ Dispatched(r)
    /\ vote[r][j] = "none"
    /\ \E d \in Decision : vote' = [vote EXCEPT ![r][j] = d]
    /\ UNCHANGED <<hook, handler, log, events, up>>

\* Mutant of JudgeRaises: gather collects the exception and the handler goes
\* on waiting for a vote.
ExceptionIsDropped(r, j) ==
    /\ Dispatched(r)
    /\ vote[r][j] = "none"
    /\ vote' = [vote EXCEPT ![r][j] = "raised"]
    /\ UNCHANGED <<hook, handler, log, events, up>>

\* run_agentic_judge raises: gather hands the exception to the handler at
\* once, which ends in a 500 and leaves the other tasks alone.
JudgeRaises(r, j) ==
    /\ Dispatched(r)
    /\ vote[r][j] = "none"
    /\ vote' = [vote EXCEPT ![r][j] = "raised"]
    /\ handler' = [handler EXCEPT ![r] = "error"]
    /\ UNCHANGED <<hook, log, events, up>>

\* Mutants of Decide: the vote is counted before all judges are in, and the
\* reply goes out although the event was not written.
DecideEarly(r) ==
    LET record == <<r, MajorityVote(vote[r])>> IN
    /\ up
    /\ handler[r] = "judging"
    /\ \E j \in Judges : vote[r][j] \in Decision
    /\ log' = log \cup {record} /\ events' = events \cup {record}
    /\ handler' = [handler EXCEPT ![r] = record[2]]
    /\ UNCHANGED <<hook, vote, up>>

DecideUnrecorded(r) ==
    LET record == <<r, MajorityVote(vote[r])>> IN
    /\ up
    /\ handler[r] = "judging"
    /\ \A j \in Judges : vote[r][j] \in Decision
    /\ log' = log \cup {record} /\ events' \in {events, events \cup {record}}
    /\ handler' = [handler EXCEPT ![r] = record[2]]
    /\ UNCHANGED <<hook, vote, up>>

\* All votes are in: count, append to the log, append the event, reply, with
\* no await in between.  An append that raises (lock, disk) ends in a 500.
Decide(r) ==
    LET record == <<r, MajorityVote(vote[r])>>
        Reply(h) == handler' = [handler EXCEPT ![r] = h] IN
    /\ up
    /\ handler[r] = "judging"
    /\ \A j \in Judges : vote[r][j] \in Decision
    /\ \/ Reply("error") /\ UNCHANGED <<log, events>>
       \/ /\ log' = log \cup {record}
          /\ \/ Reply("error") /\ UNCHANGED events
             \/ Reply(record[2]) /\ events' = events \cup {record}
    /\ UNCHANGED <<hook, vote, up>>

\* Mutant of HookReturns: only an explicit "reject" denies.
HookFailsOpen(r) ==
    /\ hook[r] = "waiting"
    /\ handler[r] \in Decision \cup {"error"}
    /\ hook' = [hook EXCEPT ![r] =
                   IF handler[r] = "reject" THEN "exit2" ELSE "exit0"]
    /\ UNCHANGED <<handler, vote, log, events, up>>

\* The hook gets the reply: exit 0 on "approve", exit 2 on anything else.
HookReturns(r) ==
    /\ hook[r] = "waiting"
    /\ handler[r] \in Decision \cup {"error"}
    /\ hook' = [hook EXCEPT ![r] =
                   IF handler[r] = "approve" THEN "exit0" ELSE "exit2"]
    /\ UNCHANGED <<handler, vote, log, events, up>>

\* The request fails under a waiting hook, whether or not the orchestrator
\* still runs: any exception is an exit 2.  The handler does not notice; the
\* panel may yet approve, and record, the call that was denied.
ConnectionLost(r) ==
    /\ hook[r] = "waiting"
    /\ hook' = [hook EXCEPT ![r] = "exit2"]
    /\ UNCHANGED <<handler, vote, log, events, up>>

\* The agent's runtime stops waiting (600 s) and kills the hook; the handler
\* does not notice.
HookKilled(r) ==
    /\ hook[r] = "waiting"
    /\ hook' = [hook EXCEPT ![r] = "killed"]
    /\ UNCHANGED <<handler, vote, log, events, up>>

\* The orchestrator process ends; it is not restarted during an experiment.
Stop ==
    /\ up
    /\ up' = FALSE
    /\ UNCHANGED <<hook, handler, vote, log, events>>

\* Every call has its answer, and nothing is left to do for any of them.
Finished ==
    /\ \A r \in Requests : hook[r] \notin {"idle", "waiting"}
    /\ up => \A r \in Requests :
          /\ handler[r] # "judging"
          /\ Dispatched(r) => \A j \in Judges : vote[r][j] # "none"
    /\ UNCHANGED vars

Next ==
    \/ \E r \in Requests :
          \/ Post(r) \/ HookFails(r) \/ Decide(r)
          \/ HookReturns(r) \/ ConnectionLost(r) \/ HookKilled(r)
          \/ \E j \in Judges : JudgeVotes(r, j) \/ JudgeRaises(r, j)
    \/ Stop
    \/ Finished

Spec == Init /\ [][Next]_vars

\* A judge's task ends, by a vote or an exception (EveryJudgmentReturns of
\* AgenticJudge; in OpenAIJudge if the tool calls it executes do); the loop runs the handler; the hook reads its reply, or
\* sees the connection close when the orchestrator is gone.
Fairness ==
    \A r \in Requests :
        /\ WF_vars(Decide(r))
        /\ WF_vars(HookReturns(r))
        /\ WF_vars(~up /\ ConnectionLost(r))
        /\ \A j \in Judges : WF_vars(JudgeVotes(r, j) \/ JudgeRaises(r, j))

FairSpec == Spec /\ Fairness

-----------------------------------------------------------------------------

\* What the agent's runtime makes of the end of the hook.
Told ==
    [r \in Requests |->
        CASE hook[r] = "exit0" -> "allow"
          [] hook[r] = "exit2" -> "deny"
          [] hook[r] = "killed" -> "unguarded"
          [] OTHER -> "none"]

Panel == INSTANCE PanelSpec WITH
    Majority <- MajorityVote, ballot <- vote, answer <- Told

Filed ==
    [r \in Requests |->
        CASE <<r, "approve">> \in events -> "approve"
          [] <<r, "reject">> \in events -> "reject"
          [] OTHER -> "none"]

Guard == INSTANCE GuardSpec WITH
    Calls <- Requests, Guarded <- Judges # {}, answer <- Told, record <- Filed

(* The guard keeps the panel's promise: a tool call passes only with the   *)
(* approval of a strict majority, whatever fails on the way.               *)
ImplementsPanel == Panel!Spec

(* What the runs around the guard take of it: no allowed call without its  *)
(* approval in the event stream, one record per call, which never changes, *)
(* although a call may be denied, or go ahead unguarded, before it comes.  *)
ImplementsGuard == Guard!Spec

(* A minority of judges cannot pass a call by itself: behind every allowed *)
(* call there is a judge outside the Byzantine set that approved it.       *)
MinorityCannotAllow ==
    \A r \in Requests :
        /\ hook[r] = "exit0"
        /\ Judges # {}
        /\ 2 * Cardinality(Byzantine) < Cardinality(Judges)
        => \E j \in Judges \ Byzantine : vote[r][j] = "approve"

(* A call is allowed only after its judgment is on file in both streams    *)
(* the analysis reads, so that no approval is missing from the results.    *)
AllowedIsRecorded ==
    \A r \in Requests :
        hook[r] = "exit0" /\ Judges # {} =>
            <<r, "approve">> \in log /\ <<r, "approve">> \in events

(* A recorded judgment is the majority of a complete ballot, there is one  *)
(* per call, and the event stream never has one the log lacks.             *)
RecordsAreJudgments ==
    /\ events \subseteq log
    /\ \A r \in Requests, d \in Decision : <<r, d>> \in log =>
          /\ \A j \in Judges : vote[r][j] \in Decision
          /\ d = MajorityVote(vote[r])

(* A panel that failed leaves no record: the votes that still come in      *)
(* after one judge's exception reach neither file.                         *)
FailureIsSilent ==
    [][\A r \in Requests : handler[r] = "error" =>
          \A d \in Decision :
             /\ <<r, d>> \in log' => <<r, d>> \in log
             /\ <<r, d>> \in events' => <<r, d>> \in events]_vars

(* Every posted call is answered, also when a judge fails, a record cannot *)
(* be written or the orchestrator goes away.                               *)
EveryCallIsAnswered ==
    \A r \in Requests : hook[r] = "waiting" ~> hook[r] # "waiting"

=============================================================================
