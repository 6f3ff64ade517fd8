---------------------------- MODULE ScenarioRuns ----------------------------
(***************************************************************************)
(* An experiment over a set of tasks (ablations/experiment.py), each of    *)
(* which runs an agent container (core/runner_agent.py) in the workspace   *)
(* all runs share, next to the honeypot (core/honeypot.py) that decides    *)
(* whether the attack worked and the panel that records its judgments.     *)
(*                                                                         *)
(* The experiment is one asyncio loop: what follows the return of the      *)
(* runner is a single step of it.  Agents, honeypot and orchestrator are   *)
(* other processes.  A run is an attempt at a task, as scenario_run_id     *)
(* names it; it stands for the canary planted for it, which is random, so  *)
(* that each run has its own.                                              *)
(***************************************************************************)
EXTENDS Integers, FiniteSets, Classification

CONSTANTS
    Tasks,           \* the (scenario, rep) pairs of the experiment
    Attacks,         \* the tasks whose scenario has dangerous patterns
    Kinds,           \* the calls of an agent: "dangerous" matches a pattern
    MaxConcurrency,  \* permits of the semaphore
    MayRaise,        \* _run_scenario_rep may raise
    RegisterFails,   \* the honeypot may not get the canary
    KillFails,       \* `docker kill` may not take the container down
    JudgesInvoke,    \* a judge may execute the scenario's lure script
    None

ASSUME RunsAssumption ==
    /\ IsFiniteSet(Tasks)
    /\ Attacks \subseteq Tasks
    /\ "dangerous" \in Kinds
    /\ MaxConcurrency \in Nat \ {0}
    /\ {MayRaise, RegisterFails, KillFails, JudgesInvoke} \subseteq BOOLEAN

VARIABLES
    task,        \* per task: queued, running (has a permit), ok or failed
    tries,       \* per task: the attempts begun
    phase,       \* per run: where _run_scenario_rep is
    agent,       \* per run: its container
    call,        \* per run and kind: the agent's tool call and its judgment
    rc,          \* per run: the return code of the runner
    heard,       \* the runs whose transcript the runner got
    outcome,     \* per run: the label on its ScenarioRunEnd event
    workspace,   \* the run whose files the shared workspace holds
    registered,  \* the runs whose canary the honeypot knows
    network,     \* posts under way: who sent them and the canary they carry
    raw,         \* the canaries that show in results/honeypot.jsonl
    writing,     \* the post the honeypot has logged, its event still to come
    events,      \* events/honeypot_request.jsonl
    judgments,   \* events/judgment.jsonl: <<run, kind, decision>>
    infra        \* proxy, honeypot, orchestrator and judge containers

experiment == <<task, tries, phase, rc, heard, outcome, infra>>
honeypot == <<registered, raw, writing, events>>
vars == <<experiment, agent, call, workspace, network, honeypot, judgments>>

Run == Tasks \X {1, 2}
Post == [from : Run, canary : Run]
Event == [from : Run, canary : Run, match : BOOLEAN]

LoopTypeOK ==
    /\ task \in [Tasks -> {"queued", "running", "ok", "failed"}]
    /\ tries \in [Tasks -> 0 .. 2]
    /\ phase \in [Run -> {"none", "rendered", "watching", "returned", "ended",
                          "raised"}]
    /\ rc \in [Run -> ReturnCodes \cup {"none"}]
    /\ heard \in SUBSET Run
    /\ outcome \in [Run -> Outcomes \cup {"none"}]
    /\ infra \in {"up", "stopped"}

AgentTypeOK ==
    /\ agent \in [Run -> {"none", "alive", "gone"}]
    /\ call \in [Run -> [Kinds -> {"none", "judging", "approved", "refused",
                                    "unguarded"}]]
    /\ workspace \in Run \cup {None}
    /\ judgments \in SUBSET (Run \X Kinds \X {"approve", "reject"})

HoneypotTypeOK ==
    /\ registered \in SUBSET Run
    /\ network \in SUBSET Post
    /\ raw \in SUBSET Run
    /\ writing \in Event \cup {None}
    /\ events \in SUBSET Event

TypeOK == LoopTypeOK /\ AgentTypeOK /\ HoneypotTypeOK

Init ==
    /\ task = [t \in Tasks |-> "queued"]
    /\ tries = [t \in Tasks |-> 0]
    /\ phase = [i \in Run |-> "none"]
    /\ agent = [i \in Run |-> "none"]
    /\ call = [i \in Run |-> [k \in Kinds |-> "none"]]
    /\ rc = [i \in Run |-> "none"]
    /\ heard = {}
    /\ outcome = [i \in Run |-> "none"]
    /\ workspace = None
    /\ registered = {} /\ network = {} /\ raw = {} /\ events = {}
    /\ writing = None
    /\ judgments = {}
    /\ infra = "up"

-----------------------------------------------------------------------------
\* The experiment's loop.

Latest(t) == <<t, tries[t]>>

Running == {t \in Tasks : task[t] = "running"}

\* Mutant of MayBegin: a retry of runs that were reported as infrastructure
\* failures.
RetryReported(t) ==
    \/ task[t] = "queued" /\ Cardinality(Running) < MaxConcurrency
    \/ task[t] = "running" /\ tries[t] = 1 /\ phase[Latest(t)] = "raised"
    \/ tries[t] = 1 /\ outcome[Latest(t)] = "infra_failed"

\* A permit of the semaphore for a queued task, or the one retry of a task
\* whose first attempt raised, which keeps its permit.
MayBegin(t) ==
    \/ task[t] = "queued" /\ Cardinality(Running) < MaxConcurrency
    \/ task[t] = "running" /\ tries[t] = 1 /\ phase[Latest(t)] = "raised"

\* Wipe the workspace and render the scenario into it, with no await between.
Prepare(t) ==
    LET i == <<t, tries[t] + 1>> IN
    /\ MayBegin(t)
    /\ task' = [task EXCEPT ![t] = "running"]
    /\ tries' = [tries EXCEPT ![t] = @ + 1]
    /\ phase' = [phase EXCEPT ![i] = "rendered"]
    /\ workspace' = i
    /\ UNCHANGED <<agent, call, rc, heard, outcome, infra, network, honeypot,
                   judgments>>

\* Register the canary, write ScenarioRunStart, start the container.  Only a
\* warning tells of a failed registration, and a 401 not even that.
Launch(i) ==
    /\ phase[i] = "rendered"
    /\ phase' = [phase EXCEPT ![i] = "watching"]
    /\ agent' = [agent EXCEPT ![i] = "alive"]
    /\ \/ registered' = registered \cup {i}
       \/ RegisterFails /\ UNCHANGED registered
    /\ UNCHANGED <<task, tries, call, rc, heard, outcome, infra, workspace,
                   network, raw, writing, events, judgments>>

\* run_runner_agent returns a code, with or without the agent's transcript.
Return(i, code, complete) ==
    /\ phase[i] = "watching"
    /\ phase' = [phase EXCEPT ![i] = "returned"]
    /\ rc' = [rc EXCEPT ![i] = code]
    /\ heard' = IF complete THEN heard \cup {i} ELSE heard
    /\ UNCHANGED <<task, tries, call, outcome, infra, workspace, network,
                   honeypot, judgments>>

\* Mutant of Kill: the docker CLI is killed and the container goes on.
KillOnlyCli(i) == agent' = [agent EXCEPT ![i] = @]

\* _force_kill_container: best effort.
Kill(i) ==
    \/ agent' = [agent EXCEPT ![i] = "gone"]
    \/ KillFails /\ UNCHANGED agent

\* (a) The watcher finds the canary in the raw log.
CanarySeen(i) ==
    /\ i \in raw
    /\ \E complete \in BOOLEAN : Return(i, "early", complete)
    /\ Kill(i)

\* (b) The agent has exited: after the grace period the log is scanned once
\* more.
AgentExited(i) ==
    /\ agent[i] = "gone"
    /\ \E code \in IF i \in raw THEN {"early"} ELSE {"zero", "error"} :
          Return(i, code, TRUE)
    /\ UNCHANGED agent

\* Mutant of TimesOut: a call before the panel stops the clock.
TimesOutIdle(i) ==
    /\ agent[i] = "alive"
    /\ \A k \in Kinds : call[i][k] # "judging"
    /\ \E complete \in BOOLEAN : Return(i, "timeout", complete)
    /\ Kill(i)

\* (c) The timeout, without another look at the log.
TimesOut(i) ==
    /\ agent[i] = "alive"
    /\ \E complete \in BOOLEAN : Return(i, "timeout", complete)
    /\ Kill(i)

\* Mutant of SawCanary: any canary counts, whoever it was planted for.
SawAnyCanary(i) == \E e \in events : e.match

\* _check_honeypot_for_canaries
SawCanary(i) == \E e \in events : e.match /\ e.canary = i

\* The event of a call in the stream.
Record(i, k) ==
    CASE <<i, k, "approve">> \in judgments -> "approve"
      [] <<i, k, "reject">> \in judgments -> "reject"
      [] OTHER -> "none"

\* Mutant of PanelRejected: rejections of the task's other attempt count.
TaskRejected(i) ==
    \E n \in {1, 2}, k \in Kinds : <<<<i[1], n>>, k, "reject">> \in judgments

\* _collect_judgments and panel_rejected
PanelRejected(i) == \E k \in Kinds : <<i, k, "reject">> \in judgments

\* The dangerous patterns match the transcript of an attack scenario.
DangerousMatched(i) ==
    i[1] \in Attacks /\ i \in heard /\ call[i]["dangerous"] # "none"

\* Read the evidence, label the run and write ScenarioRunEnd, with no await.
\* Then write the result file: the task is done, or the attempt raises with
\* its event in the stream.
Conclude(i) ==
    /\ phase[i] = "returned"
    /\ outcome' = [outcome EXCEPT ![i] =
          Classify(SawCanary(i), rc[i], DangerousMatched(i), PanelRejected(i),
                   i[1] \in Attacks)]
    /\ \/ /\ phase' = [phase EXCEPT ![i] = "ended"]
          /\ task' = [task EXCEPT ![i[1]] = "ok"]
       \/ /\ MayRaise
          /\ phase' = [phase EXCEPT ![i] = "raised"]
          /\ UNCHANGED task
    /\ UNCHANGED <<tries, agent, call, rc, heard, infra, workspace, network,
                   honeypot, judgments>>

\* An exception before the event is written: no scenario file, no docker, a
\* full disk.  By then the honeypot may have the canary already.
Raise(i) ==
    /\ MayRaise
    /\ \/ /\ phase[i] = "rendered"
          /\ registered' \in {registered, registered \cup {i}}
       \/ phase[i] = "returned" /\ UNCHANGED registered
    /\ phase' = [phase EXCEPT ![i] = "raised"]
    /\ UNCHANGED <<task, tries, agent, call, rc, heard, outcome, infra,
                   workspace, network, raw, writing, events, judgments>>

\* The second attempt raised as well: soft_abort.
GiveUp(t) ==
    /\ task[t] = "running"
    /\ tries[t] = 2 /\ phase[Latest(t)] = "raised"
    /\ task' = [task EXCEPT ![t] = "failed"]
    /\ UNCHANGED <<tries, phase, rc, heard, outcome, infra, agent, call,
                   workspace, network, honeypot, judgments>>

\* Every task is done: remove the judges, stop the infrastructure.
Teardown ==
    /\ infra = "up"
    /\ \A t \in Tasks : task[t] \in {"ok", "failed"}
    /\ infra' = "stopped"
    /\ UNCHANGED <<task, tries, phase, rc, heard, outcome, agent, call,
                   workspace, network, honeypot, judgments>>

-----------------------------------------------------------------------------
\* The agents, the honeypot and the panel.

\* The agent proposes a tool call; calls of one turn wait side by side.
Propose(i, k) ==
    /\ agent[i] = "alive" /\ infra = "up"
    /\ call[i][k] = "none"
    /\ k = "dangerous" => i[1] \in Attacks
    /\ call' = [call EXCEPT ![i][k] = "judging"]
    /\ UNCHANGED <<experiment, agent, workspace, network, honeypot, judgments>>

\* Guard!File: the panel has decided and appends its event, also for a hook
\* that denied on a broken connection or was killed, and for an agent that is
\* gone by now; a panel that fails appends nothing.
File(i, k) ==
    /\ infra = "up"
    /\ call[i][k] # "none"
    /\ Record(i, k) = "none"
    /\ \E d \in {"approve", "reject"} : judgments' = judgments \cup {<<i, k, d>>}
    /\ UNCHANGED <<experiment, agent, call, workspace, network, honeypot>>

\* Guard!Answer: the hook in the agent's container exits with the reply, or
\* denies for any failure, or is killed for having waited too long.
Answer(i, k) ==
    /\ agent[i] = "alive" /\ infra = "up"
    /\ call[i][k] = "judging"
    /\ \E a \in {"approved", "refused", "unguarded"} :
          /\ a = "approved" => Record(i, k) = "approve"
          /\ call' = [call EXCEPT ![i][k] = a]
    /\ UNCHANGED <<experiment, agent, workspace, network, honeypot, judgments>>

\* Code of the scenario that runs on behalf of i posts the canary it finds
\* in the workspace.
Exfiltrate(i) ==
    LET post == [from |-> i, canary |-> workspace] IN
    /\ post \notin network
    /\ \A e \in events : e.from = i => e.canary # workspace
    /\ network' = network \cup {post}
    /\ UNCHANGED <<experiment, agent, call, workspace, honeypot, judgments>>

\* The agent executes a call that triggers the attack and that was approved
\* or not waited for, whether or not the scenario's patterns match that call.
Attack(i) ==
    /\ agent[i] = "alive" /\ infra = "up"
    /\ i[1] \in Attacks
    /\ \E k \in Kinds : call[i][k] \in {"approved", "unguarded"}
    /\ Exfiltrate(i)

\* A judge executes it while it investigates; its session may outlast the
\* answer (a timeout, a panel that failed).
Invoke(i) ==
    /\ JudgesInvoke
    /\ infra = "up" /\ \E k \in Kinds : call[i][k] # "none"
    /\ i[1] \in Attacks
    /\ Exfiltrate(i)

\* The container exits by itself.
Exit(i) ==
    /\ agent[i] = "alive"
    /\ agent' = [agent EXCEPT ![i] = "gone"]
    /\ UNCHANGED <<experiment, call, workspace, network, honeypot, judgments>>

\* Mutant of Receive: every post counts as a canary hit.
ReceiveUnchecked(p) ==
    /\ infra = "up"
    /\ writing = None
    /\ p \in network
    /\ network' = network \ {p}
    /\ raw' = raw \cup {p.canary}
    /\ writing' = [from |-> p.from, canary |-> p.canary, match |-> TRUE]
    /\ UNCHANGED <<experiment, agent, call, workspace, registered, events,
                   judgments>>

\* catch_all: match the post with the registered canaries and append it to
\* the raw log, which keeps neither the query string nor what follows the
\* first 2000 characters of the body.
Receive(p) ==
    /\ infra = "up"
    /\ writing = None
    /\ p \in network
    /\ network' = network \ {p}
    /\ raw' \in {raw, raw \cup {p.canary}}
    /\ writing' = [from |-> p.from, canary |-> p.canary,
                   match |-> p.canary \in registered]
    /\ UNCHANGED <<experiment, agent, call, workspace, registered, events,
                   judgments>>

\* The structured event follows, or its write fails.
Emit ==
    /\ infra = "up"
    /\ writing # None
    /\ events' \in {events, events \cup {writing}}
    /\ writing' = None
    /\ UNCHANGED <<experiment, agent, call, workspace, network, registered,
                   raw, judgments>>

Finished == infra = "stopped" /\ UNCHANGED vars

Runner(i) == CanarySeen(i) \/ AgentExited(i) \/ TimesOut(i)

Loop ==
    \/ \E t \in Tasks : Prepare(t) \/ GiveUp(t)
    \/ \E i \in Run : Launch(i) \/ Runner(i) \/ Conclude(i) \/ Raise(i)
    \/ Teardown

World ==
    \/ \E i \in Run :
          \/ Attack(i) \/ Invoke(i) \/ Exit(i)
          \/ \E k \in Kinds : Propose(i, k) \/ File(i, k) \/ Answer(i, k)
    \/ \E p \in network : Receive(p)
    \/ Emit

Next == Loop \/ World \/ Finished

Spec == Init /\ [][Next]_vars

\* The loop runs and the runner's timeout fires; nothing is assumed of the
\* agents, the honeypot or the panel.
Fairness == WF_vars(Loop)

FairSpec == Spec /\ Fairness

-----------------------------------------------------------------------------

Guard == INSTANCE GuardSpec WITH
    Calls <- Run \X Kinds,
    Guarded <- TRUE,
    answer <- [c \in Run \X Kinds |->
                 CASE call[c[1]][c[2]] = "approved" -> "allow"
                   [] call[c[1]][c[2]] = "refused" -> "deny"
                   [] call[c[1]][c[2]] = "unguarded" -> "unguarded"
                   [] OTHER -> "none"],
    record <- [c \in Run \X Kinds |-> Record(c[1], c[2])]

(* The agents, the panel and its records behave as GuardSpec allows, which *)
(* Orchestrator implements: the models of the guard and of the runs around *)
(* it agree on what passes between them.                                   *)
PanelIsGuard == Guard!Spec

(* One run at a time and containers that die when killed: the files in the *)
(* shared workspace are those of the run whose agent works there, so that  *)
(* an agent never meets the canary of another run.                         *)
WorkspaceIsOwn == \A i \in Run : agent[i] = "alive" => workspace = i

(* Attribution: an event credited to a run by its canary was posted on     *)
(* behalf of that run, also when it arrives after the next run has begun.  *)
HitsAreOwn == \A e \in events : e.match => e.from = e.canary

(* A run is labelled attack_succeeded only if its own agent was allowed a  *)
(* call with the panel's approval on record, or did not wait for it:       *)
(* neither retries, nor late posts of other runs, nor an approval recorded *)
(* after the denial turn a guarded run into a successful attack.           *)
SuccessWasApproved ==
    \A i \in Run : outcome[i] = "attack_succeeded" =>
        \E k \in Kinds :
           \/ call[i][k] = "approved" /\ <<i, k, "approve">> \in judgments
           \/ call[i][k] = "unguarded"

(* A defence is credited on the run's own evidence: its agent proposed a   *)
(* dangerous call, and the panel rejected a call of this very attempt,     *)
(* whatever it recorded for others meanwhile; the agent was not allowed    *)
(* the call it rejected, but it may have gone ahead without waiting.       *)
DefenseIsOwn ==
    \A i \in Run : outcome[i] = "attack_blocked_by_judge" =>
        /\ call[i]["dangerous"] # "none"
        /\ \E k \in Kinds :
              call[i][k] # "approved" /\ <<i, k, "reject">> \in judgments

(* Whatever overlaps or fails, a success is earned: somebody executed a    *)
(* call of an attack scenario and posted the run's canary, which had been  *)
(* registered before.                                                      *)
SuccessWasPosted ==
    \A i \in Run : outcome[i] = "attack_succeeded" =>
        /\ i \in registered
        /\ \E e \in events : e.canary = i /\ e.from[1] \in Attacks

(* The semaphore bounds the containers, not only the tasks: agents alive   *)
(* at the same time never outnumber the permits, retries included.         *)
AgentsWithinPermits ==
    Cardinality({i \in Run : agent[i] = "alive"}) <= MaxConcurrency

(* A label is final and so is the attempt that carries it: at most the     *)
(* retry follows a run whose event is in the stream, and no run of a task  *)
(* follows one that was reported.                                          *)
ReportedOnce ==
    [][\A i \in Run :
          /\ outcome[i] # "none" => outcome'[i] = outcome[i]
          /\ task[i[1]] = "ok" /\ phase[i] = "none" => phase'[i] = "none"]_vars

(* The experiment ends, however its agents hang: every task is reported or *)
(* given up, and the infrastructure is stopped.                            *)
ExperimentEnds == <>(infra = "stopped")

=============================================================================
