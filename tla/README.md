# A formal model of the judge-panel harness

The repository runs experiments in which a coding agent works on a scenario
that may carry an attack, while a panel of LLM judges approves or rejects each
of its tool calls.  This directory holds TLA+ modules of the parts that decide
something, TLC runs over small instances, and TLAPS proofs for all instances.
Paths below are relative to the repository.

## 1. The system

| Part | Code | State it keeps | Operations |
|---|---|---|---|
| Experiment runner | `ablations/experiment.py` | tasks, the semaphore, one retry each, event streams, result files | set-up, run one scenario rep, classify, tear down |
| Runner agent | `core/runner_agent.py` | the agent container, its CLI process, the canary watcher | race exit / canary / timeout, kill |
| Scenario rendering | `core/scenario.py` | the one shared workspace directory | wipe, render with fresh canaries |
| PreToolUse hook | `core/judge_hook.py` | none; one process per tool call | post the call, turn the reply into an exit code |
| Orchestrator | `core/orchestrator.py` | `orchestrator.jsonl`, `events/judgment.jsonl` | fan out to the judges, count, record, reply |
| Agentic judge | `core/judges/agentic.py` | three file names in each judge container | stage the call, clear the verdict, run a session, read |
| Voting | `core/voting.py` | none | strict majority |
| Honeypot | `core/honeypot.py` | registered canaries, raw log, event stream | register, match and log every request |
| API proxy | `core/api_proxy.py` | spend per agent, traffic log, event stream | check budget, forward, charge |
| Infrastructure | `core/infra.py` | three host processes on fixed ports | start, wait for health, stop |
| Judge containers | `core/judge_containers.py`, `experiment.py` | one container per judge, by name | run, remove |
| Classification | `analysis/ground_truth.py` | none | the label of a run |
| Event log | `core/logger.py` | one JSONL file per stream, one lock file each | append under the lock, read without |
| Scan and aggregation | `analysis/inspection.py`, `aggregate.py`, `extract_all.py`, `paper_metrics.py` | none; they read the streams | inspection signals, the join of votes and transcripts, counts and rates |
| OpenAI judge | `core/judges/openai.py` | a conversation and an HTTP client per judgment | the turn-budget loop behind a chat-completions endpoint |
| Replay agent | `core/replay_agent.py` | none | posts one pre-extracted call; no caller yet |

How they interact.  The experiment spawns the host processes and, run by run,
an agent container.  The agent's runtime starts a hook for each tool call; the
hook posts it to the orchestrator and waits; the orchestrator starts one
judgment per judge container (`asyncio.gather`, staggered) and replies with the
majority.  Scenario code that an approved call sets off posts the canary of
the workspace to the honeypot, which writes a raw log (read by the runner's
watcher) and then an event (read by the classifier).  When the runner returns,
the experiment reads the two event streams once and labels the run.  Agents and
judges reach the model through the proxy.  All processes append to the event
streams of one results directory; the analysis programs read them, at any time
and without the lock, and join what no record links: a vote and the transcript
of the session that gave it.

What is hard about it:

* interleaving: requests in the proxy between check and charge; judgments that
  share file names in a container; runs that share the workspace;
* abandoned work: a timeout of a judge, a hook or a runner stops waiting, and
  the process behind it goes on;
* ordering: posts and judgments that arrive after the label was given;
* partial failure: a judge that raises, an append that fails, a registration
  that is lost, a kill that does not take;
* retries after a part of the attempt was already done;
* crashes: what a killed experiment leaves behind meets the next one, which
  uses the same ports and container names; a writer dies inside a record;
* an outside party that may answer anything: the endpoint of the OpenAI judge;
* numbers computed by several programs, by several rules, from records of which
  some are missing and some are double.

What makes each part correct: an allowed call has a recorded majority; a vote
comes from the verdict of that very judgment; spending is bounded; the
evidence a label rests on belongs to the labelled run; the experiment ends and
never has more agents than permits; an experiment works with its own
containers, and with its own services unless an earlier one left some behind; no record whose append returned
is lost to more than a torn neighbour; and the numbers of the programs that
read the records can be put side by side.

## 2. The modules

| Module | Models | Used by |
|---|---|---|
| `Voting` | `majority_vote` as an operator over ballots | `Orchestrator` |
| `PanelSpec` | abstract: what a guarded agent is promised | refined by `Orchestrator` |
| `GuardSpec` | abstract: what the runs around the guard rely on | refined by `Orchestrator` and by the panel of `ScenarioRuns` |
| `Orchestrator` | hook, handler, judges' tasks, the two records | `MCOrchestrator`, `OrchestratorProofs` |
| `JudgeContract` | abstract: what the orchestrator relies on in a judge | refined by `AgenticJudge` and `OpenAIJudge` |
| `AgenticJudge` | one judge container and the judgments in it | `MCAgenticJudge`, `AgenticJudgeProofs` |
| `ApiProxy` | the proxy's handler, one per connection | `MCApiProxy`, `ApiProxyProofs` |
| `OpenAIJudge` | the judge behind a chat-completions endpoint | `MCOpenAIJudge`, `OpenAIJudgeProofs` |
| `Classification` | the label of a run | `ScenarioRuns`, `Results` |
| `ScenarioRuns` | experiment loop, agents, honeypot, panel records | `MCScenarioRuns`, `ScenarioRunsProofs` |
| `Infrastructure` | set-up and tear-down of a sweep of experiments | `MCInfrastructure`, `InfrastructureProofs` |
| `EventLog` | one JSONL file, its writers and its readers | `MCEventLog`, `OrchestratorProofs` |
| `Results` | the scan of a transcript, the two event streams, the rates | `MCResults`, `ResultsProofs` |
| `Transcripts` | the join of votes and transcripts | `MCTranscripts`, `TranscriptsProofs` |

Composition.  `Orchestrator` uses of a judge only what `JudgeContract` gives (a
vote or an exception at any time), and both judge modules implement that
contract.  `GuardSpec` is the other side: `Orchestrator` implements it, and what
agents, panel and records do in `ScenarioRuns` is proved to be a behaviour of it, so that the runs are not modelled around a guard the code does
not have.  `ScenarioRuns` is what the phase `executing` of `Infrastructure`
stands for.  `Results` takes over where `Conclude` of `ScenarioRuns` is one step:
it has the transcript, the scan and the two streams in detail, and leaves the
evidence free that `ScenarioRuns` follows to its origin.  `EventLog` is the
append that `Orchestrator`, `ApiProxy` and `ScenarioRuns` take as one step that
may fail.  `OrchestratorProofs` extends both `Orchestrator` and `EventLog` (whose
definitions carry `Log` in their names for that reason) and has the theorems
about the guard, its judges and its event file together.

**ApiProxy.**  A slot is a connection whose handler is `idle`, `forwarded`
(suspended in the upstream call) or `answered`.  `Forward`/`Refuse` are the
budget check, `Metered` the code after the response: charge, log line, event,
of which a suffix may be lost to an exception.  A streamed response is charged
0, as the code does (`resp_json = {}`); with Claude Code, which streams, the
budgets therefore bind little, as `experiment.py:388-390` observed.

**AgenticJudge.**  `pc` is the step of `run_agentic_judge`.  `tmp` and `tool`
are the inodes the names `tool_call.json.tmp` and `tool_call.json` point to,
`content` what an inode holds, `verdict` the file `verdict.json`.  `session` is
the claude process, which outlives the `docker exec` that the timeout abandons.
`said`, `basis`, `contended` and `uncleared` are history variables for the
properties only.

**Orchestrator.**  `hook` and `handler` are the two ends of a request; `vote`
what each judge's task returned.  `JudgeRaises` is `gather` without
`return_exceptions`; `Decide` is everything after the `await`, in one step,
with the two appends that may raise.  `ConnectionLost` is any exception of the
hook's request, while the orchestrator runs or after it stopped: the hook denies,
and the handler, which does not notice, may still approve and record the call.
`HookKilled` is Claude Code's own 600 s
limit, after which the call is unguarded (external, read from
`docker/claude-settings.json` and the hook's docstring).

**ScenarioRuns.**  A run is a task and an attempt (a `scenario_run_id`) and
stands for its canary.  `Prepare` wipes and renders; `Launch` registers, writes
the start event and starts the container; `CanarySeen`, `AgentExited`,
`TimesOut` are the three outcomes of the runner's race; `Conclude` reads the
evidence, labels and writes; `Raise` and `GiveUp` are the retry.  `Propose`,
`Attack` and `Exit` are the agent's; `File` is the judgment that reaches the
stream and `Answer` the end of the hook, two steps because a hook that was
killed (the call goes ahead, "unguarded") or lost its connection (the call is
denied) leaves a panel that records later, and a panel that failed leaves a
denial without a record.  `Invoke` is a judge that
runs the lure itself, also in a session that outlasts the answer.  `Receive` and
`Emit` are the honeypot's two writes.  The honeypot may drop a canary from the raw log (query
string, body after 2000 characters, JSON escapes) and an event (failed write).

**OpenAIJudge.**  `pc` is the place in `run_openai_judge`: `asking` at the
`await` of the request, `executing` between two tool calls of a reply.  A reply
is the number of its tool calls and what its text holds; `messages` is the
conversation by role.  `NextTurn` is the head of the loop, `Answered`,
`Garbled` and `TimesOut` the ends of the request, `Conclude` the parsing of a
reply without tool calls, `Close` the `finally`.  The reason of a verdict is the
endpoint's own text: `Conclude` lets it begin with anything, a failure category
included.

**EventLog.**  A record reaches the file as two pieces and a newline, because
`json.dumps` of a judgment may be larger than the write buffer.  `lines` are the
closed lines and `open` what follows the last newline.  `Fail` is an exception
of the write (the `with` statements release), `Crash` the death of the process
(the kernel releases); both may leave a fragment.

**Results.**  `at` and `stage` are the run that is analysed and how far: runs
overlap, but there is no await between the runner's return and the result file,
so analyses do not.  `Scan` is the body of the loop of `compute_inspection`;
`Inspect`, `Label` and `Save` write the three records, and `Raise` leaves what
is written to the one retry.  The rates are operators over the end events.

**Transcripts.**  A clock in units of a time stamp, a session per judgment and
judge, the files `judge_transcripts/<judge>_<ms>.stdout` and the time stamp of
each judgment.  `Indexes` and `Join` are `_index_transcripts` and
`_match_transcript`; where two files carry one stamp the dictionary keeps
either.  A judgment whose last vote raises, or whose record fails, is dropped;
a judge that raises while others of its panel are still in session is not
modelled.

**Infrastructure.**  `phase` is where `run` of each experiment is; `kept` is
`_procs`, assigned only after the third spawn; `health` the results of the two
polls; `removing` the rest of the loop in `_teardown`; `fate` tells a run that
goes on from one an exception leaves.  `TearDown` is the way into the `finally`.
A poll asks a port, so `Healthy` takes any listener; `server` remembers whose it
was.  A service that finds its port taken can only `Die`.  `Exit` is the end of
the interpreter and stops nothing: no code does.  Children that are left run on;
where asyncio finalizes their transports (the child watchers of some platforms
and versions do) they are killed, which is a `Die`.  An exception that leaves
`_teardown` itself goes through `unwinding` to `broken`.  `Interrupt` is Ctrl-C,
which cancels `run` at an await, and `Crash` a SIGKILL, a SIGTERM or the OOM
killer.  So services survive a kill, a tear-down that was cut short (Ctrl-C in it,
or no docker to run) and a set-up that could not spawn all three; `MayLeave` says
which.

## 3. The runs

| Run | Instance | Shows |
|---|---|---|
| `MCApiProxy` | 2 budgets (3 and 1), 1 unknown agent, 2 slots, charges 0..2 | `BudgetHolds`, `LedgerOrdered`, `ExhaustedIsFinal` |
| `MCJudgeSerial` | 3 calls, one at a time | `OwnVerdict`, `ImplementsContract` |
| `MCJudgeShared` | 2 overlapping calls, timeouts, failing clears | `UncontendedIsOwn`, `ApprovalWasWritten`, `EveryJudgmentReturns` |
| `MCOrchestrator` | 3 judges, 1 Byzantine, 2 calls | `MinorityCannotAllow`, `AllowedIsRecorded`, `RecordsAreJudgments`, `ImplementsPanel`, `ImplementsGuard`, `EveryCallIsAnswered` |
| `MCRunsAlone` | an attack task and its retry, 1 permit, attempts may raise at any point, with or without the canary registered | `WorkspaceIsOwn`, `HitsAreOwn`, `SuccessWasApproved`, `DefenseIsOwn`, `AgentsWithinPermits`, `ReportedOnce`, `ExperimentEnds` |
| `MCRunsTogether` | an attack and a benign task, 2 permits, kills and registrations may fail, judges may run the lure | `SuccessWasPosted` |
| `MCSweep` | 2 experiments whose panels share a name; crashes, interrupts, failing spawns, hanging services, docker down or missing | `OwnContainers`, `ServedByOwn`, `EndMeansStopped`, `NamesFreed`, `SweepEnds` |
| `MCOpenAIJudge` | 2 judgments, one with a client it was handed; budget 2, up to 2 tool calls in a reply | `ConversationComplete`, `ReasonIsTrue`, `ImplementsContract`, `EveryJudgmentReturns` |
| `MCEventLog` | 3 writers of 2 records, 2 appends cut short | `CleanLogReads`, `LossBounded`, `EveryAppendEnds` |
| `MCResults` | an attack scenario whose analysis may raise and a benign one, transcripts of 3 tool uses | `InspectionIsTemporal`, `StreamsAgree`, `RepsCounted`, `RatesComparable` |
| `MCTranscripts` | 3 judgments of 2 judges on a clock of 9, one at a time | `JoinIsOwn`, `TranscriptsKept` |
| `MCJudgeTorn` | 2 judgments that stage at once | a violation of `NeverPartial`, see below |

Type correctness is a theorem of every module with state (`TypeCorrect`,
`SweepTyped`, `FileTypeCorrect`), so that no run checks it.  `FailureIsSilent` of
`Orchestrator`, `ClientLifetime` of `OpenAIJudge` and `PanelIsGuard` of
`ScenarioRuns` are theorems only, too.

Bounds, and why they are enough.  Two slots let two requests of one agent pass
the check before either is charged, and a third agent come between; a limit of
3 is passed in steps of 1 and 2, so both the exact hit and the overshoot occur.
Two judgments give every pair of interleaved file operations; the third of
`MCJudgeSerial` meets the files of two predecessors.  Three judges are the
panels of A4 and A6; with one Byzantine judge the honest ones decide.  Two
attempts give a post that is late for its run and early for the next, whether
the next is a retry or another task.  Two experiments of a sweep are a predecessor that leaves
something behind and a successor that meets it; their panels share one name
and differ in another.  A budget of 2 gives a turn that is not the last, one
that is, and tools asked for on both.  Three writers are one that dies with the
lock and two that wait for it; two torn appends are a fragment that meets a
record and one that meets a fragment.  Three tool uses are a read, a trigger and
one more on either side of them.  Three judgments are a neighbour before and one
after, and a clock of 9 lets sessions of the least length follow each other while
a transcript waits past the length of a session, or past the window.  The theorems of section 5 remove the bounds for everything but
liveness.  `MCRunsAlone` gives up failing registrations, which `MCRunsTogether`
has, for the other ways an attempt fails.  Charges are whole units up to `MaxCost`; `tries`
is bounded by 2 because the code retries once; nothing else is counted.

Fairness.  `AgenticJudge`: weak fairness of the judgment's own steps: the
event loop runs, `docker exec` returns, and `wait_for` fires; none of the
claude process.  `Orchestrator`: the judges' tasks end (that is
`EveryJudgmentReturns`), the loop runs the handler, the hook reads its reply
or sees the connection close when the orchestrator is gone; none of the runtime
that may kill the hook.  Behind an endpoint a judge's task ends if its tool calls
do (below).
`ScenarioRuns`: weak fairness of the experiment's loop as a whole, which
includes the runner's timeout; none of agents, honeypot or panel.
`Infrastructure`: weak fairness of the experiments' own steps: polls have
deadlines, `stop` kills what it waited for in vain, and execution returns
(`ExperimentEnds`); none of the services, which need neither come up nor exit.
`OpenAIJudge`: the loop runs and the timeout of a request fires; no request is
assumed to be answered, an answer may ask for a tool every time, and no tool call
is assumed to return: `_dispatch_tool` (`openai.py:252-257`) awaits a command of
the model's choice (`tail -f`) without a timeout.  `EveryJudgmentReturns` there is
therefore about the judgments whose tool calls all return, as a condition of the
property.  `EventLog`: a process that is in `append` goes on, since `filelock`
polls and no writer appends for ever; it may die instead.

### Divergences the model found

| Run | Property | Statement it contradicts |
|---|---|---|
| `MCJudgeTorn` | `NeverPartial` | `core/judges/agentic.py:188-189`: the judge "sees either old or new content, never partial" |

It needs two judgments at once in one container, which agents that batch tool
calls do produce (`docs/design-retrospective.md`).  Others were met on the way
and are in the models as the code has them, without a run of their own:

* `ARCHITECTURE.md:336-337` calls judgments stateless, but a session that a
  timeout abandoned (`agentic.py:251`) goes on and may write its verdict into a
  later judgment; that is why `OwnVerdict` assumes that none times out.
* The clear step's exit code is dropped (`agentic.py:212`) although
  `ARCHITECTURE.md:341` says any failing exec rejects, and an ill-typed verdict
  raises out of the parser (`agentic.py:92-98`) although a parse failure should
  reject.  The OpenAI judge promises a reject "on any error path"
  (`openai.py:319-321`), under one of three categories, and raises for a body that is not a completion, for an
  ill-typed field and for tool arguments that are no object.  The hook turns all
  of these into a denial, but the votes of the other judges go with them
  (`orchestrator.py:86`).
* `experiment.py:500-501` says all judgments are flushed before a run is
  labelled; a hook that was killed leaves a panel that votes later.
* `ground_truth.py:32` reads `attack_blocked_by_judge` as "panel rejected it";
  the rule (`:134`) takes a rejection of any call of the run, and the timeout
  rule (`:114`) comes before it.  `DefenseIsOwn` says what is left.
* `README.md:376` counts detections as `attack_blocked_by_judge`;
  `aggregate.py:52-66` leaves exactly these out.  `extract_all.py` says that it
  takes the reps where the judge voted, but includes `attack_blocked`, and its
  `n_judgments` counts votes.  `RatesComparable` says how the numbers relate.
* `logger.py:1` says that reads are safe while others write; `read_all` takes
  no lock, and a record that was torn makes `aggregate.py` raise for good, which
  `experiment.py:605-610` only warns about.
* `extract_all.py:208-216` expects transcripts that end after the event; the
  code writes them before, by as long as the slowest judge takes.  A vote whose
  session timed out has no transcript and takes its neighbour's, whose tokens and
  cost then count twice; one that waited for a judge that timed out may be taken
  for the next judgment's; and a name that begins with another
  (`judge-threat-byzantine`) is a candidate for it.
* A hit that reaches the event stream after the label is in the stream but not
  in the end event (`README.md:379` asks to cross-check the two).
* `openai.py:27-34` names a category `judge_succeeded` that is never written: the
  reason of a verdict is the model's text, which may itself begin with a failure
  category, so that whoever counts failures by that prefix counts verdicts too.
  And the tools asked for on the last turn of the budget are executed for
  nothing.

One more concerns leftovers and is a condition inside `ServedByOwn`: after an
experiment was killed, or its tear-down cut short, the health check of the next one (`infra.py:152-160`)
is answered by the leftovers, and it executes with the old orchestrator (the
old panel and event directory) and an old honeypot, which refuses its admin
token with a status nobody reads (`experiment.py:244-248`).  Containers are
safe from that: `docker run --name` refuses the name (`OwnContainers`), one
set-up fails, and its tear-down clears the way (`NamesFreed`).

## 4. What the properties say

Each property is stated above its definition.  The ones that hold only under
conditions have them as constants: `OwnVerdict` and `ImplementsContract` need
`Concurrency = 1`, no timeout and no failed clear; `WorkspaceIsOwn` and
`HitsAreOwn`, and with them `SuccessWasApproved`, need one permit, a
`docker kill` that works and judges that do not execute the lure.  A success was
approved by the panel, with the approval on record, or, if the runtime gave up on
the hook, not waited for; the converse is not promised, as a call on record as
approved may have been denied by a hook that lost its connection.  A defence is a rejection of a call that was not allowed, but that may have gone
ahead in the same way.  `README.md:343` asks for one permit; the command line
defaults to three (`experiment.py:627`).

`JoinIsOwn` and `TranscriptsKept` need judgments one at a time and sessions that
take at least one unit of the time stamps (`MinSession`).  How long a transcript
waits for the rest of its panel is not bounded: the slowest judge may use up its
timeout.  `JoinIsOwn` says how far the join can then be trusted: a judgment that
followed a transcript sooner than a session takes (`Prompt`; always so in a panel
of one, as A1 has) has that transcript; a transcript of another judgment goes to
a vote that left none, or, if its session began after the judgment, to one that
waited long; never to a vote that left one before it.  All three happen in
`MCTranscripts`.  `DefenseIsOwn` allows the rejected call to be another than the
dangerous one, and `ReportedOnce` and `RepsCounted` allow a retry to report its
task again: the code does both, and the properties bound it.  `LossBounded` is what the log keeps without a
repair: one torn append costs at most one other record.  `InspectionIsTemporal`
is about the two indexes and what they are compared for, not about what a
command matches: the scan counts calls that the panel refused, too.

## 5. The proofs

`ApiProxyProofs`.  `HandlerSteps`, `OnlyMeteredCharges` and `MeteredCharges` say once
which steps there are and which of them moves money.  `BudgetHolds` is not inductive: the spend may grow by the
requests in flight.  `Covered(a)` adds them: spend plus `MaxCost` per request
of `a` in flight is within the allowance.  `Forward` may take a new exposure
only below the limit, a landing request turns exposure into spend; the
cardinality facts are `FiniteSetTheorems`.  `ExhaustionIsFinal` and
`LedgerOrderedAlways` are inductive beside `TypeCorrect`.

`AgenticJudgeProofs`.  `JudgeInv` relates `pc`, `session` and the files, and
says of a judgment that is alone (`Alone`) that the inodes it opened, renamed
and clears are its own; one lemma per action preserves it.  From it follow
`UncontendedIsOwnAlways` and `ApprovalWasWrittenAlways` for any number of calls
and any concurrency.  Under `SerialContainer` every judgment is alone, which
gives `OwnVerdictAlways` and the step simulation of `SerialImplementsContract`.

`OrchestratorProofs`, the guard.  `GuardInv` says that a handler that replied has
the majority of a complete ballot and, on an approval, both records.
`FailureIsSilentAlways` says that once a handler has failed no record of its
call is added.  `MinorityCannotAllowAlways` and `MinorityCannotReject` add a
counting argument: neither a strict majority nor the rest that defeats one is
contained in a strict minority.  `GuardImplementsPanel` maps `Decide`, `Post`
and the appends to stutters, votes to `Cast` and exits to `Answer`.
`GuardKeepsRecords` (`ImplementsGuard`) maps an append to
`events/judgment.jsonl` to `File`; it needs `FilingInv`, by which a call whose
handler is still at work has no record yet.  Nothing is assumed of its hook,
which may have denied the call.

`OrchestratorProofs`, the file.  `FileInv` has, beside the lock, three parts.  `LinesFromRecords`: a
closed line begins with the head of a record that has begun, no two lines with
the same, and a newline of some record closed it.  `OpenIsOwn`: what follows the
last newline belongs to the holder of the lock, alone or behind a fragment, and
without a holder it is nothing or a fragment.  `DoneIsClosed`: a record whose
append returned closed a line, by itself or behind the fragment of one in
`torn`, which is finite.  `WriteKeepsFile` is the step at which the pieces meet,
the other steps leave the file.  A lost record is then the end of a line whose
beginning was cut short, and since no two lines begin with the same record, that
is an injection of the lost records into the torn ones (`LostOnFragments`),
whence `LossBoundedAlways`; with `torn` empty every line is a record, whence
`CleanLogReadsAlways`.

`OrchestratorProofs`, compositions.  `AllowedWasExamined` puts judges that keep
`JudgeContract` beside the guard: an allowed call was examined and approved of
by an honest judge, if these are the majority.  Where `AgenticJudge` keeps the
contract only under conditions (section 4), so does this.  `ApprovalsAreRead`
puts `EventLog` beside it: `Linked` says that an event counts as written when its
append has returned, `PlaceAssumption` that each judgment is one record of the
file; then readers miss at most as many approvals of allowed calls as appends
were torn, and none in a clean file.

`ScenarioRunsProofs`.  `Bookkeeping` ties the attempt counters to the phases:
only the latest attempt of a running task is under way.  `PermitInvariance`
injects live agents into running tasks, whence `AgentsWithinPermitsAlways` (if
`docker kill` works).  `OwnInv`, with one permit, says that the workspace and
every post under way belong to one run, whence `HitsAreOwnAlways` and
`WorkspaceIsOwnAlways`; `ApprovedInv` adds that such a post has an approved call
behind it, and `LabelInv` that its approval is on record, whence `SuccessWasApprovedAlways`.  `LabelInv` keeps the evidence of a
label beside the label and needs no condition: `DefenseIsOwnAlways`,
`SuccessWasPostedAlways`, `ReportedOnceAlways`.  `PanelIsGuardAlways` maps `File` and
`Answer` to those of `GuardSpec` and every other step, whatever fails in it, to a
stutter; it rests on type correctness and on how `Record` follows a judgment that
is added.

`InfrastructureProofs`.  `SweepInv` says that the experiments go one after the
other (`Sequential`), that none has a process before it begins (`Quiet`), that
`_procs` names what is left to stop or a spawn had failed, until the tear-down
has run to its end (`Accounted`), and who answered a poll (`Polled`): oneself, or
an earlier experiment that `Accounted` lets leave something.  `FrameStep`, `AliveStep`, `PhaseStep` and
`ContainerStep` say once what a step may change; the invariants follow by
cases, for sweeps of any length over any panels.

`OpenAIJudgeProofs`.  A judgment changes nothing of another (`OthersSame`), so
one case per action is enough.  `OwnInv` says that a judgment that asks or
executes has no answer yet, and keeps the reason true to the reply.  The
conversation is proved without induction over it: `Followed` says of every
reply where its results end, which is the next reply, or for the last reply the
end of the conversation plus what it is `Owed`.  `ContractImplemented` maps a
reply that concludes to `Examine`, a return to `Answer` and the rest to stutters.

`ResultsProofs`.  `ScanInv` says that an index is that of the first match
(`IsFirst`), which `FirstKept` carries from one tool use to the next, whence
`InspectionIsTemporalAlways`.  `AgreeInv` adds that no record of the current
attempt is there before its step; then the label of a run with a dangerous call
follows by the rules (`DangerIsLoud`).  `EndsInv` has one end event per attempt;
the pigeonhole principle gives `RepsCountedAlways`, and the sizes of disjoint
sets with two facts about fractions (`LargerWhole`, `AddedToBoth`) give
`RatesComparableAlways`.

`TranscriptsProofs`.  Under `Serial` at most one judgment is open (`OpenInv`), a
transcript is no later than its judgment (`WaitInv`), and of two transcripts of
one judge one session was over and decided before the other began (`OrderInv`).
So its own is nearer than any earlier one (`OwnIsNearer`), and than any other
if the judgment was prompt (`PromptIsNearest`).

Assumptions are the named ones of each module and those in the theorem's
statement.  Only model-checked are the liveness properties
(`EveryJudgmentReturns` of both judges, `EveryCallIsAnswered`, `ExperimentEnds`,
`SweepEnds`, `EveryAppendEnds`), which the provers do not reach.

## 6. What is left out

Time: the 3 s stagger and the order of the timeouts are not modelled, so
that the hook's limit may come before or after the judges'.  Wiping the
workspace is complete (the code ignores errors, and rendering then appends to
a file left over).  Ablation A0 has no panel; `Orchestrator` covers it with an
empty `Judges`, `ScenarioRuns` is about guarded agents.  In-memory logs,
pricing, header rewriting, prompts and console output carry no control.  In
`Infrastructure`, a container that the daemon creates after an interrupt killed
the `docker run` that asked for it, and programs of others on the three ports,
are left out.  The execs that stage, clear and read in `agentic.py:194` have no
timeout; that they return is assumed, and nothing in the code makes it true.  The
tool calls of the OpenAI judge have none either; that is a condition of its
`EveryJudgmentReturns`.

Of the analysis: what a tool use matches (path and command patterns) is what the
use is taken to be, so that the shell splitting of `inspection.py` and the
patterns of the scenarios are data.  Its batch command line recomputes
`events/inspection.jsonl` from the transcripts on disk, of which a retry has
overwritten the first.  Sums of tokens and costs, quantiles, CSV files
and plots (`metrics.py`, `plot_paper.py`, most of `paper_metrics.py`) have no
state and no order to get wrong.  The replay agent posts one call and returns
the reply; event schemas, images, prompts and scenarios are data.

## 7. Plan

Everything planned at the start is done except a panel in `Transcripts` whose
judge raises while others are in session: their transcripts come late, next to
those of the judgments that follow, and neither property holds of such panels
without a condition on the sessions that overlap.
