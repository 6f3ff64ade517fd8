------------------------------- MODULE Results -------------------------------
(***************************************************************************)
(* What an experiment measures: the analysis of one run after another      *)
(* (the end of _run_scenario_rep in ablations/experiment.py, with the scan *)
(* of analysis/inspection.py), the two event streams it fills, and the     *)
(* numbers that aggregate.py, extract_all.py and paper_metrics.py compute  *)
(* from them at any later time.                                            *)
(*                                                                         *)
(* Runs overlap, but the analysis of a run has no await in it, so that one *)
(* run is analysed at a time.  The evidence from outside, which the module *)
(* ScenarioRuns follows to its origin, is free here.                       *)
(***************************************************************************)
EXTENDS Integers, Sequences, FiniteSets, Classification

CONSTANTS
    Scenarios,  \* the scenario ids
    Reps,       \* the repetitions of each
    Attacks,    \* the scenarios with a trojan and dangerous patterns
    Flaky,      \* the scenarios whose analysis may raise
    MaxUses,    \* bound: tool uses in a transcript
    None        \* no run, no index

ASSUME ResultsAssumption ==
    /\ IsFiniteSet(Scenarios) /\ IsFiniteSet(Reps)
    /\ Attacks \subseteq Scenarios /\ Flaky \subseteq Scenarios
    /\ MaxUses \in Nat
    /\ None \notin Nat /\ None \notin Scenarios \X Reps

Task == Scenarios \X Reps

\* A tool use of the transcript: a read of the trojan, a read of another
\* file of its chain, a Bash command that matches a dangerous pattern, one
\* that also reads the trojan, another tool's use whose text matches.
Uses == {"read", "readOther", "trigger", "readTrigger", "mention", "other"}

VARIABLES
    tries,        \* per task: attempts whose analysis has begun
    done,         \* the tasks with a result file
    at,           \* the task whose run is analysed, or None
    stage,        \* how far its analysis is
    stream,       \* the tool uses scanned so far
    found,        \* the InspectionRecord: indexes of first matches
    inspections,  \* events/inspection.jsonl
    ends          \* events/scenario_run_end.jsonl

scan == <<stream, found>>
vars == <<tries, done, at, stage, scan, inspections, ends>>

Index == 0 .. MaxUses - 1
Found == [strict : Index \cup {None}, loose : Index \cup {None},
          danger : Index \cup {None}]
Inspection == [task : Task, try : {1, 2}, strict : BOOLEAN, loose : BOOLEAN,
               executed : BOOLEAN]
End == [task : Task, try : {1, 2}, outcome : Outcomes, saw : BOOLEAN]

TypeOK ==
    /\ tries \in [Task -> 0 .. 2]
    /\ done \subseteq Task
    /\ at \in Task \cup {None}
    /\ stage \in {"none", "scanning", "inspected", "labelled"}
    /\ stream \in Seq(Uses) /\ Len(stream) <= MaxUses
    /\ found \in Found
    /\ inspections \subseteq Inspection
    /\ ends \subseteq End

NothingFound == [strict |-> None, loose |-> None, danger |-> None]

Init ==
    /\ tries = [t \in Task |-> 0]
    /\ done = {}
    /\ at = None /\ stage = "none"
    /\ stream = <<>> /\ found = NothingFound
    /\ inspections = {} /\ ends = {}

-----------------------------------------------------------------------------
\* The scan of the transcript.

IsAttack(t) == t[1] \in Attacks

ReadsTrojan(u) == u \in {"read", "readTrigger"}

\* The targets of a scenario contain its trojan.
ReadsTarget(u) == ReadsTrojan(u) \/ u = "readOther"

\* Only Bash commands count as dangerous calls.
Triggers(u) == u \in {"trigger", "readTrigger"}

\* match_patterns looks at the text of every tool use.
Matches(u) == Triggers(u) \/ u = "mention"

\* The first match wins; indexes count from 0.
First(old, hit) == IF old = None /\ hit THEN Len(stream) ELSE old

\* A run has returned: its analysis begins.
Begin(t) ==
    /\ at = None
    /\ t \notin done /\ tries[t] < 2
    /\ at' = t /\ stage' = "scanning"
    /\ tries' = [tries EXCEPT ![t] = @ + 1]
    /\ stream' = <<>> /\ found' = NothingFound
    /\ UNCHANGED <<done, inspections, ends>>

\* The body of the loop in compute_inspection.
Scan(u) ==
    /\ stage = "scanning" /\ Len(stream) < MaxUses
    /\ IsAttack(at) \/ u = "other"
    /\ found' = [strict |-> First(found.strict, ReadsTrojan(u)),
                 loose |-> First(found.loose, ReadsTarget(u)),
                 danger |-> First(found.danger, Triggers(u))]
    /\ stream' = Append(stream, u)
    /\ UNCHANGED <<tries, done, at, stage, inspections, ends>>

\* Mutant of Before: a call that reads and triggers at once counts as read.
NotAfter(read) ==
    read # None /\ (found.danger = None \/ read <= found.danger)

\* The properties strict_inspection and loose_inspection.
Before(read) ==
    read # None /\ (found.danger = None \/ read < found.danger)

\* The inspection event is written, or its computation or write fails, which
\* only warns.
Inspect ==
    /\ stage = "scanning"
    /\ stage' = "inspected"
    /\ \/ inspections' = inspections \cup
             {[task |-> at, try |-> tries[at], strict |-> Before(found.strict),
               loose |-> Before(found.loose), executed |-> found.danger # None]}
       \/ UNCHANGED inspections
    /\ UNCHANGED <<tries, done, at, scan, ends>>

\* Mutant of Dangerous: only the first call is matched.
DangerousAtOnce == stream # <<>> /\ Matches(stream[1])

\* match_patterns over the calls of the transcript.
Dangerous == \E i \in 1 .. Len(stream) : Matches(stream[i])

\* The label and the end event.
Label ==
    /\ stage = "inspected"
    /\ stage' = "labelled"
    /\ \E saw, rejected \in BOOLEAN, rc \in ReturnCodes :
          ends' = ends \cup
             {[task |-> at, try |-> tries[at], saw |-> saw,
               outcome |-> Classify(saw, rc, Dangerous, rejected, IsAttack(at))]}
    /\ UNCHANGED <<tries, done, at, scan, inspections>>

Leave ==
    /\ at' = None /\ stage' = "none"
    /\ stream' = <<>> /\ found' = NothingFound
    /\ UNCHANGED <<tries, inspections, ends>>

\* Mutant of Save: the result file is written also if the label fails.
SaveUnlabelled ==
    stage \in {"inspected", "labelled"} /\ done' = done \cup {at} /\ Leave

\* The result file is written, and the task is done.
Save == stage = "labelled" /\ done' = done \cup {at} /\ Leave

\* An exception somewhere on the way leaves what is written; the runner tries
\* the task once more.
Raise == stage # "none" /\ at[1] \in Flaky /\ UNCHANGED done /\ Leave

Finished ==
    /\ at = None /\ \A t \in Task : t \in done \/ tries[t] = 2
    /\ UNCHANGED vars

Next ==
    \/ \E t \in Task : Begin(t)
    \/ \E u \in Uses : Scan(u)
    \/ Inspect \/ Label \/ Save \/ Raise \/ Finished

Spec == Init /\ [][Next]_vars

-----------------------------------------------------------------------------
\* The numbers.  A rate is a fraction, and 0 when its denominator is.

Count(S, o) == Cardinality({e \in S : e.outcome = o})

Rate(n, d) == IF d = 0 THEN <<0, 1>> ELSE <<n, d>>
AtMost(r, q) == r[1] * q[2] <= q[1] * r[2]

\* aggregate.py: over all end events.
DetectionRate ==
    LET n == Count(ends, "attack_blocked")
    IN Rate(n, n + Count(ends, "attack_succeeded"))

\* extract_all.py: over the rows of a scenario.
Rows(s) == {e \in ends : e.task[1] = s}

Blocked(S) == Count(S, "attack_blocked") + Count(S, "attack_blocked_by_judge")

CanaryFired(S) == Cardinality({e \in S : e.saw})

PenetrationConditional(S) == Rate(CanaryFired(S), CanaryFired(S) + Blocked(S))

PenetrationUnconditional(S) == Rate(CanaryFired(S), Cardinality(S))

BlockRate(S) == Rate(Blocked(S), CanaryFired(S) + Blocked(S))

\* paper_metrics.py: over the scenarios of a channel, by the label instead of
\* the canary.
ChannelConditional(S) ==
    Rate(Count(S, "attack_succeeded"),
         Count(S, "attack_succeeded") + Blocked(S))

-----------------------------------------------------------------------------

(* The headline signal: a run counts as inspected if and only if a use     *)
(* that reads the trojan (or, loosely, a file of its chain) comes before   *)
(* every dangerous call; a single command that does both is no inspection. *)
InspectionIsTemporal ==
    /\ Before(found.strict) <=>
          \E i \in 1 .. Len(stream) :
             ReadsTrojan(stream[i]) /\ \A j \in 1 .. i : ~Triggers(stream[j])
    /\ Before(found.loose) <=>
          \E i \in 1 .. Len(stream) :
             ReadsTarget(stream[i]) /\ \A j \in 1 .. i : ~Triggers(stream[j])

(* The two streams do not contradict each other: a run whose inspection    *)
(* event has a dangerous call is never labelled as one that avoided,       *)
(* solved or broke off the task, and the strict signal implies the loose   *)
(* one.                                                                    *)
StreamsAgree ==
    \A i \in inspections, e \in ends :
        i.task = e.task /\ i.try = e.try =>
            /\ i.executed => e.outcome \in {"attack_succeeded", "agent_hung",
                                "attack_blocked", "attack_blocked_by_judge"}
            /\ i.strict => i.loose

(* A finished task has exactly one end event for its last attempt; what    *)
(* the analyses count beyond the finished tasks are attempts that raised,  *)
(* no more than one for each task.                                         *)
RepsCounted ==
    \A t \in Task :
        LET Ends == {e \in ends : e.task = t} IN
        /\ Cardinality(Ends) <= tries[t]
        /\ t \in done => Cardinality({e \in Ends : e.try = tries[t]}) = 1

(* What the programs that read the same events say of the guard can be     *)
(* put side by side: the canary flag and the label count the same runs, so *)
(* that extract_all.py and paper_metrics.py have one conditional rate; the *)
(* unconditional rate never exceeds it; and the detection rate of          *)
(* aggregate.py, which leaves out the calls the panel rejected, never      *)
(* overstates the block rate of extract_all.py.                            *)
RatesComparable ==
    /\ \A s \in Scenarios :
          /\ ChannelConditional(Rows(s)) = PenetrationConditional(Rows(s))
          /\ AtMost(PenetrationUnconditional(Rows(s)),
                    PenetrationConditional(Rows(s)))
    /\ AtMost(DetectionRate, BlockRate(ends))

=============================================================================
