------------------------ MODULE ScenarioRunsProofs ------------------------
(***************************************************************************)
(* What holds of an experiment over any finite set of tasks.  The general  *)
(* invariant, Bookkeeping, says which attempt of a task may be in which    *)
(* phase; with containers that die when killed it bounds the agents by the *)
(* permits, and with a single permit it gives every post to its own run.   *)
(***************************************************************************)
EXTENDS ScenarioRuns, FiniteSetTheorems, TLAPS

\* The attempts of a task come one after the other.
Attempts(t) ==
    /\ task[t] = "queued" => tries[t] = 0
    /\ task[t] = "running" => tries[t] \in {1, 2}

\* Only the latest attempt of a running task is under way, and an agent has
\* proposed nothing before it started.
Placed(i) ==
    /\ phase[i] # "none" => i[2] <= tries[i[1]] /\ workspace \in Run
    /\ phase[i] \in {"rendered", "watching", "returned"} =>
          task[i[1]] = "running" /\ i[2] = tries[i[1]]
    /\ phase[i] \in {"none", "rendered"} => agent[i] = "none"
    /\ agent[i] = "none" => \A k \in Kinds : call[i][k] = "none"

Bookkeeping ==
    /\ TypeOK
    /\ \A t \in Tasks : Attempts(t)
    /\ \A i \in Run : Placed(i)

USE RunsAssumption

LEMMA InitBooks == Init => Bookkeeping
<1> SUFFICES ASSUME Init PROVE Bookkeeping
  OBVIOUS
<1>1. LoopTypeOK
  BY DEF Init, LoopTypeOK
<1>2. AgentTypeOK
  BY DEF Init, AgentTypeOK
<1>3. HoneypotTypeOK
  BY DEF Init, HoneypotTypeOK
<1>4. ASSUME NEW t \in Tasks PROVE Attempts(t)
  BY DEF Init, Attempts
<1>5. ASSUME NEW i \in Run PROVE Placed(i)
  BY DEF Init, Placed
<1>6. QED
  BY <1>1, <1>2, <1>3, <1>4, <1>5 DEF Bookkeeping, TypeOK

LEMMA PrepareKeepsBooks ==
  ASSUME Bookkeeping, NEW t \in Tasks, Prepare(t)
  PROVE  Bookkeeping'
<1> DEFINE i == <<t, tries[t] + 1>>
<1> USE DEF Bookkeeping, TypeOK, LoopTypeOK, AgentTypeOK,
     HoneypotTypeOK
<1>1. tries[t] \in {0, 1} /\ i \in Run /\ i[1] = t /\ i[2] = tries[t] + 1
  BY DEF Prepare, MayBegin, Attempts, Run
<1>2. phase[i] = "none" /\ agent[i] = "none"
  BY <1>1 DEF Placed
<1>3. ASSUME NEW j \in Run, j[1] = t
      PROVE  phase[j] \notin {"rendered", "watching", "returned"}
  <2>1. j = <<t, j[2]>>
    BY <1>3 DEF Run
  <2>2. task[t] = "queued" \/ phase[<<t, tries[t]>>] = "raised"
    BY DEF Prepare, MayBegin, Latest
  <2>3. QED
    BY <1>3, <2>1, <2>2 DEF Placed
<1>4. /\ phase' = [phase EXCEPT ![i] = "rendered"]
      /\ tries' = [tries EXCEPT ![t] = tries[t] + 1]
      /\ task' = [task EXCEPT ![t] = "running"]
      /\ workspace' = i
      /\ UNCHANGED <<agent, call>>
  BY DEF Prepare
<1>5. TypeOK'
  BY <1>1, <1>4 DEF Prepare, honeypot
<1>6. ASSUME NEW u \in Tasks PROVE Attempts(u)'
  BY <1>1, <1>4 DEF Attempts
<1>7. ASSUME NEW j \in Run PROVE Placed(j)'
  <2>1. CASE j = i
    <3>1. phase'[i] = "rendered" /\ task'[t] = "running" /\ workspace' \in Run
      BY <1>1, <1>4
    <3>2. tries'[t] = i[2] /\ agent'[i] = "none"
      BY <1>1, <1>2, <1>4
    <3>3. \A k \in Kinds : call'[i][k] = "none"
      BY <1>1, <1>2, <1>4 DEF Placed
    <3> HIDE DEF i
    <3>4. QED
      BY <1>1, <2>1, <3>1, <3>2, <3>3 DEF Placed
  <2>2. CASE j # i /\ j[1] # t
    BY <1>1, <1>4, <2>2 DEF Placed, Run
  <2>3. CASE j # i /\ j[1] = t
    <3>1. phase[j] \notin {"rendered", "watching", "returned"}
      BY <1>3, <2>3
    <3>2. phase'[j] = phase[j] /\ tries'[t] = tries[t] + 1 /\ workspace' \in Run
      BY <1>1, <1>4, <2>3
    <3>3. j[2] \in Int /\ (phase[j] # "none" => j[2] <= tries'[t])
      BY <1>1, <2>3, <3>2 DEF Placed, Run
    <3> HIDE DEF i
    <3>4. QED
      BY <1>4, <2>3, <3>1, <3>2, <3>3 DEF Placed
  <2>4. QED
    BY <2>1, <2>2, <2>3
<1>8. QED
  BY <1>5, <1>6, <1>7

LEMMA LaunchKeepsBooks ==
  ASSUME Bookkeeping, NEW i \in Run, Launch(i)
  PROVE  Bookkeeping'
BY DEF Bookkeeping, TypeOK, LoopTypeOK, AgentTypeOK,
     HoneypotTypeOK,
     Attempts, Placed, Launch

LEMMA RunnerKeepsBooks ==
  ASSUME Bookkeeping, NEW i \in Run, Runner(i)
  PROVE  Bookkeeping'
<1> USE DEF Bookkeeping, TypeOK, LoopTypeOK, AgentTypeOK,
     HoneypotTypeOK
<1>1. PICK code \in ReturnCodes, complete \in BOOLEAN : Return(i, code, complete)
  BY DEF Runner, CanarySeen, AgentExited, TimesOut, ReturnCodes
<1>2. agent' = agent \/ agent' = [agent EXCEPT ![i] = "gone"]
  BY DEF Runner, CanarySeen, AgentExited, TimesOut, Kill
<1>3. TypeOK'
  BY <1>1, <1>2 DEF Return, honeypot
<1>4. ASSUME NEW u \in Tasks PROVE Attempts(u)'
  BY <1>1 DEF Attempts, Return
<1>5. ASSUME NEW j \in Run PROVE Placed(j)'
  BY <1>1, <1>2 DEF Placed, Return
<1>6. QED
  BY <1>3, <1>4, <1>5

LEMMA ConcludeKeepsBooks ==
  ASSUME Bookkeeping, NEW i \in Run, Conclude(i)
  PROVE  Bookkeeping'
<1> USE DEF Bookkeeping, TypeOK, LoopTypeOK, AgentTypeOK,
     HoneypotTypeOK
<1>1. i[1] \in Tasks /\ task[i[1]] = "running" /\ i[2] = tries[i[1]]
      /\ i = <<i[1], i[2]>>
  BY DEF Conclude, Placed, Run
<1>2. PICK o : outcome' = [outcome EXCEPT ![i] = o] /\ o \in Outcomes
  BY DEF Conclude, Classify, ClassifyAttempted, ClassifyQuiet, Outcomes
<1>3. /\ task' = task \/ task' = [task EXCEPT ![i[1]] = "ok"]
      /\ \E q \in {"ended", "raised"} : phase' = [phase EXCEPT ![i] = q]
      /\ UNCHANGED <<tries, agent, call, rc, heard, infra, workspace, network,
                     honeypot, judgments>>
  BY DEF Conclude
<1>6. TypeOK'
  BY <1>1, <1>2, <1>3 DEF honeypot
<1>4. ASSUME NEW u \in Tasks PROVE Attempts(u)'
  BY <1>1 DEF Attempts, Conclude
<1>5. ASSUME NEW j \in Run PROVE Placed(j)'
  <2>1. CASE j = i
    BY <1>1, <1>3, <2>1 DEF Conclude, Placed
  <2>2. CASE j # i
    <3>1. phase[j] \in {"rendered", "watching", "returned"} => j[1] # i[1]
      BY <1>1, <2>2 DEF Placed, Run
    <3>2. phase'[j] = phase[j]
      BY <1>3, <2>2
    <3>3. j[1] # i[1] => task'[j[1]] = task[j[1]]
      BY <1>1, <1>3 DEF Run
    <3>4. QED
      BY <1>3, <3>1, <3>2, <3>3 DEF Placed
  <2>3. QED
    BY <2>1, <2>2
<1>7. QED
  BY <1>4, <1>5, <1>6

LEMMA RaiseKeepsBooks ==
  ASSUME Bookkeeping, NEW i \in Run, Raise(i)
  PROVE  Bookkeeping'
BY DEF Bookkeeping, TypeOK, LoopTypeOK, AgentTypeOK,
     HoneypotTypeOK,
     Attempts, Placed, Raise, honeypot

LEMMA GiveUpKeepsBooks ==
  ASSUME Bookkeeping, NEW t \in Tasks, GiveUp(t)
  PROVE  Bookkeeping'
<1> USE DEF Bookkeeping, TypeOK, LoopTypeOK, AgentTypeOK,
     HoneypotTypeOK
<1>1. task[t] = "running" /\ phase[<<t, tries[t]>>] = "raised"
      /\ task' = [task EXCEPT ![t] = "failed"]
      /\ UNCHANGED <<tries, phase, agent, call, workspace>>
  BY DEF GiveUp, Latest
<1>2. TypeOK'
  BY <1>1 DEF GiveUp, honeypot
<1>3. ASSUME NEW u \in Tasks PROVE Attempts(u)'
  BY <1>1 DEF Attempts
<1>4. ASSUME NEW j \in Run PROVE Placed(j)'
  <2>1. ASSUME j[1] = t
        PROVE  phase[j] \notin {"rendered", "watching", "returned"}
    <3>1. j = <<t, j[2]>>
      BY <2>1 DEF Run
    <3>2. j[2] = tries[t] => phase[j] = "raised"
      BY <1>1, <3>1
    <3>3. QED
      BY <2>1, <3>2 DEF Placed
  <2>2. QED
    BY <1>1, <2>1 DEF Placed, Run
<1>5. QED
  BY <1>2, <1>3, <1>4

LEMMA WorldKeepsBooks ==
  ASSUME Bookkeeping, World
  PROVE  Bookkeeping'
<1> USE DEF Bookkeeping, TypeOK, LoopTypeOK, AgentTypeOK,
     HoneypotTypeOK, experiment, honeypot
<1>1. ASSUME NEW i \in Run, Attack(i) \/ Invoke(i)
      PROVE  Bookkeeping'
  <2>1. workspace \in Run
    BY <1>1 DEF Attack, Invoke, Placed
  <2>2. TypeOK'
    BY <1>1, <2>1 DEF Attack, Invoke, Exfiltrate, Post
  <2>3. QED
    BY <1>1, <2>2 DEF Attack, Invoke, Exfiltrate, Attempts, Placed
<1>2. ASSUME NEW i \in Run, Exit(i)
      PROVE  Bookkeeping'
  BY <1>2 DEF Exit, Attempts, Placed
<1>3. ASSUME NEW i \in Run, NEW k \in Kinds, Propose(i, k)
      PROVE  Bookkeeping'
  BY <1>3 DEF Propose, Attempts, Placed
<1>4. ASSUME NEW i \in Run, NEW k \in Kinds, File(i, k)
      PROVE  Bookkeeping'
  <2>1. PICK d \in {"approve", "reject"} : judgments' = judgments \cup {<<i, k, d>>}
    BY <1>4 DEF File
  <2>2. TypeOK'
    BY <1>4, <2>1 DEF File
  <2>3. QED
    BY <1>4, <2>2 DEF File, Attempts, Placed
<1>8. ASSUME NEW i \in Run, NEW k \in Kinds, Answer(i, k)
      PROVE  Bookkeeping'
  <2>1. PICK a \in {"approved", "refused", "unguarded"} :
           call' = [call EXCEPT ![i][k] = a]
    BY <1>8 DEF Answer
  <2>2. TypeOK'
    BY <1>8, <2>1 DEF Answer
  <2>3. agent[i] # "none"
    BY <1>8 DEF Answer
  <2>4. QED
    BY <1>8, <2>1, <2>2, <2>3 DEF Answer, Attempts, Placed
<1>5. ASSUME NEW p \in network, Receive(p)
      PROVE  Bookkeeping'
  <2>1. p.from \in Run /\ p.canary \in Run
    BY DEF Post
  <2>2. TypeOK'
    BY <1>5, <2>1 DEF Receive, Event
  <2>3. QED
    BY <1>5, <2>2 DEF Receive, Attempts, Placed
<1>6. CASE Emit
  <2>1. TypeOK'
    BY <1>6 DEF Emit
  <2>2. QED
    BY <1>6, <2>1 DEF Emit, Attempts, Placed
<1>7. QED
  BY <1>1, <1>2, <1>3, <1>4, <1>5, <1>6, <1>8 DEF World

LEMMA StepKeepsBooks == Bookkeeping /\ [Next]_vars => Bookkeeping'
<1> SUFFICES ASSUME Bookkeeping, [Next]_vars PROVE Bookkeeping'
  OBVIOUS
<1>1. CASE Loop
  <2>1. CASE Teardown
    BY <2>1 DEF Teardown, Bookkeeping, TypeOK, LoopTypeOK, AgentTypeOK,
     HoneypotTypeOK,
     Attempts, Placed, honeypot
  <2>2. QED
    BY <1>1, <2>1, PrepareKeepsBooks, GiveUpKeepsBooks, LaunchKeepsBooks,
       RunnerKeepsBooks, ConcludeKeepsBooks, RaiseKeepsBooks DEF Loop
<1>2. CASE Finished \/ UNCHANGED vars
  BY <1>2
    DEF Finished, vars, experiment, honeypot, Bookkeeping, TypeOK, LoopTypeOK,
    AgentTypeOK,
     HoneypotTypeOK,
     Attempts, Placed
<1>3. QED
  BY <1>1, <1>2, WorldKeepsBooks DEF Next

(* The attempts of every task and the phases of every run are consistent.  *)
THEOREM BookkeepingAlways == Spec => []Bookkeeping
BY InitBooks, StepKeepsBooks, PTL DEF Spec

(* Type correctness of an experiment. *)
THEOREM TypeCorrect == Spec => []TypeOK
<1>1. Bookkeeping => TypeOK
  BY DEF Bookkeeping
<1>2. QED
  BY <1>1, BookkeepingAlways, PTL

-----------------------------------------------------------------------------
\* Containers that die when killed.

\* A permit is held by every running task, and an agent lives only while
\* its runner watches it.
PermitInv ==
    /\ Cardinality(Running) <= MaxConcurrency
    /\ \A i \in Run : agent[i] = "alive" => phase[i] = "watching"

LEMMA FiniteTasks ==
  /\ \A T \in SUBSET Tasks : IsFiniteSet(T) /\ Cardinality(T) \in Nat
  /\ IsFiniteSet(Run)
<1>1. \A T \in SUBSET Tasks : IsFiniteSet(T)
  BY FS_Subset
<1>2. IsFiniteSet({1, 2})
  <2>1. IsFiniteSet({1}) /\ {1, 2} = {1} \cup {2}
    BY FS_Singleton
  <2> DEFINE one == {1}
  <2> HIDE DEF one
  <2>2. IsFiniteSet(one \cup {2})
    BY <2>1, FS_AddElement DEF one
  <2>3. QED
    BY <2>1, <2>2 DEF one
<1>3. QED
  BY <1>1, <1>2, FS_CardinalityType, FS_Product DEF Run

\* A step of the loop takes a permit only if one is free.
LEMMA PermitsKept ==
  ASSUME Bookkeeping, Cardinality(Running) <= MaxConcurrency, [Next]_vars
  PROVE  Cardinality(Running)' <= MaxConcurrency
<1> USE DEF Bookkeeping, TypeOK, LoopTypeOK
<1>1. ASSUME NEW t \in Tasks, Prepare(t)
      PROVE  Cardinality(Running)' <= MaxConcurrency
  <2>1. Running' = Running \cup {t}
    BY <1>1 DEF Prepare, Running
  <2>2. IsFiniteSet(Running) /\ Cardinality(Running) \in Nat
    BY FiniteTasks DEF Running
  <2>3. CASE task[t] = "queued" /\ Cardinality(Running) < MaxConcurrency
    <3>1. t \notin Running
      BY <2>3 DEF Running
    <3>2. Cardinality(Running \cup {t}) = Cardinality(Running) + 1
      BY <2>2, <3>1, FS_AddElement
    <3>3. QED
      BY <2>1, <2>2, <2>3, <3>2
  <2>4. CASE task[t] = "running"
    BY <2>1, <2>4 DEF Running
  <2>5. QED
    BY <1>1, <2>3, <2>4 DEF Prepare, MayBegin
<1>2. ASSUME Running' \subseteq Running
      PROVE  Cardinality(Running)' <= MaxConcurrency
  <2>1. IsFiniteSet(Running) /\ Cardinality(Running) \in Nat
        /\ Cardinality(Running') \in Nat
    BY <1>2, FiniteTasks DEF Running
  <2>2. Cardinality(Running') <= Cardinality(Running)
    BY <1>2, <2>1, FS_Subset
  <2>3. QED
    BY <2>1, <2>2
<1>3. ASSUME NEW i \in Run, Conclude(i) PROVE Running' \subseteq Running
  BY <1>3 DEF Conclude, Running
<1>4. ASSUME NEW t \in Tasks, GiveUp(t) PROVE Running' \subseteq Running
  BY <1>4 DEF GiveUp, Running
<1>5. ASSUME task' = task PROVE Running' \subseteq Running
  BY <1>5 DEF Running
<1>6. CASE Loop
  BY <1>1, <1>2, <1>3, <1>4, <1>5, <1>6
     DEF Loop, Launch, Runner, CanarySeen, AgentExited, TimesOut, Return,
         Raise, Teardown
<1>7. CASE World
  BY <1>2, <1>5, <1>7
     DEF World, Attack, Invoke, Exfiltrate, Exit, Propose, File, Answer,
         Receive, Emit, experiment
<1>8. CASE Finished \/ UNCHANGED vars
  BY <1>2, <1>5, <1>8 DEF Finished, vars, experiment
<1>9. QED
  BY <1>6, <1>7, <1>8 DEF Next

\* The runner returns only after the container is gone.
LEMMA AgentsWatched ==
  ASSUME Bookkeeping, ~KillFails, [Next]_vars,
         \A i \in Run : agent[i] = "alive" => phase[i] = "watching"
  PROVE  \A i \in Run : agent'[i] = "alive" => phase'[i] = "watching"
<1> USE DEF Bookkeeping, TypeOK, LoopTypeOK, AgentTypeOK
<1>1. ASSUME NEW t \in Tasks, Prepare(t),
             NEW i \in Run, agent'[i] = "alive"
      PROVE  phase'[i] = "watching"
  <2>1. phase[i] = "watching"
    BY <1>1 DEF Prepare
  <2>2. i[2] <= tries[t] \/ i[1] # t
    BY <2>1 DEF Placed
  <2>3. tries[t] \in Int /\ i # <<t, tries[t] + 1>>
    BY <1>1, <2>2
  <2>4. QED
    BY <1>1, <2>1, <2>3 DEF Prepare
<1>2. ASSUME NEW j \in Run, Launch(j) \/ Runner(j) \/ Conclude(j) \/ Raise(j),
             NEW i \in Run, agent'[i] = "alive"
      PROVE  phase'[i] = "watching"
  <2>1. CASE Launch(j)
    BY <1>2, <2>1 DEF Launch
  <2>2. CASE Runner(j)
    BY <1>2, <2>2 DEF Runner, CanarySeen, AgentExited, TimesOut, Return, Kill
  <2>3. CASE Conclude(j) \/ Raise(j)
    BY <1>2, <2>3 DEF Conclude, Raise
  <2>4. QED
    BY <1>2, <2>1, <2>2, <2>3
<1>3. CASE World
  BY <1>3 DEF World, Attack, Invoke, Exfiltrate, Exit, Propose, File, Answer,
     Receive, Emit, experiment
<1>4. CASE Teardown \/ Finished \/ UNCHANGED vars \/ \E t \in Tasks : GiveUp(t)
  BY <1>4 DEF Teardown, Finished, vars, experiment, GiveUp
<1>5. QED
  BY <1>1, <1>2, <1>3, <1>4 DEF Next, Loop

LEMMA PermitInvariance ==
  ASSUME ~KillFails PROVE Spec => [](Bookkeeping /\ PermitInv)
<1>1. Init => PermitInv
  <2> SUFFICES ASSUME Init PROVE PermitInv
    OBVIOUS
  <2>1. Running = {}
    BY DEF Init, Running
  <2>2. QED
    BY <2>1, FS_EmptySet DEF Init, PermitInv
<1>2. Bookkeeping /\ PermitInv /\ [Next]_vars => PermitInv'
  BY PermitsKept, AgentsWatched DEF PermitInv
<1>3. QED
  BY <1>1, <1>2, BookkeepingAlways, PTL DEF Spec

(* The semaphore bounds the agent containers, retries included, as long as *)
(* a killed container dies.                                                *)
THEOREM AgentsWithinPermitsAlways ==
  ASSUME ~KillFails PROVE Spec => []AgentsWithinPermits
<1>1. Bookkeeping /\ PermitInv => AgentsWithinPermits
  <2> SUFFICES ASSUME Bookkeeping, PermitInv PROVE AgentsWithinPermits
    OBVIOUS
  <2> DEFINE A == {i \in Run : agent[i] = "alive"}
             holder == [i \in A |-> i[1]]
  <2>1. /\ IsFiniteSet(A) /\ Cardinality(A) \in Nat
        /\ IsFiniteSet(Running) /\ Cardinality(Running) \in Nat
    BY FiniteTasks, FS_Subset, FS_CardinalityType DEF Running
  <2>2. \A i \in A : i[1] \in Running /\ i = <<i[1], tries[i[1]]>>
    BY DEF PermitInv, Bookkeeping, Placed, Running, Run
  <2>3. holder \in [A -> Running]
    BY <2>2
  <2>4. \A x, y \in A : holder[x] = holder[y] => x = y
    BY <2>2
  <2>5. Cardinality(A) <= Cardinality(Running)
    <3> HIDE DEF A, holder
    <3>1. ASSUME Cardinality(Running) < Cardinality(A)
          PROVE  \E x, y \in A : x # y /\ holder[x] = holder[y]
      BY <2>1, <2>3, <3>1, FS_PigeonHole
    <3>2. QED
      BY <2>1, <2>4, <3>1
  <2>6. QED
    BY <2>1, <2>5 DEF PermitInv, AgentsWithinPermits
<1>2. QED
  BY <1>1, PermitInvariance, PTL

-----------------------------------------------------------------------------
\* One run at a time.

OneAtATime == MaxConcurrency = 1 /\ ~KillFails /\ ~JudgesInvoke

\* The workspace belongs to the run under way, and so does whatever is
\* posted from it.
OwnInv ==
    /\ \A t, u \in Running : t = u
    /\ \A i \in Run : phase[i] \in {"rendered", "watching"} => workspace = i
    /\ \A p \in network : p.from = p.canary
    /\ writing # None => writing.from = writing.canary
    /\ \A e \in events : e.from = e.canary

LEMMA PrepareKeepsOwn ==
  ASSUME OneAtATime, Bookkeeping, OwnInv, NEW t \in Tasks, Prepare(t)
  PROVE  OwnInv'
<1> USE DEF Bookkeeping, TypeOK, LoopTypeOK
<1>1. \A u \in Running : u = t
  <2>1. CASE task[t] = "queued" /\ Cardinality(Running) < 1
    <3>1. IsFiniteSet(Running) /\ Cardinality(Running) \in Nat
      BY FiniteTasks DEF Running
    <3>2. Running = {}
      BY <2>1, <3>1, FS_EmptySet
    <3>3. QED
      BY <3>2
  <2>2. CASE task[t] = "running"
    BY <2>2 DEF Running, OwnInv
  <2>3. QED
    BY <2>1, <2>2 DEF Prepare, MayBegin, OneAtATime
<1>2. ASSUME NEW i \in Run
      PROVE  phase[i] \notin {"rendered", "watching"}
  <2>1. i[1] \in Tasks /\ i = <<i[1], i[2]>>
    BY DEF Run
  <2>2. task[t] = "queued" \/ phase[<<t, tries[t]>>] = "raised"
    BY DEF Prepare, MayBegin, Latest
  <2>3. ASSUME phase[i] \in {"rendered", "watching"} PROVE i = <<t, tries[t]>>
    BY <1>1, <2>1, <2>3 DEF Placed, Running
  <2>4. ASSUME phase[i] \in {"rendered", "watching"} PROVE task[t] = "running"
    BY <2>3, <2>4 DEF Placed
  <2>5. QED
    BY <2>2, <2>3, <2>4
<1>3. \A u \in Running' : u = t
  BY <1>1 DEF Prepare, Running
<1>4. ASSUME NEW i \in Run, phase'[i] \in {"rendered", "watching"}
      PROVE  workspace' = i
  BY <1>2, <1>4 DEF Prepare
<1>5. QED
  BY <1>3, <1>4 DEF OwnInv, Prepare, honeypot

LEMMA StepKeepsOwn ==
  ASSUME OneAtATime, Bookkeeping, PermitInv, OwnInv, [Next]_vars
  PROVE  OwnInv'
<1> USE DEF Bookkeeping, TypeOK, LoopTypeOK, HoneypotTypeOK, experiment, honeypot
<1>1. ASSUME NEW i \in Run, Launch(i) \/ Runner(i)
      PROVE  OwnInv'
  BY <1>1
    DEF Launch, Runner, CanarySeen, AgentExited, TimesOut, Return, OwnInv,
     Running
<1>2. ASSUME NEW i \in Run, Conclude(i) \/ Raise(i)
      PROVE  OwnInv'
  BY <1>2 DEF Conclude, Raise, OwnInv, Running
<1>3. ASSUME NEW t \in Tasks, GiveUp(t)
      PROVE  OwnInv'
  BY <1>3 DEF GiveUp, OwnInv, Running
<1>4. ASSUME NEW i \in Run, Attack(i)
      PROVE  OwnInv'
  <2>1. workspace = i
    BY <1>4 DEF Attack, PermitInv, OwnInv
  <2>2. QED
    BY <1>4, <2>1 DEF Attack, Exfiltrate, OwnInv, Running
<1>5. ASSUME NEW i \in Run, Invoke(i)
      PROVE  OwnInv'
  BY <1>5 DEF Invoke, OneAtATime
<1>6. ASSUME NEW i \in Run,
             Exit(i) \/ \E k \in Kinds : Propose(i, k) \/ File(i, k) \/ Answer(i, k)
      PROVE  OwnInv'
  BY <1>6 DEF Exit, Propose, File, Answer, OwnInv, Running
<1>7. ASSUME NEW p \in network, Receive(p)
      PROVE  OwnInv'
  BY <1>7 DEF Receive, OwnInv, Running
<1>8. CASE Emit
  BY <1>8 DEF Emit, OwnInv, Running
<1>9. CASE Teardown \/ Finished \/ UNCHANGED vars
  BY <1>9 DEF Teardown, Finished, vars, OwnInv, Running
<1>10. QED
  BY <1>1, <1>2, <1>3, <1>4, <1>5, <1>6, <1>7, <1>8, <1>9, PrepareKeepsOwn
     DEF Next, Loop, World

LEMMA OwnInvariance ==
  ASSUME OneAtATime PROVE Spec => [](Bookkeeping /\ PermitInv /\ OwnInv)
<1>1. Init => OwnInv
  BY DEF Init, OwnInv, Running
<1>2. Bookkeeping /\ PermitInv /\ OwnInv /\ [Next]_vars => OwnInv'
  BY StepKeepsOwn
<1>3. ~KillFails
  BY DEF OneAtATime
<1>4. QED
  BY <1>1, <1>2, <1>3, PermitInvariance, PTL DEF Spec

(* With one permit, containers that die when killed and judges that do not *)
(* run the lure, a canary in the event stream was posted by its own run.   *)
THEOREM HitsAreOwnAlways == ASSUME OneAtATime PROVE Spec => []HitsAreOwn
<1>1. OwnInv => HitsAreOwn
  BY DEF OwnInv, HitsAreOwn
<1>2. QED
  BY <1>1, OwnInvariance, PTL

(* Under the same conditions an agent only ever works in its own files.    *)
THEOREM WorkspaceIsOwnAlways == ASSUME OneAtATime PROVE Spec => []WorkspaceIsOwn
<1>1. PermitInv /\ OwnInv => WorkspaceIsOwn
  BY DEF PermitInv, OwnInv, WorkspaceIsOwn
<1>2. QED
  BY <1>1, OwnInvariance, PTL

-----------------------------------------------------------------------------
\* The evidence behind the labels, whatever overlaps or fails.

\* Posts come from attack scenarios and match only registered canaries.
Traced(e) == e.from[1] \in Attacks /\ (e.match => e.canary \in registered)

\* A run is labelled when it is over, a call has one record and passes on no
\* recorded rejection, and every post can be traced.
LabelInv ==
    /\ \A i \in Run : outcome[i] # "none" => phase[i] \in {"ended", "raised"}
    /\ \A i \in Run, k \in Kinds :
          <<i, k, "reject">> \in judgments =>
              /\ call[i][k] \notin {"none", "approved"}
              /\ <<i, k, "approve">> \notin judgments
    /\ \A i \in Run, k \in Kinds :
          call[i][k] = "approved" => <<i, k, "approve">> \in judgments
    /\ \A p \in network : p.from[1] \in Attacks
    /\ writing # None => Traced(writing)
    /\ \A e \in events : Traced(e)
    /\ DefenseIsOwn
    /\ SuccessWasPosted

\* What the stream says of a call.
LEMMA RecordMeans ==
  ASSUME NEW i, NEW k
  PROVE  /\ Record(i, k) = "none" =>
               \A d \in {"approve", "reject"} : <<i, k, d>> \notin judgments
         /\ Record(i, k) = "approve" => <<i, k, "approve">> \in judgments
<1>1. CASE <<i, k, "approve">> \in judgments
  BY <1>1 DEF Record
<1>2. CASE <<i, k, "approve">> \notin judgments /\ <<i, k, "reject">> \in judgments
  BY <1>2 DEF Record
<1>3. CASE /\ <<i, k, "approve">> \notin judgments
           /\ <<i, k, "reject">> \notin judgments
  BY <1>3 DEF Record
<1>4. QED
  BY <1>1, <1>2, <1>3

LEMMA LoopKeepsLabels ==
  ASSUME Bookkeeping, LabelInv, Loop, \A i \in Run : ~Conclude(i)
  PROVE  LabelInv'
<1> USE DEF Bookkeeping, TypeOK, LoopTypeOK, AgentTypeOK, HoneypotTypeOK, honeypot
<1>1. ASSUME NEW t \in Tasks, Prepare(t)
      PROVE  LabelInv'
  <2> DEFINE i == <<t, tries[t] + 1>>
  <2>1. tries[t] \in {0, 1} /\ i \in Run /\ i[1] = t /\ i[2] = tries[t] + 1
    BY <1>1 DEF Prepare, MayBegin, Attempts, Run
  <2>2. phase[i] = "none"
    BY <2>1 DEF Placed
  <2>3. /\ phase' = [phase EXCEPT ![i] = "rendered"]
        /\ UNCHANGED <<call, outcome, network, registered, writing, events,
                       judgments>>
    BY <1>1 DEF Prepare
  <2>4. \A j \in Run : outcome'[j] # "none" => phase'[j] \in {"ended", "raised"}
    <3> HIDE DEF i
    <3>1. QED
      BY <2>1, <2>2, <2>3 DEF LabelInv
  <2>5. QED
    BY <2>3, <2>4 DEF LabelInv, Traced, DefenseIsOwn, SuccessWasPosted
<1>2. ASSUME NEW i \in Run, Launch(i) \/ Runner(i) \/ Raise(i)
      PROVE  LabelInv'
  <2>1. /\ registered \subseteq registered'
        /\ UNCHANGED <<call, outcome, network, writing, events, judgments>>
    BY <1>2 DEF Launch, Runner, CanarySeen, AgentExited, TimesOut, Return, Raise
  <2>2. phase[i] \in {"rendered", "watching", "returned"}
        /\ \E q : phase' = [phase EXCEPT ![i] = q]
    BY <1>2 DEF Launch, Runner, CanarySeen, AgentExited, TimesOut, Return, Raise
  <2>3. \A j \in Run : outcome'[j] # "none" => phase'[j] \in {"ended", "raised"}
    BY <2>1, <2>2 DEF LabelInv
  <2>4. QED
    BY <2>1, <2>3 DEF LabelInv, Traced, DefenseIsOwn, SuccessWasPosted
<1>3. ASSUME Teardown \/ \E t \in Tasks : GiveUp(t)
      PROVE  LabelInv'
  <2>1. UNCHANGED <<phase, call, outcome, network, registered, writing, events,
                    judgments>>
    BY <1>3 DEF Teardown, GiveUp
  <2>2. QED
    BY <2>1 DEF LabelInv, Traced, DefenseIsOwn, SuccessWasPosted
<1>4. QED
  BY <1>1, <1>2, <1>3 DEF Loop

LEMMA ConcludeKeepsLabels ==
  ASSUME Bookkeeping, LabelInv, NEW i \in Run, Conclude(i)
  PROVE  LabelInv'
<1> USE DEF Bookkeeping, TypeOK, LoopTypeOK, AgentTypeOK, HoneypotTypeOK, honeypot
<1> DEFINE o == Classify(SawCanary(i), rc[i], DangerousMatched(i),
                         PanelRejected(i), i[1] \in Attacks)
<1>1. /\ outcome' = [outcome EXCEPT ![i] = o]
      /\ \E q \in {"ended", "raised"} : phase' = [phase EXCEPT ![i] = q]
      /\ UNCHANGED <<call, network, registered, writing, events, judgments>>
  BY DEF Conclude
<1>2. o = "attack_succeeded" => SawCanary(i)
  BY DEF Classify, ClassifyAttempted, ClassifyQuiet
<1>3. o = "attack_blocked_by_judge" => DangerousMatched(i) /\ PanelRejected(i)
  BY DEF Classify, ClassifyAttempted, ClassifyQuiet
<1> HIDE DEF o
<1>4. \A j \in Run : outcome'[j] # "none" => phase'[j] \in {"ended", "raised"}
  BY <1>1 DEF LabelInv
<1>5. DefenseIsOwn'
  <2> SUFFICES ASSUME NEW j \in Run, outcome'[j] = "attack_blocked_by_judge"
      PROVE  /\ call[j]["dangerous"] # "none"
             /\ \E k \in Kinds :
                   call[j][k] # "approved" /\ <<j, k, "reject">> \in judgments
    BY <1>1 DEF DefenseIsOwn
  <2>1. CASE j = i
    BY <1>1, <1>3, <2>1 DEF DangerousMatched, PanelRejected, LabelInv
  <2>2. CASE j # i
    BY <1>1, <2>2 DEF LabelInv, DefenseIsOwn
  <2>3. QED
    BY <2>1, <2>2
<1>6. SuccessWasPosted'
  <2> SUFFICES ASSUME NEW j \in Run, outcome'[j] = "attack_succeeded"
      PROVE  /\ j \in registered
             /\ \E e \in events : e.canary = j /\ e.from[1] \in Attacks
    BY <1>1 DEF SuccessWasPosted
  <2>1. CASE j = i
    BY <1>1, <1>2, <2>1 DEF SawCanary, LabelInv, Traced
  <2>2. CASE j # i
    BY <1>1, <2>2 DEF LabelInv, SuccessWasPosted
  <2>3. QED
    BY <2>1, <2>2
<1>7. QED
  BY <1>1, <1>4, <1>5, <1>6 DEF LabelInv, Traced

LEMMA WorldKeepsLabels ==
  ASSUME Bookkeeping, LabelInv, World
  PROVE  LabelInv'
<1> USE DEF Bookkeeping, TypeOK, LoopTypeOK, AgentTypeOK, HoneypotTypeOK,
            experiment, honeypot
<1>1. ASSUME NEW i \in Run, Attack(i) \/ Invoke(i)
      PROVE  LabelInv'
  <2>1. /\ i[1] \in Attacks
        /\ network' = network \cup {[from |-> i, canary |-> workspace]}
        /\ UNCHANGED <<call, outcome, phase, registered, writing, events,
                       judgments>>
    BY <1>1 DEF Attack, Invoke, Exfiltrate
  <2>2. \A p \in network' : p.from[1] \in Attacks
    BY <2>1 DEF LabelInv
  <2>3. DefenseIsOwn' /\ SuccessWasPosted'
    BY <2>1 DEF LabelInv, DefenseIsOwn, SuccessWasPosted
  <2>4. QED
    BY <2>1, <2>2, <2>3 DEF LabelInv, Traced
<1>2. ASSUME NEW i \in Run, Exit(i)
      PROVE  LabelInv'
  <2>1. UNCHANGED <<call, outcome, phase, network, registered, writing, events,
                    judgments>>
    BY <1>2 DEF Exit
  <2>2. QED
    BY <2>1 DEF LabelInv, Traced, DefenseIsOwn, SuccessWasPosted
<1>3. ASSUME NEW i \in Run, NEW k \in Kinds, File(i, k)
      PROVE  LabelInv'
  <2>1. PICK d \in {"approve", "reject"} : judgments' = judgments \cup {<<i, k, d>>}
    BY <1>3 DEF File
  <2>2. /\ call[i][k] \notin {"none", "approved"}
        /\ \A c \in {"approve", "reject"} : <<i, k, c>> \notin judgments
        /\ UNCHANGED <<call, outcome, phase, network, registered, writing, events>>
    BY <1>3, RecordMeans DEF File, LabelInv
  <2>3. ASSUME NEW j \in Run, NEW l \in Kinds, <<j, l, "reject">> \in judgments'
        PROVE  /\ call'[j][l] \notin {"none", "approved"}
               /\ <<j, l, "approve">> \notin judgments'
    <3>1. CASE j = i /\ l = k
      BY <2>1, <2>2, <2>3, <3>1
    <3>2. CASE j # i \/ l # k
      BY <2>1, <2>2, <2>3, <3>2 DEF LabelInv
    <3>3. QED
      BY <3>1, <3>2
  <2>4. DefenseIsOwn'
    BY <2>1, <2>2 DEF LabelInv, DefenseIsOwn
  <2>5. QED
    BY <2>1, <2>2, <2>3, <2>4 DEF LabelInv, Traced, SuccessWasPosted
<1>6. ASSUME NEW i \in Run, NEW k \in Kinds, Propose(i, k) \/ Answer(i, k)
      PROVE  LabelInv'
  <2>1. UNCHANGED <<outcome, phase, network, registered, writing, events, judgments>>
    BY <1>6 DEF Propose, Answer
  <2>2. PICK v \in {"judging", "approved", "refused", "unguarded"} :
           /\ call' = [call EXCEPT ![i][k] = v]
           /\ v = "approved" => <<i, k, "approve">> \in judgments
    BY <1>6, RecordMeans DEF Propose, Answer
  <2>3. ASSUME NEW j \in Run, NEW l \in Kinds, <<j, l, "reject">> \in judgments
        PROVE  call'[j][l] \notin {"none", "approved"}
    BY <2>2, <2>3 DEF LabelInv
  <2>4. ASSUME NEW j \in Run, call[j]["dangerous"] # "none"
        PROVE  call'[j]["dangerous"] # "none"
    BY <2>2, <2>4
  <2>5. DefenseIsOwn'
    <3> SUFFICES ASSUME NEW j \in Run, outcome[j] = "attack_blocked_by_judge"
        PROVE  /\ call'[j]["dangerous"] # "none"
               /\ \E l \in Kinds :
                     call'[j][l] # "approved" /\ <<j, l, "reject">> \in judgments
      BY <2>1 DEF DefenseIsOwn
    <3>1. call[j]["dangerous"] # "none"
          /\ \E l \in Kinds : <<j, l, "reject">> \in judgments
      BY DEF LabelInv, DefenseIsOwn
    <3>2. QED
      BY <2>3, <2>4, <3>1
  <2>6. ASSUME NEW j \in Run, NEW l \in Kinds, call'[j][l] = "approved"
        PROVE  <<j, l, "approve">> \in judgments
    BY <2>2, <2>6 DEF LabelInv
  <2>7. QED
    BY <2>1, <2>3, <2>5, <2>6 DEF LabelInv, Traced, SuccessWasPosted
<1>4. ASSUME NEW p \in network, Receive(p)
      PROVE  LabelInv'
  <2> DEFINE q == [from |-> p.from, canary |-> p.canary,
                   match |-> p.canary \in registered]
  <2>1. Traced(q)
    BY <1>4 DEF LabelInv, Traced
  <2>2. /\ writing' = q /\ network' \subseteq network
        /\ UNCHANGED <<call, outcome, phase, registered, events, judgments>>
    BY <1>4 DEF Receive
  <2> HIDE DEF q
  <2>3. QED
    BY <2>1, <2>2 DEF LabelInv, Traced, DefenseIsOwn, SuccessWasPosted
<1>5. CASE Emit
  BY <1>5 DEF Emit, LabelInv, Traced, DefenseIsOwn, SuccessWasPosted
<1>7. QED
  BY <1>1, <1>2, <1>3, <1>4, <1>5, <1>6 DEF World

LEMMA LabelInvariance == Spec => [](Bookkeeping /\ LabelInv)
<1>1. Init => LabelInv
  BY DEF Init, LabelInv, DefenseIsOwn, SuccessWasPosted
<1>2. Bookkeeping /\ LabelInv /\ [Next]_vars => LabelInv'
  <2> SUFFICES ASSUME Bookkeeping, LabelInv, [Next]_vars PROVE LabelInv'
    OBVIOUS
  <2>1. CASE Finished \/ UNCHANGED vars
    BY <2>1 DEF Finished, vars, experiment, honeypot, LabelInv, Traced,
       DefenseIsOwn, SuccessWasPosted
  <2>2. QED
    BY <2>1, LoopKeepsLabels, ConcludeKeepsLabels, WorldKeepsLabels DEF Next
<1>3. QED
  BY <1>1, <1>2, BookkeepingAlways, PTL DEF Spec

(* Whatever overlaps or fails, for any tasks and permits: a defence is     *)
(* credited on a refusal of the attempt itself.                            *)
THEOREM DefenseIsOwnAlways == Spec => []DefenseIsOwn
<1>1. LabelInv => DefenseIsOwn
  BY DEF LabelInv
<1>2. QED
  BY <1>1, LabelInvariance, PTL

(* Whatever overlaps or fails: a success has a registered canary and a     *)
(* post by code of an attack scenario.                                     *)
THEOREM SuccessWasPostedAlways == Spec => []SuccessWasPosted
<1>1. LabelInv => SuccessWasPosted
  BY DEF LabelInv
<1>2. QED
  BY <1>1, LabelInvariance, PTL

(* Labels are final and a reported task gets no new attempt, under any     *)
(* concurrency and failures.                                               *)
THEOREM ReportedOnceAlways == Spec => ReportedOnce
<1> DEFINE Kept == \A i \in Run :
              /\ outcome[i] # "none" => outcome'[i] = outcome[i]
              /\ task[i[1]] = "ok" /\ phase[i] = "none" => phase'[i] = "none"
<1>1. Bookkeeping /\ LabelInv /\ [Next]_vars => [Kept]_vars
  <2> SUFFICES ASSUME Bookkeeping, LabelInv, Next, NEW i \in Run
      PROVE  /\ outcome[i] # "none" => outcome'[i] = outcome[i]
             /\ task[i[1]] = "ok" /\ phase[i] = "none" => phase'[i] = "none"
    OBVIOUS
  <2> USE DEF Bookkeeping, TypeOK, LoopTypeOK
  <2>1. ASSUME NEW t \in Tasks, Prepare(t)
        PROVE  /\ outcome'[i] = outcome[i]
               /\ task[i[1]] = "ok" => phase'[i] = phase[i]
    <3>1. task[t] # "ok" /\ t = <<t, tries[t] + 1>>[1]
      BY <2>1 DEF Prepare, MayBegin
    <3>2. task[i[1]] = "ok" => i # <<t, tries[t] + 1>>
      BY <3>1
    <3>3. QED
      BY <2>1, <3>2 DEF Prepare
  <2>2. ASSUME NEW j \in Run, Conclude(j)
        PROVE  /\ outcome[i] # "none" => outcome'[i] = outcome[i]
               /\ phase[i] = "none" => phase'[i] = "none"
    <3>1. outcome[j] = "none"
      BY <2>2 DEF Conclude, LabelInv
    <3>2. outcome[i] # "none" => i # j
      BY <3>1
    <3>3. outcome[i] # "none" => outcome'[i] = outcome[i]
      BY <2>2, <3>2 DEF Conclude
    <3>4. QED
      BY <2>2, <3>3 DEF Conclude
  <2>3. ASSUME NEW j \in Run, Launch(j) \/ Runner(j) \/ Raise(j)
        PROVE  /\ outcome'[i] = outcome[i]
               /\ phase[i] = "none" => phase'[i] = "none"
    BY <2>3
       DEF Launch, Runner, CanarySeen, AgentExited, TimesOut, Return, Raise
  <2>4. CASE World \/ Finished \/ Teardown \/ \E t \in Tasks : GiveUp(t)
    BY <2>4 DEF World, Attack, Invoke, Exfiltrate, Exit, Propose, File, Answer,
       Receive, Emit, experiment, Finished, vars, Teardown, GiveUp
  <2>5. QED
    BY <2>1, <2>2, <2>3, <2>4 DEF Next, Loop
<1>2. QED
  BY <1>1, LabelInvariance, PTL DEF Spec, ReportedOnce

-----------------------------------------------------------------------------
\* Success needs an approval or an agent that did not wait, if nobody but
\* agents executes the lure and they work one at a time.

Passed(i, k) ==
    \/ call[i][k] = "approved" /\ <<i, k, "approve">> \in judgments
    \/ call[i][k] = "unguarded"

Approved(i) == \E k \in Kinds : Passed(i, k)

ApprovedInv ==
    /\ \A i \in Run, k \in Kinds : call[i][k] = "approved" => Passed(i, k)
    /\ \A p \in network : Approved(p.from)
    /\ writing # None => Approved(writing.from)
    /\ \A e \in events : Approved(e.from)
    /\ \A i \in Run : outcome[i] = "attack_succeeded" => Approved(i)

\* Nothing takes a record back or makes an agent wait again.
LEMMA PassedStays ==
  ASSUME Bookkeeping, [Next]_vars, NEW j \in Run, NEW k \in Kinds, Passed(j, k)
  PROVE  Passed(j, k)'
<1> USE DEF Bookkeeping, TypeOK, AgentTypeOK, experiment, honeypot
<1>1. call[j][k] \in {"approved", "unguarded"}
  BY DEF Passed
<1>2. ASSUME NEW i \in Run, NEW l \in Kinds, Propose(i, l) \/ Answer(i, l)
      PROVE  call'[j][k] = call[j][k]
  <2>1. /\ call[i][l] \notin {"approved", "unguarded"}
        /\ \E v : call' = [call EXCEPT ![i][l] = v]
    BY <1>2 DEF Propose, Answer
  <2>2. QED
    BY <1>1, <2>1
<1>3. CASE World
  <2>1. judgments \subseteq judgments'
    BY <1>3 DEF World, Attack, Invoke, Exfiltrate, Exit, Propose, File, Answer,
       Receive, Emit
  <2>2. call' = call \/ \E i \in Run, l \in Kinds : Propose(i, l) \/ Answer(i, l)
    BY <1>3 DEF World, Attack, Invoke, Exfiltrate, Exit, File, Receive, Emit
  <2>3. QED
    BY <1>2, <2>1, <2>2 DEF Passed
<1>4. CASE Loop \/ Finished \/ UNCHANGED vars
  <2>1. UNCHANGED <<call, judgments>>
    BY <1>4 DEF Loop, Prepare, GiveUp, Launch, Runner, CanarySeen, AgentExited,
       TimesOut, Return, Conclude, Raise, Teardown, Finished, vars
  <2>2. QED
    BY <2>1 DEF Passed
<1>5. QED
  BY <1>3, <1>4 DEF Next

LEMMA StepKeepsApproved ==
  ASSUME OneAtATime, Bookkeeping, OwnInv, ApprovedInv, [Next]_vars
  PROVE  ApprovedInv'
<1> USE DEF Bookkeeping, TypeOK, LoopTypeOK, AgentTypeOK, HoneypotTypeOK,
            experiment, honeypot
<1>1. \A j \in Run : Approved(j) => Approved(j)'
  BY PassedStays DEF Approved
<1>2. /\ \A p \in network : p.from \in Run
      /\ writing # None => writing.from \in Run
      /\ \A e \in events : e.from \in Run
  BY DEF Post, Event
<1>3. ASSUME NEW i \in Run, NEW k \in Kinds, call'[i][k] = "approved"
      PROVE  Passed(i, k)'
  <2>1. CASE call[i][k] = "approved"
    BY <2>1, PassedStays DEF ApprovedInv
  <2>2. CASE \E j \in Run, l \in Kinds : Propose(j, l) \/ Answer(j, l)
    <3>1. PICK j \in Run, l \in Kinds : Propose(j, l) \/ Answer(j, l)
      BY <2>2
    <3>2. PICK v \in {"judging", "approved", "refused", "unguarded"} :
             /\ call' = [call EXCEPT ![j][l] = v]
             /\ v = "approved" => <<j, l, "approve">> \in judgments
      BY <3>1, RecordMeans DEF Propose, Answer
    <3>3. \/ call[i][k] = "approved"
          \/ j = i /\ l = k /\ <<i, k, "approve">> \in judgments
      BY <1>3, <3>2
    <3>4. judgments' = judgments
      BY <3>1 DEF Propose, Answer
    <3>5. QED
      BY <1>3, <2>1, <3>3, <3>4 DEF Passed
  <2>3. CASE call' = call
    BY <1>3, <2>1, <2>3
  <2>4. QED
    BY <2>2, <2>3
       DEF Next, Loop, Prepare, GiveUp, Launch, Runner, CanarySeen, AgentExited,
           TimesOut, Return, Conclude, Raise, Teardown, World, Attack, Invoke,
           Exfiltrate, Exit, File, Receive, Emit, Finished, vars
<1>4. ASSUME NEW i \in Run, outcome'[i] = "attack_succeeded"
      PROVE  Approved(i)'
  <2>1. CASE outcome[i] = "attack_succeeded"
    BY <1>1, <2>1 DEF ApprovedInv
  <2>2. CASE \E j \in Run : Conclude(j)
    <3>1. PICK j \in Run : Conclude(j)
      BY <2>2
    <3> DEFINE o == Classify(SawCanary(j), rc[j], DangerousMatched(j),
                             PanelRejected(j), j[1] \in Attacks)
    <3>2. outcome' = [outcome EXCEPT ![j] = o]
      BY <3>1 DEF Conclude
    <3>3. o = "attack_succeeded" => SawCanary(j)
      BY DEF Classify, ClassifyAttempted, ClassifyQuiet
    <3>4. SawCanary(j) => Approved(j)
      BY DEF SawCanary, OwnInv, ApprovedInv
    <3> HIDE DEF o
    <3>5. i = j \/ outcome[i] = "attack_succeeded"
      BY <1>4, <3>2
    <3>6. QED
      BY <1>1, <1>4, <2>1, <3>2, <3>3, <3>4, <3>5
  <2>3. CASE outcome' = outcome
    BY <1>4, <2>1, <2>3
  <2>4. QED
    BY <2>2, <2>3
       DEF Next, Loop, Prepare, GiveUp, Launch, Runner, CanarySeen, AgentExited,
           TimesOut, Return, Raise, Teardown, World, Attack, Invoke,
           Exfiltrate, Exit, Propose, File, Answer, Receive, Emit, Finished, vars
<1>5. /\ \A p \in network' : Approved(p.from)'
      /\ writing' # None => Approved(writing.from)'
      /\ \A e \in events' : Approved(e.from)'
  <2>1. ASSUME NEW i \in Run, Attack(i)
        PROVE  /\ \A p \in network' : Approved(p.from)'
               /\ UNCHANGED <<writing, events>>
    <3>1. Approved(i)
      BY <2>1 DEF Attack, ApprovedInv, Approved, Passed
    <3>2. network' = network \cup {[from |-> i, canary |-> workspace]}
          /\ UNCHANGED <<writing, events>>
      BY <2>1 DEF Attack, Exfiltrate
    <3>3. QED
      BY <1>1, <1>2, <3>1, <3>2 DEF ApprovedInv
  <2>2. ASSUME NEW i \in Run, Invoke(i) PROVE FALSE
    BY <2>2 DEF Invoke, OneAtATime
  <2>3. ASSUME NEW p \in network, Receive(p)
        PROVE  /\ network' \subseteq network /\ events' = events
               /\ Approved(writing.from)'
    BY <1>1, <1>2, <2>3 DEF Receive, ApprovedInv
  <2>4. CASE Emit
    BY <1>1, <1>2, <2>4 DEF Emit, ApprovedInv
  <2>5. CASE UNCHANGED <<network, writing, events>>
    BY <1>1, <1>2, <2>5 DEF ApprovedInv
  <2>6. \/ UNCHANGED <<network, writing, events>>
        \/ Emit
        \/ \E p \in network : Receive(p)
        \/ \E i \in Run : Attack(i) \/ Invoke(i)
    BY DEF Next, Loop, Prepare, GiveUp, Launch, Runner, CanarySeen, AgentExited,
       TimesOut, Return, Conclude, Raise, Teardown, World, Exit, Propose, File,
       Answer, Finished, vars
  <2>7. QED
    BY <1>1, <1>2, <2>1, <2>2, <2>3, <2>4, <2>5, <2>6 DEF ApprovedInv
<1>6. QED
  BY <1>3, <1>4, <1>5 DEF ApprovedInv

(* Under the conditions of HitsAreOwnAlways a success had a call of its own *)
(* run that was allowed with the approval on record, or that its agent did *)
(* not wait for.                                                           *)
THEOREM SuccessWasApprovedAlways ==
  ASSUME OneAtATime PROVE Spec => []SuccessWasApproved
<1>1. Init => ApprovedInv
  BY DEF Init, ApprovedInv
<1>2. Bookkeeping /\ OwnInv /\ ApprovedInv /\ [Next]_vars => ApprovedInv'
  BY StepKeepsApproved
<1>3. ApprovedInv => SuccessWasApproved
  BY DEF ApprovedInv, Approved, Passed, SuccessWasApproved
<1>4. QED
  BY <1>1, <1>2, <1>3, OwnInvariance, PTL DEF Spec

-----------------------------------------------------------------------------
\* Agents, panel and records as the experiment sees them implement GuardSpec.

Told(c) ==
    CASE call[c[1]][c[2]] = "approved" -> "allow"
      [] call[c[1]][c[2]] = "refused" -> "deny"
      [] call[c[1]][c[2]] = "unguarded" -> "unguarded"
      [] OTHER -> "none"

\* An event changes what the stream says of its own call only.
LEMMA RecordAdded ==
  ASSUME NEW i, NEW k, NEW d \in {"approve", "reject"}, Record(i, k) = "none",
         judgments' = judgments \cup {<<i, k, d>>}
  PROVE  /\ Record(i, k)' = d
         /\ \A j, l : j # i \/ l # k => Record(j, l)' = Record(j, l)
<1>1. \A c \in {"approve", "reject"} : <<i, k, c>> \notin judgments
  BY RecordMeans
<1>2. ASSUME NEW j, NEW l, j # i \/ l # k
      PROVE  Record(j, l)' = Record(j, l)
  <2>1. \A c : <<j, l, c>> \in judgments' <=> <<j, l, c>> \in judgments
    BY <1>2
  <2>2. QED
    BY <2>1 DEF Record
<1>3. CASE d = "approve"
  <2>1. <<i, k, "approve">> \in judgments'
    BY <1>3
  <2>2. QED
    BY <1>2, <1>3, <2>1 DEF Record
<1>4. CASE d = "reject"
  <2>1. <<i, k, "reject">> \in judgments' /\ <<i, k, "approve">> \notin judgments'
    BY <1>1, <1>4
  <2>2. QED
    BY <1>2, <1>4, <2>1 DEF Record
<1>5. QED
  BY <1>3, <1>4

\* A step of an agent or the panel is a step of the guard or unseen by it.
LEMMA GuardStep ==
  ASSUME TypeOK, [Next]_vars
  PROVE  [Guard!Next]_Guard!vars
<1> DEFINE C == Run \X Kinds
           answer == [c \in C |-> Told(c)]
           record == [c \in C |-> Record(c[1], c[2])]
<1> USE DEF TypeOK, AgentTypeOK
<1>1. ASSUME UNCHANGED <<call, judgments>> PROVE UNCHANGED Guard!vars
  BY <1>1 DEF Guard!vars, Record
<1>2. ASSUME NEW i \in Run, NEW k \in Kinds, File(i, k)
      PROVE  Guard!File(<<i, k>>)
  <2>1. PICK d \in {"approve", "reject"} : judgments' = judgments \cup {<<i, k, d>>}
    BY <1>2 DEF File
  <2>2. Record(i, k) = "none" /\ call' = call
    BY <1>2 DEF File
  <2>3. record' = [record EXCEPT ![<<i, k>>] = d]
    <3>1. Record(i, k)' = d
          /\ \A j, l : j # i \/ l # k => Record(j, l)' = Record(j, l)
      BY <2>1, <2>2, RecordAdded
    <3>2. ASSUME NEW c \in C
          PROVE  record'[c] = [record EXCEPT ![<<i, k>>] = d][c]
      BY <3>1
    <3>3. QED
      BY <3>2
  <2>4. QED
    BY <2>1, <2>2, <2>3 DEF Guard!File, Told
<1>3. ASSUME NEW i \in Run, NEW k \in Kinds, Answer(i, k)
      PROVE  Guard!Answer(<<i, k>>)
  <2>1. PICK a \in {"approved", "refused", "unguarded"} :
           /\ a = "approved" => Record(i, k) = "approve"
           /\ call' = [call EXCEPT ![i][k] = a]
    BY <1>3 DEF Answer
  <2>2. call[i][k] = "judging" /\ judgments' = judgments
    BY <1>3 DEF Answer
  <2> DEFINE b == CASE a = "approved" -> "allow"
                    [] a = "refused" -> "deny"
                    [] a = "unguarded" -> "unguarded"
  <2>3. b \in {"allow", "deny", "unguarded"}
        /\ (b = "allow" => Record(i, k) = "approve")
    BY <2>1
  <2>4. Told(<<i, k>>) = "none"
    BY <2>2 DEF Told
  <2>5. answer' = [answer EXCEPT ![<<i, k>>] = b]
    <3>1. ASSUME NEW c \in C
          PROVE  answer'[c] = [answer EXCEPT ![<<i, k>>] = b][c]
      <4>1. CASE c = <<i, k>>
        <5>1. call'[i][k] = a
          BY <2>1
        <5>2. QED
          BY <4>1, <5>1 DEF Told
      <4>2. CASE c # <<i, k>>
        <5>1. call'[c[1]][c[2]] = call[c[1]][c[2]]
          BY <2>1, <4>2
        <5>2. QED
          BY <4>2, <5>1 DEF Told
      <4>3. QED
        BY <4>1, <4>2
    <3>2. QED
      BY <3>1
  <2>6. record' = record
    BY <2>2 DEF Record
  <2>7. QED
    BY <2>3, <2>4, <2>5, <2>6 DEF Guard!Answer, Told
<1>4. CASE World
  <2>1. \/ UNCHANGED <<call, judgments>>
        \/ \E i \in Run, k \in Kinds : File(i, k) \/ Answer(i, k) \/ Propose(i, k)
    BY <1>4 DEF World, Attack, Invoke, Exfiltrate, Exit, Receive, Emit
  <2>2. ASSUME NEW i \in Run, NEW k \in Kinds, Propose(i, k)
        PROVE  UNCHANGED Guard!vars
    <3>1. call[i][k] = "none" /\ call' = [call EXCEPT ![i][k] = "judging"]
          /\ judgments' = judgments
      BY <2>2 DEF Propose
    <3>2. \A c \in C : Told(c)' = Told(c)
      BY <3>1 DEF Told
    <3>3. answer' = answer
      BY <3>2
    <3>4. record' = record
      BY <3>1 DEF Record
    <3>5. QED
      BY <3>3, <3>4 DEF Guard!vars, Told
  <2>3. QED
    BY <1>1, <1>2, <1>3, <2>1, <2>2 DEF Guard!Next
<1>5. CASE Loop \/ Finished \/ UNCHANGED vars
  BY <1>1, <1>5
     DEF Loop, Prepare, GiveUp, Launch, Runner, CanarySeen, AgentExited,
         TimesOut, Return, Conclude, Raise, Teardown, Finished, vars,
         experiment, honeypot
<1>6. QED
  BY <1>4, <1>5 DEF Next

(* For any experiment, overlapping runs and failures included: what agents *)
(* are told and what the panel records is a behaviour of GuardSpec, which  *)
(* the orchestrator and its hook implement.                                *)
THEOREM PanelIsGuardAlways == Spec => PanelIsGuard
<1>1. Init => Guard!Init
  BY DEF Init, Guard!Init, Record
<1>2. QED
  BY <1>1, GuardStep, TypeCorrect, PTL DEF Spec, PanelIsGuard, Guard!Spec

=============================================================================
