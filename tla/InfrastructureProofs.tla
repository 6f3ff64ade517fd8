------------------------ MODULE InfrastructureProofs ------------------------
(***************************************************************************)
(* What holds of a sweep of any length, over any panels.  The argument is  *)
(* that the experiments go one after the other (Sequential), that only one *)
(* that has begun has processes (Quiet), and that _procs names those that  *)
(* are left to stop until stop has run to its end (Accounted).             *)
(***************************************************************************)
EXTENDS Infrastructure, TLAPS

USE SweepAssumption

LEMMA OrderFacts ==
  /\ DOMAIN Order = 1 .. 3 /\ Len(Order) = 3
  /\ Order[1] = "proxy" /\ Order[2] = "honeypot" /\ Order[3] = "orchestrator"
BY DEF Order

\* What Spawn does, without the tuple.
LEMMA SpawnStep ==
  ASSUME NEW e \in Experiments, Spawn(e)
  PROVE  \E s \in Services :
           /\ proc[e][s] = "none"
           /\ proc' = [proc EXCEPT ![e][s] = "starting"]
           /\ \/ s # "orchestrator" /\ UNCHANGED <<phase, kept>>
              \/ /\ s = "orchestrator"
                 /\ phase' = [phase EXCEPT ![e] = "polling"]
                 /\ kept' = [kept EXCEPT ![e] = Services]
<1>1. PICK i \in 1 .. 3 :
        /\ proc[e][Order[i]] = "none"
        /\ proc' = [proc EXCEPT ![e][Order[i]] = "starting"]
        /\ IF i < 3 THEN UNCHANGED <<phase, kept>>
                    ELSE /\ Goto(e, "polling")
                         /\ kept' = [kept EXCEPT ![e] = Services]
  BY OrderFacts DEF Spawn
<1>2. Order[i] \in Services /\ (Order[i] = "orchestrator" <=> i = 3)
  BY OrderFacts DEF Services
<1>3. PICK s \in Services : s = Order[i]
  BY <1>2
<1>4. /\ proc[e][s] = "none"
      /\ proc' = [proc EXCEPT ![e][s] = "starting"]
  BY <1>1, <1>3
<1>5. CASE i = 3
  <2>1. s = "orchestrator"
    BY <1>2, <1>3, <1>5
  <2>2. /\ phase' = [phase EXCEPT ![e] = "polling"]
        /\ kept' = [kept EXCEPT ![e] = Services]
    BY <1>1, <1>5 DEF Goto
  <2>3. QED
    BY <1>4, <2>1, <2>2
<1>6. CASE i # 3
  <2>1. s # "orchestrator"
    BY <1>2, <1>3, <1>6
  <2>2. UNCHANGED <<phase, kept>>
    BY <1>1, <1>6
  <2>3. QED
    BY <1>4, <2>1, <2>2
<1>7. QED
  BY <1>5, <1>6

-----------------------------------------------------------------------------
(* Types *)

LEMMA InitType == Init => TypeOK
<1> SUFFICES ASSUME Init PROVE TypeOK
  OBVIOUS
<1>1. RunnerTypeOK
  BY DEF Init, RunnerTypeOK
<1>2. QED
  BY <1>1 DEF Init, TypeOK

LEMMA SetupKeepsType ==
  ASSUME TypeOK, NEW e \in Experiments, Setup(e)
  PROVE  TypeOK'
<1> USE DEF TypeOK, RunnerTypeOK, InSetup, InTeardown, Exiting, Over, Goto,
     python, world
<1>1. CASE Begin(e)
  BY <1>1 DEF Begin
<1>2. CASE Spawn(e)
  <2>1. PICK s \in Services :
           /\ proc' = [proc EXCEPT ![e][s] = "starting"]
           /\ \/ UNCHANGED <<phase, kept>>
              \/ /\ phase' = [phase EXCEPT ![e] = "polling"]
                 /\ kept' = [kept EXCEPT ![e] = Services]
    BY <1>2, SpawnStep
  <2>2. UNCHANGED <<health, removing, fate, server, ended, container, docker>>
    BY <1>2 DEF Spawn
  <2>3. RunnerTypeOK'
    BY <2>1, <2>2
  <2>4. QED
    BY <2>1, <2>2, <2>3
<1>3. Panels[e] \in SUBSET Names
  BY DEF Names, Experiments
<1>4. CASE SpawnRaises(e) \/ Executed(e) \/ \E n \in Panels[e] : RunJudgeRaises(e, n)
  BY <1>3, <1>4 DEF SpawnRaises, Executed, RunJudgeRaises, TearDown
<1>5. ASSUME NEW s \in Checked, Healthy(e, s) \/ Unhealthy(e, s)
      PROVE  TypeOK'
  <2>1. CASE Healthy(e, s)
    <3>1. PICK d \in Experiments : server' = [server EXCEPT ![e][s] = d]
      BY <2>1 DEF Healthy, Holders
    <3>2. health' = [health EXCEPT ![e][s] = "up"]
      BY <2>1 DEF Healthy
    <3>3. UNCHANGED <<phase, kept, removing, fate, ended, proc, container, docker>>
      BY <2>1 DEF Healthy
    <3>4. server' \in [Experiments -> [Checked -> Experiments \cup {Nobody}]]
      BY <3>1
    <3>5. health' \in [Experiments -> [Checked -> {"polling", "up", "timeout"}]]
      BY <3>2
    <3>6. QED
      BY <3>3, <3>4, <3>5
  <2>2. CASE Unhealthy(e, s)
    BY <2>2 DEF Unhealthy
  <2>3. QED
    BY <1>5, <2>1, <2>2
<1>6. CASE Gathered(e)
  BY <1>6 DEF Gathered
<1>7. ASSUME NEW n \in Panels[e], RunJudge(e, n)
      PROVE  TypeOK'
  BY <1>3, <1>7 DEF RunJudge, runner
<1>8. CASE StartExecuting(e)
  BY <1>8 DEF StartExecuting
<1>9. QED
  BY <1>1, <1>2, <1>4, <1>5, <1>6, <1>7, <1>8 DEF Setup

LEMMA TeardownKeepsType ==
  ASSUME TypeOK, NEW e \in Experiments, Teardown(e)
  PROVE  TypeOK'
<1> USE DEF TypeOK, RunnerTypeOK, InSetup, InTeardown, Exiting, Over, Goto,
     python, world
<1>1. Panels[e] \in SUBSET Names
  BY DEF Names, Experiments
<1>2. ASSUME NEW n \in Panels[e], RemoveJudge(e, n)
      PROVE  TypeOK'
  BY <1>1, <1>2 DEF RemoveJudge
<1>3. CASE RemoveRaises(e)
  BY <1>3 DEF RemoveRaises
<1>4. CASE Removed(e)
  BY <1>4 DEF Removed
<1>5. ASSUME NEW s \in Services, Kill(e, s)
      PROVE  TypeOK'
  BY <1>5 DEF Kill, runner
<1>6. CASE Aborted(e)
  BY <1>1, <1>6 DEF Aborted, TearDown
<1>7. CASE Stopped(e)
  BY <1>7 DEF Stopped
<1>8. CASE Exit(e)
  <2>1. RunnerTypeOK'
    BY <1>8 DEF Exit, Forget
  <2>2. QED
    BY <1>8, <2>1 DEF Exit, Forget
<1>9. QED
  BY <1>2, <1>3, <1>4, <1>5, <1>6, <1>7, <1>8 DEF Teardown

LEMMA OutsideKeepsType ==
  ASSUME TypeOK, NEW e \in Experiments, Outside(e)
  PROVE  TypeOK'
<1> USE DEF TypeOK, RunnerTypeOK, InSetup, InTeardown, Exiting, Over, Goto,
     python, world
<1>1. Panels[e] \in SUBSET Names
  BY DEF Names, Experiments
<1>2. CASE Interrupt(e)
  BY <1>1, <1>2 DEF Interrupt, TearDown
<1>3. CASE Crash(e)
  BY <1>3 DEF Crash, Forget
<1>4. ASSUME NEW s \in Services, Bind(e, s) \/ Die(e, s)
      PROVE  TypeOK'
  <2>1. PICK p \in {"listening", "dead"} : proc' = [proc EXCEPT ![e][s] = p]
    BY <1>4 DEF Bind, Die
  <2>2. UNCHANGED <<runner, container, docker>>
    BY <1>4 DEF Bind, Die
  <2>3. proc' \in [Experiments -> [Services -> {"none", "starting",
                                               "listening", "dead"}]]
    BY <2>1
  <2>4. QED
    BY <2>2, <2>3 DEF runner
<1>5. QED
  BY <1>2, <1>3, <1>4 DEF Outside

LEMMA TypeStep == TypeOK /\ [Next]_vars => TypeOK'
<1> SUFFICES ASSUME TypeOK, [Next]_vars PROVE TypeOK'
  OBVIOUS
<1>1. CASE DaemonStops
  BY <1>1 DEF DaemonStops, TypeOK, RunnerTypeOK, runner, python
<1>2. CASE UNCHANGED vars
  BY <1>2 DEF vars, TypeOK, RunnerTypeOK, runner, python, world
<1>3. QED
  BY <1>1, <1>2, SetupKeepsType, TeardownKeepsType, OutsideKeepsType DEF Next

-----------------------------------------------------------------------------
(* The invariant *)

Step(e) == Setup(e) \/ Teardown(e) \/ Outside(e)

Sequential ==
    \A e, d \in Experiments :
        d < e /\ phase[e] # "waiting" => phase[d] \in Over

Quiet ==
    \A e \in Experiments : \A s \in Services :
        Alive(e, s) => phase[e] # "waiting"

\* Where an experiment stands with a service that answered its poll.
Answered(e, s) ==
    \/ server[e][s] = e
    \/ server[e][s] \in 1 .. e - 1 /\ MayLeave(server[e][s], s)

Polled ==
    \A e \in Experiments : \A s \in Checked :
        /\ phase[e] \in {"waiting", "spawning"} => health[e][s] = "polling"
        /\ \/ phase[e] = "polling" /\ health[e][s] = "up"
           \/ phase[e] \in {"judges", "executing"}
           => Answered(e, s)

\* Nothing is left to stop, or stop cannot know of it.
Settled(e) ==
    \/ proc[e]["orchestrator"] = "none"
    \/ \A s \in Services : ~ Alive(e, s)

Accounted ==
    \A e \in Experiments :
        /\ phase[e] \in {"waiting", "spawning"} =>
              proc[e]["orchestrator"] = "none"
        /\ phase[e] \in InSetup \cup InTeardown =>
              kept[e] = Services \/ Settled(e)
        /\ phase[e] \in {"exiting", "over"} => Settled(e)
        /\ e \in ended => phase[e] \in Exiting \cup Over /\ Settled(e)

\* A tear-down under way, or an ended one, leaves no name occupied that it
\* has already been through.
Freed ==
    \A e \in Experiments : \A n \in Panels[e] :
        /\ docker = "ok"
        /\ \/ phase[e] = "removing" /\ n \notin removing[e]
           \/ phase[e] = "stopping"
           \/ e \in ended
        => container[n] = Nobody \/ container[n] > e

SweepInv ==
    /\ TypeOK
    /\ Sequential
    /\ Quiet
    /\ Polled
    /\ Accounted
    /\ OwnContainers
    /\ Freed

LEMMA PhaseStep ==
  ASSUME TypeOK, NEW e \in Experiments, Step(e)
  PROVE  \/ UNCHANGED phase
         \/ \E p \in {"spawning", "polling", "aborting", "judges", "executing",
                      "removing", "stopping", "exiting", "unwinding", "over",
                      "broken", "crashed"} :
              /\ phase' = [phase EXCEPT ![e] = p]
              /\ phase[e] \notin Over
              /\ phase[e] = "waiting" => Begin(e)
<1> USE DEF TypeOK, RunnerTypeOK, InSetup, InTeardown, Exiting, Over, Goto,
     python, TearDown
<1>1. CASE Setup(e)
  <2>1. CASE Begin(e)
    BY <2>1 DEF Begin
  <2>2. CASE Spawn(e)
    <3>1. phase[e] = "spawning"
      BY <2>2 DEF Spawn
    <3>2. UNCHANGED phase \/ phase' = [phase EXCEPT ![e] = "polling"]
      BY <2>2, SpawnStep
    <3>3. QED
      BY <3>1, <3>2
  <2>3. CASE SpawnRaises(e) \/ Executed(e) \/ \E n \in Panels[e] : RunJudgeRaises(e, n)
    BY <2>3 DEF SpawnRaises, Executed, RunJudgeRaises
  <2>4. CASE \E s \in Checked : Healthy(e, s) \/ Unhealthy(e, s)
    BY <2>4 DEF Healthy, Unhealthy
  <2>5. CASE Gathered(e) \/ StartExecuting(e)
    BY <2>5 DEF Gathered, StartExecuting
  <2>6. CASE \E n \in Panels[e] : RunJudge(e, n)
    BY <2>6 DEF RunJudge, runner
  <2>7. QED
    BY <1>1, <2>1, <2>2, <2>3, <2>4, <2>5, <2>6 DEF Setup
<1>2. CASE Teardown(e)
  <2>1. CASE \E n \in Panels[e] : RemoveJudge(e, n)
    BY <2>1 DEF RemoveJudge
  <2>2. CASE \E s \in Services : Kill(e, s)
    BY <2>2 DEF Kill, runner
  <2>3. CASE RemoveRaises(e) \/ Removed(e) \/ Aborted(e) \/ Stopped(e)
    BY <2>3 DEF RemoveRaises, Removed, Aborted, Stopped
  <2>4. CASE Exit(e)
    <3>1. \/ phase[e] = "exiting" /\ phase' = [phase EXCEPT ![e] = "over"]
          \/ phase[e] = "unwinding" /\ phase' = [phase EXCEPT ![e] = "broken"]
      BY <2>4 DEF Exit
    <3>2. QED
      BY <2>4, <3>1
  <2>5. QED
    BY <1>2, <2>1, <2>2, <2>3, <2>4 DEF Teardown
<1>3. CASE Outside(e)
  BY <1>3 DEF Outside, Interrupt, Crash, Bind, Die, runner
<1>4. QED
  BY <1>1, <1>2, <1>3 DEF Step

\* Only Spawn brings a process to life, and no step touches another
\* experiment's.
LEMMA AliveStep ==
  ASSUME TypeOK, NEW e \in Experiments, Step(e)
  PROVE  /\ \A f \in Experiments \ {e} : proc'[f] = proc[f]
         /\ \/ Spawn(e)
            \/ \A s \in Services : /\ Alive(e, s)' => Alive(e, s)
                                   /\ proc'[e][s] = "none" <=> proc[e][s] = "none"
<1> USE DEF TypeOK, RunnerTypeOK, Alive
<1>1. CASE Spawn(e)
  BY <1>1, SpawnStep
<1>2. CASE UNCHANGED proc
  BY <1>2
<1>3. ASSUME NEW r \in Services, NEW p \in {"listening", "dead"}, Alive(e, r),
             proc' = [proc EXCEPT ![e][r] = p]
      PROVE  /\ \A f \in Experiments \ {e} : proc'[f] = proc[f]
             /\ \A s \in Services : /\ Alive(e, s)' => Alive(e, s)
                                    /\ proc'[e][s] = "none" <=> proc[e][s] = "none"
  BY <1>3
<1>5. CASE Setup(e)
  BY <1>1, <1>2, <1>5 DEF Setup, Begin, SpawnRaises, Healthy, Unhealthy,
     Gathered, RunJudge, RunJudgeRaises, StartExecuting, Executed, world
<1>6. CASE Teardown(e)
  BY <1>2, <1>3, <1>6 DEF Teardown, RemoveJudge, RemoveRaises, Removed,
     Kill, Aborted, Stopped, Exit, world
<1>7. CASE Outside(e)
  BY <1>2, <1>3, <1>7 DEF Outside, Interrupt, Crash, Bind, Die, world
<1>8. QED
  BY <1>5, <1>6, <1>7 DEF Step

LEMMA SequentialKept ==
  ASSUME TypeOK, Sequential, NEW e \in Experiments, Step(e)
  PROVE  Sequential'
<1>1. SUFFICES ASSUME NEW f \in Experiments, NEW d \in Experiments, d < f,
                      phase'[f] # "waiting"
               PROVE  phase'[d] \in Over
  BY DEF Sequential, Over, Experiments
<1>2. CASE UNCHANGED phase
  BY <1>1, <1>2 DEF Sequential
<1>3. ASSUME NEW p, phase' = [phase EXCEPT ![e] = p], phase[e] \notin Over,
             phase[e] = "waiting" => Begin(e)
      PROVE  phase'[d] \in Over
  <2>1. phase[f] # "waiting" \/ (f = e /\ Begin(e))
    BY <1>1, <1>3 DEF TypeOK, RunnerTypeOK
  <2>2. phase[d] \in Over
    BY <1>1, <2>1 DEF Sequential, Begin, Experiments
  <2>3. QED
    BY <1>3, <2>2 DEF TypeOK, RunnerTypeOK
<1>4. QED
  BY <1>2, <1>3, PhaseStep

LEMMA QuietKept ==
  ASSUME TypeOK, Quiet, NEW e \in Experiments, Step(e)
  PROVE  Quiet'
<1>1. SUFFICES ASSUME NEW f \in Experiments, NEW s \in Services, Alive(f, s)'
               PROVE  phase'[f] # "waiting"
  BY DEF Quiet
<1>2. CASE Spawn(e) /\ f = e
  BY <1>2, SpawnStep DEF Spawn, TypeOK, RunnerTypeOK
<1>3. CASE ~ (Spawn(e) /\ f = e)
  <2>1. Alive(f, s)
    <3>1. CASE f = e
      BY <1>1, <1>3, <3>1, AliveStep
    <3>2. CASE f # e
      <4>1. proc'[f] = proc[f]
        BY <3>2, AliveStep
      <4>2. QED
        BY <1>1, <4>1 DEF Alive
    <3>3. QED
      BY <3>1, <3>2
  <2>2. phase[f] # "waiting"
    BY <2>1 DEF Quiet
  <2>3. QED
    BY <2>2, PhaseStep DEF TypeOK, RunnerTypeOK
<1>4. QED
  BY <1>2, <1>3

\* A step of one experiment leaves what another knows alone, and one that is
\* over stays so and spawns nothing.
LEMMA FrameStep ==
  ASSUME TypeOK, NEW e \in Experiments, Step(e)
  PROVE  /\ \A f \in Experiments \ {e} :
               /\ phase'[f] = phase[f] /\ health'[f] = health[f]
               /\ server'[f] = server[f] /\ kept'[f] = kept[f]
               /\ f \in ended' <=> f \in ended
         /\ \A d \in Experiments : phase[d] \in Over =>
               /\ phase'[d] = phase[d]
               /\ \A s \in Services : proc[d][s] = "none" => proc'[d][s] = "none"
<1>1. \A f \in Experiments \ {e} : phase'[f] = phase[f]
  <2>1. UNCHANGED phase \/ \E p : phase' = [phase EXCEPT ![e] = p]
    BY PhaseStep
  <2>2. QED
    BY <2>1 DEF TypeOK, RunnerTypeOK
<1>2. ASSUME NEW d \in Experiments, phase[d] \in Over
      PROVE  /\ phase'[d] = phase[d]
             /\ \A s \in Services : proc[d][s] = "none" => proc'[d][s] = "none"
  <2>1. ~ (Spawn(e) /\ d = e)
    BY <1>2 DEF Spawn, Over
  <2>2. phase'[d] = phase[d]
    <3>1. UNCHANGED phase \/ d # e
      BY <1>2, PhaseStep
    <3>2. QED
      BY <1>1, <3>1
  <2>3. ASSUME NEW s \in Services, proc[d][s] = "none"
        PROVE  proc'[d][s] = "none"
    <3>1. CASE d = e
      BY <2>1, <2>3, <3>1, AliveStep
    <3>2. CASE d # e
      <4>1. proc'[d] = proc[d]
        BY <3>2, AliveStep
      <4>2. QED
        BY <2>3, <4>1
    <3>3. QED
      BY <3>1, <3>2
  <2>4. QED
    BY <2>2, <2>3
<1> USE DEF TypeOK, RunnerTypeOK, python
<1>3. \A f \in Experiments \ {e} :
        /\ health'[f] = health[f]
        /\ server'[f] = server[f] /\ kept'[f] = kept[f]
        /\ f \in ended' <=> f \in ended
  <2>1. CASE Setup(e)
    <3>1. CASE Spawn(e)
      BY <3>1, SpawnStep DEF Spawn
    <3>2. ASSUME NEW s \in Checked, Healthy(e, s) \/ Unhealthy(e, s)
          PROVE  \A f \in Experiments \ {e} :
                   /\ health'[f] = health[f]
                   /\ server'[f] = server[f] /\ kept'[f] = kept[f]
                   /\ f \in ended' <=> f \in ended
      BY <3>2 DEF Healthy, Unhealthy
    <3>3. QED
      BY <2>1, <3>1, <3>2 DEF Setup, Begin, SpawnRaises, Gathered, RunJudge,
         RunJudgeRaises, StartExecuting, Executed, runner
  <2>2. CASE Teardown(e)
    BY <2>2 DEF Teardown, RemoveJudge, RemoveRaises, Removed, Kill, Aborted,
       Stopped, Exit, Forget, runner
  <2>3. CASE Outside(e)
    BY <2>3 DEF Outside, Interrupt, Crash, Forget, Bind, Die, runner
  <2>4. QED
    BY <2>1, <2>2, <2>3 DEF Step
<1>4. QED
  BY <1>1, <1>2, <1>3

\* Whoever listens while e polls is e or a leftover of an earlier experiment.
LEMMA HolderIsOwn ==
  ASSUME TypeOK, Sequential, Quiet, Accounted, NEW e \in Experiments, NEW s \in Services,
         phase[e] = "polling", NEW d \in Holders(s)
  PROVE  d = e \/ (d \in 1 .. e - 1 /\ MayLeave(d, s))
<1>1. d \in Experiments /\ Alive(d, s) /\ proc[d][s] # "none"
  BY DEF Holders, Alive
<1>2. phase[d] # "waiting"
  BY <1>1 DEF Quiet
<1>3. e \in Int /\ d \in Int /\ 1 <= d
  BY <1>1 DEF Experiments
<1>4. CASE e < d
  BY <1>1, <1>2, <1>4 DEF Sequential, Over
<1>5. CASE d < e
  <2>1. phase[d] \in Over
    BY <1>1, <1>5 DEF Sequential
  <2>2. phase[d] = "over" => Settled(d)
    BY <1>1 DEF Accounted
  <2>3. MayLeave(d, s)
    BY <1>1, <2>1, <2>2 DEF MayLeave, Over, Settled
  <2>4. QED
    BY <1>3, <1>5, <2>3
<1>6. QED
  BY <1>3, <1>4, <1>5

LEMMA PolledKept ==
  ASSUME TypeOK, Sequential, Quiet, Accounted, Polled, NEW e \in Experiments, Step(e)
  PROVE  Polled'
<1> DEFINE P(f, s) ==
      /\ phase[f] \in {"waiting", "spawning"} => health[f][s] = "polling"
      /\ \/ phase[f] = "polling" /\ health[f][s] = "up"
         \/ phase[f] \in {"judges", "executing"}
         => Answered(f, s)
<1>1. SUFFICES ASSUME NEW f \in Experiments, NEW s \in Checked PROVE P(f, s)'
  BY DEF Polled
<1>2. P(f, s)
  BY DEF Polled
<1>3. ASSUME server'[f] = server[f], Answered(f, s) PROVE Answered(f, s)'
  <2>1. CASE server[f][s] = f
    BY <1>3, <2>1 DEF Answered
  <2>2. CASE server[f][s] \in 1 .. f - 1 /\ MayLeave(server[f][s], s)
    <3>1. PICK d \in Experiments : d = server[f][s] /\ d \in 1 .. f - 1
      BY <2>2 DEF Experiments
    <3>2. phase[d] \in Over /\ "orchestrator" \in Services
      BY <2>2, <3>1 DEF MayLeave, Over, Services
    <3>3. /\ phase'[d] = phase[d]
          /\ proc[d]["orchestrator"] = "none" => proc'[d]["orchestrator"] = "none"
      BY <3>2, FrameStep
    <3>4. MayLeave(d, s)'
      BY <2>2, <3>1, <3>3 DEF MayLeave
    <3>5. QED
      BY <1>3, <3>1, <3>4 DEF Answered
  <2>3. QED
    BY <1>3, <2>1, <2>2 DEF Answered
<1>4. CASE f # e
  BY <1>2, <1>3, <1>4, FrameStep
<1>5. CASE f = e
  <2> USE DEF TypeOK, RunnerTypeOK, Goto, python, InSetup, InTeardown, Exiting,
              Over
  <2>1. CASE Begin(e) \/ StartExecuting(e)
    BY <1>2, <1>3, <1>5, <2>1 DEF Begin, StartExecuting
  <2>2. CASE Spawn(e)
    <3>1. phase[e] = "spawning" /\ UNCHANGED health
      BY <2>2 DEF Spawn
    <3>2. phase'[e] \in {"spawning", "polling"}
      BY <2>2, <3>1, SpawnStep
    <3>3. QED
      BY <1>2, <1>5, <3>1, <3>2
  <2>3. ASSUME NEW r \in Checked, Healthy(e, r)
        PROVE  P(f, s)'
    <3>1. PICK d \in Holders(r) : server' = [server EXCEPT ![e][r] = d]
      BY <2>3 DEF Healthy
    <3>2. /\ phase[e] = "polling" /\ UNCHANGED <<phase, proc>>
          /\ health' = [health EXCEPT ![e][r] = "up"]
      BY <2>3 DEF Healthy, world
    <3>3. CASE s = r
      <4>1. d = e \/ (d \in 1 .. e - 1 /\ MayLeave(d, r))
        BY <3>2, HolderIsOwn DEF Checked, Services
      <4>2. server'[e][r] = d
        BY <3>1
      <4>3. QED
        BY <1>5, <3>2, <3>3, <4>1, <4>2 DEF Answered, MayLeave
    <3>4. CASE s # r
      <4>1. server'[e][s] = server[e][s] /\ health'[e][s] = health[e][s]
        BY <3>1, <3>2, <3>4
      <4>2. QED
        BY <1>2, <1>5, <3>2, <4>1 DEF Answered, MayLeave
    <3>5. QED
      BY <3>3, <3>4
  <2>4. ASSUME NEW r \in Checked, Unhealthy(e, r)
        PROVE  P(f, s)'
    <3>1. /\ phase[e] = "polling" /\ UNCHANGED <<phase, server>>
          /\ health' = [health EXCEPT ![e][r] = "timeout"]
      BY <2>4 DEF Unhealthy
    <3>2. QED
      BY <1>2, <1>3, <1>5, <3>1
  <2>5. CASE Gathered(e)
    BY <1>2, <1>3, <1>5, <2>5 DEF Gathered
  <2>6. ASSUME UNCHANGED <<phase, health, server>> PROVE P(f, s)'
    BY <1>2, <1>3, <2>6
  <2>7. ASSUME phase'[e] \in {"aborting", "removing", "stopping"} \cup Exiting
                             \cup Over
        PROVE  P(f, s)'
    BY <1>5, <2>7
  <2>8. CASE Setup(e)
    BY <2>1, <2>2, <2>3, <2>4, <2>5, <2>6, <2>7, <2>8 DEF Setup, SpawnRaises,
       RunJudge, RunJudgeRaises, Executed, TearDown, runner
  <2>9. CASE Teardown(e)
    BY <2>6, <2>7, <2>9 DEF Teardown, RemoveJudge, RemoveRaises, Removed,
       Kill, Aborted, Stopped, Exit, TearDown, runner
  <2>10. CASE Outside(e)
    BY <2>6, <2>7, <2>10 DEF Outside, Interrupt, Crash, Bind, Die, TearDown,
       runner
  <2>11. QED
    BY <2>8, <2>9, <2>10 DEF Step
<1>6. QED
  BY <1>4, <1>5

LEMMA AccountedKept ==
  ASSUME TypeOK, Accounted, NEW e \in Experiments, Step(e)
  PROVE  Accounted'
<1> DEFINE P(f) ==
      /\ phase[f] \in {"waiting", "spawning"} =>
            proc[f]["orchestrator"] = "none"
      /\ phase[f] \in InSetup \cup InTeardown =>
            kept[f] = Services \/ Settled(f)
      /\ phase[f] \in {"exiting", "over"} => Settled(f)
      /\ f \in ended => phase[f] \in Exiting \cup Over /\ Settled(f)
<1>1. ASSUME NEW f \in Experiments PROVE P(f)
  BY DEF Accounted
<1>2. ASSUME NEW f \in Experiments \ {e} PROVE P(f)'
  <2>1. proc'[f] = proc[f] /\ phase'[f] = phase[f] /\ kept'[f] = kept[f]
    BY AliveStep, FrameStep
  <2>2. f \in ended' <=> f \in ended
    BY FrameStep
  <2>3. QED
    BY <1>1, <2>1, <2>2 DEF Settled, Alive
<1>3. P(e)'
  <2> USE DEF TypeOK, RunnerTypeOK, InSetup, InTeardown, Exiting, Over, Goto,
     python
  <2>1. "orchestrator" \in Services
    BY DEF Services
  <2>2. ASSUME ~ Spawn(e), Settled(e) PROVE Settled(e)'
    BY <2>1, <2>2, AliveStep DEF Settled
  <2>3. ASSUME ~ Spawn(e)
        PROVE  proc'[e]["orchestrator"] = "none"
                 <=> proc[e]["orchestrator"] = "none"
    BY <2>1, <2>3, AliveStep
  <2>4. CASE Spawn(e)
    <3>1. phase[e] = "spawning" /\ UNCHANGED ended /\ e \notin ended
      BY <1>1, <2>4 DEF Spawn
    <3>2. PICK s \in Services :
            /\ proc' = [proc EXCEPT ![e][s] = "starting"]
            /\ \/ s # "orchestrator" /\ UNCHANGED <<phase, kept>>
               \/ /\ s = "orchestrator"
                  /\ phase' = [phase EXCEPT ![e] = "polling"]
                  /\ kept' = [kept EXCEPT ![e] = Services]
      BY <2>4, SpawnStep
    <3>3. CASE s # "orchestrator"
      <4>1. proc'[e]["orchestrator"] = "none"
        BY <1>1, <2>1, <3>1, <3>2, <3>3
      <4>2. QED
        BY <3>1, <3>2, <3>3, <4>1 DEF Settled
    <3>4. CASE s = "orchestrator"
      BY <3>1, <3>2, <3>4
    <3>5. QED
      BY <3>3, <3>4
  <2>5. ASSUME ~ Spawn(e), phase[e] \in InSetup \cup InTeardown,
               phase'[e] \in InTeardown \cup {"judges", "executing", "aborting"},
               kept'[e] = kept[e], UNCHANGED ended, phase[e] # "spawning"
        PROVE  P(e)'
    BY <1>1, <2>2, <2>5
  <2>6. ASSUME ~ Spawn(e), phase[e] = "spawning", phase'[e] = "removing",
               UNCHANGED ended
        PROVE  P(e)'
    BY <1>1, <2>2, <2>6 DEF Settled
  <2>7. ASSUME ~ Spawn(e), phase'[e] \in Exiting \cup Over, UNCHANGED ended,
               phase'[e] = "over" => phase[e] = "exiting",
               phase'[e] # "exiting"
        PROVE  P(e)'
    BY <1>1, <2>2, <2>7
  <2>8. ASSUME ~ Spawn(e), phase'[e] = phase[e], kept'[e] = kept[e],
               UNCHANGED ended
        PROVE  P(e)'
    BY <1>1, <2>2, <2>3, <2>8
  <2>9. CASE Begin(e)
    <3>1. ~ Spawn(e) /\ phase[e] = "waiting" /\ UNCHANGED <<kept, ended>>
          /\ phase'[e] = "spawning"
      BY <2>9 DEF Begin, Spawn
    <3>2. QED
      BY <1>1, <2>3, <3>1 DEF Settled
  <2>10. ASSUME Reaped(e), phase[e] \in InSetup \cup InTeardown PROVE Settled(e)
    BY <1>1, <2>10 DEF Reaped, Settled
  <2>11. CASE Aborted(e)
    <3>1. ~ Spawn(e) /\ phase[e] = "aborting" /\ UNCHANGED ended
          /\ phase'[e] = "removing" /\ Reaped(e)
      BY <2>11 DEF Aborted, Spawn, TearDown
    <3>2. QED
      BY <1>1, <2>2, <2>10, <3>1
  <2>12. CASE Stopped(e)
    <3>1. ~ Spawn(e) /\ phase[e] = "stopping" /\ ended' \subseteq ended \cup {e}
          /\ phase'[e] = "exiting" /\ Reaped(e)
      BY <2>12 DEF Stopped, Spawn
    <3>2. QED
      BY <2>2, <2>10, <3>1
  <2>13. CASE Setup(e)
    <3>1. ASSUME NEW r \in Checked, Healthy(e, r) \/ Unhealthy(e, r)
          PROVE  P(e)'
      BY <2>8, <3>1 DEF Healthy, Unhealthy, Spawn
    <3>2. CASE SpawnRaises(e)
      BY <2>6, <3>2 DEF SpawnRaises, TearDown, Spawn, world
    <3>3. CASE Gathered(e) \/ StartExecuting(e)
      BY <2>5, <3>3 DEF Gathered, StartExecuting, Spawn
    <3>4. ASSUME NEW n \in Panels[e], RunJudge(e, n)
          PROVE  P(e)'
      BY <2>8, <3>4 DEF RunJudge, Spawn, runner
    <3>5. CASE Executed(e) \/ \E n \in Panels[e] : RunJudgeRaises(e, n)
      BY <2>5, <3>5 DEF Executed, RunJudgeRaises, TearDown, Spawn
    <3>6. QED
      BY <2>4, <2>9, <2>13, <3>1, <3>2, <3>3, <3>4, <3>5 DEF Setup
  <2>14. CASE Teardown(e)
    <3>1. ASSUME NEW n \in Panels[e], RemoveJudge(e, n)
          PROVE  P(e)'
      BY <2>8, <3>1 DEF RemoveJudge, Spawn
    <3>2. CASE RemoveRaises(e)
      BY <2>7, <3>2 DEF RemoveRaises, Spawn
    <3>3. CASE Removed(e)
      BY <2>5, <3>3 DEF Removed, Spawn
    <3>4. ASSUME NEW s \in Services, Kill(e, s)
          PROVE  P(e)'
      BY <2>8, <3>4 DEF Kill, Spawn, runner
    <3>5. CASE Exit(e)
      BY <2>7, <3>5 DEF Exit, Spawn
    <3>6. QED
      BY <2>11, <2>12, <2>14, <3>1, <3>2, <3>3, <3>4, <3>5 DEF Teardown
  <2>15. CASE Outside(e)
    <3>1. CASE Interrupt(e)
      <4>1. ~ Spawn(e) /\ UNCHANGED <<kept, ended>>
        BY <3>1 DEF Interrupt, Spawn, TearDown
      <4>2. \/ phase[e] \in InSetup /\ phase'[e] = "removing"
            \/ phase[e] \in InTeardown /\ phase'[e] = "unwinding"
        BY <3>1 DEF Interrupt, TearDown
      <4>3. QED
        BY <2>5, <2>6, <2>7, <4>1, <4>2
    <3>2. CASE Crash(e)
      BY <2>7, <3>2 DEF Crash, Spawn
    <3>3. ASSUME NEW s \in Services, Bind(e, s) \/ Die(e, s)
          PROVE  P(e)'
      <4>1. UNCHANGED runner
        BY <3>3 DEF Bind, Die
      <4>2. ~ Spawn(e)
        BY <3>3 DEF Bind, Die, Spawn, Alive
      <4>3. QED
        BY <2>8, <4>1, <4>2 DEF runner
    <3>4. QED
      BY <2>15, <3>1, <3>2, <3>3 DEF Outside
  <2>16. QED
    BY <2>13, <2>14, <2>15 DEF Step
<1>4. QED
  BY <1>2, <1>3 DEF Accounted

\* A container changes hands only through a docker run that finds the name
\* free and a docker rm in a tear-down.
LEMMA ContainerStep ==
  ASSUME TypeOK, NEW e \in Experiments, Step(e)
  PROVE  \/ UNCHANGED container
         \/ \E n \in Panels[e] :
              /\ phase[e] = "judges" /\ UNCHANGED <<phase, removing, ended>>
              /\ container[n] = Nobody
              /\ container' = [container EXCEPT ![n] = e]
         \/ \E n \in Panels[e] :
              /\ phase[e] = "removing"
              /\ container' = [container EXCEPT ![n] = Nobody]
<1>1. CASE Setup(e)
  BY <1>1 DEF Setup, Begin, Spawn, SpawnRaises, Healthy, Unhealthy, Gathered,
     RunJudge, RunJudgeRaises, StartExecuting, Executed, world, runner, python
<1>2. CASE Teardown(e)
  BY <1>2 DEF Teardown, RemoveJudge, RemoveRaises, Removed, Kill, Aborted,
     Stopped, Exit, world
<1>3. CASE Outside(e)
  BY <1>3 DEF Outside, Interrupt, Crash, Bind, Die, world
<1>4. QED
  BY <1>1, <1>2, <1>3 DEF Step

LEMMA PanelNames ==
  ASSUME NEW e \in Experiments
  PROVE  Panels[e] \subseteq Names /\ e \in Nat /\ e # Nobody
BY DEF Names, Experiments

\* An experiment begins to execute when no container of its panel is missing.
LEMMA ExecutingStep ==
  ASSUME TypeOK, NEW e \in Experiments, Step(e), phase'[e] = "executing",
         phase[e] # "executing"
  PROVE  UNCHANGED container /\ \A n \in Panels[e] : container[n] = e
<1> USE DEF TypeOK, RunnerTypeOK, Goto
<1>1. CASE Setup(e)
  <2>1. CASE Spawn(e)
    BY <2>1, SpawnStep DEF Spawn
  <2>2. CASE StartExecuting(e)
    BY <2>2 DEF StartExecuting, Missing, world
  <2>3. QED
    BY <1>1, <2>1, <2>2 DEF Setup, Begin, SpawnRaises, Healthy, Unhealthy,
       Gathered, RunJudge, RunJudgeRaises, Executed, TearDown, runner
<1>2. CASE Teardown(e)
  BY <1>2 DEF Teardown, RemoveJudge, RemoveRaises, Removed, Kill, Aborted,
     Stopped, Exit, TearDown, runner
<1>3. CASE Outside(e)
  BY <1>3 DEF Outside, Interrupt, Crash, Bind, Die, TearDown, runner
<1>4. QED
  BY <1>1, <1>2, <1>3 DEF Step

LEMMA OwnContainersKept ==
  ASSUME TypeOK, Sequential, OwnContainers, NEW e \in Experiments, Step(e)
  PROVE  OwnContainers'
<1>1. SUFFICES ASSUME NEW f \in Experiments, phase'[f] = "executing",
                      NEW n \in Panels[f]
               PROVE  container'[n] = f
  BY DEF OwnContainers
<1>2. n \in Names /\ f # Nobody /\ f \in Nat /\ e \in Nat
  BY PanelNames
<1>3. CASE phase[f] # "executing"
  <2>1. f = e
    BY <1>1, <1>3, FrameStep
  <2>2. QED
    BY <1>1, <1>3, <2>1, ExecutingStep
<1>4. CASE phase[f] = "executing"
  <2>1. container[n] = f
    BY <1>4 DEF OwnContainers
  <2>2. phase[e] # "removing"
    <3>1. ASSUME phase[e] = "removing", e # f PROVE FALSE
      <4>1. e < f \/ f < e
        BY <1>2, <3>1
      <4>2. QED
        BY <1>4, <3>1, <4>1 DEF Sequential, Over
    <3>2. QED
      BY <1>4, <3>1
  <2>3. ASSUME NEW m \in Panels[e], container[m] = Nobody,
               container' = [container EXCEPT ![m] = e]
        PROVE  container'[n] = f
    BY <1>2, <2>1, <2>3
  <2>4. QED
    BY <2>1, <2>2, <2>3, ContainerStep
<1>5. QED
  BY <1>3, <1>4

LEMMA FreedKept ==
  ASSUME TypeOK, Sequential, Accounted, Freed, NEW e \in Experiments, Step(e)
  PROVE  Freed'
<1> DEFINE Through(f, n) ==
      \/ phase[f] = "removing" /\ n \notin removing[f]
      \/ phase[f] = "stopping"
      \/ f \in ended
<1>1. SUFFICES ASSUME NEW f \in Experiments, NEW n \in Panels[f],
                      docker' = "ok", Through(f, n)'
               PROVE  container'[n] = Nobody \/ container'[n] > f
  BY DEF Freed
<1>2. n \in Names /\ f \in Nat /\ e \in Nat
  BY PanelNames
<1>3. docker = "ok"
  BY <1>1 DEF Step, Setup, Begin, Spawn, SpawnRaises, Healthy, Unhealthy,
     Gathered, RunJudge, RunJudgeRaises, StartExecuting, Executed, Teardown,
     RemoveJudge, RemoveRaises, Removed, Kill, Aborted, Stopped, Exit, Outside,
     Interrupt, Crash, Bind, Die, world
<1>4. ASSUME Through(f, n) PROVE container'[n] = Nobody \/ container'[n] > f
  <2>1. container[n] = Nobody \/ container[n] > f
    BY <1>3, <1>4 DEF Freed
  <2>2. ASSUME NEW m \in Panels[e], phase[e] = "judges",
               container' = [container EXCEPT ![m] = e]
        PROVE  container'[n] = Nobody \/ container'[n] > f
    <3>1. phase[f] # "judges" /\ phase[f] # "waiting"
      BY <1>4 DEF Accounted, Exiting, Over
    <3>2. f < e
      BY <1>2, <2>2, <3>1 DEF Sequential, Over
    <3>3. QED
      BY <1>2, <2>1, <2>2, <3>2
  <2>3. ASSUME NEW m \in Panels[e], container' = [container EXCEPT ![m] = Nobody]
        PROVE  container'[n] = Nobody \/ container'[n] > f
    BY <2>1, <2>3
  <2>4. QED
    BY <2>1, <2>2, <2>3, ContainerStep
<1>5. CASE ~ Through(f, n)
  <2> USE DEF TypeOK, RunnerTypeOK, Goto, TearDown, InTeardown, InSetup, Over,
       python, runner, world
  <2>1. CASE f # e
    <3>1. removing'[f] = removing[f]
      BY <2>1 DEF Step, Setup, Begin, Spawn, SpawnRaises, Healthy, Unhealthy,
         Gathered, RunJudge, RunJudgeRaises, StartExecuting, Executed, Teardown,
         RemoveJudge, RemoveRaises, Removed, Kill, Aborted, Stopped, Exit,
         Outside, Interrupt, Crash, Bind, Die, Forget
    <3>2. QED
      BY <1>1, <1>5, <2>1, <3>1, FrameStep
  <2>2. CASE f = e
    <3>1. ASSUME phase'[e] = "removing", removing'[e] = Panels[e], UNCHANGED ended
          PROVE  FALSE
      BY <1>1, <1>5, <2>2, <3>1
    <3>2. ASSUME phase'[e] = phase[e], removing'[e] = removing[e], UNCHANGED ended
          PROVE  FALSE
      BY <1>1, <1>5, <2>2, <3>2
    <3>3. ASSUME phase'[e] \in {"spawning", "polling", "aborting", "judges",
                                "executing", "exiting", "unwinding", "over",
                                "broken", "crashed"},
                 UNCHANGED ended
          PROVE  FALSE
      BY <1>1, <1>5, <2>2, <3>3
    <3>4. CASE Setup(e)
      <4>1. CASE Spawn(e)
        <5>1. phase[e] = "spawning" /\ UNCHANGED <<ended, removing>>
          BY <4>1 DEF Spawn
        <5>2. phase'[e] \in {"spawning", "polling"}
          BY <4>1, <5>1, SpawnStep
        <5>3. QED
          BY <3>3, <5>1, <5>2
      <4>2. CASE Begin(e) \/ Gathered(e) \/ StartExecuting(e)
        BY <3>3, <4>2 DEF Begin, Gathered, StartExecuting
      <4>3. CASE SpawnRaises(e) \/ Executed(e)
                 \/ \E m \in Panels[e] : RunJudgeRaises(e, m)
        BY <3>1, <4>3, PanelNames DEF SpawnRaises, Executed, RunJudgeRaises
      <4>4. CASE \/ \E s \in Checked : Healthy(e, s) \/ Unhealthy(e, s)
                 \/ \E m \in Panels[e] : RunJudge(e, m)
        BY <3>2, <4>4 DEF Healthy, Unhealthy, RunJudge
      <4>5. QED
        BY <3>4, <4>1, <4>2, <4>3, <4>4 DEF Setup
    <3>5. CASE Teardown(e)
      <4>1. ASSUME NEW m \in Panels[e], RemoveJudge(e, m)
            PROVE  container'[n] = Nobody \/ container'[n] > f
        <5>1. /\ phase[e] = "removing" /\ UNCHANGED <<phase, ended>>
              /\ removing' = [removing EXCEPT ![e] = removing[e] \ {m}]
              /\ container' = [container EXCEPT ![m] = Nobody]
          BY <1>3, <4>1 DEF RemoveJudge
        <5>2. n = m
          BY <1>1, <1>5, <2>2, <5>1
        <5>3. QED
          BY <1>2, <5>1, <5>2
      <4>2. CASE Removed(e)
        BY <1>5, <2>2, <4>2 DEF Removed
      <4>3. CASE Stopped(e)
        BY <1>5, <2>2, <4>3 DEF Stopped
      <4>4. CASE RemoveRaises(e) \/ Exit(e)
        BY <3>3, <4>4 DEF RemoveRaises, Exit
      <4>5. CASE \E s \in Services : Kill(e, s)
        BY <3>2, <4>5 DEF Kill
      <4>6. CASE Aborted(e)
        BY <3>1, <4>6, PanelNames DEF Aborted
      <4>7. QED
        BY <3>5, <4>1, <4>2, <4>3, <4>4, <4>5, <4>6 DEF Teardown
    <3>6. CASE Outside(e)
      <4>1. CASE Interrupt(e)
        BY <3>1, <3>3, <4>1 DEF Interrupt
      <4>2. CASE Crash(e)
        BY <3>3, <4>2 DEF Crash
      <4>3. CASE \E s \in Services : Bind(e, s) \/ Die(e, s)
        BY <3>2, <4>3 DEF Bind, Die
      <4>4. QED
        BY <3>6, <4>1, <4>2, <4>3 DEF Outside
    <3>7. QED
      BY <3>4, <3>5, <3>6 DEF Step
  <2>3. QED
    BY <2>1, <2>2
<1>6. QED
  BY <1>4, <1>5

-----------------------------------------------------------------------------
(* The theorems *)

LEMMA SweepInit == Init => SweepInv
<1> SUFFICES ASSUME Init PROVE SweepInv
  OBVIOUS
<1>1. TypeOK
  BY InitType
<1>2. /\ \A e \in Experiments : phase[e] = "waiting" /\ e \notin ended
      /\ \A e \in Experiments : \A s \in Services : proc[e][s] = "none"
      /\ \A e \in Experiments : \A s \in Checked : health[e][s] = "polling"
  BY DEF Init
<1>3. Sequential /\ Polled /\ OwnContainers /\ Freed
  BY <1>2 DEF Sequential, Polled, OwnContainers, Freed
<1>4. Quiet /\ Accounted
  BY <1>2 DEF Quiet, Accounted, Settled, Alive, Services, InSetup, InTeardown
<1>5. QED
  BY <1>1, <1>3, <1>4 DEF SweepInv

LEMMA SweepStep == SweepInv /\ [Next]_vars => SweepInv'
<1> SUFFICES ASSUME SweepInv, [Next]_vars PROVE SweepInv'
  OBVIOUS
<1>1. TypeOK'
  BY TypeStep DEF SweepInv
<1>2. CASE \E e \in Experiments : Step(e)
  <2>1. PICK e \in Experiments : Step(e)
    BY <1>2
  <2>2. Sequential' /\ Quiet' /\ Polled' /\ Accounted'
    BY <2>1, SequentialKept, QuietKept, PolledKept, AccountedKept DEF SweepInv
  <2>3. OwnContainers' /\ Freed'
    BY <2>1, OwnContainersKept, FreedKept DEF SweepInv
  <2>4. QED
    BY <1>1, <2>2, <2>3 DEF SweepInv
<1>3. CASE DaemonStops \/ UNCHANGED vars
  <2>1. UNCHANGED <<runner, proc, container>> /\ (docker' = "ok" => docker = "ok")
    BY <1>3 DEF DaemonStops, vars, world
  <2>2. Sequential' /\ Polled' /\ OwnContainers' /\ Freed'
    BY <2>1 DEF SweepInv, Sequential, Polled, Answered, MayLeave, OwnContainers, Freed,
       runner, python
  <2>3. Quiet' /\ Accounted'
    BY <2>1 DEF SweepInv, Quiet, Accounted, Settled, Alive, runner, python
  <2>4. QED
    BY <1>1, <2>2, <2>3 DEF SweepInv
<1>4. QED
  BY <1>2, <1>3 DEF Next, Step

\* Every variable keeps its type, and _procs is empty or complete, whatever
\* the sweep.
THEOREM SweepTyped == Spec => []TypeOK
<1>1. SweepInv => TypeOK
  BY DEF SweepInv
<1>2. QED
  BY <1>1, SweepInit, SweepStep, PTL DEF Spec

\* No experiment executes with the judge containers of another, whatever
\* crashes, interrupts and docker failures came before (docker run --name).
THEOREM OwnContainersAlways == Spec => []OwnContainers
<1>1. SweepInv => OwnContainers
  BY DEF SweepInv
<1>2. QED
  BY <1>1, SweepInit, SweepStep, PTL DEF Spec

\* The health that start waited for was that of the experiment's own
\* services, or of leftovers: of a kill, of a tear-down cut short, or of an
\* incomplete spawn.  No other experiment leaves any.
THEOREM ServedByOwnAlways == Spec => []ServedByOwn
<1>1. SweepInv => ServedByOwn
  BY DEF SweepInv, Polled, ServedByOwn, Answered
<1>2. QED
  BY <1>1, SweepInit, SweepStep, PTL DEF Spec

\* An ExperimentEnd event is written only after infra.stop has taken all
\* three services down.
THEOREM EndMeansStoppedAlways == Spec => []EndMeansStopped
<1>1. TypeOK /\ Accounted => EndMeansStopped
  BY DEF TypeOK, RunnerTypeOK, Accounted, Settled, EndMeansStopped, Services
<1>2. SweepInv => EndMeansStopped
  BY <1>1 DEF SweepInv
<1>3. QED
  BY <1>2, SweepInit, SweepStep, PTL DEF Spec

\* A tear-down frees the names of its panel for the rest of the sweep, also
\* those that a crash had left occupied.
THEOREM NamesFreedAlways == Spec => []NamesFreed
<1>1. TypeOK /\ Freed => NamesFreed
  BY DEF TypeOK, RunnerTypeOK, Freed, NamesFreed
<1>2. SweepInv => NamesFreed
  BY <1>1 DEF SweepInv
<1>3. QED
  BY <1>2, SweepInit, SweepStep, PTL DEF Spec

=============================================================================
