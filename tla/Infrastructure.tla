--------------------------- MODULE Infrastructure ---------------------------
(***************************************************************************)
(* The life of the experiments of a sweep, one after the other: each       *)
(* spawns the three host services (core/infra.py), starts its judge        *)
(* containers, executes its tasks, and tears both down again               *)
(* (ablations/experiment.py).  All of them use the same three ports and    *)
(* the same container names, so what one leaves behind meets the next.     *)
(*                                                                         *)
(* The steps between two awaits of the experiment are one action.  The     *)
(* services are processes of their own: they come up, or die, when they    *)
(* like.  ScenarioRuns is what happens while an experiment executes.       *)
(***************************************************************************)
EXTENDS Integers, Sequences

CONSTANTS
    Panels,    \* the sweep: per experiment, the names of its judge containers
    Nobody     \* the creator of a container that does not exist

ASSUME SweepAssumption ==
    /\ Panels \in Seq(SUBSET STRING)
    /\ Nobody \notin Nat

Experiments == 1 .. Len(Panels)
Names == UNION {Panels[e] : e \in Experiments}

(* Every experiment spawns these in this order; start awaits the health of *)
(* the last two, as the proxy has no /health.                              *)
Order == <<"proxy", "honeypot", "orchestrator">>
Services == {"proxy", "honeypot", "orchestrator"}
Checked == {"honeypot", "orchestrator"}

VARIABLES
    phase,      \* per experiment: where run() is
    proc,       \* per experiment and service: the process spawned for it
    kept,       \* per experiment: the services in _procs
    health,     \* per experiment and checked service: what its poll returned
    removing,   \* per experiment: the containers _teardown still has to remove
    fate,       \* per experiment: fine, soft_abort, or an exception leaves run
    ended,      \* the experiments with an ExperimentEnd event
    container,  \* per name: the experiment that created it
    docker,     \* the docker CLI: answering, daemon down, or not installed
    server      \* history: per experiment and checked service, whose answered

python == <<kept, health, removing, fate, server>>
runner == <<phase, python, ended>>
world == <<proc, container, docker>>
vars == <<runner, world>>

(* A run that an exception out of _teardown ends is broken off.            *)
Exiting == {"exiting", "unwinding"}
Over == {"over", "broken", "crashed"}
InSetup == {"spawning", "polling", "aborting", "judges", "executing"}
InTeardown == {"removing", "stopping"}

RunnerTypeOK ==
    /\ phase \in [Experiments -> {"waiting"} \cup InSetup \cup InTeardown
                                   \cup Exiting \cup Over]
    /\ kept \in [Experiments -> {{}, Services}]
    /\ health \in [Experiments -> [Checked -> {"polling", "up", "timeout"}]]
    /\ removing \in [Experiments -> SUBSET Names]
    /\ fate \in [Experiments -> {"fine", "soft_abort", "raising"}]
    /\ ended \in SUBSET Experiments

TypeOK ==
    /\ RunnerTypeOK
    /\ proc \in [Experiments -> [Services -> {"none", "starting", "listening",
                                              "dead"}]]
    /\ container \in [Names -> Experiments \cup {Nobody}]
    /\ docker \in {"ok", "down", "missing"}
    /\ server \in [Experiments -> [Checked -> Experiments \cup {Nobody}]]

Init ==
    /\ phase = [e \in Experiments |-> "waiting"]
    /\ kept = [e \in Experiments |-> {}]
    /\ health = [e \in Experiments |-> [s \in Checked |-> "polling"]]
    /\ removing = [e \in Experiments |-> {}]
    /\ fate = [e \in Experiments |-> "fine"]
    /\ ended = {}
    /\ proc = [e \in Experiments |-> [s \in Services |-> "none"]]
    /\ container = [n \in Names |-> Nobody]
    /\ docker \in {"ok", "down", "missing"}
    /\ server = [e \in Experiments |-> [s \in Checked |-> Nobody]]

Alive(e, s) == proc[e][s] \in {"starting", "listening"}

(* The experiments whose process for s listens on its port: at most one.   *)
Holders(s) == {e \in Experiments : proc[e][s] = "listening"}

-----------------------------------------------------------------------------
(* Set-up *)

Goto(e, p) == phase' = [phase EXCEPT ![e] = p]

(* What an exception in _setup does: soft_abort, then _teardown, which     *)
(* begins with the containers of the ablation.                             *)
TearDown(e, f) ==
    /\ Goto(e, "removing")
    /\ removing' = [removing EXCEPT ![e] = Panels[e]]
    /\ fate' = [fate EXCEPT ![e] = IF fate[e] = "raising" THEN @ ELSE f]

(* The shell's loop starts an experiment when the one before has returned. *)
Begin(e) ==
    /\ phase[e] = "waiting"
    /\ \A d \in 1 .. e - 1 : phase[d] \in Over
    /\ Goto(e, "spawning")
    /\ UNCHANGED <<python, ended, world>>

(* One create_subprocess_exec; only after the third is _procs assigned.    *)
Spawn(e) ==
    /\ phase[e] = "spawning"
    /\ \E i \in DOMAIN Order :
         /\ proc[e][Order[i]] = "none"
         /\ \A j \in 1 .. i - 1 : proc[e][Order[j]] # "none"
         /\ proc' = [proc EXCEPT ![e][Order[i]] = "starting"]
         /\ IF i < Len(Order)
              THEN UNCHANGED <<phase, kept>>
              ELSE /\ Goto(e, "polling")
                   /\ kept' = [kept EXCEPT ![e] = Services]
    /\ UNCHANGED <<health, removing, fate, server, ended, container, docker>>

(* A log file cannot be opened or a process not be created.                *)
SpawnRaises(e) ==
    /\ phase[e] = "spawning"
    /\ TearDown(e, "soft_abort")
    /\ UNCHANGED <<kept, health, server, ended, world>>

(* wait_for_health asks a port: whoever listens there answers with 200.    *)
Healthy(e, s) ==
    /\ phase[e] = "polling"
    /\ health[e][s] = "polling"
    /\ \E d \in Holders(s) : server' = [server EXCEPT ![e][s] = d]
    /\ health' = [health EXCEPT ![e][s] = "up"]
    /\ UNCHANGED <<phase, kept, removing, fate, ended, world>>

(* The deadline passes with the last poll unanswered.                      *)
Unhealthy(e, s) ==
    /\ phase[e] = "polling"
    /\ health[e][s] = "polling"
    /\ Holders(s) = {}
    /\ health' = [health EXCEPT ![e][s] = "timeout"]
    /\ UNCHANGED <<phase, kept, removing, fate, server, ended, world>>

(* gather returns when both polls have; start stops everything and raises  *)
(* unless both are up.                                                     *)
Gathered(e) ==
    /\ phase[e] = "polling"
    /\ \A s \in Checked : health[e][s] # "polling"
    /\ Goto(e, IF \A s \in Checked : health[e][s] = "up"
                 THEN "judges" ELSE "aborting")
    /\ UNCHANGED <<python, ended, world>>

Missing(e) == {n \in Panels[e] : container[n] # e}

(* docker run --name n, which refuses a name that is in use.               *)
RunJudge(e, n) ==
    /\ phase[e] = "judges"
    /\ n \in Missing(e)
    /\ container[n] = Nobody
    /\ docker = "ok"
    /\ container' = [container EXCEPT ![n] = e]
    /\ UNCHANGED <<runner, proc, docker>>

\* Mutant of RunJudgeRaises: the exit code of docker run is not checked.
RunJudgeIgnored(e, n) ==
    /\ phase[e] = "judges"
    /\ n \in Missing(e)
    /\ container[n] # Nobody \/ docker # "ok"
    /\ Goto(e, "executing")
    /\ UNCHANGED <<python, ended, world>>

(* A non-zero exit is raised, and so is a docker that is not there.        *)
RunJudgeRaises(e, n) ==
    /\ phase[e] = "judges"
    /\ n \in Missing(e)
    /\ container[n] # Nobody \/ docker # "ok"
    /\ TearDown(e, "soft_abort")
    /\ UNCHANGED <<kept, health, server, ended, world>>

StartExecuting(e) ==
    /\ phase[e] = "judges"
    /\ Missing(e) = {}
    /\ Goto(e, "executing")
    /\ UNCHANGED <<python, ended, world>>

(* _execute catches what its tasks raise and returns; a task that failed   *)
(* twice has set soft_abort.                                               *)
Executed(e) ==
    /\ phase[e] = "executing"
    /\ \E f \in {"fine", "soft_abort"} : TearDown(e, f)
    /\ UNCHANGED <<kept, health, server, ended, world>>

-----------------------------------------------------------------------------
(* Tear-down *)

\* Mutant of RemoveJudge: only what this experiment created is removed.
RemoveOwn(e, n) ==
    /\ phase[e] = "removing"
    /\ n \in removing[e]
    /\ docker # "missing"
    /\ removing' = [removing EXCEPT ![e] = @ \ {n}]
    /\ container' = IF docker = "ok" /\ container[n] = e
                       THEN [container EXCEPT ![n] = Nobody] ELSE container
    /\ UNCHANGED <<phase, kept, health, fate, server, ended, proc, docker>>

(* docker rm -f n, whose exit code nobody reads.                           *)
RemoveJudge(e, n) ==
    /\ phase[e] = "removing"
    /\ n \in removing[e]
    /\ docker # "missing"
    /\ removing' = [removing EXCEPT ![e] = @ \ {n}]
    /\ container' = IF docker = "ok" THEN [container EXCEPT ![n] = Nobody]
                                     ELSE container
    /\ UNCHANGED <<phase, kept, health, fate, server, ended, proc, docker>>

(* Without a docker to run, _teardown raises before it stops the services. *)
RemoveRaises(e) ==
    /\ phase[e] = "removing"
    /\ removing[e] # {}
    /\ docker = "missing"
    /\ Goto(e, "unwinding")
    /\ fate' = [fate EXCEPT ![e] = "raising"]
    /\ UNCHANGED <<kept, health, removing, server, ended, world>>

(* infra.stop begins: a SIGTERM to each process in _procs, which asks it   *)
(* for what it may do at any time, to Die.                                 *)
Removed(e) ==
    /\ phase[e] = "removing"
    /\ removing[e] = {}
    /\ Goto(e, "stopping")
    /\ UNCHANGED <<python, ended, world>>

\* Mutant of Kill: the wait for a process has no timeout.
NeverKill(e, s) ==
    /\ phase[e] \in {"aborting", "stopping"}
    /\ s \in kept[e]
    /\ ~ Alive(e, s)
    /\ UNCHANGED vars

(* infra.stop waits for the processes in turn and kills one after 5 s.     *)
Kill(e, s) ==
    /\ phase[e] \in {"aborting", "stopping"}
    /\ s \in kept[e]
    /\ Alive(e, s)
    /\ \A i, j \in DOMAIN Order :
         Order[i] = s /\ j < i => ~ Alive(e, Order[j])
    /\ proc' = [proc EXCEPT ![e][s] = "dead"]
    /\ UNCHANGED <<runner, container, docker>>

\* Mutant of Reaped: stop signals and does not wait.
Signalled(e) == kept[e] \subseteq Services

Reaped(e) == \A s \in kept[e] : ~ Alive(e, s)

(* start, having stopped what it started, raises.                          *)
Aborted(e) ==
    /\ phase[e] = "aborting"
    /\ Reaped(e)
    /\ kept' = [kept EXCEPT ![e] = {}]
    /\ TearDown(e, "soft_abort")
    /\ UNCHANGED <<health, server, ended, world>>

(* run goes on after its finally, unless an exception is on its way.       *)
Stopped(e) ==
    /\ phase[e] = "stopping"
    /\ Reaped(e)
    /\ kept' = [kept EXCEPT ![e] = {}]
    /\ Goto(e, "exiting")
    /\ ended' = IF fate[e] = "raising" THEN ended ELSE ended \cup {e}
    /\ UNCHANGED <<health, removing, fate, server, world>>

(* What an interpreter knows is gone with it.                              *)
Forget(e) ==
    /\ kept' = [kept EXCEPT ![e] = {}]
    /\ health' = [health EXCEPT ![e] = [s \in Checked |-> "polling"]]
    /\ removing' = [removing EXCEPT ![e] = {}]
    /\ fate' = [fate EXCEPT ![e] = "fine"]
    /\ server' = [server EXCEPT ![e] = [s \in Checked |-> Nobody]]

(* The interpreter ends.  No code stops the children it still has, which   *)
(* run on; if asyncio finalizes their transports, it kills them, and they  *)
(* Die.                                                                    *)
Exit(e) ==
    /\ \/ phase[e] = "exiting" /\ Goto(e, "over")
       \/ phase[e] = "unwinding" /\ Goto(e, "broken")
    /\ Forget(e)
    /\ UNCHANGED <<ended, world>>

-----------------------------------------------------------------------------
(* What comes from outside *)

(* Ctrl-C cancels run at an await: in the try, finally still tears down;   *)
(* in the tear-down, the rest of it is skipped.                            *)
Interrupt(e) ==
    /\ \/ /\ phase[e] \in InSetup
          /\ TearDown(e, "raising")
       \/ /\ phase[e] \in InTeardown
          /\ Goto(e, "unwinding")
          /\ fate' = [fate EXCEPT ![e] = "raising"]
          /\ UNCHANGED removing
    /\ UNCHANGED <<kept, health, server, ended, world>>

(* The experiment's process is killed: no finally runs.                    *)
Crash(e) ==
    /\ phase[e] \in InSetup \cup InTeardown \cup Exiting
    /\ Goto(e, "crashed")
    /\ Forget(e)
    /\ UNCHANGED <<ended, world>>

(* A service listens if its port is free; if not it can only die.          *)
Bind(e, s) ==
    /\ proc[e][s] = "starting"
    /\ Holders(s) = {}
    /\ proc' = [proc EXCEPT ![e][s] = "listening"]
    /\ UNCHANGED <<runner, container, docker>>

Die(e, s) ==
    /\ Alive(e, s)
    /\ proc' = [proc EXCEPT ![e][s] = "dead"]
    /\ UNCHANGED <<runner, container, docker>>

DaemonStops ==
    /\ docker = "ok"
    /\ docker' = "down"
    /\ UNCHANGED <<runner, proc, container>>

Setup(e) ==
    \/ Begin(e) \/ Spawn(e) \/ SpawnRaises(e)
    \/ \E s \in Checked : Healthy(e, s) \/ Unhealthy(e, s)
    \/ Gathered(e)
    \/ \E n \in Panels[e] : RunJudge(e, n) \/ RunJudgeRaises(e, n)
    \/ StartExecuting(e) \/ Executed(e)

Teardown(e) ==
    \/ \E n \in Panels[e] : RemoveJudge(e, n)
    \/ RemoveRaises(e) \/ Removed(e)
    \/ \E s \in Services : Kill(e, s)
    \/ Aborted(e) \/ Stopped(e) \/ Exit(e)

Outside(e) ==
    \/ Interrupt(e) \/ Crash(e)
    \/ \E s \in Services : Bind(e, s) \/ Die(e, s)

Next ==
    \/ \E e \in Experiments : Setup(e) \/ Teardown(e) \/ Outside(e)
    \/ DaemonStops

Spec == Init /\ [][Next]_vars

(* The experiment's event loop runs, execution returns (ExperimentEnds of  *)
(* ScenarioRuns), timeouts fire and a SIGKILL takes.  Nothing is assumed   *)
(* of the services: one may ignore SIGTERM, or never come up.              *)
FairSpec == Spec /\ WF_vars(\E e \in Experiments : Setup(e) \/ Teardown(e))

-----------------------------------------------------------------------------
(* Properties *)

(* The judge containers an experiment executes with are its own, although  *)
(* an earlier one may have left containers of the same names: docker run   *)
(* refuses the name, and the set-up fails rather than use a stranger.      *)
OwnContainers ==
    \A e \in Experiments : phase[e] = "executing" =>
        \A n \in Panels[e] : container[n] = e

(* The services that d, now over, may have left running: any, if it was    *)
(* killed or an exception left its _teardown, and those it did spawn, if   *)
(* it could not spawn them all.                                            *)
MayLeave(d, s) ==
    \/ phase[d] \in {"crashed", "broken"}
    \/ /\ phase[d] = "over"
       /\ s # "orchestrator" /\ proc[d]["orchestrator"] = "none"

(* An experiment executes only after its own orchestrator and honeypot     *)
(* have answered, or leftovers of earlier ones: wait_for_health asks the   *)
(* port and not the process, so a leftover answers for the new service,    *)
(* which cannot bind.  Only a kill, a tear-down cut short (Ctrl-C, no      *)
(* docker) and an incomplete spawn leave any; a tear-down that ran to its  *)
(* end, after whatever failure, leaves none of a complete set of services. *)
ServedByOwn ==
    \A e \in Experiments, s \in Checked : phase[e] = "executing" =>
        \/ server[e][s] = e
        \/ server[e][s] \in 1 .. e - 1 /\ MayLeave(server[e][s], s)

(* The ExperimentEnd event says that the three services are down: it       *)
(* follows infra.stop, which waits for each, in whatever state it was.     *)
(* Where not all three were spawned, stop knows of none of them.           *)
EndMeansStopped ==
    \A e \in ended :
        (\A s \in Services : proc[e][s] # "none")
            => \A s \in Services : ~ Alive(e, s)

(* A tear-down that docker answered frees all names of the panel, those    *)
(* that a crashed experiment left occupied too, so that a leftover fails   *)
(* one set-up and not the rest of the sweep.                               *)
NamesFreed ==
    \A e \in ended : docker = "ok" =>
        \A n \in Panels[e] : container[n] = Nobody \/ container[n] > e

(* Every experiment of the sweep comes to an end: a service that never     *)
(* comes up, or ignores SIGTERM, does not hold it up.                      *)
SweepEnds == <>(\A e \in Experiments : phase[e] \in Over)

=============================================================================
