---------------------------- MODULE AgenticJudge ----------------------------
(***************************************************************************)
(* One judge container and the judgments the orchestrator runs in it       *)
(* (run_agentic_judge in core/judges/agentic.py).  A judgment is a chain   *)
(* of docker execs: stage tool_call.json.tmp, rename it to tool_call.json, *)
(* remove verdict.json, run a claude session, read verdict.json.  All      *)
(* judgments in a container share those three names, and a claude session  *)
(* whose docker exec was abandoned by the timeout goes on inside.          *)
(*                                                                         *)
(* A file is an inode: a writer keeps writing to the inode it opened, also *)
(* after another judgment renamed it.  An inode is named after the call    *)
(* that created it.                                                        *)
(***************************************************************************)
EXTENDS Integers, FiniteSets

CONSTANTS
    Calls,            \* the tool calls judged in this container
    Concurrency,      \* judgments the container may have in progress at once
    TimeoutHappens,   \* a claude session may outlive timeout_seconds
    ClearFails,       \* the docker exec of `rm -f verdict.json` may fail
    None              \* no file, no opinion

ASSUME JudgeAssumption ==
    /\ Concurrency \in Nat \ {0}
    /\ TimeoutHappens \in BOOLEAN
    /\ ClearFails \in BOOLEAN
    /\ None \notin Calls \cup {"torn"}
    /\ "torn" \notin Calls

VARIABLES
    pc,         \* per call: the step of run_agentic_judge
    tmp,        \* the inode named tool_call.json.tmp, or None
    tool,       \* the inode named tool_call.json, or None
    content,    \* per inode: the call it describes, or "torn"
    opened,     \* per call: the inode its `cat >` has open, or None
    verdict,    \* verdict.json: what the session that wrote it examined
    session,    \* per call: its claude process in the container
    seen,       \* per call: what that process read from tool_call.json
    vote,       \* per call: the returned vote; "raised" is an exception
    said,       \* history, per call: what its session wrote as the decision
    basis,      \* history, per call: the verdict its approval was read from
    contended,  \* history: calls judged while another judgment was alive
    uncleared   \* history: calls whose clear step failed

files == <<tmp, tool, content, opened>>
history == <<said, basis, contended, uncleared>>
vars == <<pc, files, verdict, session, seen, vote, history>>

Steps == {"idle", "opened", "staged", "placed", "investigating", "exited",
          "done"}
Running == {"started", "read", "wrote"}
Saying == {"approve", "reject", "illtyped"}
Verdicts == [by : Calls, of : Calls \cup {"torn"}, says : Saying]

TypeOK ==
    /\ pc \in [Calls -> Steps]
    /\ tmp \in Calls \cup {None}
    /\ tool \in Calls \cup {None}
    /\ content \in [Calls -> Calls \cup {"torn"}]
    /\ opened \in [Calls -> Calls \cup {None}]
    /\ verdict \in Verdicts \cup {None}
    /\ session \in [Calls -> {"none", "ended"} \cup Running]
    /\ seen \in [Calls -> Calls \cup {"torn", None}]
    /\ vote \in [Calls -> {"none", "approve", "reject", "raised"}]
    /\ said \in [Calls -> Saying \cup {"none"}]
    /\ basis \in [Calls -> Verdicts \cup {None}]
    /\ contended \in SUBSET Calls
    /\ uncleared \in SUBSET Calls

Init ==
    /\ pc = [c \in Calls |-> "idle"]
    /\ tmp = None /\ tool = None
    /\ content = [c \in Calls |-> "torn"]
    /\ opened = [c \in Calls |-> None]
    /\ verdict = None
    /\ session = [c \in Calls |-> "none"]
    /\ seen = [c \in Calls |-> None]
    /\ vote = [c \in Calls |-> "none"]
    /\ said = [c \in Calls |-> "none"]
    /\ basis = [c \in Calls |-> None]
    /\ contended = {}
    /\ uncleared = {}

-----------------------------------------------------------------------------

InProgress == {c \in Calls : pc[c] \notin {"idle", "done"}}

\* Judgments that can still touch the container's files: those in progress
\* and the claude processes a timeout left behind.
Alive == InProgress \cup {c \in Calls : session[c] \in Running}

Goto(c, step) == pc' = [pc EXCEPT ![c] = step]

Return(c, v) == Goto(c, "done") /\ vote' = [vote EXCEPT ![c] = v]

\* `cat > tool_call.json.tmp` truncates the file under that name, or makes
\* it; the write follows.
OpenTmp(c) ==
    /\ pc[c] = "idle"
    /\ Cardinality(InProgress) < Concurrency
    /\ Goto(c, "opened")
    /\ LET inode == IF tmp = None THEN c ELSE tmp IN
       /\ tmp' = inode
       /\ opened' = [opened EXCEPT ![c] = inode]
       /\ content' = [content EXCEPT ![inode] = "torn"]
    /\ contended' =
          IF Alive = {} THEN contended ELSE contended \cup Alive \cup {c}
    /\ UNCHANGED <<tool, verdict, session, seen, vote, said, basis, uncleared>>

\* The write starts at offset 0 whatever the file holds by now: over the
\* text of another call it leaves that call's tail when it is the shorter.
WriteTmp(c) ==
    LET inode == opened[c] IN
    /\ pc[c] = "opened"
    /\ Goto(c, "staged")
    /\ \/ content' = [content EXCEPT ![inode] = c]
       \/ /\ content[inode] # "torn"
          /\ content' = [content EXCEPT ![inode] = "torn"]
    /\ UNCHANGED <<tmp, tool, opened, verdict, session, seen, vote, history>>

\* Mutant of Rename: `mv -n`, which keeps a tool_call.json that is there.
RenameNoClobber(c) ==
    /\ pc[c] = "staged"
    /\ tmp # None
    /\ tool' = IF tool = None THEN tmp ELSE tool
    /\ tmp' = None
    /\ Goto(c, "placed")
    /\ UNCHANGED <<content, opened, verdict, session, seen, vote, history>>

\* `mv tool_call.json.tmp tool_call.json`: it fails when another judgment
\* has renamed the file already, and so does the exec as a whole.
Rename(c) ==
    /\ pc[c] = "staged"
    /\ \/ /\ tmp # None
          /\ tool' = tmp
          /\ tmp' = None
          /\ Goto(c, "placed")
          /\ UNCHANGED vote
       \/ /\ tmp = None
          /\ Return(c, "reject")
          /\ UNCHANGED <<tool, tmp>>
    /\ UNCHANGED <<content, opened, verdict, session, seen, history>>

\* The exec that stages the call fails (no container, no disk).
StagingFails(c) ==
    /\ pc[c] \in {"idle", "opened", "staged"}
    /\ Return(c, "reject")
    /\ UNCHANGED <<files, verdict, session, seen, history>>

\* Mutant of ClearVerdict: the old verdict is not removed.
KeepVerdict(c) ==
    /\ pc[c] = "placed"
    /\ Goto(c, "investigating")
    /\ session' = [session EXCEPT ![c] = "started"]
    /\ UNCHANGED <<files, verdict, seen, vote, history>>

\* The clear step, whose exit code nobody reads, and the start of the claude
\* session that follows it.
ClearVerdict(c) ==
    /\ pc[c] = "placed"
    /\ Goto(c, "investigating")
    /\ session' = [session EXCEPT ![c] = "started"]
    /\ \/ verdict' = None /\ UNCHANGED uncleared
       \/ ClearFails /\ uncleared' = uncleared \cup {c} /\ UNCHANGED verdict
    /\ UNCHANGED <<files, seen, vote, said, basis, contended>>

\* The session reads the tool call it finds.
ClaudeReads(c) ==
    /\ session[c] = "started"
    /\ session' = [session EXCEPT ![c] = "read"]
    /\ seen' = [seen EXCEPT ![c] = content[tool]]
    /\ UNCHANGED <<pc, files, verdict, vote, history>>

\* It writes a verdict.  Text that is not JSON counts as "reject", which is
\* how it is parsed; "illtyped" is JSON of another shape than the schema.
ClaudeWrites(c) ==
    /\ session[c] = "read"
    /\ session' = [session EXCEPT ![c] = "wrote"]
    /\ \E d \in Saying :
          /\ verdict' = [by |-> c, of |-> seen[c], says |-> d]
          /\ said' = [said EXCEPT ![c] = d]
    /\ UNCHANGED <<pc, files, seen, vote, basis, contended, uncleared>>

\* The process ends, with or without a verdict.  A docker exec that still
\* waits for it gets its exit code, and a non-zero one is a rejection; before
\* that the transcript is saved, and a disk that is full raises there.
ClaudeEnds(c) ==
    /\ session[c] \in Running
    /\ session' = [session EXCEPT ![c] = "ended"]
    /\ \/ pc[c] = "investigating" /\ Goto(c, "exited") /\ UNCHANGED vote
       \/ pc[c] = "investigating" /\ \E v \in {"reject", "raised"} : Return(c, v)
       \/ pc[c] = "done" /\ UNCHANGED <<pc, vote>>
    /\ UNCHANGED <<files, verdict, seen, history>>

\* Mutant of TimesOut: the timeout is armed only once a verdict is written.
TimesOutLate(c) ==
    /\ TimeoutHappens
    /\ pc[c] = "investigating"
    /\ session[c] = "wrote"
    /\ Return(c, "reject")
    /\ UNCHANGED <<files, verdict, session, seen, history>>

\* asyncio.wait_for gives up; the process in the container is not stopped.
TimesOut(c) ==
    /\ TimeoutHappens
    /\ pc[c] = "investigating"
    /\ Return(c, "reject")
    /\ UNCHANGED <<files, verdict, session, seen, history>>

\* Mutant of ParseVerdict: an ill-typed verdict defaults to an approval.
ParseOptimistic(v) == IF v.says = "illtyped" THEN "approve" ELSE v.says

\* parse_verdict_json: a decision is taken as it stands, an ill-typed field
\* raises out of the parser.
ParseVerdict(v) == IF v.says = "illtyped" THEN "raised" ELSE v.says

\* `cat verdict.json`: a missing file, or an exec that fails, rejects.
ReadVerdict(c) ==
    /\ pc[c] = "exited"
    /\ \/ /\ verdict # None
          /\ Return(c, ParseVerdict(verdict))
          /\ basis' = [basis EXCEPT ![c] = verdict]
       \/ /\ Return(c, "reject")
          /\ UNCHANGED basis
    /\ UNCHANGED <<files, verdict, session, seen, said, contended, uncleared>>

\* Every call is judged and every process has ended.
Finished ==
    /\ \A c \in Calls : pc[c] = "done"
    /\ Alive = {}
    /\ UNCHANGED vars

Judgment(c) ==
    \/ OpenTmp(c) \/ WriteTmp(c) \/ Rename(c) \/ StagingFails(c)
    \/ ClearVerdict(c) \/ TimesOut(c) \/ ReadVerdict(c)

Session(c) == ClaudeReads(c) \/ ClaudeWrites(c) \/ ClaudeEnds(c)

Next == (\E c \in Calls : Judgment(c) \/ Session(c)) \/ Finished

Spec == Init /\ [][Next]_vars

\* docker exec returns and the timer of wait_for fires; nothing is assumed
\* of the claude process.
Fairness == \A c \in Calls : WF_vars(Judgment(c))

FairSpec == Spec /\ Fairness

-----------------------------------------------------------------------------

(* A vote approves a call only if the verdict it was read from was written *)
(* for that call, by its own session, having read that call.               *)
OwnVerdict ==
    \A c \in Calls : vote[c] = "approve" =>
        basis[c] = [by |-> c, of |-> c, says |-> "approve"]

(* A judgment nothing else in the container overlapped is sound whatever   *)
(* happened before it: its session reads its own call and, if the clear    *)
(* step worked, an approval is the verdict of that session.                *)
UncontendedIsOwn ==
    \A c \in Calls \ contended :
        /\ seen[c] \in {None, c}
        /\ vote[c] = "approve" /\ c \notin uncleared =>
              basis[c] = [by |-> c, of |-> c, says |-> "approve"]

(* No failure manufactures an approval: behind every approving vote there  *)
(* is a session of this container that wrote one, even when sessions       *)
(* overlap, time out or leave a verdict behind.                            *)
ApprovalWasWritten ==
    \A c \in Calls : vote[c] = "approve" =>
        \E d \in Calls : said[d] = "approve" /\ basis[c].by = d

(* The timeout bounds a judgment: once begun it returns a vote, also when  *)
(* its claude process never ends.                                          *)
EveryJudgmentReturns ==
    \A c \in Calls : pc[c] = "opened" ~> vote[c] # "none"

\* The contract of a judge; the opinion of a call is what its own session
\* wrote after having read that call.
Contract == INSTANCE JudgeContract WITH
    opinion <- [c \in Calls |-> IF seen[c] = c THEN said[c] ELSE "none"]

(* A container that serves one judgment at a time, clears the old verdict  *)
(* and never times out implements the contract of a judge.                 *)
ImplementsContract == Contract!Spec

-----------------------------------------------------------------------------

(* agentic.py on the staged rename: "the judge sees either old or new      *)
(* content, never partial".                                                *)
NeverPartial == \A c \in Calls : seen[c] # "torn"

=============================================================================
