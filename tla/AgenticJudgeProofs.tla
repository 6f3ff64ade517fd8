------------------------- MODULE AgenticJudgeProofs -------------------------
(***************************************************************************)
(* What holds of a judge container for any number of tool calls, however   *)
(* many judgments it serves at once and whatever fails or times out; and,  *)
(* for a container that serves one judgment at a time, that it implements  *)
(* the contract of a judge.                                                *)
(***************************************************************************)
EXTENDS AgenticJudge, FiniteSetTheorems, TLAPS

-----------------------------------------------------------------------------
\* The inductive invariant.

\* How far a judgment and its session are, and what they have left behind.
Progress(c) ==
    /\ pc[c] \in {"idle", "opened", "staged", "placed"} => session[c] = "none"
    /\ pc[c] = "investigating" => session[c] \in Running
    /\ pc[c] = "exited" => session[c] = "ended"
    /\ pc[c] = "placed" \/ session[c] \in Running => tool # None
    /\ session[c] \in {"none", "started"} => seen[c] = None
    /\ session[c] \in {"none", "started", "read"} => said[c] = "none"
    /\ session[c] \in {"read", "wrote"} \/ said[c] # "none" => seen[c] # None
    /\ vote[c] # "none" => pc[c] = "done"

\* A judgment that nothing overlapped is alone as long as it is alive.
Alone(c) == c \in Alive \ contended => \A d \in Calls \ {c} : d \notin Alive

\* The files belong to the judgment that is alone with them.
Sound(c) ==
    c \notin contended =>
        /\ pc[c] = "opened" =>
              tmp \in Calls /\ opened[c] = tmp /\ content[tmp] = "torn"
        /\ pc[c] = "staged" => tmp \in Calls /\ content[tmp] = c
        /\ pc[c] = "placed" \/ session[c] = "started" =>
              tool \in Calls /\ content[tool] = c
        /\ seen[c] \in {None, c}
        /\ pc[c] \in {"investigating", "exited"} /\ c \notin uncleared =>
              \/ verdict = None
              \/ verdict = [by |-> c, of |-> c, says |-> said[c]]
                 /\ said[c] # "none"
        /\ vote[c] = "approve" /\ c \notin uncleared =>
              /\ basis[c] = [by |-> c, of |-> c, says |-> "approve"]
              /\ said[c] = "approve"

JudgeInv ==
    /\ TypeOK
    /\ \A c \in Calls : Progress(c) /\ Alone(c) /\ Sound(c)

USE JudgeAssumption

LEMMA InitEstablishes == Init => JudgeInv
BY DEF Init, JudgeInv, TypeOK, Steps, Running, Progress, Alone, Sound, Alive,
   InProgress

LEMMA OpenTmpPreserves ==
  ASSUME JudgeInv, NEW c \in Calls, OpenTmp(c)
  PROVE  JudgeInv'
<1> USE DEF JudgeInv, TypeOK, Steps, Running, Saying, Verdicts, Progress, Alone,
            Alive, InProgress, Goto, Return, files, history, OpenTmp
<1>1. TypeOK'
  OBVIOUS
<1>2. ASSUME NEW d \in Calls PROVE Progress(d)'
  OBVIOUS
<1>3. ASSUME NEW d \in Calls PROVE Alone(d)'
  OBVIOUS
<1>4. ASSUME NEW d \in Calls PROVE Sound(d)'
  <2>1. CASE d = c
    BY <2>1 DEF Sound
  <2>2. CASE d # c
    BY <2>2 DEF Sound
  <2>3. QED
    BY <2>1, <2>2
<1>5. QED
  BY <1>1, <1>2, <1>3, <1>4

LEMMA WriteTmpPreserves ==
  ASSUME JudgeInv, NEW c \in Calls, WriteTmp(c)
  PROVE  JudgeInv'
<1> USE DEF JudgeInv, TypeOK, Steps, Running, Saying, Verdicts, Progress, Alone,
            Alive, InProgress, Goto, Return, files, history, WriteTmp
<1>1. TypeOK'
  OBVIOUS
<1>2. ASSUME NEW d \in Calls PROVE Progress(d)'
  OBVIOUS
<1>3. ASSUME NEW d \in Calls PROVE Alone(d)'
  OBVIOUS
<1>4. ASSUME NEW d \in Calls PROVE Sound(d)'
  <2>1. CASE d = c
    BY <2>1 DEF Sound
  <2>2. CASE d # c
    BY <2>2 DEF Sound
  <2>3. QED
    BY <2>1, <2>2
<1>5. QED
  BY <1>1, <1>2, <1>3, <1>4

LEMMA RenamePreserves ==
  ASSUME JudgeInv, NEW c \in Calls, Rename(c)
  PROVE  JudgeInv'
<1> USE DEF JudgeInv, TypeOK, Steps, Running, Saying, Verdicts, Progress, Alone,
            Alive, InProgress, Goto, Return, files, history, Rename
<1>1. TypeOK'
  OBVIOUS
<1>2. ASSUME NEW d \in Calls PROVE Progress(d)'
  OBVIOUS
<1>3. ASSUME NEW d \in Calls PROVE Alone(d)'
  OBVIOUS
<1>4. ASSUME NEW d \in Calls PROVE Sound(d)'
  <2>1. CASE d = c
    BY <2>1 DEF Sound
  <2>2. CASE d # c
    BY <2>2 DEF Sound
  <2>3. QED
    BY <2>1, <2>2
<1>5. QED
  BY <1>1, <1>2, <1>3, <1>4

LEMMA StagingFailsPreserves ==
  ASSUME JudgeInv, NEW c \in Calls, StagingFails(c)
  PROVE  JudgeInv'
<1> USE DEF JudgeInv, TypeOK, Steps, Running, Saying, Verdicts, Progress, Alone,
            Alive, InProgress, Goto, Return, files, history, StagingFails
<1>1. TypeOK'
  OBVIOUS
<1>2. ASSUME NEW d \in Calls PROVE Progress(d)'
  OBVIOUS
<1>3. ASSUME NEW d \in Calls PROVE Alone(d)'
  OBVIOUS
<1>4. ASSUME NEW d \in Calls PROVE Sound(d)'
  <2>1. CASE d = c
    BY <2>1 DEF Sound
  <2>2. CASE d # c
    BY <2>2 DEF Sound
  <2>3. QED
    BY <2>1, <2>2
<1>5. QED
  BY <1>1, <1>2, <1>3, <1>4

LEMMA ClearVerdictPreserves ==
  ASSUME JudgeInv, NEW c \in Calls, ClearVerdict(c)
  PROVE  JudgeInv'
<1> USE DEF JudgeInv, TypeOK, Steps, Running, Saying, Verdicts, Progress, Alone,
            Alive, InProgress, Goto, Return, files, history, ClearVerdict
<1>1. TypeOK'
  OBVIOUS
<1>2. ASSUME NEW d \in Calls PROVE Progress(d)'
  OBVIOUS
<1>3. ASSUME NEW d \in Calls PROVE Alone(d)'
  OBVIOUS
<1>4. ASSUME NEW d \in Calls PROVE Sound(d)'
  <2>1. CASE d = c
    BY <2>1 DEF Sound
  <2>2. CASE d # c
    BY <2>2 DEF Sound
  <2>3. QED
    BY <2>1, <2>2
<1>5. QED
  BY <1>1, <1>2, <1>3, <1>4

LEMMA ClaudeReadsPreserves ==
  ASSUME JudgeInv, NEW c \in Calls, ClaudeReads(c)
  PROVE  JudgeInv'
<1> USE DEF JudgeInv, TypeOK, Steps, Running, Saying, Verdicts, Progress, Alone,
            Alive, InProgress, Goto, Return, files, history, ClaudeReads
<1>1. TypeOK'
  OBVIOUS
<1>2. ASSUME NEW d \in Calls PROVE Progress(d)'
  OBVIOUS
<1>3. ASSUME NEW d \in Calls PROVE Alone(d)'
  OBVIOUS
<1>4. ASSUME NEW d \in Calls PROVE Sound(d)'
  <2>1. CASE d = c
    BY <2>1 DEF Sound
  <2>2. CASE d # c
    BY <2>2 DEF Sound
  <2>3. QED
    BY <2>1, <2>2
<1>5. QED
  BY <1>1, <1>2, <1>3, <1>4

LEMMA ClaudeWritesPreserves ==
  ASSUME JudgeInv, NEW c \in Calls, ClaudeWrites(c)
  PROVE  JudgeInv'
<1> USE DEF JudgeInv, TypeOK, Steps, Running, Saying, Verdicts, Progress, Alone,
            Alive, InProgress, Goto, Return, files, history, ClaudeWrites
<1>1. TypeOK'
  OBVIOUS
<1>2. ASSUME NEW d \in Calls PROVE Progress(d)'
  OBVIOUS
<1>3. ASSUME NEW d \in Calls PROVE Alone(d)'
  OBVIOUS
<1>4. ASSUME NEW d \in Calls PROVE Sound(d)'
  <2>1. CASE d = c
    BY <2>1 DEF Sound
  <2>2. CASE d # c
    BY <2>2 DEF Sound
  <2>3. QED
    BY <2>1, <2>2
<1>5. QED
  BY <1>1, <1>2, <1>3, <1>4

LEMMA ClaudeEndsPreserves ==
  ASSUME JudgeInv, NEW c \in Calls, ClaudeEnds(c)
  PROVE  JudgeInv'
<1> USE DEF JudgeInv, TypeOK, Steps, Running, Saying, Verdicts, Progress, Alone,
            Alive, InProgress, Goto, Return, files, history, ClaudeEnds
<1>1. TypeOK'
  OBVIOUS
<1>2. ASSUME NEW d \in Calls PROVE Progress(d)'
  OBVIOUS
<1>3. ASSUME NEW d \in Calls PROVE Alone(d)'
  OBVIOUS
<1>4. ASSUME NEW d \in Calls PROVE Sound(d)'
  <2>1. CASE d = c
    BY <2>1 DEF Sound
  <2>2. CASE d # c
    BY <2>2 DEF Sound
  <2>3. QED
    BY <2>1, <2>2
<1>5. QED
  BY <1>1, <1>2, <1>3, <1>4

LEMMA TimesOutPreserves ==
  ASSUME JudgeInv, NEW c \in Calls, TimesOut(c)
  PROVE  JudgeInv'
<1> USE DEF JudgeInv, TypeOK, Steps, Running, Saying, Verdicts, Progress, Alone,
            Alive, InProgress, Goto, Return, files, history, TimesOut
<1>1. TypeOK'
  OBVIOUS
<1>2. ASSUME NEW d \in Calls PROVE Progress(d)'
  OBVIOUS
<1>3. ASSUME NEW d \in Calls PROVE Alone(d)'
  OBVIOUS
<1>4. ASSUME NEW d \in Calls PROVE Sound(d)'
  <2>1. CASE d = c
    BY <2>1 DEF Sound
  <2>2. CASE d # c
    BY <2>2 DEF Sound
  <2>3. QED
    BY <2>1, <2>2
<1>5. QED
  BY <1>1, <1>2, <1>3, <1>4

LEMMA ReadVerdictPreserves ==
  ASSUME JudgeInv, NEW c \in Calls, ReadVerdict(c)
  PROVE  JudgeInv'
<1> USE DEF JudgeInv, TypeOK, Steps, Running, Saying, Verdicts, Progress, Alone,
            Alive, InProgress, Goto, Return, files, history, ReadVerdict,
            ParseVerdict
<1>1. TypeOK'
  OBVIOUS
<1>2. ASSUME NEW d \in Calls PROVE Progress(d)'
  OBVIOUS
<1>3. ASSUME NEW d \in Calls PROVE Alone(d)'
  OBVIOUS
<1>4. ASSUME NEW d \in Calls PROVE Sound(d)'
  <2>1. CASE d = c
    BY <2>1 DEF Sound
  <2>2. CASE d # c
    BY <2>2 DEF Sound
  <2>3. QED
    BY <2>1, <2>2
<1>5. QED
  BY <1>1, <1>2, <1>3, <1>4

LEMMA StepPreserves == JudgeInv /\ [Next]_vars => JudgeInv'
<1> SUFFICES ASSUME JudgeInv, [Next]_vars PROVE JudgeInv'
  OBVIOUS
<1>1. CASE Finished \/ UNCHANGED vars
  BY <1>1
    DEF Finished, vars, files, history, JudgeInv, TypeOK, Progress, Alone,
     Sound, Alive, InProgress
<1>2. CASE \E c \in Calls : Judgment(c) \/ Session(c)
  BY <1>2, OpenTmpPreserves, WriteTmpPreserves, RenamePreserves,
     StagingFailsPreserves, ClearVerdictPreserves, ClaudeReadsPreserves,
     ClaudeWritesPreserves, ClaudeEndsPreserves, TimesOutPreserves,
     ReadVerdictPreserves
     DEF Judgment, Session
<1>3. QED
  BY <1>1, <1>2 DEF Next

(* Every judgment keeps its place in the protocol, and the files belong to *)
(* the judgment that is alone with them.                                   *)
THEOREM JudgeInvariance == Spec => []JudgeInv
BY InitEstablishes, StepPreserves, PTL DEF Spec

(* Type correctness of the container's files and of the judgments. *)
THEOREM TypeCorrect == Spec => []TypeOK
<1>1. JudgeInv => TypeOK
  BY DEF JudgeInv
<1>2. QED
  BY <1>1, JudgeInvariance, PTL

(* A judgment nothing overlapped is sound, for any number of judgments and *)
(* whatever timed out, failed or overlapped before it.                     *)
THEOREM UncontendedIsOwnAlways == Spec => []UncontendedIsOwn
<1>1. JudgeInv => UncontendedIsOwn
  BY DEF JudgeInv, Sound, UncontendedIsOwn
<1>2. QED
  BY <1>1, JudgeInvariance, PTL

-----------------------------------------------------------------------------
\* Where approvals come from, also when judgments overlap.

\* A verdict is what the session that wrote it said, and it said it once.
WrittenInv ==
    /\ verdict # None => said[verdict.by] = verdict.says
    /\ \A c \in Calls : vote[c] = "approve" =>
          basis[c] \in Verdicts /\ said[basis[c].by] = "approve"

LEMMA WrittenStep ==
  ASSUME JudgeInv, WrittenInv, [Next]_vars
  PROVE  WrittenInv'
<1> USE DEF JudgeInv, WrittenInv, TypeOK, Progress, Verdicts, Goto, Return,
            files, history
<1>1. ASSUME NEW c \in Calls, OpenTmp(c) \/ WriteTmp(c) \/ ClearVerdict(c)
      PROVE  WrittenInv'
  BY <1>1 DEF OpenTmp, WriteTmp, ClearVerdict
<1>2. ASSUME NEW c \in Calls, Rename(c) \/ StagingFails(c) \/ TimesOut(c)
      PROVE  WrittenInv'
  BY <1>2 DEF Rename, StagingFails, TimesOut
<1>3. ASSUME NEW c \in Calls, ClaudeReads(c) \/ ClaudeEnds(c)
      PROVE  WrittenInv'
  BY <1>3 DEF ClaudeReads, ClaudeEnds
<1>4. ASSUME NEW c \in Calls, ClaudeWrites(c)
      PROVE  WrittenInv'
  <2>1. said[c] = "none" /\ verdict'.by = c
    BY <1>4 DEF ClaudeWrites
  <2>2. said'[c] = verdict'.says /\ \A d \in Calls \ {c} : said'[d] = said[d]
    BY <1>4 DEF ClaudeWrites
  <2>3. QED
    BY <1>4, <2>1, <2>2 DEF ClaudeWrites
<1>5. ASSUME NEW c \in Calls, ReadVerdict(c)
      PROVE  WrittenInv'
  BY <1>5 DEF ReadVerdict, ParseVerdict
<1>6. CASE Finished \/ UNCHANGED vars
  BY <1>6 DEF Finished, vars
<1>7. QED
  BY <1>1, <1>2, <1>3, <1>4, <1>5, <1>6 DEF Next, Judgment, Session

(* No interleaving, timeout or failed exec manufactures an approval.       *)
THEOREM ApprovalWasWrittenAlways == Spec => []ApprovalWasWritten
<1>1. Init => WrittenInv
  BY DEF Init, WrittenInv
<1>2. JudgeInv /\ WrittenInv /\ [Next]_vars => WrittenInv'
  BY WrittenStep
<1>3. WrittenInv => ApprovalWasWritten
  BY DEF WrittenInv, ApprovalWasWritten, Verdicts
<1>4. QED
  BY <1>1, <1>2, <1>3, JudgeInvariance, PTL DEF Spec

-----------------------------------------------------------------------------
\* A container that serves one judgment at a time.

\* One judgment in progress, no timeout, no failing clear step.
SerialContainer ==
    /\ Concurrency = 1
    /\ ~TimeoutHappens
    /\ ~ClearFails
    /\ IsFiniteSet(Calls)

\* Sessions end with their judgment, so that judgments never meet.
SerialInv ==
    /\ contended = {}
    /\ uncleared = {}
    /\ \A c \in Calls : session[c] \in Running => pc[c] = "investigating"

LEMMA SerialStep ==
  ASSUME SerialContainer, JudgeInv, SerialInv, [Next]_vars
  PROVE  SerialInv'
<1> USE DEF JudgeInv, SerialInv, TypeOK, Steps, Running, Progress, Goto,
            Return, files, history
<1>1. ASSUME NEW c \in Calls, OpenTmp(c) PROVE SerialInv'
  <2>1. InProgress \subseteq Calls /\ IsFiniteSet(InProgress)
    BY FS_Subset DEF InProgress, SerialContainer
  <2>2. Cardinality(InProgress) \in Nat /\ Cardinality(InProgress) < 1
    BY <1>1, <2>1, FS_CardinalityType DEF OpenTmp, SerialContainer
  <2>3. InProgress = {}
    BY <2>1, <2>2, FS_EmptySet
  <2>4. Alive = {}
    BY <2>3 DEF Alive, InProgress
  <2>5. contended' = contended
    BY <1>1, <2>4 DEF OpenTmp
  <2>6. QED
    BY <1>1, <2>5 DEF OpenTmp
<1>2. ASSUME NEW c \in Calls,
             \/ WriteTmp(c) \/ Rename(c) \/ StagingFails(c)
             \/ ClearVerdict(c) \/ TimesOut(c) \/ ReadVerdict(c)
      PROVE  SerialInv'
  BY <1>2 DEF SerialContainer, WriteTmp, Rename, StagingFails, ClearVerdict,
     TimesOut, ReadVerdict
<1>3. ASSUME NEW c \in Calls, Session(c) PROVE SerialInv'
  BY <1>3 DEF Session, ClaudeReads, ClaudeWrites, ClaudeEnds
<1>4. CASE Finished \/ UNCHANGED vars
  BY <1>4 DEF Finished, vars
<1>5. QED
  BY <1>1, <1>2, <1>3, <1>4 DEF Next, Judgment

THEOREM SerialInvariance ==
  ASSUME SerialContainer PROVE Spec => [](JudgeInv /\ SerialInv)
<1>1. Init => SerialInv
  BY DEF Init, SerialInv, Running
<1>2. JudgeInv /\ SerialInv /\ [Next]_vars => SerialInv'
  BY SerialStep
<1>3. QED
  BY <1>1, <1>2, JudgeInvariance, PTL DEF Spec

(* In a serial container every approval is the verdict that the call's own *)
(* session wrote for it.                                                   *)
THEOREM OwnVerdictAlways == ASSUME SerialContainer PROVE Spec => []OwnVerdict
<1>1. JudgeInv /\ SerialInv => OwnVerdict
  BY DEF JudgeInv, SerialInv, Sound, OwnVerdict
<1>2. QED
  BY <1>1, SerialInvariance, PTL

(* A serial container implements the contract of a judge: the vote follows *)
(* the opinion its session formed of that very call.                       *)
THEOREM SerialImplementsContract ==
  ASSUME SerialContainer PROVE Spec => ImplementsContract
<1> DEFINE opinion == [c \in Calls |-> IF seen[c] = c THEN said[c] ELSE "none"]
<1>1. Init => Contract!Init
  BY DEF Init, Contract!Init
<1>2. JudgeInv /\ SerialInv /\ [Next]_vars => [Contract!Next]_(Contract!vars)
  <2> SUFFICES ASSUME JudgeInv, SerialInv, [Next]_vars
               PROVE  [Contract!Next]_(Contract!vars)
    OBVIOUS
  <2> USE DEF JudgeInv, SerialInv, TypeOK, Progress, Sound, Goto, Return,
              files, history
  <2>1. ASSUME NEW c \in Calls,
               \/ OpenTmp(c) \/ WriteTmp(c) \/ ClearVerdict(c)
        PROVE  UNCHANGED Contract!vars
    BY <2>1 DEF OpenTmp, WriteTmp, ClearVerdict, Contract!vars
  <2>2. ASSUME NEW c \in Calls, ClaudeReads(c)
        PROVE  UNCHANGED Contract!vars
    <3>1. said[c] = "none" /\ said' = said /\ vote' = vote
      BY <2>2 DEF ClaudeReads
    <3>2. \A d \in Calls \ {c} : seen'[d] = seen[d]
      BY <2>2 DEF ClaudeReads
    <3>3. QED
      BY <3>1, <3>2 DEF Contract!vars
  <2>3. ASSUME NEW c \in Calls, ClaudeWrites(c)
        PROVE  Contract!Examine(c)
    <3>1. said[c] = "none" /\ seen[c] = c
      BY <2>3, JudgeAssumption DEF ClaudeWrites
    <3>2. PICK d \in Saying : said' = [said EXCEPT ![c] = d]
      BY <2>3 DEF ClaudeWrites
    <3>3. opinion[c] = "none" /\ opinion' = [opinion EXCEPT ![c] = d]
      BY <2>3, <3>1, <3>2 DEF ClaudeWrites
    <3>4. QED
      BY <2>3, <3>2, <3>3 DEF ClaudeWrites, Saying, Contract!Examine
  <2>4. ASSUME NEW c \in Calls,
               \/ StagingFails(c) \/ TimesOut(c) \/ Rename(c) \/ ClaudeEnds(c)
        PROVE  Contract!Answer(c) \/ UNCHANGED Contract!vars
    BY <2>4 DEF StagingFails, TimesOut, Rename, ClaudeEnds, Contract!Answer,
       Contract!vars
  <2>5. ASSUME NEW c \in Calls, ReadVerdict(c)
        PROVE  Contract!Answer(c)
    <3>1. vote[c] = "none" /\ UNCHANGED opinion
      BY <2>5 DEF ReadVerdict
    <3>2. PICK v \in {"approve", "reject", "raised"} :
             vote' = [vote EXCEPT ![c] = v] /\ (v = "approve" => said[c] = "approve")
      BY <2>5 DEF ReadVerdict, ParseVerdict, Verdicts, Saying
    <3>3. said[c] = "approve" => seen[c] = c
      BY <2>5
    <3>4. QED
      BY <3>1, <3>2, <3>3 DEF Contract!Answer
  <2>6. CASE Finished \/ UNCHANGED vars
    BY <2>6 DEF Finished, vars, Contract!vars
  <2>7. QED
    BY <2>1, <2>2, <2>3, <2>4, <2>5, <2>6
       DEF Next, Judgment, Session, Contract!Next
<1>3. QED
  BY <1>1, <1>2, SerialInvariance, PTL
     DEF Spec, ImplementsContract, Contract!Spec

=============================================================================
