---------------------------- MODULE ResultsProofs ----------------------------
(***************************************************************************)
(* What holds of the results of an experiment of any size: the scan of a   *)
(* transcript of any length, the two event streams and the numbers         *)
(* computed from them.                                                     *)
(***************************************************************************)
EXTENDS Results, FiniteSetTheorems, TLAPS

USE ResultsAssumption

AnalysisTypeOK ==
    /\ tries \in [Task -> 0 .. 2]
    /\ done \subseteq Task
    /\ at \in Task \cup {None}
    /\ stage \in {"none", "scanning", "inspected", "labelled"}
    /\ at = None <=> stage = "none"
    /\ stage # "none" => tries[at] \in {1, 2}

ScanTypeOK ==
    /\ stream \in Seq(Uses) /\ Len(stream) <= MaxUses
    /\ found \in Found

EventsTypeOK ==
    /\ inspections \subseteq Inspection
    /\ ends \subseteq End
    /\ IsFiniteSet(ends)

Typed == AnalysisTypeOK /\ ScanTypeOK /\ EventsTypeOK

-----------------------------------------------------------------------------
\* The actions by what they change.

LEMMA BeginTyped ==
  ASSUME Typed, NEW t \in Task, Begin(t) PROVE Typed'
<1>1. AnalysisTypeOK'
  BY DEF Typed, AnalysisTypeOK, Begin, Task
<1>2. ScanTypeOK'
  BY DEF Typed, ScanTypeOK, Begin, NothingFound, Found
<1>3. EventsTypeOK'
  BY DEF Typed, EventsTypeOK, Begin
<1>4. QED
  BY <1>1, <1>2, <1>3 DEF Typed

LEMMA ScanTyped ==
  ASSUME Typed, NEW u \in Uses, Scan(u) PROVE Typed'
<1>1. AnalysisTypeOK'
  BY DEF Typed, AnalysisTypeOK, Scan
<1>2. Len(stream) \in Index /\ Len(stream') = Len(stream) + 1
      /\ stream' \in Seq(Uses) /\ Len(stream') <= MaxUses
  BY DEF Typed, ScanTypeOK, Scan, Index
<1>3. \A old \in Index \cup {None}, hit \in BOOLEAN :
         First(old, hit) \in Index \cup {None}
  BY <1>2 DEF First
<1>4. found' \in Found
  <2>1. /\ ReadsTrojan(u) \in BOOLEAN
        /\ ReadsTarget(u) \in BOOLEAN
        /\ Triggers(u) \in BOOLEAN
    BY DEF ReadsTrojan, ReadsTarget, Triggers
  <2>2. /\ found.strict \in Index \cup {None}
        /\ found.loose \in Index \cup {None}
        /\ found.danger \in Index \cup {None}
    BY DEF Typed, ScanTypeOK, Found
  <2>3. QED
    BY <1>3, <2>1, <2>2 DEF Scan, Found
<1>5. EventsTypeOK'
  BY DEF Typed, EventsTypeOK, Scan
<1>6. QED
  BY <1>1, <1>2, <1>4, <1>5 DEF Typed, ScanTypeOK

\* The event Inspect writes.
Signal == [task |-> at, try |-> tries[at], strict |-> Before(found.strict),
           loose |-> Before(found.loose), executed |-> found.danger # None]

LEMMA Attempted ==
  ASSUME Typed, stage # "none"
  PROVE  at \in Task /\ tries[at] \in {1, 2}
BY DEF Typed, AnalysisTypeOK

LEMMA InspectTyped ==
  ASSUME Typed, Inspect PROVE Typed'
<1>1. AnalysisTypeOK'
  BY DEF Typed, AnalysisTypeOK, Inspect
<1>2. ScanTypeOK'
  BY DEF Typed, ScanTypeOK, Inspect, scan
<1>3. EventsTypeOK'
  <2>1. Before(found.strict) \in BOOLEAN /\ Before(found.loose) \in BOOLEAN
        /\ (found.danger # None) \in BOOLEAN
    BY Zenon DEF Before
  <2>2. at \in Task /\ tries[at] \in {1, 2}
    BY Attempted DEF Inspect
  <2>3. Signal \in Inspection
    BY <2>1, <2>2 DEF Signal, Inspection
  <2>4. inspections' \subseteq inspections \cup {Signal} /\ ends' = ends
    BY DEF Inspect, Signal
  <2>5. QED
    BY <2>3, <2>4 DEF Typed, EventsTypeOK
<1>4. QED
  BY <1>1, <1>2, <1>3 DEF Typed

LEMMA LabelTyped ==
  ASSUME Typed, Label PROVE Typed'
<1>1. AnalysisTypeOK'
  BY DEF Typed, AnalysisTypeOK, Label
<1>2. ScanTypeOK'
  BY DEF Typed, ScanTypeOK, Label, scan
<1>3. EventsTypeOK'
  <2>1. PICK saw \in BOOLEAN, rejected \in BOOLEAN, rc \in ReturnCodes :
           ends' = ends \cup
             {[task |-> at, try |-> tries[at], saw |-> saw,
               outcome |-> Classify(saw, rc, Dangerous, rejected, IsAttack(at))]}
    BY DEF Label
  <2>2. Classify(saw, rc, Dangerous, rejected, IsAttack(at)) \in Outcomes
    BY DEF Classify, ClassifyAttempted, ClassifyQuiet, Outcomes
  <2>3. at \in Task /\ tries[at] \in {1, 2}
    BY Attempted DEF Label
  <2>4. ends' \subseteq End
    BY <2>1, <2>2, <2>3 DEF Typed, EventsTypeOK, End
  <2>5. IsFiniteSet(ends')
    BY <2>1, FS_AddElement DEF Typed, EventsTypeOK
  <2>6. QED
    BY <2>4, <2>5 DEF Typed, EventsTypeOK, Label
<1>4. QED
  BY <1>1, <1>2, <1>3 DEF Typed

LEMMA LeaveTyped ==
  ASSUME Typed, Save \/ Raise PROVE Typed'
<1>1. AnalysisTypeOK'
  BY DEF Typed, AnalysisTypeOK, Save, Raise, Leave
<1>2. ScanTypeOK'
  <2>1. stream' = <<>> /\ found' = NothingFound
    BY DEF Save, Raise, Leave
  <2>2. QED
    BY <2>1 DEF ScanTypeOK, NothingFound, Found
<1>3. EventsTypeOK'
  BY DEF Typed, EventsTypeOK, Save, Raise, Leave
<1>4. QED
  BY <1>1, <1>2, <1>3 DEF Typed

LEMMA InitTyped == Init => Typed
<1> SUFFICES ASSUME Init PROVE Typed
  OBVIOUS
<1>1. AnalysisTypeOK
  BY DEF Init, AnalysisTypeOK
<1>2. ScanTypeOK
  BY DEF Init, ScanTypeOK, NothingFound, Found
<1>3. EventsTypeOK
  BY FS_EmptySet DEF Init, EventsTypeOK
<1>4. QED
  BY <1>1, <1>2, <1>3 DEF Typed

LEMMA StutterTyped ==
  ASSUME Typed, Finished \/ UNCHANGED vars PROVE Typed'
BY DEF Typed, AnalysisTypeOK, ScanTypeOK, EventsTypeOK, Finished, vars, scan

LEMMA TypedAlways == Spec => []Typed
<1>1. Typed /\ [Next]_vars => Typed'
  BY BeginTyped, ScanTyped, InspectTyped, LabelTyped, LeaveTyped, StutterTyped
     DEF Next
<1>2. QED
  BY <1>1, InitTyped, PTL DEF Spec

(* Type correctness, for any scenarios, repetitions and transcripts. *)
THEOREM TypeCorrect == Spec => []TypeOK
<1>1. Typed => TypeOK
  BY DEF Typed, AnalysisTypeOK, ScanTypeOK, EventsTypeOK, TypeOK
<1>2. QED
  BY <1>1, TypedAlways, PTL

-----------------------------------------------------------------------------
\* The scan.

TrojanReads == {u \in Uses : ReadsTrojan(u)}
TargetReads == {u \in Uses : ReadsTarget(u)}
Triggering == {u \in Uses : Triggers(u)}

\* An index is that of the first use in S, or None if there is none.
IsFirst(s, index, S) ==
    /\ index = None => \A j \in 1 .. Len(s) : s[j] \notin S
    /\ index # None =>
          /\ index \in Nat /\ index < Len(s)
          /\ s[index + 1] \in S
          /\ \A j \in 1 .. index : s[j] \notin S

ScanInv ==
    /\ IsFirst(stream, found.strict, TrojanReads)
    /\ IsFirst(stream, found.loose, TargetReads)
    /\ IsFirst(stream, found.danger, Triggering)
    /\ stage # "none" /\ ~IsAttack(at) =>
          \A j \in 1 .. Len(stream) : stream[j] = "other"

\* One more use keeps the index of the first, and is it if there was none.
LEMMA FirstKept ==
  ASSUME NEW s \in Seq(Uses), NEW u \in Uses, NEW S \in SUBSET Uses,
         NEW index, IsFirst(s, index, S)
  PROVE  IsFirst(Append(s, u),
                 IF index = None /\ u \in S THEN Len(s) ELSE index, S)
<1> DEFINE t == Append(s, u)
<1>1. /\ Len(t) = Len(s) + 1 /\ Len(s) \in Nat
      /\ \A j \in 1 .. Len(s) : t[j] = s[j]
      /\ t[Len(s) + 1] = u
  OBVIOUS
<1> SUFFICES IsFirst(t, IF index = None /\ u \in S THEN Len(s) ELSE index, S)
  OBVIOUS
<1> HIDE DEF t
<1>2. CASE index # None
  BY <1>1, <1>2 DEF IsFirst
<1>3. CASE index = None /\ u \in S
  <2>1. Len(s) # None
    BY <1>1
  <2>2. QED
    BY <1>1, <1>3, <2>1 DEF IsFirst
<1>4. CASE index = None /\ u \notin S
  <2>1. \A j \in 1 .. Len(t) : t[j] \notin S
    BY <1>1, <1>4 DEF IsFirst
  <2>2. QED
    BY <1>4, <2>1 DEF IsFirst
<1>5. QED
  BY <1>2, <1>3, <1>4

LEMMA NothingFirst ==
  ASSUME NEW S PROVE IsFirst(<<>>, None, S)
BY DEF IsFirst

LEMMA ScanKeepsScanInv ==
  ASSUME Typed, ScanInv, NEW u \in Uses, Scan(u) PROVE ScanInv'
<1>1. /\ TrojanReads \in SUBSET Uses /\ (ReadsTrojan(u) <=> u \in TrojanReads)
      /\ TargetReads \in SUBSET Uses /\ (ReadsTarget(u) <=> u \in TargetReads)
      /\ Triggering \in SUBSET Uses /\ (Triggers(u) <=> u \in Triggering)
  BY DEF TrojanReads, TargetReads, Triggering
<1>2. stream \in Seq(Uses) /\ stream' = Append(stream, u)
  BY DEF Typed, ScanTypeOK, Scan
<1>3. /\ found'.strict = First(found.strict, ReadsTrojan(u))
      /\ found'.loose = First(found.loose, ReadsTarget(u))
      /\ found'.danger = First(found.danger, Triggers(u))
  BY DEF Scan
<1>4. IsFirst(stream', found'.strict, TrojanReads)
  <2>1. found'.strict =
          IF found.strict = None /\ u \in TrojanReads
          THEN Len(stream) ELSE found.strict
    BY <1>1, <1>3 DEF First
  <2>2. QED
    BY <1>1, <1>2, <2>1, FirstKept DEF ScanInv
<1>5. IsFirst(stream', found'.loose, TargetReads)
  <2>1. found'.loose =
          IF found.loose = None /\ u \in TargetReads
          THEN Len(stream) ELSE found.loose
    BY <1>1, <1>3 DEF First
  <2>2. QED
    BY <1>1, <1>2, <2>1, FirstKept DEF ScanInv
<1>6. IsFirst(stream', found'.danger, Triggering)
  <2>1. found'.danger =
          IF found.danger = None /\ u \in Triggering
          THEN Len(stream) ELSE found.danger
    BY <1>1, <1>3 DEF First
  <2>2. QED
    BY <1>1, <1>2, <2>1, FirstKept DEF ScanInv
<1>7. ASSUME stage' # "none", ~IsAttack(at')
      PROVE  \A j \in 1 .. Len(stream') : stream'[j] = "other"
  <2>1. u = "other" /\ stage # "none" /\ ~IsAttack(at)
    BY <1>7 DEF Scan, IsAttack
  <2>2. QED
    BY <1>2, <2>1 DEF ScanInv
<1>8. QED
  BY <1>4, <1>5, <1>6, <1>7 DEF ScanInv, IsAttack

LEMMA ScanInvAlways == Spec => []ScanInv
<1>1. Init => ScanInv
  BY NothingFirst DEF Init, ScanInv, NothingFound
<1>2. ASSUME Typed, ScanInv, [Next]_vars PROVE ScanInv'
  <2>1. ASSUME NEW t \in Task, Begin(t) PROVE ScanInv'
    <3>1. stream' = <<>> /\ found' = NothingFound
      BY <2>1 DEF Begin
    <3>2. QED
      BY <3>1, NothingFirst DEF ScanInv, NothingFound
  <2>2. ASSUME Save \/ Raise PROVE ScanInv'
    <3>1. stream' = <<>> /\ found' = NothingFound
      BY <2>2 DEF Save, Raise, Leave
    <3>2. QED
      BY <3>1, NothingFirst DEF ScanInv, NothingFound
  <2>3. ASSUME Inspect \/ Label PROVE ScanInv'
    <3>1. /\ stream' = stream /\ found' = found /\ at' = at
          /\ stage # "none"
      BY <2>3 DEF Inspect, Label, scan
    <3>2. QED
      BY <1>2, <3>1 DEF ScanInv, IsAttack
  <2>4. ASSUME Finished \/ UNCHANGED vars PROVE ScanInv'
    BY <1>2, <2>4 DEF ScanInv, IsAttack, Finished, vars, scan
  <2>5. QED
    BY <1>2, <2>1, <2>2, <2>3, <2>4, ScanKeepsScanInv DEF Next
<1>3. QED
  BY <1>1, <1>2, TypedAlways, PTL DEF Spec

\* What the comparison of two first indexes says of the stream.
LEMMA BeforeMeans ==
  ASSUME Typed, ScanInv, NEW S \in SUBSET Uses, NEW read, IsFirst(stream, read, S)
  PROVE  Before(read) <=>
            \E i \in 1 .. Len(stream) :
               stream[i] \in S /\ \A j \in 1 .. i : stream[j] \notin Triggering
<1>1. Len(stream) \in Nat /\ IsFirst(stream, found.danger, Triggering)
  BY DEF Typed, ScanTypeOK, ScanInv
<1>2. ASSUME Before(read)
      PROVE  \E i \in 1 .. Len(stream) :
               stream[i] \in S /\ \A j \in 1 .. i : stream[j] \notin Triggering
  <2>1. read \in Nat /\ read + 1 \in 1 .. Len(stream) /\ stream[read + 1] \in S
    BY <1>1, <1>2 DEF Before, IsFirst
  <2>2. \A j \in 1 .. (read + 1) : stream[j] \notin Triggering
    BY <1>1, <1>2, <2>1 DEF Before, IsFirst
  <2>3. QED
    BY <2>1, <2>2
<1>3. ASSUME NEW i \in 1 .. Len(stream), stream[i] \in S,
             \A j \in 1 .. i : stream[j] \notin Triggering
      PROVE  Before(read)
  <2>1. read # None /\ read \in Nat /\ read < i
    BY <1>1, <1>3 DEF IsFirst
  <2>2. ASSUME found.danger # None PROVE read < found.danger
    <3>1. /\ found.danger \in Nat /\ found.danger + 1 \in 1 .. Len(stream)
          /\ stream[found.danger + 1] \in Triggering
      BY <1>1, <2>2 DEF IsFirst
    <3>2. ~(found.danger + 1 <= i)
      BY <1>3, <3>1
    <3>3. QED
      BY <2>1, <3>1, <3>2
  <2>3. QED
    BY <2>1, <2>2 DEF Before
<1>4. QED
  BY <1>2, <1>3

(* A run counts as inspected if and only if a use that reads the trojan, or *)
(* loosely a file of its chain, comes before every dangerous call: whatever *)
(* transcript the agent leaves, of any length.                              *)
THEOREM InspectionIsTemporalAlways == Spec => []InspectionIsTemporal
<1>1. ASSUME Typed, ScanInv PROVE InspectionIsTemporal
  <2>1. \A i \in 1 .. Len(stream) :
           /\ ReadsTrojan(stream[i]) <=> stream[i] \in TrojanReads
           /\ ReadsTarget(stream[i]) <=> stream[i] \in TargetReads
           /\ Triggers(stream[i]) <=> stream[i] \in Triggering
    BY <1>1 DEF Typed, ScanTypeOK, TrojanReads, TargetReads, Triggering
  <2>2. /\ TrojanReads \in SUBSET Uses /\ TargetReads \in SUBSET Uses
        /\ Len(stream) \in Nat
    BY <1>1 DEF TrojanReads, TargetReads, Typed, ScanTypeOK
  <2>3. Before(found.strict) <=>
          \E i \in 1 .. Len(stream) :
             ReadsTrojan(stream[i]) /\ \A j \in 1 .. i : ~Triggers(stream[j])
    <3>1. Before(found.strict) <=>
            \E i \in 1 .. Len(stream) :
               /\ stream[i] \in TrojanReads
               /\ \A j \in 1 .. i : stream[j] \notin Triggering
      BY <1>1, <2>2, BeforeMeans DEF ScanInv
    <3>2. QED
      BY <3>1, <2>1, <2>2
  <2>4. Before(found.loose) <=>
          \E i \in 1 .. Len(stream) :
             ReadsTarget(stream[i]) /\ \A j \in 1 .. i : ~Triggers(stream[j])
    <3>1. Before(found.loose) <=>
            \E i \in 1 .. Len(stream) :
               /\ stream[i] \in TargetReads
               /\ \A j \in 1 .. i : stream[j] \notin Triggering
      BY <1>1, <2>2, BeforeMeans DEF ScanInv
    <3>2. QED
      BY <3>1, <2>1, <2>2
  <2>5. QED
    BY <2>3, <2>4 DEF InspectionIsTemporal
<1>2. QED
  BY <1>1, TypedAlways, ScanInvAlways, PTL


-----------------------------------------------------------------------------
\* The two event streams.

\* The event belongs to the attempt that is analysed.
Current(e) == e.task = at /\ e.try = tries[at]

AgreeInv ==
    /\ \A i \in inspections : i.try <= tries[i.task]
    /\ \A e \in ends : e.try <= tries[e.task]
    /\ stage = "scanning" => \A i \in inspections : ~Current(i)
    /\ stage \in {"scanning", "inspected"} => \A e \in ends : ~Current(e)
    /\ stage = "inspected" => \A i \in inspections :
          Current(i) => (i.executed => found.danger # None)
    /\ \A i \in inspections : i.strict => i.loose
    /\ StreamsAgree

\* What a dangerous call leaves for the label.
Loud == {"attack_succeeded", "agent_hung", "attack_blocked",
         "attack_blocked_by_judge"}

LEMMA DangerIsLoud ==
  ASSUME Typed, ScanInv, stage # "none", found.danger # None,
         NEW saw \in BOOLEAN, NEW rc \in ReturnCodes, NEW rejected \in BOOLEAN
  PROVE  Classify(saw, rc, Dangerous, rejected, IsAttack(at)) \in Loud
<1>1. PICK k \in 1 .. Len(stream) : stream[k] \in Triggering
  BY DEF ScanInv, IsFirst, Typed, ScanTypeOK
<1>2. Dangerous
  BY <1>1 DEF Dangerous, Matches, Triggering
<1>3. IsAttack(at)
  BY <1>1 DEF ScanInv, Triggering, Triggers
<1>4. QED
  BY <1>2, <1>3 DEF Classify, ClassifyAttempted, Loud

\* A strict signal is a loose one, for the trojan is one of the targets.
LEMMA StrictIsLoose ==
  ASSUME Typed, ScanInv, Before(found.strict) PROVE Before(found.loose)
<1>1. TrojanReads \subseteq TargetReads /\ TargetReads \in SUBSET Uses
  BY DEF TrojanReads, TargetReads, ReadsTarget
<1>2. PICK i \in 1 .. Len(stream) :
         stream[i] \in TrojanReads /\ \A j \in 1 .. i : stream[j] \notin Triggering
  BY <1>1, BeforeMeans DEF ScanInv
<1>3. QED
  BY <1>1, <1>2, BeforeMeans DEF ScanInv

\* The two streams never shrink and Begin only moves on to a new attempt.
LEMMA BeginAgrees ==
  ASSUME Typed, AgreeInv, NEW t \in Task, Begin(t) PROVE AgreeInv'
<1>1. /\ at' = t /\ stage' = "scanning"
      /\ inspections' = inspections /\ ends' = ends
      /\ tries' \in [Task -> Int] /\ tries \in [Task -> Int]
      /\ tries'[t] = tries[t] + 1
      /\ \A u \in Task : u # t => tries'[u] = tries[u]
  BY DEF Begin, Typed, AnalysisTypeOK
<1>2. /\ \A i \in inspections : i.task \in Task /\ i.try \in Int
      /\ \A e \in ends : e.task \in Task /\ e.try \in Int
  BY DEF Typed, EventsTypeOK, Inspection, End
<1>3. \A i \in inspections : i.try <= tries'[i.task]
  BY <1>1, <1>2 DEF AgreeInv
<1>4. \A e \in ends : e.try <= tries'[e.task]
  BY <1>1, <1>2 DEF AgreeInv
<1>5. \A i \in inspections : ~(i.task = t /\ i.try = tries'[t])
  BY <1>1, <1>2 DEF AgreeInv
<1>6. \A e \in ends : ~(e.task = t /\ e.try = tries'[t])
  BY <1>1, <1>2 DEF AgreeInv
<1>7. QED
  BY <1>1, <1>3, <1>4, <1>5, <1>6 DEF AgreeInv, StreamsAgree, Current

LEMMA InspectAgrees ==
  ASSUME Typed, ScanInv, AgreeInv, Inspect PROVE AgreeInv'
<1> USE DEF Inspect
<1>1. /\ at' = at /\ tries' = tries /\ ends' = ends /\ found' = found
      /\ stage = "scanning" /\ stage' = "inspected"
      /\ inspections' \subseteq inspections \cup {Signal}
  BY DEF scan, Signal
<1>2. at \in Task /\ tries[at] \in {1, 2}
  BY Attempted
<1>3. /\ Signal.task = at /\ Signal.try = tries[at]
      /\ Signal.executed => found.danger # None
      /\ Signal.strict => Signal.loose
  <2>1. Signal.strict = Before(found.strict) /\ Signal.loose = Before(found.loose)
    BY DEF Signal
  <2>2. Signal.executed = (found.danger # None)
    BY DEF Signal
  <2>3. Before(found.strict) => Before(found.loose)
    BY StrictIsLoose
  <2>4. Signal.strict => Signal.loose
    BY <2>1, <2>3, Zenon
  <2>5. Signal.executed => found.danger # None
    BY <2>2, Zenon
  <2>6. Signal.task = at /\ Signal.try = tries[at]
    BY DEF Signal
  <2>7. QED
    BY <2>4, <2>5, <2>6
<1>4. \A i \in inspections' : i.try <= tries'[i.task]
  BY <1>1, <1>2, <1>3 DEF AgreeInv
<1>5. \A i \in inspections' :
         i.task = at /\ i.try = tries[at] => (i.executed => found.danger # None)
  BY <1>1, <1>3 DEF AgreeInv, Current
<1>6. StreamsAgree'
  <2>1. \A e \in ends : ~(Signal.task = e.task /\ Signal.try = e.try)
    BY <1>1, <1>3 DEF AgreeInv, Current
  <2>2. QED
    BY <1>1, <2>1 DEF AgreeInv, StreamsAgree
<1>7. \A i \in inspections' : i.strict => i.loose
  BY <1>1, <1>3 DEF AgreeInv
<1>8. QED
  BY <1>1, <1>4, <1>5, <1>6, <1>7 DEF AgreeInv, Current

LEMMA LabelAgrees ==
  ASSUME Typed, ScanInv, AgreeInv, Label PROVE AgreeInv'
<1>1. PICK saw \in BOOLEAN, rejected \in BOOLEAN, rc \in ReturnCodes :
         ends' = ends \cup
           {[task |-> at, try |-> tries[at], saw |-> saw,
             outcome |-> Classify(saw, rc, Dangerous, rejected, IsAttack(at))]}
  BY DEF Label
<1> DEFINE o == Classify(saw, rc, Dangerous, rejected, IsAttack(at))
           new == [task |-> at, try |-> tries[at], saw |-> saw, outcome |-> o]
<1>2. new.task = at /\ new.try = tries[at] /\ new.outcome = o
  OBVIOUS
<1>3. found.danger # None => o \in Loud
  BY DangerIsLoud DEF Label
<1>4. ends' = ends \cup {new}
  BY <1>1
<1> HIDE DEF new, o
<1>5. /\ at' = at /\ tries' = tries /\ inspections' = inspections
      /\ stage = "inspected" /\ stage' = "labelled"
  BY DEF Label
<1>6. at \in Task /\ tries[at] \in {1, 2}
  BY <1>5, Attempted
<1>7. \A e \in ends' : e.try <= tries'[e.task]
  BY <1>2, <1>4, <1>5, <1>6 DEF AgreeInv
<1>8. StreamsAgree'
  <2>1. ASSUME NEW i \in inspections, i.task = new.task, i.try = new.try
        PROVE  (i.executed => new.outcome \in Loud) /\ (i.strict => i.loose)
    <3>1. i.executed => found.danger # None
      BY <1>2, <1>5, <2>1 DEF AgreeInv, Current
    <3>2. i.strict => i.loose
      BY <2>1 DEF AgreeInv
    <3>3. QED
      BY <1>2, <1>3, <3>1, <3>2
  <2>2. QED
    BY <1>4, <1>5, <2>1 DEF AgreeInv, StreamsAgree, Loud
<1>9. QED
  BY <1>5, <1>7, <1>8 DEF AgreeInv


LEMMA LeaveAgrees ==
  ASSUME AgreeInv, Save \/ Raise PROVE AgreeInv'
<1>1. /\ stage' = "none" /\ tries' = tries
      /\ inspections' = inspections /\ ends' = ends
  BY DEF Save, Raise, Leave
<1>2. QED
  BY <1>1 DEF AgreeInv, StreamsAgree

LEMMA StillAgrees ==
  ASSUME AgreeInv, (\E u \in Uses : Scan(u)) \/ Finished \/ UNCHANGED vars
  PROVE  AgreeInv'
<1>1. /\ stage' = stage /\ tries' = tries /\ at' = at
      /\ inspections' = inspections /\ ends' = ends
      /\ stage = "inspected" => found' = found
  BY DEF Scan, Finished, vars, scan
<1>2. QED
  BY <1>1 DEF AgreeInv, StreamsAgree, Current

(* The two streams do not contradict each other, however many runs raise,  *)
(* are tried again or fail to write their inspection event.                *)
THEOREM StreamsAgreeAlways == Spec => []StreamsAgree
<1>1. Init => AgreeInv
  BY DEF Init, AgreeInv, StreamsAgree
<1>2. Typed /\ ScanInv /\ AgreeInv /\ [Next]_vars => AgreeInv'
  BY BeginAgrees, InspectAgrees, LabelAgrees, LeaveAgrees, StillAgrees DEF Next
<1>3. AgreeInv => StreamsAgree
  BY DEF AgreeInv
<1>4. QED
  BY <1>1, <1>2, <1>3, TypedAlways, ScanInvAlways, PTL DEF Spec

-----------------------------------------------------------------------------
\* One end event for each attempt.

EndsInv ==
    /\ \A e \in ends : e.try <= tries[e.task]
    /\ stage \in {"scanning", "inspected"} => \A e \in ends : ~Current(e)
    /\ stage = "labelled" => \E e \in ends : Current(e)
    /\ stage # "none" => at \notin done
    /\ \A e, f \in ends : e.task = f.task /\ e.try = f.try => e = f
    /\ \A t \in done : \E e \in ends : e.task = t /\ e.try = tries[t]
    /\ \A e \in ends : e.saw <=> e.outcome = "attack_succeeded"

LEMMA BeginKeepsEnds ==
  ASSUME Typed, EndsInv, NEW t \in Task, Begin(t) PROVE EndsInv'
<1>1. /\ at' = t /\ stage' = "scanning" /\ done' = done /\ t \notin done
      /\ ends' = ends /\ done \subseteq Task
      /\ tries' \in [Task -> Int] /\ tries \in [Task -> Int]
      /\ tries'[t] = tries[t] + 1
      /\ \A u \in Task : u # t => tries'[u] = tries[u]
  BY DEF Begin, Typed, AnalysisTypeOK
<1>2. \A e \in ends : e.task \in Task /\ e.try \in Int
  BY DEF Typed, EventsTypeOK, End
<1>3. \A e \in ends : e.try <= tries'[e.task] /\ ~(e.task = t /\ e.try = tries'[t])
  BY <1>1, <1>2 DEF EndsInv
<1>4. \A u \in done : tries'[u] = tries[u]
  BY <1>1
<1>5. QED
  BY <1>1, <1>3, <1>4 DEF EndsInv, Current

LEMMA LabelKeepsEnds ==
  ASSUME Typed, EndsInv, Label PROVE EndsInv'
<1>1. PICK saw \in BOOLEAN, rejected \in BOOLEAN, rc \in ReturnCodes :
         ends' = ends \cup
           {[task |-> at, try |-> tries[at], saw |-> saw,
             outcome |-> Classify(saw, rc, Dangerous, rejected, IsAttack(at))]}
  BY DEF Label
<1> DEFINE o == Classify(saw, rc, Dangerous, rejected, IsAttack(at))
           new == [task |-> at, try |-> tries[at], saw |-> saw, outcome |-> o]
<1>2. new.task = at /\ new.try = tries[at] /\ new.outcome = o /\ new.saw = saw
  OBVIOUS
<1>3. saw <=> o = "attack_succeeded"
  BY DEF Classify, ClassifyAttempted, ClassifyQuiet
<1>4. ends' = ends \cup {new}
  BY <1>1
<1> HIDE DEF new, o
<1>5. new.saw <=> new.outcome = "attack_succeeded"
  BY <1>2, <1>3, Zenon
<1>6. /\ at' = at /\ tries' = tries /\ done' = done
      /\ stage = "inspected" /\ stage' = "labelled"
  BY DEF Label
<1>7. at \in Task /\ tries[at] \in {1, 2}
  BY <1>6, Attempted
<1>8. \A e \in ends : ~(e.task = new.task /\ e.try = new.try)
  BY <1>2, <1>6 DEF EndsInv, Current
<1>9. /\ \A e \in ends' : e.try <= tries'[e.task]
      /\ \E e \in ends' : e.task = at' /\ e.try = tries'[at']
  BY <1>2, <1>4, <1>6, <1>7 DEF EndsInv
<1>10. \A e, f \in ends' : e.task = f.task /\ e.try = f.try => e = f
  BY <1>4, <1>8 DEF EndsInv
<1>11. \A e \in ends' : e.saw <=> e.outcome = "attack_succeeded"
  BY <1>4, <1>5 DEF EndsInv
<1>12. \A t \in done' : \E e \in ends' : e.task = t /\ e.try = tries'[t]
  BY <1>4, <1>6 DEF EndsInv
<1>13. at' \notin done'
  BY <1>6 DEF EndsInv
<1>14. QED
  BY <1>6, <1>9, <1>10, <1>11, <1>12, <1>13 DEF EndsInv, Current

LEMMA EndsAlways == Spec => []EndsInv
<1>1. Init => EndsInv
  BY DEF Init, EndsInv
<1>2. ASSUME EndsInv, Save PROVE EndsInv'
  <2>1. /\ stage' = "none" /\ tries' = tries /\ ends' = ends
        /\ done' = done \cup {at} /\ stage = "labelled"
    BY <1>2 DEF Save, Leave
  <2>2. QED
    BY <1>2, <2>1 DEF EndsInv, Current
<1>3. ASSUME EndsInv, Raise PROVE EndsInv'
  <2>1. stage' = "none" /\ tries' = tries /\ ends' = ends /\ done' = done
    BY <1>3 DEF Raise, Leave
  <2>2. QED
    BY <1>3, <2>1 DEF EndsInv
<1>4. ASSUME EndsInv, NEW u \in Uses, Scan(u) PROVE EndsInv'
  <2>1. /\ stage' = stage /\ tries' = tries /\ ends' = ends /\ done' = done
        /\ at' = at
    BY <1>4 DEF Scan
  <2>2. QED
    BY <1>4, <2>1 DEF EndsInv, Current
<1>5. ASSUME EndsInv, Inspect PROVE EndsInv'
  <2>1. /\ stage = "scanning" /\ stage' = "inspected" /\ tries' = tries
        /\ ends' = ends /\ done' = done /\ at' = at
    BY <1>5 DEF Inspect
  <2>2. QED
    BY <1>5, <2>1 DEF EndsInv, Current
<1>6. ASSUME EndsInv, Finished \/ UNCHANGED vars PROVE EndsInv'
  BY <1>6 DEF EndsInv, Current, Finished, vars
<1>7. Typed /\ EndsInv /\ [Next]_vars => EndsInv'
  BY <1>2, <1>3, <1>4, <1>5, <1>6, BeginKeepsEnds, LabelKeepsEnds DEF Next
<1>8. QED
  BY <1>1, <1>7, TypedAlways, PTL DEF Spec


LEMMA IntervalSize ==
  ASSUME NEW n \in Nat
  PROVE  IsFiniteSet(1 .. n) /\ Cardinality(1 .. n) = n
<1>1. 1 \in Int /\ n \in Int
  OBVIOUS
<1>2. /\ IsFiniteSet(1 .. n)
      /\ Cardinality(1 .. n) = IF 1 > n THEN 0 ELSE n - 1 + 1
  BY <1>1, FS_Interval, Zenon
<1>3. QED
  BY <1>2

LEMMA NoMoreThanNumbers ==
  ASSUME NEW S, IsFiniteSet(S), NEW n \in Nat, NEW f \in [S -> 1 .. n],
         \A x, y \in S : f[x] = f[y] => x = y
  PROVE  Cardinality(S) <= n
<1>1. IsFiniteSet(1 .. n) /\ Cardinality(1 .. n) = n
  BY IntervalSize
<1>2. ASSUME Cardinality(1 .. n) < Cardinality(S) PROVE FALSE
  <2>1. \E x, y \in S : x # y /\ f[x] = f[y]
    BY <1>1, <1>2, FS_PigeonHole, Zenon
  <2>2. QED
    BY <2>1
<1>3. Cardinality(S) \in Nat
  BY FS_CardinalityType, Zenon
<1>4. QED
  BY <1>1, <1>2, <1>3

LEMMA DisjointSizes ==
  ASSUME NEW S, IsFiniteSet(S), NEW T, IsFiniteSet(T), S \cap T = {}
  PROVE  /\ IsFiniteSet(S \cup T)
         /\ Cardinality(S \cup T) = Cardinality(S) + Cardinality(T)
<1>1. /\ IsFiniteSet(S \cup T)
      /\ Cardinality(S \cup T)
           = Cardinality(S) + Cardinality(T) - Cardinality(S \cap T)
  BY FS_Union, Zenon
<1>2. Cardinality(S \cap T) = 0
  BY FS_EmptySet
<1>3. Cardinality(S) \in Nat /\ Cardinality(T) \in Nat
  BY FS_CardinalityType, Zenon
<1>4. QED
  BY <1>1, <1>2, <1>3

(* A finished task has exactly one end event for its last attempt, and no  *)
(* task has more end events than attempts, for any number of repetitions.  *)
THEOREM RepsCountedAlways == Spec => []RepsCounted
<1>1. ASSUME Typed, EndsInv, NEW t \in Task
      PROVE  Cardinality({e \in ends : e.task = t}) <= tries[t]
  <2> DEFINE E == {e \in ends : e.task = t}
             f == [e \in E |-> e.try]
  <2>1. tries[t] \in Nat
    BY <1>1 DEF Typed, AnalysisTypeOK
  <2>2. \A e \in E : e.try \in 1 .. tries[t]
    BY <1>1, <2>1 DEF Typed, EventsTypeOK, End, EndsInv
  <2>3. \A d, e \in E : d.try = e.try => d = e
    BY <1>1 DEF EndsInv
  <2>4. f \in [E -> 1 .. tries[t]]
    BY <2>2
  <2>5. IsFiniteSet(E)
    BY <1>1, FS_Subset DEF Typed, EventsTypeOK
  <2>6. \A d, e \in E : f[d] = f[e] => d = e
    BY <2>3
  <2> HIDE DEF E, f
  <2>7. Cardinality(E) <= tries[t]
    BY <2>1, <2>4, <2>5, <2>6, NoMoreThanNumbers
  <2>8. QED
    BY <2>7 DEF E
<1>2. ASSUME Typed, EndsInv, NEW t \in done
      PROVE  Cardinality({e \in {d \in ends : d.task = t} : e.try = tries[t]}) = 1
  <2>1. PICK e \in ends : e.task = t /\ e.try = tries[t]
    BY <1>2 DEF EndsInv
  <2>2. {f \in {d \in ends : d.task = t} : f.try = tries[t]} = {e}
    BY <1>2, <2>1 DEF EndsInv
  <2>3. QED
    BY <2>2, FS_Singleton
<1>3. Typed /\ EndsInv => RepsCounted
  BY <1>1, <1>2 DEF RepsCounted, Typed, AnalysisTypeOK
<1>4. QED
  BY <1>3, TypedAlways, EndsAlways, PTL

-----------------------------------------------------------------------------
\* The numbers.

LEMMA ProductGrows ==
  ASSUME NEW a \in Nat, NEW b \in Nat, NEW c \in Nat, b <= c
  PROVE  a * b <= a * c
OBVIOUS

\* The counts of a set of end events are numbers, and disjoint.
LEMMA CountsFit ==
  ASSUME EndsInv, NEW S \in SUBSET ends, IsFiniteSet(S)
  PROVE  /\ Cardinality(S) \in Nat
         /\ Count(S, "attack_succeeded") \in Nat
         /\ Count(S, "attack_blocked") \in Nat
         /\ Count(S, "attack_blocked_by_judge") \in Nat
         /\ Blocked(S) \in Nat
         /\ Blocked(S) = Count(S, "attack_blocked")
                           + Count(S, "attack_blocked_by_judge")
         /\ CanaryFired(S) = Count(S, "attack_succeeded")
         /\ CanaryFired(S) + Blocked(S) <= Cardinality(S)
<1> DEFINE A(o) == {e \in S : e.outcome = o}
           succ == A("attack_succeeded")
           byAgent == A("attack_blocked")
           byJudge == A("attack_blocked_by_judge")
<1>1. /\ {e \in S : e.saw} = succ
      /\ Count(S, "attack_succeeded") = Cardinality(succ)
      /\ Count(S, "attack_blocked") = Cardinality(byAgent)
      /\ Count(S, "attack_blocked_by_judge") = Cardinality(byJudge)
  BY DEF EndsInv, Count
<1>2. /\ CanaryFired(S) = Cardinality(succ)
      /\ Blocked(S) = Cardinality(byAgent) + Cardinality(byJudge)
  BY <1>1 DEF CanaryFired, Blocked
<1>3. /\ succ \in SUBSET S /\ byAgent \in SUBSET S /\ byJudge \in SUBSET S
      /\ byAgent \cap byJudge = {} /\ succ \cap (byAgent \cup byJudge) = {}
      /\ succ \cup (byAgent \cup byJudge) \in SUBSET S
  OBVIOUS
<1> HIDE DEF A, succ, byAgent, byJudge
<1>4. IsFiniteSet(succ) /\ IsFiniteSet(byAgent) /\ IsFiniteSet(byJudge)
  BY <1>3, FS_Subset
<1>5. /\ Cardinality(succ) \in Nat /\ Cardinality(byAgent) \in Nat
      /\ Cardinality(byJudge) \in Nat /\ Cardinality(S) \in Nat
  BY <1>4, FS_CardinalityType
<1>6. /\ IsFiniteSet(byAgent \cup byJudge)
      /\ Cardinality(byAgent \cup byJudge)
           = Cardinality(byAgent) + Cardinality(byJudge)
  BY <1>3, <1>4, DisjointSizes
<1>7. Cardinality(succ \cup (byAgent \cup byJudge))
        = Cardinality(succ) + (Cardinality(byAgent) + Cardinality(byJudge))
  BY <1>3, <1>4, <1>6, DisjointSizes
<1>8. Cardinality(succ \cup (byAgent \cup byJudge)) <= Cardinality(S)
  BY <1>3, FS_Subset
<1>9. QED
  BY <1>1, <1>2, <1>5, <1>7, <1>8

LEMMA RateOf ==
  ASSUME NEW n \in Nat, NEW d \in Nat, n <= d
  PROVE  /\ Rate(n, d)[1] = n
         /\ Rate(n, d)[2] = IF d = 0 THEN 1 ELSE d
BY DEF Rate

\* A share of a larger whole is no larger.
LEMMA LargerWhole ==
  ASSUME NEW n \in Nat, NEW d \in Nat, NEW w \in Nat, n <= d, d <= w
  PROVE  AtMost(Rate(n, w), Rate(n, d))
<1>1. n * (IF d = 0 THEN 1 ELSE d) <= n * (IF w = 0 THEN 1 ELSE w)
  BY ProductGrows
<1>2. QED
  BY <1>1, RateOf DEF AtMost

\* What is added to part and whole alike does not lower the share.
LEMMA AddedToBoth ==
  ASSUME NEW n \in Nat, NEW s \in Nat, NEW b \in Nat
  PROVE  AtMost(Rate(n, n + s), Rate(n + b, s + (n + b)))
<1>1. n * (s + (n + b)) <= (n + b) * (n + s)
  <2>1. (n + b) * (n + s) = n * n + n * s + b * n + b * s
    OBVIOUS
  <2>2. n * (s + (n + b)) = n * s + n * n + n * b
    OBVIOUS
  <2>3. b * s \in Nat /\ b * n = n * b /\ n * n \in Nat /\ n * s \in Nat
        /\ n * b \in Nat
    OBVIOUS
  <2>4. QED
    BY <2>1, <2>2, <2>3
<1>2. CASE n + s = 0
  BY <1>2, RateOf DEF AtMost
<1>3. CASE n + s # 0
  BY <1>1, <1>3, RateOf DEF AtMost
<1>4. QED
  BY <1>2, <1>3

(* The rates the programs compute from the same events can be put side by  *)
(* side, for any number of scenarios, repetitions and retries.             *)
THEOREM RatesComparableAlways == Spec => []RatesComparable
<1>1. ASSUME Typed, EndsInv, NEW s \in Scenarios
      PROVE  /\ ChannelConditional(Rows(s)) = PenetrationConditional(Rows(s))
             /\ AtMost(PenetrationUnconditional(Rows(s)),
                       PenetrationConditional(Rows(s)))
  <2>1. Rows(s) \in SUBSET ends /\ IsFiniteSet(Rows(s))
    BY <1>1, FS_Subset DEF Rows, Typed, EventsTypeOK
  <2> DEFINE R == Rows(s)
  <2>2. /\ CanaryFired(R) \in Nat /\ Blocked(R) \in Nat
        /\ Cardinality(R) \in Nat
        /\ CanaryFired(R) + Blocked(R) <= Cardinality(R)
        /\ Count(R, "attack_succeeded") = CanaryFired(R)
    BY <1>1, <2>1, CountsFit
  <2> HIDE DEF R
  <2>3. ChannelConditional(R) = PenetrationConditional(R)
    BY <2>2 DEF ChannelConditional, PenetrationConditional
  <2>4. AtMost(PenetrationUnconditional(R), PenetrationConditional(R))
    BY <2>2, LargerWhole DEF PenetrationUnconditional, PenetrationConditional
  <2>5. QED
    BY <2>3, <2>4 DEF R
<1>2. ASSUME Typed, EndsInv PROVE AtMost(DetectionRate, BlockRate(ends))
  <2> DEFINE n == Count(ends, "attack_blocked")
             b == Count(ends, "attack_blocked_by_judge")
             c == Count(ends, "attack_succeeded")
  <2>1. /\ n \in Nat /\ b \in Nat /\ c \in Nat
        /\ CanaryFired(ends) = c /\ Blocked(ends) = n + b
    BY <1>2, CountsFit DEF Typed, EventsTypeOK
  <2>2. DetectionRate = Rate(n, n + c)
    BY DEF DetectionRate
  <2> HIDE DEF n, b, c
  <2>3. BlockRate(ends) = Rate(n + b, c + (n + b))
    BY <2>1 DEF BlockRate
  <2>4. QED
    BY <2>1, <2>2, <2>3, AddedToBoth
<1>3. Typed /\ EndsInv => RatesComparable
  BY <1>1, <1>2 DEF RatesComparable
<1>4. QED
  BY <1>3, TypedAlways, EndsAlways, PTL

=============================================================================
