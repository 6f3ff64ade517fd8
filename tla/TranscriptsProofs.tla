-------------------------- MODULE TranscriptsProofs --------------------------
(***************************************************************************)
(* The join of votes and transcripts for any number of judgments and any   *)
(* panel, on a clock of any length: type correctness without a condition,  *)
(* and the two properties when judgments come one at a time and a session  *)
(* takes at least one unit of the time stamps.  How long a transcript      *)
(* waits for the rest of its panel is not bounded.                         *)
(***************************************************************************)
EXTENDS Transcripts, FiniteSetTheorems, TLAPS

USE TranscriptsAssumption

States == {"none", "waiting", "running", "written", "lost"}

SessionTypeOK ==
    /\ session \in [Judgments -> [Judges -> States]]
    /\ started \in [Judgments -> [Judges -> Time]]

RecordTypeOK ==
    /\ now \in Time
    /\ files \subseteq File
    /\ event \in [Judgments -> Time \cup {Never, Dropped}]

Typed == SessionTypeOK /\ RecordTypeOK

\* Every session but one is as it was.
OthersKept(k, j) ==
    \A d \in Judgments, i \in Judges :
        d # k \/ i # j => /\ session'[d][i] = session[d][i]
                          /\ started'[d][i] = started[d][i]

\* The step changes one session.
Moves(k, j, step) ==
    session' = [session EXCEPT ![k][j] = step]

-----------------------------------------------------------------------------

LEMMA MoveTyped ==
  ASSUME SessionTypeOK, NEW k \in Judgments, NEW j \in Judges,
         NEW step \in States, Moves(k, j, step),
         NEW t \in Time, started' = [started EXCEPT ![k][j] = t]
  PROVE  /\ SessionTypeOK'
         /\ session'[k][j] = step /\ started'[k][j] = t
         /\ OthersKept(k, j)
<1>1. /\ session \in [Judgments -> [Judges -> States]]
      /\ started \in [Judgments -> [Judges -> Time]]
  BY DEF SessionTypeOK
<1>2. SessionTypeOK'
  BY <1>1 DEF Moves, SessionTypeOK
<1>3. session'[k][j] = step /\ started'[k][j] = t
  BY <1>1 DEF Moves
<1>4. OthersKept(k, j)
  BY <1>1 DEF Moves, OthersKept
<1>5. QED
  BY <1>2, <1>3, <1>4

LEMMA ZeroIsTime == 0 \in Time
BY DEF Time

LEMMA StartMoves ==
  ASSUME Typed, NEW k \in Judgments, NEW j \in Judges, Start(k, j)
  PROVE  /\ Typed' /\ OthersKept(k, j)
         /\ session[k][j] = "waiting" /\ session'[k][j] = "running"
         /\ started'[k][j] = now
         /\ UNCHANGED <<now, files, event>>
<1>1. now \in Time
  BY DEF Typed, RecordTypeOK
<1>2. /\ SessionTypeOK' /\ session'[k][j] = "running" /\ started'[k][j] = now
      /\ OthersKept(k, j)
  BY <1>1, MoveTyped DEF Typed, Start, Moves, States
<1>3. QED
  BY <1>2 DEF Start, Typed, RecordTypeOK

LEMMA GiveUpMoves ==
  ASSUME Typed, NEW k \in Judgments, NEW j \in Judges, GiveUp(k, j)
  PROVE  /\ Typed' /\ OthersKept(k, j)
         /\ session[k][j] \in {"waiting", "running"} /\ session'[k][j] = "lost"
         /\ UNCHANGED <<now, files, event>>
<1>1. SessionTypeOK' /\ session'[k][j] = "lost" /\ OthersKept(k, j)
  BY ZeroIsTime, MoveTyped DEF Typed, GiveUp, Moves, States
<1>2. QED
  BY <1>1 DEF GiveUp, Typed, RecordTypeOK

\* The file a session leaves that ends now.
Stamped(k, j) == [judge |-> j, at |-> now, of |-> k]

LEMMA FinishMoves ==
  ASSUME Typed, NEW k \in Judgments, NEW j \in Judges, Finish(k, j)
  PROVE  /\ Typed' /\ OthersKept(k, j)
         /\ session[k][j] = "running" /\ session'[k][j] = "written"
         /\ now >= started[k][j] + MinSession
         /\ files' = {f \in files : ~(f.judge = j /\ f.at = now)}
                     \cup {Stamped(k, j)}
         /\ UNCHANGED <<now, event>>
<1>1. SessionTypeOK' /\ session'[k][j] = "written" /\ OthersKept(k, j)
  BY ZeroIsTime, MoveTyped DEF Typed, Finish, Moves, States
<1>2. files' = {f \in files : ~(f.judge = j /\ f.at = now)} \cup {Stamped(k, j)}
  BY DEF Finish, Stamped
<1>3. Stamped(k, j) \in File
  BY DEF Stamped, File, Typed, RecordTypeOK
<1>4. RecordTypeOK'
  BY <1>2, <1>3 DEF Finish, Typed, RecordTypeOK
<1>5. QED
  BY <1>1, <1>2, <1>4 DEF Finish, Typed

LEMMA BeginMoves ==
  ASSUME Typed, NEW k \in Judgments, Begin(k)
  PROVE  /\ Typed'
         /\ \A j \in Judges : session[k][j] = "none" /\ session'[k][j] = "waiting"
         /\ \A d \in Judgments, j \in Judges :
               d # k => session'[d][j] = session[d][j]
         /\ Cardinality(Open) < Concurrency
         /\ UNCHANGED <<now, started, files, event>>
<1>1. session' = [session EXCEPT ![k] = [j \in Judges |-> "waiting"]]
  BY DEF Begin
<1>2. SessionTypeOK'
  BY <1>1 DEF Begin, Typed, SessionTypeOK, States
<1>3. RecordTypeOK'
  BY DEF Begin, Typed, RecordTypeOK
<1>4. QED
  BY <1>1, <1>2, <1>3 DEF Begin, Begun, Typed, SessionTypeOK

\* A judgment is decided: it is recorded with the present time, or dropped.
LEMMA DecideMoves ==
  ASSUME Typed, NEW k \in Judgments, Record(k) \/ Drop(k)
  PROVE  /\ Typed'
         /\ event[k] = Never /\ event'[k] \in {now, Dropped}
         /\ \A d \in Judgments : d # k => event'[d] = event[d]
         /\ \A j \in Judges : session[k][j] \in {"written", "lost"}
         /\ UNCHANGED <<now, session, started, files>>
<1>1. \/ event' = [event EXCEPT ![k] = now]
      \/ event' = [event EXCEPT ![k] = Dropped]
  BY DEF Record, Drop
<1>2. RecordTypeOK'
  BY <1>1 DEF Record, Drop, Typed, RecordTypeOK
<1>3. SessionTypeOK'
  BY DEF Record, Drop, Typed, SessionTypeOK
<1>4. QED
  BY <1>1, <1>2, <1>3 DEF Record, Drop, Typed, RecordTypeOK

LEMMA TickMoves ==
  ASSUME Typed, Tick
  PROVE  /\ Typed'
         /\ now' = now + 1
         /\ UNCHANGED <<session, started, files, event>>
BY DEF Tick, Typed, SessionTypeOK, RecordTypeOK, Time

LEMMA NextCases ==
  ASSUME [Next]_vars
  PROVE  \/ Tick
         \/ \E k \in Judgments : Begin(k)
         \/ \E k \in Judgments : Record(k) \/ Drop(k)
         \/ \E k \in Judgments, j \in Judges : Start(k, j)
         \/ \E k \in Judgments, j \in Judges : Finish(k, j)
         \/ \E k \in Judgments, j \in Judges : GiveUp(k, j)
         \/ UNCHANGED vars
BY DEF Next, Finished

LEMMA TypedAlways == Spec => []Typed
<1>1. Init => Typed
  BY ZeroIsTime DEF Init, Typed, SessionTypeOK, RecordTypeOK, States
<1>2. Typed /\ UNCHANGED vars => Typed'
  BY DEF Typed, SessionTypeOK, RecordTypeOK, vars
<1>3. Typed /\ [Next]_vars => Typed'
  BY <1>2, NextCases, TickMoves, BeginMoves, DecideMoves, StartMoves,
     FinishMoves, GiveUpMoves
<1>4. QED
  BY <1>1, <1>3, PTL DEF Spec

(* Type correctness, for any panel and any number of judgments at a time. *)
THEOREM TypeCorrect == Spec => []TypeOK
<1>1. Typed => TypeOK
  BY DEF Typed, SessionTypeOK, RecordTypeOK, TypeOK, States
<1>2. QED
  BY <1>1, TypedAlways, PTL


-----------------------------------------------------------------------------
\* Judgments one at a time.

Serial == Concurrency = 1 /\ MinSession > 0

Decided(k) == event[k] # Never

OpenInv ==
    /\ \A k, d \in Open : k = d
    /\ \A k \in Judgments, j \in Judges :
          Decided(k) => session[k][j] \in {"written", "lost"}

\* Each vote that left a transcript has it, and it alone.
FilesInv ==
    /\ \A f \in files : f.at <= now /\ session[f.of][f.judge] = "written"
    /\ \A k \in Judgments, j \in Judges :
          session[k][j] = "written" => \E f \in files : f.of = k /\ f.judge = j
    /\ \A f, g \in files : f.of = g.of /\ f.judge = g.judge => f = g

\* A transcript is written before its judgment.
WaitInv == \A f \in files : Recorded(f.of) => f.at <= event[f.of]

\* The session of g was over, and its judgment decided, before f's began.
Precedes(g, f) ==
    /\ g.at + MinSession <= f.at
    /\ Decided(g.of)
    /\ Recorded(g.of) => event[g.of] + MinSession <= f.at

OrderInv ==
    /\ \A f, g \in files : f.judge = g.judge /\ f.of # g.of =>
          Precedes(f, g) \/ Precedes(g, f)
    /\ \A k \in Judgments, j \in Judges, f \in files :
          session[k][j] = "running" /\ f.of # k =>
              /\ f.at <= started[k][j]
              /\ Decided(f.of)
              /\ Recorded(f.of) => event[f.of] <= started[k][j]
    /\ \A k \in Judgments, j \in Judges :
          session[k][j] = "running" => started[k][j] <= now
    /\ \A k \in Judgments : Recorded(k) => event[k] <= now

Inv == OpenInv /\ FilesInv /\ WaitInv /\ OrderInv

\* A session that was begun and is not over belongs to the open judgment.
LEMMA UnderWay ==
  ASSUME Typed, OpenInv, NEW k \in Judgments, NEW j \in Judges,
         session[k][j] \in {"waiting", "running"}
  PROVE  k \in Open
BY DEF OpenInv, Open, Begun, Decided

LEMMA InitInv == Init => Inv
<1> SUFFICES ASSUME Init PROVE Inv
  OBVIOUS
<1>1. \A k \in Judgments : ~Decided(k) /\ ~Recorded(k)
  BY DEF Init, Decided, Recorded, Time
<1>2. Open = {} /\ files = {}
  BY DEF Init, Open, Begun
<1>3. \A k \in Judgments, j \in Judges : session[k][j] = "none"
  BY DEF Init
<1>4. QED
  BY <1>1, <1>2, <1>3 DEF Inv, OpenInv, FilesInv, WaitInv, OrderInv

LEMMA TickKeepsInv ==
  ASSUME Typed, Inv, Tick PROVE Inv'
<1>1. /\ now' = now + 1 /\ now \in Int
      /\ session' = session /\ started' = started /\ files' = files
      /\ event' = event
  BY TickMoves DEF Typed, RecordTypeOK, Time
<1>2. /\ \A f \in files : f.at \in Int /\ f.of \in Judgments
      /\ \A k \in Judgments : Recorded(k) => event[k] \in Int
      /\ \A k \in Judgments, j \in Judges : started[k][j] \in Int
  BY DEF Typed, RecordTypeOK, SessionTypeOK, File, Time, Recorded
<1>3. OpenInv'
  BY <1>1 DEF Inv, OpenInv, Open, Begun, Decided
<1>4. FilesInv'
  BY <1>1, <1>2 DEF Inv, FilesInv
<1>5. WaitInv'
  BY <1>1, <1>2 DEF Inv, WaitInv, Decided, Recorded
<1>6. OrderInv'
  BY <1>1, <1>2 DEF Inv, OrderInv, Precedes, Decided, Recorded
<1>7. QED
  BY <1>3, <1>4, <1>5, <1>6 DEF Inv

LEMMA BeginKeepsInv ==
  ASSUME Typed, Serial, Inv, NEW k \in Judgments, Begin(k) PROVE Inv'
<1>1. /\ \A j \in Judges : session[k][j] = "none" /\ session'[k][j] = "waiting"
      /\ \A d \in Judgments, j \in Judges :
            d # k => session'[d][j] = session[d][j]
      /\ now' = now /\ started' = started /\ files' = files /\ event' = event
  BY BeginMoves
<1>2. Open = {}
  <2>1. IsFiniteSet(Open)
    BY FS_Subset DEF Open
  <2>2. Cardinality(Open) < 1 /\ Cardinality(Open) \in Nat
    BY <2>1, BeginMoves, FS_CardinalityType DEF Serial
  <2>3. Cardinality(Open) = 0
    BY <2>2
  <2>4. QED
    BY <2>1, <2>3, FS_EmptySet
<1>3. \A f \in files : f.of \in Judgments /\ f.judge \in Judges
  BY DEF Typed, RecordTypeOK, File
<1>4. \A f \in files : f.of # k
  BY <1>1, <1>3 DEF Inv, FilesInv
<1>5. OpenInv'
  <2>1. \A d \in Judgments : d # k => d \notin Open'
    BY <1>1, <1>2 DEF Open, Begun
  <2>2. \A j \in Judges : ~Decided(k)
    BY <1>1 DEF Inv, OpenInv
  <2>3. \A d \in Judgments, j \in Judges :
           Decided(d)' => session'[d][j] \in {"written", "lost"}
    BY <1>1, <2>2 DEF Inv, OpenInv, Decided
  <2>4. \A d \in Open' : d = k
    BY <2>1 DEF Open
  <2>5. QED
    BY <2>3, <2>4 DEF OpenInv
<1>6. FilesInv'
  <2>1. \A f \in files : session'[f.of][f.judge] = session[f.of][f.judge]
    BY <1>1, <1>3, <1>4
  <2>2. QED
    BY <1>1, <2>1 DEF Inv, FilesInv
<1>7. WaitInv'
  BY <1>1 DEF Inv, WaitInv, Decided, Recorded
<1>8. OrderInv'
  BY <1>1 DEF Inv, OrderInv, Precedes, Decided, Recorded
<1>9. QED
  BY <1>5, <1>6, <1>7, <1>8 DEF Inv

\* Start and GiveUp: a session moves on without a file.
LEMMA StartKeepsInv ==
  ASSUME Typed, Serial, Inv, NEW k \in Judgments, NEW j \in Judges, Start(k, j)
  PROVE  Inv'
<1>1. /\ OthersKept(k, j)
      /\ session[k][j] = "waiting" /\ session'[k][j] = "running"
      /\ started'[k][j] = now
      /\ now' = now /\ files' = files /\ event' = event
  BY StartMoves
<1>2. k \in Open
  BY <1>1, UnderWay DEF Inv
<1>3. \A f \in files : f.of \in Judgments /\ f.judge \in Judges /\ f.at \in Int
  BY DEF Typed, RecordTypeOK, File, Time
<1>4. now \in Int
  BY DEF Typed, RecordTypeOK, Time
<1>5. OpenInv'
  <2>1. \A d \in Judgments : d \in Open' => d \in Open
    BY <1>1, <1>2 DEF Open, Begun, OthersKept
  <2>2. Open' \subseteq Open
    BY <2>1 DEF Open
  <2>3. ~Decided(k)
    BY <1>2 DEF Open, Decided
  <2>4. \A d \in Judgments, i \in Judges :
           Decided(d)' => session'[d][i] \in {"written", "lost"}
    BY <1>1, <2>3 DEF Inv, OpenInv, Decided, OthersKept
  <2>5. QED
    BY <2>2, <2>4 DEF Inv, OpenInv
<1>6. FilesInv'
  <2>1. \A f \in files : session'[f.of][f.judge] = "written"
    BY <1>1, <1>3 DEF Inv, FilesInv, OthersKept
  <2>2. \A d \in Judgments, i \in Judges : session'[d][i] = "written" =>
           session[d][i] = "written"
    BY <1>1 DEF OthersKept
  <2>3. QED
    BY <1>1, <2>1, <2>2 DEF Inv, FilesInv
<1>7. WaitInv'
  BY <1>1 DEF Inv, WaitInv, Decided, Recorded
<1>8. OrderInv'
  <2>1. ASSUME NEW f \in files, f.of # k
        PROVE  /\ f.at <= now /\ Decided(f.of)
               /\ Recorded(f.of) => event[f.of] <= now
    <3>1. f.at <= now /\ session[f.of][f.judge] = "written"
      BY DEF Inv, FilesInv
    <3>2. f.of \notin Open
      BY <1>2, <2>1 DEF Inv, OpenInv
    <3>3. Decided(f.of)
      BY <1>3, <3>1, <3>2 DEF Open, Begun, Decided
    <3>4. QED
      BY <1>3, <3>1, <3>3 DEF Inv, OrderInv
  <2>2. \A d \in Judgments, i \in Judges, f \in files :
           session'[d][i] = "running" /\ f.of # d =>
              /\ f.at <= started'[d][i] /\ Decided(f.of)
              /\ Recorded(f.of) => event[f.of] <= started'[d][i]
    BY <1>1, <2>1 DEF Inv, OrderInv, OthersKept
  <2>3. \A d \in Judgments, i \in Judges :
           session'[d][i] = "running" => started'[d][i] <= now
    BY <1>1, <1>4 DEF Inv, OrderInv, OthersKept
  <2>4. QED
    BY <1>1, <2>2, <2>3 DEF Inv, OrderInv, Precedes, Decided, Recorded
<1>9. QED
  BY <1>5, <1>6, <1>7, <1>8 DEF Inv

LEMMA GiveUpKeepsInv ==
  ASSUME Typed, Inv, NEW k \in Judgments, NEW j \in Judges, GiveUp(k, j)
  PROVE  Inv'
<1>1. /\ OthersKept(k, j)
      /\ session[k][j] \in {"waiting", "running"} /\ session'[k][j] = "lost"
      /\ now' = now /\ files' = files /\ event' = event
  BY GiveUpMoves
<1>2. k \in Open
  BY <1>1, UnderWay DEF Inv
<1>3. \A f \in files : f.of \in Judgments /\ f.judge \in Judges
  BY DEF Typed, RecordTypeOK, File
<1>4. OpenInv'
  <2>1. \A d \in Judgments : d \in Open' => d \in Open
    BY <1>1, <1>2 DEF Open, Begun, OthersKept
  <2>2. Open' \subseteq Open
    BY <2>1 DEF Open
  <2>3. \A d \in Judgments, i \in Judges :
           Decided(d)' => session'[d][i] \in {"written", "lost"}
    BY <1>1 DEF Inv, OpenInv, Decided, OthersKept
  <2>4. QED
    BY <2>2, <2>3 DEF Inv, OpenInv
<1>5. FilesInv'
  <2>1. \A f \in files : session'[f.of][f.judge] = "written"
    BY <1>1, <1>3 DEF Inv, FilesInv, OthersKept
  <2>2. \A d \in Judgments, i \in Judges : session'[d][i] = "written" =>
           session[d][i] = "written"
    BY <1>1 DEF OthersKept
  <2>3. QED
    BY <1>1, <2>1, <2>2 DEF Inv, FilesInv
<1>6. WaitInv'
  BY <1>1 DEF Inv, WaitInv, Decided, Recorded
<1>7. OrderInv'
  <2>1. \A d \in Judgments, i \in Judges : session'[d][i] = "running" =>
           session[d][i] = "running" /\ started'[d][i] = started[d][i]
    BY <1>1 DEF OthersKept
  <2>2. QED
    BY <1>1, <2>1 DEF Inv, OrderInv, Precedes, Decided, Recorded
<1>8. QED
  BY <1>4, <1>5, <1>6, <1>7 DEF Inv


\* The file of a session that ends is new, and overwrites none.
LEMMA FinishKeepsInv ==
  ASSUME Typed, Serial, Inv, NEW k \in Judgments, NEW j \in Judges, Finish(k, j)
  PROVE  Inv'
<1> DEFINE new == Stamped(k, j)
<1>1. /\ OthersKept(k, j)
      /\ session[k][j] = "running" /\ session'[k][j] = "written"
      /\ now >= started[k][j] + MinSession
      /\ files' = {f \in files : ~(f.judge = j /\ f.at = now)} \cup {new}
      /\ now' = now /\ event' = event
  BY FinishMoves
<1>2. new.judge = j /\ new.at = now /\ new.of = k
  BY DEF Stamped
<1>3. k \in Open
  BY <1>1, UnderWay DEF Inv
<1>4. /\ \A f \in files : f.of \in Judgments /\ f.judge \in Judges /\ f.at \in Int
      /\ now \in Int /\ started[k][j] \in Int /\ MinSession \in Int
      /\ MinSession > 0
  BY DEF Typed, RecordTypeOK, SessionTypeOK, File, Time, Serial
<1>5. \A f \in files : f.of = k => f.judge # j
  BY <1>1 DEF Inv, FilesInv
<1>6. \A f \in files : f.of # k =>
         /\ f.at + MinSession <= now
         /\ Decided(f.of)
         /\ Recorded(f.of) => event[f.of] + MinSession <= now
  <2>1. \A f \in files : f.of # k =>
           /\ f.at <= started[k][j] /\ Decided(f.of)
           /\ Recorded(f.of) => event[f.of] <= started[k][j]
    BY <1>1 DEF Inv, OrderInv
  <2>2. \A d \in Judgments : Recorded(d) => event[d] \in Int
    BY DEF Recorded, Time
  <2>3. QED
    BY <1>1, <1>4, <2>1, <2>2
<1>7. files' = files \cup {new}
  <2>1. \A f \in files : ~(f.judge = j /\ f.at = now)
    BY <1>4, <1>5, <1>6
  <2>2. QED
    BY <1>1, <2>1
<1> HIDE DEF new
<1>8. OpenInv'
  <2>1. \A d \in Judgments : d \in Open' => d \in Open
    BY <1>1, <1>3 DEF Open, Begun, OthersKept
  <2>2. Open' \subseteq Open
    BY <2>1 DEF Open
  <2>3. \A d \in Judgments, i \in Judges :
           Decided(d)' => session'[d][i] \in {"written", "lost"}
    BY <1>1 DEF Inv, OpenInv, Decided, OthersKept
  <2>4. QED
    BY <2>2, <2>3 DEF Inv, OpenInv
<1>9. FilesInv'
  <2>1. \A f \in files' : f.at <= now' /\ session'[f.of][f.judge] = "written"
    BY <1>1, <1>2, <1>4, <1>7 DEF Inv, FilesInv, OthersKept
  <2>2. \A d \in Judgments, i \in Judges : session'[d][i] = "written" =>
           session[d][i] = "written" \/ (d = k /\ i = j)
    BY <1>1 DEF OthersKept
  <2>3. \A d \in Judgments, i \in Judges : session'[d][i] = "written" =>
           \E f \in files' : f.of = d /\ f.judge = i
    BY <1>2, <1>7, <2>2 DEF Inv, FilesInv
  <2>4. \A f, g \in files' : f.of = g.of /\ f.judge = g.judge => f = g
    BY <1>2, <1>5, <1>7 DEF Inv, FilesInv
  <2>5. QED
    BY <2>1, <2>3, <2>4 DEF FilesInv
<1>10. WaitInv'
  <2>1. ~Recorded(k)
    BY <1>3 DEF Open, Recorded, Time, TranscriptsAssumption
  <2>2. QED
    BY <1>1, <1>2, <1>7, <2>1 DEF Inv, WaitInv, Recorded
<1>11. OrderInv'
  <2>1. \A f \in files : f.of # k => Precedes(f, new)
    BY <1>2, <1>6 DEF Precedes
  <2>2. \A f, g : Precedes(f, g)' <=> Precedes(f, g)
    BY <1>1 DEF Precedes, Decided, Recorded
  <2>3. \A f, g \in files' : f.judge = g.judge /\ f.of # g.of =>
           Precedes(f, g) \/ Precedes(g, f)
    BY <1>2, <1>7, <2>1 DEF Inv, OrderInv
  <2>4. \A d \in Judgments, i \in Judges : session'[d][i] = "running" =>
           /\ session[d][i] = "running" /\ started'[d][i] = started[d][i]
           /\ d = k
    <3>1. \A d \in Judgments, i \in Judges : session'[d][i] = "running" =>
             session[d][i] = "running" /\ started'[d][i] = started[d][i]
      BY <1>1 DEF OthersKept
    <3>2. \A d \in Judgments, i \in Judges : session[d][i] = "running" => d = k
      BY <1>3, UnderWay DEF Inv, OpenInv
    <3>3. QED
      BY <3>1, <3>2
  <2>5. \A d \in Judgments, i \in Judges, f \in files' :
           session'[d][i] = "running" /\ f.of # d =>
              /\ f.at <= started'[d][i] /\ Decided(f.of)
              /\ Recorded(f.of) => event[f.of] <= started'[d][i]
    BY <1>2, <1>7, <2>4 DEF Inv, OrderInv
  <2>6. \A d \in Judgments, i \in Judges :
           session'[d][i] = "running" => started'[d][i] <= now
    BY <2>4 DEF Inv, OrderInv
  <2>7. QED
    BY <1>1, <2>2, <2>3, <2>5, <2>6 DEF Inv, OrderInv, Decided, Recorded
<1>12. QED
  BY <1>8, <1>9, <1>10, <1>11 DEF Inv

LEMMA DecideKeepsInv ==
  ASSUME Typed, Serial, Inv, NEW k \in Judgments, Record(k) \/ Drop(k)
  PROVE  Inv'
<1>1. /\ event[k] = Never /\ event'[k] \in {now, Dropped}
      /\ \A d \in Judgments : d # k => event'[d] = event[d]
      /\ \A j \in Judges : session[k][j] \in {"written", "lost"}
      /\ now' = now /\ session' = session /\ started' = started
      /\ files' = files
  BY DecideMoves
<1>2. /\ \A f \in files : f.of \in Judgments /\ f.judge \in Judges /\ f.at \in Int
      /\ now \in Time /\ now \in Int
  BY DEF Typed, RecordTypeOK, File, Time
<1>3. Decided(k)' /\ ~Decided(k) /\ (Recorded(k)' => event'[k] = now)
  BY <1>1, <1>2 DEF Decided, Recorded, Time
<1>4. \A d \in Judgments : d # k =>
         /\ Decided(d)' <=> Decided(d)
         /\ Recorded(d)' <=> Recorded(d)
  BY <1>1 DEF Decided, Recorded
<1>5. OpenInv'
  <2>1. Open' \subseteq Open
    BY <1>1, <1>3 DEF Open, Begun, Decided
  <2>2. QED
    BY <1>1, <1>4, <2>1 DEF Inv, OpenInv
<1>6. FilesInv'
  BY <1>1 DEF Inv, FilesInv
<1>7. WaitInv'
  BY <1>1, <1>2, <1>3, <1>4 DEF Inv, WaitInv, FilesInv
<1>8. OrderInv'
  <2>1. ASSUME NEW f \in files, NEW g \in files, Precedes(f, g)
        PROVE  Precedes(f, g)'
    <3>1. f.of # k
      BY <1>3, <2>1 DEF Precedes
    <3>2. QED
      BY <1>1, <1>2, <1>4, <2>1, <3>1 DEF Precedes
  <2>2. ASSUME NEW d \in Judgments, NEW j \in Judges, NEW f \in files,
               session[d][j] = "running", f.of # d
        PROVE  /\ f.at <= started[d][j] /\ Decided(f.of)'
               /\ Recorded(f.of)' => event'[f.of] <= started[d][j]
    <3>1. f.of # k
      BY <1>3, <2>2 DEF Inv, OrderInv
    <3>2. QED
      BY <1>1, <1>2, <1>4, <2>2, <3>1 DEF Inv, OrderInv
  <2>3. \A d \in Judgments : Recorded(d)' => event'[d] <= now
    BY <1>1, <1>2, <1>3, <1>4 DEF Inv, OrderInv
  <2>4. QED
    BY <1>1, <2>1, <2>2, <2>3 DEF Inv, OrderInv
<1>9. QED
  BY <1>5, <1>6, <1>7, <1>8 DEF Inv

LEMMA InvAlways ==
  ASSUME Serial PROVE Spec => []Inv
<1>1. Inv /\ UNCHANGED vars => Inv'
  BY DEF Inv, OpenInv, FilesInv, WaitInv, OrderInv, Precedes, Decided,
         Recorded, Open, Begun, vars
<1>2. Typed /\ Inv /\ [Next]_vars => Inv'
  BY <1>1, NextCases, TickKeepsInv, BeginKeepsInv, DecideKeepsInv,
     StartKeepsInv, FinishKeepsInv, GiveUpKeepsInv
<1>3. QED
  BY <1>2, InitInv, TypedAlways, PTL DEF Spec

(* No transcript is overwritten when judgments come one at a time and a    *)
(* session takes at least one unit of the time stamps.                     *)
THEOREM TranscriptsKeptAlways ==
  ASSUME Serial PROVE Spec => []TranscriptsKept
<1>1. Inv => TranscriptsKept
  BY DEF Inv, FilesInv, TranscriptsKept
<1>2. QED
  BY <1>1, InvAlways, PTL

-----------------------------------------------------------------------------
\* The join.

\* A transcript of another judgment is farther from an event than its own,
\* unless it is of a session that began after the event.
LEMMA OwnIsNearer ==
  ASSUME Typed, Serial, Inv, NEW f \in files, NEW g \in files,
         Recorded(f.of), g.judge = f.judge, g.of # f.of
  PROVE  \/ event[f.of] + MinSession <= g.at
         \/ Distance(f.at, event[f.of]) < Distance(g.at, event[f.of])
<1>1. /\ f.at \in Int /\ g.at \in Int /\ event[f.of] \in Int
      /\ MinSession \in Int /\ MinSession > 0
  BY DEF Typed, RecordTypeOK, File, Time, Recorded, Serial
<1>2. f.at <= event[f.of]
  BY DEF Inv, WaitInv
<1>3. Precedes(f, g) \/ Precedes(g, f)
  BY DEF Inv, OrderInv
<1>4. CASE Precedes(f, g)
  BY <1>4 DEF Precedes
<1>5. CASE Precedes(g, f)
  <2>1. g.at + MinSession <= f.at
    BY <1>5 DEF Precedes
  <2>2. QED
    BY <1>1, <1>2, <2>1 DEF Distance
<1>6. QED
  BY <1>3, <1>4, <1>5

\* The transcript of a prompt judgment is nearer than any other.
LEMMA PromptIsNearest ==
  ASSUME Typed, Serial, Inv, NEW f \in files, NEW g \in files,
         Prompt(f), g.judge = f.judge, g.of # f.of
  PROVE  Distance(f.at, event[f.of]) < Distance(g.at, event[f.of])
<1>1. /\ f.at \in Int /\ g.at \in Int /\ event[f.of] \in Int
      /\ MinSession \in Int /\ MinSession > 0
      /\ event[f.of] - f.at < MinSession
  BY DEF Typed, RecordTypeOK, File, Time, Prompt, Recorded, Serial
<1>2. f.at <= event[f.of]
  BY DEF Inv, WaitInv, Prompt
<1>3. Distance(f.at, event[f.of]) < MinSession
  BY <1>1, <1>2 DEF Distance
<1>4. event[f.of] + MinSession <= g.at =>
         Distance(g.at, event[f.of]) >= MinSession
  BY <1>1 DEF Distance
<1>5. /\ Distance(f.at, event[f.of]) \in Int
      /\ Distance(g.at, event[f.of]) \in Int
  BY <1>1 DEF Distance
<1>6. QED
  BY <1>1, <1>3, <1>4, <1>5, OwnIsNearer DEF Prompt

\* A stamp of its own keeps a transcript in every index.
LEMMA OwnIsIndexed ==
  ASSUME NEW I \in Indexes, NEW f \in files, ~Coincides(f.of, f.judge)
  PROVE  f \in I /\ I \subseteq files
<1>1. PICK g \in I : g.at = f.at
  BY DEF Indexes
<1>2. I \subseteq files
  BY DEF Indexes
<1>3. g = f
  BY <1>1, <1>2 DEF Coincides
<1>4. QED
  BY <1>1, <1>2, <1>3

\* The candidates are the judge's own files, and their distances numbers.
LEMMA CandidatesOfJudge ==
  ASSUME Typed, Prefixed = {}, NEW I \in Indexes, NEW j \in Judges,
         NEW k \in Judgments, Recorded(k)
  PROVE  /\ Candidates(I, j) = {g \in I : g.judge = j}
         /\ event[k] \in Int
         /\ \A g \in files : g.at \in Int /\ Distance(g.at, event[k]) \in Int
BY DEF Candidates, Recorded, Time, Typed, RecordTypeOK, File, Distance

\* First part: a vote whose judgment followed promptly has its own.
LEMMA PromptIsJoined ==
  ASSUME Typed, Serial, Inv, Prefixed = {}, NEW k \in Judgments, NEW j \in Judges,
         NEW I \in Indexes, NEW f \in files, f.of = k, f.judge = j,
         Prompt(f), ~Coincides(k, j)
  PROVE  Join(I, k, j) = {f}
<1>1. f \in I /\ I \subseteq files
  BY OwnIsIndexed
<1>2. Recorded(k)
  BY DEF Prompt
<1>3. /\ Candidates(I, j) = {g \in I : g.judge = j}
      /\ event[k] \in Int
      /\ \A g \in files : g.at \in Int /\ Distance(g.at, event[k]) \in Int
  BY <1>2, CandidatesOfJudge
<1>4. \A g \in Candidates(I, j) : g # f =>
         Distance(f.at, event[k]) < Distance(g.at, event[k])
  <2>1. \A g \in files : g.of = k /\ g.judge = j => g = f
    BY DEF Inv, FilesInv
  <2>2. QED
    BY <1>1, <1>3, <2>1, PromptIsNearest
<1>5. Distance(f.at, event[k]) <= Window
  <2>1. f.at <= event[k] /\ event[k] - f.at <= Window
    BY <1>2 DEF Inv, WaitInv, Prompt
  <2>2. QED
    BY <1>3, <2>1 DEF Distance
<1>6. f \in Join(I, k, j)
  <2>1. \A g \in Candidates(I, j) :
           Distance(f.at, event[k]) <= Distance(g.at, event[k])
    BY <1>1, <1>3, <1>4
  <2>2. QED
    BY <1>1, <1>3, <1>5, <2>1 DEF Join
<1>7. ASSUME NEW g \in Join(I, k, j) PROVE g = f
  <2>1. g \in Candidates(I, j) /\ f \in Candidates(I, j)
    BY <1>1, <1>3 DEF Join
  <2>2. Distance(g.at, event[k]) <= Distance(f.at, event[k])
    BY <2>1 DEF Join
  <2>3. g \in files
    BY <1>1, <1>3, <2>1
  <2>4. ~(Distance(f.at, event[k]) < Distance(g.at, event[k]))
    BY <1>3, <2>2, <2>3
  <2>5. QED
    BY <1>4, <2>1, <2>4
<1>8. QED
  BY <1>6, <1>7

\* Second part: what a transcript of another judgment says of the vote.
LEMMA ForeignIsLater ==
  ASSUME Typed, Serial, Inv, Prefixed = {}, NEW k \in Judgments, NEW j \in Judges,
         NEW I \in Indexes, Recorded(k), NEW f \in Join(I, k, j), f.of # k,
         session[k][j] # "lost", ~Coincides(k, j)
  PROVE  event[k] + MinSession <= f.at
<1>1. session[k][j] = "written"
  <2>1. Decided(k)
    BY DEF Recorded, Decided, Time, TranscriptsAssumption
  <2>2. QED
    BY <2>1 DEF Inv, OpenInv
<1>2. PICK own \in files : own.of = k /\ own.judge = j
  BY <1>1 DEF Inv, FilesInv
<1>3. own \in I /\ I \subseteq files
  BY <1>2, OwnIsIndexed
<1>4. /\ Candidates(I, j) = {g \in I : g.judge = j}
      /\ event[k] \in Int
      /\ \A g \in files : g.at \in Int /\ Distance(g.at, event[k]) \in Int
  BY CandidatesOfJudge
<1>5. f \in Candidates(I, j) /\ own \in Candidates(I, j)
  BY <1>2, <1>3, <1>4 DEF Join
<1>6. Distance(f.at, event[k]) <= Distance(own.at, event[k])
  BY <1>5 DEF Join
<1>7. f \in files /\ f.judge = j
  BY <1>3, <1>4, <1>5
<1>8. ~(Distance(own.at, event[k]) < Distance(f.at, event[k]))
  BY <1>2, <1>4, <1>6, <1>7
<1>9. QED
  BY <1>2, <1>7, <1>8, OwnIsNearer

(* The join by name and nearest time stamp, for any number of judgments,   *)
(* any panel without a name that begins with another, and any sessions     *)
(* that time out or fail, however long they keep a transcript waiting: a   *)
(* judgment that follows promptly has its own, and a vote that left a      *)
(* transcript is never joined with one of an earlier session.              *)
THEOREM JoinIsOwnAlways ==
  ASSUME Serial, Prefixed = {}
  PROVE  Spec => []JoinIsOwn
<1>1. Typed /\ Inv => JoinIsOwn
  BY PromptIsJoined, ForeignIsLater DEF JoinIsOwn
<1>2. QED
  BY <1>1, TypedAlways, InvAlways, PTL

=============================================================================
