----------------------------- MODULE Transcripts -----------------------------
(***************************************************************************)
(* Which session's transcript the analysis counts for a vote.  A judge's   *)
(* session leaves judge_transcripts/<judge>_<ms>.stdout when it ends       *)
(* (core/judges/agentic.py), the orchestrator writes the judgment with its *)
(* own time stamp when the last judge of the panel has voted, and no       *)
(* record names the other: analysis/extract_all.py joins the two by the    *)
(* judge's name and the nearest time stamp.                                *)
(***************************************************************************)
EXTENDS Integers, FiniteSets

CONSTANTS
    Judgments,   \* the panel judgments of a results directory
    Judges,      \* the judge names of the panel
    Prefixed,    \* pairs of judge names of which the first starts with the second
    Concurrency, \* judgments that may be open at a time
    MinSession,  \* the time a session takes at least
    Window,      \* matches farther apart are rejected (600 s)
    Horizon,     \* bound on the clock
    Never,       \* the time stamp of a judgment still to be recorded
    Dropped      \* and of one that will not be

ASSUME TranscriptsAssumption ==
    /\ IsFiniteSet(Judgments)
    /\ Prefixed \subseteq Judges \X Judges
    /\ Concurrency \in Nat
    /\ {MinSession, Window, Horizon} \subseteq Nat
    /\ Never \notin Nat /\ Dropped \notin Nat /\ Never # Dropped

VARIABLES
    now,      \* the clock, in units of a time stamp
    session,  \* per judgment and judge: its task and claude session
    started,  \* per judgment and judge: when a running session was started
    files,    \* judge_transcripts/
    event     \* per judgment: the time stamp of its event

vars == <<now, session, started, files, event>>

Time == 0 .. Horizon
File == [judge : Judges, at : Time, of : Judgments]

TypeOK ==
    /\ now \in Time
    /\ session \in [Judgments -> [Judges ->
                       {"none", "waiting", "running", "written", "lost"}]]
    /\ started \in [Judgments -> [Judges -> Time]]
    /\ files \subseteq File
    /\ event \in [Judgments -> Time \cup {Never, Dropped}]

Init ==
    /\ now = 0
    /\ session = [k \in Judgments |-> [j \in Judges |-> "none"]]
    /\ started = [k \in Judgments |-> [j \in Judges |-> 0]]
    /\ files = {}
    /\ event = [k \in Judgments |-> Never]

-----------------------------------------------------------------------------

Begun(k) == \E j \in Judges : session[k][j] # "none"

Open == {k \in Judgments : Begun(k) /\ event[k] = Never}

\* Time passes; a transcript waits for its judgment however long it takes.
Tick ==
    /\ now < Horizon
    /\ now' = now + 1
    /\ UNCHANGED <<session, started, files, event>>

\* Mutant of Begin: panels overlap without bound.
BeginAnyway(k) ==
    /\ ~Begun(k)
    /\ session' = [session EXCEPT ![k] = [j \in Judges |-> "waiting"]]
    /\ UNCHANGED <<now, started, files, event>>

\* run_judges makes a task for each judge.
Begin(k) ==
    /\ ~Begun(k)
    /\ Cardinality(Open) < Concurrency
    /\ session' = [session EXCEPT ![k] = [j \in Judges |-> "waiting"]]
    /\ UNCHANGED <<now, started, files, event>>

\* Its delay is over and the call is staged: the session starts.
Start(k, j) ==
    /\ session[k][j] = "waiting"
    /\ session' = [session EXCEPT ![k][j] = "running"]
    /\ started' = [started EXCEPT ![k][j] = now]
    /\ UNCHANGED <<now, files, event>>

\* Mutant of Finish: the stamp is taken when the session starts.
FinishAsStarted(k, j) ==
    /\ session[k][j] = "running"
    /\ now >= started[k][j] + MinSession
    /\ session' = [session EXCEPT ![k][j] = "written"]
    /\ files' = {f \in files : ~(f.judge = j /\ f.at = started[k][j])}
                \cup {[judge |-> j, at |-> started[k][j], of |-> k]}
    /\ started' = [started EXCEPT ![k][j] = 0]
    /\ UNCHANGED <<now, event>>

\* The session has ended and its transcript is written under the judge's
\* name and the time; a file of that very name is overwritten.
Finish(k, j) ==
    /\ session[k][j] = "running"
    /\ now >= started[k][j] + MinSession
    /\ session' = [session EXCEPT ![k][j] = "written"]
    /\ files' = {f \in files : ~(f.judge = j /\ f.at = now)}
                \cup {[judge |-> j, at |-> now, of |-> k]}
    /\ started' = [started EXCEPT ![k][j] = 0]
    /\ UNCHANGED <<now, event>>

\* A timeout, or a step before the session fails: a vote, but no transcript.
GiveUp(k, j) ==
    /\ session[k][j] \in {"waiting", "running"}
    /\ session' = [session EXCEPT ![k][j] = "lost"]
    /\ started' = [started EXCEPT ![k][j] = 0]
    /\ UNCHANGED <<now, files, event>>

\* Every judge has voted: the judgment is written with the present time.
Record(k) ==
    /\ event[k] = Never
    /\ \A j \in Judges : session[k][j] \in {"written", "lost"}
    /\ event' = [event EXCEPT ![k] = now]
    /\ UNCHANGED <<now, session, started, files>>

\* The last vote was an exception, or the record could not be appended.
Drop(k) ==
    /\ event[k] = Never
    /\ \A j \in Judges : session[k][j] \in {"written", "lost"}
    /\ event' = [event EXCEPT ![k] = Dropped]
    /\ UNCHANGED <<now, session, started, files>>

Finished == now = Horizon /\ UNCHANGED vars

Next ==
    \/ Tick
    \/ \E k \in Judgments :
          \/ Begin(k) \/ Record(k) \/ Drop(k)
          \/ \E j \in Judges : Start(k, j) \/ Finish(k, j) \/ GiveUp(k, j)
    \/ Finished

Spec == Init /\ [][Next]_vars

-----------------------------------------------------------------------------
\* The join.

Distance(a, b) == IF a < b THEN b - a ELSE a - b

\* _index_transcripts: a dictionary from time stamps to files, in which one
\* of the files with the same stamp survives.
Indexes ==
    {I \in SUBSET files :
        /\ \A f \in files : \E g \in I : g.at = f.at
        /\ \A f, g \in I : f.at = g.at => f = g}

\* The files of an index whose name starts with the judge's.
Candidates(I, j) == {f \in I : f.judge = j \/ <<f.judge, j>> \in Prefixed}

\* _match_transcript: what it may return, a nearest candidate in the window.
Join(I, k, j) ==
    {f \in Candidates(I, j) :
        /\ \A g \in Candidates(I, j) :
              Distance(f.at, event[k]) <= Distance(g.at, event[k])
        /\ Distance(f.at, event[k]) <= Window}

-----------------------------------------------------------------------------

Recorded(k) == event[k] \in Time

\* Two sessions of a panel ended in the same millisecond.
Coincides(k, j) ==
    \E f, g \in files : f # g /\ f.at = g.at /\ f.of = k /\ f.judge = j

\* The judgment followed this transcript within the shortest session.
Prompt(f) ==
    Recorded(f.of) /\ event[f.of] - f.at < MinSession /\ event[f.of] - f.at <= Window

(* How far the join can be trusted when judgments come one at a time.  A   *)
(* vote whose judgment followed promptly is joined with its own transcript *)
(* and no other.  The transcript of another judgment is counted for a vote *)
(* that left none (it timed out), or one whose stamp another session's     *)
(* hides; every other vote, however long it waited for a judge that timed  *)
(* out, is at worst taken for one of a session that began after it was     *)
(* recorded, and never for one of an earlier session.                      *)
JoinIsOwn ==
    \A k \in Judgments, j \in Judges : Recorded(k) =>
        \A I \in Indexes :
            /\ \A f \in files :
                  f.of = k /\ f.judge = j /\ Prompt(f) /\ ~Coincides(k, j) =>
                      Join(I, k, j) = {f}
            /\ \A f \in Join(I, k, j) : f.of # k =>
                  \/ session[k][j] = "lost"
                  \/ Coincides(k, j)
                  \/ event[k] + MinSession <= f.at

(* No transcript is overwritten: two sessions of one judge never end under *)
(* the same name, so that each vote that left a transcript still has it.   *)
TranscriptsKept ==
    \A k \in Judgments, j \in Judges :
        session[k][j] = "written" => \E f \in files : f.of = k /\ f.judge = j

=============================================================================
