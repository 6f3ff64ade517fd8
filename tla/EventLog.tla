------------------------------ MODULE EventLog ------------------------------
(***************************************************************************)
(* One JSONL file of a results directory (core/logger.py) under the        *)
(* processes that append to it and the programs that read it.  An append   *)
(* takes a file lock, but a record larger than the write buffer reaches    *)
(* the file in pieces, a writer may die or run out of disk between two of  *)
(* them, and readers take no lock.                                         *)
(*                                                                         *)
(* A record is two pieces and a newline.  The file is kept as the set of   *)
(* lines that a newline has closed, whose order no reader uses, and the    *)
(* piece sequence after the last newline.                                  *)
(***************************************************************************)
EXTENDS Integers, Sequences, FiniteSets

CONSTANTS
    Writers,     \* the processes with a JSONLLogger on the file
    MaxAppends,  \* bound: records of one writer
    MaxTorn,     \* bound: appends that are cut short
    None         \* nobody holds the lock

ASSUME LogAssumption ==
    /\ MaxAppends \in Nat /\ MaxTorn \in Nat
    /\ None \notin Writers

VARIABLES
    pc,       \* per writer: where append is
    written,  \* per writer: what of its record is in the file
    count,    \* per writer: records begun
    lock,     \* who holds the FileLock
    lines,    \* the closed lines
    open,     \* what follows the last newline
    done,     \* the records whose append returned
    torn      \* the records whose append did not write its newline

logVars == <<pc, written, count, lock, lines, open, done, torn>>

Record == Writers \X (1 .. MaxAppends)
Piece == Record \X {"head", "body"}

LogTypeOK ==
    /\ pc \in [Writers -> {"idle", "waiting", "writing", "dead"}]
    /\ written \in [Writers -> {"nothing", "head", "body", "newline"}]
    /\ count \in [Writers -> 0 .. MaxAppends]
    /\ lock \in Writers \cup {None}
    /\ lines \subseteq Seq(Piece)
    /\ open \in Seq(Piece)
    /\ done \subseteq Record
    /\ torn \subseteq Record

LogInit ==
    /\ pc = [w \in Writers |-> "idle"]
    /\ written = [w \in Writers |-> "nothing"]
    /\ count = [w \in Writers |-> 0]
    /\ lock = None
    /\ lines = {} /\ open = <<>>
    /\ done = {} /\ torn = {}

-----------------------------------------------------------------------------

Goto(w, step) == pc' = [pc EXCEPT ![w] = step]

\* The record w is at.
Current(w) == <<w, count[w]>>

\* A record is serialised and its append waits for the lock.
Begin(w) ==
    /\ pc[w] = "idle" /\ count[w] < MaxAppends
    /\ Goto(w, "waiting")
    /\ count' = [count EXCEPT ![w] = @ + 1]
    /\ written' = [written EXCEPT ![w] = "nothing"]
    /\ UNCHANGED <<lock, lines, open, done, torn>>

\* Mutant of Acquire: no lock is taken.
AcquireAnyway(w) ==
    /\ pc[w] = "waiting"
    /\ Goto(w, "writing")
    /\ lock' = w
    /\ UNCHANGED <<written, count, lines, open, done, torn>>

\* The lock is free: open the file for appending.
Acquire(w) ==
    /\ pc[w] = "waiting" /\ lock = None
    /\ Goto(w, "writing")
    /\ lock' = w
    /\ UNCHANGED <<written, count, lines, open, done, torn>>

\* The buffer is flushed piece by piece, always to the end of the file.
Write(w) ==
    /\ pc[w] = "writing"
    /\ \/ /\ written[w] = "nothing"
          /\ written' = [written EXCEPT ![w] = "head"]
          /\ open' = Append(open, <<Current(w), "head">>)
          /\ UNCHANGED lines
       \/ /\ written[w] = "head"
          /\ written' = [written EXCEPT ![w] = "body"]
          /\ open' = Append(open, <<Current(w), "body">>)
          /\ UNCHANGED lines
       \/ /\ written[w] = "body"
          /\ written' = [written EXCEPT ![w] = "newline"]
          /\ lines' = lines \cup {open}
          /\ open' = <<>>
    /\ UNCHANGED <<pc, count, lock, done, torn>>

\* Close the file and release the lock; append returns.
Release(w) ==
    /\ pc[w] = "writing" /\ written[w] = "newline"
    /\ Goto(w, "idle")
    /\ lock' = None
    /\ done' = done \cup {Current(w)}
    /\ UNCHANGED <<written, count, lines, open, torn>>

\* Nothing takes back what an append that ends early has written.
Abandon(w) ==
    torn' = IF written[w] \in {"head", "body"}
            THEN torn \cup {Current(w)} ELSE torn

\* The write raises, on a full disk: the with statements close the file and
\* release the lock, and the caller has the exception.
Fail(w) ==
    /\ pc[w] = "writing" /\ written[w] # "newline"
    /\ Cardinality(torn) < MaxTorn
    /\ Goto(w, "idle")
    /\ lock' = None
    /\ Abandon(w)
    /\ UNCHANGED <<written, count, lines, open, done>>

\* Mutant of Crash: a lock that is a file and stays behind.
CrashKeepsLock(w) ==
    /\ pc[w] \in {"waiting", "writing"}
    /\ Cardinality(torn) < MaxTorn
    /\ Goto(w, "dead")
    /\ Abandon(w)
    /\ UNCHANGED <<written, count, lock, lines, open, done>>

\* The process dies, and with it its lock on the lock file.
Crash(w) ==
    /\ pc[w] \in {"waiting", "writing"}
    /\ Cardinality(torn) < MaxTorn
    /\ Goto(w, "dead")
    /\ lock' = IF lock = w THEN None ELSE lock
    /\ Abandon(w)
    /\ UNCHANGED <<written, count, lines, open, done>>

Step(w) == Acquire(w) \/ Write(w) \/ Release(w)

LogNext == \E w \in Writers : Begin(w) \/ Step(w) \/ Fail(w) \/ Crash(w)

LogSpec == LogInit /\ [][LogNext]_logVars

\* A process that is in append goes on: the lock is polled until it is free,
\* and no process appends for ever.
LogFairness == \A w \in Writers : WF_logVars(Step(w))

LogFairSpec == LogSpec /\ LogFairness

-----------------------------------------------------------------------------
\* The readers.  A file that only grows is read as it was at the moment the
\* reader met its end.

Line(r) == << <<r, "head">>, <<r, "body">> >>

\* json.loads accepts exactly one complete record.
Parses(line) == \E r \in Record : line = Line(r)

\* The readers of experiment.py and extract_all.py skip what does not parse.
Tolerant == {r \in Record : Line(r) \in lines \cup {open}}

\* read_all and aggregate.py raise on it; blank lines are no lines.
StrictRaises == \E line \in (lines \cup {open}) \ {<<>>} : ~Parses(line)

-----------------------------------------------------------------------------

(* Unless an append was cut short, readers that hold no lock are safe: one *)
(* that skips bad lines has every record whose append returned, also while *)
(* others write, and one that does not skip them raises only while a       *)
(* record is on its way to the file.                                       *)
CleanLogReads ==
    torn = {} =>
        /\ done \subseteq Tolerant
        /\ StrictRaises => \E w \in Writers : lock = w /\ written[w] = "head"

(* An append that is cut short leaves a fragment on which the next record  *)
(* lands: that record is lost though its append returned.  No append that  *)
(* was cut short costs more than one other record.                         *)
LossBounded == Cardinality(done \ Tolerant) <= Cardinality(torn)

(* A writer that waits is served although the holder of the lock may die   *)
(* in the middle of a record.                                              *)
EveryAppendEnds ==
    \A w \in Writers : pc[w] = "waiting" ~> pc[w] \in {"idle", "dead"}

=============================================================================
