---- MODULE EventLog ----
(***************************************************************************)
(* events.jsonl: one line per event, appended by the runs of any number of *)
(* processes, each through an EventLog of its own, with no lock between    *)
(* them. append() opens the file, writes the line and a newline, and       *)
(* closes; nobody looks at what the stream says of the write. A short line *)
(* reaches the file in one write, a long one in two: the text, then the    *)
(* newline. A second copy goes to SQLite when a store is attached. The     *)
(* readers parse every line of the file, whichever run they look for.      *)
(***************************************************************************)
EXTENDS Naturals, Sequences, FiniteSets

CONSTANTS
  Runs,         \* the runs that ever append, each in its process
  MaxEvents,    \* most events of a run
  LongEvents,   \* can an event be too long for the stream's buffer
  DiskMayFill   \* can a write fail

ASSUME EventLogAssumption ==
  /\ MaxEvents \in Nat \ {0}
  /\ LongEvents \in BOOLEAN /\ DiskMayFill \in BOOLEAN

VARIABLES
  stores,  \* the runs whose EventLog has a SqliteStore attached
  stage,   \* where each run is: between events, in an append, or over
  sent,    \* how many events it has passed to append()
  closing, \* the last of them is terminal
  file,    \* the log file: event texts and newlines, in order
  rows,    \* the events of each run in SQLite, in order
  lost     \* events a failing write dropped, in whole or in part

vars == <<stores, stage, sent, closing, file, rows, lost>>

Stage == {"idle", "newline", "mirror", "finished", "threw", "crashed"}

\* What the file is made of. The text of an event may be cut short.
Event == [run : Runs, n : 1..MaxEvents, terminal : BOOLEAN]
Text(e) == [kind |-> "text", event |-> e]
CutText(e) == [kind |-> "cut", event |-> e]
Newline(e) == [kind |-> "newline", event |-> e]
Token == [kind : {"text", "cut", "newline"}, event : Event]

IsNewline(i) == file[i].kind = "newline"

Init ==
  /\ stores \in SUBSET Runs
  /\ stage = [r \in Runs |-> "idle"]
  /\ sent = [r \in Runs |-> 0]
  /\ closing = [r \in Runs |-> FALSE]
  /\ file = <<>>
  /\ rows = [r \in Runs |-> <<>>]
  /\ lost = {}

\* The event the run is appending.
Current(r) == [run |-> r, n |-> sent[r], terminal |-> closing[r]]

\* Where the run goes when its line is written, and when the append is over.
AfterAppend(r) == IF closing'[r] THEN "finished" ELSE "idle"

\* mutant: the mirror is called whether there is a store or not
AfterLineAlwaysMirrors(r) == "mirror"

AfterLine(r) == IF r \in stores THEN "mirror" ELSE AfterAppend(r)

At(r, s) == stage' = [stage EXCEPT ![r] = s]

(***************************************************************************)
(* Append: the run's next event, terminal or not.                          *)
(***************************************************************************)
NextEvent(r) ==
  /\ stage[r] = "idle" /\ sent[r] < MaxEvents
  /\ sent' = [sent EXCEPT ![r] = @ + 1]
  /\ \E terminal \in BOOLEAN : closing' = [closing EXCEPT ![r] = terminal]

\* The stream does not open: append() throws, and the run is over.
OpenThrows(r) ==
  /\ stage[r] = "idle" /\ sent[r] < MaxEvents
  /\ At(r, "threw")
  /\ UNCHANGED <<sent, closing, file, rows, lost>>

\* mutant: the stream is opened without ios::app
AppendTruncates(r) ==
  /\ NextEvent(r)
  /\ file' = <<Text(Current(r)'), Newline(Current(r)')>>
  /\ At(r, AfterLine(r))
  /\ UNCHANGED <<rows, lost>>

\* mutant: no newline is written
AppendNoNewline(r) ==
  /\ NextEvent(r)
  /\ file' = file \o <<Text(Current(r)')>>
  /\ At(r, AfterLine(r))
  /\ UNCHANGED <<rows, lost>>

AppendShort(r) ==
  /\ NextEvent(r)
  /\ file' = file \o <<Text(Current(r)'), Newline(Current(r)')>>
  /\ At(r, AfterLine(r))
  /\ UNCHANGED <<rows, lost>>

AppendLong(r) ==
  /\ LongEvents
  /\ NextEvent(r)
  /\ file' = Append(file, Text(Current(r)'))
  /\ At(r, "newline")
  /\ UNCHANGED <<rows, lost>>

\* Closing the stream flushes the newline.
EndLine(r) ==
  /\ stage[r] = "newline"
  /\ file' = Append(file, Newline(Current(r)))
  /\ UNCHANGED <<sent, closing>>
  /\ At(r, AfterLine(r))
  /\ UNCHANGED <<rows, lost>>

\* The disk is full: the stream goes bad, which nobody asks. The text is
\* missing or cut, and no newline follows it.
WriteFails(r) ==
  /\ DiskMayFill
  /\ NextEvent(r)
  /\ file' \in {file, Append(file, CutText(Current(r)')), Append(file, Text(Current(r)'))}
  /\ lost' = lost \cup {Current(r)'}
  /\ At(r, AfterLine(r))
  /\ UNCHANGED rows

NewlineFails(r) ==
  /\ DiskMayFill
  /\ stage[r] = "newline"
  /\ lost' = lost \cup {Current(r)}
  /\ UNCHANGED <<sent, closing, file, rows>>
  /\ At(r, AfterLine(r))

(***************************************************************************)
(* mirror_sqlite, after the line.                                          *)
(***************************************************************************)
Mirror(r) ==
  /\ stage[r] = "mirror"
  /\ rows' = [rows EXCEPT ![r] = Append(@, Current(r))]
  /\ UNCHANGED <<sent, closing>>
  /\ At(r, AfterAppend(r))
  /\ UNCHANGED <<file, lost>>

\* mutant: a failing mirror is ignored
MirrorSkips(r) ==
  /\ stage[r] = "mirror"
  /\ UNCHANGED <<sent, closing>>
  /\ At(r, AfterAppend(r))
  /\ UNCHANGED <<file, rows, lost>>

\* The insert fails: the database is busy, or has no row for the run.
MirrorThrows(r) ==
  /\ stage[r] = "mirror"
  /\ At(r, "threw")
  /\ UNCHANGED <<sent, closing, file, rows, lost>>

(***************************************************************************)
(* A process dies: nothing in the program handles a signal. A write it was *)
(* in the middle of may be cut.                                            *)
(***************************************************************************)
Crash(r) ==
  /\ stage[r] \in {"idle", "newline", "mirror"}
  /\ At(r, "crashed")
  /\ UNCHANGED <<sent, closing, file, rows, lost>>

CrashInWrite(r) ==
  /\ LongEvents
  /\ NextEvent(r)
  /\ file' = Append(file, CutText(Current(r)'))
  /\ At(r, "crashed")
  /\ UNCHANGED <<rows, lost>>

Step(r) ==
  \/ OpenThrows(r) \/ AppendShort(r) \/ AppendLong(r) \/ EndLine(r)
  \/ WriteFails(r) \/ NewlineFails(r) \/ Mirror(r) \/ MirrorThrows(r)
  \/ Crash(r) \/ CrashInWrite(r)

Next == (\E r \in Runs : Step(r)) /\ UNCHANGED stores

Spec == Init /\ [][Next]_vars

(***************************************************************************)
(* The readers. A line is what lies between two newlines; empty lines are  *)
(* skipped, and any other that is not the whole text of one event makes    *)
(* the parser, and the reader, throw.                                      *)
(***************************************************************************)
WholeLine(i) ==
  /\ file[i].kind = "text"
  /\ i > 1 => IsNewline(i - 1)
  /\ i < Len(file) => IsNewline(i + 1)

Readable == \A i \in DOMAIN file : IsNewline(i) \/ WholeLine(i)

\* The events of r on record: what list_for_run returns of a readable file.
OnRecord(r) == {i \in DOMAIN file : file[i].kind = "text" /\ file[i].event.run = r}

\* mutant: one terminal event closes every run
IncompleteForgetsRun ==
  {r \in Runs : /\ OnRecord(r) # {}
                /\ ~\E q \in Runs : \E i \in OnRecord(q) : file[i].event.terminal}

\* find_incomplete_runs: runs on record without a terminal event.
Incomplete ==
  {r \in Runs : /\ OnRecord(r) # {}
                /\ ~\E i \in OnRecord(r) : file[i].event.terminal}

(***************************************************************************)
(* Properties.                                                             *)
(***************************************************************************)

\* Every variable stays in its type; without a store nothing is mirrored.
TypeOK ==
  /\ stores \subseteq Runs
  /\ stage \in [Runs -> Stage]
  /\ sent \in [Runs -> 0..MaxEvents]
  /\ closing \in [Runs -> BOOLEAN]
  /\ file \in Seq(Token)
  /\ rows \in [Runs -> Seq(Event)]
  /\ lost \subseteq Event
  /\ \A r \in Runs \ stores : stage[r] # "mirror" /\ rows[r] = <<>>

\* A file that can be read gives each run back its events, in the order they
\* were appended, none twice; one is missing only if its write failed, which
\* the writer was not told.
ReadBack ==
  Readable => \A r \in Runs :
    /\ \A i, j \in OnRecord(r) : i < j => file[i].event.n < file[j].event.n
    /\ \A n \in 1..sent[r] :
         \/ \E i \in OnRecord(r) : file[i].event.n = n
         \/ \E e \in lost : e.run = r /\ e.n = n

\* What makes a line unreadable: a text is cut, or is not followed by its
\* newline, only where the process died or a write failed unnoticed, or where
\* another run wrote in between. A run alone on a sound disk cannot do it.
Broken(i) ==
  \/ file[i].kind = "cut"
  \/ file[i].kind = "text" /\ i < Len(file) /\ ~IsNewline(i + 1)

DamageHasCause ==
  \A i \in DOMAIN file : Broken(i) =>
    \/ stage[file[i].event.run] = "crashed"
    \/ file[i].event \in lost
    \/ i < Len(file) /\ file[i + 1].event.run # file[i].event.run

\* Which runs are reported incomplete: never one that finished, unless its
\* last write failed; always one that ended before its terminal event.
IncompleteIsRight ==
  Readable => \A r \in Runs :
    /\ stage[r] = "finished" /\ Current(r) \notin lost => r \notin Incomplete
    /\ stage[r] \in {"threw", "crashed"} /\ ~closing[r] /\ OnRecord(r) # {} =>
         r \in Incomplete

\* The copy in SQLite is never ahead of the appends, and behind them by the
\* last event at most, when the run was stopped between line and row.
MirrorLagsByOne ==
  \A r \in stores :
    /\ \A i \in DOMAIN rows[r] : rows[r][i].run = r /\ rows[r][i].n = i
    /\ Len(rows[r]) \in {sent[r], sent[r] - 1}
    /\ stage[r] \in {"idle", "finished"} => Len(rows[r]) = sent[r]
====
