---- MODULE AtomicWrite ----
(***************************************************************************)
(* patch::atomic_write: write the content beside the file, then rename it  *)
(* over the file. The name beside the file is the same for every writer.   *)
(* Files are inodes with blocks; a name refers to an inode, and so does an *)
(* open stream, also when the name has moved on.                           *)
(***************************************************************************)
EXTENDS Naturals, Sequences

CONSTANTS
  Writers,        \* calls of atomic_write on one path, one content each
  Size,           \* the blocks of a content
  Overlap,        \* may two of them be under way at once
  FlushMayFail    \* may the stream fail to write when it is closed

ASSUME AtomicWriteAssumption ==
  /\ Size \in Nat
  /\ Overlap \in BOOLEAN /\ FlushMayFail \in BOOLEAN
  /\ {"original", "none"} \cap Writers = {}

VARIABLES
  long,     \* the writers whose content exceeds the stream's buffer
  stage,    \* where each call is
  stream,   \* the inode each has open
  written,  \* how many blocks of its content it has written
  disk,     \* the blocks of each inode
  path,     \* the inode the file's name refers to
  tmp       \* the inode the name beside it refers to, or "none"

vars == <<long, stage, stream, written, disk, path, tmp>>

Stage == {"idle", "opened", "closing", "closed", "removing",
          "true", "false", "crashed"}
Over == {"true", "false", "crashed"}
Inode == Writers \cup {"original"}
Block == Inode \cup {"hole"}

ContentOf(w) == [i \in 1..Size |-> w]

Init ==
  /\ long \in SUBSET Writers
  /\ stage = [w \in Writers |-> "idle"]
  /\ stream = [w \in Writers |-> "none"]
  /\ written = [w \in Writers |-> 0]
  /\ disk = [i \in Inode |-> IF i = "original" THEN <<"original">> ELSE <<>>]
  /\ path = "original"
  /\ tmp = "none"

Go(w, next) == stage' = [stage EXCEPT ![w] = next]

\* mutant: the file itself is opened and truncated
OpenInPlace(w) ==
  /\ stage[w] = "idle"
  /\ Overlap \/ \A v \in Writers : stage[v] \in Over \cup {"idle"}
  /\ Go(w, "opened")
  /\ tmp' = path
  /\ stream' = [stream EXCEPT ![w] = tmp']
  /\ disk' = [disk EXCEPT ![tmp'] = <<>>]
  /\ UNCHANGED <<long, written, path>>

\* The stream opens the name beside the file: a new inode, or whatever a
\* writer before left there, truncated.
Open(w) ==
  /\ stage[w] = "idle"
  /\ Overlap \/ \A v \in Writers : stage[v] \in Over \cup {"idle"}
  /\ Go(w, "opened")
  /\ tmp' = IF tmp = "none" THEN w ELSE tmp
  /\ stream' = [stream EXCEPT ![w] = tmp']
  /\ disk' = [disk EXCEPT ![tmp'] = <<>>]
  /\ UNCHANGED <<long, written, path>>

OpenFails(w) ==
  /\ stage[w] = "idle"
  /\ Go(w, "false")
  /\ UNCHANGED <<long, stream, written, disk, path, tmp>>

\* n blocks go to the stream's own position, beyond the end if need be.
PutBlocks(w, n) ==
  LET from == written[w]
      to == from + n
      file == disk[stream[w]]
  IN  /\ written' = [written EXCEPT ![w] = to]
      /\ disk' = [disk EXCEPT ![stream[w]] =
                    [i \in 1..(IF to > Len(file) THEN to ELSE Len(file)) |->
                       IF from < i /\ i <= to THEN w
                       ELSE IF i <= Len(file) THEN file[i] ELSE "hole"]]

\* Long content goes past the buffer, piece by piece; short content stays in it.
WriteBlock(w) ==
  /\ stage[w] = "opened"
  /\ w \in long /\ written[w] < Size
  /\ PutBlocks(w, 1)
  /\ UNCHANGED <<long, stage, stream, path, tmp>>

Written(w) ==
  /\ stage[w] = "opened"
  /\ w \in long => written[w] = Size
  /\ Go(w, "closing")
  /\ UNCHANGED <<long, stream, written, disk, path, tmp>>

\* The stream reports the failure of the write.
WriteFails(w) ==
  /\ stage[w] = "opened" /\ w \in long
  /\ Go(w, "removing")
  /\ UNCHANGED <<long, stream, written, disk, path, tmp>>

\* The destructor closes the stream: the buffer is flushed.
Close(w) ==
  /\ stage[w] = "closing"
  /\ IF w \in long THEN UNCHANGED <<written, disk>> ELSE PutBlocks(w, Size)
  /\ Go(w, "closed")
  /\ UNCHANGED <<long, stream, path, tmp>>

\* That fails with some of the content on the disk or none, and nobody is
\* told: the stream is gone with its error bits.
FlushFails(w) ==
  /\ FlushMayFail
  /\ stage[w] = "closing" /\ w \notin long
  /\ \E n \in 0..(Size - 1) : PutBlocks(w, n)
  /\ Go(w, "closed")
  /\ UNCHANGED <<long, stream, path, tmp>>

\* mutant: the old file is removed first
RenameAfterRemove(w) ==
  /\ stage[w] = "closed" /\ tmp # "none"
  /\ IF path = "none" THEN path' = tmp /\ tmp' = "none" /\ Go(w, "true")
                      ELSE path' = "none" /\ UNCHANGED <<stage, tmp>>
  /\ UNCHANGED <<long, stream, written, disk>>

\* The name beside the file becomes the file, whoever's it is by now.
Rename(w) ==
  /\ stage[w] = "closed" /\ tmp # "none"
  /\ path' = tmp
  /\ tmp' = "none"
  /\ Go(w, "true")
  /\ UNCHANGED <<long, stream, written, disk>>

\* rename has nothing to rename, or fails for another reason.
RenameFails(w) ==
  /\ stage[w] = "closed"
  /\ Go(w, "removing")
  /\ UNCHANGED <<long, stream, written, disk, path, tmp>>

\* The name beside the file goes, if it is there.
Remove(w) ==
  /\ stage[w] = "removing"
  /\ tmp' = "none"
  /\ Go(w, "false")
  /\ UNCHANGED <<long, stream, written, disk, path>>

\* The process dies in the call.
Crash(w) ==
  /\ stage[w] \notin Over \cup {"idle"}
  /\ Go(w, "crashed")
  /\ UNCHANGED <<long, stream, written, disk, path, tmp>>

AtomicWrite(w) ==
  \/ Open(w) \/ OpenFails(w) \/ WriteBlock(w) \/ Written(w) \/ WriteFails(w)
  \/ Close(w) \/ FlushFails(w) \/ Rename(w) \/ RenameFails(w) \/ Remove(w)
  \/ Crash(w)

Next == \E w \in Writers : AtomicWrite(w)

Spec == Init /\ [][Next]_vars

(***************************************************************************)
(* Properties.                                                             *)
(***************************************************************************)

\* Every variable stays in its type. (The name beside the file may refer to
\* the inode of any writer that found no such name.)
TypeOK ==
  /\ long \subseteq Writers
  /\ stage \in [Writers -> Stage]
  /\ stream \in [Writers -> Inode \cup {"none"}]
  /\ written \in [Writers -> 0..Size]
  /\ disk \in [Inode -> Seq(Block)]
  /\ path \in Inode
  /\ tmp \in Inode \cup {"none"}
  /\ tmp # path

Whole(file) ==
  \/ file = <<"original">>
  \/ \E w \in Writers : file = ContentOf(w)

\* What the tool's description says, replacing is atomic: whoever opens the
\* file at any moment, a crash included, finds the original or the whole
\* content of one call.
PathWhole == Whole(disk[path])

\* Calls that come one after the other make the file a register, although it
\* takes each of them several steps, any of which may fail or be the last: a
\* reader sees the change of a call that returns true at its rename, whole,
\* and nothing of one that fails or crashes; what such a call leaves beside
\* the file never becomes the file. Of a short content alone the end, or all
\* of it, may be lost.
Register ==
  INSTANCE FileRegister WITH
    Original <- <<"original">>,
    MayLose <- FlushMayFail,
    text <- [w \in Writers |-> ContentOf(w)],
    content <- disk[path],
    outcome <- [w \in Writers |-> IF stage[w] \in Over THEN stage[w] ELSE "pending"]
RefinesRegister == Register!Spec
====
