---- MODULE AtomicWriteProofs ----
(***************************************************************************)
(* Proofs about AtomicWrite: types for any writers, at once or in turn,    *)
(* and that writers in turn make the file a register.                      *)
(***************************************************************************)
EXTENDS AtomicWrite, SequenceTheorems, TLAPS

-----------------------------------------------------------------------------
(* Blocks.                                                                 *)

\* A file given block by block is a sequence of blocks.
LEMMA BlocksAreSeq ==
  ASSUME NEW S, NEW n \in Nat, NEW file \in [1..n -> S]
  PROVE  file \in Seq(S) /\ Len(file) = n /\ DOMAIN file = 1..n
BY SeqDef

\* n blocks put behind position k of a file: the file with those blocks.
Put(file, k, n, w) ==
  [i \in 1..(IF k + n > Len(file) THEN k + n ELSE Len(file)) |->
     IF k < i /\ i <= k + n THEN w ELSE IF i <= Len(file) THEN file[i] ELSE "hole"]

LEMMA PutIsSeq ==
  ASSUME NEW file \in Seq(Block), NEW k \in Nat, NEW n \in Nat, NEW w \in Writers
  PROVE  Put(file, k, n, w) \in Seq(Block)
<1> DEFINE m == IF k + n > Len(file) THEN k + n ELSE Len(file)
<1>1. m \in Nat
  OBVIOUS
<1>2. \A i \in 1..Len(file) : file[i] \in Block
  BY ElementOfSeq
<1>3. w \in Block /\ "hole" \in Block
  BY DEF Block, Inode
<1>4. Put(file, k, n, w) \in [1..m -> Block]
  <2>1. ASSUME NEW i \in 1..m
        PROVE  (IF k < i /\ i <= k + n THEN w
                ELSE IF i <= Len(file) THEN file[i] ELSE "hole") \in Block
    BY <1>2, <1>3
  <2> QED
    BY <2>1 DEF Put
<1> QED
  BY <1>1, <1>4, BlocksAreSeq

\* n blocks of one writer.
Blocks(n, w) == [i \in 1..n |-> w]

\* The next n blocks at the end of k make k + n.
LEMMA PutAtEnd ==
  ASSUME NEW k \in Nat, NEW n \in Nat, NEW w \in Writers
  PROVE  Put(Blocks(k, w), k, n, w) = Blocks(k + n, w)
<1>1. Blocks(k, w) \in [1..k -> Writers]
  BY DEF Blocks
<1>2. Len(Blocks(k, w)) = k
  BY <1>1, BlocksAreSeq
<1>3. (IF k + n > k THEN k + n ELSE k) = k + n
  OBVIOUS
<1> QED
  BY <1>2, <1>3 DEF Put, Blocks

\* The beginning of blocks of one writer is fewer of them.
LEMMA BeginningOfBlocks ==
  ASSUME NEW k \in Nat, NEW n \in 0..k, NEW w \in Writers
  PROVE  Len(Blocks(k, w)) = k /\ SubSeq(Blocks(k, w), 1, n) = Blocks(n, w)
<1>1. Blocks(k, w) \in [1..k -> Writers]
  BY DEF Blocks
<1>2. Blocks(k, w) \in Seq(Writers) /\ Len(Blocks(k, w)) = k
  BY <1>1, BlocksAreSeq
<1>3. SubSeq(Blocks(k, w), 1, n) = [i \in 1..n |-> Blocks(k, w)[i]]
  BY <1>2
<1> QED
  BY <1>2, <1>3 DEF Blocks

-----------------------------------------------------------------------------
(* Types.                                                                  *)

Active(w) == stage[w] \notin Over \cup {"idle"}
Streaming == {"opened", "closing", "closed"}

\* A writer that has not opened the file has no part in the names, one that has
\* has an inode to write to, and one whose buffer is still full has written
\* nothing.
StreamInv ==
  /\ \A w \in Writers : stage[w] = "idle" => path # w /\ tmp # w
  /\ \A w \in Writers : stage[w] \in Streaming => stream[w] \in Inode
  /\ \A w \in Writers \ long : stage[w] \in {"idle", "opened", "closing"} => written[w] = 0

Typed == TypeOK /\ StreamInv

LEMMA TypedInit == Init => Typed
<1> SUFFICES ASSUME Init PROVE Typed
  OBVIOUS
<1>1. <<"original">> \in Seq(Block) /\ <<>> \in Seq(Block)
  BY DEF Block, Inode
<1>2. disk \in [Inode -> Seq(Block)]
  BY <1>1 DEF Init
<1>3. path \in Inode /\ tmp = "none" /\ tmp # path
  BY DEF Init, Inode
<1>4. \A w \in Writers : path # w /\ tmp # w
  BY AtomicWriteAssumption DEF Init
<1> QED
  BY <1>2, <1>3, <1>4, AtomicWriteAssumption DEF Init, Typed, TypeOK, StreamInv, Stage, Streaming

LEMMA PutBlocksTypes ==
  ASSUME Typed, NEW w \in Writers, stage[w] \in Streaming, NEW n \in Nat,
         written[w] + n <= Size, PutBlocks(w, n)
  PROVE  /\ written' = [written EXCEPT ![w] = written[w] + n]
         /\ written' \in [Writers -> 0..Size]
         /\ disk' = [disk EXCEPT ![stream[w]] = Put(disk[stream[w]], written[w], n, w)]
         /\ disk' \in [Inode -> Seq(Block)]
<1>1. written \in [Writers -> 0..Size] /\ disk \in [Inode -> Seq(Block)] /\ stream[w] \in Inode
  BY DEF Typed, TypeOK, StreamInv
<1>2. written[w] + n \in 0..Size /\ written[w] \in Nat
  BY <1>1, AtomicWriteAssumption
<1>3. /\ written' = [written EXCEPT ![w] = written[w] + n]
      /\ disk' = [disk EXCEPT ![stream[w]] = Put(disk[stream[w]], written[w], n, w)]
  BY DEF PutBlocks, Put
<1>4. Put(disk[stream[w]], written[w], n, w) \in Seq(Block)
  BY <1>1, <1>2, PutIsSeq
<1> QED
  BY <1>1, <1>2, <1>3, <1>4

LEMMA TypedStep ==
  ASSUME Typed, NEW w \in Writers, AtomicWrite(w)
  PROVE  Typed'
<1>1. /\ long \subseteq Writers /\ stage \in [Writers -> Stage]
      /\ stream \in [Writers -> Inode \cup {"none"}] /\ written \in [Writers -> 0..Size]
      /\ disk \in [Inode -> Seq(Block)]
      /\ path \in Inode /\ tmp \in Inode \cup {"none"} /\ tmp # path
      /\ "none" \notin Inode
  BY AtomicWriteAssumption DEF Typed, TypeOK, Inode
<1>2. long' = long
  BY DEF AtomicWrite, Open, OpenFails, WriteBlock, Written, WriteFails, Close, FlushFails,
         Rename, RenameFails, Remove, Crash
<1>3. CASE Open(w)
  <2>1. /\ tmp' = IF tmp = "none" THEN w ELSE tmp
        /\ stream' = [stream EXCEPT ![w] = tmp'] /\ disk' = [disk EXCEPT ![tmp'] = <<>>]
        /\ stage[w] = "idle" /\ stage' = [stage EXCEPT ![w] = "opened"]
        /\ UNCHANGED <<written, path>>
    BY <1>3 DEF Open, Go
  <2>2. path # w /\ tmp' \in Inode /\ tmp' # path /\ <<>> \in Seq(Block)
    BY <1>1, <2>1 DEF Typed, StreamInv, Inode
  <2>3. stage' \in [Writers -> Stage] /\ \A v \in Writers : v # w => stage'[v] = stage[v]
    BY <1>1, <2>1 DEF Stage
  <2>4. TypeOK'
    BY <1>1, <1>2, <2>1, <2>2, <2>3 DEF TypeOK
  <2>5. ASSUME NEW v \in Writers
        PROVE  /\ stage'[v] = "idle" => path' # v /\ tmp' # v
               /\ stage'[v] \in Streaming => stream'[v] \in Inode
               /\ v \notin long /\ stage'[v] \in {"idle", "opened", "closing"} => written'[v] = 0
    <3>1. CASE v = w
      BY <1>1, <2>1, <2>2, <3>1 DEF Typed, StreamInv
    <3>2. CASE v # w
      BY <1>1, <2>1, <2>3, <3>2 DEF Typed, StreamInv
    <3> QED
      BY <3>1, <3>2
  <2> QED
    BY <1>2, <2>4, <2>5 DEF Typed, StreamInv
<1>4. CASE WriteBlock(w)
  <2>1. /\ stage[w] = "opened" /\ w \in long /\ written[w] + 1 <= Size /\ PutBlocks(w, 1)
        /\ UNCHANGED <<stage, stream, path, tmp>>
    BY <1>1, <1>4, AtomicWriteAssumption DEF WriteBlock
  <2>2. /\ written' = [written EXCEPT ![w] = written[w] + 1]
        /\ written' \in [Writers -> 0..Size] /\ disk' \in [Inode -> Seq(Block)]
    BY <2>1, PutBlocksTypes DEF Streaming
  <2>3. \A v \in Writers \ long : written'[v] = written[v]
    BY <1>1, <2>1, <2>2
  <2> QED
    BY <1>1, <1>2, <2>1, <2>2, <2>3 DEF Typed, TypeOK, StreamInv
<1>5. CASE Close(w) \/ FlushFails(w)
  <2>1. /\ stage[w] = "closing" /\ stage' = [stage EXCEPT ![w] = "closed"]
        /\ UNCHANGED <<stream, path, tmp>>
    BY <1>5 DEF Close, FlushFails, Go
  <2>2. /\ written' \in [Writers -> 0..Size] /\ disk' \in [Inode -> Seq(Block)]
        /\ \A v \in Writers : v # w => written'[v] = written[v]
    <3>1. CASE UNCHANGED <<written, disk>>
      BY <1>1, <3>1
    <3>2. CASE ~UNCHANGED <<written, disk>>
      <4>1. PICK n \in 0..Size : PutBlocks(w, n)
        BY <1>5, <3>2, AtomicWriteAssumption DEF Close, FlushFails
      <4>2. w \notin long /\ written[w] = 0
        BY <1>5, <2>1, <3>2 DEF Close, FlushFails, Typed, StreamInv
      <4>3. n \in Nat /\ written[w] + n <= Size
        BY <4>2, AtomicWriteAssumption
      <4> QED
        BY <1>1, <2>1, <4>1, <4>3, PutBlocksTypes DEF Streaming
    <3> QED
      BY <3>1, <3>2
  <2>3. /\ stage' \in [Writers -> Stage] /\ stage'[w] = "closed"
        /\ \A v \in Writers : v # w => stage'[v] = stage[v]
    BY <1>1, <2>1 DEF Stage
  <2>4. TypeOK'
    BY <1>1, <1>2, <2>1, <2>2, <2>3 DEF TypeOK
  <2> QED
    BY <1>2, <2>1, <2>2, <2>3, <2>4 DEF Typed, StreamInv, Streaming
<1>6. CASE Rename(w)
  <2>1. /\ stage[w] = "closed" /\ tmp # "none" /\ path' = tmp /\ tmp' = "none"
        /\ stage' = [stage EXCEPT ![w] = "true"]
        /\ UNCHANGED <<stream, written, disk>>
    BY <1>6 DEF Rename, Go
  <2>2. stage' \in [Writers -> Stage]
    BY <1>1, <2>1 DEF Stage
  <2>3. TypeOK'
    BY <1>1, <1>2, <2>1, <2>2 DEF TypeOK
  <2>4. \A v \in Writers : stage'[v] \in {"true", stage[v]}
    BY <1>1, <2>1
  <2> QED
    BY <1>1, <1>2, <2>1, <2>3, <2>4 DEF Typed, StreamInv, Streaming, Inode
<1>7. CASE OpenFails(w) \/ Written(w) \/ WriteFails(w) \/ RenameFails(w) \/ Remove(w) \/ Crash(w)
  <2> DEFINE new == stage'[w]
  <2>1. /\ new \in Stage \ {"idle", "opened"}
        /\ new \in Streaming => stage[w] \in Streaming
        /\ new = "closing" => stage[w] = "opened"
        /\ \A v \in Writers : v # w => stage'[v] = stage[v]
        /\ stage' = [stage EXCEPT ![w] = new]
    BY <1>1, <1>7 DEF OpenFails, Written, WriteFails, RenameFails, Remove, Crash,
                      Go, Stage, Streaming
  <2> HIDE DEF new
  <2>2. UNCHANGED <<stream, written, disk, path>> /\ tmp' \in {tmp, "none"}
    BY <1>7 DEF OpenFails, Written, WriteFails, RenameFails, Remove, Crash
  <2>3. /\ stage' \in [Writers -> Stage] /\ stage'[w] = new
        /\ \A v \in Writers : v # w => stage'[v] = stage[v]
    BY <1>1, <2>1 DEF new
  <2>4. TypeOK'
    BY <1>1, <1>2, <2>2, <2>3 DEF TypeOK
  <2>5. ASSUME NEW v \in Writers
        PROVE  /\ stage'[v] = "idle" => path' # v /\ tmp' # v
               /\ stage'[v] \in Streaming => stream'[v] \in Inode
               /\ v \notin long /\ stage'[v] \in {"idle", "opened", "closing"} => written'[v] = 0
    <3>1. CASE v = w
      BY <1>1, <2>1, <2>2, <2>3, <3>1 DEF Typed, StreamInv
    <3>2. CASE v # w
      BY <1>1, <2>2, <2>3, <3>2, AtomicWriteAssumption DEF Typed, StreamInv
    <3> QED
      BY <3>1, <3>2
  <2> QED
    BY <1>2, <2>4, <2>5 DEF Typed, StreamInv
<1> QED
  BY <1>3, <1>4, <1>5, <1>6, <1>7 DEF AtomicWrite

LEMMA TypedNext == Typed /\ [Next]_vars => Typed'
<1>1. Typed /\ UNCHANGED vars => Typed'
  BY DEF vars, Typed, TypeOK, StreamInv
<1> QED
  BY <1>1, TypedStep DEF Next

\* Every variable stays in its type, for any writers, in turn or at once: above
\* all the name beside the file never refers to the file itself, so no writer
\* truncates the file in place.
THEOREM TypeCorrect == Spec => []TypeOK
<1>1. Spec => []Typed
  BY TypedInit, TypedNext, PTL DEF Spec
<1> QED
  BY <1>1, PTL DEF Typed

-----------------------------------------------------------------------------
(* Writers in turn.                                                        *)

\* A failing flush has left the beginning of w's content, or nothing.
CutShort(file, w) == FlushMayFail /\ \E n \in 0..(Size - 1) : file = Blocks(n, w)

\* Only one writer is at work. The name beside the file refers to its own
\* stream's inode, which holds what it has written and nothing else; once the
\* stream is closed that is all of it, unless the flush failed.
TurnInv ==
  /\ \A v, w \in Writers : Active(v) /\ Active(w) => v = w
  /\ \A w \in Writers :
       /\ stage[w] = "idle" => written[w] = 0
       /\ stage[w] \in Streaming => tmp = stream[w]
       /\ stage[w] \in {"opened", "closing"} => disk[tmp] = Blocks(written[w], w)
       /\ stage[w] = "closing" /\ w \in long => written[w] = Size
       /\ stage[w] = "closed" => disk[tmp] = ContentOf(w) \/ CutShort(disk[tmp], w)

LEMMA TurnInit == Init => TurnInv
BY DEF Init, TurnInv, Active, Over, Streaming

\* Whoever takes a step but the failing one is alone: the others are not at work
\* and stay where they are.
LEMMA OthersRest ==
  ASSUME ~Overlap, Typed, TurnInv, NEW w \in Writers, AtomicWrite(w), ~OpenFails(w),
         NEW v \in Writers, v # w
  PROVE  /\ ~Active(v) /\ stage'[v] = stage[v] /\ written'[v] = written[v]
<1>1. stage \in [Writers -> Stage] /\ written \in [Writers -> 0..Size]
  BY DEF Typed, TypeOK
<1>2. stage'[v] = stage[v] /\ written'[v] = written[v]
  BY <1>1 DEF AtomicWrite, Open, WriteBlock, Written, WriteFails, Close, FlushFails,
         Rename, RenameFails, Remove, Crash, Go, PutBlocks
<1>3. CASE Open(w)
  BY <1>2, <1>3 DEF Open, Active
<1>4. CASE ~Open(w)
  <2>1. Active(w)
    BY <1>4 DEF AtomicWrite, WriteBlock, Written, WriteFails, Close, FlushFails,
           Rename, RenameFails, Remove, Crash, Active, Over
  <2> QED
    BY <1>2, <2>1 DEF TurnInv
<1> QED
  BY <1>3, <1>4

\* What the one writer's own step does to its part of the invariant.
Part(w) ==
  /\ stage[w] = "idle" => written[w] = 0
  /\ stage[w] \in Streaming => tmp = stream[w]
  /\ stage[w] \in {"opened", "closing"} => disk[tmp] = Blocks(written[w], w)
  /\ stage[w] = "closing" /\ w \in long => written[w] = Size
  /\ stage[w] = "closed" => disk[tmp] = ContentOf(w) \/ CutShort(disk[tmp], w)

\* Blocks a writer puts behind its own make more of its own.
LEMMA OwnBlocks ==
  ASSUME Typed, NEW w \in Writers, stage[w] \in Streaming, NEW n \in Nat,
         written[w] + n <= Size, PutBlocks(w, n),
         tmp = stream[w], disk[tmp] = Blocks(written[w], w)
  PROVE  disk'[tmp] = Blocks(written'[w], w) /\ written'[w] = written[w] + n
<1>1. /\ written \in [Writers -> 0..Size] /\ disk \in [Inode -> Seq(Block)] /\ stream[w] \in Inode
  BY DEF Typed, TypeOK, StreamInv
<1>2. /\ written' = [written EXCEPT ![w] = written[w] + n]
      /\ disk' = [disk EXCEPT ![stream[w]] = Put(disk[stream[w]], written[w], n, w)]
  BY PutBlocksTypes
<1>3. disk'[tmp] = Put(Blocks(written[w], w), written[w], n, w)
  BY <1>1, <1>2
<1>4. written[w] \in Nat
  BY <1>1, AtomicWriteAssumption
<1> QED
  BY <1>1, <1>2, <1>3, <1>4, PutAtEnd

LEMMA OwnPart ==
  ASSUME NEW w \in Writers, Typed, Part(w), AtomicWrite(w)
  PROVE  Part(w)'
<1>1. /\ stage \in [Writers -> Stage] /\ long \subseteq Writers
      /\ stream \in [Writers -> Inode \cup {"none"}] /\ written \in [Writers -> 0..Size]
      /\ disk \in [Inode -> Seq(Block)] /\ tmp \in Inode \cup {"none"}
  BY DEF Typed, TypeOK
<1>2. CASE Open(w)
  <2>1. /\ stage'[w] = "opened" /\ stream'[w] = tmp' /\ tmp' \in Inode
        /\ disk' = [disk EXCEPT ![tmp'] = <<>>]
        /\ written' = written /\ written[w] = 0
    BY <1>1, <1>2 DEF Open, Go, Part, Inode
  <2>2. disk'[tmp'] = <<>>
    BY <1>1, <2>1
  <2>3. Blocks(0, w) = <<>>
    BY DEF Blocks
  <2> QED
    BY <2>1, <2>2, <2>3 DEF Part
<1>3. CASE WriteBlock(w)
  <2>1. /\ stage[w] = "opened" /\ PutBlocks(w, 1)
        /\ UNCHANGED <<stage, stream, tmp>> /\ written[w] + 1 <= Size
    BY <1>1, <1>3, AtomicWriteAssumption DEF WriteBlock
  <2>2. disk'[tmp] = Blocks(written'[w], w)
    BY <2>1, OwnBlocks DEF Streaming, Part
  <2> QED
    BY <2>1, <2>2 DEF Part, Streaming
<1>4. CASE Written(w)
  BY <1>1, <1>4 DEF Written, Go, Part, Streaming
<1>5. CASE Close(w)
  <2>1. /\ stage[w] = "closing" /\ stage'[w] = "closed" /\ UNCHANGED <<stream, tmp>>
    BY <1>1, <1>5 DEF Close, Go
  <2>2. tmp = stream[w] /\ disk[tmp] = Blocks(written[w], w)
    BY <2>1 DEF Part, Streaming
  <2>3. disk'[tmp] = Blocks(Size, w)
    <3>1. CASE w \in long
      BY <1>5, <2>1, <2>2, <3>1 DEF Close, Part
    <3>2. CASE w \notin long
      <4>1. PutBlocks(w, Size) /\ written[w] = 0
        BY <1>5, <2>1, <3>2 DEF Close, Typed, StreamInv
      <4>2. disk'[tmp] = Blocks(written'[w], w) /\ written'[w] = 0 + Size
        BY <2>1, <2>2, <4>1, OwnBlocks, AtomicWriteAssumption DEF Streaming
      <4> QED
        BY <4>2, AtomicWriteAssumption
    <3> QED
      BY <3>1, <3>2
  <2> QED
    BY <2>1, <2>2, <2>3 DEF Part, Streaming, ContentOf, Blocks
<1>6. CASE FlushFails(w)
  <2>1. /\ stage[w] = "closing" /\ stage'[w] = "closed" /\ FlushMayFail /\ w \notin long
        /\ UNCHANGED <<stream, tmp>>
    BY <1>1, <1>6 DEF FlushFails, Go
  <2>2. PICK n \in 0..(Size - 1) : PutBlocks(w, n)
    BY <1>6 DEF FlushFails
  <2>3. tmp = stream[w] /\ disk[tmp] = Blocks(written[w], w) /\ written[w] = 0
    BY <2>1 DEF Typed, StreamInv, Part, Streaming
  <2>4. disk'[tmp] = Blocks(written'[w], w) /\ written'[w] = 0 + n
    BY <2>1, <2>2, <2>3, OwnBlocks, AtomicWriteAssumption DEF Streaming
  <2>5. CutShort(disk'[tmp], w)
    BY <2>1, <2>4 DEF CutShort
  <2> QED
    BY <2>1, <2>3, <2>5 DEF Part, Streaming
<1>7. CASE OpenFails(w) \/ WriteFails(w) \/ Rename(w) \/ RenameFails(w) \/ Remove(w) \/ Crash(w)
  <2>1. stage'[w] \in {"false", "removing", "true", "crashed"}
    BY <1>1, <1>7 DEF OpenFails, WriteFails, Rename, RenameFails, Remove, Crash, Go
  <2> QED
    BY <2>1 DEF Part, Streaming
<1> QED
  BY <1>2, <1>3, <1>4, <1>5, <1>6, <1>7 DEF AtomicWrite

LEMMA TurnStep ==
  ASSUME ~Overlap, Typed, TurnInv, NEW w \in Writers, AtomicWrite(w)
  PROVE  TurnInv'
<1>1. Part(w)'
  <2>1. Part(w)
    BY DEF TurnInv, Part
  <2> QED
    BY <2>1, OwnPart
<1>2. CASE OpenFails(w)
  <2>1. /\ UNCHANGED <<long, stream, written, disk, tmp>>
        /\ stage[w] = "idle" /\ stage' = [stage EXCEPT ![w] = "false"]
    BY <1>2 DEF OpenFails, Go
  <2>2. \A v \in Writers : stage'[v] = IF v = w THEN "false" ELSE stage[v]
    BY <2>1 DEF Typed, TypeOK
  <2> QED
    BY <2>1, <2>2 DEF TurnInv, Active, Over, Streaming
<1>3. CASE ~OpenFails(w)
  <2>1. \A v \in Writers : v # w =>
          ~Active(v) /\ stage'[v] = stage[v] /\ written'[v] = written[v]
    BY <1>3, OthersRest
  <2>2. \A v \in Writers : v # w => ~Active(v)' /\ Part(v)'
    BY <2>1 DEF Active, Over, Streaming, Part, TurnInv
  <2>3. \A v \in Writers : Part(v)'
    BY <1>1, <2>2
  <2> QED
    BY <2>2, <2>3 DEF TurnInv, Part
<1> QED
  BY <1>2, <1>3

-----------------------------------------------------------------------------
(* Each step is one of the register's or cannot be seen.                   *)

textBar == [w \in Writers |-> ContentOf(w)]
outcomeBar == [w \in Writers |-> IF stage[w] \in Over THEN stage[w] ELSE "pending"]

\* A step that goes from a stage that is not over to another changes no outcome.
LEMMA GoOnUnseen ==
  ASSUME Typed, NEW w \in Writers, NEW new \in Stage \ Over, stage[w] \notin Over, Go(w, new)
  PROVE  outcomeBar' = outcomeBar
BY DEF Typed, TypeOK, Go, outcomeBar

\* One that goes to a stage that is over is the end of a call.
LEMMA GoEnds ==
  ASSUME Typed, NEW w \in Writers, NEW how \in Over, stage[w] \notin Over, Go(w, how)
  PROVE  Register!End(w, how)
<1>1. outcomeBar[w] = "pending"
  BY DEF outcomeBar
<1>2. outcomeBar' = [outcomeBar EXCEPT ![w] = how]
  BY DEF Typed, TypeOK, Go, outcomeBar
<1> QED
  BY <1>1, <1>2 DEF Register!End, outcomeBar, textBar

\* A step in the inode that the other name refers to leaves the content alone.
LEMMA ContentAlone ==
  ASSUME Typed, NEW i, i # path, NEW file, disk' = [disk EXCEPT ![i] = file], path' = path
  PROVE  disk'[path'] = disk[path]
BY DEF Typed, TypeOK

\* So does a writer that puts blocks where its stream is.
LEMMA PutUnseen ==
  ASSUME Typed, TurnInv, NEW w \in Writers, stage[w] \in Streaming, NEW n \in Nat,
         written[w] + n <= Size, PutBlocks(w, n), path' = path
  PROVE  disk'[path'] = disk[path]
<1>1. stream[w] # path
  BY DEF TurnInv, Typed, TypeOK
<1> QED
  BY <1>1, PutBlocksTypes, ContentAlone

LEMMA WriterRefines ==
  ASSUME ~Overlap, Typed, Typed', TurnInv, NEW w \in Writers, AtomicWrite(w)
  PROVE  [Register!Next]_(Register!vars)
<1> USE DEF Stage, Over
<1>1. /\ tmp # path /\ disk \in [Inode -> Seq(Block)] /\ path \in Inode
      /\ written \in [Writers -> 0..Size]
  BY DEF Typed, TypeOK
<1>2. ASSUME outcomeBar' = outcomeBar, disk'[path'] = disk[path]
      PROVE  UNCHANGED Register!vars
  BY <1>1, <1>2 DEF Register!vars, outcomeBar, textBar
<1>3. CASE Open(w)
  <2>1. stage[w] = "idle" /\ Go(w, "opened") /\ path' = path
        /\ disk' = [disk EXCEPT ![tmp'] = <<>>]
    BY <1>3 DEF Open
  <2>2. tmp' # path
    BY <2>1 DEF Typed, TypeOK
  <2> QED
    BY <1>2, <2>1, <2>2, GoOnUnseen, ContentAlone
<1>4. CASE WriteBlock(w)
  <2>1. /\ stage[w] = "opened" /\ UNCHANGED <<stage, path>>
        /\ PutBlocks(w, 1) /\ written[w] + 1 <= Size
    BY <1>1, <1>4, AtomicWriteAssumption DEF WriteBlock
  <2>2. disk'[path'] = disk[path]
    BY <2>1, PutUnseen DEF Streaming
  <2>3. outcomeBar' = outcomeBar
    BY <2>1 DEF outcomeBar
  <2> QED
    BY <1>2, <2>2, <2>3
<1>5. CASE Written(w) \/ WriteFails(w) \/ RenameFails(w)
  <2>1. stage[w] \notin Over /\ UNCHANGED <<disk, path>>
        /\ \E new \in Stage \ Over : Go(w, new)
    BY <1>5 DEF Written, WriteFails, RenameFails
  <2> QED
    BY <1>2, <2>1, GoOnUnseen
<1>6. CASE Close(w) \/ FlushFails(w)
  <2>1. stage[w] = "closing" /\ Go(w, "closed") /\ path' = path
    BY <1>6 DEF Close, FlushFails
  <2>2. disk'[path'] = disk[path]
    <3>1. CASE disk' = disk
      BY <2>1, <3>1
    <3>2. CASE disk' # disk
      <4>1. PICK n \in 0..Size : PutBlocks(w, n)
        BY <1>6, <3>2, AtomicWriteAssumption DEF Close, FlushFails
      <4>2. w \notin long /\ written[w] = 0
        BY <1>6, <2>1, <3>2 DEF Close, FlushFails, Typed, StreamInv
      <4>3. n \in Nat /\ written[w] + n <= Size
        BY <4>2, AtomicWriteAssumption
      <4> QED
        BY <2>1, <4>1, <4>3, PutUnseen DEF Streaming
    <3> QED
      BY <3>1, <3>2
  <2> QED
    BY <1>2, <2>1, <2>2, GoOnUnseen
<1>7. CASE Rename(w)
  <2>1. stage[w] = "closed" /\ Go(w, "true") /\ path' = tmp /\ disk' = disk
    BY <1>7 DEF Rename
  <2>2. disk[tmp] = ContentOf(w) \/ CutShort(disk[tmp], w)
    BY <2>1 DEF TurnInv
  <2>3. Register!End(w, "true")
    BY <1>1, <2>1, GoEnds
  <2>4. disk[tmp] = ContentOf(w) => Register!Replace(w)
    BY <2>1, <2>3 DEF Register!Replace
  <2>5. CutShort(disk[tmp], w) => Register!Lose(w)
    <3>1. SUFFICES ASSUME FlushMayFail, NEW n \in 0..(Size - 1), disk[tmp] = Blocks(n, w)
                   PROVE  Register!Lose(w)
      BY DEF CutShort
    <3>2. n \in 0..Size /\ Len(Blocks(Size, w)) = Size /\ SubSeq(Blocks(Size, w), 1, n) = Blocks(n, w)
      BY <3>1, BeginningOfBlocks, AtomicWriteAssumption
    <3>3. textBar[w] = Blocks(Size, w)
      BY DEF textBar, ContentOf, Blocks
    <3> QED
      BY <2>1, <2>3, <3>1, <3>2, <3>3 DEF Register!Lose, textBar
  <2> QED
    BY <2>2, <2>4, <2>5 DEF Register!Next
<1>8. CASE OpenFails(w) \/ Remove(w) \/ Crash(w)
  <2>1. stage[w] \notin Over /\ UNCHANGED <<disk, path>>
        /\ (Go(w, "false") \/ Go(w, "crashed"))
    BY <1>8 DEF OpenFails, Remove, Crash
  <2>2. Register!End(w, "false") \/ Register!End(w, "crashed")
    BY <1>1, <2>1, GoEnds
  <2>3. Register!Fail(w)
    BY <2>1, <2>2 DEF Register!Fail
  <2> QED
    BY <2>3 DEF Register!Next
<1> QED
  BY <1>3, <1>4, <1>5, <1>6, <1>7, <1>8 DEF AtomicWrite

\* Calls of atomic_write on one path that come one after the other make the file
\* a register, for any number of calls: a reader sees the whole content of a
\* call that returns true from its rename on, and nothing of one that fails or
\* whose process dies, except that a failing flush may leave the beginning of a
\* short content, or an empty file.
THEOREM TurnsMakeRegister ==
  ASSUME ~Overlap
  PROVE  Spec => RefinesRegister
<1>1. Init => Register!Init
  <2>1. ASSUME Init
        PROVE  disk[path] = <<"original">> /\ outcomeBar = [w \in Writers |-> "pending"]
    BY <2>1 DEF Init, Inode, outcomeBar, Over
  <2> QED
    BY <2>1 DEF Register!Init, outcomeBar
<1>2. Spec => []Typed
  BY TypedInit, TypedNext, PTL DEF Spec
<1>3. Typed /\ TurnInv /\ [Next]_vars => TurnInv'
  <2>1. TurnInv /\ UNCHANGED vars => TurnInv'
    BY DEF vars, TurnInv, Active
  <2> QED
    BY <2>1, TurnStep DEF Next
<1>4. Spec => []TurnInv
  BY <1>2, <1>3, TurnInit, PTL DEF Spec
<1>5. Typed /\ Typed' /\ TurnInv /\ [Next]_vars => [Register!Next]_(Register!vars)
  <2>1. UNCHANGED vars => UNCHANGED Register!vars
    BY DEF vars, Register!vars
  <2> QED
    BY <2>1, WriterRefines DEF Next
<1> QED
  BY <1>1, <1>2, <1>4, <1>5, PTL DEF Spec, RefinesRegister, Register!Spec
====
