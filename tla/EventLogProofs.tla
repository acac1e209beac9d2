---- MODULE EventLogProofs ----
(***************************************************************************)
(* What events.jsonl and its copy in SQLite say of any number of runs,     *)
(* appending in any order, dying anywhere and failing to write anything.   *)
(***************************************************************************)
EXTENDS EventLog, SequenceTheorems, TLAPS

(***************************************************************************)
(* The inductive invariant, by concern.                                    *)
(***************************************************************************)
\* A run between events has not closed; one that finished has. There is an
\* event wherever one is being appended.
StageInv ==
  \A r \in Runs :
    /\ stage[r] = "idle" => ~closing[r]
    /\ stage[r] = "finished" => closing[r]
    /\ stage[r] \in {"newline", "mirror", "finished"} => sent[r] > 0

\* An event on record is one that was sent, and closes its run if it is the
\* last one sent and that one closes.
Known(e) ==
  /\ e.n <= sent[e.run]
  /\ e.terminal <=> closing[e.run] /\ e.n = sent[e.run]

KnownInv ==
  /\ \A i \in DOMAIN file : Known(file[i].event)
  /\ \A e \in lost : Known(e)

\* The texts of a run, cut or not, stand in the order they were sent.
OrderInv ==
  \A i, j \in DOMAIN file :
    /\ i < j /\ file[i].event.run = file[j].event.run
    /\ ~IsNewline(i) /\ ~IsNewline(j)
    => file[i].event.n < file[j].event.n

\* What was sent left a text, a cut text, or is lost.
Traced(r, n) ==
  \/ \E i \in DOMAIN file :
       ~IsNewline(i) /\ file[i].event.run = r /\ file[i].event.n = n
  \/ \E e \in lost : e.run = r /\ e.n = n

TraceInv == \A r \in Runs : \A n \in 1..sent[r] : Traced(r, n)

\* A line is damaged for a reason; the text at the end of the file is waiting
\* for its newline, or will not get it.
Stopped(e) == stage[e.run] = "crashed" \/ e \in lost
Awaited(e) == stage[e.run] = "newline" /\ e = Current(e.run)

DamageInv ==
  \A i \in DOMAIN file :
    /\ file[i].kind = "cut" => Stopped(file[i].event)
    /\ file[i].kind = "text" =>
         IF i = Len(file)
         THEN Awaited(file[i].event) \/ Stopped(file[i].event)
         ELSE \/ IsNewline(i + 1)
              \/ Stopped(file[i].event)
              \/ file[i + 1].event.run # file[i].event.run

\* The rows of a run are its events, up to the one whose append is not over.
RowsInv ==
  \A r \in stores :
    /\ \A i \in DOMAIN rows[r] : rows[r][i].run = r /\ rows[r][i].n = i
    /\ stage[r] \in {"idle", "finished"} => Len(rows[r]) = sent[r]
    /\ stage[r] \in {"newline", "mirror"} => Len(rows[r]) = sent[r] - 1
    /\ Len(rows[r]) \in {sent[r], sent[r] - 1}

IInv == TypeOK /\ StageInv /\ KnownInv /\ OrderInv /\ TraceInv /\ DamageInv /\ RowsInv

(***************************************************************************)
(* A file grows at its end.                                                *)
(***************************************************************************)
LEMMA AppendOne ==
  ASSUME NEW S, NEW f \in Seq(S), NEW a \in S
  PROVE  /\ Append(f, a) \in Seq(S) /\ Len(Append(f, a)) = Len(f) + 1
         /\ \A i \in 1..Len(f) : Append(f, a)[i] = f[i]
         /\ Append(f, a)[Len(f) + 1] = a
  BY AppendProperties

LEMMA AppendTwo ==
  ASSUME NEW S, NEW f \in Seq(S), NEW a \in S, NEW b \in S
  PROVE  LET g == f \o <<a, b>> IN
         /\ g \in Seq(S) /\ Len(g) = Len(f) + 2
         /\ \A i \in 1..Len(f) : g[i] = f[i]
         /\ g[Len(f) + 1] = a /\ g[Len(f) + 2] = b
  OBVIOUS

(***************************************************************************)
(* The next event of a run.                                                *)
(***************************************************************************)
LEMMA NextEventIsNew ==
  ASSUME TypeOK, StageInv, NEW r \in Runs, NextEvent(r)
  PROVE  /\ Current(r)' \in Event /\ sent'[r] = sent[r] + 1 /\ ~closing[r]
         /\ sent' \in [Runs -> 0..MaxEvents] /\ closing' \in [Runs -> BOOLEAN]
         /\ \A q \in Runs \ {r} : sent'[q] = sent[q] /\ closing'[q] = closing[q]
<1>1. /\ sent \in [Runs -> 0..MaxEvents] /\ closing \in [Runs -> BOOLEAN]
      /\ MaxEvents \in Nat /\ stage[r] = "idle" /\ sent[r] < MaxEvents
  BY EventLogAssumption DEF TypeOK, NextEvent
<1>2. PICK t \in BOOLEAN : closing' = [closing EXCEPT ![r] = t]
  BY DEF NextEvent
<1>3. sent' = [sent EXCEPT ![r] = @ + 1]
  BY DEF NextEvent
<1>4. sent'[r] = sent[r] + 1 /\ sent'[r] \in 1..MaxEvents /\ closing'[r] = t
  BY <1>1, <1>2, <1>3
<1>5. Current(r)' \in Event
  BY <1>4 DEF Current, Event
<1>6. ~closing[r]
  BY <1>1 DEF StageInv
<1>7. sent' \in [Runs -> 0..MaxEvents] /\ closing' \in [Runs -> BOOLEAN]
  BY <1>1, <1>2, <1>3
<1>8. \A q \in Runs \ {r} : sent'[q] = sent[q] /\ closing'[q] = closing[q]
  BY <1>1, <1>2, <1>3
<1>. QED BY <1>4, <1>5, <1>6, <1>7, <1>8

LEMMA CurrentIsEvent ==
  ASSUME TypeOK, StageInv, NEW r \in Runs, stage[r] \in {"newline", "mirror"}
  PROVE  Current(r) \in Event
<1>1. sent[r] \in 1..MaxEvents /\ closing[r] \in BOOLEAN
  BY EventLogAssumption DEF TypeOK, StageInv
<1>. QED BY <1>1 DEF Current, Event

LEMMA TokensOfEvent ==
  ASSUME NEW e \in Event
  PROVE  /\ Text(e) \in Token /\ CutText(e) \in Token /\ Newline(e) \in Token
         /\ Text(e).event = e /\ CutText(e).event = e /\ Newline(e).event = e
         /\ Text(e).kind = "text" /\ CutText(e).kind = "cut"
         /\ Newline(e).kind = "newline"
  BY DEF Text, CutText, Newline, Token

(***************************************************************************)
(* What one step of r does to the file and to what is lost.                *)
(***************************************************************************)
Added == (Len(file) + 1)..Len(file')

\* The tokens added are about r's event, and only the first may be no newline.
Grown(r) ==
  /\ file' \in Seq(Token) /\ Len(file) <= Len(file')
  /\ \A i \in 1..Len(file) : file'[i] = file[i]
  /\ \A i \in Added :
       /\ file'[i].event = Current(r)'
       /\ file'[i].kind # "newline" => i = Len(file) + 1
  /\ lost' \subseteq Event /\ lost \subseteq lost'
  /\ lost' \subseteq lost \cup {Current(r)'}

\* A new event leaves a trace; without one at most the newline is written.
Progress(r) ==
  \/ /\ NextEvent(r)
     /\ \/ Len(file) + 1 \in Added /\ file'[Len(file) + 1].kind # "newline"
        \/ Current(r)' \in lost'
  \/ /\ UNCHANGED <<sent, closing>>
     /\ stage[r] # "newline" => UNCHANGED lost
     /\ \A i \in Added : file'[i].kind = "newline"

\* The line that is added is whole, or the newline is still to come, or the
\* run has crashed, or the event is lost; a newline that was to come does, or
\* never will.
Given(r) == stage'[r] = "crashed" \/ Current(r)' \in lost'

Ended(r) ==
  /\ \A i \in Added :
       /\ file'[i].kind = "cut" => Given(r)
       /\ file'[i].kind = "text" =>
            IF i = Len(file') THEN stage'[r] = "newline" \/ Given(r)
                              ELSE file'[i + 1].kind = "newline"
  /\ stage[r] = "newline" =>
       \/ Len(file) + 1 \in Added /\ file'[Len(file) + 1].kind = "newline"
       \/ Given(r)

LEMMA StepShape ==
  ASSUME TypeOK, StageInv, NEW r \in Runs, Step(r)
  PROVE  Grown(r) /\ Progress(r) /\ Ended(r)
<1> DEFINE e == Current(r)'
           n == Len(file)
<1>1. /\ file \in Seq(Token) /\ n \in Nat /\ lost \subseteq Event
      /\ stage \in [Runs -> Stage]
  BY DEF TypeOK
<1>2. ASSUME NextEvent(r) PROVE e \in Event
  BY <1>2, NextEventIsNew
<1>3. ASSUME UNCHANGED <<sent, closing>>, stage[r] \in {"newline", "mirror"}
      PROVE  e = Current(r) /\ e \in Event
  <2>1. e = Current(r)
    BY <1>3 DEF Current
  <2>. QED BY <1>3, <2>1, CurrentIsEvent
<1>4. \A s : At(r, s) => stage'[r] = s
  BY <1>1 DEF At
<1> HIDE DEF n
<1>5. n = Len(file)
  BY DEF n
<1>6. CASE OpenThrows(r) \/ MirrorThrows(r) \/ Crash(r) \/ Mirror(r)
  <2>1. /\ UNCHANGED <<sent, closing, file, lost>>
        /\ stage[r] = "newline" => stage'[r] = "crashed"
    BY <1>4, <1>6 DEF OpenThrows, MirrorThrows, Crash, Mirror
  <2>2. Added = {}
    BY <1>1, <1>5, <2>1 DEF Added
  <2>. QED BY <1>1, <2>1, <2>2 DEF Grown, Progress, Ended, Given
<1>7. CASE AppendShort(r)
  <2>1. /\ NextEvent(r) /\ stage[r] = "idle" /\ UNCHANGED lost
        /\ file' = file \o <<Text(e), Newline(e)>>
    BY <1>7 DEF AppendShort, NextEvent
  <2> HIDE DEF e
  <2>2. /\ file' \in Seq(Token) /\ Len(file') = n + 2
        /\ \A i \in 1..n : file'[i] = file[i]
        /\ file'[n + 1] = Text(e) /\ file'[n + 2] = Newline(e)
    BY <1>1, <1>2, <1>5, <2>1, AppendTwo, TokensOfEvent DEF e
  <2>3. Added = {n + 1, n + 2}
    BY <1>1, <1>5, <2>2 DEF Added
  <2>. QED BY <1>1, <1>2, <1>5, <2>1, <2>2, <2>3, TokensOfEvent
           DEF Grown, Progress, Ended, e
<1>8. CASE AppendLong(r)
  <2>1. /\ NextEvent(r) /\ stage[r] = "idle" /\ UNCHANGED lost
        /\ file' = Append(file, Text(e)) /\ stage'[r] = "newline"
    BY <1>4, <1>8 DEF AppendLong, NextEvent
  <2>2. /\ file' \in Seq(Token) /\ Len(file') = n + 1
        /\ \A i \in 1..n : file'[i] = file[i]
        /\ file'[n + 1] = Text(e)
    BY <1>1, <1>2, <1>5, <2>1, AppendOne, TokensOfEvent
  <2>3. Added = {n + 1}
    BY <1>1, <1>5, <2>2 DEF Added
  <2>. QED BY <1>1, <1>2, <1>5, <2>1, <2>2, <2>3, TokensOfEvent
           DEF Grown, Progress, Ended
<1>9. CASE EndLine(r)
  <2>1. /\ UNCHANGED <<sent, closing, lost>> /\ stage[r] = "newline"
        /\ file' = Append(file, Newline(e))
    BY <1>3, <1>9 DEF EndLine
  <2>2. /\ file' \in Seq(Token) /\ Len(file') = n + 1
        /\ \A i \in 1..n : file'[i] = file[i]
        /\ file'[n + 1] = Newline(e)
    BY <1>1, <1>3, <1>5, <2>1, AppendOne, TokensOfEvent
  <2>3. Added = {n + 1}
    BY <1>1, <1>5, <2>2 DEF Added
  <2>. QED BY <1>1, <1>3, <1>5, <2>1, <2>2, <2>3, TokensOfEvent
           DEF Grown, Progress, Ended
<1>10. CASE NewlineFails(r)
  <2>1. /\ UNCHANGED <<sent, closing, file>> /\ stage[r] = "newline"
        /\ lost' = lost \cup {e} /\ e \in Event
    BY <1>3, <1>10 DEF NewlineFails
  <2>2. Added = {}
    BY <1>1, <1>5, <2>1 DEF Added
  <2>. QED BY <1>1, <2>1, <2>2 DEF Grown, Progress, Ended, Given
<1>11. CASE WriteFails(r) \/ CrashInWrite(r)
  <2>1. /\ NextEvent(r) /\ stage[r] = "idle"
        /\ file' \in {file, Append(file, CutText(e)), Append(file, Text(e))}
        /\ \/ lost' = lost \cup {e}
           \/ UNCHANGED lost /\ stage'[r] = "crashed" /\ file' = Append(file, CutText(e))
    BY <1>4, <1>11 DEF WriteFails, CrashInWrite, NextEvent
  <2>2. Given(r)
    BY <2>1 DEF Given
  <2>3. CASE file' = file
    <3>1. Added = {}
      BY <1>1, <1>5, <2>3 DEF Added
    <3>. QED BY <1>1, <1>2, <2>1, <2>2, <2>3, <3>1 DEF Grown, Progress, Ended
  <2>4. ASSUME NEW t \in {CutText(e), Text(e)}, file' = Append(file, t)
        PROVE  Grown(r) /\ Progress(r) /\ Ended(r)
    <3>1. /\ file' \in Seq(Token) /\ Len(file') = n + 1
          /\ \A i \in 1..n : file'[i] = file[i]
          /\ file'[n + 1] = t
      BY <1>1, <1>2, <1>5, <2>1, <2>4, AppendOne, TokensOfEvent
    <3>2. Added = {n + 1}
      BY <1>1, <1>5, <3>1 DEF Added
    <3>. QED BY <1>1, <1>2, <1>5, <2>1, <2>2, <3>1, <3>2, TokensOfEvent
             DEF Grown, Progress, Ended
  <2>. QED BY <2>1, <2>3, <2>4
<1>. QED BY <1>6, <1>7, <1>8, <1>9, <1>10, <1>11 DEF Step

(***************************************************************************)
(* Where the runs are. A step of one run leaves the others where they are. *)
(***************************************************************************)
LEMMA StageMoves ==
  ASSUME TypeOK, StageInv, NEW r \in Runs, Step(r)
  PROVE  /\ stage[r] \in {"idle", "newline", "mirror"}
         /\ stage' \in [Runs -> Stage]
         /\ sent' \in [Runs -> 0..MaxEvents] /\ closing' \in [Runs -> BOOLEAN]
         /\ \A q \in Runs \ {r} : /\ stage'[q] = stage[q] /\ sent'[q] = sent[q]
                                  /\ closing'[q] = closing[q]
<1>1. /\ stage \in [Runs -> Stage] /\ sent \in [Runs -> 0..MaxEvents]
      /\ closing \in [Runs -> BOOLEAN]
  BY DEF TypeOK
<1>2. stage[r] \in {"idle", "newline", "mirror"}
  BY DEF Step, OpenThrows, AppendShort, AppendLong, EndLine, WriteFails, NewlineFails,
         Mirror, MirrorThrows, Crash, CrashInWrite, NextEvent
<1>3. /\ sent' \in [Runs -> 0..MaxEvents] /\ closing' \in [Runs -> BOOLEAN]
      /\ \A q \in Runs \ {r} : sent'[q] = sent[q] /\ closing'[q] = closing[q]
  BY <1>1, NextEventIsNew, StepShape DEF Progress
<1>4. PICK s \in Stage : stage' = [stage EXCEPT ![r] = s]
  BY DEF Step, OpenThrows, AppendShort, AppendLong, EndLine, WriteFails, NewlineFails,
         Mirror, MirrorThrows, Crash, CrashInWrite, At, AfterLine, AfterAppend, Stage
<1>. QED BY <1>1, <1>2, <1>3, <1>4

LEMMA TypesKept ==
  ASSUME TypeOK, StageInv, NEW r \in Runs, Step(r), UNCHANGED stores
  PROVE  TypeOK'
<1>1. /\ stores' \subseteq Runs /\ file' \in Seq(Token) /\ lost' \subseteq Event
      /\ rows \in [Runs -> Seq(Event)]
      /\ \A q \in Runs \ stores : stage[q] # "mirror" /\ rows[q] = <<>>
  BY StepShape DEF TypeOK, Grown
<1>2. CASE Mirror(r)
  <2>1. r \in stores
    BY <1>1, <1>2 DEF Mirror
  <2>2. Append(rows[r], Current(r)) \in Seq(Event)
    BY <1>1, <1>2, CurrentIsEvent, AppendProperties DEF Mirror
  <2>3. rows' = [rows EXCEPT ![r] = Append(rows[r], Current(r))]
    BY <1>2 DEF Mirror
  <2>4. rows' \in [Runs -> Seq(Event)] /\ \A q \in Runs \ stores : rows'[q] = rows[q]
    BY <1>1, <2>1, <2>2, <2>3
  <2>. QED BY <1>1, <2>1, <2>4, StageMoves DEF TypeOK
<1>3. CASE ~Mirror(r)
  <2>1. UNCHANGED rows
    BY <1>3 DEF Step, OpenThrows, AppendShort, AppendLong, EndLine, WriteFails,
                NewlineFails, MirrorThrows, Crash, CrashInWrite
  <2>2. r \notin stores => stage'[r] # "mirror"
    <3>1. stage \in [Runs -> Stage] /\ (r \notin stores => stage[r] # "mirror")
      BY <1>1 DEF TypeOK
    <3>. QED BY <3>1, <1>3
             DEF Step, OpenThrows, AppendShort, AppendLong, EndLine, WriteFails,
                 NewlineFails, MirrorThrows, Crash, CrashInWrite, At, AfterLine,
                 AfterAppend
  <2>. QED BY <1>1, <2>1, <2>2, StageMoves DEF TypeOK
<1>. QED BY <1>2, <1>3

LEMMA StageKept ==
  ASSUME TypeOK, StageInv, NEW r \in Runs, Step(r)
  PROVE  StageInv'
<1> DEFINE Right(q) == /\ stage[q] = "idle" => ~closing[q]
                       /\ stage[q] = "finished" => closing[q]
                       /\ stage[q] \in {"newline", "mirror", "finished"} => sent[q] > 0
<1>1. \A q \in Runs \ {r} : Right(q)'
  BY StageMoves DEF StageInv
<1>2. /\ stage \in [Runs -> Stage] /\ sent \in [Runs -> 0..MaxEvents]
      /\ closing \in [Runs -> BOOLEAN] /\ closing' \in [Runs -> BOOLEAN]
  BY StageMoves DEF TypeOK
<1>3. Right(r)
  BY DEF StageInv
<1>4. \/ stage'[r] \in {"threw", "crashed"}
      \/ NextEvent(r) /\ stage'[r] = "newline"
      \/ /\ \/ NextEvent(r)
            \/ UNCHANGED <<sent, closing>> /\ stage[r] \in {"newline", "mirror"}
         /\ stage'[r] = "mirror" \/ stage'[r] = AfterAppend(r)
  BY <1>2 DEF Step, OpenThrows, AppendShort, AppendLong, EndLine, WriteFails,
              NewlineFails, Mirror, MirrorThrows, Crash, CrashInWrite, At, AfterLine
<1>5. NextEvent(r) => sent'[r] > 0
  BY <1>2, NextEventIsNew
<1>6. Right(r)'
  BY <1>2, <1>3, <1>4, <1>5 DEF AfterAppend
<1>. QED BY <1>1, <1>6 DEF StageInv

(***************************************************************************)
(* What is on record.                                                      *)
(***************************************************************************)
LEMMA EventParts ==
  ASSUME NEW e \in Event
  PROVE  e.run \in Runs /\ e.n \in Nat /\ e.n > 0 /\ e.terminal \in BOOLEAN
  BY EventLogAssumption DEF Event

LEMMA TokenParts ==
  ASSUME TypeOK, NEW i \in DOMAIN file
  PROVE  /\ i \in 1..Len(file) /\ Len(file) \in Nat
         /\ file[i].event \in Event /\ file[i].kind \in {"text", "cut", "newline"}
<1>1. file \in Seq(Token) /\ i \in 1..Len(file) /\ Len(file) \in Nat
  BY DEF TypeOK
<1>2. file[i] \in Token
  BY <1>1, ElementOfSeq
<1>. QED BY <1>1, <1>2 DEF Token

\* A token of the file after a step was there before, or has been added.
LEMMA OldOrAdded ==
  ASSUME TypeOK, TypeOK', NEW r \in Runs, Grown(r), NEW i \in DOMAIN file'
  PROVE  /\ i \in DOMAIN file \/ i \in Added
         /\ i \in DOMAIN file => i <= Len(file) /\ file'[i] = file[i]
         /\ i \in Added => i > Len(file) /\ i \notin DOMAIN file
         /\ i \in Nat /\ Len(file) \in Nat /\ Len(file') \in Nat
<1>1. file \in Seq(Token) /\ file' \in Seq(Token)
  BY DEF TypeOK
<1>2. DOMAIN file = 1..Len(file) /\ DOMAIN file' = 1..Len(file')
      /\ Len(file) \in Nat /\ Len(file') \in Nat
  BY <1>1
<1>. QED BY <1>2 DEF Grown, Added

LEMMA KnownKept ==
  ASSUME TypeOK, TypeOK', StageInv, StageInv', KnownInv, NEW r \in Runs, Step(r)
  PROVE  KnownInv'
<1> DEFINE KnownNow(e) == /\ e.n <= sent'[e.run]
                          /\ e.terminal <=> closing'[e.run] /\ e.n = sent'[e.run]
<1>1. Grown(r) /\ Progress(r)
  BY StepShape
<1>2. sent \in [Runs -> 0..MaxEvents] /\ sent' \in [Runs -> 0..MaxEvents]
      /\ MaxEvents \in Nat
      /\ closing \in [Runs -> BOOLEAN] /\ closing' \in [Runs -> BOOLEAN]
  BY EventLogAssumption DEF TypeOK
<1>3. ASSUME NEW e \in Event, Known(e) PROVE KnownNow(e)
  <2>1. /\ e.run \in Runs /\ e.n \in Nat /\ e.n <= sent[e.run] /\ e.terminal \in BOOLEAN
        /\ e.terminal <=> closing[e.run] /\ e.n = sent[e.run]
    BY <1>3, EventParts DEF Known
  <2>2. CASE e.run # r
    BY <2>1, <2>2, StageMoves
  <2>3. CASE e.run = r /\ UNCHANGED <<sent, closing>>
    BY <2>1, <2>3
  <2>4. CASE e.run = r /\ NextEvent(r)
    <3>1. sent'[r] = sent[r] + 1 /\ ~closing[r] /\ sent[r] \in Nat
      BY <1>2, <2>4, NextEventIsNew
    <3>. QED BY <2>1, <2>4, <3>1
  <2>. QED BY <1>1, <2>2, <2>3, <2>4 DEF Progress
<1>4. KnownNow(Current(r)')
  BY <1>2 DEF Current
<1>5. ASSUME NEW i \in DOMAIN file' PROVE KnownNow(file'[i].event)
  <2>1. CASE i \in DOMAIN file
    <3>1. file'[i] = file[i]
      BY <1>1, <2>1, OldOrAdded
    <3>2. file[i].event \in Event /\ Known(file[i].event)
      BY <2>1, TokenParts DEF KnownInv
    <3>. QED BY <1>3, <3>1, <3>2
  <2>2. CASE i \in Added
    BY <1>1, <1>4, <2>2 DEF Grown
  <2>. QED BY <1>1, <2>1, <2>2, OldOrAdded
<1>6. ASSUME NEW e \in lost' PROVE KnownNow(e)
  <2>1. e \in lost \/ e = Current(r)'
    BY <1>1 DEF Grown
  <2>2. e \in lost => e \in Event /\ Known(e)
    BY DEF TypeOK, KnownInv
  <2>. QED BY <1>3, <1>4, <2>1, <2>2
<1>. QED BY <1>5, <1>6 DEF KnownInv, Known

LEMMA OrderKept ==
  ASSUME TypeOK, TypeOK', StageInv, KnownInv, OrderInv, NEW r \in Runs, Step(r)
  PROVE  OrderInv'
<1>1. Grown(r) /\ Progress(r)
  BY StepShape
<1> SUFFICES ASSUME NEW i \in DOMAIN file', NEW j \in DOMAIN file', i < j,
                    file'[i].event.run = file'[j].event.run,
                    file'[i].kind # "newline", file'[j].kind # "newline"
             PROVE  file'[i].event.n < file'[j].event.n
  BY DEF OrderInv, IsNewline
<1>2. CASE j \in DOMAIN file
  <2>1. i \in DOMAIN file /\ file'[i] = file[i] /\ file'[j] = file[j]
    BY <1>1, <1>2, OldOrAdded
  <2>. QED BY <2>1, <1>2 DEF OrderInv, IsNewline
<1>3. CASE j \in Added
  <2>1. j = Len(file) + 1 /\ file'[j].event = Current(r)' /\ NextEvent(r)
    BY <1>1, <1>3 DEF Grown, Progress
  <2>2. i \in DOMAIN file /\ file'[i] = file[i]
    BY <1>1, <2>1, OldOrAdded
  <2>3. file[i].event \in Event /\ Known(file[i].event)
    BY <2>2, TokenParts DEF KnownInv
  <2>4. file[i].event.run = r /\ file'[j].event.n = sent[r] + 1
    BY <2>1, <2>2, NextEventIsNew DEF Current
  <2>5. file[i].event.n <= sent[r] /\ file[i].event.n \in Nat
    BY <2>3, <2>4, EventParts DEF Known
  <2>6. sent[r] \in Nat
    BY DEF TypeOK
  <2>. QED BY <2>2, <2>4, <2>5, <2>6
<1>. QED BY <1>1, <1>2, <1>3, OldOrAdded

LEMMA TraceKept ==
  ASSUME TypeOK, TypeOK', StageInv, TraceInv, NEW r \in Runs, Step(r)
  PROVE  TraceInv'
<1>1. Grown(r) /\ Progress(r)
  BY StepShape
<1> DEFINE TracedNow(q, n) ==
      \/ \E i \in DOMAIN file' :
           file'[i].kind # "newline" /\ file'[i].event.run = q /\ file'[i].event.n = n
      \/ \E e \in lost' : e.run = q /\ e.n = n
<1>2. /\ DOMAIN file \subseteq DOMAIN file' /\ Added \subseteq DOMAIN file'
      /\ \A i \in DOMAIN file : file'[i] = file[i]
  <2>1. file \in Seq(Token) /\ file' \in Seq(Token)
    BY DEF TypeOK
  <2>2. /\ DOMAIN file = 1..Len(file) /\ DOMAIN file' = 1..Len(file')
        /\ Len(file) \in Nat /\ Len(file') \in Nat
    BY <2>1
  <2>. QED BY <1>1, <2>2 DEF Grown, Added
<1>3. ASSUME NEW q \in Runs, NEW n, Traced(q, n) PROVE TracedNow(q, n)
  BY <1>1, <1>2, <1>3 DEF Traced, IsNewline, Grown
<1>4. ASSUME NextEvent(r) PROVE TracedNow(r, sent'[r])
  <2>1. Current(r)'.run = r /\ Current(r)'.n = sent'[r]
    BY DEF Current
  <2>2. CASE Len(file) + 1 \in Added /\ file'[Len(file) + 1].kind # "newline"
    BY <1>1, <1>2, <2>1, <2>2 DEF Grown
  <2>3. CASE Current(r)' \in lost'
    BY <2>1, <2>3
  <2>4. ~UNCHANGED <<sent, closing>>
    <3>1. sent'[r] = sent[r] + 1 /\ sent[r] \in Nat
      BY <1>4, NextEventIsNew DEF TypeOK
    <3>. QED BY <3>1
  <2>. QED BY <1>1, <2>2, <2>3, <2>4 DEF Progress
<1>5. ASSUME NEW q \in Runs, NEW n \in 1..sent'[q] PROVE TracedNow(q, n)
  <2>1. sent[q] \in Nat /\ sent'[q] \in Nat
    BY DEF TypeOK
  <2>2. CASE n \in 1..sent[q]
    BY <1>3, <2>2 DEF TraceInv
  <2>3. CASE n \notin 1..sent[q]
    <3>1. q = r /\ NextEvent(r)
      BY <1>1, <2>1, <2>3, StageMoves DEF Progress
    <3>2. sent'[r] = sent[r] + 1
      BY <3>1, NextEventIsNew
    <3>. QED BY <1>4, <2>1, <2>3, <3>1, <3>2
  <2>. QED BY <2>2, <2>3
<1>. QED BY <1>5 DEF TraceInv, Traced, IsNewline

(***************************************************************************)
(* The lines, and the rows.                                                *)
(***************************************************************************)
LEMMA DamageKept ==
  ASSUME TypeOK, TypeOK', StageInv, DamageInv, NEW r \in Runs, Step(r)
  PROVE  DamageInv'
<1> DEFINE StoppedNow(e) == stage'[e.run] = "crashed" \/ e \in lost'
           CurrentNow(q) == [run |-> q, n |-> sent'[q], terminal |-> closing'[q]]
           AwaitedNow(e) == stage'[e.run] = "newline" /\ e = CurrentNow(e.run)
<1>1. Grown(r) /\ Progress(r) /\ Ended(r)
  BY StepShape
<1>2. ASSUME NEW e \in Event, Stopped(e) PROVE StoppedNow(e)
  <2>1. e.run \in Runs
    BY EventParts
  <2>. QED BY <1>1, <1>2, <2>1, StageMoves DEF Stopped, Grown
<1>3. ASSUME Given(r) PROVE StoppedNow(Current(r)')
  BY <1>3 DEF Given, Current
<1>4. ASSUME NEW i \in DOMAIN file'
      PROVE  /\ file'[i].kind = "cut" => StoppedNow(file'[i].event)
             /\ file'[i].kind = "text" =>
                  IF i = Len(file')
                  THEN AwaitedNow(file'[i].event) \/ StoppedNow(file'[i].event)
                  ELSE \/ file'[i + 1].kind = "newline"
                       \/ StoppedNow(file'[i].event)
                       \/ file'[i + 1].event.run # file'[i].event.run
  <2>1. CASE i \in Added
    <3>1. file'[i].event = Current(r)'
      BY <1>1, <2>1 DEF Grown
    <3>2. Current(r)'.run = r
      BY DEF Current
    <3>3. stage'[r] = "newline" => AwaitedNow(Current(r)')
      BY <3>2 DEF Current
    <3>4. Given(r) => StoppedNow(Current(r)')
      BY <1>3
    <3> HIDE DEF StoppedNow, AwaitedNow
    <3>5. file'[i].kind = "cut" => StoppedNow(file'[i].event)
      BY <1>1, <2>1, <3>1, <3>4 DEF Ended
    <3>. QED BY <1>1, <2>1, <3>1, <3>3, <3>4, <3>5 DEF Ended
  <2>2. CASE i \in DOMAIN file
    <3> DEFINE e == file[i].event
    <3>1. /\ file'[i] = file[i] /\ e \in Event /\ e.run \in Runs
          /\ i <= Len(file) /\ i \in Nat /\ Len(file) \in Nat /\ Len(file') \in Nat
          /\ Len(file) <= Len(file')
      BY <1>1, <2>2, OldOrAdded, TokenParts, EventParts DEF Grown
    <3>2. CASE Stopped(e)
      BY <1>2, <3>1, <3>2
    <3>3. CASE i < Len(file)
      <4>1. i + 1 \in DOMAIN file'
        <5>1. DOMAIN file' = 1..Len(file')
          BY DEF TypeOK
        <5>. QED BY <3>1, <3>3, <5>1
      <4>2. i + 1 \in DOMAIN file
        <5>1. DOMAIN file = 1..Len(file)
          BY DEF TypeOK
        <5>. QED BY <3>1, <3>3, <5>1
      <4>3. file'[i + 1] = file[i + 1] /\ i # Len(file) /\ i # Len(file')
        BY <1>1, <3>1, <3>3, <4>1, <4>2, OldOrAdded
      <4>. QED BY <1>2, <2>2, <3>1, <4>3 DEF DamageInv, IsNewline
    <3>4. CASE i = Len(file) /\ Awaited(e) /\ e.run # r
      <4>1. stage'[e.run] = "newline" /\ CurrentNow(e.run) = Current(e.run)
        BY <3>1, <3>4, StageMoves DEF Awaited, Current
      <4>2. AwaitedNow(e)
        BY <3>4, <4>1 DEF Awaited
      <4>3. i # Len(file') => file'[i + 1].event.run = r
        <5>1. i # Len(file') => i + 1 \in Added
          BY <3>1, <3>4 DEF Added
        <5>. QED BY <1>1, <5>1 DEF Grown, Current
      <4>4. file[i].kind = "cut" => StoppedNow(e)
        BY <1>2, <2>2, <3>1 DEF DamageInv
      <4> HIDE DEF StoppedNow, AwaitedNow
      <4>. QED BY <3>1, <3>4, <4>2, <4>3, <4>4
    <3>5. CASE i = Len(file) /\ Awaited(e) /\ e.run = r
      <4>1. stage[r] = "newline" /\ e = Current(r)
        BY <3>5 DEF Awaited
      <4>2. Current(r)' = e
        BY <1>1, <4>1 DEF Progress, NextEvent, Current
      <4>3. CASE Given(r)
        BY <1>3, <3>1, <4>2, <4>3
      <4>4. CASE Len(file) + 1 \in Added /\ file'[Len(file) + 1].kind = "newline"
        <5>1. i # Len(file') /\ file'[i + 1].kind = "newline"
          BY <3>1, <3>5, <4>4 DEF Added
        <5>2. file[i].kind = "cut" => StoppedNow(e)
          BY <1>2, <2>2, <3>1 DEF DamageInv
        <5>. QED BY <3>1, <5>1, <5>2
      <4>. QED BY <1>1, <4>1, <4>3, <4>4 DEF Ended
    <3>6. i = Len(file) => Awaited(e) \/ Stopped(e) \/ file[i].kind = "newline"
      BY <2>2, TokenParts DEF DamageInv
    <3>. QED BY <3>1, <3>2, <3>3, <3>4, <3>5, <3>6
  <2>. QED BY <1>1, <2>1, <2>2, OldOrAdded
<1>. QED BY <1>4 DEF DamageInv, IsNewline, Stopped, Awaited, Current

LEMMA RowsKept ==
  ASSUME TypeOK, TypeOK', StageInv, RowsInv, NEW r \in Runs, Step(r), UNCHANGED stores
  PROVE  RowsInv'
<1> DEFINE Right(q) ==
      /\ \A i \in DOMAIN rows[q] : rows[q][i].run = q /\ rows[q][i].n = i
      /\ stage[q] \in {"idle", "finished"} => Len(rows[q]) = sent[q]
      /\ stage[q] \in {"newline", "mirror"} => Len(rows[q]) = sent[q] - 1
      /\ Len(rows[q]) \in {sent[q], sent[q] - 1}
<1>1. /\ stage \in [Runs -> Stage] /\ sent \in [Runs -> 0..MaxEvents]
      /\ MaxEvents \in Nat /\ rows \in [Runs -> Seq(Event)] /\ stores \subseteq Runs
      /\ r \notin stores => stage[r] # "mirror"
  BY EventLogAssumption DEF TypeOK
<1>2. ASSUME NEW q \in stores, q # r PROVE Right(q)'
  <2>1. rows'[q] = rows[q]
    BY <1>1, <1>2 DEF Step, OpenThrows, AppendShort, AppendLong, EndLine, WriteFails,
                      NewlineFails, Mirror, MirrorThrows, Crash, CrashInWrite
  <2>. QED BY <1>1, <1>2, <2>1, StageMoves DEF RowsInv
<1>3. ASSUME r \in stores PROVE Right(r)'
  <2>1. Right(r) /\ rows[r] \in Seq(Event) /\ sent[r] \in Nat
    BY <1>1, <1>3 DEF RowsInv
  <2>2. CASE Mirror(r)
    <3>1. /\ stage[r] = "mirror" /\ rows'[r] = Append(rows[r], Current(r))
          /\ stage'[r] \notin {"newline", "mirror"} /\ sent' = sent
      BY <1>1, <2>2 DEF Mirror, At, AfterAppend
    <3>2. Current(r) \in Event /\ Current(r).run = r /\ Current(r).n = sent[r]
      BY <3>1, CurrentIsEvent DEF Current
    <3>3. Len(rows[r]) = sent[r] - 1 /\ Len(rows[r]) \in Nat
      BY <2>1, <3>1
    <3>4. /\ Len(rows'[r]) = sent[r]
          /\ \A i \in DOMAIN rows'[r] :
               IF i \in DOMAIN rows[r] THEN rows'[r][i] = rows[r][i]
                                       ELSE i = sent[r] /\ rows'[r][i] = Current(r)
      BY <2>1, <3>1, <3>2, <3>3, AppendProperties
    <3>. QED BY <2>1, <3>1, <3>2, <3>4
  <2>3. CASE ~Mirror(r)
    <3>1. rows' = rows
      BY <2>3 DEF Step, OpenThrows, AppendShort, AppendLong, EndLine, WriteFails,
                  NewlineFails, MirrorThrows, Crash, CrashInWrite
    <3>2. \/ /\ NextEvent(r) /\ stage'[r] \in {"newline", "mirror", "crashed"}
          \/ /\ UNCHANGED sent /\ stage[r] = "newline" /\ stage'[r] \in {"mirror", "crashed"}
          \/ /\ UNCHANGED sent /\ stage'[r] \in {"threw", "crashed"}
      BY <1>1, <1>3, <2>3
         DEF Step, OpenThrows, AppendShort, AppendLong, EndLine, WriteFails, NewlineFails,
             MirrorThrows, Crash, CrashInWrite, At, AfterLine
    <3>3. NextEvent(r) => sent'[r] = sent[r] + 1 /\ stage[r] = "idle"
      BY NextEventIsNew DEF NextEvent
    <3>. QED BY <2>1, <3>1, <3>2, <3>3
  <2>. QED BY <2>2, <2>3
<1>. QED BY <1>2, <1>3 DEF RowsInv

(***************************************************************************)
(* The theorems.                                                           *)
(***************************************************************************)
LEMMA InvHoldsAtStart == Init => IInv
<1> SUFFICES ASSUME Init PROVE IInv
  OBVIOUS
<1> USE DEF Init
<1>1. file \in Seq(Token) /\ DOMAIN file = {} /\ Len(file) = 0
  OBVIOUS
<1>2. rows \in [Runs -> Seq(Event)] /\ \A r \in Runs : rows[r] = <<>>
  OBVIOUS
<1>3. sent \in [Runs -> 0..MaxEvents] /\ \A r \in Runs : 1..sent[r] = {}
  BY EventLogAssumption
<1>4. TypeOK
  BY <1>1, <1>2, <1>3 DEF TypeOK, Stage
<1>5. StageInv /\ TraceInv
  BY <1>3 DEF StageInv, TraceInv
<1>6. KnownInv /\ OrderInv /\ DamageInv
  BY <1>1 DEF KnownInv, OrderInv, DamageInv
<1>7. RowsInv
  BY <1>2 DEF RowsInv
<1>. QED BY <1>4, <1>5, <1>6, <1>7 DEF IInv

LEMMA InvKept == IInv /\ [Next]_vars => IInv'
<1>1. ASSUME IInv, NEW r \in Runs, Step(r), UNCHANGED stores PROVE IInv'
  <2> USE <1>1 DEF IInv
  <2>1. TypeOK' /\ StageInv'
    BY TypesKept, StageKept
  <2>. QED BY <2>1, KnownKept, OrderKept, TraceKept, DamageKept, RowsKept
<1>2. ASSUME IInv, UNCHANGED vars PROVE IInv'
  <2> USE <1>2 DEF vars
  <2>1. TypeOK' /\ StageInv' /\ OrderInv'
    BY DEF IInv, TypeOK, StageInv, OrderInv, IsNewline
  <2>2. KnownInv' /\ TraceInv'
    BY DEF IInv, KnownInv, Known, TraceInv, Traced, IsNewline
  <2>3. DamageInv' /\ RowsInv'
    BY DEF IInv, DamageInv, Stopped, Awaited, Current, IsNewline, RowsInv
  <2>. QED BY <2>1, <2>2, <2>3 DEF IInv
<1>. QED BY <1>1, <1>2 DEF Next

LEMMA InvAlways == Spec => []IInv
  BY InvHoldsAtStart, InvKept, PTL DEF Spec

\* EventLog::append and its readers keep their types: each token of the file is
\* of an event some run sent, and a run without a store never mirrors.
THEOREM TypeCorrect == Spec => []TypeOK
<1>1. IInv => TypeOK
  BY DEF IInv
<1>. QED BY InvAlways, <1>1, PTL

\* mirror_sqlite comes after the line, once per event: the rows of a run are its
\* events in order, and behind what was appended by the last event at most.
THEOREM MirrorLags == Spec => []MirrorLagsByOne
<1>1. IInv => MirrorLagsByOne
  BY DEF IInv, RowsInv, MirrorLagsByOne
<1>. QED BY InvAlways, <1>1, PTL

\* A line that parse_line rejects is the work of a process that died, of a
\* write whose failure append() does not look at, or of two processes writing
\* at once; whatever else the runs do, lines stay whole.
THEOREM DamageIsExplained == Spec => []DamageHasCause
<1>1. ASSUME IInv PROVE DamageHasCause
  <2> SUFFICES ASSUME NEW i \in DOMAIN file, Broken(i)
               PROVE  \/ stage[file[i].event.run] = "crashed"
                      \/ file[i].event \in lost
                      \/ i < Len(file) /\ file[i + 1].event.run # file[i].event.run
    BY DEF DamageHasCause
  <2>1. i \in 1..Len(file) /\ Len(file) \in Nat
    BY <1>1, TokenParts DEF IInv
  <2>. QED BY <1>1, <2>1 DEF IInv, DamageInv, Broken, Stopped
<1>. QED BY InvAlways, <1>1, PTL

\* list_for_run, on a file that can be read, returns the events of a run in
\* the order append() was called, each at most once, and leaves out only those
\* whose write failed.
THEOREM LogReadsBack == Spec => []ReadBack
<1>1. ASSUME IInv, Readable, NEW r \in Runs
      PROVE  /\ \A i, j \in OnRecord(r) : i < j => file[i].event.n < file[j].event.n
             /\ \A n \in 1..sent[r] : \/ \E i \in OnRecord(r) : file[i].event.n = n
                                      \/ \E e \in lost : e.run = r /\ e.n = n
  <2>1. \A i, j \in OnRecord(r) : i < j => file[i].event.n < file[j].event.n
    BY <1>1 DEF IInv, OrderInv, OnRecord, IsNewline
  <2>2. \A i \in DOMAIN file : ~IsNewline(i) => file[i].kind = "text"
    BY <1>1 DEF Readable, WholeLine
  <2>. QED BY <1>1, <2>1, <2>2 DEF IInv, TraceInv, Traced, OnRecord
<1>2. IInv => ReadBack
  BY <1>1 DEF ReadBack
<1>. QED BY InvAlways, <1>2, PTL

\* find_incomplete_runs, on a file that can be read, never reports a run that
\* finished with its last event written, and reports every run on record that
\* ended without sending a terminal event.
THEOREM IncompleteRunsAreFound == Spec => []IncompleteIsRight
<1>1. ASSUME IInv, Readable, NEW r \in Runs, stage[r] = "finished", Current(r) \notin lost
      PROVE  r \notin Incomplete
  <2>1. closing[r] /\ sent[r] \in 1..sent[r]
    BY <1>1 DEF IInv, StageInv, TypeOK
  <2>2. CASE \E i \in DOMAIN file : /\ ~IsNewline(i) /\ file[i].event.run = r
                                    /\ file[i].event.n = sent[r]
    <3>1. PICK i \in DOMAIN file : /\ ~IsNewline(i) /\ file[i].event.run = r
                                   /\ file[i].event.n = sent[r]
      BY <2>2
    <3>2. i \in OnRecord(r)
      BY <1>1, <3>1 DEF Readable, WholeLine, OnRecord
    <3>3. file[i].event.terminal
      BY <1>1, <2>1, <3>1 DEF IInv, KnownInv, Known
    <3>. QED BY <3>2, <3>3 DEF Incomplete
  <2>3. ASSUME NEW e \in lost, e.run = r, e.n = sent[r] PROVE FALSE
    <3>1. e \in Event /\ Known(e)
      BY <1>1 DEF IInv, TypeOK, KnownInv
    <3>2. e.terminal = closing[r] /\ closing[r] \in BOOLEAN
      BY <1>1, <2>1, <2>3, <3>1, EventParts DEF IInv, TypeOK, Known
    <3>3. e = Current(r)
      BY <2>3, <3>1, <3>2 DEF Event, Current
    <3>. QED BY <1>1, <3>3
  <2>. QED BY <1>1, <2>1, <2>2, <2>3 DEF IInv, TraceInv, Traced
<1>2. ASSUME IInv, NEW r \in Runs, ~closing[r], OnRecord(r) # {}
      PROVE  r \in Incomplete
  <2>1. \A i \in OnRecord(r) : ~file[i].event.terminal
    BY <1>2 DEF IInv, KnownInv, Known, OnRecord
  <2>. QED BY <1>2, <2>1 DEF Incomplete
<1>3. IInv => IncompleteIsRight
  BY <1>1, <1>2 DEF IncompleteIsRight
<1>. QED BY InvAlways, <1>3, PTL
====
