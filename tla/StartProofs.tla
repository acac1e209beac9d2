---- MODULE StartProofs ----
(***************************************************************************)
(* What a process starts with: proofs about Sessions and Config. First,    *)
(* which session a prompt runs in and which prompts /history shows, for    *)
(* any number of processes on one data directory and any command lines.    *)
(* Then, which layer of load_config has the last word on a setting, for    *)
(* any set of settings and any environment, and whatever the files say.    *)
(***************************************************************************)
EXTENDS Sessions, Config, SequenceTheorems, TLAPS

(***************************************************************************)
(* Sessions: the inductive invariant, by concern.                          *)
(***************************************************************************)
\* A process has a session once it has made one, and the one it is resuming
\* exists. An interactive process never is where the one-shot commands are.
Placed(p) ==
  /\ pc[p] \in {"created", "touch", "ready", "interactive"} =>
       session[p] # None /\ made[p] # None
  /\ pc[p] = "touch" => chosen[p] # None
  /\ pc[p] \in {"created", "ready"} => Kind(line[p]) # "Interactive"
  /\ pc[p] = "interactive" => Kind(line[p]) = "Interactive"
  /\ ran[p] # None => pc[p] = "ended"

\* A session the prompt of p may run in.
Allowed(p, s) ==
  \/ ~HasPrompt(line[p])
  \/ s = made[p]
  \/ /\ line[p].continue
     /\ \/ line[p].first = "sessions resume" /\ s = line[p].id
        \/ sessions[s].created >= sessions[made[p]].created

Prompted(p) ==
  /\ pc[p] = "created" => session[p] = made[p]
  /\ pc[p] = "touch" /\ Kind(line[p]) # "Interactive" => Allowed(p, chosen[p])
  /\ pc[p] = "ready" => Allowed(p, session[p])
  /\ ran[p] # None => HasPrompt(line[p]) /\ made[p] # None /\ Allowed(p, ran[p])

\* A one-shot command has no history.
Remembered(p) ==
  /\ Kind(line[p]) # "Interactive" => history[p] = <<>>
  /\ ~moved[p] => \A i \in DOMAIN history[p] : history[p][i] = session[p]

PlaceInv == \A p \in Processes : Placed(p)
PromptInv == \A p \in Processes : Prompted(p)
HistoryInv == \A p \in Processes : Remembered(p)

IInv == TypeOK /\ PlaceInv /\ PromptInv /\ HistoryInv

(***************************************************************************)
(* The table. Rows are added at its end, and keep when they were created.  *)
(***************************************************************************)
Row == [created : 0..MaxSeconds, updated : 0..MaxSeconds]

LEMMA TypedParts ==
  ASSUME TypeOK
  PROVE  /\ clock \in 0..MaxSeconds /\ MaxSeconds \in Nat
         /\ sessions \in Seq(Row) /\ Len(sessions) \in Nat
         /\ pc \in [Processes -> PC] /\ line \in [Processes -> CommandLine]
         /\ now \in [Processes -> 0..MaxSeconds]
         /\ chosen \in [Processes -> SessionId \cup {None}]
         /\ session \in [Processes -> SessionId \cup {None}]
         /\ made \in [Processes -> SessionId \cup {None}]
         /\ ran \in [Processes -> SessionId \cup {None}]
         /\ history \in [Processes -> Seq(SessionId)]
         /\ moved \in [Processes -> BOOLEAN]
         /\ \A i \in SessionId : sessions[i] \in Row /\ sessions[i].created \in Nat
<1>1. sessions \in Seq(Row) /\ Len(sessions) \in Nat /\ MaxSeconds \in Nat
  BY SessionsAssumption DEF TypeOK, Row
<1>2. \A i \in SessionId : sessions[i] \in Row
  BY <1>1, ElementOfSeq DEF SessionId
<1>3. \A i \in SessionId : sessions[i].created \in Nat
  BY <1>1, <1>2 DEF Row
<1>. QED BY <1>1, <1>2, <1>3, SessionsAssumption DEF TypeOK

LEMMA InsertRow ==
  ASSUME TypeOK, NEW p \in Processes, Insert(p)
  PROVE  /\ sessions' \in Seq(Row) /\ Len(sessions') = Len(sessions) + 1
         /\ \A i \in SessionId : sessions'[i] = sessions[i]
<1>1. /\ sessions' = Append(sessions, [created |-> now[p], updated |-> now[p]])
      /\ [created |-> now[p], updated |-> now[p]] \in Row
  BY TypedParts DEF Insert, Row
<1>. QED BY <1>1, TypedParts, AppendProperties DEF SessionId

LEMMA TouchRow ==
  ASSUME TypeOK, NEW p \in Processes, Touch(p)
  PROVE  /\ sessions' \in Seq(Row) /\ Len(sessions') = Len(sessions)
         /\ \A i \in SessionId : sessions'[i].created = sessions[i].created
<1>1. sessions' = [sessions EXCEPT ![chosen[p]].updated = now[p]]
  BY DEF Touch
<1>2. CASE chosen[p] \in SessionId
  <2> DEFINE row == [sessions[chosen[p]] EXCEPT !.updated = now[p]]
  <2>1. row \in Row /\ row.created = sessions[chosen[p]].created
    BY <1>2, TypedParts DEF Row
  <2>2. sessions' = [sessions EXCEPT ![chosen[p]] = row]
    BY <1>1
  <2> HIDE DEF row
  <2>. QED BY <1>2, <2>1, <2>2, TypedParts, ExceptSeq DEF SessionId
<1>3. CASE chosen[p] \notin SessionId
  <2>1. DOMAIN sessions = SessionId
    BY TypedParts DEF SessionId
  <2>2. sessions' = sessions
    BY <1>1, <1>3, <2>1, TypedParts
  <2>. QED BY <2>2, TypedParts
<1>. QED BY <1>2, <1>3

LEMMA TableGrows ==
  ASSUME TypeOK, NEW p \in Processes, Process(p)
  PROVE  /\ sessions' \in Seq(Row) /\ SessionId \subseteq SessionId'
         /\ \A i \in SessionId : sessions'[i].created = sessions[i].created
<1>1. CASE Insert(p)
  BY <1>1, InsertRow, TypedParts DEF SessionId
<1>2. CASE Touch(p)
  BY <1>2, TouchRow, TypedParts DEF SessionId
<1>3. CASE UNCHANGED sessions
  BY <1>3, TypedParts DEF SessionId
<1>. QED BY <1>1, <1>2, <1>3
         DEF Process, Start, Resume, RunOnce, RunPrompt, NewSession, ResumeCommand,
             Quit, StoreThrows

\* What is found exists.
LEMMA FoundExists == \A id : Found(id) \subseteq SessionId
  BY DEF Found, Latest

LEMMA SeqsGrow ==
  ASSUME NEW S, NEW T, S \subseteq T
  PROVE  Seq(S) \subseteq Seq(T)
<1> SUFFICES ASSUME NEW f \in Seq(S) PROVE f \in Seq(T)
  OBVIOUS
<1>1. f \in [1..Len(f) -> T] /\ Len(f) \in Nat
  BY ElementOfSeq
<1>. QED BY <1>1

(***************************************************************************)
(* The types.                                                              *)
(***************************************************************************)
\* What session_id, chosen and the rest held before a step they still may.
LEMMA IdsStay ==
  ASSUME TypeOK, NEW p \in Processes, Process(p)
  PROVE  /\ {chosen, session, made, ran} \subseteq [Processes -> SessionId' \cup {None}]
         /\ history \in [Processes -> Seq(SessionId')]
  BY TableGrows, TypedParts, SeqsGrow

\* Select moves to where a session is resumed, or goes on without one.
LEMMA SelectTypes ==
  ASSUME TypeOK, NEW p \in Processes, NEW id, Select(p, id)
  PROVE  /\ pc' \in [Processes -> PC] /\ now' \in [Processes -> 0..MaxSeconds]
         /\ chosen' \in [Processes -> SessionId \cup {None}]
<1>1. CASE Found(id) = {}
  BY <1>1, TypedParts DEF Select, After, PC
<1>2. CASE Found(id) # {}
  <2>1. PICK found \in Found(id) : chosen' = [chosen EXCEPT ![p] = found]
    BY <1>2 DEF Select
  <2>. QED BY <1>2, <2>1, FoundExists, TypedParts DEF Select, ReadClock, PC
<1>. QED BY <1>1, <1>2

LEMMA TypesKept ==
  ASSUME TypeOK, PlaceInv, NEW p \in Processes, Process(p)
  PROVE  TypeOK'
<1>1. sessions' \in Seq(Row) /\ clock' = clock /\ line' = line
  BY TableGrows DEF Process, Start, Insert, Resume, Touch, RunOnce, RunPrompt, NewSession,
                    ResumeCommand, Quit, StoreThrows, unused
<1>2. /\ pc' \in [Processes -> PC] /\ now' \in [Processes -> 0..MaxSeconds]
      /\ moved' \in [Processes -> BOOLEAN]
  <2>1. CASE Resume(p) \/ ResumeCommand(p)
    BY <2>1, SelectTypes, TypedParts DEF Resume, ResumeCommand, unused, PC
  <2>2. CASE Start(p) \/ NewSession(p) \/ RunOnce(p) \/ RunPrompt(p) \/ Quit(p) \/ StoreThrows(p)
    BY <2>2, TypedParts DEF Start, NewSession, RunOnce, RunPrompt, Quit, StoreThrows,
                            ReadClock, unused, PC
  <2>3. CASE Insert(p)
    BY <2>3, TypedParts DEF Insert, Created, PC
  <2>4. CASE Touch(p)
    BY <2>4, TypedParts DEF Touch, After, PC
  <2>. QED BY <2>1, <2>2, <2>3, <2>4 DEF Process
<1>3. {chosen', session', made', ran'} \subseteq [Processes -> SessionId' \cup {None}]
  <2>1. CASE Insert(p)
    <3>1. Len(sessions') \in SessionId'
      BY <2>1, InsertRow, TypedParts DEF SessionId
    <3>. QED BY <2>1, <3>1, IdsStay, TypedParts DEF Insert
  <2>2. CASE Touch(p)
    <3>1. chosen[p] \in SessionId' \cup {None}
      BY IdsStay
    <3>. QED BY <2>2, <3>1, IdsStay DEF Touch
  <2>3. CASE RunOnce(p)
    <3>1. session[p] \in SessionId' \cup {None}
      BY IdsStay
    <3>. QED BY <2>3, <3>1, IdsStay DEF RunOnce
  <2>4. CASE Resume(p) \/ ResumeCommand(p)
    <3>1. UNCHANGED <<session, made, ran, SessionId>>
      BY <2>4 DEF Resume, ResumeCommand, unused, SessionId
    <3>2. chosen' \in [Processes -> SessionId \cup {None}]
      BY <2>4, SelectTypes, TypedParts DEF Resume, ResumeCommand
    <3>. QED BY <3>1, <3>2, TypedParts
  <2>5. CASE Start(p) \/ RunPrompt(p) \/ NewSession(p) \/ Quit(p) \/ StoreThrows(p)
    BY <2>5, IdsStay DEF Start, RunPrompt, NewSession, Quit, StoreThrows, unused
  <2>. QED BY <2>1, <2>2, <2>3, <2>4, <2>5 DEF Process
<1>4. history' \in [Processes -> Seq(SessionId')]
  <2>1. CASE Insert(p)
    <3>1. <<>> \in Seq(SessionId')
      OBVIOUS
    <3>. QED BY <2>1, <3>1, IdsStay DEF Insert
  <2>2. CASE RunPrompt(p)
    <3>1. session[p] \in SessionId' /\ history[p] \in Seq(SessionId')
      BY <2>2, IdsStay DEF RunPrompt, PlaceInv, Placed
    <3>2. Append(history[p], session[p]) \in Seq(SessionId')
      BY <3>1, AppendProperties
    <3>. QED BY <2>2, <3>2, IdsStay DEF RunPrompt
  <2>3. CASE UNCHANGED history
    BY <2>3, IdsStay
  <2>. QED BY <2>1, <2>2, <2>3
           DEF Process, Start, Resume, Touch, RunOnce, NewSession, ResumeCommand, Quit,
               StoreThrows, unused
<1>. QED BY <1>1, <1>2, <1>3, <1>4 DEF TypeOK, Row

(***************************************************************************)
(* Where a process is. Its steps are nobody else's.                        *)
(***************************************************************************)
LEMMA OthersStay ==
  ASSUME TypeOK, NEW p \in Processes, Process(p), NEW q \in Processes, q # p
  PROVE  /\ pc'[q] = pc[q] /\ chosen'[q] = chosen[q] /\ session'[q] = session[q]
         /\ made'[q] = made[q] /\ ran'[q] = ran[q] /\ history'[q] = history[q]
         /\ moved'[q] = moved[q]
<1> USE TypedParts
<1>1. CASE Insert(p) \/ Touch(p)
  BY <1>1 DEF Insert, Touch
<1>2. CASE Resume(p) \/ ResumeCommand(p)
  BY <1>2 DEF Resume, ResumeCommand, Select, ReadClock, unused
<1>3. CASE Start(p) \/ RunOnce(p) \/ RunPrompt(p) \/ NewSession(p) \/ Quit(p) \/ StoreThrows(p)
  BY <1>3 DEF Start, RunOnce, RunPrompt, NewSession, Quit, StoreThrows, ReadClock, unused
<1>. QED BY <1>1, <1>2, <1>3 DEF Process

LEMMA LineStays ==
  ASSUME NEW p \in Processes, Process(p)
  PROVE  line' = line
  BY DEF Process, Start, Insert, Resume, Touch, RunOnce, RunPrompt, NewSession,
         ResumeCommand, Quit, StoreThrows, unused

\* Where Select leads.
LEMMA SelectMoves ==
  ASSUME TypeOK, NEW p \in Processes, NEW id, Select(p, id)
  PROVE  \/ pc'[p] = After(p) /\ UNCHANGED chosen
         \/ pc'[p] = "touch" /\ chosen'[p] \in Found(id)
  BY TypedParts DEF Select, ReadClock

LEMMA PlaceKept ==
  ASSUME TypeOK, PlaceInv, NEW p \in Processes, Process(p)
  PROVE  PlaceInv'
<1>1. \A q \in Processes : q # p => Placed(q)'
  BY OthersStay, LineStays DEF PlaceInv, Placed
<1>2. Placed(p)
  BY DEF PlaceInv
<1>3. Placed(p)'
  <2> USE DEF Placed, After, Created
  <2>1. CASE Start(p) \/ RunOnce(p) \/ NewSession(p) \/ Quit(p) \/ StoreThrows(p)
    BY <1>2, <2>1, TypedParts
       DEF Start, RunOnce, NewSession, Quit, StoreThrows, ReadClock, unused
  <2>2. CASE Insert(p)
    <3>1. Len(sessions') # None
      BY <2>2, InsertRow, TypedParts DEF None
    <3>. QED BY <1>2, <2>2, <3>1, TypedParts DEF Insert
  <2>3. CASE Touch(p)
    BY <1>2, <2>3, TypedParts DEF Touch
  <2>4. CASE Resume(p)
    <3>1. UNCHANGED <<session, made, line, ran>> /\ pc[p] = "created"
      BY <2>4 DEF Resume, unused
    <3>2. \/ pc'[p] \in {After(p), "ready"} /\ UNCHANGED chosen
          \/ pc'[p] = "touch" /\ chosen'[p] \in SessionId
      BY <2>4, SelectMoves, FoundExists, TypedParts DEF Resume
    <3>. QED BY <1>2, <3>1, <3>2 DEF SessionId, None
  <2>5. CASE ResumeCommand(p)
    <3>1. UNCHANGED <<session, made, line, ran>> /\ pc[p] = "interactive"
      BY <2>5 DEF ResumeCommand, unused
    <3>2. \/ pc'[p] = After(p) /\ UNCHANGED chosen
          \/ pc'[p] = "touch" /\ chosen'[p] \in SessionId
      BY <2>5, SelectMoves, FoundExists DEF ResumeCommand
    <3>. QED BY <1>2, <3>1, <3>2 DEF SessionId, None
  <2>6. CASE RunPrompt(p)
    BY <1>2, <2>6 DEF RunPrompt
  <2>. QED BY <2>1, <2>2, <2>3, <2>4, <2>5, <2>6 DEF Process
<1>. QED BY <1>1, <1>3 DEF PlaceInv

(***************************************************************************)
(* The session of a prompt.                                                *)
(***************************************************************************)
\* A session stays allowed: rows do not move, and keep when they were created.
LEMMA AllowedStays ==
  ASSUME TypeOK, NEW p \in Processes, Process(p), NEW q \in Processes,
         NEW s \in SessionId, made[q] # None, made'[q] = made[q], Allowed(q, s)
  PROVE  Allowed(q, s)'
<1>1. made[q] \in SessionId
  BY TypedParts
<1>2. /\ sessions'[s].created = sessions[s].created
      /\ sessions'[made[q]].created = sessions[made[q]].created
  BY <1>1, TableGrows
<1>. QED BY <1>2, LineStays DEF Allowed

\* What a one-shot command resumes it may run its prompt in.
LEMMA ResumesAllowed ==
  ASSUME TypeOK, NEW p \in Processes, WantsResume(line[p]), made[p] # None,
         NEW s \in Found(IF line[p].first = "sessions resume" THEN line[p].id ELSE None)
  PROVE  Allowed(p, s)
<1>1. line[p] \in CommandLine /\ made[p] \in SessionId /\ s \in SessionId
  BY TypedParts, FoundExists
<1>2. CASE ~line[p].continue
  <2>1. Kind(line[p]) = "SessionsResume"
    BY <1>2 DEF WantsResume
  <2>2. ~line[p].dash_p /\ line[p].first = "sessions resume"
    BY <1>1, <2>1 DEF Kind, CommandLine
  <2>. QED BY <2>2 DEF Allowed, HasPrompt
<1>3. CASE line[p].continue /\ line[p].first = "sessions resume" /\ line[p].id # None
  BY <1>3 DEF Found, Allowed
<1>4. CASE line[p].continue /\ (line[p].first # "sessions resume" \/ line[p].id = None)
  <2>1. s \in Latest
    BY <1>4 DEF Found
  <2>2. sessions[made[p]].created <= sessions[s].created
    BY <1>1, <2>1 DEF Latest
  <2>3. sessions[s].created \in Nat /\ sessions[made[p]].created \in Nat
    BY <1>1, TypedParts
  <2>. QED BY <1>4, <2>2, <2>3 DEF Allowed
<1>. QED BY <1>2, <1>3, <1>4

LEMMA PromptKept ==
  ASSUME TypeOK, PlaceInv, PromptInv, NEW p \in Processes, Process(p)
  PROVE  PromptInv'
<1>1. ASSUME NEW q \in Processes,
             pc'[q] = pc[q], chosen'[q] = chosen[q], session'[q] = session[q],
             made'[q] = made[q], ran'[q] = ran[q]
      PROVE  Prompted(q)'
  <2>1. Prompted(q) /\ Placed(q) /\ line'[q] = line[q]
    BY LineStays DEF PromptInv, PlaceInv
  <2>2. {chosen[q], session[q], ran[q]} \subseteq SessionId \cup {None}
    BY TypedParts
  <2>3. CASE pc[q] = "touch" /\ Kind(line[q]) # "Interactive"
    BY <1>1, <2>1, <2>2, <2>3, AllowedStays DEF Prompted, Placed
  <2>4. CASE pc[q] = "ready"
    BY <1>1, <2>1, <2>2, <2>4, AllowedStays DEF Prompted, Placed
  <2>5. CASE ran[q] # None
    BY <1>1, <2>1, <2>2, <2>5, AllowedStays DEF Prompted, Placed
  <2>. QED BY <1>1, <2>1, <2>3, <2>4, <2>5 DEF Prompted
<1>2. \A q \in Processes : q # p => Prompted(q)'
  BY <1>1, OthersStay
<1>3. Prompted(p) /\ Placed(p) /\ line' = line
  BY LineStays DEF PromptInv, PlaceInv
<1>4. Prompted(p)'
  <2>1. CASE Insert(p)
    <3>1. ran[p] = None /\ pc'[p] \in {"interactive", "created"}
      BY <1>3, <2>1, TypedParts DEF Placed, Insert, Created
    <3>. QED BY <2>1, <3>1, TypedParts DEF Insert, Prompted
  <2>2. CASE Resume(p)
    <3>1. /\ UNCHANGED <<session, made, ran, sessions>> /\ pc[p] = "created"
          /\ ran[p] = None /\ session[p] = made[p]
      BY <1>3, <2>2 DEF Resume, unused, Prompted, Placed
    <3>2. CASE pc'[p] \in {After(p), "ready"}
      <4>1. Allowed(p, session[p])'
        BY <3>1 DEF Allowed
      <4>. QED BY <3>1, <3>2, <4>1 DEF Prompted, After
    <3>3. CASE WantsResume(line[p]) /\ pc'[p] = "touch" /\ chosen'[p] \in
               Found(IF line[p].first = "sessions resume" THEN line[p].id ELSE None)
      <4>1. Allowed(p, chosen'[p])
        BY <1>3, <3>1, <3>3, ResumesAllowed DEF Placed
      <4>2. Allowed(p, chosen[p])'
        BY <1>3, <3>1, <4>1 DEF Allowed
      <4>. QED BY <3>1, <3>3, <4>2 DEF Prompted
    <3>. QED BY <2>2, <3>2, <3>3, SelectMoves, TypedParts DEF Resume
  <2>3. CASE Touch(p)
    <3>1. /\ pc[p] = "touch" /\ pc'[p] = After(p) /\ session'[p] = chosen[p]
          /\ made'[p] = made[p] /\ ran'[p] = ran[p] /\ ran[p] = None
          /\ chosen[p] # None /\ made[p] # None /\ chosen[p] \in SessionId
      BY <1>3, <2>3, TypedParts DEF Touch, Placed
    <3>2. CASE Kind(line[p]) = "Interactive"
      BY <3>1, <3>2 DEF Prompted, After
    <3>3. CASE Kind(line[p]) # "Interactive"
      <4>1. Allowed(p, chosen[p])
        BY <1>3, <3>1, <3>3 DEF Prompted
      <4>2. sessions'[chosen[p]].created = sessions[chosen[p]].created
            /\ sessions'[made[p]].created = sessions[made[p]].created
        BY <3>1, TableGrows, TypedParts
      <4>3. Allowed(p, session[p])'
        BY <1>3, <3>1, <4>1, <4>2 DEF Allowed
      <4>. QED BY <3>1, <3>3, <4>3 DEF Prompted, After
    <3>. QED BY <3>2, <3>3
  <2>4. CASE RunOnce(p)
    <3>1. /\ pc[p] = "ready" /\ pc'[p] = "ended" /\ UNCHANGED <<made, sessions>>
          /\ ran'[p] = IF HasPrompt(line[p]) THEN session[p] ELSE None
      BY <2>4, TypedParts DEF RunOnce
    <3>2. Allowed(p, session[p]) /\ made[p] # None
      BY <1>3, <3>1 DEF Prompted, Placed
    <3>3. HasPrompt(line[p]) => Allowed(p, ran[p])'
      BY <1>3, <3>1, <3>2 DEF Allowed
    <3>. QED BY <1>3, <3>1, <3>2, <3>3 DEF Prompted
  <2>5. CASE RunPrompt(p)
    BY <1>1, <2>5 DEF RunPrompt
  <2>6. CASE Start(p) \/ NewSession(p) \/ ResumeCommand(p) \/ Quit(p) \/ StoreThrows(p)
    <3>1. UNCHANGED <<made, ran, sessions>>
      BY <2>6 DEF Start, NewSession, ResumeCommand, Quit, StoreThrows, unused
    <3>2. pc[p] # "ended" /\ ran[p] = None
      BY <1>3, <2>6 DEF Start, NewSession, ResumeCommand, Quit, StoreThrows, Placed
    <3>3. /\ pc'[p] \in {"create", "touch", "ended", "aborted", "interactive"}
          /\ pc'[p] = "touch" => Kind(line[p]) = "Interactive"
      BY <1>3, <2>6, SelectMoves, TypedParts
         DEF Start, NewSession, ResumeCommand, Quit, StoreThrows, ReadClock, Placed, After
    <3>. QED BY <1>3, <3>1, <3>2, <3>3 DEF Prompted
  <2>. QED BY <2>1, <2>2, <2>3, <2>4, <2>5, <2>6 DEF Process
<1>. QED BY <1>2, <1>4 DEF PromptInv

(***************************************************************************)
(* The prompts of /history.                                                *)
(***************************************************************************)
LEMMA HistoryKept ==
  ASSUME TypeOK, PlaceInv, HistoryInv, NEW p \in Processes, Process(p)
  PROVE  HistoryInv'
<1>1. \A q \in Processes : q # p => Remembered(q)'
  BY OthersStay, LineStays DEF HistoryInv, Remembered
<1>2. Remembered(p) /\ Placed(p) /\ line' = line
  BY LineStays DEF HistoryInv, PlaceInv
<1>3. Remembered(p)'
  <2>1. CASE Insert(p)
    BY <2>1, TypedParts DEF Insert, Remembered
  <2>2. CASE Touch(p)
    <3>1. UNCHANGED history /\ moved'[p] = (After(p) = "interactive")
      BY <2>2, TypedParts DEF Touch
    <3>2. CASE Kind(line[p]) = "Interactive"
      BY <1>2, <3>1, <3>2 DEF Remembered, After
    <3>3. CASE Kind(line[p]) # "Interactive"
      BY <1>2, <3>1, <3>3 DEF Remembered
    <3>. QED BY <3>2, <3>3
  <2>3. CASE RunPrompt(p)
    <3>1. /\ history'[p] = Append(history[p], session[p]) /\ history[p] \in Seq(SessionId)
          /\ UNCHANGED <<session, moved>> /\ Kind(line[p]) = "Interactive"
      BY <1>2, <2>3, TypedParts DEF RunPrompt, Placed
    <3>2. ASSUME NEW i \in DOMAIN history'[p]
          PROVE  history'[p][i] = IF i \in DOMAIN history[p] THEN history[p][i] ELSE session[p]
      BY <3>1, AppendProperties
    <3>. QED BY <1>2, <3>1, <3>2 DEF Remembered
  <2>4. CASE Start(p) \/ Resume(p) \/ RunOnce(p) \/ NewSession(p) \/ ResumeCommand(p)
             \/ Quit(p) \/ StoreThrows(p)
    <3>1. UNCHANGED <<history, session, moved>>
      BY <2>4 DEF Start, Resume, RunOnce, NewSession, ResumeCommand, Quit, StoreThrows,
                  unused
    <3>. QED BY <1>2, <3>1 DEF Remembered
  <2>. QED BY <2>1, <2>2, <2>3, <2>4 DEF Process
<1>. QED BY <1>1, <1>3 DEF HistoryInv

(***************************************************************************)
(* The theorems.                                                           *)
(***************************************************************************)
LEMMA InvHoldsAtStart == Init => IInv
<1> SUFFICES ASSUME Init PROVE IInv
  OBVIOUS
<1> USE DEF Init
<1>1. TypeOK
  <2>1. sessions \in Seq(Row) /\ \A p \in Processes : history[p] = <<>>
    OBVIOUS
  <2>2. {chosen, session, made, ran} \subseteq [Processes -> SessionId \cup {None}]
    OBVIOUS
  <2>3. history \in [Processes -> Seq(SessionId)]
    OBVIOUS
  <2>. QED BY <2>1, <2>2, <2>3, SessionsAssumption DEF TypeOK, Row, PC
<1>2. PlaceInv /\ PromptInv
  BY DEF PlaceInv, Placed, PromptInv, Prompted
<1>3. HistoryInv
  BY DEF HistoryInv, Remembered
<1>. QED BY <1>1, <1>2, <1>3 DEF IInv

LEMMA InvKept == IInv /\ [Next]_vars => IInv'
<1>1. ASSUME IInv, NEW p \in Processes, Process(p) PROVE IInv'
  BY <1>1, TypesKept, PlaceKept, PromptKept, HistoryKept DEF IInv
<1>2. ASSUME IInv, Tick \/ UNCHANGED vars PROVE IInv'
  <2>1. UNCHANGED <<sessions, pc, line, now, chosen, session, made, history, moved, ran>>
    BY <1>2 DEF Tick, vars, unused
  <2>2. clock' \in 0..MaxSeconds
    BY <1>2, TypedParts DEF IInv, Tick, vars
  <2>3. TypeOK'
    BY <1>2, <2>1, <2>2 DEF IInv, TypeOK, SessionId
  <2>4. PlaceInv' /\ HistoryInv'
    BY <1>2, <2>1 DEF IInv, PlaceInv, Placed, HistoryInv, Remembered
  <2>5. PromptInv'
    BY <1>2, <2>1 DEF IInv, PromptInv, Prompted, Allowed
  <2>. QED BY <2>3, <2>4, <2>5 DEF IInv
<1>. QED BY <1>1, <1>2 DEF Next

LEMMA InvAlways == Spec => []IInv
  BY InvHoldsAtStart, InvKept, PTL DEF Spec

\* SessionController, main and the interactive session keep their types: a
\* session a process names, runs in or has in its history is in the table.
THEOREM TypeCorrect == Spec => []TypeOK
<1>1. IInv => TypeOK
  BY DEF IInv
<1>. QED BY InvAlways, <1>1, PTL

\* Where main.cpp runs a prompt: in the session it created, unless --continue
\* has resume() look for another, which then is the one named or was created
\* no earlier, whatever other processes insert and touch in between.
THEOREM PromptRunsInItsSession == Spec => []PromptSession
<1>1. IInv => PromptSession
  BY DEF IInv, PromptInv, Prompted, Allowed, PromptSession
<1>. QED BY InvAlways, <1>1, PTL

\* history_ of InteractiveSession holds prompts of the current session only, as
\* long as /resume has not moved the session from under it.
THEOREM HistoryIsOfOneSession == Spec => []HistoryUntilResume
<1>1. IInv => HistoryUntilResume
  BY DEF IInv, HistoryInv, Remembered, HistoryUntilResume
<1>. QED BY InvAlways, <1>1, PTL

-----------------------------------------------------------------------------

(***************************************************************************)
(* Config: the inductive invariant, by concern.                            *)
(***************************************************************************)
\* v is what some entry for s gave, or the default for a blank one.
Gave(entries, s, v) ==
  \/ v \in Values(Readable(entries, s))
  \/ /\ s \in {"data_dir", "default_model"}
     /\ v = "default" /\ "blank" \in Values(Readable(entries, s))

\* While the environment, then the flags are applied, a setting is what one of
\* the entries applied so far gave; a flag takes it from the environment.
TodoInv ==
  /\ phase = "environment" => todo \subseteq env
  /\ phase = "arguments" => todo \subseteq args

EnvironmentInv ==
  phase = "environment" =>
    \A s \in Settings :
      Readable(env \ todo, s) # {} => config[s] \in Values(Readable(env \ todo, s))

ArgumentsInv ==
  phase = "arguments" =>
    \A s \in Settings :
      IF Readable(args \ todo, s) # {}
      THEN config[s] \in Values(Readable(args \ todo, s))
      ELSE Readable(env, s) # {} => Gave(env, s, config[s])

\* Only what can stand in a file comes from the user's; behind the project's
\* file, only what that one blanks.
UserInv ==
  \A s \in Settings : config[s] = "user" =>
    /\ s \in Names
    /\ phase \in {"environment", "arguments", "done"} /\ project # NoFile =>
         s \notin AlwaysMerged /\ project[s] = "blank"

ConfigInv ==
  ConfigTypeOK /\ TodoInv /\ EnvironmentInv /\ ArgumentsInv /\ OverridesWin /\ UserInv

(***************************************************************************)
(* Entries, and what is read of them.                                      *)
(***************************************************************************)
Overrides == {"FLATWHITE_", "LOCALAGENT_", "flag", "blank"}

LEMMA WrittenOverrides ==
  ASSUME NEW s, NEW l \in {"FLATWHITE_", "LOCALAGENT_", "flag"}
  PROVE  Written(s, l) \subseteq Overrides \cup {"junk"}
  BY DEF Written, Overrides

LEMMA EntryParts ==
  ASSUME NEW e \in Entry
  PROVE  e.setting \in Settings /\ e.value \in Overrides \cup {"junk"}
<1>1. PICK l \in {"FLATWHITE_", "LOCALAGENT_"}, s \in Settings \cap InEnvironment :
        e \in [layer : {l}, setting : {s}, value : Written(s, l)]
  <2> DEFINE Of(l, s) == [layer : {l}, setting : {s}, value : Written(s, l)]
  <2> HIDE DEF Of
  <2>1. Entry = UNION {Of(l, s) : l \in {"FLATWHITE_", "LOCALAGENT_"},
                                  s \in Settings \cap InEnvironment}
    BY DEF Entry, Of
  <2>2. \E l \in {"FLATWHITE_", "LOCALAGENT_"}, s \in Settings \cap InEnvironment :
          e \in Of(l, s)
    BY <2>1
  <2>. QED BY <2>2 DEF Of
<1>2. e.setting = s /\ e.value \in Written(s, l)
  BY <1>1
<1>. QED BY <1>2, WrittenOverrides

LEMMA FlagParts ==
  ASSUME NEW e \in Flag
  PROVE  e.setting \in Settings /\ e.value \in Overrides
<1>1. PICK s \in Settings \cap Flags :
        e \in [layer : {"flag"}, setting : {s},
               value : IF s = "fake_model" THEN {"flag"} ELSE {"flag", "blank"}]
  BY DEF Flag
<1>. QED BY <1>1 DEF Overrides

\* An entry that is waiting is about a setting, and says nothing of the user's
\* file.
LEMMA TodoParts ==
  ASSUME ConfigTypeOK, NEW e \in todo
  PROVE  e.setting \in Settings /\ e.value \in Overrides \cup {"junk"}
<1>1. e \in Entry \/ e \in Flag
  BY EnvironmentsAssumption, ArgumentsAssumption DEF ConfigTypeOK
<1>. QED BY <1>1, EntryParts, FlagParts

\* What a file gives, once loaded on top of the defaults.
LEMMA LoadedParts ==
  ASSUME NEW l \in {"user", "project"}, NEW f \in File(l) \cup {NoFile}, NEW s \in Settings
  PROVE  /\ Loaded(f)[s] \in {l, "blank", "default"}
         /\ Loaded(f)[s] = l => s \in Names
         /\ Loaded(f)[s] = "blank" => s = "data_dir" \/ (s \in Names /\ f[s] = "blank")
<1>1. /\ DOMAIN f \subseteq Names
      /\ \A t \in DOMAIN f : f[t] \in {l, "blank", "junk", "absent"}
  BY DEF File, NoFile
<1>2. Loaded(f)[s] = IF s \in DOMAIN f THEN Read(f[s], Default(s)) ELSE Default(s)
  BY DEF Loaded
<1>3. Default(s) = IF s = "data_dir" THEN "blank" ELSE "default"
  BY DEF Default
<1>. QED BY <1>1, <1>2, <1>3 DEF Read

(***************************************************************************)
(* What a step does to the Config.                                         *)
(***************************************************************************)
LEMMA FillParts ==
  ASSUME NEW c \in [Settings -> Value], NEW s, NEW condition \in BOOLEAN
  PROVE  /\ Fill(c, s, condition) \in [Settings -> Value]
         /\ \A t \in Settings :
              \/ Fill(c, s, condition)[t] = c[t]
              \/ t = s /\ c[t] = "blank" /\ Fill(c, s, condition)[t] = "default"
  BY DEF Fill, Value, Layer

\* A blank data directory or model name may have become the default.
Filled ==
  /\ config' \in [Settings -> Value]
  /\ \A t \in Settings :
       \/ config'[t] = config[t]
       \/ /\ t \in {"data_dir", "default_model"}
          /\ config[t] = "blank" /\ config'[t] = "default"

LEMMA FinishFills ==
  ASSUME ConfigTypeOK, FinishFiles \/ Finish
  PROVE  Filled
<1>1. config \in [Settings -> Value]
  BY DEF ConfigTypeOK
<1>2. CASE FinishFiles
  <2> DEFINE with_dir == Fill(config, "data_dir", TRUE)
             mode_set == "default_mode" \notin Settings \/ config["default_mode"] # "blank"
  <2>1. config' = Fill(with_dir, "default_model", mode_set) /\ mode_set \in BOOLEAN
    BY <1>2 DEF FinishFiles
  <2>2. /\ with_dir \in [Settings -> Value]
        /\ \A t \in Settings :
             \/ with_dir[t] = config[t]
             \/ t = "data_dir" /\ config[t] = "blank" /\ with_dir[t] = "default"
    BY <1>1, FillParts
  <2> HIDE DEF with_dir, mode_set
  <2>3. /\ config' \in [Settings -> Value]
        /\ \A t \in Settings :
             \/ config'[t] = with_dir[t]
             \/ t = "default_model" /\ with_dir[t] = "blank" /\ config'[t] = "default"
    BY <2>1, <2>2, FillParts
  <2>. QED BY <2>2, <2>3 DEF Filled
<1>3. CASE Finish
  <2>1. config' = Fill(config, "data_dir", TRUE)
    BY <1>3 DEF Finish
  <2>. QED BY <1>1, <2>1 DEF Fill, Filled, Value, Layer
<1>. QED BY <1>2, <1>3

\* An entry changes its own setting, unless its value is refused.
LEMMA ApplyParts ==
  ASSUME ConfigTypeOK, NEW e \in todo, Apply(e)
  PROVE  /\ config' \in [Settings -> Value] /\ todo' = todo \ {e}
         /\ \A s \in Settings :
              config'[s] = IF e.setting = s /\ e.value # "junk" THEN e.value ELSE config[s]
<1>1. /\ config \in [Settings -> Value] /\ e.setting \in Settings
      /\ e.value \in Overrides \cup {"junk"} /\ Overrides \subseteq Value
  BY TodoParts DEF ConfigTypeOK, Overrides, Value, Layer
<1>2. config' = [config EXCEPT ![e.setting] = Read(e.value, config[e.setting])]
  BY DEF Apply
<1>3. Read(e.value, config[e.setting]) =
        IF e.value = "junk" THEN config[e.setting] ELSE e.value
  BY <1>1 DEF Read, Overrides
<1>. QED BY <1>1, <1>2, <1>3 DEF Apply

\* A file's settings replace those before, where they are not blank ones that
\* merge leaves out.
LEMMA MergeParts ==
  ASSUME ConfigTypeOK, NEW l \in {"user", "project"}, NEW f \in File(l) \cup {NoFile},
         config' = Merge(config, Loaded(f))
  PROVE  /\ config' \in [Settings -> Value]
         /\ \A s \in Settings :
              \/ config'[s] = Loaded(f)[s]
              \/ config'[s] = config[s] /\ s \notin AlwaysMerged /\ Loaded(f)[s] = "blank"
<1>1. config \in [Settings -> Value]
  BY DEF ConfigTypeOK
<1>2. \A s \in Settings : Loaded(f)[s] \in Value
  BY LoadedParts DEF Value, Layer
<1>. QED BY <1>1, <1>2 DEF Merge

LEMMA ConfigTypesKept == ConfigTypeOK /\ TodoInv /\ [ConfigNext]_configVars => ConfigTypeOK'
<1> SUFFICES ASSUME ConfigTypeOK, TodoInv, [ConfigNext]_configVars PROVE ConfigTypeOK'
  OBVIOUS
<1>1. CASE LoadUserFile
  <2>1. config' \in [Settings -> Value]
    BY <1>1, MergeParts DEF LoadUserFile, ConfigTypeOK
  <2>. QED BY <1>1, <2>1 DEF LoadUserFile, ConfigTypeOK, inputs, Phase
<1>2. CASE LoadProjectFile
  <2>1. config' \in [Settings -> Value]
    BY <1>2, MergeParts DEF LoadProjectFile, ConfigTypeOK
  <2>. QED BY <1>2, <2>1 DEF LoadProjectFile, ConfigTypeOK, inputs, Phase
<1>3. CASE LoadThrows
  BY <1>3 DEF LoadThrows, ConfigTypeOK, inputs, Phase
<1>4. CASE ApplyEnvironment \/ ApplyArguments
  <2>1. PICK e \in todo : Apply(e)
    BY <1>4 DEF ApplyEnvironment, ApplyArguments
  <2>2. UNCHANGED <<phase, inputs>>
    BY <1>4 DEF ApplyEnvironment, ApplyArguments
  <2>. QED BY <2>1, <2>2, ApplyParts DEF ConfigTypeOK, inputs
<1>5. CASE FinishFiles \/ Finish
  <2>1. config' \in [Settings -> Value]
    BY <1>5, FinishFills DEF Filled
  <2>. QED BY <1>5, <2>1 DEF FinishFiles, Finish, ConfigTypeOK, inputs, Phase
<1>6. CASE UNCHANGED configVars
  BY <1>6 DEF configVars, ConfigTypeOK
<1>. QED BY <1>1, <1>2, <1>3, <1>4, <1>5, <1>6 DEF ConfigNext

LEMMA TodoKept == TodoInv /\ [ConfigNext]_configVars => TodoInv'
  BY DEF TodoInv, ConfigNext, LoadUserFile, LoadProjectFile, LoadThrows, ApplyEnvironment,
         FinishFiles, ApplyArguments, Finish, Apply, inputs, configVars

(***************************************************************************)
(* The environment and the flags.                                          *)
(***************************************************************************)
\* Applying e to what is waiting: what the entries applied so far gave.
LEMMA GivenStays ==
  ASSUME ConfigTypeOK, NEW entries, todo \subseteq entries, NEW e \in todo, Apply(e),
         NEW s \in Settings, Readable(entries \ todo', s) # {},
         Readable(entries \ todo, s) # {} =>
           config[s] \in Values(Readable(entries \ todo, s))
  PROVE  config'[s] \in Values(Readable(entries \ todo', s))
<1>1. Readable(entries \ todo', s) =
        IF e.setting = s /\ e.value # "junk" THEN Readable(entries \ todo, s) \cup {e}
                                             ELSE Readable(entries \ todo, s)
  <2>1. todo' = todo \ {e}
    BY ApplyParts
  <2>2. Readable(entries \ (todo \ {e}), s) =
          IF e.setting = s /\ e.value # "junk" THEN Readable(entries \ todo, s) \cup {e}
                                               ELSE Readable(entries \ todo, s)
    BY DEF Readable
  <2>. QED BY <2>1, <2>2
<1>2. config'[s] = IF e.setting = s /\ e.value # "junk" THEN e.value ELSE config[s]
  BY ApplyParts
<1>. QED BY <1>1, <1>2 DEF Values

LEMMA EnvironmentKept ==
  ConfigTypeOK /\ TodoInv /\ EnvironmentInv /\ [ConfigNext]_configVars => EnvironmentInv'
<1> SUFFICES ASSUME ConfigTypeOK, TodoInv, EnvironmentInv, [ConfigNext]_configVars, phase' = "environment",
                    NEW s \in Settings, Readable(env' \ todo', s) # {}
             PROVE  config'[s] \in Values(Readable(env' \ todo', s))
  BY DEF EnvironmentInv, Readable, Values
<1>1. CASE ApplyEnvironment
  <2>1. PICK e \in todo : Apply(e)
    BY <1>1 DEF ApplyEnvironment
  <2>2. env' = env /\ todo \subseteq env /\ phase = "environment"
    BY <1>1 DEF ApplyEnvironment, inputs, TodoInv
  <2>. QED BY <2>1, <2>2, GivenStays DEF EnvironmentInv
<1>2. CASE LoadProjectFile
  BY <1>2 DEF LoadProjectFile, inputs, Readable
<1>3. CASE UNCHANGED configVars
  BY <1>3 DEF configVars, EnvironmentInv
<1>. QED BY <1>1, <1>2, <1>3
         DEF ConfigNext, LoadUserFile, LoadThrows, FinishFiles, ApplyArguments, Finish

\* What the environment gave may become the default only where it was blank.
LEMMA FilledGave ==
  ASSUME Filled, NEW entries, NEW s \in Settings, Gave(entries, s, config[s])
  PROVE  Gave(entries, s, config'[s])
  BY DEF Filled, Gave

LEMMA ArgumentsKept ==
  ConfigTypeOK /\ TodoInv /\ EnvironmentInv /\ ArgumentsInv /\ [ConfigNext]_configVars => ArgumentsInv'
<1> DEFINE Right(a, v, s, value) ==
      IF Readable(a \ v, s) # {} THEN value \in Values(Readable(a \ v, s))
                                 ELSE Readable(env, s) # {} => Gave(env, s, value)
<1> SUFFICES ASSUME ConfigTypeOK, TodoInv, EnvironmentInv, ArgumentsInv, [ConfigNext]_configVars,
                    phase' = "arguments"
             PROVE  env' = env /\ \A s \in Settings : Right(args', todo', s, config'[s])
  BY DEF ArgumentsInv, Readable, Values, Gave
<1>1. CASE ApplyArguments
  <2>1. PICK e \in todo : Apply(e)
    BY <1>1 DEF ApplyArguments
  <2>2. env' = env /\ args' = args /\ todo \subseteq args /\ phase = "arguments"
    BY <1>1 DEF ApplyArguments, inputs, TodoInv
  <2>3. ASSUME NEW s \in Settings PROVE Right(args, todo', s, config'[s])
    <3>1. Right(args, todo, s, config[s])
      BY <2>2 DEF ArgumentsInv
    <3>2. CASE Readable(args \ todo', s) # {}
      BY <2>1, <2>2, <3>1, <3>2, GivenStays
    <3>3. CASE Readable(args \ todo', s) = {}
      <4>1. Readable(args \ todo', s) =
              IF e.setting = s /\ e.value # "junk" THEN Readable(args \ todo, s) \cup {e}
                                                   ELSE Readable(args \ todo, s)
        <5>1. todo' = todo \ {e}
          BY <2>1, ApplyParts
        <5>2. Readable(args \ (todo \ {e}), s) =
                IF e.setting = s /\ e.value # "junk"
                THEN Readable(args \ todo, s) \cup {e} ELSE Readable(args \ todo, s)
          BY <2>2 DEF Readable
        <5>. QED BY <5>1, <5>2
      <4>2. config'[s] = config[s] /\ Readable(args \ todo, s) = {}
        BY <2>1, <3>3, <4>1, ApplyParts
      <4>. QED BY <3>1, <3>3, <4>2
    <3>. QED BY <3>2, <3>3
  <2>. QED BY <2>2, <2>3
<1>2. CASE FinishFiles
  <2>1. /\ phase = "environment" /\ todo = {} /\ todo' = args
        /\ env' = env /\ args' = args
    BY <1>2 DEF FinishFiles, inputs
  <2>2. ASSUME NEW s \in Settings PROVE Right(args, args, s, config'[s])
    <3>1. Readable(args \ args, s) = {} /\ env \ {} = env
      BY DEF Readable
    <3>2. Readable(env, s) # {} => Gave(env, s, config[s])
      BY <2>1, <3>1 DEF EnvironmentInv, Gave
    <3>. QED BY <1>2, <3>1, <3>2, FinishFills, FilledGave
  <2>. QED BY <2>1, <2>2
<1>3. CASE UNCHANGED configVars
  BY <1>3 DEF configVars, ArgumentsInv
<1>. QED BY <1>1, <1>2, <1>3
         DEF ConfigNext, LoadUserFile, LoadProjectFile, LoadThrows, ApplyEnvironment, Finish

LEMMA OverridesKept ==
  ConfigTypeOK /\ TodoInv /\ ArgumentsInv /\ OverridesWin /\ [ConfigNext]_configVars => OverridesWin'
<1> DEFINE Given(s) == IF Readable(args, s) # {} THEN Readable(args, s) ELSE Readable(env, s)
           Right(s, value) ==
             Given(s) # {} =>
               \/ value \in Values(Given(s))
               \/ /\ s \in {"data_dir", "default_model"}
                  /\ value = "default" /\ "blank" \in Values(Given(s))
<1> SUFFICES ASSUME ConfigTypeOK, TodoInv, ArgumentsInv, OverridesWin, [ConfigNext]_configVars, phase' = "done"
             PROVE  env' = env /\ args' = args /\ \A s \in Settings : Right(s, config'[s])
  BY DEF OverridesWin, Readable, Values
<1>1. CASE Finish
  <2>1. phase = "arguments" /\ todo = {} /\ env' = env /\ args' = args
    BY <1>1 DEF Finish, inputs
  <2>2. ASSUME NEW s \in Settings PROVE Right(s, config'[s])
    <3>1. args \ todo = args
      BY <2>1
    <3>2. IF Readable(args, s) # {} THEN config[s] \in Values(Readable(args, s))
                                   ELSE Readable(env, s) # {} => Gave(env, s, config[s])
      BY <2>1, <3>1 DEF ArgumentsInv
    <3>3. CASE Readable(args, s) # {}
      <4>1. Gave(args, s, config'[s])
        BY <1>1, <3>2, <3>3, FinishFills, FilledGave DEF Gave
      <4>. QED BY <3>3, <4>1 DEF Gave
    <3>4. CASE Readable(args, s) = {} /\ Readable(env, s) # {}
      <4>1. Gave(env, s, config'[s])
        BY <1>1, <3>2, <3>4, FinishFills, FilledGave
      <4>. QED BY <3>4, <4>1 DEF Gave
    <3>. QED BY <3>3, <3>4
  <2>. QED BY <2>1, <2>2
<1>2. CASE UNCHANGED configVars
  BY <1>2 DEF configVars, OverridesWin
<1>. QED BY <1>1, <1>2
         DEF ConfigNext, LoadUserFile, LoadProjectFile, LoadThrows, ApplyEnvironment,
             FinishFiles, ApplyArguments

(***************************************************************************)
(* The files.                                                              *)
(***************************************************************************)
LEMMA UserKept == ConfigTypeOK /\ UserInv /\ [ConfigNext]_configVars => UserInv'
<1> SUFFICES ASSUME ConfigTypeOK, UserInv, [ConfigNext]_configVars, NEW s \in Settings, config'[s] = "user"
             PROVE  /\ s \in Names
                    /\ phase' \in {"environment", "arguments", "done"} /\ project' # NoFile =>
                         s \notin AlwaysMerged /\ project'[s] = "blank"
  BY DEF UserInv
<1>1. /\ user \in File("user") \cup {NoFile} /\ project \in File("project") \cup {NoFile}
      /\ "data_dir" \notin Names
  BY DEF ConfigTypeOK, Names, InFile, Texts, Numbers, ExecutionConfig, Choices, PermissionsConfig
<1>2. CASE LoadUserFile
  <2>1. s \in Names
    BY <1>1, <1>2, MergeParts, LoadedParts DEF LoadUserFile, UserInv
  <2>. QED BY <1>2, <2>1 DEF LoadUserFile
<1>3. CASE LoadProjectFile
  <2>1. CASE project = NoFile
    BY <1>3, <2>1 DEF LoadProjectFile, UserInv, inputs
  <2>2. CASE project # NoFile
    <3>1. /\ project' = project
          /\ \/ "user" = Loaded(project)[s]
             \/ config[s] = "user" /\ s \notin AlwaysMerged /\ Loaded(project)[s] = "blank"
      BY <1>1, <1>3, <2>2, MergeParts DEF LoadProjectFile, inputs
    <3>2. Loaded(project)[s] # "user"
      BY <1>1, LoadedParts
    <3>3. s \in Names
      BY <3>1, <3>2 DEF UserInv
    <3>4. project[s] = "blank"
      BY <1>1, <3>1, <3>2, <3>3, LoadedParts
    <3>. QED BY <3>1, <3>2, <3>3, <3>4
  <2>. QED BY <2>1, <2>2
<1>4. CASE ApplyEnvironment \/ ApplyArguments
  <2>1. PICK e \in todo : Apply(e)
    BY <1>4 DEF ApplyEnvironment, ApplyArguments
  <2>2. config[s] = "user" /\ UNCHANGED <<phase, project>>
    BY <1>4, <2>1, ApplyParts, TodoParts
       DEF ApplyEnvironment, ApplyArguments, inputs, Overrides
  <2>. QED BY <2>2 DEF UserInv
<1>5. CASE FinishFiles \/ Finish
  <2>1. config[s] = "user" /\ project' = project
        /\ phase \in {"environment", "arguments"}
    BY <1>5, FinishFills DEF Filled, FinishFiles, Finish, inputs
  <2>. QED BY <2>1 DEF UserInv
<1>6. CASE LoadThrows
  BY <1>6 DEF LoadThrows, UserInv, inputs
<1>7. CASE UNCHANGED configVars
  BY <1>7 DEF configVars, UserInv
<1>. QED BY <1>2, <1>3, <1>4, <1>5, <1>6, <1>7 DEF ConfigNext

(***************************************************************************)
(* The theorems.                                                           *)
(***************************************************************************)
LEMMA ConfigInvAtStart == ConfigInit => ConfigInv
<1> SUFFICES ASSUME ConfigInit PROVE ConfigInv
  OBVIOUS
<1> USE DEF ConfigInit
<1>1. \A s \in Settings : config[s] = Default(s) /\ Default(s) \in {"blank", "default"}
  BY DEF DefaultConfig, Default
<1>2. config \in [Settings -> Value]
  BY <1>1 DEF DefaultConfig, Value, Layer
<1>3. ConfigTypeOK
  BY <1>2 DEF ConfigTypeOK, Phase
<1>4. TodoInv /\ EnvironmentInv /\ ArgumentsInv /\ OverridesWin
  BY DEF TodoInv, EnvironmentInv, ArgumentsInv, OverridesWin
<1>5. UserInv
  BY <1>1 DEF UserInv
<1>. QED BY <1>3, <1>4, <1>5 DEF ConfigInv

LEMMA ConfigInvAlways == ConfigSpec => []ConfigInv
<1>1. ConfigInv /\ [ConfigNext]_configVars => ConfigInv'
  BY ConfigTypesKept, TodoKept, EnvironmentKept, ArgumentsKept, OverridesKept, UserKept DEF ConfigInv
<1>. QED BY ConfigInvAtStart, <1>1, PTL DEF ConfigSpec

\* load_config keeps its types: text that parse_number, parse_bool or
\* parse_policy_or refuses never reaches a setting.
THEOREM ConfigTypeCorrect == ConfigSpec => []ConfigTypeOK
<1>1. ConfigInv => ConfigTypeOK
  BY DEF ConfigInv
<1>. QED BY ConfigInvAlways, <1>1, PTL

\* load_config applies the environment after both files and the flags after
\* that: a setting that a flag gives is a flag's, and else one that the
\* environment gives is the environment's, whatever the files say, in whatever
\* order the entries come; but for a blank data directory or model name.
THEOREM OverridesHaveTheLastWord == ConfigSpec => []OverridesWin
<1>1. ConfigInv => OverridesWin
  BY DEF ConfigInv
<1>. QED BY ConfigInvAlways, <1>1, PTL

\* merge() copies what load_toml_file made of the project's file, defaults
\* included: nothing of the user's file is left, but where the project's file
\* blanks a setting that merge copies only when it is not blank.
THEOREM ProjectFileReplaces == ConfigSpec => []ProjectFileReplacesUserFile
<1>1. ConfigInv => ProjectFileReplacesUserFile
  BY DEF ConfigInv, UserInv, ProjectFileReplacesUserFile
<1>. QED BY ConfigInvAlways, <1>1, PTL
====
