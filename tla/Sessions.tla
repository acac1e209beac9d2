---- MODULE Sessions ----
(***************************************************************************)
(* The sessions of a data directory and the processes that use them: the   *)
(* one-shot commands of main.cpp and the interactive session, both through *)
(* SessionController, whose store is one SQLite table. Processes run side  *)
(* by side; a statement is atomic, a command of several is not. A session  *)
(* is known by its place in the order of insertion.                        *)
(***************************************************************************)
EXTENDS Naturals, Sequences, FiniteSets

CONSTANTS
  Processes,
  CommandLines,   \* what a process may be started with
  MaxSessions,    \* most sessions ever created
  MaxSeconds,     \* how far the clock goes
  MaxPrompts      \* most prompts of one interactive process

\* What CommandRouter::parse looks at: the first word, the id that follows
\* "sessions resume", --continue, -p, and a word that is no option.
CommandLine ==
  [first : {"mode", "sessions resume", "models list", "option", "nothing"},
   id : 0..MaxSessions, continue : BOOLEAN, dash_p : BOOLEAN, word : BOOLEAN]

ASSUME SessionsAssumption ==
  /\ MaxSessions \in Nat /\ MaxSeconds \in Nat /\ MaxPrompts \in Nat
  /\ CommandLines \subseteq CommandLine

VARIABLES
  clock,     \* in seconds, as the timestamps are
  sessions,  \* the table, in order of insertion
  pc,        \* where each process is
  line,      \* its command line
  now,       \* the timestamp it holds
  chosen,    \* the session it is resuming
  session,   \* its session_id
  made,      \* the session it created last
  history,   \* the interactive session's history_: the session of each prompt
  moved,     \* it has resumed a session since history_ was last empty
  ran        \* the session a one-shot command ran its prompt in

vars == <<clock, sessions, pc, line, now, chosen, session, made, history, moved,
          ran>>
unused == <<line, history, moved, ran>>

PC == {"off", "create", "created", "resume", "touch", "ready", "interactive",
       "ended", "aborted"}
SessionId == 1..Len(sessions)
None == 0

(***************************************************************************)
(* The command.                                                            *)
(***************************************************************************)
\* -p turns whatever the first word asked for into a prompt.
Kind(l) ==
  CASE l.dash_p -> "Prompt"
    [] ~l.dash_p /\ l.first = "sessions resume" -> "SessionsResume"
    [] ~l.dash_p /\ l.first = "models list" -> "ModelsList"
    [] ~l.dash_p /\ l.first \in {"option", "nothing"} -> "Interactive"
    [] OTHER -> "Mode"

HasPrompt(l) ==
  l.dash_p \/ (l.word /\ l.first \notin {"sessions resume", "models list"})

WantsResume(l) == l.continue \/ Kind(l) = "SessionsResume"

Init ==
  /\ clock = 0
  /\ sessions = <<>>
  /\ pc = [p \in Processes |-> "off"]
  /\ line \in [Processes -> CommandLines]
  /\ now = [p \in Processes |-> 0]
  /\ chosen = [p \in Processes |-> None]
  /\ session = [p \in Processes |-> None]
  /\ made = [p \in Processes |-> None]
  /\ history = [p \in Processes |-> <<>>]
  /\ moved = [p \in Processes |-> FALSE]
  /\ ran = [p \in Processes |-> None]

Tick ==
  /\ clock < MaxSeconds
  /\ clock' = clock + 1
  /\ UNCHANGED <<sessions, pc, now, chosen, session, made, unused>>

(***************************************************************************)
(* SessionController::create: the time is read, then the row inserted.     *)
(***************************************************************************)
ReadClock(p, next) ==
  /\ now' = [now EXCEPT ![p] = clock]
  /\ pc' = [pc EXCEPT ![p] = next]

Created(p) == IF Kind(line[p]) = "Interactive" THEN "interactive" ELSE "created"

Start(p) ==
  /\ pc[p] = "off"
  /\ ReadClock(p, "create")
  /\ UNCHANGED <<clock, sessions, chosen, session, made, unused>>

\* mutant: /new keeps the prompts of the session before
InsertKeepsHistory(p) ==
  /\ pc[p] = "create" /\ Len(sessions) < MaxSessions
  /\ sessions' = Append(sessions, [created |-> now[p], updated |-> now[p]])
  /\ session' = [session EXCEPT ![p] = Len(sessions')]
  /\ made' = [made EXCEPT ![p] = Len(sessions')]
  /\ now' = [now EXCEPT ![p] = 0]
  /\ moved' = [moved EXCEPT ![p] = FALSE]
  /\ pc' = [pc EXCEPT ![p] = Created(p)]
  /\ UNCHANGED <<clock, chosen, line, history, ran>>

\* The session's history starts empty.
Insert(p) ==
  /\ pc[p] = "create" /\ Len(sessions) < MaxSessions
  /\ sessions' = Append(sessions, [created |-> now[p], updated |-> now[p]])
  /\ session' = [session EXCEPT ![p] = Len(sessions')]
  /\ made' = [made EXCEPT ![p] = Len(sessions')]
  /\ now' = [now EXCEPT ![p] = 0]
  /\ history' = [history EXCEPT ![p] = <<>>]
  /\ moved' = [moved EXCEPT ![p] = FALSE]
  /\ pc' = [pc EXCEPT ![p] = Created(p)]
  /\ UNCHANGED <<clock, chosen, line, ran>>

(***************************************************************************)
(* SessionController::resume.                                              *)
(***************************************************************************)
\* mutant: the oldest session comes first
LatestIsOldest ==
  {i \in SessionId : \A j \in SessionId : sessions[i].created <= sessions[j].created}

\* list_sessions(1): the latest by created_at; of several in one second, any.
Latest ==
  {i \in SessionId : \A j \in SessionId : sessions[j].created <= sessions[i].created}

\* mutant: the id is not looked up
FoundUnchecked(id) ==
  IF id # None THEN {id} ELSE Latest

\* Which session is found for an id, or for none, with latest_if_missing.
Found(id) ==
  IF id # None THEN {id} \cap SessionId ELSE Latest

After(p) == IF Kind(line[p]) = "Interactive" THEN "interactive" ELSE "ready"

\* The session is selected, and the time read for touch_session.
Select(p, id) ==
  IF Found(id) = {}
  THEN pc' = [pc EXCEPT ![p] = After(p)] /\ UNCHANGED <<chosen, now>>
  ELSE /\ \E found \in Found(id) : chosen' = [chosen EXCEPT ![p] = found]
       /\ ReadClock(p, "touch")

Touch(p) ==
  /\ pc[p] = "touch"
  /\ sessions' = [sessions EXCEPT ![chosen[p]].updated = now[p]]
  /\ session' = [session EXCEPT ![p] = chosen[p]]
  /\ pc' = [pc EXCEPT ![p] = After(p)]
  /\ moved' = [moved EXCEPT ![p] = After(p) = "interactive"]
  /\ now' = [now EXCEPT ![p] = 0]
  /\ chosen' = [chosen EXCEPT ![p] = None]
  /\ UNCHANGED <<clock, made, line, history, ran>>

(***************************************************************************)
(* main.cpp after the session was created.                                 *)
(***************************************************************************)
Resume(p) ==
  /\ pc[p] = "created"
  /\ IF WantsResume(line[p])
     THEN Select(p, IF line[p].first = "sessions resume" THEN line[p].id ELSE None)
     ELSE pc' = [pc EXCEPT ![p] = "ready"] /\ UNCHANGED <<chosen, now>>
  /\ UNCHANGED <<clock, sessions, session, made, unused>>

\* The run, or the way out without one: a list of models, no prompt.
RunOnce(p) ==
  /\ pc[p] = "ready"
  /\ pc' = [pc EXCEPT ![p] = "ended"]
  /\ ran' = [ran EXCEPT ![p] = IF HasPrompt(line[p]) THEN session[p] ELSE None]
  /\ UNCHANGED <<clock, sessions, now, chosen, session, made, line, history, moved>>

(***************************************************************************)
(* InteractiveSession::run.                                                *)
(***************************************************************************)
RunPrompt(p) ==
  /\ pc[p] = "interactive" /\ Len(history[p]) < MaxPrompts
  /\ history' = [history EXCEPT ![p] = Append(@, session[p])]
  /\ UNCHANGED <<clock, sessions, pc, now, chosen, session, made, line, moved, ran>>

\* /new creates a session the same way.
NewSession(p) ==
  /\ pc[p] = "interactive"
  /\ ReadClock(p, "create")
  /\ UNCHANGED <<clock, sessions, chosen, session, made, unused>>

\* /resume with an id, known or not, or without one. history_ is left alone.
ResumeCommand(p) ==
  /\ pc[p] = "interactive"
  /\ \E id \in 0..MaxSessions : Select(p, id)
  /\ UNCHANGED <<clock, sessions, session, made, unused>>

Quit(p) ==
  /\ pc[p] = "interactive"
  /\ pc' = [pc EXCEPT ![p] = "ended"]
  /\ UNCHANGED <<clock, sessions, now, chosen, session, made, unused>>

\* A statement throws, the database being locked by another process for one:
\* nothing catches it, one-shot or interactive.
StoreThrows(p) ==
  /\ pc[p] \in {"create", "created", "touch", "interactive"}
  /\ pc' = [pc EXCEPT ![p] = "aborted"]
  /\ UNCHANGED <<clock, sessions, now, chosen, session, made, unused>>

Process(p) ==
  \/ Start(p) \/ Insert(p) \/ Resume(p) \/ Touch(p) \/ RunOnce(p)
  \/ RunPrompt(p) \/ NewSession(p) \/ ResumeCommand(p) \/ Quit(p)
  \/ StoreThrows(p)

Next == Tick \/ \E p \in Processes : Process(p)

Spec == Init /\ [][Next]_vars

(***************************************************************************)
(* Properties.                                                             *)
(***************************************************************************)

\* Every variable stays in its type; a session a process names exists.
TypeOK ==
  /\ clock \in 0..MaxSeconds
  /\ sessions \in Seq([created : 0..MaxSeconds, updated : 0..MaxSeconds])
  /\ pc \in [Processes -> PC]
  /\ line \in [Processes -> CommandLines]
  /\ now \in [Processes -> 0..MaxSeconds]
  /\ {chosen, session, made, ran} \subseteq [Processes -> SessionId \cup {None}]
  /\ history \in [Processes -> Seq(SessionId)]
  /\ moved \in [Processes -> BOOLEAN]

\* Which session a prompt runs in, whatever other processes create and resume
\* meanwhile. Without --continue it is the one its command has just made, even if
\* the command names another ("sessions resume" with -p is read as a prompt).
\* With --continue it is one created no earlier than the one just made: the
\* sessions of commands that ended before are out of its reach.
PromptSession ==
  \A p \in Processes : ran[p] # None =>
    \/ ran[p] = made[p]
    \/ /\ line[p].continue
       /\ \/ line[p].first = "sessions resume" /\ ran[p] = line[p].id
          \/ sessions[ran[p]].created >= sessions[made[p]].created

\* /history shows prompts of the current session only, until a session is
\* resumed; from then on it mixes sessions up to the next /new.
HistoryUntilResume ==
  \A p \in Processes :
    ~moved[p] => \A i \in DOMAIN history[p] : history[p][i] = session[p]
====
