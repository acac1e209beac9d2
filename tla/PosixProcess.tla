---- MODULE PosixProcess ----
(***************************************************************************)
(* run_process: one command, from the pipes to the ProcessResult. The      *)
(* caller's thread polls two pipes, a deadline and a token; the command is *)
(* a leader process and the helpers it forks, which inherit its pipes and, *)
(* unless they leave it, its process group.                                *)
(***************************************************************************)
EXTENDS Naturals, FiniteSets

CONSTANTS
  Helpers,     \* processes the command may fork
  PipeSize,    \* what a pipe buffers
  MaxOutput    \* what the command may write to each of its outputs

ASSUME BoundsAssumption ==
  PipeSize \in Nat \ {0} /\ MaxOutput \in Nat /\ "leader" \notin Helpers

VARIABLES
  timed,       \* spec.timeout_ms > 0
  cancelled,   \* the token's flag
  expired,     \* steady_clock has passed the deadline
  pc,          \* where run_process is
  fd,          \* the output it is reading
  opened,      \* stdout_open, stderr_open
  revents,     \* what poll reported of each output
  fds,         \* descriptors of the two pipes the caller has open
  result,      \* the ProcessResult, but for the output
  proc,        \* each process: unborn, alive, or dead
  held,        \* the outputs whose write end it has open
  group,       \* the processes in the leader's group
  status,      \* what waitpid will report of the leader
  reaped,      \* waitpid has reported it
  stray,       \* a signal went to the leader's pid after it was reaped
  buffered,    \* what each pipe holds
  left         \* what the command has not written yet

caller == <<pc, fd, opened, revents, fds, result, reaped, stray>>
command == <<proc, held, group, status, left>>
vars == <<timed, cancelled, expired, caller, command, buffered>>

Outputs == {"stdout", "stderr"}
Processes == Helpers \cup {"leader"}
Descriptors == [output : Outputs, end : {"read", "write"}]
Ends(outputs, end) == {[output |-> o, end |-> end] : o \in outputs}
ExitCode == {"none", "zero", "nonzero"}   \* none: the initial -1
PC == {"start", "fork", "loop", "poll", "read", "wait", "term", "kill",
       "drain", "close", "lastwait", "returned"}

Alive(p) == proc[p] = "alive"
Held == UNION {held[p] : p \in Processes}

Init ==
  /\ timed \in BOOLEAN
  /\ cancelled = FALSE /\ expired = FALSE
  /\ pc = "start" /\ fd = "stdout"
  /\ opened = Outputs
  /\ revents = [o \in Outputs |-> {}]
  /\ fds = {}
  /\ result = [exit_code |-> "none", timed_out |-> FALSE, cancelled |-> FALSE,
               poll_failed |-> FALSE]
  /\ proc = [p \in Processes |-> "unborn"]
  /\ held = [p \in Processes |-> {}]
  /\ group = {}
  /\ status = "none" /\ reaped = FALSE /\ stray = FALSE
  /\ buffered = [o \in Outputs |-> 0]
  /\ left = [o \in Outputs |-> MaxOutput]

(***************************************************************************)
(* The surroundings: the clock, the token, and the command's processes.    *)
(***************************************************************************)
Expire ==
  /\ timed /\ ~expired /\ pc \notin {"start", "fork", "returned"}
  /\ expired' = TRUE
  /\ UNCHANGED <<timed, cancelled, caller, command, buffered>>

Cancel ==
  /\ ~cancelled /\ pc # "returned"
  /\ cancelled' = TRUE
  /\ UNCHANGED <<timed, expired, caller, command, buffered>>

\* A helper may be started with its outputs redirected, and as a daemon.
ForkHelper(p, h) ==
  /\ Alive(p) /\ proc[h] = "unborn"
  /\ proc' = [proc EXCEPT ![h] = "alive"]
  /\ \E outputs \in SUBSET held[p] : held' = [held EXCEPT ![h] = outputs]
  /\ group' \in {group, IF p \in group THEN group \cup {h} ELSE group}
  /\ UNCHANGED <<timed, cancelled, expired, caller, status, left, buffered>>

Write(p, o) ==
  /\ Alive(p) /\ o \in held[p]
  /\ left[o] > 0 /\ buffered[o] < PipeSize
  /\ Ends({o}, "read") \subseteq fds
  /\ buffered' = [buffered EXCEPT ![o] = @ + 1]
  /\ left' = [left EXCEPT ![o] = @ - 1]
  /\ UNCHANGED <<timed, cancelled, expired, caller, proc, held, group, status>>

\* The processes in dead die; the leader, if among them, with exit code code.
Die(dead, code) ==
  /\ proc' = [p \in Processes |-> IF p \in dead THEN "dead" ELSE proc[p]]
  /\ held' = [p \in Processes |-> IF p \in dead THEN {} ELSE held[p]]
  /\ group' = group \ dead
  /\ status' = IF "leader" \in dead THEN code ELSE status

\* Also a chdir, dup2 or exec that fails: the child ends with 126 or 127.
Exit(p) ==
  /\ Alive(p)
  /\ \E code \in {"zero", "nonzero"} : Die({p}, code)
  /\ UNCHANGED <<timed, cancelled, expired, caller, left, buffered>>

Command ==
  \E p \in Processes :
    \/ \E h \in Helpers : ForkHelper(p, h)
    \/ \E o \in Outputs : Write(p, o)
    \/ Exit(p)

(***************************************************************************)
(* run_process up to the fork.                                             *)
(***************************************************************************)
\* No argv; a cancelled token, which the result tells; PTY mode; no executable.
Refuse ==
  /\ pc = "start"
  /\ pc' = "returned"
  /\ result' \in {result, [result EXCEPT !.cancelled = cancelled]}
  /\ UNCHANGED <<timed, cancelled, expired, fd, opened, revents, fds, reaped,
                 stray, command, buffered>>

\* Both pipes are tried; with one of them missing nobody closes the other.
MakePipes ==
  /\ pc = "start" /\ ~cancelled
  /\ \E made \in SUBSET Outputs :
       /\ fds' = Ends(made, "read") \cup Ends(made, "write")
       /\ pc' = IF made = Outputs THEN "fork" ELSE "returned"
  /\ UNCHANGED <<timed, cancelled, expired, fd, opened, revents, result, reaped,
                 stray, command, buffered>>

ForkFails ==
  /\ pc = "fork"
  /\ fds' = {}
  /\ pc' = "returned"
  /\ UNCHANGED <<timed, cancelled, expired, fd, opened, revents, result, reaped,
                 stray, command, buffered>>

\* mutant: the caller keeps its write ends open
ForkKeepsWriteEnds ==
  /\ pc = "fork"
  /\ proc' = [proc EXCEPT !["leader"] = "alive"]
  /\ held' = [held EXCEPT !["leader"] = Outputs]
  /\ group' = {"leader"}
  /\ pc' = "loop"
  /\ UNCHANGED <<timed, cancelled, expired, fd, opened, revents, fds, result,
                 reaped, stray, status, left, buffered>>

\* The child leads its own group before either side goes on: both sides set it.
Fork ==
  /\ pc = "fork"
  /\ proc' = [proc EXCEPT !["leader"] = "alive"]
  /\ held' = [held EXCEPT !["leader"] = Outputs]
  /\ group' = {"leader"}
  /\ fds' = Ends(Outputs, "read")
  /\ pc' = "loop"
  /\ UNCHANGED <<timed, cancelled, expired, fd, opened, revents, result, reaped,
                 stray, status, left, buffered>>

(***************************************************************************)
(* The loop, until the child has exited and both outputs are closed.       *)
(***************************************************************************)
Running == ~reaped \/ opened # {}

Step(here) ==
  /\ pc = here
  /\ UNCHANGED <<timed, cancelled, expired>>

StopOnToken ==
  /\ Step("loop") /\ Running /\ cancelled
  /\ result' = [result EXCEPT !.cancelled = TRUE]
  /\ pc' = "term"
  /\ UNCHANGED <<fd, opened, revents, fds, reaped, stray, command, buffered>>

StopOnDeadline ==
  /\ Step("loop") /\ Running /\ ~cancelled /\ expired
  /\ result' = [result EXCEPT !.timed_out = TRUE]
  /\ pc' = "term"
  /\ UNCHANGED <<fd, opened, revents, fds, reaped, stray, command, buffered>>

GoOn ==
  /\ Step("loop") /\ Running /\ ~cancelled /\ ~expired
  /\ pc' = "poll"
  /\ UNCHANGED <<fd, opened, revents, fds, result, reaped, stray, command, buffered>>

LeaveLoop ==
  /\ Step("loop") /\ ~Running
  /\ pc' = "drain" /\ fd' = "stdout"
  /\ UNCHANGED <<opened, revents, fds, result, reaped, stray, command, buffered>>

\* mutant: stderr is not polled before stdout has been closed
PolledStdoutFirst == IF "stdout" \in opened THEN {"stdout"} ELSE opened

\* Every output still open is polled.
Polled == opened

Events(o) ==
  {event \in {"in", "hup"} :
     \/ event = "in" /\ buffered[o] > 0
     \/ event = "hup" /\ o \notin Held /\ fds \cap Ends({o}, "write") = {}}

\* mutant: poll waits without a timeout
PollBlocks ==
  /\ Step("poll")
  /\ opened = {} \/ \E o \in opened : Events(o) # {}
  /\ revents' = [o \in Outputs |-> IF o \in Polled THEN Events(o) ELSE {}]
  /\ pc' = "read" /\ fd' = "stdout"
  /\ UNCHANGED <<opened, fds, result, reaped, stray, command, buffered>>

\* poll returns what it saw, or its 50 ms are over and it saw nothing.
Poll ==
  /\ Step("poll")
  /\ revents' = [o \in Outputs |-> IF o \in Polled THEN Events(o) ELSE {}]
  /\ pc' = "read" /\ fd' = "stdout"
  /\ UNCHANGED <<opened, fds, result, reaped, stray, command, buffered>>

\* A signal interrupts poll: no events.
PollInterrupted ==
  /\ Step("poll") /\ opened # {}
  /\ revents' = [o \in Outputs |-> {}]
  /\ pc' = "read" /\ fd' = "stdout"
  /\ UNCHANGED <<opened, fds, result, reaped, stray, command, buffered>>

PollFails ==
  /\ Step("poll") /\ opened # {}
  /\ result' = [result EXCEPT !.poll_failed = TRUE]
  /\ pc' = "term"
  /\ UNCHANGED <<fd, opened, revents, fds, reaped, stray, command, buffered>>

\* read_available: a chunk at a time, until the pipe is empty. The writers do
\* not wait for it.
ReadChunk ==
  /\ pc = "drain" \/ (pc = "read" /\ revents[fd] # {})
  /\ buffered[fd] > 0
  /\ buffered' = [buffered EXCEPT ![fd] = 0]
  /\ UNCHANGED <<timed, cancelled, expired, caller, command>>

NextOutput(phase) ==
  IF fd = "stdout" THEN fd' = "stderr" /\ UNCHANGED pc
                   ELSE pc' = phase /\ UNCHANGED fd

\* mutant: an empty pipe is taken for its end
ReadEndsAtEmpty ==
  /\ Step("read")
  /\ buffered[fd] = 0 \/ revents[fd] = {}
  /\ opened' = IF revents[fd] # {} THEN opened \ {fd} ELSE opened
  /\ NextOutput("wait")
  /\ UNCHANGED <<revents, fds, result, reaped, stray, command, buffered>>

\* The pipe is empty, or poll reported nothing of it.
ReadEnds ==
  /\ Step("read")
  /\ buffered[fd] = 0 \/ revents[fd] = {}
  /\ opened' = IF "hup" \in revents[fd] THEN opened \ {fd} ELSE opened
  /\ NextOutput("wait")
  /\ UNCHANGED <<revents, fds, result, reaped, stray, command, buffered>>

\* waitpid with WNOHANG.
Wait ==
  /\ Step("wait")
  /\ IF status # "none" /\ ~reaped
     THEN reaped' = TRUE /\ result' = [result EXCEPT !.exit_code = status]
     ELSE UNCHANGED <<reaped, result>>
  /\ pc' = "loop"
  /\ UNCHANGED <<fd, opened, revents, fds, stray, command, buffered>>

(***************************************************************************)
(* kill_process_group: the group is looked up through the leader's pid.    *)
(***************************************************************************)
\* mutant: the leader alone is signalled
TargetsLeaderOnly == IF reaped THEN {} ELSE {"leader"} \cap group

\* getpgid fails once the leader is reaped, and the signals go to its old pid.
Targets == IF reaped THEN {} ELSE group

\* SIGTERM: some die of it, others handle or ignore it. Then 50 ms.
Terminate ==
  /\ Step("term")
  /\ \E dead \in SUBSET Targets : Die(dead, "nonzero")
  /\ stray' = reaped
  /\ pc' = "kill"
  /\ UNCHANGED <<fd, opened, revents, fds, result, reaped, left, buffered>>

Kill ==
  /\ Step("kill")
  /\ Die(Targets, "nonzero")
  /\ pc' = "drain" /\ fd' = "stdout"
  /\ UNCHANGED <<opened, revents, fds, result, reaped, stray, left, buffered>>

(***************************************************************************)
(* After the loop.                                                         *)
(***************************************************************************)
DrainEnds ==
  /\ Step("drain") /\ buffered[fd] = 0
  /\ NextOutput("close")
  /\ UNCHANGED <<opened, revents, fds, result, reaped, stray, command, buffered>>

\* mutant: the exit code of a command that was stopped is not asked for
CloseAndReturn ==
  /\ Step("close")
  /\ fds' = {}
  /\ pc' = "returned"
  /\ UNCHANGED <<fd, opened, revents, result, reaped, stray, command, buffered>>

Close ==
  /\ Step("close")
  /\ fds' = {}
  /\ pc' = IF result.exit_code = "none" THEN "lastwait" ELSE "returned"
  /\ UNCHANGED <<fd, opened, revents, result, reaped, stray, command, buffered>>

\* waitpid that blocks until the leader is dead.
LastWait ==
  /\ Step("lastwait") /\ status # "none"
  /\ reaped' = TRUE /\ result' = [result EXCEPT !.exit_code = status]
  /\ pc' = "returned"
  /\ UNCHANGED <<fd, opened, revents, fds, stray, command, buffered>>

RunProcess ==
  \/ Refuse \/ MakePipes \/ ForkFails \/ Fork
  \/ StopOnToken \/ StopOnDeadline \/ GoOn \/ LeaveLoop
  \/ Poll \/ ReadChunk \/ ReadEnds \/ Wait
  \/ Terminate \/ Kill \/ DrainEnds \/ Close \/ LastWait

Next ==
  \/ RunProcess \/ PollInterrupted \/ PollFails
  \/ Command \/ Expire \/ Cancel

Spec == Init /\ [][Next]_vars

\* The caller's thread is scheduled; poll and waitpid(WNOHANG) return.
FairSpec == Spec /\ WF_vars(RunProcess)

\* A process whose output is all written exits, and one that can write does.
\* Nothing makes a process exit before that. Signals do not interrupt every poll.
Written(p) == \A o \in held[p] : left[o] = 0
CommandEnds ==
  \A p \in Processes :
    /\ WF_vars(Exit(p) /\ Written(p))
    /\ \A o \in Outputs : WF_vars(Write(p, o))

(***************************************************************************)
(* Properties.                                                             *)
(***************************************************************************)

\* Every variable stays in its type; from the fork on the caller has the read
\* ends of the pipes only.
TypeOK ==
  /\ timed \in BOOLEAN /\ cancelled \in BOOLEAN /\ expired \in BOOLEAN
  /\ pc \in PC /\ fd \in Outputs
  /\ opened \subseteq Outputs
  /\ revents \in [Outputs -> SUBSET {"in", "hup"}]
  /\ fds \subseteq Descriptors
  /\ pc \notin {"start", "fork", "lastwait", "returned"} => fds = Ends(Outputs, "read")
  /\ result \in [exit_code : ExitCode, timed_out : BOOLEAN,
                 cancelled : BOOLEAN, poll_failed : BOOLEAN]
  /\ proc \in [Processes -> {"unborn", "alive", "dead"}]
  /\ held \in [Processes -> SUBSET Outputs]
  /\ group \subseteq Processes
  /\ status \in ExitCode
  /\ reaped \in BOOLEAN /\ stray \in BOOLEAN
  /\ buffered \in [Outputs -> 0..PipeSize]
  /\ left \in [Outputs -> 0..MaxOutput]

Stopped == result.timed_out \/ result.cancelled \/ result.poll_failed

\* A command that was not stopped is reported with all it wrote: nothing is
\* left in the pipes, and no process can write more.
OutputComplete ==
  pc = "returned" /\ proc["leader"] # "unborn" /\ ~Stopped =>
    Held = {} /\ \A o \in Outputs : buffered[o] = 0

\* However run_process ends, a leader it forked is dead and reaped, no zombie
\* is left behind, and the exit code told is the leader's own.
LeaderReaped ==
  pc = "returned" /\ proc["leader"] # "unborn" =>
    /\ proc["leader"] = "dead" /\ reaped
    /\ result.exit_code = status

\* Stopping a command stops its whole group, but for one case: the leader was
\* already reaped while a helper still held an output. Then the signals go to
\* a pid that is no longer the command's, and the helper outlives the call.
GroupStopped ==
  /\ pc = "returned" /\ Stopped /\ group # {} => stray
  /\ stray => reaped /\ opened # {}

\* Every descriptor is closed on return, unless only one of the two pipes
\* could be made: that one leaks.
DescriptorsClosed ==
  pc = "returned" /\ fds # {} =>
    /\ proc["leader"] = "unborn"
    /\ \E o \in Outputs : fds = Ends({o}, "read") \cup Ends({o}, "write")

\* The call leaves nothing behind in its own process.
NothingLeftBehind == LeaderReaped /\ DescriptorsClosed

\* A deadline that passes or a token that is cancelled ends the call, whatever
\* the command does, provided it does not write forever.
StopEnds == (expired \/ cancelled) ~> pc = "returned"

\* A command that ends by itself ends the call: the two outputs are read in
\* turn, so that neither full pipe blocks the command for ever.
CommandEndEndsCall ==
  CommandEnds /\ SF_vars(Poll) => (pc = "loop" ~> pc = "returned")
====
