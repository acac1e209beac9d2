---- MODULE PosixProcessProofs ----
(***************************************************************************)
(* What run_process leaves behind, for any number of helpers, any pipe and *)
(* any output: its types, the leader and the descriptors, the group of a   *)
(* command that was stopped, and the output of one that was not.           *)
(***************************************************************************)
EXTENDS PosixProcess, TLAPS

(***************************************************************************)
(* The inductive invariant, by concern.                                    *)
(***************************************************************************)
\* Before the fork there is no process, no descriptor but those of the pipes,
\* and nothing has been seen of an output.
BeforeFork == pc \in {"start", "fork"}

Unforked ==
  /\ \A p \in Processes : proc[p] = "unborn" /\ held[p] = {}
  /\ group = {} /\ status = "none" /\ ~reaped

ForkInv ==
  /\ BeforeFork =>
       /\ Unforked /\ opened = Outputs
       /\ \A o \in Outputs : revents[o] = {} /\ buffered[o] = 0
  /\ proc["leader"] = "unborn" => Unforked /\ pc \in {"start", "fork", "returned"}
  /\ pc \in {"start", "lastwait"} => fds = {}
  /\ DescriptorsClosed

\* The leader's status is there when it is dead, and told once it is reaped.
LeaderInv ==
  /\ proc["leader"] = "dead" <=> status # "none"
  /\ result.exit_code = IF reaped THEN status ELSE "none"
  /\ reaped => status # "none"
  /\ pc = "returned" /\ proc["leader"] # "unborn" => reaped

\* run_process is on its way out; it is so because it stops the command.
Leaving == {"drain", "close", "lastwait", "returned"}
Stopping == {"term", "kill"}

StopInv ==
  /\ pc \notin Stopping \cup Leaving => ~Stopped
  /\ pc \in Stopping => Stopped
  /\ pc \notin Leaving \cup {"kill"} => ~stray
  /\ pc = "kill" => stray = reaped
  /\ pc = "term" => Running
  /\ pc \in Leaving /\ Stopped /\ group # {} => stray
  /\ stray => reaped /\ opened # {}

\* An output that poll saw hung up, or that is closed, has no writer left;
\* a closed one has been read to its end.
Unwritten(o) == \A p \in Processes : o \notin held[p]

OutputInv ==
  /\ \A o \in Outputs : "hup" \in revents[o] => Unwritten(o)
  /\ \A o \in Outputs \ opened : Unwritten(o) /\ buffered[o] = 0
  /\ pc \in Leaving /\ proc["leader"] # "unborn" /\ ~Stopped => opened = {}

IInv == TypeOK /\ ForkInv /\ LeaderInv /\ StopInv /\ OutputInv

(***************************************************************************)
(* The types.                                                              *)
(***************************************************************************)
LEMMA DieTypes ==
  ASSUME TypeOK, NEW dead \in SUBSET Processes, NEW code \in {"zero", "nonzero"},
         Die(dead, code)
  PROVE  /\ proc' \in [Processes -> {"unborn", "alive", "dead"}]
         /\ held' \in [Processes -> SUBSET Outputs]
         /\ group' \subseteq Processes
         /\ status' \in ExitCode
  BY DEF Die, TypeOK, ExitCode

LEMMA TypesKept == TypeOK /\ [Next]_vars => TypeOK'
<1> SUFFICES ASSUME TypeOK, [Next]_vars PROVE TypeOK'
  OBVIOUS
<1> USE DEF TypeOK, PC, Outputs, caller, command, vars, Step
<1>1. CASE Command
  <2>1. PICK p \in Processes :
          \/ \E h \in Helpers : ForkHelper(p, h)
          \/ \E o \in Outputs : Write(p, o)
          \/ Exit(p)
    BY <1>1 DEF Command
  <2>2. ASSUME NEW h \in Helpers, ForkHelper(p, h) PROVE TypeOK'
    <3>1. h \in Processes
      BY DEF Processes
    <3>2. PICK outputs \in SUBSET held[p] : held' = [held EXCEPT ![h] = outputs]
      BY <2>2 DEF ForkHelper
    <3>. QED BY <2>2, <3>1, <3>2 DEF ForkHelper, Alive
  <2>3. ASSUME NEW o \in Outputs, Write(p, o) PROVE TypeOK'
    BY <2>3, BoundsAssumption DEF Write
  <2>4. CASE Exit(p)
    BY <2>4, DieTypes DEF Exit
  <2>. QED BY <2>1, <2>2, <2>3, <2>4
<1>2. CASE MakePipes
  BY <1>2 DEF MakePipes, Ends, Descriptors
<1>3. CASE Fork
  BY <1>3 DEF Fork, Ends, Descriptors, Processes
<1>4. CASE Poll
  BY <1>4 DEF Poll, Events
<1>5. CASE ReadChunk
  BY <1>5, BoundsAssumption DEF ReadChunk
<1>6. CASE ReadEnds
  BY <1>6 DEF ReadEnds, NextOutput
<1>7. CASE Terminate \/ Kill
  <2>1. Targets \subseteq Processes
    BY DEF Targets
  <2>2. PICK dead \in SUBSET Processes : Die(dead, "nonzero")
    BY <1>7, <2>1 DEF Terminate, Kill
  <2>. QED BY <1>7, <2>2, DieTypes DEF Terminate, Kill
<1>8. CASE Refuse \/ ForkFails \/ StopOnToken \/ StopOnDeadline \/ GoOn \/ LeaveLoop
  BY <1>8 DEF Refuse, ForkFails, StopOnToken, StopOnDeadline, GoOn, LeaveLoop
<1>9. CASE DrainEnds \/ Close
  BY <1>9 DEF DrainEnds, NextOutput, Close
<1>10. CASE Wait \/ LastWait
  BY <1>10 DEF Wait, LastWait
<1>11. CASE PollInterrupted \/ PollFails
  BY <1>11 DEF PollInterrupted, PollFails
<1>12. CASE Expire
  BY <1>12 DEF Expire
<1>13. CASE Cancel
  BY <1>13 DEF Cancel
<1>14. CASE UNCHANGED vars
  BY <1>14
<1>. QED BY <1>1, <1>2, <1>3, <1>4, <1>5, <1>6, <1>7, <1>8, <1>9, <1>10, <1>11,
            <1>12, <1>13, <1>14 DEF Next, RunProcess

(***************************************************************************)
(* What the processes do, and what run_process does to them: every other   *)
(* step leaves them alone.                                                 *)
(***************************************************************************)
LEMMA ProcessSteps ==
  ASSUME [Next]_vars
  PROVE  \/ \E p \in Processes, h \in Helpers : ForkHelper(p, h)
         \/ \E p \in Processes, o \in Outputs : Write(p, o)
         \/ \E p \in Processes : Exit(p)
         \/ Fork
         \/ Terminate
         \/ Kill
         \/ UNCHANGED <<proc, held, group, status>>
<1>1. CASE Command
  BY <1>1 DEF Command
<1>2. CASE RunProcess
  BY <1>2 DEF RunProcess, command, Refuse, MakePipes, ForkFails, StopOnToken,
              StopOnDeadline, GoOn, LeaveLoop, Poll, ReadChunk, ReadEnds, Wait,
              DrainEnds, Close, LastWait
<1>3. CASE PollInterrupted \/ PollFails \/ Expire \/ Cancel \/ UNCHANGED vars
  BY <1>3 DEF PollInterrupted, PollFails, Expire, Cancel, vars, command
<1>. QED BY <1>1, <1>2, <1>3 DEF Next

(***************************************************************************)
(* Up to the fork, and the descriptors.                                    *)
(***************************************************************************)
LEMMA ForkKept == TypeOK /\ ForkInv /\ [Next]_vars => ForkInv'
<1> SUFFICES ASSUME TypeOK, ForkInv, [Next]_vars PROVE ForkInv'
  OBVIOUS
<1> USE DEF ForkInv, BeforeFork, Unforked, DescriptorsClosed, caller, command, Step
<1>1. "leader" \in Processes /\ proc \in [Processes -> {"unborn", "alive", "dead"}]
  BY DEF Processes, TypeOK
<1>2. CASE Command
  <2>1. PICK p \in Processes :
          \/ \E h \in Helpers : ForkHelper(p, h)
          \/ \E o \in Outputs : Write(p, o)
          \/ Exit(p)
    BY <1>2 DEF Command
  <2>2. Alive(p) /\ UNCHANGED caller
    BY <2>1 DEF ForkHelper, Write, Exit
  <2>3. proc["leader"] # "unborn"
    BY <2>2, <1>1 DEF Alive
  <2>4. proc'["leader"] # "unborn"
    BY <2>1, <2>3, <1>1, BoundsAssumption DEF ForkHelper, Write, Exit, Die
  <2>. QED BY <1>1, <2>2, <2>3, <2>4
<1>3. CASE Terminate \/ Kill
  <2>1. pc' \notin {"start", "fork", "lastwait", "returned"} /\ proc["leader"] # "unborn"
    BY <1>3 DEF Terminate, Kill
  <2>2. proc'["leader"] # "unborn"
    BY <1>1, <1>3, <2>1 DEF Terminate, Kill, Die
  <2>. QED BY <2>1, <2>2
<1>4. CASE Refuse \/ MakePipes \/ ForkFails \/ Fork
  <2>1. CASE Refuse
    BY <2>1 DEF Refuse
  <2>2. CASE MakePipes
    <3>1. PICK made \in SUBSET Outputs :
            /\ fds' = Ends(made, "read") \cup Ends(made, "write")
            /\ pc' = IF made = Outputs THEN "fork" ELSE "returned"
      BY <2>2 DEF MakePipes
    <3>2. pc' = "returned" /\ fds' # {} => \E o \in Outputs : made = {o}
      <4>1. SUFFICES ASSUME pc' = "returned", fds' # {}
                     PROVE  \E o \in Outputs : made = {o}
        OBVIOUS
      <4>2. Ends({}, "read") = {} /\ Ends({}, "write") = {}
        BY DEF Ends
      <4>3. made # {} /\ made # Outputs
        BY <3>1, <4>1, <4>2
      <4>4. PICK o \in Outputs : o \in made
        BY <4>3
      <4>5. ASSUME NEW x \in made, x # o PROVE FALSE
        <5>1. \A y \in Outputs : y = x \/ y = o
          BY <4>4, <4>5 DEF Outputs
        <5>2. Outputs \subseteq made
          BY <4>4, <5>1
        <5>. QED BY <4>3, <5>2
      <4>6. made = {o}
        BY <4>4, <4>5
      <4>. QED BY <4>4, <4>6
    <3>3. pc = "start" /\ UNCHANGED <<command, opened, revents, reaped, buffered>>
      BY <2>2 DEF MakePipes
    <3>. QED BY <3>1, <3>2, <3>3, <1>1
  <2>3. CASE ForkFails
    BY <2>3 DEF ForkFails
  <2>4. CASE Fork
    BY <2>4, <1>1 DEF Fork
  <2>. QED BY <1>4, <2>1, <2>2, <2>3, <2>4
<1>5. CASE StopOnToken \/ StopOnDeadline \/ GoOn \/ LeaveLoop
  BY <1>5 DEF StopOnToken, StopOnDeadline, GoOn, LeaveLoop
<1>6. CASE Poll \/ PollInterrupted \/ PollFails
  BY <1>6 DEF Poll, PollInterrupted, PollFails
<1>7. CASE ReadChunk \/ ReadEnds \/ Wait
  BY <1>7 DEF ReadChunk, ReadEnds, NextOutput, Wait
<1>8. CASE DrainEnds \/ Close \/ LastWait
  BY <1>8 DEF DrainEnds, NextOutput, Close, LastWait
<1>9. CASE Expire \/ Cancel \/ UNCHANGED vars
  BY <1>9 DEF Expire, Cancel, vars
<1>. QED BY <1>2, <1>3, <1>4, <1>5, <1>6, <1>7, <1>8, <1>9 DEF Next, RunProcess

(***************************************************************************)
(* The leader, and what is told of it.                                     *)
(***************************************************************************)
LEMMA LeaderKept == TypeOK /\ ForkInv /\ LeaderInv /\ [Next]_vars => LeaderInv'
<1> SUFFICES ASSUME TypeOK, ForkInv, LeaderInv, [Next]_vars PROVE LeaderInv'
  OBVIOUS
<1> USE DEF LeaderInv, caller, Step
<1>1. /\ "leader" \in Processes /\ proc \in [Processes -> {"unborn", "alive", "dead"}]
      /\ status \in ExitCode
      /\ result \in [exit_code : ExitCode, timed_out : BOOLEAN,
                     cancelled : BOOLEAN, poll_failed : BOOLEAN]
  BY DEF Processes, TypeOK
<1>2. proc["leader"] = "unborn" => Unforked /\ pc \in {"start", "fork", "returned"}
  BY DEF ForkInv
<1>3. CASE Command
  <2>1. PICK p \in Processes :
          \/ \E h \in Helpers : ForkHelper(p, h)
          \/ \E o \in Outputs : Write(p, o)
          \/ Exit(p)
    BY <1>3 DEF Command
  <2>2. CASE \E h \in Helpers : ForkHelper(p, h)
    <3>1. UNCHANGED <<caller, status>> /\ proc'["leader"] = proc["leader"]
      BY <2>2, <1>1, BoundsAssumption DEF ForkHelper
    <3>2. proc["leader"] # "unborn"
      BY <2>2, <1>2 DEF ForkHelper, Unforked, Alive
    <3>. QED BY <3>1, <3>2
  <2>3. CASE \E o \in Outputs : Write(p, o)
    BY <2>3 DEF Write
  <2>4. CASE Exit(p)
    <3>1. UNCHANGED caller /\ Alive(p)
      BY <2>4 DEF Exit
    <3>2. CASE p = "leader"
      <4>1. proc'["leader"] = "dead" /\ status' \in {"zero", "nonzero"}
        BY <2>4, <3>2, <1>1 DEF Exit, Die
      <4>2. status = "none" /\ ~reaped
        BY <3>1, <3>2 DEF Alive
      <4>3. pc # "returned"
        BY <3>1, <3>2, <4>2 DEF Alive
      <4>. QED BY <3>1, <4>1, <4>2, <4>3
    <3>3. CASE p # "leader"
      <4>1. proc'["leader"] = proc["leader"] /\ status' = status
        BY <2>4, <3>3, <1>1 DEF Exit, Die
      <4>. QED BY <3>1, <4>1
    <3>. QED BY <3>2, <3>3
  <2>. QED BY <2>1, <2>2, <2>3, <2>4
<1>4. CASE Terminate \/ Kill
  <2>1. PICK dead \in SUBSET Targets : Die(dead, "nonzero")
    BY <1>4 DEF Terminate, Kill
  <2>2. UNCHANGED <<result, reaped>> /\ pc' # "returned"
    BY <1>4 DEF Terminate, Kill
  <2>3. CASE "leader" \in dead
    <3>1. ~reaped
      BY <2>1, <2>3 DEF Targets
    <3>2. proc'["leader"] = "dead" /\ status' = "nonzero"
      BY <2>1, <2>3, <1>1 DEF Die
    <3>. QED BY <2>2, <3>1, <3>2
  <2>4. CASE "leader" \notin dead
    <3>1. proc'["leader"] = proc["leader"] /\ status' = status
      BY <2>1, <2>4, <1>1 DEF Die
    <3>. QED BY <2>2, <3>1
  <2>. QED BY <2>3, <2>4
<1>5. CASE Refuse \/ MakePipes \/ ForkFails
  <2>1. Unforked
    BY <1>5 DEF ForkInv, BeforeFork, Refuse, MakePipes, ForkFails
  <2>2. UNCHANGED <<proc, status, reaped>> /\ result'.exit_code = result.exit_code
    BY <1>5, <1>1 DEF Refuse, MakePipes, ForkFails, command
  <2>. QED BY <2>1, <2>2, <1>1 DEF Unforked
<1>6. CASE Fork
  BY <1>6, <1>1 DEF Fork, ForkInv, BeforeFork, Unforked
<1>7. CASE StopOnToken \/ StopOnDeadline \/ GoOn \/ LeaveLoop
  BY <1>7, <1>1 DEF StopOnToken, StopOnDeadline, GoOn, LeaveLoop, command
<1>8. CASE Poll \/ PollInterrupted \/ PollFails
  BY <1>8, <1>1 DEF Poll, PollInterrupted, PollFails, command
<1>9. CASE ReadChunk \/ ReadEnds \/ DrainEnds
  BY <1>9 DEF ReadChunk, ReadEnds, DrainEnds, NextOutput, command
<1>10. CASE Wait
  BY <1>10, <1>1 DEF Wait, command
<1>11. CASE Close \/ LastWait
  BY <1>11, <1>1 DEF Close, LastWait, command
<1>12. CASE Expire \/ Cancel \/ UNCHANGED vars
  BY <1>12 DEF Expire, Cancel, vars, command
<1>. QED BY <1>3, <1>4, <1>5, <1>6, <1>7, <1>8, <1>9, <1>10, <1>11, <1>12
         DEF Next, RunProcess

(***************************************************************************)
(* The group of a command that is stopped.                                 *)
(***************************************************************************)
LEMMA StopKept == TypeOK /\ ForkInv /\ StopInv /\ [Next]_vars => StopInv'
<1> SUFFICES ASSUME TypeOK, ForkInv, StopInv, [Next]_vars PROVE StopInv'
  OBVIOUS
<1> USE DEF StopInv, Stopped, Stopping, Leaving, Running, caller, Step
<1>1. /\ pc \in PC
      /\ result \in [exit_code : ExitCode, timed_out : BOOLEAN,
                     cancelled : BOOLEAN, poll_failed : BOOLEAN]
      /\ BeforeFork => group = {} /\ ~reaped
  BY DEF TypeOK, ForkInv, Unforked
<1>2. CASE Command
  <2>1. UNCHANGED caller
    BY <1>2 DEF Command, ForkHelper, Write, Exit
  <2>2. group = {} => group' = {}
    <3>1. CASE \E p \in Processes, h \in Helpers : ForkHelper(p, h)
      BY <3>1 DEF ForkHelper
    <3>2. CASE \E p \in Processes, o \in Outputs : Write(p, o)
      BY <3>2 DEF Write
    <3>3. CASE \E p \in Processes : Exit(p)
      BY <3>3 DEF Exit, Die
    <3>. QED BY <1>2, <3>1, <3>2, <3>3 DEF Command
  <2>. QED BY <2>1, <2>2
<1>3. CASE Terminate
  BY <1>3 DEF Terminate
<1>4. CASE Kill
  <2>1. ~reaped => group' = {}
    BY <1>4 DEF Kill, Die, Targets
  <2>. QED BY <1>4, <2>1 DEF Kill
<1>5. CASE Refuse \/ MakePipes \/ ForkFails
  <2>1. group' = {} /\ ~stray' /\ BeforeFork
    BY <1>1, <1>5 DEF BeforeFork, Refuse, MakePipes, ForkFails, command
  <2>2. CASE pc' = "returned"
    BY <2>1, <2>2
  <2>3. CASE pc' # "returned"
    BY <1>5, <2>1, <2>3 DEF Refuse, MakePipes, ForkFails
  <2>. QED BY <2>2, <2>3
<1>6. CASE Fork
  BY <1>6 DEF Fork
<1>7. CASE StopOnToken
  BY <1>1, <1>7 DEF StopOnToken, command
<1>8. CASE StopOnDeadline
  BY <1>1, <1>8 DEF StopOnDeadline, command
<1>9. CASE GoOn \/ LeaveLoop
  BY <1>9 DEF GoOn, LeaveLoop, command
<1>10. CASE Poll \/ PollInterrupted
  BY <1>10 DEF Poll, PollInterrupted, command
<1>11. CASE PollFails
  BY <1>1, <1>11 DEF PollFails, command
<1>12. CASE ReadChunk \/ ReadEnds \/ DrainEnds
  BY <1>12 DEF ReadChunk, ReadEnds, DrainEnds, NextOutput, command
<1>13. CASE Wait
  BY <1>1, <1>13 DEF Wait, command
<1>14. CASE Close
  BY <1>14 DEF Close, command
<1>15. CASE LastWait
  BY <1>1, <1>15 DEF LastWait, command
<1>16. CASE Expire \/ Cancel \/ UNCHANGED vars
  BY <1>16 DEF Expire, Cancel, vars, command
<1>. QED BY <1>2, <1>3, <1>4, <1>5, <1>6, <1>7, <1>8, <1>9, <1>10, <1>11, <1>12,
            <1>13, <1>14, <1>15, <1>16 DEF Next, RunProcess

(***************************************************************************)
(* The output of a command that is not stopped.                            *)
(***************************************************************************)
\* From the fork on nobody gets hold of an output that has lost its writers.
LEMMA UnwrittenStays ==
  ASSUME TypeOK, [Next]_vars, ~BeforeFork, NEW o \in Outputs, Unwritten(o)
  PROVE  Unwritten(o)'
<1> USE DEF Unwritten
<1>1. held \in [Processes -> SUBSET Outputs]
  BY DEF TypeOK
<1>2. ASSUME NEW p \in Processes, NEW h \in Helpers, ForkHelper(p, h)
      PROVE  Unwritten(o)'
  BY <1>1, <1>2 DEF ForkHelper, Processes
<1>3. ASSUME NEW dead, NEW code, Die(dead, code)
      PROVE  Unwritten(o)'
  BY <1>1, <1>3 DEF Die
<1>4. CASE Fork
  BY <1>4 DEF Fork, BeforeFork
<1>5. CASE \E p \in Processes, q \in Outputs : Write(p, q)
  BY <1>5 DEF Write
<1>6. CASE \E p \in Processes : Exit(p)
  BY <1>3, <1>6 DEF Exit
<1>7. CASE Terminate \/ Kill
  BY <1>3, <1>7 DEF Terminate, Kill
<1>8. CASE UNCHANGED <<proc, held, group, status>>
  BY <1>8
<1>. QED BY <1>2, <1>4, <1>5, <1>6, <1>7, <1>8, ProcessSteps

\* A pipe without a writer is not filled again.
LEMMA EmptyStays ==
  ASSUME TypeOK, [Next]_vars, NEW o \in Outputs, Unwritten(o), buffered[o] = 0
  PROVE  buffered'[o] = 0
<1>1. buffered \in [Outputs -> 0..PipeSize]
  BY DEF TypeOK
<1>2. ASSUME NEW p \in Processes, NEW q \in Outputs, Write(p, q)
      PROVE  buffered'[o] = 0
  BY <1>1, <1>2 DEF Write, Unwritten
<1>3. CASE ReadChunk
  BY <1>1, <1>3 DEF ReadChunk
<1>4. CASE Command
  BY <1>2, <1>4 DEF Command, ForkHelper, Exit
<1>5. CASE RunProcess /\ ~ReadChunk
  BY <1>5 DEF RunProcess, Refuse, MakePipes, ForkFails, Fork, StopOnToken,
              StopOnDeadline, GoOn, LeaveLoop, Poll, ReadEnds, Wait, Terminate,
              Kill, DrainEnds, Close, LastWait
<1>6. CASE PollInterrupted \/ PollFails \/ Expire \/ Cancel \/ UNCHANGED vars
  BY <1>6 DEF PollInterrupted, PollFails, Expire, Cancel, vars
<1>. QED BY <1>3, <1>4, <1>5, <1>6 DEF Next

LEMMA OutputKept == IInv /\ [Next]_vars => OutputInv'
<1> SUFFICES ASSUME IInv, [Next]_vars PROVE OutputInv'
  OBVIOUS
<1> DEFINE Hung == \A o \in Outputs : "hup" \in revents[o] => Unwritten(o)
           Read == \A o \in Outputs \ opened : Unwritten(o) /\ buffered[o] = 0
           Over == pc \in Leaving /\ proc["leader"] # "unborn" /\ ~Stopped => opened = {}
<1>1. TypeOK /\ Hung /\ Read /\ Over
  BY DEF IInv, OutputInv
<1>2. BeforeFork => opened = Outputs /\ \A o \in Outputs : revents[o] = {}
  BY DEF IInv, ForkInv
<1>3. Hung'
  <2>1. CASE UNCHANGED revents
    BY <1>1, <1>2, <2>1, UnwrittenStays
  <2>2. CASE Poll
    <3>1. UNCHANGED held
      BY <2>2 DEF Poll, Step, command
    <3>2. ASSUME NEW o \in Outputs, "hup" \in revents'[o] PROVE Unwritten(o)
      BY <2>2, <3>2 DEF Poll, Events, Held, Unwritten
    <3>. QED BY <3>1, <3>2 DEF Unwritten
  <2>3. CASE PollInterrupted
    BY <2>3 DEF PollInterrupted
  <2>. QED
    BY <2>1, <2>2, <2>3
    DEF Next, RunProcess, Refuse, MakePipes, ForkFails, Fork, StopOnToken,
        StopOnDeadline, GoOn, LeaveLoop, ReadChunk, ReadEnds, Wait, Terminate,
        Kill, DrainEnds, Close, LastWait, PollFails, Command, ForkHelper, Write,
        Exit, Expire, Cancel, vars, caller
<1>4. Read'
  <2>1. CASE UNCHANGED opened
    BY <1>1, <1>2, <2>1, UnwrittenStays, EmptyStays
  <2>2. CASE ReadEnds
    <3>1. UNCHANGED <<held, buffered>>
      BY <2>2 DEF ReadEnds, Step, command
    <3>2. ASSUME NEW o \in Outputs \ opened' PROVE Unwritten(o) /\ buffered[o] = 0
      BY <1>1, <2>2, <3>2 DEF ReadEnds
    <3>. QED BY <3>1, <3>2 DEF Unwritten
  <2>. QED
    BY <2>1, <2>2
    DEF Next, RunProcess, Refuse, MakePipes, ForkFails, Fork, StopOnToken,
        StopOnDeadline, GoOn, LeaveLoop, Poll, ReadChunk, Wait, Terminate,
        Kill, DrainEnds, Close, LastWait, PollInterrupted, PollFails, Command,
        ForkHelper, Write, Exit, Expire, Cancel, vars, caller
<1>5. Over'
  <2> USE DEF Leaving, Stopped, Step, caller
  <2>1. /\ pc \in Leaving /\ proc["leader"] = "unborn" => Unforked
        /\ BeforeFork => Unforked
        /\ pc = "kill" => Stopped
        /\ "leader" \in Processes /\ pc \in PC
        /\ result \in [exit_code : ExitCode, timed_out : BOOLEAN,
                       cancelled : BOOLEAN, poll_failed : BOOLEAN]
    BY DEF IInv, TypeOK, ForkInv, StopInv, Stopping, Processes
  <2>2. CASE Command
    <3>1. PICK p \in Processes : Alive(p) /\ UNCHANGED caller
      BY <2>2 DEF Command, ForkHelper, Write, Exit
    <3>2. pc \in Leaving => proc["leader"] # "unborn"
      BY <2>1, <3>1 DEF Unforked, Alive
    <3>. QED BY <1>1, <3>1, <3>2
  <2>3. CASE Refuse \/ MakePipes \/ ForkFails
    BY <2>1, <2>3 DEF Refuse, MakePipes, ForkFails, command, BeforeFork, Unforked
  <2>4. CASE LeaveLoop
    BY <2>4 DEF LeaveLoop, Running
  <2>5. CASE Kill
    BY <2>1, <2>5 DEF Kill
  <2>6. CASE DrainEnds \/ Close \/ ReadChunk
    BY <1>1, <2>6 DEF DrainEnds, NextOutput, Close, ReadChunk, command
  <2>7. CASE LastWait
    BY <1>1, <2>1, <2>7 DEF LastWait, command
  <2>8. CASE Fork \/ StopOnToken \/ StopOnDeadline \/ GoOn \/ Poll \/ Wait
             \/ Terminate \/ PollInterrupted \/ PollFails
    BY <2>8 DEF Fork, StopOnToken, StopOnDeadline, GoOn, Poll, Wait, Terminate,
                PollInterrupted, PollFails
  <2>9. CASE ReadEnds
    BY <2>9 DEF ReadEnds, NextOutput
  <2>10. CASE Expire \/ Cancel \/ UNCHANGED vars
    BY <1>1, <2>10 DEF Expire, Cancel, vars, command
  <2>. QED BY <2>2, <2>3, <2>4, <2>5, <2>6, <2>7, <2>8, <2>9, <2>10
           DEF Next, RunProcess
<1>. QED BY <1>3, <1>4, <1>5 DEF OutputInv

(***************************************************************************)
(* The theorems.                                                           *)
(***************************************************************************)
LEMMA InvHoldsAtStart == Init => IInv
<1> SUFFICES ASSUME Init PROVE IInv
  OBVIOUS
<1> USE DEF Init, Outputs
<1>1. TypeOK
  <2>1. buffered \in [Outputs -> 0..PipeSize] /\ left \in [Outputs -> 0..MaxOutput]
    BY BoundsAssumption
  <2>2. /\ proc \in [Processes -> {"unborn", "alive", "dead"}]
        /\ held \in [Processes -> SUBSET Outputs] /\ group \subseteq Processes
    OBVIOUS
  <2>3. /\ result \in [exit_code : ExitCode, timed_out : BOOLEAN,
                       cancelled : BOOLEAN, poll_failed : BOOLEAN]
        /\ status \in ExitCode /\ revents \in [Outputs -> SUBSET {"in", "hup"}]
    BY DEF ExitCode
  <2>4. pc \in PC /\ fds \subseteq Descriptors
    BY DEF PC
  <2>. QED BY <2>1, <2>2, <2>3, <2>4 DEF TypeOK
<1>2. ForkInv
  BY DEF ForkInv, BeforeFork, Unforked, DescriptorsClosed, Processes
<1>3. LeaderInv
  BY DEF LeaderInv, Processes
<1>4. StopInv
  BY DEF StopInv, Stopped, Stopping, Leaving
<1>5. OutputInv
  BY DEF OutputInv, Unwritten, Leaving
<1>. QED BY <1>1, <1>2, <1>3, <1>4, <1>5 DEF IInv

LEMMA InvAlways == Spec => []IInv
<1>1. IInv /\ [Next]_vars => IInv'
  BY TypesKept, ForkKept, LeaderKept, StopKept, OutputKept DEF IInv
<1>. QED BY InvHoldsAtStart, <1>1, PTL DEF Spec

\* run_process keeps its types: an exit code is one that waitpid gave, no pipe
\* holds more than it can, and while the command runs the caller has the two
\* read ends and nothing else open.
THEOREM TypeCorrect == Spec => []TypeOK
<1>1. IInv => TypeOK
  BY DEF IInv
<1>. QED BY InvAlways, <1>1, PTL

\* However run_process ends (the exit of the command, a deadline, the token, a
\* failing poll or fork), a leader it forked has been reaped, the exit code in
\* the result is that leader's, and the descriptors of the pipes are closed,
\* but for the pair that leaks when only one of the pipes could be made.
THEOREM NothingIsLeftBehind == Spec => []NothingLeftBehind
<1>1. IInv => NothingLeftBehind
  BY DEF IInv, TypeOK, ForkInv, LeaderInv, NothingLeftBehind, LeaderReaped,
         Processes
<1>. QED BY InvAlways, <1>1, PTL

\* kill_process_group leaves no process of the command's group alive, however
\* many helpers there are and whatever they do with SIGTERM, unless the leader
\* had been reaped with an output still open.
THEOREM GroupIsStopped == Spec => []GroupStopped
<1>1. IInv => GroupStopped
  BY DEF IInv, StopInv, GroupStopped, Leaving
<1>. QED BY InvAlways, <1>1, PTL

\* The reading loop of run_process and the drain after it miss nothing of a
\* command that was not stopped: on return no process can write to its
\* outputs, and nothing is left in the pipes.
THEOREM OutputIsComplete == Spec => []OutputComplete
<1>1. IInv => OutputComplete
  <2> SUFFICES ASSUME IInv, pc = "returned", proc["leader"] # "unborn", ~Stopped
               PROVE  Held = {} /\ \A o \in Outputs : buffered[o] = 0
    BY DEF OutputComplete
  <2>1. \A o \in Outputs : Unwritten(o) /\ buffered[o] = 0
    BY DEF IInv, OutputInv, Leaving
  <2>2. \A p \in Processes : held[p] \subseteq Outputs
    BY DEF IInv, TypeOK
  <2>3. Held = {}
    BY <2>1, <2>2 DEF Held, Unwritten
  <2>. QED BY <2>1, <2>3
<1>. QED BY InvAlways, <1>1, PTL
====
