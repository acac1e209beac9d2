---- MODULE AgentRuntimeProofs ----
(***************************************************************************)
(* Theorems about AgentRuntime, for every set of requests, every number of *)
(* calls a response may carry and every usage it may report.               *)
(***************************************************************************)
EXTENDS AgentRuntime, TLAPS

(***************************************************************************)
(* The pure parts: the table and the budgets.                              *)
(***************************************************************************)

\* transition() moves between states of the enumeration only.
LEMMA TransitionType ==
  \A from, to \in AgentState : Transition(from, to) \in AgentState
BY DEF Transition

\* The limits a mode gets by default are numbers for every resource.
LEMMA DefaultBudgetType == \A mode \in AgentMode : DefaultBudgetFor(mode) \in Amounts
BY SMT DEF DefaultBudgetFor, DefaultTokens, Amounts, AgentMode

\* What a response costs: one turn and the tokens it reports.
LEMMA SpendCounts ==
  ASSUME used \in Amounts, NEW in \in Nat, NEW out \in Nat, Spend(in, out)
  PROVE  /\ used' \in Amounts
         /\ used'.turns = used.turns + 1
         /\ used'.tool_calls = used.tool_calls
         /\ used'.subagents = used.subagents
         /\ used'.input_tokens = used.input_tokens + in
         /\ used'.output_tokens = used.output_tokens + out
<1> DEFINE charged == [used EXCEPT !.turns = used.turns + 1]
<1> DEFINE read == [charged EXCEPT !.input_tokens = used.input_tokens + in]
<1>1. /\ charged \in Amounts
      /\ charged.turns = used.turns + 1
      /\ charged.tool_calls = used.tool_calls
      /\ charged.subagents = used.subagents
      /\ charged.input_tokens = used.input_tokens
      /\ charged.output_tokens = used.output_tokens
  BY SMT DEF Amounts
<1>2. used' = [read EXCEPT !.output_tokens = used.output_tokens + out]
  BY <1>1 DEF Spend, Amounts
<1> HIDE DEF charged
<1>3. /\ read \in Amounts
      /\ read.turns = used.turns + 1
      /\ read.tool_calls = used.tool_calls
      /\ read.subagents = used.subagents
      /\ read.input_tokens = used.input_tokens + in
      /\ read.output_tokens = used.output_tokens
  BY <1>1, SMT DEF Amounts
<1> HIDE DEF read
<1>4. QED
  BY <1>2, <1>3, SMT DEF Amounts

\* The transitions the runtime asks for, all of which the table grants.
LEMMA TransitionsGranted ==
  /\ Transition("Initializing", "BuildingContext") = "BuildingContext"
  /\ Transition("BuildingContext", "AwaitingModel") = "AwaitingModel"
  /\ Transition("AwaitingModel", "ParsingResponse") = "ParsingResponse"
  /\ Transition("ParsingResponse", "ExecutingTools") = "ExecutingTools"
  /\ Transition("ParsingResponse", "Verifying") = "Verifying"
  /\ Transition("ParsingResponse", "Completed") = "Completed"
  /\ Transition("ExecutingTools", "Observing") = "Observing"
  /\ Transition("Observing", "AwaitingModel") = "AwaitingModel"
  /\ Transition("Verifying", "Completed") = "Completed"
  /\ \A s \in AgentState \ {"Completed"} : Transition(s, "Failed") = "Failed"
BY DEF Transition, Allowed, Edges

\* The budget in force is a limit for every resource.
LEMMA BudgetType == TypeOK => Budget \in Amounts
BY DefaultBudgetType, RequestsAssumption DEF TypeOK, Budget, RunRequest

(***************************************************************************)
(* Type correctness.                                                       *)
(***************************************************************************)

\* The members of the enumerations the runtime names.
LEMMA Members ==
  /\ {"Initializing", "BuildingContext", "AwaitingModel", "ParsingResponse",
      "ExecutingTools", "Observing", "Verifying", "Completed", "Failed"}
       \subseteq AgentState
  /\ {"ImplementedVerified", "CompletedUnverified", "Failed"} \subseteq RunCompletion
  /\ {"none", "content", "content, verification failed", "Budget exhausted", "denied"}
       \subseteq Answer
BY DEF AgentState, RunCompletion, Answer

\* transition() towards any state the runtime names.
LEMMA TransitionMembers ==
  ASSUME NEW from \in AgentState,
         NEW to \in {"BuildingContext", "AwaitingModel", "ParsingResponse",
                     "ExecutingTools", "Observing", "Verifying", "Completed", "Failed"}
  PROVE  Transition(from, to) \in AgentState
BY Members, TransitionType

\* The fields of an AgentRun are set one at a time.
LEMMA RunUpdates ==
  ASSUME NEW r \in AgentRun, NEW s \in AgentState, NEW c \in RunCompletion,
         NEW a \in Answer
  PROVE  /\ r.state \in AgentState /\ r.completion \in RunCompletion
         /\ r.final_answer \in Answer
         /\ [r EXCEPT !.state = s] \in AgentRun
         /\ [r EXCEPT !.final_answer = a] \in AgentRun
         /\ [r EXCEPT !.final_answer = a, !.state = s] \in AgentRun
         /\ [r EXCEPT !.state = s, !.completion = c] \in AgentRun
         /\ [state |-> s, completion |-> c, final_answer |-> a] \in AgentRun
         /\ [state |-> s, final_answer |-> a, completion |-> c] \in AgentRun
BY DEF AgentRun

\* What log_event leaves is a log again.
LEMMA LogType ==
  ASSUME log \in Seq(Event), NEW event \in Event, Log(event)
  PROVE  log' \in Seq(Event)
BY DEF Log

\* The events the runtime writes are events.
LEMMA RunEventType ==
  ASSUME NEW type \in EventType, NEW n \in Nat, NEW completion \in RunCompletion
  PROVE  RunEvent(type, n, completion) \in Event
BY DEF RunEvent, Event

LEMMA LogNoteType ==
  ASSUME TypeOK, NEW type \in EventType, LogNote(type)
  PROVE  log' \in Seq(Event)
BY LogType, RunEventType, SMT DEF LogNote, TypeOK, AgentRun

\* Throwing changes nothing but where run() is.
LEMMA ThrowType == ASSUME TypeOK, Throw PROVE TypeOK'
BY DEF Throw, TypeOK, local, PC

LEMMA InitTypeOK == Init => TypeOK
<1> SUFFICES ASSUME Init PROVE TypeOK
  OBVIOUS
<1>1. run \in AgentRun /\ sm \in AgentState
  BY Members, RunUpdates DEF Init, AgentRun
<1>2. used \in Amounts
  BY DEF Init, Amounts, NothingUsed
<1>3. log \in Seq(Event)
  BY DEF Init
<1>4. calls \in Nat /\ conversation \in Nat /\ had_tool_calls \in BOOLEAN
  BY DEF Init
<1>5. QED
  BY <1>1, <1>2, <1>3, <1>4 DEF Init, TypeOK, PC

\* The last call of a response is the first to leave none behind: that calls
\* stays a number needs the phase invariant.
LEMMA StepTypeOK == TypeOK /\ PhaseMatchesState /\ [Next]_vars => TypeOK'
<1> SUFFICES ASSUME TypeOK, PhaseMatchesState, [Next]_vars PROVE TypeOK'
  OBVIOUS
<1> USE DEF local
<1>1. CASE Start
  <2>1. log' \in Seq(Event)
    BY <1>1, LogNoteType DEF Start, LogThrows, EventType, TypeOK
  <2>2. QED
    BY <1>1, <2>1 DEF Start, LogThrows, TypeOK, PC
<1>2. CASE CancelledAtLoopTop \/ ContextThrows \/ CancelledBeforeChat
           \/ ModelThrows \/ CancelledBeforeTool \/ ToolThrows \/ VerifierThrows
  BY <1>2, ThrowType DEF CancelledAtLoopTop, ContextThrows, CancelledBeforeChat,
     ModelThrows, CancelledBeforeTool, ToolThrows, VerifierThrows
<1>3. CASE StopOnBudget
  BY <1>3, TransitionMembers, RunUpdates, Members DEF StopOnBudget, TypeOK
<1>4. CASE LeaveInitializing
  BY <1>4, TransitionType, SMT DEF LeaveInitializing, TypeOK, AgentState
<1>5. CASE BuildContext
  <2>1. log' \in Seq(Event)
    BY <1>5, LogNoteType DEF BuildContext, LogThrows, EventType, TypeOK
  <2>2. sm' \in AgentState /\ run' \in AgentRun
    BY <1>5, TransitionType, SMT DEF BuildContext, TypeOK, AgentState, AgentRun
  <2>3. QED
    BY <1>5, <2>1, <2>2 DEF BuildContext, LogThrows, TypeOK, PC
<1>6. CASE BuildPrompt \/ CallModel \/ Dispatch \/ StartVerification
  BY <1>6 DEF BuildPrompt, CallModel, Dispatch, StartVerification, TypeOK, PC
<1>7. CASE ModelResponds
  <2>1. used' \in Amounts
    BY <1>7, SpendCounts, BoundsAssumption DEF ModelResponds, TypeOK
  <2>2. CASE ResponseLogFails
    BY <1>7, <2>1, <2>2, TransitionType, SMT
       DEF ModelResponds, ResponseLogFails, LogThrows, TypeOK, AgentState, AgentRun, PC
  <2>3. ASSUME NEW n \in 1..MaxCalls, TakeCalls(n) PROVE TypeOK'
    <3>1. RunEvent("AssistantMessage", n, run.completion) \in Event
      BY RunEventType, SMT DEF TypeOK, AgentRun, EventType
    <3>2. log' \in Seq(Event)
      BY <2>3, <3>1, LogType DEF TakeCalls, TypeOK
    <3>3. Transition(sm, "ParsingResponse") \in AgentState
      BY TransitionType DEF TypeOK, AgentState
    <3>4. sm' \in AgentState
      BY <2>3, <3>3, TransitionType DEF TakeCalls, AgentState
    <3>5. QED
      BY <1>7, <2>1, <2>3, <3>2, <3>3, <3>4, SMT
         DEF ModelResponds, TakeCalls, TypeOK, AgentRun, PC
  <2>4. CASE TakeAnswer
    <3>1. RunEvent("AssistantMessage", 0, run.completion) \in Event
      BY RunEventType, SMT DEF TypeOK, AgentRun, EventType
    <3>2. log' \in Seq(Event)
      BY <2>4, <3>1, LogType DEF TakeAnswer, TypeOK
    <3>3. Transition(sm, "ParsingResponse") \in AgentState
      BY TransitionType DEF TypeOK, AgentState
    <3>4. sm' \in AgentState
      BY <2>4, <3>3, TransitionType DEF TakeAnswer, AgentState
    <3>5. run' \in AgentRun
      BY <2>4, <3>4, RunUpdates, Members DEF TakeAnswer, TypeOK
    <3>6. QED
      BY <1>7, <2>1, <2>4, <3>2, <3>4, <3>5, SMT DEF ModelResponds, TakeAnswer, TypeOK, PC
  <2>5. QED
    BY <1>7, <2>2, <2>3, <2>4 DEF ModelResponds
<1>8. CASE ToolDenied
  <2>1. sm' \in AgentState /\ run' \in AgentRun
    BY <1>8, TransitionMembers, RunUpdates, Members DEF ToolDenied, TypeOK
  <2>2. used' \in Amounts
    BY <1>8 DEF ToolDenied, TypeOK, Amounts
  <2>3. QED
    BY <1>8, <2>1, <2>2 DEF ToolDenied, TypeOK, PC
<1>9. CASE ToolReturns
  <2>1. log' \in Seq(Event)
    BY <1>9, LogNoteType DEF ToolReturns, LogThrows, EventType, TypeOK
  <2>2. used' \in Amounts /\ had_tool_calls' \in BOOLEAN /\ conversation' \in Nat
    BY <1>9, SMT DEF ToolReturns, TypeOK, Amounts
  <2>3. CASE NextCall /\ calls' = calls - 1 /\ calls > 1
    BY <1>9, <2>1, <2>2, <2>3 DEF ToolReturns, NextCall, TypeOK, PC
  <2>4. CASE NextCall /\ calls' = calls - 1 /\ ~(calls > 1)
    <3>1. sm' = Transition(sm, "Observing") /\ run' = [run EXCEPT !.state = sm']
      BY <2>4 DEF NextCall
    <3> Transition(sm, "Observing") \in AgentState
      BY TransitionMembers DEF TypeOK
    <3>4. sm' \in AgentState /\ run' \in AgentRun /\ pc' \in PC
      BY <2>4, <3>1, RunUpdates, Members DEF NextCall, TypeOK, PC
    <3>2. calls' \in Nat
      BY <1>9, <2>4 DEF ToolReturns, TypeOK, PhaseMatchesState
    <3>3. QED
      BY <1>9, <2>1, <2>2, <3>2, <3>4 DEF ToolReturns, TypeOK
  <2>5. CASE LogThrows /\ UNCHANGED <<calls, sm, run>>
    BY <1>9, <2>1, <2>2, <2>5 DEF ToolReturns, LogThrows, TypeOK, PC
  <2>6. QED
    BY <1>9, <2>3, <2>4, <2>5 DEF ToolReturns
<1>10. CASE Observe
  BY <1>10, TransitionType, SMT DEF Observe, TypeOK, AgentState, AgentRun
<1>11. CASE FinishVerification
  <2>1. log' \in Seq(Event)
    BY <1>11, LogNoteType DEF FinishVerification, LogThrows, EventType, TypeOK
  <2>2. sm' \in AgentState /\ run' \in AgentRun
    <3>1. PICK build, tests \in BOOLEAN :
            \/ /\ sm' = Transition(sm, "Completed")
               /\ run' = [state |-> sm',
                          completion |-> IF Verdict(build, tests)
                                         THEN "ImplementedVerified"
                                         ELSE "CompletedUnverified",
                          final_answer |-> IF ~Verdict(build, tests) /\ had_tool_calls
                                           THEN "content, verification failed"
                                           ELSE run.final_answer]
            \/ UNCHANGED <<sm, run>>
      BY <1>11 DEF FinishVerification
    <3>2. Transition(sm, "Completed") \in AgentState
      BY TransitionMembers DEF TypeOK
    <3>3. CASE UNCHANGED <<sm, run>>
      BY <3>3 DEF TypeOK
    <3>4. CASE ~UNCHANGED <<sm, run>>
      <4> DEFINE c == IF Verdict(build, tests) THEN "ImplementedVerified"
                                               ELSE "CompletedUnverified"
                 a == IF ~Verdict(build, tests) /\ had_tool_calls
                      THEN "content, verification failed" ELSE run.final_answer
      <4>1. run.final_answer \in Answer
        BY DEF TypeOK, AgentRun
      <4>2. a \in Answer
        BY <4>1, Members, Zenon
      <4>3. c \in RunCompletion
        BY Members, Zenon
      <4>4. /\ sm' = Transition(sm, "Completed")
            /\ run' = [state |-> sm', completion |-> c, final_answer |-> a]
        BY <3>1, <3>4, Zenon
      <4> HIDE DEF a, c
      <4>5. QED
        BY <3>2, <4>2, <4>3, <4>4 DEF AgentRun
    <3>5. QED
      BY <3>3, <3>4
  <2>3. QED
    BY <1>11, <2>1, <2>2 DEF FinishVerification, LogThrows, TypeOK, PC
<1>12. CASE Finish
  <2>1. Settled \in AgentRun
    BY RunUpdates, Members DEF Settled, TypeOK
  <2>2. RunEvent("RunCompleted", 0, Settled.completion) \in Event
    BY <2>1, RunEventType, SMT DEF AgentRun, EventType
  <2>3. log' \in Seq(Event)
    BY <1>12, <2>2, LogType DEF Finish, LogThrows, TypeOK
  <2>4. QED
    BY <1>12, <2>1, <2>3, SMT DEF Finish, LogThrows, TypeOK, PC
<1>13. CASE Cancel
  BY <1>13 DEF Cancel, TypeOK
<1>14. CASE UNCHANGED vars
  BY <1>14 DEF vars, TypeOK
<1>15. QED
  BY <1>1, <1>2, <1>3, <1>4, <1>5, <1>6, <1>7, <1>8, <1>9, <1>10, <1>11, <1>12,
     <1>13, <1>14 DEF Next, Step, Over

\* No transition is refused: each action leaves the machine where the next
\* one expects it.
LEMMA StepPhase == TypeOK /\ PhaseMatchesState /\ [Next]_vars => PhaseMatchesState'
<1> SUFFICES ASSUME TypeOK, PhaseMatchesState, [Next]_vars PROVE PhaseMatchesState'
  OBVIOUS
<1> USE DEF PhaseMatchesState, local
<1>1. CASE Start
  BY <1>1 DEF Start, LogThrows
<1>2. CASE CancelledAtLoopTop \/ ContextThrows \/ CancelledBeforeChat
           \/ ModelThrows \/ CancelledBeforeTool \/ ToolThrows \/ VerifierThrows
  BY <1>2 DEF CancelledAtLoopTop, ContextThrows, CancelledBeforeChat,
     ModelThrows, CancelledBeforeTool, ToolThrows, VerifierThrows, Throw
<1>3. CASE StopOnBudget
  BY <1>3, TransitionsGranted DEF StopOnBudget, InLoop, IsTerminalState, TypeOK
<1>4. CASE LeaveInitializing
  BY <1>4, TransitionsGranted DEF LeaveInitializing, Arm, InLoop
<1>5. CASE BuildContext
  BY <1>5, TransitionsGranted DEF BuildContext, Arm, InLoop, LogThrows
<1>6. CASE BuildPrompt \/ CallModel \/ Dispatch \/ StartVerification
  BY <1>6 DEF BuildPrompt, CallModel, Dispatch, StartVerification, Arm, InLoop
<1>7. CASE ModelResponds
  <2>1. CASE ResponseLogFails
    BY <2>1 DEF ResponseLogFails, LogThrows
  <2>2. ASSUME NEW n \in 1..MaxCalls, TakeCalls(n) PROVE PhaseMatchesState'
    BY <1>7, <2>2, TransitionsGranted, BoundsAssumption DEF ModelResponds, TakeCalls
  <2>3. CASE TakeAnswer
    BY <1>7, <2>3, TransitionsGranted DEF ModelResponds, TakeAnswer
  <2>4. QED
    BY <1>7, <2>1, <2>2, <2>3 DEF ModelResponds
<1>8. CASE ToolDenied
  BY <1>8, TransitionsGranted, Members DEF ToolDenied
<1>9. CASE ToolReturns
  BY <1>9, TransitionsGranted DEF ToolReturns, NextCall, LogThrows, TypeOK
<1>10. CASE Observe
  BY <1>10, TransitionsGranted DEF Observe, Arm, InLoop
<1>11. CASE FinishVerification
  BY <1>11, TransitionsGranted DEF FinishVerification, LogThrows
<1>12. CASE Finish
  BY <1>12 DEF Finish, LogThrows, IsTerminalState
<1>13. CASE Cancel
  BY <1>13 DEF Cancel
<1>14. CASE UNCHANGED vars
  BY <1>14 DEF vars
<1>15. QED
  BY <1>1, <1>2, <1>3, <1>4, <1>5, <1>6, <1>7, <1>8, <1>9, <1>10, <1>11, <1>12,
     <1>13, <1>14 DEF Next, Step, Over

LEMMA TypeAndPhase == Spec => [](TypeOK /\ PhaseMatchesState)
<1>1. Init => PhaseMatchesState
  BY DEF Init, PhaseMatchesState
<1>2. QED
  BY InitTypeOK, StepTypeOK, StepPhase, <1>1, PTL DEF Spec

\* Every variable of a run keeps its type, whatever the model answers and
\* whenever the token is cancelled.
THEOREM TypeCorrect == Spec => []TypeOK
BY TypeAndPhase, PTL

\* The runtime never asks the machine for a transition it refuses, and never
\* reaches the default arm of its switch.
THEOREM TransitionsNeverRefused == Spec => []PhaseMatchesState
BY TypeAndPhase, PTL

(***************************************************************************)
(* The budget. The limits are compared at the top of the loop only, so the *)
(* invariant says what is left of that comparison at each later point.     *)
(***************************************************************************)
BudgetInv ==
  /\ NoTurnUnderZeroLimit
  /\ BudgetOvershoot
  /\ pc \in {"prompt", "chat"} => ~BudgetExhausted(Budget, used)
  /\ pc \in {"tools", "dispatch"} =>
       /\ used.turns > 0
       /\ Budget.tool_calls > 0
       /\ used.tool_calls + calls <= Budget.tool_calls - 1 + MaxCalls

\* The limits in force are those of the request.
LEMMA BudgetFixed == ASSUME UNCHANGED request PROVE Budget' = Budget
BY DEF Budget

LEMMA StepBudget ==
  TypeOK /\ PhaseMatchesState /\ BudgetInv /\ [Next]_vars => BudgetInv'
<1> SUFFICES ASSUME TypeOK, PhaseMatchesState, BudgetInv, [Next]_vars
             PROVE  BudgetInv'
  OBVIOUS
<1> USE DEF BudgetInv
<1>0. Budget \in Amounts /\ used \in Amounts /\ Budget' = Budget
  <2>1. UNCHANGED request
    BY DEF Next, Step, Over, vars, local, Start, CancelledAtLoopTop, StopOnBudget,
       LeaveInitializing, BuildContext, ContextThrows, BuildPrompt,
       CancelledBeforeChat, CallModel, ModelThrows, ModelResponds,
       CancelledBeforeTool, Dispatch, ToolThrows, ToolDenied, ToolReturns, Observe,
       StartVerification, VerifierThrows, FinishVerification, Finish, Cancel, Throw
  <2>2. QED
    BY <2>1, BudgetType, BudgetFixed DEF TypeOK
\* Most steps spend nothing and lead to no point the budget is assumed at.
<1>1. ASSUME UNCHANGED used, pc' \notin {"prompt", "chat", "tools", "dispatch"}
      PROVE  BudgetInv'
  BY <1>0, <1>1 DEF NoTurnUnderZeroLimit, BudgetOvershoot, AtMostOneResponseOver
<1>2. CASE BuildPrompt
  BY <1>0, <1>2 DEF BuildPrompt, Arm, NoTurnUnderZeroLimit, BudgetOvershoot,
     AtMostOneResponseOver
<1>3. CASE CallModel \/ Dispatch
  BY <1>0, <1>3 DEF CallModel, Dispatch, local, NoTurnUnderZeroLimit,
     BudgetOvershoot, AtMostOneResponseOver
<1>4. CASE ModelResponds
  <2>1. PICK in \in 0..MaxUsage, out \in 0..MaxUsage : Spend(in, out)
    BY <1>4 DEF ModelResponds
  <2>2. /\ used'.turns = used.turns + 1
        /\ used'.tool_calls = used.tool_calls
        /\ used'.input_tokens = used.input_tokens + in
        /\ used'.output_tokens = used.output_tokens + out
    BY <1>0, <2>1, SpendCounts, BoundsAssumption
  <2>3. /\ used.turns < Budget.turns /\ used.tool_calls < Budget.tool_calls
        /\ used.input_tokens < Budget.input_tokens
        /\ used.output_tokens < Budget.output_tokens
        /\ Budget.subagents > 0
    BY <1>0, <1>4 DEF ModelResponds, BudgetExhausted, Amounts
  <2>4. NoTurnUnderZeroLimit' /\ BudgetOvershoot'
    BY <1>0, <2>2, <2>3, BoundsAssumption
       DEF NoTurnUnderZeroLimit, BudgetOvershoot, AtMostOneResponseOver, Amounts
  <2>5. pc' \in {"tools", "dispatch"} => calls' \in 1..MaxCalls
    BY <1>4 DEF ModelResponds, TakeCalls, TakeAnswer, ResponseLogFails, LogThrows
  <2>6. pc' \notin {"prompt", "chat"}
    BY <1>4 DEF ModelResponds, TakeCalls, TakeAnswer, ResponseLogFails, LogThrows
  <2>7. QED
    BY <1>0, <2>2, <2>3, <2>4, <2>5, <2>6, BoundsAssumption DEF Amounts
<1>5. CASE ToolDenied \/ ToolReturns
  <2>1. /\ used'.turns = used.turns
        /\ used'.tool_calls = used.tool_calls + 1
        /\ used'.input_tokens = used.input_tokens
        /\ used'.output_tokens = used.output_tokens
    BY <1>0, <1>5 DEF ToolDenied, ToolReturns, Amounts
  <2>2. /\ used.turns > 0 /\ Budget.tool_calls > 0 /\ calls > 0
        /\ used.tool_calls + calls <= Budget.tool_calls - 1 + MaxCalls
    BY <1>5 DEF ToolDenied, ToolReturns, PhaseMatchesState
  <2>3. used # NothingUsed
    BY <2>2 DEF NothingUsed
  <2>4. NoTurnUnderZeroLimit' /\ BudgetOvershoot'
    <3>1. NoTurnUnderZeroLimit'
      BY <1>0, <2>3 DEF NoTurnUnderZeroLimit
    <3>2. used.tool_calls + 1 <= Budget.tool_calls - 1 + MaxCalls
      BY <1>0, <2>2, BoundsAssumption DEF Amounts, TypeOK
    <3>3. AtMostOneResponseOver(used.tool_calls, Budget.tool_calls, MaxCalls)'
      BY <1>0, <2>1, <2>2, <3>2 DEF AtMostOneResponseOver
    <3>4. QED
      BY <1>0, <2>1, <3>1, <3>3 DEF BudgetOvershoot, AtMostOneResponseOver
  <2>5. pc' \in {"tools", "dispatch"} => calls' = calls - 1
    BY <1>5 DEF ToolDenied, ToolReturns, LogThrows
  <2>6. pc' \notin {"prompt", "chat"}
    BY <1>5 DEF ToolDenied, ToolReturns, NextCall, LogThrows
  <2>7. QED
    BY <1>0, <2>1, <2>2, <2>4, <2>5, <2>6, BoundsAssumption DEF Amounts, TypeOK
<1>6. CASE Start \/ CancelledAtLoopTop \/ StopOnBudget \/ LeaveInitializing
           \/ BuildContext \/ ContextThrows \/ CancelledBeforeChat \/ ModelThrows
           \/ CancelledBeforeTool \/ ToolThrows \/ Observe \/ StartVerification
           \/ VerifierThrows \/ FinishVerification \/ Finish
  <2>1. UNCHANGED used /\ pc' \notin {"prompt", "chat", "tools", "dispatch"}
    BY <1>6 DEF Start, CancelledAtLoopTop, StopOnBudget, LeaveInitializing,
       BuildContext, ContextThrows, CancelledBeforeChat, ModelThrows,
       CancelledBeforeTool, ToolThrows, Observe, StartVerification, VerifierThrows,
       FinishVerification, Finish, Throw, LogThrows, Arm, InLoop
  <2>2. QED
    BY <1>1, <2>1
<1>7. CASE Cancel \/ UNCHANGED vars
  BY <1>0, <1>7 DEF Cancel, vars, local, NoTurnUnderZeroLimit, BudgetOvershoot,
     AtMostOneResponseOver
<1>8. QED
  BY <1>2, <1>3, <1>4, <1>5, <1>6, <1>7 DEF Next, Step, Over

LEMMA InitBudget == Init => BudgetInv
<1> SUFFICES ASSUME Init PROVE BudgetInv
  OBVIOUS
<1>1. Budget \in Amounts
  BY InitTypeOK, BudgetType
<1>2. QED
  BY <1>1, BoundsAssumption
     DEF BudgetInv, Init, NoTurnUnderZeroLimit, BudgetOvershoot,
         AtMostOneResponseOver, NothingUsed, Amounts

LEMMA BudgetInvariant == Spec => []BudgetInv
BY InitBudget, StepBudget, TypeAndPhase, PTL DEF Spec

\* Whatever the model asks for, a run overshoots a limit by less than one
\* response can add, and the limit on turns not at all.
THEOREM OvershootBounded == Spec => []BudgetOvershoot
<1>1. BudgetInv => BudgetOvershoot
  BY DEF BudgetInv
<1>2. QED
  BY <1>1, BudgetInvariant, PTL

\* A budget with a zero in it never buys a turn.
THEOREM ZeroLimitStopsRun == Spec => []NoTurnUnderZeroLimit
<1>1. BudgetInv => NoTurnUnderZeroLimit
  BY DEF BudgetInv
<1>2. QED
  BY <1>1, BudgetInvariant, PTL

\* Whatever the limits, the budget is kept in both senses.
THEOREM BudgetHolds == Spec => []BudgetKept
<1>1. BudgetOvershoot /\ NoTurnUnderZeroLimit => BudgetKept
  BY DEF BudgetKept
<1>2. QED
  BY <1>1, OvershootBounded, ZeroLimitStopsRun, PTL

(***************************************************************************)
(* The outcome. run.completion and run.final_answer are set in different   *)
(* arms of the switch; the invariant ties both to the machine's state.     *)
(***************************************************************************)
OutcomeInv ==
  /\ sm = "Completed" =>
       /\ run.completion \in {"ImplementedVerified", "CompletedUnverified"}
       /\ run.final_answer \in {"content", "content, verification failed"}
  /\ sm = "Failed" =>
       /\ run.completion = "Failed"
       /\ run.final_answer \in {"Budget exhausted", "denied"}
  /\ sm = "Verifying" =>
       run.completion = "Failed" /\ run.final_answer = "content"
  /\ sm \notin {"Completed", "Failed", "Verifying"} =>
       run.completion = "Failed" /\ run.final_answer = "none"
  /\ sm \in {"Verifying", "Completed"} /\ run.completion # "CompletedUnverified" =>
       VerificationRequested
  /\ pc = "returned" => run.state = sm

\* What an assignment to a field of the AgentRun leaves in the other two.
LEMMA RunFields ==
  ASSUME NEW r \in AgentRun, NEW s, NEW a, NEW c
  PROVE  /\ [r EXCEPT !.state = s].state = s
         /\ [r EXCEPT !.state = s].completion = r.completion
         /\ [r EXCEPT !.state = s].final_answer = r.final_answer
         /\ [r EXCEPT !.final_answer = a].completion = r.completion
         /\ [r EXCEPT !.final_answer = a].final_answer = a
         /\ [r EXCEPT !.final_answer = a, !.state = s].completion = r.completion
         /\ [r EXCEPT !.final_answer = a, !.state = s].final_answer = a
         /\ [r EXCEPT !.state = s, !.completion = c].state = s
         /\ [r EXCEPT !.state = s, !.completion = c].completion = c
         /\ [r EXCEPT !.state = s, !.completion = c].final_answer = r.final_answer
BY DEF AgentRun

LEMMA StepOutcome ==
  TypeOK /\ PhaseMatchesState /\ OutcomeInv /\ [Next]_vars => OutcomeInv'
<1> SUFFICES ASSUME TypeOK, PhaseMatchesState, OutcomeInv, [Next]_vars
             PROVE  OutcomeInv'
  OBVIOUS
<1> USE DEF OutcomeInv, local
<1>0. run \in AgentRun
  BY DEF TypeOK
<1>1. ASSUME UNCHANGED <<request, sm, run>>, pc' # "returned" \/ UNCHANGED pc
      PROVE  OutcomeInv'
  BY <1>1 DEF VerificationRequested
\* A step of the machine before there is an outcome only copies its state.
<1>m. ASSUME sm \notin {"Completed", "Failed", "Verifying"},
             sm' \notin {"Completed", "Failed", "Verifying"},
             run' = [run EXCEPT !.state = sm'], pc' # "returned"
      PROVE  OutcomeInv'
  <2>1. run'.completion = run.completion /\ run'.final_answer = run.final_answer
    BY <1>0, <1>m, RunFields
  <2>2. QED
    BY <1>m, <2>1
<1>2. CASE Start \/ CancelledAtLoopTop \/ ContextThrows \/ BuildPrompt
           \/ CancelledBeforeChat \/ CallModel \/ ModelThrows
           \/ CancelledBeforeTool \/ Dispatch \/ ToolThrows \/ StartVerification
           \/ VerifierThrows \/ Cancel \/ UNCHANGED vars
  BY <1>1, <1>2 DEF Start, CancelledAtLoopTop, ContextThrows, BuildPrompt,
     CancelledBeforeChat, CallModel, ModelThrows, CancelledBeforeTool, Dispatch,
     ToolThrows, StartVerification, VerifierThrows, Cancel, vars, Throw, LogThrows
<1>3. CASE StopOnBudget
  <2>1. sm' = "Failed" /\ run.completion = "Failed"
    BY <1>3, TransitionsGranted, Members
       DEF StopOnBudget, InLoop, IsTerminalState, TypeOK
  <2>2. run'.completion = "Failed" /\ run'.final_answer = "Budget exhausted"
    BY <1>0, <1>3, <2>1, RunFields DEF StopOnBudget
  <2>3. QED
    BY <1>3, <2>1, <2>2 DEF StopOnBudget, InLoop
<1>4. CASE LeaveInitializing
  BY <1>4, TransitionsGranted DEF LeaveInitializing, Arm, InLoop
<1>5. CASE BuildContext
  BY <1>5, <1>m, TransitionsGranted DEF BuildContext, Arm, InLoop, LogThrows
<1>6. CASE ModelResponds
  <2>0. /\ sm = "AwaitingModel" /\ run.completion = "Failed"
        /\ run.final_answer = "none" /\ UNCHANGED request
    BY <1>6 DEF ModelResponds, PhaseMatchesState
  <2>1. CASE ResponseLogFails
    BY <1>m, <2>0, <2>1, TransitionsGranted DEF ResponseLogFails, LogThrows
  <2>2. ASSUME NEW n \in 1..MaxCalls, TakeCalls(n) PROVE OutcomeInv'
    BY <1>0, <2>0, <2>2, RunFields, TransitionsGranted DEF TakeCalls
  <2>3. CASE TakeAnswer
    BY <2>0, <2>3, TransitionsGranted DEF TakeAnswer, VerificationRequested
  <2>4. QED
    BY <1>6, <2>1, <2>2, <2>3 DEF ModelResponds
<1>7. CASE ToolDenied
  <2>1. sm = "ExecutingTools" /\ sm' = "Failed"
    BY <1>7, TransitionsGranted, Members DEF ToolDenied, PhaseMatchesState
  <2>2. run'.completion = "Failed" /\ run'.final_answer = "denied"
    BY <1>0, <1>7, <2>1, RunFields DEF ToolDenied
  <2>3. QED
    BY <1>7, <2>1, <2>2 DEF ToolDenied
<1>8. CASE ToolReturns
  <2>1. sm = "ExecutingTools"
    BY <1>8 DEF ToolReturns, PhaseMatchesState
  <2>2. CASE NextCall /\ calls > 1
    BY <1>1, <1>8, <2>2 DEF ToolReturns, NextCall
  <2>3. CASE NextCall /\ ~(calls > 1)
    BY <1>m, <2>1, <2>3, TransitionsGranted DEF NextCall
  <2>4. CASE LogThrows /\ UNCHANGED <<calls, sm, run>>
    BY <1>1, <1>8, <2>4 DEF ToolReturns, LogThrows
  <2>5. QED
    BY <1>8, <2>2, <2>3, <2>4 DEF ToolReturns
<1>9. CASE Observe
  BY <1>9, <1>m, TransitionsGranted DEF Observe, Arm, InLoop
<1>10. CASE FinishVerification
  <2>1. sm = "Verifying" /\ UNCHANGED request
    BY <1>10 DEF FinishVerification, PhaseMatchesState
  <2>2. CASE LogThrows /\ UNCHANGED <<sm, run>>
    BY <1>1, <2>1, <2>2 DEF LogThrows
  <2>3. ASSUME NEW build \in BOOLEAN, NEW tests \in BOOLEAN,
               sm' = Transition(sm, "Completed"), pc' = "loop",
               run' = [state |-> sm',
                       completion |-> IF Verdict(build, tests)
                                      THEN "ImplementedVerified"
                                      ELSE "CompletedUnverified",
                       final_answer |-> IF ~Verdict(build, tests) /\ had_tool_calls
                                        THEN "content, verification failed"
                                        ELSE run.final_answer]
        PROVE  OutcomeInv'
    <3>1. sm' = "Completed" /\ VerificationRequested'
      BY <2>1, <2>3, TransitionsGranted DEF VerificationRequested
    <3>2. run'.completion \in {"ImplementedVerified", "CompletedUnverified"}
      BY <2>3, Zenon
    <3>3. run'.final_answer \in {"content", "content, verification failed"}
      BY <2>1, <2>3, Zenon
    <3>4. QED
      BY <2>3, <3>1, <3>2, <3>3
  <2>4. QED
    BY <1>10, <2>2, <2>3 DEF FinishVerification
<1>11. CASE Finish
  <2>1. run' = Settled /\ UNCHANGED <<request, sm>> /\ sm \in {"Completed", "Failed"}
    BY <1>11 DEF Finish, IsTerminalState, PhaseMatchesState
  <2>2. /\ Settled.state = sm /\ Settled.final_answer = run.final_answer
        /\ Settled.completion = run.completion
    <3> DEFINE c == CASE sm = "Failed" -> "Failed"
                      [] sm = "Completed" /\ run.completion = "Failed"
                           -> "CompletedUnverified"
                      [] OTHER -> run.completion
    <3>1. c = run.completion
      BY <2>1
    <3>2. Settled = [run EXCEPT !.state = sm, !.completion = c]
      BY DEF Settled
    <3> HIDE DEF c
    <3>3. QED
      BY <1>0, <3>1, <3>2 DEF AgentRun
  <2>3. QED
    BY <2>1, <2>2 DEF VerificationRequested
<1>12. QED
  BY <1>2, <1>3, <1>4, <1>5, <1>6, <1>7, <1>8, <1>9, <1>10, <1>11
     DEF Next, Step, Over

LEMMA OutcomeInvariant == Spec => []OutcomeInv
<1>1. Init => OutcomeInv
  BY DEF Init, OutcomeInv
<1>2. QED
  BY <1>1, StepOutcome, TypeAndPhase, PTL DEF Spec

\* Whoever calls run() gets a completion, a state and an answer that agree.
THEOREM OutcomeAgrees == Spec => []OutcomeConsistent
<1>1. PhaseMatchesState /\ OutcomeInv => OutcomeConsistent
  BY DEF PhaseMatchesState, OutcomeInv, OutcomeConsistent
<1>2. QED
  BY <1>1, TypeAndPhase, OutcomeInvariant, PTL

(***************************************************************************)
(* The record. What the log holds is tied to where the machine is: no      *)
(* answer before it verifies or ends, no verdict before it completes, no   *)
(* closing event before run() returns.                                     *)
(***************************************************************************)
Recorded(types) == \E i \in DOMAIN log : log[i].type \in types
Answered == \E i \in DOMAIN log : IsAnswer(log[i])
Verdicts == {"VerificationPassed", "VerificationFailed"}

\* The one way an answer is lost.
AnswerLost ==
  /\ sm = "Failed"
  /\ VerificationRequested
  /\ BudgetExhausted(Budget, used)
  /\ run.final_answer = "Budget exhausted"

LogInv ==
  /\ TerminalEventClosesLog
  /\ VerifiedMeansVerified
  /\ Answered => sm \in {"Verifying", "Completed"} \/ AnswerLost
  /\ sm # "Completed" => ~Recorded(Verdicts)

\* log_event adds one event at the end, or nothing when no log is attached.
LEMMA LogGrows ==
  ASSUME log \in Seq(Event), NEW event \in Event, Log(event)
  PROVE  /\ \A i \in DOMAIN log' :
              \/ i = Len(log') /\ log'[i] = event /\ EventLogAttached
              \/ i \in DOMAIN log /\ log'[i] = log[i]
         /\ \A i \in DOMAIN log : i \in DOMAIN log' /\ log'[i] = log[i]
         /\ EventLogAttached =>
              /\ log' # <<>>
              /\ Len(log') \in DOMAIN log'
              /\ log'[Len(log')] = event
<1>1. CASE EventLogAttached
  BY <1>1 DEF Log
<1>2. CASE ~EventLogAttached
  BY <1>2 DEF Log
<1>3. QED
  BY <1>1, <1>2

LEMMA RunEventFields ==
  \A type, n, completion :
    /\ RunEvent(type, n, completion).type = type
    /\ RunEvent(type, n, completion).calls = n
    /\ RunEvent(type, n, completion).completion = completion
BY DEF RunEvent

\* An event that neither answers nor judges nor closes, while there is no
\* outcome yet.
LEMMA PlainEvent ==
  ASSUME TypeOK, OutcomeInv, OutcomeInv', LogInv, pc # "returned", pc' # "returned",
         NEW event \in Event, Log(event),
         event.type \notin Verdicts \cup {"RunCompleted"}, ~IsAnswer(event),
         sm \notin {"Completed", "Failed", "Verifying"},
         sm' \notin {"Completed", "Failed", "Verifying"}
  PROVE  LogInv'
<1>0. log \in Seq(Event)
  BY DEF TypeOK
<1>1. ~Answered /\ ~Recorded(Verdicts)
  BY DEF LogInv, AnswerLost
<1>2. ~Answered'
  BY <1>0, <1>1, LogGrows DEF Answered
<1>3. ~Recorded(Verdicts)'
  BY <1>0, <1>1, LogGrows DEF Recorded
<1>4. TerminalEventClosesLog'
  BY <1>0, LogGrows DEF TerminalEventClosesLog, LogInv
<1>5. VerifiedMeansVerified'
  BY DEF VerifiedMeansVerified, OutcomeInv
<1>6. QED
  BY <1>2, <1>3, <1>4, <1>5 DEF LogInv

\* Nothing is logged and there is no outcome yet.
LEMMA NoEvent ==
  ASSUME OutcomeInv, OutcomeInv', LogInv, UNCHANGED log,
         pc # "returned", pc' # "returned",
         sm \notin {"Completed", "Failed", "Verifying"},
         sm' \notin {"Completed", "Verifying"}
  PROVE  LogInv'
<1>1. ~Answered' /\ ~Recorded(Verdicts)'
  BY DEF LogInv, AnswerLost, Answered, Recorded
<1>2. TerminalEventClosesLog'
  BY DEF TerminalEventClosesLog, LogInv
<1>3. VerifiedMeansVerified'
  BY DEF VerifiedMeansVerified, OutcomeInv
<1>4. QED
  BY <1>1, <1>2, <1>3 DEF LogInv

LEMMA StepLog ==
  ASSUME TypeOK, TypeOK', PhaseMatchesState, BudgetInv, OutcomeInv, OutcomeInv',
         LogInv, [Next]_vars
  PROVE  LogInv'
<1> USE DEF local
<1>0. log \in Seq(Event) /\ run.completion \in RunCompletion
  BY DEF TypeOK, AgentRun
<1>1. ASSUME UNCHANGED <<request, log, sm, run, used>>,
             pc' # "returned" \/ UNCHANGED pc, pc # "returned" \/ UNCHANGED pc
      PROVE  LogInv'
  <2>1. TerminalEventClosesLog'
    BY <1>1 DEF LogInv, TerminalEventClosesLog
  <2>2. VerifiedMeansVerified'
    BY <1>1 DEF LogInv, VerifiedMeansVerified, VerificationRequested
  <2>3. Answered' => sm' \in {"Verifying", "Completed"} \/ AnswerLost'
    BY <1>1 DEF LogInv, Answered, AnswerLost, VerificationRequested, Budget
  <2>4. sm' # "Completed" => ~Recorded(Verdicts)'
    BY <1>1 DEF LogInv, Recorded
  <2>5. QED
    BY <2>1, <2>2, <2>3, <2>4 DEF LogInv
<1>2. CASE CancelledAtLoopTop \/ ContextThrows \/ BuildPrompt
           \/ CancelledBeforeChat \/ CallModel \/ ModelThrows
           \/ CancelledBeforeTool \/ Dispatch \/ ToolThrows \/ StartVerification
           \/ VerifierThrows \/ Cancel \/ UNCHANGED vars
  BY <1>1, <1>2 DEF CancelledAtLoopTop, ContextThrows, BuildPrompt, InLoop, Arm,
     CancelledBeforeChat, CallModel, ModelThrows, CancelledBeforeTool, Dispatch,
     ToolThrows, StartVerification, VerifierThrows, Cancel, vars, Throw
<1>3. CASE Start
  <2>1. CASE LogNote("SessionStarted")
    <3>1. RunEvent("SessionStarted", 0, run.completion) \in Event
      BY <1>0, RunEventType DEF EventType
    <3>2. QED
      BY <1>3, <2>1, <3>1, PlainEvent, RunEventFields
         DEF Start, LogNote, LogThrows, Verdicts, IsAnswer, PhaseMatchesState
  <2>2. CASE LogThrows
    BY <1>1, <1>3, <2>2 DEF Start, LogThrows
  <2>3. QED
    BY <1>3, <2>1, <2>2 DEF Start
<1>4. CASE StopOnBudget
  <2>1. /\ UNCHANGED <<pc, log, request, used>> /\ pc = "loop"
        /\ sm \notin {"Completed", "Failed"} /\ sm' = "Failed"
        /\ run'.final_answer = "Budget exhausted"
    <3>1. sm \in AgentState /\ sm # "Completed" /\ sm # "Failed"
      BY <1>4 DEF StopOnBudget, InLoop, IsTerminalState, TypeOK
    <3>2. QED
      BY <1>4, <3>1, TransitionsGranted, RunFields DEF StopOnBudget, InLoop, TypeOK
  <2>2. CASE sm = "Verifying"
    <3>1. AnswerLost'
      BY <1>4, <2>1, <2>2
         DEF AnswerLost, OutcomeInv, VerificationRequested, StopOnBudget, Budget
    <3>2. TerminalEventClosesLog'
      BY <2>1 DEF TerminalEventClosesLog, LogInv
    <3>3. ~Recorded(Verdicts)'
      BY <2>1, <2>2 DEF Recorded, LogInv
    <3>4. VerifiedMeansVerified'
      BY <2>1 DEF VerifiedMeansVerified, OutcomeInv
    <3>5. QED
      BY <2>1, <3>1, <3>2, <3>3, <3>4 DEF LogInv
  <2>3. CASE sm # "Verifying"
    BY <2>1, <2>3, NoEvent
  <2>4. QED
    BY <2>2, <2>3
<1>5. CASE LeaveInitializing
  BY <1>5, NoEvent, TransitionsGranted DEF LeaveInitializing, Arm, InLoop
<1>6. CASE BuildContext
  <2>1. sm = "BuildingContext" /\ sm' = "AwaitingModel" /\ pc = "loop"
    BY <1>6, TransitionsGranted DEF BuildContext, Arm, InLoop
  <2>2. CASE LogNote("StateChanged") /\ UNCHANGED pc
    <3>1. RunEvent("StateChanged", 0, run.completion) \in Event
      BY <1>0, RunEventType DEF EventType
    <3>2. QED
      BY <2>1, <2>2, <3>1, PlainEvent, RunEventFields DEF LogNote, Verdicts, IsAnswer
  <2>3. CASE LogThrows
    BY <2>1, <2>3, NoEvent DEF LogThrows
  <2>4. QED
    BY <1>6, <2>2, <2>3 DEF BuildContext
<1>7. CASE ModelResponds
  <2>1. sm = "AwaitingModel" /\ pc = "chat" /\ UNCHANGED request
    BY <1>7 DEF ModelResponds, PhaseMatchesState
  <2>2. CASE ResponseLogFails
    BY <2>1, <2>2, NoEvent, TransitionsGranted DEF ResponseLogFails, LogThrows
  <2>3. ASSUME NEW n \in 1..MaxCalls, TakeCalls(n) PROVE LogInv'
    <3>1. RunEvent("AssistantMessage", n, run.completion) \in Event
      BY <1>0, RunEventType, BoundsAssumption DEF EventType
    <3>2. sm' = "ExecutingTools" /\ pc' = "tools"
      BY <2>1, <2>3, TransitionsGranted DEF TakeCalls
    <3>3. n # 0
      BY BoundsAssumption
    <3>4. QED
      BY <2>1, <2>3, <3>1, <3>2, <3>3, PlainEvent, RunEventFields
         DEF TakeCalls, Verdicts, IsAnswer
  <2>4. CASE TakeAnswer
    <3> DEFINE e == RunEvent("AssistantMessage", 0, run.completion)
    <3>1. e \in Event /\ e.type = "AssistantMessage"
      BY <1>0, RunEventType, RunEventFields DEF EventType
    <3>2. Log(e) /\ pc' = "loop" /\ sm' \in {"Verifying", "Completed"}
      BY <2>1, <2>4, TransitionsGranted DEF TakeAnswer
    <3> HIDE DEF e
    <3>3. ~Recorded(Verdicts)'
      BY <1>0, <2>1, <3>1, <3>2, LogGrows DEF Recorded, Verdicts, LogInv
    <3>4. TerminalEventClosesLog'
      BY <1>0, <2>1, <3>1, <3>2, LogGrows DEF TerminalEventClosesLog, LogInv
    <3>5. run'.completion # "ImplementedVerified"
      BY <2>1, <2>4 DEF TakeAnswer, OutcomeInv
    <3>6. QED
      BY <3>2, <3>3, <3>4, <3>5 DEF LogInv, VerifiedMeansVerified
  <2>5. QED
    BY <1>7, <2>2, <2>3, <2>4 DEF ModelResponds
<1>8. CASE ToolDenied
  <2>1. sm = "ExecutingTools" /\ sm' = "Failed"
    BY <1>8, TransitionsGranted, Members DEF ToolDenied, PhaseMatchesState
  <2>2. QED
    BY <1>8, <2>1, NoEvent DEF ToolDenied
<1>9. CASE ToolReturns
  <2>1. sm = "ExecutingTools" /\ pc = "dispatch"
    BY <1>9 DEF ToolReturns, PhaseMatchesState
  <2>2. CASE LogNote("ToolCompleted") /\ NextCall
    <3>1. RunEvent("ToolCompleted", 0, run.completion) \in Event
      BY <1>0, RunEventType DEF EventType
    <3>2. sm' \in {"ExecutingTools", "Observing"} /\ pc' # "returned"
      BY <2>1, <2>2, TransitionsGranted DEF NextCall
    <3>3. QED
      BY <2>1, <2>2, <3>1, <3>2, PlainEvent, RunEventFields
         DEF LogNote, Verdicts, IsAnswer
  <2>3. CASE LogThrows /\ UNCHANGED <<calls, sm, run>>
    BY <2>1, <2>3, NoEvent DEF LogThrows
  <2>4. QED
    BY <1>9, <2>2, <2>3 DEF ToolReturns
<1>10. CASE Observe
  BY <1>10, NoEvent, TransitionsGranted DEF Observe, Arm, InLoop
<1>11. CASE FinishVerification
  <2>1. sm = "Verifying" /\ pc = "verify" /\ UNCHANGED <<request, used>>
    BY <1>11 DEF FinishVerification, PhaseMatchesState
  <2>2. CASE LogThrows /\ UNCHANGED <<sm, run>>
    BY <1>1, <2>1, <2>2 DEF LogThrows
  <2>3. ASSUME NEW build \in BOOLEAN, NEW tests \in BOOLEAN,
               LogNote(IF build /\ tests THEN "VerificationPassed"
                                         ELSE "VerificationFailed"),
               sm' = Transition(sm, "Completed"), pc' = "loop",
               run'.completion = IF Verdict(build, tests)
                                 THEN "ImplementedVerified" ELSE "CompletedUnverified"
        PROVE  LogInv'
    <3> DEFINE verdict == IF build /\ tests THEN "VerificationPassed"
                                            ELSE "VerificationFailed"
               e == RunEvent(verdict, 0, run.completion)
    <3>1. verdict \in Verdicts /\ verdict \in EventType
      BY DEF Verdicts, EventType
    <3>2. e \in Event /\ e.type = verdict /\ Log(e)
      BY <1>0, <2>3, <3>1, RunEventType, RunEventFields DEF LogNote
    <3>3. /\ sm' = "Completed"
          /\ run'.completion = "ImplementedVerified" => verdict = "VerificationPassed"
      BY <2>1, <2>3, TransitionsGranted, Zenon DEF Verdict
    <3> HIDE DEF verdict, e
    <3>4. TerminalEventClosesLog'
      BY <1>0, <2>1, <2>3, <3>1, <3>2, LogGrows
         DEF TerminalEventClosesLog, LogInv, Verdicts
    <3>5. ~Recorded(Verdicts)
      BY <2>1 DEF LogInv
    <3>6. VerifiedMeansVerified'
      <4> SUFFICES ASSUME run'.completion = "ImplementedVerified"
                   PROVE  VerifiedMeansVerified'
        BY DEF VerifiedMeansVerified
      <4>1. verdict = "VerificationPassed"
        BY <3>3
      <4>2. VerificationRequested'
        BY <3>3 DEF OutcomeInv
      <4>3. \A i \in DOMAIN log' : log'[i].type # "VerificationFailed"
        BY <1>0, <3>2, <3>5, <4>1, LogGrows DEF Recorded, Verdicts
      <4>4. EventLogAttached => \E i \in DOMAIN log' : log'[i].type = "VerificationPassed"
        BY <1>0, <3>2, <4>1, LogGrows
      <4>5. QED
        BY <4>2, <4>3, <4>4 DEF VerifiedMeansVerified
    <3>7. QED
      BY <3>3, <3>4, <3>6 DEF LogInv
  <2>4. ASSUME NEW build \in BOOLEAN, NEW tests \in BOOLEAN,
               run' = [state |-> sm',
                       completion |-> IF Verdict(build, tests)
                                      THEN "ImplementedVerified"
                                      ELSE "CompletedUnverified",
                       final_answer |-> IF ~Verdict(build, tests) /\ had_tool_calls
                                        THEN "content, verification failed"
                                        ELSE run.final_answer]
        PROVE  run'.completion = IF Verdict(build, tests)
                                 THEN "ImplementedVerified" ELSE "CompletedUnverified"
    BY <2>4, Zenon
  <2>5. QED
    BY <1>11, <2>2, <2>3, <2>4 DEF FinishVerification
<1>12. CASE Finish
  <2>1. /\ run' = Settled /\ UNCHANGED <<request, sm, used>> /\ pc = "loop"
        /\ sm \in {"Completed", "Failed"}
    BY <1>12 DEF Finish, IsTerminalState, PhaseMatchesState
  <2>2. run'.completion = run.completion /\ run'.final_answer = run.final_answer
    <3> DEFINE c == CASE sm = "Failed" -> "Failed"
                      [] sm = "Completed" /\ run.completion = "Failed"
                           -> "CompletedUnverified"
                      [] OTHER -> run.completion
    <3>1. c = run.completion
      BY <2>1 DEF OutcomeInv
    <3>2. Settled = [run EXCEPT !.state = sm, !.completion = c]
      BY DEF Settled
    <3> HIDE DEF c
    <3>3. QED
      BY <2>1, <3>1, <3>2 DEF TypeOK, AgentRun
  <2>3. AnswerLost => AnswerLost'
    BY <2>1, <2>2 DEF AnswerLost, VerificationRequested, Budget
  <2>4. CASE LogThrows
    <3>1. TerminalEventClosesLog'
      BY <2>1, <2>4 DEF LogThrows, TerminalEventClosesLog, LogInv
    <3>2. VerifiedMeansVerified'
      BY <2>1, <2>2, <2>4
         DEF LogThrows, VerifiedMeansVerified, LogInv, VerificationRequested
    <3>3. QED
      BY <2>1, <2>3, <2>4, <3>1, <3>2 DEF LogThrows, LogInv, Answered, Recorded
  <2>5. CASE Log(RunEvent("RunCompleted", 0, Settled.completion)) /\ pc' = "returned"
    <3> DEFINE e == RunEvent("RunCompleted", 0, Settled.completion)
    <3>1. e \in Event /\ e.type = "RunCompleted" /\ e.completion = run'.completion
      BY <1>0, <2>1, <2>2, RunEventType, RunEventFields DEF EventType
    <3>2. Log(e)
      BY <2>5
    <3> HIDE DEF e
    <3>3. TerminalEventClosesLog'
      BY <1>0, <2>1, <2>5, <3>1, <3>2, LogGrows DEF TerminalEventClosesLog, LogInv
    <3>4. VerifiedMeansVerified'
      BY <1>0, <2>1, <2>2, <3>1, <3>2, LogGrows
         DEF VerifiedMeansVerified, LogInv, VerificationRequested
    <3>5. Recorded(Verdicts)' => Recorded(Verdicts)
      BY <1>0, <3>1, <3>2, LogGrows DEF Recorded, Verdicts
    <3>6. Answered' => Answered
      BY <1>0, <3>1, <3>2, LogGrows DEF Answered, IsAnswer
    <3>7. QED
      BY <2>1, <2>3, <3>3, <3>4, <3>5, <3>6 DEF LogInv
  <2>6. QED
    BY <1>12, <2>4, <2>5 DEF Finish
<1>13. QED
  BY <1>2, <1>3, <1>4, <1>5, <1>6, <1>7, <1>8, <1>9, <1>10, <1>11, <1>12
     DEF Next, Step, Over

LEMMA LogInvariant == Spec => []LogInv
<1>1. Init => LogInv
  BY DEF Init, LogInv, TerminalEventClosesLog, VerifiedMeansVerified, Answered, Recorded
<1>2. TypeOK /\ TypeOK' /\ PhaseMatchesState /\ BudgetInv /\ OutcomeInv /\ OutcomeInv'
        /\ LogInv /\ [Next]_vars => LogInv'
  BY StepLog
<1>3. QED
  BY <1>1, <1>2, TypeAndPhase, BudgetInvariant, OutcomeInvariant, PTL DEF Spec

\* A run is closed on record exactly when run() returned, with the completion
\* the caller got; a run that threw stays open.
THEOREM RecordClosedOnReturn == Spec => []TerminalEventClosesLog
<1>1. LogInv => TerminalEventClosesLog
  BY DEF LogInv
<1>2. QED
  BY <1>1, LogInvariant, PTL

\* No run claims verification without one on record.
THEOREM VerifiedClaimHolds == Spec => []VerifiedMeansVerified
<1>1. LogInv => VerifiedMeansVerified
  BY DEF LogInv
<1>2. QED
  BY <1>1, LogInvariant, PTL

\* What the caller gets, the record and the run agree.
THEOREM RecordTellsOutcome == Spec => []OutcomeOnRecord
<1>1. OutcomeConsistent /\ TerminalEventClosesLog /\ VerifiedMeansVerified => OutcomeOnRecord
  BY DEF OutcomeOnRecord
<1>2. QED
  BY <1>1, OutcomeAgrees, RecordClosedOnReturn, VerifiedClaimHolds, PTL

\* The model's answer reaches the caller, unless it used the budget up while
\* verification was due.
THEOREM AnswerReachesCaller == Spec => []AnswerSurvives
<1>1. PhaseMatchesState /\ LogInv => AnswerSurvives
  BY DEF PhaseMatchesState, LogInv, AnswerSurvives, Answered, AnswerLost
<1>2. QED
  BY <1>1, TypeAndPhase, LogInvariant, PTL

(***************************************************************************)
(* Action properties.                                                      *)
(***************************************************************************)

\* A cancelled run starts nothing more.
THEOREM CancellationStopsWork == Spec => CancelStopsWork
<1>1. [Next]_vars =>
        [cancelled => pc' = pc \/ pc' \notin {"chat", "dispatch", "verify"}]_vars
  BY DEF Next, Step, Over, Start, CancelledAtLoopTop, StopOnBudget, LeaveInitializing,
     BuildContext, ContextThrows, BuildPrompt, CancelledBeforeChat, CallModel,
     ModelThrows, ModelResponds, TakeCalls, TakeAnswer, ResponseLogFails,
     CancelledBeforeTool, Dispatch, ToolThrows, ToolDenied, ToolReturns, NextCall,
     Observe, StartVerification, VerifierThrows, FinishVerification, Finish, Cancel,
     Throw, LogThrows, Arm, InLoop
<1>2. QED
  BY <1>1, PTL DEF Spec, CancelStopsWork

\* After a denial the machine has failed: only closing the run is left.
LEMMA DenialStep ==
  ASSUME TypeOK, PhaseMatchesState, OutcomeInv, [Next]_vars,
         run.final_answer = "denied"
  PROVE  UNCHANGED <<used, conversation>> /\ (pc' \in {"loop", "returned", "threw"})
<1>1. sm = "Failed" /\ pc \in {"loop", "returned", "threw"}
  BY DEF OutcomeInv, PhaseMatchesState, TypeOK, PC
<1>2. CASE Finish \/ Cancel \/ UNCHANGED vars
  BY <1>1, <1>2 DEF Finish, Cancel, vars, local, LogThrows
<1>3. CASE Step
  BY <1>1, <1>2, <1>3
     DEF Step, Start, CancelledAtLoopTop, StopOnBudget, LeaveInitializing,
         BuildContext, ContextThrows, BuildPrompt, CancelledBeforeChat, CallModel,
         ModelThrows, ModelResponds, CancelledBeforeTool, Dispatch, ToolThrows,
         ToolDenied, ToolReturns, Observe, StartVerification, VerifierThrows,
         FinishVerification, Arm, InLoop, IsTerminalState
<1>4. QED
  BY <1>2, <1>3 DEF Next, Over

\* A denied call is the last thing a run does.
THEOREM NothingAfterDenial == Spec => DenialEndsRun
<1>1. TypeOK /\ PhaseMatchesState /\ OutcomeInv /\ [Next]_vars =>
        [run.final_answer = "denied" =>
           UNCHANGED <<used, conversation>>
             /\ pc' \in {"loop", "returned", "threw"}]_vars
  BY DenialStep
<1>2. QED
  BY <1>1, TypeAndPhase, OutcomeInvariant, PTL DEF Spec, DenialEndsRun

(***************************************************************************)
(* The run implements RunTrace: what is last on record, and how many calls *)
(* are left, follows from where the machine is.                            *)
(***************************************************************************)
TraceInv ==
  /\ ~EventLogAttached \/ pc = "start" => log = <<>>
  /\ EventLogAttached /\ pc \notin {"start", "threw"} =>
       /\ log # <<>>
       /\ pc # "returned" => LastEvent # "RunCompleted"
       /\ sm \in {"Initializing", "BuildingContext"} => LastEvent = "SessionStarted"
       /\ sm = "AwaitingModel" => LastEvent \in {"StateChanged", "ToolCompleted"}
       /\ sm = "ExecutingTools" => LastEvent \in {"AssistantMessage", "ToolCompleted"}
       /\ sm = "Observing" => LastEvent = "ToolCompleted"
       /\ sm = "Verifying" => LastEvent = "AssistantMessage"
  /\ EventLogAttached /\ sm \in {"Initializing", "BuildingContext", "AwaitingModel",
                                 "Observing", "Verifying"} => calls = 0

\* Logging moves the end of the record to the new event.
LEMMA LastAfterLog ==
  ASSUME log \in Seq(Event), NEW event \in Event, Log(event), EventLogAttached
  PROVE  log' # <<>> /\ LastEvent' = event.type
BY LogGrows DEF LastEvent

\* Without a log attached the record stays empty.
LEMMA NoLog ==
  ASSUME TraceInv, ~EventLogAttached, [Next]_vars
  PROVE  log = <<>> /\ log' = <<>>
BY DEF TraceInv, Next, Step, Over, vars, local, Start, CancelledAtLoopTop, StopOnBudget,
   LeaveInitializing, BuildContext, ContextThrows, BuildPrompt, CancelledBeforeChat,
   CallModel, ModelThrows, ModelResponds, TakeCalls, TakeAnswer, ResponseLogFails,
   CancelledBeforeTool, Dispatch, ToolThrows, ToolDenied, ToolReturns, Observe,
   StartVerification, VerifierThrows, FinishVerification, Finish, Cancel, Throw,
   LogThrows, LogNote, Log

\* An action that neither logs nor touches the calls stutters in RunTrace.
LEMMA Stutter ==
  ASSUME UNCHANGED <<log, calls>>
  PROVE  [Trace!TraceNext]_(Trace!traceVars)
BY DEF Trace!traceVars, LastEvent, Pending

LEMMA StepTrace ==
  ASSUME TypeOK, TypeOK', PhaseMatchesState, PhaseMatchesState', TraceInv, [Next]_vars,
         EventLogAttached
  PROVE  TraceInv' /\ [Trace!TraceNext]_(Trace!traceVars)
<1> USE DEF TraceInv, local
<1>0. log \in Seq(Event) /\ run.completion \in RunCompletion
  BY DEF TypeOK, AgentRun
<1>1. CASE CancelledAtLoopTop \/ ContextThrows \/ CancelledBeforeChat \/ ModelThrows
           \/ CancelledBeforeTool \/ ToolThrows \/ VerifierThrows
  BY <1>1, Stutter DEF CancelledAtLoopTop, ContextThrows, CancelledBeforeChat, InLoop,
     Arm, ModelThrows, CancelledBeforeTool, ToolThrows, VerifierThrows, Throw, LastEvent
<1>2. CASE BuildPrompt \/ CallModel \/ Dispatch \/ StartVerification \/ Cancel
           \/ UNCHANGED vars
  BY <1>2, Stutter DEF BuildPrompt, CallModel, Dispatch, StartVerification, Cancel,
     InLoop, Arm, vars, LastEvent
<1>3. CASE StopOnBudget
  <2>1. sm' = "Failed"
    BY <1>3, TransitionsGranted DEF StopOnBudget, InLoop, IsTerminalState, TypeOK
  <2>2. QED
    BY <1>3, <2>1, Stutter DEF StopOnBudget, InLoop, LastEvent
<1>4. CASE LeaveInitializing
  BY <1>4, Stutter, TransitionsGranted DEF LeaveInitializing, InLoop, Arm, LastEvent
<1>5. CASE Observe
  BY <1>5, Stutter, TransitionsGranted DEF Observe, InLoop, Arm, LastEvent
<1>6. CASE ToolDenied
  <2>1. sm = "ExecutingTools" /\ sm' = "Failed"
    BY <1>6, TransitionsGranted, Members DEF ToolDenied, PhaseMatchesState
  <2>2. QED
    BY <1>6, <2>1, Stutter DEF ToolDenied, LastEvent
<1>7. CASE Start
  <2>1. log = <<>> /\ sm = "Initializing" /\ calls = 0 /\ UNCHANGED <<sm, calls>>
    BY <1>7 DEF Start, PhaseMatchesState
  <2>2. CASE LogNote("SessionStarted") /\ pc' = "loop"
    <3>1. log' # <<>> /\ LastEvent' = "SessionStarted"
      BY <1>0, <2>2, LastAfterLog, RunEventType, RunEventFields DEF LogNote, EventType
    <3>2. Trace!SessionStarted
      BY <2>1, <3>1 DEF Trace!SessionStarted, LastEvent, Pending
    <3>3. QED
      BY <2>1, <2>2, <3>1, <3>2 DEF Trace!TraceNext
  <2>3. CASE LogThrows
    BY <2>1, <2>3, Stutter DEF LogThrows
  <2>4. QED
    BY <1>7, <2>2, <2>3 DEF Start
<1>8. CASE BuildContext
  <2>1. /\ sm = "BuildingContext" /\ sm' = "AwaitingModel" /\ pc = "loop"
        /\ calls = 0 /\ calls' = 0 /\ log # <<>> /\ LastEvent = "SessionStarted"
    BY <1>8, TransitionsGranted DEF BuildContext, Arm, InLoop
  <2>2. CASE LogNote("StateChanged") /\ UNCHANGED pc
    <3>1. log' # <<>> /\ LastEvent' = "StateChanged"
      BY <1>0, <2>2, LastAfterLog, RunEventType, RunEventFields DEF LogNote, EventType
    <3>2. Trace!ContextBuilt
      BY <2>1, <3>1 DEF Trace!ContextBuilt, Pending
    <3>3. QED
      BY <2>1, <2>2, <3>1, <3>2 DEF Trace!TraceNext
  <2>3. CASE LogThrows
    BY <2>1, <2>3, Stutter DEF LogThrows
  <2>4. QED
    BY <1>8, <2>2, <2>3 DEF BuildContext
<1>9. CASE ModelResponds
  <2>1. /\ sm = "AwaitingModel" /\ pc = "chat" /\ calls = 0 /\ log # <<>>
        /\ LastEvent \in {"StateChanged", "ToolCompleted"}
    BY <1>9 DEF ModelResponds, PhaseMatchesState
  <2>2. CASE ResponseLogFails
    BY <2>1, <2>2, Stutter, TransitionsGranted DEF ResponseLogFails, LogThrows
  <2>3. ASSUME NEW n \in 1..MaxCalls, TakeCalls(n)
        PROVE  TraceInv' /\ Trace!AssistantMessage
    <3>1. RunEvent("AssistantMessage", n, run.completion) \in Event
      BY <1>0, RunEventType, BoundsAssumption DEF EventType
    <3>2. log' # <<>> /\ LastEvent' = "AssistantMessage"
      BY <1>0, <2>3, <3>1, LastAfterLog, RunEventFields DEF TakeCalls
    <3>3. calls' = n /\ sm' = "ExecutingTools" /\ pc' = "tools"
      BY <2>1, <2>3, TransitionsGranted DEF TakeCalls
    <3>4. Trace!AssistantMessage
      BY <2>1, <3>2, <3>3, BoundsAssumption DEF Trace!AssistantMessage, Pending
    <3>5. QED
      BY <3>2, <3>3, <3>4
  <2>4. CASE TakeAnswer
    <3>1. RunEvent("AssistantMessage", 0, run.completion) \in Event
      BY <1>0, RunEventType DEF EventType
    <3>2. log' # <<>> /\ LastEvent' = "AssistantMessage"
      BY <1>0, <2>4, <3>1, LastAfterLog, RunEventFields DEF TakeAnswer
    <3>3. calls' = 0 /\ sm' \in {"Verifying", "Completed"} /\ pc' = "loop"
      BY <2>1, <2>4, TransitionsGranted DEF TakeAnswer
    <3>4. Trace!AssistantMessage
      BY <2>1, <3>2, <3>3, BoundsAssumption DEF Trace!AssistantMessage, Pending
    <3>5. QED
      BY <3>2, <3>3, <3>4 DEF Trace!TraceNext
  <2>5. QED
    BY <1>9, <2>2, <2>3, <2>4 DEF ModelResponds, Trace!TraceNext
<1>10. CASE ToolReturns
  <2>1. /\ sm = "ExecutingTools" /\ pc = "dispatch" /\ calls > 0 /\ log # <<>>
        /\ LastEvent \in {"AssistantMessage", "ToolCompleted"} /\ calls \in Nat
    BY <1>10 DEF ToolReturns, PhaseMatchesState, TypeOK
  <2>2. CASE LogNote("ToolCompleted") /\ calls' = calls - 1 /\ NextCall
    <3>1. log' # <<>> /\ LastEvent' = "ToolCompleted"
      BY <1>0, <2>2, LastAfterLog, RunEventType, RunEventFields DEF LogNote, EventType
    <3>2. Trace!ToolCompleted
      BY <2>1, <2>2, <3>1 DEF Trace!ToolCompleted, Pending
    <3>3. \/ pc' = "tools" /\ sm' = "ExecutingTools"
          \/ pc' = "loop" /\ sm' = "Observing" /\ calls' = 0
      BY <2>1, <2>2, TransitionsGranted DEF NextCall
    <3>4. QED
      BY <3>1, <3>2, <3>3 DEF Trace!TraceNext
  <2>3. CASE LogThrows /\ UNCHANGED <<calls, sm, run>>
    BY <2>1, <2>3, Stutter DEF LogThrows
  <2>4. QED
    BY <1>10, <2>2, <2>3 DEF ToolReturns
<1>11. CASE FinishVerification
  <2>1. /\ sm = "Verifying" /\ pc = "verify" /\ calls = 0 /\ calls' = 0
        /\ log # <<>> /\ LastEvent = "AssistantMessage"
    BY <1>11 DEF FinishVerification, PhaseMatchesState
  <2>2. CASE LogThrows /\ UNCHANGED <<sm, run>>
    BY <2>1, <2>2, Stutter DEF LogThrows
  <2>3. ASSUME NEW verdict \in Verdicts, LogNote(verdict),
               sm' = Transition(sm, "Completed"), pc' = "loop"
        PROVE  TraceInv' /\ [Trace!TraceNext]_(Trace!traceVars)
    <3>1. log' # <<>> /\ LastEvent' = verdict
      BY <1>0, <2>3, LastAfterLog, RunEventType, RunEventFields
         DEF LogNote, EventType, Verdicts
    <3>2. Trace!Verification
      BY <2>1, <3>1 DEF Trace!Verification, Pending, Verdicts
    <3>3. sm' = "Completed"
      BY <2>1, <2>3, TransitionsGranted
    <3>4. QED
      BY <2>3, <3>1, <3>2, <3>3 DEF Trace!TraceNext, Verdicts
  <2>4. QED
    BY <1>11, <2>2, <2>3 DEF FinishVerification, Verdicts
<1>12. CASE Finish
  <2>1. /\ pc = "loop" /\ sm \in {"Completed", "Failed"} /\ sm' = sm /\ calls' = calls
        /\ log # <<>> /\ LastEvent # "RunCompleted"
    BY <1>12 DEF Finish, IsTerminalState, PhaseMatchesState
  <2>2. CASE LogThrows
    BY <2>1, <2>2, Stutter DEF LogThrows
  <2>3. CASE Log(RunEvent("RunCompleted", 0, Settled.completion)) /\ pc' = "returned"
    <3>1. Settled.completion \in RunCompletion
      BY Members, RunUpdates DEF Settled, TypeOK
    <3>2. log' # <<>> /\ LastEvent' = "RunCompleted"
      BY <1>0, <2>3, <3>1, LastAfterLog, RunEventType, RunEventFields DEF EventType
    <3>3. LastEvent # "none"
      <4>1. log[Len(log)] \in Event
        BY <1>0, <2>1
      <4>2. log[Len(log)].type \in EventType
        BY <4>1 DEF Event
      <4>3. QED
        BY <2>1, <4>2 DEF LastEvent, EventType
    <3>4. Trace!RunCompleted
      BY <2>1, <3>2, <3>3 DEF Trace!RunCompleted, Pending
    <3>5. QED
      BY <2>1, <2>3, <3>2, <3>4 DEF Trace!TraceNext
  <2>4. QED
    BY <1>12, <2>2, <2>3 DEF Finish
<1>13. QED
  BY <1>1, <1>2, <1>3, <1>4, <1>5, <1>6, <1>7, <1>8, <1>9, <1>10, <1>11, <1>12
     DEF Next, Step, Over

\* Without a log attached nothing happens in RunTrace.
LEMMA StepWithoutLog ==
  ASSUME TraceInv, [Next]_vars, ~EventLogAttached
  PROVE  TraceInv' /\ UNCHANGED Trace!traceVars
<1>1. log = <<>> /\ log' = <<>>
  BY NoLog
<1>2. QED
  BY <1>1 DEF TraceInv, Trace!traceVars, LastEvent, Pending

LEMMA TraceInvariant ==
  Spec => [](TypeOK /\ PhaseMatchesState /\ TraceInv)
<1>1. Init => TraceInv
  BY DEF Init, TraceInv
<1>2. TypeOK /\ TypeOK' /\ PhaseMatchesState /\ PhaseMatchesState' /\ TraceInv
        /\ [Next]_vars => TraceInv'
  BY StepTrace, StepWithoutLog
<1>3. QED
  BY <1>1, <1>2, TypeAndPhase, PTL DEF Spec

\* What run() appends to the log is a trace of RunTrace: a context before the
\* first response, one result per call before the next one, verification only
\* after an answer, and nothing after the close.
THEOREM RunImplementsTrace == Spec => RefinesTrace
<1>1. Init => Trace!TraceInit
  BY DEF Init, Trace!TraceInit, LastEvent, Pending
<1>2. TypeOK /\ TypeOK' /\ PhaseMatchesState /\ PhaseMatchesState' /\ TraceInv
        /\ [Next]_vars => [Trace!TraceNext]_(Trace!traceVars)
  BY StepTrace, StepWithoutLog
<1>3. QED
  BY <1>1, <1>2, TraceInvariant, PTL DEF Spec, RefinesTrace, Trace!TraceSpec
====
