---- MODULE AgentRuntime ----
(***************************************************************************)
(* AgentRuntime::run: one run of the agent, from the request to the AgentRun
   it returns or the exception it lets escape. One thread executes run();
   another may cancel the token it polls. pc names the places where that
   thread can be seen from outside: the top of the loop, the two calls it
   waits on (the model, a tool), the verification, and the two ends.       *)
(***************************************************************************)
EXTENDS AgentStates, Sequences

CONSTANTS
  Requests,           \* run requests: mode, verify, and budget limits
  MaxCalls,           \* most tool calls one model response carries
  MaxUsage,           \* most tokens, of each kind, one response reports
  EventLogAttached,   \* has set_event_log been called
  LogMayThrow         \* can opening the log file for append fail

RunRequest == [mode : AgentMode, verify : BOOLEAN, budget : Amounts]

ASSUME RequestsAssumption == Requests \subseteq RunRequest
ASSUME BoundsAssumption == MaxCalls \in Nat /\ MaxUsage \in Nat
ASSUME LogAssumption == EventLogAttached \in BOOLEAN /\ LogMayThrow \in BOOLEAN

VARIABLES
  request,          \* the RunRequest
  cancelled,        \* the flag every copy of the token shares
  pc,               \* where run() is
  sm,               \* the state of the local StateMachine
  run,              \* the AgentRun: state, completion, final_answer
  used,             \* run.budget's used_* counters
  calls,            \* tool calls of the last response not yet finished
  had_tool_calls,
  conversation,     \* entries pushed on ctx_req.conversation
  log               \* the run's events in the log

local == <<calls, had_tool_calls, conversation>>
vars == <<request, cancelled, pc, sm, run, used, local, log>>

RunCompletion ==
  {"ImplementedVerified", "CompletedUnverified", "Failed", "Cancelled"}
Answer == {"none", "content", "content, verification failed",
           "Budget exhausted", "denied"}
AgentRun ==
  [state : AgentState, completion : RunCompletion, final_answer : Answer]
EventType == {"SessionStarted", "StateChanged", "AssistantMessage",
              "ToolCompleted", "VerificationPassed", "VerificationFailed",
              "RunCompleted"}
Event == [type : EventType, calls : Nat, completion : RunCompletion]
PC == {"start", "loop", "prompt", "chat", "tools", "dispatch", "verify",
       "returned", "threw"}
Ended == {"returned", "threw"}

\* The budget in force: the mode's default when the request leaves it at zero.
Budget ==
  IF request.budget.turns # 0 THEN request.budget
                              ELSE DefaultBudgetFor(request.mode)

VerificationRequested == request.verify /\ request.mode = "Agent"

Init ==
  /\ request \in Requests
  /\ cancelled = FALSE
  /\ pc = "start"
  /\ sm = "Initializing"
  /\ run = [state |-> "Initializing", completion |-> "Failed",
            final_answer |-> "none"]
  /\ used = NothingUsed
  /\ calls = 0
  /\ had_tool_calls = FALSE
  /\ conversation = 0
  /\ log = <<>>

(***************************************************************************)
(* log_event maps the runtime's event names to EventTypes; the payload     *)
(* keeps the number of calls of a response and the completion of a run.    *)
(***************************************************************************)
RunEvent(type, n, completion) ==
  [type |-> type, calls |-> n, completion |-> completion]

Log(event) == log' = IF EventLogAttached THEN Append(log, event) ELSE log

LogNote(type) == Log(RunEvent(type, 0, run.completion))

\* EventLog::append cannot open the file: run() ends with that exception.
LogThrows ==
  /\ EventLogAttached /\ LogMayThrow
  /\ pc' = "threw"
  /\ UNCHANGED log

\* An exception leaves run(): whatever the locals held is gone with it.
Throw ==
  /\ pc' = "threw"
  /\ UNCHANGED <<request, cancelled, sm, run, used, local, log>>

(***************************************************************************)
(* The environment: the token is cancelled at any time until run() ends.   *)
(***************************************************************************)
Cancel ==
  /\ pc \notin Ended
  /\ cancelled' = TRUE
  /\ UNCHANGED <<request, pc, sm, run, used, local, log>>

(***************************************************************************)
(* Before the loop, and the checks at its top.                             *)
(***************************************************************************)
Start ==
  /\ pc = "start"
  /\ \/ LogNote("SessionStarted") /\ pc' = "loop"
     \/ LogThrows
  /\ UNCHANGED <<request, cancelled, sm, run, used, local>>

InLoop == pc = "loop" /\ ~IsTerminalState(sm)

CancelledAtLoopTop == InLoop /\ cancelled /\ Throw

StopOnBudget ==
  /\ InLoop /\ ~cancelled
  /\ BudgetExhausted(Budget, used)
  /\ sm' = Transition(sm, "Failed")
  /\ run' = [run EXCEPT !.final_answer = "Budget exhausted"]
  /\ UNCHANGED <<request, cancelled, pc, used, local, log>>

\* mutant: the loop goes on without polling the token
ArmUncancellable(s) == InLoop /\ ~BudgetExhausted(Budget, used) /\ sm = s

\* The switch reaches the arm of state s.
Arm(s) == InLoop /\ ~cancelled /\ ~BudgetExhausted(Budget, used) /\ sm = s

(***************************************************************************)
(* The arms of the switch.                                                 *)
(***************************************************************************)
LeaveInitializing ==
  /\ Arm("Initializing")
  /\ sm' = Transition(sm, "BuildingContext")
  /\ UNCHANGED <<request, cancelled, pc, run, used, local, log>>

BuildContext ==
  /\ Arm("BuildingContext")
  /\ conversation' = conversation + 1
  /\ sm' = Transition(sm, "AwaitingModel")
  /\ run' = [run EXCEPT !.state = sm']
  /\ \/ LogNote("StateChanged") /\ UNCHANGED pc
     \/ LogThrows
  /\ UNCHANGED <<request, cancelled, used, calls, had_tool_calls>>

\* Rules and project detection read the workspace and may throw.
ContextThrows ==
  /\ Arm("BuildingContext") \/ Arm("AwaitingModel")
  /\ Throw

BuildPrompt ==
  /\ Arm("AwaitingModel")
  /\ pc' = "prompt"
  /\ UNCHANGED <<request, cancelled, sm, run, used, local, log>>

CancelledBeforeChat == pc = "prompt" /\ cancelled /\ Throw

CallModel ==
  /\ pc = "prompt" /\ ~cancelled
  /\ pc' = "chat"
  /\ UNCHANGED <<request, cancelled, sm, run, used, local, log>>

ModelThrows == pc = "chat" /\ Throw

\* used_turns counts every response; usage is optional and may be zero.
Spend(in, out) ==
  used' = [used EXCEPT !.turns = @ + 1, !.input_tokens = @ + in,
                       !.output_tokens = @ + out]

ResponseLogFails ==
  /\ sm' = Transition(sm, "ParsingResponse")
  /\ run' = [run EXCEPT !.state = sm']
  /\ LogThrows
  /\ UNCHANGED local

\* A response with n > 0 tool calls.
TakeCalls(n) ==
  /\ sm' = Transition(Transition(sm, "ParsingResponse"), "ExecutingTools")
  /\ calls' = n
  /\ run' = [run EXCEPT !.state = Transition(sm, "ParsingResponse")]
  /\ pc' = "tools"
  /\ Log(RunEvent("AssistantMessage", n, run.completion))
  /\ UNCHANGED <<had_tool_calls, conversation>>

\* mutant: every mode goes through verification
TakeAnswerAlwaysVerifies ==
  /\ sm' = Transition(Transition(sm, "ParsingResponse"), "Verifying")
  /\ run' = [run EXCEPT !.state = sm', !.final_answer = "content"]
  /\ pc' = "loop"
  /\ Log(RunEvent("AssistantMessage", 0, run.completion))
  /\ UNCHANGED local

\* A response without tool calls is the final answer.
TakeAnswer ==
  /\ sm' = Transition(Transition(sm, "ParsingResponse"),
                      IF VerificationRequested THEN "Verifying" ELSE "Completed")
  /\ run' = [state |-> sm', final_answer |-> "content",
             completion |-> IF VerificationRequested THEN run.completion
                                                     ELSE "CompletedUnverified"]
  /\ pc' = "loop"
  /\ Log(RunEvent("AssistantMessage", 0, run.completion))
  /\ UNCHANGED local

ModelResponds ==
  /\ pc = "chat"
  /\ \E in, out \in 0..MaxUsage : Spend(in, out)
  /\ \/ \E n \in 1..MaxCalls : TakeCalls(n)
     \/ TakeAnswer
     \/ ResponseLogFails
  /\ UNCHANGED <<request, cancelled>>

(***************************************************************************)
(* The tool calls of one response, in order.                               *)
(***************************************************************************)
CancelledBeforeTool == pc = "tools" /\ cancelled /\ Throw

Dispatch ==
  /\ pc = "tools" /\ ~cancelled
  /\ pc' = "dispatch"
  /\ UNCHANGED <<request, cancelled, sm, run, used, local, log>>

\* A tool polls the token again before it acts, and may fail on its own.
ToolThrows == pc = "dispatch" /\ Throw

\* mutant: the loop over the calls goes on after a denial
ToolDeniedGoesOn ==
  /\ pc = "dispatch"
  /\ had_tool_calls' = TRUE
  /\ used' = [used EXCEPT !.tool_calls = @ + 1]
  /\ sm' = Transition(sm, "Failed")
  /\ run' = [run EXCEPT !.final_answer = "denied", !.state = sm']
  /\ pc' = IF calls > 1 THEN "tools" ELSE "loop"
  /\ calls' = calls - 1
  /\ UNCHANGED <<request, cancelled, conversation, log>>

\* A denial by the permission engine fails the run; the calls behind it are
\* not made and the denied one leaves neither observation nor event.
ToolDenied ==
  /\ pc = "dispatch"
  /\ had_tool_calls' = TRUE
  /\ used' = [used EXCEPT !.tool_calls = @ + 1]
  /\ sm' = Transition(sm, "Failed")
  /\ run' = [run EXCEPT !.final_answer = "denied", !.state = sm']
  /\ pc' = "loop"
  /\ UNCHANGED <<request, cancelled, calls, conversation, log>>

\* mutant: the machine observes after the first call of the response
NextCallSkipsRest ==
  /\ pc' = "loop"
  /\ sm' = Transition(sm, "Observing")
  /\ run' = [run EXCEPT !.state = sm']

\* mutant: the loop over the calls runs once too often
NextCallOneMore == pc' = "tools" /\ UNCHANGED <<sm, run>>

\* After the last call the machine observes; before that the loop goes on.
NextCall ==
  IF calls > 1 THEN pc' = "tools" /\ UNCHANGED <<sm, run>>
               ELSE /\ pc' = "loop"
                    /\ sm' = Transition(sm, "Observing")
                    /\ run' = [run EXCEPT !.state = sm']

\* Success, a tool error or no result: an observation for the model.
ToolReturns ==
  /\ pc = "dispatch"
  /\ had_tool_calls' = TRUE
  /\ used' = [used EXCEPT !.tool_calls = @ + 1]
  /\ conversation' = conversation + 1
  /\ \/ LogNote("ToolCompleted") /\ calls' = calls - 1 /\ NextCall
     \/ LogThrows /\ UNCHANGED <<calls, sm, run>>
  /\ UNCHANGED <<request, cancelled>>

Observe ==
  /\ Arm("Observing")
  /\ sm' = Transition(sm, "AwaitingModel")
  /\ run' = [run EXCEPT !.state = sm']
  /\ UNCHANGED <<request, cancelled, pc, used, local, log>>

(***************************************************************************)
(* Verification: the project's build and tests, as processes that do not   *)
(* see the run's token.                                                    *)
(***************************************************************************)
StartVerification ==
  /\ Arm("Verifying")
  /\ pc' = "verify"
  /\ UNCHANGED <<request, cancelled, sm, run, used, local, log>>

VerifierThrows == pc = "verify" /\ Throw

\* mutant: passing the build alone verifies the run
VerdictOfBuildOnly(build, tests) == build

Verdict(build, tests) == build /\ tests

FinishVerification ==
  /\ pc = "verify"
  /\ \E build, tests \in BOOLEAN :
       \/ /\ LogNote(IF build /\ tests THEN "VerificationPassed"
                                       ELSE "VerificationFailed")
          /\ sm' = Transition(sm, "Completed")
          /\ run' = [state |-> sm',
                     completion |-> IF Verdict(build, tests)
                                    THEN "ImplementedVerified"
                                    ELSE "CompletedUnverified",
                     final_answer |-> IF ~Verdict(build, tests) /\ had_tool_calls
                                      THEN "content, verification failed"
                                      ELSE run.final_answer]
          /\ pc' = "loop"
       \/ LogThrows /\ UNCHANGED <<sm, run>>
  /\ UNCHANGED <<request, cancelled, used, local>>

\* What run() settles after the loop.
Settled ==
  [run EXCEPT !.state = sm,
              !.completion = CASE sm = "Failed" -> "Failed"
                               [] sm = "Completed" /\ run.completion = "Failed"
                                    -> "CompletedUnverified"
                               [] OTHER -> run.completion]

\* run_finished is logged for a failed run too, as RunCompleted.
Finish ==
  /\ pc = "loop" /\ IsTerminalState(sm)
  /\ run' = Settled
  /\ \/ /\ Log(RunEvent("RunCompleted", 0, Settled.completion))
        /\ pc' = "returned"
     \/ LogThrows
  /\ UNCHANGED <<request, cancelled, sm, used, local>>

Step ==
  \/ Start \/ CancelledAtLoopTop \/ StopOnBudget
  \/ LeaveInitializing \/ BuildContext \/ ContextThrows \/ BuildPrompt
  \/ CancelledBeforeChat \/ CallModel \/ ModelThrows \/ ModelResponds
  \/ CancelledBeforeTool \/ Dispatch \/ ToolThrows \/ ToolDenied \/ ToolReturns
  \/ Observe \/ StartVerification \/ VerifierThrows \/ FinishVerification
  \/ Finish

\* run() is over: nothing more happens.
Over == pc \in Ended /\ UNCHANGED vars

Next == Step \/ Cancel \/ Over

Spec == Init /\ [][Next]_vars

\* The thread in run() is scheduled, and the model, the tools and the
\* verification it waits on answer or throw. Cancelling is never owed.
FairSpec == Spec /\ WF_vars(Step)

(***************************************************************************)
(* Properties.                                                             *)
(***************************************************************************)

\* Every variable stays in its type.
TypeOK ==
  /\ request \in Requests
  /\ cancelled \in BOOLEAN
  /\ pc \in PC
  /\ sm \in AgentState
  /\ run \in AgentRun
  /\ used \in Amounts
  /\ calls \in Nat
  /\ had_tool_calls \in BOOLEAN
  /\ conversation \in Nat
  /\ log \in Seq(Event)

\* The runtime discards what transition() returns, so a refused transition
\* would go unnoticed. None is refused: wherever run() is, the machine is in
\* the state the code assumes there, and the default arm of the switch
\* ("unexpected state") is never reached.
PhaseMatchesState ==
  /\ pc = "start" => sm = "Initializing"
  /\ pc = "loop" => sm \in {"Initializing", "BuildingContext", "AwaitingModel",
                            "Observing", "Verifying", "Completed", "Failed"}
  /\ pc \in {"prompt", "chat"} => sm = "AwaitingModel"
  /\ pc \in {"tools", "dispatch"} => sm = "ExecutingTools" /\ calls > 0
  /\ pc = "verify" => sm = "Verifying"
  /\ pc = "returned" => sm \in {"Completed", "Failed"}

\* How far a run may overshoot a limit that is only checked at the top of the
\* loop: turns not at all, the others by what one more response can add.
AtMostOneResponseOver(spent, limit, step) ==
  spent <= IF limit = 0 THEN 0 ELSE limit - 1 + step

BudgetOvershoot ==
  /\ used.turns <= Budget.turns
  /\ AtMostOneResponseOver(used.tool_calls, Budget.tool_calls, MaxCalls)
  /\ AtMostOneResponseOver(used.input_tokens, Budget.input_tokens, MaxUsage)
  /\ AtMostOneResponseOver(used.output_tokens, Budget.output_tokens, MaxUsage)

\* A limit of zero, on any resource, stops the run before the model is asked:
\* with no subagents allowed (the default of Chat, Ask, Plan and Review) the
\* run cannot take a turn, although no code ever starts a subagent.
NoTurnUnderZeroLimit ==
  0 \in {Budget.turns, Budget.tool_calls, Budget.subagents,
         Budget.input_tokens, Budget.output_tokens} => used = NothingUsed

\* The budget holds, as far as it is looked at: what it allows at most, and
\* that an empty one allows nothing.
BudgetKept == BudgetOvershoot /\ NoTurnUnderZeroLimit

\* The event that closes a run is the last one on record, is there once, only
\* when run() returned, and carries the completion the caller gets. A run that
\* ended with an exception is left open: that is how it is found incomplete.
TerminalEventClosesLog ==
  /\ \A i \in DOMAIN log :
       log[i].type = "RunCompleted" =>
         /\ i = Len(log)
         /\ pc = "returned"
         /\ log[i].completion = run.completion
  /\ pc = "returned" /\ EventLogAttached =>
       log # <<>> /\ log[Len(log)].type = "RunCompleted"

\* The caller's view agrees with itself: the exit code is taken from the
\* completion, the output from state and answer.
OutcomeConsistent ==
  pc = "returned" =>
    /\ run.state = sm
    /\ run.completion = "Failed" <=> sm = "Failed"
    /\ sm = "Failed" <=> run.final_answer \in {"Budget exhausted", "denied"}
    /\ run.final_answer # "none"

\* ImplementedVerified is claimed only by a run that asked for verification,
\* and whose log holds a verification that passed and none that failed.
VerifiedMeansVerified ==
  run.completion = "ImplementedVerified" =>
    /\ VerificationRequested
    /\ EventLogAttached => \E i \in DOMAIN log : log[i].type = "VerificationPassed"
    /\ \A i \in DOMAIN log : log[i].type # "VerificationFailed"

\* What the caller is handed, what the record says and what was done agree:
\* the exit code, the text printed and the log tell one story of the run.
OutcomeOnRecord ==
  OutcomeConsistent /\ TerminalEventClosesLog /\ VerifiedMeansVerified

\* A response without calls is an answer.
IsAnswer(event) == event.type = "AssistantMessage" /\ event.calls = 0

\* Once the model has answered, a run that returns returns the answer, but for
\* one case: verification was still due and the answer used the budget up.
AnswerSurvives ==
  pc = "returned" /\ (\E i \in DOMAIN log : IsAnswer(log[i])) =>
    \/ sm = "Completed"
    \/ /\ VerificationRequested
       /\ BudgetExhausted(Budget, used)
       /\ run.final_answer = "Budget exhausted"

\* Once the token is cancelled the run starts nothing more: no question to
\* the model, no tool, no verification. What is in progress may finish.
CancelStopsWork ==
  [][cancelled => pc' = pc \/ pc' \notin {"chat", "dispatch", "verify"}]_vars

\* A denied call is the last thing the run does: no further call of the same
\* response, no further turn.
DenialEndsRun ==
  [][run.final_answer = "denied" =>
       UNCHANGED <<used, conversation>> /\ pc' \in {"loop", "returned", "threw"}]_vars

\* The events of the run follow the grammar of RunTrace.
LastEvent == IF log = <<>> THEN "none" ELSE log[Len(log)].type
Pending == IF log = <<>> THEN 0 ELSE calls
Trace == INSTANCE RunTrace WITH last <- LastEvent, pending <- Pending
RefinesTrace == Trace!TraceSpec

\* Every run ends: each turn spends the budget the loop checks.
Termination == <>(pc \in Ended)
====
