---- MODULE RunTrace ----
(***************************************************************************)
(* What a reader of the event log may rely on about one run: the grammar   *)
(* of the events the run appends. The state is the last event on record    *)
(* and how many calls of the model's last response have no result yet.     *)
(***************************************************************************)
EXTENDS Naturals

CONSTANT MaxCalls   \* most tool calls one response carries

VARIABLES
  last,      \* type of the last event, "none" before the first
  pending    \* tool calls requested and not reported back

traceVars == <<last, pending>>

TraceInit == last = "none" /\ pending = 0

SessionStarted ==
  /\ last = "none"
  /\ last' = "SessionStarted"
  /\ UNCHANGED pending

ContextBuilt ==
  /\ last = "SessionStarted"
  /\ last' = "StateChanged"
  /\ UNCHANGED pending

\* A response follows the built context, or the results of all earlier calls.
AssistantMessage ==
  /\ pending = 0
  /\ last \in {"StateChanged", "ToolCompleted"}
  /\ last' = "AssistantMessage"
  /\ pending' \in 0..MaxCalls

\* Each result answers a call of the last response, one result per call.
ToolCompleted ==
  /\ pending > 0
  /\ last \in {"AssistantMessage", "ToolCompleted"}
  /\ last' = "ToolCompleted"
  /\ pending' = pending - 1

\* Verification judges an answer: a response without tool calls.
Verification ==
  /\ pending = 0
  /\ last = "AssistantMessage"
  /\ last' \in {"VerificationPassed", "VerificationFailed"}
  /\ UNCHANGED pending

\* The run may close after any event but its own close; nothing follows.
RunCompleted ==
  /\ last \notin {"none", "RunCompleted"}
  /\ last' = "RunCompleted"
  /\ UNCHANGED pending

TraceNext ==
  \/ SessionStarted \/ ContextBuilt \/ AssistantMessage
  \/ ToolCompleted \/ Verification \/ RunCompleted

TraceSpec == TraceInit /\ [][TraceNext]_traceVars
====
