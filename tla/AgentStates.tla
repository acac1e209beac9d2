---- MODULE AgentStates ----
(***************************************************************************)
(* The states of an agent run, the table of transitions StateMachine       *)
(* accepts, and the budget that bounds a run: the pure part that           *)
(* AgentRuntime is built from.                                             *)
(***************************************************************************)
EXTENDS Naturals

AgentMode ==
  {"Agent", "Plan", "Ask", "Debug", "Review", "Chat", "Data", "Research"}

AgentState ==
  {"Initializing", "Understanding", "Planning", "SelectingModel",
   "BuildingContext", "AwaitingModel", "ParsingResponse",
   "AwaitingPermission", "ExecutingTools", "Observing", "Verifying",
   "Recovering", "Completed", "Failed", "Cancelled"}

(***************************************************************************)
(* The transition table.                                                   *)
(***************************************************************************)
Edges ==
  {<<"Initializing", "Understanding">>, <<"Initializing", "BuildingContext">>,
   <<"Understanding", "Planning">>, <<"Understanding", "BuildingContext">>,
   <<"Planning", "BuildingContext">>, <<"SelectingModel", "BuildingContext">>,
   <<"BuildingContext", "AwaitingModel">>,
   <<"AwaitingModel", "ParsingResponse">>,
   <<"ParsingResponse", "ExecutingTools">>, <<"ParsingResponse", "Observing">>,
   <<"ParsingResponse", "Verifying">>, <<"ParsingResponse", "Completed">>,
   <<"AwaitingPermission", "ExecutingTools">>,
   <<"AwaitingPermission", "Failed">>, <<"ExecutingTools", "Observing">>,
   <<"Observing", "AwaitingModel">>, <<"Observing", "Verifying">>,
   <<"Observing", "Completed">>, <<"Verifying", "Completed">>,
   <<"Verifying", "Recovering">>, <<"Recovering", "AwaitingModel">>,
   <<"Recovering", "Failed">>}

\* mutant: the edge out of a parsed response that carries tool calls is missing
AllowedWithoutToolEdge(from, to) ==
  \/ <<from, to>> \in Edges \ {<<"ParsingResponse", "ExecutingTools">>}
  \/ from = to
  \/ to \in {"Failed", "Cancelled"} /\ from # "Completed"

\* mutant: the edge back from the observations to the model is missing
AllowedWithoutObserveEdge(from, to) ==
  \/ <<from, to>> \in Edges \ {<<"Observing", "AwaitingModel">>}
  \/ from = to
  \/ to \in {"Failed", "Cancelled"} /\ from # "Completed"

Allowed(from, to) ==
  \/ <<from, to>> \in Edges
  \/ from = to
  \/ to \in {"Failed", "Cancelled"} /\ from # "Completed"

IsTerminalState(s) == s \in {"Completed", "Failed", "Cancelled"}

\* StateMachine::transition: a refused transition leaves the state alone. Every
\* caller in the runtime discards the returned bool.
Transition(from, to) == IF Allowed(from, to) THEN to ELSE from

(***************************************************************************)
(* Budgets. A limit and the use made of it are records of the same         *)
(* resources. max_duration is declared by the struct but read by no code.  *)
(***************************************************************************)
Amounts == [turns : Nat, tool_calls : Nat, subagents : Nat,
            input_tokens : Nat, output_tokens : Nat]

NothingUsed == [turns |-> 0, tool_calls |-> 0, subagents |-> 0,
                input_tokens |-> 0, output_tokens |-> 0]

\* The struct's token limits are the same in every mode.
DefaultTokens(turns, tool_calls, subagents) ==
  [turns |-> turns, tool_calls |-> tool_calls, subagents |-> subagents,
   input_tokens |-> 128000, output_tokens |-> 16000]

DefaultBudgetFor(mode) ==
  CASE mode = "Chat" -> DefaultTokens(20, 0, 0)
    [] mode \in {"Ask", "Plan", "Review"} -> DefaultTokens(20, 40, 0)
    [] mode = "Research" -> DefaultTokens(100, 200, 4)
    [] mode = "Data" -> DefaultTokens(40, 80, 2)
    [] OTHER -> DefaultTokens(40, 100, 2)

\* mutant: a limit is only exhausted once it has been exceeded
BudgetExceeded(limit, used) ==
  \/ used.turns > limit.turns
  \/ used.tool_calls > limit.tool_calls
  \/ used.subagents > limit.subagents
  \/ used.input_tokens > limit.input_tokens
  \/ used.output_tokens > limit.output_tokens

BudgetExhausted(limit, used) ==
  \/ used.turns >= limit.turns
  \/ used.tool_calls >= limit.tool_calls
  \/ used.subagents >= limit.subagents
  \/ used.input_tokens >= limit.input_tokens
  \/ used.output_tokens >= limit.output_tokens
====
