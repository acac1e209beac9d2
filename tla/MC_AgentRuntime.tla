---- MODULE MC_AgentRuntime ----
(***************************************************************************)
(* Small requests for AgentRuntime: limits of a few units around the       *)
(* boundaries, and the zero budget that selects a mode's default.          *)
(***************************************************************************)
EXTENDS AgentRuntime

Limit(turns, tool_calls, subagents, input_tokens, output_tokens) ==
  [turns |-> turns, tool_calls |-> tool_calls, subagents |-> subagents,
   input_tokens |-> input_tokens, output_tokens |-> output_tokens]

Zero == Limit(0, 0, 0, 0, 0)

SmallLimits ==
  {Limit(2, 9, 1, 9, 9),    \* turns run out
   Limit(3, 2, 1, 9, 9),    \* tool calls run out, in the middle of a response
   Limit(3, 9, 1, 2, 9),    \* input tokens run out
   Limit(3, 9, 1, 9, 2),    \* output tokens run out
   Limit(2, 9, 0, 9, 9)}    \* no subagents

SmallRequests ==
  [mode : {"Agent", "Chat"}, verify : BOOLEAN, budget : SmallLimits]
    \cup [mode : {"Chat", "Plan"}, verify : {FALSE}, budget : {Zero}]
====
