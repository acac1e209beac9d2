---- MODULE MC_ModelRouter ----
(***************************************************************************)
(* Registries of up to three models for ModelRouter, and requests on both  *)
(* sides of every limit.                                                   *)
(***************************************************************************)
EXTENDS ModelRouter

M(id, capabilities, context, quality, speed, memory, cost) ==
  [id |-> id, capabilities |-> capabilities, context_length |-> context,
   quality_score |-> quality, speed_score |-> speed, memory_mb |-> memory,
   cost_score |-> cost]

Models ==
  {M("fast-code", {"Chat", "Code"}, 2, 14, 20, 1, 1),
   M("main-reasoner", {"Chat", "Code", "Reasoning"}, 4, 19, 10, 2, 4),
   M("embed", {"Embedding"}, 1, 16, 18, 1, 0),
   M("listed", {"Chat"}, 2, 14, 20, 0, 2),             \* listed without a size
   M("stuck", {"Chat", "Code"}, 4, 20, 0, 0, 2),       \* no speed and no size
   M("fast-code", {"Chat", "Reasoning"}, 4, 20, 20, 1, 1)}  \* the id again

SmallRegistries == UNION {[1..n -> Models] : n \in 0..3}

SmallRequests ==
  [complexity : {5, 15, 18}, required_capabilities : {{}, {"Chat", "Code"}, {"Reasoning"}},
   estimated_memory_mb : {0, 1}, context_tokens : {0, 3},
   preference : {"PreferCheap", "PreferQuality", "Balanced"},
   escalation_requested : BOOLEAN, observed_quality : {20}]
====
