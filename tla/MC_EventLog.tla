---- MODULE MC_EventLog ----
(***************************************************************************)
(* Two runs, each in its process, on one log file.                         *)
(***************************************************************************)
EXTENDS EventLog, TLC

CONSTANTS r1, r2
TwoRuns == {r1, r2}

\* Nothing tells the runs apart.
RunSymmetry == Permutations(TwoRuns)
====
