---- MODULE MC_PosixProcess ----
(***************************************************************************)
(* A command that forks at most one helper, over pipes that hold less than *)
(* the command writes.                                                     *)
(***************************************************************************)
EXTENDS PosixProcess

OneHelper == {"helper"}
NoHelper == {}
====
