---- MODULE MC_OllamaChat ----
(***************************************************************************)
(* OllamaChat with bodies of up to three lines.                            *)
(***************************************************************************)
EXTENDS OllamaChat

ThreeLines == 3
====
