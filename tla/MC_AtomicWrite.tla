---- MODULE MC_AtomicWrite ----
(***************************************************************************)
(* Three writers in turn, or two at once.                                  *)
(***************************************************************************)
EXTENDS AtomicWrite

ThreeWriters == {"w1", "w2", "w3"}
TwoWriters == {"w1", "w2"}
====
