---- MODULE FileRegister ----
(***************************************************************************)
(* What calls of patch::atomic_write that do not overlap promise a reader  *)
(* of the file: it is a register. A call replaces its whole content, or    *)
(* leaves it alone; how the call gets there cannot be seen. One call of    *)
(* the code is worse: its last write may fail unnoticed (Lose), and then   *)
(* the file holds the beginning of the content, or nothing.                *)
(***************************************************************************)
EXTENDS Naturals, Sequences

CONSTANTS
  Writers,     \* the calls, one content each
  Original,    \* what the file holds before them
  MayLose      \* can that last write fail

VARIABLES
  text,     \* what each call is to write, block by block
  content,  \* what a reader finds in the file
  outcome   \* of each call: "pending", what it returned, or "crashed"

vars == <<text, content, outcome>>

Init ==
  /\ content = Original
  /\ outcome = [w \in Writers |-> "pending"]

End(w, how) ==
  /\ outcome[w] = "pending"
  /\ outcome' = [outcome EXCEPT ![w] = how]
  /\ UNCHANGED text

Replace(w) == End(w, "true") /\ content' = text[w]

\* An error or a crash: the file is as it was.
Fail(w) == (End(w, "false") \/ End(w, "crashed")) /\ UNCHANGED content

Lose(w) ==
  /\ MayLose /\ End(w, "true")
  /\ \E n \in 0..(Len(text[w]) - 1) : content' = SubSeq(text[w], 1, n)

Next == \E w \in Writers : Replace(w) \/ Fail(w) \/ Lose(w)

Spec == Init /\ [][Next]_vars
====
