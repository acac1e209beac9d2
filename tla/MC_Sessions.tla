---- MODULE MC_Sessions ----
(***************************************************************************)
(* Command lines for Sessions, and two processes to start with them.       *)
(***************************************************************************)
EXTENDS Sessions, TLC

CONSTANTS p1, p2

CL(first, id, continue, dash_p, word) ==
  [first |-> first, id |-> id, continue |-> continue, dash_p |-> dash_p,
   word |-> word]

Two == {p1, p2}
ProcessSymmetry == Permutations(Two)
Prompt == CL("mode", 0, FALSE, TRUE, FALSE)
Continue == CL("mode", 0, TRUE, TRUE, FALSE)
ResumeFirst == CL("sessions resume", 1, FALSE, TRUE, FALSE)

AllKinds ==
  {Prompt, Continue, ResumeFirst,
   CL("sessions resume", 1, FALSE, FALSE, TRUE),    \* no -p
   CL("sessions resume", 2, TRUE, TRUE, FALSE),     \* --continue as well
   CL("models list", 0, FALSE, FALSE, FALSE),
   CL("option", 0, TRUE, FALSE, TRUE)}              \* starts an interactive session
====
