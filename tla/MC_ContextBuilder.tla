---- MODULE MC_ContextBuilder ----
(***************************************************************************)
(* Workspaces and requests for ContextBuilder around a budget of 60        *)
(* tokens; what is said of a project takes 20 to 30 of them, and a file    *)
(* cut at eight characters six.                                            *)
(***************************************************************************)
EXTENDS ContextBuilder

MC_InfoLength == [cpp |-> 113, python |-> 69, go |-> 57, scala |-> 52]

Both(f, g) == [f |-> f, g |-> g]
W(rules, markers, files) == [rules |-> rules, markers |-> markers, files |-> files]

SmallWorkspaces ==
  {W(<<>>, {}, Both(Missing, 5)),
   W(<<8, 60, 4>>, {"go", "cpp"}, Both(5, 90)),
   W(<<240, 4>>, {"scala"}, Both(400, 0)),
   W(<<20>>, {"python"}, Both(8, 8))}

SmallRequests ==
  [goal : {12, 300}, file_paths : {<<>>, <<"f", "g">>}, token_budget : {6, 60}]
====
