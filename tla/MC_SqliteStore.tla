---- MODULE MC_SqliteStore ----
(***************************************************************************)
(* Two processes for SqliteStore.                                          *)
(***************************************************************************)
EXTENDS SqliteStore

CONSTANTS p1, p2

Two == {p1, p2}
ProcessSymmetry == Permutations(Two)

\* Events are like messages; tool calls are updated too, like runs.
OneLeaf == <<"messages">>

OneEach == [table \in Range(Tables) |-> 1]
====
