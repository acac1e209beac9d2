---- MODULE PatchEngine ----
(***************************************************************************)
(* The texts that exact_replace and apply_unified_diff compute             *)
(* (src/src/tools/filesystem/patch_engine.cpp). A text is a sequence of    *)
(* characters, "nl" among them.                                            *)
(***************************************************************************)
EXTENDS Integers, Sequences, SequencesExt

\* old stands in text at i.
OccursAt(text, old, i) == SubSeq(text, i, i + Len(old) - 1) = old

\* string::find: where old first occurs from that position on, or 0.
Find(text, old, from) ==
  LET at == {i \in from..(Len(text) - Len(old) + 1) : OccursAt(text, old, i)}
  IN  IF at = {} THEN 0 ELSE CHOOSE i \in at : \A j \in at : i <= j

\* string::replace, for the occurrence at i.
ReplacedAt(text, i, old, new) ==
  SubSeq(text, 1, i - 1) \o new \o SubSeq(text, i + Len(old), Len(text))

-----------------------------------------------------------------------------
\* mutant: any occurrence will do.
ReplaceableAnywhere(text, old) == Find(text, old, 1) # 0

\* exact_replace finds old, and no second one behind it. (An empty text is
\* found twice in the same place.)
Replaceable(text, old) ==
  LET first == Find(text, old, 1)
  IN  first # 0 /\ Find(text, old, first + Len(old)) = 0

Replaced(text, old, new) == ReplacedAt(text, Find(text, old, 1), old, new)

-----------------------------------------------------------------------------
\* A line of a diff by its first character: "@@" is a header, a space keeps,
\* a minus drops, a plus adds; an empty line and any other are skipped. A
\* carriage return at its end is gone from the payload.
LineKind == {"header", "keep", "drop", "add", "skipped"}

LineOf(line) == Append(line.payload, "nl")

\* One turn of the loop over the diff's lines.
TakeLine(chunks, line) ==
  CASE line.kind = "header" -> [chunks EXCEPT !.in_hunk = TRUE]
    [] line.kind # "header" ->
         [chunks EXCEPT
            !.old = IF chunks.in_hunk /\ line.kind \in {"keep", "drop"}
                    THEN @ \o LineOf(line) ELSE @,
            !.new = IF chunks.in_hunk /\ line.kind \in {"keep", "add"}
                    THEN @ \o LineOf(line) ELSE @]

\* The old and the new side of a diff; the hunks of one with several are
\* run together.
Chunks(diff) ==
  LET taken[n \in 0..Len(diff)] ==
        IF n = 0 THEN [in_hunk |-> FALSE, old |-> <<>>, new |-> <<>>]
        ELSE TakeLine(taken[n - 1], diff[n])
  IN  taken[Len(diff)]

Applicable(text, diff) ==
  LET chunks == Chunks(diff)
  IN  /\ chunks.old # <<>> \/ chunks.new # <<>>
      /\ Find(text, chunks.old, 1) # 0

\* The first occurrence is replaced, wherever the header says it is.
Applied(text, diff) ==
  LET chunks == Chunks(diff)
  IN  ReplacedAt(text, Find(text, chunks.old, 1), chunks.old, chunks.new)
====
