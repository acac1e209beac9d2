---- MODULE MC_ToolCalls ----
(***************************************************************************)
(* Every target and every combination of allowing and denying settings;    *)
(* short texts over one letter and the end of a line.                      *)
(***************************************************************************)
EXTENDS ToolCalls

Letters == {"a", "nl"}

\* Each setting allows or denies; or all ask, or all want a sandbox; or
\* nothing is looked at.
Restricted(policies) ==
  [unrestricted : {FALSE}, interactive : {FALSE}, policy : policies]

AllEngines ==
  Restricted([Risk -> {"Allow", "Deny"}])
    \cup Restricted({[r \in Risk |-> p] : p \in {"Ask", "Sandbox"}})
    \cup {[unrestricted |-> TRUE, interactive |-> FALSE,
           policy |-> [r \in Risk |-> "Deny"]]}

TextsUpTo(n) == UNION {[1..k -> Letters] : k \in 0..n}

FourCharacters == TextsUpTo(4)
TwoCharacters == TextsUpTo(2)
TwoTexts == {<<"a">>, <<"a", "a">>}

\* A header, up to two lines before and three behind it.
Lines == [kind : LineKind, payload : {<<>>, <<"a">>}]
Headers == {l \in Lines : l.kind = "header" /\ l.payload = <<>>}
BodyLines ==
  {l \in Lines : l.kind \in {"keep", "drop", "add"}
                   \/ (l.kind \in {"header", "skipped"} /\ l.payload = <<>>)}
ShortDiffs ==
  UNION {[1..k -> BodyLines] : k \in 0..2}
    \cup {<<h, a, b, c>> : h \in Headers, a \in BodyLines, b \in BodyLines, c \in BodyLines}

\* Every command by itself, and lines that differ in what follows it.
ShortLines ==
  {<<>>} \cup [1..1 -> Token] \cup
  {<<"git", "status">>, <<"git", "clone">>, <<"git", "other", "clone">>,
   <<"curl", "|", "/bin/sh">>, <<"curl", ";", "sh">>, <<"curl", ";", "/bin/sh">>,
   <<"other", ";", "rm">>}
====
