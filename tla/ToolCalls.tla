---- MODULE ToolCalls ----
(***************************************************************************)
(* One call of a tool (src/src/tools), from ToolRegistry::dispatch to its  *)
(* ToolResult, or one operation of the patch engine, on one file that      *)
(* other programs may change meanwhile. A target is judged by the engine   *)
(* of the ToolContext; patch operations have no context. Patch operations  *)
(* write by atomic_write, whose own steps are in AtomicWrite: here it      *)
(* replaces the file or leaves it alone. (The flush that fails unnoticed   *)
(* is AtomicWrite's.)                                                      *)
(***************************************************************************)
EXTENDS Permissions, CommandClassifier, PatchEngine

CONSTANTS
  Engines,       \* the engines a context may have
  NoEngine,      \* a context without one
  Char,          \* the characters of texts
  EditedTexts,   \* what the file may hold before a patch operation
  OtherTexts,    \* what it may hold before a tool call, what a caller or
                 \* another program may write
  OldTexts,      \* what exact_replace is asked to replace
  Diffs,         \* what apply_unified_diff is given
  CommandLines   \* what the shell is

ASSUME ToolCallsAssumption ==
  /\ Engines \subseteq Engine
  /\ NoEngine \notin Engine
  /\ "nl" \in Char
  /\ EditedTexts \cup OtherTexts \cup OldTexts \subseteq Seq(Char)
  /\ CommandLines \subseteq Seq(Token)
  /\ Diffs \subseteq Seq([kind : LineKind, payload : Seq(Char)])

VARIABLES
  call,      \* the request, or the arguments of the operation
  ctx,       \* the context's engine
  file,      \* the file at the target
  dir,       \* is its directory there
  pc,        \* where the call is
  content,   \* what it is about to write
  versions,  \* the texts the file has shown a reader since the call began
  foreign    \* has another program changed the file

vars == <<call, ctx, file, dir, pc, content, versions, foreign>>
inputs == <<call, ctx>>

File == [exists : BOOLEAN, readable : BOOLEAN, text : Seq(Char)]
NoFile == [exists |-> FALSE, readable |-> FALSE, text |-> <<>>]
FileOf(text) == [exists |-> TRUE, readable |-> TRUE, text |-> text]

\* What a stream reads from it: a stream that is not open reads nothing.
Seen(f) == IF f.exists /\ f.readable THEN f.text ELSE <<>>

\* A tool that looks is given the file or the directory around it; target
\* is the path it is given, the file's or the directory's.
PathCall ==
  [op : {"read_file", "list_directory", "grep"}, target : Target, at : {"file", "directory"}]
    \cup [op : {"write_file"}, target : Target, at : {"file"}]
\* The workspace is inside itself; it may lie below .ssh or .aws, or be
\* called like a key.
WorkspaceRoot == {target \in Target : target.place = "inside"}
ShellCall == [op : {"shell"}, argv : CommandLines, root : WorkspaceRoot]
OtherCall == [op : {"glob", "git", "web_search", "unknown"}]
ReplaceCall == [op : {"exact_replace"}, old : OldTexts, new : OtherTexts]
CreateCall == [op : {"create_file"}, overwrite : BOOLEAN]
DiffCall == [op : {"apply_unified_diff"}, diff : Diffs]

ToolCall == PathCall \cup ShellCall \cup OtherCall
PatchCall == ReplaceCall \cup CreateCall \cup DiffCall

Over == {"returned", "failed", "denied", "threw"}
PC == {"called", "resolved", "judged", "found", "making", "writing", "running"} \cup Over

Init ==
  /\ call \in ToolCall \cup PatchCall
  /\ ctx \in IF call \in PatchCall THEN {NoEngine} ELSE Engines \cup {NoEngine}
  /\ \E text \in IF call \in PatchCall THEN EditedTexts ELSE OtherTexts :
       file \in {NoFile, FileOf(text), [FileOf(text) EXCEPT !.readable = FALSE]}
  /\ dir \in BOOLEAN
  /\ file.exists => dir
  /\ pc = "called"
  /\ content = <<>>
  /\ versions = {Seen(file)}
  /\ foreign = FALSE

Go(next) == pc' = next
Keep == UNCHANGED <<file, dir, content, versions, foreign>>

\* Another program writes the file or removes it. (Bound: once per call.)
ForeignChange ==
  /\ pc \notin Over /\ ~foreign /\ dir
  /\ file' \in {NoFile} \cup {FileOf(text) : text \in OtherTexts}
  /\ file' # file
  /\ versions' = versions \cup {Seen(file')}
  /\ foreign' = TRUE
  /\ UNCHANGED <<inputs, dir, pc, content>>

-----------------------------------------------------------------------------
(* Tools.                                                                  *)

\* The registry has no tool of that name.
UnknownTool == pc = "called" /\ call.op = "unknown" /\ Go("failed") /\ Keep /\ UNCHANGED inputs

\* A required argument is missing: before anything else happens.
MissingArgument ==
  /\ pc = "called" /\ call.op \in {"read_file", "write_file", "glob", "grep", "shell", "web_search"}
  /\ Go("failed") /\ Keep /\ UNCHANGED inputs

\* The token is polled once, where no tool catches.
CallCancelled ==
  /\ pc = "called" /\ call \in ToolCall /\ call.op # "unknown"
  /\ Go("threw") /\ Keep /\ UNCHANGED inputs

PathWithinWorkspace(target) == target.place = "inside"

\* resolve_workspace_path does not throw.
Reachable(target) ==
  \/ PathWithinWorkspace(target)
  \/ ctx # NoEngine /\ Allows(ctx, Check(ctx, "OutsideWorkspaceWrite", target))

Resolve ==
  /\ pc = "called" /\ call \in PathCall
  /\ Go(IF Reachable(call.target) THEN "resolved" ELSE "failed")
  /\ Keep /\ UNCHANGED inputs

RiskOfCall == IF call.op = "read_file" THEN "Read" ELSE "WorkspaceWrite"

Accepted(risk, target) == ctx = NoEngine \/ Lets(ctx, risk, target)

\* mutant: a refusal is reported as one of permission
JudgeReportsDenial ==
  /\ pc = "resolved" /\ call.op \in {"read_file", "write_file"}
  /\ Go(IF Accepted(RiskOfCall, call.target) THEN "judged" ELSE "denied")
  /\ Keep /\ UNCHANGED inputs

\* A file tool reports a refusal as an error of the tool.
Judge ==
  /\ pc = "resolved" /\ call.op \in {"read_file", "write_file"}
  /\ Go(IF Accepted(RiskOfCall, call.target) THEN "judged" ELSE "failed")
  /\ Keep /\ UNCHANGED inputs

\* A stream opens on a directory too, and reads nothing.
ReadFile ==
  /\ pc = "judged" /\ call.op = "read_file"
  /\ Go(IF IF call.at = "file" THEN file.exists /\ file.readable ELSE dir
        THEN "returned" ELSE "failed")
  /\ Keep /\ UNCHANGED inputs

WriteFile ==
  /\ pc = "judged" /\ call.op = "write_file"
  /\ \E text \in OtherTexts : content' = text
  /\ Go("making")
  /\ UNCHANGED <<inputs, file, dir, versions, foreign>>

\* The engine is not asked about a listing.
ListDirectory ==
  /\ pc = "resolved" /\ call.op = "list_directory"
  /\ Go(IF call.at = "directory" /\ dir THEN "returned" ELSE "failed")
  /\ Keep /\ UNCHANGED inputs

\* Nor about a search, which skips what it cannot open. The pattern may be
\* no regular expression, the root may be missing.
Grep ==
  /\ pc = "resolved" /\ call.op = "grep"
  /\ \/ Go("failed")
     \/ (IF call.at = "file" THEN file.exists ELSE dir) /\ Go("returned")
  /\ Keep /\ UNCHANGED inputs

\* glob walks the workspace; an entry it cannot look at throws.
Glob == pc = "called" /\ call.op = "glob" /\ pc' \in {"returned", "threw"} /\ Keep /\ UNCHANGED inputs

\* The engine is asked about the risk of the command and the workspace it
\* is to run in, not about what it touches.
Shell ==
  /\ pc = "called" /\ call.op = "shell"
  /\ Go(IF Accepted(ClassifyCommand(call.argv), call.root) THEN "running" ELSE "denied")
  /\ Keep /\ UNCHANGED inputs

WebSearch ==
  /\ pc = "called" /\ call.op = "web_search"
  /\ Go(IF Accepted("Network", NoPath) THEN "running" ELSE "denied")
  /\ Keep /\ UNCHANGED inputs

\* The engine is not asked about git's reading commands.
Git == pc = "called" /\ call.op = "git" /\ Go("running") /\ Keep /\ UNCHANGED inputs

\* The command or the request ends, well or not.
RunEnds == pc = "running" /\ pc' \in {"returned", "failed"} /\ Keep /\ UNCHANGED inputs

-----------------------------------------------------------------------------
(* The patch engine.                                                       *)

\* exact_replace and apply_unified_diff look for the file before they open it.
LookForFile ==
  /\ pc = "called" /\ call.op \in {"exact_replace", "apply_unified_diff"}
  /\ Go(IF file.exists THEN "found" ELSE "failed")
  /\ Keep /\ UNCHANGED inputs

\* Read, compute, and have a text to write.
Edit(possible, text) ==
  /\ IF possible THEN content' = text /\ Go("writing")
                 ELSE Go("failed") /\ UNCHANGED content
  /\ UNCHANGED <<inputs, file, dir, versions, foreign>>

ExactReplace ==
  /\ pc = "found" /\ call.op = "exact_replace"
  /\ Edit(file.exists /\ file.readable /\ Replaceable(file.text, call.old),
          Replaced(file.text, call.old, call.new))

\* It does not look whether the stream is open.
ApplyUnifiedDiff ==
  /\ pc = "found" /\ call.op = "apply_unified_diff"
  /\ Edit(Applicable(Seen(file), call.diff), Applied(Seen(file), call.diff))

CreateFile ==
  /\ pc = "called" /\ call.op = "create_file"
  /\ IF file.exists /\ ~call.overwrite
     THEN Go("failed") /\ UNCHANGED content
     ELSE Go("making") /\ content' \in OtherTexts
  /\ UNCHANGED <<inputs, file, dir, versions, foreign>>

\* write_file and create_file make the directory.
MakeDirectories ==
  /\ pc = "making"
  /\ dir' = TRUE
  /\ Go("writing")
  /\ UNCHANGED <<inputs, file, content, versions, foreign>>

\* That throws, which write_file catches and create_file does not.
MakeDirectoriesFails ==
  /\ pc = "making"
  /\ Go(IF call \in ToolCall THEN "failed" ELSE "threw")
  /\ Keep /\ UNCHANGED inputs

AtomicWrite ==
  /\ pc = "writing"
  /\ file' = FileOf(content)
  /\ Go("returned")
  /\ UNCHANGED <<inputs, dir, content, versions, foreign>>

\* Removing the file beside it may throw.
AtomicWriteFails ==
  /\ pc = "writing"
  /\ Go("failed") \/ (call \in PatchCall /\ Go("threw"))
  /\ Keep /\ UNCHANGED inputs

-----------------------------------------------------------------------------
Next ==
  \/ ForeignChange
  \/ UnknownTool \/ MissingArgument \/ CallCancelled
  \/ Resolve \/ Judge \/ ReadFile \/ WriteFile
  \/ ListDirectory \/ Grep \/ Glob
  \/ Shell \/ WebSearch \/ Git \/ RunEnds
  \/ LookForFile \/ ExactReplace \/ ApplyUnifiedDiff \/ CreateFile
  \/ MakeDirectories \/ MakeDirectoriesFails \/ AtomicWrite \/ AtomicWriteFails

Spec == Init /\ [][Next]_vars

-----------------------------------------------------------------------------
(* Properties.                                                             *)

\* Every variable keeps its type; a file lies in a directory; and only a
\* command or a web search is answered with an error of permission, the one
\* that ends an agent's run.
TypeOK ==
  /\ call \in ToolCall \cup PatchCall
  /\ ctx \in Engines \cup {NoEngine}
  /\ file \in File /\ dir \in BOOLEAN /\ (file.exists => dir)
  /\ pc \in PC
  /\ content \in Seq(Char) /\ versions \subseteq Seq(Char)
  /\ foreign \in BOOLEAN
  /\ pc = "denied" => call.op \in {"shell", "web_search"}

\* What the settings say of a target, in one look instead of two. Without
\* an engine the workspace is the limit.
Settles(risk) ==
  \/ ctx.unrestricted
  \/ ctx.policy[risk] = "Allow"
  \/ ctx.policy[risk] = "Ask" /\ ctx.interactive

MayWrite(target) ==
  IF ctx = NoEngine THEN target.place = "inside"
  ELSE /\ target.mark = "ssh" => ctx.unrestricted
       /\ target.mark = "key" => Settles("Credential")
       /\ target.mark = "plain" /\ target.place = "inside" => Settles("WorkspaceWrite")
       /\ target.mark = "plain" /\ target.place # "inside" => Settles("OutsideWorkspaceWrite")

MayRead(target) ==
  IF ctx = NoEngine \/ target.place # "inside" THEN MayWrite(target)
  ELSE Settles(IF target.mark = "plain" THEN "Read" ELSE "Credential")

\* A command's own risk counts unless the workspace is itself a credential:
\* then the setting for credentials decides alone, for rm and sudo as well,
\* and below .ssh only what the classifier takes for reading can run.
MayRun(root, risk) ==
  \/ ctx = NoEngine
  \/ root.mark = "plain" /\ Settles(risk)
  \/ root.mark = "key" /\ Settles("Credential")
  \/ root.mark = "ssh" /\ (ctx.unrestricted \/ (risk = "Read" /\ Settles("Credential")))

\* What the settings deny is left untouched, although resolve_workspace_path
\* and the tool each ask under a risk of their own and the engine turns it
\* into a third: write_file changes neither the file nor its directory,
\* read_file returns nothing, no request is sent, and no command starts that
\* the settings deny where the workspace lies.
DeniedMeansUntouched ==
  [][/\ call.op = "write_file" /\ ~MayWrite(call.target) =>
          dir' = dir /\ (file' # file => foreign' # foreign)
     /\ call.op = "read_file" /\ ~MayRead(call.target) => pc' # "returned"
     /\ call.op = "shell" /\ pc' = "running" =>
          MayRun(call.root, ClassifyCommand(call.argv))
     /\ call.op = "web_search" /\ pc' = "running" =>
          ctx = NoEngine \/ Settles("Network")]_vars

\* after is before with one occurrence of old, the first, replaced by new.
ReplacesFirst(before, after, old, new) ==
  \E i \in 0..Len(before) :
    LET pre == SubSeq(before, 1, i)
        post == SubSeq(before, i + Len(old) + 1, Len(before))
    IN  /\ before = pre \o old \o post
        /\ after = pre \o new \o post
        /\ \A j \in 0..(i - 1) :
             before # SubSeq(before, 1, j) \o old \o SubSeq(before, j + Len(old) + 1, Len(before))

\* No two occurrences of old lie beside each other. (They may overlap.)
OccursOnce(text, old) ==
  \A i, j \in 1..Len(text) :
    /\ i + Len(old) <= j /\ j + Len(old) <= Len(text) + 1
    => ~(/\ SubSeq(text, i, i + Len(old) - 1) = old
         /\ SubSeq(text, j, j + Len(old) - 1) = old)

\* The lines of a diff's hunks on one side of it.
Side(diff, kinds) ==
  LET inHunks == {i \in DOMAIN diff : \E j \in 1..(i - 1) : diff[j].kind = "header"}
      line(i) == IF i \in inHunks /\ diff[i].kind \in kinds
                 THEN LineOf(diff[i]) ELSE <<>>
  IN  FlattenSeq([i \in DOMAIN diff |-> line(i)])

\* A patch operation that writes, writes one version the file had since the
\* call began with one passage replaced, and nothing else: exact_replace the
\* only passage beside no other equal one, apply_unified_diff the first
\* equal to the old side of its hunks. One that fails leaves the file as
\* whoever wrote last has left it.
EditIsExact ==
  /\ pc = "returned" /\ call.op = "exact_replace" =>
       \E text \in versions :
         /\ OccursOnce(text, call.old)
         /\ ReplacesFirst(text, content, call.old, call.new)
  /\ pc = "returned" /\ call.op = "apply_unified_diff" =>
       \E text \in versions :
         ReplacesFirst(text, content, Side(call.diff, {"keep", "drop"}),
                       Side(call.diff, {"keep", "add"}))
  /\ pc = "returned" /\ call \in PatchCall => file = FileOf(content)
  /\ pc # "returned" => Seen(file) \in versions
====
