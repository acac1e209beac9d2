---- MODULE ContextBuilder ----
(***************************************************************************)
(* The prompts of one run: ContextBuilder::build, entry by entry, as       *)
(* AgentRuntime::run calls it, once when the run begins and then before    *)
(* each question to the model. Between two prompts tool results join the   *)
(* conversation, and at any moment a tool or another program may change    *)
(* the files that rules, project and snippets are read from. A text is its *)
(* length.                                                                 *)
(***************************************************************************)
EXTENDS Naturals, Sequences, SequencesExt

CONSTANTS
  Paths,         \* of files a run may be asked to look at
  Requests,      \* the goal, files and token budget of a run
  Workspaces,    \* what the workspace may hold
  Observations,  \* lengths of tool results
  Missing,       \* the length of a file that is not there
  InfoLength,    \* by kind of project, the length of what is said of it
  SnippetLimit,  \* most characters taken from a file
  MarkerLength,  \* of the note that a file was cut
  MaxBuilds,     \* most prompts of a run
  MaxMessages    \* most entries of the conversation

\* In the order in which the detector looks for their files.
ProjectKinds == <<"cpp", "python", "go", "scala">>
BuiltLength == 13  \* "context built", the first entry of every conversation

Request == [goal : Nat, file_paths : Seq(Paths), token_budget : Nat \ {0}]
Workspace ==
  [rules : Seq(Nat), markers : SUBSET Range(ProjectKinds),
   files : [Paths -> Nat \cup {Missing}]]

ASSUME ContextAssumption ==
  /\ Observations \subseteq Nat
  /\ InfoLength \in [Range(ProjectKinds) -> Nat]
  /\ {SnippetLimit, MarkerLength, MaxMessages} \subseteq Nat
  /\ MaxBuilds \in Nat \ {0}
  /\ Missing \notin Nat
  /\ Requests \subseteq Request /\ Workspaces \subseteq Workspace

VARIABLES
  request,
  workspace,
  conversation,  \* lengths, oldest first
  at,            \* the section being filled, or where the run is
  todo,          \* what is left of the section
  left,          \* of the token budget of this prompt
  items, total_tokens, truncated,  \* the BuiltContext
  builds,        \* prompts begun
  used,          \* input tokens the model has reported
  previous,      \* the prompt before and whether it left out a message
  steady         \* the workspace is as it was when the run began

building == <<left, items, total_tokens, truncated>>
run == <<request, conversation, builds, used, previous>>
contextVars == <<run, building, workspace, at, todo, steady>>

Sections == {"goal", "load", "rules", "project", "files", "conversation", "built"}
After == [rules |-> "project", files |-> "conversation", conversation |-> "built"]

Entry(kind, n, length) == [kind |-> kind, n |-> n, tokens |-> (length + 3) \div 4]

\* A sequence of lengths as the entries of one section.
EntriesOf(kind, lengths) == [n \in DOMAIN lengths |-> Entry(kind, n, lengths[n])]

Goal == Entry("goal", 1, request.goal)
Rules == EntriesOf("rule", workspace.rules)
Messages == EntriesOf("message", conversation)

\* The first kind whose files are there; none if there are none.
Detected(markers) ==
  LET Marked(kind) == kind \in markers
      found == SelectInSeq(ProjectKinds, Marked)
  IN  IF found = 0 THEN <<>>
      ELSE <<Entry(ProjectKinds[found], 1, InfoLength[ProjectKinds[found]])>>

Snippet(length) ==
  IF length > SnippetLimit THEN SnippetLimit + MarkerLength ELSE length

\* The entry of a path, if it is a file.
FileLength(n) == workspace.files[request.file_paths[n]]
FileEntry(n) ==
  IF FileLength(n) = Missing THEN <<>>
  ELSE <<Entry("file", n, Snippet(FileLength(n)))>>

BeginBuild ==
  /\ at' = "goal"
  /\ todo' = <<>>
  /\ left' = request.token_budget
  /\ items' = <<>> /\ total_tokens' = 0 /\ truncated' = FALSE

ContextInit ==
  /\ request \in Requests
  /\ workspace \in Workspaces
  /\ conversation = <<>>
  /\ at = "goal" /\ todo = <<>>
  /\ left = request.token_budget
  /\ items = <<>> /\ total_tokens = 0 /\ truncated = FALSE
  /\ builds = 1 /\ used = 0
  /\ previous = [items |-> <<>>, cut |-> FALSE]
  /\ steady = TRUE

(***************************************************************************)
(* build: the sections in turn.                                            *)
(***************************************************************************)
\* mutant: an accepted entry is not taken off the budget
AddItemUncharged(entry) ==
  IF entry.tokens > left
  THEN truncated' = TRUE /\ UNCHANGED <<left, items, total_tokens>>
  ELSE /\ total_tokens' = total_tokens + entry.tokens
       /\ items' = Append(items, entry)
       /\ UNCHANGED <<truncated, left>>

AddItem(entry) ==
  IF entry.tokens > left
  THEN truncated' = TRUE /\ UNCHANGED <<left, items, total_tokens>>
  ELSE /\ left' = left - entry.tokens
       /\ total_tokens' = total_tokens + entry.tokens
       /\ items' = Append(items, entry)
       /\ UNCHANGED truncated

Added(entry) == entry.tokens <= left

\* On to the next section: what it iterates over is known by then, except for
\* the files, each of which is looked at when its turn comes.
Enter(section) ==
  /\ at' = section
  /\ todo' = CASE section = "rules" -> Rules
               [] section = "files" -> [n \in DOMAIN request.file_paths |-> n]
               [] section = "conversation" -> Messages
               [] OTHER -> <<>>

AddGoal ==
  /\ at = "goal"
  /\ AddItem(Goal)
  /\ Enter("load")
  /\ UNCHANGED <<run, workspace, steady>>

LoadRules ==
  /\ at = "load"
  /\ Enter("rules")
  /\ UNCHANGED <<run, building, workspace, steady>>

\* mutant: an entry too large is passed over
AddNextSkipping(section) ==
  /\ at = section /\ todo # <<>>
  /\ AddItem(Head(todo))
  /\ at' = at /\ todo' = Tail(todo)
  /\ UNCHANGED <<run, workspace, steady>>

\* A rule or a message: the first that is too large ends its section.
AddNext(section) ==
  /\ at = section /\ todo # <<>>
  /\ AddItem(Head(todo))
  /\ IF Added(Head(todo)) THEN at' = at /\ todo' = Tail(todo) ELSE Enter(After[section])
  /\ UNCHANGED <<run, workspace, steady>>

\* A path that is no file is passed over; a file too large ends the section.
AddFile ==
  /\ at = "files" /\ todo # <<>>
  /\ LET entry == FileEntry(Head(todo))
     IN  IF entry = <<>>
         THEN at' = at /\ todo' = Tail(todo) /\ UNCHANGED building
         ELSE /\ AddItem(entry[1])
              /\ IF Added(entry[1]) THEN at' = at /\ todo' = Tail(todo)
                                    ELSE Enter("conversation")
  /\ UNCHANGED <<run, workspace, steady>>

AddProject ==
  /\ at = "project"
  /\ LET info == Detected(workspace.markers)
     IN  IF info = <<>> THEN UNCHANGED building ELSE AddItem(info[1])
  /\ Enter("files")
  /\ UNCHANGED <<run, workspace, steady>>

EndSection ==
  /\ at \in {"rules", "files", "conversation"} /\ todo = <<>>
  /\ Enter(After[at])
  /\ UNCHANGED <<run, building, workspace, steady>>

\* A look at a file may throw; nothing in the run catches it.
BuildThrows ==
  /\ at \in {"load", "project", "files"}
  /\ at' = "threw" /\ todo' = <<>>
  /\ UNCHANGED <<run, building, workspace, steady>>

(***************************************************************************)
(* AgentRuntime::run around it.                                            *)
(***************************************************************************)
\* Was some message left out?
Remember ==
  previous' = [items |-> items, cut |-> ~(Range(Messages) \subseteq Range(items))]

NextBuild ==
  /\ builds < MaxBuilds
  /\ builds' = builds + 1
  /\ BeginBuild

\* The first build is only counted; the next one is for the model.
FirstBuilt ==
  /\ at = "built" /\ builds = 1
  /\ conversation' = <<BuiltLength>>
  /\ Remember
  /\ NextBuild
  /\ UNCHANGED <<request, used, workspace, steady>>

\* The model is asked; it may report what the prompt took.
Ask ==
  /\ at = "built" /\ builds > 1
  /\ used' \in {used, used + total_tokens}
  /\ Remember
  /\ at' = "observing"
  /\ UNCHANGED <<request, conversation, builds, building, workspace, todo, steady>>

Observe ==
  /\ at = "observing" /\ Len(conversation) < MaxMessages
  /\ \E length \in Observations : conversation' = Append(conversation, length)
  /\ UNCHANGED <<request, builds, used, previous, building, workspace, at, todo, steady>>

\* The budget is looked at before the next turn.
NextTurn ==
  /\ at = "observing" /\ used < request.token_budget
  /\ NextBuild
  /\ UNCHANGED <<request, conversation, used, previous, workspace, steady>>

\* A tool of this run or another program changes what the builder reads.
Edit ==
  /\ at # "threw" /\ steady
  /\ workspace' \in Workspaces \ {workspace}
  /\ steady' = FALSE
  /\ UNCHANGED <<run, building, at, todo>>

ContextNext ==
  \/ AddGoal \/ LoadRules \/ AddNext("rules") \/ AddProject \/ AddFile
  \/ AddNext("conversation") \/ EndSection \/ BuildThrows
  \/ FirstBuilt \/ Ask \/ Observe \/ NextTurn \/ Edit

ContextSpec == ContextInit /\ [][ContextNext]_contextVars

(***************************************************************************)
(* Properties.                                                             *)
(***************************************************************************)
ContextTypeOK ==
  /\ request \in Requests /\ workspace \in Workspaces
  /\ conversation \in Seq(Observations \cup {BuiltLength})
  /\ at \in Sections \cup {"observing", "threw"}
  /\ {left, total_tokens, used} \subseteq Nat
  /\ {truncated, steady, previous.cut} \subseteq BOOLEAN
  /\ builds \in 1..MaxBuilds

\* Everything build looks at, had it room for all of it.
Files == FlattenSeq([n \in 1..Len(request.file_paths) |-> FileEntry(n)])
Offered == <<Goal>> \o Rules \o Detected(workspace.markers) \o Files \o Messages

TokensOf(prompt) ==
  LET sum[n \in 0..Len(prompt)] == IF n = 0 THEN 0 ELSE sum[n - 1] + prompt[n].tokens
  IN  sum[Len(prompt)]

\* The entries of a prompt stand in an order in which they are offered.
InOrder(prompt, offered) ==
  \A j \in 1..Len(prompt) :
    \E l \in 1..Len(offered) :
      /\ prompt[j] = offered[l]
      /\ \A i \in 1..(j - 1) : \E k \in 1..(l - 1) : prompt[i] = offered[k]

\* A finished prompt accounts for its tokens: what its entries are estimated
\* at adds up to total_tokens and stays within the budget, truncated says
\* exactly whether anything was left out, and its entries stand in the order
\* in which build looks at them.
Accounted ==
  /\ ContextTypeOK
  /\ total_tokens + left = request.token_budget
  /\ total_tokens = TokensOf(items)
  /\ at = "built" /\ steady =>
       /\ truncated <=> Len(items) < Len(Offered)
       /\ InOrder(items, Offered)

\* While the files stay as they are, a prompt only grows: it begins with the
\* prompt before. Once a message did not fit, it stays as it was to the end of
\* the run, and the model sees no later tool result, however small: one result
\* that is too large hides all that follow.
PromptFreezes ==
  at = "built" /\ steady =>
    /\ IsPrefix(previous.items, items)
    /\ previous.cut => items = previous.items
====
