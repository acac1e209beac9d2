---- MODULE ToolCallsProofs ----
(***************************************************************************)
(* Proofs about Permissions and ToolCalls, for every set of engines, texts *)
(* and diffs.                                                              *)
(***************************************************************************)
EXTENDS ToolCalls, SequenceTheorems, WellFoundedInduction, TLAPS

-----------------------------------------------------------------------------
(* The engine.                                                             *)

\* How far a policy goes; an engine grants no more than another if it does
\* so in everything.
Rank(policy) == CASE policy = "Allow" -> 2 [] policy = "Ask" -> 1
                  [] policy \in {"Deny", "Sandbox"} -> 0

GrantsNoMore(strict, lenient) ==
  /\ strict.unrestricted => lenient.unrestricted
  /\ strict.interactive => lenient.interactive
  /\ \A risk \in Risk : Rank(strict.policy[risk]) <= Rank(lenient.policy[risk])

\* Every decision is taken under some risk.
LEMMA JudgedAsRisk ==
  ASSUME NEW risk \in Risk, NEW target \in Target \cup {NoPath}
  PROVE  JudgedAs(risk, target) \in Risk
BY DEF JudgedAs, Risk

\* Making any setting of an engine stricter never lets a tool do what the
\* engine denied before, whatever the risk and the target (evaluate and
\* allows).
THEOREM StricterNeverAllowsMore ==
  ASSUME NEW strict \in Engine, NEW lenient \in Engine,
         GrantsNoMore(strict, lenient),
         NEW risk \in Risk, NEW target \in Target \cup {NoPath},
         Lets(strict, risk, target)
  PROVE  Lets(lenient, risk, target)
<1> DEFINE judged == JudgedAs(risk, target)
<1>1. judged \in Risk
  BY JudgedAsRisk
<1>2. CASE lenient.unrestricted
  BY <1>2 DEF Lets, Allows
<1>3. CASE ~lenient.unrestricted
  <2>1. ~strict.unrestricted
    BY <1>3 DEF GrantsNoMore
  <2>2. ~(target.mark = "ssh" /\ risk # "Read")
    BY <2>1 DEF Lets, Allows, Evaluate
  <2>3. /\ Evaluate(strict, risk, target) = strict.policy[judged]
        /\ Evaluate(lenient, risk, target) = lenient.policy[judged]
    BY <1>3, <2>1, <2>2 DEF Evaluate, PolicyFor
  <2>4. strict.policy[judged] \in Policy /\ lenient.policy[judged] \in Policy
    BY <1>1 DEF Engine
  <2>5. Rank(strict.policy[judged]) <= Rank(lenient.policy[judged])
    BY <1>1 DEF GrantsNoMore
  <2>6. CASE strict.policy[judged] = "Allow"
    BY <2>3, <2>4, <2>5, <2>6 DEF Rank, Policy, Lets, Allows
  <2>7. CASE strict.policy[judged] = "Ask" /\ strict.interactive
    BY <2>3, <2>4, <2>5, <2>7 DEF Rank, Policy, Lets, Allows, GrantsNoMore
  <2> QED
    BY <2>1, <2>3, <2>6, <2>7 DEF Lets, Allows
<1> QED
  BY <1>2, <1>3

-----------------------------------------------------------------------------
(* The two judgements of a file tool agree with the one look of MayWrite   *)
(* and MayRead.                                                            *)

Acceptable(risk, target) == Reachable(target) /\ Accepted(risk, target)

LEMMA EngineTypes ==
  ASSUME ctx \in Engines \cup {NoEngine}, ctx # NoEngine
  PROVE  ctx \in Engine
BY ToolCallsAssumption

LEMMA WriteJudgements ==
  ASSUME ctx \in Engines \cup {NoEngine}, NEW target \in Target,
         Acceptable("WorkspaceWrite", target)
  PROVE  MayWrite(target)
<1>1. CASE ctx = NoEngine
  BY <1>1 DEF Acceptable, Reachable, PathWithinWorkspace, MayWrite
<1>2. CASE ctx # NoEngine
  <2>1. target # NoPath /\ target.mark \in {"plain", "ssh", "key"}
    BY DEF Target, NoPath
  <2>2. Lets(ctx, "WorkspaceWrite", target)
    BY <1>2 DEF Acceptable, Accepted
  <2> QED
    BY <1>2, <2>1, <2>2
    DEF Lets, Allows, Evaluate, PolicyFor, JudgedAs, LeavesWorkspace,
        IsCredentialPath, IsInsideWorkspace, MayWrite, Settles
<1> QED
  BY <1>1, <1>2

LEMMA ReadJudgements ==
  ASSUME ctx \in Engines \cup {NoEngine}, NEW target \in Target,
         Acceptable("Read", target)
  PROVE  MayRead(target)
<1>1. CASE ctx = NoEngine
  BY <1>1 DEF Acceptable, Reachable, PathWithinWorkspace, MayRead, MayWrite
<1>2. CASE ctx # NoEngine /\ target.place = "inside"
  <2>1. target # NoPath /\ target.mark \in {"plain", "ssh", "key"}
    BY DEF Target, NoPath
  <2>2. Lets(ctx, "Read", target)
    BY <1>2 DEF Acceptable, Accepted
  <2> QED
    BY <1>2, <2>1, <2>2
    DEF Lets, Allows, Evaluate, PolicyFor, JudgedAs, LeavesWorkspace,
        IsCredentialPath, IsInsideWorkspace, MayRead, Settles
<1>3. CASE ctx # NoEngine /\ target.place # "inside"
  <2>1. target # NoPath /\ target.mark \in {"plain", "ssh", "key"}
    BY DEF Target, NoPath
  <2>2. Lets(ctx, "OutsideWorkspaceWrite", target)
    BY <1>3 DEF Acceptable, Reachable, PathWithinWorkspace, Check, Lets, Evaluate
  <2> QED
    BY <1>3, <2>1, <2>2
    DEF Lets, Allows, Evaluate, PolicyFor, JudgedAs, LeavesWorkspace,
        IsCredentialPath, IsInsideWorkspace, MayRead, MayWrite, Settles
<1> QED
  BY <1>1, <1>2, <1>3

LEMMA CallTargets ==
  /\ \A c \in PathCall : c.target \in Target
  /\ \A c \in ToolCall \cup PatchCall :
       c.op = "shell" => c.root \in Target /\ c.root.place = "inside"
BY DEF ToolCall, PatchCall, PathCall, ShellCall, OtherCall, ReplaceCall, CreateCall, DiffCall,
       WorkspaceRoot

-----------------------------------------------------------------------------
(* The calls.                                                              *)

\* A file tool that has come past the engine was accepted by it, and asked
\* for a path it may reach; so were a command and a request under way.
JudgedInv ==
  /\ call \in PathCall /\ pc \in {"resolved", "judged", "making", "writing"} =>
       Reachable(call.target)
  /\ call \in PathCall /\ pc \in {"judged", "making", "writing"} =>
       Accepted(RiskOfCall, call.target)
  /\ call.op = "shell" /\ pc = "running" => Accepted(ClassifyCommand(call.argv), call.root)
  /\ call.op = "web_search" /\ pc = "running" => Accepted("Network", NoPath)
  /\ pc = "running" => call.op \in {"shell", "web_search", "git"}

IInv ==
  /\ call \in ToolCall \cup PatchCall
  /\ ctx \in Engines \cup {NoEngine}
  /\ JudgedInv

\* The operations tell the kinds of calls apart.
LEMMA PathCalls ==
  /\ \A c \in PathCall : c.op \in {"read_file", "write_file", "list_directory", "grep"}
  /\ \A c \in ToolCall \cup PatchCall :
       c.op \in {"read_file", "write_file", "list_directory", "grep"} => c \in PathCall
BY DEF ToolCall, PatchCall, PathCall, ShellCall, OtherCall, ReplaceCall, CreateCall, DiffCall

LEMMA StepKeeps ==
  ASSUME IInv, [Next]_vars
  PROVE  IInv' /\ UNCHANGED inputs
<1>0. UNCHANGED inputs
  BY DEF Next, vars, inputs, ForeignChange, UnknownTool, MissingArgument,
     CallCancelled, Resolve, Judge, ReadFile, WriteFile, ListDirectory,
     Grep, Glob, Shell, WebSearch, Git, RunEnds, LookForFile, ExactReplace,
     ApplyUnifiedDiff, CreateFile, MakeDirectories, MakeDirectoriesFails,
     AtomicWrite, AtomicWriteFails, Edit
<1>1. (call \in ToolCall \cup PatchCall)' /\ (ctx \in Engines \cup {NoEngine})'
  BY <1>0 DEF IInv, inputs
<1>2. \A target : Reachable(target)' = Reachable(target)
  BY <1>0 DEF inputs, Reachable
<1>3. \A risk, target : Accepted(risk, target)' = Accepted(risk, target)
  BY <1>0 DEF inputs, Accepted
<1>4. call' = call /\ RiskOfCall' = RiskOfCall
  BY <1>0 DEF inputs, RiskOfCall
<1> SUFFICES JudgedInv'
  BY <1>0, <1>1 DEF IInv
<1>5. CASE pc' = pc
  BY <1>2, <1>3, <1>4, <1>5 DEF IInv, JudgedInv
<1>6. CASE pc' \notin {"resolved", "judged", "making", "writing", "running"}
  BY <1>6 DEF JudgedInv
<1>7. CASE Resolve
  BY <1>2, <1>4, <1>7 DEF Resolve, Go, JudgedInv
<1>8. CASE Judge
  BY <1>2, <1>3, <1>4, <1>8 DEF Judge, Go, IInv, JudgedInv
<1>9. CASE WriteFile \/ MakeDirectories
  BY <1>2, <1>3, <1>4, <1>9 DEF WriteFile, MakeDirectories, Go, IInv, JudgedInv
<1>10. CASE CreateFile \/ ExactReplace \/ ApplyUnifiedDiff
  <2>1. /\ call.op \in {"create_file", "exact_replace", "apply_unified_diff"}
        /\ pc' \in {"making", "writing", "failed"}
    BY <1>10 DEF CreateFile, ExactReplace, ApplyUnifiedDiff, Edit, Go
  <2>2. call \notin PathCall
    BY <2>1, PathCalls
  <2> QED
    BY <1>4, <2>1, <2>2 DEF JudgedInv
<1>11. CASE Shell \/ WebSearch \/ Git
  BY <1>3, <1>4, <1>11, PathCalls DEF Shell, WebSearch, Git, Go, JudgedInv
<1>12. \/ pc' = pc
       \/ pc' \notin {"resolved", "judged", "making", "writing", "running"}
       \/ Resolve \/ Judge \/ WriteFile \/ MakeDirectories
       \/ CreateFile \/ ExactReplace \/ ApplyUnifiedDiff
       \/ Shell \/ WebSearch \/ Git
  BY DEF Next, vars, ForeignChange, UnknownTool, MissingArgument,
     CallCancelled, ReadFile, ListDirectory, Grep, Glob, RunEnds,
     LookForFile, MakeDirectoriesFails, AtomicWrite, AtomicWriteFails, Go
<1> QED
  BY <1>5, <1>6, <1>7, <1>8, <1>9, <1>10, <1>11, <1>12

LEMMA JudgedInductive == Spec => []IInv
<1>1. Init => IInv
  BY DEF Init, IInv, JudgedInv
<1> QED
  BY <1>1, StepKeeps, PTL DEF Spec

\* What the settings deny is left untouched by every call, whatever engines,
\* texts and diffs there are: a call that acts has been judged, and the two
\* judgements are as strict as the settings.
THEOREM DenialsHold == Spec => DeniedMeansUntouched
<1> DEFINE Step ==
      /\ call.op = "write_file" /\ ~MayWrite(call.target) =>
           dir' = dir /\ (file' # file => foreign' # foreign)
      /\ call.op = "read_file" /\ ~MayRead(call.target) => pc' # "returned"
      /\ call.op = "shell" /\ pc' = "running" => MayRun(call.root, ClassifyCommand(call.argv))
      /\ call.op = "web_search" /\ pc' = "running" => ctx = NoEngine \/ Settles("Network")
<1>1. IInv /\ [Next]_vars => [Step]_vars
  <2> SUFFICES ASSUME IInv, Next PROVE Step
    OBVIOUS
  <2>1. ASSUME call.op = "write_file", ~MayWrite(call.target)
        PROVE  dir' = dir /\ (file' # file => foreign' # foreign)
    <3>1. call \in PathCall /\ RiskOfCall = "WorkspaceWrite"
      BY <2>1, PathCalls DEF IInv, RiskOfCall
    <3>2. pc \notin {"making", "writing"}
      BY <2>1, <3>1, WriteJudgements, CallTargets DEF IInv, JudgedInv, Acceptable
    <3>3. CASE ForeignChange
      BY <3>3 DEF ForeignChange
    <3> QED
      BY <3>2, <3>3
      DEF Next, UnknownTool, MissingArgument, CallCancelled, Resolve, Judge,
          ReadFile, WriteFile, ListDirectory, Grep, Glob, Shell, WebSearch,
          Git, RunEnds, LookForFile, ExactReplace, ApplyUnifiedDiff,
          CreateFile, MakeDirectories, MakeDirectoriesFails, AtomicWrite,
          AtomicWriteFails, Edit, Keep
  <2>2. ASSUME call.op = "read_file", ~MayRead(call.target), pc' = "returned"
        PROVE  FALSE
    <3>1. call \in PathCall /\ RiskOfCall = "Read"
      BY <2>2, PathCalls DEF IInv, RiskOfCall
    <3>2. pc \notin {"judged", "making", "writing"}
      BY <2>2, <3>1, ReadJudgements, CallTargets DEF IInv, JudgedInv, Acceptable
    <3>3. ~ForeignChange
      BY <2>2 DEF ForeignChange, Over
    <3>4. ~(\/ UnknownTool \/ MissingArgument \/ CallCancelled \/ Resolve
            \/ Judge \/ ReadFile \/ WriteFile \/ AtomicWrite \/ AtomicWriteFails
            \/ MakeDirectories \/ MakeDirectoriesFails)
      BY <2>2, <3>2
      DEF UnknownTool, MissingArgument, CallCancelled, Resolve, Judge,
          ReadFile, WriteFile, AtomicWrite, AtomicWriteFails,
          MakeDirectories, MakeDirectoriesFails, Go
    <3>5. ~(ListDirectory \/ Grep \/ Glob \/ Shell \/ WebSearch \/ Git)
      BY <2>2 DEF ListDirectory, Grep, Glob, Shell, WebSearch, Git
    <3>6. ~(LookForFile \/ ExactReplace \/ ApplyUnifiedDiff \/ CreateFile)
      BY <2>2 DEF LookForFile, ExactReplace, ApplyUnifiedDiff, CreateFile
    <3>7. ~RunEnds
      BY <2>2 DEF RunEnds, IInv, JudgedInv
    <3> QED
      BY <3>3, <3>4, <3>5, <3>6, <3>7 DEF Next
  <2>3. ASSUME call.op = "shell", pc' = "running"
        PROVE  MayRun(call.root, ClassifyCommand(call.argv))
    <3>1. (IInv)' /\ UNCHANGED inputs
      BY StepKeeps
    <3>2. Accepted(ClassifyCommand(call.argv), call.root)
      BY <2>3, <3>1 DEF IInv, JudgedInv, inputs, Accepted
    <3>3. call.root.mark \in {"plain", "ssh", "key"} /\ call.root.place = "inside"
      BY <2>3, CallTargets DEF IInv, Target
    <3>4. CASE ctx = NoEngine
      BY <3>4 DEF MayRun
    <3>5. CASE ctx # NoEngine
      <4>1. Lets(ctx, ClassifyCommand(call.argv), call.root)
        BY <3>2, <3>5 DEF Accepted
      <4> QED
        BY <3>3, <4>1
        DEF Lets, Allows, Evaluate, PolicyFor, JudgedAs, LeavesWorkspace,
            IsCredentialPath, IsInsideWorkspace, MayRun, Settles
    <3> QED
      BY <3>4, <3>5
  <2>4. ASSUME call.op = "web_search", pc' = "running"
        PROVE  ctx = NoEngine \/ Settles("Network")
    <3>1. (IInv)' /\ UNCHANGED inputs
      BY StepKeeps
    <3>2. Accepted("Network", NoPath)
      BY <2>4, <3>1 DEF IInv, JudgedInv, inputs, Accepted
    <3> QED
      BY <3>2, EngineTypes
      DEF IInv, Accepted, Lets, Allows, Evaluate, PolicyFor, JudgedAs,
          LeavesWorkspace, IsCredentialPath, NoPath, Settles
  <2> QED
    BY <2>1, <2>2, <2>3, <2>4
<1> QED
  BY <1>1, JudgedInductive, PTL DEF Spec, DeniedMeansUntouched

-----------------------------------------------------------------------------
(* Induction over a number: a set of numbers that has a member has a least *)
(* one.                                                                    *)
LEMMA LeastNatural ==
  ASSUME NEW T, T \subseteq Nat, T # {}
  PROVE  \E n \in T : \A m \in T : n <= m
<1> DEFINE less == {ss \in Nat \X Nat : ss[1] < ss[2]}
<1>1. PICK n \in T : \A m \in T : <<m, n>> \notin less
  <2>1. IsWellFoundedOn(less, Nat)
    BY NatLessThanWellFounded DEF OpToRel
  <2> HIDE DEF less
  <2> QED
    BY <2>1, WFMin
<1>2. n \in Nat
  OBVIOUS
<1>3. ASSUME NEW m \in T
      PROVE  n <= m
  <2>1. m \in Nat /\ <<m, n>> \notin less
    BY <1>1
  <2>2. ~(m < n)
    BY <1>2, <2>1
  <2> QED
    BY <1>2, <2>1, <2>2
<1> QED
  BY <1>3

\* What holds at 0 and goes on holding holds up to n.
LEMMA UpTo ==
  ASSUME NEW n \in Nat, NEW T, 0 \in T,
         \A k \in 0..(n - 1) : k \in T => k + 1 \in T
  PROVE  \A k \in 0..n : k \in T
<1> DEFINE rest == (0..n) \ T
<1>1. SUFFICES ASSUME rest # {} PROVE FALSE
  OBVIOUS
<1>2. PICK k \in rest : \A m \in rest : k <= m
  <2>1. rest \subseteq Nat
    OBVIOUS
  <2> HIDE DEF rest
  <2> QED
    BY <1>1, <2>1, LeastNatural
<1>3. k \in 0..n /\ k \notin T
  OBVIOUS
<1>4. k # 0 /\ k - 1 \in 0..(n - 1)
  BY <1>3
<1>5. k - 1 \notin T
  BY <1>3, <1>4
<1>6. k - 1 \in rest
  BY <1>4, <1>5
<1> QED
  BY <1>2, <1>3, <1>6

-----------------------------------------------------------------------------
(* Texts and their parts.                                                  *)
LEMMA ListIsSeq ==
  ASSUME NEW S, NEW n \in Nat, NEW list \in [1..n -> S]
  PROVE  list \in Seq(S) /\ Len(list) = n
BY SeqDef

LEMMA EndOf ==
  ASSUME NEW S, NEW front \in Seq(S), NEW back \in Seq(S)
  PROVE  SubSeq(front \o back, Len(front) + 1, Len(front) + Len(back)) = back
<1> DEFINE end == SubSeq(front \o back, Len(front) + 1, Len(front) + Len(back))
<1>1. /\ end \in Seq(S) /\ Len(end) = Len(back)
      /\ \A i \in 1..Len(back) : end[i] = back[i]
  OBVIOUS
<1> QED
  BY <1>1, SeqEqual

LEMMA StartOf ==
  ASSUME NEW S, NEW front \in Seq(S), NEW back \in Seq(S), NEW a \in Nat, a # 0, NEW b \in Nat,
         b <= Len(front)
  PROVE  SubSeq(front \o back, a, b) = SubSeq(front, a, b)
<1>1. /\ SubSeq(front \o back, a, b) \in Seq(S) /\ SubSeq(front, a, b) \in Seq(S)
      /\ Len(SubSeq(front \o back, a, b)) = Len(SubSeq(front, a, b))
      /\ \A i \in 1..Len(SubSeq(front, a, b)) : SubSeq(front \o back, a, b)[i] = SubSeq(front, a, b)[i]
  OBVIOUS
<1> QED
  BY <1>1, SeqEqual

LEMMA Glued ==
  ASSUME NEW S, NEW front \in Seq(S), NEW back \in Seq(S), NEW text \in Seq(S),
         Len(text) = Len(front) + Len(back),
         \A i \in 1..Len(front) : text[i] = front[i],
         \A i \in 1..Len(back) : text[Len(front) + i] = back[i]
  PROVE  front \o back = text
<1>1. front \o back \in Seq(S) /\ Len(front \o back) = Len(text)
  OBVIOUS
<1>2. ASSUME NEW i \in 1..Len(text)
      PROVE  (front \o back)[i] = text[i]
  <2>1. CASE i <= Len(front)
    BY <2>1
  <2>2. CASE i > Len(front)
    <3>1. i - Len(front) \in 1..Len(back) /\ Len(front) + (i - Len(front)) = i
      BY <2>2
    <3>2. (front \o back)[i] = back[i - Len(front)]
      BY <2>2
    <3> QED
      BY <3>1, <3>2
  <2> QED
    BY <2>1, <2>2
<1> QED
  BY <1>1, <1>2, SeqEqual

LEMMA Parts ==
  ASSUME NEW S, NEW text \in Seq(S), NEW m \in Nat, NEW n \in Nat, m <= n, n <= Len(text)
  PROVE  SubSeq(text, 1, m) \o SubSeq(text, m + 1, n) = SubSeq(text, 1, n)
<1>1. Len(text) \in Nat
  OBVIOUS
<1>2. /\ SubSeq(text, 1, m) \in Seq(S) /\ Len(SubSeq(text, 1, m)) = m
      /\ \A i \in 1..m : SubSeq(text, 1, m)[i] = text[i]
  BY <1>1
<1>3. /\ SubSeq(text, m + 1, n) \in Seq(S) /\ Len(SubSeq(text, m + 1, n)) = n - m
      /\ \A i \in 1..(n - m) : SubSeq(text, m + 1, n)[i] = text[m + i]
  BY <1>1
<1>4. /\ SubSeq(text, 1, n) \in Seq(S) /\ Len(SubSeq(text, 1, n)) = n
      /\ \A i \in 1..n : SubSeq(text, 1, n)[i] = text[i]
  BY <1>1
<1> QED
  BY <1>2, <1>3, <1>4, Glued

LEMMA Whole ==
  ASSUME NEW S, NEW text \in Seq(S), NEW n \in Nat, n <= Len(text)
  PROVE  SubSeq(text, 1, n) \o SubSeq(text, n + 1, Len(text)) = text
<1>1. Len(text) \in Nat
  OBVIOUS
<1>2. /\ SubSeq(text, 1, n) \in Seq(S) /\ Len(SubSeq(text, 1, n)) = n
      /\ \A i \in 1..n : text[i] = SubSeq(text, 1, n)[i]
  BY <1>1
<1>3. /\ SubSeq(text, n + 1, Len(text)) \in Seq(S)
      /\ Len(SubSeq(text, n + 1, Len(text))) = Len(text) - n
      /\ \A i \in 1..(Len(text) - n) : text[n + i] = SubSeq(text, n + 1, Len(text))[i]
  BY <1>1
<1>4. \A front \in Seq(S), back \in Seq(S) :
        /\ Len(front) = n /\ Len(back) = Len(text) - n
        /\ \A i \in 1..n : text[i] = front[i]
        /\ \A i \in 1..(Len(text) - n) : text[n + i] = back[i]
        => front \o back = text
  <2> SUFFICES ASSUME NEW front \in Seq(S), NEW back \in Seq(S),
                      Len(front) = n, Len(back) = Len(text) - n,
                      \A i \in 1..n : text[i] = front[i],
                      \A i \in 1..(Len(text) - n) : text[n + i] = back[i]
               PROVE  front \o back = text
    OBVIOUS
  <2>1. Len(text) = Len(front) + Len(back)
    BY <1>1
  <2>2. \A i \in 1..Len(front) : text[i] = front[i]
    OBVIOUS
  <2>3. \A i \in 1..Len(back) : text[Len(front) + i] = back[i]
    OBVIOUS
  <2> QED
    BY <2>1, <2>2, <2>3, Glued, Zenon
<1> QED
  BY <1>2, <1>3, <1>4

LEMMA Middle ==
  ASSUME NEW S, NEW pre \in Seq(S), NEW old \in Seq(S), NEW post \in Seq(S)
  PROVE  /\ pre \o old \o post \in Seq(S)
         /\ Len(pre \o old \o post) = Len(pre) + Len(old) + Len(post)
         /\ SubSeq(pre \o old \o post, Len(pre) + 1, Len(pre) + Len(old)) = old
<1>1. /\ pre \o old \in Seq(S) /\ Len(pre \o old) = Len(pre) + Len(old)
      /\ pre \o old \o post \in Seq(S)
      /\ Len(pre \o old \o post) = Len(pre \o old) + Len(post)
  OBVIOUS
<1>2. SubSeq(pre \o old \o post, Len(pre) + 1, Len(pre) + Len(old))
        = SubSeq(pre \o old, Len(pre) + 1, Len(pre) + Len(old))
  BY <1>1, StartOf
<1> QED
  BY <1>1, <1>2, EndOf

-----------------------------------------------------------------------------
(* Where a text occurs.                                                    *)
LEMMA FindFirst ==
  ASSUME NEW text \in Seq(Char), NEW old \in Seq(Char), NEW from \in Nat \ {0}
  PROVE  LET at == {i \in from..(Len(text) - Len(old) + 1) : OccursAt(text, old, i)}
             i == Find(text, old, from)
         IN  /\ i = 0 => at = {}
             /\ i # 0 => i \in at /\ \A j \in at : i <= j
<1> DEFINE at == {i \in from..(Len(text) - Len(old) + 1) : OccursAt(text, old, i)}
<1>1. CASE at = {}
  <2>1. Find(text, old, from) = 0
    BY <1>1 DEF Find
  <2> QED
    BY <1>1, <2>1
<1>2. CASE at # {}
  <2>1. at \subseteq Nat /\ 0 \notin at
    OBVIOUS
  <2>2. \E i \in at : \A j \in at : i <= j
    BY <1>2, <2>1, LeastNatural
  <2>3. Find(text, old, from) = CHOOSE i \in at : \A j \in at : i <= j
    BY <1>2 DEF Find
  <2> HIDE DEF at
  <2>4. Find(text, old, from) \in at /\ \A j \in at : Find(text, old, from) <= j
    BY <2>2, <2>3
  <2>5. Find(text, old, from) # 0
    BY <2>1, <2>4
  <2> QED
    BY <2>4, <2>5 DEF at
<1> QED
  BY <1>1, <1>2

\* A text that falls into a passage and what is around it has the passage
\* there.
LEMMA PassageOccurs ==
  ASSUME NEW text \in Seq(Char), NEW old \in Seq(Char), NEW j \in 0..Len(text)
  PROVE  text = SubSeq(text, 1, j) \o old \o SubSeq(text, j + Len(old) + 1, Len(text))
         => j + 1 <= Len(text) - Len(old) + 1 /\ OccursAt(text, old, j + 1)
<1>1. j \in Nat /\ Len(text) \in Nat /\ Len(old) \in Nat
  OBVIOUS
<1>2. SubSeq(text, 1, j) \in Seq(Char) /\ Len(SubSeq(text, 1, j)) = j
  BY <1>1
<1>3. SubSeq(text, j + Len(old) + 1, Len(text)) \in Seq(Char)
  BY <1>1
<1>4. \A pre \in Seq(Char), post \in Seq(Char) :
        Len(pre) = j /\ text = pre \o old \o post =>
          j + Len(old) <= Len(text) /\ SubSeq(text, j + 1, j + Len(old)) = old
  <2> SUFFICES ASSUME NEW pre \in Seq(Char), NEW post \in Seq(Char)
               PROVE  Len(pre) = j /\ text = pre \o old \o post =>
                        /\ j + Len(old) <= Len(text)
                        /\ SubSeq(text, j + 1, j + Len(old)) = old
    OBVIOUS
  <2>1. /\ Len(pre \o old \o post) = Len(pre) + Len(old) + Len(post)
        /\ SubSeq(pre \o old \o post, Len(pre) + 1, Len(pre) + Len(old)) = old
    BY Middle
  <2>2. Len(post) \in Nat
    OBVIOUS
  <2> QED
    BY <1>1, <2>1, <2>2
<1>5. /\ j + 1 + Len(old) - 1 = j + Len(old)
      /\ j + Len(old) <= Len(text) => j + 1 <= Len(text) - Len(old) + 1
  BY <1>1
<1> HAVE text = SubSeq(text, 1, j) \o old \o SubSeq(text, j + Len(old) + 1, Len(text))
<1>6. j + Len(old) <= Len(text) /\ SubSeq(text, j + 1, j + Len(old)) = old
  BY <1>2, <1>3, <1>4, Zenon
<1> QED
  BY <1>5, <1>6, Zenon DEF OccursAt

\* And the other way round.
LEMMA OccurrenceDivides ==
  ASSUME NEW text \in Seq(Char), NEW old \in Seq(Char), NEW j \in 0..Len(text),
         j + 1 <= Len(text) - Len(old) + 1, OccursAt(text, old, j + 1)
  PROVE  text = SubSeq(text, 1, j) \o old \o SubSeq(text, j + Len(old) + 1, Len(text))
<1>1. j \in Nat /\ Len(old) \in Nat /\ Len(text) \in Nat
  OBVIOUS
<1>2. PICK n \in Nat : n = j + Len(old)
  BY <1>1
<1>3. j <= n /\ n <= Len(text)
  BY <1>1, <1>2
<1>4. old = SubSeq(text, j + 1, n)
  <2>1. j + 1 + Len(old) - 1 = n
    BY <1>1, <1>2
  <2> QED
    BY <2>1 DEF OccursAt
<1>5. SubSeq(text, 1, j) \o SubSeq(text, j + 1, n) = SubSeq(text, 1, n)
  BY <1>1, <1>3, Parts
<1>6. SubSeq(text, 1, n) \o SubSeq(text, n + 1, Len(text)) = text
  BY <1>1, <1>3, Whole
<1> QED
  BY <1>2, <1>4, <1>5, <1>6

\* What is put in the place of the first occurrence replaces it and nothing
\* else.
LEMMA FirstIsReplaced ==
  ASSUME NEW text \in Seq(Char), NEW old \in Seq(Char), NEW new \in Seq(Char),
         Find(text, old, 1) # 0
  PROVE  /\ ReplacedAt(text, Find(text, old, 1), old, new) \in Seq(Char)
         /\ ReplacesFirst(text, ReplacedAt(text, Find(text, old, 1), old, new), old, new)
<1> DEFINE first == Find(text, old, 1)
<1>1. /\ first \in 1..(Len(text) - Len(old) + 1) /\ OccursAt(text, old, first)
      /\ \A j \in 1..(Len(text) - Len(old) + 1) : OccursAt(text, old, j) => first <= j
  BY FindFirst
<1> HIDE DEF first
<1> DEFINE i == first - 1
<1>2. /\ i \in 0..Len(text) /\ i + 1 = first /\ i + Len(old) + 1 = first + Len(old)
      /\ i \in Nat /\ first \in Nat /\ Len(text) \in Nat /\ Len(old) \in Nat
  BY <1>1
<1> HIDE DEF i
<1>3. text = SubSeq(text, 1, i) \o old \o SubSeq(text, i + Len(old) + 1, Len(text))
  <2>1. i + 1 <= Len(text) - Len(old) + 1 /\ OccursAt(text, old, i + 1)
    BY <1>1, <1>2
  <2> QED
    BY <1>2, <2>1, OccurrenceDivides
<1>4. ReplacedAt(text, first, old, new)
        = SubSeq(text, 1, i) \o new \o SubSeq(text, i + Len(old) + 1, Len(text))
  BY <1>2 DEF ReplacedAt, i
<1>5. ASSUME NEW j \in 0..(i - 1),
             text = SubSeq(text, 1, j) \o old \o SubSeq(text, j + Len(old) + 1, Len(text))
      PROVE  FALSE
  <2>1. j \in 0..Len(text) /\ j \in Nat
    BY <1>2
  <2>2. j + 1 <= Len(text) - Len(old) + 1 /\ OccursAt(text, old, j + 1)
    BY <1>5, <2>1, PassageOccurs
  <2>3. first <= j + 1
    BY <1>1, <1>2, <2>1, <2>2
  <2> QED
    BY <1>2, <2>3
<1>6. ReplacesFirst(text, ReplacedAt(text, first, old, new), old, new)
  BY <1>2, <1>3, <1>4, <1>5 DEF ReplacesFirst
<1>7. ReplacedAt(text, first, old, new) \in Seq(Char)
  <2>1. SubSeq(text, 1, i) \in Seq(Char) /\ SubSeq(text, i + Len(old) + 1, Len(text)) \in Seq(Char)
    BY <1>2
  <2> QED
    BY <1>4, <2>1
<1> QED
  BY <1>6, <1>7 DEF first

\* exact_replace finds no second occurrence beside the first.
LEMMA ReplaceableOccursOnce ==
  ASSUME NEW text \in Seq(Char), NEW old \in Seq(Char), Replaceable(text, old)
  PROVE  OccursOnce(text, old)
<1> DEFINE first == Find(text, old, 1)
<1>1. /\ first \in 1..(Len(text) - Len(old) + 1)
      /\ \A j \in 1..(Len(text) - Len(old) + 1) : OccursAt(text, old, j) => first <= j
  BY FindFirst DEF Replaceable
<1>2. Len(text) \in Nat /\ Len(old) \in Nat /\ first \in Nat /\ first # 0
  BY <1>1
<1>3. \A j \in (first + Len(old))..(Len(text) - Len(old) + 1) : ~OccursAt(text, old, j)
  <2>1. Find(text, old, first + Len(old)) = 0
    BY DEF Replaceable
  <2>2. first + Len(old) \in Nat \ {0}
    BY <1>2
  <2> HIDE DEF first
  <2> QED
    BY <2>1, <2>2, FindFirst
<1> HIDE DEF first
<1>4. ASSUME NEW i \in 1..Len(text), NEW j \in 1..Len(text),
             i + Len(old) <= j, j + Len(old) <= Len(text) + 1,
             OccursAt(text, old, i), OccursAt(text, old, j)
      PROVE  FALSE
  <2>1. first <= i
    BY <1>1, <1>2, <1>4
  <2> QED
    BY <1>2, <1>3, <1>4, <2>1
<1> QED
  BY <1>4 DEF OccursOnce, OccursAt

-----------------------------------------------------------------------------
(* The two sides of a diff.                                                *)
DiffLine == [kind : LineKind, payload : Seq(Char)]
Chunk == [in_hunk : BOOLEAN, old : Seq(Char), new : Seq(Char)]
NoChunk == [in_hunk |-> FALSE, old |-> <<>>, new |-> <<>>]

LEMMA LineOfType ==
  ASSUME NEW line \in DiffLine
  PROVE  LineOf(line) \in Seq(Char)
BY ToolCallsAssumption DEF DiffLine, LineOf

LEMMA LineTaken ==
  ASSUME NEW chunks \in Chunk, NEW line \in DiffLine
  PROVE  /\ TakeLine(chunks, line) \in Chunk
         /\ TakeLine(chunks, line).in_hunk <=> chunks.in_hunk \/ line.kind = "header"
         /\ TakeLine(chunks, line).old =
              IF chunks.in_hunk /\ line.kind \in {"keep", "drop"}
              THEN chunks.old \o LineOf(line) ELSE chunks.old
         /\ TakeLine(chunks, line).new =
              IF chunks.in_hunk /\ line.kind \in {"keep", "add"}
              THEN chunks.new \o LineOf(line) ELSE chunks.new
<1>1. /\ LineOf(line) \in Seq(Char) /\ chunks.old \in Seq(Char) /\ chunks.new \in Seq(Char)
      /\ chunks.in_hunk \in BOOLEAN
  BY LineOfType DEF Chunk
<1>2. chunks.old \o LineOf(line) \in Seq(Char) /\ chunks.new \o LineOf(line) \in Seq(Char)
  BY <1>1
<1>3. CASE line.kind = "header"
  BY <1>1, <1>3 DEF TakeLine, Chunk
<1>4. CASE line.kind # "header"
  BY <1>1, <1>2, <1>4 DEF TakeLine, Chunk
<1> QED
  BY <1>3, <1>4

\* The loop over the lines, turn by turn.
LEMMA ChunksTaken ==
  ASSUME NEW diff \in Seq(DiffLine)
  PROVE  \E taken \in [0..Len(diff) -> Chunk] :
           /\ taken[0] = NoChunk
           /\ \A n \in 1..Len(diff) : taken[n] = TakeLine(taken[n - 1], diff[n])
           /\ Chunks(diff) = taken[Len(diff)]
<1> DEFINE len == Len(diff)
           IsTaken(f, m) == /\ f[0] = NoChunk
                            /\ \A n \in 1..m : f[n] = TakeLine(f[n - 1], diff[n])
           good == {m \in 0..len : \E f \in [0..m -> Chunk] : IsTaken(f, m)}
<1>0. len \in Nat /\ \A n \in 1..len : diff[n] \in DiffLine
  OBVIOUS
<1>1. 0 \in good
  <2>1. NoChunk \in Chunk
    BY DEF Chunk, NoChunk
  <2> DEFINE f == [n \in 0..0 |-> NoChunk]
  <2>2. f \in [0..0 -> Chunk] /\ IsTaken(f, 0)
    BY <2>1
  <2> HIDE DEF f
  <2>3. 0 \in 0..len
    BY <1>0
  <2> QED
    BY <2>2, <2>3
<1> HIDE DEF len
<1>2. ASSUME NEW k \in 0..(len - 1), k \in good
      PROVE  k + 1 \in good
  <2>1. PICK f \in [0..k -> Chunk] : IsTaken(f, k)
    BY <1>2
  <2> DEFINE g == [n \in 0..(k + 1) |-> IF n = k + 1 THEN TakeLine(f[k], diff[k + 1]) ELSE f[n]]
  <2>2. TakeLine(f[k], diff[k + 1]) \in Chunk
    <3>1. f[k] \in Chunk /\ diff[k + 1] \in DiffLine
      BY <1>0
    <3> QED
      BY <3>1, LineTaken
  <2>3. g \in [0..(k + 1) -> Chunk]
    BY <1>0, <2>2
  <2>4. g[0] = NoChunk
    BY <1>0, <2>1
  <2>5. ASSUME NEW n \in 1..(k + 1)
        PROVE  g[n] = TakeLine(g[n - 1], diff[n])
    <3>1. n - 1 \in 0..k /\ g[n - 1] = f[n - 1]
      BY <1>0
    <3>2. CASE n = k + 1
      BY <1>0, <3>1, <3>2
    <3>3. CASE n # k + 1
      BY <1>0, <2>1, <3>1, <3>3
    <3> QED
      BY <3>2, <3>3
  <2> HIDE DEF g
  <2>6. k + 1 \in 0..len
    BY <1>0
  <2> QED
    BY <2>3, <2>4, <2>5, <2>6
<1>3. len \in good
  <2> HIDE DEF good
  <2>1. \A k \in 0..len : k \in good
    BY <1>0, <1>1, <1>2, UpTo
  <2> QED
    BY <1>0, <2>1
<1> DEFINE Body(f) == [n \in 0..len |-> IF n = 0 THEN NoChunk ELSE TakeLine(f[n - 1], diff[n])]
           taken == CHOOSE f : f = Body(f)
<1>4. taken = Body(taken)
  <2>1. PICK f \in [0..len -> Chunk] : IsTaken(f, len)
    BY <1>3
  <2>2. f = Body(f)
    BY <1>0, <2>1
  <2> QED
    BY <2>2
<1>5. Chunks(diff) = taken[len]
  BY DEF Chunks, NoChunk, len
<1> HIDE DEF taken
<1>6. taken[0] = NoChunk /\ \A n \in 1..len : taken[n] = TakeLine(taken[n - 1], diff[n])
  BY <1>0, <1>4
<1>7. taken \in [0..len -> Chunk]
  <2> DEFINE typed == {n \in 0..len : taken[n] \in Chunk}
  <2>1. 0 \in typed
    <3>1. NoChunk \in Chunk
      BY DEF Chunk, NoChunk
    <3> QED
      BY <1>0, <1>6, <3>1
  <2>2. ASSUME NEW k \in 0..(len - 1), k \in typed
        PROVE  k + 1 \in typed
    <3>1. k + 1 \in 1..len /\ (k + 1) - 1 = k /\ diff[k + 1] \in DiffLine
      BY <1>0
    <3> QED
      BY <1>6, <2>2, <3>1, LineTaken
  <2>3. \A k \in 0..len : k \in typed
    <3> HIDE DEF typed
    <3> QED
      BY <1>0, <2>1, <2>2, UpTo
  <2> QED
    BY <1>4, <2>3
<1> QED
  BY <1>5, <1>6, <1>7 DEF len

\* A text that takes up the lines of one side as the loop comes to them ends
\* as that side.
LEMMA SideIsTaken ==
  ASSUME NEW diff \in Seq(DiffLine), NEW kinds, "header" \notin kinds,
         NEW text \in [0..Len(diff) -> Seq(Char)], text[0] = <<>>,
         \A n \in 1..Len(diff) :
           text[n] = IF (\E j \in 1..(n - 1) : diff[j].kind = "header") /\ diff[n].kind \in kinds
                     THEN text[n - 1] \o LineOf(diff[n]) ELSE text[n - 1]
  PROVE  Side(diff, kinds) = text[Len(diff)]
<1> DEFINE len == Len(diff)
           Taken(n) == (\E j \in 1..(n - 1) : diff[j].kind = "header") /\ diff[n].kind \in kinds
           lines == [n \in 1..len |-> IF Taken(n) THEN LineOf(diff[n]) ELSE <<>>]
<1>1. len \in Nat /\ DOMAIN diff = 1..len
  OBVIOUS
<1>2. \A n \in 1..len : LineOf(diff[n]) \in Seq(Char)
  <2>1. \A n \in 1..len : diff[n] \in DiffLine
    OBVIOUS
  <2> QED
    BY <2>1, LineOfType
<1>3. Side(diff, kinds) = FlattenSeq(lines)
  <2> DEFINE inHunks == {n \in DOMAIN diff : \E j \in 1..(n - 1) : diff[j].kind = "header"}
             sided == [n \in DOMAIN diff |-> IF n \in inHunks /\ diff[n].kind \in kinds
                                             THEN LineOf(diff[n]) ELSE <<>>]
  <2>1. Side(diff, kinds) = FlattenSeq(sided)
    BY DEF Side
  <2>2. sided = lines
    BY <1>1
  <2> QED
    BY <2>1, <2>2
<1> HIDE DEF len
<1>4. \A n \in 1..len : lines[n] \in Seq(Char)
  BY <1>1, <1>2
<1>5. lines \in Seq(Seq(Char)) /\ Len(lines) = len
  <2>1. lines \in [1..len -> Seq(Char)]
    BY <1>4
  <2> HIDE DEF lines
  <2> QED
    BY <1>1, <2>1, ListIsSeq
<1>6. /\ \A n \in 1..len : text[n] = text[n - 1] \o lines[n]
      /\ \A n \in 0..len : text[n] \in Seq(Char)
  <2>1. \A n \in 0..len : text[n] \in Seq(Char)
    BY DEF len
  <2>2. ASSUME NEW n \in 1..len
        PROVE  text[n] = text[n - 1] \o lines[n]
    <3>1. text[n - 1] \in Seq(Char)
      BY <1>1, <2>1
    <3>2. text[n - 1] \o <<>> = text[n - 1]
      BY <3>1, ConcatEmptySeq
    <3>3. text[n] = IF Taken(n) THEN text[n - 1] \o LineOf(diff[n]) ELSE text[n - 1]
      BY DEF len
    <3>4. lines[n] = IF Taken(n) THEN LineOf(diff[n]) ELSE <<>>
      OBVIOUS
    <3> QED
      BY <3>2, <3>3, <3>4
  <2> QED
    BY <2>1, <2>2
<1> HIDE DEF lines
<1>7. CASE len = 0
  <2>1. FlattenSeq(lines) = lines /\ lines = <<>>
    BY <1>5, <1>7 DEF FlattenSeq
  <2> QED
    BY <1>3, <1>7, <2>1 DEF len
<1>8. CASE len # 0
  <2> DEFINE Body(f) == [n \in 1..len |-> IF n = 1 THEN lines[n] ELSE f[n - 1] \o lines[n]]
             flatten == CHOOSE f : f = Body(f)
             g == [n \in 1..len |-> text[n]]
  <2>1. FlattenSeq(lines) = flatten[len]
    BY <1>5, <1>8 DEF FlattenSeq
  <2>2. text[1] = lines[1]
    <3>1. 1 \in 1..len /\ text[1 - 1] = <<>>
      BY <1>1, <1>8
    <3>2. lines[1] \in Seq(Char)
      BY <1>4, <3>1
    <3>3. <<>> \o lines[1] = lines[1]
      BY <3>2, ConcatEmptySeq
    <3> QED
      BY <1>6, <3>1, <3>3
  <2>3. g = Body(g)
    <3>1. ASSUME NEW n \in 1..len
          PROVE  g[n] = IF n = 1 THEN lines[n] ELSE g[n - 1] \o lines[n]
      <4>1. CASE n = 1
        BY <2>2, <4>1
      <4>2. CASE n # 1
        <5>1. n - 1 \in 1..len
          BY <1>1, <4>2
        <5> QED
          BY <1>6, <4>2, <5>1
      <4> QED
        BY <4>1, <4>2
    <3> QED
      BY <3>1
  <2>4. flatten = Body(flatten)
    <3> HIDE DEF g
    <3> QED
      BY <2>3
  <2> HIDE DEF flatten
  <2> DEFINE agree == {0} \cup {n \in 1..len : flatten[n] = text[n]}
  <2>5. ASSUME NEW k \in 0..(len - 1), k \in agree
        PROVE  k + 1 \in agree
    <3>1. k + 1 \in 1..len /\ (k + 1) - 1 = k
      BY <1>1
    <3>2. flatten[k + 1] = IF k + 1 = 1 THEN lines[k + 1] ELSE flatten[k] \o lines[k + 1]
      BY <2>4, <3>1
    <3>3. text[k + 1] = text[k] \o lines[k + 1]
      BY <1>6, <3>1
    <3>4. CASE k = 0
      BY <2>2, <3>1, <3>2, <3>4
    <3>5. CASE k # 0
      <4>1. flatten[k] = text[k] /\ k + 1 # 1
        BY <2>5, <3>5
      <4> QED
        BY <3>1, <3>2, <3>3, <4>1
    <3> QED
      BY <3>4, <3>5
  <2>6. 0 \in agree
    OBVIOUS
  <2>7. len \in agree
    <3> HIDE DEF agree
    <3>1. \A k \in 0..len : k \in agree
      BY <1>1, <2>5, <2>6, UpTo
    <3> QED
      BY <1>1, <3>1
  <2>8. flatten[len] = text[len]
    BY <1>8, <2>7
  <2> QED
    BY <1>3, <2>1, <2>8 DEF len
<1> QED
  BY <1>7, <1>8

\* What the loop makes of a diff is its two sides.
LEMMA ChunksAreSides ==
  ASSUME NEW diff \in Seq(DiffLine)
  PROVE  /\ Chunks(diff) \in Chunk
         /\ Chunks(diff).old = Side(diff, {"keep", "drop"})
         /\ Chunks(diff).new = Side(diff, {"keep", "add"})
<1> DEFINE len == Len(diff)
<1>1. len \in Nat /\ \A n \in 1..len : diff[n] \in DiffLine
  OBVIOUS
<1>2. PICK taken \in [0..len -> Chunk] :
        /\ taken[0] = NoChunk
        /\ \A n \in 1..len : taken[n] = TakeLine(taken[n - 1], diff[n])
        /\ Chunks(diff) = taken[len]
  BY ChunksTaken
<1> HIDE DEF len
<1> DEFINE Header(n) == \E j \in 1..n : diff[j].kind = "header"
<1>3. ASSUME NEW n \in 1..len
      PROVE  /\ n - 1 \in 0..len /\ taken[n - 1] \in Chunk
             /\ taken[n].in_hunk <=> taken[n - 1].in_hunk \/ diff[n].kind = "header"
             /\ taken[n].old = IF taken[n - 1].in_hunk /\ diff[n].kind \in {"keep", "drop"}
                               THEN taken[n - 1].old \o LineOf(diff[n]) ELSE taken[n - 1].old
             /\ taken[n].new = IF taken[n - 1].in_hunk /\ diff[n].kind \in {"keep", "add"}
                               THEN taken[n - 1].new \o LineOf(diff[n]) ELSE taken[n - 1].new
  <2>1. n - 1 \in 0..len /\ taken[n - 1] \in Chunk /\ diff[n] \in DiffLine
    BY <1>1
  <2>2. taken[n] = TakeLine(taken[n - 1], diff[n])
    BY <1>2
  <2> DEFINE before == taken[n - 1]
             line == diff[n]
             after == TakeLine(before, line)
  <2>3. /\ after.in_hunk <=> before.in_hunk \/ line.kind = "header"
        /\ after.old = IF before.in_hunk /\ line.kind \in {"keep", "drop"}
                       THEN before.old \o LineOf(line) ELSE before.old
        /\ after.new = IF before.in_hunk /\ line.kind \in {"keep", "add"}
                       THEN before.new \o LineOf(line) ELSE before.new
    <3> HIDE DEF before, line
    <3>1. before \in Chunk /\ line \in DiffLine
      BY <2>1 DEF before, line
    <3> QED
      BY <3>1, LineTaken, Zenon
  <2> QED
    BY <2>1, <2>2, <2>3, Zenon
<1>4. \A n \in 0..len : taken[n].in_hunk <=> Header(n)
  <2> DEFINE good == {n \in 0..len : taken[n].in_hunk <=> Header(n)}
  <2>1. 0 \in good
    BY <1>1, <1>2 DEF NoChunk
  <2>2. ASSUME NEW k \in 0..(len - 1), k \in good
        PROVE  k + 1 \in good
    <3>1. k + 1 \in 1..len /\ (k + 1) - 1 = k /\ k + 1 \in 0..len
      BY <1>1
    <3>2. taken[k + 1].in_hunk <=> taken[k].in_hunk \/ diff[k + 1].kind = "header"
      BY <1>3, <3>1
    <3>3. Header(k + 1) <=> Header(k) \/ diff[k + 1].kind = "header"
      BY <1>1
    <3> QED
      BY <2>2, <3>1, <3>2, <3>3
  <2> HIDE DEF good
  <2>3. \A k \in 0..len : k \in good
    BY <1>1, <2>1, <2>2, UpTo
  <2> QED
    BY <2>3 DEF good
<1>5. Chunks(diff) \in Chunk
  BY <1>1, <1>2
<1>6. Chunks(diff).old = Side(diff, {"keep", "drop"})
  <2> DEFINE old == [n \in 0..len |-> taken[n].old]
  <2>1. old \in [0..len -> Seq(Char)] /\ old[0] = <<>>
    BY <1>1, <1>2 DEF Chunk, NoChunk
  <2>2. ASSUME NEW n \in 1..len
        PROVE  old[n] = IF Header(n - 1) /\ diff[n].kind \in {"keep", "drop"}
                        THEN old[n - 1] \o LineOf(diff[n]) ELSE old[n - 1]
    BY <1>1, <1>3, <1>4
  <2>3. old[len] = Chunks(diff).old
    BY <1>1, <1>2
  <2> HIDE DEF old
  <2> QED
    BY <2>1, <2>2, <2>3, SideIsTaken DEF len
<1>7. Chunks(diff).new = Side(diff, {"keep", "add"})
  <2> DEFINE new == [n \in 0..len |-> taken[n].new]
  <2>1. new \in [0..len -> Seq(Char)] /\ new[0] = <<>>
    BY <1>1, <1>2 DEF Chunk, NoChunk
  <2>2. ASSUME NEW n \in 1..len
        PROVE  new[n] = IF Header(n - 1) /\ diff[n].kind \in {"keep", "add"}
                        THEN new[n - 1] \o LineOf(diff[n]) ELSE new[n - 1]
    BY <1>1, <1>3, <1>4
  <2>3. new[len] = Chunks(diff).new
    BY <1>1, <1>2
  <2> HIDE DEF new
  <2> QED
    BY <2>1, <2>2, <2>3, SideIsTaken DEF len
<1> QED
  BY <1>5, <1>6, <1>7

-----------------------------------------------------------------------------
(* Edits.                                                                  *)

\* A patch operation writes what it computed from a text the file has had,
\* and goes no way of the tools. What the file shows is among those texts,
\* until the call writes itself. Who writes has a directory to write to.
EditInv ==
  /\ pc \in {"writing", "returned"} /\ call.op = "exact_replace" =>
       \E text \in versions : /\ Replaceable(text, call.old)
                              /\ content = Replaced(text, call.old, call.new)
  /\ pc \in {"writing", "returned"} /\ call.op = "apply_unified_diff" =>
       \E text \in versions : /\ Applicable(text, call.diff)
                              /\ content = Applied(text, call.diff)
  /\ call \in PatchCall => pc \notin {"resolved", "judged", "running"}
  /\ call.op \in {"exact_replace", "apply_unified_diff"} => pc # "making"
  /\ pc = "returned" /\ call \in PatchCall => file = FileOf(content)
  /\ pc # "returned" => Seen(file) \in versions
  /\ pc \in {"found", "writing"} => dir

LEMMA PatchCalls ==
  ASSUME NEW c \in ToolCall \cup PatchCall
  PROVE  /\ c.op = "exact_replace" => c \in PatchCall /\ c.old \in Seq(Char) /\ c.new \in Seq(Char)
         /\ c.op = "apply_unified_diff" => c \in PatchCall /\ c.diff \in Seq(DiffLine)
         /\ c \in PatchCall <=> c.op \in {"exact_replace", "create_file", "apply_unified_diff"}
         /\ c \in PatchCall => c \notin ToolCall
BY ToolCallsAssumption
DEF ToolCall, PatchCall, PathCall, ShellCall, OtherCall, ReplaceCall, CreateCall,
    DiffCall, DiffLine

LEMMA EditTypes ==
  ASSUME NEW text \in Seq(Char)
  PROVE  /\ \A old \in Seq(Char), new \in Seq(Char) :
              Replaceable(text, old) => Replaced(text, old, new) \in Seq(Char)
         /\ \A diff \in Seq(DiffLine) :
              Applicable(text, diff) => Applied(text, diff) \in Seq(Char)
<1>1. ASSUME NEW old \in Seq(Char), NEW new \in Seq(Char), Replaceable(text, old)
      PROVE  Replaced(text, old, new) \in Seq(Char)
  <2>1. Find(text, old, 1) # 0
    BY <1>1 DEF Replaceable
  <2> QED
    BY <2>1, FirstIsReplaced DEF Replaced
<1>2. ASSUME NEW diff \in Seq(DiffLine), Applicable(text, diff)
      PROVE  Applied(text, diff) \in Seq(Char)
  <2>1. Chunks(diff).old \in Seq(Char) /\ Chunks(diff).new \in Seq(Char)
    BY ChunksAreSides DEF Chunk
  <2>2. Find(text, Chunks(diff).old, 1) # 0
    BY <1>2 DEF Applicable
  <2> QED
    BY <2>1, <2>2, FirstIsReplaced DEF Applied
<1> QED
  BY <1>1, <1>2

LEMMA FileTypes ==
  /\ NoFile \in File
  /\ \A text \in Seq(Char) :
       FileOf(text) \in File /\ [FileOf(text) EXCEPT !.readable = FALSE] \in File
<1>1. NoFile \in File
  BY DEF NoFile, File
<1>2. ASSUME NEW text \in Seq(Char)
      PROVE  FileOf(text) \in File
  BY DEF FileOf, File
<1>3. ASSUME NEW text \in Seq(Char)
      PROVE  [FileOf(text) EXCEPT !.readable = FALSE] \in File
  BY DEF FileOf, File
<1> QED
  BY <1>1, <1>2, <1>3

LEMMA TypedInit ==
  ASSUME Init
  PROVE  TypeOK /\ EditInv
<1>1. /\ call \in ToolCall \cup PatchCall /\ ctx \in Engines \cup {NoEngine}
      /\ dir \in BOOLEAN /\ (file.exists => dir) /\ pc = "called"
      /\ content = <<>> /\ versions = {Seen(file)} /\ foreign = FALSE
  BY DEF Init
<1>2. file \in File
  <2>1. PICK text \in EditedTexts \cup OtherTexts :
          file \in {NoFile, FileOf(text), [FileOf(text) EXCEPT !.readable = FALSE]}
    BY DEF Init
  <2>2. text \in Seq(Char)
    BY ToolCallsAssumption
  <2> QED
    BY <2>1, <2>2, FileTypes
<1>3. Seen(file) \in Seq(Char)
  BY <1>2 DEF Seen, File
<1>4. TypeOK
  <2>1. content \in Seq(Char)
    BY <1>1
  <2> QED
    BY <1>1, <1>2, <1>3, <2>1 DEF TypeOK, PC
<1>5. EditInv
  BY <1>1 DEF EditInv
<1> QED
  BY <1>4, <1>5

LEMMA TypedNext ==
  ASSUME TypeOK, EditInv, [Next]_vars
  PROVE  TypeOK'
<1>1. UNCHANGED inputs
  BY DEF Next, vars, inputs, ForeignChange, UnknownTool, MissingArgument,
     CallCancelled, Resolve, Judge, ReadFile, WriteFile, ListDirectory,
     Grep, Glob, Shell, WebSearch, Git, RunEnds, LookForFile, ExactReplace,
     ApplyUnifiedDiff, CreateFile, MakeDirectories, MakeDirectoriesFails,
     AtomicWrite, AtomicWriteFails, Edit
<1>2. call' = call /\ ctx' = ctx
  BY <1>1 DEF inputs
<1>3. Seen(file) \in Seq(Char)
  BY DEF TypeOK, Seen, File
<1>4. ASSUME NEW next \in PC, pc' = next, next = "denied" => call.op \in {"shell", "web_search"}, Keep
      PROVE  TypeOK'
  BY <1>2, <1>4 DEF TypeOK, Keep
<1>5. CASE UNCHANGED vars
  BY <1>5 DEF TypeOK, vars
<1>6. CASE ForeignChange
  <2>1. file' \in File
    BY <1>6, ToolCallsAssumption, FileTypes DEF ForeignChange
  <2>2. Seen(file') \in Seq(Char)
    BY <2>1 DEF Seen, File
  <2>3. file'.exists => dir'
    BY <1>6 DEF ForeignChange
  <2> QED
    BY <1>2, <1>6, <2>1, <2>2, <2>3 DEF ForeignChange, TypeOK
<1>7. CASE UnknownTool \/ MissingArgument \/ CallCancelled \/ Resolve \/ Judge \/ ReadFile
           \/ ListDirectory \/ Grep \/ Glob \/ Git \/ RunEnds \/ LookForFile
           \/ MakeDirectoriesFails \/ AtomicWriteFails
  <2>1. Keep /\ pc' \in PC \ {"denied"}
    BY <1>7 DEF UnknownTool, MissingArgument, CallCancelled, Resolve, Judge, ReadFile,
       ListDirectory, Grep, Glob, Git, RunEnds, LookForFile, MakeDirectoriesFails,
       AtomicWriteFails, Go, PC, Over
  <2> QED
    BY <1>4, <2>1
<1>8. CASE Shell \/ WebSearch
  <2>1. Keep /\ pc' \in PC /\ call.op \in {"shell", "web_search"}
    BY <1>8 DEF Shell, WebSearch, Go, PC, Over
  <2> QED
    BY <1>4, <2>1
<1>9. CASE WriteFile \/ CreateFile
  <2>1. /\ UNCHANGED <<file, dir, versions, foreign>>
        /\ pc' \in PC \ {"denied"} /\ content' \in OtherTexts \cup {content}
    BY <1>9 DEF WriteFile, CreateFile, Go, PC, Over
  <2> QED
    BY <1>2, <2>1, ToolCallsAssumption DEF TypeOK
<1>10. CASE ExactReplace
  <2>1. /\ UNCHANGED <<file, dir, versions, foreign>>
        /\ pc' \in PC \ {"denied"}
        /\ \/ content' = content
           \/ /\ file.exists /\ file.readable /\ Replaceable(file.text, call.old)
              /\ content' = Replaced(file.text, call.old, call.new)
    BY <1>10 DEF ExactReplace, Edit, Go, PC, Over
  <2>2. file.text \in Seq(Char)
    BY DEF TypeOK, File
  <2>3. call.old \in Seq(Char) /\ call.new \in Seq(Char)
    BY <1>10, PatchCalls DEF TypeOK, ExactReplace
  <2>4. content' \in Seq(Char)
    BY <2>1, <2>2, <2>3, EditTypes DEF TypeOK
  <2> QED
    BY <1>2, <2>1, <2>4 DEF TypeOK
<1>11. CASE ApplyUnifiedDiff
  <2>1. /\ UNCHANGED <<file, dir, versions, foreign>>
        /\ pc' \in PC \ {"denied"}
        /\ \/ content' = content
           \/ Applicable(Seen(file), call.diff) /\ content' = Applied(Seen(file), call.diff)
    BY <1>11 DEF ApplyUnifiedDiff, Edit, Go, PC, Over
  <2>2. call.diff \in Seq(DiffLine)
    BY <1>11, PatchCalls DEF TypeOK, ApplyUnifiedDiff
  <2>3. content' \in Seq(Char)
    BY <1>3, <2>1, <2>2, EditTypes DEF TypeOK
  <2> QED
    BY <1>2, <2>1, <2>3 DEF TypeOK
<1>12. CASE MakeDirectories
  BY <1>2, <1>12 DEF MakeDirectories, Go, TypeOK, PC, Over
<1>13. CASE AtomicWrite
  <2>1. /\ file' = FileOf(content) /\ pc' = "returned"
        /\ UNCHANGED <<dir, content, versions, foreign>>
    BY <1>13 DEF AtomicWrite, Go
  <2>2. dir /\ content \in Seq(Char)
    BY <1>13 DEF AtomicWrite, EditInv, TypeOK
  <2>3. file' \in File
    BY <2>1, <2>2, FileTypes
  <2> QED
    BY <1>2, <2>1, <2>2, <2>3 DEF TypeOK, PC, Over
<1> QED
  BY <1>5, <1>6, <1>7, <1>8, <1>9, <1>10, <1>11, <1>12, <1>13 DEF Next

LEMMA EditStep ==
  ASSUME TypeOK, EditInv, [Next]_vars
  PROVE  EditInv'
<1>1. UNCHANGED inputs
  BY DEF Next, vars, inputs, ForeignChange, UnknownTool, MissingArgument,
     CallCancelled, Resolve, Judge, ReadFile, WriteFile, ListDirectory,
     Grep, Glob, Shell, WebSearch, Git, RunEnds, LookForFile, ExactReplace,
     ApplyUnifiedDiff, CreateFile, MakeDirectories, MakeDirectoriesFails,
     AtomicWrite, AtomicWriteFails, Edit
<1>2. call' = call
  BY <1>1 DEF inputs
<1>3. /\ call.op = "exact_replace" => call \in PatchCall
      /\ call.op = "apply_unified_diff" => call \in PatchCall
      /\ call \in PatchCall => call.op \in {"exact_replace", "create_file", "apply_unified_diff"}
      /\ call \in PatchCall => call \notin PathCall
      /\ call \in PatchCall => call \notin ToolCall
  BY PatchCalls DEF TypeOK, ToolCall
\* A step that only moves on, and not to the write, keeps the texts.
<1>4. ASSUME Keep, pc # "returned", pc' \in {"failed", "denied", "threw"}
      PROVE  EditInv'
  BY <1>2, <1>4 DEF Keep, EditInv, Seen
<1>5. ASSUME Keep, call \notin PatchCall, pc # "returned",
             pc' \in {"resolved", "judged", "running", "returned"}
      PROVE  EditInv'
  <2>1. call.op \notin {"exact_replace", "apply_unified_diff"}
    BY <1>3, <1>5
  <2> QED
    BY <1>2, <1>5, <2>1 DEF Keep, EditInv, Seen
<1>6. CASE UNCHANGED vars
  BY <1>6 DEF EditInv, vars, Seen
<1>7. CASE ForeignChange
  <2>1. /\ pc' = pc /\ content' = content /\ dir' = dir /\ pc # "returned"
        /\ versions' = versions \cup {Seen(file')}
    BY <1>7 DEF ForeignChange, Over
  <2>2. Seen(file)' = Seen(file')
    BY DEF Seen
  <2> QED
    BY <1>2, <2>1, <2>2 DEF EditInv
<1>8. CASE UnknownTool \/ MissingArgument \/ CallCancelled \/ MakeDirectoriesFails \/ AtomicWriteFails
  <2>1. Keep /\ pc # "returned" /\ pc' \in {"failed", "denied", "threw"}
    BY <1>8 DEF UnknownTool, MissingArgument, CallCancelled, MakeDirectoriesFails,
       AtomicWriteFails, Go
  <2> QED
    BY <1>4, <2>1
<1>9. CASE Resolve \/ Judge \/ ReadFile \/ ListDirectory \/ Grep \/ Glob \/ Shell
           \/ WebSearch \/ Git \/ RunEnds
  <2>1. Keep /\ pc # "returned"
    BY <1>9 DEF Resolve, Judge, ReadFile, ListDirectory, Grep, Glob, Shell, WebSearch,
       Git, RunEnds
  <2>2. pc' \in {"failed", "denied", "threw", "resolved", "judged", "running", "returned"}
    BY <1>9 DEF Resolve, Judge, ReadFile, ListDirectory, Grep, Glob, Shell, WebSearch,
       Git, RunEnds, Go
  <2>3. call \notin PatchCall
    BY <1>3, <1>9 DEF EditInv, Resolve, Judge, ReadFile, ListDirectory, Grep, Glob,
       Shell, WebSearch, Git, RunEnds
  <2> QED
    BY <1>4, <1>5, <2>1, <2>2, <2>3
<1>10. CASE LookForFile
  <2>1. Keep /\ pc' \in {"found", "failed"} /\ (pc' = "found" => dir)
        /\ pc # "returned"
    BY <1>10 DEF LookForFile, Go, TypeOK
  <2>2. Seen(file)' \in versions' /\ dir' = dir
    BY <2>1 DEF Keep, EditInv, Seen
  <2>3. CASE pc' = "found"
    BY <1>2, <2>1, <2>2, <2>3 DEF EditInv
  <2> QED
    BY <1>4, <2>1, <2>3
<1>11. CASE WriteFile
  <2>1. /\ call.op = "write_file" /\ pc' = "making" /\ pc # "returned"
        /\ UNCHANGED <<file, dir, versions, foreign>>
    BY <1>11 DEF WriteFile, Go
  <2> QED
    BY <1>2, <2>1 DEF EditInv, Seen
<1>12. CASE CreateFile
  <2>1. /\ call.op = "create_file" /\ pc' \in {"making", "failed"} /\ pc # "returned"
        /\ UNCHANGED <<file, dir, versions, foreign>>
    BY <1>12 DEF CreateFile, Go
  <2> QED
    BY <1>2, <2>1 DEF EditInv, Seen
<1>13. CASE ExactReplace
  <2>1. /\ call.op = "exact_replace" /\ pc = "found"
        /\ UNCHANGED <<file, dir, versions, foreign>>
        /\ \/ pc' = "failed"
           \/ /\ pc' = "writing" /\ Replaceable(Seen(file), call.old)
              /\ content' = Replaced(Seen(file), call.old, call.new)
    BY <1>13 DEF ExactReplace, Edit, Go, Seen
  <2>2. Seen(file) \in versions /\ dir /\ Seen(file') = Seen(file)
    BY <2>1 DEF EditInv
  <2>3. Seen(file)' = Seen(file')
    BY DEF Seen
  <2> QED
    BY <1>2, <2>1, <2>2, <2>3 DEF EditInv
<1>14. CASE ApplyUnifiedDiff
  <2>1. /\ call.op = "apply_unified_diff" /\ pc = "found"
        /\ UNCHANGED <<file, dir, versions, foreign>>
        /\ \/ pc' = "failed"
           \/ /\ pc' = "writing" /\ Applicable(Seen(file), call.diff)
              /\ content' = Applied(Seen(file), call.diff)
    BY <1>14 DEF ApplyUnifiedDiff, Edit, Go
  <2>2. Seen(file) \in versions /\ dir /\ Seen(file') = Seen(file)
    BY <2>1 DEF EditInv
  <2>3. Seen(file)' = Seen(file')
    BY DEF Seen
  <2> QED
    BY <1>2, <2>1, <2>2, <2>3 DEF EditInv
<1>15. CASE MakeDirectories
  <2>1. /\ pc = "making" /\ pc' = "writing" /\ dir' = TRUE
        /\ UNCHANGED <<file, content, versions, foreign>>
    BY <1>15 DEF MakeDirectories, Go
  <2> QED
    BY <1>2, <2>1 DEF EditInv, Seen
<1>16. CASE AtomicWrite
  <2>1. /\ pc = "writing" /\ pc' = "returned" /\ file' = FileOf(content)
        /\ UNCHANGED <<dir, content, versions, foreign>>
    BY <1>16 DEF AtomicWrite, Go
  <2> QED
    BY <1>2, <2>1 DEF EditInv, FileOf
<1> QED
  BY <1>6, <1>7, <1>8, <1>9, <1>10, <1>11, <1>12, <1>13, <1>14, <1>15, <1>16 DEF Next

LEMMA EditInductive == Spec => [](TypeOK /\ EditInv)
<1>1. Init => TypeOK /\ EditInv
  BY TypedInit
<1>2. TypeOK /\ EditInv /\ [Next]_vars => (TypeOK /\ EditInv)'
  BY TypedNext, EditStep
<1> QED
  BY <1>1, <1>2, PTL DEF Spec

\* A call keeps its types, however long texts and diffs are; a file lies in a
\* directory, which the patch engine relies on where it does not make one;
\* and only a command or a web search is answered with an error of permission
\* (the tools' execute).
THEOREM TypeCorrect == Spec => []TypeOK
BY EditInductive, PTL

\* An edit that is written is exact, for texts and diffs of any length and
\* whatever another program does to the file meanwhile: exact_replace
\* replaces the one occurrence of old, and apply_unified_diff, whose loop runs
\* the lines of all hunks together, the first passage that is the old side of
\* the hunks by their new side; what is written is what the call computed.
THEOREM EditsAreExact == Spec => []EditIsExact
<1>1. ASSUME TypeOK, EditInv, pc = "returned", call.op = "exact_replace"
      PROVE  \E text \in versions :
               /\ OccursOnce(text, call.old)
               /\ ReplacesFirst(text, content, call.old, call.new)
  <2>1. PICK text \in versions : /\ Replaceable(text, call.old)
                                 /\ content = Replaced(text, call.old, call.new)
    BY <1>1 DEF EditInv
  <2>2. text \in Seq(Char) /\ call.old \in Seq(Char) /\ call.new \in Seq(Char)
    BY <1>1, PatchCalls DEF TypeOK
  <2>3. Find(text, call.old, 1) # 0
    BY <2>1 DEF Replaceable
  <2>4. ReplacesFirst(text, content, call.old, call.new)
    BY <2>1, <2>2, <2>3, FirstIsReplaced DEF Replaced
  <2> QED
    BY <2>1, <2>2, <2>4, ReplaceableOccursOnce
<1>2. ASSUME TypeOK, EditInv, pc = "returned", call.op = "apply_unified_diff"
      PROVE  \E text \in versions :
               ReplacesFirst(text, content, Side(call.diff, {"keep", "drop"}),
                             Side(call.diff, {"keep", "add"}))
  <2>1. PICK text \in versions : /\ Applicable(text, call.diff)
                                 /\ content = Applied(text, call.diff)
    BY <1>2 DEF EditInv
  <2>2. text \in Seq(Char) /\ call.diff \in Seq(DiffLine)
    BY <1>2, PatchCalls DEF TypeOK
  <2>3. /\ Chunks(call.diff).old = Side(call.diff, {"keep", "drop"})
        /\ Chunks(call.diff).new = Side(call.diff, {"keep", "add"})
        /\ Chunks(call.diff).old \in Seq(Char) /\ Chunks(call.diff).new \in Seq(Char)
    BY <2>2, ChunksAreSides DEF Chunk
  <2>4. Find(text, Chunks(call.diff).old, 1) # 0
    BY <2>1 DEF Applicable
  <2>5. ReplacesFirst(text, content, Chunks(call.diff).old, Chunks(call.diff).new)
    BY <2>1, <2>2, <2>3, <2>4, FirstIsReplaced DEF Applied
  <2> QED
    BY <2>3, <2>5
<1>3. TypeOK /\ EditInv => EditIsExact
  BY <1>1, <1>2 DEF EditIsExact, EditInv
<1> QED
  BY <1>3, EditInductive, PTL
====
