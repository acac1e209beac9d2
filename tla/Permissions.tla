---- MODULE Permissions ----
(***************************************************************************)
(* PermissionEngine (src/src/permissions/permission_engine.cpp): what it   *)
(* decides about a risk and a target. It keeps no state but the settings.  *)
(*                                                                         *)
(* A target is a canonical path: where it lies, and what its name says.    *)
(* "dotted" lies in the workspace under a name that begins with two dots,  *)
(* which the comparison of paths takes for a way out. "ssh" is a path      *)
(* below a .ssh directory, "key" any other path the engine calls a         *)
(* credential.                                                             *)
(***************************************************************************)

Risk == {"Read", "WorkspaceWrite", "Network", "PackageInstall",
         "OutsideWorkspaceWrite", "Credential", "Destructive", "Privilege"}

Policy == {"Allow", "Ask", "Deny", "Sandbox"}

Target == [place : {"inside", "dotted", "outside"},
           mark : {"plain", "ssh", "key"}]

\* The empty path, the default argument of evaluate.
NoPath == [place |-> "none", mark |-> "plain"]

\* allow_all_, interactive_, and the setting of each risk.
Engine == [unrestricted : BOOLEAN, interactive : BOOLEAN, policy : [Risk -> Policy]]

PolicyFor(engine, risk) == engine.policy[risk]

IsInsideWorkspace(target) == target.place = "inside"

IsCredentialPath(target) == target.mark \in {"ssh", "key"}

\* Reading outside the workspace counts as writing there.
LeavesWorkspace(risk, target) ==
  /\ target # NoPath /\ ~IsInsideWorkspace(target)
  /\ risk \in {"WorkspaceWrite", "Read"}

\* The risk a decision is taken under.
JudgedAs(risk, target) ==
  IF IsCredentialPath(target) THEN "Credential"
  ELSE IF LeavesWorkspace(risk, target) THEN "OutsideWorkspaceWrite"
  ELSE risk

\* mutant: what is below .ssh is a credential like any other.
EvaluateAllCredentialsAlike(engine, risk, target) ==
  IF engine.unrestricted THEN "Allow" ELSE PolicyFor(engine, JudgedAs(risk, target))

\* The policy of evaluate's decision. Nothing but a read may touch .ssh.
Evaluate(engine, risk, target) ==
  IF engine.unrestricted THEN "Allow"
  ELSE IF target.mark = "ssh" /\ risk # "Read" THEN "Deny"
  ELSE PolicyFor(engine, JudgedAs(risk, target))

Check(engine, risk, target) ==
  IF engine.unrestricted THEN "Allow" ELSE Evaluate(engine, risk, target)

\* Nobody is asked unless the engine is interactive, which no part of the
\* program makes it; there is no sandbox.
Allows(engine, policy) ==
  \/ engine.unrestricted
  \/ policy = "Allow"
  \/ policy = "Ask" /\ engine.interactive

\* Does the engine let a tool go on?
Lets(engine, risk, target) == Allows(engine, Evaluate(engine, risk, target))
====
