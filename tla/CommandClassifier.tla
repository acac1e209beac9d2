---- MODULE CommandClassifier ----
(***************************************************************************)
(* classify_command (src/src/permissions/command_classifier.cpp): the risk *)
(* a command line is judged under. A line is the sequence of its tokens; a *)
(* token stands for every word that is treated alike: "sudo" for su and    *)
(* doas, "chmod" for chown and chgrp, "curl" for wget, "pip" for all that  *)
(* install packages, "make" for all that build and test, "status" for the  *)
(* reading commands of git, "clone" for those that use the network.        *)
(***************************************************************************)
EXTENDS Naturals, SequencesExt

\* In the order of RiskLevel, by which the graver of two is told.
RiskOrder == <<"Read", "WorkspaceWrite", "Network", "PackageInstall",
               "OutsideWorkspaceWrite", "Credential", "Destructive", "Privilege">>

RankOf(risk) == CHOOSE i \in DOMAIN RiskOrder : RiskOrder[i] = risk

Token == {"git", "status", "clone", "rm", "sudo", "chmod", "dd", "curl", "sh",
          "/bin/sh", "pip", "make", "|", ";", "other"}

\* A command may be named by its path.
Basename(token) == IF token = "/bin/sh" THEN "sh" ELSE token

GitRisks(argv) ==
  CASE Len(argv) >= 2 /\ argv[2] = "status" -> {"Read"}
    [] Len(argv) >= 2 /\ argv[2] = "clone" -> {"Network"}
    [] OTHER -> {"WorkspaceWrite"}

\* What is fetched may be handed to a shell; one named by its path is not seen.
FetchRisks(argv) ==
  IF Contains(argv, "|") \/ Contains(argv, "sh") THEN {"Network", "Destructive"}
  ELSE {"Network"}

\* The first word decides, and what is behind a separator does not count.
Risks(argv) ==
  LET command == Basename(argv[1])
  IN  CASE command = "git" -> GitRisks(argv)
        [] command \in {"rm", "sh"} -> {"Destructive"}
        [] command \in {"sudo", "chmod"} -> {"Privilege"}
        [] command = "dd" -> {"Destructive", "Privilege"}
        [] command = "curl" -> FetchRisks(argv)
        [] command = "pip" -> {"PackageInstall"}
        [] OTHER -> {"Read"}

\* The primary risk. A line without a token is one word of its own.
ClassifyCommand(argv) ==
  LET risks == IF argv = <<>> THEN {"Read"} ELSE Risks(argv)
  IN  CHOOSE risk \in risks : \A other \in risks : RankOf(other) <= RankOf(risk)
====
