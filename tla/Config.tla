------------------------------- MODULE Config -------------------------------
(***************************************************************************)
(* load_config (src/src/config/config.cpp): the built-in defaults, the     *)
(* user's file, the project's file, the environment and the command line   *)
(* are applied to one Config in this order.                                *)
(*                                                                         *)
(* A setting's value is the name of the layer that gave it, or "blank" for *)
(* an empty string or a zero.  The settings a run looks at are the         *)
(* constant Settings; a file is a function from those a file can hold to   *)
(* what it says of each.                                                   *)
(***************************************************************************)
EXTENDS Naturals, FiniteSets

Texts == {"default_mode", "backend", "endpoint"}
Numbers == {"max_turns", "default_tokens", "max_tokens", "memory_budget_gb"}
ExecutionConfig == {"timeout_seconds", "max_parallel_tools"}
PermissionsConfig ==
  {"unrestricted", "default_read", "workspace_write", "network",
   "package_install", "outside_workspace_write", "credentials",
   "destructive", "privilege"}
Choices == PermissionsConfig \cup {"auto_route", "fake_model"}
Paths == {"ollama_host", "default_model", "data_dir", "workspace"}

InFile ==
  Texts \cup Numbers \cup ExecutionConfig \cup (Choices \ {"fake_model"})
Flags == {"fake_model", "workspace", "data_dir"}
AllSettings == InFile \cup {"fake_model"} \cup Paths
InEnvironment == AllSettings \ {"workspace"}

CONSTANTS Settings,      \* the settings a run looks at
          Environments,  \* the environments it starts in: sets of Entry
          Arguments      \* the command lines: sets of Flag, in any order

Layer == {"default", "user", "project", "FLATWHITE_", "LOCALAGENT_", "flag"}
Value == Layer \cup {"blank"}

\* What can be written for setting s in layer l: any text is a text, a
\* number may be zero or no number, a choice has no zero.
Written(s, l) ==
  IF s \in Choices THEN {l, "junk"}
  ELSE IF s \in Numbers \cup ExecutionConfig THEN {l, "blank", "junk"}
  ELSE {l, "blank"}

Names == Settings \cap InFile
File(l) ==
  {f \in [Names -> {l, "blank", "junk", "absent"}] :
     \A s \in Names : f[s] \in Written(s, l) \cup {"absent"}}
NoFile == [s \in {} |-> "absent"]

\* An entry of the environment or a command-line flag with its value.
Entry ==
  UNION {[layer : {l}, setting : {s}, value : Written(s, l)] :
           l \in {"FLATWHITE_", "LOCALAGENT_"}, s \in Settings \cap InEnvironment}
Flag ==
  UNION {[layer : {"flag"}, setting : {s},
          value : IF s = "fake_model" THEN {"flag"} ELSE {"flag", "blank"}] :
           s \in Settings \cap Flags}

ASSUME SettingsAssumption == Settings \subseteq AllSettings
ASSUME EnvironmentsAssumption == Environments \subseteq SUBSET Entry
ASSUME ArgumentsAssumption == Arguments \subseteq SUBSET Flag

VARIABLES phase,     \* where load_config is
          config,    \* the Config under construction
          user,      \* the user's file, NoFile when there is none
          project,   \* the project's file
          env,       \* the environment
          args,      \* the flags of the command line
          todo       \* entries of env, then of args, not yet applied

configVars == <<phase, config, user, project, env, args, todo>>
inputs == <<user, project, env, args>>

Phase == {"user", "project", "environment", "arguments", "done", "threw"}

-----------------------------------------------------------------------------
Default(s) == IF s = "data_dir" THEN "blank" ELSE "default"
DefaultConfig == [s \in Settings |-> Default(s)]

ConfigInit ==
  /\ phase = "user"
  /\ config = DefaultConfig
  /\ user \in File("user") \cup {NoFile}
  /\ project \in File("project") \cup {NoFile}
  /\ env \in Environments
  /\ args \in Arguments
  /\ todo = {}

\* What a written value makes of a setting: parse_number, parse_bool and
\* parse_policy fall back to the value so far.
ReadUnchecked(written, old) == IF written = "absent" THEN old ELSE written

Read(written, old) == IF written \in {"absent", "junk"} THEN old ELSE written

\* load_toml_file: the file's settings, on top of the defaults.
Loaded(file) ==
  [s \in Settings |-> IF s \in DOMAIN file THEN Read(file[s], Default(s))
                                           ELSE Default(s)]

\* merge(base, overlay): permissions, execution and the flags are assigned
\* whole, the other settings where the overlay's is not blank.
AlwaysMerged == Choices \cup ExecutionConfig

\* mutant: only what differs from the default is merged.
MergeChangesOnly(base, overlay) ==
  [s \in Settings |-> IF overlay[s] = Default(s) THEN base[s] ELSE overlay[s]]

Merge(base, overlay) ==
  [s \in Settings |-> IF s \in AlwaysMerged \/ overlay[s] # "blank"
                      THEN overlay[s]
                      ELSE base[s]]

LoadUserFile ==
  /\ phase = "user"
  /\ config' = IF user = NoFile THEN config ELSE Merge(config, Loaded(user))
  /\ phase' = "project"
  /\ UNCHANGED <<inputs, todo>>

LoadProjectFile ==
  /\ phase = "project"
  /\ config' = IF project = NoFile THEN config
               ELSE Merge(config, Loaded(project))
  /\ phase' = "environment"
  /\ todo' = env
  /\ UNCHANGED inputs

\* A file that exists and cannot be opened.
LoadThrows ==
  /\ \/ phase = "user" /\ user # NoFile
     \/ phase = "project" /\ project # NoFile
  /\ phase' = "threw"
  /\ UNCHANGED <<config, inputs, todo>>

\* mutant: an entry fills in a default and overrides nothing.
ApplyToDefaults(e) ==
  /\ config' = IF config[e.setting] = Default(e.setting)
               THEN [config EXCEPT ![e.setting] = Read(e.value, @)]
               ELSE config
  /\ todo' = todo \ {e}

\* apply_env_override, or the body of the loop over argv.
Apply(e) ==
  /\ config' = [config EXCEPT ![e.setting] = Read(e.value, @)]
  /\ todo' = todo \ {e}

\* environ and argv list their entries in any order; of one given twice the
\* last counts.
ApplyEnvironment ==
  /\ phase = "environment"
  /\ \E e \in todo : Apply(e)
  /\ UNCHANGED <<phase, inputs>>

\* A blank setting of c takes a default when the condition allows.
Fill(c, s, condition) ==
  IF s \in Settings /\ condition /\ c[s] = "blank"
  THEN [c EXCEPT ![s] = "default"] ELSE c

\* The end of load_config(paths).
FinishFiles ==
  /\ phase = "environment" /\ todo = {}
  /\ LET with_dir == Fill(config, "data_dir", TRUE)
         mode_set == "default_mode" \notin Settings
                       \/ config["default_mode"] # "blank"
     IN  config' = Fill(with_dir, "default_model", mode_set)
  /\ phase' = "arguments"
  /\ todo' = args
  /\ UNCHANGED inputs

ApplyArguments ==
  /\ phase = "arguments"
  /\ \E e \in todo : Apply(e)
  /\ UNCHANGED <<phase, inputs>>

Finish ==
  /\ phase = "arguments" /\ todo = {}
  /\ config' = Fill(config, "data_dir", TRUE)
  /\ phase' = "done"
  /\ UNCHANGED <<inputs, todo>>

ConfigNext ==
  \/ LoadUserFile \/ LoadProjectFile \/ LoadThrows
  \/ ApplyEnvironment \/ FinishFiles
  \/ ApplyArguments \/ Finish

ConfigSpec == ConfigInit /\ [][ConfigNext]_configVars

-----------------------------------------------------------------------------
(* Properties.                                                             *)

\* Every variable keeps its type: in particular no setting ever holds text
\* its parser refused (parse_number, parse_bool, parse_policy_or).
ConfigTypeOK ==
  /\ phase \in Phase
  /\ config \in [Settings -> Value]
  /\ user \in File("user") \cup {NoFile}
  /\ project \in File("project") \cup {NoFile}
  /\ env \in Environments
  /\ args \in Arguments
  /\ todo \subseteq env \cup args

\* The entries for s whose value its parser takes.
Readable(entries, s) == {e \in entries : e.setting = s /\ e.value # "junk"}
Values(entries) == {e.value : e \in entries}

\* A flag wins over everything and the environment over both files, the two
\* prefixes counting alike: whatever the files hold, a setting that a flag
\* or an entry gives ends as one of those entries gave it, except that a
\* blank data directory or model name becomes the default.
OverridesWin ==
  phase = "done" =>
    \A s \in Settings :
      LET flags == Readable(args, s)
          given == IF flags # {} THEN flags ELSE Readable(env, s)
      IN  given # {} =>
            \/ config[s] \in Values(given)
            \/ /\ s \in {"data_dir", "default_model"}
               /\ config[s] = "default" /\ "blank" \in Values(given)

\* A project file replaces the user's file as a whole, the settings it does
\* not mention included, because load_toml_file starts from the defaults: a
\* value of the user's file survives it only where the project file blanks
\* a setting that merge copies when not blank.
ProjectFileReplacesUserFile ==
  phase = "done" /\ project # NoFile =>
    \A s \in Settings : config[s] = "user" =>
      s \notin AlwaysMerged /\ project[s] = "blank"
=============================================================================
