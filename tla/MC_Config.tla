---- MODULE MC_Config ----
(***************************************************************************)
(* One setting of each kind of parser and of merge, environments of at     *)
(* most two entries, and any flags.                                        *)
(***************************************************************************)
EXTENDS Config

Looked == {"default_mode", "max_turns", "network", "default_model", "data_dir"}

En(layer, setting, value) ==
  [layer |-> layer, setting |-> setting, value |-> value]

Entries ==
  {En("FLATWHITE_", "network", "FLATWHITE_"),
   En("LOCALAGENT_", "network", "LOCALAGENT_"),
   En("FLATWHITE_", "network", "junk"),
   En("FLATWHITE_", "max_turns", "blank"),
   En("FLATWHITE_", "max_turns", "junk"),
   En("FLATWHITE_", "default_mode", "blank"),
   En("FLATWHITE_", "default_model", "blank"),
   En("LOCALAGENT_", "data_dir", "LOCALAGENT_"),
   En("FLATWHITE_", "data_dir", "blank")}

SmallEnvironments ==
  {e \in SUBSET Entries : 
     /\ Cardinality(e) <= 2
     /\ \A a, b \in e : a.layer = b.layer /\ a.setting = b.setting => a = b}

AnyFlags == SUBSET Flag
====
