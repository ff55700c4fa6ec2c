--------------------------- MODULE RuntimeSettings ---------------------------
(* The runtime configuration: one JSON object of several sections in one    *)
(* row of system_config (handler/config_runtime_api.go, config_api.go,      *)
(* infra/config/config/init.go), its versions (infra/config/configversion)  *)
(* and its backups (handler/backup.go).  Every handler of a section reads   *)
(* the whole object, replaces its section and writes the whole object back, *)
(* and nothing keeps two handlers apart.  Versions and backups are read     *)
(* table by table and written back in one transaction.                      *)
(*                                                                          *)
(* A section's content is one value.  "unset" is a section the whole-object *)
(* handler stored without its first field, which every reader replaces by   *)
(* the default.  rules stands for the further tables a version holds; the   *)
(* masking of secrets in backups, the check of ranges and what is in force   *)
(* until the next start are left out.                                       *)
EXTENDS Naturals, Sequences

CONSTANTS Admins,      \* requests of the administration API under way
          Sections,    \* sections of the runtime configuration
          Validated,     \* those validateRuntimeConfig refuses to leave unset
          Contents,    \* what a section may be set to
          RuleRows,    \* rows of the further tables
          MaxSnapshots  \* bound: versions and backups taken

ASSUME RuntimeSettingsAssumption == Validated \subseteq Sections /\ "default" \in Contents

VARIABLES
  saved,     \* the sections in the row runtime_config
  rules,     \* the further tables
  versions,  \* config_versions and the backups administrators keep
  calls,     \* what every request has read and is about to write
  acked,     \* what the last request for a section was told is saved
  overtaken  \* sections whose last write came from a request that had read
             \* before another one wrote

settingsVars == <<saved, rules, versions, calls, acked, overtaken>>

Configurations == [Sections -> Contents]

NoCall == [pc |-> "none"]

\* loadCurrentRuntimeConfig and loadRuntimeConfigFromDB
Loaded(config) == [s \in Sections |-> IF config[s] = "unset" THEN "default" ELSE config[s]]

SettingsInit ==
  /\ saved = [s \in Sections |-> "default"] /\ acked = saved
  /\ rules = {} /\ versions = <<>> /\ overtaken = {}
  /\ calls = [a \in Admins |-> NoCall]

Is(a, pc) == calls[a].pc = pc

\* Somebody wrote: whoever has read before writes something older.
Overtaking(a) ==
  [b \in Admins |-> IF b = a THEN NoCall
                    ELSE IF Is(b, "save") THEN [calls[b] EXCEPT !.late = TRUE] ELSE calls[b]]

-----------------------------------------------------------------------------
(* One section: Update...ConfigAPI, and Reset...ConfigAPI with the default. *)

LoadRuntimeConfig(a) ==
  /\ Is(a, "none")
  /\ calls' = [calls EXCEPT ![a] = [pc |-> "save", copy |-> Loaded(saved), late |-> FALSE]]
  /\ UNCHANGED <<saved, rules, versions, acked, overtaken>>

\* Mutant: a reset starts from the defaults and not from what is stored.
ReplacedInDefaults(copy, s, content) ==
  IF content = "default" THEN [t \in Sections |-> "default"] ELSE [copy EXCEPT ![s] = content]

Replaced(copy, s, content) == [copy EXCEPT ![s] = content]

\* The section the request is for is replaced in what it has read.
SaveRuntimeConfigToDB(a, s, content) ==
  LET c == calls[a] IN
  /\ Is(a, "save")
  /\ \/ /\ saved' = Replaced(c.copy, s, content) /\ acked' = [acked EXCEPT ![s] = content]
        /\ overtaken' = (IF c.late THEN Sections ELSE overtaken) \ {s}
        /\ calls' = Overtaking(a)
     \/ /\ calls' = [calls EXCEPT ![a] = NoCall]
        /\ UNCHANGED <<saved, acked, overtaken>>
  /\ UNCHANGED <<rules, versions>>

\* The whole object at once.
UpdateConfigAPI(a, config) ==
  /\ Is(a, "none") /\ \A s \in Validated : config[s] # "unset"
  /\ saved' = config /\ acked' = Loaded(config) /\ overtaken' = {}
  /\ calls' = Overtaking(a) /\ UNCHANGED <<rules, versions>>

ResetConfigAPI(a) == UpdateConfigAPI(a, [s \in Sections |-> "default"])

-----------------------------------------------------------------------------
(* Versions and backups.                                                    *)

ReadSystemConfig(a) ==
  /\ Is(a, "none") /\ Len(versions) < MaxSnapshots
  /\ calls' = [calls EXCEPT ![a] = [pc |-> "snapshot", config |-> saved]]
  /\ UNCHANGED <<saved, rules, versions, acked, overtaken>>

Keep(a, version) ==
  /\ versions' = Append(versions, version)
  /\ calls' = [calls EXCEPT ![a] = NoCall]
  /\ UNCHANGED <<saved, rules, acked, overtaken>>

CreateSnapshot(a) ==
  /\ Is(a, "snapshot") /\ Len(versions) < MaxSnapshots
  /\ Keep(a, [kind |-> "version", config |-> calls[a].config, rules |-> rules])

\* A backup reads the tables of rules first. (It is kept as a version is; that it
\* holds the versions too is left out.)
ReadRuleTables(a) ==
  /\ Is(a, "none") /\ Len(versions) < MaxSnapshots
  /\ calls' = [calls EXCEPT ![a] = [pc |-> "backup", rules |-> rules]]
  /\ UNCHANGED <<saved, rules, versions, acked, overtaken>>

APIBackupConfig(a) ==
  /\ Is(a, "backup") /\ Len(versions) < MaxSnapshots
  /\ Keep(a, [kind |-> "backup", config |-> saved, rules |-> calls[a].rules])

\* A table of which there are no rows is left as it is, and no manager reads its
\* tables again.
Restored(a, v, restored) ==
  /\ Is(a, "none")
  /\ saved' = v.config /\ acked' = Loaded(v.config) /\ overtaken' = {}
  /\ rules' = (IF v.rules = {} THEN rules ELSE restored)
  /\ calls' = Overtaking(a) /\ UNCHANGED versions

\* A row a version cannot put back is missing afterwards ...
RestoreVersion(a, v) ==
  v.kind = "version" /\ \E restored \in SUBSET v.rules : Restored(a, v, restored)

\* ... where a backup is put back as a whole or not at all.
APIRestoreConfig(a, v) == v.kind = "backup" /\ Restored(a, v, v.rules)

ChangeRules == \E row \in RuleRows :
  /\ rules' = (IF row \in rules THEN rules \ {row} ELSE rules \cup {row})
  /\ UNCHANGED <<saved, versions, calls, acked, overtaken>>

RestartWithConfig ==
  /\ calls' = [a \in Admins |-> NoCall]
  /\ UNCHANGED <<saved, rules, versions, acked, overtaken>>

SettingsNext ==
  \/ \E a \in Admins :
       \/ LoadRuntimeConfig(a)
       \/ \E s \in Sections, content \in Contents \ {"unset"} : SaveRuntimeConfigToDB(a, s, content)
       \/ \E config \in Configurations : UpdateConfigAPI(a, config)
       \/ ResetConfigAPI(a)
       \/ ReadSystemConfig(a) \/ CreateSnapshot(a) \/ ReadRuleTables(a) \/ APIBackupConfig(a)
       \/ \E i \in DOMAIN versions : RestoreVersion(a, versions[i]) \/ APIRestoreConfig(a, versions[i])
  \/ ChangeRules \/ RestartWithConfig

SettingsSpec == SettingsInit /\ [][SettingsNext]_settingsVars

-----------------------------------------------------------------------------
(* PROPERTIES                                                               *)

\* What an administrator was last told is saved for a section is what a
\* restart finds there, whatever was set, reset, stored as a whole, rolled
\* back or restored for other sections since, unless the last write came from
\* a request that another one had overtaken.
AcknowledgedIsSaved ==
  \A s \in Sections \ overtaken : Loaded(saved)[s] = acked[s]
=============================================================================
