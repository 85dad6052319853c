---------------------------- MODULE ConfigStore ----------------------------
(***************************************************************************)
(* The configuration file and the processes that read and replace it       *)
(* (internal/config/config.go, the start of cmd/smtc-now-playing/main.go). *)
(* A save writes a temporary file, syncs it and renames it to the file;    *)
(* each step may fail, the process may be killed between two steps, and    *)
(* the power may fail, which spoils what was written and not synced.  A    *)
(* launch loads the file before it tries to be the only instance, and      *)
(* takes the defaults when it cannot read it.                              *)
(*                                                                         *)
(* A configuration is a function of its fields.  A file holds values for   *)
(* some of them, Bad for one that does not decode; v1 says that it has the *)
(* key "port" at its top, by which the flat format is known.  The logging  *)
(* fields, which nothing but the command line reads, are left out.         *)
(***************************************************************************)
EXTENDS Naturals, FiniteSets

CONSTANTS Config,     \* the configurations
          Valid,      \* those Validate accepts
          Default,    \* DefaultConfig
          Foreign,    \* the files other versions and editors may have left
          Bad,        \* a value that does not decode
          Unreadable, \* a file that does not decode, or half of one
          Absent,     \* no file
          Nothing     \* no configuration

Written(c) == [v1 |-> FALSE, values |-> c]
Contents == Foreign \cup {Written(c) : c \in Config}
Launched == [cfg : Config, read : BOOLEAN]

ASSUME ConfigStoreAssumption ==
    /\ Valid \subseteq Config /\ Default \in Valid /\ Nothing \notin Launched
    /\ \A c \in Config : /\ c = [f \in DOMAIN Default |-> c[f]]
                         /\ \A f \in DOMAIN Default : c[f] # Bad
    /\ \A raw \in Foreign : raw.v1 \in BOOLEAN
    /\ Absent \notin Contents /\ Unreadable \notin Contents \cup {Absent}
    /\ Unreadable \notin Config

VARIABLES
  file,      \* the configuration file
  temp,      \* the temporary file
  unsynced,  \* which of the two have data that is not on the disk
  running,   \* a process holds the single-instance mutex
  cfg,       \* its configuration, Default when there is none
  saving,    \* how far its Save has come: "none" when it is in none
  outcome,   \* history: whether cfg is what was "loaded", is "outdated"
             \* because the file changed since, stands for a file that went
             \* "unread", was "saved", or "failed" to be
  launched   \* what another process has loaded that has not tried the mutex,
             \* and whether it could read the file

disk      == <<file, temp, unsynced>>
process   == <<running, cfg, saving, outcome>>
storeVars == <<disk, process, launched>>

StoreInit == /\ file \in Foreign \cup {Absent}
             /\ temp = Absent /\ unsynced = {}
             /\ running = FALSE /\ cfg = Default /\ saving = "none"
             /\ outcome = "loaded" /\ launched = Nothing

-----------------------------------------------------------------------------
(* parseConfig with migrateV1: fields that are missing keep their defaults *)
(* and, in the flat format only, so do those that do not decode.           *)
HasBad(raw) == \E f \in DOMAIN raw.values : raw.values[f] = Bad
Taken(raw, f) == f \in DOMAIN raw.values /\ raw.values[f] # Bad
Parsed(raw) ==
    IF HasBad(raw) /\ ~raw.v1 THEN Unreadable
    ELSE [f \in DOMAIN Default |-> IF Taken(raw, f) THEN raw.values[f] ELSE Default[f]]

(* Load, and main's use of the defaults when it fails: what a launch that  *)
(* can read the file makes of it.                                          *)
Loaded(content) ==
    IF content \in {Absent, Unreadable} THEN Default
    ELSE IF Parsed(content) \in Valid THEN Parsed(content)
    ELSE Default

(* main: the configuration is loaded, or the file is there and cannot be   *)
(* read, which makes it the defaults too; then the mutex is created, which *)
(* ends this process when another one holds it.                            *)
Launch == /\ launched = Nothing
          /\ \/ launched' = [cfg |-> Loaded(file), read |-> TRUE]
             \/ launched' = [cfg |-> Default, read |-> FALSE] /\ file # Absent
          /\ UNCHANGED <<disk, process>>

BecomeInstance == /\ launched # Nothing /\ ~running
                  /\ running' = TRUE /\ cfg' = launched.cfg
                  /\ outcome' = IF launched.cfg = Loaded(file) THEN "loaded"
                                ELSE IF launched.read THEN "outdated" ELSE "unread"
                  /\ launched' = Nothing
                  /\ UNCHANGED <<disk, saving>>

RefuseInstance == /\ launched # Nothing /\ running
                  /\ launched' = Nothing
                  /\ UNCHANGED <<disk, process>>

-----------------------------------------------------------------------------
(* A handler changes the configuration and calls Save.                     *)
Save(c) == /\ running /\ saving = "none"
           /\ cfg' = c
           /\ saving' = "begun"
           /\ UNCHANGED <<disk, running, outcome, launched>>

(* Save validates; saveConfigToFile creates the temporary file,            *)
CreateTemp == /\ saving = "begun"
              /\ cfg \in Valid
              /\ temp' = Unreadable
              /\ saving' = "created"
              /\ UNCHANGED <<file, unsynced, running, cfg, outcome, launched>>

(* encodes the configuration into it,                                      *)
Encode == /\ saving = "created"
          /\ temp' = Written(cfg) /\ unsynced' = unsynced \cup {"temp"}
          /\ saving' = "encoded"
          /\ UNCHANGED <<file, running, cfg, outcome, launched>>

(* syncs and closes it (faulty variant: only closes it),                   *)
CloseUnsynced == /\ saving = "encoded"
                 /\ saving' = "synced"
                 /\ UNCHANGED <<disk, running, cfg, outcome, launched>>
SyncAndClose == /\ saving = "encoded"
                /\ unsynced' = unsynced \ {"temp"}
                /\ saving' = "synced"
                /\ UNCHANGED <<file, temp, running, cfg, outcome, launched>>

(* and renames it, which replaces the file at once.                        *)
Rename == /\ saving = "synced"
          /\ file' = temp /\ temp' = Absent
          /\ unsynced' = IF "temp" \in unsynced THEN {"file"} ELSE {}
          /\ saving' = "none" /\ outcome' = "saved"
          /\ UNCHANGED <<running, cfg, launched>>

(* Or it returns an error at any of these steps and removes the temporary  *)
(* file; callers log the error and go on.                                  *)
SaveFails == /\ saving # "none"
             /\ temp' = Absent /\ unsynced' = unsynced \ {"temp"}
             /\ saving' = "none" /\ outcome' = "failed"
             /\ UNCHANGED <<file, running, cfg, launched>>

SaveStep == CreateTemp \/ Encode \/ SyncAndClose \/ Rename \/ SaveFails

-----------------------------------------------------------------------------
(* The process ends, by itself or killed, wherever it is.                  *)
EndProcess == /\ running
              /\ running' = FALSE /\ cfg' = Default /\ saving' = "none"
              /\ outcome' = "loaded"
              /\ UNCHANGED <<disk, launched>>

(* The power fails: data that was not synced may be lost.                  *)
Spoilt(name, content) == IF name \in unsynced THEN {content, Unreadable} ELSE {content}
PowerFails == /\ file' \in Spoilt("file", file)
              /\ temp' \in Spoilt("temp", temp)
              /\ unsynced' = {}
              /\ running' = FALSE /\ cfg' = Default /\ saving' = "none"
              /\ outcome' = "loaded" /\ launched' = Nothing

StoreNext == \/ Launch \/ BecomeInstance \/ RefuseInstance
             \/ \E c \in Config : Save(c)
             \/ SaveStep \/ EndProcess \/ PowerFails

StoreSpec == StoreInit /\ [][StoreNext]_storeVars

-----------------------------------------------------------------------------
StoreTypeOK ==
    /\ file \in Contents \cup {Absent, Unreadable}
    /\ temp \in Contents \cup {Absent, Unreadable}
    /\ unsynced \subseteq {"file", "temp"}
    /\ running \in BOOLEAN /\ cfg \in Config
    /\ saving \in {"none", "begun", "created", "encoded", "synced"}
    /\ outcome \in {"loaded", "outdated", "unread", "saved", "failed"}
    /\ launched \in Launched \cup {Nothing}

(* Wherever the process is killed or the power fails, the file is what was *)
(* there before the first save, or one complete configuration that loads   *)
(* (CHANGELOG.md:45: "Killing the process mid-save no longer corrupts").   *)
FileIsWhole == file \in Foreign \cup {Absent} \cup {Written(c) : c \in Valid}

(* A restart finds what the user last set: between two saves the file      *)
(* loads as the configuration in use, with three exceptions: the last save *)
(* failed; the process has saved nothing yet, and loaded the file before   *)
(* an earlier process saved it for the last time; or it has saved nothing  *)
(* yet, and runs on the defaults because it could not read the file.       *)
FileIsInUse == running /\ saving = "none"
                   => Loaded(file) = cfg \/ outcome \in {"failed", "outdated", "unread"}
=============================================================================
