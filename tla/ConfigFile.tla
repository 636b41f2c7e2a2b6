------------------------------ MODULE ConfigFile ------------------------------
(***************************************************************************)
(* How the configuration reaches the disk and comes back: persist and      *)
(* load_or_default of config_store/mod.rs with atomic.rs (the Windows      *)
(* branch). Every step is one system call, so the program may be killed    *)
(* between any two of them; the two renames inside ReplaceFileW are steps  *)
(* of their own.                                                           *)
(*                                                                         *)
(* The config mutex is held during a persist, so there is one writer.      *)
(***************************************************************************)
CONSTANTS
  Configs,   \* configurations that read_config accepts
  Default,   \* AppConfig::default()
  Missing,   \* there is no such file
  Unusable   \* cut short, not JSON, or rejected by validation

ASSUME FileAssumption ==
  /\ Default \in Configs
  /\ Missing \notin Configs
  /\ Unusable \notin Configs

VARIABLES
  primary,         \* config.json
  backup,          \* config.json.bak
  temp,            \* config.json.tmp
  config,          \* ConfigStore.config, the configuration in memory
  backup_current,  \* the local variable of persist
  pc,              \* where persist is; "down" when the program does not run
  answer           \* what the last persist returned

files    == <<primary, backup, temp>>
fileVars == <<files, config, backup_current, pc, answer>>

-----------------------------------------------------------------------------

WritePCs == {"create", "sync", "replace", "swap"}

Contents == Configs \cup {Missing, Unusable}

TypeOK ==
  /\ primary \in Contents
  /\ backup \in Contents
  /\ temp \in Contents
  /\ config \in Configs
  /\ backup_current \in BOOLEAN
  /\ pc \in {"down", "idle"} \cup WritePCs
  /\ answer \in {"none", "ok", "err"}

\* read_config
Readable(file) == file \in Configs

\* load_or_default
Load(main, other) ==
  IF Readable(main) THEN main ELSE IF Readable(other) THEN other ELSE Default

FileInit ==
  /\ primary = Missing /\ backup = Missing /\ temp = Missing
  /\ config = Default
  /\ backup_current = FALSE
  /\ pc = "down"
  /\ answer = "none"

-----------------------------------------------------------------------------

\* ConfigStore::new
Start ==
  /\ pc = "down"
  /\ config' = Load(primary, backup)
  /\ pc' = "idle"
  /\ UNCHANGED <<files, backup_current, answer>>

\* Variant: any file that is there is taken for a good one.
BackUpWhatExists == primary # Missing

\* read_config(path).is_some()
BackUpCurrent == Readable(primary)

\* A method of ConfigStore changes the configuration and calls persist.
Persist ==
  /\ pc = "idle"
  /\ config' \in Configs
  /\ backup_current' = BackUpCurrent
  /\ pc' = "create"
  /\ answer' = "none"
  /\ UNCHANGED files

\* A step of atomic_write_with_backup fails: the temporary file is removed,
\* if that is possible.
Fail ==
  /\ temp' \in {temp, Missing}
  /\ pc' = "idle"
  /\ answer' = "err"

\* File::create
CreateTemp ==
  /\ pc = "create"
  /\ \/ /\ temp' = Unusable
        /\ pc' = "sync"
        /\ UNCHANGED answer
     \/ Fail
  /\ UNCHANGED <<primary, backup, config, backup_current>>

\* Variant: the data may still be in the cache when the file is renamed.
SyncNothing == temp

SyncAll == config

\* write_all, then sync_all
WriteTemp ==
  /\ pc = "sync"
  /\ \/ /\ temp' = SyncAll
        /\ pc' = "replace"
        /\ UNCHANGED answer
     \/ Fail
  /\ UNCHANGED <<primary, backup, config, backup_current>>

\* The first half of ReplaceFileW: the current file becomes the backup.
MoveAside ==
  /\ pc = "replace"
  /\ backup_current
  /\ \/ /\ backup' = primary
        /\ primary' = Missing
        /\ pc' = "swap"
        /\ UNCHANGED <<temp, answer>>
     \/ /\ Fail
        /\ UNCHANGED <<primary, backup>>
  /\ UNCHANGED <<config, backup_current>>

\* MoveFileExW, or the second half of ReplaceFileW.
MoveIn ==
  /\ pc = "swap" \/ (pc = "replace" /\ ~backup_current)
  /\ \/ /\ primary' = temp
        /\ temp' = Missing
        /\ pc' = "idle"
        /\ answer' = "ok"
     \/ /\ Fail
        /\ UNCHANGED primary
  /\ UNCHANGED <<backup, config, backup_current>>

\* The program, or the machine, stops.
Crash ==
  /\ pc # "down"
  /\ pc' = "down"
  /\ answer' = "none"
  /\ UNCHANGED <<files, config, backup_current>>

\* The main file is damaged or deleted while nothing writes it.
Damage ==
  /\ pc \in {"down", "idle"}
  /\ primary' \in {Unusable, Missing}
  /\ UNCHANGED <<backup, temp, config, backup_current, pc, answer>>

FileNext ==
  \/ Start
  \/ Persist
  \/ CreateTemp
  \/ WriteTemp
  \/ MoveAside
  \/ MoveIn
  \/ Crash
  \/ Damage

FileSpec == FileInit /\ [][FileNext]_fileVars

-----------------------------------------------------------------------------
(* Properties.                                                             *)

\* The backup is never given up for a file that cannot be read back, however
\* a write ends (the comment in replace_file).
BackupStaysReadable == [][Readable(backup) => Readable(backup')]_backup

\* What a step relies on: only whole configurations are moved in, and a
\* readable backup is there whenever the main file is not.
FileInv ==
  /\ TypeOK
  /\ pc = "replace" => temp = config
  /\ pc = "swap" => temp = config /\ primary = Missing /\ Readable(backup)
  /\ pc \in WritePCs \ {"swap"} /\ backup_current => Readable(primary)
  /\ pc \in WritePCs /\ pc # "swap" /\ ~backup_current => ~Readable(primary)

-----------------------------------------------------------------------------

Durable == INSTANCE DurableConfig WITH
  Nothing  <- Missing,
  saved    <- Load(primary, backup),
  previous <- Load(Missing, backup),
  writing  <- IF pc \in WritePCs THEN config ELSE Missing

\* The files implement DurableConfig.
Durability == Durable!Spec

=============================================================================
