----------------------------- MODULE AuditHistory -----------------------------
(***************************************************************************)
(* The audit log: record_action (audit_log), its retention by age and      *)
(* number (history_retention.rs) and its listing (tauri_api/history.rs),   *)
(* on the files of ConfigFile, which hold it together with the settings.   *)
(* The recent errors are kept the same way, with another maximum.          *)
(*                                                                         *)
(* Every writer takes the transaction lock, so one write follows the other.*)
(* Ages are in days of the wall clock, which may be set.                   *)
(***************************************************************************)
EXTENDS ConfigFile, Filtering

CONSTANTS
  MAX_AUDIT_EVENTS,
  RetentionDays,   \* values of log_retention_days
  Malformed,       \* a timestamp that cannot be parsed
  Imports,         \* contents of files a user imports
  MaxEvents,       \* bound: events of a run
  MaxNow           \* bound: days a run may last

ASSUME HistoryAssumption ==
  /\ MAX_AUDIT_EVENTS \in Nat \ {0}
  /\ RetentionDays \subseteq Nat \ {0}   \* normalize_settings refuses 0
  /\ MaxNow \in Nat

VARIABLES
  now,      \* Utc::now()
  made,     \* events recorded so far; an event's id is its number, 0 if imported
  writer,   \* what the write under way is part of
  undo,     \* the snapshot of with_config_rollback, until its write has succeeded
  due       \* history: events whose record has succeeded, still to be shown

historyVars == <<now, made, writer, undo, due>>

Times == 0 .. MaxNow

Event == [id : Nat, at : Nat \cup {Malformed}]

AnyConfig == [events : Seq(Event), days : Nat]

\* What is read from a file is a configuration; the events of one that is
\* imported were not recorded here.
ASSUME LogAssumption ==
  /\ Configs \cup Imports \subseteq AnyConfig
  /\ \A cfg \in Imports \cup {Default} : \A e \in Ran(cfg.events) : e.id = 0

\* timestamp_is_retained
Retained(e, days, t) == e.at = Malformed \/ e.at + days >= t

\* Variant: the newest are dropped.
TrimNewest(log) ==
  SubSeq(log, 1, IF Len(log) > MAX_AUDIT_EVENTS THEN MAX_AUDIT_EVENTS ELSE Len(log))

trim_oldest(log) ==
  SubSeq(log, IF Len(log) > MAX_AUDIT_EVENTS THEN Len(log) - MAX_AUDIT_EVENTS + 1 ELSE 1,
         Len(log))

\* What the retention of a configuration leaves of its log.
Unexpired(cfg) == Only(cfg.events, {e \in Ran(cfg.events) : Retained(e, cfg.days, now)})

\* prune_config_history
Pruned(cfg) == [cfg EXCEPT !.events = trim_oldest(Unexpired(cfg))]

\* append_audit_event
Appended(cfg, e) == [cfg EXCEPT !.events = trim_oldest(Append(@, e))]

\* list_audit_events_safe with no other limit than its own.
Listed(cfg) == trim_oldest(Unexpired(cfg))

-----------------------------------------------------------------------------

HistoryInit ==
  /\ FileInit
  /\ now = 0
  /\ made = 0
  /\ writer = "none"
  /\ undo = Missing
  /\ due = {}

\* A write may begin when nothing is left to undo.
Write(by, cfg) ==
  /\ config' = cfg
  /\ Persist
  /\ undo = Missing
  /\ writer' = by
  /\ UNCHANGED now

\* record_action: old events go, the new one is added and written. That the
\* write may fail is not looked at.
Record ==
  /\ made < MaxEvents
  /\ Write("record", Appended(Pruned(config), [id |-> made + 1, at |-> now]))
  /\ made' = made + 1
  /\ due' = {e \in due : e.id + MAX_AUDIT_EVENTS > made'}
  /\ UNCHANGED undo

\* save_app_settings_safe
SaveDays(days) ==
  /\ Write("settings", Pruned([config EXCEPT !.days = days]))
  /\ undo' = config
  /\ UNCHANGED <<made, due>>

\* normalize_import_content
Normalized(cfg) == Pruned(cfg)

\* import_app_config_safe: the log is the file's from here on.
Import(cfg) ==
  /\ Write("import", Normalized(cfg))
  /\ undo' = config
  /\ UNCHANGED <<made, due>>

\* with_config_rollback after a failed write; that this one may fail is not
\* looked at either.
Rollback ==
  /\ answer = "err"
  /\ undo # Missing
  /\ config' = undo
  /\ Persist
  /\ undo' = Missing
  /\ writer' = "rollback"
  /\ UNCHANGED <<now, made, due>>

\* What is due when the write of `config` has succeeded.
DueAfter ==
  CASE writer = "record"   -> due \cup {[id |-> made, at |-> now]}
    [] writer = "settings" -> {e \in due : Retained(e, config.days, now)}
    [] writer = "import"   -> {}
    [] OTHER               -> due

\* The steps of a write, and its end.
WriteStep ==
  /\ CreateTemp \/ WriteTemp \/ MoveAside \/ MoveIn
  /\ \/ answer' = "ok" /\ undo' = Missing /\ due' = DueAfter
     \/ answer' # "ok" /\ UNCHANGED <<undo, due>>
  /\ writer' = IF pc' = "idle" THEN "none" ELSE writer
  /\ UNCHANGED <<now, made>>

StartOrCrash ==
  /\ Start \/ Crash
  /\ undo' = Missing
  /\ writer' = "none"
  /\ UNCHANGED <<now, made, due>>

\* The last write may be lost with the main file.
FileDamaged == Damage /\ due' = {} /\ UNCHANGED <<now, made, writer, undo>>

\* Days pass, or the clock is set. A write is over before that.
Clock ==
  /\ pc \in {"down", "idle"}
  /\ undo = Missing
  /\ now' \in Times \ {now}
  /\ LET current == IF pc = "down" THEN Load(primary, backup) ELSE config
     IN  due' = {e \in due : Retained(e, current.days, now')}
  /\ UNCHANGED <<fileVars, made, writer, undo>>

HistoryNext ==
  \/ Record
  \/ \E days \in RetentionDays : SaveDays(days)
  \/ \E cfg \in Imports : Import(cfg)
  \/ Rollback
  \/ WriteStep
  \/ StartOrCrash
  \/ FileDamaged
  \/ Clock

HistorySpec == HistoryInit /\ [][HistoryNext]_<<fileVars, historyVars>>

-----------------------------------------------------------------------------
(* Properties.                                                             *)

Shown(cfg) == {Listed(cfg)[i] : i \in 1 .. Len(Listed(cfg))}

\* An event whose record was written is listed until it is too old or
\* MAX_AUDIT_EVENTS newer ones were recorded: whatever fails, is rolled back or
\* is killed after it, in the running program (outside a
\* transaction) and after a restart.
WrittenEventsAreListed ==
  /\ due \subseteq Shown(Load(primary, backup))
  /\ pc # "down" /\ undo = Missing => due \subseteq Shown(config)

=============================================================================
