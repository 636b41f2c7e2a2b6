-------------------------- MODULE ConfigTransaction --------------------------
(***************************************************************************)
(* The commands that change the stored configuration, with the two locks   *)
(* they take: the launch lifecycle lock (launch_profiles.rs) around checks *)
(* against running sessions, and inside it the transaction lock of         *)
(* config_transaction.rs around snapshot, operation and rollback.          *)
(*                                                                         *)
(* The configuration in memory has a mutex of its own, which a method of   *)
(* ConfigStore holds while it changes the memory and persists it: one      *)
(* action each. Between a failed persist and the rollback that mutex is    *)
(* free, and other commands read what the failed one left in memory.       *)
(*                                                                         *)
(* A persist either replaces what a restart loads or leaves it as it is;   *)
(* ConfigFile shows that the files do so. Running sessions are reduced to  *)
(* the profile they were started with.                                     *)
(*                                                                         *)
(* A profile has an id, and is looked up by its slot (project, role and    *)
(* directory) or by the scan result it came from (candidate). The order of *)
(* the stored profiles is left out: of several that match any may be found.*)
(***************************************************************************)
EXTENDS Naturals, Sequences

CONSTANTS
  Projects,        \* project ids
  Profiles,        \* profile ids
  Slots,           \* projects' directories with a role
  ProjectOf,       \* the project a slot belongs to
  Candidates,      \* ids of scan results
  Commands,        \* command lines a profile may hold
  Settings,        \* the values of AppSettings
  DefaultSettings,
  Events,          \* audit events, each recorded once
  MaxAuditEvents,  \* MAX_AUDIT_EVENTS (200)
  Imports,         \* contents of configuration files a user may import
  Callers,         \* threads that run commands
  Alone,           \* bound: commands that are looked at without another beside them
  PersistMayFail,  \* whether writing the file may fail
  NoProfile, NoCandidate, NoEvent, NoCaller, NoCall

ASSUME TransactionAssumption ==
  /\ ProjectOf \in [Slots -> Projects]
  /\ DefaultSettings \in Settings
  /\ MaxAuditEvents \in Nat \ {0}
  /\ PersistMayFail \in BOOLEAN
  /\ NoCandidate \notin Candidates
  /\ NoEvent \notin Events
  /\ NoCaller \notin Callers

VARIABLES
  config,     \* the configuration in memory
  saved,      \* the configuration a restart would load
  lifecycle,  \* holder of the launch lifecycle lock
  tx,         \* holder of the configuration transaction lock
  running,    \* per profile: what its active session was started with
  pc, call,   \* per caller: where it is in which command
  snapshot,   \* the snapshot of with_config_rollback
  draft,      \* a local copy of the configuration or a profile, or a profile id
  recorded,   \* history: the audit event recorded last
  unrecorded  \* history: events not recorded yet

callVars == <<pc, call, snapshot, draft>>
history  == <<recorded, unrecorded>>
vars == <<config, saved, lifecycle, tx, running, callVars, history>>

-----------------------------------------------------------------------------
(* Configurations.                                                         *)

ProfileRecords ==
  [slot : Slots, candidate : Candidates \cup {NoCandidate}, command : Commands]

Configs ==
  [projects : SUBSET Projects,
   profiles : [Profiles -> ProfileRecords \cup {NoProfile}],
   settings : Settings,
   audit    : Seq(Events)]

\* AppConfig::default
Default ==
  [projects |-> {},
   profiles |-> [f \in Profiles |-> NoProfile],
   settings |-> DefaultSettings,
   audit    |-> <<>>]

ASSUME ContentAssumption ==
  /\ NoProfile \notin ProfileRecords
  /\ Imports \subseteq Configs

\* What the user put in; the audit log is the program's own.
UserPart(cfg) == <<cfg.projects, cfg.profiles, cfg.settings>>

Stored(cfg, f) == cfg.profiles[f] # NoProfile

OwnerOf(cfg, f) == ProjectOf[cfg.profiles[f].slot]

\* validate_import_config: read_config and import_json accept nothing else.
Valid(cfg) == \A f \in Profiles : Stored(cfg, f) => OwnerOf(cfg, f) \in cfg.projects

\* validate_import_profiles: what the user imports has one profile per slot
\* and one per scan result of a project.
Importable(cfg) ==
  /\ Valid(cfg)
  /\ \A f, g \in Profiles :
       Stored(cfg, f) /\ Stored(cfg, g) /\ f # g =>
         /\ cfg.profiles[f].slot # cfg.profiles[g].slot
         /\ \/ OwnerOf(cfg, f) # OwnerOf(cfg, g)
            \/ cfg.profiles[f].candidate = NoCandidate
            \/ cfg.profiles[f].candidate # cfg.profiles[g].candidate

\* append_audit_event: the oldest event is dropped when the log is full.
Appended(log, e) ==
  LET longer == Append(log, e) IN
  IF Len(longer) > MaxAuditEvents THEN Tail(longer) ELSE longer

-----------------------------------------------------------------------------
(* Commands. Each is a record; op names the command.                       *)

Calls ==
  [op : {"upsert_project", "remove_project"}, project : Projects]
    \cup [op : {"save_profile"}, profile : ProfileRecords]
    \cup [op : {"remove_profile", "start"}, profile : Profiles]
    \cup [op : {"save_settings"}, settings : Settings]
    \cup [op : {"import"}, content : Imports]
    \cup [op : {"record_action"}, event : Events]

\* Variant: saving a profile does not take the lifecycle lock.
LockedButSaves == {"remove_project", "remove_profile", "start", "import"}

\* Commands that hold the lifecycle lock from their first line to their last.
LifecycleOps ==
  {"remove_project", "save_profile", "remove_profile", "start", "import"}

\* The stored profiles save_launch_profile_safe takes for the one it saves.
Matching(cfg, p) ==
  {f \in Profiles :
     /\ Stored(cfg, f)
     /\ OwnerOf(cfg, f) = ProjectOf[p.slot]
     /\ \/ cfg.profiles[f].slot = p.slot
        \/ p.candidate # NoCandidate /\ cfg.profiles[f].candidate = p.candidate}

\* The id a profile is saved under: of a stored one, or a new one, where it
\* does not matter which.
SavedAs(cfg, p) ==
  IF Matching(cfg, p) # {}
  THEN Matching(cfg, p)
  ELSE LET unused == {f \in Profiles : ~Stored(cfg, f) /\ running[f] = NoProfile} IN
       IF unused = {} THEN {} ELSE {CHOOSE f \in unused : TRUE}

\* The checks a command makes, under the lifecycle lock, before it writes.
\* A profile is saved as f.
MayProceed(k, f) ==
  CASE k.op = "remove_project" ->
         \A g \in Profiles :
           Stored(config, g) /\ OwnerOf(config, g) = k.project => running[g] = NoProfile
    [] k.op = "save_profile" ->
         ProjectOf[k.profile.slot] \in config.projects /\ running[f] = NoProfile
    [] k.op = "remove_profile" -> running[k.profile] = NoProfile
    [] k.op = "import" ->
         (\A g \in Profiles : running[g] = NoProfile) /\ Importable(k.content)
    [] k.op = "start" ->
         /\ Stored(config, k.profile)
         /\ OwnerOf(config, k.profile) \in config.projects
         /\ running[k.profile] = NoProfile
    [] OTHER -> TRUE

\* Variant: removing a project leaves its profiles.
RemainingAll(cfg, a) == cfg.profiles

\* The profiles of a removed project go with it.
Remaining(cfg, a) ==
  [f \in Profiles |->
     IF Stored(cfg, f) /\ OwnerOf(cfg, f) = a THEN NoProfile ELSE cfg.profiles[f]]

\* The configuration a command makes of cfg; a profile is saved as f.
Result(k, f, cfg) ==
  CASE k.op = "upsert_project" ->
         [cfg EXCEPT !.projects = @ \cup {k.project}]
    [] k.op = "remove_project" ->
         [cfg EXCEPT !.projects = @ \ {k.project},
                     !.profiles = Remaining(cfg, k.project)]
    [] k.op = "save_profile" ->
         [cfg EXCEPT !.profiles[f] = k.profile]
    [] k.op = "remove_profile" ->
         [cfg EXCEPT !.profiles[k.profile] = NoProfile]
    [] k.op = "save_settings" -> [cfg EXCEPT !.settings = k.settings]
    [] k.op = "import" -> k.content
    [] k.op = "record_action" -> [cfg EXCEPT !.audit = Appended(@, k.event)]

\* Removing what is not there writes nothing.
NothingToDo(k, cfg) ==
  \/ k.op = "remove_project" /\ k.project \notin cfg.projects
  \/ k.op = "remove_profile" /\ ~Stored(cfg, k.profile)

-----------------------------------------------------------------------------

\* What a file has in its log was recorded before.
OldEvents == {e \in Events : \E file \in Imports : \E i \in DOMAIN file.audit : file.audit[i] = e}

Init ==
  /\ config = Default
  /\ saved = Default
  /\ lifecycle = NoCaller
  /\ tx = NoCaller
  /\ running = [f \in Profiles |-> NoProfile]
  /\ pc = [c \in Callers |-> "idle"]
  /\ call = [c \in Callers |-> NoCall]
  /\ snapshot = [c \in Callers |-> NoCall]
  /\ draft = [c \in Callers |-> NoCall]
  /\ recorded = NoEvent
  /\ unrecorded = Events \ OldEvents

GoTo(c, label) == pc' = [pc EXCEPT ![c] = label]

\* Variant: the transaction guard is leaked.
UnlockLifecycleOnly(c) ==
  /\ lifecycle' = IF lifecycle = c THEN NoCaller ELSE lifecycle
  /\ UNCHANGED tx

\* Leaving a command drops the guards it holds.
Unlock(c) ==
  /\ lifecycle' = IF lifecycle = c THEN NoCaller ELSE lifecycle
  /\ tx' = IF tx = c THEN NoCaller ELSE tx

Return(c) ==
  /\ GoTo(c, "idle")
  /\ call' = [call EXCEPT ![c] = NoCall]
  /\ snapshot' = [snapshot EXCEPT ![c] = NoCall]
  /\ draft' = [draft EXCEPT ![c] = NoCall]
  /\ Unlock(c)

\* A file read_config would reject is on the disk, but a restart then loads
\* the backup, which is the file it replaced.
Persisted(cfg) == saved' = IF Valid(cfg) THEN cfg ELSE saved

-----------------------------------------------------------------------------

\* Commands of Alone begin and run while no other command does.
MayOverlap(c, k) ==
  \A d \in Callers \ {c} : pc[d] # "idle" => {k.op, call[d].op} \cap Alone = {}

\* A command is called; those that take the lifecycle lock take it first.
Begin(c, k) ==
  /\ pc[c] = "idle"
  /\ MayOverlap(c, k)
  /\ call' = [call EXCEPT ![c] = k]
  /\ \/ /\ k.op \in LifecycleOps
        /\ lifecycle = NoCaller
        /\ lifecycle' = c
     \/ /\ k.op \notin LifecycleOps
        /\ UNCHANGED lifecycle
  /\ IF k.op = "record_action"
     THEN /\ k.event \in unrecorded
          /\ unrecorded' = unrecorded \ {k.event}
     ELSE UNCHANGED unrecorded
  /\ GoTo(c, "check")
  /\ UNCHANGED <<config, saved, tx, running, snapshot, draft, recorded>>

\* Lookups and checks. A save remembers under which id it will save, and
\* start what it has read of the profile.
Check(c) ==
  /\ pc[c] = "check"
  /\ LET k == call[c] IN
       \E f \in IF k.op = "save_profile" THEN SavedAs(config, k.profile) ELSE {NoProfile} :
         \/ /\ MayProceed(k, f)
            /\ draft' = [draft EXCEPT ![c] =
                            CASE k.op = "save_profile" -> f
                              [] k.op = "start" -> config.profiles[k.profile]
                              [] OTHER -> @]
            /\ GoTo(c, IF k.op = "start" THEN "launch" ELSE "lock")
            /\ UNCHANGED <<lifecycle, tx, call, snapshot>>
         \/ /\ ~MayProceed(k, f)
            /\ Return(c)
  /\ UNCHANGED <<config, saved, running, history>>

\* CommandRunnerState::start with what was read from the profile.
Launch(c) ==
  /\ pc[c] = "launch"
  /\ \/ running' = [running EXCEPT ![call[c].profile] = draft[c]]
     \/ UNCHANGED running
  /\ Return(c)
  /\ UNCHANGED <<config, saved, history>>

\* Variant: the transaction lock is not taken.
TransactionIgnored == TRUE

TransactionFree == tx = NoCaller

\* lock_config_write, and the snapshot with_config_rollback takes.
\* record_action takes the lock alone.
LockTransaction(c) ==
  /\ pc[c] = "lock"
  /\ TransactionFree
  /\ tx' = c
  /\ snapshot' = [snapshot EXCEPT ![c] =
                    IF call[c].op = "record_action" THEN @ ELSE config]
  /\ GoTo(c, IF call[c].op = "save_settings" THEN "export" ELSE "operate")
  /\ UNCHANGED <<config, saved, lifecycle, running, call, draft, history>>

\* save_app_settings_safe copies the configuration, changes the copy, and
\* imports it in a later critical section.
Export(c) ==
  /\ pc[c] = "export"
  /\ draft' = [draft EXCEPT ![c] = Result(call[c], NoProfile, config)]
  /\ GoTo(c, "operate")
  /\ UNCHANGED <<config, saved, lifecycle, tx, running, call, snapshot, history>>

\* What the operation leaves in memory when it persists.
Outcome(c) ==
  IF call[c].op = "save_settings" THEN draft[c] ELSE Result(call[c], draft[c], config)

\* import_json refuses an invalid configuration before it changes anything;
\* upsert_project refuses a directory that is not there.
Refused(c) ==
  \/ call[c].op \in {"save_settings", "import"} /\ ~Valid(Outcome(c))
  \/ call[c].op = "upsert_project"

Remember(k) ==
  recorded' = CASE k.op = "record_action" -> k.event
                [] k.op = "import" -> NoEvent
                [] OTHER -> recorded

\* record_action ignores a failed persist; the others roll back.
AfterFailedPersist(c) ==
  IF call[c].op = "record_action"
  THEN Return(c)
  ELSE GoTo(c, "rollback") /\ UNCHANGED <<call, snapshot, draft, lifecycle, tx>>

\* The method of ConfigStore: memory first, then the file.
Operate(c) ==
  /\ pc[c] = "operate"
  /\ \/ /\ NothingToDo(call[c], config)
        /\ Return(c)
        /\ UNCHANGED <<config, saved, recorded>>
     \/ /\ Refused(c)
        /\ GoTo(c, "rollback")
        /\ UNCHANGED <<config, saved, recorded, call, snapshot, draft,
                       lifecycle, tx>>
     \/ /\ ~NothingToDo(call[c], config)
        /\ call[c].op \in {"save_settings", "import"} => Valid(Outcome(c))
        /\ config' = Outcome(c)
        /\ \/ /\ Persisted(config')
              /\ Remember(call[c])
              /\ Return(c)
           \/ /\ PersistMayFail
              /\ AfterFailedPersist(c)
              /\ IF call[c].op = "record_action"
                 THEN Remember(call[c]) ELSE UNCHANGED recorded
              /\ UNCHANGED saved
  /\ UNCHANGED <<running, unrecorded>>

\* Variant: what is in memory stays there.
RollBackNothing(c) ==
  /\ pc[c] = "rollback"
  /\ Return(c)
  /\ UNCHANGED <<config, saved, running, history>>

\* import_json(snapshot): validated, put in memory, and persisted if possible.
RollBack(c) ==
  /\ pc[c] = "rollback"
  /\ \/ /\ Valid(snapshot[c])
        /\ config' = snapshot[c]
        /\ \/ saved' = snapshot[c]
           \/ PersistMayFail /\ UNCHANGED saved
     \/ /\ ~Valid(snapshot[c])
        /\ UNCHANGED <<config, saved>>
  /\ Return(c)
  /\ UNCHANGED <<running, history>>

\* A session ends by itself or is stopped.
SessionEnds(f) ==
  /\ running[f] # NoProfile
  /\ running' = [running EXCEPT ![f] = NoProfile]
  /\ UNCHANGED <<config, saved, lifecycle, tx, callVars, history>>

\* The program is killed, its sessions die with their jobs, and it is started
\* again.
Restart ==
  /\ config' = saved
  /\ lifecycle' = NoCaller
  /\ tx' = NoCaller
  /\ running' = [f \in Profiles |-> NoProfile]
  /\ pc' = [c \in Callers |-> "idle"]
  /\ call' = [c \in Callers |-> NoCall]
  /\ snapshot' = [c \in Callers |-> NoCall]
  /\ draft' = [c \in Callers |-> NoCall]
  /\ recorded' = NoEvent
  /\ UNCHANGED <<saved, unrecorded>>

CallerStep(c) ==
  \/ Check(c)
  \/ Launch(c)
  \/ LockTransaction(c)
  \/ Export(c)
  \/ Operate(c)
  \/ RollBack(c)

Next ==
  \/ \E c \in Callers : \E k \in Calls : Begin(c, k)
  \/ \E c \in Callers : CallerStep(c)
  \/ \E f \in Profiles : SessionEnds(f)
  \/ Restart

\* A thread that can go on does, and a lock that is free again and again is
\* obtained: calls come from a user, who does not keep it taken forever.
Fairness ==
  \A c \in Callers : WF_vars(CallerStep(c)) /\ SF_vars(LockTransaction(c))

Spec == Init /\ [][Next]_vars /\ Fairness

-----------------------------------------------------------------------------
(* Properties.                                                             *)

\* Memory holds a configuration that validation accepts, so that the next
\* start does not reject the file, and no later import_json, save_settings
\* and rollback among them, is refused.
MemoryValid == Valid(config)

\* After a failed command the user's configuration is what it was before it,
\* even if the program is killed before the rollback.
RollbackRestores ==
  [][\A c \in Callers :
       pc[c] = "rollback" /\ pc'[c] = "idle"
         => UserPart(config') = UserPart(snapshot[c])]_vars

\* When no transaction is open, a restart would bring back everything the
\* user has put in and nothing a failed command had: only audit events whose
\* write failed may be ahead in memory.
DiskFollowsMemory == tx = NoCaller => UserPart(saved) = UserPart(config)

\* While a session runs, its profile is stored as it was when the session was
\* started.
RunningProfileKept ==
  \A f \in Profiles :
    running[f] # NoProfile => config.profiles[f] = running[f]

EndsLog(e, log) == log # <<>> /\ log[Len(log)] = e

\* A recorded event is not lost to a rollback or to a copy of the
\* configuration that was taken before it: when no transaction is open, the
\* event recorded last ends the log.
EventsSurvive ==
  tx = NoCaller /\ recorded # NoEvent => EndsLog(recorded, config.audit)

-----------------------------------------------------------------------------
(* The inductive invariant behind them. It holds for any commands and any  *)
(* number of callers, if no command runs beside upsert_project.            *)

UpsertAlone == "upsert_project" \in Alone

TransactionPCs == {"export", "operate", "rollback"}

TypeOK ==
  /\ {config, saved} \subseteq Configs
  /\ {lifecycle, tx} \subseteq Callers \cup {NoCaller}
  /\ running \in [Profiles -> ProfileRecords \cup {NoProfile}]
  /\ pc \in [Callers -> {"idle", "check", "launch", "lock"} \cup TransactionPCs]
  /\ DOMAIN call = Callers
  /\ DOMAIN snapshot = Callers
  /\ DOMAIN draft = Callers
  /\ recorded \in Events \cup {NoEvent}
  /\ unrecorded \subseteq Events

\* Who runs which command, and which locks it holds where it is.
CommandInv ==
  \A c \in Callers : pc[c] # "idle" =>
    /\ call[c] \in Calls
    /\ call[c].op \in LifecycleOps => lifecycle = c
    /\ (pc[c] = "launch") => call[c].op = "start"
    /\ (call[c].op = "start") => pc[c] \in {"check", "launch"}
    /\ (pc[c] = "export") => call[c].op = "save_settings"
    /\ (pc[c] = "rollback") => call[c].op # "record_action"
    /\ (pc[c] \in TransactionPCs) <=> tx = c

HolderInv == \A c \in Callers : lifecycle = c \/ tx = c => pc[c] # "idle"

UpsertInv ==
  \A c, d \in Callers :
    c # d /\ pc[c] # "idle" /\ pc[d] # "idle" => call[c].op # "upsert_project"

\* cfg holds the profiles of all sessions, as they were started.
KeepsRunning(cfg) ==
  \A f \in Profiles : running[f] # NoProfile => cfg.profiles[f] = running[f]

\* What a start read is still there when it launches, and what the other
\* commands checked still holds when they write.
Checked(c) ==
  /\ pc[c] = "launch" =>
       draft[c] = config.profiles[call[c].profile] /\ draft[c] \in ProfileRecords
  /\ pc[c] \in {"lock", "operate"} =>
       /\ (call[c].op = "save_profile") =>
            draft[c] \in Profiles /\ MayProceed(call[c], draft[c])
       /\ call[c].op \in {"remove_project", "remove_profile", "import"} =>
            MayProceed(call[c], NoProfile)

CheckedInv == \A c \in Callers : Checked(c)

\* What a transaction finds, or would go back to, is fit to be restored.
Restorable(cfg) ==
  /\ cfg \in Configs
  /\ Valid(cfg)
  /\ UserPart(saved) = UserPart(cfg)
  /\ KeepsRunning(cfg)
  /\ recorded # NoEvent => EndsLog(recorded, cfg.audit)

\* The snapshot is what was there before, and a failed command differs from
\* it in nothing that another relies on.
Kept(c) ==
  /\ pc[c] \in {"export", "operate"} /\ call[c].op # "record_action" =>
       snapshot[c] = config
  /\ pc[c] = "operate" /\ call[c].op = "save_settings" =>
       draft[c] = [config EXCEPT !.settings = call[c].settings]
  /\ pc[c] = "rollback" =>
       /\ Restorable(snapshot[c])
       /\ call[c].op \notin LifecycleOps => snapshot[c].profiles = config.profiles
       /\ (call[c].op = "save_settings") => snapshot[c].projects = config.projects

SnapshotInv == \A c \in Callers : Kept(c)

StoreInv ==
  /\ Valid(config)
  /\ Valid(saved)
  /\ KeepsRunning(config)
  /\ (\A c \in Callers : tx = c => pc[c] # "rollback") => Restorable(config)

TransactionInv ==
  /\ TypeOK /\ CommandInv /\ HolderInv /\ UpsertInv
  /\ CheckedInv /\ SnapshotInv /\ StoreInv

\* "Configurations can be imported and exported" (README.md, and the test
\* export_import_roundtrip): an export is a file that can be imported again.
ExportCanBeImported == Importable(config)

\* A command that has begun is answered, and a caller that holds a lock lets go
\* of it: a leaked lifecycle lock would end every later start and save.
CommandAnswered ==
  \A c \in Callers :
    pc[c] # "idle" \/ lifecycle = c \/ tx = c ~> pc[c] = "idle" /\ c \notin {lifecycle, tx}

=============================================================================
