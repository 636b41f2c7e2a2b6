# Verification of XchenDev-Tools

TLA+ models, model-checking runs and machine-checked proofs for XchenDev-Tools,
a Windows desktop console (Tauri 2: a Rust backend, a React frontend) that
starts and stops project commands, kills processes, controls services, detects
runtimes and keeps a configuration file. The models follow the Windows branch
of the code; `PROJECT.json` gives, for every definition that models code, the
lines it stands for.

## The system

All commands the page can call are synchronous functions registered in
`src-tauri/src/lib.rs`; they share one `AppState`. Threads of the program are
the thread that runs commands, and per launch session two output readers and
one wait thread. The code is written so that commands may run on several
threads: every piece of state has a mutex, and two process-wide locks (launch
lifecycle, configuration transaction) order whole commands. The models keep
that reading and give a command thread a name (`Callers`): what the locks
promise is checked with two overlapping callers, and it is said below where a
result depends on the overlap.

| component | state | operations | interacts with |
|---|---|---|---|
| Launch session runner (`command_runner/mod.rs`) | `sessions`, `profile_running`, `terminal_sessions`, each behind a mutex; one wait thread per session | start, stop, get, list; wait, publish, remember, emit | Job Objects; launch commands (start); the page (`launch_output` events) |
| Job Objects (`windows_job.rs`) | job and process handles | create suspended, assign, resume, terminate, close | the runner |
| Launch commands (`launch_profiles.rs`, `launch_confirmation.rs`, `projects.rs`, `config_import.rs`) | the lifecycle lock | save, remove, confirm, start, import | runner (active sessions), store, confirmations, command policy, the disk |
| Project scanner (`project_scanner`) | none; a walk over folders that may change meanwhile | scan | the disk; its suggestions are saved as profiles |
| Command policy (`security_guard`) | none | validate a command line, protect a process | launch commands, import, termination |
| Audit log (`audit_log`, `history_retention.rs`, `history.rs`) | the events in the configuration | record, prune, list | file layer, transaction lock, clock |
| Configuration store (`config_store/mod.rs`, `config_transaction.rs`, `audit_log`) | the configuration in memory, the transaction lock | upsert, remove, import, export, save settings, record | file layer; every command |
| Configuration file (`atomic.rs`, load and persist) | `config.json`, `.bak`, `.tmp` | load, write temporary, replace | the disk |
| Confirmations (`app_state.rs`, `process_confirmation.rs`, `service_confirmation.rs`) | three stores of single-use tokens with expiry and a bound | issue, consume | launch, termination, service commands |
| Process termination (`process_manager`, `port_manager`) | none; the process table | snapshot, pin, verify, kill | confirmations, audit |
| Service control (`service_manager`, `service_confirmation.rs`) | an operation lock; the service's status | start, stop, restart with a wait | confirmations, audit |
| Environment detection (`environment_detector`, cache in `app_state.rs`) | a cache keyed by a fingerprint of the settings | detect, cache, invalidate | store |
| Rules (`settings_guard`, import rules) | none | validate, normalise | settings, import |
| Settings page, environments page, theme (`SettingsPage.tsx`, `EnvironmentsPage.tsx`, `ThemeContext.tsx`) | the form, the list of runtimes with its request generation, the theme | load, edit, save, import, refresh, set an override, change the theme | store and cache, through asynchronous calls |
| Project page (`useProjectManager.ts`, `model.ts`) | session table, last session per profile, pending final events | start, stop, start all, refresh, events | runner, through responses and events |

What is hard in it: a session's start, stop and end run on different threads
and pass through three mutexes one at a time; stop falls back from job to
handle to process id; a failed write is undone in memory by a rollback while
other commands may look; a write may be cut anywhere; results and events reach
the page in either order. `PROJECT.json` lists each such place as a hazard with
the properties aimed at it.

What makes each component correct:
- runner: one session per profile; nothing left behind; Ok from stop means what
  it says; bounded and complete history; an exit is reported;
- file: whatever is killed when, a start loads a configuration that was saved whole;
- store: references stay valid, failed commands leave no trace, running profiles stay;
- audit log: an event that was written is listed until retention says otherwise;
- scanner: on a disk at rest it finds every build file in reach once, and on any
  disk nothing outside of the project;
- launch: what is started is what the user was shown, inside the project, and one
  permitted command, however the profile came to be;
- confirmations: used once, in time, for what they were given;
- termination: only the confirmed process is killed;
- service control: the answer describes what happened to the service;
- cache and detection: no result of older settings is served under new ones, and
  every executable that can be found is listed once, under its best source;
- settings: a save changes what the user edited and stays; the list of runtimes
  on screen is that of the settings; no page waits for an answer that never comes;
- page: a session that has ended is not shown as running, and one that runs is in the table.

## Modules

### `CommandRunner`, `SessionLifecycle`, `CommandRunnerProofs`

`CommandRunner` has one action per critical section or system call.

| code | model |
|---|---|
| `Inner.sessions[id].info.state` | `state[s]`, `"absent"` when not in the map |
| `session.job`, the `SpawnedSession` or local that holds it | `job[s]`: who holds the handle |
| `profile_running`, `terminal_sessions` | the variables of that name |
| position in `wait_for_child`, its locals | `waiter`, `verdict`, `evicted`, `emitted` |
| the guard of `launch_lifecycle_lock` | `lifecycle` |
| position of a command, its session | `pc`, `target` |
| processes | `root` (the `cmd.exe`), `descendants`, `pidReused` |

A start is `StartLock`, `StartCheck`, `StartSpawn` (the job, then the suspended
process), `StartAssign`, `StartResume`, `StartCapture`, `StartInsert`, `StartOwn`, `StartThread`. A stop is `StopMark` (or
`StopSettled`, `StopUnknown`), then `StopJob`, `StopHandle`, `StopVerify`,
`StopKill`, `StopReverify` as far as it has to fall back. The wait thread is
`WaitTake` to `WaitEmit`. `RootExits`, `DescendantsExit` and `PidReuse` are the
operating system. `stopOk` and `emitted` are history: what was answered and
what was sent.

Abstractions. Exit codes are zero or not. Session ids are fresh
(`Uuid::new_v4`), and the id a start will draw is fixed beforehand with its
profile (`ProfileOf`), which loses no behaviour. Killing is atomic: a kill that
succeeds has ended the process. A start time is taken to tell a process from a
later one with its id; the code compares seconds. `PidReuse` happens only while
a stop is looking at the session, since nobody else reads the id, and only
after the wait thread has closed the process handle. A process that was created
and is not assigned yet (`"created"`) is not ended with its job, an assigned
or resumed one is: `Discard` and `AbandonSpawned` are the two error paths, and
`NoOrphanProcess` tells them apart. The program being killed between creating and
assigning leaves a suspended process behind; nothing in the code could prevent
that, and no run has it. Poisoned locks, test hooks and the branch for other systems are left out.
A stop request that comes between the wait
thread's reading of the state and its publishing is answered Ok and the session
is published Failed: it had ended by itself before. Branches no execution reaches are left out as well: a wait thread that finds no
process, a session remembered twice, a session that is gone at publication. The
state `Starting` is never assigned by the code. The text of output events is
left out; the final event is not.

`SessionLifecycle` says the same with two variables: a session begins in a free
profile, may be asked to stop, gives its profile back, becomes terminal once,
and is forgotten only then. `LifecycleImplemented` is its safety part under the
mapping `LifeOf`, `OwnerOf`.

### `ConfigFile`, `DurableConfig`

`ConfigFile` is `persist`, `atomic_write_with_backup`, `replace_file` and
`load_or_default`: the contents of the three files, the configuration in
memory, the local `backup_current`, and a program counter with `"down"` for a
program that does not run. The two renames of `ReplaceFileW` are the steps
`MoveAside` and `MoveIn`; a failure of the second is the documented outcome in
which the current file survives under the backup name only. `Crash` may come
anywhere; `Damage` makes the main file unreadable or removes it while nothing
writes it. Damage to the backup, and a read that fails although the file is
good, are left out. Contents are configurations `read_config` accepts, or
`Unusable`, or `Missing`; what is written is the configuration in memory, since the
mutex is held from its change to the end of the write.

The run of these modules is that of `AuditHistory`, below, which says what
the configurations hold, and their proofs are in `HistoryAndPageProofs`. `DurableConfig` is the promise: what a start loads changes only when a write
answers Ok, to exactly what was written, and losing the main file costs at most
the last write. `Durability` states that the files implement it.

### `ConfigTransaction`, `ConfigTransactionProofs`

The commands `upsert_project`, `remove_project`, `save_launch_profile_safe`,
`remove_launch_profile_safe`, `start_launch_profile_safe`,
`save_app_settings_safe`, the two imports and `record_action`. Each goes
through `Begin` (the lifecycle lock, where the command takes it), `Check` (its
lookups and the check against running sessions), `LockTransaction` (lock and
snapshot), `Operate` (memory, then file, under the mutex of the store) and, if
that fails, `RollBack`. Saving settings copies the configuration in `Export` and
imports the copy in `Operate`. A persist either sets `saved` or leaves it, which
is what `DurableConfig` promises; a configuration validation would reject
leaves `saved` as it was, because a restart then reads the backup. Sessions are
reduced to `running`, the profile each active one was started with.

A profile has an id, a slot (project, role and directory), the scan result it came
from, if any, and a command line. `save_launch_profile_safe` overwrites the first stored profile
of the project that has the same scan result or the same slot (`Matching`), and
otherwise draws an id. The order of the stored profiles is left out, so any
that matches may be found; which unused id is drawn does not matter.
`Importable` is what `validate_import_profiles` asks of a file beyond what
`import_json` asks of every configuration (`Valid`). Directories are their
canonical form; the rules over their spelling are conditions that the
environment decides before the call, and the command policy and tokens are in
`ProjectLaunch`. Age-based pruning is in `AuditHistory`, manual overrides in
`Settings`.

`upsert_project` runs alone (`Alone`, `MayOverlap`). If that command overlapped a
`save_launch_profile_safe`, the latter could find the new project before it is
rolled back and store a profile for it, after which `import_json` refuses every
snapshot and no later rollback restores anything: `with_config_rollback`
releases the mutex of the store between the failed write and the rollback, and
the lookup comes before the transaction lock. Synchronous commands run on one
thread and do not overlap, so this does not happen today; the other commands do
not depend on it.

`CommandAnswered` counts a caller that holds either lock as one whose command is under
way, so that a guard which outlives its command shows, also where nobody waits for it.

### `AuditHistory`, `Filtering`, `HistoryAndPageProofs`

The audit log on the files of `ConfigFile`: the configurations are records of
`events` and `days` (`log_retention_days`). `Record` is `record_action`, which
prunes and appends in memory and ignores a failed write; `SaveDays` and
`Import` are transactions, whose failed write is followed by `Rollback`;
`WriteStep`, `StartOrCrash` and `FileDamaged` are the steps of `ConfigFile`. Every
writer holds the transaction lock, so a write begins when the one before it is
over. `Pruned`, `Appended` and `Listed` are the functions of
`history_retention.rs`; what `retain` leaves of a list is `Only` of `Filtering`,
a recursive function, so that it can be reasoned about, which `ProjectPage` uses
too. `LogAssumption` says that files hold configurations and that imported events
were not recorded here. An event is its number and its day, an imported
one has the number 0, and its stamp may be one that does not parse. The clock is in days
and may be set to any of them; it does not move during a write, whose
few milliseconds are no day. Recent errors go through the same functions
with another maximum and are left out.

`due` is history: the events whose record was written and which neither age, nor
newer ones, nor an import, nor the loss of the main file has taken away since.
`WrittenEventsAreListed` says that a restart at this moment would list them, and
that the program does, except inside a transaction.

### `ProjectScanner`, `CommandPolicy`, `ProjectLaunch`, `ProjectLaunchProofs`

From a folder to a session. `ProjectScanner` is `scan_project_directory`. The
disk is `tree`: where each path leads once links are followed, what build files
a folder holds and what counts of their content, and which folders cannot be
listed. `stack` holds the calls of `scan_tree`; `Look` is one `is_file`, `Build`
one `build_candidate`, `List` one `read_dir`, `Walk` one entry, in any order, and
`ChangeDisk` may come between any two. Within `Build` the reads of one
folder are one step. `ScanExact` compares the result with a
definition that does not walk (`Reached`, `Expected`); it and
`SuggestionCanBeSaved` speak of scans under which the disk stayed as it was
(`calm`), `ScanConfined` of all. An entry of a folder that leads nowhere when the
folder is listed may be in the listing (`Listings`) and lead somewhere when it is
visited. A script of a `package.json` may have any name, which `build_candidate` puts
behind `npm run` as it is.

`CommandPolicy` is `validate_command_policy`. A command line is a sequence of
words and of the characters the policy looks at; one control character of the shell
stands for all, and `InDoubleQuotes` is the variable of the loop in
`has_unquoted_shell_control` after each character. The length limit and the
spelling of blocked names in upper and lower case or with extensions are left
out. `StartedIsPermitted` says the same without a scan: what is started has
quotes in pairs and its control characters inside of them, and what it runs, its
first word or what its first quotes enclose, does not end in a blocked word.
`SuggestionCanBeSaved` says what the scanner and the policy have to do with each other.
They do not agree on everything: a script whose own name has control characters outside
of quotes, or a single quote, makes a suggestion that a save refuses
(`ChainedByName`). The property is an equivalence, so it says that this is the only
one. Nothing in the repository promises more: the page presents scan results as
suggestions that can be edited before they are saved.

`ProjectLaunch` composes both with the launch profiles, the tokens of `OneShot`
and the runner of `SessionLifecycle`.

| code | model |
|---|---|
| `launch_profiles` of the one project | `profiles`: folder, command and role by id |
| `save_launch_profile_safe` | `SaveBegin`, `CheckRoot`, `CheckWorkdir`, `FinishSave` |
| `issue_launch_confirmation_safe` | `IssueBegin`, `CheckRoot`, `CheckWorkdir`, `FinishIssue` |
| `start_launch_profile_safe` | `StartBegin`, `CheckRoot`, `CheckWorkdir`, `Consume`, `Spawn` |
| `remove_launch_profile_safe`, the imports | `RemoveProfile`, `Import` |
| sessions, restart, a text editor | `SessionEnds`, `Restart` with `EditedFiles` |

Commands run one after the other (`cmd`), as Tauri runs them; what interferes is
the disk, between any two of their steps, and the user's text editor, while the
program is not running. `canonicalize` is `tree.leads`; the paths of the model are
already without the prefix that `display_path` removes. A profile that is saved
replaces the one of its role and folder; the scan result it came from is in
`ConfigTransaction`. Writes do not fail here, and expiry of a token is
`Once!Lose`. `ran` is history: what each session was started with, by which token, and
where. A token may be presented with any profile, as the command takes any pair.
`moved` marks a start during which the disk changed after its folder was resolved: the
resolution and the creation of the process are two system calls, and nothing holds
the folder in between. `StartedInsideProject` says what is left then: the folder that
was shown lies within the root this start has resolved, although links may change
between the two, and the process begins in that folder if it still leads to itself.

### `Confirmations`, `OneShot`, `ConfirmationsProofs`

One store of confirmation tokens. `kind` says which: the launch store
compares the binding under its mutex (`ConsumeLaunch`); the process and
service stores remove the token and check its age under the mutex (`Take`) and
compare with the target as it is afterwards (`Compare`). Issuing is
`Draw` (token and time, before the mutex) and `Insert` (purge, make room,
insert, under it). `pending`, `created` and `bound` are the map; `hand` is what
a caller has in its locals; `presented`, `spent` and `disturbed` are history. The clock is
the wall clock in ticks, `Seconds` rounds as `num_seconds` does, and `SetClock`
sets the clock to anything. Bindings are digests, taken to be without
collisions; `Uuid::new_v4` gives fresh tokens. The field `consumed` of the code
is never set to true and is left out. A token nobody issued is refused and
changes nothing, and so is left out.

`OneShot` is the promise: a token is issued for one binding and then accepted
once, for it, or lost. `SingleUse` is the refinement under `LifeOf`.

### `ProcessTermination`, `ProcessTerminationProofs`

The inspections, `issue_process_termination_confirmation_safe` and the three
termination commands, one action per read of the process table or system call:
`Begin`, `Open` and `CheckPin` are `pin_process_identity`; then `IssueToken`, or
`Consume`, `CheckSnapshot` (port and directory), `Guard` and `TaskKill`. `Birth`,
`Exit` and `Tick` are the operating system, which may give an id to another
process whenever none has it and no handle to its last owner is open.
`shown` is what the page has been shown, `confirmed` and `kills` are history.

Tokens are the variables and actions of `OneShot`, which the stores implement:
`Expire` stands for expiry, eviction and a changed clock. Reads that follow one
another while the handle is open are one step, because they see one process or,
after its end, none; a process that ends between two of them fails the next
check and in any case `Guard`. A digest of a process that is gone
(`start=missing`) passes no `Guard` either and is left out. The image of a process is its
name with its directory and is fixed; a directory that cannot be read is an
image of its own. Whether a process owns a port is decided by the environment
in `CheckSnapshot`. Protection by port or list is a set of images that
`SaveSettings` may change between commands; commands are synchronous and saving
does not overlap one. `TaskKill` may be refused; in normal mode the process may
go on, although the command answers and records that it was terminated.

Start times are whole seconds, so a process of the same program and directory
that gets the id within the second its predecessor started in has the same
digest, against the comment at `digest_for`. `KillsOnlyConfirmed` therefore
speaks of the identity (id, name, directory, start second), not of the process;
within one command the open handle makes them the same.

### `ServiceControl`, `ServiceControlProofs`

`issue_service_control_confirmation_safe` (`Issue`) and
`control_windows_service_safe`: `Begin` takes `service_control_lock`, `Consume`
the token, `Check` lists the service and compares the digest, and
`execute_service_action` is `FirstStep` followed by `Sc` and `Poll`, once for a
start or a stop and twice for a restart. `QueryFails` is a failing `sc query`.
The status of a service belongs to the service control manager: `Settles` ends
a pending start or stop, `ChangedOutside` is any other program or a crash, and
either may come between any two steps. `sc` may refuse anything, and accepts a
start only of a stopped service and a stop only of a running or paused one.
`sent` and `ok` are history; `down` records that the service was down while a
command worked on it. `SentWasConfirmed` is about what goes out under one token,
`ControlUndisturbed` about what may come between: nothing under another token from the
check of a confirmation to its answer. `ControlAnswered` counts a caller that holds the
lock as one that is under way, so that a lock that is not given back shows.

A token is pending or gone here; expiry and eviction are in `Confirmations`.
The wait of twenty seconds is `MaxPolls` queries. `status` has the states
`parse_status` names; the ones it maps to `Unknown` (pausing, continuing) are
left out. `Check` may fail whatever the listing says. The audit entry that
follows the answer is the `record_action` of `ConfigTransaction`.

### `ProjectPage`, `Filtering`, `HistoryAndPageProofs`

The session table of `useProjectManager`: `sessionsById`,
`lastSessionByProfile`, the pending final events, and the asynchronous calls
that feed them. The backend is `SessionLifecycle` (`life`, `owner`), which
`CommandRunner` implements; `Runner!Register`, `RequestStop`, `Release`,
`Finish` and `Forget` are its steps.

| code | model |
|---|---|
| `invoke`, and the promise it returns | `calls`, `answers` |
| `emit("launch_output", final)` and the listener | `EventArrives`, or `EventMissed` before `listen` has registered |
| the effect at mount, its cleanup with `disposed` | `Remount`, `TakeStartup`, `TakeStale`; a mount has a number |
| `startProfile` and `startAll` between the click and the call | `asked`: token and dialog |
| `stopSession`, `stopAll` | `stops` |
| `rememberStartedSession`, `markSessionStopping`, `removeProfile` | `TakeStarted`, `TakeStopped`, `TakeRemoved` |

What the model takes for granted: synchronous commands run one at a time in
the order of the calls, and their answers are delivered in that order, so `calls` and `answers` are
queues; an answer is the call it belongs to and what it says. Nothing orders an event, which another thread emits, against an answer
on its way; the two travel differently, and a modal dialog may hold both up.
Reordering among answers is not modelled. Changing the route unmounts the page;
promises of the old instance go on, but set the state of a component that is
not there. `asked` and `stops` are sets in which nothing waits for another, so
they have every order of `startAll` and `stopAll` and more; the flag
`bulkAction` is not modelled. A stop that fails, a start that is refused or
cancelled, only shows a notice. Logs, notices and exit codes are left out, and
so is the choice of a project, which hides rows and changes none.

`heard` and `missed` are the final events the mount on screen has received and
has not, `told` the sessions an answer has named to it, `crossed` those whose
event overtook a list that still names them. `EndedIsShownEnded` and
`RunningStaysShown` say what holds without such a crossing; `page_crossed` is
what happens with one.

### `Detection`, `Settings`, `SettingsProofs`

`Detection` is `environment_detector` as operators: `Found` collects the paths
of a kind, `Merged` is `insert_path`, `Before` the order of validation,
`Listed` the loop with `seen_resolved`, `Detect` the whole list. A machine says
where paths are found and which executable each leads to; running it and
reading its version is that input (`real`, with `Broken` for anything that fails
validation). Only listings of all kinds are made, as the page does.
`Fingerprint` is the sequence of texts `detection_fingerprint` hashes, and the
hash is taken to be without collisions.

`Settings` is the backend's settings, overrides and cache, and the three parts
of the page that use them.

| code | model |
|---|---|
| `config.settings`, `config.manual_overrides`, `env_detection_cache` | `stored`, `overrides`, `cache` |
| `invoke`, and the promise it returns | `calls`, `answers`; a call carries what the function that awaits it has in its locals |
| the commands | `RunGet`, `RunSave`, `RunImport`, `RunOverride`, `RunList`; `CacheExpires` |
| `persistTheme` between its calls | `ChangeTheme` or the end of a reload, `TakePersist`, `TakePersisted` |
| `requestGenerationRef`, `loading`, `manualSaving`, `candidates`, `enabledKinds` | `generation` of each mount, `loading`, `saving`, `rows`, `enabled` |
| `load`, `onSaveManual` between their calls | `Load`, `TakeLoad`, `TakeRows`, `SaveManual`, `TakeManual` |
| `settings` and the texts of the form, `settingsReady`, `operationBusyRef` | `form`, `ready`, `busy` |
| `onSaveSettings`, the imports, `reloadSettingsFromConfig` | `SaveForm`, `Import`, `TakeOperated`, `TakeReload` |

As in `ProjectPage`, commands run one at a time in the order of the calls and
answers arrive in that order; a function whose page was left goes on and sets
nothing, and the theme, which no page owns, is still changed. A save may be
refused by `normalize_settings` or fail at the disk; an import and an override
may fail for reasons outside this module. The protected names stand for all
lists that are tidied (`Tidied`), hints and disabled kinds are what detection
uses. Left out: the other fields of the form, export, the audit list that is
read after a save, the spelling and default of the override that is typed,
pages on which none of this happens. The machine does not change in a run.

`promised` is what the settings page was told is saved, and `overlapped` what
changes of the theme had read by then and not written yet (`Carried`). The switch of
the theme reads all settings, waits for the answer and writes them back, so what
is saved in between is undone, which the run reaches; no text of the repository
promises otherwise. `SettingsKeptApart` bounds the damage: what is stored is what
was saved, or exactly what such a change had read, with its names tidied.
`RowsAreCurrent` says what holds without an overlap.
`PagesComeToRest` is liveness stated on the states in which
nothing is under way any more, which every run reaches when the user stops:
every command is answered and every answer is taken.

## Runs

| run | instance | question |
|---|---|---|
| `runner_race` | 2 callers, 2 sessions of 1 profile, history of 1, symmetric | every interleaving of two starts with their failures, stops, exits, failed waits, reused ids, and of wait threads that evict one another |
| `runner_progress` | 2 callers, 1 session with descendants | are exits reported, and does a stopped or ended session lose its whole tree |
| `config_file` | logs of at most 2 events and an imported one of 3, 2 events recorded, 3 days, 2 retentions | is what was written listed, and are the files durable under it, with crash, failure and damage at every step and a clock that may be set |
| `config_commands` | 2 callers, 2 slots of 1 project, no scan results, `upsert_project` alone | what the two locks give when commands overlap, fail and are cut short |
| `config_export` | 1 caller, 2 slots, 2 scan results, writes do not fail | violated: saves leave two profiles in one slot, and the export cannot be imported |
| `confirmations` | 2 callers, 3 tokens, room for 2, half seconds, clock that may be set, either kind of store | is a token used once and in time, and kept for its holder |
| `termination_reuse` | 1 caller, 1 token, 3 processes of one id, 2 of them alike | can a command end a process nobody confirmed |
| `service_control` | 2 callers, 1 service, 2 tokens, 1 query per wait beside the last | is what is sent confirmed, is Ok true, does anything come in between, does every command end |
| `page_table` | 1 profile, 2 sessions, history of 1, 2 mounts, 3 clicks | does the table agree with the sessions |
| `page_crossed` | 2 profiles, 2 sessions, 1 mount, 2 clicks | violated: a list that is older than a final event undoes it |
| `settings_pages` | 1 kind, 2 paths, 3 machines, 2 files to import, 3 mounts, 3 clicks | do the cache, the list and the form agree with the settings, and does every page come to rest |
| `project_launch` | 8 folders in 6 states of the disk, 1 scan, 1 change of the disk, 2 profiles, 2 tokens, 2 sessions, 1 save, 1 import, 5 edited files, symmetric | does a scan find what is there and stay inside, and is what is started what was shown, inside, and permitted, and which suggestions does a save refuse |

Bounds. Two sessions of one profile are a session and its successor, which is
what the entry and the handover are about, and one more than the history has
room for. Profiles do not interact in
the runner. Two callers give every pair of overlapping commands. `MaxTerminal`
and `MaxAuditEvents` stand for 64 and 200. Ids and events are used once, which
bounds the runs. Two slots of one project let a project be removed with one
profile running and one stored, and be imported with one slot twice. `Damage` and `Crash` are unbounded. Three tokens in a
store for two (256 in the code) give purge, eviction and a newcomer; a lifetime
of less than one second (60 and 120 seconds) with half-second ticks has the
rounding at both ends of the interval. Three processes of one id are the confirmed one, a lookalike
and a stranger, in any order, in two seconds: alike in the same second and in
different ones. Two sessions of one profile on a page that is entered twice have
a restart before, during and after the change of pages; three clicks are start,
stop or removal, and start again. In `project_launch` the folders are four levels (one below the reach of a scan),
one that is skipped, a link and two outside; the six disks have the link lead
back to the root, to a deeper folder, out of the project, into the skipped
folder and nowhere, with folders that were moved, cannot be listed or are gone,
and files that cannot be read. Scripts are named by a word, by two commands, by
quoted ones, with a quote left open and with blanks around. One change of the disk is before, during or after
any command, and two profiles and tokens give a confirmation
that is overtaken by a save, an import or an edit. The edited files hold a
chain, an open quote, a path to a shell, a leading `@` and a folder outside. One event more
than is kept, in the imported file and by recording, exercises both trims of the log;
days 0 to 2 with a retention of 1 or 2 have both sides of the cutoff.
The counters `MaxMounts` and `MaxClicks` only
stop the user. The page comes to rest when the user does, so `page_table`,
`page_crossed` and `settings_pages` do not check for deadlock. In the last,
two paths to one executable, one of them broken, and nothing at all are the
three machines, which have a merge, a duplicate, an invalid override and a
placeholder; kinds are detected apart from each other, so one is enough. Three mounts
are a settings page between two environments pages, or the reverse, and three
clicks an edit, its save and a change of the theme in any order. With one kind, an override
and a hint of the same path already have one fingerprint. One caller is enough for terminations, because what interferes is the
process table, whose steps are free; the theorems are for any number.

Fairness. A thread that can take its next step does so (`WF` of each caller's
and each wait thread's steps): operating system threads are scheduled, and no
step of theirs waits for anything but a lock or the exit of a process. Nothing
is assumed of the user, of the exit of a process, or of failures. In
`config_commands` a lock that is free again and again is obtained in the end
(`SF` of `LockTransaction`), because commands come from a user who does not keep
it taken forever. The other runs with liveness need no such assumption: in
`runner_progress` a single session leaves nothing to
start again, and in `service_control` a command exists once it has the lock.
Nothing makes a service reach the state asked for, which is why the timeout
must end the wait. In `page_table` both event loops, every wait thread and the
registration of the listener go on; the user need not do anything, and no
process has to exit.

### What the violated runs show

`config_export`: profiles of two scan results are stored in two slots. The
page lets the directory and the role of a scan result be edited, and saving the
second result in the slot of the first finds either profile; whichever is
overwritten, two profiles then share a slot or a scan result. The import refuses a file
with such a pair, so what is exported from then on cannot be imported, until one
of the two is removed. `config_commands` has no scan results and is not affected.

`page_crossed`: two sessions end together. The first final event makes the page
ask for the list, which still names the second session as running; that
session's own final event is delivered before the answer. The answer is merged
over what the event said, and the list the second event asks for does not name the session
(`list_active_launch_sessions` leaves ended ones out), so nothing sets it right: the
page shows a finished session as running until it is mounted again.

## Proofs

Each of these modules states an inductive invariant, proves that the initial
states have it and every step keeps it, for any values of the constants, and
takes the properties from it. The bounds that make a run finite are constants
like the others: a theorem holds whatever they are. The invariants were model-checked on the instances of the
runs before they were proved; most of them are not listed there, because
the runs list what one wants to know and the invariants are how it is known.
Library theorems are cited for finite sets and sequences.

`CommandRunnerProofs`, for any sets of callers, profiles and sessions under
`RunnerAssumption` (ids belong to profiles, the history has room for one):
`RunnerInv` is inductive (`RunnerInvariant`), and from it `TypeCorrect`,
`ProfileExclusion`, `EntriesExact`, `NoOrphans`, `Handover`, `HonestStop`, and
the refinement `RunnerImplementsLifecycle`. The safety properties are not
inductive alone. `start` reads `profile_running` in one critical section and
writes it in another, so "no two owners" needs to know that a caller between
the two holds the lifecycle lock (`CallerOK`); that a created process whose
assignment fails is ended needs to know that its job is still held by the caller
that made it (`SpawnedPCs`); the removal of an entry by the
wait thread is harmless only because its session is active until then and the
entry still names it (`SessionOK`, `RunningEntryIsOwner`). The proof goes
conjunct by conjunct (`TypeStep`, `CallerStep`, `SessionStep`,
`StopAnswerStep`, `EntryStep`), each with one step per action.

`HistoryBounded` (`HistoryKept`) has an invariant of its own, `HistoryInv`, on top
of `RunnerInv`: every terminal session is remembered, about to be, or popped by
a thread that has not removed it yet, and a thread pops one at most. The bound follows by
counting: sessions in the queue, and one for each thread between publication and
eviction. Cardinalities are about finite sets, so this theorem
takes the sessions of a run to be finitely many.

`HistoryAndPageProofs` is about `ConfigFile`, `AuditHistory` and `ProjectPage`, whose
proofs share the lemmas about `Filtering` and about queues. Files, for any set of
configurations under `FileAssumption`: `FileInvariant`, `BackupSafe`, and the
refinement `FileImplementsDurable`. The invariant records that the temporary
file is whole when it is moved, that `backup_current` still describes the main
file when it is used, and that the backup is readable while there is no main
file. Every step of the log is a step of `ConfigFile` or leaves the files alone
(`HistoryWritesFiles`), for any log, clock and maximum, and so the audit log has
the same three results (`HistoryFileInv`, `HistoryBackupSafe`,
`HistoryIsDurable`). Those need no invariant of their own.

The audit log, for any configurations, imports, retentions and maximum under
`HistoryAssumption` and `LogAssumption` as well: `HistoryInvariant`, and from it
`EventsAreListed` (`WrittenEventsAreListed`). `HistoryInv` says that what is due is
in what a start would load, in memory or the snapshot that a rollback will
restore (`Trusted`), and in the write under way as far as it will be due after it
(`KeptInv`). Age takes away only what is no longer due. That the maximum does so too
rests on two facts: what is due is among the last `MAX_AUDIT_EVENTS` recorded
(`DueInv`), and two events of a log differ in their numbers by no less than in their
positions (`Spread` in `LogsInv`), so that the recent ones are at the end, where
trimming leaves them. Filtering must therefore keep events, their order and
their nearness (`OnlyKeeps`).

The project page, for any sessions and profiles, any number of mounts and clicks,
and any limit of remembered events above zero, under `PageAssumption`:
`PageInvariant`, and from it `EndedIsNotActive` (`EndedIsShownEnded`) and
`RunningIsActive` (`RunningStaysShown`). `PageInv` is about what is on its way:
- the answer of a start comes before anything that names its session, or the
  session that has its profile by now (`StartsInv`), so that a late answer does not
  displace a successor;
- the first list of a mount comes before the page was told anything (`StartupInv`),
  so that replacing the table loses nothing;
- a list on its way names a session that has been heard of only if it was under
  way then, which `crossed` notes (`ListsInv`); that is the case `page_crossed`
  is about;
- while no more sessions were heard of than the page remembers, the event of one whose
  start is unanswered is still there when the answer comes (`EndedInv`, with the
  count of `PendingInv`);
- nothing speaks of a session that was not registered (`SeenInv`), and a stored
  owner is active (`OwnersInv`).

`PageKeepsLifecycle` adds that the commands of the page move sessions as
`SessionLifecycle` allows, which is what `RunnerImplementsLifecycle` proves of
`CommandRunner`: the two modules meet at one specification.

`ConfigTransactionProofs`, for any projects, profiles, sessions' starts, files, settings and
callers under `TransactionAssumption` and `ContentAssumption`:
`TransactionInvariant`, and from it `MemoryStaysValid`, `ProfileOutlivesSession`,
`RestartFindsMemory`, `LastEventKept` and `FailureLeavesNoTrace`, the last an
action property. They have the hypothesis `UpsertAlone`, that no command
overlaps `upsert_project`; without it they are false (see above), and the
run makes the same choice. The invariant is that what a command has checked stays true until it
writes: what a start or a save read, because the lifecycle lock keeps others
out (`CheckedInv`); the snapshot, because it was taken under the transaction
lock (`SnapshotInv`). Between the failed write of one command and its rollback others
may change memory, so `StoreInv` says that memory is fit to be restored except
then, and `SnapshotInv` that the snapshot is, and in which parts it may differ.

`ConfirmationsProofs`, for any callers, tokens, bindings, lifetime and bound
under `ConfirmationsAssumption`, and with a clock that may be set:
`StoreInvariant`, `BoundedAlways`, and the refinement `TokensAreOneShot`. Single
use rests on a token being in one place: a caller that compares a token has
removed it, no other caller has it, and it was not accepted (`HandInv`), although
in the process and service stores nothing is locked by then. With `TimeInv` come
`NoneIsUsedLate` (`NoLateUse`) and, for finitely many tokens,
`HoldersKeepTheirTokens` (`KeptUnlessCrowded`): while the clock goes forward and
issues do not overlap, the token that makes room for itself is the youngest,
so whatever it pushes out is older than as many as the store holds, and stays so.

`ProcessTerminationProofs`, for any processes, ids, images, callers and tokens
under `TerminationAssumption` and `NoneAssumption`: `TerminationInvariant`,
`OnlyConfirmedAreKilled`, `ProtectedAreSpared`. The invariant is that an id with
an open handle has one owner at most (`PinInv`), so what one read established is
still true of the process the next one sees (`CheckedInv`), and that a token's
binding names the process it was issued for (`BoundInv`).

`ServiceControlProofs`, for any callers, services, tokens, clock and number of polls
under `ServiceAssumption`: `ControlInvariant`, `OnlyConfirmedIsSent`
(`SentWasConfirmed`), and the action properties `OkMeansDone` (`OkIsHonest`) and
`NothingInBetween` (`ControlUndisturbed`). `Working`
says for each position of a command what its token has sent so far, so that the
second half of a restart knows that the stop was sent, or need not be; and that the
service was down before the second half of a restart began.

`SettingsProofs`, for any kinds, paths, machines, forms and files, and any number
of mounts and clicks, under `SettingsAssumption` and `DetectionAssumption`:
`SettingsInvariant`, `CacheIsTrue`, `SavedStaysSaved`, `NoPageIsLocked`,
`ShownIsCurrent` and `DetectionIsExact`. Calls and answers are two queues, so the
invariant is about all that is in transit: a page that waits has a call or an
answer under way that will end its waiting (`RestInv`), one override is saved at
a time (`SavingInv`), what was changed on the page before is run before this page
lists (`OrderInv`), and a listing on its way says what is so, or an override that
makes the page list again is behind it (`FreshInv`). Whatever a change of the theme
carries back is what was promised or was read before the promise (`ApartInv`).
`CacheIsTrue` needs no injective
fingerprint: a cache with an equal fingerprint is served only if nothing that
detection uses has changed, since every command that changes it drops the cache.
`DetectionIsExact` is about the operators of `Detection` alone: the loop over
the sorted paths with `seen_resolved` keeps the first entry of each executable
in the order `Before`.

`ProjectLaunchProofs`, for any folders, disks, profiles, commands, files to
import or edit, tokens and sessions under `ScanAssumption` (where a link leads is
where it ends), `PolicyAssumption` (blocked entry points are words) and
`LaunchAssumption`: `LaunchInvariant`, and from it
- `ScanStaysInside` and `ScanIsExact`. That candidates lie inside the root rests
  on every call of the recursion being about a folder inside it, and the bound
  of the recursion on a walk being entered only from a level that may descend
  (`ScanInv`). That nothing is missed rests on `ExactInv`: each folder an entry
  of an open call leads to is still to be visited, being visited, or was
  searched with all that is reached from it in the levels left (`Covered`); a
  folder reached again by a link, perhaps at another level, adds nothing.
  The proof needs what `ReachedFrom` computes level by level (`ReachedLevels`,
  `ReachedDown`, `ReachedPlaces`) and that marking the conflicts at the end is
  marking each folder by its files (`MarkedIsExpected`).
- `OnlyTheConfirmedIsStarted`. A command between consuming its token and spawning
  knows that the token is spent on exactly this, and that no session has it
  (`CommandOK`, `TokensOK`).
- `StartsInside`: the folder lies within the root from its resolution on, and still
  leads to itself if nothing moved since.
- `OnlyPermittedIsStarted`. Every command line a session was started with has passed the
  policy when the start began (`RunsOK`), and the policy does what is asked
  (`PolicyHolds`): the scan is within quotes exactly when it has passed an odd
  number of them (`QuotesInPairs`), and a path that ends in a blocked word has
  it as its base name (`BlockedBaseName`).
- `SuggestionsAreSavable`, for scripts of any name: `npm run` and a name pass the
  policy exactly if they are no chain (`TrimmedEnd`, `ChainsAreRefused`,
  `ToolAndScript`), and what is suggested for Java and Rust always passes. That none of
  the tools is a blocked word, as in the lists of the code, is in `LaunchAssumption`.

Functions defined by recursion (`ReachedFrom`, `InDoubleQuotes`, `OnlyUpTo`) are reasoned
about by a least counterexample: the lemma `Least`, that a set of naturals has a least element, takes
the place of induction, and the solution of the recursive equation is given
explicitly.

Only model-checked: liveness (`ExitIsReported`, `TreeEnds`, `CommandAnswered`,
`ControlAnswered`, `LastSessionSettles`), because fairness is out of the
prover's reach. Every other property of a passing run is a theorem.

## Not modelled

Output lines; rendering and formatting; hashing of ids and digests, which are taken to
be without collisions; the detector's running of executables; runtime items, a
read-only join of sessions, processes and ports; the pages of ports, processes, services
and projects, whose request generations have the form of those in `Settings`;
recent errors, recorded and listed as audit events are; the limits of each
settings field; the spelling of imported paths (case, separators, extended prefixes);
the spike and the workflows.

## What could follow

- The choice of a project on its page under `projectContextGeneration`.
- The export to a file, and the checks of its target (`commands.rs`).
- `CommandRunner` in place of `SessionLifecycle` under `ConfigTransaction`, so that
  "active" is what the runner says at each of its steps.
