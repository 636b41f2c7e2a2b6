------------------------------ MODULE Settings ------------------------------
(***************************************************************************)
(* The settings and the three parts of the page that read and write them:  *)
(* the theme (ThemeContext), which is always there, the settings page and  *)
(* the environments page, one of which may be on screen. The backend keeps *)
(* the settings, the manual overrides and the cache of detected runtimes.  *)
(*                                                                         *)
(* Tauri runs the commands one at a time in the order they were called,    *)
(* and their answers reach the page in that order. An asynchronous function*)
(* goes on when its answer arrives, also when its page was left.           *)
(***************************************************************************)
EXTENDS Detection

CONSTANTS
  Themes,
  Lists,         \* what may be typed as extra protected process names
  Tidied,        \* what normalize_settings makes of it, or Refused
  Refused,
  Machines,      \* machines to detect on
  Imports,       \* files a user may import: [settings, overrides]
  FirstSettings, \* the settings at the start
  DefaultForm,   \* DEFAULT_SETTINGS of the settings page
  NoCache, NoPromise,
  MaxMounts,     \* bound: how often a page is opened
  MaxClicks      \* bound: what else the user does

\* A path per kind, or none: manual_overrides and the hints of the settings.
PathChoices == [Kinds -> Paths \cup {NoPath}]

AppSettings ==
  [theme : Themes, guarded : Lists, hints : PathChoices, disabled : SUBSET Kinds]

ASSUME SettingsAssumption ==
  /\ Tidied \in [Lists -> Lists \cup {Refused}]
  /\ \A l \in Lists : Tidied[l] # Refused => Tidied[Tidied[l]] = Tidied[l]
  /\ {FirstSettings, DefaultForm} \subseteq AppSettings
  /\ Imports \subseteq [settings : AppSettings, overrides : PathChoices]
  /\ \A m \in Machines, k \in Kinds :
       m.where[k] \cup m.path[k] \cup m.registry[k] \subseteq Paths
  /\ {MaxMounts, MaxClicks} \subseteq Nat

VARIABLES
  stored,      \* AppSettings
  overrides,   \* manual_overrides
  cache,       \* env_detection_cache
  machine,
  calls,       \* commands called and not yet run
  answers,     \* commands run and not yet answered
  theme,       \* the theme on screen
  page, mount, \* the page on screen, and how many were opened before it
  generation,  \* requestGenerationRef of each mount of the environments page
  loading, saving, rows, enabled,  \* state of the environments page
  form, ready, busy,               \* state of the settings page
  clicks,
  promised,    \* history: what the settings page saved or imported last
  overlapped   \* history: what changes of the theme had read by then, to write back

backendVars == <<stored, overrides, cache, machine>>
wireVars    == <<calls, answers>>
routeVars   == <<page, mount>>
envVars     == <<generation, loading, saving, rows, enabled>>
formVars    == <<form, ready, busy>>
history     == <<promised, overlapped>>
vars == <<backendVars, wireVars, theme, routeVars, envVars, formVars, clicks, history>>

-----------------------------------------------------------------------------

Fields == {"guarded", "hints", "disabled"}

\* Settings without their theme.
Others(s) == [f \in Fields |-> s[f]]

\* normalize_settings accepts or refuses, and cleans up what was typed.
Acceptable(s) == Tidied[s.guarded] # Refused
Normalized(s) == [s EXCEPT !.guarded = Tidied[@]]

\* What detection looks at.
Detecting == [overrides |-> overrides, hints |-> stored.hints, disabled |-> stored.disabled]

\* A call: the function that waits for it, the mount it belongs to, and what
\* that function needs when it goes on.
Call(op, by, m, arg) == [op |-> op, by |-> by, mount |-> m, arg |-> arg]

\* The program starts on another page; ThemeProvider asks for the settings.
Init ==
  /\ stored = FirstSettings
  /\ overrides = [k \in Kinds |-> NoPath]
  /\ cache = NoCache
  /\ machine \in Machines
  /\ calls = <<Call("get", "theme", 0, NoPath)>>
  /\ answers = <<>>
  /\ theme \in Themes
  /\ page = "other"
  /\ mount = 0
  /\ generation = [m \in 1 .. MaxMounts |-> 0]
  /\ loading = FALSE
  /\ saving = FALSE
  /\ rows = {}
  /\ enabled = Kinds
  /\ form = DefaultForm
  /\ ready = FALSE
  /\ busy = FALSE
  /\ clicks = 0
  /\ promised = NoPromise
  /\ overlapped = {}

-----------------------------------------------------------------------------
(* Commands, run by the backend.                                           *)

IsNext(op) == calls # <<>> /\ Head(calls).op = op

\* A record with these fields added.
With(r, fields) ==
  [f \in DOMAIN r \cup DOMAIN fields |->
     IF f \in DOMAIN fields THEN fields[f] ELSE r[f]]

\* The call at the head is run and its answer is on the way.
Answered(fields) ==
  /\ calls' = Tail(calls)
  /\ answers' = Append(answers, With(Head(calls), fields))
  /\ UNCHANGED <<machine, theme, routeVars, envVars, formVars, clicks>>

Failed == Answered([ok |-> FALSE]) /\ UNCHANGED <<stored, overrides, cache, history>>

RunGet ==
  /\ IsNext("get")
  /\ Answered([settings |-> stored])
  /\ UNCHANGED <<stored, overrides, cache, history>>

\* Variant: the cache is kept, its fingerprint has to tell.
CacheLeft == UNCHANGED cache

\* invalidate_env_detection_cache
Invalidate == cache' = NoCache

\* The settings that changes of the theme have read and not written yet.
Carried ==
  {answers[i].settings :
     i \in {j \in DOMAIN answers : answers[j].op = "get" /\ answers[j].by = "persist"}}
  \cup
  {calls[i].arg.settings :
     i \in {j \in DOMAIN calls : calls[j].op = "save" /\ calls[j].by = "persist"}}

\* What the settings page is told is saved.
Promise(s) ==
  /\ promised' = Others(s)
  /\ overlapped' = {Others(Normalized(c)) : c \in Carried}

\* save_app_settings_safe; with_config_rollback undoes a write that fails.
RunSave ==
  /\ IsNext("save")
  /\ \/ /\ Acceptable(Head(calls).arg.settings)
        /\ stored' = Normalized(Head(calls).arg.settings)
        /\ Invalidate
        /\ IF Head(calls).by = "form" THEN Promise(stored') ELSE UNCHANGED history
        /\ Answered([ok |-> TRUE])
        /\ UNCHANGED overrides
     \/ Failed

\* import_app_config_safe and import_app_config_from_path_safe.
RunImport ==
  /\ IsNext("import")
  /\ LET file == Head(calls).arg IN
       \/ /\ Acceptable(file.settings)
          /\ stored' = Normalized(file.settings)
          /\ overrides' = file.overrides
          /\ Invalidate
          /\ Promise(stored')
          /\ Answered([ok |-> TRUE])
       \/ Failed

\* save_manual_override_safe: the kind must be enabled and the path must pass
\* validation.
RunOverride ==
  /\ IsNext("override")
  /\ LET given == Head(calls).arg IN
       \/ /\ given.kind \in Enabled(Detecting)
          /\ machine.real[given.path] # Broken
          /\ overrides' = [overrides EXCEPT ![given.kind] = given.path]
          /\ Invalidate
          /\ Answered([ok |-> TRUE])
          /\ UNCHANGED <<stored, history>>
       \/ Failed

\* cached_environment_candidates finds an entry that may be served.
Cached == cache # NoCache /\ cache.fingerprint = Fingerprint(Detecting)

\* list_environment_candidates
RunList ==
  /\ IsNext("list")
  /\ IF Cached /\ ~Head(calls).arg.force
     THEN Answered([rows |-> cache.rows]) /\ UNCHANGED cache
     ELSE LET found == Detect(Detecting, machine) IN
            /\ cache' = [fingerprint |-> Fingerprint(Detecting), rows |-> found]
            /\ Answered([rows |-> found])
  /\ UNCHANGED <<stored, overrides, history>>

\* ENV_DETECTION_CACHE_TTL passes.
CacheExpires ==
  /\ cache # NoCache
  /\ cache' = NoCache
  /\ UNCHANGED <<stored, overrides, machine, wireVars, theme, routeVars, envVars,
                 formVars, clicks, history>>

-----------------------------------------------------------------------------
(* The theme.                                                              *)

Click == clicks < MaxClicks /\ clicks' = clicks + 1

\* persistTheme: the theme is shown, and the settings are read to write it.
\* The operation of mount m of the settings page waits for it; 0 is none.
Persist(next, m) ==
  /\ theme' = next
  /\ calls' = Append(calls, Call("get", "persist", m, next))

\* The switch in the sidebar, and the choice on the settings page.
ChangeTheme(next) ==
  /\ Click
  /\ next # theme
  /\ Persist(next, 0)
  /\ UNCHANGED <<backendVars, answers, routeVars, envVars, formVars, history>>

\* The answer at the head is the one this function waits for.
Arrives(op, by) == answers # <<>> /\ Head(answers).op = op /\ Head(answers).by = by

Taken ==
  /\ answers' = Tail(answers)
  /\ UNCHANGED <<backendVars, routeVars, clicks, history>>

OnScreen == Head(answers).mount = mount

\* An operation of the settings page ends.
EndOperation(m) == busy' = (busy /\ m # mount)

TakeTheme ==
  /\ Arrives("get", "theme")
  /\ theme' = Head(answers).settings.theme
  /\ Taken
  /\ UNCHANGED <<calls, envVars, formVars>>

\* Variant: the default form is written with the theme.
WithThemeDefault(s, next) == [DefaultForm EXCEPT !.theme = next]

\* The settings as they were read, with the theme of the moment.
WithTheme(s, next) == [s EXCEPT !.theme = next]

TakePersist ==
  /\ Arrives("get", "persist")
  /\ LET read == Head(answers).settings
         next == Head(answers).arg
         m == Head(answers).mount
     IN
       IF read.theme = next
       THEN EndOperation(m) /\ UNCHANGED calls
       ELSE /\ calls' = Append(calls, Call("save", "persist", m,
                                           [settings |-> WithTheme(read, next)]))
            /\ UNCHANGED busy
  /\ Taken
  /\ UNCHANGED <<theme, envVars, form, ready>>

\* An error is not reported.
TakePersisted ==
  /\ Arrives("save", "persist")
  /\ EndOperation(Head(answers).mount)
  /\ Taken
  /\ UNCHANGED <<calls, theme, envVars, form, ready>>

-----------------------------------------------------------------------------
(* Changing pages: what is left is unmounted, what is opened begins anew.  *)

\* The cleanup of the environments page makes its generation stale.
Left ==
  IF page = "environments"
  THEN [generation EXCEPT ![mount] = @ + 1] ELSE generation

Mounted(p) ==
  /\ mount < MaxMounts
  /\ page # p
  /\ page' = p
  /\ mount' = mount + 1
  /\ saving' = FALSE
  /\ rows' = {}
  /\ enabled' = Kinds
  /\ form' = DefaultForm
  /\ ready' = FALSE
  /\ busy' = FALSE
  /\ UNCHANGED <<backendVars, answers, theme, clicks, history>>

\* What a listing carries from the call of load to its end.
Listing(g, force, saves) == [generation |-> g, force |-> force, saves |-> saves]

OpenEnvironments ==
  /\ Mounted("environments")
  /\ generation' = [Left EXCEPT ![mount'] = 1]
  /\ loading' = TRUE
  /\ calls' = Append(calls, Call("get", "load", mount', Listing(1, FALSE, FALSE)))

OpenSettings ==
  /\ Mounted("settings")
  /\ generation' = Left
  /\ loading' = FALSE
  /\ calls' = Append(calls, Call("get", "form", mount', NoPath))

-----------------------------------------------------------------------------
(* The environments page.                                                  *)

NextGeneration(m) == generation[m] + 1

\* load: a new generation, and the settings are read first.
Load(m, force, saves) ==
  /\ generation' = [generation EXCEPT ![m] = NextGeneration(m)]
  /\ loading' = (loading \/ m = mount)
  /\ calls' = Append(calls, Call("get", "load", m,
                                 Listing(NextGeneration(m), force, saves)))

Refresh ==
  /\ Click
  /\ page = "environments" /\ ~loading /\ ~saving
  /\ Load(mount, TRUE, FALSE)
  /\ UNCHANGED <<backendVars, answers, theme, routeVars, saving, rows, enabled,
                 formVars, history>>

\* onSaveManual
SaveManual(k, p) ==
  /\ Click
  /\ page = "environments" /\ ~loading /\ ~saving
  /\ k \in enabled
  /\ saving' = TRUE
  /\ calls' = Append(calls, Call("override", "manual", mount, [kind |-> k, path |-> p]))
  /\ UNCHANGED <<backendVars, answers, theme, routeVars, generation, loading, rows,
                 enabled, formVars, history>>

\* Variant: the page is not loaded again.
TakeManualQuietly ==
  /\ Arrives("override", "manual")
  /\ saving' = (saving /\ ~OnScreen)
  /\ Taken
  /\ UNCHANGED <<calls, theme, generation, loading, rows, enabled, formVars>>

TakeManual ==
  /\ Arrives("override", "manual")
  /\ IF Head(answers).ok
     THEN Load(Head(answers).mount, TRUE, TRUE) /\ UNCHANGED saving
     ELSE /\ saving' = (saving /\ ~OnScreen)
          /\ UNCHANGED <<generation, loading, calls>>
  /\ Taken
  /\ UNCHANGED <<theme, rows, enabled, formVars>>

\* The answer is for the load that was begun last by its mount.
IsLatest == Head(answers).arg.generation = generation[Head(answers).mount]

\* The saving of an override ends with the listing that follows it.
EndSaving == saving' = (saving /\ ~(OnScreen /\ Head(answers).arg.saves))

TakeLoad ==
  /\ Arrives("get", "load")
  /\ IF IsLatest
     THEN /\ calls' = Append(calls, Call("list", "load", Head(answers).mount,
                       With(Head(answers).arg,
                            [enabled |-> Kinds \ Head(answers).settings.disabled])))
          /\ UNCHANGED saving
     ELSE EndSaving /\ UNCHANGED calls
  /\ Taken
  /\ UNCHANGED <<theme, generation, loading, rows, enabled, formVars>>

\* visibleEnvironmentCandidates
Visible(r) == r.status # "invalid" \/ r.source = "manual"

\* Variant: loading stays on.
ShownStillLoading ==
  /\ rows' = {r \in Head(answers).rows : Visible(r)}
  /\ enabled' = Head(answers).arg.enabled
  /\ UNCHANGED loading

Shown ==
  /\ rows' = {r \in Head(answers).rows : Visible(r)}
  /\ enabled' = Head(answers).arg.enabled
  /\ loading' = FALSE

TakeRows ==
  /\ Arrives("list", "load")
  /\ IF IsLatest /\ OnScreen
     THEN Shown
     ELSE UNCHANGED <<loading, rows, enabled>>
  /\ EndSaving
  /\ Taken
  /\ UNCHANGED <<calls, theme, generation, formVars>>

-----------------------------------------------------------------------------
(* The settings page.                                                      *)

TakeForm ==
  /\ Arrives("get", "form")
  /\ IF OnScreen
     THEN form' = Head(answers).settings /\ ready' = TRUE
     ELSE UNCHANGED <<form, ready>>
  /\ Taken
  /\ UNCHANGED <<calls, theme, envVars, busy>>

MayOperate == page = "settings" /\ ready /\ ~busy

\* The user changes one field of the form.
Edit(f, value) ==
  /\ Click
  /\ MayOperate
  /\ form' = [form EXCEPT ![f] = value]
  /\ UNCHANGED <<backendVars, wireVars, theme, routeVars, envVars, ready, busy, history>>

EditAny ==
  \/ \E l \in Lists : Edit("guarded", l)
  \/ \E k \in Kinds, p \in Paths \cup {NoPath} :
       Edit("hints", [form.hints EXCEPT ![k] = p])
  \/ \E k \in Kinds :
       Edit("disabled", IF k \in form.disabled THEN form.disabled \ {k}
                                               ELSE form.disabled \cup {k})

\* runConfigOperation begins with one command.
Operate(op, arg) ==
  /\ Click
  /\ MayOperate
  /\ busy' = TRUE
  /\ calls' = Append(calls, Call(op, "form", mount, arg))
  /\ UNCHANGED <<backendVars, answers, theme, routeVars, envVars, form, ready, history>>

SaveForm == Operate("save", [settings |-> [form EXCEPT !.theme = theme]])
Import(file) == Operate("import", file)

\* After either the settings are read again, or the operation ends.
TakeOperated ==
  /\ Arrives("save", "form") \/ Arrives("import", "form")
  /\ LET m == Head(answers).mount IN
       IF Head(answers).ok
       THEN calls' = Append(calls, Call("get", "reload", m, NoPath)) /\ UNCHANGED busy
       ELSE EndOperation(m) /\ UNCHANGED calls
  /\ Taken
  /\ UNCHANGED <<theme, envVars, form, ready>>

\* reloadSettingsFromConfig fills the form and goes on to setTheme.
TakeReload ==
  /\ Arrives("get", "reload")
  /\ IF OnScreen
     THEN form' = Head(answers).settings
     ELSE UNCHANGED form
  /\ Persist(Head(answers).settings.theme, Head(answers).mount)
  /\ Taken
  /\ UNCHANGED <<envVars, ready, busy>>

-----------------------------------------------------------------------------

Runs == RunGet \/ RunSave \/ RunImport \/ RunOverride \/ RunList

Takes ==
  \/ TakeTheme \/ TakePersist \/ TakePersisted
  \/ TakeManual \/ TakeLoad \/ TakeRows
  \/ TakeForm \/ TakeOperated \/ TakeReload

User ==
  \/ \E t \in Themes : ChangeTheme(t)
  \/ OpenEnvironments \/ OpenSettings
  \/ Refresh
  \/ \E k \in Kinds, p \in Paths : SaveManual(k, p)
  \/ EditAny
  \/ SaveForm
  \/ \E file \in Imports : Import(file)

Next == Runs \/ Takes \/ User \/ CacheExpires

Spec == Init /\ [][Next]_vars

-----------------------------------------------------------------------------
(* Properties.                                                             *)

\* What the cache would serve is what a detection would find now, although
\* the fingerprint alone does not tell all settings apart.
CacheTellsTruth == Cached => cache.rows = Detect(Detecting, machine)

\* What is listed of kind k for settings c on machine m.
ListedExactly(k, c, m) ==
  LET listed == {r \in Detect(c, m) : r.kind = k}
      found  == Found(k, c, m)
      given  == c.overrides[k]
  IN
    /\ listed # {}
    /\ \A x \in {m.real[e[1]] : e \in found} \ {Broken} :
         LET ofX == {r \in listed : r.status = "valid" /\ m.real[r.path] = x} IN
         \E r \in ofX :
           /\ ofX = {r}
           /\ \A e \in found : m.real[e[1]] = x => Rank[r.source] <= Rank[e[2]]
    /\ given # NoPath => \E r \in listed : r.path = given /\ r.source = "manual"

\* Of every enabled kind: an executable that can be found is listed once,
\* with the best of the places that lead to it; a path the user has set is
\* always listed; and there is something to show.
DetectionExact == \A k \in Enabled(Detecting) : ListedExactly(k, Detecting, machine)

\* When the environments page is at rest, it shows the runtimes of the
\* settings and overrides as they are, whatever was saved on it or on the
\* page before it; unless a change of the theme was crossed (see below).
RowsAreCurrent ==
  page = "environments" /\ ~loading /\ ~saving /\ overlapped = {} =>
    /\ rows = Detect(Detecting, machine)
    /\ enabled = Enabled(Detecting)

\* What the settings page has saved or imported last is there, whatever themes
\* are chosen and written meanwhile; or a change of the theme that had read the
\* settings by then, and wrote them later, has undone it: then what is there is
\* exactly what that change had read, with its names tidied, and no mixture of
\* the two, nothing older and no default.
SettingsKeptApart ==
  promised # NoPromise => Others(stored) \in {promised} \cup overlapped

\* When every call has been run and every answer taken, neither page waits
\* for anything: no late, failed or dropped answer leaves it locked.
PagesComeToRest == calls = <<>> /\ answers = <<>> => ~loading /\ ~saving /\ ~busy

-----------------------------------------------------------------------------
(* The inductive invariant.                                                *)

TypeOK ==
  /\ stored \in AppSettings
  /\ overrides \in PathChoices
  /\ machine \in Machines
  /\ theme \in Themes
  /\ page \in {"other", "environments", "settings"}
  /\ mount \in 0 .. MaxMounts
  /\ page # "other" => mount # 0
  /\ generation \in [1 .. MaxMounts -> Nat]
  /\ form \in AppSettings
  /\ enabled \subseteq Kinds
  /\ {loading, saving, ready, busy} \subseteq BOOLEAN
  /\ clicks \in Nat

\* What a call on its way or answered says, by who made it; n is the number of
\* the last mount and g has the generations.
ItemOK(w, n, g) ==
  /\ w.mount \in 0 .. n
  /\ w.op \in {"get", "save", "import", "override", "list"}
  /\ w.op = "get" => w.by \in {"theme", "persist", "load", "form", "reload"}
  /\ w.op = "save" => w.by \in {"form", "persist"} /\ w.arg \in [settings : AppSettings]
  /\ w.op = "import" => w.by = "form" /\ w.arg \in Imports
  /\ w.op = "override" => w.by = "manual" /\ w.mount # 0 /\ w.arg \in [kind : Kinds, path : Paths]
  /\ w.op = "list" => w.by = "load" /\ w.arg.enabled \subseteq Kinds
  /\ w.op = "get" /\ w.by = "persist" => w.arg \in Themes
  /\ w.by = "load" =>
       /\ w.mount # 0
       /\ w.arg.generation \in 0 .. g[w.mount]
       /\ {w.arg.force, w.arg.saves} \subseteq BOOLEAN
       /\ w.op = "get" => DOMAIN w.arg = {"generation", "force", "saves"}

CallOK(w, n, g) == DOMAIN w = {"op", "by", "mount", "arg"} /\ ItemOK(w, n, g)

AnswerOK(w, n, g) ==
  /\ ItemOK(w, n, g)
  /\ w.op = "get" => w.settings \in AppSettings
  /\ w.op \in {"save", "import", "override"} => w.ok \in BOOLEAN

WireInv ==
  /\ calls \in Seq(Range(calls)) /\ answers \in Seq(Range(answers))
  /\ \A i \in DOMAIN calls : CallOK(calls[i], mount, generation)
  /\ \A i \in DOMAIN answers : AnswerOK(answers[i], mount, generation)

\* A cache is of the settings and overrides as they are: whatever changes them
\* drops it.
CacheInv ==
  cache # NoCache =>
    /\ cache.fingerprint = Fingerprint(Detecting)
    /\ cache.rows = Detect(Detecting, machine)

\* Settings read for a change of the theme that differ from the stored ones in
\* nothing but what tidying changes, and in nothing once a promise was made.
SameOthers(s) ==
  /\ s.hints = stored.hints
  /\ s.disabled = stored.disabled
  /\ promised # NoPromise => s.guarded = stored.guarded

\* Once a promise was made, the stored settings are tidy, and they and all that
\* may be written over them are what the promise allows.
ApartInv ==
  /\ overlapped = {} => \A s \in Carried : SameOthers(s)
  /\ promised # NoPromise =>
       /\ Tidied[stored.guarded] = stored.guarded
       /\ \A s \in Carried \cup {stored} :
            Others(Normalized(s)) \in {promised} \cup overlapped

\* Who is waited for: calls and answers, without what was answered.
Waiting(w) == Call(w.op, w.by, w.mount, w.arg)
InTransit ==
  {Waiting(calls[i]) : i \in DOMAIN calls} \cup {Waiting(answers[i]) : i \in DOMAIN answers}

IsListing(w) == w.by = "load" /\ w.mount = mount
IsLastListing(w) == IsListing(w) /\ w.arg.generation = generation[mount]
IsSaving(w) == w.mount = mount /\ (w.op = "override" \/ (w.by = "load" /\ w.arg.saves))
IsOperation(w) ==
  w.mount = mount /\ (w.op \in {"save", "import"} \/ w.by \in {"reload", "persist"})

\* A page that waits is waiting for something.
RestInv ==
  /\ loading => \E w \in InTransit : IsLastListing(w)
  /\ saving => \E w \in InTransit : IsSaving(w)
  /\ busy => \E w \in InTransit : IsOperation(w)

\* One override is saved at a time, and saving lasts until it is listed.
SavingInv ==
  /\ \A i \in DOMAIN calls : IsSaving(calls[i]) =>
       /\ saving
       /\ \A j \in DOMAIN calls : IsSaving(calls[j]) => i = j
       /\ \A j \in DOMAIN answers : ~IsSaving(answers[j])
  /\ \A i \in DOMAIN answers : IsSaving(answers[i]) =>
       /\ saving
       /\ \A j \in DOMAIN answers : IsSaving(answers[j]) => i = j

\* What was saved before the environments page was opened is run before its
\* first listing.
OldChange(w) ==
  \/ w.op = "import"
  \/ w.op = "save" /\ w.by = "form"
  \/ w.op = "override" /\ w.mount # mount

OrderInv ==
  page = "environments" =>
    \A i \in DOMAIN calls : OldChange(calls[i]) =>
      /\ loading
      /\ \A j \in DOMAIN answers : ~IsListing(answers[j])
      /\ \A j \in DOMAIN calls : IsListing(calls[j]) => i < j /\ calls[j].op = "get"

\* An override of the page was saved, and the page does not know yet.
Overridden ==
  \E i \in DOMAIN answers :
    answers[i].op = "override" /\ answers[i].mount = mount /\ answers[i].ok

\* What a listing on its way or on the page says is so.
FreshInv ==
  page = "environments" /\ overlapped = {} =>
    /\ \A i \in DOMAIN answers : IsListing(answers[i]) =>
         /\ answers[i].op = "get" => answers[i].settings.disabled = stored.disabled
         /\ answers[i].op = "list" => answers[i].arg.enabled = Enabled(Detecting)
         /\ answers[i].op = "list" /\ IsLastListing(answers[i]) =>
              answers[i].rows = Detect(Detecting, machine) \/ Overridden
    /\ \A i \in DOMAIN calls : IsListing(calls[i]) /\ calls[i].op = "list" =>
         calls[i].arg.enabled = Enabled(Detecting)
    /\ ~loading =>
         /\ enabled = Enabled(Detecting)
         /\ rows = Detect(Detecting, machine) \/ Overridden

SettingsInv ==
  /\ TypeOK /\ WireInv /\ CacheInv /\ ApartInv
  /\ RestInv /\ SavingInv /\ OrderInv /\ FreshInv

=============================================================================
