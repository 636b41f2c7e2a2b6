------------------------ MODULE ConfigTransactionProofs ------------------------
(***************************************************************************)
(* Theorems about the configuration commands, for any projects, profiles,  *)
(* imports and callers. TransactionInv is inductive if no command runs     *)
(* beside upsert_project.                                                  *)
(***************************************************************************)
EXTENDS ConfigTransaction, SequenceTheorems, TLAPS

-----------------------------------------------------------------------------
(* What the commands make of a configuration.                              *)

\* The arguments a command of each name comes with.
LEMMA CallFields ==
  ASSUME NEW k \in Calls
  PROVE  /\ k.op \in {"upsert_project", "remove_project", "save_profile", "remove_profile",
                      "start", "save_settings", "import", "record_action"}
         /\ k.op \in {"upsert_project", "remove_project"} => k.project \in Projects
         /\ (k.op = "save_profile") => k.profile \in ProfileRecords
         /\ k.op \in {"remove_profile", "start"} => k.profile \in Profiles
         /\ (k.op = "save_settings") => k.settings \in Settings
         /\ (k.op = "import") => k.content \in Configs
         /\ (k.op = "record_action") => k.event \in Events
BY ContentAssumption DEF Calls

\* What append_audit_event makes of the log: a log that ends in the event.
LEMMA AppendedEndsLog ==
  ASSUME NEW log \in Seq(Events), NEW e \in Events
  PROVE  Appended(log, e) \in Seq(Events) /\ EndsLog(e, Appended(log, e))
<1> DEFINE longer == Append(log, e)
<1>1. longer \in Seq(Events) /\ Len(longer) = Len(log) + 1 /\ longer[Len(longer)] = e
  OBVIOUS
<1>2. CASE Len(longer) > MaxAuditEvents
  <2>1. Len(longer) > 1 /\ longer # <<>>
    BY <1>1, <1>2, TransactionAssumption
  <2>2. /\ Tail(longer) \in Seq(Events)
        /\ Len(Tail(longer)) = Len(longer) - 1
        /\ \A i \in 1 .. Len(longer) - 1 : Tail(longer)[i] = longer[i + 1]
    BY <1>1, <2>1
  <2> HIDE DEF longer
  <2>3. Tail(longer) # <<>> /\ Tail(longer)[Len(Tail(longer))] = e
    BY <1>1, <2>1, <2>2
  <2> QED
    BY <1>2, <2>2, <2>3 DEF Appended, EndsLog, longer
<1>3. CASE ~(Len(longer) > MaxAuditEvents)
  <2>1. longer # <<>>
    BY <1>1
  <2> QED
    BY <1>1, <1>3, <2>1 DEF Appended, EndsLog
<1> QED
  BY <1>2, <1>3

\* A configuration is a record of its four fields.
LEMMA ConfigFields ==
  ASSUME NEW cfg \in Configs
  PROVE  /\ cfg.projects \in SUBSET Projects
         /\ cfg.profiles \in [Profiles -> ProfileRecords \cup {NoProfile}]
         /\ cfg.settings \in Settings
         /\ cfg.audit \in Seq(Events)
BY DEF Configs

\* The owner of a stored profile is the project of its slot.
LEMMA OwnerType ==
  ASSUME NEW cfg \in Configs, NEW f \in Profiles, Stored(cfg, f)
  PROVE  cfg.profiles[f] \in ProfileRecords /\ OwnerOf(cfg, f) \in Projects
BY TransactionAssumption DEF Configs, Stored, OwnerOf, ProfileRecords

\* What a command makes of cfg, field by field.
IsResult(k, f, cfg, new) ==
  /\ new \in Configs
  /\ (k.op \notin {"upsert_project", "remove_project", "import"}) => new.projects = cfg.projects
  /\ (k.op = "upsert_project") => new.projects = cfg.projects \cup {k.project}
  /\ (k.op = "remove_project") =>
       new.projects = cfg.projects \ {k.project} /\ new.profiles = Remaining(cfg, k.project)
  /\ (k.op = "save_profile") => new.profiles = [cfg.profiles EXCEPT ![f] = k.profile]
  /\ (k.op = "remove_profile") => new.profiles = [cfg.profiles EXCEPT ![k.profile] = NoProfile]
  /\ (k.op \notin LifecycleOps) => new.profiles = cfg.profiles
  /\ (k.op = "import") => new = k.content
  /\ (k.op = "save_settings") => new = [cfg EXCEPT !.settings = k.settings]
  /\ (k.op = "record_action") => 
       UserPart(new) = UserPart(cfg) /\ new.audit = Appended(cfg.audit, k.event)
  /\ (k.op \notin {"record_action", "import"}) => new.audit = cfg.audit

\* The result of a command is a configuration that differs in its own fields only.
LEMMA ResultFields ==
  ASSUME NEW k \in Calls, k.op # "start", NEW cfg \in Configs,
         NEW f, k.op = "save_profile" => f \in Profiles
  PROVE  IsResult(k, f, cfg, Result(k, f, cfg))
<1> USE ConfigFields, CallFields DEF LifecycleOps
<1>1. CASE k.op = "upsert_project"
  BY <1>1 DEF Result, IsResult, Configs
<1>2. CASE k.op = "remove_project"
  <2>1. Remaining(cfg, k.project) \in [Profiles -> ProfileRecords \cup {NoProfile}]
    BY DEF Remaining
  <2> QED
    BY <1>2, <2>1 DEF Result, IsResult, Configs
<1>3. CASE k.op = "save_profile"
  BY <1>3 DEF Result, IsResult, Configs
<1>4. CASE k.op = "remove_profile"
  BY <1>4 DEF Result, IsResult, Configs
<1>5. CASE k.op = "save_settings"
  BY <1>5 DEF Result, IsResult, Configs
<1>6. CASE k.op = "import"
  BY <1>6 DEF Result, IsResult, Configs
<1>7. CASE k.op = "record_action"
  BY <1>7, AppendedEndsLog DEF Result, IsResult, Configs, UserPart
<1> QED
  BY <1>1, <1>2, <1>3, <1>4, <1>5, <1>6, <1>7

\* No command but an import makes an invalid configuration of a valid one, if
\* a profile is saved for a project that is there.
LEMMA ResultValid ==
  ASSUME NEW k \in Calls, k.op \notin {"start", "import"}, NEW cfg \in Configs, Valid(cfg),
         NEW f, k.op = "save_profile" => f \in Profiles /\ ProjectOf[k.profile.slot] \in cfg.projects
  PROVE  Valid(Result(k, f, cfg))
<1> DEFINE new == Result(k, f, cfg)
<1>0. IsResult(k, f, cfg, new)
  BY ResultFields
<1> HIDE DEF new
<1> SUFFICES ASSUME NEW g \in Profiles, Stored(new, g)
             PROVE  OwnerOf(new, g) \in new.projects
  BY DEF Valid, new
<1> USE <1>0, CallFields, ConfigFields DEF IsResult
<1>1. CASE k.op = "upsert_project"
  <2>1. new.profiles = cfg.profiles /\ cfg.projects \subseteq new.projects
    BY <1>1 DEF LifecycleOps
  <2> QED
    BY <2>1 DEF Valid, Stored, OwnerOf
<1>2. CASE k.op = "remove_project"
  <2>1. new.profiles[g] = IF Stored(cfg, g) /\ OwnerOf(cfg, g) = k.project
                          THEN NoProfile ELSE cfg.profiles[g]
    BY <1>2 DEF Remaining
  <2>2. Stored(cfg, g) /\ OwnerOf(cfg, g) # k.project /\ OwnerOf(new, g) = OwnerOf(cfg, g)
    BY <2>1 DEF Stored, OwnerOf
  <2>3. new.projects = cfg.projects \ {k.project}
    BY <1>2
  <2> QED
    BY <2>2, <2>3 DEF Valid
<1>3. CASE k.op = "save_profile"
  <2>1. new.projects = cfg.projects /\ new.profiles = [cfg.profiles EXCEPT ![f] = k.profile]
    BY <1>3
  <2>2. CASE g = f
    BY <1>3, <2>1, <2>2 DEF OwnerOf
  <2>3. CASE g # f
    <3>1. new.profiles[g] = cfg.profiles[g]
      BY <2>1, <2>3
    <3> QED
      BY <2>1, <3>1 DEF Valid, Stored, OwnerOf
  <2> QED
    BY <2>2, <2>3
<1>4. CASE k.op = "remove_profile"
  <2>1. new.projects = cfg.projects /\ new.profiles = [cfg.profiles EXCEPT ![k.profile] = NoProfile]
    BY <1>4
  <2>2. new.profiles[g] = cfg.profiles[g]
    BY <1>4, <2>1 DEF Stored
  <2> QED
    BY <2>1, <2>2 DEF Valid, Stored, OwnerOf
<1>5. CASE k.op \in {"save_settings", "record_action"}
  <2>1. new.projects = cfg.projects /\ new.profiles = cfg.profiles
    BY <1>5 DEF LifecycleOps
  <2> QED
    BY <2>1 DEF Valid, Stored, OwnerOf
<1> QED
  BY <1>1, <1>2, <1>3, <1>4, <1>5

\* Validity and the profiles of sessions do not depend on settings and log.
LEMMA SameProfilesKeep ==
  ASSUME NEW cfg, NEW new, new.profiles = cfg.profiles, KeepsRunning(cfg)
  PROVE  KeepsRunning(new)
BY DEF KeepsRunning

\* What a command was allowed to do leaves the profiles of running sessions.
LEMMA ResultKeeps ==
  ASSUME NEW k \in Calls, k.op # "start", config \in Configs, KeepsRunning(config),
         NEW f, k.op = "save_profile" => f \in Profiles /\ MayProceed(k, f),
         k.op \in {"remove_project", "remove_profile", "import"} => MayProceed(k, NoProfile)
  PROVE  KeepsRunning(Result(k, f, config))
<1> DEFINE new == Result(k, f, config)
<1>0. IsResult(k, f, config, new)
  BY ResultFields
<1> HIDE DEF new
<1> SUFFICES ASSUME NEW g \in Profiles, running[g] # NoProfile
             PROVE  new.profiles[g] = config.profiles[g]
  BY DEF KeepsRunning, new
<1> USE <1>0, CallFields, ConfigFields DEF IsResult
<1>1. CASE k.op \notin LifecycleOps
  BY <1>1
<1>2. CASE k.op = "remove_project"
  <2>1. Stored(config, g) => OwnerOf(config, g) # k.project
    BY <1>2 DEF MayProceed
  <2> QED
    BY <1>2, <2>1 DEF Remaining
<1>3. CASE k.op = "save_profile"
  <2>1. running[f] = NoProfile
    BY <1>3 DEF MayProceed
  <2> QED
    BY <1>3, <2>1
<1>4. CASE k.op = "remove_profile"
  <2>1. running[k.profile] = NoProfile
    BY <1>4 DEF MayProceed
  <2> QED
    BY <1>4, <2>1
<1>5. CASE k.op = "import"
  BY <1>5 DEF MayProceed
<1> QED
  BY <1>1, <1>2, <1>3, <1>4, <1>5 DEF LifecycleOps

-----------------------------------------------------------------------------
(* The invariant.                                                          *)

\* At the start everything is as AppConfig::default has it.
LEMMA TransactionInit == Init => TransactionInv
<1> SUFFICES ASSUME Init PROVE TransactionInv
  OBVIOUS
<1>1. Default \in Configs /\ Valid(Default)
  BY TransactionAssumption, ContentAssumption DEF Default, Configs, Valid, Stored
<1>2. TypeOK
  BY <1>1 DEF Init, TypeOK
<1>3. CommandInv /\ HolderInv /\ UpsertInv /\ CheckedInv /\ SnapshotInv
  BY TransactionAssumption
     DEF Init, CommandInv, HolderInv, UpsertInv, CheckedInv, Checked, SnapshotInv, Kept,
         TransactionPCs
<1>4. StoreInv
  BY <1>1 DEF Init, StoreInv, KeepsRunning, Restorable
<1> QED
  BY <1>2, <1>3, <1>4 DEF TransactionInv

\* A command is called.
LEMMA BeginStep ==
  ASSUME UpsertAlone, TransactionInv, NEW c \in Callers, NEW k \in Calls, Begin(c, k)
  PROVE  TransactionInv'
<1> USE DEF TransactionInv, Begin, GoTo
<1>1. TypeOK'
  BY DEF TypeOK
<1>2. \A d \in Callers \ {c} : pc'[d] = pc[d] /\ call'[d] = call[d]
  BY DEF TypeOK
<1>3. pc'[c] = "check" /\ call'[c] = k /\ pc[c] = "idle"
  BY DEF TypeOK
<1>4. CommandInv'
  BY <1>2, <1>3, TransactionAssumption DEF TypeOK, CommandInv, HolderInv, TransactionPCs
<1>5. HolderInv'
  BY <1>2, <1>3, TransactionAssumption DEF TypeOK, HolderInv
<1>6. UpsertInv'
  BY <1>2, <1>3 DEF UpsertAlone, MayOverlap, UpsertInv
<1>7. CheckedInv'
  BY <1>2, <1>3 DEF CheckedInv, Checked, MayProceed
<1>8. SnapshotInv'
  BY <1>2, <1>3 DEF SnapshotInv, Kept, Restorable, KeepsRunning
<1>9. StoreInv'
  BY <1>2, <1>3 DEF StoreInv, Restorable, KeepsRunning
<1> QED
  BY <1>1, <1>4, <1>5, <1>6, <1>7, <1>8, <1>9

\* Returning drops the caller's locks and touches nobody else's.
LEMMA ReturnKeeps ==
  ASSUME TypeOK, CommandInv, HolderInv, UpsertInv, NEW c \in Callers, Return(c)
  PROVE  /\ pc'[c] = "idle"
         /\ pc' \in [Callers -> {"idle", "check", "launch", "lock"} \cup TransactionPCs]
         /\ DOMAIN call' = Callers /\ DOMAIN snapshot' = Callers /\ DOMAIN draft' = Callers
         /\ {lifecycle', tx'} \subseteq Callers \cup {NoCaller}
         /\ tx' # c
         /\ \A d \in Callers \ {c} :
              /\ pc'[d] = pc[d] /\ call'[d] = call[d]
              /\ snapshot'[d] = snapshot[d] /\ draft'[d] = draft[d]
              /\ (tx' = d) <=> (tx = d)
         /\ CommandInv' /\ HolderInv' /\ UpsertInv'
<1> USE TransactionAssumption DEF TypeOK, Return, GoTo, Unlock
<1>1. pc'[c] = "idle" /\ \A d \in Callers \ {c} : pc'[d] = pc[d]
  OBVIOUS
<1>2. \A d \in Callers \ {c} :
        call'[d] = call[d] /\ snapshot'[d] = snapshot[d] /\ draft'[d] = draft[d]
  OBVIOUS
<1>3. /\ lifecycle' # c /\ tx' # c
      /\ \A d \in Callers \ {c} : (lifecycle' = d <=> lifecycle = d) /\ (tx' = d <=> tx = d)
  OBVIOUS
<1>4. CommandInv' /\ HolderInv' /\ UpsertInv'
  BY <1>1, <1>2, <1>3 DEF CommandInv, HolderInv, UpsertInv
<1>5. {lifecycle', tx'} \subseteq Callers \cup {NoCaller}
  OBVIOUS
<1> QED
  BY <1>1, <1>2, <1>3, <1>4, <1>5

\* A command that gives up before its transaction leaves all as it was.
LEMMA GiveUpStep ==
  ASSUME TransactionInv, NEW c \in Callers, pc[c] \in {"check", "launch", "operate"},
         Return(c), UNCHANGED <<config, saved, running, history>>
  PROVE  TransactionInv'
<1> USE DEF TransactionInv, history
<1>1. /\ pc'[c] = "idle" /\ tx' # c
      /\ \A d \in Callers \ {c} :
           /\ pc'[d] = pc[d] /\ call'[d] = call[d]
           /\ snapshot'[d] = snapshot[d] /\ draft'[d] = draft[d]
           /\ (tx' = d) <=> (tx = d)
  BY ReturnKeeps
<1>2. TypeOK' /\ CommandInv' /\ HolderInv' /\ UpsertInv'
  BY ReturnKeeps DEF TypeOK
<1>3. CheckedInv'
  BY <1>1 DEF CheckedInv, Checked, MayProceed
<1>4. SnapshotInv'
  BY <1>1 DEF SnapshotInv, Kept, Restorable, KeepsRunning
<1>5. StoreInv'
  <2>1. (\A d \in Callers : tx' = d => pc'[d] # "rollback")
          => \A d \in Callers : tx = d => pc[d] # "rollback"
    BY <1>1
  <2> QED
    BY <2>1 DEF StoreInv, Restorable, KeepsRunning
<1> QED
  BY <1>2, <1>3, <1>4, <1>5

\* A command that is checked remembers what it saw, or is refused.
LEMMA CheckStep ==
  ASSUME TransactionInv, NEW c \in Callers, Check(c)
  PROVE  TransactionInv'
<1> USE DEF TransactionInv, history
<1> DEFINE k == call[c]
<1>1. PICK f \in IF k.op = "save_profile" THEN SavedAs(config, k.profile) ELSE {NoProfile} :
        \/ /\ MayProceed(k, f)
           /\ draft' = [draft EXCEPT ![c] =
                           CASE k.op = "save_profile" -> f
                             [] k.op = "start" -> config.profiles[k.profile]
                             [] OTHER -> @]
           /\ GoTo(c, IF k.op = "start" THEN "launch" ELSE "lock")
           /\ UNCHANGED <<lifecycle, tx, call, snapshot>>
        \/ ~MayProceed(k, f) /\ Return(c)
  BY DEF Check
<1>2. CASE Return(c)
  BY <1>2, GiveUpStep DEF Check
<1>3. CASE ~Return(c)
  <2>1. k \in Calls /\ pc[c] = "check" /\ tx # c
    BY DEF Check, CommandInv, TransactionPCs
  <2>2. /\ MayProceed(k, f)
        /\ pc' = [pc EXCEPT ![c] = IF k.op = "start" THEN "launch" ELSE "lock"]
        /\ UNCHANGED <<lifecycle, tx, call, snapshot, config, saved, running, history>>
    BY <1>1, <1>3 DEF Check, GoTo
  <2>3. /\ DOMAIN draft' = Callers
        /\ k.op = "save_profile" => draft'[c] = f
        /\ k.op = "start" => draft'[c] = config.profiles[k.profile]
        /\ \A d \in Callers \ {c} : draft'[d] = draft[d]
    BY <1>1, <1>3 DEF TypeOK
  <2>4. /\ pc'[c] = IF k.op = "start" THEN "launch" ELSE "lock"
        /\ \A d \in Callers \ {c} : pc'[d] = pc[d]
    BY <2>2 DEF TypeOK
  <2>5. TypeOK'
    BY <2>2, <2>3 DEF TypeOK
  <2>6. CommandInv' /\ HolderInv' /\ UpsertInv'
    BY <2>1, <2>2, <2>4, CallFields DEF CommandInv, HolderInv, UpsertInv, TransactionPCs
  <2>7. k.op = "save_profile" => f \in Profiles
    BY <1>1 DEF SavedAs, Matching
  <2>8. k.op = "start" => config.profiles[k.profile] \in ProfileRecords
    BY <2>1, <2>2, CallFields, OwnerType DEF MayProceed, TypeOK
  <2>9. CheckedInv'
    <3>1. \A d \in Callers \ {c} : Checked(d)'
      BY <2>2, <2>3, <2>4 DEF CheckedInv, Checked, MayProceed
    <3>2. Checked(c)'
      <4>1. call'[c] = k /\ (k.op \notin {"start", "save_profile"} => f = NoProfile)
        BY <1>1, <2>2
      <4>2. \A g : MayProceed(k, g) => MayProceed(k, g)'
        BY <2>2 DEF MayProceed
      <4>3. CASE k.op = "start"
        BY <2>2, <2>4, <2>3, <2>8, <4>1, <4>3 DEF Checked
      <4>4. CASE k.op # "start"
        BY <2>2, <2>4, <2>3, <2>7, <4>1, <4>2, <4>4 DEF Checked
      <4> QED
        BY <4>3, <4>4
    <3> QED
      BY <3>1, <3>2 DEF CheckedInv
  <2>10. SnapshotInv'
    <3>1. \A cfg : Restorable(cfg) => Restorable(cfg)'
      BY <2>2 DEF Restorable, KeepsRunning
    <3>2. pc'[c] \in {"launch", "lock"}
      BY <2>4
    <3> QED
      <4>1. Kept(c)'
        BY <3>2 DEF Kept
      <4>2. ASSUME NEW d \in Callers, d # c PROVE Kept(d)'
        BY <2>2, <2>3, <2>4, <3>1, <4>2 DEF SnapshotInv, Kept
      <4> QED
        BY <4>1, <4>2 DEF SnapshotInv
  <2>11. StoreInv'
    BY <2>1, <2>2, <2>4 DEF StoreInv, Restorable, KeepsRunning
  <2> QED
    BY <2>5, <2>6, <2>9, <2>10, <2>11
<1> QED
  BY <1>2, <1>3

\* A start holds the lifecycle lock from its check to its launch, so what it
\* read of the profile is what is stored, in memory and in every snapshot.
LEMMA LaunchStep ==
  ASSUME TransactionInv, NEW c \in Callers, Launch(c)
  PROVE  TransactionInv'
<1> USE DEF TransactionInv, history
<1> DEFINE k == call[c]
<1>1. CASE UNCHANGED running
  BY <1>1, GiveUpStep DEF Launch
<1>2. CASE running' = [running EXCEPT ![k.profile] = draft[c]]
  <2>1. /\ pc'[c] = "idle" /\ tx' # c
        /\ \A d \in Callers \ {c} :
             /\ pc'[d] = pc[d] /\ call'[d] = call[d]
             /\ snapshot'[d] = snapshot[d] /\ draft'[d] = draft[d]
             /\ (tx' = d) <=> (tx = d)
    BY ReturnKeeps DEF Launch
  <2>2. /\ k \in Calls /\ k.op = "start" /\ k.profile \in Profiles /\ lifecycle = c
        /\ pc[c] = "launch" /\ tx # c
        /\ draft[c] = config.profiles[k.profile] /\ draft[c] \in ProfileRecords
        /\ UNCHANGED <<config, saved, history>>
    BY CallFields DEF Launch, CommandInv, CheckedInv, Checked, LifecycleOps, TransactionPCs
  <2>3. /\ running' \in [Profiles -> ProfileRecords \cup {NoProfile}]
        /\ \A f \in Profiles : running'[f] = IF f = k.profile THEN draft[c] ELSE running[f]
    BY <1>2, <2>2 DEF TypeOK
  <2>4. TypeOK' /\ CommandInv' /\ HolderInv' /\ UpsertInv'
    BY <2>2, <2>3, ReturnKeeps DEF TypeOK, Launch
  <2>5. \A cfg : KeepsRunning(cfg) /\ cfg.profiles = config.profiles => KeepsRunning(cfg)'
    BY <2>2, <2>3 DEF KeepsRunning
  <2>6. ASSUME NEW d \in Callers, d # c, pc[d] # "idle" PROVE call[d].op \notin LifecycleOps
    BY <2>2, <2>6, TransactionAssumption DEF CommandInv
  <2>7. CheckedInv'
    <3>1. ASSUME NEW d \in Callers, d # c PROVE Checked(d)'
      BY <2>1, <2>2, <2>6, <3>1 DEF CheckedInv, Checked, LifecycleOps, CommandInv
    <3> QED
      BY <2>1, <3>1 DEF CheckedInv, Checked
  <2>8. ASSUME NEW d \in Callers, d # c PROVE Kept(d)'
    <3>1. Kept(d) /\ (pc'[d] # "rollback" => Kept(d)')
      BY <2>1, <2>2, <2>8 DEF SnapshotInv, Kept
    <3>2. CASE pc[d] = "rollback"
      <4>1. KeepsRunning(snapshot[d])'
        BY <2>1, <2>5, <2>6, <2>8, <3>1, <3>2 DEF Kept, Restorable
      <4> QED
        BY <2>1, <2>2, <2>8, <3>1, <3>2, <4>1 DEF Kept, Restorable
    <3> QED
      BY <2>1, <2>8, <3>1, <3>2
  <2>9. SnapshotInv'
    BY <2>1, <2>8 DEF SnapshotInv, Kept
  <2>10. StoreInv'
    <3>1. (\A d \in Callers : tx' = d => pc'[d] # "rollback")
            => \A d \in Callers : tx = d => pc[d] # "rollback"
      BY <2>1, <2>2
    <3> QED
      BY <2>2, <2>5, <3>1 DEF StoreInv, Restorable
  <2> QED
    BY <2>4, <2>7, <2>9, <2>10
<1> QED
  BY <1>1, <1>2 DEF Launch

\* No transaction is open, so the snapshot is what a failure should go back to.
LEMMA LockTransactionStep ==
  ASSUME TransactionInv, NEW c \in Callers, LockTransaction(c)
  PROVE  TransactionInv'
<1> USE DEF TransactionInv, history
<1> DEFINE k == call[c]
<1>1. /\ pc[c] = "lock" /\ tx = NoCaller /\ tx' = c
      /\ UNCHANGED <<config, saved, lifecycle, running, call, draft, history>>
  BY DEF LockTransaction, TransactionFree
<1>2. /\ pc'[c] = IF k.op = "save_settings" THEN "export" ELSE "operate"
      /\ k.op # "record_action" => snapshot'[c] = config
      /\ \A d \in Callers \ {c} : pc'[d] = pc[d] /\ snapshot'[d] = snapshot[d]
  BY DEF LockTransaction, GoTo, TypeOK
<1>3. TypeOK'
  BY <1>1 DEF LockTransaction, GoTo, TypeOK, TransactionPCs
<1>4. CommandInv' /\ HolderInv' /\ UpsertInv'
  BY <1>1, <1>2, TransactionAssumption DEF CommandInv, HolderInv, UpsertInv, TransactionPCs
<1>5. CheckedInv'
  <2>1. \A l, g : MayProceed(l, g) => MayProceed(l, g)'
    BY <1>1 DEF MayProceed
  <2> QED
    BY <1>1, <1>2, <2>1 DEF CheckedInv, Checked
<1>6. SnapshotInv'
  <2>1. Kept(c)'
    BY <1>1, <1>2 DEF Kept
  <2>2. ASSUME NEW d \in Callers, d # c PROVE Kept(d)'
    <3>1. pc'[d] \notin TransactionPCs
      BY <1>1, <1>2, <2>2, TransactionAssumption DEF CommandInv, TransactionPCs
    <3> QED
      BY <3>1 DEF Kept, TransactionPCs
  <2> QED
    BY <2>1, <2>2 DEF SnapshotInv
<1>7. StoreInv'
  <2>1. \A d \in Callers : tx # d
    BY <1>1, TransactionAssumption
  <2> QED
    BY <1>1, <2>1 DEF StoreInv, Restorable, KeepsRunning
<1> QED
  BY <1>3, <1>4, <1>5, <1>6, <1>7

\* The copy of the settings is taken of what the snapshot is of.
LEMMA ExportStep ==
  ASSUME TransactionInv, NEW c \in Callers, Export(c)
  PROVE  TransactionInv'
<1> USE DEF TransactionInv, history
<1> DEFINE k == call[c]
<1>1. /\ pc[c] = "export" /\ k \in Calls /\ k.op = "save_settings" /\ tx = c
      /\ UNCHANGED <<config, saved, lifecycle, tx, running, call, snapshot, history>>
  BY DEF Export, CommandInv, TransactionPCs
<1>2. draft'[c] = Result(k, NoProfile, config)
  BY DEF Export, TypeOK
<1>3. /\ pc'[c] = "operate"
      /\ \A d \in Callers \ {c} : pc'[d] = pc[d] /\ draft'[d] = draft[d]
  BY DEF Export, GoTo, TypeOK
<1>4. TypeOK'
  BY <1>1 DEF Export, GoTo, TypeOK, TransactionPCs
<1>5. CommandInv' /\ HolderInv' /\ UpsertInv'
  BY <1>1, <1>3 DEF CommandInv, HolderInv, UpsertInv, TransactionPCs
<1>6. CheckedInv'
  <2>1. \A l, g : MayProceed(l, g) => MayProceed(l, g)'
    BY <1>1 DEF MayProceed
  <2> QED
    BY <1>1, <1>3, <2>1 DEF CheckedInv, Checked
<1>7. SnapshotInv'
  <2>1. draft'[c] = [config EXCEPT !.settings = k.settings]
    <3>1. IsResult(k, NoProfile, config, draft'[c])
      BY <1>1, <1>2, ResultFields DEF TypeOK
    <3> QED
      BY <1>1, <3>1 DEF IsResult
  <2>2. Kept(c)'
    BY <1>1, <1>3, <2>1 DEF SnapshotInv, Kept
  <2>3. ASSUME NEW d \in Callers, d # c PROVE Kept(d)'
    <3>1. pc'[d] \notin TransactionPCs
      BY <1>1, <1>3, <2>3 DEF CommandInv, TransactionPCs
    <3> QED
      BY <3>1 DEF Kept, TransactionPCs
  <2> QED
    BY <2>2, <2>3 DEF SnapshotInv
<1>8. StoreInv'
  BY <1>1, <1>3 DEF StoreInv, Restorable, KeepsRunning
<1> QED
  BY <1>4, <1>5, <1>6, <1>7, <1>8

\* A transaction leaves the facts the others have established: lifecycle
\* commands exclude each other, and nothing runs beside upsert_project.
LEMMA OthersStayChecked ==
  ASSUME TransactionInv, NEW c \in Callers, pc[c] \in {"operate", "rollback"},
         UNCHANGED running,
         call[c].op \notin LifecycleOps => config'.profiles = config.profiles,
         call[c].op \in {"save_settings", "record_action"} => config'.projects = config.projects,
         NEW d \in Callers, d # c,
         pc'[d] = pc[d], call'[d] = call[d], draft'[d] = draft[d]
  PROVE  Checked(d)'
<1> USE DEF TransactionInv
<1>1. Checked(d) /\ call[c] \in Calls
  BY DEF CheckedInv, CommandInv
<1>2. CASE pc[d] = "idle"
  BY <1>2 DEF Checked
<1>3. CASE pc[d] # "idle" /\ call[d].op \notin LifecycleOps
  BY <1>1, <1>3 DEF Checked, CommandInv, LifecycleOps
<1>4. CASE pc[d] # "idle" /\ call[d].op \in LifecycleOps
  <2>1. call[c].op \notin LifecycleOps
    BY <1>4, TransactionAssumption DEF CommandInv
  <2>2. call[c].op \in {"save_settings", "record_action"}
    BY <1>1, <1>4, <2>1, CallFields DEF UpsertInv, LifecycleOps
  <2>3. config'.profiles = config.profiles /\ config'.projects = config.projects
    BY <2>1, <2>2
  <2>4. \A l, g : MayProceed(l, g) => MayProceed(l, g)'
    BY <2>3 DEF MayProceed, Stored, OwnerOf
  <2> QED
    BY <1>1, <2>3, <2>4 DEF Checked
<1> QED
  BY <1>2, <1>3, <1>4

\* What an operation may leave in memory.
LEMMA OutcomeFacts ==
  ASSUME TransactionInv, NEW c \in Callers, pc[c] = "operate",
         call[c].op \in {"save_settings", "import"} => Valid(Outcome(c))
  PROVE  /\ call[c] \in Calls /\ call[c].op # "start" /\ tx = c
         /\ IsResult(call[c], draft[c], config, Outcome(c))
         /\ Valid(Outcome(c))
         /\ KeepsRunning(Outcome(c))
<1> USE DEF TransactionInv
<1> DEFINE k == call[c]
<1>1. k \in Calls /\ k.op # "start" /\ tx = c /\ Checked(c) /\ config \in Configs
  BY DEF CommandInv, CheckedInv, TypeOK, TransactionPCs
<1>2. k.op = "save_profile" => draft[c] \in Profiles /\ MayProceed(k, draft[c])
  BY <1>1 DEF Checked
<1>3. CASE k.op = "save_settings"
  <2>1. Outcome(c) = [config EXCEPT !.settings = k.settings]
    BY <1>3 DEF Outcome, SnapshotInv, Kept
  <2>2. IsResult(k, draft[c], config, Result(k, draft[c], config))
    BY <1>1, <1>2, ResultFields
  <2>3. Outcome(c) = Result(k, draft[c], config)
    BY <1>3, <2>1, <2>2 DEF IsResult
  <2>4. Outcome(c).profiles = config.profiles
    BY <1>3, <2>2, <2>3 DEF IsResult, LifecycleOps
  <2> QED
    BY <1>1, <1>3, <2>2, <2>3, <2>4 DEF StoreInv, KeepsRunning
<1>4. CASE k.op # "save_settings"
  <2>1. Outcome(c) = Result(k, draft[c], config)
    BY <1>4 DEF Outcome
  <2>2. IsResult(k, draft[c], config, Outcome(c))
    BY <1>1, <1>2, <2>1, ResultFields
  <2>3. k.op = "save_profile" => ProjectOf[k.profile.slot] \in config.projects
    BY <1>2 DEF MayProceed
  <2>4. Valid(Outcome(c))
    BY <1>1, <1>2, <2>1, <2>3, ResultValid DEF StoreInv
  <2>5. KeepsRunning(Outcome(c))
    <3>1. k.op \in {"remove_project", "remove_profile", "import"} => MayProceed(k, NoProfile)
      BY <1>1 DEF Checked
    <3> QED
      BY <1>1, <1>2, <2>1, <3>1, ResultKeeps DEF StoreInv
  <2> QED
    BY <1>1, <2>2, <2>4, <2>5
<1> QED
  BY <1>3, <1>4

\* The event a record leaves at the end of the log is the one recorded last;
\* an import starts anew, and the others copy the log.
LEMMA OutcomeEndsLog ==
  ASSUME TransactionInv, NEW c \in Callers, pc[c] = "operate",
         call[c].op \in {"save_settings", "import"} => Valid(Outcome(c)),
         Remember(call[c])
  PROVE  /\ recorded' \in Events \cup {NoEvent}
         /\ recorded' # NoEvent => EndsLog(recorded', Outcome(c).audit)
<1> USE DEF TransactionInv
<1> DEFINE k == call[c]
<1>1. /\ k \in Calls /\ IsResult(k, draft[c], config, Outcome(c)) /\ config \in Configs
      /\ recorded \in Events \cup {NoEvent}
  BY OutcomeFacts DEF TypeOK
<1>2. recorded # NoEvent => EndsLog(recorded, config.audit)
  <2>1. tx = c
    BY OutcomeFacts
  <2> QED
    BY <2>1 DEF StoreInv, Restorable
<1>3. CASE k.op = "record_action"
  <2>1. recorded' = k.event
    BY <1>3 DEF Remember
  <2>2. k.event \in Events /\ Outcome(c).audit = Appended(config.audit, k.event)
    BY <1>1, <1>3, CallFields DEF IsResult
  <2> QED
    BY <1>1, <2>1, <2>2, ConfigFields, AppendedEndsLog
<1>4. CASE k.op = "import"
  BY <1>4 DEF Remember
<1>5. CASE k.op \notin {"record_action", "import"}
  <2>1. recorded' = recorded
    BY <1>5 DEF Remember
  <2>2. Outcome(c).audit = config.audit
    BY <1>1, <1>5 DEF IsResult
  <2> QED
    BY <1>1, <1>2, <2>1, <2>2
<1> QED
  BY <1>3, <1>4, <1>5

\* The operation fails, before or after it changed the memory, and what was
\* there before is kept for the rollback.
LEMMA FailStep ==
  ASSUME TransactionInv, NEW c \in Callers, pc[c] = "operate",
         call[c].op # "record_action",
         \/ UNCHANGED config
         \/ config' = Outcome(c) /\ (call[c].op \in {"save_settings", "import"} => Valid(Outcome(c))),
         GoTo(c, "rollback"),
         UNCHANGED <<saved, lifecycle, tx, running, call, snapshot, draft, history>>
  PROVE  TransactionInv'
<1> USE DEF TransactionInv, history
<1> DEFINE k == call[c]
<1>1. /\ k \in Calls /\ k.op # "start" /\ tx = c /\ snapshot[c] = config
      /\ config \in Configs /\ Restorable(config)
  BY DEF CommandInv, SnapshotInv, Kept, TypeOK, StoreInv, TransactionPCs
<1>2. pc'[c] = "rollback" /\ \A d \in Callers \ {c} : pc'[d] = pc[d]
  BY DEF GoTo, TypeOK
<1>3. /\ config' \in Configs /\ Valid(config') /\ KeepsRunning(config')
      /\ k.op \notin LifecycleOps => config'.profiles = config.profiles
      /\ (k.op = "save_settings") => config'.projects = config.projects
  <2>1. CASE UNCHANGED config
    BY <1>1, <2>1 DEF StoreInv
  <2>2. CASE /\ config' = Outcome(c)
             /\ k.op \in {"save_settings", "import"} => Valid(Outcome(c))
    <3>1. IsResult(k, draft[c], config, config') /\ Valid(config') /\ KeepsRunning(config')
      BY <2>2, OutcomeFacts
    <3> QED
      BY <3>1 DEF IsResult
  <2> QED
    BY <2>1, <2>2
<1>4. TypeOK'
  BY <1>3 DEF TypeOK, GoTo, TransactionPCs
<1>5. CommandInv' /\ HolderInv' /\ UpsertInv'
  BY <1>1, <1>2 DEF CommandInv, HolderInv, UpsertInv, TransactionPCs
<1>6. CheckedInv'
  <2>1. ASSUME NEW d \in Callers, d # c PROVE Checked(d)'
    BY <1>2, <1>3, <2>1, OthersStayChecked
  <2> QED
    BY <1>2, <2>1 DEF CheckedInv, Checked
<1>7. SnapshotInv'
  <2>1. Restorable(config)'  <=> Restorable(config')
    BY DEF Restorable, KeepsRunning
  <2>2. Restorable(snapshot[c])'
    BY <1>1 DEF Restorable, KeepsRunning
  <2>3. Kept(c)'
    BY <1>1, <1>2, <1>3, <2>2 DEF Kept
  <2>4. ASSUME NEW d \in Callers, d # c PROVE Kept(d)'
    <3>1. pc'[d] \notin TransactionPCs
      BY <1>1, <1>2, <2>4 DEF CommandInv, TransactionPCs
    <3> QED
      BY <3>1 DEF Kept, TransactionPCs
  <2> QED
    BY <2>3, <2>4 DEF SnapshotInv
<1>8. StoreInv'
  BY <1>1, <1>2, <1>3 DEF StoreInv, KeepsRunning
<1> QED
  BY <1>4, <1>5, <1>6, <1>7, <1>8

\* The transaction ends, and what it leaves could be gone back to.
LEMMA EndStep ==
  ASSUME TransactionInv, NEW c \in Callers, pc[c] \in {"operate", "rollback"},
         Return(c), UNCHANGED <<running, unrecorded>>,
         recorded' \in Events \cup {NoEvent},
         saved' \in Configs, Valid(saved'),
         call[c].op \notin LifecycleOps => config'.profiles = config.profiles,
         call[c].op \in {"save_settings", "record_action"} => config'.projects = config.projects,
         Restorable(config)'
  PROVE  TransactionInv'
<1> USE DEF TransactionInv
<1>1. tx = c
  BY DEF CommandInv, TransactionPCs
<1>2. /\ pc'[c] = "idle" /\ tx' # c
      /\ \A d \in Callers \ {c} :
           /\ pc'[d] = pc[d] /\ call'[d] = call[d]
           /\ snapshot'[d] = snapshot[d] /\ draft'[d] = draft[d]
           /\ (tx' = d) <=> (tx = d)
  BY ReturnKeeps
<1>3. TypeOK' /\ CommandInv' /\ HolderInv' /\ UpsertInv'
  BY ReturnKeeps DEF TypeOK, Restorable
<1>4. CheckedInv'
  <2>1. ASSUME NEW d \in Callers, d # c PROVE Checked(d)'
    BY <1>2, <2>1, OthersStayChecked
  <2> QED
    BY <1>2, <2>1 DEF CheckedInv, Checked
<1>5. SnapshotInv'
  <2>1. ASSUME NEW d \in Callers PROVE pc'[d] \notin TransactionPCs
    BY <1>1, <1>2 DEF CommandInv, TransactionPCs
  <2> QED
    BY <2>1 DEF SnapshotInv, Kept, TransactionPCs
<1>6. StoreInv'
  BY DEF StoreInv, Restorable
<1> QED
  BY <1>3, <1>4, <1>5, <1>6

\* What an operation persists, and an event that was recorded in memory only.
LEMMA SuccessStep ==
  ASSUME TransactionInv, NEW c \in Callers, pc[c] = "operate",
         call[c].op \in {"save_settings", "import"} => Valid(Outcome(c)),
         config' = Outcome(c), Remember(call[c]),
         Persisted(config') \/ (call[c].op = "record_action" /\ UNCHANGED saved),
         Return(c), UNCHANGED <<running, unrecorded>>
  PROVE  TransactionInv'
<1> USE DEF TransactionInv
<1> DEFINE k == call[c]
<1>1. /\ k \in Calls /\ tx = c /\ IsResult(k, draft[c], config, config')
      /\ Valid(config') /\ KeepsRunning(config')
  BY OutcomeFacts
<1>2. recorded' \in Events \cup {NoEvent} /\ (recorded' # NoEvent => EndsLog(recorded', config'.audit))
  BY OutcomeEndsLog
<1>3. saved' \in Configs /\ Valid(saved') /\ UserPart(saved') = UserPart(config')
  <2>1. CASE Persisted(config')
    BY <1>1, <2>1 DEF Persisted, IsResult
  <2>2. CASE k.op = "record_action" /\ UNCHANGED saved
    <3>1. UserPart(saved) = UserPart(config)
      BY <1>1 DEF StoreInv, Restorable
    <3> QED
      BY <1>1, <2>2, <3>1 DEF IsResult, StoreInv, TypeOK
  <2> QED
    BY <2>1, <2>2
<1>4. Restorable(config)'
  BY <1>1, <1>2, <1>3 DEF Restorable, KeepsRunning, IsResult
<1>5. /\ k.op \notin LifecycleOps => config'.profiles = config.profiles
      /\ k.op \in {"save_settings", "record_action"} => config'.projects = config.projects
  BY <1>1 DEF IsResult
<1> QED
  BY <1>2, <1>3, <1>4, <1>5, EndStep

\* An operation is done, refused, fails, or finds nothing to do.
LEMMA OperateStep ==
  ASSUME TransactionInv, NEW c \in Callers, Operate(c)
  PROVE  TransactionInv'
<1> USE DEF Operate
<1>1. CASE Return(c) /\ UNCHANGED <<config, saved, recorded>>
  BY <1>1, GiveUpStep DEF history
<1>2. CASE /\ Refused(c) /\ GoTo(c, "rollback")
           /\ UNCHANGED <<config, saved, recorded, call, snapshot, draft, lifecycle, tx>>
  BY <1>2, FailStep DEF history, Refused
<1>3. CASE /\ call[c].op \in {"save_settings", "import"} => Valid(Outcome(c))
           /\ config' = Outcome(c) /\ Persisted(config') /\ Remember(call[c]) /\ Return(c)
  BY <1>3, SuccessStep
<1>4. CASE /\ call[c].op \in {"save_settings", "import"} => Valid(Outcome(c))
           /\ config' = Outcome(c)
           /\ AfterFailedPersist(c)
           /\ IF call[c].op = "record_action" THEN Remember(call[c]) ELSE UNCHANGED recorded
           /\ UNCHANGED saved
  <2>1. CASE call[c].op = "record_action"
    BY <1>4, <2>1, SuccessStep DEF AfterFailedPersist
  <2>2. CASE call[c].op # "record_action"
    BY <1>4, <2>2, FailStep DEF AfterFailedPersist, history
  <2> QED
    BY <2>1, <2>2
<1> QED
  BY <1>1, <1>2, <1>3, <1>4

\* A rollback puts the snapshot back, on the disk if it can.
LEMMA RollBackStep ==
  ASSUME TransactionInv, NEW c \in Callers, RollBack(c)
  PROVE  TransactionInv' /\ UserPart(config') = UserPart(snapshot[c])
<1> USE DEF TransactionInv, history
<1>1. /\ pc[c] = "rollback" /\ Restorable(snapshot[c]) /\ Return(c)
      /\ call[c].op \notin LifecycleOps => snapshot[c].profiles = config.profiles
      /\ call[c].op \in {"save_settings", "record_action"} => snapshot[c].projects = config.projects
      /\ UNCHANGED <<running, history>>
  BY DEF RollBack, SnapshotInv, Kept, CommandInv
<1>2. config' = snapshot[c] /\ saved' \in {saved, snapshot[c]}
  BY <1>1 DEF RollBack, Restorable
<1>3. saved' \in Configs /\ Valid(saved') /\ UserPart(saved') = UserPart(config')
  BY <1>1, <1>2 DEF Restorable, StoreInv, TypeOK
<1>4. Restorable(config)'
  BY <1>1, <1>2, <1>3 DEF Restorable, KeepsRunning
<1>5. recorded' \in Events \cup {NoEvent}
  BY <1>1 DEF TypeOK
<1> QED
  BY <1>1, <1>2, <1>3, <1>4, <1>5, EndStep

\* A session that ended constrains nobody any more.
LEMMA SessionEndsStep ==
  ASSUME TransactionInv, NEW f \in Profiles, SessionEnds(f)
  PROVE  TransactionInv'
<1> USE DEF TransactionInv, SessionEnds, callVars, history
<1>1. \A g \in Profiles : running'[g] # NoProfile => running'[g] = running[g]
  BY DEF TypeOK
<1>2. TypeOK' /\ CommandInv' /\ HolderInv' /\ UpsertInv'
  BY DEF TypeOK, CommandInv, HolderInv, UpsertInv
<1>3. \A cfg : Restorable(cfg) => Restorable(cfg)'
  BY <1>1 DEF Restorable, KeepsRunning
<1>4. CheckedInv'
  <2>1. ASSUME NEW c \in Callers, pc[c] \in {"lock", "operate"}, NEW g \in Profiles \cup {NoProfile},
               call[c].op = "save_profile" => g \in Profiles, MayProceed(call[c], g)
        PROVE  MayProceed(call[c], g)'
    <3>1. call[c] \in Calls
      BY <2>1 DEF CommandInv
    <3> QED
      BY <1>1, <2>1, <3>1, CallFields DEF MayProceed, TypeOK
  <2> QED
    BY <2>1 DEF CheckedInv, Checked
<1>5. SnapshotInv'
  BY <1>3 DEF SnapshotInv, Kept
<1>6. StoreInv'
  BY <1>1, <1>3 DEF StoreInv, KeepsRunning
<1> QED
  BY <1>2, <1>4, <1>5, <1>6

\* A restart loads what was saved, and nothing runs.
LEMMA RestartStep ==
  ASSUME TransactionInv, Restart
  PROVE  TransactionInv'
<1> USE TransactionAssumption DEF TransactionInv, Restart
<1>1. TypeOK'
  BY DEF TypeOK
<1>2. CommandInv' /\ HolderInv' /\ UpsertInv' /\ CheckedInv' /\ SnapshotInv'
  BY DEF CommandInv, HolderInv, UpsertInv, CheckedInv, Checked, SnapshotInv, Kept, TransactionPCs
<1>3. StoreInv'
  BY DEF StoreInv, Restorable, KeepsRunning, TypeOK
<1> QED
  BY <1>1, <1>2, <1>3

\* Every step keeps the invariant.
LEMMA TransactionStep ==
  ASSUME UpsertAlone, TransactionInv, [Next]_vars
  PROVE  TransactionInv'
<1>1. CASE UNCHANGED vars
  BY <1>1
     DEF vars, callVars, history, TransactionInv, TypeOK, CommandInv, HolderInv, UpsertInv,
         CheckedInv, Checked, MayProceed, SnapshotInv, Kept, StoreInv, Restorable, KeepsRunning
<1>2. CASE Next
  BY <1>2, BeginStep, CheckStep, LaunchStep, LockTransactionStep, ExportStep, OperateStep,
     RollBackStep, SessionEndsStep, RestartStep DEF Next, CallerStep
<1> QED
  BY <1>1, <1>2

\* The locks keep every command's checks true until it writes and its snapshot
\* what it must go back to, for any number of threads.
THEOREM TransactionInvariant ==
  ASSUME UpsertAlone
  PROVE  Spec => []TransactionInv
<1>1. TransactionInv /\ [Next]_vars => TransactionInv'
  BY TransactionStep
<1> QED
  BY <1>1, TransactionInit, PTL DEF Spec

\* No order of commands, failures and restarts leaves a profile without its
\* project in memory, so that validation refuses no later write.
THEOREM MemoryStaysValid ==
  ASSUME UpsertAlone
  PROVE  Spec => []MemoryValid
<1>1. TransactionInv => MemoryValid
  BY DEF TransactionInv, StoreInv, MemoryValid
<1> QED
  BY <1>1, TransactionInvariant, PTL

\* No save, removal, import or rollback changes the profile of a session that
\* runs, while it runs.
THEOREM ProfileOutlivesSession ==
  ASSUME UpsertAlone
  PROVE  Spec => []RunningProfileKept
<1>1. TransactionInv => RunningProfileKept
  BY DEF TransactionInv, StoreInv, KeepsRunning, RunningProfileKept
<1> QED
  BY <1>1, TransactionInvariant, PTL

\* Between transactions a restart would find what the user has put in.
THEOREM RestartFindsMemory ==
  ASSUME UpsertAlone
  PROVE  Spec => []DiskFollowsMemory
<1>1. TransactionInv => DiskFollowsMemory
  BY TransactionAssumption DEF TransactionInv, StoreInv, Restorable, DiskFollowsMemory
<1> QED
  BY <1>1, TransactionInvariant, PTL

\* Between transactions the event recorded last ends the log, whatever was
\* rolled back or copied beside its recording.
THEOREM LastEventKept ==
  ASSUME UpsertAlone
  PROVE  Spec => []EventsSurvive
<1>1. TransactionInv => EventsSurvive
  BY TransactionAssumption DEF TransactionInv, StoreInv, Restorable, EventsSurvive
<1> QED
  BY <1>1, TransactionInvariant, PTL

\* A failed command is undone, by its rollback or by a restart before it.
THEOREM FailureLeavesNoTrace ==
  ASSUME UpsertAlone
  PROVE  Spec => RollbackRestores
<1> DEFINE A == \A c \in Callers :
                  pc[c] = "rollback" /\ pc'[c] = "idle"
                    => UserPart(config') = UserPart(snapshot[c])
<1>1. ASSUME TransactionInv, Next, NEW c \in Callers, pc[c] = "rollback", pc'[c] = "idle"
      PROVE  UserPart(config') = UserPart(snapshot[c])
  <2> USE <1>1 DEF GoTo
  <2>1. ASSUME NEW d \in Callers, d # c, Return(d) PROVE FALSE
    BY <2>1 DEF Return, TransactionInv, TypeOK
  <2>2. ASSUME NEW d \in Callers, NEW k \in Calls, Begin(d, k) PROVE FALSE
    BY <2>2 DEF Begin, TransactionInv, TypeOK
  <2>3. ASSUME NEW d \in Callers, CallerStep(d)
        PROVE  d = c /\ RollBack(c)
    BY <2>1, <2>3 DEF CallerStep, Check, Launch, LockTransaction, Export, Operate,
       AfterFailedPersist, RollBack, TransactionInv, TypeOK
  <2>4. CASE RollBack(c)
    BY <2>4, RollBackStep
  <2>5. CASE Restart
    BY <2>5 DEF Restart, TransactionInv, SnapshotInv, Kept, Restorable
  <2>6. ASSUME NEW f \in Profiles, SessionEnds(f) PROVE FALSE
    BY <2>6 DEF SessionEnds, callVars
  <2> QED
    BY <2>2, <2>3, <2>4, <2>5, <2>6 DEF Next
<1>2. TransactionInv /\ [Next]_vars => [A]_vars
  BY <1>1
<1> QED
  BY <1>2, TransactionInvariant, PTL DEF Spec, RollbackRestores

=============================================================================
