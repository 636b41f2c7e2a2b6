----------------------------- MODULE ProjectLaunch -----------------------------
(***************************************************************************)
(* From a folder to a running session: the scan of a project, the launch   *)
(* profiles saved from it, the confirmation of a launch and the start.     *)
(* Tauri runs these commands one after the other. What they depend on      *)
(* changes meanwhile: the disk under the paths, the stored profiles        *)
(* between a confirmation and its start, and the configuration file, which *)
(* a user may edit by hand while the program is not running.               *)
(*                                                                         *)
(* The tokens are OneShot, which Confirmations implements, and the runner  *)
(* is SessionLifecycle, which CommandRunner implements.                    *)
(***************************************************************************)
EXTENDS ProjectScanner, CommandPolicy

CONSTANTS
  ProjectRoot,    \* root_path of the stored project
  Profiles, NoProfile,
  Saves,          \* what a user may save: a folder, a command and a role
  ImportedFiles,  \* stored profiles of a file that is imported
  EditedFiles,    \* stored profiles a user may write by hand
  Tokens, NoToken,
  Sessions, ProfileOf, NoSession,
  Idle            \* no command is being run

\* What suggestions run; none is one of BLOCKED_LAUNCH_ENTRYPOINTS.
Tools == {"npm", "mvn", "gradle", "cargo", "mvnw.cmd", "gradlew.bat"}

ASSUME LaunchAssumption ==
  /\ ProjectRoot \in Paths
  /\ \A p \in Saves : p.dir \in Paths /\ p.command \in Seq(STRING)
  /\ \A stored \in ImportedFiles \cup EditedFiles :
       /\ stored = [f \in Profiles |-> stored[f]]
       /\ \A f \in Profiles : stored[f] # NoProfile =>
            stored[f].dir \in Paths /\ stored[f].command \in Seq(STRING)
  /\ NoToken \notin Tokens
  /\ BLOCKED_LAUNCH_ENTRYPOINTS \cap Tools = {}
  /\ ProfileOf \in [Sessions -> Profiles]

VARIABLES
  profiles,   \* per profile id: folder, command and role, or NoProfile
  cmd,        \* the command being run, its step and what it has found out; its
              \* field moved is history: the disk has changed since its folder was resolved
  life, owner,                \* the runner: see SessionLifecycle
  tokenLife, bound, spent,    \* the tokens: see OneShot
  ran         \* history: per session, what it was started with, by which
              \* token, where, and in which root

runnerVars == <<life, owner>>
tokenVars == <<tokenLife, bound, spent>>
vars == <<scanVars, diskVars, profiles, cmd, runnerVars, tokenVars, ran>>

Runner == INSTANCE SessionLifecycle
Once == INSTANCE OneShot WITH life <- tokenLife, Bindings <- {}, NoBinding <- NoToken

Binding(f, command, dir, role) ==
  [profile |-> f, command |-> command, dir |-> dir, role |-> role]

NotRun ==
  [asked |-> Binding(NoProfile, NoCommand, Nowhere, "none"), token |-> NoToken,
   place |-> Nowhere, root |-> Nowhere, moved |-> FALSE]

Init ==
  /\ ScanInit
  /\ profiles = [f \in Profiles |-> NoProfile]
  /\ cmd = Idle
  /\ Runner!Init
  /\ Once!Init
  /\ ran = [s \in Sessions |-> NotRun]

-----------------------------------------------------------------------------
(* Commands on profiles.                                                   *)

\* is_active, of every session that list_sessions shows
ActiveProfiles == {ProfileOf[s] : s \in {t \in Sessions : life[t] \in Runner!Active}}

Command(op, f, t, p) ==
  [op |-> op, step |-> "root", profile |-> f, token |-> t,
   dir |-> p.dir, command |-> Trimmed(p.command), role |-> p.role, root |-> Nowhere,
   moved |-> FALSE]

\* A command that stops at its policy check changes nothing and is left out.
Begin(op, f, t, p) ==
  /\ phase = "idle"
  /\ cmd = Idle
  /\ validate_command_policy(Trimmed(p.command))
  /\ cmd' = Command(op, f, t, p)
  /\ UNCHANGED <<scanVars, diskVars, profiles, runnerVars, tokenVars, ran>>

\* save_launch_profile_safe: the id it saves under is found at the end.
SaveBegin == \E p \in Saves : Begin("save", NoProfile, NoToken, p)

IssueBegin(f) == profiles[f] # NoProfile /\ Begin("issue", f, NoToken, profiles[f])

\* The user has seen what the token stands for, and agreed. The command takes any
\* token with any profile.
StartBegin(f, t) ==
  /\ bound[t] # NoToken
  /\ profiles[f] # NoProfile
  /\ Begin("start", f, t, profiles[f])

Refuse == cmd' = Idle

\* validated_workdir_for_project, first the root ...
CheckRoot ==
  /\ cmd # Idle
  /\ cmd.step = "root"
  /\ IF tree.leads[ProjectRoot] = Nowhere THEN Refuse
     ELSE cmd' = [cmd EXCEPT !.root = tree.leads[ProjectRoot], !.step = "workdir"]
  /\ UNCHANGED <<scanVars, diskVars, profiles, runnerVars, tokenVars, ran>>

\* Variant: the folder is compared as it is written.
LiesWithinAsWritten(dir, top) == tree.leads[dir] # Nowhere /\ Within(dir, top)

LiesWithin(dir, top) == tree.leads[dir] # Nowhere /\ Within(tree.leads[dir], top)

\* ... then the folder, as it is called from here on.
CheckWorkdir ==
  /\ cmd # Idle
  /\ cmd.step = "workdir"
  /\ IF LiesWithin(cmd.dir, cmd.root)
     THEN cmd' = [cmd EXCEPT !.dir = tree.leads[cmd.dir], !.step = "finish"]
     ELSE Refuse
  /\ UNCHANGED <<scanVars, diskVars, profiles, runnerVars, tokenVars, ran>>

\* The profile that is replaced: of the same role and folder (ConfigTransaction
\* has the rest of the rule). One that is active is left alone.
FinishSave ==
  LET same == {f \in Profiles : /\ profiles[f] # NoProfile
                                /\ profiles[f].role = cmd.role
                                /\ profiles[f].dir = cmd.dir}
      new  == {f \in Profiles : profiles[f] = NoProfile /\ f \notin ActiveProfiles}
      saved == [dir |-> cmd.dir, command |-> cmd.command, role |-> cmd.role]
  IN /\ cmd # Idle
     /\ cmd.step = "finish"
     /\ cmd.op = "save"
     /\ Refuse
     /\ \E f \in IF same # {} THEN same ELSE new :
          profiles' = IF f \in ActiveProfiles THEN profiles
                      ELSE [profiles EXCEPT ![f] = saved]
     /\ UNCHANGED <<scanVars, diskVars, runnerVars, tokenVars, ran>>

Asked == Binding(cmd.profile, cmd.command, cmd.dir, cmd.role)

\* issue_confirmation: the page shows the user what the token is bound to.
FinishIssue ==
  /\ cmd # Idle
  /\ cmd.step = "finish"
  /\ cmd.op = "issue"
  /\ Refuse
  /\ \E t \in Tokens : Once!Issue(t, Asked, {})
  /\ UNCHANGED <<scanVars, diskVars, profiles, runnerVars, ran>>

\* Variant: a token of the profile will do.
MatchesProfile(t) == bound[t].profile = cmd.profile

Matches(t) == bound[t] = Asked

\* consume_confirmation. A token that had to make room for others is not found,
\* one that is too old is refused; both are seen here first.
Consume ==
  /\ cmd # Idle
  /\ cmd.step = "finish"
  /\ cmd.op = "start"
  /\ \/ /\ Matches(cmd.token)
        /\ Once!Spend(cmd.token)
        /\ cmd' = [cmd EXCEPT !.step = "spawn"]
     \/ Once!Lose(cmd.token) /\ Refuse
     \/ tokenLife[cmd.token] # "pending" /\ Refuse /\ UNCHANGED tokenVars
  /\ UNCHANGED <<scanVars, diskVars, profiles, runnerVars, ran>>

\* CommandRunnerState::start: the process begins where its path leads by then.
Spawn ==
  /\ cmd # Idle
  /\ cmd.step = "spawn"
  /\ Refuse
  /\ \/ \E s \in Sessions :
          /\ ProfileOf[s] = cmd.profile
          /\ tree.leads[cmd.dir] # Nowhere
          /\ Runner!Register(s)
          /\ ran' = [ran EXCEPT ![s] =
                       [asked |-> Asked, token |-> cmd.token, place |-> tree.leads[cmd.dir],
                        root |-> cmd.root, moved |-> cmd.moved]]
     \/ UNCHANGED <<runnerVars, ran>>
  /\ UNCHANGED <<scanVars, diskVars, profiles, tokenVars>>

\* remove_launch_profile_safe
RemoveProfile(f) ==
  /\ phase = "idle"
  /\ cmd = Idle
  /\ profiles[f] # NoProfile
  /\ f \notin ActiveProfiles
  /\ profiles' = [profiles EXCEPT ![f] = NoProfile]
  /\ UNCHANGED <<scanVars, diskVars, cmd, runnerVars, tokenVars, ran>>

\* Paths of a file are compared as they are written.
logical_path_is_within(top, path) == Within(path, top)

\* validate_import_profiles
Importable(stored) ==
  \A f \in Profiles : stored[f] # NoProfile =>
    /\ validate_command_policy(stored[f].command)
    /\ logical_path_is_within(ProjectRoot, stored[f].dir)
    /\ \A g \in Profiles \ {f} :
         stored[g] # NoProfile =>
           stored[g].role # stored[f].role \/ stored[g].dir # stored[f].dir

\* import_app_config_safe
Import(stored) ==
  /\ phase = "idle"
  /\ cmd = Idle
  /\ ActiveProfiles = {}
  /\ Importable(stored)
  /\ profiles' = stored
  /\ UNCHANGED <<scanVars, diskVars, cmd, runnerVars, tokenVars, ran>>

-----------------------------------------------------------------------------
(* What happens beside them.                                               *)

\* Bound: the scans of a run come before its other commands, which neither
\* depend on them nor change what they see.
Scan ==
  /\ cmd = Idle
  /\ \A f \in Profiles : profiles[f] = NoProfile
  /\ \A t \in Tokens : tokenLife[t] = "fresh"
  /\ ScanNext
  /\ UNCHANGED <<profiles, cmd, runnerVars, tokenVars, ran>>

Disk ==
  /\ ChangeDisk
  /\ cmd' = IF cmd # Idle /\ cmd.step \in {"finish", "spawn"}
            THEN [cmd EXCEPT !.moved = TRUE] ELSE cmd
  /\ UNCHANGED <<profiles, runnerVars, tokenVars, ran>>

\* A session gives its profile back, and ends; how it ends does not matter here.
SessionEnds(s) ==
  /\ Runner!Release(s) \/ Runner!Finish(s)
  /\ life'[s] # "failed"
  /\ UNCHANGED <<scanVars, diskVars, profiles, cmd, tokenVars, ran>>

\* The program is left or killed, its sessions with it, and started again; the
\* file may have been edited in between.
Restart ==
  /\ profiles' \in EditedFiles \cup {profiles}
  /\ cmd' = Idle
  /\ phase' = "idle"
  /\ root' = Nowhere
  /\ stack' = <<>>
  /\ at' = 1
  /\ out' = {}
  /\ life' = [s \in Sessions |-> IF life[s] = "absent" THEN "absent" ELSE "gone"]
  /\ owner' = [f \in Profiles |-> NoSession]
  /\ tokenLife' = [t \in Tokens |-> IF tokenLife[t] = "pending" THEN "lost" ELSE tokenLife[t]]
  /\ UNCHANGED <<scans, diskVars, bound, spent, ran>>

Next ==
  \/ Scan
  \/ Disk
  \/ SaveBegin
  \/ \E f \in Profiles : IssueBegin(f) \/ RemoveProfile(f)
  \/ \E f \in Profiles, t \in Tokens : StartBegin(f, t)
  \/ CheckRoot \/ CheckWorkdir
  \/ FinishSave \/ FinishIssue \/ Consume \/ Spawn
  \/ \E stored \in ImportedFiles : Import(stored)
  \/ \E s \in Sessions : SessionEnds(s)
  \/ Restart

Spec == Init /\ [][Next]_vars

-----------------------------------------------------------------------------
(* Properties.                                                             *)

Started == {s \in Sessions : ran[s].token # NoToken}

\* Whatever was saved, imported, edited or moved on the disk since the user
\* agreed: what a session runs, where and as what is what the user was shown
\* ("Confirm exactly the command and directory that would be executed",
\* launch_confirmation.rs), and no confirmation starts two sessions.
StartedWasConfirmed ==
  /\ \A s \in Started :
       /\ spent[ran[s].token] = <<ran[s].asked>>
       /\ ran[s].asked.profile = ProfileOf[s]
  /\ \A s, t \in Started : ran[s].token = ran[t].token => s = t

\* Links, imported paths and folders that change between the steps of a start
\* included: the folder the user was shown lies within the root the start has
\* resolved, and the process begins in it, unless the disk changed after the
\* folder was resolved; nothing looks at it again by then.
StartedInsideProject ==
  \A s \in Started :
    /\ Within(ran[s].asked.dir, ran[s].root)
    /\ ran[s].place = ran[s].asked.dir \/ ran[s].moved

QuotesBefore(c, i) == Cardinality({j \in 1 .. i - 1 : c[j] = Quote})

\* A control character is outside of quotes when those before it come in pairs.
Chains(c) ==
  \/ \E i \in 1 .. Len(c) : c[i] = "&" /\ QuotesBefore(c, i) % 2 = 0
  \/ QuotesBefore(c, Len(c) + 1) % 2 = 1
  \/ \E i \in 1 .. Len(c) : c[i] \in {"\n", "%"}

\* A blocked word ends the path from first to the next stop.
BlockedPath(c, first, stop) ==
  \E n \in first .. Len(c) :
    /\ c[n] \in BLOCKED_LAUNCH_ENTRYPOINTS
    /\ \A i \in first .. n - 1 : c[i] # stop
    /\ n > first => c[n - 1] = "\\"
    /\ n < Len(c) => c[n + 1] = stop

\* What a command line runs is its first word, or what its first quotes enclose.
EntersBlocked(c) ==
  IF c[1] = Quote THEN BlockedPath(c, 2, Quote) ELSE BlockedPath(c, 1, Blank)

\* "Imported or manually edited config is untrusted at the execution boundary"
\* (launch_profiles.rs): whichever way a command came into the configuration,
\* what is started is one command, not a chain, and not a blocked one.
StartedIsPermitted ==
  \A s \in Started :
    LET c == ran[s].asked.command IN ~Chains(c) /\ ~EntersBlocked(c) /\ c[1] # "@"

\* A package.json may name a script so that running it takes more than a command.
ChainedByName(c) == c.file = "package.json" /\ Chains(c.command)

\* What a scan suggests can be saved as it is, but for one case: a save refuses
\* `npm run` of a script whose own name holds control characters outside of
\* quotes, or a quote without a second, and the scanner suggests it all the same.
\* Nothing else it suggests is refused, wrappers in the folder included, and its
\* folder passes the check of the launch commands.
SuggestionCanBeSaved ==
  phase = "done" /\ calm =>
    \A c \in out : c.command # NoCommand =>
      /\ validate_command_policy(c.command) <=> ~ChainedByName(c)
      /\ LiesWithin(c.dir, tree.leads[root])

\* A command line the policy has let through, without blanks around it.
Permitted(c) == c \in Seq(STRING) /\ Trimmed(c) = c /\ validate_command_policy(c)

\* What the properties rest on: what a command has found out when it gets to a
\* step, and what the tokens and the sessions remember.
ProfilesOK ==
  /\ profiles = [f \in Profiles |-> profiles[f]]
  /\ \A f \in Profiles : profiles[f] # NoProfile =>
       profiles[f].dir \in Paths /\ profiles[f].command \in Seq(STRING)

CommandOK ==
  cmd # Idle =>
    /\ cmd = [op |-> cmd.op, step |-> cmd.step, profile |-> cmd.profile, token |-> cmd.token,
              dir |-> cmd.dir, command |-> cmd.command, role |-> cmd.role,
              root |-> cmd.root, moved |-> cmd.moved]
    /\ cmd.dir \in Paths
    /\ Permitted(cmd.command)
    /\ cmd.op = "start" => cmd.token \in Tokens
    /\ cmd.step \in {"finish", "spawn"} =>
         Within(cmd.dir, cmd.root) /\ (tree.leads[cmd.dir] = cmd.dir \/ cmd.moved)
    /\ cmd.step = "spawn" =>
         /\ cmd.token \in Tokens
         /\ tokenLife[cmd.token] = "spent"
         /\ spent[cmd.token] = <<Asked>>
         /\ \A s \in Sessions : ran[s].token # cmd.token

TokensOK ==
  /\ tokenLife = [t \in Tokens |-> tokenLife[t]]
  /\ spent = [t \in Tokens |-> spent[t]]
  /\ \A t \in Tokens :
       tokenLife[t] \in {"fresh", "pending"} =>
         spent[t] = <<>> /\ \A s \in Sessions : ran[s].token # t

RunsOK ==
  /\ ran = [s \in Sessions |-> ran[s]]
  /\ \A s \in Started :
       /\ ran[s].token \in Tokens
       /\ Within(ran[s].asked.dir, ran[s].root)
       /\ ran[s].place = ran[s].asked.dir \/ ran[s].moved
       /\ Permitted(ran[s].asked.command)

LaunchInv ==
  ScanInv /\ ExactInv /\ ProfilesOK /\ CommandOK /\ TokensOK /\ RunsOK /\ StartedWasConfirmed

=============================================================================
