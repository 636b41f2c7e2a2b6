---------------------------- MODULE ProjectPage ----------------------------
(***************************************************************************)
(* The session table of the project page (useProjectManager) over the      *)
(* runner it shows. The page learns of sessions in three ways that race    *)
(* with each other: the answers of its own commands, the lists it asks     *)
(* for, and the final event of each session. Leaving the page and coming   *)
(* back mounts it anew, with an empty table, while the sessions live on.   *)
(*                                                                         *)
(* The runner is SessionLifecycle, which CommandRunner implements. Tauri   *)
(* runs the commands one at a time in the order they were called, and      *)
(* their answers reach the page in that order; events come at any time.    *)
(***************************************************************************)
EXTENDS Filtering, FiniteSets

CONSTANTS
  Profiles,
  Sessions,
  ProfileOf,
  NoSession,
  MaxTerminal,   \* MAX_TERMINAL_SESSIONS, of the runner
  MaxPending,    \* MAX_PENDING_TERMINAL_EVENTS, of the page
  MaxMounts,     \* bound: how often the page is entered
  MaxClicks      \* bound: how often the user starts, stops or removes

ASSUME PageAssumption ==
  /\ ProfileOf \in [Sessions -> Profiles]
  /\ NoSession \notin Sessions
  /\ {MaxTerminal, MaxPending, MaxMounts, MaxClicks} \subseteq Nat
  /\ MaxPending > 0

VARIABLES
  life, owner,   \* the runner: see SessionLifecycle
  announced,     \* sessions whose final event was emitted
  profiles,      \* launch profiles that are stored
  calls,         \* commands called and not yet run
  answers,       \* commands run and not yet answered
  mount,         \* which mount of the page is on screen
  listening,     \* its launch_output listener is registered
  sessionsById,  \* per session: the state the page shows, or "none"
  lastSession,   \* lastSessionByProfile
  pending,       \* terminalEvents: sessions with their final state, oldest first
  asked,         \* starts <<profile, mount>> that wait for their confirmation
  stops,         \* stops <<session, mount>> decided and not yet called
  clicks,
  heard,         \* history: final events this mount has received
  missed,        \* history: final events it has not, for want of a listener
  crossed,       \* history: sessions whose event overtook a list that names them
  told           \* history: sessions an answer has named to this mount

runnerVars == <<life, owner, announced, profiles>>
wireVars == <<calls, answers>>
tableVars == <<sessionsById, lastSession, pending>>
userVars == <<asked, stops, clicks>>
mountVars == <<mount, listening>>
history == <<heard, missed, crossed, told>>
vars == <<runnerVars, wireVars, tableVars, userVars, mountVars, history>>

Runner == INSTANCE SessionLifecycle

Active   == Runner!Active
Terminal == Runner!Terminal

-----------------------------------------------------------------------------

\* list_active_launch_sessions: ended sessions are not on it.
ActiveList == [s \in Sessions |-> IF life[s] \in Active THEN life[s] ELSE "none"]

\* indexLastSessions over a list in the order of a hash map: any listed
\* session of the profile may come last.
LastsOf(list) ==
  {f \in [Profiles -> Sessions \cup {NoSession}] : \A p \in Profiles :
     LET ofProfile == {s \in Sessions : ProfileOf[s] = p /\ list[s] # "none"} IN
     f[p] \in (IF ofProfile = {} THEN {NoSession} ELSE ofProfile)}

NoRows == [s \in Sessions |-> "none"]
NoLast == [p \in Profiles |-> NoSession]

Call(op, arg, m) == [op |-> op, arg |-> arg, mount |-> m]

\* The effect of the page runs once it is mounted: listProjects and
\* listLaunchSessions are called, then the listener is asked for.
Init ==
  /\ Runner!Init
  /\ announced = {}
  /\ profiles = Profiles
  /\ calls = <<Call("startup", NoSession, 1)>>
  /\ answers = <<>>
  /\ mount = 1
  /\ listening = FALSE
  /\ sessionsById = NoRows
  /\ lastSession = NoLast
  /\ pending = <<>>
  /\ asked = {}
  /\ stops = {}
  /\ clicks = 0
  /\ heard = {}
  /\ missed = {}
  /\ crossed = {}
  /\ told = {}

-----------------------------------------------------------------------------
(* The runner by itself.                                                   *)

RunnerOnly ==
  UNCHANGED <<announced, profiles, wireVars, tableVars, userVars, mountVars, history>>

SessionReleases(s) == Runner!Release(s) /\ RunnerOnly
SessionFinishes(s) == Runner!Finish(s) /\ RunnerOnly

\* remember_terminal_session drops ended sessions beyond MaxTerminal.
SessionForgotten(s) ==
  /\ Cardinality({t \in Sessions : life[t] \in Terminal}) > MaxTerminal
  /\ Runner!Forget({s})
  /\ RunnerOnly

-----------------------------------------------------------------------------
(* The user.                                                               *)

ShownActive(p) ==
  {s \in Sessions : ProfileOf[s] = p /\ sessionsById[s] \in Active}

\* startProfile and startAll: the profile shows no active session when the
\* button is pressed; the start is called after the token and the dialog.
AskStart(p) ==
  /\ clicks < MaxClicks
  /\ ShownActive(p) = {}
  /\ clicks' = clicks + 1
  /\ asked' = asked \cup {<<p, mount>>}
  /\ UNCHANGED <<runnerVars, wireVars, tableVars, stops, mountVars, history>>

Confirm(p, m) ==
  /\ <<p, m>> \in asked
  /\ asked' = asked \ {<<p, m>>}
  /\ \/ calls' = Append(calls, Call("start", p, m))
     \/ UNCHANGED calls    \* cancelled, or no token was issued
  /\ UNCHANGED <<runnerVars, answers, tableVars, stops, clicks, mountVars, history>>

\* stopSession and stopAll: of the shown sessions that are active and not
\* stopping; stopAll calls its stops one after the other.
AskStop(s) ==
  /\ clicks < MaxClicks
  /\ sessionsById[s] = "running"
  /\ clicks' = clicks + 1
  /\ stops' = stops \cup {<<s, mount>>}
  /\ UNCHANGED <<runnerVars, wireVars, tableVars, asked, mountVars, history>>

CallStop(s, m) ==
  /\ <<s, m>> \in stops
  /\ stops' = stops \ {<<s, m>>}
  /\ calls' = Append(calls, Call("stop", s, m))
  /\ UNCHANGED <<runnerVars, answers, tableVars, asked, clicks, mountVars, history>>

\* removeProfile, offered while the profile shows no active session.
AskRemove(p) ==
  /\ clicks < MaxClicks
  /\ p \in profiles
  /\ ShownActive(p) = {}
  /\ clicks' = clicks + 1
  /\ calls' = Append(calls, Call("remove", p, mount))
  /\ UNCHANGED <<runnerVars, answers, tableVars, asked, stops, mountVars, history>>

\* The route changes and comes back: a new instance of the hook. Functions of
\* the old one that wait for an answer go on, but no longer reach the screen.
Remount ==
  /\ mount < MaxMounts
  /\ mount' = mount + 1
  /\ listening' = FALSE
  /\ sessionsById' = NoRows
  /\ lastSession' = NoLast
  /\ pending' = <<>>
  /\ calls' = Append(calls, Call("startup", NoSession, mount'))
  /\ heard' = {}
  /\ missed' = {}
  /\ crossed' = {}
  /\ told' = {}
  /\ UNCHANGED <<runnerVars, answers, userVars>>

\* listen() is a command itself; events emitted before it are not delivered.
Listen ==
  /\ ~listening
  /\ listening' = TRUE
  /\ UNCHANGED <<runnerVars, wireVars, tableVars, userVars, mount, history>>

-----------------------------------------------------------------------------
(* Commands: called by the page, run one at a time by the backend.         *)

\* The call at the head is run and its answer is on the way.
Answered(said) ==
  /\ calls' = Tail(calls)
  /\ answers' = Append(answers, [call |-> Head(calls), said |-> said])

\* An error is only a notice to the user.
Refused == calls' = Tail(calls) /\ UNCHANGED answers

IsNext(op) == calls # <<>> /\ Head(calls).op = op

RunList ==
  /\ IsNext("startup") \/ IsNext("list")
  /\ \E lasts \in LastsOf(ActiveList) :
       Answered([list |-> ActiveList, lasts |-> lasts])
  /\ UNCHANGED <<runnerVars, tableVars, userVars, mountVars, history>>

\* start_launch_profile_safe fails for a profile that is owned or removed, and
\* when anything it needs does. The answer says RUNNING, whatever has happened
\* to the session since.
RunStart ==
  /\ IsNext("start")
  /\ \/ \E s \in Sessions :
          /\ ProfileOf[s] = Head(calls).arg
          /\ Head(calls).arg \in profiles
          /\ Runner!Register(s)
          /\ Answered(s)
     \/ Refused /\ UNCHANGED <<life, owner>>
  /\ UNCHANGED <<announced, profiles, tableVars, userVars, mountVars, history>>

\* stop_launch_session: Ok for a session that has ended, an error for one that
\* is forgotten.
RunStop ==
  /\ IsNext("stop")
  /\ LET s == Head(calls).arg IN
       \/ /\ life[s] = "running"
          /\ Runner!RequestStop(s)
          /\ Answered(s) \/ Refused
       \/ /\ life[s] = "stopping"
          /\ Answered(s) \/ Refused
          /\ UNCHANGED <<life, owner>>
       \/ /\ life[s] \in Terminal
          /\ Answered(s)
          /\ UNCHANGED <<life, owner>>
       \/ /\ life[s] = "gone"
          /\ Refused
          /\ UNCHANGED <<life, owner>>
  /\ UNCHANGED <<announced, profiles, tableVars, userVars, mountVars, history>>

\* remove_launch_profile_safe: PROFILE_RUNNING while a session of it is active.
RunRemove ==
  /\ IsNext("remove")
  /\ LET p == Head(calls).arg IN
       \/ /\ \A s \in Sessions : ProfileOf[s] = p => life[s] \notin Active
          /\ profiles' = profiles \ {p}
          /\ Answered(p)
       \/ Refused /\ UNCHANGED profiles
  /\ UNCHANGED <<life, owner, announced, tableVars, userVars, mountVars, history>>

-----------------------------------------------------------------------------
(* The page takes an answer or an event.                                   *)

\* The head answer is for the mount on screen and of this kind.
Arrives(op) == answers # <<>> /\ Head(answers).call.op = op /\ Head(answers).call.mount = mount

Taken ==
  /\ answers' = Tail(answers)
  /\ UNCHANGED <<runnerVars, calls, userVars, mountVars, heard, missed,
                 crossed>>

Names(list) == {s \in Sessions : list[s] # "none"}

\* The answer to the first list replaces the table.
TakeStartup ==
  /\ Arrives("startup")
  /\ sessionsById' = Head(answers).said.list
  /\ lastSession' = Head(answers).said.lasts
  /\ told' = told \cup Names(Head(answers).said.list)
  /\ UNCHANGED pending
  /\ Taken

\* Variant: what was known first wins.
TakeListKeepingLast ==
  /\ Arrives("list")
  /\ LET list == Head(answers).said.list
         lasts == Head(answers).said.lasts
     IN
       /\ sessionsById' = [s \in Sessions |->
                             IF list[s] # "none" THEN list[s] ELSE sessionsById[s]]
       /\ lastSession' = [p \in Profiles |->
                            IF lastSession[p] # NoSession THEN lastSession[p] ELSE lasts[p]]
       /\ told' = told \cup Names(list)
  /\ UNCHANGED pending
  /\ Taken

\* Later lists are merged into it.
TakeList ==
  /\ Arrives("list")
  /\ LET list == Head(answers).said.list
         lasts == Head(answers).said.lasts
     IN
       /\ sessionsById' = [s \in Sessions |->
                             IF list[s] # "none" THEN list[s] ELSE sessionsById[s]]
       /\ lastSession' = [p \in Profiles |->
                            IF lasts[p] # NoSession THEN lasts[p] ELSE lastSession[p]]
       /\ told' = told \cup Names(list)
  /\ UNCHANGED pending
  /\ Taken

Ended(s) == {e \in Ran(pending) : e[1] = s}
NotOf(s) == Only(pending, Ran(pending) \ Ended(s))

\* Variant: the previous session is looked up after the new one was written.
TakeStartedOverItself ==
  /\ Arrives("start")
  /\ LET s == Head(answers).said IN
       /\ sessionsById' = [sessionsById EXCEPT ![s] = "none"]
       /\ lastSession' = [lastSession EXCEPT ![ProfileOf[s]] = s]
       /\ pending' = NotOf(s)
       /\ told' = told \cup {s}
  /\ Taken

\* rememberStartedSession: a final event that came first wins over the answer,
\* and the profile's previous session leaves the table.
TakeStarted ==
  /\ Arrives("start")
  /\ LET s == Head(answers).said
         previous == lastSession[ProfileOf[s]]
     IN
       /\ \E shown \in (IF Ended(s) = {} THEN {"running"} ELSE {e[2] : e \in Ended(s)}) :
            sessionsById' = [t \in Sessions |->
                              CASE t = s -> shown
                                [] t = previous /\ t # s -> "none"
                                [] OTHER -> sessionsById[t]]
       /\ lastSession' = [lastSession EXCEPT ![ProfileOf[s]] = s]
       /\ pending' = NotOf(s)
       /\ told' = told \cup {s}
  /\ Taken

\* markSessionStopping: of a session that is still shown active.
TakeStopped ==
  /\ Arrives("stop")
  /\ LET s == Head(answers).said IN
       sessionsById' = [sessionsById EXCEPT ![s] = IF @ \in Active THEN "stopping" ELSE @]
  /\ UNCHANGED <<lastSession, pending, told>>
  /\ Taken

\* removeProfile, after its answer: the profile's last session is dropped.
TakeRemoved ==
  /\ Arrives("remove")
  /\ LET p == Head(answers).said
         last == lastSession[p]
     IN
       /\ lastSession' = [lastSession EXCEPT ![p] = NoSession]
       /\ sessionsById' = [s \in Sessions |-> IF s = last THEN "none" ELSE sessionsById[s]]
       /\ pending' = NotOf(last)
  /\ UNCHANGED told
  /\ Taken

\* Lists check `disposed`; the state setters of an unmounted hook do nothing.
TakeStale ==
  /\ answers # <<>>
  /\ Head(answers).call.mount # mount
  /\ UNCHANGED <<tableVars, told>>
  /\ Taken

\* Variant: only the events of sessions in the table are kept.
RememberKnown(e) ==
  IF sessionsById[e[1]] = "none" THEN pending
  ELSE Append(IF Len(pending) >= MaxPending THEN Tail(pending) ELSE pending, e)

\* rememberPendingTerminalEvent: the oldest entry makes room.
Remember(e) ==
  Append(IF Len(pending) >= MaxPending THEN Tail(pending) ELSE pending, e)

\* The final event of the wait thread. A session that was forgotten before it
\* is reported Stopped.
FinalState(s) == IF life[s] = "gone" THEN "stopped" ELSE life[s]

\* A list that was made while s was active is still on its way.
Overtaken(s) ==
  \E a \in Ran(answers) :
    a.call.op \in {"startup", "list"} /\ a.call.mount = mount /\ a.said.list[s] # "none"

EventArrives(s) ==
  /\ life[s] \in Terminal \cup {"gone"}
  /\ s \notin announced
  /\ listening
  /\ announced' = announced \cup {s}
  /\ heard' = heard \cup {s}
  /\ crossed' = IF Overtaken(s) THEN crossed \cup {s} ELSE crossed
  /\ pending' = Remember(<<s, FinalState(s)>>)
  /\ sessionsById' = [sessionsById EXCEPT ![s] = IF @ = "none" THEN @ ELSE FinalState(s)]
  /\ calls' = Append(calls, Call("list", NoSession, mount))
  /\ UNCHANGED <<life, owner, profiles, answers, lastSession, userVars, mountVars,
                 missed, told>>

EventMissed(s) ==
  /\ life[s] \in Terminal \cup {"gone"}
  /\ s \notin announced
  /\ ~listening
  /\ announced' = announced \cup {s}
  /\ missed' = missed \cup {s}
  /\ UNCHANGED <<life, owner, profiles, wireVars, tableVars, userVars, mountVars,
                 heard, crossed, told>>

-----------------------------------------------------------------------------

Run == RunList \/ RunStart \/ RunStop \/ RunRemove
Take == TakeStartup \/ TakeList \/ TakeStarted \/ TakeStopped \/ TakeRemoved \/ TakeStale
Announce(s) == EventArrives(s) \/ EventMissed(s)

Next ==
  \/ \E s \in Sessions :
       \/ SessionReleases(s) \/ SessionFinishes(s) \/ SessionForgotten(s)
       \/ AskStop(s) \/ Announce(s)
  \/ \E p \in Profiles : AskStart(p) \/ AskRemove(p)
  \/ \E m \in 1 .. MaxMounts :
       \/ \E p \in Profiles : Confirm(p, m)
       \/ \E s \in Sessions : CallStop(s, m)
  \/ Remount
  \/ Listen
  \/ Run
  \/ Take

\* The event loops of both sides run, and so does every wait thread. The user
\* does nothing that must happen, and no process has to exit.
Fairness ==
  /\ WF_vars(Run)
  /\ WF_vars(Take)
  /\ WF_vars(Listen)
  /\ \A s \in Sessions :
       WF_vars(Announce(s)) /\ WF_vars(SessionFinishes(s))

Spec == Init /\ [][Next]_vars /\ Fairness

-----------------------------------------------------------------------------

\* A session whose end the page was told of is not shown as active again,
\* unless its event overtook a list: not by the late answer of its own start
\* (rememberStartedSession looks the event up, among the last MaxPending), nor
\* by a stop that is answered after it (markSessionStopping).
EndedIsShownEnded ==
  Cardinality(heard) <= MaxPending =>
    \A s \in heard \ crossed : sessionsById[s] \notin Active

\* A session the page knows of and that owns its profile stays in the table as
\* active, whatever answers about its predecessors are still to come: it can
\* be stopped, and its profile is not offered for another start.
RunningStaysShown ==
  \A p \in Profiles : owner[p] \in told => sessionsById[owner[p]] \in Active

\* lastSessionByProfile settles on the running session. While a session that
\* gave its profile back is still listed beside its successor, indexLastSessions
\* may take the old one; the list that follows its final event corrects that.
LastSessionSettles ==
  <>[](\A p \in Profiles :
         /\ owner[p] \in told
         /\ \A s \in missed : ProfileOf[s] # p
         => lastSession[p] = owner[p])

\* useProjectManager.ts:193, "Event-derived state is authoritative enough until
\* the next refresh": what a final event said does not stay replaced by less.
EventStateSettles == <>[](\A s \in heard : sessionsById[s] \notin Active)

=============================================================================
