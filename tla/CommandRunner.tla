---------------------------- MODULE CommandRunner ----------------------------
(***************************************************************************)
(* The launch-session runner: command_runner/mod.rs and the part of        *)
(* windows_job.rs it relies on, with the lifecycle lock that               *)
(* start_launch_profile_safe holds around a start.                         *)
(*                                                                         *)
(* Each action is one critical section (or one system call) of one thread, *)
(* so every interleaving of the code's lock regions is a behaviour here:   *)
(*   - a caller thread runs start or stop (pc, target);                    *)
(*   - the wait thread of a session runs wait_for_child (waiter);          *)
(*   - the operating system ends processes and reuses process ids.         *)
(***************************************************************************)
EXTENDS Naturals, Sequences, FiniteSets

CONSTANTS
  Profiles,       \* launch profile ids
  Sessions,       \* the fresh ids Uuid::new_v4 can return, each used once
  ProfileOf,      \* the profile whose start draws the id
  Callers,        \* threads that run commands
  MaxTerminal,    \* MAX_TERMINAL_SESSIONS (64)
  Forks,          \* whether a command may start processes beside its cmd.exe
  WaitMayFail,    \* whether waiting for a child may fail
  NoSession, NoCaller

ASSUME RunnerAssumption ==
  /\ ProfileOf \in [Sessions -> Profiles]
  /\ MaxTerminal \in Nat \ {0}
  /\ Forks \subseteq BOOLEAN
  /\ WaitMayFail \in BOOLEAN
  /\ IsFiniteSet(Sessions)
  /\ NoSession \notin Sessions
  /\ NoCaller \notin Callers

VARIABLES
  \* Inner: three maps, each behind a mutex of its own
  state,              \* sessions[s].info.state, "absent" when not in the map
  job,                \* where the SessionJob handle of s lives
  profile_running,    \* profile -> session
  terminal_sessions,  \* the VecDeque of remembered terminal sessions
  \* the wait thread of each session
  waiter,             \* where it is in wait_for_child
  verdict,            \* what OwnedProcess::wait returned, then its final_state
  evicted,            \* its local list of ids popped from terminal_sessions
  emitted,            \* finalState of the final launch_output event
  \* callers and the launch lifecycle lock
  lifecycle,
  pc,
  target,             \* the session a call is about
  stopOk,             \* history: sessions some stop call answered Ok for
  \* the operating system
  root,               \* the cmd.exe process: created (suspended, in no job),
                      \* held (suspended, in its job), alive, or its exit code
  descendants,        \* some other process of the job is alive
  pidReused           \* the root's process id now names another process

runnerVars == <<state, job, profile_running, terminal_sessions>>
waitVars   == <<waiter, verdict, evicted, emitted>>
callVars   == <<lifecycle, pc, target, stopOk>>
osVars     == <<root, descendants, pidReused>>
vars       == <<runnerVars, waitVars, callVars, osVars>>

-----------------------------------------------------------------------------

Active   == {"running", "stopping"}
Terminal == {"stopped", "failed"}

StartPCs == {"check", "spawn", "assign", "resume", "capture", "insert", "own", "thread"}
StopPCs  == {"job", "handle", "verify", "kill", "reverify"}
WaitPCs  == {"none", "take", "wait", "decide", "clear", "publish", "drop",
             "remember", "evict", "emit", "done"}

Exited(s) == root[s] \in {"zero", "nonzero"}

\* What closing or terminating the job of a process ends.
InJob == {"held", "alive"}
Living == {"created"} \cup InJob

\* The session's whole process tree is gone (or was never started).
TreeDead(s) == root[s] \notin Living /\ ~descendants[s]

TypeOK ==
  /\ state \in [Sessions -> {"absent"} \cup Active \cup Terminal]
  /\ job \in [Sessions -> {"none", "starter", "session", "waiter", "closed"}]
  /\ profile_running \in [Profiles -> Sessions \cup {NoSession}]
  /\ terminal_sessions \in Seq(Sessions)
  /\ waiter \in [Sessions -> WaitPCs]
  /\ verdict \in
       [Sessions -> {"none", "zero", "nonzero", "error"} \cup Terminal]
  /\ evicted \in [Sessions -> SUBSET Sessions]
  /\ emitted \in [Sessions -> {"none"} \cup Terminal]
  /\ lifecycle \in Callers \cup {NoCaller}
  /\ pc \in [Callers -> {"idle"} \cup StartPCs \cup StopPCs]
  /\ target \in [Callers -> Sessions \cup {NoSession}]
  /\ stopOk \in SUBSET Sessions
  /\ root \in [Sessions -> {"unborn", "zero", "nonzero"} \cup Living]
  /\ descendants \in [Sessions -> BOOLEAN]
  /\ pidReused \in [Sessions -> BOOLEAN]

Init ==
  /\ state = [s \in Sessions |-> "absent"]
  /\ job = [s \in Sessions |-> "none"]
  /\ profile_running = [p \in Profiles |-> NoSession]
  /\ terminal_sessions = <<>>
  /\ waiter = [s \in Sessions |-> "none"]
  /\ verdict = [s \in Sessions |-> "none"]
  /\ evicted = [s \in Sessions |-> {}]
  /\ emitted = [s \in Sessions |-> "none"]
  /\ lifecycle = NoCaller
  /\ pc = [c \in Callers |-> "idle"]
  /\ target = [c \in Callers |-> NoSession]
  /\ stopOk = {}
  /\ root = [s \in Sessions |-> "unborn"]
  /\ descendants = [s \in Sessions |-> FALSE]
  /\ pidReused = [s \in Sessions |-> FALSE]

-----------------------------------------------------------------------------
(* The operating system.                                                   *)

\* A killed process ends with exit code 1; an exited one stays as it is.
KillRoot(s) == root' = [root EXCEPT ![s] = IF @ \in Living THEN "nonzero" ELSE @]

\* TerminateJobObject, and closing the last handle of a KILL_ON_JOB_CLOSE job.
KillTree(s) ==
  /\ root' = [root EXCEPT ![s] = IF @ \in InJob THEN "nonzero" ELSE @]
  /\ descendants' = [descendants EXCEPT ![s] = FALSE]

RootExits(s) ==
  /\ root[s] = "alive"
  /\ \E code \in {"zero", "nonzero"} : root' = [root EXCEPT ![s] = code]
  /\ UNCHANGED <<runnerVars, waitVars, callVars, descendants, pidReused>>

DescendantsExit(s) ==
  /\ descendants[s]
  /\ descendants' = [descendants EXCEPT ![s] = FALSE]
  /\ UNCHANGED <<runnerVars, waitVars, callVars, root, pidReused>>

\* A process id is free once the process has exited and its last handle, the
\* OwnedProcess the wait thread took, is closed on leaving wait_on_process.
\* Nobody but a stop call looks at the id, so reuse is left out otherwise.
PidReuse(s) ==
  /\ \E c \in Callers : target[c] = s
  /\ Exited(s)
  /\ waiter[s] \notin {"none", "take", "wait", "decide"}
  /\ ~pidReused[s]
  /\ pidReused' = [pidReused EXCEPT ![s] = TRUE]
  /\ UNCHANGED <<runnerVars, waitVars, callVars, root, descendants>>

-----------------------------------------------------------------------------
(* start_launch_profile_safe -> CommandRunnerState::start                  *)

GoTo(c, label) == pc' = [pc EXCEPT ![c] = label]

Return(c) ==
  /\ pc' = [pc EXCEPT ![c] = "idle"]
  /\ target' = [target EXCEPT ![c] = NoSession]

\* Variant: the guard outlives the command.
UnlockForgotten == UNCHANGED lifecycle

\* Dropping the guard of the lifecycle lock.
Unlock == lifecycle' = NoCaller

LifecycleFree == lifecycle = NoCaller

\* lock_launch_lifecycle, then the read-only checks on the stored profile.
StartLock(c, s) ==
  /\ pc[c] = "idle"
  /\ root[s] = "unborn"
  /\ \A d \in Callers : target[d] # s
  /\ LifecycleFree
  /\ lifecycle' = c
  /\ target' = [target EXCEPT ![c] = s]
  /\ GoTo(c, "check")
  /\ UNCHANGED <<runnerVars, waitVars, osVars, stopOk>>

\* contains_key under the profile_running lock; LAUNCH_ALREADY_RUNNING.
StartCheck(c) ==
  /\ pc[c] = "check"
  /\ \/ /\ profile_running[ProfileOf[target[c]]] = NoSession
        /\ GoTo(c, "spawn")
        /\ UNCHANGED <<lifecycle, target>>
     \/ /\ profile_running[ProfileOf[target[c]]] # NoSession
        /\ Return(c)
        /\ Unlock
  /\ UNCHANGED <<runnerVars, waitVars, osVars, stopOk>>

\* spawn_cmd_session: SessionJob::new, then CreateProcessW with CREATE_SUSPENDED.
\* A failure of either, or of the pipes in between, leaves no process.
StartSpawn(c) ==
  /\ pc[c] = "spawn"
  /\ \/ /\ root' = [root EXCEPT ![target[c]] = "created"]
        /\ job' = [job EXCEPT ![target[c]] = "starter"]
        /\ GoTo(c, "assign")
        /\ UNCHANGED <<lifecycle, target>>
     \/ /\ Return(c)
        /\ Unlock
        /\ UNCHANGED <<job, root>>
  /\ UNCHANGED <<state, profile_running, terminal_sessions, waitVars, stopOk,
                 descendants, pidReused>>

\* Variant: the error path relies on the job alone.
DiscardWithJob(s) ==
  /\ job' = [job EXCEPT ![s] = "closed"]
  /\ KillTree(s)

\* terminate_process_handle, then the job is dropped. The child has not run yet.
Discard(s) ==
  /\ job' = [job EXCEPT ![s] = "closed"]
  /\ KillRoot(s)
  /\ UNCHANGED descendants

\* assign_process
StartAssign(c) ==
  /\ pc[c] = "assign"
  /\ \/ /\ root' = [root EXCEPT ![target[c]] = "held"]
        /\ GoTo(c, "resume")
        /\ UNCHANGED <<job, descendants, lifecycle, target>>
     \/ /\ Discard(target[c])
        /\ Return(c)
        /\ Unlock
  /\ UNCHANGED <<state, profile_running, terminal_sessions, waitVars, stopOk,
                 pidReused>>

\* ResumeThread
StartResume(c) ==
  /\ pc[c] = "resume"
  /\ \/ /\ root' = [root EXCEPT ![target[c]] = "alive"]
        /\ \E forks \in Forks :
             descendants' = [descendants EXCEPT ![target[c]] = forks]
        /\ GoTo(c, "capture")
        /\ UNCHANGED <<job, lifecycle, target>>
     \/ /\ Discard(target[c])
        /\ Return(c)
        /\ Unlock
  /\ UNCHANGED <<state, profile_running, terminal_sessions, waitVars, stopOk,
                 pidReused>>

\* What `?` leaves of a SpawnedSession on the error path: both handles are
\* dropped, and closing the job kills what runs in it.
AbandonSpawned(s) ==
  /\ job' = [job EXCEPT ![s] = "closed"]
  /\ KillTree(s)

\* DirectChildIdentity::capture reads the start time of a live process; it
\* fails when the child is already gone, and may fail for a live one.
StartCapture(c) ==
  /\ pc[c] = "capture"
  /\ \/ /\ root[target[c]] = "alive"
        /\ GoTo(c, "insert")
        /\ UNCHANGED <<job, root, descendants, lifecycle, target>>
     \/ /\ AbandonSpawned(target[c])
        /\ Return(c)
        /\ Unlock
  /\ UNCHANGED <<state, profile_running, terminal_sessions, waitVars, stopOk,
                 pidReused>>

\* sessions.lock().insert: the session is visible from here on.
StartInsert(c) ==
  /\ pc[c] = "insert"
  /\ state' = [state EXCEPT ![target[c]] = "running"]
  /\ job' = [job EXCEPT ![target[c]] = "session"]
  /\ GoTo(c, "own")
  /\ UNCHANGED <<profile_running, terminal_sessions, waitVars, osVars,
                 lifecycle, target, stopOk>>

\* profile_running.lock().insert
StartOwn(c) ==
  /\ pc[c] = "own"
  /\ profile_running' =
       [profile_running EXCEPT ![ProfileOf[target[c]]] = target[c]]
  /\ GoTo(c, "thread")
  /\ UNCHANGED <<state, job, terminal_sessions, waitVars, osVars, lifecycle,
                 target, stopOk>>

\* spawn_io_and_wait starts the wait thread, then the command returns.
StartThread(c) ==
  /\ pc[c] = "thread"
  /\ waiter' = [waiter EXCEPT ![target[c]] = "take"]
  /\ Return(c)
  /\ Unlock
  /\ UNCHANGED <<runnerVars, verdict, evicted, emitted, osVars,
                 stopOk>>

-----------------------------------------------------------------------------
(* stop_launch_session -> CommandRunnerState::stop. No lifecycle lock.     *)

ReturnOk(c) == Return(c) /\ stopOk' = stopOk \cup {target[c]}
ReturnErr(c) == Return(c) /\ UNCHANGED stopOk

\* Variant: without the early return for terminal sessions.
StoppableAlways(s) == state[s] # "absent"

Stoppable(s) == state[s] \in Active

\* Running becomes Stopping; a session that is Stopping already is retried.
StopMark(c, s) ==
  /\ pc[c] = "idle"
  /\ Stoppable(s)
  /\ state' = [state EXCEPT ![s] = "stopping"]
  /\ target' = [target EXCEPT ![c] = s]
  /\ GoTo(c, "job")
  /\ UNCHANGED <<job, profile_running, terminal_sessions, waitVars, osVars,
                 lifecycle, stopOk>>

\* A terminal session is answered Ok at once.
StopSettled(c, s) ==
  /\ pc[c] = "idle"
  /\ state[s] \in Terminal
  /\ stopOk' = stopOk \cup {s}
  /\ UNCHANGED <<runnerVars, waitVars, osVars, lifecycle, pc, target>>

\* An unknown id: LAUNCH_SESSION_NOT_FOUND.
StopUnknown(c, s) ==
  /\ pc[c] = "idle"
  /\ state[s] = "absent"
  /\ UNCHANGED vars

\* TerminateJobObject under the sessions lock, while the session has its job.
StopJob(c) ==
  /\ pc[c] = "job"
  /\ \/ /\ job[target[c]] = "session"
        /\ KillTree(target[c])
        /\ ReturnOk(c)
     \/ /\ GoTo(c, "handle")       \* no job any more, or the call failed
        /\ UNCHANGED <<root, descendants, target, stopOk>>
  /\ UNCHANGED <<runnerVars, waitVars, lifecycle, pidReused>>

\* The OwnedProcess is in the session until the wait thread takes it.
HandleInSession(s) == state[s] # "absent" /\ waiter[s] \in {"none", "take"}

\* TerminateProcess under the sessions lock: the root alone.
StopHandle(c) ==
  /\ pc[c] = "handle"
  /\ \/ /\ HandleInSession(target[c])
        /\ KillRoot(target[c])
        /\ ReturnOk(c)
     \/ /\ GoTo(c, "verify")
        /\ UNCHANGED <<root, target, stopOk>>
  /\ UNCHANGED <<runnerVars, waitVars, lifecycle, descendants, pidReused>>

\* verify_pid_identity. The captured start time is taken to tell a process
\* from a later one with its id.
Gone(s)     == Exited(s) /\ ~pidReused[s]
Mismatch(s) == Exited(s) /\ pidReused[s]
Matches(s)  == root[s] = "alive"

StopVerify(c) ==
  /\ pc[c] = "verify"
  /\ \/ Gone(target[c]) /\ ReturnOk(c)
     \/ Mismatch(target[c]) /\ ReturnErr(c)
     \/ Matches(target[c]) /\ GoTo(c, "kill") /\ UNCHANGED <<target, stopOk>>
  /\ UNCHANGED <<runnerVars, waitVars, osVars, lifecycle>>

\* taskkill /PID /F succeeds on a live process only, be it the child or one
\* that was given its id since the check.
StopKill(c) ==
  /\ pc[c] = "kill"
  /\ \/ /\ Matches(target[c]) \/ Mismatch(target[c])
        /\ KillRoot(target[c])
        /\ ReturnOk(c)
     \/ /\ GoTo(c, "reverify")
        /\ UNCHANGED <<root, target, stopOk>>
  /\ UNCHANGED <<runnerVars, waitVars, lifecycle, descendants, pidReused>>

\* Variant: a failed taskkill is not reported.
StopReverifyOk(c) ==
  /\ pc[c] = "reverify"
  /\ ReturnOk(c)
  /\ UNCHANGED <<runnerVars, waitVars, osVars, lifecycle>>

\* LAUNCH_STOP_FAILED unless the child is gone by now.
StopReverify(c) ==
  /\ pc[c] = "reverify"
  /\ IF Gone(target[c]) THEN ReturnOk(c) ELSE ReturnErr(c)
  /\ UNCHANGED <<runnerVars, waitVars, osVars, lifecycle>>

-----------------------------------------------------------------------------
(* wait_for_child: one thread per session.                                 *)

WaitAt(s, label) == waiter[s] = label
WaitGoTo(s, label) == waiter' = [waiter EXCEPT ![s] = label]

\* session.process.take() under the sessions lock.
WaitTake(s) ==
  /\ WaitAt(s, "take")
  /\ WaitGoTo(s, "wait")
  /\ UNCHANGED <<runnerVars, verdict, evicted, emitted, callVars, osVars>>

\* WaitForSingleObject(INFINITE) returns when the root has exited.
WaitReturns(s) ==
  /\ WaitAt(s, "wait")
  /\ Exited(s)
  /\ verdict' = [verdict EXCEPT ![s] = root[s]]
  /\ WaitGoTo(s, "decide")
  /\ UNCHANGED <<runnerVars, evicted, emitted, callVars, osVars>>

\* The wait or GetExitCodeProcess fails, or the exit code is STILL_ACTIVE.
WaitFails(s) ==
  /\ WaitMayFail
  /\ WaitAt(s, "wait")
  /\ verdict' = [verdict EXCEPT ![s] = "error"]
  /\ WaitGoTo(s, "decide")
  /\ UNCHANGED <<runnerVars, evicted, emitted, callVars, osVars>>

\* terminal_state_after_wait
TerminalStateAfterWait(result, observed) ==
  IF result # "error" /\ (observed = "stopping" \/ result = "zero")
  THEN "stopped" ELSE "failed"

\* The state is read under the sessions lock and used after it is released.
WaitDecide(s) ==
  /\ WaitAt(s, "decide")
  /\ verdict' =
       [verdict EXCEPT ![s] = TerminalStateAfterWait(verdict[s], state[s])]
  /\ WaitGoTo(s, "clear")
  /\ UNCHANGED <<runnerVars, evicted, emitted, callVars, osVars>>

\* publish_terminal_session, first lock: profile_running.remove(profile_id),
\* whatever session the entry names.
WaitClear(s) ==
  /\ WaitAt(s, "clear")
  /\ profile_running' = [profile_running EXCEPT ![ProfileOf[s]] = NoSession]
  /\ WaitGoTo(s, "publish")
  /\ UNCHANGED <<state, job, terminal_sessions, verdict, evicted,
                 emitted, callVars, osVars>>

\* Second lock: the terminal state becomes visible and the job is taken out.
WaitPublish(s) ==
  /\ WaitAt(s, "publish")
  /\ state' = [state EXCEPT ![s] = verdict[s]]
  /\ job' = [job EXCEPT ![s] = "waiter"]
  /\ WaitGoTo(s, "drop")
  /\ UNCHANGED <<profile_running, terminal_sessions, verdict,
                 evicted, emitted, callVars, osVars>>

\* Variant: the job taken out of the session is leaked.
WaitLeakJob(s) ==
  /\ WaitAt(s, "drop")
  /\ WaitGoTo(s, "remember")
  /\ UNCHANGED <<runnerVars, verdict, evicted, emitted, callVars, osVars>>

\* drop(job_released), outside every lock: what still ran in the job is killed.
WaitDropJob(s) ==
  /\ WaitAt(s, "drop")
  /\ job' = [job EXCEPT ![s] = "closed"]
  /\ KillTree(s)
  /\ WaitGoTo(s, "remember")
  /\ UNCHANGED <<state, profile_running, terminal_sessions, verdict,
                 evicted, emitted, callVars, pidReused>>

\* Variant: what is popped from the history stays in the map.
PoppedForgotten(q) == {}

\* The newest MaxTerminal entries, and the entries popped to get there.
Newest(q) ==
  IF Len(q) > MaxTerminal THEN SubSeq(q, Len(q) - MaxTerminal + 1, Len(q)) ELSE q
Popped(q) ==
  IF Len(q) > MaxTerminal THEN {q[i] : i \in 1 .. Len(q) - MaxTerminal} ELSE {}

\* Variant: without evictions the thread ends early.
AfterRememberReturn(q) == IF Popped(q) = {} THEN "done" ELSE "evict"

AfterRemember(q) == IF Popped(q) = {} THEN "emit" ELSE "evict"

\* remember_terminal_session, under the terminal_sessions lock. An id is
\* remembered once, so the early return for a known id is never taken.
WaitRemember(s) ==
  /\ WaitAt(s, "remember")
  /\ LET pushed == Append(terminal_sessions, s) IN
       /\ terminal_sessions' = Newest(pushed)
       /\ evicted' = [evicted EXCEPT ![s] = Popped(pushed)]
       /\ WaitGoTo(s, AfterRemember(pushed))
  /\ UNCHANGED <<state, job, profile_running, verdict, emitted,
                 callVars, osVars>>

\* remember_terminal_session, under the sessions lock: popped ids that are
\* terminal leave the map.
WaitEvict(s) ==
  /\ WaitAt(s, "evict")
  /\ state' = [t \in Sessions |->
                 IF t \in evicted[s] /\ state[t] \in Terminal
                 THEN "absent" ELSE state[t]]
  /\ evicted' = [evicted EXCEPT ![s] = {}]
  /\ WaitGoTo(s, "emit")
  /\ UNCHANGED <<job, profile_running, terminal_sessions, verdict,
                 emitted, callVars, osVars>>

\* get(..).unwrap_or(Stopped): the session is looked up again.
Reported(s) == IF state[s] = "absent" THEN "stopped" ELSE state[s]

\* The final launch_output event.
WaitEmit(s) ==
  /\ WaitAt(s, "emit")
  /\ emitted' = [emitted EXCEPT ![s] = Reported(s)]
  /\ WaitGoTo(s, "done")
  /\ UNCHANGED <<runnerVars, verdict, evicted, callVars, osVars>>

-----------------------------------------------------------------------------

\* Steps a thread takes by itself once it has begun.
StartStep(c) ==
  \/ StartCheck(c)
  \/ StartSpawn(c)
  \/ StartAssign(c)
  \/ StartResume(c)
  \/ StartCapture(c)
  \/ StartInsert(c)
  \/ StartOwn(c)
  \/ StartThread(c)

StopStep(c) ==
  \/ StopJob(c)
  \/ StopHandle(c)
  \/ StopVerify(c)
  \/ StopKill(c)
  \/ StopReverify(c)

WaitStep(s) ==
  \/ WaitTake(s)
  \/ WaitReturns(s)
  \/ WaitDecide(s)
  \/ WaitClear(s)
  \/ WaitPublish(s)
  \/ WaitDropJob(s)
  \/ WaitRemember(s)
  \/ WaitEvict(s)
  \/ WaitEmit(s)

Next ==
  \/ \E c \in Callers, s \in Sessions :
       StartLock(c, s) \/ StopMark(c, s) \/ StopSettled(c, s) \/ StopUnknown(c, s)
  \/ \E c \in Callers : StartStep(c) \/ StopStep(c)
  \/ \E s \in Sessions : WaitStep(s) \/ WaitFails(s)
  \/ \E s \in Sessions : RootExits(s) \/ DescendantsExit(s) \/ PidReuse(s)

\* Threads that have work to do are scheduled. Nothing makes the user call a
\* command, a process exit, or a wait fail.
Fairness ==
  /\ \A c \in Callers : WF_vars(StartStep(c)) /\ WF_vars(StopStep(c))
  /\ \A s \in Sessions : WF_vars(WaitStep(s))

Spec == Init /\ [][Next]_vars /\ Fairness
-----------------------------------------------------------------------------
(* Properties.                                                             *)

\* Between its insertion and profile_running.remove a session owns its profile.
Owns(s) ==
  /\ state[s] \in Active
  /\ waiter[s] \in {"none", "take", "wait", "decide", "clear"}

\* A start that has inserted its session and not yet its profile entry.
Claiming(s) == \E c \in Callers : pc[c] = "own" /\ target[c] = s

\* Two registered sessions never own one profile, although start checks
\* profile_running long before it inserts into it.
OneOwnerPerProfile ==
  \A s, t \in Sessions :
    Owns(s) /\ Owns(t) /\ ProfileOf[s] = ProfileOf[t] => s = t

\* profile_running names exactly the owner. So the wait thread's remove by
\* profile id never takes a newer session's entry, and a profile is startable
\* as soon as a terminal state of its session can be observed.
RunningEntryIsOwner ==
  /\ \A p \in Profiles : profile_running[p] # NoSession =>
       Owns(profile_running[p]) /\ ProfileOf[profile_running[p]] = p
  /\ \A s \in Sessions :
       Owns(s) /\ ~Claiming(s) => profile_running[ProfileOf[s]] = s

\* Processes of two sessions of a profile are alive together only while the
\* wait thread of one of them is between giving the profile back and closing
\* its job.
TreesOverlapOnlyAtHandover ==
  \A s, t \in Sessions :
    /\ s # t /\ ProfileOf[s] = ProfileOf[t]
    /\ ~TreeDead(s) /\ ~TreeDead(t)
    => {waiter[s], waiter[t]} \cap {"publish", "drop"} # {}

\* Whatever a start has launched is in a job some thread still holds, so no
\* error path, and not the end of the application, leaves a process behind; but
\* for a child that was created and not yet assigned, which its start ends when
\* it cannot assign it, and which the end of the application would leave behind.
NoOrphanProcess ==
  \A s \in Sessions :
    /\ ~TreeDead(s) => job[s] \in {"starter", "session", "waiter"}
    /\ root[s] = "created" => \E c \in Callers : pc[c] = "assign" /\ target[c] = s

InHistory(s) == \E i \in 1 .. Len(terminal_sessions) : terminal_sessions[i] = s

\* The wait threads that hold up a terminal session: it is not remembered yet,
\* or one that is no longer remembered is not forgotten yet.
Held == {s \in Sessions : waiter[s] \in {"drop", "remember", "evict"}}

\* The map holds at most MaxTerminal terminal sessions besides those that are
\* being published or evicted at this moment, and every remembered session is
\* in it, in a terminal state.
HistoryKept ==
  /\ Cardinality({s \in Sessions : state[s] \in Terminal})
       <= MaxTerminal + Cardinality(Held)
  /\ \A s \in Sessions : InHistory(s) => state[s] \in Terminal

\* stop answers Ok only when the direct child is gone or the session is over.
StopOkIsHonest ==
  \A s \in stopOk : root[s] # "alive" \/ state[s] \notin Active

\* The whole process tree of a session ends once stop has answered Ok, even
\* when the job could not be terminated and the root alone was killed, and
\* once a terminal state was published.
TreeEnds ==
  \A s \in Sessions : s \in stopOk \/ state[s] \in Terminal ~> TreeDead(s)

\* When the root of a started session has exited, the final event is emitted.
ExitIsReported ==
  \A s \in Sessions :
    Exited(s) /\ state[s] \in Active ~> emitted[s] # "none"

-----------------------------------------------------------------------------
(* The inductive invariant behind the safety properties.                   *)

\* A start whose child is not in the map of sessions yet.
SpawnedPCs == {"assign", "resume", "capture", "insert"}

\* What each position of a caller says of the session it is about. A starter
\* holds the lifecycle lock, so nobody fills its profile's entry meanwhile.
CallerOK(c) ==
  /\ pc[c] \in StartPCs <=> lifecycle = c
  /\ pc[c] # "idle" => target[c] \in Sessions
  /\ pc[c] \in {"check", "spawn"} => root[target[c]] = "unborn"
  /\ pc[c] = "assign" => root[target[c]] = "created"
  /\ pc[c] = "resume" => root[target[c]] = "held"
  /\ pc[c] \in SpawnedPCs =>
       /\ root[target[c]] # "unborn" /\ state[target[c]] = "absent"
       /\ job[target[c]] = "starter" /\ waiter[target[c]] = "none"
  /\ pc[c] \in {"own", "thread"} =>
       state[target[c]] \in Active /\ waiter[target[c]] = "none"
  /\ pc[c] \in {"spawn", "own"} \cup SpawnedPCs =>
       profile_running[ProfileOf[target[c]]] = NoSession
  /\ pc[c] = "thread" =>
       profile_running[ProfileOf[target[c]]] = target[c]
  /\ pc[c] \in StopPCs => root[target[c]] # "unborn"

\* How a session's state, job and processes go with its wait thread.
SessionOK(s) ==
  /\ root[s] = "unborn" => state[s] = "absent" /\ waiter[s] = "none"
  /\ root[s] \in {"unborn", "created", "held"} => ~descendants[s]
  /\ state[s] \in Active <=>
       \/ waiter[s] \in {"take", "wait", "decide", "clear", "publish"}
       \/ \E c \in Callers : pc[c] \in {"own", "thread"} /\ target[c] = s
  /\ state[s] \in Active => job[s] = "session"
  /\ state[s] \in Terminal =>
       waiter[s] \in {"drop", "remember", "evict", "emit", "done"}
  /\ waiter[s] = "drop" => job[s] = "waiter"
  /\ ~TreeDead(s) =>
       \/ state[s] \in Active
       \/ waiter[s] = "drop"
       \/ \E c \in Callers : pc[c] \in SpawnedPCs /\ target[c] = s
  /\ root[s] = "created" => \E c \in Callers : pc[c] = "assign" /\ target[c] = s
  /\ waiter[s] = "decide" => verdict[s] \in {"zero", "nonzero", "error"}
  /\ waiter[s] \in {"clear", "publish"} => verdict[s] \in Terminal

\* After an Ok answer the direct child is gone, or the session was published.
StopInv ==
  \A s \in stopOk :
    Exited(s) \/ waiter[s] \in {"drop", "remember", "evict", "emit", "done"}

\* Everything a step of the runner relies on.
CallerInv == \A c \in Callers : CallerOK(c)
SessionInv == \A s \in Sessions : SessionOK(s)
RunnerInv == TypeOK /\ CallerInv /\ SessionInv /\ StopInv /\ RunningEntryIsOwner

\* Each session is remembered once, after its job was dropped, and is terminal
\* until a thread evicts it; a thread evicts at most one, which it has popped.
\* So a terminal session is remembered, about to be, or about to be evicted.
HistoryInv ==
  /\ Len(terminal_sessions) <= MaxTerminal
  /\ \A i, j \in 1 .. Len(terminal_sessions) :
       terminal_sessions[i] = terminal_sessions[j] => i = j
  /\ \A s \in Sessions :
       /\ InHistory(s) =>
            state[s] \in Terminal /\ waiter[s] \in {"evict", "emit", "done"}
       /\ waiter[s] \in {"drop", "remember"} => state[s] \in Terminal
       /\ evicted[s] # {} =>
            /\ waiter[s] = "evict"
            /\ \E t \in Sessions : evicted[s] = {t}
       /\ \A t \in evicted[s] :
            ~InHistory(t) /\ waiter[t] \in {"evict", "emit", "done"}
       /\ state[s] \in Terminal =>
            \/ InHistory(s)
            \/ waiter[s] \in {"drop", "remember"}
            \/ \E t \in Sessions : s \in evicted[t]

-----------------------------------------------------------------------------
(* The runner implements SessionLifecycle.                                 *)

\* The wait thread of an absent session runs only after it was evicted.
LifeOf(s) ==
  IF state[s] = "absent" /\ waiter[s] # "none" THEN "gone" ELSE state[s]

\* The session profile_running names, or the one that is about to be entered.
OwnerOf(p) ==
  IF /\ lifecycle # NoCaller
     /\ pc[lifecycle] = "own"
     /\ ProfileOf[target[lifecycle]] = p
  THEN target[lifecycle] ELSE profile_running[p]

Lifecycle == INSTANCE SessionLifecycle WITH
  life <- [s \in Sessions |-> LifeOf(s)],
  owner <- [p \in Profiles |-> OwnerOf(p)]

\* Every behaviour of the runner is one of SessionLifecycle: a session starts
\* only in a free profile, gives it back before it turns terminal, turns
\* terminal once, and is forgotten only then.
LifecycleImplemented == Lifecycle!Safety

=============================================================================
