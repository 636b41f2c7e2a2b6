------------------------- MODULE CommandRunnerProofs -------------------------
(***************************************************************************)
(* Proofs about CommandRunner, for every set of profiles, sessions and     *)
(* callers and every bound on the terminal history.                        *)
(***************************************************************************)
EXTENDS CommandRunner, FiniteSetTheorems, TLAPS

-----------------------------------------------------------------------------
(* Type correctness.                                                       *)

\* The trimmed history is a sequence of sessions, and what was popped from it
\* is a set of sessions (remember_terminal_session).
LEMMA HistoryTypes ==
  ASSUME NEW q \in Seq(Sessions)
  PROVE  Newest(q) \in Seq(Sessions) /\ Popped(q) \in SUBSET Sessions
<1>1. MaxTerminal \in Nat
  BY RunnerAssumption
<1>2. Newest(q) \in Seq(Sessions)
  BY <1>1 DEF Newest
<1>3. Popped(q) \in SUBSET Sessions
  BY <1>1 DEF Popped
<1> QED
  BY <1>2, <1>3

\* Killing processes changes which are alive and nothing else.
LEMMA KillTypes ==
  ASSUME TypeOK, NEW s \in Sessions, KillTree(s)
  PROVE  /\ root' \in [Sessions -> {"unborn", "zero", "nonzero"} \cup Living]
         /\ descendants' \in [Sessions -> BOOLEAN]
BY DEF TypeOK, KillTree

\* The same of killing the cmd.exe process alone.
LEMMA KillRootTypes ==
  ASSUME TypeOK, NEW s \in Sessions, KillRoot(s)
  PROVE  root' \in [Sessions -> {"unborn", "zero", "nonzero"} \cup Living]
BY DEF TypeOK, KillRoot

\* No operation of the runner leaves the types of its state.
LEMMA TypeStep == RunnerInv /\ [Next]_vars => TypeOK'
<1> SUFFICES ASSUME TypeOK, CallerInv, SessionInv, [Next]_vars PROVE TypeOK'
  BY DEF RunnerInv
<1> USE RunnerAssumption DEF TypeOK, StartPCs, StopPCs, SpawnedPCs, WaitPCs, Active, Terminal,
      runnerVars, waitVars, callVars, osVars, GoTo, Return, Unlock, WaitAt, WaitGoTo
<1>0. \A c \in Callers : pc[c] # "idle" => target[c] \in Sessions
  BY DEF CallerInv, CallerOK
<1>00. {"created", "held", "alive"} \subseteq Living
  BY DEF Living, InJob
<1>1. ASSUME NEW c \in Callers, NEW s \in Sessions, StartLock(c, s) PROVE TypeOK'
  BY <1>1 DEF StartLock
<1>2. ASSUME NEW c \in Callers, NEW s \in Sessions, StopMark(c, s) PROVE TypeOK'
  BY <1>2 DEF StopMark, Stoppable
<1>3. ASSUME NEW c \in Callers, NEW s \in Sessions, StopSettled(c, s) PROVE TypeOK'
  BY <1>3 DEF StopSettled
<1>4. ASSUME NEW c \in Callers, NEW s \in Sessions, StopUnknown(c, s) PROVE TypeOK'
  BY <1>4 DEF StopUnknown, vars
<1>5. ASSUME NEW c \in Callers, StartCheck(c) PROVE TypeOK'
  <2>1. CASE GoTo(c, "spawn") /\ UNCHANGED <<lifecycle, target>>
    BY <1>5, <2>1 DEF StartCheck
  <2>2. CASE Return(c) /\ Unlock
    BY <1>5, <2>2 DEF StartCheck
  <2> QED
    BY <1>5, <2>1, <2>2 DEF StartCheck
<1>6. ASSUME NEW c \in Callers, StartSpawn(c) PROVE TypeOK'
  BY <1>6, <1>0, <1>00 DEF StartSpawn
<1>30. ASSUME NEW c \in Callers, StartAssign(c) PROVE TypeOK'
  <2>1. target[c] \in Sessions
    BY <1>30, <1>0 DEF StartAssign
  <2>2. CASE Discard(target[c]) /\ Return(c) /\ Unlock
    <3>1. root' \in [Sessions -> {"unborn", "zero", "nonzero"} \cup Living]
      BY <2>1, <2>2, KillRootTypes DEF Discard
    <3>2. /\ job' \in [Sessions -> {"none", "starter", "session", "waiter", "closed"}]
          /\ lifecycle' \in Callers \cup {NoCaller}
          /\ pc' \in [Callers -> {"idle"} \cup StartPCs \cup StopPCs]
          /\ target' \in [Callers -> Sessions \cup {NoSession}]
      BY <2>2 DEF Discard
    <3> QED
      BY <1>30, <2>2, <3>1, <3>2 DEF StartAssign, Discard
  <2>3. CASE root' = [root EXCEPT ![target[c]] = "held"] /\ GoTo(c, "resume")
    BY <1>30, <1>00, <2>3 DEF StartAssign
  <2> QED
    BY <1>30, <2>2, <2>3 DEF StartAssign
<1>31. ASSUME NEW c \in Callers, StartResume(c) PROVE TypeOK'
  <2>1. target[c] \in Sessions
    BY <1>31, <1>0 DEF StartResume
  <2>2. CASE Discard(target[c]) /\ Return(c) /\ Unlock
    <3>1. root' \in [Sessions -> {"unborn", "zero", "nonzero"} \cup Living]
      BY <2>1, <2>2, KillRootTypes DEF Discard
    <3>2. /\ job' \in [Sessions -> {"none", "starter", "session", "waiter", "closed"}]
          /\ lifecycle' \in Callers \cup {NoCaller}
          /\ pc' \in [Callers -> {"idle"} \cup StartPCs \cup StopPCs]
          /\ target' \in [Callers -> Sessions \cup {NoSession}]
      BY <2>2 DEF Discard
    <3> QED
      BY <1>31, <2>2, <3>1, <3>2 DEF StartResume, Discard
  <2>3. CASE root' = [root EXCEPT ![target[c]] = "alive"] /\ GoTo(c, "capture")
    <3>1. /\ pc' \in [Callers -> {"idle"} \cup StartPCs \cup StopPCs]
          /\ UNCHANGED <<runnerVars, waitVars, lifecycle, target, stopOk, pidReused>>
      BY <1>31, <2>3 DEF StartResume
    <3>2. root' \in [Sessions -> {"unborn", "zero", "nonzero"} \cup Living]
      BY <1>00, <2>3
    <3>3. descendants' \in [Sessions -> BOOLEAN]
      BY <1>31, <2>3, RunnerAssumption DEF StartResume
    <3> QED
      BY <3>1, <3>2, <3>3
  <2> QED
    BY <1>31, <2>2, <2>3 DEF StartResume
<1>7. ASSUME NEW c \in Callers, StartCapture(c) PROVE TypeOK'
  <2>1. target[c] \in Sessions
    BY <1>7, <1>0 DEF StartCapture
  <2>2. CASE AbandonSpawned(target[c]) /\ Return(c) /\ Unlock
    <3>1. job' \in [Sessions -> {"none", "starter", "session", "waiter", "closed"}]
      BY <2>2 DEF AbandonSpawned
    <3>2. /\ root' \in [Sessions -> {"unborn", "zero", "nonzero"} \cup Living]
          /\ descendants' \in [Sessions -> BOOLEAN]
      BY <2>1, <2>2, KillTypes DEF AbandonSpawned
    <3>3. /\ lifecycle' \in Callers \cup {NoCaller}
          /\ pc' \in [Callers -> {"idle"} \cup StartPCs \cup StopPCs]
          /\ target' \in [Callers -> Sessions \cup {NoSession}]
      BY <2>2
    <3> QED
      BY <1>7, <3>1, <3>2, <3>3 DEF StartCapture
  <2>3. CASE GoTo(c, "insert")
    BY <1>7, <2>3 DEF StartCapture
  <2> QED
    BY <1>7, <2>2, <2>3 DEF StartCapture
<1>8. ASSUME NEW c \in Callers, StartInsert(c) PROVE TypeOK'
  BY <1>8 DEF StartInsert
<1>9. ASSUME NEW c \in Callers, StartOwn(c) PROVE TypeOK'
  BY <1>9 DEF StartOwn
<1>10. ASSUME NEW c \in Callers, StartThread(c) PROVE TypeOK'
  BY <1>10 DEF StartThread
<1>11. ASSUME NEW c \in Callers, StopJob(c) PROVE TypeOK'
  BY <1>11, <1>0, KillTypes DEF StopJob, ReturnOk
<1>12. ASSUME NEW c \in Callers, StopHandle(c) PROVE TypeOK'
  BY SMTT(40), <1>12, <1>0, KillRootTypes DEF StopHandle, ReturnOk
<1>13. ASSUME NEW c \in Callers, StopVerify(c) PROVE TypeOK'
  BY SMTT(40), <1>13, <1>0 DEF StopVerify, ReturnOk, ReturnErr
<1>14. ASSUME NEW c \in Callers, StopKill(c) PROVE TypeOK'
  BY SMTT(40), <1>14, <1>0, KillRootTypes DEF StopKill, ReturnOk
<1>15. ASSUME NEW c \in Callers, StopReverify(c) PROVE TypeOK'
  BY <1>15, <1>0 DEF StopReverify, ReturnOk, ReturnErr
<1>16. ASSUME NEW s \in Sessions, WaitTake(s) PROVE TypeOK'
  BY <1>16 DEF WaitTake
<1>17. ASSUME NEW s \in Sessions, WaitReturns(s) PROVE TypeOK'
  BY <1>17 DEF WaitReturns, Exited
<1>18. ASSUME NEW s \in Sessions, WaitDecide(s) PROVE TypeOK'
  BY <1>18 DEF WaitDecide, TerminalStateAfterWait
<1>19. ASSUME NEW s \in Sessions, WaitClear(s) PROVE TypeOK'
  BY <1>19 DEF WaitClear
<1>20. ASSUME NEW s \in Sessions, WaitPublish(s) PROVE TypeOK'
  BY <1>20 DEF WaitPublish, SessionInv, SessionOK
<1>21. ASSUME NEW s \in Sessions, WaitDropJob(s) PROVE TypeOK'
  BY <1>21, KillTypes DEF WaitDropJob
<1>22. ASSUME NEW s \in Sessions, WaitRemember(s) PROVE TypeOK'
  <2>1. Append(terminal_sessions, s) \in Seq(Sessions)
    OBVIOUS
  <2>2. /\ Newest(Append(terminal_sessions, s)) \in Seq(Sessions)
        /\ Popped(Append(terminal_sessions, s)) \in SUBSET Sessions
    BY <2>1, HistoryTypes
  <2> QED
    BY <1>22, <2>2 DEF WaitRemember, AfterRemember
<1>23. ASSUME NEW s \in Sessions, WaitEvict(s) PROVE TypeOK'
  BY <1>23 DEF WaitEvict
<1>24. ASSUME NEW s \in Sessions, WaitEmit(s) PROVE TypeOK'
  BY <1>24 DEF WaitEmit, Reported, SessionInv, SessionOK, CallerInv, CallerOK
<1>25. ASSUME NEW s \in Sessions, WaitFails(s) PROVE TypeOK'
  BY <1>25 DEF WaitFails
<1>26. ASSUME NEW s \in Sessions, RootExits(s) PROVE TypeOK'
  BY <1>26 DEF RootExits
<1>27. ASSUME NEW s \in Sessions, DescendantsExit(s) PROVE TypeOK'
  BY <1>27 DEF DescendantsExit
<1>28. ASSUME NEW s \in Sessions, PidReuse(s) PROVE TypeOK'
  BY <1>28 DEF PidReuse
<1>29. CASE UNCHANGED vars
  BY <1>29 DEF vars
<1> QED
  BY <1>1, <1>2, <1>3, <1>4, <1>5, <1>6, <1>7, <1>8, <1>9, <1>10, <1>11, <1>12, <1>13, <1>14, <1>15, <1>16, <1>17, <1>18, <1>19, <1>20, <1>21, <1>22, <1>23, <1>24, <1>25, <1>26, <1>27, <1>28, <1>29, <1>30, <1>31 DEF Next, StartStep, StopStep, WaitStep

-----------------------------------------------------------------------------
(* Callers.                                                                *)

\* A command's position keeps saying what it says of its session, whatever
\* another command, a wait thread or the system does meanwhile.
LEMMA CallerStep ==
  ASSUME RunnerInv, [Next]_vars, NEW d \in Callers
  PROVE  CallerOK(d)'
<1> USE RunnerAssumption DEF RunnerInv, TypeOK, CallerInv, CallerOK, SessionInv, SessionOK,
      RunningEntryIsOwner, Owns, Claiming, StartPCs, StopPCs, SpawnedPCs, Living, InJob, Active, Terminal,
      runnerVars, waitVars, callVars, osVars, GoTo, Return, Unlock, WaitAt, WaitGoTo
<1>1. ASSUME NEW c \in Callers, NEW s \in Sessions, StartLock(c, s) PROVE CallerOK(d)'
  BY <1>1 DEF StartLock, LifecycleFree
<1>2. ASSUME NEW c \in Callers, NEW s \in Sessions, StopMark(c, s) PROVE CallerOK(d)'
  BY <1>2 DEF StopMark, Stoppable
<1>3. ASSUME NEW c \in Callers, NEW s \in Sessions, StopSettled(c, s) PROVE CallerOK(d)'
  BY <1>3 DEF StopSettled
<1>4. ASSUME NEW c \in Callers, NEW s \in Sessions, StopUnknown(c, s) PROVE CallerOK(d)'
  BY <1>4 DEF StopUnknown, vars
<1>5. ASSUME NEW c \in Callers, StartCheck(c) PROVE CallerOK(d)'
  BY <1>5 DEF StartCheck
<1>6. ASSUME NEW c \in Callers, StartSpawn(c) PROVE CallerOK(d)'
  BY <1>6 DEF StartSpawn
<1>30. ASSUME NEW c \in Callers, StartAssign(c) PROVE CallerOK(d)'
  BY <1>30 DEF StartAssign, Discard, KillRoot
<1>31. ASSUME NEW c \in Callers, StartResume(c) PROVE CallerOK(d)'
  BY <1>31 DEF StartResume, Discard, KillRoot
<1>7. ASSUME NEW c \in Callers, StartCapture(c) PROVE CallerOK(d)'
  BY <1>7 DEF StartCapture, AbandonSpawned, KillTree, KillRoot
<1>8. ASSUME NEW c \in Callers, StartInsert(c) PROVE CallerOK(d)'
  BY <1>8 DEF StartInsert
<1>9. ASSUME NEW c \in Callers, StartOwn(c) PROVE CallerOK(d)'
  BY <1>9 DEF StartOwn
<1>10. ASSUME NEW c \in Callers, StartThread(c) PROVE CallerOK(d)'
  BY <1>10 DEF StartThread
<1>11. ASSUME NEW c \in Callers, StopJob(c) PROVE CallerOK(d)'
  BY <1>11 DEF StopJob, KillTree, KillRoot, ReturnOk
<1>12. ASSUME NEW c \in Callers, StopHandle(c) PROVE CallerOK(d)'
  <2>1. CASE d = c
    BY <1>12, <2>1 DEF StopHandle, ReturnOk
  <2>2. CASE d # c /\ UNCHANGED root
    BY <1>12, <2>2 DEF StopHandle, ReturnOk
  <2>3. CASE d # c /\ KillRoot(target[c]) /\ (HandleInSession(target[c]))
    <3>1. pc'[d] = pc[d] /\ target'[d] = target[d] /\ UNCHANGED <<runnerVars, waitVars, lifecycle>>
      BY <1>12, <2>3 DEF StopHandle, ReturnOk
    <3>2. pc[d] # "idle" => target[d] # target[c] \/ pc[d] \notin {"check", "spawn", "assign", "resume"}
      BY <1>12, <2>3 DEF StopHandle, HandleInSession
    <3>3. /\ pc[d] # "idle" /\ root[target[d]] # "unborn" => root'[target[d]] # "unborn"
          /\ pc[d] # "idle" /\ target[d] # target[c] => root'[target[d]] = root[target[d]]
      BY <1>12, <2>3 DEF StopHandle, KillRoot
    <3> QED
      BY <3>1, <3>2, <3>3
  <2> QED
    BY <1>12, <2>1, <2>2, <2>3 DEF StopHandle
<1>13. ASSUME NEW c \in Callers, StopVerify(c) PROVE CallerOK(d)'
  BY <1>13 DEF StopVerify, ReturnOk, ReturnErr
<1>14. ASSUME NEW c \in Callers, StopKill(c) PROVE CallerOK(d)'
  <2>1. CASE d = c
    BY <1>14, <2>1 DEF StopKill, ReturnOk
  <2>2. CASE d # c /\ UNCHANGED root
    BY <1>14, <2>2 DEF StopKill, ReturnOk
  <2>3. CASE d # c /\ KillRoot(target[c]) /\ (Matches(target[c]) \/ Mismatch(target[c]))
    <3>1. pc'[d] = pc[d] /\ target'[d] = target[d] /\ UNCHANGED <<runnerVars, waitVars, lifecycle>>
      BY <1>14, <2>3 DEF StopKill, ReturnOk
    <3>2. pc[d] # "idle" => target[d] # target[c] \/ pc[d] \notin {"check", "spawn", "assign", "resume"}
      BY <1>14, <2>3 DEF StopKill, Matches, Mismatch, Exited
    <3>3. /\ pc[d] # "idle" /\ root[target[d]] # "unborn" => root'[target[d]] # "unborn"
          /\ pc[d] # "idle" /\ target[d] # target[c] => root'[target[d]] = root[target[d]]
      BY <1>14, <2>3 DEF StopKill, KillRoot
    <3> QED
      BY <3>1, <3>2, <3>3
  <2> QED
    BY <1>14, <2>1, <2>2, <2>3 DEF StopKill
<1>15. ASSUME NEW c \in Callers, StopReverify(c) PROVE CallerOK(d)'
  BY <1>15 DEF StopReverify, ReturnOk, ReturnErr
<1>16. ASSUME NEW s \in Sessions, WaitTake(s) PROVE CallerOK(d)'
  BY <1>16 DEF WaitTake
<1>17. ASSUME NEW s \in Sessions, WaitReturns(s) PROVE CallerOK(d)'
  BY <1>17 DEF WaitReturns
<1>18. ASSUME NEW s \in Sessions, WaitDecide(s) PROVE CallerOK(d)'
  BY <1>18 DEF WaitDecide
<1>19. ASSUME NEW s \in Sessions, WaitClear(s) PROVE CallerOK(d)'
  BY <1>19 DEF WaitClear
<1>20. ASSUME NEW s \in Sessions, WaitPublish(s) PROVE CallerOK(d)'
  BY <1>20 DEF WaitPublish
<1>21. ASSUME NEW s \in Sessions, WaitDropJob(s) PROVE CallerOK(d)'
  BY <1>21 DEF WaitDropJob, KillTree, KillRoot
<1>22. ASSUME NEW s \in Sessions, WaitRemember(s) PROVE CallerOK(d)'
  BY <1>22 DEF WaitRemember, AfterRemember
<1>23. ASSUME NEW s \in Sessions, WaitEvict(s) PROVE CallerOK(d)'
  BY <1>23 DEF WaitEvict
<1>24. ASSUME NEW s \in Sessions, WaitEmit(s) PROVE CallerOK(d)'
  BY <1>24 DEF WaitEmit
<1>25. ASSUME NEW s \in Sessions, WaitFails(s) PROVE CallerOK(d)'
  BY <1>25 DEF WaitFails
<1>26. ASSUME NEW s \in Sessions, RootExits(s) PROVE CallerOK(d)'
  BY <1>26 DEF RootExits
<1>27. ASSUME NEW s \in Sessions, DescendantsExit(s) PROVE CallerOK(d)'
  BY <1>27 DEF DescendantsExit
<1>28. ASSUME NEW s \in Sessions, PidReuse(s) PROVE CallerOK(d)'
  BY <1>28 DEF PidReuse
<1>29. CASE UNCHANGED vars
  BY <1>29 DEF vars
<1> QED
  BY <1>1, <1>2, <1>3, <1>4, <1>5, <1>6, <1>7, <1>8, <1>9, <1>10, <1>11, <1>12, <1>13, <1>14, <1>15, <1>16, <1>17, <1>18, <1>19, <1>20, <1>21, <1>22, <1>23, <1>24, <1>25, <1>26, <1>27, <1>28, <1>29, <1>30, <1>31 DEF Next, StartStep, StopStep, WaitStep

-----------------------------------------------------------------------------
(* Sessions.                                                               *)

\* A session's state, job and processes keep going with its wait thread.
\* What SessionOK relates is kept by a step of a caller that is in none of the
\* labels a session depends on, before or after, and at most ends processes.
LEMMA SessionKept ==
  ASSUME NEW c \in Callers, NEW z \in Sessions, SessionOK(z),
         \A d \in Callers : d = c \/ (pc'[d] = pc[d] /\ target'[d] = target[d]),
         pc[c] \notin (SpawnedPCs \cup {"own", "thread"}),
         pc'[c] \notin (SpawnedPCs \cup {"own", "thread"}),
         UNCHANGED <<state, job, waiter, verdict>>,
         root'[z] = root[z] \/ (root[z] \in Living /\ root'[z] = "nonzero"),
         descendants'[z] => descendants[z]
  PROVE  SessionOK(z)'
<1>1. (\E d \in Callers : pc[d] \in {"own", "thread"} /\ target[d] = z)
        <=> (\E d \in Callers : pc'[d] \in {"own", "thread"} /\ target'[d] = z)
  OBVIOUS
<1>2. (\E d \in Callers : pc[d] \in SpawnedPCs /\ target[d] = z)
        <=> (\E d \in Callers : pc'[d] \in SpawnedPCs /\ target'[d] = z)
  OBVIOUS
<1>3. (\E d \in Callers : pc[d] = "assign" /\ target[d] = z)
        <=> (\E d \in Callers : pc'[d] = "assign" /\ target'[d] = z)
  BY DEF SpawnedPCs
<1>4. /\ root'[z] = "unborn" => root[z] = "unborn"
      /\ root'[z] = "created" => root[z] = "created"
      /\ root'[z] = "held" => root[z] = "held"
      /\ TreeDead(z) => TreeDead(z)'
  BY DEF TreeDead, Living, InJob
<1> QED
  BY <1>1, <1>2, <1>3, <1>4 DEF SessionOK

\* A session whose start is under way is consistent when nothing but that start
\* knows of it, and the start is at a label that owns what it launched.
LEMMA StarterOwns ==
  ASSUME NEW c \in Callers, NEW z \in Sessions,
         state'[z] = "absent", waiter'[z] = "none",
         ~\E d \in Callers : pc'[d] \in {"own", "thread"} /\ target'[d] = z,
         root'[z] \in {"unborn", "created", "held"} => ~descendants'[z],
         ~TreeDead(z)' => pc'[c] \in SpawnedPCs /\ target'[c] = z,
         root'[z] = "created" => pc'[c] = "assign" /\ target'[c] = z
  PROVE  SessionOK(z)'
BY DEF SessionOK, Active, Terminal

\* Whatever a command, a wait thread or the system does, a session's state, job
\* and processes go with its wait thread.
LEMMA SessionStep ==
  ASSUME RunnerInv, [Next]_vars, NEW z \in Sessions
  PROVE  SessionOK(z)'
<1> USE RunnerAssumption DEF RunnerInv, TypeOK, CallerInv, CallerOK, SessionInv, SessionOK,
      TreeDead, StartPCs, StopPCs, SpawnedPCs, Living, InJob, Active, Terminal,
      runnerVars, waitVars, callVars, osVars, GoTo, Return, Unlock, WaitAt, WaitGoTo
<1>1. ASSUME NEW c \in Callers, NEW s \in Sessions, StartLock(c, s) PROVE SessionOK(z)'
  BY <1>1 DEF StartLock, LifecycleFree
<1>2. ASSUME NEW c \in Callers, NEW s \in Sessions, StopMark(c, s) PROVE SessionOK(z)'
  BY <1>2 DEF StopMark, Stoppable
<1>3. ASSUME NEW c \in Callers, NEW s \in Sessions, StopSettled(c, s) PROVE SessionOK(z)'
  BY <1>3 DEF StopSettled
<1>4. ASSUME NEW c \in Callers, NEW s \in Sessions, StopUnknown(c, s) PROVE SessionOK(z)'
  BY <1>4 DEF StopUnknown, vars
<1>5. ASSUME NEW c \in Callers, StartCheck(c) PROVE SessionOK(z)'
  <2>1. /\ \A d \in Callers : d = c \/ (pc'[d] = pc[d] /\ target'[d] = target[d])
        /\ pc[c] \notin (SpawnedPCs \cup {"own", "thread"})
        /\ pc'[c] \notin (SpawnedPCs \cup {"own", "thread"})
    BY <1>5 DEF StartCheck
  <2>2. /\ UNCHANGED <<state, job, waiter, verdict>>
        /\ root'[z] = root[z] \/ (root[z] \in Living /\ root'[z] = "nonzero")
        /\ descendants'[z] => descendants[z]
    BY <1>5 DEF StartCheck
  <2>3. SessionOK(z)
    OBVIOUS
  <2> HIDE DEF SessionOK
  <2> QED
    BY <2>1, <2>2, <2>3, SessionKept
<1>6. ASSUME NEW c \in Callers, StartSpawn(c) PROVE SessionOK(z)'
  <2>1. target[c] \in Sessions
    BY <1>6 DEF StartSpawn
  <2>2. CASE z = target[c]
    <3>1. state'[z] = "absent" /\ waiter'[z] = "none"
      BY <1>6, <2>2 DEF StartSpawn
    <3>2. ~\E d \in Callers : pc[d] \in {"own", "thread"} /\ target[d] = z
      BY <1>6, <2>2 DEF StartSpawn
    <3>3. /\ \A d \in Callers : d = c \/ (pc'[d] = pc[d] /\ target'[d] = target[d])
          /\ pc'[c] \in {"idle", "assign"}
          /\ pc'[c] = "assign" => target'[c] = z
      BY <1>6, <2>2 DEF StartSpawn
    <3>4. /\ root'[z] \in {"unborn", "created", "held"} => ~descendants'[z]
          /\ ~TreeDead(z)' => pc'[c] = "assign"
          /\ root'[z] = "created" => pc'[c] = "assign"
      BY <1>6, <2>1, <2>2 DEF StartSpawn
    <3> HIDE DEF RunnerInv, TypeOK, CallerInv, CallerOK, SessionInv, SessionOK, TreeDead
    <3>5. ~\E d \in Callers : pc'[d] \in {"own", "thread"} /\ target'[d] = z
      BY <3>2, <3>3
    <3> QED
      BY <3>1, <3>3, <3>4, <3>5, StarterOwns
  <2>3. CASE z # target[c]
    BY <1>6, <2>1, <2>3 DEF StartSpawn
  <2> QED
    BY <2>2, <2>3
<1>30. ASSUME NEW c \in Callers, StartAssign(c) PROVE SessionOK(z)'
  <2>1. target[c] \in Sessions
    BY <1>30 DEF StartAssign
  <2>2. CASE z = target[c]
    <3>1. state'[z] = "absent" /\ waiter'[z] = "none"
      BY <1>30, <2>2 DEF StartAssign
    <3>2. ~\E d \in Callers : pc[d] \in {"own", "thread"} /\ target[d] = z
      BY <1>30, <2>2 DEF StartAssign
    <3>3. /\ \A d \in Callers : d = c \/ (pc'[d] = pc[d] /\ target'[d] = target[d])
          /\ pc'[c] \in {"idle", "resume"}
          /\ pc'[c] = "resume" => target'[c] = z
      BY <1>30, <2>2 DEF StartAssign
    <3>4. /\ root'[z] \in {"unborn", "created", "held"} => ~descendants'[z]
          /\ ~TreeDead(z)' => pc'[c] = "resume"
          /\ root'[z] = "created" => pc'[c] = "assign"
      BY <1>30, <2>1, <2>2 DEF StartAssign, Discard, KillRoot
    <3> HIDE DEF RunnerInv, TypeOK, CallerInv, CallerOK, SessionInv, SessionOK, TreeDead
    <3>5. ~\E d \in Callers : pc'[d] \in {"own", "thread"} /\ target'[d] = z
      BY <3>2, <3>3
    <3> QED
      BY <3>1, <3>3, <3>4, <3>5, StarterOwns
  <2>3. CASE z # target[c]
    BY SMTT(40), <1>30, <2>1, <2>3 DEF StartAssign, Discard, KillRoot
  <2> QED
    BY <2>2, <2>3
<1>31. ASSUME NEW c \in Callers, StartResume(c) PROVE SessionOK(z)'
  <2>1. target[c] \in Sessions
    BY <1>31 DEF StartResume
  <2>2. CASE z = target[c]
    <3>1. state'[z] = "absent" /\ waiter'[z] = "none"
      BY <1>31, <2>2 DEF StartResume
    <3>2. ~\E d \in Callers : pc[d] \in {"own", "thread"} /\ target[d] = z
      BY <1>31, <2>2 DEF StartResume
    <3>3. /\ \A d \in Callers : d = c \/ (pc'[d] = pc[d] /\ target'[d] = target[d])
          /\ pc'[c] \in {"idle", "capture"}
          /\ pc'[c] = "capture" => target'[c] = z
      BY <1>31, <2>2 DEF StartResume
    <3>4. /\ root'[z] \in {"unborn", "created", "held"} => ~descendants'[z]
          /\ ~TreeDead(z)' => pc'[c] = "capture"
          /\ root'[z] = "created" => pc'[c] = "assign"
      BY <1>31, <2>1, <2>2 DEF StartResume, Discard, KillRoot
    <3> HIDE DEF RunnerInv, TypeOK, CallerInv, CallerOK, SessionInv, SessionOK, TreeDead
    <3>5. ~\E d \in Callers : pc'[d] \in {"own", "thread"} /\ target'[d] = z
      BY <3>2, <3>3
    <3> QED
      BY <3>1, <3>3, <3>4, <3>5, StarterOwns
  <2>3. CASE z # target[c]
    <3>1. /\ \A d \in Callers : d = c \/ (pc'[d] = pc[d] /\ target'[d] = target[d])
          /\ pc[c] = "resume" /\ pc'[c] \in {"idle", "capture"}
          /\ target'[c] = target[c] \/ pc'[c] = "idle"
      BY <1>31, <2>1 DEF StartResume
    <3>2. /\ UNCHANGED <<state, waiter, verdict>>
          /\ job'[z] = job[z] /\ root'[z] = root[z] /\ descendants'[z] = descendants[z]
      BY <1>31, <2>1, <2>3 DEF StartResume, Discard, KillRoot
    <3>3. SessionOK(z)
      OBVIOUS
    <3>4. TreeDead(z)' = TreeDead(z)
      BY <3>2
    <3> HIDE DEF RunnerInv, TypeOK, CallerInv, CallerOK, SessionInv, TreeDead
    <3> QED
      BY <2>3, <3>1, <3>2, <3>3, <3>4
  <2> QED
    BY <2>2, <2>3
<1>7. ASSUME NEW c \in Callers, StartCapture(c) PROVE SessionOK(z)'
  <2>1. target[c] \in Sessions
    BY <1>7 DEF StartCapture
  <2>2. CASE z = target[c]
    <3>1. state'[z] = "absent" /\ waiter'[z] = "none"
      BY <1>7, <2>2 DEF StartCapture
    <3>2. ~\E d \in Callers : pc[d] \in {"own", "thread"} /\ target[d] = z
      BY <1>7, <2>2 DEF StartCapture
    <3>3. /\ \A d \in Callers : d = c \/ (pc'[d] = pc[d] /\ target'[d] = target[d])
          /\ pc'[c] \in {"idle", "insert"}
          /\ pc'[c] = "insert" => target'[c] = z
      BY <1>7, <2>2 DEF StartCapture
    <3>4. /\ root'[z] \in {"unborn", "created", "held"} => ~descendants'[z]
          /\ ~TreeDead(z)' => pc'[c] = "insert"
          /\ root'[z] = "created" => pc'[c] = "assign"
      BY <1>7, <2>1, <2>2 DEF StartCapture, AbandonSpawned, KillTree
    <3> HIDE DEF RunnerInv, TypeOK, CallerInv, CallerOK, SessionInv, SessionOK, TreeDead
    <3>5. ~\E d \in Callers : pc'[d] \in {"own", "thread"} /\ target'[d] = z
      BY <3>2, <3>3
    <3> QED
      BY <3>1, <3>3, <3>4, <3>5, StarterOwns
  <2>3. CASE z # target[c]
    BY SMTT(40), <1>7, <2>1, <2>3 DEF StartCapture, AbandonSpawned, KillTree, KillRoot
  <2> QED
    BY <2>2, <2>3
<1>8. ASSUME NEW c \in Callers, StartInsert(c) PROVE SessionOK(z)'
  BY <1>8 DEF StartInsert
<1>9. ASSUME NEW c \in Callers, StartOwn(c) PROVE SessionOK(z)'
  BY <1>9 DEF StartOwn
<1>10. ASSUME NEW c \in Callers, StartThread(c) PROVE SessionOK(z)'
  BY <1>10 DEF StartThread
<1>11. ASSUME NEW c \in Callers, StopJob(c) PROVE SessionOK(z)'
  <2>1. /\ \A d \in Callers : d = c \/ (pc'[d] = pc[d] /\ target'[d] = target[d])
        /\ pc[c] \notin (SpawnedPCs \cup {"own", "thread"})
        /\ pc'[c] \notin (SpawnedPCs \cup {"own", "thread"})
    BY <1>11 DEF StopJob, KillTree, KillRoot, ReturnOk
  <2>2. /\ UNCHANGED <<state, job, waiter, verdict>>
        /\ root'[z] = root[z] \/ (root[z] \in Living /\ root'[z] = "nonzero")
        /\ descendants'[z] => descendants[z]
    BY <1>11 DEF StopJob, KillTree, KillRoot, ReturnOk
  <2>3. SessionOK(z)
    OBVIOUS
  <2> HIDE DEF SessionOK
  <2> QED
    BY <2>1, <2>2, <2>3, SessionKept
<1>12. ASSUME NEW c \in Callers, StopHandle(c) PROVE SessionOK(z)'
  <2>1. /\ \A d \in Callers : d = c \/ (pc'[d] = pc[d] /\ target'[d] = target[d])
        /\ pc[c] \notin (SpawnedPCs \cup {"own", "thread"})
        /\ pc'[c] \notin (SpawnedPCs \cup {"own", "thread"})
    BY <1>12 DEF StopHandle, KillRoot, ReturnOk
  <2>2. /\ UNCHANGED <<state, job, waiter, verdict>>
        /\ root'[z] = root[z] \/ (root[z] \in Living /\ root'[z] = "nonzero")
        /\ descendants'[z] => descendants[z]
    BY <1>12 DEF StopHandle, KillRoot, ReturnOk
  <2>3. SessionOK(z)
    OBVIOUS
  <2> HIDE DEF SessionOK
  <2> QED
    BY <2>1, <2>2, <2>3, SessionKept
<1>13. ASSUME NEW c \in Callers, StopVerify(c) PROVE SessionOK(z)'
  <2>1. /\ \A d \in Callers : d = c \/ (pc'[d] = pc[d] /\ target'[d] = target[d])
        /\ pc[c] \notin (SpawnedPCs \cup {"own", "thread"})
        /\ pc'[c] \notin (SpawnedPCs \cup {"own", "thread"})
    BY <1>13 DEF StopVerify, ReturnOk, ReturnErr
  <2>2. /\ UNCHANGED <<state, job, waiter, verdict>>
        /\ root'[z] = root[z] \/ (root[z] \in Living /\ root'[z] = "nonzero")
        /\ descendants'[z] => descendants[z]
    BY <1>13 DEF StopVerify, ReturnOk, ReturnErr
  <2>3. SessionOK(z)
    OBVIOUS
  <2> HIDE DEF SessionOK
  <2> QED
    BY <2>1, <2>2, <2>3, SessionKept
<1>14. ASSUME NEW c \in Callers, StopKill(c) PROVE SessionOK(z)'
  <2>1. /\ \A d \in Callers : d = c \/ (pc'[d] = pc[d] /\ target'[d] = target[d])
        /\ pc[c] \notin (SpawnedPCs \cup {"own", "thread"})
        /\ pc'[c] \notin (SpawnedPCs \cup {"own", "thread"})
    BY <1>14 DEF StopKill, KillRoot, ReturnOk
  <2>2. /\ UNCHANGED <<state, job, waiter, verdict>>
        /\ root'[z] = root[z] \/ (root[z] \in Living /\ root'[z] = "nonzero")
        /\ descendants'[z] => descendants[z]
    BY <1>14 DEF StopKill, KillRoot, ReturnOk
  <2>3. SessionOK(z)
    OBVIOUS
  <2> HIDE DEF SessionOK
  <2> QED
    BY <2>1, <2>2, <2>3, SessionKept
<1>15. ASSUME NEW c \in Callers, StopReverify(c) PROVE SessionOK(z)'
  <2>1. /\ \A d \in Callers : d = c \/ (pc'[d] = pc[d] /\ target'[d] = target[d])
        /\ pc[c] \notin (SpawnedPCs \cup {"own", "thread"})
        /\ pc'[c] \notin (SpawnedPCs \cup {"own", "thread"})
    BY <1>15 DEF StopReverify, ReturnOk, ReturnErr
  <2>2. /\ UNCHANGED <<state, job, waiter, verdict>>
        /\ root'[z] = root[z] \/ (root[z] \in Living /\ root'[z] = "nonzero")
        /\ descendants'[z] => descendants[z]
    BY <1>15 DEF StopReverify, ReturnOk, ReturnErr
  <2>3. SessionOK(z)
    OBVIOUS
  <2> HIDE DEF SessionOK
  <2> QED
    BY <2>1, <2>2, <2>3, SessionKept
<1>16. ASSUME NEW s \in Sessions, WaitTake(s) PROVE SessionOK(z)'
  BY <1>16 DEF WaitTake
<1>17. ASSUME NEW s \in Sessions, WaitReturns(s) PROVE SessionOK(z)'
  BY <1>17 DEF WaitReturns, Exited
<1>18. ASSUME NEW s \in Sessions, WaitDecide(s) PROVE SessionOK(z)'
  BY <1>18 DEF WaitDecide, TerminalStateAfterWait
<1>19. ASSUME NEW s \in Sessions, WaitClear(s) PROVE SessionOK(z)'
  BY <1>19 DEF WaitClear
<1>20. ASSUME NEW s \in Sessions, WaitPublish(s) PROVE SessionOK(z)'
  BY <1>20 DEF WaitPublish
<1>21. ASSUME NEW s \in Sessions, WaitDropJob(s) PROVE SessionOK(z)'
  BY <1>21 DEF WaitDropJob, KillTree, KillRoot
<1>22. ASSUME NEW s \in Sessions, WaitRemember(s) PROVE SessionOK(z)'
  BY <1>22 DEF WaitRemember, AfterRemember
<1>23. ASSUME NEW s \in Sessions, WaitEvict(s) PROVE SessionOK(z)'
  BY <1>23 DEF WaitEvict
<1>24. ASSUME NEW s \in Sessions, WaitEmit(s) PROVE SessionOK(z)'
  BY <1>24 DEF WaitEmit
<1>25. ASSUME NEW s \in Sessions, WaitFails(s) PROVE SessionOK(z)'
  BY <1>25 DEF WaitFails
<1>26. ASSUME NEW s \in Sessions, RootExits(s) PROVE SessionOK(z)'
  BY <1>26 DEF RootExits
<1>27. ASSUME NEW s \in Sessions, DescendantsExit(s) PROVE SessionOK(z)'
  BY <1>27 DEF DescendantsExit
<1>28. ASSUME NEW s \in Sessions, PidReuse(s) PROVE SessionOK(z)'
  BY <1>28 DEF PidReuse
<1>29. CASE UNCHANGED vars
  BY <1>29 DEF vars
<1> QED
  BY <1>1, <1>2, <1>3, <1>4, <1>5, <1>6, <1>7, <1>8, <1>9, <1>10, <1>11, <1>12, <1>13, <1>14, <1>15, <1>16, <1>17, <1>18, <1>19, <1>20, <1>21, <1>22, <1>23, <1>24, <1>25, <1>26, <1>27, <1>28, <1>29, <1>30, <1>31 DEF Next, StartStep, StopStep, WaitStep

-----------------------------------------------------------------------------
(* Stop answers.                                                           *)

\* An Ok answer stays true: an exited child does not come back to life, and a
\* published session is not registered again.
LEMMA StopAnswerStep == RunnerInv /\ [Next]_vars => StopInv'
<1> SUFFICES ASSUME RunnerInv, [Next]_vars, NEW z \in stopOk'
             PROVE  \/ Exited(z)'
                    \/ waiter'[z] \in {"drop", "remember", "evict", "emit", "done"}
  BY DEF StopInv
<1> DEFINE Good == \/ Exited(z)'
                   \/ waiter'[z] \in {"drop", "remember", "evict", "emit", "done"}
<1> USE RunnerAssumption DEF RunnerInv, TypeOK, CallerInv, CallerOK, SessionInv, SessionOK,
      StopInv, Exited, StartPCs, StopPCs, SpawnedPCs, Living, InJob, Terminal,
      runnerVars, waitVars, callVars, osVars, GoTo, Return, Unlock, WaitAt, WaitGoTo
<1>1. ASSUME NEW c \in Callers, NEW s \in Sessions, StartLock(c, s) PROVE Good
  BY <1>1 DEF StartLock, LifecycleFree
<1>2. ASSUME NEW c \in Callers, NEW s \in Sessions, StopMark(c, s) PROVE Good
  BY <1>2 DEF StopMark, Stoppable
<1>3. ASSUME NEW c \in Callers, NEW s \in Sessions, StopSettled(c, s) PROVE Good
  BY <1>3 DEF StopSettled
<1>4. ASSUME NEW c \in Callers, NEW s \in Sessions, StopUnknown(c, s) PROVE Good
  BY <1>4 DEF StopUnknown, vars
<1>5. ASSUME NEW c \in Callers, StartCheck(c) PROVE Good
  BY <1>5 DEF StartCheck
<1>6. ASSUME NEW c \in Callers, StartSpawn(c) PROVE Good
  BY <1>6 DEF StartSpawn
<1>30. ASSUME NEW c \in Callers, StartAssign(c) PROVE Good
  BY <1>30 DEF StartAssign, Discard, KillRoot
<1>31. ASSUME NEW c \in Callers, StartResume(c) PROVE Good
  BY <1>31 DEF StartResume, Discard, KillRoot
<1>7. ASSUME NEW c \in Callers, StartCapture(c) PROVE Good
  BY <1>7 DEF StartCapture, AbandonSpawned, KillTree, KillRoot
<1>8. ASSUME NEW c \in Callers, StartInsert(c) PROVE Good
  BY <1>8 DEF StartInsert
<1>9. ASSUME NEW c \in Callers, StartOwn(c) PROVE Good
  BY <1>9 DEF StartOwn
<1>10. ASSUME NEW c \in Callers, StartThread(c) PROVE Good
  BY <1>10 DEF StartThread
<1>11. ASSUME NEW c \in Callers, StopJob(c) PROVE Good
  BY <1>11 DEF StopJob, KillTree, KillRoot, ReturnOk
<1>12. ASSUME NEW c \in Callers, StopHandle(c) PROVE Good
  BY <1>12 DEF StopHandle, KillRoot, ReturnOk
<1>13. ASSUME NEW c \in Callers, StopVerify(c) PROVE Good
  BY <1>13 DEF StopVerify, Gone, ReturnOk, ReturnErr
<1>14. ASSUME NEW c \in Callers, StopKill(c) PROVE Good
  BY <1>14 DEF StopKill, Matches, Mismatch, KillRoot, ReturnOk
<1>15. ASSUME NEW c \in Callers, StopReverify(c) PROVE Good
  BY <1>15 DEF StopReverify, Gone, ReturnOk, ReturnErr
<1>16. ASSUME NEW s \in Sessions, WaitTake(s) PROVE Good
  BY <1>16 DEF WaitTake
<1>17. ASSUME NEW s \in Sessions, WaitReturns(s) PROVE Good
  BY <1>17 DEF WaitReturns
<1>18. ASSUME NEW s \in Sessions, WaitDecide(s) PROVE Good
  BY <1>18 DEF WaitDecide, TerminalStateAfterWait
<1>19. ASSUME NEW s \in Sessions, WaitClear(s) PROVE Good
  BY <1>19 DEF WaitClear
<1>20. ASSUME NEW s \in Sessions, WaitPublish(s) PROVE Good
  BY <1>20 DEF WaitPublish
<1>21. ASSUME NEW s \in Sessions, WaitDropJob(s) PROVE Good
  BY <1>21 DEF WaitDropJob, KillTree, KillRoot
<1>22. ASSUME NEW s \in Sessions, WaitRemember(s) PROVE Good
  BY <1>22 DEF WaitRemember, AfterRemember
<1>23. ASSUME NEW s \in Sessions, WaitEvict(s) PROVE Good
  BY <1>23 DEF WaitEvict
<1>24. ASSUME NEW s \in Sessions, WaitEmit(s) PROVE Good
  BY <1>24 DEF WaitEmit
<1>25. ASSUME NEW s \in Sessions, WaitFails(s) PROVE Good
  BY <1>25 DEF WaitFails
<1>26. ASSUME NEW s \in Sessions, RootExits(s) PROVE Good
  BY <1>26 DEF RootExits
<1>27. ASSUME NEW s \in Sessions, DescendantsExit(s) PROVE Good
  BY <1>27 DEF DescendantsExit
<1>28. ASSUME NEW s \in Sessions, PidReuse(s) PROVE Good
  BY <1>28 DEF PidReuse
<1>29. CASE UNCHANGED vars
  BY <1>29 DEF vars
<1> QED
  BY <1>1, <1>2, <1>3, <1>4, <1>5, <1>6, <1>7, <1>8, <1>9, <1>10, <1>11, <1>12, <1>13, <1>14, <1>15, <1>16, <1>17, <1>18, <1>19, <1>20, <1>21, <1>22, <1>23, <1>24, <1>25, <1>26, <1>27, <1>28, <1>29, <1>30, <1>31 DEF Next, StartStep, StopStep, WaitStep

-----------------------------------------------------------------------------
(* The profile entries.                                                    *)

\* profile_running keeps naming exactly the owner of each profile.
LEMMA EntryStep == RunnerInv /\ [Next]_vars => RunningEntryIsOwner'
<1> SUFFICES ASSUME RunnerInv, [Next]_vars PROVE RunningEntryIsOwner'
  OBVIOUS
<1> USE RunnerAssumption DEF RunnerInv, TypeOK, CallerInv, CallerOK, SessionInv, SessionOK,
      RunningEntryIsOwner, Owns, Claiming, StartPCs, StopPCs, SpawnedPCs, Living, InJob, Active, Terminal,
      runnerVars, waitVars, callVars, osVars, GoTo, Return, Unlock, WaitAt, WaitGoTo
<1>1. ASSUME NEW c \in Callers, NEW s \in Sessions, StartLock(c, s) PROVE RunningEntryIsOwner'
  BY <1>1 DEF StartLock, LifecycleFree
<1>2. ASSUME NEW c \in Callers, NEW s \in Sessions, StopMark(c, s) PROVE RunningEntryIsOwner'
  BY <1>2 DEF StopMark, Stoppable
<1>3. ASSUME NEW c \in Callers, NEW s \in Sessions, StopSettled(c, s) PROVE RunningEntryIsOwner'
  BY <1>3 DEF StopSettled
<1>4. ASSUME NEW c \in Callers, NEW s \in Sessions, StopUnknown(c, s) PROVE RunningEntryIsOwner'
  BY <1>4 DEF StopUnknown, vars
<1>5. ASSUME NEW c \in Callers, StartCheck(c) PROVE RunningEntryIsOwner'
  BY <1>5 DEF StartCheck
<1>6. ASSUME NEW c \in Callers, StartSpawn(c) PROVE RunningEntryIsOwner'
  BY <1>6 DEF StartSpawn
<1>30. ASSUME NEW c \in Callers, StartAssign(c) PROVE RunningEntryIsOwner'
  BY <1>30 DEF StartAssign, Discard, KillRoot
<1>31. ASSUME NEW c \in Callers, StartResume(c) PROVE RunningEntryIsOwner'
  BY <1>31 DEF StartResume, Discard, KillRoot
<1>7. ASSUME NEW c \in Callers, StartCapture(c) PROVE RunningEntryIsOwner'
  BY <1>7 DEF StartCapture, AbandonSpawned, KillTree, KillRoot
<1>8. ASSUME NEW c \in Callers, StartInsert(c) PROVE RunningEntryIsOwner'
  BY <1>8 DEF StartInsert
<1>9. ASSUME NEW c \in Callers, StartOwn(c) PROVE RunningEntryIsOwner'
  BY <1>9 DEF StartOwn
<1>10. ASSUME NEW c \in Callers, StartThread(c) PROVE RunningEntryIsOwner'
  BY <1>10 DEF StartThread
<1>11. ASSUME NEW c \in Callers, StopJob(c) PROVE RunningEntryIsOwner'
  BY <1>11 DEF StopJob, KillTree, KillRoot, ReturnOk
<1>12. ASSUME NEW c \in Callers, StopHandle(c) PROVE RunningEntryIsOwner'
  BY <1>12 DEF StopHandle, KillRoot, ReturnOk
<1>13. ASSUME NEW c \in Callers, StopVerify(c) PROVE RunningEntryIsOwner'
  BY <1>13 DEF StopVerify, ReturnOk, ReturnErr
<1>14. ASSUME NEW c \in Callers, StopKill(c) PROVE RunningEntryIsOwner'
  BY <1>14 DEF StopKill, KillRoot, ReturnOk
<1>15. ASSUME NEW c \in Callers, StopReverify(c) PROVE RunningEntryIsOwner'
  BY <1>15 DEF StopReverify, ReturnOk, ReturnErr
<1>16. ASSUME NEW s \in Sessions, WaitTake(s) PROVE RunningEntryIsOwner'
  BY <1>16 DEF WaitTake
<1>17. ASSUME NEW s \in Sessions, WaitReturns(s) PROVE RunningEntryIsOwner'
  BY <1>17 DEF WaitReturns, Exited
<1>18. ASSUME NEW s \in Sessions, WaitDecide(s) PROVE RunningEntryIsOwner'
  BY <1>18 DEF WaitDecide, TerminalStateAfterWait
<1>19. ASSUME NEW s \in Sessions, WaitClear(s) PROVE RunningEntryIsOwner'
  BY <1>19 DEF WaitClear
<1>20. ASSUME NEW s \in Sessions, WaitPublish(s) PROVE RunningEntryIsOwner'
  BY <1>20 DEF WaitPublish
<1>21. ASSUME NEW s \in Sessions, WaitDropJob(s) PROVE RunningEntryIsOwner'
  BY <1>21 DEF WaitDropJob, KillTree, KillRoot
<1>22. ASSUME NEW s \in Sessions, WaitRemember(s) PROVE RunningEntryIsOwner'
  BY <1>22 DEF WaitRemember, AfterRemember
<1>23. ASSUME NEW s \in Sessions, WaitEvict(s) PROVE RunningEntryIsOwner'
  BY <1>23 DEF WaitEvict
<1>24. ASSUME NEW s \in Sessions, WaitEmit(s) PROVE RunningEntryIsOwner'
  BY <1>24 DEF WaitEmit
<1>25. ASSUME NEW s \in Sessions, WaitFails(s) PROVE RunningEntryIsOwner'
  BY <1>25 DEF WaitFails
<1>26. ASSUME NEW s \in Sessions, RootExits(s) PROVE RunningEntryIsOwner'
  BY <1>26 DEF RootExits
<1>27. ASSUME NEW s \in Sessions, DescendantsExit(s) PROVE RunningEntryIsOwner'
  BY <1>27 DEF DescendantsExit
<1>28. ASSUME NEW s \in Sessions, PidReuse(s) PROVE RunningEntryIsOwner'
  BY <1>28 DEF PidReuse
<1>29. CASE UNCHANGED vars
  BY <1>29 DEF vars
<1> QED
  BY <1>1, <1>2, <1>3, <1>4, <1>5, <1>6, <1>7, <1>8, <1>9, <1>10, <1>11, <1>12, <1>13, <1>14, <1>15, <1>16, <1>17, <1>18, <1>19, <1>20, <1>21, <1>22, <1>23, <1>24, <1>25, <1>26, <1>27, <1>28, <1>29, <1>30, <1>31 DEF Next, StartStep, StopStep, WaitStep

-----------------------------------------------------------------------------
(* The invariant and the properties it gives.                              *)

\* Before any command there is no session, so every part holds.
LEMMA RunnerInit == Init => RunnerInv
BY RunnerAssumption DEF Init, RunnerInv, TypeOK, CallerInv, CallerOK, SessionInv, SessionOK, StopInv,
   RunningEntryIsOwner, Owns, Claiming, TreeDead, Exited, StartPCs, StopPCs, SpawnedPCs, Living, InJob, WaitPCs,
   Active, Terminal

\* One operation of a command, a wait thread or the system keeps every part of
\* the invariant.
LEMMA RunnerStep == RunnerInv /\ [Next]_vars => RunnerInv'
BY TypeStep, CallerStep, SessionStep, StopAnswerStep, EntryStep DEF RunnerInv, CallerInv, SessionInv

\* The inductive invariant holds in every reachable state.
THEOREM RunnerInvariant == Spec => []RunnerInv
BY RunnerInit, RunnerStep, PTL DEF Spec

\* Every field of the runner keeps its type, in particular a session's state is
\* one of LaunchSessionState's and its final event carries a terminal one.
THEOREM TypeCorrect == Spec => []TypeOK
<1>1. RunnerInv => TypeOK
  BY DEF RunnerInv
<1> QED
  BY <1>1, RunnerInvariant, PTL

\* start never registers a session in a profile another session still owns.
THEOREM ProfileExclusion == Spec => []OneOwnerPerProfile
<1>1. RunnerInv => OneOwnerPerProfile
  <2> SUFFICES ASSUME RunnerInv, NEW s \in Sessions, NEW t \in Sessions,
                      Owns(s), Owns(t), ProfileOf[s] = ProfileOf[t]
               PROVE  s = t
    BY DEF OneOwnerPerProfile
  <2> USE DEF RunnerInv, RunningEntryIsOwner, CallerInv, CallerOK, StartPCs
  <2>1. CASE ~Claiming(s) /\ ~Claiming(t)
    BY <2>1
  <2>2. CASE Claiming(s)
    BY <2>2, RunnerAssumption DEF Claiming
  <2>3. CASE Claiming(t)
    BY <2>3, RunnerAssumption DEF Claiming
  <2> QED
    BY <2>1, <2>2, <2>3
<1> QED
  BY <1>1, RunnerInvariant, PTL

\* profile_running names exactly the owners, so a wait thread's remove never
\* takes the entry of a newer session.
THEOREM EntriesExact == Spec => []RunningEntryIsOwner
<1>1. RunnerInv => RunningEntryIsOwner
  BY DEF RunnerInv
<1> QED
  BY <1>1, RunnerInvariant, PTL

\* Every process a start launched is in a job that some thread still holds.
THEOREM NoOrphans == Spec => []NoOrphanProcess
<1>1. RunnerInv => NoOrphanProcess
  BY DEF RunnerInv, CallerInv, CallerOK, SessionInv, SessionOK, NoOrphanProcess
<1> QED
  BY <1>1, RunnerInvariant, PTL

\* Two sessions of a profile have live processes together only while one of
\* their wait threads is between profile_running.remove and dropping the job.
THEOREM Handover == Spec => []TreesOverlapOnlyAtHandover
<1>1. RunnerInv => TreesOverlapOnlyAtHandover
  <2> SUFFICES ASSUME RunnerInv, NEW s \in Sessions, NEW t \in Sessions,
                      s # t, ProfileOf[s] = ProfileOf[t],
                      ~TreeDead(s), ~TreeDead(t),
                      waiter[s] \notin {"publish", "drop"},
                      waiter[t] \notin {"publish", "drop"}
               PROVE  FALSE
    BY DEF TreesOverlapOnlyAtHandover
  <2> DEFINE Starting(x) ==
        \E c \in Callers : pc[c] \in (SpawnedPCs \cup {"own"}) /\ target[c] = x
  <2>1. ASSUME NEW x \in Sessions, ~TreeDead(x),
               waiter[x] \notin {"publish", "drop"}
        PROVE  \/ Starting(x)
               \/ profile_running[ProfileOf[x]] = x
    BY <2>1 DEF RunnerInv, RunningEntryIsOwner, Owns, Claiming, CallerInv, CallerOK,
                SessionInv, SessionOK
  <2>2. ASSUME NEW x \in Sessions, Starting(x)
        PROVE  profile_running[ProfileOf[x]] = NoSession
    BY <2>2 DEF RunnerInv, CallerInv, CallerOK
  <2>3. ASSUME Starting(s), Starting(t) PROVE FALSE
    <3>1. PICK c \in Callers, d \in Callers :
            /\ pc[c] \in (SpawnedPCs \cup {"own"}) /\ target[c] = s
            /\ pc[d] \in (SpawnedPCs \cup {"own"}) /\ target[d] = t
      BY <2>3
    <3>2. SpawnedPCs \cup {"own"} \subseteq StartPCs
      BY DEF SpawnedPCs, StartPCs
    <3>3. lifecycle = c /\ lifecycle = d
      BY <3>1, <3>2 DEF RunnerInv, CallerInv, CallerOK
    <3> QED
      BY <3>1, <3>3
  <2> QED
    BY <2>1, <2>2, <2>3, RunnerAssumption
<1> QED
  BY <1>1, RunnerInvariant, PTL

\* stop answers Ok only when the direct child is gone or the session is over.
THEOREM HonestStop == Spec => []StopOkIsHonest
<1>1. RunnerInv => StopOkIsHonest
  <2> SUFFICES ASSUME RunnerInv, NEW s \in stopOk, root[s] = "alive"
               PROVE  state[s] \notin Active
    BY DEF StopOkIsHonest
  <2>1. s \in Sessions
    BY DEF RunnerInv, TypeOK
  <2>2. waiter[s] \in {"drop", "remember", "evict", "emit", "done"}
    BY DEF RunnerInv, StopInv, Exited
  <2>3. SessionOK(s)
    BY <2>1 DEF RunnerInv, SessionInv
  <2>4. ~\E c \in Callers : pc[c] \in {"own", "thread"} /\ target[c] = s
    BY <2>2 DEF RunnerInv, CallerInv, CallerOK
  <2> QED
    BY <2>2, <2>3, <2>4 DEF SessionOK
<1> QED
  BY <1>1, RunnerInvariant, PTL

-----------------------------------------------------------------------------
(* The terminal history.                                                   *)

\* remember_terminal_session appends the id, and pops the oldest one when there
\* were MaxTerminal already.
LEMMA Trimmed ==
  ASSUME NEW q \in Seq(Sessions), NEW s \in Sessions, Len(q) <= MaxTerminal
  PROVE  LET pushed == Append(q, s) IN
         \/ /\ Len(q) < MaxTerminal
            /\ Newest(pushed) = pushed
            /\ Popped(pushed) = {}
         \/ /\ Len(q) = MaxTerminal
            /\ Popped(pushed) = {q[1]}
            /\ Len(Newest(pushed)) = MaxTerminal
            /\ \A i \in 1 .. MaxTerminal :
                 Newest(pushed)[i] = IF i < MaxTerminal THEN q[i + 1] ELSE s
<1> DEFINE pushed == Append(q, s)
<1>0. MaxTerminal \in Nat \ {0} /\ Len(q) \in Nat
  BY RunnerAssumption
<1>1. pushed \in Seq(Sessions) /\ Len(pushed) = Len(q) + 1
  OBVIOUS
<1>2. \A i \in 1 .. Len(q) + 1 : pushed[i] = IF i <= Len(q) THEN q[i] ELSE s
  OBVIOUS
<1>3. CASE Len(q) < MaxTerminal
  <2>1. ~(Len(pushed) > MaxTerminal)
    BY <1>0, <1>1, <1>3
  <2> QED
    BY <1>3, <2>1 DEF Newest, Popped
<1>4. CASE Len(q) = MaxTerminal
  <2>1. /\ Len(pushed) > MaxTerminal
        /\ Len(pushed) - MaxTerminal = 1
    BY <1>0, <1>1, <1>4
  <2>2. Newest(pushed) = SubSeq(pushed, 2, MaxTerminal + 1)
    BY <1>0, <1>1, <1>4, <2>1 DEF Newest
  <2>3. Popped(pushed) = {pushed[i] : i \in 1 .. 1}
    BY <2>1 DEF Popped
  <2>4. 1 .. 1 = {1} /\ pushed[1] = q[1]
    BY <1>0, <1>2, <1>4
  <2>5. Popped(pushed) = {q[1]}
    BY <2>3, <2>4
  <2> HIDE DEF pushed
  <2>6. /\ Len(SubSeq(pushed, 2, MaxTerminal + 1)) = MaxTerminal
        /\ \A i \in 1 .. MaxTerminal :
             SubSeq(pushed, 2, MaxTerminal + 1)[i] = pushed[i + 1]
    BY <1>0, <1>1, <1>4
  <2>7. \A i \in 1 .. MaxTerminal :
          Newest(pushed)[i] = IF i < MaxTerminal THEN q[i + 1] ELSE s
    <3> SUFFICES ASSUME NEW i \in 1 .. MaxTerminal
                 PROVE  Newest(pushed)[i] = IF i < MaxTerminal THEN q[i + 1] ELSE s
      OBVIOUS
    <3>1. i + 1 \in 1 .. Len(q) + 1 /\ (i + 1 <= Len(q) <=> i < MaxTerminal)
      BY <1>0, <1>4
    <3> QED
      BY <1>2, <2>2, <2>6, <3>1
  <2> QED
    BY <1>4, <2>2, <2>5, <2>6, <2>7 DEF pushed
<1> QED
  BY <1>0, <1>3, <1>4

\* What HistoryInv says of one session.
Remembered(s) ==
  /\ InHistory(s) =>
       state[s] \in Terminal /\ waiter[s] \in {"evict", "emit", "done"}
  /\ waiter[s] \in {"drop", "remember"} => state[s] \in Terminal
  /\ evicted[s] # {} => waiter[s] = "evict" /\ \E t \in Sessions : evicted[s] = {t}
  /\ \A t \in evicted[s] :
       ~InHistory(t) /\ waiter[t] \in {"evict", "emit", "done"}
  /\ state[s] \in Terminal =>
       \/ InHistory(s)
       \/ waiter[s] \in {"drop", "remember"}
       \/ \E t \in Sessions : s \in evicted[t]

\* The two parts of HistoryInv: the sequence, and every session.
LEMMA HistoryParts ==
  HistoryInv <=>
    /\ Len(terminal_sessions) <= MaxTerminal
    /\ \A i, j \in 1 .. Len(terminal_sessions) :
         terminal_sessions[i] = terminal_sessions[j] => i = j
    /\ \A s \in Sessions : Remembered(s)
BY DEF HistoryInv, Remembered

\* A step that leaves the history, what is to be evicted, which sessions are
\* terminal, and every wait thread that has published alone.
HistoryQuiet ==
  /\ UNCHANGED <<terminal_sessions, evicted>>
  /\ \A s \in Sessions :
       /\ state'[s] \in Terminal <=> state[s] \in Terminal
       /\ waiter[s] \in {"drop", "remember", "evict", "emit", "done"} =>
            waiter'[s] = waiter[s]
       /\ waiter'[s] \in {"drop", "remember"} => waiter'[s] = waiter[s]

\* Such a step keeps the invariant of the history.
LEMMA QuietHistory ==
  ASSUME TypeOK, HistoryInv, HistoryQuiet
  PROVE  HistoryInv'
<1>1. \A s \in Sessions : InHistory(s)' <=> InHistory(s)
  BY DEF InHistory, HistoryQuiet
<1>2. ASSUME NEW s \in Sessions PROVE Remembered(s)'
  <2>1. Remembered(s) /\ evicted[s] \subseteq Sessions
    BY HistoryParts DEF TypeOK
  <2> QED
    BY <1>1, <2>1 DEF Remembered, HistoryQuiet
<1>3. /\ (Len(terminal_sessions) <= MaxTerminal)'
      /\ (\A i, j \in 1 .. Len(terminal_sessions) :
            terminal_sessions[i] = terminal_sessions[j] => i = j)'
  BY HistoryParts DEF HistoryQuiet
<1> QED
  BY <1>2, <1>3 DEF HistoryInv, Remembered

\* The session whose id is appended was not remembered before, so it is
\* remembered once; the one that is popped is no longer, and its thread has
\* published it.
LEMMA RememberStep ==
  ASSUME TypeOK, HistoryInv, NEW s \in Sessions, WaitRemember(s)
  PROVE  HistoryInv'
<1> DEFINE q == terminal_sessions
<1> DEFINE pushed == Append(q, s)
<1>0. MaxTerminal \in Nat \ {0} /\ q \in Seq(Sessions) /\ Len(q) \in Nat
  BY RunnerAssumption DEF TypeOK
<1>1. /\ Len(q) <= MaxTerminal
      /\ \A i, j \in 1 .. Len(q) : q[i] = q[j] => i = j
      /\ \A z \in Sessions : Remembered(z)
  BY HistoryParts
<1>2. /\ q' = Newest(pushed)
      /\ evicted' = [evicted EXCEPT ![s] = Popped(pushed)]
      /\ waiter' = [waiter EXCEPT ![s] = AfterRemember(pushed)]
      /\ state' = state /\ waiter[s] = "remember"
  BY DEF WaitRemember, WaitGoTo, WaitAt
<1>3. evicted \in [Sessions -> SUBSET Sessions] /\ waiter \in [Sessions -> WaitPCs]
  BY DEF TypeOK
<1>4. state[s] \in Terminal /\ ~InHistory(s) /\ evicted[s] = {}
  BY <1>1, <1>2 DEF Remembered
<1>5. \A z \in Sessions : s \notin evicted[z]
  BY <1>1, <1>2 DEF Remembered
<1>6. \A i \in 1 .. Len(q) : q[i] \in Sessions /\ q[i] # s
  BY <1>0, <1>4 DEF InHistory
<1> HIDE DEF q
<1>7. CASE Len(q) < MaxTerminal
  <2>1. Newest(pushed) = pushed /\ Popped(pushed) = {}
    BY <1>0, <1>1, <1>7, Trimmed
  <2>2. q' = pushed /\ Len(pushed) = Len(q) + 1
    BY <1>0, <1>2, <2>1
  <2>3. \A i \in 1 .. Len(q) + 1 : pushed[i] = IF i <= Len(q) THEN q[i] ELSE s
    BY <1>0
  <2> HIDE DEF pushed
  <2>4. evicted' = evicted
    BY <1>2, <1>3, <1>4, <2>1
  <2>5. /\ waiter'[s] = "emit"
        /\ \A z \in Sessions \ {s} : waiter'[z] = waiter[z]
    BY <1>2, <1>3, <2>1 DEF AfterRemember
  <2>6. /\ Len(q') <= MaxTerminal
        /\ \A i, j \in 1 .. Len(q') : q'[i] = q'[j] => i = j
    <3> SUFFICES ASSUME NEW i \in 1 .. Len(q) + 1, NEW j \in 1 .. Len(q) + 1,
                        pushed[i] = pushed[j]
                 PROVE  i = j
      BY <1>0, <1>7, <2>2
    <3>1. CASE i <= Len(q) /\ j <= Len(q)
      <4>1. i \in 1 .. Len(q) /\ j \in 1 .. Len(q)
        BY <1>0, <3>1
      <4> QED
        BY <1>1, <2>3, <3>1, <4>1
    <3>2. CASE i <= Len(q) /\ ~(j <= Len(q))
      <4>1. i \in 1 .. Len(q)
        BY <1>0, <3>2
      <4> QED
        BY <1>6, <2>3, <3>2, <4>1
    <3>3. CASE ~(i <= Len(q)) /\ j <= Len(q)
      <4>1. j \in 1 .. Len(q)
        BY <1>0, <3>3
      <4> QED
        BY <1>6, <2>3, <3>3, <4>1
    <3>4. CASE ~(i <= Len(q)) /\ ~(j <= Len(q))
      BY <1>0, <3>4
    <3> QED
      BY <3>1, <3>2, <3>3, <3>4
  <2>7. \A z \in Sessions : InHistory(z)' <=> InHistory(z) \/ z = s
    <3> SUFFICES ASSUME NEW z \in Sessions
                 PROVE  (\E i \in 1 .. Len(q') : q'[i] = z)
                          <=> (\E i \in 1 .. Len(q) : q[i] = z) \/ z = s
      BY DEF InHistory, q
    <3>1. ASSUME NEW i \in 1 .. Len(q'), q'[i] = z
          PROVE  (\E k \in 1 .. Len(q) : q[k] = z) \/ z = s
      <4>1. i \in 1 .. Len(q) + 1 /\ pushed[i] = z /\ (i <= Len(q) => i \in 1 .. Len(q))
        BY <1>0, <2>2, <3>1
      <4> QED
        BY <2>3, <4>1
    <3>2. ASSUME NEW i \in 1 .. Len(q), q[i] = z PROVE \E k \in 1 .. Len(q') : q'[k] = z
      <4>1. i \in 1 .. Len(q) + 1 /\ i <= Len(q)
        BY <1>0
      <4> QED
        BY <2>2, <2>3, <3>2, <4>1
    <3>3. z = s => \E k \in 1 .. Len(q') : q'[k] = z
      <4>1. Len(q) + 1 \in 1 .. Len(q) + 1 /\ ~(Len(q) + 1 <= Len(q))
        BY <1>0
      <4> QED
        BY <2>2, <2>3, <4>1
    <3> QED
      BY <3>1, <3>2, <3>3
  <2>8. ASSUME NEW z \in Sessions PROVE Remembered(z)'
    BY <1>1, <1>2, <1>3, <1>4, <1>5, <2>4, <2>5, <2>7 DEF Remembered
  <2> QED
    BY <2>6, <2>8 DEF HistoryInv, Remembered, q
<1>8. CASE Len(q) = MaxTerminal
  <2>1. /\ Popped(pushed) = {q[1]}
        /\ Len(Newest(pushed)) = MaxTerminal
        /\ \A i \in 1 .. MaxTerminal :
             Newest(pushed)[i] = IF i < MaxTerminal THEN q[i + 1] ELSE s
    BY <1>0, <1>1, <1>8, Trimmed
  <2> HIDE DEF pushed
  <2>2. /\ Len(q') = MaxTerminal
        /\ \A i \in 1 .. MaxTerminal : q'[i] = IF i < MaxTerminal THEN q[i + 1] ELSE s
    BY <1>2, <2>1
  <2>3. 1 \in 1 .. Len(q) /\ q[1] \in Sessions /\ q[1] # s
    BY <1>0, <1>6, <1>8
  <2>4. /\ evicted'[s] = {q[1]}
        /\ \A z \in Sessions \ {s} : evicted'[z] = evicted[z]
    BY <1>2, <1>3, <2>1
  <2>5. /\ waiter'[s] = "evict"
        /\ \A z \in Sessions \ {s} : waiter'[z] = waiter[z]
    BY <1>2, <1>3, <2>1 DEF AfterRemember
  <2>6. \A i, j \in 1 .. MaxTerminal : q'[i] = q'[j] => i = j
    <3> SUFFICES ASSUME NEW i \in 1 .. MaxTerminal, NEW j \in 1 .. MaxTerminal, q'[i] = q'[j]
                 PROVE  i = j
      OBVIOUS
    <3>1. /\ i < MaxTerminal => i + 1 \in 1 .. Len(q)
          /\ j < MaxTerminal => j + 1 \in 1 .. Len(q)
      BY <1>0, <1>8
    <3>2. CASE i < MaxTerminal /\ j < MaxTerminal
      <4>1. i + 1 = j + 1
        BY <1>1, <2>2, <3>1, <3>2
      <4> QED
        BY <4>1
    <3>3. CASE ~(i < MaxTerminal /\ j < MaxTerminal)
      <4>1. ~(i < MaxTerminal) /\ ~(j < MaxTerminal)
        BY <1>6, <2>2, <3>1, <3>3
      <4> QED
        BY <1>0, <4>1
    <3> QED
      BY <3>2, <3>3
  <2>7. \A z \in Sessions : InHistory(z)' <=> (InHistory(z) /\ z # q[1]) \/ z = s
    <3> SUFFICES ASSUME NEW z \in Sessions
                 PROVE  (\E i \in 1 .. MaxTerminal : q'[i] = z)
                          <=> ((\E i \in 1 .. Len(q) : q[i] = z) /\ z # q[1]) \/ z = s
      BY <2>2 DEF InHistory, q
    <3>1. ASSUME NEW i \in 1 .. MaxTerminal, q'[i] = z, z # s
          PROVE  (\E k \in 1 .. Len(q) : q[k] = z) /\ z # q[1]
      <4>1. i < MaxTerminal /\ q[i + 1] = z
        BY <2>2, <3>1
      <4>2. i + 1 \in 1 .. Len(q) /\ i + 1 # 1
        BY <1>0, <1>8, <4>1
      <4> QED
        BY <1>1, <2>3, <4>1, <4>2
    <3>2. ASSUME NEW i \in 1 .. Len(q), q[i] = z, z # q[1]
          PROVE  \E k \in 1 .. MaxTerminal : q'[k] = z
      <4>1. i # 1
        BY <3>2
      <4>2. i - 1 \in 1 .. MaxTerminal /\ i - 1 < MaxTerminal /\ i - 1 + 1 = i
        BY <1>0, <1>8, <4>1
      <4> QED
        BY <2>2, <3>2, <4>2
    <3>3. z = s => \E k \in 1 .. MaxTerminal : q'[k] = z
      <4>1. MaxTerminal \in 1 .. MaxTerminal /\ ~(MaxTerminal < MaxTerminal)
        BY <1>0
      <4> QED
        BY <2>2, <4>1
    <3> QED
      BY <3>1, <3>2, <3>3
  <2>8. InHistory(q[1])
    BY <2>3 DEF InHistory, q
  <2>9. waiter[q[1]] \in {"evict", "emit", "done"}
    BY <1>1, <2>3, <2>8 DEF Remembered
  <2>10. ASSUME NEW z \in Sessions PROVE Remembered(z)'
    <3>1. Remembered(z)
      BY <1>1
    <3>2. InHistory(z)' => state'[z] \in Terminal /\ waiter'[z] \in {"evict", "emit", "done"}
      BY <1>2, <1>4, <2>5, <2>7, <3>1 DEF Remembered
    <3>3. waiter'[z] \in {"drop", "remember"} => state'[z] \in Terminal
      BY <1>2, <2>5, <3>1 DEF Remembered
    <3>4. evicted'[z] # {} => waiter'[z] = "evict" /\ \E t \in Sessions : evicted'[z] = {t}
      BY <2>3, <2>4, <2>5, <3>1 DEF Remembered
    <3>5. ASSUME NEW t \in evicted'[z]
          PROVE  ~InHistory(t)' /\ waiter'[t] \in {"evict", "emit", "done"}
      <4>1. CASE z = s
        <5>1. t = q[1]
          BY <2>4, <4>1
        <5> QED
          BY <2>3, <2>5, <2>7, <2>9, <5>1
      <4>2. CASE z # s
        <5>1. t \in evicted[z] /\ t \in Sessions /\ t # s
          BY <1>3, <1>5, <2>4, <4>2
        <5> QED
          BY <2>5, <2>7, <3>1, <5>1 DEF Remembered
      <4> QED
        BY <4>1, <4>2
    <3>6. state'[z] \in Terminal =>
            \/ InHistory(z)'
            \/ waiter'[z] \in {"drop", "remember"}
            \/ \E t \in Sessions : z \in evicted'[t]
      <4>1. CASE z = q[1]
        BY <2>4, <4>1
      <4>2. CASE z = s
        BY <2>7, <4>2
      <4>3. CASE z # q[1] /\ z # s
        <5>1. \A t \in Sessions : z \in evicted[t] => z \in evicted'[t]
          BY <1>4, <2>4
        <5> QED
          BY <1>2, <2>5, <2>7, <3>1, <4>3, <5>1 DEF Remembered
      <4> QED
        BY <4>1, <4>2, <4>3
    <3> QED
      BY <3>2, <3>3, <3>4, <3>5, <3>6 DEF Remembered
  <2> QED
    BY <1>0, <2>2, <2>6, <2>10 DEF HistoryInv, Remembered, q
<1> QED
  BY <1>0, <1>1, <1>7, <1>8

\* An evicted session leaves the map with its state, and only one that is no
\* longer remembered is evicted.
LEMMA EvictStep ==
  ASSUME TypeOK, HistoryInv, NEW s \in Sessions, WaitEvict(s)
  PROVE  HistoryInv'
<1>1. /\ \A z \in Sessions : Remembered(z)
      /\ waiter[s] = "evict" /\ waiter' = [waiter EXCEPT ![s] = "emit"]
      /\ terminal_sessions' = terminal_sessions
      /\ evicted' = [evicted EXCEPT ![s] = {}]
  BY HistoryParts DEF WaitEvict, WaitAt, WaitGoTo
<1>2. evicted \in [Sessions -> SUBSET Sessions] /\ waiter \in [Sessions -> WaitPCs]
  BY DEF TypeOK
<1>3. \A z \in Sessions :
        state'[z] = IF z \in evicted[s] /\ state[z] \in Terminal THEN "absent" ELSE state[z]
  BY DEF WaitEvict
<1>4. \A z \in Sessions : InHistory(z)' <=> InHistory(z)
  BY <1>1 DEF InHistory
<1>5. ASSUME NEW z \in Sessions PROVE Remembered(z)'
  <2>1. Remembered(z) /\ Remembered(s)
    BY <1>1
  <2>2. /\ evicted'[s] = {} /\ waiter'[s] = "emit"
        /\ z # s => evicted'[z] = evicted[z] /\ waiter'[z] = waiter[z]
    BY <1>1, <1>2
  <2>3. \A t \in Sessions : waiter[t] \in {"evict", "emit", "done"} => waiter'[t] \in {"evict", "emit", "done"}
    BY <1>1, <1>2
  <2>4. state'[z] \in Terminal => state[z] \in Terminal /\ z \notin evicted[s]
    BY <1>3 DEF Terminal
  <2>5. z \notin evicted[s] => state'[z] = state[z]
    BY <1>3
  <2>6. InHistory(z)' => state'[z] \in Terminal /\ waiter'[z] \in {"evict", "emit", "done"}
    BY <1>4, <2>1, <2>3, <2>5 DEF Remembered
  <2>7. waiter'[z] \in {"drop", "remember"} => state'[z] \in Terminal
    <3>1. ASSUME waiter'[z] \in {"drop", "remember"} PROVE waiter[z] \in {"drop", "remember"}
      BY <2>2, <3>1
    <3> QED
      BY <2>1, <2>5, <3>1 DEF Remembered
  <2>8. evicted'[z] # {} => waiter'[z] = "evict" /\ \E t \in Sessions : evicted'[z] = {t}
    BY <2>1, <2>2 DEF Remembered
  <2>9. \A t \in evicted'[z] : ~InHistory(t)' /\ waiter'[t] \in {"evict", "emit", "done"}
    BY <1>2, <1>4, <2>1, <2>2, <2>3 DEF Remembered
  <2>10. state'[z] \in Terminal =>
            \/ InHistory(z)'
            \/ waiter'[z] \in {"drop", "remember"}
            \/ \E t \in Sessions : z \in evicted'[t]
    <3>1. waiter[z] \in {"drop", "remember"} => waiter'[z] = waiter[z]
      BY <1>1, <2>2
    <3>2. \A t \in Sessions : t # s => evicted'[t] = evicted[t]
      BY <1>1, <1>2
    <3> QED
      BY <1>4, <2>1, <2>4, <3>1, <3>2 DEF Remembered
  <2> QED
    BY <2>6, <2>7, <2>8, <2>9, <2>10 DEF Remembered
<1>6. /\ (Len(terminal_sessions) <= MaxTerminal)'
      /\ (\A i, j \in 1 .. Len(terminal_sessions) :
            terminal_sessions[i] = terminal_sessions[j] => i = j)'
  BY <1>1, HistoryParts
<1> QED
  BY <1>5, <1>6 DEF HistoryInv, Remembered

\* publish_terminal_session turns the session terminal, and from there on its
\* wait thread goes on to remember it.
LEMMA PublishStep ==
  ASSUME RunnerInv, HistoryInv, NEW s \in Sessions, WaitPublish(s)
  PROVE  HistoryInv'
<1>1. /\ \A z \in Sessions : Remembered(z)
      /\ waiter[s] = "publish" /\ waiter' = [waiter EXCEPT ![s] = "drop"]
      /\ state' = [state EXCEPT ![s] = verdict[s]]
      /\ terminal_sessions' = terminal_sessions
      /\ evicted' = evicted
  BY HistoryParts DEF WaitPublish, WaitAt, WaitGoTo
<1>2. /\ evicted \in [Sessions -> SUBSET Sessions] /\ waiter \in [Sessions -> WaitPCs]
      /\ state \in [Sessions -> {"absent"} \cup Active \cup Terminal]
  BY DEF TypeOK, RunnerInv
<1>3. verdict[s] \in Terminal
  BY <1>1 DEF RunnerInv, SessionInv, SessionOK
<1>4. \A z \in Sessions : InHistory(z)' <=> InHistory(z)
  BY <1>1 DEF InHistory
<1>5. ASSUME NEW z \in Sessions PROVE Remembered(z)'
  <2>1. Remembered(z) /\ Remembered(s)
    BY <1>1
  <2>2. /\ waiter'[s] = "drop" /\ state'[s] \in Terminal
        /\ z # s => waiter'[z] = waiter[z] /\ state'[z] = state[z]
    BY <1>1, <1>2, <1>3
  <2>3. \A t \in Sessions : waiter[t] \in {"evict", "emit", "done"} => waiter'[t] = waiter[t]
    BY <1>1, <1>2
  <2> QED
    BY <1>1, <1>2, <1>4, <2>1, <2>2, <2>3 DEF Remembered
<1>6. /\ (Len(terminal_sessions) <= MaxTerminal)'
      /\ (\A i, j \in 1 .. Len(terminal_sessions) :
            terminal_sessions[i] = terminal_sessions[j] => i = j)'
  BY <1>1, HistoryParts
<1> QED
  BY <1>5, <1>6 DEF HistoryInv, Remembered

\* Dropping the job and emitting the final event move a wait thread on.
LEMMA MoveOnStep ==
  ASSUME TypeOK, HistoryInv, NEW s \in Sessions, WaitDropJob(s) \/ WaitEmit(s)
  PROVE  HistoryInv'
<1>1. /\ \A z \in Sessions : Remembered(z)
      /\ UNCHANGED <<state, terminal_sessions, evicted>>
      /\ \/ waiter[s] = "drop" /\ waiter' = [waiter EXCEPT ![s] = "remember"]
         \/ waiter[s] = "emit" /\ waiter' = [waiter EXCEPT ![s] = "done"]
  BY HistoryParts DEF WaitDropJob, WaitEmit, WaitAt, WaitGoTo, runnerVars
<1>2. evicted \in [Sessions -> SUBSET Sessions] /\ waiter \in [Sessions -> WaitPCs]
  BY DEF TypeOK
<1>3. \A z \in Sessions : InHistory(z)' <=> InHistory(z)
  BY <1>1 DEF InHistory
<1>4. \A z \in Sessions :
        /\ waiter[z] \in {"evict", "emit", "done"} <=> waiter'[z] \in {"evict", "emit", "done"}
        /\ waiter[z] \in {"drop", "remember"} <=> waiter'[z] \in {"drop", "remember"}
        /\ waiter[z] = "evict" <=> waiter'[z] = "evict"
  BY <1>1, <1>2
<1>5. ASSUME NEW z \in Sessions PROVE Remembered(z)'
  BY <1>1, <1>2, <1>3, <1>4 DEF Remembered
<1>6. /\ (Len(terminal_sessions) <= MaxTerminal)'
      /\ (\A i, j \in 1 .. Len(terminal_sessions) :
            terminal_sessions[i] = terminal_sessions[j] => i = j)'
  BY <1>1, HistoryParts
<1> QED
  BY <1>5, <1>6 DEF HistoryInv, Remembered

\* No other operation turns a session terminal, back, or moves a wait thread
\* that has published.
LEMMA HistoryStep == RunnerInv /\ HistoryInv /\ [Next]_vars => HistoryInv'
<1> SUFFICES ASSUME RunnerInv, HistoryInv, [Next]_vars PROVE HistoryInv'
  OBVIOUS
<1>0. /\ TypeOK
      /\ \A c \in Callers : CallerOK(c)
      /\ HistoryQuiet => HistoryInv'
  BY QuietHistory DEF RunnerInv, CallerInv
<1> USE DEF StartPCs, StopPCs, SpawnedPCs, Active, Terminal, WaitAt, WaitGoTo,
      runnerVars, waitVars, callVars, osVars
<1>1. ASSUME NEW c \in Callers, NEW s \in Sessions, StartLock(c, s) PROVE HistoryInv'
  BY <1>0, <1>1 DEF StartLock, HistoryQuiet
<1>2. ASSUME NEW c \in Callers, NEW s \in Sessions, StopMark(c, s) PROVE HistoryInv'
  BY <1>0, <1>2 DEF StopMark, Stoppable, HistoryQuiet, TypeOK
<1>3. ASSUME NEW c \in Callers, NEW s \in Sessions, StopSettled(c, s) PROVE HistoryInv'
  BY <1>0, <1>3 DEF StopSettled, HistoryQuiet
<1>4. ASSUME NEW c \in Callers, StartStep(c) PROVE HistoryInv'
  <2>1. CASE StartInsert(c)
    <3>1. target[c] \in Sessions /\ state[target[c]] = "absent"
      BY <1>0, <2>1 DEF StartInsert, CallerOK
    <3> QED
      BY <1>0, <2>1, <3>1 DEF StartInsert, HistoryQuiet, TypeOK
  <2>2. CASE StartThread(c)
    <3>1. target[c] \in Sessions /\ waiter[target[c]] = "none"
      BY <1>0, <2>2 DEF StartThread, CallerOK
    <3> QED
      BY <1>0, <2>2, <3>1 DEF StartThread, HistoryQuiet, TypeOK
  <2>3. CASE StartCheck(c) \/ StartSpawn(c) \/ StartAssign(c) \/ StartResume(c) \/ StartCapture(c) \/ StartOwn(c)
    BY <1>0, <2>3 DEF StartCheck, StartSpawn, StartAssign, StartResume, StartCapture, StartOwn, HistoryQuiet
  <2> QED
    BY <1>4, <2>1, <2>2, <2>3 DEF StartStep
<1>5. ASSUME NEW c \in Callers, StopStep(c) PROVE HistoryInv'
  BY <1>0, <1>5 DEF StopStep, StopJob, StopHandle, StopVerify, StopKill, StopReverify, HistoryQuiet
<1>6. ASSUME NEW s \in Sessions, WaitStep(s) PROVE HistoryInv'
  <2>1. CASE WaitTake(s) \/ WaitReturns(s) \/ WaitDecide(s) \/ WaitClear(s)
    BY <1>0, <2>1 DEF WaitTake, WaitReturns, WaitDecide, WaitClear, HistoryQuiet, TypeOK
  <2> QED
    BY <1>0, <1>6, <2>1, PublishStep, MoveOnStep, RememberStep, EvictStep DEF WaitStep
<1>7. ASSUME NEW s \in Sessions, WaitFails(s) PROVE HistoryInv'
  BY <1>0, <1>7 DEF WaitFails, HistoryQuiet, TypeOK
<1>8. ASSUME NEW s \in Sessions, RootExits(s) \/ DescendantsExit(s) \/ PidReuse(s)
      PROVE  HistoryInv'
  BY <1>0, <1>8 DEF RootExits, DescendantsExit, PidReuse, HistoryQuiet
<1>9. CASE UNCHANGED vars
  BY <1>0, <1>9 DEF vars, HistoryQuiet
<1> QED
  BY <1>1, <1>2, <1>3, <1>4, <1>5, <1>6, <1>7, <1>8, <1>9 DEF Next, StopUnknown

\* Nothing is remembered, popped or terminal before the first start.
LEMMA HistoryInit == Init => HistoryInv
BY RunnerAssumption DEF Init, HistoryInv, InHistory, Terminal

\* The inductive invariant of the terminal history.
THEOREM HistoryInvariant == Spec => []HistoryInv
BY HistoryInit, HistoryStep, RunnerInvariant, PTL DEF Spec

\* A sequence has at most as many elements as positions.
LEMMA FewElements ==
  ASSUME NEW q \in Seq(Sessions)
  PROVE  LET R == {s \in Sessions : \E i \in 1 .. Len(q) : q[i] = s} IN
         IsFiniteSet(R) /\ Cardinality(R) <= Len(q)
<1> DEFINE R == {s \in Sessions : \E i \in 1 .. Len(q) : q[i] = s}
<1> DEFINE f == [i \in 1 .. Len(q) |-> q[i]]
<1>1. Len(q) \in Nat /\ 1 \in Int
  OBVIOUS
<1>2. IsFiniteSet(1 .. Len(q)) /\ Cardinality(1 .. Len(q)) = Len(q)
  <2>1. /\ IsFiniteSet(1 .. Len(q))
        /\ Cardinality(1 .. Len(q)) = IF 1 > Len(q) THEN 0 ELSE Len(q) - 1 + 1
    BY <1>1, FS_Interval
  <2> QED
    BY <1>1, <2>1
<1>3. f \in Surjection(1 .. Len(q), R)
  <2>1. f \in [1 .. Len(q) -> R]
    BY <1>1
  <2>2. \A s \in R : \E i \in 1 .. Len(q) : f[i] = s
    OBVIOUS
  <2> QED
    BY <2>1, <2>2 DEF Surjection
<1> QED
  BY <1>2, <1>3, FS_Surjection

\* Threads that evict one session each evict at most as many as they are.
LEMMA FewEvicted ==
  ASSUME TypeOK, HistoryInv,
         NEW E, E = {s \in Sessions : evicted[s] # {}}
  PROVE  LET X == {t \in Sessions : \E s \in Sessions : t \in evicted[s]} IN
         IsFiniteSet(X) /\ Cardinality(X) <= Cardinality(E)
<1> DEFINE X == {t \in Sessions : \E s \in Sessions : t \in evicted[s]}
<1> DEFINE f == [s \in E |-> CHOOSE t \in Sessions : evicted[s] = {t}]
<1>1. IsFiniteSet(E)
  BY RunnerAssumption, FS_Subset
<1>2. \A s \in E : f[s] \in Sessions /\ evicted[s] = {f[s]}
  BY DEF HistoryInv
<1>3. f \in Surjection(E, X)
  <2>1. f \in [E -> X]
    BY <1>2
  <2>2. ASSUME NEW t \in X PROVE \E s \in E : f[s] = t
    <3>1. PICK s \in Sessions : t \in evicted[s]
      OBVIOUS
    <3>2. s \in E
      BY <3>1
    <3>3. f[s] = t
      BY <1>2, <3>1, <3>2
    <3> QED
      BY <3>2, <3>3
  <2> QED
    BY <2>1, <2>2 DEF Surjection
<1> QED
  BY <1>1, <1>3, FS_Surjection

\* A terminal session is remembered, waits to be, or waits to be evicted, so
\* the map holds at most MaxTerminal and one for each thread between its
\* publication and the end of its eviction.
THEOREM HistoryBounded == Spec => []HistoryKept
<1>1. RunnerInv /\ HistoryInv => HistoryKept
  <2> SUFFICES ASSUME RunnerInv, HistoryInv PROVE HistoryKept
    OBVIOUS
  <2> DEFINE T == {s \in Sessions : state[s] \in Terminal}
             R == {s \in Sessions : InHistory(s)}
             D == {s \in Sessions : waiter[s] \in {"drop", "remember"}}
             E == {s \in Sessions : evicted[s] # {}}
             X == {t \in Sessions : \E s \in Sessions : t \in evicted[s]}
  <2>1. TypeOK /\ MaxTerminal \in Nat /\ IsFiniteSet(Sessions)
    BY RunnerAssumption DEF RunnerInv
  <2>2. T \subseteq (R \cup D) \cup X
    BY DEF HistoryInv
  <2>3. IsFiniteSet(R) /\ Cardinality(R) <= MaxTerminal /\ Cardinality(R) \in Nat
    <3>1. IsFiniteSet(R) /\ Cardinality(R) <= Len(terminal_sessions)
      BY <2>1, FewElements DEF InHistory, TypeOK
    <3>2. Cardinality(R) \in Nat
      BY <3>1, FS_CardinalityType
    <3>3. Len(terminal_sessions) <= MaxTerminal /\ Len(terminal_sessions) \in Nat
      BY <2>1 DEF HistoryInv, TypeOK
    <3> QED
      BY <2>1, <3>1, <3>2, <3>3
  <2>4. IsFiniteSet(X) /\ Cardinality(X) <= Cardinality(E)
    BY <2>1, FewEvicted
  <2>5. IsFiniteSet(D) /\ IsFiniteSet(E) /\ IsFiniteSet(T) /\ IsFiniteSet(Held)
    BY <2>1, FS_Subset DEF Held
  <2>6. Cardinality(D) + Cardinality(E) <= Cardinality(Held)
    <3>1. D \cap E = {} /\ D \cup E \subseteq Held
      BY DEF HistoryInv, Held
    <3>2. Cardinality(D \cup E) = Cardinality(D) + Cardinality(E) - Cardinality(D \cap E)
      BY <2>5, FS_Union
    <3>3. Cardinality(D \cap E) = 0
      BY <3>1, FS_EmptySet
    <3>4. Cardinality(D \cup E) <= Cardinality(Held)
      BY <2>5, <3>1, FS_Subset
    <3>5. Cardinality(D) \in Nat /\ Cardinality(E) \in Nat /\ Cardinality(Held) \in Nat
      BY <2>5, FS_CardinalityType
    <3> HIDE DEF D, E
    <3> QED
      BY <3>2, <3>3, <3>4, <3>5
  <2>7. Cardinality(T) <= Cardinality(R) + Cardinality(D) + Cardinality(X)
    <3>1. /\ IsFiniteSet(R \cup D)
          /\ Cardinality(R \cup D) = Cardinality(R) + Cardinality(D) - Cardinality(R \cap D)
      BY <2>3, <2>5, FS_Union
    <3>2. /\ IsFiniteSet((R \cup D) \cup X)
          /\ Cardinality((R \cup D) \cup X)
               = Cardinality(R \cup D) + Cardinality(X) - Cardinality((R \cup D) \cap X)
      BY <2>4, <3>1, FS_Union
    <3>3. Cardinality(T) <= Cardinality((R \cup D) \cup X)
      BY <2>2, <3>2, FS_Subset
    <3>4. IsFiniteSet(R \cap D) /\ IsFiniteSet((R \cup D) \cap X)
      BY <2>3, <3>1, FS_Intersection
    <3>5. /\ Cardinality(R) \in Nat /\ Cardinality(D) \in Nat /\ Cardinality(X) \in Nat
          /\ Cardinality(T) \in Nat /\ Cardinality(R \cup D) \in Nat
          /\ Cardinality((R \cup D) \cup X) \in Nat
          /\ Cardinality(R \cap D) \in Nat /\ Cardinality((R \cup D) \cap X) \in Nat
      BY <2>3, <2>4, <2>5, <3>1, <3>2, <3>4, FS_CardinalityType
    <3> HIDE DEF T, R, D, X
    <3> QED
      BY <3>1, <3>2, <3>3, <3>5
  <2>8. Cardinality(T) <= MaxTerminal + Cardinality(Held)
    <3>1. /\ Cardinality(R) \in Nat /\ Cardinality(D) \in Nat /\ Cardinality(X) \in Nat
          /\ Cardinality(T) \in Nat /\ Cardinality(E) \in Nat /\ Cardinality(Held) \in Nat
      BY <2>3, <2>4, <2>5, FS_CardinalityType
    <3> HIDE DEF T, R, D, E, X
    <3> QED
      BY <2>1, <2>3, <2>4, <2>6, <2>7, <3>1
  <2> QED
    BY <2>8 DEF HistoryKept, HistoryInv
<1> QED
  BY <1>1, RunnerInvariant, HistoryInvariant, PTL

-----------------------------------------------------------------------------
(* The runner implements SessionLifecycle.                                 *)

\* The empty runner is the empty lifecycle: no session, every profile free.
LEMMA LifecycleInit == Init => Lifecycle!Init
<1> SUFFICES ASSUME Init PROVE Lifecycle!Init
  OBVIOUS
<1>1. ASSUME NEW s \in Sessions PROVE LifeOf(s) = "absent"
  BY <1>1 DEF Init, LifeOf
<1>2. ASSUME NEW p \in Profiles PROVE OwnerOf(p) = NoSession
  BY <1>2, RunnerAssumption DEF Init, OwnerOf
<1> QED
  BY <1>1, <1>2 DEF Lifecycle!Init

Lives  == [s \in Sessions |-> LifeOf(s)]
Owners == [p \in Profiles |-> OwnerOf(p)]

\* A step that changes no session's life and no owner is a stutter.
LEMMA Quiet ==
  ASSUME \A s \in Sessions : LifeOf(s)' = LifeOf(s),
         \A p \in Profiles : OwnerOf(p)' = OwnerOf(p)
  PROVE  UNCHANGED Lifecycle!vars
BY DEF Lifecycle!vars

\* Inserting a session registers it, profile_running.remove releases the
\* profile, the second lock of publish_terminal_session finishes it and an
\* eviction forgets it; every other step is a stutter.
LEMMA LifecycleStep ==
  ASSUME RunnerInv, [Next]_vars
  PROVE  [Lifecycle!Next]_(Lifecycle!vars)
<1> DEFINE Goal == Lifecycle!Next \/ UNCHANGED Lifecycle!vars
<1> USE RunnerAssumption DEF RunnerInv, TypeOK, CallerInv, CallerOK, SessionInv, SessionOK,
      RunningEntryIsOwner, Owns, Claiming, StartPCs, StopPCs, SpawnedPCs, Living, InJob, Active, Terminal,
      runnerVars, waitVars, callVars, osVars, GoTo, Return, Unlock, WaitAt, WaitGoTo
<1>1. ASSUME NEW c \in Callers, NEW s \in Sessions, StartLock(c, s) PROVE Goal
  <2>1. \A z \in Sessions : LifeOf(z)' = LifeOf(z)
    BY <1>1 DEF LifeOf, StartLock, LifecycleFree
  <2>2. \A p \in Profiles : OwnerOf(p)' = OwnerOf(p)
    BY <1>1 DEF OwnerOf, StartLock, LifecycleFree
  <2> QED
    BY <2>1, <2>2, Quiet
<1>2. ASSUME NEW c \in Callers, NEW s \in Sessions, StopMark(c, s) PROVE Goal
  <2>1. \A p \in Profiles : OwnerOf(p)' = OwnerOf(p)
    BY <1>2 DEF OwnerOf, StopMark
  <2>2. CASE state[s] = "stopping"
    <3>1. \A z \in Sessions : LifeOf(z)' = LifeOf(z)
      BY <1>2, <2>2 DEF LifeOf, StopMark
    <3> QED
      BY <2>1, <3>1, Quiet
  <2>3. CASE state[s] = "running"
    <3>2. LifeOf(s) = "running"
      BY <2>3 DEF LifeOf
    <3>3. Lifecycle!RequestStop(s)
      <4>1. Lives' = [Lives EXCEPT ![s] = "stopping"]
        <5>1. state' = [state EXCEPT ![s] = "stopping"] /\ UNCHANGED waiter
          BY <1>2 DEF StopMark
        <5>2. state \in [Sessions -> {"absent"} \cup Active \cup Terminal]
          OBVIOUS
        <5> HIDE DEF RunnerInv, TypeOK, CallerInv, SessionInv, RunningEntryIsOwner
        <5> QED
          BY <1>2, <2>3, <5>1, <5>2 DEF Lives, LifeOf
      <4>3. Owners' = Owners
        BY <1>2 DEF Owners, OwnerOf, StopMark
      <4>2. Lives[s] = "running"
        BY <3>2 DEF Lives
      <4> QED
        BY <4>1, <4>2, <4>3 DEF Lifecycle!RequestStop, Lives, Owners
    <3> QED
      BY <3>3 DEF Lifecycle!Next
  <2> QED
    BY <1>2, <2>2, <2>3 DEF StopMark, Stoppable
<1>3. ASSUME NEW c \in Callers, NEW s \in Sessions, StopSettled(c, s) PROVE Goal
  <2>1. \A z \in Sessions : LifeOf(z)' = LifeOf(z)
    BY <1>3 DEF LifeOf, StopSettled
  <2>2. \A p \in Profiles : OwnerOf(p)' = OwnerOf(p)
    BY <1>3 DEF OwnerOf, StopSettled
  <2> QED
    BY <2>1, <2>2, Quiet
<1>4. ASSUME NEW c \in Callers, NEW s \in Sessions, StopUnknown(c, s) PROVE Goal
  <2>1. \A z \in Sessions : LifeOf(z)' = LifeOf(z)
    BY <1>4 DEF LifeOf, StopUnknown, vars
  <2>2. \A p \in Profiles : OwnerOf(p)' = OwnerOf(p)
    BY <1>4 DEF OwnerOf, StopUnknown, vars
  <2> QED
    BY <2>1, <2>2, Quiet
<1>5. ASSUME NEW c \in Callers, StartCheck(c) PROVE Goal
  <2>1. \A z \in Sessions : LifeOf(z)' = LifeOf(z)
    BY <1>5 DEF LifeOf, StartCheck
  <2>2. \A p \in Profiles : OwnerOf(p)' = OwnerOf(p)
    BY <1>5 DEF OwnerOf, StartCheck
  <2> QED
    BY <2>1, <2>2, Quiet
<1>6. ASSUME NEW c \in Callers, StartSpawn(c) PROVE Goal
  <2>1. \A z \in Sessions : LifeOf(z)' = LifeOf(z)
    BY <1>6 DEF LifeOf, StartSpawn
  <2>2. \A p \in Profiles : OwnerOf(p)' = OwnerOf(p)
    BY <1>6 DEF OwnerOf, StartSpawn
  <2> QED
    BY <2>1, <2>2, Quiet
<1>30. ASSUME NEW c \in Callers, StartAssign(c) PROVE Goal
  <2>1. \A z \in Sessions : LifeOf(z)' = LifeOf(z)
    BY <1>30 DEF LifeOf, StartAssign, Discard, KillRoot
  <2>2. \A p \in Profiles : OwnerOf(p)' = OwnerOf(p)
    BY <1>30 DEF OwnerOf, StartAssign, Discard, KillRoot
  <2> QED
    BY <2>1, <2>2, Quiet
<1>31. ASSUME NEW c \in Callers, StartResume(c) PROVE Goal
  <2>1. \A z \in Sessions : LifeOf(z)' = LifeOf(z)
    BY <1>31 DEF LifeOf, StartResume, Discard, KillRoot
  <2>2. \A p \in Profiles : OwnerOf(p)' = OwnerOf(p)
    BY <1>31 DEF OwnerOf, StartResume, Discard, KillRoot
  <2> QED
    BY <2>1, <2>2, Quiet
<1>7. ASSUME NEW c \in Callers, StartCapture(c) PROVE Goal
  <2>1. \A z \in Sessions : LifeOf(z)' = LifeOf(z)
    BY <1>7 DEF LifeOf, StartCapture
  <2>2. \A p \in Profiles : OwnerOf(p)' = OwnerOf(p)
    BY <1>7 DEF OwnerOf, StartCapture
  <2> QED
    BY <2>1, <2>2, Quiet
<1>8. ASSUME NEW c \in Callers, StartInsert(c) PROVE Goal
  <2> DEFINE t == target[c]
  <2>1. t \in Sessions /\ LifeOf(t) = "absent" /\ OwnerOf(ProfileOf[t]) = NoSession
    BY <1>8 DEF StartInsert, LifeOf, OwnerOf
  <2>4. Lifecycle!Register(t)
    <3>1. Lives' = [Lives EXCEPT ![t] = "running"]
      BY <1>8, <2>1 DEF Lives, LifeOf, StartInsert
    <3>2. Owners' = [Owners EXCEPT ![ProfileOf[t]] = t]
      BY <1>8, <2>1 DEF Owners, OwnerOf, StartInsert
    <3>3. Lives[t] = "absent" /\ Owners[ProfileOf[t]] = NoSession
      BY <2>1 DEF Lives, Owners
    <3> QED
      BY <3>1, <3>2, <3>3 DEF Lifecycle!Register, Lives, Owners
  <2> QED
    BY <2>1, <2>4 DEF Lifecycle!Next
<1>9. ASSUME NEW c \in Callers, StartOwn(c) PROVE Goal
  <2>1. \A z \in Sessions : LifeOf(z)' = LifeOf(z)
    BY <1>9 DEF LifeOf, StartOwn
  <2>2. \A p \in Profiles : OwnerOf(p)' = OwnerOf(p)
    BY <1>9 DEF OwnerOf, StartOwn
  <2> QED
    BY <2>1, <2>2, Quiet
<1>10. ASSUME NEW c \in Callers, StartThread(c) PROVE Goal
  <2>1. \A z \in Sessions : LifeOf(z)' = LifeOf(z)
    BY <1>10 DEF LifeOf, StartThread
  <2>2. \A p \in Profiles : OwnerOf(p)' = OwnerOf(p)
    BY <1>10 DEF OwnerOf, StartThread
  <2> QED
    BY <2>1, <2>2, Quiet
<1>11. ASSUME NEW c \in Callers, StopJob(c) PROVE Goal
  <2>1. \A z \in Sessions : LifeOf(z)' = LifeOf(z)
    BY <1>11 DEF LifeOf, StopJob, ReturnOk
  <2>2. \A p \in Profiles : OwnerOf(p)' = OwnerOf(p)
    BY <1>11 DEF OwnerOf, StopJob, ReturnOk
  <2> QED
    BY <2>1, <2>2, Quiet
<1>12. ASSUME NEW c \in Callers, StopHandle(c) PROVE Goal
  <2>1. \A z \in Sessions : LifeOf(z)' = LifeOf(z)
    BY <1>12 DEF LifeOf, StopHandle, ReturnOk
  <2>2. \A p \in Profiles : OwnerOf(p)' = OwnerOf(p)
    BY <1>12 DEF OwnerOf, StopHandle, ReturnOk
  <2> QED
    BY <2>1, <2>2, Quiet
<1>13. ASSUME NEW c \in Callers, StopVerify(c) PROVE Goal
  <2>1. \A z \in Sessions : LifeOf(z)' = LifeOf(z)
    BY <1>13 DEF LifeOf, StopVerify, ReturnOk, ReturnErr
  <2>2. \A p \in Profiles : OwnerOf(p)' = OwnerOf(p)
    BY <1>13 DEF OwnerOf, StopVerify, ReturnOk, ReturnErr
  <2> QED
    BY <2>1, <2>2, Quiet
<1>14. ASSUME NEW c \in Callers, StopKill(c) PROVE Goal
  <2>1. \A z \in Sessions : LifeOf(z)' = LifeOf(z)
    BY <1>14 DEF LifeOf, StopKill, ReturnOk
  <2>2. \A p \in Profiles : OwnerOf(p)' = OwnerOf(p)
    BY <1>14 DEF OwnerOf, StopKill, ReturnOk
  <2> QED
    BY <2>1, <2>2, Quiet
<1>15. ASSUME NEW c \in Callers, StopReverify(c) PROVE Goal
  <2>1. \A z \in Sessions : LifeOf(z)' = LifeOf(z)
    BY <1>15 DEF LifeOf, StopReverify, ReturnOk, ReturnErr
  <2>2. \A p \in Profiles : OwnerOf(p)' = OwnerOf(p)
    BY <1>15 DEF OwnerOf, StopReverify, ReturnOk, ReturnErr
  <2> QED
    BY <2>1, <2>2, Quiet
<1>16. ASSUME NEW s \in Sessions, WaitTake(s) PROVE Goal
  <2>1. \A z \in Sessions : LifeOf(z)' = LifeOf(z)
    BY <1>16 DEF LifeOf, WaitTake
  <2>2. \A p \in Profiles : OwnerOf(p)' = OwnerOf(p)
    BY <1>16 DEF OwnerOf, WaitTake
  <2> QED
    BY <2>1, <2>2, Quiet
<1>17. ASSUME NEW s \in Sessions, WaitReturns(s) PROVE Goal
  <2>1. \A z \in Sessions : LifeOf(z)' = LifeOf(z)
    BY <1>17 DEF LifeOf, WaitReturns
  <2>2. \A p \in Profiles : OwnerOf(p)' = OwnerOf(p)
    BY <1>17 DEF OwnerOf, WaitReturns
  <2> QED
    BY <2>1, <2>2, Quiet
<1>18. ASSUME NEW s \in Sessions, WaitDecide(s) PROVE Goal
  <2>1. \A z \in Sessions : LifeOf(z)' = LifeOf(z)
    BY <1>18 DEF LifeOf, WaitDecide
  <2>2. \A p \in Profiles : OwnerOf(p)' = OwnerOf(p)
    BY <1>18 DEF OwnerOf, WaitDecide
  <2> QED
    BY <2>1, <2>2, Quiet
<1>19. ASSUME NEW s \in Sessions, WaitClear(s) PROVE Goal
  <2>1. profile_running[ProfileOf[s]] = s /\ state[s] \in Active
    BY <1>19 DEF WaitClear
  <2>3. OwnerOf(ProfileOf[s]) = s
    BY <1>19, <2>1 DEF OwnerOf
  <2>5. Lifecycle!Release(s)
    <3>1. Owners' = [Owners EXCEPT ![ProfileOf[s]] = NoSession]
      <4>1. /\ profile_running' = [profile_running EXCEPT ![ProfileOf[s]] = NoSession]
            /\ UNCHANGED <<lifecycle, pc, target>>
        BY <1>19 DEF WaitClear
      <4>2. ~(/\ lifecycle # NoCaller /\ pc[lifecycle] = "own"
              /\ ProfileOf[target[lifecycle]] = ProfileOf[s])
        BY <2>1
      <4> HIDE DEF RunnerInv, TypeOK, CallerInv, SessionInv, RunningEntryIsOwner
      <4>3. ProfileOf[s] \in Profiles /\ profile_running \in [Profiles -> Sessions \cup {NoSession}]
        BY DEF RunnerInv, TypeOK
      <4> QED
        BY <4>1, <4>2, <4>3 DEF Owners, OwnerOf
    <3>3. Lives' = Lives
      BY <1>19 DEF Lives, LifeOf, WaitClear
    <3>2. Lives[s] \in Lifecycle!Active /\ Owners[ProfileOf[s]] = s
      BY <2>1, <2>3 DEF Lives, Owners, LifeOf, Lifecycle!Active
    <3> QED
      BY <3>1, <3>2, <3>3 DEF Lifecycle!Release, Lives, Owners
  <2> QED
    BY <2>5 DEF Lifecycle!Next
<1>20. ASSUME NEW s \in Sessions, WaitPublish(s) PROVE Goal
  <2>1. state[s] \in Active /\ verdict[s] \in Terminal
    BY <1>20 DEF WaitPublish
  <2>4. OwnerOf(ProfileOf[s]) # s
    BY SMTT(40), <1>20, <2>1 DEF OwnerOf, WaitPublish
  <2>5. Lifecycle!Finish(s)
    <3>1. Lives' = [Lives EXCEPT ![s] = verdict[s]]
      BY <1>20, <2>1 DEF Lives, LifeOf, WaitPublish
    <3>3. Owners' = Owners
      BY <1>20 DEF Owners, OwnerOf, WaitPublish
    <3>2. Lives[s] \in Lifecycle!Active /\ Owners[ProfileOf[s]] # s
      BY <2>1, <2>4 DEF Lives, Owners, LifeOf, Lifecycle!Active
    <3> QED
      BY <2>1, <3>1, <3>2, <3>3 DEF Lifecycle!Finish, Lifecycle!Terminal, Lives, Owners
  <2> QED
    BY <2>5 DEF Lifecycle!Next
<1>21. ASSUME NEW s \in Sessions, WaitDropJob(s) PROVE Goal
  <2>1. \A z \in Sessions : LifeOf(z)' = LifeOf(z)
    BY <1>21 DEF LifeOf, WaitDropJob
  <2>2. \A p \in Profiles : OwnerOf(p)' = OwnerOf(p)
    BY <1>21 DEF OwnerOf, WaitDropJob
  <2> QED
    BY <2>1, <2>2, Quiet
<1>22. ASSUME NEW s \in Sessions, WaitRemember(s) PROVE Goal
  <2>1. \A z \in Sessions : LifeOf(z)' = LifeOf(z)
    BY <1>22 DEF LifeOf, WaitRemember, AfterRemember
  <2>2. \A p \in Profiles : OwnerOf(p)' = OwnerOf(p)
    BY <1>22 DEF OwnerOf, WaitRemember, AfterRemember
  <2> QED
    BY <2>1, <2>2, Quiet
<1>23. ASSUME NEW s \in Sessions, WaitEvict(s) PROVE Goal
  <2> DEFINE S == {z \in evicted[s] : state[z] \in Terminal}
  <2>1. S \in SUBSET Sessions /\ \A z \in S : LifeOf(z) \in Terminal
    BY DEF LifeOf
  <2>2. \A z \in Sessions : LifeOf(z)' = IF z \in S THEN "gone" ELSE LifeOf(z)
    BY SMTT(40), <1>23 DEF LifeOf, WaitEvict
  <2>3. \A p \in Profiles : OwnerOf(p)' = OwnerOf(p)
    BY <1>23 DEF OwnerOf, WaitEvict
  <2>4. Lifecycle!Forget(S)
    BY <2>1, <2>2, <2>3 DEF Lifecycle!Forget, Lifecycle!Terminal
  <2> QED
    BY <2>1, <2>4 DEF Lifecycle!Next
<1>24. ASSUME NEW s \in Sessions, WaitEmit(s) PROVE Goal
  <2>1. \A z \in Sessions : LifeOf(z)' = LifeOf(z)
    BY <1>24 DEF LifeOf, WaitEmit
  <2>2. \A p \in Profiles : OwnerOf(p)' = OwnerOf(p)
    BY <1>24 DEF OwnerOf, WaitEmit
  <2> QED
    BY <2>1, <2>2, Quiet
<1>25. ASSUME NEW s \in Sessions, WaitFails(s) PROVE Goal
  <2>1. \A z \in Sessions : LifeOf(z)' = LifeOf(z)
    BY <1>25 DEF LifeOf, WaitFails
  <2>2. \A p \in Profiles : OwnerOf(p)' = OwnerOf(p)
    BY <1>25 DEF OwnerOf, WaitFails
  <2> QED
    BY <2>1, <2>2, Quiet
<1>26. ASSUME NEW s \in Sessions, RootExits(s) PROVE Goal
  <2>1. \A z \in Sessions : LifeOf(z)' = LifeOf(z)
    BY <1>26 DEF LifeOf, RootExits
  <2>2. \A p \in Profiles : OwnerOf(p)' = OwnerOf(p)
    BY <1>26 DEF OwnerOf, RootExits
  <2> QED
    BY <2>1, <2>2, Quiet
<1>27. ASSUME NEW s \in Sessions, DescendantsExit(s) PROVE Goal
  <2>1. \A z \in Sessions : LifeOf(z)' = LifeOf(z)
    BY <1>27 DEF LifeOf, DescendantsExit
  <2>2. \A p \in Profiles : OwnerOf(p)' = OwnerOf(p)
    BY <1>27 DEF OwnerOf, DescendantsExit
  <2> QED
    BY <2>1, <2>2, Quiet
<1>28. ASSUME NEW s \in Sessions, PidReuse(s) PROVE Goal
  <2>1. \A z \in Sessions : LifeOf(z)' = LifeOf(z)
    BY <1>28 DEF LifeOf, PidReuse
  <2>2. \A p \in Profiles : OwnerOf(p)' = OwnerOf(p)
    BY <1>28 DEF OwnerOf, PidReuse
  <2> QED
    BY <2>1, <2>2, Quiet
<1>29. CASE UNCHANGED vars
  <2>1. \A z \in Sessions : LifeOf(z)' = LifeOf(z)
    BY <1>29 DEF LifeOf, vars
  <2>2. \A p \in Profiles : OwnerOf(p)' = OwnerOf(p)
    BY <1>29 DEF OwnerOf, vars
  <2> QED
    BY <2>1, <2>2, Quiet
<1> QED
  BY <1>1, <1>2, <1>3, <1>4, <1>5, <1>6, <1>7, <1>8, <1>9, <1>10, <1>11, <1>12, <1>13, <1>14, <1>15, <1>16, <1>17, <1>18, <1>19, <1>20, <1>21, <1>22, <1>23, <1>24, <1>25, <1>26, <1>27, <1>28, <1>29, <1>30, <1>31 DEF Next, StartStep, StopStep, WaitStep

\* The safety part of SessionLifecycle holds of the runner: a session starts
\* only in a free profile, turns terminal once and after giving it back, and is
\* forgotten only then.
THEOREM RunnerImplementsLifecycle == Spec => LifecycleImplemented
BY LifecycleInit, LifecycleStep, RunnerInvariant, PTL DEF Spec, LifecycleImplemented, Lifecycle!Safety

=============================================================================
