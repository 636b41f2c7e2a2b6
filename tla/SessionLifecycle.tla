--------------------------- MODULE SessionLifecycle ---------------------------
(***************************************************************************)
(* What the runner promises about launch sessions, with no threads, locks, *)
(* handles or processes: the states LaunchSessionState names, in the order *)
(* a session may pass through them, and the slot of each profile.          *)
(***************************************************************************)
CONSTANTS Profiles, Sessions, ProfileOf, NoSession

VARIABLES
  life,    \* per session; "absent" before it is registered, "gone" after it is forgotten
  owner    \* per profile: the session that blocks another start

vars == <<life, owner>>

Active   == {"running", "stopping"}
Terminal == {"stopped", "failed"}

TypeOK ==
  /\ life \in [Sessions -> {"absent", "gone"} \cup Active \cup Terminal]
  /\ owner \in [Profiles -> Sessions \cup {NoSession}]

Init ==
  /\ life = [s \in Sessions |-> "absent"]
  /\ owner = [p \in Profiles |-> NoSession]

\* A session begins only in a profile no other session owns.
Register(s) ==
  /\ life[s] = "absent"
  /\ owner[ProfileOf[s]] = NoSession
  /\ life' = [life EXCEPT ![s] = "running"]
  /\ owner' = [owner EXCEPT ![ProfileOf[s]] = s]

RequestStop(s) ==
  /\ life[s] = "running"
  /\ life' = [life EXCEPT ![s] = "stopping"]
  /\ UNCHANGED owner

\* The profile is given back by the session that owns it, while it is active.
Release(s) ==
  /\ life[s] \in Active
  /\ owner[ProfileOf[s]] = s
  /\ owner' = [owner EXCEPT ![ProfileOf[s]] = NoSession]
  /\ UNCHANGED life

\* A session becomes terminal once, after it gave its profile back.
Finish(s) ==
  /\ life[s] \in Active
  /\ owner[ProfileOf[s]] # s
  /\ \E v \in Terminal : life' = [life EXCEPT ![s] = v]
  /\ UNCHANGED owner

\* Only terminal sessions are forgotten.
Forget(S) ==
  /\ \A s \in S : life[s] \in Terminal
  /\ life' = [s \in Sessions |-> IF s \in S THEN "gone" ELSE life[s]]
  /\ UNCHANGED owner

Next ==
  \/ \E s \in Sessions :
       Register(s) \/ RequestStop(s) \/ Release(s) \/ Finish(s)
  \/ \E S \in SUBSET Sessions : Forget(S)

\* A session that gave its profile back does become terminal.
Fairness == \A s \in Sessions : WF_vars(Finish(s))

Safety == Init /\ [][Next]_vars
Spec == Safety /\ Fairness

=============================================================================
