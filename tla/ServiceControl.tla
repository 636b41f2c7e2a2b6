---------------------------- MODULE ServiceControl ----------------------------
(***************************************************************************)
(* Starting, stopping and restarting a Windows service that others control *)
(* too: the confirmation and the command of service_confirmation.rs over   *)
(* service_manager. The status is read by a query, decided upon, and may   *)
(* have changed by the time `sc` runs. Confirmations models the eviction   *)
(* and the expiry of tokens; here a token is pending or it is not.         *)
(***************************************************************************)
EXTENDS Naturals, Sequences

CONSTANTS Callers, Services, Tokens, MaxPolls, NoCaller, NoBinding, NoCall

Actions  == {"start", "stop", "restart"}
Statuses == {"running", "stopped", "starting", "stopping", "paused"}

\* binding_digest: the service, the action, and the status the user was shown.
Bindings == [service : Services, action : Actions, status : Statuses]

\* Arguments of control_windows_service_safe.
Requests == [service : Services, action : Actions, token : Tokens]

ASSUME ServiceAssumption ==
  /\ NoCaller \notin Callers
  /\ NoBinding \notin Bindings
  /\ NoCall \notin Requests
  /\ MaxPolls \in Nat    \* bound: queries of wait_for_status before its timeout

VARIABLES
  status,   \* of every service, as the service control manager has it
  managed,  \* services list_managed_services finds under the settings
  token,    \* per token: "fresh", "pending" or "gone"
  bound,    \* per token: what it was issued for
  lock,     \* service_control_lock
  pc, call, \* per caller: the next step of its command, and the arguments
  polls,    \* per caller: queries wait_for_status has made
  ok,       \* history: the request answered last, if the answer was Ok
  down,     \* history: per caller, its service was stopped since the token was checked
  sent      \* history: per token, the sc commands that were accepted under it

commandVars == <<lock, pc, call, polls, ok>>
tokenVars == <<token, bound>>
vars == <<status, managed, tokenVars, commandVars, down, sent>>

\* The steps of execute_service_action.
Executing(c) == pc[c] \in {"stop", "stopping", "start", "starting"}

Init ==
  /\ status \in [Services -> {"running", "stopped"}]
  /\ managed = Services
  /\ token = [t \in Tokens |-> "fresh"]
  /\ bound = [t \in Tokens |-> NoBinding]
  /\ lock = NoCaller
  /\ pc = [c \in Callers |-> "idle"]
  /\ call = [c \in Callers |-> NoCall]
  /\ polls = [c \in Callers |-> 0]
  /\ ok = NoCall
  /\ down = [c \in Callers |-> FALSE]
  /\ sent = [t \in Tokens |-> <<>>]

-----------------------------------------------------------------------------
(* The service control manager, and whoever else controls services.        *)

Becomes(v, new) ==
  /\ status' = [status EXCEPT ![v] = new]
  /\ down' = [c \in Callers |->
                down[c] \/ (Executing(c) /\ call[c].service = v /\ new = "stopped")]

\* A pending start succeeds or fails; a pending stop succeeds.
Settles(v) ==
  /\ \/ status[v] = "starting" /\ Becomes(v, "running")
     \/ status[v] \in {"starting", "stopping"} /\ Becomes(v, "stopped")
  /\ UNCHANGED <<managed, tokenVars, commandVars, sent>>

\* services.msc, another program, or a crash.
ChangedOutside(v) ==
  /\ \/ status[v] = "running" /\ \E new \in {"stopping", "stopped", "paused"} : Becomes(v, new)
     \/ status[v] = "paused" /\ \E new \in {"running", "stopping"} : Becomes(v, new)
     \/ status[v] = "stopped" /\ Becomes(v, "starting")
  /\ UNCHANGED <<managed, tokenVars, commandVars, sent>>

\* sc start and sc stop: accepted, or refused in the states that do not allow
\* them, for want of rights, or because the service vanished.
Accepts(action, v) ==
  \/ action = "start" /\ status[v] = "stopped" /\ Becomes(v, "starting")
  \/ action = "stop" /\ status[v] \in {"running", "paused"} /\ Becomes(v, "stopping")

-----------------------------------------------------------------------------
(* Settings, and the confirmation.                                         *)

SaveSettings ==
  /\ \E s \in SUBSET Services : managed' = s
  /\ UNCHANGED <<status, tokenVars, commandVars, down, sent>>

\* issue_service_control_confirmation_safe. It does not take the control lock.
Issue(t, v, a) ==
  /\ token[t] = "fresh"
  /\ v \in managed
  /\ token' = [token EXCEPT ![t] = "pending"]
  /\ bound' = [bound EXCEPT ![t] = [service |-> v, action |-> a, status |-> status[v]]]
  /\ UNCHANGED <<status, managed, commandVars, down, sent>>

\* Purged after its time, or evicted.
Expire(t) ==
  /\ token[t] = "pending"
  /\ token' = [token EXCEPT ![t] = "gone"]
  /\ UNCHANGED <<status, managed, bound, commandVars, down, sent>>

-----------------------------------------------------------------------------
(* control_windows_service_safe.                                           *)

Goto(c, l) == pc' = [pc EXCEPT ![c] = l]

\* Variant: a command does not wait for the one under way.
LockIgnored(c) == TRUE

\* The lock is free.
LockFree(c) == lock = NoCaller

\* Returning drops the guard of the control lock.
Return(c) ==
  /\ Goto(c, "idle")
  /\ call' = [call EXCEPT ![c] = NoCall]
  /\ polls' = [polls EXCEPT ![c] = 0]
  /\ lock' = NoCaller
  /\ down' = [down EXCEPT ![c] = FALSE]

ReturnErr(c) == Return(c) /\ ok' = NoCall
ReturnOk(c) == Return(c) /\ ok' = call[c]

Begin(c, r) ==
  /\ pc[c] = "idle"
  /\ token[r.token] # "fresh"
  /\ LockFree(c)
  /\ lock' = c
  /\ call' = [call EXCEPT ![c] = r]
  /\ Goto(c, "consume")
  /\ ok' = NoCall
  /\ UNCHANGED <<status, managed, tokenVars, polls, down, sent>>

\* The token leaves the store whatever comes of it.
Consume(c) ==
  /\ pc[c] = "consume"
  /\ \/ /\ token[call[c].token] = "pending"
        /\ token' = [token EXCEPT ![call[c].token] = "gone"]
        /\ Goto(c, "check")
        /\ UNCHANGED <<lock, call, polls, ok, down>>
     \/ /\ token[call[c].token] = "gone"
        /\ ReturnErr(c)
        /\ UNCHANGED token
  /\ UNCHANGED <<status, managed, bound, sent>>

\* Variant: a restart takes a service on its way up or down to be down.
FirstStepSkippingStop(action, now) ==
  CASE action = "start"   -> IF now = "starting" THEN "starting" ELSE "start"
    [] action = "stop"    -> IF now = "stopping" THEN "stopping" ELSE "stop"
    [] action = "restart" -> IF now \in {"stopped", "stopping", "starting"} THEN "starting" ELSE "stop"

\* execute_service_action decides by the status it was given.
FirstStep(action, now) ==
  CASE action = "start"   -> IF now = "starting" THEN "starting" ELSE "start"
    [] action = "stop"    -> IF now = "stopping" THEN "stopping" ELSE "stop"
    [] action = "restart" -> CASE now = "stopped"  -> "start"
                               [] now = "stopping" -> "stopping"
                               [] OTHER            -> "stop"

\* Start of a running service, and stop of a stopped one, are done already.
Settled(action, now) ==
  \/ action = "start" /\ now = "running"
  \/ action = "stop" /\ now = "stopped"

\* Variant: the digest leaves the status out.
IsConfirmedName(r) ==
  bound[r.token].service = r.service /\ bound[r.token].action = r.action

\* The digest of the service as it is now is the one of the token.
IsConfirmed(r) ==
  bound[r.token] = [service |-> r.service, action |-> r.action, status |-> status[r.service]]

\* find_managed_service, which may fail, and the check of the digest.
Check(c) ==
  /\ pc[c] = "check"
  /\ LET r == call[c]
         now == status[r.service]
     IN \/ /\ r.service \in managed /\ IsConfirmed(r) /\ ~Settled(r.action, now)
           /\ Goto(c, FirstStep(r.action, now))
           /\ down' = [down EXCEPT ![c] = now = "stopped"]
           /\ UNCHANGED <<lock, call, polls, ok>>
        \/ /\ r.service \in managed /\ IsConfirmed(r) /\ Settled(r.action, now)
           /\ ReturnOk(c)
        \/ ReturnErr(c)
  /\ UNCHANGED <<status, managed, tokenVars, sent>>

\* control_service: `sc`, followed by wait_for_status if it was accepted.
Sc(c, action) ==
  /\ pc[c] = action
  /\ \/ /\ Accepts(action, call[c].service)
        /\ sent' = [sent EXCEPT ![call[c].token] = Append(@, action)]
        /\ Goto(c, IF action = "stop" THEN "stopping" ELSE "starting")
        /\ UNCHANGED <<lock, call, polls, ok>>
     \/ ReturnErr(c) /\ UNCHANGED <<status, sent>>
  /\ UNCHANGED <<managed, tokenVars>>

\* A restart goes on to its start; everything else is answered.
Reached(c) ==
  IF pc[c] = "stopping" /\ call[c].action = "restart"
  THEN Goto(c, "start") /\ polls' = [polls EXCEPT ![c] = 0] /\ UNCHANGED <<lock, call, ok, down>>
  ELSE ReturnOk(c)

\* Variant: `started` is taken anew in every round.
ClockRestarted(c) == polls' = [polls EXCEPT ![c] = 0]

\* Another round of the loop, until the time is up.
PollsAgain(c) == polls[c] < MaxPolls /\ polls' = [polls EXCEPT ![c] = @ + 1]

\* One query of wait_for_status. How many fit in the time is not known.
Poll(c) ==
  /\ pc[c] \in {"stopping", "starting"}
  /\ LET target == IF pc[c] = "stopping" THEN "stopped" ELSE "running"
         now == status[call[c].service]
     IN \/ now = target /\ Reached(c)
        \/ now # target /\ PollsAgain(c) /\ UNCHANGED <<lock, pc, call, ok, down>>
        \/ now # target /\ polls[c] = MaxPolls /\ ReturnErr(c)
  /\ UNCHANGED <<status, managed, tokenVars, sent>>

\* The query itself fails.
QueryFails(c) ==
  /\ pc[c] \in {"stopping", "starting"}
  /\ ReturnErr(c)
  /\ UNCHANGED <<status, managed, tokenVars, sent>>

-----------------------------------------------------------------------------

Step(c) ==
  \/ Consume(c)
  \/ Check(c)
  \/ Sc(c, "stop") \/ Sc(c, "start")
  \/ Poll(c)

Next ==
  \/ \E v \in Services : Settles(v) \/ ChangedOutside(v)
  \/ SaveSettings
  \/ \E t \in Tokens : Expire(t) \/ \E v \in Services, a \in Actions : Issue(t, v, a)
  \/ \E c \in Callers : Step(c) \/ QueryFails(c) \/ \E r \in Requests : Begin(c, r)

\* A command that runs goes on. Nothing makes a service settle, or a query fail.
Fairness == \A c \in Callers : WF_vars(Step(c))

Spec == Init /\ [][Next]_vars /\ Fairness

-----------------------------------------------------------------------------
(* Properties.                                                             *)

Target(action) == IF action = "stop" THEN "stopped" ELSE "running"

\* An Ok answer is true when it is given, whoever else changes the service:
\* the service is in the state asked for and, for a restart, was down since the
\* token was checked, although it may have been stopping or starting by itself.
OkIsHonest ==
  [][\A c \in Callers :
       LET r == call[c] IN
       ok' # ok /\ ok' # NoCall /\ ok' = r =>
         /\ status[r.service] = Target(r.action)
         /\ r.action = "restart" => down[c]]_vars

\* What is sent under one token: at most its action, a restart being a stop and
\* then a start. A token the user was shown a stopped service for never stops
\* it, although the service may be running by the time `sc` is run.
Confirmed(b) ==
  CASE b.action = "start" -> {<<>>, <<"start">>}
    [] b.action = "stop"  -> {<<>>, <<"stop">>}
    [] b.action = "restart" /\ b.status \in {"stopped", "stopping"} -> {<<>>, <<"start">>}
    [] OTHER -> {<<>>, <<"stop">>, <<"stop", "start">>}

SentWasConfirmed ==
  \A t \in Tokens : sent[t] # <<>> => sent[t] \in Confirmed(bound[t])

\* From the check of a confirmation to the answer nothing is sent under another
\* token: two restarts do not meet between the stop and the start of the first,
\* and no command confirmed for the service as it was comes in between.
ControlUndisturbed ==
  [][\A c \in Callers, t \in Tokens :
       Executing(c) /\ sent'[t] # sent[t] => t = call[c].token]_vars

-----------------------------------------------------------------------------
(* The inductive invariant behind them.                                    *)

ControlPCs == {"idle", "consume", "check", "stop", "stopping", "start", "starting"}

TypeOK ==
  /\ status \in [Services -> Statuses]
  /\ managed \subseteq Services
  /\ token \in [Tokens -> {"fresh", "pending", "gone"}]
  /\ bound \in [Tokens -> Bindings \cup {NoBinding}]
  /\ pc \in [Callers -> ControlPCs]
  /\ call \in [Callers -> Requests \cup {NoCall}]
  /\ polls \in [Callers -> 0 .. MaxPolls]
  /\ down \in [Callers -> BOOLEAN]
  /\ sent \in [Tokens -> Seq({"stop", "start"})]

\* A command runs under the lock, and only one that runs has arguments.
LockInv ==
  \A c \in Callers :
    /\ pc[c] # "idle" => lock = c /\ call[c] \in Requests
    /\ (pc[c] = "idle") => call[c] = NoCall

\* A token that is not consumed has sent nothing.
TokenInv ==
  \A t \in Tokens :
    /\ token[t] # "fresh" => bound[t] \in Bindings
    /\ token[t] # "gone" => sent[t] = <<>>

\* The user was shown a service that a restart need not stop.
ShownDown(b) == b.status \in {"stopped", "stopping"}

\* What is sent and known where the command is.
Working(c) ==
  LET r == call[c]
      t == r.token
      restart == r.action = "restart"
  IN /\ pc[c] = "consume" => token[t] # "fresh"
     /\ pc[c] \notin {"idle", "consume"} => token[t] = "gone"
     /\ (pc[c] = "check") => sent[t] = <<>>
     /\ Executing(c) =>
          /\ bound[t].service = r.service /\ bound[t].action = r.action
          /\ (status[r.service] = "stopped") => down[c]
     /\ (pc[c] = "stop") =>
          /\ r.action # "start" /\ sent[t] = <<>>
          /\ restart => ~ShownDown(bound[t])
     /\ (pc[c] = "stopping") =>
          /\ r.action # "start"
          /\ restart => sent[t] = IF ShownDown(bound[t]) THEN <<>> ELSE <<"stop">>
     /\ (pc[c] = "start") =>
          /\ r.action # "stop"
          /\ sent[t] = IF restart /\ ~ShownDown(bound[t]) THEN <<"stop">> ELSE <<>>
     /\ (pc[c] = "starting") => r.action # "stop"
     /\ pc[c] \in {"start", "starting"} /\ restart => down[c]

ControlInv ==
  /\ TypeOK /\ LockInv /\ TokenInv /\ SentWasConfirmed
  /\ \A c \in Callers : Working(c)

\* Every command is answered, whatever becomes of the service, and a caller that
\* holds the control lock lets go of it: the next one waits for it.
ControlAnswered ==
  \A c \in Callers : pc[c] # "idle" \/ lock = c ~> pc[c] = "idle" /\ lock # c

=============================================================================
