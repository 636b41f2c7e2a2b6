-------------------------- MODULE ProcessTermination --------------------------
(***************************************************************************)
(* Ending a process of another program: inspection (commands.rs), the      *)
(* confirmation, and the three termination commands                        *)
(* (process_confirmation.rs) over the process table (process_manager),     *)
(* while processes end and Windows reuses their ids.                       *)
(*                                                                         *)
(* A process is known by its id, its name and directory (its image) and    *)
(* the second it started in. Tokens are those of OneShot: the store that   *)
(* keeps them is module Confirmations.                                     *)
(***************************************************************************)
EXTENDS Naturals, Sequences

CONSTANTS
  Callers, Procs, Pids, Images, Tokens,
  PidOf, ImageOf,        \* of each process
  BuiltIn, Extra,        \* images always protected; that the settings may add
  MaxSecond,             \* bound: how long the run lasts
  NoProc, NoToken, NoBinding, NoCall

Modes   == {"normal", "force"}
Seconds == 0 .. MaxSecond

ASSUME TerminationAssumption ==
  /\ PidOf \in [Procs -> Pids]
  /\ ImageOf \in [Procs -> Images]
  /\ BuiltIn \subseteq Images /\ Extra \subseteq Images
  /\ MaxSecond \in Nat
  /\ NoProc \notin Procs
  /\ NoToken \notin Tokens

Identity == [pid : Pids, image : Images, start : Seconds]
Bindings == [identity : Identity, mode : Modes]

\* Parameters of the commands, and the locals of inspect_port.
Inspections == [pid : Pids, image : Images]

Issues ==
  [kind : {"issue"}, pid : Pids, image : Images, mode : Modes,
   token : {NoToken}, seen : {{}}]

Terminations ==
  [kind : {"process"}, pid : Pids, image : Images, mode : Modes,
   token : Tokens, seen : {{}}]
  \cup
  [kind : {"port", "directory"}, pid : Pids, image : Images, mode : Modes,
   token : Tokens, seen : {{i} : i \in Identity}]

ASSUME NoneAssumption ==
  /\ NoBinding \notin Bindings
  /\ NoCall \notin Inspections \cup Issues \cup Terminations

VARIABLES
  second,      \* the second the clock shows
  born, alive, \* processes that have started; that have not ended
  start,       \* per process: the second it started in
  protected,   \* images protected now: BuiltIn and the extra names of the settings
  shown,       \* identities the page has from inspections, with the process read
  life, bound, spent,  \* the tokens
  confirmed,   \* history: per token, the process it was issued for
  pc,          \* per caller: the next step of its command
  call,        \* per caller: the parameters of its command
  before,      \* per caller: start_time_before of pin_process_identity
  pin,         \* per caller: the process its handle keeps, or NoProc
  kills        \* history: taskkill was delivered, and the command answered Ok

procVars  == <<born, alive, start>>
tokenVars == <<life, bound, spent, confirmed>>
callVars  == <<pc, call, before, pin>>
vars == <<second, procVars, protected, shown, tokenVars, callVars, kills>>

Tok == INSTANCE OneShot

Init ==
  /\ second = 0
  /\ born = {} /\ alive = {}
  /\ start = [x \in Procs |-> 0]
  /\ protected = BuiltIn
  /\ shown = {}
  /\ Tok!Init
  /\ confirmed = [t \in Tokens |-> NoProc]
  /\ pc = [c \in Callers |-> "idle"]
  /\ call = [c \in Callers |-> NoCall]
  /\ before = [c \in Callers |-> 0]
  /\ pin = [c \in Callers |-> NoProc]
  /\ kills = {}

-----------------------------------------------------------------------------
(* Processes, and the reads of the process table.                          *)

IdentityOf(x) == [pid |-> PidOf[x], image |-> ImageOf[x], start |-> start[x]]

Current(p) == {x \in alive : PidOf[x] = p}

\* The id of a process that ended stays taken while a handle to it is open.
Birth(x) ==
  /\ x \notin born
  /\ Current(PidOf[x]) = {}
  /\ \A c \in Callers : pin[c] # NoProc => PidOf[pin[c]] # PidOf[x]
  /\ born' = born \cup {x}
  /\ alive' = alive \cup {x}
  /\ start' = [start EXCEPT ![x] = second]
  /\ UNCHANGED <<second, protected, shown, tokenVars, callVars, kills>>

Exit(x) ==
  /\ x \in alive
  /\ alive' = alive \ {x}
  /\ UNCHANGED <<second, born, start, protected, shown, tokenVars, callVars, kills>>

Tick ==
  /\ second < MaxSecond
  /\ second' = second + 1
  /\ UNCHANGED <<procVars, protected, shown, tokenVars, callVars, kills>>

\* A token leaves its store unused: expiry, eviction, a clock that was set.
Expire(t) ==
  /\ Tok!Lose(t)
  /\ UNCHANGED <<second, procVars, protected, shown, confirmed, callVars, kills>>

-----------------------------------------------------------------------------
(* Commands that end where they begin.                                     *)

\* protected_process_names of the settings; no command is under way then.
SaveSettings ==
  /\ \A c \in Callers : pc[c] = "idle"
  /\ \E extra \in SUBSET Extra : protected' = BuiltIn \cup extra
  /\ UNCHANGED <<second, procVars, shown, tokenVars, callVars, kills>>

\* inspect_directory_processes reads name, directory and start time at once.
InspectDirectory(x) ==
  /\ x \in alive
  /\ shown' = shown \cup {[proc |-> x, identity |-> IdentityOf(x)]}
  /\ UNCHANGED <<second, procVars, protected, tokenVars, callVars, kills>>

-----------------------------------------------------------------------------
(* Commands of several steps.                                              *)

Goto(c, l) == pc' = [pc EXCEPT ![c] = l]

\* Returning drops the guard, and with it the handle.
Return(c) ==
  /\ Goto(c, "idle")
  /\ call' = [call EXCEPT ![c] = NoCall]
  /\ before' = [before EXCEPT ![c] = 0]
  /\ pin' = [pin EXCEPT ![c] = NoProc]

\* inspect_port reads the name and directory first and, in digest_for, the
\* start time of whatever has the id by then.
InspectPort(c) ==
  /\ pc[c] = "idle"
  /\ \E x \in alive :
       call' = [call EXCEPT ![c] = [pid |-> PidOf[x], image |-> ImageOf[x]]]
  /\ Goto(c, "digest")
  /\ UNCHANGED <<second, procVars, protected, shown, tokenVars, before, pin, kills>>

InspectPortDigest(c) ==
  /\ pc[c] = "digest"
  /\ shown' = shown \cup
       {[proc |-> x, identity |-> [IdentityOf(x) EXCEPT !.image = call[c].image]] :
          x \in Current(call[c].pid)}
  /\ Return(c)
  /\ UNCHANGED <<second, procVars, protected, tokenVars, kills>>

\* What the page may ask for, with a token it was given and an identity it was
\* shown. A command about an id that is not in the table returns at once and is
\* left out.
Requests(p) ==
  {r \in Issues \cup Terminations :
     /\ r.pid = p
     /\ r.token # NoToken => life[r.token] # "fresh"
     /\ r.seen \subseteq {s.identity : s \in shown}}

\* pin_process_identity: the first read of the start time.
Begin(c) ==
  /\ pc[c] = "idle"
  /\ \E x \in alive :
       /\ \E r \in Requests(PidOf[x]) : call' = [call EXCEPT ![c] = r]
       /\ before' = [before EXCEPT ![c] = start[x]]
  /\ Goto(c, "open")
  /\ UNCHANGED <<second, procVars, protected, shown, tokenVars, pin, kills>>

\* Variant: let _ = pin_process_identity(pid)?, which closes the handle at once.
OpenAndClose(c) ==
  /\ pc[c] = "open"
  /\ \/ /\ Current(call[c].pid) # {}
        /\ Goto(c, "pinned")
        /\ UNCHANGED <<call, before, pin>>
     \/ Return(c)
  /\ UNCHANGED <<second, procVars, protected, shown, tokenVars, kills>>

\* OpenProcess, which may be denied.
Open(c) ==
  /\ pc[c] = "open"
  /\ \/ /\ \E x \in Current(call[c].pid) : pin' = [pin EXCEPT ![c] = x]
        /\ Goto(c, "pinned")
        /\ UNCHANGED <<call, before>>
     \/ Return(c)
  /\ UNCHANGED <<second, procVars, protected, shown, tokenVars, kills>>

\* The second read of the start time.
SameStart(c) == \E x \in Current(call[c].pid) : start[x] = before[c]

CheckPin(c) ==
  /\ pc[c] = "pinned"
  /\ IF SameStart(c)
     THEN /\ Goto(c, IF call[c].kind = "issue" THEN "issue" ELSE "consume")
          /\ UNCHANGED <<call, before, pin>>
     ELSE Return(c)
  /\ UNCHANGED <<second, procVars, protected, shown, tokenVars, kills>>

\* The name, directory and protection checks and the digest. The handle is
\* open, so these reads see one process or, once it has ended, none.
IssueToken(c) ==
  /\ pc[c] = "issue"
  /\ \/ \E x \in Current(call[c].pid), t \in Tokens :
          /\ ImageOf[x] = call[c].image
          /\ ImageOf[x] \notin protected
          /\ Tok!Issue(t, [identity |-> IdentityOf(x), mode |-> call[c].mode], {})
          /\ confirmed' = [confirmed EXCEPT ![t] = x]
     \/ /\ \A x \in Current(call[c].pid) :
             ImageOf[x] # call[c].image \/ ImageOf[x] \in protected
        /\ UNCHANGED tokenVars
  /\ Return(c)
  /\ UNCHANGED <<second, procVars, protected, shown, kills>>

\* The digest of the process as it is now is the one the token was issued for.
Matches(c) ==
  \E x \in Current(call[c].pid) :
    /\ ImageOf[x] = call[c].image
    /\ bound[call[c].token] = [identity |-> IdentityOf(x), mode |-> call[c].mode]

\* consume_process_confirmation: the token is gone whatever the outcome.
Consume(c) ==
  LET t == call[c].token
  IN /\ pc[c] = "consume"
     /\ \/ /\ life[t] = "pending" /\ Matches(c)
           /\ Tok!Spend(t)
           /\ Goto(c, IF call[c].kind = "process" THEN "guard" ELSE "snapshot")
           /\ UNCHANGED <<call, before, pin>>
        \/ /\ life[t] = "pending" /\ ~Matches(c)
           /\ Tok!Lose(t)
           /\ Return(c)
        \/ /\ life[t] # "pending"
           /\ Return(c)
           /\ UNCHANGED <<life, bound, spent>>
     /\ UNCHANGED <<second, procVars, protected, shown, confirmed, kills>>

\* The digest the page got from its inspection; and for a port, whether the
\* process still owns it.
AsShown(c) == \E x \in Current(call[c].pid) : IdentityOf(x) \in call[c].seen

CheckSnapshot(c) ==
  /\ pc[c] = "snapshot"
  /\ \/ /\ AsShown(c)
        /\ Goto(c, "guard")
        /\ UNCHANGED <<call, before, pin>>
     \/ /\ ~AsShown(c) \/ call[c].kind = "port"
        /\ Return(c)
  /\ UNCHANGED <<second, procVars, protected, shown, tokenVars, kills>>

\* Variant: the extra names of the settings are not passed on.
SparedBuiltIn(x) == ImageOf[x] \in BuiltIn

\* terminate_pid_with_extra: the protection check.
Spared(x) == ImageOf[x] \in protected

Guard(c) ==
  /\ pc[c] = "guard"
  /\ IF \E x \in Current(call[c].pid) : ~Spared(x)
     THEN Goto(c, "kill") /\ UNCHANGED <<call, before, pin>>
     ELSE Return(c)
  /\ UNCHANGED <<second, procVars, protected, shown, tokenVars, kills>>

\* taskkill: delivered to the process that has the id, or refused. /F ends it;
\* without it the process is asked to close.
TaskKill(c) ==
  /\ pc[c] = "kill"
  /\ \/ \E x \in Current(call[c].pid) :
          /\ kills' = kills \cup {[proc |-> x, token |-> call[c].token,
                                   mode |-> call[c].mode, seen |-> call[c].seen]}
          /\ \/ alive' = alive \ {x}
             \/ call[c].mode = "normal" /\ UNCHANGED alive
     \/ UNCHANGED <<alive, kills>>
  /\ Return(c)
  /\ UNCHANGED <<second, born, start, protected, shown, tokenVars>>

-----------------------------------------------------------------------------
Step(c) ==
  \/ InspectPortDigest(c) \/ Open(c) \/ CheckPin(c) \/ IssueToken(c)
  \/ Consume(c) \/ CheckSnapshot(c) \/ Guard(c) \/ TaskKill(c)

Next ==
  \/ \E x \in Procs : Birth(x) \/ Exit(x) \/ InspectDirectory(x)
  \/ Tick
  \/ \E t \in Tokens : Expire(t)
  \/ SaveSettings
  \/ \E c \in Callers : InspectPort(c) \/ Begin(c) \/ Step(c)

Spec == Init /\ [][Next]_vars

-----------------------------------------------------------------------------
(* Properties.                                                             *)

HoldingPCs == {"pinned", "issue", "consume", "snapshot", "guard", "kill"}
CheckedPCs == {"snapshot", "guard", "kill"}

TypeOK ==
  /\ second \in Seconds
  /\ born \subseteq Procs /\ alive \subseteq born
  /\ start \in [Procs -> Seconds]
  /\ protected \subseteq Images
  /\ \A s \in shown : s.proc \in born
  /\ life \in [Tokens -> {"fresh", "pending", "spent", "lost"}]
  /\ bound \in [Tokens -> Bindings \cup {NoBinding}]
  /\ confirmed \in [Tokens -> born \cup {NoProc}]
  /\ pc \in [Callers -> {"idle", "digest", "open"} \cup HoldingPCs]
  /\ call \in [Callers -> {NoCall} \cup Inspections \cup Issues \cup Terminations]
  /\ before \in [Callers -> Seconds]
  /\ pin \in [Callers -> born \cup {NoProc}]

\* An id belongs to one process, and to no other while a command holds a handle.
PinInv ==
  /\ \A x, y \in alive : PidOf[x] = PidOf[y] => x = y
  /\ \A c \in Callers :
       /\ pc[c] \in HoldingPCs <=> pin[c] # NoProc
       /\ pin[c] # NoProc =>
            /\ PidOf[pin[c]] = call[c].pid
            /\ Current(call[c].pid) \subseteq {pin[c]}

CallInv ==
  \A c \in Callers :
    /\ pc[c] = "digest" => call[c] \in Inspections
    /\ pc[c] \in {"open", "pinned"} => call[c] \in Issues \cup Terminations
    /\ pc[c] = "issue" => call[c] \in Issues
    /\ pc[c] \in {"consume"} \cup CheckedPCs => call[c] \in Terminations

\* What has been checked of a process stays true of the pinned one.
Checked(c) ==
  /\ pc[c] \in CheckedPCs =>
       bound[call[c].token] = [identity |-> IdentityOf(pin[c]), mode |-> call[c].mode]
  /\ pc[c] \in {"guard", "kill"} =>
       call[c].seen = {} \/ IdentityOf(pin[c]) \in call[c].seen
  /\ pc[c] = "kill" => ~Spared(pin[c])

CheckedInv == \A c \in Callers : Checked(c)

\* A token is bound to the process it was issued for.
BoundInv ==
  \A t \in Tokens :
    /\ bound[t] = NoBinding <=> life[t] = "fresh"
    /\ confirmed[t] = NoProc <=> life[t] = "fresh"
    /\ bound[t] # NoBinding =>
         /\ confirmed[t] \in born
         /\ bound[t].identity = IdentityOf(confirmed[t])

\* taskkill is only ever sent to a process with the id, name, directory and
\* start second of the one the user confirmed, in the confirmed mode, and,
\* for a port or a directory, of the one the user was shown: ids may be reused
\* between any two steps of any command.
Confirmed(k) ==
  /\ k.proc \in born /\ k.token \in Tokens
  /\ bound[k.token] = [identity |-> IdentityOf(k.proc), mode |-> k.mode]
  /\ confirmed[k.token] \in born
  /\ IdentityOf(confirmed[k.token]) = IdentityOf(k.proc)
  /\ k.seen = {} \/ IdentityOf(k.proc) \in k.seen

KillsOnlyConfirmed == \A k \in kills : Confirmed(k)

TerminationInv == TypeOK /\ CallInv /\ PinInv /\ CheckedInv /\ BoundInv

\* A command that is answered with "terminated" has ended no process the
\* settings protect, although protection may be added between confirming and
\* terminating.
ProtectedSpared ==
  [][\A k \in kills' \ kills : ImageOf[k.proc] \notin protected]_vars

==============================================================================
