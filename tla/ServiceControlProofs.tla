------------------------- MODULE ServiceControlProofs -------------------------
(***************************************************************************)
(* Theorems about service control, for any services, callers, tokens and   *)
(* length of a wait. ControlInv is inductive: what was sent under a token  *)
(* follows from where its command is, although the service may change      *)
(* between any two steps.                                                  *)
(***************************************************************************)
EXTENDS ServiceControl, SequenceTheorems, TLAPS

\* Nothing runs and nothing is confirmed.
LEMMA ControlInit == Init => ControlInv
BY ServiceAssumption
   DEF Init, ControlInv, TypeOK, LockInv, TokenInv, SentWasConfirmed, Working, Executing,
       ControlPCs, Statuses

\* What execute_service_action does first.
LEMMA FirstSteps ==
  ASSUME NEW action \in Actions, NEW now \in Statuses
  PROVE  LET first == FirstStep(action, now) IN
         /\ first \in {"stop", "stopping", "start", "starting"}
         /\ action = "start" => first \in {"start", "starting"}
         /\ action = "stop" => first \in {"stop", "stopping"}
         /\ action = "restart" =>
              /\ first \in {"stop", "stopping", "start"}
              /\ (first = "start") <=> (now = "stopped")
              /\ (first = "stopping") <=> (now = "stopping")
<1>1. CASE action = "start"
  <2>1. FirstStep(action, now) = IF now = "starting" THEN "starting" ELSE "start"
    BY <1>1 DEF FirstStep
  <2> QED
    BY <1>1, <2>1
<1>2. CASE action = "stop"
  <2>1. FirstStep(action, now) = IF now = "stopping" THEN "stopping" ELSE "stop"
    BY <1>2 DEF FirstStep
  <2> QED
    BY <1>2, <2>1
<1>3. CASE action = "restart"
  <2>1. CASE now = "stopped"
    <3>1. FirstStep(action, now) = "start"
      BY <1>3, <2>1 DEF FirstStep
    <3> QED
      BY <1>3, <2>1, <3>1
  <2>2. CASE now = "stopping"
    <3>1. FirstStep(action, now) = "stopping"
      BY <1>3, <2>2 DEF FirstStep
    <3> QED
      BY <1>3, <2>2, <3>1
  <2>3. CASE now \notin {"stopped", "stopping"}
    <3>1. FirstStep(action, now) = "stop"
      BY <1>3, <2>3 DEF FirstStep
    <3> QED
      BY <1>3, <2>3, <3>1
  <2> QED
    BY <2>1, <2>2, <2>3
<1> QED
  BY <1>1, <1>2, <1>3 DEF Actions

\* What may be sent under a token, by what it was issued for.
LEMMA ConfirmedCases ==
  ASSUME NEW b
  PROVE  /\ b.action = "start" => <<"start">> \in Confirmed(b)
         /\ b.action = "stop" => <<"stop">> \in Confirmed(b)
         /\ b.action = "restart" /\ ShownDown(b) => <<"start">> \in Confirmed(b)
         /\ b.action = "restart" /\ ~ShownDown(b) =>
              <<"stop">> \in Confirmed(b) /\ <<"stop", "start">> \in Confirmed(b)
<1>1. CASE b.action = "start"
  BY <1>1 DEF Confirmed
<1>2. CASE b.action = "stop"
  BY <1>2 DEF Confirmed
<1>3. CASE b.action = "restart" /\ ShownDown(b)
  BY <1>3 DEF Confirmed, ShownDown
<1>4. CASE b.action = "restart" /\ ~ShownDown(b)
  <2>1. Confirmed(b) = {<<>>, <<"stop">>, <<"stop", "start">>}
    BY <1>4 DEF Confirmed, ShownDown
  <2> QED
    BY <1>4, <2>1
<1> QED
  BY <1>1, <1>2, <1>3, <1>4

\* A restart's two commands, in their order.
LEMMA StopThenStart == Append(<<"stop">>, "start") = <<"stop", "start">>
<1> DEFINE s == Append(<<"stop">>, "start")
           u == <<"stop", "start">>
<1>1. s \in Seq({"stop", "start"}) /\ u \in Seq({"stop", "start"})
  OBVIOUS
<1>2. Len(s) = 2 /\ s[1] = "stop" /\ s[2] = "start"
  BY AppendProperties, <<"stop">> \in Seq({"stop", "start"}), Len(<<"stop">>) = 1
<1>3. Len(u) = 2 /\ u[1] = "stop" /\ u[2] = "start"
  OBVIOUS
<1> HIDE DEF s, u
<1>4. \A i \in 1 .. Len(s) : s[i] = u[i]
  BY <1>2, <1>3
<1>5. s = u
  BY <1>1, <1>2, <1>3, <1>4, SeqEqual
<1> QED
  BY <1>5 DEF s, u

-----------------------------------------------------------------------------
(* Steps.                                                                  *)

\* Returning ends one command, and no other runs.
LEMMA ReturnKeeps ==
  ASSUME ControlInv, NEW c \in Callers, pc[c] # "idle", Return(c),
         ok' \in Requests \cup {NoCall}, UNCHANGED <<status, managed, bound, sent>>,
         token' \in [Tokens -> {"fresh", "pending", "gone"}],
         \A t \in Tokens : /\ (token'[t] # token[t]) => token[t] = "pending" /\ token'[t] = "gone"
  PROVE  ControlInv'
<1> USE DEF ControlInv, Return, Goto
<1>1. \A d \in Callers : pc'[d] = "idle" /\ call'[d] = NoCall
  BY ServiceAssumption DEF TypeOK, LockInv
<1>2. TypeOK'
  BY ServiceAssumption DEF TypeOK, ControlPCs
<1>3. LockInv' /\ (\A d \in Callers : Working(d))'
  BY <1>1 DEF LockInv, Working, Executing
<1>4. TokenInv'
  BY DEF TokenInv, TypeOK
<1>5. SentWasConfirmed'
  BY DEF SentWasConfirmed
<1> QED
  BY <1>2, <1>3, <1>4, <1>5

\* The service changes by itself or is changed by another: a command that
\* works on it learns whether it went down.
LEMMA BecomesKeeps ==
  ASSUME ControlInv, NEW v \in Services, NEW new \in Statuses, Becomes(v, new),
         UNCHANGED <<managed, tokenVars, commandVars, sent>>
  PROVE  ControlInv'
<1> USE DEF ControlInv, Becomes, tokenVars, commandVars
<1>1. TypeOK'
  BY DEF TypeOK
<1>2. LockInv' /\ TokenInv' /\ SentWasConfirmed'
  BY DEF LockInv, TokenInv, SentWasConfirmed
<1>3. ASSUME NEW c \in Callers PROVE Working(c)'
  <2>1. /\ down[c] => down'[c]
        /\ Executing(c) /\ status'[call[c].service] = "stopped" => down'[c]
    <3>1. Executing(c) => call[c] \in Requests
      BY DEF Executing, LockInv
    <3> QED
      BY <3>1 DEF TypeOK, Working, Requests
  <2> QED
    BY <2>1 DEF Working, Executing
<1> QED
  BY <1>1, <1>2, <1>3

\* A service that settles or is changed by others keeps what a command knows.
LEMMA ServiceStep ==
  ASSUME ControlInv, NEW v \in Services, Settles(v) \/ ChangedOutside(v)
  PROVE  ControlInv'
BY BecomesKeeps DEF Settles, ChangedOutside, Statuses

\* The protected names decide what is refused, not what was sent.
LEMMA SaveSettingsStep ==
  ASSUME ControlInv, SaveSettings
  PROVE  ControlInv'
BY DEF ControlInv, TypeOK, LockInv, TokenInv, SentWasConfirmed, Working, Executing,
       SaveSettings, tokenVars, commandVars

\* A token is issued that nobody has presented yet.
LEMMA IssueStep ==
  ASSUME ControlInv, NEW t \in Tokens, NEW v \in Services, NEW a \in Actions, Issue(t, v, a)
  PROVE  ControlInv'
<1> USE DEF ControlInv, Issue, commandVars
<1>1. [service |-> v, action |-> a, status |-> status[v]] \in Bindings
  BY DEF TypeOK, Bindings
<1>2. TypeOK'
  BY <1>1 DEF TypeOK
<1>3. LockInv' /\ TokenInv' /\ SentWasConfirmed'
  BY <1>1 DEF TypeOK, LockInv, TokenInv, SentWasConfirmed
<1>4. ASSUME NEW c \in Callers PROVE Working(c)'
  <2>1. CASE pc[c] = "idle"
    BY <2>1 DEF Working, Executing
  <2>2. CASE pc[c] # "idle"
    <3>1. call[c].token # t /\ call[c].token \in Tokens
      BY <2>2 DEF Working, LockInv, Requests
    <3>2. token'[call[c].token] = token[call[c].token] /\ bound'[call[c].token] = bound[call[c].token]
      BY <3>1 DEF TypeOK
    <3> QED
      BY <3>2 DEF Working, Executing
  <2> QED
    BY <2>1, <2>2
<1> QED
  BY <1>2, <1>3, <1>4

\* An expired token is presented in vain.
LEMMA ExpireStep ==
  ASSUME ControlInv, NEW t \in Tokens, Expire(t)
  PROVE  ControlInv'
<1> USE DEF ControlInv, Expire, commandVars
<1>1. TypeOK'
  BY DEF TypeOK
<1>2. LockInv' /\ TokenInv' /\ SentWasConfirmed'
  BY DEF TypeOK, LockInv, TokenInv, SentWasConfirmed
<1>3. \A s \in Tokens : /\ token[s] = "gone" => token'[s] = "gone"
                        /\ token[s] # "fresh" => token'[s] # "fresh"
  BY DEF TypeOK
<1>4. ASSUME NEW c \in Callers PROVE Working(c)'
  <2>1. pc[c] # "idle" => call[c].token \in Tokens
    BY DEF LockInv, Requests
  <2> QED
    BY <1>3, <2>1 DEF Working, Executing
<1> QED
  BY <1>1, <1>2, <1>4

\* A command begins with nothing sent under its token.
LEMMA BeginStep ==
  ASSUME ControlInv, NEW c \in Callers, NEW r \in Requests, Begin(c, r)
  PROVE  ControlInv'
<1> USE DEF ControlInv, Begin, Goto, LockFree, tokenVars
<1>1. TypeOK'
  BY ServiceAssumption DEF TypeOK, ControlPCs
<1>2. \A d \in Callers \ {c} : pc[d] = "idle" /\ pc'[d] = pc[d] /\ call'[d] = call[d]
  BY ServiceAssumption DEF TypeOK, LockInv
<1>3. pc'[c] = "consume" /\ call'[c] = r
  BY DEF TypeOK
<1>4. LockInv'
  BY <1>2, <1>3 DEF LockInv
<1>5. TokenInv' /\ SentWasConfirmed'
  BY DEF TokenInv, SentWasConfirmed
<1>6. \A d \in Callers : Working(d)'
  BY <1>2, <1>3 DEF Working, Executing
<1> QED
  BY <1>1, <1>4, <1>5, <1>6

\* While a command is under way every other one waits for the lock.
LEMMA OthersIdle ==
  ASSUME ControlInv, NEW c \in Callers, pc[c] # "idle", NEW d \in Callers, d # c
  PROVE  pc[d] = "idle"
BY DEF ControlInv, LockInv

\* Consuming takes the token out, whatever comes of it.
LEMMA ConsumeStep ==
  ASSUME ControlInv, NEW c \in Callers, Consume(c)
  PROVE  ControlInv'
<1> USE DEF ControlInv, Consume, Goto
<1> DEFINE t == call[c].token
<1>1. t \in Tokens /\ token[t] # "fresh"
  BY DEF LockInv, Requests, Working
<1>2. CASE ReturnErr(c) /\ UNCHANGED token
  BY <1>2, ReturnKeeps DEF ReturnErr, TypeOK
<1>3. CASE /\ token[t] = "pending"
           /\ token' = [token EXCEPT ![t] = "gone"]
           /\ pc' = [pc EXCEPT ![c] = "check"]
           /\ UNCHANGED <<lock, call, polls, ok, down>>
  <2>1. TypeOK'
    BY <1>3 DEF TypeOK, ControlPCs
  <2>2. pc'[c] = "check" /\ (\A d \in Callers \ {c} : pc'[d] = "idle" /\ pc[d] = "idle")
    BY <1>3, OthersIdle DEF TypeOK
  <2>3. LockInv' /\ TokenInv' /\ SentWasConfirmed'
    BY <1>1, <1>3, <2>2 DEF TypeOK, LockInv, TokenInv, SentWasConfirmed
  <2>4. token'[t] = "gone" /\ sent'[t] = <<>>
    BY <1>1, <1>3 DEF TypeOK, TokenInv
  <2>5. \A d \in Callers : Working(d)'
    BY <1>3, <2>2, <2>4 DEF Working, Executing
  <2> QED
    BY <2>1, <2>3, <2>5
<1> QED
  BY <1>2, <1>3

\* The digest is compared, and the first step decided by the same status.
LEMMA CheckStep ==
  ASSUME ControlInv, NEW c \in Callers, Check(c)
  PROVE  ControlInv'
<1> USE DEF ControlInv, Check, tokenVars
<1> DEFINE r == call[c]
           t == r.token
           now == status[r.service]
           first == FirstStep(r.action, now)
<1>1. /\ r \in Requests /\ t \in Tokens /\ r.action \in Actions /\ now \in Statuses
      /\ token[t] = "gone" /\ sent[t] = <<>> /\ bound[t] \in Bindings
  BY DEF LockInv, Requests, TypeOK, Working, TokenInv
<1>2. CASE ReturnOk(c) \/ ReturnErr(c)
  BY <1>1, <1>2, ReturnKeeps DEF ReturnOk, ReturnErr, TypeOK
<1>3. CASE /\ r.service \in managed /\ IsConfirmed(r)
           /\ Goto(c, first)
           /\ down' = [down EXCEPT ![c] = now = "stopped"]
           /\ UNCHANGED <<lock, call, polls, ok>>
  <2>1. first \in {"stop", "stopping", "start", "starting"}
    BY <1>1, FirstSteps
  <2>2. TypeOK'
    BY <1>3, <2>1 DEF Goto, TypeOK, ControlPCs
  <2>3. /\ pc'[c] = first /\ down'[c] = (now = "stopped")
        /\ \A d \in Callers \ {c} : pc'[d] = "idle" /\ pc[d] = "idle"
    BY <1>3, OthersIdle DEF Goto, TypeOK
  <2>4. LockInv' /\ TokenInv' /\ SentWasConfirmed'
    BY <1>3, <2>1, <2>3 DEF LockInv, TokenInv, SentWasConfirmed
  <2>5. /\ bound[t].service = r.service /\ bound[t].action = r.action
        /\ bound[t].status = now
    BY <1>3 DEF IsConfirmed
  <2>6. Working(c)'
    <3>1. ShownDown(bound[t]) <=> now \in {"stopped", "stopping"}
      BY <2>5 DEF ShownDown
    <3>2. /\ r.action = "start" => first \in {"start", "starting"}
          /\ r.action = "stop" => first \in {"stop", "stopping"}
          /\ r.action = "restart" =>
               /\ first \in {"stop", "stopping", "start"}
               /\ (first = "start") <=> (now = "stopped")
               /\ (first = "stopping") <=> (now = "stopping")
      BY <1>1, FirstSteps
    <3>3. (call[c])' = r /\ UNCHANGED <<status, token, bound, sent>>
      BY <1>3
    <3> QED
      BY <1>1, <2>1, <2>3, <2>5, <3>1, <3>2, <3>3 DEF Working, Executing, Actions, ShownDown
  <2>7. ASSUME NEW d \in Callers, d # c PROVE Working(d)'
    BY <2>3, <2>7 DEF Working, Executing
  <2> QED
    BY <2>2, <2>4, <2>6, <2>7
<1> QED
  BY <1>2, <1>3

\* What `sc` accepts is recorded under the token.
LEMMA ScStep ==
  ASSUME ControlInv, NEW c \in Callers, NEW action \in {"stop", "start"}, Sc(c, action)
  PROVE  ControlInv'
<1> USE DEF ControlInv, Sc, tokenVars
<1> DEFINE r == call[c]
           t == r.token
           next == IF action = "stop" THEN "stopping" ELSE "starting"
<1>1. /\ r \in Requests /\ t \in Tokens /\ r.service \in Services /\ r.action \in Actions
      /\ pc[c] = action /\ Working(c) /\ Executing(c)
      /\ token[t] = "gone"
  BY DEF LockInv, Requests, Working, Executing
<1>2. CASE ReturnErr(c) /\ UNCHANGED <<status, sent>>
  BY <1>1, <1>2, ReturnKeeps DEF ReturnErr, TypeOK
<1>3. CASE /\ Accepts(action, r.service)
           /\ sent' = [sent EXCEPT ![t] = Append(@, action)]
           /\ Goto(c, next)
           /\ UNCHANGED <<lock, call, polls, ok>>
  <2>1. PICK new \in {"starting", "stopping"} : Becomes(r.service, new)
    BY <1>3 DEF Accepts
  <2>2. TypeOK'
    BY <1>1, <1>3, <2>1 DEF TypeOK, Goto, ControlPCs, Becomes, Statuses
  <2>3. /\ pc'[c] = next /\ down'[c] = down[c] /\ status'[r.service] # "stopped"
        /\ \A d \in Callers \ {c} : pc'[d] = "idle" /\ pc[d] = "idle"
    BY <1>1, <1>3, <2>1, OthersIdle DEF Goto, TypeOK, Becomes
  <2>4. LockInv'
    BY <1>3, <2>3 DEF LockInv
  <2>5. /\ sent'[t] = Append(sent[t], action)
        /\ \A s \in Tokens \ {t} : sent'[s] = sent[s]
    BY <1>1, <1>3 DEF TypeOK
  <2>6. TokenInv'
    BY <1>1, <1>3, <2>5 DEF TokenInv
  <2>7. /\ sent'[t] \in Confirmed(bound[t])
        /\ action = "stop" /\ r.action = "restart" =>
             sent'[t] = <<"stop">> /\ ~ShownDown(bound[t])
    <3>1. Append(<<>>, action) = <<action>>
      OBVIOUS
    <3>2. bound[t].action = r.action
      BY <1>1 DEF Working
    <3> DEFINE b == bound[t]
    <3>3. /\ b.action = "start" => <<"start">> \in Confirmed(b)
          /\ b.action = "stop" => <<"stop">> \in Confirmed(b)
          /\ b.action = "restart" /\ ShownDown(b) => <<"start">> \in Confirmed(b)
          /\ b.action = "restart" /\ ~ShownDown(b) =>
               <<"stop">> \in Confirmed(b) /\ <<"stop", "start">> \in Confirmed(b)
      BY ConfirmedCases
    <3> HIDE DEF b
    <3>4. CASE action = "stop"
      <4>1. /\ r.action \in {"stop", "restart"} /\ sent[t] = <<>>
            /\ r.action = "restart" => ~ShownDown(b)
        BY <1>1, <3>4 DEF Working, Actions, b
      <4>2. sent'[t] = <<"stop">>
        BY <2>5, <3>1, <3>4, <4>1
      <4> QED
        BY <3>2, <3>3, <3>4, <4>1, <4>2 DEF b
    <3>5. CASE action = "start"
      <4>1. /\ r.action \in {"start", "restart"}
            /\ sent[t] = IF r.action = "restart" /\ ~ShownDown(b) THEN <<"stop">> ELSE <<>>
        BY <1>1, <3>5 DEF Working, Actions, b
      <4>2. sent'[t] = IF r.action = "restart" /\ ~ShownDown(b) THEN <<"stop", "start">> ELSE <<"start">>
        BY <2>5, <3>1, <3>5, <4>1, StopThenStart
      <4> QED
        BY <3>2, <3>3, <3>5, <4>1, <4>2 DEF b
    <3> QED
      BY <3>4, <3>5
  <2>8. SentWasConfirmed'
    BY <1>3, <2>5, <2>7 DEF SentWasConfirmed
  <2>9. \A d \in Callers : Working(d)'
    <3>1. Working(c)'
      BY <1>1, <1>3, <2>3, <2>7 DEF Working, Executing
    <3>2. ASSUME NEW d \in Callers, d # c PROVE Working(d)'
      BY <2>3, <3>2 DEF Working, Executing
    <3> QED
      BY <3>1, <3>2
  <2> QED
    BY <2>2, <2>4, <2>6, <2>8, <2>9
<1> QED
  BY <1>2, <1>3

\* A poll waits on, ends the command, or lets a restart go on to its start
\* when the service is down.
LEMMA PollStep ==
  ASSUME ControlInv, NEW c \in Callers, Poll(c)
  PROVE  ControlInv'
<1> USE DEF ControlInv, Poll, tokenVars
<1> DEFINE r == call[c]
           t == r.token
<1>1. /\ r \in Requests /\ t \in Tokens /\ r.service \in Services /\ r.action \in Actions
      /\ pc[c] \in {"stopping", "starting"} /\ Working(c)
  BY DEF LockInv, Requests
<1>2. CASE ReturnOk(c) \/ ReturnErr(c)
  BY <1>1, <1>2, ReturnKeeps DEF ReturnOk, ReturnErr, TypeOK
<1>3. CASE PollsAgain(c) /\ UNCHANGED <<lock, pc, call, ok, down>>
  <2>1. TypeOK'
    BY <1>3, ServiceAssumption DEF TypeOK, PollsAgain
  <2> QED
    BY <1>3, <2>1 DEF LockInv, TokenInv, SentWasConfirmed, Working, Executing
<1>4. CASE /\ pc[c] = "stopping" /\ r.action = "restart" /\ status[r.service] = "stopped"
           /\ Goto(c, "start") /\ polls' = [polls EXCEPT ![c] = 0]
           /\ UNCHANGED <<lock, call, ok, down>>
  <2>1. TypeOK'
    BY <1>4, ServiceAssumption DEF TypeOK, Goto, ControlPCs
  <2>2. /\ pc'[c] = "start"
        /\ \A d \in Callers \ {c} : pc'[d] = "idle" /\ pc[d] = "idle"
    BY <1>4, OthersIdle DEF Goto, TypeOK
  <2>3. LockInv' /\ TokenInv' /\ SentWasConfirmed'
    BY <1>4, <2>2 DEF LockInv, TokenInv, SentWasConfirmed
  <2>4. Working(c)'
    BY <1>1, <1>4, <2>2 DEF Working, Executing
  <2>5. ASSUME NEW d \in Callers, d # c PROVE Working(d)'
    BY <2>2, <2>5 DEF Working, Executing
  <2> QED
    BY <2>1, <2>3, <2>4, <2>5
<1> QED
  BY <1>1, <1>2, <1>3, <1>4 DEF Reached

\* A query of the state that fails ends the command with an error.
LEMMA QueryFailsStep ==
  ASSUME ControlInv, NEW c \in Callers, QueryFails(c)
  PROVE  ControlInv'
BY ReturnKeeps DEF QueryFails, ReturnErr, tokenVars, ControlInv, TypeOK

\* Every step keeps the invariant.
LEMMA ControlStep ==
  ASSUME ControlInv, [Next]_vars
  PROVE  ControlInv'
<1>1. CASE UNCHANGED vars
  BY <1>1
     DEF vars, tokenVars, commandVars, ControlInv, TypeOK, LockInv, TokenInv, SentWasConfirmed,
         Working, Executing
<1>2. CASE Next
  BY <1>2, ServiceStep, SaveSettingsStep, ExpireStep, IssueStep, BeginStep, ConsumeStep,
     CheckStep, ScStep, PollStep, QueryFailsStep DEF Next, Step
<1> QED
  BY <1>1, <1>2

\* A command's place, its token and what was sent under it belong together,
\* whatever others do to the service meanwhile.
THEOREM ControlInvariant == Spec => []ControlInv
BY ControlInit, ControlStep, PTL DEF Spec

\* For any services and waits, what is sent under a token is what the user
\* confirmed: never a stop of a service that was shown stopped.
THEOREM OnlyConfirmedIsSent == Spec => []SentWasConfirmed
<1>1. ControlInv => SentWasConfirmed
  BY DEF ControlInv
<1> QED
  BY <1>1, ControlInvariant, PTL

\* A command answers Ok only in a state it was asked to reach, and a restart
\* only if the service was down since it was confirmed.
LEMMA OkSteps ==
  ASSUME ControlInv, NEW d \in Callers, Step(d) \/ QueryFails(d), ok' # ok, ok' # NoCall
  PROVE  /\ pc[d] # "idle" /\ ok' = call[d]
         /\ status[call[d].service] = Target(call[d].action)
         /\ call[d].action = "restart" => down[d]
<1> USE DEF ControlInv, ReturnErr
<1> DEFINE r == call[d]
<1>1. ASSUME Consume(d) PROVE FALSE
  BY <1>1 DEF Consume
<1>2. ASSUME NEW a \in {"stop", "start"}, Sc(d, a) PROVE FALSE
  BY <1>2 DEF Sc
<1>3. ASSUME QueryFails(d) PROVE FALSE
  BY <1>3 DEF QueryFails
<1>4. CASE Check(d)
  BY <1>4 DEF Check, ReturnOk, Settled, Target
<1>5. CASE Poll(d)
  <2>1. /\ pc[d] \in {"stopping", "starting"} /\ ReturnOk(d)
        /\ status[r.service] = IF pc[d] = "stopping" THEN "stopped" ELSE "running"
        /\ ~(pc[d] = "stopping" /\ r.action = "restart")
    BY <1>5 DEF Poll, Reached
  <2>2. r \in Requests /\ Working(d)
    BY <2>1 DEF LockInv
  <2>3. /\ (pc[d] = "stopping") => r.action = "stop"
        /\ (pc[d] = "starting") => r.action # "stop" /\ (r.action = "restart" => down[d])
    BY <2>1, <2>2 DEF Working, Requests, Actions
  <2> QED
    BY <2>1, <2>3 DEF ReturnOk, Target
<1> QED
  BY <1>1, <1>2, <1>3, <1>4, <1>5 DEF Step

\* An Ok answer is true when it is given, for any services and any wait.
THEOREM OkMeansDone == Spec => OkIsHonest
<1>1. ASSUME ControlInv, Next, NEW c \in Callers, ok' # ok, ok' # NoCall, ok' = call[c]
      PROVE  /\ status[call[c].service] = Target(call[c].action)
             /\ call[c].action = "restart" => down[c]
  <2>1. PICK d \in Callers : Step(d) \/ QueryFails(d)
    BY <1>1
       DEF Next, Settles, ChangedOutside, SaveSettings, Expire, Issue, Begin, commandVars
  <2>2. /\ pc[d] # "idle" /\ ok' = call[d]
        /\ status[call[d].service] = Target(call[d].action)
        /\ call[d].action = "restart" => down[d]
    BY <1>1, <2>1, OkSteps
  <2>3. c = d
    BY <1>1, <2>2, OthersIdle DEF ControlInv, LockInv
  <2> QED
    BY <2>2, <2>3
<1> DEFINE A == \A c \in Callers :
                  LET r == call[c] IN
                  ok' # ok /\ ok' # NoCall /\ ok' = r =>
                    /\ status[r.service] = Target(r.action)
                    /\ r.action = "restart" => down[c]
<1>2. ControlInv /\ [Next]_vars => [A]_vars
  BY <1>1
<1> QED
  BY <1>2, ControlInvariant, PTL DEF Spec, OkIsHonest

\* Between the check of a confirmation and its answer nothing is sent under
\* another token, for any callers, services and waits: a command works under the
\* lock, and only one that works sends.
THEOREM NothingInBetween == Spec => ControlUndisturbed
<1>1. ASSUME ControlInv, Next, NEW c \in Callers, Executing(c),
             NEW t \in Tokens, sent'[t] # sent[t]
      PROVE  t = call[c].token
  <2>1. PICK d \in Callers : Sc(d, "stop") \/ Sc(d, "start")
    <3>1. PICK d \in Callers : Step(d)
      BY <1>1
         DEF Next, Settles, ChangedOutside, SaveSettings, Expire, Issue, QueryFails, Begin
    <3> QED
      BY <1>1, <3>1 DEF Step, Consume, Check, Poll
  <2>2. pc[d] # "idle" /\ pc[c] # "idle"
    BY <1>1, <2>1 DEF Sc, Executing
  <2>3. c = d
    BY <1>1, <2>2, OthersIdle
  <2>4. sent' = [sent EXCEPT ![call[d].token] = sent'[call[d].token]]
    BY <1>1, <2>1 DEF Sc, ControlInv, TypeOK
  <2> QED
    BY <1>1, <2>3, <2>4 DEF ControlInv, TypeOK
<1> DEFINE A == \A c \in Callers, t \in Tokens :
                  Executing(c) /\ sent'[t] # sent[t] => t = call[c].token
<1>2. ControlInv /\ [Next]_vars => [A]_vars
  BY <1>1
<1> QED
  BY <1>2, ControlInvariant, PTL DEF Spec, ControlUndisturbed

=============================================================================
