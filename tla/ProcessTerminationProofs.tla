----------------------- MODULE ProcessTerminationProofs -----------------------
(***************************************************************************)
(* Theorems about process termination, for any callers, processes, ids and *)
(* images. TerminationInv is inductive: a handle keeps an id from being    *)
(* reused, so what was checked of the process stays true until taskkill.   *)
(***************************************************************************)
EXTENDS ProcessTermination, TLAPS

\* Nothing runs and nothing is confirmed.
LEMMA TerminationInit == Init => TerminationInv /\ KillsOnlyConfirmed
<1> SUFFICES ASSUME Init PROVE TerminationInv /\ KillsOnlyConfirmed
  OBVIOUS
<1>1. TypeOK
  BY TerminationAssumption DEF Init, Tok!Init, TypeOK, Seconds
<1>2. CallInv /\ PinInv /\ CheckedInv
  BY DEF Init, CallInv, PinInv, CheckedInv, Checked, HoldingPCs, CheckedPCs
<1>3. BoundInv /\ KillsOnlyConfirmed
  BY DEF Init, Tok!Init, BoundInv, KillsOnlyConfirmed
<1> QED
  BY <1>1, <1>2, <1>3 DEF TerminationInv

\* Returning leaves the command's variables in their types.
LEMMA ReturnTypes ==
  ASSUME TypeOK, NEW c \in Callers, Return(c)
  PROVE  /\ pc' \in [Callers -> {"idle", "digest", "open"} \cup HoldingPCs]
         /\ call' \in [Callers -> {NoCall} \cup Inspections \cup Issues \cup Terminations]
         /\ before' \in [Callers -> Seconds]
         /\ pin' \in [Callers -> born \cup {NoProc}]
         /\ pc' = [pc EXCEPT ![c] = "idle"]
         /\ call' = [call EXCEPT ![c] = NoCall]
         /\ pin' = [pin EXCEPT ![c] = NoProc]
<1>1. 0 \in Seconds
  BY TerminationAssumption DEF Seconds
<1> QED
  BY <1>1 DEF TypeOK, Return, Goto

\* Once started, a process keeps its identity.
LEMMA IdentityStable ==
  ASSUME TypeOK, [Next]_vars PROVE \A y \in born : y \in born' /\ IdentityOf(y)' = IdentityOf(y)
<1>1. CASE UNCHANGED vars
  BY <1>1 DEF vars, procVars, tokenVars, callVars, TypeOK, IdentityOf
<1>2. ASSUME NEW x \in Procs, Birth(x) PROVE \A y \in born : y \in born' /\ IdentityOf(y)' = IdentityOf(y)
  BY <1>2 DEF Birth, procVars, tokenVars, callVars, TypeOK, IdentityOf
<1>3. ASSUME NEW x \in Procs, Exit(x) PROVE \A y \in born : y \in born' /\ IdentityOf(y)' = IdentityOf(y)
  BY <1>3 DEF Exit, procVars, tokenVars, callVars, TypeOK, IdentityOf
<1>4. ASSUME NEW x \in Procs, InspectDirectory(x) PROVE \A y \in born : y \in born' /\ IdentityOf(y)' = IdentityOf(y)
  BY <1>4 DEF InspectDirectory, procVars, tokenVars, callVars, TypeOK, IdentityOf
<1>5. CASE Tick
  BY <1>5 DEF Tick, procVars, tokenVars, callVars, TypeOK, IdentityOf
<1>6. ASSUME NEW t \in Tokens, Expire(t) PROVE \A y \in born : y \in born' /\ IdentityOf(y)' = IdentityOf(y)
  BY <1>6 DEF Expire, procVars, tokenVars, callVars, TypeOK, IdentityOf
<1>7. CASE SaveSettings
  BY <1>7 DEF SaveSettings, procVars, tokenVars, callVars, TypeOK, IdentityOf
<1>8. ASSUME NEW c \in Callers, InspectPort(c) PROVE \A y \in born : y \in born' /\ IdentityOf(y)' = IdentityOf(y)
  BY <1>8 DEF InspectPort, procVars, tokenVars, callVars, TypeOK, IdentityOf
<1>9. ASSUME NEW c \in Callers, InspectPortDigest(c) PROVE \A y \in born : y \in born' /\ IdentityOf(y)' = IdentityOf(y)
  BY <1>9 DEF InspectPortDigest, procVars, tokenVars, callVars, TypeOK, IdentityOf
<1>10. ASSUME NEW c \in Callers, Begin(c) PROVE \A y \in born : y \in born' /\ IdentityOf(y)' = IdentityOf(y)
  BY <1>10 DEF Begin, procVars, tokenVars, callVars, TypeOK, IdentityOf
<1>11. ASSUME NEW c \in Callers, Open(c) PROVE \A y \in born : y \in born' /\ IdentityOf(y)' = IdentityOf(y)
  BY <1>11 DEF Open, procVars, tokenVars, callVars, TypeOK, IdentityOf
<1>12. ASSUME NEW c \in Callers, CheckPin(c) PROVE \A y \in born : y \in born' /\ IdentityOf(y)' = IdentityOf(y)
  BY <1>12 DEF CheckPin, procVars, tokenVars, callVars, TypeOK, IdentityOf
<1>13. ASSUME NEW c \in Callers, IssueToken(c) PROVE \A y \in born : y \in born' /\ IdentityOf(y)' = IdentityOf(y)
  BY <1>13 DEF IssueToken, procVars, tokenVars, callVars, TypeOK, IdentityOf
<1>14. ASSUME NEW c \in Callers, Consume(c) PROVE \A y \in born : y \in born' /\ IdentityOf(y)' = IdentityOf(y)
  BY <1>14 DEF Consume, procVars, tokenVars, callVars, TypeOK, IdentityOf
<1>15. ASSUME NEW c \in Callers, CheckSnapshot(c) PROVE \A y \in born : y \in born' /\ IdentityOf(y)' = IdentityOf(y)
  BY <1>15 DEF CheckSnapshot, procVars, tokenVars, callVars, TypeOK, IdentityOf
<1>16. ASSUME NEW c \in Callers, Guard(c) PROVE \A y \in born : y \in born' /\ IdentityOf(y)' = IdentityOf(y)
  BY <1>16 DEF Guard, procVars, tokenVars, callVars, TypeOK, IdentityOf
<1>17. ASSUME NEW c \in Callers, TaskKill(c) PROVE \A y \in born : y \in born' /\ IdentityOf(y)' = IdentityOf(y)
  BY <1>17 DEF TaskKill, procVars, tokenVars, callVars, TypeOK, IdentityOf
<1> QED
  BY <1>1, <1>2, <1>3, <1>4, <1>5, <1>6, <1>7, <1>8, <1>9, <1>10, <1>11, <1>12,
     <1>13, <1>14, <1>15, <1>16, <1>17 DEF Next, Step

\* Once issued, a token keeps its binding.
LEMMA TokensStable ==
  ASSUME TypeOK, [Next]_vars PROVE \A u \in Tokens : life[u] # "fresh" => life'[u] # "fresh" /\ bound'[u] = bound[u] /\ confirmed'[u] = confirmed[u]
<1>1. CASE UNCHANGED vars
  BY <1>1 DEF vars, procVars, tokenVars, callVars, TypeOK, Tok!Issue, Tok!Spend,
     Tok!Lose
<1>2. ASSUME NEW x \in Procs, Birth(x) PROVE \A u \in Tokens : life[u] # "fresh" => life'[u] # "fresh" /\ bound'[u] = bound[u] /\ confirmed'[u] = confirmed[u]
  BY <1>2 DEF Birth, procVars, tokenVars, callVars, TypeOK, Tok!Issue, Tok!Spend,
     Tok!Lose
<1>3. ASSUME NEW x \in Procs, Exit(x) PROVE \A u \in Tokens : life[u] # "fresh" => life'[u] # "fresh" /\ bound'[u] = bound[u] /\ confirmed'[u] = confirmed[u]
  BY <1>3 DEF Exit, procVars, tokenVars, callVars, TypeOK, Tok!Issue, Tok!Spend,
     Tok!Lose
<1>4. ASSUME NEW x \in Procs, InspectDirectory(x) PROVE \A u \in Tokens : life[u] # "fresh" => life'[u] # "fresh" /\ bound'[u] = bound[u] /\ confirmed'[u] = confirmed[u]
  BY <1>4 DEF InspectDirectory, procVars, tokenVars, callVars, TypeOK, Tok!Issue,
     Tok!Spend, Tok!Lose
<1>5. CASE Tick
  BY <1>5 DEF Tick, procVars, tokenVars, callVars, TypeOK, Tok!Issue, Tok!Spend,
     Tok!Lose
<1>6. ASSUME NEW t \in Tokens, Expire(t) PROVE \A u \in Tokens : life[u] # "fresh" => life'[u] # "fresh" /\ bound'[u] = bound[u] /\ confirmed'[u] = confirmed[u]
  BY <1>6 DEF Expire, procVars, tokenVars, callVars, TypeOK, Tok!Issue, Tok!Spend,
     Tok!Lose
<1>7. CASE SaveSettings
  BY <1>7 DEF SaveSettings, procVars, tokenVars, callVars, TypeOK, Tok!Issue,
     Tok!Spend, Tok!Lose
<1>8. ASSUME NEW c \in Callers, InspectPort(c) PROVE \A u \in Tokens : life[u] # "fresh" => life'[u] # "fresh" /\ bound'[u] = bound[u] /\ confirmed'[u] = confirmed[u]
  BY <1>8 DEF InspectPort, procVars, tokenVars, callVars, TypeOK, Tok!Issue,
     Tok!Spend, Tok!Lose
<1>9. ASSUME NEW c \in Callers, InspectPortDigest(c) PROVE \A u \in Tokens : life[u] # "fresh" => life'[u] # "fresh" /\ bound'[u] = bound[u] /\ confirmed'[u] = confirmed[u]
  BY <1>9 DEF InspectPortDigest, procVars, tokenVars, callVars, TypeOK, Tok!Issue,
     Tok!Spend, Tok!Lose
<1>10. ASSUME NEW c \in Callers, Begin(c) PROVE \A u \in Tokens : life[u] # "fresh" => life'[u] # "fresh" /\ bound'[u] = bound[u] /\ confirmed'[u] = confirmed[u]
  BY <1>10 DEF Begin, procVars, tokenVars, callVars, TypeOK, Tok!Issue, Tok!Spend,
     Tok!Lose
<1>11. ASSUME NEW c \in Callers, Open(c) PROVE \A u \in Tokens : life[u] # "fresh" => life'[u] # "fresh" /\ bound'[u] = bound[u] /\ confirmed'[u] = confirmed[u]
  BY <1>11 DEF Open, procVars, tokenVars, callVars, TypeOK, Tok!Issue, Tok!Spend,
     Tok!Lose
<1>12. ASSUME NEW c \in Callers, CheckPin(c) PROVE \A u \in Tokens : life[u] # "fresh" => life'[u] # "fresh" /\ bound'[u] = bound[u] /\ confirmed'[u] = confirmed[u]
  BY <1>12 DEF CheckPin, procVars, tokenVars, callVars, TypeOK, Tok!Issue, Tok!Spend,
     Tok!Lose
<1>13. ASSUME NEW c \in Callers, IssueToken(c) PROVE \A u \in Tokens : life[u] # "fresh" => life'[u] # "fresh" /\ bound'[u] = bound[u] /\ confirmed'[u] = confirmed[u]
  BY <1>13 DEF IssueToken, procVars, tokenVars, callVars, TypeOK, Tok!Issue,
     Tok!Spend, Tok!Lose
<1>14. ASSUME NEW c \in Callers, Consume(c) PROVE \A u \in Tokens : life[u] # "fresh" => life'[u] # "fresh" /\ bound'[u] = bound[u] /\ confirmed'[u] = confirmed[u]
  BY <1>14 DEF Consume, procVars, tokenVars, callVars, TypeOK, Tok!Issue, Tok!Spend,
     Tok!Lose
<1>15. ASSUME NEW c \in Callers, CheckSnapshot(c) PROVE \A u \in Tokens : life[u] # "fresh" => life'[u] # "fresh" /\ bound'[u] = bound[u] /\ confirmed'[u] = confirmed[u]
  BY <1>15 DEF CheckSnapshot, procVars, tokenVars, callVars, TypeOK, Tok!Issue,
     Tok!Spend, Tok!Lose
<1>16. ASSUME NEW c \in Callers, Guard(c) PROVE \A u \in Tokens : life[u] # "fresh" => life'[u] # "fresh" /\ bound'[u] = bound[u] /\ confirmed'[u] = confirmed[u]
  BY <1>16 DEF Guard, procVars, tokenVars, callVars, TypeOK, Tok!Issue, Tok!Spend,
     Tok!Lose
<1>17. ASSUME NEW c \in Callers, TaskKill(c) PROVE \A u \in Tokens : life[u] # "fresh" => life'[u] # "fresh" /\ bound'[u] = bound[u] /\ confirmed'[u] = confirmed[u]
  BY <1>17 DEF TaskKill, procVars, tokenVars, callVars, TypeOK, Tok!Issue, Tok!Spend,
     Tok!Lose
<1> QED
  BY <1>1, <1>2, <1>3, <1>4, <1>5, <1>6, <1>7, <1>8, <1>9, <1>10, <1>11, <1>12,
     <1>13, <1>14, <1>15, <1>16, <1>17 DEF Next, Step

\* Every step keeps the types.
LEMMA TypeStep ==
  ASSUME TerminationInv, [Next]_vars PROVE TypeOK'
<1>1. CASE UNCHANGED vars
  BY <1>1 DEF vars, procVars, tokenVars, callVars, TerminationInv, TypeOK, Goto,
     HoldingPCs, Tok!Lose, Seconds
<1>2. ASSUME NEW x \in Procs, Birth(x) PROVE TypeOK'
  BY <1>2 DEF Birth, procVars, tokenVars, callVars, TerminationInv, TypeOK, Goto,
     HoldingPCs, Tok!Lose, Seconds
<1>3. ASSUME NEW x \in Procs, Exit(x) PROVE TypeOK'
  BY <1>3 DEF Exit, procVars, tokenVars, callVars, TerminationInv, TypeOK, Goto,
     HoldingPCs, Tok!Lose, Seconds
<1>4. ASSUME NEW x \in Procs, InspectDirectory(x) PROVE TypeOK'
  BY <1>4 DEF InspectDirectory, procVars, tokenVars, callVars, TerminationInv,
     TypeOK, Goto, HoldingPCs, Tok!Lose, Seconds
<1>5. CASE Tick
  BY <1>5, TerminationAssumption DEF Tick, procVars, tokenVars, callVars, TerminationInv, TypeOK, Goto,
     HoldingPCs, Tok!Lose, Seconds
<1>6. ASSUME NEW t \in Tokens, Expire(t) PROVE TypeOK'
  BY <1>6 DEF Expire, procVars, tokenVars, callVars, TerminationInv, TypeOK, Goto,
     HoldingPCs, Tok!Lose, Seconds
<1>7. CASE SaveSettings
  BY <1>7, TerminationAssumption DEF SaveSettings, procVars, tokenVars, callVars, TerminationInv, TypeOK,
     Goto, HoldingPCs, Tok!Lose, Seconds
<1>8. ASSUME NEW c \in Callers, InspectPort(c) PROVE TypeOK'
  <2>1. PICK x \in alive :
          call' = [call EXCEPT ![c] = [pid |-> PidOf[x], image |-> ImageOf[x]]]
    BY <1>8 DEF InspectPort
  <2>2. [pid |-> PidOf[x], image |-> ImageOf[x]] \in Inspections
    BY <2>1, TerminationAssumption DEF TerminationInv, TypeOK, Inspections
  <2> QED
    BY <1>8, <2>1, <2>2
       DEF InspectPort, procVars, tokenVars, TerminationInv, TypeOK, Goto
<1>9. ASSUME NEW c \in Callers, InspectPortDigest(c) PROVE TypeOK'
  <2>1. \A s \in shown' : s.proc \in born
    BY <1>9 DEF InspectPortDigest, Current, TerminationInv, TypeOK
  <2> QED
    BY <1>9, <2>1, ReturnTypes
       DEF InspectPortDigest, procVars, tokenVars, TerminationInv, TypeOK
<1>10. ASSUME NEW c \in Callers, Begin(c) PROVE TypeOK'
  <2>1. PICK x \in alive, r \in Issues \cup Terminations :
          /\ call' = [call EXCEPT ![c] = r]
          /\ before' = [before EXCEPT ![c] = start[x]]
    BY <1>10 DEF Begin, Requests
  <2>2. start[x] \in Seconds
    BY <2>1 DEF TerminationInv, TypeOK
  <2> QED
    BY <1>10, <2>1, <2>2
       DEF Begin, procVars, tokenVars, TerminationInv, TypeOK, Goto
<1>11. ASSUME NEW c \in Callers, Open(c) PROVE TypeOK'
  <2>1. CASE Return(c)
    BY <1>11, <2>1, ReturnTypes DEF Open, procVars, tokenVars, TerminationInv, TypeOK
  <2>2. CASE ~Return(c)
    <3>1. PICK x \in alive : pin' = [pin EXCEPT ![c] = x]
      BY <1>11, <2>2 DEF Open, Current
    <3> QED
      BY <1>11, <2>2, <3>1
         DEF Open, procVars, tokenVars, TerminationInv, TypeOK, Goto, HoldingPCs
  <2> QED
    BY <2>1, <2>2
<1>12. ASSUME NEW c \in Callers, CheckPin(c) PROVE TypeOK'
  BY <1>12, ReturnTypes, TerminationAssumption
     DEF CheckPin, TerminationInv, TypeOK, Return, Goto, procVars, tokenVars,
     callVars, Tok!Issue, Tok!Spend, Tok!Lose, HoldingPCs, CheckedPCs
<1>13. ASSUME NEW c \in Callers, IssueToken(c) PROVE TypeOK'
  <2>1. CASE UNCHANGED tokenVars
    BY <1>13, <2>1, ReturnTypes
       DEF IssueToken, procVars, tokenVars, TerminationInv, TypeOK
  <2>2. CASE ~UNCHANGED tokenVars
    <3>1. PICK x \in Current(call[c].pid), t \in Tokens :
            /\ Tok!Issue(t, [identity |-> IdentityOf(x), mode |-> call[c].mode], {})
            /\ confirmed' = [confirmed EXCEPT ![t] = x]
      BY <1>13, <2>2 DEF IssueToken
    <3>2. x \in born /\ IdentityOf(x) \in Identity
      BY TerminationAssumption
         DEF TerminationInv, TypeOK, Current, IdentityOf, Identity
    <3>3. call[c] \in Issues
      BY <1>13 DEF IssueToken, TerminationInv, CallInv
    <3>4. [identity |-> IdentityOf(x), mode |-> call[c].mode] \in Bindings
      BY <3>2, <3>3 DEF Bindings, Issues
    <3>5. /\ life' \in [Tokens -> {"fresh", "pending", "spent", "lost"}]
          /\ bound' \in [Tokens -> Bindings \cup {NoBinding}]
          /\ confirmed' \in [Tokens -> born \cup {NoProc}]
      BY <3>1, <3>2, <3>4 DEF Tok!Issue, TerminationInv, TypeOK
    <3> QED
      BY <1>13, <3>5, ReturnTypes
         DEF IssueToken, procVars, TerminationInv, TypeOK
  <2> QED
    BY <2>1, <2>2
<1>14. ASSUME NEW c \in Callers, Consume(c) PROVE TypeOK'
  BY <1>14, ReturnTypes, TerminationAssumption
     DEF Consume, TerminationInv, TypeOK, Return, Goto, procVars, tokenVars,
     callVars, Tok!Issue, Tok!Spend, Tok!Lose, HoldingPCs, CheckedPCs
<1>15. ASSUME NEW c \in Callers, CheckSnapshot(c) PROVE TypeOK'
  BY <1>15, ReturnTypes, TerminationAssumption
     DEF CheckSnapshot, TerminationInv, TypeOK, Return, Goto, procVars, tokenVars,
     callVars, Tok!Issue, Tok!Spend, Tok!Lose, HoldingPCs, CheckedPCs
<1>16. ASSUME NEW c \in Callers, Guard(c) PROVE TypeOK'
  BY <1>16, ReturnTypes, TerminationAssumption
     DEF Guard, TerminationInv, TypeOK, Return, Goto, procVars, tokenVars, callVars,
     Tok!Issue, Tok!Spend, Tok!Lose, HoldingPCs, CheckedPCs
<1>17. ASSUME NEW c \in Callers, TaskKill(c) PROVE TypeOK'
  BY <1>17, ReturnTypes, TerminationAssumption
     DEF TaskKill, TerminationInv, TypeOK, Return, Goto, procVars, tokenVars,
     callVars, Tok!Issue, Tok!Spend, Tok!Lose, HoldingPCs, CheckedPCs
<1> QED
  BY <1>1, <1>2, <1>3, <1>4, <1>5, <1>6, <1>7, <1>8, <1>9, <1>10, <1>11, <1>12,
     <1>13, <1>14, <1>15, <1>16, <1>17 DEF Next, Step

\* Every step keeps the parameters of each command.
LEMMA CallStep ==
  ASSUME TerminationInv, [Next]_vars PROVE CallInv'
<1>1. CASE UNCHANGED vars
  BY <1>1 DEF vars, procVars, tokenVars, callVars, TerminationInv, TypeOK, CallInv,
     Goto, HoldingPCs, CheckedPCs
<1>2. ASSUME NEW x \in Procs, Birth(x) PROVE CallInv'
  BY <1>2 DEF Birth, procVars, tokenVars, callVars, TerminationInv, TypeOK, CallInv,
     Goto, HoldingPCs, CheckedPCs
<1>3. ASSUME NEW x \in Procs, Exit(x) PROVE CallInv'
  BY <1>3 DEF Exit, procVars, tokenVars, callVars, TerminationInv, TypeOK, CallInv,
     Goto, HoldingPCs, CheckedPCs
<1>4. ASSUME NEW x \in Procs, InspectDirectory(x) PROVE CallInv'
  BY <1>4 DEF InspectDirectory, procVars, tokenVars, callVars, TerminationInv,
     TypeOK, CallInv, Goto, HoldingPCs, CheckedPCs
<1>5. CASE Tick
  BY <1>5 DEF Tick, procVars, tokenVars, callVars, TerminationInv, TypeOK, CallInv,
     Goto, HoldingPCs, CheckedPCs
<1>6. ASSUME NEW t \in Tokens, Expire(t) PROVE CallInv'
  BY <1>6 DEF Expire, procVars, tokenVars, callVars, TerminationInv, TypeOK, CallInv,
     Goto, HoldingPCs, CheckedPCs
<1>7. CASE SaveSettings
  BY <1>7 DEF SaveSettings, procVars, tokenVars, callVars, TerminationInv, TypeOK,
     CallInv, Goto, HoldingPCs, CheckedPCs
<1>8. ASSUME NEW c \in Callers, InspectPort(c) PROVE CallInv'
  <2>1. PICK x \in alive :
          call' = [call EXCEPT ![c] = [pid |-> PidOf[x], image |-> ImageOf[x]]]
    BY <1>8 DEF InspectPort
  <2>2. [pid |-> PidOf[x], image |-> ImageOf[x]] \in Inspections
    BY <2>1, TerminationAssumption DEF TerminationInv, TypeOK, Inspections
  <2> QED
    BY <1>8, <2>1, <2>2
       DEF InspectPort, TerminationInv, TypeOK, CallInv, Goto, CheckedPCs
<1>9. ASSUME NEW c \in Callers, InspectPortDigest(c) PROVE CallInv'
  BY <1>9, ReturnTypes
     DEF InspectPortDigest, TerminationInv, TypeOK, CallInv, Goto, procVars,
     tokenVars, callVars, HoldingPCs, CheckedPCs, Terminations
<1>10. ASSUME NEW c \in Callers, Begin(c) PROVE CallInv'
  <2>1. PICK r \in Issues \cup Terminations : call' = [call EXCEPT ![c] = r]
    BY <1>10 DEF Begin, Requests
  <2> QED
    BY <1>10, <2>1 DEF Begin, TerminationInv, TypeOK, CallInv, Goto, CheckedPCs
<1>11. ASSUME NEW c \in Callers, Open(c) PROVE CallInv'
  BY <1>11, ReturnTypes
     DEF Open, TerminationInv, TypeOK, CallInv, Goto, procVars, tokenVars, callVars,
     HoldingPCs, CheckedPCs, Terminations
<1>12. ASSUME NEW c \in Callers, CheckPin(c) PROVE CallInv'
  <2>1. CASE Return(c)
    BY <1>12, <2>1, ReturnTypes DEF TerminationInv, TypeOK, CallInv, CheckedPCs
  <2>2. CASE SameStart(c) /\ call[c].kind = "issue"
    <3>1. call[c] \in Issues
      BY <1>12, <2>2 DEF CheckPin, TerminationInv, CallInv, Terminations
    <3> QED
      BY <1>12, <2>2, <3>1 DEF CheckPin, Goto, TerminationInv, TypeOK, CallInv, CheckedPCs
  <2>3. CASE SameStart(c) /\ call[c].kind # "issue"
    <3>1. call[c] \in Terminations
      BY <1>12, <2>3 DEF CheckPin, TerminationInv, CallInv, Issues
    <3> QED
      BY <1>12, <2>3, <3>1 DEF CheckPin, Goto, TerminationInv, TypeOK, CallInv, CheckedPCs
  <2> QED
    BY <1>12, <2>1, <2>2, <2>3 DEF CheckPin
<1>13. ASSUME NEW c \in Callers, IssueToken(c) PROVE CallInv'
  BY <1>13, ReturnTypes
     DEF IssueToken, TerminationInv, TypeOK, CallInv, Goto, procVars, tokenVars,
     callVars, HoldingPCs, CheckedPCs, Terminations
<1>14. ASSUME NEW c \in Callers, Consume(c) PROVE CallInv'
  BY <1>14, ReturnTypes
     DEF Consume, TerminationInv, TypeOK, CallInv, Goto, procVars, tokenVars,
     callVars, HoldingPCs, CheckedPCs, Terminations
<1>15. ASSUME NEW c \in Callers, CheckSnapshot(c) PROVE CallInv'
  BY <1>15, ReturnTypes
     DEF CheckSnapshot, TerminationInv, TypeOK, CallInv, Goto, procVars, tokenVars,
     callVars, HoldingPCs, CheckedPCs, Terminations
<1>16. ASSUME NEW c \in Callers, Guard(c) PROVE CallInv'
  BY <1>16, ReturnTypes
     DEF Guard, TerminationInv, TypeOK, CallInv, Goto, procVars, tokenVars, callVars,
     HoldingPCs, CheckedPCs, Terminations
<1>17. ASSUME NEW c \in Callers, TaskKill(c) PROVE CallInv'
  BY <1>17, ReturnTypes
     DEF TaskKill, TerminationInv, TypeOK, CallInv, Goto, procVars, tokenVars,
     callVars, HoldingPCs, CheckedPCs, Terminations
<1> QED
  BY <1>1, <1>2, <1>3, <1>4, <1>5, <1>6, <1>7, <1>8, <1>9, <1>10, <1>11, <1>12,
     <1>13, <1>14, <1>15, <1>16, <1>17 DEF Next, Step

\* Every step keeps pinned ids to their processes.
LEMMA PinStep ==
  ASSUME TerminationInv, [Next]_vars PROVE PinInv'
<1>1. CASE UNCHANGED vars
  BY <1>1 DEF vars, procVars, tokenVars, callVars, TerminationInv, TypeOK, PinInv,
     Current, Goto, HoldingPCs
<1>2. ASSUME NEW x \in Procs, Birth(x) PROVE PinInv'
  BY <1>2 DEF Birth, procVars, tokenVars, callVars, TerminationInv, TypeOK, PinInv,
     Current, Goto, HoldingPCs
<1>3. ASSUME NEW x \in Procs, Exit(x) PROVE PinInv'
  BY <1>3 DEF Exit, procVars, tokenVars, callVars, TerminationInv, TypeOK, PinInv,
     Current, Goto, HoldingPCs
<1>4. ASSUME NEW x \in Procs, InspectDirectory(x) PROVE PinInv'
  BY <1>4 DEF InspectDirectory, procVars, tokenVars, callVars, TerminationInv,
     TypeOK, PinInv, Current, Goto, HoldingPCs
<1>5. CASE Tick
  BY <1>5 DEF Tick, procVars, tokenVars, callVars, TerminationInv, TypeOK, PinInv,
     Current, Goto, HoldingPCs
<1>6. ASSUME NEW t \in Tokens, Expire(t) PROVE PinInv'
  BY <1>6 DEF Expire, procVars, tokenVars, callVars, TerminationInv, TypeOK, PinInv,
     Current, Goto, HoldingPCs
<1>7. CASE SaveSettings
  BY <1>7 DEF SaveSettings, procVars, tokenVars, callVars, TerminationInv, TypeOK,
     PinInv, Current, Goto, HoldingPCs
<1>8. ASSUME NEW c \in Callers, InspectPort(c) PROVE PinInv'
  BY <1>8 DEF InspectPort, procVars, tokenVars, callVars, TerminationInv, TypeOK,
     PinInv, Current, Goto, HoldingPCs
<1>9. ASSUME NEW c \in Callers, InspectPortDigest(c) PROVE PinInv'
  BY <1>9, ReturnTypes, TerminationAssumption
     DEF InspectPortDigest, TerminationInv, TypeOK, PinInv, Current, Goto, procVars,
     tokenVars, callVars, HoldingPCs, CheckedPCs
<1>10. ASSUME NEW c \in Callers, Begin(c) PROVE PinInv'
  BY <1>10 DEF Begin, procVars, tokenVars, callVars, TerminationInv, TypeOK, PinInv,
     Current, Goto, HoldingPCs
<1>11. ASSUME NEW c \in Callers, Open(c) PROVE PinInv'
  <2>1. CASE Return(c)
    BY <1>11, <2>1, ReturnTypes DEF Open, procVars, TerminationInv, TypeOK, PinInv, Current, HoldingPCs
  <2>2. CASE ~Return(c)
    <3>1. PICK x \in alive : pin' = [pin EXCEPT ![c] = x] /\ PidOf[x] = call[c].pid
      BY <1>11, <2>2 DEF Open, Current
    <3>2. x # NoProc /\ Current(call[c].pid) \subseteq {x}
      BY <3>1, TerminationAssumption DEF TerminationInv, TypeOK, PinInv, Current
    <3> QED
      BY <1>11, <2>2, <3>1, <3>2
         DEF Open, procVars, TerminationInv, TypeOK, PinInv, Current, Goto, HoldingPCs
  <2> QED
    BY <2>1, <2>2
<1>12. ASSUME NEW c \in Callers, CheckPin(c) PROVE PinInv'
  BY <1>12, ReturnTypes, TerminationAssumption
     DEF CheckPin, TerminationInv, TypeOK, PinInv, Current, Goto, procVars,
     tokenVars, callVars, HoldingPCs, CheckedPCs
<1>13. ASSUME NEW c \in Callers, IssueToken(c) PROVE PinInv'
  BY <1>13, ReturnTypes, TerminationAssumption
     DEF IssueToken, TerminationInv, TypeOK, PinInv, Current, Goto, procVars,
     tokenVars, callVars, HoldingPCs, CheckedPCs
<1>14. ASSUME NEW c \in Callers, Consume(c) PROVE PinInv'
  BY <1>14, ReturnTypes, TerminationAssumption
     DEF Consume, TerminationInv, TypeOK, PinInv, Current, Goto, procVars, tokenVars,
     callVars, HoldingPCs, CheckedPCs
<1>15. ASSUME NEW c \in Callers, CheckSnapshot(c) PROVE PinInv'
  BY <1>15, ReturnTypes, TerminationAssumption
     DEF CheckSnapshot, TerminationInv, TypeOK, PinInv, Current, Goto, procVars,
     tokenVars, callVars, HoldingPCs, CheckedPCs
<1>16. ASSUME NEW c \in Callers, Guard(c) PROVE PinInv'
  BY <1>16, ReturnTypes, TerminationAssumption
     DEF Guard, TerminationInv, TypeOK, PinInv, Current, Goto, procVars, tokenVars,
     callVars, HoldingPCs, CheckedPCs
<1>17. ASSUME NEW c \in Callers, TaskKill(c) PROVE PinInv'
  BY <1>17, ReturnTypes, TerminationAssumption
     DEF TaskKill, TerminationInv, TypeOK, PinInv, Current, Goto, procVars,
     tokenVars, callVars, HoldingPCs, CheckedPCs
<1> QED
  BY <1>1, <1>2, <1>3, <1>4, <1>5, <1>6, <1>7, <1>8, <1>9, <1>10, <1>11, <1>12,
     <1>13, <1>14, <1>15, <1>16, <1>17 DEF Next, Step

\* A pinned process that was checked has the token of its command.
LEMMA CheckedToken ==
  ASSUME TerminationInv, NEW d \in Callers, pc[d] \in CheckedPCs
  PROVE  /\ call[d] \in Terminations /\ call[d].token \in Tokens
         /\ pin[d] \in born /\ Current(call[d].pid) \subseteq {pin[d]}
         /\ life[call[d].token] # "fresh"
<1>1. call[d] \in Terminations
  BY DEF TerminationInv, CallInv
<1>2. call[d].token \in Tokens /\ call[d].mode \in Modes
  BY <1>1 DEF Terminations
<1>3. pin[d] \in born /\ Current(call[d].pid) \subseteq {pin[d]}
  BY DEF TerminationInv, TypeOK, PinInv, CheckedPCs, HoldingPCs
<1>4. IdentityOf(pin[d]) \in Identity
  BY <1>3, TerminationAssumption DEF TerminationInv, TypeOK, IdentityOf, Identity
<1>5. bound[call[d].token] # NoBinding
  <2>1. [identity |-> IdentityOf(pin[d]), mode |-> call[d].mode] \in Bindings
    BY <1>2, <1>4 DEF Bindings
  <2>2. bound[call[d].token] = [identity |-> IdentityOf(pin[d]), mode |-> call[d].mode]
    BY DEF TerminationInv, CheckedInv, Checked
  <2> QED
    BY <2>1, <2>2, NoneAssumption
<1> QED
  BY <1>1, <1>2, <1>3, <1>5 DEF TerminationInv, BoundInv

\* What was checked for a command is not disturbed by the steps of others.
LEMMA CheckedKept ==
  ASSUME TerminationInv, [Next]_vars, NEW d \in Callers,
         pc'[d] = pc[d], call'[d] = call[d], pin'[d] = pin[d], protected' = protected
  PROVE  Checked(d)'
<1>1. CASE pc[d] \in CheckedPCs
  <2>1. /\ call[d].token \in Tokens /\ pin[d] \in born /\ life[call[d].token] # "fresh"
    BY <1>1, CheckedToken
  <2>2. bound'[call[d].token] = bound[call[d].token]
    BY <2>1, TokensStable DEF TerminationInv
  <2>3. start'[pin[d]] = start[pin[d]]
    BY <2>1, IdentityStable DEF TerminationInv, IdentityOf
  <2> QED
    BY <1>1, <2>2, <2>3
       DEF TerminationInv, CheckedInv, Checked, IdentityOf, Spared, CheckedPCs
<1>2. CASE pc[d] \notin CheckedPCs
  BY <1>2 DEF Checked, CheckedPCs
<1> QED
  BY <1>1, <1>2

\* Every step keeps what was checked.
LEMMA CheckedStep ==
  ASSUME TerminationInv, [Next]_vars PROVE CheckedInv'
<1>1. ASSUME UNCHANGED callVars, protected' = protected PROVE CheckedInv'
  BY <1>1, CheckedKept DEF callVars, CheckedInv
<1>2. ASSUME NEW c \in Callers, protected' = protected, Checked(c)',
             \A d \in Callers \ {c} :
               pc'[d] = pc[d] /\ call'[d] = call[d] /\ pin'[d] = pin[d]
      PROVE  CheckedInv'
  BY <1>2, CheckedKept DEF CheckedInv
<1>3. ASSUME NEW c \in Callers, protected' = protected, Return(c) PROVE CheckedInv'
  <2>1. Checked(c)'
    BY <1>3, ReturnTypes DEF TerminationInv, TypeOK, Checked, CheckedPCs
  <2> QED
    BY <1>2, <1>3, <2>1, ReturnTypes DEF TerminationInv, TypeOK
<1>4. CASE SaveSettings
  BY <1>4 DEF SaveSettings, callVars, CheckedInv, Checked, CheckedPCs
<1>5. ASSUME NEW c \in Callers, InspectPort(c) \/ Begin(c) PROVE CheckedInv'
  <2>1. Checked(c)'
    BY <1>5 DEF InspectPort, Begin, Goto, TerminationInv, TypeOK, Checked, CheckedPCs
  <2> QED
    BY <1>2, <1>5, <2>1 DEF InspectPort, Begin, Goto, TerminationInv, TypeOK
<1>6. ASSUME NEW c \in Callers, Open(c) \/ CheckPin(c), ~Return(c) PROVE CheckedInv'
  <2>1. Checked(c)'
    BY <1>6 DEF Open, CheckPin, Goto, TerminationInv, TypeOK, Checked, CheckedPCs
  <2> QED
    BY <1>2, <1>6, <2>1 DEF Open, CheckPin, Goto, TerminationInv, TypeOK
<1>7. ASSUME NEW c \in Callers, Consume(c), ~Return(c) PROVE CheckedInv'
  <2> DEFINE t == call[c].token
  <2>1. /\ Matches(c) /\ UNCHANGED <<call, pin, bound, protected, start>>
        /\ pc' = [pc EXCEPT ![c] = IF call[c].kind = "process" THEN "guard" ELSE "snapshot"]
    BY <1>7 DEF Consume, Goto, procVars, Tok!Spend
  <2>2. /\ call[c] \in Terminations /\ Current(call[c].pid) \subseteq {pin[c]}
    BY <1>7 DEF Consume, TerminationInv, CallInv, PinInv, HoldingPCs
  <2>3. bound[t] = [identity |-> IdentityOf(pin[c]), mode |-> call[c].mode]
    BY <2>1, <2>2 DEF Matches
  <2>4. Checked(c)'
    BY <1>7, <2>1, <2>2, <2>3
       DEF TerminationInv, TypeOK, Checked, CheckedPCs, IdentityOf, Terminations
  <2> QED
    BY <1>2, <2>1, <2>4 DEF TerminationInv, TypeOK
<1>8. ASSUME NEW c \in Callers, CheckSnapshot(c), ~Return(c) PROVE CheckedInv'
  <2>1. /\ AsShown(c) /\ UNCHANGED <<call, pin, bound, protected, start>>
        /\ pc' = [pc EXCEPT ![c] = "guard"] /\ pc[c] = "snapshot"
    BY <1>8 DEF CheckSnapshot, Goto, procVars, tokenVars
  <2>2. IdentityOf(pin[c]) \in call[c].seen
    BY <2>1 DEF AsShown, TerminationInv, PinInv, HoldingPCs
  <2>3. Checked(c)'
    BY <2>1, <2>2
       DEF TerminationInv, TypeOK, CheckedInv, Checked, CheckedPCs, IdentityOf
  <2> QED
    BY <1>2, <2>1, <2>3 DEF TerminationInv, TypeOK
<1>9. ASSUME NEW c \in Callers, Guard(c), ~Return(c) PROVE CheckedInv'
  <2>1. /\ \E x \in Current(call[c].pid) : ~Spared(x)
        /\ UNCHANGED <<call, pin, bound, protected, start>>
        /\ pc' = [pc EXCEPT ![c] = "kill"] /\ pc[c] = "guard"
    BY <1>9 DEF Guard, Goto, procVars, tokenVars
  <2>2. ~Spared(pin[c])
    BY <2>1 DEF TerminationInv, PinInv, HoldingPCs
  <2>3. Checked(c)'
    BY <2>1, <2>2
       DEF TerminationInv, TypeOK, CheckedInv, Checked, CheckedPCs, IdentityOf, Spared
  <2> QED
    BY <1>2, <2>1, <2>3 DEF TerminationInv, TypeOK
<1>10. CASE UNCHANGED vars
  BY <1>1, <1>10 DEF vars
<1>11. ASSUME NEW x \in Procs, Birth(x) \/ Exit(x) \/ InspectDirectory(x)
       PROVE  CheckedInv'
  BY <1>1, <1>11 DEF Birth, Exit, InspectDirectory
<1>12. ASSUME Tick \/ \E t \in Tokens : Expire(t) PROVE CheckedInv'
  BY <1>1, <1>12 DEF Tick, Expire
<1>13. ASSUME NEW c \in Callers, Step(c), Return(c) PROVE CheckedInv'
  <2>1. protected' = protected
    BY <1>13 DEF Step, InspectPortDigest, Open, CheckPin, IssueToken, Consume,
                 CheckSnapshot, Guard, TaskKill
  <2> QED
    BY <1>3, <1>13, <2>1
<1>14. ASSUME NEW c \in Callers, Step(c), ~Return(c) PROVE CheckedInv'
  BY <1>6, <1>7, <1>8, <1>9, <1>14 DEF Step, InspectPortDigest, IssueToken, TaskKill
<1> QED
  BY <1>4, <1>5, <1>10, <1>11, <1>12, <1>13, <1>14 DEF Next

\* Every step keeps tokens bound to what they were issued for.
LEMMA BoundStep ==
  ASSUME TerminationInv, [Next]_vars PROVE BoundInv'
<1>1. ASSUME UNCHANGED tokenVars PROVE BoundInv'
  BY <1>1, IdentityStable DEF tokenVars, TerminationInv, BoundInv
<1>2. ASSUME NEW t \in Tokens, Tok!Lose(t) \/ Tok!Spend(t), UNCHANGED confirmed
      PROVE  BoundInv'
  BY <1>2, IdentityStable DEF Tok!Lose, Tok!Spend, TerminationInv, TypeOK, BoundInv
<1>3. ASSUME NEW c \in Callers, NEW x \in Current(call[c].pid), NEW t \in Tokens,
             Tok!Issue(t, [identity |-> IdentityOf(x), mode |-> call[c].mode], {}),
             confirmed' = [confirmed EXCEPT ![t] = x], IssueToken(c)
      PROVE  BoundInv'
  <2> DEFINE b == [identity |-> IdentityOf(x), mode |-> call[c].mode]
  <2>1. x \in born /\ IdentityOf(x) \in Identity
    BY TerminationAssumption DEF TerminationInv, TypeOK, Current, IdentityOf, Identity
  <2>2. b # NoBinding
    BY <1>3, <2>1, NoneAssumption
       DEF IssueToken, TerminationInv, CallInv, Issues, Bindings
  <2>3. IdentityOf(x)' = IdentityOf(x)
    BY <1>3 DEF IssueToken, procVars, IdentityOf
  <2>4. /\ life'[t] = "pending" /\ bound'[t] = b /\ confirmed'[t] = x
        /\ \A u \in Tokens \ {t} : /\ life'[u] = life[u]
                                   /\ bound'[u] = bound[u]
                                   /\ confirmed'[u] = confirmed[u]
    BY <1>3 DEF Tok!Issue, TerminationInv, TypeOK
  <2>5. UNCHANGED <<born, start>>
    BY <1>3 DEF IssueToken, procVars
  <2>6. x # NoProc /\ b.identity = IdentityOf(x)
    BY <2>1, TerminationAssumption DEF TerminationInv, TypeOK
  <2> QED
    BY <2>1, <2>2, <2>4, <2>5, <2>6 DEF TerminationInv, BoundInv, IdentityOf
<1>4. ASSUME NEW c \in Callers, IssueToken(c) PROVE BoundInv'
  BY <1>1, <1>3, <1>4 DEF IssueToken
<1>5. ASSUME NEW c \in Callers, Consume(c) PROVE BoundInv'
  <2>1. UNCHANGED confirmed /\ call[c].token \in Tokens
    BY <1>5 DEF Consume, TerminationInv, CallInv, Terminations
  <2> QED
    BY <1>1, <1>2, <1>5, <2>1 DEF Consume, tokenVars
<1>6. ASSUME NEW t \in Tokens, Expire(t) PROVE BoundInv'
  BY <1>2, <1>6 DEF Expire
<1>7. ASSUME ~UNCHANGED tokenVars
      PROVE  \/ \E t \in Tokens : Expire(t)
             \/ \E c \in Callers : IssueToken(c) \/ Consume(c)
  BY <1>7 DEF Next, Step, vars, Birth, Exit, InspectDirectory, Tick, SaveSettings,
     InspectPort, InspectPortDigest, Begin, Open, CheckPin, CheckSnapshot, Guard, TaskKill
<1> QED
  BY <1>1, <1>4, <1>5, <1>6, <1>7

\* At any time, for any interleaving of commands, exits and reused ids.
THEOREM TerminationInvariant == Spec => []TerminationInv
<1>1. ASSUME TerminationInv, [Next]_vars PROVE TerminationInv'
  BY <1>1, TypeStep, CallStep, PinStep, CheckedStep, BoundStep DEF TerminationInv
<1> QED
  BY <1>1, TerminationInit, PTL DEF Spec

\* A kill that was delivered stays what it was.
LEMMA KillKept ==
  ASSUME TerminationInv, [Next]_vars, NEW k, Confirmed(k) PROVE Confirmed(k)'
<1>1. k.proc \in born /\ k.token \in Tokens /\ confirmed[k.token] \in born
  BY DEF Confirmed
<1>2. life[k.token] # "fresh"
  BY <1>1, TerminationAssumption DEF TerminationInv, TypeOK, BoundInv
<1>3. /\ bound'[k.token] = bound[k.token] /\ confirmed'[k.token] = confirmed[k.token]
      /\ k.proc \in born' /\ confirmed[k.token] \in born'
      /\ start'[k.proc] = start[k.proc]
      /\ start'[confirmed[k.token]] = start[confirmed[k.token]]
  BY <1>1, <1>2, IdentityStable, TokensStable DEF TerminationInv, IdentityOf
<1> QED
  BY <1>3 DEF Confirmed, IdentityOf

\* The process taskkill reaches is the pinned one, which was checked.
LEMMA KillChecked ==
  ASSUME TerminationInv, NEW c \in Callers, pc[c] = "kill",
         NEW x \in Current(call[c].pid)
  PROVE  /\ x = pin[c] /\ ~Spared(x)
         /\ Confirmed([proc |-> x, token |-> call[c].token,
                       mode |-> call[c].mode, seen |-> call[c].seen])
<1> DEFINE t == call[c].token
<1>1. t \in Tokens /\ x = pin[c] /\ x \in born /\ life[t] # "fresh"
  BY CheckedToken DEF CheckedPCs
<1>2. /\ bound[t] = [identity |-> IdentityOf(x), mode |-> call[c].mode]
      /\ call[c].seen = {} \/ IdentityOf(x) \in call[c].seen
      /\ ~Spared(x)
  BY <1>1 DEF TerminationInv, CheckedInv, Checked, CheckedPCs
<1>3. confirmed[t] \in born /\ bound[t].identity = IdentityOf(confirmed[t])
  BY <1>1 DEF TerminationInv, BoundInv
<1>4. IdentityOf(confirmed[t]) = IdentityOf(x)
  BY <1>2, <1>3
<1> QED
  BY <1>1, <1>2, <1>3, <1>4 DEF Confirmed

\* Only TaskKill kills.
LEMMA OnlyTaskKill ==
  ASSUME [Next]_vars
  PROVE  \/ kills' = kills
         \/ \E c \in Callers : \E x \in Current(call[c].pid) :
              /\ pc[c] = "kill"
              /\ kills' = kills \cup {[proc |-> x, token |-> call[c].token,
                                       mode |-> call[c].mode, seen |-> call[c].seen]}
BY DEF Next, Step, vars, Birth, Exit, InspectDirectory, Tick, Expire, SaveSettings,
   InspectPort, InspectPortDigest, Begin, Open, CheckPin, IssueToken, Consume,
   CheckSnapshot, Guard, TaskKill

\* taskkill reaches only a process with the identity and mode the user
\* confirmed, and the identity the user was shown.
THEOREM OnlyConfirmedAreKilled == Spec => []KillsOnlyConfirmed
<1>1. ASSUME TerminationInv, [Next]_vars, KillsOnlyConfirmed PROVE KillsOnlyConfirmed'
  <2>1. ASSUME NEW k \in kills PROVE Confirmed(k)'
    BY <1>1, <2>1, KillKept DEF KillsOnlyConfirmed
  <2>2. ASSUME NEW k \in kills' \ kills PROVE Confirmed(k)
    BY <1>1, <2>2, OnlyTaskKill, KillChecked
  <2>3. ASSUME NEW k \in kills' \ kills PROVE Confirmed(k)'
    BY <1>1, <2>2, <2>3, KillKept
  <2> QED
    BY <2>1, <2>3 DEF KillsOnlyConfirmed
<1> QED
  BY <1>1, TerminationInit, TerminationInvariant, PTL DEF Spec

\* No process the settings protect is ended.
THEOREM ProtectedAreSpared == Spec => ProtectedSpared
<1>1. ASSUME TerminationInv, [Next]_vars
      PROVE  \A k \in kills' \ kills : ImageOf[k.proc] \notin protected
  <2> SUFFICES ASSUME NEW k \in kills' \ kills PROVE ImageOf[k.proc] \notin protected
    OBVIOUS
  <2>1. PICK c \in Callers : \E x \in Current(call[c].pid) :
              /\ pc[c] = "kill"
              /\ k = [proc |-> x, token |-> call[c].token,
                      mode |-> call[c].mode, seen |-> call[c].seen]
    BY <1>1, OnlyTaskKill
  <2> QED
    BY <1>1, <2>1, KillChecked DEF Spared
<1> QED
  BY <1>1, TerminationInvariant, PTL DEF Spec, ProtectedSpared
==============================================================================
