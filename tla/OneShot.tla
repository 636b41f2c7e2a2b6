------------------------------- MODULE OneShot -------------------------------
(***************************************************************************)
(* What a confirmation token promises: it is issued for one binding, and   *)
(* either it is accepted once, for that binding, or it is lost.            *)
(***************************************************************************)
EXTENDS Sequences

CONSTANTS Tokens, Bindings, NoBinding

VARIABLES
  life,    \* per token: "fresh", "pending", "spent" or "lost"
  bound,   \* per token: what it was issued for
  spent    \* per token: the bindings it was accepted for, in order

vars == <<life, bound, spent>>

Init ==
  /\ life = [t \in Tokens |-> "fresh"]
  /\ bound = [t \in Tokens |-> NoBinding]
  /\ spent = [t \in Tokens |-> <<>>]

\* Issuing one token may cost others, L, their place.
Issue(t, b, L) ==
  /\ life[t] = "fresh"
  /\ \A u \in L : life[u] = "pending"
  /\ life' = [u \in Tokens |-> IF u = t THEN "pending"
                               ELSE IF u \in L THEN "lost" ELSE life[u]]
  /\ bound' = [bound EXCEPT ![t] = b]
  /\ UNCHANGED spent

Spend(t) ==
  /\ life[t] = "pending"
  /\ life' = [life EXCEPT ![t] = "spent"]
  /\ spent' = [spent EXCEPT ![t] = Append(@, bound[t])]
  /\ UNCHANGED bound

Lose(t) ==
  /\ life[t] = "pending"
  /\ life' = [life EXCEPT ![t] = "lost"]
  /\ UNCHANGED <<bound, spent>>

Next ==
  \E t \in Tokens :
    \/ \E b \in Bindings, L \in SUBSET Tokens : Issue(t, b, L)
    \/ Spend(t)
    \/ Lose(t)

Spec == Init /\ [][Next]_vars
==============================================================================
