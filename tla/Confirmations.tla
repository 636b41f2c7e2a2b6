---------------------------- MODULE Confirmations ----------------------------
(***************************************************************************)
(* One of the three stores of pending confirmations, "launch" or "target"  *)
(* (process, service): a map from tokens to a creation time and a binding  *)
(* digest behind a mutex, purged and bounded when a token is issued. The   *)
(* launch store (app_state.rs) compares the binding under its mutex; the   *)
(* process store (app_state.rs) and the service store                      *)
(* (service_confirmation.rs) take the token out first and compare with the *)
(* target as it is after that.                                             *)
(*                                                                         *)
(* The clock is the wall clock, in ticks; ages are whole seconds, rounded  *)
(* toward zero as num_seconds does.                                        *)
(***************************************************************************)
EXTENDS Integers, Sequences, FiniteSets

CONSTANTS
  Callers, Tokens, Bindings, NoBinding, NoToken,
  TTL,              \* LAUNCH_, PROCESS_ or SERVICE_CONFIRMATION_TTL_SECS
  MaxPending,       \* MAX_PENDING_..._CONFIRMATIONS
  TicksPerSecond,
  MaxNow            \* bound: how long the run lasts

ASSUME ConfirmationsAssumption ==
  /\ NoBinding \notin Bindings
  /\ NoToken \notin Tokens
  /\ IsFiniteSet(Tokens)
  /\ TTL \in Nat
  /\ MaxPending \in Nat \ {0}
  /\ TicksPerSecond \in Nat \ {0}
  /\ MaxNow \in Nat

VARIABLES
  kind,       \* which store this is: "launch" or "target"; it never changes
  now,        \* Utc::now()
  pending,    \* the keys of the map
  created,    \* per token in the map: created_at
  bound,      \* per token ever put in the map: binding_digest
  presented,  \* history: the tokens some command was called with
  spent,      \* history: per token, the bindings it was accepted for
  pc,         \* per caller: "idle", "insert" or "compare"
  hand,       \* per caller: the token, binding and creation time it works with
  disturbed   \* history: whether the clock was set, or two issues overlapped

vars == <<kind, now, pending, created, bound, presented, spent, pc, hand, disturbed>>

Times == 0 .. MaxNow
Empty == [token |-> NoToken, binding |-> NoBinding, at |-> 0]

Hands == [token : Tokens \cup {NoToken}, binding : Bindings \cup {NoBinding}, at : Times]

TypeOK ==
  /\ kind \in {"launch", "target"}
  /\ now \in Times
  /\ pending \subseteq Tokens
  /\ created \in [Tokens -> Times]
  /\ bound \in [Tokens -> Bindings \cup {NoBinding}]
  /\ presented \subseteq Tokens
  /\ spent \in [Tokens -> Seq(Bindings)]
  /\ pc \in [Callers -> {"idle", "insert", "compare"}]
  /\ hand \in [Callers -> Hands]
  /\ disturbed \subseteq {"clock", "overlap"}

Init ==
  /\ kind \in {"launch", "target"}
  /\ now = 0
  /\ pending = {}
  /\ created = [t \in Tokens |-> 0]
  /\ bound = [t \in Tokens |-> NoBinding]
  /\ presented = {}
  /\ spent = [t \in Tokens |-> <<>>]
  /\ pc = [c \in Callers |-> "idle"]
  /\ hand = [c \in Callers |-> Empty]
  /\ disturbed = {}

-----------------------------------------------------------------------------
(* Time.                                                                   *)

Tick ==
  /\ now < MaxNow
  /\ now' = now + 1
  /\ UNCHANGED <<kind, pending, created, bound, presented, spent, pc, hand, disturbed>>

SetClock ==
  /\ now' \in Times \ {now}
  /\ disturbed' = disturbed \cup {"clock"}
  /\ UNCHANGED <<kind, pending, created, bound, presented, spent, pc, hand>>

\* num_seconds() of a difference of ticks.
Seconds(d) ==
  IF d >= 0 THEN d \div TicksPerSecond ELSE -((-d) \div TicksPerSecond)

\* Variant: the age is left to the purge.
FreshAlways(t) == TRUE

\* (0..=TTL).contains(&age)
Fresh(t) == Seconds(now - created[t]) \in 0 .. TTL

-----------------------------------------------------------------------------
(* Issuing.                                                                *)

Idle(c) ==
  /\ pc' = [pc EXCEPT ![c] = "idle"]
  /\ hand' = [hand EXCEPT ![c] = Empty]

\* Uuid::new_v4() and Utc::now(), before the mutex is taken.
Draw(c) ==
  /\ pc[c] = "idle"
  /\ \E t \in Tokens, b \in Bindings :
       /\ bound[t] = NoBinding
       /\ \A d \in Callers : hand[d].token # t
       /\ hand' = [hand EXCEPT ![c] = [token |-> t, binding |-> b, at |-> now]]
  /\ pc' = [pc EXCEPT ![c] = "insert"]
  /\ disturbed' = IF \E d \in Callers : pc[d] = "insert"
                  THEN disturbed \cup {"overlap"} ELSE disturbed
  /\ UNCHANGED <<kind, now, pending, created, bound, presented, spent>>

\* Variant: max_by_key for min_by_key.
RoomForOldest(K) ==
  IF Cardinality(K) < MaxPending THEN {K}
  ELSE {R \in SUBSET K :
          /\ Cardinality(R) = MaxPending - 1
          /\ \A young \in K \ R, kept \in R : created[young] >= created[kept]}

\* What make_room_for_pending may leave of K: fewer than MaxPending, no older
\* than those it removes; equal times are removed in the map's order.
Room(K) ==
  IF Cardinality(K) < MaxPending THEN {K}
  ELSE {R \in SUBSET K :
          /\ Cardinality(R) = MaxPending - 1
          /\ \A old \in K \ R, kept \in R : created[old] <= created[kept]}

\* retain, make_room_for_pending and insert, under the mutex.
Insert(c) ==
  LET h == hand[c]
  IN /\ pc[c] = "insert"
     /\ \E R \in Room({t \in pending : Fresh(t)}) : pending' = R \cup {h.token}
     /\ created' = [created EXCEPT ![h.token] = h.at]
     /\ bound' = [bound EXCEPT ![h.token] = h.binding]
     /\ Idle(c)
     /\ UNCHANGED <<kind, now, presented, spent, disturbed>>

-----------------------------------------------------------------------------
(* Consuming. A token that is not in the map is refused and changes        *)
(* nothing; any other attempt removes it.                                  *)

Accept(t, b) == spent' = [spent EXCEPT ![t] = Append(@, b)]

\* Variant: an accepted token is kept.
ConsumeLaunchAgain(c) ==
  /\ kind = "launch"
  /\ pc[c] = "idle"
  /\ \E t \in pending, b \in Bindings :
       /\ presented' = presented \cup {t}
       /\ IF Fresh(t) /\ bound[t] = b
          THEN Accept(t, b) /\ UNCHANGED pending
          ELSE UNCHANGED spent /\ pending' = pending \ {t}
  /\ UNCHANGED <<kind, now, created, bound, pc, hand, disturbed>>

ConsumeLaunch(c) ==
  /\ kind = "launch"
  /\ pc[c] = "idle"
  /\ \E t \in pending, b \in Bindings :
       /\ pending' = pending \ {t}
       /\ presented' = presented \cup {t}
       /\ IF Fresh(t) /\ bound[t] = b THEN Accept(t, b) ELSE UNCHANGED spent
  /\ UNCHANGED <<kind, now, created, bound, pc, hand, disturbed>>

\* The block that removes the token and checks its age.
Take(c) ==
  /\ kind = "target"
  /\ pc[c] = "idle"
  /\ \E t \in pending :
       /\ pending' = pending \ {t}
       /\ presented' = presented \cup {t}
       /\ IF Fresh(t)
          THEN /\ hand' = [hand EXCEPT ![c].token = t]
               /\ pc' = [pc EXCEPT ![c] = "compare"]
          ELSE UNCHANGED <<pc, hand>>
  /\ UNCHANGED <<kind, now, created, bound, spent, disturbed>>

\* The binding of the target as it is now; a target that is gone or does not
\* look as expected is a binding that differs.
Compare(c) ==
  /\ pc[c] = "compare"
  /\ \E b \in Bindings :
       IF bound[hand[c].token] = b THEN Accept(hand[c].token, b) ELSE UNCHANGED spent
  /\ Idle(c)
  /\ UNCHANGED <<kind, now, pending, created, bound, presented, disturbed>>

-----------------------------------------------------------------------------
Next ==
  \/ Tick
  \/ SetClock
  \/ \E c \in Callers : Draw(c) \/ Insert(c) \/ ConsumeLaunch(c) \/ Take(c) \/ Compare(c)

Spec == Init /\ [][Next]_vars

-----------------------------------------------------------------------------
(* Properties.                                                             *)

\* A token that is being issued is in one caller's hands only and not in the map.
Drawn(c) ==
  /\ hand[c].token \in Tokens
  /\ hand[c].binding \in Bindings
  /\ bound[hand[c].token] = NoBinding

\* A token that is being compared has left the map and was not accepted.
Held(c) ==
  /\ hand[c].token \in Tokens \ pending
  /\ bound[hand[c].token] # NoBinding
  /\ spent[hand[c].token] = <<>>

HandInv ==
  /\ \A c \in Callers :
       /\ pc[c] = "idle" => hand[c] = Empty
       /\ pc[c] = "insert" => Drawn(c)
       /\ pc[c] = "compare" => Held(c)
  /\ \A c, d \in Callers :
       hand[c].token = hand[d].token /\ hand[c].token # NoToken => c = d

TokenInv ==
  /\ \A t \in pending : bound[t] # NoBinding /\ spent[t] = <<>>
  /\ \A t \in Tokens : spent[t] \in {<<>>, <<bound[t]>>}
  /\ \A t \in Tokens : bound[t] = NoBinding => spent[t] = <<>>

\* No token is in two places: two callers, a caller and the map, the map and
\* the accepted ones. This is what the other properties follow from.
StoreInv == TypeOK /\ HandInv /\ TokenInv

\* The bound both stores test for: however issues interleave, the map never
\* holds more than MaxPending tokens (app_state.rs, launch_confirmations_are_bounded).
Bounded == Cardinality(pending) <= MaxPending

\* However issuing, presenting and purging interleave, a token is accepted at
\* most once and for the binding it was issued for (confirmation_is_single_use).
LifeOf(t) ==
  IF bound[t] = NoBinding THEN "fresh"
  ELSE IF t \in pending \/ \E c \in Callers : pc[c] = "compare" /\ hand[c].token = t
       THEN "pending"
  ELSE IF spent[t] # <<>> THEN "spent" ELSE "lost"

Once == INSTANCE OneShot WITH life <- [t \in Tokens |-> LifeOf(t)]

SingleUse == Once!Spec

\* No token is accepted after its time, although nothing removes expired tokens
\* until the next one is issued. (For the launch store: the other two accept
\* some time after the age was checked.)
NoLateUse ==
  [][kind = "launch" => \A t \in Tokens :
       spent'[t] # spent[t] => now - created[t] < (TTL + 1) * TicksPerSecond]_vars

\* Tokens that were issued at least as late as t.
AsYoung(t) == {u \in Tokens \ {t} : bound[u] # NoBinding /\ created[u] >= created[t]}

\* As long as the clock was not set and no two issues overlapped, a token that
\* was issued, is in its time and was never presented is there for its holder,
\* unless MaxPending tokens as young were issued: purging and making room take
\* no other.
KeptUnlessCrowded ==
  disturbed = {} =>
  \A t \in Tokens :
    /\ bound[t] # NoBinding
    /\ t \notin presented
    /\ now - created[t] < (TTL + 1) * TicksPerSecond
    /\ t \notin pending
    => Cardinality(AsYoung(t)) >= MaxPending

\* A token in its time that is not there without having been presented has been
\* crowded out.
Crowded(t) ==
  bound[t] # NoBinding /\ t \notin presented /\ t \notin pending =>
    \/ now - created[t] >= (TTL + 1) * TicksPerSecond
    \/ Cardinality(AsYoung(t)) >= MaxPending

\* What the two properties about time rest on. The launch store compares under
\* its mutex, so it never waits to compare. Undisturbed, one caller at a time is
\* about to insert, and its token is as young as every other.
TimeInv ==
  /\ kind = "launch" => \A c \in Callers : pc[c] # "compare"
  /\ disturbed = {} =>
       /\ \A c, d \in Callers : pc[c] = "insert" /\ pc[d] = "insert" => c = d
       /\ \A c \in Callers : pc[c] = "insert" => hand[c].at <= now
       /\ \A t \in Tokens : bound[t] # NoBinding =>
            /\ created[t] <= now
            /\ \A c \in Callers : pc[c] = "insert" => created[t] <= hand[c].at
       /\ \A t \in Tokens : Crowded(t)
==============================================================================
