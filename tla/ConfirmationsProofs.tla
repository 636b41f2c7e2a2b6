------------------------- MODULE ConfirmationsProofs -------------------------
(***************************************************************************)
(* Theorems about the confirmation stores, for any callers, tokens and     *)
(* bindings, any bound and any clock. StoreInv is inductive: a token is in *)
(* one place only. Bounded and the implementation of OneShot follow.       *)
(***************************************************************************)
EXTENDS Confirmations, FiniteSetTheorems, TLAPS

\* An empty store is in order.
LEMMA StoreInit == Init => StoreInv
BY ConfirmationsAssumption
   DEF Init, StoreInv, TypeOK, HandInv, TokenInv, Hands, Empty, Times

\* What is left after making room is part of what was there.
LEMMA RoomIsSubset == ASSUME NEW K, NEW R \in Room(K) PROVE R \subseteq K
BY DEF Room

\* Accepting a token that was not accepted before records its binding once.
LEMMA AcceptOnce ==
  ASSUME spent \in [Tokens -> Seq(Bindings)],
         NEW t \in Tokens, spent[t] = <<>>, NEW b \in Bindings, Accept(t, b)
  PROVE  /\ spent' \in [Tokens -> Seq(Bindings)]
         /\ spent' = [spent EXCEPT ![t] = <<b>>]
<1>1. Append(spent[t], b) = <<b>>
  OBVIOUS
<1>2. <<b>> \in Seq(Bindings)
  OBVIOUS
<1>3. spent' = [spent EXCEPT ![t] = <<b>>]
  BY <1>1, Zenon DEF Accept
<1> QED
  BY <1>2, <1>3

\* A token is drawn that nobody holds and that was never issued.
LEMMA DrawStep ==
  ASSUME StoreInv, NEW c \in Callers, Draw(c) PROVE StoreInv'
<1>1. PICK t \in Tokens, b \in Bindings :
        /\ bound[t] = NoBinding
        /\ \A d \in Callers : hand[d].token # t
        /\ hand' = [hand EXCEPT ![c] = [token |-> t, binding |-> b, at |-> now]]
  BY DEF Draw
<1>2. TypeOK'
  BY <1>1 DEF Draw, StoreInv, TypeOK, Hands
<1>3. HandInv'
  BY <1>1 DEF Draw, StoreInv, TypeOK, Hands, HandInv, Drawn, Held
<1>4. TokenInv'
  BY DEF Draw, StoreInv, TokenInv
<1> QED
  BY <1>2, <1>3, <1>4 DEF StoreInv

\* The caller's token moves into the map, and its hands are empty.
LEMMA InsertStep ==
  ASSUME StoreInv, NEW c \in Callers, Insert(c) PROVE StoreInv'
<1> DEFINE h == hand[c]
<1>1. PICK R \in Room({t \in pending : Fresh(t)}) : pending' = R \cup {h.token}
  BY DEF Insert
<1>2. R \subseteq pending
  BY RoomIsSubset
<1>3. Drawn(c) /\ h \in Hands
  BY DEF Insert, StoreInv, TypeOK, HandInv
<1>4. TypeOK'
  <2>1. Empty \in Hands
    BY ConfirmationsAssumption DEF Empty, Hands, Times
  <2> QED
    BY <1>1, <1>2, <1>3, <2>1 DEF Insert, Idle, Drawn, StoreInv, TypeOK, Hands
<1>5. HandInv'
  <2>1. hand' = [hand EXCEPT ![c] = Empty] /\ pc' = [pc EXCEPT ![c] = "idle"]
    BY DEF Insert, Idle
  <2>2. ASSUME NEW d \in Callers, pc'[d] = "insert" PROVE Drawn(d)'
    BY <2>1, <2>2, <1>3, ConfirmationsAssumption
       DEF Insert, StoreInv, TypeOK, HandInv, Drawn
  <2>3. ASSUME NEW d \in Callers, pc'[d] = "compare" PROVE Held(d)'
    BY <2>1, <2>3, <1>1, <1>2, <1>3, ConfirmationsAssumption
       DEF Insert, StoreInv, TypeOK, HandInv, Held, Drawn
  <2> QED
    BY <2>1, <2>2, <2>3 DEF StoreInv, TypeOK, HandInv, Empty
<1>6. TokenInv'
  BY <1>1, <1>2, <1>3, ConfirmationsAssumption
     DEF Insert, StoreInv, TypeOK, TokenInv, Drawn
<1> QED
  BY <1>4, <1>5, <1>6 DEF StoreInv

\* The launch store takes a token out and accepts it in one step.
LEMMA ConsumeLaunchStep ==
  ASSUME StoreInv, NEW c \in Callers, ConsumeLaunch(c) PROVE StoreInv'
<1>1. PICK t \in pending, b \in Bindings :
        /\ pending' = pending \ {t}
        /\ presented' = presented \cup {t}
        /\ IF Fresh(t) /\ bound[t] = b THEN Accept(t, b) ELSE UNCHANGED spent
  BY DEF ConsumeLaunch
<1>2. /\ t \in Tokens /\ spent[t] = <<>> /\ bound[t] # NoBinding
      /\ \A u \in Tokens : spent'[u] = spent[u] \/ (u = t /\ spent'[u] = <<bound[u]>>)
      /\ spent' \in [Tokens -> Seq(Bindings)]
  <2>1. t \in Tokens /\ spent[t] = <<>> /\ bound[t] # NoBinding
    BY DEF StoreInv, TypeOK, TokenInv
  <2>2. spent \in [Tokens -> Seq(Bindings)]
    BY DEF StoreInv, TypeOK
  <2>3. CASE Fresh(t) /\ bound[t] = b
    <3>1. Accept(t, b)
      BY <1>1, <2>3, Zenon
    <3>2. /\ spent' \in [Tokens -> Seq(Bindings)]
          /\ spent' = [spent EXCEPT ![t] = <<b>>]
      BY <2>1, <2>2, <3>1, AcceptOnce, Zenon
    <3>3. spent'[t] = <<bound[t]>>
      BY <2>1, <2>2, <2>3, <3>2
    <3>4. \A u \in Tokens \ {t} : spent'[u] = spent[u]
      BY <2>2, <3>2
    <3> QED
      BY <2>1, <3>2, <3>3, <3>4
  <2>4. CASE ~(Fresh(t) /\ bound[t] = b)
    <3>1. spent' = spent
      BY <1>1, <2>4
    <3> QED
      BY <2>1, <2>2, <3>1
  <2> QED
    BY <2>3, <2>4
<1>3. TypeOK'
  BY <1>1, <1>2 DEF ConsumeLaunch, StoreInv, TypeOK
<1>4. HandInv'
  BY <1>1, <1>2 DEF ConsumeLaunch, StoreInv, TypeOK, HandInv, Drawn, Held
<1>5. TokenInv'
  BY <1>1, <1>2 DEF ConsumeLaunch, StoreInv, TypeOK, TokenInv
<1> QED
  BY <1>3, <1>4, <1>5 DEF StoreInv

\* The other stores take the token out of the map before they compare it.
LEMMA TakeStep ==
  ASSUME StoreInv, NEW c \in Callers, Take(c) PROVE StoreInv'
<1>1. PICK t \in pending :
        /\ pending' = pending \ {t}
        /\ presented' = presented \cup {t}
        /\ IF Fresh(t)
           THEN /\ hand' = [hand EXCEPT ![c].token = t]
                /\ pc' = [pc EXCEPT ![c] = "compare"]
           ELSE UNCHANGED <<pc, hand>>
  BY DEF Take
<1>2. /\ t \in Tokens /\ spent[t] = <<>> /\ bound[t] # NoBinding
      /\ pc[c] = "idle" /\ hand[c] = Empty
  BY DEF Take, StoreInv, TypeOK, TokenInv, HandInv
<1>3. hand' = hand \/ hand' = [hand EXCEPT ![c] = [Empty EXCEPT !.token = t]]
  BY <1>1, <1>2
<1>4. TypeOK'
  <2>1. [Empty EXCEPT !.token = t] \in Hands
    BY <1>2, ConfirmationsAssumption DEF Empty, Hands, Times
  <2> QED
    BY <1>1, <1>2, <1>3, <2>1 DEF Take, StoreInv, TypeOK
<1>5. HandInv'
  <2>1. \A d \in Callers : hand[d].token # t
    BY <1>1, <1>2, ConfirmationsAssumption
       DEF StoreInv, TypeOK, HandInv, Drawn, Held, Empty
  <2>2. CASE Fresh(t)
    <3>1. /\ hand' = [hand EXCEPT ![c] = [Empty EXCEPT !.token = t]]
          /\ pc' = [pc EXCEPT ![c] = "compare"]
          /\ [Empty EXCEPT !.token = t].token = t
      BY <1>1, <1>2, <2>2 DEF Empty
    <3>2. ASSUME NEW d \in Callers, pc'[d] = "insert" PROVE Drawn(d)'
      BY <3>1, <3>2 DEF Take, StoreInv, TypeOK, HandInv, Drawn
    <3>3. ASSUME NEW d \in Callers, pc'[d] = "compare" PROVE Held(d)'
      BY <1>1, <1>2, <3>1, <3>3 DEF Take, StoreInv, TypeOK, HandInv, Held
    <3>4. ASSUME NEW d \in Callers, pc'[d] = "idle" PROVE hand'[d] = Empty
      BY <3>1, <3>4 DEF StoreInv, TypeOK, HandInv
    <3>5. ASSUME NEW d \in Callers, NEW e \in Callers,
                 hand'[d].token = hand'[e].token, hand'[d].token # NoToken
          PROVE  d = e
      BY <2>1, <3>1, <3>5 DEF StoreInv, TypeOK, HandInv
    <3> QED
      BY <3>2, <3>3, <3>4, <3>5 DEF HandInv
  <2>3. CASE ~Fresh(t)
    BY <1>1, <2>3 DEF Take, StoreInv, HandInv, Drawn, Held
  <2> QED
    BY <2>2, <2>3
<1>6. TokenInv'
  BY <1>1 DEF Take, StoreInv, TokenInv
<1> QED
  BY <1>4, <1>5, <1>6 DEF StoreInv

\* The comparison accepts or drops the token the caller holds.
LEMMA CompareStep ==
  ASSUME StoreInv, NEW c \in Callers, Compare(c) PROVE StoreInv'
<1> DEFINE t == hand[c].token
<1>1. PICK b \in Bindings : IF bound[t] = b THEN Accept(t, b) ELSE UNCHANGED spent
  BY DEF Compare
<1>2. /\ t \in Tokens /\ t \notin pending /\ spent[t] = <<>> /\ bound[t] # NoBinding
  BY DEF Compare, StoreInv, HandInv, Held
<1>3. /\ \A u \in Tokens : spent'[u] = spent[u] \/ (u = t /\ spent'[u] = <<bound[u]>>)
      /\ spent' \in [Tokens -> Seq(Bindings)]
  <2>1. spent \in [Tokens -> Seq(Bindings)]
    BY DEF StoreInv, TypeOK
  <2>2. CASE bound[t] = b
    <3>1. Accept(t, b)
      BY <1>1, <2>2, Zenon
    <3>2. /\ spent' \in [Tokens -> Seq(Bindings)]
          /\ spent' = [spent EXCEPT ![t] = <<b>>]
      BY <1>2, <2>1, <3>1, AcceptOnce, Zenon
    <3>3. spent'[t] = <<bound[t]>>
      BY <1>2, <2>1, <2>2, <3>2
    <3>4. \A u \in Tokens \ {t} : spent'[u] = spent[u]
      BY <2>1, <3>2
    <3> QED
      BY <1>2, <3>2, <3>3, <3>4
  <2>3. CASE bound[t] # b
    <3>1. spent' = spent
      BY <1>1, <2>3
    <3> QED
      BY <2>1, <3>1
  <2> QED
    BY <2>2, <2>3
<1>4. Empty \in Hands /\ Empty.token = NoToken
  BY ConfirmationsAssumption DEF Empty, Hands, Times
<1>5. TypeOK'
  BY <1>3, <1>4 DEF Compare, Idle, StoreInv, TypeOK
<1>6. HandInv'
  <2>1. hand' = [hand EXCEPT ![c] = Empty] /\ pc' = [pc EXCEPT ![c] = "idle"]
    BY DEF Compare, Idle
  <2>2. ASSUME NEW d \in Callers, d # c PROVE hand[d].token # t
    BY <2>2, <1>2, ConfirmationsAssumption DEF StoreInv, HandInv
  <2>3. ASSUME NEW d \in Callers, pc'[d] = "insert" PROVE Drawn(d)'
    BY <2>1, <2>3 DEF Compare, StoreInv, TypeOK, HandInv, Drawn
  <2>4. ASSUME NEW d \in Callers, pc'[d] = "compare" PROVE Held(d)'
    BY <2>1, <2>2, <2>4, <1>3 DEF Compare, StoreInv, TypeOK, HandInv, Held
  <2> QED
    BY <2>1, <2>3, <2>4, <1>4 DEF StoreInv, TypeOK, HandInv
<1>7. TokenInv'
  BY <1>2, <1>3 DEF Compare, StoreInv, TypeOK, TokenInv
<1> QED
  BY <1>5, <1>6, <1>7 DEF StoreInv

\* Time passes, evenly or not, without a token moving.
LEMMA ClockStep ==
  ASSUME StoreInv, Tick \/ SetClock PROVE StoreInv'
<1>1. now' \in Times
  BY ConfirmationsAssumption DEF Tick, SetClock, StoreInv, TypeOK, Times
<1> QED
  BY <1>1 DEF Tick, SetClock, StoreInv, TypeOK, HandInv, Drawn, Held, TokenInv

\* In every reachable state each token is in one place only.
THEOREM StoreInvariant == Spec => []StoreInv
<1>1. ASSUME StoreInv, [Next]_vars PROVE StoreInv'
  <2>1. CASE UNCHANGED vars
    BY <1>1, <2>1 DEF vars, StoreInv, TypeOK, HandInv, Drawn, Held, TokenInv
  <2>2. CASE Next
    BY <1>1, <2>2, ClockStep, DrawStep, InsertStep, ConsumeLaunchStep, TakeStep,
       CompareStep DEF Next
  <2> QED
    BY <1>1, <2>1, <2>2
<1> QED
  BY <1>1, StoreInit, PTL DEF Spec

-----------------------------------------------------------------------------
(* The bound.                                                              *)

\* Making room in a finite map leaves fewer than MaxPending.
LEMMA RoomIsSmall ==
  ASSUME NEW K, IsFiniteSet(K), NEW R \in Room(K)
  PROVE  IsFiniteSet(R) /\ Cardinality(R) < MaxPending
<1>1. IsFiniteSet(R)
  BY RoomIsSubset, FS_Subset
<1>2. Cardinality(R) < MaxPending
  BY ConfirmationsAssumption DEF Room
<1> QED
  BY <1>1, <1>2

\* The map is bounded however many callers issue at once.
THEOREM BoundedAlways == Spec => []Bounded
<1> DEFINE Inv == IsFiniteSet(pending) /\ Bounded
<1>1. Init => Inv
  BY FS_EmptySet, ConfirmationsAssumption DEF Init, Bounded
<1>2. ASSUME Inv, [Next]_vars PROVE Inv'
  <2>1. CASE pending' \subseteq pending
    <3>1. IsFiniteSet(pending') /\ Cardinality(pending') <= Cardinality(pending)
      BY <1>2, <2>1, FS_Subset
    <3>2. Cardinality(pending) \in Nat /\ Cardinality(pending') \in Nat
      BY <1>2, <3>1, FS_CardinalityType
    <3> QED
      BY <1>2, <3>1, <3>2, ConfirmationsAssumption DEF Bounded
  <2>2. CASE \E c \in Callers : Insert(c)
    <3>1. PICK c \in Callers : Insert(c)
      BY <2>2
    <3> DEFINE K == {t \in pending : Fresh(t)}
    <3>2. PICK R \in Room(K) : pending' = R \cup {hand[c].token}
      BY <3>1 DEF Insert
    <3>3. IsFiniteSet(K)
      BY <1>2, FS_Subset
    <3>4. IsFiniteSet(R) /\ Cardinality(R) < MaxPending
      BY <3>2, <3>3, RoomIsSmall
    <3>5. /\ IsFiniteSet(pending')
          /\ Cardinality(pending') \in {Cardinality(R), Cardinality(R) + 1}
      BY <3>2, <3>4, FS_AddElement
    <3>6. Cardinality(R) \in Nat
      BY <3>4, FS_CardinalityType
    <3> QED
      BY <3>4, <3>5, <3>6, ConfirmationsAssumption DEF Bounded
  <2> QED
    BY <1>2, <2>1, <2>2
       DEF Next, vars, Tick, SetClock, Draw, ConsumeLaunch, Take, Compare
<1> QED
  BY <1>1, <1>2, PTL DEF Spec

-----------------------------------------------------------------------------
(* The stores implement OneShot.                                           *)

Lives == [t \in Tokens |-> LifeOf(t)]

InHand(t) == \E c \in Callers : pc[c] = "compare" /\ hand[c].token = t

\* No token has been issued at first.
LEMMA OnceInit == Init => Once!Init
<1> SUFFICES ASSUME Init PROVE Once!Init
  OBVIOUS
<1>1. ASSUME NEW t \in Tokens PROVE LifeOf(t) = "fresh"
  BY <1>1 DEF Init, LifeOf
<1> QED
  BY <1>1 DEF Init, Once!Init

\* A step that changes no token's life, binding or acceptances is a stutter.
LEMMA OnceQuiet ==
  ASSUME \A t \in Tokens : LifeOf(t)' = LifeOf(t), UNCHANGED <<bound, spent>>
  PROVE  UNCHANGED Once!vars
BY DEF Once!vars

\* Inserting a token issues it, and loses those that were purged or made room.
LEMMA OnceInsert ==
  ASSUME StoreInv, NEW c \in Callers, Insert(c) PROVE Once!Next
<1>1. PICK R \in Room({t \in pending : Fresh(t)}) : pending' = R \cup {hand[c].token}
  BY DEF Insert
<1>2. R \subseteq pending
  BY RoomIsSubset
<1>3. PICK n \in Tokens, b \in Bindings :
        /\ hand[c].token = n /\ hand[c].binding = b
        /\ bound[n] = NoBinding /\ n \notin pending
  BY DEF Insert, StoreInv, TypeOK, HandInv, TokenInv, Drawn
<1> DEFINE L == pending \ pending'
<1>4. \A t \in Tokens : InHand(t)' <=> InHand(t)
  BY DEF Insert, Idle, InHand, StoreInv, TypeOK
<1>5. \A t \in Tokens : t # n => bound'[t] = bound[t]
  BY <1>3 DEF Insert, StoreInv, TypeOK
<1>6. LifeOf(n) = "fresh"
  BY <1>3 DEF LifeOf
<1>7. ASSUME NEW t \in L
      PROVE  t \in Tokens /\ LifeOf(t) = "pending" /\ LifeOf(t)' = "lost"
  <2>1. t \in pending /\ t \in Tokens /\ bound[t] # NoBinding /\ spent[t] = <<>>
    BY <1>7 DEF StoreInv, TypeOK, TokenInv
  <2>2. ~InHand(t)
    BY <2>1 DEF StoreInv, HandInv, Held, InHand
  <2>3. /\ t \notin pending' /\ bound'[t] # NoBinding /\ spent'[t] = <<>>
        /\ ~InHand(t)'
    BY <1>3, <1>4, <1>5, <1>7, <2>1, <2>2 DEF Insert
  <2> QED
    BY <2>1, <2>3 DEF LifeOf, InHand
<1>8. LifeOf(n)' = "pending"
  BY <1>1, <1>3, ConfirmationsAssumption DEF Insert, LifeOf, StoreInv, TypeOK
<1>9. ASSUME NEW t \in Tokens, t # n, t \notin L PROVE LifeOf(t)' = LifeOf(t)
  <2>1. t \in pending' <=> t \in pending
    BY <1>1, <1>2, <1>3, <1>9
  <2> QED
    BY <1>4, <1>5, <1>9, <2>1 DEF Insert, LifeOf, InHand
<1>10. Lives' = [t \in Tokens |-> IF t = n THEN "pending"
                                  ELSE IF t \in L THEN "lost" ELSE Lives[t]]
  BY <1>3, <1>7, <1>8, <1>9 DEF Lives
<1>11. bound' = [bound EXCEPT ![n] = b] /\ UNCHANGED spent
  BY <1>3 DEF Insert
<1>12. L \in SUBSET Tokens
  BY <1>7
<1>13. Once!Issue(n, b, L)
  BY <1>3, <1>6, <1>7, <1>10, <1>11, <1>12 DEF Once!Issue, Lives
<1> QED
  BY <1>3, <1>12, <1>13 DEF Once!Next

\* A token that leaves the store for good is spent or lost.
LEMMA OnceLeaves ==
  ASSUME NEW t \in Tokens, LifeOf(t) = "pending", LifeOf(t)' \in {"spent", "lost"},
         \A u \in Tokens \ {t} : LifeOf(u)' = LifeOf(u),
         UNCHANGED bound,
         IF LifeOf(t)' = "spent" THEN Accept(t, bound[t]) ELSE UNCHANGED spent
  PROVE  Once!Next
<1>1. Lives' = [Lives EXCEPT ![t] = LifeOf(t)']
  BY DEF Lives
<1>2. CASE LifeOf(t)' = "spent"
  <2>1. Once!Spend(t)
    BY <1>1, <1>2 DEF Once!Spend, Lives, Accept
  <2> QED
    BY <2>1 DEF Once!Next
<1>3. CASE LifeOf(t)' = "lost"
  <2>1. Once!Lose(t)
    BY <1>1, <1>3 DEF Once!Lose, Lives
  <2> QED
    BY <2>1 DEF Once!Next
<1> QED
  BY <1>2, <1>3

\* The launch store spends or loses the token it is given.
LEMMA OnceConsumeLaunch ==
  ASSUME StoreInv, NEW c \in Callers, ConsumeLaunch(c) PROVE Once!Next
<1>1. PICK t \in pending, b \in Bindings :
        /\ pending' = pending \ {t}
        /\ IF Fresh(t) /\ bound[t] = b THEN Accept(t, b) ELSE UNCHANGED spent
  BY DEF ConsumeLaunch
<1>2. UNCHANGED <<bound, pc, hand>>
  BY DEF ConsumeLaunch
<1>3. t \in Tokens /\ bound[t] # NoBinding /\ spent[t] = <<>> /\ ~InHand(t)
  BY DEF StoreInv, TypeOK, TokenInv, HandInv, Held, InHand
<1>4. LifeOf(t) = "pending"
  BY <1>3 DEF LifeOf
<1>5. spent \in [Tokens -> Seq(Bindings)]
  BY DEF StoreInv, TypeOK
<1>6. CASE Fresh(t) /\ bound[t] = b
  <2>1. Accept(t, b)
    BY <1>1, <1>6, Zenon
  <2>2. spent' = [spent EXCEPT ![t] = <<b>>]
    BY <1>3, <1>5, <2>1, AcceptOnce, Zenon
  <2>3. <<b>> # <<>>
    OBVIOUS
  <2>4. LifeOf(t)' = "spent"
    BY <1>1, <1>2, <1>3, <1>5, <2>2, <2>3 DEF LifeOf, InHand
  <2>5. \A u \in Tokens \ {t} : LifeOf(u)' = LifeOf(u)
    BY <1>1, <1>2, <1>5, <2>2 DEF LifeOf
  <2>6. Accept(t, bound[t])
    BY <1>6, <2>1, Zenon
  <2> QED
    BY <1>2, <1>3, <1>4, <2>4, <2>5, <2>6, OnceLeaves, Zenon
<1>7. CASE ~(Fresh(t) /\ bound[t] = b)
  <2>1. spent' = spent
    BY <1>1, <1>7
  <2>2. LifeOf(t)' = "lost"
    BY <1>1, <1>2, <1>3, <2>1 DEF LifeOf, InHand
  <2>3. \A u \in Tokens \ {t} : LifeOf(u)' = LifeOf(u)
    BY <1>1, <1>2, <2>1 DEF LifeOf
  <2>4. LifeOf(t)' # "spent"
    BY <2>2
  <2> QED
    BY <1>2, <1>3, <1>4, <2>1, <2>2, <2>3, <2>4, OnceLeaves, Zenon
<1> QED
  BY <1>6, <1>7

\* Taking a token keeps it pending, in the caller's hand, or loses it.
LEMMA OnceTake ==
  ASSUME StoreInv, NEW c \in Callers, Take(c) PROVE Once!Next \/ UNCHANGED Once!vars
<1>1. PICK t \in pending :
        /\ pending' = pending \ {t}
        /\ IF Fresh(t)
           THEN /\ hand' = [hand EXCEPT ![c].token = t]
                /\ pc' = [pc EXCEPT ![c] = "compare"]
           ELSE UNCHANGED <<pc, hand>>
  BY DEF Take
<1>2. UNCHANGED <<bound, spent>>
  BY DEF Take
<1>3. t \in Tokens /\ bound[t] # NoBinding /\ spent[t] = <<>> /\ ~InHand(t)
  BY DEF StoreInv, TypeOK, TokenInv, HandInv, Held, InHand
<1>4. LifeOf(t) = "pending"
  BY <1>3 DEF LifeOf
<1>5. CASE Fresh(t)
  <2>1. /\ hand' = [hand EXCEPT ![c] = [Empty EXCEPT !.token = t]]
        /\ pc' = [pc EXCEPT ![c] = "compare"]
        /\ [Empty EXCEPT !.token = t].token = t
        /\ pc[c] = "idle"
    BY <1>1, <1>5 DEF Take, StoreInv, HandInv, Empty
  <2>2. InHand(t)'
    BY <2>1 DEF InHand, StoreInv, TypeOK
  <2>3. \A u \in Tokens \ {t} : InHand(u)' <=> InHand(u)
    BY <2>1 DEF InHand, StoreInv, TypeOK
  <2>4. LifeOf(t)' = "pending"
    BY <1>2, <1>3, <2>2 DEF LifeOf, InHand
  <2>5. \A u \in Tokens \ {t} : LifeOf(u)' = LifeOf(u)
    BY <1>1, <1>2, <2>3 DEF LifeOf, InHand
  <2> QED
    BY <1>2, <1>4, <2>4, <2>5, OnceQuiet
<1>6. CASE ~Fresh(t)
  <2>1. UNCHANGED <<pc, hand>>
    BY <1>1, <1>6
  <2>2. LifeOf(t)' = "lost"
    BY <1>1, <1>2, <1>3, <2>1 DEF LifeOf, InHand
  <2>3. \A u \in Tokens \ {t} : LifeOf(u)' = LifeOf(u)
    BY <1>1, <1>2, <2>1 DEF LifeOf
  <2>4. LifeOf(t)' # "spent"
    BY <2>2
  <2> QED
    BY <1>2, <1>3, <1>4, <2>2, <2>3, <2>4, OnceLeaves, Zenon
<1> QED
  BY <1>5, <1>6

\* The comparison spends or loses the token in hand.
LEMMA OnceCompare ==
  ASSUME StoreInv, NEW c \in Callers, Compare(c) PROVE Once!Next
<1>1. PICK t \in Tokens :
        hand[c].token = t /\ t \notin pending /\ bound[t] # NoBinding /\ spent[t] = <<>>
  BY DEF Compare, StoreInv, HandInv, Held
<1>2. /\ UNCHANGED <<pending, bound>>
      /\ pc' = [pc EXCEPT ![c] = "idle"] /\ hand' = [hand EXCEPT ![c] = Empty]
      /\ pc[c] = "compare"
  BY DEF Compare, Idle
<1>3. PICK b \in Bindings : IF bound[t] = b THEN Accept(t, b) ELSE UNCHANGED spent
  BY <1>1 DEF Compare
<1>4. LifeOf(t) = "pending"
  BY <1>1, <1>2 DEF LifeOf
<1>5. spent \in [Tokens -> Seq(Bindings)]
  BY DEF StoreInv, TypeOK
<1>6. ~InHand(t)'
  <2>1. ASSUME NEW d \in Callers, d # c PROVE hand'[d].token # t
    BY <1>1, <1>2, <2>1, ConfirmationsAssumption DEF StoreInv, TypeOK, HandInv
  <2>2. pc'[c] = "idle"
    BY <1>2 DEF StoreInv, TypeOK
  <2> QED
    BY <2>1, <2>2 DEF InHand
<1>7. \A u \in Tokens \ {t} : InHand(u)' <=> InHand(u)
  BY <1>1, <1>2 DEF InHand, StoreInv, TypeOK
<1>8. CASE bound[t] = b
  <2>1. Accept(t, b)
    BY <1>3, <1>8, Zenon
  <2>2. spent' = [spent EXCEPT ![t] = <<b>>]
    BY <1>1, <1>5, <2>1, AcceptOnce, Zenon
  <2>3. <<b>> # <<>>
    OBVIOUS
  <2>4. LifeOf(t)' = "spent"
    BY <1>1, <1>2, <1>5, <1>6, <2>2, <2>3 DEF LifeOf, InHand
  <2>5. \A u \in Tokens \ {t} : LifeOf(u)' = LifeOf(u)
    BY <1>2, <1>5, <1>7, <2>2 DEF LifeOf, InHand
  <2>6. Accept(t, bound[t])
    BY <1>8, <2>1, Zenon
  <2> QED
    BY <1>1, <1>2, <1>4, <2>4, <2>5, <2>6, OnceLeaves, Zenon
<1>9. CASE bound[t] # b
  <2>1. spent' = spent
    BY <1>3, <1>9
  <2>2. LifeOf(t)' = "lost"
    BY <1>1, <1>2, <1>6, <2>1 DEF LifeOf, InHand
  <2>3. \A u \in Tokens \ {t} : LifeOf(u)' = LifeOf(u)
    BY <1>2, <1>7, <2>1 DEF LifeOf, InHand
  <2>4. LifeOf(t)' # "spent"
    BY <2>2
  <2> QED
    BY <1>1, <1>2, <1>4, <2>1, <2>2, <2>3, <2>4, OnceLeaves, Zenon
<1> QED
  BY <1>8, <1>9

\* A token is accepted at most once, for what it was issued for, whatever the
\* callers, the clock and the bound do: the store implements OneShot.
THEOREM TokensAreOneShot == Spec => SingleUse
<1>1. ASSUME StoreInv, [Next]_vars PROVE [Once!Next]_(Once!vars)
  <2>1. CASE UNCHANGED vars
    BY <2>1 DEF vars, Once!vars, LifeOf
  <2>2. CASE Tick \/ SetClock
    BY <2>2 DEF Tick, SetClock, Once!vars, LifeOf
  <2>3. ASSUME NEW c \in Callers, Draw(c) PROVE UNCHANGED Once!vars
    <3>1. \A t \in Tokens : InHand(t)' <=> InHand(t)
      BY <1>1, <2>3 DEF Draw, InHand, StoreInv, TypeOK
    <3>2. \A t \in Tokens : LifeOf(t)' = LifeOf(t)
      BY <2>3, <3>1 DEF Draw, LifeOf, InHand
    <3> QED
      BY <2>3, <3>2, OnceQuiet DEF Draw
  <2> QED
    BY <1>1, <2>1, <2>2, <2>3, OnceInsert, OnceConsumeLaunch, OnceTake, OnceCompare
       DEF Next
<1> QED
  BY <1>1, OnceInit, StoreInvariant, PTL DEF Spec, SingleUse, Once!Spec
-----------------------------------------------------------------------------
(* Time.                                                                   *)

\* The range test on whole seconds allows an age up to, and not including, one
\* second more than the TTL.
LEMMA Aged ==
  ASSUME NEW a \in Nat
  PROVE  Seconds(a) \in 0 .. TTL <=> a < (TTL + 1) * TicksPerSecond
<1>0. TicksPerSecond \in Nat \ {0} /\ TTL \in Nat
  BY ConfirmationsAssumption
<1> DEFINE q == a \div TicksPerSecond
<1>1. Seconds(a) = q
  BY DEF Seconds
<1>2. q \in Nat /\ q * TicksPerSecond <= a /\ a < (q + 1) * TicksPerSecond
  BY <1>0
<1> HIDE DEF q
<1>3. q <= TTL => (q + 1) * TicksPerSecond <= (TTL + 1) * TicksPerSecond
  BY <1>0, <1>2
<1>4. q > TTL => (TTL + 1) * TicksPerSecond <= q * TicksPerSecond
  BY <1>0, <1>2
<1> QED
  BY <1>0, <1>1, <1>2, <1>3, <1>4

\* A token from the future is no exception: it is refused, or its age is zero.
LEMMA FreshIsInTime ==
  ASSUME TypeOK, NEW t \in Tokens, Fresh(t)
  PROVE  now - created[t] < (TTL + 1) * TicksPerSecond
<1>0. /\ now \in Nat /\ created[t] \in Nat
      /\ TTL \in Nat /\ TicksPerSecond \in Nat \ {0}
  BY ConfirmationsAssumption DEF TypeOK, Times
<1>1. CASE now >= created[t]
  <2>1. now - created[t] \in Nat
    BY <1>0, <1>1
  <2> QED
    BY <2>1, Aged DEF Fresh
<1>2. CASE now < created[t]
  <2>1. (TTL + 1) * TicksPerSecond \in Nat
    BY <1>0
  <2> QED
    BY <1>0, <1>2, <2>1
<1> QED
  BY <1>0, <1>1, <1>2

\* Nobody holds a token and nothing has been issued.
LEMMA TimeInit == Init => TimeInv
BY DEF Init, TimeInv, Crowded

\* What was crowded out stays so: tokens keep the time they were issued at, more
\* are issued, and the clock of an undisturbed run goes forward.
LEMMA CrowdedStays ==
  ASSUME TypeOK, TypeOK', NEW t \in Tokens, Crowded(t), now <= now',
         bound'[t] = bound[t], created'[t] = created[t],
         presented \subseteq presented',
         t \in pending \ presented' => t \in pending',
         \A u \in Tokens : bound[u] # NoBinding =>
           bound'[u] # NoBinding /\ created'[u] = created[u]
  PROVE  Crowded(t)'
<1>0. /\ now \in Nat /\ now' \in Nat /\ created[t] \in Nat
      /\ TTL \in Nat /\ TicksPerSecond \in Nat /\ MaxPending \in Nat
  BY ConfirmationsAssumption DEF TypeOK, Times
<1>1. (TTL + 1) * TicksPerSecond \in Nat
  BY <1>0
<1>2. AsYoung(t) \subseteq AsYoung(t)' /\ AsYoung(t)' \subseteq Tokens
  BY DEF AsYoung
<1>3. Cardinality(AsYoung(t)) <= Cardinality(AsYoung(t)')
  <2>1. IsFiniteSet(AsYoung(t)')
    BY <1>2, ConfirmationsAssumption, FS_Subset
  <2> QED
    BY <1>2, <2>1, FS_Subset
<1>4. Cardinality(AsYoung(t)) \in Nat /\ Cardinality(AsYoung(t)') \in Nat
  <2>1. IsFiniteSet(AsYoung(t)) /\ IsFiniteSet(AsYoung(t)')
    BY <1>2, ConfirmationsAssumption, FS_Subset
  <2> QED
    BY <2>1, FS_CardinalityType
<1>5. now - created[t] <= now' - created[t]
  BY <1>0
<1> SUFFICES ASSUME bound'[t] # NoBinding, t \notin presented', t \notin pending'
             PROVE  \/ now' - created'[t] >= (TTL + 1) * TicksPerSecond
                    \/ Cardinality(AsYoung(t)') >= MaxPending
  BY DEF Crowded
<1>6. \/ now - created[t] >= (TTL + 1) * TicksPerSecond
      \/ Cardinality(AsYoung(t)) >= MaxPending
  BY DEF Crowded
<1>7. created'[t] = created[t]
  OBVIOUS
<1> QED
  BY <1>0, <1>1, <1>3, <1>4, <1>5, <1>6, <1>7

\* Making room for a token leaves MaxPending - 1 that are as young as what it
\* removes, or removes nothing.
LEMMA RoomKeepsYoung ==
  ASSUME NEW K \in SUBSET Tokens, NEW R \in Room(K), NEW t \in K \ R
  PROVE  Cardinality(R) = MaxPending - 1 /\ \A u \in R : created[t] <= created[u]
BY DEF Room

\* Insert removes an expired token, or one that the tokens it leaves and the one
\* it adds crowd out.
LEMMA InsertCrowds ==
  ASSUME StoreInv, StoreInv', TimeInv, disturbed = {},
         NEW c \in Callers, Insert(c), NEW t \in Tokens
  PROVE  Crowded(t)'
<1> DEFINE h == hand[c]
<1> DEFINE K == {u \in pending : Fresh(u)}
<1>0. /\ TypeOK /\ TypeOK' /\ Crowded(t)
      /\ MaxPending \in Nat \ {0} /\ IsFiniteSet(Tokens)
  BY ConfirmationsAssumption DEF StoreInv, TimeInv
<1>1. PICK R \in Room(K) : pending' = R \cup {h.token}
  BY DEF Insert
<1>2. /\ R \subseteq K /\ K \in SUBSET Tokens
      /\ pc[c] = "insert"
      /\ created' = [created EXCEPT ![h.token] = h.at]
      /\ bound' = [bound EXCEPT ![h.token] = h.binding]
      /\ UNCHANGED <<now, presented>>
  BY <1>0, RoomIsSubset DEF Insert, TypeOK
<1>3. /\ h.token \in Tokens /\ h.binding \in Bindings /\ h.at \in Times
      /\ bound[h.token] = NoBinding /\ h.binding # NoBinding
  BY <1>0, <1>2, ConfirmationsAssumption DEF StoreInv, HandInv, Drawn, TypeOK, Hands
<1>4. \A u \in Tokens \ {h.token} : bound'[u] = bound[u] /\ created'[u] = created[u]
  BY <1>0, <1>2 DEF TypeOK
<1>5. bound'[h.token] = h.binding /\ created'[h.token] = h.at
  BY <1>0, <1>2, <1>3 DEF TypeOK
<1>6. \A u \in pending : bound[u] # NoBinding
  BY DEF StoreInv, TokenInv
<1> HIDE DEF h, K
<1>7. CASE t = h.token
  BY <1>1, <1>7 DEF Crowded
<1>8. CASE t # h.token /\ ~(t \in pending \ presented' /\ t \notin pending')
  <2>1. \A u \in Tokens : bound[u] # NoBinding => u # h.token
    BY <1>3
  <2>2. \A u \in Tokens : bound[u] # NoBinding =>
          bound'[u] # NoBinding /\ created'[u] = created[u]
    BY <1>4, <2>1
  <2>3. now <= now' /\ presented \subseteq presented'
    BY <1>0, <1>2 DEF TypeOK, Times
  <2> QED
    BY <1>0, <1>4, <1>8, <2>2, <2>3, CrowdedStays
<1>9. CASE t # h.token /\ t \in pending /\ t \notin pending'
  <2>1. bound[t] # NoBinding /\ t \notin R /\ created'[t] = created[t] /\ now' = now
    BY <1>1, <1>2, <1>4, <1>6, <1>9
  <2>2. created[t] <= now /\ created[t] <= h.at
    BY <1>2, <2>1 DEF TimeInv, h
  <2>3. now \in Nat /\ created[t] \in Nat /\ h.at \in Nat
    BY <1>0, <1>3 DEF TypeOK, Times
  <2>4. CASE ~Fresh(t)
    <3>1. now - created[t] \in Nat
      BY <2>2, <2>3
    <3>2. ~(now - created[t] < (TTL + 1) * TicksPerSecond)
      BY <2>4, <3>1, Aged DEF Fresh
    <3>3. (TTL + 1) * TicksPerSecond \in Nat
      BY ConfirmationsAssumption
    <3>4. now' - created'[t] >= (TTL + 1) * TicksPerSecond
      BY <2>1, <2>3, <3>1, <3>2, <3>3
    <3> QED
      BY <3>4 DEF Crowded
  <2>5. CASE Fresh(t)
    <3>1. t \in K \ R
      BY <1>9, <2>1, <2>5 DEF K
    <3>2. Cardinality(R) = MaxPending - 1 /\ \A u \in R : created[t] <= created[u]
      BY <1>2, <3>1, RoomKeepsYoung
    <3>3. h.token \notin pending /\ h.token \notin R
      BY <1>2, <1>3, <1>6 DEF K
    <3>4. R \cup {h.token} \subseteq AsYoung(t)'
      <4>1. ASSUME NEW u \in R PROVE u \in AsYoung(t)'
        <5>1. u \in Tokens /\ u # h.token /\ u # t /\ u \in pending
          BY <1>2, <2>1, <3>3 DEF K
        <5>2. bound'[u] # NoBinding /\ created'[u] = created[u]
          BY <1>4, <1>6, <5>1
        <5>3. created[u] >= created[t]
          BY <1>0, <3>2, <5>1 DEF TypeOK, Times
        <5> QED
          BY <2>1, <5>1, <5>2, <5>3 DEF AsYoung
      <4>2. h.token \in AsYoung(t)'
        <5>1. h.at >= created[t]
          BY <2>2, <2>3
        <5> QED
          BY <1>3, <1>5, <1>9, <2>1, <5>1 DEF AsYoung
      <4> QED
        BY <4>1, <4>2
    <3>5. IsFiniteSet(R) /\ IsFiniteSet(AsYoung(t)')
      <4>1. R \subseteq Tokens /\ AsYoung(t)' \subseteq Tokens
        BY <1>2 DEF AsYoung
      <4> QED
        BY <1>0, <4>1, FS_Subset
    <3>6. /\ IsFiniteSet(R \cup {h.token})
          /\ Cardinality(R \cup {h.token}) = Cardinality(R) + 1
      BY <3>3, <3>5, FS_AddElement
    <3>7. Cardinality(R \cup {h.token}) <= Cardinality(AsYoung(t)')
      BY <3>4, <3>5, FS_Subset
    <3>8. Cardinality(AsYoung(t)') \in Nat
      BY <3>5, FS_CardinalityType
    <3>9. Cardinality(AsYoung(t)') >= MaxPending
      BY <1>0, <3>2, <3>6, <3>7, <3>8
    <3> QED
      BY <3>9 DEF Crowded
  <2> QED
    BY <2>4, <2>5
<1> QED
  BY <1>7, <1>8, <1>9

\* A command that does not insert crowds no token out: what it takes from the
\* map it was called with.
LEMMA OthersCrowdNone ==
  ASSUME TypeOK, TypeOK', \A t \in Tokens : Crowded(t),
         UNCHANGED <<created, bound>>, now <= now',
         presented \subseteq presented', pending \ presented' \subseteq pending'
  PROVE  \A t \in Tokens : Crowded(t)'
BY CrowdedStays

\* Every operation keeps what the time of a token rests on.
LEMMA TimeStep == StoreInv /\ StoreInv' /\ TimeInv /\ [Next]_vars => TimeInv'
<1> SUFFICES ASSUME StoreInv, StoreInv', TimeInv, [Next]_vars PROVE TimeInv'
  OBVIOUS
<1>0. TypeOK /\ TypeOK' /\ now <= now
  BY DEF StoreInv, TypeOK, Times
<1>1. CASE Tick
  <2>1. now <= now' /\ \A i \in Nat : i <= now => i <= now'
    BY <1>0, <1>1 DEF Tick, TypeOK, Times
  <2>2. disturbed = {} => \A t \in Tokens : Crowded(t)'
    BY <1>0, <1>1, <2>1, OthersCrowdNone DEF Tick, TimeInv
  <2>3. /\ \A t \in Tokens : created[t] \in Nat
        /\ \A c \in Callers : hand[c].at \in Nat
    BY <1>0 DEF TypeOK, Times, Hands
  <2> QED
    BY <1>1, <2>1, <2>2, <2>3 DEF Tick, TimeInv
<1>2. CASE SetClock
  BY <1>2 DEF SetClock, TimeInv
<1>3. ASSUME NEW c \in Callers, Draw(c) PROVE TimeInv'
  <2>1. /\ pc' = [pc EXCEPT ![c] = "insert"]
        /\ hand'[c].at = now
        /\ \A d \in Callers \ {c} : hand'[d] = hand[d] /\ pc'[d] = pc[d]
        /\ UNCHANGED <<kind, now, pending, created, bound, presented, spent>>
    BY <1>0, <1>3 DEF Draw, TypeOK
  <2>2. disturbed' = {} => disturbed = {} /\ \A d \in Callers : pc[d] # "insert"
    BY <1>3 DEF Draw
  <2>3. pc'[c] = "insert"
    BY <1>0, <2>1 DEF TypeOK
  <2>4. disturbed = {} => \A t \in Tokens : Crowded(t)'
    BY <1>0, <2>1, OthersCrowdNone DEF TimeInv
  <2> QED
    BY <1>0, <2>1, <2>2, <2>3, <2>4 DEF TimeInv
<1>4. ASSUME NEW c \in Callers, Insert(c) PROVE TimeInv'
  <2>1. /\ pc[c] = "insert" /\ pc'[c] = "idle"
        /\ \A d \in Callers \ {c} : hand'[d] = hand[d] /\ pc'[d] = pc[d]
        /\ created' = [created EXCEPT ![hand[c].token] = hand[c].at]
        /\ bound' = [bound EXCEPT ![hand[c].token] = hand[c].binding]
        /\ UNCHANGED <<kind, now, disturbed>>
    BY <1>0, <1>4 DEF Insert, Idle, TypeOK
  <2>2. disturbed = {} => \A t \in Tokens : Crowded(t)'
    BY <1>4, InsertCrowds
  <2>3. disturbed = {} => \A d \in Callers : pc'[d] # "insert"
    BY <2>1 DEF TimeInv
  <2>4. ASSUME disturbed = {}, NEW t \in Tokens, bound'[t] # NoBinding
        PROVE  created'[t] <= now
    <3>1. CASE t = hand[c].token
      BY <1>0, <2>1, <2>4, <3>1 DEF TimeInv, TypeOK
    <3>2. CASE t # hand[c].token
      BY <1>0, <2>1, <2>4, <3>2 DEF TimeInv, TypeOK
    <3> QED
      BY <3>1, <3>2
  <2>5. kind' = "launch" => \A d \in Callers : pc'[d] # "compare"
    BY <2>1 DEF TimeInv
  <2> QED
    BY <2>1, <2>2, <2>3, <2>4, <2>5 DEF TimeInv
<1>5. ASSUME NEW c \in Callers, ConsumeLaunch(c) PROVE TimeInv'
  <2>1. /\ UNCHANGED <<kind, now, created, bound, pc, hand, disturbed>>
        /\ presented \subseteq presented' /\ pending \ presented' \subseteq pending'
    BY <1>5 DEF ConsumeLaunch
  <2>2. disturbed = {} => \A t \in Tokens : Crowded(t)'
    BY <1>0, <2>1, OthersCrowdNone DEF TimeInv
  <2> QED
    BY <2>1, <2>2 DEF TimeInv
<1>6. ASSUME NEW c \in Callers, Take(c) PROVE TimeInv'
  <2>1. /\ UNCHANGED <<kind, now, created, bound, disturbed>>
        /\ presented \subseteq presented' /\ pending \ presented' \subseteq pending'
        /\ kind = "target"
    BY <1>6 DEF Take
  <2>2. \A d \in Callers : pc'[d] = "insert" => pc[d] = "insert" /\ hand'[d] = hand[d]
    <3>1. \/ UNCHANGED <<pc, hand>>
          \/ /\ pc' = [pc EXCEPT ![c] = "compare"]
             /\ \E t \in pending : hand' = [hand EXCEPT ![c].token = t]
      BY <1>6 DEF Take
    <3> QED
      BY <1>0, <3>1 DEF TypeOK
  <2>3. disturbed = {} => \A t \in Tokens : Crowded(t)'
    BY <1>0, <2>1, OthersCrowdNone DEF TimeInv
  <2> QED
    BY <2>1, <2>2, <2>3 DEF TimeInv
<1>7. ASSUME NEW c \in Callers, Compare(c) PROVE TimeInv'
  <2>1. UNCHANGED <<kind, now, pending, created, bound, presented, disturbed>>
    BY <1>7 DEF Compare
  <2>2. \A d \in Callers :
          /\ pc'[d] = "insert" => pc[d] = "insert" /\ hand'[d] = hand[d]
          /\ pc'[d] = "compare" => pc[d] = "compare"
    BY <1>0, <1>7 DEF Compare, Idle, TypeOK
  <2>3. disturbed = {} => \A t \in Tokens : Crowded(t)'
    BY <1>0, <2>1, OthersCrowdNone DEF TimeInv
  <2> QED
    BY <2>1, <2>2, <2>3 DEF TimeInv
<1>8. CASE UNCHANGED vars
  <2>1. disturbed = {} => \A t \in Tokens : Crowded(t)'
    BY <1>0, <1>8, OthersCrowdNone DEF TimeInv, vars
  <2> QED
    BY <1>8, <2>1 DEF vars, TimeInv
<1> QED
  BY <1>1, <1>2, <1>3, <1>4, <1>5, <1>6, <1>7, <1>8 DEF Next

\* What the time of a token rests on holds in every reachable state.
THEOREM TimeInvariant == Spec => []TimeInv
BY TimeInit, TimeStep, StoreInvariant, PTL DEF Spec

\* Unless the clock was set or two issues overlapped, only MaxPending tokens as
\* young take a token in its time from its holder.
THEOREM HoldersKeepTheirTokens == Spec => []KeptUnlessCrowded
<1>1. StoreInv /\ TimeInv => KeptUnlessCrowded
  <2> SUFFICES ASSUME StoreInv, TimeInv, disturbed = {}, NEW t \in Tokens,
                      bound[t] # NoBinding, t \notin presented, t \notin pending,
                      now - created[t] < (TTL + 1) * TicksPerSecond
               PROVE  Cardinality(AsYoung(t)) >= MaxPending
    BY DEF KeptUnlessCrowded
  <2>1. Crowded(t)
    BY DEF TimeInv
  <2>2. /\ now \in Nat /\ created[t] \in Nat
        /\ (TTL + 1) * TicksPerSecond \in Nat
    BY ConfirmationsAssumption DEF StoreInv, TypeOK, Times
  <2> QED
    BY <2>1, <2>2 DEF Crowded
<1> QED
  BY <1>1, StoreInvariant, TimeInvariant, PTL

\* The launch store accepts no token after its time, with any clock.
THEOREM NoneIsUsedLate == Spec => NoLateUse
<1>1. StoreInv /\ TimeInv /\ [Next]_vars =>
        [kind = "launch" => \A t \in Tokens :
           spent'[t] # spent[t] => now - created[t] < (TTL + 1) * TicksPerSecond]_vars
  <2> SUFFICES ASSUME StoreInv, TimeInv, Next, kind = "launch",
                      NEW t \in Tokens, spent'[t] # spent[t]
               PROVE  now - created[t] < (TTL + 1) * TicksPerSecond
    OBVIOUS
  <2>0. TypeOK
    BY DEF StoreInv
  <2>1. PICK c \in Callers : ConsumeLaunch(c)
    BY DEF Next, Tick, SetClock, Draw, Insert, Take, Compare, TimeInv
  <2>2. PICK u \in pending, b \in Bindings :
          IF Fresh(u) /\ bound[u] = b THEN Accept(u, b) ELSE UNCHANGED spent
    BY <2>1 DEF ConsumeLaunch
  <2>3. Fresh(u) /\ Accept(u, b)
    BY <2>2
  <2>4. u = t
    BY <2>0, <2>3 DEF Accept, TypeOK
  <2> QED
    BY <2>0, <2>3, <2>4, FreshIsInTime
<1> QED
  BY <1>1, StoreInvariant, TimeInvariant, PTL DEF Spec, NoLateUse

==============================================================================
