--------------------------- MODULE ProjectLaunchProofs ---------------------------
(***************************************************************************)
(* Proofs about ProjectScanner and ProjectLaunch, for every set of paths,  *)
(* contents of the disk, profiles, tokens and sessions, and without the    *)
(* bounds of the instance that is model-checked.                           *)
(***************************************************************************)
EXTENDS ProjectLaunch, SequenceTheorems, FiniteSetTheorems, NaturalsInduction,
        WellFoundedInduction, TLAPS

\* A set of natural numbers has a least element.
LEMMA Least ==
  ASSUME NEW S \in SUBSET Nat, S # {}
  PROVE  \E n \in S : \A o \in S : n <= o
<1> DEFINE R == {ss \in Nat \X Nat : ss[1] < ss[2]}
<1>1. IsWellFoundedOn(R, Nat)
  BY NatLessThanWellFounded, Zenon DEF OpToRel
<1>2. \A n, o \in Nat : <<o, n>> \in R <=> o < n
  OBVIOUS
<1> HIDE DEF R
<1>3. PICK n \in S : \A o \in S : ~ (<<o, n>> \in R)
  BY <1>1, WFMin
<1>4. \A o \in S : n <= o
  <2> SUFFICES ASSUME NEW o \in S PROVE n <= o
    OBVIOUS
  <2>1. n \in Nat /\ o \in Nat /\ ~(o < n)
    BY <1>2, <1>3
  <2> QED
    BY <2>1
<1> QED
  BY <1>4

\* A bounded one has a greatest.
LEMMA Greatest ==
  ASSUME NEW S \in SUBSET Nat, S # {}, NEW m \in Nat, \A o \in S : o <= m
  PROVE  \E n \in S : \A o \in S : o <= n
<1> DEFINE above == {n \in Nat : \A o \in S : o <= n}
<1>1. PICK n \in above : \A o \in above : n <= o
  BY Least
<1>2. n \in S
  <2> SUFFICES ASSUME n \notin S PROVE FALSE
    OBVIOUS
  <2>1. \A o \in S : o \in Nat /\ o < n
    BY <1>1
  <2>2. PICK o \in S : TRUE
    OBVIOUS
  <2>3. n > 0 /\ \A x \in S : x <= n - 1
    BY <1>1, <2>1
  <2> QED
    BY <1>1, <2>3
<1> QED
  BY <1>1, <1>2

-----------------------------------------------------------------------------
(* The walk.                                                               *)

Calls == [dir : Paths, left : SUBSET Paths]

\* A folder is within itself.
LEMMA WithinItself == ASSUME NEW p \in Paths PROVE Within(p, p)
BY SubSeqFull, ScanAssumption DEF Within

\* A call whose entries change is one about the same folder.
LEMMA CallFrame ==
  ASSUME NEW r \in Calls, NEW entries \in SUBSET Paths
  PROVE  [r EXCEPT !.left = entries] \in Calls /\ [r EXCEPT !.left = entries].dir = r.dir
<1>1. [r EXCEPT !.left = entries] = [dir |-> r.dir, left |-> entries] /\ r.dir \in Paths
  BY DEF Calls
<1> QED
  BY <1>1 DEF Calls

\* The call on top is one of the stack.
LEMMA TopCall ==
  ASSUME ScanInv, phase \in {"look", "read", "list", "walk"}
  PROVE  /\ Level \in 1 .. Len(stack) /\ Level \in Nat
         /\ Top \in Calls
         /\ Within(Top.dir, root)
<1>1. stack \in Seq(Calls) /\ Len(stack) \in Nat /\ Len(stack) > 0
  BY DEF ScanInv, Calls
<1>2. Len(stack) \in 1 .. Len(stack)
  BY <1>1
<1> QED
  BY <1>1, <1>2 DEF ScanInv, Level, Top

\* What the frames of a call and its return leave of the stack.
LEMMA Popped ==
  ASSUME ScanInv, phase \in {"look", "read", "list", "walk"},
         stack' = SubSeq(stack, 1, Level - 1)
  PROVE  /\ stack' \in Seq(Calls)
         /\ Len(stack') = Level - 1
         /\ \A i \in 1 .. Len(stack') : stack'[i] = stack[i]
<1>1. stack \in Seq(Calls) /\ Level \in Nat /\ Level > 0 /\ Level = Len(stack)
  BY DEF ScanInv, Level, Calls
<1>2. \A i \in 1 .. Level - 1 : stack[i] \in Calls
  BY <1>1
<1> QED
  BY <1>1, <1>2, SubSeqProperties


\* A scan begins at the folder the root leads to, with one call.
LEMMA BeginStep == ASSUME ScanInv, NEW p \in ProjectPaths, ScanBegin(p) PROVE ScanInv'
<1>1. p \in Paths /\ tree.leads[p] \in Paths \cup {Nowhere}
  BY ScanAssumption DEF ScanInv
<1>2. tree' \in Trees /\ out' = {}
  BY DEF ScanInv, ScanBegin
<1>3. CASE tree.leads[p] = Nowhere
  BY <1>2, <1>3 DEF ScanInv, ScanBegin
<1>4. CASE tree.leads[p] # Nowhere
  <2>1. stack' = <<Call(root')>> /\ root' \in Paths /\ phase' = "look"
    BY <1>1, <1>4 DEF ScanBegin
  <2>2. Call(root') \in Calls /\ Within(Call(root').dir, root')
    BY <2>1, WithinItself DEF Call, Calls
  <2>3. /\ stack' \in Seq(Calls) /\ Len(stack') = 1
        /\ \A i \in 1 .. Len(stack') : Within(stack'[i].dir, root')
    BY <2>1, <2>2
  <2>4. 1 <= MAX_SCAN_DEPTH
    BY ScanAssumption
  <2> QED
    BY <1>2, <2>1, <2>3, <2>4 DEF ScanInv, Calls
<1> QED
  BY <1>3, <1>4

\* Looking at files moves on within the call.
LEMMA LookStep == ASSUME ScanInv, Look PROVE ScanInv'
BY DEF ScanInv, Look, diskVars, MayDescend

\* A build file becomes a candidate of the folder of the call, or nothing does.
LEMMA BuildStep == ASSUME ScanInv, Build PROVE ScanInv'
<1>1. Within(Top.dir, root)
  BY TopCall DEF Build
<1>2. tree' = tree /\ root' = root
  BY DEF Build, diskVars
<1>3. CASE ScanFails
  BY <1>2, <1>3, ScanAssumption DEF ScanInv, ScanFails
<1>4. ASSUME NEW file, NEW known,
             AddOnce(Candidate(Top.dir, file, known)), phase' = "look", UNCHANGED stack
      PROVE  ScanInv'
  <2>1. LET c == Candidate(Top.dir, file, known)
        IN /\ Within(c.dir, root)
           /\ c = [dir |-> c.dir, file |-> c.file, stack |-> c.stack, status |-> c.status,
                   command |-> c.command, group |-> c.group]
    BY <1>1 DEF Candidate
  <2>2. out' \subseteq out \cup {Candidate(Top.dir, file, known)}
    BY <1>4 DEF AddOnce
  <2> QED
    BY <1>2, <1>4, <2>1, <2>2 DEF ScanInv, Build
<1> QED
  BY <1>3, <1>4 DEF Build

\* Marking conflicts changes no folder of a candidate.
LEMMA MarkedDirs ==
  ASSUME ScanInv, NEW c \in Marked(out)
  PROVE  /\ Within(c.dir, root)
         /\ c = [dir |-> c.dir, file |-> c.file, stack |-> c.stack, status |-> c.status,
                 command |-> c.command, group |-> c.group]
<1>1. PICK d \in out :
        \/ c = d
        \/ c = [d EXCEPT !.status = "CONFLICT", !.group = <<"java-build-system", d.dir>>]
  BY DEF Marked
<1>2. /\ Within(d.dir, root)
      /\ d = [dir |-> d.dir, file |-> d.file, stack |-> d.stack, status |-> d.status,
              command |-> d.command, group |-> d.group]
  BY DEF ScanInv
<1>3. c.dir = d.dir
  BY <1>1, <1>2
<1> QED
  BY <1>1, <1>2, <1>3

\* A return leaves the frames below, which may all descend.
LEMMA ReturnStep ==
  ASSUME ScanInv, phase \in {"look", "read", "list", "walk"}, Return, tree' = tree, root' = root
  PROVE  ScanInv'
<1>1. /\ stack' \in Seq(Calls)
      /\ Len(stack') = Level - 1
      /\ \A i \in 1 .. Len(stack') : stack'[i] = stack[i]
  BY Popped DEF Return
<1>2. Level \in Nat /\ Level > 0 /\ Level = Len(stack) /\ Level <= MAX_SCAN_DEPTH
  BY DEF ScanInv, Level
<1>3. MAX_SCAN_DEPTH \in Nat
  BY ScanAssumption
<1>4. \A i \in 1 .. Len(stack') : Within(stack'[i].dir, root)
  BY <1>1, <1>2 DEF ScanInv
<1>5. CASE Level > 1
  BY <1>1, <1>2, <1>3, <1>4, <1>5 DEF ScanInv, Return, MayDescend, Level, Calls
<1>6. CASE Level = 1
  <2>1. stack' = <<>> /\ phase' = "done" /\ out' = Marked(out)
    BY <1>1, <1>6 DEF Return
  <2> QED
    BY <1>3, <2>1, MarkedDirs DEF ScanInv
<1> QED
  BY <1>2, <1>5, <1>6

\* Listing gives the call its entries.
LEMMA ListStep == ASSUME ScanInv, List PROVE ScanInv'
<1>1. tree' = tree /\ root' = root /\ phase = "list"
  BY DEF List, diskVars
<1>2. CASE Return
  BY <1>1, <1>2, ReturnStep
<1>3. CASE ScanFails
  BY <1>1, <1>3, ScanAssumption DEF ScanInv, ScanFails
<1>4. ASSUME MayDescend, NEW entries \in Listings(Top.dir),
             stack' = [stack EXCEPT ![Level].left = entries],
             phase' = "walk", UNCHANGED out
      PROVE  ScanInv'
  <2>1. entries \in SUBSET Paths
    BY <1>4 DEF Listings, ChildrenOf
  <2>2. Level \in 1 .. Len(stack) /\ Level = Len(stack) /\ stack \in Seq(Calls)
    BY <1>1, TopCall DEF ScanInv, Calls, Level
  <2>3. [stack[Level] EXCEPT !.left = entries] \in Calls
    <3>1. stack[Level] \in Calls
      BY <2>2
    <3> QED
      BY <2>1, <3>1, CallFrame
  <2>4. /\ stack' \in Seq(Calls) /\ Len(stack') = Len(stack)
        /\ \A i \in 1 .. Len(stack) : stack'[i].dir = stack[i].dir
    <3>1. stack' = [stack EXCEPT ![Level] = [stack[Level] EXCEPT !.left = entries]]
      BY <1>4
    <3>2. [stack[Level] EXCEPT !.left = entries].dir = stack[Level].dir
      BY <2>2 DEF Calls
    <3> QED
      BY <2>2, <2>3, <3>1, <3>2
  <2> QED
    BY <1>1, <1>4, <2>4 DEF ScanInv, Calls, MayDescend, Level
<1> QED
  BY <1>2, <1>3, <1>4 DEF List

\* An entry is entered only if it leads to a folder within the root.
LEMMA WalkStep == ASSUME ScanInv, Walk PROVE ScanInv'
<1>1. tree' = tree /\ root' = root /\ phase = "walk"
  BY DEF Walk, diskVars
<1>2. CASE Return
  BY <1>1, <1>2, ReturnStep
<1>3. ASSUME NEW p \in Top.left, out' = out,
             LET rest == [stack EXCEPT ![Level].left = @ \ {p}] IN
               IF ~should_skip_directory(p) /\ canonical_child_within_root(p)
               THEN stack' = Append(rest, Call(tree.leads[p])) /\ phase' = "look"
               ELSE stack' = rest /\ phase' = phase
      PROVE  ScanInv'
  <2>1. Level \in 1 .. Len(stack) /\ Level = Len(stack) /\ stack \in Seq(Calls)
    BY <1>1, TopCall DEF ScanInv, Calls, Level
  <2>2. p \in Paths /\ tree.leads[p] \in Paths \cup {Nowhere}
    BY <1>1, <1>3, TopCall, ScanAssumption DEF Calls, ScanInv
  <2> DEFINE frame == [stack[Level] EXCEPT !.left = @ \ {p}]
             rest  == [stack EXCEPT ![Level] = frame]
  <2>3. frame \in Calls /\ frame.dir = stack[Level].dir
    <3>1. stack[Level] \in Calls
      BY <2>1
    <3>2. stack[Level].left \ {p} \in SUBSET Paths
      BY <3>1 DEF Calls
    <3> QED
      BY <3>1, <3>2, CallFrame
  <2> HIDE DEF frame
  <2>4. /\ rest \in Seq(Calls) /\ Len(rest) = Len(stack)
        /\ \A i \in 1 .. Len(stack) : rest[i].dir = stack[i].dir
    BY <2>1, <2>3
  <2>5. rest = [stack EXCEPT ![Level].left = @ \ {p}]
    BY <2>1 DEF frame
  <2> HIDE DEF rest
  <2>6. \A i \in 1 .. Len(rest) : Within(rest[i].dir, root)
    BY <2>4 DEF ScanInv
  <2>7. MAX_SCAN_DEPTH \in Nat /\ Len(stack) < MAX_SCAN_DEPTH
    BY <1>1, ScanAssumption DEF ScanInv, MayDescend, Level
  <2>8. CASE stack' = rest /\ phase' = phase
    BY <1>1, <1>3, <2>1, <2>4, <2>6, <2>7, <2>8 DEF ScanInv, Calls, MayDescend, Level
  <2>9. CASE /\ canonical_child_within_root(p)
             /\ stack' = Append(rest, Call(tree.leads[p])) /\ phase' = "look"
    <3>1. Call(tree.leads[p]) \in Calls /\ Within(Call(tree.leads[p]).dir, root)
      BY <2>2, <2>9 DEF canonical_child_within_root, Call, Calls
    <3>2. /\ stack' \in Seq(Calls) /\ Len(stack') = Len(stack) + 1
          /\ \A i \in 1 .. Len(stack') : Within(stack'[i].dir, root)
      BY <2>4, <2>6, <2>9, <3>1
    <3> QED
      BY <1>1, <1>3, <2>1, <2>7, <2>9, <3>2 DEF ScanInv, Calls
  <2> QED
    BY <1>3, <2>5, <2>8, <2>9
<1> QED
  BY <1>2, <1>3 DEF Walk

\* A step of a scan keeps it within the root and its depth.
LEMMA ScanKept == ASSUME ScanInv, ScanNext PROVE ScanInv'
<1>1. CASE ScanLeave
  BY <1>1, ScanAssumption DEF ScanInv, ScanLeave, diskVars
<1> QED
  BY <1>1, BeginStep, LookStep, BuildStep, ListStep, WalkStep DEF ScanNext, ScanStep

-----------------------------------------------------------------------------
(* What a walk over a disk at rest finds.                                  *)

\* The recursive definition of ReachedFrom has a solution, and so is one.
LEMMA ReachedUp ==
  ASSUME NEW d, NEW n \in 1 .. MAX_SCAN_DEPTH
  PROVE  ReachedFrom(d)[n] =
           IF n = 1 THEN {d}
           ELSE ReachedFrom(d)[n - 1] \cup UNION {Entered(e) : e \in ReachedFrom(d)[n - 1]}
<1> DEFINE Deeper(S) == S \cup UNION {Entered(e) : e \in S}
           Solves(f, m) == f = [i \in 1 .. m |-> IF i = 1 THEN {d} ELSE Deeper(f[i - 1])]
           none == {m \in 1 .. MAX_SCAN_DEPTH : \A f : ~Solves(f, m)}
           up == CHOOSE f : Solves(f, MAX_SCAN_DEPTH)
<1>1. ReachedFrom(d) = up
  BY DEF ReachedFrom
<1> HIDE DEF Deeper
<1>2. none = {}
  <2> SUFFICES ASSUME none # {} PROVE FALSE
    OBVIOUS
  <2>1. none \in SUBSET Nat
    OBVIOUS
  <2>2. PICK m \in none : \A k \in none : m <= k
    <3> HIDE DEF none
    <3> QED
      BY <2>1, Least
  <2>3. CASE m = 1
    <3> DEFINE g == [i \in 1 .. 1 |-> {d}]
    <3>1. Solves(g, 1)
      OBVIOUS
    <3> QED
      BY <2>2, <2>3, <3>1
  <2>4. CASE m # 1
    <3>1. m - 1 \in 1 .. MAX_SCAN_DEPTH /\ m - 1 \notin none /\ m \in Nat /\ m > 1
      <4>1. m \in 1 .. MAX_SCAN_DEPTH
        OBVIOUS
      <4> HIDE DEF none
      <4> QED
        BY <2>2, <2>4, <4>1, ScanAssumption
    <3>2. PICK f : Solves(f, m - 1)
      BY <3>1
    <3> DEFINE g == [i \in 1 .. m |-> IF i < m THEN f[i] ELSE Deeper(f[m - 1])]
    <3>3. \A i \in 1 .. m - 1 : f[i] = IF i = 1 THEN {d} ELSE Deeper(f[i - 1])
      BY <3>2
    <3>4. \A i \in 1 .. m : i # 1 => i - 1 \in 1 .. m /\ g[i - 1] = f[i - 1]
      BY <3>1
    <3>5. \A i \in 1 .. m : g[i] = IF i = 1 THEN {d} ELSE Deeper(g[i - 1])
      <4> TAKE i \in 1 .. m
      <4>1. CASE i < m
        BY <3>1, <3>3, <3>4, <4>1
      <4>2. CASE i = m
        BY <3>1, <3>4, <4>2
      <4> QED
        BY <3>1, <4>1, <4>2
    <3>6. Solves(g, m)
      <4> DEFINE h == [i \in 1 .. m |-> IF i = 1 THEN {d} ELSE Deeper(g[i - 1])]
      <4>1. \A i \in 1 .. m : g[i] = h[i]
        BY <3>5
      <4>2. g = h
        <5>1. DOMAIN g = 1 .. m /\ DOMAIN h = 1 .. m
          OBVIOUS
        <5>2. g = [i \in 1 .. m |-> g[i]] /\ h = [i \in 1 .. m |-> h[i]]
          OBVIOUS
        <5> HIDE DEF g, h
        <5> QED
          BY <4>1, <5>2
      <4> QED
        BY <4>2
    <3> QED
      BY <2>2, <3>6
  <2> QED
    BY <2>3, <2>4
<1>3. Solves(up, MAX_SCAN_DEPTH)
  <2>1. MAX_SCAN_DEPTH \in 1 .. MAX_SCAN_DEPTH
    BY ScanAssumption
  <2> HIDE DEF Solves
  <2>2. \E f : Solves(f, MAX_SCAN_DEPTH)
    BY <1>2, <2>1
  <2> QED
    BY <2>2
<1> QED
  BY <1>1, <1>3 DEF Deeper

\* The first level is the folder itself, each further one its entries.
LEMMA ReachedLevels ==
  ASSUME NEW d
  PROVE  /\ ReachedFrom(d)[1] = {d}
         /\ \A n \in 1 .. MAX_SCAN_DEPTH - 1 :
              ReachedFrom(d)[n + 1] =
                ReachedFrom(d)[n] \cup UNION {Entered(e) : e \in ReachedFrom(d)[n]}
<1>1. 1 \in 1 .. MAX_SCAN_DEPTH
  BY ScanAssumption
<1>2. ASSUME NEW n \in 1 .. MAX_SCAN_DEPTH - 1
      PROVE  ReachedFrom(d)[n + 1] =
               ReachedFrom(d)[n] \cup UNION {Entered(e) : e \in ReachedFrom(d)[n]}
  <2>1. n + 1 \in 1 .. MAX_SCAN_DEPTH /\ n + 1 # 1 /\ n + 1 - 1 = n
    BY ScanAssumption
  <2> DEFINE k == n + 1
  <2>2. k \in 1 .. MAX_SCAN_DEPTH /\ k # 1 /\ k - 1 = n
    BY <2>1
  <2> HIDE DEF k
  <2>3. ReachedFrom(d)[k] =
          ReachedFrom(d)[n] \cup UNION {Entered(e) : e \in ReachedFrom(d)[n]}
    BY <2>2, ReachedUp
  <2> QED
    BY <2>3 DEF k
<1> QED
  BY <1>1, <1>2, ReachedUp

\* More levels reach more.
LEMMA ReachedGrows ==
  ASSUME NEW d, NEW m \in 1 .. MAX_SCAN_DEPTH, NEW n \in m .. MAX_SCAN_DEPTH
  PROVE  ReachedFrom(d)[m] \subseteq ReachedFrom(d)[n]
<1> DEFINE smaller == {k \in m .. MAX_SCAN_DEPTH : ~(ReachedFrom(d)[m] \subseteq ReachedFrom(d)[k])}
<1> SUFFICES ASSUME smaller # {} PROVE FALSE
  OBVIOUS
<1>1. smaller \in SUBSET Nat
  OBVIOUS
<1>2. PICK k \in smaller : \A j \in smaller : k <= j
  <2> HIDE DEF smaller
  <2> QED
    BY <1>1, Least
<1>3. k # m
  BY <1>2
<1>4. k - 1 \in m .. MAX_SCAN_DEPTH /\ k - 1 \in 1 .. MAX_SCAN_DEPTH - 1 /\ k - 1 + 1 = k
  BY <1>2, <1>3, ScanAssumption
<1>5. ReachedFrom(d)[m] \subseteq ReachedFrom(d)[k - 1]
  BY <1>2, <1>4
<1>6. ReachedFrom(d)[k - 1] \subseteq ReachedFrom(d)[k]
  BY <1>4, ReachedLevels
<1> QED
  BY <1>2, <1>5, <1>6

\* What is reached is the folder, or reached from one of its entries.
LEMMA ReachedDown ==
  ASSUME NEW d, NEW n \in 1 .. MAX_SCAN_DEPTH - 1, NEW e \in ReachedFrom(d)[n + 1], e # d
  PROVE  \E q \in Entered(d) : e \in ReachedFrom(q)[n]
<1> DEFINE Below(k, f) == \E q \in Entered(d) : f \in ReachedFrom(q)[k]
           stray == {k \in 1 .. MAX_SCAN_DEPTH - 1 :
                       \E f \in ReachedFrom(d)[k + 1] : f # d /\ ~Below(k, f)}
<1> SUFFICES ASSUME stray # {} PROVE FALSE
  OBVIOUS
<1>1. stray \in SUBSET Nat
  OBVIOUS
<1>2. PICK k \in stray : \A j \in stray : k <= j
  <2> HIDE DEF stray
  <2> QED
    BY <1>1, Least
<1>3. PICK f \in ReachedFrom(d)[k + 1] : f # d /\ ~Below(k, f)
  BY <1>2
<1>4. /\ k \in 1 .. MAX_SCAN_DEPTH - 1 /\ k \in 1 .. MAX_SCAN_DEPTH /\ 1 \in 1 .. MAX_SCAN_DEPTH
      /\ k \in 1 .. MAX_SCAN_DEPTH
  BY <1>2, ScanAssumption
<1>5. f \in ReachedFrom(d)[k] \/ \E g \in ReachedFrom(d)[k] : f \in Entered(g)
  BY <1>3, <1>4, ReachedLevels
<1>6. ASSUME f \in Entered(d) PROVE FALSE
  <2>1. f \in ReachedFrom(f)[1]
    BY ReachedLevels
  <2>2. f \in ReachedFrom(f)[k]
    BY <1>4, <2>1, ReachedGrows
  <2> QED
    BY <1>3, <1>6, <2>2
<1>7. CASE k = 1
  BY <1>3, <1>5, <1>6, <1>7, ReachedLevels
<1>8. CASE k # 1
  <2>1. k - 1 \in 1 .. MAX_SCAN_DEPTH - 1 /\ k - 1 + 1 = k /\ k - 1 \in 1 .. MAX_SCAN_DEPTH
        /\ k \in k - 1 .. MAX_SCAN_DEPTH /\ k - 1 \notin stray
    BY <1>2, <1>4, <1>8, ScanAssumption
  <2>2. \A g \in ReachedFrom(d)[k] : g # d => Below(k - 1, g)
    BY <2>1
  <2>3. CASE f \in ReachedFrom(d)[k]
    <3>1. PICK q \in Entered(d) : f \in ReachedFrom(q)[k - 1]
      BY <1>3, <2>2, <2>3
    <3>2. f \in ReachedFrom(q)[k]
      BY <2>1, <3>1, ReachedGrows
    <3> QED
      BY <1>3, <3>2
  <2>4. ASSUME NEW g \in ReachedFrom(d)[k], f \in Entered(g), g # d PROVE FALSE
    <3>1. PICK q \in Entered(d) : g \in ReachedFrom(q)[k - 1]
      BY <2>2, <2>4
    <3>2. f \in ReachedFrom(q)[k]
      BY <2>1, <2>4, <3>1, ReachedLevels
    <3> QED
      BY <1>3, <3>2
  <2> QED
    BY <1>5, <1>6, <2>3, <2>4
<1> QED
  BY <1>7, <1>8

\* What is reached lies within the root and is where its path leads.
LEMMA ReachedPlaces ==
  ASSUME ScanInv, root \in Paths, tree.leads[root] = root,
         NEW n \in 1 .. MAX_SCAN_DEPTH, NEW e \in ReachedFrom(root)[n]
  PROVE  e \in Paths /\ tree.leads[e] = e /\ Within(e, root)
<1> DEFINE Fine(f) == f \in Paths /\ tree.leads[f] = f /\ Within(f, root)
           wrong == {k \in 1 .. MAX_SCAN_DEPTH : \E f \in ReachedFrom(root)[k] : ~Fine(f)}
<1> SUFFICES ASSUME wrong # {} PROVE FALSE
  OBVIOUS
<1>1. wrong \in SUBSET Nat
  OBVIOUS
<1>2. PICK k \in wrong : \A j \in wrong : k <= j
  <2> HIDE DEF wrong
  <2> QED
    BY <1>1, Least
<1>3. PICK f \in ReachedFrom(root)[k] : ~Fine(f)
  BY <1>2
<1>4. ASSUME NEW g, NEW q \in Entered(g) PROVE Fine(q)
  <2>1. PICK p \in Paths : q = tree.leads[p] /\ canonical_child_within_root(p)
    BY DEF Entered, ChildrenOf
  <2> QED
    BY <2>1, ScanAssumption DEF ScanInv, canonical_child_within_root
<1>5. CASE k = 1
  BY <1>3, <1>5, ReachedLevels, WithinItself
<1>6. CASE k # 1
  <2>1. k - 1 \in 1 .. MAX_SCAN_DEPTH - 1 /\ k - 1 + 1 = k /\ k - 1 \in 1 .. MAX_SCAN_DEPTH
        /\ k - 1 \notin wrong
    BY <1>2, <1>6, ScanAssumption
  <2>2. \A g \in ReachedFrom(root)[k - 1] : Fine(g)
    BY <2>1
  <2> HIDE DEF Fine
  <2>3. f \in ReachedFrom(root)[k - 1] \/ \E g : f \in Entered(g)
    BY <1>3, <2>1, ReachedLevels
  <2> QED
    BY <1>3, <1>4, <2>2, <2>3
<1> QED
  BY <1>5, <1>6

Scanning == {"look", "read", "list", "walk"}

\* ReachedLevels, of all folders at once.
AllLevels ==
  \A d : /\ ReachedFrom(d)[1] = {d}
         /\ \A n \in 1 .. MAX_SCAN_DEPTH - 1 :
              ReachedFrom(d)[n + 1] =
                ReachedFrom(d)[n] \cup UNION {Entered(e) : e \in ReachedFrom(d)[n]}

\* They are.
LEMMA EveryLevel == AllLevels
BY ReachedLevels DEF AllLevels

\* On one disk, what can be entered and reached stays.
LEMMA SameDisk ==
  ASSUME tree' = tree, root' = root
  PROVE  /\ \A d : Entered(d)' = Entered(d)
         /\ \A d : \A n \in 1 .. MAX_SCAN_DEPTH : ReachedFrom(d)'[n] = ReachedFrom(d)[n]
         /\ Reached' = Reached
         /\ Hopeless' = Hopeless
         /\ Expected' = Expected
         /\ \A d : ChildrenOf(d)' = ChildrenOf(d)
<1>1. \A d : Entered(d)' = Entered(d)
  BY DEF Entered, ChildrenOf, canonical_child_within_root
<1>2. ASSUME NEW d, NEW n \in 1 .. MAX_SCAN_DEPTH
      PROVE  ReachedFrom(d)'[n] = ReachedFrom(d)[n]
  <2> DEFINE differs == {k \in 1 .. MAX_SCAN_DEPTH : ReachedFrom(d)'[k] # ReachedFrom(d)[k]}
  <2> SUFFICES ASSUME differs # {} PROVE FALSE
    OBVIOUS
  <2>1. differs \in SUBSET Nat
    OBVIOUS
  <2>2. PICK k \in differs : \A j \in differs : k <= j
    <3> HIDE DEF differs
    <3> QED
      BY <2>1, Least
  <2>3. AllLevels'
    BY EveryLevel, PTL
  <2>4. k = 1 \/ (k - 1 \in 1 .. MAX_SCAN_DEPTH - 1 /\ k - 1 + 1 = k)
    BY ScanAssumption
  <2>5. ReachedFrom(d)'[k] # ReachedFrom(d)[k]
    BY <2>2
  <2>6. CASE k = 1
    BY <2>3, <2>5, <2>6, EveryLevel DEF AllLevels
  <2>7. CASE k # 1
    <3>1. k - 1 \in 1 .. MAX_SCAN_DEPTH /\ ~(k <= k - 1)
      BY <2>4, <2>7, ScanAssumption
    <3>2. ReachedFrom(d)'[k - 1] = ReachedFrom(d)[k - 1]
      BY <2>2, <3>1
    <3>3. ReachedFrom(d)[k] =
            ReachedFrom(d)[k - 1] \cup UNION {Entered(e) : e \in ReachedFrom(d)[k - 1]}
      BY <2>4, <2>7, EveryLevel DEF AllLevels
    <3>4. ReachedFrom(d)'[k] =
            ReachedFrom(d)'[k - 1] \cup UNION {Entered(e)' : e \in ReachedFrom(d)'[k - 1]}
      BY <2>3, <2>4, <2>7 DEF AllLevels
    <3>5. \A x : x \in ReachedFrom(d)'[k] <=> x \in ReachedFrom(d)[k]
      BY <1>1, <3>2, <3>3, <3>4
    <3> QED
      BY <2>5, <3>3, <3>4, <3>5
  <2> QED
    BY <2>6, <2>7
<1>3. Reached' = Reached
  <2>1. MAX_SCAN_DEPTH \in 1 .. MAX_SCAN_DEPTH
    BY ScanAssumption
  <2> QED
    BY <1>2, <2>1 DEF Reached
<1>4. Hopeless' = Hopeless
  BY <1>3 DEF Hopeless
<1>5. Expected' = Expected
  BY <1>3 DEF Expected
<1> QED
  BY <1>1, <1>2, <1>3, <1>4, <1>5 DEF ChildrenOf

\* What was searched stays so while candidates are added.
LEMMA StillLooked ==
  ASSUME tree' = tree, out \subseteq out'
  PROVE  /\ \A d, n : Looked(d, n) => Looked(d, n)'
         /\ \A d : Searched(d) => Searched(d)'
<1>1. \A d, n : Looked(d, n) => Looked(d, n)'
  BY DEF Looked
<1> QED
  BY <1>1 DEF Searched

\* An entry that is no longer left is the one being walked, or was passed over;
\* a call that has returned has searched all below it.
LEMMA CoveredStays ==
  ASSUME tree' = tree, root' = root, out \subseteq out',
         NEW i \in 1 .. MAX_SCAN_DEPTH - 1, Covered(i), stack'[i].dir = stack[i].dir,
         \A p \in stack[i].left :
           \/ p \in stack'[i].left
           \/ should_skip_directory(p) \/ ~canonical_child_within_root(p)
           \/ i < Len(stack') /\ stack'[i + 1].dir = tree.leads[p],
         i < Len(stack) =>
           \/ i < Len(stack') /\ stack'[i + 1].dir = stack[i + 1].dir
           \/ \A e \in ReachedFrom(stack[i + 1].dir)[MAX_SCAN_DEPTH - i] : Searched(e)
  PROVE  Covered(i)'
<1>1. MAX_SCAN_DEPTH - i \in 1 .. MAX_SCAN_DEPTH
  BY ScanAssumption
<1>2. PICK f : f = stack[i].dir
  OBVIOUS
<1>3. Entered(f)' = Entered(f)
  BY SameDisk
<1>4. \A d : ReachedFrom(d)'[MAX_SCAN_DEPTH - i] = ReachedFrom(d)[MAX_SCAN_DEPTH - i]
  BY <1>1, SameDisk
<1>5. \A e : Searched(e) => Searched(e)'
  BY StillLooked
<1>6. \A p : canonical_child_within_root(p)' <=> canonical_child_within_root(p)
  BY DEF canonical_child_within_root
<1>7. ASSUME NEW d \in Entered(f)
      PROVE  \/ \E p \in stack'[i].left :
                  /\ ~should_skip_directory(p) /\ canonical_child_within_root(p)
                  /\ tree.leads[p] = d
             \/ i < Len(stack') /\ stack'[i + 1].dir = d
             \/ \A e \in ReachedFrom(d)[MAX_SCAN_DEPTH - i] : Searched(e)
  BY <1>2 DEF Covered
<1> QED
  BY <1>2, <1>3, <1>4, <1>5, <1>6, <1>7 DEF Covered

\* A call that has been through its folder keeps what is known of it.
LEMMA CallStays ==
  ASSUME ScanInv, tree' = tree, root' = root, out \subseteq out',
         NEW i \in 1 .. Len(stack), CallInv(i), i < Len(stack) \/ phase = "walk",
         stack'[i].dir = stack[i].dir, stack'[i].left \subseteq stack[i].left,
         \A p \in stack[i].left :
           \/ p \in stack'[i].left
           \/ should_skip_directory(p) \/ ~canonical_child_within_root(p)
           \/ i < Len(stack') /\ stack'[i + 1].dir = tree.leads[p],
         i < Len(stack) =>
           \/ i < Len(stack') /\ stack'[i + 1].dir = stack[i + 1].dir
           \/ \A e \in ReachedFrom(stack[i + 1].dir)[MAX_SCAN_DEPTH - i] : Searched(e)
  PROVE  CallInv(i)'
<1>1. i \in 1 .. MAX_SCAN_DEPTH - 1 /\ i \in 1 .. MAX_SCAN_DEPTH
  BY ScanAssumption DEF ScanInv, MayDescend, Level
<1>2. Covered(i)'
  BY <1>1, CoveredStays DEF CallInv
<1>3. ReachedFrom(root)'[i] = ReachedFrom(root)[i]
  BY <1>1, SameDisk
<1>4. PICK f : f = stack[i].dir
  OBVIOUS
<1>5. Searched(f) => Searched(f)'
  BY StillLooked
<1>6. ChildrenOf(f)' = ChildrenOf(f)
  BY SameDisk
<1> QED
  BY <1>2, <1>3, <1>4, <1>5, <1>6 DEF CallInv

\* A step within the call on top leaves the calls below as they were.
LEMMA CallKept ==
  ASSUME ScanInv, tree' = tree, root' = root, out \subseteq out', phase' # "walk",
         NEW i \in 1 .. Len(stack), CallInv(i), stack' = stack
  PROVE  CallInv(i)'
<1>1. CASE i < Len(stack)
  BY <1>1, CallStays
<1>2. CASE ~(i < Len(stack))
  <2>1. i \in 1 .. MAX_SCAN_DEPTH
    BY ScanAssumption DEF ScanInv
  <2>2. ReachedFrom(root)'[i] = ReachedFrom(root)[i]
    BY <2>1, SameDisk
  <2> QED
    BY <1>2, <2>2 DEF CallInv
<1> QED
  BY <1>1, <1>2

\* The folder on top leads to itself, so looking at it is looking at its files.
LEMMA TopFiles ==
  ASSUME ScanInv, WalkInv, phase \in Scanning
  PROVE  /\ Len(stack) \in 1 .. MAX_SCAN_DEPTH /\ Top = stack[Len(stack)] /\ Level = Len(stack)
         /\ CallInv(Len(stack))
         /\ Top.dir \in Paths /\ tree.leads[Top.dir] = Top.dir
         /\ FilesAt(Top.dir) = tree.files[Top.dir]
         /\ Top.dir \in Reached
<1>1. Len(stack) \in 1 .. MAX_SCAN_DEPTH /\ Top = stack[Len(stack)] /\ Level = Len(stack)
  BY TopCall, ScanAssumption DEF Scanning, ScanInv, Top, Level
<1>2. CallInv(Len(stack))
  BY <1>1 DEF WalkInv
<1>3. Top.dir \in Paths /\ tree.leads[Top.dir] = Top.dir
  BY <1>1, <1>2, TopCall DEF CallInv, Scanning, Calls
<1>4. FilesAt(Top.dir) = tree.files[Top.dir]
  BY <1>3, ScanAssumption DEF FilesAt
<1>5. Top.dir \in Reached
  <2>1. Top.dir \in ReachedFrom(root)[Len(stack)]
    BY <1>1, <1>2 DEF CallInv
  <2>2. MAX_SCAN_DEPTH \in Len(stack) .. MAX_SCAN_DEPTH
    BY <1>1, ScanAssumption
  <2>3. ReachedFrom(root)[Len(stack)] \subseteq ReachedFrom(root)[MAX_SCAN_DEPTH]
    BY <1>1, <2>2, ReachedGrows
  <2> QED
    BY <2>1, <2>3 DEF Reached
<1> QED
  BY <1>1, <1>2, <1>3, <1>4, <1>5

\* The evidence files are eight, and different.
LEMMA Evidence ==
  /\ Len(EVIDENCE_FILES) = 8
  /\ \A i, j \in 1 .. Len(EVIDENCE_FILES) : EVIDENCE_FILES[i] = EVIDENCE_FILES[j] => i = j
BY DEF EVIDENCE_FILES

\* Looking at the files of a folder, one after the other.
LEMMA ExactLook == ASSUME ScanInv, WalkInv, Look PROVE WalkInv'
<1>1. /\ phase = "look" /\ phase' \in {"look", "read", "list"}
      /\ UNCHANGED <<tree, root, stack, out>>
  BY DEF Look, diskVars
<1>2. FilesAt(Top.dir) = tree.files[Top.dir] /\ Top' = Top
  BY <1>1, TopFiles DEF Scanning, Top
<1>3. at \in 1 .. Len(EVIDENCE_FILES) + 1 /\ Looked(Top.dir, at - 1)
  BY <1>1 DEF WalkInv, LookInv
<1>4. LookInv'
  <2>0. PICK d : d = Top.dir
    OBVIOUS
  <2>1. \A n : Looked(d, n) => Looked(d, n)'
    BY <1>1, StillLooked
  <2>2. CASE at > Len(EVIDENCE_FILES)
    <3>1. phase' = "list" /\ at - 1 = Len(EVIDENCE_FILES)
      BY <1>3, <2>2, Evidence DEF Look
    <3> QED
      BY <1>2, <1>3, <2>0, <2>1, <3>1 DEF LookInv, Searched
  <2>3. CASE at <= Len(EVIDENCE_FILES) /\ EVIDENCE_FILES[at] \in DOMAIN tree.files[d]
    <3>1. phase' = "read" /\ at' = at
      BY <1>2, <1>3, <2>0, <2>3, Evidence DEF Look
    <3> QED
      BY <1>1, <1>2, <1>3, <2>0, <2>1, <2>3, <3>1 DEF LookInv
  <2>4. CASE at <= Len(EVIDENCE_FILES) /\ EVIDENCE_FILES[at] \notin DOMAIN tree.files[d]
    <3>1. phase' = "look" /\ at' = at + 1
      BY <1>1, <1>2, <1>3, <2>0, <2>4, Evidence DEF Look
    <3>2. Looked(d, at)
      BY <1>3, <2>0, <2>4, Evidence DEF Looked
    <3>3. at' \in 1 .. Len(EVIDENCE_FILES) + 1 /\ at' - 1 = at
      BY <1>3, <2>4, <3>1, Evidence
    <3> QED
      BY <1>2, <2>0, <2>1, <3>1, <3>2, <3>3 DEF LookInv
  <2> QED
    BY <1>3, <2>2, <2>3, <2>4, Evidence
<1>5. FoundInv'
  BY <1>1, SameDisk DEF WalkInv, FoundInv
<1>6. \A i \in 1 .. Len(stack) : CallInv(i)'
  BY <1>1, CallKept DEF WalkInv
<1> QED
  BY <1>1, <1>4, <1>5, <1>6 DEF WalkInv

\* What was found so far stays as it was found.
LEMMA FoundKept == ASSUME tree' = tree, root' = root, out' = out, FoundInv PROVE FoundInv'
BY SameDisk DEF FoundInv

\* A file that could be read gives the first candidate of its stack.
LEMMA ExactBuild == ASSUME ScanInv, WalkInv, Build, calm PROVE ExactInv'
<1>1. /\ phase = "read" /\ UNCHANGED <<tree, root>>
      /\ at \in 1 .. 8 /\ Looked(Top.dir, at - 1)
      /\ EVIDENCE_FILES[at] \in DOMAIN tree.files[Top.dir]
  BY Evidence DEF Build, diskVars, WalkInv, LookInv
<1>2. PICK d, file : d = Top.dir /\ file = EVIDENCE_FILES[at]
  OBVIOUS
<1>3. PICK files : files = tree.files[d]
  OBVIOUS
<1>4. FilesAt(Top.dir) = files /\ d \in Reached
  BY <1>1, <1>2, <1>3, TopFiles DEF Scanning
<1>5. file \in DOMAIN files /\ file \in EvidenceIn(files)
  BY <1>1, <1>2, <1>3, Evidence DEF EvidenceIn
<1>6. \/ /\ StackOf(file) \in ReadsContent /\ ~Read(file, files)
         /\ ScanFails
      \/ /\ ~(StackOf(file) \in ReadsContent /\ ~Read(file, files))
         /\ AddOnce(Candidate(d, file, files))
         /\ at' = at + 1 /\ phase' = "look" /\ stack' = stack
  BY <1>2, <1>4, <1>5 DEF Build
<1>7. CASE StackOf(file) \in ReadsContent /\ ~Read(file, files) /\ ScanFails
  <2>1. Unreadable \in files[file]
    BY <1>5, <1>7 DEF Read
  <2>2. Hopeless
    BY <1>3, <1>4, <1>5, <1>7, <2>1 DEF Hopeless
  <2>3. phase' = "failed" /\ Hopeless'
    BY <1>1, <1>7, <2>2, SameDisk DEF ScanFails
  <2> QED
    BY <2>3 DEF ExactInv, ScanExact
<1>8. CASE /\ ~(StackOf(file) \in ReadsContent /\ ~Read(file, files))
           /\ AddOnce(Candidate(d, file, files))
           /\ at' = at + 1 /\ phase' = "look" /\ stack' = stack
  <2>1. PICK new : new = Candidate(d, file, files)
    OBVIOUS
  <2>2. new.dir = d /\ new.stack = StackOf(file)
    BY <2>1 DEF Candidate
  <2>3. out' = IF \E c \in out : c.dir = d /\ c.stack = StackOf(file)
               THEN out ELSE out \cup {new}
    BY <1>8, <2>1, <2>2 DEF AddOnce
  <2>4. out \subseteq out' /\ \E c \in out' : c.dir = d /\ c.stack = StackOf(file)
    BY <2>2, <2>3
  <2>5. Top' = Top /\ Len(stack) \in Nat
    BY <1>1, <1>8, TopFiles DEF Top, Scanning
  <2>6. LookInv'
    <3>0. PICK n : n = at
      OBVIOUS
    <3>1. Looked(d, n - 1)'
      BY <1>1, <1>2, <2>4, <3>0, StillLooked
    <3>2. tree'.files[d] = files
      BY <1>1, <1>3
    <3>3. ASSUME NEW i \in 1 .. n, EVIDENCE_FILES[i] \in DOMAIN files
          PROVE  /\ StackOf(EVIDENCE_FILES[i]) \in ReadsContent =>
                      Unreadable \notin files[EVIDENCE_FILES[i]]
                 /\ \E c \in out' : c.dir = d /\ c.stack = StackOf(EVIDENCE_FILES[i])
      <4>1. CASE i < n
        <5>1. i \in 1 .. n - 1
          BY <1>1, <3>0, <4>1
        <5> QED
          BY <3>1, <3>2, <3>3, <5>1 DEF Looked
      <4>2. CASE i = n
        BY <1>2, <1>5, <1>8, <2>4, <3>0, <4>2 DEF Read
      <4> QED
        BY <1>1, <3>0, <4>1, <4>2
    <3>4. Looked(d, n)'
      BY <3>2, <3>3 DEF Looked
    <3>5. at' \in 1 .. 9 /\ at' - 1 = n /\ Top'.dir = d
      BY <1>1, <1>2, <1>8, <2>5, <3>0
    <3> QED
      BY <1>1, <1>8, <3>4, <3>5, Evidence DEF LookInv
  <2>7. FoundInv'
    <3>1. ASSUME NEW c \in out
          PROVE  /\ c.dir \in Reached'
                 /\ \E f \in FirstEvidence(tree'.files[c.dir]) :
                      c = Candidate(c.dir, f, tree'.files[c.dir])
      BY <1>1, SameDisk DEF WalkInv, FoundInv
    <3>2. ASSUME ~ \E c \in out : c.dir = d /\ c.stack = StackOf(file)
          PROVE  file \in FirstEvidence(files)
      <4> SUFFICES ASSUME NEW i \in 1 .. Len(EVIDENCE_FILES), NEW j \in 1 .. Len(EVIDENCE_FILES),
                          EVIDENCE_FILES[i] \in DOMAIN files, EVIDENCE_FILES[j] = file,
                          StackOf(EVIDENCE_FILES[i]) = StackOf(file)
                   PROVE  j <= i
        BY <1>5 DEF FirstEvidence
      <4>1. j = at
        BY <1>1, <1>2, Evidence
      <4>2. ~(i \in 1 .. at - 1)
        BY <1>1, <1>2, <1>3, <3>2 DEF Looked
      <4> QED
        BY <1>1, <4>1, <4>2, Evidence
    <3>3. ASSUME ~ \E c \in out : c.dir = d /\ c.stack = StackOf(file)
          PROVE  /\ new.dir \in Reached'
                 /\ \E f \in FirstEvidence(tree'.files[new.dir]) :
                      new = Candidate(new.dir, f, tree'.files[new.dir])
      BY <1>1, <1>3, <1>4, <2>1, <2>2, <3>2, <3>3, SameDisk
    <3> QED
      BY <2>3, <3>1, <3>3 DEF FoundInv
  <2>8. \A i \in 1 .. Len(stack) : CallInv(i)'
    BY <1>1, <1>8, <2>4, CallKept DEF WalkInv
  <2>9. WalkInv'
    BY <1>1, <1>8, <2>6, <2>7, <2>8 DEF WalkInv
  <2> QED
    BY <1>8, <2>9 DEF ExactInv, ScanExact
<1> QED
  BY <1>6, <1>7, <1>8

\* A folder leads to its entries.
LEMMA EntryReached ==
  ASSUME NEW d, NEW i \in 1 .. MAX_SCAN_DEPTH - 1, d \in ReachedFrom(root)[i], NEW e \in Entered(d)
  PROVE  e \in ReachedFrom(root)[i + 1]
BY ReachedLevels

\* Everything below a folder that has no entries left has been searched.
LEMMA AllBelow ==
  ASSUME ScanInv, WalkInv, phase = "walk", Top.left = {}
  PROVE  \A e \in ReachedFrom(Top.dir)[MAX_SCAN_DEPTH - Level + 1] : Searched(e)
<1>1. /\ Level \in 1 .. MAX_SCAN_DEPTH - 1 /\ Level = Len(stack) /\ CallInv(Level)
      /\ Top = stack[Level]
  BY TopFiles, ScanAssumption DEF Scanning, ScanInv, MayDescend
<1>2. Searched(Top.dir) /\ Covered(Level)
  BY <1>1 DEF CallInv
<1>3. \A d \in Entered(Top.dir) : \A e \in ReachedFrom(d)[MAX_SCAN_DEPTH - Level] : Searched(e)
  BY <1>1, <1>2 DEF Covered
<1>4. MAX_SCAN_DEPTH - Level \in 1 .. MAX_SCAN_DEPTH - 1
  BY <1>1, ScanAssumption
<1> QED
  BY <1>2, <1>3, <1>4, ReachedDown

\* Which evidence file belongs to a Java build.
LEMMA JavaEvidence ==
  \A i \in 1 .. Len(EVIDENCE_FILES) :
    /\ StackOf(EVIDENCE_FILES[i]) = "maven" <=> EVIDENCE_FILES[i] = "pom.xml"
    /\ StackOf(EVIDENCE_FILES[i]) = "gradle" <=>
         EVIDENCE_FILES[i] \in {"build.gradle", "build.gradle.kts"}
<1> SUFFICES ASSUME NEW i \in 1 .. 8
             PROVE  /\ StackOf(EVIDENCE_FILES[i]) = "maven" <=> EVIDENCE_FILES[i] = "pom.xml"
                    /\ StackOf(EVIDENCE_FILES[i]) = "gradle" <=>
                         EVIDENCE_FILES[i] \in {"build.gradle", "build.gradle.kts"}
  BY Evidence
<1>1. \/ EVIDENCE_FILES[i] = "package.json" \/ EVIDENCE_FILES[i] = "pom.xml"
      \/ EVIDENCE_FILES[i] = "build.gradle" \/ EVIDENCE_FILES[i] = "build.gradle.kts"
      \/ EVIDENCE_FILES[i] = "requirements.txt" \/ EVIDENCE_FILES[i] = "pyproject.toml"
      \/ EVIDENCE_FILES[i] = "composer.json" \/ EVIDENCE_FILES[i] = "Cargo.toml"
  BY DEF EVIDENCE_FILES
<1> QED
  BY <1>1 DEF StackOf

\* If each folder in reach was searched, its candidates are those of its first
\* evidence of each stack.
LEMMA FoundAll ==
  ASSUME ScanInv, FoundInv, \A d \in Reached : Searched(d)
  PROVE  \A c : c \in out <=>
           \E d \in Reached : \E file \in FirstEvidence(tree.files[d]) :
             c = Candidate(d, file, tree.files[d])
<1>2. ASSUME NEW c \in out
      PROVE  \E d \in Reached : \E file \in FirstEvidence(tree.files[d]) :
               c = Candidate(d, file, tree.files[d])
  BY DEF FoundInv
<1>3. ASSUME NEW d \in Reached, NEW file \in FirstEvidence(tree.files[d])
      PROVE  Candidate(d, file, tree.files[d]) \in out
  <2>1. PICK j \in 1 .. Len(EVIDENCE_FILES) :
          file = EVIDENCE_FILES[j] /\ file \in DOMAIN tree.files[d]
    BY DEF FirstEvidence, EvidenceIn
  <2>2. PICK c \in out : c.dir = d /\ c.stack = StackOf(file)
    BY <2>1 DEF Searched, Looked
  <2>3. PICK other \in FirstEvidence(tree.files[d]) : c = Candidate(d, other, tree.files[d])
    BY <2>2 DEF FoundInv
  <2>4. StackOf(other) = StackOf(file)
    BY <2>2, <2>3 DEF Candidate
  <2>5. PICK k \in 1 .. Len(EVIDENCE_FILES) :
          other = EVIDENCE_FILES[k] /\ other \in DOMAIN tree.files[d]
    BY <2>3 DEF FirstEvidence, EvidenceIn
  <2>6. j <= k /\ k <= j
    BY <2>1, <2>3, <2>4, <2>5 DEF FirstEvidence
  <2>7. j = k
    BY <2>6, Evidence
  <2> QED
    BY <2>1, <2>2, <2>3, <2>5, <2>7
<1> QED
  BY <1>2, <1>3

\* Two Java builds are found in a folder that has them.
LEMMA FoundBuilds ==
  ASSUME ScanInv, FoundInv, NEW d \in Reached, Searched(d)
  PROVE  JavaBuilds \subseteq {c.stack : c \in {e \in out : e.dir = d}}
           <=> TwoJavaBuilds(tree.files[d])
<1>1. ASSUME NEW c \in out, c.dir = d
      PROVE  \E i \in 1 .. Len(EVIDENCE_FILES) :
               EVIDENCE_FILES[i] \in DOMAIN tree.files[d] /\ c.stack = StackOf(EVIDENCE_FILES[i])
  BY <1>1 DEF FoundInv, FirstEvidence, EvidenceIn, Candidate
<1>2. ASSUME NEW i \in 1 .. Len(EVIDENCE_FILES), EVIDENCE_FILES[i] \in DOMAIN tree.files[d]
      PROVE  \E c \in out : c.dir = d /\ c.stack = StackOf(EVIDENCE_FILES[i])
  BY <1>2 DEF Searched, Looked
<1>3. /\ 2 \in 1 .. Len(EVIDENCE_FILES) /\ EVIDENCE_FILES[2] = "pom.xml"
      /\ 3 \in 1 .. Len(EVIDENCE_FILES) /\ EVIDENCE_FILES[3] = "build.gradle"
      /\ 4 \in 1 .. Len(EVIDENCE_FILES) /\ EVIDENCE_FILES[4] = "build.gradle.kts"
  BY DEF EVIDENCE_FILES
<1>4. (\E c \in out : c.dir = d /\ c.stack = "maven") <=> "pom.xml" \in DOMAIN tree.files[d]
  BY <1>1, <1>2, <1>3, JavaEvidence
<1>5. (\E c \in out : c.dir = d /\ c.stack = "gradle") <=>
        {"build.gradle", "build.gradle.kts"} \cap DOMAIN tree.files[d] # {}
  BY <1>1, <1>2, <1>3, JavaEvidence
<1> QED
  BY <1>4, <1>5 DEF JavaBuilds, TwoJavaBuilds

\* With the conflicts marked, that is what a scan has to find.
LEMMA MarkedIsExpected ==
  ASSUME ScanInv, FoundInv, \A d \in Reached : Searched(d)
  PROVE  Marked(out) = Expected
<1> DEFINE F(d) == tree.files[d]
           Conflict(c) == [c EXCEPT !.status = "CONFLICT", !.group = <<"java-build-system", c.dir>>]
           Shown(c) == IF c.stack \in JavaBuilds /\ TwoJavaBuilds(F(c.dir)) THEN Conflict(c) ELSE c
<1>1. \A c \in out : c.dir \in Reached
  BY DEF FoundInv
<1>2. \A d \in Reached : JavaBuilds \subseteq {c.stack : c \in {e \in out : e.dir = d}}
                          <=> TwoJavaBuilds(F(d))
  BY FoundBuilds
<1>3. Marked(out) = {Shown(c) : c \in out}
  <2> DEFINE Builds(d) == {c.stack : c \in {e \in out : e.dir = d}}
             Mark(c) == IF c.stack \in JavaBuilds /\ JavaBuilds \subseteq Builds(c.dir)
                        THEN Conflict(c) ELSE c
  <2>1. Marked(out) = {Mark(c) : c \in out}
    BY DEF Marked
  <2>2. \A c \in out : Mark(c) = Shown(c)
    BY <1>1, <1>2
  <2> HIDE DEF Mark, Shown
  <2> QED
    BY <2>1, <2>2
<1> DEFINE Of(d) == {Shown(Candidate(d, file, F(d))) : file \in FirstEvidence(F(d))}
<1>4. Expected = UNION {Of(d) : d \in Reached}
  <2> DEFINE Item(d, file) ==
               LET c == Candidate(d, file, tree.files[d]) IN
               IF c.stack \in JavaBuilds /\ TwoJavaBuilds(tree.files[d])
               THEN [c EXCEPT !.status = "CONFLICT", !.group = <<"java-build-system", d>>] ELSE c
             Items(d) == {Item(d, file) : file \in FirstEvidence(tree.files[d])}
  <2>1. Expected = UNION {Items(d) : d \in Reached}
    BY DEF Expected
  <2>2. ASSUME NEW d, NEW file
        PROVE  Item(d, file) = Shown(Candidate(d, file, F(d)))
    <3>1. PICK c : c = Candidate(d, file, F(d))
      OBVIOUS
    <3>2. c.dir = d
      BY <3>1 DEF Candidate
    <3> QED
      BY <3>1, <3>2
  <2> HIDE DEF Item, Shown
  <2>3. \A d : Items(d) = Of(d)
    BY <2>2
  <2> HIDE DEF Items, Of
  <2> QED
    BY <2>1, <2>3
<1>5. \A c : c \in out <=>
        \E d \in Reached : \E file \in FirstEvidence(F(d)) : c = Candidate(d, file, F(d))
  BY FoundAll
<1> HIDE DEF Shown
<1>6. {Shown(c) : c \in out} = UNION {Of(d) : d \in Reached}
  BY <1>5
<1> QED
  BY <1>3, <1>4, <1>6

\* Returning from a call: below its folder everything has been searched.
LEMMA ExactReturn ==
  ASSUME ScanInv, WalkInv, calm, phase \in {"list", "walk"}, Return, tree' = tree, root' = root,
         \A e \in ReachedFrom(Top.dir)[MAX_SCAN_DEPTH - Level + 1] : Searched(e),
         Level = 1 => root \notin tree.unlisted \/ MAX_SCAN_DEPTH = 1
  PROVE  ExactInv'
<1>1. /\ Level \in 1 .. MAX_SCAN_DEPTH /\ Level = Len(stack) /\ Top = stack[Level]
      /\ MAX_SCAN_DEPTH \in Nat
  BY TopFiles, ScanAssumption DEF Scanning
<1>2. tree.leads[root] = root /\ root \in Paths /\ FoundInv
  BY DEF WalkInv, ScanInv
<1>3. CASE Level = 1
  <2>1. stack[1].dir = root /\ MAX_SCAN_DEPTH - Level + 1 = MAX_SCAN_DEPTH
    BY <1>1, <1>3 DEF WalkInv
  <2>2. \A d \in Reached : Searched(d)
    BY <1>1, <1>3, <2>1 DEF Reached
  <2>3. phase' = "done" /\ out' = Expected
    BY <1>2, <1>3, <2>2, MarkedIsExpected DEF Return
  <2>4. ~Hopeless
    <3>1. ASSUME NEW d \in Reached, NEW file \in EvidenceIn(tree.files[d]),
                 Unreadable \in tree.files[d][file], StackOf(file) \in ReadsContent
          PROVE  FALSE
      <4>1. PICK i \in 1 .. Len(EVIDENCE_FILES) :
              file = EVIDENCE_FILES[i] /\ file \in DOMAIN tree.files[d]
        BY DEF EvidenceIn
      <4> QED
        BY <2>2, <3>1, <4>1 DEF Searched, Looked
    <3> QED
      BY <1>2, <1>3, <3>1, ScanAssumption DEF Hopeless
  <2>5. Expected' = Expected /\ ~Hopeless'
    BY <2>4, SameDisk
  <2> QED
    BY <1>2, <2>3, <2>5 DEF ExactInv, ScanExact
<1>4. CASE Level > 1
  <2>1. /\ phase' = "walk" /\ out' = out
        /\ Len(stack') = Level - 1
        /\ \A i \in 1 .. Len(stack') : stack'[i] = stack[i]
    BY <1>4, Popped DEF Return
  <2>2. ASSUME NEW i \in 1 .. Len(stack')
        PROVE  CallInv(i)'
    <3>1. i \in 1 .. Len(stack) /\ i < Len(stack) /\ CallInv(i) /\ stack'[i] = stack[i]
      BY <1>1, <1>4, <2>1 DEF WalkInv
    <3>2. \/ i < Len(stack') /\ stack'[i + 1].dir = stack[i + 1].dir
          \/ \A e \in ReachedFrom(stack[i + 1].dir)[MAX_SCAN_DEPTH - i] : Searched(e)
      <4>1. CASE i < Level - 1
        BY <1>1, <2>1, <4>1
      <4>2. CASE i = Level - 1
        <5>1. i + 1 = Level /\ MAX_SCAN_DEPTH - Level + 1 = MAX_SCAN_DEPTH - i
          BY <1>1, <4>2
        <5> QED
          BY <1>1, <5>1
      <4> QED
        BY <1>1, <2>1, <4>1, <4>2
    <3> QED
      BY <2>1, <3>1, <3>2, CallStays
  <2>3. stack'[1].dir = root
    BY <1>1, <1>4, <2>1 DEF WalkInv
  <2>4. LookInv'
    BY <2>1 DEF LookInv
  <2>5. FoundInv'
    BY <1>2, <2>1, FoundKept
  <2>6. WalkInv'
    BY <1>2, <2>2, <2>3, <2>4, <2>5 DEF WalkInv
  <2> QED
    BY <2>1, <2>6 DEF ExactInv, ScanExact
<1> QED
  BY <1>1, <1>3, <1>4

\* A folder is listed after its files, unless it is too deep or cannot be.
LEMMA ExactList == ASSUME ScanInv, WalkInv, List, calm PROVE ExactInv'
<1>1. /\ phase = "list" /\ UNCHANGED <<tree, root>>
      /\ Level \in 1 .. MAX_SCAN_DEPTH /\ Level = Len(stack) /\ Top = stack[Level]
      /\ CallInv(Level) /\ Top.dir \in Paths /\ tree.leads[Top.dir] = Top.dir
      /\ Searched(Top.dir)
      /\ MAX_SCAN_DEPTH \in Nat
  BY TopFiles, ScanAssumption DEF List, diskVars, Scanning, WalkInv, LookInv
<1>2. Listable(Top.dir) <=> Top.dir \notin tree.unlisted
  BY <1>1, ScanAssumption DEF Listable
<1>3. CASE ~MayDescend /\ Return
  <2>1. MAX_SCAN_DEPTH - Level + 1 = 1 /\ (Level = 1 => MAX_SCAN_DEPTH = 1)
    BY <1>1, <1>3 DEF MayDescend
  <2>2. \A e \in ReachedFrom(Top.dir)[MAX_SCAN_DEPTH - Level + 1] : Searched(e)
    BY <1>1, <2>1, ReachedLevels
  <2> QED
    BY <1>1, <1>3, <2>1, <2>2, ExactReturn
<1>4. CASE MayDescend /\ ~Listable(Top.dir) /\ Level = 1 /\ ScanFails
  <2>1. Top.dir = root /\ MAX_SCAN_DEPTH > 1
    BY <1>1, <1>4 DEF WalkInv, MayDescend
  <2>2. Hopeless
    BY <1>2, <1>4, <2>1 DEF Hopeless
  <2>3. phase' = "failed" /\ Hopeless'
    BY <1>1, <1>4, <2>2, SameDisk DEF ScanFails
  <2> QED
    BY <2>3 DEF ExactInv, ScanExact
<1>5. CASE MayDescend /\ ~Listable(Top.dir) /\ Level # 1 /\ Return
  <2>1. Entered(Top.dir) = {}
    BY <1>2, <1>5 DEF Entered
  <2>2. MAX_SCAN_DEPTH - Level \in 1 .. MAX_SCAN_DEPTH - 1
    BY <1>1, <1>5 DEF MayDescend
  <2>3. \A e \in ReachedFrom(Top.dir)[MAX_SCAN_DEPTH - Level + 1] : e = Top.dir
    BY <2>1, <2>2, ReachedDown
  <2> QED
    BY <1>1, <1>5, <2>3, ExactReturn
<1>6. ASSUME MayDescend, Listable(Top.dir), NEW entries \in Listings(Top.dir),
             stack' = [stack EXCEPT ![Level].left = entries],
             phase' = "walk", out' = out
      PROVE  ExactInv'
  <2>0. /\ entries \in SUBSET ChildrenOf(Top.dir)
        /\ \A p \in ChildrenOf(Top.dir) : tree.leads[p] # Nowhere => p \in entries
    BY <1>6 DEF Listings
  <2>1. PICK l, d : l = Level /\ d = Top.dir
    OBVIOUS
  <2>2. /\ Len(stack') = Len(stack)
        /\ \A i \in 1 .. Len(stack) : stack'[i].dir = stack[i].dir
        /\ \A i \in 1 .. Len(stack) : i # l => stack'[i] = stack[i]
        /\ stack'[l].left = entries
    <3>1. stack \in Seq(Calls)
      BY DEF ScanInv, Calls
    <3>2. stack[Level] \in Calls
      BY <1>1, <3>1
    <3> DEFINE frame == [stack[Level] EXCEPT !.left = entries]
    <3>3. frame.dir = stack[Level].dir /\ frame.left = entries
      BY <2>1, <3>2 DEF Calls
    <3>4. stack' = [stack EXCEPT ![Level] = frame]
      BY <1>6
    <3> HIDE DEF frame
    <3> QED
      BY <1>1, <2>1, <3>1, <3>3, <3>4
  <2>3. ASSUME NEW i \in 1 .. Len(stack), i # l
        PROVE  CallInv(i)'
    <3>1. i < Len(stack) /\ CallInv(i) /\ stack'[i] = stack[i] /\ stack'[i + 1].dir = stack[i + 1].dir
      BY <1>1, <2>1, <2>2, <2>3 DEF WalkInv
    <3> QED
      BY <1>1, <1>6, <2>2, <3>1, CallStays
  <2>4. CallInv(l)'
    <3>1. /\ tree.leads[d] = d /\ d \in ReachedFrom(root)[l] /\ Searched(d) /\ d \notin tree.unlisted
      BY <1>1, <1>2, <1>6, <2>1 DEF CallInv
    <3>2. stack'[l].dir = d /\ l \in 1 .. MAX_SCAN_DEPTH
      BY <1>1, <2>1, <2>2
    <3>3. /\ Searched(d)' /\ ChildrenOf(d)' = ChildrenOf(d)
          /\ ReachedFrom(root)'[l] = ReachedFrom(root)[l]
          /\ Entered(d)' = Entered(d)
      BY <1>1, <1>6, <3>1, <3>2, SameDisk, StillLooked
    <3>4. \A e \in Entered(d) : \E p \in stack'[l].left :
            ~should_skip_directory(p) /\ canonical_child_within_root(p) /\ tree.leads[p] = e
      BY <2>0, <2>1, <2>2 DEF Entered, canonical_child_within_root
    <3>5. \A p : canonical_child_within_root(p)' <=> canonical_child_within_root(p)
      BY <1>1 DEF canonical_child_within_root
    <3>6. Covered(l)'
      BY <1>1, <3>2, <3>3, <3>4, <3>5 DEF Covered
    <3>7. stack'[l].left \subseteq ChildrenOf(d)
      BY <2>0, <2>1, <2>2
    <3> QED
      BY <1>1, <3>1, <3>2, <3>3, <3>6, <3>7 DEF CallInv
  <2>5. stack'[1].dir = root /\ tree.leads[root] = root
    BY <1>1, <2>2 DEF WalkInv
  <2>6. LookInv' /\ FoundInv'
    BY <1>1, <1>6, FoundKept DEF LookInv, WalkInv
  <2>7. WalkInv'
    BY <1>1, <2>2, <2>3, <2>4, <2>5, <2>6 DEF WalkInv
  <2> QED
    BY <1>6, <2>7 DEF ExactInv, ScanExact
<1> QED
  BY <1>3, <1>4, <1>5, <1>6 DEF List

\* Walking the entries of a folder, in any order.
LEMMA ExactWalk == ASSUME ScanInv, WalkInv, Walk, calm PROVE ExactInv'
<1>1. /\ phase = "walk" /\ UNCHANGED <<tree, root>>
      /\ Level \in 1 .. MAX_SCAN_DEPTH - 1 /\ Level = Len(stack) /\ Top = stack[Level]
      /\ CallInv(Level)
      /\ MAX_SCAN_DEPTH \in Nat
      /\ stack \in Seq(Calls)
  BY TopFiles, ScanAssumption DEF Walk, diskVars, Scanning, ScanInv, MayDescend, Calls
<1>2. CASE Top.left = {} /\ Return
  <2>1. Level = 1 => root \notin tree.unlisted
    BY <1>1 DEF CallInv, WalkInv
  <2> QED
    BY <1>1, <1>2, <2>1, AllBelow, ExactReturn
<1>3. ASSUME NEW p \in Top.left, out' = out,
             LET rest == [stack EXCEPT ![Level].left = @ \ {p}] IN
               IF ~should_skip_directory(p) /\ canonical_child_within_root(p)
               THEN stack' = Append(rest, Call(tree.leads[p])) /\ phase' = "look" /\ at' = 1
               ELSE stack' = rest /\ UNCHANGED <<phase, at>>
      PROVE  ExactInv'
  <2>1. PICK l, d : l = Level /\ d = stack[Level].dir
    OBVIOUS
  <2> DEFINE frame == [stack[Level] EXCEPT !.left = @ \ {p}]
             rest  == [stack EXCEPT ![Level] = frame]
  <2>2. stack[Level] \in Calls
    BY <1>1
  <2>3. frame \in Calls /\ frame.dir = d /\ frame.left = stack[l].left \ {p}
    BY <2>1, <2>2 DEF Calls
  <2> HIDE DEF frame
  <2>4. /\ rest \in Seq(Calls) /\ Len(rest) = Len(stack)
        /\ \A i \in 1 .. Len(stack) : rest[i].dir = stack[i].dir
        /\ \A i \in 1 .. Len(stack) : i # l => rest[i] = stack[i]
        /\ rest[l].left = stack[l].left \ {p}
    BY <1>1, <2>1, <2>3
  <2>5. rest = [stack EXCEPT ![Level].left = @ \ {p}]
    BY <1>1 DEF frame
  <2> HIDE DEF rest
  <2>6. FoundInv' /\ tree.leads[root] = root /\ stack[1].dir = root
    BY <1>1, <1>3, FoundKept DEF WalkInv
  <2>7. CASE /\ ~(~should_skip_directory(p) /\ canonical_child_within_root(p))
             /\ stack' = rest /\ UNCHANGED <<phase, at>>
    <3>1. ASSUME NEW i \in 1 .. Len(stack)
          PROVE  CallInv(i)'
      <4>1. CallInv(i) /\ stack'[i].left \subseteq stack[i].left
        BY <2>4, <2>7 DEF WalkInv
      <4>2. \A q \in stack[i].left :
              \/ q \in stack'[i].left
              \/ should_skip_directory(q) \/ ~canonical_child_within_root(q)
        BY <2>4, <2>7
      <4>3. i < Len(stack) => i < Len(stack') /\ stack'[i + 1].dir = stack[i + 1].dir
        BY <1>1, <2>4, <2>7
      <4> QED
        BY <1>1, <1>3, <2>4, <2>7, <4>1, <4>2, <4>3, CallStays
    <3>2. LookInv'
      BY <1>1, <2>7 DEF LookInv
    <3>3. stack'[1].dir = root
      BY <1>1, <2>4, <2>6, <2>7
    <3>4. WalkInv'
      BY <1>1, <2>4, <2>6, <2>7, <3>1, <3>2, <3>3 DEF WalkInv
    <3> QED
      BY <1>1, <2>7, <3>4 DEF ExactInv, ScanExact
  <2>8. CASE /\ ~should_skip_directory(p) /\ canonical_child_within_root(p)
             /\ stack' = Append(rest, Call(tree.leads[p])) /\ phase' = "look" /\ at' = 1
    <3>1. p \in ChildrenOf(d) /\ d \notin tree.unlisted /\ d \in ReachedFrom(root)[l]
      BY <1>1, <1>3, <2>1 DEF CallInv
    <3>2. PICK e : e = tree.leads[p]
      OBVIOUS
    <3>3. e \in Entered(d) /\ tree.leads[e] = e
      BY <2>8, <3>1, <3>2, ScanAssumption DEF Entered, ScanInv, ChildrenOf, canonical_child_within_root
    <3>4. e \in ReachedFrom(root)[l + 1]
      BY <1>1, <2>1, <3>1, <3>3, EntryReached
    <3>5. /\ Len(stack') = l + 1 /\ stack'[l + 1].dir = e
          /\ \A i \in 1 .. l : stack'[i] = rest[i]
      <4>1. Call(e).dir = e
        BY DEF Call
      <4> QED
        BY <1>1, <2>1, <2>4, <2>8, <3>2, <4>1
    <3>6. ASSUME NEW i \in 1 .. l
          PROVE  CallInv(i)'
      <4>1. CallInv(i) /\ stack'[i].left \subseteq stack[i].left /\ stack'[i].dir = stack[i].dir
        BY <1>1, <2>1, <2>4, <3>5 DEF WalkInv
      <4>2. \A q \in stack[i].left :
              \/ q \in stack'[i].left
              \/ i < Len(stack') /\ stack'[i + 1].dir = tree.leads[q]
        BY <1>1, <2>1, <2>4, <3>2, <3>5
      <4>3. i < Len(stack) => i < Len(stack') /\ stack'[i + 1].dir = stack[i + 1].dir
        BY <1>1, <2>1, <2>4, <3>5
      <4>4. i \in 1 .. Len(stack) /\ (i < Len(stack) \/ phase = "walk")
        BY <1>1, <2>1
      <4> QED
        BY <1>1, <1>3, <4>1, <4>2, <4>3, <4>4, CallStays
    <3>7. CallInv(l + 1)'
      <4>1. l + 1 \in 1 .. MAX_SCAN_DEPTH
        BY <1>1, <2>1
      <4>2. ReachedFrom(root)'[l + 1] = ReachedFrom(root)[l + 1]
        BY <1>1, <4>1, SameDisk
      <4> QED
        BY <1>1, <2>8, <3>3, <3>4, <3>5, <4>2 DEF CallInv
    <3>8. LookInv'
      BY <2>8, Evidence DEF LookInv, Looked
    <3>9. \A i \in 1 .. Len(stack') : CallInv(i)'
      BY <1>1, <2>1, <3>5, <3>6, <3>7
    <3>10. stack'[1].dir = root
      BY <1>1, <2>1, <2>4, <2>6, <3>5
    <3>11. WalkInv'
      BY <1>1, <2>6, <3>8, <3>9, <3>10 DEF WalkInv
    <3> QED
      BY <2>8, <3>11 DEF ExactInv, ScanExact
  <2> QED
    BY <1>3, <2>5, <2>7, <2>8
<1> QED
  BY <1>2, <1>3 DEF Walk

\* A scan begins with the folder its root leads to.
LEMMA ExactBegin == ASSUME ScanInv, NEW p \in ProjectPaths, ScanBegin(p) PROVE ExactInv'
<1>1. p \in Paths /\ tree.leads[p] \in Paths \cup {Nowhere} /\ tree' = tree /\ root' = tree.leads[p]
  BY ScanAssumption DEF ScanInv, ScanBegin
<1>2. CASE tree.leads[p] = Nowhere
  BY <1>1, <1>2 DEF ScanBegin, ExactInv, ScanExact, Hopeless
<1>3. CASE tree.leads[p] # Nowhere
  <2>1. PICK r : r = tree.leads[p]
    OBVIOUS
  <2>2. stack' = <<Call(r)>> /\ root' = r /\ phase' = "look" /\ at' = 1 /\ out' = {}
    BY <1>1, <1>3, <2>1 DEF ScanBegin
  <2>3. tree'.leads[r] = r
    BY <1>1, <1>3, <2>1, ScanAssumption DEF ScanInv
  <2>4. Len(stack') = 1 /\ stack'[1].dir = r
    BY <2>2 DEF Call
  <2>5. AllLevels'
    BY EveryLevel, PTL
  <2>6. r \in ReachedFrom(r)'[1]
    BY <2>5 DEF AllLevels
  <2>7. CallInv(1)'
    BY <2>2, <2>3, <2>4, <2>6 DEF CallInv
  <2>8. LookInv' /\ FoundInv'
    BY <2>2, Evidence DEF LookInv, Looked, FoundInv
  <2>9. \A i \in 1 .. Len(stack') : CallInv(i)'
    BY <2>4, <2>7
  <2>10. WalkInv'
    BY <2>2, <2>3, <2>4, <2>8, <2>9 DEF WalkInv
  <2> QED
    BY <2>2, <2>10 DEF ExactInv, ScanExact
<1> QED
  BY <1>2, <1>3

\* What is known of a scan is about its own variables and the disk.
LEMMA ExactFrame == ASSUME ScanInv, ExactInv, UNCHANGED <<scanVars, diskVars>> PROVE ExactInv'
<1>1. UNCHANGED <<tree, calm, phase, root, stack, at, out>>
  BY DEF scanVars, diskVars
<1>2. Reached' = Reached /\ Hopeless' = Hopeless /\ Expected' = Expected
  BY <1>1, SameDisk
<1>3. ScanExact'  <=> ScanExact
  BY <1>1, <1>2 DEF ScanExact
<1>4. ASSUME WalkInv, phase \in Scanning
      PROVE  WalkInv'
  <2>1. ASSUME NEW i \in 1 .. Len(stack) PROVE CallInv(i)'
    <3>1. CallInv(i)
      BY <1>4 DEF WalkInv
    <3>2. CASE phase = "walk"
      BY <1>1, <3>1, <3>2, CallStays
    <3>3. CASE phase # "walk"
      BY <1>1, <3>1, <3>3, CallKept
    <3> QED
      BY <3>2, <3>3
  <2>2. \A n : \A d : Looked(d, n)' <=> Looked(d, n)
    BY <1>1 DEF Looked
  <2>3. LookInv'
    BY <1>1, <1>4, <2>2 DEF LookInv, WalkInv, Searched, Top
  <2>4. FoundInv'
    BY <1>1, <1>4, FoundKept DEF WalkInv
  <2> QED
    BY <1>1, <1>4, <2>1, <2>3, <2>4 DEF WalkInv
<1> QED
  BY <1>1, <1>3, <1>4 DEF ExactInv, Scanning

\* Every step of a scan keeps it exact while the disk is at rest.
LEMMA ExactKept == ASSUME ScanInv, ExactInv, ScanNext PROVE ExactInv'
<1>1. ASSUME ~calm, calm' = calm PROVE ExactInv'
  BY <1>1 DEF ExactInv
<1>2. CASE ScanStep
  <2>1. calm' = calm /\ phase \in Scanning
    BY <1>2 DEF ScanStep, Look, Build, List, Walk, diskVars, Scanning
  <2>2. CASE calm
    <3>1. WalkInv
      BY <2>1, <2>2 DEF ExactInv, Scanning
    <3>2. CASE Look
      <4>1. WalkInv' /\ phase' \notin {"done", "failed"}
        BY <3>1, <3>2, ExactLook DEF Look
      <4> QED
        BY <4>1 DEF ExactInv, ScanExact
    <3> QED
      BY <1>2, <2>2, <3>1, <3>2, ExactBuild, ExactList, ExactWalk DEF ScanStep
  <2> QED
    BY <1>1, <2>1, <2>2
<1>3. CASE ScanLeave
  BY <1>3 DEF ScanLeave, ExactInv, ScanExact
<1> QED
  BY <1>2, <1>3, ExactBegin DEF ScanNext

-----------------------------------------------------------------------------
(* The command policy.                                                     *)

\* Trimming takes the part from the first to the last character that is no blank.
LEMMA TrimmedPart ==
  ASSUME NEW c \in Seq(STRING), Trimmed(c) # <<>>
  PROVE  \E a, b \in 1 .. Len(c) :
           /\ a <= b
           /\ Trimmed(c) = SubSeq(c, a, b)
           /\ c[a] # Blank /\ c[b] # Blank
<1> DEFINE kept == {i \in 1 .. Len(c) : c[i] # Blank}
           a == CHOOSE i \in kept : \A j \in kept : i <= j
           b == CHOOSE i \in kept : \A j \in kept : j <= i
<1>1. kept # {} /\ Trimmed(c) = SubSeq(c, a, b)
  BY DEF Trimmed
<1>2. kept \in SUBSET Nat /\ Len(c) \in Nat /\ \A i \in kept : i <= Len(c)
  OBVIOUS
<1>3. a \in kept /\ \A j \in kept : a <= j
  BY <1>1, <1>2, Least
<1>4. b \in kept
  <2>1. \E i \in kept : \A j \in kept : j <= i
    <3> HIDE DEF kept
    <3> QED
      BY <1>1, <1>2, Greatest
  <2> QED
    BY <2>1
<1> QED
  BY <1>1, <1>3, <1>4

\* Only blanks are cut off the end of what starts with no blank.
LEMMA TrimmedEnd ==
  ASSUME NEW W, NEW c \in Seq(W), NEW n \in 1 .. Len(c), c[1] # Blank, c[n] # Blank
  PROVE  \E b \in n .. Len(c) :
           /\ Trimmed(c) = SubSeq(c, 1, b)
           /\ \A j \in b + 1 .. Len(c) : c[j] = Blank
<1> DEFINE kept == {i \in 1 .. Len(c) : c[i] # Blank}
           b == CHOOSE i \in kept : \A j \in kept : j <= i
<1>1. 1 \in kept /\ n \in kept /\ kept \in SUBSET Nat /\ \A i \in kept : i <= Len(c)
  OBVIOUS
<1>2. (CHOOSE i \in kept : \A j \in kept : i <= j) = 1
  BY <1>1
<1>3. Trimmed(c) = SubSeq(c, 1, b)
  BY <1>1, <1>2 DEF Trimmed
<1>4. b \in kept /\ \A j \in kept : j <= b
  <2>1. Len(c) \in Nat
    OBVIOUS
  <2>2. \E i \in kept : \A j \in kept : j <= i
    <3> HIDE DEF kept
    <3> QED
      BY <1>1, <2>1, Greatest
  <2> QED
    BY <2>2
<1>5. PICK e : e = b
  OBVIOUS
<1> HIDE DEF b
<1>6. e \in n .. Len(c) /\ \A j \in e + 1 .. Len(c) : c[j] = Blank
  BY <1>1, <1>4, <1>5
<1> QED
  BY <1>3, <1>5, <1>6

\* What starts and ends with no blank is not cut.
LEMMA NothingToTrim ==
  ASSUME NEW W, NEW c \in Seq(W), Len(c) > 0, c[1] # Blank, c[Len(c)] # Blank
  PROVE  Trimmed(c) = c
<1> DEFINE kept == {i \in 1 .. Len(c) : c[i] # Blank}
<1>1. 1 \in kept /\ Len(c) \in kept
  OBVIOUS
<1>2. (CHOOSE i \in kept : \A j \in kept : i <= j) = 1
  BY <1>1
<1>3. (CHOOSE i \in kept : \A j \in kept : j <= i) = Len(c)
  BY <1>1
<1>4. Trimmed(c) = SubSeq(c, 1, Len(c))
  BY <1>1, <1>2, <1>3 DEF Trimmed
<1> QED
  BY <1>4, SubSeqFull

\* Trimming again changes nothing.
LEMMA TrimmedTwice ==
  ASSUME NEW c \in Seq(STRING)
  PROVE  Trimmed(c) \in Seq(STRING) /\ Trimmed(Trimmed(c)) = Trimmed(c)
<1>1. CASE Trimmed(c) = <<>>
  <2>1. Trimmed(<<>>) = <<>>
    BY DEF Trimmed
  <2> QED
    BY <1>1, <2>1
<1>2. CASE Trimmed(c) # <<>>
  <2>1. PICK a, b \in 1 .. Len(c) :
           a <= b /\ Trimmed(c) = SubSeq(c, a, b) /\ c[a] # Blank /\ c[b] # Blank
    BY <1>2, TrimmedPart
  <2> DEFINE t == SubSeq(c, a, b)
  <2>2. t \in Seq(STRING) /\ Len(t) = b - a + 1 /\ t[1] = c[a] /\ t[Len(t)] = c[b]
    BY <2>1
  <2> HIDE DEF t
  <2>3. Trimmed(t) = t
    BY <2>1, <2>2, NothingToTrim
  <2> QED
    BY <2>1, <2>2, <2>3 DEF t
<1> QED
  BY <1>1, <1>2

\* The quotes among the first i characters.
QuotesUpTo(c, i) == {j \in 1 .. i : c[j] = Quote}

\* A quote is one more.
LEMMA CountQuotes ==
  ASSUME NEW W, NEW c \in Seq(W), NEW i \in 0 .. Len(c)
  PROVE  /\ IsFiniteSet(QuotesUpTo(c, i))
         /\ Cardinality(QuotesUpTo(c, i)) \in Nat
         /\ i = 0 => Cardinality(QuotesUpTo(c, i)) = 0
         /\ i > 0 => Cardinality(QuotesUpTo(c, i)) =
              Cardinality(QuotesUpTo(c, i - 1)) + (IF c[i] = Quote THEN 1 ELSE 0)
<1>1. \A k \in 0 .. Len(c) : IsFiniteSet(QuotesUpTo(c, k))
  <2> TAKE k \in 0 .. Len(c)
  <2>1. QuotesUpTo(c, k) \subseteq 1 .. k
    BY DEF QuotesUpTo
  <2>2. IsFiniteSet(1 .. k)
    BY FS_Interval
  <2> QED
    BY <2>1, <2>2, FS_Subset
<1>2. \A k \in 0 .. Len(c) : Cardinality(QuotesUpTo(c, k)) \in Nat
  BY <1>1, FS_CardinalityType
<1>3. CASE i = 0
  <2>1. QuotesUpTo(c, i) = {}
    BY <1>3 DEF QuotesUpTo
  <2> QED
    BY <1>1, <1>3, <2>1, FS_EmptySet
<1>4. CASE i > 0 /\ c[i] = Quote
  <2>1. QuotesUpTo(c, i) = QuotesUpTo(c, i - 1) \cup {i} /\ i \notin QuotesUpTo(c, i - 1)
    BY <1>4 DEF QuotesUpTo
  <2>2. IsFiniteSet(QuotesUpTo(c, i - 1))
    BY <1>1, <1>4
  <2>3. Cardinality(QuotesUpTo(c, i)) = Cardinality(QuotesUpTo(c, i - 1)) + 1
    BY <2>1, <2>2, FS_AddElement
  <2> QED
    BY <1>1, <1>2, <1>4, <2>3
<1>5. CASE i > 0 /\ c[i] # Quote
  <2>1. QuotesUpTo(c, i) = QuotesUpTo(c, i - 1)
    BY <1>5 DEF QuotesUpTo
  <2>2. Cardinality(QuotesUpTo(c, i - 1)) \in Nat
    BY <1>2, <1>5
  <2> QED
    BY <1>1, <1>5, <2>1, <2>2
<1> QED
  BY <1>3, <1>4, <1>5

\* The scan is within quotes when it has passed an odd number of them.
LEMMA QuotesInPairs ==
  ASSUME NEW W, NEW c \in Seq(W)
  PROVE  \A i \in 0 .. Len(c) :
           InDoubleQuotes(c)[i] <=> Cardinality(QuotesUpTo(c, i)) % 2 = 1
<1> DEFINE N(i) == Cardinality(QuotesUpTo(c, i))
           Step(q) == [i \in 0 .. Len(c) |->
             IF i = 0 THEN FALSE ELSE IF c[i] = Quote THEN ~q[i - 1] ELSE q[i - 1]]
           q == CHOOSE f : f = Step(f)
           odd == [i \in 0 .. Len(c) |-> N(i) % 2 = 1]
<1>1. \A i \in 0 .. Len(c) :
        /\ N(i) \in Nat
        /\ i = 0 => N(i) = 0
        /\ i > 0 => N(i) = N(i - 1) + (IF c[i] = Quote THEN 1 ELSE 0)
  BY CountQuotes
<1> HIDE DEF N
<1>2. \A i \in 1 .. Len(c) :
        (N(i) % 2 = 1) <=> IF c[i] = Quote THEN ~(N(i - 1) % 2 = 1) ELSE N(i - 1) % 2 = 1
  <2> TAKE i \in 1 .. Len(c)
  <2>1. N(i) \in Nat /\ N(i - 1) \in Nat /\ N(i) = N(i - 1) + (IF c[i] = Quote THEN 1 ELSE 0)
    BY <1>1
  <2> QED
    BY <2>1
<1>3. odd = Step(odd)
  <2>1. ASSUME NEW i \in 0 .. Len(c)
        PROVE  (N(i) % 2 = 1) =
                 (IF i = 0 THEN FALSE ELSE IF c[i] = Quote THEN ~odd[i - 1] ELSE odd[i - 1])
    <3>1. CASE i = 0
      <4>1. ~(N(i) % 2 = 1)
        BY <1>1, <3>1
      <4> QED
        BY <3>1, <4>1
    <3>2. CASE i # 0
      <4>1. i \in 1 .. Len(c) /\ odd[i - 1] = (N(i - 1) % 2 = 1)
        BY <3>2
      <4> QED
        BY <1>2, <3>2, <4>1
    <3> QED
      BY <3>1, <3>2
  <2> QED
    BY <2>1
<1>4. q = Step(q)
  BY <1>3
<1>5. InDoubleQuotes(c) = q
  BY DEF InDoubleQuotes
<1> HIDE DEF q
<1>6. \A i \in 0 .. Len(c) : q[i] <=> N(i) % 2 = 1
  <2> DEFINE wrong == {i \in 0 .. Len(c) : ~(q[i] <=> N(i) % 2 = 1)}
  <2> SUFFICES ASSUME wrong # {} PROVE FALSE
    OBVIOUS
  <2>1. wrong \in SUBSET Nat
    OBVIOUS
  <2>2. PICK i \in wrong : \A j \in wrong : i <= j
    <3> HIDE DEF wrong
    <3> QED
      BY <2>1, Least
  <2>3. CASE i = 0
    <3>1. ~(N(i) % 2 = 1)
      BY <1>1, <2>3
    <3>2. ~q[i]
      BY <1>4, <2>3
    <3> QED
      BY <2>2, <3>1, <3>2
  <2>4. CASE i # 0
    <3>1. i \in 1 .. Len(c) /\ i - 1 \in 0 .. Len(c) /\ i - 1 \notin wrong
      BY <2>2, <2>4
    <3>2. q[i - 1] <=> N(i - 1) % 2 = 1
      BY <3>1
    <3>3. q[i] = IF c[i] = Quote THEN ~q[i - 1] ELSE q[i - 1]
      BY <1>4, <2>4, <3>1
    <3>4. q[i] <=> N(i) % 2 = 1
      BY <1>2, <3>1, <3>2, <3>3
    <3> QED
      BY <2>2, <3>4
  <2> QED
    BY <2>3, <2>4
<1> QED
  BY <1>5, <1>6 DEF N

\* A path that ends in a blocked word has it as its base name.
LEMMA BlockedBaseName ==
  ASSUME NEW c \in Seq(STRING), NEW first \in Nat \ {0}, NEW stop \in {Blank, Quote},
         BlockedPath(c, first, stop)
  PROVE  \E word \in BLOCKED_LAUNCH_ENTRYPOINTS : BaseName(UpTo(c, first, stop)) = <<word>>
<1>1. PICK n \in first .. Len(c) :
        /\ c[n] \in BLOCKED_LAUNCH_ENTRYPOINTS
        /\ \A i \in first .. n - 1 : c[i] # stop
        /\ n > first => c[n - 1] = "\\"
        /\ n < Len(c) => c[n + 1] = stop
  BY DEF BlockedPath
<1> DEFINE word == c[n]
           ends == {j \in first .. Len(c) : c[j] = stop} \cup {Len(c) + 1}
           t == SubSeq(c, first, n)
           start(i) == \E b \in 0 .. i - 1 : \A j \in 1 .. i : t[j] = IF j <= b THEN Blank ELSE "@"
           cuts == {i \in 1 .. Len(t) : t[i] = "\\" \/ start(i)} \cup {0}
<1>2. word \in STRING /\ word # Blank /\ word # Quote /\ word # "\\" /\ word # "@"
  BY <1>1, PolicyAssumption
<1>3. (CHOOSE j \in ends : \A k \in ends : j <= k) = n + 1
  <2>1. n + 1 \in ends
    BY <1>1
  <2>2. \A k \in ends : n + 1 <= k
    BY <1>1, <1>2
  <2> QED
    BY <2>1, <2>2
<1>4. UpTo(c, first, stop) = t
  <2>1. n + 1 - 1 = n
    BY <1>1
  <2> HIDE DEF ends
  <2>2. UpTo(c, first, stop) = SubSeq(c, first, (n + 1) - 1)
    BY <1>3 DEF UpTo, ends
  <2> QED
    BY <2>1, <2>2
<1>5. /\ t \in Seq(STRING) /\ Len(t) = n - first + 1
      /\ \A i \in 1 .. Len(t) : t[i] = c[first + i - 1]
  BY <1>1
<1>6. t[Len(t)] = word /\ Len(t) > 0
  BY <1>1, <1>5
<1>7. Len(t) > 1 => t[Len(t) - 1] = "\\"
  BY <1>1, <1>5
<1> HIDE DEF t, word
<1>8. (CHOOSE i \in cuts : \A j \in cuts : j <= i) = Len(t) - 1
  <2>1. Len(t) - 1 \in cuts
    BY <1>5, <1>6, <1>7
  <2>2. \A j \in cuts : j <= Len(t) - 1
    <3>1. ~start(Len(t))
      BY <1>2, <1>5, <1>6
    <3>2. t[Len(t)] # "\\"
      BY <1>2, <1>6
    <3> HIDE DEF start
    <3>3. \A j \in cuts : j \in 0 .. Len(t) /\ j # Len(t)
      BY <1>5, <1>6, <3>1, <3>2
    <3> QED
      BY <1>5, <3>3
  <2>3. \A j \in cuts : j \in Nat
    BY <1>5
  <2> HIDE DEF cuts
  <2> QED
    BY <1>5, <2>1, <2>2, <2>3
<1>9. SubSeq(t, Len(t), Len(t)) = <<word>>
  <2>1. Len(t) \in 1 .. Len(t) + 1 /\ Len(t) \in Len(t) - 1 .. Len(t)
    BY <1>5, <1>6
  <2>2. /\ SubSeq(t, Len(t), Len(t)) \in Seq(STRING)
        /\ Len(SubSeq(t, Len(t), Len(t))) = 1
        /\ SubSeq(t, Len(t), Len(t))[1] = t[Len(t)]
    BY <1>5, <2>1
  <2> QED
    <3> DEFINE u == SubSeq(t, Len(t), Len(t))
    <3>1. u \in Seq(STRING) /\ Len(u) = 1 /\ u[1] = word
      BY <1>6, <2>2
    <3> HIDE DEF u
    <3>2. u = <<word>>
      BY <3>1
    <3> QED
      BY <3>2 DEF u
<1>10. Trimmed(<<word>>) = <<word>>
  <2>1. <<word>> \in Seq(STRING) /\ Len(<<word>>) = 1 /\ <<word>>[1] = word
    BY <1>2
  <2> DEFINE w == <<word>>
  <2>2. w \in Seq(STRING) /\ Len(w) > 0 /\ w[1] # Blank /\ w[Len(w)] # Blank
    BY <1>2, <2>1
  <2> HIDE DEF w
  <2>3. Trimmed(w) = w
    BY <2>2, NothingToTrim
  <2> QED
    BY <2>3 DEF w
<1>11. BaseName(t) = <<word>>
  <2>1. Len(t) - 1 + 1 = Len(t)
    BY <1>5
  <2> QED
    BY <1>8, <1>9, <1>10, <2>1 DEF BaseName
<1> QED
  BY <1>1, <1>4, <1>11 DEF word

\* What the loop over a command line refuses are the chains.
LEMMA ChainsAreRefused ==
  ASSUME NEW W, NEW c \in Seq(W)
  PROVE  Chains(c) <=> \/ has_unquoted_shell_control(c)
                       \/ \E i \in 1 .. Len(c) : c[i] \in {"\n", "%"}
<1>1. \A i \in 1 .. Len(c) + 1 :
        /\ InDoubleQuotes(c)[i - 1] <=> QuotesBefore(c, i) % 2 = 1
        /\ QuotesBefore(c, i) \in Nat
  <2> TAKE i \in 1 .. Len(c) + 1
  <2>1. i - 1 \in 0 .. Len(c)
    OBVIOUS
  <2>2. QuotesBefore(c, i) = Cardinality(QuotesUpTo(c, i - 1))
    BY DEF QuotesBefore, QuotesUpTo
  <2> QED
    BY <2>1, <2>2, QuotesInPairs, CountQuotes
<1>2. \A i \in 1 .. Len(c) : ~InDoubleQuotes(c)[i - 1] <=> QuotesBefore(c, i) % 2 = 0
  <2> TAKE i \in 1 .. Len(c)
  <2>1. i \in 1 .. Len(c) + 1
    OBVIOUS
  <2> QED
    BY <1>1, <2>1
<1>3. InDoubleQuotes(c)[Len(c)] <=> QuotesBefore(c, Len(c) + 1) % 2 = 1
  <2>1. Len(c) + 1 \in 1 .. Len(c) + 1 /\ Len(c) + 1 - 1 = Len(c)
    OBVIOUS
  <2> QED
    BY <1>1, <2>1
<1> QED
  BY <1>2, <1>3 DEF Chains, has_unquoted_shell_control

\* What the policy lets through is one command, and not a blocked one.
LEMMA PolicyHolds ==
  ASSUME NEW c, Permitted(c)
  PROVE  ~Chains(c) /\ ~EntersBlocked(c) /\ c[1] # "@"
<1>1. /\ c # <<>>
      /\ \A i \in 1 .. Len(c) : c[i] \notin {"\n", "%"}
      /\ c[1] # "@"
      /\ ~has_unquoted_shell_control(c)
      /\ \A word \in BLOCKED_LAUNCH_ENTRYPOINTS : BaseName(EntryToken(c)) # <<word>>
  BY DEF Permitted, validate_command_policy
<1>2. c \in Seq(STRING)
  BY DEF Permitted
<1>3. ~Chains(c)
  BY <1>1, <1>2, ChainsAreRefused
<1>4. ~EntersBlocked(c)
  <2>1. CASE c[1] = Quote
    BY <1>1, <1>2, <2>1, BlockedBaseName DEF EntryToken, EntersBlocked
  <2>2. CASE c[1] # Quote
    BY <1>1, <1>2, <2>2, BlockedBaseName DEF EntryToken, EntersBlocked
  <2> QED
    BY <2>1, <2>2
<1> QED
  BY <1>1, <1>3, <1>4

\* The blanks behind a command line make it no chain.
LEMMA ChainsWithoutEnd ==
  ASSUME NEW W, NEW c \in Seq(W), NEW b \in 1 .. Len(c),
         \A j \in b + 1 .. Len(c) : c[j] = Blank
  PROVE  Chains(SubSeq(c, 1, b)) <=> Chains(c)
<1> DEFINE t == SubSeq(c, 1, b)
<1>1. t \in Seq(W) /\ Len(t) = b /\ \A i \in 1 .. b : t[i] = c[i]
  OBVIOUS
<1>2. Blank # Quote /\ Blank # "&" /\ Blank # "\n" /\ Blank # "%"
  BY Zenon DEF Blank, Quote
<1> HIDE DEF t
<1>3. \A i \in 1 .. b + 1 : QuotesBefore(t, i) = QuotesBefore(c, i)
  <2> TAKE i \in 1 .. b + 1
  <2>1. {j \in 1 .. i - 1 : t[j] = Quote} = {j \in 1 .. i - 1 : c[j] = Quote}
    BY <1>1
  <2> QED
    BY <2>1 DEF QuotesBefore
<1>4. QuotesBefore(t, Len(t) + 1) = QuotesBefore(c, Len(c) + 1)
  <2>0. Len(c) \in Nat /\ \A j \in 1 .. Len(c) : c[j] = Quote => j \in 1 .. b
    BY <1>2
  <2>1. QuotesUpTo(c, Len(c)) = QuotesUpTo(c, b)
    BY <2>0 DEF QuotesUpTo
  <2>2. \A n \in Nat : QuotesBefore(c, n) = Cardinality(QuotesUpTo(c, n - 1))
    BY DEF QuotesBefore, QuotesUpTo
  <2>3. /\ Len(c) + 1 \in Nat /\ b + 1 \in Nat
        /\ Len(c) + 1 - 1 = Len(c) /\ b + 1 - 1 = b
    BY <2>0
  <2>4. QuotesBefore(c, Len(c) + 1) = QuotesBefore(c, b + 1)
    BY <2>1, <2>2, <2>3
  <2> QED
    BY <1>1, <1>3, <2>4
<1>5. \A i \in 1 .. Len(c) : c[i] \in {"&", "\n", "%"} => i \in 1 .. b
  BY <1>2
<1>6. \A i \in 1 .. b : QuotesBefore(t, i) = QuotesBefore(c, i) /\ t[i] = c[i] /\ i \in 1 .. Len(c)
  BY <1>1, <1>3
<1>7. (\E i \in 1 .. Len(t) : t[i] = "&" /\ QuotesBefore(t, i) % 2 = 0) <=>
      (\E i \in 1 .. Len(c) : c[i] = "&" /\ QuotesBefore(c, i) % 2 = 0)
  BY <1>1, <1>5, <1>6
<1>8. (\E i \in 1 .. Len(t) : t[i] \in {"\n", "%"}) <=>
      (\E i \in 1 .. Len(c) : c[i] \in {"\n", "%"})
  BY <1>1, <1>5, <1>6
<1>9. Chains(t) <=> Chains(c)
  BY <1>4, <1>7, <1>8 DEF Chains
<1> QED
  BY <1>9 DEF t

-----------------------------------------------------------------------------
(* What is suggested.                                                      *)

\* A command line runs the word its first blank ends, without its path.
LEMMA EntryWord ==
  ASSUME NEW W, NEW c \in Seq(W), NEW n \in 1 .. Len(c), c[1] # Quote, c[n] \notin {"\\", "@"},
         \A i \in 1 .. n : c[i] # Blank, n < Len(c) => c[n + 1] = Blank,
         NEW word, BaseName(EntryToken(c)) = <<word>>
  PROVE  word = c[n]
<1> DEFINE ends == {j \in 1 .. Len(c) : c[j] = Blank} \cup {Len(c) + 1}
           t == SubSeq(c, 1, n)
           start(i) == \E b \in 0 .. i - 1 : \A j \in 1 .. i : t[j] = IF j <= b THEN Blank ELSE "@"
           cuts == {i \in 1 .. Len(t) : t[i] = "\\" \/ start(i)} \cup {0}
           m == CHOOSE i \in cuts : \A j \in cuts : j <= i
           u == SubSeq(t, m + 1, Len(t))
<1>1. (CHOOSE j \in ends : \A k \in ends : j <= k) = n + 1
  <2>1. n + 1 \in ends
    OBVIOUS
  <2>2. \A k \in ends : n + 1 <= k
    OBVIOUS
  <2> QED
    BY <2>1, <2>2
<1>2. EntryToken(c) = t
  <2>1. n + 1 - 1 = n
    OBVIOUS
  <2> HIDE DEF ends
  <2>2. UpTo(c, 1, Blank) = SubSeq(c, 1, (n + 1) - 1)
    BY <1>1 DEF UpTo, ends
  <2> QED
    BY <2>1, <2>2 DEF EntryToken
<1>3. t \in Seq(W) /\ Len(t) = n /\ \A i \in 1 .. n : t[i] = c[i]
  OBVIOUS
<1> HIDE DEF t
<1>4. m \in 0 .. n - 1
  <2>1. cuts \in SUBSET Nat /\ cuts # {} /\ \A o \in cuts : o <= n - 1
    BY <1>3
  <2>2. n - 1 \in Nat
    OBVIOUS
  <2>3. \E i \in cuts : \A j \in cuts : j <= i
    <3> HIDE DEF cuts
    <3> QED
      BY <2>1, <2>2, Greatest
  <2>4. m \in cuts
    BY <2>3
  <2> HIDE DEF m, cuts
  <2> QED
    BY <2>1, <2>2, <2>4
<1>5. BaseName(t) = Trimmed(u)
  BY DEF BaseName
<1> HIDE DEF m
<1>6. u \in Seq(W) /\ Len(u) = n - m /\ u[1] = c[m + 1] /\ u[Len(u)] = c[n]
  <2>1. m + 1 \in 1 .. n /\ n \in m + 1 .. n
    BY <1>4
  <2> QED
    BY <1>3, <1>4, <2>1
<1> HIDE DEF u
<1>7. Trimmed(u) = u
  <2>1. u[1] # Blank /\ u[Len(u)] # Blank /\ Len(u) > 0
    BY <1>4, <1>6
  <2> QED
    BY <1>6, <2>1, NothingToTrim
<1>8. u = <<word>>
  BY <1>2, <1>5, <1>7
<1> QED
  BY <1>6, <1>8

\* A command line without quotes and control characters is let through unless
\* what it runs is blocked.
LEMMA PlainIsPermitted ==
  ASSUME NEW W, NEW c \in Seq(W), NEW n \in 1 .. Len(c), c[1] # "@", c[n] \notin {"\\", "@"},
         \A i \in 1 .. Len(c) : c[i] \notin {Quote, "&", "\n", "%"},
         \A i \in 1 .. n : c[i] # Blank, n < Len(c) => c[n + 1] = Blank,
         c[Len(c)] # Blank, c[n] \notin BLOCKED_LAUNCH_ENTRYPOINTS
  PROVE  validate_command_policy(c)
<1>1. Trimmed(c) = c
  BY NothingToTrim
<1>2. ~InDoubleQuotes(c)[Len(c)]
  <2>1. QuotesUpTo(c, Len(c)) = {}
    BY DEF QuotesUpTo
  <2>2. Cardinality(QuotesUpTo(c, Len(c))) = 0
    BY <2>1, FS_EmptySet
  <2>3. Len(c) \in 0 .. Len(c) /\ ~(0 % 2 = 1)
    OBVIOUS
  <2> QED
    BY <2>2, <2>3, QuotesInPairs
<1>3. ~has_unquoted_shell_control(c)
  BY <1>2 DEF has_unquoted_shell_control
<1>4. \A word \in BLOCKED_LAUNCH_ENTRYPOINTS : BaseName(EntryToken(c)) # <<word>>
  BY EntryWord
<1> QED
  BY <1>1, <1>3, <1>4 DEF validate_command_policy

\* A word, and none of the characters the policy looks at.
Plain(w) == w \notin {Quote, Blank, "&", "\n", "%"}

Parts == Tools \cup {"run", "spring-boot:run", "bootRun"}

\* What stands in a suggestion is plain.
LEMMA ToolWords ==
  /\ \A w \in Parts : Plain(w)
  /\ \A w \in Tools : w # "@" /\ w # "\\"
  /\ Plain(".") /\ "." # "@" /\ Plain("\\")
  /\ Blank \notin {Quote, "&", "\n", "%"}
<1>1. \A w \in Parts : w \notin {"&", "\n", "%", "@", "\\"}
  BY DEF Parts, Tools
<1>2. ASSUME NEW w \in Parts PROVE w # Quote
  BY <1>2, Zenon DEF Parts, Tools, Quote
<1>3. ASSUME NEW w \in Parts PROVE w # Blank
  BY <1>3, Zenon DEF Parts, Tools, Blank
<1>4. \A w \in {".", "\\"} : w \notin {"&", "\n", "%"}
  OBVIOUS
<1>5. "." # Quote /\ "." # Blank /\ "\\" # Quote /\ "\\" # Blank
  BY Zenon DEF Quote, Blank
<1>6. Blank # Quote /\ Blank # "&" /\ Blank # "\n" /\ Blank # "%"
  BY Zenon DEF Blank, Quote
<1>7. "." # "@"
  OBVIOUS
<1> QED
  BY <1>1, <1>2, <1>3, <1>4, <1>5, <1>6, <1>7 DEF Plain, Parts

\* A tool and what it is to do, ...
LEMMA ToolAndTask ==
  ASSUME NEW a \in Tools, NEW b, Plain(b)
  PROVE  validate_command_policy(<<a, Blank, b>>)
<1> DEFINE c == <<a, Blank, b>>
           W == {a, Blank, b}
<1>1. Plain(a) /\ a \notin {"\\", "@"} /\ a \notin BLOCKED_LAUNCH_ENTRYPOINTS
  BY ToolWords, LaunchAssumption DEF Parts, Tools
<1>2. Len(c) = 3 /\ c[1] = a /\ c[2] = Blank /\ c[3] = b
  OBVIOUS
<1>3. c \in Seq(W)
  OBVIOUS
<1> HIDE DEF c, W
<1>4. \A i \in 1 .. Len(c) : c[i] \notin {Quote, "&", "\n", "%"}
  BY <1>1, <1>2, ToolWords DEF Plain
<1>5. PICK n \in 1 .. Len(c) : n = 1
  BY <1>2
<1>6. /\ c[1] # "@" /\ c[n] \notin {"\\", "@"} /\ c[n] \notin BLOCKED_LAUNCH_ENTRYPOINTS
      /\ c[n + 1] = Blank /\ c[Len(c)] # Blank /\ \A i \in 1 .. n : c[i] # Blank
  BY <1>1, <1>2, <1>5 DEF Plain
<1>7. validate_command_policy(c)
  BY <1>3, <1>4, <1>6, PlainIsPermitted
<1> QED
  BY <1>7 DEF c

\* ... a wrapper in the folder itself, ...
LEMMA WrapperAndTask ==
  ASSUME NEW a \in Tools, NEW b, Plain(b)
  PROVE  validate_command_policy(<<".", "\\", a, Blank, b>>)
<1> DEFINE c == <<".", "\\", a, Blank, b>>
           W == {".", "\\", a, Blank, b}
<1>1. /\ Plain(a) /\ a \notin {"\\", "@"} /\ a \notin BLOCKED_LAUNCH_ENTRYPOINTS
      /\ Plain(".") /\ "." # "@" /\ Plain("\\")
  BY ToolWords, LaunchAssumption DEF Parts, Tools
<1>2. /\ Len(c) = 5
      /\ c[1] = "." /\ c[2] = "\\" /\ c[3] = a /\ c[4] = Blank /\ c[5] = b
  OBVIOUS
<1>3. c \in Seq(W)
  OBVIOUS
<1> HIDE DEF c, W
<1>4. \A i \in 1 .. Len(c) : c[i] \notin {Quote, "&", "\n", "%"}
  BY <1>1, <1>2, ToolWords DEF Plain
<1>5. 3 \in 1 .. Len(c) /\ c[4] = Blank /\ c[Len(c)] # Blank
  BY <1>1, <1>2 DEF Plain
<1>6. \A i \in 1 .. 3 : c[i] # Blank
  BY <1>1, <1>2 DEF Plain
<1>7. validate_command_policy(c)
  BY <1>1, <1>2, <1>3, <1>4, <1>5, <1>6, PlainIsPermitted
<1> QED
  BY <1>7 DEF c

\* ... or a script, which has any name: what comes of it is refused only if its
\* name makes it a chain.
LEMMA ToolAndScript ==
  ASSUME NEW s \in Seq(STRING)
  PROVE  validate_command_policy(NpmRun(s)) <=> ~Chains(NpmRun(s))
<1> DEFINE c == NpmRun(s)
           W == STRING \cup {"npm", "run", Blank}
<1>1. /\ c \in Seq(W) /\ Len(c) \in Nat /\ Len(c) >= 4
      /\ c[1] = "npm" /\ c[2] = Blank /\ c[3] = "run"
  <2> DEFINE head == <<"npm", Blank, "run", Blank>>
  <2>1. /\ head \in Seq(W) /\ Len(head) = 4
        /\ head[1] = "npm" /\ head[2] = Blank /\ head[3] = "run"
    OBVIOUS
  <2>2. c = head \o s /\ s \in Seq(W)
    <3>1. c = head \o s
      BY Zenon DEF NpmRun, Blank
    <3>2. s \in Seq(W)
      OBVIOUS
    <3> QED
      BY <3>1, <3>2
  <2> HIDE DEF head, c, W
  <2>3. /\ c \in Seq(W) /\ Len(c) = Len(head) + Len(s)
        /\ \A i \in 1 .. Len(head) + Len(s) :
             c[i] = IF i <= Len(head) THEN head[i] ELSE s[i - Len(head)]
    BY <2>1, <2>2, ConcatProperties, Zenon
  <2>4. Len(s) \in Nat
    OBVIOUS
  <2> QED
    BY <2>1, <2>3, <2>4
<1>2. "npm" # Blank /\ "run" # Blank /\ "npm" # Quote
  BY Zenon DEF Blank, Quote
<1>3. "npm" \notin BLOCKED_LAUNCH_ENTRYPOINTS
  BY LaunchAssumption DEF Tools
<1> HIDE DEF c, W
<1>4. 3 \in 1 .. Len(c)
  BY <1>1
<1>5. PICK b \in 3 .. Len(c) :
        Trimmed(c) = SubSeq(c, 1, b) /\ \A j \in b + 1 .. Len(c) : c[j] = Blank
  BY <1>1, <1>2, <1>4, TrimmedEnd
<1>6. PICK t : t = Trimmed(c)
  OBVIOUS
<1>7. t \in Seq(W) /\ Len(t) = b /\ \A i \in 1 .. b : t[i] = c[i]
  BY <1>1, <1>5, <1>6
<1>8. t # <<>> /\ Len(t) >= 3 /\ t[1] = "npm" /\ t[2] = Blank
  BY <1>1, <1>2, <1>5, <1>7
<1>9. \A word \in BLOCKED_LAUNCH_ENTRYPOINTS : BaseName(EntryToken(t)) # <<word>>
  <2>1. PICK n \in 1 .. Len(t) : n = 1
    BY <1>8
  <2>2. t[1] # Quote /\ \A i \in 1 .. n : t[i] # Blank
    BY <1>2, <1>8, <2>1
  <2>3. t[n] \notin {"\\", "@"} /\ t[n + 1] = Blank /\ t[n] = "npm"
    BY <1>8, <2>1
  <2> QED
    BY <1>3, <1>7, <2>2, <2>3, EntryWord
<1>10. Chains(t) <=> Chains(c)
  BY <1>1, <1>5, <1>6, ChainsWithoutEnd
<1>11. Chains(t) <=> \/ has_unquoted_shell_control(t)
                     \/ \E i \in 1 .. Len(t) : t[i] \in {"\n", "%"}
  BY <1>7, ChainsAreRefused
<1>12. t[1] # "@"
  BY <1>8
<1> QED
  BY <1>6, <1>8, <1>9, <1>10, <1>11, <1>12 DEF validate_command_policy, c

\* The name in the first preferred script, or in the only one.
LEMMA NodeCommand ==
  ASSUME NEW dir, NEW scripts \in SUBSET Seq(STRING), IsFiniteSet(scripts)
  PROVE  LET v == NodeVerdict(dir, scripts) IN
         v.command = NoCommand \/ \E s \in scripts : v.command = NpmRun(s)
<1> DEFINE preferred == preferred_node_scripts(scripts)
           best == NODE_SCRIPT_PRIORITY[CHOOSE i \in preferred : \A j \in preferred : i <= j]
<1>1. preferred \in SUBSET Nat /\ IsFiniteSet(preferred)
  <2>1. PICK k \in Nat : k = Len(NODE_SCRIPT_PRIORITY)
    BY DEF NODE_SCRIPT_PRIORITY
  <2>2. preferred \subseteq 1 .. k
    BY <2>1 DEF preferred_node_scripts
  <2>3. IsFiniteSet(1 .. k)
    BY FS_Interval
  <2> HIDE DEF preferred
  <2>4. IsFiniteSet(preferred)
    BY <2>2, <2>3, FS_Subset
  <2>5. \A x \in preferred : x \in Nat
    BY <2>2
  <2> QED
    BY <2>4, <2>5
<1>2. Cardinality(preferred) \in Nat /\ (Cardinality(preferred) = 0 <=> preferred = {})
  BY <1>1, FS_CardinalityType, FS_EmptySet
<1>3. Cardinality(scripts) \in Nat /\ (Cardinality(scripts) = 0 <=> scripts = {})
  BY FS_CardinalityType, FS_EmptySet
<1>4. preferred # {} => best \in scripts
  <2>1. preferred # {} => \E i \in preferred : \A j \in preferred : i <= j
    <3> HIDE DEF preferred
    <3> QED
      BY <1>1, Least
  <2>2. \A i \in preferred : NODE_SCRIPT_PRIORITY[i] \in scripts
    BY DEF preferred_node_scripts
  <2> HIDE DEF preferred
  <2> QED
    BY <2>1, <2>2
<1>5. scripts # {} => (CHOOSE s \in scripts : TRUE) \in scripts
  OBVIOUS
<1>6. \A st, command, group : Verdict(st, command, group).command = command
  BY DEF Verdict
<1> HIDE DEF preferred, best
<1>7. LET v == NodeVerdict(dir, scripts) IN
      v.command = NoCommand \/ \E s \in scripts : v.command = NpmRun(s)
  <2> DEFINE only == CHOOSE s \in scripts : TRUE
             v == NodeVerdict(dir, scripts)
             group == <<"node-scripts", dir>>
  <2>1. v = CASE Cardinality(preferred) = 1 -> Verdict("READY", NpmRun(best), <<>>)
              [] Cardinality(preferred) > 1 -> Verdict("NEEDS_CONFIRMATION", NpmRun(best), group)
              [] preferred = {} /\ Cardinality(scripts) = 1 ->
                   Verdict("READY", NpmRun(only), <<>>)
              [] preferred = {} /\ Cardinality(scripts) > 1 ->
                   Verdict("CONFLICT", NoCommand, group)
              [] scripts = {} -> Verdict("EVIDENCE_ONLY", NoCommand, <<>>)
    BY DEF NodeVerdict, preferred, best
  <2> HIDE DEF only, v, group
  <2>2. scripts = {} => preferred = {}
    BY DEF preferred, preferred_node_scripts
  <2>3. CASE Cardinality(preferred) = 1
    <3>1. v = Verdict("READY", NpmRun(best), <<>>)
      BY <1>2, <2>1, <2>2, <2>3
    <3> QED
      BY <1>2, <1>4, <1>6, <2>3, <3>1 DEF v
  <2>4. CASE Cardinality(preferred) > 1
    <3>1. v = Verdict("NEEDS_CONFIRMATION", NpmRun(best), group)
      BY <1>2, <2>1, <2>2, <2>4
    <3> QED
      BY <1>2, <1>4, <1>6, <2>4, <3>1 DEF v
  <2>5. CASE preferred = {} /\ Cardinality(scripts) = 1
    <3>1. v = Verdict("READY", NpmRun(only), <<>>)
      BY <1>2, <1>3, <2>1, <2>5
    <3>2. scripts # {}
      BY <1>3, <2>5
    <3>3. only \in scripts
      BY <1>5, <3>2 DEF only
    <3> QED
      BY <1>6, <3>1, <3>3 DEF v
  <2>6. CASE preferred = {} /\ Cardinality(scripts) > 1
    <3>1. v = Verdict("CONFLICT", NoCommand, group)
      BY <1>2, <1>3, <2>1, <2>6
    <3> QED
      BY <1>6, <3>1 DEF v
  <2>7. CASE scripts = {}
    <3>1. v = Verdict("EVIDENCE_ONLY", NoCommand, <<>>)
      BY <1>2, <1>3, <2>1, <2>2, <2>7
    <3> QED
      BY <1>6, <3>1 DEF v
  <2> QED
    BY <1>2, <1>3, <2>3, <2>4, <2>5, <2>6, <2>7
<1> QED
  BY <1>7

\* Only a package.json is of the node stack.
LEMMA NodeFile ==
  ASSUME NEW files, NEW file \in EvidenceIn(files), StackOf(file) = "node"
  PROVE  file = "package.json"
<1>1. PICK i \in 1 .. 8 : file = EVIDENCE_FILES[i]
  BY Evidence DEF EvidenceIn
<1> QED
  BY <1>1 DEF StackOf, EVIDENCE_FILES

\* A task stands behind the tool.
LEMMA WithTask ==
  ASSUME NEW t, NEW b
  PROVE  /\ <<t>> \o <<Blank, b>> = <<t, Blank, b>>
         /\ <<".", "\\", t>> \o <<Blank, b>> = <<".", "\\", t, Blank, b>>
<1> DEFINE W == {".", "\\", t, Blank, b}
           q == <<Blank, b>>
<1>1. q \in Seq(W) /\ Len(q) = 2 /\ q[1] = Blank /\ q[2] = b
  OBVIOUS
<1>2. <<t>> \o q = <<t, Blank, b>>
  <2> DEFINE p == <<t>>
             r == <<t, Blank, b>>
  <2>1. p \in Seq(W) /\ Len(p) = 1 /\ p[1] = t
    OBVIOUS
  <2>2. r \in Seq(W) /\ Len(r) = 3 /\ r[1] = t /\ r[2] = Blank /\ r[3] = b
    OBVIOUS
  <2> HIDE DEF p, q, r, W
  <2>3. PICK u : u = p \o q
    OBVIOUS
  <2>4. /\ u \in Seq(W) /\ Len(u) = Len(p) + Len(q)
        /\ \A i \in 1 .. Len(p) + Len(q) : u[i] = IF i <= Len(p) THEN p[i] ELSE q[i - Len(p)]
    BY <1>1, <2>1, <2>3, ConcatProperties, Zenon
  <2>5. Len(u) = 3 /\ \A i \in 1 .. 3 : u[i] = r[i]
    BY <1>1, <2>1, <2>2, <2>4
  <2>6. u = r
    BY <2>2, <2>4, <2>5, SeqEqual
  <2> QED
    BY <2>3, <2>6 DEF p, r
<1>3. <<".", "\\", t>> \o q = <<".", "\\", t, Blank, b>>
  <2> DEFINE p == <<".", "\\", t>>
             r == <<".", "\\", t, Blank, b>>
  <2>1. p \in Seq(W) /\ Len(p) = 3 /\ p[1] = "." /\ p[2] = "\\" /\ p[3] = t
    OBVIOUS
  <2>2. /\ r \in Seq(W) /\ Len(r) = 5
        /\ r[1] = "." /\ r[2] = "\\" /\ r[3] = t /\ r[4] = Blank /\ r[5] = b
    OBVIOUS
  <2> HIDE DEF p, q, r, W
  <2>3. PICK u : u = p \o q
    OBVIOUS
  <2>4. /\ u \in Seq(W) /\ Len(u) = Len(p) + Len(q)
        /\ \A i \in 1 .. Len(p) + Len(q) : u[i] = IF i <= Len(p) THEN p[i] ELSE q[i - Len(p)]
    BY <1>1, <2>1, <2>3, ConcatProperties, Zenon
  <2>5. Len(u) = 5 /\ \A i \in 1 .. 5 : u[i] = r[i]
    BY <1>1, <2>1, <2>2, <2>4
  <2>6. u = r
    BY <2>2, <2>4, <2>5, SeqEqual
  <2> QED
    BY <2>3, <2>6 DEF p, r
<1> QED
  BY <1>2, <1>3

\* Whatever file suggests it, a command line can be saved, but for a script of
\* such a name.
LEMMA SuggestedCommand ==
  ASSUME NEW dir, NEW files, NEW file \in EvidenceIn(files),
         file = "package.json" =>
           files[file] \in SUBSET Seq(STRING) /\ IsFiniteSet(files[file])
  PROVE  LET c == Candidate(dir, file, files) IN
         c.command # NoCommand => (validate_command_policy(c.command) <=> ~ChainedByName(c))
<1> DEFINE Fine(v) == v.command # NoCommand => validate_command_policy(v.command)
<1>1. \A st, command, group : Verdict(st, command, group).command = command
  BY DEF Verdict
<1>2. \A t \in Tools, b \in Parts, w \in Tools :
        /\ validate_command_policy(<<t, Blank, b>>)
        /\ validate_command_policy(<<".", "\\", w, Blank, b>>)
  BY ToolAndTask, WrapperAndTask, ToolWords
<1>3. ASSUME NEW t \in Tools, NEW w \in Tools, NEW b \in Parts
      PROVE  validate_command_policy(Wrapped(files, w, t) \o <<Blank, b>>)
  <2>1. CASE w \in DOMAIN files
    <3>1. Wrapped(files, w, t) = <<".", "\\", w>>
      BY <2>1, Zenon DEF Wrapped
    <3>2. Wrapped(files, w, t) \o <<Blank, b>> = <<".", "\\", w, Blank, b>>
      BY <3>1, WithTask, Zenon
    <3> QED
      BY <1>2, <3>2, Zenon
  <2>2. CASE w \notin DOMAIN files
    <3>1. Wrapped(files, w, t) = <<t>>
      BY <2>2, Zenon DEF Wrapped
    <3>2. Wrapped(files, w, t) \o <<Blank, b>> = <<t, Blank, b>>
      BY <3>1, WithTask, Zenon
    <3> QED
      BY <1>2, <3>2, Zenon
  <2> QED
    BY <2>1, <2>2
<1>4. ASSUME NEW marks
      PROVE  Fine(MavenVerdict(files, marks))
  <2> DEFINE command == Wrapped(files, "mvnw.cmd", "mvn") \o <<Blank, "spring-boot:run">>
  <2>1. validate_command_policy(command)
    BY <1>3 DEF Tools, Parts
  <2>2. MavenVerdict(files, marks) =
          CASE "aggregator" \in marks -> Verdict("EVIDENCE_ONLY", NoCommand, <<>>)
            [] "aggregator" \notin marks /\ is_spring_boot_maven(marks) ->
                 Verdict("NEEDS_CONFIRMATION", command, <<>>)
            [] OTHER -> Verdict("NEEDS_CONFIRMATION", NoCommand, <<>>)
    BY Zenon DEF MavenVerdict, Blank
  <2> HIDE DEF command
  <2> QED
    BY <1>1, <2>1, <2>2
<1>5. ASSUME NEW marks
      PROVE  Fine(GradleVerdict(files, marks))
  <2> DEFINE command == Wrapped(files, "gradlew.bat", "gradle") \o <<Blank, "bootRun">>
  <2>1. validate_command_policy(command)
    BY <1>3 DEF Tools, Parts
  <2>2. GradleVerdict(files, marks) =
          Verdict("NEEDS_CONFIRMATION",
                  IF "spring boot" \in marks THEN command ELSE NoCommand, <<>>)
    BY Zenon DEF GradleVerdict, Blank
  <2> HIDE DEF command
  <2>3. CASE "spring boot" \in marks
    <3>1. GradleVerdict(files, marks) = Verdict("NEEDS_CONFIRMATION", command, <<>>)
      BY <2>2, <2>3
    <3> QED
      BY <1>1, <2>1, <3>1
  <2>4. CASE "spring boot" \notin marks
    <3>1. GradleVerdict(files, marks) = Verdict("NEEDS_CONFIRMATION", NoCommand, <<>>)
      BY <2>2, <2>4
    <3> QED
      BY <1>1, <3>1
  <2> QED
    BY <2>3, <2>4
<1>6. Fine(RustVerdict(files))
  <2> DEFINE command == <<"cargo", Blank, "run">>
  <2>1. validate_command_policy(command)
    BY <1>2 DEF Tools, Parts
  <2>2. RustVerdict(files) =
          IF "src/main.rs" \in DOMAIN files
          THEN Verdict("NEEDS_CONFIRMATION", command, <<>>)
          ELSE Verdict("EVIDENCE_ONLY", NoCommand, <<>>)
    BY Zenon DEF RustVerdict, Blank
  <2> HIDE DEF command
  <2> QED
    BY <1>1, <2>1, <2>2
<1>7. ASSUME StackOf(file) = "node"
      PROVE  LET v == NodeVerdict(dir, files[file]) IN
             /\ file = "package.json"
             /\ v.command # NoCommand =>
                  (validate_command_policy(v.command) <=> ~Chains(v.command))
  <2>1. file = "package.json"
    BY <1>7, NodeFile
  <2>2. PICK scripts \in SUBSET Seq(STRING) : scripts = files[file] /\ IsFiniteSet(scripts)
    BY <2>1
  <2>3. LET v == NodeVerdict(dir, scripts) IN
        v.command = NoCommand \/ \E s \in scripts : v.command = NpmRun(s)
    BY <2>2, NodeCommand
  <2> QED
    BY <2>1, <2>2, <2>3, ToolAndScript
<1> DEFINE v == CASE StackOf(file) = "node"   -> NodeVerdict(dir, files[file])
                  [] StackOf(file) = "maven"  -> MavenVerdict(files, files[file])
                  [] StackOf(file) = "gradle" -> GradleVerdict(files, files[file])
                  [] StackOf(file) = "rust"   -> RustVerdict(files)
                  [] OTHER -> Verdict("EVIDENCE_ONLY", NoCommand, <<>>)
<1>8. ASSUME StackOf(file) # "node"
      PROVE  Fine(v) /\ file # "package.json"
  <2> HIDE DEF Fine
  <2>1. Fine(Verdict("EVIDENCE_ONLY", NoCommand, <<>>))
    BY <1>1 DEF Fine
  <2>2. StackOf("package.json") = "node"
    BY DEF StackOf
  <2> QED
    BY <1>4, <1>5, <1>6, <1>8, <2>1, <2>2
<1>9. /\ Candidate(dir, file, files).command = v.command
      /\ Candidate(dir, file, files).file = file
  BY DEF Candidate
<1>10. CASE StackOf(file) = "node"
  <2>1. v = NodeVerdict(dir, files[file])
    BY <1>10
  <2> HIDE DEF v
  <2> QED
    BY <1>7, <1>9, <1>10, <2>1 DEF ChainedByName
<1>11. CASE StackOf(file) # "node"
  <2> HIDE DEF v
  <2> QED
    BY <1>8, <1>9, <1>11 DEF ChainedByName
<1> QED
  BY <1>10, <1>11

\* What a scan on a disk at rest suggests can be saved, but for that.
LEMMA Suggested ==
  ASSUME ScanInv, ExactInv
  PROVE  SuggestionCanBeSaved
<1> SUFFICES ASSUME phase = "done", calm, NEW c \in out, c.command # NoCommand
             PROVE  /\ validate_command_policy(c.command) <=> ~ChainedByName(c)
                    /\ LiesWithin(c.dir, tree.leads[root])
  BY DEF SuggestionCanBeSaved
<1>1. /\ out = Expected /\ root \in Paths /\ tree.leads[root] = root /\ tree \in Trees
      /\ ~Hopeless
  BY DEF ExactInv, ScanExact, ScanInv
<1> DEFINE Suggests(d, file) ==
        LET e == Candidate(d, file, tree.files[d]) IN
        c = IF e.stack \in JavaBuilds /\ TwoJavaBuilds(tree.files[d])
            THEN [e EXCEPT !.status = "CONFLICT", !.group = <<"java-build-system", d>>] ELSE e
<1>2. \E d \in Reached : \E file \in FirstEvidence(tree.files[d]) : Suggests(d, file)
  BY <1>1 DEF Expected
<1>3. PICK d \in Reached : \E file \in FirstEvidence(tree.files[d]) : Suggests(d, file)
  BY <1>2
<1>4. PICK file \in FirstEvidence(tree.files[d]) : Suggests(d, file)
  BY <1>3
<1> DEFINE e == Candidate(d, file, tree.files[d])
<1>5. c.command = e.command /\ c.file = e.file /\ c.dir = e.dir /\ e.dir = d
  <2>1. e = [dir |-> e.dir, file |-> e.file, stack |-> e.stack,
             status |-> e.status, command |-> e.command, group |-> e.group] /\ e.dir = d
    BY DEF Candidate
  <2> HIDE DEF e
  <2> QED
    BY <1>4, <2>1 DEF e
<1>6. d \in Paths /\ tree.leads[d] = d /\ Within(d, root)
  <2>1. MAX_SCAN_DEPTH \in 1 .. MAX_SCAN_DEPTH
    BY ScanAssumption
  <2> QED
    BY <1>1, <2>1, ReachedPlaces DEF Reached
<1>7. file \in EvidenceIn(tree.files[d]) /\ file \in DOMAIN tree.files[d]
  BY <1>4 DEF FirstEvidence, EvidenceIn
<1>8. ASSUME file = "package.json"
      PROVE  tree.files[d][file] \in SUBSET Seq(STRING) /\ IsFiniteSet(tree.files[d][file])
  <2>1. StackOf(file) \in ReadsContent
    BY <1>8 DEF StackOf, ReadsContent
  <2>2. Unreadable \notin tree.files[d][file]
    BY <1>1, <1>7, <2>1 DEF Hopeless
  <2>3. Scripts(tree.files[d]) = tree.files[d][file]
    BY <1>8, <2>2 DEF Scripts
  <2> QED
    BY <1>1, <1>6, <1>7, <1>8, <2>3, ScanAssumption
<1>9. e.command # NoCommand => (validate_command_policy(e.command) <=> ~ChainedByName(e))
  BY <1>7, <1>8, SuggestedCommand
<1>10. ChainedByName(c) <=> ChainedByName(e)
  BY <1>5 DEF ChainedByName
<1> QED
  BY <1>1, <1>5, <1>6, <1>9, <1>10, ScanAssumption DEF LiesWithin

-----------------------------------------------------------------------------
(* The commands.                                                           *)

\* Nothing was scanned, saved, issued or started yet.
LEMMA LaunchInit == Init => LaunchInv
<1> SUFFICES ASSUME Init PROVE LaunchInv
  OBVIOUS
<1>1. ScanInv /\ ExactInv
  BY ScanAssumption DEF Init, ScanInit, ScanInv, ExactInv, ScanExact
<1>2. ProfilesOK /\ CommandOK
  BY DEF Init, ProfilesOK, CommandOK
<1>3. \A s \in Sessions : ran[s].token = NoToken
  BY DEF Init, NotRun
<1>4. TokensOK
  BY <1>3, LaunchAssumption DEF Init, Once!Init, TokensOK
<1>5. RunsOK /\ StartedWasConfirmed
  BY <1>3 DEF Init, RunsOK, StartedWasConfirmed, Started
<1> QED
  BY <1>1, <1>2, <1>4, <1>5 DEF LaunchInv

\* The scanner moves by its own steps, or the disk changes, or all ends.
LEMMA ScanPart == ASSUME LaunchInv, Next PROVE ScanInv'
<1> USE DEF LaunchInv
<1>1. CASE Scan
  BY <1>1, ScanKept DEF Scan
<1>2. CASE Disk
  BY <1>2 DEF Disk, ChangeDisk, scanVars, ScanInv, MayDescend, Level
<1>3. CASE Restart
  BY <1>3, ScanAssumption DEF Restart, ScanInv, diskVars
<1>4. CASE UNCHANGED <<scanVars, diskVars>>
  BY <1>4 DEF scanVars, diskVars, ScanInv, MayDescend, Level
<1> QED
  BY <1>1, <1>2, <1>3, <1>4
     DEF Next, SaveBegin, IssueBegin, StartBegin, Begin, RemoveProfile, CheckRoot, CheckWorkdir,
         FinishSave, FinishIssue, Consume, Spawn, Import, SessionEnds

\* A changed disk is no disk at rest, and a restart leaves no scan.
LEMMA ExactPart == ASSUME LaunchInv, Next PROVE ExactInv'
<1> USE DEF LaunchInv
<1>1. CASE Scan
  BY <1>1, ExactKept DEF Scan
<1>2. CASE Disk
  BY <1>2 DEF Disk, ChangeDisk, ExactInv
<1>3. CASE Restart
  BY <1>3 DEF Restart, ExactInv, ScanExact
<1>4. CASE UNCHANGED <<scanVars, diskVars>>
  BY <1>4, ExactFrame
<1> QED
  BY <1>1, <1>2, <1>3, <1>4
     DEF Next, SaveBegin, IssueBegin, StartBegin, Begin, RemoveProfile, CheckRoot, CheckWorkdir,
         FinishSave, FinishIssue, Consume, Spawn, Import, SessionEnds

\* Every stored profile has a folder.
LEMMA ProfilesPart == ASSUME LaunchInv, Next PROVE ProfilesOK'
<1> USE DEF LaunchInv, ProfilesOK
<1>1. CASE FinishSave
  <2>1. cmd.dir \in Paths /\ cmd.command \in Seq(STRING)
    BY <1>1 DEF FinishSave, CommandOK, Permitted
  <2> DEFINE saved == [dir |-> cmd.dir, command |-> cmd.command, role |-> cmd.role]
  <2>2. saved.dir = cmd.dir /\ saved.command = cmd.command
    OBVIOUS
  <2>3. \E f \in Profiles : profiles' = profiles \/ profiles' = [profiles EXCEPT ![f] = saved]
    BY <1>1 DEF FinishSave
  <2> HIDE DEF saved
  <2> QED
    BY <2>1, <2>2, <2>3
<1>2. ASSUME NEW f \in Profiles, RemoveProfile(f) PROVE ProfilesOK'
  BY <1>2 DEF RemoveProfile
<1>3. ASSUME NEW stored \in ImportedFiles \cup EditedFiles, profiles' = stored PROVE ProfilesOK'
  BY <1>3, LaunchAssumption
<1>4. CASE UNCHANGED profiles
  BY <1>4
<1>5. CASE Restart
  BY <1>3, <1>4, <1>5 DEF Restart
<1> QED
  BY <1>1, <1>2, <1>3, <1>4, <1>5
     DEF Next, Scan, Disk, SaveBegin, IssueBegin, StartBegin, Begin, CheckRoot, CheckWorkdir,
         FinishIssue, Consume, Spawn, Import, SessionEnds

\* A command that begins knows nothing yet.
LEMMA BeginPart ==
  ASSUME LaunchInv, NEW op, NEW f, NEW t, NEW q, Begin(op, f, t, q), q.dir \in Paths,
         q.command \in Seq(STRING), op = "start" => t \in Tokens
  PROVE  CommandOK'
<1>1. Permitted(Trimmed(q.command))
  BY TrimmedTwice DEF Begin, Permitted
<1> QED
  BY <1>1 DEF Begin, Command, CommandOK

\* A check of a command fills in what it found, a change of the disk that it
\* may be out of date.
LEMMA CheckPart == ASSUME LaunchInv, CheckRoot \/ CheckWorkdir \/ Disk PROVE CommandOK'
<1> USE DEF LaunchInv
<1>0. UNCHANGED <<tokenVars, ran>>
  BY DEF CheckRoot, CheckWorkdir, Disk
<1>1. CASE CheckRoot
  BY <1>0, <1>1 DEF CheckRoot, Refuse, CommandOK, tokenVars
<1>2. CASE CheckWorkdir
  <2>1. CASE cmd' = Idle
    BY <2>1 DEF CommandOK
  <2>2. CASE /\ LiesWithin(cmd.dir, cmd.root)
             /\ cmd' = [cmd EXCEPT !.dir = tree.leads[cmd.dir], !.step = "finish"]
    <3>1. /\ cmd.dir \in Paths
          /\ tree.leads[cmd.dir] \in Paths
          /\ tree.leads[tree.leads[cmd.dir]] = tree.leads[cmd.dir]
          /\ Within(tree.leads[cmd.dir], cmd.root)
      BY <1>2, <2>2, ScanAssumption DEF CheckWorkdir, CommandOK, LiesWithin, ScanInv
    <3>2. tree' = tree
      BY <1>2 DEF CheckWorkdir, diskVars
    <3>3. cmd' = [op |-> cmd.op, step |-> "finish", profile |-> cmd.profile,
                  token |-> cmd.token, dir |-> tree.leads[cmd.dir],
                  command |-> cmd.command, role |-> cmd.role, root |-> cmd.root,
                  moved |-> cmd.moved]
      BY <1>2, <2>2 DEF CheckWorkdir, CommandOK
    <3>4. Permitted(cmd.command) /\ (cmd.op = "start" => cmd.token \in Tokens)
      BY <1>2 DEF CheckWorkdir, CommandOK
    <3> QED
      BY <3>1, <3>2, <3>3, <3>4 DEF CommandOK
  <2> QED
    BY <1>2, <2>1, <2>2 DEF CheckWorkdir, Refuse
<1>3. CASE Disk
  <2>1. CASE cmd = Idle
    BY <1>3, <2>1 DEF Disk, CommandOK
  <2>2. CASE cmd # Idle /\ cmd.step \notin {"finish", "spawn"}
    BY <1>0, <1>3, <2>2 DEF Disk, CommandOK
  <2>3. CASE cmd # Idle /\ cmd.step \in {"finish", "spawn"}
    <3>1. cmd' = [op |-> cmd.op, step |-> cmd.step, profile |-> cmd.profile,
                  token |-> cmd.token, dir |-> cmd.dir,
                  command |-> cmd.command, role |-> cmd.role, root |-> cmd.root,
                  moved |-> TRUE]
      BY <1>3, <2>3 DEF Disk, CommandOK
    <3>2. Asked' = Asked
      BY <3>1 DEF Asked
    <3> QED
      BY <1>0, <2>3, <3>1, <3>2 DEF CommandOK, tokenVars
  <2> QED
    BY <2>1, <2>2, <2>3
<1> QED
  BY <1>1, <1>2, <1>3

\* What is consumed is spent for what the command asks, for the first time.
LEMMA ConsumePart == ASSUME LaunchInv, Consume PROVE CommandOK' /\ TokensOK' /\ StartedWasConfirmed'
<1> USE DEF LaunchInv
<1>1. /\ cmd # Idle /\ cmd.step = "finish" /\ cmd.op = "start"
      /\ UNCHANGED <<tree, ran>>
  BY DEF Consume, diskVars
<1>2. cmd.token \in Tokens
  BY <1>1 DEF CommandOK
<1>3. CASE cmd' = Idle /\ UNCHANGED tokenVars
  BY <1>1, <1>3 DEF CommandOK, TokensOK, StartedWasConfirmed, Started, tokenVars
<1>4. CASE cmd' = Idle /\ Once!Lose(cmd.token)
  BY <1>1, <1>2, <1>4 DEF CommandOK, TokensOK, StartedWasConfirmed, Started, Once!Lose
<1>5. CASE Matches(cmd.token) /\ Once!Spend(cmd.token) /\ cmd' = [cmd EXCEPT !.step = "spawn"]
  <2>1. /\ spent[cmd.token] = <<>>
        /\ \A s \in Sessions : ran[s].token # cmd.token
    BY <1>2, <1>5 DEF TokensOK, Once!Spend
  <2>2. spent'[cmd.token] = <<Asked>>
    <3>1. spent'[cmd.token] = Append(spent[cmd.token], bound[cmd.token])
      BY <1>2, <1>5 DEF Once!Spend, TokensOK
    <3> QED
      BY <1>5, <2>1, <3>1 DEF Matches
  <2>3. cmd' = [op |-> cmd.op, step |-> "spawn", profile |-> cmd.profile,
                token |-> cmd.token, dir |-> cmd.dir,
                command |-> cmd.command, role |-> cmd.role, root |-> cmd.root,
                moved |-> cmd.moved]
    BY <1>1, <1>5 DEF CommandOK
  <2>4. Asked' = Asked
    BY <2>3 DEF Asked
  <2>5. /\ tokenLife' = [tokenLife EXCEPT ![cmd.token] = "spent"]
        /\ \A t \in Tokens : t # cmd.token => spent'[t] = spent[t]
        /\ spent' = [t \in Tokens |-> spent'[t]]
    BY <1>2, <1>5 DEF Once!Spend, TokensOK
  <2>6. CommandOK'
    BY <1>1, <1>2, <2>1, <2>2, <2>3, <2>4, <2>5 DEF CommandOK, TokensOK
  <2>7. TokensOK'
    BY <1>1, <1>2, <2>5 DEF TokensOK
  <2>8. StartedWasConfirmed'
    BY <1>1, <2>1, <2>5 DEF StartedWasConfirmed, Started, RunsOK
  <2> QED
    BY <2>6, <2>7, <2>8
<1> QED
  BY <1>3, <1>4, <1>5 DEF Consume, Refuse

\* A session is started with what its token was spent for.
LEMMA SpawnPart == ASSUME LaunchInv, Spawn PROVE TokensOK' /\ RunsOK' /\ StartedWasConfirmed'
<1> USE DEF LaunchInv
<1>1. cmd # Idle /\ cmd.step = "spawn" /\ UNCHANGED <<tokenLife, bound, spent>>
  BY DEF Spawn, tokenVars
<1>2. CASE UNCHANGED ran
  BY <1>1, <1>2 DEF TokensOK, RunsOK, StartedWasConfirmed, Started
<1>3. ASSUME NEW z \in Sessions, ProfileOf[z] = cmd.profile,
             ran' = [ran EXCEPT ![z] =
                       [asked |-> Asked, token |-> cmd.token, place |-> tree.leads[cmd.dir],
                        root |-> cmd.root, moved |-> cmd.moved]]
      PROVE  TokensOK' /\ RunsOK' /\ StartedWasConfirmed'
  <2>1. /\ cmd.token \in Tokens
        /\ tokenLife[cmd.token] = "spent"
        /\ spent[cmd.token] = <<Asked>>
        /\ \A s \in Sessions : ran[s].token # cmd.token
        /\ Within(cmd.dir, cmd.root) /\ (tree.leads[cmd.dir] = cmd.dir \/ cmd.moved)
        /\ Permitted(cmd.command)
    BY <1>1 DEF CommandOK
  <2>2. /\ ran'[z].asked = Asked /\ ran'[z].token = cmd.token
        /\ ran'[z].place = tree.leads[cmd.dir] /\ ran'[z].root = cmd.root
        /\ ran'[z].moved = cmd.moved
        /\ \A s \in Sessions : s # z => ran'[s] = ran[s]
        /\ ran' = [s \in Sessions |-> ran'[s]]
    BY <1>3 DEF RunsOK
  <2>3. Asked.profile = ProfileOf[z]
    BY <1>3 DEF Asked, Binding
  <2>4. TokensOK'
    BY <1>1, <2>1, <2>2 DEF TokensOK
  <2>5. RunsOK'
    <3>1. Asked.command = cmd.command /\ Asked.dir = cmd.dir
      BY DEF Asked, Binding
    <3> QED
      BY <2>1, <2>2, <3>1 DEF RunsOK, Started
  <2>6. StartedWasConfirmed'
    <3>1. \A s \in Sessions : s # z /\ s \in Started' => s \in Started /\ ran'[s] = ran[s]
      BY <2>2 DEF Started
    <3>2. ASSUME NEW s \in Started'
          PROVE  spent'[ran'[s].token] = <<ran'[s].asked>> /\ ran'[s].asked.profile = ProfileOf[s]
      <4>1. CASE s = z
        BY <1>1, <2>1, <2>2, <2>3, <4>1
      <4>2. CASE s # z
        BY <1>1, <3>1, <4>2 DEF StartedWasConfirmed, Started
      <4> QED
        BY <4>1, <4>2
    <3>3. ASSUME NEW s \in Started', NEW t \in Started', ran'[s].token = ran'[t].token
          PROVE  s = t
      <4>1. s \in Sessions /\ t \in Sessions
        BY DEF Started
      <4>2. CASE s # z /\ t # z
        BY <3>1, <3>3, <4>1, <4>2 DEF StartedWasConfirmed
      <4>3. CASE s = z \/ t = z
        BY <2>1, <2>2, <3>3, <4>1, <4>3
      <4> QED
        BY <4>2, <4>3
    <3> QED
      BY <3>2, <3>3 DEF StartedWasConfirmed
  <2> QED
    BY <2>4, <2>5, <2>6
<1> QED
  BY <1>2, <1>3 DEF Spawn

\* A token is issued once.
LEMMA IssuePart == ASSUME LaunchInv, FinishIssue PROVE TokensOK'
<1>1. PICK t \in Tokens : Once!Issue(t, Asked, {})
  BY DEF FinishIssue
<1> QED
  BY <1>1 DEF FinishIssue, Once!Issue, LaunchInv, TokensOK

\* The tokens that were pending are lost with the program.
LEMMA RestartPart == ASSUME LaunchInv, Restart PROVE TokensOK' /\ StartedWasConfirmed'
BY DEF Restart, LaunchInv, TokensOK, StartedWasConfirmed, Started

\* Every step keeps what a command has found out.
LEMMA CommandPart == ASSUME LaunchInv, Next PROVE CommandOK'
<1>1. CASE SaveBegin
  BY <1>1, BeginPart, LaunchAssumption DEF SaveBegin
<1>2. ASSUME NEW f \in Profiles, IssueBegin(f) PROVE CommandOK'
  BY <1>2, BeginPart DEF IssueBegin, LaunchInv, ProfilesOK
<1>3. ASSUME NEW f \in Profiles, NEW t \in Tokens, StartBegin(f, t) PROVE CommandOK'
  BY <1>3, BeginPart DEF StartBegin, LaunchInv, ProfilesOK
<1>4. CASE cmd' = Idle
  BY <1>4 DEF CommandOK
<1>5. ASSUME cmd = Idle, UNCHANGED cmd PROVE CommandOK'
  BY <1>5 DEF CommandOK
<1>6. ASSUME NEW s \in Sessions, SessionEnds(s) PROVE CommandOK'
  BY <1>6 DEF SessionEnds, LaunchInv, CommandOK, Asked, diskVars, tokenVars
<1> QED
  BY <1>1, <1>2, <1>3, <1>4, <1>5, <1>6, CheckPart, ConsumePart
     DEF Next, Scan, FinishSave, FinishIssue, Spawn, RemoveProfile, Import, Restart, Refuse

\* Every step keeps what the tokens and the sessions remember.
LEMMA MemoryPart == ASSUME LaunchInv, Next PROVE TokensOK' /\ RunsOK' /\ StartedWasConfirmed'
<1> USE DEF LaunchInv
<1>1. ASSUME UNCHANGED ran PROVE RunsOK'
  BY <1>1 DEF RunsOK, Started
<1>2. ASSUME UNCHANGED <<tokenLife, spent, ran>> PROVE TokensOK' /\ StartedWasConfirmed'
  BY <1>2 DEF TokensOK, StartedWasConfirmed, Started
<1>3. CASE Consume
  <2>1. UNCHANGED ran
    BY <1>3 DEF Consume
  <2> QED
    BY <1>1, <1>3, <2>1, ConsumePart
<1>4. CASE Spawn
  BY <1>4, SpawnPart
<1>5. CASE FinishIssue
  <2>1. UNCHANGED <<spent, ran>>
    BY <1>5 DEF FinishIssue, Once!Issue
  <2>2. StartedWasConfirmed'
    BY <2>1 DEF StartedWasConfirmed, Started
  <2> QED
    BY <1>1, <1>5, <2>1, <2>2, IssuePart
<1>6. CASE Restart
  <2>1. UNCHANGED ran
    BY <1>6 DEF Restart
  <2> QED
    BY <1>1, <1>6, <2>1, RestartPart
<1>7. CASE UNCHANGED <<tokenVars, ran>>
  BY <1>1, <1>2, <1>7 DEF tokenVars
<1> QED
  BY <1>3, <1>4, <1>5, <1>6, <1>7
     DEF Next, Scan, Disk, SaveBegin, IssueBegin, StartBegin, Begin, RemoveProfile, CheckRoot,
         CheckWorkdir, FinishSave, Import, SessionEnds

\* Every step keeps every part of the invariant.
LEMMA LaunchStep == LaunchInv /\ [Next]_vars => LaunchInv'
<1>1. ASSUME LaunchInv, Next PROVE LaunchInv'
  BY <1>1, ScanPart, ExactPart, ProfilesPart, CommandPart, MemoryPart DEF LaunchInv
<1>2. ASSUME LaunchInv, UNCHANGED vars PROVE LaunchInv'
  <2>1. ExactInv'
    BY <1>2, ExactFrame DEF LaunchInv, vars
  <2>2. (ScanInv /\ ProfilesOK /\ CommandOK /\ TokensOK /\ RunsOK /\ StartedWasConfirmed)'
    BY <1>2 DEF vars, scanVars, diskVars, runnerVars, tokenVars, LaunchInv, ScanInv, MayDescend,
                Level, ProfilesOK, CommandOK, Asked, TokensOK, RunsOK, StartedWasConfirmed, Started
  <2> QED
    BY <2>1, <2>2 DEF LaunchInv
<1> QED
  BY <1>1, <1>2

-----------------------------------------------------------------------------

\* The inductive invariant holds in every reachable state.
THEOREM LaunchInvariant == Spec => []LaunchInv
BY LaunchInit, LaunchStep, PTL DEF Spec

\* Whatever links there are on the disk and however it changes during a scan,
\* scan_tree is at most MAX_SCAN_DEPTH calls deep and every candidate is one of
\* a folder within the canonical root.
THEOREM ScanStaysInside == Spec => []ScanConfined
<1>1. LaunchInv => ScanConfined
  BY DEF LaunchInv, ScanInv, ScanConfined
<1> QED
  BY <1>1, LaunchInvariant, PTL

\* However the entries of a folder are ordered and links lead, a scan the disk
\* did not change under finds the first evidence of each stack in every folder
\* scan_tree reaches, marked as mark_conflicts does, and nothing else; and it
\* fails only for a root or a build file that cannot be read.
THEOREM ScanIsExact == Spec => []ScanExact
<1>1. LaunchInv => ScanExact
  BY DEF LaunchInv, ExactInv, ScanExact
<1> QED
  BY <1>1, LaunchInvariant, PTL

\* Whatever names a project gives to its scripts: what a scan of a disk at rest
\* suggests passes validate_command_policy, and its folder the check of the
\* launch commands, but for `npm run` of a script whose own name makes it a
\* chain. Such a suggestion is refused (build_candidate offers it all the same).
THEOREM SuggestionsAreSavable == Spec => []SuggestionCanBeSaved
<1>1. LaunchInv => SuggestionCanBeSaved
  BY Suggested DEF LaunchInv
<1> QED
  BY <1>1, LaunchInvariant, PTL

\* A session runs exactly what the user confirmed with its token, in that
\* folder and for that profile, and no token started two sessions: whatever was
\* saved, imported or edited between issue_confirmation and consume_confirmation.
THEOREM OnlyTheConfirmedIsStarted == Spec => []StartedWasConfirmed
<1>1. LaunchInv => StartedWasConfirmed
  BY DEF LaunchInv
<1> QED
  BY <1>1, LaunchInvariant, PTL

\* The folder a start has confirmed lies within the root it has resolved, and the
\* process begins in it, unless the disk changed after the folder was resolved
\* (validated_workdir_for_project, CommandRunnerState::start).
THEOREM StartsInside == Spec => []StartedInsideProject
<1>1. LaunchInv => StartedInsideProject
  BY DEF LaunchInv, RunsOK, StartedInsideProject
<1> QED
  BY <1>1, LaunchInvariant, PTL

\* Whichever way a command line came into the configuration, what a session
\* runs is one command, not a chain, and not a blocked one
\* (validate_command_policy at the start of start_launch_profile_safe).
THEOREM OnlyPermittedIsStarted == Spec => []StartedIsPermitted
<1>1. LaunchInv => StartedIsPermitted
  BY PolicyHolds DEF LaunchInv, RunsOK, StartedIsPermitted
<1> QED
  BY <1>1, LaunchInvariant, PTL

=============================================================================
