--------------------------- MODULE SettingsProofs ---------------------------
(***************************************************************************)
(* Theorems about the settings, the pages that read and write them, and    *)
(* what detection lists, for any kinds, paths, machines, forms and files,  *)
(* and any number of pages opened.                                         *)
(*                                                                         *)
(* Calls and answers are two queues. Each conjunct of SettingsInv says     *)
(* what is on them: that who waits is waited for (RestInv), that one       *)
(* override is saved at a time (SavingInv), that old changes are run       *)
(* before the page lists (OrderInv), and from that, that listings are true *)
(* (FreshInv).                                                             *)
(***************************************************************************)
EXTENDS Settings, SequenceTheorems, WellFoundedInduction, TLAPS

\* The first element of a sequence is taken off.
LEMMA Shorter ==
  ASSUME NEW q, q \in Seq(Range(q)), q # <<>>
  PROVE  LET t == Tail(q) IN
         /\ t \in Seq(Range(t))
         /\ DOMAIN t = 1 .. Len(q) - 1
         /\ \A i \in DOMAIN t : i + 1 \in DOMAIN q /\ t[i] = q[i + 1]
         /\ Head(q) = q[1] /\ 1 \in DOMAIN q
         /\ \A i \in DOMAIN q : i # 1 => i - 1 \in DOMAIN t /\ t[i - 1] = q[i]
         /\ DOMAIN q = 1 .. Len(q) /\ Len(q) \in Nat
<1> DEFINE t == Tail(q)
<1>1. /\ t \in Seq(Range(q)) /\ Len(t) = Len(q) - 1
      /\ \A i \in 1 .. Len(q) - 1 : t[i] = q[i + 1]
      /\ DOMAIN q = 1 .. Len(q) /\ Len(q) \in Nat /\ Len(q) # 0
  BY HeadTailProperties, LenProperties, EmptySeq
<1>2. DOMAIN t = 1 .. Len(q) - 1 /\ t \in [1 .. Len(q) - 1 -> Range(q)]
  BY <1>1, LenProperties
<1>3. t \in Seq(Range(t))
  <2>1. t \in [1 .. Len(q) - 1 -> Range(t)]
    BY <1>1, <1>2 DEF Range
  <2>2. Seq(Range(t)) = UNION {[1 .. n -> Range(t)] : n \in Nat}
    BY SeqDef
  <2>3. Len(q) - 1 \in Nat
    BY <1>1
  <2> HIDE DEF t
  <2> QED
    BY <2>1, <2>2, <2>3
<1>4. Head(q) = q[1]
  OBVIOUS
<1> QED
  BY <1>1, <1>2, <1>3, <1>4

\* An element is put at the end.
LEMMA Longer ==
  ASSUME NEW q, q \in Seq(Range(q)), NEW x
  PROVE  LET a == Append(q, x) IN
         /\ a \in Seq(Range(a)) /\ a # <<>>
         /\ DOMAIN a = 1 .. Len(q) + 1
         /\ \A i \in DOMAIN q : a[i] = q[i]
         /\ a[Len(q) + 1] = x
         /\ DOMAIN q = 1 .. Len(q) /\ Len(q) \in Nat
<1> DEFINE S == Range(q) \cup {x}
           a == Append(q, x)
<1>1. q \in Seq(S)
  BY SeqMonotonic
<1>2. /\ a \in Seq(S) /\ Len(a) = Len(q) + 1
      /\ \A i \in 1 .. Len(q) : a[i] = q[i]
      /\ a[Len(q) + 1] = x
      /\ DOMAIN q = 1 .. Len(q) /\ Len(q) \in Nat
  BY <1>1, AppendProperties, LenProperties
<1>3. DOMAIN a = 1 .. Len(q) + 1 /\ a \in [1 .. Len(q) + 1 -> S]
  BY <1>2, LenProperties
<1>4. a \in Seq(Range(a))
  <2>1. a \in [1 .. Len(q) + 1 -> Range(a)]
    BY <1>2, <1>3 DEF Range
  <2>2. Seq(Range(a)) = UNION {[1 .. n -> Range(a)] : n \in Nat}
    BY SeqDef
  <2>3. Len(q) + 1 \in Nat
    BY <1>2
  <2> HIDE DEF a
  <2> QED
    BY <2>1, <2>2, <2>3
<1>5. a # <<>>
  BY <1>2, EmptySeq
<1> QED
  BY <1>2, <1>3, <1>4, <1>5

\* An answer still says what the call said.
LEMMA Answers ==
  ASSUME NEW w, DOMAIN w = {"op", "by", "mount", "arg"}
  PROVE  /\ \A s : LET a == With(w, [settings |-> s]) IN
              a.op = w.op /\ a.by = w.by /\ a.mount = w.mount /\ a.arg = w.arg /\ a.settings = s
         /\ \A s : LET a == With(w, [ok |-> s]) IN
              a.op = w.op /\ a.by = w.by /\ a.mount = w.mount /\ a.arg = w.arg /\ a.ok = s
         /\ \A s : LET a == With(w, [rows |-> s]) IN
              a.op = w.op /\ a.by = w.by /\ a.mount = w.mount /\ a.arg = w.arg /\ a.rows = s
BY DEF With

\* What the list command is called with.
LEMMA ListArg ==
  ASSUME NEW r, DOMAIN r = {"generation", "force", "saves"}, NEW s
  PROVE  LET a == With(r, [enabled |-> s]) IN
         a.generation = r.generation /\ a.force = r.force /\ a.saves = r.saves /\ a.enabled = s
BY DEF With

-----------------------------------------------------------------------------
(* Types, and what travels between page and backend.                       *)

\* What waits to be run or to be taken has its type.
LEMMA Heads ==
  ASSUME WireInv
  PROVE  /\ calls # <<>> =>
              /\ CallOK(Head(calls), mount, generation)
              /\ CallOK(calls[1], mount, generation)
              /\ Head(calls) = calls[1]
         /\ answers # <<>> =>
              /\ AnswerOK(Head(answers), mount, generation)
              /\ AnswerOK(answers[1], mount, generation)
              /\ Head(answers) = answers[1]
BY Shorter DEF WireInv

\* Tidying an acceptable form keeps its hints and kinds, and is done once.
LEMMA Normal ==
  ASSUME NEW s \in AppSettings, Acceptable(s)
  PROVE  /\ Normalized(s) \in AppSettings
         /\ Normalized(s).hints = s.hints /\ Normalized(s).disabled = s.disabled
         /\ Normalized(s).guarded = Tidied[s.guarded]
         /\ Tidied[Normalized(s).guarded] = Normalized(s).guarded
BY SettingsAssumption DEF AppSettings, Acceptable, Normalized

\* Every step keeps the types.
LEMMA TypeStep ==
  ASSUME TypeOK, WireInv, [Next]_vars
  PROVE  TypeOK'
<1> USE DEF backendVars, wireVars, routeVars, envVars, formVars, history
<1>1. CASE Runs
  <2>0. calls # <<>> /\ CallOK(Head(calls), mount, generation)
    BY <1>1, Heads DEF Runs, RunGet, RunSave, RunImport, RunOverride, RunList, IsNext
  <2>1. CASE RunGet
    BY <2>1 DEF RunGet, Answered, TypeOK
  <2>2. CASE RunSave
    <3>1. Head(calls).arg.settings \in AppSettings
      BY <2>0, <2>2 DEF RunSave, IsNext, CallOK, ItemOK
    <3>3. stored' \in AppSettings
      BY <2>2, <3>1, Normal DEF RunSave, Failed, TypeOK
    <3> QED
      BY <2>2, <3>3 DEF RunSave, Answered, Failed, TypeOK
  <2>3. CASE RunImport
    <3>1. Head(calls).arg.settings \in AppSettings /\ Head(calls).arg.overrides \in PathChoices
      BY <2>0, <2>3, SettingsAssumption DEF RunImport, IsNext, CallOK, ItemOK
    <3>3. stored' \in AppSettings /\ overrides' \in PathChoices
      BY <2>3, <3>1, Normal DEF RunImport, Failed, TypeOK
    <3> QED
      BY <2>3, <3>3 DEF RunImport, Answered, Failed, TypeOK
  <2>4. CASE RunOverride
    <3>1. Head(calls).arg.path \in Paths
      BY <2>0, <2>4 DEF RunOverride, IsNext, CallOK, ItemOK
    <3>2. overrides' \in PathChoices
      BY <2>4, <3>1 DEF RunOverride, Failed, TypeOK, PathChoices
    <3> QED
      BY <2>4, <3>2 DEF RunOverride, Answered, Failed, TypeOK
  <2>5. CASE RunList
    BY <2>5 DEF RunList, Answered, TypeOK
  <2> QED
    BY <1>1, <2>1, <2>2, <2>3, <2>4, <2>5 DEF Runs
<1>2. CASE Takes
  <2>0. answers # <<>> /\ AnswerOK(Head(answers), mount, generation)
    BY <1>2, Heads DEF Takes, Arrives, TakeTheme, TakePersist, TakePersisted, TakeManual,
       TakeLoad, TakeRows, TakeForm, TakeOperated, TakeReload
  <2>1. CASE TakeTheme
    <3>1. theme' \in Themes
      BY <2>0, <2>1 DEF TakeTheme, Arrives, AnswerOK, AppSettings
    <3> QED
      BY <2>1, <3>1 DEF TakeTheme, Taken, TypeOK
  <2>2. CASE TakePersist \/ TakePersisted \/ TakeOperated
    <3>1. busy' \in BOOLEAN
      BY <2>2 DEF TakePersist, TakePersisted, TakeOperated, EndOperation, TypeOK
    <3> QED
      BY <2>2, <3>1 DEF TakePersist, TakePersisted, TakeOperated, Taken, TypeOK
  <2>3. CASE TakeManual
    <3>1. Head(answers).mount \in 1 .. MaxMounts
      <4>1. Head(answers).mount \in 0 .. mount /\ Head(answers).mount # 0
        BY <2>0, <2>3 DEF TakeManual, Arrives, AnswerOK, ItemOK
      <4> QED
        BY <4>1, SettingsAssumption DEF TypeOK
    <3>2. saving' \in BOOLEAN /\ loading' \in BOOLEAN /\ generation' \in [1 .. MaxMounts -> Nat]
      <4>1. saving' \in BOOLEAN /\ loading' \in BOOLEAN
        BY <2>3 DEF TakeManual, Load, OnScreen, TypeOK
      <4>2. generation[Head(answers).mount] + 1 \in Nat
        BY <3>1 DEF TypeOK
      <4>3. generation' \in [1 .. MaxMounts -> Nat]
        BY <2>3, <4>2 DEF TakeManual, Load, NextGeneration, TypeOK
      <4> QED
        BY <4>1, <4>3
    <3> QED
      BY <2>3, <3>2 DEF TakeManual, Load, Taken, TypeOK
  <2>4. CASE TakeLoad
    <3>1. saving' \in BOOLEAN
      BY <2>4 DEF TakeLoad, EndSaving, TypeOK
    <3> QED
      BY <2>4, <3>1 DEF TakeLoad, Taken, TypeOK
  <2>5. CASE TakeRows
    <3>1. saving' \in BOOLEAN /\ loading' \in BOOLEAN
      BY <2>5 DEF TakeRows, EndSaving, Shown, TypeOK
    <3>2. enabled' \subseteq Kinds
      BY <2>0, <2>5 DEF TakeRows, Shown, Arrives, AnswerOK, ItemOK, TypeOK
    <3> QED
      BY <2>5, <3>1, <3>2 DEF TakeRows, Taken, TypeOK
  <2>6. CASE TakeForm
    <3>1. form' \in AppSettings /\ ready' \in BOOLEAN
      BY <2>0, <2>6 DEF TakeForm, Arrives, AnswerOK, TypeOK
    <3> QED
      BY <2>6, <3>1 DEF TakeForm, Taken, TypeOK
  <2>7. CASE TakeReload
    <3>1. form' \in AppSettings /\ theme' \in Themes
      BY <2>0, <2>7 DEF TakeReload, Arrives, Persist, AnswerOK, TypeOK, AppSettings
    <3> QED
      BY <2>7, <3>1 DEF TakeReload, Persist, Taken, TypeOK
  <2> QED
    BY <1>2, <2>1, <2>2, <2>3, <2>4, <2>5, <2>6, <2>7 DEF Takes
<1>3. CASE User
  <2>1. CASE \E t \in Themes : ChangeTheme(t)
    BY <2>1 DEF ChangeTheme, Click, Persist, TypeOK
  <2>2. CASE OpenEnvironments
    <3>1. mount' \in 1 .. MaxMounts
      BY <2>2, SettingsAssumption DEF OpenEnvironments, Mounted, TypeOK
    <3>2. Left \in [1 .. MaxMounts -> Nat]
      BY DEF Left, TypeOK
    <3>3. generation' \in [1 .. MaxMounts -> Nat]
      BY <2>2, <3>2 DEF OpenEnvironments
    <3>4. form' \in AppSettings
      BY <2>2, SettingsAssumption DEF OpenEnvironments, Mounted
    <3>5. {loading', saving', ready', busy'} \subseteq BOOLEAN
      BY <2>2 DEF OpenEnvironments, Mounted, TypeOK
    <3> QED
      BY <2>2, <3>1, <3>3, <3>4, <3>5, SettingsAssumption DEF OpenEnvironments, Mounted, TypeOK
  <2>3. CASE OpenSettings
    <3>1. mount' \in 1 .. MaxMounts
      BY <2>3, SettingsAssumption DEF OpenSettings, Mounted, TypeOK
    <3>2. Left \in [1 .. MaxMounts -> Nat]
      BY DEF Left, TypeOK
    <3>3. generation' \in [1 .. MaxMounts -> Nat]
      BY <2>3, <3>2 DEF OpenSettings
    <3>4. form' \in AppSettings
      BY <2>3, SettingsAssumption DEF OpenSettings, Mounted
    <3>5. {loading', saving', ready', busy'} \subseteq BOOLEAN
      BY <2>3 DEF OpenSettings, Mounted, TypeOK
    <3> QED
      BY <2>3, <3>1, <3>3, <3>4, <3>5, SettingsAssumption DEF OpenSettings, Mounted, TypeOK
  <2>4. CASE Refresh
    <3>1. generation' \in [1 .. MaxMounts -> Nat] /\ loading' \in BOOLEAN
      BY <2>4 DEF Refresh, Load, NextGeneration, TypeOK
    <3> QED
      BY <2>4, <3>1 DEF Refresh, Click, Load, TypeOK
  <2>5. CASE \E k \in Kinds, p \in Paths : SaveManual(k, p)
    BY <2>5 DEF SaveManual, Click, TypeOK
  <2>6. CASE EditAny
    <3>1. form' \in AppSettings
      <4>1. CASE \E l \in Lists : Edit("guarded", l)
        BY <4>1 DEF Edit, TypeOK, AppSettings
      <4>2. CASE \E k \in Kinds, p \in Paths \cup {NoPath} :
                   Edit("hints", [form.hints EXCEPT ![k] = p])
        BY <4>2 DEF Edit, TypeOK, AppSettings, PathChoices
      <4>3. CASE \E k \in Kinds :
                   Edit("disabled", IF k \in form.disabled THEN form.disabled \ {k}
                                                           ELSE form.disabled \cup {k})
        BY <4>3 DEF Edit, TypeOK, AppSettings
      <4> QED
        BY <2>6, <4>1, <4>2, <4>3 DEF EditAny
    <3>2. /\ clicks' = clicks + 1
          /\ UNCHANGED <<backendVars, wireVars, theme, routeVars, envVars, ready, busy, history>>
      BY <2>6 DEF EditAny, Edit, Click
    <3> QED
      BY <3>1, <3>2 DEF TypeOK
  <2>7. CASE SaveForm \/ \E file \in Imports : Import(file)
    <3>1. PICK op, arg : Operate(op, arg)
      BY <2>7 DEF SaveForm, Import
    <3>2. /\ clicks' = clicks + 1 /\ busy' = TRUE
          /\ UNCHANGED <<backendVars, answers, theme, routeVars, envVars, form, ready, history>>
      BY <3>1 DEF Operate, Click
    <3> QED
      BY <3>2 DEF TypeOK
  <2> QED
    BY <1>3, <2>1, <2>2, <2>3, <2>4, <2>5, <2>6, <2>7 DEF User
<1>4. CASE CacheExpires
  BY <1>4 DEF CacheExpires, TypeOK
<1>5. CASE UNCHANGED vars
  BY <1>5 DEF vars, TypeOK
<1> QED
  BY <1>1, <1>2, <1>3, <1>4, <1>5 DEF Next

\* Mounts are added and generations grow.
LEMMA Grows ==
  ASSUME TypeOK, WireInv, [Next]_vars
  PROVE  /\ mount \in Nat /\ mount' \in Nat /\ mount <= mount'
         /\ generation \in [1 .. MaxMounts -> Nat] /\ generation' \in [1 .. MaxMounts -> Nat]
         /\ \A m \in 1 .. mount : generation[m] <= generation'[m]
<1> USE DEF backendVars, wireVars, routeVars, envVars, formVars, history
<1>1. CASE UNCHANGED routeVars /\ UNCHANGED generation
  BY <1>1, SettingsAssumption DEF TypeOK
<1>2. CASE UNCHANGED routeVars /\ \E m, force, saves : Load(m, force, saves)
  <2>1. PICK m, force, saves : Load(m, force, saves)
    BY <1>2
  <2>2. \A k \in 1 .. MaxMounts : generation'[k] = IF k = m THEN generation[m] + 1 ELSE generation[k]
    BY <2>1 DEF Load, NextGeneration, TypeOK
  <2>3. TypeOK'
    BY TypeStep
  <2> QED
    BY <1>2, <2>2, <2>3, SettingsAssumption DEF TypeOK
<1>3. CASE OpenEnvironments \/ OpenSettings
  <2>1. mount' = mount + 1
    BY <1>3 DEF OpenEnvironments, OpenSettings, Mounted
  <2>2. \A k \in 1 .. MaxMounts : generation[k] <= Left[k]
    BY DEF Left, TypeOK
  <2>3. Left \in [1 .. MaxMounts -> Nat]
    BY DEF Left, TypeOK
  <2>4. \A k \in 1 .. mount : k \in 1 .. MaxMounts /\ k # mount'
    BY <2>1, SettingsAssumption DEF TypeOK
  <2>5. \A k \in 1 .. mount : generation'[k] = Left[k]
    BY <1>3, <2>3, <2>4 DEF OpenEnvironments, OpenSettings
  <2>6. TypeOK'
    BY TypeStep
  <2> QED
    BY <2>1, <2>2, <2>4, <2>5, <2>6, SettingsAssumption DEF TypeOK
<1> QED
  BY <1>1, <1>2, <1>3 DEF Next, Runs, Takes, User, CacheExpires, vars, RunGet, RunSave, RunImport,
     RunOverride, RunList, Answered, Failed, TakeTheme, TakePersist, TakePersisted, TakeManual,
     TakeLoad, TakeRows, TakeForm, TakeOperated, TakeReload, Taken, ChangeTheme, Refresh,
     SaveManual, EditAny, Edit, SaveForm, Import, Operate

\* What is on its way keeps its type when mounts and generations grow.
LEMMA ItemsStay ==
  ASSUME TypeOK, WireInv, [Next]_vars, NEW w
  PROVE  /\ CallOK(w, mount, generation) => CallOK(w, mount', generation')
         /\ AnswerOK(w, mount, generation) => AnswerOK(w, mount', generation')
         /\ ItemOK(w, mount, generation) => ItemOK(w, mount', generation')
<1>1. TypeOK' /\ TypeOK
  BY TypeStep
<1>2. ItemOK(w, mount, generation) => ItemOK(w, mount', generation')
  <2> SUFFICES ASSUME ItemOK(w, mount, generation)
               PROVE  ItemOK(w, mount', generation')
    OBVIOUS
  <2>1. w.mount \in 0 .. mount'
    BY Grows DEF ItemOK
  <2>2. w.by = "load" => w.arg.generation \in 0 .. generation'[w.mount]
    <3> SUFFICES ASSUME w.by = "load"
                 PROVE  w.arg.generation \in 0 .. generation'[w.mount]
      OBVIOUS
    <3>1. w.mount \in 1 .. mount /\ w.mount \in 1 .. MaxMounts
      BY <1>1, SettingsAssumption DEF ItemOK, TypeOK
    <3>2. /\ w.arg.generation \in 0 .. generation[w.mount]
          /\ generation[w.mount] \in Nat /\ generation'[w.mount] \in Nat
          /\ generation[w.mount] <= generation'[w.mount]
      BY <3>1, Grows DEF ItemOK
    <3> QED
      BY <3>2
  <2> QED
    BY <2>1, <2>2 DEF ItemOK
<1> QED
  BY <1>2 DEF CallOK, AnswerOK

\* Calls and answers are taken from the head and put at the end.
CallsMove ==
  \/ calls' = calls
  \/ calls # <<>> /\ calls' = Tail(calls)
  \/ \E c : calls' = Append(calls, c) /\ CallOK(c, mount', generation')

AnswersMove ==
  \/ answers' = answers
  \/ answers # <<>> /\ answers' = Tail(answers)
  \/ \E a : answers' = Append(answers, a) /\ AnswerOK(a, mount', generation')

\* The two queues keep their types when they move as they should.
LEMMA WireMoves ==
  ASSUME TypeOK, WireInv, [Next]_vars, CallsMove, AnswersMove
  PROVE  WireInv'
<1>1. /\ calls' \in Seq(Range(calls'))
      /\ \A i \in DOMAIN calls' : CallOK(calls'[i], mount', generation')
  <2>1. CASE calls' = calls
    BY <2>1, ItemsStay DEF WireInv
  <2>2. CASE calls # <<>> /\ calls' = Tail(calls)
    BY <2>2, ItemsStay, Shorter DEF WireInv
  <2>3. CASE \E c : calls' = Append(calls, c) /\ CallOK(c, mount', generation')
    <3>1. PICK c : calls' = Append(calls, c) /\ CallOK(c, mount', generation')
      BY <2>3
    <3>2. \A i \in DOMAIN calls' : i \in DOMAIN calls \/ i = Len(calls) + 1
      BY <3>1, Longer DEF WireInv
    <3> QED
      BY <3>1, <3>2, ItemsStay, Longer DEF WireInv
  <2> QED
    BY <2>1, <2>2, <2>3 DEF CallsMove
<1>2. /\ answers' \in Seq(Range(answers'))
      /\ \A i \in DOMAIN answers' : AnswerOK(answers'[i], mount', generation')
  <2>1. CASE answers' = answers
    BY <2>1, ItemsStay DEF WireInv
  <2>2. CASE answers # <<>> /\ answers' = Tail(answers)
    BY <2>2, ItemsStay, Shorter DEF WireInv
  <2>3. CASE \E a : answers' = Append(answers, a) /\ AnswerOK(a, mount', generation')
    <3>1. PICK a : answers' = Append(answers, a) /\ AnswerOK(a, mount', generation')
      BY <2>3
    <3>2. \A i \in DOMAIN answers' : i \in DOMAIN answers \/ i = Len(answers) + 1
      BY <3>1, Longer DEF WireInv
    <3> QED
      BY <3>1, <3>2, ItemsStay, Longer DEF WireInv
  <2> QED
    BY <2>1, <2>2, <2>3 DEF AnswersMove
<1> QED
  BY <1>1, <1>2 DEF WireInv

\* A call is added to those on their way.
LEMMA NewCalls ==
  ASSUME NEW n \in Nat, NEW g, NEW m \in 0 .. n
  PROVE  /\ CallOK(Call("get", "form", m, NoPath), n, g)
         /\ CallOK(Call("get", "reload", m, NoPath), n, g)
         /\ \A t \in Themes : CallOK(Call("get", "persist", m, t), n, g)
         /\ \A s \in AppSettings :
              /\ CallOK(Call("save", "persist", m, [settings |-> s]), n, g)
              /\ CallOK(Call("save", "form", m, [settings |-> s]), n, g)
         /\ \A f \in Imports : CallOK(Call("import", "form", m, f), n, g)
         /\ m # 0 => \A k \in Kinds, p \in Paths :
              CallOK(Call("override", "manual", m, [kind |-> k, path |-> p]), n, g)
         /\ m # 0 /\ g[m] \in Nat => \A force, saves \in BOOLEAN :
              CallOK(Call("get", "load", m, Listing(g[m], force, saves)), n, g)
<1>1. CallOK(Call("get", "form", m, NoPath), n, g) /\ CallOK(Call("get", "reload", m, NoPath), n, g)
  BY DEF CallOK, ItemOK, Call
<1>2. \A t \in Themes : CallOK(Call("get", "persist", m, t), n, g)
  BY DEF CallOK, ItemOK, Call
<1>3. \A s \in AppSettings :
        /\ CallOK(Call("save", "persist", m, [settings |-> s]), n, g)
        /\ CallOK(Call("save", "form", m, [settings |-> s]), n, g)
  BY DEF CallOK, ItemOK, Call
<1>4. \A f \in Imports : CallOK(Call("import", "form", m, f), n, g)
  BY DEF CallOK, ItemOK, Call
<1>5. ASSUME m # 0, NEW k \in Kinds, NEW p \in Paths
      PROVE  CallOK(Call("override", "manual", m, [kind |-> k, path |-> p]), n, g)
  BY <1>5 DEF CallOK, ItemOK, Call
<1>6. ASSUME m # 0, g[m] \in Nat, NEW force \in BOOLEAN, NEW saves \in BOOLEAN
      PROVE  CallOK(Call("get", "load", m, Listing(g[m], force, saves)), n, g)
  BY <1>6 DEF CallOK, ItemOK, Call, Listing
<1> QED
  BY <1>1, <1>2, <1>3, <1>4, <1>5, <1>6

\* An answer says what the call said, with what the command returns.
LEMMA AnswersOK ==
  ASSUME NEW w, NEW n, NEW g, CallOK(w, n, g), NEW s
  PROVE  /\ w.op = "get" /\ s \in AppSettings => AnswerOK(With(w, [settings |-> s]), n, g)
         /\ w.op \in {"save", "import", "override"} /\ s \in BOOLEAN =>
              AnswerOK(With(w, [ok |-> s]), n, g)
         /\ w.op = "list" => AnswerOK(With(w, [rows |-> s]), n, g)
<1>1. ASSUME NEW a, a.op = w.op, a.by = w.by, a.mount = w.mount, a.arg = w.arg
      PROVE  ItemOK(a, n, g)
  BY <1>1 DEF CallOK, ItemOK
<1>2. ASSUME w.op = "get", s \in AppSettings
      PROVE  AnswerOK(With(w, [settings |-> s]), n, g)
  <2> DEFINE a == With(w, [settings |-> s])
  <2>1. a.op = w.op /\ a.by = w.by /\ a.mount = w.mount /\ a.arg = w.arg /\ a.settings = s
    BY Answers DEF CallOK
  <2> HIDE DEF a
  <2>2. ItemOK(a, n, g)
    BY <1>1, <2>1
  <2>3. AnswerOK(a, n, g)
    BY <1>2, <2>1, <2>2 DEF AnswerOK
  <2> QED
    BY <2>3 DEF a
<1>3. ASSUME w.op \in {"save", "import", "override"}, s \in BOOLEAN
      PROVE  AnswerOK(With(w, [ok |-> s]), n, g)
  <2> DEFINE a == With(w, [ok |-> s])
  <2>1. a.op = w.op /\ a.by = w.by /\ a.mount = w.mount /\ a.arg = w.arg /\ a.ok = s
    BY Answers DEF CallOK
  <2> HIDE DEF a
  <2>2. ItemOK(a, n, g)
    BY <1>1, <2>1
  <2>3. AnswerOK(a, n, g)
    BY <1>3, <2>1, <2>2 DEF AnswerOK
  <2> QED
    BY <2>3 DEF a
<1>4. ASSUME w.op = "list"
      PROVE  AnswerOK(With(w, [rows |-> s]), n, g)
  <2> DEFINE a == With(w, [rows |-> s])
  <2>1. a.op = w.op /\ a.by = w.by /\ a.mount = w.mount /\ a.arg = w.arg /\ a.rows = s
    BY Answers DEF CallOK
  <2> HIDE DEF a
  <2>2. ItemOK(a, n, g)
    BY <1>1, <2>1
  <2>3. AnswerOK(a, n, g)
    BY <1>4, <2>1, <2>2 DEF AnswerOK
  <2> QED
    BY <2>3 DEF a
<1> QED
  BY <1>2, <1>3, <1>4

\* Every step moves the queues as it should.
LEMMA WireStep ==
  ASSUME TypeOK, WireInv, [Next]_vars
  PROVE  WireInv'
<1> USE DEF backendVars, wireVars, routeVars, envVars, formVars, history
<1>0. TypeOK' /\ mount \in Nat /\ mount' \in Nat /\ mount \in 0 .. mount /\ mount' \in 0 .. mount'
  BY TypeStep, Grows
<1>1. CASE Runs
  <2>1. calls # <<>> /\ calls' = Tail(calls) /\ UNCHANGED <<mount, generation>>
    BY <1>1 DEF Runs, RunGet, RunSave, RunImport, RunOverride, RunList, IsNext, Answered, Failed
  <2> DEFINE w == Head(calls)
  <2>2. CallOK(w, mount, generation)
    BY <2>1, Heads
  <2>3. CallOK(w, mount', generation')
    BY <2>1, <2>2
  <2>4. CASE RunGet
    <3>1. AnswerOK(With(w, [settings |-> stored]), mount', generation')
      BY <2>3, <2>4, AnswersOK DEF RunGet, IsNext, TypeOK
    <3> QED
      BY <2>1, <2>4, <3>1, WireMoves DEF RunGet, Answered, AnswersMove, CallsMove
  <2>5. CASE RunSave \/ RunImport \/ RunOverride
    <3>1. w.op \in {"save", "import", "override"}
      BY <2>5 DEF RunSave, RunImport, RunOverride, IsNext
    <3>2. AnswerOK(With(w, [ok |-> TRUE]), mount', generation')
      BY <2>3, <3>1, AnswersOK
    <3>3. AnswerOK(With(w, [ok |-> FALSE]), mount', generation')
      BY <2>3, <3>1, AnswersOK
    <3>4. \/ answers' = Append(answers, With(w, [ok |-> TRUE]))
          \/ answers' = Append(answers, With(w, [ok |-> FALSE]))
      BY <2>5 DEF RunSave, RunImport, RunOverride, Answered, Failed
    <3> HIDE DEF w
    <3> QED
      BY <2>1, <3>2, <3>3, <3>4, WireMoves DEF AnswersMove, CallsMove
  <2>6. CASE RunList
    <3>1. \E s : answers' = Append(answers, With(w, [rows |-> s]))
      BY <2>6 DEF RunList, Answered
    <3>2. PICK s : answers' = Append(answers, With(w, [rows |-> s]))
      BY <3>1
    <3>3. AnswerOK(With(w, [rows |-> s]), mount', generation')
      BY <2>3, <2>6, AnswersOK DEF RunList, IsNext
    <3> QED
      BY <2>1, <3>2, <3>3, WireMoves DEF AnswersMove, CallsMove
  <2> QED
    BY <1>1, <2>4, <2>5, <2>6 DEF Runs
<1>2. CASE Takes
  <2>1. answers # <<>> /\ answers' = Tail(answers) /\ mount' = mount
    BY <1>2 DEF Takes, Arrives, Taken, TakeTheme, TakePersist, TakePersisted, TakeManual,
       TakeLoad, TakeRows, TakeForm, TakeOperated, TakeReload
  <2> DEFINE w == Head(answers)
  <2>2. AnswerOK(w, mount, generation) /\ w.mount \in 0 .. mount'
    BY <2>1, Heads DEF AnswerOK, ItemOK
  <2>3. CASE TakeTheme \/ TakePersisted \/ TakeRows \/ TakeForm
    <3>1. calls' = calls
      BY <2>3 DEF TakeTheme, TakePersisted, TakeRows, TakeForm
    <3> QED
      BY <2>1, <3>1, WireMoves DEF CallsMove, AnswersMove
  <2>4. CASE TakePersist
    <3>1. w.settings \in AppSettings /\ w.arg \in Themes
      BY <2>2, <2>4 DEF TakePersist, Arrives, AnswerOK, ItemOK
    <3>2. WithTheme(w.settings, w.arg) \in AppSettings
      BY <3>1 DEF WithTheme, AppSettings
    <3>3. CallOK(Call("save", "persist", w.mount, [settings |-> WithTheme(w.settings, w.arg)]),
                 mount', generation')
      BY <1>0, <2>2, <3>2, NewCalls
    <3>4. CallsMove
      BY <2>4, <3>3 DEF TakePersist, CallsMove
    <3> QED
      BY <2>1, <3>4, WireMoves DEF AnswersMove
  <2>5. CASE TakeManual
    <3>1. w.mount \in 1 .. MaxMounts /\ w.mount # 0
      BY <1>0, <2>2, <2>5, SettingsAssumption DEF TakeManual, Arrives, AnswerOK, ItemOK, TypeOK
    <3>2. CASE w.ok
      <4>1. Load(w.mount, TRUE, TRUE)
        BY <2>5, <3>2 DEF TakeManual
      <4>2. generation'[w.mount] = NextGeneration(w.mount) /\ generation'[w.mount] \in Nat
        BY <1>0, <3>1, <4>1, Grows DEF Load, NextGeneration
      <4>3. CallOK(Call("get", "load", w.mount, Listing(generation'[w.mount], TRUE, TRUE)),
                   mount', generation')
        BY <1>0, <2>2, <3>1, <4>2, NewCalls
      <4> QED
        BY <2>1, <4>1, <4>2, <4>3, WireMoves DEF Load, CallsMove, AnswersMove
    <3>3. CASE ~w.ok
      BY <2>1, <2>5, <3>3, WireMoves DEF TakeManual, CallsMove, AnswersMove
    <3> QED
      BY <3>2, <3>3
  <2>6. CASE TakeLoad
    <3>1. /\ w.op = "get" /\ w.by = "load" /\ w.mount # 0
          /\ DOMAIN w.arg = {"generation", "force", "saves"}
          /\ w.arg.generation \in 0 .. generation[w.mount]
          /\ {w.arg.force, w.arg.saves} \subseteq BOOLEAN
      BY <2>2, <2>6 DEF TakeLoad, Arrives, AnswerOK, ItemOK
    <3> DEFINE e == Kinds \ w.settings.disabled
               c == Call("list", "load", w.mount, With(w.arg, [enabled |-> e]))
    <3>2. generation' = generation
      BY <2>6 DEF TakeLoad
    <3>3. CallOK(c, mount', generation')
      BY <2>2, <3>1, <3>2, ListArg DEF CallOK, ItemOK, Call
    <3>4. CallsMove
      BY <2>6, <3>3 DEF TakeLoad, CallsMove
    <3> QED
      BY <2>1, <3>4, WireMoves DEF AnswersMove
  <2>7. CASE TakeOperated
    <3>1. CallOK(Call("get", "reload", w.mount, NoPath), mount', generation')
      BY <1>0, <2>2, NewCalls
    <3>2. CallsMove
      BY <2>7, <3>1 DEF TakeOperated, CallsMove
    <3> QED
      BY <2>1, <3>2, WireMoves DEF AnswersMove
  <2>8. CASE TakeReload
    <3>1. w.settings.theme \in Themes
      BY <2>2, <2>8 DEF TakeReload, Arrives, AnswerOK, AppSettings
    <3>2. CallOK(Call("get", "persist", w.mount, w.settings.theme), mount', generation')
      BY <1>0, <2>2, <3>1, NewCalls
    <3>3. CallsMove
      BY <2>8, <3>2 DEF TakeReload, Persist, CallsMove
    <3> QED
      BY <2>1, <3>3, WireMoves DEF AnswersMove
  <2> QED
    BY <1>2, <2>3, <2>4, <2>5, <2>6, <2>7, <2>8 DEF Takes
<1>3. CASE User
  <2>1. answers' = answers
    BY <1>3 DEF User, ChangeTheme, OpenEnvironments, OpenSettings, Mounted, Refresh,
       SaveManual, EditAny, Edit, SaveForm, Import, Operate
  <2>2. CASE \E t \in Themes : ChangeTheme(t)
    <3>1. PICK t \in Themes : ChangeTheme(t)
      BY <2>2
    <3>2. 0 \in 0 .. mount'
      BY <1>0
    <3>3. CallOK(Call("get", "persist", 0, t), mount', generation')
      BY <1>0, <3>2, NewCalls
    <3> QED
      BY <2>1, <3>1, <3>3, WireMoves DEF ChangeTheme, Persist, CallsMove, AnswersMove
  <2>3. CASE OpenEnvironments
    <3>1. mount' \in 1 .. MaxMounts /\ mount' # 0
      BY <1>0, <2>3, SettingsAssumption DEF OpenEnvironments, Mounted, TypeOK
    <3>2. generation'[mount'] = 1
      BY <2>3, <3>1 DEF OpenEnvironments, Left, TypeOK
    <3>3. CallOK(Call("get", "load", mount', Listing(generation'[mount'], FALSE, FALSE)),
                 mount', generation')
      <4>1. generation'[mount'] \in Nat
        BY <3>2
      <4> QED
        BY <1>0, <3>1, <4>1, NewCalls
    <3> QED
      BY <2>1, <2>3, <3>2, <3>3, WireMoves DEF OpenEnvironments, CallsMove, AnswersMove
  <2>4. CASE OpenSettings
    <3>1. CallOK(Call("get", "form", mount', NoPath), mount', generation')
      BY <1>0, NewCalls
    <3> QED
      BY <2>1, <2>4, <3>1, WireMoves DEF OpenSettings, CallsMove, AnswersMove
  <2>5. CASE Refresh
    <3>1. mount' = mount /\ mount \in 1 .. MaxMounts /\ mount # 0
      BY <2>5, SettingsAssumption DEF Refresh, TypeOK
    <3>2. generation'[mount] = NextGeneration(mount) /\ generation'[mount] \in Nat
      BY <1>0, <2>5, <3>1, Grows DEF Refresh, Load, NextGeneration
    <3>3. CallOK(Call("get", "load", mount, Listing(generation'[mount], TRUE, FALSE)),
                 mount', generation')
      BY <1>0, <3>1, <3>2, NewCalls
    <3> QED
      BY <2>1, <2>5, <3>2, <3>3, WireMoves DEF Refresh, Load, CallsMove, AnswersMove
  <2>6. CASE \E k \in Kinds, p \in Paths : SaveManual(k, p)
    <3>1. PICK k \in Kinds, p \in Paths : SaveManual(k, p)
      BY <2>6
    <3>2. mount' = mount /\ mount # 0
      BY <3>1 DEF SaveManual, TypeOK
    <3>3. CallOK(Call("override", "manual", mount, [kind |-> k, path |-> p]), mount', generation')
      BY <1>0, <3>2, NewCalls
    <3> QED
      BY <2>1, <3>1, <3>3, WireMoves DEF SaveManual, CallsMove, AnswersMove
  <2>7. CASE EditAny
    <3>1. calls' = calls
      BY <2>7 DEF EditAny, Edit
    <3> QED
      BY <2>1, <3>1, WireMoves DEF CallsMove, AnswersMove
  <2>8. CASE SaveForm
    <3>1. [form EXCEPT !.theme = theme] \in AppSettings
      BY DEF TypeOK, AppSettings
    <3>2. CallOK(Call("save", "form", mount, [settings |-> [form EXCEPT !.theme = theme]]),
                 mount', generation')
      BY <1>0, <2>8, <3>1, NewCalls DEF SaveForm, Operate
    <3> QED
      BY <2>1, <2>8, <3>2, WireMoves DEF SaveForm, Operate, CallsMove, AnswersMove
  <2>9. CASE \E file \in Imports : Import(file)
    <3>1. PICK file \in Imports : Import(file)
      BY <2>9
    <3>2. CallOK(Call("import", "form", mount, file), mount', generation')
      BY <1>0, <3>1, NewCalls DEF Import, Operate
    <3> QED
      BY <2>1, <3>1, <3>2, WireMoves DEF Import, Operate, CallsMove, AnswersMove
  <2> QED
    BY <1>3, <2>2, <2>3, <2>4, <2>5, <2>6, <2>7, <2>8, <2>9 DEF User
<1>4. CASE CacheExpires \/ UNCHANGED vars
  BY <1>4, WireMoves DEF CacheExpires, vars, CallsMove, AnswersMove
<1> QED
  BY <1>1, <1>2, <1>3, <1>4 DEF Next

-----------------------------------------------------------------------------
(* The cache of detected runtimes.                                         *)

\* Every step keeps the cache true: what would make it false drops it.
LEMMA CacheStep ==
  ASSUME CacheInv, [Next]_vars
  PROVE  CacheInv'
<1> USE DEF backendVars, wireVars, routeVars, envVars, formVars, history
<1>1. CASE cache' = NoCache
  BY <1>1 DEF CacheInv
<1>2. CASE UNCHANGED backendVars
  BY <1>2 DEF CacheInv, Detecting
<1>3. CASE RunList
  <2>1. UNCHANGED <<stored, overrides, machine>> /\ Detecting' = Detecting
    BY <1>3 DEF RunList, Answered, Detecting
  <2>2. \/ cache' = cache
        \/ cache' = [fingerprint |-> Fingerprint(Detecting), rows |-> Detect(Detecting, machine)]
    BY <1>3 DEF RunList
  <2> HIDE DEF Detecting
  <2> QED
    BY <2>1, <2>2 DEF CacheInv
<1>4. cache' = NoCache \/ RunList \/ UNCHANGED backendVars
  BY DEF Next, Runs, Takes, User, CacheExpires, vars, RunGet, RunSave, RunImport, RunOverride,
     Answered, Failed, Invalidate, TakeTheme, TakePersist, TakePersisted, TakeManual, TakeLoad,
     TakeRows, TakeForm, TakeOperated, TakeReload, Taken, ChangeTheme, OpenEnvironments,
     OpenSettings, Mounted, Refresh, SaveManual, EditAny, Edit, SaveForm, Import, Operate
<1> QED
  BY <1>1, <1>2, <1>3, <1>4

-----------------------------------------------------------------------------
(* What the settings page saved stays saved.                               *)


\* Changes of the theme carry on what they carried, or what was added.
LEMMA CarriedMoves ==
  ASSUME WireInv, NEW N,
         \/ calls' = calls
         \/ calls # <<>> /\ calls' = Tail(calls)
         \/ \E c : /\ calls' = Append(calls, c)
                   /\ c.op = "save" /\ c.by = "persist" => c.arg.settings \in N,
         \/ answers' = answers
         \/ answers # <<>> /\ answers' = Tail(answers)
         \/ \E a : /\ answers' = Append(answers, a)
                   /\ a.op = "get" /\ a.by = "persist" => a.settings \in N
  PROVE  Carried' \subseteq Carried \cup N
<1>1. ASSUME NEW i \in DOMAIN calls', calls'[i].op = "save", calls'[i].by = "persist"
      PROVE  calls'[i].arg.settings \in Carried \cup N
  <2>1. CASE calls' = calls
    BY <1>1, <2>1 DEF Carried
  <2>2. CASE calls # <<>> /\ calls' = Tail(calls)
    <3>1. i + 1 \in DOMAIN calls /\ calls'[i] = calls[i + 1]
      BY <1>1, <2>2, Shorter DEF WireInv
    <3> QED
      BY <1>1, <3>1 DEF Carried
  <2>3. CASE \E c : /\ calls' = Append(calls, c)
                    /\ c.op = "save" /\ c.by = "persist" => c.arg.settings \in N
    <3>1. PICK c : /\ calls' = Append(calls, c)
                   /\ c.op = "save" /\ c.by = "persist" => c.arg.settings \in N
      BY <2>3
    <3>2. \/ i \in DOMAIN calls /\ calls'[i] = calls[i]
          \/ calls'[i] = c
      BY <1>1, <3>1, Longer DEF WireInv
    <3> QED
      BY <1>1, <3>1, <3>2 DEF Carried
  <2> QED
    BY <2>1, <2>2, <2>3
<1>2. ASSUME NEW i \in DOMAIN answers', answers'[i].op = "get", answers'[i].by = "persist"
      PROVE  answers'[i].settings \in Carried \cup N
  <2>1. CASE answers' = answers
    BY <1>2, <2>1 DEF Carried
  <2>2. CASE answers # <<>> /\ answers' = Tail(answers)
    <3>1. i + 1 \in DOMAIN answers /\ answers'[i] = answers[i + 1]
      BY <1>2, <2>2, Shorter DEF WireInv
    <3> QED
      BY <1>2, <3>1 DEF Carried
  <2>3. CASE \E a : /\ answers' = Append(answers, a)
                    /\ a.op = "get" /\ a.by = "persist" => a.settings \in N
    <3>1. PICK a : /\ answers' = Append(answers, a)
                   /\ a.op = "get" /\ a.by = "persist" => a.settings \in N
      BY <2>3
    <3>2. \/ i \in DOMAIN answers /\ answers'[i] = answers[i]
          \/ answers'[i] = a
      BY <1>2, <3>1, Longer DEF WireInv
    <3> QED
      BY <1>2, <3>1, <3>2 DEF Carried
  <2> QED
    BY <2>1, <2>2, <2>3
<1> QED
  BY <1>1, <1>2 DEF Carried

\* Settings that differ in their theme and in what tidying changes only.
LEMMA OthersOf ==
  ASSUME NEW s, NEW t, s.guarded = t.guarded, s.hints = t.hints, s.disabled = t.disabled
  PROVE  Others(s) = Others(t)
BY DEF Others, Fields

\* Tidying is the same for settings that differ in their theme only, ...
LEMMA TidiedAlike ==
  ASSUME NEW s \in AppSettings, NEW t \in AppSettings,
         s.guarded = t.guarded, s.hints = t.hints, s.disabled = t.disabled
  PROVE  Others(Normalized(s)) = Others(Normalized(t))
<1>1. /\ Normalized(s).guarded = Normalized(t).guarded
      /\ Normalized(s).hints = Normalized(t).hints
      /\ Normalized(s).disabled = Normalized(t).disabled
  BY DEF Normalized, AppSettings
<1> QED
  BY <1>1, OthersOf

\* ... and changes nothing that is tidy.
LEMMA TidyAlready ==
  ASSUME NEW s \in AppSettings, Tidied[s.guarded] = s.guarded
  PROVE  Others(Normalized(s)) = Others(s)
<1>1. /\ Normalized(s).guarded = s.guarded
      /\ Normalized(s).hints = s.hints /\ Normalized(s).disabled = s.disabled
  BY DEF Normalized, AppSettings
<1> QED
  BY <1>1, OthersOf

\* What is carried are settings.
LEMMA CarriedType == ASSUME WireInv PROVE Carried \subseteq AppSettings
BY DEF WireInv, CallOK, AnswerOK, ItemOK, Carried

\* Every step keeps apart what the settings page and the theme write.
LEMMA ApartStep ==
  ASSUME TypeOK, WireInv, ApartInv, [Next]_vars
  PROVE  ApartInv'
<1> USE DEF backendVars, wireVars, routeVars, envVars, formVars, history
<1> DEFINE Alike(s) ==
             \E t \in Carried \cup {stored} :
               s.guarded = t.guarded /\ s.hints = t.hints /\ s.disabled = t.disabled
<1>0. Carried \cup {stored} \subseteq AppSettings
  BY CarriedType DEF TypeOK
<1>1. ASSUME UNCHANGED <<stored, history>>,
             \A s \in Carried' : s \in Carried \/ (s \in AppSettings /\ Alike(s))
      PROVE  ApartInv'
  <2>1. overlapped = {} => \A s \in Carried' : SameOthers(s)
    BY <1>1 DEF ApartInv, SameOthers
  <2>2. ASSUME promised # NoPromise, NEW s \in Carried'
        PROVE  Others(Normalized(s)) \in {promised} \cup overlapped
    <3>1. CASE s \in Carried
      BY <2>2, <3>1 DEF ApartInv
    <3>2. CASE s \in AppSettings /\ Alike(s)
      <4>1. PICK t \in Carried \cup {stored} :
              s.guarded = t.guarded /\ s.hints = t.hints /\ s.disabled = t.disabled
        BY <3>2
      <4>2. Others(Normalized(s)) = Others(Normalized(t))
        BY <1>0, <3>2, <4>1, TidiedAlike
      <4> QED
        BY <2>2, <4>2 DEF ApartInv
    <3> QED
      BY <1>1, <3>1, <3>2
  <2> QED
    BY <1>1, <2>1, <2>2 DEF ApartInv, SameOthers, Others, Normalized
<1>2. CASE Runs
  <2> DEFINE w == Head(calls)
  <2>1. /\ calls # <<>> /\ calls' = Tail(calls) /\ CallOK(w, mount, generation)
        /\ w = calls[1] /\ 1 \in DOMAIN calls
    <3>1. calls # <<>> /\ calls' = Tail(calls)
      BY <1>2 DEF Runs, RunGet, RunSave, RunImport, RunOverride, RunList, IsNext, Answered, Failed
    <3> QED
      BY <3>1, Heads, Shorter DEF WireInv
  <2>2. CASE RunGet
    <3>1. With(w, [settings |-> stored]).settings = stored
      BY <2>1, Answers DEF CallOK
    <3>2. Carried' \subseteq Carried \cup {stored}
      BY <2>1, <2>2, <3>1, CarriedMoves DEF RunGet, Answered
    <3>3. stored \in AppSettings /\ Alike(stored)
      BY <1>0
    <3> QED
      BY <1>1, <2>2, <3>2, <3>3 DEF RunGet
  <2>3. ASSUME ~RunGet
        PROVE  Carried' \subseteq Carried
    <3>1. w.op # "get"
      BY <1>2, <2>3 DEF Runs, RunSave, RunImport, RunOverride, RunList, IsNext
    <3>2. PICK a : answers' = Append(answers, a) /\ a.op = w.op
      <4>1. \E s : \/ answers' = Append(answers, With(w, [ok |-> s]))
                   \/ answers' = Append(answers, With(w, [rows |-> s]))
        BY <1>2, <2>3 DEF Runs, RunSave, RunImport, RunOverride, RunList, Answered, Failed
      <4>2. PICK s : \/ answers' = Append(answers, With(w, [ok |-> s]))
                     \/ answers' = Append(answers, With(w, [rows |-> s]))
        BY <4>1
      <4>3. With(w, [ok |-> s]).op = w.op /\ With(w, [rows |-> s]).op = w.op
        BY <2>1, Answers DEF CallOK
      <4> QED
        BY <4>2, <4>3
    <3>3. Carried' \subseteq Carried \cup {}
      BY <2>1, <3>1, <3>2, CarriedMoves
    <3> QED
      BY <3>3
  <2>4. CASE RunSave \/ RunImport \/ RunOverride \/ RunList
    <3>1. Carried' \subseteq Carried
      BY <2>3, <2>4 DEF RunGet, RunSave, RunImport, RunOverride, RunList, IsNext
    <3>2. CASE UNCHANGED <<stored, history>>
      BY <1>1, <3>1, <3>2
    <3>3. CASE /\ w.arg.settings \in AppSettings /\ Acceptable(w.arg.settings)
               /\ stored' = Normalized(w.arg.settings)
               /\ promised' = Others(stored')
               /\ overlapped' = {Others(Normalized(c)) : c \in Carried}
      <4>1. overlapped' = {} => Carried' = {}
        BY <3>1, <3>3
      <4>2. stored' \in AppSettings /\ Tidied[stored'.guarded] = stored'.guarded
        BY <3>3, Normal
      <4>3. Others(Normalized(stored')) = promised'
        BY <3>3, <4>2, TidyAlready
      <4>4. \A s \in Carried' : Others(Normalized(s)) \in overlapped'
        BY <3>1, <3>3
      <4> QED
        BY <4>1, <4>2, <4>3, <4>4 DEF ApartInv, Others, Normalized
    <3>4. CASE /\ w.op = "save" /\ w.by = "persist" /\ UNCHANGED history
               /\ Acceptable(w.arg.settings) /\ stored' = Normalized(w.arg.settings)
      <4> DEFINE t == w.arg.settings
      <4>1. t \in Carried /\ t \in AppSettings
        BY <2>1, <3>4 DEF Carried, CallOK, ItemOK
      <4>2. /\ stored' \in AppSettings /\ Tidied[stored'.guarded] = stored'.guarded
            /\ stored'.hints = t.hints /\ stored'.disabled = t.disabled
            /\ stored'.guarded = Tidied[t.guarded]
        BY <3>4, <4>1, Normal
      <4>3. Others(Normalized(stored')) = Others(Normalized(t))
        BY <3>4, <4>2, TidyAlready
      <4>4. promised # NoPromise =>
              \A s \in Carried' \cup {stored'} :
                Others(Normalized(s)) \in {promised} \cup overlapped
        BY <3>1, <4>1, <4>3 DEF ApartInv
      <4>5. ASSUME overlapped = {}
            PROVE  \A s \in Carried' : /\ s.hints = stored'.hints /\ s.disabled = stored'.disabled
                                       /\ promised # NoPromise => s.guarded = stored'.guarded
        <5>1. SameOthers(t)
          BY <4>1, <4>5 DEF ApartInv
        <5>2. /\ stored'.hints = stored.hints /\ stored'.disabled = stored.disabled
              /\ promised # NoPromise => stored'.guarded = stored.guarded
          BY <4>2, <5>1 DEF ApartInv, SameOthers
        <5> QED
          BY <3>1, <4>5, <5>2 DEF ApartInv, SameOthers
      <4> QED
        BY <3>4, <4>2, <4>4, <4>5 DEF ApartInv, SameOthers, Others, Normalized
    <3>5. CASE RunSave
      <4>1. w.arg.settings \in AppSettings /\ w.op = "save" /\ w.by \in {"form", "persist"}
        BY <2>1, <3>5 DEF RunSave, IsNext, CallOK, ItemOK
      <4> QED
        BY <3>2, <3>3, <3>4, <3>5, <4>1 DEF RunSave, Failed, Promise
    <3>6. CASE RunImport
      <4>1. w.arg.settings \in AppSettings
        BY <2>1, <3>6, SettingsAssumption DEF RunImport, IsNext, CallOK, ItemOK
      <4> QED
        BY <3>2, <3>3, <3>6, <4>1 DEF RunImport, Failed, Promise
    <3> QED
      BY <2>4, <3>2, <3>5, <3>6 DEF RunOverride, RunList, Failed
  <2> QED
    BY <1>2, <2>2, <2>4 DEF Runs
<1>3. CASE Takes
  <2> DEFINE w == Head(answers)
  <2>1. /\ answers # <<>> /\ answers' = Tail(answers) /\ AnswerOK(w, mount, generation)
        /\ w = answers[1] /\ 1 \in DOMAIN answers
        /\ UNCHANGED <<stored, history>>
    BY <1>3, Heads, Shorter DEF WireInv, Takes, Arrives, Taken, TakeTheme, TakePersist, TakePersisted,
       TakeManual, TakeLoad, TakeRows, TakeForm, TakeOperated, TakeReload
  <2>2. CASE TakePersist
    <3> DEFINE t == WithTheme(w.settings, w.arg)
    <3>1. w.settings \in Carried /\ w.settings \in AppSettings
      BY <2>1, <2>2 DEF TakePersist, Arrives, Carried, AnswerOK
    <3>2. /\ t.guarded = w.settings.guarded /\ t.hints = w.settings.hints
          /\ t.disabled = w.settings.disabled
          /\ t \in AppSettings
      <4>1. w.arg \in Themes
        BY <2>1, <2>2 DEF TakePersist, Arrives, AnswerOK, ItemOK
      <4> QED
        BY <3>1, <4>1 DEF WithTheme, AppSettings
    <3>3. Call("save", "persist", w.mount, [settings |-> t]).arg.settings = t
      BY DEF Call
    <3> HIDE DEF t
    <3>4. \/ calls' = calls
          \/ calls' = Append(calls, Call("save", "persist", w.mount, [settings |-> t]))
      BY <2>2 DEF TakePersist, t
    <3>5. Carried' \subseteq Carried \cup {t}
      BY <2>1, <3>3, <3>4, CarriedMoves
    <3>6. Alike(t)
      BY <3>1, <3>2
    <3> QED
      BY <1>1, <2>1, <3>2, <3>5, <3>6
  <2>3. CASE ~TakePersist
    <3>1. \/ calls' = calls
          \/ \E c : calls' = Append(calls, c) /\ c.op # "save"
      BY <1>3, <2>3 DEF Takes, TakeTheme, TakePersisted, TakeManual, Load, TakeLoad, TakeRows,
         TakeForm, TakeOperated, TakeReload, Persist, Call
    <3>2. Carried' \subseteq Carried \cup {}
      BY <2>1, <3>1, CarriedMoves
    <3> QED
      BY <1>1, <2>1, <3>2
  <2> QED
    BY <2>2, <2>3
<1>4. CASE User \/ CacheExpires
  <2>1. UNCHANGED <<stored, history>> /\ answers' = answers
    BY <1>4 DEF User, CacheExpires, ChangeTheme, OpenEnvironments, OpenSettings, Mounted, Refresh,
       SaveManual, EditAny, Edit, SaveForm, Import, Operate
  <2>2. \/ calls' = calls
        \/ \E op, by, m, arg : /\ calls' = Append(calls, Call(op, by, m, arg))
                               /\ op = "save" => by # "persist"
    <3>0. CASE \E t \in Themes : ChangeTheme(t)
      BY <3>0 DEF ChangeTheme, Persist
    <3>1. CASE OpenEnvironments \/ OpenSettings \/ Refresh
      <4>1. CASE OpenEnvironments
        <5>1. \E arg : calls' = Append(calls, Call("get", "load", mount', arg))
          BY <4>1 DEF OpenEnvironments
        <5> QED
          BY <5>1
      <4>2. CASE OpenSettings
        BY <4>2 DEF OpenSettings
      <4>3. CASE Refresh
        <5>1. \E arg : calls' = Append(calls, Call("get", "load", mount, arg))
          BY <4>3 DEF Refresh, Load
        <5> QED
          BY <5>1
      <4> QED
        BY <3>1, <4>1, <4>2, <4>3
    <3>2. CASE \E k \in Kinds, p \in Paths : SaveManual(k, p)
      BY <3>2 DEF SaveManual
    <3>3. CASE EditAny \/ CacheExpires
      BY <3>3 DEF EditAny, Edit, CacheExpires
    <3>4. CASE SaveForm \/ \E file \in Imports : Import(file)
      BY <3>4 DEF SaveForm, Import, Operate
    <3> QED
      BY <1>4, <3>0, <3>1, <3>2, <3>3, <3>4 DEF User
  <2>3. Carried' \subseteq Carried \cup {}
    <3>1. CASE calls' = calls
      BY <2>1, <3>1, CarriedMoves
    <3>2. ASSUME NEW op, NEW by, NEW m, NEW arg, op = "save" => by # "persist",
                 calls' = Append(calls, Call(op, by, m, arg))
          PROVE  Carried' \subseteq Carried \cup {}
      <4>1. Call(op, by, m, arg).op = op /\ Call(op, by, m, arg).by = by
        BY DEF Call
      <4> QED
        BY <2>1, <3>2, <4>1, CarriedMoves
    <3> QED
      BY <2>2, <3>1, <3>2
  <2> QED
    BY <1>1, <2>1, <2>3
<1>5. CASE UNCHANGED vars
  BY <1>1, <1>5 DEF vars, Carried
<1> QED
  BY <1>2, <1>3, <1>4, <1>5 DEF Next

-----------------------------------------------------------------------------
(* A page that waits is answered: what it waits for is in transit.         *)

\* What is in transit stays so, whatever is called and run, ...
LEMMA StillInTransit ==
  ASSUME WireInv,
         \/ /\ answers' = answers
            /\ calls' = calls \/ \E c : calls' = Append(calls, c)
         \/ /\ calls # <<>> /\ calls' = Tail(calls)
            /\ \E a : answers' = Append(answers, a) /\ Waiting(a) = Waiting(Head(calls))
  PROVE  InTransit \subseteq InTransit'
<1>1. CASE answers' = answers /\ calls' = calls
  BY <1>1 DEF InTransit
<1>2. CASE answers' = answers /\ \E c : calls' = Append(calls, c)
  <2>1. \A i \in DOMAIN calls : i \in DOMAIN calls' /\ calls'[i] = calls[i]
    BY <1>2, Longer DEF WireInv
  <2> QED
    BY <1>2, <2>1 DEF InTransit
<1>3. CASE /\ calls # <<>> /\ calls' = Tail(calls)
           /\ \E a : answers' = Append(answers, a) /\ Waiting(a) = Waiting(Head(calls))
  <2>1. PICK a : answers' = Append(answers, a) /\ Waiting(a) = Waiting(Head(calls))
    BY <1>3
  <2>2. ASSUME NEW i \in DOMAIN answers
        PROVE  Waiting(answers[i]) \in InTransit'
    <3>1. i \in DOMAIN answers' /\ answers'[i] = answers[i]
      BY <2>1, Longer DEF WireInv
    <3> QED
      BY <3>1 DEF InTransit
  <2>3. ASSUME NEW i \in DOMAIN calls
        PROVE  Waiting(calls[i]) \in InTransit'
    <3>1. CASE i = 1
      <4>1. Len(answers) + 1 \in DOMAIN answers' /\ answers'[Len(answers) + 1] = a
        BY <2>1, Longer DEF WireInv
      <4>2. calls[i] = Head(calls)
        BY <1>3, <3>1, Shorter DEF WireInv
      <4> QED
        BY <2>1, <4>1, <4>2 DEF InTransit
    <3>2. CASE i # 1
      <4>1. i - 1 \in DOMAIN calls' /\ calls'[i - 1] = calls[i]
        BY <1>3, <3>2, Shorter DEF WireInv
      <4> QED
        BY <4>1 DEF InTransit
    <3> QED
      BY <3>1, <3>2
  <2> QED
    BY <2>2, <2>3 DEF InTransit
<1> QED
  BY <1>1, <1>2, <1>3

\* ... and what is called is, ...
LEMMA CallInTransit ==
  ASSUME WireInv, NEW op, NEW by, NEW m, NEW arg, calls' = Append(calls, Call(op, by, m, arg))
  PROVE  Call(op, by, m, arg) \in InTransit'
<1>1. Waiting(Call(op, by, m, arg)) = Call(op, by, m, arg)
  BY DEF Waiting, Call
<1>2. Len(calls) + 1 \in DOMAIN calls' /\ calls'[Len(calls) + 1] = Call(op, by, m, arg)
  BY Longer DEF WireInv
<1>3. Waiting(calls'[Len(calls) + 1]) \in InTransit'
  BY <1>2 DEF InTransit
<1> QED
  BY <1>1, <1>2, <1>3

\* ... until it is taken.
LEMMA TakenFromTransit ==
  ASSUME WireInv, answers # <<>>, answers' = Tail(answers),
         calls' = calls \/ \E c : calls' = Append(calls, c)
  PROVE  \A w \in InTransit : w \in InTransit' \/ w = Waiting(Head(answers))
<1>1. ASSUME NEW i \in DOMAIN calls
      PROVE  Waiting(calls[i]) \in InTransit'
  <2>1. i \in DOMAIN calls' /\ calls'[i] = calls[i]
    BY Longer DEF WireInv
  <2> QED
    BY <2>1 DEF InTransit
<1>2. ASSUME NEW i \in DOMAIN answers, i # 1
      PROVE  Waiting(answers[i]) \in InTransit'
  <2>1. i - 1 \in DOMAIN answers' /\ answers'[i - 1] = answers[i]
    BY <1>2, Shorter DEF WireInv
  <2> QED
    BY <2>1 DEF InTransit
<1>3. Head(answers) = answers[1]
  BY Heads
<1> QED
  BY <1>1, <1>2, <1>3 DEF InTransit

\* A command does nothing but answer.
LEMMA RunKeepsTransit ==
  ASSUME TypeOK, WireInv, Runs
  PROVE  /\ InTransit \subseteq InTransit'
         /\ calls # <<>> /\ calls' = Tail(calls)
         /\ \E a : answers' = Append(answers, a) /\ Waiting(a) = Waiting(Head(calls))
         /\ UNCHANGED <<machine, theme, routeVars, envVars, formVars, clicks>>
<1>1. /\ calls # <<>> /\ calls' = Tail(calls)
      /\ UNCHANGED <<machine, theme, routeVars, envVars, formVars, clicks>>
  BY DEF Runs, RunGet, RunSave, RunImport, RunOverride, RunList, IsNext, Answered, Failed
<1>2. CallOK(Head(calls), mount, generation)
  BY <1>1, Heads
<1>3. ASSUME NEW s
      PROVE  /\ Waiting(With(Head(calls), [settings |-> s])) = Waiting(Head(calls))
             /\ Waiting(With(Head(calls), [ok |-> s])) = Waiting(Head(calls))
             /\ Waiting(With(Head(calls), [rows |-> s])) = Waiting(Head(calls))
  BY <1>2, Answers DEF CallOK, Waiting
<1>4. \E a : answers' = Append(answers, a) /\ Waiting(a) = Waiting(Head(calls))
  <2>1. CASE RunGet
    <3>1. Waiting(With(Head(calls), [settings |-> stored])) = Waiting(Head(calls))
      BY <1>3
    <3> QED
      BY <2>1, <3>1 DEF RunGet, Answered
  <2>2. CASE RunSave \/ RunImport \/ RunOverride
    <3>1. PICK s : answers' = Append(answers, With(Head(calls), [ok |-> s]))
      BY <2>2 DEF RunSave, RunImport, RunOverride, Answered, Failed
    <3>2. Waiting(With(Head(calls), [ok |-> s])) = Waiting(Head(calls))
      BY <1>3
    <3> QED
      BY <3>1, <3>2
  <2>3. CASE RunList
    <3>1. PICK s : answers' = Append(answers, With(Head(calls), [rows |-> s]))
      BY <2>3 DEF RunList, Answered
    <3>2. Waiting(With(Head(calls), [rows |-> s])) = Waiting(Head(calls))
      BY <1>3
    <3> QED
      BY <3>1, <3>2
  <2> QED
    BY <2>1, <2>2, <2>3 DEF Runs
<1> QED
  BY <1>1, <1>4, StillInTransit

\* What taking an answer does to the queues.
LEMMA TakeMoves ==
  ASSUME TypeOK, WireInv, Takes
  PROVE  /\ answers # <<>> /\ answers' = Tail(answers)
         /\ AnswerOK(Head(answers), mount, generation)
         /\ UNCHANGED <<backendVars, routeVars, clicks, history>>
         /\ calls' = calls \/ \E c : calls' = Append(calls, c)
         /\ \A w \in InTransit : w \in InTransit' \/ w = Waiting(Head(answers))
<1>1. /\ answers # <<>> /\ answers' = Tail(answers)
      /\ UNCHANGED <<backendVars, routeVars, clicks, history>>
  BY DEF Takes, Arrives, Taken, TakeTheme, TakePersist, TakePersisted, TakeManual,
     TakeLoad, TakeRows, TakeForm, TakeOperated, TakeReload
<1>2. calls' = calls \/ \E c : calls' = Append(calls, c)
  BY DEF Takes, TakeTheme, TakePersist, TakePersisted, TakeManual, Load,
     TakeLoad, TakeRows, TakeForm, TakeOperated, TakeReload, Persist
<1> QED
  BY <1>1, <1>2, Heads, TakenFromTransit

\* What a user's step adds.
LEMMA UserKeepsTransit ==
  ASSUME WireInv, User \/ CacheExpires
  PROVE  answers' = answers /\ InTransit \subseteq InTransit'
<1> USE DEF wireVars
<1>1. answers' = answers
  BY DEF User, CacheExpires, ChangeTheme, OpenEnvironments, OpenSettings, Mounted, Refresh,
     SaveManual, EditAny, Edit, SaveForm, Import, Operate
<1>2. calls' = calls \/ \E c : calls' = Append(calls, c)
  BY DEF User, CacheExpires, ChangeTheme, Persist, OpenEnvironments, OpenSettings, Refresh,
     Load, SaveManual, EditAny, Edit, SaveForm, Import, Operate
<1> QED
  BY <1>1, <1>2, StillInTransit

\* The environments page waits for its last listing.
LEMMA LoadingStep ==
  ASSUME TypeOK, WireInv, RestInv, [Next]_vars
  PROVE  loading' => \E w \in InTransit' : IsLastListing(w)'
<1> USE DEF backendVars, wireVars, routeVars, envVars, formVars, history
<1>1. ASSUME UNCHANGED <<mount, generation>>, loading' => loading,
             \A w \in InTransit : IsLastListing(w) => \E v \in InTransit' : IsLastListing(v)
      PROVE  loading' => \E w \in InTransit' : IsLastListing(w)'
  BY <1>1 DEF RestInv, IsLastListing, IsListing
<1>2. CASE Runs
  BY <1>1, <1>2, RunKeepsTransit
<1>3. CASE Takes
  <2> DEFINE h == Head(answers)
  <2>1. /\ AnswerOK(h, mount, generation) /\ answers # <<>> /\ mount' = mount
        /\ \A w \in InTransit : w \in InTransit' \/ w = Waiting(h)
    BY <1>3, TakeMoves
  <2>2. /\ Waiting(h).by = h.by /\ Waiting(h).mount = h.mount /\ Waiting(h).arg = h.arg
    BY DEF Waiting, Call
  <2>3. CASE TakeTheme \/ TakePersist \/ TakePersisted \/ TakeForm \/ TakeOperated \/ TakeReload
    <3>1. h.by # "load" /\ UNCHANGED <<generation, loading>>
      BY <2>3 DEF TakeTheme, TakePersist, TakePersisted, TakeForm, TakeOperated, TakeReload, Arrives
    <3> QED
      BY <1>1, <2>1, <2>2, <3>1 DEF IsLastListing, IsListing
  <2>4. CASE TakeManual
    <3>1. h.by = "manual" /\ h.mount \in 1 .. MaxMounts
      BY <2>1, <2>4, SettingsAssumption DEF TakeManual, Arrives, AnswerOK, ItemOK, TypeOK
    <3>2. CASE ~h.ok
      BY <1>1, <2>1, <2>2, <2>4, <3>1, <3>2 DEF TakeManual, IsLastListing, IsListing
    <3>3. CASE h.ok /\ h.mount # mount
      <4>1. mount \in 1 .. MaxMounts
        BY <2>1, <3>1, SettingsAssumption DEF AnswerOK, ItemOK, TypeOK
      <4>2. Load(h.mount, TRUE, TRUE)
        BY <2>4, <3>3 DEF TakeManual
      <4>3. generation'[mount] = generation[mount]
        BY <3>3, <4>1, <4>2 DEF Load, TypeOK
      <4>4. loading' => loading
        BY <3>3, <4>2 DEF Load
      <4> QED
        BY <2>1, <2>2, <3>1, <4>3, <4>4 DEF RestInv, IsLastListing, IsListing
    <3>4. CASE h.ok /\ h.mount = mount
      <4>1. Load(mount, TRUE, TRUE)
        BY <2>4, <3>4 DEF TakeManual
      <4> DEFINE arg == Listing(NextGeneration(mount), TRUE, TRUE)
      <4>2. generation'[mount] = NextGeneration(mount) /\ arg.generation = NextGeneration(mount)
        BY <3>1, <3>4, <4>1 DEF Load, Listing, TypeOK
      <4>3. Call("get", "load", mount, arg) \in InTransit'
        BY <4>1, CallInTransit DEF Load
      <4> QED
        BY <2>1, <4>2, <4>3 DEF IsLastListing, IsListing, Call
    <3> QED
      BY <3>2, <3>3, <3>4
  <2>5. CASE TakeLoad
    <3>1. UNCHANGED <<generation, loading>>
      BY <2>5 DEF TakeLoad
    <3>2. CASE ~IsLatest
      BY <1>1, <2>1, <2>2, <3>1, <3>2 DEF IsLatest, IsLastListing, IsListing
    <3>3. CASE IsLatest
      <4> DEFINE arg == With(h.arg, [enabled |-> Kinds \ h.settings.disabled])
                 c == Call("list", "load", h.mount, arg)
      <4>1. DOMAIN h.arg = {"generation", "force", "saves"}
        BY <2>1, <2>5 DEF TakeLoad, Arrives, AnswerOK, ItemOK
      <4>2. arg.generation = h.arg.generation
        BY <4>1, ListArg
      <4>3. c \in InTransit'
        BY <2>5, <3>3, CallInTransit DEF TakeLoad
      <4>4. c.by = "load" /\ c.mount = h.mount /\ c.arg.generation = h.arg.generation
        BY <4>2 DEF Call
      <4> HIDE DEF c
      <4>5. IsLastListing(Waiting(h)) => IsLastListing(c)
        BY <2>2, <4>4 DEF IsLastListing, IsListing
      <4> QED
        BY <1>1, <2>1, <3>1, <4>3, <4>5
    <3> QED
      BY <3>2, <3>3
  <2>6. CASE TakeRows
    <3>1. CASE IsLatest /\ OnScreen
      BY <2>6, <3>1 DEF TakeRows, Shown
    <3>2. CASE ~(IsLatest /\ OnScreen)
      <4>1. UNCHANGED <<generation, loading>>
        BY <2>6, <3>2 DEF TakeRows
      <4>2. ~IsLastListing(Waiting(h))
        BY <2>2, <3>2 DEF IsLatest, OnScreen, IsLastListing, IsListing
      <4> QED
        BY <1>1, <2>1, <4>1, <4>2
    <3> QED
      BY <3>1, <3>2
  <2> QED
    BY <1>3, <2>3, <2>4, <2>5, <2>6 DEF Takes
<1>4. CASE User \/ CacheExpires
  <2>1. InTransit \subseteq InTransit'
    BY <1>4, UserKeepsTransit
  <2>2. CASE OpenEnvironments
    <3>1. mount' \in 1 .. MaxMounts
      BY <2>2, SettingsAssumption DEF OpenEnvironments, Mounted, TypeOK
    <3>2. generation'[mount'] = 1
      BY <2>2, <3>1 DEF OpenEnvironments, Left, TypeOK
    <3> DEFINE arg == Listing(1, FALSE, FALSE)
    <3>3. Call("get", "load", mount', arg) \in InTransit'
      BY <2>2, CallInTransit DEF OpenEnvironments
    <3>4. arg.generation = 1
      BY DEF Listing
    <3> QED
      BY <3>2, <3>3, <3>4 DEF IsLastListing, IsListing, Call
  <2>3. CASE OpenSettings
    BY <2>3 DEF OpenSettings
  <2>4. CASE Refresh
    <3>1. mount \in 1 .. MaxMounts /\ mount' = mount
      BY <2>4, SettingsAssumption DEF Refresh, TypeOK
    <3> DEFINE arg == Listing(NextGeneration(mount), TRUE, FALSE)
    <3>2. generation'[mount] = NextGeneration(mount) /\ arg.generation = NextGeneration(mount)
      BY <2>4, <3>1 DEF Refresh, Load, Listing, TypeOK
    <3>3. Call("get", "load", mount, arg) \in InTransit'
      BY <2>4, CallInTransit DEF Refresh, Load
    <3> QED
      BY <3>1, <3>2, <3>3 DEF IsLastListing, IsListing, Call
  <2>5. CASE ~(OpenEnvironments \/ OpenSettings \/ Refresh)
    <3>1. UNCHANGED <<mount, generation, loading>>
      BY <1>4, <2>5 DEF User, CacheExpires, ChangeTheme, SaveManual, EditAny, Edit, SaveForm,
         Import, Operate
    <3> QED
      BY <1>1, <2>1, <3>1
  <2> QED
    BY <2>2, <2>3, <2>4, <2>5
<1>5. CASE UNCHANGED vars
  BY <1>1, <1>5 DEF vars, InTransit
<1> QED
  BY <1>2, <1>3, <1>4, <1>5 DEF Next

\* It waits for the override it saves, or for the listing that follows.
LEMMA SavedStep ==
  ASSUME TypeOK, WireInv, RestInv, [Next]_vars
  PROVE  saving' => \E w \in InTransit' : IsSaving(w)'
<1> USE DEF backendVars, wireVars, routeVars, envVars, formVars, history
<1>1. ASSUME mount' = mount, saving' => saving,
             saving' => \A w \in InTransit : IsSaving(w) => \E v \in InTransit' : IsSaving(v)
      PROVE  saving' => \E w \in InTransit' : IsSaving(w)'
  BY <1>1 DEF RestInv, IsSaving
<1>2. CASE Runs
  BY <1>1, <1>2, RunKeepsTransit
<1>3. CASE Takes
  <2> DEFINE h == Head(answers)
  <2>1. /\ AnswerOK(h, mount, generation) /\ answers # <<>> /\ mount' = mount
        /\ \A w \in InTransit : w \in InTransit' \/ w = Waiting(h)
    BY <1>3, TakeMoves
  <2>2. /\ Waiting(h).op = h.op /\ Waiting(h).by = h.by /\ Waiting(h).mount = h.mount
        /\ Waiting(h).arg = h.arg
    BY DEF Waiting, Call
  <2>3. CASE TakeTheme \/ TakePersist \/ TakePersisted \/ TakeForm \/ TakeOperated \/ TakeReload
    <3>1. h.by # "load" /\ h.op # "override" /\ saving' = saving
      BY <2>3 DEF TakeTheme, TakePersist, TakePersisted, TakeForm, TakeOperated, TakeReload, Arrives
    <3> QED
      BY <1>1, <2>1, <2>2, <3>1 DEF IsSaving
  <2>4. CASE TakeManual
    <3>1. CASE ~h.ok
      <4>1. saving' => saving /\ h.mount # mount
        BY <2>4, <3>1 DEF TakeManual, OnScreen
      <4> QED
        BY <1>1, <2>1, <2>2, <4>1 DEF IsSaving
    <3>2. CASE h.ok
      <4>1. Load(h.mount, TRUE, TRUE) /\ saving' = saving
        BY <2>4, <3>2 DEF TakeManual
      <4> DEFINE arg == Listing(NextGeneration(h.mount), TRUE, TRUE)
                 c == Call("get", "load", h.mount, arg)
      <4>2. c \in InTransit'
        BY <4>1, CallInTransit DEF Load
      <4>3. c.by = "load" /\ c.mount = h.mount /\ c.arg.saves
        BY DEF Call, Listing
      <4> HIDE DEF c
      <4>4. IsSaving(Waiting(h)) => IsSaving(c)
        BY <2>2, <4>3 DEF IsSaving
      <4> QED
        BY <1>1, <2>1, <4>1, <4>2, <4>4
    <3> QED
      BY <3>1, <3>2
  <2>5. CASE TakeLoad
    <3>0. h.op = "get" /\ h.by = "load"
      BY <2>5 DEF TakeLoad, Arrives
    <3>1. CASE ~IsLatest
      <4>1. saving' => saving /\ ~(h.mount = mount /\ h.arg.saves)
        BY <2>5, <3>1 DEF TakeLoad, EndSaving, OnScreen
      <4> QED
        BY <1>1, <2>1, <2>2, <3>0, <4>1 DEF IsSaving
    <3>2. CASE IsLatest
      <4> DEFINE arg == With(h.arg, [enabled |-> Kinds \ h.settings.disabled])
                 c == Call("list", "load", h.mount, arg)
      <4>1. DOMAIN h.arg = {"generation", "force", "saves"}
        BY <2>1, <3>0 DEF AnswerOK, ItemOK
      <4>2. arg.saves = h.arg.saves
        BY <4>1, ListArg
      <4>3. c \in InTransit' /\ saving' = saving
        BY <2>5, <3>2, CallInTransit DEF TakeLoad
      <4>4. c.by = "load" /\ c.mount = h.mount /\ c.arg.saves = h.arg.saves
        BY <4>2 DEF Call
      <4> HIDE DEF c
      <4>5. IsSaving(Waiting(h)) => IsSaving(c)
        BY <2>2, <3>0, <4>4 DEF IsSaving
      <4> QED
        BY <1>1, <2>1, <4>3, <4>5
    <3> QED
      BY <3>1, <3>2
  <2>6. CASE TakeRows
    <3>1. h.op = "list" /\ (saving' => saving /\ ~(h.mount = mount /\ h.arg.saves))
      BY <2>6 DEF TakeRows, EndSaving, OnScreen, Arrives
    <3>2. saving' => ~IsSaving(Waiting(h))
      BY <2>2, <3>1 DEF IsSaving
    <3> QED
      BY <1>1, <2>1, <3>1, <3>2
  <2> QED
    BY <1>3, <2>3, <2>4, <2>5, <2>6 DEF Takes
<1>4. CASE User \/ CacheExpires
  <2>1. InTransit \subseteq InTransit'
    BY <1>4, UserKeepsTransit
  <2>2. CASE OpenEnvironments \/ OpenSettings
    BY <2>2 DEF OpenEnvironments, OpenSettings, Mounted
  <2>3. CASE \E k \in Kinds, p \in Paths : SaveManual(k, p)
    <3>1. PICK k \in Kinds, p \in Paths : SaveManual(k, p)
      BY <2>3
    <3> DEFINE c == Call("override", "manual", mount, [kind |-> k, path |-> p])
    <3>2. c \in InTransit' /\ mount' = mount
      BY <3>1, CallInTransit DEF SaveManual
    <3>3. c.op = "override" /\ c.mount = mount
      BY DEF Call
    <3> HIDE DEF c
    <3> QED
      BY <3>2, <3>3 DEF IsSaving
  <2>4. CASE ~(OpenEnvironments \/ OpenSettings \/ \E k \in Kinds, p \in Paths : SaveManual(k, p))
    <3>1. UNCHANGED <<mount, saving>>
      BY <1>4, <2>4 DEF User, CacheExpires, ChangeTheme, Refresh, EditAny, Edit, SaveForm,
         Import, Operate
    <3> QED
      BY <1>1, <2>1, <3>1
  <2> QED
    BY <2>2, <2>3, <2>4
<1>5. CASE UNCHANGED vars
  BY <1>1, <1>5 DEF vars, InTransit
<1> QED
  BY <1>2, <1>3, <1>4, <1>5 DEF Next

\* The settings page waits for one call of its operation after the other.
LEMMA BusyStep ==
  ASSUME TypeOK, WireInv, RestInv, [Next]_vars
  PROVE  busy' => \E w \in InTransit' : IsOperation(w)'
<1> USE DEF backendVars, wireVars, routeVars, envVars, formVars, history
<1>1. ASSUME mount' = mount, busy' => busy,
             busy' => \A w \in InTransit : IsOperation(w) => \E v \in InTransit' : IsOperation(v)
      PROVE  busy' => \E w \in InTransit' : IsOperation(w)'
  BY <1>1 DEF RestInv, IsOperation
<1>2. CASE Runs
  BY <1>1, <1>2, RunKeepsTransit
<1>3. CASE Takes
  <2> DEFINE h == Head(answers)
  <2>1. /\ AnswerOK(h, mount, generation) /\ answers # <<>> /\ mount' = mount
        /\ \A w \in InTransit : w \in InTransit' \/ w = Waiting(h)
    BY <1>3, TakeMoves
  <2>2. /\ Waiting(h).op = h.op /\ Waiting(h).by = h.by /\ Waiting(h).mount = h.mount
    BY DEF Waiting, Call
  <2>3. CASE TakeTheme \/ TakeForm \/ TakeManual \/ TakeLoad \/ TakeRows
    <3>1. h.op \in {"get", "override", "list"} /\ h.by \notin {"reload", "persist"} /\ busy' = busy
      BY <2>3 DEF TakeTheme, TakeForm, TakeManual, TakeLoad, TakeRows, Arrives
    <3> QED
      BY <1>1, <2>1, <2>2, <3>1 DEF IsOperation
  <2>4. ASSUME EndOperation(h.mount)
        PROVE  busy' => \E w \in InTransit' : IsOperation(w)'
    <3>1. busy' => busy /\ h.mount # mount
      BY <2>4 DEF EndOperation
    <3> QED
      BY <1>1, <2>1, <2>2, <3>1 DEF IsOperation
  <2>5. ASSUME busy' = busy, NEW op, NEW by, NEW arg,
               calls' = Append(calls, Call(op, by, h.mount, arg)),
               op = "save" \/ by \in {"reload", "persist"}
        PROVE  busy' => \E w \in InTransit' : IsOperation(w)'
    <3> DEFINE c == Call(op, by, h.mount, arg)
    <3>1. c \in InTransit'
      BY <2>5, CallInTransit
    <3>2. c.op = op /\ c.by = by /\ c.mount = h.mount
      BY DEF Call
    <3> HIDE DEF c
    <3>3. IsOperation(Waiting(h)) => IsOperation(c)
      BY <2>2, <2>5, <3>2 DEF IsOperation
    <3> QED
      BY <1>1, <2>1, <2>5, <3>1, <3>3
  <2>6. CASE TakePersist
    <3>1. CASE h.settings.theme = h.arg
      BY <2>4, <2>6, <3>1 DEF TakePersist
    <3>2. CASE h.settings.theme # h.arg
      <4>1. \E arg : calls' = Append(calls, Call("save", "persist", h.mount, arg))
        BY <2>6, <3>2 DEF TakePersist
      <4>2. busy' = busy
        BY <2>6, <3>2 DEF TakePersist
      <4> QED
        BY <2>5, <4>1, <4>2
    <3> QED
      BY <3>1, <3>2
  <2>7. CASE TakePersisted
    BY <2>4, <2>7 DEF TakePersisted
  <2>8. CASE TakeOperated
    <3>1. CASE h.ok
      BY <2>5, <2>8, <3>1 DEF TakeOperated
    <3>2. CASE ~h.ok
      BY <2>4, <2>8, <3>2 DEF TakeOperated
    <3> QED
      BY <3>1, <3>2
  <2>9. CASE TakeReload
    BY <2>5, <2>9 DEF TakeReload, Persist
  <2> QED
    BY <1>3, <2>3, <2>6, <2>7, <2>8, <2>9 DEF Takes
<1>4. CASE User \/ CacheExpires
  <2>1. InTransit \subseteq InTransit'
    BY <1>4, UserKeepsTransit
  <2>2. CASE OpenEnvironments \/ OpenSettings
    BY <2>2 DEF OpenEnvironments, OpenSettings, Mounted
  <2>3. CASE SaveForm \/ \E file \in Imports : Import(file)
    <3>1. \E op, arg : /\ op \in {"save", "import"} /\ mount' = mount
                       /\ calls' = Append(calls, Call(op, "form", mount, arg))
      <4>1. CASE SaveForm
        BY <4>1 DEF SaveForm, Operate
      <4>2. CASE \E file \in Imports : Import(file)
        BY <4>2 DEF Import, Operate
      <4> QED
        BY <2>3, <4>1, <4>2
    <3>2. PICK op, arg : /\ op \in {"save", "import"} /\ mount' = mount
                         /\ calls' = Append(calls, Call(op, "form", mount, arg))
      BY <3>1
    <3> DEFINE c == Call(op, "form", mount, arg)
    <3>3. c \in InTransit'
      BY <3>2, CallInTransit
    <3>4. c.op = op /\ c.mount = mount
      BY DEF Call
    <3> HIDE DEF c
    <3> QED
      BY <3>2, <3>3, <3>4 DEF IsOperation
  <2>4. CASE ~(OpenEnvironments \/ OpenSettings \/ SaveForm \/ \E file \in Imports : Import(file))
    <3>1. UNCHANGED <<mount, busy>>
      BY <1>4, <2>4 DEF User, CacheExpires, ChangeTheme, Refresh, SaveManual, EditAny, Edit
    <3> QED
      BY <1>1, <2>1, <3>1
  <2> QED
    BY <2>2, <2>3, <2>4
<1>5. CASE UNCHANGED vars
  BY <1>1, <1>5 DEF vars, InTransit
<1> QED
  BY <1>2, <1>3, <1>4, <1>5 DEF Next

\* A page that waits still waits for something.
LEMMA RestStep ==
  ASSUME TypeOK, WireInv, RestInv, [Next]_vars
  PROVE  RestInv'
BY LoadingStep, SavedStep, BusyStep DEF RestInv

-----------------------------------------------------------------------------
(* One override is saved at a time.                                        *)

\* An answer is as much a saving, a listing or an old change as its call.
LEMMA SameWaiting ==
  ASSUME NEW a, NEW w, Waiting(a) = Waiting(w)
  PROVE  /\ a.op = w.op /\ a.by = w.by /\ a.mount = w.mount /\ a.arg = w.arg
         /\ IsSaving(a) <=> IsSaving(w)
         /\ IsListing(a) <=> IsListing(w)
<1>1. a.op = w.op /\ a.by = w.by /\ a.mount = w.mount /\ a.arg = w.arg
  BY DEF Waiting, Call
<1> QED
  BY <1>1 DEF IsSaving, IsListing

\* The call at the head is run: what saves is in one place still.
LEMMA SavingRun ==
  ASSUME WireInv, SavingInv, UNCHANGED <<mount, saving>>, calls # <<>>, calls' = Tail(calls),
         \E a : answers' = Append(answers, a) /\ Waiting(a) = Waiting(Head(calls))
  PROVE  SavingInv'
<1>1. PICK a : answers' = Append(answers, a) /\ Waiting(a) = Waiting(Head(calls))
  OBVIOUS
<1>2. 1 \in DOMAIN calls /\ (IsSaving(a) => IsSaving(calls[1]))
  BY <1>1, SameWaiting, Shorter DEF WireInv
<1>3. \A i \in DOMAIN calls' :
        i \in Nat /\ i + 1 \in DOMAIN calls /\ calls'[i] = calls[i + 1] /\ i + 1 # 1
  BY Shorter DEF WireInv
<1>4. \A i \in DOMAIN answers' :
        \/ i \in DOMAIN answers /\ answers'[i] = answers[i]
        \/ i = Len(answers) + 1 /\ answers'[i] = a
  BY <1>1, Longer DEF WireInv
<1>5. ASSUME NEW i \in DOMAIN calls', IsSaving(calls'[i])
      PROVE  /\ saving
             /\ \A j \in DOMAIN calls' : IsSaving(calls'[j]) => i = j
             /\ \A j \in DOMAIN answers' : ~IsSaving(answers'[j])
  BY <1>2, <1>3, <1>4, <1>5 DEF SavingInv
<1>6. ASSUME NEW i \in DOMAIN answers', IsSaving(answers'[i])
      PROVE  /\ saving
             /\ \A j \in DOMAIN answers' : IsSaving(answers'[j]) => i = j
  BY <1>2, <1>4, <1>6 DEF SavingInv
<1> QED
  BY <1>5, <1>6 DEF SavingInv, IsSaving

\* An answer is taken: what saves goes on as a call, or has ended.
LEMMA SavingTaken ==
  ASSUME WireInv, SavingInv, mount' = mount, answers # <<>>, answers' = Tail(answers),
         \/ calls' = calls
         \/ \E c : /\ calls' = Append(calls, c)
                   /\ IsSaving(c) => IsSaving(Head(answers)) /\ saving',
         saving => saving' \/ IsSaving(Head(answers))
  PROVE  SavingInv'
<1>1. 1 \in DOMAIN answers /\ Head(answers) = answers[1]
  BY Shorter DEF WireInv
<1>2. \A i \in DOMAIN answers' :
        i \in Nat /\ i + 1 \in DOMAIN answers /\ answers'[i] = answers[i + 1] /\ i + 1 # 1
  BY Shorter DEF WireInv
<1>3. ASSUME NEW i \in DOMAIN answers', IsSaving(answers'[i])
      PROVE  /\ saving'
             /\ \A j \in DOMAIN answers' : IsSaving(answers'[j]) => i = j
             /\ ~IsSaving(Head(answers))
  BY <1>1, <1>2, <1>3 DEF SavingInv
<1>4. ASSUME NEW i \in DOMAIN calls, IsSaving(calls[i])
      PROVE  /\ saving'
             /\ \A j \in DOMAIN calls : IsSaving(calls[j]) => i = j
             /\ \A j \in DOMAIN answers' : ~IsSaving(answers'[j])
             /\ ~IsSaving(Head(answers))
  BY <1>1, <1>2, <1>4 DEF SavingInv
<1>5. CASE calls' = calls
  BY <1>3, <1>4, <1>5 DEF SavingInv, IsSaving
<1>6. CASE \E c : /\ calls' = Append(calls, c)
                  /\ IsSaving(c) => IsSaving(Head(answers)) /\ saving'
  <2>1. PICK c : /\ calls' = Append(calls, c)
                 /\ IsSaving(c) => IsSaving(Head(answers)) /\ saving'
    BY <1>6
  <2>2. \A i \in DOMAIN calls' :
          \/ i \in DOMAIN calls /\ calls'[i] = calls[i]
          \/ i = Len(calls) + 1 /\ calls'[i] = c
    BY <2>1, Longer DEF WireInv
  <2>3. ASSUME NEW i \in DOMAIN calls', IsSaving(calls'[i])
        PROVE  /\ saving'
               /\ \A j \in DOMAIN calls' : IsSaving(calls'[j]) => i = j
               /\ \A j \in DOMAIN answers' : ~IsSaving(answers'[j])
    BY <1>3, <1>4, <2>1, <2>2, <2>3
  <2> QED
    BY <1>3, <2>3 DEF SavingInv, IsSaving
<1> QED
  BY <1>5, <1>6

\* A call is added: it saves only when nothing else does.
LEMMA SavingAdded ==
  ASSUME WireInv, SavingInv, mount' = mount, answers' = answers, saving => saving',
         \/ calls' = calls
         \/ \E c : calls' = Append(calls, c) /\ (IsSaving(c) => ~saving /\ saving')
  PROVE  SavingInv'
<1>1. CASE calls' = calls
  BY <1>1 DEF SavingInv, IsSaving
<1>2. CASE \E c : calls' = Append(calls, c) /\ (IsSaving(c) => ~saving /\ saving')
  <2>1. PICK c : calls' = Append(calls, c) /\ (IsSaving(c) => ~saving /\ saving')
    BY <1>2
  <2>2. \A i \in DOMAIN calls' :
          \/ i \in DOMAIN calls /\ calls'[i] = calls[i]
          \/ i = Len(calls) + 1 /\ calls'[i] = c
    BY <2>1, Longer DEF WireInv
  <2>3. ASSUME NEW i \in DOMAIN calls', IsSaving(calls'[i])
        PROVE  /\ saving'
               /\ \A j \in DOMAIN calls' : IsSaving(calls'[j]) => i = j
               /\ \A j \in DOMAIN answers' : ~IsSaving(answers'[j])
    BY <2>1, <2>2, <2>3 DEF SavingInv
  <2> QED
    BY <2>3 DEF SavingInv, IsSaving
<1> QED
  BY <1>1, <1>2

\* Every step keeps one saving at a time.
LEMMA SavingStep ==
  ASSUME TypeOK, WireInv, SavingInv, [Next]_vars
  PROVE  SavingInv'
<1> USE DEF backendVars, wireVars, routeVars, envVars, formVars, history
<1>1. CASE Runs
  BY <1>1, RunKeepsTransit, SavingRun
<1>2. CASE Takes
  <2> DEFINE h == Head(answers)
  <2>1. /\ AnswerOK(h, mount, generation) /\ answers # <<>> /\ answers' = Tail(answers)
        /\ mount' = mount /\ h = answers[1] /\ 1 \in DOMAIN answers
    BY <1>2, TakeMoves, Shorter DEF WireInv
  <2>2. IsSaving(h) => saving
    BY <2>1 DEF SavingInv
  <2>3. CASE TakeTheme \/ TakePersisted \/ TakeForm
    <3>1. calls' = calls /\ saving' = saving
      BY <2>3 DEF TakeTheme, TakePersisted, TakeForm
    <3> QED
      BY <2>1, <3>1, SavingTaken
  <2>4. ASSUME saving' = saving, NEW op, NEW by, NEW m, NEW arg, op # "override", by # "load",
               calls' = Append(calls, Call(op, by, m, arg))
        PROVE  SavingInv'
    <3> DEFINE c == Call(op, by, m, arg)
    <3>1. c.op = op /\ c.by = by
      BY DEF Call
    <3> HIDE DEF c
    <3>2. ~IsSaving(c)
      BY <2>4, <3>1 DEF IsSaving
    <3> QED
      BY <2>1, <2>4, <3>2, SavingTaken DEF c
  <2>5. CASE TakePersist \/ TakeOperated \/ TakeReload
    <3>1. saving' = saving
      BY <2>5 DEF TakePersist, TakeOperated, TakeReload
    <3>2. \/ calls' = calls
          \/ \E m, arg : calls' = Append(calls, Call("save", "persist", m, arg))
          \/ \E m, arg : calls' = Append(calls, Call("get", "reload", m, arg))
          \/ \E m, arg : calls' = Append(calls, Call("get", "persist", m, arg))
      BY <2>5 DEF TakePersist, TakeOperated, TakeReload, Persist
    <3>3. CASE calls' = calls
      BY <2>1, <3>1, <3>3, SavingTaken
    <3> QED
      BY <2>4, <3>1, <3>2, <3>3
  <2>6. CASE TakeManual
    <3>1. h.op = "override"
      BY <2>6 DEF TakeManual, Arrives
    <3>2. CASE h.ok
      <4>1. Load(h.mount, TRUE, TRUE) /\ saving' = saving
        BY <2>6, <3>2 DEF TakeManual
      <4> DEFINE c == Call("get", "load", h.mount, Listing(NextGeneration(h.mount), TRUE, TRUE))
      <4>2. c.mount = h.mount
        BY DEF Call
      <4>3. calls' = Append(calls, c)
        BY <4>1 DEF Load
      <4> HIDE DEF c
      <4>4. IsSaving(c) => IsSaving(h) /\ saving'
        BY <2>2, <3>1, <4>1, <4>2 DEF IsSaving
      <4> QED
        BY <2>1, <4>1, <4>3, <4>4, SavingTaken
    <3>3. CASE ~h.ok
      <4>1. saving => saving' \/ IsSaving(h)
        BY <2>6, <3>1, <3>3 DEF TakeManual, OnScreen, IsSaving
      <4>2. calls' = calls
        BY <2>6, <3>3 DEF TakeManual
      <4> QED
        BY <2>1, <4>1, <4>2, SavingTaken
    <3> QED
      BY <3>2, <3>3
  <2>7. CASE TakeLoad
    <3>1. h.by = "load" /\ h.op = "get"
      BY <2>7 DEF TakeLoad, Arrives
    <3>2. CASE ~IsLatest
      <4>1. saving => saving' \/ IsSaving(h)
        BY <2>7, <3>1, <3>2 DEF TakeLoad, EndSaving, OnScreen, IsSaving
      <4>2. calls' = calls
        BY <2>7, <3>2 DEF TakeLoad
      <4> QED
        BY <2>1, <4>1, <4>2, SavingTaken
    <3>3. CASE IsLatest
      <4> DEFINE arg == With(h.arg, [enabled |-> Kinds \ h.settings.disabled])
                 c == Call("list", "load", h.mount, arg)
      <4>1. DOMAIN h.arg = {"generation", "force", "saves"}
        BY <2>1, <3>1 DEF AnswerOK, ItemOK
      <4>2. arg.saves = h.arg.saves
        BY <4>1, ListArg
      <4>3. calls' = Append(calls, c) /\ saving' = saving
        BY <2>7, <3>3 DEF TakeLoad
      <4>4. c.op = "list" /\ c.by = "load" /\ c.mount = h.mount /\ c.arg.saves = h.arg.saves
        BY <4>2 DEF Call
      <4> HIDE DEF c
      <4>5. IsSaving(c) => IsSaving(h) /\ saving'
        BY <2>2, <3>1, <4>3, <4>4 DEF IsSaving
      <4> QED
        BY <2>1, <4>3, <4>5, SavingTaken
    <3> QED
      BY <3>2, <3>3
  <2>8. CASE TakeRows
    <3>1. saving => saving' \/ IsSaving(h)
      BY <2>8 DEF TakeRows, EndSaving, OnScreen, IsSaving, Arrives
    <3>2. calls' = calls
      BY <2>8 DEF TakeRows
    <3> QED
      BY <2>1, <3>1, <3>2, SavingTaken
  <2> QED
    BY <1>2, <2>3, <2>5, <2>6, <2>7, <2>8 DEF Takes
<1>3. CASE User \/ CacheExpires
  <2>1. answers' = answers
    BY <1>3, UserKeepsTransit
  <2>2. ASSUME UNCHANGED <<mount, saving>>, NEW op, NEW by, NEW m, NEW arg,
               op # "override", by # "load",
               calls' = Append(calls, Call(op, by, m, arg))
        PROVE  SavingInv'
    <3> DEFINE c == Call(op, by, m, arg)
    <3>1. c.op = op /\ c.by = by
      BY DEF Call
    <3> HIDE DEF c
    <3>2. ~IsSaving(c)
      BY <2>2, <3>1 DEF IsSaving
    <3> QED
      BY <2>1, <2>2, <3>2, SavingAdded DEF c
  <2>3. CASE \E t \in Themes : ChangeTheme(t)
    BY <2>2, <2>3 DEF ChangeTheme, Persist
  <2>4. CASE OpenEnvironments \/ OpenSettings
    <3>1. mount' = mount + 1 /\ mount \in Nat
      BY <2>4, Grows DEF OpenEnvironments, OpenSettings, Mounted
    <3>2. PICK c : calls' = Append(calls, c) /\ c.op = "get" /\ (c.by = "load" => ~c.arg.saves)
      <4>1. CASE OpenEnvironments
        <5> DEFINE c == Call("get", "load", mount', Listing(1, FALSE, FALSE))
        <5>1. c.op = "get" /\ ~c.arg.saves
          BY DEF Call, Listing
        <5>2. calls' = Append(calls, c)
          BY <4>1 DEF OpenEnvironments
        <5> QED
          BY <5>1, <5>2
      <4>2. CASE OpenSettings
        BY <4>2 DEF OpenSettings, Call
      <4> QED
        BY <2>4, <4>1, <4>2
    <3>3. ASSUME NEW w, w.mount \in 0 .. mount
          PROVE  w.mount # mount'
      BY <3>1, <3>3
    <3>4. \A i \in DOMAIN answers' : answers'[i].mount # mount'
      BY <2>1, <3>3 DEF WireInv, AnswerOK, ItemOK
    <3>5. \A i \in DOMAIN calls' : calls'[i].mount = mount' => calls'[i] = c
      <4>1. \A i \in DOMAIN calls' : (i \in DOMAIN calls /\ calls'[i] = calls[i]) \/ calls'[i] = c
        BY <3>2, Longer DEF WireInv
      <4> QED
        BY <3>3, <4>1 DEF WireInv, CallOK, ItemOK
    <3> QED
      BY <3>2, <3>4, <3>5 DEF SavingInv, IsSaving
  <2>5. CASE Refresh
    <3> DEFINE c == Call("get", "load", mount, Listing(NextGeneration(mount), TRUE, FALSE))
    <3>1. c.op = "get" /\ ~c.arg.saves
      BY DEF Call, Listing
    <3>2. calls' = Append(calls, c) /\ UNCHANGED <<mount, saving>>
      BY <2>5 DEF Refresh, Load
    <3> HIDE DEF c
    <3>3. ~IsSaving(c)
      BY <3>1 DEF IsSaving
    <3> QED
      BY <2>1, <3>2, <3>3, SavingAdded
  <2>6. CASE \E k \in Kinds, p \in Paths : SaveManual(k, p)
    <3>1. PICK k \in Kinds, p \in Paths : SaveManual(k, p)
      BY <2>6
    <3> DEFINE c == Call("override", "manual", mount, [kind |-> k, path |-> p])
    <3>2. calls' = Append(calls, c) /\ mount' = mount /\ ~saving /\ saving'
      BY <3>1 DEF SaveManual
    <3> HIDE DEF c
    <3> QED
      BY <2>1, <3>2, SavingAdded
  <2>7. CASE EditAny \/ CacheExpires
    <3>1. UNCHANGED <<mount, saving, calls>>
      BY <2>7 DEF EditAny, Edit, CacheExpires
    <3> QED
      BY <2>1, <3>1, SavingAdded
  <2>8. CASE SaveForm
    BY <2>2, <2>8 DEF SaveForm, Operate
  <2>9. CASE \E file \in Imports : Import(file)
    BY <2>2, <2>9 DEF Import, Operate
  <2> QED
    BY <1>3, <2>3, <2>4, <2>5, <2>6, <2>7, <2>8, <2>9 DEF User
<1>4. CASE UNCHANGED vars
  BY <1>4 DEF vars, SavingInv, IsSaving
<1> QED
  BY <1>1, <1>2, <1>3, <1>4 DEF Next

-----------------------------------------------------------------------------
(* Old changes are run before the first listing of the page.               *)

\* The head of the calls moves to the answers.
LEMMA OrderRun ==
  ASSUME WireInv, OrderInv, UNCHANGED <<page, mount, loading>>, calls # <<>>, calls' = Tail(calls),
         \E a : answers' = Append(answers, a) /\ Waiting(a) = Waiting(Head(calls))
  PROVE  OrderInv'
<1>1. PICK a : answers' = Append(answers, a) /\ Waiting(a) = Waiting(Head(calls))
  OBVIOUS
<1>2. 1 \in DOMAIN calls /\ (IsListing(a) => IsListing(calls[1]))
  BY <1>1, SameWaiting, Shorter DEF WireInv
<1>3. \A i \in DOMAIN calls' : i \in Nat /\ i + 1 \in DOMAIN calls /\ calls'[i] = calls[i + 1]
  BY Shorter DEF WireInv
<1>4. \A i \in DOMAIN answers' : (i \in DOMAIN answers /\ answers'[i] = answers[i]) \/ answers'[i] = a
  BY <1>1, Longer DEF WireInv
<1>5. ASSUME page = "environments", NEW i \in DOMAIN calls', OldChange(calls'[i])
      PROVE  /\ loading
             /\ \A j \in DOMAIN answers' : ~IsListing(answers'[j])
             /\ \A j \in DOMAIN calls' : IsListing(calls'[j]) => i < j /\ calls'[j].op = "get"
  <2>1. i + 1 \in DOMAIN calls /\ OldChange(calls[i + 1]) /\ i \in Nat
    BY <1>3, <1>5
  <2>2. /\ loading
        /\ \A j \in DOMAIN answers : ~IsListing(answers[j])
        /\ \A j \in DOMAIN calls : IsListing(calls[j]) => i + 1 < j /\ calls[j].op = "get"
    BY <1>5, <2>1 DEF OrderInv
  <2>3. ~IsListing(a)
    <3>1. ~(i + 1 < 1)
      BY <2>1
    <3> QED
      BY <1>2, <2>2, <3>1
  <2>4. ASSUME NEW j \in DOMAIN calls', IsListing(calls'[j])
        PROVE  i < j /\ calls'[j].op = "get"
    <3>1. j \in Nat /\ i + 1 < j + 1 /\ calls'[j].op = "get"
      BY <1>3, <2>2, <2>4
    <3> QED
      BY <2>1, <3>1
  <2> QED
    BY <1>4, <2>2, <2>3, <2>4
<1> QED
  BY <1>5 DEF OrderInv, OldChange, IsListing

\* The head of the answers is taken, and what is called then is no old change.
LEMMA OrderTaken ==
  ASSUME WireInv, OrderInv, UNCHANGED <<page, mount>>, answers # <<>>, answers' = Tail(answers),
         \/ calls' = calls
         \/ \E c : /\ calls' = Append(calls, c) /\ ~OldChange(c)
                   /\ IsListing(c) => c.op = "get" \/ IsListing(Head(answers)),
         loading => loading' \/ IsListing(Head(answers))
  PROVE  OrderInv'
<1>1. 1 \in DOMAIN answers /\ Head(answers) = answers[1]
  BY Shorter DEF WireInv
<1>2. \A i \in DOMAIN answers' : i + 1 \in DOMAIN answers /\ answers'[i] = answers[i + 1]
  BY Shorter DEF WireInv
<1>3. ASSUME page = "environments", NEW i \in DOMAIN calls, OldChange(calls[i])
      PROVE  /\ loading'
             /\ \A j \in DOMAIN answers' : ~IsListing(answers'[j])
             /\ \A j \in DOMAIN calls : IsListing(calls[j]) => i < j /\ calls[j].op = "get"
             /\ ~IsListing(Head(answers))
  BY <1>1, <1>2, <1>3 DEF OrderInv
<1>4. CASE calls' = calls
  BY <1>3, <1>4 DEF OrderInv, OldChange, IsListing
<1>5. CASE \E c : /\ calls' = Append(calls, c) /\ ~OldChange(c)
                  /\ IsListing(c) => c.op = "get" \/ IsListing(Head(answers))
  <2>1. PICK c : /\ calls' = Append(calls, c) /\ ~OldChange(c)
                 /\ IsListing(c) => c.op = "get" \/ IsListing(Head(answers))
    BY <1>5
  <2>2. \A i \in DOMAIN calls' : \/ i \in DOMAIN calls /\ calls'[i] = calls[i]
                                 \/ i = Len(calls) + 1 /\ calls'[i] = c
    BY <2>1, Longer DEF WireInv
  <2>3. \A i \in DOMAIN calls : i < Len(calls) + 1
    BY Longer DEF WireInv
  <2>4. ASSUME page = "environments", NEW i \in DOMAIN calls', OldChange(calls'[i])
        PROVE  /\ loading'
               /\ \A j \in DOMAIN answers' : ~IsListing(answers'[j])
               /\ \A j \in DOMAIN calls' : IsListing(calls'[j]) => i < j /\ calls'[j].op = "get"
    <3>1. i \in DOMAIN calls /\ OldChange(calls[i])
      BY <2>1, <2>2, <2>4
    <3>2. /\ loading'
          /\ \A j \in DOMAIN answers' : ~IsListing(answers'[j])
          /\ \A j \in DOMAIN calls : IsListing(calls[j]) => i < j /\ calls[j].op = "get"
          /\ ~IsListing(Head(answers))
      BY <1>3, <2>4, <3>1
    <3> QED
      BY <2>1, <2>2, <2>3, <3>1, <3>2
  <2> QED
    BY <2>4 DEF OrderInv, OldChange, IsListing
<1> QED
  BY <1>4, <1>5

\* A call that is no old change, and lists only from its beginning.
LEMMA OrderAdded ==
  ASSUME WireInv, OrderInv, UNCHANGED <<page, mount>>, answers' = answers, loading => loading',
         \/ calls' = calls
         \/ \E c : /\ calls' = Append(calls, c)
                   /\ page = "environments" => ~OldChange(c)
                   /\ IsListing(c) => c.op = "get"
  PROVE  OrderInv'
<1>1. CASE calls' = calls
  BY <1>1 DEF OrderInv, OldChange, IsListing
<1>2. CASE \E c : /\ calls' = Append(calls, c)
                  /\ page = "environments" => ~OldChange(c)
                  /\ IsListing(c) => c.op = "get"
  <2>1. PICK c : /\ calls' = Append(calls, c)
                 /\ page = "environments" => ~OldChange(c)
                 /\ IsListing(c) => c.op = "get"
    BY <1>2
  <2>2. \A i \in DOMAIN calls' : \/ i \in DOMAIN calls /\ calls'[i] = calls[i]
                                 \/ i = Len(calls) + 1 /\ calls'[i] = c
    BY <2>1, Longer DEF WireInv
  <2>3. \A i \in DOMAIN calls : i < Len(calls) + 1
    BY Longer DEF WireInv
  <2>4. ASSUME page = "environments", NEW i \in DOMAIN calls', OldChange(calls'[i])
        PROVE  /\ loading'
               /\ \A j \in DOMAIN answers' : ~IsListing(answers'[j])
               /\ \A j \in DOMAIN calls' : IsListing(calls'[j]) => i < j /\ calls'[j].op = "get"
    <3>1. i \in DOMAIN calls /\ OldChange(calls[i])
      BY <2>1, <2>2, <2>4
    <3>2. /\ loading'
          /\ \A j \in DOMAIN answers' : ~IsListing(answers'[j])
          /\ \A j \in DOMAIN calls : IsListing(calls[j]) => i < j /\ calls[j].op = "get"
      BY <2>4, <3>1 DEF OrderInv
    <3> QED
      BY <2>1, <2>2, <2>3, <3>1, <3>2
  <2> QED
    BY <2>4 DEF OrderInv, OldChange, IsListing
<1> QED
  BY <1>1, <1>2

\* Every step keeps old changes before the first listing.
LEMMA OrderStep ==
  ASSUME TypeOK, WireInv, OrderInv, [Next]_vars
  PROVE  OrderInv'
<1> USE DEF backendVars, wireVars, routeVars, envVars, formVars, history
<1>0. ASSUME NEW op, NEW by, NEW m, NEW arg
      PROVE  LET c == Call(op, by, m, arg) IN
             /\ c.op = op /\ c.by = by /\ c.mount = m
             /\ op = "get" \/ (op = "save" /\ by = "persist") \/ op = "list" => ~OldChange(c)
             /\ by # "load" => ~IsListing(c)
             /\ IsListing(c) => m = mount
  BY DEF Call, OldChange, IsListing
<1>1. CASE Runs
  BY <1>1, RunKeepsTransit, OrderRun
<1>2. CASE Takes
  <2> DEFINE h == Head(answers)
  <2>1. /\ AnswerOK(h, mount, generation) /\ answers # <<>> /\ answers' = Tail(answers)
        /\ UNCHANGED <<page, mount>>
    BY <1>2, TakeMoves
  <2>2. ASSUME loading => loading', NEW op, NEW by, NEW m, NEW arg,
               op = "get" \/ (op = "save" /\ by = "persist"),
               calls' = Append(calls, Call(op, by, m, arg))
        PROVE  OrderInv'
    <3> DEFINE c == Call(op, by, m, arg)
    <3>1. ~OldChange(c) /\ (IsListing(c) => c.op = "get")
      BY <1>0, <2>2
    <3> HIDE DEF c
    <3> QED
      BY <2>1, <2>2, <3>1, OrderTaken DEF c
  <2>3. CASE TakeTheme \/ TakePersisted \/ TakeForm
    <3>1. UNCHANGED <<calls, loading>>
      BY <2>3 DEF TakeTheme, TakePersisted, TakeForm
    <3> QED
      BY <2>1, <3>1, OrderTaken
  <2>4. CASE TakePersist \/ TakeOperated \/ TakeReload
    <3>1. loading' = loading
      BY <2>4 DEF TakePersist, TakeOperated, TakeReload
    <3>2. \/ calls' = calls
          \/ \E m, arg : calls' = Append(calls, Call("save", "persist", m, arg))
          \/ \E m, arg : calls' = Append(calls, Call("get", "reload", m, arg))
          \/ \E m, arg : calls' = Append(calls, Call("get", "persist", m, arg))
      BY <2>4 DEF TakePersist, TakeOperated, TakeReload, Persist
    <3>3. CASE calls' = calls
      BY <2>1, <3>1, <3>3, OrderTaken
    <3> QED
      BY <2>2, <3>1, <3>2, <3>3
  <2>5. CASE TakeManual
    <3>1. CASE Head(answers).ok
      <4>1. Load(h.mount, TRUE, TRUE)
        BY <2>5, <3>1 DEF TakeManual
      <4>2. loading => loading'
        BY <4>1 DEF Load
      <4> QED
        BY <2>2, <4>1, <4>2 DEF Load
    <3>2. CASE ~Head(answers).ok
      <4>1. UNCHANGED <<calls, loading>>
        BY <2>5, <3>2 DEF TakeManual
      <4> QED
        BY <2>1, <4>1, OrderTaken
    <3> QED
      BY <3>1, <3>2
  <2>6. CASE TakeLoad
    <3>1. h.by = "load" /\ loading' = loading
      BY <2>6 DEF TakeLoad, Arrives
    <3>2. CASE calls' = calls
      BY <2>1, <3>1, <3>2, OrderTaken
    <3>3. ASSUME NEW arg, calls' = Append(calls, Call("list", "load", h.mount, arg))
          PROVE  OrderInv'
      <4> DEFINE c == Call("list", "load", h.mount, arg)
      <4>1. ~OldChange(c) /\ (IsListing(c) => h.mount = mount)
        BY <1>0
      <4>2. IsListing(c) => IsListing(h)
        BY <3>1, <4>1 DEF IsListing
      <4> HIDE DEF c
      <4> QED
        BY <2>1, <3>1, <3>3, <4>1, <4>2, OrderTaken DEF c
    <3> QED
      BY <2>6, <3>2, <3>3 DEF TakeLoad
  <2>7. CASE TakeRows
    <3>1. calls' = calls
      BY <2>7 DEF TakeRows
    <3>2. loading => loading' \/ IsListing(h)
      BY <2>7 DEF TakeRows, OnScreen, Arrives, IsListing
    <3> QED
      BY <2>1, <3>1, <3>2, OrderTaken
  <2> QED
    BY <1>2, <2>3, <2>4, <2>5, <2>6, <2>7 DEF Takes
<1>3. CASE User \/ CacheExpires
  <2>1. answers' = answers
    BY <1>3, UserKeepsTransit
  <2>2. ASSUME UNCHANGED <<page, mount>>, loading => loading', NEW by, NEW m, NEW arg,
               calls' = Append(calls, Call("get", by, m, arg))
        PROVE  OrderInv'
    <3> DEFINE c == Call("get", by, m, arg)
    <3>1. ~OldChange(c) /\ c.op = "get"
      BY <1>0
    <3> HIDE DEF c
    <3> QED
      BY <2>1, <2>2, <3>1, OrderAdded DEF c
  <2>3. CASE \E t \in Themes : ChangeTheme(t)
    BY <2>2, <2>3 DEF ChangeTheme, Persist
  <2>4. CASE OpenEnvironments
    <3>1. mount' = mount + 1 /\ mount \in Nat /\ loading'
      BY <2>4, Grows DEF OpenEnvironments, Mounted
    <3> DEFINE c == Call("get", "load", mount', Listing(1, FALSE, FALSE))
    <3>2. calls' = Append(calls, c) /\ c.op = "get"
      BY <2>4 DEF OpenEnvironments, Call
    <3> HIDE DEF c
    <3>3. ASSUME NEW w, w.mount \in 0 .. mount
          PROVE  w.mount # mount'
      BY <3>1, <3>3
    <3>4. \A i \in DOMAIN answers : answers[i].mount # mount'
      BY <3>3 DEF WireInv, AnswerOK, ItemOK
    <3>5. \A i \in DOMAIN calls : calls[i].mount # mount'
      BY <3>3 DEF WireInv, CallOK, ItemOK
    <3>6. \A i \in DOMAIN calls' : \/ i \in DOMAIN calls /\ calls'[i] = calls[i]
                                   \/ i = Len(calls) + 1 /\ calls'[i] = c
      BY <3>2, Longer DEF WireInv
    <3>7. \A i \in DOMAIN calls : i < Len(calls) + 1
      BY Longer DEF WireInv
    <3>8. \A i \in DOMAIN calls' : calls'[i].op # "get" => i \in DOMAIN calls
      BY <3>2, <3>6
    <3>9. \A j \in DOMAIN calls' :
            calls'[j].mount = mount' => j = Len(calls) + 1 /\ calls'[j].op = "get"
      BY <3>2, <3>5, <3>6
    <3> QED
      BY <2>1, <3>1, <3>4, <3>7, <3>8, <3>9 DEF OrderInv, OldChange, IsListing
  <2>5. CASE OpenSettings
    BY <2>5 DEF OpenSettings, Mounted, OrderInv
  <2>6. CASE Refresh
    BY <2>2, <2>6 DEF Refresh, Load
  <2>7. CASE \E k \in Kinds, p \in Paths : SaveManual(k, p)
    <3>1. PICK k \in Kinds, p \in Paths : SaveManual(k, p)
      BY <2>7
    <3> DEFINE c == Call("override", "manual", mount, [kind |-> k, path |-> p])
    <3>2. calls' = Append(calls, c) /\ UNCHANGED <<page, mount, loading>>
      BY <3>1 DEF SaveManual
    <3>3. c.op = "override" /\ c.mount = mount /\ ~IsListing(c)
      BY <1>0
    <3> HIDE DEF c
    <3>4. ~OldChange(c)
      BY <3>3 DEF OldChange
    <3> QED
      BY <2>1, <3>2, <3>3, <3>4, OrderAdded
  <2>8. CASE EditAny \/ CacheExpires
    <3>1. UNCHANGED <<page, mount, loading, calls>>
      BY <2>8 DEF EditAny, Edit, CacheExpires
    <3> QED
      BY <2>1, <3>1, OrderAdded
  <2>9. CASE SaveForm \/ \E file \in Imports : Import(file)
    <3>1. page = "settings" /\ page' = page
      BY <2>9 DEF SaveForm, Import, Operate, MayOperate
    <3> QED
      BY <3>1 DEF OrderInv
  <2> QED
    BY <1>3, <2>3, <2>4, <2>5, <2>6, <2>7, <2>8, <2>9 DEF User
<1>4. CASE UNCHANGED vars
  BY <1>4 DEF vars, OrderInv, OldChange, IsListing
<1> QED
  BY <1>1, <1>2, <1>3, <1>4 DEF Next

-----------------------------------------------------------------------------
(* What detection lists.                                                   *)

\* A set of natural numbers has a least element.
LEMMA Least ==
  ASSUME NEW S \in SUBSET Nat, S # {}
  PROVE  \E n \in S : \A o \in S : n <= o
<1> DEFINE R == {ss \in Nat \X Nat : ss[1] < ss[2]}
<1>1. IsWellFoundedOn(R, Nat)
  BY NatLessThanWellFounded, Zenon DEF OpToRel
<1>2. \A n, o \in Nat : <<o, n>> \in R <=> o < n
  OBVIOUS
<1> HIDE DEF R
<1>3. PICK n \in S : \A o \in S : ~ (<<o, n>> \in R)
  BY <1>1, WFMin
<1>4. \A o \in S : n <= o
  <2> SUFFICES ASSUME NEW o \in S
               PROVE  n <= o
    OBVIOUS
  <2>1. n \in Nat /\ o \in Nat /\ ~(o < n)
    BY <1>2, <1>3
  <2> QED
    BY <2>1
<1> QED
  BY <1>4

\* The places a path can be found in.
Sources == {"manual", "native", "environment", "registry"}

\* What is found of a kind: paths, with the place.
LEMMA FoundType ==
  ASSUME NEW k, NEW c, NEW m,
         c.overrides[k] \in Paths \cup {NoPath}, c.hints[k] \in Paths \cup {NoPath},
         m.where[k] \cup m.path[k] \cup m.registry[k] \subseteq Paths
  PROVE  \A e \in Found(k, c, m) :
           e = <<e[1], e[2]>> /\ e[1] \in Nat /\ e[2] \in Sources
<1>1. \A p \in Paths : p \in Nat
  BY DetectionAssumption
<1>2. ASSUME NEW S \in SUBSET Paths, NEW s \in Sources, NEW e \in S \X {s}
      PROVE  e = <<e[1], e[2]>> /\ e[1] \in Nat /\ e[2] \in Sources
  BY <1>1
<1>3. Given(c.overrides[k]) \subseteq Paths /\ Given(c.hints[k]) \subseteq Paths
  BY DEF Given
<1>4. /\ m.where[k] \subseteq Paths /\ m.registry[k] \subseteq Paths
      /\ (IF m.where[k] = {} THEN m.path[k] ELSE {}) \subseteq Paths
  OBVIOUS
<1>5. {"manual", "native", "environment", "registry"} \subseteq Sources
  BY DEF Sources
<1> QED
  BY <1>2, <1>3, <1>4, <1>5 DEF Found

\* Places have different ranks.
LEMMA Ranks ==
  /\ \A s \in Sources : Rank[s] \in Nat
  /\ \A s, t \in Sources : Rank[s] = Rank[t] => s = t
  /\ Rank["manual"] = 0
BY DEF Rank, Sources

\* Of some of what is found, one entry comes before all others.
LEMMA FirstEntry ==
  ASSUME NEW E, E # {},
         \A e \in E : e = <<e[1], e[2]>> /\ e[1] \in Nat /\ e[2] \in Sources
  PROVE  \E e \in E : \A o \in E : /\ ~Before(o, e)
                                   /\ Rank[e[2]] <= Rank[o[2]]
                                   /\ ~Before(e, o) => o = e
<1>1. PICK r \in {Rank[e[2]] : e \in E} : \A o \in {Rank[e[2]] : e \in E} : r <= o
  <2>1. {Rank[e[2]] : e \in E} \in SUBSET Nat /\ {Rank[e[2]] : e \in E} # {}
    BY Ranks
  <2> QED
    BY <2>1, Least
<1> DEFINE B == {e \in E : Rank[e[2]] = r}
<1>2. PICK p \in {e[1] : e \in B} : \A o \in {e[1] : e \in B} : p <= o
  <2>1. {e[1] : e \in B} \in SUBSET Nat /\ {e[1] : e \in B} # {}
    BY <1>1
  <2> QED
    BY <2>1, Least
<1>3. PICK e \in E : Rank[e[2]] = r /\ e[1] = p
  BY <1>2
<1>4. ASSUME NEW o \in E
      PROVE  ~Before(o, e) /\ Rank[e[2]] <= Rank[o[2]] /\ (~Before(e, o) => o = e)
  <2>1. /\ Rank[o[2]] \in Nat /\ o[1] \in Nat /\ Rank[e[2]] \in Nat /\ e[1] \in Nat
        /\ o[2] \in Sources /\ e[2] \in Sources
    BY Ranks
  <2>2. Rank[e[2]] <= Rank[o[2]]
    BY <1>1, <1>3
  <2>3. Rank[e[2]] = Rank[o[2]] => e[1] <= o[1]
    BY <1>2, <1>3
  <2>4. ~Before(o, e)
    BY <2>1, <2>2, <2>3 DEF Before
  <2>5. ~Before(e, o) => Rank[e[2]] = Rank[o[2]] /\ e[1] = o[1]
    BY <2>1, <2>2, <2>3 DEF Before
  <2>6. Rank[e[2]] = Rank[o[2]] /\ e[1] = o[1] => o = e
    <3>1. Rank[e[2]] = Rank[o[2]] => e[2] = o[2]
      BY <2>1, Ranks
    <3> QED
      BY <3>1
  <2> QED
    BY <2>2, <2>4, <2>5, <2>6
<1> QED
  BY <1>4

\* What is listed of a kind is a row of an entry, or the placeholder; and each
\* says which kind it is of.
LEMMA ListedOfKind ==
  ASSUME NEW k, NEW c, NEW m, k \in Enabled(c)
  PROVE  LET listed == Listed(Merged(Found(k, c, m)), m)
             ofKind == {r \in Detect(c, m) : r.kind = k}
         IN  /\ ofKind = CollectKind(k, c, m)
             /\ ofKind # {}
             /\ \A e \in listed : Row(k, e, m) \in ofKind
             /\ \A r \in ofKind : r.status = "valid" => \E e \in listed : r = Row(k, e, m)
<1> DEFINE listed == Listed(Merged(Found(k, c, m)), m)
           ofKind == {r \in Detect(c, m) : r.kind = k}
<1>1. \A i : \A r \in CollectKind(i, c, m) : r.kind = i
  BY DEF CollectKind, Row, Placeholder
<1>2. ofKind = CollectKind(k, c, m)
  <2> HIDE DEF listed
  <2> QED
    BY <1>1 DEF Detect
<1>3. CASE listed = {}
  <2>1. CollectKind(k, c, m) = {Placeholder(k)}
    BY <1>3 DEF CollectKind
  <2>2. Placeholder(k).status # "valid"
    BY DEF Placeholder
  <2> HIDE DEF listed, ofKind
  <2>3. /\ ofKind # {}
        /\ \A e \in listed : Row(k, e, m) \in ofKind
        /\ \A r \in ofKind : r.status = "valid" => \E e \in listed : r = Row(k, e, m)
    BY <1>2, <1>3, <2>1, <2>2
  <2> QED
    BY <1>2, <2>3 DEF listed, ofKind
<1>4. CASE listed # {}
  <2>1. CollectKind(k, c, m) = {Row(k, e, m) : e \in listed}
    BY <1>4 DEF CollectKind
  <2> HIDE DEF listed, ofKind
  <2>2. /\ ofKind # {}
        /\ \A e \in listed : Row(k, e, m) \in ofKind
        /\ \A r \in ofKind : r.status = "valid" => \E e \in listed : r = Row(k, e, m)
    BY <1>2, <1>4, <2>1
  <2> QED
    BY <1>2, <2>2 DEF listed, ofKind
<1> QED
  BY <1>3, <1>4

\* Detection lists one row per executable, and what the user has configured.
LEMMA DetectedExactly ==
  ASSUME NEW k, NEW c, NEW m, k \in Enabled(c),
         c.overrides[k] \in Paths \cup {NoPath}, c.hints[k] \in Paths \cup {NoPath},
         m.where[k] \cup m.path[k] \cup m.registry[k] \subseteq Paths
  PROVE  ListedExactly(k, c, m)
<1> DEFINE ofKind == {r \in Detect(c, m) : r.kind = k}
           found  == Found(k, c, m)
           listed == Listed(Merged(found), m)
           given  == c.overrides[k]
<1>1. \A e \in found : e = <<e[1], e[2]>> /\ e[1] \in Nat /\ e[2] \in Sources
  BY FoundType
<1>2. /\ ofKind # {}
      /\ \A e \in listed : Row(k, e, m) \in ofKind
      /\ \A r \in ofKind : r.status = "valid" => \E e \in listed : r = Row(k, e, m)
  BY ListedOfKind
<1>3. ASSUME NEW e
      PROVE  /\ Row(k, e, m).path = e[1] /\ Row(k, e, m).source = e[2]
             /\ Row(k, e, m).status = "valid" <=> m.real[e[1]] # Broken
  BY DEF Row
<1>4. /\ listed \subseteq Merged(found)
      /\ \A e \in Merged(found) :
           e \in found /\ \A o \in found : o[1] = e[1] => Rank[e[2]] <= Rank[o[2]]
      /\ \A e \in found :
           (\A o \in found : o[1] = e[1] => Rank[e[2]] <= Rank[o[2]]) => e \in Merged(found)
  BY DEF Merged, Listed
<1>5. \A e \in Merged(found) :
        e \in listed <=> IF m.real[e[1]] = Broken THEN e[2] = "manual"
                         ELSE \A o \in Merged(found) : Before(o, e) => m.real[o[1]] # m.real[e[1]]
  BY DEF Listed
<1>6. /\ given # NoPath => <<given, "manual">> \in found
      /\ \A e \in found : e[2] = "manual" => e[1] = given
  BY DEF Found, Given
<1> HIDE DEF ofKind, found, listed
<1>7. ASSUME NEW x \in {m.real[e[1]] : e \in found} \ {Broken}
      PROVE  LET ofX == {r \in ofKind : r.status = "valid" /\ m.real[r.path] = x} IN
             \E r \in ofX :
               /\ ofX = {r}
               /\ \A e \in found : m.real[e[1]] = x => Rank[r.source] <= Rank[e[2]]
  <2> DEFINE E == {e \in found : m.real[e[1]] = x}
             ofX == {r \in ofKind : r.status = "valid" /\ m.real[r.path] = x}
  <2>1. PICK e \in E : \A o \in E : /\ ~Before(o, e)
                                    /\ Rank[e[2]] <= Rank[o[2]]
                                    /\ ~Before(e, o) => o = e
    <3>1. E # {}
      OBVIOUS
    <3> QED
      BY <1>1, <3>1, FirstEntry
  <2>2. e \in Merged(found)
    BY <1>4, <2>1
  <2>3. e \in listed
    BY <1>4, <1>5, <2>1, <2>2
  <2>4. Row(k, e, m) \in ofX
    BY <1>2, <1>3, <2>1, <2>3
  <2>5. ASSUME NEW r \in ofX
        PROVE  r = Row(k, e, m)
    <3>1. PICK o \in listed : r = Row(k, o, m)
      BY <1>2, <2>5
    <3>2. o \in E /\ m.real[o[1]] # Broken
      BY <1>3, <1>4, <2>5, <3>1
    <3>3. ~Before(e, o)
      BY <1>4, <1>5, <2>1, <2>2, <3>1, <3>2
    <3> QED
      BY <2>1, <3>1, <3>2, <3>3
  <2>6. \A o \in found : m.real[o[1]] = x => Rank[Row(k, e, m).source] <= Rank[o[2]]
    BY <1>3, <2>1
  <2> QED
    BY <2>4, <2>5, <2>6
<1>8. ASSUME given # NoPath
      PROVE  \E r \in ofKind : r.path = given /\ r.source = "manual"
  <2> DEFINE e == <<given, "manual">>
  <2>1. e[1] = given /\ e[2] = "manual" /\ Rank[e[2]] = 0 /\ e \in found
    BY <1>6, <1>8, Ranks
  <2> HIDE DEF e
  <2>2. \A o \in found : Rank[o[2]] \in Nat
    BY <1>1, Ranks
  <2>3. e \in Merged(found)
    BY <1>4, <2>1, <2>2
  <2>4. \A o \in Merged(found) : Before(o, e) => m.real[o[1]] # m.real[e[1]]
    <3> SUFFICES ASSUME NEW o \in Merged(found), Before(o, e)
                 PROVE  FALSE
      OBVIOUS
    <3>1. o \in found /\ Rank[o[2]] \in Nat /\ o[1] \in Nat /\ e[1] \in Nat /\ o[2] \in Sources
      BY <1>1, <1>4, <2>1, <2>2
    <3>2. Rank[o[2]] = 0 /\ o[1] < e[1]
      BY <2>1, <3>1 DEF Before
    <3>3. o[2] = "manual"
      BY <3>1, <3>2, Ranks DEF Sources
    <3>4. o[1] = e[1]
      BY <1>6, <2>1, <3>1, <3>3
    <3> QED
      BY <3>1, <3>2, <3>4
  <2>5. e \in listed
    BY <1>5, <2>1, <2>3, <2>4
  <2> QED
    BY <1>2, <1>3, <2>1, <2>5
<1> QED
  BY <1>2, <1>7, <1>8 DEF ListedExactly, ofKind, found

-----------------------------------------------------------------------------
(* What a listing says is so.                                              *)

\* Detection lists nothing the page would hide.
LEMMA DetectedIsVisible ==
  ASSUME NEW c, NEW m
  PROVE  \A r \in Detect(c, m) : Visible(r)
<1> SUFFICES ASSUME NEW k, NEW r \in CollectKind(k, c, m)
             PROVE  Visible(r)
  BY DEF Detect
<1> DEFINE listed == Listed(Merged(Found(k, c, m)), m)
<1>1. CASE listed = {}
  <2>1. r = Placeholder(k)
    BY <1>1 DEF CollectKind
  <2> QED
    BY <2>1 DEF Placeholder, Visible
<1>2. CASE listed # {}
  <2>1. PICK e \in listed : r = Row(k, e, m)
    BY <1>2 DEF CollectKind
  <2>2. m.real[e[1]] = Broken => e[2] = "manual"
    BY <2>1 DEF Listed
  <2> QED
    BY <2>1, <2>2 DEF Row, Visible
<1> QED
  BY <1>1, <1>2

\* Nothing on its way and nothing on the page speaks of what is detected.
LEMMA FreshNothing ==
  ASSUME loading', \A i \in DOMAIN answers' : answers'[i].by = "load" => answers'[i].mount # mount',
         \A i \in DOMAIN calls' :
           calls'[i].by = "load" /\ calls'[i].mount = mount' => calls'[i].op # "list"
  PROVE  FreshInv'
BY DEF FreshInv, IsListing

\* What is detected stays the same.
LEMMA FreshKept ==
  ASSUME FreshInv, UNCHANGED <<page, mount, machine>>, overlapped' = {} => overlapped = {},
         Detecting' = Detecting,
         \A i \in DOMAIN answers' :
           \/ \E j \in DOMAIN answers : answers'[i] = answers[j]
           \/ ~IsListing(answers'[i])
           \/ answers'[i].op = "get" /\ answers'[i].settings.disabled = stored.disabled
           \/ /\ answers'[i].op = "list" /\ answers'[i].rows = Detect(Detecting, machine)
              /\ overlapped = {} => answers'[i].arg.enabled = Enabled(Detecting)
                   \/ page # "environments",
         \A i \in DOMAIN calls' :
           \/ \E j \in DOMAIN calls : calls'[i] = calls[j]
           \/ ~IsListing(calls'[i])
           \/ calls'[i].op # "list"
           \/ overlapped = {} => calls'[i].arg.enabled = Enabled(Detecting)
                \/ page # "environments",
         \/ generation'[mount] = generation[mount] /\ (Overridden => Overridden')
         \/ \A i \in DOMAIN answers' :
              IsListing(answers'[i]) => answers'[i].arg.generation # generation'[mount],
         \/ loading'
         \/ ~loading /\ UNCHANGED <<rows, enabled>> /\ (Overridden => Overridden')
         \/ overlapped = {} /\ page = "environments" =>
              /\ enabled' = Enabled(Detecting)
              /\ rows' = Detect(Detecting, machine) \/ Overridden'
  PROVE  FreshInv'
<1> SUFFICES ASSUME page = "environments", overlapped = {}, overlapped' = {}
             PROVE  FreshInv'
  BY DEF FreshInv
<1>1. stored'.disabled = stored.disabled
  BY DEF Detecting
<1>2. ASSUME NEW i \in DOMAIN answers', IsListing(answers'[i])
      PROVE  /\ answers'[i].op = "get" => answers'[i].settings.disabled = stored.disabled
             /\ answers'[i].op = "list" => answers'[i].arg.enabled = Enabled(Detecting)
             /\ answers'[i].op = "list" /\ answers'[i].arg.generation = generation'[mount] =>
                  answers'[i].rows = Detect(Detecting, machine) \/ Overridden'
  <2> HIDE DEF Overridden, Detecting
  <2>1. CASE \E j \in DOMAIN answers : answers'[i] = answers[j]
    BY <1>2, <2>1 DEF FreshInv, IsLastListing, IsListing
  <2>2. CASE answers'[i].op = "get" /\ answers'[i].settings.disabled = stored.disabled
    BY <2>2
  <2>3. CASE /\ answers'[i].op = "list" /\ answers'[i].rows = Detect(Detecting, machine)
             /\ answers'[i].arg.enabled = Enabled(Detecting)
    BY <2>3
  <2> QED
    BY <1>2, <2>1, <2>2, <2>3
<1>3. ASSUME NEW i \in DOMAIN calls', IsListing(calls'[i]), calls'[i].op = "list"
      PROVE  calls'[i].arg.enabled = Enabled(Detecting)
  BY <1>3 DEF FreshInv
<1>4. ~loading' => /\ enabled' = Enabled(Detecting)
                   /\ rows' = Detect(Detecting, machine) \/ Overridden'
  BY DEF FreshInv
<1>5. /\ (Enabled(Detecting))' = Enabled(Detecting)
      /\ (Detect(Detecting, machine))' = Detect(Detecting, machine)
  BY DEF Enabled, Detect
<1> HIDE DEF Detecting, Overridden
<1> QED
  BY <1>1, <1>2, <1>3, <1>4, <1>5 DEF FreshInv, IsListing, IsLastListing

\* A command that changes nothing detection looks at is run.
LEMMA FreshRan ==
  ASSUME WireInv, FreshInv, UNCHANGED <<page, mount, machine, generation, loading, rows, enabled>>,
         overlapped' = {} => overlapped = {}, Detecting' = Detecting,
         calls # <<>>, calls' = Tail(calls),
         NEW a, answers' = Append(answers, a),
         \/ ~IsListing(a)
         \/ a.op = "get" /\ a.settings.disabled = stored.disabled
         \/ /\ a.op = "list" /\ a.rows = Detect(Detecting, machine)
            /\ overlapped = {} => a.arg.enabled = Enabled(Detecting) \/ page # "environments"
  PROVE  FreshInv'
<1>1. \A i \in DOMAIN answers' : \/ \E j \in DOMAIN answers : answers'[i] = answers[j]
                                 \/ answers'[i] = a
  BY Longer DEF WireInv
<1>2. \A i \in DOMAIN answers : i \in DOMAIN answers' /\ answers'[i] = answers[i]
  BY Longer DEF WireInv
<1>3. \A i \in DOMAIN calls' : \E j \in DOMAIN calls : calls'[i] = calls[j]
  BY Shorter DEF WireInv
<1>4. Overridden => Overridden'
  BY <1>2 DEF Overridden
<1>5. \A i \in DOMAIN answers' :
        \/ \E j \in DOMAIN answers : answers'[i] = answers[j]
        \/ ~IsListing(answers'[i])
        \/ answers'[i].op = "get" /\ answers'[i].settings.disabled = stored.disabled
        \/ /\ answers'[i].op = "list" /\ answers'[i].rows = Detect(Detecting, machine)
           /\ overlapped = {} => answers'[i].arg.enabled = Enabled(Detecting)
                \/ page # "environments"
  BY <1>1
<1> QED
  BY <1>3, <1>4, <1>5, FreshKept

\* An old change is run, after which the page knows nothing.
LEMMA FreshAnew ==
  ASSUME WireInv, OrderInv, UNCHANGED <<page, mount, loading>>,
         calls # <<>>, calls' = Tail(calls), OldChange(Head(calls)),
         NEW a, answers' = Append(answers, a), Waiting(a) = Waiting(Head(calls)),
         Head(calls).by # "load"
  PROVE  FreshInv'
<1> SUFFICES ASSUME page = "environments"
             PROVE  FreshInv'
  BY DEF FreshInv
<1>1. 1 \in DOMAIN calls /\ Head(calls) = calls[1]
  BY Shorter DEF WireInv
<1>2. /\ loading
      /\ \A j \in DOMAIN answers : ~IsListing(answers[j])
      /\ \A j \in DOMAIN calls : IsListing(calls[j]) => calls[j].op = "get"
  BY <1>1 DEF OrderInv
<1>3. \A i \in DOMAIN answers' : \/ i \in DOMAIN answers /\ answers'[i] = answers[i]
                                 \/ answers'[i] = a
  BY Longer DEF WireInv
<1>4. a.by # "load"
  BY SameWaiting
<1>5. \A i \in DOMAIN answers' : answers'[i].by = "load" => answers'[i].mount # mount
  BY <1>2, <1>3, <1>4 DEF IsListing
<1>6. \A i \in DOMAIN calls' : \E j \in DOMAIN calls : calls'[i] = calls[j]
  BY Shorter DEF WireInv
<1>7. \A i \in DOMAIN calls' :
        calls'[i].by = "load" /\ calls'[i].mount = mount => calls'[i].op # "list"
  BY <1>2, <1>6 DEF IsListing
<1> QED
  BY <1>2, <1>5, <1>7, FreshNothing

\* The backend runs a command.
LEMMA FreshRun ==
  ASSUME TypeOK, WireInv, CacheInv, ApartInv, OrderInv, FreshInv, Runs
  PROVE  FreshInv'
<1> USE DEF backendVars, wireVars, routeVars, envVars, formVars, history
<1> DEFINE h == Head(calls)
<1>1. /\ calls # <<>> /\ calls' = Tail(calls) /\ CallOK(h, mount, generation)
      /\ UNCHANGED <<page, mount, machine, generation, loading, rows, enabled>>
      /\ h = calls[1] /\ 1 \in DOMAIN calls
  BY RunKeepsTransit, Shorter, Heads DEF WireInv
<1>2. \A fields : With(h, fields) = With(Head(calls), fields)
  OBVIOUS
<1>3. /\ \A s : LET a == With(h, [settings |-> s]) IN
              a.op = h.op /\ a.by = h.by /\ a.mount = h.mount /\ a.arg = h.arg /\ a.settings = s
      /\ \A s : LET a == With(h, [ok |-> s]) IN
              a.op = h.op /\ a.by = h.by /\ a.mount = h.mount /\ a.arg = h.arg /\ a.ok = s
      /\ \A s : LET a == With(h, [rows |-> s]) IN
              a.op = h.op /\ a.by = h.by /\ a.mount = h.mount /\ a.arg = h.arg /\ a.rows = s
  BY <1>1, Answers DEF CallOK
<1> HIDE DEF h
<1>4. ASSUME UNCHANGED <<overlapped, Detecting>>, h.by # "load",
             NEW s, answers' = Append(answers, With(h, [ok |-> s]))
      PROVE  FreshInv'
  <2> DEFINE a == With(h, [ok |-> s])
  <2>1. ~IsListing(a)
    BY <1>3, <1>4 DEF IsListing
  <2> HIDE DEF a
  <2> QED
    BY <1>1, <1>4, <2>1, FreshRan DEF a
<1>5. ASSUME OldChange(h), h.by # "load", NEW s, answers' = Append(answers, With(h, [ok |-> s]))
      PROVE  FreshInv'
  <2> DEFINE a == With(h, [ok |-> s])
  <2>1. Waiting(a) = Waiting(h)
    BY <1>3 DEF Waiting
  <2> HIDE DEF a
  <2> QED
    BY <1>1, <1>5, <2>1, FreshAnew DEF a, h
<1>6. ASSUME Failed, h.by # "load"
      PROVE  FreshInv'
  BY <1>4, <1>6 DEF Failed, Answered, Detecting, h
<1>7. CASE RunGet
  <2> DEFINE a == With(h, [settings |-> stored])
  <2>1. h.op = "get" /\ answers' = Append(answers, a) /\ UNCHANGED <<overlapped, Detecting>>
    BY <1>7 DEF RunGet, IsNext, Answered, Detecting, h
  <2>2. a.op = "get" /\ a.settings.disabled = stored.disabled
    BY <1>3, <2>1
  <2> HIDE DEF a
  <2> QED
    BY <1>1, <2>1, <2>2, FreshRan
<1>8. CASE RunSave
  <2>1. h.op = "save" /\ h.by \in {"form", "persist"} /\ h.arg.settings \in AppSettings
    BY <1>1, <1>8 DEF RunSave, IsNext, CallOK, ItemOK, h
  <2>2. CASE Failed
    BY <1>6, <2>1, <2>2
  <2>3. ASSUME Acceptable(h.arg.settings), stored' = Normalized(h.arg.settings),
               Answered([ok |-> TRUE]), UNCHANGED overrides,
               h.by # "form" => UNCHANGED history
        PROVE  FreshInv'
    <3>1. answers' = Append(answers, With(h, [ok |-> TRUE]))
      BY <2>3 DEF Answered, h
    <3>2. CASE h.by = "form"
      <4>1. OldChange(h)
        BY <2>1, <3>2 DEF OldChange
      <4> QED
        BY <1>5, <3>1, <3>2, <4>1
    <3>3. CASE h.by = "persist"
      <4>1. UNCHANGED history
        BY <2>3, <3>3
      <4>2. CASE overlapped # {}
        BY <4>1, <4>2 DEF FreshInv
      <4>3. CASE overlapped = {}
        <5>1. h.arg.settings \in Carried
          BY <1>1, <2>1, <3>3 DEF Carried
        <5>2. h.arg.settings.hints = stored.hints /\ h.arg.settings.disabled = stored.disabled
          BY <4>3, <5>1 DEF ApartInv, SameOthers
        <5>3. Detecting' = Detecting
          BY <2>1, <2>3, <5>2, Normal DEF Detecting
        <5> QED
          BY <1>4, <3>1, <3>3, <4>1, <5>3
      <4> QED
        BY <4>2, <4>3
    <3> QED
      BY <2>1, <3>2, <3>3
  <2> QED
    BY <1>8, <2>2, <2>3 DEF RunSave, h
<1>9. CASE RunImport
  <2>1. h.op = "import" /\ h.by = "form"
    BY <1>1, <1>9 DEF RunImport, IsNext, CallOK, ItemOK, h
  <2>2. CASE Failed
    BY <1>6, <2>1, <2>2
  <2>3. CASE Answered([ok |-> TRUE])
    <3>1. OldChange(h) /\ answers' = Append(answers, With(h, [ok |-> TRUE]))
      BY <2>1, <2>3 DEF OldChange, Answered, h
    <3> QED
      BY <1>5, <2>1, <3>1
  <2> QED
    BY <1>9, <2>2, <2>3 DEF RunImport
<1>10. CASE RunOverride
  <2>1. h.op = "override" /\ h.by = "manual"
    BY <1>1, <1>10 DEF RunOverride, IsNext, CallOK, ItemOK, h
  <2>2. CASE Failed
    BY <1>6, <2>1, <2>2
  <2>3. CASE Answered([ok |-> TRUE]) /\ UNCHANGED <<stored, history>>
    <3> DEFINE a == With(h, [ok |-> TRUE])
    <3>1. answers' = Append(answers, a)
      BY <2>3 DEF Answered, h
    <3>2. CASE h.mount # mount
      <4>1. OldChange(h)
        BY <2>1, <3>2 DEF OldChange
      <4> QED
        BY <1>5, <2>1, <3>1, <4>1
    <3>3. CASE h.mount = mount
      <4>1. a.op = "override" /\ a.by = "manual" /\ a.mount = mount /\ a.ok
        BY <1>3, <2>1, <3>3
      <4> HIDE DEF a
      <4>2. /\ Len(answers) + 1 \in DOMAIN answers' /\ answers'[Len(answers) + 1] = a
            /\ \A i \in DOMAIN answers' :
                 (i \in DOMAIN answers /\ answers'[i] = answers[i]) \/ answers'[i] = a
        BY <3>1, Longer DEF WireInv
      <4>3. Overridden'
        BY <1>1, <4>1, <4>2 DEF Overridden
      <4>4. (Enabled(Detecting))' = Enabled(Detecting) /\ stored' = stored
        BY <2>3 DEF Enabled, Detecting
      <4>5. \A i \in DOMAIN calls' : \E j \in DOMAIN calls : calls'[i] = calls[j]
        BY <1>1, Shorter DEF WireInv
      <4>6. ~IsListing(a)
        BY <4>1 DEF IsListing
      <4> HIDE DEF Overridden, Detecting
      <4> SUFFICES ASSUME page = "environments", overlapped = {}
                   PROVE  FreshInv'
        BY <1>1, <2>3 DEF FreshInv
      <4>7. ASSUME NEW i \in DOMAIN answers', IsListing(answers'[i])
            PROVE  /\ answers'[i].op = "get" => answers'[i].settings.disabled = stored.disabled
                   /\ answers'[i].op = "list" => answers'[i].arg.enabled = Enabled(Detecting)
        BY <4>2, <4>6, <4>7 DEF FreshInv
      <4>8. ASSUME NEW i \in DOMAIN calls', IsListing(calls'[i]), calls'[i].op = "list"
            PROVE  calls'[i].arg.enabled = Enabled(Detecting)
        BY <4>5, <4>8 DEF FreshInv
      <4>9. ~loading' => enabled' = Enabled(Detecting)
        BY <1>1 DEF FreshInv
      <4> QED
        BY <1>1, <4>3, <4>4, <4>7, <4>8, <4>9 DEF FreshInv, IsListing
    <3> QED
      BY <3>2, <3>3
  <2> QED
    BY <1>10, <2>2, <2>3 DEF RunOverride
<1>11. CASE RunList
  <2> DEFINE found == Detect(Detecting, machine)
             a == With(h, [rows |-> found])
  <2>1. h.op = "list" /\ h.by = "load" /\ UNCHANGED <<overlapped, Detecting>>
    BY <1>1, <1>11 DEF RunList, IsNext, CallOK, ItemOK, Detecting, h
  <2>2. answers' = Append(answers, a)
    <3>1. Cached => cache.rows = found
      BY DEF Cached, CacheInv
    <3> QED
      BY <1>11, <3>1 DEF RunList, Answered, h
  <2>3. a.op = "list" /\ a.by = "load" /\ a.rows = found /\ a.mount = h.mount /\ a.arg = h.arg
    BY <1>3, <2>1
  <2> HIDE DEF a
  <2>4. IsListing(a) /\ overlapped = {} => a.arg.enabled = Enabled(Detecting) \/ page # "environments"
    BY <1>1, <2>1, <2>3 DEF FreshInv, IsListing
  <2> QED
    BY <1>1, <2>1, <2>2, <2>3, <2>4, FreshRan
<1> QED
  BY <1>7, <1>8, <1>9, <1>10, <1>11 DEF Runs

\* The page takes an answer, which changes nothing detection looks at.
LEMMA FreshTaken ==
  ASSUME WireInv, FreshInv, UNCHANGED <<page, mount, overlapped, machine, Detecting>>,
         answers # <<>>, answers' = Tail(answers),
         \/ calls' = calls
         \/ \E c : /\ calls' = Append(calls, c)
                   /\ \/ ~IsListing(c) \/ c.op # "list"
                      \/ overlapped = {} => c.arg.enabled = Enabled(Detecting)
                           \/ page # "environments",
         NEW lost \in BOOLEAN,
         lost <=> (Head(answers).op = "override" /\ Head(answers).mount = mount
                     /\ Head(answers).ok),
         \/ ~lost /\ generation'[mount] = generation[mount]
         \/ \A i \in DOMAIN answers : IsListing(answers[i]) =>
              answers[i].arg.generation # generation'[mount],
         \/ loading'
         \/ ~loading /\ ~lost /\ UNCHANGED <<rows, enabled>>
         \/ overlapped = {} /\ page = "environments" =>
              /\ enabled' = Enabled(Detecting)
              /\ rows' = Detect(Detecting, machine) \/ (~lost /\ Overridden)
  PROVE  FreshInv'
<1>1. /\ \A i \in DOMAIN answers' : \E j \in DOMAIN answers : answers'[i] = answers[j]
      /\ \A i \in DOMAIN answers : i # 1 =>
           i - 1 \in DOMAIN answers' /\ answers'[i - 1] = answers[i]
      /\ Head(answers) = answers[1]
  BY Shorter DEF WireInv
<1>2. ~lost /\ Overridden => Overridden'
  <2> SUFFICES ASSUME ~lost, Overridden
               PROVE  Overridden'
    OBVIOUS
  <2>1. PICK i \in DOMAIN answers :
          answers[i].op = "override" /\ answers[i].mount = mount /\ answers[i].ok
    BY DEF Overridden
  <2>2. i # 1
    BY <1>1, <2>1
  <2>3. i - 1 \in DOMAIN answers' /\ answers'[i - 1] = answers[i]
    BY <1>1, <2>2
  <2> QED
    BY <2>1, <2>3 DEF Overridden
<1>3. \A i \in DOMAIN calls' :
        \/ \E j \in DOMAIN calls : calls'[i] = calls[j]
        \/ ~IsListing(calls'[i])
        \/ calls'[i].op # "list"
        \/ overlapped = {} => calls'[i].arg.enabled = Enabled(Detecting)
             \/ page # "environments"
  <2>1. CASE calls' = calls
    BY <2>1
  <2>2. CASE \E c : /\ calls' = Append(calls, c)
                    /\ \/ ~IsListing(c) \/ c.op # "list"
                       \/ overlapped = {} => c.arg.enabled = Enabled(Detecting)
                            \/ page # "environments"
    <3>1. PICK c : /\ calls' = Append(calls, c)
                   /\ \/ ~IsListing(c) \/ c.op # "list"
                      \/ overlapped = {} => c.arg.enabled = Enabled(Detecting)
                           \/ page # "environments"
      BY <2>2
    <3>2. \A i \in DOMAIN calls' : \/ i \in DOMAIN calls /\ calls'[i] = calls[i]
                                   \/ calls'[i] = c
      BY <3>1, Longer DEF WireInv
    <3> QED
      BY <3>1, <3>2
  <2> QED
    BY <2>1, <2>2
<1>4. \/ generation'[mount] = generation[mount] /\ (Overridden => Overridden')
      \/ \A i \in DOMAIN answers' :
           IsListing(answers'[i]) => answers'[i].arg.generation # generation'[mount]
  BY <1>1, <1>2
<1>5. \/ loading'
      \/ ~loading /\ UNCHANGED <<rows, enabled>> /\ (Overridden => Overridden')
      \/ overlapped = {} /\ page = "environments" =>
           /\ enabled' = Enabled(Detecting)
           /\ rows' = Detect(Detecting, machine) \/ Overridden'
  BY <1>2
<1> QED
  BY <1>1, <1>3, <1>4, <1>5, FreshKept

\* The page takes an answer.
LEMMA FreshTake ==
  ASSUME TypeOK, WireInv, FreshInv, Takes
  PROVE  FreshInv'
<1> USE DEF backendVars, wireVars, routeVars, envVars, formVars, history
<1> DEFINE h == Head(answers)
<1>1. /\ AnswerOK(h, mount, generation) /\ answers # <<>> /\ answers' = Tail(answers)
      /\ h = answers[1] /\ 1 \in DOMAIN answers
      /\ UNCHANGED <<page, mount, overlapped, machine, Detecting>>
  BY TakeMoves, Shorter DEF WireInv, Detecting
<1>2. ASSUME h.op # "override", UNCHANGED <<generation, loading, rows, enabled>>,
             NEW op, NEW by, NEW m, NEW arg, by # "load" \/ op # "list",
             calls' = calls \/ calls' = Append(calls, Call(op, by, m, arg))
      PROVE  FreshInv'
  <2> DEFINE c == Call(op, by, m, arg)
  <2>1. c.op = op /\ c.by = by
    BY DEF Call
  <2> HIDE DEF c
  <2>2. ~IsListing(c) \/ c.op # "list"
    BY <1>2, <2>1 DEF IsListing
  <2> QED
    BY <1>1, <1>2, <2>2, FreshTaken DEF c, TypeOK
<1>3. CASE TakeTheme \/ TakePersisted \/ TakeForm
  <2>1. calls' = calls /\ h.op # "override" /\ UNCHANGED <<generation, loading, rows, enabled>>
    BY <1>3 DEF TakeTheme, TakePersisted, TakeForm, Arrives
  <2> QED
    BY <1>2, <2>1
<1>4. CASE TakePersist \/ TakeOperated \/ TakeReload
  <2>1. h.op # "override" /\ UNCHANGED <<generation, loading, rows, enabled>>
    BY <1>4 DEF TakePersist, TakeOperated, TakeReload, Arrives
  <2>2. \/ calls' = calls
        \/ \E m, arg : calls' = Append(calls, Call("save", "persist", m, arg))
        \/ \E m, arg : calls' = Append(calls, Call("get", "reload", m, arg))
        \/ \E m, arg : calls' = Append(calls, Call("get", "persist", m, arg))
    BY <1>4 DEF TakePersist, TakeOperated, TakeReload, Persist
  <2> QED
    BY <1>2, <2>1, <2>2
<1>5. CASE TakeManual
  <2>1. /\ h.op = "override" /\ h.mount # 0 /\ h.mount \in 1 .. MaxMounts
        /\ UNCHANGED <<rows, enabled>>
    BY <1>1, <1>5, SettingsAssumption DEF TakeManual, Arrives, AnswerOK, ItemOK, TypeOK
  <2>2. CASE ~h.ok
    <3>1. UNCHANGED <<calls, generation, loading>>
      BY <1>5, <2>2 DEF TakeManual
    <3> QED
      BY <1>1, <2>1, <2>2, <3>1, FreshTaken DEF TypeOK
  <2>3. CASE h.ok
    <3>1. Load(h.mount, TRUE, TRUE)
      BY <1>5, <2>3 DEF TakeManual
    <3> DEFINE c == Call("get", "load", h.mount, Listing(NextGeneration(h.mount), TRUE, TRUE))
    <3>2. c.op = "get"
      BY DEF Call
    <3>3. calls' = Append(calls, c)
      BY <3>1 DEF Load
    <3> HIDE DEF c
    <3>4. CASE h.mount = mount
      <4>1. loading' /\ generation'[mount] = generation[mount] + 1 /\ generation[mount] \in Nat
        BY <2>1, <3>1, <3>4 DEF Load, NextGeneration, TypeOK
      <4>2. ASSUME NEW i \in DOMAIN answers, IsListing(answers[i])
            PROVE  answers[i].arg.generation # generation'[mount]
        <5>1. answers[i].arg.generation \in 0 .. generation[mount]
          BY <4>2 DEF WireInv, AnswerOK, ItemOK, IsListing
        <5> QED
          BY <4>1, <5>1
      <4> QED
        BY <1>1, <3>2, <3>3, <4>1, <4>2, FreshTaken
    <3>5. CASE h.mount # mount
      <4>1. loading' = loading
        BY <3>1, <3>5 DEF Load, TypeOK
      <4>2. generation'[mount] = generation[mount]
        <5>1. mount \in 1 .. MaxMounts
          BY <1>1, <2>1, SettingsAssumption DEF AnswerOK, ItemOK, TypeOK
        <5> QED
          BY <3>1, <3>5, <5>1 DEF Load, TypeOK
      <4> QED
        BY <1>1, <2>1, <3>2, <3>3, <3>5, <4>1, <4>2, FreshTaken DEF TypeOK
    <3> QED
      BY <3>4, <3>5
  <2> QED
    BY <2>2, <2>3
<1>6. CASE TakeLoad
  <2>1. /\ h.op = "get" /\ h.by = "load" /\ UNCHANGED <<generation, loading, rows, enabled>>
        /\ DOMAIN h.arg = {"generation", "force", "saves"}
    BY <1>1, <1>6 DEF TakeLoad, Arrives, AnswerOK, ItemOK
  <2>2. CASE ~IsLatest
    <3>1. calls' = calls
      BY <1>6, <2>2 DEF TakeLoad
    <3> QED
      BY <1>2, <2>1, <3>1
  <2>3. CASE IsLatest
    <3> DEFINE arg == With(h.arg, [enabled |-> Kinds \ h.settings.disabled])
               c == Call("list", "load", h.mount, arg)
    <3>1. arg.enabled = Kinds \ h.settings.disabled
      BY <2>1, ListArg
    <3>2. calls' = Append(calls, c)
      BY <1>6, <2>3 DEF TakeLoad
    <3>3. /\ c.op = "list" /\ c.by = "load" /\ c.mount = h.mount
          /\ c.arg.enabled = Kinds \ h.settings.disabled
      BY <3>1 DEF Call
    <3> HIDE DEF c
    <3>4. IsListing(c) /\ overlapped = {} /\ page = "environments" =>
            c.arg.enabled = Enabled(Detecting)
      BY <1>1, <2>1, <3>3 DEF FreshInv, IsListing, Enabled, Detecting
    <3> QED
      BY <1>1, <2>1, <3>2, <3>4, FreshTaken DEF TypeOK
  <2> QED
    BY <2>2, <2>3
<1>7. CASE TakeRows
  <2>1. h.op = "list" /\ h.by = "load" /\ calls' = calls /\ generation' = generation
    BY <1>7 DEF TakeRows, Arrives
  <2>2. CASE ~(IsLatest /\ OnScreen)
    <3>1. UNCHANGED <<loading, rows, enabled>>
      BY <1>7, <2>2 DEF TakeRows
    <3> QED
      BY <1>2, <2>1, <3>1
  <2>3. CASE IsLatest /\ OnScreen
    <3>1. IsListing(h) /\ IsLastListing(h)
      BY <2>1, <2>3 DEF IsLatest, OnScreen, IsListing, IsLastListing
    <3>2. /\ rows' = {r \in h.rows : Visible(r)}
          /\ enabled' = h.arg.enabled
      BY <1>7, <2>3 DEF TakeRows, Shown
    <3> HIDE DEF h
    <3>3. ASSUME overlapped = {}, page = "environments"
          PROVE  /\ enabled' = Enabled(Detecting)
                 /\ rows' = Detect(Detecting, machine) \/ Overridden
      <4>1. /\ h.arg.enabled = Enabled(Detecting)
            /\ h.rows = Detect(Detecting, machine) \/ Overridden
        BY <1>1, <2>1, <3>1, <3>3 DEF FreshInv
      <4>2. \A r \in Detect(Detecting, machine) : Visible(r)
        BY DetectedIsVisible
      <4> HIDE DEF Overridden
      <4> QED
        BY <3>2, <4>1, <4>2
    <3> QED
      BY <1>1, <2>1, <3>3, FreshTaken DEF h
  <2> QED
    BY <2>2, <2>3
<1> QED
  BY <1>3, <1>4, <1>5, <1>6, <1>7 DEF Takes

\* The user acts, or the cache expires.
LEMMA FreshUser ==
  ASSUME TypeOK, WireInv, FreshInv, User \/ CacheExpires
  PROVE  FreshInv'
<1> USE DEF backendVars, wireVars, routeVars, envVars, formVars, history
<1>1. answers' = answers
  BY UserKeepsTransit
<1>2. ASSUME UNCHANGED <<page, mount, overlapped, machine, Detecting, rows, enabled>>,
             \/ calls' = calls
             \/ \E c : calls' = Append(calls, c) /\ (~IsListing(c) \/ c.op # "list"),
             \/ UNCHANGED <<generation, loading>>
             \/ /\ loading'
                /\ \A i \in DOMAIN answers : IsListing(answers[i]) =>
                     answers[i].arg.generation # generation'[mount]
      PROVE  FreshInv'
  <2>1. \A i \in DOMAIN calls' : \/ \E j \in DOMAIN calls : calls'[i] = calls[j]
                                 \/ ~IsListing(calls'[i]) \/ calls'[i].op # "list"
    BY <1>2, Longer DEF WireInv
  <2>2. Overridden' = Overridden
    BY <1>1, <1>2 DEF Overridden
  <2> QED
    BY <1>1, <1>2, <2>1, <2>2, FreshKept
<1>3. ASSUME UNCHANGED <<page, mount, overlapped, machine, Detecting, rows, enabled,
                         generation, loading>>,
             NEW op, NEW by, NEW m, NEW arg, by # "load" \/ op # "list",
             calls' = Append(calls, Call(op, by, m, arg))
      PROVE  FreshInv'
  <2> DEFINE c == Call(op, by, m, arg)
  <2>1. c.op = op /\ c.by = by
    BY DEF Call
  <2> HIDE DEF c
  <2>2. ~IsListing(c) \/ c.op # "list"
    BY <1>3, <2>1 DEF IsListing
  <2> QED
    BY <1>2, <1>3, <2>2 DEF c
<1>4. CASE \E t \in Themes : ChangeTheme(t)
  BY <1>3, <1>4 DEF ChangeTheme, Persist, Detecting
<1>5. CASE OpenEnvironments
  <2>1. mount' = mount + 1 /\ mount \in Nat /\ loading'
    BY <1>5 DEF OpenEnvironments, Mounted, TypeOK
  <2> DEFINE c == Call("get", "load", mount', Listing(1, FALSE, FALSE))
  <2>2. calls' = Append(calls, c) /\ c.op = "get"
    BY <1>5 DEF OpenEnvironments, Call
  <2> HIDE DEF c
  <2>3. ASSUME NEW w, w.mount \in 0 .. mount
        PROVE  w.mount # mount'
    BY <2>1, <2>3
  <2>4. \A i \in DOMAIN answers' : answers'[i].mount # mount'
    BY <1>1, <2>3 DEF WireInv, AnswerOK, ItemOK
  <2>5. \A i \in DOMAIN calls' : \/ i \in DOMAIN calls /\ calls'[i] = calls[i]
                                 \/ calls'[i] = c
    BY <2>2, Longer DEF WireInv
  <2>6. \A i \in DOMAIN calls' : calls'[i].mount = mount' => calls'[i].op # "list"
    BY <2>2, <2>3, <2>5 DEF WireInv, CallOK, ItemOK
  <2> QED
    BY <2>1, <2>4, <2>6, FreshNothing
<1>6. CASE OpenSettings
  BY <1>6 DEF OpenSettings, Mounted, FreshInv
<1>7. CASE Refresh
  <2> DEFINE c == Call("get", "load", mount, Listing(NextGeneration(mount), TRUE, FALSE))
  <2>1. /\ calls' = Append(calls, c) /\ loading' /\ c.op = "get"
        /\ UNCHANGED <<page, mount, overlapped, machine, Detecting, rows, enabled>>
    BY <1>7 DEF Refresh, Load, Detecting, Call
  <2> HIDE DEF c
  <2>2. generation'[mount] = generation[mount] + 1 /\ generation[mount] \in Nat
    BY <1>7, SettingsAssumption DEF Refresh, Load, NextGeneration, TypeOK
  <2>3. ASSUME NEW i \in DOMAIN answers, IsListing(answers[i])
        PROVE  answers[i].arg.generation # generation'[mount]
    <3>1. answers[i].arg.generation \in 0 .. generation[mount]
      BY <2>3 DEF WireInv, AnswerOK, ItemOK, IsListing
    <3> QED
      BY <2>2, <3>1
  <2> QED
    BY <1>2, <2>1, <2>3
<1>8. CASE \E k \in Kinds, p \in Paths : SaveManual(k, p)
  <2>1. PICK k \in Kinds, p \in Paths : SaveManual(k, p)
    BY <1>8
  <2> QED
    BY <1>3, <2>1 DEF SaveManual, Detecting
<1>9. CASE EditAny \/ CacheExpires
  <2>1. UNCHANGED <<page, mount, overlapped, machine, Detecting, rows, enabled, generation,
                    loading, calls>>
    BY <1>9 DEF EditAny, Edit, CacheExpires, Detecting
  <2> QED
    BY <1>2, <2>1
<1>10. CASE SaveForm \/ \E file \in Imports : Import(file)
  <2>1. page = "settings" /\ page' = page
    BY <1>10 DEF SaveForm, Import, Operate, MayOperate
  <2> QED
    BY <2>1 DEF FreshInv
<1> QED
  BY <1>4, <1>5, <1>6, <1>7, <1>8, <1>9, <1>10 DEF User

\* Every step keeps what listings say true.
LEMMA FreshStep ==
  ASSUME TypeOK, WireInv, CacheInv, ApartInv, OrderInv, FreshInv, [Next]_vars
  PROVE  FreshInv'
<1>1. CASE UNCHANGED vars
  <2>1. UNCHANGED <<stored, overrides, machine, calls, answers, page, mount, generation,
                    loading, rows, enabled, overlapped>>
    BY <1>1 DEF vars, backendVars, wireVars, routeVars, envVars, history
  <2>2. UNCHANGED <<Detecting, Overridden, Enabled(Detecting), Detect(Detecting, machine)>>
    BY <2>1 DEF Detecting, Overridden, Enabled, Detect
  <2> HIDE DEF Detecting, Overridden
  <2> QED
    BY <2>1, <2>2 DEF FreshInv, IsListing, IsLastListing
<1> QED
  BY <1>1, FreshRun, FreshTake, FreshUser DEF Next

-----------------------------------------------------------------------------
(* The results.                                                            *)

\* At the start only the theme is asked for.
LEMMA SettingsInit == Init => SettingsInv
<1> SUFFICES ASSUME Init
             PROVE  SettingsInv
  OBVIOUS
<1> DEFINE c == Call("get", "theme", 0, NoPath)
<1>1. c.op = "get" /\ c.by = "theme" /\ c.mount = 0 /\ DOMAIN c = {"op", "by", "mount", "arg"}
  BY DEF Call
<1>2. calls = <<c>> /\ answers = <<>>
  BY DEF Init
<1> HIDE DEF c
<1>3. /\ DOMAIN calls = {1} /\ calls[1] = c /\ calls \in Seq(Range(calls))
      /\ DOMAIN answers = {} /\ answers \in Seq(Range(answers))
  BY <1>2 DEF Range
<1>4. TypeOK
  <2>1. stored \in AppSettings /\ form \in AppSettings
    BY SettingsAssumption DEF Init
  <2>2. overrides \in PathChoices
    BY DEF Init, PathChoices
  <2>3. generation \in [1 .. MaxMounts -> Nat] /\ mount \in 0 .. MaxMounts
    BY SettingsAssumption DEF Init
  <2> QED
    BY <2>1, <2>2, <2>3 DEF Init, TypeOK
<1>5. WireInv
  BY <1>1, <1>3 DEF Init, WireInv, CallOK, ItemOK
<1>6. CacheInv
  BY DEF Init, CacheInv
<1>7. ApartInv
  BY <1>1, <1>3 DEF Init, ApartInv, Carried
<1>8. RestInv
  BY DEF Init, RestInv
<1>9. SavingInv
  BY <1>1, <1>3 DEF SavingInv, IsSaving
<1>10. OrderInv /\ FreshInv
  BY DEF Init, OrderInv, FreshInv
<1> QED
  BY <1>4, <1>5, <1>6, <1>7, <1>8, <1>9, <1>10 DEF SettingsInv

\* The conjunction is inductive, for any number of pages opened and things done.
THEOREM SettingsInvariant == Spec => []SettingsInv
<1>1. SettingsInv /\ [Next]_vars => SettingsInv'
  BY TypeStep, WireStep, CacheStep, ApartStep, RestStep, SavingStep, OrderStep, FreshStep
     DEF SettingsInv
<1> QED
  BY SettingsInit, <1>1, PTL DEF Spec

\* invalidate_env_detection_cache is called wherever it must be: what the
\* cache would serve is what a detection would find (CacheTellsTruth).
THEOREM CacheIsTrue == Spec => []CacheTellsTruth
<1>1. SettingsInv => CacheTellsTruth
  BY DEF SettingsInv, CacheInv, CacheTellsTruth, Cached
<1> QED
  BY SettingsInvariant, <1>1, PTL

\* Saving or importing on the settings page is not undone by the theme, unless
\* a change of the theme had read the settings before, and then only to what it
\* had read (persistTheme against save_app_settings_safe and the imports).
THEOREM SavedStaysSaved == Spec => []SettingsKeptApart
<1>1. SettingsInv => SettingsKeptApart
  BY TidyAlready DEF SettingsInv, TypeOK, ApartInv, SettingsKeptApart
<1> QED
  BY SettingsInvariant, <1>1, PTL

\* No page waits for what is not coming (PagesComeToRest).
THEOREM NoPageIsLocked == Spec => []PagesComeToRest
<1>1. SettingsInv => PagesComeToRest
  <2> SUFFICES ASSUME SettingsInv, calls = <<>>, answers = <<>>
               PROVE  ~loading /\ ~saving /\ ~busy
    BY DEF PagesComeToRest
  <2>1. InTransit = {}
    BY DEF InTransit
  <2> QED
    BY <2>1 DEF SettingsInv, RestInv
<1> QED
  BY SettingsInvariant, <1>1, PTL

\* The environments page at rest shows the runtimes of the settings as they
\* are, because of generations and of the order of commands (RowsAreCurrent).
THEOREM ShownIsCurrent == Spec => []RowsAreCurrent
<1>1. SettingsInv => RowsAreCurrent
  <2> SUFFICES ASSUME SettingsInv, page = "environments", ~loading, ~saving, overlapped = {}
               PROVE  rows = Detect(Detecting, machine) /\ enabled = Enabled(Detecting)
    BY DEF RowsAreCurrent
  <2>1. ~Overridden
    BY DEF SettingsInv, SavingInv, IsSaving, Overridden
  <2> QED
    BY <2>1 DEF SettingsInv, FreshInv
<1> QED
  BY SettingsInvariant, <1>1, PTL

\* list_candidates lists each executable once, from the best place, and what
\* the user has configured (DetectionExact).
THEOREM DetectionIsExact == Spec => []DetectionExact
<1>1. TypeOK => DetectionExact
  <2> SUFFICES ASSUME TypeOK, NEW k \in Enabled(Detecting)
               PROVE  ListedExactly(k, Detecting, machine)
    BY DEF DetectionExact
  <2>1. k \in Kinds
    BY DEF Enabled
  <2>2. /\ Detecting.overrides[k] \in Paths \cup {NoPath}
        /\ Detecting.hints[k] \in Paths \cup {NoPath}
        /\ machine.where[k] \cup machine.path[k] \cup machine.registry[k] \subseteq Paths
    BY <2>1, SettingsAssumption DEF TypeOK, AppSettings, PathChoices, Detecting
  <2> HIDE DEF Detecting
  <2> QED
    BY <2>2, DetectedExactly
<1>2. SettingsInv => TypeOK
  BY DEF SettingsInv
<1> QED
  BY SettingsInvariant, <1>1, <1>2, PTL

=============================================================================
