------------------------- MODULE HistoryAndPageProofs -------------------------
(***************************************************************************)
(* Theorems about the two tables the program keeps short: the audit log,   *)
(* with the files it is written to, and the session table of the project   *)
(* page, for any configurations, maxima, retention and imported files, and *)
(* for any sessions, mounts and clicks. Both are kept by filtering a list  *)
(* and dropping its oldest entries; what that leaves is proved once.       *)
(*                                                                         *)
(* The files: FileInv is inductive, and the files implement DurableConfig. *)
(* Whatever AuditHistory does to them is a behaviour of ConfigFile.        *)
(*                                                                         *)
(* The log: HistoryInv. Events stand in it in the order of their numbers,  *)
(* at least as far apart as these are (Spread), so that dropping all but   *)
(* the last MAX_AUDIT_EVENTS drops none that is recent; what is due is on  *)
(* the disk, in memory, and in what is being written (KeptInv).            *)
(*                                                                         *)
(* The page: PageInv. Calls and answers are two queues; its conjuncts say  *)
(* what a late answer may still name: the answer of a start comes before   *)
(* anything else is told of the session and of the profile's next owner    *)
(* (StartsInv), the first list before anything at all (StartupInv), a list *)
(* names no one heard of unless that is noted (ListsInv), and the event of *)
(* a session whose start is unanswered is still remembered (EndedInv).     *)
(***************************************************************************)
EXTENDS AuditHistory, ProjectPage, SequenceTheorems, FiniteSetTheorems, WellFoundedInduction, TLAPS

-----------------------------------------------------------------------------
(* Lists.                                                                  *)

\* A set of natural numbers has a least element.
LEMMA Least ==
  ASSUME NEW S \in SUBSET Nat, S # {}
  PROVE  \E n \in S : \A o \in S : n <= o
<1> DEFINE R == {ss \in Nat \X Nat : ss[1] < ss[2]}
<1>1. IsWellFoundedOn(R, Nat)
  BY NatLessThanWellFounded, Zenon DEF OpToRel
<1>2. \A n, o \in Nat : <<o, n>> \in R <=> o < n
  OBVIOUS
<1> HIDE DEF R
<1>3. PICK n \in S : \A o \in S : ~ (<<o, n>> \in R)
  BY <1>1, WFMin
<1>4. \A o \in S : n <= o
  <2> SUFFICES ASSUME NEW o \in S PROVE n <= o
    OBVIOUS
  <2>1. n \in Nat /\ o \in Nat /\ ~(o < n)
    BY <1>2, <1>3
  <2> QED
    BY <2>1
<1> QED
  BY <1>4

-----------------------------------------------------------------------------
(* Filtering a list.                                                       *)

\* The recursive definition of OnlyUpTo has a solution, and so is one.
LEMMA OnlyUp ==
  ASSUME NEW q, Len(q) \in Nat, NEW S, NEW n \in 0 .. Len(q)
  PROVE  OnlyUpTo(q, S)[n] =
           IF n = 0 THEN <<>>
           ELSE IF q[n] \in S THEN Append(OnlyUpTo(q, S)[n - 1], q[n]) ELSE OnlyUpTo(q, S)[n - 1]
<1> DEFINE One(r, i) == IF q[i] \in S THEN Append(r, q[i]) ELSE r
           Solves(f, m) == f = [i \in 0 .. m |-> IF i = 0 THEN <<>> ELSE One(f[i - 1], i)]
           none == {m \in 0 .. Len(q) : \A f : ~Solves(f, m)}
           up == CHOOSE f : Solves(f, Len(q))
<1>1. OnlyUpTo(q, S) = up
  BY DEF OnlyUpTo
<1> HIDE DEF One
<1>2. none = {}
  <2> SUFFICES ASSUME none # {} PROVE FALSE
    OBVIOUS
  <2>1. none \in SUBSET Nat
    OBVIOUS
  <2>2. PICK m \in none : \A k \in none : m <= k
    <3> HIDE DEF none
    <3> QED
      BY <2>1, Least
  <2>3. CASE m = 0
    <3> DEFINE g == [i \in 0 .. 0 |-> <<>>]
    <3>1. Solves(g, 0)
      OBVIOUS
    <3> QED
      BY <2>2, <2>3, <3>1
  <2>4. CASE m # 0
    <3>1. m - 1 \in 0 .. Len(q) /\ m - 1 \notin none /\ m \in Nat /\ m > 0
      <4>1. m \in 0 .. Len(q)
        OBVIOUS
      <4> HIDE DEF none
      <4> QED
        BY <2>2, <2>4, <4>1
    <3>2. PICK f : Solves(f, m - 1)
      BY <3>1
    <3> DEFINE g == [i \in 0 .. m |-> IF i < m THEN f[i] ELSE One(f[m - 1], m)]
    <3>3. \A i \in 0 .. m - 1 : f[i] = IF i = 0 THEN <<>> ELSE One(f[i - 1], i)
      BY <3>2
    <3>4. \A i \in 0 .. m : i # 0 => i - 1 \in 0 .. m /\ g[i - 1] = f[i - 1]
      BY <3>1
    <3>5. \A i \in 0 .. m : g[i] = IF i = 0 THEN <<>> ELSE One(g[i - 1], i)
      <4> TAKE i \in 0 .. m
      <4>1. CASE i < m
        BY <3>1, <3>3, <3>4, <4>1
      <4>2. CASE i = m
        BY <3>1, <3>4, <4>2
      <4> QED
        BY <3>1, <4>1, <4>2
    <3>6. Solves(g, m)
      <4> DEFINE h == [i \in 0 .. m |-> IF i = 0 THEN <<>> ELSE One(g[i - 1], i)]
      <4>1. \A i \in 0 .. m : g[i] = h[i]
        BY <3>5
      <4>2. g = h
        <5>1. g = [i \in 0 .. m |-> g[i]] /\ h = [i \in 0 .. m |-> h[i]]
          OBVIOUS
        <5> HIDE DEF g, h
        <5> QED
          BY <4>1, <5>1
      <4> QED
        BY <4>2
    <3> QED
      BY <2>2, <3>6
  <2> QED
    BY <2>3, <2>4
<1>3. Solves(up, Len(q))
  <2>1. Len(q) \in 0 .. Len(q)
    OBVIOUS
  <2> HIDE DEF Solves
  <2>2. \E f : Solves(f, Len(q))
    BY <1>2, <2>1
  <2> QED
    BY <2>2
<1> QED
  BY <1>1, <1>3 DEF One

\* What is known of the elements kept from the first n.
KeptFrom(q, S, T, n, r) ==
  /\ r \in Seq(T) /\ Len(r) <= n
  /\ Ran(r) = {q[i] : i \in 1 .. n} \cap S
  /\ \A i \in 1 .. Len(r) : \E j \in i .. n : r[i] = q[j] /\ Len(r) - i <= n - j
  /\ \A i, j \in 1 .. Len(r) : i < j =>
       \E k, l \in 1 .. n : r[i] = q[k] /\ r[j] = q[l] /\ j - i <= l - k

\* One more element is looked at.
LEMMA KeptOneMore ==
  ASSUME NEW T, NEW q \in Seq(T), NEW S, NEW n \in 1 .. Len(q), NEW r,
         KeptFrom(q, S, T, n - 1, r)
  PROVE  KeptFrom(q, S, T, n, IF q[n] \in S THEN Append(r, q[n]) ELSE r)
<1> n \in Nat /\ n - 1 \in Nat /\ q[n] \in T /\ Len(q) \in Nat
  BY ElementOfSeq, LenProperties
<1>1. r \in Seq(T) /\ Len(r) \in Nat /\ DOMAIN r = 1 .. Len(r)
  BY LenProperties DEF KeptFrom
<1>2. {q[i] : i \in 1 .. n} = {q[i] : i \in 1 .. n - 1} \cup {q[n]}
  OBVIOUS
<1>3. CASE q[n] \notin S
  <2>1. ASSUME NEW i \in 1 .. Len(r)
        PROVE  \E j \in i .. n : r[i] = q[j] /\ Len(r) - i <= n - j
    <3>1. PICK j \in i .. n - 1 : r[i] = q[j] /\ Len(r) - i <= n - 1 - j
      BY DEF KeptFrom
    <3>2. j \in i .. n /\ Len(r) - i <= n - j
      BY <1>1, <3>1
    <3> QED
      BY <3>1, <3>2
  <2>2. \A i, j \in 1 .. Len(r) : i < j =>
       \E k, l \in 1 .. n : r[i] = q[k] /\ r[j] = q[l] /\ j - i <= l - k
    BY <1>1 DEF KeptFrom
  <2> QED
    BY <1>1, <1>2, <1>3, <2>1, <2>2 DEF KeptFrom
<1>4. CASE q[n] \in S
  <2> DEFINE a == Append(r, q[n])
  <2>1. /\ a \in Seq(T) /\ Len(a) = Len(r) + 1 /\ DOMAIN a = 1 .. Len(r) + 1
        /\ \A i \in 1 .. Len(r) : a[i] = r[i]
        /\ a[Len(r) + 1] = q[n]
    BY <1>1, AppendProperties, LenProperties
  <2> HIDE DEF a
  <2>2. Ran(a) = Ran(r) \cup {q[n]}
    <3>1. \A i \in 1 .. Len(r) + 1 : i \in 1 .. Len(r) \/ i = Len(r) + 1
      BY <1>1
    <3>2. \A i \in 1 .. Len(r) : i \in 1 .. Len(r) + 1
      BY <1>1
    <3>3. Len(r) + 1 \in 1 .. Len(r) + 1
      BY <1>1
    <3> QED
      BY <1>1, <2>1, <3>1, <3>2, <3>3 DEF Ran
  <2>3. ASSUME NEW i \in 1 .. Len(a)
        PROVE  \E j \in i .. n : a[i] = q[j] /\ Len(a) - i <= n - j
    <3>1. CASE i = Len(r) + 1
      <4>1. n \in i .. n /\ Len(a) - i <= n - n
        BY <1>1, <2>1, <3>1 DEF KeptFrom
      <4> QED
        BY <2>1, <3>1, <4>1
    <3>2. CASE i \in 1 .. Len(r)
      <4>1. PICK j \in i .. n - 1 : r[i] = q[j] /\ Len(r) - i <= n - 1 - j
        BY <3>2 DEF KeptFrom
      <4>2. j \in i .. n /\ Len(a) - i <= n - j
        BY <1>1, <2>1, <3>2, <4>1
      <4> QED
        BY <2>1, <3>2, <4>1, <4>2
    <3> QED
      BY <1>1, <2>1, <3>1, <3>2
  <2>4. ASSUME NEW i \in 1 .. Len(a), NEW j \in 1 .. Len(a), i < j
        PROVE  \E k, l \in 1 .. n : a[i] = q[k] /\ a[j] = q[l] /\ j - i <= l - k
    <3>0. i \in 1 .. Len(r)
      BY <1>1, <2>1, <2>4
    <3>1. CASE j = Len(r) + 1
      <4>1. PICK k \in i .. n - 1 : r[i] = q[k] /\ Len(r) - i <= n - 1 - k
        BY <3>0 DEF KeptFrom
      <4>2. k \in 1 .. n /\ n \in 1 .. n /\ j - i <= n - k
        BY <1>1, <3>0, <3>1, <4>1
      <4> QED
        BY <2>1, <3>0, <3>1, <4>1, <4>2
    <3>2. CASE j \in 1 .. Len(r)
      <4>1. PICK k \in 1 .. n - 1, l \in 1 .. n - 1 :
               r[i] = q[k] /\ r[j] = q[l] /\ j - i <= l - k
        BY <2>4, <3>0, <3>2 DEF KeptFrom
      <4>2. k \in 1 .. n /\ l \in 1 .. n
        OBVIOUS
      <4> QED
        BY <2>1, <3>0, <3>2, <4>1, <4>2
    <3> QED
      BY <1>1, <2>1, <3>1, <3>2
  <2>5. Len(a) <= n
    BY <1>1, <2>1 DEF KeptFrom
  <2>6. Ran(a) = {q[i] : i \in 1 .. n} \cap S
    BY <1>2, <1>4, <2>2 DEF KeptFrom
  <2>7. KeptFrom(q, S, T, n, a)
    BY <2>1, <2>3, <2>4, <2>5, <2>6 DEF KeptFrom
  <2> QED
    BY <1>4, <2>7 DEF a
<1> QED
  BY <1>3, <1>4

\* Filtering keeps the elements asked for, their order, and at least as near to
\* each other as they were.
LEMMA OnlyKeeps ==
  ASSUME NEW T, NEW q \in Seq(T), NEW S
  PROVE  KeptFrom(q, S, T, Len(q), Only(q, S))
<1> DEFINE f == OnlyUpTo(q, S)
           bad == {n \in 0 .. Len(q) : ~KeptFrom(q, S, T, n, f[n])}
<1> Len(q) \in Nat
  BY LenProperties
<1>1. bad = {}
  <2> SUFFICES ASSUME bad # {} PROVE FALSE
    OBVIOUS
  <2>1. bad \in SUBSET Nat
    OBVIOUS
  <2>2. PICK m \in bad : \A k \in bad : m <= k
    <3> HIDE DEF bad
    <3> QED
      BY <2>1, Least
  <2>3. m \in 0 .. Len(q) /\ ~KeptFrom(q, S, T, m, f[m])
    OBVIOUS
  <2>4. CASE m = 0
    <3>1. f[0] = <<>>
      BY <2>3, <2>4, OnlyUp
    <3>2. <<>> \in Seq(T) /\ Len(<<>>) = 0 /\ Ran(<<>>) = {}
      BY EmptySeq DEF Ran
    <3> QED
      BY <2>3, <2>4, <3>1, <3>2 DEF KeptFrom
  <2>5. CASE m # 0
    <3>1. m \in 1 .. Len(q) /\ m - 1 \in 0 .. Len(q) /\ ~(m <= m - 1)
      BY <2>3, <2>5
    <3>2. m - 1 \notin bad
      <4> HIDE DEF bad
      <4> QED
        BY <2>2, <3>1
    <3>3. KeptFrom(q, S, T, m - 1, f[m - 1])
      BY <3>1, <3>2
    <3>4. f[m] = IF q[m] \in S THEN Append(f[m - 1], q[m]) ELSE f[m - 1]
      BY <2>3, <2>5, OnlyUp
    <3> HIDE DEF f
    <3> QED
      BY <2>3, <3>1, <3>3, <3>4, KeptOneMore
  <2> QED
    BY <2>4, <2>5
<1>2. Len(q) \in 0 .. Len(q)
  OBVIOUS
<1> QED
  BY <1>1, <1>2 DEF Only

-----------------------------------------------------------------------------
(* The files.                                                              *)

\* Nothing has been written and persist is not running.
LEMMA FileStart == FileInit => FileInv
  BY FileAssumption DEF FileInit, FileInv, TypeOK, Contents, WritePCs

\* Every system call of a persist, a start, a crash and a damaged main file
\* keep the invariant.
LEMMA FileStep == FileInv /\ [FileNext]_fileVars => FileInv'
<1> SUFFICES ASSUME FileInv, [FileNext]_fileVars PROVE FileInv'
  OBVIOUS
<1> USE FileAssumption DEF FileInv, TypeOK, Contents, WritePCs, Readable
<1>1. CASE Start
  BY <1>1 DEF Start, Load, files
<1>2. CASE Persist
  <2>1. backup_current' = (primary \in Configs)
    BY <1>2 DEF Persist, BackUpCurrent
  <2>2. CASE primary \in Configs
    <3>1. backup_current' = TRUE
      BY <2>1, <2>2
    <3> QED
      BY <1>2, <2>2, <3>1 DEF Persist, files
  <2>3. CASE primary \notin Configs
    <3>1. (primary \in Configs) = FALSE
      BY <2>3
    <3>2. backup_current' = FALSE
      BY <2>1, <3>1
    <3> QED
      BY <1>2, <2>3, <3>2 DEF Persist, files
  <2> QED
    BY <2>2, <2>3
<1>3. CASE CreateTemp
  BY <1>3 DEF CreateTemp, Fail
<1>4. CASE WriteTemp
  BY <1>4 DEF WriteTemp, SyncAll, Fail
<1>5. CASE MoveAside
  BY <1>5 DEF MoveAside, Fail
<1>6. CASE MoveIn
  BY <1>6 DEF MoveIn, Fail
<1>7. CASE Crash
  BY <1>7 DEF Crash, files
<1>8. CASE Damage
  BY <1>8 DEF Damage
<1>9. CASE UNCHANGED fileVars
  BY <1>9 DEF fileVars, files
<1> QED
  BY <1>1, <1>2, <1>3, <1>4, <1>5, <1>6, <1>7, <1>8, <1>9 DEF FileNext

\* Only whole configurations are moved in, and there is a readable backup
\* whenever the main file has been moved aside.
THEOREM FileInvariant == FileSpec => []FileInv
  BY FileStart, FileStep, PTL DEF FileSpec

\* No write, however it ends, gives a readable backup up for an unreadable
\* file.
THEOREM BackupSafe == FileSpec => BackupStaysReadable
<1>1. FileInv /\ [FileNext]_fileVars => [Readable(backup) => Readable(backup')]_backup
  <2> SUFFICES ASSUME FileInv, FileNext, backup' # backup PROVE Readable(backup')
    BY DEF fileVars, files
  <2>1. MoveAside
    BY DEF FileNext, Start, Persist, CreateTemp, WriteTemp, MoveIn, Crash, Damage,
           files
  <2> QED
    BY <2>1 DEF MoveAside, FileInv, WritePCs, Readable
<1> QED
  BY <1>1, FileInvariant, PTL DEF FileSpec, BackupStaysReadable

-----------------------------------------------------------------------------
(* The refinement.                                                         *)

\* With no files a start of the program loads the defaults.
LEMMA DurableInit == FileInit => Durable!Init
  BY FileAssumption
     DEF FileInit, Durable!Init, Load, Readable, WritePCs

\* The data is on the disk when the second rename returns, a write that fails
\* before it changes nothing a start would load, and moving the current file
\* aside leaves it loadable under its backup name.
LEMMA DurableStep ==
  FileInv /\ [FileNext]_fileVars => [Durable!Next]_(Durable!vars)
<1> SUFFICES ASSUME FileInv, [FileNext]_fileVars
             PROVE  Durable!Next \/ UNCHANGED Durable!vars
  OBVIOUS

<1> USE FileAssumption DEF FileInv, TypeOK, Contents, WritePCs, Readable, Load
<1>1. CASE Start
  BY <1>1 DEF Start, files, Durable!vars
<1>2. CASE Persist
  BY <1>2 DEF Persist, files, Durable!Next, Durable!Begin
<1>3. CASE CreateTemp
  BY <1>3 DEF CreateTemp, Fail, Durable!Next, Durable!Fail, Durable!vars
<1>4. CASE WriteTemp
  BY <1>4 DEF WriteTemp, Fail, Durable!Next, Durable!Fail, Durable!vars
<1>5. CASE MoveAside
  <2>1. CASE /\ backup' = primary
             /\ primary' = Missing
             /\ pc' = "swap"
             /\ UNCHANGED <<temp, answer>>
    BY <1>5, <2>1 DEF MoveAside, Durable!Next, Durable!Rotate
  <2>2. CASE Fail /\ UNCHANGED <<primary, backup>>
    BY <1>5, <2>2 DEF MoveAside, Fail, Durable!Next, Durable!Fail
  <2> QED
    BY <1>5, <2>1, <2>2 DEF MoveAside
<1>6. CASE MoveIn
  <2>1. CASE primary' = temp /\ pc' = "idle" /\ answer' = "ok"
    BY <1>6, <2>1 DEF MoveIn, Durable!Next, Durable!Commit
  <2>2. CASE Fail /\ UNCHANGED primary
    BY <1>6, <2>2 DEF MoveIn, Fail, Durable!Next, Durable!Fail
  <2> QED
    BY <1>6, <2>1, <2>2 DEF MoveIn
<1>7. CASE Crash
  BY <1>7 DEF Crash, files, Durable!Next, Durable!Crash
<1>8. CASE Damage
  BY <1>8 DEF Damage, Durable!Next, Durable!LoseFile, Durable!vars
<1>9. CASE UNCHANGED fileVars
  BY <1>9 DEF fileVars, files, Durable!vars
<1> QED
  BY <1>1, <1>2, <1>3, <1>4, <1>5, <1>6, <1>7, <1>8, <1>9 DEF FileNext

\* Wherever the program is killed, a start of it loads the configuration of
\* the last write that answered Ok, or of one that was about to, and losing
\* the main file costs at most one write.
THEOREM FileImplementsDurable == FileSpec => Durability
  BY DurableInit, DurableStep, FileInvariant, PTL
     DEF FileSpec, Durability, Durable!Spec

-----------------------------------------------------------------------------
(* The audit log that is written to them.                                  *)

\* A command's write is a persist, a rollback is another, and the clock touches
\* no file.
LEMMA HistoryStep == [HistoryNext]_<<fileVars, historyVars>> => [FileNext]_fileVars
<1> SUFFICES ASSUME HistoryNext PROVE [FileNext]_fileVars
  BY DEF fileVars
<1> USE DEF FileNext
<1>1. ASSUME NEW by, NEW cfg, Write(by, cfg) PROVE FileNext
  BY <1>1 DEF Write
<1>2. CASE Record
  BY <1>1, <1>2 DEF Record
<1>3. ASSUME NEW days \in RetentionDays, SaveDays(days) PROVE FileNext
  BY <1>1, <1>3 DEF SaveDays
<1>4. ASSUME NEW cfg \in Imports, Import(cfg) PROVE FileNext
  BY <1>1, <1>4 DEF Import
<1>5. CASE Rollback
  BY <1>5 DEF Rollback
<1>6. CASE WriteStep
  BY <1>6 DEF WriteStep
<1>7. CASE StartOrCrash
  BY <1>7 DEF StartOrCrash
<1>8. CASE FileDamaged
  BY <1>8 DEF FileDamaged
<1>9. CASE Clock
  BY <1>9 DEF Clock
<1> QED
  BY <1>2, <1>3, <1>4, <1>5, <1>6, <1>7, <1>8, <1>9 DEF HistoryNext

\* Every behaviour of the history is one of the files.
THEOREM HistoryWritesFiles == HistorySpec => FileSpec
BY HistoryStep, PTL DEF HistorySpec, HistoryInit, FileSpec

\* Recording, pruning, importing and rolling back keep what a write relies on.
THEOREM HistoryFileInv == HistorySpec => []FileInv
BY HistoryWritesFiles, FileInvariant, PTL

\* None of them, however it ends, gives a readable backup up for an unreadable one.
THEOREM HistoryBackupSafe == HistorySpec => BackupStaysReadable
BY HistoryWritesFiles, BackupSafe, PTL

\* A record, a change of the settings, an import and a rollback are each saved
\* at once or not at all, through crashes and failed system calls.
THEOREM HistoryIsDurable == HistorySpec => Durability
BY HistoryWritesFiles, FileImplementsDurable, PTL

-----------------------------------------------------------------------------
(* What the log keeps.                                                     *)

\* Recorded events stand in the order of their numbers, as far apart at least
\* as they do.
Spread(log) ==
  \A i, j \in DOMAIN log : i < j /\ log[i].id > 0 => log[j].id >= log[i].id + (j - i)

\* A log in which n events may have been recorded.
LogOK(log, n) == Spread(log) /\ \A e \in Ran(log) : e.id <= n

\* Fewer than MAX_AUDIT_EVENTS of n events were recorded after e.
Recent(e, n) == e.id \in 1 .. n /\ n < e.id + MAX_AUDIT_EVENTS

Keeps(cfg, D, t) == \A e \in D : e \in Ran(cfg.events) /\ Retained(e, cfg.days, t)

\* What memory holds, or will hold again after the rollback of a failed write.
Trusted == IF undo = Missing THEN config ELSE undo

HistoryTypeOK ==
  /\ now \in Nat /\ made \in Nat
  /\ undo \in Configs \cup {Missing}
  /\ pc = "down" => undo = Missing
  /\ pc \in WritePCs => /\ answer = "none"
                        /\ writer \in {"record", "rollback", "settings", "import"}
                        /\ undo = Missing <=> writer \in {"record", "rollback"}
                        /\ writer = "record" => made > 0

\* What is due is recent, and was recorded at a time.
DueInv == \A e \in due : Recent(e, made) /\ e \in Event

LogsInv == \A cfg \in {primary, backup, config, undo} : cfg \in Configs => LogOK(cfg.events, made)

\* What is due is on the disk and in memory, and in what is being written as far
\* as it will be due after it; the disk retains as long as memory does.
KeptInv ==
  /\ Keeps(Load(primary, backup), due, now)
  /\ pc # "down" => Keeps(Trusted, due, now)
  /\ pc \in WritePCs => Keeps(config, DueAfter, now)
  /\ pc # "down" /\ due # {} => Load(primary, backup).days = Trusted.days

HistoryInv == FileInv /\ HistoryTypeOK /\ DueInv /\ LogsInv /\ KeptInv

-----------------------------------------------------------------------------

\* A start loads a configuration.
LEMMA LoadType == FileInv => Load(primary, backup) \in Configs
BY FileAssumption DEF FileInv, TypeOK, Load, Readable

\* What is read from a file has a log and a retention.
LEMMA ConfigType ==
  ASSUME NEW cfg \in Configs \cup Imports
  PROVE  cfg \in AnyConfig /\ cfg.events \in Seq(Event) /\ cfg.days \in Nat
BY LogAssumption DEF AnyConfig

\* The number of an event is a number.
LEMMA EventIds == \A e \in Event : e.id \in Nat
BY DEF Event

\* Filtering a log leaves it in order.
LEMMA OnlyLog ==
  ASSUME NEW log \in Seq(Event), NEW S
  PROVE  LET r == Only(log, S) IN
         /\ r \in Seq(Event)
         /\ Ran(r) = Ran(log) \cap S
         /\ Spread(log) => Spread(r)
<1> DEFINE r == Only(log, S)
<1>1. KeptFrom(log, S, Event, Len(log), r)
  BY OnlyKeeps
<1> HIDE DEF r
<1>2. r \in Seq(Event) /\ DOMAIN r = 1 .. Len(r) /\ DOMAIN log = 1 .. Len(log)
  BY <1>1, LenProperties DEF KeptFrom
<1>3. Ran(log) = {log[i] : i \in 1 .. Len(log)}
  BY <1>2 DEF Ran
<1>4. ASSUME Spread(log), NEW i \in DOMAIN r, NEW j \in DOMAIN r, i < j, r[i].id > 0
      PROVE  r[j].id >= r[i].id + (j - i)
  <2>1. PICK k, l \in 1 .. Len(log) : r[i] = log[k] /\ r[j] = log[l] /\ j - i <= l - k
    BY <1>1, <1>2, <1>4 DEF KeptFrom
  <2>2. k \in Nat /\ l \in Nat /\ i \in Nat /\ j \in Nat /\ k < l
    BY <1>2, <1>4, <2>1, LenProperties
  <2>3. log[l].id >= log[k].id + (l - k)
    BY <1>2, <1>4, <2>1, <2>2 DEF Spread
  <2>4. log[k].id \in Nat /\ log[l].id \in Nat
    BY <2>1, ElementOfSeq, EventIds
  <2> QED
    BY <2>1, <2>2, <2>3, <2>4
<1>5. Spread(log) => Spread(r)
  BY <1>4 DEF Spread
<1> QED
  BY <1>1, <1>2, <1>3, <1>5 DEF KeptFrom, r

\* Trimming keeps the end of a log, and so what is recent.
LEMMA TrimLog ==
  ASSUME NEW log \in Seq(Event)
  PROVE  LET r == trim_oldest(log) IN
         /\ r \in Seq(Event)
         /\ Ran(r) \subseteq Ran(log)
         /\ Spread(log) => Spread(r)
         /\ \A n \in Nat : LogOK(log, n) =>
              \A e \in Ran(log) : Recent(e, n) => e \in Ran(r)
<1> DEFINE r == trim_oldest(log)
           m == IF Len(log) > MAX_AUDIT_EVENTS THEN Len(log) - MAX_AUDIT_EVENTS + 1 ELSE 1
<1>1. Len(log) \in Nat /\ DOMAIN log = 1 .. Len(log) /\ MAX_AUDIT_EVENTS \in Nat
  BY LenProperties, HistoryAssumption
<1>2. m \in Nat /\ m >= 1 /\ (Len(log) - m < MAX_AUDIT_EVENTS)
      /\ (m = 1 \/ m = Len(log) - MAX_AUDIT_EVENTS + 1) /\ m <= Len(log) + 1
  BY <1>1, HistoryAssumption
<1>3. r = SubSeq(log, m, Len(log))
  BY DEF trim_oldest
<1>4. \A i \in m .. Len(log) : log[i] \in Event
  BY <1>1, <1>2, ElementOfSeq
<1> HIDE DEF r, m
<1>5. /\ r \in Seq(Event)
      /\ Len(r) = IF m <= Len(log) THEN Len(log) - m + 1 ELSE 0
      /\ \A i \in 1 .. Len(log) - m + 1 : r[i] = log[m + i - 1]
  <2>1. m \in Int /\ Len(log) \in Int
    BY <1>1, <1>2
  <2> QED
    BY <1>3, <1>4, <2>1, SubSeqProperties
<1>6. DOMAIN r = 1 .. Len(log) - m + 1
  <2>1. DOMAIN r = 1 .. Len(r)
    BY <1>5, LenProperties
  <2> QED
    BY <1>1, <1>2, <1>5, <2>1
<1>7. ASSUME NEW i \in DOMAIN r
      PROVE  m + i - 1 \in DOMAIN log /\ r[i] = log[m + i - 1]
  <2>1. i \in Nat /\ 1 <= i /\ i <= Len(log) - m + 1
    BY <1>1, <1>2, <1>6
  <2>2. m + i - 1 \in 1 .. Len(log)
    BY <1>1, <1>2, <2>1
  <2> QED
    BY <1>1, <1>5, <1>6, <2>2
<1>8. Ran(r) \subseteq Ran(log)
  BY <1>7 DEF Ran
<1>9. ASSUME Spread(log), NEW i \in DOMAIN r, NEW j \in DOMAIN r, i < j, r[i].id > 0
      PROVE  r[j].id >= r[i].id + (j - i)
  <2>1. m + i - 1 < m + j - 1 /\ (m + j - 1) - (m + i - 1) = j - i
    BY <1>2, <1>6, <1>9
  <2>2. log[m + j - 1].id >= log[m + i - 1].id + ((m + j - 1) - (m + i - 1))
    BY <1>7, <1>9, <2>1 DEF Spread
  <2> QED
    BY <1>7, <2>1, <2>2
<1>10. Spread(log) => Spread(r)
  BY <1>9 DEF Spread
<1>11. ASSUME NEW n \in Nat, LogOK(log, n), NEW e \in Ran(log), Recent(e, n)
       PROVE  e \in Ran(r)
  <2>1. PICK i \in DOMAIN log : e = log[i]
    BY <1>11 DEF Ran
  <2>2. Len(log) - i < MAX_AUDIT_EVENTS
    <3>0. e.id \in Nat /\ e.id > 0 /\ n < e.id + MAX_AUDIT_EVENTS
      BY <1>11 DEF Recent
    <3>1. CASE i = Len(log)
      BY <1>1, <3>1, HistoryAssumption
    <3>2. CASE i < Len(log)
      <4>1. Len(log) \in DOMAIN log
        BY <1>1, <3>2
      <4>2. log[Len(log)].id >= log[i].id + (Len(log) - i)
        BY <1>11, <2>1, <3>0, <3>2, <4>1 DEF LogOK, Spread
      <4>3. log[Len(log)].id <= n /\ log[Len(log)].id \in Nat
        <5>1. log[Len(log)] \in Ran(log) /\ log[Len(log)] \in Event
          BY <1>1, <4>1, ElementOfSeq DEF Ran
        <5> QED
          BY <1>11, <5>1, EventIds DEF LogOK
      <4> QED
        BY <1>1, <2>1, <3>0, <4>2, <4>3
    <3> QED
      BY <1>1, <2>1, <3>1, <3>2
  <2>3. i >= m
    BY <1>1, <1>2, <2>1, <2>2
  <2>4. i - m + 1 \in DOMAIN r /\ m + (i - m + 1) - 1 = i
    BY <1>1, <1>2, <1>6, <2>1, <2>3
  <2>5. r[i - m + 1] = e
    BY <1>7, <2>1, <2>4
  <2> QED
    BY <2>4, <2>5 DEF Ran
<1> QED
  BY <1>5, <1>8, <1>10, <1>11 DEF r

\* What is recent is listed as long as it is retained.
LEMMA ShownIsKept ==
  ASSUME NEW cfg \in Configs, made \in Nat, LogOK(cfg.events, made), DueInv,
         Keeps(cfg, due, now)
  PROVE  due \subseteq Shown(cfg)
<1> DEFINE u == Unexpired(cfg)
<1>0. cfg.events \in Seq(Event)
  BY ConfigType
<1>1. /\ u \in Seq(Event) /\ Spread(u)
      /\ Ran(u) = Ran(cfg.events) \cap {e \in Ran(cfg.events) : Retained(e, cfg.days, now)}
  BY <1>0, OnlyLog DEF Unexpired, LogOK
<1>2. LogOK(u, made)
  BY <1>1 DEF LogOK
<1> HIDE DEF u
<1>3. \A e \in due : e \in Ran(trim_oldest(u))
  BY <1>1, <1>2, TrimLog DEF DueInv, Keeps
<1>4. Listed(cfg) = trim_oldest(u)
  BY DEF Listed, u
<1>5. DOMAIN Listed(cfg) = 1 .. Len(Listed(cfg))
  BY <1>1, <1>4, TrimLog, LenProperties
<1> QED
  BY <1>3, <1>4, <1>5 DEF Shown, Ran

\* Pruning keeps what is recent and retained, and the order.
LEMMA PrunedKeeps ==
  ASSUME NEW cfg \in AnyConfig, NEW n \in Nat, LogOK(cfg.events, n)
  PROVE  /\ Pruned(cfg) = [cfg EXCEPT !.events = trim_oldest(Unexpired(cfg))]
         /\ Pruned(cfg).events \in Seq(Event) /\ Pruned(cfg).days = cfg.days
         /\ LogOK(Pruned(cfg).events, n)
         /\ \A e \in Ran(cfg.events) :
              Recent(e, n) /\ Retained(e, cfg.days, now) => e \in Ran(Pruned(cfg).events)
<1> DEFINE u == Unexpired(cfg)
<1>0. cfg.events \in Seq(Event)
  BY DEF AnyConfig
<1>1. /\ u \in Seq(Event) /\ Spread(u)
      /\ Ran(u) = Ran(cfg.events) \cap {e \in Ran(cfg.events) : Retained(e, cfg.days, now)}
  BY <1>0, OnlyLog DEF Unexpired, LogOK
<1>2. LogOK(u, n)
  BY <1>1 DEF LogOK
<1>3. Pruned(cfg) = [cfg EXCEPT !.events = trim_oldest(u)]
  BY DEF Pruned
<1> HIDE DEF u
<1>4. Pruned(cfg).events = trim_oldest(u) /\ Pruned(cfg).days = cfg.days
  BY <1>3 DEF AnyConfig
<1>5. /\ trim_oldest(u) \in Seq(Event) /\ LogOK(trim_oldest(u), n)
      /\ \A e \in Ran(u) : Recent(e, n) => e \in Ran(trim_oldest(u))
  BY <1>1, <1>2, TrimLog DEF LogOK
<1> QED
  BY <1>1, <1>3, <1>4, <1>5 DEF u

\* A new event is the last one, and what was recent stays unless it was the oldest of
\* MAX_AUDIT_EVENTS.
LEMMA AppendedKeeps ==
  ASSUME NEW cfg \in AnyConfig, NEW n \in Nat, LogOK(cfg.events, n),
         NEW e \in Event, e.id = n + 1
  PROVE  /\ Appended(cfg, e).events \in Seq(Event) /\ Appended(cfg, e).days = cfg.days
         /\ LogOK(Appended(cfg, e).events, n + 1)
         /\ \A o \in Ran(cfg.events) \cup {e} :
              Recent(o, n + 1) => o \in Ran(Appended(cfg, e).events)
<1> DEFINE log == cfg.events
           a == Append(log, e)
<1>0. log \in Seq(Event) /\ Len(log) \in Nat /\ DOMAIN log = 1 .. Len(log)
  BY LenProperties DEF AnyConfig
<1>1. /\ a \in Seq(Event) /\ Len(a) = Len(log) + 1 /\ DOMAIN a = 1 .. Len(log) + 1
      /\ \A i \in 1 .. Len(log) : a[i] = log[i]
      /\ a[Len(log) + 1] = e
  BY <1>0, AppendProperties, LenProperties
<1>2. Appended(cfg, e).events = trim_oldest(a) /\ Appended(cfg, e).days = cfg.days
  BY DEF Appended, AnyConfig
<1> HIDE DEF a
<1>3. Ran(a) = Ran(log) \cup {e}
  <2>1. \A i \in 1 .. Len(log) + 1 : i \in 1 .. Len(log) \/ i = Len(log) + 1
    BY <1>0
  <2>2. Len(log) + 1 \in 1 .. Len(log) + 1 /\ \A i \in 1 .. Len(log) : i \in 1 .. Len(log) + 1
    BY <1>0
  <2> QED
    BY <1>0, <1>1, <2>1, <2>2 DEF Ran
<1>4. \A o \in Ran(log) : o.id <= n /\ o \in Event /\ o.id \in Nat
  <2>1. \A o \in Ran(log) : o \in Event
    BY <1>0, ElementOfSeq DEF Ran
  <2> QED
    BY <2>1, EventIds DEF LogOK
<1>5. ASSUME NEW i \in DOMAIN a, NEW j \in DOMAIN a, i < j, a[i].id > 0
      PROVE  a[j].id >= a[i].id + (j - i)
  <2>0. i \in 1 .. Len(log) /\ a[i] = log[i] /\ log[i] \in Ran(log)
    BY <1>0, <1>1, <1>5 DEF Ran
  <2>1. CASE j = Len(log) + 1
    <3>1. CASE i = Len(log)
      BY <1>0, <1>1, <1>4, <2>0, <2>1, <3>1
    <3>2. CASE i < Len(log)
      <4>1. Len(log) \in DOMAIN log /\ log[Len(log)] \in Ran(log)
        BY <1>0, <2>0, <3>2 DEF Ran
      <4>2. log[Len(log)].id >= log[i].id + (Len(log) - i)
        BY <1>0, <1>5, <2>0, <3>2, <4>1 DEF LogOK, Spread
      <4>3. log[Len(log)].id <= n /\ log[Len(log)].id \in Nat /\ log[i].id \in Nat
        BY <1>4, <2>0, <4>1
      <4>4. a[j].id = n + 1 /\ a[i].id = log[i].id
        BY <1>1, <2>0, <2>1
      <4>8. j - i = Len(log) + 1 - i
        BY <1>0, <2>0, <2>1
      <4> HIDE DEF log
      <4>5. \A x, y, k, l \in Nat : y >= x + (l - k) /\ y <= n => n + 1 >= x + (l + 1 - k)
        OBVIOUS
      <4>6. i \in Nat
        BY <2>0
      <4>7. n + 1 >= log[i].id + (Len(log) + 1 - i)
        BY <1>0, <4>2, <4>3, <4>5, <4>6
      <4> QED
        BY <4>4, <4>7, <4>8
    <3> QED
      BY <1>0, <2>0, <3>1, <3>2
  <2>2. CASE j \in 1 .. Len(log)
    BY <1>0, <1>1, <1>5, <2>0, <2>2 DEF LogOK, Spread
  <2>3. j \in 1 .. Len(log) + 1
    BY <1>1, <1>5
  <2> QED
    BY <1>0, <2>1, <2>2, <2>3
<1>6. LogOK(a, n + 1)
  BY <1>3, <1>4, <1>5 DEF LogOK, Spread
<1>7. /\ trim_oldest(a) \in Seq(Event) /\ LogOK(trim_oldest(a), n + 1)
      /\ \A o \in Ran(a) : Recent(o, n + 1) => o \in Ran(trim_oldest(a))
  <2>1. n + 1 \in Nat
    OBVIOUS
  <2> QED
    BY <1>1, <1>6, <2>1, TrimLog DEF LogOK
<1> QED
  BY <1>2, <1>3, <1>7

-----------------------------------------------------------------------------
(* The steps of the log.                                                   *)

\* No file, no event.
LEMMA HistoryStart == HistoryInit => HistoryInv
<1> SUFFICES ASSUME HistoryInit PROVE HistoryInv
  OBVIOUS
<1>1. FileInv
  BY FileStart DEF HistoryInit
<1>2. LogOK(Default.events, made)
  <2>1. Default.events \in Seq(Event) /\ DOMAIN Default.events = 1 .. Len(Default.events)
    BY FileAssumption, ConfigType, LenProperties
  <2>2. \A i \in DOMAIN Default.events : Default.events[i].id = 0
    BY LogAssumption DEF Ran
  <2> QED
    BY <2>2 DEF LogOK, Spread, HistoryInit, Ran
<1>3. HistoryTypeOK /\ DueInv /\ KeptInv
  BY DEF HistoryInit, FileInit, HistoryTypeOK, DueInv, KeptInv, Keeps, WritePCs
<1>4. LogsInv
  BY <1>2, FileAssumption DEF HistoryInit, FileInit, LogsInv
<1> QED
  BY <1>1, <1>3, <1>4 DEF HistoryInv

\* What a step of a write does to the files: it is over and they hold the new
\* configuration, or what they hold is what they held.
LEMMA WriteEffect ==
  ASSUME FileInv, HistoryTypeOK, WriteStep
  PROVE  /\ pc \in WritePCs /\ config' = config
         /\ \/ /\ answer' = "ok" /\ pc' = "idle"
               /\ primary' = config /\ backup' = backup
            \/ /\ answer' # "ok" /\ Load(primary', backup') = Load(primary, backup)
               /\ {primary', backup'} \subseteq {primary, backup, Missing}
               /\ pc' \in WritePCs \cup {"idle"}
               /\ pc' \in WritePCs => answer' = "none"
<1> USE DEF WritePCs
<1>1. CASE CreateTemp
  BY <1>1 DEF CreateTemp, Fail, HistoryTypeOK, Load
<1>2. CASE WriteTemp
  BY <1>2 DEF WriteTemp, Fail, HistoryTypeOK, Load
<1>3. CASE MoveAside
  BY <1>3, FileAssumption DEF MoveAside, Fail, HistoryTypeOK, FileInv, Load, Readable
<1>4. CASE MoveIn
  BY <1>4 DEF MoveIn, Fail, HistoryTypeOK, FileInv, Load
<1> QED
  BY <1>1, <1>2, <1>3, <1>4 DEF WriteStep

\* What a configuration written by a user's command keeps: one write at a time, so
\* memory is what is trusted.
LEMMA Trust ==
  ASSUME HistoryInv, pc = "idle", undo = Missing
  PROVE  /\ config \in Configs /\ LogOK(config.events, made)
         /\ Keeps(config, due, now)
         /\ due # {} => Load(primary, backup).days = config.days
BY DEF HistoryInv, FileInv, TypeOK, LogsInv, KeptInv, Trusted

\* A write by a user's command.
LEMMA WriteBegins ==
  ASSUME HistoryInv, NEW by \in {"record", "settings", "import"}, NEW cfg, Write(by, cfg),
         made' \in Nat, made <= made', by = "record" => made' > 0, due' \subseteq due, DueInv',
         LogOK(cfg.events, made'),
         undo' = IF by = "record" THEN Missing ELSE config,
         by = "record" => cfg.days = config.days,
         Keeps(IF by = "record" THEN cfg ELSE config, due', now),
         Keeps(cfg, CASE by = "record" -> due' \cup {[id |-> made', at |-> now]}
                      [] by = "settings" -> {e \in due' : Retained(e, cfg.days, now)}
                      [] by = "import" -> {}, now)
  PROVE  HistoryTypeOK' /\ LogsInv' /\ KeptInv'
<1> /\ pc = "idle" /\ pc' = "create" /\ undo = Missing /\ writer' = by
    /\ config' = cfg /\ config' \in Configs /\ answer' = "none"
    /\ now' = now /\ primary' = primary /\ backup' = backup
  BY DEF Write, Persist, files
<1>0. /\ config \in Configs /\ LogOK(config.events, made) /\ Keeps(config, due, now)
      /\ due # {} => Load(primary, backup).days = config.days
  BY Trust
<1>1. HistoryTypeOK'
  BY <1>0, FileAssumption DEF HistoryInv, HistoryTypeOK, WritePCs
<1>2. LogsInv'
  <2>1. \A log : LogOK(log, made) => \A e \in Ran(log) : e.id <= made
    BY DEF LogOK
  <2>2. ASSUME NEW c \in {primary, backup, config}, c \in Configs
        PROVE  LogOK(c.events, made')
    <3>1. LogOK(c.events, made)
      BY <2>2 DEF HistoryInv, LogsInv
    <3>2. \A e \in Ran(c.events) : e.id \in Nat
      <4>1. c.events \in Seq(Event) /\ DOMAIN c.events = 1 .. Len(c.events)
        BY <2>2, ConfigType, LenProperties
      <4> QED
        BY <4>1, ElementOfSeq, EventIds DEF Ran
    <3> QED
      BY <3>1, <3>2 DEF LogOK, HistoryInv, HistoryTypeOK
  <2> QED
    BY <2>2, FileAssumption DEF LogsInv
<1>3. KeptInv'
  <2>1. Keeps(Load(primary', backup'), due', now')
    BY DEF HistoryInv, KeptInv, Keeps
  <2>2. Keeps(Trusted', due', now') /\ Trusted' = IF by = "record" THEN cfg ELSE config
    BY <1>0, FileAssumption DEF Trusted
  <2>3. Keeps(config', DueAfter', now')
    BY DEF DueAfter
  <2>4. due' # {} => Load(primary', backup').days = Trusted'.days
    BY <1>0, <2>2
  <2> QED
    BY <2>1, <2>2, <2>3, <2>4 DEF KeptInv
<1> QED
  BY <1>1, <1>2, <1>3

\* record_action: what was due and stays recent survives the pruning and the trimming
\* that the new event causes, and the new one is last.
LEMMA RecordStep ==
  ASSUME HistoryInv, Record
  PROVE  HistoryTypeOK' /\ DueInv' /\ LogsInv' /\ KeptInv'
<1> DEFINE new == [id |-> made + 1, at |-> now]
           pruned == Pruned(config)
           cfg == Appended(pruned, new)
<1>0. /\ Write("record", cfg) /\ made' = made + 1 /\ undo' = undo /\ made \in Nat /\ now \in Nat
      /\ due' = {e \in due : e.id + MAX_AUDIT_EVENTS > made'}
      /\ MAX_AUDIT_EVENTS \in Nat \ {0} /\ pc = "idle" /\ undo = Missing /\ now' = now
  BY HistoryAssumption DEF Record, HistoryInv, HistoryTypeOK, Write, Persist
<1>1. /\ config \in Configs /\ config \in AnyConfig /\ LogOK(config.events, made)
      /\ Keeps(config, due, now) /\ DueInv
  BY <1>0, Trust, ConfigType DEF HistoryInv
<1>2. /\ pruned.events \in Seq(Event) /\ pruned.days = config.days
      /\ LogOK(pruned.events, made) /\ pruned \in AnyConfig
      /\ \A e \in Ran(config.events) :
           Recent(e, made) /\ Retained(e, config.days, now) => e \in Ran(pruned.events)
  BY <1>0, <1>1, PrunedKeeps DEF AnyConfig
<1>3. new \in Event /\ new.id = made + 1
  BY <1>0 DEF Event
<1> HIDE DEF pruned, new
<1>4. /\ cfg.days = config.days /\ LogOK(cfg.events, made')
      /\ \A o \in Ran(pruned.events) \cup {new} : Recent(o, made') => o \in Ran(cfg.events)
  BY <1>0, <1>2, <1>3, AppendedKeeps
<1>5. DueInv'
  BY <1>0, <1>1, EventIds DEF DueInv, Recent
<1>6. Recent(new, made')
  BY <1>0, <1>3 DEF Recent
<1>7. Retained(new, cfg.days, now)
  <2>1. config.days \in Nat /\ new.at = now
    BY <1>1 DEF AnyConfig, new
  <2> QED
    BY <1>0, <1>4, <2>1 DEF Retained
<1>8. \A e \in due' : e \in due /\ Recent(e, made')
  BY <1>0, <1>5 DEF DueInv
<1>9. \A e \in due' \cup {new} : e \in Ran(cfg.events) /\ Retained(e, cfg.days, now)
  BY <1>1, <1>2, <1>4, <1>6, <1>7, <1>8 DEF Keeps, DueInv
<1>10. due' \subseteq due /\ made' \in Nat /\ made <= made' /\ new = [id |-> made', at |-> now]
  BY <1>0 DEF new
<1> HIDE DEF cfg
<1>11. Keeps(cfg, due', now) /\ Keeps(cfg, due' \cup {[id |-> made', at |-> now]}, now)
  BY <1>9, <1>10 DEF Keeps
<1> QED
  BY <1>0, <1>4, <1>5, <1>10, <1>11, WriteBegins

\* save_app_settings_safe: what the new retention still covers survives its pruning.
LEMMA SettingsStep ==
  ASSUME HistoryInv, NEW days \in RetentionDays, SaveDays(days)
  PROVE  HistoryTypeOK' /\ DueInv' /\ LogsInv' /\ KeptInv'
<1> DEFINE changed == [config EXCEPT !.days = days]
           cfg == Pruned(changed)
<1>0. /\ Write("settings", cfg) /\ made' = made /\ due' = due /\ undo' = config /\ made \in Nat
      /\ pc = "idle" /\ undo = Missing /\ now' = now
  BY DEF SaveDays, HistoryInv, HistoryTypeOK, Write, Persist
<1>1. /\ config \in Configs /\ config \in AnyConfig /\ LogOK(config.events, made)
      /\ Keeps(config, due, now) /\ DueInv
  BY <1>0, Trust, ConfigType DEF HistoryInv
<1>2. changed \in AnyConfig /\ changed.events = config.events /\ changed.days = days
  BY <1>1, HistoryAssumption DEF AnyConfig
<1> HIDE DEF changed
<1>3. /\ cfg.days = days /\ LogOK(cfg.events, made)
      /\ \A e \in Ran(config.events) :
           Recent(e, made) /\ Retained(e, days, now) => e \in Ran(cfg.events)
  BY <1>0, <1>1, <1>2, PrunedKeeps
<1> HIDE DEF cfg
<1>4. DueInv'
  BY <1>0, <1>1 DEF DueInv
<1>5. Keeps(cfg, {e \in due' : Retained(e, cfg.days, now)}, now) /\ Keeps(config, due', now)
  BY <1>0, <1>1, <1>3 DEF Keeps, DueInv
<1> QED
  BY <1>0, <1>3, <1>4, <1>5, WriteBegins

\* import_app_config_safe: nothing is due of the new log; the old one comes back with
\* the rollback.
LEMMA ImportStep ==
  ASSUME HistoryInv, NEW file \in Imports, Import(file)
  PROVE  HistoryTypeOK' /\ DueInv' /\ LogsInv' /\ KeptInv'
<1> DEFINE cfg == Normalized(file)
<1>0. /\ Write("import", cfg) /\ made' = made /\ due' = due /\ undo' = config /\ made \in Nat
      /\ pc = "idle" /\ undo = Missing /\ now' = now
  BY DEF Import, HistoryInv, HistoryTypeOK, Write, Persist
<1>1. Keeps(config, due, now) /\ DueInv
  BY <1>0, Trust DEF HistoryInv
<1>2. file \in AnyConfig /\ LogOK(file.events, made)
  <2>1. file \in AnyConfig /\ file.events \in Seq(Event)
    BY ConfigType
  <2>2. \A i \in DOMAIN file.events : file.events[i].id = 0
    BY LogAssumption DEF Ran
  <2> QED
    BY <1>0, <2>1, <2>2 DEF LogOK, Spread, Ran
<1>3. LogOK(cfg.events, made)
  BY <1>0, <1>2, PrunedKeeps DEF Normalized
<1> HIDE DEF cfg
<1>4. DueInv'
  BY <1>0, <1>1 DEF DueInv
<1>5. Keeps(cfg, {}, now) /\ Keeps(config, due', now)
  BY <1>0, <1>1 DEF Keeps
<1> QED
  BY <1>0, <1>3, <1>4, <1>5, WriteBegins

\* with_config_rollback: memory is the snapshot again, and so is what is written.
LEMMA RollbackStep ==
  ASSUME HistoryInv, Rollback
  PROVE  HistoryTypeOK' /\ DueInv' /\ LogsInv' /\ KeptInv'
<1>0. /\ pc = "idle" /\ pc' = "create" /\ undo # Missing /\ undo' = Missing /\ config' = undo
      /\ writer' = "rollback" /\ answer' = "none" /\ now' = now /\ made' = made /\ due' = due
      /\ primary' = primary /\ backup' = backup
  BY DEF Rollback, Persist, files
<1>1. HistoryTypeOK'
  BY <1>0 DEF HistoryInv, HistoryTypeOK, WritePCs
<1>2. DueInv' /\ LogsInv'
  BY <1>0, FileAssumption DEF HistoryInv, DueInv, LogsInv
<1>3. KeptInv'
  <2>1. /\ Keeps(Load(primary, backup), due, now) /\ Keeps(undo, due, now)
        /\ due # {} => Load(primary, backup).days = undo.days
    BY <1>0 DEF HistoryInv, KeptInv, Trusted
  <2>2. Trusted' = undo /\ DueAfter' = due
    BY <1>0 DEF Trusted, DueAfter
  <2> QED
    BY <1>0, <2>1, <2>2 DEF KeptInv
<1> QED
  BY <1>1, <1>2, <1>3

\* The steps of a write: until it is over the files say what they said.
LEMMA WritingStep ==
  ASSUME HistoryInv, WriteStep
  PROVE  HistoryTypeOK' /\ DueInv' /\ LogsInv' /\ KeptInv'
<1>0. /\ FileInv /\ HistoryTypeOK /\ now' = now /\ made' = made /\ config' = config
      /\ pc \in WritePCs /\ config \in Configs /\ Keeps(config, DueAfter, now)
  BY WriteEffect DEF HistoryInv, WriteStep, FileInv, TypeOK, KeptInv
<1>1. CASE answer' = "ok"
  <2>1. /\ pc' = "idle" /\ primary' = config /\ backup' = backup
        /\ undo' = Missing /\ due' = DueAfter
    BY <1>0, <1>1, WriteEffect DEF WriteStep
  <2>2. HistoryTypeOK'
    BY <1>0, <2>1 DEF HistoryTypeOK, WritePCs
  <2>3. DueInv'
    <3>1. [id |-> made, at |-> now] \in Event /\ [id |-> made, at |-> now].id = made
      BY <1>0 DEF HistoryTypeOK, Event
    <3>2. \A e \in DueAfter : e \in due \/ (writer = "record" /\ e = [id |-> made, at |-> now])
      BY <1>0 DEF DueAfter, HistoryTypeOK
    <3>3. writer = "record" => made \in Nat \ {0}
      BY <1>0 DEF HistoryTypeOK
    <3> QED
      BY <1>0, <2>1, <3>1, <3>2, <3>3, HistoryAssumption
         DEF DueInv, HistoryInv, HistoryTypeOK, Recent
  <2>4. LogsInv'
    BY <1>0, <2>1, FileAssumption DEF HistoryInv, LogsInv
  <2>5. KeptInv'
    <3>1. Load(primary', backup') = config /\ Trusted' = config
      BY <1>0, <2>1 DEF Load, Readable, Trusted
    <3> QED
      BY <1>0, <2>1, <3>1 DEF KeptInv, WritePCs
  <2> QED
    BY <2>2, <2>3, <2>4, <2>5
<1>2. CASE answer' # "ok"
  <2>1. /\ Load(primary', backup') = Load(primary, backup)
        /\ {primary', backup'} \subseteq {primary, backup, Missing}
        /\ pc' \in WritePCs \cup {"idle"} /\ undo' = undo /\ due' = due
        /\ pc' \in WritePCs => answer' = "none" /\ writer' = writer
    BY <1>0, <1>2, WriteEffect DEF WriteStep, WritePCs
  <2>2. HistoryTypeOK'
    BY <1>0, <2>1 DEF HistoryTypeOK, WritePCs
  <2>3. DueInv' /\ LogsInv'
    BY <1>0, <2>1, FileAssumption DEF HistoryInv, DueInv, LogsInv
  <2>4. KeptInv'
    <3>1. Trusted' = Trusted /\ pc # "down" /\ pc' # "down"
      BY <1>0, <2>1 DEF Trusted, WritePCs
    <3>2. pc' \in WritePCs => DueAfter' = DueAfter
      BY <1>0, <2>1 DEF DueAfter
    <3> QED
      BY <1>0, <2>1, <3>1, <3>2 DEF HistoryInv, KeptInv
  <2> QED
    BY <2>2, <2>3, <2>4
<1> QED
  BY <1>1, <1>2

\* A start reads what the files hold, a crash loses only memory.
LEMMA RestartStep ==
  ASSUME HistoryInv, StartOrCrash
  PROVE  HistoryTypeOK' /\ DueInv' /\ LogsInv' /\ KeptInv'
<1>0. /\ undo' = Missing /\ now' = now /\ made' = made /\ due' = due
      /\ primary' = primary /\ backup' = backup
      /\ \/ pc' = "idle" /\ config' = Load(primary, backup)
         \/ pc' = "down" /\ config' = config
  BY DEF StartOrCrash, Start, Crash, files
<1>1. HistoryTypeOK'
  BY <1>0 DEF HistoryInv, HistoryTypeOK, WritePCs
<1>2. DueInv'
  BY <1>0 DEF HistoryInv, DueInv
<1>3. LogOK(Default.events, made)
  <2>1. \A i \in DOMAIN Default.events : Default.events[i].id = 0
    BY LogAssumption DEF Ran
  <2> QED
    BY <2>1 DEF LogOK, Spread, Ran, HistoryInv, HistoryTypeOK
<1>4. LogsInv'
  BY <1>0, <1>3, FileAssumption DEF HistoryInv, LogsInv, Load, Readable
<1>5. KeptInv'
  <2>1. pc' = "idle" => Trusted' = Load(primary, backup)
    BY <1>0 DEF Trusted
  <2> QED
    BY <1>0, <2>1 DEF HistoryInv, KeptInv, WritePCs
<1> QED
  BY <1>1, <1>2, <1>4, <1>5

\* With the main file the last write may be lost, and nothing is due.
LEMMA DamageStep ==
  ASSUME HistoryInv, FileDamaged
  PROVE  HistoryTypeOK' /\ DueInv' /\ LogsInv' /\ KeptInv'
<1>0. /\ undo' = undo /\ now' = now /\ made' = made /\ due' = {} /\ pc' = pc /\ config' = config
      /\ writer' = writer /\ answer' = answer /\ pc \in {"down", "idle"}
      /\ primary' \in {Unusable, Missing} /\ backup' = backup
  BY DEF FileDamaged, Damage
<1>1. HistoryTypeOK' /\ DueInv'
  BY <1>0 DEF HistoryInv, HistoryTypeOK, DueInv, WritePCs
<1>2. LogsInv'
  BY <1>0, FileAssumption DEF HistoryInv, LogsInv
<1>3. KeptInv'
  BY <1>0 DEF KeptInv, Keeps, WritePCs
<1> QED
  BY <1>1, <1>2, <1>3

\* Days pass: what is no longer retained is no longer due.
LEMMA ClockStep ==
  ASSUME HistoryInv, Clock
  PROVE  HistoryTypeOK' /\ DueInv' /\ LogsInv' /\ KeptInv'
<1> DEFINE current == IF pc = "down" THEN Load(primary, backup) ELSE config
<1>0. /\ undo' = undo /\ made' = made /\ pc' = pc /\ config' = config /\ undo = Missing
      /\ writer' = writer /\ answer' = answer /\ pc \in {"down", "idle"}
      /\ primary' = primary /\ backup' = backup /\ now' \in Nat
      /\ due' = {e \in due : Retained(e, current.days, now')}
  BY HistoryAssumption DEF Clock, fileVars, files, Times
<1>1. HistoryTypeOK' /\ DueInv'
  BY <1>0 DEF HistoryInv, HistoryTypeOK, DueInv
<1>2. LogsInv'
  BY <1>0 DEF HistoryInv, LogsInv
<1>3. KeptInv'
  <2>1. /\ Keeps(Load(primary, backup), due, now)
        /\ pc # "down" => Keeps(config, due, now)
        /\ pc # "down" /\ due # {} => Load(primary, backup).days = config.days
    BY <1>0 DEF HistoryInv, KeptInv, Trusted
  <2>2. due # {} => Load(primary, backup).days = current.days
    BY <1>0, <2>1
  <2>3. Keeps(Load(primary, backup), due', now')
    BY <1>0, <2>1, <2>2 DEF Keeps
  <2>4. pc # "down" => Keeps(config, due', now')
    BY <1>0, <2>1 DEF Keeps
  <2>5. Trusted' = config
    BY <1>0 DEF Trusted
  <2> QED
    BY <1>0, <2>1, <2>3, <2>4, <2>5 DEF KeptInv, WritePCs
<1> QED
  BY <1>1, <1>2, <1>3

\* Every step of the history keeps its invariant.
LEMMA HistoryKeepsInv ==
  HistoryInv /\ [HistoryNext]_<<fileVars, historyVars>> => HistoryInv'
<1> SUFFICES ASSUME HistoryInv, [HistoryNext]_<<fileVars, historyVars>> PROVE HistoryInv'
  OBVIOUS
<1>1. FileInv'
  BY FileStep, HistoryStep DEF HistoryInv
<1>2. CASE UNCHANGED <<fileVars, historyVars>>
  BY <1>2 DEF HistoryInv, fileVars, files, historyVars, FileInv, TypeOK, HistoryTypeOK, DueInv,
     LogsInv, KeptInv, Trusted, DueAfter
<1>3. CASE HistoryNext
  BY <1>1, <1>3, RecordStep, SettingsStep, ImportStep, RollbackStep, WritingStep, RestartStep,
     DamageStep, ClockStep DEF HistoryInv, HistoryNext
<1> QED
  BY <1>2, <1>3

\* What is due is on the disk, in memory and in every write under way, in logs that are
\* in order: for every maximum, retention and imported file, through failed writes,
\* rollbacks, crashes, a damaged file and a clock that is set.
THEOREM HistoryInvariant == HistorySpec => []HistoryInv
BY HistoryStart, HistoryKeepsInv, PTL DEF HistorySpec

\* An event whose record was written is listed (list_audit_events_safe) until it is too
\* old or MAX_AUDIT_EVENTS newer ones were recorded, in the running program and after a
\* restart.
THEOREM EventsAreListed == HistorySpec => []WrittenEventsAreListed
<1>1. HistoryInv => WrittenEventsAreListed
  <2> SUFFICES ASSUME HistoryInv PROVE WrittenEventsAreListed
    OBVIOUS
  <2>1. due \subseteq Shown(Load(primary, backup))
    <3>1. LogOK(Default.events, made)
      <4>1. \A i \in DOMAIN Default.events : Default.events[i].id = 0
        BY LogAssumption DEF Ran
      <4> QED
        BY <4>1 DEF LogOK, Spread, Ran, HistoryInv, HistoryTypeOK
    <3>2. Load(primary, backup) \in Configs /\ LogOK(Load(primary, backup).events, made)
      BY <3>1, LoadType DEF HistoryInv, LogsInv, Load, Readable
    <3> QED
      BY <3>2, ShownIsKept DEF HistoryInv, HistoryTypeOK, KeptInv
  <2>2. pc # "down" /\ undo = Missing => due \subseteq Shown(config)
    BY ShownIsKept DEF HistoryInv, HistoryTypeOK, KeptInv, Trusted, LogsInv, FileInv, TypeOK
  <2> QED
    BY <2>1, <2>2 DEF WrittenEventsAreListed
<1> QED
  BY <1>1, HistoryInvariant, PTL

-----------------------------------------------------------------------------
(* The project page.                                                       *)

\* Types.
CallOK(c, m) ==
  /\ c.mount \in 1 .. m
  /\ c.op \in {"startup", "list", "start", "stop", "remove"}
  /\ c.op \in {"start", "remove"} => c.arg \in Profiles
  /\ c.op = "stop" => c.arg \in Sessions

IsList(a) == a.call.op \in {"startup", "list"}
IsStart(a) == a.call.op = "start"
IsCurrent(a) == a.call.mount = mount

AnswerOK(a, m) ==
  /\ CallOK(a.call, m)
  /\ IsList(a) => /\ a.said.list \in [Sessions -> {"none"} \cup Active]
                  /\ a.said.lasts \in LastsOf(a.said.list)
  /\ a.call.op \in {"start", "stop"} => a.said \in Sessions
  /\ a.call.op = "remove" => a.said \in Profiles

WireOK ==
  /\ calls \in Seq(Ran(calls)) /\ \A i \in DOMAIN calls : CallOK(calls[i], mount)
  /\ answers \in Seq(Ran(answers)) /\ \A i \in DOMAIN answers : AnswerOK(answers[i], mount)

PageTypeOK ==
  /\ Runner!TypeOK
  /\ announced \subseteq Sessions /\ profiles \subseteq Profiles
  /\ mount \in Nat \ {0}
  /\ sessionsById \in [Sessions -> {"none"} \cup Active \cup Terminal]
  /\ lastSession \in [Profiles -> Sessions \cup {NoSession}]
  /\ pending \in Seq(Sessions \X Terminal)
  /\ asked \subseteq Profiles \X (1 .. mount)
  /\ stops \subseteq Sessions \X (1 .. mount)
  /\ heard \subseteq announced /\ told \subseteq Sessions

\* The sessions an answer names.
NamedBy(a) ==
  IF IsList(a) THEN Names(a.said.list) ELSE IF IsStart(a) THEN {a.said} ELSE {}

OwnersInv ==
  /\ \A p \in Profiles : owner[p] # NoSession =>
       ProfileOf[owner[p]] = p /\ life[owner[p]] \in Active /\ p \in profiles
  /\ \A s \in announced : life[s] \in Terminal \cup {"gone"}
  /\ \A i \in DOMAIN answers :
       answers[i].call.op = "remove" => answers[i].said \notin profiles

\* Nothing speaks of a session that was not registered.
SeenInv ==
  /\ \A s \in told : life[s] # "absent"
  /\ \A i \in DOMAIN answers : \A s \in NamedBy(answers[i]) : life[s] # "absent"

Unheard(t, S) == t \notin S /\ owner[ProfileOf[t]] \notin S

StartsInv ==
  \A j \in DOMAIN answers : IsStart(answers[j]) =>
    LET t == answers[j].said IN
    /\ Unheard(t, told)
    /\ \A i \in DOMAIN answers : i < j => Unheard(t, NamedBy(answers[i]))

StartupInv ==
  /\ \A j \in DOMAIN answers : answers[j].call.op = "startup" /\ IsCurrent(answers[j]) =>
       told = {} /\ \A i \in DOMAIN answers : i < j => ~IsCurrent(answers[i])
  /\ \A j \in DOMAIN calls : calls[j].op = "startup" /\ calls[j].mount = mount =>
       /\ told = {}
       /\ \A i \in DOMAIN answers : ~IsCurrent(answers[i])
       /\ \A i \in DOMAIN calls : i < j => calls[i].mount # mount

LastInv ==
  \A p \in Profiles : lastSession[p] # NoSession =>
    lastSession[p] \in told /\ ProfileOf[lastSession[p]] = p

PendingInv ==
  /\ IsFiniteSet(heard)
  /\ Len(pending) <= Cardinality(heard)
  /\ \A e \in Ran(pending) : e[1] \in announced

\* The lists on their way name who was heard of only if it is noted.
ListsInv ==
  \A i \in DOMAIN answers : IsList(answers[i]) /\ IsCurrent(answers[i]) =>
    heard \cap Names(answers[i].said.list) \subseteq crossed

\* Who was heard of is not shown active, nor will it be by the answer of its start,
\* for the event is still remembered then.
EndedInv ==
  Cardinality(heard) <= MaxPending =>
    \A s \in heard :
      /\ s \in crossed \/ sessionsById[s] \notin Active
      /\ \A i \in DOMAIN answers :
           IsStart(answers[i]) /\ IsCurrent(answers[i]) /\ answers[i].said = s => Ended(s) # {}

PageInv ==
  PageTypeOK /\ WireOK /\ OwnersInv /\ SeenInv /\ StartsInv /\ StartupInv /\ LastInv
    /\ PendingInv /\ ListsInv /\ EndedInv /\ RunningStaysShown
-----------------------------------------------------------------------------

\* The first element of a queue is taken off.
LEMMA Shorter ==
  ASSUME NEW q, q \in Seq(Ran(q)), q # <<>>
  PROVE  LET t == Tail(q) IN
         /\ t \in Seq(Ran(t))
         /\ DOMAIN t = 1 .. Len(q) - 1
         /\ \A i \in DOMAIN t : i + 1 \in DOMAIN q /\ t[i] = q[i + 1]
         /\ Head(q) = q[1] /\ 1 \in DOMAIN q
         /\ DOMAIN q = 1 .. Len(q) /\ Len(q) \in Nat
<1> DEFINE t == Tail(q)
<1>1. /\ t \in Seq(Ran(q)) /\ Len(t) = Len(q) - 1
      /\ \A i \in 1 .. Len(q) - 1 : t[i] = q[i + 1]
      /\ DOMAIN q = 1 .. Len(q) /\ Len(q) \in Nat /\ Len(q) # 0
  BY HeadTailProperties, LenProperties, EmptySeq
<1>2. DOMAIN t = 1 .. Len(q) - 1 /\ t \in [1 .. Len(q) - 1 -> Ran(q)]
  BY <1>1, LenProperties
<1>3. t \in Seq(Ran(t))
  <2>1. t \in [1 .. Len(q) - 1 -> Ran(t)]
    BY <1>1, <1>2 DEF Ran
  <2>2. Seq(Ran(t)) = UNION {[1 .. n -> Ran(t)] : n \in Nat}
    BY SeqDef
  <2>3. Len(q) - 1 \in Nat
    BY <1>1
  <2> HIDE DEF t
  <2> QED
    BY <2>1, <2>2, <2>3
<1>4. Head(q) = q[1]
  OBVIOUS
<1> QED
  BY <1>1, <1>2, <1>3, <1>4

\* An element is put at the end.
LEMMA Longer ==
  ASSUME NEW q, q \in Seq(Ran(q)), NEW x
  PROVE  LET a == Append(q, x) IN
         /\ a \in Seq(Ran(a)) /\ a # <<>>
         /\ DOMAIN a = 1 .. Len(q) + 1
         /\ \A i \in DOMAIN q : a[i] = q[i]
         /\ a[Len(q) + 1] = x
         /\ DOMAIN q = 1 .. Len(q) /\ Len(q) \in Nat
         /\ \A i \in DOMAIN a : i \in DOMAIN q \/ i = Len(q) + 1
<1> DEFINE S == Ran(q) \cup {x}
           a == Append(q, x)
<1>1. q \in Seq(S)
  BY SeqMonotonic
<1>2. /\ a \in Seq(S) /\ Len(a) = Len(q) + 1
      /\ \A i \in 1 .. Len(q) : a[i] = q[i]
      /\ a[Len(q) + 1] = x
      /\ DOMAIN q = 1 .. Len(q) /\ Len(q) \in Nat
  BY <1>1, AppendProperties, LenProperties
<1>3. DOMAIN a = 1 .. Len(q) + 1 /\ a \in [1 .. Len(q) + 1 -> S]
  BY <1>2, LenProperties
<1>4. a \in Seq(Ran(a))
  <2>1. a \in [1 .. Len(q) + 1 -> Ran(a)]
    BY <1>2, <1>3 DEF Ran
  <2>2. Seq(Ran(a)) = UNION {[1 .. n -> Ran(a)] : n \in Nat}
    BY SeqDef
  <2>3. Len(q) + 1 \in Nat
    BY <1>2
  <2> HIDE DEF a
  <2> QED
    BY <2>1, <2>2, <2>3
<1>5. a # <<>>
  BY <1>2, EmptySeq
<1> HIDE DEF a
<1>6. \A i \in 1 .. Len(q) + 1 : i \in 1 .. Len(q) \/ i = Len(q) + 1
  BY <1>2
<1> QED
  BY <1>2, <1>3, <1>4, <1>5, <1>6 DEF a

-----------------------------------------------------------------------------

\* What a step that is not of the wire, of a new mount or a received event may do.
Plain ==
  /\ UNCHANGED <<answers, told, mount, tableVars, heard, crossed, profiles>>
  /\ \/ UNCHANGED calls
     \/ \E c : CallOK(c, mount) /\ c.op # "startup" /\ calls' = Append(calls, c)
  /\ announced \subseteq announced'
  /\ \A s \in announced' \ announced : s \in Sessions /\ life[s] \in Terminal \cup {"gone"}

\* Every other step is plain.
LEMMA Steps ==
  ASSUME PageTypeOK, [Next]_vars
  PROVE  Plain \/ Remount \/ Run \/ Take \/ \E s \in Sessions : EventArrives(s)
<1> USE DEF Plain
<1>1. CASE UNCHANGED vars
  BY <1>1 DEF vars, runnerVars, wireVars, tableVars, mountVars, history
<1>2. ASSUME NEW s \in Sessions, SessionReleases(s) \/ SessionFinishes(s) \/ SessionForgotten(s)
      PROVE  Plain
  BY <1>2 DEF SessionReleases, SessionFinishes, SessionForgotten, RunnerOnly, wireVars, tableVars,
              mountVars, history
<1>3. ASSUME NEW s \in Sessions, AskStop(s) \/ EventMissed(s)
      PROVE  Plain
  BY <1>3 DEF AskStop, EventMissed, runnerVars, wireVars, tableVars, mountVars, history
<1>4. ASSUME NEW p \in Profiles, AskStart(p)
      PROVE  Plain
  BY <1>4 DEF AskStart, runnerVars, wireVars, tableVars, mountVars, history
<1>5. ASSUME NEW p \in Profiles, AskRemove(p)
      PROVE  Plain
  <2>1. CallOK(Call("remove", p, mount), mount)
    BY DEF PageTypeOK, CallOK, Call
  <2>2. Call("remove", p, mount).op # "startup"
    BY DEF Call
  <2> QED
    BY <1>5, <2>1, <2>2 DEF AskRemove, runnerVars, tableVars, mountVars, history
<1>6. ASSUME NEW p \in Profiles, NEW m, Confirm(p, m)
      PROVE  Plain
  <2>1. CallOK(Call("start", p, m), mount) /\ Call("start", p, m).op # "startup"
    BY <1>6 DEF PageTypeOK, CallOK, Call, Confirm
  <2> QED
    BY <1>6, <2>1 DEF Confirm, runnerVars, tableVars, mountVars, history
<1>7. ASSUME NEW s \in Sessions, NEW m, CallStop(s, m)
      PROVE  Plain
  <2>1. CallOK(Call("stop", s, m), mount) /\ Call("stop", s, m).op # "startup"
    BY <1>7 DEF PageTypeOK, CallOK, Call, CallStop
  <2> QED
    BY <1>7, <2>1 DEF CallStop, runnerVars, tableVars, mountVars, history
<1>8. CASE Listen
  BY <1>8 DEF Listen, runnerVars, wireVars, tableVars, history
<1> QED
  BY <1>1, <1>2, <1>3, <1>4, <1>5, <1>6, <1>7, <1>8 DEF Next, Announce

\* What the answer to a call says when it is run.
Says(c, said) ==
  /\ c.op \in {"startup", "list"} =>
       said.list = ActiveList /\ said.lasts \in LastsOf(ActiveList) /\ UNCHANGED <<life, owner>>
  /\ c.op = "start" => said \in Sessions /\ Runner!Register(said)
  /\ c.op = "stop" => said \in Sessions
  /\ c.op = "remove" => said = c.arg /\ said \notin profiles'

\* The call at the head of the queue.
LEMMA FirstCall ==
  ASSUME WireOK, calls # <<>>
  PROVE  /\ CallOK(Head(calls), mount) /\ Head(calls) = calls[1] /\ 1 \in DOMAIN calls
BY Shorter DEF WireOK

\* What running it does.
LEMMA RunEffect ==
  ASSUME WireOK, Run
  PROVE  /\ calls # <<>> /\ calls' = Tail(calls)
         /\ UNCHANGED <<tableVars, userVars, mountVars, history, announced>>
         /\ \/ UNCHANGED answers
            \/ \E said : /\ Says(Head(calls), said)
                         /\ answers' = Append(answers, [call |-> Head(calls), said |-> said])
<1> DEFINE Effect ==
             \/ UNCHANGED answers
             \/ \E said : /\ Says(Head(calls), said)
                          /\ answers' = Append(answers, [call |-> Head(calls), said |-> said])
<1>0. /\ calls # <<>> /\ calls' = Tail(calls)
      /\ UNCHANGED <<tableVars, userVars, mountVars, history, announced>>
  BY DEF Run, RunList, RunStart, RunStop, RunRemove, IsNext, Answered, Refused, runnerVars
<1>00. CallOK(Head(calls), mount)
  BY <1>0, FirstCall
<1>1. CASE RunList
  <2>1. PICK lasts \in LastsOf(ActiveList) : Answered([list |-> ActiveList, lasts |-> lasts])
    BY <1>1 DEF RunList
  <2>2. Says(Head(calls), [list |-> ActiveList, lasts |-> lasts])
    BY <1>1 DEF RunList, IsNext, Says, runnerVars
  <2> QED
    BY <1>0, <2>1, <2>2 DEF Answered
<1>2. CASE RunStart
  <2>1. CASE Refused
    BY <1>0, <2>1 DEF Refused
  <2>2. ASSUME NEW s \in Sessions, Runner!Register(s), Answered(s)
        PROVE  Effect
    <3>1. Says(Head(calls), s)
      BY <1>2, <2>2 DEF RunStart, IsNext, Says
    <3> QED
      BY <2>2, <3>1 DEF Answered
  <2> QED
    BY <1>0, <1>2, <2>1, <2>2 DEF RunStart
<1>3. CASE RunStop
  <2>1. Head(calls).op = "stop" /\ Head(calls).arg \in Sessions
    BY <1>00, <1>3 DEF RunStop, IsNext, CallOK
  <2>2. CASE Refused
    BY <1>0, <2>2 DEF Refused
  <2>3. CASE Answered(Head(calls).arg)
    <3>1. Says(Head(calls), Head(calls).arg)
      BY <2>1 DEF Says
    <3> QED
      BY <1>0, <2>3, <3>1 DEF Answered
  <2> QED
    BY <1>3, <2>2, <2>3 DEF RunStop
<1>4. CASE RunRemove
  <2>1. CASE Refused
    BY <1>0, <2>1 DEF Refused
  <2>2. CASE Answered(Head(calls).arg) /\ profiles' = profiles \ {Head(calls).arg}
    <3>1. Says(Head(calls), Head(calls).arg)
      BY <1>4, <2>2 DEF RunRemove, IsNext, Says
    <3> QED
      BY <1>0, <2>2, <3>1 DEF Answered
  <2> QED
    BY <1>4, <2>1, <2>2 DEF RunRemove
<1> QED
  BY <1>0, <1>1, <1>2, <1>3, <1>4 DEF Run

\* What taking an answer leaves alone.
LEMMA TakeEffect ==
  ASSUME Take
  PROVE  /\ answers # <<>> /\ answers' = Tail(answers)
         /\ UNCHANGED <<runnerVars, calls, userVars, mountVars, heard, missed, crossed>>
BY DEF Take, TakeStartup, TakeList, TakeStarted, TakeStopped, TakeRemoved, TakeStale, Arrives, Taken

\* The steps of the runner.
LEMMA RunnerSteps ==
  ASSUME WireOK, [Next]_vars
  PROVE  \/ UNCHANGED <<life, owner>>
         \/ \E s \in Sessions :
              /\ profiles' = profiles
              /\ \/ Runner!Release(s) \/ Runner!Finish(s) \/ Runner!Forget({s})
                 \/ Runner!RequestStop(s)
                 \/ Runner!Register(s) /\ ProfileOf[s] \in profiles
<1>1. CASE UNCHANGED vars
  BY <1>1 DEF vars, runnerVars
<1>2. ASSUME NEW s \in Sessions, SessionReleases(s) \/ SessionFinishes(s) \/ SessionForgotten(s)
      PROVE  /\ profiles' = profiles
             /\ Runner!Release(s) \/ Runner!Finish(s) \/ Runner!Forget({s})
  BY <1>2 DEF SessionReleases, SessionFinishes, SessionForgotten, RunnerOnly
<1>3. CASE RunStart
  BY <1>3 DEF RunStart
<1>4. CASE RunStop
  <2>1. Head(calls).arg \in Sessions
    BY <1>4, FirstCall DEF RunStop, IsNext, CallOK
  <2> QED
    BY <1>4, <2>1 DEF RunStop
<1>5. CASE RunList \/ RunRemove \/ Take \/ Remount \/ Listen
  BY <1>5, TakeEffect DEF RunList, RunRemove, Remount, Listen, runnerVars
<1>6. ASSUME NEW s \in Sessions, AskStop(s) \/ Announce(s)
      PROVE  UNCHANGED <<life, owner>>
  BY <1>6 DEF AskStop, Announce, EventArrives, EventMissed, runnerVars
<1>7. ASSUME NEW p \in Profiles, AskStart(p) \/ AskRemove(p)
      PROVE  UNCHANGED <<life, owner>>
  BY <1>7 DEF AskStart, AskRemove, runnerVars
<1>8. ASSUME NEW x, NEW m, Confirm(x, m) \/ CallStop(x, m)
      PROVE  UNCHANGED <<life, owner>>
  BY <1>8 DEF Confirm, CallStop, runnerVars
<1> QED
  BY <1>1, <1>2, <1>3, <1>4, <1>5, <1>6, <1>7, <1>8 DEF Next, Run

\* How sessions and their profiles change in a step: a session does not come back,
\* it is not ended while it owns its profile, and who begins to own one is new.
LEMMA RunnerMoves ==
  ASSUME PageTypeOK, WireOK, OwnersInv, [Next]_vars
  PROVE  /\ Runner!TypeOK'
         /\ \A s \in Sessions :
              /\ life[s] # "absent" => life'[s] # "absent"
              /\ life[s] \in Terminal \cup {"gone"} => life'[s] \in Terminal \cup {"gone"}
         /\ \A p \in Profiles :
              \/ /\ owner'[p] = owner[p]
                 /\ owner[p] # NoSession => life'[owner[p]] \in Active
              \/ owner'[p] = NoSession
              \/ /\ owner'[p] \in Sessions /\ life[owner'[p]] = "absent"
                 /\ life'[owner'[p]] = "running" /\ ProfileOf[owner'[p]] = p
                 /\ p \in profiles /\ profiles' = profiles
<1> USE PageAssumption DEF Active, Terminal, Runner!Active, Runner!Terminal, Runner!TypeOK
<1>0. Runner!TypeOK /\ \A p \in Profiles : owner[p] # NoSession =>
        ProfileOf[owner[p]] = p /\ life[owner[p]] \in Active /\ p \in profiles
  BY DEF PageTypeOK, OwnersInv
<1>1. CASE UNCHANGED <<life, owner>>
  BY <1>0, <1>1
<1>2. ASSUME NEW s \in Sessions, Runner!Release(s)
      PROVE  /\ Runner!TypeOK' /\ life' = life
             /\ \A p \in Profiles : owner'[p] = owner[p] \/ owner'[p] = NoSession
  BY <1>0, <1>2 DEF Runner!Release
<1>3. ASSUME NEW s \in Sessions, Runner!Finish(s)
      PROVE  /\ Runner!TypeOK' /\ owner' = owner /\ life[s] \in Active /\ life'[s] \in Terminal
             /\ owner[ProfileOf[s]] # s
             /\ \A t \in Sessions : t # s => life'[t] = life[t]
  BY <1>0, <1>3 DEF Runner!Finish
<1>4. ASSUME NEW s \in Sessions, Runner!Forget({s})
      PROVE  /\ Runner!TypeOK' /\ owner' = owner /\ life[s] \in Terminal /\ life'[s] = "gone"
             /\ \A t \in Sessions : t # s => life'[t] = life[t]
  BY <1>0, <1>4 DEF Runner!Forget
<1>5. ASSUME NEW s \in Sessions, Runner!RequestStop(s)
      PROVE  /\ Runner!TypeOK' /\ owner' = owner /\ life[s] = "running" /\ life'[s] = "stopping"
             /\ \A t \in Sessions : t # s => life'[t] = life[t]
  BY <1>0, <1>5 DEF Runner!RequestStop
<1>6. ASSUME NEW s \in Sessions, Runner!Register(s)
      PROVE  /\ Runner!TypeOK' /\ life[s] = "absent" /\ life'[s] = "running"
             /\ owner'[ProfileOf[s]] = s /\ ProfileOf[s] \in Profiles
             /\ \A t \in Sessions : t # s => life'[t] = life[t]
             /\ \A p \in Profiles : p # ProfileOf[s] => owner'[p] = owner[p]
  BY <1>0, <1>6 DEF Runner!Register
<1>7. ASSUME NEW s \in Sessions, Runner!Register(s), ProfileOf[s] \in profiles, profiles' = profiles
      PROVE  \A p \in Profiles :
               \/ /\ owner'[p] = owner[p]
                  /\ owner[p] # NoSession => life'[owner[p]] \in Active
               \/ /\ owner'[p] \in Sessions /\ life[owner'[p]] = "absent"
                  /\ life'[owner'[p]] = "running" /\ ProfileOf[owner'[p]] = p
                  /\ p \in profiles
  BY <1>0, <1>6, <1>7
<1>8. Runner!TypeOK'
  BY <1>1, <1>2, <1>3, <1>4, <1>5, <1>6, <1>0, RunnerSteps
<1>9. ASSUME NEW s \in Sessions
      PROVE  /\ life[s] # "absent" => life'[s] # "absent"
             /\ life[s] \in Terminal \cup {"gone"} => life'[s] \in Terminal \cup {"gone"}
  BY <1>1, <1>2, <1>3, <1>4, <1>5, <1>6, RunnerSteps
<1>10. ASSUME NEW p \in Profiles
       PROVE  \/ /\ owner'[p] = owner[p]
                 /\ owner[p] # NoSession => life'[owner[p]] \in Active
              \/ owner'[p] = NoSession
              \/ /\ owner'[p] \in Sessions /\ life[owner'[p]] = "absent"
                 /\ life'[owner'[p]] = "running" /\ ProfileOf[owner'[p]] = p
                 /\ p \in profiles /\ profiles' = profiles
  <2>1. CASE UNCHANGED <<life, owner>>
    BY <1>0, <2>1
  <2>0. owner[p] # NoSession =>
          ProfileOf[owner[p]] = p /\ life[owner[p]] \in Active /\ owner[p] \in Sessions
    BY <1>0
  <2>2. CASE ~UNCHANGED <<life, owner>>
    <3>1. PICK s \in Sessions :
                /\ profiles' = profiles
                /\ \/ Runner!Release(s) \/ Runner!Finish(s) \/ Runner!Forget({s})
                   \/ Runner!RequestStop(s)
                   \/ Runner!Register(s) /\ ProfileOf[s] \in profiles
      BY <2>2, RunnerSteps
    <3>3. CASE Runner!Release(s)
      BY <1>2, <3>3, <2>0
    <3>4. CASE Runner!Finish(s)
      BY <1>3, <3>4, <2>0
    <3>5. CASE Runner!Forget({s})
      BY <1>4, <3>5, <2>0
    <3>6. CASE Runner!RequestStop(s)
      BY <1>5, <3>6, <2>0
    <3>7. CASE Runner!Register(s) /\ ProfileOf[s] \in profiles
      BY <1>7, <3>1, <3>7
    <3> QED
      BY <3>1, <3>3, <3>4, <3>5, <3>6, <3>7
  <2> QED
    BY <2>1, <2>2
<1> QED
  BY <1>8, <1>9, <1>10

\* Sessions that own a profile are active, and remove_launch_profile_safe leaves none.
LEMMA OwnersStep ==
  ASSUME PageInv, [Next]_vars
  PROVE  OwnersInv'
<1> /\ PageTypeOK /\ WireOK /\ OwnersInv
  BY DEF PageInv
<1>0. /\ Plain \/ Remount \/ Run \/ Take \/ \E s \in Sessions : EventArrives(s)
      /\ Take => answers # <<>> /\ answers' = Tail(answers) /\ UNCHANGED runnerVars
  BY Steps, TakeEffect
<1>1. \A s \in announced' : life'[s] \in Terminal \cup {"gone"}
  <2>1. Run \/ Remount \/ Take => announced' = announced
    BY <1>0, RunEffect DEF Remount, runnerVars
  <2>2. \A s \in announced' \ announced : s \in Sessions /\ life[s] \in Terminal \cup {"gone"}
    BY <1>0, <2>1 DEF Plain, EventArrives
  <2>3. \A s \in announced : s \in Sessions /\ life[s] \in Terminal \cup {"gone"}
    BY DEF PageTypeOK, OwnersInv
  <2> QED
    BY <2>2, <2>3, RunnerMoves
<1>2. profiles' \subseteq profiles
  BY <1>0 DEF Plain, Remount, runnerVars, EventArrives, Run, RunList, RunStart, RunStop, RunRemove
<1>3. ASSUME NEW p \in Profiles, owner'[p] # NoSession
      PROVE  ProfileOf[owner'[p]] = p /\ life'[owner'[p]] \in Active /\ p \in profiles'
  <2>1. CASE owner'[p] = owner[p]
    <3>1. (owner[p] # NoSession /\ life'[owner[p]] \in Active) \/ life[owner[p]] = "absent"
      BY <1>3, <2>1, RunnerMoves
    <3>2. ProfileOf[owner[p]] = p /\ life[owner[p]] \in Active /\ p \in profiles
          /\ owner[p] \in Sessions
      BY <1>3, <2>1 DEF OwnersInv, PageTypeOK, Runner!TypeOK
    <3>3. life[owner[p]] # "absent"
      BY <3>2 DEF Active, Runner!Active
    <3>4. profiles' = profiles \/ RunRemove
      BY <1>0 DEF Plain, Remount, runnerVars, EventArrives, Run, RunList, RunStart, RunStop
    <3>5. RunRemove => p \in profiles'
      BY <3>2 DEF RunRemove
    <3> QED
      BY <1>3, <2>1, <3>1, <3>2, <3>3, <3>4, <3>5
  <2>2. CASE owner'[p] # owner[p]
    BY <1>3, <2>2, RunnerMoves DEF Active, Runner!Active
  <2> QED
    BY <2>1, <2>2
<1>4. ASSUME NEW i \in DOMAIN answers', answers'[i].call.op = "remove"
      PROVE  answers'[i].said \notin profiles'
  <2>1. CASE UNCHANGED answers
    BY <1>2, <1>4, <2>1 DEF OwnersInv
  <2>2. CASE Take
    BY <1>0, <1>2, <1>4, <2>2, Shorter DEF OwnersInv, WireOK
  <2>3. ASSUME NEW said, Says(Head(calls), said),
               answers' = Append(answers, [call |-> Head(calls), said |-> said])
        PROVE  answers'[i].said \notin profiles'
    <3> DEFINE x == [call |-> Head(calls), said |-> said]
    <3>1. (i \in DOMAIN answers /\ answers'[i] = answers[i]) \/ answers'[i] = x
      BY <1>4, <2>3, Longer DEF WireOK
    <3>2. CASE answers'[i] = x
      BY <1>4, <2>3, <3>2 DEF Says
    <3> QED
      BY <1>2, <1>4, <3>1, <3>2 DEF OwnersInv
  <2> QED
    BY <1>0, <2>1, <2>2, <2>3, RunEffect DEF Plain, Remount, EventArrives
<1> QED
  BY <1>1, <1>3, <1>4 DEF OwnersInv

\* What taking an answer tells the page.
LEMMA TakeTells ==
  ASSUME PageTypeOK, WireOK, Take
  PROVE  told' = told \/ (IsCurrent(answers[1]) /\ told' = told \cup NamedBy(answers[1]))
<1>1. Head(answers) = answers[1] /\ AnswerOK(answers[1], mount)
  BY TakeEffect, Shorter DEF WireOK
<1>2. CASE TakeStartup \/ TakeList
  BY <1>1, <1>2 DEF TakeStartup, TakeList, Arrives, NamedBy, IsList, IsCurrent
<1>3. CASE TakeStarted
  BY <1>1, <1>3 DEF TakeStarted, Arrives, NamedBy, IsList, IsStart, IsCurrent
<1>4. CASE TakeStopped \/ TakeRemoved \/ TakeStale
  BY <1>4 DEF TakeStopped, TakeRemoved, TakeStale
<1> QED
  BY <1>2, <1>3, <1>4 DEF Take

\* An answer that was just given names sessions that are, and a start one that was not.
LEMMA NewAnswer ==
  ASSUME PageTypeOK, WireOK, calls # <<>>, NEW said, Says(Head(calls), said)
  PROVE  LET x == [call |-> Head(calls), said |-> said] IN
         /\ AnswerOK(x, mount)
         /\ \A s \in NamedBy(x) : s \in Sessions /\ life'[s] # "absent"
         /\ IsStart(x) => /\ life[said] = "absent" /\ said \in Sessions
                          /\ owner'[ProfileOf[said]] = said
         /\ IsList(x) => Names(x.said.list) = {s \in Sessions : life[s] \in Active}
<1> DEFINE x == [call |-> Head(calls), said |-> said]
<1>1. CallOK(Head(calls), mount) /\ x.call = Head(calls) /\ x.said = said
  BY FirstCall
<1>2. Names(ActiveList) = {s \in Sessions : life[s] \in Active}
      /\ ActiveList \in [Sessions -> {"none"} \cup Active]
  BY DEF Names, ActiveList, Active, Runner!Active
<1> HIDE DEF x
<1>3. AnswerOK(x, mount)
  BY <1>1, <1>2 DEF AnswerOK, IsList, Says, CallOK
<1>4. IsStart(x) => /\ life[said] = "absent" /\ said \in Sessions
                    /\ owner'[ProfileOf[said]] = said /\ life'[said] = "running"
  BY <1>1, PageAssumption DEF IsStart, Says, Runner!Register, PageTypeOK, Runner!TypeOK
<1>5. IsList(x) => Names(x.said.list) = {s \in Sessions : life[s] \in Active} /\ life' = life
  BY <1>1, <1>2 DEF IsList, Says
<1>6. \A s \in NamedBy(x) : s \in Sessions /\ life'[s] # "absent"
  BY <1>1, <1>4, <1>5 DEF NamedBy, Active, Runner!Active
<1> QED
  BY <1>3, <1>4, <1>5, <1>6 DEF x

\* What any step does to the answers and to what the page was told.
LEMMA AnswersStep ==
  ASSUME PageTypeOK, WireOK, [Next]_vars
  PROVE  \/ UNCHANGED answers /\ told' \subseteq told
         \/ /\ calls # <<>> /\ calls' = Tail(calls)
            /\ UNCHANGED <<tableVars, mountVars, history, announced>>
            /\ \E said : /\ Says(Head(calls), said)
                         /\ answers' = Append(answers, [call |-> Head(calls), said |-> said])
         \/ /\ Take /\ answers # <<>> /\ answers' = Tail(answers)
            /\ UNCHANGED <<runnerVars, calls, userVars, mountVars, heard, missed, crossed>>
            /\ told' = told \/ (IsCurrent(answers[1]) /\ told' = told \cup NamedBy(answers[1]))
<1>1. CASE Take
  BY <1>1, TakeEffect, TakeTells
<1>2. CASE Run
  BY <1>2, RunEffect DEF history
<1>3. CASE Plain \/ Remount \/ \E s \in Sessions : EventArrives(s)
  BY <1>3 DEF Plain, Remount, EventArrives
<1> QED
  BY <1>1, <1>2, <1>3, Steps

\* Every step keeps that only registered sessions are spoken of.
LEMMA SeenStep ==
  ASSUME PageInv, [Next]_vars
  PROVE  SeenInv'
<1> /\ PageTypeOK /\ WireOK /\ OwnersInv /\ SeenInv
  BY DEF PageInv
<1>1. \A s \in Sessions : life[s] # "absent" => life'[s] # "absent"
  BY RunnerMoves
<1>2. \A i \in DOMAIN answers : \A s \in NamedBy(answers[i]) : s \in Sessions
  BY DEF WireOK, AnswerOK, NamedBy, IsList, IsStart, Names
<1>3. \A i \in DOMAIN answers : \A s \in NamedBy(answers[i]) : life'[s] # "absent"
  BY <1>1, <1>2 DEF SeenInv
<1>4. \A s \in told : life'[s] # "absent"
  BY <1>1 DEF SeenInv, PageTypeOK
<1>5. CASE UNCHANGED answers /\ told' \subseteq told
  BY <1>3, <1>4, <1>5 DEF SeenInv, NamedBy, IsList, IsStart
<1>6. CASE answers # <<>> /\ answers' = Tail(answers)
           /\ (told' = told \/ (IsCurrent(answers[1]) /\ told' = told \cup NamedBy(answers[1])))
  <2>1. /\ 1 \in DOMAIN answers
        /\ \A i \in DOMAIN answers' : i + 1 \in DOMAIN answers /\ answers'[i] = answers[i + 1]
    BY <1>6, Shorter DEF WireOK
  <2> QED
    BY <1>3, <1>4, <1>6, <2>1 DEF SeenInv, NamedBy, IsList, IsStart
<1>7. ASSUME calls # <<>>, told' = told, NEW said, Says(Head(calls), said),
             answers' = Append(answers, [call |-> Head(calls), said |-> said])
      PROVE  SeenInv'
  <2> DEFINE x == [call |-> Head(calls), said |-> said]
  <2>1. \A s \in NamedBy(x) : life'[s] # "absent"
    BY <1>7, NewAnswer
  <2> HIDE DEF x
  <2>2. \A i \in DOMAIN answers' :
          (i \in DOMAIN answers /\ answers'[i] = answers[i]) \/ answers'[i] = x
    BY <1>7, Longer DEF WireOK, x
  <2> QED
    BY <1>3, <1>4, <1>7, <2>1, <2>2 DEF SeenInv, NamedBy, IsList, IsStart
<1> QED
  BY <1>5, <1>6, <1>7, AnswersStep DEF history

\* Who owns a profile changes only to a session nothing was said of.
LEMMA UnheardStays ==
  ASSUME PageTypeOK, WireOK, OwnersInv, [Next]_vars, NEW t \in Sessions,
         NEW S \in SUBSET Sessions, \A s \in S : life[s] # "absent", Unheard(t, S)
  PROVE  t \notin S /\ owner'[ProfileOf[t]] \notin S
<1>1. ProfileOf[t] \in Profiles /\ NoSession \notin S
  BY PageAssumption
<1> QED
  BY <1>1, RunnerMoves DEF Unheard

\* Answers name sessions.
LEMMA NamedSessions ==
  ASSUME WireOK, NEW i \in DOMAIN answers
  PROVE  NamedBy(answers[i]) \in SUBSET Sessions
BY DEF WireOK, AnswerOK, NamedBy, IsList, IsStart, Names

\* Every step keeps that the answer of a start comes first of what names its session,
\* and before what names the next owner of its profile.
LEMMA StartsStep ==
  ASSUME PageInv, [Next]_vars
  PROVE  StartsInv'
<1> /\ PageTypeOK /\ WireOK /\ OwnersInv /\ SeenInv /\ StartsInv
  BY DEF PageInv
<1>1. told \in SUBSET Sessions /\ \A s \in told : life[s] # "absent"
  BY DEF PageTypeOK, SeenInv
<1>2. \A i \in DOMAIN answers : /\ NamedBy(answers[i]) \in SUBSET Sessions
                                /\ \A s \in NamedBy(answers[i]) : life[s] # "absent"
  BY NamedSessions DEF SeenInv
<1>3. ASSUME NEW j \in DOMAIN answers, IsStart(answers[j])
      PROVE  /\ answers[j].said \in Sessions
             /\ answers[j].said \notin told /\ owner'[ProfileOf[answers[j].said]] \notin told
             /\ \A i \in DOMAIN answers : i < j =>
                  /\ answers[j].said \notin NamedBy(answers[i])
                  /\ owner'[ProfileOf[answers[j].said]] \notin NamedBy(answers[i])
  <2>1. answers[j].said \in Sessions
    BY <1>3 DEF WireOK, AnswerOK, IsStart
  <2>2. Unheard(answers[j].said, told) /\ \A i \in DOMAIN answers : i < j =>
          Unheard(answers[j].said, NamedBy(answers[i]))
    BY <1>3 DEF StartsInv
  <2> QED
    BY <1>1, <1>2, <2>1, <2>2, UnheardStays
<1>4. CASE UNCHANGED answers /\ told' \subseteq told
  BY <1>3, <1>4 DEF StartsInv, Unheard, NamedBy, IsList, IsStart
<1>5. CASE answers # <<>> /\ answers' = Tail(answers)
           /\ (told' = told \/ (IsCurrent(answers[1]) /\ told' = told \cup NamedBy(answers[1])))
  <2>1. /\ 1 \in DOMAIN answers /\ DOMAIN answers = 1 .. Len(answers) /\ Len(answers) \in Nat
        /\ DOMAIN answers' = 1 .. Len(answers) - 1
        /\ \A i \in DOMAIN answers' : i + 1 \in DOMAIN answers /\ answers'[i] = answers[i + 1]
    BY <1>5, Shorter DEF WireOK
  <2>2. ASSUME NEW j \in DOMAIN answers', IsStart(answers'[j])
        PROVE  LET t == answers'[j].said IN
               /\ t \notin told' /\ owner'[ProfileOf[t]] \notin told'
               /\ \A i \in DOMAIN answers' : i < j =>
                    t \notin NamedBy(answers'[i]) /\ owner'[ProfileOf[t]] \notin NamedBy(answers'[i])
    <3> DEFINE t == answers[j + 1].said
    <3>1. j + 1 \in DOMAIN answers /\ answers'[j] = answers[j + 1] /\ 1 < j + 1 /\ j \in Nat
      BY <2>1
    <3>2. /\ t \notin told /\ owner'[ProfileOf[t]] \notin told
          /\ \A i \in DOMAIN answers : i < j + 1 =>
               t \notin NamedBy(answers[i]) /\ owner'[ProfileOf[t]] \notin NamedBy(answers[i])
      BY <1>3, <2>2, <3>1
    <3> HIDE DEF t
    <3>3. t \notin told' /\ owner'[ProfileOf[t]] \notin told'
      BY <1>5, <2>1, <3>1, <3>2
    <3>4. ASSUME NEW i \in DOMAIN answers', i < j
          PROVE  t \notin NamedBy(answers'[i]) /\ owner'[ProfileOf[t]] \notin NamedBy(answers'[i])
      <4>1. i + 1 \in DOMAIN answers /\ answers'[i] = answers[i + 1] /\ i + 1 < j + 1
        BY <2>1, <3>1, <3>4
      <4> QED
        BY <3>2, <4>1
    <3> QED
      BY <3>1, <3>3, <3>4 DEF t
  <2> QED
    BY <2>2 DEF StartsInv, Unheard, NamedBy, IsList, IsStart
<1>6. ASSUME calls # <<>>, told' = told, NEW said, Says(Head(calls), said),
             answers' = Append(answers, [call |-> Head(calls), said |-> said])
      PROVE  StartsInv'
  <2> DEFINE x == [call |-> Head(calls), said |-> said]
  <2>1. IsStart(x) => life[said] = "absent" /\ said \in Sessions /\ owner'[ProfileOf[said]] = said
    BY <1>6, NewAnswer
  <2>2. /\ DOMAIN answers = 1 .. Len(answers) /\ Len(answers) \in Nat
        /\ DOMAIN answers' = 1 .. Len(answers) + 1
        /\ answers'[Len(answers) + 1] = x
        /\ \A i \in DOMAIN answers : answers'[i] = answers[i]
    BY <1>6, Longer DEF WireOK
  <2>3. x.said = said
    OBVIOUS
  <2> HIDE DEF x
  <2>4. ASSUME NEW j \in DOMAIN answers', IsStart(answers'[j])
        PROVE  LET t == answers'[j].said IN
               /\ t \notin told' /\ owner'[ProfileOf[t]] \notin told'
               /\ \A i \in DOMAIN answers' : i < j =>
                    t \notin NamedBy(answers'[i]) /\ owner'[ProfileOf[t]] \notin NamedBy(answers'[i])
    <3>0. \A i \in DOMAIN answers' : i < j => i \in DOMAIN answers
      BY <2>2
    <3>1. CASE j \in DOMAIN answers
      BY <1>3, <1>6, <2>2, <2>4, <3>0, <3>1
    <3>2. CASE j = Len(answers) + 1
      BY <1>1, <1>2, <1>6, <2>1, <2>2, <2>3, <2>4, <3>0, <3>2
    <3> QED
      BY <2>2, <3>1, <3>2
  <2> QED
    BY <2>4 DEF StartsInv, Unheard, NamedBy, IsList, IsStart
<1> QED
  BY <1>4, <1>5, <1>6, AnswersStep DEF history

\* The list a new mount asks for comes first of what it is told.
LEMMA StartupStep ==
  ASSUME PageInv, [Next]_vars
  PROVE  StartupInv'
<1> /\ PageTypeOK /\ WireOK /\ StartupInv
  BY DEF PageInv
<1>0. mount \in Nat
  BY DEF PageTypeOK
<1>00. Plain \/ Remount \/ Run \/ Take \/ \E s \in Sessions : EventArrives(s)
  BY Steps
<1>1. ASSUME answers' = answers, told' = told, mount' = mount,
             \/ UNCHANGED calls
             \/ \E c : c.op # "startup" /\ calls' = Append(calls, c)
      PROVE  StartupInv'
  <2>1. CASE UNCHANGED calls
    BY <1>1, <2>1 DEF StartupInv, IsCurrent
  <2>2. ASSUME NEW c, c.op # "startup", calls' = Append(calls, c)
        PROVE  StartupInv'
    <3>1. /\ DOMAIN calls = 1 .. Len(calls) /\ Len(calls) \in Nat
          /\ DOMAIN calls' = 1 .. Len(calls) + 1
          /\ calls'[Len(calls) + 1] = c
          /\ \A i \in DOMAIN calls : calls'[i] = calls[i]
      BY <2>2, Longer DEF WireOK
    <3>2. ASSUME NEW j \in DOMAIN calls', calls'[j].op = "startup", calls'[j].mount = mount
          PROVE  /\ told = {}
                 /\ \A i \in DOMAIN answers : ~IsCurrent(answers[i])
                 /\ \A i \in DOMAIN calls' : i < j => calls'[i].mount # mount
      <4>1. j \in DOMAIN calls /\ calls'[j] = calls[j]
        BY <2>2, <3>1, <3>2
      <4>2. \A i \in DOMAIN calls' : i < j => i \in DOMAIN calls /\ calls'[i] = calls[i]
        BY <3>1, <4>1
      <4> QED
        BY <3>2, <4>1, <4>2 DEF StartupInv
    <3> QED
      BY <1>1, <3>2 DEF StartupInv, IsCurrent
  <2> QED
    BY <1>1, <2>1, <2>2
<1>2. CASE Remount
  <2>1. /\ mount' = mount + 1 /\ told' = {} /\ answers' = answers
        /\ calls' = Append(calls, Call("startup", NoSession, mount'))
    BY <1>2 DEF Remount
  <2>2. \A i \in DOMAIN answers : answers[i].call.mount # mount'
    BY <1>0, <2>1 DEF WireOK, AnswerOK, CallOK
  <2>3. \A i \in DOMAIN calls : calls[i].mount # mount'
    BY <1>0, <2>1 DEF WireOK, CallOK
  <2>4. /\ DOMAIN calls = 1 .. Len(calls) /\ Len(calls) \in Nat
        /\ DOMAIN calls' = 1 .. Len(calls) + 1
        /\ \A i \in DOMAIN calls : calls'[i] = calls[i]
    BY <2>1, Longer DEF WireOK
  <2>5. \A j \in DOMAIN calls' : \A i \in DOMAIN calls' : i < j => i \in DOMAIN calls
    BY <2>4
  <2> QED
    BY <2>1, <2>2, <2>3, <2>4, <2>5 DEF StartupInv, IsCurrent
<1>3. CASE Run
  <2>1. calls # <<>> /\ calls' = Tail(calls) /\ told' = told /\ mount' = mount
    BY <1>3, RunEffect DEF history, mountVars
  <2>2. /\ 1 \in DOMAIN calls /\ DOMAIN calls = 1 .. Len(calls) /\ Len(calls) \in Nat
        /\ DOMAIN calls' = 1 .. Len(calls) - 1 /\ Head(calls) = calls[1]
        /\ \A i \in DOMAIN calls' : i + 1 \in DOMAIN calls /\ calls'[i] = calls[i + 1]
    BY <2>1, Shorter DEF WireOK
  <2>3. ASSUME NEW j \in DOMAIN calls', calls'[j].op = "startup", calls'[j].mount = mount
        PROVE  /\ told = {}
               /\ \A i \in DOMAIN answers : ~IsCurrent(answers[i])
               /\ calls[1].mount # mount
               /\ \A i \in DOMAIN calls' : i < j => calls'[i].mount # mount
    <3>1. j + 1 \in DOMAIN calls /\ calls'[j] = calls[j + 1] /\ 1 < j + 1 /\ j \in Nat
      BY <2>2
    <3>2. /\ told = {}
          /\ \A i \in DOMAIN answers : ~IsCurrent(answers[i])
          /\ \A i \in DOMAIN calls : i < j + 1 => calls[i].mount # mount
      BY <2>3, <3>1 DEF StartupInv
    <3>3. ASSUME NEW i \in DOMAIN calls', i < j
          PROVE  calls'[i].mount # mount
      <4>1. i + 1 \in DOMAIN calls /\ calls'[i] = calls[i + 1] /\ i + 1 < j + 1
        BY <2>2, <3>1, <3>3
      <4> QED
        BY <3>2, <4>1
    <3> QED
      BY <2>2, <3>1, <3>2, <3>3
  <2>4. CASE UNCHANGED answers
    BY <2>1, <2>3, <2>4 DEF StartupInv, IsCurrent
  <2>5. ASSUME NEW said, answers' = Append(answers, [call |-> Head(calls), said |-> said])
        PROVE  StartupInv'
    <3> DEFINE x == [call |-> Head(calls), said |-> said]
    <3>1. /\ DOMAIN answers = 1 .. Len(answers) /\ Len(answers) \in Nat
          /\ DOMAIN answers' = 1 .. Len(answers) + 1
          /\ answers'[Len(answers) + 1] = x
          /\ \A i \in DOMAIN answers : answers'[i] = answers[i]
          /\ \A i \in DOMAIN answers' : i \in DOMAIN answers \/ i = Len(answers) + 1
      BY <2>5, Longer DEF WireOK
    <3>2. x.call = calls[1]
      BY <2>2
    <3> HIDE DEF x
    <3>3. ASSUME NEW j \in DOMAIN answers', answers'[j].call.op = "startup",
                 answers'[j].call.mount = mount
          PROVE  told = {} /\ \A i \in DOMAIN answers' : i < j => answers'[i].call.mount # mount
      <4>0. \A i \in DOMAIN answers' : i < j => i \in DOMAIN answers
        BY <3>1
      <4>1. CASE j \in DOMAIN answers
        BY <3>1, <3>3, <4>0, <4>1 DEF StartupInv, IsCurrent
      <4>2. CASE j = Len(answers) + 1
        BY <2>2, <3>1, <3>2, <3>3, <4>0, <4>2 DEF StartupInv, IsCurrent
      <4> QED
        BY <3>1, <4>1, <4>2
    <3>4. ASSUME NEW j \in DOMAIN calls', calls'[j].op = "startup", calls'[j].mount = mount
          PROVE  /\ told = {}
                 /\ \A i \in DOMAIN answers' : answers'[i].call.mount # mount
                 /\ \A i \in DOMAIN calls' : i < j => calls'[i].mount # mount
      BY <2>3, <3>1, <3>2, <3>4 DEF IsCurrent
    <3> QED
      BY <2>1, <3>3, <3>4 DEF StartupInv, IsCurrent
  <2> QED
    BY <1>3, <2>4, <2>5, RunEffect
<1>4. CASE Take
  <2>1. /\ answers # <<>> /\ answers' = Tail(answers) /\ calls' = calls /\ mount' = mount
        /\ told' = told \/ IsCurrent(answers[1])
    BY <1>4, TakeEffect, TakeTells DEF mountVars
  <2>2. /\ 1 \in DOMAIN answers /\ DOMAIN answers = 1 .. Len(answers) /\ Len(answers) \in Nat
        /\ DOMAIN answers' = 1 .. Len(answers) - 1
        /\ \A i \in DOMAIN answers' : i + 1 \in DOMAIN answers /\ answers'[i] = answers[i + 1]
    BY <2>1, Shorter DEF WireOK
  <2>3. ASSUME NEW j \in DOMAIN answers', answers'[j].call.op = "startup",
               answers'[j].call.mount = mount
        PROVE  told' = {} /\ \A i \in DOMAIN answers' : i < j => answers'[i].call.mount # mount
    <3>1. j + 1 \in DOMAIN answers /\ answers'[j] = answers[j + 1] /\ 1 < j + 1 /\ j \in Nat
      BY <2>2
    <3>2. told = {} /\ \A i \in DOMAIN answers : i < j + 1 => answers[i].call.mount # mount
      BY <2>3, <3>1 DEF StartupInv, IsCurrent
    <3>3. ASSUME NEW i \in DOMAIN answers', i < j
          PROVE  answers'[i].call.mount # mount
      <4>1. i + 1 \in DOMAIN answers /\ answers'[i] = answers[i + 1] /\ i + 1 < j + 1
        BY <2>2, <3>1, <3>3
      <4> QED
        BY <3>2, <4>1
    <3> QED
      BY <2>1, <2>2, <3>1, <3>2, <3>3 DEF IsCurrent
  <2>4. ASSUME NEW j \in DOMAIN calls, calls[j].op = "startup", calls[j].mount = mount
        PROVE  /\ told' = {}
               /\ \A i \in DOMAIN answers' : answers'[i].call.mount # mount
               /\ \A i \in DOMAIN calls : i < j => calls[i].mount # mount
    BY <2>1, <2>2, <2>4 DEF StartupInv, IsCurrent
  <2> QED
    BY <2>1, <2>3, <2>4 DEF StartupInv, IsCurrent
<1>5. CASE Plain
  BY <1>1, <1>5 DEF Plain
<1>6. ASSUME NEW s \in Sessions, EventArrives(s)
      PROVE  StartupInv'
  <2>1. Call("list", NoSession, mount).op # "startup"
    BY DEF Call
  <2> QED
    BY <1>1, <1>6, <2>1 DEF EventArrives, mountVars
<1> QED
  BY <1>00, <1>2, <1>3, <1>4, <1>5, <1>6

\* The types of the queues.
LEMMA WireStep ==
  ASSUME PageInv, [Next]_vars
  PROVE  WireOK'
<1> /\ PageTypeOK /\ WireOK
  BY DEF PageInv
<1>0. Plain \/ Remount \/ Run \/ Take \/ \E s \in Sessions : EventArrives(s)
  BY Steps
<1>1. mount \in Nat \ {0} /\ mount' \in Nat \ {0} /\ mount <= mount'
  <2>1. mount' = mount \/ mount' = mount + 1
    BY <1>0, RunEffect, TakeEffect DEF Plain, Remount, mountVars, EventArrives
  <2> QED
    BY <2>1 DEF PageTypeOK
<1>2. \A c : CallOK(c, mount) => CallOK(c, mount')
  BY <1>1 DEF CallOK
<1>3. calls' \in Seq(Ran(calls')) /\ \A i \in DOMAIN calls' : CallOK(calls'[i], mount')
  <2>1. CASE UNCHANGED calls
    BY <1>2, <2>1 DEF WireOK
  <2>2. CASE calls # <<>> /\ calls' = Tail(calls)
    BY <1>2, <2>2, Shorter DEF WireOK
  <2>3. ASSUME NEW c, calls' = Append(calls, c), CallOK(c, mount')
        PROVE  calls' \in Seq(Ran(calls')) /\ \A i \in DOMAIN calls' : CallOK(calls'[i], mount')
    <3>1. /\ calls' \in Seq(Ran(calls'))
          /\ \A i \in DOMAIN calls' :
               (i \in DOMAIN calls /\ calls'[i] = calls[i]) \/ calls'[i] = c
      BY <2>3, Longer DEF WireOK
    <3> QED
      BY <1>2, <2>3, <3>1 DEF WireOK
  <2>4. ASSUME Remount
        PROVE  \E c : calls' = Append(calls, c) /\ CallOK(c, mount')
    <3> DEFINE c == Call("startup", NoSession, mount')
    <3>1. CallOK(c, mount')
      BY <1>1 DEF Call, CallOK
    <3> QED
      BY <2>4, <3>1 DEF Remount
  <2>5. ASSUME NEW s \in Sessions, EventArrives(s)
        PROVE  \E c : calls' = Append(calls, c) /\ CallOK(c, mount')
    <3> DEFINE c == Call("list", NoSession, mount)
    <3>1. CallOK(c, mount')
      BY <1>1 DEF Call, CallOK
    <3> QED
      BY <2>5, <3>1 DEF EventArrives
  <2>6. Plain => UNCHANGED calls \/ \E c : CallOK(c, mount) /\ calls' = Append(calls, c)
    BY DEF Plain
  <2> QED
    BY <1>0, <1>2, <2>1, <2>2, <2>3, <2>4, <2>5, <2>6, RunEffect, TakeEffect
<1>4. \A a : AnswerOK(a, mount) => AnswerOK(a, mount')
  BY <1>2 DEF AnswerOK
<1>5. answers' \in Seq(Ran(answers')) /\ \A i \in DOMAIN answers' : AnswerOK(answers'[i], mount')
  <2>1. CASE UNCHANGED answers
    BY <1>4, <2>1 DEF WireOK
  <2>2. CASE answers # <<>> /\ answers' = Tail(answers)
    <3>1. /\ answers' \in Seq(Ran(answers'))
          /\ \A i \in DOMAIN answers' : i + 1 \in DOMAIN answers /\ answers'[i] = answers[i + 1]
      BY <2>2, Shorter DEF WireOK
    <3> QED
      BY <1>4, <3>1 DEF WireOK
  <2>3. ASSUME calls # <<>>, NEW said, Says(Head(calls), said),
               answers' = Append(answers, [call |-> Head(calls), said |-> said])
        PROVE  answers' \in Seq(Ran(answers')) /\ \A i \in DOMAIN answers' : AnswerOK(answers'[i], mount')
    <3> DEFINE x == [call |-> Head(calls), said |-> said]
    <3>1. AnswerOK(x, mount)
      BY <2>3, NewAnswer
    <3> HIDE DEF x
    <3>2. /\ answers' \in Seq(Ran(answers'))
          /\ \A i \in DOMAIN answers' :
               (i \in DOMAIN answers /\ answers'[i] = answers[i]) \/ answers'[i] = x
      BY <2>3, Longer DEF WireOK, x
    <3> QED
      BY <1>4, <3>1, <3>2 DEF WireOK
  <2> QED
    BY <2>1, <2>2, <2>3, AnswersStep
<1> QED
  BY <1>3, <1>5 DEF WireOK

\* The answer that is taken.
LEMMA FirstAnswer ==
  ASSUME WireOK, Take
  PROVE  /\ Head(answers) = answers[1] /\ 1 \in DOMAIN answers /\ AnswerOK(answers[1], mount)
         /\ answers[1].call.op \in {"startup", "list", "start", "stop", "remove"}
BY TakeEffect, Shorter DEF WireOK, AnswerOK, CallOK

\* What is left of the remembered events when those of a session are dropped.
LEMMA Dropped ==
  ASSUME PageTypeOK, NEW s
  PROVE  /\ NotOf(s) \in Seq(Sessions \X Terminal)
         /\ Len(NotOf(s)) <= Len(pending) /\ Len(NotOf(s)) \in Nat
         /\ Ran(NotOf(s)) = Ran(pending) \ Ended(s)
<1> DEFINE S == Ran(pending) \ Ended(s)
           r == Only(pending, S)
<1>1. pending \in Seq(Sessions \X Terminal)
  BY DEF PageTypeOK
<1>2. KeptFrom(pending, S, Sessions \X Terminal, Len(pending), r)
  <2> HIDE DEF S, r
  <2> QED
    BY <1>1, OnlyKeeps DEF r
<1>3. DOMAIN pending = 1 .. Len(pending) /\ Ran(pending) = {pending[i] : i \in 1 .. Len(pending)}
  BY <1>1, LenProperties DEF Ran
<1>4. NotOf(s) = r
  BY DEF NotOf
<1> HIDE DEF r
<1>5. Ran(r) = Ran(pending) \cap S
  BY <1>2, <1>3 DEF KeptFrom
<1> QED
  BY <1>2, <1>4, <1>5, LenProperties DEF KeptFrom

\* What is remembered when one more event arrives.
LEMMA Remembered ==
  ASSUME PageTypeOK, NEW e \in Sessions \X Terminal
  PROVE  /\ Remember(e) \in Seq(Sessions \X Terminal)
         /\ Len(Remember(e)) <= Len(pending) + 1 /\ Len(Remember(e)) \in Nat
         /\ Ran(Remember(e)) \subseteq Ran(pending) \cup {e}
         /\ e \in Ran(Remember(e))
         /\ Len(pending) < MaxPending => Ran(Remember(e)) = Ran(pending) \cup {e}
<1> DEFINE T == Sessions \X Terminal
           kept == IF Len(pending) >= MaxPending THEN Tail(pending) ELSE pending
<1>1. pending \in Seq(T) /\ Len(pending) \in Nat /\ DOMAIN pending = 1 .. Len(pending)
      /\ MaxPending \in Nat \ {0}
  BY LenProperties, PageAssumption DEF PageTypeOK
<1>2. /\ kept \in Seq(T) /\ Len(kept) <= Len(pending) /\ Len(kept) \in Nat
      /\ Ran(kept) \subseteq Ran(pending) /\ DOMAIN kept = 1 .. Len(kept)
      /\ Len(pending) < MaxPending => kept = pending
  <2>1. CASE Len(pending) < MaxPending
    <3>0. ~(Len(pending) >= MaxPending)
      <4>1. Len(pending) \in Nat /\ MaxPending \in Nat
        BY <1>1
      <4> QED
        BY <2>1, <4>1
    <3>1. kept = pending
      BY <3>0
    <3> HIDE DEF T, kept
    <3> QED
      BY <1>1, <3>1
  <2>2. CASE Len(pending) >= MaxPending
    <3>1. kept = Tail(pending) /\ pending # <<>>
      BY <1>1, <2>2, EmptySeq
    <3> HIDE DEF T
    <3>2. /\ Tail(pending) \in Seq(T) /\ Len(Tail(pending)) = Len(pending) - 1
          /\ \A i \in 1 .. Len(pending) - 1 : Tail(pending)[i] = pending[i + 1]
      BY <1>1, <3>1, HeadTailProperties
    <3>3. Len(pending) - 1 \in Nat /\ DOMAIN Tail(pending) = 1 .. Len(pending) - 1
      BY <3>2, LenProperties
    <3>4. \A i \in 1 .. Len(pending) - 1 : i + 1 \in 1 .. Len(pending)
      BY <1>1
    <3>5. Ran(Tail(pending)) \subseteq Ran(pending)
      BY <1>1, <3>2, <3>3, <3>4 DEF Ran
    <3>6. ~(Len(pending) < MaxPending) /\ Len(pending) - 1 <= Len(pending)
      BY <1>1, <2>2
    <3> HIDE DEF kept
    <3> QED
      BY <3>1, <3>2, <3>3, <3>5, <3>6
  <2>3. Len(pending) < MaxPending \/ Len(pending) >= MaxPending
    BY <1>1
  <2> HIDE DEF T, kept
  <2> QED
    BY <2>1, <2>2, <2>3
<1> DEFINE a == Append(kept, e)
<1>3. Remember(e) = a
  BY DEF Remember
<1> HIDE DEF T, kept
<1>4. /\ a \in Seq(T) /\ Len(a) = Len(kept) + 1 /\ DOMAIN a = 1 .. Len(kept) + 1
      /\ \A i \in 1 .. Len(kept) : a[i] = kept[i]
      /\ a[Len(kept) + 1] = e
  <2>1. e \in T
    BY DEF T
  <2> QED
    BY <1>2, <2>1, AppendProperties, LenProperties
<1> HIDE DEF a
<1>5. Ran(a) = Ran(kept) \cup {e}
  <2>1. \A i \in 1 .. Len(kept) + 1 : i \in 1 .. Len(kept) \/ i = Len(kept) + 1
    BY <1>2
  <2>2. \A i \in 1 .. Len(kept) : i \in 1 .. Len(kept) + 1
    BY <1>2
  <2>3. Len(kept) + 1 \in 1 .. Len(kept) + 1
    BY <1>2
  <2> QED
    BY <1>2, <1>4, <2>1, <2>2, <2>3 DEF Ran
<1>6. Len(a) <= Len(pending) + 1 /\ Len(a) \in Nat
  BY <1>1, <1>2, <1>4
<1> QED
  BY <1>2, <1>3, <1>4, <1>5, <1>6 DEF T

\* The final event carries a final state.
LEMMA FinalStates ==
  ASSUME PageTypeOK, NEW s \in Sessions, EventArrives(s)
  PROVE  FinalState(s) \in Terminal /\ FinalState(s) \notin Active /\ FinalState(s) # "none"
BY DEF EventArrives, FinalState, Terminal, Active, Runner!Terminal, Runner!Active

\* The types.
LEMMA PageTypeStep ==
  ASSUME PageInv, [Next]_vars
  PROVE  PageTypeOK'
<1> /\ PageTypeOK /\ WireOK /\ OwnersInv
  BY DEF PageInv
<1>0. Plain \/ Remount \/ Run \/ Take \/ \E s \in Sessions : EventArrives(s)
  BY Steps
<1>1. Runner!TypeOK'
  BY RunnerMoves
<1>2. /\ announced' \subseteq Sessions /\ profiles' \subseteq Profiles
      /\ mount' \in Nat \ {0} /\ mount' >= mount /\ heard' \subseteq announced'
      /\ told' \subseteq Sessions
  <2>1. CASE Plain
    BY <2>1 DEF Plain, PageTypeOK
  <2>2. CASE Remount
    BY <2>2 DEF Remount, PageTypeOK, runnerVars
  <2>3. CASE Run
    BY <2>3, RunEffect DEF Run, RunList, RunStart, RunStop, RunRemove, PageTypeOK, mountVars,
       history, runnerVars
  <2>4. CASE Take
    BY <2>4, FirstAnswer, TakeEffect, TakeTells, NamedSessions DEF PageTypeOK, mountVars, runnerVars
  <2>5. ASSUME NEW s \in Sessions, EventArrives(s)
        PROVE  /\ announced' \subseteq Sessions /\ profiles' \subseteq Profiles
               /\ mount' \in Nat \ {0} /\ mount' >= mount /\ heard' \subseteq announced'
               /\ told' \subseteq Sessions
    BY <2>5 DEF EventArrives, PageTypeOK, mountVars
  <2> QED
    BY <1>0, <2>1, <2>2, <2>3, <2>4, <2>5
<1>3. asked' \subseteq Profiles \X (1 .. mount') /\ stops' \subseteq Sessions \X (1 .. mount')
  <2>1. mount \in 1 .. mount /\ \A i \in 1 .. mount : i \in 1 .. mount'
    BY <1>2 DEF PageTypeOK
  <2>2. \A p \in Profiles : AskStart(p) => asked' \subseteq asked \cup {<<p, mount>>} /\ stops' = stops
    BY DEF AskStart
  <2>3. \A s \in Sessions : AskStop(s) => stops' \subseteq stops \cup {<<s, mount>>} /\ asked' = asked
    BY DEF AskStop
  <2>4. \/ asked' \subseteq asked /\ stops' \subseteq stops
        \/ \E p \in Profiles : AskStart(p)
        \/ \E s \in Sessions : AskStop(s)
    <3>1. Run \/ Take \/ Remount \/ Listen \/ UNCHANGED vars => UNCHANGED userVars
      BY RunEffect, TakeEffect DEF Remount, Listen, vars
    <3>2. \A s : SessionReleases(s) \/ SessionFinishes(s) \/ SessionForgotten(s) \/ Announce(s)
            => UNCHANGED userVars
      BY DEF SessionReleases, SessionFinishes, SessionForgotten, RunnerOnly, Announce, EventArrives,
         EventMissed
    <3>3. \A x, m : AskRemove(x) \/ Confirm(x, m) \/ CallStop(x, m)
            => asked' \subseteq asked /\ stops' \subseteq stops
      BY DEF AskRemove, Confirm, CallStop
    <3> QED
      BY <3>1, <3>2, <3>3 DEF Next, userVars
  <2>5. asked \subseteq Profiles \X (1 .. mount') /\ stops \subseteq Sessions \X (1 .. mount')
    BY <2>1 DEF PageTypeOK
  <2> QED
    BY <2>1, <2>2, <2>3, <2>4, <2>5
<1>4. /\ sessionsById' \in [Sessions -> {"none"} \cup Active \cup Terminal]
      /\ lastSession' \in [Profiles -> Sessions \cup {NoSession}]
      /\ pending' \in Seq(Sessions \X Terminal)
  <2>0. /\ sessionsById \in [Sessions -> {"none"} \cup Active \cup Terminal]
        /\ lastSession \in [Profiles -> Sessions \cup {NoSession}]
        /\ pending \in Seq(Sessions \X Terminal)
        /\ ProfileOf \in [Sessions -> Profiles]
    BY PageAssumption DEF PageTypeOK
  <2>1. CASE UNCHANGED tableVars
    BY <2>0, <2>1 DEF tableVars
  <2>2. CASE Remount
    BY <2>2, EmptySeq DEF Remount, NoRows, NoLast
  <2>3. CASE TakeStartup \/ TakeList
    <3>1. /\ Head(answers).said.list \in [Sessions -> {"none"} \cup Active]
          /\ Head(answers).said.lasts \in [Profiles -> Sessions \cup {NoSession}]
      BY <2>3, FirstAnswer DEF Take, TakeStartup, TakeList, Arrives, AnswerOK, IsList, LastsOf
    <3> QED
      BY <2>0, <2>3, <3>1 DEF TakeStartup, TakeList
  <2>4. CASE TakeStarted
    <3>1. Head(answers).said \in Sessions
      BY <2>4, FirstAnswer DEF Take, TakeStarted, Arrives, AnswerOK
    <3>2. \A e \in Ended(Head(answers).said) : e[2] \in Terminal
      BY <2>0, ElementOfSeq, LenProperties DEF Ended, Ran
    <3>3. "running" \in Active
      BY DEF Active, Runner!Active
    <3>4. sessionsById' \in [Sessions -> {"none"} \cup Active \cup Terminal]
      BY <2>0, <2>4, <3>2, <3>3 DEF TakeStarted
    <3> QED
      BY <2>0, <2>4, <3>1, <3>4, Dropped DEF TakeStarted
  <2>5. CASE TakeStopped
    <3>1. Head(answers).said \in Sessions /\ "stopping" \in Active
      BY <2>5, FirstAnswer DEF Take, TakeStopped, Arrives, AnswerOK, Active, Runner!Active
    <3> QED
      BY <2>0, <2>5, <3>1 DEF TakeStopped
  <2>6. CASE TakeRemoved
    BY <2>0, <2>6, Dropped DEF TakeRemoved
  <2>7. CASE TakeStale
    BY <2>1, <2>7 DEF TakeStale
  <2>8. ASSUME NEW s \in Sessions, EventArrives(s)
        PROVE  /\ sessionsById' \in [Sessions -> {"none"} \cup Active \cup Terminal]
               /\ lastSession' \in [Profiles -> Sessions \cup {NoSession}]
               /\ pending' \in Seq(Sessions \X Terminal)
    BY <2>0, <2>8, FinalStates, Remembered DEF EventArrives
  <2> QED
    BY <1>0, <2>1, <2>2, <2>3, <2>4, <2>5, <2>6, <2>7, <2>8, RunEffect DEF Plain, Take
<1> QED
  BY <1>1, <1>2, <1>3, <1>4 DEF PageTypeOK

\* lastSessionByProfile holds sessions of the profile that the page was told of.
LEMMA LastStep ==
  ASSUME PageInv, [Next]_vars
  PROVE  LastInv'
<1> /\ PageTypeOK /\ WireOK /\ LastInv
  BY DEF PageInv
<1>0. Plain \/ Remount \/ Run \/ Take \/ \E s \in Sessions : EventArrives(s)
  BY Steps
<1>1. CASE lastSession' = lastSession /\ told' = told
  BY <1>1 DEF LastInv
<1>2. CASE Remount
  BY <1>2 DEF Remount, NoLast, LastInv
<1>3. CASE TakeStartup \/ TakeList
  <2>1. Head(answers).said.lasts \in LastsOf(Head(answers).said.list)
    BY <1>3, FirstAnswer DEF Take, TakeStartup, TakeList, Arrives, AnswerOK, IsList
  <2>2. ASSUME NEW p \in Profiles, Head(answers).said.lasts[p] # NoSession
        PROVE  /\ Head(answers).said.lasts[p] \in Names(Head(answers).said.list)
               /\ ProfileOf[Head(answers).said.lasts[p]] = p
    BY <2>1, <2>2 DEF LastsOf, Names
  <2> QED
    BY <1>3, <2>2 DEF TakeStartup, TakeList, LastInv
<1>4. CASE TakeStarted
  <2>1. Head(answers).said \in Sessions /\ ProfileOf[Head(answers).said] \in Profiles
    BY <1>4, FirstAnswer, PageAssumption DEF Take, TakeStarted, Arrives, AnswerOK
  <2> QED
    BY <1>4, <2>1 DEF TakeStarted, LastInv, PageTypeOK
<1>5. CASE TakeRemoved
  BY <1>5 DEF TakeRemoved, LastInv, PageTypeOK
<1>6. CASE Plain \/ Run \/ TakeStopped \/ TakeStale \/ \E s \in Sessions : EventArrives(s)
  BY <1>1, <1>6, RunEffect DEF Plain, TakeStopped, TakeStale, tableVars, history, EventArrives
<1> QED
  BY <1>0, <1>2, <1>3, <1>4, <1>5, <1>6 DEF Take

\* A session whose event arrives was not heard of before.
LEMMA Hears ==
  ASSUME PageTypeOK, PendingInv, NEW s \in Sessions, EventArrives(s)
  PROVE  /\ heard' = heard \cup {s} /\ s \notin heard /\ IsFiniteSet(heard')
         /\ Cardinality(heard') = Cardinality(heard) + 1 /\ Cardinality(heard) \in Nat
         /\ pending' = Remember(<<s, FinalState(s)>>) /\ <<s, FinalState(s)>> \in Sessions \X Terminal
<1>1. heard' = heard \cup {s} /\ s \notin heard /\ pending' = Remember(<<s, FinalState(s)>>)
  BY DEF EventArrives, PageTypeOK
<1>2. IsFiniteSet(heard)
  BY DEF PendingInv
<1> QED
  BY <1>1, <1>2, FS_AddElement, FS_CardinalityType, FinalStates

\* No more events are remembered than were heard.
LEMMA PendingStep ==
  ASSUME PageInv, [Next]_vars
  PROVE  PendingInv'
<1> /\ PageTypeOK /\ WireOK /\ PendingInv
  BY DEF PageInv
<1>0. Plain \/ Remount \/ Run \/ Take \/ \E s \in Sessions : EventArrives(s)
  BY Steps
<1>1. announced \subseteq announced'
  BY <1>0, RunEffect, TakeEffect DEF Plain, Remount, EventArrives, runnerVars
<1>2. CASE pending' = pending /\ heard' = heard
  BY <1>1, <1>2 DEF PendingInv
<1>3. CASE Remount
  <2>1. heard' = {} /\ pending' = <<>>
    BY <1>3 DEF Remount
  <2>2. IsFiniteSet({}) /\ Cardinality({}) = 0 /\ Len(<<>>) = 0 /\ Ran(<<>>) = {}
    BY FS_EmptySet DEF Ran
  <2> QED
    BY <2>1, <2>2 DEF PendingInv
<1>4. ASSUME NEW s \in Sessions, EventArrives(s)
      PROVE  PendingInv'
  <2>1. /\ IsFiniteSet(heard') /\ Cardinality(heard') = Cardinality(heard) + 1
        /\ Cardinality(heard) \in Nat /\ pending' = Remember(<<s, FinalState(s)>>)
        /\ <<s, FinalState(s)>> \in Sessions \X Terminal
    BY <1>4, Hears
  <2>2. /\ Len(pending') <= Len(pending) + 1 /\ Len(pending') \in Nat
        /\ Ran(pending') \subseteq Ran(pending) \cup {<<s, FinalState(s)>>}
    BY <2>1, Remembered
  <2>3. Len(pending) \in Nat
    BY LenProperties DEF PageTypeOK
  <2>4. Len(pending') <= Cardinality(heard')
    BY <2>1, <2>2, <2>3 DEF PendingInv
  <2>5. \A e \in Ran(pending') : e[1] \in announced'
    BY <1>1, <1>4, <2>2 DEF PendingInv, EventArrives
  <2> QED
    BY <2>1, <2>4, <2>5 DEF PendingInv
<1>5. ASSUME NEW s, pending' = NotOf(s), heard' = heard
      PROVE  PendingInv'
  <2>1. /\ Len(pending') <= Len(pending) /\ Len(pending') \in Nat
        /\ Ran(pending') \subseteq Ran(pending)
    BY <1>5, Dropped
  <2>2. Len(pending) \in Nat /\ Cardinality(heard) \in Nat
    BY LenProperties, FS_CardinalityType DEF PageTypeOK, PendingInv
  <2>3. Len(pending') <= Cardinality(heard')
    BY <1>5, <2>1, <2>2 DEF PendingInv
  <2> QED
    BY <1>1, <1>5, <2>1, <2>3 DEF PendingInv
<1>6. CASE Take
  <2>1. heard' = heard
    BY <1>6, TakeEffect
  <2>2. pending' = pending \/ \E s : pending' = NotOf(s)
    BY <1>6 DEF Take, TakeStartup, TakeList, TakeStarted, TakeStopped, TakeRemoved, TakeStale, tableVars
  <2> QED
    BY <1>2, <1>5, <2>1, <2>2
<1> QED
  BY <1>0, <1>2, <1>3, <1>4, <1>6, RunEffect DEF Plain, tableVars, history

\* A list is made of active sessions, so that it names one the page heard of only if
\* the event came while it was under way.
LEMMA ListsStep ==
  ASSUME PageInv, [Next]_vars
  PROVE  ListsInv'
<1> /\ PageTypeOK /\ WireOK /\ OwnersInv /\ ListsInv
  BY DEF PageInv
<1>0. Plain \/ Remount \/ Run \/ Take \/ \E s \in Sessions : EventArrives(s)
  BY Steps
<1>1. CASE answers' = answers /\ mount' = mount /\ heard' = heard /\ crossed' = crossed
  BY <1>1 DEF ListsInv, IsList, IsCurrent
<1>2. CASE Remount
  BY <1>2 DEF Remount, ListsInv
<1>3. ASSUME NEW s \in Sessions, EventArrives(s)
      PROVE  ListsInv'
  <2>1. /\ answers' = answers /\ mount' = mount /\ heard' = heard \cup {s} /\ crossed \subseteq crossed'
        /\ Overtaken(s) => s \in crossed'
    BY <1>3 DEF EventArrives, mountVars
  <2>2. ASSUME NEW i \in DOMAIN answers, IsList(answers[i]), IsCurrent(answers[i]),
               s \in Names(answers[i].said.list)
        PROVE  Overtaken(s)
    BY <2>2 DEF Overtaken, Ran, IsList, IsCurrent, Names
  <2> QED
    BY <2>1, <2>2 DEF ListsInv, IsList, IsCurrent
<1>4. CASE Take
  <2>1. /\ mount' = mount /\ heard' = heard /\ crossed' = crossed
        /\ \A i \in DOMAIN answers' : i + 1 \in DOMAIN answers /\ answers'[i] = answers[i + 1]
    BY <1>4, TakeEffect, Shorter DEF WireOK, mountVars
  <2> QED
    BY <2>1 DEF ListsInv, IsList, IsCurrent
<1>5. CASE Run
  <2>1. mount' = mount /\ heard' = heard /\ crossed' = crossed /\ calls # <<>>
    BY <1>5, RunEffect DEF mountVars, history
  <2>2. ASSUME NEW said, Says(Head(calls), said),
               answers' = Append(answers, [call |-> Head(calls), said |-> said])
        PROVE  ListsInv'
    <3> DEFINE x == [call |-> Head(calls), said |-> said]
    <3>1. IsList(x) => Names(x.said.list) = {s \in Sessions : life[s] \in Active}
      BY <2>1, <2>2, NewAnswer
    <3> HIDE DEF x
    <3>2. \A s \in heard : life[s] \notin Active
      BY DEF PageTypeOK, OwnersInv, Active, Terminal, Runner!Active, Runner!Terminal
    <3>3. \A i \in DOMAIN answers' :
            (i \in DOMAIN answers /\ answers'[i] = answers[i]) \/ answers'[i] = x
      BY <2>2, Longer DEF WireOK, x
    <3> QED
      BY <2>1, <3>1, <3>2, <3>3 DEF ListsInv, IsList, IsCurrent
  <2> QED
    BY <1>1, <1>5, <2>1, <2>2, RunEffect
<1> QED
  BY <1>0, <1>1, <1>2, <1>3, <1>4, <1>5 DEF Plain

\* rememberStartedSession finds the event that came before it: it is remembered until
\* MaxPending others came, and removed only with the start it belongs to.
LEMMA EndedStep ==
  ASSUME PageInv, [Next]_vars
  PROVE  EndedInv'
<1> /\ PageTypeOK /\ WireOK /\ OwnersInv /\ StartsInv /\ LastInv /\ PendingInv /\ ListsInv /\ EndedInv
  BY DEF PageInv
<1>0. Plain \/ Remount \/ Run \/ Take \/ \E s \in Sessions : EventArrives(s)
  BY Steps
<1>1. CASE /\ answers' = answers /\ mount' = mount /\ heard' = heard /\ crossed' = crossed
           /\ UNCHANGED tableVars
  BY <1>1 DEF EndedInv, IsStart, IsCurrent, Ended, tableVars
<1>2. CASE Remount
  BY <1>2 DEF Remount, EndedInv
<1>3. CASE Run
  <2>1. /\ mount' = mount /\ heard' = heard /\ crossed' = crossed /\ calls # <<>>
        /\ UNCHANGED tableVars
    BY <1>3, RunEffect DEF mountVars, history
  <2>2. ASSUME NEW said, Says(Head(calls), said),
               answers' = Append(answers, [call |-> Head(calls), said |-> said])
        PROVE  EndedInv'
    <3> DEFINE x == [call |-> Head(calls), said |-> said]
    <3>1. IsStart(x) => life[said] = "absent" /\ x.said = said
      BY <2>1, <2>2, NewAnswer
    <3> HIDE DEF x
    <3>2. \A s \in heard : life[s] # "absent"
      BY DEF PageTypeOK, OwnersInv, Terminal, Runner!Terminal
    <3>3. \A i \in DOMAIN answers' :
            (i \in DOMAIN answers /\ answers'[i] = answers[i]) \/ answers'[i] = x
      BY <2>2, Longer DEF WireOK, x
    <3> QED
      BY <2>1, <3>1, <3>2, <3>3 DEF EndedInv, IsStart, IsCurrent, Ended, tableVars
  <2> QED
    BY <1>1, <1>3, <2>1, <2>2, RunEffect
<1>4. ASSUME NEW s \in Sessions, EventArrives(s)
      PROVE  EndedInv'
  <2> SUFFICES ASSUME Cardinality(heard') <= MaxPending
               PROVE  EndedInv'
    BY DEF EndedInv
  <2>1. /\ heard' = heard \cup {s} /\ s \notin heard
        /\ Cardinality(heard') = Cardinality(heard) + 1 /\ Cardinality(heard) \in Nat
        /\ pending' = Remember(<<s, FinalState(s)>>)
        /\ <<s, FinalState(s)>> \in Sessions \X Terminal
    BY <1>4, Hears
  <2>2. Len(pending) < MaxPending /\ Cardinality(heard) <= MaxPending
    <3>1. Len(pending) \in Nat /\ MaxPending \in Nat /\ Len(pending) <= Cardinality(heard)
      BY LenProperties, PageAssumption DEF PageTypeOK, PendingInv
    <3>2. Cardinality(heard) + 1 <= MaxPending
      BY <2>1
    <3> QED
      BY <2>1, <3>1, <3>2
  <2>3. Ran(pending') = Ran(pending) \cup {<<s, FinalState(s)>>}
    BY <2>1, <2>2, Remembered
  <2>4. /\ answers' = answers /\ mount' = mount /\ crossed \subseteq crossed'
        /\ sessionsById' = [sessionsById EXCEPT ![s] = IF @ = "none" THEN @ ELSE FinalState(s)]
    BY <1>4 DEF EventArrives, mountVars
  <2>5. sessionsById'[s] \notin Active
    <3>1. "none" \notin Active /\ FinalState(s) \notin Active
      BY <1>4, FinalStates DEF Active, Runner!Active
    <3> QED
      BY <2>4, <3>1 DEF PageTypeOK
  <2>6. Ended(s)' # {}
    <3> DEFINE e == <<s, FinalState(s)>>
    <3>1. e[1] = s /\ e \in Ran(pending')
      BY <2>3
    <3> HIDE DEF e
    <3> QED
      BY <3>1 DEF Ended
  <2>7. ASSUME NEW t \in heard
        PROVE  /\ t \in crossed' \/ sessionsById'[t] \notin Active
               /\ \A i \in DOMAIN answers' :
                    IsStart(answers'[i]) /\ answers'[i].call.mount = mount' /\ answers'[i].said = t
                      => Ended(t)' # {}
    <3>1. t # s /\ sessionsById'[t] = sessionsById[t]
      BY <2>1, <2>4 DEF PageTypeOK
    <3>2. Ended(t) \subseteq Ended(t)'
      BY <2>3 DEF Ended
    <3> QED
      BY <2>2, <2>4, <3>1, <3>2 DEF EndedInv, IsStart, IsCurrent
  <2> QED
    BY <2>1, <2>5, <2>6, <2>7 DEF EndedInv, IsStart, IsCurrent
<1>5. CASE Take
  <2> SUFFICES ASSUME Cardinality(heard') <= MaxPending
               PROVE  EndedInv'
    BY DEF EndedInv
  <2> DEFINE a == answers[1]
  <2>0. /\ Head(answers) = a /\ AnswerOK(a, mount) /\ 1 \in DOMAIN answers
        /\ heard' = heard /\ crossed' = crossed /\ mount' = mount
        /\ answers # <<>> /\ answers' = Tail(answers)
    BY <1>5, FirstAnswer, TakeEffect DEF mountVars
  <2>1. /\ \A i \in DOMAIN answers' :
             i + 1 \in DOMAIN answers /\ answers'[i] = answers[i + 1] /\ 1 < i + 1
        /\ heard \subseteq Sessions
    <3>1. /\ DOMAIN answers' = 1 .. Len(answers) - 1 /\ Len(answers) \in Nat
          /\ \A i \in DOMAIN answers' : i + 1 \in DOMAIN answers /\ answers'[i] = answers[i + 1]
      BY <2>0, Shorter DEF WireOK
    <3>2. \A i \in DOMAIN answers' : 1 < i + 1
      BY <3>1
    <3> QED
      BY <3>1, <3>2 DEF PageTypeOK
  <2>2. \A t \in heard : t \in crossed \/ sessionsById[t] \notin Active
    BY <2>0 DEF EndedInv
  <2>3. \A t \in heard : \A i \in DOMAIN answers' :
          IsStart(answers'[i]) /\ answers'[i].call.mount = mount /\ answers'[i].said = t
            => Ended(t) # {}
    BY <2>0, <2>1 DEF EndedInv, IsCurrent
  <2>4. ASSUME NEW i \in DOMAIN answers', IsStart(answers'[i])
        PROVE  /\ answers'[i].said \notin told /\ answers'[i].said \in Sessions
               /\ answers'[i].said \notin NamedBy(a)
    <3>1. i + 1 \in DOMAIN answers /\ answers'[i] = answers[i + 1] /\ 1 < i + 1
      BY <2>1
    <3>2. Unheard(answers[i + 1].said, told) /\ Unheard(answers[i + 1].said, NamedBy(answers[1]))
      BY <2>0, <2>4, <3>1 DEF StartsInv
    <3>3. answers[i + 1].said \in Sessions
      BY <2>4, <3>1 DEF WireOK, AnswerOK, IsStart
    <3> QED
      BY <3>1, <3>2, <3>3 DEF Unheard
  <2>5. \A t \in heard : IsList(a) /\ IsCurrent(a) /\ t \notin crossed => a.said.list[t] \notin Active
    <3>1. \A t \in heard : IsList(a) /\ IsCurrent(a) /\ t \in Names(a.said.list) => t \in crossed
      BY <2>0 DEF ListsInv
    <3>2. "none" \notin Active
      BY DEF Active, Runner!Active
    <3> QED
      BY <2>1, <3>1, <3>2 DEF Names
  <2> HIDE DEF a
  <2>6. ASSUME \A t \in heard : t \in crossed \/ sessionsById'[t] \notin Active,
               \A i \in DOMAIN answers' : IsStart(answers'[i]) =>
                 \A e \in Ran(pending) : e[1] = answers'[i].said => e \in Ran(pending')
        PROVE  EndedInv'
    BY <2>0, <2>3, <2>6 DEF EndedInv, IsStart, IsCurrent, Ended
  <2>7. CASE TakeStartup \/ TakeList
    <3>1. IsList(a) /\ IsCurrent(a) /\ pending' = pending
      BY <2>0, <2>7 DEF TakeStartup, TakeList, Arrives, IsList, IsCurrent
    <3>2. \A t \in Sessions :
            sessionsById'[t] = a.said.list[t] \/ sessionsById'[t] = sessionsById[t]
      BY <2>0, <2>7 DEF TakeStartup, TakeList
    <3>3. \A t \in heard : t \in crossed \/ sessionsById'[t] \notin Active
      BY <2>1, <2>2, <2>5, <3>1, <3>2
    <3> QED
      BY <2>6, <3>1, <3>3
  <2>8. CASE TakeStarted
    <3> DEFINE s == a.said
    <3>1. /\ IsStart(a) /\ IsCurrent(a) /\ s \in Sessions /\ NamedBy(a) = {s}
          /\ pending' = NotOf(s)
          /\ \E shown \in (IF Ended(s) = {} THEN {"running"} ELSE {e[2] : e \in Ended(s)}) :
               \A t \in Sessions :
                 sessionsById'[t] =
                   CASE t = s -> shown
                     [] t = lastSession[ProfileOf[s]] /\ t # s -> "none"
                     [] OTHER -> sessionsById[t]
      BY <2>0, <2>8 DEF TakeStarted, Arrives, IsStart, IsCurrent, IsList, NamedBy, AnswerOK
    <3>2. s \in heard => Ended(s) # {}
      BY <2>0, <3>1 DEF EndedInv, a
    <3>3. \A e \in Ended(s) : e[2] \notin Active
      BY ElementOfSeq, LenProperties
         DEF PageTypeOK, Ended, Ran, Terminal, Active, Runner!Terminal, Runner!Active
    <3>4. "none" \notin Active
      BY DEF Active, Runner!Active
    <3> HIDE DEF s
    <3>5. ASSUME NEW t \in heard
          PROVE  t \in crossed \/ sessionsById'[t] \notin Active
      <4>1. t \in Sessions
        BY <2>1
      <4>2. CASE t = s
        BY <3>1, <3>2, <3>3, <4>1, <4>2
      <4>3. CASE t # s
        BY <2>2, <3>1, <3>4, <4>1, <4>3
      <4> QED
        BY <4>2, <4>3
    <3>6. \A e \in Ran(pending) : e[1] # s => e \in Ran(pending')
      BY <3>1, Dropped DEF Ended
    <3> QED
      BY <2>4, <2>6, <3>1, <3>5, <3>6
  <2>9. CASE TakeStopped
    <3>1. pending' = pending /\ \A t \in Sessions :
            sessionsById'[t] \in Active => sessionsById[t] \in Active
      BY <2>9 DEF TakeStopped, PageTypeOK
    <3> QED
      BY <2>1, <2>2, <2>6, <3>1
  <2>10. CASE TakeRemoved
    <3> DEFINE last == lastSession[a.said]
    <3>1. /\ pending' = NotOf(last) /\ a.said \in Profiles
          /\ \A t \in Sessions : sessionsById'[t] = IF t = last THEN "none" ELSE sessionsById[t]
      BY <2>0, <2>10 DEF TakeRemoved, Arrives, AnswerOK
    <3>2. last = NoSession \/ last \in told
      BY <3>1 DEF LastInv
    <3>3. "none" \notin Active
      BY DEF Active, Runner!Active
    <3> HIDE DEF last
    <3>4. \A e \in Ran(pending) : e[1] # last => e \in Ran(pending')
      BY <3>1, Dropped DEF Ended
    <3>5. \A t \in heard : t \in crossed \/ sessionsById'[t] \notin Active
      BY <2>1, <2>2, <3>1, <3>3
    <3> QED
      BY <2>4, <2>6, <3>2, <3>4, <3>5, PageAssumption
  <2>11. CASE TakeStale
    BY <2>2, <2>6, <2>11 DEF TakeStale, tableVars
  <2> QED
    BY <1>5, <2>7, <2>8, <2>9, <2>10, <2>11 DEF Take
<1> QED
  BY <1>0, <1>1, <1>2, <1>3, <1>4, <1>5 DEF Plain

\* No answer about an older session takes the one that owns the profile off the table.
LEMMA RunningStep ==
  ASSUME PageInv, [Next]_vars
  PROVE  RunningStaysShown'
<1> /\ PageTypeOK /\ WireOK /\ OwnersInv /\ SeenInv /\ StartsInv /\ StartupInv /\ LastInv
    /\ RunningStaysShown
  BY DEF PageInv
<1>0. Plain \/ Remount \/ Run \/ Take \/ \E s \in Sessions : EventArrives(s)
  BY Steps
<1> USE DEF RunningStaysShown
\* Who is told of and owns a profile now did so before.
<1>1. ASSUME NEW p \in Profiles, owner'[p] \in told, told \subseteq Sessions
      PROVE  owner'[p] = owner[p]
  BY <1>1, PageAssumption, RunnerMoves DEF SeenInv
<1>2. told \subseteq Sessions
  BY DEF PageTypeOK
<1>3. CASE told' = told /\ sessionsById' = sessionsById
  BY <1>1, <1>2, <1>3
<1>4. CASE Remount
  BY <1>4 DEF Remount
<1>5. ASSUME NEW s \in Sessions, EventArrives(s)
      PROVE  RunningStaysShown'
  <2>1. /\ told' = told /\ life[s] \notin Active
        /\ \A t \in Sessions : t # s => sessionsById'[t] = sessionsById[t]
    BY <1>5 DEF EventArrives, Active, Terminal, Runner!Active, Runner!Terminal, PageTypeOK
  <2>2. ASSUME NEW p \in Profiles, owner'[p] \in told
        PROVE  sessionsById'[owner'[p]] \in Active
    <3>1. owner'[p] = owner[p] /\ owner[p] \in Sessions /\ owner[p] # NoSession
      BY <1>1, <1>2, <2>2, PageAssumption
    <3>2. owner[p] # s
      BY <2>1, <3>1 DEF OwnersInv
    <3> QED
      BY <2>1, <2>2, <3>1, <3>2
  <2> QED
    BY <2>1, <2>2
<1>6. CASE Take
  <2> DEFINE a == answers[1]
  <2>0. /\ Head(answers) = a /\ AnswerOK(a, mount) /\ 1 \in DOMAIN answers
        /\ UNCHANGED runnerVars
    BY <1>6, FirstAnswer, TakeEffect
  <2>1. owner' = owner /\ life' = life
    BY <2>0 DEF runnerVars
  <2>2. \A p \in Profiles : owner[p] \in Sessions =>
          ProfileOf[owner[p]] = p /\ life[owner[p]] \in Active /\ p \in profiles
    BY PageAssumption DEF OwnersInv
  <2>3. "none" \notin Active
    BY DEF Active, Runner!Active
  <2>4. CASE TakeStartup \/ TakeList
    <3>1. /\ IsList(a) /\ told' = told \cup Names(a.said.list)
          /\ a.said.list \in [Sessions -> {"none"} \cup Active]
      BY <2>0, <2>4 DEF TakeStartup, TakeList, Arrives, IsList, AnswerOK
    <3>2. TakeStartup => told = {} /\ sessionsById' = a.said.list
      BY <2>0 DEF StartupInv, TakeStartup, Arrives, IsCurrent
    <3>3. TakeList => \A t \in Sessions :
            sessionsById'[t] = IF a.said.list[t] # "none" THEN a.said.list[t] ELSE sessionsById[t]
      BY <2>0 DEF TakeList
    <3>4. \A t \in Names(a.said.list) : t \in Sessions /\ a.said.list[t] \in Active
      BY <3>1 DEF Names
    <3> HIDE DEF a
    <3> QED
      BY <1>2, <2>1, <2>4, <3>1, <3>2, <3>3, <3>4 DEF Names
  <2>5. CASE TakeStarted
    <3> DEFINE s == a.said
               previous == lastSession[ProfileOf[s]]
    <3>1. /\ IsStart(a) /\ s \in Sessions /\ told' = told \cup {s}
          /\ \E shown \in (IF Ended(s) = {} THEN {"running"} ELSE {e[2] : e \in Ended(s)}) :
               \A t \in Sessions :
                 sessionsById'[t] =
                   CASE t = s -> shown
                     [] t = previous /\ t # s -> "none"
                     [] OTHER -> sessionsById[t]
      <4>1. IsStart(a) /\ s \in Sessions
        BY <2>0, <2>5 DEF TakeStarted, Arrives, IsStart, AnswerOK
      <4> QED
        BY <2>0, <2>5, <4>1 DEF TakeStarted
    <3>2. s \notin told /\ owner[ProfileOf[s]] \notin told /\ ProfileOf[s] \in Profiles
      BY <2>0, <3>1, PageAssumption DEF StartsInv, Unheard
    <3>3. previous # NoSession => ProfileOf[previous] = ProfileOf[s]
      BY <3>2 DEF LastInv
    <3>4. Ended(s) # {} => life[s] \notin Active
      BY DEF Ended, PendingInv, PageInv, OwnersInv, Terminal, Active, Runner!Terminal, Runner!Active
    <3>5. "running" \in Active
      BY DEF Active, Runner!Active
    <3> HIDE DEF s, previous
    <3>6. ASSUME NEW p \in Profiles, owner[p] \in told'
          PROVE  sessionsById'[owner[p]] \in Active
      <4>1. owner[p] \in Sessions /\ ProfileOf[owner[p]] = p /\ life[owner[p]] \in Active
        BY <1>2, <2>2, <3>1, <3>6
      <4>2. CASE owner[p] = s
        BY <3>1, <3>4, <3>5, <4>1, <4>2
      <4>3. CASE owner[p] # s
        <5>1. owner[p] \in told /\ sessionsById[owner[p]] \in Active
          BY <3>1, <3>6, <4>3
        <5>2. owner[p] # previous
          BY <3>2, <3>3, <4>1, <5>1, PageAssumption
        <5> QED
          BY <3>1, <4>1, <4>3, <5>1, <5>2
      <4> QED
        BY <4>2, <4>3
    <3> QED
      BY <2>1, <3>6
  <2>6. CASE TakeStopped
    <3>1. told' = told /\ \A t \in Sessions :
            sessionsById[t] \in Active => sessionsById'[t] \in Active
      BY <2>6 DEF TakeStopped, PageTypeOK, Active, Runner!Active
    <3> QED
      BY <1>2, <2>1, <3>1
  <2>7. CASE TakeRemoved
    <3> DEFINE last == lastSession[a.said]
    <3>1. /\ told' = told /\ a.said \in Profiles /\ a.said \notin profiles
          /\ \A t \in Sessions : sessionsById'[t] = IF t = last THEN "none" ELSE sessionsById[t]
      BY <2>0, <2>7 DEF TakeRemoved, Arrives, AnswerOK, OwnersInv
    <3>2. last # NoSession => ProfileOf[last] = a.said
      BY <3>1 DEF LastInv
    <3> HIDE DEF last, a
    <3>3. ASSUME NEW p \in Profiles, owner[p] \in told
          PROVE  owner[p] # last /\ owner[p] \in Sessions
      BY <1>2, <2>2, <3>1, <3>2, <3>3, PageAssumption
    <3> QED
      BY <2>1, <3>1, <3>3
  <2>8. CASE TakeStale
    BY <1>3, <2>8 DEF TakeStale, tableVars
  <2> QED
    BY <1>6, <2>4, <2>5, <2>6, <2>7, <2>8 DEF Take
<1>7. CASE Plain \/ Run
  BY <1>3, <1>7, RunEffect DEF Plain, tableVars, history
<1> QED
  BY <1>0, <1>4, <1>5, <1>6, <1>7

-----------------------------------------------------------------------------

\* Nothing is known and the first list is called.
LEMMA PageStart == Init => PageInv
<1> SUFFICES ASSUME Init PROVE PageInv
  OBVIOUS
<1>0. /\ Ran(calls) = {Call("startup", NoSession, 1)} /\ DOMAIN calls = {1}
      /\ calls[1] = Call("startup", NoSession, 1) /\ calls \in Seq(Ran(calls))
      /\ answers \in Seq(Ran(answers)) /\ DOMAIN answers = {} /\ pending \in Seq(Sessions \X Terminal)
      /\ Len(pending) = 0 /\ Ran(pending) = {}
  BY DEF Init, Ran
<1>1. PageTypeOK
  BY <1>0 DEF Init, Runner!Init, Runner!TypeOK, PageTypeOK, NoRows, NoLast
<1>2. WireOK
  BY <1>0 DEF Init, WireOK, CallOK, Call
<1>3. OwnersInv /\ SeenInv /\ StartsInv /\ LastInv /\ ListsInv /\ EndedInv /\ RunningStaysShown
  BY <1>0 DEF Init, Runner!Init, OwnersInv, SeenInv, StartsInv, LastInv, ListsInv, EndedInv,
     RunningStaysShown, NoLast
<1>4. StartupInv
  BY <1>0 DEF Init, StartupInv
<1>5. PendingInv
  BY <1>0, FS_EmptySet DEF Init, PendingInv
<1> QED
  BY <1>1, <1>2, <1>3, <1>4, <1>5 DEF PageInv

\* What late answers may still name and what the table shows, for any number of
\* sessions, mounts, clicks and remembered events.
THEOREM PageInvariant == Spec => []PageInv
<1>1. PageInv /\ [Next]_vars => PageInv'
  BY PageTypeStep, WireStep, OwnersStep, SeenStep, StartsStep, StartupStep, LastStep, PendingStep,
     ListsStep, EndedStep, RunningStep DEF PageInv
<1> QED
  BY PageStart, <1>1, PTL DEF Spec

\* A session whose final event reached the page is not shown active again by the late
\* answer of its start, a stop or a list, unless that list was under way.
THEOREM EndedIsNotActive == Spec => []EndedIsShownEnded
<1>1. PageInv => EndedIsShownEnded
  BY DEF PageInv, EndedInv, EndedIsShownEnded
<1> QED
  BY <1>1, PageInvariant, PTL

\* A session the page was told of and that owns its profile is shown active whatever
\* answers about its predecessors arrive: it can be stopped, and its profile is not
\* offered for another start.
THEOREM RunningIsActive == Spec => []RunningStaysShown
<1>1. PageInv => RunningStaysShown
  BY DEF PageInv
<1> QED
  BY <1>1, PageInvariant, PTL

\* What the page and its commands do to sessions is what SessionLifecycle allows, and
\* CommandRunner implements it: a page over the real runner sees no other states.
THEOREM PageKeepsLifecycle == Spec => Runner!Safety
<1>1. Init => Runner!Init
  BY DEF Init
<1>2. PageInv /\ [Next]_vars => [Runner!Next]_(Runner!vars)
  <2> SUFFICES ASSUME PageInv, [Next]_vars PROVE Runner!Next \/ UNCHANGED Runner!vars
    OBVIOUS
  <2>1. CASE UNCHANGED <<life, owner>>
    BY <2>1 DEF Runner!vars
  <2>2. CASE ~UNCHANGED <<life, owner>>
    <3>1. PICK s \in Sessions :
            \/ Runner!Release(s) \/ Runner!Finish(s) \/ Runner!Forget({s})
            \/ Runner!RequestStop(s) \/ Runner!Register(s)
      BY <2>2, RunnerSteps DEF PageInv
    <3>2. {s} \in SUBSET Sessions
      OBVIOUS
    <3> QED
      BY <3>1, <3>2 DEF Runner!Next
  <2> QED
    BY <2>1, <2>2
<1> QED
  BY <1>1, <1>2, PageInvariant, PTL DEF Spec, Runner!Safety

=============================================================================
