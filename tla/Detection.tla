------------------------------ MODULE Detection ------------------------------
(***************************************************************************)
(* What environment_detector lists of a machine under given settings.      *)
(*                                                                         *)
(* A machine m says which executable a path leads to when it is resolved   *)
(* and run (real), or Broken, and where paths are found: what the where    *)
(* command prints, the directories of PATH, and the registry. Settings c   *)
(* have at most one override and one hint per kind, and disabled kinds.    *)
(***************************************************************************)
EXTENDS Naturals, Sequences, SequencesExt

CONSTANTS
  KindOrder,   \* RUNTIME_KINDS, in the order of their names
  Paths,       \* paths as they are spelled, numbered in their order
  NoPath,      \* no override, no hint, or the path of a placeholder
  Broken       \* a path that is no file, does not run or does not resolve

Kinds == ToSet(KindOrder)

ASSUME DetectionAssumption ==
  /\ Paths \subseteq Nat
  /\ NoPath \notin Paths

Enabled(c) == Kinds \ c.disabled

-----------------------------------------------------------------------------

\* source_priority
Rank == [manual |-> 0, native |-> 1, environment |-> 2, registry |-> 3]

Given(p) == {p} \ {NoPath}

\* The paths of a kind with the places they were found in. PATH is searched
\* only when where prints nothing.
Found(k, c, m) ==
  (Given(c.overrides[k]) \X {"manual"})
    \cup (m.where[k] \X {"native"})
    \cup (Given(c.hints[k]) \X {"environment"})
    \cup ((IF m.where[k] = {} THEN m.path[k] ELSE {}) \X {"environment"})
    \cup (m.registry[k] \X {"registry"})

\* Variant: the ranks are compared the wrong way round, so the worst is kept.
MergedFirst(found) ==
  {e \in found : \A o \in found : o[1] = e[1] => Rank[e[2]] >= Rank[o[2]]}

\* insert_path: of a path found in several places the best is kept.
Merged(found) ==
  {e \in found : \A o \in found : o[1] = e[1] => Rank[e[2]] <= Rank[o[2]]}

\* The order in which entries are validated.
Before(a, b) ==
  \/ Rank[a[2]] < Rank[b[2]]
  \/ Rank[a[2]] = Rank[b[2]] /\ a[1] < b[1]

\* Of the paths to one executable the first is listed; a path that fails
\* validation is listed only when the user has configured it.
Listed(entries, m) ==
  {e \in entries :
     IF m.real[e[1]] = Broken
     THEN e[2] = "manual"
     ELSE \A o \in entries : Before(o, e) => m.real[o[1]] # m.real[e[1]]}

Row(k, e, m) ==
  [kind |-> k, path |-> e[1], source |-> e[2],
   status |-> IF m.real[e[1]] = Broken THEN "invalid" ELSE "valid"]

\* What stands for a kind of which nothing is listed.
Placeholder(k) ==
  [kind |-> k, path |-> NoPath, source |-> "environment", status |-> "unknown"]

\* collect_kind
CollectKind(k, c, m) ==
  LET listed == Listed(Merged(Found(k, c, m)), m) IN
  IF listed = {} THEN {Placeholder(k)} ELSE {Row(k, e, m) : e \in listed}

\* list_candidates for all kinds.
Detect(c, m) == UNION {CollectKind(k, c, m) : k \in Enabled(c)}

-----------------------------------------------------------------------------

\* What detection_fingerprint hashes. Nothing marks where the overrides, the
\* hints and the disabled kinds begin.
Fingerprint(c) ==
  LET pairs(f) ==
        FlattenSeq([i \in DOMAIN KindOrder |->
                      IF f[KindOrder[i]] = NoPath
                      THEN <<>> ELSE <<KindOrder[i], f[KindOrder[i]]>>])
  IN pairs(c.overrides) \o pairs(c.hints)
       \o SelectSeq(KindOrder, LAMBDA k : k \in c.disabled)

=============================================================================
