---------------------------- MODULE ProjectScanner ----------------------------
(***************************************************************************)
(* scan_project_directory: a recursive walk over the folders of a project, *)
(* three levels deep, that collects the build files it finds and what they *)
(* suggest to run. The disk may change while it runs: each look at it is a *)
(* step of its own.                                                        *)
(*                                                                         *)
(* A path is the sequence of its components. tree.leads says where the     *)
(* path of a folder ends once links are followed (canonicalize), and       *)
(* tree.files what build files such a folder holds, with the marks of      *)
(* their content that count: script names for package.json, "aggregator"   *)
(* and "spring boot" for Java builds, and Unreadable (not UTF-8, locked).  *)
(* A script may have any name: a sequence of words and of the characters   *)
(* the command policy looks at (CommandPolicy).                            *)
(***************************************************************************)
EXTENDS Naturals, Sequences, FiniteSets, TLC

CONSTANTS
  Paths,          \* paths of folders, of this project and beside it
  Nowhere,        \* what a path leads to that is not there, or no folder
  Unreadable,     \* mark of a file that cannot be read
  SkipNames,      \* SKIP_DIRECTORIES
  Trees,          \* contents the disk may have
  ProjectPaths,   \* folders a user may scan
  MAX_SCAN_DEPTH,
  MaxScans,       \* bound: scans of a run
  MaxChanges      \* bound: changes of the disk of a run

Scripts(files) == files["package.json"] \ {Unreadable}

\* Where links lead is where they end.
ASSUME ScanAssumption ==
  /\ Paths \subseteq Seq(STRING)
  /\ Nowhere \notin Paths
  /\ ProjectPaths \subseteq Paths
  /\ MAX_SCAN_DEPTH \in Nat \ {0}
  /\ \A t \in Trees :
       /\ t.leads \in [Paths -> Paths \cup {Nowhere}]
       /\ \A p \in Paths : t.leads[p] # Nowhere => t.leads[t.leads[p]] = t.leads[p]
       /\ \A p \in Paths :
            t.leads[p] = p /\ "package.json" \in DOMAIN t.files[p] =>
              Scripts(t.files[p]) \in SUBSET Seq(STRING) /\ IsFiniteSet(Scripts(t.files[p]))

VARIABLES
  tree,     \* the disk: leads, files, and the folders that cannot be listed
  phase,    \* where the scan is: "idle", "look", "read", "list", "walk", "done", "failed"
  root,     \* canonical path of the folder being scanned
  stack,    \* calls of scan_tree: a folder and the entries not visited yet
  at,       \* the evidence file the innermost call looks at
  out,      \* the candidates found
  scans, changes,
  calm      \* history: the disk has not changed since the scan began

scanVars == <<phase, root, stack, at, out, scans>>
diskVars == <<tree, changes, calm>>

EVIDENCE_FILES ==
  <<"package.json", "pom.xml", "build.gradle", "build.gradle.kts",
    "requirements.txt", "pyproject.toml", "composer.json", "Cargo.toml">>

StackOf(file) ==
  CASE file = "package.json" -> "node"
    [] file = "pom.xml" -> "maven"
    [] file \in {"build.gradle", "build.gradle.kts"} -> "gradle"
    [] file \in {"requirements.txt", "pyproject.toml"} -> "python"
    [] file = "composer.json" -> "php"
    [] file = "Cargo.toml" -> "rust"

NODE_SCRIPT_PRIORITY == <<<<"dev">>, <<"start">>, <<"serve">>, <<"develop">>, <<"watch">>>>

Within(path, dir) ==
  Len(dir) <= Len(path) /\ SubSeq(path, 1, Len(dir)) = dir

Name(path) == path[Len(path)]

ChildrenOf(dir) == {p \in Paths : Len(p) = Len(dir) + 1 /\ Within(p, dir)}

\* The build files one finds under a path now.
FilesAt(dir) == IF tree.leads[dir] = Nowhere THEN <<>> ELSE tree.files[tree.leads[dir]]

-----------------------------------------------------------------------------
(* What one evidence file suggests.                                        *)

NoCommand == <<>>

NpmRun(script) == <<"npm", " ", "run", " ">> \o script

Verdict(status, command, group) ==
  [status |-> status, command |-> command, group |-> group]

preferred_node_scripts(scripts) ==
  {i \in 1 .. Len(NODE_SCRIPT_PRIORITY) : NODE_SCRIPT_PRIORITY[i] \in scripts}

NodeVerdict(dir, scripts) ==
  LET preferred == preferred_node_scripts(scripts)
      best  == NODE_SCRIPT_PRIORITY[CHOOSE i \in preferred : \A j \in preferred : i <= j]
      group == <<"node-scripts", dir>>
  IN CASE Cardinality(preferred) = 1 -> Verdict("READY", NpmRun(best), <<>>)
       [] Cardinality(preferred) > 1 -> Verdict("NEEDS_CONFIRMATION", NpmRun(best), group)
       [] preferred = {} /\ Cardinality(scripts) = 1 ->
            Verdict("READY", NpmRun(CHOOSE s \in scripts : TRUE), <<>>)
       [] preferred = {} /\ Cardinality(scripts) > 1 ->
            Verdict("CONFLICT", NoCommand, group)
       [] scripts = {} -> Verdict("EVIDENCE_ONLY", NoCommand, <<>>)

\* Variant: a wrapper is a batch file, so it is given to cmd.
ThroughCmd(files, wrapper, tool) ==
  IF wrapper \in DOMAIN files THEN <<"cmd", " ", "/C", " ", wrapper>> ELSE <<tool>>

Wrapped(files, wrapper, tool) ==
  IF wrapper \in DOMAIN files THEN <<".", "\\", wrapper>> ELSE <<tool>>

\* Plugin, parent, starter or dependencies of Spring Boot.
is_spring_boot_maven(marks) == "spring boot" \in marks

MavenVerdict(files, marks) ==
  CASE "aggregator" \in marks -> Verdict("EVIDENCE_ONLY", NoCommand, <<>>)
    [] "aggregator" \notin marks /\ is_spring_boot_maven(marks) ->
         Verdict("NEEDS_CONFIRMATION",
                 Wrapped(files, "mvnw.cmd", "mvn") \o <<" ", "spring-boot:run">>, <<>>)
    [] OTHER -> Verdict("NEEDS_CONFIRMATION", NoCommand, <<>>)

GradleVerdict(files, marks) ==
  Verdict("NEEDS_CONFIRMATION",
          IF "spring boot" \in marks
          THEN Wrapped(files, "gradlew.bat", "gradle") \o <<" ", "bootRun">>
          ELSE NoCommand, <<>>)

RustVerdict(files) ==
  IF "src/main.rs" \in DOMAIN files
  THEN Verdict("NEEDS_CONFIRMATION", <<"cargo", " ", "run">>, <<>>)
  ELSE Verdict("EVIDENCE_ONLY", NoCommand, <<>>)

\* build_candidate. The id, a hash of the folder relative to the root, the
\* file and the stack, says no more than these fields.
Candidate(dir, file, files) ==
  LET stack_ == StackOf(file)
      v == CASE stack_ = "node"   -> NodeVerdict(dir, files[file])
             [] stack_ = "maven"  -> MavenVerdict(files, files[file])
             [] stack_ = "gradle" -> GradleVerdict(files, files[file])
             [] stack_ = "rust"   -> RustVerdict(files)
             [] OTHER -> Verdict("EVIDENCE_ONLY", NoCommand, <<>>)
  IN [dir |-> dir, file |-> file, stack |-> stack_,
      status |-> v.status, command |-> v.command, group |-> v.group]

\* The stacks whose evidence is read, not only looked at.
ReadsContent == {"node", "maven", "gradle"}

JavaBuilds == {"maven", "gradle"}

\* mark_conflicts: two Java builds in one folder are a conflict, and so shown.
Marked(C) ==
  LET Builds(dir) == {c.stack : c \in {d \in C : d.dir = dir}} IN
  {IF c.stack \in JavaBuilds /\ JavaBuilds \subseteq Builds(c.dir)
   THEN [c EXCEPT !.status = "CONFLICT", !.group = <<"java-build-system", c.dir>>]
   ELSE c : c \in C}

-----------------------------------------------------------------------------
(* The walk.                                                               *)

ScanInit ==
  /\ tree \in Trees
  /\ phase = "idle"
  /\ root = Nowhere
  /\ stack = <<>>
  /\ at = 1
  /\ out = {}
  /\ scans = 0
  /\ changes = 0
  /\ calm = TRUE

Call(dir) == [dir |-> dir, left |-> {}]

Top == stack[Len(stack)]

\* The level scan_tree is called with.
Level == Len(stack)

ScanBegin(p) ==
  /\ phase = "idle"
  /\ scans < MaxScans
  /\ scans' = scans + 1
  /\ calm' = TRUE
  /\ root' = tree.leads[p]
  /\ at' = 1
  /\ out' = {}
  /\ IF tree.leads[p] = Nowhere
     THEN phase' = "failed" /\ UNCHANGED stack
     ELSE phase' = "look" /\ stack' = <<Call(tree.leads[p])>>
  /\ UNCHANGED <<tree, changes>>

ScanFails ==
  /\ phase' = "failed"
  /\ stack' = <<>>
  /\ out' = {}

\* is_file() of the next evidence file.
Look ==
  /\ phase = "look"
  /\ IF at > Len(EVIDENCE_FILES)
     THEN phase' = "list" /\ UNCHANGED at
     ELSE IF EVIDENCE_FILES[at] \in DOMAIN FilesAt(Top.dir)
          THEN phase' = "read" /\ UNCHANGED at
          ELSE at' = at + 1 /\ UNCHANGED phase
  /\ UNCHANGED <<diskVars, root, stack, out, scans>>

Read(file, files) ==
  /\ file \in DOMAIN files
  /\ Unreadable \notin files[file]

\* Variant: every file of a stack is a candidate.
AddAlways(c) == out' = out \cup {c}

\* The first file of a stack in a folder stands for it.
AddOnce(c) ==
  out' = IF \E d \in out : d.dir = c.dir /\ d.stack = c.stack THEN out ELSE out \cup {c}

\* build_candidate. A file that was there a moment ago and cannot be read fails
\* the whole scan.
Build ==
  /\ phase = "read"
  /\ LET file  == EVIDENCE_FILES[at]
         files == FilesAt(Top.dir)
         known == IF file \in DOMAIN files THEN files ELSE (file :> {}) @@ files
     IN IF StackOf(file) \in ReadsContent /\ ~Read(file, files)
        THEN ScanFails /\ UNCHANGED at
        ELSE /\ AddOnce(Candidate(Top.dir, file, known))
             /\ at' = at + 1
             /\ phase' = "look"
             /\ UNCHANGED stack
  /\ UNCHANGED <<diskVars, root, scans>>

\* scan_tree returns to its caller; mark_conflicts follows the outermost return.
Return ==
  /\ stack' = SubSeq(stack, 1, Level - 1)
  /\ IF Level > 1
     THEN phase' = "walk" /\ UNCHANGED out
     ELSE phase' = "done" /\ out' = Marked(out)

MayDescend == Level < MAX_SCAN_DEPTH

Listable(dir) == tree.leads[dir] # Nowhere /\ tree.leads[dir] \notin tree.unlisted

\* The entries read_dir may list: what leads nowhere is not there, or it is a
\* file or a link that does not lead to a folder yet.
Listings(dir) ==
  {e \in SUBSET ChildrenOf(dir) : \A p \in ChildrenOf(dir) \ e : tree.leads[p] = Nowhere}

\* read_scan_entries: only the root of the scan has to be listed.
List ==
  /\ phase = "list"
  /\ \/ ~MayDescend /\ Return
     \/ MayDescend /\ ~Listable(Top.dir) /\ IF Level = 1 THEN ScanFails ELSE Return
     \/ /\ MayDescend /\ Listable(Top.dir)
        /\ \E entries \in Listings(Top.dir) : stack' = [stack EXCEPT ![Level].left = entries]
        /\ phase' = "walk"
        /\ UNCHANGED out
  /\ UNCHANGED <<diskVars, root, at, scans>>

\* Variant: the entry's own path is compared with the root, not where it leads.
EntryInRoot(p) == tree.leads[p] # Nowhere /\ Within(p, root)

\* canonical_child_within_root
canonical_child_within_root(p) ==
  tree.leads[p] # Nowhere /\ Within(tree.leads[p], root)

should_skip_directory(p) == Name(p) \in SkipNames

\* One entry, in whatever order the folder lists them.
Walk ==
  /\ phase = "walk"
  /\ IF Top.left = {} THEN Return /\ UNCHANGED at
     ELSE \E p \in Top.left :
            LET rest == [stack EXCEPT ![Level].left = @ \ {p}] IN
            /\ IF ~should_skip_directory(p) /\ canonical_child_within_root(p)
               THEN /\ stack' = Append(rest, Call(tree.leads[p]))
                    /\ phase' = "look"
                    /\ at' = 1
               ELSE stack' = rest /\ UNCHANGED <<phase, at>>
            /\ UNCHANGED out
  /\ UNCHANGED <<diskVars, root, scans>>

ScanStep == Look \/ Build \/ List \/ Walk

\* The answer is shown, and the page goes on to something else.
ScanLeave ==
  /\ phase \in {"done", "failed"}
  /\ phase' = "idle"
  /\ root' = Nowhere
  /\ at' = 1
  /\ out' = {}
  /\ UNCHANGED <<diskVars, stack, scans>>

\* Somebody else edits, moves, links or removes folders and files.
ChangeDisk ==
  /\ changes < MaxChanges
  /\ changes' = changes + 1
  /\ tree' \in Trees \ {tree}
  /\ calm' = FALSE
  /\ UNCHANGED scanVars

ScanNext == (\E p \in ProjectPaths : ScanBegin(p)) \/ ScanStep \/ ScanLeave

-----------------------------------------------------------------------------
(* Properties.                                                             *)

\* Where the entries of a folder lead that are not skipped and stay within.
Entered(d) ==
  {tree.leads[p] : p \in {q \in ChildrenOf(d) : /\ d \notin tree.unlisted
                                                /\ ~should_skip_directory(q)
                                                /\ canonical_child_within_root(q)}}

\* The folders within n levels from d.
ReachedFrom(d) ==
  LET up[n \in 1 .. MAX_SCAN_DEPTH] ==
        IF n = 1 THEN {d} ELSE up[n - 1] \cup UNION {Entered(e) : e \in up[n - 1]}
  IN up

\* What a scan has to find: the folders within MAX_SCAN_DEPTH of the root,
\* over entries that are not skipped and do not lead out of it, and in each of
\* them the first evidence of each stack.
Reached == ReachedFrom(root)[MAX_SCAN_DEPTH]

EvidenceIn(files) == DOMAIN files \cap {EVIDENCE_FILES[i] : i \in 1 .. Len(EVIDENCE_FILES)}

FirstEvidence(files) ==
  {file \in EvidenceIn(files) :
     \A i, j \in 1 .. Len(EVIDENCE_FILES) :
       /\ EVIDENCE_FILES[i] \in DOMAIN files
       /\ EVIDENCE_FILES[j] = file
       /\ StackOf(EVIDENCE_FILES[i]) = StackOf(file)
       => j <= i}

TwoJavaBuilds(files) ==
  "pom.xml" \in DOMAIN files /\ {"build.gradle", "build.gradle.kts"} \cap DOMAIN files # {}

Expected ==
  UNION {
    LET files == tree.files[d] IN
    {LET c == Candidate(d, file, files) IN
       IF c.stack \in JavaBuilds /\ TwoJavaBuilds(files)
       THEN [c EXCEPT !.status = "CONFLICT", !.group = <<"java-build-system", d>>] ELSE c :
       file \in FirstEvidence(files)} : d \in Reached}

\* Nothing comes of a scan whose root cannot be listed, or of any build file in
\* reach that cannot be read.
Hopeless ==
  \/ root = Nowhere
  \/ root \in tree.unlisted /\ MAX_SCAN_DEPTH > 1
  \/ \E d \in Reached : \E file \in EvidenceIn(tree.files[d]) :
       Unreadable \in tree.files[d][file] /\ StackOf(file) \in ReadsContent

\* However entries are ordered and links lead, a scan the disk did not change
\* under finds each stack of each folder in reach once, and nothing else; or it
\* fails, and then with reason.
ScanExact ==
  calm => /\ phase = "done" => ~Hopeless /\ out = Expected
          /\ phase = "failed" => Hopeless

\* Whatever happens to the disk meanwhile, links in circles and links out of
\* the project among it, the recursion stays within MAX_SCAN_DEPTH calls and no
\* candidate names a folder outside of the root.
ScanConfined ==
  /\ Len(stack) <= MAX_SCAN_DEPTH
  /\ \A c \in out : Within(c.dir, root)

\* What keeps it so: every call is about a folder within the root, and a folder
\* is entered only from a call that may descend.
ScanInv ==
  /\ tree \in Trees
  /\ phase \in {"idle", "look", "read", "list", "walk", "done", "failed"}
  /\ stack \in Seq([dir : Paths, left : SUBSET Paths])
  /\ Len(stack) <= MAX_SCAN_DEPTH
  /\ phase = "walk" => MayDescend
  /\ IF phase \in {"look", "read", "list", "walk"}
     THEN Len(stack) > 0 /\ root \in Paths ELSE stack = <<>>
  /\ \A i \in 1 .. Len(stack) : Within(stack[i].dir, root)
  /\ \A c \in out :
       /\ Within(c.dir, root)
       /\ c = [dir |-> c.dir, file |-> c.file, stack |-> c.stack, status |-> c.status,
               command |-> c.command, group |-> c.group]

\* Of the first n evidence files those that are in d could be read, and each of
\* their stacks has its candidate.
Looked(d, n) ==
  \A i \in 1 .. n :
    EVIDENCE_FILES[i] \in DOMAIN tree.files[d] =>
      /\ StackOf(EVIDENCE_FILES[i]) \in ReadsContent =>
           Unreadable \notin tree.files[d][EVIDENCE_FILES[i]]
      /\ \E c \in out : c.dir = d /\ c.stack = StackOf(EVIDENCE_FILES[i])

Searched(d) == Looked(d, Len(EVIDENCE_FILES))

\* Every entry of the folder of call i is left, being walked, or behind.
Covered(i) ==
  \A d \in Entered(stack[i].dir) :
    \/ \E p \in stack[i].left :
         ~should_skip_directory(p) /\ canonical_child_within_root(p) /\ tree.leads[p] = d
    \/ i < Len(stack) /\ stack[i + 1].dir = d
    \/ \A e \in ReachedFrom(d)[MAX_SCAN_DEPTH - i] : Searched(e)

\* How a walk on a disk at rest gets there: what is known of call i, ...
CallInv(i) ==
  /\ tree.leads[stack[i].dir] = stack[i].dir
  /\ stack[i].dir \in ReachedFrom(root)[i]
  /\ i < Len(stack) \/ phase = "walk" =>
       /\ Searched(stack[i].dir)
       /\ stack[i].dir \notin tree.unlisted
       /\ stack[i].left \subseteq ChildrenOf(stack[i].dir)
       /\ Covered(i)

\* ... of the folder it looks into, ...
LookInv ==
  /\ phase \in {"look", "read"} => at \in 1 .. Len(EVIDENCE_FILES) + 1 /\ Looked(Top.dir, at - 1)
  /\ phase = "read" =>
       at <= Len(EVIDENCE_FILES) /\ EVIDENCE_FILES[at] \in DOMAIN tree.files[Top.dir]
  /\ phase = "list" => Searched(Top.dir)

\* ... and of what it has found.
FoundInv ==
  \A c \in out :
    /\ c.dir \in Reached
    /\ \E file \in FirstEvidence(tree.files[c.dir]) :
         c = Candidate(c.dir, file, tree.files[c.dir])

WalkInv ==
  /\ stack[1].dir = root
  /\ tree.leads[root] = root
  /\ \A i \in 1 .. Len(stack) : CallInv(i)
  /\ LookInv
  /\ FoundInv

ExactInv ==
  calm => /\ phase \in {"look", "read", "list", "walk"} => WalkInv
          /\ phase = "done" => root \in Paths /\ tree.leads[root] = root
          /\ ScanExact

=============================================================================
