---------------------------- MODULE MCProjectLaunch ----------------------------
(***************************************************************************)
(* An instance of ProjectLaunch for TLC.                                   *)
(***************************************************************************)
EXTENDS ProjectLaunch

CONSTANTS f1, f2, s1, s2, t1, t2

P    == <<"p">>
Api  == <<"p", "api">>
Core == <<"p", "api", "core">>
Deep == <<"p", "api", "core", "deep">>
Gen  == <<"p", "target">>
Link == <<"p", "link">>
Out  == <<"o">>
OutCore == <<"o", "core">>

SomePaths == {P, Api, Core, Deep, Gen, Link, Out, OutCore}
TheRoot == P
Roots == {P}

Itself == [p \in SomePaths |-> p]

\* Names a script may have: two commands, one in quotes, a quote that is left
\* open, and blanks around.
TwoCommands == <<"lint", " ", "&", " ", "fix">>
InQuotes    == <<Quote, "lint", "&", "fix", Quote, " ">>
OpenQuote   == <<"lint", Quote>>
Padded      == <<" ", "lint", " ">>

Files ==
  (P :> ("package.json" :> {<<"dev">>, <<"build">>} @@ "Cargo.toml" :> {})) @@
  (Api :> ("pom.xml" :> {"aggregator"} @@ "build.gradle" :> {})) @@
  (Core :> ("pom.xml" :> {"spring boot"} @@ "mvnw.cmd" :> {} @@ "package.json" :> {InQuotes})) @@
  (Deep :> ("build.gradle" :> {} @@ "build.gradle.kts" :> {"spring boot"} @@
            "package.json" :> {OpenQuote})) @@
  (Gen :> ("package.json" :> {<<"dev">>})) @@
  (Link :> <<>>) @@
  (Out :> ("package.json" :> {<<"start">>})) @@
  (OutCore :> <<>>)

\* The link leads back to the root; to a folder that is otherwise out of reach
\* from the root's third level; out of the project, as another folder does by
\* then; to a folder that is skipped under its own name, beside files that
\* cannot be read and a folder that cannot be listed; nowhere, the project gone.
Circle  == [leads |-> [Itself EXCEPT ![Link] = P], files |-> Files, unlisted |-> {}]
Shortcut == [leads |-> [Itself EXCEPT ![Link] = Core], files |-> Files, unlisted |-> {}]
Moved   == [leads |-> [Itself EXCEPT ![Link] = Out, ![Api] = Out, ![Core] = OutCore,
                                     ![Deep] = Nowhere],
            files |-> [Files EXCEPT ![P] = "package.json" :> {<<"start">>, <<"dev">>, OpenQuote}],
            unlisted |-> {}]
Barred  == [leads |-> [Itself EXCEPT ![Link] = Gen],
            files |-> [Files EXCEPT ![P] = "package.json" :> {TwoCommands} @@
                                           "src/main.rs" :> {} @@ "Cargo.toml" :> {},
                                    ![Gen] = "package.json" :> {Padded},
                                    ![Core] = "pom.xml" :> {Unreadable}],
            unlisted |-> {Api}]
Spoilt  == [Barred EXCEPT !.unlisted = {}, !.leads[Link] = Nowhere]
Gone    == [leads |-> [p \in SomePaths |-> IF p[1] = "p" THEN Nowhere ELSE p],
            files |-> Files, unlisted |-> {}]

Disks == {Circle, Shortcut, Moved, Barred, Spoilt, Gone}

Profile(dir, command) == [dir |-> dir, command |-> command, role |-> "frontend"]

NpmDev  == <<"npm", " ", "run", " ", "dev">>
Quoted  == <<" ", "node", " ", Quote, "&", Quote>>
Chain   == <<"npm", " ", "&", " ", "cmd">>
Open    == <<Quote, "npm", " ", "run">>
Shell   == <<"\\", "cmd", " ", "npm">>
Silent  == <<"@", "npm">>

UserSaves == {Profile(Link, Quoted)}

None == [f \in {f1, f2} |-> NoProfile]
Only(p) == [None EXCEPT ![f1] = p]

Backups == {Only(Profile(Link, NpmDev))}

Edits == {Only(Profile(Link, Chain)), Only(Profile(Api, Open)),
          Only(Profile(Api, Shell)), Only(Profile(Api, Silent)), Only(Profile(Out, NpmDev))}

OfProfiles == (s1 :> f1) @@ (s2 :> f1)

Alike == Permutations({t1, t2}) \cup Permutations({s1, s2})
=============================================================================
