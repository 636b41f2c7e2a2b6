----------------------------- MODULE MCSettings -----------------------------
(***************************************************************************)
(* Instances of Settings for TLC.                                          *)
(***************************************************************************)
EXTENDS Settings, TLC

CONSTANTS java, none, mine, untidy, bad, dark, light, x

OneKind == <<java>>

TidiedLists == (none :> none) @@ (mine :> mine) @@ (untidy :> mine) @@ (bad :> Refused)

Config(t, l, p) ==
  [theme |-> t, guarded |-> l, hints |-> [k \in Kinds |-> p], disabled |-> {}]

Start == Config(light, mine, 1)
Empty == Config(dark, none, NoPath)

Everywhere(S) == [k \in Kinds |-> S]

\* Two paths to one executable, both printed by where; one of them broken, in
\* the registry; nothing anywhere.
SomeMachines ==
  {[real |-> (1 :> x) @@ (2 :> x), where |-> Everywhere({1, 2}),
    path |-> Everywhere({}), registry |-> Everywhere({2})],
   [real |-> (1 :> Broken) @@ (2 :> x), where |-> Everywhere({1}),
    path |-> Everywhere({2}), registry |-> Everywhere({2})],
   [real |-> (1 :> x) @@ (2 :> x), where |-> Everywhere({}),
    path |-> Everywhere({1}), registry |-> Everywhere({})]}

SomeFiles ==
  {[settings |-> Config(dark, untidy, NoPath), overrides |-> [k \in Kinds |-> NoPath]],
   [settings |-> Empty, overrides |-> [k \in Kinds |-> 1]]}

=============================================================================
