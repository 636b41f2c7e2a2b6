------------------------- MODULE MCConfigTransaction -------------------------
(***************************************************************************)
(* Instances of ConfigTransaction for TLC.                                 *)
(***************************************************************************)
EXTENDS ConfigTransaction, TLC

CONSTANTS a1, f1, f2, e0, s1, s2, x, y, dark, light

OneProject == (s1 :> a1) @@ (s2 :> a1)

Content(projects, profiles, settings) ==
  [projects |-> projects, profiles |-> profiles, settings |-> settings,
   audit |-> <<e0>>]

Plain(slot) == [slot |-> slot, candidate |-> NoCandidate, command |-> x]

None == [f \in Profiles |-> NoProfile]

\* A project with two profiles, an empty configuration, and two that are
\* rejected: without the project, and with one slot twice.
Files ==
  {Content({a1}, (f1 :> Plain(s1)) @@ (f2 :> Plain(s2)), light),
   Content({}, None, dark),
   Content({}, [None EXCEPT ![f1] = Plain(s1)], dark),
   Content({a1}, [f \in Profiles |-> Plain(s1)], dark)}

=============================================================================
