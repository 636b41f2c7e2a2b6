--------------------------- MODULE MCProjectPage ---------------------------
(***************************************************************************)
(* Instances of ProjectPage for TLC.                                       *)
(***************************************************************************)
EXTENDS ProjectPage, TLC

CONSTANTS p1, p2, s1, s2

\* Two sessions, one after the other, of one profile.
OneProfile == (s1 :> p1) @@ (s2 :> p1)

\* Two profiles, as "start all" and "stop all" use them.
TwoProfiles == (s1 :> p1) @@ (s2 :> p2)

=============================================================================
