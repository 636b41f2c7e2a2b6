--------------------------- MODULE MCCommandRunner ---------------------------
(***************************************************************************)
(* Instances of CommandRunner for TLC.                                     *)
(***************************************************************************)
EXTENDS CommandRunner, TLC

CONSTANTS p1, s1, s2, c1, c2

OneOfOne == (s1 :> p1)

\* Two sessions of one profile: restarts of it, started by either caller.
TwoOfOne == (s1 :> p1) @@ (s2 :> p1)

\* Callers are interchangeable, and so are the sessions of p1.
RaceSymmetry == Permutations({c1, c2}) \cup Permutations({s1, s2})

=============================================================================
