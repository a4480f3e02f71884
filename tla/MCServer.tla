------------------------------ MODULE MCServer ------------------------------
(***************************************************************************)
(* The TLC instance of Server.                                             *)
(***************************************************************************)
EXTENDS Server

CONSTANTS s1, s2, s3, g1, g2

\* No piece of memory is special: each is as good as another for a new object.
Symmetry == Permutations({s1, s2, s3}) \union Permutations({g1, g2})
=============================================================================
