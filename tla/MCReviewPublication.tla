-------------------------- MODULE MCReviewPublication --------------------------
(***************************************************************************)
(* Instances of ReviewPublication for TLC.                                 *)
(***************************************************************************)
EXTENDS ReviewPublication, TLC

CONSTANTS h1, h2

\* No property names a head: they may be exchanged.
HeadSymmetry == Permutations(Heads)

===============================================================================
