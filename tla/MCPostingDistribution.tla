----------------------- MODULE MCPostingDistribution -----------------------
(* A ring of three peers and this node for PostingDistribution. *)
EXTENDS PostingDistribution, TLC

CONSTANTS a, b, c, u1, u2

\* Two peers closer to the word partition than this node, one farther.
AroundSelf == (a :> 1) @@ (b :> 2) @@ (c :> 4)
=============================================================================
