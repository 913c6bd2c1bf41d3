----------------------------- MODULE MCArcWalk -----------------------------
(* Small rings for ArcWalk. *)
EXTENDS ArcWalk, TLC

CONSTANTS p1, p2, w1, w2

\* Two peers across from each other, or one.
Across == (p1 :> 1) @@ (p2 :> 3)

Alone == (p1 :> 1)
WorkerSymmetry == Permutations(Workers)
=============================================================================
