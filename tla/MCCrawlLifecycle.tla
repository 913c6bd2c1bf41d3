--------------------------- MODULE MCCrawlLifecycle ---------------------------
(* Small instances of CrawlLifecycle: pages that link to one another. *)
EXTENDS CrawlLifecycle, TLC

CONSTANTS c1, c2, o1, m1, m2, m3, u1, u2, u3, w1, w2

\* A page links to two others, and one of these back to it.
ThreeLinks == (u1 :> {u2, u3}) @@ (u2 :> {u1, u3}) @@ (u3 :> {})
TwoLinks == (u1 :> {u1, u2}) @@ (u2 :> {u1})
SelfLink == (u1 :> {u1})
OnlyFirst == {u1}

OneOrder == (m1 :> o1)
SentTwice == (m1 :> o1) @@ (m2 :> o1) @@ (m3 :> Unreadable)

WorkerSymmetry == Permutations(Workers)
=============================================================================
