----------------------------- MODULE MCFrontier -----------------------------
(***************************************************************************)
(* Instances of Frontier for TLC.                                          *)
(***************************************************************************)
EXTENDS Frontier

\* The lease outlives two seconds and ends off a second's edge, so that both
\* roundings of secondsAtOrAfter occur.
MCDelays == {0, 1}

=============================================================================
