------------------------------- MODULE MCGaps -------------------------------
(* Gaps for TLC. *)
EXTENDS Gaps

MCNode == 3 .. 11
=============================================================================
