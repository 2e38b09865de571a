------------------------------- MODULE MCSched -------------------------------
(* Sched for TLC: the idle thread of core c is the pair <<"idle", c>>. *)
EXTENDS Sched

MCIdleOf == [c \in Cpus |-> <<"idle", c>>]
MCSymmetry == Permutations(Regions \ {InitStack})
=============================================================================
