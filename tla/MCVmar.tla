------------------------------- MODULE MCVmar -------------------------------
(* Vmar for TLC: objects, cores and frames are interchangeable.  The root *)
(* region has its entries in one page table; another region may have      *)
(* taken a frame before, and then the tables of a mapping may not be had. *)
EXTENDS Vmar, TLC

MCTableOf == [p \in VPages |-> "pt1"]
VmarSymmetry == Permutations(Cpus) \cup Permutations(Pool) \cup Permutations(Frames)
=============================================================================
