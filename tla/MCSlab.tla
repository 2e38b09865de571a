------------------------------- MODULE MCSlab -------------------------------
(* Slab for TLC: cores are interchangeable, and so are slabs. *)
EXTENDS Slab

SlabSymmetry == Permutations(Cpus) \cup Permutations(Slabs)
=============================================================================
