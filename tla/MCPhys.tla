------------------------------- MODULE MCPhys -------------------------------
(* Phys for TLC: four pages of two minimal blocks in the address space, the *)
(* first two of which are not RAM; the others come as two regions that meet *)
(* in the middle of a block of the largest level.                           *)
EXTENDS Phys

MCRegions == <<<<4, 6>>, <<6, 8>>>>
MCSizes == {1, 3, 4, 8, 9}
=============================================================================
