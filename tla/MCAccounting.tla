---------------------------- MODULE MCAccounting ----------------------------
(* Accounting for TLC: cores are interchangeable model values. *)
EXTENDS Accounting, TLC

CpuSymmetry == Permutations(Cpus)
=============================================================================
