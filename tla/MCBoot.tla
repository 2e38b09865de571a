------------------------------- MODULE MCBoot -------------------------------
(* Boot for TLC: up to four cores with one or two interrupt stacks each. *)
EXTENDS Boot
=============================================================================
