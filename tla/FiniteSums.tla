----------------------------- MODULE FiniteSums -----------------------------
(***************************************************************************)
(* The sum of a function with natural values, defined without recursion:   *)
(* it is the number of pairs <<x, k>> with k in 1..f[x].  Written this way *)
(* a sum over an arbitrary finite set of cores can be reasoned about with  *)
(* the facts on cardinalities of the theorem library.                      *)
(***************************************************************************)
EXTENDS Integers, FiniteSets

Tokens(f) == UNION {{x} \X (1..f[x]) : x \in DOMAIN f}

SumOver(f) == Cardinality(Tokens(f))
=============================================================================
