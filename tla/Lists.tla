-------------------------------- MODULE Lists ---------------------------------
(***************************************************************************)
(* Lists that pages filter: filter() of JavaScript, and loops that push    *)
(* what meets a condition.                                                 *)
(***************************************************************************)
EXTENDS Naturals, FiniteSets

Seqs == INSTANCE SequencesExt

\* The elements of a sequence at the positions K, in their order.
Picked(s, K) ==
  [n \in 1..Cardinality(K) |-> s[CHOOSE k \in K : Cardinality({j \in K : j <= k}) = n]]
===============================================================================
