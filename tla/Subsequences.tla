---------------------------- MODULE Subsequences ----------------------------
(***************************************************************************)
(* What is left of a list, or of a JavaScript Map, in its order.           *)
(***************************************************************************)
EXTENDS Naturals, FiniteSets

(* What the list has at these places. *)
Kept(list, places) ==
  [n \in 1..Cardinality(places) |->
     list[CHOOSE i \in places : Cardinality({j \in places : j <= i}) = n]]
=============================================================================
