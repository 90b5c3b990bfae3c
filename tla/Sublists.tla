------------------------------- MODULE Sublists -------------------------------
(*****************************************************************************)
(* What is left of a sequence at some of its places, in their order.  It is  *)
(* what SelectSeq computes step by step, said at once: the theorems need to  *)
(* know which member comes from which place.                                 *)
(*****************************************************************************)
EXTENDS Naturals, FiniteSets

(* The k-th smallest of a finite set of places. *)
Nth(places, k) == CHOOSE i \in places : Cardinality({j \in places : j <= i}) = k
Sublist(s, places) == [k \in 1 .. Cardinality(places) |-> s[Nth(places, k)]]
===============================================================================
