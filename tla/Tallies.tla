------------------------------- MODULE Tallies -------------------------------
(***************************************************************************)
(* Sums as sizes: what a function from a finite set to numbers adds up to  *)
(* is the size of the set that has one token for each unit.  The libraries *)
(* know about the size of a finite set; a sum by recursion could only be   *)
(* checked.                                                                *)
(***************************************************************************)
EXTENDS Integers, FiniteSets

Tokens(n) == UNION {{i} \X (1 .. n[i]) : i \in DOMAIN n}
Tally(n) == Cardinality(Tokens(n))
=============================================================================
