-------------------------- MODULE MCInventorySync --------------------------
(***************************************************************************)
(* Small instances of InventorySync: two warehouses, two variants, orders  *)
(* that compete for the last units of a variant.                           *)
(***************************************************************************)
EXTENDS InventorySync, TLC

CONSTANTS o1, o2, w1, w2, v1, v2

MCDemand == (o1 :> (v1 :> 1 @@ v2 :> 1)) @@ (o2 :> (v1 :> 2 @@ v2 :> 0))
MCDefaultWarehouse == v1 :> w1 @@ v2 :> w2
MCInitialStock == (<<w1, v1>> :> 2) @@ (<<w1, v2>> :> 1) @@ (<<w2, v1>> :> 2) @@ (<<w2, v2>> :> 1)

\* One variant, so that every order meets every other at the two warehouses.
MCOneVariantDemand == (o1 :> (v1 :> 1)) @@ (o2 :> (v1 :> 1))
MCOneVariant == v1 :> w1
MCOneVariantStock == (<<w1, v1>> :> 1) @@ (<<w2, v1>> :> 1)

CallSymmetry == Permutations(Calls)
=============================================================================
