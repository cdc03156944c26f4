------------------------ MODULE MCWarehouseTransfers ------------------------
(***************************************************************************)
(* Small instances of WarehouseTransfers: two warehouses, two variants,    *)
(* transfers and an order that compete for the same units.                 *)
(***************************************************************************)
EXTENDS WarehouseTransfers, TLC

CONSTANTS o1, w1, w2, v1, v2

MCInitialStock == (<<w1, v1>> :> 2) @@ (<<w1, v2>> :> 1) @@ (<<w2, v1>> :> 1) @@ (<<w2, v2>> :> 0)
MCAsks == {v1 :> 1 @@ v2 :> 1}
MCReceipts == {v1 :> 1 @@ v2 :> 0, v1 :> 2 @@ v2 :> 1}
MCOrderKey == o1 :> <<w1, v1>>

CallSymmetry == Permutations(Calls)

\* After a restart the reservations of the transfers are gone from the balances: the
\* run looks at the state it leaves and at the calls it can start, and no further.
OneStepAfterRestart == restarts = 0 \/ \A c \in Calls : ~Active(c)
=============================================================================
