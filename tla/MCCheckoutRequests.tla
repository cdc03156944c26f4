------------------------- MODULE MCCheckoutRequests -------------------------
(***************************************************************************)
(* Two shoppers and one unit at each of two warehouses.                    *)
(***************************************************************************)
EXTENDS CheckoutRequests, TLC

MCNumbers == 1 .. MaxNumber
MCStock == [w \in Warehouses |-> 1]

\* The loyalty panel is explored where no request is being served and nothing was
\* lost; the panel and what follows a fault are explored without the last number,
\* what follows the last fault also without what operators decide afterwards.
PanelUsed == redemptions # <<>> \/ Manual # {}
Explored ==
    /\ PanelUsed => faults = 0 /\ sequence < MaxNumber /\ \A c \in Calls : call[c].step = "idle"
    /\ faults > 0 => sequence < MaxNumber
    /\ faults = MaxFaults => \A n \in Numbers : orders[n].status \in {"absent", "open"}

CallSymmetry == Permutations(Calls)
Symmetry == CallSymmetry \cup Permutations(Customers)
=============================================================================
