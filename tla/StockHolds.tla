----------------------------- MODULE StockHolds -----------------------------
(***************************************************************************)
(* What InventoryService promises, without awaits, counters or rows: every *)
(* order holds units of certain balances or it does not, the units held of *)
(* a balance never exceed its stock, a confirmed hold goes back to         *)
(* reserved only by moving to another warehouse, and an order that has     *)
(* given its units back never holds any again.                             *)
(*                                                                         *)
(* InventorySync implements this specification when the calls for one      *)
(* order do not overlap and nobody adjusts the stock.                      *)
(***************************************************************************)
EXTENDS InventoryBalances

CONSTANTS
    Orders,     \* order numbers
    Stock,      \* units of each balance
    Requests    \* Requests[o]: the lines order o may ask for

VARIABLE hold   \* hold[o]: the state of the order's hold, and its lines

HoldStates == {"none", "reserved", "confirmed", "moving", "released"}

HoldInit == hold = [o \in Orders |-> [state |-> "none", lines |-> NoLines]]

\* One token for each unit of a balance that some order holds.
HeldAt(b) ==
    UNION {{o} \X (1 .. hold[o].lines[b]) :
             o \in {x \in Orders : hold[x].state \in {"reserved", "confirmed"}}}

Fits(lines) == \A b \in LineKeys(lines) : Cardinality(HeldAt(b)) + lines[b] <= Stock[b]

\* The first reservation of an order, or the second half of a move.
TakeUnits(o) ==
    /\ hold[o].state \in {"none", "moving"}
    /\ \E lines \in Requests[o] :
         /\ Fits(lines)
         /\ hold' = [hold EXCEPT ![o] = [state |-> "reserved", lines |-> lines]]

ConfirmHold(o) ==
    /\ hold[o].state = "reserved"
    /\ hold' = [hold EXCEPT ![o].state = "confirmed"]

\* The first half of a move: the units go back before the new ones are taken.
LiftHold(o) ==
    /\ hold[o].state \in {"reserved", "confirmed"}
    /\ hold' = [hold EXCEPT ![o].state = "moving"]

\* The order is cancelled, refunded or expires; or it was moving, and the new
\* warehouse did not have the units.
GiveBack(o) ==
    /\ hold[o].state \in {"reserved", "confirmed", "moving"}
    /\ hold' = [hold EXCEPT ![o].state = "released"]

HoldNext == \E o \in Orders : TakeUnits(o) \/ ConfirmHold(o) \/ LiftHold(o) \/ GiveBack(o)

HoldSpec == HoldInit /\ [][HoldNext]_hold

----------------------------------------------------------------------------
HoldTypeOK == hold \in [Orders -> [state : HoldStates, lines : Lines]]

\* The units held of a balance exist.
HoldsWithinStock == \A b \in Keys : Cardinality(HeldAt(b)) <= Stock[b]

=============================================================================
