------------------------- MODULE InventoryBalances -------------------------
(***************************************************************************)
(* The data of InventoryService and what its four order operations do to   *)
(* it: a balance per (warehouse, variant), the merged allocation lines of  *)
(* an order, and the check and the effect of reserveLines, confirmLines,   *)
(* releaseLines and reverseLines on one balance.                           *)
(***************************************************************************)
EXTENDS Integers, FiniteSets

CONSTANTS
    Warehouses,     \* warehouse ids
    Variants        \* product variant ids, bundles already exploded

Keys == Warehouses \X Variants

Row == [stock : Nat, reserved : Nat, committed : Nat]

(***************************************************************************)
(* Merged lines: the quantity asked of each balance, 0 where there is no   *)
(* line.  mergeLines leaves at most one line per (variant, warehouse).     *)
(***************************************************************************)
Lines == [Keys -> Nat]
NoLines == [b \in Keys |-> 0]
LineKeys(lines) == {b \in Keys : lines[b] > 0}

Available(row) == row.stock - row.reserved - row.committed

\* haveEquivalentVariantQuantities: the same quantities line by line once the
\* warehouse is forgotten.
LinesOf(lines, v, q) == {b \in LineKeys(lines) : b[2] = v /\ lines[b] = q}
SameVariantQuantities(l1, l2) ==
    \A b \in LineKeys(l1) \cup LineKeys(l2) :
        \A q \in {l1[b], l2[b]} \ {0} :
            Cardinality(LinesOf(l1, b[2], q)) = Cardinality(LinesOf(l2, b[2], q))

----------------------------------------------------------------------------

OrderOps == {"reserve", "confirm", "release", "reverse"}

\* What the check of each operation asks of a balance before it takes q units.
\* Mutated: no check, the check without the committed units, a release unchecked.
UncheckedReserve(op, row, q) ==
    CASE op = "reserve" -> TRUE
      [] op \in {"confirm", "release"} -> row.reserved >= q
      [] op = "reverse" -> row.committed >= q

StockOnlyReserve(op, row, q) ==
    CASE op = "reserve" -> row.stock - row.reserved >= q
      [] op \in {"confirm", "release"} -> row.reserved >= q
      [] op = "reverse" -> row.committed >= q

UncheckedRelease(op, row, q) ==
    CASE op = "reserve" -> Available(row) >= q
      [] op = "confirm" -> row.reserved >= q
      [] OTHER -> TRUE

Ready(op, row, q) ==
    CASE op = "reserve" -> Available(row) >= q
      [] op \in {"confirm", "release"} -> row.reserved >= q
      [] op = "reverse" -> row.committed >= q

\* What each operation does to a balance.  Mutated: confirmed units stay reserved.
ConfirmKeepsReserved(op, row, q) ==
    CASE op = "reserve" -> [row EXCEPT !.reserved = @ + q]
      [] op = "confirm" -> [row EXCEPT !.committed = @ + q]
      [] op = "release" -> [row EXCEPT !.reserved = @ - q]
      [] op = "reverse" -> [row EXCEPT !.committed = @ - q]

Effect(op, row, q) ==
    CASE op = "reserve" -> [row EXCEPT !.reserved = @ + q]
      [] op = "confirm" -> [row EXCEPT !.reserved = @ - q, !.committed = @ + q]
      [] op = "release" -> [row EXCEPT !.reserved = @ - q]
      [] op = "reverse" -> [row EXCEPT !.committed = @ - q]

\* The state a reservation record is left in by each operation.  Mutated: reversed
\* units go back to reserved.
ReverseToReserved(op) ==
    CASE op \in {"reserve", "reverse"} -> "reserved"
      [] op = "confirm" -> "confirmed"
      [] op = "release" -> "released"

StateAfter(op) ==
    CASE op = "reserve" -> "reserved"
      [] op = "confirm" -> "confirmed"
      [] op \in {"release", "reverse"} -> "released"

=============================================================================
