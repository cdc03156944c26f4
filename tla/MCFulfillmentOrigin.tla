------------------------ MODULE MCFulfillmentOrigin ------------------------
(***************************************************************************)
(* Four warehouses around  one destination, and an order of two lines that *)
(* weigh one and two units, whose default warehouses are w1 and w2.        *)
(***************************************************************************)
EXTENDS FulfillmentOrigin, TLC

CONSTANTS w1, w2, w3, w4, v1, v2

MCCode == w1 :> 1 @@ w2 :> 2 @@ w3 :> 3 @@ w4 :> 4
MCQuantity == v1 :> 1 @@ v2 :> 2
MCDefaultOf == v1 :> w1 @@ v2 :> w2

Place(d, p, q) == [district |-> d, province |-> p, department |-> q]
MCAddresses == {Place("d1", "p1", "q1"), NoUbigeo}

Area(scope, code, priority, isActive) ==
    [scope |-> scope, code |-> code, priority |-> priority, isActive |-> isActive]
Config(active, priority, location, areas) ==
    [active |-> active, priority |-> priority, location |-> location, areas |-> areas]

\* Coverage by place, by areas of several scopes, by none: a fallback when both
\* lines are quoted from w2, a tie of w3 and w4 when no base warehouse covers.
MCOffered ==
    w1 :> {Config(TRUE, 1, Place("d2", "p1", "q1"), {})}
 @@ w2 :> {Config(TRUE, 1, Place("d3", "p3", "q3"), {}),
           Config(TRUE, 1, Place("d3", "p3", "q3"), {Area("province", "p1", 2, TRUE),
                                                     Area("department", "q1", 1, TRUE)})}
 @@ w3 :> {Config(TRUE, 1, Place("d1", "p1", "q1"), {}),
           Config(FALSE, 1, Place("d1", "p1", "q1"), {}),
           Config(TRUE, 2, Place("d3", "p3", "q3"), {Area("province", "p1", 1, TRUE)})}
 @@ w4 :> {Config(TRUE, 2, Place("d3", "p3", "q3"), {Area("province", "p1", 1, TRUE),
                                                     Area("district", "d1", 1, FALSE)})}

\* All there is for the order, but for one unit at the base warehouse of v1.
MCStocks == {[[w \in Warehouses |-> Quantity] EXCEPT ![w1][v1] = 0]}

\* Nothing is explored past a crossing, which HeldAtOrigin excuses.  Without a
\* destination no area matters.  What others change is explored while the order
\* may be planned for the first time: the units of an order that was delivered
\* or stopped stay or go whatever they change.
Planned == order.status \in {"pending", "confirmed"} /\ ~revived
Explored ==
    /\ ~crossed
    /\ address = NoUbigeo => \A w \in {w2, w3} : warehouse[w].areas = {}
    /\ Planned \/ changes = 0

\* The stored suggestion is shown to people; no handler decides by it.
Unshown == <<places, [order EXCEPT !.suggestion = NoWarehouse], hold, call, history>>

CallSymmetry == Permutations(Calls)
=============================================================================
