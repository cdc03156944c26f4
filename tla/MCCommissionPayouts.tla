------------------------- MODULE MCCommissionPayouts -------------------------
(***************************************************************************)
(* Small instances of CommissionPayouts: two orders of one month with the  *)
(* same total, the API and the worker.                                     *)
(***************************************************************************)
EXTENDS CommissionPayouts, TLC

CONSTANTS o1, o2, month

MCPeriodOf == [o \in Orders |-> month]
MCTotals == [o \in Orders |-> 1]
MCAdjustments == {-1}

OrderSymmetry == Permutations(Orders)

\* Two disturbances in all: updates of orders, vendors or the rule, moves and restarts.
TwoDisturbances == spent.updates + spent.moves + spent.restarts <= 2
=============================================================================
