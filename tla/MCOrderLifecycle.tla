-------------------------- MODULE MCOrderLifecycle --------------------------
(***************************************************************************)
(* Small instances of OrderLifecycle: one order that can be moved between  *)
(* two warehouses of one unit each, and two handlers inside each other's   *)
(* awaits.                                                                 *)
(***************************************************************************)
EXTENDS OrderLifecycle, TLC

MCCapacity == [w \in Warehouses |-> 1]
\* A task keeps fields that nobody reads again: no step tells such tasks apart.
Live(task) ==
    CASE task = Idle -> <<>>
      [] task.step = "assign"  -> <<"assign", task.of, task.to, task.then>>
      [] task.step = "plan"    -> <<"plan", task.of, task.then>>
      [] task.step = "sync"    -> <<"sync", task.of, task.then, task.target, task.at, task.allow>>
      [] task.step = "points"  -> <<"points", task.of, task.then>>
      [] task.step = "save"    -> <<"save", task.of>>
      [] task.step = "landing" -> <<"landing", task.of, task.copy>>

Memory == <<order, hold, points, [h \in Handlers |-> Live(handler[h])], saved, restarts, stopped>>

Symmetry == Permutations(Handlers)
=============================================================================
