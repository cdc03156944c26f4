---------------------- MODULE MCNotificationDelivery ----------------------
(***************************************************************************)
(* A small instance of NotificationDelivery.                               *)
(***************************************************************************)
EXTENDS NotificationDelivery, TLC

\* All handlers at once are looked at as long as their sections stay apart, two at
\* once when they have overlapped, and one when a read or write was refused.
Explored ==
    LET busy == Cardinality({h \in Handlers : task[h] # Idle})
    IN  /\ mixed => restarts = 0 /\ busy <= 2
        /\ faults > 0 => busy <= 1
=============================================================================
