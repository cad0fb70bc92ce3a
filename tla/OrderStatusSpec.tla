-------------------------- MODULE OrderStatusSpec --------------------------
(***************************************************************************)
(* What the status of one order may do, whoever changes it: it starts as   *)
(* new and follows the graph of app/order_status.py one edge at a time.    *)
(***************************************************************************)
EXTENDS OrderStatus

VARIABLE status

Init == status = "new"

Advance == status' \in get_next_statuses(status)

Spec == Init /\ [][Advance]_status

============================================================================
