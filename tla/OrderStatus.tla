---------------------------- MODULE OrderStatus ----------------------------
(***************************************************************************)
(* The order status state machine of src/orders/order-status.ts and the    *)
(* two status groups the services test against.  Every other module reads  *)
(* statuses and transitions from here.                                     *)
(***************************************************************************)

OrderStatuses == {"DRAFT", "PENDING", "CONFIRMED", "PREPARING", "READY",
                  "COMPLETED", "CANCELLED"}

\* Allowed transitions; anything not listed is rejected.
ORDER_STATUS_TRANSITIONS ==
  [DRAFT     |-> {"PENDING", "CANCELLED"},
   PENDING   |-> {"CONFIRMED", "CANCELLED"},
   CONFIRMED |-> {"PREPARING", "CANCELLED"},
   PREPARING |-> {"READY", "CANCELLED"},
   READY     |-> {"COMPLETED"},
   COMPLETED |-> {},
   CANCELLED |-> {}]

canTransition(from, to) == to \in ORDER_STATUS_TRANSITIONS[from]

\* Orders whose lines and discount may still be edited.
EDITABLE_STATUSES == {"DRAFT", "PENDING"}

\* Orders that count as a table's active order.
ACTIVE_ORDER_STATUSES == OrderStatuses \ {"COMPLETED", "CANCELLED"}
=============================================================================
