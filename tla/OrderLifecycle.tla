--------------------------- MODULE OrderLifecycle ---------------------------
(* The life of one order, as internal/domain/order.go defines it: the       *)
(* statuses, the table of allowed transitions and the predicates the        *)
(* services branch on.  Pure definitions, no state.                         *)

\* The eight values of domain.OrderStatus.
Statuses == {"PLACED", "ACCEPTED", "PREPARING", "READY", "OUT_FOR_DELIVERY",
             "DELIVERED", "CANCELLED_BY_USER", "CANCELLED_BY_ADMIN"}

\* What stands in the models for a row that does not exist yet, and for the
\* NULL from_status of an order's first event.
Absent == "ABSENT"

IsCancelled(status) == status \in {"CANCELLED_BY_USER", "CANCELLED_BY_ADMIN"}

IsTerminal(status) == status = "DELIVERED" \/ IsCancelled(status)

\* The transition table; a status without an entry allows nothing.
AllowedTransitions ==
    [status \in Statuses |->
        CASE status = "PLACED"           -> {"ACCEPTED", "CANCELLED_BY_USER",
                                             "CANCELLED_BY_ADMIN"}
          [] status = "ACCEPTED"         -> {"PREPARING", "CANCELLED_BY_ADMIN"}
          [] status = "PREPARING"        -> {"READY"}
          [] status = "READY"            -> {"OUT_FOR_DELIVERY"}
          [] status = "OUT_FOR_DELIVERY" -> {"DELIVERED"}
          [] OTHER                       -> {}]

CanTransitionTo(status, next) ==
    status \in Statuses /\ next \in AllowedTransitions[status]

\* Order.CanReview.
CanReview(status) == status = "DELIVERED"
=============================================================================
