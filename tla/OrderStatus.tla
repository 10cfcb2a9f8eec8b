---------------------------- MODULE OrderStatus ----------------------------
(***************************************************************************)
(* The nine unified order statuses and their moves                         *)
(* (backend/app/engines/order_status.py), and the review of an order       *)
(* (backend/app/engines/order_desk.py).                                    *)
(***************************************************************************)
EXTENDS Integers, Sequences

CONSTANT None   \* no order yet, or a platform status without a mapping

\* The main chain, in its order.
Main == <<"PENDING", "PAID", "SHIPPED", "DELIVERED", "COMPLETED">>

MainStatus == {Main[i] : i \in 1..Len(Main)}

Status == MainStatus \cup {"CANCELLED", "REFUNDING", "REFUNDED", "RETURNED"}

Rank(status) == CHOOSE i \in 1..Len(Main) : Main[i] = status

CancelFrom == {"PENDING", "PAID", "SHIPPED"}

RefundFrom == {"PAID", "SHIPPED", "DELIVERED", "COMPLETED"}

ReturnFrom == {"SHIPPED", "DELIVERED", "COMPLETED", "REFUNDING"}

\* A person moves an order along one edge at a time.
Manual(current) ==
    CASE current = "PENDING"   -> {"PAID", "CANCELLED"}
      [] current = "PAID"      -> {"SHIPPED", "CANCELLED", "REFUNDING"}
      [] current = "SHIPPED"   -> {"DELIVERED", "CANCELLED", "REFUNDING", "RETURNED"}
      [] current = "DELIVERED" -> {"COMPLETED", "REFUNDING", "RETURNED"}
      [] current = "COMPLETED" -> {"REFUNDING", "RETURNED"}
      [] current = "REFUNDING" -> {"REFUNDED", "RETURNED"}
      [] current = "RETURNED"  -> {"REFUNDED"}
      [] current \in {"REFUNDED", "CANCELLED"} -> {}

\* Polling and webhooks may skip statuses that were not pulled.
Allowed(current, target) ==
    \/ /\ {current, target} \subseteq MainStatus
       /\ Rank(target) > Rank(current)
    \/ target = "CANCELLED" /\ current \in CancelFrom
    \/ target = "REFUNDING" /\ current \in RefundFrom
    \/ target = "REFUNDED"  /\ current \in RefundFrom \cup {"REFUNDING", "RETURNED"}
    \/ target = "RETURNED"  /\ current \in ReturnFrom \cup {"REFUNDED"}

(***************************************************************************)
(* decide_status for a payload: the status the order then has.  The        *)
(* decision is APPLY if it differs from the current one.                   *)
(***************************************************************************)
\* Faulty: the platform is always right.
FollowPlatform(current, target) ==
    IF target # None THEN target ELSE IF current # None THEN current ELSE "PENDING"

\* Faulty: an order whose platform status has no mapping gets none.
NoDefault(current, target) ==
    IF current = None \/ (target # None /\ Allowed(current, target)) THEN target ELSE current

Decide(current, target) ==
    CASE current = None -> IF target = None THEN "PENDING" ELSE target
      [] current # None /\ target = None -> current
      [] OTHER -> IF Allowed(current, target) THEN target ELSE current

-----------------------------------------------------------------------------
Review == {"AUTO_PASSED", "PENDING", "APPROVED", "REJECTED"}

Reviewed == {"APPROVED", "REJECTED"}

Shippable == {"AUTO_PASSED", "APPROVED"}

\* Faulty: the rules have the last word.
RulesDecide(current, large) == IF large THEN "PENDING" ELSE "AUTO_PASSED"

\* next_review_status; "large" is an amount that a rule wants to be looked at.
NextReview(current, large) ==
    CASE current \in Reviewed -> current
      [] current \notin Reviewed /\ large -> "PENDING"
      [] OTHER -> "AUTO_PASSED"
=============================================================================
