--------------------------- MODULE MCOrderIngest ---------------------------
(***************************************************************************)
(* OrderIngest for TLC: what may happen to an order at the platform.       *)
(***************************************************************************)
EXTENDS OrderIngest, TLC

CONSTANTS w1, w2, w3

\* One transaction at a time; the rules then keep promises that concurrency breaks.
VARIABLE alone

Interchangeable == Permutations({w1, w2, w3})

Small(target) == [target |-> target, large |-> FALSE]

Large(target) == [target |-> target, large |-> TRUE]

\* Paid, then cancelled by the buyer.
Cancelled == <<Small("PAID"), Small("CANCELLED")>>

\* Paid, with an amount to be looked at, then reduced to a harmless one.
Reduced == <<Large("PAID"), Small("PAID")>>

\* A status without a mapping, then shipped, delivered and refunded.
Refunded == <<Small(None), Small("SHIPPED"), Small("REFUNDED")>>

MCStories == {Cancelled, Reduced, Refunded}

\* Platforms also report statuses late, and go back.
SerialStories == MCStories \cup
    {<<Large("PENDING"), Small("CANCELLED"), Large("PAID"), Small("SHIPPED")>>,
     <<Small("DELIVERED"), Large("PAID"), Small("RETURNED"), Small("REFUNDED")>>}

OnlyRefunded == {Refunded}

MCInit == alone \in BOOLEAN /\ Init /\ (~alone => story \in MCStories)

MCNext ==
    /\ Next
    /\ alone' = alone
    /\ alone => Cardinality({w \in Worker : job'[w].pc # "idle"}) <= 1

MCSpec == MCInit /\ [][MCNext]_<<vars, alone>>

-----------------------------------------------------------------------------
\* What holds of transactions that follow one another.

(***************************************************************************)
(* The stamp never goes back: only a strictly newer payload overwrites     *)
(* (sync_engine/idempotency.py, decide_write).                             *)
(***************************************************************************)
NewestWinsAlone == [][alone => StampOf(row') >= StampOf(row)]_vars

(***************************************************************************)
(* An order has one set of lines: a pull replaces the current ones (class  *)
(* OrderItem, _replace_items).                                             *)
(***************************************************************************)
OneSetOfLines == alone => Cardinality(items) <= 1

(***************************************************************************)
(* A cancelled order stays cancelled, whatever the platform reports late   *)
(* (decide_status; the tests call the status terminal).                    *)
(***************************************************************************)
CancelledIsFinal ==
    [][alone /\ StatusOf(row) = "CANCELLED" => StatusOf(row') = "CANCELLED"]_vars

(***************************************************************************)
(* What a person decided in a review is not overwritten by a pull          *)
(* (next_review_status).                                                   *)
(***************************************************************************)
VerdictStays ==
    [][alone /\ row # None /\ row.review \in Reviewed => row'.review \in Reviewed]_vars
=============================================================================
