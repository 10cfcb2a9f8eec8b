----------------------------- MODULE StockRules -----------------------------
(***************************************************************************)
(* The rules of stock that need no database (engines/inventory.py): from   *)
(* which warehouses an order draws, what a platform may be told, when and  *)
(* how much to order again.  The bins of a SKU are its balances, one per    *)
(* warehouse.                                                              *)
(***************************************************************************)
EXTENDS Integers, Sequences, SequencesExt

Lesser(x, y) == IF x < y THEN x ELSE y

Greater(x, y) == IF x > y THEN x ELSE y

FreeQty(bin) == bin.avail - bin.occ

\* sellable_qty.
Sellable(bin) == Greater(FreeQty(bin) - bin.safe, 0)

(***************************************************************************)
(* plan_allocations goes through the bins in this order: the default       *)
(* warehouse, then the fullest.                                            *)
(***************************************************************************)
Precedes(bins, g, h) ==
    \/ bins[g].default /\ ~bins[h].default
    \/ /\ bins[g].default <=> bins[h].default
       /\ \/ FreeQty(bins[g]) > FreeQty(bins[h])
          \/ FreeQty(bins[g]) = FreeQty(bins[h]) /\ g < h

\* Only the default warehouse may be one of a platform's.
Usable(bin) == FreeQty(bin) > 0 /\ (bin.default \/ bin.type # "PLATFORM")

UsableIn(bins) == {h \in DOMAIN bins : Usable(bins[h])}

FreeIn(bins, some) == SumFunctionOnSet([h \in DOMAIN bins |-> FreeQty(bins[h])], some)

\* What is still wanted when it is a warehouse's turn.
Wanted(bins, quantity, h) ==
    quantity - FreeIn(bins, {g \in UsableIn(bins) : Precedes(bins, g, h)})

\* What each warehouse gives.
PlanAllocations(bins, quantity) ==
    [h \in DOMAIN bins |->
        IF Usable(bins[h]) /\ Wanted(bins, quantity, h) > 0
        THEN Lesser(FreeQty(bins[h]), Wanted(bins, quantity, h)) ELSE 0]

\* platform_push_quantity over all bins.
PushQuantity(free, safety) == Greater(free - safety, 0)

-----------------------------------------------------------------------------
\* suggest_replenishment; the daily sales are sold / window.
DividedUp(x, y) == -((-x) \div y)

Suggested(sold, window, lead, cover, safety, movable, transit) ==
    Greater(0, DividedUp(sold * (lead + cover) + (safety - movable - transit) * window, window))

\* The days until the order is due, -1 when none is.
OrderIn(sold, window, lead, movable, suggested) ==
    CASE sold = 0 -> IF suggested > 0 THEN 0 ELSE -1
      [] sold > 0 -> Greater(0, (movable * window) \div sold - lead)

-----------------------------------------------------------------------------
(***************************************************************************)
(* A plan gives the order what it asks for or all there is, no bin gives   *)
(* more than it has free, and the default warehouse gives all it can       *)
(* before another is touched (plan_allocations).                           *)
(***************************************************************************)
PlanHolds(bins, quantity) ==
    LET plan == PlanAllocations(bins, quantity)
    IN  /\ SumFunction(plan) = Lesser(quantity, FreeIn(bins, UsableIn(bins)))
        /\ \A h \in DOMAIN bins : plan[h] > 0 =>
              h \in UsableIn(bins) /\ plan[h] <= FreeQty(bins[h])
        /\ \A h \in UsableIn(bins) : bins[h].default =>
              plan[h] = Lesser(FreeQty(bins[h]), quantity)

(***************************************************************************)
(* The suggested quantity covers the sales of lead and cover time above    *)
(* the safety stock, and one piece less would not; ordered on the day it   *)
(* is due, it arrives before what is movable has run out, unless it is too *)
(* late already (suggest_replenishment).  The code divides decimals of 28  *)
(* digits, so this holds of it where sold / window has an end.             *)
(***************************************************************************)
ReorderHolds(sold, window, lead, cover, safety, movable, transit) ==
    LET suggested == Suggested(sold, window, lead, cover, safety, movable, transit)
        covers(more) == (movable + transit + more - safety) * window >= sold * (lead + cover)
        due == OrderIn(sold, window, lead, movable, suggested)
    IN  /\ covers(suggested)
        /\ suggested > 0 => ~covers(suggested - 1)
        /\ due > 0 /\ sold > 0 => sold * (due + lead) <= movable * window
        /\ due >= 0 /\ sold > 0 => sold * (due + 1 + lead) > movable * window

-----------------------------------------------------------------------------
(* The legs that the operations of InventoryService hand to _commit_change  *)
(* and _ensure: what each of them changes, in which order, and the bucket   *)
(* its flow row shows.                                                      *)

\* A leg that changes nothing: _ensure alone.
Ensure(b) == [bin |-> b, avail |-> 0, occ |-> 0, transit |-> 0, defect |-> 0,
              shown |-> "avail"]

(***************************************************************************)
(* engines/inventory.py: ship_moves, receive_move, cancel_transit_moves.   *)
(***************************************************************************)
ShipSource(b, q) == [Ensure(b) EXCEPT !.avail = -q]

ShipDest(b, q) == [Ensure(b) EXCEPT !.transit = q, !.shown = "transit"]

ReceiveMove(b, q) == [Ensure(b) EXCEPT !.avail = q, !.transit = -q]

CancelDest(b, q) == [Ensure(b) EXCEPT !.transit = -q, !.shown = "transit"]

CancelSource(b, q) == [Ensure(b) EXCEPT !.avail = q]

(***************************************************************************)
(* The legs of one line of a transfer: both rows are ensured first.        *)
(***************************************************************************)
ShipLine(from, to, q) ==
    <<Ensure(from), Ensure(to), ShipSource(from, q), ShipDest(to, q)>>

ReceiveLine(to, q) == <<Ensure(to), ReceiveMove(to, q)>>

CancelLine(from, to, q) ==
    <<Ensure(to), Ensure(from), CancelDest(to, q), CancelSource(from, q)>>

(***************************************************************************)
(* adjust and _adjust_deltas.                                              *)
(***************************************************************************)
AdjustKind == {"INBOUND", "OUTBOUND", "TO_DEFECTIVE", "ADJUST"}

AdjustMove(b, kind, q) ==
    CASE kind \in {"INBOUND", "ADJUST"} -> [Ensure(b) EXCEPT !.avail = q]
      [] kind = "OUTBOUND" -> [Ensure(b) EXCEPT !.avail = -q]
      [] kind = "TO_DEFECTIVE" -> [Ensure(b) EXCEPT !.avail = -q, !.defect = q]

Adjust(b, kind, q) == <<Ensure(b), AdjustMove(b, kind, q)>>

(***************************************************************************)
(* Order lines: the deltas of a piece released (release_order) and shipped *)
(* from its hold (ship_order), whose rows exist; and a piece returned      *)
(* (receive_return).                                                       *)
(***************************************************************************)
ReleaseHold(b, q) == [Ensure(b) EXCEPT !.occ = -q, !.shown = "occ"]

ShipHold(b, q) == [Ensure(b) EXCEPT !.avail = -q, !.occ = -q]

ReturnIn(b, q, sellable) ==
    <<Ensure(b), IF sellable THEN [Ensure(b) EXCEPT !.avail = q]
                 ELSE [Ensure(b) EXCEPT !.defect = q, !.shown = "defect"]>>
=============================================================================
