--------------------------- MODULE MCStockLedger ---------------------------
(***************************************************************************)
(* StockLedger on two bins for TLC.                                        *)
(***************************************************************************)
EXTENDS StockLedger, StockRules

CONSTANTS b1, b2

\* A transfer from b1 to b2 shipped, received, cancelled; one shipped the other
\* way, which takes the row locks in the opposite order; an order line released;
\* an order with a held and an unheld line shipped, which meets its own writes;
\* an order line reserved, from both bins if it can be; an order line returned to
\* the stock, and one returned as defective.
MCPrograms == {ShipLine(b1, b2, 1), ReceiveLine(b2, 1), CancelLine(b1, b2, 1),
               ShipLine(b2, b1, 1), <<ReleaseHold(b1, 1)>>,
               <<ShipHold(b1, 1), [bins |-> {b1, b2}, quantity |-> 1, ships |-> TRUE]>>,
               <<[bins |-> {b1, b2}, quantity |-> 2, ships |-> FALSE]>>,
               ReturnIn(b2, 1, TRUE), ReturnIn(b2, 1, FALSE)}

\* Two pieces in b1, one of them reserved; the row of b2 does not exist yet.
MCOpening == [b \in {b1, b2} |-> IF b = b1
                                 THEN [ZeroRow EXCEPT !.avail = 2, !.occ = 1]
                                 ELSE NoRow]
=============================================================================
