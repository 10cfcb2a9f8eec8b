-------------------------- MODULE MCStockDocuments --------------------------
(***************************************************************************)
(* StockDocuments on two warehouses and one SKU for TLC.                   *)
(***************************************************************************)
EXTENDS StockDocuments

CONSTANTS w1, w2, k1

Empty == [avail |-> 0, occ |-> 0, transit |-> 0, defect |-> 0]

\* One piece in w1.
OnePiece == [b \in {k1} \X {w1, w2} |->
                IF b[2] = w1 THEN [Empty EXCEPT !.avail = 1] ELSE Empty]

\* Two pieces in w1, one of them reserved.
Reserved == [b \in {k1} \X {w1, w2} |->
                IF b[2] = w1 THEN [Empty EXCEPT !.avail = 2, !.occ = 1] ELSE Empty]

OneOut == {<<"OUTBOUND", 1>>}

OneIn == {<<"INBOUND", 1>>}

\* The documents account for every piece (ship_transfer, receive_transfer, post_stocktaking).
DocumentsHold == TypeOK /\ DocumentsExplainStock
=============================================================================
