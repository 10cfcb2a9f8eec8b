----------------------------- MODULE MCPurchase -----------------------------
(***************************************************************************)
(* Purchase on one SKU and two warehouses for TLC.                         *)
(***************************************************************************)
EXTENDS Purchase, TLC

CONSTANTS w1, w2, cny, usd

\* A shipment that carries stock abroad, or one that only shares out its cost.
OutAndPaper == {<<w1, w2, cny>>, <<None, None, usd>>}

Alike == Permutations(Session) \cup Permutations(Shipment)

\* A supplier that has open orders is not deleted (delete_supplier).
SuppliersHold == TypeOK /\ OpenOrdersHaveSuppliers
=============================================================================
