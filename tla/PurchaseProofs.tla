--------------------------- MODULE PurchaseProofs ---------------------------
(***************************************************************************)
(* Proofs about Purchase, for any sessions, suppliers, SKUs, warehouses    *)
(* and keys, and any finite sets of orders and shipments.                  *)
(***************************************************************************)
EXTENDS MCPurchase, Sums

\* A request works on a document that is there, and stays there.
WorkInv ==
    \A s \in Session :
        /\ job[s].stage \in {"order", "lines"} =>
              /\ job[s].on \in Order /\ po[job[s].on] # None
              /\ job[s].status \in Status
              /\ \A k \in Sku : job[s].lines[k] # None => po[job[s].on].lines[k] # None
        /\ job[s].stage \in {"draft", "pool"} =>
              job[s].on \in Shipment /\ shipment[job[s].on] # None
        /\ job[s].stage \in {"vendor", "closing"} => job[s].on \in Supplier

\* Papers name orders that are there; a shipment is costed when it is posted.
PapersInv ==
    /\ \A h \in Shipment : shipment[h] # None =>
          /\ shipment[h].order # None => po[shipment[h].order] # None
          /\ shipment[h].status = "POSTED" <=> shipment[h].costed # 0
    /\ \A i \in DOMAIN receipts : po[receipts[i].order] # None

\* Nothing has come for an order that is not approved.
NothingCame(status, lines) ==
    status \in {"DRAFT", "PENDING"} =>
        \A k \in Sku : lines[k] # None => lines[k].got = 0 /\ lines[k].short = 0

Untouched(doc) == doc # None => NothingCame(doc.status, doc.lines)

UntouchedInv == "order" \notin stale => \A o \in Order : Untouched(po[o])

\* A supplier that is about to be deleted has no open order.
ClosingInv ==
    stale \cap {"order", "vendor"} = {} =>
        \A s \in Session : job[s].stage = "closing" => CountOpen(job[s].on) = {}

IndInv == /\ TypeOK
          /\ WorkInv
          /\ PapersInv
          /\ UntouchedInv
          /\ ClosingInv
          /\ OpenQuantitiesInTransit
          /\ ReceiptsExplainStock
          /\ PoolsWeighEverything
          /\ OpenOrdersHaveSuppliers

-----------------------------------------------------------------------------
(* Lines, and sums over documents.                                          *)

LEMMA OpenQtyType ==
    ASSUME NEW l \in Line
    PROVE  /\ OpenQty(l) \in Nat
           /\ l.qty \in Nat /\ l.got \in Nat /\ l.short \in Nat
           /\ l # None
  BY AbsentAssumption DEF Line, OpenQty, Max2

LEMMA DocType ==
    ASSUME NEW doc \in PurchaseOrder
    PROVE  /\ doc # None
           /\ doc.status \in Status /\ doc.supplier \in Supplier /\ doc.house \in Warehouse
           /\ doc.lines \in [Sku -> Line \cup {None}]
  BY AbsentAssumption DEF PurchaseOrder

LEMMA DueType ==
    ASSUME NEW doc \in PurchaseOrder \cup {None}, NEW k \in Sku, NEW w
    PROVE  StillDue(doc, k, w) \in Int
  <1>1. doc # None /\ doc.lines[k] # None => OpenQty(doc.lines[k]) \in Nat
    BY DocType, OpenQtyType
  <1> QED
    BY <1>1 DEF StillDue

LEMMA ExpectedStep ==
    ASSUME po \in [Order -> PurchaseOrder \cup {None}],
           po' \in [Order -> PurchaseOrder \cup {None}],
           NEW o \in Order, \A u \in Order \ {o} : po'[u] = po[u],
           NEW k \in Sku, NEW w
    PROVE  /\ Expected(k, w) \in Int
           /\ Expected(k, w)' = Expected(k, w) + StillDue(po'[o], k, w)
                                               - StillDue(po[o], k, w)
  <1> DEFINE f == [u \in Order |-> StillDue(po[u], k, w)]
             g == [u \in Order |-> StillDue(po'[u], k, w)]
  <1>1. /\ \A u \in Order : f[u] \in Int /\ g[u] \in Int
        /\ \A u \in Order \ {o} : f[u] = g[u]
    BY DueType
  <1>2. f[o] = StillDue(po[o], k, w) /\ g[o] = StillDue(po'[o], k, w)
    OBVIOUS
  <1>3. /\ Expected(k, w) = SumFunctionOnSet(f, Order)
        /\ Expected(k, w)' = SumFunctionOnSet(g, Order)
    BY DEF Expected, SumFunction
  <1> HIDE DEF f, g
  <1>4. SumFunctionOnSet(g, Order) = SumFunctionOnSet(f, Order) + g[o] - f[o]
    BY <1>1, FiniteAssumption, SumChange
  <1>5. SumFunctionOnSet(f, Order) \in Int
    BY <1>1, FiniteAssumption, SumType
  <1> QED
    BY <1>2, <1>3, <1>4, <1>5

LEMMA ExpectedSame ==
    ASSUME UNCHANGED po, NEW k, NEW w
    PROVE  Expected(k, w)' = Expected(k, w)
  BY DEF Expected

LEMMA ExpectedType ==
    ASSUME po \in [Order -> PurchaseOrder \cup {None}], NEW k \in Sku, NEW w
    PROVE  Expected(k, w) \in Int
  <1> DEFINE f == [u \in Order |-> StillDue(po[u], k, w)]
  <1>1. \A u \in Order : f[u] \in Int
    BY DueType
  <1>2. Expected(k, w) = SumFunctionOnSet(f, Order)
    BY DEF Expected, SumFunction
  <1> HIDE DEF f
  <1> QED
    BY <1>1, <1>2, FiniteAssumption, SumType

LEMMA CarriedStep ==
    ASSUME shipment \in [Shipment -> FirstMile \cup {None}],
           shipment' \in [Shipment -> FirstMile \cup {None}],
           NEW h \in Shipment, \A u \in Shipment \ {h} : shipment'[u] = shipment[u],
           NEW H, NEW I, H \ {h} = I \ {h},
           \A u \in H : shipment[u] # None, \A u \in I : shipment'[u] # None,
           NEW k \in Sku
    PROVE  /\ Carried(k, H) \in Int
           /\ SumFunction([u \in Shipment |-> IF u \in I THEN shipment'[u].qty[k] ELSE 0])
                = Carried(k, H) + (IF h \in I THEN shipment'[h].qty[k] ELSE 0)
                                - (IF h \in H THEN shipment[h].qty[k] ELSE 0)
  <1> DEFINE f == [u \in Shipment |-> IF u \in H THEN shipment[u].qty[k] ELSE 0]
             g == [u \in Shipment |-> IF u \in I THEN shipment'[u].qty[k] ELSE 0]
  <1>1. /\ \A u \in Shipment : shipment[u] # None => shipment[u].qty[k] \in Nat
        /\ \A u \in Shipment : shipment'[u] # None => shipment'[u].qty[k] \in Nat
    BY DEF FirstMile
  <1>2. /\ \A u \in Shipment : f[u] \in Int /\ g[u] \in Int
        /\ \A u \in Shipment \ {h} : f[u] = g[u]
    BY <1>1
  <1>3. /\ f[h] = IF h \in H THEN shipment[h].qty[k] ELSE 0
        /\ g[h] = IF h \in I THEN shipment'[h].qty[k] ELSE 0
    OBVIOUS
  <1>4. /\ Carried(k, H) = SumFunctionOnSet(f, Shipment)
        /\ SumFunction(g) = SumFunctionOnSet(g, Shipment)
    BY DEF Carried, SumFunction
  <1> HIDE DEF f, g
  <1>5. SumFunctionOnSet(g, Shipment) = SumFunctionOnSet(f, Shipment) + g[h] - f[h]
    BY <1>2, FiniteAssumption, SumChange
  <1>6. SumFunctionOnSet(f, Shipment) \in Int
    BY <1>2, FiniteAssumption, SumType
  <1> USE DEF g
  <1> QED
    BY <1>3, <1>4, <1>5, <1>6

LEMMA NothingCarried ==
    ASSUME NEW k PROVE Carried(k, {}) = 0
  <1> DEFINE f == [u \in Shipment |-> IF u \in {} THEN shipment[u].qty[k] ELSE 0]
  <1>1. \A u \in Shipment : f[u] = 0
    OBVIOUS
  <1>2. Carried(k, {}) = SumFunctionOnSet(f, Shipment)
    BY DEF Carried, SumFunction
  <1> HIDE DEF f
  <1> QED
    BY <1>1, <1>2, FiniteAssumption, SumZero

LEMMA CarriedType ==
    ASSUME shipment \in [Shipment -> FirstMile \cup {None}],
           NEW H, \A u \in H : shipment[u] # None, NEW k \in Sku
    PROVE  Carried(k, H) \in Int
  <1> DEFINE f == [u \in Shipment |-> IF u \in H THEN shipment[u].qty[k] ELSE 0]
  <1>1. \A u \in Shipment : f[u] \in Int
    BY DEF FirstMile
  <1>2. Carried(k, H) = SumFunctionOnSet(f, Shipment)
    BY DEF Carried, SumFunction
  <1> HIDE DEF f
  <1> QED
    BY <1>1, <1>2, FiniteAssumption, SumType

-----------------------------------------------------------------------------
(* Documents stay.                                                          *)

OrdersStay ==
    \A o \in Order : po[o] # None =>
        /\ po'[o] # None
        /\ po'[o].house = po[o].house
        /\ \A k \in Sku : po[o].lines[k] # None => po'[o].lines[k] # None

ShipmentsStay == \A h \in Shipment : shipment[h] # None => shipment'[h] # None

LEMMA SameMove ==
    ASSUME TypeOK, PapersInv, OrdersStay, NEW h \in Shipment, shipment[h] # None,
           shipment'[h] = shipment[h]
    PROVE  ShouldMove(shipment[h])' <=> ShouldMove(shipment[h])
  <1>1. shipment[h].order \in Order \cup {None}
    BY DEF TypeOK, FirstMile
  <1>2. shipment[h].order # None => po[shipment[h].order] # None
    BY DEF PapersInv
  <1> QED
    BY <1>1, <1>2 DEF ShouldMove, OrdersStay

\* Shipments that are not touched carry what they carried.
LEMMA SameCarried ==
    ASSUME TypeOK, PapersInv, OrdersStay, UNCHANGED shipment
    PROVE  \A k, w : /\ Carried(k, MoversTo(w))' = Carried(k, MoversTo(w))
                     /\ Carried(k, MoversFrom(w))' = Carried(k, MoversFrom(w))
                     /\ Carried(k, Shipped)' = Carried(k, Shipped)
  <1>1. Shipped' = Shipped
    BY DEF Shipped
  <1>2. \A h \in Shipped : ShouldMove(shipment[h])' <=> ShouldMove(shipment[h])
    BY SameMove DEF Shipped
  <1>3. Movers' = Movers
    BY <1>1, <1>2 DEF Movers
  <1>4. \A w : MoversTo(w)' = MoversTo(w) /\ MoversFrom(w)' = MoversFrom(w)
    BY <1>3 DEF MoversTo, MoversFrom
  <1> QED
    BY <1>1, <1>4 DEF Carried

-----------------------------------------------------------------------------
(* The pools of cost.                                                       *)

LEMMA LatestType ==
    ASSUME TypeOK, NEW k \in Sku
    PROVE  /\ pool[k] \in Seq(CostPool)
           /\ LatestPool(k) \in CostPool \cup {None}
           /\ LatestPool(k) = None <=> pool[k] = <<>>
           /\ pool[k] # <<>> => /\ Len(pool[k]) \in Nat \ {0}
                                /\ LatestPool(k) = pool[k][Len(pool[k])]
  <1>1. pool[k] \in Seq(CostPool)
    BY DEF TypeOK
  <1>2. CASE pool[k] = <<>>
    BY <1>1, <1>2 DEF LatestPool
  <1>3. CASE pool[k] # <<>>
    <2>1. Len(pool[k]) \in Nat \ {0}
      BY <1>1, <1>3
    <2>2. pool[k][Len(pool[k])] \in CostPool
      BY <1>1, <2>1
    <2> QED
      BY <1>1, <1>3, <2>1, <2>2, AbsentAssumption DEF LatestPool
  <1> QED
    BY <1>2, <1>3

LEMMA RecentShipped ==
    ASSUME TypeOK, PoolsWeighEverything, NEW k \in Sku
    PROVE  /\ Recent(k) \subseteq Shipped
           /\ \A i \in 1..Len(pool[k]) : pool[k][i].of \in Shipped
  <1>1. pool[k] \in Seq(CostPool) /\ DOMAIN pool[k] = 1..Len(pool[k])
    BY LatestType
  <1>2. \A i \in 1..Len(pool[k]) : pool[k][i].of \in Shipment
    <2> SUFFICES ASSUME NEW i \in 1..Len(pool[k]) PROVE pool[k][i].of \in Shipment
      OBVIOUS
    <2>1. pool[k][i] \in CostPool
      BY <1>1
    <2> QED
      BY <2>1 DEF CostPool
  <1>3. \A i \in 1..Len(pool[k]) : pool[k][i].of \in Shipped
    BY <1>1, <1>2 DEF PoolsWeighEverything
  <1> QED
    BY <1>3 DEF Recent

\* A further pool goes on with the recent ones if it is in their currency.
LEMMA RecentAppend ==
    ASSUME TypeOK, NEW k \in Sku, NEW row \in CostPool, pool'[k] = Append(pool[k], row)
    PROVE  /\ LatestPool(k)' = row
           /\ pool'[k] # <<>>
           /\ LatestPool(k) # None /\ LatestPool(k).coin = row.coin =>
                 Recent(k)' = Recent(k) \cup {row.of}
           /\ LatestPool(k) = None \/ LatestPool(k).coin # row.coin =>
                 Recent(k)' = {row.of}
  <1> DEFINE p == pool[k]
             n == Len(p)
             I == {i \in 1..n : \A j \in i..n : p[j].coin = p[n].coin}
             J == {i \in 1..(n + 1) : \A j \in i..(n + 1) : pool'[k][j].coin = row.coin}
  <1>1. /\ p \in Seq(CostPool) /\ n \in Nat /\ Len(pool'[k]) = n + 1
        /\ pool'[k][n + 1] = row /\ \A i \in 1..n : pool'[k][i] = p[i]
        /\ pool'[k] # <<>>
    BY LatestType
  <1>2. LatestPool(k)' = row
    BY <1>1 DEF LatestPool
  <1>3. Recent(k)' = {pool'[k][i].of : i \in J} /\ Recent(k) = {p[i].of : i \in I}
    BY <1>1 DEF Recent
  <1>4. ASSUME LatestPool(k) # None, LatestPool(k).coin = row.coin
        PROVE  Recent(k)' = Recent(k) \cup {row.of}
    <2>1. n \in Nat \ {0} /\ p[n].coin = row.coin
      BY <1>4, LatestType
    <2>2. J = I \cup {n + 1}
      BY <1>1, <2>1
    <2>3. \A i \in I : pool'[k][i].of = p[i].of
      BY <1>1
    <2> HIDE DEF I, J, n, p
    <2> QED
      BY <1>1, <1>3, <2>2, <2>3
  <1>5. ASSUME LatestPool(k) = None \/ LatestPool(k).coin # row.coin
        PROVE  Recent(k)' = {row.of}
    <2>1. n = 0 \/ p[n].coin # row.coin
      BY <1>1, <1>5, LatestType
    <2>2. J = {n + 1}
      BY <1>1, <2>1
    <2> HIDE DEF I, J, n, p
    <2> QED
      BY <1>1, <1>3, <2>2
  <1> QED
    BY <1>1, <1>2, <1>4, <1>5

LEMMA SamePools ==
    ASSUME PoolsWeighEverything, UNCHANGED <<shipment, pool>>, stale \subseteq stale'
    PROVE  PoolsWeighEverything'
  <1>1. Shipped' = Shipped
    BY DEF Shipped
  <1>2. \A k : Recent(k)' = Recent(k) /\ LatestPool(k)' = LatestPool(k)
    BY DEF Recent, LatestPool
  <1>3. \A k : Carried(k, Recent(k))' = Carried(k, Recent(k))
    BY <1>2 DEF Carried
  <1> QED
    BY <1>1, <1>2, <1>3 DEF PoolsWeighEverything

LEMMA ReceiptType ==
    ASSUME TypeOK, NEW i \in DOMAIN receipts
    PROVE  /\ receipts[i].order \in Order /\ receipts[i].got \in [Sku -> Nat]
           /\ receipts[i].key \in Key \cup {None}
  <1>1. receipts[i] \in Receipt
    BY DEF TypeOK
  <1> QED
    BY <1>1 DEF Receipt

LEMMA CameType ==
    ASSUME TypeOK, NEW k \in Sku, NEW w
    PROVE  Came(k, w) \in Int
  <1> DEFINE f == [i \in DOMAIN receipts |->
                     IF po[receipts[i].order].house = w THEN receipts[i].got[k] ELSE 0]
  <1>1. \A i \in DOMAIN receipts : f[i] \in Int
    BY ReceiptType
  <1>2. Came(k, w) = SumFunctionOnSet(f, DOMAIN receipts)
    BY DEF Came, SumFunction
  <1>3. IsFiniteSet(DOMAIN receipts)
    BY FS_Interval DEF TypeOK
  <1> HIDE DEF f
  <1> QED
    BY <1>1, <1>2, <1>3, SumType

LEMMA SameCame ==
    ASSUME TypeOK, PapersInv, OrdersStay, UNCHANGED receipts, NEW k, NEW w
    PROVE  Came(k, w)' = Came(k, w)
  <1>1. \A i \in DOMAIN receipts :
           po'[receipts[i].order].house = po[receipts[i].order].house
    BY ReceiptType DEF PapersInv, OrdersStay
  <1> QED
    BY <1>1 DEF Came

\* A receipt is added.
LEMMA CameStep ==
    ASSUME TypeOK, PapersInv, OrdersStay, NEW o \in Order, po[o] # None,
           NEW key \in Key \cup {None}, NEW got \in [Sku -> Nat],
           receipts' = Append(receipts, [order |-> o, key |-> key, got |-> got]),
           NEW k \in Sku, NEW w
    PROVE  Came(k, w)' = Came(k, w) + (IF po[o].house = w THEN got[k] ELSE 0)
  <1> DEFINE n == Len(receipts)
             f == [i \in DOMAIN receipts |->
                     IF po[receipts[i].order].house = w THEN receipts[i].got[k] ELSE 0]
             g == [i \in DOMAIN receipts' |->
                     IF po'[receipts'[i].order].house = w THEN receipts'[i].got[k] ELSE 0]
  <1>1. /\ receipts \in Seq(Receipt) /\ n \in Nat
        /\ [order |-> o, key |-> key, got |-> got] \in Receipt
    BY DEF TypeOK, Receipt
  <1>2. /\ DOMAIN receipts = 1..n
        /\ DOMAIN receipts' = (1..n) \cup {n + 1} /\ n + 1 \notin 1..n
        /\ \A i \in 1..n : receipts'[i] = receipts[i]
        /\ receipts'[n + 1] = [order |-> o, key |-> key, got |-> got]
    BY <1>1
  <1>3. \A i \in 1..n : /\ po'[receipts[i].order].house = po[receipts[i].order].house
                        /\ receipts[i].got[k] \in Nat
    BY <1>2, ReceiptType DEF PapersInv, OrdersStay
  <1>4. po'[o].house = po[o].house
    BY DEF OrdersStay
  <1>5. \A i \in 1..n : f[i] \in Int /\ f[i] = g[i]
    BY <1>2, <1>3
  <1>6. g[n + 1] = IF po[o].house = w THEN got[k] ELSE 0
    BY <1>2, <1>4
  <1>7. g[n + 1] \in Int
    BY <1>6
  <1>8. /\ Came(k, w) = SumFunctionOnSet(f, 1..n)
        /\ Came(k, w)' = SumFunctionOnSet(g, (1..n) \cup {n + 1})
    BY <1>2 DEF Came, SumFunction
  <1>9. IsFiniteSet(1..n)
    BY <1>1, FS_Interval
  <1> HIDE DEF f, g
  <1> DEFINE D == 1..n
             m == n + 1
  <1>10. m \notin D /\ IsFiniteSet(D) /\ \A i \in D \cup {m} : g[i] \in Int
    BY <1>2, <1>5, <1>7, <1>9
  <1>11. SumFunctionOnSet(g, D) = SumFunctionOnSet(f, D)
    <2> HIDE DEF D
    <2>1. \A i \in D : f[i] \in Int /\ f[i] = g[i]
      BY <1>5 DEF D
    <2> QED
      BY <1>10, <2>1, SumEqual
  <1>12. SumFunctionOnSet(g, D) \in Int
    <2> HIDE DEF D, m
    <2> QED
      BY <1>10, SumType
  <1>13. SumFunctionOnSet(g, D \cup {m}) = g[m] + SumFunctionOnSet(g, D)
    <2> HIDE DEF D, m
    <2> QED
      BY <1>10, SumInsert
  <1> HIDE DEF n
  <1> QED
    BY <1>6, <1>7, <1>8, <1>11, <1>12, <1>13

-----------------------------------------------------------------------------
(* Requests begin, read and end.                                            *)

LEMMA OneJob ==
    ASSUME job \in [Session -> Job], NEW s \in Session, NEW J \in Job,
           job' = [job EXCEPT ![s] = J]
    PROVE  /\ job' \in [Session -> Job]
           /\ job'[s] = J
           /\ \A u \in Session \ {s} : job'[u] = job[u]
  OBVIOUS

LEMMA IdleType == Idle \in Job /\ Idle.stage = "idle"
  BY DEF Idle, Job, NoLines, NoPools

\* What a request may be at.
Working(J) ==
    /\ J.stage \in {"order", "lines"} =>
          /\ J.on \in Order /\ po[J.on] # None
          /\ J.status \in Status
          /\ \A k \in Sku : J.lines[k] # None => po[J.on].lines[k] # None
    /\ J.stage \in {"draft", "pool"} => J.on \in Shipment /\ shipment[J.on] # None
    /\ J.stage \in {"vendor", "closing"} => J.on \in Supplier

\* A request reads, begins, or ends without an effect.
LEMMA ReadStep ==
    ASSUME IndInv, NEW s \in Session, NEW J \in Job,
           job' = [job EXCEPT ![s] = J],
           UNCHANGED <<vendors, po, receipts, shipment, pool, stock, stale>>,
           Working(J), J.stage = "closing" => CountOpen(J.on) = {}
    PROVE  IndInv'
  <1>1. /\ job' \in [Session -> Job]
        /\ job'[s] = J
        /\ \A u \in Session \ {s} : job'[u] = job[u]
    BY OneJob DEF IndInv, TypeOK
  <1>2. UNCHANGED <<vendors, po, receipts, shipment, pool, avail, transit, stale>>
    BY DEF stock
  <1>3. TypeOK'
    BY <1>1, <1>2 DEF IndInv, TypeOK
  <1>4. WorkInv'
    BY <1>1, <1>2 DEF IndInv, WorkInv, Working
  <1>5. PapersInv' /\ UntouchedInv'
    BY <1>2 DEF IndInv, PapersInv, UntouchedInv, Untouched, NothingCame
  <1>6. ClosingInv'
    <2>1. \A p : CountOpen(p)' = CountOpen(p)
      BY <1>2 DEF CountOpen, Open
    <2> QED
      BY <1>1, <1>2, <2>1 DEF IndInv, ClosingInv
  <1>7. OpenOrdersHaveSuppliers'
    BY <1>2 DEF IndInv, OpenOrdersHaveSuppliers, Open
  <1>8. /\ TypeOK /\ PapersInv /\ OrdersStay
        /\ OpenQuantitiesInTransit /\ ReceiptsExplainStock /\ PoolsWeighEverything
    BY <1>2 DEF IndInv, OrdersStay
  <1>9. OpenQuantitiesInTransit'
    <2>1. \A k, w : /\ Carried(k, MoversTo(w))' = Carried(k, MoversTo(w))
                    /\ Expected(k, w)' = Expected(k, w)
      BY <1>2, <1>8, SameCarried, ExpectedSame
    <2> QED
      BY <1>2, <1>8, <2>1 DEF OpenQuantitiesInTransit
  <1>10. ReceiptsExplainStock'
    BY <1>2, <1>8, SameCarried, SameCame DEF ReceiptsExplainStock
  <1>11. PoolsWeighEverything'
    BY <1>2, <1>8, SamePools
  <1> QED
    BY <1>3, <1>4, <1>5, <1>6, <1>7, <1>9, <1>10, <1>11 DEF IndInv

LEMMA BeginStep ==
    ASSUME IndInv, NEW s \in Session,
           \/ \E p \in Supplier : ReadVendor(s, p) \/ ReadForDelete(s, p)
           \/ \E h \in Shipment : ReadShipment(s, h)
           \/ \E o \in Order : ReadOrder(s, o)
    PROVE  IndInv'
  <1>1. CASE \E p \in Supplier : ReadVendor(s, p) \/ ReadForDelete(s, p)
    <2>1. PICK p \in Supplier, stage \in {"vendor", "closing"} :
             /\ job' = [job EXCEPT ![s] = [Idle EXCEPT !.on = p, !.stage = stage]]
             /\ UNCHANGED <<vendors, po, receipts, shipment, pool, stock, stale>>
             /\ stage = "closing" => CountOpen(p) = {}
      BY <1>1 DEF ReadVendor, ReadForDelete
    <2> DEFINE J == [Idle EXCEPT !.on = p, !.stage = stage]
    <2>2. J \in Job /\ J.on = p /\ J.stage = stage
      BY IdleType DEF Job
    <2> HIDE DEF J
    <2>3. Working(J)
      BY <2>2 DEF Working
    <2> QED
      BY <2>1, <2>2, <2>3, ReadStep DEF J
  <1>2. CASE \E h \in Shipment : ReadShipment(s, h)
    <2>1. PICK h \in Shipment : ReadShipment(s, h)
      BY <1>2
    <2> DEFINE J == [Idle EXCEPT !.on = h, !.stage = "draft"]
    <2>2. J \in Job /\ J.on = h /\ J.stage = "draft"
      BY IdleType DEF Job
    <2>3. job' = [job EXCEPT ![s] = J] /\ shipment[h] # None
      BY <2>1 DEF ReadShipment
    <2> HIDE DEF J
    <2>4. Working(J)
      BY <2>2, <2>3 DEF Working
    <2> QED
      BY <2>1, <2>2, <2>3, <2>4, ReadStep DEF ReadShipment
  <1>3. CASE \E o \in Order : ReadOrder(s, o)
    <2>1. PICK o \in Order : ReadOrder(s, o)
      BY <1>3
    <2> DEFINE J == [Idle EXCEPT !.on = o, !.stage = "order", !.status = po[o].status]
    <2>2. po[o] # None /\ po[o].status \in Status
      BY <2>1, DocType DEF ReadOrder, IndInv, TypeOK
    <2>3. J \in Job /\ J.on = o /\ J.stage = "order" /\ J.status = po[o].status
                    /\ J.lines = NoLines
      BY <2>2, IdleType DEF Job, Idle
    <2>4. job' = [job EXCEPT ![s] = J]
      BY <2>1 DEF ReadOrder
    <2> HIDE DEF J
    <2>5. Working(J)
      BY <2>2, <2>3 DEF Working, NoLines
    <2> QED
      BY <2>1, <2>3, <2>4, <2>5, ReadStep DEF ReadOrder
  <1> QED
    BY <1>1, <1>2, <1>3

LEMMA GoOnStep ==
    ASSUME IndInv, NEW s \in Session, ReadLines(s) \/ ReadPool(s) \/ Drop(s)
    PROVE  IndInv'
  <1>1. job[s] \in Job /\ TypeOK
    BY DEF IndInv, TypeOK
  <1>2. CASE ReadLines(s)
    <2> DEFINE lines == po[job[s].on].lines
               J == [job[s] EXCEPT !.stage = "lines", !.lines = lines]
    <2>1. /\ job[s].on \in Order /\ po[job[s].on] \in PurchaseOrder
          /\ po[job[s].on] # None /\ job[s].status \in Status
      BY <1>2 DEF ReadLines, IndInv, WorkInv, TypeOK
    <2>2. lines \in [Sku -> Line \cup {None}]
      BY <2>1, DocType
    <2>3. job' = [job EXCEPT ![s] = J]
      BY <1>2 DEF ReadLines
    <2> HIDE DEF lines
    <2>4. J \in Job /\ J.stage = "lines" /\ J.on = job[s].on
                    /\ J.status = job[s].status /\ J.lines = lines
      BY <1>1, <2>2 DEF Job
    <2> HIDE DEF J
    <2>5. Working(J)
      BY <2>1, <2>4 DEF Working, lines
    <2> QED
      BY <1>2, <2>3, <2>4, <2>5, ReadStep DEF ReadLines
  <1>3. CASE ReadPool(s)
    <2> DEFINE latest == [k \in Sku |-> LatestPool(k)]
               J == [job[s] EXCEPT !.stage = "pool", !.pool = latest]
    <2>0. latest \in [Sku -> CostPool \cup {None}]
      BY <1>1, LatestType
    <2>2. job' = [job EXCEPT ![s] = J]
      BY <1>3 DEF ReadPool
    <2> HIDE DEF latest
    <2>1. J \in Job /\ J.stage = "pool" /\ J.on = job[s].on
      BY <1>1, <2>0 DEF Job
    <2> HIDE DEF J
    <2>3. Working(J)
      BY <1>3, <2>1 DEF Working, ReadPool, IndInv, WorkInv
    <2> QED
      BY <1>3, <2>1, <2>2, <2>3, ReadStep DEF ReadPool
  <1>4. CASE Drop(s)
    <2>1. Working(Idle)
      BY IdleType DEF Working
    <2> QED
      BY <1>4, <2>1, IdleType, ReadStep DEF Drop, Done
  <1> QED
    BY <1>2, <1>3, <1>4

-----------------------------------------------------------------------------
(* Requests that write.                                                     *)

LEMMA DoneWork ==
    ASSUME TypeOK, WorkInv, NEW s \in Session, Done(s) \/ UNCHANGED job,
           OrdersStay, ShipmentsStay
    PROVE  /\ job' \in [Session -> Job]
           /\ WorkInv'
           /\ \A u \in Session : job'[u].stage # "idle" => job'[u] = job[u] /\ (u = s => UNCHANGED job)
  <1>1. /\ job' \in [Session -> Job]
        /\ \A u \in Session : job'[u] = job[u] \/ (u = s /\ job'[u] = Idle)
    <2>1. CASE Done(s)
      BY <2>1, OneJob, IdleType DEF Done, TypeOK
    <2>2. CASE UNCHANGED job
      BY <2>2 DEF TypeOK
    <2> QED
      BY <2>1, <2>2
  <1>2. WorkInv'
    BY <1>1, IdleType DEF WorkInv, OrdersStay, ShipmentsStay
  <1>3. \A u \in Session : job'[u].stage # "idle" => job'[u] = job[u]
    BY <1>1, IdleType
  <1>4. \A u \in Session : job'[u].stage # "idle" /\ u = s => UNCHANGED job
    BY IdleType DEF Done, TypeOK
  <1> QED
    BY <1>1, <1>2, <1>3, <1>4

\* No order is opened, or given to another supplier.
NoneOpened ==
    \A o \in Order : Open(o)' => Open(o) /\ po'[o].supplier = po[o].supplier

LEMMA SameSuppliers ==
    ASSUME IndInv, NEW s \in Session, Done(s) \/ UNCHANGED job,
           OrdersStay, ShipmentsStay, stale \subseteq stale',
           stale' \cap {"order", "vendor"} = {} => NoneOpened,
           UNCHANGED vendors
    PROVE  ClosingInv' /\ OpenOrdersHaveSuppliers'
  <1>1. ASSUME stale' \cap {"order", "vendor"} = {}
        PROVE  /\ NoneOpened
               /\ stale \cap {"order", "vendor"} = {}
    BY <1>1
  <1>2. ClosingInv'
    <2> SUFFICES ASSUME stale' \cap {"order", "vendor"} = {},
                        NEW u \in Session, (job[u].stage = "closing")'
                 PROVE  (CountOpen(job[u].on) = {})'
      BY DEF ClosingInv
    <2>1. job'[u] = job[u]
      BY DoneWork DEF IndInv
    <2>2. CountOpen(job[u].on) = {}
      BY <1>1, <2>1 DEF IndInv, ClosingInv
    <2> QED
      BY <1>1, <2>1, <2>2 DEF CountOpen, NoneOpened
  <1>3. OpenOrdersHaveSuppliers'
    BY <1>1 DEF IndInv, OpenOrdersHaveSuppliers, NoneOpened
  <1> QED
    BY <1>2, <1>3

LEMMA SamePapers ==
    ASSUME TypeOK, PapersInv, OrdersStay, UNCHANGED <<receipts, shipment>>
    PROVE  PapersInv'
  <1>1. \A i \in DOMAIN receipts : po'[receipts[i].order] # None
    BY ReceiptType DEF PapersInv, OrdersStay
  <1>2. ASSUME NEW h \in Shipment, shipment[h] # None, shipment[h].order # None
        PROVE  po'[shipment[h].order] # None
    <2>1. shipment[h].order \in Order
      BY <1>2 DEF TypeOK, FirstMile
    <2> QED
      BY <1>2, <2>1 DEF PapersInv, OrdersStay
  <1> QED
    BY <1>1, <1>2 DEF PapersInv

LEMMA DeleteSupplierStep ==
    ASSUME IndInv, NEW s \in Session, DeleteSupplier(s)
    PROVE  IndInv'
  <1> DEFINE p == job[s].on
  <1>1. /\ vendors' = vendors \ {p} /\ job[s].stage = "closing" /\ Done(s)
        /\ UNCHANGED <<po, receipts, shipment, pool, avail, transit, stale>>
    BY DEF DeleteSupplier, stock
  <1>2. /\ TypeOK /\ WorkInv /\ PapersInv /\ OrdersStay /\ ShipmentsStay
        /\ OpenQuantitiesInTransit /\ ReceiptsExplainStock /\ PoolsWeighEverything
    BY <1>1 DEF IndInv, OrdersStay, ShipmentsStay
  <1>3. job' \in [Session -> Job] /\ WorkInv'
    BY <1>1, <1>2, DoneWork
  <1>4. TypeOK'
    BY <1>1, <1>2, <1>3 DEF TypeOK
  <1>5. PapersInv' /\ UntouchedInv'
    BY <1>1 DEF IndInv, PapersInv, UntouchedInv, Untouched, NothingCame
  <1>6. \A q : CountOpen(q)' = CountOpen(q)
    BY <1>1 DEF CountOpen, Open
  <1>7. ClosingInv'
    <2> SUFFICES ASSUME stale \cap {"order", "vendor"} = {},
                        NEW u \in Session, (job[u].stage = "closing")'
                 PROVE  (CountOpen(job[u].on) = {})'
      BY <1>1 DEF ClosingInv
    <2>1. job'[u] = job[u]
      BY <1>1, <1>2, DoneWork
    <2> QED
      BY <1>6, <2>1 DEF IndInv, ClosingInv
  <1>8. OpenOrdersHaveSuppliers'
    <2> SUFFICES ASSUME stale \cap {"order", "vendor"} = {}, NEW o \in Order, Open(o)
                 PROVE  po[o].supplier \in vendors \ {p}
      BY <1>1 DEF OpenOrdersHaveSuppliers, Open
    <2>1. CountOpen(p) = {}
      BY <1>1 DEF IndInv, ClosingInv
    <2> QED
      BY <2>1 DEF IndInv, OpenOrdersHaveSuppliers, CountOpen
  <1>9. OpenQuantitiesInTransit'
    BY <1>1, <1>2, SameCarried, ExpectedSame DEF OpenQuantitiesInTransit
  <1>10. ReceiptsExplainStock'
    BY <1>1, <1>2, SameCarried, SameCame DEF ReceiptsExplainStock
  <1>11. PoolsWeighEverything'
    BY <1>1, <1>2, SamePools
  <1> QED
    BY <1>3, <1>4, <1>5, <1>7, <1>8, <1>9, <1>10, <1>11 DEF IndInv

LEMMA InsertOrderStep ==
    ASSUME IndInv, NEW s \in Session, NEW o \in Order, InsertOrder(s, o)
    PROVE  IndInv'
  <1>1. PICK w \in Warehouse, K \in SUBSET Sku \ {{}} : \E q \in [K -> Quantities] :
          po' = [po EXCEPT ![o] =
            [status |-> "DRAFT", supplier |-> job[s].on, house |-> w,
             lines |-> [k \in Sku |->
               IF k \in K THEN [qty |-> q[k], got |-> 0, short |-> 0] ELSE None]]]
    BY DEF InsertOrder
  <1>2. PICK q \in [K -> Quantities] :
          po' = [po EXCEPT ![o] =
            [status |-> "DRAFT", supplier |-> job[s].on, house |-> w,
             lines |-> [k \in Sku |->
               IF k \in K THEN [qty |-> q[k], got |-> 0, short |-> 0] ELSE None]]]
    BY <1>1
  <1> DEFINE lines == [k \in Sku |->
                         IF k \in K THEN [qty |-> q[k], got |-> 0, short |-> 0] ELSE None]
             doc == [status |-> "DRAFT", supplier |-> job[s].on, house |-> w,
                     lines |-> lines]
  <1>3. /\ po[o] = None /\ job[s].stage = "vendor" /\ job[s].on \in Supplier
        /\ Done(s)
        /\ UNCHANGED <<vendors, receipts, shipment, pool, avail, transit>>
        /\ po \in [Order -> PurchaseOrder \cup {None}]
    BY DEF InsertOrder, stock, IndInv, WorkInv, TypeOK
  <1>4. lines \in [Sku -> Line \cup {None}]
    <2>1. \A k \in K : q[k] \in Nat
      BY AmountsAssumption
    <2> QED
      BY <2>1 DEF Line
  <1>5. \A k \in Sku : lines[k] # None => lines[k].got = 0 /\ lines[k].short = 0
    OBVIOUS
  <1>6. doc \in PurchaseOrder
    <2> HIDE DEF lines
    <2> QED
      BY <1>3, <1>4 DEF PurchaseOrder, Status
  <1>7. po' = [po EXCEPT ![o] = doc]
    BY <1>2
  <1>8. doc.lines = lines /\ doc.status = "DRAFT" /\ doc.supplier = job[s].on
    OBVIOUS
  <1> HIDE DEF doc, lines
  <1>9. /\ po' \in [Order -> PurchaseOrder \cup {None}]
        /\ po'[o] = doc /\ \A u \in Order \ {o} : po'[u] = po[u]
    BY <1>3, <1>6, <1>7
  <1>10. OrdersStay /\ ShipmentsStay
    BY <1>3, <1>9 DEF OrdersStay, ShipmentsStay
  <1>11. stale \subseteq stale' /\ stale' \subseteq stale \cup {"vendor"}
    BY DEF InsertOrder
  <1>12. TypeOK /\ WorkInv /\ PapersInv
    BY DEF IndInv
  <1>13. /\ job' \in [Session -> Job] /\ WorkInv'
         /\ \A u \in Session : job'[u].stage = "closing" => job'[u] = job[u]
    BY <1>3, <1>10, <1>12, DoneWork
  <1>14. TypeOK'
    BY <1>3, <1>9, <1>11, <1>12, <1>13 DEF TypeOK
  <1>15. PapersInv'
    BY <1>3, <1>10, <1>12, SamePapers
  <1>16. UntouchedInv'
    BY <1>5, <1>8, <1>9, <1>11 DEF IndInv, UntouchedInv, Untouched, NothingCame
  <1>17. ASSUME stale' \cap {"order", "vendor"} = {}
         PROVE  /\ stale \cap {"order", "vendor"} = {}
                /\ job[s].on \in vendors
                /\ ~Closing(job[s].on)
    BY <1>17 DEF InsertOrder
  <1>18. ClosingInv'
    <2> SUFFICES ASSUME stale' \cap {"order", "vendor"} = {},
                        NEW u \in Session, (job[u].stage = "closing")'
                 PROVE  (CountOpen(job[u].on) = {})'
      BY DEF ClosingInv
    <2>1. job'[u] = job[u]
      BY <1>13
    <2>2. CountOpen(job[u].on) = {} /\ job[u].on # job[s].on
      BY <1>17, <2>1 DEF IndInv, ClosingInv, Closing
    <2> QED
      BY <1>8, <1>9, <2>1, <2>2 DEF CountOpen, Open
  <1>19. OpenOrdersHaveSuppliers'
    BY <1>3, <1>8, <1>9, <1>17 DEF IndInv, OpenOrdersHaveSuppliers, Open
  <1>20. \A k, x : StillDue(po'[o], k, x) = 0 /\ StillDue(po[o], k, x) = 0
    BY <1>3, <1>8, <1>9 DEF StillDue, OpenForReceipt
  <1>21. \A k \in Sku, x \in Warehouse : Expected(k, x)' = Expected(k, x)
    BY <1>3, <1>9, <1>20, ExpectedStep
  <1>22. OpenQuantitiesInTransit'
    <2> SUFFICES ASSUME "order" \notin stale', NEW k \in Sku, NEW v \in Warehouse
                 PROVE  transit'[<<k, v>>] = Expected(k, v)' + Carried(k, MoversTo(v))'
      BY DEF OpenQuantitiesInTransit
    <2>1. transit[<<k, v>>] = Expected(k, v) + Carried(k, MoversTo(v))
      BY <1>11 DEF IndInv, OpenQuantitiesInTransit
    <2>2. Carried(k, MoversTo(v))' = Carried(k, MoversTo(v))
      BY <1>3, <1>10, <1>12, SameCarried
    <2>3. transit' = transit
      BY <1>3
    <2> QED
      BY <1>21, <2>1, <2>2, <2>3
  <1>23. ReceiptsExplainStock'
    BY <1>3, <1>10, <1>12, SameCarried, SameCame DEF IndInv, ReceiptsExplainStock
  <1>24. PoolsWeighEverything'
    BY <1>3, <1>10, <1>11, <1>12, SamePools DEF IndInv
  <1> QED
    BY <1>13, <1>14, <1>15, <1>16, <1>18, <1>19, <1>22, <1>23, <1>24 DEF IndInv

-----------------------------------------------------------------------------
(* First-mile shipments.                                                    *)

LEMMA CreateShipmentStep ==
    ASSUME IndInv, NEW h \in Shipment, CreateShipment(h)
    PROVE  IndInv'
  <1>1. PICK o \in {o \in Order : po[o] # None} \cup {None}, route \in Routes,
             K \in SUBSET Sku \ {{}} : \E q \in [K -> Loads] :
          shipment' = [shipment EXCEPT ![h] =
            [status |-> "DRAFT", order |-> o, from |-> route[1], to |-> route[2],
             coin |-> route[3],
             qty |-> [k \in Sku |-> IF k \in K THEN q[k] ELSE 0], costed |-> 0]]
    BY DEF CreateShipment
  <1>2. PICK q \in [K -> Loads] :
          shipment' = [shipment EXCEPT ![h] =
            [status |-> "DRAFT", order |-> o, from |-> route[1], to |-> route[2],
             coin |-> route[3],
             qty |-> [k \in Sku |-> IF k \in K THEN q[k] ELSE 0], costed |-> 0]]
    BY <1>1
  <1> DEFINE qty == [k \in Sku |-> IF k \in K THEN q[k] ELSE 0]
             doc == [status |-> "DRAFT", order |-> o, from |-> route[1],
                     to |-> route[2], coin |-> route[3], qty |-> qty, costed |-> 0]
  <1>3. /\ shipment[h] = None
        /\ UNCHANGED <<vendors, po, receipts, pool, avail, transit, job, stale>>
        /\ TypeOK /\ WorkInv /\ PapersInv
    BY DEF CreateShipment, stock, IndInv
  <1>4. qty \in [Sku -> Nat]
    BY AmountsAssumption
  <1> HIDE DEF qty
  <1>5. doc \in FirstMile
    BY <1>4, RoutesAssumption DEF FirstMile
  <1>6. doc.status = "DRAFT" /\ doc.order = o /\ doc.costed = 0 /\ doc # None
    BY <1>5, AbsentAssumption
  <1>7. shipment' = [shipment EXCEPT ![h] = doc]
    BY <1>2 DEF qty
  <1> HIDE DEF doc
  <1>8. /\ shipment' \in [Shipment -> FirstMile \cup {None}]
        /\ shipment'[h] = doc /\ \A u \in Shipment \ {h} : shipment'[u] = shipment[u]
    BY <1>3, <1>5, <1>7 DEF TypeOK
  <1>9. OrdersStay /\ ShipmentsStay
    BY <1>3, <1>8 DEF OrdersStay, ShipmentsStay
  <1>10. TypeOK'
    BY <1>3, <1>8 DEF TypeOK
  <1>11. WorkInv'
    BY <1>3, <1>9 DEF WorkInv, ShipmentsStay
  <1>12. PapersInv'
    BY <1>1, <1>3, <1>6, <1>8 DEF PapersInv
  <1>13. UntouchedInv' /\ ClosingInv' /\ OpenOrdersHaveSuppliers'
    BY <1>3 DEF IndInv, UntouchedInv, Untouched, NothingCame, ClosingInv, CountOpen, Open,
                OpenOrdersHaveSuppliers
  <1>14. /\ Shipped' = Shipped /\ Movers' = Movers
         /\ \A w : MoversTo(w)' = MoversTo(w) /\ MoversFrom(w)' = MoversFrom(w)
    <2>1. Shipped' = Shipped
      BY <1>3, <1>6, <1>8 DEF Shipped
    <2>2. \A u \in Shipped : u # h /\ shipment'[u] = shipment[u]
      BY <1>3, <1>8 DEF Shipped
    <2>3. Movers' = Movers
      BY <1>3, <2>1, <2>2 DEF Movers, ShouldMove
    <2>4. \A u \in Movers : shipment'[u] = shipment[u]
      BY <2>2 DEF Movers
    <2> QED
      BY <2>1, <2>3, <2>4 DEF MoversTo, MoversFrom
  <1>15. ASSUME NEW H, H \subseteq Shipped, NEW k \in Sku
         PROVE  /\ Carried(k, H) \in Int
                /\ SumFunction([u \in Shipment |-> IF u \in H THEN shipment'[u].qty[k] ELSE 0])
                     = Carried(k, H)
    <2>1. /\ h \notin H /\ shipment \in [Shipment -> FirstMile \cup {None}]
          /\ \A u \in H : shipment[u] # None /\ shipment'[u] # None
      BY <1>3, <1>8, <1>15 DEF Shipped, TypeOK
    <2> QED
      BY <1>8, <2>1, CarriedStep
  <1>16. \A k \in Sku : \A w :
                           /\ Carried(k, MoversTo(w))' = Carried(k, MoversTo(w))
                           /\ Carried(k, MoversFrom(w))' = Carried(k, MoversFrom(w))
    <2>1. \A w : MoversTo(w) \subseteq Shipped /\ MoversFrom(w) \subseteq Shipped
      BY DEF MoversTo, MoversFrom, Movers
    <2> SUFFICES ASSUME NEW k \in Sku, NEW w
                 PROVE  /\ Carried(k, MoversTo(w))' = Carried(k, MoversTo(w))
                        /\ Carried(k, MoversFrom(w))' = Carried(k, MoversFrom(w))
      OBVIOUS
    <2> DEFINE Now(H) == SumFunction([u \in Shipment |->
                                        IF u \in H THEN shipment'[u].qty[k] ELSE 0])
    <2>2. /\ Carried(k, MoversTo(w))' = Now(MoversTo(w))
          /\ Carried(k, MoversFrom(w))' = Now(MoversFrom(w))
      BY <1>14 DEF Carried
    <2>3. \A H \in SUBSET Shipped : Now(H) = Carried(k, H)
      BY <1>15
    <2> HIDE DEF Now
    <2> QED
      BY <2>1, <2>2, <2>3
  <1>17. OpenQuantitiesInTransit'
    <2> SUFFICES ASSUME "order" \notin stale, NEW k \in Sku, NEW w \in Warehouse
                 PROVE  transit[<<k, w>>] = Expected(k, w)' + Carried(k, MoversTo(w))'
      BY <1>3 DEF OpenQuantitiesInTransit
    <2>1. transit[<<k, w>>] = Expected(k, w) + Carried(k, MoversTo(w))
      BY DEF IndInv, OpenQuantitiesInTransit
    <2> QED
      BY <1>3, <1>16, <2>1, ExpectedSame
  <1>18. ReceiptsExplainStock'
    BY <1>3, <1>9, <1>16, SameCame DEF IndInv, ReceiptsExplainStock
  <1>19. PoolsWeighEverything'
    <2>0. PoolsWeighEverything
      BY DEF IndInv
    <2>1. \A k : Recent(k)' = Recent(k) /\ LatestPool(k)' = LatestPool(k)
      BY <1>3 DEF Recent, LatestPool
    <2>2. \A k \in Sku : Carried(k, Recent(k))' = Carried(k, Recent(k))
      <3> SUFFICES ASSUME NEW k \in Sku PROVE Carried(k, Recent(k))' = Carried(k, Recent(k))
        OBVIOUS
      <3>1. Recent(k) \subseteq Shipped
        BY <1>3, <2>0, RecentShipped
      <3>2. Carried(k, Recent(k))'
              = SumFunction([u \in Shipment |-> IF u \in Recent(k) THEN shipment'[u].qty[k] ELSE 0])
        BY <2>1 DEF Carried
      <3> QED
        BY <1>15, <3>1, <3>2
    <2>3. \A u \in Shipped : shipment'[u] = shipment[u]
      BY <1>3, <1>8 DEF Shipped
    <2> QED
      BY <1>3, <1>14, <2>0, <2>1, <2>2, <2>3 DEF PoolsWeighEverything
  <1> QED
    BY <1>10, <1>11, <1>12, <1>13, <1>17, <1>18, <1>19 DEF IndInv

-----------------------------------------------------------------------------
(* Stock moves.                                                             *)

LEMMA AtType ==
    ASSUME NEW f \in [Sku -> Int], NEW w
    PROVE  /\ At(w, f) \in [Bin -> Int]
           /\ \A k \in Sku, x \in Warehouse : At(w, f)[<<k, x>>] = IF x = w THEN f[k] ELSE 0
  <1>1. \A b \in Bin : b[1] \in Sku
    BY DEF Bin
  <1>2. \A k \in Sku, x \in Warehouse :
           <<k, x>> \in Bin /\ <<k, x>>[1] = k /\ <<k, x>>[2] = x
    BY DEF Bin
  <1> QED
    BY <1>1, <1>2 DEF At

LEMMA PostAt ==
    ASSUME TypeOK, NEW f \in [Sku -> Int], NEW v, NEW g \in [Sku -> Int], NEW w,
           Post(At(v, f), At(w, g))
    PROVE  /\ avail' \in [Bin -> Nat]
           /\ transit' \in [Bin -> Nat]
           /\ \A k \in Sku, x \in Warehouse :
                 /\ avail'[<<k, x>>] = avail[<<k, x>>] + (IF x = v THEN f[k] ELSE 0)
                 /\ transit'[<<k, x>>] = transit[<<k, x>>] + (IF x = w THEN g[k] ELSE 0)
  <1>1. /\ avail \in [Bin -> Nat] /\ transit \in [Bin -> Nat]
        /\ At(v, f) \in [Bin -> Int] /\ At(w, g) \in [Bin -> Int]
    BY AtType DEF TypeOK
  <1>2. /\ avail' = [b \in Bin |-> avail[b] + At(v, f)[b]]
        /\ transit' = [b \in Bin |-> transit[b] + At(w, g)[b]]
        /\ \A b \in Bin : avail'[b] >= 0 /\ transit'[b] \in 0..MaxTransit
    BY DEF Post
  <1>3. \A b \in Bin : avail'[b] \in Nat
    BY <1>1, <1>2
  <1>4. \A b \in Bin : transit'[b] \in Nat
    BY <1>1, <1>2
  <1>5. \A k \in Sku, x \in Warehouse : <<k, x>> \in Bin
    BY DEF Bin
  <1> QED
    BY <1>2, <1>3, <1>4, <1>5, AtType

LEMMA PostShipmentStep ==
    ASSUME IndInv, NEW s \in Session, PostShipment(s)
    PROVE  IndInv'
  <1>0. PICK h \in Shipment, doc \in FirstMile : h = job[s].on /\ doc = shipment[h]
    BY DEF PostShipment, IndInv, WorkInv, TypeOK
  <1> DEFINE moves == ShouldMove(doc)
             back == [k \in Sku |-> -doc.qty[k]]
             new == [doc EXCEPT !.status = "POSTED", !.costed = 1]
  <1>1. /\ h \in Shipment /\ doc \in FirstMile /\ doc # None /\ shipment[h] = doc
        /\ doc.costed = 0 /\ doc.status # "POSTED"
        /\ TypeOK /\ WorkInv /\ PapersInv
    <2>1. job[s].stage = "pool" /\ NotCosted(h)
      BY <1>0 DEF PostShipment
    <2> QED
      BY <1>0, <2>1 DEF IndInv, WorkInv, PapersInv, NotCosted
  <1>2. /\ doc.qty \in [Sku -> Nat] /\ back \in [Sku -> Int]
    <2>1. doc.qty \in [Sku -> Nat]
      BY <1>1 DEF FirstMile
    <2> QED
      BY <2>1
  <1>3. /\ shipment' = [shipment EXCEPT ![h] = new]
        /\ IF moves THEN Post(At(doc.from, back), At(doc.to, doc.qty))
                    ELSE UNCHANGED <<avail, transit>>
        /\ Done(s)
        /\ UNCHANGED <<vendors, po, receipts>>
    <2>1. /\ shipment' = [shipment EXCEPT ![h].status = "POSTED", ![h].costed = @ + 1]
          /\ doc.costed + 1 = 1 /\ h \in DOMAIN shipment
      BY <1>0, <1>1 DEF PostShipment, TypeOK
    <2>2. shipment' = [shipment EXCEPT ![h] = new]
      BY <1>1, <2>1
    <2> HIDE DEF new
    <2> QED
      BY <1>0, <2>2 DEF PostShipment, stock
  <1>4. /\ new \in FirstMile /\ new.status = "POSTED" /\ new.costed = 1
        /\ new.order = doc.order /\ new.from = doc.from /\ new.to = doc.to
        /\ new.qty = doc.qty
    BY <1>1 DEF FirstMile
  <1>5. new # None
    BY <1>4, AbsentAssumption
  <1> HIDE DEF new
  <1>6. /\ shipment' \in [Shipment -> FirstMile \cup {None}]
        /\ shipment'[h] = new /\ \A u \in Shipment \ {h} : shipment'[u] = shipment[u]
    BY <1>1, <1>3, <1>4 DEF TypeOK
  <1>7. OrdersStay /\ ShipmentsStay
    BY <1>3, <1>5, <1>6 DEF OrdersStay, ShipmentsStay
  <1> DEFINE row(k) == [of |-> h, coin |-> doc.coin,
                        qty |-> Weighed(job[s].pool[k], doc.coin) + doc.qty[k]]
  <1>8. /\ pool' \in [Sku -> Seq(CostPool)]
        /\ \A k \in Sku : row(k) \in CostPool
        /\ \A k \in Sku : pool'[k] = IF doc.qty[k] > 0 THEN Append(pool[k], row(k)) ELSE pool[k]
    <2>1. job[s].pool \in [Sku -> CostPool \cup {None}] /\ pool \in [Sku -> Seq(CostPool)]
      BY <1>1 DEF TypeOK, Job
    <2>2. \A k \in Sku : Weighed(job[s].pool[k], doc.coin) \in Nat
      BY <2>1 DEF Weighed, CostPool
    <2>3. doc.coin \in Currency
      BY <1>1 DEF FirstMile
    <2>4. \A k \in Sku : row(k) \in CostPool
      BY <1>1, <1>2, <2>2, <2>3 DEF CostPool
    <2>5. pool' = [k \in Sku |-> IF doc.qty[k] > 0 THEN Append(pool[k], row(k)) ELSE pool[k]]
      BY <1>0 DEF PostShipment
    <2> HIDE DEF row
    <2> QED
      BY <2>1, <2>4, <2>5
  <1>9. /\ stale' \subseteq stale \cup {"pool"} /\ stale \subseteq stale'
        /\ "pool" \notin stale' =>
              \A k \in Sku : doc.qty[k] > 0 => LatestPool(k) = job[s].pool[k]
    BY <1>0 DEF PostShipment
  <1>10. /\ job' \in [Session -> Job] /\ WorkInv'
    BY <1>1, <1>3, <1>7, DoneWork
  <1>11. /\ avail' \in [Bin -> Nat] /\ transit' \in [Bin -> Nat]
         /\ \A k \in Sku, x \in Warehouse :
               /\ avail'[<<k, x>>] = avail[<<k, x>>]
                     + (IF moves /\ x = doc.from THEN back[k] ELSE 0)
               /\ transit'[<<k, x>>] = transit[<<k, x>>]
                     + (IF moves /\ x = doc.to THEN doc.qty[k] ELSE 0)
    <2>1. CASE moves
      <3>1. doc.qty \in [Sku -> Int]
        BY <1>2
      <3> HIDE DEF back, moves
      <3> QED
        BY <1>1, <1>2, <1>3, <2>1, <3>1, PostAt
    <2>2. CASE ~moves
      <3>1. \A k \in Sku, x \in Warehouse :
               avail[<<k, x>>] \in Nat /\ transit[<<k, x>>] \in Nat
        BY <1>1 DEF TypeOK, Bin
      <3> HIDE DEF moves
      <3> QED
        BY <1>1, <1>3, <2>2, <3>1 DEF TypeOK
    <2> QED
      BY <2>1, <2>2
  <1>12. TypeOK'
    BY <1>1, <1>3, <1>6, <1>8, <1>9, <1>10, <1>11 DEF TypeOK
  <1>13. PapersInv'
    BY <1>1, <1>3, <1>4, <1>6 DEF PapersInv
  <1>14. UntouchedInv'
    BY <1>3, <1>9 DEF IndInv, UntouchedInv, Untouched, NothingCame
  <1>15. ClosingInv' /\ OpenOrdersHaveSuppliers'
    <2>1. NoneOpened
      BY <1>3 DEF NoneOpened, Open
    <2> QED
      BY <1>3, <1>7, <1>9, <2>1, SameSuppliers
  <1>16. Shipped' = Shipped \cup {h} /\ h \notin Shipped
    BY <1>1, <1>4, <1>5, <1>6 DEF Shipped
  <1>17. Movers' = Movers \cup (IF moves THEN {h} ELSE {}) /\ h \notin Movers
    <2>1. ShouldMove(shipment[h])' <=> moves
      BY <1>3, <1>4, <1>6 DEF ShouldMove
    <2>2. \A u \in Shipped : ShouldMove(shipment[u])' <=> ShouldMove(shipment[u])
      BY <1>3, <1>6, <1>16 DEF ShouldMove, Shipped
    <2> HIDE DEF moves
    <2> QED
      BY <1>16, <2>1, <2>2 DEF Movers
  <1>18. \A u \in Movers : shipment'[u] = shipment[u] /\ shipment[u] # None
    BY <1>6, <1>17 DEF Movers, Shipped
  <1>19. \A w : /\ MoversTo(w)' = MoversTo(w) \cup (IF moves /\ doc.to = w THEN {h} ELSE {})
                /\ MoversFrom(w)' = MoversFrom(w)
                                     \cup (IF moves /\ doc.from = w THEN {h} ELSE {})
                /\ h \notin MoversTo(w) /\ h \notin MoversFrom(w)
    <2> HIDE DEF moves
    <2> QED
      BY <1>4, <1>6, <1>17, <1>18 DEF MoversTo, MoversFrom
  <1>20. ASSUME NEW H, NEW I, H \subseteq Shipped, I = H \/ I = H \cup {h}, NEW k \in Sku
         PROVE  /\ Carried(k, H) \in Int
                /\ SumFunction([u \in Shipment |-> IF u \in I THEN shipment'[u].qty[k] ELSE 0])
                     = Carried(k, H) + (IF h \in I THEN doc.qty[k] ELSE 0)
    <2>1. /\ h \notin H /\ shipment \in [Shipment -> FirstMile \cup {None}]
          /\ H \ {h} = I \ {h}
          /\ \A u \in H : shipment[u] # None
          /\ \A u \in I : shipment'[u] # None
      BY <1>1, <1>5, <1>6, <1>16, <1>20 DEF Shipped, TypeOK
    <2>2. doc.qty[k] \in Int
      BY <1>2
    <2> HIDE DEF new
    <2>3. /\ Carried(k, H) \in Int
          /\ SumFunction([u \in Shipment |-> IF u \in I THEN shipment'[u].qty[k] ELSE 0])
                = Carried(k, H) + (IF h \in I THEN shipment'[h].qty[k] ELSE 0)
                                - (IF h \in H THEN shipment[h].qty[k] ELSE 0)
      BY <1>1, <1>6, <2>1, CarriedStep
    <2> QED
      BY <1>4, <1>6, <2>1, <2>2, <2>3
  <1>21. ASSUME NEW k \in Sku, NEW w
         PROVE  /\ Carried(k, MoversTo(w)) \in Int /\ Carried(k, MoversFrom(w)) \in Int
                /\ Carried(k, MoversTo(w))' = Carried(k, MoversTo(w))
                      + (IF moves /\ doc.to = w THEN doc.qty[k] ELSE 0)
                /\ Carried(k, MoversFrom(w))' = Carried(k, MoversFrom(w))
                      + (IF moves /\ doc.from = w THEN doc.qty[k] ELSE 0)
    <2> DEFINE Now(I) == SumFunction([u \in Shipment |->
                                        IF u \in I THEN shipment'[u].qty[k] ELSE 0])
               to == IF moves /\ doc.to = w THEN {h} ELSE {}
               from == IF moves /\ doc.from = w THEN {h} ELSE {}
    <2>1. MoversTo(w) \subseteq Shipped /\ MoversFrom(w) \subseteq Shipped
      BY DEF MoversTo, MoversFrom, Movers
    <2>2. /\ Carried(k, MoversTo(w))' = Now(MoversTo(w)')
          /\ Carried(k, MoversFrom(w))' = Now(MoversFrom(w)')
      BY DEF Carried
    <2>3. \A H \in SUBSET Shipped, e \in {{}, {h}} :
             /\ Carried(k, H) \in Int
             /\ Now(H \cup e) = Carried(k, H) + (IF h \in H \cup e THEN doc.qty[k] ELSE 0)
      BY <1>20
    <2> HIDE DEF Now
    <2>4. Now(MoversTo(w) \cup to) = Carried(k, MoversTo(w))
             + (IF moves /\ doc.to = w THEN doc.qty[k] ELSE 0)
      <3>1. to \in {{}, {h}} /\ (h \in MoversTo(w) \cup to <=> moves /\ doc.to = w)
        BY <1>19
      <3> HIDE DEF to, moves
      <3> QED
        BY <2>1, <2>3, <3>1
    <2>5. Now(MoversFrom(w) \cup from) = Carried(k, MoversFrom(w))
             + (IF moves /\ doc.from = w THEN doc.qty[k] ELSE 0)
      <3>1. from \in {{}, {h}} /\ (h \in MoversFrom(w) \cup from <=> moves /\ doc.from = w)
        BY <1>19
      <3> HIDE DEF from, moves
      <3> QED
        BY <2>1, <2>3, <3>1
    <2>6. /\ MoversTo(w)' = MoversTo(w) \cup to
          /\ MoversFrom(w)' = MoversFrom(w) \cup from
      BY <1>19
    <2> HIDE DEF moves, to, from
    <2> QED
      BY <2>1, <2>2, <2>3, <2>4, <2>5, <2>6
  <1>22. OpenQuantitiesInTransit'
    <2> SUFFICES ASSUME "order" \notin stale', NEW k \in Sku, NEW w \in Warehouse
                 PROVE  transit'[<<k, w>>] = Expected(k, w)' + Carried(k, MoversTo(w))'
      BY DEF OpenQuantitiesInTransit
    <2>1. transit[<<k, w>>] = Expected(k, w) + Carried(k, MoversTo(w))
      BY <1>9 DEF IndInv, OpenQuantitiesInTransit
    <2>2. Expected(k, w) \in Int
      BY <1>1, <1>3, ExpectedType DEF TypeOK
    <2>3. doc.qty[k] \in Int /\ Expected(k, w)' = Expected(k, w)
      BY <1>2, <1>3, ExpectedSame
    <2> HIDE DEF moves
    <2> QED
      BY <1>11, <1>21, <2>1, <2>2, <2>3
  <1>23. ReceiptsExplainStock'
    <2>1. ASSUME NEW k \in Sku, NEW w \in Warehouse
          PROVE  avail'[<<k, w>>] = Came(k, w)' - Carried(k, MoversFrom(w))'
      <3>1. avail[<<k, w>>] = Came(k, w) - Carried(k, MoversFrom(w))
        BY DEF IndInv, ReceiptsExplainStock
      <3>2. doc.qty[k] \in Int /\ back[k] = -doc.qty[k] /\ Came(k, w) \in Int
        BY <1>1, <1>2, CameType
      <3>3. Came(k, w)' = Came(k, w)
        BY <1>1, <1>3, <1>7, SameCame
      <3> HIDE DEF moves, back
      <3> QED
        BY <1>11, <1>21, <3>1, <3>2, <3>3
    <2> QED
      BY <1>3, <2>1 DEF IndInv, ReceiptsExplainStock
  <1>24. PoolsWeighEverything'
    <2> DEFINE Held(k) ==
             /\ \A u \in Shipment :
                   u \in Shipped' /\ shipment'[u].qty[k] > 0 <=>
                      \E i \in DOMAIN pool'[k] : pool'[k][i].of = u
             /\ \A i, j \in DOMAIN pool'[k] : pool'[k][i].of = pool'[k][j].of => i = j
             /\ "pool" \notin stale' /\ pool'[k] # <<>> =>
                   LatestPool(k)'.qty = Carried(k, Recent(k))'
    <2> SUFFICES ASSUME NEW k \in Sku PROVE Held(k)
      BY DEF PoolsWeighEverything
    <2>0. PoolsWeighEverything /\ Recent(k) \subseteq Shipped
          /\ \A i \in 1..Len(pool[k]) : pool[k][i].of \in Shipped
      BY <1>1, RecentShipped DEF IndInv
    <2>1. /\ pool[k] \in Seq(CostPool) /\ DOMAIN pool[k] = 1..Len(pool[k])
          /\ doc.qty[k] \in Nat
      BY <1>1, <1>2, LatestType
    <2>2. /\ \A u \in Shipment : u \in Shipped /\ shipment[u].qty[k] > 0 <=>
                                    \E i \in DOMAIN pool[k] : pool[k][i].of = u
          /\ \A i, j \in DOMAIN pool[k] : pool[k][i].of = pool[k][j].of => i = j
          /\ "pool" \notin stale /\ pool[k] # <<>> => LatestPool(k).qty = Carried(k, Recent(k))
      BY <2>0 DEF PoolsWeighEverything
    <2>3. \A u \in Shipped : u # h /\ shipment'[u] = shipment[u]
      BY <1>6, <1>16 DEF Shipped
    <2>4. shipment'[h].qty[k] = doc.qty[k]
      BY <1>4, <1>6
    <2>5. ASSUME NEW H, H \subseteq Shipped, Recent(k)' = H
          PROVE  Carried(k, Recent(k))' = Carried(k, H)
      <3>1. Carried(k, Recent(k))'
              = SumFunction([u \in Shipment |-> IF u \in H THEN shipment'[u].qty[k] ELSE 0])
        BY <2>5 DEF Carried
      <3>2. Carried(k, H) \in Int /\ h \notin H
        BY <1>16, <1>20, <2>5
      <3> HIDE DEF moves
      <3> QED
        BY <1>20, <2>5, <3>1, <3>2
    <2>6. ASSUME NEW H, H \subseteq Shipped, Recent(k)' = H \cup {h}
          PROVE  Carried(k, Recent(k))' = Carried(k, H) + doc.qty[k]
      <3> DEFINE now == SumFunction([u \in Shipment |->
                           IF u \in H \cup {h} THEN shipment'[u].qty[k] ELSE 0])
      <3>1. Carried(k, Recent(k))' = now
        BY <2>6 DEF Carried
      <3> HIDE DEF moves
      <3>2. now = Carried(k, H) + (IF h \in H \cup {h} THEN doc.qty[k] ELSE 0)
        BY <1>20, <2>6
      <3> HIDE DEF now
      <3> QED
        BY <3>1, <3>2
    <2>7. CASE doc.qty[k] = 0
      <3> HIDE DEF row, moves
      <3>0. ~(doc.qty[k] > 0)
        BY <2>7
      <3>1. pool'[k] = pool[k]
        BY <1>8, <3>0
      <3>2. Recent(k)' = Recent(k) /\ LatestPool(k)' = LatestPool(k)
        BY <3>1 DEF Recent, LatestPool
      <3>3. Carried(k, Recent(k))' = Carried(k, Recent(k))
        BY <2>0, <2>5, <3>2
      <3>4. \A u \in Shipment : u \in Shipped' /\ shipment'[u].qty[k] > 0 <=>
                                   u \in Shipped /\ shipment[u].qty[k] > 0
        BY <1>16, <2>3, <2>4, <2>7
      <3> QED
        BY <1>9, <2>2, <3>1, <3>2, <3>3, <3>4
    <2>8. CASE doc.qty[k] > 0
      <3>1. pool'[k] = Append(pool[k], row(k)) /\ row(k) \in CostPool
        BY <1>8, <2>8
      <3>2. row(k).of = h /\ row(k).coin = doc.coin
            /\ row(k).qty = Weighed(job[s].pool[k], doc.coin) + doc.qty[k]
        OBVIOUS
      <3> HIDE DEF row, moves
      <3>3. /\ Len(pool[k]) \in Nat /\ DOMAIN pool'[k] = 1..(Len(pool[k]) + 1)
            /\ pool'[k][Len(pool[k]) + 1] = row(k)
            /\ \A i \in 1..Len(pool[k]) : pool'[k][i] = pool[k][i]
        BY <2>1, <3>1
      <3>4. \A u \in Shipment :
               u \in Shipped' /\ shipment'[u].qty[k] > 0 <=>
                  \E i \in DOMAIN pool'[k] : pool'[k][i].of = u
        <4>1. \A u \in Shipment : u \in Shipped' /\ shipment'[u].qty[k] > 0 <=>
                                     u = h \/ (u \in Shipped /\ shipment[u].qty[k] > 0)
          BY <1>16, <2>3, <2>4, <2>8
        <4>2. \A u \in Shipment : (\E i \in DOMAIN pool'[k] : pool'[k][i].of = u) <=>
                                     u = h \/ (\E i \in DOMAIN pool[k] : pool[k][i].of = u)
          <5> DEFINE last == Len(pool[k]) + 1
          <5>1. DOMAIN pool[k] = 1..Len(pool[k])
            BY <2>1
          <5>2. DOMAIN pool'[k] = DOMAIN pool[k] \cup {last}
            BY <3>3, <5>1
          <5>3. pool'[k][last].of = h
            BY <3>2, <3>3
          <5>4. \A i \in DOMAIN pool[k] : pool'[k][i] = pool[k][i]
            BY <3>3, <5>1
          <5> HIDE DEF last
          <5> QED
            BY <5>2, <5>3, <5>4
        <4> QED
          BY <2>2, <4>1, <4>2
      <3>5. \A i, j \in DOMAIN pool'[k] : pool'[k][i].of = pool'[k][j].of => i = j
        BY <1>16, <2>0, <2>1, <2>2, <3>2, <3>3
      <3>6. ASSUME "pool" \notin stale'
            PROVE  LatestPool(k)'.qty = Carried(k, Recent(k))'
        <4>1. /\ LatestPool(k)' = row(k) /\ LatestPool(k) = job[s].pool[k]
              /\ "pool" \notin stale
          BY <1>1, <1>9, <2>8, <3>1, <3>6, RecentAppend
        <4>2. CASE LatestPool(k) # None /\ LatestPool(k).coin = doc.coin
          <5>1. Recent(k)' = Recent(k) \cup {h}
            BY <1>1, <3>1, <3>2, <4>2, RecentAppend
          <5>2. LatestPool(k).qty = Carried(k, Recent(k))
            BY <1>1, <2>2, <4>1, <4>2, LatestType
          <5>3. row(k).qty = LatestPool(k).qty + doc.qty[k]
            BY <3>2, <4>1, <4>2 DEF Weighed
          <5> QED
            BY <2>0, <2>6, <4>1, <5>1, <5>2, <5>3
        <4>3. CASE LatestPool(k) = None \/ LatestPool(k).coin # doc.coin
          <5>1. Recent(k)' = {} \cup {h}
            BY <1>1, <3>1, <3>2, <4>3, RecentAppend
          <5>2. row(k).qty = 0 + doc.qty[k]
            BY <3>2, <4>1, <4>3 DEF Weighed
          <5>3. Carried(k, {}) = 0
            BY NothingCarried
          <5> QED
            BY <2>6, <4>1, <5>1, <5>2, <5>3
        <4> QED
          BY <4>2, <4>3
      <3> QED
        BY <3>4, <3>5, <3>6
    <2> QED
      BY <2>1, <2>7, <2>8
  <1> QED
    BY <1>10, <1>12, <1>13, <1>14, <1>15, <1>22, <1>23, <1>24 DEF IndInv

-----------------------------------------------------------------------------
(* Requests on an order.                                                    *)

LEMMA MergedType ==
    ASSUME NEW seen \in Line, NEW mine \in Line, NEW now \in Line
    PROVE  /\ Merged(seen, mine, now) \in Line
           /\ now = seen => Merged(seen, mine, now) = mine
  <1>1. Merged(seen, mine, now) \in Line
    BY DEF Merged, Column, Line
  <1>2. ASSUME now = seen
        PROVE  Merged(seen, mine, now) = mine
    <2>1. Merged(seen, mine, now) = [qty |-> mine.qty, got |-> mine.got,
                                     short |-> mine.short]
      BY <1>2 DEF Merged, Column
    <2> QED
      BY <2>1 DEF Line
  <1> QED
    BY <1>1, <1>2

\* What the flush writes: on a copy that is not stale, what the request meant.
LEMMA SavedFacts ==
    ASSUME IndInv, NEW s \in Session, NEW status \in Status,
           NEW mine \in [Sku -> Line \cup {None}],
           \A k \in Sku : job[s].lines[k] # None => mine[k] # None,
           SaveOrder(s, status, mine)
    PROVE  \E o \in Order, doc \in PurchaseOrder :
             /\ o = job[s].on /\ po[o] \in PurchaseOrder
             /\ po' = [po EXCEPT ![o] = doc]
             /\ doc.house = po[o].house /\ doc.supplier = po[o].supplier
             /\ \A k \in Sku : po[o].lines[k] # None => doc.lines[k] # None
             /\ "order" \notin stale' =>
                   /\ po[o].status = job[s].status /\ po[o].lines = job[s].lines
                   /\ doc.status = status /\ doc.lines = mine
             /\ stale \subseteq stale' /\ stale' \subseteq stale \cup {"order"}
             /\ po[o].supplier \in vendors
             /\ Done(s)
  <1>0. PICK o \in Order : o = job[s].on
    BY DEF SaveOrder, IndInv, WorkInv
  <1> DEFINE seen == job[s].lines
             now == po[o].lines
             cell == [k \in Sku |->
                        IF mine[k] = seen[k] THEN now[k]
                        ELSE IF seen[k] = None THEN mine[k]
                        ELSE Merged(seen[k], mine[k], now[k])]
             column == Column(job[s].status, status, po[o].status)
             doc == [po[o] EXCEPT !.status = column, !.lines = cell]
  <1>1. /\ po[o] \in PurchaseOrder /\ po[o].status \in Status
        /\ now \in [Sku -> Line \cup {None}]
        /\ seen \in [Sku -> Line \cup {None}]
        /\ \A k \in Sku : seen[k] # None => now[k] # None
        /\ po \in [Order -> PurchaseOrder \cup {None}]
    <2>1. /\ job[s].stage = "lines" /\ po[o] # None
          /\ \A k \in Sku : seen[k] # None => now[k] # None
      BY <1>0 DEF SaveOrder, IndInv, WorkInv
    <2>2. /\ po[o] \in PurchaseOrder /\ job[s] \in Job
          /\ po \in [Order -> PurchaseOrder \cup {None}]
      BY <2>1 DEF IndInv, TypeOK
    <2> QED
      BY <2>1, <2>2, DocType DEF Job
  <1>2. /\ po' = [po EXCEPT ![o].status = column, ![o].lines = cell]
        /\ stale' = stale \cup
              (IF po[o].status = job[s].status /\ now = seen THEN {} ELSE {"order"})
        /\ po[o].supplier \in vendors
        /\ Done(s)
    BY <1>0, <1>1 DEF SaveOrder
  <1>3. column \in Status
    BY <1>1 DEF Column
  <1>4. ASSUME NEW k \in Sku
        PROVE  /\ cell[k] \in Line \cup {None}
               /\ now[k] # None => cell[k] # None
               /\ now = seen => cell[k] = mine[k]
    <2> DEFINE a == seen[k]
               b == mine[k]
               c == now[k]
    <2>1. /\ a \in Line \cup {None} /\ b \in Line \cup {None} /\ c \in Line \cup {None}
          /\ a # None => b # None /\ c # None
          /\ now = seen => c = a
          /\ cell[k] = IF b = a THEN c ELSE IF a = None THEN b ELSE Merged(a, b, c)
      BY <1>1
    <2> HIDE DEF a, b, c, cell
    <2>2. a # None => /\ Merged(a, b, c) \in Line /\ Merged(a, b, c) # None
                      /\ c = a => Merged(a, b, c) = b
      BY <2>1, MergedType, OpenQtyType
    <2> USE DEF c, b
    <2> QED
      BY <2>1, <2>2
  <1>5. cell \in [Sku -> Line \cup {None}] /\ (now = seen => cell = mine)
    <2>1. DOMAIN cell = Sku /\ cell = [k \in Sku |-> cell[k]]
      OBVIOUS
    <2> HIDE DEF cell
    <2> QED
      BY <1>4, <2>1
  <1> HIDE DEF cell, column
  <1>6. /\ doc \in PurchaseOrder
        /\ doc.house = po[o].house /\ doc.supplier = po[o].supplier
        /\ doc.status = column /\ doc.lines = cell
    BY <1>1, <1>3, <1>5 DEF PurchaseOrder
  <1>7. po' = [po EXCEPT ![o] = doc]
    BY <1>1, <1>2
  <1>8. "order" \notin stale' => po[o].status = job[s].status /\ now = seen
    BY <1>2
  <1>9. po[o].status = job[s].status => column = status
    BY DEF column, Column
  <1> HIDE DEF doc
  <1>10. stale \subseteq stale' /\ stale' \subseteq stale \cup {"order"}
    BY <1>2
  <1>11. \A k \in Sku : po[o].lines[k] # None => doc.lines[k] # None
    BY <1>4, <1>6
  <1>12. "order" \notin stale' =>
            /\ po[o].status = job[s].status /\ po[o].lines = job[s].lines
            /\ doc.status = status /\ doc.lines = mine
    BY <1>5, <1>6, <1>8, <1>9
  <1>13. doc \in PurchaseOrder
    BY <1>6
  <1> WITNESS o \in Order, doc \in PurchaseOrder
  <1> QED
    BY <1>0, <1>1, <1>2, <1>6, <1>7, <1>10, <1>11, <1>12

\* Pieces of a line that are in transit.
Due(status, l) == IF status \in OpenForReceipt /\ l # None THEN OpenQty(l) ELSE 0

\* A receipt, or none.
Receipted(o, got) ==
    \/ UNCHANGED receipts /\ \A k \in Sku : got[k] = 0
    \/ \E key \in Key \cup {None} :
          /\ key # None => KeyFree(key)
          /\ receipts' = Append(receipts, [order |-> o, key |-> key, got |-> got])

LEMMA ReceiptedFacts ==
    ASSUME TypeOK, PapersInv, OrdersStay, ReceiptsExplainStock,
           NEW o \in Order, po[o] # None, NEW got \in [Sku -> Nat], Receipted(o, got)
    PROVE  /\ receipts' \in Seq(Receipt)
           /\ \A i \in DOMAIN receipts' : po'[receipts'[i].order] # None
           /\ \A i, j \in DOMAIN receipts' :
                receipts'[i].key = receipts'[j].key /\ receipts'[i].key # None => i = j
           /\ \A k \in Sku, w \in Warehouse :
                Came(k, w)' = Came(k, w) + (IF po[o].house = w THEN got[k] ELSE 0)
  <1>1. \A i \in DOMAIN receipts : po'[receipts[i].order] # None
    BY ReceiptType DEF PapersInv, OrdersStay
  <1>2. CASE UNCHANGED receipts /\ \A k \in Sku : got[k] = 0
    <2>1. \A k \in Sku, w \in Warehouse : Came(k, w)' = Came(k, w) /\ Came(k, w) \in Int
      BY <1>2, SameCame, CameType
    <2> QED
      BY <1>1, <1>2, <2>1 DEF TypeOK, ReceiptsExplainStock
  <1>3. CASE \E key \in Key \cup {None} :
          /\ key # None => KeyFree(key)
          /\ receipts' = Append(receipts, [order |-> o, key |-> key, got |-> got])
    <2>1. PICK key \in Key \cup {None} :
            /\ key # None => KeyFree(key)
            /\ receipts' = Append(receipts, [order |-> o, key |-> key, got |-> got])
      BY <1>3
    <2> DEFINE new == [order |-> o, key |-> key, got |-> got]
               n == Len(receipts)
    <2>2. new \in Receipt /\ receipts \in Seq(Receipt)
      BY DEF Receipt, TypeOK
    <2>3. new.order = o /\ new.key = key
      OBVIOUS
    <2>4. receipts' = Append(receipts, new)
      BY <2>1
    <2> HIDE DEF new
    <2>5. /\ receipts' \in Seq(Receipt) /\ n \in Nat
          /\ DOMAIN receipts = 1..n /\ DOMAIN receipts' = 1..(n + 1)
          /\ \A i \in 1..n : receipts'[i] = receipts[i]
          /\ receipts'[n + 1] = new
      BY <2>2, <2>4
    <2>6. \A i \in 1..n : receipts[i].key # None => receipts[i].key # key
      BY <2>1, <2>5 DEF KeyFree
    <2> HIDE DEF n
    <2>7. \A i \in 1..(n + 1) : i \in 1..n \/ i = n + 1
      BY <2>5
    <2>8. \A i \in DOMAIN receipts' : po'[receipts'[i].order] # None
      BY <1>1, <2>3, <2>5, <2>7 DEF OrdersStay
    <2>9. \A i, j \in 1..n :
            receipts[i].key = receipts[j].key /\ receipts[i].key # None => i = j
      BY <2>5 DEF ReceiptsExplainStock
    <2>10. \A i, j \in 1..(n + 1) :
            receipts'[i].key = receipts'[j].key /\ receipts'[i].key # None => i = j
      BY <2>3, <2>5, <2>6, <2>7, <2>9
    <2>11. \A k \in Sku, w \in Warehouse :
            Came(k, w)' = Came(k, w) + (IF po[o].house = w THEN got[k] ELSE 0)
      BY <2>1, CameStep
    <2> QED
      BY <2>5, <2>8, <2>10, <2>11
  <1> QED
    BY <1>2, <1>3 DEF Receipted

LEMMA OrderStep ==
    ASSUME IndInv, NEW s \in Session, NEW status \in Status,
           NEW mine \in [Sku -> Line \cup {None}],
           \A k \in Sku : job[s].lines[k] # None => mine[k] # None,
           SaveOrder(s, status, mine),
           NEW got \in [Sku -> Nat], NEW delta \in [Sku -> Int],
           Post(At(po[job[s].on].house, got), At(po[job[s].on].house, delta)),
           Receipted(job[s].on, got),
           UNCHANGED <<vendors, shipment, pool>>,
           status \notin {"CLOSED", "CANCELLED"}
             => job[s].status \notin {"CLOSED", "CANCELLED"},
           "order" \notin stale' =>
             /\ \A k \in Sku : delta[k] = Due(status, mine[k])
                                          - Due(job[s].status, job[s].lines[k])
             /\ NothingCame(status, mine)
    PROVE  IndInv'
  <1>1. PICK o \in Order, doc \in PurchaseOrder :
             /\ o = job[s].on /\ po[o] \in PurchaseOrder
             /\ po' = [po EXCEPT ![o] = doc]
             /\ doc.house = po[o].house /\ doc.supplier = po[o].supplier
             /\ \A k \in Sku : po[o].lines[k] # None => doc.lines[k] # None
             /\ "order" \notin stale' =>
                   /\ po[o].status = job[s].status /\ po[o].lines = job[s].lines
                   /\ doc.status = status /\ doc.lines = mine
             /\ stale \subseteq stale' /\ stale' \subseteq stale \cup {"order"}
             /\ po[o].supplier \in vendors
             /\ Done(s)
    BY SavedFacts
  <1>2. /\ TypeOK /\ WorkInv /\ PapersInv /\ ReceiptsExplainStock
        /\ doc # None /\ po[o] # None
        /\ po \in [Order -> PurchaseOrder \cup {None}]
    BY <1>1, DocType DEF IndInv, TypeOK
  <1>3. /\ po' \in [Order -> PurchaseOrder \cup {None}]
        /\ po'[o] = doc /\ \A u \in Order \ {o} : po'[u] = po[u]
    BY <1>1, <1>2
  <1>4. OrdersStay /\ ShipmentsStay
    BY <1>1, <1>2, <1>3 DEF OrdersStay, ShipmentsStay
  <1>5. job' \in [Session -> Job] /\ WorkInv'
    BY <1>1, <1>2, <1>4, DoneWork
  <1>6. /\ avail' \in [Bin -> Nat] /\ transit' \in [Bin -> Nat]
        /\ \A k \in Sku, x \in Warehouse :
              /\ avail'[<<k, x>>] = avail[<<k, x>>]
                                    + (IF x = po[o].house THEN got[k] ELSE 0)
              /\ transit'[<<k, x>>] = transit[<<k, x>>]
                                      + (IF x = po[o].house THEN delta[k] ELSE 0)
    <2>1. got \in [Sku -> Int]
      OBVIOUS
    <2> QED
      BY <1>1, <1>2, <2>1, PostAt
  <1>7. /\ receipts' \in Seq(Receipt)
        /\ \A i \in DOMAIN receipts' : po'[receipts'[i].order] # None
        /\ \A i, j \in DOMAIN receipts' :
              receipts'[i].key = receipts'[j].key /\ receipts'[i].key # None => i = j
        /\ \A k \in Sku, w \in Warehouse :
              Came(k, w)' = Came(k, w) + (IF po[o].house = w THEN got[k] ELSE 0)
    BY <1>1, <1>2, <1>4, ReceiptedFacts
  <1>8. TypeOK'
    BY <1>1, <1>2, <1>3, <1>5, <1>6, <1>7 DEF TypeOK
  <1>9. PapersInv'
    <2>1. \A h \in Shipment : shipment[h] # None /\ shipment[h].order # None
             => po'[shipment[h].order] # None
      <3> SUFFICES ASSUME NEW h \in Shipment, shipment[h] # None,
                          shipment[h].order # None
                   PROVE  po'[shipment[h].order] # None
        OBVIOUS
      <3>1. shipment[h].order \in Order
        BY <1>2 DEF TypeOK, FirstMile
      <3> QED
        BY <1>2, <1>4, <3>1 DEF PapersInv, OrdersStay
    <2> QED
      BY <1>2, <1>7, <2>1 DEF PapersInv
  <1>10. UntouchedInv'
    <2> SUFFICES ASSUME "order" \notin stale', NEW u \in Order
                 PROVE  Untouched(po'[u])
      BY DEF UntouchedInv, Untouched, NothingCame
    <2>1. CASE u = o
      BY <1>1, <1>3, <2>1 DEF Untouched, NothingCame
    <2>2. CASE u # o
      BY <1>1, <1>3, <2>2 DEF IndInv, UntouchedInv
    <2> QED
      BY <2>1, <2>2
  <1>11. ClosingInv' /\ OpenOrdersHaveSuppliers'
    <2>1. "order" \notin stale' => NoneOpened
      BY <1>1, <1>2, <1>3 DEF NoneOpened, Open
    <2> QED
      BY <1>1, <1>4, <2>1, SameSuppliers
  <1>12. OpenQuantitiesInTransit'
    <2> SUFFICES ASSUME "order" \notin stale', NEW k \in Sku, NEW w \in Warehouse
                 PROVE  transit'[<<k, w>>] = Expected(k, w)' + Carried(k, MoversTo(w))'
      BY DEF OpenQuantitiesInTransit
    <2>1. transit[<<k, w>>] = Expected(k, w) + Carried(k, MoversTo(w))
      BY <1>1 DEF IndInv, OpenQuantitiesInTransit
    <2>2. /\ Expected(k, w) \in Int
          /\ Expected(k, w)' = Expected(k, w) + StillDue(doc, k, w)
                                              - StillDue(po[o], k, w)
      BY <1>2, <1>3, ExpectedStep
    <2>3. /\ StillDue(doc, k, w) = IF w = po[o].house THEN Due(status, mine[k]) ELSE 0
          /\ StillDue(po[o], k, w) = IF w = po[o].house
                THEN Due(job[s].status, job[s].lines[k]) ELSE 0
      BY <1>1, <1>2 DEF StillDue, Due
    <2>4. StillDue(doc, k, w) \in Int /\ StillDue(po[o], k, w) \in Int
      BY <1>1, DueType
    <2>5. delta[k] = Due(status, mine[k]) - Due(job[s].status, job[s].lines[k])
      OBVIOUS
    <2>6. Carried(k, MoversTo(w))' = Carried(k, MoversTo(w))
      BY <1>2, <1>4, SameCarried
    <2>7. Carried(k, MoversTo(w)) \in Int
      BY <1>2, CarriedType DEF MoversTo, Movers, Shipped, TypeOK
    <2>8. transit'[<<k, w>>] = transit[<<k, w>>]
                               + (IF w = po[o].house THEN delta[k] ELSE 0)
      BY <1>6
    <2> QED
      BY <2>1, <2>2, <2>3, <2>4, <2>5, <2>6, <2>7, <2>8
  <1>13. ReceiptsExplainStock'
    <2>1. ASSUME NEW k \in Sku, NEW w \in Warehouse
          PROVE  avail'[<<k, w>>] = Came(k, w)' - Carried(k, MoversFrom(w))'
      <3>1. avail[<<k, w>>] = Came(k, w) - Carried(k, MoversFrom(w))
        BY <1>2 DEF ReceiptsExplainStock
      <3>2. Carried(k, MoversFrom(w))' = Carried(k, MoversFrom(w))
        BY <1>2, <1>4, SameCarried
      <3>3. Came(k, w) \in Int /\ Carried(k, MoversFrom(w)) \in Int
        BY <1>2, CameType, CarriedType DEF MoversFrom, Movers, Shipped, TypeOK
      <3>4. avail'[<<k, w>>] = avail[<<k, w>>] + (IF w = po[o].house THEN got[k] ELSE 0)
        BY <1>6
      <3>5. Came(k, w)' = Came(k, w) + (IF po[o].house = w THEN got[k] ELSE 0)
        BY <1>7
      <3> QED
        BY <3>1, <3>2, <3>3, <3>4, <3>5
    <2> QED
      BY <1>7, <2>1 DEF ReceiptsExplainStock
  <1>14. PoolsWeighEverything'
    BY <1>1, <1>2, <1>4, SamePools DEF IndInv
  <1> QED
    BY <1>5, <1>8, <1>9, <1>10, <1>11, <1>12, <1>13, <1>14 DEF IndInv

\* What a request on an order has before it.
LEMMA RequestFacts ==
    ASSUME IndInv, NEW s \in Session, job[s].stage = "lines"
    PROVE  /\ job[s].status \in Status
           /\ job[s].lines \in [Sku -> Line \cup {None}]
           /\ \A k \in Sku : job[s].lines[k] # None =>
                 /\ job[s].lines[k] \in Line
                 /\ OpenQty(job[s].lines[k]) \in Nat
                 /\ job[s].lines[k].qty \in Nat
  <1>1. job[s] \in Job /\ job[s].status \in Status
    BY DEF IndInv, TypeOK, WorkInv
  <1>2. job[s].lines \in [Sku -> Line \cup {None}]
    BY <1>1 DEF Job
  <1> QED
    BY <1>1, <1>2, OpenQtyType

\* A copy that is not stale of an order that is not approved.
LEMMA NotStale ==
    ASSUME IndInv, NEW s \in Session, job[s].stage = "lines",
           NEW status, NEW mine, SaveOrder(s, status, mine), "order" \notin stale'
    PROVE  NothingCame(job[s].status, job[s].lines)
  <1>1. /\ po[job[s].on].status = job[s].status /\ po[job[s].on].lines = job[s].lines
        /\ "order" \notin stale
    BY DEF SaveOrder
  <1>2. job[s].on \in Order /\ po[job[s].on] # None
    BY DEF IndInv, WorkInv
  <1>3. Untouched(po[job[s].on])
    BY <1>1, <1>2 DEF IndInv, UntouchedInv
  <1> QED
    BY <1>1, <1>2, <1>3 DEF Untouched

NoPieces == [k \in Sku |-> 0]

LEMMA NowhereAt == ASSUME NEW w PROVE Nowhere = At(w, NoPieces)
  BY DEF Nowhere, At, NoPieces, Bin

LEMMA TransitionStep ==
    ASSUME IndInv, NEW s \in Session, NEW action \in Actions, Transition(s, action)
    PROVE  IndInv'
  <1> DEFINE lines == job[s].lines
             was == job[s].status
             K == Lined(lines)
             open == [k \in Sku |-> IF k \in K THEN OpenQty(lines[k]) ELSE 0]
             whole == [k \in Sku |-> IF k \in K THEN lines[k].qty ELSE 0]
             received == SumFunction([k \in K |-> lines[k].got])
             status == Moved(was, action, received)
             w == po[job[s].on].house
             delta == CASE action = "approve" -> whole
                        [] action = "cancel" /\ was = "APPROVED" ->
                             [k \in Sku |-> -open[k]]
                        [] OTHER -> NoPieces
  <1>1. /\ job[s].stage = "lines"
        /\ action = "close" => \A k \in Sku : open[k] = 0
        /\ status # None
        /\ Post(Nowhere, CASE action = "approve" -> At(w, whole)
                           [] action = "cancel" /\ was = "APPROVED" ->
                                At(w, [k \in Sku |-> -open[k]])
                           [] OTHER -> Nowhere)
        /\ SaveOrder(s, status, lines)
        /\ UNCHANGED <<vendors, receipts, shipment, pool>>
    BY DEF Transition
  <1>2. Post(At(w, NoPieces), At(w, delta))
    <2> HIDE DEF whole, open, w, was
    <2>1. CASE action = "approve"
      BY <1>1, <2>1, NowhereAt
    <2>2. CASE action # "approve" /\ action = "cancel" /\ was = "APPROVED"
      BY <1>1, <2>2, NowhereAt
    <2>3. CASE action # "approve" /\ ~(action = "cancel" /\ was = "APPROVED")
      BY <1>1, <2>3, NowhereAt
    <2> QED
      BY <2>1, <2>2, <2>3
  <1>3. /\ was \in Status /\ lines \in [Sku -> Line \cup {None}]
        /\ \A k \in Sku : lines[k] # None =>
              lines[k] \in Line /\ OpenQty(lines[k]) \in Nat /\ lines[k].qty \in Nat
        /\ \A k \in Sku : k \in K <=> lines[k] # None
    BY <1>1, RequestFacts DEF Lined
  <1>4. /\ NoPieces \in [Sku -> Nat]
        /\ open \in [Sku -> Nat] /\ whole \in [Sku -> Nat]
        /\ [k \in Sku |-> -open[k]] \in [Sku -> Int]
    <2>1. open \in [Sku -> Nat]
      BY <1>3
    <2>2. whole \in [Sku -> Nat]
      BY <1>3
    <2>3. [k \in Sku |-> -open[k]] \in [Sku -> Int]
      BY <2>1
    <2> QED
      BY <2>1, <2>2, <2>3 DEF NoPieces
  <1>5. delta \in [Sku -> Int]
    BY <1>4
  <1>6. \/ action = "submit"  /\ was = "DRAFT" /\ status = "PENDING"
        \/ action = "reject"  /\ was = "PENDING" /\ status = "DRAFT"
        \/ action = "approve" /\ was = "PENDING" /\ status = "APPROVED"
        \/ action = "cancel"  /\ was \in {"DRAFT", "PENDING"} /\ status = "CANCELLED"
        \/ action = "cancel"  /\ was = "APPROVED" /\ status = "CANCELLED"
        \/ action = "close"   /\ was \in {"PARTIAL", "RECEIVED"} /\ status = "CLOSED"
    <2> HIDE DEF was, received
    <2> QED
      BY <1>1 DEF Moved, Actions
  <1>7. status \in Status
    BY <1>6 DEF Status
  <1>8. ASSUME "order" \notin stale'
        PROVE  /\ \A k \in Sku : delta[k] = Due(status, lines[k]) - Due(was, lines[k])
               /\ NothingCame(status, lines)
    <2>1. NothingCame(was, lines)
      BY <1>1, <1>8, NotStale
    <2> HIDE DEF was, status, lines
    <2>2. NothingCame(status, lines)
      BY <1>6, <2>1 DEF NothingCame
    <2>3. ASSUME NEW k \in Sku
          PROVE  delta[k] = Due(status, lines[k]) - Due(was, lines[k])
      <3>1. open[k] = IF lines[k] # None THEN OpenQty(lines[k]) ELSE 0
        BY <1>3
      <3>2. whole[k] = IF lines[k] # None THEN lines[k].qty ELSE 0
        BY <1>3
      <3>3. open[k] \in Nat
        BY <1>4
      <3>4. NoPieces[k] = 0
        BY DEF NoPieces
      <3>5. CASE action = "approve"
        <4>1. delta[k] = whole[k] /\ was = "PENDING" /\ status = "APPROVED"
          BY <1>6, <3>5
        <4>2. lines[k] # None => OpenQty(lines[k]) = lines[k].qty
          BY <1>3, <2>1, <4>1 DEF NothingCame, OpenQty, Max2
        <4> HIDE DEF whole, delta
        <4> QED
          BY <1>3, <3>2, <4>1, <4>2 DEF Due, OpenForReceipt
      <3>6. CASE action = "cancel" /\ was = "APPROVED"
        <4>1. delta[k] = -open[k] /\ status = "CANCELLED"
          BY <1>6, <3>6
        <4> HIDE DEF open, delta
        <4> QED
          BY <1>3, <3>1, <3>6, <4>1 DEF Due, OpenForReceipt
      <3>7. CASE action # "approve" /\ ~(action = "cancel" /\ was = "APPROVED")
        <4>1. delta = NoPieces
          BY <3>7
        <4>2. delta[k] = 0
          BY <3>4, <4>1
        <4>3. action = "close" => open[k] = 0
          BY <1>1
        <4> HIDE DEF open, delta
        <4> QED
          BY <1>3, <1>6, <3>1, <3>7, <4>2, <4>3 DEF Due, OpenForReceipt
      <3> QED
        BY <3>5, <3>6, <3>7
    <2> QED
      BY <2>2, <2>3
  <1>9. /\ Receipted(job[s].on, NoPieces)
        /\ status \notin {"CLOSED", "CANCELLED"} => was \notin {"CLOSED", "CANCELLED"}
        /\ UNCHANGED <<vendors, shipment, pool>>
    BY <1>1, <1>6 DEF Receipted, NoPieces
  <1> HIDE DEF delta, status
  <1> QED
    BY <1>1, <1>2, <1>3, <1>4, <1>5, <1>7, <1>8, <1>9, OrderStep

LEMMA EditStep ==
    ASSUME IndInv, NEW s \in Session, Edit(s)
    PROVE  IndInv'
  <1> DEFINE seen == job[s].lines
             was == job[s].status
             w == po[job[s].on].house
             New(k, n) == IF seen[k] = None THEN [qty |-> n, got |-> 0, short |-> 0]
                          ELSE [seen[k] EXCEPT !.qty = n]
             Delta(K, q) == [k \in Sku |-> IF k \in K
                               THEN EditDelta(was, seen[k], New(k, q[k])) ELSE 0]
             Mine(K, q) == [k \in Sku |-> IF k \in K THEN New(k, q[k]) ELSE seen[k]]
  <1>1. PICK K \in SUBSET Sku \ {{}} : \E q \in [K -> Quantities] :
          /\ Post(Nowhere, At(w, Delta(K, q)))
          /\ SaveOrder(s, was, Mine(K, q))
    BY DEF Edit
  <1>2. PICK q \in [K -> Quantities] :
          /\ Post(Nowhere, At(w, Delta(K, q)))
          /\ SaveOrder(s, was, Mine(K, q))
    BY <1>1
  <1>3. /\ job[s].stage = "lines" /\ was \in OpenForEdit
        /\ UNCHANGED <<vendors, receipts, shipment, pool>>
    BY DEF Edit
  <1>4. /\ was \in Status /\ seen \in [Sku -> Line \cup {None}]
        /\ \A k \in Sku : seen[k] # None =>
              seen[k] \in Line /\ OpenQty(seen[k]) \in Nat
    BY <1>3, RequestFacts
  <1> DEFINE delta == Delta(K, q)
             mine == Mine(K, q)
  <1>5. ASSUME NEW k \in K
        PROVE  /\ New(k, q[k]) \in Line /\ New(k, q[k]) # None
               /\ OpenQty(New(k, q[k])) \in Nat
               /\ seen[k] = None => New(k, q[k]).got = 0 /\ New(k, q[k]).short = 0
               /\ seen[k] # None => /\ New(k, q[k]).got = seen[k].got
                                    /\ New(k, q[k]).short = seen[k].short
    <2>1. k \in Sku /\ q[k] \in Nat
      BY AmountsAssumption
    <2> DEFINE n == q[k]
               l == seen[k]
               m == New(k, n)
    <2>2. l # None => l \in Line
      BY <1>4, <2>1
    <2>3. m = IF l = None THEN [qty |-> n, got |-> 0, short |-> 0]
              ELSE [l EXCEPT !.qty = n]
      OBVIOUS
    <2>4. n \in Nat
      BY <2>1
    <2> HIDE DEF n, l, m
    <2>5. /\ m \in Line
          /\ l = None => m.got = 0 /\ m.short = 0
          /\ l # None => m.got = l.got /\ m.short = l.short
      BY <2>2, <2>3, <2>4 DEF Line
    <2>6. m # None /\ OpenQty(m) \in Nat
      BY <2>5, OpenQtyType
    <2> QED
      BY <2>5, <2>6 DEF l, m, n
  <1>6. mine \in [Sku -> Line \cup {None}]
        /\ \A k \in Sku : seen[k] # None => mine[k] # None
    <2> HIDE DEF New
    <2> QED
      BY <1>4, <1>5
  <1>7. ASSUME NEW k \in Sku
        PROVE  /\ delta[k] = Due(was, mine[k]) - Due(was, seen[k])
               /\ delta[k] \in Int
    <2>1. CASE k \in K
      <3> DEFINE m == New(k, q[k])
      <3>1. /\ delta[k] = EditDelta(was, seen[k], m) /\ mine[k] = m
            /\ m # None /\ OpenQty(m) \in Nat
        BY <1>5, <2>1
      <3>2. seen[k] # None => OpenQty(seen[k]) \in Nat
        BY <1>4
      <3> HIDE DEF m, delta, mine
      <3>3. was \in {"DRAFT", "PENDING"} \/ was \in OpenForReceipt
        BY <1>3 DEF OpenForEdit, OpenForReceipt
      <3>4. CASE was \in {"DRAFT", "PENDING"}
        BY <3>1, <3>4 DEF EditDelta, Due, OpenForReceipt
      <3>5. CASE was \in OpenForReceipt
        BY <3>1, <3>2, <3>5 DEF EditDelta, Due, OpenForReceipt
      <3> QED
        BY <3>3, <3>4, <3>5
    <2>2. CASE k \notin K
      <3>1. delta[k] = 0 /\ mine[k] = seen[k]
        BY <2>2
      <3>2. Due(was, seen[k]) \in Int
        BY <1>4 DEF Due
      <3> HIDE DEF delta, mine
      <3> QED
        BY <3>1, <3>2
    <2> QED
      BY <2>1, <2>2
  <1>8. delta \in [Sku -> Int]
    <2>1. delta = [k \in Sku |-> delta[k]]
      OBVIOUS
    <2> HIDE DEF delta
    <2> QED
      BY <1>7, <2>1
  <1>9. Post(At(w, NoPieces), At(w, delta))
    BY <1>2, NowhereAt
  <1>10. "order" \notin stale' => NothingCame(was, mine)
    <2> SUFFICES ASSUME "order" \notin stale', was \in {"DRAFT", "PENDING"},
                        NEW k \in Sku, mine[k] # None
                 PROVE  mine[k].got = 0 /\ mine[k].short = 0
      BY DEF NothingCame
    <2>1. NothingCame(was, seen)
      BY <1>2, <1>3, NotStale
    <2>2. CASE k \in K
      <3>1. mine[k] = New(k, q[k])
        BY <2>2
      <3> HIDE DEF New, mine
      <3> QED
        BY <1>5, <2>1, <2>2, <3>1 DEF NothingCame
    <2>3. CASE k \notin K
      BY <2>1, <2>3 DEF NothingCame
    <2> QED
      BY <2>2, <2>3
  <1>11. NoPieces \in [Sku -> Nat] /\ Receipted(job[s].on, NoPieces)
    BY <1>3 DEF NoPieces, Receipted
  <1>12. SaveOrder(s, was, mine)
    BY <1>2
  <1> HIDE DEF delta, mine
  <1> QED
    BY <1>3, <1>4, <1>6, <1>7, <1>8, <1>9, <1>10, <1>11, <1>12, OrderStep

\* Taking pieces of a line, or giving them up, releases what it then lacks.
LEMMA TakenFacts ==
    ASSUME NEW l \in Line, NEW n \in Nat, NEW disposition \in {"RECEIVE", "SHORT"}
    PROVE  /\ Taken(l, n, disposition) \in Line
           /\ OpenQty(Taken(l, n, disposition))
                = OpenQty(l) - Release(l, n, disposition)
           /\ Release(l, n, disposition) \in Nat
  <1>1. l.qty \in Nat /\ l.got \in Nat /\ l.short \in Nat /\ OpenQty(l) \in Nat
    BY OpenQtyType
  <1>2. CASE disposition = "SHORT"
    <2> DEFINE new == l.short + OpenQty(l)
               m == [l EXCEPT !.short = new]
    <2>1. Taken(l, n, disposition) = m
      BY <1>2 DEF Taken
    <2>2. m \in Line /\ m.qty = l.qty /\ m.got = l.got /\ m.short = l.short + OpenQty(l)
      BY <1>1 DEF Line
    <2> HIDE DEF m
    <2>3. OpenQty(m) = 0
      BY <1>1, <2>2 DEF OpenQty, Max2
    <2>4. Release(l, n, disposition) = OpenQty(l)
      BY <1>2 DEF Release
    <2> QED
      BY <1>1, <2>1, <2>2, <2>3, <2>4
  <1>3. CASE disposition = "RECEIVE"
    <2> DEFINE new == l.got + n
               m == [l EXCEPT !.got = new]
    <2>1. Taken(l, n, disposition) = m
      BY <1>3 DEF Taken
    <2>2. m \in Line /\ m.qty = l.qty /\ m.got = l.got + n /\ m.short = l.short
      BY <1>1 DEF Line
    <2> HIDE DEF m
    <2>3. Release(l, n, disposition) = Min2(n, OpenQty(l))
      BY <1>3 DEF Release
    <2>4. OpenQty(m) = OpenQty(l) - Min2(n, OpenQty(l)) /\ Min2(n, OpenQty(l)) \in Nat
      BY <1>1, <2>2 DEF OpenQty, Max2, Min2
    <2> QED
      BY <2>1, <2>2, <2>3, <2>4
  <1> QED
    BY <1>2, <1>3

LEMMA ReceiveStep ==
    ASSUME IndInv, NEW s \in Session, Receive(s)
    PROVE  IndInv'
  <1> DEFINE seen == job[s].lines
             was == job[s].status
             o == job[s].on
             w == po[o].house
             Got(K, d, q) == [k \in Sku |-> IF k \in K /\ d = "RECEIVE" THEN q[k] ELSE 0]
             Out(K, d, q) == [k \in Sku |-> IF k \in K
                                THEN -Release(seen[k], q[k], d) ELSE 0]
             Mine(K, d, q) == [k \in Sku |-> IF k \in K
                                 THEN Taken(seen[k], q[k], d) ELSE seen[k]]
             Fresh(mine) == [k \in Sku |-> IF mine[k] = None THEN po[o].lines[k]
                                           ELSE mine[k]]
  <1> DEFINE Body(K, d, over, key, q) ==
               LET got == [k \in Sku |-> IF k \in K /\ d = "RECEIVE" THEN q[k] ELSE 0]
                   out == [k \in Sku |-> IF k \in K THEN -Release(seen[k], q[k], d) ELSE 0]
                   mine == [k \in Sku |-> IF k \in K THEN Taken(seen[k], q[k], d)
                                          ELSE seen[k]]
                   fresh == [k \in Sku |-> IF mine[k] = None THEN po[o].lines[k]
                                           ELSE mine[k]]
               IN  /\ key # None => KeyFree(key)
                   /\ \A k \in K : MayTake(seen[k], q[k], d, over)
                   /\ Post(At(w, got), At(w, out))
                   /\ receipts' = Append(receipts, [order |-> o, key |-> key, got |-> got])
                   /\ SaveOrder(s, NextReceiptStatus(fresh), mine)
  <1>1. \E K \in SUBSET Lined(seen) \ {{}}, disposition \in {"RECEIVE", "SHORT"},
            allowOver \in BOOLEAN, key \in Key \cup {None} :
          \E q \in [K -> Quantities] : Body(K, disposition, allowOver, key, q)
    BY Zenon DEF Receive
  <1> HIDE DEF Body
  <1>2. PICK K \in SUBSET Lined(seen) \ {{}}, disposition \in {"RECEIVE", "SHORT"},
             allowOver \in BOOLEAN, key \in Key \cup {None} :
          \E q \in [K -> Quantities] : Body(K, disposition, allowOver, key, q)
    BY <1>1
  <1>17. PICK q \in [K -> Quantities] : Body(K, disposition, allowOver, key, q)
    BY <1>2
  <1> DEFINE got == Got(K, disposition, q)
             out == Out(K, disposition, q)
             mine == Mine(K, disposition, q)
             status == NextReceiptStatus(Fresh(mine))
  <1>3. /\ job[s].stage = "lines" /\ was \in OpenForReceipt
        /\ UNCHANGED <<vendors, shipment, pool>>
    BY DEF Receive
  <1>4. /\ was \in Status /\ seen \in [Sku -> Line \cup {None}]
        /\ \A k \in Sku : seen[k] # None =>
              seen[k] \in Line /\ OpenQty(seen[k]) \in Nat
    BY <1>3, RequestFacts
  <1>5. \A k \in K : k \in Sku /\ seen[k] # None /\ q[k] \in Nat
    BY AmountsAssumption DEF Lined
  <1>6. \A k \in K :
           /\ Taken(seen[k], q[k], disposition) \in Line
           /\ Taken(seen[k], q[k], disposition) # None
           /\ OpenQty(Taken(seen[k], q[k], disposition))
                = OpenQty(seen[k]) - Release(seen[k], q[k], disposition)
           /\ Release(seen[k], q[k], disposition) \in Nat
    BY <1>4, <1>5, TakenFacts, OpenQtyType
  <1>7. got \in [Sku -> Nat]
    BY <1>5
  <1>8. out \in [Sku -> Int]
    BY <1>6
  <1>9. /\ mine \in [Sku -> Line \cup {None}]
        /\ \A k \in Sku : seen[k] # None <=> mine[k] # None
    BY <1>4, <1>5, <1>6
  <1>10. status \in {"RECEIVED", "PARTIAL", "APPROVED"}
    BY DEF NextReceiptStatus
  <1>11. \A k \in Sku : seen[k] # None =>
            /\ out[k] = OpenQty(mine[k]) - OpenQty(seen[k])
            /\ OpenQty(mine[k]) \in Nat
    <2> SUFFICES ASSUME NEW k \in Sku, seen[k] # None
                 PROVE  /\ out[k] = OpenQty(mine[k]) - OpenQty(seen[k])
                        /\ OpenQty(mine[k]) \in Nat
      OBVIOUS
    <2>1. mine[k] \in Line
      BY <1>9
    <2>2. OpenQty(mine[k]) \in Nat /\ OpenQty(seen[k]) \in Nat
      BY <1>4, <2>1, OpenQtyType
    <2>3. CASE k \in K
      <3>1. /\ mine[k] = Taken(seen[k], q[k], disposition)
            /\ out[k] = -Release(seen[k], q[k], disposition)
        BY <2>3
      <3> HIDE DEF mine, out
      <3> QED
        BY <1>6, <2>2, <2>3, <3>1
    <2>4. CASE k \notin K
      <3>1. mine[k] = seen[k] /\ out[k] = 0
        BY <2>4
      <3> HIDE DEF mine, out
      <3> QED
        BY <2>2, <3>1
    <2> QED
      BY <2>3, <2>4
  <1>12. \A k \in Sku : seen[k] = None => out[k] = 0
    BY <1>5
  <1>13. /\ Post(At(w, got), At(w, out))
         /\ SaveOrder(s, status, mine)
         /\ Receipted(o, got)
    BY <1>17 DEF Receipted, Body
  <1>14. ASSUME status = "RECEIVED", NEW k \in Sku, mine[k] # None
         PROVE  OpenQty(mine[k]) = 0
    <2> DEFINE fresh == Fresh(mine)
    <2>1. fresh[k] = mine[k] /\ fresh[k] # None
      BY <1>14
    <2> HIDE DEF fresh, mine
    <2>2. k \in Lined(fresh)
      BY <2>1 DEF Lined
    <2>3. \A i \in Lined(fresh) : OpenQty(fresh[i]) = 0
      BY <1>14 DEF NextReceiptStatus, fresh
    <2> QED
      BY <2>1, <2>2, <2>3
  <1> HIDE DEF got, out, mine, status
  <1>15. ASSUME NEW k \in Sku
         PROVE  out[k] = Due(status, mine[k]) - Due(was, seen[k])
    <2>1. CASE seen[k] = None
      BY <1>9, <1>12, <2>1 DEF Due
    <2>2. CASE seen[k] # None /\ status = "RECEIVED"
      <3>1. OpenQty(mine[k]) = 0 /\ mine[k] # None
        BY <1>9, <1>14, <2>2
      <3> QED
        BY <1>3, <1>4, <1>11, <2>2, <3>1 DEF Due, OpenForReceipt
    <2>3. CASE seen[k] # None /\ status # "RECEIVED"
      BY <1>3, <1>9, <1>10, <1>11, <2>3 DEF Due, OpenForReceipt
    <2> QED
      BY <2>1, <2>2, <2>3
  <1>16. /\ status \in Status /\ NothingCame(status, mine)
         /\ was \notin {"CLOSED", "CANCELLED"}
    BY <1>3, <1>10 DEF Status, NothingCame, OpenForReceipt
  <1> QED
    BY <1>3, <1>7, <1>8, <1>9, <1>13, <1>15, <1>16, OrderStep

-----------------------------------------------------------------------------
LEMMA IndInvInit == Init => IndInv
  <1> SUFFICES ASSUME Init PROVE IndInv
    OBVIOUS
  <1>1. TypeOK
    BY IdleType DEF Init, TypeOK
  <1>2. WorkInv /\ PapersInv /\ UntouchedInv /\ ClosingInv /\ OpenOrdersHaveSuppliers
    BY IdleType DEF Init, WorkInv, PapersInv, UntouchedInv, Untouched, ClosingInv,
                    OpenOrdersHaveSuppliers, Open
  <1>3. \A k \in Sku : \A w : Expected(k, w) = 0
    <2> SUFFICES ASSUME NEW k \in Sku, NEW w PROVE Expected(k, w) = 0
      OBVIOUS
    <2> DEFINE f == [o \in Order |-> StillDue(po[o], k, w)]
    <2>1. \A o \in Order : f[o] = 0
      BY DEF Init, StillDue
    <2>2. Expected(k, w) = SumFunctionOnSet(f, Order)
      BY DEF Expected, SumFunction
    <2> HIDE DEF f
    <2> QED
      BY <2>1, <2>2, FiniteAssumption, SumZero
  <1>4. \A k \in Sku, H \in SUBSET Shipped : Carried(k, H) = 0
    <2> SUFFICES ASSUME NEW k \in Sku, NEW H \in SUBSET Shipped PROVE Carried(k, H) = 0
      OBVIOUS
    <2> DEFINE f == [h \in Shipment |-> IF h \in H THEN shipment[h].qty[k] ELSE 0]
    <2>1. \A h \in Shipment : f[h] = 0
      BY DEF Init, Shipped
    <2>2. Carried(k, H) = SumFunctionOnSet(f, Shipment)
      BY DEF Carried, SumFunction
    <2> HIDE DEF f
    <2> QED
      BY <2>1, <2>2, FiniteAssumption, SumZero
  <1>5. \A k \in Sku : \A w : Came(k, w) = 0
    <2> SUFFICES ASSUME NEW k \in Sku, NEW w PROVE Came(k, w) = 0
      OBVIOUS
    <2>1. DOMAIN receipts = {}
      BY DEF Init
    <2> DEFINE f == [i \in DOMAIN receipts |->
                       IF po[receipts[i].order].house = w THEN receipts[i].got[k] ELSE 0]
    <2>2. Came(k, w) = SumFunctionOnSet(f, {})
      BY <2>1 DEF Came, SumFunction
    <2> HIDE DEF f
    <2> QED
      BY <2>2, SumEmpty
  <1>6. \A w : MoversTo(w) \in SUBSET Shipped /\ MoversFrom(w) \in SUBSET Shipped
    BY DEF MoversTo, MoversFrom, Movers
  <1>7. \A k \in Sku, w \in Warehouse : avail[<<k, w>>] = 0 /\ transit[<<k, w>>] = 0
    BY DEF Init, Bin
  <1>8. OpenQuantitiesInTransit
    <2> SUFFICES ASSUME NEW k \in Sku, NEW w \in Warehouse
                 PROVE  transit[<<k, w>>] = Expected(k, w) + Carried(k, MoversTo(w))
      BY DEF OpenQuantitiesInTransit
    <2>1. Expected(k, w) = 0
      BY <1>3
    <2>2. Carried(k, MoversTo(w)) = 0
      BY <1>4, <1>6
    <2> QED
      BY <1>7, <2>1, <2>2
  <1>9. ReceiptsExplainStock
    <2>1. DOMAIN receipts = {}
      BY DEF Init
    <2> QED
      BY <1>4, <1>5, <1>6, <1>7, <2>1 DEF ReceiptsExplainStock
  <1>10. PoolsWeighEverything
    BY DEF PoolsWeighEverything, Init, Shipped
  <1> QED
    BY <1>1, <1>2, <1>8, <1>9, <1>10 DEF IndInv

LEMMA IndInvNext == IndInv /\ [Next]_vars => IndInv'
  <1> SUFFICES ASSUME IndInv, [Next]_vars PROVE IndInv'
    OBVIOUS
  <1>1. CASE \E h \in Shipment : CreateShipment(h)
    BY <1>1, CreateShipmentStep
  <1>2. ASSUME NEW s \in Session,
               \/ \E p \in Supplier : ReadVendor(s, p) \/ ReadForDelete(s, p)
               \/ \E h \in Shipment : ReadShipment(s, h)
               \/ \E o \in Order : ReadOrder(s, o)
        PROVE  IndInv'
    BY <1>2, BeginStep
  <1>3. ASSUME NEW s \in Session, ReadLines(s) \/ ReadPool(s) \/ Drop(s)
        PROVE  IndInv'
    BY <1>3, GoOnStep
  <1>4. ASSUME NEW s \in Session,
               \/ DeleteSupplier(s) \/ PostShipment(s) \/ Edit(s) \/ Receive(s)
               \/ \E o \in Order : InsertOrder(s, o)
               \/ \E action \in Actions : Transition(s, action)
        PROVE  IndInv'
    BY <1>4, DeleteSupplierStep, PostShipmentStep, EditStep, ReceiveStep,
       InsertOrderStep, TransitionStep
  <1>5. CASE UNCHANGED vars
    <2>1. UNCHANGED <<vendors, po, receipts, shipment, pool, avail, transit, job, stale>>
      BY <1>5 DEF vars, stock
    <2>2. TypeOK /\ WorkInv /\ PapersInv /\ OrdersStay
      BY <2>1 DEF IndInv, OrdersStay
    <2>3. TypeOK' /\ WorkInv' /\ PapersInv' /\ UntouchedInv' /\ OpenOrdersHaveSuppliers'
      BY <2>1 DEF IndInv, TypeOK, WorkInv, PapersInv, UntouchedInv, Untouched,
                  OpenOrdersHaveSuppliers, Open
    <2>4. ClosingInv'
      BY <2>1 DEF IndInv, ClosingInv, CountOpen, Open
    <2>5. OpenQuantitiesInTransit'
      BY <2>1, <2>2, SameCarried, ExpectedSame DEF IndInv, OpenQuantitiesInTransit
    <2>6. ReceiptsExplainStock'
      BY <2>1, <2>2, SameCarried, SameCame DEF IndInv, ReceiptsExplainStock
    <2>7. PoolsWeighEverything'
      BY <2>1, SamePools DEF IndInv
    <2> QED
      BY <2>3, <2>4, <2>5, <2>6, <2>7 DEF IndInv
  <1> QED
    BY <1>1, <1>2, <1>3, <1>4, <1>5 DEF Next

LEMMA IndInvHolds == Spec => []IndInv
  BY IndInvInit, IndInvNext, PTL DEF Spec

(***************************************************************************)
(* OpenQuantitiesInTransit: for any orders, lines and shipments, what is   *)
(* in transit to a warehouse is what orders still expect and shipments     *)
(* carry there, until two requests on one order overlap (transition,       *)
(* _apply_line_edits, receive, post_shipment).                             *)
(***************************************************************************)
THEOREM TransitExplained == Spec => []OpenQuantitiesInTransit
  <1>1. IndInv => OpenQuantitiesInTransit
    BY DEF IndInv
  <1> QED
    BY <1>1, IndInvHolds, PTL

(***************************************************************************)
(* ReceiptsExplainStock: however requests overlap, retry or fail, stock is *)
(* what receipts brought minus what shipments took, and a key counts once  *)
(* (receive, post_shipment).                                               *)
(***************************************************************************)
THEOREM StockExplained == Spec => []ReceiptsExplainStock
  <1>1. IndInv => ReceiptsExplainStock
    BY DEF IndInv
  <1> QED
    BY <1>1, IndInvHolds, PTL

(***************************************************************************)
(* PoolsWeighEverything: each posted shipment leaves one cost pool of each *)
(* SKU it brought, and the latest one weighs all that shipments brought    *)
(* since the currency changed, until two of them overlap (_write_pool).    *)
(***************************************************************************)
THEOREM PoolsExplained == Spec => []PoolsWeighEverything
  <1>1. IndInv => PoolsWeighEverything
    BY DEF IndInv
  <1> QED
    BY <1>1, IndInvHolds, PTL

(***************************************************************************)
(* SuppliersHold: every request leaves documents of the right types, and   *)
(* no supplier with an open order is deleted, unless the deletion met a    *)
(* request half way (delete_supplier, _insert_order).                      *)
(***************************************************************************)
THEOREM SuppliersKept == Spec => []SuppliersHold
  <1>1. IndInv => SuppliersHold
    BY DEF IndInv, SuppliersHold
  <1> QED
    BY <1>1, IndInvHolds, PTL
=============================================================================
