------------------------------ MODULE Purchase ------------------------------
(***************************************************************************)
(* Purchase orders, receipts and first-mile shipments of                   *)
(* backend/app/services/purchase.py with the rules of engines/purchase.py. *)
(*                                                                         *)
(* A request reads the order, then its lines, and commits everything it    *)
(* does at once.  No UPDATE of an order or of a line looks at what it      *)
(* overwrites: only the columns that the request changed are written, over *)
(* whatever is there by then.  Stock is moved by the ledger, which adds    *)
(* differences and refuses to go below zero.                               *)
(***************************************************************************)
EXTENDS Integers, Sequences, FiniteSets, Functions

CONSTANTS Session, Order, Shipment, Supplier, Sku, Currency,
          Home, Abroad,  \* the warehouses goods are bought for; disjoint
          Quantities,    \* of a line of an order
          Loads,         \* of a line of a shipment
          Routes,        \* source, destination and currency of a shipment
          Key,           \* idempotency keys that a receipt may carry
          MaxPapers,     \* bound on receipts and shipments together
          MaxTransit,    \* bound on what overlapping requests pile up in transit
          None

Warehouse == Home \cup Abroad

ASSUME HousesApart == Home \cap Abroad = {}

ASSUME RoutesAssumption ==
    Routes \subseteq (Warehouse \cup {None}) \X (Warehouse \cup {None}) \X Currency

ASSUME AmountsAssumption == Quantities \subseteq Nat /\ Loads \subseteq Nat

ASSUME FiniteAssumption == IsFiniteSet(Order) /\ IsFiniteSet(Shipment)

Bin == Sku \X Warehouse

VARIABLES
    vendors,    \* suppliers that are not deleted
    po,         \* committed purchase orders with their lines
    receipts,   \* committed receipts
    shipment,   \* committed first-mile shipments
    pool,       \* per SKU, its cost pools from the first to the latest
    avail, transit,  \* committed stock
    job,        \* per session, what the request in progress has read
    stale       \* kinds of document written after they were read and changed

vars == <<vendors, po, receipts, shipment, pool, avail, transit, job, stale>>

stock == <<avail, transit>>

-----------------------------------------------------------------------------
Status == {"DRAFT", "PENDING", "APPROVED", "PARTIAL", "RECEIVED", "CLOSED",
           "CANCELLED"}

Line == [qty: Nat, got: Nat, short: Nat]

PurchaseOrder == [status: Status, supplier: Supplier, house: Warehouse,
                  lines: [Sku -> Line \cup {None}]]

Receipt == [order: Order, key: Key \cup {None}, got: [Sku -> Nat]]

FirstMile == [status: {"DRAFT", "POSTED"}, order: Order \cup {None},
              from: Warehouse \cup {None}, to: Warehouse \cup {None},
              coin: Currency, qty: [Sku -> Nat], costed: Nat]

\* A pool is written once, by the shipment that brings the SKU.
CostPool == [of: Shipment, qty: Nat, coin: Currency]

ASSUME AbsentAssumption ==
    None \notin Status \cup Line \cup PurchaseOrder \cup FirstMile \cup CostPool

Job == [on: Order \cup Shipment \cup Supplier \cup {None},
        stage: {"idle", "order", "lines", "vendor", "closing", "draft", "pool"},
        status: Status \cup {None},
        lines: [Sku -> Line \cup {None}],
        pool: [Sku -> CostPool \cup {None}]]

NoLines == [k \in Sku |-> None]

NoPools == [k \in Sku |-> None]

Idle == [on |-> None, stage |-> "idle", status |-> None, lines |-> NoLines,
         pool |-> NoPools]

TypeOK ==
    /\ vendors \subseteq Supplier
    /\ po \in [Order -> PurchaseOrder \cup {None}]
    /\ receipts \in Seq(Receipt)
    /\ shipment \in [Shipment -> FirstMile \cup {None}]
    /\ pool \in [Sku -> Seq(CostPool)]
    /\ avail \in [Bin -> Nat]
    /\ transit \in [Bin -> Nat]
    /\ job \in [Session -> Job]
    /\ stale \subseteq {"order", "pool", "vendor"}

Init ==
    /\ vendors = Supplier
    /\ po = [o \in Order |-> None]
    /\ receipts = <<>>
    /\ shipment = [h \in Shipment |-> None]
    /\ pool = [k \in Sku |-> <<>>]
    /\ avail = [b \in Bin |-> 0]
    /\ transit = [b \in Bin |-> 0]
    /\ job = [s \in Session |-> Idle]
    /\ stale = {}

Free(s) == job[s].stage = "idle"

Papers == Len(receipts) + Cardinality({h \in Shipment : shipment[h] # None})

Done(s) == job' = [job EXCEPT ![s] = Idle]

\* Columns that the request has not changed are not in its UPDATE.
Column(seen, mine, now) == IF mine = seen THEN now ELSE mine

Merged(seen, mine, now) == [qty |-> Column(seen.qty, mine.qty, now.qty),
                            got |-> Column(seen.got, mine.got, now.got),
                            short |-> Column(seen.short, mine.short, now.short)]

-----------------------------------------------------------------------------
(* engines/purchase.py.                                                     *)

Max2(x, y) == IF x > y THEN x ELSE y

OpenQty(l) == Max2(0, l.qty - l.got - l.short)

\* The state after the action; None if the action is refused.
Moved(status, action, received) ==
    CASE action = "submit"  /\ status = "DRAFT" -> "PENDING"
      [] action = "reject"  /\ status = "PENDING" -> "DRAFT"
      [] action = "approve" /\ status = "PENDING" -> "APPROVED"
      [] action = "cancel"  /\ status \in {"DRAFT", "PENDING"} -> "CANCELLED"
      [] action = "cancel"  /\ status = "APPROVED" /\ received = 0 -> "CANCELLED"
      [] action = "close"   /\ status \in {"PARTIAL", "RECEIVED"} -> "CLOSED"
      [] OTHER -> None

Actions == {"submit", "reject", "approve", "cancel", "close"}

OpenForReceipt == {"APPROVED", "PARTIAL"}

OpenForEdit == {"DRAFT", "PENDING", "APPROVED", "PARTIAL"}

Lined(lines) == {k \in Sku : lines[k] # None}

\* A line of the order after q pieces of it have come, or the rest never will.
Taken(l, q, disposition) ==
    IF disposition = "SHORT" THEN [l EXCEPT !.short = @ + OpenQty(l)]
    ELSE [l EXCEPT !.got = @ + q]

MayTake(l, q, disposition, allowOver) ==
    IF disposition = "SHORT" THEN OpenQty(l) > 0
    ELSE q > 0 /\ (q <= OpenQty(l) \/ allowOver)

Min2(x, y) == IF x < y THEN x ELSE y

\* What leaves transit.
Release(l, q, disposition) ==
    IF disposition = "SHORT" THEN OpenQty(l) ELSE Min2(q, OpenQty(l))

NextReceiptStatus(lines) ==
    LET K == Lined(lines)
    IN  IF K # {} /\ \A k \in K : OpenQty(lines[k]) = 0 THEN "RECEIVED"
        ELSE IF \E k \in K : lines[k].got > 0 \/ lines[k].short > 0 THEN "PARTIAL"
        ELSE "APPROVED"

\* An order bound for abroad is in transit already.
ShouldMove(h) ==
    /\ h.from # None /\ h.to # None /\ h.from # h.to
    /\ h.order # None => po[h.order].house \in Home

-----------------------------------------------------------------------------
(* post_stock: one call per line, all or none of them.                      *)

Post(dAvail, dTransit) ==
    /\ avail' = [b \in Bin |-> avail[b] + dAvail[b]]
    /\ transit' = [b \in Bin |-> transit[b] + dTransit[b]]
    /\ \A b \in Bin : avail'[b] >= 0 /\ transit'[b] \in 0..MaxTransit

At(w, f) == [b \in Bin |-> IF b[2] = w THEN f[b[1]] ELSE 0]

Nowhere == [b \in Bin |-> 0]

-----------------------------------------------------------------------------
(* Suppliers and new orders.                                                *)

Open(o) == po[o] # None /\ po[o].status \notin {"CLOSED", "CANCELLED"}

ReadVendor(s, p) ==
    /\ Free(s)
    /\ p \in vendors
    /\ job' = [job EXCEPT ![s] = [Idle EXCEPT !.on = p, !.stage = "vendor"]]
    /\ UNCHANGED <<vendors, po, receipts, shipment, pool, stock, stale>>

Closing(p) == \E s \in Session : job[s].stage = "closing" /\ job[s].on = p

InsertOrder(s, o) ==
    /\ job[s].stage = "vendor"
    /\ po[o] = None
    /\ \E w \in Warehouse, K \in SUBSET Sku \ {{}} : \E q \in [K -> Quantities] :
          po' = [po EXCEPT ![o] =
            [status |-> "DRAFT", supplier |-> job[s].on, house |-> w,
             lines |-> [k \in Sku |->
               IF k \in K THEN [qty |-> q[k], got |-> 0, short |-> 0] ELSE None]]]
    /\ stale' = stale \cup (IF job[s].on \in vendors /\ ~Closing(job[s].on)
                           THEN {} ELSE {"vendor"})
    /\ Done(s)
    /\ UNCHANGED <<vendors, receipts, shipment, pool, stock>>

\* Faulty: drafts do not count.
CountStarted(p) == {o \in Order : Open(o) /\ po[o].supplier = p /\ po[o].status # "DRAFT"}

CountOpen(p) == {o \in Order : Open(o) /\ po[o].supplier = p}

ReadForDelete(s, p) ==
    /\ Free(s)
    /\ p \in vendors
    /\ CountOpen(p) = {}
    /\ job' = [job EXCEPT ![s] = [Idle EXCEPT !.on = p, !.stage = "closing"]]
    /\ UNCHANGED <<vendors, po, receipts, shipment, pool, stock, stale>>

DeleteSupplier(s) ==
    /\ job[s].stage = "closing"
    /\ vendors' = vendors \ {job[s].on}
    /\ Done(s)
    /\ UNCHANGED <<po, receipts, shipment, pool, stock, stale>>

-----------------------------------------------------------------------------
(* Requests on an order.                                                    *)

ReadOrder(s, o) ==
    /\ Free(s)
    /\ po[o] # None
    /\ job' = [job EXCEPT ![s] = [Idle EXCEPT !.on = o, !.stage = "order",
                                              !.status = po[o].status]]
    /\ UNCHANGED <<vendors, po, receipts, shipment, pool, stock, stale>>

ReadLines(s) ==
    /\ job[s].stage = "order"
    /\ job' = [job EXCEPT ![s].stage = "lines", ![s].lines = po[job[s].on].lines]
    /\ UNCHANGED <<vendors, po, receipts, shipment, pool, stock, stale>>

(***************************************************************************)
(* The flush and the commit.  "mine" are the lines as the request leaves   *)
(* them; the answer names the supplier, and none is found once deleted.    *)
(***************************************************************************)
SaveOrder(s, status, mine) ==
    LET o == job[s].on
        seen == job[s].lines
        now == po[o].lines
        Cell(k) == IF mine[k] = seen[k] THEN now[k]
                   ELSE IF seen[k] = None THEN mine[k]
                   ELSE Merged(seen[k], mine[k], now[k])
    IN  /\ job[s].stage = "lines"
        /\ po[o].supplier \in vendors
        /\ \A k \in Sku : seen[k] = None /\ mine[k] # None => now[k] = None
        /\ po' = [po EXCEPT ![o].status = Column(job[s].status, status, @),
                            ![o].lines = [k \in Sku |-> Cell(k)]]
        /\ stale' = stale \cup
             (IF po[o].status = job[s].status /\ now = seen THEN {} ELSE {"order"})
        /\ Done(s)

Transition(s, action) ==
    LET lines == job[s].lines
        K == Lined(lines)
        open == [k \in Sku |-> IF k \in K THEN OpenQty(lines[k]) ELSE 0]
        whole == [k \in Sku |-> IF k \in K THEN lines[k].qty ELSE 0]
        received == SumFunction([k \in K |-> lines[k].got])
        status == Moved(job[s].status, action, received)
        w == po[job[s].on].house
    IN  /\ job[s].stage = "lines"
        /\ action = "close" => \A k \in Sku : open[k] = 0
        /\ action = "submit" => K # {}
        /\ status # None
        /\ Post(Nowhere,
                CASE action = "approve" -> At(w, whole)
                  [] action = "cancel" /\ job[s].status = "APPROVED" ->
                       At(w, [k \in Sku |-> -open[k]])
                  [] OTHER -> Nowhere)
        /\ SaveOrder(s, status, lines)
        /\ UNCHANGED <<vendors, receipts, shipment, pool>>

\* Faulty: an edit of an approved order leaves what is in transit alone.
EditUnposted(status, old, new) == 0

\* transit_delta_for_qty_change; a new line has nothing in transit yet.
EditDelta(status, old, new) ==
    IF status \in {"DRAFT", "PENDING"} THEN 0
    ELSE OpenQty(new) - (IF old = None THEN 0 ELSE OpenQty(old))

\* update_order with lines; lines that the request does not name stay.
Edit(s) ==
    LET seen == job[s].lines
    IN  /\ job[s].stage = "lines"
        /\ job[s].status \in OpenForEdit
        /\ \E K \in SUBSET Sku \ {{}} : \E q \in [K -> Quantities] :
              LET New(k) == IF seen[k] = None THEN [qty |-> q[k], got |-> 0, short |-> 0]
                            ELSE [seen[k] EXCEPT !.qty = q[k]]
                  delta == [k \in Sku |-> IF k \in K
                              THEN EditDelta(job[s].status, seen[k], New(k)) ELSE 0]
              IN  /\ \A k \in K : q[k] >= New(k).got + New(k).short
                  /\ Post(Nowhere, At(po[job[s].on].house, delta))
                  /\ SaveOrder(s, job[s].status,
                               [k \in Sku |-> IF k \in K THEN New(k) ELSE seen[k]])
        /\ UNCHANGED <<vendors, receipts, shipment, pool>>

\* Faulty: the unique index on the key is not there.
KeyIgnored(key) == TRUE

\* Not in the table, neither when it is looked up nor when it is inserted.
KeyFree(key) == \A i \in DOMAIN receipts : receipts[i].key # key

(***************************************************************************)
(* receive: the status after it is judged on the lines as they are read    *)
(* once more, where the session's own copies hide what others have changed *)
(* since, but not the lines they have added.                               *)
(***************************************************************************)
Receive(s) ==
    LET seen == job[s].lines
        o == job[s].on
    IN  /\ job[s].stage = "lines"
        /\ job[s].status \in OpenForReceipt
        /\ Papers < MaxPapers
        /\ \E K \in SUBSET Lined(seen) \ {{}}, disposition \in {"RECEIVE", "SHORT"},
              allowOver \in BOOLEAN, key \in Key \cup {None} :
           \E q \in [K -> Quantities] :
              LET got == [k \in Sku |-> IF k \in K /\ disposition = "RECEIVE"
                                        THEN q[k] ELSE 0]
                  out == [k \in Sku |-> IF k \in K
                            THEN -Release(seen[k], q[k], disposition) ELSE 0]
                  mine == [k \in Sku |-> IF k \in K
                             THEN Taken(seen[k], q[k], disposition) ELSE seen[k]]
                  fresh == [k \in Sku |-> IF mine[k] = None THEN po[o].lines[k]
                                          ELSE mine[k]]
              IN  /\ key # None => KeyFree(key)
                  /\ \A k \in K : MayTake(seen[k], q[k], disposition, allowOver)
                  /\ Post(At(po[o].house, got), At(po[o].house, out))
                  /\ receipts' = Append(receipts, [order |-> o, key |-> key, got |-> got])
                  /\ SaveOrder(s, NextReceiptStatus(fresh), mine)
        /\ UNCHANGED <<vendors, shipment, pool>>

-----------------------------------------------------------------------------
(* First-mile shipments.                                                    *)

CreateShipment(h) ==
    /\ shipment[h] = None
    /\ Papers < MaxPapers
    /\ \E o \in {o \in Order : po[o] # None} \cup {None},
          route \in Routes, K \in SUBSET Sku \ {{}} :
       \E q \in [K -> Loads] :
          shipment' = [shipment EXCEPT ![h] =
            [status |-> "DRAFT", order |-> o, from |-> route[1], to |-> route[2],
             coin |-> route[3], qty |-> [k \in Sku |-> IF k \in K THEN q[k] ELSE 0], costed |-> 0]]
    /\ UNCHANGED <<vendors, po, receipts, pool, stock, job, stale>>

ReadShipment(s, h) ==
    /\ Free(s)
    /\ shipment[h] # None
    /\ shipment[h].status = "DRAFT"
    /\ job' = [job EXCEPT ![s] = [Idle EXCEPT !.on = h, !.stage = "draft"]]
    /\ UNCHANGED <<vendors, po, receipts, shipment, pool, stock, stale>>

\* Shipments that take pieces from the same row of the ledger wait for each other.
RowTaken(s) ==
    \E u \in Session \ {s} :
       /\ job[u].stage = "pool"
       /\ LET mine == shipment[job[s].on]
              other == shipment[job[u].on]
          IN  /\ ShouldMove(mine) /\ ShouldMove(other)
              /\ {mine.from, mine.to} \cap {other.from, other.to} # {}
              /\ \E k \in Sku : mine.qty[k] > 0 /\ other.qty[k] > 0

LatestPool(k) == IF pool[k] = <<>> THEN None ELSE pool[k][Len(pool[k])]

\* The pieces are moved (and committed below), then the latest pools are read.
ReadPool(s) ==
    /\ job[s].stage = "draft"
    /\ ~RowTaken(s)
    /\ job' = [job EXCEPT ![s].stage = "pool",
                          ![s].pool = [k \in Sku |-> LatestPool(k)]]
    /\ UNCHANGED <<vendors, po, receipts, shipment, pool, stock, stale>>

\* Faulty: no unique index keeps a second set of allocations of a shipment out.
CostedAgain(h) == TRUE

\* uq_first_mile_cost_allocation_sku.
NotCosted(h) == shipment[h].costed = 0

\* Faulty: a pool in another currency is averaged with.
WeighedInAny(previous, coin) == IF previous = None THEN 0 ELSE previous.qty

\* The pieces of the previous pool that the new one weighs: none in another currency.
Weighed(previous, coin) ==
    IF previous # None /\ previous.coin = coin THEN previous.qty ELSE 0

PostShipment(s) ==
    LET h == job[s].on
        doc == shipment[h]
        back == At(doc.from, [k \in Sku |-> -doc.qty[k]])
        New(k) == [of |-> h, coin |-> doc.coin,
                   qty |-> Weighed(job[s].pool[k], doc.coin) + doc.qty[k]]
        K == {k \in Sku : doc.qty[k] > 0}
    IN  /\ job[s].stage = "pool"
        /\ NotCosted(h)
        /\ IF ShouldMove(doc) THEN Post(back, At(doc.to, doc.qty)) ELSE UNCHANGED stock
        /\ shipment' = [shipment EXCEPT ![h].status = "POSTED", ![h].costed = @ + 1]
        /\ pool' = [k \in Sku |-> IF k \in K THEN Append(pool[k], New(k)) ELSE pool[k]]
        /\ stale' = stale \cup
             (IF \E k \in K : LatestPool(k) # job[s].pool[k] THEN {"pool"} ELSE {})
        /\ Done(s)
        /\ UNCHANGED <<vendors, po, receipts>>

-----------------------------------------------------------------------------
\* Refused, crashed, or rolled back by the ledger or by a unique index.
Drop(s) ==
    /\ ~Free(s)
    /\ Done(s)
    /\ UNCHANGED <<vendors, po, receipts, shipment, pool, stock, stale>>

Next ==
    \/ \E h \in Shipment : CreateShipment(h)
    \/ \E s \in Session :
          \/ \E p \in Supplier : ReadVendor(s, p) \/ ReadForDelete(s, p)
          \/ \E o \in Order : InsertOrder(s, o) \/ ReadOrder(s, o)
          \/ \E h \in Shipment : ReadShipment(s, h)
          \/ DeleteSupplier(s) \/ ReadLines(s) \/ Edit(s) \/ Receive(s)
          \/ \E action \in Actions : Transition(s, action)
          \/ ReadPool(s) \/ PostShipment(s) \/ Drop(s)

Spec == Init /\ [][Next]_vars

-----------------------------------------------------------------------------
\* What an order still expects of a SKU at a warehouse.
StillDue(doc, k, w) ==
    IF /\ doc # None /\ doc.house = w
       /\ doc.status \in OpenForReceipt
       /\ doc.lines[k] # None
    THEN OpenQty(doc.lines[k]) ELSE 0

Expected(k, w) == SumFunction([o \in Order |-> StillDue(po[o], k, w)])

Carried(k, H) ==
    SumFunction([h \in Shipment |-> IF h \in H THEN shipment[h].qty[k] ELSE 0])

Shipped == {h \in Shipment : shipment[h] # None /\ shipment[h].status = "POSTED"}

Movers == {h \in Shipped : ShouldMove(shipment[h])}

MoversTo(w) == {h \in Movers : shipment[h].to = w}

MoversFrom(w) == {h \in Movers : shipment[h].from = w}

Came(k, w) ==
    SumFunction([i \in DOMAIN receipts |->
                   IF po[receipts[i].order].house = w THEN receipts[i].got[k] ELSE 0])

(***************************************************************************)
(* What is in transit to a warehouse is what approved orders still expect  *)
(* there and what posted shipments carry there, through every approval,    *)
(* edit, receipt, short receipt, over-receipt and cancellation, unless two *)
(* requests on one order overlapped (transition, _apply_line_edits,        *)
(* receive).                                                               *)
(***************************************************************************)
OpenQuantitiesInTransit ==
    "order" \notin stale =>
        \A k \in Sku, w \in Warehouse :
            transit[<<k, w>>] = Expected(k, w) + Carried(k, MoversTo(w))

(***************************************************************************)
(* However requests overlap, retry or fail, the stock of a warehouse is    *)
(* what its receipts say has come minus what posted shipments took away,   *)
(* every key counts once, and every shipment is posted once (receive,      *)
(* post_shipment and their unique indexes).                                *)
(***************************************************************************)
ReceiptsExplainStock ==
    /\ \A k \in Sku, w \in Warehouse :
          avail[<<k, w>>] = Came(k, w) - Carried(k, MoversFrom(w))
    /\ \A i, j \in DOMAIN receipts :
          receipts[i].key = receipts[j].key /\ receipts[i].key # None => i = j

\* The shipments since the currency of the pools of a SKU has last changed.
Recent(k) ==
    LET n == Len(pool[k])
    IN  {pool[k][i].of : i \in {i \in 1..n : \A j \in i..n : pool[k][j].coin = pool[k][n].coin}}

(***************************************************************************)
(* Every posted shipment has left one cost pool of each SKU it brought,    *)
(* and the latest pool weighs all the pieces that shipments have brought   *)
(* since the currency of the pools has last changed, unless two shipments  *)
(* without a common row of stock overlapped (_write_pool).                 *)
(***************************************************************************)
PoolsWeighEverything ==
    \A k \in Sku :
        /\ \A h \in Shipment :
              h \in Shipped /\ shipment[h].qty[k] > 0 <=>
                 \E i \in DOMAIN pool[k] : pool[k][i].of = h
        /\ \A i, j \in DOMAIN pool[k] : pool[k][i].of = pool[k][j].of => i = j
        /\ "pool" \notin stale /\ pool[k] # <<>> =>
              LatestPool(k).qty = Carried(k, Recent(k))

(***************************************************************************)
(* An order that is not closed can still be shown and moved on: its        *)
(* supplier is there, unless it was deleted while the order was being made *)
(* or while a late request brought the order back from the dead            *)
(* (delete_supplier, _insert_order, _order_view).                          *)
(***************************************************************************)
OpenOrdersHaveSuppliers ==
    stale \cap {"order", "vendor"} = {} =>
        \A o \in Order : Open(o) => po[o].supplier \in vendors

=============================================================================
