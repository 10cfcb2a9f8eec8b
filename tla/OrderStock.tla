----------------------------- MODULE OrderStock -----------------------------
(***************************************************************************)
(* What one order of one line takes from the stock and gives back:         *)
(* shipments that people confirm (commit_success, ship_order, _draw),      *)
(* pulls that replace the line (_replace_items), and a return that is      *)
(* refunded (transition_return, receive_return), while other orders and    *)
(* adjustments change the same balances.                                   *)
(*                                                                         *)
(* Who writes to the order holds the lock of its header until the end of   *)
(* the transaction, so only one does at a time; what it decides upon was   *)
(* read before.  No code matches the line of a pull to a SKU, which is     *)
(* done elsewhere, later (Match); the stock operations of a pull itself    *)
(* therefore find nothing to do, and no hold is ever OPEN.                 *)
(***************************************************************************)
EXTENDS StockRules, OrderStatus

CONSTANTS Worker,
          Places,    \* the bins of the warehouses at the beginning, with nothing reserved
          Ordered,   \* quantity of the line
          Targets,   \* statuses a pull may bring
          Passes,    \* _VERSION_RETRIES
          MaxLine,   \* bound on the lines, one after the other
          MaxStock,  \* bound on a balance
          MaxOther   \* bound on the changes by others

Warehouse == DOMAIN Places

Default == CHOOSE h \in Warehouse : Places[h].default

Line == 1..MaxLine

VARIABLES
    order,   \* its status, its line, and whether that is matched to a SKU
    holds,   \* per line, what was taken for it, None when there is no hold
    stock,   \* per warehouse, the newest version of the balance
    rest,    \* per warehouse, what there is without this order's shipments and returns
    back,    \* per warehouse, what the return has brought
    return,  \* the return order
    job,     \* per worker, what it has read
    tx,      \* the shipment that is drawing from the stock, or None
    others   \* changes made by others

vars == <<order, holds, stock, rest, back, return, job, tx, others>>

Nothing == [h \in Warehouse |-> 0]

Idle == [doing |-> "nothing", status |-> None]

InTx == [worker: Worker, line: Line, left: 0..Ordered, taken: [Warehouse -> 0..Ordered],
         seen: [Warehouse -> Int], fresh: SUBSET Warehouse,
         plan: [Warehouse -> 0..Ordered], passes: 0..Passes]

TypeOK ==
    /\ order \in [status: Status, line: Line, matched: BOOLEAN]
    /\ holds \in [Line -> [Warehouse -> 0..Ordered] \cup {None}]
    /\ stock \in [Warehouse -> Nat] /\ back \in [Warehouse -> Nat]
    /\ return \in {"NONE", "REQUESTED", "APPROVED", "REFUNDED"}
    /\ job \in [Worker -> [doing: {"nothing", "ship", "approve", "refund"},
                           status: Status \cup {None}]]
    /\ tx = None \/ tx \in InTx

Init ==
    /\ order = [status |-> "PAID", line |-> 1, matched |-> TRUE]
    /\ holds = [l \in Line |-> None]
    /\ stock = [h \in Warehouse |-> Places[h].avail]
    /\ rest = stock
    /\ back = Nothing
    /\ return = "NONE"
    /\ job = [w \in Worker |-> Idle]
    /\ tx = None
    /\ others = 0

-----------------------------------------------------------------------------
\* The rows that a shipment has loaded lose their version when another commits.
Outdated(h) == IF tx = None THEN tx ELSE [tx EXCEPT !.fresh = @ \ {h}]

\* Another order, an adjustment, a transfer; the row is free.
Other(h, amount) ==
    /\ others < MaxOther
    /\ tx # None => tx.taken[h] = 0
    /\ stock[h] + amount \in 0..MaxStock
    /\ stock' = [stock EXCEPT ![h] = @ + amount]
    /\ rest' = [rest EXCEPT ![h] = @ + amount]
    /\ tx' = Outdated(h)
    /\ others' = others + 1
    /\ UNCHANGED <<order, holds, back, return, job>>

\* SKU matching: external.
Match ==
    /\ tx = None /\ ~order.matched
    /\ order' = [order EXCEPT !.matched = TRUE]
    /\ UNCHANGED <<holds, stock, rest, back, return, job, tx, others>>

\* upsert, with a newer payload: the line is deleted and inserted again.
Pull(target) ==
    /\ tx = None /\ order.line < MaxLine
    /\ order' = [status |-> Decide(order.status, target), line |-> order.line + 1,
                 matched |-> FALSE]
    /\ UNCHANGED <<holds, stock, rest, back, return, job, tx, others>>

-----------------------------------------------------------------------------
Reads(w, doing) ==
    /\ job[w] = Idle
    /\ job' = [job EXCEPT ![w] = [doing |-> doing, status |-> order.status]]
    /\ UNCHANGED <<order, holds, stock, rest, back, return, tx, others>>

\* refuse_ship.
LoadForShip(w) == "SHIPPED" \in Manual(order.status) /\ Reads(w, "ship")

ShipDone(w, line, taken) ==
    /\ order' = [order EXCEPT !.status = "SHIPPED"]
    /\ holds' = [holds EXCEPT ![line] = taken]
    /\ job' = [job EXCEPT ![w] = Idle]
    /\ tx' = None
    /\ UNCHANGED <<stock, rest, back, return, others>>

\* ship_order: a line that is not matched, or shipped already, is passed over.
Ship(w) ==
    /\ tx = None /\ job[w].doing = "ship"
    /\ IF order.matched /\ holds[order.line] = None
       THEN /\ tx' = [worker |-> w, line |-> order.line, left |-> Ordered,
                      taken |-> Nothing, seen |-> stock, fresh |-> Warehouse,
                      plan |-> Nothing, passes |-> 0]
            /\ UNCHANGED <<order, holds, stock, rest, back, return, job, others>>
       ELSE ShipDone(w, order.line, holds[order.line])

SeenBins == [h \in Warehouse |-> [Places[h] EXCEPT !.avail = tx.seen[h]]]

Plan == PlanAllocations(SeenBins, tx.left)

\* _draw: one more pass, planned with the copies in hand.
Draw ==
    /\ tx # None /\ tx.plan = Nothing /\ tx.left > 0
    /\ tx.passes < Passes /\ Plan # Nothing
    /\ tx' = [tx EXCEPT !.plan = Plan, !.passes = @ + 1]
    /\ UNCHANGED <<order, holds, stock, rest, back, return, job, others>>

\* Faulty: what earlier passes took is forgotten.
TakenAgain(h, q) == [Nothing EXCEPT ![h] = q]

TakenToo(h, q) == [tx.taken EXCEPT ![h] = @ + q]

\* What is still to be drawn from in this pass.
Ahead == {h \in Warehouse : tx.plan[h] > 0}

(***************************************************************************)
(* _apply_once on the next bin.  A pass without a conflict is the last     *)
(* one; after a conflict the bin is read again and the rest of the pass is *)
(* planned anew.                                                           *)
(***************************************************************************)
Take ==
    /\ tx # None
    /\ \E h \in Ahead :
          /\ \A g \in Ahead \ {h} : Precedes(SeenBins, h, g)
          /\ LET q == tx.plan[h]
             IN  IF h \in tx.fresh
                 THEN /\ stock' = [stock EXCEPT ![h] = @ - q]
                      /\ tx' = [tx EXCEPT !.taken = TakenToo(h, q), !.left = @ - q,
                                  !.seen[h] = stock'[h], !.plan[h] = 0,
                                  !.passes = IF Ahead = {h} THEN Passes ELSE @]
                 ELSE /\ tx' = [tx EXCEPT !.fresh = @ \cup {h}, !.seen[h] = stock[h],
                                          !.plan = Nothing]
                      /\ UNCHANGED stock
    /\ UNCHANGED <<order, holds, rest, back, return, job, others>>

\* What could not be had is noted as short.
EndShip ==
    /\ tx # None /\ tx.plan = Nothing
    /\ tx.left = 0 \/ tx.passes = Passes \/ Plan = Nothing
    /\ ShipDone(tx.worker, tx.line, tx.taken)

-----------------------------------------------------------------------------
CreateReturn ==
    /\ return = "NONE"
    /\ return' = "REQUESTED"
    /\ UNCHANGED <<order, holds, stock, rest, back, job, tx, others>>

\* transition_return reads the return and the order.
LoadReturn(w) ==
    \/ return = "REQUESTED" /\ Reads(w, "approve")
    \/ return = "APPROVED" /\ Reads(w, "refund")

Move(w, target) ==
    /\ tx = None
    /\ target \in Manual(job[w].status)
    /\ order' = [order EXCEPT !.status = target]
    /\ job' = [job EXCEPT ![w] = Idle]

Approve(w) ==
    /\ job[w].doing = "approve"
    /\ Move(w, "REFUNDING")
    /\ return' = "APPROVED"
    /\ UNCHANGED <<holds, stock, rest, back, tx, others>>

\* _return_targets: where the line came from, else all of it to the default.
ReturnTargets ==
    LET hold == holds[order.line]
    IN  IF hold # None /\ hold # Nothing THEN hold ELSE [Nothing EXCEPT ![Default] = Ordered]

\* Sellable goods; a line that is not matched is passed over.
Refund(w) ==
    /\ job[w].doing = "refund"
    /\ Move(w, "REFUNDED")
    /\ return' = "REFUNDED"
    /\ LET came == IF order.matched THEN ReturnTargets ELSE Nothing
       IN  /\ stock' = [h \in Warehouse |-> stock[h] + came[h]]
           /\ back' = [h \in Warehouse |-> back[h] + came[h]]
    /\ UNCHANGED <<holds, rest, tx, others>>

\* Refused, failed or dead: the transaction is rolled back.
Abort(w) ==
    /\ job[w] # Idle
    /\ job' = [job EXCEPT ![w] = Idle]
    /\ IF tx # None /\ tx.worker = w
       THEN stock' = [h \in Warehouse |-> stock[h] + tx.taken[h]] /\ tx' = None
       ELSE UNCHANGED <<stock, tx>>
    /\ UNCHANGED <<order, holds, rest, back, return, others>>

Next ==
    \/ \E h \in Warehouse, amount \in {-1, 1} : Other(h, amount)
    \/ Match
    \/ \E target \in Targets : Pull(target)
    \/ \E w \in Worker :
          \/ LoadForShip(w) \/ Ship(w) \/ LoadReturn(w)
          \/ Approve(w) \/ Refund(w) \/ Abort(w)
    \/ Draw \/ Take \/ EndShip \/ CreateReturn

Spec == Init /\ [][Next]_vars

-----------------------------------------------------------------------------
Shipped(h) == SumFunction([l \in Line |-> IF holds[l] = None THEN 0 ELSE holds[l][h]])

(***************************************************************************)
(* The holds tell exactly what the order has taken from each warehouse, in *)
(* however many passes it was drawn and whatever other requests did in     *)
(* between, and never more than was ordered (_draw, ship_order).           *)
(***************************************************************************)
HoldsExplainStock ==
    /\ \A h \in Warehouse :
          stock[h] = rest[h] + back[h] - Shipped(h) - (IF tx = None THEN 0 ELSE tx.taken[h])
    /\ \A l \in Line : holds[l] # None => SumFunction(holds[l]) <= Ordered

(***************************************************************************)
(* A refunded return puts the stock right again (PRD, "退货入库后库存正确恢复"): *)
(* the goods come back once, whoever presses the button at the same time   *)
(* (transition_return).                                                    *)
(***************************************************************************)
ReturnedOnce == SumFunction(back) <= Ordered
=============================================================================
