----------------------------- MODULE OrderQueue -----------------------------
(***************************************************************************)
(* The lists of orders (services/order_query.py, repositories/             *)
(* order_read.py): the queue of what is to be shipped, the orders with     *)
(* something wrong, and how a reader walks a list page by page.            *)
(*                                                                         *)
(* A page is one query.  Between two pages the clock ticks and orders come *)
(* and go; the cursor holds the sort key of the last order of the page.    *)
(***************************************************************************)
EXTENDS Integers, SequencesExt

CONSTANTS Orders,      \* ids are 1..Orders, and grow
          Sla, Warn,   \* order_ship_sla_hours, order_ship_warn_hours
          Page,        \* orders on a page
          LastTime,    \* bound on the clock
          MaxChanges,  \* bound on what happens to the orders during a walk
          None

VARIABLES
    now,
    order,     \* per id, the order, or None before it is written
    walk,      \* what a reader of a list has been shown
    steady,    \* orders that were in the list since its first page, at the same place
    changes,   \* what happened to the orders since
    repaid     \* orders whose time of payment was corrected during the walk

vars == <<now, order, walk, steady, changes, repaid>>

Id == 1..Orders

Time == 0..LastTime

Review == {"AUTO_PASSED", "PENDING", "APPROVED", "REJECTED"}

OrderRow == [status: {"PENDING", "PAID", "SHIPPED"}, review: Review, created: Time, paid: Time]

List == {"to_ship", "newest", "by_id"}

Stage == {"first", "next", "over"}

TypeOK ==
    /\ now \in Time
    /\ \A o \in Id : order[o] # None => order[o] \in OrderRow
    /\ walk.list \in List /\ walk.stage \in Stage
    /\ \A i \in DOMAIN walk.shown : walk.shown[i] \in Id
    /\ steady \subseteq Id /\ repaid \subseteq Id /\ changes \in 0..MaxChanges

\* A list of orders, with ids that grow with time.
Init ==
    /\ now = 1
    /\ \E written \in 0..Orders :
          /\ order \in [Id -> [status : {"PAID"}, review : {"AUTO_PASSED", "PENDING"},
                               created : {0, 1}, paid : {0, 1}] \cup {None}]
          /\ \A o \in Id : order[o] = None <=> o > written
          /\ \A o \in 2..written : order[o - 1].created <= order[o].created
    /\ \E list \in List : walk = [list |-> list, stage |-> "first", after |-> <<0, 0, 0>>,
                                   shown |-> <<>>]
    /\ steady = {}
    /\ changes = 0
    /\ repaid = {}

-----------------------------------------------------------------------------
(* What the engine says of an order (engines/order_desk.py).                *)

\* ship_window: the clock runs for a paid order only.
Window(o, t, sla, warn) ==
    IF o.status # "PAID" \/ o.paid = None THEN None
    ELSE IF t >= o.paid + sla THEN "SHIP_OVERDUE"
    ELSE IF t >= o.paid + sla - Max({warn, 0}) THEN "SHIP_DUE_SOON" ELSE None

\* address_invalid: a country, and a city or a line, for an address without blanks.
AddressInvalid(address) == "country" \notin address \/ address \cap {"line1", "city"} = {}

\* classify_exceptions.
Flags(o, t, sla, warn) ==
    (IF o.matched THEN {} ELSE {"SKU_UNMATCHED"})
        \cup (IF AddressInvalid(o.address) THEN {"ADDRESS_INVALID"} ELSE {})
        \cup ({Window(o, t, sla, warn)} \ {None})
        \cup (IF o.review = "PENDING" THEN {"REVIEW_PENDING"} ELSE {})

(* What the database is asked (repositories/order_read.py).                 *)

OverdueBefore(t, sla) == t - sla

SoonBefore(t, sla, warn) == t - Max({sla - warn, 0})

\* _ship_rank.
ShipRank(o, t, sla, warn) ==
    IF o.paid # None /\ o.paid <= OverdueBefore(t, sla) THEN 0
    ELSE IF o.paid # None /\ o.paid <= SoonBefore(t, sla, warn) THEN 1 ELSE 2

\* _exception_clause.
Asked(kind, o, t, sla, warn) ==
    LET open == o.status = "PAID" /\ o.paid # None IN
    \/ kind \in {None, "SKU_UNMATCHED"} /\ ~o.matched
    \/ /\ kind \in {None, "ADDRESS_INVALID"}
       /\ \/ o.address = {} \/ "country" \notin o.address
          \/ "line1" \notin o.address /\ "city" \notin o.address
    \/ kind = "SHIP_OVERDUE" /\ open /\ o.paid <= OverdueBefore(t, sla)
    \/ /\ kind = "SHIP_DUE_SOON" /\ open
       /\ o.paid <= SoonBefore(t, sla, warn) /\ o.paid > OverdueBefore(t, sla)
    \/ kind = None /\ open /\ o.paid <= SoonBefore(t, sla, warn)
    \/ kind \in {None, "REVIEW_PENDING"} /\ o.review = "PENDING"

\* The rank that write_deadline_cursor derives from the window.
CursorRank(o, t, sla, warn) ==
    CASE Window(o, t, sla, warn) = "SHIP_OVERDUE" -> 0
      [] Window(o, t, sla, warn) = "SHIP_DUE_SOON" -> 1
      [] OTHER -> 2

-----------------------------------------------------------------------------
(* Walking a list.                                                          *)

Written == {o \in Id : order[o] # None}

\* The filter of the queue: paid, and past its review.
ToShip == {o \in Written : order[o].status = "PAID"
                           /\ order[o].review \in {"AUTO_PASSED", "APPROVED"}}

Members(list) == IF list = "to_ship" THEN ToShip ELSE Written

\* Sort keys, the smaller one first.
ShipKey(o, rank) == <<rank, order[o].paid, -o>>

NewestKey(o) == <<-order[o].created, -o, 0>>

IdKey(o) == <<-o, 0, 0>>

Key(list, o) ==
    CASE list = "to_ship" -> ShipKey(o, ShipRank(order[o], now, Sla, Warn))
      [] list = "newest" -> NewestKey(o)
      [] list = "by_id" -> IdKey(o)

Precedes(a, b) ==
    \/ a[1] < b[1]
    \/ a[1] = b[1] /\ a[2] < b[2]
    \/ a[1] = b[1] /\ a[2] = b[2] /\ a[3] < b[3]

\* The cursor of a page, of the last order on it.
Cursor(list, o) ==
    IF list = "to_ship" THEN ShipKey(o, CursorRank(order[o], now, Sla, Warn))
    ELSE Key(list, o)

\* Faulty: orders paid at the same time as the last one are left out.
WithoutTies(list, after) ==
    {o \in Members(list) : \/ Key(list, o)[1] > after[1]
                           \/ Key(list, o)[1] = after[1] /\ Key(list, o)[2] > after[2]}

\* _deadline_page, and the condition on created_at and id.
After(list, after) ==
    {o \in Members(list) : Precedes(after, Key(list, o))}

Least(a, b) == IF a <= b THEN a ELSE b

\* list_orders: one more than a page tells whether there is another one.
Show ==
    LET list == walk.list
        first == walk.stage = "first"
        found == IF first THEN Members(list) ELSE After(list, walk.after)
        hits == SetToSortSeq(found, LAMBDA o, p : Precedes(Key(list, o), Key(list, p)))
        page == SubSeq(hits, 1, Least(Page, Len(hits)))
        more == Len(hits) > Page
    IN  /\ walk.stage # "over"
        /\ walk' = [list |-> list, stage |-> IF more THEN "next" ELSE "over",
                    after |-> IF more THEN Cursor(list, page[Page]) ELSE walk.after,
                    shown |-> walk.shown \o page]
        /\ steady' = IF first THEN Members(list) ELSE steady
        /\ repaid' = IF first THEN {} ELSE repaid
        /\ UNCHANGED <<now, order, changes>>

\* Orders that are still in the list, where they were.
Keep ==
    /\ UNCHANGED walk
    /\ steady' = {o \in steady : o \in Members(walk.list)'
                                 /\ Key(walk.list, o)' = Key(walk.list, o)}

Tick ==
    /\ now < LastTime /\ now' = now + 1
    /\ UNCHANGED <<order, changes, repaid>>
    /\ Keep

\* Something happens to one order while the reader has the list open.
Change(o, row) ==
    /\ walk.stage # "over" /\ changes < MaxChanges /\ changes' = changes + 1
    /\ order' = [order EXCEPT ![o] = row]
    /\ UNCHANGED now
    /\ Keep

\* A sync writes an order; created_at is the start of its transaction.
Insert(o) ==
    /\ order[o] = None /\ \A p \in 1..(o - 1) : order[p] # None
    /\ \E created \in {now, now - 1}, paid \in 0..now :
          Change(o, [status |-> "PAID", review |-> "AUTO_PASSED", created |-> created,
                     paid |-> paid])
    /\ UNCHANGED repaid

\* A later version of the order brings another time of payment.
Correct(o) ==
    /\ o \in Written
    /\ \E paid \in 0..now : Change(o, [order[o] EXCEPT !.paid = paid])
    /\ repaid' = repaid \cup {o}

Approve(o) ==
    /\ o \in Written /\ order[o].review = "PENDING"
    /\ Change(o, [order[o] EXCEPT !.review = "APPROVED"])
    /\ UNCHANGED repaid

Ship(o) ==
    /\ o \in ToShip
    /\ Change(o, [order[o] EXCEPT !.status = "SHIPPED"])
    /\ UNCHANGED repaid

Next ==
    \/ Show \/ Tick
    \/ \E o \in Id : Insert(o) \/ Correct(o) \/ Approve(o) \/ Ship(o)

Spec == Init /\ [][Next]_vars

-----------------------------------------------------------------------------
(* The database lists exactly the orders that the engine flags, kind by     *)
(* kind and all together, and ranks the open ones as the engine does: an    *)
(* order that the list shows without a flag, or the other way round, and a  *)
(* cursor whose rank is not that of the query would go unnoticed            *)
(* (_exception_clause, _ship_rank, classify_exceptions, ship_window).       *)
SameAnswer(o, t, sla, warn) ==
    LET flags == Flags(o, t, sla, warn) IN
    /\ \A kind \in {"SKU_UNMATCHED", "ADDRESS_INVALID", "SHIP_OVERDUE", "SHIP_DUE_SOON",
                    "REVIEW_PENDING"} : Asked(kind, o, t, sla, warn) <=> kind \in flags
    /\ Asked(None, o, t, sla, warn) <=> flags # {}
    /\ o.status = "PAID" => ShipRank(o, t, sla, warn) = CursorRank(o, t, sla, warn)

(* An order is on one page only, unless its time of payment was corrected   *)
(* during the walk (core/pagination.py: cursors withstand insertions).      *)
ShownOnce ==
    \A i, j \in DOMAIN walk.shown :
        i # j /\ walk.shown[i] = walk.shown[j] => walk.shown[i] \in repaid

(* Who walks a list to its end was shown every order that was in the list   *)
(* all the time and did not become more urgent meanwhile.                   *)
NothingMissed ==
    walk.stage = "over" => \A o \in steady : \E i \in DOMAIN walk.shown : walk.shown[i] = o

QueueHolds == ShownOnce /\ NothingMissed
=============================================================================
