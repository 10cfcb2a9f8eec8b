--------------------------- MODULE StockDocuments ---------------------------
(***************************************************************************)
(* Transfers, stock takings and the deletion of warehouses: the documents  *)
(* of backend/app/services/inventory.py, over the stock book that the      *)
(* ledger implements (StockLedger!ImplementsBook).                         *)
(*                                                                         *)
(* A request on a document reads its status without a lock, moves the      *)
(* status with a conditional UPDATE that locks the document's row, posts   *)
(* its legs to the book, builds the answer, and commits all of it at once. *)
(* Requests that only insert a draft are one step: nobody sees the draft   *)
(* before their commit.                                                    *)
(***************************************************************************)
EXTENDS StockRules, FiniteSetsExt, SequencesExt

CONSTANTS Session, Warehouse, Sku, Transfer, Taking,
          Stock,        \* the amounts the warehouses start with
          Quantities,   \* of a transfer line
          Counts,       \* what a count of a bin may find
          Adjustments,  \* pairs of a kind and a quantity, for direct adjustments
          MaxStock,     \* bound: no adjustment starts in a bin that has more
          Deletable,    \* the warehouses that somebody may delete
          None          \* not created, or not counted yet

Bin == Sku \X Warehouse

VARIABLES
    book, cart, plan, pos,  \* the stock book
    slip,       \* committed transfers
    sheet,      \* committed stock takings
    gone,       \* committed deletions of warehouses
    adjusted,   \* net of the flow rows of direct adjustments
    job         \* per session, the request in progress

stock == <<book, cart, plan, pos>>
docs == <<slip, sheet, gone, adjusted>>
vars == <<stock, docs, job>>

Book == INSTANCE StockBook WITH Programs <- {}, given <- [s \in Session |-> 0]

\* Both kinds of documents are finitely many, and none is of both kinds.
ASSUME DocumentsAssumption ==
    /\ IsFiniteSet(Sku) /\ IsFiniteSet(Transfer) /\ IsFiniteSet(Taking)
    /\ Transfer \cap Taking = {}

\* Transfers move pieces and counts find some; what there is at the start is legal.
ASSUME AmountsAssumption ==
    /\ Quantities \subseteq Nat /\ Counts \subseteq Nat /\ Adjustments \subseteq AdjustKind \X Int
    /\ Stock \in [Bin -> Book!Amount] /\ \A b \in Bin : Book!InBounds(Stock[b])

-----------------------------------------------------------------------------
Slip == [status: {"DRAFT", "IN_TRANSIT", "RECEIVED", "CANCELLED"},
         from: Warehouse, to: Warehouse, qty: [Sku -> Nat]]

\* "posted" are the flow rows that name the taking.
Sheet == [status: {"DRAFT", "POSTED", "CANCELLED"}, house: Warehouse,
          frozen: [Sku -> Nat \cup {None}], counted: [Sku -> Nat \cup {None}],
          posted: [Sku -> Int]]

TransferOps == {"ship", "receive", "cancel"}
TakingOps == {"post", "void"}

Job == [op: TransferOps \cup TakingOps \cup {"none", "count", "adjust", "delete"},
        on: Transfer \cup Taking \cup Warehouse \cup Bin \cup {None},
        stage: {"idle", "read", "claimed", "viewed"},
        was: {"DRAFT", "IN_TRANSIT", "none"},
        delta: [Sku -> Int]]

NoDelta == [k \in Sku |-> 0]

ASSUME AbsentAssumption == None \notin Nat \cup Slip \cup Sheet

Idle == [op |-> "none", on |-> None, stage |-> "idle", was |-> "none",
         delta |-> NoDelta]

TypeOK ==
    /\ book \in [Bin -> Book!Amount]
    /\ slip \in [Transfer -> Slip \cup {None}]
    /\ sheet \in [Taking -> Sheet \cup {None}]
    /\ gone \subseteq Warehouse
    /\ adjusted \in [Bin -> Int]
    /\ job \in [Session -> Job]

Init ==
    /\ Book!BookInit
    /\ slip = [t \in Transfer |-> None]
    /\ sheet = [g \in Taking |-> None]
    /\ gone = {}
    /\ adjusted = [b \in Bin |-> 0]
    /\ job = [s \in Session |-> Idle]

Live(w) == w \notin gone

Free(s) == job[s].stage = "idle"

\* The document is read with the status that the request asks for.
Read(s, op, doc, status, delta) ==
    /\ Free(s)
    /\ job' = [job EXCEPT ![s] = [op |-> op, on |-> doc, stage |-> "read",
                                  was |-> status, delta |-> delta]]
    /\ UNCHANGED <<stock, docs>>

-----------------------------------------------------------------------------
(* Transfers.                                                               *)

CreateTransfer(s, t) ==
    /\ Free(s)
    /\ slip[t] = None
    /\ \E from, to \in Warehouse, qty \in [Sku -> Quantities \cup {0}] :
          /\ from # to /\ Live(from) /\ Live(to)
          /\ \E k \in Sku : qty[k] > 0
          /\ slip' = [slip EXCEPT ![t] = [status |-> "DRAFT", from |-> from,
                                          to |-> to, qty |-> qty]]
    /\ UNCHANGED <<stock, sheet, gone, adjusted, job>>

ReadTransfer(s, op, t) ==
    /\ slip[t] # None
    /\ slip[t].status \in CASE op = "ship"    -> {"DRAFT"}
                            [] op = "receive" -> {"IN_TRANSIT"}
                            [] op = "cancel"  -> {"DRAFT", "IN_TRANSIT"}
    /\ Read(s, op, t, slip[t].status, NoDelta)

\* One line after the other; "legs" gives the legs of each SKU's line.
Lines(legs) == FlattenSeq([i \in 1..Cardinality(Sku) |-> legs[SetToSeq(Sku)[i]]])

TransferLegs(op, was, doc) ==
    LET Line(k) ==
          LET q == doc.qty[k]
              from == <<k, doc.from>>
              to == <<k, doc.to>>
          IN  IF q = 0 \/ (was = "DRAFT" /\ op = "cancel") THEN <<>>
              ELSE CASE op = "ship"    -> ShipLine(from, to, q)
                     [] op = "receive" -> ReceiveLine(to, q)
                     [] op = "cancel"  -> CancelLine(from, to, q)
    IN  Lines([k \in Sku |-> Line(k)])

-----------------------------------------------------------------------------
(* Stock takings.                                                           *)

\* The lines are the rows that exist; a row may exist and be all zero.
CreateTaking(s, g) ==
    /\ Free(s)
    /\ sheet[g] = None
    /\ \E w \in Warehouse, rows \in SUBSET Sku \ {{}} :
          /\ Live(w)
          /\ \A k \in Sku : book[<<k, w>>] # Book!Zero => k \in rows
          /\ sheet' = [sheet EXCEPT ![g] =
               [status |-> "DRAFT", house |-> w,
                frozen |-> [k \in Sku |-> IF k \in rows THEN book[<<k, w>>].avail
                                                        ELSE None],
                counted |-> [k \in Sku |-> None],
                posted |-> NoDelta]]
    /\ UNCHANGED <<stock, slip, gone, adjusted, job>>

Counted(doc) == {k \in Sku : doc.frozen[k] # None}

ReadForCount(s, g) ==
    /\ sheet[g] # None
    /\ sheet[g].status = "DRAFT"
    /\ Read(s, "count", g, "DRAFT", NoDelta)

(***************************************************************************)
(* record_counts writes the lines without looking at the status again.     *)
(* (Its UPDATE of the taking's own row, which would wait for a poster, is  *)
(* sent only if the row was last written by another user.)                 *)
(***************************************************************************)
SaveCounts(s) ==
    LET g == job[s].on
        doc == sheet[g]
    IN  /\ job[s].op = "count"
        /\ Live(doc.house)
        /\ \E rows \in SUBSET Counted(doc) \ {{}} : \E found \in [rows -> Counts] :
              sheet' = [sheet EXCEPT ![g].counted =
                          [k \in Sku |-> IF k \in rows THEN found[k] ELSE @[k]]]
        /\ job' = [job EXCEPT ![s] = Idle]
        /\ UNCHANGED <<stock, slip, gone, adjusted>>

TakingDelta(doc) ==
    [k \in Sku |-> IF k \in Counted(doc) THEN doc.counted[k] - doc.frozen[k] ELSE 0]

TakingFits(doc) ==
    \A k \in Counted(doc) :
        LET now == book[<<k, doc.house>>]
            left == now.avail + TakingDelta(doc)[k]
        IN  left >= 0 /\ left >= now.occ

\* post_taking reads the lines and the balances before it takes the document.
ReadForPost(s, g) ==
    /\ sheet[g] # None
    /\ sheet[g].status = "DRAFT"
    /\ \A k \in Counted(sheet[g]) : sheet[g].counted[k] # None
    /\ TakingFits(sheet[g])
    /\ Read(s, "post", g, "DRAFT", TakingDelta(sheet[g]))

ReadForVoid(s, g) ==
    /\ sheet[g] # None
    /\ sheet[g].status = "DRAFT"
    /\ Read(s, "void", g, "DRAFT", NoDelta)

\* Faulty: losses are not posted.
GainLegs(doc, delta) ==
    LET Line(k) == IF delta[k] <= 0 THEN <<>>
                   ELSE Adjust(<<k, doc.house>>, "ADJUST", delta[k])
    IN  Lines([k \in Sku |-> Line(k)])

TakingLegs(doc, delta) ==
    LET Line(k) == IF delta[k] = 0 THEN <<>>
                   ELSE Adjust(<<k, doc.house>>, "ADJUST", delta[k])
    IN  Lines([k \in Sku |-> Line(k)])

-----------------------------------------------------------------------------
(* The common course of a request that posts legs.                          *)

\* Faulty: reading a document locks it.
ReadersLock(s) == \E u \in Session \ {s} : job[u].on = job[s].on

\* Another transaction has moved the document's status and not ended yet.
RowLocked(s) == \E u \in Session \ {s} : /\ job[u].on = job[s].on
                                         /\ job[u].stage \in {"claimed", "viewed"}

Status(doc) == IF doc \in Transfer THEN slip[doc].status ELSE sheet[doc].status

LegsOf(s) ==
    LET doc == job[s].on
    IN  CASE job[s].op \in TransferOps -> TransferLegs(job[s].op, job[s].was, slip[doc])
          [] job[s].op = "post" -> TakingLegs(sheet[doc], job[s].delta)
          [] job[s].op = "void" -> <<>>

\* Faulty: the UPDATE of the status is unconditional.
ClaimAnyway(s) ==
    /\ job[s].stage = "read"
    /\ job[s].op \in TransferOps \cup TakingOps
    /\ ~RowLocked(s)
    /\ job' = [job EXCEPT ![s].stage = "claimed"]
    /\ Book!Order(s, LegsOf(s))
    /\ UNCHANGED docs

\* transition: the conditional UPDATE of the status.
Claim(s) ==
    /\ job[s].stage = "read"
    /\ job[s].op \in TransferOps \cup TakingOps
    /\ ~RowLocked(s)
    /\ Status(job[s].on) = job[s].was
    /\ job' = [job EXCEPT ![s].stage = "claimed"]
    /\ Book!Order(s, LegsOf(s))
    /\ UNCHANGED docs

\* rowcount is 0: TransferStateError, StockTakingStateError.
ClaimLost(s) ==
    /\ job[s].stage = "read"
    /\ job[s].op \in TransferOps \cup TakingOps
    /\ ~RowLocked(s)
    /\ Status(job[s].on) # job[s].was
    /\ job' = [job EXCEPT ![s] = Idle]
    /\ UNCHANGED <<stock, docs>>

StartAdjust(s, b, kind, q) ==
    /\ Free(s)
    /\ book[b].avail <= MaxStock
    /\ job' = [job EXCEPT ![s] = [Idle EXCEPT !.op = "adjust", !.on = b,
                                              !.stage = "claimed"]]
    /\ Book!Order(s, Adjust(b, kind, q))
    /\ UNCHANGED docs

\* _ensure refuses a deleted warehouse; a row already loaded is written anyway.
EnsuresGone(leg) == leg = Ensure(leg.bin) /\ ~Live(leg.bin[2])

Post(s) ==
    /\ job[s].stage = "claimed"
    /\ pos[s] <= Len(plan[s])
    /\ ~EnsuresGone(plan[s][pos[s]])
    /\ Book!Draft(s)
    /\ UNCHANGED <<docs, job>>

Drafted(s) == pos[s] = Len(plan[s]) + 1

\* The warehouses that the answer names: _transfer_view, _taking_view, _view_for.
Named(s) ==
    LET doc == job[s].on
    IN  CASE job[s].op \in TransferOps -> {slip[doc].from, slip[doc].to}
          [] job[s].op \in TakingOps -> {sheet[doc].house}
          [] job[s].op = "adjust" -> {doc[2]}

View(s) ==
    /\ job[s].stage = "claimed"
    /\ Drafted(s)
    /\ \A w \in Named(s) : Live(w)
    /\ job' = [job EXCEPT ![s].stage = "viewed"]
    /\ UNCHANGED <<stock, docs>>

NewStatus(op) == CASE op = "ship"    -> "IN_TRANSIT"
                   [] op = "receive" -> "RECEIVED"
                   [] op = "post"    -> "POSTED"
                   [] op \in {"cancel", "void"} -> "CANCELLED"

\* The commit at the end of the request (get_db).
Finish(s) ==
    LET doc == job[s].on
        op == job[s].op
    IN  /\ job[s].stage = "viewed"
        /\ Book!Settle(s)
        /\ slip' = IF op \in TransferOps
                   THEN [slip EXCEPT ![doc].status = NewStatus(op)] ELSE slip
        /\ sheet' = IF op \in TakingOps
                    THEN [sheet EXCEPT ![doc].status = NewStatus(op),
                                       ![doc].posted = job[s].delta] ELSE sheet
        /\ adjusted' = IF op = "adjust"
                       THEN [adjusted EXCEPT ![doc] = @ + cart[s][doc].avail]
                       ELSE adjusted
        /\ job' = [job EXCEPT ![s] = Idle]
        /\ UNCHANGED gone

\* The transaction is rolled back.
Drop(s) ==
    /\ Book!Discard(s)
    /\ job' = [job EXCEPT ![s] = Idle]
    /\ UNCHANGED docs

InBounds(s) == \A b \in Bin : Book!InBounds(Book!Sum2(book[b], cart[s][b]))

\* NotFoundError for a deleted warehouse; InventoryInsufficientError.
Refuse(s) ==
    /\ \/ /\ job[s].stage = "claimed"
          /\ ~Drafted(s)
          /\ EnsuresGone(plan[s][pos[s]])
       \/ /\ job[s].stage = "claimed"
          /\ Drafted(s)
          /\ \E w \in Named(s) : ~Live(w)
       \/ job[s].op = "count" /\ ~Live(sheet[job[s].on].house)
       \/ ~InBounds(s)
    /\ Drop(s)

\* A crash, a dropped connection, an exhausted retry, a database deadlock.
Crash(s) == ~Free(s) /\ Drop(s)

-----------------------------------------------------------------------------
(* delete_warehouse: the balances are looked at, then the mark is set.      *)

ReadForDelete(s, w) ==
    /\ w \in Deletable
    /\ Live(w)
    /\ \A k \in Sku : book[<<k, w>>] = Book!Zero
    /\ Read(s, "delete", w, "none", NoDelta)

SaveDelete(s) ==
    /\ job[s].op = "delete"
    /\ gone' = gone \cup {job[s].on}
    /\ job' = [job EXCEPT ![s] = Idle]
    /\ UNCHANGED <<stock, slip, sheet, adjusted>>

-----------------------------------------------------------------------------
Start(s) ==
    \/ \E t \in Transfer : CreateTransfer(s, t)
    \/ \E t \in Transfer, op \in TransferOps : ReadTransfer(s, op, t)
    \/ \E g \in Taking : \/ CreateTaking(s, g) \/ ReadForCount(s, g)
                         \/ ReadForPost(s, g)  \/ ReadForVoid(s, g)
    \/ \E b \in Bin, a \in Adjustments : StartAdjust(s, b, a[1], a[2])
    \/ \E w \in Warehouse : ReadForDelete(s, w)

Proceed(s) == \/ Claim(s) \/ ClaimLost(s) \/ Post(s) \/ View(s) \/ Finish(s)
              \/ SaveCounts(s) \/ SaveDelete(s)

Next == \E s \in Session : Start(s) \/ Proceed(s) \/ Refuse(s) \/ Crash(s)

Spec == Init /\ [][Next]_vars

(***************************************************************************)
(* Once requests no longer crash: a request goes on, or is refused, and    *)
(* somebody keeps asking for every transfer in transit to be received.  A  *)
(* crash leaves everything but its own session as it was, so what came     *)
(* before adds no state to start from.                                     *)
(***************************************************************************)
CalmNext == \E s \in Session : Start(s) \/ Proceed(s) \/ Refuse(s)

Fairness ==
    \A s \in Session :
        /\ SF_vars(Proceed(s)) /\ WF_vars(Refuse(s))
        /\ \A t \in Transfer : SF_vars(ReadTransfer(s, "receive", t))

FairSpec == Init /\ [][CalmNext]_vars /\ Fairness

-----------------------------------------------------------------------------
InTransit(t) == slip[t] # None /\ slip[t].status = "IN_TRANSIT"

Received(t) == slip[t] # None /\ slip[t].status = "RECEIVED"

\* What the transfers T carry of a SKU.
Moving(k, T) ==
    SumFunction([t \in Transfer |-> IF t \in T THEN slip[t].qty[k] ELSE 0])

OnTheWay(k, w) == Moving(k, {t \in Transfer : InTransit(t) /\ slip[t].to = w})

SentOff(k, w) ==
    Moving(k, {t \in Transfer : (InTransit(t) \/ Received(t)) /\ slip[t].from = w})

Arrived(k, w) == Moving(k, {t \in Transfer : Received(t) /\ slip[t].to = w})

Found(k, w) ==
    SumFunction([g \in Taking |-> IF sheet[g] # None /\ sheet[g].house = w
                                  THEN sheet[g].posted[k] ELSE 0])

(***************************************************************************)
(* The committed documents account for every committed piece: what is in   *)
(* transit to a warehouse is what the transfers in transit carry, and what *)
(* is there is what was there, plus what was received, counted and         *)
(* adjusted, minus what was sent off.  A document that settles twice, or   *)
(* half, breaks this (transition, ship_transfer, receive_transfer,         *)
(* cancel_transfer, post_taking).                                          *)
(***************************************************************************)
DocumentsExplainStock ==
    \A k \in Sku, w \in Warehouse :
        LET there == book[<<k, w>>]
            start == Stock[<<k, w>>]
        IN  /\ there.transit = start.transit + OnTheWay(k, w)
            /\ there.avail + SentOff(k, w)
                 = start.avail + adjusted[<<k, w>>] + Arrived(k, w) + Found(k, w)

(***************************************************************************)
(* Goods in transit are never refused for want of stock, at their          *)
(* destination or back at their source: when the legs of a receipt or of a *)
(* cancellation are posted, the amounts are in bounds whatever the other   *)
(* requests have done in the meantime (receive_move, cancel_transit_moves  *)
(* under the WHERE clause of apply_change).                                *)
(***************************************************************************)
GoodsComeBack ==
    \A s \in Session :
        job[s].op \in {"receive", "cancel"} /\ Drafted(s) => InBounds(s)

(***************************************************************************)
(* A transfer in transit is received or cancelled in the end, if somebody  *)
(* keeps asking for it (receive_transfer).                                 *)
(***************************************************************************)
TransitSettles == \A t \in Transfer : InTransit(t) ~> ~InTransit(t)
=============================================================================
