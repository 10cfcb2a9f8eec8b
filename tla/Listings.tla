------------------------------ MODULE Listings ------------------------------
(***************************************************************************)
(* The listings of one SKU in one shop: services/listing.py, what the      *)
(* items of a batch do (services/listing_batch.py), and the patrol that    *)
(* compares them with the platform (services/listing_diff.py).             *)
(*                                                                         *)
(* A request reads, may call the platform, and commits only the columns it *)
(* changed; what it called the platform for stays.                         *)
(***************************************************************************)
EXTENDS Integers, FiniteSets, FiniteSetsExt, TLC

CONSTANTS Request, Patrol,
          Row,          \* ids, 1..n
          Psku,         \* ids the platform gives
          Amount, Currency,
          Patches,      \* what an update sets, as records with some of the fields
          Kinds,        \* of events: "update", "publish", "price", "platform"
          Given,        \* the rows at first
          Offered,      \* what is at the platform at first
          MaxEvents,    \* bound on the requests and the changes made at the platform
          Limit,        \* PATROL_LIMIT
          None

VARIABLES
    row,      \* per id, the listing
    remote,   \* per id of the platform, its price and currency
    diff,     \* per listing and field, the newest ListingDiff
    items,    \* staged items of batches that have not been run
    job,      \* per request, what it has read
    patrol,   \* per patrol, what it has read and will write
    products, \* per listing, the products it has at the platform
    settled,  \* listings compared with, or just told to, the platform
    marred,   \* listings changed by two requests at a time, or whose commit failed
    unasked,  \* an unconfirmed item has moved a price by more than a fifth
    twice,    \* a batch has put at the platform what was there already
    events

vars == <<row, remote, diff, items, job, patrol, products, settled, marred, unasked, twice, events>>

Field == {"price", "currency"}
Column == {"product", "psku", "price", "currency", "status"}

Listing == [product: BOOLEAN, psku: Psku \cup {None}, price: Amount \cup {None},
            currency: Currency \cup {None}, status: {"DRAFT", "LINKED", "UNLISTED"}]

Blank == [product |-> FALSE, psku |-> None, price |-> None, currency |-> None, status |-> None]

NoDiff == [f \in Field |-> [n |-> 0, status |-> "ACCEPTED", remote |-> None]]

TypeOK ==
    /\ \A id \in Row : row[id] = None \/ row[id] \in Listing
    /\ \A p \in Psku : remote[p] = None \/ remote[p] \in [price: Amount, currency: Currency]
    /\ \A id \in Row, f \in Field :
          LET d == diff[id][f]
          IN  \/ d = NoDiff[f]
              \/ /\ d.n \in Nat /\ d.status \in {"PENDING", "ACCEPTED", "DISMISSED"}
                 /\ IF f = "price" THEN d.remote \in Amount ELSE d.remote \in Currency
    /\ \A i \in items : i.kind \in {"publish", "price"} /\ i.id \in Row
    /\ products \in [Row -> SUBSET Psku]
    /\ settled \subseteq Row /\ marred \subseteq Row /\ unasked \in BOOLEAN /\ twice \in BOOLEAN
    /\ events \in 0..MaxEvents

Idle == [stage |-> "idle"]

Init ==
    /\ row = Given
    /\ remote = Offered
    /\ diff = [id \in Row |-> NoDiff]
    /\ items = {}
    /\ job = [r \in Request |-> Idle]
    /\ patrol = [q \in Patrol |-> Idle]
    /\ products = [id \in Row |-> IF Given[id] # None /\ Given[id].status = "LINKED"
                                  THEN {Given[id].psku} ELSE {}]
    /\ settled = {} /\ marred = {} /\ unasked = FALSE /\ twice = FALSE
    /\ events = 0

-----------------------------------------------------------------------------
\* resolve_listing_status, None where it refuses.
StatusOf(current, requested, product, psku) ==
    LET both == product /\ psku # None
        neither == ~product /\ psku = None
    IN  IF requested # None
        THEN IF requested = (IF both THEN "DRAFT" ELSE "LINKED") THEN None ELSE requested
        ELSE IF both THEN "LINKED"
        ELSE CASE current = "LINKED" -> IF neither THEN "UNLISTED" ELSE None
               [] current = None -> "DRAFT"
               [] current \notin {"LINKED", None} -> current

\* needs_price_confirm: a new price, or a change of more than a fifth.
NeedsConfirm(old, new) ==
    \/ old \in {None, 0}
    \/ 5 * (IF new > old THEN new - old ELSE old - new) > old

\* The constraints of the table.
Legal(l) ==
    /\ (l.price = None) = (l.currency = None)
    /\ l.status = "LINKED" => l.product /\ l.psku # None
    /\ l.status = "DRAFT" => ~l.product \/ l.psku = None

\* platform_sku_taken, and the index behind it.
Taken(psku, id) == psku # None /\ \E other \in Row \ {id} : row[other] # None /\ row[other].psku = psku

Linked == {id \in Row : row[id] # None /\ row[id].status = "LINKED"}

Open == {id \in Row : row[id] # None /\ row[id].status # "LINKED"}

Free == {id \in Row : row[id] = None}

\* What a listing would be after the columns that were changed are written; a new one has the next id.
Target(j) == IF j.old.status = None THEN Min(Free) ELSE j.id

Written(j) ==
    IF j.old.status = None THEN j.new
    ELSE [c \in Column |-> IF j.new[c] # j.old[c] THEN j.new[c] ELSE row[j.id][c]]

-----------------------------------------------------------------------------
\* Others that have read the listing have read what is no longer so.
Disturb(id, but) ==
    /\ job' = [r \in Request |->
                  IF r = but THEN Idle
                  ELSE IF job[r] # Idle /\ (job[r].id = id \/ job[r].stage = "stage")
                       THEN [job[r] EXCEPT !.clean = FALSE] ELSE job[r]]
    /\ patrol' = [q \in Patrol |->
                     IF q = but THEN Idle
                     ELSE IF patrol[q] # Idle THEN [patrol[q] EXCEPT !.touched = @ \cup {id}] ELSE Idle]

\* The items staged before a listing was changed.
Behind(id) == {[i EXCEPT !.clean = @ /\ i.id # id /\ i.kind = "price"] : i \in items}

Finish(r) == job' = [job EXCEPT ![r] = Idle] /\ UNCHANGED patrol

Ask(r, record) ==
    /\ job[r] = Idle
    /\ job' = [job EXCEPT ![r] = record]
    /\ UNCHANGED patrol

Begin == events < MaxEvents /\ events' = events + 1

\* create_listing and update_listing up to the flush; what is refused changes nothing.
Edit(r, id, patch) ==
    LET old == IF row[id] = None THEN Blank ELSE row[id]
        asked == IF "status" \in DOMAIN patch THEN patch.status ELSE None
        merged == patch @@ old
        new == [merged EXCEPT !.status = StatusOf(old.status, asked, merged.product, merged.psku)]
    IN  /\ Begin
        /\ row[id] = None => Free # {} /\ id = Min(Free)
        /\ new.status # None
        /\ (new.price = None) = (new.currency = None)
        /\ ~Taken(new.psku, id)
        /\ Ask(r, [stage |-> "update", id |-> id, old |-> old, new |-> new, clean |-> TRUE])
        /\ UNCHANGED <<row, remote, diff, items, products, settled, marred, unasked, twice>>

\* The flush and the commit; the constraints of the table may refuse it.
SaveEdit(r) ==
    LET j == job[r]
        id == Target(j)
        final == Written(j)
    IN  /\ j.stage = "update" /\ (j.old.status = None => Free # {})
        /\ IF Legal(final) /\ ~Taken(final.psku, id)
           THEN /\ row' = [row EXCEPT ![id] = final]
                /\ products' = [products EXCEPT ![id] =
                                   IF final.status = "LINKED" THEN {final.psku} ELSE {}]
                /\ settled' = settled \ {id}
                /\ marred' = IF j.clean THEN marred ELSE marred \cup {id}
                /\ items' = Behind(id)
                /\ Disturb(id, r)
           ELSE UNCHANGED <<row, products, settled, marred, items>> /\ Finish(r)
        /\ UNCHANGED <<remote, diff, unasked, twice, events>>

-----------------------------------------------------------------------------
\* _stage_publish: a listing that is linked is skipped, an open one gets the price, or there is a new one.
StagePublish(r, price, currency) ==
    LET id == IF Open # {} THEN Max(Open) ELSE Min(Free)
        old == IF Open # {} THEN row[id] ELSE Blank
        new == [old EXCEPT !.price = price, !.currency = currency,
                           !.status = IF @ = None THEN "DRAFT" ELSE @]
    IN  /\ Begin
        /\ Linked = {} /\ Open \cup Free # {}
        /\ Ask(r, [stage |-> "stage", id |-> id, old |-> old, new |-> new, clean |-> TRUE])
        /\ UNCHANGED <<row, remote, diff, items, products, settled, marred, unasked, twice>>

\* accept_prices: one item for a listing.
StagePrice(r, id, price, currency, confirmed) ==
    /\ Begin
    /\ row[id] # None
    /\ NeedsConfirm(row[id].price, price) => confirmed
    /\ Ask(r, [stage |-> "reprice", id |-> id, old |-> row[id], price |-> price, currency |-> currency,
               confirmed |-> confirmed, clean |-> TRUE])
    /\ UNCHANGED <<row, remote, diff, items, products, settled, marred, unasked, twice>>

\* An item that publishes is the only one, or it is not clean.
Staged(item) ==
    LET apart(i, j) == i.id # j.id /\ (i.kind = "price" \/ j.kind = "price")
    IN  {[i EXCEPT !.clean = @ /\ apart(i, item)] : i \in items}
        \cup {[item EXCEPT !.clean = @ /\ \A i \in items : apart(i, item)]}

CommitStage(r) ==
    LET j == job[r]
        id == Target(j)
    IN  /\ j.stage = "stage" /\ (j.old.status = None => Free # {})
        /\ row' = [row EXCEPT ![id] = Written(j)]
        /\ items' = Staged([kind |-> "publish", id |-> id, price |-> j.new.price, currency |-> j.new.currency,
                            confirmed |-> TRUE, clean |-> j.clean])
        /\ settled' = settled \ {id}
        /\ Disturb(id, r)
        /\ UNCHANGED <<remote, diff, products, marred, unasked, twice, events>>

CommitPrices(r) ==
    LET j == job[r]
    IN  /\ j.stage = "reprice"
        /\ items' = Staged([kind |-> "price", id |-> j.id, price |-> j.price, currency |-> j.currency,
                            confirmed |-> j.confirmed, clean |-> j.clean])
        /\ Finish(r)
        /\ UNCHANGED <<row, remote, diff, products, settled, marred, unasked, twice, events>>

-----------------------------------------------------------------------------
\* _publish_item up to the answer: the platform has a new product.
Publish(r, item, psku) ==
    LET l == row[item.id]
    IN  /\ item \in items /\ item.kind = "publish"
        /\ l.price # None
        /\ remote[psku] = None
        /\ remote' = [remote EXCEPT ![psku] = [price |-> l.price, currency |-> l.currency]]
        /\ products' = [products EXCEPT ![item.id] = @ \cup {psku}]
        /\ items' = items \ {item}
        /\ marred' = IF item.clean THEN marred ELSE marred \cup {item.id}
        /\ twice' = (twice \/ (item.clean /\ Linked # {}))
        /\ Ask(r, [stage |-> "published", id |-> item.id, old |-> l, clean |-> TRUE,
                   new |-> [l EXCEPT !.product = TRUE, !.psku = psku, !.status = "LINKED"]])
        /\ UNCHANGED <<row, diff, settled, unasked, events>>

\* _reprice_item up to the answer: only a listing that is linked is told to the platform.
Reprice(r, item) ==
    LET l == row[item.id]
        told == l.status = "LINKED" /\ l.psku # None
    IN  /\ item \in items /\ item.kind = "price"
        /\ told => remote[l.psku] # None
        /\ remote' = IF told THEN [remote EXCEPT ![l.psku] = [price |-> item.price, currency |-> item.currency]]
                     ELSE remote
        /\ unasked' = (unasked \/ (item.clean /\ ~item.confirmed /\ l.price # None
                                   /\ 5 * (IF item.price > l.price THEN item.price - l.price
                                           ELSE l.price - item.price) > l.price))
        /\ settled' = settled \ {item.id}
        /\ items' = items \ {item}
        /\ job[r] = Idle
        /\ LET j == [stage |-> "repriced", id |-> item.id, old |-> l, clean |-> TRUE,
                     new |-> [l EXCEPT !.price = item.price, !.currency = item.currency]]
           IN  /\ job' = [k \in Request |->
                             IF k = r THEN j
                             ELSE IF job[k] # Idle /\ job[k].id = item.id THEN [job[k] EXCEPT !.clean = FALSE]
                             ELSE job[k]]
               /\ patrol' = [q \in Patrol |-> IF patrol[q] # Idle
                                              THEN [patrol[q] EXCEPT !.touched = @ \cup {item.id}] ELSE Idle]
        /\ UNCHANGED <<row, diff, products, marred, twice, events>>

\* The item is refused before the platform has it, and is FAILED.
Refuse(item) ==
    /\ item \in items
    /\ items' = items \ {item}
    /\ UNCHANGED <<row, remote, diff, job, patrol, products, settled, marred, unasked, twice, events>>

\* The commit after the platform was told.  A psku that another listing has refuses it.
CommitItem(r) ==
    LET j == job[r]
        final == Written(j)
    IN  /\ j.stage \in {"published", "repriced"}
        /\ IF Legal(final) /\ ~Taken(final.psku, j.id)
           THEN /\ row' = [row EXCEPT ![j.id] = final]
                /\ settled' = IF j.clean /\ final.status = "LINKED" THEN settled \cup {j.id}
                              ELSE settled \ {j.id}
                /\ marred' = IF j.clean THEN marred ELSE marred \cup {j.id}
                /\ items' = Behind(j.id)
                /\ Disturb(j.id, r)
           ELSE /\ marred' = marred \cup {j.id}
                /\ settled' = settled \ {j.id}
                /\ UNCHANGED <<row, items>> /\ Finish(r)
        /\ UNCHANGED <<remote, diff, products, unasked, twice, events>>

\* The commit does not come about: the worker is lost.
LoseItem(r) ==
    /\ job[r].stage \in {"published", "repriced"}
    /\ marred' = marred \cup {job[r].id}
    /\ settled' = settled \ {job[r].id}
    /\ Finish(r)
    /\ UNCHANGED <<row, remote, diff, items, products, unasked, twice, events>>

-----------------------------------------------------------------------------
\* The seller changes a price, or its currency, at the platform.
ChangeRemote(psku, offer) ==
    /\ Begin
    /\ remote[psku] # None /\ offer # remote[psku]
    /\ remote' = [remote EXCEPT ![psku] = offer]
    /\ LET of == {id \in Row : row[id] # None /\ row[id].psku = psku}
                 \cup {job[r].id : r \in {k \in Request : job[k].stage \in {"published", "repriced"}}}
       IN  /\ settled' = settled \ of
           /\ job' = [r \in Request |-> IF job[r] # Idle /\ job[r].id \in of
                                        THEN [job[r] EXCEPT !.clean = FALSE] ELSE job[r]]
           /\ patrol' = [q \in Patrol |-> IF patrol[q] # Idle
                                          THEN [patrol[q] EXCEPT !.touched = @ \cup of] ELSE Idle]
    /\ UNCHANGED <<row, diff, items, products, marred, unasked, twice>>

\* patrol: the first PATROL_LIMIT linked listings are read.
Listed == {id \in Linked : Cardinality({l \in Linked : l < id}) < Limit}

StartPatrol(q) ==
    /\ patrol[q] = Idle
    /\ patrol' = [patrol EXCEPT ![q] = [stage |-> "patrol", read |-> [id \in Listed |-> row[id]], todo |-> Listed,
                                        write |-> <<>>, touched |-> {}, compared |-> {}]]
    /\ UNCHANGED <<row, remote, diff, items, job, products, settled, marred, unasked, twice, events>>

\* _differs.
Differs(local, value) == local # value

\* _open: None where nothing is written, or the diff as it is to be.
Opened(d, value) ==
    CASE d.status = "PENDING" -> [d EXCEPT !.remote = value]
      [] d.status = "DISMISSED" /\ d.remote = value -> None
      [] OTHER -> [n |-> d.n + 1, status |-> "PENDING", remote |-> value]

\* _compare of the next listing; a platform that does not answer skips it.
Compare(q) ==
    LET p == patrol[q]
        id == Min(p.todo)
        offer == remote[p.read[id].psku]
        found(f) == IF Differs(p.read[id][f], offer[f]) THEN Opened(diff[id][f], offer[f]) ELSE None
        write == [f \in {g \in Field : found(g) # None} |-> [old |-> diff[id][f], new |-> found(f)]]
    IN  /\ p.stage = "patrol" /\ p.todo # {}
        /\ \/ patrol' = [patrol EXCEPT ![q].todo = @ \ {id}]
           \/ /\ offer # None
              /\ patrol' = [patrol EXCEPT ![q].todo = @ \ {id}, ![q].compared = @ \cup {id},
                                          ![q].write = @ @@ (id :> write)]
        /\ UNCHANGED <<row, remote, diff, items, job, products, settled, marred, unasked, twice, events>>

\* What the patrol makes of a diff: a pending one gets the value of the platform, whatever has become of it.
Patrolled(d, w) ==
    CASE w.new.n # w.old.n -> w.new
      [] d.n = w.new.n /\ w.new # w.old -> [d EXCEPT !.remote = w.new.remote]
      [] OTHER -> d

\* uq_listing_diff_pending: one pending diff of a field refuses the second, and the whole patrol with it.
EndPatrol(q) ==
    LET p == patrol[q]
        inserts(id, f) == p.write[id][f].new.n # p.write[id][f].old.n
        refused == \E id \in DOMAIN p.write : \E f \in DOMAIN p.write[id] :
                      inserts(id, f) /\ diff[id][f].n # p.write[id][f].old.n /\ diff[id][f].status = "PENDING"
    IN  /\ p.stage = "patrol" /\ p.todo = {}
        /\ IF refused THEN UNCHANGED <<diff, settled, job>> /\ patrol' = [patrol EXCEPT ![q] = Idle]
           ELSE /\ diff' = [id \in Row |->
                               IF id \in DOMAIN p.write
                               THEN [f \in Field |-> IF f \in DOMAIN p.write[id]
                                                     THEN Patrolled(diff[id][f], p.write[id][f])
                                                     ELSE diff[id][f]]
                               ELSE diff[id]]
                /\ settled' = settled \cup (p.compared \ p.touched)
                /\ patrol' = [k \in Patrol |->
                                 IF k = q THEN Idle
                                 ELSE IF patrol[k] # Idle THEN [patrol[k] EXCEPT !.touched = @ \cup DOMAIN p.write]
                                 ELSE Idle]
                /\ job' = [r \in Request |-> IF job[r] # Idle /\ job[r].id \in DOMAIN p.write
                                             THEN [job[r] EXCEPT !.clean = FALSE] ELSE job[r]]
        /\ UNCHANGED <<row, remote, items, products, marred, unasked, twice, events>>

\* accept and dismiss, up to the flush.
Decide(r, id, field, verdict) ==
    LET value == diff[id][field].remote
        other == IF field = "price" THEN row[id].currency ELSE row[id].price
        new == IF verdict = "ACCEPTED" THEN [row[id] EXCEPT ![field] = value] ELSE row[id]
    IN  /\ diff[id][field].status = "PENDING"
        /\ verdict = "ACCEPTED" => other # None
        /\ Ask(r, [stage |-> "decide", id |-> id, old |-> row[id], new |-> new, field |-> field,
                   n |-> diff[id][field].n, verdict |-> verdict, clean |-> TRUE])
        /\ UNCHANGED <<row, remote, diff, items, products, settled, marred, unasked, twice, events>>

\* An accepted value that the platform no longer has does not settle anything.
CommitDecision(r) ==
    LET j == job[r]
        final == Written(j)
        current == /\ final.psku # None
                   /\ remote[final.psku] # None
                   /\ remote[final.psku][j.field] = diff[j.id][j.field].remote
        newest == diff[j.id][j.field].n = j.n
    IN  /\ j.stage = "decide"
        /\ IF Legal(final)
           THEN /\ row' = [row EXCEPT ![j.id] = final]
                /\ diff' = IF newest THEN [diff EXCEPT ![j.id][j.field].status = j.verdict] ELSE diff
                /\ settled' = IF j.clean /\ current THEN settled ELSE settled \ {j.id}
                /\ items' = Behind(j.id)
                /\ Disturb(j.id, r)
           ELSE UNCHANGED <<row, diff, settled, items>> /\ Finish(r)
        /\ UNCHANGED <<remote, products, marred, unasked, twice, events>>

-----------------------------------------------------------------------------
Requests(r) ==
    \/ "update" \in Kinds /\ \E id \in Row, patch \in Patches : Edit(r, id, patch)
    \/ "publish" \in Kinds /\ \E price \in Amount, currency \in Currency : StagePublish(r, price, currency)
    \/ "price" \in Kinds /\ \E id \in Row, price \in Amount, currency \in Currency, confirmed \in BOOLEAN :
           StagePrice(r, id, price, currency, confirmed)
    \/ \E id \in Row, field \in Field, verdict \in {"ACCEPTED", "DISMISSED"} : Decide(r, id, field, verdict)

Commits(r) == SaveEdit(r) \/ CommitStage(r) \/ CommitPrices(r) \/ CommitItem(r) \/ LoseItem(r) \/ CommitDecision(r)

Next ==
    \/ \E r \in Request : Requests(r) \/ Commits(r)
    \/ \E r \in Request, item \in items : Reprice(r, item) \/ \E psku \in Psku : Publish(r, item, psku)
    \/ \E item \in items : Refuse(item)
    \/ "platform" \in Kinds /\ \E psku \in Psku, offer \in [price: Amount, currency: Currency] : ChangeRemote(psku, offer)
    \/ \E q \in Patrol : StartPatrol(q) \/ Compare(q) \/ EndPatrol(q)

Spec == Init /\ [][Next]_vars

-----------------------------------------------------------------------------
(***************************************************************************)
(* After a patrol, a publication or a change of price, a linked listing    *)
(* has the price and the currency of the platform, or a diff tells what    *)
(* the platform has: one that waits, or one that was dismissed with that   *)
(* value.  This ends with the next change of the listing or the platform,  *)
(* and does not cover a diff accepted after the platform had moved on      *)
(* (_compare, _open, accept, _publish_item, _reprice_item).                *)
(***************************************************************************)
DiffsTell ==
    \A id \in settled, f \in Field :
        LET value == remote[row[id].psku][f]
        IN  \/ row[id][f] = value
            \/ diff[id][f].status \in {"PENDING", "DISMISSED"} /\ diff[id][f].remote = value

(***************************************************************************)
(* A linked listing has one product at the platform and another has none,  *)
(* and no batch publishes a SKU to a shop that has it.  The exceptions:    *)
(* requests crossed, the SKU was in two batches or changed after it was    *)
(* staged, or the commit after the call failed (_stage_publish,            *)
(* _publish_item).                                                         *)
(***************************************************************************)
OneProduct ==
    /\ ~twice
    /\ \A id \in {i \in Row \ marred : \A r \in Request : job[r] = Idle \/ job[r].id # i} :
          products[id] = IF id \in Linked THEN {row[id].psku} ELSE {}

(***************************************************************************)
(* A price moves by more than a fifth only if that was confirmed, unless   *)
(* the listing was changed after the batch was accepted                    *)
(* (needs_price_confirm in accept_prices, the item in _reprice_item).      *)
(***************************************************************************)
BigChangesConfirmed == ~unasked

ListingsTell == DiffsTell /\ OneProduct /\ BigChangesConfirmed
=============================================================================
