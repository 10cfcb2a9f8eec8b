# CrossPilot in TLA+

CrossPilot is a back office for cross-border sellers: it pulls orders from
marketplaces (Amazon, Shopee, Lazada, TikTok), keeps stock in several
warehouses, buys goods, publishes listings and reports profit. The backend is
FastAPI with SQLAlchemy over PostgreSQL, with Celery workers, Redis and a React
front end. This directory is its verification project: TLA+ modules that model
the parts where several actors meet and the rules that they compute with, TLC
runs that check them on small instances, and TLAPS proofs about the core for
every instance.

Paths below are relative to `src/backend/app/` unless they start with `src/`.

## 1. Inventory of the system

How a request runs. `db/session.py` gives every HTTP request (`get_db`) and every
task (`session_scope`) one database transaction: commit at the end, rollback on
an exception. PostgreSQL runs at READ COMMITTED: a statement sees what was
committed when it started, an UPDATE waits for a row lock and then looks at the
newest version of the row. The ORM session is created with `autoflush=False,
expire_on_commit=False`, and its identity map keeps the first copy of every row,
for as long as something refers to it: a later query does not refresh it. An
UPDATE of the ORM names the row by its primary key and writes only the columns
that differ from the copy. Most of what is hard in this code comes from these
facts, and nearly every module models them: a request *reads*, goes on, and
*commits the columns it changed over whatever is there by then*.

| Component | State it keeps | Hard behaviour | What makes it correct | Modules |
|---|---|---|---|---|
| **Stock ledger** `services/inventory.py` (`_ensure`, `_commit_change`, `_apply_once`), `repositories/inventory.py` | `inventory` rows per (SKU, warehouse) with a version, `inventory_flow` rows | stale copies, retries, lock cycles, rollback in the middle | no oversell, every change traced once, a request is all or nothing | `StockBook`, `StockLedger`, `StockRules` |
| **Stock documents** same file | transfers, stock takings, deleted warehouses | a status read now and moved later; frozen amounts; deletion under way | documents account for every piece | `StockDocuments` |
| **Order holds** same file (`ship_order`, `_draw`, `receive_return`) | `inventory_hold` per order line | draws from several warehouses, conflicts, lines whose ids change | holds tell what was taken | `OrderStock`, `StockRules` |
| **Order ingest** `services/order_status.py`, `engines/order_status.py`, `repositories/order.py` | `sales_order`, lines, status log | concurrent ingests of different versions, redelivery | the newest version wins; lines follow the header | `OrderStatus`, `OrderIngest` |
| **Order desk** `services/order_desk.py`, `services/order_ship.py` | reviews, shipments, returns, addresses | state read before a platform call and used after it | what is shipped was told; one restock per return | `OrderIngest`, `OrderStock`, `OrderAddress`, `ShipBatch` |
| **Order lists, files** `services/order_query.py`, `repositories/order_read.py`, `engines/order_privacy.py` | cursors | pages read while orders change; one rule twice, in Python and SQL | nothing is shown twice or missed | `OrderQueue`, `Access` |
| **Stock push** `push_sku`, `sweep_lag`, `tasks/inventory.py` | `inventory_push` rows | enqueued before the commit, lost, overtaken | oversold shops are corrected | `StockPush` |
| **Breaker, rate limits** `sync_engine/resilience.py`, `adapters/ratelimit.py` | JSON states in Redis | compare-and-set, probes that never report, clocks | one probe; quotas hold | `Circuit`, `RateLimit` |
| **Beat locks** `sync_engine/locks.py`, `runtime.py` | lock with token and TTL | expiry while running, no store | one runner within the TTL | `BeatLock` |
| **Order cursor** `sync_engine/cursor.py`, `services/order_sync.py` | high-water mark, resume point | overlap, page bound, failures, two runs | no order is passed over | `SyncCursor` |
| **Webhooks** `services/webhook_ingress.py`, `webhooks/store.py` | claimed event ids | failure between claim and publication | an accepted event is kept | `Webhook` |
| **Purchase** `services/purchase.py`, `engines/purchase.py` | orders, receipts, shipments, cost pools | statuses and quantities checked without a lock | transit is what is expected | `Purchase`, `LandedCost` |
| **Authentication** `services/auth_service.py`, `core/token_blacklist.py`, `core/deps.py` | failures and lock of an account, revoked tokens per process and in Redis | counts read and written, several processes | revoked stays revoked | `Access` |
| **Browser session** `src/frontend/src/api/client.ts` | tokens, renewal under way | many 401 at once | the session goes on | `Sessions` |
| **Members** `services/member_service.py` | memberships, invitations | two requests decide on one reading | one link, one acceptance | `Members` |
| **Rights, routes, pages** `core/permissions.py`, `api/v1/`, `src/frontend/src/pages`, `src/frontend/src/router` | none: four tables kept by hand | they drift apart | what is drawn is accepted | `Screens` |
| **Shops** `services/shop_service.py`, `credential_service.py` | shops, tokens | tokens rotated outside the transaction | lost tokens are noticed | `Shops` |
| **Listings** `services/listing_batch.py`, `listing.py`, `listing_diff.py` | listings, batches, diffs | platform call before the commit, redelivery | statuses tell what is at the platform | `ListingBatch`, `Listings` |
| **Texts, products** `services/locale.py`, `locale_text.py`, `product.py`, `product_sheet.py` | texts, terms, SPU, SKU | a draft crosses a review; counts before inserts | what is published was reviewed | `Catalog` |
| **Exports** `services/report.py`, `tasks/report.py` | exports | inline and worker runs, expiry | every export ends | `ReportExports` |
| **Money** `engines/landed_cost.py`, `pricing.py`, `profit.py`, `settlement.py` | daily profit, rates | rounding, rules that are missing | sums are exact and open where unknown | `LandedCost`, `ProfitBook` |
| **Advertising, board** `services/ads.py`, `services/dashboard.py` and engines | daily rows worked out again and again | crossing rebuilds of parts | rows agree with the facts | `Ads`, `Dashboard` |
| **Tax rules** `services/tax_rule.py`, `tax_registration.py` | versions, registrations | versions made from one reading | one rate on a day | `TaxRules` |
| **Certificates** `services/certificate.py`, `compliance_alert.py` | certificates, notices | bounded scan, mails before the commit | warned in time | `CertificateAlerts` |
| **Customer desk** `services/cs.py`, `engines/cs.py` | messages, tickets | sync crosses clerks | read was seen, closed stays | `CustomerDesk` |
| **Adapters, isolation, schema** `adapters/`, `db/tenant_filter.py`, `src/backend/alembic` | - | - | external, or one tenant | - |

PROJECT.json lists the components with what is and what is not modelled of each,
and every hazard at its line.

How the parts interact. Orders call the stock (`StockLedger` proves that the
stock's requests settle one at a time, so `StockDocuments`, `OrderStock` and
`Purchase` move committed amounts in one step), the stock calls the push
(`StockPush`) after every change, the poller and the webhooks call the ingest
(`OrderIngest`), every platform call passes the breaker and the limiter
(`Circuit`, `RateLimit`), and the scheduler's tasks pass a Beat lock (`BeatLock`).
The other parts meet only in the database, through rows that they read: the books
of profit read order lines and landed costs, advertising reads the books, the
board reads all of them. There the facts of one module are the inputs that
another chooses freely.

## 2. Plan and state of it

Done, in this order: the ledger and its documents, orders, the pipeline of
background work, purchase, the session and the accounts, the desk and the office,
the figures, the listings and the catalogue, the tables of rights.

Next, in order of importance:

1. Theorems about what is left of the office: the grants of shops (`Shops`), warnings
   of certificates, the books, the listings and their diffs, and the types of the
   composition.
2. Operations that are missing of modelled components: `reserve_order` over time,
   the prices of suppliers and orders from a suggestion, requirements and gaps of
   certificates, the sync that a user starts by hand, templates.

## 3. Modules and code

Conventions. An action is a part of a request between two points where others can
get in between: a read, a call to a platform, the commit. `Read...`/`Load...`/
`Find...` copy a committed row; `Save...`/`Commit...` write the changed columns;
`Drop`/`Stop`/`Fail`/`Abort` is `get_db`'s rollback or a worker that dies.
Variables named `crossed`, `raced`, `stale`, `torn`, `mixed`, `disturbed`, `alone`
are history: they remember that a request wrote over something it had not read, so
that a property can say what holds otherwise; section 7 says what happens then.
Wording, layout, logging and audit rows are left out.
Operators marked "Faulty" are no part of any specification: each is a plausible bug
in the definition after it, and the property that PROJECT.json pairs it with
notices it.

### Stock

**StockLedger.** `inv` is table `inventory` as committed; `cur` adds the one
uncommitted version a row may have, and `lock` says whose it is (PostgreSQL's
row lock, held to the end of the transaction). `pend` are the flow rows that
author has inserted. `tx[s]` is a request or task: `pc` is where it stands
inside `_commit_change`, `legs`/`at` the calls it makes, `tries` the retries
used, `view` its identity map. Actions: `Begin` (the transaction starts),
`Load` (`get_pair`: the identity map wins over the query's result), `Insert`,
`InsertRaced` (`_ensure` with its savepoint), `Apply`/`Miss` (`apply_change`, the
conditional UPDATE that waits for the lock and then looks at the newest version),
`Retry`/`Insufficient`/`Exhausted` (the rest of the retry loop), `Commit`,
`Abort` (`get_db`, `session_scope`), `Victim` (database deadlock, external). A leg of a
program may also be a `Draw`, which is `_draw`: `ListBins` loads the rows of all bins
at once, `Pick` plans the parts, `ApplyDrawn` updates the next of them and writes its
flow row from one object, so with one amount for before and after (`DrawnRow`; `drawn`
is the quantity of that row), `Replan` starts again after a conflict, `GiveUp` and
`EndDraw` end it.

**StockRules** has the legs each operation passes to `_commit_change`, in their
order, with the bucket the flow row shows. **StockBook** is what the ledger
promises: a private cart per request, settled in one step that stays in bounds, or
discarded. `StockLedger!Book` is the refinement mapping: the book is the committed
amounts, a cart is the difference of what its session sees.

**StockDocuments** uses the book's actions for the stock and adds the documents:
`slip` (`stock_transfer` with its lines), `sheet` (`stock_taking` with its
lines), `gone` (`warehouse.deleted_at`), `adjusted` (history, the net of direct
adjustments), `job` (the request a session runs). A request reads the document
(`Read...`), moves its status with a conditional UPDATE (`Claim`, `ClaimLost`),
posts its legs (`Post`), builds its answer, which looks the warehouses up again
(`View`), and commits (`Finish`). `SaveCounts` and `SaveDelete` are the two
operations whose UPDATE has no condition.

**OrderStock** is one order of one line: shipments that people confirm
(`commit_success`, `ship_order`, `_draw` pass by pass, with the retry after a
conflict), pulls that replace the line under a new id (`_replace_items`), its
matching with a SKU later (`Match`), and a return approved and refunded
(`transition_return`, `receive_return`). **StockRules** also has
`plan_allocations`, `platform_push_quantity` and `suggest_replenishment`. **StockPush** is one SKU:
a change, the push enqueued before its commit, one shop after the other, retries,
lost tasks, and the sweep of shops that lag.

### Orders

**OrderStatus** has the tables of the nine-state machine and of the review as
sets and operators, without state.

**OrderIngest** is one order. `story` and `now` are the versions it has had at
the platform; `row` is its committed header (`stamp` is `platform_updated_at`,
`by` the write the stamp comes from), `cur` and `lock` its uncommitted version
and whose it is, `items` its lines, as the numbers of the writes that inserted
them, `log` what the last commit added to the status log. `job[w]` is the
transaction of a worker: `ReadRow` (`get_by_key`, `decide_write`), `InsertRow`
and `InsertRaced` (the savepoint and the unique key), `BeginDelete` and
`EndDelete` (one DELETE statement: what it sees when it starts, and what is left
of that when its row locks are granted), `UpdateRow` (the flush: new lines and
the header by its primary key, then the log and the review). The session has no
autoflush, so the header is written after the lines are deleted. `LoadForShip`,
`Push`, `LoadAgain`, `MarkShipped` are `_ship_one`: the order is loaded again
after the call to the platform, because nothing refers to the first copy any
more. `LoadForReview`, `DecideReview` are `decide_review`.

**ShipBatch** is `run_ship_batch`: orders in turn, told to the platform, written
under a savepoint, failures noted, all in one transaction, with row locks and
their deadlocks. **OrderAddress** is `change_address` beside the syncs of the
order. **OrderQueue** has the rules of the engine and of the SQL for exceptions
and for the rank of what is to be shipped, and a reader that walks a list page by
page. **SyncCursor** is `OrderSyncService.run` with windows, pages, checkpoint and
row; `Ingest` ends with the SELECT of `save`, `Finish` is its UPDATE and the commit.
**Webhook** is the way of one event. **Circuit** and **RateLimit** are the
states in the compare-and-set store; in **RateLimit** every worker has its clock.
**BeatLock** is `run_beat_singleton`.

### Trade, shops and people

**Purchase** has orders, lines, receipts, first-mile shipments and cost pools.
A pool of another currency is not averaged with (`Weighed`).
`ReadOrder` and `ReadLines` are two queries; `SaveOrder` writes the differences
from what was read, `Post` moves the stock, `Papers` are the rows with unique
keys (receipts with idempotency keys, shipments).

**Shops** is one shop at its platform, which takes only the last pair of tokens
it gave; a renewal is read, call, commit, and an owner binds or unbinds.
**Members** has invitations, acceptance, roles and removal;
the UPDATE that revokes older invitations is two steps, what it sees (`RevokePending`)
and what it changes of that when it gets the rows (`RevokeSeen`). **Access** has the
failure count and the lock of an account, tokens with a list of revoked ones in
every process and in Redis, which a process stops using after a failed ping, the
role a request acts in, the hidden digits and the export of orders. **Sessions**
is one tab of the browser with its shared refresh. **Screens** has the four tables:
rights of roles, what each of the routes of `api/v1` asks for, the menu, and what
each page loads and draws behind `PermissionGuard` and `CostGuard`.

**ListingBatch** is a batch of publications and the task that runs it.
**Listings** has two listings of a SKU in a shop, with edits, both kinds of
batches, the patrol and the verdicts on its diffs. **Catalog** has the texts of a
listing (`Rewritten` is `apply_glossary` on words, `Scanned` is `scan_sensitive`)
and products with variants, patches, imports and statuses. **ReportExports** is
the life of exports. **TaxRules**, **CertificateAlerts** and **CustomerDesk** are
named after what they are about. A sync of **CustomerDesk** reads the messages that are
on the first pages of the platform (`platform.first`), at most `MaxPulled`; which ones these
are, the platform decides with each message.

### Figures

**LandedCost** shares the cost of a shipment (`allocate`), computes the items of a
landed cost, solves for the price of a margin on them, and rolls lines up to days
and periods; money is in integers with the rounding of `quantize`. **ProfitBook** is
`materialize` by crossing runs: a row keeps what it was worked out from, so that
"is this row right" is a comparison of sets. **Ads** is the sync of a campaign,
**Dashboard** the rebuild of the board and everything its pages fold from it.

### Proof modules

`StockLedgerProofs`, `StockDocumentsProofs`, `OrderIngestProofs` and `PurchaseProofs`
extend the module they prove about (or its instance); `BackgroundProofs` and
`OfficeProofs` extend `Background`, one for the pipeline, the other for the back office;
`MCBackground` carries theirs over to its own specification; `Sums` has the lemmas about
sums over functions. Section 8 says what each proves.

### Instances

`MCStockLedger`, `MCStockDocuments`, `MCOrderIngest` and `MCPurchase` instantiate
one module each. `Background` composes the parts of the pipeline, the session, the
listing batches, the order holds, the customer desk (`Desk`), the addresses
(`Addresses`) and shipments (`Ships`) of orders, the members (`Team`), the logins with
their tokens (`Entrance`) and the tax rules and registrations (`Filings`), with constants
of its own and what the code says of them (section 8); `MCBackground` adds instances of
all the others for one run: variable `part` is chosen in the first state and says which module acts; the
variables of the others rest. So one run checks parts that share no state, as many
runs would. Some modules have two instances there (renewed grants and bound ones), and three
instances have two parts each, with the other half switched off: `Desk` the inbox and
the tickets (`OnlyMessages`), `Entrance` the logins and the tokens (`OnlyLogins`,
`OnlyTokens`), `Filings` the versions of a rule and the tax numbers (`OnlyRates`,
`OnlyNumbers`). The pure rules are parts too: the first state is the question, from sets
of bounded inputs, and there is no step.

## 4. Properties

Named in the cfg files; each is stated with its code in the module.

| Property | Says |
|---|---|
| `NeverOversold`, `EveryChangeTraced`, `TrailAdds`, `VersionIdentifiesRow` | the bounds of a row; flow rows account for each change, and lead, with their quantities, from each amount to the next; a copy with the row's version is the row |
| `ImplementsBook` | the ledger refines the book |
| `RequestsEnd` | no request waits or retries for ever |
| `DocumentsHold` | types, and `DocumentsExplainStock`: stock is what takings, transfers and adjustments say |
| `GoodsComeBack`, `TransitSettles` | goods in transit fit where they are going and where they came from; they get there |
| `HeaderHasItsLines`, `StatusChangesLogged` | concurrent pulls leave the header with the lines of its payload; every change of status is logged |
| `NewestWinsAlone`, `OneSetOfLines`, `CancelledIsFinal`, `VerdictStays` | what the rules promise when transactions follow one another |
| `OpenQuantitiesInTransit`, `ReceiptsExplainStock`, `PoolsWeighEverything`, `SuppliersHold` | transit is what open orders and shipments still bring; stock is what receipts say; each posted shipment has its pools, and the latest weighs every piece since the currency changed; open orders have a supplier |
| `TypesOK` | the types of all parts of MCBackground |
| `CallsHeld` | one probe at a time (`Circuit`), rate and quota (`RateLimit`) |
| `NothingSkipped` | what lies before the high-water mark is stored |
| `NoTwoWithinTtl`, `ClaimedIsKept`, `SessionGoesOn`, `StatusesTell`, `HoldsExplainStock` | see the modules `BeatLock`, `Webhook`, `Sessions`, `ListingBatch`, `OrderStock` |
| `DeskHolds`, `ClosedStays` | what is marked read was shown; a ticket's status tells what was done; a closed ticket stays |
| `FiguresHold` | allocation plans, replenishment, exact shares, prices that meet the margin, days and periods that add up, SQL and engine flag the same orders, settlements, warnings of losses, the pages of the board, rights, routes, menu and pages that agree, and files of orders (`ScreensTell`) |
| `OfficeHolds` | `TaxesHold`, `GrantHolds`, `AlertsHold`, `BooksTell` (`ProfitBook`, `Ads`, `Dashboard`), `CatalogHolds`, and `ListsTell` (`OrderQueue!QueueHolds`, `Listings!ListingsTell`) |
| `MembersHold` | `Members!MembersHold`, `Access!LockTells` and `RevokedStays` |
| `OrdersTold` | `OrderAddress!AddressHolds`, `ShipBatch!ShipmentsTell` |
| `ProbesDecide`, `ExportsEnd`, `OversellingEnds`, `MessagesArrive`, `LostTokensNoticed` | liveness, section 6 |

## 5. Runs and bounds

| Run | Instance | Shows |
|---|---|---|
| `ledger` | 2 requests, 2 bins (one without a row), transfers both ways, order lines released, shipped and returned, what is not held drawn from both bins; 2 tries | type, bounds, traces, versions, the refinement, and that every request ends |
| `documents` | 2 requests, 2 transfers and a taking over two pieces, one of them reserved; pieces taken out; the empty warehouse deletable | documents explain the stock, with frozen amounts that are out of date; goods in transit can be put somewhere |
| `transfers_settle` | 2 requests, 2 transfers of one piece, nothing deleted | a transfer in transit is received or cancelled |
| `orders` | 3 workers (symmetry) on three stories of an order, and, one transaction at a time (`alone`), five stories, two with statuses that come late or go back | the header's lines are there and each change is logged whatever interleaves; the rules by themselves keep the newest payload, one set of lines, cancellations and verdicts |
| `purchase` | 2 requests (symmetry), 1 order, 2 shipments in 2 currencies, 2 warehouses, 2 papers | stock, transit and pools against the documents |
| `background` | one part at a time, see `Background` and `MCBackground` for each instance | the safety of all other modules, and the pure rules |
| `endings` | the parts that must come to an end, with the fairness of section 6 | liveness |
| `trail_torn`, `transfer_stranded`, `order_overwritten`, `circuit_stuck`, `restocked_twice` | the smallest instance that shows each finding | section 7 |

Bounds. Two or three actors are enough for each race named in PROJECT.json: one
that reads, one that commits in between, and in the parts with a shared lock or
claim a third that comes later. Versions of rows only order copies, so two changes
per row (`MaxVersion`) let every copy be fresh, one behind or two behind; two tries
let a conflict be met and let the retries run out. Two bins are enough for a lock
cycle, two documents for one that moves the other's goods, two orders in opposite
order for a deadlock of batches, a page of one order for every way to lose one
between pages (of the two the second does not change again in the pulls of one
cursor: `OneChangesAgain`; the theorem is about both), three certificates' worth of
windows on three days for each boundary of `_windows`. `MaxEvents`, `MaxEdits`, `MaxSaves`, `MaxStamp`,
`MaxClock` and their like bound what the outside world does: a run must be able to
read before, between and after two changes. `MaxStock` stops adjustments from
making more pieces. Money has two decimals instead of six and ten grams to a
kilogramme, which keeps TLC's 32-bit integers from overflowing and all roundings
in play. The proofs remove the bounds for the ledger, the stock documents, the
ingest, purchase, and all parts of `Background`.

`CHECK_DEADLOCK FALSE`: in the ledger the model stops at `MaxVersion`; in the
documents, in purchase and in the parts of `background` it stops when every
document or event of the pool is used up, and a pure rule has no step.
`RequestsEnd` covers requests that would wait for ever. The order runs check
deadlock: there is always an order to pull.

State counts (two workers): ledger 68,871 distinct states; documents
1,807,562; transfers_settle 6,561; orders 97,859; purchase 2,344,617; background
2,225,667 (about three minutes); endings 31,500.

## 6. Fairness

`StockLedger!Fairness`: a running request goes on (strong fairness per session,
because PostgreSQL queues the waiters of a row lock and none is passed over for
ever), and PostgreSQL breaks a cycle of waiting sessions. No fairness is assumed
of beginning a request or of a crash. `StockDocuments!Fairness`: requests go on
or are refused, and somebody keeps asking for a transfer in transit to be
received, which only a person does; the liveness run leaves crashes out, since a
request that crashes at every attempt settles nothing.

In `endings`:

- `Circuit`: time passes, and a worker that lives goes on; Beat enqueues a shop
  that is behind every minute, so somebody keeps asking. `ProbesDecide` is about
  behaviours in which every admitted call reports; `OpensForAFixedTime` (run
  `circuit_stuck`) is not, and fails.
- `ReportExports`: the task of an export goes on or ends, and the daily job for
  old exports keeps coming; it waits for the row lock of a running export, which
  is given out in turn (strong fairness). Tasks may be lost.
- `StockPush`: requests end, Beat keeps asking for the sweep, and no platform
  refuses for ever (strong fairness of each call). Pushes may be lost; there is one
  worker, so two pushes do not overtake each other here.
- `CustomerDesk`: Beat starts a sync again and again; once nothing fails any more
  (`Proceed`), what failed before left no trace. The pages of one sync hold one message
  of the two (`MaxPulled`), and the clerks are left out: they change no content.
- `Shops`: tokens expire, Beat looks for those that do, renewals go on; that the
  platform answers is not assumed.

## 7. Findings

Five runs show where the program does not keep what its text says (PROJECT.json
quotes the lines):

- `trail_torn`: `_draw` reads the amount before a change from the object that its update
  has refreshed, so the flow rows of drawn parts have before equal to after. `TrailAdds`
  says what an auditor can still rely on: read as starting from the amount less the
  quantity, the rows lead from one amount to the next.
- `transfer_stranded`: the source of a shipped transfer may be empty, so
  `delete_warehouse` accepts it; then the answer of a receipt, and the legs of a
  cancellation, look the warehouse up and are refused, and the goods stay in
  transit. (It also looks at the balances without a lock, so stock can arrive
  before its commit.)
- `order_overwritten`: `upsert` decides on a copy read without a lock, and its
  UPDATE has no condition, so an older payload can land last. In the same way two
  pulls can leave both sets of lines, `commit_success` sets SHIPPED over a
  cancellation, and a pull overwrites a verdict; hence `alone` in the run
  `orders`.
- `circuit_stuck`: a probe that ends in a rate limit, a refused credential or a
  lost worker is never recorded, and the breaker refuses every later call.
- `restocked_twice`: two requests refund one return that both read as APPROVED.

The properties of `background` and `purchase` name further exceptions: each is a
behaviour of the code that TLC found, and that the property had to leave out.

*Writes over what was read earlier.* `save` of the order cursor reads the row and writes
the columns that differ: a rival that saves in between leaves the page token of one
window with the end of another, and the run that resumes it may move the mark past
orders nobody pulled (`SyncCursor!crossed`). Of two invitations of one address at once,
the UPDATE of neither sees the row of the other, and no index keeps a second pending one
out: both links open, although `repositories/identity.py:271` says that an address should
not have several valid tokens (`Members!crossed`). Counts of a posted taking can change
(`record_counts`). Requests on one purchase order can overlap (`stale`). Creating a
tax rule while its predecessor is retired overwrites `effective_to`. An assignment
or a note that crosses a closing reopens the ticket, and `mark_read` that crosses a
sync marks a version that nobody has seen. A renewal that crosses a binding writes
over the newer grant, and its alert writes AUTH_EXPIRED over a fresh or an unbound
shop; a grant that crosses an unbinding leaves the shop deleted. A change of address
that commits late overwrites a newer version. `machine_draft` that has read a draft
does not write `quality_status`, so one that crosses `save_human` or `publish`
leaves machine text reviewed or published, although `services/locale.py:1` says
that drafts must be reviewed first. Two patches of half a cost each can leave a pair
that nobody sent, and two additions one variant too many. Two changes of a
product's status that cross are logged from the same status. Logins that cross may count one
failure for two, and a success may keep a lock of which it clears the count; after a
lock ends, one more wrong password locks again until a success.

*Worked out again.* An older `materialize` can overwrite a newer one, two can leave
a row with columns of both, and a key that lost its last line keeps its row; a rate
inserted later for an earlier day changes days already shown. Two syncs of
advertising tear a row in the same way; a warning follows the margin at the time of
the sync, and pages beyond `ads_sync_max_pages` are dropped from a task that
succeeds. An older rebuild of the board can overwrite a newer one, and of two
crossing rebuilds the second may fail as a whole on the unique keys. `_row_view`
adds books of different currencies under the first one, `sums_for` adds campaigns
under one currency, the board's currency rollups show the book amounts under the
first row's book currency, and `rank_skus` cuts the list of losses at its small
end. A day with advertising or returns but without a profit row leaves the whole
window's profit open.

*Platform first, commit later.* What a platform was told before a rollback stays
told: shipments (two batches may both tell it, and a refused second call leaves a
SHIPPED order with a FAILED row and no number), publications (an item staged in two
batches is published twice), mails of `scan_alerts` (which has no Beat lock and is
sent again after a crash), rotated tokens (lost until the failures reach the
threshold).

*Limits and pages.* A sync of messages reads the first `cs_sync_max_pages` pages and no
others ever; what lies behind them arrives only if the platform moves it forward, so
`MessagesArrive` is about the messages on these pages. `list_in_horizon` takes the `ALERT_LIMIT` certificates that
expire first, the expired ones included, so these crowd out what is about to expire
(`docs/CrossPilot-PRD-SRS-v1.0.md:769` promises 60, 30 and 7 days). The patrol never
reaches beyond its first `PATROL_LIMIT` listings. An order that becomes more urgent
between two pages is skipped. A negative `order_ship_warn_hours` is clamped by the
engine and subtracted by the SQL.

*Listings.* A diff that waits is not closed when the platform comes back, so it can
be accepted with an outdated value; accepting the diff of the price alone leaves the
new amount in the old currency; a dismissed row is written with a newer value; a
second patrol's insert on the unique key drops the whole patrol; an UNLISTED listing
that keeps both ids is LINKED again by any edit; the confirmation of a change by
more than a fifth is judged when the batch is accepted.

*Tables.* A VIEWER, who reads finance without costs, opens the pages of the
waterfall, settlements, profits and exchange rates, whose loads the API refuses;
`PermissionGuard.tsx` says that no control is drawn that is then refused. A role that
may only read may still refresh advertising, rebuild the board and scan a text.

*Files and texts of the code.* The FAILED row of `order_address_log` is rolled back
with its request, although `models/order.py:242` says that it is kept. A removed member cannot be invited back. A failed ping
of Redis turns the shared list of revoked tokens off in that process until it is
restarted.

## 8. Proofs

`StockLedgerProofs` holds for any sets of sessions and
bins, any programs of legs, any legal opening balances, any number of retries
and any `MaxVersion`. They assume what `StockLedger` names: programs are
sequences of legs; a leg that changes the available bucket shows that bucket in
its flow row (so every caller of `_commit_change` does); the opening rows
satisfy the table's CHECK constraints.

None of the invariants is inductive by itself. `IndInv` joins the type, the
bounds, `EveryChangeTraced` and `VersionIdentifiesRow` with two facts about the
shape of the data: `LegsInv` (a request inside a leg points into its legs, and
one that is about to update has loaded the row) and `LockInv` (an unlocked row
is as committed and has no pending flow rows; a locked one exists). The argument
turns on `Sound(s, b, row)`: a copy is never newer than what the session sees,
and with the same version it is the same row. Reads and retries keep it because
they copy what is visible; a write keeps it for its author because the copy
becomes the new row, and for the others because what they see does not change; a
commit keeps it because versions only grow, and grow with each flow row
(`EveryChangeTraced`).

`TrailAudits` needs `IndInv` and the chain of the flow rows (`TrailAdds`): the update
matched the version, so the copy that gives `before` in `_commit_change` is the row
itself, and a drawn part started its quantity away from what its row says.
`LedgerImplementsBook` maps each statement to a step of the book (`Begin` to
`Order`, `Apply` and `Ensured` to `Draft`, `Commit` to `Settle`, every kind of
rollback to `Discard`) and the rest to stutters; it also needs `PhaseInv` (a
session that is done has posted all of its legs).

`OrderIngestProofs` holds for any finite set of workers and any stories.
`HeaderHasItsLines` is not inductive: a DELETE may have taken the header's lines
while their transaction goes on. `IndInv` says what a transaction is about to
commit (`DoneInv`): a header that refers to its own lines (`Linked`), or that
leaves both lines and stamp alone; and a log entry for the status if that changes
(`Logged`). It needs `LockInv` (the header is locked exactly by the worker that
is about to commit, and an unlocked one is as committed, so a stale copy can only
be in `seen`), `LoadedInv` (only an ingest deletes lines), and, for the types,
`PulledInv` and `FiniteInv` (a finite set of numbers leaves a free one).
`EveryChangeLogged` follows because only `Commit` changes the committed header.

Three of its promises are about one transaction at a time (`alone`). They are proved
from `MCOrderIngest!MCSpec` with `AloneInv`: while nothing has overlapped, one
worker at most has a job and reads the committed row; the lines are those of the
header; and a transaction about to commit leaves the lines of its header only, and a
header that follows the one before by the rules (`Finishing`). `OneSetAlone`, `NewestAlone`, `CancelledAlone` and `VerdictAlone` state the
properties of the run.

`StockDocumentsProofs` proves `DocumentsHold` (what a warehouse has and what is on its
way to it is what the documents and the direct adjustments say) and `GoodsComeBack`
(sent goods can always be received or taken back), for any finite sets of SKUs,
transfers and takings, any requests, warehouses and quantities. It assumes what
`StockDocuments` names: transfers and takings are told apart, quantities and counts
are not negative, the opening stock satisfies the CHECK constraints, `None` is no
document. The equation is not inductive, since a request holds the document's lines
and a cart of pieces before it commits. `IndInv` adds:

- `SessionInv`: a request that has claimed its document has planned the legs the
  document asks for (`Planned`), and its cart is what the legs posted so far make of
  them (`CartTells`); a request at rest has no cart.
- `ActingInv`, `Alone`: a document that a request has claimed has the status that the
  request read, and nobody else has claimed it.
- `DocumentInv`: a taking in DRAFT has posted nothing, and no transfer goes from a
  warehouse to itself.
- `StockInv`: the stock is legal.

`Flattened` and `LinesPlanned` say that the legs of a document, line after line, move
each bin at most once, and by what the document says (`TransferPlanned`,
`TakingPlanned`, `AdjustPlanned`), so the cart of a request that has posted all is a
function of the document (`FullCart`), and the commit moves stock and document together
(`Settled`, `Balanced`). A plan is a sequence; the induction over its lines is over
numbers (`UpTo`), by the least number that fails. `GoodsComeBack` follows
(`RoomToComeBack`): what is in transit to a warehouse is a sum of which each transfer on
the way is one term.

`PurchaseProofs` holds for any orders and shipments (finitely many), any requests,
warehouses, quantities and papers. `IndInv` joins the type and the four promises,
which rest on each other, with `WorkInv` (the document that a request works on is
there, with the lines it has read), `PapersInv` (shipments and receipts name orders
that are there; a shipment is costed exactly when it is posted), `UntouchedInv`
(while no two requests on an order overlap, nothing has come for an order that is
not approved) and `ClosingInv` (a supplier that is about to be deleted has no open
order). `PoolsExplained` follows the pools of an SKU from the last one that is in another
currency (`Recent`). The quantities are sums over functions on
sets, which change in one place; `Sums` has the lemmas for that. They need no
induction theorem with an operator parameter: `SubsetInduction` is set induction for
a *set* of good subsets, which is first-order, and `SumDefinition` unfolds
`SumFunctionOnSet` once.

`BackgroundProofs` and `OfficeProofs` prove the fourteen parts of `Background`, each as a
theorem of its own `Spec`, under the assumptions that `Background` names (`None` is nothing else; the
bounds are not negative; a bucket holds a token, a lock lives a tick; the windows
overlap by at least the time a change takes to be listed; a batch has an order; nobody
invites the owner; an account is locked after at least one wrong password; the days
that tax rules are about have a last one, where the model ends). The pipeline, in
`BackgroundProofs`:

- `OneYoungRun`, by `LockInv`: the lock of a run that is younger than the TTL is that
  run's, and what is left of it and the run's age are the TTL.
- `NoEventIsLost`, by `IngressInv`: the property with the type is inductive.
- `QuotaNearlyKept`, by `QuotaInv`: what is used and the calls between their check
  and their count stay within the quota and one less than the workers.
- `RateKept`, by `RateInv`: by the time `t` on the clock furthest ahead, the tokens
  given out and those left are at most a burst and what has accrued since the clock
  furthest behind, and twice what penalties gave back.
- `OneProbe`, by `ProbeInv`: every write that a caller has prepared lets one caller
  through at most, and takes the mark of the probe away only with an outcome.
- `NoOrderSkipped`, by `CursorInv`: what is before the mark is stored; what is in the
  open window up to the resume point is stored; and what a run will write is true
  when it is written. `TimesInv` gives the order of times the windows rely on:
  a change is listed within `Late`, no window ends in the future.
- `SessionKept`, by `SessionInv`: there is one refresh at a time, and the pair that
  the tab holds is revoked only while the next pair is on its way.
- `StatusesKept`, by `ListingInv`: only the item in hand may be at the platform
  without its status, and the counts of the batch are those of its items.
- `HoldsKept`, by `GoodsInv`: what a shipment under way has taken and what it still
  wants is what was ordered; its plan wants no more than that, and no more from a
  warehouse than its copy of the balance shows; a copy it may still write with is the
  balance itself (`DrawInv`). So a draw never takes more than there is, and what left
  the warehouses is in `taken` or in a hold (`Gap`). That each plan fits is
  `PlanGivesAll`, the promise `PlanHolds` of the rule itself, for any balances with at
  most one default warehouse: whatever warehouses come first in the order of the plan
  give together what they have or all that is wanted (`FirstOnesGive`, by set induction
  over the warehouses, the last of them taken away).

The back office, in `OfficeProofs`:

- `DeskInvariant` and `ClosedTicketStays`, by `DeskInv`: what a request or a sync has
  read is still there (`RequestsFound`, `SyncsFound`), and a ticket that was taken up is
  never new again, so what `SaveTicket` writes over it is a status that was earned.
- `AddressKept`, by `AddressInv`: a copy that a sync holds is no newer than the
  platform's and says the same if it is as new (`CopiesHold`); each change that the
  platform took has a time of its own, in the log or still with its clerk
  (`StampsDiffer`).
- `ShipmentsKept`, by `ShipsInv`: what a batch has left is a part of its list that it
  has not written (`LeftIsOpen`); what it has written the platform was told
  (`WritesWereTold`); its answers are what it has written until it commits
  (`AnswersAreWritten`); and an order that it alone has in hand is as it was read
  (`HandsHold`), which row locks and the unique index give while it is written.
- `MembersKept`, by `TeamInv`: the owner stays, and nobody else becomes one
  (`OwnerStays`); an accepted invitation
  was mailed and is the only one of its address (`AcceptedFits`); and a request that
  invites has revoked all that was open, unless another one crossed (`WorkFits`).
- `EntranceKept`, by `EntranceInv`, in two halves that no action mixes: what a login has
  read is no more than was counted, and is the row itself while logins do not cross
  (`LoginFits`); and where a revocation has ended, the token is refused for as long as it
  lives (`Refused`), so nothing that was due to be refused is let in (`ShownFits`).
- `TaxesKept`, by three invariants. `RatesInv`: versions are numbered without a gap, they
  do not overlap, and a request that is about to insert a version has room for it, as
  long as the number it has worked out is free. `SpansInv`: the first day of a version
  never changes, so a last day that was worked out from it is still after it when it is
  written. `RegistrationsInv`: the unique indexes turn away what has come since a request
  looked.

`MCBackground` carries them over to the specification that the run `background`
checks: each `...GoesOn` lemma shows that a step of the composition is a step of the
part or leaves it alone, so `Spec => Part!Spec`, and twelve theorems state the run's
`CallsHeld`, `NothingSkipped`, `NoTwoWithinTtl`, `ClaimedIsKept`, `SessionGoesOn`,
`StatusesTell`, `HoldsExplainStock`, `DeskHolds`, `ClosedStays`, `OrdersTold`,
`MembersHold` and, of `OfficeHolds`, `TaxesHold`.

What proving changed in the models: several `CASE` expressions had arms that overlap,
which TLC reads from the top and TLA+ does not; they are written so that one arm
applies (`ListingBatch!Counts`, `Purchase!NextReceiptStatus`,
`StockDocuments!TransferLegs`, `Listings!StatusOf`, `LandedCost`, `CustomerDesk!Stored`).
`None` had to be said to be none of the values beside it. `Moving` and `Found` are sums
of functions, and `SaveCounts` writes the counts by name instead of with `@@`, which the
prover cannot unfold; neither changes what is said. The plan over the warehouses
was a sequence of allocations with a rest that is worked off, in the order of the
sorted bins; it is now what each warehouse gives, from what those before it have free,
and `PlanHolds` checks it against its promise.
`ShipBatch` says what a batch is after a step as a record of its fields (`Unwritten`,
`Turn`) instead of a chain of `EXCEPT`, and the types of `Members`, `Access`,
`OrderAddress` and `CustomerDesk` say what a request has read.

Only model-checked: liveness, fairness and ENABLED (out of the prover's reach); the
pure rules (`FiguresHold` except `PlanHolds`: sums over sequences and recursive
functions need induction over data); `OfficeHolds` except `TaxesHold` (grants,
warnings, books, lists, listings, texts and products); and the types of the composition
(`TypesOK`), although the invariants above have the types of their parts in them.

## 9. Not modelled

PROJECT.json says for each component what is left out and why. In short:

- `adapters/`: the translation of payloads and the signing of requests are input
  and output; the platforms are external actors that take calls, fail, or answer
  too late.
- `db/tenant_filter.py`, row-level security: every module is about one tenant.
- `schemas/`, layouts of files and pages, `services/audit_service.py`,
  `services/outbox.py`: nothing of the logic reads what they write.
- Rules over rows that are read once, where a unit test reaches every case:
  `engines/compliance.py`, `services/hs_code.py`, the reading of spreadsheets and
  images, `services/settlement.py`'s parsing.
- Single rows written by single requests: templates, notes, review rules, rate limit
  settings.
