------------------------------ MODULE Dashboard ------------------------------
(***************************************************************************)
(* The board of the business (services/dashboard.py, engines/dashboard.py, *)
(* repositories/dashboard.py).                                             *)
(*                                                                         *)
(* A rebuild, by Beat or by hand, asks for the facts of some days, one     *)
(* query after the other, replaces the rows of these days, and then the    *)
(* row of today's stock, in one transaction.  What the pages show is       *)
(* folded from the rows.                                                   *)
(***************************************************************************)
EXTENDS Integers, FiniteSets, Sequences, FiniteSetsExt, SequencesExt, Functions, TLC

CONSTANTS Builder, Shop, Day,
          Windows,    \* pairs of days that rebuilds are asked for
          MaxEvents,  \* bound on the changes of facts
          Unit,       \* units in one, 10^6 in the code
          None

VARIABLES
    facts,   \* what orders, books of profit, advertising, returns, shops and stock say
    board,   \* committed rows of dashboard_shop_daily
    health,  \* the committed row of dashboard_inventory_daily
    build,   \* what a rebuild has read and written
    calm,    \* rebuilds that nothing has crossed
    agreed,  \* days whose rows are of a rebuild that nothing has crossed
    events

vars == <<facts, board, health, build, calm, agreed, events>>

-----------------------------------------------------------------------------
SumOf(f) == FoldFunction(+, 0, f)

Column(rows, name) == [r \in rows |-> r[name]]

\* _sum_optional
SumOptional(f) == IF \E x \in DOMAIN f : f[x] = None THEN None ELSE SumOf(f)

\* quantize, ROUND_HALF_UP, of x over a positive y.
Rounded(x, y) == IF x >= 0 THEN (2 * x + y) \div (2 * y) ELSE -((y - 2 * x) \div (2 * y))

Ratio(numerator, denominator) ==
    IF None \in {numerator, denominator} \/ denominator = 0 THEN None
    ELSE IF denominator > 0 THEN Rounded(numerator * Unit, denominator)
         ELSE Rounded(-numerator * Unit, -denominator)

ChangeRatio(current, previous) ==
    IF None \in {current, previous} THEN None ELSE Ratio(current - previous, previous)

\* GMV_STATUSES
Counted == {"PAID", "SHIPPED", "DELIVERED", "COMPLETED", "REFUNDING", "REFUNDED", "RETURNED"}

\* shipment_timing
Timing(order, now) ==
    CASE order.status \notin Counted -> "ignore"
      [] order.status \in Counted /\ order.shipped # None ->
             IF order.shipped <= order.deadline THEN "on_time" ELSE "late"
      [] OTHER -> IF order.status = "PAID" /\ order.deadline < now THEN "late" ELSE "open"

\* order_facts: what the database counts of the paid orders of a shop and a day.
OrderFact(orders, now) ==
    LET counted == {o \in orders : o.status \in Counted}
    IN  [count |-> Cardinality(counted),
         gmv |-> MapThenSumSet(LAMBDA o : o.amount, counted),
         onTime |-> Cardinality({o \in counted : o.shipped # None /\ o.shipped <= o.deadline}),
         late |-> Cardinality({o \in counted :
                                 \/ o.shipped # None /\ o.shipped > o.deadline
                                 \/ o.shipped = None /\ o.status = "PAID" /\ o.deadline < now})]

-----------------------------------------------------------------------------
Codes == {"PURCHASE", "FIRST_MILE", "COMMISSION"}

\* fold_lines: an item that one group misses is missing; so is all of no group.
FoldLines(groups) ==
    [code \in Codes |-> IF groups = {} THEN None
                        ELSE SumOptional([g \in groups |-> g.lines[code]])]

Only(S, otherwise) == IF Cardinality(S) = 1 THEN CHOOSE x \in S : TRUE ELSE otherwise

\* fold_profit, for the rows of one shop, day and currency.
FoldProfit(rows) ==
    LET complete == \A r \in rows : r.complete
        book == Only({r.book : r \in rows}, None)
    IN  [book |-> book, complete |-> complete,
         net |-> IF complete THEN SumOptional(Column(rows, "net")) ELSE None,
         bookRevenue |-> IF complete /\ book # None THEN SumOptional(Column(rows, "bookRevenue"))
                         ELSE None,
         bookNet |-> IF complete /\ book # None THEN SumOptional(Column(rows, "bookNet"))
                     ELSE None,
         lines |-> FoldLines(rows)]

NoOrders == [count |-> 0, gmv |-> 0, onTime |-> 0, late |-> 0]

NoAds == [spend |-> None, sales |-> None, losses |-> 0]

At(f, key, otherwise) == IF key \in DOMAIN f THEN f[key] ELSE otherwise

KeyOf(row) == [shop |-> row.shop, day |-> row.day, currency |-> row.currency]

\* A row of dashboard_shop_daily, from the facts that are given of its key.
ShopDay(key, given, default) ==
    LET rows == {r \in given.profits : KeyOf(r) = key}
        profit == FoldProfit(rows)
        sold == rows # {}
        ads == At(given.ads, key, NoAds)
    IN  At(given.orders, key, NoOrders) @@
        [key |-> key, shop |-> key.shop, day |-> key.day, currency |-> key.currency,
         platform |-> key.shop,
         book |-> IF sold /\ profit.book # None THEN profit.book ELSE default,
         returns |-> At(given.returns, key, 0),
         bookGmv |-> IF sold THEN profit.bookRevenue ELSE None,
         net |-> IF sold THEN profit.net ELSE None,
         bookNet |-> IF sold THEN profit.bookNet ELSE None,
         complete |-> sold /\ profit.complete,
         spend |-> ads.spend, sales |-> ads.sales, losses |-> ads.losses,
         lines |-> FoldLines(rows)]

\* assemble_shop_days: a row for each shop, day and currency that any fact is about; a shop that
\* is gone is known by its orders only.
Assemble(given, default) ==
    LET keys == DOMAIN given.orders \cup DOMAIN given.ads \cup DOMAIN given.returns
                    \cup {KeyOf(r) : r \in given.profits}
    IN  {ShopDay(k, given, default) :
            k \in {k \in keys : k.shop \in given.shops \/ k \in DOMAIN given.orders}}

-----------------------------------------------------------------------------
First(rows) ==
    CHOOSE r \in rows : \A other \in rows :
        r.day < other.day \/ (r.day = other.day /\ r.shop <= other.shop)

\* What a group of rows comes to.
Totals(rows) ==
    LET complete == \A r \in rows : r.complete
        whole(name) == IF complete THEN SumOptional(Column(rows, name)) ELSE None
    IN  [count |-> SumOf(Column(rows, "count")), gmv |-> SumOf(Column(rows, "gmv")),
         onTime |-> SumOf(Column(rows, "onTime")), late |-> SumOf(Column(rows, "late")),
         returns |-> SumOf(Column(rows, "returns")), complete |-> complete,
         net |-> whole("net"), bookGmv |-> whole("bookGmv"), bookNet |-> whole("bookNet")]

LineAmount(rows, code) == FoldLines(rows)[code]

\* profit_roi
Roi(net, rows) ==
    LET invested == SumOptional([c \in {"PURCHASE", "FIRST_MILE"} |-> LineAmount(rows, c)])
    IN  Ratio(net, invested)

Present(f) == [x \in {y \in DOMAIN f : f[y] # None} |-> f[x]]

\* _currency_rollups: days without advertising do not hide the spend of the others.
CurrencyRollup(group) ==
    LET totals == Totals(group)
        spends == Present(Column(group, "spend"))
        spend == IF DOMAIN spends = {} THEN None ELSE SumOf(spends)
        sales == IF DOMAIN spends = {} THEN None ELSE SumOf(Present(Column(group, "sales")))
    IN  totals @@
        [currency |-> First(group).currency, book |-> First(group).book, spend |-> spend,
         sales |-> sales, losses |-> SumOf(Column(group, "losses")),
         margin |-> Ratio(totals.net, totals.gmv), acos |-> Ratio(spend, sales),
         roas |-> Ratio(sales, spend), roi |-> Roi(totals.net, group)]

CurrencyRollups(rows) ==
    {CurrencyRollup({r \in rows : r.currency = k[1] /\ r.book = k[2]}) :
        k \in {<<r.currency, r.book>> : r \in rows}}

\* _platform_rollups: the book's currency is that of the first row.
PlatformRollups(rows) ==
    {LET group == {r \in rows : r.platform = k[1] /\ r.currency = k[2]}
     IN  Totals(group) @@ [platform |-> k[1], currency |-> k[2], book |-> First(group).book] :
        k \in {<<r.platform, r.currency>> : r \in rows}}

\* _day_rollups
DayRollups(rows) ==
    {LET group == {r \in rows : r.day = k[1] /\ r.platform = k[2] /\ r.currency = k[3]}
     IN  Totals(group) @@ [day |-> k[1], platform |-> k[2], currency |-> k[3],
                           book |-> First(group).book] :
        k \in {<<r.day, r.platform, r.currency>> : r \in rows}}

CostLines(rows, currency) == FoldLines({r \in rows : r.currency = currency})

\* DashboardService.costs: the shares of the items, when there is no gap.
CostShares(rows, currency) ==
    LET lines == CostLines(rows, currency)
    IN  [code \in Codes |-> Ratio(lines[code], SumOptional(lines))]

\* fulfillment_rate and return_rate
FulfillmentRate(totals) == Ratio(totals.onTime, totals.onTime + totals.late)

ReturnRate(totals) == Ratio(totals.returns, totals.count)

\* _currency: a currency with two currencies of the books has two rollups; a change is measured
\* against the first one.  (Books are numbered in the order of their codes.)
Earlier(rollups, currency) ==
    LET same == {r \in rollups : r.currency = currency}
    IN  IF same = {} THEN None ELSE CHOOSE r \in same : \A other \in same : r.book <= other.book

\* _money_change
MoneyChange(rollup, before) ==
    LET earlier == Earlier(CurrencyRollups(before), rollup.currency)
    IN  [gmv |-> ChangeRatio(rollup.gmv, IF earlier = None THEN None ELSE earlier.gmv),
         net |-> ChangeRatio(rollup.net, IF earlier = None THEN None ELSE earlier.net)]

PreviousWindow(window) ==
    LET days == window[2] - window[1] + 1
    IN  <<window[1] - days, window[1] - 1>>

\* black_friday: the day of November, when the first of November falls on a weekday (0: Monday).
BlackFriday(first) == 1 + ((3 - first) % 7) + 21 + 1

FixedPromos == {<<6, 18>>, <<9, 9>>, <<11, 11>>, <<12, 12>>}

\* promo_marks, as <<month, day>>
PromoMarks(first, from, to) ==
    LET friday == BlackFriday(first)
        monday == IF friday + 3 > 30 THEN <<12, friday + 3 - 30>> ELSE <<11, friday + 3>>
        within(d) == /\ from[1] < d[1] \/ (from[1] = d[1] /\ from[2] <= d[2])
                     /\ d[1] < to[1] \/ (d[1] = to[1] /\ d[2] <= to[2])
    IN  {d \in FixedPromos \cup {<<11, friday>>, monday} : within(d)}

-----------------------------------------------------------------------------
\* sku_ranks: the days of a SKU, of one currency and one currency of the books.
DaysOf(days, sku) == {d \in days : d.sku = sku}

\* DashboardService.ranking: one open day leaves the SKU without a profit.
RankRow(days, sku) ==
    LET mine == DaysOf(days, sku)
        complete == \A d \in mine : d.complete
    IN  [sku |-> sku, complete |-> complete,
         net |-> IF complete THEN SumOf(Column(mine, "net")) ELSE None]

RankRows(days) == {RankRow(days, sku) : sku \in {d.sku : d \in days}}

\* rank_skus: only what is complete; the losses come from the same order.
RankSkus(rows, limit) ==
    LET ready == {r \in rows : r.complete /\ r.net # None}
        ordered == SetToSortSeq(ready, LAMBDA x, y :
                        x.net > y.net \/ (x.net = y.net /\ x.sku < y.sku))
        losses == SelectSeq(ordered, LAMBDA r : r.net < 0)
        some(s) == SubSeq(s, 1, IF Len(s) < limit THEN Len(s) ELSE limit)
    IN  [top |-> some(ordered), bottom |-> some(Reverse(ordered)), loss |-> some(losses)]

\* assess_inventory: a SKU that is sold out is not below its safety stock as well.
Assess(stocks) ==
    LET there == {s \in stocks : s.available # 0}
        stale == {s \in there : s.sold = 0}
        worth(s) == IF s.price = None THEN None ELSE s.price * s.available
    IN  [onHand |-> SumOf(Column(stocks, "available")),
         stockout |-> Cardinality(stocks \ there),
         belowSafe |-> Cardinality({s \in there : s.available < s.safe}),
         stale |-> Cardinality(stale),
         amounts |-> [c \in {s.currency : s \in stale} \ {None} |->
                        SumOptional([s \in {x \in stale : x.currency = c} |-> worth(s)])]]

\* latest_inventory
LatestHealth(rows, end) ==
    LET old == {r \in rows : r.day <= end}
    IN  IF old = {} THEN None ELSE CHOOSE r \in old : \A other \in old : other.day <= r.day

TurnoverDays(onHand, sold, days) == IF days <= 0 THEN None ELSE Ratio(onHand * days, sold)

\* DashboardService.inventory: the stock of the last rebuild, and what the window sold.
StockPage(rows, sold, window) ==
    LET row == LatestHealth(rows, window[2])
    IN  IF row = None THEN None
        ELSE TurnoverDays(row.onHand, sold, window[2] - window[1] + 1)

-----------------------------------------------------------------------------
(* The rebuilds.  The orders of a shop and a day are counted as one.       *)

Key == [shop: Shop, day: Day, currency: {"USD"}]

Facts ==
    [orders: [Key -> {0, 1}], profits: [Key -> {None, 0, 2}], ads: [Key -> {0, 1}],
     returns: [Key -> {0, 1}], shops: SUBSET Shop, stock: {0, 1}]

\* What the queries make of the facts.
OrderFacts(orders, days) ==
    [k \in {k \in DOMAIN orders : orders[k] > 0 /\ k.day \in days} |->
        [count |-> orders[k], gmv |-> orders[k], onTime |-> 0, late |-> 0]]

ProfitRows(profits, days) ==
    {LET net == IF profits[k] = 0 THEN None ELSE profits[k]
     IN  k @@ [book |-> 1, complete |-> net # None, net |-> net, bookRevenue |-> net,
               bookNet |-> net, lines |-> [code \in Codes |-> net]] :
        k \in {k \in DOMAIN profits : profits[k] # None /\ k.day \in days}}

AdFacts(ads, days) ==
    [k \in {k \in DOMAIN ads : ads[k] > 0 /\ k.day \in days} |->
        [spend |-> ads[k], sales |-> 0, losses |-> 1]]

ReturnFacts(returns, days) ==
    [k \in {k \in DOMAIN returns : returns[k] > 0 /\ k.day \in days} |-> returns[k]]

Span(window) == {d \in Day : window[1] <= d /\ d <= window[2]}

HealthOf(sold, available) ==
    Assess({[sku |-> 1, available |-> available, safe |-> 1, sold |-> sold, price |-> 1,
             currency |-> "USD"]})

\* The queries, in their order.
Reads == <<"orders", "profits", "ads", "returns", "shops">>

NoBuild == [step |-> "idle", window |-> <<>>, todo |-> <<>>, given |-> <<>>, seen |-> {},
            rows |-> {}, sold |-> 0, available |-> 0, seenHealth |-> None]

Answer(query, days) ==
    CASE query = "orders" -> OrderFacts(facts.orders, days)
      [] query = "profits" -> ProfitRows(facts.profits, days)
      [] query = "ads" -> AdFacts(facts.ads, days)
      [] query = "returns" -> ReturnFacts(facts.returns, days)
      [] query = "shops" -> facts.shops

RowsNow(days) == Assemble([q \in ToSet(Reads) |-> Answer(q, days)], 1)

TypeOK ==
    /\ facts \in Facts
    /\ \A r \in board : r.key \in Key /\ r.gmv \in Nat /\ r.complete \in BOOLEAN
    /\ calm \subseteq Builder /\ agreed \subseteq Day

\* The board is empty, or was built a while ago.
Init ==
    /\ facts = [orders |-> [k \in Key |-> IF k.day = 1 THEN 0 ELSE 1],
                profits |-> [k \in Key |-> None], ads |-> [k \in Key |-> 0],
                returns |-> [k \in Key |-> 0], shops |-> Shop, stock |-> 1]
    /\ board \in {{}, {r @@ [by |-> "before"] : r \in RowsNow(Day)}}
    /\ health = None
    /\ build = [b \in Builder |-> NoBuild]
    /\ calm = {} /\ agreed = {} /\ events = 0

-----------------------------------------------------------------------------
Happens(source, key, value) ==
    /\ events < MaxEvents /\ events' = events + 1
    /\ facts[source][key] # value
    /\ facts' = [facts EXCEPT ![source][key] = value]
    /\ calm' = {} /\ agreed' = {}
    /\ UNCHANGED <<board, health, build>>

\* An order is paid, or cancelled, ...
Order(k) == \E amount \in {0, 1} : Happens("orders", k, amount)

\* ... the profit of a day is written, ...
Materialize(k) == \E amount \in {0, 2} : Happens("profits", k, amount)

\* ... a report of advertising comes, ...
Advertise(k) == Happens("ads", k, 1)

\* ... goods come back, ...
Return(k) == Happens("returns", k, 1)

\* ... a shop is unbound, ...
Unbind(s) ==
    /\ events < MaxEvents /\ events' = events + 1
    /\ s \in facts.shops /\ facts' = [facts EXCEPT !.shops = @ \ {s}]
    /\ calm' = {} /\ agreed' = {}
    /\ UNCHANGED <<board, health, build>>

\* ... or goods move.
MoveStock ==
    /\ events < MaxEvents /\ events' = events + 1
    /\ facts' = [facts EXCEPT !.stock = 1 - @]
    /\ calm' = {} /\ agreed' = {}
    /\ UNCHANGED <<board, health, build>>

-----------------------------------------------------------------------------
Keep == UNCHANGED <<facts, events>>

\* rebuild, for the days of a window (_rebuild_tenant, or by hand).
Start(b, window) ==
    /\ build[b].step = "idle" /\ window \in Windows
    /\ build' = [build EXCEPT ![b] = [NoBuild EXCEPT !.step = "read", !.window = window,
                                                     !.todo = Reads]]
    /\ calm' = calm \cup {b}
    /\ UNCHANGED <<board, health, agreed>> /\ Keep

Read(b) ==
    /\ build[b].step = "read" /\ build[b].todo # <<>>
    /\ LET query == Head(build[b].todo)
       IN  build' = [build EXCEPT
               ![b].todo = Tail(@),
               ![b].given = (query :> Answer(query, Span(build[b].window))) @@ @]
    /\ UNCHANGED <<board, health, calm, agreed>> /\ Keep

InWindow(b) == {r \in board : r.day \in Span(build[b].window)}

\* replace_shop_days: the rows that the DELETE finds, though it may have to wait for them.
FindRows(b) ==
    /\ build[b].step = "read" /\ build[b].todo = <<>>
    /\ build' = [build EXCEPT ![b].step = "delete", ![b].seen = InWindow(b),
                              ![b].rows = {r @@ [by |-> b] : r \in Assemble(build[b].given, 1)},
                              ![b].given = <<>>]
    /\ UNCHANGED <<board, health, calm, agreed>> /\ Keep

Written == {"replaced", "sold", "stock", "health"}

Keys(rows) == {r.key : r \in rows}

\* Rows that another open transaction has deleted, or written under the same key.
Blocked(b) ==
    \E other \in Builder \ {b} :
        /\ build[other].step \in Written
        /\ \/ build[other].seen \cap build[b].seen # {}
           \/ Keys(build[other].rows) \cap Keys(build[b].rows) # {}

Left(b) == board \ build[b].seen

\* uq_dashboard_shop_daily_key
Twice(b) == Keys(Left(b)) \cap Keys(build[b].rows) # {}

Stop(b) == build' = [build EXCEPT ![b] = [NoBuild EXCEPT !.step = "over"]]

ReplaceRows(b) ==
    /\ build[b].step = "delete" /\ ~Blocked(b)
    /\ IF Twice(b) THEN Stop(b) ELSE build' = [build EXCEPT ![b].step = "replaced"]
    /\ UNCHANGED <<board, health, calm, agreed>> /\ Keep

\* sold_by_sku and inventory_balances
ReadSold(b) ==
    /\ build[b].step = "replaced"
    /\ build' = [build EXCEPT ![b].step = "sold", ![b].sold = SumOf(facts.orders)]
    /\ UNCHANGED <<board, health, calm, agreed>> /\ Keep

ReadStock(b) ==
    /\ build[b].step = "sold"
    /\ build' = [build EXCEPT ![b].step = "stock", ![b].available = facts.stock]
    /\ UNCHANGED <<board, health, calm, agreed>> /\ Keep

\* replace_inventory
FindHealth(b) ==
    /\ build[b].step = "stock"
    /\ build' = [build EXCEPT ![b].step = "health", ![b].seenHealth = health]
    /\ UNCHANGED <<board, health, calm, agreed>> /\ Keep

HealthTwice(b) == health # None /\ health # build[b].seenHealth

\* The row of the stock, and the commit of it all.
Commit(b) ==
    /\ build[b].step = "health" /\ ~HealthTwice(b)
    /\ board' = Left(b) \cup build[b].rows
    /\ health' = HealthOf(build[b].sold, build[b].available) @@ [by |-> b]
    /\ agreed' = IF b \in calm THEN agreed \cup Span(build[b].window)
                 ELSE agreed \ Span(build[b].window)
    /\ calm' = {}
    /\ Stop(b) /\ Keep

\* Two rows of stock for a day: everything is rolled back.
Fail(b) ==
    /\ build[b].step = "health" /\ HealthTwice(b)
    /\ Stop(b)
    /\ UNCHANGED <<board, health, calm, agreed>> /\ Keep

Works(b) ==
    \/ \E w \in Windows : Start(b, w)
    \/ Read(b) \/ FindRows(b) \/ ReplaceRows(b) \/ ReadSold(b) \/ ReadStock(b)
    \/ FindHealth(b) \/ Commit(b) \/ Fail(b)

Next ==
    \/ \E b \in Builder : Works(b)
    \/ \E k \in Key : Order(k) \/ Materialize(k) \/ Advertise(k) \/ Return(k)
    \/ \E s \in Shop : Unbind(s)
    \/ MoveStock

Spec == Init /\ [][Next]_vars

-----------------------------------------------------------------------------
\* A shop has one row for a day and a currency, whichever rebuilds cross: the second one to
\* insert a key that the first has just committed fails (uq_dashboard_shop_daily_key).
OneRowPerKey == \A r1, r2 \in board : r1.key = r2.key => r1 = r2

Known(k) == k.shop \in facts.shops \/ facts.orders[k] > 0

\* After a rebuild that nothing crossed, the days it was asked for show the paid orders, the
\* advertising and the returns in full, and a profit when, and only when, the books have the
\* whole profit of every shop that has a row (assemble_shop_days, replace_shop_days).
BoardAgrees ==
    \A d \in agreed :
        LET rows == {r \in board : r.day = d}
            keys == {k \in Key : k.day = d /\ Known(k)}
            told == {k \in keys : \/ facts.orders[k] + facts.ads[k] + facts.returns[k] > 0
                                  \/ facts.profits[k] # None}
        IN  /\ SumOf(Column(rows, "gmv")) = SumOf([k \in keys |-> facts.orders[k]])
            /\ SumOf(Column(rows, "returns")) = SumOf([k \in keys |-> facts.returns[k]])
            /\ SumOf(Column(rows, "losses")) = SumOf([k \in keys |-> facts.ads[k]])
            /\ rows # {} =>
                  Totals(rows).net =
                     SumOptional([k \in told |-> IF facts.profits[k] = 0 THEN None
                                                 ELSE facts.profits[k]])

BoardHolds == OneRowPerKey /\ BoardAgrees

-----------------------------------------------------------------------------
Added(rollups, name) == MapThenSumSet(LAMBDA r : r[name], rollups)

AllKnown(rollups) == \A r \in rollups : r.net # None

\* What the pages show of a window are parts of the same rows: by currency, by platform and by
\* day they come to the same orders and sales, and to the same profit, which is open in all of
\* them when it is open for one row (_currency_rollups, _platform_rollups, _day_rollups); the
\* items of the costs are known with it (summarize), and two windows add up to their union.
PagesAgree(rows) ==
    \A c \in {r.currency : r \in rows} :
        LET mine == {r \in rows : r.currency = c}
            byCurrency == {r \in CurrencyRollups(rows) : r.currency = c}
            byPlatform == {r \in PlatformRollups(rows) : r.currency = c}
            byDay == {r \in DayRollups(rows) : r.currency = c}
        IN  /\ \A rollups \in {byCurrency, byPlatform, byDay} :
                  /\ \A name \in {"count", "gmv", "onTime", "late", "returns"} :
                        Added(rollups, name) = SumOf(Column(mine, name))
                  /\ AllKnown(rollups) <=> AllKnown(mine)
                  /\ AllKnown(rollups) => Added(rollups, "net") = SumOf(Column(mine, "net"))
            /\ \A code \in Codes : CostLines(rows, c)[code] # None <=> AllKnown(mine)
            /\ Added(byCurrency, "losses") = SumOf(Column(mine, "losses"))

WindowsAddUp(rows, day) ==
    LET before == Totals({r \in rows : r.day <= day})
        after == Totals({r \in rows : r.day > day})
        whole == Totals(rows)
    IN  /\ \A name \in {"count", "gmv", "onTime", "late", "returns"} :
              whole[name] = before[name] + after[name]
        /\ whole.net = IF None \in {before.net, after.net} THEN None
                       ELSE before.net + after.net

\* Rates are between none and all, and open when nothing was counted; the shares of the costs
\* make a whole; a window beside itself has not changed (costs, fulfillment_rate, change_ratio).
RatiosHold(rows) ==
    /\ \A t \in PlatformRollups(rows) :
          /\ FulfillmentRate(t) \in 0..Unit \cup {None}
          /\ FulfillmentRate(t) = None <=> t.onTime + t.late = 0
          /\ ReturnRate(t) = None <=> t.count = 0
    /\ \A c \in {r.currency : r \in rows} :
          LET total == SumOptional(CostShares(rows, c))
          IN  total # None => total - Unit \in -3..3
    /\ \A r \in CurrencyRollups(rows) :
          Cardinality({o.book : o \in {o \in rows : o.currency = r.currency}}) = 1 =>
              /\ MoneyChange(r, rows).gmv \in {0, None} /\ MoneyChange(r, rows).net \in {0, None}
              /\ MoneyChange(r, {}).gmv = None

\* The stock lasts for the days that are shown, to the rounding; a window without sales, or
\* before the first rebuild, shows none (DashboardService.inventory, turnover_days).
StockLasts(rows, sold, window) ==
    LET days == StockPage(rows, sold, window)
        row == LatestHealth(rows, window[2])
    IN  IF sold = 0 \/ \A r \in rows : r.day > window[2] THEN days = None
        ELSE 2 * (days * sold - row.onHand * (window[2] - window[1] + 1) * Unit) \in (-sold)..sold

\* The database counts an order as in time, or late, exactly when the rule of the engine says so
\* (order_facts, shipment_timing).
TimingAgrees(order, now) ==
    LET fact == OrderFact({order}, now)
    IN  /\ fact.onTime = 1 <=> Timing(order, now) = "on_time"
        /\ fact.late = 1 <=> Timing(order, now) = "late"
        /\ fact.count = 1 <=> Timing(order, now) # "ignore"

\* No SKU that is ranked is beaten by one that is left out, the worst one leads the bottom, and
\* one whose profit is not known is not ranked (rank_skus).
RankHolds(days, limit) ==
    LET rows == RankRows(days)
        ranks == RankSkus(rows, limit)
        ready == {r \in rows : r.net # None}
    IN  /\ \A x \in ready \ ToSet(ranks.top), y \in ToSet(ranks.top) : x.net <= y.net
        /\ \A x \in ready \ ToSet(ranks.bottom), y \in ToSet(ranks.bottom) : x.net >= y.net
        /\ ToSet(ranks.top) \cup ToSet(ranks.bottom) \cup ToSet(ranks.loss) \subseteq ready
        /\ (\E r \in ready : r.net < 0) <=> ranks.loss # <<>>
        /\ \A r \in ready : \A d \in days : d.sku = r.sku => d.net # None
        /\ ranks.loss # <<>> => ranks.bottom[1].net = Min({r.net : r \in ready})

\* Two warehouses' worth of SKUs are assessed like both together (assess_inventory).
HealthAddsUp(stocks, others) ==
    LET whole == Assess(stocks \cup others)
        one == Assess(stocks)
        two == Assess(others \ stocks)
    IN  /\ \A name \in {"onHand", "stockout", "belowSafe", "stale"} :
              whole[name] = one[name] + two[name]
        /\ DOMAIN whole.amounts = DOMAIN one.amounts \cup DOMAIN two.amounts
        /\ \A c \in DOMAIN whole.amounts :
              whole.amounts[c] = SumOptional(<<At(one.amounts, c, 0), At(two.amounts, c, 0)>>)

\* Black Friday is the Friday after the fourth Thursday of November, whatever day the month
\* begins with, and the marks of a year fall apart at any day (black_friday, promo_marks); a
\* window is compared with as many days just before it (previous_window).
PromosHold(first, month, length) ==
    LET friday == BlackFriday(first)
        marks == PromoMarks(first, <<1, 1>>, <<12, 31>>)
    IN  /\ friday \in 23..29 /\ (first + friday - 1) % 7 = 4
        /\ Cardinality(marks) = 6
        /\ marks = PromoMarks(first, <<1, 1>>, <<month, 11>>)
                       \cup PromoMarks(first, <<month, 12>>, <<12, 31>>)
        /\ LET before == PreviousWindow(<<100, 99 + length>>)
           IN  before[2] = 99 /\ before[2] - before[1] + 1 = length
=============================================================================
