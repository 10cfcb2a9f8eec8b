----------------------------- MODULE LandedCost -----------------------------
(***************************************************************************)
(* What a piece costs from the purchase to the sale, in the currency of    *)
(* the sale (engines/landed_cost.py), what it has to be sold for and what  *)
(* it earns.  An item whose rule or input is missing is None, never 0.     *)
(* Money and rates are integers, counted in units of the last decimal; the *)
(* wording of formulas and sources is left out.                            *)
(***************************************************************************)
EXTENDS Integers, Sequences, FiniteSets, SequencesExt, FiniteSetsExt, Functions, TLC

CONSTANTS Unit,   \* units in one, 10^6 in the code
          Grams,  \* grams in a kilogramme
          Cbm,    \* volume of a cubic metre
          None

\* ROUND_HALF_UP of x / y, for y > 0.
Rounded(x, y) ==
    IF x >= 0 THEN (2 * x + y) \div (2 * y) ELSE -((y - 2 * x) \div (2 * y))

Times(x, rate) == Rounded(x * rate, Unit)

Landed == {"PURCHASE", "FIRST_MILE", "DUTY", "IMPORT_TAX", "BROKERAGE", "STORAGE",
           "FX_RESERVE"}

Deduction == {"COMMISSION", "PAYMENT", "FULFILLMENT", "ADS", "RETURN"}

ImportTaxes == {"VAT", "GST", "SST", "PPN", "SALES_TAX"}

\* _total.
Total(amounts) ==
    IF None \in Range(amounts) THEN None
    ELSE FoldFunction(LAMBDA x, y : x + y, 0, amounts)

-----------------------------------------------------------------------------
(* Which rule applies.                                                      *)

\* _pick_tax: the longest prefix of the HS code, else the only "*", here None.
PickTax(taxes, type, code) ==
    LET rows == {r \in taxes : r.type = type}
        wild == {r \in rows : r.pattern = None}
        specific == {r \in rows \ wild : IsPrefix(r.pattern, code)}
    IN  CASE specific # {} -> CHOOSE r \in specific : \A s \in specific :
                                 Len(s.pattern) <= Len(r.pattern)
          [] specific = {} /\ Cardinality(wild) = 1 -> CHOOSE r \in wild : TRUE
          [] OTHER -> None

\* _pick_fees: per label the rule of the channel, else that of "*"; None if two fit.
PickFees(fees, code, channel) ==
    LET of(label, c) == {r \in fees : r.code = code /\ r.label = label /\ r.channel = c}
        pool(label) == IF of(label, channel) # {} THEN of(label, channel) ELSE of(label, "*")
        labels == {r.label : r \in {f \in fees : f.code = code}}
    IN  IF \E label \in labels : Cardinality(pool(label)) > 1 THEN None
        ELSE UNION {pool(label) : label \in labels}

\* The one rule there is, or None.
TheFee(data, fees, code) ==
    LET chosen == PickFees(fees, code, data.channel)
    IN  IF chosen = None THEN None
        ELSE IF Cardinality(chosen) = 1 THEN CHOOSE r \in chosen : TRUE ELSE None

TheRate(data, fees, code) ==
    LET row == TheFee(data, fees, code)
    IN  IF row = None THEN None ELSE IF row.charge = "RATE" THEN row.amount ELSE None

-----------------------------------------------------------------------------
(* The items.                                                               *)

PurchaseCost(data) ==
    IF data.purchase = None \/ data.purchaseCurrency = None THEN None
    ELSE IF data.purchaseCurrency = data.currency THEN data.purchase
    ELSE IF data.fx # None /\ data.fx > 0 THEN Rounded(data.purchase * Unit, data.fx)
    ELSE None

Declared(data) == data.declared # None /\ data.declaredCurrency = data.currency

\* _blocked_by_threshold; None when the currencies differ.
Blocked(data, fact) ==
    IF fact.threshold = None THEN FALSE
    ELSE IF fact.thresholdCurrency # data.currency THEN None
    ELSE data.declared < fact.threshold

Duty(data, taxes) ==
    LET fact == PickTax(taxes, "DUTY", data.hs)
    IN  IF fact = None \/ ~Declared(data) THEN None
        ELSE CASE Blocked(data, fact) = None -> None
               [] Blocked(data, fact) = TRUE -> 0
               [] OTHER -> Times(data.declared, fact.rate)

ImportTax(data, taxes, duty) ==
    LET facts == {PickTax(taxes, type, data.hs) : type \in ImportTaxes} \ {None}
        tax(f) == IF Blocked(data, f) THEN 0
                  ELSE Rounded((data.declared + duty) * f.numerator * f.rate,
                               f.denominator * Unit)
    IN  IF facts = {} \/ ~Declared(data) \/ duty = None THEN None
        ELSE IF \E f \in facts : Blocked(data, f) = None THEN None
        ELSE Total([f \in facts |-> tax(f)])

Brokerage(data, fees) ==
    LET rows == PickFees(fees, "BROKERAGE", data.channel)
    IN  IF rows \in {None, {}} THEN None
        ELSE IF \E r \in rows : r.charge # "FIXED" \/ r.currency # data.currency THEN None
        ELSE Total([r \in rows |-> r.amount])

Storage(data, fees) ==
    LET row == TheFee(data, fees, "STORAGE")
    IN  CASE data.days = None -> None
          [] data.days = 0 -> 0
          [] OTHER -> IF row = None \/ data.volume = None THEN None
                      ELSE IF row.charge # "PER_CBM_DAY" \/ row.currency # data.currency
                      THEN None
                      ELSE Rounded(data.volume * data.days * row.amount, Cbm)

\* _allocation_metrics: of the piece and of the shipment.
Metrics(data, purchase) ==
    CASE data.method = "WEIGHT" -> <<data.weight, data.shipment.weight>>
      [] data.method = "VOLUME" -> <<data.volume, data.shipment.volume>>
      [] data.method = "VALUE" -> <<IF Declared(data) THEN data.declared ELSE purchase,
                                    data.shipment.value>>

Share(data, purchase) ==
    LET metric == Metrics(data, purchase)
    IN  IF data.shipment.cost = None \/ data.shipment.currency # data.currency
           \/ None \in Range(metric)
        THEN None
        ELSE IF metric[2] > 0 THEN Rounded(data.shipment.cost * metric[1], metric[2])
        ELSE None

\* The greater of the two weights; rounding keeps the order.
ByWeight(data, row) ==
    LET actual == IF data.weight = None THEN {} ELSE {Rounded(data.weight * row.amount, Grams)}
        volumetric == IF None \in {row.divisor, data.volume} THEN {}
                      ELSE {Rounded(data.volume * row.amount, row.divisor)}
    IN  IF actual \cup volumetric = {} THEN None ELSE Max(actual \cup volumetric)

Chargeable(data, fees) ==
    LET row == TheFee(data, fees, "FIRST_MILE")
    IN  IF row = None \/ row.currency # data.currency THEN None
        ELSE CASE row.charge = "FIXED" -> row.amount
               [] row.charge = "PER_CBM" -> IF data.volume = None THEN None
                                            ELSE Rounded(data.volume * row.amount, Cbm)
               [] row.charge = "PER_KG" -> ByWeight(data, row)
               [] OTHER -> None

FirstMile(data, fees, purchase) ==
    IF data.method = "CHARGEABLE" THEN Chargeable(data, fees) ELSE Share(data, purchase)

FxReserve(data, fees, parts) ==
    LET rate == TheRate(data, fees, "FX_RESERVE")
    IN  IF None \in {rate, Total(parts)} THEN None ELSE Times(Total(parts), rate)

RateOfPrice(data, fees, code) ==
    LET rate == TheRate(data, fees, code)
    IN  IF None \in {rate, data.price} THEN None ELSE Times(data.price, rate)

Fulfillment(data, fees) ==
    LET row == TheFee(data, fees, "FULFILLMENT")
    IN  IF row = None THEN None
        ELSE IF row.charge = "FIXED"
        THEN IF row.currency = data.currency THEN row.amount ELSE None
        ELSE RateOfPrice(data, fees, "FULFILLMENT")

ReturnLoss(data, fees) ==
    LET rate == TheRate(data, fees, "RETURN_RATE")
        loss == TheRate(data, fees, "RETURN_LOSS")
    IN  IF None \in {rate, loss, data.price} THEN None
        ELSE Rounded(data.price * rate * loss, Unit * Unit)

-----------------------------------------------------------------------------

\* gate: an item that the tenant has switched off.
Gated(code, amount, disabled) == IF code \in disabled THEN 0 ELSE amount

\* The items of compute_landed_cost; each is gated before others build on it.
CostItems(data, taxes, fees, disabled) ==
    LET gate(code, amount) == Gated(code, amount, disabled)
        purchase == gate("PURCHASE", PurchaseCost(data))
        duty == gate("DUTY", Duty(data, taxes))
        base == [PURCHASE |-> purchase,
                 FIRST_MILE |-> gate("FIRST_MILE", FirstMile(data, fees, purchase)),
                 DUTY |-> duty,
                 IMPORT_TAX |-> gate("IMPORT_TAX", ImportTax(data, taxes, duty)),
                 BROKERAGE |-> gate("BROKERAGE", Brokerage(data, fees)),
                 STORAGE |-> gate("STORAGE", Storage(data, fees))]
        sale == [FX_RESERVE |-> gate("FX_RESERVE", FxReserve(data, fees, base)),
                 FULFILLMENT |-> gate("FULFILLMENT", Fulfillment(data, fees)),
                 RETURN |-> gate("RETURN", ReturnLoss(data, fees))]
        rates == [code \in {"COMMISSION", "PAYMENT", "ADS"} |->
                    gate(code, RateOfPrice(data, fees, code))]
    IN  base @@ sale @@ rates

Of(items, codes) == [code \in codes |-> items[code]]

LandedCostOf(items) == Total(Of(items, Landed))

NetProfit(data, items) ==
    LET landed == LandedCostOf(items)
        deducted == Total(Of(items, Deduction))
    IN  IF None \in {landed, deducted, data.price} THEN None
        ELSE data.price - landed - deducted

\* In units of a percent.
Margin(data, items) ==
    LET net == NetProfit(data, items)
    IN  IF net = None THEN None
        ELSE IF data.price > 0 THEN Rounded(net * 100 * Unit, data.price) ELSE None

-----------------------------------------------------------------------------
(* How the cost of a first-mile shipment is shared among its lines          *)
(* (engines/purchase.py).  A metric is the weight, the volume or the value  *)
(* of all pieces of a line.                                                 *)

Added(sequence) == FoldLeft(LAMBDA x, y : x + y, 0, sequence)

\* _metric.
Metric(line, method) ==
    line.quantity * CASE method = "WEIGHT" -> line.weight
                      [] method = "VOLUME" -> line.volume
                      [] method = "VALUE" -> line.value

\* allocate: what rounding leaves goes to the first of the greatest lines.
Shares(total, metrics) ==
    LET rounded == [i \in DOMAIN metrics |-> Rounded(total * metrics[i], Added(metrics))]
        greatest == {i \in DOMAIN metrics : \A j \in DOMAIN metrics : metrics[j] <= metrics[i]}
    IN  [rounded EXCEPT ![Min(greatest)] = @ + total - Added(rounded)]

-----------------------------------------------------------------------------
(***************************************************************************)
(* Nothing of the cost is lost or made up, and no line bears more than     *)
(* half a unit off its share, but for one of the greatest lines, which     *)
(* bears what the other lines' rounding leaves (allocate).                 *)
(***************************************************************************)
SharedOut(total, metrics) ==
    LET shares == Shares(total, metrics)
        sum == Added(metrics)
        off(i) == Max({2 * shares[i] * sum - 2 * total * metrics[i],
                       2 * total * metrics[i] - 2 * shares[i] * sum})
        exact == {i \in DOMAIN metrics : off(i) <= sum}
    IN  /\ Added(shares) = total
        /\ \E i \in DOMAIN metrics :
              /\ \A j \in DOMAIN metrics : metrics[j] <= metrics[i]
              /\ DOMAIN metrics \ {i} \subseteq exact
              /\ off(i) <= Len(metrics) * sum

-----------------------------------------------------------------------------
(* The price for a net margin (engines/pricing.py): the cost engine is      *)
(* asked at three prices, its items are split into what is fixed and what   *)
(* grows with the price, and the equation is solved.                        *)

\* What the costs are computed from, but for the price.
ItemsAt(case, price) ==
    CostItems([case.data EXCEPT !.price = price], case.taxes, case.fees, case.disabled)

Code == Landed \cup Deduction

\* The runs of _decompose, for the prices 1, 2 and 4.
Runs(case) == [p \in {1, 2, 4} |-> ItemsAt(case, p * Unit)]

Gaps(runs) == {code \in Code : \E p \in DOMAIN runs : runs[p][code] = None}

\* The slopes are in units per one.
Slope(runs, code) == runs[2][code] - runs[1][code]

Straight(runs, code) == 2 * Slope(runs, code) - (runs[4][code] - runs[2][code]) \in -4..4

Fixed(runs) == FoldSet(LAMBDA code, sum : sum + runs[1][code] - Slope(runs, code), 0, Code)

Variable(runs) == FoldSet(LAMBDA code, sum : sum + Slope(runs, code), 0, Code)

\* What is left of 100% of the price, in units of a percent.
Rest(runs, target) == 100 * Unit - 100 * Variable(runs) - target

\* Faulty: the margin is put on top of the costs.
SolvedOnCost(runs, target) ==
    Rounded(Fixed(runs) * (100 * Unit + target), 100 * Unit - 100 * Variable(runs))

Solved(runs, target) == Rounded(Fixed(runs) * 100 * Unit, Rest(runs, target))

\* The margins at a price and its neighbours.
Margins(case, price) ==
    [p \in {q \in {price - 1, price, price + 1} : q > 0} |->
       Margin([case.data EXCEPT !.price = p], ItemsAt(case, p))]

Distance(x, y) == IF x < y THEN y - x ELSE x - y

\* _match_margin: the neighbour whose margin is nearest to the target.
Nearest(margins, target, price) ==
    LET best == {p \in DOMAIN margins : \A q \in DOMAIN margins :
                   Distance(margins[p], target) <= Distance(margins[q], target)}
    IN  IF price \in best THEN price ELSE Min(best)

Matched(case, target, price) == Nearest(Margins(case, price), target, price)

\* _quote; None when no price reaches the target.
QuoteFor(case, runs, target) ==
    IF Gaps(runs) # {} \/ \E code \in Code : ~Straight(runs, code) THEN None
    ELSE IF Fixed(runs) <= 0 \/ Rest(runs, target) <= 0 THEN None
    ELSE Matched(case, target, Solved(runs, target))

Quote(case, target) == QuoteFor(case, Runs(case), target)

\* _quantity: how many have to be sold at the reference price.
BreakEvenQuantity(case, periodCost, suggested) ==
    LET given == case.data.price # None /\ case.data.price > 0
        price == IF given THEN case.data.price ELSE suggested
        net == NetProfit([case.data EXCEPT !.price = price], ItemsAt(case, price))
    IN  IF None \in {periodCost, price} THEN None
        ELSE IF net = None THEN None
        ELSE IF net > 0 THEN Rounded(periodCost * Unit, net) ELSE None

-----------------------------------------------------------------------------
ReturnShare(case) ==
    LET rate == TheRate(case.data, case.fees, "RETURN_RATE")
        loss == TheRate(case.data, case.fees, "RETURN_LOSS")
    IN  IF None \in {rate, loss} THEN 0 ELSE rate * loss

(***************************************************************************)
(* The suggested price brings the target margin: the net profit it brings  *)
(* is that share of the price, up to what the items are rounded by, as     *)
(* long as the return loss has no more decimals than a rate                *)
(* (suggest_prices).  The price of margin 0 brings nothing.                *)
(***************************************************************************)
MeetsTarget(case, target) ==
    LET met(price, net) == /\ net # None
                           /\ Distance(net * 100 * Unit, target * price) <= 4 * 100 * Unit
        reached(price) ==
            price # None /\ ReturnShare(case) % Unit = 0 =>
                met(price, NetProfit([case.data EXCEPT !.price = price], ItemsAt(case, price)))
    IN  reached(Quote(case, target))

-----------------------------------------------------------------------------
(* The profit of a SKU on a day (engines/profit.py): the items of its order *)
(* lines are added up, and told again as a waterfall.  A line of the day is *)
(* [quantity, price, items].                                                *)

Revenue(lines) == Added([i \in DOMAIN lines |-> lines[i].price * lines[i].quantity])

\* _combine, for one item.
Combined(lines, code) ==
    Total([i \in DOMAIN lines |->
             LET amount == lines[i].items[code]
             IN  IF amount = None THEN None ELSE amount * lines[i].quantity])

Combine(lines) == [code \in Landed \cup Deduction |-> Combined(lines, code)]

InBook(amount, rate) == IF amount = None THEN None ELSE Times(amount, rate)

\* rollup_daily; without a rate of the book's currency costs stay empty.
Rollup(lines, rate) ==
    LET cost == Total(Combine(lines))
        net == IF cost = None THEN None ELSE Revenue(lines) - cost
    IN  IF rate = None
        THEN [revenue |-> Revenue(lines), cost |-> None, net |-> None,
              bookRevenue |-> None, bookCost |-> None, bookNet |-> None]
        ELSE [revenue |-> Revenue(lines), cost |-> cost, net |-> net,
              bookRevenue |-> InBook(Revenue(lines), rate), bookCost |-> InBook(cost, rate),
              bookNet |-> InBook(net, rate)]

\* fx_gain_loss: beside the profit, never in it.
FxGain(amount, ordered, settled) ==
    IF None \in {ordered, settled} THEN None ELSE Times(amount, settled - ordered)

Steps == <<"PURCHASE", "FIRST_MILE", "DUTY", "IMPORT_TAX", "BROKERAGE", "STORAGE",
           "FX_RESERVE", "COMMISSION", "PAYMENT", "FULFILLMENT", "ADS", "RETURN">>

\* build_waterfall: what is left after each step; nothing after a gap.
Running(revenue, costs) ==
    [i \in 1..Len(Steps) |->
       LET taken == [j \in 1..i |-> costs[Steps[j]]]
       IN  IF Total(taken) = None THEN None ELSE revenue - Total(taken)]

-----------------------------------------------------------------------------
\* A row of sku_profit_daily.
DayRow(lines, rate) ==
    Rollup(lines, rate) @@ [quantity |-> Added([i \in DOMAIN lines |-> lines[i].quantity]),
                            items |-> Combine(lines)]

Column(rows, name) == [i \in DOMAIN rows |-> rows[i][name]]

\* _row_view: an amount that is open on one day is open for the period.
PeriodRow(rows) ==
    [revenue |-> Added(Column(rows, "revenue")), quantity |-> Added(Column(rows, "quantity")),
     cost |-> Total(Column(rows, "cost")), net |-> Total(Column(rows, "net")),
     bookRevenue |-> Total(Column(rows, "bookRevenue")),
     bookNet |-> Total(Column(rows, "bookNet"))]

\* _sum_lines.
PeriodItems(rows) ==
    [code \in Landed \cup Deduction |-> Total([i \in DOMAIN rows |-> rows[i].items[code]])]

\* Days since a Monday, the first of January of a leap year.
FirstsOfMonths == {0, 31, 60, 91, 121, 152, 182, 213, 244, 274, 305, 335, 366, 397}

PeriodBounds(day, grain) ==
    CASE grain = "day" -> <<day, day>>
      [] grain = "week" -> <<day - (day % 7), day - (day % 7) + 6>>
      [] grain = "month" -> <<Max({f \in FirstsOfMonths : f <= day}),
                              Min({f \in FirstsOfMonths : f > day}) - 1>>

-----------------------------------------------------------------------------
\* Which rules an item cannot do without.
NeedsFee == [BROKERAGE |-> {"BROKERAGE"}, FX_RESERVE |-> {"FX_RESERVE"},
             COMMISSION |-> {"COMMISSION"}, PAYMENT |-> {"PAYMENT"},
             FULFILLMENT |-> {"FULFILLMENT"}, ADS |-> {"ADS"},
             RETURN |-> {"RETURN_RATE", "RETURN_LOSS"}]

Founded(case, items) ==
    /\ \A code \in DOMAIN NeedsFee \ case.disabled : items[code] # None =>
          NeedsFee[code] \subseteq {r.code : r \in case.fees}
    /\ "DUTY" \notin case.disabled /\ items["DUTY"] # None =>
          \E r \in case.taxes : r.type = "DUTY"

(***************************************************************************)
(* The day's profit is the sum of its lines' profits; the waterfall ends   *)
(* with it; in the book's currency revenue, costs and profit differ by no  *)
(* more than a rounding; and an item without a rule is not taken for free, *)
(* but leaves the profit open (compute_landed_cost, rollup_daily,          *)
(* build_waterfall).                                                       *)
(***************************************************************************)
AddsUp(case, lines, rate) ==
    LET day == Rollup(lines, rate)
        nets == [i \in DOMAIN lines |->
                   LET net == NetProfit([case.data EXCEPT !.price = lines[i].price],
                                        lines[i].items)
                   IN  IF net = None THEN None ELSE net * lines[i].quantity]
    IN  /\ rate # None => day.net = Total(nets)
        /\ day.net # None =>
              /\ Running(day.revenue, Combine(lines))[Len(Steps)] = day.net
              /\ day.bookRevenue - day.bookCost - day.bookNet \in -1..1
        /\ \A i \in DOMAIN lines : Founded(case, lines[i].items)

(***************************************************************************)
(* A period's profit is what its waterfall ends with, and the sum of its   *)
(* days' profits, unless a day's is open (list_profit, waterfall).         *)
(***************************************************************************)
PeriodAddsUp(rows) ==
    LET period == PeriodRow(rows)
        steps == Running(period.revenue, PeriodItems(rows))
    IN  /\ period.net = None <=> \E i \in DOMAIN rows : rows[i].net = None
        /\ period.net # None =>
              /\ steps[Len(Steps)] = period.net
              /\ period.net = period.revenue - period.cost

(***************************************************************************)
(* The periods of a grain part the days: a row is in one period, and two   *)
(* rows of one period show the same bounds (period_bounds, list_profit).   *)
(***************************************************************************)
PeriodsPart(day) ==
    \A grain \in {"day", "week", "month"} :
        LET bounds == PeriodBounds(day, grain) IN
        /\ day \in bounds[1]..bounds[2]
        /\ \A d \in bounds[1]..bounds[2] : PeriodBounds(d, grain) = bounds
=============================================================================
