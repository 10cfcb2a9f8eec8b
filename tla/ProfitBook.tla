----------------------------- MODULE ProfitBook -----------------------------
(***************************************************************************)
(* The books of profit (services/profit.py): exchange rates, and one row a *)
(* day for each SKU, worked out from the lines of orders; and settlements  *)
(* of the platforms beside the orders (engines/settlement.py).             *)
(*                                                                         *)
(* A run reads the order lines of its days in one query, looks up each     *)
(* day's rate once, reads and writes one row after the other, and commits  *)
(* them all.  Rows that it wrote stay locked until then.  What a row says  *)
(* is kept as what it was worked out from: lines with amounts, and a rate. *)
(***************************************************************************)
EXTENDS Integers, FiniteSets, Sequences, FiniteSetsExt, SequencesExt, TLC

CONSTANTS Runner, OrderLine, Sku, Day,
          Amounts,     \* what a line may come to
          MaxEvents,   \* bound on changes of lines and on new rates
          None

Key == Sku \X Day

VARIABLES
    line,    \* lines of orders: when paid, matched with which SKU, how much
    rates,   \* the days from which a rate is in force
    daily,   \* committed rows of sku_profit_daily
    run,     \* what a run has read and written
    stale,   \* rows that do not come from a run that read after the last change
    events

vars == <<line, rates, daily, run, stale, events>>

LineRow == [day: Day, sku: Sku \cup {None}, amount: Amounts]

Row == [of: SUBSET (OrderLine \X Amounts), rate: Day \cup {None}]

Column == DOMAIN [of |-> {}, rate |-> None]

TypeOK ==
    /\ line \in [OrderLine -> LineRow]
    /\ rates \subseteq Day
    /\ daily \in [Key -> Row \cup {None}]
    /\ \A r \in Runner : DOMAIN run[r].writes \cup run[r].todo \subseteq DOMAIN run[r].groups
    /\ stale \subseteq Key

NoRun == [step |-> "idle", groups |-> <<>>, todo |-> {}, rates |-> <<>>, now |-> None,
          copy |-> None, writes |-> <<>>, fresh |-> {}]

Init ==
    /\ line \in [OrderLine -> LineRow]
    /\ \A l \in OrderLine : line[l].amount = Min(Amounts)
    /\ rates = {}
    /\ daily = [k \in Key |-> None]
    /\ run = [r \in Runner |-> NoRun]
    /\ stale = Key
    /\ events = 0

-----------------------------------------------------------------------------
Happens == events < MaxEvents /\ events' = events + 1

\* A change of what the rows of these keys are worked out from.
Outdates(keys) ==
    /\ stale' = stale \cup keys
    /\ run' = [r \in Runner |-> [run[r] EXCEPT !.fresh = @ \ keys]]

\* A pull pays an order on another day, matches its line with a SKU, or corrects it.
ChangeLine(l, now) ==
    /\ Happens
    /\ now # line[l]
    /\ line' = [line EXCEPT ![l] = now]
    /\ Outdates({k \in Key : \E is \in {line[l], now} : k = <<is.sku, is.day>>})
    /\ UNCHANGED <<rates, daily>>

\* create_rate: a second rate of a day is refused, locked or not; nothing changes a rate.
CreateRate(d) ==
    LET later == {e \in Day : e >= d}
        Looked(r) == later \cap DOMAIN run[r].rates
    IN  /\ Happens
        /\ d \notin rates
        /\ rates' = rates \cup {d}
        /\ stale' = stale \cup (Sku \X later)
        /\ run' = [r \in Runner |-> [run[r] EXCEPT !.fresh = @ \ (Sku \X Looked(r))]]
        /\ UNCHANGED <<line, daily>>

-----------------------------------------------------------------------------
\* order_lines and the groups of materialize.
Grouped(days) ==
    {<<k, {<<l, line[l].amount>> : l \in {m \in OrderLine : k = <<line[m].sku, line[m].day>>}}>>
        : k \in Sku \X days}

Start(r, days) ==
    LET found == {g \in Grouped(days) : g[2] # {}}
        keys == {g[1] : g \in found}
    IN  /\ run[r].step = "idle"
        /\ run' = [run EXCEPT ![r] =
             [NoRun EXCEPT !.step = "rate", !.todo = keys, !.fresh = keys,
                           !.groups = [k \in keys |-> (CHOOSE g \in found : g[1] = k)[2]]]]
        /\ UNCHANGED <<line, rates, daily, stale, events>>

\* ExchangeRateRepository.latest.
Latest(d) ==
    LET known == {e \in rates : e <= d} IN IF known = {} THEN None ELSE Max(known)

\* _rate: the first row of a day looks its rate up.
LookUp(r, k) ==
    /\ run[r].step = "rate" /\ k \in run[r].todo
    /\ run' = [run EXCEPT ![r].step = "row", ![r].todo = @ \ {k},
                          ![r].rates = @ @@ (k[2] :> Latest(k[2])),
                          ![r].now = k]
    /\ UNCHANGED <<line, rates, daily, stale, events>>

\* get_key.
ReadRow(r) ==
    /\ run[r].step = "row"
    /\ run' = [run EXCEPT ![r].step = "save", ![r].copy = daily[run[r].now]]
    /\ UNCHANGED <<line, rates, daily, stale, events>>

RowLocked(k, r) == \E other \in Runner \ {r} : k \in DOMAIN run[other].writes

NewRow(r) == [of |-> run[r].groups[run[r].now], rate |-> run[r].rates[run[r].now[2]]]

\* The columns that a flush writes: all of an insert, else those that differ from the copy.
Written(copy, new) ==
    IF copy = None THEN Column ELSE {c \in Column : copy[c] # new[c]}

\* Somebody else wrote the row since it was read.
Crossed(r) == daily[run[r].now] # run[r].copy

\* _save_daily, up to the flush; it waits for a row that another run wrote.
SaveRow(r) ==
    LET k == run[r].now IN
    /\ run[r].step = "save"
    /\ ~RowLocked(k, r)
    /\ ~(run[r].copy = None /\ daily[k] # None)
    /\ run' = [run EXCEPT ![r].step = "rate",
                          ![r].writes = @ @@ (k :> [row |-> NewRow(r),
                                                    columns |-> Written(run[r].copy, NewRow(r))]),
                          ![r].fresh = IF Crossed(r) THEN @ \ {k} ELSE @]
    /\ UNCHANGED <<line, rates, daily, stale, events>>

After(row, write) ==
    IF row = None THEN write.row
    ELSE [c \in Column |-> IF c \in write.columns THEN write.row[c] ELSE row[c]]

Commit(r) ==
    LET writes == run[r].writes IN
    /\ run[r].step = "rate" /\ run[r].todo = {}
    /\ daily' = [k \in Key |-> IF k \in DOMAIN writes THEN After(daily[k], writes[k])
                               ELSE daily[k]]
    /\ stale' = (stale \ run[r].fresh) \cup (DOMAIN writes \ run[r].fresh)
    /\ run' = [run EXCEPT ![r] = NoRun]
    /\ UNCHANGED <<line, rates, events>>

\* A second row of one key, a deadlock of two runs, a lost worker: nothing of the run stays.
Fail(r) ==
    /\ run[r].step # "idle"
    /\ run' = [run EXCEPT ![r] = NoRun]
    /\ UNCHANGED <<line, rates, daily, stale, events>>

Next ==
    \/ \E l \in OrderLine, now \in LineRow : ChangeLine(l, now)
    \/ \E d \in Day : CreateRate(d)
    \/ \E r \in Runner :
          \/ \E days \in {Day} \cup {{d} : d \in Day} : Start(r, days)
          \/ \E k \in Key : LookUp(r, k)
          \/ ReadRow(r) \/ SaveRow(r) \/ Commit(r) \/ Fail(r)

Spec == Init /\ [][Next]_vars

-----------------------------------------------------------------------------
\* Settlements: lines are [order, amount, currency], and orders are known by their names.
Names(lines) == {lines[i].order : i \in DOMAIN lines}

LinesFor(lines, name) == {i \in DOMAIN lines : lines[i].order = name}

Amount(lines, some) == MapThenSumSet(LAMBDA i : lines[i].amount, some)

OneCurrency(lines, some) ==
    IF Cardinality({lines[i].currency : i \in some}) = 1 THEN lines[Min(some)].currency ELSE None

\* _gap: what was settled for an order beside what it was sold for.
Gap(lines, orders, name) ==
    LET some == LinesFor(lines, name)
        currency == OneCurrency(lines, some)
        amount == IF currency = None THEN None ELSE Amount(lines, some)
        compared == name \in DOMAIN orders /\ currency = orders[name].currency
    IN  [matched |-> name \in DOMAIN orders, amount |-> amount, currency |-> currency,
         deviation |-> IF compared THEN amount - orders[name].total ELSE None]

Matched(lines, orders) == {i \in DOMAIN lines : lines[i].order \in DOMAIN orders}

HeaderAmount(lines, currency) ==
    Amount(lines, {i \in DOMAIN lines : lines[i].currency = currency})

-----------------------------------------------------------------------------
(***************************************************************************)
(* A row tells of all lines of its day, at the newest rate of that day,    *)
(* when the run that wrote it read after their last change and wrote over  *)
(* no other run (materialize).  Otherwise a key that lost its last line    *)
(* keeps its row, and an older run overwrites a newer one.                 *)
(***************************************************************************)
BookTells ==
    \A k \in Key \ stale :
        LET row == daily[k] IN
        /\ row # None
        /\ row.of = {<<l, line[l].amount>> : l \in {m \in OrderLine : line[m].sku = k[1]
                                                             /\ line[m].day = k[2]}}
        /\ row.rate = None => \A d \in rates : d > k[2]
        /\ row.rate # None => row.rate <= k[2] /\ \A d \in rates : d <= row.rate \/ d > k[2]

(***************************************************************************)
(* What a settlement pays in a currency is, for the orders that can be     *)
(* compared, their totals and deviations, and for the others their lines:  *)
(* nothing is converted, lost or counted twice (reconcile, header_amount). *)
(***************************************************************************)
SettlementAdds(lines, orders, currency) ==
    LET Told(name) == Gap(lines, orders, name)
        compared == {n \in Names(lines) : Told(n).deviation # None
                                         /\ Told(n).currency = currency}
        rest == {i \in DOMAIN lines : lines[i].order \notin compared
                                     /\ lines[i].currency = currency}
    IN  /\ HeaderAmount(lines, currency) =
              MapThenSumSet(LAMBDA n : orders[n].total + Told(n).deviation, compared)
              + Amount(lines, rest)
        /\ \A i \in DOMAIN lines :
              i \in Matched(lines, orders) <=> Told(lines[i].order).matched
=============================================================================
