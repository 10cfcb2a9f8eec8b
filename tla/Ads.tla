-------------------------------- MODULE Ads --------------------------------
(***************************************************************************)
(* What the advertising of a shop costs and brings (services/ads.py,       *)
(* engines/ads.py), for one campaign.                                      *)
(*                                                                         *)
(* A sync, by hand or by Beat, pulls the platform's report of some days,   *)
(* looks up the margin of each day in the books of profit, and writes a    *)
(* row for each day, all in one transaction.  The platform corrects its    *)
(* report later, and the books are written after the day.                  *)
(***************************************************************************)
EXTENDS Integers, FiniteSets, Sequences, FiniteSetsExt, SequencesExt, TLC

CONSTANTS Syncer, Day,
          Unit,        \* units in one, 10^6 in the code
          Figures,     \* what a day may come to: [spend, sales]
          Margins,     \* what a sale earns, in units
          MaxEvents,   \* bound on corrections, margins and links
          None

VARIABLES
    report,    \* the figures of the days at the platform
    margin,    \* the margins that the books of profit give
    linked,    \* the campaign's SKU is linked with one of ours
    campaign,  \* there is a row for the campaign
    metric,    \* committed rows of ad_metric_daily
    sync,      \* what a sync has pulled, read and written
    stale,     \* rows not from a sync that read after the last change
    torn,      \* rows where one sync wrote across another
    events

vars == <<report, margin, linked, campaign, metric, sync, stale, torn, events>>

Column == {"spend", "sales", "margin", "loss"}

Row == [spend: Nat, sales: Nat, margin: Margins \cup {None}, loss: BOOLEAN]

TypeOK ==
    /\ report \in [Day -> Figures] /\ margin \in [Day -> Margins \cup {None}]
    /\ linked \in BOOLEAN /\ campaign \in BOOLEAN
    /\ \A d \in Day : metric[d] = None \/ metric[d] \in Row
    /\ \A d \in Day : metric[d] # None => campaign
    /\ torn \subseteq stale /\ stale \subseteq Day

NoSync == [step |-> "idle", pulled |-> <<>>, todo |-> {}, day |-> None, linked |-> FALSE,
           creates |-> FALSE, margin |-> None, copy |-> None, writes |-> <<>>,
           fresh |-> {}, crossed |-> {}]

Init ==
    /\ report \in [Day -> {CHOOSE f \in Figures : f.sales = 0}]
    /\ margin = [d \in Day |-> None] /\ linked = TRUE
    /\ campaign = FALSE /\ metric = [d \in Day |-> None]
    /\ sync = [s \in Syncer |-> NoSync]
    /\ stale = Day /\ torn = {} /\ events = 0

-----------------------------------------------------------------------------
Happens == events < MaxEvents /\ events' = events + 1

Outdates(days) ==
    /\ stale' = stale \cup days
    /\ sync' = [s \in Syncer |-> [sync[s] EXCEPT !.fresh = @ \ days]]

\* Sales are put down to an advertisement days later.
Correct(d, figures) ==
    /\ Happens
    /\ figures # report[d] /\ report' = [report EXCEPT ![d] = figures]
    /\ Outdates({d})
    /\ UNCHANGED <<margin, linked, campaign, metric, torn>>

\* The day's profit is materialized; the rows of the advertising are not touched.
Materialize(d, earned) ==
    /\ Happens
    /\ earned # margin[d] /\ margin' = [margin EXCEPT ![d] = earned]
    /\ Outdates({d})
    /\ UNCHANGED <<report, linked, campaign, metric, torn>>

Link ==
    /\ Happens
    /\ linked' = ~linked
    /\ Outdates(Day)
    /\ UNCHANGED <<report, margin, campaign, metric, torn>>

-----------------------------------------------------------------------------
\* quantize, ROUND_HALF_UP.
Rounded(x, y) ==
    IF x >= 0 THEN (2 * x + y) \div (2 * y) ELSE -((y - 2 * x) \div (2 * y))

Ratio(numerator, denominator) ==
    IF denominator = 0 THEN None ELSE Rounded(numerator * Unit, denominator)

\* gross_margin_ratio: what is left of a sale after its landed cost.
GrossMargin(revenue, landed) ==
    IF revenue <= 0 \/ landed = None THEN None ELSE Ratio(revenue - landed, revenue)

\* _loss: no sales for money spent, or more spent on a sale than it earns.
Loss(spend, sales, earned) ==
    /\ spend > 0
    /\ sales = 0 \/ (earned # None /\ Ratio(spend, sales) > earned)

\* _pull, page by page; a campaign of a later page may come again.
Pull(s, days) ==
    /\ sync[s].step = "idle"
    /\ sync' = [sync EXCEPT ![s] = [NoSync EXCEPT !.step = "link", !.todo = days, !.fresh = days,
                                                  !.pulled = [d \in days |-> report[d]]]]
    /\ UNCHANGED <<report, margin, linked, campaign, metric, stale, torn, events>>

Creating(s) == \E other \in Syncer \ {s} : sync[other].creates

\* linked_sku_id and _upsert_campaign: the second insert waits for the first, and fails.
FindCampaign(s) ==
    /\ sync[s].step = "link"
    /\ ~campaign => ~Creating(s)
    /\ sync' = [sync EXCEPT ![s].step = "day", ![s].linked = linked, ![s].creates = ~campaign]
    /\ UNCHANGED <<report, margin, linked, campaign, metric, stale, torn, events>>

\* _margin: unknown without a SKU or without a row in the books.
ReadMargin(s, d) ==
    /\ sync[s].step = "day" /\ d \in sync[s].todo
    /\ sync' = [sync EXCEPT ![s].step = "find", ![s].day = d, ![s].todo = @ \ {d},
                            ![s].margin = IF sync[s].linked THEN margin[d] ELSE None]
    /\ UNCHANGED <<report, margin, linked, campaign, metric, stale, torn, events>>

FindDay(s) ==
    /\ sync[s].step = "find"
    /\ sync' = [sync EXCEPT ![s].step = "save", ![s].copy = metric[sync[s].day]]
    /\ UNCHANGED <<report, margin, linked, campaign, metric, stale, torn, events>>

\* plan_day.
Planned(figures, earned) ==
    [spend |-> figures.spend, sales |-> figures.sales, margin |-> earned,
     loss |-> Loss(figures.spend, figures.sales, earned)]

RowLocked(d, s) == \E other \in Syncer \ {s} : d \in DOMAIN sync[other].writes

\* What a flush writes: an insert all, an update the columns that differ from the copy.
Written(copy, new) ==
    IF copy = None THEN Column ELSE {c \in Column : copy[c] # new[c]}

\* _upsert_day, up to the flush.
SaveDay(s) ==
    LET d == sync[s].day
        new == Planned(sync[s].pulled[d], sync[s].margin)
        crossed == metric[d] # sync[s].copy
    IN  /\ sync[s].step = "save"
        /\ ~RowLocked(d, s)
        /\ ~(sync[s].copy = None /\ metric[d] # None)
        /\ sync' = [sync EXCEPT ![s].step = "day",
                                ![s].writes = @ @@ (d :> [row |-> new, columns |-> Written(sync[s].copy, new)]),
                                ![s].fresh = IF crossed THEN @ \ {d} ELSE @,
                                ![s].crossed = IF crossed THEN @ \cup {d} ELSE @]
        /\ UNCHANGED <<report, margin, linked, campaign, metric, stale, torn, events>>

After(row, write) ==
    IF row = None THEN write.row
    ELSE [c \in Column |-> IF c \in write.columns THEN write.row[c] ELSE row[c]]

\* The task is added last, as a success, with the key of the request.
Commit(s) ==
    LET written == DOMAIN sync[s].writes IN
    /\ sync[s].step = "day" /\ sync[s].todo = {}
    /\ sync[s].creates => ~campaign
    /\ campaign' = TRUE
    /\ metric' = [d \in Day |-> IF d \in written THEN After(metric[d], sync[s].writes[d])
                                ELSE metric[d]]
    /\ stale' = (stale \cup written) \ sync[s].fresh
    /\ torn' = (torn \ written) \cup sync[s].crossed
    /\ sync' = [sync EXCEPT ![s] = NoSync]
    /\ UNCHANGED <<report, margin, linked, events>>

\* A report that is not valid, a second insert, a lost worker: nothing is kept, not even a task.
Fail(s) ==
    /\ sync[s].step # "idle"
    /\ sync' = [sync EXCEPT ![s] = NoSync]
    /\ UNCHANGED <<report, margin, linked, campaign, metric, stale, torn, events>>

Next ==
    \/ \E d \in Day : \/ \E f \in Figures : Correct(d, f)
                      \/ \E earned \in Margins : Materialize(d, earned)
    \/ Link
    \/ \E s \in Syncer :
          \/ \E days \in SUBSET Day \ {{}} : Pull(s, days)
          \/ \E d \in Day : ReadMargin(s, d)
          \/ FindCampaign(s) \/ FindDay(s) \/ SaveDay(s) \/ Commit(s) \/ Fail(s)

Spec == Init /\ [][Next]_vars

-----------------------------------------------------------------------------
(***************************************************************************)
(* A warning of a loss follows from the figures beside it, whatever has    *)
(* become of the report and of the margin since, unless two syncs wrote    *)
(* one row across each other (plan_day, _upsert_day).                      *)
(***************************************************************************)
WarningsExplained ==
    \A d \in Day \ torn : metric[d] # None =>
        (metric[d].loss <=> Loss(metric[d].spend, metric[d].sales, metric[d].margin))

(***************************************************************************)
(* A day that was synced alone after its last change shows the platform's  *)
(* figures and the margin of the books (sync, _store).                     *)
(***************************************************************************)
DaysTell ==
    \A d \in Day \ stale :
        /\ metric[d] # None
        /\ metric[d].spend = report[d].spend /\ metric[d].sales = report[d].sales
        /\ metric[d].margin = IF linked THEN margin[d] ELSE None

AdsHold == WarningsExplained /\ DaysTell

-----------------------------------------------------------------------------
(***************************************************************************)
(* When all sales of a day are put down to the advertisement, a warning    *)
(* says that it costs more than the sales earn, and no warning that it     *)
(* does not, but for a rounding (_loss, gross_margin_ratio).               *)
(***************************************************************************)
WarnsOfLosses(spend, revenue, landed) ==
    LET left == revenue - landed IN
    IF Loss(spend, revenue, GrossMargin(revenue, landed))
    THEN spend > left
    ELSE spend = 0 \/ (spend - left) * Unit <= revenue

Added(sequence) == FoldLeft(LAMBDA x, y : x + y, 0, sequence)

\* combine_sku_ads: the estimate in the books gives way to what was really spent.
NetAfterAds(nets, estimates, spend) ==
    IF nets = <<>> \/ None \in ToSet(nets) \cup ToSet(estimates) THEN None
    ELSE Added(nets) + Added(estimates) - spend

(***************************************************************************)
(* The profit after advertising is that of the books with what was really  *)
(* spent in the place of the estimate (sku_profit, combine_sku_ads); rows  *)
(* are the books', with revenue, net and items.                            *)
(***************************************************************************)
AdsReplaced(rows, spend) ==
    LET Of(name) == [i \in DOMAIN rows |-> rows[i][name]]
        Others(items) == {c \in DOMAIN items : c # "ADS"}
        value == NetAfterAds(Of("net"), [i \in DOMAIN rows |-> rows[i].items["ADS"]], spend)
    IN  value # None =>
            value = Added(Of("revenue")) - spend
                    - Added([i \in DOMAIN rows |->
                               MapThenSumSet(LAMBDA c : rows[i].items[c], Others(rows[i].items))])
=============================================================================
