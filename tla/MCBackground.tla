---------------------------- MODULE MCBackground ----------------------------
(***************************************************************************)
(* One run over the small parts of the system that share no state: the     *)
(* first state chooses the part, and the others rest.  The pure rules are  *)
(* parts, too: the first state chooses what they are asked.                *)
(***************************************************************************)
EXTENDS BackgroundProofs, OfficeProofs, TLC

VARIABLES
    part, question,
    exportRow, file, due, exportTask, expiry,
    offer, change, changes, message, pushJob, shown, age,
    shops, renewal, owner, refused, tangled,
    day, saves, expires, notices, mailed, twice, scan, unscanned, scanned, disturbed,
    hour, queued, walk, steady, edits, repaid,
    sold, ratesOn, profits, reckoner, outdated, corrections,
    facts, board, stockHealth, build, calm, agreed, boardEvents,
    reported, earned, linkedSku, campaign, adDays, adSync, oldDays, tornDays, adEvents,
    listingRow, atPlatform, diffs, staged, lister, patrols, putThere, agreeing, marredRows, unasked,
    putTwice, listingEvents,
    texts, glossary, editor, reviewed, crossedTexts, textEdits,
    spus, skus, cataloguer, statusLog, costsSent, crossedRows, catalogWrites

exports == <<exportRow, file, due, exportTask, expiry>>

push == <<offer, change, changes, message, pushJob, shown, age>>

grants == <<shops, renewal, owner, refused, tangled>>

alerts == <<day, saves, expires, notices, mailed, twice, scan, unscanned, scanned, disturbed>>

lists == <<hour, queued, walk, steady, edits, repaid>>

advertising == <<reported, earned, linkedSku, campaign, adDays, adSync, oldDays, tornDays, adEvents>>

shopBoard == <<facts, board, stockHealth, build, calm, agreed, boardEvents>>

profitBook == <<sold, ratesOn, profits, reckoner, outdated, corrections>>

listings == <<listingRow, atPlatform, diffs, staged, lister, patrols, putThere, agreeing, marredRows,
              unasked, putTwice, listingEvents>>

localeTexts == <<texts, glossary, editor, reviewed, crossedTexts, textEdits>>

catalog == <<spus, skus, cataloguer, statusLog, costsSent, crossedRows, catalogWrites>>

\* How long a token is good.
ShortLives == [access |-> 1, refresh |-> 2]

\* The lists of orders that are sent in, and again.
SomeBatches == {<<"o1", "o2">>, <<"o2", "o1", "o2">>}

\* One of the workers is ahead of the other.
OneAhead == [w \in Worker |-> IF w = "w1" THEN 0 ELSE 1]

Exports == INSTANCE ReportExports WITH
    Export <- {"e1", "e2"}, row <- exportRow, task <- exportTask

Push == INSTANCE StockPush WITH
    Worker <- {"w1"}, Shops <- <<"s1", "s2">>, Amounts <- {0, 1}, Lag <- 1, Retries <- 1,
    MaxChanges <- 1, job <- pushJob

\* One piece at home and one in another warehouse.
OneInEach == [h \in 1..2 |-> [avail |-> 1, occ |-> 0, default |-> h = 1, type |-> "LOCAL"]]

\* The renewals of one grant, and the owners that bind and unbind.
Renewals == INSTANCE Shops WITH
    Renewer <- {"w1", "w2"}, Owner <- {"o1"}, Threshold <- 2, MaxShops <- 1,
    request <- owner, crossed <- tangled

Bindings == INSTANCE Shops WITH
    Renewer <- {}, Owner <- {"o1", "o2"}, Threshold <- 2, MaxShops <- 2,
    request <- owner, crossed <- tangled

Alerts == INSTANCE CertificateAlerts WITH
    Scanner <- {"s1", "s2"}, Certificate <- {"c1"}, LastDay <- 1, MaxSaves <- 2,
    Soon <- 0, Mid <- 1, Far <- 2, Limit <- 1, today <- day

Crowded == INSTANCE CertificateAlerts WITH
    Scanner <- {"s1"}, Certificate <- {"c1", "c2"}, LastDay <- 1, MaxSaves <- 2,
    Soon <- 0, Mid <- 1, Far <- 2, Limit <- 1, today <- day

Queue == INSTANCE OrderQueue WITH
    Orders <- 3, Sla <- 2, Warn <- 1, Page <- 1, LastTime <- 3, MaxChanges <- 1,
    now <- hour, order <- queued, changes <- edits

Profits == INSTANCE ProfitBook WITH
    Runner <- {"r1", "r2"}, OrderLine <- {"l1", "l2"}, Sku <- {"x"}, Day <- {1, 2},
    Amounts <- {1}, MaxEvents <- 1, line <- sold, rates <- ratesOn, daily <- profits, run <- reckoner,
    stale <- outdated, events <- corrections

Advertising == INSTANCE Ads WITH
    Syncer <- {"s1", "s2"}, Day <- {1}, Unit <- 100, Margins <- {50}, MaxEvents <- 2,
    Figures <- [spend : {1}, sales : {0, 1, 4}],
    report <- reported, margin <- earned, linked <- linkedSku, metric <- adDays, sync <- adSync,
    stale <- oldDays, torn <- tornDays, events <- adEvents

Boards == INSTANCE Dashboard WITH
    Builder <- {"b1", "b2"}, Shop <- {1}, Day <- {1, 2}, Windows <- {<<1, 2>>, <<2, 2>>},
    MaxEvents <- 1, Unit <- 100, health <- stockHealth, events <- boardEvents

\* The listings of a SKU in a shop, and one of them compared with the platform.
Links == INSTANCE Listings WITH
    Request <- {"r1", "r2"}, Patrol <- {}, Row <- 1..2, Psku <- {"k1", "k2"}, Amount <- {10, 12},
    Currency <- {"USD"}, Kinds <- {"update", "publish"}, MaxEvents <- 3, Limit <- 2,
    Patches <- {[product |-> TRUE, psku |-> "k1"], [product |-> FALSE, psku |-> None],
                [status |-> "UNLISTED"], [price |-> 12, currency |-> "USD"]},
    Given <- <<None, None>>, Offered <- [k1 |-> [price |-> 10, currency |-> "USD"], k2 |-> None],
    row <- listingRow, remote <- atPlatform, diff <- diffs, items <- staged, job <- lister,
    patrol <- patrols, products <- putThere, settled <- agreeing, marred <- marredRows,
    twice <- putTwice, events <- listingEvents

Differing == INSTANCE Listings WITH
    Request <- {"r1"}, Patrol <- {"q1"}, Row <- 1..1, Psku <- {"k1"}, Amount <- {10, 13},
    Currency <- {"USD", "EUR"}, Kinds <- {"price", "platform"}, MaxEvents <- 2, Limit <- 2, Patches <- {},
    Given <- <<[product |-> TRUE, psku |-> "k1", price |-> 10, currency |-> "USD", status |-> "LINKED"]>>,
    Offered <- [k1 |-> [price |-> 10, currency |-> "USD"]],
    row <- listingRow, remote <- atPlatform, diff <- diffs, items <- staged, job <- lister,
    patrol <- patrols, products <- putThere, settled <- agreeing, marred <- marredRows,
    twice <- putTwice, events <- listingEvents

\* The texts of a listing, the products, and the words and sheets that they are asked about.
Texts == INSTANCE Catalog WITH
    Editor <- {"e1", "e2"}, Phrase <- {<<>>, <<"x">>}, Source <- "en", Target <- "de",
    Given <- [title |-> <<"a">>, body |-> <<"a">>], Term <- {[source |-> <<"A">>, target |-> <<"x">>]},
    Lower <- [A |-> "a"], MaxEdits <- 3,
    Clerk <- {}, Code <- {}, Cost <- {}, MaxVariants <- 1, MaxSpu <- 1, MaxSku <- 1, MaxWrites <- 0,
    text <- texts, terms <- glossary, checked <- reviewed, mixed <- crossedTexts, edits <- textEdits,
    spu <- spus, sku <- skus, clerk <- cataloguer, audit <- statusLog, written <- costsSent,
    crossed <- crossedRows, writes <- catalogWrites

Products == INSTANCE Catalog WITH
    Editor <- {}, Phrase <- {}, Source <- "en", Target <- "de", Given <- None, Term <- {}, Lower <- <<>>,
    MaxEdits <- 0, Clerk <- {"c1", "c2"}, Code <- {"k1", "k2"},
    Cost <- {<<>>, [price |-> 1, currency |-> "USD"], [currency |-> "EUR"]},
    MaxVariants <- 1, MaxSpu <- 2, MaxSku <- 2, MaxWrites <- 3,
    text <- texts, terms <- glossary, checked <- reviewed, mixed <- crossedTexts, edits <- textEdits,
    spu <- spus, sku <- skus, clerk <- cataloguer, audit <- statusLog, written <- costsSent,
    crossed <- crossedRows, writes <- catalogWrites

SomeWords == {<<>>} \cup UNION {[1..n -> {"a", "A", "b"}] : n \in 1..4}

SomeTerms ==
    LET one == [source : {<<"a">>, <<"A">>, <<"a", "b">>, <<"B", "b">>}, target : {<<"x">>, <<"a">>}]
    IN  {<<>>} \cup UNION {[1..n -> one] : n \in 1..2}

SomeSheets ==
    {<<>>} \cup UNION {[1..n -> [code : {"k1", "k2", None}, titled : BOOLEAN, weight : 0..1]] : n \in 1..3}

-----------------------------------------------------------------------------
(* Inputs for the pure rules.  Money has two decimals instead of six, and   *)
(* there are 10 grams to a kilogramme, to stay within TLC's integers.       *)

Book == INSTANCE LandedCost WITH Unit <- 100, Grams <- 10, Cbm <- 1000

Rules == INSTANCE StockRules

-----------------------------------------------------------------------------
\* Warehouse 1 is the default; any may be a platform's.
Bins ==
    {[w \in 1..3 |-> [default |-> w = 1, type |-> type[w], avail |-> avail[w], occ |-> occ[w]]] :
        type \in [1..3 -> {"LOCAL", "PLATFORM"}], avail \in [1..3 -> 0..2],
        occ \in [1..3 -> 0..1]}

PlanQuestions == {[bins |-> bins, quantity |-> q] : bins \in Bins, q \in {1, 4}}

ReorderQuestions ==
    [sold : {0, 1, 3, 8}, window : {1, 2, 4, 5}, lead : {0, 2}, cover : {1, 3},
     safety : {0, 2}, movable : {0, 1, 5, 9}, transit : {0, 3}]

ShareQuestions ==
    [total : {1, 2, 7, 100, 101}, metrics : UNION {[1..n -> {1, 2, 5}] : n \in 1..3}]

-----------------------------------------------------------------------------
Fee(code, charge, amount) ==
    [code |-> code, channel |-> "*", label |-> code, charge |-> charge, amount |-> amount,
     currency |-> "USD", divisor |-> 5]

Base ==
    {Fee("BROKERAGE", "FIXED", 30), Fee("PAYMENT", "RATE", 3), Fee("STORAGE", "PER_CBM_DAY", 9),
     Fee("FULFILLMENT", "FIXED", 75), Fee("ADS", "RATE", 5), Fee("RETURN_RATE", "RATE", 10),
     Fee("FIRST_MILE", "PER_KG", 120), Fee("FX_RESERVE", "RATE", 2),
     Fee("RETURN_LOSS", "RATE", 50)}

\* Rules that are there, or not, or there twice.
Fees ==
    {Base \cup more : more \in SUBSET {Fee("COMMISSION", "RATE", 15),
                                      [Fee("COMMISSION", "RATE", 20) EXCEPT !.channel = "AIR"],
                                      [Fee("BROKERAGE", "FIXED", 40) EXCEPT !.label = "extra"]}}

Tax(type, pattern, rate, threshold) ==
    [type |-> type, pattern |-> pattern, rate |-> rate, numerator |-> 1, denominator |-> 1,
     threshold |-> threshold, thresholdCurrency |-> "USD"]

Taxes ==
    {{}, {Tax("DUTY", None, 8, None), Tax("VAT", None, 20, None)},
     {Tax("DUTY", None, 8, None), Tax("DUTY", <<1>>, 0, None), Tax("GST", <<1>>, 13, 500)},
     {Tax("DUTY", <<2>>, 8, None), Tax("VAT", None, 20, None)}}

Datum ==
    LET full == [currency |-> "USD", channel |-> "AIR", method |-> "CHARGEABLE", price |-> None,
                 purchase |-> 640, purchaseCurrency |-> "USD", fx |-> 700, weight |-> 4,
                 volume |-> 30, hs |-> <<1, 2>>, declared |-> 400, declaredCurrency |-> "USD",
                 shipment |-> [cost |-> 900, currency |-> "USD", weight |-> 40,
                               volume |-> 300, value |-> 7000],
                 days |-> 3]
        abroad == [full EXCEPT !.purchaseCurrency = "CNY"]
    IN  {full, abroad, [abroad EXCEPT !.fx = None], [full EXCEPT !.purchase = None],
         [full EXCEPT !.volume = None], [full EXCEPT !.days = 0], [full EXCEPT !.weight = 9],
         [full EXCEPT !.declared = None, !.method = "VALUE"], [abroad EXCEPT !.method = "VALUE"],
         [full EXCEPT !.method = "WEIGHT"], [full EXCEPT !.method = "VOLUME"],
         [full EXCEPT !.channel = "SEA_LCL"], [full EXCEPT !.declaredCurrency = "CNY"]}

Cases ==
    [data : Datum, taxes : Taxes, fees : Fees,
     disabled : {{}, {"DUTY", "IMPORT_TAX", "FX_RESERVE"}}]

PriceQuestions == [case : Cases, target : {0, 1500, 6000}]

Line(case, price, quantity) ==
    [quantity |-> quantity, price |-> price, items |-> Book!ItemsAt(case, price)]

ProfitQuestions ==
    [case : {c \in Cases : c.disabled = {}}, prices : {<<2000>>, <<1501, 999>>}, rate : {None, 93}]

LinesOf(sums) ==
    [i \in DOMAIN sums.prices |-> Line(sums.case, sums.prices[i], i)]

-----------------------------------------------------------------------------
FlagQuestions ==
    [order : [status : {"PAID", "SHIPPED"}, review : {"PENDING", "APPROVED"},
              paid : 0..3 \cup {None}, address : SUBSET {"country", "line1", "city"},
              matched : BOOLEAN],
     sla : {1, 2}, warn : {0, 1, 3}]

AdsQuestions == [spend : 0..9, revenue : 1..9, landed : 0..12]

SettleQuestions ==
    [lines : UNION {[1..n -> [order : {"o1", "o2"}, amount : {-2, 5}, currency : {"USD", "EUR"}]]
                       : n \in 1..2}
             \cup [1..3 -> [order : {"o1", "o2"}, amount : {5}, currency : {"USD", "EUR"}]],
     orders : {<<>>} \cup [{"o1"} -> [total : {4}, currency : {"USD", "EUR"}]]]

\* Rows of the board: two days of a shop, and a day of another one.
BoardRow(shop, date, kind) ==
    [key |-> [shop |-> shop, day |-> date, currency |-> kind.currency],
     shop |-> shop, day |-> date, platform |-> shop, currency |-> kind.currency, book |-> kind.book,
     count |-> shop, gmv |-> 3 * date, onTime |-> 1, late |-> 0, returns |-> date, bookGmv |-> kind.net,
     net |-> kind.net, bookNet |-> kind.net, complete |-> kind.net # None, spend |-> kind.spend,
     sales |-> kind.spend, losses |-> 1,
     lines |-> [code \in {"PURCHASE", "FIRST_MILE", "COMMISSION"} |-> kind.net]]

BoardKinds ==
    [currency : {"USD"}, book : {1, 2}, net : {None, 4}, spend : {None, 2}]
    \cup {[currency |-> "EUR", book |-> 1, net |-> -1, spend |-> 0]}

BoardQuestions ==
    {{BoardRow(1, 1, k[1]), BoardRow(1, 2, k[2]), BoardRow(2, 1, k[3])} : k \in [1..3 -> BoardKinds]}

TimingQuestions ==
    [order : [status : {"PENDING_PAYMENT", "PAID", "SHIPPED", "RETURNED", "CANCELLED"},
              shipped : {None, 1, 2}, deadline : {1, 2}, amount : {1}],
     now : 1..3]

Ranked == [1..3 -> {None, -2, -1, 0, 4}]

RankQuestions ==
    {[days |-> {[sku |-> i, day |-> 1, net |-> n[i], complete |-> n[i] # None] : i \in 1..3}
                 \cup {[sku |-> 1, day |-> 2, net |-> 1, complete |-> TRUE]},
      limit |-> l] :
        n \in Ranked, l \in 1..3}

StockQuestions ==
    [1..3 -> [available : {0, 1, 4}, sold : {0, 1}, price : {None, 5}, currency : {"USD"},
              safe : {2}]]

Tables == INSTANCE Screens

-----------------------------------------------------------------------------
OfficeParts ==
    {"rates", "numbers", "inbox", "tickets", "renewals", "bindings",
     "alerts", "crowded", "team", "queue", "address", "books", "ads", "board", "ships",
     "logins", "tokens", "links", "differing", "tables", "texts", "products"}

\* In the part of the tables nothing happens.  What has two instances starts as one of them; a
\* part that rests has one initial state.
OfficeInit ==
    /\ part # "rates" => today = 0
    /\ part # "address" => sentTo = [address |-> "a1", stamp |-> 0]
    /\ part # "board" => board = {}
    /\ part # "books" => sold = [l \in {"l1", "l2"} |-> [day |-> 1, sku |-> "x", amount |-> 1]]
    /\ Filings!Init
    /\ Desk!Init
    /\ IF part = "bindings" THEN Bindings!Init ELSE Renewals!Init
    /\ IF part = "crowded" THEN Crowded!Init ELSE Alerts!Init
    /\ Team!Init
    /\ IF part = "queue" THEN Queue!Init
       ELSE /\ hour = 0 /\ queued = [o \in 1..3 |-> None]
            /\ walk = [list |-> "newest", stage |-> "over", after |-> <<0, 0, 0>>, shown |-> <<>>]
            /\ steady = {} /\ edits = 0 /\ repaid = {}
    /\ Addresses!Init
    /\ Profits!Init
    /\ Advertising!Init
    /\ Boards!Init
    /\ Ships!Init
    /\ Entrance!Init
    /\ IF part = "differing" THEN Differing!Init ELSE Links!Init
    /\ IF part = "products" THEN Products!Init ELSE Texts!Init

OfficeRests ==
    /\ part \notin {"rates", "numbers"} => UNCHANGED taxes
    /\ part \notin {"inbox", "tickets"} => UNCHANGED desk
    /\ part \notin {"renewals", "bindings"} => UNCHANGED grants
    /\ part \notin {"alerts", "crowded"} => UNCHANGED alerts
    /\ part # "team" => UNCHANGED members
    /\ part # "queue" => UNCHANGED lists
    /\ part # "address" => UNCHANGED addresses
    /\ part # "books" => UNCHANGED profitBook
    /\ part # "ads" => UNCHANGED advertising
    /\ part # "board" => UNCHANGED shopBoard
    /\ part # "ships" => UNCHANGED shipping
    /\ part \notin {"logins", "tokens"} => UNCHANGED entries
    /\ part \notin {"links", "differing"} => UNCHANGED listings
    /\ part # "texts" => UNCHANGED localeTexts
    /\ part # "products" => UNCHANGED catalog

\* The versions of a rule, and the tax numbers.
OnlyRates == \A r \in Filer : filing'[r].does \in {"nothing", "create", "retire"}

OnlyNumbers ==
    /\ UNCHANGED today
    /\ \A r \in Filer : filing'[r].does \in {"nothing", "register", "delete"}

OnlyMessages == UNCHANGED ticket /\ \A c \in Clerk \ {"c1"} : clerk'[c] = clerk[c]

\* The logins of an account, and the tokens that are shown to two processes.
OnlyLogins == UNCHANGED <<role, redisUp, client, presented>>

OnlyTokens == UNCHANGED logins /\ moment' <= 1

OfficeNext ==
    \/ part = "rates" /\ Filings!Next /\ OnlyRates
    \/ part = "numbers" /\ Filings!Next /\ OnlyNumbers
    \* One clerk reads the messages, and the tickets have a part of their own.
    \/ part = "inbox" /\ Desk!Next /\ OnlyMessages
    \/ part = "tickets" /\ Desk!Next /\ UNCHANGED <<platform, sync>>
    \/ part = "renewals" /\ Renewals!Next
    \/ part = "bindings" /\ Bindings!Next
    \/ part = "alerts" /\ Alerts!Next
    \/ part = "crowded" /\ Crowded!Next
    \/ part = "team" /\ Team!Next
    \/ part = "queue" /\ Queue!Next
    \* What is checked of an address ends with the first crossing.
    \/ part = "address" /\ ~collided /\ Addresses!Next
    \/ part = "books" /\ Profits!Next
    \/ part = "ads" /\ Advertising!Next
    \/ part = "board" /\ Boards!Next
    \/ part = "ships" /\ Ships!Next
    \/ part = "logins" /\ Entrance!Next /\ OnlyLogins
    \/ part = "tokens" /\ Entrance!Next /\ OnlyTokens
    \/ part = "links" /\ Links!Next
    \/ part = "differing" /\ Differing!Next
    \/ part = "texts" /\ Texts!Next
    \/ part = "products" /\ Products!Next

office == <<taxes, desk, grants, alerts, members, lists, addresses, profitBook, advertising,
            shopBoard, shipping, entries, listings,
            localeTexts, catalog>>

-----------------------------------------------------------------------------
Parts ==
    {"circuit", "limit", "pull", "beat", "webhook", "tab", "listing", "export", "push",
     "order"} \cup OfficeParts

Figures == {"plan", "reorder", "share", "price", "profit", "settle", "loss", "period", "flags",
            "pages", "timing", "rank", "health"}

Asked ==
    \/ part = "plan" /\ question \in PlanQuestions
    \/ part = "reorder" /\ question \in ReorderQuestions
    \/ part = "share" /\ question \in ShareQuestions
    \/ part = "price" /\ question \in PriceQuestions
    \/ part = "profit" /\ question \in ProfitQuestions
    \/ part = "settle" /\ question \in SettleQuestions
    \/ part = "loss" /\ question \in AdsQuestions
    \/ part = "period" /\ question \in [day : 30..130]
    \/ part = "flags" /\ question \in FlagQuestions
    \/ part = "pages" /\ question \in BoardQuestions
    \/ part = "timing" /\ question \in TimingQuestions
    \/ part = "rank" /\ question \in RankQuestions
    \/ part = "health" /\ question \in StockQuestions
    \/ part \in Parts /\ question = None

\* A part that rests has one initial state.
Init ==
    /\ part \in Parts \cup Figures
    /\ part # "webhook" => parses = TRUE
    /\ part # "listing" => item = [i \in 1..Items |-> "PENDING"]
    /\ part # "push" => offer = 0
    /\ Breaker!Init /\ Limiter!Init /\ Cursor!Init /\ Lock!Init /\ Ingress!Init
    /\ Tab!Init /\ Listing!Init /\ Exports!Init /\ Push!Init /\ Goods!Init
    /\ OfficeInit
    /\ Asked

\* The first order may change at any time, the second at the start of the pulls.
OneChangesAgain == changed'[2] \in {None, 0}

Rest ==
    /\ UNCHANGED <<part, question>>
    /\ part # "circuit" => UNCHANGED breaker
    /\ part # "limit" => UNCHANGED limiter
    /\ part # "pull" => UNCHANGED cursor
    /\ part # "beat" => UNCHANGED beat
    /\ part # "webhook" => UNCHANGED ingress
    /\ part # "tab" => UNCHANGED tab
    /\ part # "listing" => UNCHANGED listing
    /\ part # "export" => UNCHANGED exports
    /\ part # "push" => UNCHANGED push
    /\ part # "order" => UNCHANGED goods
    /\ OfficeRests

Next ==
    /\ Rest
    /\ \/ part = "circuit" /\ Breaker!Next
       \/ part = "limit" /\ Limiter!Next
       \* What is checked of the cursor ends with the first crossing.
       \/ part = "pull" /\ ~crossed /\ Cursor!Next /\ OneChangesAgain
       \/ part = "beat" /\ Lock!Next
       \/ part = "webhook" /\ Ingress!Next
       \/ part = "tab" /\ Tab!Next
       \/ part = "listing" /\ Listing!Next
       \/ part = "export" /\ Exports!Next
       \/ part = "push" /\ Push!Next
       \/ part = "order" /\ Goods!Next
       \/ OfficeNext

all == <<part, question, breaker, limiter, cursor, beat, ingress, tab, listing, exports,
         push, goods, office>>

Spec == Init /\ [][Next]_all

\* The parts that must come to an end, once nothing else fails any more.
LiveInit == part \in {"circuit", "export", "push", "inbox", "renewals"} /\ Init

LiveNext ==
    /\ Rest
    /\ \/ part = "circuit" /\ Breaker!Next
       \/ part = "export" /\ Exports!Next
       \/ part = "push" /\ Push!Next
       \* What arrives does not depend on who reads it.
       \/ part = "inbox" /\ Desk!Proceed /\ UNCHANGED <<ticket, clerk>>
       \/ part = "renewals" /\ Renewals!Proceed

\* The fairness of the modules, each for its own part.
Fairness ==
    /\ WF_breaker(part = "circuit" /\ Breaker!Tick)
    /\ \A c \in Caller : WF_breaker(part = "circuit" /\ Breaker!Works(c))
    /\ \A e \in {"e1", "e2"} :
          /\ SF_exports(part = "export" /\ Exports!Expires(e))
          /\ WF_exports(part = "export" /\ Exports!Goes(e))
    /\ WF_push(part = "push" /\ Push!EndChange) /\ WF_push(part = "push" /\ Push!Tick)
    /\ SF_push(part = "push" /\ Push!StartSweep("w1")) /\ SF_push(part = "push" /\ Push!End("w1"))
    /\ SF_push(part = "push" /\ \E n \in 0..1 : Push!StartPush("w1", n))
    /\ \A s \in {"s1", "s2"} :
          SF_push(part = "push" /\ (Push!Skip("w1", s) \/ Push!Send("w1", s)))
    /\ \A s \in {"s1", "s2"} :
          WF_desk(part = "inbox" /\ (Desk!Pull(s) \/ Desk!Find(s) \/ Desk!Store(s)))
    /\ WF_grants(part = "renewals" /\ Renewals!TokenExpires(1))
    /\ \A w \in {"w1", "w2"} :
          /\ WF_grants(part = "renewals" /\ Renewals!ReadDue(w, 1))
          /\ WF_grants(/\ part = "renewals"
                       /\ \/ Renewals!PlatformRenews(w) \/ Renewals!PlatformFails(w)
                          \/ Renewals!SaveRenewal(w))

LiveSpec == LiveInit /\ [][LiveNext]_all /\ Fairness

\* One order alone.
OrderInit == part = "order" /\ Init

OrderSpec == OrderInit /\ [][Next]_all

-----------------------------------------------------------------------------
(* The properties are stated, with the code they are about, in the modules. *)

\* Each part keeps its types (TypeOK).
TypesOK ==
    /\ part = "circuit" => Breaker!TypeOK
    /\ part = "limit" => Limiter!TypeOK
    /\ part = "pull" => Cursor!TypeOK
    /\ part = "beat" => Lock!TypeOK
    /\ part = "webhook" => Ingress!TypeOK
    /\ part = "tab" => Tab!TypeOK
    /\ part = "listing" => Listing!TypeOK
    /\ part = "export" => Exports!TypeOK
    /\ part = "push" => Push!TypeOK
    /\ part = "order" => Goods!TypeOK
    /\ part \in {"rates", "numbers"} => Filings!TypeOK
    /\ part \in {"inbox", "tickets"} => Desk!TypeOK
    /\ part = "renewals" => Renewals!TypeOK
    /\ part = "bindings" => Bindings!TypeOK
    /\ part = "alerts" => Alerts!TypeOK
    /\ part = "crowded" => Crowded!TypeOK
    /\ part = "team" => Team!TypeOK
    /\ part = "queue" => Queue!TypeOK
    /\ part = "address" => Addresses!TypeOK
    /\ part = "books" => Profits!TypeOK
    /\ part = "ads" => Advertising!TypeOK
    /\ part = "board" => Boards!TypeOK
    /\ part = "ships" => Ships!TypeOK
    /\ part \in {"logins", "tokens"} => Entrance!TypeOK
    /\ part = "links" => Links!TypeOK
    /\ part = "differing" => Differing!TypeOK
    /\ part = "texts" => Texts!TypeOK
    /\ part = "products" => Products!TypeOK

\* When no admitted call ends without a report, a probe is always over some time (record).
ProbesDecide == Breaker!ProbesDecide

\* A breaker that is not closed lets one call through at a time (admit, compare_set), and the
\* bucket and the daily quota bound the calls that are made (try_acquire).
CallsHeld ==
    /\ part = "circuit" => Breaker!OneProbeAtATime
    /\ part = "limit" => Limiter!RateHeld /\ Limiter!QuotaHeld

\* No order before the high-water mark is missing while runs do not cross (checkpoint_for).
NothingSkipped == part = "pull" => Cursor!NothingSkipped

\* The lock keeps two runs apart for as long as it lives (run_beat_singleton).
NoTwoWithinTtl == part = "beat" => Lock!NoTwoWithinTtl

\* An event that is turned away as a duplicate is kept somewhere (WebhookIngress.accept).
ClaimedIsKept == part = "webhook" => Ingress!ClaimedIsKept

\* Concurrent requests with an expired token do not end the session (ensureRefreshed).
SessionGoesOn == part = "tab" => Tab!SessionGoesOn

\* The statuses of a batch tell what is at the platform (listing_batch.py, _run).
StatusesTell == part = "listing" => Listing!StatusesTell

\* Every export ends, so that the tenant may ask for another one (execute, expire).
ExportsEnd == Exports!ExportsEnd

\* A shop does not go on showing more than there is (push_sku, sweep_lag).
OversellingEnds == Push!OversellingEnds

\* The desk shows in the end what the platform shows (CsService.sync, scan_messages).
MessagesArrive == part = "inbox" => Desk!MessagesArrive

\* A grant whose tokens are lost does not pass for active for ever (_refresh_one).
LostTokensNoticed == part = "renewals" => Renewals!LostTokensNoticed

\* The holds of an order tell what it has taken from each warehouse (_draw, ship_order).
HoldsExplainStock == part = "order" => Goods!HoldsExplainStock

\* A refunded return brings the goods back once (transition_return).
ReturnedOnce == Goods!ReturnedOnce

\* One rate is in force on a day, and a tax number is registered once (TaxRuleService.create).
TaxesHold == part \in {"rates", "numbers"} => Filings!TaxesHold

\* Read messages were shown, and statuses of tickets tell what was done (next_ticket_status).
DeskHolds == part \in {"inbox", "tickets"} => Desk!DeskHolds

\* A closed ticket stays closed when no request had it open (next_ticket_status).
ClosedStays == [][part = "tickets" => Desk!ClosedStays]_office

\* One live row has the grant of a shop, and the platform takes its tokens (apply_bundle).
GrantHolds ==
    part \in {"renewals", "bindings"} =>
        IF part = "bindings" THEN Bindings!GrantHolds ELSE Renewals!GrantHolds

\* A certificate that runs out is noticed in every window, and mailed once (dispatch).
AlertsHold ==
    part \in {"alerts", "crowded"} =>
        IF part = "crowded" THEN Crowded!AlertsHold ELSE Alerts!AlertsHold

\* Links of invitations, members and administrators, the lock of an account and its tokens
\* (invite, accept, _protect_last_admin, record_login_failure, revoke_payload).
MembersHold ==
    /\ part = "team" => Team!MembersHold
    /\ part = "logins" => Entrance!LockTells
    /\ part = "tokens" => Entrance!RevokedStays

\* The tables of roles and screens, and the files of orders (permissions, export_orders).
ScreensTell ==
    part = "tables" => Tables!RolesAgree /\ Tables!ScreensAgree /\ Entrance!FilesTell

\* Where orders are sent, and the batches that ship them (change_address, run_ship_batch).
OrdersTold ==
    /\ part = "address" => Addresses!AddressHolds
    /\ part = "ships" => Ships!ShipmentsTell

\* Pages of the lists of orders, and what the listings say of the platform (list_orders, patrol).
ListsTell ==
    /\ part = "queue" => Queue!QueueHolds
    /\ part = "links" => Links!ListingsTell
    /\ part = "differing" => Differing!ListingsTell

\* Rows of profits tell of lines and rates, rows of advertising of reports, and rows of the board
\* of all the facts (materialize, _store, rebuild).
BooksTell ==
    /\ part = "books" => Profits!BookTells
    /\ part = "ads" => Advertising!AdsHold
    /\ part = "board" => Boards!BoardHolds

\* Texts are reviewed and use the terms, sheets are taken as a whole, and variants, costs and
\* statuses of products are as they were sent (publish, machine_draft, import_file, update_sku).
CatalogHolds ==
    /\ part = "texts" => Texts!TextsReviewed
    /\ part = "products" => Products!CatalogTells
    /\ part = "tables" =>
          /\ \A words \in SomeWords, list \in SomeTerms : Texts!TermsForced(words, list)
          /\ \A sheet \in SomeSheets, known \in SUBSET {"k1", "k2"} : Texts!SheetTells(sheet, known, 2)

\* The plan of a shipment and of the next order (plan_allocations, suggest_replenishment).
StockPlansHold ==
    /\ part = "plan" => Rules!PlanHolds(question.bins, question.quantity)
    /\ part = "reorder" =>
          Rules!ReorderHolds(question.sold, question.window, question.lead, question.cover,
                             question.safety, question.movable, question.transit)

\* The cost of a shipment is shared out without loss (allocate).
AllocationExact ==
    part = "share" => Book!SharedOut(question.total, question.metrics)

\* The suggested price brings the target margin (suggest_prices).
PriceMeetsTarget ==
    part = "price" => Book!MeetsTarget(question.case, question.target)

PeriodsAddUp(days) == Book!PeriodAddsUp(days) /\ Advertising!AdsReplaced(days, 700)

LinesAddUp(case, lines, rate) ==
    /\ Book!AddsUp(case, lines, rate)
    /\ PeriodsAddUp(<<Book!DayRow(lines, rate), Book!DayRow(<<lines[1]>>, 93)>>)

\* The day's profit is that of its lines, and open when a rule is missing (rollup_daily); so is
\* a period's (list_profit), and what advertising leaves of it (sku_profit).
ProfitAddsUp ==
    part = "profit" => LinesAddUp(question.case, LinesOf(question), question.rate)

\* Settlements beside the orders (reconcile), periods (period_bounds), and losses by advertising
\* (_loss).
ReportsTell ==
    /\ part = "settle" =>
          \A c \in {"USD", "EUR"} : Profits!SettlementAdds(question.lines, question.orders, c)
    /\ part = "period" =>
          /\ Book!PeriodsPart(question.day)
          /\ Boards!PromosHold(question.day % 7, 1 + (question.day % 12), 1 + (question.day % 40))
    /\ part = "loss" =>
          Advertising!WarnsOfLosses(question.spend, question.revenue, question.landed)

\* The database finds the orders that the engine flags (_exception_clause, _ship_rank).
FlagsAgree ==
    part = "flags" => Queue!SameAnswer(question.order, 3, question.sla, question.warn)

Stocks(some) == {question[i] @@ [sku |-> i] : i \in some}

\* The pages of the board agree with its rows (summarize, rank_skus, assess_inventory), and its
\* rows with the orders (order_facts).
PagesTell ==
    /\ part = "pages" => Boards!PagesAgree(question) /\ Boards!WindowsAddUp(question, 1)
                        /\ Boards!RatiosHold(question)
    /\ part = "timing" => Boards!TimingAgrees(question.order, question.now)
    /\ part = "rank" => Boards!RankHolds(question.days, question.limit)
    /\ part = "health" =>
          /\ Boards!HealthAddsUp(Stocks({1, 2}), Stocks({2, 3}))
          /\ Boards!StockLasts({[day |-> 3 * i, onHand |-> question[i].available] : i \in 1..3},
                               question[2].available, <<question[3].available, 5>>)

\* The rules that only compute.
FiguresHold ==
    StockPlansHold /\ AllocationExact /\ PriceMeetsTarget /\ ProfitAddsUp /\ FlagsAgree
    /\ ReportsTell /\ PagesTell /\ ScreensTell

\* Taxes, certificates, grants, the lists, the books of profit and the catalogue.
OfficeHolds ==
    TaxesHold /\ GrantHolds /\ AlertsHold /\ ListsTell /\ BooksTell /\ CatalogHolds

-----------------------------------------------------------------------------
(* What the run checks of the parts with constants holds for any values of  *)
(* them: each step is one of the part that was chosen, and the other parts  *)
(* rest (BackgroundProofs and OfficeProofs have the parts themselves).      *)

\* The breaker takes its own steps or rests (Circuit).
LEMMA BreakerGoesOn == Spec => Breaker!Spec
<1>1. Init => Breaker!Init
    BY DEF Init
<1>2. [Next]_all => [Breaker!Next]_(Breaker!vars)
    <2>1. ASSUME Next PROVE Breaker!Next \/ UNCHANGED Breaker!vars
        <3>1. CASE part = "circuit"
            BY <2>1, <3>1 DEF Next, OfficeNext
        <3>2. CASE part # "circuit"
            BY <2>1, <3>2 DEF Next, Rest, breaker, Breaker!vars
        <3> QED
            BY <3>1, <3>2
    <2>2. ASSUME UNCHANGED all PROVE UNCHANGED Breaker!vars
        BY <2>2 DEF all, breaker, Breaker!vars
    <2> QED
        BY <2>1, <2>2
<1> QED
    BY <1>1, <1>2, PTL DEF Spec, Breaker!Spec

\* The bucket and the quota take their own steps or rest (RateLimit).
LEMMA LimiterGoesOn == Spec => Limiter!Spec
<1>1. Init => Limiter!Init
    BY DEF Init
<1>2. [Next]_all => [Limiter!Next]_(Limiter!vars)
    <2>1. ASSUME Next PROVE Limiter!Next \/ UNCHANGED Limiter!vars
        <3>1. CASE part = "limit"
            BY <2>1, <3>1 DEF Next, OfficeNext
        <3>2. CASE part # "limit"
            BY <2>1, <3>2 DEF Next, Rest, limiter, Limiter!vars
        <3> QED
            BY <3>1, <3>2
    <2>2. ASSUME UNCHANGED all PROVE UNCHANGED Limiter!vars
        BY <2>2 DEF all, limiter, Limiter!vars
    <2> QED
        BY <2>1, <2>2
<1> QED
    BY <1>1, <1>2, PTL DEF Spec, Limiter!Spec

\* The pulls take their own steps until they cross, or rest (SyncCursor).
LEMMA CursorGoesOn == Spec => Cursor!Spec
<1>1. Init => Cursor!Init
    BY DEF Init
<1>2. [Next]_all => [Cursor!Next]_(Cursor!vars)
    <2>1. ASSUME Next PROVE Cursor!Next \/ UNCHANGED Cursor!vars
        <3>1. CASE part = "pull"
            BY <2>1, <3>1 DEF Next, OfficeNext
        <3>2. CASE part # "pull"
            BY <2>1, <3>2 DEF Next, Rest, cursor, Cursor!vars
        <3> QED
            BY <3>1, <3>2
    <2>2. ASSUME UNCHANGED all PROVE UNCHANGED Cursor!vars
        BY <2>2 DEF all, cursor, Cursor!vars
    <2> QED
        BY <2>1, <2>2
<1> QED
    BY <1>1, <1>2, PTL DEF Spec, Cursor!Spec

\* The scheduled tasks take their own steps or rest (BeatLock).
LEMMA LockGoesOn == Spec => Lock!Spec
<1>1. Init => Lock!Init
    BY DEF Init
<1>2. [Next]_all => [Lock!Next]_(Lock!vars)
    <2>1. ASSUME Next PROVE Lock!Next \/ UNCHANGED Lock!vars
        <3>1. CASE part = "beat"
            BY <2>1, <3>1 DEF Next, OfficeNext
        <3>2. CASE part # "beat"
            BY <2>1, <3>2 DEF Next, Rest, beat, Lock!vars
        <3> QED
            BY <3>1, <3>2
    <2>2. ASSUME UNCHANGED all PROVE UNCHANGED Lock!vars
        BY <2>2 DEF all, beat, Lock!vars
    <2> QED
        BY <2>1, <2>2
<1> QED
    BY <1>1, <1>2, PTL DEF Spec, Lock!Spec

\* The webhooks take their own steps or rest (Webhook).
LEMMA IngressGoesOn == Spec => Ingress!Spec
<1>1. Init => Ingress!Init
    BY DEF Init
<1>2. [Next]_all => [Ingress!Next]_(Ingress!vars)
    <2>1. ASSUME Next PROVE Ingress!Next \/ UNCHANGED Ingress!vars
        <3>1. CASE part = "webhook"
            BY <2>1, <3>1 DEF Next, OfficeNext
        <3>2. CASE part # "webhook"
            BY <2>1, <3>2 DEF Next, Rest, ingress, Ingress!vars
        <3> QED
            BY <3>1, <3>2
    <2>2. ASSUME UNCHANGED all PROVE UNCHANGED Ingress!vars
        BY <2>2 DEF all, ingress, Ingress!vars
    <2> QED
        BY <2>1, <2>2
<1> QED
    BY <1>1, <1>2, PTL DEF Spec, Ingress!Spec

\* The browser takes its own steps or rests (Sessions).
LEMMA TabGoesOn == Spec => Tab!Spec
<1>1. Init => Tab!Init
    BY DEF Init
<1>2. [Next]_all => [Tab!Next]_(Tab!vars)
    <2>1. ASSUME Next PROVE Tab!Next \/ UNCHANGED Tab!vars
        <3>1. CASE part = "tab"
            BY <2>1, <3>1 DEF Next, OfficeNext
        <3>2. CASE part # "tab"
            BY <2>1, <3>2 DEF Next, Rest, tab, Tab!vars
        <3> QED
            BY <3>1, <3>2
    <2>2. ASSUME UNCHANGED all PROVE UNCHANGED Tab!vars
        BY <2>2 DEF all, tab, Tab!vars
    <2> QED
        BY <2>1, <2>2
<1> QED
    BY <1>1, <1>2, PTL DEF Spec, Tab!Spec

\* The batch takes its own steps or rests (ListingBatch).
LEMMA ListingGoesOn == Spec => Listing!Spec
<1>1. Init => Listing!Init
    BY DEF Init
<1>2. [Next]_all => [Listing!Next]_(Listing!vars)
    <2>1. ASSUME Next PROVE Listing!Next \/ UNCHANGED Listing!vars
        <3>1. CASE part = "listing"
            BY <2>1, <3>1 DEF Next, OfficeNext
        <3>2. CASE part # "listing"
            BY <2>1, <3>2 DEF Next, Rest, listing, Listing!vars
        <3> QED
            BY <3>1, <3>2
    <2>2. ASSUME UNCHANGED all PROVE UNCHANGED Listing!vars
        BY <2>2 DEF all, listing, Listing!vars
    <2> QED
        BY <2>1, <2>2
<1> QED
    BY <1>1, <1>2, PTL DEF Spec, Listing!Spec

\* The order and its stock take their own steps or rest (OrderStock).
LEMMA GoodsGoesOn == Spec => Goods!Spec
<1>1. Init => Goods!Init
    BY DEF Init
<1>2. [Next]_all => [Goods!Next]_(Goods!vars)
    <2>1. ASSUME Next PROVE Goods!Next \/ UNCHANGED Goods!vars
        <3>1. CASE part = "order"
            BY <2>1, <3>1 DEF Next, OfficeNext
        <3>2. CASE part # "order"
            BY <2>1, <3>2 DEF Next, Rest, goods, Goods!vars
        <3> QED
            BY <3>1, <3>2
    <2>2. ASSUME UNCHANGED all PROVE UNCHANGED Goods!vars
        BY <2>2 DEF all, goods, Goods!vars
    <2> QED
        BY <2>1, <2>2
<1> QED
    BY <1>1, <1>2, PTL DEF Spec, Goods!Spec

\* The desk takes its own steps, in either of its parts, or rests (CustomerDesk).
LEMMA DeskSteps == [Next]_all => [Desk!Next]_(Desk!vars)
<1>1. ASSUME Next PROVE Desk!Next \/ UNCHANGED Desk!vars
    <2>1. CASE part \in {"inbox", "tickets"}
        BY <1>1, <2>1 DEF Next, OfficeNext
    <2>2. CASE part \notin {"inbox", "tickets"}
        BY <1>1, <2>2 DEF Next, Rest, OfficeRests, desk, Desk!vars
    <2> QED
        BY <2>1, <2>2
<1>2. ASSUME UNCHANGED all PROVE UNCHANGED Desk!vars
    BY <1>2 DEF all, office, desk, Desk!vars
<1> QED
    BY <1>1, <1>2

LEMMA DeskGoesOn == Spec => Desk!Spec
<1>1. Init => Desk!Init
    BY DEF Init, OfficeInit
<1> QED
    BY <1>1, DeskSteps, PTL DEF Spec, Desk!Spec

\* The address of an order takes its own steps or rests (OrderAddress).
LEMMA AddressGoesOn == Spec => Addresses!Spec
<1>1. Init => Addresses!Init
    BY DEF Init, OfficeInit
<1>2. [Next]_all => [Addresses!Next]_(Addresses!vars)
    <2>1. ASSUME Next PROVE Addresses!Next \/ UNCHANGED Addresses!vars
        <3>1. CASE part = "address"
            BY <2>1, <3>1 DEF Next, OfficeNext
        <3>2. CASE part # "address"
            BY <2>1, <3>2 DEF Next, Rest, OfficeRests, addresses, Addresses!vars
        <3> QED
            BY <3>1, <3>2
    <2>2. ASSUME UNCHANGED all PROVE UNCHANGED Addresses!vars
        BY <2>2 DEF all, office, addresses, Addresses!vars
    <2> QED
        BY <2>1, <2>2
<1> QED
    BY <1>1, <1>2, PTL DEF Spec, Addresses!Spec

\* The batches that ship orders take their own steps or rest (ShipBatch).
LEMMA ShipsGoesOn == Spec => Ships!Spec
<1>1. Init => Ships!Init
    BY DEF Init, OfficeInit
<1>2. [Next]_all => [Ships!Next]_(Ships!vars)
    <2>1. ASSUME Next PROVE Ships!Next \/ UNCHANGED Ships!vars
        <3>1. CASE part = "ships"
            BY <2>1, <3>1 DEF Next, OfficeNext
        <3>2. CASE part # "ships"
            BY <2>1, <3>2 DEF Next, Rest, OfficeRests, shipping, Ships!vars
        <3> QED
            BY <3>1, <3>2
    <2>2. ASSUME UNCHANGED all PROVE UNCHANGED Ships!vars
        BY <2>2 DEF all, office, shipping, Ships!vars
    <2> QED
        BY <2>1, <2>2
<1> QED
    BY <1>1, <1>2, PTL DEF Spec, Ships!Spec

\* The members of a shop take their own steps or rest (Members).
LEMMA TeamGoesOn == Spec => Team!Spec
<1>1. Init => Team!Init
    BY DEF Init, OfficeInit
<1>2. [Next]_all => [Team!Next]_(Team!vars)
    <2>1. ASSUME Next PROVE Team!Next \/ UNCHANGED Team!vars
        <3>1. CASE part = "team"
            BY <2>1, <3>1 DEF Next, OfficeNext
        <3>2. CASE part # "team"
            BY <2>1, <3>2 DEF Next, Rest, OfficeRests, members, Team!vars
        <3> QED
            BY <3>1, <3>2
    <2>2. ASSUME UNCHANGED all PROVE UNCHANGED Team!vars
        BY <2>2 DEF all, office, members, Team!vars
    <2> QED
        BY <2>1, <2>2
<1> QED
    BY <1>1, <1>2, PTL DEF Spec, Team!Spec

\* The logins, and the tokens that are shown, take their own steps or rest (Access).
LEMMA EntranceGoesOn == Spec => Entrance!Spec
<1>1. Init => Entrance!Init
    BY DEF Init, OfficeInit
<1>2. [Next]_all => [Entrance!Next]_(Entrance!vars)
    <2>1. ASSUME Next PROVE Entrance!Next \/ UNCHANGED Entrance!vars
        <3>1. CASE part \in {"logins", "tokens"}
            BY <2>1, <3>1 DEF Next, OfficeNext
        <3>2. CASE part \notin {"logins", "tokens"}
            BY <2>1, <3>2 DEF Next, Rest, OfficeRests, entries, Entrance!vars
        <3> QED
            BY <3>1, <3>2
    <2>2. ASSUME UNCHANGED all PROVE UNCHANGED Entrance!vars
        BY <2>2 DEF all, office, entries, Entrance!vars
    <2> QED
        BY <2>1, <2>2
<1> QED
    BY <1>1, <1>2, PTL DEF Spec, Entrance!Spec

\* The tax rules and the registrations take their own steps, in either of their parts, or rest
\* (TaxRules).
LEMMA FilingsGoOn == Spec => Filings!Spec
<1>1. Init => Filings!Init
    BY DEF Init, OfficeInit
<1>2. [Next]_all => [Filings!Next]_(Filings!vars)
    <2>1. ASSUME Next PROVE Filings!Next \/ UNCHANGED Filings!vars
        <3>1. CASE part \in {"rates", "numbers"}
            BY <2>1, <3>1 DEF Next, OfficeNext
        <3>2. CASE part \notin {"rates", "numbers"}
            BY <2>1, <3>2 DEF Next, Rest, OfficeRests, taxes, Filings!vars
        <3> QED
            BY <3>1, <3>2
    <2>2. ASSUME UNCHANGED all PROVE UNCHANGED Filings!vars
        BY <2>2 DEF all, office, taxes, Filings!vars
    <2> QED
        BY <2>1, <2>2
<1> QED
    BY <1>1, <1>2, PTL DEF Spec, Filings!Spec

-----------------------------------------------------------------------------
(***************************************************************************)
(* A breaker that is not closed lets one call through, and the bucket and  *)
(* the quota bound the calls, whoever calls (admit, try_acquire).          *)
(***************************************************************************)
THEOREM CallsStayHeld == Spec => []CallsHeld
<1>1. Breaker!OneProbeAtATime /\ Limiter!RateHeld /\ Limiter!QuotaHeld => CallsHeld
    BY DEF CallsHeld
<1> QED
    BY <1>1, BreakerGoesOn, LimiterGoesOn, OneProbe, RateKept, QuotaNearlyKept, PTL

(***************************************************************************)
(* No order before the high-water mark is missing, for any number of       *)
(* orders and pullers, while their runs do not cross (checkpoint_for).     *)
(***************************************************************************)
THEOREM NothingStaysSkipped == Spec => []NothingSkipped
<1>1. Cursor!NothingSkipped => NothingSkipped
    BY DEF NothingSkipped
<1> QED
    BY <1>1, CursorGoesOn, NoOrderSkipped, PTL

(***************************************************************************)
(* No two runs within the TTL hold the lock (run_beat_singleton).          *)
(***************************************************************************)
THEOREM RunsStayApart == Spec => []NoTwoWithinTtl
<1>1. Lock!NoTwoWithinTtl => NoTwoWithinTtl
    BY DEF NoTwoWithinTtl
<1> QED
    BY <1>1, LockGoesOn, OneYoungRun, PTL

(***************************************************************************)
(* What is turned away as a duplicate is kept somewhere (accept).          *)
(***************************************************************************)
THEOREM ClaimsStayKept == Spec => []ClaimedIsKept
<1>1. Ingress!ClaimedIsKept => ClaimedIsKept
    BY DEF ClaimedIsKept
<1> QED
    BY <1>1, IngressGoesOn, NoEventIsLost, PTL

(***************************************************************************)
(* Concurrent refreshes do not end the session (ensureRefreshed).          *)
(***************************************************************************)
THEOREM SessionStays == Spec => []SessionGoesOn
<1>1. Tab!SessionGoesOn => SessionGoesOn
    BY DEF SessionGoesOn
<1> QED
    BY <1>1, TabGoesOn, SessionKept, PTL

(***************************************************************************)
(* The statuses of a batch tell what is at the platform (_run).            *)
(***************************************************************************)
THEOREM StatusesStayTrue == Spec => []StatusesTell
<1>1. Listing!StatusesTell => StatusesTell
    BY DEF StatusesTell
<1> QED
    BY <1>1, ListingGoesOn, StatusesKept, PTL

(***************************************************************************)
(* The holds of an order tell what it has taken from each warehouse,       *)
(* whichever pickers, other orders and pulls are at it (_draw, ship_order). *)
(***************************************************************************)
THEOREM HoldsStayTrue == Spec => []HoldsExplainStock
<1>1. Goods!HoldsExplainStock => HoldsExplainStock
    BY DEF HoldsExplainStock
<1> QED
    BY <1>1, GoodsGoesOn, HoldsKept, PTL

(***************************************************************************)
(* A read message was shown to a clerk as it is, unless two of them wrote  *)
(* it at once, and the status of a ticket tells what was done, for any     *)
(* number of syncs and clerks (mark_message_read, next_ticket_status).     *)
(***************************************************************************)
THEOREM DeskStaysTrue == Spec => []DeskHolds
<1>1. DeskInv => DeskHolds
    BY DEF DeskInv, DeskHolds, Desk!DeskHolds
<1> QED
    BY <1>1, DeskGoesOn, DeskInvariant, PTL

(***************************************************************************)
(* No request changes a ticket that is closed, unless it had found it open *)
(* before (_open_ticket).                                                  *)
(***************************************************************************)
THEOREM ClosedTicketsStay == Spec => ClosedStays
<1>1. DeskInv /\ [Next]_all => [part = "tickets" => Desk!ClosedStays]_office
    BY DeskSteps, ClosedTicketStays
<1> QED
    BY <1>1, DeskGoesOn, DeskInvariant, PTL DEF Spec, ClosedStays

(***************************************************************************)
(* An address is the one that was written last, and shipped orders were    *)
(* told to the platform and answered for, for any number of clerks, pulls  *)
(* and batches, whatever fails (change_address, run_ship_batch).           *)
(***************************************************************************)
THEOREM OrdersStayTold == Spec => []OrdersTold
<1>1. Addresses!AddressHolds /\ Ships!ShipmentsTell => OrdersTold
    BY DEF OrdersTold
<1> QED
    BY <1>1, AddressGoesOn, ShipsGoesOn, AddressKept, ShipmentsKept, PTL

(***************************************************************************)
(* An address has one link that opens unless two invitations of it         *)
(* crossed, an administrator remains, an account is locked only after that *)
(* many wrong passwords, and a revoked token is refused to its end, for    *)
(* any number of managers, people, logins, tokens and processes            *)
(* (member_service.py, auth_service.py, token_blacklist.py).               *)
(***************************************************************************)
THEOREM MembersStay == Spec => []MembersHold
<1>1. Team!MembersHold /\ Entrance!LockTells /\ Entrance!RevokedStays => MembersHold
    BY DEF MembersHold
<1> QED
    BY <1>1, TeamGoesOn, EntranceGoesOn, MembersKept, EntranceKept, PTL

(***************************************************************************)
(* No two versions of a tax rule are in force on one day, every version    *)
(* keeps a day, and a tax number is registered once at a time, for any     *)
(* requests and days (tax_rule.py, tax_registration.py).                   *)
(***************************************************************************)
THEOREM TaxesStay == Spec => []TaxesHold
<1>1. Filings!TaxesHold => TaxesHold
    BY DEF TaxesHold
<1> QED
    BY <1>1, FilingsGoOn, TaxesKept, PTL
=============================================================================
