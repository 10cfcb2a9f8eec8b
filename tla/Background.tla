----------------------------- MODULE Background -----------------------------
(***************************************************************************)
(* Parts of the system that share no state, each with its variables and    *)
(* the limits of its own: the workers that call the platforms, the         *)
(* webhooks, the session of a browser, the batches of listings, what an    *)
(* order takes from the stock, the desk of the customers, the addresses    *)
(* and the shipments of orders, the members with their logins and tokens,  *)
(* and the tax rules and registrations.                                    *)
(***************************************************************************)
EXTENDS Integers, FiniteSets, Sequences

CONSTANTS
    Caller, Samples, OpenTicks, StoreTicks,         \* the breaker, and what it remembers
    Worker, Clock, Qps, Burst, Quota, RecoverAfter, MaxTime, MaxCalls, MaxRegained,
    Puller, Orders, Overlap, Late, MaxPages, LastTick, LastChange,
    Beat, Ttl,
    Receiver, Retries, MaxCopies,
    Request, MaxPair,
    Items, MaxLost,
    Picker, Places, Ordered, Targets, Passes, MaxLine, MaxStock, MaxOther,
    Syncer, Clerk, Message, Ticket, MaxEdits, MaxNotes, MaxPulled,
    Mover, Mirror, Address, MaxStamp,               \* an order's address, changed and pulled
    Manager, Person, Owner, Invitee, MaxInvites,    \* the members of a tenant
    SignIn, Visitor, Process, WrongAllowed, LockTime, GivenRoles, Life, Pairs, LastMoment, MaxWrong,
    Shipper, Parcel, Batches, MaxBatches, MaxFailures,   \* orders that are shipped in batches
    Filer, TaxDay, TaxNumber, FilingKey, MaxVersions,    \* tax rules and registrations
    None

VARIABLES
    stored, quiet, call, asked, through, mute,
    now, bucket, used, limitJob, calls, regained,
    clock, changed, listed, got, cursorRow, run, crossed,
    lock, runner,
    parses, claimed, receiver, copies, letter, handled, accepted, stranded, dropped,
    held, issued, good, revoked, request, refresh, loggedOut, cutOff,
    item, batch, batchTask, step, published, interrupted, lost,
    order, holds, stock, rest, back, return, orderJob, tx, others,
    platform, inbox, ticket, sync, clerk, seen, raced,
    sentTo, addressee, addressLog, mover, mirror, collided,
    toldNumber, shipStatus, shipments, shipBatch, inBoth, sentIn, shipFailures,
    accounts, member, invitation, linked, membership, overlapped,
    moment, account, role, pairs, refusals, redisUp, client, logins, presented, wrongs, aside,
    revocations,
    today, rules, registrations, filing

breaker == <<stored, quiet, call, asked, through, mute>>

limiter == <<now, bucket, used, limitJob, calls, regained>>

cursor == <<clock, changed, listed, got, cursorRow, run, crossed>>

beat == <<lock, runner>>

ingress == <<parses, claimed, receiver, copies, letter, handled, accepted, stranded, dropped>>

tab == <<held, issued, good, revoked, request, refresh, loggedOut, cutOff>>

listing == <<item, batch, batchTask, step, published, interrupted, lost>>

goods == <<order, holds, stock, rest, back, return, orderJob, tx, others>>

desk == <<platform, inbox, ticket, sync, clerk, seen, raced>>

addresses == <<sentTo, addressee, addressLog, mover, mirror, collided>>

shipping == <<toldNumber, shipStatus, shipments, shipBatch, inBoth, sentIn, shipFailures>>

members == <<accounts, member, invitation, linked, membership, overlapped>>

entries == <<moment, account, role, pairs, refusals, redisUp, client, logins, presented, wrongs,
             aside, revocations>>

taxes == <<today, rules, registrations, filing>>

-----------------------------------------------------------------------------
Breaker == INSTANCE Circuit WITH Window <- Samples, MinSamples <- Samples

Limiter == INSTANCE RateLimit WITH job <- limitJob

Cursor == INSTANCE SyncCursor WITH MaxTime <- LastTick, now <- clock, row <- cursorRow

Lock == INSTANCE BeatLock

Ingress == INSTANCE Webhook

Tab == INSTANCE Sessions

Listing == INSTANCE ListingBatch WITH task <- batchTask

Goods == INSTANCE OrderStock WITH Worker <- Picker, job <- orderJob

Desk == INSTANCE CustomerDesk WITH job <- clerk

Addresses == INSTANCE OrderAddress WITH
    Request <- Mover, Syncer <- Mirror, platform <- sentTo, row <- addressee, log <- addressLog,
    request <- mover, sync <- mirror, crossed <- collided

Ships == INSTANCE ShipBatch WITH
    Clerk <- Shipper, Order <- Parcel, platform <- toldNumber, status <- shipStatus,
    shipment <- shipments, batch <- shipBatch, shared <- inBoth, started <- sentIn,
    failures <- shipFailures

Team == INSTANCE Members WITH
    Request <- Manager, mailed <- linked, job <- membership, crossed <- overlapped

Entrance == INSTANCE Access WITH
    Login <- SignIn, Request <- Visitor, Worker <- Process, MaxFailures <- WrongAllowed,
    Given <- GivenRoles, MaxPair <- Pairs, MaxClock <- LastMoment,
    clock <- moment, member <- role, issued <- pairs, revoked <- refusals, link <- client,
    login <- logins, job <- presented, wrong <- wrongs, alone <- aside, over <- revocations

Filings == INSTANCE TaxRules WITH
    Request <- Filer, Day <- TaxDay, Number <- TaxNumber, Key <- FilingKey, MaxRows <- MaxVersions,
    job <- filing

-----------------------------------------------------------------------------
\* None is neither a number nor any of the records that it stands for the absence of.

ASSUME BreakerAssumption ==
    /\ Samples \in Nat
    /\ None \notin [phase: {"closed", "open", "half_open"}, outcomes: Seq(BOOLEAN),
                    since: Nat, probe: BOOLEAN]

\* A bucket holds a token at least, and every worker has a clock.
ASSUME LimiterAssumption ==
    /\ IsFiniteSet(Worker) /\ Worker # {} /\ Clock \in [Worker -> Int]
    /\ Qps \in Nat /\ Burst \in Nat \ {0} /\ Quota \in Nat /\ RecoverAfter \in Nat
    /\ None \notin [tokens: Int, stamp: Int, penalty: {1, 2, 4}, streak: Nat]

\* The windows overlap by the time that a change takes to be listed.
ASSUME CursorAssumption ==
    /\ Orders \in Nat /\ Overlap \in Nat /\ Late \in Nat /\ Late <= Overlap
    /\ None \notin Int /\ None \notin Nat \X Nat
    /\ None \notin [at: Nat \cup {None}, token: (Nat \X Nat) \cup {None},
                    since: Int \cup {None}, until: Nat \cup {None}]

ASSUME LockAssumption ==
    /\ Ttl \in Nat \ {0} /\ None \notin Beat
    /\ None \notin [token: Beat \cup {None}, left: 1..Ttl]

ASSUME IngressAssumption == Retries \in Nat /\ MaxCopies \in Nat

ASSUME TabAssumption == MaxPair \in Nat \ {0} /\ None \notin Nat

ASSUME ListingAssumption ==
    /\ Items \in Nat /\ MaxLost \in Nat
    /\ None \notin [on: 1..Items, at: {"calling", "called", "failed"}]

\* The warehouses are finitely many, and the balances at the start satisfy the CHECK
\* constraints of the table.
ASSUME GoodsAssumption ==
    /\ IsFiniteSet(DOMAIN Places) /\ DOMAIN Places \subseteq Nat
    /\ Places \in [DOMAIN Places -> [avail: Nat, occ: Nat, default: BOOLEAN,
                                     type: {"LOCAL", "OVERSEAS", "FBA", "PLATFORM"}]]
    /\ Ordered \in Nat /\ Passes \in Nat /\ MaxLine \in Nat \ {0}
    /\ Targets \subseteq Goods!Status \cup {None} /\ None \notin Goods!Status
    /\ None \notin [DOMAIN Places -> 0..Ordered] \cup Goods!InTx

ASSUME DeskAssumption ==
    /\ MaxEdits \in Nat /\ MaxNotes \in Nat /\ MaxPulled \in Nat
    /\ None \notin Desk!Row \cup Desk!TicketRow

ASSUME AddressAssumption == MaxStamp \in Nat

ASSUME ShipsAssumption ==
    /\ Batches \subseteq Seq(Parcel) \ {<<>>}
    /\ None \notin Ships!Number \cup Ships!Shipment \cup Ships!Answer

\* Nobody invites the owner (invite).
ASSUME TeamAssumption ==
    /\ Owner \in Person /\ Invitee \subseteq Person \ {Owner} /\ MaxInvites \in Nat
    /\ None \notin Team!Member

ASSUME EntranceAssumption ==
    /\ WrongAllowed \in Nat \ {0} /\ LockTime \in Nat /\ Life \in [Entrance!Kind -> Nat]
    /\ Pairs \in Nat \ {0} /\ LastMoment \in Nat /\ MaxWrong \in Nat
    /\ None \notin GivenRoles \cup {"ADMIN"} /\ "redis" \notin Process

\* The days that rules are about have a last one.
ASSUME FilingsAssumption ==
    /\ TaxDay \subseteq Nat /\ \E d \in TaxDay : \A e \in TaxDay : e <= d
    /\ MaxVersions \in Nat
=============================================================================
