------------------------------ MODULE StockPush ------------------------------
(***************************************************************************)
(* What the platforms are told of the stock of one SKU: push_sku after     *)
(* every change, and the sweep that sets a shop to 0 when its last         *)
(* successful push is too long ago (services/inventory.py,                 *)
(* tasks/inventory.py).  The amounts are what a shop may sell              *)
(* (platform_push_quantity).                                               *)
(***************************************************************************)
EXTENDS Naturals, Sequences, FiniteSets, SequencesExt

CONSTANTS Worker,
          Shops,       \* the shops that sell the SKU, in the order of their listings
          Amounts,     \* amounts that may be on offer
          Lag,         \* stock_push_lag_seconds, in ticks
          Retries,     \* max_retries of batch.push_inventory
          MaxChanges,  \* bound on the changes of stock
          None

VARIABLES
    offer,    \* the amount by the committed stock
    change,   \* the amount a request is about to commit
    changes,  \* changes begun
    message,  \* per number of retries, pushes waiting in the broker
    job,      \* per worker, the push or sweep it runs
    shown,    \* per shop, the amount at the platform
    age       \* per shop, ticks since the last success in the push log

vars == <<offer, change, changes, message, job, shown, age>>

Shop == Range(Shops)

Attempt == 0..Retries

Idle == [kind |-> "idle", amount |-> None, at |-> 1, sent |-> {}, tries |-> 0]

TypeOK ==
    /\ offer \in Amounts /\ change \in Amounts \cup {None} /\ changes \in 0..MaxChanges
    /\ message \in [Attempt -> 0..(MaxChanges + Cardinality(Worker))]
    /\ job \in [Worker -> [kind: {"idle", "push", "sweep"}, amount: Amounts \cup {None},
                           at: 1..(Len(Shops) + 1), sent: SUBSET Shop, tries: Attempt]]
    /\ shown \in [Shop -> Amounts] /\ age \in [Shop -> 0..(Lag + 1)]

Init ==
    /\ offer \in Amounts
    /\ change = None /\ changes = 0
    /\ message = [n \in Attempt |-> 0]
    /\ job = [w \in Worker |-> Idle]
    /\ shown = [s \in Shop |-> offer]
    /\ age = [s \in Shop |-> 0]

-----------------------------------------------------------------------------
(* _flush_enqueue runs before the request commits, and may fail.            *)

Change(amount) ==
    /\ change = None /\ changes < MaxChanges
    /\ change' = amount
    /\ changes' = changes + 1
    /\ message' \in {[message EXCEPT ![0] = @ + 1], message}
    /\ UNCHANGED <<offer, job, shown, age>>

\* The request commits, or is rolled back.
EndChange ==
    /\ change # None
    /\ offer' \in {change, offer}
    /\ change' = None
    /\ UNCHANGED <<changes, message, job, shown, age>>

-----------------------------------------------------------------------------
\* push_sku reads the stock once, for all shops.
StartPush(w, n) ==
    /\ job[w] = Idle /\ message[n] > 0
    /\ message' = [message EXCEPT ![n] = @ - 1]
    /\ job' = [job EXCEPT ![w] = [Idle EXCEPT !.kind = "push", !.amount = offer, !.tries = n]]
    /\ UNCHANGED <<offer, change, changes, shown, age>>

StartSweep(w) ==
    /\ job[w] = Idle
    /\ job' = [job EXCEPT ![w] = [Idle EXCEPT !.kind = "sweep", !.amount = 0]]
    /\ UNCHANGED <<offer, change, changes, message, shown, age>>

\* Faulty: a shop that was never behind before is left alone.
LaggedShown(s) == age[s] > Lag /\ shown[s] = 0

\* should_push_zero.
Lagged(s) == age[s] > Lag

Current(w) == Shops[job[w].at]

HasShop(w, s) == job[w].kind # "idle" /\ job[w].at <= Len(Shops) /\ Current(w) = s

\* The sweep leaves alone the shops whose last success is recent.
Skip(w, s) ==
    /\ HasShop(w, s) /\ job[w].kind = "sweep" /\ ~Lagged(s)
    /\ job' = [job EXCEPT ![w].at = @ + 1]
    /\ UNCHANGED <<offer, change, changes, message, shown, age>>

Due(w, s) == HasShop(w, s) /\ (job[w].kind = "sweep" => Lagged(s))

Send(w, s) ==
    /\ Due(w, s)
    /\ shown' = [shown EXCEPT ![s] = job[w].amount]
    /\ job' = [job EXCEPT ![w].at = @ + 1, ![w].sent = @ \cup {s}]
    /\ UNCHANGED <<offer, change, changes, message, age>>

\* The logs are committed with the run.
Logged(w) == [s \in Shop |-> IF s \in job[w].sent THEN 0 ELSE age[s]]

End(w) ==
    /\ job[w].kind # "idle" /\ job[w].at > Len(Shops)
    /\ age' = Logged(w)
    /\ job' = [job EXCEPT ![w] = Idle]
    /\ UNCHANGED <<offer, change, changes, message, shown>>

(***************************************************************************)
(* No token, a refusal, or no answer: the shops that follow are left out,  *)
(* and a push is tried again or parked (_retry_or_dead).                   *)
(***************************************************************************)
SendFails(w, s) ==
    /\ Due(w, s)
    /\ shown' \in {shown, [shown EXCEPT ![s] = job[w].amount]}
    /\ age' = Logged(w)
    /\ message' = IF job[w].kind = "push" /\ job[w].tries < Retries
                  THEN [message EXCEPT ![job[w].tries + 1] = @ + 1] ELSE message
    /\ job' = [job EXCEPT ![w] = Idle]
    /\ UNCHANGED <<offer, change, changes>>

\* The worker is lost: what it sent is not in the log, and the push comes again.
Lose(w) ==
    /\ job[w].kind # "idle"
    /\ message' = IF job[w].kind = "push" THEN [message EXCEPT ![job[w].tries] = @ + 1]
                  ELSE message
    /\ job' = [job EXCEPT ![w] = Idle]
    /\ UNCHANGED <<offer, change, changes, shown, age>>

Tick ==
    /\ age' = [s \in Shop |-> IF age[s] > Lag THEN age[s] ELSE age[s] + 1]
    /\ age' # age
    /\ UNCHANGED <<offer, change, changes, message, job, shown>>

Next ==
    \/ \E amount \in Amounts : Change(amount)
    \/ EndChange
    \/ \E w \in Worker :
          \/ \E n \in Attempt : StartPush(w, n)
          \/ StartSweep(w) \/ End(w) \/ Lose(w)
          \/ \E s \in Shop : Skip(w, s) \/ Send(w, s) \/ SendFails(w, s)
    \/ Tick

Spec == Init /\ [][Next]_vars

(***************************************************************************)
(* Requests end, workers that are not lost go on, Beat keeps asking for    *)
(* the sweep, and no platform refuses for ever.                            *)
(***************************************************************************)
Fairness ==
    /\ WF_vars(EndChange) /\ WF_vars(Tick)
    /\ \A w \in Worker :
          /\ SF_vars(StartSweep(w)) /\ SF_vars(End(w))
          /\ SF_vars(\E n \in Attempt : StartPush(w, n))
          /\ \A s \in Shop : SF_vars(Skip(w, s) \/ Send(w, s))

FairSpec == Spec /\ Fairness

-----------------------------------------------------------------------------
(***************************************************************************)
(* A shop that shows more than there is does not go on doing so: a push or *)
(* the sweep takes it down, although pushes read before the commit, get    *)
(* lost, overtake each other or stop at the first shop that fails          *)
(* (push_sku, sweep_lag).                                                  *)
(***************************************************************************)
OversellingEnds == \A s \in Shop : shown[s] > offer ~> shown[s] <= offer
=============================================================================
