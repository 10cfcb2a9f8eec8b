------------------------------ MODULE ShipBatch ------------------------------
(***************************************************************************)
(* Shipping many orders at once (services/order_ship.py).                  *)
(*                                                                         *)
(* A batch takes its orders one after the other: it reads the order, tells *)
(* the platform the tracking number, and writes the order and its shipment *)
(* under a savepoint; when anything of that fails it notes the failure.    *)
(* The batch is one transaction, and the platform is not part of it: what  *)
(* it was told stays told.  Clerks may ship the same orders at once.       *)
(***************************************************************************)
EXTENDS Integers, Sequences, FiniteSetsExt

CONSTANTS Clerk, Order,
          Batches,      \* the lists of orders that are sent in
          MaxBatches,   \* bound on the batches
          MaxFailures,  \* bound on the failures of the platform and of workers
          None

VARIABLES
    platform,  \* the shipment that the platform was told last
    status,    \* committed status of the order
    shipment,  \* committed row of shipments
    batch,     \* what a batch has read and written
    shared,    \* orders that two open batches had in hand at the same time
    started, failures

vars == <<platform, status, shipment, batch, shared, started, failures>>

Number == [carrier: Clerk, attempt: Nat \ {0}]

Shipment == [state: {"SUCCEEDED"}, number: Number, attempt: Nat]
            \cup [state: {"FAILED"}, number: {None}, attempt: Nat]

Step == {"over", "load", "push", "save", "row", "find", "note", "commit"}

Answer == {"shipped", "failed", "refused"}

\* A list, the places in it that are still to do, and what was written and answered by order.
Batch == [step: Step, list: Seq(Order), todo: SUBSET Nat, attempt: Nat, found: BOOLEAN,
          writes: [Order -> Shipment \cup {None}], lines: [Order -> Answer \cup {None}]]

\* One batch of a clerk at a time; of a finished one the answer is kept.
Unwritten(step, list, todo, lines) ==
    [step |-> step, list |-> list, todo |-> todo, attempt |-> 0, found |-> FALSE,
     writes |-> [o \in Order |-> None], lines |-> lines]

NoAnswers == [o \in Order |-> None]

NoBatch == Unwritten("over", <<>>, {}, NoAnswers)

TypeOK ==
    /\ platform \in [Order -> Number \cup {None}]
    /\ status \in [Order -> {"PAID", "SHIPPED"}]
    /\ shipment \in [Order -> Shipment \cup {None}]
    /\ batch \in [Clerk -> Batch]
    /\ shared \subseteq Order

Init ==
    /\ platform = [o \in Order |-> None]
    /\ status = [o \in Order |-> "PAID"]
    /\ shipment = [o \in Order |-> None]
    /\ batch = [c \in Clerk |-> NoBatch]
    /\ shared = {} /\ started = 0 /\ failures = 0

-----------------------------------------------------------------------------
Now(c) == batch[c].list[Min(batch[c].todo)]

Keep == UNCHANGED <<status, shipment, started>>

\* dedupe_ids: an order is taken where it comes first.
Unique(list) == {i \in DOMAIN list : \A j \in 1..(i - 1) : list[j] # list[i]}

\* batch_ship
Submit(c, list) ==
    /\ batch[c].step = "over" /\ started < MaxBatches
    /\ started' = started + 1
    /\ batch' = [batch EXCEPT ![c] = Unwritten("load", list, Unique(list), NoAnswers)]
    /\ UNCHANGED <<platform, status, shipment, shared, failures>>

\* The answer for an order with the row that is written, or none, and the next one.
Turn(c, line, row) ==
    LET left == batch[c].todo \ {Min(batch[c].todo)}
    IN  [step |-> IF left = {} THEN "commit" ELSE "load", list |-> batch[c].list, todo |-> left,
         attempt |-> 0, found |-> FALSE, writes |-> [batch[c].writes EXCEPT ![Now(c)] = row],
         lines |-> [batch[c].lines EXCEPT ![Now(c)] = line]]

InHand(c) ==
    IF batch[c].step = "over" THEN {}
    ELSE {o \in Order : batch[c].writes[o] # None}
         \cup IF batch[c].step \in {"push", "save", "row", "find", "note"} THEN {Now(c)} ELSE {}

Meets(c) == IF \E other \in Clerk \ {c} : Now(c) \in InHand(other) THEN {Now(c)} ELSE {}

\* load, and refuse_ship: only a paid order is shipped.
Load(c) ==
    /\ batch[c].step = "load"
    /\ LET o == Now(c)
       IN  IF status[o] # "PAID"
           THEN batch' = [batch EXCEPT ![c] = Turn(c, "refused", None)]
           ELSE batch' = [batch EXCEPT
                    ![c].step = "push",
                    ![c].attempt = IF shipment[o] = None THEN 1 ELSE shipment[o].attempt + 1]
    /\ shared' = shared \cup (IF status[Now(c)] = "PAID" THEN Meets(c) ELSE {})
    /\ UNCHANGED <<platform, failures>> /\ Keep

\* make_tracking_no: the number is that of the attempt.
NumberOf(c) == [carrier |-> c, attempt |-> batch[c].attempt]

Tells(c) == platform' = [platform EXCEPT ![Now(c)] = NumberOf(c)]

Push(c) ==
    /\ batch[c].step = "push"
    /\ Tells(c)
    /\ batch' = [batch EXCEPT ![c].step = "save"]
    /\ UNCHANGED <<shared, failures>> /\ Keep

\* The platform refuses, or its answer is lost.
PushFails(c) ==
    /\ batch[c].step = "push"
    /\ failures < MaxFailures /\ failures' = failures + 1
    /\ Tells(c) \/ UNCHANGED platform
    /\ batch' = [batch EXCEPT ![c].step = "find"]
    /\ UNCHANGED shared /\ Keep

\* A platform that knows a shipment of the order may refuse another one.
PushTwice(c) ==
    /\ batch[c].step = "push" /\ platform[Now(c)] # None
    /\ batch' = [batch EXCEPT ![c].step = "find"]
    /\ UNCHANGED <<platform, shared, failures>> /\ Keep

-----------------------------------------------------------------------------
Wrote(c, o, state) == batch[c].writes[o] # None /\ batch[c].writes[o].state = state

\* Another transaction has the row of the order, ...
OrderTaken(c) ==
    \E other \in Clerk \ {c} :
        \/ Wrote(other, Now(c), "SUCCEEDED")
        \/ batch[other].step = "row" /\ Now(other) = Now(c)

\* ... or that of the shipment, or the key of one that it inserts.
RowTaken(c) == \E other \in Clerk \ {c} : batch[other].writes[Now(c)] # None

\* commit_success: the order is written, then the shipment is looked up.
SaveOrder(c) ==
    /\ batch[c].step = "save" /\ ~OrderTaken(c)
    /\ batch' = [batch EXCEPT ![c].step = "row", ![c].found = shipment[Now(c)] # None]
    /\ UNCHANGED <<platform, shared, failures>> /\ Keep

\* A second row for the order: uq on order_id.
Twice(c) == ~batch[c].found /\ shipment[Now(c)] # None

SaveShipment(c) ==
    /\ batch[c].step = "row" /\ ~RowTaken(c)
    /\ LET row == [state |-> "SUCCEEDED", number |-> NumberOf(c), attempt |-> batch[c].attempt]
       IN  IF Twice(c)
           THEN batch' = [batch EXCEPT ![c].step = "find"]
           ELSE batch' = [batch EXCEPT ![c] = Turn(c, "shipped", row)]
    /\ UNCHANGED <<platform, shared, failures>> /\ Keep

\* _record_failure, after the savepoint is rolled back.
FindShipment(c) ==
    /\ batch[c].step = "find"
    /\ batch' = [batch EXCEPT ![c].step = "note", ![c].found = shipment[Now(c)] # None]
    /\ UNCHANGED <<platform, shared, failures>> /\ Keep

\* A failure that cannot be noted is logged only.
NoteFailure(c) ==
    /\ batch[c].step = "note" /\ ~RowTaken(c)
    /\ LET row == [state |-> "FAILED", number |-> None, attempt |-> batch[c].attempt]
       IN  batch' = [batch EXCEPT ![c] = Turn(c, "failed", IF Twice(c) THEN None ELSE row)]
    /\ UNCHANGED <<platform, shared, failures>> /\ Keep

Waits(c) ==
    \/ batch[c].step = "save" /\ OrderTaken(c)
    \/ batch[c].step \in {"row", "note"} /\ RowTaken(c)

\* Two batches that wait for each other: the database stops one of them.
Deadlocked(c) ==
    /\ Waits(c) /\ \E other \in Clerk \ {c} : Waits(other)
    /\ batch' = [batch EXCEPT ![c] = IF @.step = "note" THEN Turn(c, "failed", None)
                                     ELSE [@ EXCEPT !.step = "find"]]
    /\ UNCHANGED <<platform, shared, failures>> /\ Keep

Writes(c) == batch[c].writes

\* The audit entry, and the commit of the request.
Commit(c) ==
    /\ batch[c].step = "commit"
    /\ shipment' = [o \in Order |-> IF Writes(c)[o] # None THEN Writes(c)[o] ELSE shipment[o]]
    /\ status' = [o \in Order |-> IF Wrote(c, o, "SUCCEEDED") THEN "SHIPPED" ELSE status[o]]
    /\ batch' = [batch EXCEPT ![c] = Unwritten("over", <<>>, {}, batch[c].lines)]
    /\ UNCHANGED <<platform, shared, started, failures>>

\* The worker dies: everything is rolled back but what the platform knows.
Die(c) ==
    /\ batch[c].step # "over"
    /\ failures < MaxFailures /\ failures' = failures + 1
    /\ batch' = [batch EXCEPT ![c] = NoBatch]
    /\ UNCHANGED <<platform, shared>> /\ Keep

Works(c) ==
    \/ \E list \in Batches : Submit(c, list)
    \/ Load(c) \/ Push(c) \/ PushFails(c) \/ PushTwice(c)
    \/ SaveOrder(c) \/ SaveShipment(c) \/ FindShipment(c) \/ NoteFailure(c)
    \/ Deadlocked(c) \/ Commit(c) \/ Die(c)

Next == \E c \in Clerk : Works(c)

Spec == Init /\ [][Next]_vars

-----------------------------------------------------------------------------
\* An order that is shipped was told to the platform, whatever failed, died or crossed
\* (run_ship_batch: the platform comes first).
ShippedWasTold == \A o \in Order : status[o] = "SHIPPED" => platform[o] # None

\* print_labels: what is printed is the number of a shipment that succeeded.
Labels == {o \in Order : shipment[o] # None /\ shipment[o].state = "SUCCEEDED"}

\* While no two batches have the same order in hand, a label that is printed has the number that
\* the platform knows, through retries, lost answers and crashes (make_tracking_no).
LabelsTellPlatform ==
    \A o \in Labels \ shared : shipment[o].number = platform[o] /\ status[o] = "SHIPPED"

\* A failed order can be sent in again (order_ship.py: "失败单留下原因，可再次提交"), while no two
\* batches have it in hand.
FailedStaysOpen ==
    \A o \in Order \ shared :
        shipment[o] # None /\ shipment[o].state = "FAILED" => status[o] = "PAID"

\* The answer of a batch is what became of it, order by order: one that fails does not take the
\* others with it (_ship_one), and a shipped one stays shipped.
AnswersTell ==
    \A c \in Clerk : batch[c].step = "over" =>
        \A o \in Order : batch[c].lines[o] \in {"shipped", "refused"} => status[o] = "SHIPPED"

ShipmentsTell == ShippedWasTold /\ LabelsTellPlatform /\ FailedStaysOpen /\ AnswersTell
=============================================================================
