---------------------------- MODULE ListingBatch ----------------------------
(***************************************************************************)
(* A batch that publishes SKUs to shops, item by item: listing_batch.py    *)
(* and the Celery task that runs it.  The platform is called before the    *)
(* transaction commits.  A task whose worker is lost is delivered again;   *)
(* one that runs into its time limit, or fails, is not.                    *)
(***************************************************************************)
EXTENDS Naturals, FiniteSets

CONSTANTS Items,     \* number of items
          MaxLost,   \* bound on the workers lost
          None

VARIABLES
    item,         \* status of each item
    batch,        \* the batch row
    task,         \* "queued", "running" or "over"
    step,         \* the item in hand and how far it is
    published,    \* how often the platform has the item
    interrupted,  \* items whose fate at the platform the task did not learn, or lost
    lost

vars == <<item, batch, task, step, published, interrupted, lost>>

Item == 1..Items

Ended == {"SUCCEEDED", "PARTIAL", "FAILED"}

TypeOK ==
    /\ item \in [Item -> {"PENDING", "SUCCEEDED", "FAILED", "SKIPPED"}]
    /\ batch \in [status: {"PENDING", "RUNNING"} \cup Ended,
                  succeeded: 0..Items, failed: 0..Items, skipped: 0..Items]
    /\ task \in {"queued", "running", "over"}
    /\ step = None \/ step \in [on: Item, at: {"calling", "called", "failed"}]
    /\ published \in [Item -> 0..(MaxLost + 1)]
    /\ interrupted \subseteq Item /\ lost \in 0..MaxLost

Count(items, status) == Cardinality({i \in Item : items[i] = status})

\* apply_counts.
Counts(items, running) ==
    LET some(s) == Count(items, s) > 0
    IN  [succeeded |-> Count(items, "SUCCEEDED"), failed |-> Count(items, "FAILED"),
         skipped |-> Count(items, "SKIPPED"),
         status |-> IF some("PENDING") THEN IF running THEN "RUNNING" ELSE "PENDING"
                    ELSE IF some("FAILED")
                    THEN IF some("SUCCEEDED") \/ some("SKIPPED") THEN "PARTIAL" ELSE "FAILED"
                    ELSE "SUCCEEDED"]

\* accept_publish: pairs that are linked already are skipped.
Init ==
    /\ item \in [Item -> {"PENDING", "SKIPPED"}]
    /\ batch = Counts(item, FALSE)
    /\ task = "queued"
    /\ step = None
    /\ published = [i \in Item |-> 0]
    /\ interrupted = {}
    /\ lost = 0

-----------------------------------------------------------------------------
Take ==
    /\ task = "queued"
    /\ task' = IF batch.status \in Ended THEN "over" ELSE "running"
    /\ UNCHANGED <<item, batch, step, published, interrupted, lost>>

\* Faulty: failed items are tried again.
ToDoAgain == {i \in Item : item[i] \in {"PENDING", "FAILED"}}

ToDo == {i \in Item : item[i] = "PENDING"}

\* The loop of _run: the next item, or none is left.
Pick ==
    /\ task = "running" /\ step = None
    /\ IF ToDo = {}
       THEN batch' = Counts(item, FALSE) /\ task' = "over" /\ UNCHANGED step
       ELSE /\ step' = [on |-> CHOOSE i \in ToDo : \A j \in ToDo : i <= j, at |-> "calling"]
            /\ UNCHANGED <<batch, task>>
    /\ UNCHANGED <<item, published, interrupted, lost>>

At(stage) == step # None /\ step.at = stage

\* _publish_item up to the answer of the platform.
Call ==
    /\ At("calling")
    /\ published' = [published EXCEPT ![step.on] = @ + 1]
    /\ step' = [step EXCEPT !.at = "called"]
    /\ UNCHANGED <<item, batch, task, interrupted, lost>>

\* The item is refused here or at the platform, or the answer does not come.
CallFails ==
    /\ At("calling")
    /\ \/ UNCHANGED <<published, interrupted>>
       \/ /\ published' = [published EXCEPT ![step.on] = @ + 1]
          /\ interrupted' = interrupted \cup {step.on}
    /\ step' = [step EXCEPT !.at = "failed"]
    /\ UNCHANGED <<item, batch, task, lost>>

Settle(status) ==
    /\ item' = [item EXCEPT ![step.on] = status]
    /\ batch' = Counts(item', TRUE)
    /\ step' = None

Commit ==
    /\ At("called")
    /\ Settle("SUCCEEDED")
    /\ UNCHANGED <<task, published, interrupted, lost>>

\* The platform's SKU is linked elsewhere, or the commit fails: rolled back.
CommitFails ==
    /\ At("called")
    /\ step' = [step EXCEPT !.at = "failed"]
    /\ interrupted' = interrupted \cup {step.on}
    /\ UNCHANGED <<item, batch, task, published, lost>>

\* _mark_failed.
MarkFailed ==
    /\ At("failed")
    /\ Settle("FAILED")
    /\ UNCHANGED <<task, published, interrupted, lost>>

InHand == IF At("called") THEN {step.on} ELSE {}

LoseWorker ==
    /\ task = "running" /\ lost < MaxLost
    /\ lost' = lost + 1
    /\ task' = "queued"
    /\ step' = None
    /\ interrupted' = interrupted \cup InHand
    /\ UNCHANGED <<item, batch, published>>

\* task_time_limit, or _mark_failed fails too: the task is not run again.
Abort ==
    /\ task = "running"
    /\ task' = "over"
    /\ step' = None
    /\ interrupted' = interrupted \cup InHand
    /\ UNCHANGED <<item, batch, published, lost>>

Next == \/ Take \/ Pick \/ Call \/ CallFails \/ Commit \/ CommitFails
        \/ MarkFailed \/ LoseWorker \/ Abort

Spec == Init /\ [][Next]_vars

-----------------------------------------------------------------------------
(***************************************************************************)
(* The statuses tell what is at the platform: an item that succeeded is    *)
(* there once, one that failed, was skipped or is pending is not, in       *)
(* whatever batch is run again after a worker was lost.  The exceptions    *)
(* are the items of which the answer, or the commit after it, was lost.  A *)
(* batch has ended when no item is pending (_run, _mark_failed).           *)
(***************************************************************************)
StatusesTell ==
    /\ \A i \in Item \ (interrupted \cup InHand) :
          published[i] = IF item[i] = "SUCCEEDED" THEN 1 ELSE 0
    /\ batch.status \in Ended <=> ToDo = {}
    /\ batch.failed = Count(item, "FAILED") /\ batch.succeeded = Count(item, "SUCCEEDED")
=============================================================================
