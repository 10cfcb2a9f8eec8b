---------------------------- MODULE OrderIngest ----------------------------
(***************************************************************************)
(* One marketplace order, written by polling, webhooks and manual pulls    *)
(* that run concurrently (SalesOrderRepository.upsert under                *)
(* OrderStatusService.ingest_order), shipped by hand (order_ship.py) and   *)
(* reviewed by hand (order_desk.py).                                       *)
(*                                                                         *)
(* Each worker runs one READ COMMITTED transaction: it reads the header    *)
(* without a lock, replaces the lines, writes the header by its primary    *)
(* key (only the columns that changed against its own copy) and commits.   *)
(* Lines carry no SKU: nothing in the code sets order_item.sku_id, so the  *)
(* stock operations that ingestion calls pass over them.                   *)
(***************************************************************************)
EXTENDS OrderStatus, FiniteSets

CONSTANTS Worker,
          Nobody,    \* no transaction holds the row lock
          Stories    \* sequences of the versions an order may have at the platform

\* A version of the order at the platform; its position is its updated_at.
Version == [target: Status \cup {None}, large: BOOLEAN]

ASSUME StoriesAssumption == Stories \subseteq Seq(Version) \ {<<>>}
ASSUME WorkerAssumption == IsFiniteSet(Worker) /\ Nobody \notin Worker

VARIABLES
    story, now,  \* at the platform: all versions, and the current one
    row,         \* the committed header, or None
    cur, lock,   \* its newest version, and the worker that has not committed it
    items,       \* committed lines, as the numbers of the writes that made them
    log,         \* what the last commit added to the status log
    job          \* per worker, its transaction

platform == <<story, now>>
table == <<row, items, log>>
vars == <<platform, table, cur, lock, job>>

\* "by" is the write that the stamp comes from.
Row == [stamp: Nat, status: Status, review: Review, by: Nat]

Copy == [status: Status, review: Review]

CopyOf(header) == [status |-> header.status, review |-> header.review]

ASSUME AbsentAssumption == None \notin Status \cup Row \cup Copy

Entry == [from: Status \cup {None}, to: Status]

Job == [pc: {"idle", "fetched", "insert", "delete", "wait", "write",
             "push", "pushed", "mark", "decide", "done"},
        pay: Nat,              \* the version that was pulled
        seen: Copy \cup {None},  \* in the identity map
        old: SUBSET Nat,       \* lines to delete, then lines deleted
        own: SUBSET Nat,       \* lines inserted
        entries: Seq(Entry)]

Idle == [pc |-> "idle", pay |-> 0, seen |-> None, old |-> {}, own |-> {},
         entries |-> <<>>]

TypeOK ==
    /\ story \in Stories /\ now \in 1..Len(story)
    /\ row \in Row \cup {None} /\ cur \in Row \cup {None}
    /\ lock \in Worker \cup {Nobody}
    /\ items \subseteq Nat
    /\ log \in Seq(Entry)
    /\ job \in [Worker -> Job]

Init ==
    /\ story \in Stories /\ now = 1
    /\ row = None /\ cur = None /\ lock = Nobody
    /\ items = {} /\ log = <<>>
    /\ job = [w \in Worker |-> Idle]

\* The order changes at the platform (external).
Advance ==
    /\ now < Len(story)
    /\ now' = now + 1
    /\ UNCHANGED <<story, table, cur, lock, job>>

-----------------------------------------------------------------------------
(* Ingestion.                                                               *)

Unlocked(w) == lock \in {w, Nobody}

\* fetch_orders or fetch_order: the platform may answer with a version that
\* is no longer the current one, as a page that was read earlier does.
Fetch(w) ==
    /\ job[w].pc = "idle"
    /\ \E version \in 1..now :
          job' = [job EXCEPT ![w].pc = "fetched", ![w].pay = version]
    /\ UNCHANGED <<platform, table, cur, lock>>

\* Faulty: every payload overwrites.
AlwaysNewer(pay, seen) == TRUE

\* decide_write.
Newer(pay, seen) == pay > seen.stamp

\* What the worker does with the row it has read: insert, update, or skip.
Chosen(w, seen) ==
    CASE seen = None -> [job[w] EXCEPT !.pc = "insert"]
      [] seen # None /\ Newer(job[w].pay, seen) ->
            [job[w] EXCEPT !.pc = "delete", !.seen = CopyOf(seen)]
      [] OTHER -> Idle

ReadRow(w) ==
    /\ job[w].pc = "fetched"
    /\ job' = [job EXCEPT ![w] = Chosen(w, row)]
    /\ UNCHANGED <<platform, table, cur, lock>>

\* Faulty: only the first status is logged.
FirstEntry(from, to) == IF from = None THEN <<[from |-> from, to |-> to]>> ELSE <<>>

\* ingest_order logs a decision that applies.
Entries(from, to) == IF from = to THEN <<>> ELSE <<[from |-> from, to |-> to]>>

\* Primary keys of lines: a new set takes a number that is free.
Taken ==
    items \cup (UNION {job[w].old \cup job[w].own : w \in Worker})
          \cup {header.by : header \in {row, cur} \ {None}}

Fresh == CHOOSE n \in 1..(Cardinality(Taken) + 1) : n \notin Taken

InsertRow(w) ==
    LET version == story[job[w].pay]
        status == Decide(None, version.target)
    IN  /\ job[w].pc = "insert"
        /\ Unlocked(w)
        /\ cur = None
        /\ cur' = [stamp |-> job[w].pay, status |-> status,
                   review |-> NextReview("AUTO_PASSED", version.large),
                   by |-> Fresh]
        /\ lock' = w
        /\ job' = [job EXCEPT ![w].pc = "done", ![w].own = {Fresh},
                              ![w].entries = Entries(None, status)]
        /\ UNCHANGED <<platform, table>>

\* The unique key is taken: IntegrityError, and the row is read again.
InsertRaced(w) ==
    /\ job[w].pc = "insert"
    /\ Unlocked(w)
    /\ cur # None
    /\ job' = [job EXCEPT ![w] = Chosen(w, cur)]
    /\ UNCHANGED <<platform, table, cur, lock>>

\* Faulty: the lines of an update are added.
AppendLines(w) ==
    /\ job[w].pc = "delete"
    /\ job' = [job EXCEPT ![w].pc = "write"]
    /\ UNCHANGED <<platform, table, cur, lock>>

\* The DELETE of the lines begins: it will delete lines that are committed now.
BeginDelete(w) ==
    /\ job[w].pc = "delete"
    /\ job' = [job EXCEPT ![w].pc = "wait", ![w].old = items]
    /\ UNCHANGED <<platform, table, cur, lock>>

\* It waits for rivals that have deleted some of them, and passes over
\* those that are then gone.
EndDelete(w) ==
    /\ job[w].pc = "wait"
    /\ \A u \in Worker \ {w} :
          job[u].pc \in {"write", "done"} => job[u].old \cap job[w].old = {}
    /\ job' = [job EXCEPT ![w].pc = "write", ![w].old = @ \cap items]
    /\ UNCHANGED <<platform, table, cur, lock>>

\* Faulty: lines are inserted only in place of others.
NewLinesIfReplaced(w) == IF job[w].old = {} THEN {} ELSE {Fresh}

NewLines(w) == {Fresh}

\* The ORM leaves a column out of the UPDATE if it is as it was loaded.
Set(old, new, stored) == IF new = old THEN stored ELSE new

UpdateRow(w) ==
    LET version == story[job[w].pay]
        seen == job[w].seen
        status == Decide(seen.status, version.target)
        review == NextReview(seen.review, version.large)
    IN  /\ job[w].pc = "write"
        /\ Unlocked(w)
        /\ cur' = [stamp |-> job[w].pay,
                   status |-> Set(seen.status, status, cur.status),
                   review |-> Set(seen.review, review, cur.review),
                   by |-> Fresh]
        /\ lock' = w
        /\ job' = [job EXCEPT ![w].pc = "done", ![w].own = NewLines(w),
                              ![w].entries = Entries(seen.status, status)]
        /\ UNCHANGED <<platform, table>>

-----------------------------------------------------------------------------
(* Shipping and reviewing by hand.                                          *)

\* load, refuse_ship, review_blocks_ship.
LoadForShip(w) ==
    /\ job[w].pc = "idle"
    /\ row # None
    /\ "SHIPPED" \in Manual(row.status)
    /\ row.review \in Shippable
    /\ job' = [job EXCEPT ![w].pc = "push"]
    /\ UNCHANGED <<platform, table, cur, lock>>

\* The platform takes the tracking number of an order that waits for shipment
\* (external); otherwise the failure is recorded with the shipment.
Push(w) ==
    /\ job[w].pc = "push"
    /\ job' = [job EXCEPT ![w] = IF story[now].target = "PAID"
                                 THEN [@ EXCEPT !.pc = "pushed"] ELSE Idle]
    /\ UNCHANGED <<platform, table, cur, lock>>

\* commit_success loads the order again.
LoadAgain(w) ==
    /\ job[w].pc = "pushed"
    /\ job' = [job EXCEPT ![w].pc = "mark", ![w].seen = CopyOf(row)]
    /\ UNCHANGED <<platform, table, cur, lock>>

MarkShipped(w) ==
    /\ job[w].pc = "mark"
    /\ Unlocked(w)
    /\ cur' = [cur EXCEPT !.status = Set(job[w].seen.status, "SHIPPED", @)]
    /\ lock' = w
    /\ job' = [job EXCEPT ![w].pc = "done",
                          ![w].entries = <<[from |-> job[w].seen.status,
                                            to |-> "SHIPPED"]>>]
    /\ UNCHANGED <<platform, table>>

LoadForReview(w) ==
    /\ job[w].pc = "idle"
    /\ row # None
    /\ row.review = "PENDING"
    /\ job' = [job EXCEPT ![w].pc = "decide"]
    /\ UNCHANGED <<platform, table, cur, lock>>

\* decide_review.
DecideReview(w) ==
    /\ job[w].pc = "decide"
    /\ Unlocked(w)
    /\ \E verdict \in Reviewed : cur' = [cur EXCEPT !.review = verdict]
    /\ lock' = w
    /\ job' = [job EXCEPT ![w].pc = "done"]
    /\ UNCHANGED <<platform, table>>

-----------------------------------------------------------------------------
\* session_scope, get_db.
Commit(w) ==
    /\ job[w].pc = "done"
    /\ row' = IF lock = w THEN cur ELSE row
    /\ items' = (items \ job[w].old) \cup job[w].own
    /\ log' = job[w].entries
    /\ lock' = IF lock = w THEN Nobody ELSE lock
    /\ job' = [job EXCEPT ![w] = Idle]
    /\ UNCHANGED <<platform, cur>>

\* A crash or an error; a task that Celery delivers again starts from Fetch.
Abort(w) ==
    /\ job[w].pc # "idle"
    /\ cur' = IF lock = w THEN row ELSE cur
    /\ lock' = IF lock = w THEN Nobody ELSE lock
    /\ job' = [job EXCEPT ![w] = Idle]
    /\ UNCHANGED <<platform, table>>

Next ==
    \/ Advance
    \/ \E w \in Worker :
          \/ Fetch(w) \/ ReadRow(w) \/ InsertRow(w) \/ InsertRaced(w)
          \/ BeginDelete(w) \/ EndDelete(w) \/ UpdateRow(w)
          \/ LoadForShip(w) \/ Push(w) \/ LoadAgain(w) \/ MarkShipped(w)
          \/ LoadForReview(w) \/ DecideReview(w)
          \/ Commit(w) \/ Abort(w)

Spec == Init /\ [][Next]_vars

-----------------------------------------------------------------------------
(***************************************************************************)
(* However pulls of several versions interleave, the lines of the payload  *)
(* that the header shows are there: nobody deletes them without putting    *)
(* the header and lines of its own in their place (upsert deletes the      *)
(* lines before it takes the header's row lock, _replace_items).           *)
(***************************************************************************)
HeaderHasItsLines == row # None => row.by \in items

(***************************************************************************)
(* Every change of an order's status is in its log, with the status it     *)
(* then has, although a writer decides on a copy that may be stale         *)
(* (ingest_order, commit_success).                                         *)
(***************************************************************************)
StatusOf(header) == IF header = None THEN None ELSE header.status

StatusChangesLogged ==
    [][StatusOf(row') # StatusOf(row)
          => \E i \in 1..Len(log') : log'[i].to = StatusOf(row')]_vars

(***************************************************************************)
(* The stamp never goes back: only a strictly newer payload overwrites     *)
(* (sync_engine/idempotency.py, decide_write).                             *)
(***************************************************************************)
StampOf(header) == IF header = None THEN 0 ELSE header.stamp

NewestWins == [][StampOf(row') >= StampOf(row)]_vars
=============================================================================
