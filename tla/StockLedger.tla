---------------------------- MODULE StockLedger ----------------------------
(***************************************************************************)
(* The stock ledger of backend/app/services/inventory.py: requests running *)
(* concurrently, each in one READ COMMITTED transaction, change rows of    *)
(* table inventory under the optimistic lock of apply_change.              *)
(*                                                                         *)
(* A request is a sequence of tasks.  A leg is one call of _commit_change  *)
(* on one row that _ensure or get_pair has loaded, or only that call, when *)
(* it changes no bucket; a draw is one call of _draw, which takes its      *)
(* quantity from as many bins of the SKU as it needs.  A row (bin) is a    *)
(* (SKU, warehouse) pair.                                                  *)
(* PostgreSQL keeps, for every bin, the committed version of the row and   *)
(* at most one uncommitted version, whose author holds the row lock until  *)
(* its transaction ends; the ORM session keeps a copy of every row it has  *)
(* loaded (its identity map), which goes stale when others commit.         *)
(***************************************************************************)
EXTENDS Integers, Sequences

CONSTANTS Session,      \* requests or workers that can run at the same time
          Bin,          \* (SKU, warehouse) pairs
          Programs,     \* the sequences of tasks a request may consist of
          Opening,      \* the balances the program starts from
          Retries,      \* _VERSION_RETRIES
          MaxVersion,   \* bound: no request starts once a row is past it
          NoRow,        \* the row does not exist, or is not loaded
          NoLeg,        \* no portion of a draw is being posted
          Nobody        \* no transaction holds the row lock

Bucket == {"avail", "occ", "transit", "defect"}

Balance == [avail: Int, occ: Int, transit: Int, defect: Int, version: Int]

Leg == [bin: Bin, avail: Int, occ: Int, transit: Int, defect: Int,
        shown: Bucket]

\* The bins of a draw are those a plan may use; it ships pieces or reserves them.
Draw == [bins: SUBSET Bin, quantity: Nat, ships: BOOLEAN]

\* What _draw has added to the bucket; 0 in a row of _commit_change.
Flow == [bucket: Bucket, before: Int, after: Int, drawn: Int]

(***************************************************************************)
(* The CHECK constraints of table inventory.                               *)
(***************************************************************************)
Legal(row) == /\ row.avail >= 0
              /\ row.occ >= 0
              /\ row.transit >= 0
              /\ row.defect >= 0
              /\ row.occ <= row.avail

\* A leg that changes nothing stands for a call of _ensure alone.
OnlyEnsures(leg) ==
    leg.avail = 0 /\ leg.occ = 0 /\ leg.transit = 0 /\ leg.defect = 0

ZeroRow == [avail |-> 0, occ |-> 0, transit |-> 0, defect |-> 0, version |-> 0]

ASSUME ProgramsAssumption == Programs \subseteq Seq(Leg \cup Draw)
\* Every call that moves physical stock writes the flow row of that bucket.
ASSUME ShownAssumption ==
    \A legs \in Programs : \A i \in 1..Len(legs) :
        legs[i] \in Leg /\ legs[i].avail # 0 => legs[i].shown = "avail"
ASSUME RetriesAssumption == Retries \in Nat \ {0}
ASSUME BoundAssumption == MaxVersion \in Nat
ASSUME AbsentAssumption == NoRow \notin Balance /\ NoLeg \notin Leg /\ Nobody \notin Session
ASSUME OpeningAssumption ==
    /\ Opening \in [Bin -> Balance \cup {NoRow}]
    /\ \A b \in Bin : Opening[b] # NoRow => Legal(Opening[b])

VARIABLES
    inv,    \* committed rows
    cur,    \* newest version of each row, committed or not
    lock,   \* the session whose uncommitted version cur holds
    pend,   \* the flow rows that session has inserted for the bin
    tx      \* per session: progress through its tasks and its identity map

vars == <<inv, cur, lock, pend, tx>>

NoView == [b \in Bin |-> NoRow]

Idle == [pc |-> "idle", legs |-> <<>>, at |-> 1, tries |-> 0, view |-> NoView,
         taken |-> 0, part |-> NoLeg]

Progress == [pc: {"idle", "load", "insert", "pick", "apply", "reread", "done"},
             legs: Seq(Leg \cup Draw), at: Nat \ {0}, tries: Nat,
             view: [Bin -> Balance \cup {NoRow}],
             taken: Nat, part: Leg \cup {NoLeg}]

TypeOK ==
    /\ inv \in [Bin -> Balance \cup {NoRow}]
    /\ cur \in [Bin -> Balance \cup {NoRow}]
    /\ lock \in [Bin -> Session \cup {Nobody}]
    /\ pend \in [Bin -> Seq(Flow)]
    /\ tx \in [Session -> Progress]

-----------------------------------------------------------------------------
(* What a statement of session s sees of a row, and whether it would wait.  *)

Visible(s, b) == IF lock[b] = s THEN cur[b] ELSE inv[b]

Unlocked(s, b) == lock[b] \in {s, Nobody}

Task(s) == tx[s].legs[tx[s].at]

CurrentLeg(s) == IF tx[s].part = NoLeg THEN Task(s) ELSE tx[s].part

(***************************************************************************)
(* The SET clause of apply_change, and its WHERE clause on the buckets.    *)
(***************************************************************************)
\* Faulty: the version is not counted up.
MovedUncounted(row, leg) ==
    [row EXCEPT !.avail = @ + leg.avail, !.occ = @ + leg.occ,
                !.transit = @ + leg.transit, !.defect = @ + leg.defect]

Moved(row, leg) == [avail   |-> row.avail + leg.avail,
                    occ     |-> row.occ + leg.occ,
                    transit |-> row.transit + leg.transit,
                    defect  |-> row.defect + leg.defect,
                    version |-> row.version + 1]

\* Faulty: the last conjunct of the WHERE clause is missing.
FitsUnreserved(row, leg) == /\ row.avail + leg.avail >= 0
                            /\ row.occ + leg.occ >= 0
                            /\ row.transit + leg.transit >= 0
                            /\ row.defect + leg.defect >= 0

Fits(row, leg) == Legal(Moved(row, leg))

\* Faulty: no version predicate.
MatchesAnyVersion(row, seen, leg) == Fits(row, leg)

Matches(row, seen, leg) == row.version = seen.version /\ Fits(row, leg)

\* Faulty: the version for a bucket.
FlowRowOfVersion(seen, new, leg) == [bucket |-> "version", before |-> seen.version,
                                     after |-> new.version, drawn |-> 0]

FlowRow(seen, new, leg) == [bucket |-> leg.shown,
                            before |-> seen[leg.shown],
                            after  |-> new[leg.shown],
                            drawn  |-> 0]

\* _draw reads both amounts from the one object that _apply_once has refreshed.
DrawnRow(new, leg) == [bucket |-> leg.shown,
                       before |-> new[leg.shown],
                       after  |-> new[leg.shown],
                       drawn  |-> leg[leg.shown]]

-----------------------------------------------------------------------------
Init ==
    /\ inv = Opening
    /\ cur = Opening
    /\ lock = [b \in Bin |-> Nobody]
    /\ pend = [b \in Bin |-> <<>>]
    /\ tx = [s \in Session |-> Idle]

(***************************************************************************)
(* A request starts its tasks.  "known" are the rows it has loaded already: *)
(* their copies in the identity map are used as they are.                  *)
(***************************************************************************)
Start(s, legs, known) ==
    /\ tx[s].pc = "idle"
    /\ tx' = [tx EXCEPT ![s] = [pc |-> IF legs = <<>> THEN "done" ELSE "load",
                                legs |-> legs, at |-> 1, tries |-> 0,
                                view |-> known, taken |-> 0, part |-> NoLeg]]
    /\ UNCHANGED <<inv, cur, lock, pend>>

Begin(s) ==
    /\ \A b \in Bin : inv[b] # NoRow => inv[b].version <= MaxVersion
    /\ \E legs \in Programs : Start(s, legs, NoView)

(***************************************************************************)
(* get_pair: a row already in the identity map is not overwritten by the   *)
(* query's result, so a stale copy stays stale.                            *)
(***************************************************************************)
Load(s) ==
    /\ tx[s].pc = "load"
    /\ Task(s) \notin Draw
    /\ LET b == CurrentLeg(s).bin
           held == tx[s].view[b]
           row == IF held # NoRow THEN held ELSE Visible(s, b)
       IN  tx' = [tx EXCEPT ![s].pc = IF row = NoRow THEN "insert" ELSE "apply",
                            ![s].view[b] = row]
    /\ UNCHANGED <<inv, cur, lock, pend>>

(***************************************************************************)
(* _ensure inserts a missing row in a savepoint.  The unique index makes   *)
(* the insert wait for a rival's uncommitted insert.                       *)
(***************************************************************************)
Insert(s) ==
    /\ tx[s].pc = "insert"
    /\ LET b == CurrentLeg(s).bin
       IN  /\ Unlocked(s, b)
           /\ cur[b] = NoRow
           /\ cur' = [cur EXCEPT ![b] = ZeroRow]
           /\ lock' = [lock EXCEPT ![b] = s]
           /\ tx' = [tx EXCEPT ![s].pc = "apply", ![s].view[b] = ZeroRow]
    /\ UNCHANGED <<inv, pend>>

\* The rival committed first: IntegrityError, and the row is read again.
InsertRaced(s) ==
    /\ tx[s].pc = "insert"
    /\ LET b == CurrentLeg(s).bin
       IN  /\ Unlocked(s, b)
           /\ cur[b] # NoRow
           /\ tx' = [tx EXCEPT ![s].pc = "apply", ![s].view[b] = cur[b]]
    /\ UNCHANGED <<inv, cur, lock, pend>>

\* Faulty: a commit after every change.
NextPhaseEager(s) == IF tx[s].at < Len(tx[s].legs) /\ OnlyEnsures(CurrentLeg(s))
                     THEN "load" ELSE "done"

NextPhase(s) == IF tx[s].at = Len(tx[s].legs) THEN "done" ELSE "load"

\* _ensure has returned the row and the request goes on.
Ensured(s) ==
    /\ tx[s].pc = "apply"
    /\ OnlyEnsures(CurrentLeg(s))
    /\ tx' = [tx EXCEPT ![s].pc = NextPhase(s), ![s].at = @ + 1]
    /\ UNCHANGED <<inv, cur, lock, pend>>

(***************************************************************************)
(* The conditional UPDATE.  It waits for the row lock and evaluates its    *)
(* WHERE clause on the newest version of the row.                          *)
(***************************************************************************)
Apply(s) ==
    /\ tx[s].pc = "apply"
    /\ tx[s].part = NoLeg
    /\ LET leg == CurrentLeg(s)
           b == leg.bin
           seen == tx[s].view[b]
           new == Moved(cur[b], leg)
       IN  /\ ~OnlyEnsures(leg)
           /\ Unlocked(s, b)
           /\ Matches(cur[b], seen, leg)
           /\ cur' = [cur EXCEPT ![b] = new]
           /\ lock' = [lock EXCEPT ![b] = s]
           /\ pend' = [pend EXCEPT ![b] = Append(@, FlowRow(seen, new, leg))]
           /\ tx' = [tx EXCEPT ![s].pc = NextPhase(s),
                               ![s].at = @ + 1,
                               ![s].tries = 0,
                               ![s].view[b] = new]
    /\ UNCHANGED inv

\* rowcount is 0.
Miss(s) ==
    /\ tx[s].pc = "apply"
    /\ ~OnlyEnsures(CurrentLeg(s))
    /\ LET b == CurrentLeg(s).bin
       IN  /\ Unlocked(s, b)
           /\ ~Matches(cur[b], tx[s].view[b], CurrentLeg(s))
    /\ tx' = [tx EXCEPT ![s].pc = "reread"]
    /\ UNCHANGED <<inv, cur, lock, pend>>

\* The version seen by the statement differs from the one just read again.
Stale(s) == LET b == CurrentLeg(s).bin
            IN  Visible(s, b).version # tx[s].view[b].version

(***************************************************************************)
(* A conflict with retries left: the identity map takes the fresh row.     *)
(***************************************************************************)
Retry(s) ==
    /\ tx[s].pc = "reread"
    /\ tx[s].part = NoLeg
    /\ Stale(s)
    /\ tx[s].tries + 1 < Retries
    /\ LET b == CurrentLeg(s).bin
       IN  tx' = [tx EXCEPT ![s].pc = "apply",
                            ![s].tries = @ + 1,
                            ![s].view[b] = Visible(s, b)]
    /\ UNCHANGED <<inv, cur, lock, pend>>

-----------------------------------------------------------------------------
(* A draw (_draw): the bins are read and a plan is made, which is posted    *)
(* portion by portion; a portion that misses its row makes another plan.    *)

\* list_for_sku: the bins that are not in the identity map yet are loaded.
ListBins(s) ==
    /\ tx[s].pc = "load"
    /\ Task(s) \in Draw
    /\ tx' = [tx EXCEPT ![s].pc = "pick",
                        ![s].view = [b \in Bin |->
                            IF b \in Task(s).bins /\ @[b] = NoRow THEN Visible(s, b) ELSE @[b]]]
    /\ UNCHANGED <<inv, cur, lock, pend>>

Left(s) == Task(s).quantity - tx[s].taken

\* The bins with something free, as the copies have it.
Roomy(s) == {b \in Task(s).bins : tx[s].view[b] # NoRow /\ tx[s].view[b].avail > tx[s].view[b].occ}

Portion(draw, b, q) == [bin     |-> b,
                        avail   |-> IF draw.ships THEN -q ELSE 0,
                        occ     |-> IF draw.ships THEN 0 ELSE q,
                        transit |-> 0,
                        defect  |-> 0,
                        shown   |-> IF draw.ships THEN "avail" ELSE "occ"]

\* How many pieces a portion takes.
Pieces(leg) == leg.occ - leg.avail

\* The next portion of the plan: all a bin has free, or what is left (plan_allocations).
Pick(s) ==
    /\ tx[s].pc = "pick"
    /\ Left(s) > 0
    /\ \E b \in Roomy(s) :
          LET free == tx[s].view[b].avail - tx[s].view[b].occ
              q == IF free < Left(s) THEN free ELSE Left(s)
          IN  tx' = [tx EXCEPT ![s].pc = "apply", ![s].part = Portion(Task(s), b, q)]
    /\ UNCHANGED <<inv, cur, lock, pend>>

\* The conditional UPDATE of a portion.
ApplyDrawn(s) ==
    /\ tx[s].pc = "apply"
    /\ tx[s].part # NoLeg
    /\ LET leg == tx[s].part
           b == leg.bin
           new == Moved(cur[b], leg)
       IN  /\ Unlocked(s, b)
           /\ Matches(cur[b], tx[s].view[b], leg)
           /\ cur' = [cur EXCEPT ![b] = new]
           /\ lock' = [lock EXCEPT ![b] = s]
           /\ pend' = [pend EXCEPT ![b] = Append(@, DrawnRow(new, leg))]
           /\ tx' = [tx EXCEPT ![s].pc = "pick",
                               ![s].view[b] = new,
                               ![s].taken = @ + Pieces(leg),
                               ![s].part = NoLeg]
    /\ UNCHANGED inv

\* A portion has missed its row, which is read again: the rest is planned once more.
Replan(s) ==
    /\ tx[s].pc = "reread"
    /\ tx[s].part # NoLeg
    /\ tx[s].tries + 1 < Retries
    /\ LET b == tx[s].part.bin
       IN  tx' = [tx EXCEPT ![s].pc = "load",
                            ![s].tries = @ + 1,
                            ![s].view[b] = Visible(s, b),
                            ![s].part = NoLeg]
    /\ UNCHANGED <<inv, cur, lock, pend>>

\* The last plan missed, too: the request goes on with what it has.
GiveUp(s) ==
    /\ tx[s].pc = "reread"
    /\ tx[s].part # NoLeg
    /\ tx[s].tries + 1 >= Retries
    /\ LET b == tx[s].part.bin
       IN  tx' = [tx EXCEPT ![s].pc = NextPhase(s),
                            ![s].at = @ + 1,
                            ![s].tries = 0,
                            ![s].view[b] = Visible(s, b),
                            ![s].taken = 0,
                            ![s].part = NoLeg]
    /\ UNCHANGED <<inv, cur, lock, pend>>

\* All is taken, or there is no more: the request goes on.
EndDraw(s) ==
    /\ tx[s].pc = "pick"
    /\ Left(s) = 0 \/ Roomy(s) = {}
    /\ tx' = [tx EXCEPT ![s].pc = NextPhase(s), ![s].at = @ + 1, ![s].tries = 0, ![s].taken = 0]
    /\ UNCHANGED <<inv, cur, lock, pend>>

-----------------------------------------------------------------------------
(***************************************************************************)
(* get_db: commit at the end of the request, rollback on an exception.     *)
(***************************************************************************)
Held(s) == {b \in Bin : lock[b] = s}

Release(s) ==
    /\ lock' = [b \in Bin |-> IF b \in Held(s) THEN Nobody ELSE lock[b]]
    /\ pend' = [b \in Bin |-> IF b \in Held(s) THEN <<>> ELSE pend[b]]
    /\ tx' = [tx EXCEPT ![s] = Idle]

Commit(s) ==
    /\ tx[s].pc = "done"
    /\ inv' = [b \in Bin |-> Visible(s, b)]
    /\ Release(s)
    /\ UNCHANGED cur

Rollback(s) ==
    /\ cur' = [b \in Bin |-> IF b \in Held(s) THEN inv[b] ELSE cur[b]]
    /\ Release(s)
    /\ UNCHANGED inv

\* InventoryInsufficientError: same version, so a bucket would leave its bounds.
Insufficient(s) ==
    /\ tx[s].pc = "reread"
    /\ tx[s].part = NoLeg
    /\ ~Stale(s)
    /\ Rollback(s)

\* Faulty: one retry more is waited for than is made.
ExhaustedLate(s) ==
    /\ tx[s].pc = "reread"
    /\ tx[s].part = NoLeg
    /\ Stale(s)
    /\ tx[s].tries >= Retries
    /\ Rollback(s)

\* InventoryConflictError: every retry met a new version.
Exhausted(s) ==
    /\ tx[s].pc = "reread"
    /\ tx[s].part = NoLeg
    /\ Stale(s)
    /\ tx[s].tries + 1 >= Retries
    /\ Rollback(s)

\* A crash, a dropped connection, or an exception raised by the request itself.
Abort(s) ==
    /\ tx[s].pc # "idle"
    /\ Rollback(s)

(***************************************************************************)
(* PostgreSQL's deadlock detection (external): it aborts one of a set of   *)
(* sessions that all wait for each other.                                  *)
(***************************************************************************)
WaitsFor(s, u) ==
    /\ tx[s].pc \in {"insert", "apply"}
    /\ tx[s].pc = "apply" => ~OnlyEnsures(CurrentLeg(s))
    /\ u # s
    /\ lock[CurrentLeg(s).bin] = u

Deadlocked(s) ==
    \E C \in SUBSET Session :
        s \in C /\ \A u \in C : \E w \in C : WaitsFor(u, w)

Victim(s) == Deadlocked(s) /\ Rollback(s)

-----------------------------------------------------------------------------
Step(s) == \/ Load(s) \/ Insert(s) \/ InsertRaced(s) \/ Ensured(s)
           \/ Apply(s) \/ Miss(s) \/ Retry(s) \/ Insufficient(s) \/ Exhausted(s)
           \/ ListBins(s) \/ Pick(s) \/ ApplyDrawn(s) \/ Replan(s) \/ GiveUp(s) \/ EndDraw(s)
           \/ Commit(s)

Next == \E s \in Session : Begin(s) \/ Step(s) \/ Victim(s) \/ Abort(s)

Spec == Init /\ [][Next]_vars

(***************************************************************************)
(* A running request keeps executing statements; PostgreSQL queues the     *)
(* waiters of a row lock, so one of them is not passed over for ever; and  *)
(* its deadlock detection runs after deadlock_timeout.                     *)
(***************************************************************************)
Fairness == \A s \in Session : SF_vars(Step(s)) /\ WF_vars(Victim(s))

FairSpec == Spec /\ Fairness

-----------------------------------------------------------------------------
(***************************************************************************)
(* Anti-oversell: whatever interleaving of requests, retries, rollbacks,   *)
(* every row version, committed or not, keeps its buckets non-negative and *)
(* never has more reserved than there is (apply_change, and the table's    *)
(* CHECK constraints).                                                     *)
(***************************************************************************)
NeverOversold ==
    \A b \in Bin : /\ inv[b] # NoRow => Legal(inv[b])
                   /\ cur[b] # NoRow => Legal(cur[b])

(***************************************************************************)
(* The optimistic lock counts: an uncommitted row is ahead of the          *)
(* committed one by exactly the flow rows its author has inserted, so no   *)
(* change of a balance goes without a trace and no trace is written for a  *)
(* change that was not made (_commit_change, _append_flow).                *)
(***************************************************************************)
VersionOf(row) == IF row = NoRow THEN 0 ELSE row.version

EveryChangeTraced ==
    \A b \in Bin : VersionOf(cur[b]) = VersionOf(inv[b]) + Len(pend[b])

(***************************************************************************)
(* What a flow row says of the amounts before and after: the rows of       *)
(* bucket "available" written by a transaction start from the committed    *)
(* amount, each starts where the previous one ended, and the last ends at  *)
(* the amount the row then has (before_qty and after_qty, which the export *)
(* of the flows and the page of the flows head as the amounts before and   *)
(* after the change).                                                      *)
(***************************************************************************)
Avail(row) == IF row = NoRow THEN 0 ELSE row.avail

Shows(p, i) == p[i].bucket = "avail"

Quiet(p, first, last) == \A i \in first..last : ~Shows(p, i)

Chains(p, start, end) ==
    LET n == Len(p)
    IN  /\ Quiet(p, 1, n) => end = start
        /\ \A i \in 1..n : Shows(p, i) =>
             /\ Quiet(p, 1, i - 1) => p[i].before = start
             /\ Quiet(p, i + 1, n) => p[i].after = end
             /\ \A j \in 1..(i - 1) :
                  Shows(p, j) /\ Quiet(p, j + 1, i - 1) => p[j].after = p[i].before

TrailChains == \A b \in Bin : Chains(pend[b], Avail(inv[b]), Avail(cur[b]))

(***************************************************************************)
(* The trail of the physical stock can be audited all the same: it chains  *)
(* once the rows of _draw are read as starting from before_qty without     *)
(* their quantity.  _commit_change takes before_qty from a copy that may   *)
(* be stale, and is right of every row it writes.                          *)
(***************************************************************************)
Amend(f) == [f EXCEPT !.before = f.before - f.drawn]

Amended(p) == [i \in 1..Len(p) |-> Amend(p[i])]

TrailAdds == \A b \in Bin : Chains(Amended(pend[b]), Avail(inv[b]), Avail(cur[b]))

(***************************************************************************)
(* A version number identifies the contents of a row: a session's copy is  *)
(* never newer than the row it would update, and if the versions agree     *)
(* then so do all the buckets.  So the version predicate of apply_change   *)
(* recognises every stale copy, and only those.                            *)
(***************************************************************************)
VersionIdentifiesRow ==
    \A s \in Session, b \in Bin :
        tx[s].view[b] # NoRow =>
            /\ Visible(s, b) # NoRow
            /\ tx[s].view[b].version <= Visible(s, b).version
            /\ tx[s].view[b].version = Visible(s, b).version
                 => tx[s].view[b] = Visible(s, b)

(***************************************************************************)
(* Every committed change of a balance shows as a greater version, so a    *)
(* stale copy is always recognised (the version predicate of apply_change  *)
(* is sound: there is no ABA).                                             *)
(***************************************************************************)
NoABA == [][\A b \in Bin :
              inv'[b] # inv[b] =>
                 /\ inv'[b] # NoRow
                 /\ inv[b] # NoRow => inv'[b].version > inv[b].version]_vars

(***************************************************************************)
(* Every request ends, committed or rolled back: the retry loop is bounded *)
(* and a cycle of row locks is broken by the database.                     *)
(***************************************************************************)
RequestsEnd == \A s \in Session : tx[s].pc # "idle" ~> tx[s].pc = "idle"

-----------------------------------------------------------------------------
Amounts(row) == IF row = NoRow
                THEN [avail |-> 0, occ |-> 0, transit |-> 0, defect |-> 0]
                ELSE [avail |-> row.avail, occ |-> row.occ,
                      transit |-> row.transit, defect |-> row.defect]

Minus(x, y) == [avail |-> x.avail - y.avail, occ |-> x.occ - y.occ,
                transit |-> x.transit - y.transit, defect |-> x.defect - y.defect]

(***************************************************************************)
(* The refinement mapping: the book is the committed rows, a cart is what  *)
(* a session's uncommitted versions add to them.                           *)
(***************************************************************************)
Book == INSTANCE StockBook WITH
    Stock <- [b \in Bin |-> Amounts(Opening[b])],
    book <- [b \in Bin |-> Amounts(inv[b])],
    cart <- [s \in Session |-> [b \in Bin |->
                Minus(Amounts(Visible(s, b)), Amounts(inv[b]))]],
    plan <- [s \in Session |-> tx[s].legs],
    pos <- [s \in Session |-> tx[s].at],
    given <- [s \in Session |-> tx[s].taken]

(***************************************************************************)
(* The ledger implements the book: every interleaving of its statements    *)
(* has the effect of posting whole requests, one at a time and each leg    *)
(* exactly once, no draw beyond its quantity, to a book that stays in its  *)
(* bounds (_commit_change and _draw inside the request's transaction).     *)
(***************************************************************************)
ImplementsBook == Book!BookSpec
=============================================================================
