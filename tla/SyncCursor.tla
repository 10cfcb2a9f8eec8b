----------------------------- MODULE SyncCursor -----------------------------
(***************************************************************************)
(* The incremental pull of one shop's orders (OrderSyncService.run with    *)
(* sync_engine/cursor.py): windows that overlap, pages of one order, a     *)
(* bound on the pages of one run, and the row that remembers how far the   *)
(* shop has come.  Nothing keeps two runs of one shop apart: a run reads   *)
(* the row at its start, and once more right before it writes it.          *)
(***************************************************************************)
EXTENDS Integers, Sequences, FiniteSets

CONSTANTS Puller,     \* workers
          Orders,     \* number of orders; an order is its platform id
          Overlap,    \* order_overlap_seconds
          Late,       \* after how long a change is listed at the latest
          MaxPages,   \* order_max_pages
          MaxTime,    \* bound on the time
          LastChange, \* bound on the time of the last change
          None

Order == 1..Orders

VARIABLES
    now,
    changed,  \* per order, when it last changed at the platform
    listed,   \* orders whose last change the platform's listing shows
    got,      \* per order, the change of the stored version
    row,      \* shop_sync_cursor
    run,      \* per worker, the run in progress
    crossed   \* a run has saved over a row that had changed since it read it to save it

vars == <<now, changed, listed, got, row, run, crossed>>

-----------------------------------------------------------------------------
Time == 0..MaxTime

\* Where a page starts: after this order of the listing.
Place == Time \X Order

Row == [at: Time \cup {None}, token: Place \cup {None},
        since: Int \cup {None}, until: Time \cup {None}]

NoRow == [at |-> None, token |-> None, since |-> None, until |-> None]

Stage == {"idle", "pulling", "pulled", "failed", "saving"}

Run == [stage: Stage, row: Row \cup {NoRow, None},
        since: Int, until: Time, token: Place \cup {None}, pages: 0..MaxPages,
        found: [Order -> Time \cup {None}]]

Nothing == [o \in Order |-> None]

Idle == [stage |-> "idle", row |-> None, since |-> 0, until |-> 0, token |-> None,
         pages |-> 0, found |-> Nothing]

TypeOK ==
    /\ now \in Time
    /\ changed \in [Order -> Time \cup {None}]
    /\ listed \subseteq Order
    /\ got \in [Order -> Time \cup {None}]
    /\ row = None \/ row.at \in Time \cup {None}
    /\ \A p \in Puller : run[p].stage \in Stage
    /\ crossed \in BOOLEAN

Init ==
    /\ now = 0
    /\ changed = Nothing
    /\ listed = {}
    /\ got = Nothing
    /\ row = None
    /\ run = [p \in Puller |-> Idle]
    /\ crossed = FALSE

-----------------------------------------------------------------------------
(* The platform.                                                            *)

Change(o) ==
    /\ changed[o] # now /\ now <= LastChange
    /\ changed' = [changed EXCEPT ![o] = now]
    /\ listed' = listed \ {o}
    /\ UNCHANGED <<now, got, row, run, crossed>>

List(o) ==
    /\ changed[o] # None /\ o \notin listed
    /\ listed' = listed \cup {o}
    /\ UNCHANGED <<now, changed, got, row, run, crossed>>

Tick ==
    /\ now < MaxTime
    /\ \A o \in Order \ listed : changed[o] # None => now < changed[o] + Late
    /\ now' = now + 1
    /\ UNCHANGED <<changed, listed, got, row, run, crossed>>

Before(x, y) == x[1] < y[1] \/ (x[1] = y[1] /\ x[2] < y[2])

\* The orders of a window after a place, in the order of the listing.
Listing(since, until, token) ==
    {o \in listed : /\ changed[o] \in since..until
                    /\ token # None => Before(token, <<changed[o], o>>)}

-----------------------------------------------------------------------------

Since(r) == r.at - Overlap

\* _window: where the last run stopped, or a window up to now.
Start(p) ==
    LET resumes == row # None /\ None \notin {row.token, row.since, row.until}
        first == row = None \/ row.at = None
    IN  /\ run[p].stage = "idle"
        /\ run' = [run EXCEPT ![p] =
             [Idle EXCEPT !.stage = "pulling",
               !.since = IF resumes THEN row.since ELSE IF first THEN 0 ELSE Since(row),
               !.until = IF resumes THEN row.until ELSE now,
               !.token = IF resumes THEN row.token ELSE None]]
        /\ UNCHANGED <<now, changed, listed, got, row, crossed>>

\* pull_order_pages: one more page; the last one, or the last one allowed.
Page(p) ==
    LET r == run[p]
        rest == Listing(r.since, r.until, r.token)
    IN  /\ r.stage = "pulling"
        /\ IF rest = {} THEN run' = [run EXCEPT ![p].stage = "pulled", ![p].token = None]
           ELSE LET o == CHOOSE o \in rest : \A q \in rest :
                           q = o \/ Before(<<changed[o], o>>, <<changed[q], q>>)
                IN  run' = [run EXCEPT ![p] =
                      [r EXCEPT !.found[o] = changed[o], !.pages = @ + 1,
                         !.token = IF rest = {o} THEN None ELSE <<changed[o], o>>,
                         !.stage = IF rest = {o} \/ r.pages + 1 = MaxPages
                                   THEN "pulled" ELSE "pulling"]]
        /\ UNCHANGED <<now, changed, listed, got, row, crossed>>

\* A page that cannot be fetched: what has come is stored all the same.
PageFails(p) ==
    /\ run[p].stage = "pulling"
    /\ run' = [run EXCEPT ![p].stage = "failed"]
    /\ UNCHANGED <<now, changed, listed, got, row, crossed>>

\* Faulty: failed orders do not hold the cursor back.
HeldBackByErrors(stage, failed) == stage = "failed"

\* checkpoint_for returns None.
HeldBack(stage, failed) == stage = "failed" \/ failed # {}

\* checkpoint_for: complete, or stopped at a place to go on from.
Checkpoint(r) ==
    IF r.token = None THEN [NoRow EXCEPT !.at = r.until]
    ELSE [at |-> None, token |-> r.token, since |-> r.since, until |-> r.until]

\* What the orders of a run leave in the store; those in "failed" are skipped.
Stored(found) ==
    [o \in Order |-> IF found[o] # None /\ (got[o] = None \/ found[o] > got[o])
                    THEN found[o] ELSE got[o]]

\* _ingest, and the SELECT of save unless the cursor is held back.
Ingest(p) ==
    LET r == run[p]
    IN  /\ r.stage \in {"pulled", "failed"}
        /\ \E failed \in SUBSET {o \in Order : r.found[o] # None} :
              LET found == [o \in Order |-> IF o \in failed THEN None ELSE r.found[o]]
              IN  IF HeldBack(r.stage, failed)
                  THEN got' = Stored(found) /\ run' = [run EXCEPT ![p] = Idle]
                  ELSE /\ run' = [run EXCEPT ![p] =
                            [r EXCEPT !.stage = "saving", !.row = row, !.found = found]]
                       /\ UNCHANGED got
        /\ UNCHANGED <<now, changed, listed, row, crossed>>

(***************************************************************************)
(* ShopSyncCursorRepository.save: decided upon the row as its SELECT has   *)
(* read it; only the columns that change on that copy are written.         *)
(***************************************************************************)
Saved(copy, point) ==
    LET Column(f) == IF copy[f] = point[f] THEN row[f] ELSE point[f]
        later == point.at # None /\ (copy.at = None \/ point.at > copy.at)
    IN  [at |-> IF later THEN point.at ELSE row.at,
         token |-> Column("token"), since |-> Column("since"), until |-> Column("until")]

\* The INSERT or UPDATE of save, and the commit.
Finish(p) ==
    LET r == run[p]
    IN  /\ r.stage = "saving"
        /\ r.row = None => row = None
        /\ got' = Stored(r.found)
        /\ row' = IF r.row = None THEN Checkpoint(r) ELSE Saved(r.row, Checkpoint(r))
        /\ crossed' = (crossed \/ row # r.row)
        /\ run' = [run EXCEPT ![p] = Idle]
        /\ UNCHANGED <<now, changed, listed>>

\* The worker dies, or the transaction is rolled back.
Crash(p) ==
    /\ run[p].stage # "idle"
    /\ run' = [run EXCEPT ![p] = Idle]
    /\ UNCHANGED <<now, changed, listed, got, row, crossed>>

Next ==
    \/ \E o \in Order : Change(o) \/ List(o)
    \/ Tick
    \/ \E p \in Puller : Start(p) \/ Page(p) \/ PageFails(p) \/ Ingest(p) \/ Finish(p) \/ Crash(p)

Spec == Init /\ [][Next]_vars

-----------------------------------------------------------------------------
Skipped ==
    {o \in Order : /\ changed[o] # None /\ row # None /\ row.at # None
                   /\ changed[o] + Late < row.at
                   /\ got[o] # changed[o]}

(***************************************************************************)
(* Every change that was listed before the high-water mark has been        *)
(* stored, in whatever pages, with failures, resumed runs and late         *)
(* listings, unless a run saved over a row that had changed since its save *)
(* had read it (checkpoint_for, order_sync_window, save).                  *)
(***************************************************************************)
NothingSkipped == ~crossed => Skipped = {}
=============================================================================
