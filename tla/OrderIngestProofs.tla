-------------------------- MODULE OrderIngestProofs --------------------------
(***************************************************************************)
(* Proofs about OrderIngest, for any finite set of workers and any story   *)
(* of an order at its platform.                                            *)
(***************************************************************************)
EXTENDS MCOrderIngest, FiniteSetTheorems, TLAPS

\* Primary keys never run out.
FiniteInv ==
    /\ IsFiniteSet(items)
    /\ \A w \in Worker : IsFiniteSet(job[w].old) /\ IsFiniteSet(job[w].own)

\* A worker that ingests has a version that the platform has had.
PulledInv ==
    \A w \in Worker :
        job[w].pc \in {"fetched", "insert", "delete", "wait", "write"}
            => job[w].pay \in 1..now

\* The header is locked by the worker that is about to commit, and only by it.
LockInv ==
    /\ lock = Nobody => cur = row
    /\ \A w \in Worker : job[w].pc = "done" <=> lock = w

\* Whoever changes an order has found one, and deletes lines only to ingest.
LoadedInv ==
    \A w \in Worker :
        /\ job[w].pc \in {"delete", "wait", "write", "mark"} => job[w].seen # None
        /\ job[w].pc \in {"delete", "wait", "write", "push", "pushed", "mark", "decide"}
             => row # None
        /\ job[w].pc \notin {"wait", "write", "done"} => job[w].old = {}

(***************************************************************************)
(* What a worker is about to commit: a header that refers to its own       *)
(* lines, or that leaves the lines and the stamp alone; and a log entry    *)
(* for the status, if that changes.                                        *)
(***************************************************************************)
Linked(w) == \/ cur.by \in job[w].own
             \/ job[w].old = {} /\ row # None /\ cur.by = row.by

Logged(w) == \/ StatusOf(cur) = StatusOf(row)
             \/ \E i \in 1..Len(job[w].entries) : job[w].entries[i].to = StatusOf(cur)

DoneInv ==
    \A w \in Worker : job[w].pc = "done" => cur # None /\ Linked(w) /\ Logged(w)

IndInv == /\ TypeOK
          /\ FiniteInv
          /\ PulledInv
          /\ LockInv
          /\ LoadedInv
          /\ DoneInv
          /\ HeaderHasItsLines

-----------------------------------------------------------------------------
(* What the operators of the status machine return.                         *)

LEMMA StatusMembers ==
    {"PENDING", "PAID", "SHIPPED", "DELIVERED", "COMPLETED"} \subseteq Status
  BY DEF Status, MainStatus, Main

LEMMA DecideType ==
    ASSUME NEW current \in Status \cup {None}, NEW target \in Status \cup {None}
    PROVE  Decide(current, target) \in Status
  BY StatusMembers DEF Decide

LEMMA NextReviewType ==
    ASSUME NEW current \in Review, NEW large \in BOOLEAN
    PROVE  NextReview(current, large) \in Review
  <1>1. CASE current \in Reviewed
    BY <1>1 DEF NextReview
  <1>2. CASE current \notin Reviewed /\ large
    BY <1>2, Zenon DEF NextReview, Review
  <1>3. CASE current \notin Reviewed /\ ~large
    BY <1>3, Zenon DEF NextReview, Review
  <1> QED
    BY <1>1, <1>2, <1>3

LEMMA CopyType ==
    ASSUME NEW header \in Row
    PROVE  /\ CopyOf(header) \in Copy
           /\ CopyOf(header) # None
           /\ header # None
  BY AbsentAssumption DEF Row, Copy, CopyOf

-----------------------------------------------------------------------------
(* A free primary key.                                                      *)

LEMMA FreshType ==
    ASSUME TypeOK, FiniteInv
    PROVE  Fresh \in Nat
  <1> DEFINE lines == {job[w].old \cup job[w].own : w \in Worker}
             stamps == {header.by : header \in {row, cur} \ {None}}
  <1>1. IsFiniteSet(UNION lines)
    <2>1. IsFiniteSet(lines)
      <3> DEFINE f == [w \in Worker |-> job[w].old \cup job[w].own]
      <3>1. f \in Surjection(Worker, lines)
        BY DEF Surjection
      <3> QED
        BY <3>1, WorkerAssumption, FS_Surjection
    <2>2. \A w \in Worker : IsFiniteSet(job[w].old \cup job[w].own)
      BY FS_Union DEF FiniteInv
    <2>3. \A S \in lines : IsFiniteSet(S)
      BY <2>2
    <2> QED
      BY <2>1, <2>3, FS_UNION
  <1>2. IsFiniteSet(stamps)
    <2>1. IsFiniteSet({row.by} \cup {cur.by})
      BY FS_Singleton, FS_Union
    <2>2. stamps \subseteq {row.by} \cup {cur.by}
      OBVIOUS
    <2> QED
      BY <2>1, <2>2, FS_Subset
  <1>3. IsFiniteSet(Taken)
    <2>1. IsFiniteSet(items \cup UNION lines)
      BY <1>1, FS_Union DEF FiniteInv
    <2>2. Taken = (items \cup UNION lines) \cup stamps
      BY DEF Taken
    <2> HIDE DEF lines, stamps
    <2> QED
      BY <1>2, <2>1, <2>2, FS_Union
  <1>4. Cardinality(Taken) \in Nat
    BY <1>3, FS_CardinalityType
  <1> DEFINE k == Cardinality(Taken) + 1
  <1>5. Cardinality(1..k) = k /\ IsFiniteSet(1..k)
    BY <1>4, FS_Interval
  <1>6. ~(1..k \subseteq Taken)
    BY <1>3, <1>4, <1>5, FS_Subset
  <1>7. \E n \in 1..k : n \notin Taken
    BY <1>6
  <1> QED
    BY <1>4, <1>7 DEF Fresh

-----------------------------------------------------------------------------
(* Kinds of steps.  A step changes the transaction of one worker.           *)

LEMMA OneJob ==
    ASSUME job \in [Worker -> Job], NEW w \in Worker, NEW J \in Job,
           job' = [job EXCEPT ![w] = J]
    PROVE  /\ job' \in [Worker -> Job]
           /\ job'[w] = J
           /\ \A u \in Worker \ {w} : job'[u] = job[u]
  OBVIOUS

\* Of one worker at most the transaction is in its last step.
LEMMA Unfinished ==
    ASSUME IndInv, NEW w \in Worker, job[w].pc # "done", Unlocked(w)
    PROVE  /\ lock = Nobody
           /\ cur = row
           /\ \A u \in Worker : job[u].pc # "done"
  BY WorkerAssumption DEF IndInv, LockInv, Unlocked

\* A transaction goes on without writing the header.
LEMMA ReadStep ==
    ASSUME IndInv, NEW w \in Worker, NEW J \in Job,
           job[w].pc # "done", J.pc # "done",
           job' = [job EXCEPT ![w] = J],
           UNCHANGED <<platform, table, cur, lock>>,
           IsFiniteSet(J.old), IsFiniteSet(J.own),
           J.pc \in {"fetched", "insert", "delete", "wait", "write"} => J.pay \in 1..now,
           J.pc \in {"delete", "wait", "write", "mark"} => J.seen # None,
           J.pc \in {"delete", "wait", "write", "push", "pushed", "mark", "decide"}
             => row # None,
           J.pc \notin {"wait", "write", "done"} => J.old = {}
    PROVE  IndInv'
  <1>1. /\ job' \in [Worker -> Job]
        /\ job'[w] = J
        /\ \A u \in Worker \ {w} : job'[u] = job[u]
    BY OneJob DEF IndInv, TypeOK
  <1>2. UNCHANGED <<story, now, row, items, log, cur, lock>>
    BY DEF platform, table
  <1>3. TypeOK'
    BY <1>1, <1>2 DEF IndInv, TypeOK
  <1>4. FiniteInv'
    BY <1>1, <1>2 DEF IndInv, FiniteInv
  <1>5. PulledInv'
    BY <1>1, <1>2 DEF IndInv, PulledInv
  <1>6. LockInv'
    BY <1>1, <1>2 DEF IndInv, LockInv
  <1>7. LoadedInv'
    BY <1>1, <1>2 DEF IndInv, LoadedInv
  <1>8. DoneInv'
    <2> SUFFICES ASSUME NEW u \in Worker, job'[u].pc = "done"
                 PROVE  (cur # None /\ Linked(u) /\ Logged(u))'
      BY DEF DoneInv
    <2>1. u # w
      BY <1>1
    <2>2. job'[u] = job[u]
      BY <1>1, <2>1
    <2> QED
      BY <1>2, <2>2 DEF IndInv, DoneInv, Linked, Logged, StatusOf
  <1>9. HeaderHasItsLines'
    BY <1>2 DEF IndInv, HeaderHasItsLines
  <1> QED
    BY <1>3, <1>4, <1>5, <1>6, <1>7, <1>8, <1>9 DEF IndInv

\* A transaction writes the header and is about to commit.
LEMMA WriteStep ==
    ASSUME IndInv, NEW w \in Worker, NEW J \in Job,
           job[w].pc # "done", Unlocked(w), J.pc = "done",
           job' = [job EXCEPT ![w] = J],
           cur' \in Row, lock' = w,
           UNCHANGED <<platform, table>>,
           IsFiniteSet(J.old), IsFiniteSet(J.own),
           \/ cur'.by \in J.own
           \/ J.old = {} /\ row # None /\ cur'.by = row.by,
           \/ cur'.status = StatusOf(row)
           \/ \E i \in 1..Len(J.entries) : J.entries[i].to = cur'.status
    PROVE  IndInv'
  <1>1. /\ job' \in [Worker -> Job]
        /\ job'[w] = J
        /\ \A u \in Worker \ {w} : job'[u] = job[u]
    BY OneJob DEF IndInv, TypeOK
  <1>2. UNCHANGED <<story, now, row, items, log>>
    BY DEF platform, table
  <1>3. /\ lock = Nobody
        /\ \A u \in Worker : job[u].pc # "done"
    BY Unfinished
  <1>4. TypeOK'
    BY <1>1, <1>2 DEF IndInv, TypeOK
  <1>5. FiniteInv'
    BY <1>1, <1>2 DEF IndInv, FiniteInv
  <1>6. PulledInv'
    BY <1>1, <1>2 DEF IndInv, PulledInv
  <1>7. LockInv'
    BY <1>1, <1>3, WorkerAssumption DEF LockInv
  <1>8. LoadedInv'
    BY <1>1, <1>2 DEF IndInv, LoadedInv
  <1>9. DoneInv'
    <2> SUFFICES ASSUME NEW u \in Worker, job'[u].pc = "done"
                 PROVE  (cur # None /\ Linked(u) /\ Logged(u))'
      BY DEF DoneInv
    <2>1. u = w
      BY <1>1, <1>3
    <2>2. job'[u] = J
      BY <1>1, <2>1
    <2>3. cur' # None
      BY CopyType
    <2>4. Linked(u)'
      BY <1>2, <2>2 DEF Linked
    <2>5. StatusOf(cur)' = cur'.status /\ StatusOf(row)' = StatusOf(row)
      BY <1>2, <2>3 DEF StatusOf
    <2>6. Logged(u)'
      BY <2>2, <2>5 DEF Logged
    <2> QED
      BY <2>3, <2>4, <2>6
  <1>10. HeaderHasItsLines'
    BY <1>2 DEF IndInv, HeaderHasItsLines
  <1> QED
    BY <1>4, <1>5, <1>6, <1>7, <1>8, <1>9, <1>10 DEF IndInv

-----------------------------------------------------------------------------
(* The steps of a transaction.                                              *)

LEMMA StoryType ==
    ASSUME TypeOK
    PROVE  /\ now \in Nat
           /\ \A v \in 1..now : /\ v \in Nat
                                /\ story[v].target \in Status \cup {None}
                                /\ story[v].large \in BOOLEAN
  <1>1. story \in Seq(Version) /\ now \in 1..Len(story)
    BY StoriesAssumption DEF TypeOK
  <1>2. \A v \in 1..now : v \in Nat /\ story[v] \in Version
    BY <1>1
  <1> QED
    BY <1>1, <1>2 DEF Version

LEMMA IdleType == Idle \in Job
  BY DEF Idle, Job

\* A transaction that ends without a write leaves nothing behind (_store, _ship_one).
LEMMA RestStep ==
    ASSUME IndInv, NEW w \in Worker, job[w].pc # "done",
           job' = [job EXCEPT ![w] = Idle],
           UNCHANGED <<platform, table, cur, lock>>
    PROVE  IndInv'
  <1> DEFINE J == Idle
  <1>1. J \in Job /\ J.pc = "idle" /\ J.old = {} /\ J.own = {}
    BY IdleType DEF Idle
  <1>2. IsFiniteSet(J.old) /\ IsFiniteSet(J.own)
    BY <1>1, FS_EmptySet
  <1>3. job' = [job EXCEPT ![w] = J]
    OBVIOUS
  <1> HIDE DEF J
  <1> QED
    BY <1>1, <1>2, <1>3, ReadStep

LEMMA FetchStep ==
    ASSUME IndInv, NEW w \in Worker, Fetch(w)
    PROVE  IndInv'
  <1>1. PICK version \in 1..now :
            job' = [job EXCEPT ![w].pc = "fetched", ![w].pay = version]
    BY DEF Fetch
  <1> DEFINE J == [job[w] EXCEPT !.pc = "fetched", !.pay = version]
  <1>2. job[w] \in Job /\ job[w].pc = "idle" /\ job[w].old = {}
    BY DEF IndInv, TypeOK, LoadedInv, Fetch
  <1>3. version \in Nat
    BY StoryType DEF IndInv
  <1>4. J \in Job /\ J.pc = "fetched" /\ J.pay = version /\ J.old = {}
                  /\ J.own = job[w].own
    BY <1>2, <1>3 DEF Job
  <1>5. job' = [job EXCEPT ![w] = J]
    BY <1>1
  <1>6. IsFiniteSet(J.old) /\ IsFiniteSet(J.own)
    BY <1>4, FS_EmptySet DEF IndInv, FiniteInv
  <1> HIDE DEF J
  <1> QED
    BY <1>2, <1>4, <1>5, <1>6, ReadStep DEF Fetch

\* What a worker does next with the header it has read can be done.
LEMMA ChosenStep ==
    ASSUME IndInv, NEW w \in Worker, NEW header \in Row \cup {None},
           header # None => row # None,
           job[w].pc \in {"fetched", "insert"},
           job' = [job EXCEPT ![w] = Chosen(w, header)],
           UNCHANGED <<platform, table, cur, lock>>
    PROVE  IndInv'
  <1>1. job[w] \in Job /\ job[w].old = {} /\ job[w].pay \in 1..now
    BY DEF IndInv, TypeOK, LoadedInv, PulledInv
  <1>2. CASE header = None
    <2> DEFINE J == [job[w] EXCEPT !.pc = "insert"]
    <2>1. Chosen(w, header) = J
      BY <1>2 DEF Chosen
    <2>2. J \in Job /\ J.pc = "insert" /\ J.pay = job[w].pay /\ J.old = {}
                    /\ J.own = job[w].own
      BY <1>1 DEF Job
    <2>3. IsFiniteSet(J.old) /\ IsFiniteSet(J.own)
      BY <2>2, FS_EmptySet DEF IndInv, FiniteInv
    <2> HIDE DEF J
    <2> QED
      BY <1>1, <2>1, <2>2, <2>3, ReadStep
  <1>3. CASE header # None /\ Newer(job[w].pay, header)
    <2> DEFINE J == [job[w] EXCEPT !.pc = "delete", !.seen = CopyOf(header)]
    <2>1. Chosen(w, header) = J
      BY <1>3 DEF Chosen
    <2>2. CopyOf(header) \in Copy /\ CopyOf(header) # None
      BY <1>3, CopyType
    <2>3. J \in Job /\ J.pc = "delete" /\ J.pay = job[w].pay /\ J.old = {}
                    /\ J.own = job[w].own /\ J.seen = CopyOf(header)
      BY <1>1, <2>2 DEF Job
    <2>4. IsFiniteSet(J.old) /\ IsFiniteSet(J.own)
      BY <2>3, FS_EmptySet DEF IndInv, FiniteInv
    <2> HIDE DEF J
    <2> QED
      BY <1>1, <1>3, <2>1, <2>2, <2>3, <2>4, ReadStep
  <1>4. CASE header # None /\ ~Newer(job[w].pay, header)
    <2>1. Chosen(w, header) = Idle
      BY <1>4 DEF Chosen
    <2> QED
      BY <2>1, RestStep
  <1> QED
    BY <1>2, <1>3, <1>4

LEMMA ReadRowStep ==
    ASSUME IndInv, NEW w \in Worker, ReadRow(w)
    PROVE  IndInv'
  <1>1. row \in Row \cup {None}
    BY DEF IndInv, TypeOK
  <1> QED
    BY <1>1, ChosenStep DEF ReadRow

LEMMA InsertRacedStep ==
    ASSUME IndInv, NEW w \in Worker, InsertRaced(w)
    PROVE  IndInv'
  <1>1. cur = row
    BY Unfinished DEF InsertRaced
  <1>2. cur \in Row \cup {None}
    BY DEF IndInv, TypeOK
  <1> QED
    BY <1>1, <1>2, ChosenStep DEF InsertRaced

LEMMA BeginDeleteStep ==
    ASSUME IndInv, NEW w \in Worker, BeginDelete(w)
    PROVE  IndInv'
  <1> DEFINE J == [job[w] EXCEPT !.pc = "wait", !.old = items]
  <1>1. /\ job[w] \in Job /\ job[w].pc = "delete" /\ job[w].pay \in 1..now
        /\ job[w].seen # None /\ row # None /\ items \subseteq Nat
    BY DEF IndInv, TypeOK, LoadedInv, PulledInv, BeginDelete
  <1>2. J \in Job /\ J.pc = "wait" /\ J.pay = job[w].pay /\ J.old = items
                  /\ J.own = job[w].own /\ J.seen = job[w].seen
    BY <1>1 DEF Job
  <1>3. job' = [job EXCEPT ![w] = J]
    BY DEF BeginDelete
  <1>4. IsFiniteSet(J.old) /\ IsFiniteSet(J.own)
    BY <1>2 DEF IndInv, FiniteInv
  <1> HIDE DEF J
  <1> QED
    BY <1>1, <1>2, <1>3, <1>4, ReadStep DEF BeginDelete

LEMMA EndDeleteStep ==
    ASSUME IndInv, NEW w \in Worker, EndDelete(w)
    PROVE  IndInv'
  <1> DEFINE J == [job[w] EXCEPT !.pc = "write", !.old = @ \cap items]
  <1>1. /\ job[w] \in Job /\ job[w].pc = "wait" /\ job[w].pay \in 1..now
        /\ job[w].seen # None /\ row # None
    BY DEF IndInv, TypeOK, LoadedInv, PulledInv, EndDelete
  <1>2. J \in Job /\ J.pc = "write" /\ J.pay = job[w].pay
                  /\ J.old = job[w].old \cap items
                  /\ J.own = job[w].own /\ J.seen = job[w].seen
    BY <1>1 DEF Job
  <1>3. job' = [job EXCEPT ![w] = J]
    BY DEF EndDelete
  <1>4. IsFiniteSet(J.old) /\ IsFiniteSet(J.own)
    BY <1>2, FS_Intersection DEF IndInv, FiniteInv
  <1> HIDE DEF J
  <1> QED
    BY <1>1, <1>2, <1>3, <1>4, ReadStep DEF EndDelete

LEMMA EntriesType ==
    ASSUME NEW from \in Status \cup {None}, NEW to \in Status
    PROVE  /\ Entries(from, to) \in Seq(Entry)
           /\ from # to => /\ Len(Entries(from, to)) = 1
                           /\ Entries(from, to)[1].to = to
  <1>1. [from |-> from, to |-> to] \in Entry
    BY DEF Entry
  <1> QED
    BY <1>1 DEF Entries

LEMMA InsertRowStep ==
    ASSUME IndInv, NEW w \in Worker, InsertRow(w)
    PROVE  IndInv'
  <1> DEFINE version == story[job[w].pay]
             status == Decide(None, version.target)
             review == NextReview("AUTO_PASSED", version.large)
             J == [job[w] EXCEPT !.pc = "done", !.own = {Fresh},
                                 !.entries = Entries(None, status)]
  <1>1. /\ job[w] \in Job /\ job[w].pc = "insert" /\ job[w].old = {}
        /\ job[w].pay \in Nat
        /\ version.target \in Status \cup {None} /\ version.large \in BOOLEAN
    BY StoryType DEF IndInv, TypeOK, LoadedInv, PulledInv, InsertRow
  <1>2. status \in Status
    BY <1>1, DecideType
  <1>3. review \in Review
    BY <1>1, NextReviewType DEF Review
  <1>4. Fresh \in Nat
    BY FreshType DEF IndInv
  <1> HIDE DEF version, status, review
  <1>5. /\ cur' = [stamp |-> job[w].pay, status |-> status, review |-> review,
                   by |-> Fresh]
        /\ job' = [job EXCEPT ![w] = J]
    BY DEF InsertRow, version, status, review
  <1>6. cur' \in Row /\ cur'.by = Fresh /\ cur'.status = status
    BY <1>1, <1>2, <1>3, <1>4, <1>5 DEF Row
  <1>7. None # status
    BY <1>2, AbsentAssumption
  <1>8. /\ Entries(None, status) \in Seq(Entry)
        /\ Len(Entries(None, status)) = 1
        /\ Entries(None, status)[1].to = status
    BY <1>2, <1>7, EntriesType
  <1>9. J \in Job /\ J.pc = "done" /\ J.old = {} /\ J.own = {Fresh}
                  /\ J.entries = Entries(None, status)
    BY <1>1, <1>4, <1>8 DEF Job
  <1> HIDE DEF J
  <1>10. IsFiniteSet(J.old) /\ IsFiniteSet(J.own)
    <2>1. IsFiniteSet({}) /\ IsFiniteSet({Fresh})
      BY FS_EmptySet, FS_Singleton
    <2> QED
      BY <1>9, <2>1
  <1>11. \E i \in 1..Len(J.entries) : J.entries[i].to = cur'.status
    <2>1. Len(J.entries) = 1
      BY <1>8, <1>9
    <2>2. J.entries[1].to = status
      BY <1>8, <1>9
    <2> QED
      BY <1>6, <2>1, <2>2
  <1> QED
    BY <1>1, <1>5, <1>6, <1>9, <1>10, <1>11, WriteStep DEF InsertRow

LEMMA UpdateRowStep ==
    ASSUME IndInv, NEW w \in Worker, UpdateRow(w)
    PROVE  IndInv'
  <1> DEFINE version == story[job[w].pay]
             seen == job[w].seen
             status == Decide(seen.status, version.target)
             review == NextReview(seen.review, version.large)
             stored == Set(seen.status, status, cur.status)
             J == [job[w] EXCEPT !.pc = "done", !.own = NewLines(w),
                                 !.entries = Entries(seen.status, status)]
  <1>1. /\ job[w] \in Job /\ job[w].pc = "write"
        /\ job[w].pay \in Nat
        /\ version.target \in Status \cup {None} /\ version.large \in BOOLEAN
        /\ seen \in Copy /\ row # None
    BY StoryType DEF IndInv, TypeOK, LoadedInv, PulledInv, UpdateRow, Job
  <1>2. seen.status \in Status /\ seen.review \in Review
    BY <1>1 DEF Copy
  <1>3. cur = row /\ row \in Row
    BY <1>1, Unfinished DEF UpdateRow, IndInv, TypeOK
  <1>4. cur.status \in Status /\ cur.review \in Review
    BY <1>3 DEF Row
  <1>5. status \in Status
    BY <1>1, <1>2, DecideType
  <1>6. review \in Review
    BY <1>1, <1>2, NextReviewType
  <1>7. Fresh \in Nat
    BY FreshType DEF IndInv
  <1> HIDE DEF version, status, review, seen
  <1>8. /\ cur' = [stamp |-> job[w].pay, status |-> stored,
                   review |-> Set(seen.review, review, cur.review),
                   by |-> Fresh]
        /\ job' = [job EXCEPT ![w] = J]
    BY DEF UpdateRow, version, status, review, seen
  <1>9. /\ cur' \in Row /\ cur'.by = Fresh /\ cur'.status = stored
    BY <1>1, <1>4, <1>5, <1>6, <1>7, <1>8 DEF Row, Set
  <1>10. /\ Entries(seen.status, status) \in Seq(Entry)
         /\ seen.status # status => /\ Len(Entries(seen.status, status)) = 1
                                    /\ Entries(seen.status, status)[1].to = status
    BY <1>2, <1>5, EntriesType
  <1>11. J \in Job /\ J.pc = "done" /\ J.old = job[w].old /\ J.own = {Fresh}
                   /\ J.entries = Entries(seen.status, status)
    BY <1>1, <1>7, <1>10 DEF Job, NewLines
  <1>12. IsFiniteSet(J.old) /\ IsFiniteSet(J.own)
    BY <1>11, FS_Singleton DEF IndInv, FiniteInv
  <1>13. \/ cur'.status = StatusOf(row)
         \/ \E i \in 1..Len(J.entries) : J.entries[i].to = cur'.status
    <2>1. CASE status = seen.status
      BY <1>1, <1>3, <1>9, <2>1 DEF Set, StatusOf
    <2>2. CASE status # seen.status
      BY <1>9, <1>10, <1>11, <2>2 DEF Set
    <2> QED
      BY <2>1, <2>2
  <1> HIDE DEF J
  <1> QED
    BY <1>1, <1>8, <1>9, <1>11, <1>12, <1>13, WriteStep DEF UpdateRow

\* A transaction that has loaded the order goes on without touching its lines.
LEMMA HandStep ==
    ASSUME IndInv, NEW w \in Worker, row # None,
           job[w].pc \notin {"wait", "write", "done"},
           NEW pc \in {"push", "pushed", "mark", "decide"},
           NEW seen \in Copy \cup {None}, pc = "mark" => seen # None,
           job' = [job EXCEPT ![w].pc = pc, ![w].seen = seen],
           UNCHANGED <<platform, table, cur, lock>>
    PROVE  IndInv'
  <1> DEFINE J == [job[w] EXCEPT !.pc = pc, !.seen = seen]
  <1>1. job[w] \in Job /\ job[w].old = {}
    BY DEF IndInv, TypeOK, LoadedInv
  <1>2. J \in Job /\ J.pc = pc /\ J.old = {} /\ J.own = job[w].own /\ J.seen = seen
    BY <1>1 DEF Job
  <1>3. job' = [job EXCEPT ![w] = J]
    OBVIOUS
  <1>4. IsFiniteSet(J.old) /\ IsFiniteSet(J.own)
    BY <1>2, FS_EmptySet DEF IndInv, FiniteInv
  <1> HIDE DEF J
  <1> QED
    BY <1>1, <1>2, <1>3, <1>4, ReadStep

LEMMA LoadForShipStep ==
    ASSUME IndInv, NEW w \in Worker, LoadForShip(w)
    PROVE  IndInv'
  <1>1. job[w].seen \in Copy \cup {None}
    BY DEF IndInv, TypeOK, Job
  <1>2. job' = [job EXCEPT ![w].pc = "push", ![w].seen = job[w].seen]
    BY DEF LoadForShip, IndInv, TypeOK, Job
  <1> QED
    BY <1>1, <1>2, HandStep DEF LoadForShip

LEMMA PushStep ==
    ASSUME IndInv, NEW w \in Worker, Push(w)
    PROVE  IndInv'
  <1>1. job[w] \in Job /\ job[w].pc = "push" /\ row # None
    BY DEF IndInv, TypeOK, LoadedInv, Push
  <1>2. CASE story[now].target = "PAID"
    <2>1. job' = [job EXCEPT ![w].pc = "pushed", ![w].seen = job[w].seen]
      BY <1>1, <1>2 DEF Push, IndInv, TypeOK, Job
    <2>2. job[w].seen \in Copy \cup {None}
      BY <1>1 DEF Job
    <2> QED
      BY <1>1, <2>1, <2>2, HandStep DEF Push
  <1>3. CASE story[now].target # "PAID"
    <2>1. job' = [job EXCEPT ![w] = Idle]
      BY <1>3 DEF Push
    <2> QED
      BY <1>1, <2>1, RestStep DEF Push
  <1> QED
    BY <1>2, <1>3

LEMMA LoadAgainStep ==
    ASSUME IndInv, NEW w \in Worker, LoadAgain(w)
    PROVE  IndInv'
  <1>1. row \in Row /\ row # None
    BY DEF IndInv, TypeOK, LoadedInv, LoadAgain
  <1>2. CopyOf(row) \in Copy /\ CopyOf(row) # None
    BY <1>1, CopyType
  <1> QED
    BY <1>1, <1>2, HandStep DEF LoadAgain

LEMMA LoadForReviewStep ==
    ASSUME IndInv, NEW w \in Worker, LoadForReview(w)
    PROVE  IndInv'
  <1>1. job[w].seen \in Copy \cup {None}
    BY DEF IndInv, TypeOK, Job
  <1>2. job' = [job EXCEPT ![w].pc = "decide", ![w].seen = job[w].seen]
    BY DEF LoadForReview, IndInv, TypeOK, Job
  <1> QED
    BY <1>1, <1>2, HandStep DEF LoadForReview

LEMMA MarkShippedStep ==
    ASSUME IndInv, NEW w \in Worker, MarkShipped(w)
    PROVE  IndInv'
  <1> DEFINE seen == job[w].seen
             stored == Set(seen.status, "SHIPPED", cur.status)
             entry == [from |-> seen.status, to |-> "SHIPPED"]
             J == [job[w] EXCEPT !.pc = "done", !.entries = <<entry>>]
  <1>1. /\ job[w] \in Job /\ job[w].pc = "mark" /\ job[w].old = {}
        /\ seen \in Copy /\ row # None
    BY DEF IndInv, TypeOK, LoadedInv, MarkShipped, Job
  <1>2. cur = row /\ row \in Row
    BY <1>1, Unfinished DEF MarkShipped, IndInv, TypeOK
  <1>3. <<entry>> \in Seq(Entry) /\ "SHIPPED" \in Status
    <2>1. entry \in Entry /\ "SHIPPED" \in Status
      BY <1>1, StatusMembers DEF Entry, Copy
    <2> QED
      BY <2>1
  <1>4. stored \in Status
    BY <1>2, <1>3 DEF Set, Row
  <1>5. cur' = [cur EXCEPT !.status = stored] /\ job' = [job EXCEPT ![w] = J]
    BY DEF MarkShipped
  <1> HIDE DEF stored
  <1>6. cur' \in Row /\ cur'.by = row.by /\ cur'.status = stored
    BY <1>2, <1>4, <1>5 DEF Row
  <1>7. J \in Job /\ J.pc = "done" /\ J.old = {} /\ J.own = job[w].own
                  /\ J.entries = <<entry>>
    <2> DEFINE entries == <<entry>>
    <2> HIDE DEF entries
    <2>1. entries \in Seq(Entry) /\ J = [job[w] EXCEPT !.pc = "done", !.entries = entries]
      BY <1>3 DEF entries
    <2> HIDE DEF J
    <2> QED
      BY <1>1, <2>1 DEF Job, entries
  <1> HIDE DEF J
  <1>8. IsFiniteSet(J.old) /\ IsFiniteSet(J.own)
    BY <1>7, FS_EmptySet DEF IndInv, FiniteInv
  <1>9. \/ cur'.status = StatusOf(row)
        \/ \E i \in 1..Len(J.entries) : J.entries[i].to = cur'.status
    <2>1. CASE stored = cur.status
      BY <1>1, <1>2, <1>6, <2>1 DEF StatusOf
    <2>2. CASE stored # cur.status
      <3>1. stored = "SHIPPED"
        BY <2>2 DEF stored, Set
      <3>2. 1 \in 1..Len(<<entry>>) /\ <<entry>>[1].to = "SHIPPED"
        OBVIOUS
      <3> QED
        BY <1>6, <1>7, <3>1, <3>2
    <2> QED
      BY <2>1, <2>2
  <1> QED
    BY <1>1, <1>5, <1>6, <1>7, <1>8, <1>9, WriteStep DEF MarkShipped

LEMMA DecideReviewStep ==
    ASSUME IndInv, NEW w \in Worker, DecideReview(w)
    PROVE  IndInv'
  <1> DEFINE J == [job[w] EXCEPT !.pc = "done"]
  <1>1. /\ job[w] \in Job /\ job[w].pc = "decide" /\ job[w].old = {} /\ row # None
    BY DEF IndInv, TypeOK, LoadedInv, DecideReview
  <1>2. cur = row /\ row \in Row
    BY <1>1, Unfinished DEF DecideReview, IndInv, TypeOK
  <1>3. PICK verdict \in Reviewed : cur' = [cur EXCEPT !.review = verdict]
    BY DEF DecideReview
  <1>4. cur' \in Row /\ cur'.by = row.by /\ cur'.status = row.status
    BY <1>2, <1>3 DEF Row, Reviewed, Review
  <1>5. J \in Job /\ J.pc = "done" /\ J.old = {} /\ J.own = job[w].own
    BY <1>1 DEF Job
  <1>6. job' = [job EXCEPT ![w] = J]
    BY DEF DecideReview
  <1> HIDE DEF J
  <1>7. IsFiniteSet(J.old) /\ IsFiniteSet(J.own)
    BY <1>5, FS_EmptySet DEF IndInv, FiniteInv
  <1>8. cur'.status = StatusOf(row)
    BY <1>1, <1>4 DEF StatusOf
  <1> QED
    BY <1>1, <1>4, <1>5, <1>6, <1>7, <1>8, WriteStep DEF DecideReview

-----------------------------------------------------------------------------
(* The ends of a transaction, and the platform.                             *)

LEMMA IdleFacts ==
    /\ Idle \in Job /\ Idle.pc = "idle"
    /\ Idle.old = {} /\ Idle.own = {} /\ IsFiniteSet({})
  BY IdleType, FS_EmptySet DEF Idle

LEMMA CommitFacts ==
    ASSUME IndInv, NEW w \in Worker, Commit(w)
    PROVE  /\ lock = w /\ job[w].pc = "done"
           /\ row' = cur /\ cur # None
           /\ Linked(w) /\ Logged(w)
  BY DEF IndInv, LockInv, DoneInv, Commit

LEMMA CommitStep ==
    ASSUME IndInv, NEW w \in Worker, Commit(w)
    PROVE  IndInv'
  <1>1. /\ lock = w /\ job[w].pc = "done"
        /\ row' = cur /\ cur # None
        /\ Linked(w)
    BY CommitFacts
  <1>2. /\ items' = (items \ job[w].old) \cup job[w].own
        /\ log' = job[w].entries
        /\ lock' = Nobody
        /\ job' = [job EXCEPT ![w] = Idle]
        /\ UNCHANGED <<story, now, cur>>
    BY <1>1 DEF Commit, platform
  <1>3. /\ job' \in [Worker -> Job]
        /\ job'[w] = Idle
        /\ \A u \in Worker \ {w} : job'[u] = job[u]
    BY <1>2, OneJob, IdleFacts DEF IndInv, TypeOK
  <1>4. \A u \in Worker : job'[u].pc # "done"
    BY <1>1, <1>3, IdleFacts DEF IndInv, LockInv
  <1>5. TypeOK'
    <2>1. job[w] \in Job
      BY DEF IndInv, TypeOK
    <2>2. job[w].old \subseteq Nat /\ job[w].own \subseteq Nat
          /\ job[w].entries \in Seq(Entry)
      BY <2>1 DEF Job
    <2> QED
      BY <1>1, <1>2, <1>3, <2>2 DEF IndInv, TypeOK
  <1>6. FiniteInv'
    <2>1. IsFiniteSet(items')
      BY <1>2, FS_Difference, FS_Union DEF IndInv, FiniteInv
    <2> QED
      BY <1>3, <2>1, IdleFacts DEF IndInv, FiniteInv
  <1>7. PulledInv'
    BY <1>2, <1>3, IdleFacts DEF IndInv, PulledInv
  <1>8. LockInv'
    BY <1>1, <1>2, <1>4, WorkerAssumption DEF LockInv
  <1>9. LoadedInv'
    BY <1>1, <1>3, IdleFacts DEF IndInv, LoadedInv
  <1>10. DoneInv'
    BY <1>4 DEF DoneInv
  <1>11. HeaderHasItsLines'
    BY <1>1, <1>2 DEF IndInv, HeaderHasItsLines, Linked
  <1> QED
    BY <1>5, <1>6, <1>7, <1>8, <1>9, <1>10, <1>11 DEF IndInv

LEMMA AbortStep ==
    ASSUME IndInv, NEW w \in Worker, Abort(w)
    PROVE  IndInv'
  <1>1. /\ job' = [job EXCEPT ![w] = Idle]
        /\ UNCHANGED <<story, now, row, items, log>>
    BY DEF Abort, platform, table
  <1>2. CASE lock # w
    <2>1. job[w].pc # "done" /\ UNCHANGED <<cur, lock>>
      BY <1>2 DEF IndInv, LockInv, Abort
    <2> QED
      BY <1>1, <2>1, IdleFacts, ReadStep DEF Abort
  <1>3. CASE lock = w
    <2>1. cur' = row /\ lock' = Nobody
      BY <1>3 DEF Abort
    <2>2. /\ job' \in [Worker -> Job]
          /\ job'[w] = Idle
          /\ \A u \in Worker \ {w} : job'[u] = job[u]
      BY <1>1, OneJob, IdleFacts DEF IndInv, TypeOK
    <2>3. \A u \in Worker : job'[u].pc # "done"
      BY <1>3, <2>2, IdleFacts DEF IndInv, LockInv
    <2>4. TypeOK'
      BY <1>1, <2>1, <2>2 DEF IndInv, TypeOK
    <2>5. FiniteInv'
      BY <1>1, <2>2, IdleFacts DEF IndInv, FiniteInv
    <2>6. PulledInv'
      BY <1>1, <2>2, IdleFacts DEF IndInv, PulledInv
    <2>7. LockInv'
      BY <1>1, <2>1, <2>3, WorkerAssumption DEF LockInv
    <2>8. LoadedInv'
      BY <1>1, <2>2, IdleFacts DEF IndInv, LoadedInv
    <2>9. DoneInv'
      BY <2>3 DEF DoneInv
    <2>10. HeaderHasItsLines'
      BY <1>1 DEF IndInv, HeaderHasItsLines
    <2> QED
      BY <2>4, <2>5, <2>6, <2>7, <2>8, <2>9, <2>10 DEF IndInv
  <1> QED
    BY <1>2, <1>3

\* A step that leaves the tables and the transactions alone.
LEMMA PlatformStep ==
    ASSUME IndInv, Advance \/ UNCHANGED vars
    PROVE  IndInv'
  <1>1. UNCHANGED <<story, row, items, log, cur, lock, job>>
    BY DEF Advance, vars, platform, table
  <1>2. story \in Seq(Version) /\ now \in 1..Len(story) /\ Len(story) \in Nat
    BY StoriesAssumption DEF IndInv, TypeOK
  <1>3. now' \in 1..Len(story) /\ now <= now'
    BY <1>2 DEF Advance, vars, platform
  <1>4. TypeOK'
    BY <1>1, <1>3 DEF IndInv, TypeOK
  <1>5. PulledInv'
    <2> SUFFICES ASSUME NEW w \in Worker,
                        job[w].pc \in {"fetched", "insert", "delete", "wait", "write"}
                 PROVE  job[w].pay \in 1..now'
      BY <1>1 DEF PulledInv
    <2>1. job[w].pay \in 1..now
      BY DEF IndInv, PulledInv
    <2> QED
      BY <1>2, <1>3, <2>1
  <1>6. FiniteInv' /\ LockInv' /\ LoadedInv' /\ HeaderHasItsLines'
    BY <1>1 DEF IndInv, FiniteInv, LockInv, LoadedInv, HeaderHasItsLines
  <1>7. DoneInv'
    BY <1>1 DEF IndInv, DoneInv, Linked, Logged, StatusOf
  <1> QED
    BY <1>4, <1>5, <1>6, <1>7 DEF IndInv

-----------------------------------------------------------------------------
LEMMA IndInvInit == Init => IndInv
  <1> SUFFICES ASSUME Init PROVE IndInv
    OBVIOUS
  <1>1. story \in Seq(Version) /\ story # <<>>
    BY StoriesAssumption DEF Init
  <1>2. now \in 1..Len(story)
    BY <1>1 DEF Init
  <1>3. \A w \in Worker : job[w] = Idle
    BY DEF Init
  <1>4. job \in [Worker -> Job]
    BY IdleFacts DEF Init
  <1>5. TypeOK
    BY <1>2, <1>4 DEF Init, TypeOK
  <1>6. FiniteInv /\ PulledInv /\ LoadedInv /\ DoneInv
    BY <1>3, IdleFacts DEF Init, FiniteInv, PulledInv, LoadedInv, DoneInv
  <1>7. LockInv
    BY <1>3, IdleFacts, WorkerAssumption DEF Init, LockInv
  <1>8. HeaderHasItsLines
    BY DEF Init, HeaderHasItsLines
  <1> QED
    BY <1>5, <1>6, <1>7, <1>8 DEF IndInv

LEMMA IndInvNext == IndInv /\ [Next]_vars => IndInv'
  <1> SUFFICES ASSUME IndInv, [Next]_vars PROVE IndInv'
    OBVIOUS
  <1>1. CASE Advance \/ UNCHANGED vars
    BY <1>1, PlatformStep
  <1>2. ASSUME NEW w \in Worker,
               \/ Fetch(w) \/ ReadRow(w) \/ InsertRow(w) \/ InsertRaced(w)
               \/ BeginDelete(w) \/ EndDelete(w) \/ UpdateRow(w)
        PROVE  IndInv'
    BY <1>2, FetchStep, ReadRowStep, InsertRowStep, InsertRacedStep, BeginDeleteStep,
       EndDeleteStep, UpdateRowStep
  <1>3. ASSUME NEW w \in Worker,
               \/ LoadForShip(w) \/ Push(w) \/ LoadAgain(w) \/ MarkShipped(w)
               \/ LoadForReview(w) \/ DecideReview(w)
        PROVE  IndInv'
    BY <1>3, LoadForShipStep, PushStep, LoadAgainStep, MarkShippedStep,
       LoadForReviewStep, DecideReviewStep
  <1>4. ASSUME NEW w \in Worker, Commit(w) \/ Abort(w)
        PROVE  IndInv'
    BY <1>4, CommitStep, AbortStep
  <1> QED
    BY <1>1, <1>2, <1>3, <1>4 DEF Next

LEMMA IndInvHolds == Spec => []IndInv
  BY IndInvInit, IndInvNext, PTL DEF Spec

(***************************************************************************)
(* TypeOK: every writer of an order leaves a status, a review and a stamp  *)
(* of the right kind (upsert, commit_success, decide_review), and a line   *)
(* always finds a primary key.                                             *)
(***************************************************************************)
THEOREM OrderTypes == Spec => []TypeOK
  <1>1. IndInv => TypeOK
    BY DEF IndInv
  <1> QED
    BY <1>1, IndInvHolds, PTL

(***************************************************************************)
(* HeaderHasItsLines: any number of workers that ingest, ship and review   *)
(* an order, and crash anywhere, never leave its header without the lines  *)
(* of its payload (upsert, _replace_items).                                *)
(***************************************************************************)
THEOREM LinesFollowHeader == Spec => []HeaderHasItsLines
  <1>1. IndInv => HeaderHasItsLines
    BY DEF IndInv
  <1> QED
    BY <1>1, IndInvHolds, PTL

(***************************************************************************)
(* StatusChangesLogged: a commit that changes an order's status adds the   *)
(* entry for the status it then has (ingest_order, commit_success), for    *)
(* any stale copy the change was decided on.                               *)
(***************************************************************************)
THEOREM EveryChangeLogged == Spec => StatusChangesLogged
  <1>1. IndInv /\ [Next]_vars
          => [StatusOf(row') # StatusOf(row)
                => \E i \in 1..Len(log') : log'[i].to = StatusOf(row')]_vars
    <2> SUFFICES ASSUME IndInv, [Next]_vars, row' # row
                 PROVE  StatusOf(row') # StatusOf(row)
                          => \E i \in 1..Len(log') : log'[i].to = StatusOf(row')
      BY Zenon DEF StatusOf
    <2>1. PICK w \in Worker : Commit(w)
      BY DEF Next, vars, Advance, Fetch, ReadRow, InsertRow, InsertRaced, BeginDelete,
             EndDelete, UpdateRow, LoadForShip, Push, LoadAgain, MarkShipped,
             LoadForReview, DecideReview, Abort, table
    <2>2. row' = cur /\ Logged(w) /\ log' = job[w].entries
      BY <2>1, CommitFacts DEF Commit
    <2> QED
      BY <2>2 DEF Logged
  <1> QED
    BY <1>1, IndInvHolds, PTL DEF Spec, StatusChangesLogged

-----------------------------------------------------------------------------
(***************************************************************************)
(* Transactions that follow one another.  Whoever is at work is alone: its *)
(* copy of the header is the header, the lines it deletes are the lines,   *)
(* and what it is about to commit keeps the promises that two transactions *)
(* at a time can break.                                                    *)
(***************************************************************************)
Busy(w) == job[w].pc # "idle"

OneAtATime == \A u, w \in Worker : Busy(u) /\ Busy(w) => u = w

LinesOf(header) == IF header = None THEN {} ELSE {header.by}

\* A transaction t on the way to its write.
Reading(t, header) ==
    /\ t.own = {}
    /\ t.pc = "insert" => header = None
    /\ t.pc \in {"delete", "wait", "write", "mark"} => t.seen = CopyOf(header)
    /\ t.pc \in {"delete", "wait", "write"} => t.pay > header.stamp
    /\ t.pc \in {"wait", "write"} => t.old = LinesOf(header)
    /\ t.pc \in {"push", "pushed", "mark"} => header.status = "PAID"

\* A header that may follow another one.
Follows(new, header) ==
    /\ StampOf(new) >= StampOf(header)
    /\ StatusOf(header) = "CANCELLED" => StatusOf(new) = "CANCELLED"
    /\ header # None /\ header.review \in Reviewed => new.review \in Reviewed

\* A transaction t that is about to commit the header "new".
Finishing(t, header, new) ==
    /\ (LinesOf(header) \ t.old) \cup t.own = {new.by}
    /\ Follows(new, header)

AloneInv ==
    alone => /\ OneAtATime
             /\ items = LinesOf(row)
             /\ \A w \in Worker : IF job[w].pc = "done"
                                  THEN Finishing(job[w], row, cur)
                                  ELSE Reading(job[w], row)

LEMMA SoloStep ==
    ASSUME IndInv, AloneInv, alone, alone' = alone, OneAtATime',
           NEW w \in Worker, NEW J \in Job,
           job' = [job EXCEPT ![w] = J],
           UNCHANGED <<row, items>>,
           \/ cur' = cur
           \/ \A u \in Worker \ {w} : job[u].pc # "done",
           IF J.pc = "done" THEN Finishing(J, row, cur') ELSE Reading(J, row)
    PROVE  AloneInv'
  <1>1. /\ job'[w] = J
        /\ \A u \in Worker \ {w} : job'[u] = job[u]
    BY OneJob DEF IndInv, TypeOK
  <1>2. (items = LinesOf(row))'
    BY DEF AloneInv
  <1>3. ASSUME NEW u \in Worker
        PROVE  IF job'[u].pc = "done" THEN Finishing(job'[u], row, cur')
                                      ELSE Reading(job'[u], row)
    <2>1. CASE u = w
      BY <1>1, <2>1
    <2>2. CASE u # w
      BY <1>1, <2>2 DEF AloneInv
    <2> QED
      BY <2>1, <2>2
  <1> QED
    BY <1>2, <1>3 DEF AloneInv

\* A worker that is at work and has not written yet.
LEMMA SoloReader ==
    ASSUME IndInv, AloneInv, alone, NEW w \in Worker, job[w].pc # "done"
    PROVE  job[w] \in Job /\ Reading(job[w], row)
  BY DEF IndInv, TypeOK, AloneInv

LEMMA IdleReads ==
    ASSUME NEW header
    PROVE  Idle \in Job /\ Idle.pc = "idle" /\ Reading(Idle, header)
  BY IdleType DEF Idle, Reading

LEMMA SoloFetch ==
    ASSUME IndInv, AloneInv, alone, alone' = alone, OneAtATime',
           NEW w \in Worker, Fetch(w)
    PROVE  AloneInv'
  <1>1. PICK version \in 1..now :
            job' = [job EXCEPT ![w].pc = "fetched", ![w].pay = version]
    BY DEF Fetch
  <1> DEFINE J == [job[w] EXCEPT !.pc = "fetched", !.pay = version]
  <1>2. job[w] \in Job /\ Reading(job[w], row)
    BY SoloReader DEF Fetch
  <1>3. version \in Nat
    BY StoryType DEF IndInv
  <1>4. J \in Job /\ J.pc = "fetched" /\ J.own = job[w].own
    BY <1>2, <1>3 DEF Job
  <1>5. job' = [job EXCEPT ![w] = J]
    BY <1>1
  <1>6. UNCHANGED <<row, items, cur>>
    BY DEF Fetch, table
  <1> HIDE DEF J
  <1>7. Reading(J, row)
    BY <1>2, <1>4 DEF Reading
  <1> QED
    BY <1>4, <1>5, <1>6, <1>7, SoloStep

LEMMA SoloChosen ==
    ASSUME IndInv, AloneInv, alone, alone' = alone, OneAtATime',
           NEW w \in Worker, job[w].pc \in {"fetched", "insert"},
           job' = [job EXCEPT ![w] = Chosen(w, row)],
           UNCHANGED <<row, items, cur>>
    PROVE  AloneInv'
  <1>1. job[w] \in Job /\ Reading(job[w], row)
    BY SoloReader
  <1>2. row \in Row \cup {None}
    BY DEF IndInv, TypeOK
  <1>3. CASE row = None
    <2> DEFINE J == [job[w] EXCEPT !.pc = "insert"]
    <2>1. Chosen(w, row) = J
      BY <1>3 DEF Chosen
    <2>2. J \in Job /\ J.pc = "insert" /\ J.own = job[w].own
      BY <1>1 DEF Job
    <2> HIDE DEF J
    <2>3. Reading(J, row)
      BY <1>1, <1>3, <2>2 DEF Reading
    <2> QED
      BY <2>1, <2>2, <2>3, SoloStep
  <1>4. CASE row # None /\ Newer(job[w].pay, row)
    <2> DEFINE J == [job[w] EXCEPT !.pc = "delete", !.seen = CopyOf(row)]
    <2>1. Chosen(w, row) = J
      BY <1>4 DEF Chosen
    <2>2. CopyOf(row) \in Copy
      BY <1>2, <1>4, CopyType
    <2>3. J \in Job /\ J.pc = "delete" /\ J.pay = job[w].pay
                    /\ J.own = job[w].own /\ J.seen = CopyOf(row)
      BY <1>1, <2>2 DEF Job
    <2> HIDE DEF J
    <2>4. Reading(J, row)
      BY <1>1, <1>4, <2>3 DEF Reading, Newer
    <2> QED
      BY <2>1, <2>3, <2>4, SoloStep
  <1>5. CASE row # None /\ ~Newer(job[w].pay, row)
    <2>1. Chosen(w, row) = Idle
      BY <1>5 DEF Chosen
    <2>2. Idle \in Job /\ Idle.pc = "idle" /\ Reading(Idle, row)
      BY IdleReads
    <2> QED
      BY <2>1, <2>2, SoloStep
  <1> QED
    BY <1>3, <1>4, <1>5

LEMMA SoloReadRow ==
    ASSUME IndInv, AloneInv, alone, alone' = alone, OneAtATime',
           NEW w \in Worker, ReadRow(w) \/ InsertRaced(w)
    PROVE  AloneInv'
  <1>1. job[w].pc \in {"fetched", "insert"} /\ UNCHANGED <<row, items, cur>>
    BY DEF ReadRow, InsertRaced, table
  <1>2. job' = [job EXCEPT ![w] = Chosen(w, row)]
    BY Unfinished DEF ReadRow, InsertRaced
  <1> QED
    BY <1>1, <1>2, SoloChosen

LEMMA SoloDelete ==
    ASSUME IndInv, AloneInv, alone, alone' = alone, OneAtATime',
           NEW w \in Worker, BeginDelete(w) \/ EndDelete(w)
    PROVE  AloneInv'
  <1>1. job[w] \in Job /\ Reading(job[w], row)
    BY SoloReader DEF BeginDelete, EndDelete
  <1>2. UNCHANGED <<row, items, cur>>
    BY DEF BeginDelete, EndDelete, table
  <1>3. items = LinesOf(row) /\ items \subseteq Nat
    BY DEF AloneInv, IndInv, TypeOK
  <1>4. PICK pc \in {"wait", "write"} : job' = [job EXCEPT ![w].pc = pc, ![w].old = items]
    <2>1. CASE BeginDelete(w)
      BY <2>1 DEF BeginDelete
    <2>2. CASE EndDelete(w)
      <3>1. job[w].pc = "wait" /\ job[w].old \cap items = items
        BY <1>1, <1>3, <2>2 DEF Reading, EndDelete
      <3>2. job' = [job EXCEPT ![w].pc = "write", ![w].old = job[w].old \cap items]
        BY <2>2 DEF EndDelete, IndInv, TypeOK, Job
      <3> QED
        BY <3>1, <3>2
    <2> QED
      BY <2>1, <2>2
  <1> DEFINE J == [job[w] EXCEPT !.pc = pc, !.old = items]
  <1>5. J \in Job /\ J.pc = pc /\ J.old = items /\ J.own = job[w].own
                  /\ J.seen = job[w].seen /\ J.pay = job[w].pay
    BY <1>1, <1>3 DEF Job
  <1>6. job' = [job EXCEPT ![w] = J]
    BY <1>4
  <1> HIDE DEF J
  <1>7. Reading(J, row)
    BY <1>1, <1>3, <1>5 DEF Reading, BeginDelete, EndDelete
  <1> QED
    BY <1>2, <1>5, <1>6, <1>7, SoloStep

LEMMA SoloInsertRow ==
    ASSUME IndInv, AloneInv, alone, alone' = alone, OneAtATime',
           NEW w \in Worker, InsertRow(w)
    PROVE  AloneInv'
  <1> DEFINE status == Decide(None, story[job[w].pay].target)
             J == [job[w] EXCEPT !.pc = "done", !.own = {Fresh},
                                 !.entries = Entries(None, status)]
  <1>1. /\ job[w] \in Job /\ Reading(job[w], row) /\ row = None
        /\ job[w].pay \in Nat
    BY SoloReader DEF InsertRow, Reading, Job
  <1>2. story[job[w].pay].target \in Status \cup {None}
    BY StoryType DEF IndInv, PulledInv, InsertRow
  <1>3. status \in Status
    BY <1>2, DecideType
  <1>4. Fresh \in Nat /\ Entries(None, status) \in Seq(Entry)
    BY <1>3, FreshType, EntriesType DEF IndInv
  <1> HIDE DEF status
  <1>5. J \in Job /\ J.pc = "done" /\ J.own = {Fresh}
    BY <1>1, <1>4 DEF Job
  <1>6. /\ job' = [job EXCEPT ![w] = J]
        /\ UNCHANGED <<row, items>>
        /\ cur'.by = Fresh /\ cur'.stamp = job[w].pay
        /\ cur' \in [stamp : {job[w].pay}, status : {status},
                     review : {NextReview("AUTO_PASSED", story[job[w].pay].large)},
                     by : {Fresh}]
    BY DEF InsertRow, table, status
  <1> HIDE DEF J
  <1>7. Finishing(J, row, cur')
    <2>1. StatusOf(None) # "CANCELLED" /\ StampOf(None) = 0 /\ LinesOf(None) = {}
      BY AbsentAssumption, Zenon DEF StatusOf, StampOf, LinesOf, Status
    <2>2. StampOf(cur') \in Nat
      BY <1>1, <1>6 DEF StampOf
    <2> QED
      BY <1>1, <1>5, <1>6, <2>1, <2>2 DEF Finishing, Follows
  <1>8. \A u \in Worker : job[u].pc # "done"
    BY Unfinished DEF InsertRow
  <1> QED
    BY <1>5, <1>6, <1>7, <1>8, SoloStep

\* A cancelled order stays so, and what a person decided stays.
LEMMA FinalAnswers ==
    /\ \A target \in Status \cup {None} : Decide("CANCELLED", target) = "CANCELLED"
    /\ \A review \in Reviewed, large \in BOOLEAN : NextReview(review, large) = review
  <1>1. /\ MainStatus = {"PENDING", "PAID", "SHIPPED", "DELIVERED", "COMPLETED"}
        /\ None # "CANCELLED"
    BY AbsentAssumption DEF MainStatus, Main, Status
  <1>2. \A target : ~Allowed("CANCELLED", target)
    BY <1>1 DEF Allowed, CancelFrom, RefundFrom, ReturnFrom
  <1> QED
    BY <1>1, <1>2 DEF Decide, NextReview

LEMMA SoloUpdateRow ==
    ASSUME IndInv, AloneInv, alone, alone' = alone, OneAtATime',
           NEW w \in Worker, UpdateRow(w)
    PROVE  AloneInv'
  <1> DEFINE version == story[job[w].pay]
             status == Decide(row.status, version.target)
             review == NextReview(row.review, version.large)
             J == [job[w] EXCEPT !.pc = "done", !.own = {Fresh},
                                 !.entries = Entries(row.status, status)]
  <1>1. /\ job[w] \in Job /\ Reading(job[w], row)
        /\ job[w].pay \in Nat /\ cur = row
        /\ \A u \in Worker : job[u].pc # "done"
    BY SoloReader, Unfinished DEF UpdateRow, Job
  <1>2. row \in Row /\ row # None /\ row.stamp \in Nat
    BY DEF IndInv, LoadedInv, TypeOK, UpdateRow, Row
  <1>3. /\ job[w].seen.status = row.status /\ job[w].seen.review = row.review
        /\ job[w].pay > row.stamp /\ job[w].old = {row.by}
    BY <1>1, <1>2 DEF Reading, UpdateRow, CopyOf, LinesOf
  <1>4. /\ version.target \in Status \cup {None} /\ version.large \in BOOLEAN
        /\ row.status \in Status /\ row.review \in Review
    BY <1>2, StoryType DEF IndInv, PulledInv, UpdateRow, Row
  <1>5. status \in Status
    BY <1>4, DecideType
  <1>6. Fresh \in Nat /\ Entries(row.status, status) \in Seq(Entry)
    BY <1>4, <1>5, FreshType, EntriesType DEF IndInv
  <1>7. /\ row.status = "CANCELLED" => status = "CANCELLED"
        /\ row.review \in Reviewed => review = row.review
    BY <1>4, FinalAnswers
  <1>8. /\ cur' = [stamp |-> job[w].pay, status |-> status, review |-> review,
                   by |-> Fresh]
        /\ job' = [job EXCEPT ![w] = J]
        /\ UNCHANGED <<row, items>>
    BY <1>1, <1>3 DEF UpdateRow, Set, NewLines, table
  <1> HIDE DEF version, status, review
  <1>9. J \in Job /\ J.pc = "done" /\ J.own = {Fresh} /\ J.old = job[w].old
    BY <1>1, <1>6 DEF Job
  <1> HIDE DEF J
  <1>10. /\ cur'.stamp = job[w].pay /\ cur'.status = status /\ cur'.review = review
         /\ cur'.by = Fresh
    BY <1>8
  <1>11. cur' # None
    <2>1. cur' \in Row
      BY <1>1, <1>4, <1>5, <1>6, <1>8, NextReviewType DEF Row, review
    <2> QED
      BY <2>1, AbsentAssumption
  <1>12. Finishing(J, row, cur')
    BY <1>1, <1>2, <1>3, <1>7, <1>9, <1>10, <1>11
       DEF Finishing, Follows, LinesOf, StatusOf, StampOf
  <1> QED
    BY <1>1, <1>8, <1>9, <1>12, SoloStep

\* Loading by hand, and the push of a tracking number.
LEMMA SoloHand ==
    ASSUME IndInv, AloneInv, alone, alone' = alone, OneAtATime',
           NEW w \in Worker,
           LoadForShip(w) \/ Push(w) \/ LoadAgain(w) \/ LoadForReview(w)
    PROVE  AloneInv'
  <1>1. /\ job[w] \in Job /\ Reading(job[w], row)
        /\ UNCHANGED <<row, items, cur>>
    BY SoloReader DEF LoadForShip, Push, LoadAgain, LoadForReview, table
  <1>2. row \in Row /\ row # None /\ row.status \in Status
    BY DEF IndInv, LoadedInv, TypeOK, LoadForShip, Push, LoadAgain, LoadForReview, Row
  <1>3. CASE Push(w) /\ story[now].target # "PAID"
    <2>1. job' = [job EXCEPT ![w] = Idle]
      BY <1>3 DEF Push
    <2> QED
      BY <1>1, <2>1, IdleReads, SoloStep
  <1>4. CASE ~(Push(w) /\ story[now].target # "PAID")
    <2>1. "SHIPPED" \in Manual(row.status) => row.status = "PAID"
      <3>1. MainStatus = {"PENDING", "PAID", "SHIPPED", "DELIVERED", "COMPLETED"}
        BY DEF MainStatus, Main
      <3> QED
        BY <1>2, <3>1 DEF Manual, Status
    <2>2. PICK pc \in {"push", "pushed", "mark", "decide"},
               seen \in {job[w].seen, CopyOf(row)} :
             /\ job' = [job EXCEPT ![w].pc = pc, ![w].seen = seen]
             /\ pc = "mark" => seen = CopyOf(row)
             /\ pc \in {"push", "pushed", "mark"} => row.status = "PAID"
      <3>1. CASE LoadForShip(w)
        BY <2>1, <3>1 DEF LoadForShip, IndInv, TypeOK, Job
      <3>2. CASE Push(w)
        BY <1>1, <1>4, <3>2 DEF Push, Reading, IndInv, TypeOK, Job
      <3>3. CASE LoadAgain(w)
        BY <1>1, <3>3 DEF LoadAgain, Reading
      <3>4. CASE LoadForReview(w)
        BY <3>4 DEF LoadForReview, IndInv, TypeOK, Job
      <3> QED
        BY <3>1, <3>2, <3>3, <3>4
    <2> DEFINE J == [job[w] EXCEPT !.pc = pc, !.seen = seen]
    <2>3. CopyOf(row) \in Copy
      BY <1>2, CopyType
    <2>4. J \in Job /\ J.pc = pc /\ J.seen = seen /\ J.own = job[w].own
      BY <1>1, <2>3 DEF Job
    <2>5. job' = [job EXCEPT ![w] = J]
      BY <2>2
    <2> HIDE DEF J
    <2>6. Reading(J, row)
      BY <1>1, <2>2, <2>4 DEF Reading
    <2> QED
      BY <1>1, <2>4, <2>5, <2>6, SoloStep
  <1> QED
    BY <1>3, <1>4

LEMMA SoloMark ==
    ASSUME IndInv, AloneInv, alone, alone' = alone, OneAtATime',
           NEW w \in Worker, MarkShipped(w) \/ DecideReview(w)
    PROVE  AloneInv'
  <1>1. /\ job[w] \in Job /\ Reading(job[w], row)
        /\ cur = row
        /\ UNCHANGED <<row, items>>
        /\ \A u \in Worker : job[u].pc # "done"
    BY SoloReader, Unfinished DEF MarkShipped, DecideReview, table
  <1>2. row \in Row /\ row # None /\ job[w].old = {}
    BY DEF IndInv, LoadedInv, TypeOK, MarkShipped, DecideReview
  <1>3. PICK status \in Status, review \in Review, entries \in Seq(Entry) :
            /\ cur' = [row EXCEPT !.status = status, !.review = review]
            /\ job' = [job EXCEPT ![w].pc = "done", ![w].entries = entries]
            /\ row.status # "CANCELLED" \/ status = row.status
            /\ row.review \in Reviewed => review \in Reviewed
    <2>1. CASE MarkShipped(w)
      <3> DEFINE status == Set(job[w].seen.status, "SHIPPED", row.status)
                 entry == [from |-> job[w].seen.status, to |-> "SHIPPED"]
      <3>1. row.status = "PAID" /\ job[w].seen = CopyOf(row)
        BY <1>1, <2>1 DEF MarkShipped, Reading
      <3>2. /\ job[w].seen.status = "PAID" /\ status = "SHIPPED"
            /\ status \in Status /\ entry \in Entry /\ row.review \in Review
        BY <1>2, <3>1, StatusMembers DEF CopyOf, Set, Entry, Row
      <3>3. /\ cur' = [row EXCEPT !.status = status]
            /\ job' = [job EXCEPT ![w].pc = "done", ![w].entries = <<entry>>]
        BY <1>1, <2>1 DEF MarkShipped
      <3> HIDE DEF status, entry
      <3>4. cur' = [row EXCEPT !.status = status, !.review = row.review]
        BY <1>2, <3>3 DEF Row
      <3>5. <<entry>> \in Seq(Entry)
        BY <3>2
      <3> QED
        BY <3>1, <3>2, <3>3, <3>4, <3>5
    <2>2. CASE DecideReview(w)
      <3>1. PICK verdict \in Reviewed : cur' = [row EXCEPT !.review = verdict]
        BY <1>1, <2>2 DEF DecideReview
      <3>2. /\ job[w].entries \in Seq(Entry) /\ verdict \in Review
            /\ row.status \in Status
        BY <1>1, <1>2 DEF Job, Row, Review, Reviewed
      <3>3. cur' = [row EXCEPT !.status = row.status, !.review = verdict]
        BY <1>2, <3>1 DEF Row
      <3>4. job' = [job EXCEPT ![w].pc = "done", ![w].entries = job[w].entries]
        BY <2>2 DEF DecideReview, IndInv, TypeOK, Job
      <3> QED
        BY <3>2, <3>3, <3>4
    <2> QED
      BY <2>1, <2>2
  <1> DEFINE J == [job[w] EXCEPT !.pc = "done", !.entries = entries]
  <1>4. J \in Job /\ J.pc = "done" /\ J.own = {} /\ J.old = {}
    BY <1>1, <1>2, <1>3 DEF Job, Reading, MarkShipped, DecideReview
  <1>5. job' = [job EXCEPT ![w] = J]
    BY <1>3
  <1> HIDE DEF J
  <1>6. cur' \in Row /\ cur'.stamp = row.stamp /\ cur'.by = row.by
                     /\ cur'.status = status /\ cur'.review = review
    BY <1>2, <1>3 DEF Row
  <1>7. Finishing(J, row, cur')
    <2>1. cur' # None /\ row.stamp \in Nat
      BY <1>2, <1>6, AbsentAssumption DEF Row
    <2> QED
      BY <1>2, <1>3, <1>4, <1>6, <2>1 DEF Finishing, Follows, LinesOf, StatusOf, StampOf
  <1> QED
    BY <1>1, <1>4, <1>5, <1>7, SoloStep

LEMMA SoloCommit ==
    ASSUME IndInv, AloneInv, alone, alone' = alone, OneAtATime',
           NEW w \in Worker, Commit(w)
    PROVE  AloneInv' /\ Follows(row', row)
  <1>1. /\ lock = w /\ job[w].pc = "done"
        /\ row' = cur /\ cur # None
    BY CommitFacts
  <1>2. /\ items' = (items \ job[w].old) \cup job[w].own
        /\ job' = [job EXCEPT ![w] = Idle]
    BY DEF Commit
  <1>3. Finishing(job[w], row, cur) /\ items = LinesOf(row)
    BY <1>1 DEF AloneInv
  <1>4. items' = LinesOf(row')
    BY <1>1, <1>2, <1>3 DEF Finishing, LinesOf
  <1>5. ASSUME NEW u \in Worker
        PROVE  job'[u].pc = "idle" /\ Reading(job'[u], row')
    <2>1. CASE u = w
      <3>1. job'[u] = Idle
        BY <1>2, <2>1, OneJob, IdleFacts DEF IndInv, TypeOK
      <3> QED
        BY <3>1, IdleReads
    <2>2. CASE u # w
      <3>1. job[u].pc = "idle" /\ job'[u] = job[u]
        BY <1>1, <1>2, <2>2, OneJob, IdleFacts DEF AloneInv, OneAtATime, Busy, IndInv, TypeOK
      <3>2. Reading(job[u], row)
        BY <3>1 DEF AloneInv
      <3> QED
        BY <3>1, <3>2 DEF Reading
    <2> QED
      BY <2>1, <2>2
  <1> QED
    BY <1>1, <1>3, <1>4, <1>5 DEF AloneInv, Finishing

LEMMA SoloAbort ==
    ASSUME IndInv, AloneInv, alone, alone' = alone, OneAtATime',
           NEW w \in Worker, Abort(w)
    PROVE  AloneInv'
  <1>1. /\ job' = [job EXCEPT ![w] = Idle]
        /\ UNCHANGED <<row, items>>
    BY DEF Abort, table
  <1>2. cur' = cur \/ \A u \in Worker \ {w} : job[u].pc # "done"
    BY DEF Abort, IndInv, LockInv
  <1> QED
    BY <1>1, <1>2, IdleReads, SoloStep

-----------------------------------------------------------------------------
LEMMA AloneInit == MCInit => AloneInv
  <1> SUFFICES ASSUME MCInit PROVE AloneInv
    OBVIOUS
  <1>1. row = None /\ items = {} /\ \A w \in Worker : job[w] = Idle
    BY DEF MCInit, Init
  <1> QED
    BY <1>1, IdleReads DEF AloneInv, OneAtATime, Busy, LinesOf

LEMMA OneWorker ==
    ASSUME NEW S, IsFiniteSet(S), Cardinality(S) <= 1, NEW u \in S, NEW w \in S
    PROVE  u = w
  <1> SUFFICES ASSUME u # w PROVE FALSE
    OBVIOUS
  <1> DEFINE one == {u}
             two == one \cup {w}
  <1>1. two \subseteq S /\ w \notin one
    OBVIOUS
  <1>2. IsFiniteSet(one) /\ Cardinality(one) = 1
    BY FS_Singleton, Zenon
  <1> HIDE DEF one
  <1>3. Cardinality(two) = 2
    BY <1>1, <1>2, FS_AddElement
  <1> HIDE DEF two
  <1>4. Cardinality(two) <= Cardinality(S)
    BY <1>1, FS_Subset
  <1> QED
    BY <1>3, <1>4, FS_CardinalityType

LEMMA AloneNext ==
    ASSUME IndInv, AloneInv, [MCNext]_<<vars, alone>>
    PROVE  /\ AloneInv'
           /\ alone /\ row' # row => Follows(row', row)
  <1>1. CASE ~alone
    BY <1>1 DEF AloneInv, MCNext
  <1>2. CASE alone /\ ((Advance /\ alone' = alone) \/ UNCHANGED <<vars, alone>>)
    BY <1>2 DEF AloneInv, OneAtATime, Busy, Advance, vars, table
  <1>3. CASE alone /\ MCNext /\ ~Advance
    <2>1. alone' = alone
      BY <1>3 DEF MCNext
    <2>2. OneAtATime'
      <3> DEFINE busy == {w \in Worker : job'[w].pc # "idle"}
      <3>1. IsFiniteSet(busy) /\ Cardinality(busy) <= 1
        BY <1>3, WorkerAssumption, FS_Subset DEF MCNext
      <3> SUFFICES ASSUME NEW u \in Worker, NEW w \in Worker,
                          job'[u].pc # "idle", job'[w].pc # "idle"
                   PROVE  u = w
        BY DEF OneAtATime, Busy
      <3>2. u \in busy /\ w \in busy
        OBVIOUS
      <3> HIDE DEF busy
      <3> QED
        BY <3>1, <3>2, OneWorker
    <2>3. ASSUME NEW w \in Worker,
                 \/ Fetch(w) \/ ReadRow(w) \/ InsertRow(w) \/ InsertRaced(w)
                 \/ BeginDelete(w) \/ EndDelete(w) \/ UpdateRow(w)
          PROVE  AloneInv' /\ row' = row
      <3>1. row' = row
        BY <2>3 DEF Fetch, ReadRow, InsertRow, InsertRaced, BeginDelete, EndDelete,
                    UpdateRow, table
      <3> QED
        BY <1>3, <2>1, <2>2, <2>3, <3>1, SoloFetch, SoloReadRow, SoloInsertRow,
           SoloDelete, SoloUpdateRow
    <2>4. ASSUME NEW w \in Worker,
                 \/ LoadForShip(w) \/ Push(w) \/ LoadAgain(w) \/ MarkShipped(w)
                 \/ LoadForReview(w) \/ DecideReview(w) \/ Abort(w)
          PROVE  AloneInv' /\ row' = row
      <3>1. row' = row
        BY <2>4 DEF LoadForShip, Push, LoadAgain, MarkShipped, LoadForReview,
                    DecideReview, Abort, table
      <3> QED
        BY <1>3, <2>1, <2>2, <2>4, <3>1, SoloHand, SoloMark, SoloAbort
    <2>5. ASSUME NEW w \in Worker, Commit(w)
          PROVE  AloneInv' /\ Follows(row', row)
      BY <1>3, <2>1, <2>2, <2>5, SoloCommit
    <2> QED
      BY <1>3, <2>3, <2>4, <2>5 DEF MCNext, Next
  <1> QED
    BY <1>1, <1>2, <1>3 DEF MCNext

LEMMA AloneHolds == MCSpec => [](IndInv /\ AloneInv)
  <1>1. MCInit => IndInv /\ AloneInv
    BY IndInvInit, AloneInit DEF MCInit
  <1>2. IndInv /\ AloneInv /\ [MCNext]_<<vars, alone>> => (IndInv /\ AloneInv)'
    <2> SUFFICES ASSUME IndInv, AloneInv, [MCNext]_<<vars, alone>>
                 PROVE  IndInv' /\ AloneInv'
      OBVIOUS
    <2>1. [Next]_vars
      BY DEF MCNext
    <2> QED
      BY <2>1, IndInvNext, AloneNext
  <1> QED
    BY <1>1, <1>2, PTL DEF MCSpec

(***************************************************************************)
(* OneSetOfLines: pulls that follow one another, and crash anywhere, leave *)
(* an order the lines of one payload (_replace_items).                     *)
(***************************************************************************)
THEOREM OneSetAlone == MCSpec => []OneSetOfLines
  <1>1. AloneInv => OneSetOfLines
    <2> SUFFICES ASSUME AloneInv, alone PROVE Cardinality(items) <= 1
      BY DEF OneSetOfLines
    <2>1. items = {} \/ items = {row.by}
      BY DEF AloneInv, LinesOf
    <2>2. Cardinality({}) = 0 /\ Cardinality({row.by}) = 1
      BY FS_EmptySet, FS_Singleton, Zenon
    <2> QED
      BY <2>1, <2>2
  <1> QED
    BY <1>1, AloneHolds, PTL

LEMMA AloneFollows == MCSpec => [][alone => Follows(row', row)]_<<vars, alone>>
  <1>1. IndInv /\ AloneInv /\ [MCNext]_<<vars, alone>>
          => [alone => Follows(row', row)]_<<vars, alone>>
    <2> SUFFICES ASSUME IndInv, AloneInv, [MCNext]_<<vars, alone>>, alone
                 PROVE  Follows(row', row)
      OBVIOUS
    <2>1. CASE row' = row
      BY <2>1 DEF IndInv, TypeOK, Follows, StampOf, Row
    <2>2. CASE row' # row
      BY <2>2, AloneNext
    <2> QED
      BY <2>1, <2>2
  <1> QED
    BY <1>1, AloneHolds, PTL DEF MCSpec

(***************************************************************************)
(* NewestWinsAlone: for every story the platform may tell, transactions    *)
(* that follow one another never put an older payload over a newer one     *)
(* (decide_write).                                                         *)
(***************************************************************************)
THEOREM NewestAlone == MCSpec => NewestWinsAlone
  <1>1. [alone => Follows(row', row)]_<<vars, alone>>
          => [alone => StampOf(row') >= StampOf(row)]_vars
    BY DEF Follows
  <1> QED
    BY <1>1, AloneFollows, PTL DEF NewestWinsAlone

(***************************************************************************)
(* CancelledIsFinal: one after the other, pulls and people leave a         *)
(* cancelled order cancelled (decide_status, refuse_ship).                 *)
(***************************************************************************)
THEOREM CancelledAlone == MCSpec => CancelledIsFinal
  <1>1. [alone => Follows(row', row)]_<<vars, alone>>
          => [alone /\ StatusOf(row) = "CANCELLED" => StatusOf(row') = "CANCELLED"]_vars
    BY DEF Follows
  <1> QED
    BY <1>1, AloneFollows, PTL DEF CancelledIsFinal

(***************************************************************************)
(* VerdictStays: one after the other, pulls leave a person's verdict       *)
(* (next_review_status).                                                   *)
(***************************************************************************)
THEOREM VerdictAlone == MCSpec => VerdictStays
  <1>1. [alone => Follows(row', row)]_<<vars, alone>>
          => [alone /\ row # None /\ row.review \in Reviewed
                => row'.review \in Reviewed]_vars
    BY DEF Follows
  <1> QED
    BY <1>1, AloneFollows, PTL DEF VerdictStays
=============================================================================
