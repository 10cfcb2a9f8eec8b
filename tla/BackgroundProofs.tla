-------------------------- MODULE BackgroundProofs --------------------------
(***************************************************************************)
(* The proofs of what the parts of Background promise, each on its own and *)
(* for any values of its constants.                                        *)
(***************************************************************************)
EXTENDS Background, Sums, SequenceTheorems

\* The cardinality that a part counts with is the one that the theorems are about.
LEMMA SameCardinality ==
    ASSUME NEW S
    PROVE  /\ Lock!Cardinality(S) = Cardinality(S) /\ Limiter!Cardinality(S) = Cardinality(S)
           /\ Listing!Cardinality(S) = Cardinality(S)
BY DEF Lock!Cardinality, Limiter!Cardinality, Listing!Cardinality, Cardinality

-----------------------------------------------------------------------------
(* The lock of a scheduled task (BeatLock).                                 *)

Young(b) == runner[b].doing = "holding" /\ runner[b].age < Ttl

\* The lock of a run that is younger than the TTL is its own, and expires when it is no longer.
YoungOwnsLock ==
    \A b \in Beat : Young(b) =>
        lock # None /\ lock.token = b /\ lock.left + runner[b].age = Ttl

LockInv == Lock!TypeOK /\ YoungOwnsLock

\* One lock has one token, so only one run can be young (run_beat_singleton).
LEMMA OneOwner == LockInv => Lock!NoTwoWithinTtl
<1> DEFINE young == {b \in Beat : Young(b)}
<1> SUFFICES ASSUME LockInv PROVE Cardinality(young) <= 1
    BY SameCardinality DEF Lock!NoTwoWithinTtl, Young
<1>1. CASE young = {}
    <2>1. Cardinality(young) = 0
        BY <1>1, FS_EmptySet, Zenon
    <2> QED
        BY <2>1
<1>2. CASE young # {}
    <2>1. PICK x \in young : TRUE
        BY <1>2
    <2>2. young = {x}
        BY <2>1 DEF LockInv, YoungOwnsLock
    <2>3. Cardinality(young) = 1
        BY <2>2, FS_Singleton, Zenon
    <2> QED
        BY <2>3
<1> QED
    BY <1>1, <1>2

\* Whatever a worker does with the key, a young run keeps its own (Acquire, Finish, Tick).
LEMMA StepKeepsOwner ==
    ASSUME None \notin Beat, Ttl \in Nat \ {0},
           None \notin [token: Beat \cup {None}, left: 1..Ttl],
           LockInv, [Lock!Next]_(Lock!vars)
    PROVE  LockInv'
<1> USE DEF LockInv, YoungOwnsLock, Young
<1>1. ASSUME NEW b \in Beat, Lock!Acquire(b)
      PROVE  LockInv'
    BY <1>1 DEF Lock!Acquire, Lock!TypeOK, Lock!Runner, Lock!Resting
<1>2. ASSUME NEW b \in Beat, Lock!RunBlind(b)
      PROVE  LockInv'
    BY <1>2 DEF Lock!RunBlind, Lock!TypeOK, Lock!Runner, Lock!Resting
<1>3. ASSUME NEW b \in Beat, Lock!Finish(b)
      PROVE  LockInv'
    BY <1>3 DEF Lock!Finish, Lock!Released, Lock!TypeOK, Lock!Runner, Lock!Resting
<1>4. ASSUME NEW b \in Beat, Lock!Die(b)
      PROVE  LockInv'
    BY <1>4 DEF Lock!Die, Lock!TypeOK, Lock!Runner, Lock!Resting
<1>5. CASE Lock!Tick
    <2>1. ASSUME NEW b \in Beat
          PROVE  /\ runner'[b] \in Lock!Runner
                 /\ runner'[b].doing = runner[b].doing
                 /\ Young(b)' => Young(b) /\ runner'[b].age = runner[b].age + 1
        BY <1>5, SMTT(30) DEF Lock!Tick, Lock!Older, Lock!TypeOK, Lock!Runner
    <2>2. Lock!TypeOK'
        BY <1>5, <2>1 DEF Lock!Tick, Lock!TypeOK
    <2>3. ASSUME NEW b \in Beat, Young(b)'
          PROVE  lock' # None /\ lock'.token = b /\ lock'.left + runner'[b].age = Ttl
        <3>1. /\ lock # None /\ lock.token = b /\ lock.left + runner[b].age = Ttl
              /\ runner'[b].age = runner[b].age + 1 /\ runner'[b].age < Ttl
            BY <2>1, <2>3
        <3>2. lock \in [token: Beat \cup {None}, left: 1..Ttl] /\ runner[b].age \in Nat
            BY <3>1 DEF Lock!TypeOK, Lock!Runner
        <3>3. lock' = [lock EXCEPT !.left = @ - 1] /\ lock.left \in 2..Ttl
            BY <1>5, <3>1, <3>2 DEF Lock!Tick
        <3>4. lock' \in [token: Beat \cup {None}, left: 1..Ttl]
            BY <3>2, <3>3
        <3>5. lock'.token = b /\ lock'.left = lock.left - 1
            BY <3>1, <3>2, <3>3
        <3> QED
            BY <3>1, <3>2, <3>3, <3>4, <3>5
    <2> QED
        BY <2>2, <2>3 DEF YoungOwnsLock
<1>6. CASE UNCHANGED Lock!vars
    BY <1>6 DEF Lock!vars, Lock!TypeOK
<1> QED
    BY <1>1, <1>2, <1>3, <1>4, <1>5, <1>6 DEF Lock!Next

(***************************************************************************)
(* No two runs that are younger than the TTL hold the lock, whatever the   *)
(* number of workers, the TTL, and the crashes and lost answers of the     *)
(* store (run_beat_singleton, _RELEASE_SCRIPT).                            *)
(***************************************************************************)
THEOREM OneYoungRun == Lock!Spec => []Lock!NoTwoWithinTtl
<1>1. Lock!Init => LockInv
    BY LockAssumption DEF Lock!Init, LockInv, Lock!TypeOK, YoungOwnsLock, Young, Lock!Runner, Lock!Resting
<1>2. LockInv /\ [Lock!Next]_(Lock!vars) => LockInv'
    BY StepKeepsOwner, LockAssumption
<1>3. LockInv => Lock!NoTwoWithinTtl
    BY OneOwner
<1> QED
    BY <1>1, <1>2, <1>3, PTL DEF Lock!Spec

-----------------------------------------------------------------------------
(* A webhook on its way (Webhook).                                          *)

IngressInv == Ingress!TypeOK /\ Ingress!ClaimedIsKept

\* What becomes of a message keeps its event: taken, moved on or parked (webhook_event).
LEMMA TaskKeeps ==
    ASSUME Retries \in Nat, MaxCopies \in Nat, IngressInv, NEW n \in Ingress!Attempt,
           Ingress!Handle(n) \/ Ingress!Retry(n) \/ Ingress!ParkTask(n) \/ Ingress!Fail(n)
    PROVE  IngressInv'
<1>1. Ingress!TypeOK'
    <2>1. CASE Ingress!Handle(n)
        BY <2>1 DEF Ingress!Handle, Ingress!Take, IngressInv, Ingress!TypeOK
    <2>2. CASE Ingress!Retry(n)
        BY <2>2 DEF Ingress!Retry, IngressInv, Ingress!TypeOK
    <2>3. CASE Ingress!ParkTask(n)
        BY <2>3 DEF Ingress!ParkTask, Ingress!Take, IngressInv, Ingress!TypeOK
    <2>4. CASE Ingress!Fail(n)
        BY <2>4 DEF Ingress!Fail, Ingress!Take, IngressInv, Ingress!TypeOK
    <2> QED
        BY <2>1, <2>2, <2>3, <2>4
<1>2. Ingress!Kept'
    <2>1. CASE Ingress!Handle(n)
        BY <2>1 DEF Ingress!Handle, Ingress!Kept
    <2>2. CASE Ingress!Retry(n)
        <3>1. n + 1 \in Ingress!Attempt
            BY <2>2 DEF Ingress!Retry, Ingress!Attempt
        <3>2. copies'[n + 1] = copies[n + 1] + 1
            BY <2>2, <3>1 DEF Ingress!Retry, Ingress!Attempt
        <3>3. copies[n + 1] \in Nat
            BY <3>1 DEF IngressInv, Ingress!TypeOK
        <3> QED
            BY <3>1, <3>2, <3>3 DEF Ingress!Kept, Ingress!InBroker
    <2>3. CASE Ingress!ParkTask(n)
        BY <2>3 DEF Ingress!ParkTask, Ingress!Kept
    <2>4. CASE Ingress!Fail(n)
        BY <2>4 DEF Ingress!Fail, Ingress!Kept
    <2> QED
        BY <2>1, <2>2, <2>3, <2>4
<1> QED
    BY <1>1, <1>2 DEF IngressInv, Ingress!ClaimedIsKept

\* A request that stops leaves the event in the broker, among the letters, or free (accept).
LEMMA RequestKeeps ==
    ASSUME Retries \in Nat, MaxCopies \in Nat, IngressInv, NEW r \in Receiver,
           Ingress!Claim(r) \/ Ingress!Publish(r) \/ Ingress!PublishFails(r) \/ Ingress!Park(r)
             \/ Ingress!ParkFails(r) \/ Ingress!Release(r) \/ Ingress!Die(r)
    PROVE  IngressInv'
<1> USE DEF IngressInv, Ingress!TypeOK, Ingress!Stage, Ingress!Go
<1>1. CASE Ingress!Claim(r)
    BY <1>1 DEF Ingress!Claim, Ingress!ClaimedIsKept, Ingress!Kept, Ingress!InBroker
<1>2. CASE Ingress!Publish(r)
    <2>1. 0 \in Ingress!Attempt /\ copies'[0] = copies[0] + 1 /\ copies[0] \in 0..MaxCopies
        BY <1>2 DEF Ingress!Publish, Ingress!Enqueue, Ingress!Attempt
    <2>2. Ingress!Kept'
        BY <2>1 DEF Ingress!Kept, Ingress!InBroker
    <2>3. copies' \in [Ingress!Attempt -> 0..MaxCopies]
        BY <1>2, <2>1 DEF Ingress!Publish, Ingress!Enqueue
    <2>4. receiver' \in [Receiver -> Ingress!Stage]
        BY <1>2 DEF Ingress!Publish
    <2>5. {parses, claimed, letter, handled, accepted, stranded, dropped}' \subseteq BOOLEAN
        BY <1>2 DEF Ingress!Publish
    <2> QED
        BY <2>2, <2>3, <2>4, <2>5 DEF Ingress!ClaimedIsKept
<1>3. CASE Ingress!PublishFails(r)
    BY <1>3 DEF Ingress!PublishFails, Ingress!ClaimedIsKept, Ingress!Kept, Ingress!InBroker
<1>4. CASE Ingress!Park(r)
    BY <1>4 DEF Ingress!Park, Ingress!ClaimedIsKept, Ingress!Kept, Ingress!InBroker
<1>5. CASE Ingress!ParkFails(r)
    BY <1>5 DEF Ingress!ParkFails, Ingress!AfterLostPark, Ingress!ClaimedIsKept, Ingress!Kept, Ingress!InBroker
<1>6. CASE Ingress!Release(r)
    BY <1>6 DEF Ingress!Release, Ingress!ClaimedIsKept, Ingress!Kept, Ingress!InBroker
<1>7. CASE Ingress!Die(r)
    BY <1>7 DEF Ingress!Die, Ingress!ClaimedIsKept, Ingress!Kept, Ingress!InBroker
<1> QED
    BY <1>1, <1>2, <1>3, <1>4, <1>5, <1>6, <1>7

(***************************************************************************)
(* An event that was accepted can be found, and one whose redeliveries are *)
(* dropped is kept or in hand, for any number of requests and retries and  *)
(* whatever fails in between (accept, webhook_event).                      *)
(***************************************************************************)
THEOREM NoEventIsLost == Ingress!Spec => []Ingress!ClaimedIsKept
<1>1. Ingress!Init => IngressInv
    <2> SUFFICES ASSUME Ingress!Init PROVE IngressInv
        OBVIOUS
    <2>1. {parses, claimed, letter, handled, accepted, stranded, dropped} \subseteq BOOLEAN
        BY DEF Ingress!Init
    <2>2. receiver \in [Receiver -> Ingress!Stage] /\ copies \in [Ingress!Attempt -> 0..MaxCopies]
        BY IngressAssumption DEF Ingress!Init, Ingress!Stage
    <2>3. Ingress!ClaimedIsKept
        BY DEF Ingress!Init, Ingress!ClaimedIsKept
    <2> QED
        BY <2>1, <2>2, <2>3 DEF IngressInv, Ingress!TypeOK
<1>2. IngressInv /\ [Ingress!Next]_(Ingress!vars) => IngressInv'
    <2> SUFFICES ASSUME IngressInv, [Ingress!Next]_(Ingress!vars) PROVE IngressInv'
        OBVIOUS
    <2>1. CASE Ingress!Forget
        BY <2>1 DEF Ingress!Forget, IngressInv, Ingress!TypeOK, Ingress!ClaimedIsKept, Ingress!Kept, Ingress!InBroker
    <2>2. CASE UNCHANGED Ingress!vars
        BY <2>2 DEF Ingress!vars, IngressInv, Ingress!TypeOK, Ingress!ClaimedIsKept, Ingress!Kept, Ingress!InBroker
    <2> QED
        BY <2>1, <2>2, TaskKeeps, RequestKeeps, IngressAssumption DEF Ingress!Next
<1>3. IngressInv => Ingress!ClaimedIsKept
    BY DEF IngressInv
<1> QED
    BY <1>1, <1>2, <1>3, PTL DEF Ingress!Spec

-----------------------------------------------------------------------------
(* The quota and the rate of the calls (RateLimit).                         *)

\* Workers that have passed the check and are not counted yet.
Pending == {w \in Worker : limitJob[w] \in {"checked", "taken"}}

(***************************************************************************)
(* Every one of them may still be counted: what is used and what they may  *)
(* use stays within the bound, since the last to pass found the quota not  *)
(* used up.                                                                *)
(***************************************************************************)
QuotaInv ==
    /\ limitJob \in [Worker -> {"idle", "checked", "taken", "calling"}]
    /\ used \in Nat
    /\ calls \in 0..used
    /\ used + Cardinality(Pending) <= Quota + Cardinality(Worker) - 1

\* The workers on their way are finitely many, and no more than there are (try_acquire).
LEMMA PendingFew ==
    ASSUME IsFiniteSet(Worker)
    PROVE  /\ IsFiniteSet(Pending) /\ Cardinality(Pending) \in Nat
           /\ Cardinality(Worker) \in Nat /\ Cardinality(Pending) <= Cardinality(Worker)
BY FS_Subset, FS_CardinalityType DEF Pending

\* Fewer on their way leave the count where it is (apply_acquire, record_throttled).
LEMMA FewerPending ==
    ASSUME IsFiniteSet(Worker), Pending' \subseteq Pending
    PROVE  Cardinality(Pending') \in Nat /\ Cardinality(Pending') <= Cardinality(Pending)
BY PendingFew, FS_Subset, FS_CardinalityType

\* Neither the check nor the count of a call leaves the bound (_daily_block, _count_daily).
LEMMA StepKeepsQuota ==
    ASSUME IsFiniteSet(Worker), Quota \in Nat, QuotaInv, [Limiter!Next]_(Limiter!vars)
    PROVE  QuotaInv'
<1> DEFINE Stage == {"idle", "checked", "taken", "calling"}
<1>0. /\ used \in Nat /\ calls \in 0..used /\ limitJob \in [Worker -> Stage]
      /\ used + Cardinality(Pending) <= Quota + Cardinality(Worker) - 1
      /\ Cardinality(Pending) \in Nat /\ Cardinality(Worker) \in Nat
    BY PendingFew DEF QuotaInv
<1>1. ASSUME Pending' \subseteq Pending, UNCHANGED <<used, calls>>,
             limitJob' \in [Worker -> Stage]
      PROVE  QuotaInv'
    <2>1. Cardinality(Pending') \in Nat /\ Cardinality(Pending') <= Cardinality(Pending)
        BY <1>1, FewerPending
    <2> QED
        BY <1>0, <1>1, <2>1 DEF QuotaInv
<1>2. ASSUME NEW w \in Worker, Limiter!CheckDay(w)
      PROVE  QuotaInv'
    <2>1. Pending' \subseteq Worker
        BY DEF Pending
    <2>2. Cardinality(Pending') \in Nat /\ Cardinality(Pending') <= Cardinality(Worker)
        BY <2>1, FS_Subset, FS_CardinalityType
    <2>3. used < Quota /\ UNCHANGED <<used, calls>> /\ limitJob' \in [Worker -> Stage]
        BY <1>0, <1>2 DEF Limiter!CheckDay, Limiter!Exhausted, Limiter!Go
    <2> QED
        BY <1>0, <2>2, <2>3 DEF QuotaInv
<1>3. ASSUME NEW w \in Worker, Limiter!TakeToken(w)
      PROVE  QuotaInv'
    <2>1. limitJob[w] = "checked" /\ UNCHANGED <<used, calls>>
          /\ (limitJob' = [limitJob EXCEPT ![w] = "taken"] \/ limitJob' = [limitJob EXCEPT ![w] = "idle"])
        BY <1>3 DEF Limiter!TakeToken, Limiter!Go
    <2> QED
        BY <1>0, <1>1, <2>1 DEF Pending
<1>4. ASSUME NEW w \in Worker, Limiter!CountDay(w)
      PROVE  QuotaInv'
    <2>1. /\ limitJob[w] = "taken"
          /\ limitJob' = [limitJob EXCEPT ![w] = "calling"] \/ limitJob' = [limitJob EXCEPT ![w] = "idle"]
          /\ used' \in {used, used + 1}
          /\ calls' = calls \/ (calls' = calls + 1 /\ used' = used + 1)
        BY <1>4 DEF Limiter!CountDay, Limiter!Go
    <2>2. Pending' = Pending \ {w} /\ w \in Pending
        BY <1>0, <2>1 DEF Pending
    <2>3. Cardinality(Pending') = Cardinality(Pending) - 1
        BY <2>2, PendingFew, FS_RemoveElement
    <2>4. limitJob' \in [Worker -> Stage]
        BY <1>0, <2>1
    <2> QED
        BY <1>0, <2>1, <2>3, <2>4 DEF QuotaInv
<1>5. ASSUME NEW w \in Worker, Limiter!Throttled(w) \/ Limiter!Succeeded(w) \/ Limiter!Dropped(w)
      PROVE  QuotaInv'
    <2>1. limitJob' = [limitJob EXCEPT ![w] = "idle"] /\ UNCHANGED <<used, calls>>
        BY <1>5 DEF Limiter!Throttled, Limiter!Succeeded, Limiter!Dropped, Limiter!Go
    <2> QED
        BY <1>0, <1>1, <2>1 DEF Pending
<1>6. CASE Limiter!Tick
    BY <1>0, <1>1, <1>6 DEF Limiter!Tick, Pending
<1>7. CASE UNCHANGED Limiter!vars
    BY <1>0, <1>1, <1>7 DEF Limiter!vars, Pending
<1> QED
    BY <1>2, <1>3, <1>4, <1>5, <1>6, <1>7 DEF Limiter!Next

(***************************************************************************)
(* The day's calls never exceed the quota by as many as there are workers, *)
(* however their checks, tokens and counts interleave and whatever the     *)
(* store forgets to answer (try_acquire).                                  *)
(***************************************************************************)
THEOREM QuotaNearlyKept == Limiter!Spec => []Limiter!QuotaHeld
<1>1. Limiter!Init => QuotaInv
    <2> SUFFICES ASSUME Limiter!Init PROVE QuotaInv
        OBVIOUS
    <2>1. Pending = {}
        BY DEF Limiter!Init, Pending
    <2>2. Cardinality(Pending) = 0
        BY <2>1, FS_EmptySet, Zenon
    <2>3. Cardinality(Worker) \in Nat /\ Cardinality(Worker) # 0
        BY FS_EmptySet, FS_CardinalityType, LimiterAssumption
    <2> QED
        BY <2>2, <2>3, LimiterAssumption DEF Limiter!Init, QuotaInv
<1>2. QuotaInv /\ [Limiter!Next]_(Limiter!vars) => QuotaInv'
    BY StepKeepsQuota, LimiterAssumption
<1>3. QuotaInv => Limiter!QuotaHeld
    BY PendingFew, SameCardinality, LimiterAssumption DEF QuotaInv, Limiter!QuotaHeld
<1> QED
    BY <1>1, <1>2, <1>3, PTL DEF Limiter!Spec

\* The clocks, of which there are finitely many, have a first and a last (Clock).
LEMMA FiniteHasBounds ==
    ASSUME NEW S, IsFiniteSet(S), S \subseteq Int, S # {}
    PROVE  \E m, n \in S : \A k \in S : m <= k /\ k <= n
<1> DEFINE U == {T \in SUBSET S : T # {} => \E m, n \in T : \A k \in T : m <= k /\ k <= n}
<1>1. ASSUME NEW T \in SUBSET S, \A R \in SUBSET T : R # T => R \in U
      PROVE  T \in U
    <2> SUFFICES ASSUME T # {} PROVE \E m, n \in T : \A k \in T : m <= k /\ k <= n
        OBVIOUS
    <2>1. PICK x \in T : TRUE
        OBVIOUS
    <2>2. x \in Int
        BY <2>1
    <2>3. CASE T = {x}
        <3>1. \A k \in T : x <= k /\ k <= x
            BY <2>2, <2>3
        <3> QED
            BY <2>1, <3>1
    <2>4. CASE T # {x}
        <3> DEFINE R == T \ {x}
        <3>1. R \in SUBSET T /\ R # T /\ R # {}
            BY <2>1, <2>4
        <3>2. R \in U
            BY <1>1, <3>1
        <3>3. PICK m \in R, n \in R : \A k \in R : m <= k /\ k <= n
            BY <3>1, <3>2
        <3>4. m \in Int /\ n \in Int /\ m \in T /\ n \in T
            BY <3>3
        <3>5. PICK a \in {m, x} : a <= m /\ a <= x
            BY <2>2, <3>4
        <3>6. PICK b \in {n, x} : n <= b /\ x <= b
            BY <2>2, <3>4
        <3>7. \A k \in T : a <= k /\ k <= b
            BY <2>2, <3>3, <3>4, <3>5, <3>6
        <3> QED
            BY <2>1, <3>4, <3>5, <3>6, <3>7
    <2> QED
        BY <2>3, <2>4
<1>2. \A T \in SUBSET S : T \in U
    <2> HIDE DEF U
    <2> QED
        BY <1>1, SubsetInduction
<1> QED
    BY <1>2

\* Multiplication by the rate is monotone (RateLimitSpec.qps).
LEMMA ProductsGrow ==
    ASSUME NEW q \in Nat, NEW x \in Int, NEW y \in Int, x <= y
    PROVE  q * x \in Int /\ q * y \in Int /\ q * x <= q * y
<1>1. PICK d \in Nat : y = x + d
    <2>1. y - x \in Nat /\ y = x + (y - x)
        OBVIOUS
    <2> QED
        BY <2>1
<1>2. q * y = q * x + q * d /\ q * d \in Nat /\ q * x \in Int
    BY <1>1
<1> QED
    BY <1>1, <1>2

\* The earliest and the latest clock are clocks (Clock).
LEMMA ClocksBounded ==
    /\ Limiter!Earliest \in Int /\ Limiter!Latest \in Int
    /\ \A w \in Worker : /\ Clock[w] \in Int
                         /\ Limiter!Earliest <= Clock[w] /\ Clock[w] <= Limiter!Latest
<1>1. IsFiniteSet(Limiter!Ahead)
    <2>1. Clock \in Surjection(Worker, Limiter!Ahead)
        BY LimiterAssumption DEF Limiter!Ahead, Surjection
    <2> QED
        BY <2>1, FS_Surjection, LimiterAssumption
<1>2. Limiter!Ahead # {} /\ Limiter!Ahead \subseteq Int
    BY LimiterAssumption DEF Limiter!Ahead
<1>3. \E m, n \in Limiter!Ahead : \A k \in Limiter!Ahead : m <= k /\ k <= n
    BY <1>1, <1>2, FiniteHasBounds
<1>4. /\ Limiter!Earliest \in Limiter!Ahead /\ \A k \in Limiter!Ahead : Limiter!Earliest <= k
      /\ Limiter!Latest \in Limiter!Ahead /\ \A k \in Limiter!Ahead : k <= Limiter!Latest
    BY <1>3 DEF Limiter!Earliest, Limiter!Latest
<1> QED
    BY <1>2, <1>4, LimiterAssumption DEF Limiter!Ahead

AnyBucket == [tokens: Int, stamp: Int, penalty: Limiter!Penalty, streak: Nat]

Taken == {w \in Worker : limitJob[w] = "taken"}

(***************************************************************************)
(* With n tokens given out by the time t: a bucket holds no more than its  *)
(* capacity, and with what was given out no more than a burst and what has *)
(* accrued up to its stamp, g of it twice.                                 *)
(***************************************************************************)
Holds(b, n, t, g) ==
    /\ b \in AnyBucket
    /\ 0 <= b.tokens /\ b.tokens <= Limiter!Capacity(b.penalty)
    /\ Limiter!Earliest <= b.stamp /\ b.stamp <= t + Limiter!Latest
    /\ 4 * n + b.tokens <= 4 * Burst + 4 * (Qps * (b.stamp - Limiter!Earliest + g))

RateInv ==
    /\ now \in Nat /\ regained \in Nat /\ calls \in Nat
    /\ limitJob \in [Worker -> {"idle", "checked", "taken", "calling"}]
    /\ IF bucket = None THEN calls = 0 /\ Taken = {}
       ELSE Holds(bucket, calls + Cardinality(Taken), now, regained)

\* A full bucket takes the burst, and every bucket a token (_scaled_capacity).
LEMMA Capacities ==
    ASSUME NEW p \in Limiter!Penalty
    PROVE  /\ Limiter!Capacity(p) \in Int /\ 4 <= Limiter!Capacity(p)
           /\ Limiter!Capacity(4) = 4 * Burst
BY LimiterAssumption DEF Limiter!Capacity, Limiter!Larger, Limiter!Penalty

\* The workers that have a token and have not called are finitely many (try_acquire).
LEMMA TakenFinite == IsFiniteSet(Taken) /\ Cardinality(Taken) \in Nat
BY FS_Subset, FS_CardinalityType, LimiterAssumption DEF Taken

\* The clock of a worker is one of those between the first and the last (Clock).
LEMMA TimeBounded ==
    ASSUME now \in Nat, NEW w \in Worker
    PROVE  /\ Limiter!Time(w) \in Int
           /\ Limiter!Earliest <= Limiter!Time(w) /\ Limiter!Time(w) <= now + Limiter!Latest
BY ClocksBounded DEF Limiter!Time

\* What a worker finds is a bucket that holds what it should; a new one does (_load_state).
LEMMA FoundHolds ==
    ASSUME RateInv, NEW w \in Worker
    PROVE  Holds(Limiter!Bucket(w), calls + Cardinality(Taken), now, regained)
<1>1. CASE bucket = None
    <2> DEFINE b == Limiter!Fresh(w)
    <2>1. 4 \in Limiter!Penalty
        BY DEF Limiter!Penalty
    <2>2. Limiter!Capacity(4) \in Int /\ 4 <= Limiter!Capacity(4) /\ Limiter!Capacity(4) = 4 * Burst
        BY <2>1, Capacities
    <2>3. /\ b \in AnyBucket /\ b.tokens = Limiter!Capacity(4) /\ b.stamp = Limiter!Time(w)
          /\ b.penalty = 4
        BY <2>1, <2>2, TimeBounded DEF Limiter!Fresh, AnyBucket, RateInv
    <2>4. calls + Cardinality(Taken) = 0
        <3>1. Taken = {} /\ calls = 0
            BY <1>1 DEF RateInv
        <3>2. Cardinality(Taken) = 0
            BY <3>1, FS_EmptySet, Zenon
        <3> QED
            BY <3>1, <3>2
    <2>5. Limiter!Earliest <= b.stamp /\ b.stamp <= now + Limiter!Latest
        BY <2>3, TimeBounded DEF RateInv
    <2>6. Qps * (b.stamp - Limiter!Earliest + regained) >= 0
        <3>1. 0 <= b.stamp - Limiter!Earliest + regained /\ b.stamp - Limiter!Earliest + regained \in Int
            BY <2>3, <2>5, ClocksBounded, TimeBounded DEF RateInv
        <3> HIDE DEF b
        <3>2. Qps * 0 <= Qps * (b.stamp - Limiter!Earliest + regained)
            BY <3>1, ProductsGrow, LimiterAssumption
        <3>3. Qps * 0 = 0
            BY LimiterAssumption
        <3> QED
            BY <3>1, <3>2, <3>3, ProductsGrow, LimiterAssumption
    <2>7. Limiter!Bucket(w) = b
        BY <1>1 DEF Limiter!Bucket
    <2>8. Qps * (b.stamp - Limiter!Earliest + regained) \in Int
        <3>1. b.stamp - Limiter!Earliest + regained \in Int
            BY <2>3, ClocksBounded, TimeBounded DEF RateInv
        <3> HIDE DEF b
        <3> QED
            BY <3>1, LimiterAssumption
    <2> HIDE DEF b
    <2>9. 4 * 0 + b.tokens <= 4 * Burst + 4 * (Qps * (b.stamp - Limiter!Earliest + regained))
        BY <2>2, <2>3, <2>6, <2>8, LimiterAssumption
    <2> QED
        BY <2>2, <2>3, <2>4, <2>5, <2>7, <2>9 DEF Holds
<1>2. CASE bucket # None
    BY <1>2 DEF RateInv, Limiter!Bucket
<1> QED
    BY <1>1, <1>2

\* Fewer tokens given out, and time that goes by, change nothing (Tick, record_success).
LEMMA HoldsStill ==
    ASSUME NEW b, NEW n \in Nat, NEW n2 \in Nat, n2 <= n, NEW t \in Int, NEW t2 \in Int, t <= t2,
           NEW g \in Nat, Holds(b, n, t, g)
    PROVE  Holds(b, n2, t2, g)
<1>1. b.tokens \in Int /\ b.stamp \in Int
    BY DEF Holds, AnyBucket
<1>2. Qps * (b.stamp - Limiter!Earliest + g) \in Int
    BY <1>1, ClocksBounded, LimiterAssumption
<1> QED
    BY <1>1, <1>2, ClocksBounded, LimiterAssumption DEF Holds

\* A bucket that is slowed or recovers keeps what its capacity takes (apply_throttle).
LEMMA ChangedHolds ==
    ASSUME NEW b, NEW n \in Nat, NEW t \in Int, NEW g \in Nat, Holds(b, n, t, g),
           NEW p \in Limiter!Penalty, NEW s \in Nat,
           NEW b2, b2 = [b EXCEPT !.penalty = p, !.streak = s,
                                  !.tokens = Limiter!Smaller(@, Limiter!Capacity(p))]
    PROVE  Holds(b2, n, t, g)
<1>1. b.tokens \in Int /\ b.stamp \in Int
    BY DEF Holds, AnyBucket
<1>2. Limiter!Capacity(p) \in Int /\ 4 <= Limiter!Capacity(p)
    BY Capacities
<1>3. /\ Limiter!Smaller(b.tokens, Limiter!Capacity(p)) \in Int
      /\ Limiter!Smaller(b.tokens, Limiter!Capacity(p)) <= b.tokens
      /\ Limiter!Smaller(b.tokens, Limiter!Capacity(p)) <= Limiter!Capacity(p)
      /\ 0 <= b.tokens => 0 <= Limiter!Smaller(b.tokens, Limiter!Capacity(p))
    BY <1>1, <1>2 DEF Limiter!Smaller
<1>4. /\ b2 \in AnyBucket /\ b2.stamp = b.stamp /\ b2.penalty = p
      /\ b2.tokens = Limiter!Smaller(b.tokens, Limiter!Capacity(p))
    BY <1>3 DEF Holds, AnyBucket
<1>5. Qps * (b.stamp - Limiter!Earliest + g) \in Int
    BY <1>1, ClocksBounded, LimiterAssumption
<1> QED
    BY <1>1, <1>2, <1>3, <1>4, <1>5, LimiterAssumption DEF Holds

\* A worker that is behind puts the stamp back, and what it puts back counts twice (apply_acquire).
LEMMA RefilledHolds ==
    ASSUME RateInv, NEW w \in Worker, NEW b, NEW n \in Nat, b = Limiter!Bucket(w),
           Holds(b, n, now, regained), NEW more \in {0, 1},
           more = IF Limiter!Refilled(w) >= 4 THEN 1 ELSE 0, NEW b2,
           b2 = [b EXCEPT !.tokens = Limiter!Refilled(w) - (IF Limiter!Refilled(w) >= 4 THEN 4 ELSE 0),
                          !.stamp = Limiter!Time(w)]
    PROVE  Holds(b2, n + more, now,
                 regained + Limiter!Larger(0, b.stamp - Limiter!Time(w)))
<1> DEFINE T == Limiter!Time(w)
           r == Limiter!Refilled(w)
           fresh == Limiter!Larger(0, T - b.stamp)
           again == Limiter!Larger(0, b.stamp - T)
           x == b.stamp - Limiter!Earliest + regained
           y == T - Limiter!Earliest + (regained + again)
<1>1. /\ b.tokens \in Int /\ b.stamp \in Int /\ b.penalty \in Limiter!Penalty /\ T \in Int
      /\ Limiter!Earliest \in Int /\ Limiter!Latest \in Int /\ regained \in Nat /\ now \in Nat
      /\ 0 <= b.tokens /\ b.tokens <= Limiter!Capacity(b.penalty)
      /\ Limiter!Earliest <= T /\ T <= now + Limiter!Latest /\ Qps \in Nat /\ Burst \in Nat
      /\ 4 * n + b.tokens <= 4 * Burst + 4 * (Qps * x)
    BY ClocksBounded, TimeBounded, LimiterAssumption DEF Holds, AnyBucket, RateInv
<1>2. Limiter!Capacity(b.penalty) \in Int /\ 4 <= Limiter!Capacity(b.penalty)
    BY <1>1, Capacities
<1>3. fresh \in Nat /\ again \in Nat /\ x \in Int /\ y \in Int /\ y = x + fresh
    BY <1>1 DEF Limiter!Larger
<1>4. r = Limiter!Smaller(Limiter!Capacity(b.penalty), b.tokens + Qps * b.penalty * fresh)
    BY DEF Limiter!Refilled
<1> HIDE DEF T, fresh, again, x, y, r
<1>5. PICK c \in Nat : c = Qps * fresh
    BY <1>1, <1>3
<1>6. Qps * b.penalty * fresh \in Nat /\ Qps * b.penalty * fresh <= 4 * c
    <2>1. CASE b.penalty = 1
        <3>1. Qps * b.penalty * fresh = c
            BY <1>1, <1>3, <1>5, <2>1
        <3> QED
            BY <1>5, <3>1
    <2>2. CASE b.penalty = 2
        <3>1. Qps * b.penalty * fresh = 2 * c
            BY <1>1, <1>3, <1>5, <2>2
        <3> QED
            BY <1>5, <3>1
    <2>3. CASE b.penalty = 4
        <3>1. Qps * b.penalty * fresh = 4 * c
            BY <1>1, <1>3, <1>5, <2>3
        <3> QED
            BY <1>5, <3>1
    <2> QED
        BY <1>1, <2>1, <2>2, <2>3 DEF Limiter!Penalty
<1>7. r \in Int /\ 0 <= r /\ r <= Limiter!Capacity(b.penalty) /\ r <= b.tokens + 4 * c
    <2>1. PICK d \in Nat : d = Qps * b.penalty * fresh /\ d <= 4 * c
        BY <1>6
    <2>2. r = Limiter!Smaller(Limiter!Capacity(b.penalty), b.tokens + d)
        BY <1>4, <2>1
    <2> QED
        BY <1>1, <1>2, <1>5, <2>1, <2>2 DEF Limiter!Smaller
<1>8. Qps * y = Qps * x + c /\ Qps * x \in Int
    BY <1>1, <1>3, <1>5
<1>9. PICK k \in Int : k = Qps * x /\ Qps * y = k + c
    BY <1>8
<1>10. /\ b2 \in AnyBucket /\ b2.tokens = r - 4 * more /\ b2.stamp = T /\ b2.penalty = b.penalty
    <2>1. b2.tokens = r - 4 * more
        <3>1. b2.tokens = r - (IF r >= 4 THEN 4 ELSE 0)
            BY DEF Holds, AnyBucket, r
        <3>2. more = IF r >= 4 THEN 1 ELSE 0
            BY DEF r
        <3> QED
            BY <1>7, <3>1, <3>2
    <2>2. r - (IF r >= 4 THEN 4 ELSE 0) \in Int
        BY <1>7
    <2>3. b2 = [b EXCEPT !.tokens = r - (IF r >= 4 THEN 4 ELSE 0), !.stamp = T]
        BY DEF r, T
    <2>4. b2 \in AnyBucket /\ b2.stamp = T /\ b2.penalty = b.penalty
        BY <1>1, <2>2, <2>3 DEF Holds, AnyBucket
    <2> QED
        BY <2>1, <2>4
<1>11. 0 <= b2.tokens /\ b2.tokens <= Limiter!Capacity(b2.penalty)
    <2>1. more = IF r >= 4 THEN 1 ELSE 0
        BY DEF r
    <2> QED
        BY <1>2, <1>7, <1>10, <2>1
<1>12. 4 * (n + more) + b2.tokens <= 4 * Burst + 4 * (Qps * y)
    <2>1. 4 * (n + more) + b2.tokens = 4 * n + r
        BY <1>7, <1>10
    <2>2. 4 * n + r <= 4 * Burst + 4 * (k + c)
        <3>1. 4 * n + b.tokens <= 4 * Burst + 4 * k
            BY <1>1, <1>9
        <3> QED
            BY <1>1, <1>5, <1>7, <1>9, <3>1
    <2> QED
        BY <1>9, <2>1, <2>2
<1>13. y = b2.stamp - Limiter!Earliest + (regained + again)
    BY <1>10 DEF y
<1> QED
    BY <1>1, <1>10, <1>11, <1>12, <1>13 DEF Holds, T, again

\* Every step keeps the bucket and the calls together (try_acquire, record_throttled).
LEMMA StepKeepsRate ==
    ASSUME RateInv, [Limiter!Next]_(Limiter!vars)
    PROVE  RateInv'
<1> DEFINE Stage == {"idle", "checked", "taken", "calling"}
           n == calls + Cardinality(Taken)
<1>0. /\ now \in Nat /\ regained \in Nat /\ calls \in Nat /\ limitJob \in [Worker -> Stage]
      /\ IsFiniteSet(Taken) /\ Cardinality(Taken) \in Nat /\ n \in Nat
    BY TakenFinite DEF RateInv
\* A token that is given back, or a worker that goes elsewhere.
<1>1. ASSUME UNCHANGED <<bucket, regained>>, now' \in Nat, now <= now',
             limitJob' \in [Worker -> Stage], Taken' \subseteq Taken,
             calls' \in Nat, calls' + Cardinality(Taken') <= n, Taken = {} => calls' = calls
      PROVE  RateInv'
    <2>1. IsFiniteSet(Taken') /\ Cardinality(Taken') \in Nat
        BY <1>0, <1>1, FS_Subset, FS_CardinalityType
    <2>2. CASE bucket = None
        BY <1>0, <1>1, <2>2 DEF RateInv
    <2>3. CASE bucket # None
        <3>1. Holds(bucket, n, now, regained)
            BY <2>3 DEF RateInv
        <3> DEFINE n2 == calls' + Cardinality(Taken')
        <3>2. n2 \in Nat /\ n2 <= n
            BY <1>1, <2>1
        <3>3. Holds(bucket, n2, now', regained)
            <4> HIDE DEF n, n2
            <4> QED
                BY <1>0, <1>1, <3>1, <3>2, HoldsStill
        <3>4. Holds(bucket, n2, now', regained) => Holds(bucket', n2, now', regained')
            BY <1>1
        <3>5. Holds(bucket', calls' + Cardinality(Taken'), now', regained')
            BY <3>3, <3>4
        <3> QED
            BY <1>0, <1>1, <2>3, <3>5 DEF RateInv, Holds
    <2> QED
        BY <2>2, <2>3
<1>2. ASSUME UNCHANGED <<bucket, regained, calls>>, now' \in Nat, now <= now',
             limitJob' \in [Worker -> Stage], Taken' \subseteq Taken
      PROVE  RateInv'
    <2>1. Cardinality(Taken') \in Nat /\ Cardinality(Taken') <= Cardinality(Taken)
        BY <1>0, <1>2, FS_Subset, FS_CardinalityType
    <2> QED
        BY <1>0, <1>1, <1>2, <2>1
<1>3. ASSUME NEW w \in Worker, Limiter!CheckDay(w)
      PROVE  RateInv'
    <2>1. /\ UNCHANGED <<bucket, regained, calls, now>>
          /\ limitJob' = [limitJob EXCEPT ![w] = "checked"]
        BY <1>3 DEF Limiter!CheckDay, Limiter!Go
    <2> QED
        BY <1>0, <1>2, <2>1 DEF Taken
<1>4. ASSUME NEW w \in Worker, Limiter!TakeToken(w)
      PROVE  RateInv'
    <2> DEFINE b == Limiter!Bucket(w)
               enough == Limiter!Refilled(w) >= 4
               more == IF enough THEN 1 ELSE 0
               b2 == [b EXCEPT !.tokens = Limiter!Refilled(w) - (IF enough THEN 4 ELSE 0),
                               !.stamp = Limiter!Time(w)]
               g2 == regained + Limiter!Larger(0, b.stamp - Limiter!Time(w))
    <2>1. /\ bucket' = b2 /\ regained' = g2 /\ UNCHANGED <<now, calls>>
          /\ limitJob[w] = "checked"
          /\ limitJob' = [limitJob EXCEPT ![w] = IF enough THEN "taken" ELSE "idle"]
        BY <1>4 DEF Limiter!TakeToken, Limiter!Go
    <2>2. Holds(b, n, now, regained)
        BY FoundHolds
    <2>3. Holds(b2, n + more, now, g2)
        <3> DEFINE k == n
        <3>1. k \in Nat /\ Holds(b, k, now, regained) /\ more \in {0, 1}
            BY <1>0, <2>2
        <3> HIDE DEF k
        <3>2. Holds(b2, k + more, now, g2)
            BY <3>1, RefilledHolds
        <3> QED
            BY <3>2 DEF k
    <2>4. Cardinality(Taken') = Cardinality(Taken) + more
        <3>1. CASE enough
            <4>1. Taken' = Taken \cup {w} /\ w \notin Taken
                BY <1>0, <2>1, <3>1 DEF Taken
            <4> QED
                BY <1>0, <3>1, <4>1, FS_AddElement
        <3>2. CASE ~enough
            <4>1. Taken' = Taken
                BY <1>0, <2>1, <3>2 DEF Taken
            <4> QED
                BY <1>0, <3>2, <4>1
        <3> QED
            BY <3>1, <3>2
    <2>5. g2 \in Nat
        BY <1>0, <2>2, TimeBounded DEF Holds, AnyBucket, Limiter!Larger
    <2>6. limitJob' \in [Worker -> Stage]
        BY <1>0, <2>1
    <2>7. calls' + Cardinality(Taken') = n + more
        BY <1>0, <2>1, <2>4
    <2>8. b2 # None
        BY <2>3, LimiterAssumption DEF Holds, AnyBucket, Limiter!Penalty
    <2> HIDE DEF n, b, b2, g2, more, enough
    <2>9. Holds(bucket', calls' + Cardinality(Taken'), now', regained')
        BY <2>1, <2>3, <2>7
    <2> QED
        BY <1>0, <2>1, <2>5, <2>6, <2>8, <2>9 DEF RateInv
<1>5. ASSUME NEW w \in Worker, Limiter!CountDay(w)
      PROVE  RateInv'
    <2>1. /\ limitJob[w] = "taken" /\ UNCHANGED <<now, bucket, regained>>
          /\ limitJob' = [limitJob EXCEPT ![w] = "calling"] \/ limitJob' = [limitJob EXCEPT ![w] = "idle"]
          /\ calls' \in {calls, calls + 1}
        BY <1>5 DEF Limiter!CountDay, Limiter!Go
    <2>2. Taken' = Taken \ {w} /\ w \in Taken /\ limitJob' \in [Worker -> Stage]
        BY <1>0, <2>1 DEF Taken
    <2>3. Cardinality(Taken') = Cardinality(Taken) - 1
        BY <1>0, <2>2, FS_RemoveElement
    <2> QED
        BY <1>0, <1>1, <2>1, <2>2, <2>3
<1>6. ASSUME NEW w \in Worker, Limiter!Throttled(w) \/ Limiter!Succeeded(w)
      PROVE  RateInv'
    <2> DEFINE b == Limiter!Bucket(w)
    <2>1. Holds(b, n, now, regained)
        BY FoundHolds
    <2>2. b.penalty \in Limiter!Penalty /\ b.streak \in Nat
        BY <2>1 DEF Holds, AnyBucket
    <2>3. \E p \in Limiter!Penalty, s \in Nat :
              bucket' = [b EXCEPT !.penalty = p, !.streak = s,
                                  !.tokens = Limiter!Smaller(@, Limiter!Capacity(p))]
        <3>1. CASE Limiter!Throttled(w)
            <4> DEFINE p == Limiter!Larger(1, b.penalty \div 2)
            <4>1. p \in Limiter!Penalty
                BY <2>2 DEF Limiter!Penalty, Limiter!Larger
            <4>2. bucket' = [b EXCEPT !.penalty = p, !.streak = 0,
                                      !.tokens = Limiter!Smaller(@, Limiter!Capacity(p))]
                BY <3>1 DEF Limiter!Throttled, Limiter!Slowed
            <4> HIDE DEF p
            <4> QED
                BY <4>1, <4>2
        <3>2. CASE Limiter!Succeeded(w)
            <4> DEFINE recovers == b.streak + 1 >= RecoverAfter /\ b.penalty < 4
                       p == IF recovers THEN Limiter!Smaller(4, 2 * b.penalty) ELSE b.penalty
                       s == IF recovers THEN 0 ELSE Limiter!Smaller(RecoverAfter, b.streak + 1)
            <4>1. p \in Limiter!Penalty
                BY <2>2 DEF Limiter!Penalty, Limiter!Smaller
            <4>2. s \in Nat
                BY <2>2, LimiterAssumption DEF Limiter!Smaller
            <4>3. bucket' = [b EXCEPT !.penalty = p, !.streak = s,
                                      !.tokens = Limiter!Smaller(@, Limiter!Capacity(p))]
                BY <2>1, <3>2 DEF Limiter!Succeeded, Holds, AnyBucket
            <4> HIDE DEF p, s
            <4> QED
                BY <4>1, <4>2, <4>3
        <3> QED
            BY <1>6, <3>1, <3>2
    <2>4. Holds(bucket', n, now, regained)
        <3> HIDE DEF b, n
        <3>1. n \in Nat /\ now \in Int /\ regained \in Nat
            BY <1>0
        <3>2. PICK p \in Limiter!Penalty, s \in Nat :
                  bucket' = [b EXCEPT !.penalty = p, !.streak = s,
                                      !.tokens = Limiter!Smaller(@, Limiter!Capacity(p))]
            BY <2>3
        <3> DEFINE b2 == [b EXCEPT !.penalty = p, !.streak = s,
                                   !.tokens = Limiter!Smaller(@, Limiter!Capacity(p))]
        <3>3. Holds(b2, n, now, regained)
            BY <2>1, <3>1, ChangedHolds
        <3>4. bucket' = b2
            BY <3>2
        <3> QED
            BY <3>3, <3>4
    <2>5. /\ limitJob[w] = "calling" /\ limitJob' = [limitJob EXCEPT ![w] = "idle"]
          /\ UNCHANGED <<now, calls, regained>>
        BY <1>6 DEF Limiter!Throttled, Limiter!Succeeded, Limiter!Go
    <2>6. Taken' = Taken /\ limitJob' \in [Worker -> Stage]
        BY <1>0, <2>5 DEF Taken
    <2>7. bucket' # None
        BY <2>4, LimiterAssumption DEF Holds, AnyBucket, Limiter!Penalty
    <2>8. Holds(bucket', calls' + Cardinality(Taken'), now', regained')
        BY <2>4, <2>5, <2>6
    <2> QED
        BY <1>0, <2>5, <2>6, <2>7, <2>8 DEF RateInv
<1>7. ASSUME NEW w \in Worker, Limiter!Dropped(w)
      PROVE  RateInv'
    <2>1. UNCHANGED <<bucket, regained, calls, now>> /\ limitJob' = [limitJob EXCEPT ![w] = "idle"]
        BY <1>7 DEF Limiter!Dropped, Limiter!Go
    <2> QED
        BY <1>0, <1>2, <2>1 DEF Taken
<1>8. CASE Limiter!Tick
    <2>1. UNCHANGED <<bucket, regained, calls, limitJob>> /\ now' = now + 1
        BY <1>8 DEF Limiter!Tick
    <2> QED
        BY <1>0, <1>2, <2>1 DEF Taken
<1>9. CASE UNCHANGED Limiter!vars
    <2>1. UNCHANGED <<bucket, regained, calls, limitJob, now>>
        BY <1>9 DEF Limiter!vars
    <2> QED
        BY <1>0, <1>2, <2>1 DEF Taken
<1> QED
    BY <1>3, <1>4, <1>5, <1>6, <1>7, <1>8, <1>9 DEF Limiter!Next

(***************************************************************************)
(* The platform never sees more than a burst and what has accrued since,   *)
(* whatever the clocks of the workers and the slowdowns; what a clock that *)
(* is behind lets accrue twice is what was put back (apply_acquire).       *)
(***************************************************************************)
THEOREM RateKept == Limiter!Spec => []Limiter!RateHeld
<1>1. Limiter!Init => RateInv
    BY DEF Limiter!Init, RateInv, Taken
<1>2. RateInv /\ [Limiter!Next]_(Limiter!vars) => RateInv'
    BY StepKeepsRate
<1>3. RateInv => Limiter!RateHeld
    <2> SUFFICES ASSUME RateInv PROVE Limiter!RateHeld
        OBVIOUS
    <2> DEFINE y == now + Limiter!Latest - Limiter!Earliest + regained
    <2>0. /\ now \in Nat /\ regained \in Nat /\ calls \in Nat /\ Cardinality(Taken) \in Nat
          /\ Limiter!Earliest \in Int /\ Limiter!Latest \in Int /\ Qps \in Nat /\ Burst \in Nat
        BY TakenFinite, ClocksBounded, LimiterAssumption DEF RateInv
    <2>1. CASE bucket = None
        <3>1. PICK w \in Worker : TRUE
            BY LimiterAssumption
        <3>2. 0 <= y /\ y \in Int
            BY <2>0, <3>1, ClocksBounded
        <3> HIDE DEF y
        <3>3. Qps * 0 <= Qps * y /\ Qps * y \in Int /\ Qps * 0 = 0
            BY <2>0, <3>2, ProductsGrow
        <3>4. calls = 0
            BY <2>1 DEF RateInv
        <3>5. calls <= Burst + Qps * y
            BY <2>0, <3>3, <3>4
        <3> QED
            BY <2>1, <3>5 DEF Limiter!RateHeld, y
    <2>2. CASE bucket # None
        <3> DEFINE x == bucket.stamp - Limiter!Earliest + regained
        <3>1. Holds(bucket, calls + Cardinality(Taken), now, regained)
            BY <2>2 DEF RateInv
        <3>2. bucket.stamp \in Int /\ bucket.tokens \in Int /\ x \in Int /\ y \in Int /\ x <= y
            BY <2>0, <3>1 DEF Holds, AnyBucket
        <3>3. 4 * (calls + Cardinality(Taken)) + bucket.tokens <= 4 * Burst + 4 * (Qps * x)
              /\ 0 <= bucket.tokens /\ bucket.tokens <= Limiter!Capacity(bucket.penalty)
            BY <3>1 DEF Holds
        <3> HIDE DEF x, y
        <3>4. Qps * x \in Int /\ Qps * y \in Int /\ Qps * x <= Qps * y
            BY <2>0, <3>2, ProductsGrow
        <3>5. calls <= Burst + Qps * y
            BY <2>0, <3>2, <3>3, <3>4
        <3> QED
            BY <3>3, <3>5 DEF Limiter!RateHeld, y
    <2> QED
        BY <2>1, <2>2
<1> QED
    BY <1>1, <1>2, <1>3, PTL DEF Limiter!Spec

-----------------------------------------------------------------------------
(* The circuit breaker (Circuit).                                           *)

\* States and calls, whatever the window and the time a breaker stays open.
AnyState == [phase: Breaker!Phase, outcomes: Seq(BOOLEAN), since: Nat, probe: BOOLEAN]

AnyCall == [stage: {"idle", "asking", "calling", "reporting", "writing"},
            seen: AnyState \cup {None}, next: AnyState, allowed: BOOLEAN, failed: BOOLEAN]

\* What is written lets one caller through at most, and takes a mark away only with an outcome.
Decided(k) ==
    /\ k.stage = "asking" =>
          /\ k.next.phase = "half_open" => k.next.probe
          /\ \/ k.allowed /\ Breaker!Known(k.seen).phase = "closed" /\ k.next.phase = "closed"
             \/ k.allowed /\ Breaker!Known(k.seen).phase = "open" /\ k.next.phase = "half_open"
             \/ ~k.allowed /\ Breaker!Known(k.seen).phase = k.next.phase
    /\ k.stage = "writing" =>
          /\ k.next.phase # "half_open"
          /\ Breaker!Known(k.seen).phase = "open" => k.next.phase = "open"

(***************************************************************************)
(* A call is through only in the half-open phase, which is marked as       *)
(* probing; and every write that is prepared keeps it so.                  *)
(***************************************************************************)
ProbeInv ==
    /\ call \in [Caller -> AnyCall]
    /\ \A c \in Caller : Decided(call[c])
    /\ stored \in AnyState \cup {None}
    /\ Breaker!Probed => Breaker!Known(stored).probe
    /\ through \in {0, 1}
    /\ through = 1 => Breaker!Probed

\* Time changes neither the phase of a state nor its mark (opened_at).
LEMMA OlderKeeps ==
    ASSUME None \notin AnyState, NEW s \in AnyState \cup {None}
    PROVE  /\ Breaker!Older(s) \in AnyState \cup {None}
           /\ s # None => Breaker!Older(s) \in AnyState
           /\ Breaker!Known(Breaker!Older(s)).phase = Breaker!Known(s).phase
           /\ Breaker!Known(Breaker!Older(s)).probe = Breaker!Known(s).probe
<1>1. CASE s = None
    BY <1>1 DEF Breaker!Older
<1>2. CASE s # None
    <2>1. s \in AnyState
        BY <1>2
    <2>2. Breaker!Older(s) \in AnyState /\ Breaker!Older(s).phase = s.phase /\ Breaker!Older(s).probe = s.probe
        BY <1>2, <2>1 DEF Breaker!Older, AnyState
    <2> QED
        BY <1>2, <2>1, <2>2 DEF Breaker!Known
<1> QED
    BY <1>1, <1>2

\* What allow makes of a state (admit).
LEMMA AdmitDecides ==
    ASSUME NEW s \in AnyState, s.phase = "half_open" => s.probe
    PROVE  /\ Breaker!Admit(s).state \in AnyState /\ Breaker!Admit(s).allowed \in BOOLEAN
           /\ Breaker!Admit(s).state.phase = "half_open" => Breaker!Admit(s).state.probe
           /\ \/ Breaker!Admit(s).allowed /\ s.phase = "closed" /\ Breaker!Admit(s).state.phase = "closed"
              \/ Breaker!Admit(s).allowed /\ s.phase = "open" /\ Breaker!Admit(s).state.phase = "half_open"
              \/ ~Breaker!Admit(s).allowed /\ s.phase = Breaker!Admit(s).state.phase
<1>1. CASE s.phase = "closed"
    <2>1. Breaker!Admit(s) = [state |-> s, allowed |-> TRUE]
        BY <1>1 DEF Breaker!Admit
    <2> QED
        BY <1>1, <2>1
<1>2. CASE (s.phase = "open" /\ s.since < OpenTicks) \/ s.phase = "half_open"
    <2>1. Breaker!Admit(s) = [state |-> s, allowed |-> FALSE]
        BY <1>2 DEF Breaker!Admit
    <2> QED
        BY <1>2, <2>1
<1>3. CASE s.phase = "open" /\ ~(s.since < OpenTicks)
    <2>1. Breaker!Admit(s) = [state |-> Breaker!Probing(s), allowed |-> TRUE]
        BY <1>3 DEF Breaker!Admit
    <2>2. Breaker!Probing(s) \in AnyState /\ Breaker!Probing(s).phase = "half_open" /\ Breaker!Probing(s).probe = TRUE
        BY DEF Breaker!Probing, AnyState, Breaker!Phase
    <2> QED
        BY <1>3, <2>1, <2>2
<1> QED
    BY <1>1, <1>2, <1>3 DEF AnyState, Breaker!Phase

\* The window of outcomes is a sequence again (observe).
LEMMA WindowTyped ==
    ASSUME Samples \in Nat, NEW last \in Seq(BOOLEAN)
    PROVE  SubSeq(last, Len(last) - (IF Len(last) > Samples THEN Samples ELSE Len(last)) + 1, Len(last))
             \in Seq(BOOLEAN)
<1> DEFINE first == Len(last) - (IF Len(last) > Samples THEN Samples ELSE Len(last)) + 1
<1>1. Len(last) \in Nat /\ first \in 1..(Len(last) + 1)
    <2>1. ASSUME NEW n \in Nat
          PROVE  n - (IF n > Samples THEN Samples ELSE n) + 1 \in 1..(n + 1)
        OBVIOUS
    <2> QED
        BY <2>1, LenProperties
<1> HIDE DEF first
<1>2. \A i \in first..Len(last) : i \in 1..Len(last)
    BY <1>1
<1> QED
    BY <1>1, <1>2, SubSeqProperties DEF first

\* What record makes of a state is never half-open, and leaves an open one alone (observe).
LEMMA ObserveDecides ==
    ASSUME Samples \in Nat, NEW s \in AnyState, NEW failed \in BOOLEAN
    PROVE  /\ Breaker!Observe(s, failed) \in AnyState
           /\ Breaker!Observe(s, failed).phase # "half_open"
           /\ s.phase = "open" => Breaker!Observe(s, failed).phase = "open"
<1>1. ASSUME NEW o \in Seq(BOOLEAN)
      PROVE  /\ Breaker!Opened(o) \in AnyState /\ Breaker!Opened(o).phase = "open"
             /\ [Breaker!Fresh EXCEPT !.outcomes = o] \in AnyState
             /\ [Breaker!Fresh EXCEPT !.outcomes = o].phase = "closed"
    BY DEF Breaker!Opened, Breaker!Fresh, AnyState, Breaker!Phase
<1>2. Breaker!Fresh \in AnyState /\ Breaker!Fresh.phase = "closed"
    BY DEF Breaker!Fresh, AnyState, Breaker!Phase
<1>3. CASE s.phase = "half_open"
    <2>1. Breaker!Observe(s, failed) \in {Breaker!Opened(s.outcomes), Breaker!Fresh} /\ s.outcomes \in Seq(BOOLEAN)
        BY <1>3 DEF Breaker!Observe, Breaker!AfterProbe, AnyState
    <2> QED
        BY <1>1, <1>2, <1>3, <2>1
<1>4. CASE s.phase = "open"
    <2>1. Breaker!Observe(s, failed) = s
        BY <1>4 DEF Breaker!Observe
    <2> QED
        BY <1>4, <2>1
<1>5. CASE s.phase = "closed"
    <2> DEFINE last == Append(s.outcomes, failed)
               o == SubSeq(last, Len(last) - (IF Len(last) > Samples THEN Samples
                                            ELSE Len(last)) + 1, Len(last))
    <2>1. last \in Seq(BOOLEAN)
        BY DEF AnyState
    <2>2. o \in Seq(BOOLEAN)
        BY <2>1, WindowTyped
    <2>3. Breaker!Observe(s, failed) \in {Breaker!Opened(o), [Breaker!Fresh EXCEPT !.outcomes = o]}
        BY <1>5 DEF Breaker!Observe
    <2> HIDE DEF o
    <2> QED
        BY <1>1, <1>5, <2>2, <2>3
<1> QED
    BY <1>3, <1>4, <1>5 DEF AnyState, Breaker!Phase

\* A call that changes alone keeps the others as they are.
LEMMA OneCallChanges ==
    ASSUME ProbeInv, NEW c \in Caller, NEW k \in AnyCall, Decided(k),
           call' = [call EXCEPT ![c] = k]
    PROVE  call' \in [Caller -> AnyCall] /\ \A d \in Caller : Decided(call'[d])
BY DEF ProbeInv

\* A caller that is done, or has been let through, prepares no write.
LEMMA IdleIsCall == /\ Breaker!Idle \in AnyCall /\ Decided(Breaker!Idle)
                    /\ [Breaker!Idle EXCEPT !.stage = "calling"] \in AnyCall
                    /\ Decided([Breaker!Idle EXCEPT !.stage = "calling"])
<1> DEFINE calling == [Breaker!Idle EXCEPT !.stage = "calling"]
<1>1. Breaker!Fresh \in AnyState
    BY DEF Breaker!Fresh, AnyState, Breaker!Phase
<1>2. Breaker!Idle \in AnyCall /\ Breaker!Idle.stage = "idle"
    BY <1>1 DEF Breaker!Idle, AnyCall
<1>3. calling \in AnyCall /\ calling.stage = "calling"
    BY <1>2 DEF AnyCall
<1> HIDE DEF calling
<1>4. Decided(calling) /\ Decided(Breaker!Idle)
    BY <1>2, <1>3 DEF Decided
<1> QED
    BY <1>2, <1>3, <1>4 DEF calling

\* Asking and reporting only prepare a write (allow, record).
LEMMA AskKeeps ==
    ASSUME None \notin AnyState, Samples \in Nat, ProbeInv, NEW c \in Caller,
           Breaker!Ask(c) \/ Breaker!Report(c)
    PROVE  ProbeInv'
<1> DEFINE here == Breaker!Known(stored)
<1>0. here \in AnyState /\ (here.phase = "half_open" => here.probe) /\ call[c] \in AnyCall
    <2>1. Breaker!Fresh \in AnyState /\ Breaker!Fresh.phase # "half_open"
        BY DEF Breaker!Fresh, AnyState, Breaker!Phase
    <2> QED
        BY <2>1 DEF ProbeInv, Breaker!Probed, Breaker!Known
<1>1. CASE Breaker!Ask(c)
    <2> DEFINE k == [stage |-> "asking", seen |-> stored, next |-> Breaker!Admit(here).state,
                     allowed |-> Breaker!Admit(here).allowed, failed |-> FALSE]
    <2>1. call' = [call EXCEPT ![c] = k] /\ UNCHANGED <<stored, through>>
        BY <1>1 DEF Breaker!Ask
    <2>2. /\ Breaker!Admit(here).state \in AnyState /\ Breaker!Admit(here).allowed \in BOOLEAN
          /\ Breaker!Admit(here).state.phase = "half_open" => Breaker!Admit(here).state.probe
          /\ \/ Breaker!Admit(here).allowed /\ here.phase = "closed" /\ Breaker!Admit(here).state.phase = "closed"
             \/ Breaker!Admit(here).allowed /\ here.phase = "open" /\ Breaker!Admit(here).state.phase = "half_open"
             \/ ~Breaker!Admit(here).allowed /\ here.phase = Breaker!Admit(here).state.phase
        BY <1>0, AdmitDecides
    <2>3. k \in AnyCall
        BY <2>2 DEF AnyCall, ProbeInv
    <2>4. Decided(k)
        BY <2>2 DEF Decided
    <2> HIDE DEF k
    <2> QED
        BY <2>1, <2>3, <2>4, OneCallChanges DEF ProbeInv, Breaker!Probed
<1>2. CASE Breaker!Report(c)
    <2> DEFINE n == Breaker!Observe(here, call[c].failed)
               k == [call[c] EXCEPT !.stage = "writing", !.seen = stored, !.next = n]
    <2>1. /\ call' = [call EXCEPT ![c].stage = "writing", ![c].seen = stored, ![c].next = n]
          /\ UNCHANGED <<stored, through>>
        BY <1>2 DEF Breaker!Report
    <2>2. call' = [call EXCEPT ![c] = k]
        BY <2>1 DEF ProbeInv
    <2>3. n \in AnyState /\ n.phase # "half_open" /\ (here.phase = "open" => n.phase = "open")
        BY <1>0, ObserveDecides DEF AnyCall
    <2> HIDE DEF n
    <2>4. k \in AnyCall /\ k.stage = "writing" /\ k.seen = stored /\ k.next = n
        BY <1>0, <2>3 DEF AnyCall, ProbeInv
    <2>5. Decided(k)
        BY <2>3, <2>4 DEF Decided
    <2> HIDE DEF k
    <2> QED
        BY <2>1, <2>2, <2>4, <2>5, OneCallChanges DEF ProbeInv, Breaker!Probed
<1> QED
    BY <1>1, <1>2

\* A write is made only over the state it was decided on (compare_set).
LEMMA WriteKeeps ==
    ASSUME None \notin AnyState, ProbeInv, NEW c \in Caller, Breaker!Answered(c) \/ Breaker!Reported(c)
    PROVE  ProbeInv'
<1>0. /\ call[c] \in AnyCall /\ Decided(call[c]) /\ call[c].next \in AnyState
      /\ stored' = call[c].next /\ stored = call[c].seen /\ stored' # None
    BY DEF ProbeInv, AnyCall, Breaker!Answered, Breaker!Reported, Breaker!Write
<1>1. Breaker!Known(stored') = call[c].next
    BY <1>0 DEF Breaker!Known
<1>2. call' \in [Caller -> AnyCall] /\ \A d \in Caller : Decided(call'[d])
    <2>1. \/ call' = [call EXCEPT ![c] = Breaker!Idle]
          \/ call' = [call EXCEPT ![c] = [Breaker!Idle EXCEPT !.stage = "calling"]]
        BY DEF Breaker!Answered, Breaker!Reported
    <2> QED
        BY <2>1, IdleIsCall, OneCallChanges
<1>3. CASE Breaker!Answered(c)
    <2>1. /\ call[c].stage = "asking"
          /\ through' = IF call[c].allowed /\ stored'.phase # "closed" THEN through + 1 ELSE through
        BY <1>3 DEF Breaker!Answered
    <2>2. through = 1 => Breaker!Known(stored).phase = "half_open"
        BY DEF ProbeInv, Breaker!Probed
    <2>3. through' \in {0, 1} /\ (through' = 1 => Breaker!Known(stored').phase = "half_open")
        BY <1>0, <1>1, <2>1, <2>2 DEF Decided, ProbeInv
    <2>4. Breaker!Known(stored').phase = "half_open" => Breaker!Known(stored').probe
        BY <1>0, <1>1, <2>1 DEF Decided
    <2> QED
        BY <1>0, <1>2, <2>3, <2>4 DEF ProbeInv, Breaker!Probed
<1>4. CASE Breaker!Reported(c)
    <2>1. /\ call[c].stage = "writing"
          /\ through' = IF Breaker!Known(stored).phase = "open" THEN through ELSE 0
        BY <1>0, <1>4 DEF Breaker!Reported
    <2>2. Breaker!Known(stored').phase # "half_open"
        BY <1>0, <1>1, <2>1 DEF Decided
    <2>3. through' = 0
        BY <2>1 DEF ProbeInv, Breaker!Probed
    <2> QED
        BY <1>0, <1>2, <2>2, <2>3 DEF ProbeInv, Breaker!Probed
<1> QED
    BY <1>3, <1>4

\* Copies grow old with the state, and an expired state lets everybody start anew.
LEMMA TickKeeps ==
    ASSUME None \notin AnyState, ProbeInv, Breaker!Tick
    PROVE  ProbeInv'
<1>1. ASSUME NEW c \in Caller
      PROVE  call'[c] \in AnyCall /\ Decided(call'[c])
    <2> DEFINE k == call[c]
    <2>1. /\ k \in AnyCall /\ k.seen \in AnyState \cup {None} /\ k.next \in AnyState
          /\ Decided(k) /\ k.next # None
        BY DEF ProbeInv, AnyCall
    <2>2. /\ Breaker!Older(k.seen) \in AnyState \cup {None}
          /\ Breaker!Known(Breaker!Older(k.seen)).phase = Breaker!Known(k.seen).phase
        BY <2>1, OlderKeeps
    <2>3. /\ Breaker!Older(k.next) \in AnyState
          /\ Breaker!Known(Breaker!Older(k.next)) = Breaker!Older(k.next) /\ Breaker!Known(k.next) = k.next
        BY <2>1, OlderKeeps DEF Breaker!Known
    <2>4. Breaker!Older(k.next).phase = k.next.phase /\ Breaker!Older(k.next).probe = k.next.probe
        BY <2>1, <2>3, OlderKeeps
    <2>5. call'[c] = [k EXCEPT !.seen = Breaker!Older(k.seen), !.next = Breaker!Older(k.next)]
        BY DEF Breaker!Tick
    <2>6. /\ call'[c] \in AnyCall /\ call'[c].seen = Breaker!Older(k.seen)
          /\ call'[c].next = Breaker!Older(k.next) /\ call'[c].stage = k.stage
          /\ call'[c].allowed = k.allowed
        BY <2>1, <2>2, <2>3, <2>5 DEF AnyCall
    <2> QED
        BY <2>1, <2>2, <2>4, <2>6 DEF Decided
<1>2. call' \in [Caller -> AnyCall]
    BY <1>1 DEF Breaker!Tick
<1>3. CASE stored' = None /\ through' = 0
    <2>1. Breaker!Known(stored').phase = "closed"
        BY <1>3 DEF Breaker!Known, Breaker!Fresh
    <2> QED
        BY <1>1, <1>2, <1>3, <2>1 DEF ProbeInv, Breaker!Probed
<1>4. CASE stored' = Breaker!Older(stored) /\ through' = through
    <2>1. /\ stored' \in AnyState \cup {None}
          /\ Breaker!Known(stored').phase = Breaker!Known(stored).phase
          /\ Breaker!Known(stored').probe = Breaker!Known(stored).probe
        BY <1>4, OlderKeeps DEF ProbeInv
    <2> QED
        BY <1>1, <1>2, <1>4, <2>1 DEF ProbeInv, Breaker!Probed
<1> QED
    BY <1>3, <1>4 DEF Breaker!Tick

(***************************************************************************)
(* While the platform is cut off at most one call is through until an      *)
(* outcome is known, for any number of callers that ask, report, die or    *)
(* lose their answers at the same time (admit, compare_set).               *)
(***************************************************************************)
THEOREM OneProbe == Breaker!Spec => []Breaker!OneProbeAtATime
<1>0. None \notin AnyState /\ Samples \in Nat
    BY BreakerAssumption DEF AnyState, Breaker!Phase
<1>1. Breaker!Init => ProbeInv
    BY IdleIsCall DEF Breaker!Init, ProbeInv, Breaker!Probed, Breaker!Known, Breaker!Fresh
<1>2. ProbeInv /\ [Breaker!Next]_(Breaker!vars) => ProbeInv'
    <2> SUFFICES ASSUME ProbeInv, [Breaker!Next]_(Breaker!vars) PROVE ProbeInv'
        OBVIOUS
    <2>1. ASSUME NEW c \in Caller, NEW failed \in BOOLEAN, Breaker!Outcome(c, failed)
          PROVE  ProbeInv'
        <3> DEFINE k == [call[c] EXCEPT !.stage = "reporting", !.failed = failed]
        <3>1. k \in AnyCall /\ k.stage = "reporting"
            BY DEF ProbeInv, AnyCall
        <3>2. Decided(k)
            BY <3>1 DEF Decided
        <3>3. call' = [call EXCEPT ![c] = k] /\ UNCHANGED <<stored, through>>
            BY <2>1 DEF Breaker!Outcome, ProbeInv
        <3> HIDE DEF k
        <3> QED
            BY <3>1, <3>2, <3>3, OneCallChanges DEF ProbeInv, Breaker!Probed
    <2>2. ASSUME NEW c \in Caller, Breaker!Silent(c)
          PROVE  ProbeInv'
        BY <2>2, IdleIsCall, OneCallChanges DEF Breaker!Silent, ProbeInv, Breaker!Probed
    <2>3. CASE UNCHANGED Breaker!vars
        BY <2>3 DEF Breaker!vars, ProbeInv, Breaker!Probed
    <2> QED
        BY <1>0, <2>1, <2>2, <2>3, AskKeeps, WriteKeeps, TickKeeps DEF Breaker!Next
<1>3. ProbeInv => Breaker!OneProbeAtATime
    BY DEF ProbeInv, Breaker!OneProbeAtATime
<1> QED
    BY <1>1, <1>2, <1>3, PTL DEF Breaker!Spec

-----------------------------------------------------------------------------
(* The cursor of the orders (SyncCursor).                                   *)

\* What a row and a run are, without the bounds of the instances.
AnyPlace == Nat \X Nat

AnyRow == [at: Nat \cup {None}, token: AnyPlace \cup {None},
           since: Int \cup {None}, until: Nat \cup {None}]

AnyRun == [stage: Cursor!Stage, row: AnyRow \cup {None},
           since: Int, until: Nat, token: AnyPlace \cup {None}, pages: Nat,
           found: [Cursor!Order -> Nat \cup {None}]]

Limits ==
    /\ Orders \in Nat /\ Overlap \in Nat /\ Late \in Nat /\ Late <= Overlap
    /\ None \notin Int /\ None \notin AnyPlace /\ None \notin AnyRow

\* A change of the order that is listed well before the time.
Behind(c, o, t) == c[o] # None /\ c[o] + Late < t

\* A window starts early enough for what the shop has.
Reaches(since, at) == since <= 0 \/ (at # None /\ since <= at - Overlap)

\* What a row claims of the changes c and the stored versions g: all that is behind its mark is
\* stored, and all of its open window that is not after its place.
RowTells(r, c, g) ==
    /\ r.at # None => \A o \in Cursor!Order : Behind(c, o, r.at) => g[o] = c[o]
    /\ r.token # None =>
          /\ r.since # None /\ r.until # None /\ Reaches(r.since, r.at)
          /\ \A o \in Cursor!Order :
                Behind(c, o, r.until) /\ c[o] >= r.since /\ ~Cursor!Before(r.token, <<c[o], o>>)
                  => g[o] = c[o]

\* A run is past an order when it has read to the end, or a place that the order is not after.
Past(r, c, o) == IF r.token = None THEN r.stage \in {"pulled", "saving"} ELSE ~Cursor!Before(r.token, <<c[o], o>>)

At(r) == IF r = None THEN None ELSE r.at

\* What a run claims, of a shop whose mark is at the time m.
RunTells(r, c, g, m) ==
    /\ Reaches(r.since, m)
    /\ \A o \in Cursor!Order : Behind(c, o, r.until) /\ c[o] >= r.since /\ Past(r, c, o)
                          => g[o] = c[o] \/ r.found[o] = c[o]

InTime(r) == (r.at # None => r.at <= clock) /\ (r.until # None => r.until <= clock)

TypesInv ==
    /\ clock \in Nat
    /\ changed \in [Cursor!Order -> Nat \cup {None}]
    /\ got \in [Cursor!Order -> Nat \cup {None}]
    /\ listed \subseteq Cursor!Order
    /\ cursorRow \in AnyRow \cup {None}
    /\ run \in [Puller -> AnyRun]

(***************************************************************************)
(* A change is listed in time; nobody has seen a change that was not made; *)
(* and no window ends in the future.                                       *)
(***************************************************************************)
TimesInv ==
    /\ \A o \in Cursor!Order :
          /\ changed[o] # None =>
                /\ changed[o] <= clock
                /\ o \notin listed => clock <= changed[o] + Late
          /\ got[o] # None => changed[o] # None /\ got[o] <= changed[o]
    /\ cursorRow # None => InTime(cursorRow)
    /\ \A p \in Puller :
          /\ run[p].until <= clock
          /\ run[p].row # None => cursorRow # None /\ InTime(run[p].row)
          /\ \A o \in Cursor!Order :
                run[p].found[o] # None => changed[o] # None /\ run[p].found[o] <= changed[o]

TellsInv ==
    ~crossed => /\ cursorRow # None => RowTells(cursorRow, changed, got)
                /\ \A p \in Puller : RunTells(run[p], changed, got, At(cursorRow))

CursorInv == TypesInv /\ TimesInv /\ TellsInv

\* Whatever was behind the time n and stored stays so.
Keeps(c, g, c2, g2, n) ==
    \A o \in Cursor!Order, t \in 0..n :
        Behind(c2, o, t) => c2[o] = c[o] /\ (g[o] = c[o] => g2[o] = c[o])

LEMMA RowKept ==
    ASSUME Limits, NEW c, NEW g, NEW c2, NEW g2, NEW n \in Nat, Keeps(c, g, c2, g2, n),
           NEW r \in AnyRow, r.at # None => r.at <= n, r.until # None => r.until <= n,
           RowTells(r, c, g)
    PROVE  RowTells(r, c2, g2)
<1>1. ASSUME r.at # None, NEW o \in Cursor!Order, Behind(c2, o, r.at)
      PROVE  g2[o] = c2[o]
    <2>1. r.at \in 0..n
        BY <1>1 DEF AnyRow
    <2>2. c2[o] = c[o] /\ (g[o] = c[o] => g2[o] = c[o])
        BY <1>1, <2>1 DEF Keeps
    <2>3. Behind(c, o, r.at)
        BY <1>1, <2>2 DEF Behind
    <2> QED
        BY <1>1, <2>2, <2>3 DEF RowTells
<1>2. ASSUME r.token # None
      PROVE  r.since # None /\ r.until # None /\ Reaches(r.since, r.at)
    BY <1>2 DEF RowTells
<1>3. ASSUME r.token # None, NEW o \in Cursor!Order, Behind(c2, o, r.until), c2[o] >= r.since,
             ~Cursor!Before(r.token, <<c2[o], o>>)
      PROVE  g2[o] = c2[o]
    <2>1. r.until \in 0..n
        BY <1>2, <1>3 DEF AnyRow
    <2>2. c2[o] = c[o] /\ (g[o] = c[o] => g2[o] = c[o])
        BY <1>3, <2>1 DEF Keeps
    <2>3. Behind(c, o, r.until) /\ c[o] >= r.since /\ ~Cursor!Before(r.token, <<c[o], o>>)
        BY <1>3, <2>2 DEF Behind
    <2> QED
        BY <1>3, <2>2, <2>3 DEF RowTells
<1> QED
    BY <1>1, <1>2, <1>3 DEF RowTells

LEMMA RunKept ==
    ASSUME Limits, NEW c, NEW g, NEW c2, NEW g2, NEW n \in Nat, Keeps(c, g, c2, g2, n),
           NEW m \in Nat \cup {None}, NEW m2 \in Nat \cup {None}, m # None => m2 # None /\ m <= m2,
           NEW r \in AnyRun, r.until <= n, RunTells(r, c, g, m)
    PROVE  RunTells(r, c2, g2, m2)
<1>1. ASSUME NEW o \in Cursor!Order, Behind(c2, o, r.until), c2[o] >= r.since, Past(r, c2, o)
      PROVE  g2[o] = c2[o] \/ r.found[o] = c2[o]
    <2>1. r.until \in 0..n
        BY DEF AnyRun
    <2>2. c2[o] = c[o] /\ (g[o] = c[o] => g2[o] = c[o])
        BY <1>1, <2>1 DEF Keeps
    <2>3. Behind(c, o, r.until) /\ c[o] >= r.since /\ Past(r, c, o)
        BY <1>1, <2>2 DEF Behind, Past
    <2> QED
        BY <2>2, <2>3 DEF RunTells
<1>2. Reaches(r.since, m2)
    BY DEF RunTells, Reaches, AnyRun, Limits
<1> QED
    BY <1>1, <1>2 DEF RunTells

\* The next page is that of the first order of the rest (pull_order_pages).
LEMMA FirstOfRest ==
    ASSUME Limits, TypesInv, NEW next \in SUBSET Cursor!Order, next # {},
           \A q \in next : changed[q] # None
    PROVE  \E o \in next : \A q \in next :
               q = o \/ Cursor!Before(<<changed[o], o>>, <<changed[q], q>>)
<1> DEFINE times == {changed[q] : q \in next}
<1>1. times \subseteq Nat /\ times # {}
    BY DEF TypesInv
<1>2. PICK t \in times : \A u \in times : t <= u
    <2> HIDE DEF times
    <2> QED
        BY <1>1, LeastNumber
<1> DEFINE firsts == {q \in next : changed[q] = t}
<1>3. firsts \subseteq Nat /\ firsts # {}
    <2>1. firsts # {}
        BY <1>2
    <2>2. Cursor!Order \subseteq Nat
        BY DEF Cursor!Order, Limits
    <2> QED
        BY <2>1, <2>2
<1>4. PICK o \in firsts : \A q \in firsts : o <= q
    <2> HIDE DEF firsts
    <2> QED
        BY <1>3, LeastNumber
<1>5. ASSUME NEW q \in next
      PROVE  q = o \/ Cursor!Before(<<changed[o], o>>, <<changed[q], q>>)
    <2>1. o \in next /\ changed[o] = t /\ t \in Nat /\ changed[q] \in Nat /\ t <= changed[q]
        BY <1>1, <1>2
    <2>2. changed[q] = t => o <= q
        BY <1>4
    <2>3. o \in Nat /\ q \in Nat
        <3>1. o \in Cursor!Order /\ q \in Cursor!Order
            BY <2>1
        <3> QED
            BY <3>1 DEF Cursor!Order
    <2> QED
        BY <2>1, <2>2, <2>3 DEF Cursor!Before
<1> QED
    BY <1>5

\* The time goes on and orders change, but nothing that was behind a window comes back.
LEMMA PlatformKeeps ==
    ASSUME Limits, CursorInv, (\E o \in Cursor!Order : Cursor!Change(o) \/ Cursor!List(o)) \/ Cursor!Tick
    PROVE  CursorInv'
<1>1. UNCHANGED <<got, cursorRow, run, crossed>> /\ clock' \in Nat /\ clock <= clock'
    BY DEF Cursor!Change, Cursor!List, Cursor!Tick, CursorInv, TypesInv
<1>2. TypesInv' /\ TimesInv' /\ Keeps(changed, got, changed', got', clock)
    <2>1. ASSUME NEW o \in Cursor!Order, Cursor!Change(o)
          PROVE  TypesInv' /\ TimesInv' /\ Keeps(changed, got, changed', got', clock)
        <3>1. /\ changed' = [changed EXCEPT ![o] = clock] /\ listed' = listed \ {o}
              /\ clock' = clock
            BY <2>1 DEF Cursor!Change
        <3>2. TypesInv'
            BY <1>1, <3>1 DEF CursorInv, TypesInv
        <3>3. ASSUME NEW q \in Cursor!Order
              PROVE  /\ q = o => changed'[q] = clock
                     /\ q # o => changed'[q] = changed[q]
            BY <3>1 DEF CursorInv, TypesInv
        <3>4. clock # None
            BY DEF Limits, CursorInv, TypesInv
        <3>5. TimesInv'
            BY <1>1, <3>1, <3>3, <3>4 DEF CursorInv, TypesInv, TimesInv, InTime, Limits, AnyRun
        <3>6. Keeps(changed, got, changed', got', clock)
            BY <1>1, <3>3, <3>4 DEF Keeps, Behind, Limits, CursorInv, TypesInv
        <3> QED
            BY <3>2, <3>5, <3>6
    <2>2. ASSUME NEW o \in Cursor!Order, Cursor!List(o)
          PROVE  TypesInv' /\ TimesInv' /\ Keeps(changed, got, changed', got', clock)
        <3>1. changed' = changed /\ listed' = listed \cup {o} /\ clock' = clock
            BY <2>2 DEF Cursor!List
        <3> QED
            BY <1>1, <3>1 DEF CursorInv, TypesInv, TimesInv, InTime, Keeps
    <2>3. CASE Cursor!Tick
        <3>1. /\ changed' = changed /\ listed' = listed /\ clock' = clock + 1
              /\ \A o \in Cursor!Order \ listed : changed[o] # None => clock < changed[o] + Late
            BY <2>3 DEF Cursor!Tick
        <3>2. TypesInv'
            BY <1>1, <3>1 DEF CursorInv, TypesInv
        <3>3. ASSUME NEW o \in Cursor!Order, changed[o] # None
              PROVE  /\ changed[o] <= clock'
                     /\ o \notin listed => clock' <= changed[o] + Late
            BY <3>1, <3>3 DEF CursorInv, TypesInv, TimesInv, Limits
        <3>4. ASSUME NEW r, r \in AnyRow, InTime(r)
              PROVE  (r.at # None => r.at <= clock') /\ (r.until # None => r.until <= clock')
            BY <3>1, <3>4 DEF InTime, AnyRow, CursorInv, TypesInv
        <3>5. TimesInv'
            BY <1>1, <3>1, <3>3, <3>4 DEF CursorInv, TypesInv, TimesInv, InTime, AnyRun
        <3> QED
            BY <1>1, <3>1, <3>2, <3>5 DEF Keeps
    <2> QED
        BY <2>1, <2>2, <2>3
<1>3. TellsInv'
    <2> SUFFICES ASSUME ~crossed PROVE TellsInv'
        BY <1>1 DEF TellsInv
    <2>1. cursorRow # None => RowTells(cursorRow, changed', got')
        BY <1>2, RowKept DEF CursorInv, TypesInv, TimesInv, TellsInv, InTime
    <2>2. ASSUME NEW p \in Puller
          PROVE  RunTells(run[p], changed', got', At(cursorRow))
        <3>1. At(cursorRow) \in Nat \cup {None}
            BY DEF At, CursorInv, TypesInv, AnyRow
        <3>2. At(cursorRow) # None => At(cursorRow) <= At(cursorRow)
            BY <3>1
        <3>3. run[p] \in AnyRun /\ run[p].until <= clock /\ clock \in Nat
            BY DEF CursorInv, TypesInv, TimesInv
        <3>4. RunTells(run[p], changed, got, At(cursorRow))
            BY DEF CursorInv, TellsInv
        <3> HIDE DEF CursorInv
        <3> QED
            BY <1>2, <3>1, <3>2, <3>3, <3>4, RunKept
    <2> QED
        BY <1>1, <2>1, <2>2 DEF TellsInv
<1> QED
    BY <1>2, <1>3 DEF CursorInv

\* A run that goes on without storing anything leaves the rest as it is.
LEMMA OneRun ==
    ASSUME CursorInv, NEW p \in Puller, NEW r \in AnyRun,
           run' = [run EXCEPT ![p] = r], UNCHANGED <<clock, changed, listed, got, cursorRow, crossed>>,
           r.until <= clock, r.row # None => cursorRow # None /\ InTime(r.row),
           \A o \in Cursor!Order : r.found[o] # None => changed[o] # None /\ r.found[o] <= changed[o],
           ~crossed => RunTells(r, changed, got, At(cursorRow))
    PROVE  CursorInv'
<1>1. ASSUME NEW q \in Puller
      PROVE  run'[q] = IF q = p THEN r ELSE run[q]
    BY DEF CursorInv, TypesInv
<1>2. TypesInv'
    BY DEF CursorInv, TypesInv
<1>3. TimesInv'
    BY <1>1 DEF CursorInv, TimesInv, InTime
<1>4. TellsInv'
    BY <1>1 DEF CursorInv, TellsInv
<1> QED
    BY <1>2, <1>3, <1>4 DEF CursorInv

\* A run that is over claims nothing.
LEMMA IdleTells ==
    ASSUME Limits
    PROVE  /\ Cursor!Idle \in AnyRun /\ Cursor!Idle.until = 0 /\ Cursor!Idle.row = None /\ Cursor!Idle.token = None
           /\ Cursor!Idle.stage = "idle" /\ Cursor!Idle.since = 0 /\ Cursor!Idle.pages = 0
           /\ \A o \in Cursor!Order : Cursor!Idle.found[o] = None
           /\ \A c, g, m : RunTells(Cursor!Idle, c, g, m)
<1>1. /\ Cursor!Idle \in AnyRun /\ Cursor!Idle.until = 0 /\ Cursor!Idle.row = None /\ Cursor!Idle.token = None
      /\ Cursor!Idle.stage = "idle" /\ Cursor!Idle.since = 0 /\ Cursor!Idle.pages = 0
      /\ \A o \in Cursor!Order : Cursor!Idle.found[o] = None
    BY DEF Cursor!Idle, AnyRun, Cursor!Nothing, Cursor!Stage
<1>2. \A c, g, m : RunTells(Cursor!Idle, c, g, m)
    BY <1>1 DEF RunTells, Reaches, At, Past
<1> QED
    BY <1>1, <1>2

\* A run that stops or dies has stored nothing.
LEMMA StopKeeps ==
    ASSUME Limits, CursorInv, NEW p \in Puller, Cursor!PageFails(p) \/ Cursor!Crash(p)
    PROVE  CursorInv'
<1>0. 0 <= clock
    BY DEF CursorInv, TypesInv
<1>1. CASE Cursor!Crash(p)
    BY <1>0, <1>1, IdleTells, OneRun DEF Cursor!Crash
<1>2. CASE Cursor!PageFails(p)
    <2> DEFINE r == [run[p] EXCEPT !.stage = "failed"]
    <2>1. /\ r \in AnyRun /\ r.until = run[p].until /\ r.row = run[p].row /\ r.since = run[p].since
          /\ r.token = run[p].token /\ r.found = run[p].found /\ r.stage = "failed"
        BY DEF CursorInv, TypesInv, AnyRun, Cursor!Stage
    <2>2. run' = [run EXCEPT ![p] = r] /\ UNCHANGED <<clock, changed, listed, got, cursorRow, crossed>>
        BY <1>2 DEF Cursor!PageFails, CursorInv, TypesInv
    <2> HIDE DEF r
    <2>3. ~crossed => RunTells(r, changed, got, At(cursorRow))
        BY <2>1 DEF CursorInv, TellsInv, RunTells, Past
    <2>4. /\ r.until <= clock /\ (r.row # None => cursorRow # None /\ InTime(r.row))
          /\ \A o \in Cursor!Order : r.found[o] # None => changed[o] # None /\ r.found[o] <= changed[o]
        BY <2>1 DEF CursorInv, TimesInv
    <2> QED
        BY <2>1, <2>2, <2>3, <2>4, OneRun
<1> QED
    BY <1>1, <1>2

\* A run takes its window from a row that tells the truth (_window).
LEMMA StartKeeps ==
    ASSUME Limits, CursorInv, NEW p \in Puller, Cursor!Start(p)
    PROVE  CursorInv'
<1> DEFINE resumes == cursorRow # None /\ None \notin {cursorRow.token, cursorRow.since, cursorRow.until}
           first == cursorRow = None \/ cursorRow.at = None
           since == IF resumes THEN cursorRow.since ELSE IF first THEN 0 ELSE Cursor!Since(cursorRow)
           until == IF resumes THEN cursorRow.until ELSE clock
           token == IF resumes THEN cursorRow.token ELSE None
           r == [Cursor!Idle EXCEPT !.stage = "pulling", !.since = since,
                             !.until = until, !.token = token]
<1>1. run' = [run EXCEPT ![p] = r] /\ UNCHANGED <<clock, changed, listed, got, cursorRow, crossed>>
    BY DEF Cursor!Start
<1>2. cursorRow \in AnyRow \cup {None} /\ clock \in Nat
    BY DEF CursorInv, TypesInv
<1>3. since \in Int /\ until \in Nat /\ token \in AnyPlace \cup {None} /\ until <= clock
    <2>1. CASE resumes
        BY <1>2, <2>1 DEF AnyRow, CursorInv, TimesInv, InTime
    <2>2. CASE ~resumes
        BY <1>2, <2>2 DEF AnyRow, Cursor!Since, Limits
    <2> QED
        BY <2>1, <2>2
<1>4. ~crossed => Reaches(since, At(cursorRow))
    <2>1. CASE resumes
        BY <2>1 DEF CursorInv, TellsInv, RowTells, At
    <2>2. CASE ~resumes /\ (cursorRow = None \/ cursorRow.at = None)
        BY <2>2 DEF Reaches
    <2>3. CASE ~resumes /\ cursorRow # None /\ cursorRow.at # None
        BY <1>2, <2>3 DEF Reaches, At, Cursor!Since, AnyRow, Limits
    <2> QED
        BY <2>1, <2>2, <2>3
<1>5. ASSUME ~crossed, token # None, NEW o \in Cursor!Order, Behind(changed, o, until),
             changed[o] >= since, ~Cursor!Before(token, <<changed[o], o>>)
      PROVE  got[o] = changed[o]
    <2>1. resumes
        BY <1>5
    <2> QED
        BY <1>5, <2>1 DEF CursorInv, TellsInv, RowTells
<1> HIDE DEF since, until, token
<1>6. /\ r \in AnyRun /\ r.stage = "pulling" /\ r.row = None /\ r.since = since
      /\ r.until = until /\ r.token = token /\ r.found = Cursor!Idle.found
    BY <1>2, <1>3, IdleTells DEF AnyRun, Cursor!Stage
<1> HIDE DEF r
<1>7. ~crossed => RunTells(r, changed, got, At(cursorRow))
    BY <1>4, <1>5, <1>6 DEF RunTells, Past
<1> QED
    BY <1>1, <1>3, <1>6, <1>7, IdleTells, OneRun

\* Everything behind the end of a window is listed by the time the run reads it (Late).
LEMMA BehindIsListed ==
    ASSUME Limits, CursorInv, NEW o \in Cursor!Order, NEW t \in Nat, t <= clock, Behind(changed, o, t)
    PROVE  o \in listed /\ changed[o] \in Nat /\ changed[o] <= t
BY DEF Limits, CursorInv, TypesInv, TimesInv, Behind

(***************************************************************************)
(* A page takes the first order after the place; whatever of the window is *)
(* not after the new place was not after the old one, or is on the page    *)
(* (pull_order_pages).                                                     *)
(***************************************************************************)
LEMMA PageKeeps ==
    ASSUME Limits, CursorInv, NEW p \in Puller, Cursor!Page(p)
    PROVE  CursorInv'
<1> DEFINE old == run[p]
           next == Cursor!Listing(old.since, old.until, old.token)
<1>1. /\ old \in AnyRun /\ old.until <= clock /\ old.stage = "pulling"
      /\ (old.row # None => cursorRow # None /\ InTime(old.row))
      /\ \A q \in Cursor!Order :
            old.found[q] # None => changed[q] # None /\ old.found[q] <= changed[q]
      /\ UNCHANGED <<clock, changed, listed, got, cursorRow, crossed>>
    BY DEF Cursor!Page, CursorInv, TypesInv, TimesInv
<1>2. next \in SUBSET Cursor!Order /\ \A q \in next : changed[q] # None /\ changed[q] \in Nat
    <2>1. old.since..old.until \subseteq Int
        BY <1>1 DEF AnyRun
    <2> QED
        BY <2>1 DEF Cursor!Listing, Limits, CursorInv, TypesInv
<1>3. ASSUME NEW q \in Cursor!Order, Behind(changed, q, old.until), changed[q] >= old.since
      PROVE  /\ changed[q] \in Nat
             /\ q \notin next => old.token # None /\ ~Cursor!Before(old.token, <<changed[q], q>>)
    <2>1. q \in listed /\ changed[q] \in Nat /\ changed[q] <= old.until
        BY <1>1, <1>3, BehindIsListed DEF AnyRun
    <2>2. changed[q] \in old.since..old.until
        BY <1>1, <1>3, <2>1 DEF AnyRun
    <2> QED
        BY <2>1, <2>2 DEF Cursor!Listing
<1>4. CASE next = {}
    <2> DEFINE r == [old EXCEPT !.stage = "pulled", !.token = None]
    <2>1. /\ r \in AnyRun /\ r.until = old.until /\ r.row = old.row /\ r.since = old.since
          /\ r.token = None /\ r.found = old.found /\ r.stage = "pulled"
        BY <1>1 DEF AnyRun, Cursor!Stage
    <2>2. run' = [run EXCEPT ![p] = r]
        BY <1>4 DEF Cursor!Page, CursorInv, TypesInv
    <2> HIDE DEF r
    <2>3. ASSUME ~crossed
          PROVE  RunTells(r, changed, got, At(cursorRow))
        <3>1. RunTells(old, changed, got, At(cursorRow))
            BY <2>3 DEF CursorInv, TellsInv
        <3>2. ASSUME NEW q \in Cursor!Order, Behind(changed, q, old.until), changed[q] >= old.since
              PROVE  got[q] = changed[q] \/ old.found[q] = changed[q]
            <4>1. Past(old, changed, q)
                BY <1>3, <1>4, <3>2 DEF Past
            <4> QED
                BY <3>1, <3>2, <4>1 DEF RunTells
        <3> QED
            BY <2>1, <3>1, <3>2 DEF RunTells
    <2> QED
        BY <1>1, <2>1, <2>2, <2>3, OneRun
<1>5. CASE next # {}
    <2> DEFINE o == CHOOSE o \in next : \A q \in next :
                        q = o \/ Cursor!Before(<<changed[o], o>>, <<changed[q], q>>)
               token == IF next = {o} THEN None ELSE <<changed[o], o>>
               stage == IF next = {o} \/ old.pages + 1 = MaxPages THEN "pulled" ELSE "pulling"
               sought == [old.found EXCEPT ![o] = changed[o]]
               r == [old EXCEPT !.found = sought, !.pages = old.pages + 1, !.token = token,
                                !.stage = stage]
    <2>1. o \in next /\ \A q \in next : q = o \/ Cursor!Before(<<changed[o], o>>, <<changed[q], q>>)
        BY <1>2, <1>5, FirstOfRest DEF CursorInv
    <2>2. run' = [run EXCEPT ![p] = r]
        BY <1>5 DEF Cursor!Page
    <2> HIDE DEF o
    <2>3. o \in Cursor!Order /\ changed[o] \in Nat /\ changed[o] # None /\ o \in Nat
        BY <1>2, <2>1 DEF Cursor!Order, Limits
    <2>4. /\ token \in AnyPlace \cup {None} /\ stage \in {"pulled", "pulling"}
          /\ token = None => stage = "pulled"
        BY <2>3 DEF AnyPlace, Limits
    <2>5. token # None => token = <<changed[o], o>>
        OBVIOUS
    <2>6. token = None => next = {o}
        BY <2>3 DEF AnyPlace, Limits
    <2>11. sought \in [Cursor!Order -> Nat \cup {None}] /\ old.pages + 1 \in Nat
        BY <1>1, <2>3 DEF AnyRun
    <2> HIDE DEF token, stage, sought
    <2>7. /\ r \in AnyRun /\ r.until = old.until /\ r.row = old.row /\ r.since = old.since
          /\ r.token = token /\ r.stage = stage
          /\ r.found = sought
        BY <1>1, <2>4, <2>11 DEF AnyRun, Cursor!Stage
    <2> HIDE DEF r
    <2>8. ASSUME NEW q \in Cursor!Order
          PROVE  r.found[q] = IF q = o THEN changed[o] ELSE old.found[q]
        BY <1>1, <2>3, <2>7 DEF AnyRun, sought
    <2>9. ASSUME ~crossed
          PROVE  RunTells(r, changed, got, At(cursorRow))
        <3>1. RunTells(old, changed, got, At(cursorRow))
            BY <2>9 DEF CursorInv, TellsInv
        <3>2. ASSUME NEW q \in Cursor!Order, Behind(changed, q, old.until), changed[q] >= old.since,
                     Past(r, changed, q)
              PROVE  got[q] = changed[q] \/ r.found[q] = changed[q]
            <4>1. CASE q = o
                BY <2>8, <4>1
            <4>2. CASE q \in next /\ q # o
                <5>1. token = <<changed[o], o>> /\ token # None
                    BY <2>5, <2>6, <4>2
                <5>2. Cursor!Before(token, <<changed[q], q>>)
                    BY <2>1, <4>2, <5>1
                <5> QED
                    BY <2>7, <3>2, <5>1, <5>2 DEF Past
            <4>3. CASE q \notin next
                <5>1. Past(old, changed, q)
                    BY <1>3, <3>2, <4>3 DEF Past
                <5>2. q # o
                    BY <2>1, <4>3
                <5> QED
                    BY <2>8, <3>1, <3>2, <5>1, <5>2 DEF RunTells
            <4> QED
                BY <4>1, <4>2, <4>3
        <3> QED
            BY <2>7, <3>1, <3>2 DEF RunTells
    <2>10. \A q \in Cursor!Order : r.found[q] # None => changed[q] # None /\ r.found[q] <= changed[q]
        BY <1>1, <2>3, <2>8
    <2> QED
        BY <1>1, <2>2, <2>7, <2>9, <2>10, OneRun
<1> QED
    BY <1>4, <1>5

\* Column by column what is saved over a row (ShopSyncCursorRepository.save).
LEMMA SavedColumns ==
    ASSUME NEW copy \in AnyRow, NEW point \in AnyRow, cursorRow \in AnyRow
    PROVE  /\ Cursor!Saved(copy, point) \in AnyRow
           /\ Cursor!Saved(copy, point).at =
                  IF point.at # None /\ (copy.at = None \/ point.at > copy.at)
                  THEN point.at ELSE cursorRow.at
           /\ Cursor!Saved(copy, point).token =
                  IF copy.token = point.token THEN cursorRow.token ELSE point.token
           /\ Cursor!Saved(copy, point).since =
                  IF copy.since = point.since THEN cursorRow.since ELSE point.since
           /\ Cursor!Saved(copy, point).until =
                  IF copy.until = point.until THEN cursorRow.until ELSE point.until
BY DEF Cursor!Saved, AnyRow

\* Storing what was found loses no version that is as new as the change (ingest_order).
LEMMA StoredKeeps ==
    ASSUME Limits, CursorInv, NEW found \in [Cursor!Order -> Nat \cup {None}],
           \A o \in Cursor!Order : found[o] # None => changed[o] # None /\ found[o] <= changed[o]
    PROVE  \A o \in Cursor!Order :
              /\ Cursor!Stored(found)[o] \in Nat \cup {None}
              /\ Cursor!Stored(found)[o] # None =>
                    changed[o] # None /\ Cursor!Stored(found)[o] <= changed[o]
              /\ got[o] = changed[o] => Cursor!Stored(found)[o] = changed[o]
              /\ found[o] = changed[o] => Cursor!Stored(found)[o] = changed[o]
<1> SUFFICES ASSUME NEW o \in Cursor!Order
             PROVE  /\ Cursor!Stored(found)[o] \in Nat \cup {None}
                    /\ Cursor!Stored(found)[o] # None =>
                          changed[o] # None /\ Cursor!Stored(found)[o] <= changed[o]
                    /\ got[o] = changed[o] => Cursor!Stored(found)[o] = changed[o]
                    /\ found[o] = changed[o] => Cursor!Stored(found)[o] = changed[o]
    OBVIOUS
<1>1. /\ got[o] \in Nat \cup {None} /\ found[o] \in Nat \cup {None} /\ changed[o] \in Nat \cup {None}
      /\ got[o] # None => changed[o] # None /\ got[o] <= changed[o]
      /\ found[o] # None => changed[o] # None /\ found[o] <= changed[o]
    BY DEF CursorInv, TypesInv, TimesInv
<1>2. Cursor!Stored(found)[o] = IF found[o] # None /\ (got[o] = None \/ found[o] > got[o])
                                THEN found[o] ELSE got[o]
    BY DEF Cursor!Stored
<1> QED
    BY <1>1, <1>2 DEF Limits

\* A run that stores what it has found and is over, whatever becomes of the row.
LEMMA EndKeeps ==
    ASSUME Limits, CursorInv, NEW p \in Puller, NEW found \in [Cursor!Order -> Nat \cup {None}],
           \A o \in Cursor!Order : found[o] # None => changed[o] # None /\ found[o] <= changed[o],
           got' = Cursor!Stored(found), run' = [run EXCEPT ![p] = Cursor!Idle],
           UNCHANGED <<clock, changed, listed>>,
           cursorRow' \in AnyRow \cup {None}, cursorRow # None => cursorRow' # None,
           cursorRow' # None => InTime(cursorRow'),
           ~crossed' => /\ ~crossed
                        /\ At(cursorRow) # None => At(cursorRow') # None /\ At(cursorRow) <= At(cursorRow')
                        /\ cursorRow' # None => RowTells(cursorRow', changed', got')
    PROVE  CursorInv'
<1>1. Keeps(changed, got, changed', got', clock)
    BY StoredKeeps DEF Keeps
<1>2. /\ run' \in [Puller -> AnyRun]
      /\ \A q \in Puller : run'[q] = IF q = p THEN Cursor!Idle ELSE run[q]
    BY IdleTells DEF CursorInv, TypesInv
<1>3. got' \in [Cursor!Order -> Nat \cup {None}]
    BY StoredKeeps DEF Cursor!Stored
<1>4. TypesInv'
    BY <1>2, <1>3 DEF CursorInv, TypesInv
<1>5. ASSUME NEW q \in Puller
      PROVE  /\ run'[q].until <= clock
             /\ run'[q].row # None => cursorRow' # None /\ InTime(run'[q].row)
             /\ \A o \in Cursor!Order :
                   run'[q].found[o] # None => changed[o] # None /\ run'[q].found[o] <= changed[o]
    <2>1. 0 <= clock
        BY DEF CursorInv, TypesInv
    <2>2. CASE q = p
        BY <1>2, <2>1, <2>2, IdleTells
    <2>3. CASE q # p
        BY <1>2, <2>3 DEF CursorInv, TimesInv
    <2> QED
        BY <2>2, <2>3
<1>6. TimesInv'
    BY <1>5, StoredKeeps DEF CursorInv, TimesInv, InTime
<1>7. ASSUME ~crossed', NEW q \in Puller
      PROVE  RunTells(run'[q], changed', got', At(cursorRow'))
    <2>1. At(cursorRow) \in Nat \cup {None} /\ At(cursorRow') \in Nat \cup {None}
        BY DEF At, CursorInv, TypesInv, AnyRow
    <2>2. CASE q = p
        BY <1>2, <2>2, IdleTells
    <2>3. CASE q # p
        <3>1. /\ run'[q] = run[q] /\ run[q] \in AnyRun /\ run[q].until <= clock /\ clock \in Nat
              /\ RunTells(run[q], changed, got, At(cursorRow))
            BY <1>2, <1>7, <2>3 DEF CursorInv, TypesInv, TimesInv, TellsInv
        <3>2. At(cursorRow) # None => At(cursorRow') # None /\ At(cursorRow) <= At(cursorRow')
            BY <1>7
        <3> DEFINE c2 == changed'
                   g2 == got'
                   m == At(cursorRow)
                   m2 == At(cursorRow')
                   r == run[q]
        <3>3. /\ Keeps(changed, got, c2, g2, clock) /\ m \in Nat \cup {None} /\ m2 \in Nat \cup {None}
              /\ (m # None => m2 # None /\ m <= m2) /\ r \in AnyRun /\ r.until <= clock
              /\ clock \in Nat /\ RunTells(r, changed, got, m)
            BY <1>1, <2>1, <3>1, <3>2
        <3> HIDE DEF c2, g2, m, m2, r
        <3>4. RunTells(r, c2, g2, m2)
            BY <3>3, RunKept
        <3> QED
            BY <3>1, <3>4 DEF c2, g2, m2, r
    <2> QED
        BY <2>2, <2>3
<1>8. TellsInv'
    BY <1>7 DEF TellsInv
<1> QED
    BY <1>4, <1>6, <1>8 DEF CursorInv

\* The orders of a run come to be stored, or are left for the next run with the row as it is (_ingest).
LEMMA IngestKeeps ==
    ASSUME Limits, CursorInv, NEW p \in Puller, Cursor!Ingest(p)
    PROVE  CursorInv'
<1> DEFINE r == run[p]
<1>1. PICK failed \in SUBSET {o \in Cursor!Order : r.found[o] # None} :
         LET found == [o \in Cursor!Order |-> IF o \in failed THEN None ELSE r.found[o]]
         IN  IF Cursor!HeldBack(r.stage, failed)
             THEN got' = Cursor!Stored(found) /\ run' = [run EXCEPT ![p] = Cursor!Idle]
             ELSE /\ run' = [run EXCEPT ![p] =
                         [r EXCEPT !.stage = "saving", !.row = cursorRow, !.found = found]]
                  /\ UNCHANGED got
    BY DEF Cursor!Ingest
<1> DEFINE found == [o \in Cursor!Order |-> IF o \in failed THEN None ELSE r.found[o]]
<1>2. r.stage \in {"pulled", "failed"} /\ UNCHANGED <<clock, changed, listed, cursorRow, crossed>>
    BY DEF Cursor!Ingest
<1>3. /\ r \in AnyRun /\ r.until <= clock /\ clock \in Nat /\ cursorRow \in AnyRow \cup {None}
      /\ cursorRow # None => InTime(cursorRow)
      /\ \A o \in Cursor!Order : r.found[o] # None => changed[o] # None /\ r.found[o] <= changed[o]
    BY DEF CursorInv, TypesInv, TimesInv
<1>4. /\ found \in [Cursor!Order -> Nat \cup {None}]
      /\ \A o \in Cursor!Order : found[o] # None => changed[o] # None /\ found[o] <= changed[o]
    BY <1>3 DEF AnyRun
<1>5. CASE Cursor!HeldBack(r.stage, failed)
    <2>1. got' = Cursor!Stored(found) /\ run' = [run EXCEPT ![p] = Cursor!Idle]
        BY <1>1, <1>5
    <2> HIDE DEF found
    <2>2. Keeps(changed, got, changed, got', clock)
        BY <1>4, <2>1, StoredKeeps DEF Keeps
    <2>3. ASSUME ~crossed, cursorRow # None
          PROVE  RowTells(cursorRow, changed, got')
        BY <1>3, <2>2, <2>3, RowKept DEF CursorInv, TellsInv, InTime
    <2>4. At(cursorRow) # None => At(cursorRow) <= At(cursorRow)
        BY <1>3 DEF At, AnyRow
    <2>5. UNCHANGED <<clock, changed, listed>> /\ crossed' = crossed /\ cursorRow' = cursorRow
        BY <1>2
    <2> QED
        BY <1>3, <1>4, <2>1, <2>3, <2>4, <2>5, EndKeeps
<1>6. CASE ~Cursor!HeldBack(r.stage, failed)
    <2>1. failed = {} /\ r.stage = "pulled"
        BY <1>2, <1>6 DEF Cursor!HeldBack
    <2> DEFINE n == [r EXCEPT !.stage = "saving", !.row = cursorRow, !.found = found]
    <2>2. run' = [run EXCEPT ![p] = n] /\ UNCHANGED <<clock, changed, listed, got, cursorRow, crossed>>
        BY <1>1, <1>2, <1>6
    <2>3. \A o \in Cursor!Order : found[o] = r.found[o]
        BY <2>1
    <2> HIDE DEF found
    <2>4. /\ n \in AnyRun /\ n.stage = "saving" /\ n.row = cursorRow /\ n.found = found
          /\ n.since = r.since /\ n.until = r.until /\ n.token = r.token
        BY <1>3, <1>4 DEF AnyRun, Cursor!Stage
    <2> HIDE DEF n
    <2>5. ~crossed => RunTells(n, changed, got, At(cursorRow))
        BY <2>1, <2>3, <2>4 DEF CursorInv, TellsInv, RunTells, Past
    <2> QED
        BY <1>3, <1>4, <2>2, <2>4, <2>5, OneRun
<1> QED
    BY <1>5, <1>6

(***************************************************************************)
(* The mark goes forward only over orders that are stored: those of the    *)
(* window, and those before it, which the old mark tells of                *)
(* (checkpoint_for, save).                                                 *)
(***************************************************************************)
LEMMA FinishKeeps ==
    ASSUME Limits, CursorInv, NEW p \in Puller, Cursor!Finish(p)
    PROVE  CursorInv'
<1> DEFINE r == run[p]
           point == Cursor!Checkpoint(r)
<1>1. /\ r.stage = "saving" /\ (r.row = None => cursorRow = None)
      /\ got' = Cursor!Stored(r.found) /\ run' = [run EXCEPT ![p] = Cursor!Idle]
      /\ cursorRow' = IF r.row = None THEN point ELSE Cursor!Saved(r.row, point)
      /\ crossed' = (crossed \/ cursorRow # r.row)
      /\ UNCHANGED <<clock, changed, listed>>
    BY DEF Cursor!Finish
<1>2. /\ r \in AnyRun /\ r.until <= clock /\ clock \in Nat /\ cursorRow \in AnyRow \cup {None}
      /\ r.row # None => cursorRow # None
      /\ \A o \in Cursor!Order : r.found[o] # None => changed[o] # None /\ r.found[o] <= changed[o]
    BY DEF CursorInv, TypesInv, TimesInv
<1>3. /\ r.since \in Int /\ r.since # None /\ r.until \in Nat /\ r.until # None
      /\ r.row \in AnyRow \cup {None} /\ r.found \in [Cursor!Order -> Nat \cup {None}]
    BY <1>2 DEF AnyRun, Limits
<1>4. /\ point \in AnyRow /\ point # None
      /\ r.token = None => /\ point.at = r.until /\ point.token = None
                           /\ point.since = None /\ point.until = None
      /\ r.token # None => /\ point.at = None /\ point.token = r.token
                           /\ point.since = r.since /\ point.until = r.until
    <2>1. Cursor!NoRow \in AnyRow
        BY DEF Cursor!NoRow, AnyRow
    <2> QED
        BY <1>2, <2>1 DEF Cursor!Checkpoint, Cursor!NoRow, AnyRow, AnyRun, Limits
<1> HIDE DEF point
<1>5. ASSUME ~crossed, NEW o \in Cursor!Order, Behind(changed, o, r.until), changed[o] >= r.since,
             Past(r, changed, o)
      PROVE  got'[o] = changed[o]
    <2>1. got[o] = changed[o] \/ r.found[o] = changed[o]
        BY <1>5 DEF CursorInv, TellsInv, RunTells
    <2> QED
        BY <1>1, <1>2, <1>3, <2>1, StoredKeeps
<1>6. ~crossed => Reaches(r.since, At(cursorRow))
    BY DEF CursorInv, TellsInv, RunTells
<1>7. (point.at # None => point.at <= clock) /\ (point.until # None => point.until <= clock)
    BY <1>2, <1>3, <1>4
<1>8. CASE r.row = None
    <2>1. cursorRow' = point /\ cursorRow = None /\ At(cursorRow) = None
        BY <1>1, <1>8 DEF At
    <2>2. InTime(cursorRow')
        <3>1. clock' = clock
            BY <1>1
        <3> QED
            BY <1>7, <2>1 DEF InTime
    <2>3. ASSUME ~crossed
          PROVE  RowTells(point, changed', got')
        <3>1. r.since <= 0
            BY <1>6, <2>1, <2>3 DEF Reaches
        <3>2. ASSUME point.at # None, NEW o \in Cursor!Order, Behind(changed, o, point.at)
              PROVE  got'[o] = changed[o]
            <4>1. changed[o] >= r.since
                BY <1>3, <3>1, <3>2 DEF Behind, CursorInv, TypesInv
            <4>2. r.token = None /\ point.at = r.until
                BY <1>4, <3>2
            <4> QED
                BY <1>1, <1>5, <2>3, <3>2, <4>1, <4>2 DEF Past
        <3>3. ASSUME point.token # None
              PROVE  /\ point.since # None /\ point.until # None /\ Reaches(point.since, point.at)
                     /\ \A o \in Cursor!Order :
                           /\ Behind(changed, o, point.until) /\ changed[o] >= point.since
                           /\ ~Cursor!Before(point.token, <<changed[o], o>>)
                           => got'[o] = changed[o]
            <4>1. /\ r.token # None /\ point.token = r.token /\ point.since = r.since
                  /\ point.until = r.until
                BY <1>4, <3>3
            <4>2. Reaches(point.since, point.at)
                BY <3>1, <4>1 DEF Reaches
            <4> QED
                BY <1>3, <1>5, <2>3, <4>1, <4>2 DEF Past
        <3> QED
            BY <1>1, <3>2, <3>3 DEF RowTells
    <2>4. ~crossed' => ~crossed
        BY <1>1
    <2> QED
        BY <1>1, <1>2, <1>3, <1>4, <2>1, <2>2, <2>3, <2>4, EndKeeps
<1>9. CASE r.row # None
    <2>1. cursorRow # None /\ cursorRow \in AnyRow /\ r.row \in AnyRow
        BY <1>2, <1>3, <1>9
    <2>2. cursorRow' = Cursor!Saved(r.row, point) /\ cursorRow' \in AnyRow /\ cursorRow' # None
        BY <1>1, <1>4, <1>9, <2>1, SavedColumns DEF Limits
    <2>3. InTime(cursorRow')
        <3>1. /\ cursorRow'.at \in {point.at, cursorRow.at}
              /\ cursorRow'.until \in {point.until, cursorRow.until}
            BY <1>4, <2>1, <2>2, SavedColumns
        <3>2. /\ cursorRow.at # None => cursorRow.at <= clock
              /\ cursorRow.until # None => cursorRow.until <= clock
            BY <2>1 DEF CursorInv, TimesInv, InTime
        <3>3. clock' = clock
            BY <1>1
        <3>4. /\ cursorRow'.at # None => cursorRow'.at <= clock
              /\ cursorRow'.until # None => cursorRow'.until <= clock
            BY <1>7, <3>1, <3>2
        <3> QED
            BY <3>3, <3>4 DEF InTime
    <2>4. ASSUME cursorRow = r.row
          PROVE  /\ cursorRow'.token = point.token /\ cursorRow'.since = point.since
                 /\ cursorRow'.until = point.until
                 /\ cursorRow'.at = IF point.at # None /\ (cursorRow.at = None \/ point.at > cursorRow.at)
                                    THEN point.at ELSE cursorRow.at
        BY <1>4, <2>1, <2>2, <2>4, SavedColumns
    <2>5. ASSUME cursorRow = r.row
          PROVE  At(cursorRow) # None => At(cursorRow') # None /\ At(cursorRow) <= At(cursorRow')
        <3>1. At(cursorRow) = cursorRow.at /\ At(cursorRow') = cursorRow'.at
            BY <2>1, <2>2 DEF At
        <3>2. cursorRow.at \in Nat \cup {None} /\ point.at \in Nat \cup {None}
            BY <1>4, <2>1 DEF AnyRow
        <3> QED
            BY <2>4, <2>5, <3>1, <3>2
    <2>6. ASSUME ~crossed, cursorRow = r.row
          PROVE  RowTells(cursorRow', changed', got')
        <3>1. Reaches(r.since, cursorRow.at)
            BY <1>6, <2>1, <2>6 DEF At
        <3>2. ASSUME cursorRow.at # None, NEW o \in Cursor!Order, Behind(changed, o, cursorRow.at)
              PROVE  got'[o] = changed[o]
            <4>1. got[o] = changed[o]
                BY <2>1, <2>6, <3>2 DEF CursorInv, TellsInv, RowTells
            <4> QED
                BY <1>1, <1>2, <1>3, <4>1, StoredKeeps
        <3>3. ASSUME point.at # None, NEW o \in Cursor!Order, Behind(changed, o, point.at)
              PROVE  got'[o] = changed[o]
            <4>1. r.token = None /\ point.at = r.until
                BY <1>4, <3>3
            <4>2. changed[o] \in Nat
                BY <3>3 DEF Behind, CursorInv, TypesInv
            <4>3. CASE changed[o] >= r.since
                BY <1>1, <1>5, <2>6, <3>3, <4>1, <4>3 DEF Past
            <4>4. CASE changed[o] < r.since
                <5>1. cursorRow.at # None /\ r.since <= cursorRow.at - Overlap
                    BY <1>3, <3>1, <4>2, <4>4 DEF Reaches
                <5>2. cursorRow.at \in Nat
                    BY <2>1, <5>1 DEF AnyRow
                <5>3. Behind(changed, o, cursorRow.at)
                    BY <1>3, <3>3, <4>2, <4>4, <5>1, <5>2 DEF Behind, Limits
                <5> QED
                    BY <3>2, <5>1, <5>3
            <4> QED
                BY <1>3, <4>2, <4>3, <4>4
        <3>4. ASSUME cursorRow'.at # None, NEW o \in Cursor!Order, Behind(changed, o, cursorRow'.at)
              PROVE  got'[o] = changed[o]
            BY <2>4, <2>6, <3>2, <3>3, <3>4
        <3>5. ASSUME cursorRow'.token # None
              PROVE  /\ cursorRow'.since # None /\ cursorRow'.until # None
                     /\ Reaches(cursorRow'.since, cursorRow'.at)
                     /\ \A o \in Cursor!Order :
                           /\ Behind(changed, o, cursorRow'.until) /\ changed[o] >= cursorRow'.since
                           /\ ~Cursor!Before(cursorRow'.token, <<changed[o], o>>)
                           => got'[o] = changed[o]
            <4>1. /\ r.token # None /\ cursorRow'.token = r.token /\ cursorRow'.since = r.since
                  /\ cursorRow'.until = r.until /\ cursorRow'.at = cursorRow.at
                BY <1>4, <2>4, <2>6, <3>5
            <4>2. \A o \in Cursor!Order :
                      /\ Behind(changed, o, r.until) /\ changed[o] >= r.since
                      /\ ~Cursor!Before(r.token, <<changed[o], o>>)
                      => got'[o] = changed[o]
                BY <1>5, <2>6, <4>1 DEF Past
            <4> QED
                BY <1>3, <3>1, <4>1, <4>2
        <3> QED
            BY <1>1, <3>4, <3>5 DEF RowTells
    <2>7. ~crossed' => ~crossed /\ cursorRow = r.row
        BY <1>1
    <2> QED
        BY <1>1, <1>2, <1>3, <2>2, <2>3, <2>5, <2>6, <2>7, EndKeeps
<1> QED
    BY <1>8, <1>9

(***************************************************************************)
(* No order before the high-water mark is left out while no two runs of    *)
(* the shop cross in save, for any number of workers and orders, any size  *)
(* of a run, any order that fails and any worker that dies, provided that  *)
(* the windows overlap by at least the delay of the platform's listing     *)
(* (order_overlap_seconds, checkpoint_for).                                *)
(***************************************************************************)
THEOREM NoOrderSkipped == Cursor!Spec => []Cursor!NothingSkipped
<1>0. Limits
    BY CursorAssumption DEF Limits, AnyPlace, AnyRow
<1>1. Cursor!Init => CursorInv
    <2> SUFFICES ASSUME Cursor!Init PROVE CursorInv
        OBVIOUS
    <2>1. TypesInv
        BY <1>0, IdleTells DEF Cursor!Init, TypesInv, Cursor!Nothing
    <2>2. TimesInv
        BY <1>0, IdleTells DEF Cursor!Init, TimesInv, Cursor!Nothing
    <2>3. TellsInv
        BY <1>0, IdleTells DEF Cursor!Init, TellsInv
    <2> QED
        BY <2>1, <2>2, <2>3 DEF CursorInv
<1>2. CursorInv /\ [Cursor!Next]_(Cursor!vars) => CursorInv'
    <2> SUFFICES ASSUME CursorInv, [Cursor!Next]_(Cursor!vars) PROVE CursorInv'
        OBVIOUS
    <2>1. CASE UNCHANGED Cursor!vars
        BY <2>1 DEF Cursor!vars, CursorInv, TypesInv, TimesInv, TellsInv, InTime
    <2> QED
        BY <1>0, <2>1, PlatformKeeps, StartKeeps, PageKeeps, StopKeeps, IngestKeeps, FinishKeeps DEF Cursor!Next
<1>3. CursorInv => Cursor!NothingSkipped
    <2> SUFFICES ASSUME CursorInv, ~crossed, cursorRow # None, cursorRow.at # None, NEW o \in Cursor!Order,
                        changed[o] # None, changed[o] + Late < cursorRow.at
                 PROVE  got[o] = changed[o]
        BY DEF Cursor!NothingSkipped, Cursor!Skipped
    <2> QED
        BY <1>0 DEF CursorInv, TellsInv, RowTells, Behind
<1> QED
    BY <1>1, <1>2, <1>3, PTL DEF Cursor!Spec

-----------------------------------------------------------------------------
(* The session of a browser (Sessions).                                     *)

\* What a refresh under way holds, and what it may rely on while the session goes on.
SessionInv ==
    /\ issued \in Nat \ {0}
    /\ held \in 1..issued \cup {None}
    /\ revoked \subseteq 1..issued
    /\ \A q, r \in Request : refresh[q].stage # "none" /\ refresh[r].stage # "none" => q = r
    /\ refresh \in [Request -> [stage: {"none", "asked", "checked", "granted", "refused"},
                                pair: 1..issued \cup {None}]]
    /\ \A q \in Request :
          refresh[q].stage \in {"asked", "checked", "granted"} => refresh[q].pair \in 1..issued
    /\ ~loggedOut /\ ~cutOff =>
          /\ held \in revoked => \E q \in Request : refresh[q].stage = "granted"
          /\ \A q \in Request : /\ refresh[q].stage # "refused"
                                /\ refresh[q].stage # "none" => refresh[q].pair \notin revoked

\* A pair is revoked only when the next one is on its way to the tab (refresh, logout).
LEMMA StepKeepsSession ==
    ASSUME None \notin Nat, SessionInv, [Tab!Next]_(Tab!vars)
    PROVE  SessionInv'
<1> USE DEF SessionInv
<1>1. ASSUME NEW q \in Request, Tab!Send(q) \/ Tab!Succeed(q) \/ Tab!Fail(q)
      PROVE  SessionInv'
    <2>1. held' \in {held, None} /\ UNCHANGED <<issued, revoked, refresh, loggedOut, cutOff>>
        BY <1>1 DEF Tab!Send, Tab!Succeed, Tab!Fail
    <2> QED
        BY <2>1
<1>2. ASSUME NEW q \in Request, Tab!Unauthorized(q)
      PROVE  SessionInv'
    <2>1. CASE UNCHANGED refresh
        <3>1. held' \in {held, None} /\ UNCHANGED <<issued, revoked, refresh, loggedOut, cutOff>>
            BY <1>2, <2>1 DEF Tab!Unauthorized
        <3> QED
            BY <3>1
    <2>2. CASE ~UNCHANGED refresh
        <3>1. /\ Tab!Shared = {} /\ held # None /\ UNCHANGED <<held, issued, revoked, loggedOut, cutOff>>
              /\ refresh' = [refresh EXCEPT ![q] = [stage |-> "asked", pair |-> held]]
            BY <1>2, <2>2 DEF Tab!Unauthorized
        <3>2. \A r \in Request : refresh[r].stage = "none"
            BY <3>1 DEF Tab!Shared
        <3>3. \A r \in Request : refresh'[r] = IF r = q THEN [stage |-> "asked", pair |-> held]
                                                        ELSE refresh[r]
            BY <3>1
        <3> QED
            BY <3>1, <3>2, <3>3
    <2> QED
        BY <2>1, <2>2
<1>3. ASSUME NEW q \in Request, Tab!Check(q)
      PROVE  SessionInv'
    <2>1. UNCHANGED <<held, issued, revoked, loggedOut, cutOff>> /\ refresh[q].stage = "asked"
        BY <1>3 DEF Tab!Check
    <2>2. /\ refresh'[q].stage = (IF refresh[q].pair \in revoked THEN "refused" ELSE "checked")
          /\ refresh'[q].pair = refresh[q].pair
          /\ \A r \in Request : r # q => refresh'[r] = refresh[r]
          /\ refresh' \in [Request -> [stage: {"none", "asked", "checked", "granted", "refused"},
                                       pair: 1..issued \cup {None}]]
        BY <1>3 DEF Tab!Check
    <2> QED
        BY <2>1, <2>2
<1>4. ASSUME NEW q \in Request, Tab!Rotate(q)
      PROVE  SessionInv'
    <2>1. /\ UNCHANGED <<held, loggedOut, cutOff>> /\ refresh[q].stage = "checked"
          /\ issued' = issued + 1 /\ revoked' = revoked \cup {refresh[q].pair}
          /\ refresh' = [refresh EXCEPT ![q] = [stage |-> "granted", pair |-> issued + 1]]
        BY <1>4 DEF Tab!Rotate
    <2>2. \A r \in Request : refresh'[r] = IF r = q THEN [stage |-> "granted", pair |-> issued + 1]
                                                    ELSE refresh[r]
        BY <2>1
    <2>3. \A r \in Request : r # q => refresh[r].stage = "none"
        BY <2>1
    <2>4. revoked' \subseteq 1..issued /\ issued' \notin revoked' /\ 1..issued \subseteq 1..issued'
        <3>1. refresh[q].pair \in 1..issued
            BY <2>1
        <3>2. revoked' \subseteq 1..issued
            BY <2>1, <3>1
        <3> QED
            BY <2>1, <3>2
    <2>5. refresh' \in [Request -> [stage: {"none", "asked", "checked", "granted", "refused"},
                                    pair: 1..issued' \cup {None}]]
        BY <2>1, <2>4
    <2>6. /\ \A r, t \in Request : refresh'[r].stage # "none" /\ refresh'[t].stage # "none" => r = t
          /\ \A r \in Request :
                /\ refresh'[r].stage \in {"asked", "checked", "granted"} => refresh'[r].pair \in 1..issued'
                /\ refresh'[r].stage # "refused" \/ refresh[r].stage = "refused"
                /\ refresh'[r].stage # "none" => refresh'[r].pair \notin revoked'
        BY <2>1, <2>2, <2>3, <2>4
    <2>7. refresh'[q].stage = "granted"
        BY <2>2
    <2>8. issued' \in Nat \ {0} /\ held' \in 1..issued' \cup {None} /\ revoked' \subseteq 1..issued'
        BY <2>1, <2>4
    <2> QED
        BY <2>1, <2>5, <2>6, <2>7, <2>8
<1>5. ASSUME NEW q \in Request, Tab!Lose(q)
      PROVE  SessionInv'
    <2>1. UNCHANGED <<held, issued, revoked>> /\ cutOff' = TRUE
        BY <1>5 DEF Tab!Lose
    <2>2. /\ refresh' \in [Request -> [stage: {"none", "asked", "checked", "granted", "refused"},
                                       pair: 1..issued \cup {None}]]
          /\ refresh'[q].stage = "refused" /\ refresh[q].stage # "none"
          /\ \A r \in Request : r # q => refresh'[r] = refresh[r]
        BY <1>5 DEF Tab!Lose
    <2> QED
        BY <2>1, <2>2
<1>6. ASSUME NEW q \in Request, Tab!Replay(q) \/ Tab!GiveUp(q)
      PROVE  SessionInv'
    <2>1. /\ UNCHANGED <<issued, revoked, loggedOut, cutOff>>
          /\ refresh' = [refresh EXCEPT ![q] = Tab!NoRefresh]
          /\ \/ refresh[q].stage = "granted" /\ held' = refresh[q].pair
             \/ refresh[q].stage = "refused" /\ held' = None
        BY <1>6 DEF Tab!Replay, Tab!GiveUp
    <2>2. \A r \in Request : refresh'[r].stage = "none"
        BY <2>1 DEF Tab!NoRefresh
    <2>3. refresh' \in [Request -> [stage: {"none", "asked", "checked", "granted", "refused"},
                                    pair: 1..issued \cup {None}]]
        BY <2>1 DEF Tab!NoRefresh
    <2> QED
        BY <2>1, <2>2, <2>3
<1>7. ASSUME NEW p \in Tab!Pair, Tab!Expire(p)
      PROVE  SessionInv'
    BY <1>7 DEF Tab!Expire
<1>8. CASE Tab!Logout
    BY <1>8 DEF Tab!Logout
<1>9. CASE UNCHANGED Tab!vars
    BY <1>9 DEF Tab!vars
<1> QED
    BY <1>1, <1>2, <1>3, <1>4, <1>5, <1>6, <1>7, <1>8, <1>9 DEF Tab!Next

(***************************************************************************)
(* Requests that find the token expired together, in any number, do not    *)
(* end the session as long as refreshes are answered (ensureRefreshed,     *)
(* AuthService.refresh).                                                   *)
(***************************************************************************)
THEOREM SessionKept == Tab!Spec => []Tab!SessionGoesOn
<1>1. Tab!Init => SessionInv
    BY TabAssumption DEF Tab!Init, SessionInv, Tab!NoRefresh
<1>2. SessionInv /\ [Tab!Next]_(Tab!vars) => SessionInv'
    BY StepKeepsSession, TabAssumption
<1>3. SessionInv => Tab!SessionGoesOn
    BY DEF SessionInv, Tab!SessionGoesOn
<1> QED
    BY <1>1, <1>2, <1>3, PTL DEF Tab!Spec

-----------------------------------------------------------------------------
(* A batch of listings (ListingBatch).                                      *)

\* The counts and the status of the batch are those of its items (apply_counts).
CountsTell(b) ==
    /\ b.status \in Listing!Ended <=> Listing!ToDo = {}
    /\ b.failed = Listing!Count(item, "FAILED") /\ b.succeeded = Listing!Count(item, "SUCCEEDED")

Fate == {"PENDING", "SUCCEEDED", "FAILED", "SKIPPED"}

\* The item in hand is pending, and only it may be at the platform without its status.
ListingInv ==
    /\ item \in [Listing!Item -> Fate]
    /\ published \in [Listing!Item -> Nat]
    /\ step \in [on: Listing!Item, at: {"calling", "called", "failed"}] \cup {None}
    /\ step # None => batchTask = "running" /\ item[step.on] = "PENDING"
    /\ \A i \in Listing!Item \ interrupted :
          published[i] = IF item[i] = "SUCCEEDED" \/ i \in Listing!InHand THEN 1 ELSE 0
    /\ CountsTell(batch)

\* A batch has ended when its counts say that nothing is pending (apply_counts).
LEMMA CountsAreRight ==
    ASSUME Items \in Nat, NEW items, NEW running \in BOOLEAN
    PROVE  LET b == Listing!Counts(items, running)
           IN  /\ b.status \in Listing!Ended <=> {i \in Listing!Item : items[i] = "PENDING"} = {}
               /\ b.failed = Listing!Count(items, "FAILED")
               /\ b.succeeded = Listing!Count(items, "SUCCEEDED")
<1> DEFINE b == Listing!Counts(items, running)
           pending == {i \in Listing!Item : items[i] = "PENDING"}
<1>1. Listing!Count(items, "PENDING") > 0 <=> pending # {}
    <2>1. IsFiniteSet(Listing!Item)
        BY FS_Interval DEF Listing!Item
    <2>2. IsFiniteSet(pending) /\ Cardinality(pending) \in Nat
        BY <2>1, FS_Subset, FS_CardinalityType
    <2>3. Cardinality(pending) = 0 <=> pending = {}
        BY <2>2, FS_EmptySet, Zenon
    <2>4. Listing!Count(items, "PENDING") = Cardinality(pending)
        BY SameCardinality DEF Listing!Count
    <2> QED
        BY <2>2, <2>3, <2>4
<1>2. b.status \in Listing!Ended <=> ~(Listing!Count(items, "PENDING") > 0)
    BY DEF Listing!Counts, Listing!Ended
<1>3. b.failed = Listing!Count(items, "FAILED") /\ b.succeeded = Listing!Count(items, "SUCCEEDED")
    BY DEF Listing!Counts
<1> HIDE DEF b, pending
<1> QED
    BY <1>1, <1>2, <1>3 DEF b, pending

\* An item that is settled takes the counts with it (_run, _mark_failed).
LEMMA SettleKeeps ==
    ASSUME Items \in Nat, ListingInv, NEW status \in {"SUCCEEDED", "FAILED"},
           step # None, Listing!Settle(status),
           status = "SUCCEEDED" <=> step.at = "called",
           UNCHANGED <<published, interrupted>>, None \notin
             [on: Listing!Item, at: {"calling", "called", "failed"}]
    PROVE  ListingInv'
<1>1. step.on \in Listing!Item /\ item' = [item EXCEPT ![step.on] = status] /\ step' = None
    BY DEF ListingInv, Listing!Settle
<1>2. item' \in [Listing!Item -> Fate]
    BY <1>1 DEF ListingInv, Fate
<1>3. CountsTell(batch)'
    <2>1. batch' = Listing!Counts(item', TRUE)
        BY DEF Listing!Settle
    <2> QED
        BY <2>1, CountsAreRight DEF CountsTell, Listing!ToDo
<1>4. ASSUME NEW i \in Listing!Item \ interrupted
      PROVE  published[i] = IF item'[i] = "SUCCEEDED" THEN 1 ELSE 0
    BY <1>1 DEF ListingInv, Listing!InHand, Listing!At
<1>5. Listing!InHand' = {}
    BY <1>1 DEF Listing!InHand, Listing!At
<1> QED
    BY <1>1, <1>2, <1>3, <1>4, <1>5 DEF ListingInv

\* Whatever happens between two commits leaves the counts alone.
LEMMA StepKeepsListing ==
    ASSUME Items \in Nat, ListingInv, [Listing!Next]_(Listing!vars),
           None \notin [on: Listing!Item, at: {"calling", "called", "failed"}]
    PROVE  ListingInv'
<1>1. ASSUME UNCHANGED <<item, batch>>
      PROVE  CountsTell(batch)'
    BY <1>1 DEF ListingInv, CountsTell, Listing!ToDo
<1>2. CASE Listing!Take
    BY <1>1, <1>2 DEF Listing!Take, ListingInv, Listing!InHand, Listing!At
<1>3. CASE Listing!Pick
    <2>1. CASE Listing!ToDo = {}
        <3>1. /\ batch' = Listing!Counts(item, FALSE) /\ step = None
              /\ UNCHANGED <<item, step, published, interrupted>>
            BY <1>3, <2>1 DEF Listing!Pick
        <3>2. CountsTell(batch)'
            BY <3>1, CountsAreRight DEF CountsTell, Listing!ToDo
        <3> QED
            BY <3>1, <3>2 DEF ListingInv, Listing!InHand, Listing!At
    <2>2. CASE Listing!ToDo # {}
        <3> DEFINE on == CHOOSE i \in Listing!ToDo : \A j \in Listing!ToDo : i <= j
        <3>1. /\ step' = [on |-> on, at |-> "calling"] /\ step = None
              /\ UNCHANGED <<item, batch, batchTask, published, interrupted>> /\ batchTask = "running"
            BY <1>3, <2>2 DEF Listing!Pick
        <3>2. on \in Listing!ToDo
            <4>1. Listing!ToDo \subseteq Nat
                BY DEF Listing!ToDo, Listing!Item
            <4>2. \E i \in Listing!ToDo : \A j \in Listing!ToDo : i <= j
                BY <2>2, <4>1, LeastNumber
            <4> QED
                BY <4>2
        <3> HIDE DEF on
        <3>3. on \in Listing!Item /\ item[on] = "PENDING"
            BY <3>2 DEF Listing!ToDo
        <3>4. Listing!InHand' = {} /\ Listing!InHand = {}
            BY <3>1 DEF Listing!InHand, Listing!At
        <3> QED
            BY <1>1, <3>1, <3>3, <3>4 DEF ListingInv
    <2> QED
        BY <2>1, <2>2
<1>4. CASE Listing!Call
    <2>1. /\ step # None /\ step.at = "calling" /\ step' = [step EXCEPT !.at = "called"]
          /\ published' = [published EXCEPT ![step.on] = @ + 1]
          /\ UNCHANGED <<item, batch, batchTask, interrupted>>
        BY <1>4 DEF Listing!Call, Listing!At
    <2>2. step \in [on: Listing!Item, at: {"calling", "called", "failed"}]
        BY <2>1 DEF ListingInv
    <2>3. /\ step' \in [on: Listing!Item, at: {"calling", "called", "failed"}]
          /\ step'.on = step.on /\ step'.at = "called" /\ step' # None
        BY <2>1, <2>2
    <2>4. Listing!InHand' = {step.on} /\ Listing!InHand = {}
        BY <2>1, <2>3 DEF Listing!InHand, Listing!At
    <2>5. item[step.on] = "PENDING" /\ batchTask = "running"
        BY <2>1 DEF ListingInv
    <2>6. published' \in [Listing!Item -> Nat]
        BY <2>1, <2>2 DEF ListingInv
    <2>7. ASSUME NEW i \in Listing!Item \ interrupted
          PROVE  published'[i] = IF item[i] = "SUCCEEDED" \/ i = step.on THEN 1 ELSE 0
        BY <2>1, <2>2, <2>4, <2>5 DEF ListingInv
    <2> QED
        BY <1>1, <2>1, <2>3, <2>4, <2>5, <2>6, <2>7 DEF ListingInv
<1>5. CASE Listing!CallFails \/ Listing!CommitFails
    <2>1. /\ step # None /\ step' = [step EXCEPT !.at = "failed"]
          /\ UNCHANGED <<item, batch, batchTask>>
          /\ \/ step.at = "calling" /\ UNCHANGED <<published, interrupted>>
             \/ /\ published' \in {published, [published EXCEPT ![step.on] = @ + 1]}
                /\ interrupted' = interrupted \cup {step.on}
        BY <1>5 DEF Listing!CallFails, Listing!CommitFails, Listing!At
    <2>2. step \in [on: Listing!Item, at: {"calling", "called", "failed"}]
        BY <2>1 DEF ListingInv
    <2>3. /\ step' \in [on: Listing!Item, at: {"calling", "called", "failed"}]
          /\ step'.on = step.on /\ step'.at = "failed" /\ step' # None
        BY <2>1, <2>2
    <2>4. Listing!InHand' = {} /\ Listing!InHand \subseteq {step.on}
          /\ (step.at = "calling" => Listing!InHand = {})
        BY <2>1, <2>3 DEF Listing!InHand, Listing!At
    <2>5. item[step.on] = "PENDING" /\ batchTask = "running"
        BY <2>1 DEF ListingInv
    <2>6. published' \in [Listing!Item -> Nat]
        BY <2>1, <2>2 DEF ListingInv
    <2>7. ASSUME NEW i \in Listing!Item \ interrupted'
          PROVE  published'[i] = IF item[i] = "SUCCEEDED" THEN 1 ELSE 0
        BY <2>1, <2>2, <2>4 DEF ListingInv
    <2> QED
        BY <1>1, <2>1, <2>3, <2>4, <2>5, <2>6, <2>7 DEF ListingInv
<1>6. CASE Listing!Commit
    <2>1. step # None /\ step.at = "called" /\ Listing!Settle("SUCCEEDED") /\ UNCHANGED <<published, interrupted>>
        BY <1>6 DEF Listing!Commit, Listing!At
    <2> QED
        BY <2>1, SettleKeeps
<1>7. CASE Listing!MarkFailed
    <2>1. step # None /\ step.at = "failed" /\ Listing!Settle("FAILED") /\ UNCHANGED <<published, interrupted>>
        BY <1>7 DEF Listing!MarkFailed, Listing!At
    <2> QED
        BY <2>1, SettleKeeps
<1>8. CASE Listing!LoseWorker \/ Listing!Abort
    <2>1. /\ step' = None /\ interrupted' = interrupted \cup Listing!InHand
          /\ UNCHANGED <<item, batch, published>>
        BY <1>8 DEF Listing!LoseWorker, Listing!Abort
    <2>2. Listing!InHand' = {}
        BY <2>1 DEF Listing!InHand, Listing!At
    <2> QED
        BY <1>1, <2>1, <2>2 DEF ListingInv
<1>9. CASE UNCHANGED Listing!vars
    BY <1>1, <1>9 DEF Listing!vars, ListingInv, Listing!InHand, Listing!At
<1> QED
    BY <1>2, <1>3, <1>4, <1>5, <1>6, <1>7, <1>8, <1>9 DEF Listing!Next

(***************************************************************************)
(* The statuses of a batch of any size tell what is at the platform,       *)
(* however often its worker is lost (_run, _mark_failed).                  *)
(***************************************************************************)
THEOREM StatusesKept == Listing!Spec => []Listing!StatusesTell
<1>1. Listing!Init => ListingInv
    <2> SUFFICES ASSUME Listing!Init PROVE ListingInv
        OBVIOUS
    <2>1. item \in [Listing!Item -> {"PENDING", "SKIPPED"}] /\ step = None
          /\ published = [i \in Listing!Item |-> 0] /\ batch = Listing!Counts(item, FALSE)
        BY DEF Listing!Init
    <2>2. CountsTell(batch)
        BY <2>1, CountsAreRight, ListingAssumption DEF CountsTell, Listing!ToDo
    <2>3. Listing!InHand = {}
        BY <2>1 DEF Listing!InHand, Listing!At
    <2> QED
        BY <2>1, <2>2, <2>3 DEF ListingInv, Fate
<1>2. ListingInv /\ [Listing!Next]_(Listing!vars) => ListingInv'
    BY StepKeepsListing, ListingAssumption DEF Listing!Item
<1>3. ListingInv => Listing!StatusesTell
    BY DEF ListingInv, CountsTell, Listing!StatusesTell
<1> QED
    BY <1>1, <1>2, <1>3, PTL DEF Listing!Spec

-----------------------------------------------------------------------------
(* What an order takes from the stock (OrderStock).                         *)

\* The sums that the part counts with are those that the lemmas are about.
LEMMA SameSum ==
    ASSUME NEW f, NEW S
    PROVE  /\ Goods!SumFunctionOnSet(f, S) = SumFunctionOnSet(f, S)
           /\ Goods!SumFunction(f) = SumFunctionOnSet(f, DOMAIN f)
BY DEF Goods!SumFunctionOnSet, Goods!SumFunction, Goods!FoldFunctionOnSet, Goods!FoldFunction,
       Goods!MapThenFoldSet, SumFunctionOnSet, FoldFunctionOnSet, MapThenFoldSet

Balances(bins) ==
    /\ IsFiniteSet(DOMAIN bins) /\ DOMAIN bins \subseteq Nat
    /\ \A h \in DOMAIN bins : /\ bins[h].avail \in Int /\ bins[h].occ \in Int
                              /\ bins[h].default \in BOOLEAN

FreeOf(bins) == [h \in DOMAIN bins |-> Goods!FreeQty(bins[h])]

\* The warehouses are asked in an order (plan_allocations, ranked).
LEMMA AskedInOrder ==
    ASSUME NEW bins, Balances(bins)
    PROVE  /\ \A h \in DOMAIN bins : FreeOf(bins)[h] \in Int
           /\ \A h \in DOMAIN bins : ~Goods!Precedes(bins, h, h)
           /\ \A g, h \in DOMAIN bins :
                 g # h => Goods!Precedes(bins, g, h) \/ Goods!Precedes(bins, h, g)
           /\ \A f, g, h \in DOMAIN bins :
                 Goods!Precedes(bins, f, g) /\ Goods!Precedes(bins, g, h)
                 => Goods!Precedes(bins, f, h)
<1>1. \A h \in DOMAIN bins : Goods!FreeQty(bins[h]) \in Int /\ h \in Nat
    BY DEF Balances, Goods!FreeQty
<1>2. \A h \in DOMAIN bins : bins[h].default \in BOOLEAN
    BY DEF Balances
<1>3. \A h \in DOMAIN bins : FreeOf(bins)[h] \in Int
    BY <1>1 DEF FreeOf
<1>4. \A h \in DOMAIN bins : ~Goods!Precedes(bins, h, h)
    BY <1>1 DEF Goods!Precedes
<1>5. ASSUME NEW g \in DOMAIN bins, NEW h \in DOMAIN bins, g # h
      PROVE  Goods!Precedes(bins, g, h) \/ Goods!Precedes(bins, h, g)
    BY <1>1, <1>2, <1>5 DEF Goods!Precedes
<1>6. ASSUME NEW f \in DOMAIN bins, NEW g \in DOMAIN bins, NEW h \in DOMAIN bins,
             Goods!Precedes(bins, f, g), Goods!Precedes(bins, g, h)
      PROVE  Goods!Precedes(bins, f, h)
    BY <1>1, <1>2, <1>6 DEF Goods!Precedes
<1> QED
    BY <1>3, <1>4, <1>5, <1>6

Earlier(bins, h) == {g \in Goods!UsableIn(bins) : Goods!Precedes(bins, g, h)}

\* What one warehouse gives.
LEMMA OneGives ==
    ASSUME NEW bins, Balances(bins), NEW quantity \in Nat, NEW h \in Goods!UsableIn(bins)
    PROVE  LET wanted == quantity - SumFunctionOnSet(FreeOf(bins), Earlier(bins, h))
               free == FreeOf(bins)[h]
           IN  /\ h \in DOMAIN bins /\ wanted \in Int /\ free \in Int /\ free > 0
               /\ Goods!PlanAllocations(bins, quantity)[h]
                     = IF wanted > 0 THEN IF free < wanted THEN free ELSE wanted ELSE 0
<1> DEFINE free == FreeOf(bins)[h]
           wanted == quantity - SumFunctionOnSet(FreeOf(bins), Earlier(bins, h))
           gives == Goods!PlanAllocations(bins, quantity)[h]
<1>1. Goods!Wanted(bins, quantity, h) = wanted
    BY SameSum DEF Goods!Wanted, Goods!FreeIn, FreeOf, Earlier
<1>2. Earlier(bins, h) \subseteq DOMAIN bins /\ h \in DOMAIN bins /\ Goods!Usable(bins[h])
    BY DEF Goods!UsableIn, Earlier
<1>3. IsFiniteSet(Earlier(bins, h)) /\ \A g \in Earlier(bins, h) : FreeOf(bins)[g] \in Int
    BY <1>2, AskedInOrder, FS_Subset DEF Balances
<1>4. wanted \in Int /\ free \in Int
    <2>1. SumFunctionOnSet(FreeOf(bins), Earlier(bins, h)) \in Int
        BY <1>3, SumType
    <2> QED
        BY <1>2, <2>1, AskedInOrder
<1>5. gives = IF wanted > 0 THEN IF free < wanted THEN free ELSE wanted ELSE 0
    BY <1>1, <1>2 DEF Goods!PlanAllocations, Goods!Lesser, FreeOf
<1>6. free > 0
    BY <1>2 DEF Goods!Usable, FreeOf
<1> QED
    BY <1>2, <1>4, <1>5, <1>6

\* Nobody gives more than is free (plan_allocations).
LEMMA EachGives ==
    ASSUME NEW bins, Balances(bins), NEW quantity \in Nat, NEW h \in DOMAIN bins
    PROVE  LET gives == Goods!PlanAllocations(bins, quantity)[h]
           IN  /\ gives \in Nat
               /\ gives > 0 => h \in Goods!UsableIn(bins) /\ gives <= FreeOf(bins)[h]
<1> DEFINE gives == Goods!PlanAllocations(bins, quantity)[h]
<1>1. CASE h \in Goods!UsableIn(bins)
    <2> DEFINE free == FreeOf(bins)[h]
               wanted == quantity - SumFunctionOnSet(FreeOf(bins), Earlier(bins, h))
    <2>1. /\ wanted \in Int /\ free \in Int /\ free > 0
          /\ gives = IF wanted > 0 THEN IF free < wanted THEN free ELSE wanted ELSE 0
        BY <1>1, OneGives
    <2> HIDE DEF gives, free, wanted
    <2>2. gives \in Nat /\ gives <= free
        BY <2>1
    <2> QED
        BY <1>1, <2>2 DEF gives, free
<1>2. CASE h \notin Goods!UsableIn(bins)
    BY <1>2 DEF Goods!PlanAllocations, Goods!UsableIn
<1> QED
    BY <1>1, <1>2

\* The first warehouses of the order together give what they have or all that is wanted.
LEMMA FirstOnesGive ==
    ASSUME NEW bins, Balances(bins), NEW quantity \in Nat,
           NEW T0 \in SUBSET Goods!UsableIn(bins),
           \A h \in T0 : \A g \in Goods!UsableIn(bins) : Goods!Precedes(bins, g, h) => g \in T0
    PROVE  SumFunctionOnSet(Goods!PlanAllocations(bins, quantity), T0)
              = LET free == SumFunctionOnSet(FreeOf(bins), T0)
                IN  IF quantity < free THEN quantity ELSE free
<1> DEFINE V == Goods!UsableIn(bins)
           plan == Goods!PlanAllocations(bins, quantity)
           free == FreeOf(bins)
           less(x, y) == IF x < y THEN x ELSE y
           Closed(T) == \A h \in T : \A g \in V : Goods!Precedes(bins, g, h) => g \in T
           Told(T) == SumFunctionOnSet(plan, T) = less(quantity, SumFunctionOnSet(free, T))
           U == {T \in SUBSET V : Closed(T) => Told(T)}
<1>1. V \subseteq DOMAIN bins /\ IsFiniteSet(V)
    BY FS_Subset DEF Goods!UsableIn, Balances
<1>2. \A h \in V : plan[h] \in Int /\ free[h] \in Int
    BY <1>1, EachGives, AskedInOrder
<1>3. ASSUME NEW T \in SUBSET V, \A R \in SUBSET T : R # T => R \in U, Closed(T)
      PROVE  Told(T)
    <2>1. IsFiniteSet(T)
        BY <1>1, FS_Subset
    <2>2. CASE T = {}
        <3>1. SumFunctionOnSet(plan, {}) = 0 /\ SumFunctionOnSet(free, {}) = 0
            BY SumEmpty
        <3> QED
            BY <2>2, <3>1
    <2>3. CASE T # {}
        <3> DEFINE R == {p \in (DOMAIN bins) \X (DOMAIN bins) : Goods!Precedes(bins, p[1], p[2])}
        <3>1. /\ \A x, y \in T : x # y => <<x, y>> \in R \/ <<y, x>> \in R
              /\ \A x, y, z \in T : <<x, y>> \in R /\ <<y, z>> \in R => <<x, z>> \in R
            BY <1>1, AskedInOrder
        <3>2. PICK h \in T : \A g \in T \ {h} : <<g, h>> \in R
            <4> HIDE DEF R, V, U, Closed, Told, plan, free
            <4>1. \A x, y \in T : x # y => <<x, y>> \in R \/ <<y, x>> \in R
                BY <3>1, Zenon
            <4>2. \A x, y, z \in T : <<x, y>> \in R /\ <<y, z>> \in R => <<x, z>> \in R
                BY <3>1, Zenon
            <4>3. IsFiniteSet(T) /\ T # {}
                BY <2>1, <2>3, Zenon
            <4> QED
                BY <4>1, <4>2, <4>3, LastOne, SMTT(30)
        <3>3. \A g \in T \ {h} : Goods!Precedes(bins, g, h)
            BY <3>2
        <3>4. T \ {h} = Earlier(bins, h)
            <4>1. ~Goods!Precedes(bins, h, h)
                BY <1>1, AskedInOrder
            <4> QED
                BY <1>3, <3>3, <4>1 DEF Earlier
        <3>5. Closed(T \ {h})
            <4> SUFFICES ASSUME NEW f \in T \ {h}, NEW g \in V, Goods!Precedes(bins, g, f)
                         PROVE  g \in T \ {h}
                OBVIOUS
            <4>1. Goods!Precedes(bins, f, h)
                BY <3>3
            <4>2. Goods!Precedes(bins, g, h)
                BY <1>1, <4>1, AskedInOrder
            <4> QED
                BY <3>4, <4>2 DEF Earlier
        <3>6. Told(T \ {h})
            <4>1. T \ {h} \in U
                BY <1>3
            <4> QED
                BY <3>5, <4>1
        <3> DEFINE f == free[h]
                   sum == SumFunctionOnSet(free, T \ {h})
                   wanted == quantity - sum
        <3>7. /\ f \in Int /\ f > 0 /\ wanted \in Int
              /\ plan[h] = IF wanted > 0 THEN less(f, wanted) ELSE 0
            BY <3>4, OneGives
        <3>8. /\ SumFunctionOnSet(plan, T) = plan[h] + SumFunctionOnSet(plan, T \ {h})
              /\ SumFunctionOnSet(free, T) = f + sum
            <4>1. \A x \in T : plan[x] \in Int /\ free[x] \in Int
                BY <1>2
            <4> HIDE DEF plan, free
            <4> QED
                BY <2>1, <4>1, SumSplit
        <3>9. sum \in Int
            <4>1. \A x \in T \ {h} : free[x] \in Int
                BY <1>2
            <4>2. IsFiniteSet(T \ {h})
                BY <2>1, FS_Subset
            <4> HIDE DEF free
            <4> QED
                BY <4>1, <4>2, SumType
        <3>10. SumFunctionOnSet(plan, T \ {h}) = less(quantity, sum)
            BY <3>6
        <3> HIDE DEF plan, free, f, sum
        <3>11. SumFunctionOnSet(plan, T) = less(quantity, SumFunctionOnSet(free, T))
            BY <3>7, <3>8, <3>9, <3>10
        <3> QED
            BY <3>11
    <2> QED
        BY <2>2, <2>3
<1> HIDE DEF Told, Closed, V
<1>4. \A T \in SUBSET V : T \in U
    <2>1. ASSUME NEW T \in SUBSET V, \A R \in SUBSET T : R # T => R \in U
          PROVE  T \in U
        BY <1>3, <2>1
    <2> HIDE DEF U
    <2> QED
        BY <1>1, <2>1, SubsetInduction
<1>5. T0 \in U
    BY <1>4 DEF V
<1>6. Closed(T0)
    BY DEF Closed, V
<1> QED
    BY <1>5, <1>6 DEF Told

\* All of them together (plan_allocations).
LEMMA PlanTotal ==
    ASSUME NEW bins, Balances(bins), NEW quantity \in Nat
    PROVE  /\ Goods!SumFunction(Goods!PlanAllocations(bins, quantity))
                 = Goods!Lesser(quantity, Goods!FreeIn(bins, Goods!UsableIn(bins)))
           /\ Goods!SumFunction(Goods!PlanAllocations(bins, quantity)) <= quantity
<1> DEFINE plan == Goods!PlanAllocations(bins, quantity)
           V == Goods!UsableIn(bins)
           free == SumFunctionOnSet(FreeOf(bins), V)
<1>1. V \subseteq DOMAIN bins /\ DOMAIN plan = DOMAIN bins /\ IsFiniteSet(DOMAIN bins)
    BY DEF Goods!UsableIn, Goods!PlanAllocations, Balances
<1>2. \A h \in DOMAIN bins : plan[h] \in Int /\ (h \notin V => plan[h] = 0)
    BY EachGives
<1>3. Goods!SumFunction(plan) = SumFunctionOnSet(plan, DOMAIN bins)
    BY <1>1, SameSum
<1>4. SumFunctionOnSet(plan, DOMAIN bins) = SumFunctionOnSet(plan, V)
    <2> HIDE DEF plan, V
    <2> QED
        BY <1>1, <1>2, SumOutside
<1>5. Goods!FreeIn(bins, V) = free
    BY SameSum DEF Goods!FreeIn, FreeOf
<1>6. SumFunctionOnSet(plan, V) = IF quantity < free THEN quantity ELSE free
    BY FirstOnesGive
<1>7. free \in Int
    <2>1. IsFiniteSet(V) /\ \A h \in V : FreeOf(bins)[h] \in Int
        BY <1>1, FS_Subset, AskedInOrder
    <2> HIDE DEF V
    <2> QED
        BY <2>1, SumType
<1> HIDE DEF plan, V, free
<1>8. /\ Goods!SumFunction(plan) = Goods!Lesser(quantity, Goods!FreeIn(bins, V))
      /\ Goods!SumFunction(plan) <= quantity
    BY <1>3, <1>4, <1>5, <1>6, <1>7 DEF Goods!Lesser
<1> QED
    BY <1>8 DEF plan, V

(***************************************************************************)
(* A plan gives an order what it asks for or all there is, nobody gives    *)
(* more than is free, and the default warehouse comes first, for any       *)
(* balances (plan_allocations).                                            *)
(***************************************************************************)
THEOREM PlanGivesAll ==
    ASSUME NEW bins, Balances(bins), NEW quantity \in Nat,
           \A g, h \in DOMAIN bins : bins[g].default /\ bins[h].default => g = h
    PROVE  Goods!PlanHolds(bins, quantity)
<1> DEFINE plan == Goods!PlanAllocations(bins, quantity)
           V == Goods!UsableIn(bins)
           free == FreeOf(bins)
<1>1. V \subseteq DOMAIN bins /\ DOMAIN plan = DOMAIN bins /\ IsFiniteSet(DOMAIN bins)
    BY DEF Goods!UsableIn, Goods!PlanAllocations, Balances
<1>3. Goods!SumFunction(plan) = Goods!Lesser(quantity, Goods!FreeIn(bins, V))
    BY PlanTotal
<1>4. ASSUME NEW h \in DOMAIN bins, plan[h] > 0
      PROVE  h \in V /\ plan[h] <= Goods!FreeQty(bins[h])
    BY <1>4, EachGives DEF FreeOf
<1>5. ASSUME NEW h \in V, bins[h].default
      PROVE  plan[h] = Goods!Lesser(Goods!FreeQty(bins[h]), quantity)
    <2>1. Earlier(bins, h) = {}
        <3> SUFFICES ASSUME NEW g \in V, Goods!Precedes(bins, g, h) PROVE FALSE
            BY DEF Earlier
        <3>1. bins[g].default /\ g \in DOMAIN bins /\ h \in DOMAIN bins
            BY <1>1, <1>5 DEF Goods!Precedes, Balances
        <3>2. g = h
            BY <1>5, <3>1
        <3> QED
            BY <3>1, <3>2, AskedInOrder
    <2>2. SumFunctionOnSet(FreeOf(bins), {}) = 0
        BY SumEmpty
    <2>3. /\ free[h] \in Int /\ free[h] > 0
          /\ plan[h] = IF quantity > 0 THEN IF free[h] < quantity THEN free[h] ELSE quantity
                       ELSE 0
        <3> DEFINE wanted == quantity - SumFunctionOnSet(FreeOf(bins), Earlier(bins, h))
        <3>1. wanted = quantity
            BY <2>1, <2>2
        <3>2. /\ free[h] \in Int /\ free[h] > 0
              /\ plan[h] = IF wanted > 0 THEN IF free[h] < wanted THEN free[h] ELSE wanted
                           ELSE 0
            BY OneGives
        <3> HIDE DEF wanted, plan, free
        <3> QED
            BY <3>1, <3>2
    <2>4. free[h] = Goods!FreeQty(bins[h])
        BY <1>1 DEF FreeOf
    <2> HIDE DEF plan, free
    <2> QED
        BY <2>3, <2>4 DEF Goods!Lesser
<1> QED
    BY <1>1, <1>3, <1>4, <1>5 DEF Goods!PlanHolds

-----------------------------------------------------------------------------
\* A shipment under way has taken and still wants what was ordered, plans no more than that,
\* and a copy that it may still write with is the balance itself.
DrawInv ==
    tx # None =>
        /\ tx \in Goods!InTx
        /\ holds[tx.line] = None
        /\ Goods!SumFunction(tx.taken) + tx.left = Ordered
        /\ Goods!SumFunction(tx.plan) <= tx.left
        /\ \A h \in Goods!Warehouse :
              /\ h \in tx.fresh => tx.seen[h] = stock[h]
              /\ tx.plan[h] > 0 => tx.plan[h] <= tx.seen[h]

GoodsInv ==
    /\ Goods!TypeOK
    /\ rest \in [Goods!Warehouse -> Int]
    /\ DrawInv
    /\ Goods!HoldsExplainStock

LEMMA GoodsFacts ==
    /\ IsFiniteSet(Goods!Warehouse) /\ Goods!Warehouse \subseteq Nat
    /\ IsFiniteSet(Goods!Line) /\ Ordered \in Nat /\ Passes \in Nat
    /\ \A h \in Goods!Warehouse : Places[h] \in [avail: Nat, occ: Nat, default: BOOLEAN,
                                     type: {"LOCAL", "OVERSEAS", "FBA", "PLATFORM"}]
    /\ Goods!Nothing \in [Goods!Warehouse -> 0..Ordered]
    /\ Goods!SumFunction(Goods!Nothing) = 0
<1>1. IsFiniteSet(1..MaxLine)
    <2>1. 1 \in Int /\ MaxLine \in Int
        BY GoodsAssumption
    <2> QED
        BY <2>1, FS_Interval
<1>2. /\ DOMAIN Goods!Nothing = Goods!Warehouse
      /\ \A h \in Goods!Warehouse : Goods!Nothing[h] = 0
    BY DEF Goods!Nothing
<1>3. IsFiniteSet(Goods!Warehouse)
    BY GoodsAssumption DEF Goods!Warehouse
<1>4. SumFunctionOnSet(Goods!Nothing, Goods!Warehouse) = 0
    BY <1>2, <1>3, SumZero
<1>5. Goods!SumFunction(Goods!Nothing) = 0
    BY <1>2, <1>4, SameSum
<1> QED
    BY <1>1, <1>3, <1>5, GoodsAssumption DEF Goods!Warehouse, Goods!Line, Goods!Nothing

\* The plan of a pass fits what is wanted and what the copies show (_draw).
LEMMA PlanFits ==
    ASSUME Goods!TypeOK, DrawInv, tx # None
    PROVE  /\ Goods!Plan \in [Goods!Warehouse -> 0..Ordered]
           /\ Goods!SumFunction(Goods!Plan) <= tx.left
           /\ \A h \in Goods!Warehouse : Goods!Plan[h] > 0 => Goods!Plan[h] <= tx.seen[h]
<1> DEFINE bins == Goods!SeenBins
           W == Goods!Warehouse
           plan == Goods!PlanAllocations(bins, tx.left)
<1>1. tx \in Goods!InTx
    BY DEF DrawInv
<1>2. tx.left \in Nat /\ tx.left \in 0..Ordered /\ tx.seen \in [W -> Int]
    BY <1>1, GoodsFacts DEF Goods!InTx
<1>3. /\ DOMAIN bins = W
      /\ \A h \in W : /\ bins[h].avail = tx.seen[h] /\ bins[h].occ \in Nat
                      /\ bins[h].default \in BOOLEAN
    <2>1. DOMAIN bins = W
        BY DEF Goods!SeenBins
    <2>2. ASSUME NEW h \in W
          PROVE  bins[h].avail = tx.seen[h] /\ bins[h].occ \in Nat /\ bins[h].default \in BOOLEAN
        <3>1. bins[h] = [Places[h] EXCEPT !.avail = tx.seen[h]]
            BY DEF Goods!SeenBins
        <3>2. Places[h] \in [avail: Nat, occ: Nat, default: BOOLEAN,
                             type: {"LOCAL", "OVERSEAS", "FBA", "PLATFORM"}]
            BY GoodsFacts
        <3> HIDE DEF bins
        <3> QED
            BY <3>1, <3>2
    <2> QED
        BY <2>1, <2>2
<1>4. Balances(bins)
    <2>1. IsFiniteSet(W) /\ W \subseteq Nat /\ \A h \in W : tx.seen[h] \in Int
        BY <1>2, GoodsFacts
    <2> HIDE DEF bins, W
    <2>2. \A h \in W : bins[h].default \in BOOLEAN
        BY <1>3, Zenon
    <2>3. ASSUME NEW h \in W
          PROVE  bins[h].avail \in Int /\ bins[h].occ \in Int
        <3>1. bins[h].avail = tx.seen[h] /\ tx.seen[h] \in Int /\ bins[h].occ \in Nat
            BY <1>3, <2>1, Zenon
        <3> QED
            BY <3>1
    <2> QED
        BY <1>3, <2>1, <2>2, <2>3, Zenon DEF Balances
<1>5. Goods!Plan = plan
    BY DEF Goods!Plan
<1>6. Goods!SumFunction(plan) <= tx.left
    BY <1>2, <1>4, PlanTotal
<1>7. DOMAIN plan = W /\ plan = [h \in W |-> plan[h]]
    BY <1>3 DEF Goods!PlanAllocations
<1>8. \A h \in W : plan[h] \in Nat /\ (plan[h] > 0 => plan[h] <= FreeOf(bins)[h])
    BY <1>2, <1>3, <1>4, EachGives
<1>9. \A h \in W : FreeOf(bins)[h] \in Int /\ FreeOf(bins)[h] <= tx.seen[h]
    BY <1>2, <1>3 DEF FreeOf, Goods!FreeQty
<1>10. Goods!SumFunction(plan) = SumFunctionOnSet(plan, W)
    BY <1>7, SameSum
<1>11. SumFunctionOnSet(plan, W) \in Nat /\ \A h \in W : plan[h] <= SumFunctionOnSet(plan, W)
    <2> HIDE DEF plan, W
    <2> QED
        BY <1>8, GoodsFacts, SumAtLeast DEF W
<1> HIDE DEF plan, bins
<1>12. \A h \in W : plan[h] \in 0..Ordered /\ (plan[h] > 0 => plan[h] <= tx.seen[h])
    BY <1>2, <1>6, <1>8, <1>9, <1>10, <1>11, GoodsFacts
<1>13. plan \in [W -> 0..Ordered]
    BY <1>7, <1>12
<1> QED
    BY <1>5, <1>6, <1>12, <1>13

\* What the order has taken is only told by its holds and by the shipment under way.
LEMMA GoodsRest ==
    ASSUME GoodsInv, UNCHANGED <<holds, stock, rest, back, tx>>,
           order' \in [status: Goods!Status, line: Goods!Line, matched: BOOLEAN],
           return' \in {"NONE", "REQUESTED", "APPROVED", "REFUNDED"},
           orderJob' \in [Picker -> [doing: {"nothing", "ship", "approve", "refund"},
                                     status: Goods!Status \cup {None}]]
    PROVE  GoodsInv'
<1>1. Goods!TypeOK'
    BY DEF GoodsInv, Goods!TypeOK
<1>2. DrawInv'
    BY DEF GoodsInv, DrawInv
<1>3. Goods!HoldsExplainStock'
    BY DEF GoodsInv, Goods!HoldsExplainStock, Goods!Shipped
<1> QED
    BY <1>1, <1>2, <1>3 DEF GoodsInv

\* The order keeps a status (Decide, Manual).
LEMMA StatusTypes ==
    /\ \A current \in Goods!Status, target \in Goods!Status \cup {None} :
          Goods!Decide(current, target) \in Goods!Status
    /\ {"PAID", "SHIPPED", "REFUNDING", "REFUNDED"} \subseteq Goods!Status
    /\ None \notin Goods!Status
<1>1. {"PAID", "SHIPPED", "REFUNDING", "REFUNDED"} \subseteq Goods!Status
    BY DEF Goods!Status, Goods!MainStatus, Goods!Main
<1>2. None \notin Goods!Status
    BY GoodsAssumption
<1>3. ASSUME NEW current \in Goods!Status, NEW target \in Goods!Status \cup {None}
      PROVE  Goods!Decide(current, target) \in Goods!Status
    BY <1>2 DEF Goods!Decide
<1> QED
    BY <1>1, <1>2, <1>3

\* The sum of what an order has in one warehouse, over its lines.
LEMMA ShippedSums ==
    ASSUME Goods!TypeOK, NEW h \in Goods!Warehouse
    PROVE  Goods!Shipped(h) \in Int
<1> DEFINE f == [l \in Goods!Line |-> IF holds[l] = None THEN 0 ELSE holds[l][h]]
<1>1. DOMAIN f = Goods!Line /\ \A l \in Goods!Line : f[l] \in Int
    BY GoodsFacts DEF Goods!TypeOK
<1>2. Goods!Shipped(h) = SumFunctionOnSet(f, Goods!Line)
    BY <1>1, SameSum DEF Goods!Shipped
<1>3. SumFunctionOnSet(f, Goods!Line) \in Int
    <2> HIDE DEF f
    <2> QED
        BY <1>1, GoodsFacts, SumType
<1> QED
    BY <1>2, <1>3

\* Others change a balance that the shipment has not written (post_stock, apply_change).
LEMMA OtherKeeps ==
    ASSUME GoodsInv, NEW h \in Goods!Warehouse, NEW amount \in {-1, 1}, Goods!Other(h, amount)
    PROVE  GoodsInv'
<1>1. /\ stock' = [stock EXCEPT ![h] = @ + amount] /\ rest' = [rest EXCEPT ![h] = @ + amount]
      /\ stock[h] + amount \in Nat
      /\ tx' = IF tx = None THEN tx ELSE [tx EXCEPT !.fresh = @ \ {h}]
      /\ UNCHANGED <<order, holds, back, return, orderJob>>
    BY DEF Goods!Other, Goods!Outdated
<1>2. stock \in [Goods!Warehouse -> Nat] /\ rest \in [Goods!Warehouse -> Int]
    BY DEF GoodsInv, Goods!TypeOK
<1>3. /\ stock' \in [Goods!Warehouse -> Nat] /\ rest' \in [Goods!Warehouse -> Int]
      /\ \A g \in Goods!Warehouse : stock'[g] - rest'[g] = stock[g] - rest[g]
      /\ \A g \in Goods!Warehouse \ {h} : stock'[g] = stock[g]
    BY <1>1, <1>2
<1>4. tx # None => tx \in Goods!InTx
    BY DEF GoodsInv, DrawInv
<1>5. CASE tx = None
    <2>1. tx' = None
        BY <1>1, <1>5
    <2>2. Goods!TypeOK'
        BY <1>1, <1>3, <2>1 DEF GoodsInv, Goods!TypeOK
    <2>3. DrawInv'
        BY <2>1 DEF DrawInv
    <2>4. Goods!HoldsExplainStock'
        <3>1. \A g \in Goods!Warehouse : Goods!Shipped(g)' = Goods!Shipped(g)
            BY <1>1 DEF Goods!Shipped
        <3>2. /\ \A g \in Goods!Warehouse : stock[g] = rest[g] + back[g] - Goods!Shipped(g) - 0
              /\ \A l \in Goods!Line : holds[l] # None => Goods!SumFunction(holds[l]) <= Ordered
            BY <1>5 DEF GoodsInv, Goods!HoldsExplainStock
        <3>3. \A g \in Goods!Warehouse : Goods!Shipped(g) \in Int /\ back[g] \in Int
            BY ShippedSums DEF GoodsInv, Goods!TypeOK
        <3>4. \A g \in Goods!Warehouse : stock'[g] = rest'[g] + back[g] - Goods!Shipped(g) - 0
            BY <1>2, <1>3, <3>2, <3>3
        <3> QED
            BY <1>1, <2>1, <3>1, <3>2, <3>4 DEF Goods!HoldsExplainStock
    <2> QED
        BY <1>3, <2>2, <2>3, <2>4 DEF GoodsInv
<1>6. CASE tx # None
    <2>1. /\ tx' = [tx EXCEPT !.fresh = @ \ {h}] /\ tx \in Goods!InTx
        BY <1>1, <1>4, <1>6
    <2>2. /\ tx' \in Goods!InTx /\ tx' # None
          /\ tx'.line = tx.line /\ tx'.taken = tx.taken /\ tx'.left = tx.left
          /\ tx'.plan = tx.plan /\ tx'.seen = tx.seen /\ tx'.fresh = tx.fresh \ {h}
        <3>1. None \notin Goods!InTx
            BY GoodsAssumption
        <3> QED
            BY <2>1, <3>1 DEF Goods!InTx
    <2>3. Goods!TypeOK'
        BY <1>1, <1>3, <2>2 DEF GoodsInv, Goods!TypeOK
    <2>4. DrawInv'
        BY <1>1, <1>3, <1>6, <2>2 DEF GoodsInv, DrawInv
    <2>5. Goods!HoldsExplainStock'
        <3>1. \A g \in Goods!Warehouse : Goods!Shipped(g)' = Goods!Shipped(g)
            BY <1>1 DEF Goods!Shipped
        <3>2. /\ \A g \in Goods!Warehouse :
                    stock[g] = rest[g] + back[g] - Goods!Shipped(g) - tx.taken[g]
              /\ \A l \in Goods!Line : holds[l] # None => Goods!SumFunction(holds[l]) <= Ordered
            BY <1>6 DEF GoodsInv, Goods!HoldsExplainStock
        <3>3. \A g \in Goods!Warehouse : Goods!Shipped(g) \in Int /\ back[g] \in Int
                                         /\ tx.taken[g] \in Int
            BY <2>1, ShippedSums DEF GoodsInv, Goods!TypeOK, Goods!InTx
        <3>4. ASSUME NEW g \in Goods!Warehouse
              PROVE  stock'[g] = rest'[g] + back[g] - Goods!Shipped(g) - tx.taken[g]
            <4>1. stock[g] \in Int /\ rest[g] \in Int /\ stock'[g] \in Int /\ rest'[g] \in Int
                BY <1>2, <1>3
            <4>3. stock'[g] - rest'[g] = stock[g] - rest[g]
                BY <1>3
            <4>2. /\ stock[g] = rest[g] + back[g] - Goods!Shipped(g) - tx.taken[g]
                  /\ Goods!Shipped(g) \in Int /\ back[g] \in Int /\ tx.taken[g] \in Int
                BY <3>2, <3>3
            <4> QED
                BY <4>1, <4>2, <4>3
        <3> QED
            BY <1>1, <2>2, <3>1, <3>2, <3>4 DEF Goods!HoldsExplainStock
    <2> QED
        BY <1>3, <2>3, <2>4, <2>5 DEF GoodsInv
<1> QED
    BY <1>5, <1>6

\* What the shipment under way has taken from a warehouse.
TakenNow(h) == IF tx = None THEN 0 ELSE tx.taken[h]

\* The numbers of a warehouse are numbers.
LEMMA GoodsNumbers ==
    ASSUME GoodsInv, NEW h \in Goods!Warehouse
    PROVE  /\ stock[h] \in Int /\ rest[h] \in Int /\ back[h] \in Int
           /\ Goods!Shipped(h) \in Int /\ TakenNow(h) \in Int
           /\ stock[h] = rest[h] + back[h] - Goods!Shipped(h) - TakenNow(h)
<1>1. stock[h] \in Int /\ rest[h] \in Int /\ back[h] \in Int
    BY DEF GoodsInv, Goods!TypeOK
<1>2. Goods!Shipped(h) \in Int
    BY ShippedSums DEF GoodsInv
<1>3. TakenNow(h) \in Int
    <2>1. CASE tx = None
        BY <2>1 DEF TakenNow
    <2>2. CASE tx # None
        <3>1. tx.taken \in [Goods!Warehouse -> 0..Ordered]
            BY <2>2 DEF GoodsInv, DrawInv, Goods!InTx
        <3> QED
            BY <2>2, <3>1, GoodsFacts DEF TakenNow
    <2> QED
        BY <2>1, <2>2
<1> QED
    BY <1>1, <1>2, <1>3 DEF GoodsInv, Goods!HoldsExplainStock, TakenNow

\* Nobody holds more than was ordered.
HoldsFit == \A l \in Goods!Line : holds[l] # None => Goods!SumFunction(holds[l]) <= Ordered

\* A shipment is made of its fields.
LEMMA TxOf ==
    ASSUME NEW w \in Picker, NEW l \in Goods!Line, NEW left \in 0..Ordered,
           NEW taken \in [Goods!Warehouse -> 0..Ordered], NEW views \in [Goods!Warehouse -> Int],
           NEW fresh \in SUBSET Goods!Warehouse, NEW plan \in [Goods!Warehouse -> 0..Ordered],
           NEW passes \in 0..Passes
    PROVE  [worker |-> w, line |-> l, left |-> left, taken |-> taken, seen |-> views,
            fresh |-> fresh, plan |-> plan, passes |-> passes] \in Goods!InTx
BY DEF Goods!InTx

\* What has left a warehouse for the order, beyond what others changed: always nothing.
Gap(h) == stock[h] + Goods!Shipped(h) + TakenNow(h) - rest[h] - back[h]

\* The balances move by what is taken, put back or changed by others.
LEMMA GoodsMove ==
    ASSUME GoodsInv, Goods!TypeOK', rest' \in [Goods!Warehouse -> Int], DrawInv', HoldsFit',
           \A h \in Goods!Warehouse :
              Goods!Shipped(h)' \in Int /\ TakenNow(h)' \in Int /\ Gap(h)' = Gap(h)
    PROVE  GoodsInv'
<1>1. ASSUME NEW h \in Goods!Warehouse
      PROVE  stock'[h] = rest'[h] + back'[h] - Goods!Shipped(h)' - TakenNow(h)'
    <2>1. Gap(h) = 0
        BY GoodsNumbers DEF Gap
    <2>2. stock'[h] \in Int /\ rest'[h] \in Int /\ back'[h] \in Int
        BY DEF Goods!TypeOK
    <2>3. Goods!Shipped(h)' \in Int /\ TakenNow(h)' \in Int /\ Gap(h)' = Gap(h)
        OBVIOUS
    <2>4. stock'[h] + Goods!Shipped(h)' + TakenNow(h)' - rest'[h] - back'[h] = 0
        BY <2>1, <2>3 DEF Gap
    <2> QED
        BY <2>2, <2>3, <2>4
<1>2. Goods!HoldsExplainStock'
    BY <1>1 DEF Goods!HoldsExplainStock, TakenNow, HoldsFit
<1> QED
    BY <1>2 DEF GoodsInv

\* What the next warehouse of the plan gives is taken for the order, or looked up again
\* (_draw, _apply_once).
LEMMA TakeKeeps ==
    ASSUME GoodsInv, Goods!Take
    PROVE  GoodsInv'
<1> DEFINE W == Goods!Warehouse
<1>1. tx # None /\ tx \in Goods!InTx /\ None \notin Goods!InTx
    BY GoodsAssumption DEF Goods!Take, GoodsInv, DrawInv
<1>2. /\ tx.worker \in Picker /\ tx.line \in Goods!Line /\ tx.left \in 0..Ordered
      /\ tx.taken \in [W -> 0..Ordered] /\ tx.seen \in [W -> Int] /\ tx.fresh \in SUBSET W
      /\ tx.plan \in [W -> 0..Ordered] /\ tx.passes \in 0..Passes
    BY <1>1 DEF Goods!InTx
<1>3. PICK h \in Goods!Ahead :
         IF h \in tx.fresh
         THEN /\ stock' = [stock EXCEPT ![h] = @ - tx.plan[h]]
              /\ tx' = [tx EXCEPT !.taken = Goods!TakenToo(h, tx.plan[h]),
                          !.left = @ - tx.plan[h], !.seen[h] = stock'[h], !.plan[h] = 0,
                          !.passes = IF Goods!Ahead = {h} THEN Passes ELSE @]
         ELSE /\ tx' = [tx EXCEPT !.fresh = @ \cup {h}, !.seen[h] = stock[h],
                                  !.plan = Goods!Nothing]
              /\ UNCHANGED stock
    BY DEF Goods!Take
<1>4. h \in W /\ tx.plan[h] > 0 /\ UNCHANGED <<order, holds, rest, back, return, orderJob>>
    BY DEF Goods!Ahead, Goods!Take
<1>5. /\ holds[tx.line] = None
      /\ Goods!SumFunction(tx.taken) + tx.left = Ordered /\ Goods!SumFunction(tx.plan) <= tx.left
      /\ \A g \in W : /\ g \in tx.fresh => tx.seen[g] = stock[g]
                      /\ tx.plan[g] > 0 => tx.plan[g] <= tx.seen[g]
    BY <1>1 DEF GoodsInv, DrawInv
<1>6. stock \in [W -> Nat] /\ rest \in [W -> Int]
    BY DEF GoodsInv, Goods!TypeOK
<1>7. /\ \A g \in W : Goods!Shipped(g)' = Goods!Shipped(g) /\ Goods!Shipped(g) \in Int
      /\ HoldsFit'
    BY <1>4, GoodsNumbers DEF Goods!Shipped, GoodsInv, Goods!HoldsExplainStock, HoldsFit
<1>8. CASE h \in tx.fresh
    <2> DEFINE q == tx.plan[h]
               taken == [tx.taken EXCEPT ![h] = @ + q]
               views == [tx.seen EXCEPT ![h] = stock[h] - q]
               plan == [tx.plan EXCEPT ![h] = 0]
    <2>1. /\ stock' = [stock EXCEPT ![h] = @ - q]
          /\ tx' = [tx EXCEPT !.taken = taken, !.left = @ - q, !.seen[h] = stock'[h],
                      !.plan[h] = 0, !.passes = IF Goods!Ahead = {h} THEN Passes ELSE @]
        BY <1>3, <1>8 DEF Goods!TakenToo
    <2>2. stock'[h] = stock[h] - q
        BY <1>4, <1>6, <2>1
    <2>3. /\ tx'.worker = tx.worker /\ tx'.line = tx.line /\ tx'.left = tx.left - q
          /\ tx'.taken = taken /\ tx'.seen = views /\ tx'.fresh = tx.fresh /\ tx'.plan = plan
          /\ tx'.passes \in {Passes, tx.passes}
        BY <1>1, <2>1, <2>2 DEF Goods!InTx
    <2>4. q \in Nat /\ q <= stock[h]
        BY <1>2, <1>4, <1>5, <1>8, GoodsFacts
    <2>5. /\ Goods!SumFunction(plan) = Goods!SumFunction(tx.plan) - q
          /\ Goods!SumFunction(tx.plan) \in Int /\ q <= Goods!SumFunction(tx.plan)
        <3>1. /\ DOMAIN plan = W /\ DOMAIN tx.plan = W /\ plan[h] = 0
              /\ \A g \in W : plan[g] \in Int /\ tx.plan[g] \in Nat
              /\ \A g \in W \ {h} : tx.plan[g] = plan[g]
            BY <1>2, <1>4, GoodsFacts
        <3>2. /\ Goods!SumFunction(plan) = SumFunctionOnSet(plan, W)
              /\ Goods!SumFunction(tx.plan) = SumFunctionOnSet(tx.plan, W)
            BY <3>1, SameSum
        <3>3. IsFiniteSet(W) /\ h \in W
            BY <1>4, GoodsFacts
        <3>4. \A g \in W : tx.plan[g] \in Int /\ plan[g] \in Int
            BY <3>1
        <3> HIDE DEF plan, W
        <3>5. SumFunctionOnSet(plan, W) = SumFunctionOnSet(tx.plan, W) + plan[h] - tx.plan[h]
            BY <3>1, <3>3, <3>4, SumChange
        <3>6. SumFunctionOnSet(tx.plan, W) \in Nat /\ tx.plan[h] <= SumFunctionOnSet(tx.plan, W)
            BY <3>1, <3>3, SumAtLeast
        <3> QED
            BY <2>4, <3>1, <3>2, <3>3, <3>5, <3>6
    <2>6. /\ Goods!SumFunction(taken) = Goods!SumFunction(tx.taken) + q
          /\ Goods!SumFunction(tx.taken) \in Nat
          /\ \A g \in W : taken[g] \in Nat /\ taken[g] <= Goods!SumFunction(taken)
        <3>1. /\ DOMAIN taken = W /\ DOMAIN tx.taken = W /\ taken[h] = tx.taken[h] + q
              /\ \A g \in W : taken[g] \in Nat /\ tx.taken[g] \in Nat
              /\ \A g \in W \ {h} : tx.taken[g] = taken[g]
            BY <1>2, <1>4, <2>4, GoodsFacts
        <3>2. /\ Goods!SumFunction(taken) = SumFunctionOnSet(taken, W)
              /\ Goods!SumFunction(tx.taken) = SumFunctionOnSet(tx.taken, W)
            BY <3>1, SameSum
        <3> HIDE DEF taken, q
        <3>3. SumFunctionOnSet(taken, W) = SumFunctionOnSet(tx.taken, W) + taken[h] - tx.taken[h]
            BY <1>4, <3>1, GoodsFacts, SumChange
        <3>4. /\ SumFunctionOnSet(tx.taken, W) \in Nat
              /\ \A g \in W : taken[g] <= SumFunctionOnSet(taken, W)
            BY <1>4, <3>1, GoodsFacts, SumAtLeast
        <3>5. tx.taken[h] \in Nat /\ taken[h] = tx.taken[h] + q
            BY <1>4, <3>1
        <3> QED
            BY <2>4, <3>1, <3>2, <3>3, <3>4, <3>5
    <2>7. /\ tx.left - q \in 0..Ordered
          /\ Goods!SumFunction(taken) + (tx.left - q) = Ordered
          /\ Goods!SumFunction(plan) <= tx.left - q
          /\ \A g \in W : taken[g] \in 0..Ordered
        <3> HIDE DEF taken, plan, q
        <3> QED
            BY <1>2, <1>5, <2>4, <2>5, <2>6, GoodsFacts
    <2>8. /\ taken \in [W -> 0..Ordered] /\ views \in [W -> Int] /\ plan \in [W -> 0..Ordered]
        BY <1>2, <1>4, <1>6, <2>4, <2>7, GoodsFacts
    <2>9. tx' \in Goods!InTx
        <3> DEFINE w == tx.worker
                   l == tx.line
                   left == tx.left - q
                   passes == tx'.passes
        <3>1. tx' = [worker |-> w, line |-> l, left |-> left, taken |-> taken, seen |-> views,
                     fresh |-> tx.fresh, plan |-> plan, passes |-> passes]
            BY <1>1, <2>1, <2>2, <2>3 DEF Goods!InTx
        <3>2. passes \in 0..Passes
            BY <1>2, <2>3, GoodsFacts
        <3>3. w \in Picker /\ l \in Goods!Line /\ left \in 0..Ordered
            BY <1>2, <2>7
        <3> HIDE DEF taken, views, plan, q, w, l, left, passes
        <3> QED
            <4> HIDE DEF W
            <4>1. tx.fresh \in SUBSET W
                BY <1>2
            <4>2. /\ taken \in [W -> 0..Ordered] /\ views \in [W -> Int]
                  /\ plan \in [W -> 0..Ordered]
                BY <2>8
            <4>3. [worker |-> w, line |-> l, left |-> left, taken |-> taken, seen |-> views,
                   fresh |-> tx.fresh, plan |-> plan, passes |-> passes] \in Goods!InTx
                BY <3>2, <3>3, <4>1, <4>2, TxOf DEF W
            <4> QED
                BY <3>1, <4>3, Zenon
    <2>10. stock' \in [W -> Nat] /\ tx' # None
        <3> HIDE DEF q
        <3>1. stock[h] \in Nat /\ stock[h] - q \in Nat
            BY <1>4, <1>6, <2>4
        <3> QED
            BY <1>1, <1>4, <1>6, <2>1, <2>9, <3>1
    <2>11. Goods!TypeOK'
        BY <1>4, <2>9, <2>10 DEF GoodsInv, Goods!TypeOK
    <2>12. DrawInv'
        <3>1. \A g \in W : /\ g \in tx.fresh => views[g] = stock'[g]
                           /\ plan[g] > 0 => plan[g] <= views[g]
            BY <1>2, <1>4, <1>5, <1>6, <2>1, <2>2
        <3> HIDE DEF taken, views, plan, q
        <3> QED
            BY <1>4, <1>5, <2>3, <2>7, <2>9, <3>1 DEF DrawInv
    <2>13. ASSUME NEW g \in W
           PROVE  /\ TakenNow(g)' \in Int
                  /\ stock'[g] + TakenNow(g)' = stock[g] + TakenNow(g)
        <3>1. TakenNow(g)' = taken[g] /\ TakenNow(g) = tx.taken[g]
            BY <1>1, <2>3, <2>10 DEF TakenNow
        <3>2. taken[g] = (IF g = h THEN tx.taken[g] + q ELSE tx.taken[g])
            BY <1>2, <1>4
        <3>3. stock'[g] = (IF g = h THEN stock[g] - q ELSE stock[g])
            BY <1>4, <1>6, <2>1
        <3>4. tx.taken[g] \in Int /\ stock[g] \in Int
            BY <1>2, <1>6, GoodsFacts
        <3> HIDE DEF taken, q
        <3> QED
            BY <2>4, <3>1, <3>2, <3>3, <3>4
    <2>14. ASSUME NEW g \in W
           PROVE  Gap(g)' = Gap(g)
        <3>1. /\ stock'[g] \in Int /\ TakenNow(g)' \in Int
              /\ stock'[g] + TakenNow(g)' = stock[g] + TakenNow(g)
            BY <2>10, <2>13
        <3>2. /\ stock[g] \in Int /\ rest[g] \in Int /\ back[g] \in Int
              /\ Goods!Shipped(g) \in Int /\ TakenNow(g) \in Int
            BY GoodsNumbers
        <3>3. Goods!Shipped(g)' = Goods!Shipped(g) /\ rest'[g] = rest[g] /\ back'[g] = back[g]
            BY <1>4, <1>7
        <3> QED
            BY <3>1, <3>2, <3>3 DEF Gap
    <2>15. rest' \in [W -> Int] /\ \A g \in W : Goods!Shipped(g)' \in Int /\ TakenNow(g)' \in Int
        BY <1>4, <1>6, <1>7, <2>13
    <2> HIDE DEF taken, views, plan, q
    <2> QED
        BY <1>7, <2>11, <2>12, <2>14, <2>15, GoodsMove
<1>9. CASE h \notin tx.fresh
    <2> DEFINE views == [tx.seen EXCEPT ![h] = stock[h]]
    <2>1. /\ tx' = [tx EXCEPT !.fresh = @ \cup {h}, !.seen[h] = stock[h],
                              !.plan = Goods!Nothing]
          /\ UNCHANGED stock
        BY <1>3, <1>9
    <2>2. /\ tx'.line = tx.line /\ tx'.left = tx.left /\ tx'.taken = tx.taken
          /\ tx'.seen = views /\ tx'.fresh = tx.fresh \cup {h} /\ tx'.plan = Goods!Nothing
        BY <1>1, <2>1 DEF Goods!InTx
    <2>3. tx' \in Goods!InTx /\ tx' # None
        <3>1. /\ views \in [W -> Int] /\ Goods!Nothing \in [W -> 0..Ordered]
              /\ tx.fresh \cup {h} \in SUBSET W
            BY <1>2, <1>4, <1>6, GoodsFacts
        <3>2. tx' = [tx EXCEPT !.fresh = @ \cup {h}, !.seen = views, !.plan = Goods!Nothing]
            BY <1>1, <1>2, <2>1 DEF Goods!InTx
        <3> HIDE DEF views
        <3> QED
            BY <1>1, <1>2, <3>1, <3>2 DEF Goods!InTx
    <2>4. Goods!TypeOK'
        BY <1>4, <2>1, <2>3 DEF GoodsInv, Goods!TypeOK
    <2>5. DrawInv'
        <3>1. \A g \in W : g \in tx.fresh \cup {h} => views[g] = stock[g]
            BY <1>2, <1>4, <1>5
        <3>2. \A g \in W : Goods!Nothing[g] = 0
            BY DEF Goods!Nothing
        <3>3. 0 <= tx.left
            BY <1>2, GoodsFacts
        <3>4. Goods!SumFunction(Goods!Nothing) = 0
            BY GoodsFacts
        <3> HIDE DEF views
        <3>5. /\ holds'[tx'.line] = None
              /\ Goods!SumFunction(tx'.taken) + tx'.left = Ordered
            BY <1>4, <1>5, <2>2
        <3>6. Goods!SumFunction(tx'.plan) <= tx'.left
            BY <2>2, <3>3, <3>4
        <3>7. \A g \in W : g \in tx'.fresh => tx'.seen[g] = stock'[g]
            BY <2>1, <2>2, <3>1, Zenon
        <3>8. \A g \in W : tx'.plan[g] > 0 => tx'.plan[g] <= tx'.seen[g]
            <4>1. \A g \in W : tx'.plan[g] = 0
                BY <2>2, <3>2, Zenon
            <4> QED
                BY <4>1
        <3> QED
            BY <2>3, <3>5, <3>6, <3>7, <3>8 DEF DrawInv
    <2>6. \A g \in W : TakenNow(g)' = TakenNow(g)
        BY <1>1, <2>2, <2>3 DEF TakenNow
    <2>7. \A g \in W :
             Goods!Shipped(g)' \in Int /\ TakenNow(g)' \in Int /\ Gap(g)' = Gap(g)
        BY <1>4, <1>7, <2>1, <2>6, GoodsNumbers DEF Gap
    <2> QED
        BY <1>4, <1>6, <1>7, <2>4, <2>5, <2>7, GoodsMove
<1> QED
    BY <1>8, <1>9

\* A worker that is done has nothing in hand.
LEMMA IdleFits ==
    ASSUME Goods!TypeOK, NEW w \in Picker
    PROVE  [orderJob EXCEPT ![w] = Goods!Idle]
              \in [Picker -> [doing: {"nothing", "ship", "approve", "refund"},
                              status: Goods!Status \cup {None}]]
<1>1. Goods!Idle \in [doing: {"nothing", "ship", "approve", "refund"},
                      status: Goods!Status \cup {None}]
    BY DEF Goods!Idle
<1> QED
    BY <1>1 DEF Goods!TypeOK

\* A shipment that is rolled back leaves the balances as it found them (Abort).
LEMMA AbortKeeps ==
    ASSUME GoodsInv, NEW w \in Picker, Goods!Abort(w)
    PROVE  GoodsInv'
<1> DEFINE W == Goods!Warehouse
<1>1. /\ orderJob' = [orderJob EXCEPT ![w] = Goods!Idle]
      /\ UNCHANGED <<order, holds, rest, back, return>>
    BY DEF Goods!Abort
<1>2. /\ stock \in [W -> Nat] /\ rest \in [W -> Int] /\ Goods!TypeOK
      /\ order \in [status: Goods!Status, line: Goods!Line, matched: BOOLEAN]
      /\ return \in {"NONE", "REQUESTED", "APPROVED", "REFUNDED"}
    BY DEF GoodsInv, Goods!TypeOK
<1>3. orderJob' \in [Picker -> [doing: {"nothing", "ship", "approve", "refund"},
                                status: Goods!Status \cup {None}]]
    BY <1>1, <1>2, IdleFits
<1>4. CASE tx # None /\ tx.worker = w
    <2>1. stock' = [h \in W |-> stock[h] + tx.taken[h]] /\ tx' = None
        BY <1>4 DEF Goods!Abort
    <2>2. tx.taken \in [W -> 0..Ordered]
        BY <1>4 DEF GoodsInv, DrawInv, Goods!InTx
    <2>3. \A h \in W : stock[h] \in Nat /\ tx.taken[h] \in Nat
        BY <1>2, <2>2, GoodsFacts
    <2>4. stock' \in [W -> Nat]
        BY <2>1, <2>3
    <2>5. Goods!TypeOK'
        BY <1>1, <1>3, <2>1, <2>4 DEF GoodsInv, Goods!TypeOK
    <2>6. DrawInv' /\ rest' \in [W -> Int]
        BY <1>1, <1>2, <2>1 DEF DrawInv
    <2>7. HoldsFit' /\ \A h \in W : Goods!Shipped(h)' = Goods!Shipped(h)
        BY <1>1 DEF GoodsInv, Goods!HoldsExplainStock, HoldsFit, Goods!Shipped
    <2>8. ASSUME NEW h \in W
          PROVE  Goods!Shipped(h)' \in Int /\ TakenNow(h)' \in Int /\ Gap(h)' = Gap(h)
        <3>1. TakenNow(h) = tx.taken[h] /\ TakenNow(h)' = 0
            BY <1>4, <2>1 DEF TakenNow
        <3>2. stock'[h] = stock[h] + tx.taken[h] /\ back'[h] = back[h] /\ rest'[h] = rest[h]
            BY <1>1, <2>1
        <3>3. /\ stock[h] \in Int /\ rest[h] \in Int /\ back[h] \in Int
              /\ Goods!Shipped(h) \in Int /\ tx.taken[h] \in Int
            BY <3>1, GoodsNumbers
        <3> QED
            BY <2>7, <3>1, <3>2, <3>3 DEF Gap
    <2> QED
        BY <2>5, <2>6, <2>7, <2>8, GoodsMove
<1>5. CASE ~(tx # None /\ tx.worker = w)
    <2>1. UNCHANGED <<stock, tx>>
        BY <1>5 DEF Goods!Abort
    <2> QED
        BY <1>1, <1>2, <1>3, <2>1, GoodsRest
<1> QED
    BY <1>4, <1>5

\* A refund brings goods back to the warehouses (transition_return, receive_return).
LEMMA RefundKeeps ==
    ASSUME GoodsInv, NEW w \in Picker, Goods!Refund(w)
    PROVE  GoodsInv'
<1> DEFINE W == Goods!Warehouse
           came == IF order.matched THEN Goods!ReturnTargets ELSE Goods!Nothing
<1>1. /\ tx = None /\ orderJob' = [orderJob EXCEPT ![w] = Goods!Idle]
      /\ order' = [order EXCEPT !.status = "REFUNDED"] /\ return' = "REFUNDED"
      /\ stock' = [h \in W |-> stock[h] + came[h]]
      /\ back' = [h \in W |-> back[h] + came[h]]
      /\ UNCHANGED <<holds, rest, tx>>
    BY DEF Goods!Refund, Goods!Move
<1>2. /\ stock \in [W -> Nat] /\ back \in [W -> Nat] /\ rest \in [W -> Int] /\ Goods!TypeOK
      /\ order \in [status: Goods!Status, line: Goods!Line, matched: BOOLEAN]
      /\ holds \in [Goods!Line -> [W -> 0..Ordered] \cup {None}]
    BY DEF GoodsInv, Goods!TypeOK
<1>3. orderJob' \in [Picker -> [doing: {"nothing", "ship", "approve", "refund"},
                                status: Goods!Status \cup {None}]]
    BY <1>1, <1>2, IdleFits
<1>4. came \in [W -> 0..Ordered]
    <2>1. Goods!Nothing \in [W -> 0..Ordered] /\ Ordered \in 0..Ordered
        BY GoodsFacts
    <2>2. [Goods!Nothing EXCEPT ![Goods!Default] = Ordered] \in [W -> 0..Ordered]
        BY <2>1
    <2>3. order.line \in Goods!Line
        BY <1>2
    <2>4. holds[order.line] # None => holds[order.line] \in [W -> 0..Ordered]
        BY <1>2, <2>3
    <2> QED
        BY <2>1, <2>2, <2>4 DEF Goods!ReturnTargets
<1>5. \A h \in W : stock[h] \in Nat /\ back[h] \in Nat /\ came[h] \in Nat
    BY <1>2, <1>4, GoodsFacts
<1> HIDE DEF came
<1>6. stock' \in [W -> Nat] /\ back' \in [W -> Nat]
    BY <1>1, <1>5
<1>7. order' \in [status: Goods!Status, line: Goods!Line, matched: BOOLEAN]
    BY <1>1, <1>2, StatusTypes
<1>8. Goods!TypeOK'
    BY <1>1, <1>2, <1>3, <1>6, <1>7 DEF Goods!TypeOK
<1>9. DrawInv' /\ rest' \in [W -> Int]
    BY <1>1, <1>2 DEF DrawInv
<1>10. HoldsFit' /\ \A h \in W : Goods!Shipped(h)' = Goods!Shipped(h)
    BY <1>1 DEF GoodsInv, Goods!HoldsExplainStock, HoldsFit, Goods!Shipped
<1>11. ASSUME NEW h \in W
       PROVE  Goods!Shipped(h)' \in Int /\ TakenNow(h)' \in Int /\ Gap(h)' = Gap(h)
    <2>1. TakenNow(h) = 0 /\ TakenNow(h)' = 0
        BY <1>1 DEF TakenNow
    <2>2. stock'[h] = stock[h] + came[h] /\ back'[h] = back[h] + came[h] /\ rest'[h] = rest[h]
        BY <1>1
    <2>3. /\ stock[h] \in Int /\ rest[h] \in Int /\ back[h] \in Int
          /\ Goods!Shipped(h) \in Int /\ came[h] \in Int
        BY <1>5, GoodsNumbers
    <2> QED
        BY <1>10, <2>1, <2>2, <2>3 DEF Gap
<1> QED
    BY <1>8, <1>9, <1>10, <1>11, GoodsMove

\* One more pass is planned (_draw).
LEMMA DrawKeeps ==
    ASSUME GoodsInv, Goods!Draw
    PROVE  GoodsInv'
<1> DEFINE W == Goods!Warehouse
<1>1. /\ tx # None /\ tx \in Goods!InTx /\ None \notin Goods!InTx
      /\ tx.passes < Passes
      /\ tx' = [tx EXCEPT !.plan = Goods!Plan, !.passes = @ + 1]
      /\ UNCHANGED <<order, holds, stock, rest, back, return, orderJob>>
    BY GoodsAssumption DEF Goods!Draw, GoodsInv, DrawInv
<1>2. /\ tx.worker \in Picker /\ tx.line \in Goods!Line /\ tx.left \in 0..Ordered
      /\ tx.taken \in [W -> 0..Ordered] /\ tx.seen \in [W -> Int] /\ tx.fresh \in SUBSET W
      /\ tx.passes \in 0..Passes
    BY <1>1 DEF Goods!InTx
<1>3. /\ Goods!Plan \in [W -> 0..Ordered] /\ Goods!SumFunction(Goods!Plan) <= tx.left
      /\ \A h \in W : Goods!Plan[h] > 0 => Goods!Plan[h] <= tx.seen[h]
    BY <1>1, PlanFits DEF GoodsInv
<1>4. tx' = [worker |-> tx.worker, line |-> tx.line, left |-> tx.left, taken |-> tx.taken,
             seen |-> tx.seen, fresh |-> tx.fresh, plan |-> Goods!Plan, passes |-> tx.passes + 1]
    BY <1>1 DEF Goods!InTx
<1>5. tx.passes + 1 \in 0..Passes
    BY <1>1, <1>2, GoodsFacts
<1>6. tx' \in Goods!InTx /\ tx' # None
    <2>1. [worker |-> tx.worker, line |-> tx.line, left |-> tx.left, taken |-> tx.taken,
           seen |-> tx.seen, fresh |-> tx.fresh, plan |-> Goods!Plan,
           passes |-> tx.passes + 1] \in Goods!InTx
        BY <1>2, <1>3, <1>5, TxOf
    <2>2. tx' \in Goods!InTx
        BY <1>4, <2>1, Zenon
    <2> QED
        BY <1>1, <2>2
<1>7. /\ tx'.line = tx.line /\ tx'.left = tx.left /\ tx'.taken = tx.taken /\ tx'.seen = tx.seen
      /\ tx'.fresh = tx.fresh /\ tx'.plan = Goods!Plan
    BY <1>4
<1>8. Goods!TypeOK' /\ rest' \in [W -> Int]
    BY <1>1, <1>6 DEF GoodsInv, Goods!TypeOK
<1>9. DrawInv'
    BY <1>1, <1>3, <1>6, <1>7 DEF GoodsInv, DrawInv
<1>10. HoldsFit' /\ \A h \in W : Goods!Shipped(h)' = Goods!Shipped(h)
    BY <1>1 DEF GoodsInv, Goods!HoldsExplainStock, HoldsFit, Goods!Shipped
<1>11. \A h \in W : TakenNow(h)' = TakenNow(h)
    BY <1>1, <1>6, <1>7 DEF TakenNow
<1>12. \A h \in W : Goods!Shipped(h)' \in Int /\ TakenNow(h)' \in Int /\ Gap(h)' = Gap(h)
    BY <1>1, <1>10, <1>11, GoodsNumbers DEF Gap
<1> QED
    BY <1>8, <1>9, <1>10, <1>12, GoodsMove

\* A shipment that ends leaves what it has taken in the hold of its line (ship_order).
LEMMA EndShipKeeps ==
    ASSUME GoodsInv, Goods!EndShip
    PROVE  GoodsInv'
<1> DEFINE W == Goods!Warehouse
           l == tx.line
<1>1. /\ tx # None /\ tx \in Goods!InTx /\ holds[l] = None
      /\ Goods!SumFunction(tx.taken) + tx.left = Ordered
    BY DEF Goods!EndShip, GoodsInv, DrawInv
<1>2. /\ tx.worker \in Picker /\ l \in Goods!Line /\ tx.left \in 0..Ordered
      /\ tx.taken \in [W -> 0..Ordered]
    BY <1>1 DEF Goods!InTx
<1>3. /\ order' = [order EXCEPT !.status = "SHIPPED"]
      /\ holds' = [holds EXCEPT ![l] = tx.taken]
      /\ orderJob' = [orderJob EXCEPT ![tx.worker] = Goods!Idle]
      /\ tx' = None /\ UNCHANGED <<stock, rest, back, return>>
    BY DEF Goods!EndShip, Goods!ShipDone
<1>4. /\ stock \in [W -> Nat] /\ rest \in [W -> Int] /\ Goods!TypeOK
      /\ order \in [status: Goods!Status, line: Goods!Line, matched: BOOLEAN]
      /\ holds \in [Goods!Line -> [W -> 0..Ordered] \cup {None}]
    BY DEF GoodsInv, Goods!TypeOK
<1>5. orderJob' \in [Picker -> [doing: {"nothing", "ship", "approve", "refund"},
                                status: Goods!Status \cup {None}]]
    BY <1>2, <1>3, <1>4, IdleFits
<1>6. order' \in [status: Goods!Status, line: Goods!Line, matched: BOOLEAN]
    BY <1>3, <1>4, StatusTypes
<1>7. holds' \in [Goods!Line -> [W -> 0..Ordered] \cup {None}]
    BY <1>2, <1>3, <1>4
<1>8. Goods!TypeOK'
    BY <1>3, <1>4, <1>5, <1>6, <1>7 DEF Goods!TypeOK
<1>9. DrawInv' /\ rest' \in [W -> Int]
    BY <1>3, <1>4 DEF DrawInv
<1>10. tx.taken # None
    BY <1>2, GoodsAssumption DEF Goods!Warehouse
<1>11. HoldsFit'
    <2>1. Goods!SumFunction(tx.taken) <= Ordered
        <3>1. Goods!SumFunction(tx.taken) \in Nat
            <4>1. DOMAIN tx.taken = W /\ \A h \in W : tx.taken[h] \in Nat
                BY <1>2, GoodsFacts
            <4>2. Goods!SumFunction(tx.taken) = SumFunctionOnSet(tx.taken, W)
                BY <4>1, SameSum
            <4> QED
                BY <4>1, <4>2, GoodsFacts, SumAtLeast
        <3> QED
            BY <1>1, <1>2, <3>1, GoodsFacts
    <2>2. \A k \in Goods!Line : holds'[k] = IF k = l THEN tx.taken ELSE holds[k]
        BY <1>2, <1>3, <1>4
    <2>3. HoldsFit
        BY DEF GoodsInv, Goods!HoldsExplainStock, HoldsFit
    <2> QED
        BY <2>1, <2>2, <2>3 DEF HoldsFit
<1>12. ASSUME NEW h \in W
       PROVE  Goods!Shipped(h)' = Goods!Shipped(h) + tx.taken[h]
    <2> DEFINE f == [k \in Goods!Line |-> IF holds[k] = None THEN 0 ELSE holds[k][h]]
               g == [k \in Goods!Line |-> IF holds'[k] = None THEN 0 ELSE holds'[k][h]]
    <2>1. /\ DOMAIN f = Goods!Line /\ DOMAIN g = Goods!Line
          /\ \A k \in Goods!Line \ {l} : f[k] = g[k]
        BY <1>2, <1>3, <1>4
    <2>2. f[l] = 0 /\ g[l] = tx.taken[h]
        BY <1>1, <1>2, <1>3, <1>4, <1>10
    <2>3. \A k \in Goods!Line : f[k] \in Int /\ g[k] \in Int
        BY <1>4, <1>7, GoodsFacts
    <2>4. /\ Goods!Shipped(h) = SumFunctionOnSet(f, Goods!Line)
          /\ Goods!Shipped(h)' = SumFunctionOnSet(g, Goods!Line)
        BY <2>1, SameSum DEF Goods!Shipped
    <2> HIDE DEF f, g
    <2>5. SumFunctionOnSet(g, Goods!Line) = SumFunctionOnSet(f, Goods!Line) + g[l] - f[l]
        BY <1>2, <2>1, <2>3, GoodsFacts, SumChange
    <2>6. SumFunctionOnSet(f, Goods!Line) \in Int /\ g[l] \in Int
        BY <1>2, <2>3, GoodsFacts, SumType
    <2> QED
        BY <2>2, <2>4, <2>5, <2>6
<1>13. ASSUME NEW h \in W
       PROVE  Goods!Shipped(h)' \in Int /\ TakenNow(h)' \in Int /\ Gap(h)' = Gap(h)
    <2>1. TakenNow(h) = tx.taken[h] /\ TakenNow(h)' = 0
        BY <1>1, <1>3 DEF TakenNow
    <2>2. stock'[h] = stock[h] /\ back'[h] = back[h] /\ rest'[h] = rest[h]
        BY <1>3
    <2>3. /\ stock[h] \in Int /\ rest[h] \in Int /\ back[h] \in Int
          /\ Goods!Shipped(h) \in Int /\ tx.taken[h] \in Int
        BY <2>1, GoodsNumbers
    <2> QED
        BY <1>12, <2>1, <2>2, <2>3 DEF Gap
<1> QED
    BY <1>8, <1>9, <1>11, <1>13, GoodsMove

\* A shipment begins with nothing taken, or passes the line over (ship_order).
LEMMA ShipKeeps ==
    ASSUME GoodsInv, NEW w \in Picker, Goods!Ship(w)
    PROVE  GoodsInv'
<1> DEFINE W == Goods!Warehouse
<1>1. /\ stock \in [W -> Nat] /\ rest \in [W -> Int] /\ Goods!TypeOK
      /\ order \in [status: Goods!Status, line: Goods!Line, matched: BOOLEAN]
      /\ holds \in [Goods!Line -> [W -> 0..Ordered] \cup {None}]
      /\ return \in {"NONE", "REQUESTED", "APPROVED", "REFUNDED"}
    BY DEF GoodsInv, Goods!TypeOK
<1>2. order.line \in Goods!Line /\ tx = None
    BY <1>1 DEF Goods!Ship
<1>3. CASE order.matched /\ holds[order.line] = None
    <2> DEFINE begun == [worker |-> w, line |-> order.line, left |-> Ordered,
                         taken |-> Goods!Nothing, seen |-> stock, fresh |-> W,
                         plan |-> Goods!Nothing, passes |-> 0]
    <2>1. tx' = begun /\ UNCHANGED <<order, holds, stock, rest, back, return, orderJob>>
        BY <1>3 DEF Goods!Ship
    <2>2. begun \in Goods!InTx /\ begun # None
        <3>1. /\ Ordered \in 0..Ordered /\ 0 \in 0..Passes /\ stock \in [W -> Int]
              /\ Goods!Nothing \in [W -> 0..Ordered]
            BY <1>1, GoodsFacts
        <3>2. begun \in Goods!InTx
            BY <1>2, <3>1, TxOf
        <3>3. None \notin Goods!InTx
            BY GoodsAssumption
        <3> HIDE DEF begun
        <3> QED
            BY <3>2, <3>3
    <2>3. /\ tx'.line = order.line /\ tx'.left = Ordered /\ tx'.taken = Goods!Nothing
          /\ tx'.seen = stock /\ tx'.plan = Goods!Nothing
        BY <2>1
    <2> HIDE DEF begun
    <2>4. Goods!TypeOK' /\ rest' \in [W -> Int]
        BY <1>1, <2>1, <2>2 DEF Goods!TypeOK
    <2>5. /\ \A h \in W : Goods!Nothing[h] = 0
          /\ Goods!SumFunction(Goods!Nothing) = 0 /\ Ordered \in Nat
        BY GoodsFacts DEF Goods!Nothing
    <2>6. DrawInv'
        <3>1. /\ tx' \in Goods!InTx /\ holds'[tx'.line] = None
              /\ Goods!SumFunction(tx'.taken) + tx'.left = Ordered
              /\ Goods!SumFunction(tx'.plan) <= tx'.left
            BY <1>3, <2>1, <2>2, <2>3, <2>5
        <3>2. \A h \in W : tx'.seen[h] = stock'[h] /\ tx'.plan[h] = 0
            BY <2>1, <2>3, <2>5
        <3>3. \A h \in W : /\ h \in tx'.fresh => tx'.seen[h] = stock'[h]
                           /\ tx'.plan[h] > 0 => tx'.plan[h] <= tx'.seen[h]
            BY <3>2
        <3> QED
            BY <3>1, <3>3 DEF DrawInv
    <2>7. HoldsFit' /\ \A h \in W : Goods!Shipped(h)' = Goods!Shipped(h)
        BY <2>1 DEF GoodsInv, Goods!HoldsExplainStock, HoldsFit, Goods!Shipped
    <2>8. \A h \in W : TakenNow(h) = 0 /\ TakenNow(h)' = 0
        BY <1>2, <2>1, <2>2, <2>3, <2>5 DEF TakenNow
    <2>9. \A h \in W : Goods!Shipped(h)' \in Int /\ TakenNow(h)' \in Int /\ Gap(h)' = Gap(h)
        BY <2>1, <2>7, <2>8, GoodsNumbers DEF Gap
    <2> QED
        BY <2>4, <2>6, <2>7, <2>9, GoodsMove
<1>4. CASE ~(order.matched /\ holds[order.line] = None)
    <2>1. /\ order' = [order EXCEPT !.status = "SHIPPED"]
          /\ holds' = [holds EXCEPT ![order.line] = holds[order.line]]
          /\ orderJob' = [orderJob EXCEPT ![w] = Goods!Idle]
          /\ tx' = None /\ UNCHANGED <<stock, rest, back, return>>
        BY <1>4 DEF Goods!Ship, Goods!ShipDone
    <2>2. holds' = holds /\ tx' = tx
        BY <1>1, <1>2, <2>1
    <2>3. order' \in [status: Goods!Status, line: Goods!Line, matched: BOOLEAN]
        BY <1>1, <2>1, StatusTypes
    <2>4. orderJob' \in [Picker -> [doing: {"nothing", "ship", "approve", "refund"},
                                    status: Goods!Status \cup {None}]]
        BY <1>1, <2>1, IdleFits
    <2> QED
        BY <1>1, <2>1, <2>2, <2>3, <2>4, GoodsRest
<1> QED
    BY <1>3, <1>4

\* Steps that touch the stock of no warehouse.
LEMMA OrderKeeps ==
    ASSUME GoodsInv,
           \/ Goods!Match
           \/ \E target \in Targets : Goods!Pull(target)
           \/ Goods!CreateReturn
           \/ \E w \in Picker : Goods!LoadForShip(w) \/ Goods!LoadReturn(w) \/ Goods!Approve(w)
    PROVE  GoodsInv'
<1> DEFINE Job == [doing: {"nothing", "ship", "approve", "refund"},
                   status: Goods!Status \cup {None}]
           Kept == [status: Goods!Status, line: Goods!Line, matched: BOOLEAN]
<1>1. /\ order \in Kept /\ orderJob \in [Picker -> Job] /\ Goods!TypeOK
      /\ return \in {"NONE", "REQUESTED", "APPROVED", "REFUNDED"}
    BY DEF GoodsInv, Goods!TypeOK
<1>2. CASE Goods!Match
    <2>1. order' \in Kept
        BY <1>1, <1>2 DEF Goods!Match
    <2> QED
        BY <1>1, <1>2, <2>1, GoodsRest DEF Goods!Match
<1>3. ASSUME NEW target \in Targets, Goods!Pull(target)
      PROVE  GoodsInv'
    <2>1. /\ order' = [status |-> Goods!Decide(order.status, target), line |-> order.line + 1,
                       matched |-> FALSE]
          /\ order.line < MaxLine /\ UNCHANGED <<holds, stock, rest, back, return, orderJob, tx>>
        BY <1>3 DEF Goods!Pull
    <2>2. order.status \in Goods!Status /\ order.line + 1 \in Goods!Line
        BY <1>1, <2>1, GoodsAssumption DEF Goods!Line
    <2>3. Goods!Decide(order.status, target) \in Goods!Status
        BY <1>3, <2>2, StatusTypes, GoodsAssumption
    <2>4. order' \in Kept
        BY <2>1, <2>2, <2>3
    <2> QED
        BY <1>1, <2>1, <2>4, GoodsRest
<1>4. CASE Goods!CreateReturn
    BY <1>1, <1>4, GoodsRest DEF Goods!CreateReturn
<1>5. ASSUME NEW w \in Picker, NEW doing \in {"ship", "approve", "refund"},
             Goods!Reads(w, doing), UNCHANGED return
      PROVE  GoodsInv'
    <2>1. orderJob' \in [Picker -> Job]
        BY <1>1, <1>5 DEF Goods!Reads
    <2> QED
        BY <1>1, <1>5, <2>1, GoodsRest DEF Goods!Reads
<1>6. ASSUME NEW w \in Picker, Goods!LoadForShip(w) \/ Goods!LoadReturn(w)
      PROVE  GoodsInv'
    BY <1>5, <1>6 DEF Goods!LoadForShip, Goods!LoadReturn, Goods!Reads
<1>7. ASSUME NEW w \in Picker, Goods!Approve(w)
      PROVE  GoodsInv'
    <2>1. /\ order' = [order EXCEPT !.status = "REFUNDING"]
          /\ orderJob' = [orderJob EXCEPT ![w] = Goods!Idle] /\ return' = "APPROVED"
          /\ UNCHANGED <<holds, stock, rest, back, tx>>
        BY <1>7 DEF Goods!Approve, Goods!Move
    <2>2. order' \in Kept
        BY <1>1, <2>1, StatusTypes
    <2>3. orderJob' \in [Picker -> Job]
        BY <1>1, <2>1, IdleFits
    <2> QED
        BY <1>1, <2>1, <2>2, <2>3, GoodsRest
<1> QED
    BY <1>2, <1>3, <1>4, <1>6, <1>7

\* The order as it arrives.
LEMMA GoodsBegin == Goods!Init => GoodsInv
<1> SUFFICES ASSUME Goods!Init PROVE GoodsInv
    OBVIOUS
<1> DEFINE W == Goods!Warehouse
<1>1. /\ order = [status |-> "PAID", line |-> 1, matched |-> TRUE]
      /\ holds = [l \in Goods!Line |-> None]
      /\ stock = [h \in W |-> Places[h].avail] /\ rest = stock /\ back = Goods!Nothing
      /\ return = "NONE" /\ orderJob = [w \in Picker |-> Goods!Idle] /\ tx = None
    BY DEF Goods!Init
<1>2. 1 \in Goods!Line
    BY GoodsAssumption DEF Goods!Line
<1>3. order \in [status: Goods!Status, line: Goods!Line, matched: BOOLEAN]
    BY <1>1, <1>2, StatusTypes
<1>4. \A h \in W : Places[h].avail \in Nat /\ Goods!Nothing[h] = 0
    BY GoodsFacts DEF Goods!Nothing
<1>5. stock \in [W -> Nat] /\ rest \in [W -> Int] /\ back \in [W -> Nat]
    BY <1>1, <1>4 DEF Goods!Nothing
<1>6. orderJob \in [Picker -> [doing: {"nothing", "ship", "approve", "refund"},
                               status: Goods!Status \cup {None}]]
    BY <1>1 DEF Goods!Idle
<1>7. Goods!TypeOK
    BY <1>1, <1>3, <1>5, <1>6 DEF Goods!TypeOK
<1>8. DrawInv
    BY <1>1 DEF DrawInv
<1>9. ASSUME NEW h \in W
      PROVE  Goods!Shipped(h) = 0
    <2> DEFINE f == [l \in Goods!Line |-> IF holds[l] = None THEN 0 ELSE holds[l][h]]
    <2>1. DOMAIN f = Goods!Line /\ \A l \in Goods!Line : f[l] = 0
        BY <1>1
    <2>2. Goods!Shipped(h) = SumFunctionOnSet(f, Goods!Line)
        BY <2>1, SameSum DEF Goods!Shipped
    <2> HIDE DEF f
    <2> QED
        BY <2>1, <2>2, GoodsFacts, SumZero
<1>10. Goods!HoldsExplainStock
    <2>1. \A h \in W : stock[h] \in Int /\ rest[h] = stock[h] /\ back[h] = 0
        BY <1>1, <1>4, <1>5
    <2>2. \A h \in W : stock[h] = rest[h] + back[h] - Goods!Shipped(h) - 0
        BY <1>9, <2>1
    <2> QED
        BY <1>1, <2>2 DEF Goods!HoldsExplainStock
<1> QED
    BY <1>5, <1>7, <1>8, <1>10 DEF GoodsInv

(***************************************************************************)
(* The holds of an order tell what it took from every warehouse, for any   *)
(* warehouses, balances and quantity, in however many passes it was drawn  *)
(* and whatever others did in between (_draw, ship_order, receive_return). *)
(***************************************************************************)
THEOREM HoldsKept == Goods!Spec => []Goods!HoldsExplainStock
<1>1. GoodsInv /\ [Goods!Next]_(Goods!vars) => GoodsInv'
    <2> SUFFICES ASSUME GoodsInv, [Goods!Next]_(Goods!vars)
                 PROVE  GoodsInv'
        OBVIOUS
    <2>1. ASSUME NEW h \in Goods!Warehouse, NEW amount \in {-1, 1}, Goods!Other(h, amount)
          PROVE  GoodsInv'
        BY <2>1, OtherKeeps
    <2>2. CASE \/ Goods!Match \/ Goods!CreateReturn
               \/ \E target \in Targets : Goods!Pull(target)
               \/ \E w \in Picker : \/ Goods!LoadForShip(w) \/ Goods!LoadReturn(w)
                                    \/ Goods!Approve(w)
        BY <2>2, OrderKeeps
    <2>3. ASSUME NEW w \in Picker, Goods!Ship(w)
          PROVE  GoodsInv'
        BY <2>3, ShipKeeps
    <2>4. ASSUME NEW w \in Picker, Goods!Refund(w)
          PROVE  GoodsInv'
        BY <2>4, RefundKeeps
    <2>5. ASSUME NEW w \in Picker, Goods!Abort(w)
          PROVE  GoodsInv'
        BY <2>5, AbortKeeps
    <2>6. CASE Goods!Draw
        BY <2>6, DrawKeeps
    <2>7. CASE Goods!Take
        BY <2>7, TakeKeeps
    <2>8. CASE Goods!EndShip
        BY <2>8, EndShipKeeps
    <2>9. CASE UNCHANGED Goods!vars
        <3>1. UNCHANGED <<order, holds, stock, rest, back, return, orderJob, tx>>
            BY <2>9 DEF Goods!vars
        <3>2. Goods!TypeOK
            BY DEF GoodsInv
        <3> QED
            BY <3>1, <3>2, GoodsRest DEF Goods!TypeOK
    <2> QED
        BY <2>1, <2>2, <2>3, <2>4, <2>5, <2>6, <2>7, <2>8, <2>9 DEF Goods!Next
<1>2. GoodsInv => Goods!HoldsExplainStock
    BY DEF GoodsInv
<1> QED
    BY <1>1, <1>2, GoodsBegin, PTL DEF Goods!Spec
=============================================================================
