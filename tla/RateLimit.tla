----------------------------- MODULE RateLimit -----------------------------
(***************************************************************************)
(* The token bucket and the daily quota that all calls to a platform share *)
(* (adapters/ratelimit.py).  Each update of the bucket or of the counter   *)
(* is one compare-and-set; the check of the quota, the token and the count *)
(* are three separate steps.  Tokens and the penalty are in quarters: the  *)
(* ratio of a slowdown is 1/2 and its floor 1/4 (SyncPolicy).              *)
(***************************************************************************)
EXTENDS Integers, FiniteSets

CONSTANTS Worker,
          Clock,         \* per worker, how far its clock is ahead
          Qps, Burst,    \* of the RateLimitSpec, per tick of the clocks
          Quota,         \* daily_quota
          RecoverAfter,  \* recover_after_successes
          MaxTime,       \* bound on the time, within one day and one state TTL
          MaxCalls,      \* bound on the calls made
          MaxRegained,   \* bound on what skewed clocks credit twice
          None

VARIABLES
    now, bucket,
    used,      \* the day's counter
    job,       \* per worker, how far try_acquire has come
    calls,     \* calls made to the platform
    regained   \* time that was credited again because a clock was behind

vars == <<now, bucket, used, job, calls, regained>>

Penalty == {1, 2, 4}

Larger(x, y) == IF x > y THEN x ELSE y

Smaller(x, y) == IF x < y THEN x ELSE y

Capacity(penalty) == Larger(4, Burst * penalty)

Ahead == {Clock[w] : w \in Worker}

Latest == CHOOSE t \in Ahead : \A u \in Ahead : u <= t

Earliest == CHOOSE t \in Ahead : \A u \in Ahead : t <= u

TypeOK ==
    /\ now \in 0..MaxTime
    /\ bucket \in [tokens: 0..Capacity(4), stamp: Earliest..(MaxTime + Latest),
                   penalty: Penalty, streak: 0..RecoverAfter] \cup {None}
    /\ used \in 0..(Quota + Cardinality(Worker) - 1)
    /\ job \in [Worker -> {"idle", "checked", "taken", "calling"}]
    /\ calls \in 0..MaxCalls
    /\ regained \in 0..MaxRegained

Init ==
    /\ now = 0
    /\ bucket = None
    /\ used = 0
    /\ job = [w \in Worker |-> "idle"]
    /\ calls = 0
    /\ regained = 0

Time(w) == now + Clock[w]

Go(w, stage) == job' = [job EXCEPT ![w] = stage]

-----------------------------------------------------------------------------
\* Faulty: the whole quota may be used up before the check refuses.
OverQuota(count) == count > Quota

Exhausted(count) == count >= Quota

\* _daily_block.
CheckDay(w) ==
    /\ job[w] = "idle"
    /\ calls + Cardinality({v \in Worker : job[v] # "idle"}) < MaxCalls
    /\ ~Exhausted(used)
    /\ Go(w, "checked")
    /\ UNCHANGED <<now, bucket, used, calls, regained>>

Fresh(w) == [tokens |-> Capacity(4), stamp |-> Time(w), penalty |-> 4, streak |-> 0]

Bucket(w) == IF bucket = None THEN Fresh(w) ELSE bucket

\* The tokens there are by the worker's own clock.
Refilled(w) ==
    Smaller(Capacity(Bucket(w).penalty),
            Bucket(w).tokens
              + Qps * Bucket(w).penalty * Larger(0, Time(w) - Bucket(w).stamp))

(***************************************************************************)
(* apply_acquire.  The stamp is set to the worker's clock even when that   *)
(* is earlier; without a token, or when the store fails, the call is off.  *)
(***************************************************************************)
TakeToken(w) ==
    /\ job[w] = "checked"
    /\ LET enough == Refilled(w) >= 4
       IN  /\ bucket' = [Bucket(w) EXCEPT !.tokens = Refilled(w) - (IF enough THEN 4 ELSE 0),
                                          !.stamp = Time(w)]
           /\ regained' = regained + Larger(0, Bucket(w).stamp - Time(w))
           /\ regained' <= MaxRegained
           /\ Go(w, IF enough THEN "taken" ELSE "idle")
    /\ UNCHANGED <<now, used, calls>>

\* _count_daily; the counter may have been written although the store fails.
CountDay(w) ==
    /\ job[w] = "taken"
    /\ \/ used' = used + 1 /\ Go(w, "calling") /\ calls' = calls + 1
       \/ used' \in {used, used + 1} /\ Go(w, "idle") /\ UNCHANGED calls
    /\ UNCHANGED <<now, bucket, regained>>

-----------------------------------------------------------------------------
\* Faulty: the burst that has accumulated is kept.
SlowedLater(b, penalty) == [b EXCEPT !.penalty = penalty, !.streak = 0]

Slowed(b, penalty) ==
    [b EXCEPT !.penalty = penalty, !.streak = 0,
              !.tokens = Smaller(@, Capacity(penalty))]

\* record_throttled, apply_throttle.
Throttled(w) ==
    /\ job[w] = "calling"
    /\ bucket' = Slowed(Bucket(w), Larger(1, Bucket(w).penalty \div 2))
    /\ Go(w, "idle")
    /\ UNCHANGED <<now, used, calls, regained>>

\* record_success, apply_success.
Succeeded(w) ==
    LET b == Bucket(w)
        recovers == b.streak + 1 >= RecoverAfter /\ b.penalty < 4
        penalty == IF recovers THEN Smaller(4, 2 * b.penalty) ELSE b.penalty
    IN  /\ job[w] = "calling"
        /\ bucket' = [b EXCEPT !.penalty = penalty,
                               !.streak = IF recovers THEN 0
                                          ELSE Smaller(RecoverAfter, @ + 1),
                               !.tokens = Smaller(@, Capacity(penalty))]
        /\ Go(w, "idle")
        /\ UNCHANGED <<now, used, calls, regained>>

\* The worker dies, or the platform fails in a way that concerns the breaker.
Dropped(w) ==
    /\ job[w] # "idle"
    /\ Go(w, "idle")
    /\ UNCHANGED <<now, bucket, used, calls, regained>>

Tick ==
    /\ now < MaxTime
    /\ now' = now + 1
    /\ UNCHANGED <<bucket, used, job, calls, regained>>

Next ==
    \/ \E w \in Worker :
          \/ CheckDay(w) \/ TakeToken(w) \/ CountDay(w)
          \/ Throttled(w) \/ Succeeded(w) \/ Dropped(w)
    \/ Tick

Spec == Init /\ [][Next]_vars

-----------------------------------------------------------------------------
(***************************************************************************)
(* Whoever calls, the platform never sees more than a burst and what has   *)
(* accrued since; a worker whose clock is behind has time credited twice.  *)
(* A slowdown takes effect at once (apply_acquire, apply_throttle).        *)
(***************************************************************************)
RateHeld ==
    /\ calls <= Burst + Qps * (now + Latest - Earliest + regained)
    /\ bucket # None => bucket.tokens <= Capacity(bucket.penalty)

(***************************************************************************)
(* The quota is checked before the token is taken and counted after it, so *)
(* it may be exceeded, but by fewer calls than there are workers           *)
(* (try_acquire).                                                          *)
(***************************************************************************)
QuotaHeld == calls <= Quota + Cardinality(Worker) - 1
=============================================================================
