------------------------------ MODULE BeatLock ------------------------------
(***************************************************************************)
(* One scheduled task that every Beat instance triggers, and the lock with *)
(* a TTL that lets one of them run it: run_beat_singleton over             *)
(* sync_engine/locks.py.                                                   *)
(***************************************************************************)
EXTENDS Naturals, FiniteSets

CONSTANTS Beat,  \* workers that the task may be sent to
          Ttl,   \* beat_lock_ttl_seconds, in ticks
          None

VARIABLES
    lock,    \* the key in the store: the token of its holder, and what is left
    runner   \* per worker, what it is doing and for how long

vars == <<lock, runner>>

Runner == [doing: {"nothing", "holding", "blind"}, age: 0..Ttl]

Resting == [doing |-> "nothing", age |-> 0]

TypeOK ==
    /\ lock \in [token: Beat \cup {None}, left: 1..Ttl] \cup {None}
    /\ runner \in [Beat -> Runner]

Init == lock = None /\ runner = [b \in Beat |-> Resting]

-----------------------------------------------------------------------------
\* SET NX EX: whoever finds the key skips the run.
Acquire(b) ==
    /\ runner[b] = Resting
    /\ lock = None
    /\ lock' = [token |-> b, left |-> Ttl]
    /\ runner' = [runner EXCEPT ![b].doing = "holding"]

(***************************************************************************)
(* StoreUnavailable: the body runs all the same.  The key may have been    *)
(* set although no answer came; nobody knows its token then.               *)
(***************************************************************************)
RunBlind(b) ==
    /\ runner[b] = Resting
    /\ runner' = [runner EXCEPT ![b].doing = "blind"]
    /\ lock' \in IF lock = None THEN {None, [token |-> None, left |-> Ttl]} ELSE {lock}

\* Faulty: the key is deleted, whosever it is.
ReleasedAnyway(b) == None

\* _RELEASE_SCRIPT.
Released(b) == IF lock # None /\ lock.token = b THEN None ELSE lock

\* The body ends; the release may be lost, and a blind run releases nothing.
Finish(b) ==
    /\ runner[b].doing # "nothing"
    /\ lock' \in IF runner[b].doing = "holding" THEN {lock, Released(b)} ELSE {lock}
    /\ runner' = [runner EXCEPT ![b] = Resting]

Die(b) ==
    /\ runner[b].doing # "nothing"
    /\ runner' = [runner EXCEPT ![b] = Resting]
    /\ UNCHANGED lock

Older(r) == IF r.doing = "nothing" \/ r.age = Ttl THEN r ELSE [r EXCEPT !.age = @ + 1]

Tick ==
    /\ lock' = IF lock = None \/ lock.left = 1 THEN None ELSE [lock EXCEPT !.left = @ - 1]
    /\ runner' = [b \in Beat |-> Older(runner[b])]

Next ==
    \/ \E b \in Beat : Acquire(b) \/ RunBlind(b) \/ Finish(b) \/ Die(b)
    \/ Tick

Spec == Init /\ [][Next]_vars

-----------------------------------------------------------------------------
(***************************************************************************)
(* Of the runs that hold the lock, no two are younger than its TTL,        *)
(* whoever outlives the lock, dies with it or fails to release it          *)
(* (run_beat_singleton, _RELEASE_SCRIPT).                                  *)
(***************************************************************************)
NoTwoWithinTtl ==
    Cardinality({b \in Beat : runner[b].doing = "holding" /\ runner[b].age < Ttl}) <= 1
=============================================================================
