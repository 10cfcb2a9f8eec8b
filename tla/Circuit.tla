------------------------------ MODULE Circuit ------------------------------
(***************************************************************************)
(* The circuit breaker of one platform: sync_engine/resilience.py over the *)
(* compare-and-set store of sync_engine/state_store.py, and the calls of   *)
(* OrderSyncService._fetch that ask it and report to it.                   *)
(*                                                                         *)
(* Time is counted in ticks.  The scheduler asks at least once per tick,   *)
(* which is less than the lifetime of the stored state.                    *)
(***************************************************************************)
EXTENDS Integers, FiniteSets, Sequences, SequencesExt

CONSTANTS Caller,      \* workers that pull orders of the platform
          Window,      \* circuit_window
          MinSamples,  \* circuit_min_samples
          OpenTicks,   \* circuit_open_seconds
          StoreTicks,  \* state_ttl_seconds, more than one tick
          None

VARIABLES
    stored,   \* the state in the store, None when it has expired
    quiet,    \* ticks since the store was last written
    call,     \* per caller, what it is doing
    asked,    \* somebody has asked during this tick
    through,  \* calls let through since the breaker left CLOSED or last learned
    mute      \* an admitted call has ended without reporting

vars == <<stored, quiet, call, asked, through, mute>>

-----------------------------------------------------------------------------
Phase == {"closed", "open", "half_open"}

State == [phase: Phase, outcomes: SeqOf(BOOLEAN, Window), since: 0..OpenTicks,
          probe: BOOLEAN]

Fresh == [phase |-> "closed", outcomes |-> <<>>, since |-> 0, probe |-> FALSE]

Known(s) == IF s = None THEN Fresh ELSE s

Probing(s) == [s EXCEPT !.phase = "half_open", !.probe = TRUE]

Admit(s) ==
    CASE s.phase = "closed" -> [state |-> s, allowed |-> TRUE]
      [] s.phase = "open" /\ s.since < OpenTicks -> [state |-> s, allowed |-> FALSE]
      [] s.phase = "half_open" /\ s.probe -> [state |-> s, allowed |-> FALSE]
      [] OTHER -> [state |-> Probing(s), allowed |-> TRUE]

Opened(outcomes) ==
    [phase |-> "open", outcomes |-> outcomes, since |-> 0, probe |-> FALSE]

\* Faulty: the failed probe stays marked.
StillProbing(s, failed) == IF failed THEN s ELSE Fresh

AfterProbe(s, failed) == IF failed THEN Opened(s.outcomes) ELSE Fresh

Observe(s, failed) ==
    LET all == Append(s.outcomes, failed)
        outcomes == SubSeq(all, Len(all) - (IF Len(all) > Window THEN Window
                                            ELSE Len(all)) + 1, Len(all))
        failures == Len(SelectSeq(outcomes, LAMBDA f : f))
    IN  CASE s.phase = "half_open" -> AfterProbe(s, failed)
          [] s.phase = "open" -> s
          [] OTHER -> IF Len(outcomes) >= MinSamples /\ 2 * failures > Len(outcomes)
                      THEN Opened(outcomes)
                      ELSE [Fresh EXCEPT !.outcomes = outcomes]

-----------------------------------------------------------------------------
Idle == [stage |-> "idle", seen |-> None, next |-> Fresh, allowed |-> FALSE,
         failed |-> FALSE]

Call == [stage: {"idle", "asking", "calling", "reporting", "writing"},
         seen: State \cup {None}, next: State, allowed: BOOLEAN, failed: BOOLEAN]

TypeOK ==
    /\ stored \in State \cup {None}
    /\ quiet \in 0..StoreTicks
    /\ call \in [Caller -> Call]
    /\ asked \in BOOLEAN
    /\ through \in 0..Cardinality(Caller)
    /\ mute \in BOOLEAN

Init ==
    /\ stored = None
    /\ quiet = 0
    /\ call = [c \in Caller |-> Idle]
    /\ asked = FALSE
    /\ through = 0
    /\ mute = FALSE

\* compare_set: the write is refused unless the text is the one that was read.
Write(c) == stored = call[c].seen /\ stored' = call[c].next

(***************************************************************************)
(* allow: read, decide, compare and set; again when another write came in  *)
(* between.                                                                *)
(***************************************************************************)
Ask(c) ==
    /\ call[c].stage \in {"idle", "asking"}
    /\ call[c].stage = "asking" => call[c].seen # stored
    /\ LET answer == Admit(Known(stored))
       IN  call' = [call EXCEPT ![c] =
                      [stage |-> "asking", seen |-> stored, next |-> answer.state,
                       allowed |-> answer.allowed, failed |-> FALSE]]
    /\ asked' = TRUE
    /\ UNCHANGED <<stored, quiet, through, mute>>

Answered(c) ==
    /\ call[c].stage = "asking"
    /\ Write(c)
    /\ quiet' = 0
    /\ through' = IF call[c].allowed /\ stored'.phase # "closed" THEN through + 1
                  ELSE through
    /\ \/ /\ call' = [call EXCEPT ![c] = IF call[c].allowed
                                         THEN [Idle EXCEPT !.stage = "calling"]
                                         ELSE Idle]
          /\ UNCHANGED mute
       \/ \* The write is made but its answer is lost: StoreUnavailable.
          /\ call' = [call EXCEPT ![c] = Idle]
          /\ mute' = (mute \/ call[c].allowed)
    /\ UNCHANGED asked

\* A page, or a failure that counts as an outage.
Outcome(c, failed) ==
    /\ call[c].stage = "calling"
    /\ call' = [call EXCEPT ![c].stage = "reporting", ![c].failed = failed]
    /\ UNCHANGED <<stored, quiet, asked, through, mute>>

(***************************************************************************)
(* No token in the bucket, 429, a refused credential, a store that cannot  *)
(* be reached, or a worker that dies: nothing is recorded.                 *)
(***************************************************************************)
Silent(c) ==
    /\ call[c].stage \in {"calling", "reporting", "writing"}
    /\ call' = [call EXCEPT ![c] = Idle]
    /\ mute' = TRUE
    /\ UNCHANGED <<stored, quiet, asked, through>>

\* record.
Report(c) ==
    /\ call[c].stage \in {"reporting", "writing"}
    /\ call[c].stage = "writing" => call[c].seen # stored
    /\ call' = [call EXCEPT ![c].stage = "writing", ![c].seen = stored,
                            ![c].next = Observe(Known(stored), call[c].failed)]
    /\ UNCHANGED <<stored, quiet, asked, through, mute>>

Reported(c) ==
    /\ call[c].stage = "writing"
    /\ Write(c)
    /\ quiet' = 0
    /\ through' = IF Known(call[c].seen).phase = "open" THEN through ELSE 0
    /\ call' = [call EXCEPT ![c] = Idle]
    /\ UNCHANGED <<asked, mute>>

Older(s) ==
    IF s = None \/ s.phase # "open" \/ s.since = OpenTicks THEN s
    ELSE [s EXCEPT !.since = @ + 1]

\* opened_at is absolute, so the copies in hand grow old with the stored state.
Tick ==
    /\ asked
    /\ asked' = FALSE
    /\ call' = [c \in Caller |-> [call[c] EXCEPT !.seen = Older(@), !.next = Older(@)]]
    /\ IF quiet + 1 >= StoreTicks
       THEN stored' = None /\ quiet' = 0 /\ through' = 0
       ELSE stored' = Older(stored) /\ quiet' = quiet + 1 /\ UNCHANGED through
    /\ UNCHANGED mute

Next ==
    \/ \E c \in Caller :
          \/ Ask(c) \/ Answered(c) \/ Silent(c) \/ Report(c) \/ Reported(c)
          \/ \E failed \in BOOLEAN : Outcome(c, failed)
    \/ Tick

Spec == Init /\ [][Next]_vars

Works(c) ==
    \/ Ask(c) \/ Answered(c) \/ Report(c) \/ Reported(c)
    \/ \E failed \in BOOLEAN : Outcome(c, failed)

(***************************************************************************)
(* Every minute the scheduler enqueues the shops whose cursor is behind,   *)
(* a refused pull leaves it behind, and a worker that lives goes on.       *)
(***************************************************************************)
Fairness == WF_vars(Tick) /\ \A c \in Caller : WF_vars(Works(c))

FairSpec == Spec /\ Fairness

-----------------------------------------------------------------------------
(***************************************************************************)
(* While the platform is cut off no more than one call gets through until  *)
(* an outcome is known, whoever asks at the same time (admit, compare_set).*)
(***************************************************************************)
OneProbeAtATime == through <= 1

Probed == Known(stored).phase = "half_open"

(***************************************************************************)
(* A platform that has been cut off is not cut off for ever: as long as    *)
(* every admitted call reports how it ended, probing ends (observe).       *)
(***************************************************************************)
ProbesDecide == [](~mute) => (Probed ~> ~Probed)

(***************************************************************************)
(* The breaker opens for a fixed time (resilience.py): whatever happens to *)
(* the call that probes, probing ends.                                     *)
(***************************************************************************)
OpensForAFixedTime == Probed ~> ~Probed
=============================================================================
