------------------------------- MODULE Webhook -------------------------------
(***************************************************************************)
(* The way of one event that a platform pushes: the requests that take it  *)
(* in (WebhookIngress.accept), the broker, the tasks that handle it        *)
(* (tasks/sync.py, webhook_event) and the dead letters.  The platform      *)
(* sends it until it gets a 200, and sometimes afterwards.                 *)
(*                                                                         *)
(* Limits, addresses and signatures refuse a request before it changes     *)
(* anything; they are left out.                                            *)
(***************************************************************************)
EXTENDS Naturals, FiniteSets

CONSTANTS Receiver,   \* requests
          Retries,    \* webhook_event's max_retries, the steps of the backoff
          MaxCopies   \* bound on copies of the message in the broker

VARIABLES
    parses,    \* the body can be parsed
    claimed,   \* its id is in the set of events seen
    receiver,  \* per request, how far it has come
    copies,    \* per number of retries made, messages in the broker
    letter,    \* it is among the dead letters
    handled,   \* it has been processed
    accepted,  \* some request has answered 200, and not "duplicate"
    stranded,  \* a request died, or lost its way, with the event claimed
    dropped    \* a task failed in a way that is neither retried nor parked

vars == <<parses, claimed, receiver, copies, letter, handled, accepted, stranded, dropped>>

Attempt == 0..Retries

InBroker == \E n \in Attempt : copies[n] > 0

Stage == {"idle", "publishing", "parking", "releasing"}

TypeOK ==
    /\ {parses, claimed, letter, handled, accepted, stranded, dropped} \subseteq BOOLEAN
    /\ receiver \in [Receiver -> Stage]
    /\ copies \in [Attempt -> 0..MaxCopies]

Init ==
    /\ parses \in BOOLEAN
    /\ claimed = FALSE
    /\ receiver = [r \in Receiver |-> "idle"]
    /\ copies = [n \in Attempt |-> 0]
    /\ letter = FALSE
    /\ handled = FALSE
    /\ accepted = FALSE
    /\ stranded = FALSE
    /\ dropped = FALSE

-----------------------------------------------------------------------------
Go(r, stage) == receiver' = [receiver EXCEPT ![r] = stage]

\* _claim; without the store the event is taken for new.
Claim(r) ==
    /\ receiver[r] = "idle"
    /\ \/ ~claimed /\ claimed' = TRUE
       \/ claimed' \in {claimed, TRUE}
    /\ Go(r, IF parses THEN "publishing" ELSE "parking")
    /\ UNCHANGED <<parses, copies, letter, handled, accepted, stranded, dropped>>

Enqueue(n) == copies[n] < MaxCopies /\ copies' = [copies EXCEPT ![n] = @ + 1]

Publish(r) ==
    /\ receiver[r] = "publishing"
    /\ Enqueue(0)
    /\ \/ accepted' = TRUE /\ Go(r, "idle")
       \/ UNCHANGED accepted /\ Go(r, "parking")  \* sent, but reported as failed
    /\ UNCHANGED <<parses, claimed, letter, handled, stranded, dropped>>

PublishFails(r) ==
    /\ receiver[r] = "publishing"
    /\ Go(r, "parking")
    /\ UNCHANGED <<parses, claimed, copies, letter, handled, accepted, stranded, dropped>>

\* _push_letter, saved.
Park(r) ==
    /\ receiver[r] = "parking"
    /\ letter' = TRUE
    /\ accepted' = TRUE
    /\ Go(r, "idle")
    /\ UNCHANGED <<parses, claimed, copies, handled, stranded, dropped>>

\* Faulty: the event stays claimed.
AfterFailedPark == "idle"

AfterLostPark == "releasing"

\* _push_letter, not saved.
ParkFails(r) ==
    /\ receiver[r] = "parking"
    /\ Go(r, AfterLostPark)
    /\ UNCHANGED <<parses, claimed, copies, letter, handled, accepted, stranded, dropped>>

\* _release, before the 500; the store may fail, and the claim stays.
Release(r) ==
    /\ receiver[r] = "releasing"
    /\ Go(r, "idle")
    /\ \/ claimed' = FALSE /\ UNCHANGED stranded
       \/ stranded' = TRUE /\ UNCHANGED claimed
    /\ UNCHANGED <<parses, copies, letter, handled, accepted, dropped>>

Die(r) ==
    /\ receiver[r] # "idle"
    /\ Go(r, "idle")
    /\ stranded' = TRUE
    /\ UNCHANGED <<parses, claimed, copies, letter, handled, accepted, dropped>>

\* webhook_event_ttl_seconds are over.
Forget ==
    /\ claimed
    /\ claimed' = FALSE
    /\ UNCHANGED <<parses, receiver, copies, letter, handled, accepted, stranded, dropped>>

-----------------------------------------------------------------------------
(* webhook_event.  A task whose worker dies is delivered again.             *)

Take(n) == copies[n] > 0 /\ copies' = [copies EXCEPT ![n] = @ - 1]

Handle(n) ==
    /\ Take(n)
    /\ handled' = TRUE
    /\ UNCHANGED <<parses, claimed, receiver, letter, accepted, stranded, dropped>>

\* _retry_webhook: retryable, and there are retries left.
Retry(n) ==
    /\ copies[n] > 0 /\ n < Retries
    /\ copies' = [m \in Attempt |-> CASE m = n -> copies[m] - 1
                                      [] m = n + 1 -> copies[m] + 1
                                      [] OTHER -> copies[m]]
    /\ copies' \in [Attempt -> 0..MaxCopies]
    /\ UNCHANGED <<parses, claimed, receiver, letter, handled, accepted, stranded, dropped>>

\* _park_webhook: not retryable, or no retries left.
ParkTask(n) ==
    /\ Take(n)
    /\ letter' = TRUE
    /\ UNCHANGED <<parses, claimed, receiver, handled, accepted, stranded, dropped>>

\* Any other exception, or a letter that cannot be saved.
Fail(n) ==
    /\ Take(n)
    /\ dropped' = TRUE
    /\ UNCHANGED <<parses, claimed, receiver, letter, handled, accepted, stranded>>

Next ==
    \/ \E r \in Receiver :
          \/ Claim(r) \/ Publish(r) \/ PublishFails(r) \/ Park(r)
          \/ ParkFails(r) \/ Release(r) \/ Die(r)
    \/ \E n \in Attempt : Handle(n) \/ Retry(n) \/ ParkTask(n) \/ Fail(n)
    \/ Forget

Spec == Init /\ [][Next]_vars

-----------------------------------------------------------------------------
Kept == InBroker \/ letter \/ handled \/ dropped

(***************************************************************************)
(* An event that was accepted can be found, and an event whose             *)
(* redeliveries are turned away as duplicates is kept or in the hands of a *)
(* request: a failed publication gives the claim back.  An event whose     *)
(* task failed for good counts as kept (dropped).  The exceptions are      *)
(* requests that die and claims that cannot be given back (accept).        *)
(***************************************************************************)
ClaimedIsKept ==
    /\ accepted => Kept
    /\ claimed /\ ~stranded /\ (\A r \in Receiver : receiver[r] = "idle") => Kept
=============================================================================
