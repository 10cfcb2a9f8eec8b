------------------------------ MODULE Sessions ------------------------------
(***************************************************************************)
(* The session of one browser tab: the requests of frontend/src/api/       *)
(* client.ts with their shared refresh, and the refresh and logout of      *)
(* auth_service.py that rotate and revoke the tokens.  A pair of tokens is *)
(* its number.                                                             *)
(***************************************************************************)
EXTENDS Naturals, FiniteSets

CONSTANTS Request,  \* requests that the tab may have under way
          MaxPair,  \* bound on the pairs issued
          None

VARIABLES
    held,      \* tokenStore: the pair in the tab, None when logged out
    issued,    \* the pair issued last
    good,      \* pairs whose access token has neither expired nor been revoked
    revoked,   \* pairs whose refresh token is in the blacklist
    request,
    refresh,   \* per request that started one, the refresh under way
    loggedOut, \* the user has logged out
    cutOff     \* the answer to a refresh has been lost, or the 7 days are over

vars == <<held, issued, good, revoked, request, refresh, loggedOut, cutOff>>

Pair == 1..MaxPair

NoRequest == [stage |-> "idle", pair |-> None, retried |-> FALSE, waitsFor |-> None]

TypeOK ==
    /\ held \in Pair \cup {None}
    /\ issued \in Pair
    /\ good \subseteq Pair /\ revoked \subseteq Pair
    /\ request \in [Request -> [stage: {"idle", "sent", "waiting"}, pair: Pair \cup {None},
                                retried: BOOLEAN, waitsFor: Request \cup {None}]]
    /\ refresh \in [Request -> [stage: {"none", "asked", "checked", "granted", "refused"},
                                pair: Pair \cup {None}]]
    /\ {loggedOut, cutOff} \subseteq BOOLEAN

NoRefresh == [stage |-> "none", pair |-> None]

Init ==
    /\ held = 1 /\ issued = 1 /\ good = {1} /\ revoked = {}
    /\ request = [q \in Request |-> NoRequest]
    /\ refresh = [q \in Request |-> NoRefresh]
    /\ loggedOut = FALSE /\ cutOff = FALSE

-----------------------------------------------------------------------------
Send(q) ==
    /\ request[q].stage = "idle" /\ held # None
    /\ request' = [request EXCEPT ![q] = [NoRequest EXCEPT !.stage = "sent", !.pair = held]]
    /\ UNCHANGED <<held, issued, good, revoked, refresh, loggedOut, cutOff>>

\* The access token of a pair runs out.
Expire(p) ==
    /\ p \in good
    /\ good' = good \ {p}
    /\ UNCHANGED <<held, issued, revoked, request, refresh, loggedOut, cutOff>>

Succeed(q) ==
    /\ request[q].stage = "sent" /\ request[q].pair \in good
    /\ request' = [request EXCEPT ![q] = NoRequest]
    /\ UNCHANGED <<held, issued, good, revoked, refresh, loggedOut, cutOff>>

(***************************************************************************)
(* An error other than 401, or no answer.  The replay of a request is      *)
(* awaited where the refresh is, so its failure is handled as that one's.  *)
(***************************************************************************)
Fail(q) ==
    /\ request[q].stage = "sent"
    /\ held' = IF request[q].retried THEN None ELSE held
    /\ request' = [request EXCEPT ![q] = NoRequest]
    /\ UNCHANGED <<issued, good, revoked, refresh, loggedOut, cutOff>>

\* Faulty: every request refreshes for itself.
SharedByNone == {}

\* refreshPromise: the refresh that is under way.
Shared == {q \in Request : refresh[q].stage # "none"}

\* A 401: refresh once, together with whoever is refreshing; then give up.
Unauthorized(q) ==
    /\ request[q].stage = "sent" /\ request[q].pair \notin good
    /\ IF request[q].retried \/ held = None
       THEN /\ held' = None
            /\ request' = [request EXCEPT ![q] = NoRequest]
            /\ UNCHANGED refresh
       ELSE /\ request' = [request EXCEPT ![q].stage = "waiting", ![q].retried = TRUE,
                             ![q].waitsFor = IF Shared = {} THEN q
                                             ELSE CHOOSE r \in Shared : TRUE]
            /\ refresh' = IF Shared = {}
                          THEN [refresh EXCEPT ![q] = [stage |-> "asked", pair |-> held]]
                          ELSE refresh
            /\ UNCHANGED held
    /\ UNCHANGED <<issued, good, revoked, loggedOut, cutOff>>

-----------------------------------------------------------------------------
(* AuthService.refresh: look into the blacklist, then revoke and issue.     *)

Check(q) ==
    /\ refresh[q].stage = "asked"
    /\ refresh' = [refresh EXCEPT ![q].stage = IF refresh[q].pair \in revoked
                                               THEN "refused" ELSE "checked"]
    /\ UNCHANGED <<held, issued, good, revoked, request, loggedOut, cutOff>>

Rotate(q) ==
    /\ refresh[q].stage = "checked" /\ issued < MaxPair
    /\ revoked' = revoked \cup {refresh[q].pair}
    /\ issued' = issued + 1
    /\ good' = good \cup {issued'}
    /\ refresh' = [refresh EXCEPT ![q] = [stage |-> "granted", pair |-> issued']]
    /\ UNCHANGED <<held, request, loggedOut, cutOff>>

\* A timeout, a failure, or a refresh token that has run out.
Lose(q) ==
    /\ refresh[q].stage \in {"asked", "checked", "granted"}
    /\ refresh' = [refresh EXCEPT ![q].stage = "refused"]
    /\ cutOff' = TRUE
    /\ UNCHANGED <<held, issued, good, revoked, request, loggedOut>>

Waiting(q) == {r \in Request : request[r].stage = "waiting" /\ request[r].waitsFor = q}

\* The new pair is stored and those who waited send their requests again.
Replay(q) ==
    /\ refresh[q].stage = "granted"
    /\ held' = refresh[q].pair
    /\ request' = [r \in Request |->
                     IF r \in Waiting(q)
                     THEN [request[r] EXCEPT !.stage = "sent", !.pair = held',
                                             !.waitsFor = None]
                     ELSE request[r]]
    /\ refresh' = [refresh EXCEPT ![q] = NoRefresh]
    /\ UNCHANGED <<issued, good, revoked, loggedOut, cutOff>>

GiveUp(q) ==
    /\ refresh[q].stage = "refused"
    /\ held' = None
    /\ request' = [r \in Request |-> IF r \in Waiting(q) THEN NoRequest ELSE request[r]]
    /\ refresh' = [refresh EXCEPT ![q] = NoRefresh]
    /\ UNCHANGED <<issued, good, revoked, loggedOut, cutOff>>

\* logout: both tokens of the pair are revoked, the store is cleared.
Logout ==
    /\ held # None
    /\ revoked' = revoked \cup {held}
    /\ good' = good \ {held}
    /\ held' = None
    /\ loggedOut' = TRUE
    /\ UNCHANGED <<issued, request, refresh, cutOff>>

Next ==
    \/ \E q \in Request : \/ Send(q) \/ Succeed(q) \/ Fail(q) \/ Unauthorized(q)
                          \/ Check(q) \/ Rotate(q) \/ Lose(q) \/ Replay(q) \/ GiveUp(q)
    \/ \E p \in Pair : Expire(p)
    \/ Logout

Spec == Init /\ [][Next]_vars

-----------------------------------------------------------------------------
(***************************************************************************)
(* As long as refreshes are answered, the tokens that the tab holds can be *)
(* refreshed or are being refreshed, and no refresh is refused, however    *)
(* many requests find the access token expired at the same time            *)
(* (ensureRefreshed, AuthService.refresh).                                 *)
(***************************************************************************)
SessionGoesOn ==
    ~loggedOut /\ ~cutOff =>
        /\ held \in revoked => \E q \in Request : refresh[q].stage = "granted"
        /\ \A q \in Request : refresh[q].stage # "refused"
=============================================================================
