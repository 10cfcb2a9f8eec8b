-------------------------------- MODULE Shops --------------------------------
(***************************************************************************)
(* The grant of one shop at its platform: binding, the renewal of its      *)
(* tokens by the scheduler and unbinding (services/shop_service.py,        *)
(* services/credential_service.py).                                        *)
(*                                                                         *)
(* Of the token pairs that the platform hands out only the last one is     *)
(* good.  A task reads the committed rows, calls the platform and commits; *)
(* of a row it found it writes the columns that it changed, over whatever  *)
(* is there by then.                                                       *)
(***************************************************************************)
EXTENDS Naturals, Sequences, FiniteSets

CONSTANTS Renewer,    \* tasks that renew tokens
          Owner,      \* requests of users that may bind and unbind
          Threshold,  \* token_refresh_alert_threshold
          MaxShops,   \* bound on the rows of the shop
          None

VARIABLES
    shops,    \* rows of the shop with their credential, the deleted ones too
    renewal,  \* per renewer, what it has read and got
    request,  \* per owner, what it has read and got
    refused,  \* failed renewals since the shop last got tokens
    crossed   \* tokens went lost, or two tasks that write one row overlapped

vars == <<shops, renewal, request, refused, crossed>>

\* "good": the platform still takes the tokens.
Shop == [status: {"ACTIVE", "AUTH_EXPIRED", "UNBOUND"}, deleted: BOOLEAN,
         good: BOOLEAN, expiring: BOOLEAN, fails: 0..Threshold]

\* What was read of the row: "stale" when it was written since.
Copy == [shop: 0..MaxShops, status: {"ACTIVE", "AUTH_EXPIRED"}, good: BOOLEAN,
         fails: 0..Threshold, stale: BOOLEAN]

Renewal == [step: {"none", "read", "called"}, copy: Copy, got: {"nothing", "good", "dead"}]

OwnerRequest == [does: {"none", "exchanged", "grant", "unbind"}, copy: Copy, good: BOOLEAN]

TypeOK ==
    /\ \E n \in 0..MaxShops : shops \in [1..n -> Shop]
    /\ renewal \in [Renewer -> Renewal]
    /\ request \in [Owner -> OwnerRequest]
    /\ refused \in 0..Threshold
    /\ crossed \in BOOLEAN

NoCopy == [shop |-> 0, status |-> "ACTIVE", good |-> FALSE, fails |-> 0, stale |-> FALSE]

CopyOf(i) == [shop |-> i, status |-> shops[i].status, good |-> shops[i].good,
              fails |-> shops[i].fails, stale |-> FALSE]

NoRenewal == [step |-> "none", copy |-> NoCopy, got |-> "nothing"]

NoRequest == [does |-> "none", copy |-> NoCopy, good |-> FALSE]

Init ==
    /\ shops = <<>>
    /\ renewal = [r \in Renewer |-> NoRenewal]
    /\ request = [o \in Owner |-> NoRequest]
    /\ refused = 0
    /\ crossed = FALSE

\* The row of the shop that is not deleted, if there is one.
Live == {i \in DOMAIN shops : ~shops[i].deleted}

\* A new pair: the platform takes no other one from now on.
NoGoodShops == [i \in DOMAIN shops |-> [shops[i] EXCEPT !.good = FALSE]]

NoGoodRenewals ==
    [r \in Renewer |-> [renewal[r] EXCEPT
        !.copy.good = FALSE, !.got = IF @ = "good" THEN "dead" ELSE @]]

NoGoodRequests ==
    [o \in Owner |-> [request[o] EXCEPT !.copy.good = FALSE, !.good = FALSE]]

\* A commit on row i: what others read of it is out of date.
StaleRenewals(i) ==
    [r \in Renewer |-> [renewal[r] EXCEPT !.copy.stale = @ \/ renewal[r].copy.shop = i]]

StaleRequests(i) ==
    [o \in Owner |-> [request[o] EXCEPT !.copy.stale = @ \/ request[o].copy.shop = i]]

\* Somebody holds the tokens and has not committed them yet.
UnderWay ==
    \/ \E r \in Renewer : renewal[r].got # "nothing"
    \/ \E o \in Owner : request[o].does \in {"exchanged", "grant"}

-----------------------------------------------------------------------------
(* Renewal (refresh_expiring_credentials, _refresh_one).                    *)

TokenExpires(i) ==
    /\ i \in Live /\ ~shops[i].expiring
    /\ shops' = [shops EXCEPT ![i].expiring = TRUE]
    /\ UNCHANGED <<renewal, request, refused, crossed>>

Due(shop) == ~shop.deleted /\ shop.status = "ACTIVE" /\ shop.expiring

ReadDue(r, i) ==
    /\ renewal[r] = NoRenewal
    /\ i \in DOMAIN shops /\ Due(shops[i])
    /\ renewal' = [renewal EXCEPT ![r] =
                      [step |-> "read", copy |-> CopyOf(i), got |-> "nothing"]]
    /\ UNCHANGED <<shops, request, refused, crossed>>

\* The platform makes a new pair for the last one only; it may fail before that.
PlatformRenews(r) ==
    /\ renewal[r].step = "read" /\ renewal[r].copy.good
    /\ \E answered \in BOOLEAN :
          /\ shops' = NoGoodShops
          /\ renewal' = [NoGoodRenewals EXCEPT
                ![r].step = "called", ![r].got = IF answered THEN "good" ELSE "nothing"]
          /\ request' = NoGoodRequests
          /\ crossed' = (crossed \/ UnderWay \/ ~answered)
    /\ UNCHANGED refused

PlatformFails(r) ==
    /\ renewal[r].step = "read"
    /\ renewal' = [renewal EXCEPT ![r].step = "called"]
    /\ UNCHANGED <<shops, request, refused, crossed>>

\* Counts from Threshold on are alike.
Counted(count) == IF count < Threshold THEN count + 1 ELSE count

\* Faulty: the failures are not counted.
NextFailureForgotten(count) == [count |-> count, alert |-> count + 1 >= Threshold]

\* next_refresh_failure.
NextFailure(count) == [count |-> Counted(count), alert |-> count + 1 >= Threshold]

\* apply_bundle; the count is written when it was not zero already.
Renewed(shop, copy, good) ==
    [shop EXCEPT !.good = good, !.expiring = FALSE,
                 !.fails = IF copy.fails = 0 THEN @ ELSE 0]

Failed(shop, copy) ==
    [shop EXCEPT !.fails = NextFailure(copy.fails).count,
                 !.status = IF NextFailure(copy.fails).alert THEN "AUTH_EXPIRED" ELSE @]

SaveRenewal(r) ==
    LET copy == renewal[r].copy
        got == renewal[r].got
    IN  /\ renewal[r].step = "called"
        /\ shops' = [shops EXCEPT ![copy.shop] =
                        IF got = "nothing" THEN Failed(@, copy)
                        ELSE Renewed(@, copy, got = "good")]
        /\ refused' = IF got # "nothing" THEN 0
                      ELSE Counted(refused)
        /\ crossed' = (crossed \/ copy.stale)
        /\ renewal' = [StaleRenewals(copy.shop) EXCEPT ![r] = NoRenewal]
        /\ request' = StaleRequests(copy.shop)

\* The worker stops; what it got from the platform is lost.
RenewerStops(r) ==
    /\ renewal[r] # NoRenewal
    /\ crossed' = (crossed \/ renewal[r].got # "nothing")
    /\ renewal' = [renewal EXCEPT ![r] = NoRenewal]
    /\ UNCHANGED <<shops, request, refused>>

-----------------------------------------------------------------------------
(* Binding and unbinding (complete_callback, unbind).                       *)

Exchange(o) ==
    /\ request[o] = NoRequest
    /\ shops' = NoGoodShops
    /\ renewal' = NoGoodRenewals
    /\ request' = [NoGoodRequests EXCEPT ![o].does = "exchanged", ![o].good = TRUE]
    /\ crossed' = (crossed \/ UnderWay)
    /\ UNCHANGED refused

\* find_active.
FindShop(o) ==
    /\ request[o].does = "exchanged"
    /\ \E copy \in (IF Live = {} THEN {NoCopy} ELSE {CopyOf(i) : i \in Live}) :
          request' = [request EXCEPT ![o].does = "grant", ![o].copy = copy]
    /\ UNCHANGED <<shops, renewal, refused, crossed>>

NewShop(good) ==
    [status |-> "ACTIVE", deleted |-> FALSE, good |-> good, expiring |-> FALSE, fails |-> 0]

\* uq_shop_platform_identity.
Taken == Live # {}

Granted(shop, copy, good) ==
    [Renewed(shop, copy, good) EXCEPT !.status = IF copy.status = "ACTIVE" THEN @ ELSE "ACTIVE"]

SaveNewShop(o) ==
    /\ request[o].does = "grant" /\ request[o].copy.shop = 0
    /\ IF Taken
       THEN /\ crossed' = TRUE
            /\ UNCHANGED <<shops, refused>>
       ELSE /\ Len(shops) < MaxShops
            /\ shops' = Append(shops, NewShop(request[o].good))
            /\ refused' = 0
            /\ UNCHANGED crossed
    /\ request' = [request EXCEPT ![o] = NoRequest]
    /\ UNCHANGED renewal

SaveGrant(o) ==
    LET copy == request[o].copy
    IN  /\ request[o].does = "grant" /\ copy.shop # 0
        /\ shops' = [shops EXCEPT ![copy.shop] = Granted(@, copy, request[o].good)]
        /\ refused' = 0
        /\ crossed' = (crossed \/ copy.stale)
        /\ renewal' = StaleRenewals(copy.shop)
        /\ request' = [StaleRequests(copy.shop) EXCEPT ![o] = NoRequest]

OwnerStops(o) ==
    /\ request[o] # NoRequest
    /\ crossed' = (crossed \/ request[o].does \in {"exchanged", "grant"})
    /\ request' = [request EXCEPT ![o] = NoRequest]
    /\ UNCHANGED <<shops, renewal, refused>>

ReadForUnbind(o) ==
    /\ request[o] = NoRequest
    /\ \E i \in Live :
          request' = [request EXCEPT ![o].does = "unbind", ![o].copy = CopyOf(i)]
    /\ UNCHANGED <<shops, renewal, refused, crossed>>

Unbind(o) ==
    LET i == request[o].copy.shop
    IN  /\ request[o].does = "unbind"
        /\ shops' = [shops EXCEPT ![i].status = "UNBOUND", ![i].deleted = TRUE]
        /\ crossed' = (crossed \/ request[o].copy.stale)
        /\ renewal' = StaleRenewals(i)
        /\ request' = [StaleRequests(i) EXCEPT ![o] = NoRequest]
        /\ UNCHANGED refused

Proceed ==
    \/ \E i \in 1..MaxShops : TokenExpires(i)
    \/ \E r \in Renewer :
          \/ \E i \in 1..MaxShops : ReadDue(r, i)
          \/ PlatformRenews(r) \/ PlatformFails(r) \/ SaveRenewal(r)
    \/ \E o \in Owner :
          \/ Exchange(o) \/ FindShop(o) \/ SaveNewShop(o) \/ SaveGrant(o)
          \/ ReadForUnbind(o) \/ Unbind(o)

Next ==
    \/ Proceed
    \/ \E r \in Renewer : RenewerStops(r)
    \/ \E o \in Owner : OwnerStops(o)

Spec == Init /\ [][Next]_vars

\* Tokens expire, the beat looks for those that do, and a renewal goes on.
Fairness ==
    /\ \A i \in 1..MaxShops : WF_vars(TokenExpires(i))
    /\ \A r \in Renewer :
          /\ WF_vars(\E i \in 1..MaxShops : ReadDue(r, i))
          /\ WF_vars(PlatformRenews(r) \/ PlatformFails(r) \/ SaveRenewal(r))

\* Workers do not stop for ever; what they lose is lost when an answer is, too.
FairSpec == Init /\ [][Proceed]_vars /\ Fairness

-----------------------------------------------------------------------------
Dead(i) == i \in Live /\ shops[i].status = "ACTIVE" /\ ~shops[i].good

(* One live row stands for the shop, whoever binds it at once (find_active, *)
(* uq_shop_platform_identity); and while no tokens went lost and no tasks   *)
(* crossed, a shop that is bound has the tokens that the platform takes,   *)
(* and one is given up only after Threshold failures in a row               *)
(* (apply_bundle, next_refresh_failure).                                    *)
GrantHolds ==
    /\ Cardinality(Live) <= 1
    /\ ~crossed /\ ~UnderWay => \A i \in Live : shops[i].good
    /\ ~crossed =>
          \A i \in Live : shops[i].status = "AUTH_EXPIRED" => refused >= Threshold

(* A shop whose tokens the platform does not take any more does not stay    *)
(* active: renewals fail until it is reported for a new grant, however the  *)
(* tokens got lost (_refresh_one, token_refresh_alert_threshold).           *)
LostTokensNoticed == \A i \in 1..MaxShops : Dead(i) ~> ~Dead(i)
=============================================================================
