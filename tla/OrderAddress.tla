---------------------------- MODULE OrderAddress ----------------------------
(***************************************************************************)
(* Changing where an order is sent (services/order_desk.py, change_address)*)
(* while syncs bring the platform's version of it (repositories/order.py). *)
(*                                                                         *)
(* A request reads the order, tells the platform, and writes the address   *)
(* that the platform took.  A sync writes the version that it pulled, when *)
(* it is newer than the stored one.  Neither locks the order.              *)
(***************************************************************************)
EXTENDS Naturals, Sequences, FiniteSets

CONSTANTS Request, Syncer,
          Address,
          MaxStamp  \* bound on the versions of the platform

VARIABLES
    platform,  \* the order at the marketplace: address and time of change
    row,       \* the order in the database: address, and the time of the stored version
    log,       \* committed rows of order_address_log
    request,   \* what a request has read and been told
    sync,      \* what a sync pulled and read
    crossed    \* some request, or a sync, wrote over something newer than it knew

vars == <<platform, row, log, request, sync, crossed>>

Version == [address: Address, stamp: 0..MaxStamp]

Entry == [to: Address, status: {"SUCCEEDED", "FAILED"}, stamp: 0..MaxStamp]

Idle == [step |-> "idle"]

\* The address that was read and the new one, and the stamp that the platform gave it.
Change ==
    {Idle} \cup [step: {"push"}, before: Address, to: Address]
    \cup [step: {"save"}, before: Address, to: Address, stamp: 0..MaxStamp]

Pulled ==
    {Idle} \cup [step: {"find"}, version: Version]
    \cup [step: {"store"}, version: Version, seen: Version]

TypeOK ==
    /\ platform \in Version /\ row \in Version
    /\ log \in Seq(Entry)
    /\ request \in [Request -> Change] /\ sync \in [Syncer -> Pulled]
    /\ crossed \in BOOLEAN

Init ==
    /\ \E a \in Address : platform = [address |-> a, stamp |-> 0] /\ row = platform
    /\ log = <<>>
    /\ request = [r \in Request |-> Idle]
    /\ sync = [s \in Syncer |-> Idle]
    /\ crossed = FALSE

-----------------------------------------------------------------------------
Goes(r, now) == request' = [request EXCEPT ![r] = now]

Moved(address) == platform' = [address |-> address, stamp |-> platform.stamp + 1]

\* Somebody changes the order at the marketplace.
ChangeAtPlatform(a) ==
    /\ platform.stamp < MaxStamp /\ a # platform.address
    /\ Moved(a)
    /\ UNCHANGED <<row, log, request, sync, crossed>>

\* _order and _address.
ReadOrder(r, a) ==
    /\ request[r] = Idle
    /\ Goes(r, [step |-> "push", before |-> row.address, to |-> a])
    /\ UNCHANGED <<platform, row, log, sync, crossed>>

\* _push: the platform takes the address.
Accept(r) ==
    /\ request[r].step = "push" /\ platform.stamp < MaxStamp
    /\ Moved(request[r].to)
    /\ Goes(r, [step |-> "save", before |-> request[r].before, to |-> request[r].to,
                stamp |-> platform.stamp + 1])
    /\ UNCHANGED <<row, log, sync, crossed>>

\* The platform refuses; the row of the log goes with the error that ends the request.
Refuse(r) ==
    /\ request[r].step = "push"
    /\ Goes(r, Idle)
    /\ UNCHANGED <<platform, row, log, sync, crossed>>

\* Faulty: the address is saved without waiting for the platform.
SavesUnanswered(r) == request[r].step \in {"push", "save"}

Saves(r) == request[r].step = "save"

StampOf(r) == IF request[r].step = "save" THEN request[r].stamp ELSE 0

\* The commit: ship_to is written when it is not what the request had read.
Save(r) ==
    LET to == request[r].to IN
    /\ Saves(r)
    /\ row' = IF to = request[r].before THEN row ELSE [row EXCEPT !.address = to]
    /\ log' = Append(log, [to |-> to, status |-> "SUCCEEDED", stamp |-> StampOf(r)])
    /\ crossed' = \/ crossed
                  \/ row.stamp > StampOf(r)                  \* a later version is stored
                  \/ to = request[r].before /\ row.address # to
                  \/ \E i \in DOMAIN log : log[i].stamp > StampOf(r)
    /\ Goes(r, Idle)
    /\ UNCHANGED <<platform, sync>>

\* A worker that dies, before or after the platform has answered.
Stop(r) ==
    /\ request[r] # Idle
    /\ Goes(r, Idle)
    /\ UNCHANGED <<platform, row, log, sync, crossed>>

-----------------------------------------------------------------------------
Pull(s) ==
    /\ sync[s] = Idle
    /\ sync' = [sync EXCEPT ![s] = [step |-> "find", version |-> platform]]
    /\ UNCHANGED <<platform, row, log, request, crossed>>

\* decide_write.
Newer(version) == version.stamp > row.stamp

FindRow(s) ==
    /\ sync[s].step = "find"
    /\ sync' = [sync EXCEPT ![s] = IF Newer(sync[s].version)
                                   THEN [step |-> "store", version |-> sync[s].version,
                                         seen |-> row]
                                   ELSE Idle]
    /\ UNCHANGED <<platform, row, log, request, crossed>>

\* _apply_status: columns that equal what was read are not written.
StoreVersion(s) ==
    LET version == sync[s].version IN
    /\ sync[s].step = "store"
    /\ row' = [address |-> IF version.address = sync[s].seen.address THEN row.address
                           ELSE version.address,
               stamp |-> version.stamp]
    /\ crossed' = (crossed \/ row # sync[s].seen)
    /\ sync' = [sync EXCEPT ![s] = Idle]
    /\ UNCHANGED <<platform, log, request>>

Next ==
    \/ \E a \in Address : ChangeAtPlatform(a) \/ \E r \in Request : ReadOrder(r, a)
    \/ \E r \in Request : Accept(r) \/ Refuse(r) \/ Save(r) \/ Stop(r)
    \/ \E s \in Syncer : Pull(s) \/ FindRow(s) \/ StoreVersion(s)

Spec == Init /\ [][Next]_vars

-----------------------------------------------------------------------------
(* Once the newest version is stored, the order says where the platform     *)
(* sends it, unless a write crossed another one: without a lock, a request  *)
(* that commits late puts its address over a newer version (change_address, *)
(* upsert).                                                                 *)
AddressTells ==
    ~crossed /\ row.stamp = platform.stamp => row.address = platform.address

(* The history has the addresses that the platform took, each change once.  *)
LogTells ==
    \A i \in DOMAIN log :
        /\ log[i].status = "SUCCEEDED" /\ log[i].stamp > 0
        /\ \A j \in DOMAIN log : i # j => log[i].stamp # log[j].stamp

AddressHolds == AddressTells /\ LogTells
=============================================================================
