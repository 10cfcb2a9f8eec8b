------------------------------- MODULE Members -------------------------------
(***************************************************************************)
(* The members of a tenant: accounts (services/registration_service.py),   *)
(* invitations, roles and removals                                         *)
(* (services/member_service.py, repositories/identity.py).                 *)
(*                                                                         *)
(* A request reads without locks and writes later; an invitation first     *)
(* revokes the pending ones of its address, and keeps them locked until it *)
(* commits.  That UPDATE is one statement of READ COMMITTED: it waits for  *)
(* the rows that it sees and another one holds, decides again on them, and *)
(* never sees a row that was committed after it began.  The link is mailed *)
(* after the commit.                                                       *)
(***************************************************************************)
EXTENDS Naturals, Sequences, FiniteSetsExt

CONSTANTS Request,
          Person,      \* the addresses, one account each
          Owner,       \* the one that registered the tenant
          Invitee,     \* the ones that are invited, the owner not among them
          MaxInvites,  \* bound on the invitations
          None

VARIABLES
    accounts,    \* the persons that have an account, of this tenant or another
    member,      \* per person, the row of tenant_user, a deleted one too
    invitation,  \* committed invitations, in the order of their commits
    mailed,      \* invitations whose link was mailed
    job,         \* per request, what it has read
    crossed      \* persons that two invitations were made for at once

vars == <<accounts, member, invitation, mailed, job, crossed>>

Role == {"OWNER", "ADMIN", "STAFF"}

Given == Role \ {"OWNER"}

Member == [role: Role, deleted: BOOLEAN]

Invitation == [to: Person, role: Given, expired: BOOLEAN,
               status: {"PENDING", "REVOKED", "ACCEPTED"}]

Idle == [does |-> "nothing"]

Work == {Idle}
        \cup [does: {"revoking", "invite"}, who: Person, role: Given, revokes: SUBSET Nat]
        \cup [does: {"mail", "revoke"}, inv: Nat]
        \cup [does: {"accept"}, inv: Nat, known: BOOLEAN]
        \cup [does: {"role"}, who: Person, was: Role, role: Given]
        \cup [does: {"remove"}, who: Person]

TypeOK ==
    /\ accounts \subseteq Person
    /\ member \in [Person -> Member \cup {None}]
    /\ invitation \in Seq(Invitation) /\ Len(invitation) <= MaxInvites
    /\ mailed \subseteq Nat
    /\ job \in [Request -> Work]
    /\ crossed \subseteq Person

Init ==
    /\ accounts = {Owner}
    /\ member = [p \in Person |->
                    IF p = Owner THEN [role |-> "OWNER", deleted |-> FALSE] ELSE None]
    /\ invitation = <<>>
    /\ mailed = {}
    /\ job = [r \in Request |-> Idle]
    /\ crossed = {}

-----------------------------------------------------------------------------
Begin(r, work) ==
    /\ job[r] = Idle
    /\ job' = [job EXCEPT ![r] = work]
    /\ UNCHANGED <<accounts, member, invitation, mailed, crossed>>

End(r) == job' = [job EXCEPT ![r] = Idle]

\* A request ends without a trace: a refusal, an error or a worker that dies.
Drop(r) ==
    /\ job[r] # Idle
    /\ End(r)
    /\ UNCHANGED <<accounts, member, invitation, mailed, crossed>>

Active == {p \in Person : member[p] # None /\ ~member[p].deleted}

Valid(i) == invitation[i].status = "PENDING" /\ ~invitation[i].expired

Pending(p) == {i \in DOMAIN invitation : invitation[i].to = p /\ Valid(i)}

\* The rows that the UPDATE of an invitation in progress holds.
Locked == UNION {job[r].revokes : r \in {q \in Request : job[q].does = "invite"}}

Invites(p) == {r \in Request : job[r].does \in {"revoking", "invite"} /\ job[r].who = p}

-----------------------------------------------------------------------------
\* Somebody registers a tenant of their own.
Register(p) ==
    /\ p \notin accounts
    /\ accounts' = accounts \cup {p}
    /\ UNCHANGED <<member, invitation, mailed, job, crossed>>

-----------------------------------------------------------------------------
(* Invitations.                                                             *)

\* Faulty: a new invitation leaves the older ones open.
RevokedNever(seen, p) == {}

\* What revoke_pending_for_email changes of the rows it has seen: those still pending.
Revoked(seen, p) == seen \cap Pending(p)

\* The UPDATE begins, with the rows of its snapshot, and may have to wait for some of them.
RevokePending(r, p, role) ==
    Begin(r, [does |-> "revoking", who |-> p, role |-> role, revokes |-> Pending(p)])

RevokeSeen(r) ==
    /\ job[r].does = "revoking" /\ job[r].revokes \cap Locked = {}
    /\ job' = [job EXCEPT
                  ![r] = [does |-> "invite", who |-> job[r].who, role |-> job[r].role,
                          revokes |-> Revoked(job[r].revokes, job[r].who)]]
    /\ UNCHANGED <<accounts, member, invitation, mailed, crossed>>

\* The commit of the revocations and of the new row.
Invite(r) ==
    LET p == job[r].who
        kept == [i \in DOMAIN invitation |->
                    IF i \in job[r].revokes
                    THEN [invitation[i] EXCEPT !.status = "REVOKED", !.expired = TRUE]
                    ELSE invitation[i]]
    IN  /\ job[r].does = "invite" /\ Len(invitation) < MaxInvites
        /\ invitation' = Append(kept, [to |-> p, role |-> job[r].role, expired |-> FALSE,
                                       status |-> "PENDING"])
        /\ crossed' = IF Invites(p) = {r} THEN crossed ELSE crossed \cup {p}
        /\ job' = [job EXCEPT ![r] = [does |-> "mail", inv |-> Len(invitation) + 1]]
        /\ UNCHANGED <<accounts, member, mailed>>

Deliver(r) ==
    /\ job[r].does = "mail"
    /\ mailed' = mailed \cup {job[r].inv}
    /\ End(r)
    /\ UNCHANGED <<accounts, member, invitation, crossed>>

Expire(i) ==
    /\ Valid(i)
    /\ invitation' = [invitation EXCEPT ![i].expired = TRUE]
    /\ UNCHANGED <<accounts, member, mailed, job, crossed>>

ReadForRevoke(r, i) ==
    /\ invitation[i].status = "PENDING"
    /\ Begin(r, [does |-> "revoke", inv |-> i])

RevokeInvitation(r) ==
    /\ job[r].does = "revoke" /\ job[r].inv \notin Locked
    /\ invitation' = [invitation EXCEPT ![job[r].inv].status = "REVOKED"]
    /\ End(r)
    /\ UNCHANGED <<accounts, member, mailed, crossed>>

\* Somebody opens the link; an account that is there proves itself by its password.
ReadForAccept(r, i) ==
    /\ i \in mailed /\ Valid(i) /\ invitation[i].to \notin Active
    /\ Begin(r, [does |-> "accept", inv |-> i, known |-> invitation[i].to \in accounts])

\* uq_tenant_user_tenant_id_user_id, which counts the deleted rows, and the unique email.
Taken(p, known) == member[p] # None \/ (~known /\ p \in accounts)

Accept(r) ==
    LET i == job[r].inv
        p == invitation[i].to
    IN  /\ job[r].does = "accept" /\ i \notin Locked
        /\ ~Taken(p, job[r].known)
        /\ accounts' = accounts \cup {p}
        /\ member' = [member EXCEPT
                         ![p] = [role |-> invitation[i].role, deleted |-> FALSE]]
        /\ invitation' = [invitation EXCEPT ![i].status = "ACCEPTED"]
        /\ End(r)
        /\ UNCHANGED <<mailed, crossed>>

-----------------------------------------------------------------------------
(* Roles and removals.                                                      *)

\* count_active_admins.
Admins == {p \in Active : member[p].role \in {"OWNER", "ADMIN"}}

\* What change_role and remove refuse.
Protected(p, next) ==
    \/ member[p].role = "OWNER"
    \/ member[p].role = "ADMIN" /\ next # "ADMIN" /\ Cardinality(Admins) <= 1

ReadForRole(r, p, role) ==
    /\ p \in Active /\ ~Protected(p, role)
    /\ Begin(r, [does |-> "role", who |-> p, was |-> member[p].role, role |-> role])

\* The UPDATE names the column only when it differs from what was read.
ChangeRole(r) ==
    /\ job[r].does = "role"
    /\ member' = IF job[r].role = job[r].was THEN member
                 ELSE [member EXCEPT ![job[r].who].role = job[r].role]
    /\ End(r)
    /\ UNCHANGED <<accounts, invitation, mailed, crossed>>

ReadForRemove(r, p) ==
    /\ p \in Active /\ ~Protected(p, None)
    /\ Begin(r, [does |-> "remove", who |-> p])

Remove(r) ==
    /\ job[r].does = "remove"
    /\ member' = [member EXCEPT ![job[r].who].deleted = TRUE]
    /\ End(r)
    /\ UNCHANGED <<accounts, invitation, mailed, crossed>>

Next ==
    \/ \E p \in Person : Register(p)
    \/ \E r \in Request :
          \/ \E p \in Invitee, role \in Given : RevokePending(r, p, role)
          \/ \E p \in Person, role \in Given : ReadForRole(r, p, role)
          \/ \E p \in Person : ReadForRemove(r, p)
          \/ \E i \in DOMAIN invitation : ReadForRevoke(r, i) \/ ReadForAccept(r, i)
          \/ RevokeSeen(r) \/ Invite(r) \/ Deliver(r) \/ RevokeInvitation(r) \/ Accept(r)
          \/ ChangeRole(r) \/ Remove(r) \/ Drop(r)
    \/ \E i \in DOMAIN invitation : Expire(i)

Spec == Init /\ [][Next]_vars

-----------------------------------------------------------------------------
Accepted(p) == {i \in DOMAIN invitation : invitation[i].to = p /\ invitation[i].status = "ACCEPTED"}

(* However invitations, acceptances and revocations overlap, a person has   *)
(* at most one link that opens, unless two invitations were made at once    *)
(* (revoke_pending_for_email: no two valid tokens for one address).         *)
OneLinkOpens == \A p \in Person \ crossed : Cardinality(Pending(p)) <= 1

(* Who is or was a member accepted one invitation, and at most one: two     *)
(* acceptances at once, or one after a removal, are refused by the row that *)
(* is there (accept, uq_tenant_user_tenant_id_user_id).                     *)
AcceptedOnce ==
    \A p \in Person :
        /\ Cardinality(Accepted(p)) <= 1
        /\ Accepted(p) # {} => member[p] # None
        /\ member[p] # None /\ member[p].role # "OWNER" =>
              \/ Accepted(p) # {}
              \* A revocation that had read the invitation as pending.
              \/ \E i \in mailed : invitation[i].to = p /\ invitation[i].status = "REVOKED"

MembersHold == OneLinkOpens /\ AcceptedOnce
=============================================================================
