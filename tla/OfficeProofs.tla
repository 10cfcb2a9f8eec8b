---------------------------- MODULE OfficeProofs ----------------------------
(***************************************************************************)
(* The proofs of what the parts of the back office promise (the desk, the  *)
(* addresses, the shipments, the members, the entrance, the taxes), each   *)
(* on its own and for any values of its constants.                         *)
(***************************************************************************)
EXTENDS Background, Sums, SequenceTheorems

-----------------------------------------------------------------------------
(* The desk of the customers (CustomerDesk).                                *)

Opens(c) == clerk[c].does \in {"ASSIGN", "NOTE", "CLOSE"}

\* What a request has read stays there, and a ticket that is taken up is never new again.
RequestsFound ==
    \A c \in Clerk :
        /\ clerk[c].does = "read" => inbox[clerk[c].message] # None
        /\ Opens(c) => /\ clerk[c].status # "CLOSED" /\ ticket[clerk[c].ticket] # None
                       /\ clerk[c].status # "OPEN" => ticket[clerk[c].ticket].status # "OPEN"

SyncsFound ==
    \A s \in Syncer, m \in Message :
        sync[s].step = "found" /\ sync[s].found[m] # None => inbox[m] # None

SyncState == [step: Desk!Step, pulled: [Message -> Desk!Version],
              found: [Message -> Desk!Row \cup {None}]]

Tells(row) ==
    CASE row.status = "OPEN" -> row = Desk!NewTicket
      [] row.status = "ASSIGNED" -> row.assigned
      [] row.status = "IN_PROGRESS" -> row.notes > 0
      [] OTHER -> row.resolved

DeskInv == Desk!TypeOK /\ RequestsFound /\ SyncsFound /\ Desk!ReadWasSeen /\ Desk!TicketTells

\* The types of what the desk works with.
LEMMA DeskTypes ==
    ASSUME DeskInv
    PROVE  /\ \A m \in Message : inbox[m] \in Desk!Row \cup {None}
           /\ \A t \in Ticket : ticket[t] \in Desk!TicketRow \cup {None}
           /\ \A r \in Desk!Row : r.status \in {"UNREAD", "READ"} /\ r.content \in 1..MaxEdits
           /\ \A c \in Clerk :
                 /\ clerk[c] \in Desk!Job
                 /\ clerk[c].does = "read" =>
                       clerk[c].message \in Message /\ clerk[c].row \in Desk!Row
                 /\ Opens(c) => clerk[c].ticket \in Ticket /\ clerk[c].status \in Desk!TicketStatus
           /\ None \notin Desk!Row /\ None \notin Desk!TicketRow
<1>1. Desk!TypeOK
    BY DEF DeskInv
<1>2. \A c \in Clerk : clerk[c] \in Desk!Job
    BY <1>1 DEF Desk!TypeOK
<1> QED
    BY <1>1, <1>2, DeskAssumption DEF Desk!TypeOK, Desk!Job, Desk!NoJob, Opens, Desk!Row

LEMMA NoSyncType == Desk!NoSync \in SyncState /\ Desk!NoSync.step = "none"
<1>1. 0 \in Desk!Version
    BY DeskAssumption DEF Desk!Version
<1> QED
    BY <1>1 DEF Desk!NoSync, SyncState, Desk!Step

\* A sync that reads changes nothing that the desk shows (_pull, find_message).
LEMMA SyncReads ==
    ASSUME DeskInv, NEW s \in Syncer, Desk!Pull(s) \/ Desk!Find(s) \/ Desk!SyncFails(s)
    PROVE  DeskInv'
<1>1. UNCHANGED <<platform, inbox, ticket, clerk, seen, raced>>
    BY DEF Desk!Pull, Desk!Find, Desk!SyncFails
<1>2. platform.version \in [Message -> Desk!Version] /\ inbox \in [Message -> Desk!Row \cup {None}]
    BY DEF DeskInv, Desk!TypeOK
<1>3. sync \in [Syncer -> SyncState]
    BY DEF DeskInv, Desk!TypeOK, SyncState
<1>4. PICK copy \in SyncState :
          /\ sync' = [sync EXCEPT ![s] = copy]
          /\ copy.step = "found" => copy.found = inbox
    <2>1. sync[s] \in SyncState
        BY <1>3
    <2>2. CASE Desk!Pull(s)
        <3> DEFINE copy == [sync[s] EXCEPT !.step = "pulled", !.pulled = Desk!Pulled]
        <3>1. sync' = [sync EXCEPT ![s] = copy]
            BY <1>3, <2>2 DEF Desk!Pull
        <3>2. Desk!Pulled \in [Message -> Desk!Version]
            BY <1>2, DeskAssumption DEF Desk!Pulled, Desk!Version
        <3>3. copy \in SyncState /\ copy.step = "pulled"
            BY <2>1, <3>2 DEF SyncState, Desk!Step
        <3> QED
            BY <3>1, <3>3
    <2>3. CASE Desk!Find(s)
        <3> DEFINE copy == [sync[s] EXCEPT !.step = "found", !.found = inbox]
        <3>1. sync' = [sync EXCEPT ![s] = copy]
            BY <1>3, <2>3 DEF Desk!Find
        <3>2. copy \in SyncState /\ copy.found = inbox
            BY <1>2, <2>1 DEF SyncState, Desk!Step
        <3> QED
            BY <3>1, <3>2
    <2>4. CASE Desk!SyncFails(s)
        <3>1. Desk!NoSync \in SyncState /\ Desk!NoSync.step = "none"
            BY NoSyncType
        <3> QED
            BY <2>4, <3>1 DEF Desk!SyncFails
    <2> QED
        BY <2>2, <2>3, <2>4
<1>5. Desk!TypeOK'
    BY <1>1, <1>3, <1>4 DEF DeskInv, Desk!TypeOK, SyncState
<1>6. SyncsFound'
    BY <1>1, <1>3, <1>4 DEF DeskInv, SyncsFound
<1>7. RequestsFound' /\ Desk!ReadWasSeen' /\ Desk!TicketTells'
    BY <1>1 DEF DeskInv, RequestsFound, Opens, Desk!ReadWasSeen, Desk!TicketTells
<1> QED
    BY <1>5, <1>6, <1>7 DEF DeskInv

\* A message that a sync writes is unread, unless a clerk has read it meanwhile (_store).
LEMMA StoreKeeps ==
    ASSUME DeskInv, NEW s \in Syncer, Desk!Store(s)
    PROVE  DeskInv'
<1> DEFINE pulled == sync[s].pulled
           found == sync[s].found
<1>1. /\ inbox \in [Message -> Desk!Row \cup {None}]
      /\ pulled \in [Message -> Desk!Version] /\ found \in [Message -> Desk!Row \cup {None}]
      /\ raced \subseteq Message
    BY DEF DeskInv, Desk!TypeOK
<1>2. /\ sync[s].step = "found" /\ sync' = [sync EXCEPT ![s] = Desk!NoSync]
      /\ UNCHANGED <<platform, ticket, clerk, seen>>
    BY DEF Desk!Store
<1>3. SUFFICES ASSUME ~Desk!Conflict(pulled, found)
               PROVE  DeskInv'
    <2>1. CASE Desk!Conflict(pulled, found)
        <3>1. UNCHANGED <<inbox, raced>>
            BY <2>1 DEF Desk!Store
        <3>2. Desk!SyncFails(s)
            BY <1>2, <3>1 DEF Desk!SyncFails
        <3> QED
            BY <3>2, SyncReads
    <2> QED
        BY <2>1, <1>3
<1>4. /\ DOMAIN inbox' = Message /\ inbox' = [m \in Message |-> inbox'[m]]
      /\ \A m \in Message :
            inbox'[m] = IF pulled[m] = 0 THEN inbox[m]
                        ELSE IF found[m] = None THEN Desk!New(pulled[m])
                        ELSE Desk!Updated(inbox[m], found[m], pulled[m])
      /\ raced \subseteq raced' /\ raced' \subseteq Message
      /\ \A m \in Message :
            pulled[m] > 0 /\ found[m] # None /\ inbox[m] # found[m]
            /\ inbox'[m].content # inbox[m].content => m \in raced'
    BY <1>1, <1>3 DEF Desk!Store
<1>5. ASSUME NEW m \in Message
      PROVE  /\ inbox'[m] \in Desk!Row \cup {None}
             /\ inbox[m] # None => inbox'[m] # None
             /\ m \notin raced' /\ inbox'[m] # None /\ inbox'[m].status = "READ"
                   => inbox'[m].content \in seen[m]
    <2>1. /\ inbox[m] \in Desk!Row \cup {None} /\ found[m] \in Desk!Row \cup {None}
          /\ pulled[m] \in Nat /\ pulled[m] <= MaxEdits
        BY <1>1, DeskAssumption DEF Desk!Version
    <2>2. m \notin raced' /\ inbox[m] # None /\ inbox[m].status = "READ"
              => inbox[m].content \in seen[m]
        BY <1>4 DEF DeskInv, Desk!ReadWasSeen
    <2>3. CASE pulled[m] = 0
        BY <1>4, <2>1, <2>2, <2>3
    <2>4. CASE pulled[m] # 0 /\ found[m] = None
        <3>1. inbox'[m] = Desk!New(pulled[m]) /\ pulled[m] \in 1..MaxEdits
            BY <1>4, <2>1, <2>4, DeskAssumption
        <3>2. inbox'[m] \in Desk!Row /\ inbox'[m].status = "UNREAD"
            BY <3>1 DEF Desk!New, Desk!Row
        <3> QED
            BY <3>2, DeskTypes
    <2>5. CASE pulled[m] # 0 /\ found[m] # None
        <3>1. inbox[m] \in Desk!Row /\ found[m] \in Desk!Row /\ pulled[m] \in 1..MaxEdits
            BY <1>2, <2>1, <2>5, DeskAssumption DEF DeskInv, SyncsFound
        <3>2. CASE found[m].content = pulled[m]
            <4>1. inbox'[m] = inbox[m]
                BY <1>4, <2>5, <3>2 DEF Desk!Updated
            <4> QED
                BY <2>1, <2>2, <4>1
        <3>3. CASE found[m].content # pulled[m]
            <4>1. inbox'[m] = [inbox[m] EXCEPT !.content = pulled[m],
                                  !.status = IF found[m].status = "UNREAD" THEN @ ELSE "UNREAD"]
                BY <1>4, <2>5, <3>3 DEF Desk!Updated
            <4>2. /\ inbox'[m] \in Desk!Row /\ inbox'[m].content = pulled[m]
                  /\ inbox'[m].status = IF found[m].status = "UNREAD" THEN inbox[m].status
                                        ELSE "UNREAD"
                BY <3>1, <4>1 DEF Desk!Row
            <4>3. CASE inbox[m].content = pulled[m]
                BY <2>2, <3>1, <4>2, <4>3, DeskTypes
            <4>4. CASE inbox[m].content # pulled[m] /\ inbox[m] = found[m]
                BY <4>2, <4>4, DeskTypes
            <4>5. CASE inbox[m].content # pulled[m] /\ inbox[m] # found[m]
                BY <1>4, <2>1, <2>5, <4>2, <4>5, DeskTypes
            <4> QED
                BY <4>3, <4>4, <4>5
        <3> QED
            BY <3>2, <3>3
    <2> QED
        BY <2>3, <2>4, <2>5
<1>6. /\ sync' \in [Syncer -> SyncState]
      /\ \A u \in Syncer : sync'[u] = IF u = s THEN Desk!NoSync ELSE sync[u]
    <2>1. sync \in [Syncer -> SyncState]
        BY DEF DeskInv, Desk!TypeOK, SyncState
    <2> QED
        BY <1>2, <2>1, NoSyncType
<1>7. Desk!TypeOK'
    BY <1>2, <1>4, <1>5, <1>6 DEF DeskInv, Desk!TypeOK, SyncState
<1>8. RequestsFound'
    <2>1. \A c \in Clerk : clerk[c].does = "read" => clerk[c].message \in Message
        BY DeskTypes
    <2> QED
        BY <1>2, <1>5, <2>1 DEF DeskInv, RequestsFound, Opens
<1>9. SyncsFound'
    BY <1>5, <1>6, NoSyncType DEF DeskInv, SyncsFound
<1>10. Desk!ReadWasSeen' /\ Desk!TicketTells'
    BY <1>2, <1>5 DEF DeskInv, Desk!ReadWasSeen, Desk!TicketTells
<1> QED
    BY <1>7, <1>8, <1>9, <1>10 DEF DeskInv

\* The clerk is shown the message that is marked as read (mark_read).
LEMMA MarkKeeps ==
    ASSUME DeskInv, NEW c \in Clerk, Desk!MarkRead(c)
    PROVE  DeskInv'
<1> DEFINE m == clerk[c].message
           row == clerk[c].row
<1>1. /\ clerk[c].does = "read" /\ m \in Message /\ row \in Desk!Row
      /\ inbox[m] \in Desk!Row /\ clerk' = [clerk EXCEPT ![c] = Desk!NoJob]
      /\ UNCHANGED <<platform, ticket, sync>>
    BY DeskTypes DEF DeskInv, RequestsFound, Desk!MarkRead
<1>2. /\ inbox' = [inbox EXCEPT ![m].status = IF row.status = "UNREAD" THEN "READ" ELSE @]
      /\ seen' = [seen EXCEPT ![m] = @ \cup {row.content}]
      /\ raced' = IF inbox[m].content = row.content THEN raced ELSE raced \cup {m}
    BY DEF Desk!MarkRead
<1>3. /\ inbox \in [Message -> Desk!Row \cup {None}] /\ seen \in [Message -> SUBSET Desk!Version]
      /\ raced \subseteq Message /\ clerk \in [Clerk -> Desk!Job]
    BY DEF DeskInv, Desk!TypeOK
<1>4. clerk' \in [Clerk -> Desk!Job] /\ clerk'[c] = Desk!NoJob
      /\ \A d \in Clerk \ {c} : clerk'[d] = clerk[d]
    BY <1>1, <1>3 DEF Desk!Job
<1> DEFINE marked == [inbox[m] EXCEPT !.status = IF row.status = "UNREAD" THEN "READ" ELSE @]
<1>5. /\ marked \in Desk!Row /\ marked.content = inbox[m].content
      /\ marked.status = IF row.status = "UNREAD" THEN "READ" ELSE inbox[m].status
    BY <1>1 DEF Desk!Row
<1>6. inbox' = [inbox EXCEPT ![m] = marked]
    BY <1>1, <1>2, <1>3
<1> HIDE DEF marked
<1>7. /\ inbox' \in [Message -> Desk!Row \cup {None}] /\ inbox'[m] = marked
      /\ \A n \in Message \ {m} : inbox'[n] = inbox[n]
    BY <1>1, <1>3, <1>5, <1>6
<1>8. row.content \in Desk!Version
    BY <1>1, DeskAssumption DEF Desk!Row, Desk!Version
<1>9. /\ seen' \in [Message -> SUBSET Desk!Version] /\ seen'[m] = seen[m] \cup {row.content}
      /\ \A n \in Message \ {m} : seen'[n] = seen[n]
    BY <1>1, <1>2, <1>3, <1>8
<1>10. raced \subseteq raced' /\ raced' \subseteq Message
       /\ (m \notin raced' => inbox[m].content = row.content)
    BY <1>1, <1>2, <1>3
<1>11. marked # None
    BY <1>5, DeskTypes
<1> HIDE DEF m, row
<1>12. Desk!TypeOK'
    BY <1>1, <1>4, <1>7, <1>9, <1>10 DEF DeskInv, Desk!TypeOK
<1>13. RequestsFound'
    <2>1. \A d \in Clerk : clerk[d].does = "read" => clerk[d].message \in Message
        BY DeskTypes
    <2> QED
        BY <1>1, <1>4, <1>7, <1>11, <2>1 DEF DeskInv, RequestsFound, Opens, Desk!NoJob
<1>14. SyncsFound'
    BY <1>1, <1>7, <1>11 DEF DeskInv, SyncsFound
<1>15. Desk!ReadWasSeen'
    <2> SUFFICES ASSUME NEW n \in Message, n \notin raced', inbox'[n] # None,
                        inbox'[n].status = "READ"
                 PROVE  inbox'[n].content \in seen'[n]
        BY DEF Desk!ReadWasSeen
    <2>1. CASE n = m
        <3>1. inbox'[n].content = row.content
            BY <1>5, <1>7, <1>10, <2>1
        <3> QED
            BY <1>9, <2>1, <3>1
    <2>2. CASE n # m
        BY <1>7, <1>9, <1>10, <2>2 DEF DeskInv, Desk!ReadWasSeen
    <2> QED
        BY <2>1, <2>2
<1>16. Desk!TicketTells'
    BY <1>1 DEF DeskInv, Desk!TicketTells
<1> QED
    BY <1>12, <1>13, <1>14, <1>15, <1>16 DEF DeskInv

\* A request that begins has found its message, or its ticket open; one that fails leaves no
\* trace (_open_ticket, get_db).
LEMMA RequestBegins ==
    ASSUME DeskInv, NEW c \in Clerk,
           \/ \E m \in Message : Desk!StartRead(c, m)
           \/ \E t \in Ticket, action \in {"ASSIGN", "NOTE", "CLOSE"} : Desk!OpenTicket(c, t, action)
           \/ Desk!RequestFails(c)
    PROVE  DeskInv'
<1>1. UNCHANGED <<platform, inbox, ticket, sync, seen, raced>>
    BY DEF Desk!StartRead, Desk!OpenTicket, Desk!RequestFails, Desk!messages
<1>2. PICK job \in Desk!Job :
          /\ clerk' = [clerk EXCEPT ![c] = job]
          /\ job.does = "read" => inbox[job.message] # None
          /\ job.does \in {"ASSIGN", "NOTE", "CLOSE"} =>
                /\ job.status # "CLOSED" /\ ticket[job.ticket] # None
                /\ job.status # "OPEN" => ticket[job.ticket].status # "OPEN"
    <2>1. ASSUME NEW m \in Message, Desk!StartRead(c, m)
          PROVE  /\ clerk' = [clerk EXCEPT ![c] = [does |-> "read", message |-> m, row |-> inbox[m]]]
                 /\ inbox[m] # None
                 /\ [does |-> "read", message |-> m, row |-> inbox[m]] \in Desk!Job
        BY <2>1, DeskTypes DEF Desk!StartRead, Desk!Job
    <2>2. ASSUME NEW t \in Ticket, NEW action \in {"ASSIGN", "NOTE", "CLOSE"},
                 Desk!OpenTicket(c, t, action)
          PROVE  /\ clerk' = [clerk EXCEPT ![c] =
                                 [does |-> action, ticket |-> t, status |-> ticket[t].status]]
                 /\ ticket[t] # None /\ ticket[t].status # "CLOSED"
                 /\ [does |-> action, ticket |-> t, status |-> ticket[t].status] \in Desk!Job
        <3>1. ticket[t] # None /\ ticket[t].status # "CLOSED"
            BY <2>2 DEF Desk!OpenTicket, Desk!Takes
        <3>2. ticket[t].status \in Desk!TicketStatus
            BY <3>1, DeskTypes DEF Desk!TicketRow
        <3> QED
            BY <2>2, <3>1, <3>2 DEF Desk!OpenTicket, Desk!Job
    <2>3. CASE Desk!RequestFails(c)
        <3>1. Desk!NoJob \in Desk!Job /\ Desk!NoJob.does = "none"
            BY DEF Desk!Job, Desk!NoJob
        <3> QED
            BY <2>3, <3>1 DEF Desk!RequestFails
    <2> QED
        BY <2>1, <2>2, <2>3
<1>3. clerk' \in [Clerk -> Desk!Job] /\ clerk'[c] = job
      /\ \A d \in Clerk \ {c} : clerk'[d] = clerk[d]
    BY <1>2 DEF DeskInv, Desk!TypeOK
<1>4. Desk!TypeOK'
    BY <1>1, <1>3 DEF DeskInv, Desk!TypeOK
<1>5. RequestsFound'
    BY <1>1, <1>2, <1>3 DEF DeskInv, RequestsFound, Opens
<1> QED
    BY <1>1, <1>4, <1>5 DEF DeskInv, SyncsFound, Desk!ReadWasSeen, Desk!TicketTells

\* Of a ticket only the row changes, and it is never new again (create_ticket, _save).
LEMMA TicketWritten ==
    ASSUME DeskInv, NEW t \in Ticket, NEW row \in Desk!TicketRow,
           ticket' = [ticket EXCEPT ![t] = row],
           UNCHANGED <<platform, inbox, sync, seen, raced>>,
           clerk' = clerk \/ \E c \in Clerk : clerk' = [clerk EXCEPT ![c] = Desk!NoJob],
           ticket[t] # None /\ ticket[t].status # "OPEN" => row.status # "OPEN",
           Tells(row)
    PROVE  DeskInv'
<1>1. /\ ticket \in [Ticket -> Desk!TicketRow \cup {None}] /\ clerk \in [Clerk -> Desk!Job]
    BY DEF DeskInv, Desk!TypeOK
<1>2. /\ ticket' \in [Ticket -> Desk!TicketRow \cup {None}] /\ ticket'[t] = row /\ row # None
      /\ \A u \in Ticket \ {t} : ticket'[u] = ticket[u]
    BY <1>1, DeskTypes
<1>3. clerk' \in [Clerk -> Desk!Job]
      /\ \A d \in Clerk : clerk'[d] = clerk[d] \/ clerk'[d] = Desk!NoJob
    BY <1>1 DEF Desk!Job
<1>4. Desk!TypeOK'
    BY <1>2, <1>3 DEF DeskInv, Desk!TypeOK
<1>5. RequestsFound'
    <2> SUFFICES ASSUME NEW d \in Clerk, clerk'[d] = clerk[d]
                 PROVE  /\ clerk[d].does = "read" => inbox[clerk[d].message] # None
                        /\ Opens(d) =>
                              /\ clerk[d].status # "CLOSED" /\ ticket'[clerk[d].ticket] # None
                              /\ clerk[d].status # "OPEN" => ticket'[clerk[d].ticket].status # "OPEN"
        BY <1>3 DEF RequestsFound, Opens, Desk!NoJob
    <2>1. Opens(d) => clerk[d].ticket \in Ticket
        BY DeskTypes
    <2> QED
        BY <1>2, <2>1 DEF DeskInv, RequestsFound
<1>6. Desk!TicketTells'
    <2> SUFFICES ASSUME NEW u \in Ticket, ticket'[u] # None
                 PROVE  Tells(ticket'[u])
        BY DEF Desk!TicketTells, Desk!NewTicket, Tells
    <2>1. CASE u = t
        BY <1>2, <2>1
    <2>2. CASE u # t
        BY <1>2, <2>2 DEF DeskInv, Desk!TicketTells, Tells
    <2> QED
        BY <2>1, <2>2
<1> QED
    BY <1>4, <1>5, <1>6 DEF DeskInv, SyncsFound, Desk!ReadWasSeen

\* What is done to a ticket goes with its status in one commit (next_ticket_status).
LEMMA SaveTicketKeeps ==
    ASSUME DeskInv, NEW c \in Clerk, Desk!SaveTicket(c)
    PROVE  DeskInv'
<1> DEFINE t == clerk[c].ticket
           next == Desk!NextTicketStatus(clerk[c].status, clerk[c].does)
           old == ticket[t]
           does == clerk[c].does
           status == clerk[c].status
           row == [old EXCEPT !.status = IF next = status THEN @ ELSE next,
                              !.assigned = @ \/ does = "ASSIGN",
                              !.notes = IF does = "NOTE" THEN @ + 1 ELSE @,
                              !.resolved = @ \/ does = "CLOSE"]
<1>1. /\ does \in {"ASSIGN", "NOTE", "CLOSE"} /\ t \in Ticket /\ status \in Desk!TicketStatus
      /\ status # "CLOSED" /\ old \in Desk!TicketRow
      /\ status # "OPEN" => old.status # "OPEN"
      /\ does = "NOTE" => old.notes < MaxNotes
    BY DeskTypes DEF Desk!SaveTicket, DeskInv, RequestsFound, Opens
<1>2. UNCHANGED <<platform, inbox, sync, seen, raced>> /\ clerk' = [clerk EXCEPT ![c] = Desk!NoJob]
    BY DEF Desk!SaveTicket, Desk!messages
<1>3. ticket' = [ticket EXCEPT ![t] = row]
    BY <1>1 DEF Desk!SaveTicket, DeskInv, Desk!TypeOK
<1>4. Tells(old)
    BY <1>1, DeskTypes DEF DeskInv, Desk!TicketTells, Tells
<1>5. next \in Desk!TicketStatus /\ next # "OPEN"
      /\ (next = "ASSIGNED" => does = "ASSIGN")
      /\ (next = "IN_PROGRESS" => does = "NOTE")
      /\ (next = "CLOSED" => does = "CLOSE")
    BY <1>1 DEF Desk!NextTicketStatus, Desk!TicketStatus
<1> HIDE DEF next, t, does, status
<1>6. /\ row \in Desk!TicketRow
      /\ row.status = IF next = status THEN old.status ELSE next
      /\ row.assigned = (old.assigned \/ does = "ASSIGN")
      /\ row.notes = IF does = "NOTE" THEN old.notes + 1 ELSE old.notes
      /\ row.resolved = (old.resolved \/ does = "CLOSE")
    <2> HIDE DEF old
    <2>1. /\ old \in [status: Desk!TicketStatus, assigned: BOOLEAN, notes: 0..MaxNotes,
                      resolved: BOOLEAN]
          /\ old.notes \in 0..MaxNotes
        BY <1>1 DEF Desk!TicketRow
    <2>2. does = "NOTE" => old.notes + 1 \in 0..MaxNotes
        BY <1>1, <2>1, DeskAssumption
    <2> QED
        BY <1>5, <2>1, <2>2 DEF Desk!TicketRow
<1> HIDE DEF row
<1>7. old.status \in Desk!TicketStatus /\ old.notes \in Nat
    BY <1>1, DeskAssumption DEF Desk!TicketRow
<1>8. row.status # "OPEN"
    BY <1>1, <1>5, <1>6
<1>9. Tells(row)
    <2> HIDE DEF old
    <2>1. CASE row.status = "ASSIGNED"
        <3>1. does = "ASSIGN" \/ old.status = "ASSIGNED"
            BY <1>5, <1>6, <2>1
        <3>2. row.assigned
            BY <1>4, <1>6, <3>1 DEF Tells
        <3> QED
            BY <2>1, <3>2 DEF Tells
    <2>2. CASE row.status = "IN_PROGRESS"
        <3>1. does = "NOTE" \/ old.status = "IN_PROGRESS"
            BY <1>5, <1>6, <2>2
        <3>2. row.notes > 0
            BY <1>4, <1>6, <1>7, <3>1 DEF Tells
        <3> QED
            BY <2>2, <3>2 DEF Tells
    <2>3. CASE row.status = "CLOSED"
        <3>1. does = "CLOSE" \/ old.status = "CLOSED"
            BY <1>5, <1>6, <2>3
        <3>2. row.resolved
            BY <1>4, <1>6, <3>1 DEF Tells
        <3> QED
            BY <2>3, <3>2 DEF Tells
    <2>4. row.status \in {"OPEN", "ASSIGNED", "IN_PROGRESS", "CLOSED"}
        BY <1>6 DEF Desk!TicketRow, Desk!TicketStatus
    <2> QED
        BY <1>8, <2>1, <2>2, <2>3, <2>4
<1> QED
    BY <1>1, <1>2, <1>3, <1>6, <1>8, <1>9, TicketWritten

LEMMA CreateTicketKeeps ==
    ASSUME DeskInv, NEW t \in Ticket, Desk!CreateTicket(t)
    PROVE  DeskInv'
<1>1. Desk!NewTicket \in Desk!TicketRow /\ Desk!NewTicket.status = "OPEN" /\ Tells(Desk!NewTicket)
    BY DeskAssumption DEF Desk!NewTicket, Desk!TicketRow, Desk!TicketStatus, Tells
<1>2. /\ ticket[t] = None /\ ticket' = [ticket EXCEPT ![t] = Desk!NewTicket]
      /\ UNCHANGED <<platform, inbox, sync, seen, raced, clerk>>
    BY DEF Desk!CreateTicket, Desk!messages
<1> QED
    BY <1>1, <1>2, TicketWritten

LEMMA BuyerKeeps ==
    ASSUME DeskInv, NEW m \in Message, Desk!BuyerWrites(m)
    PROVE  DeskInv'
<1>1. UNCHANGED <<inbox, ticket, sync, clerk, seen, raced>>
    BY DEF Desk!BuyerWrites
<1>2. platform' \in [version: [Message -> Desk!Version], first: SUBSET Message]
    <2> DEFINE version == [platform.version EXCEPT ![m] = @ + 1]
    <2>1. PICK first \in Desk!FirstPages(version) :
              platform' = [version |-> version, first |-> first]
        BY DEF Desk!BuyerWrites
    <2>2. version \in [Message -> Desk!Version]
        BY DeskAssumption DEF Desk!BuyerWrites, DeskInv, Desk!TypeOK, Desk!Version
    <2>3. first \subseteq Message
        BY DEF Desk!FirstPages
    <2> QED
        BY <2>1, <2>2, <2>3
<1>3. Desk!TypeOK'
    BY <1>1, <1>2 DEF DeskInv, Desk!TypeOK
<1> QED
    BY <1>1, <1>3 DEF DeskInv, RequestsFound, Opens, SyncsFound, Desk!ReadWasSeen, Desk!TicketTells

LEMMA StepKeepsDesk == DeskInv /\ [Desk!Next]_(Desk!vars) => DeskInv'
<1> SUFFICES ASSUME DeskInv, [Desk!Next]_(Desk!vars) PROVE DeskInv'
    OBVIOUS
<1>1. ASSUME NEW m \in Message, Desk!BuyerWrites(m) PROVE DeskInv'
    BY <1>1, BuyerKeeps
<1>2. ASSUME NEW s \in Syncer, Desk!Pull(s) \/ Desk!Find(s) \/ Desk!SyncFails(s) PROVE DeskInv'
    BY <1>2, SyncReads
<1>3. ASSUME NEW s \in Syncer, Desk!Store(s) PROVE DeskInv'
    BY <1>3, StoreKeeps
<1>4. ASSUME NEW c \in Clerk,
             \/ \E m \in Message : Desk!StartRead(c, m)
             \/ \E t \in Ticket, action \in {"ASSIGN", "NOTE", "CLOSE"} : Desk!OpenTicket(c, t, action)
             \/ Desk!RequestFails(c)
      PROVE  DeskInv'
    BY <1>4, RequestBegins
<1>5. ASSUME NEW c \in Clerk, Desk!MarkRead(c) PROVE DeskInv'
    BY <1>5, MarkKeeps
<1>6. ASSUME NEW c \in Clerk, Desk!SaveTicket(c) PROVE DeskInv'
    BY <1>6, SaveTicketKeeps
<1>7. ASSUME NEW t \in Ticket, Desk!CreateTicket(t) PROVE DeskInv'
    BY <1>7, CreateTicketKeeps
<1>8. CASE UNCHANGED Desk!vars
    <2>1. UNCHANGED <<platform, inbox, ticket, sync, clerk, seen, raced>>
        BY <1>8 DEF Desk!vars
    <2> QED
        BY <2>1 DEF DeskInv, Desk!TypeOK, RequestsFound, Opens, SyncsFound, Desk!ReadWasSeen,
                    Desk!TicketTells
<1> QED
    BY <1>1, <1>2, <1>3, <1>4, <1>5, <1>6, <1>7, <1>8 DEF Desk!Next, Desk!Proceed

(***************************************************************************)
(* What is marked as read was shown to a clerk, and the status of a ticket *)
(* tells what was done with it, for any number of syncs, clerks, messages  *)
(* and tickets (_store, mark_message_read, next_ticket_status).            *)
(***************************************************************************)
THEOREM DeskInvariant == Desk!Spec => []DeskInv
<1>1. Desk!Init => DeskInv
    <2> SUFFICES ASSUME Desk!Init PROVE DeskInv
        OBVIOUS
    <2>1. Desk!TypeOK
        BY DeskAssumption DEF Desk!Init, Desk!TypeOK, Desk!Version, Desk!NoSync, Desk!Step, Desk!Job
    <2> QED
        BY <2>1 DEF Desk!Init, DeskInv, RequestsFound, Opens, SyncsFound, Desk!ReadWasSeen,
                    Desk!TicketTells, Desk!NoJob, Desk!NoSync
<1> QED
    BY <1>1, StepKeepsDesk, PTL DEF Desk!Spec

\* A closed ticket is written only by a request that had found it open (_open_ticket).
LEMMA ClosedTicketStays == DeskInv /\ [Desk!Next]_(Desk!vars) => Desk!ClosedStays
<1> SUFFICES ASSUME DeskInv, [Desk!Next]_(Desk!vars), NEW t \in Ticket,
                    ticket[t] # None, ticket[t].status = "CLOSED",
                    \A c \in Clerk : clerk[c].does \in {"ASSIGN", "NOTE", "CLOSE"}
                                    /\ clerk[c].ticket = t => clerk[c].status = "CLOSED"
             PROVE  ticket'[t] = ticket[t]
    BY DEF Desk!ClosedStays
<1>1. \A c \in Clerk : ~(Opens(c) /\ clerk[c].ticket = t)
    BY DEF DeskInv, RequestsFound, Opens
<1>2. ASSUME NEW c \in Clerk, Desk!SaveTicket(c) PROVE ticket'[t] = ticket[t]
    <2>1. Opens(c) /\ clerk[c].ticket # t
        BY <1>1, <1>2 DEF Desk!SaveTicket, Opens
    <2> QED
        BY <1>2, <2>1 DEF Desk!SaveTicket, DeskInv, Desk!TypeOK
<1>3. ASSUME NEW u \in Ticket, Desk!CreateTicket(u) PROVE ticket'[t] = ticket[t]
    BY <1>3 DEF Desk!CreateTicket, DeskInv, Desk!TypeOK
<1>4. CASE ticket' = ticket
    BY <1>4
<1> QED
    BY <1>2, <1>3, <1>4 DEF Desk!Next, Desk!Proceed, Desk!BuyerWrites, Desk!Pull, Desk!Find,
       Desk!Store, Desk!SyncFails, Desk!StartRead, Desk!OpenTicket, Desk!MarkRead,
       Desk!RequestFails, Desk!vars

-----------------------------------------------------------------------------
(* Where an order is sent (OrderAddress).                                   *)

\* A copy of the order is not newer than the platform's, and as new only if it says the same.
Copies(version) ==
    /\ version.stamp <= sentTo.stamp
    /\ version.stamp = sentTo.stamp => version.address = sentTo.address

CopiesHold ==
    /\ addressee.stamp <= sentTo.stamp
    /\ \A s \in Mirror : mirror[s].step \in {"find", "store"} => Copies(mirror[s].version)

\* The platform stamps what it takes, each change with a stamp of its own.
StampsDiffer ==
    /\ \A r \in Mover : mover[r].step = "save" =>
          /\ mover[r].stamp \in 1..sentTo.stamp
          /\ mover[r].stamp = sentTo.stamp => mover[r].to = sentTo.address
          /\ \A q \in Mover \ {r} : mover[q].step = "save" => mover[q].stamp # mover[r].stamp
          /\ \A i \in DOMAIN addressLog : addressLog[i].stamp # mover[r].stamp
    /\ \A i \in DOMAIN addressLog : addressLog[i].stamp <= sentTo.stamp

AddressInv == Addresses!TypeOK /\ CopiesHold /\ StampsDiffer /\ Addresses!AddressHolds

LEMMA AddressTypes ==
    ASSUME AddressInv
    PROVE  /\ sentTo \in Addresses!Version /\ addressee \in Addresses!Version
           /\ \A v \in Addresses!Version : v.address \in Address /\ v.stamp \in Nat
           /\ \A r \in Mover :
                 /\ mover[r].step \in {"push", "save"} =>
                       mover[r].to \in Address /\ mover[r].before \in Address
                 /\ mover[r].step = "save" => mover[r].stamp \in 0..MaxStamp
           /\ \A s \in Mirror :
                 /\ mirror[s].step \in {"find", "store"} => mirror[s].version \in Addresses!Version
                 /\ mirror[s].step = "store" => mirror[s].seen \in Addresses!Version
           /\ addressLog \in Seq(Addresses!Entry)
           /\ \A i \in DOMAIN addressLog : addressLog[i].stamp \in Nat
<1>1. Addresses!TypeOK
    BY DEF AddressInv
<1>2. \A v \in Addresses!Version : v.address \in Address /\ v.stamp \in Nat
    BY AddressAssumption DEF Addresses!Version
<1>3. ASSUME NEW r \in Mover
      PROVE  /\ mover[r].step \in {"push", "save"} =>
                    mover[r].to \in Address /\ mover[r].before \in Address
             /\ mover[r].step = "save" => mover[r].stamp \in 0..MaxStamp
    <2>1. mover[r] \in Addresses!Change
        BY <1>1 DEF Addresses!TypeOK
    <2> QED
        BY <2>1 DEF Addresses!Change, Addresses!Idle
<1>4. ASSUME NEW s \in Mirror
      PROVE  /\ mirror[s].step \in {"find", "store"} => mirror[s].version \in Addresses!Version
             /\ mirror[s].step = "store" => mirror[s].seen \in Addresses!Version
    <2>1. mirror[s] \in Addresses!Pulled
        BY <1>1 DEF Addresses!TypeOK
    <2> QED
        BY <2>1 DEF Addresses!Pulled, Addresses!Idle
<1>5. addressLog \in Seq(Addresses!Entry)
    BY <1>1 DEF Addresses!TypeOK
<1>6. ASSUME NEW i \in DOMAIN addressLog PROVE addressLog[i].stamp \in Nat
    <2>1. addressLog[i] \in Addresses!Entry
        BY <1>5
    <2>2. \A entry \in Addresses!Entry : entry.stamp \in Nat
        BY AddressAssumption DEF Addresses!Entry
    <2> QED
        BY <2>1, <2>2
<1> QED
    BY <1>1, <1>2, <1>3, <1>4, <1>5, <1>6 DEF Addresses!TypeOK

\* A change gets a stamp that nothing has had yet.
LEMMA StampIsNew ==
    ASSUME AddressInv, NEW a \in Address, sentTo.stamp < MaxStamp, Addresses!Moved(a)
    PROVE  /\ sentTo' \in Addresses!Version
           /\ sentTo'.stamp = sentTo.stamp + 1 /\ sentTo'.address = a
           /\ addressee.stamp < sentTo'.stamp
           /\ \A s \in Mirror : mirror[s].step \in {"find", "store"} =>
                 mirror[s].version.stamp < sentTo'.stamp
           /\ \A r \in Mover : mover[r].step = "save" =>
                 mover[r].stamp \in 1..sentTo'.stamp /\ mover[r].stamp # sentTo'.stamp
           /\ \A i \in DOMAIN addressLog : addressLog[i].stamp < sentTo'.stamp
<1>1. sentTo.stamp \in Nat /\ addressee.stamp \in Nat
    BY AddressTypes
<1>2. sentTo' = [address |-> a, stamp |-> sentTo.stamp + 1]
    BY DEF Addresses!Moved
<1>3. sentTo' \in Addresses!Version
    BY <1>1, <1>2, AddressAssumption DEF Addresses!Version
<1>4. ASSUME NEW s \in Mirror, mirror[s].step \in {"find", "store"}
      PROVE  mirror[s].version.stamp < sentTo'.stamp
    <2>1. mirror[s].version.stamp \in Nat /\ mirror[s].version.stamp <= sentTo.stamp
        BY <1>4, AddressTypes DEF AddressInv, CopiesHold, Copies
    <2> QED
        BY <1>1, <1>2, <2>1
<1>5. ASSUME NEW r \in Mover, mover[r].step = "save"
      PROVE  mover[r].stamp \in 1..sentTo'.stamp /\ mover[r].stamp # sentTo'.stamp
    BY <1>1, <1>2, <1>5 DEF AddressInv, StampsDiffer
<1>6. ASSUME NEW i \in DOMAIN addressLog PROVE addressLog[i].stamp < sentTo'.stamp
    <2>1. addressLog[i].stamp \in Nat /\ addressLog[i].stamp <= sentTo.stamp
        BY AddressTypes DEF AddressInv, StampsDiffer
    <2> QED
        BY <1>1, <1>2, <2>1
<1>7. addressee.stamp < sentTo'.stamp
    BY <1>1, <1>2 DEF AddressInv, CopiesHold
<1> QED
    BY <1>2, <1>3, <1>4, <1>5, <1>6, <1>7

\* Somebody changes the order at the marketplace, or it takes what a request sends (_push).
LEMMA PlatformKeepsAddress ==
    ASSUME AddressInv,
           \/ \E a \in Address : Addresses!ChangeAtPlatform(a)
           \/ \E r \in Mover : Addresses!Accept(r)
    PROVE  AddressInv'
<1>1. PICK a \in Address : sentTo.stamp < MaxStamp /\ Addresses!Moved(a)
    BY AddressTypes DEF Addresses!ChangeAtPlatform, Addresses!Accept
<1>2. UNCHANGED <<addressee, addressLog, mirror, collided>>
    BY DEF Addresses!ChangeAtPlatform, Addresses!Accept
<1>3. mover' = mover \/ \E r \in Mover :
          \E job \in [step: {"save"}, before: Address, to: {a}, stamp: {sentTo'.stamp}] :
              mover' = [mover EXCEPT ![r] = job]
    <2>1. CASE \E b \in Address : Addresses!ChangeAtPlatform(b)
        BY <2>1 DEF Addresses!ChangeAtPlatform
    <2>2. ASSUME NEW r \in Mover, Addresses!Accept(r)
          PROVE  \E job \in [step: {"save"}, before: Address, to: {a}, stamp: {sentTo'.stamp}] :
                     mover' = [mover EXCEPT ![r] = job]
        <3> DEFINE job == [step |-> "save", before |-> mover[r].before, to |-> mover[r].to,
                           stamp |-> sentTo.stamp + 1]
        <3>1. mover' = [mover EXCEPT ![r] = job]
            BY <2>2 DEF Addresses!Accept, Addresses!Goes
        <3>2. mover[r].before \in Address
            BY <2>2, AddressTypes DEF Addresses!Accept
        <3>3. mover[r].to = a /\ sentTo'.stamp = sentTo.stamp + 1
            BY <1>1, <2>2 DEF Addresses!Accept, Addresses!Moved
        <3> QED
            BY <3>1, <3>2, <3>3
    <2> QED
        BY <2>1, <2>2
<1>4. /\ sentTo' \in Addresses!Version /\ sentTo'.address = a
      /\ sentTo'.stamp \in Nat /\ sentTo'.stamp > 0 /\ sentTo'.stamp <= MaxStamp
    BY <1>1, StampIsNew, AddressTypes, AddressAssumption
<1>5. mover \in [Mover -> Addresses!Change]
    BY DEF AddressInv, Addresses!TypeOK
<1>6. Addresses!TypeOK'
    <2>1. \A job \in [step: {"save"}, before: Address, to: {a}, stamp: {sentTo'.stamp}] :
              job \in Addresses!Change
        BY <1>4, AddressAssumption DEF Addresses!Change
    <2>2. mover' \in [Mover -> Addresses!Change]
        BY <1>3, <1>5, <2>1
    <2> QED
        BY <1>2, <1>4, <2>2 DEF AddressInv, Addresses!TypeOK
<1>7. CopiesHold'
    <2>1. \A s \in Mirror : mirror[s].step \in {"find", "store"} =>
              mirror[s].version.stamp \in Nat
        BY AddressTypes
    <2>2. addressee.stamp \in Nat
        BY AddressTypes
    <2> QED
        BY <1>1, <1>2, <1>4, <2>1, <2>2, StampIsNew DEF CopiesHold, Copies
<1>8. StampsDiffer'
    <2>1. ASSUME NEW r \in Mover, mover'[r].step = "save"
          PROVE  \/ mover'[r] = mover[r]
                 \/ mover'[r].to = a /\ mover'[r].stamp = sentTo'.stamp
        BY <1>3, <1>5, <2>1
    <2>2. \A r, q \in Mover : mover'[r] # mover[r] /\ mover'[q] # mover[q] => r = q
        BY <1>3, <1>5
    <2>3. ASSUME NEW i \in DOMAIN addressLog
          PROVE  addressLog[i].stamp \in Nat /\ addressLog[i].stamp < sentTo'.stamp
        BY <1>1, StampIsNew, AddressTypes
    <2>4. ASSUME NEW r \in Mover, mover'[r].step = "save"
          PROVE  /\ mover'[r].stamp \in 1..sentTo'.stamp
                 /\ mover'[r].stamp = sentTo'.stamp => mover'[r].to = a
                 /\ \A i \in DOMAIN addressLog : addressLog[i].stamp # mover'[r].stamp
        <3>1. CASE mover'[r] = mover[r]
            BY <1>1, <2>4, <3>1, StampIsNew DEF AddressInv, StampsDiffer
        <3>2. CASE mover'[r].to = a /\ mover'[r].stamp = sentTo'.stamp
            BY <1>4, <2>3, <3>2
        <3> QED
            BY <2>1, <2>4, <3>1, <3>2
    <2>5. ASSUME NEW r \in Mover, NEW q \in Mover \ {r},
                 mover'[r].step = "save", mover'[q].step = "save"
          PROVE  mover'[q].stamp # mover'[r].stamp
        <3>1. CASE mover'[r] = mover[r] /\ mover'[q] = mover[q]
            BY <2>5, <3>1 DEF AddressInv, StampsDiffer
        <3>2. CASE mover'[r] = mover[r] /\ mover'[q] # mover[q]
            BY <1>1, <2>1, <2>5, <3>2, StampIsNew
        <3>3. CASE mover'[r] # mover[r] /\ mover'[q] = mover[q]
            BY <1>1, <2>1, <2>5, <3>3, StampIsNew
        <3> QED
            BY <2>2, <3>1, <3>2, <3>3
    <2>6. \A i \in DOMAIN addressLog : addressLog[i].stamp <= sentTo'.stamp
        BY <1>4, <2>3
    <2> QED
        BY <1>2, <1>4, <2>4, <2>5, <2>6 DEF StampsDiffer
<1>9. Addresses!AddressHolds'
    <2>1. addressee.stamp # sentTo'.stamp
        BY <1>1, StampIsNew, AddressTypes
    <2> QED
        BY <1>2, <2>1 DEF AddressInv, Addresses!AddressHolds, Addresses!AddressTells,
                          Addresses!LogTells
<1> QED
    BY <1>6, <1>7, <1>8, <1>9 DEF AddressInv

\* Reading changes neither the order nor its history, and a worker that dies leaves both.
LEMMA ReadingKeepsAddress ==
    ASSUME AddressInv,
           \/ \E r \in Mover : \/ \E a \in Address : Addresses!ReadOrder(r, a)
                               \/ Addresses!Refuse(r) \/ Addresses!Stop(r)
           \/ \E s \in Mirror : Addresses!Pull(s) \/ Addresses!FindRow(s)
    PROVE  AddressInv'
<1>1. UNCHANGED <<sentTo, addressee, addressLog, collided>>
    BY DEF Addresses!ReadOrder, Addresses!Refuse, Addresses!Stop, Addresses!Pull,
           Addresses!FindRow
<1>2. mover \in [Mover -> Addresses!Change] /\ mirror \in [Mirror -> Addresses!Pulled]
    BY DEF AddressInv, Addresses!TypeOK
<1> DEFINE NoneSaves == /\ mover' \in [Mover -> Addresses!Change]
                        /\ \A r \in Mover : mover'[r] = mover[r] \/ mover'[r].step # "save"
           AllCopies == /\ mirror' \in [Mirror -> Addresses!Pulled]
                        /\ \A s \in Mirror : mirror'[s].step \in {"find", "store"} =>
                              Copies(mirror'[s].version)
<1>3. NoneSaves
    <2>1. CASE mover' = mover
        BY <1>2, <2>1
    <2>2. ASSUME NEW r \in Mover, NEW job \in Addresses!Change, job.step # "save",
                 mover' = [mover EXCEPT ![r] = job]
          PROVE  NoneSaves
        BY <1>2, <2>2
    <2>3. ASSUME NEW r \in Mover, NEW a \in Address, Addresses!ReadOrder(r, a)
          PROVE  NoneSaves
        <3> DEFINE job == [step |-> "push", before |-> addressee.address, to |-> a]
        <3>1. job \in Addresses!Change /\ job.step # "save"
            BY AddressTypes DEF Addresses!Change
        <3>2. mover' = [mover EXCEPT ![r] = job]
            BY <2>3 DEF Addresses!ReadOrder, Addresses!Goes
        <3> HIDE DEF job
        <3> QED
            BY <2>2, <3>1, <3>2
    <2>4. ASSUME NEW r \in Mover, Addresses!Refuse(r) \/ Addresses!Stop(r)
          PROVE  NoneSaves
        <3>1. Addresses!Idle \in Addresses!Change /\ Addresses!Idle.step # "save"
            BY DEF Addresses!Change, Addresses!Idle
        <3>2. mover' = [mover EXCEPT ![r] = Addresses!Idle]
            BY <2>4 DEF Addresses!Refuse, Addresses!Stop, Addresses!Goes
        <3> QED
            BY <2>2, <3>1, <3>2
    <2> QED
        BY <2>1, <2>3, <2>4 DEF Addresses!Pull, Addresses!FindRow
<1>4. AllCopies
    <2>1. \A s \in Mirror : mirror[s].step \in {"find", "store"} => Copies(mirror[s].version)
        BY DEF AddressInv, CopiesHold
    <2>2. ASSUME NEW s \in Mirror, NEW job \in Addresses!Pulled,
                 job.step \in {"find", "store"} => Copies(job.version),
                 mirror' = [mirror EXCEPT ![s] = job]
          PROVE  AllCopies
        BY <1>2, <2>1, <2>2
    <2>3. ASSUME NEW s \in Mirror, Addresses!Pull(s)
          PROVE  AllCopies
        <3> DEFINE job == [step |-> "find", version |-> sentTo]
        <3>1. job \in Addresses!Pulled
            BY AddressTypes DEF Addresses!Pulled
        <3>2. Copies(job.version)
            <4>1. sentTo.stamp \in Nat
                BY AddressTypes
            <4> QED
                BY <4>1 DEF Copies
        <3>3. mirror' = [mirror EXCEPT ![s] = job]
            BY <2>3 DEF Addresses!Pull
        <3> HIDE DEF job
        <3> QED
            BY <2>2, <3>1, <3>2, <3>3
    <2>4. ASSUME NEW s \in Mirror, Addresses!FindRow(s)
          PROVE  AllCopies
        <3>1. Copies(mirror[s].version) /\ mirror[s].version \in Addresses!Version
            BY <2>1, <2>4, AddressTypes DEF Addresses!FindRow
        <3> DEFINE job == IF Addresses!Newer(mirror[s].version)
                          THEN [step |-> "store", version |-> mirror[s].version,
                                seen |-> addressee]
                          ELSE Addresses!Idle
        <3>2. mirror' = [mirror EXCEPT ![s] = job]
            BY <2>4 DEF Addresses!FindRow
        <3>3. job \in Addresses!Pulled
            BY <3>1, AddressTypes DEF Addresses!Pulled
        <3>4. job.step \in {"find", "store"} => Copies(job.version)
            BY <3>1 DEF Addresses!Idle
        <3> HIDE DEF job
        <3> QED
            BY <2>2, <3>2, <3>3, <3>4
    <2>5. CASE mirror' = mirror
        BY <1>2, <2>1, <2>5
    <2> QED
        BY <2>3, <2>4, <2>5 DEF Addresses!ReadOrder, Addresses!Refuse, Addresses!Stop
<1>5. Addresses!TypeOK'
    BY <1>1, <1>3, <1>4 DEF AddressInv, Addresses!TypeOK
<1>6. CopiesHold'
    BY <1>1, <1>4 DEF AddressInv, CopiesHold, Copies
<1>7. StampsDiffer'
    BY <1>1, <1>3 DEF AddressInv, StampsDiffer
<1>8. Addresses!AddressHolds'
    BY <1>1 DEF AddressInv, Addresses!AddressHolds, Addresses!AddressTells, Addresses!LogTells
<1> QED
    BY <1>5, <1>6, <1>7, <1>8 DEF AddressInv

\* A request that commits tells what the platform took (change_address).
LEMMA SavingKeepsAddress ==
    ASSUME AddressInv, NEW r \in Mover, Addresses!Save(r)
    PROVE  AddressInv'
<1> DEFINE to == mover[r].to
           before == mover[r].before
           stamp == mover[r].stamp
           entry == [to |-> to, status |-> "SUCCEEDED", stamp |-> stamp]
<1>1. /\ mover[r].step = "save"
      /\ addressee' = IF to = before THEN addressee ELSE [addressee EXCEPT !.address = to]
      /\ addressLog' = Append(addressLog, entry)
      /\ collided' = \/ collided \/ addressee.stamp > stamp
                     \/ to = before /\ addressee.address # to
                     \/ \E i \in DOMAIN addressLog : addressLog[i].stamp > stamp
      /\ mover' = [mover EXCEPT ![r] = Addresses!Idle]
      /\ UNCHANGED <<sentTo, mirror>>
    BY DEF Addresses!Save, Addresses!Saves, Addresses!StampOf, Addresses!Goes
<1>2. /\ to \in Address /\ before \in Address /\ stamp \in 1..sentTo.stamp
      /\ stamp = sentTo.stamp => to = sentTo.address
      /\ stamp \in 0..MaxStamp
    BY <1>1, AddressTypes DEF AddressInv, StampsDiffer
<1>3. /\ addressee.stamp \in Nat /\ sentTo.stamp \in Nat /\ addressee \in Addresses!Version
      /\ addressLog \in Seq(Addresses!Entry)
    BY AddressTypes
<1>4. /\ addressee' \in Addresses!Version /\ addressee'.stamp = addressee.stamp
      /\ addressee'.address = IF to = before THEN addressee.address ELSE to
    BY <1>1, <1>2, <1>3 DEF Addresses!Version
<1>5. mover \in [Mover -> Addresses!Change] /\ collided \in BOOLEAN
    BY DEF AddressInv, Addresses!TypeOK
<1>6. Addresses!Idle \in Addresses!Change /\ Addresses!Idle.step = "idle"
    BY DEF Addresses!Change, Addresses!Idle
<1>7. entry \in Addresses!Entry
    BY <1>2 DEF Addresses!Entry
<1>8. /\ addressLog' \in Seq(Addresses!Entry)
      /\ DOMAIN addressLog' = DOMAIN addressLog \cup {Len(addressLog) + 1}
      /\ Len(addressLog) + 1 \notin DOMAIN addressLog
      /\ \A i \in DOMAIN addressLog : addressLog'[i] = addressLog[i]
      /\ addressLog'[Len(addressLog) + 1] = entry
    <2> HIDE DEF entry
    <2> QED
        BY <1>1, <1>3, <1>7
<1>9. Addresses!TypeOK'
    <2>1. mover' \in [Mover -> Addresses!Change]
        BY <1>1, <1>5, <1>6
    <2>2. collided' \in BOOLEAN
        BY <1>1
    <2> QED
        BY <1>1, <1>4, <1>8, <2>1, <2>2 DEF AddressInv, Addresses!TypeOK
<1>10. CopiesHold'
    BY <1>1, <1>4 DEF AddressInv, CopiesHold, Copies
<1>11. \A i \in DOMAIN addressLog' :
           \/ i \in DOMAIN addressLog /\ addressLog'[i] = addressLog[i]
           \/ i = Len(addressLog) + 1 /\ addressLog'[i] = entry
    BY <1>8
<1>12. StampsDiffer'
    <2>1. \A q \in Mover \ {r} : mover'[q] = mover[q]
        BY <1>1, <1>5
    <2>2. mover'[r].step # "save"
        BY <1>1, <1>5, <1>6
    <2>3. ASSUME NEW q \in Mover, mover'[q].step = "save"
          PROVE  /\ mover'[q].stamp \in 1..sentTo'.stamp
                 /\ mover'[q].stamp = sentTo'.stamp => mover'[q].to = sentTo'.address
                 /\ \A p \in Mover \ {q} : mover'[p].step = "save" =>
                        mover'[p].stamp # mover'[q].stamp
                 /\ \A i \in DOMAIN addressLog' : addressLog'[i].stamp # mover'[q].stamp
        <3>1. q # r /\ mover'[q] = mover[q] /\ mover[q].step = "save"
            BY <2>1, <2>2, <2>3
        <3>2. mover[q].stamp # entry.stamp
            BY <1>1, <3>1 DEF AddressInv, StampsDiffer
        <3>3. \A i \in DOMAIN addressLog : addressLog[i].stamp # mover[q].stamp
            BY <3>1 DEF AddressInv, StampsDiffer
        <3>4. \A i \in DOMAIN addressLog' : addressLog'[i].stamp # mover[q].stamp
            <4> HIDE DEF entry
            <4> QED
                BY <1>11, <3>2, <3>3
        <3> QED
            BY <1>1, <2>1, <2>2, <3>1, <3>4 DEF AddressInv, StampsDiffer
    <2>4. \A i \in DOMAIN addressLog' : addressLog'[i].stamp <= sentTo'.stamp
        <3>1. entry.stamp <= sentTo.stamp
            BY <1>2, <1>3
        <3> HIDE DEF entry
        <3> QED
            BY <1>1, <1>11, <3>1 DEF AddressInv, StampsDiffer
    <2> QED
        BY <2>3, <2>4 DEF StampsDiffer
<1>13. Addresses!LogTells'
    <2>1. \A i \in DOMAIN addressLog : addressLog[i].stamp # entry.stamp
        BY <1>1 DEF AddressInv, StampsDiffer
    <2>2. entry.status = "SUCCEEDED" /\ entry.stamp > 0
        BY <1>2, <1>3
    <2>3. Addresses!LogTells
        BY DEF AddressInv, Addresses!AddressHolds
    <2> HIDE DEF entry
    <2> QED
        BY <1>11, <2>1, <2>2, <2>3 DEF Addresses!LogTells
<1>14. Addresses!AddressTells'
    <2> SUFFICES ASSUME ~collided', addressee'.stamp = sentTo'.stamp
                 PROVE  addressee'.address = sentTo'.address
        BY DEF Addresses!AddressTells
    <2>1. /\ ~(addressee.stamp > stamp) /\ ~(to = before /\ addressee.address # to)
        BY <1>1
    <2>2. stamp = sentTo.stamp
        BY <1>1, <1>2, <1>3, <1>4, <2>1
    <2>3. to = sentTo.address
        BY <1>2, <2>2
    <2> QED
        BY <1>1, <1>4, <2>1, <2>3
<1> QED
    BY <1>9, <1>10, <1>12, <1>13, <1>14 DEF AddressInv, Addresses!AddressHolds

\* A sync that finds the row as it had read it stores its whole version (_apply_status).
LEMMA StoringKeepsAddress ==
    ASSUME AddressInv, NEW s \in Mirror, Addresses!StoreVersion(s)
    PROVE  AddressInv'
<1> DEFINE version == mirror[s].version
           known == mirror[s].seen
<1>1. /\ mirror[s].step = "store"
      /\ addressee' = [address |-> IF version.address = known.address THEN addressee.address
                                   ELSE version.address,
                       stamp |-> version.stamp]
      /\ collided' = (collided \/ addressee # known)
      /\ mirror' = [mirror EXCEPT ![s] = Addresses!Idle]
      /\ UNCHANGED <<sentTo, addressLog, mover>>
    BY DEF Addresses!StoreVersion
<1>2. /\ version \in Addresses!Version /\ Copies(version)
      /\ addressee \in Addresses!Version
    BY <1>1, AddressTypes DEF AddressInv, CopiesHold
<1>3. mirror \in [Mirror -> Addresses!Pulled] /\ collided \in BOOLEAN
    BY DEF AddressInv, Addresses!TypeOK
<1>4. Addresses!Idle \in Addresses!Pulled /\ Addresses!Idle.step = "idle"
    BY DEF Addresses!Pulled, Addresses!Idle
<1>5. addressee' \in Addresses!Version /\ addressee'.stamp = version.stamp
    BY <1>1, <1>2 DEF Addresses!Version
<1>6. Addresses!TypeOK'
    <2>1. mirror' \in [Mirror -> Addresses!Pulled]
        BY <1>1, <1>3, <1>4
    <2> QED
        BY <1>1, <1>5, <2>1 DEF AddressInv, Addresses!TypeOK
<1>7. CopiesHold'
    <2>1. \A u \in Mirror : mirror'[u] = mirror[u] \/ mirror'[u].step = "idle"
        BY <1>1, <1>3, <1>4
    <2> QED
        BY <1>1, <1>2, <1>5, <2>1 DEF AddressInv, CopiesHold, Copies
<1>8. StampsDiffer' /\ Addresses!LogTells'
    BY <1>1 DEF AddressInv, StampsDiffer, Addresses!AddressHolds, Addresses!LogTells
<1>9. Addresses!AddressTells'
    <2> SUFFICES ASSUME ~collided', addressee'.stamp = sentTo'.stamp
                 PROVE  addressee'.address = sentTo'.address
        BY DEF Addresses!AddressTells
    <2>1. addressee = known
        BY <1>1
    <2>2. addressee'.address = version.address
        BY <1>1, <2>1
    <2>3. version.stamp = sentTo.stamp
        BY <1>1, <1>5
    <2> QED
        BY <1>1, <1>2, <2>2, <2>3 DEF Copies
<1> QED
    BY <1>6, <1>7, <1>8, <1>9 DEF AddressInv, Addresses!AddressHolds

LEMMA StepKeepsAddress == AddressInv /\ [Addresses!Next]_(Addresses!vars) => AddressInv'
<1> SUFFICES ASSUME AddressInv, [Addresses!Next]_(Addresses!vars) PROVE AddressInv'
    OBVIOUS
<1>1. CASE UNCHANGED Addresses!vars
    BY <1>1 DEF Addresses!vars, AddressInv, Addresses!TypeOK, CopiesHold, Copies, StampsDiffer,
                Addresses!AddressHolds, Addresses!AddressTells, Addresses!LogTells
<1>2. CASE Addresses!Next
    <2>1. CASE \/ \E a \in Address : Addresses!ChangeAtPlatform(a)
               \/ \E r \in Mover : Addresses!Accept(r)
        BY <2>1, PlatformKeepsAddress
    <2>2. CASE \/ \E r \in Mover : \/ \E a \in Address : Addresses!ReadOrder(r, a)
                                   \/ Addresses!Refuse(r) \/ Addresses!Stop(r)
               \/ \E s \in Mirror : Addresses!Pull(s) \/ Addresses!FindRow(s)
        BY <2>2, ReadingKeepsAddress
    <2>3. ASSUME NEW r \in Mover, Addresses!Save(r) PROVE AddressInv'
        BY <2>3, SavingKeepsAddress
    <2>4. ASSUME NEW s \in Mirror, Addresses!StoreVersion(s) PROVE AddressInv'
        BY <2>4, StoringKeepsAddress
    <2> QED
        BY <1>2, <2>1, <2>2, <2>3, <2>4 DEF Addresses!Next
<1> QED
    BY <1>1, <1>2

(***************************************************************************)
(* An order that is as new as the platform's says where the platform sends *)
(* it, and its history has each change once, for any number of requests    *)
(* and syncs (change_address, _apply_status).                              *)
(***************************************************************************)
THEOREM AddressKept == Addresses!Spec => []Addresses!AddressHolds
<1>1. Addresses!Init => AddressInv
    <2> SUFFICES ASSUME Addresses!Init PROVE AddressInv
        OBVIOUS
    <2>1. PICK a \in Address : sentTo = [address |-> a, stamp |-> 0] /\ addressee = sentTo
        BY DEF Addresses!Init
    <2>2. sentTo \in Addresses!Version
        BY <2>1, AddressAssumption DEF Addresses!Version
    <2>3. Addresses!Idle \in Addresses!Change /\ Addresses!Idle \in Addresses!Pulled
        BY DEF Addresses!Change, Addresses!Pulled
    <2>4. /\ mover \in [Mover -> Addresses!Change] /\ mirror \in [Mirror -> Addresses!Pulled]
          /\ addressLog \in Seq(Addresses!Entry) /\ collided \in BOOLEAN
        <3>1. /\ mover = [r \in Mover |-> Addresses!Idle] /\ mirror = [s \in Mirror |-> Addresses!Idle]
              /\ addressLog = <<>> /\ collided = FALSE
            BY DEF Addresses!Init
        <3>2. <<>> \in Seq(Addresses!Entry)
            OBVIOUS
        <3> QED
            BY <2>3, <3>1, <3>2
    <2>5. Addresses!TypeOK
        BY <2>1, <2>2, <2>4 DEF Addresses!TypeOK
    <2> QED
        BY <2>1, <2>5 DEF Addresses!Init, AddressInv, CopiesHold, Copies, StampsDiffer,
                          Addresses!Idle, Addresses!AddressHolds, Addresses!AddressTells,
                          Addresses!LogTells
<1>2. AddressInv => Addresses!AddressHolds
    BY DEF AddressInv
<1> QED
    BY <1>1, <1>2, StepKeepsAddress, PTL DEF Addresses!Spec

-----------------------------------------------------------------------------
(* Orders that are shipped in batches (ShipBatch).                          *)

InWork == {"push", "save", "row", "find", "note"}

\* The order that a batch has come to, those that it has written, and those in its hands.
OrderAt(b) == b.list[Ships!Min(b.todo)]

Written(b) == {o \in Parcel : b.writes[o] # None}

Success(b) == {o \in Written(b) : b.writes[o].state = "SUCCEEDED"}

Hand(b) ==
    IF b.step = "over" THEN {} ELSE Written(b) \cup (IF b.step \in InWork THEN {OrderAt(b)} ELSE {})

\* What a batch has left are places of its list with orders that it has not written yet.
LeftIsOpen(b) ==
    /\ b.step = "over" => Written(b) = {}
    /\ b.step \in InWork \cup {"load"} =>
          /\ b.todo \subseteq Ships!Unique(b.list) /\ b.todo # {}
          /\ \A i \in b.todo : b.list[i] \notin Written(b)

\* What a batch has written, or is about to write, the platform has been told.
WritesWereTold(b) ==
    /\ \A o \in Success(b) : toldNumber[o] # None
    /\ b.step \in {"save", "row"} => toldNumber[OrderAt(b)] # None
    /\ b.step \in InWork => b.attempt > 0

\* The answers are what the batch has written, until it commits.
AnswersAreWritten(b) ==
    \A o \in Parcel :
        /\ b.lines[o] = "shipped" =>
              IF b.step = "over" THEN shipStatus[o] = "SHIPPED" ELSE o \in Success(b)
        /\ b.lines[o] = "refused" => shipStatus[o] = "SHIPPED"

\* An order that one batch alone has in hand is as the batch had read it.
HandsHold(c, b) ==
    \A o \in Parcel \ inBoth :
        /\ o \in Hand(b) => /\ shipStatus[o] = "PAID"
                            /\ \A d \in Shipper \ {c} : o \notin Hand(shipBatch[d])
        /\ b.step \in {"save", "row"} /\ OrderAt(b) = o =>
              toldNumber[o] = [carrier |-> c, attempt |-> b.attempt]
        /\ o \in Success(b) => b.writes[o].number = toldNumber[o]

BatchInv(c) ==
    /\ LeftIsOpen(shipBatch[c]) /\ WritesWereTold(shipBatch[c])
    /\ AnswersAreWritten(shipBatch[c]) /\ HandsHold(c, shipBatch[c])

ShipsInv ==
    /\ Ships!TypeOK /\ Ships!ShippedWasTold /\ Ships!LabelsTellPlatform /\ Ships!FailedStaysOpen
    /\ \A c \in Shipper : BatchInv(c)

\* The words of the module, for the batch that a clerk has.
LEMMA BatchWords ==
    ASSUME NEW c
    PROVE  /\ Ships!Now(c) = OrderAt(shipBatch[c]) /\ Ships!InHand(c) = Hand(shipBatch[c])
           /\ Ships!NumberOf(c) = [carrier |-> c, attempt |-> shipBatch[c].attempt]
           /\ Ships!Writes(c) = shipBatch[c].writes
           /\ \A o \in Parcel : Ships!Wrote(c, o, "SUCCEEDED") <=> o \in Success(shipBatch[c])
BY DEF Ships!Now, OrderAt, Ships!InHand, Hand, InWork, Written, Ships!NumberOf, Ships!Writes,
       Ships!Wrote, Success

LEMMA BatchTypes ==
    ASSUME NEW b \in Ships!Batch
    PROVE  /\ b.step \in Ships!Step /\ b.list \in Seq(Parcel) /\ b.todo \in SUBSET Nat
           /\ b.attempt \in Nat /\ b.found \in BOOLEAN
           /\ b.writes \in [Parcel -> Ships!Shipment \cup {None}]
           /\ b.lines \in [Parcel -> Ships!Answer \cup {None}]
BY DEF Ships!Batch

\* The order that a batch has come to is on its list, and was not there before.
LEMMA AtPlace ==
    ASSUME NEW b \in Ships!Batch, LeftIsOpen(b), b.step \in InWork \cup {"load"}
    PROVE  /\ Ships!Min(b.todo) \in b.todo /\ b.todo \subseteq DOMAIN b.list
           /\ OrderAt(b) \in Parcel /\ b.writes[OrderAt(b)] = None
           /\ \A i \in b.todo \ {Ships!Min(b.todo)} : b.list[i] # OrderAt(b)
<1> DEFINE n == Ships!Min(b.todo)
<1>1. b.todo # {} /\ b.todo \subseteq Nat /\ b.todo \subseteq Ships!Unique(b.list)
      /\ \A i \in b.todo : b.list[i] \notin Written(b)
    BY BatchTypes DEF LeftIsOpen
<1>2. n \in b.todo /\ \A i \in b.todo : n <= i
    <2>1. \E i \in b.todo : \A j \in b.todo : i <= j
        BY <1>1, LeastNumber
    <2> QED
        BY <2>1 DEF Ships!Min
<1>3. b.todo \subseteq DOMAIN b.list
    BY <1>1 DEF Ships!Unique
<1>4. b.list[n] \in Parcel
    <2>1. b.list \in Seq(Parcel)
        BY BatchTypes
    <2> HIDE DEF n
    <2> QED
        BY <1>2, <1>3, <2>1
<1>5. ASSUME NEW i \in b.todo \ {n} PROVE b.list[i] # b.list[n]
    <2>1. n \in 1..(i - 1)
        <3>1. n \in DOMAIN b.list /\ DOMAIN b.list = 1..Len(b.list)
            <4>1. b.list \in Seq(Parcel)
                BY BatchTypes
            <4> HIDE DEF n
            <4> QED
                BY <1>2, <1>3, <4>1
        <3>2. n <= i /\ n # i /\ i \in Nat /\ n \in Nat /\ n >= 1
            BY <1>1, <1>2, <1>5, <3>1
        <3> QED
            BY <3>2
    <2> HIDE DEF n
    <2> QED
        BY <1>1, <1>5, <2>1 DEF Ships!Unique
<1> QED
    BY <1>1, <1>2, <1>3, <1>4, <1>5 DEF OrderAt, Written

\* One batch goes on by itself, and nothing is committed.
LEMMA BatchGoesOn ==
    ASSUME ShipsInv, NEW c \in Shipper, NEW b \in Ships!Batch,
           shipBatch' = [shipBatch EXCEPT ![c] = b],
           UNCHANGED <<toldNumber, shipStatus, shipments>>,
           inBoth \subseteq inBoth', inBoth' \subseteq Parcel,
           LeftIsOpen(b), WritesWereTold(b), AnswersAreWritten(b),
           \A o \in Parcel \ inBoth' :
               /\ o \in Hand(b) => /\ shipStatus[o] = "PAID"
                                   /\ \A d \in Shipper \ {c} : o \notin Hand(shipBatch[d])
               /\ b.step \in {"save", "row"} /\ OrderAt(b) = o =>
                     toldNumber[o] = [carrier |-> c, attempt |-> b.attempt]
               /\ o \in Success(b) => b.writes[o].number = toldNumber[o]
    PROVE  ShipsInv'
<1>1. shipBatch \in [Shipper -> Ships!Batch]
    BY DEF ShipsInv, Ships!TypeOK
<1>2. shipBatch'[c] = b /\ \A d \in Shipper \ {c} : shipBatch'[d] = shipBatch[d]
    BY <1>1
<1>3. Ships!TypeOK'
    BY <1>1 DEF ShipsInv, Ships!TypeOK
<1>4. Ships!ShippedWasTold' /\ Ships!LabelsTellPlatform' /\ Ships!FailedStaysOpen'
    BY DEF ShipsInv, Ships!ShippedWasTold, Ships!LabelsTellPlatform, Ships!Labels,
           Ships!FailedStaysOpen
<1>5. BatchInv(c)'
    BY <1>2 DEF BatchInv, LeftIsOpen, WritesWereTold, AnswersAreWritten, HandsHold
<1>6. ASSUME NEW d \in Shipper \ {c} PROVE BatchInv(d)'
    <2>1. BatchInv(d)
        BY DEF ShipsInv
    <2>2. HandsHold(d, shipBatch[d])'
        <3> SUFFICES ASSUME NEW o \in Parcel \ inBoth', o \in Hand(shipBatch[d])
                     PROVE  \A e \in Shipper \ {d} : o \notin Hand(shipBatch'[e])
            BY <1>2, <2>1 DEF BatchInv, HandsHold
        <3>1. o \notin Hand(b)
            BY <1>6
        <3> QED
            BY <1>2, <2>1, <3>1 DEF BatchInv, HandsHold
    <2> QED
        BY <1>2, <2>1, <2>2 DEF BatchInv, LeftIsOpen, WritesWereTold, AnswersAreWritten
<1> QED
    BY <1>3, <1>4, <1>5, <1>6 DEF ShipsInv

\* What holds of a batch of a clerk before it goes on.
LEMMA BatchFacts ==
    ASSUME ShipsInv, NEW c \in Shipper
    PROVE  /\ shipBatch \in [Shipper -> Ships!Batch] /\ shipBatch[c] \in Ships!Batch
           /\ LeftIsOpen(shipBatch[c]) /\ WritesWereTold(shipBatch[c])
           /\ AnswersAreWritten(shipBatch[c]) /\ HandsHold(c, shipBatch[c])
           /\ toldNumber \in [Parcel -> Ships!Number \cup {None}]
           /\ shipStatus \in [Parcel -> {"PAID", "SHIPPED"}]
           /\ shipments \in [Parcel -> Ships!Shipment \cup {None}]
           /\ inBoth \subseteq Parcel
BY DEF ShipsInv, BatchInv, Ships!TypeOK

\* Steps on the order that a batch has come to, before it is written or noted.
LEMMA StepOn ==
    ASSUME ShipsInv, NEW c \in Shipper, NEW b \in Ships!Batch,
           shipBatch' = [shipBatch EXCEPT ![c] = b], shipBatch[c].step \in InWork,
           b.step \in InWork,
           b.step \in {"save", "row"} => shipBatch[c].step \in {"save", "row"},
           b.list = shipBatch[c].list, b.todo = shipBatch[c].todo,
           b.attempt = shipBatch[c].attempt,
           b.writes = shipBatch[c].writes, b.lines = shipBatch[c].lines,
           UNCHANGED <<toldNumber, shipStatus, shipments, inBoth>>
    PROVE  ShipsInv'
<1> DEFINE a == shipBatch[c]
<1>1. a \in Ships!Batch /\ LeftIsOpen(a) /\ WritesWereTold(a) /\ AnswersAreWritten(a)
      /\ HandsHold(c, a) /\ inBoth \subseteq Parcel
    BY BatchFacts
<1>2. a.step # "over" /\ b.step # "over" /\ b.step # "load"
    BY DEF InWork
<1>3. OrderAt(b) = OrderAt(a) /\ Written(b) = Written(a) /\ Success(b) = Success(a) /\ Hand(b) = Hand(a)
    BY <1>2 DEF OrderAt, Written, Success, Hand
<1>4. LeftIsOpen(b) /\ WritesWereTold(b) /\ AnswersAreWritten(b)
    BY <1>1, <1>2, <1>3 DEF LeftIsOpen, WritesWereTold, AnswersAreWritten
<1>5. \A o \in Parcel \ inBoth' :
          /\ o \in Hand(b) => /\ shipStatus[o] = "PAID"
                              /\ \A d \in Shipper \ {c} : o \notin Hand(shipBatch[d])
          /\ b.step \in {"save", "row"} /\ OrderAt(b) = o =>
                toldNumber[o] = [carrier |-> c, attempt |-> b.attempt]
          /\ o \in Success(b) => b.writes[o].number = toldNumber[o]
    BY <1>1, <1>3 DEF HandsHold
<1> QED
    BY <1>1, <1>4, <1>5, BatchGoesOn

\* A batch is made of its fields.
LEMMA BatchForm ==
    ASSUME NEW st \in Ships!Step, NEW list \in Seq(Parcel), NEW todo \in SUBSET Nat,
           NEW n \in Nat, NEW found \in BOOLEAN,
           NEW writes \in [Parcel -> Ships!Shipment \cup {None}],
           NEW lines \in [Parcel -> Ships!Answer \cup {None}]
    PROVE  [step |-> st, list |-> list, todo |-> todo, attempt |-> n, found |-> found,
            writes |-> writes, lines |-> lines] \in Ships!Batch
<1> DEFINE rows == [Parcel -> Ships!Shipment \cup {None}]
           answers == [Parcel -> Ships!Answer \cup {None}]
<1>1. Ships!Batch = [step: Ships!Step, list: Seq(Parcel), todo: SUBSET Nat, attempt: Nat,
                     found: BOOLEAN, writes: rows, lines: answers]
    BY DEF Ships!Batch
<1>2. writes \in rows /\ lines \in answers
    OBVIOUS
<1> HIDE DEF rows, answers
<1> QED
    BY <1>1, <1>2

\* A batch that answers for an order, with a row that it writes or none, and goes to the next one.
LEMMA TurnKeeps ==
    ASSUME ShipsInv, NEW c \in Shipper, shipBatch[c].step \in InWork \cup {"load"},
           NEW answer \in Ships!Answer, NEW row \in Ships!Shipment \cup {None},
           shipBatch' = [shipBatch EXCEPT ![c] = Ships!Turn(c, answer, row)],
           answer = "refused" => shipStatus[OrderAt(shipBatch[c])] = "SHIPPED",
           answer = "shipped" => row # None /\ row.state = "SUCCEEDED",
           row # None => shipBatch[c].step \in InWork,
           row # None /\ row.state = "SUCCEEDED" =>
               /\ shipBatch[c].step \in {"save", "row"}
               /\ row.number = [carrier |-> c, attempt |-> shipBatch[c].attempt],
           UNCHANGED <<toldNumber, shipStatus, shipments>>,
           inBoth \subseteq inBoth', inBoth' \subseteq Parcel
    PROVE  ShipsInv'
<1> DEFINE a == shipBatch[c]
           at == OrderAt(a)
           b == Ships!Turn(c, answer, row)
<1>1. /\ b.step = IF b.todo = {} THEN "commit" ELSE "load"
      /\ b.list = a.list
      /\ b.todo = a.todo \ {Ships!Min(a.todo)}
      /\ b.writes = [a.writes EXCEPT ![at] = row]
      /\ b.lines = [a.lines EXCEPT ![at] = answer]
      /\ b = [step |-> b.step, list |-> b.list, todo |-> b.todo, attempt |-> 0, found |-> FALSE,
              writes |-> b.writes, lines |-> b.lines]
    BY BatchWords DEF Ships!Turn
<1>2. a \in Ships!Batch /\ LeftIsOpen(a) /\ WritesWereTold(a) /\ AnswersAreWritten(a)
      /\ HandsHold(c, a)
    BY BatchFacts
<1> HIDE DEF b
<1>3. /\ a.step # "over" /\ b.step \in {"load", "commit"} /\ b.step \notin InWork
      /\ b.step # "over"
    BY <1>1 DEF InWork
<1>4. /\ at \in Parcel /\ a.writes[at] = None /\ a.todo \subseteq DOMAIN a.list
      /\ \A i \in b.todo : i \in a.todo /\ b.list[i] # at
    BY <1>1, <1>2, AtPlace
<1>5. /\ a.writes \in [Parcel -> Ships!Shipment \cup {None}]
      /\ a.lines \in [Parcel -> Ships!Answer \cup {None}]
    BY <1>2, BatchTypes
<1>6. /\ b.writes[at] = row /\ \A o \in Parcel \ {at} : b.writes[o] = a.writes[o]
      /\ b.lines[at] = answer /\ \A o \in Parcel \ {at} : b.lines[o] = a.lines[o]
    <2> HIDE DEF a, at
    <2> QED
        BY <1>1, <1>4, <1>5
<1>7. /\ Written(a) \subseteq Written(b) /\ Written(b) \subseteq Written(a) \cup {at}
      /\ at \in Written(b) => row # None
    BY <1>4, <1>6 DEF Written
<1>8. /\ Success(a) \subseteq Success(b) /\ Success(b) \subseteq Success(a) \cup {at}
      /\ at \notin Success(a)
      /\ at \in Success(b) <=> row # None /\ row.state = "SUCCEEDED"
    BY <1>4, <1>6 DEF Written, Success
<1>9. b \in Ships!Batch
    <2>1. /\ b.writes \in [Parcel -> Ships!Shipment \cup {None}]
          /\ b.lines \in [Parcel -> Ships!Answer \cup {None}]
        <3> HIDE DEF a, at
        <3> QED
            BY <1>1, <1>4, <1>5
    <2>2. b.step \in Ships!Step /\ b.list \in Seq(Parcel) /\ b.todo \in SUBSET Nat
        BY <1>1, <1>2, <1>3, BatchTypes DEF Ships!Step
    <2>3. [step |-> b.step, list |-> b.list, todo |-> b.todo, attempt |-> 0, found |-> FALSE,
           writes |-> b.writes, lines |-> b.lines] \in Ships!Batch
        BY <2>1, <2>2, BatchForm
    <2> QED
        BY <1>1, <2>3
<1>10. LeftIsOpen(b)
    <2>1. b.todo \subseteq Ships!Unique(b.list) /\ \A i \in b.todo : b.list[i] \notin Written(a)
        BY <1>1, <1>2 DEF LeftIsOpen
    <2>2. \A i \in b.todo : b.list[i] \notin Written(b)
        BY <1>4, <1>7, <2>1
    <2> QED
        BY <1>1, <1>3, <2>1, <2>2 DEF LeftIsOpen
<1>11. WritesWereTold(b)
    <2>1. ASSUME NEW o \in Success(b) PROVE toldNumber[o] # None
        BY <1>2, <1>8, <2>1 DEF WritesWereTold
    <2> QED
        BY <1>3, <2>1 DEF WritesWereTold
<1>12. AnswersAreWritten(b)
    <2> SUFFICES ASSUME NEW o \in Parcel
                 PROVE  /\ b.lines[o] = "shipped" => o \in Success(b)
                        /\ b.lines[o] = "refused" => shipStatus[o] = "SHIPPED"
        BY <1>3 DEF AnswersAreWritten
    <2>1. CASE o = at
        BY <1>6, <1>8, <2>1
    <2>2. CASE o # at
        BY <1>2, <1>3, <1>6, <1>8, <2>2 DEF AnswersAreWritten
    <2> QED
        BY <2>1, <2>2
<1>13. ASSUME NEW o \in Parcel \ inBoth'
       PROVE  /\ o \in Hand(b) => /\ shipStatus[o] = "PAID"
                                  /\ \A d \in Shipper \ {c} : o \notin Hand(shipBatch[d])
              /\ o \in Success(b) => b.writes[o].number = toldNumber[o]
    <2>1. o \in Hand(b) => o \in Hand(a)
        BY <1>3, <1>7 DEF Hand
    <2>2. o \in Success(b) => b.writes[o].number = toldNumber[o]
        <3>1. CASE o = at
            BY <1>2, <1>6, <1>8, <3>1 DEF HandsHold
        <3>2. CASE o # at
            BY <1>2, <1>6, <1>8, <3>2 DEF HandsHold
        <3> QED
            BY <3>1, <3>2
    <2> QED
        BY <1>2, <2>1, <2>2 DEF HandsHold
<1> QED
    BY <1>3, <1>10, <1>11, <1>12, <1>13, <1>9, BatchGoesOn DEF b

\* A batch begins with the orders of its list, each where it comes first (dedupe_ids).
LEMMA SubmitKeeps ==
    ASSUME ShipsInv, NEW c \in Shipper, NEW list \in Batches, Ships!Submit(c, list)
    PROVE  ShipsInv'
<1> DEFINE none == [o \in Parcel |-> None]
           b == [step |-> "load", list |-> list, todo |-> Ships!Unique(list), attempt |-> 0,
                 found |-> FALSE, writes |-> none, lines |-> none]
<1>1. /\ shipBatch' = [shipBatch EXCEPT ![c] = b]
      /\ UNCHANGED <<toldNumber, shipStatus, shipments, inBoth>>
    BY DEF Ships!Submit, Ships!Unwritten, Ships!NoAnswers
<1>2. list \in Seq(Parcel) /\ list # <<>>
    BY ShipsAssumption
<1>3. Ships!Unique(list) \subseteq Nat /\ 1 \in Ships!Unique(list)
    BY <1>2 DEF Ships!Unique
<1>4. none \in [Parcel -> Ships!Shipment \cup {None}] /\ none \in [Parcel -> Ships!Answer \cup {None}]
      /\ \A o \in Parcel : none[o] = None
    OBVIOUS
<1> HIDE DEF none
<1>5. b \in Ships!Batch
    BY <1>2, <1>3, <1>4, BatchForm DEF Ships!Step
<1>6. /\ b.step = "load" /\ b.list = list /\ b.todo = Ships!Unique(list) /\ b.writes = none
      /\ b.lines = none
    OBVIOUS
<1> HIDE DEF b
<1>7. Written(b) = {} /\ Success(b) = {} /\ Hand(b) = {}
    BY <1>4, <1>6 DEF Written, Success, Hand, InWork
<1>8. None \notin Ships!Answer
    BY ShipsAssumption
<1>9. LeftIsOpen(b) /\ WritesWereTold(b) /\ AnswersAreWritten(b)
    BY <1>3, <1>4, <1>6, <1>7, <1>8 DEF LeftIsOpen, WritesWereTold, AnswersAreWritten, InWork,
                                        Ships!Answer
<1>10. inBoth \subseteq Parcel
    BY BatchFacts
<1> QED
    BY <1>1, <1>5, <1>6, <1>7, <1>9, <1>10, BatchGoesOn

\* A batch looks at an order: it refuses it, or takes it in hand (load, refuse_ship).
LEMMA LoadKeeps ==
    ASSUME ShipsInv, NEW c \in Shipper, Ships!Load(c)
    PROVE  ShipsInv'
<1> DEFINE a == shipBatch[c]
           at == OrderAt(a)
<1>1. /\ a \in Ships!Batch /\ LeftIsOpen(a) /\ WritesWereTold(a) /\ AnswersAreWritten(a)
      /\ HandsHold(c, a) /\ inBoth \subseteq Parcel
      /\ shipBatch \in [Shipper -> Ships!Batch]
    BY BatchFacts
<1>2. a.step = "load" /\ UNCHANGED <<toldNumber, shipStatus, shipments>>
    BY DEF Ships!Load, Ships!Keep
<1>3. at \in Parcel
    BY <1>1, <1>2, AtPlace
<1>4. CASE shipStatus[at] # "PAID"
    <2>1. shipBatch' = [shipBatch EXCEPT ![c] = Ships!Turn(c, "refused", None)] /\ inBoth' = inBoth
        BY <1>4, BatchWords DEF Ships!Load
    <2>2. "refused" \in Ships!Answer /\ None \in Ships!Shipment \cup {None}
        BY DEF Ships!Answer
    <2>3. shipStatus[at] = "SHIPPED"
        BY <1>3, <1>4, BatchFacts
    <2>4. a.step \in InWork \cup {"load"} /\ "refused" # "shipped"
        BY <1>2
    <2> QED
        BY <1>1, <1>2, <2>1, <2>2, <2>3, <2>4, TurnKeeps
<1>5. CASE shipStatus[at] = "PAID"
    <2> DEFINE n == IF shipments[at] = None THEN 1 ELSE shipments[at].attempt + 1
               b == [a EXCEPT !.step = "push", !.attempt = n]
    <2>1. shipBatch' = [shipBatch EXCEPT ![c] = b]
        BY <1>1, <1>5, BatchWords DEF Ships!Load
    <2>2. n \in Nat /\ n > 0
        <3>1. shipments[at] \in Ships!Shipment \cup {None}
            BY <1>3, BatchFacts
        <3>2. \A row \in Ships!Shipment : row.attempt \in Nat
            BY DEF Ships!Shipment
        <3> QED
            BY <3>1, <3>2
    <2>3. /\ b \in Ships!Batch /\ b.step = "push" /\ b.attempt = n /\ b.list = a.list
          /\ b.todo = a.todo /\ b.writes = a.writes /\ b.lines = a.lines
        <3> HIDE DEF a, n
        <3> QED
            BY <1>1, <2>2 DEF Ships!Batch, Ships!Step
    <2> HIDE DEF b, n
    <2>4. OrderAt(b) = at /\ Written(b) = Written(a) /\ Success(b) = Success(a)
          /\ Hand(b) = Hand(a) \cup {at} /\ b.step \in InWork /\ a.step \notin InWork
        BY <1>2, <2>3 DEF OrderAt, Written, Success, Hand, InWork
    <2>5. inBoth \subseteq inBoth' /\ inBoth' \subseteq Parcel
        BY <1>1, <1>3, <1>5, BatchWords DEF Ships!Load, Ships!Meets
    <2>8. at \notin inBoth' => \A d \in Shipper \ {c} : at \notin Hand(shipBatch[d])
        BY <1>1, <1>3, <1>5, BatchWords DEF Ships!Load, Ships!Meets
    <2>6. LeftIsOpen(b) /\ WritesWereTold(b) /\ AnswersAreWritten(b)
        BY <1>1, <1>2, <2>2, <2>3, <2>4 DEF LeftIsOpen, WritesWereTold, AnswersAreWritten, InWork
    <2> HIDE DEF a, at
    <2>7. ASSUME NEW o \in Parcel \ inBoth'
          PROVE  /\ o \in Hand(b) => /\ shipStatus[o] = "PAID"
                                     /\ \A d \in Shipper \ {c} : o \notin Hand(shipBatch[d])
                 /\ b.step \in {"save", "row"} /\ OrderAt(b) = o =>
                       toldNumber[o] = [carrier |-> c, attempt |-> b.attempt]
                 /\ o \in Success(b) => b.writes[o].number = toldNumber[o]
        <3>1. o \notin inBoth
            BY <2>5
        <3>2. CASE o = at
            BY <1>1, <1>5, <2>3, <2>4, <2>8, <3>1, <3>2 DEF HandsHold
        <3>3. CASE o # at
            BY <1>1, <2>3, <2>4, <3>1, <3>3 DEF HandsHold
        <3> QED
            BY <3>2, <3>3
    <2> QED
        BY <1>2, <2>1, <2>3, <2>5, <2>6, <2>7, BatchGoesOn DEF a
<1> QED
    BY <1>4, <1>5


\* The platform is told of the order in hand (push), and what it is told is what is written after.
LEMMA TellKeeps ==
    ASSUME ShipsInv, NEW c \in Shipper, shipBatch[c].step = "push",
           NEW st \in {"save", "find"},
           shipBatch' = [shipBatch EXCEPT ![c].step = st], Ships!Tells(c),
           UNCHANGED <<shipStatus, shipments, inBoth>>
    PROVE  ShipsInv'
<1> DEFINE a == shipBatch[c]
           at == OrderAt(a)
           b == [a EXCEPT !.step = st]
           number == [carrier |-> c, attempt |-> a.attempt]
<1>1. /\ a \in Ships!Batch /\ LeftIsOpen(a) /\ WritesWereTold(a) /\ AnswersAreWritten(a)
      /\ HandsHold(c, a) /\ inBoth \subseteq Parcel
      /\ shipBatch \in [Shipper -> Ships!Batch]
      /\ toldNumber \in [Parcel -> Ships!Number \cup {None}]
    BY BatchFacts
<1>2. a.step = "push" /\ a.step \in InWork /\ a.step # "over"
    BY DEF InWork
<1>3. at \in Parcel
    BY <1>1, <1>2, AtPlace
<1>4. /\ b \in Ships!Batch /\ b.step = st /\ b.attempt = a.attempt /\ b.list = a.list
      /\ b.todo = a.todo /\ b.writes = a.writes /\ b.lines = a.lines
    <2> HIDE DEF a
    <2> QED
        BY <1>1 DEF Ships!Batch, Ships!Step
<1>5. /\ shipBatch'[c] = b /\ \A d \in Shipper \ {c} : shipBatch'[d] = shipBatch[d]
      /\ shipBatch' = [shipBatch EXCEPT ![c] = b]
    BY <1>1
<1>6. a.attempt \in Nat \ {0}
    BY <1>1, <1>2, BatchTypes DEF WritesWereTold
<1>7. number \in Ships!Number /\ number # None
    BY <1>6, ShipsAssumption DEF Ships!Number
<1>8. toldNumber' = [toldNumber EXCEPT ![at] = number]
    BY BatchWords DEF Ships!Tells
<1> HIDE DEF a, at, b, number
<1>9. /\ toldNumber'[at] = number /\ \A o \in Parcel \ {at} : toldNumber'[o] = toldNumber[o]
      /\ toldNumber' \in [Parcel -> Ships!Number \cup {None}]
      /\ \A o \in Parcel : toldNumber[o] # None => toldNumber'[o] # None
    BY <1>1, <1>3, <1>7, <1>8
<1>10. OrderAt(b) = at /\ Written(b) = Written(a) /\ Success(b) = Success(a) /\ Hand(b) = Hand(a)
       /\ b.step # "over" /\ b.step \in InWork /\ at \in Hand(a) /\ at \notin Written(a)
       /\ at \notin Success(a)
    BY <1>1, <1>2, <1>4, AtPlace DEF OrderAt, Written, Success, Hand, InWork, at
<1>11. ASSUME at \notin inBoth
       PROVE  shipStatus[at] = "PAID" /\ \A d \in Shipper \ {c} : at \notin Hand(shipBatch[d])
    BY <1>1, <1>3, <1>10, <1>11 DEF HandsHold
<1>12. Ships!TypeOK'
    BY <1>1, <1>4, <1>5, <1>9 DEF ShipsInv, Ships!TypeOK
<1>13. Ships!ShippedWasTold' /\ Ships!FailedStaysOpen'
    BY <1>9 DEF ShipsInv, Ships!ShippedWasTold, Ships!FailedStaysOpen
<1>14. Ships!LabelsTellPlatform'
    <2> SUFFICES ASSUME NEW o \in Ships!Labels \ inBoth
                 PROVE  shipments[o].number = toldNumber'[o] /\ shipStatus[o] = "SHIPPED"
        BY DEF Ships!LabelsTellPlatform, Ships!Labels
    <2>1. shipments[o].number = toldNumber[o] /\ shipStatus[o] = "SHIPPED" /\ o \in Parcel
        BY DEF ShipsInv, Ships!LabelsTellPlatform, Ships!Labels
    <2>2. o # at
        BY <1>11, <2>1
    <2> QED
        BY <1>9, <2>1, <2>2
<1>15. BatchInv(c)'
    <2>1. LeftIsOpen(b)
        BY <1>1, <1>2, <1>4, <1>10 DEF LeftIsOpen
    <2>5. AnswersAreWritten(b)
        BY <1>1, <1>2, <1>4, <1>10 DEF AnswersAreWritten
    <2>2. /\ \A o \in Success(b) : toldNumber'[o] # None
          /\ b.step \in {"save", "row"} => toldNumber'[OrderAt(b)] # None
          /\ b.step \in InWork => b.attempt > 0
        BY <1>1, <1>3, <1>4, <1>6, <1>7, <1>9, <1>10 DEF WritesWereTold, Success, Written
    <2>3. ASSUME NEW o \in Parcel \ inBoth
          PROVE  /\ o \in Hand(b) => /\ shipStatus[o] = "PAID"
                                     /\ \A d \in Shipper \ {c} : o \notin Hand(shipBatch'[d])
                 /\ b.step \in {"save", "row"} /\ OrderAt(b) = o =>
                       toldNumber'[o] = [carrier |-> c, attempt |-> b.attempt]
                 /\ o \in Success(b) => b.writes[o].number = toldNumber'[o]
        <3>1. o \in Hand(b) => /\ shipStatus[o] = "PAID"
                               /\ \A d \in Shipper \ {c} : o \notin Hand(shipBatch'[d])
            BY <1>1, <1>5, <1>10 DEF HandsHold
        <3>2. b.step \in {"save", "row"} /\ OrderAt(b) = o =>
                  toldNumber'[o] = [carrier |-> c, attempt |-> b.attempt]
            BY <1>4, <1>9, <1>10 DEF number
        <3>3. o \in Success(b) => b.writes[o].number = toldNumber'[o]
            BY <1>1, <1>4, <1>9, <1>10 DEF HandsHold
        <3> QED
            BY <3>1, <3>2, <3>3
    <2>4. /\ LeftIsOpen(shipBatch[c])' /\ WritesWereTold(shipBatch[c])'
          /\ AnswersAreWritten(shipBatch[c])'
        BY <1>5, <2>1, <2>2, <2>5 DEF LeftIsOpen, WritesWereTold, AnswersAreWritten
    <2>6. HandsHold(c, shipBatch[c])'
        BY <1>5, <2>3 DEF HandsHold
    <2> QED
        BY <2>4, <2>6 DEF BatchInv
<1>16. ASSUME NEW d \in Shipper \ {c} PROVE BatchInv(d)'
    <2> DEFINE e == shipBatch[d]
    <2>1. LeftIsOpen(e) /\ WritesWereTold(e) /\ AnswersAreWritten(e) /\ HandsHold(d, e)
          /\ shipBatch'[d] = e /\ e \in Ships!Batch
        BY <1>5, BatchFacts
    <2> HIDE DEF e
    <2>2. /\ \A o \in Success(e) : toldNumber'[o] # None
          /\ e.step \in {"save", "row"} => toldNumber'[OrderAt(e)] # None
          /\ e.step \in InWork => e.attempt > 0
        <3>1. e.step \in InWork => OrderAt(e) \in Parcel
            BY <2>1, AtPlace
        <3> QED
            BY <1>9, <2>1, <3>1 DEF WritesWereTold, Written, Success, InWork
    <2>3. ASSUME NEW o \in Parcel \ inBoth
          PROVE  /\ o \in Hand(e) => /\ shipStatus[o] = "PAID"
                                     /\ \A f \in Shipper \ {d} : o \notin Hand(shipBatch'[f])
                 /\ e.step \in {"save", "row"} /\ OrderAt(e) = o =>
                       toldNumber'[o] = [carrier |-> d, attempt |-> e.attempt]
                 /\ o \in Success(e) => e.writes[o].number = toldNumber'[o]
        <3>1. o \in Hand(e) => o # at
            BY <1>11 DEF e
        <3>2. o \in Hand(e) => /\ shipStatus[o] = "PAID"
                               /\ \A f \in Shipper \ {d} : o \notin Hand(shipBatch'[f])
            BY <1>5, <1>10, <2>1 DEF HandsHold, a
        <3>3. (e.step \in {"save", "row"} /\ OrderAt(e) = o) \/ o \in Success(e) => o \in Hand(e)
            BY <2>1 DEF Hand, Success, InWork, LeftIsOpen
        <3> QED
            BY <1>9, <2>1, <3>1, <3>2, <3>3 DEF HandsHold
    <2>4. /\ LeftIsOpen(shipBatch[d])' /\ WritesWereTold(shipBatch[d])'
          /\ AnswersAreWritten(shipBatch[d])'
        BY <2>1, <2>2 DEF LeftIsOpen, WritesWereTold, AnswersAreWritten
    <2>5. HandsHold(d, shipBatch[d])'
        BY <2>1, <2>3 DEF HandsHold
    <2> QED
        BY <2>4, <2>5 DEF BatchInv
<1> QED
    BY <1>12, <1>13, <1>14, <1>15, <1>16 DEF ShipsInv

\* A batch goes to another step with the order that it has come to.
LEMMA StepChanges ==
    ASSUME ShipsInv, NEW c \in Shipper, shipBatch[c].step \in InWork, NEW st \in InWork,
           NEW found \in BOOLEAN,
           st \in {"save", "row"} => shipBatch[c].step \in {"save", "row"},
           \/ shipBatch' = [shipBatch EXCEPT ![c].step = st]
           \/ shipBatch' = [shipBatch EXCEPT ![c].step = st, ![c].found = found],
           UNCHANGED <<toldNumber, shipStatus, shipments, inBoth>>
    PROVE  ShipsInv'
<1> DEFINE a == shipBatch[c]
           plain == [a EXCEPT !.step = st]
           seeing == [a EXCEPT !.step = st, !.found = found]
<1>1. a \in Ships!Batch /\ shipBatch \in [Shipper -> Ships!Batch]
    BY BatchFacts
<1>2. /\ plain \in Ships!Batch /\ plain.step = st /\ plain.list = a.list /\ plain.todo = a.todo
      /\ plain.attempt = a.attempt /\ plain.writes = a.writes /\ plain.lines = a.lines
    <2> HIDE DEF a
    <2> QED
        BY <1>1 DEF Ships!Batch, Ships!Step, InWork
<1>3. /\ seeing \in Ships!Batch /\ seeing.step = st /\ seeing.list = a.list
      /\ seeing.todo = a.todo /\ seeing.attempt = a.attempt /\ seeing.writes = a.writes
      /\ seeing.lines = a.lines
    <2> HIDE DEF a
    <2> QED
        BY <1>1 DEF Ships!Batch, Ships!Step, InWork
<1>4. CASE shipBatch' = [shipBatch EXCEPT ![c].step = st]
    <2>1. shipBatch' = [shipBatch EXCEPT ![c] = plain]
        BY <1>1, <1>4
    <2> HIDE DEF plain
    <2> QED
        BY <1>2, <2>1, StepOn
<1>5. CASE shipBatch' = [shipBatch EXCEPT ![c].step = st, ![c].found = found]
    <2>1. shipBatch' = [shipBatch EXCEPT ![c] = seeing]
        BY <1>1, <1>5
    <2> HIDE DEF seeing
    <2> QED
        BY <1>3, <2>1, StepOn
<1> QED
    BY <1>4, <1>5

\* A batch writes the shipment of an order, or notes its failure.
LEMMA RowKeeps ==
    ASSUME ShipsInv, NEW c \in Shipper, Ships!SaveShipment(c) \/ Ships!NoteFailure(c)
    PROVE  ShipsInv'
<1> DEFINE a == shipBatch[c]
           at == OrderAt(a)
           sent == [state |-> "SUCCEEDED", number |-> [carrier |-> c, attempt |-> a.attempt],
                    attempt |-> a.attempt]
           noted == [state |-> "FAILED", number |-> None, attempt |-> a.attempt]
<1>1. /\ a \in Ships!Batch /\ WritesWereTold(a) /\ inBoth \subseteq Parcel
      /\ UNCHANGED <<toldNumber, shipStatus, shipments, inBoth>>
    BY BatchFacts DEF Ships!SaveShipment, Ships!NoteFailure, Ships!Keep
<1>2. a.step \in {"row", "note"} /\ a.step \in InWork
    BY DEF Ships!SaveShipment, Ships!NoteFailure, InWork
<1>3. a.attempt \in Nat \ {0}
    BY <1>1, <1>2, BatchTypes DEF WritesWereTold
<1>4. [carrier |-> c, attempt |-> a.attempt] \in Ships!Number
    BY <1>3 DEF Ships!Number
<1>5. sent \in Ships!Shipment /\ noted \in Ships!Shipment
    BY <1>3, <1>4 DEF Ships!Shipment
<1>6. None \notin Ships!Shipment
    BY ShipsAssumption
<1>7. sent.state = "SUCCEEDED" /\ noted.state = "FAILED"
      /\ sent.number = [carrier |-> c, attempt |-> a.attempt]
    OBVIOUS
<1>8. CASE Ships!SaveShipment(c)
    <2>1. CASE Ships!Twice(c)
        <3>1. shipBatch' = [shipBatch EXCEPT ![c].step = "find"] /\ a.step = "row"
            BY <1>8, <2>1 DEF Ships!SaveShipment
        <3>2. "find" \in InWork /\ FALSE \in BOOLEAN
            BY DEF InWork
        <3> QED
            BY <1>1, <1>2, <3>1, <3>2, StepChanges
    <2>2. CASE ~Ships!Twice(c)
        <3>1. shipBatch' = [shipBatch EXCEPT ![c] = Ships!Turn(c, "shipped", sent)]
              /\ a.step = "row"
            BY <1>8, <2>2, BatchWords DEF Ships!SaveShipment
        <3>2. "shipped" \in Ships!Answer
            BY DEF Ships!Answer
        <3> HIDE DEF sent, noted
        <3> QED
            BY <1>1, <1>2, <1>5, <1>6, <1>7, <3>1, <3>2, TurnKeeps
    <2> QED
        BY <2>1, <2>2
<1>9. CASE Ships!NoteFailure(c)
    <2> DEFINE row == IF Ships!Twice(c) THEN None ELSE noted
    <2>1. shipBatch' = [shipBatch EXCEPT ![c] = Ships!Turn(c, "failed", row)]
        BY <1>9 DEF Ships!NoteFailure
    <2>2. "failed" \in Ships!Answer /\ row \in Ships!Shipment \cup {None}
          /\ (row # None => row.state = "FAILED")
        BY <1>5, <1>7 DEF Ships!Answer
    <2> HIDE DEF row
    <2> QED
        BY <1>1, <1>2, <2>1, <2>2, TurnKeeps
<1> QED
    BY <1>8, <1>9

\* A batch that waits for another one, and is stopped by the database, goes on with its failure.
LEMMA StoppedKeeps ==
    ASSUME ShipsInv, NEW c \in Shipper, Ships!Deadlocked(c)
    PROVE  ShipsInv'
<1>1. /\ UNCHANGED <<toldNumber, shipStatus, shipments, inBoth>> /\ inBoth \subseteq Parcel
      /\ shipBatch[c].step \in {"save", "row", "note"} /\ shipBatch[c].step \in InWork
      /\ shipBatch \in [Shipper -> Ships!Batch]
    BY BatchFacts DEF Ships!Deadlocked, Ships!Keep, Ships!Waits, InWork
<1>2. CASE shipBatch[c].step = "note"
    <2>1. shipBatch' = [shipBatch EXCEPT ![c] = Ships!Turn(c, "failed", None)]
        BY <1>1, <1>2 DEF Ships!Deadlocked
    <2>2. "failed" \in Ships!Answer /\ None \in Ships!Shipment \cup {None}
        BY DEF Ships!Answer
    <2> QED
        BY <1>1, <2>1, <2>2, TurnKeeps
<1>3. CASE shipBatch[c].step # "note"
    <2>1. shipBatch' = [shipBatch EXCEPT ![c].step = "find"]
        BY <1>1, <1>3 DEF Ships!Deadlocked
    <2>2. "find" \in InWork /\ FALSE \in BOOLEAN /\ "find" \notin {"save", "row"}
        BY DEF InWork
    <2>3. shipBatch[c].step \in InWork
          /\ UNCHANGED <<toldNumber, shipStatus, shipments, inBoth>>
        BY <1>1
    <2> QED
        BY <2>1, <2>2, <2>3, StepChanges
<1> QED
    BY <1>2, <1>3

\* A worker that dies takes its batch with it.
LEMMA DeathKeeps ==
    ASSUME ShipsInv, NEW c \in Shipper, Ships!Die(c)
    PROVE  ShipsInv'
<1> DEFINE none == [o \in Parcel |-> None]
           b == [step |-> "over", list |-> <<>>, todo |-> {}, attempt |-> 0,
                 found |-> FALSE, writes |-> none, lines |-> none]
<1>1. /\ shipBatch' = [shipBatch EXCEPT ![c] = b] /\ inBoth \subseteq Parcel
      /\ UNCHANGED <<toldNumber, shipStatus, shipments, inBoth>>
    BY BatchFacts DEF Ships!Die, Ships!NoBatch, Ships!Unwritten, Ships!NoAnswers, Ships!Keep
<1>2. none \in [Parcel -> Ships!Shipment \cup {None}] /\ none \in [Parcel -> Ships!Answer \cup {None}]
      /\ \A o \in Parcel : none[o] = None
    OBVIOUS
<1> HIDE DEF none
<1>3. b \in Ships!Batch
    <2>1. "over" \in Ships!Step /\ <<>> \in Seq(Parcel) /\ {} \in SUBSET Nat /\ FALSE \in BOOLEAN
        BY DEF Ships!Step
    <2> QED
        BY <1>2, <2>1, BatchForm
<1>4. b.step = "over" /\ b.writes = none /\ b.lines = none
    OBVIOUS
<1> HIDE DEF b
<1>5. Written(b) = {} /\ Success(b) = {} /\ Hand(b) = {} /\ None \notin Ships!Answer
    BY <1>2, <1>4, ShipsAssumption DEF Written, Success, Hand
<1>6. LeftIsOpen(b) /\ WritesWereTold(b) /\ AnswersAreWritten(b)
    BY <1>2, <1>4, <1>5 DEF LeftIsOpen, WritesWereTold, AnswersAreWritten, InWork, Ships!Answer
<1> QED
    BY <1>1, <1>3, <1>4, <1>5, <1>6, BatchGoesOn

\* A batch commits what it has written (run_ship_batch).
LEMMA CommitKeeps ==
    ASSUME ShipsInv, NEW c \in Shipper, Ships!Commit(c)
    PROVE  ShipsInv'
<1> DEFINE a == shipBatch[c]
           none == [o \in Parcel |-> None]
           b == [step |-> "over", list |-> <<>>, todo |-> {}, attempt |-> 0,
                 found |-> FALSE, writes |-> none, lines |-> a.lines]
<1>1. /\ a \in Ships!Batch /\ WritesWereTold(a) /\ AnswersAreWritten(a) /\ HandsHold(c, a)
      /\ inBoth \subseteq Parcel /\ shipBatch \in [Shipper -> Ships!Batch]
      /\ shipStatus \in [Parcel -> {"PAID", "SHIPPED"}]
      /\ shipments \in [Parcel -> Ships!Shipment \cup {None}]
    BY BatchFacts
<1>2. a.step = "commit" /\ UNCHANGED <<toldNumber, inBoth>>
    BY DEF Ships!Commit
<1>3. shipments' = [o \in Parcel |-> IF a.writes[o] # None THEN a.writes[o] ELSE shipments[o]]
    BY BatchWords DEF Ships!Commit
<1>4. shipStatus' = [o \in Parcel |-> IF Ships!Wrote(c, o, "SUCCEEDED") THEN "SHIPPED"
                                      ELSE shipStatus[o]]
    BY DEF Ships!Commit
<1>5. shipBatch' = [shipBatch EXCEPT ![c] = b]
    BY DEF Ships!Commit, Ships!Unwritten
<1>6. /\ a.writes \in [Parcel -> Ships!Shipment \cup {None}]
      /\ a.lines \in [Parcel -> Ships!Answer \cup {None}]
    BY <1>1, BatchTypes
<1>7. none \in [Parcel -> Ships!Shipment \cup {None}] /\ \A o \in Parcel : none[o] = None
    OBVIOUS
<1> HIDE DEF none
<1>8. b \in Ships!Batch
    <2>1. "over" \in Ships!Step /\ <<>> \in Seq(Parcel) /\ {} \in SUBSET Nat /\ FALSE \in BOOLEAN
        BY DEF Ships!Step
    <2> HIDE DEF a
    <2> QED
        BY <1>6, <1>7, <2>1, BatchForm
<1>9. b.step = "over" /\ b.writes = none /\ b.lines = a.lines
    OBVIOUS
<1> HIDE DEF b
<1>10. shipBatch'[c] = b /\ \A d \in Shipper \ {c} : shipBatch'[d] = shipBatch[d]
    BY <1>1, <1>5
<1>11. Written(b) = {} /\ Success(b) = {} /\ Hand(b) = {} /\ Hand(a) = Written(a)
    BY <1>2, <1>7, <1>9 DEF Written, Success, Hand, InWork
<1>12. ASSUME NEW o \in Parcel
       PROVE  /\ o \in Success(a) => o \in Written(a) /\ shipStatus'[o] = "SHIPPED"
              /\ o \notin Success(a) => shipStatus'[o] = shipStatus[o]
              /\ o \in Written(a) => shipments'[o] = a.writes[o]
              /\ o \notin Written(a) => shipments'[o] = shipments[o]
              /\ shipStatus[o] = "SHIPPED" => shipStatus'[o] = "SHIPPED"
    <2>1. Ships!Wrote(c, o, "SUCCEEDED") <=> o \in Success(a)
        BY BatchWords
    <2> HIDE DEF a
    <2> QED
        BY <1>3, <1>4, <2>1 DEF Written, Success
<1> HIDE DEF a
<1>13. Ships!TypeOK'
    <2>1. shipBatch' \in [Shipper -> Ships!Batch]
        BY <1>1, <1>5, <1>8
    <2>2. shipments' \in [Parcel -> Ships!Shipment \cup {None}]
        BY <1>1, <1>3, <1>6
    <2>3. shipStatus' \in [Parcel -> {"PAID", "SHIPPED"}]
        BY <1>1, <1>4
    <2> QED
        BY <1>1, <1>2, <2>1, <2>2, <2>3 DEF ShipsInv, Ships!TypeOK
<1>14. Ships!ShippedWasTold'
    <2> SUFFICES ASSUME NEW o \in Parcel, shipStatus'[o] = "SHIPPED" PROVE toldNumber[o] # None
        BY <1>2 DEF Ships!ShippedWasTold
    <2>1. CASE o \in Success(a)
        BY <1>1, <2>1 DEF WritesWereTold
    <2>2. CASE o \notin Success(a)
        BY <1>12, <2>2 DEF ShipsInv, Ships!ShippedWasTold
    <2> QED
        BY <2>1, <2>2
<1>15. Ships!LabelsTellPlatform'
    <2> SUFFICES ASSUME NEW o \in Parcel \ inBoth, shipments'[o] # None,
                        shipments'[o].state = "SUCCEEDED"
                 PROVE  shipments'[o].number = toldNumber[o] /\ shipStatus'[o] = "SHIPPED"
        BY <1>2 DEF Ships!LabelsTellPlatform, Ships!Labels
    <2>1. CASE o \in Written(a)
        <3>1. o \in Success(a)
            BY <1>12, <2>1 DEF Success
        <3> QED
            BY <1>1, <1>12, <2>1, <3>1 DEF HandsHold
    <2>2. CASE o \notin Written(a)
        BY <1>12, <2>2 DEF ShipsInv, Ships!LabelsTellPlatform, Ships!Labels
    <2> QED
        BY <2>1, <2>2
<1>16. Ships!FailedStaysOpen'
    <2> SUFFICES ASSUME NEW o \in Parcel \ inBoth, shipments'[o] # None,
                        shipments'[o].state = "FAILED"
                 PROVE  shipStatus'[o] = "PAID"
        BY <1>2 DEF Ships!FailedStaysOpen
    <2>1. CASE o \in Written(a)
        <3>1. o \notin Success(a)
            BY <1>12, <2>1 DEF Success
        <3> QED
            BY <1>1, <1>11, <1>12, <2>1, <3>1 DEF HandsHold
    <2>2. CASE o \notin Written(a)
        BY <1>12, <2>2 DEF ShipsInv, Ships!FailedStaysOpen
    <2> QED
        BY <2>1, <2>2
<1>17. BatchInv(c)'
    <2>1. LeftIsOpen(b)
        BY <1>9, <1>11 DEF LeftIsOpen, InWork
    <2>2. b.step \notin InWork /\ b.step \notin {"save", "row"}
        BY <1>9 DEF InWork
    <2>3. \A o \in Parcel :
              /\ b.lines[o] = "shipped" => shipStatus'[o] = "SHIPPED"
              /\ b.lines[o] = "refused" => shipStatus'[o] = "SHIPPED"
        BY <1>1, <1>2, <1>9, <1>12 DEF AnswersAreWritten
    <2>4. /\ LeftIsOpen(shipBatch[c])' /\ WritesWereTold(shipBatch[c])'
          /\ AnswersAreWritten(shipBatch[c])' /\ HandsHold(c, shipBatch[c])'
        BY <1>9, <1>10, <1>11, <2>1, <2>2, <2>3
           DEF LeftIsOpen, WritesWereTold, AnswersAreWritten, HandsHold
    <2> QED
        BY <2>4 DEF BatchInv
<1>18. ASSUME NEW d \in Shipper \ {c} PROVE BatchInv(d)'
    <2> DEFINE e == shipBatch[d]
    <2>1. LeftIsOpen(e) /\ WritesWereTold(e) /\ AnswersAreWritten(e) /\ HandsHold(d, e)
          /\ shipBatch'[d] = e
        BY <1>10, BatchFacts
    <2>2. ASSUME NEW o \in Parcel \ inBoth, o \in Hand(e)
          PROVE  shipStatus'[o] = "PAID" /\ \A f \in Shipper \ {d} : o \notin Hand(shipBatch'[f])
        <3>1. shipStatus[o] = "PAID" /\ \A f \in Shipper \ {d} : o \notin Hand(shipBatch[f])
            BY <2>1, <2>2 DEF HandsHold
        <3>2. o \notin Hand(a)
            BY <3>1 DEF a
        <3> QED
            BY <1>10, <1>11, <1>12, <3>1, <3>2
    <2> HIDE DEF e
    <2>3. AnswersAreWritten(shipBatch[d])'
        BY <1>12, <2>1 DEF AnswersAreWritten
    <2>4. HandsHold(d, shipBatch[d])'
        BY <1>2, <2>1, <2>2 DEF HandsHold
    <2>5. LeftIsOpen(shipBatch[d])' /\ WritesWereTold(shipBatch[d])'
        BY <1>2, <2>1 DEF LeftIsOpen, WritesWereTold
    <2> QED
        BY <2>3, <2>4, <2>5 DEF BatchInv
<1> QED
    BY <1>13, <1>14, <1>15, <1>16, <1>17, <1>18 DEF ShipsInv

LEMMA StepKeepsShips ==
    ASSUME ShipsInv, NEW c \in Shipper, Ships!Works(c)
    PROVE  ShipsInv'
<1>1. ASSUME NEW list \in Batches, Ships!Submit(c, list) PROVE ShipsInv'
    BY <1>1, SubmitKeeps
<1>2. CASE Ships!Load(c)
    BY <1>2, LoadKeeps
<1>3. CASE Ships!Push(c)
    <2>1. shipBatch[c].step = "push" /\ shipBatch' = [shipBatch EXCEPT ![c].step = "save"]
          /\ Ships!Tells(c) /\ UNCHANGED <<shipStatus, shipments, inBoth>>
        BY <1>3 DEF Ships!Push, Ships!Keep
    <2> QED
        BY <2>1, TellKeeps
<1>4. CASE Ships!PushFails(c)
    <2>1. shipBatch[c].step = "push" /\ shipBatch' = [shipBatch EXCEPT ![c].step = "find"]
          /\ UNCHANGED <<shipStatus, shipments, inBoth>>
        BY <1>4 DEF Ships!PushFails, Ships!Keep
    <2>2. CASE Ships!Tells(c)
        BY <2>1, <2>2, TellKeeps
    <2>3. CASE UNCHANGED toldNumber
        BY <2>1, <2>3, StepChanges DEF InWork
    <2> QED
        BY <1>4, <2>2, <2>3 DEF Ships!PushFails
<1>5. CASE Ships!PushTwice(c)
    <2>1. shipBatch[c].step = "push" /\ shipBatch' = [shipBatch EXCEPT ![c].step = "find"]
          /\ UNCHANGED <<toldNumber, shipStatus, shipments, inBoth>>
        BY <1>5 DEF Ships!PushTwice, Ships!Keep
    <2> QED
        BY <2>1, StepChanges DEF InWork
<1>6. CASE Ships!SaveOrder(c)
    <2>1. /\ shipBatch[c].step = "save"
          /\ shipBatch' = [shipBatch EXCEPT ![c].step = "row",
                                            ![c].found = shipments[Ships!Now(c)] # None]
          /\ UNCHANGED <<toldNumber, shipStatus, shipments, inBoth>>
        BY <1>6 DEF Ships!SaveOrder, Ships!Keep
    <2>2. (shipments[Ships!Now(c)] # None) \in BOOLEAN
        OBVIOUS
    <2> QED
        BY <2>1, <2>2, StepChanges DEF InWork
<1>7. CASE Ships!SaveShipment(c) \/ Ships!NoteFailure(c)
    BY <1>7, RowKeeps
<1>8. CASE Ships!FindShipment(c)
    <2>1. /\ shipBatch[c].step = "find"
          /\ shipBatch' = [shipBatch EXCEPT ![c].step = "note",
                                            ![c].found = shipments[Ships!Now(c)] # None]
          /\ UNCHANGED <<toldNumber, shipStatus, shipments, inBoth>>
        BY <1>8 DEF Ships!FindShipment, Ships!Keep
    <2>2. (shipments[Ships!Now(c)] # None) \in BOOLEAN
        OBVIOUS
    <2> QED
        BY <2>1, <2>2, StepChanges DEF InWork
<1>9. CASE Ships!Deadlocked(c)
    BY <1>9, StoppedKeeps
<1>10. CASE Ships!Commit(c)
    BY <1>10, CommitKeeps
<1>11. CASE Ships!Die(c)
    BY <1>11, DeathKeeps
<1> QED
    BY <1>1, <1>2, <1>3, <1>4, <1>5, <1>6, <1>7, <1>8, <1>9, <1>10, <1>11 DEF Ships!Works

LEMMA FirstShips == Ships!Init => ShipsInv
<1> SUFFICES ASSUME Ships!Init PROVE ShipsInv
    OBVIOUS
<1> DEFINE none == [o \in Parcel |-> None]
           b == [step |-> "over", list |-> <<>>, todo |-> {}, attempt |-> 0,
                 found |-> FALSE, writes |-> none, lines |-> none]
<1>1. none \in [Parcel -> Ships!Shipment \cup {None}] /\ none \in [Parcel -> Ships!Answer \cup {None}]
      /\ none \in [Parcel -> Ships!Number \cup {None}] /\ \A o \in Parcel : none[o] = None
    OBVIOUS
<1>2. /\ toldNumber = none /\ shipments = none /\ shipStatus = [o \in Parcel |-> "PAID"]
      /\ shipBatch = [c \in Shipper |-> b] /\ inBoth = {}
    BY DEF Ships!Init, Ships!NoBatch, Ships!Unwritten, Ships!NoAnswers
<1> HIDE DEF none
<1>3. b \in Ships!Batch
    <2>1. "over" \in Ships!Step /\ <<>> \in Seq(Parcel) /\ {} \in SUBSET Nat /\ FALSE \in BOOLEAN
        BY DEF Ships!Step
    <2> QED
        BY <1>1, <2>1, BatchForm
<1>4. b.step = "over" /\ b.writes = none /\ b.lines = none
    OBVIOUS
<1> HIDE DEF b
<1>5. Written(b) = {} /\ Success(b) = {} /\ Hand(b) = {} /\ None \notin Ships!Answer
    BY <1>1, <1>4, ShipsAssumption DEF Written, Success, Hand
<1>6. Ships!TypeOK
    BY <1>1, <1>2, <1>3 DEF Ships!TypeOK
<1>7. Ships!ShippedWasTold /\ Ships!LabelsTellPlatform /\ Ships!FailedStaysOpen
    BY <1>1, <1>2 DEF Ships!ShippedWasTold, Ships!LabelsTellPlatform, Ships!Labels,
                      Ships!FailedStaysOpen
<1>8. LeftIsOpen(b) /\ WritesWereTold(b) /\ AnswersAreWritten(b)
    BY <1>1, <1>4, <1>5 DEF LeftIsOpen, WritesWereTold, AnswersAreWritten, InWork, Ships!Answer
<1>9. \A c \in Shipper : HandsHold(c, b)
    BY <1>4, <1>5 DEF HandsHold
<1> QED
    BY <1>2, <1>6, <1>7, <1>8, <1>9 DEF ShipsInv, BatchInv

LEMMA ShipsStep == ShipsInv /\ [Ships!Next]_(Ships!vars) => ShipsInv'
<1> SUFFICES ASSUME ShipsInv, [Ships!Next]_(Ships!vars) PROVE ShipsInv'
    OBVIOUS
<1>1. CASE UNCHANGED Ships!vars
    BY <1>1 DEF Ships!vars, ShipsInv, Ships!TypeOK, Ships!ShippedWasTold,
                Ships!LabelsTellPlatform, Ships!Labels, Ships!FailedStaysOpen, BatchInv,
                LeftIsOpen, WritesWereTold, AnswersAreWritten, HandsHold
<1>2. CASE Ships!Next
    BY <1>2, StepKeepsShips DEF Ships!Next
<1> QED
    BY <1>1, <1>2

LEMMA ShipsHold == ShipsInv => Ships!ShipmentsTell
<1> SUFFICES ASSUME ShipsInv PROVE Ships!AnswersTell
    BY DEF Ships!ShipmentsTell, ShipsInv
<1> SUFFICES ASSUME NEW c \in Shipper, shipBatch[c].step = "over", NEW o \in Parcel,
                    shipBatch[c].lines[o] \in {"shipped", "refused"}
             PROVE  shipStatus[o] = "SHIPPED"
    BY DEF Ships!AnswersTell
<1> QED
    BY BatchFacts DEF AnswersAreWritten

\* However many clerks ship however many orders in batches, fail and die, what is shipped was told
\* to the platform, labels tell what the platform knows, and batches tell what became of their
\* orders (run_ship_batch, _ship_one, print_labels).
THEOREM ShipmentsKept == Ships!Spec => []Ships!ShipmentsTell
<1>1. Ships!Init => ShipsInv
    BY FirstShips
<1>2. ShipsInv /\ [Ships!Next]_(Ships!vars) => ShipsInv'
    BY ShipsStep
<1>3. ShipsInv => Ships!ShipmentsTell
    BY ShipsHold
<1> QED
    BY <1>1, <1>2, <1>3, PTL DEF Ships!Spec

-----------------------------------------------------------------------------
(* The members of a tenant (Members).                                       *)

\* The owner stays, and nobody else becomes one.
OwnerStays ==
    /\ member[Owner] = [role |-> "OWNER", deleted |-> FALSE]
    /\ \A p \in Person \ {Owner} : member[p] # None => member[p].role # "OWNER"

\* What a request has read of the invitations and the members.
WorkFits(j) ==
    /\ j.does \in {"revoking", "invite"} =>
          /\ \A i \in j.revokes : i \in DOMAIN invitation /\ invitation[i].to = j.who
          /\ j.who \notin overlapped => Team!Pending(j.who) \subseteq j.revokes
    /\ j.does \in {"mail", "revoke", "accept"} => j.inv \in DOMAIN invitation
    /\ j.does = "accept" => j.inv \in linked
    /\ j.does \in {"role", "remove"} => j.who # Owner /\ member[j.who] # None

OneLink ==
    \A i, j \in DOMAIN invitation :
        /\ Team!Valid(i) /\ Team!Valid(j) /\ invitation[i].to = invitation[j].to
        /\ invitation[i].to \notin overlapped
        => i = j

\* An invitation that is accepted was mailed, made a member, and is the only one of its address.
AcceptedFits ==
    \A i \in DOMAIN invitation : invitation[i].status = "ACCEPTED" =>
        /\ member[invitation[i].to] # None /\ i \in linked
        /\ \A j \in DOMAIN invitation :
              invitation[j].status = "ACCEPTED" /\ invitation[j].to = invitation[i].to => j = i

\* A member is the owner, or has an invitation that was mailed and accepted or revoked.
MembersInvited ==
    \A p \in Person \ {Owner} : member[p] # None =>
        \E i \in DOMAIN invitation :
            i \in linked /\ invitation[i].to = p /\ invitation[i].status \in {"ACCEPTED", "REVOKED"}

TeamInv ==
    /\ Team!TypeOK /\ OwnerStays /\ OneLink /\ AcceptedFits /\ MembersInvited
    /\ \A r \in Manager : WorkFits(membership[r])

\* What a request has in hand, by what it does.
LEMMA WorkTypes ==
    ASSUME NEW j \in Team!Work
    PROVE  /\ j.does \in {"nothing", "revoking", "invite", "mail", "revoke", "accept",
                            "role", "remove"}
           /\ j.does \in {"revoking", "invite"} =>
                 j.who \in Person /\ j.role \in Team!Given /\ j.revokes \in SUBSET Nat
           /\ j.does \in {"mail", "revoke", "accept"} => j.inv \in Nat
           /\ j.does = "accept" => j.known \in BOOLEAN
           /\ j.does = "role" => j.who \in Person /\ j.was \in Team!Role /\ j.role \in Team!Given
           /\ j.does = "remove" => j.who \in Person
BY DEF Team!Work, Team!Idle

LEMMA NoWorkFits == Team!Idle \in Team!Work /\ WorkFits(Team!Idle)
BY DEF Team!Work, Team!Idle, WorkFits

LEMMA TeamFacts ==
    ASSUME TeamInv
    PROVE  /\ accounts \subseteq Person /\ member \in [Person -> Team!Member \cup {None}]
           /\ invitation \in Seq(Team!Invitation) /\ Len(invitation) <= MaxInvites
           /\ linked \subseteq Nat /\ membership \in [Manager -> Team!Work]
           /\ overlapped \subseteq Person
           /\ \A i \in DOMAIN invitation :
                 /\ i \in Nat /\ invitation[i] \in Team!Invitation /\ invitation[i].to \in Person
                 /\ invitation[i].status \in {"PENDING", "REVOKED", "ACCEPTED"}
           /\ OwnerStays /\ OneLink /\ AcceptedFits /\ MembersInvited
           /\ \A r \in Manager : membership[r] \in Team!Work /\ WorkFits(membership[r])
<1>1. Team!TypeOK
    BY DEF TeamInv
<1>2. invitation \in Seq(Team!Invitation)
    BY <1>1 DEF Team!TypeOK
<1>3. ASSUME NEW i \in DOMAIN invitation
      PROVE  /\ i \in Nat /\ invitation[i] \in Team!Invitation /\ invitation[i].to \in Person
             /\ invitation[i].status \in {"PENDING", "REVOKED", "ACCEPTED"}
    <2>1. i \in Nat /\ invitation[i] \in Team!Invitation
        BY <1>2, <1>3
    <2> QED
        BY <2>1 DEF Team!Invitation
<1> QED
    BY <1>1, <1>2, <1>3 DEF TeamInv, Team!TypeOK

LEMMA OwnerIsMember ==
    ASSUME TeamInv
    PROVE  member[Owner] # None
<1>1. [role |-> "OWNER", deleted |-> FALSE] \in Team!Member
    BY DEF Team!Member, Team!Role
<1>2. None \notin Team!Member
    BY TeamAssumption
<1>3. member[Owner] = [role |-> "OWNER", deleted |-> FALSE]
    BY TeamFacts DEF OwnerStays
<1> QED
    BY <1>1, <1>2, <1>3

\* A request reads, mails or ends.
LEMMA WorkGoesOn ==
    ASSUME TeamInv, NEW r \in Manager, NEW w \in Team!Work, WorkFits(w),
           membership' = [membership EXCEPT ![r] = w],
           linked \subseteq linked', linked' \subseteq Nat,
           UNCHANGED <<accounts, member, invitation, overlapped>>
    PROVE  TeamInv'
<1>1. Team!TypeOK'
    BY TeamFacts DEF TeamInv, Team!TypeOK
<1>2. OwnerStays' /\ OneLink' /\ AcceptedFits' /\ MembersInvited'
    BY TeamFacts DEF OwnerStays, OneLink, AcceptedFits, MembersInvited, Team!Valid
<1>3. ASSUME NEW q \in Manager PROVE WorkFits(membership[q])'
    <2>1. \A p : Team!Pending(p)' = Team!Pending(p)
        BY DEF Team!Pending, Team!Valid
    <2>2. PICK j \in {w, membership[q]} : membership'[q] = j /\ WorkFits(j)
        BY TeamFacts
    <2>3. /\ j.does \in {"revoking", "invite"} =>
                /\ \A i \in j.revokes : i \in DOMAIN invitation /\ invitation[i].to = j.who
                /\ j.who \notin overlapped => Team!Pending(j.who)' \subseteq j.revokes
          /\ j.does \in {"mail", "revoke", "accept"} => j.inv \in DOMAIN invitation
          /\ j.does = "accept" => j.inv \in linked'
          /\ j.does \in {"role", "remove"} => j.who # Owner /\ member[j.who] # None
        BY <2>1, <2>2 DEF WorkFits
    <2> QED
        BY <2>2, <2>3 DEF WorkFits
<1> QED
    BY <1>1, <1>2, <1>3 DEF TeamInv

\* One invitation is not valid any more, and its request, if there is one, ends.
LEMMA LinkCloses ==
    ASSUME TeamInv, NEW i \in DOMAIN invitation, NEW row \in Team!Invitation,
           row.to = invitation[i].to, row.status = "PENDING" => row.expired,
           row.status # "PENDING" => row.status = "REVOKED",
           row.status = "PENDING" => invitation[i].status = "PENDING",
           invitation' = [invitation EXCEPT ![i] = row],
           membership' \in [Manager -> Team!Work],
           \A r \in Manager : membership'[r] \in {membership[r], Team!Idle},
           UNCHANGED <<accounts, member, linked, overlapped>>
    PROVE  TeamInv'
<1>1. /\ invitation'[i] = row /\ \A j \in DOMAIN invitation \ {i} : invitation'[j] = invitation[j]
      /\ DOMAIN invitation' = DOMAIN invitation
    BY TeamFacts
<1>2. invitation' \in Seq(Team!Invitation) /\ Len(invitation') = Len(invitation)
    BY TeamFacts
<1>3. Team!TypeOK'
    BY <1>2, TeamFacts DEF TeamInv, Team!TypeOK
<1>4. \A j \in DOMAIN invitation : invitation'[j].to = invitation[j].to
    BY <1>1
<1>5. OwnerStays' /\ OneLink'
    BY <1>1, <1>4, TeamFacts DEF OwnerStays, OneLink, Team!Valid
<1>6. AcceptedFits'
    BY <1>1, <1>4, TeamFacts DEF AcceptedFits
<1>7. MembersInvited'
    <2> SUFFICES ASSUME NEW p \in Person \ {Owner}, member[p] # None
                 PROVE  \E j \in DOMAIN invitation :
                            /\ j \in linked /\ invitation'[j].to = p
                            /\ invitation'[j].status \in {"ACCEPTED", "REVOKED"}
        BY <1>1 DEF MembersInvited
    <2>1. PICK j \in DOMAIN invitation :
              /\ j \in linked /\ invitation[j].to = p
              /\ invitation[j].status \in {"ACCEPTED", "REVOKED"}
        BY TeamFacts DEF MembersInvited
    <2>2. invitation'[j].to = p /\ invitation'[j].status \in {"ACCEPTED", "REVOKED"}
        BY <1>1, <1>4, <2>1
    <2> QED
        BY <2>1, <2>2
<1>8. ASSUME NEW q \in Manager PROVE WorkFits(membership[q])'
    <2>1. membership'[q] = Team!Idle \/ (membership'[q] = membership[q] /\ WorkFits(membership[q]))
        BY TeamFacts
    <2>2. \A p : Team!Pending(p)' \subseteq Team!Pending(p)
        BY <1>1, <1>4 DEF Team!Pending, Team!Valid
    <2>3. CASE membership'[q] = Team!Idle
        BY <2>3 DEF WorkFits, Team!Idle
    <2>4. CASE membership'[q] = membership[q] /\ WorkFits(membership[q])
        BY <1>1, <1>4, <2>2, <2>4 DEF WorkFits
    <2> QED
        BY <2>1, <2>3, <2>4
<1> QED
    BY <1>3, <1>5, <1>6, <1>7, <1>8 DEF TeamInv

\* The row of a member who is not the owner changes, and its request ends.
LEMMA MemberChanges ==
    ASSUME TeamInv, NEW r \in Manager, NEW p \in Person \ {Owner}, member[p] # None,
           NEW row \in Team!Member, row.role # "OWNER",
           member' = [member EXCEPT ![p] = row], membership' = [membership EXCEPT ![r] = Team!Idle],
           UNCHANGED <<accounts, invitation, linked, overlapped>>
    PROVE  TeamInv'
<1>1. member'[p] = row /\ \A q \in Person \ {p} : member'[q] = member[q]
    BY TeamFacts
<1>2. Team!TypeOK'
    BY TeamFacts, NoWorkFits DEF TeamInv, Team!TypeOK
<1>3. row # None
    BY TeamAssumption
<1>4. OwnerStays'
    BY <1>1, <1>3, TeamFacts, TeamAssumption DEF OwnerStays
<1>5. OneLink' /\ AcceptedFits' /\ MembersInvited'
    BY <1>1, <1>3, TeamFacts DEF OneLink, AcceptedFits, MembersInvited, Team!Valid
<1>6. ASSUME NEW q \in Manager PROVE WorkFits(membership[q])'
    <2>1. membership[q] \in Team!Work /\ WorkFits(membership[q])
        BY TeamFacts
    <2>2. membership'[q] = IF q = r THEN Team!Idle ELSE membership[q]
        BY TeamFacts
    <2>3. CASE q = r
        BY <2>2, <2>3 DEF WorkFits, Team!Idle
    <2>4. CASE q # r
        BY <1>1, <1>3, <2>1, <2>2, <2>4, WorkTypes DEF WorkFits, Team!Pending, Team!Valid
    <2> QED
        BY <2>3, <2>4
<1> QED
    BY <1>2, <1>4, <1>5, <1>6 DEF TeamInv

\* An invitation is sent, and those of its address that were read are revoked (invite).
LEMMA InviteKeeps ==
    ASSUME TeamInv, NEW r \in Manager, Team!Invite(r)
    PROVE  TeamInv'
<1> DEFINE j == membership[r]
           p == j.who
           n == Len(invitation) + 1
           new == [to |-> p, role |-> j.role, expired |-> FALSE, status |-> "PENDING"]
           closed(i) == [invitation[i] EXCEPT !.status = "REVOKED", !.expired = TRUE]
           kept == [i \in DOMAIN invitation |-> IF i \in j.revokes THEN closed(i) ELSE invitation[i]]
           mail == [does |-> "mail", inv |-> n]
<1>1. /\ j.does = "invite" /\ Len(invitation) < MaxInvites
      /\ invitation' = Append(kept, new)
      /\ overlapped' = IF Team!Invites(p) = {r} THEN overlapped ELSE overlapped \cup {p}
      /\ membership' = [membership EXCEPT ![r] = mail]
      /\ UNCHANGED <<accounts, member, linked>>
    <2>1. j.does = "invite" /\ Len(invitation) < MaxInvites /\ UNCHANGED <<accounts, member, linked>>
        BY DEF Team!Invite
    <2>2. invitation' = Append(kept, new)
        BY DEF Team!Invite
    <2>3. overlapped' = IF Team!Invites(p) = {r} THEN overlapped ELSE overlapped \cup {p}
        BY DEF Team!Invite
    <2>4. membership' = [membership EXCEPT ![r] = mail]
        BY DEF Team!Invite
    <2> QED
        BY <2>1, <2>2, <2>3, <2>4
<1>2. /\ j \in Team!Work /\ WorkFits(j) /\ p \in Person /\ j.role \in Team!Given
      /\ j.revokes \in SUBSET Nat
    <2>1. j \in Team!Work /\ WorkFits(j) /\ j.does = "invite"
        BY <1>1, TeamFacts
    <2> HIDE DEF j
    <2> QED
        BY <2>1, WorkTypes
<1>3. ASSUME NEW i \in DOMAIN invitation
      PROVE  /\ kept[i] \in Team!Invitation /\ kept[i].to = invitation[i].to
             /\ i \in j.revokes => kept[i].status = "REVOKED" /\ kept[i].expired
             /\ i \notin j.revokes => kept[i] = invitation[i]
    <2>1. invitation[i] \in Team!Invitation
        BY TeamFacts
    <2>2. closed(i) \in Team!Invitation /\ closed(i).to = invitation[i].to
          /\ closed(i).status = "REVOKED" /\ closed(i).expired
        BY <2>1 DEF Team!Invitation
    <2>3. kept[i] = IF i \in j.revokes THEN closed(i) ELSE invitation[i]
        <3> HIDE DEF j, closed
        <3> QED
            OBVIOUS
    <2> HIDE DEF closed, kept, j
    <2> QED
        BY <2>1, <2>2, <2>3
<1>4. /\ kept \in Seq(Team!Invitation) /\ Len(kept) = Len(invitation)
      /\ DOMAIN kept = DOMAIN invitation
    <2>1. Len(invitation) \in Nat /\ DOMAIN invitation = 1..Len(invitation)
        BY TeamFacts
    <2>2. DOMAIN kept = DOMAIN invitation
        OBVIOUS
    <2>3. kept = [i \in DOMAIN kept |-> kept[i]]
        OBVIOUS
    <2> HIDE DEF kept, j
    <2>4. kept \in [1..Len(invitation) -> Team!Invitation]
        BY <1>3, <2>1, <2>2, <2>3
    <2> QED
        BY <2>1, <2>2, <2>4
<1>5. new \in Team!Invitation
    BY <1>2 DEF Team!Invitation
<1>6. new.to = p /\ new.status = "PENDING" /\ ~new.expired
    OBVIOUS
<1>7. mail \in Team!Work /\ n \in Nat /\ mail.does = "mail" /\ mail.inv = n
    <2>1. n \in Nat
        BY TeamFacts
    <2> HIDE DEF n
    <2> QED
        BY <2>1 DEF Team!Work
<1> HIDE DEF closed, kept, new, mail, j, p
<1>8. /\ invitation' \in Seq(Team!Invitation) /\ Len(invitation') = n
      /\ DOMAIN invitation' = DOMAIN invitation \cup {n} /\ n \notin DOMAIN invitation
      /\ invitation'[n] = new /\ \A i \in DOMAIN invitation : invitation'[i] = kept[i]
    <2>1. Len(invitation) \in Nat /\ DOMAIN invitation = 1..Len(invitation)
        BY TeamFacts
    <2> QED
        BY <1>1, <1>4, <1>5, <2>1
<1> HIDE DEF n
<1>9. Team!TypeOK'
    <2>1. Len(invitation') <= MaxInvites
        BY <1>1, <1>8, TeamFacts, TeamAssumption DEF n
    <2>2. membership' \in [Manager -> Team!Work] /\ overlapped' \subseteq Person
        BY <1>1, <1>2, <1>7, TeamFacts
    <2> QED
        BY <1>1, <1>8, <2>1, <2>2, TeamFacts DEF Team!TypeOK
<1>10. OwnerStays'
    BY <1>1, TeamFacts DEF OwnerStays
<1>11. ASSUME NEW i \in DOMAIN invitation
       PROVE  /\ i \in DOMAIN invitation' /\ invitation'[i].to = invitation[i].to
              /\ Team!Valid(i)' => Team!Valid(i) /\ i \notin j.revokes
              /\ invitation'[i].status = "ACCEPTED" => invitation[i].status = "ACCEPTED"
              /\ invitation[i].status \in {"ACCEPTED", "REVOKED"} =>
                     invitation'[i].status \in {"ACCEPTED", "REVOKED"}
    BY <1>3, <1>8 DEF Team!Valid
<1>12. overlapped \subseteq overlapped' /\ (p \notin overlapped' => Team!Invites(p) = {r})
    BY <1>1
<1>13. ASSUME p \notin overlapped', NEW i \in DOMAIN invitation, invitation[i].to = p
       PROVE  ~Team!Valid(i)'
    BY <1>1, <1>2, <1>11, <1>12, <1>13 DEF WorkFits, Team!Pending, p
<1>14. OneLink'
    <2> SUFFICES ASSUME NEW i \in DOMAIN invitation', NEW k \in DOMAIN invitation',
                        Team!Valid(i)', Team!Valid(k)', invitation'[i].to = invitation'[k].to,
                        invitation'[i].to \notin overlapped'
                 PROVE  i = k
        BY DEF OneLink
    <2>1. CASE i \in DOMAIN invitation /\ k \in DOMAIN invitation
        BY <1>11, <1>12, <2>1, TeamFacts DEF OneLink
    <2>2. CASE i = n /\ k \in DOMAIN invitation
        BY <1>6, <1>8, <1>11, <1>13, <2>2
    <2>3. CASE i \in DOMAIN invitation /\ k = n
        BY <1>6, <1>8, <1>11, <1>13, <2>3
    <2> QED
        BY <1>8, <2>1, <2>2, <2>3
<1>15. AcceptedFits'
    <2>1. ASSUME NEW i \in DOMAIN invitation', invitation'[i].status = "ACCEPTED"
          PROVE  i \in DOMAIN invitation /\ invitation[i].status = "ACCEPTED"
                 /\ invitation'[i].to = invitation[i].to
        BY <1>6, <1>8, <1>11, <2>1
    <2> QED
        BY <1>1, <2>1, TeamFacts DEF AcceptedFits
<1>16. MembersInvited'
    <2> SUFFICES ASSUME NEW q \in Person \ {Owner}, member[q] # None
                 PROVE  \E i \in DOMAIN invitation' :
                            /\ i \in linked /\ invitation'[i].to = q
                            /\ invitation'[i].status \in {"ACCEPTED", "REVOKED"}
        BY <1>1 DEF MembersInvited
    <2>1. PICK i \in DOMAIN invitation :
              /\ i \in linked /\ invitation[i].to = q
              /\ invitation[i].status \in {"ACCEPTED", "REVOKED"}
        BY TeamFacts DEF MembersInvited
    <2> QED
        BY <1>11, <2>1
<1>17. ASSUME NEW q \in Manager PROVE WorkFits(membership[q])'
    <2>1. CASE q = r
        <3>1. membership'[q] = mail
            BY <1>1, <2>1, TeamFacts
        <3> QED
            BY <1>7, <1>8, <3>1 DEF WorkFits
    <2>2. CASE q # r
        <3> DEFINE w == membership[q]
        <3>1. membership'[q] = w /\ w \in Team!Work /\ WorkFits(w)
            BY <1>1, <2>2, TeamFacts
        <3>2. w.does \in {"revoking", "invite"} /\ w.who = p => p \in overlapped'
            BY <1>12, <2>2 DEF Team!Invites
        <3> HIDE DEF w
        <3>3. ASSUME w.does \in {"revoking", "invite"}, w.who \notin overlapped',
                     NEW i \in DOMAIN invitation', invitation'[i].to = w.who, Team!Valid(i)'
              PROVE  i \in w.revokes
            <4>1. i \in DOMAIN invitation
                <5>1. w.who # p
                    BY <3>2, <3>3
                <5>2. i # n
                    BY <1>6, <1>8, <3>3, <5>1
                <5> QED
                    BY <1>8, <5>2
            <4>2. i \in Team!Pending(w.who)
                BY <1>11, <3>3, <4>1 DEF Team!Pending
            <4> QED
                BY <1>12, <3>1, <3>3, <4>2 DEF WorkFits
        <3>4. /\ w.does \in {"revoking", "invite"} =>
                    \A i \in w.revokes : i \in DOMAIN invitation' /\ invitation'[i].to = w.who
              /\ w.does \in {"mail", "revoke", "accept"} => w.inv \in DOMAIN invitation'
              /\ w.does = "accept" => w.inv \in linked'
              /\ w.does \in {"role", "remove"} => w.who # Owner /\ member'[w.who] # None
            BY <1>1, <1>11, <3>1 DEF WorkFits
        <3> QED
            BY <3>1, <3>3, <3>4 DEF WorkFits, Team!Pending
    <2> QED
        BY <2>1, <2>2
<1> QED
    BY <1>9, <1>10, <1>14, <1>15, <1>16, <1>17 DEF TeamInv

\* An invitation is accepted (accept).
LEMMA AcceptKeeps ==
    ASSUME TeamInv, NEW r \in Manager, Team!Accept(r)
    PROVE  TeamInv'
<1> DEFINE j == membership[r]
           i == j.inv
           p == invitation[i].to
           row == [invitation[i] EXCEPT !.status = "ACCEPTED"]
           new == [role |-> invitation[i].role, deleted |-> FALSE]
<1>1. /\ j.does = "accept" /\ member[p] = None
      /\ accounts' = accounts \cup {p} /\ member' = [member EXCEPT ![p] = new]
      /\ invitation' = [invitation EXCEPT ![i] = row]
      /\ membership' = [membership EXCEPT ![r] = Team!Idle]
      /\ UNCHANGED <<linked, overlapped>>
    BY TeamFacts DEF Team!Accept, Team!Taken, Team!End
<1>2. /\ i \in DOMAIN invitation /\ i \in linked /\ p \in Person
      /\ invitation[i] \in Team!Invitation
    BY <1>1, TeamFacts DEF WorkFits
<1>3. row \in Team!Invitation /\ row.to = p /\ row.status = "ACCEPTED"
    <2> HIDE DEF i
    <2> QED
        BY <1>2 DEF Team!Invitation
<1>4. new \in Team!Member /\ new.role # "OWNER" /\ new # None
    <2>1. invitation[i].role \in Team!Given
        <3> HIDE DEF i
        <3> QED
            BY <1>2 DEF Team!Invitation
    <2>2. invitation[i].role \in Team!Role \ {"OWNER"}
        BY <2>1 DEF Team!Given
    <2> HIDE DEF i
    <2>3. new \in Team!Member
        BY <2>2 DEF Team!Member
    <2>4. None \notin Team!Member
        BY TeamAssumption
    <2>5. new.role = invitation[i].role
        OBVIOUS
    <2> HIDE DEF new
    <2> QED
        BY <2>2, <2>3, <2>4, <2>5
<1> HIDE DEF j, i, p, row, new
<1>5. /\ invitation'[i] = row
      /\ \A k \in DOMAIN invitation \ {i} : invitation'[k] = invitation[k]
      /\ DOMAIN invitation' = DOMAIN invitation
      /\ invitation' \in Seq(Team!Invitation) /\ Len(invitation') = Len(invitation)
    BY <1>1, <1>2, <1>3, TeamFacts
<1>6. member'[p] = new /\ \A q \in Person \ {p} : member'[q] = member[q]
    BY <1>1, <1>2, TeamFacts
<1>7. Team!TypeOK'
    <2>1. member' \in [Person -> Team!Member \cup {None}]
        BY <1>1, <1>2, <1>4, TeamFacts
    <2>2. membership' \in [Manager -> Team!Work]
        BY <1>1, TeamFacts, NoWorkFits
    <2>3. accounts' \subseteq Person /\ linked' \subseteq Nat /\ overlapped' \subseteq Person
        BY <1>1, <1>2, TeamFacts
    <2>4. invitation' \in Seq(Team!Invitation) /\ Len(invitation') <= MaxInvites
        BY <1>5, TeamFacts
    <2> QED
        BY <2>1, <2>2, <2>3, <2>4 DEF Team!TypeOK
<1>8. p # Owner /\ OwnerStays'
    <2>1. member[Owner] # None
        BY OwnerIsMember
    <2> QED
        BY <1>1, <1>4, <1>6, <2>1, TeamFacts, TeamAssumption DEF OwnerStays
<1>9. \A k \in DOMAIN invitation :
          /\ invitation'[k].to = invitation[k].to /\ (Team!Valid(k)' => Team!Valid(k))
          /\ invitation[k].to = p => invitation[k].status # "ACCEPTED"
    BY <1>1, <1>3, <1>5, TeamFacts DEF Team!Valid, AcceptedFits, p
<1>10. OneLink'
    BY <1>1, <1>5, <1>9, TeamFacts DEF OneLink
<1>11. AcceptedFits'
    <2> SUFFICES ASSUME NEW k \in DOMAIN invitation, invitation'[k].status = "ACCEPTED"
                 PROVE  /\ member'[invitation'[k].to] # None /\ k \in linked
                        /\ \A l \in DOMAIN invitation :
                              /\ invitation'[l].status = "ACCEPTED"
                              /\ invitation'[l].to = invitation'[k].to
                              => l = k
        BY <1>1, <1>5 DEF AcceptedFits
    <2>1. CASE k = i
        BY <1>2, <1>3, <1>4, <1>5, <1>6, <1>9, <2>1
    <2>2. CASE k # i
        <3>1. invitation'[k] = invitation[k] /\ invitation[k].to # p
              /\ invitation[k].to \in Person
            BY <1>5, <1>9, <2>2, TeamFacts
        <3>2. ASSUME NEW l \in DOMAIN invitation, invitation'[l].status = "ACCEPTED",
                     invitation'[l].to = invitation'[k].to
              PROVE  l = k
            <4>1. l # i
                BY <1>3, <1>5, <3>1, <3>2
            <4> QED
                BY <1>5, <3>1, <3>2, <4>1, TeamFacts DEF AcceptedFits
        <3> QED
            BY <1>6, <3>1, <3>2, TeamFacts DEF AcceptedFits
    <2> QED
        BY <2>1, <2>2
<1>12. MembersInvited'
    <2> SUFFICES ASSUME NEW q \in Person \ {Owner}, member'[q] # None
                 PROVE  \E k \in DOMAIN invitation :
                            /\ k \in linked /\ invitation'[k].to = q
                            /\ invitation'[k].status \in {"ACCEPTED", "REVOKED"}
        BY <1>1, <1>5 DEF MembersInvited
    <2>1. CASE q = p
        BY <1>2, <1>3, <1>5, <2>1
    <2>2. CASE q # p
        <3>1. PICK k \in DOMAIN invitation :
                  /\ k \in linked /\ invitation[k].to = q
                  /\ invitation[k].status \in {"ACCEPTED", "REVOKED"}
            BY <1>6, <2>2, TeamFacts DEF MembersInvited
        <3>2. k # i
            BY <2>2, <3>1 DEF p
        <3> QED
            BY <1>5, <3>1, <3>2
    <2> QED
        BY <2>1, <2>2
<1>13. ASSUME NEW q \in Manager PROVE WorkFits(membership[q])'
    <2>1. CASE q = r
        BY <1>1, <2>1, TeamFacts DEF WorkFits, Team!Idle
    <2>2. CASE q # r
        <3> DEFINE w == membership[q]
        <3>1. membership'[q] = w /\ w \in Team!Work /\ WorkFits(w)
            BY <1>1, <2>2, TeamFacts
        <3> HIDE DEF w
        <3>2. \A k : Team!Pending(k)' \subseteq Team!Pending(k)
            BY <1>5, <1>9 DEF Team!Pending
        <3>3. w.does \in {"role", "remove"} => w.who \in Person
            BY <3>1, WorkTypes
        <3>4. w.does \in {"role", "remove"} => w.who # Owner /\ member'[w.who] # None
            BY <1>4, <1>6, <3>1, <3>3 DEF WorkFits
        <3> QED
            BY <1>1, <1>5, <1>9, <3>1, <3>2, <3>4 DEF WorkFits
    <2> QED
        BY <2>1, <2>2
<1> QED
    BY <1>7, <1>8, <1>10, <1>11, <1>12, <1>13 DEF TeamInv

\* A request begins with what it reads.
LEMMA BeginKeeps ==
    ASSUME TeamInv, NEW r \in Manager, NEW w \in Team!Work, WorkFits(w), Team!Begin(r, w)
    PROVE  TeamInv'
<1>1. /\ membership' = [membership EXCEPT ![r] = w]
      /\ UNCHANGED <<accounts, member, invitation, linked, overlapped>>
    BY DEF Team!Begin
<1>2. linked \subseteq linked' /\ linked' \subseteq Nat
    BY <1>1, TeamFacts
<1> QED
    BY <1>1, <1>2, WorkGoesOn

LEMMA ReadKeeps ==
    ASSUME TeamInv, NEW r \in Manager,
           \/ \E p \in Invitee, given \in Team!Given : Team!RevokePending(r, p, given)
           \/ \E p \in Person, given \in Team!Given : Team!ReadForRole(r, p, given)
           \/ \E p \in Person : Team!ReadForRemove(r, p)
           \/ \E i \in DOMAIN invitation : Team!ReadForRevoke(r, i) \/ Team!ReadForAccept(r, i)
    PROVE  TeamInv'
<1>1. ASSUME NEW p \in Invitee, NEW given \in Team!Given, Team!RevokePending(r, p, given)
      PROVE  TeamInv'
    <2> DEFINE w == [does |-> "revoking", who |-> p, role |-> given, revokes |-> Team!Pending(p)]
    <2>1. Team!Begin(r, w)
        BY <1>1 DEF Team!RevokePending
    <2>2. Team!Pending(p) \in SUBSET Nat /\ p \in Person
        BY TeamFacts, TeamAssumption DEF Team!Pending
    <2>3. w \in Team!Work
        BY <2>2 DEF Team!Work
    <2>4. WorkFits(w)
        BY DEF WorkFits, Team!Pending
    <2> HIDE DEF w
    <2> QED
        BY <2>1, <2>3, <2>4, BeginKeeps
<1>2. ASSUME NEW p \in Person, p \in Team!Active, ~Team!Protected(p, None) \/
                 \E given \in Team!Given : ~Team!Protected(p, given)
      PROVE  p # Owner /\ member[p] # None /\ member[p].role \in Team!Role
    <2>1. member[p].role # "OWNER" /\ member[p] # None
        BY <1>2 DEF Team!Protected, Team!Active
    <2>2. member[p] \in Team!Member
        BY <2>1, TeamFacts
    <2> QED
        BY <2>1, <2>2, TeamFacts DEF OwnerStays, Team!Member
<1>3. ASSUME NEW p \in Person, NEW given \in Team!Given, Team!ReadForRole(r, p, given)
      PROVE  TeamInv'
    <2> DEFINE w == [does |-> "role", who |-> p, was |-> member[p].role, role |-> given]
    <2>1. Team!Begin(r, w) /\ p # Owner /\ member[p] # None /\ member[p].role \in Team!Role
        BY <1>2, <1>3 DEF Team!ReadForRole
    <2>2. w \in Team!Work
        BY <2>1 DEF Team!Work
    <2>3. WorkFits(w)
        BY <2>1 DEF WorkFits
    <2> HIDE DEF w
    <2> QED
        BY <2>1, <2>2, <2>3, BeginKeeps
<1>4. ASSUME NEW p \in Person, Team!ReadForRemove(r, p)
      PROVE  TeamInv'
    <2> DEFINE w == [does |-> "remove", who |-> p]
    <2>1. Team!Begin(r, w) /\ p # Owner /\ member[p] # None
        BY <1>2, <1>4 DEF Team!ReadForRemove
    <2>2. w \in Team!Work
        BY DEF Team!Work
    <2>3. WorkFits(w)
        BY <2>1 DEF WorkFits
    <2> HIDE DEF w
    <2> QED
        BY <2>1, <2>2, <2>3, BeginKeeps
<1>5. ASSUME NEW i \in DOMAIN invitation, Team!ReadForRevoke(r, i)
      PROVE  TeamInv'
    <2> DEFINE w == [does |-> "revoke", inv |-> i]
    <2>1. Team!Begin(r, w) /\ i \in Nat
        BY <1>5, TeamFacts DEF Team!ReadForRevoke
    <2>2. w \in Team!Work
        BY <2>1 DEF Team!Work
    <2>3. WorkFits(w)
        BY DEF WorkFits
    <2> HIDE DEF w
    <2> QED
        BY <2>1, <2>2, <2>3, BeginKeeps
<1>6. ASSUME NEW i \in DOMAIN invitation, Team!ReadForAccept(r, i)
      PROVE  TeamInv'
    <2> DEFINE known == invitation[i].to \in accounts
               w == [does |-> "accept", inv |-> i, known |-> known]
    <2>1. Team!Begin(r, w) /\ i \in Nat /\ i \in linked
        BY <1>6, TeamFacts DEF Team!ReadForAccept
    <2>2. w \in Team!Work
        <3>1. known \in BOOLEAN
            OBVIOUS
        <3> HIDE DEF known
        <3> QED
            BY <2>1, <3>1 DEF Team!Work
    <2>3. WorkFits(w)
        BY <2>1 DEF WorkFits
    <2> HIDE DEF w
    <2> QED
        BY <2>1, <2>2, <2>3, BeginKeeps
<1> QED
    BY <1>1, <1>3, <1>4, <1>5, <1>6

\* An invitation expires, or is revoked.
LEMMA CloseKeeps ==
    ASSUME TeamInv,
           \/ \E i \in DOMAIN invitation : Team!Expire(i)
           \/ \E r \in Manager : Team!RevokeInvitation(r)
    PROVE  TeamInv'
<1>1. ASSUME NEW i \in DOMAIN invitation, Team!Expire(i)
      PROVE  TeamInv'
    <2> DEFINE old == invitation[i]
               row == [old EXCEPT !.expired = TRUE]
    <2>1. /\ old \in Team!Invitation /\ old.status = "PENDING"
          /\ UNCHANGED <<accounts, member, linked, membership, overlapped>>
        BY <1>1, TeamFacts DEF Team!Expire, Team!Valid
    <2>2. invitation' = [invitation EXCEPT ![i] = row]
        BY <1>1, TeamFacts DEF Team!Expire
    <2>3. row \in Team!Invitation /\ row.to = old.to /\ row.status = "PENDING" /\ row.expired
        <3> HIDE DEF old
        <3> QED
            BY <2>1 DEF Team!Invitation
    <2>4. membership' \in [Manager -> Team!Work]
          /\ \A r \in Manager : membership'[r] \in {membership[r], Team!Idle}
        BY <2>1, TeamFacts
    <2> HIDE DEF row
    <2> QED
        BY <2>1, <2>2, <2>3, <2>4, LinkCloses
<1>2. ASSUME NEW r \in Manager, Team!RevokeInvitation(r)
      PROVE  TeamInv'
    <2> DEFINE i == membership[r].inv
               old == invitation[i]
               row == [old EXCEPT !.status = "REVOKED"]
    <2>1. /\ i \in DOMAIN invitation /\ old \in Team!Invitation
          /\ membership' = [membership EXCEPT ![r] = Team!Idle]
          /\ UNCHANGED <<accounts, member, linked, overlapped>>
        BY <1>2, TeamFacts DEF Team!RevokeInvitation, Team!End, WorkFits
    <2>2. invitation' = [invitation EXCEPT ![i] = row]
        BY <1>2, <2>1, TeamFacts DEF Team!RevokeInvitation
    <2>3. row \in Team!Invitation /\ row.to = old.to /\ row.status = "REVOKED"
        <3> HIDE DEF old
        <3> QED
            BY <2>1 DEF Team!Invitation
    <2>4. membership' \in [Manager -> Team!Work]
          /\ \A q \in Manager : membership'[q] \in {membership[q], Team!Idle}
        BY <2>1, TeamFacts, NoWorkFits
    <2> HIDE DEF row, i
    <2> QED
        BY <2>1, <2>2, <2>3, <2>4, LinkCloses
<1> QED
    BY <1>1, <1>2

\* A member is given another role, or removed.
LEMMA StaffKeeps ==
    ASSUME TeamInv, NEW r \in Manager, Team!ChangeRole(r) \/ Team!Remove(r)
    PROVE  TeamInv'
<1> DEFINE j == membership[r]
           p == j.who
           old == member[p]
<1>1. /\ j.does \in {"role", "remove"} /\ j \in Team!Work /\ WorkFits(j)
      /\ membership' = [membership EXCEPT ![r] = Team!Idle]
      /\ UNCHANGED <<accounts, invitation, linked, overlapped>>
    BY TeamFacts DEF Team!ChangeRole, Team!Remove, Team!End
<1>2. p \in Person \ {Owner} /\ old # None
    <2> HIDE DEF j
    <2> QED
        BY <1>1, WorkTypes DEF WorkFits
<1>3. old \in Team!Member /\ old.role # "OWNER"
    BY <1>2, TeamFacts DEF OwnerStays
<1>4. CASE Team!ChangeRole(r) /\ j.role # j.was
    <2> DEFINE row == [old EXCEPT !.role = j.role]
    <2>1. j.role \in Team!Given
        <3>1. j.does = "role"
            BY <1>4 DEF Team!ChangeRole
        <3> HIDE DEF j
        <3> QED
            BY <1>1, <3>1, WorkTypes
    <2>2. member' = [member EXCEPT ![p] = row]
        BY <1>2, <1>4, TeamFacts DEF Team!ChangeRole
    <2>3. row \in Team!Member /\ row.role # "OWNER"
        <3> HIDE DEF old, j
        <3> QED
            BY <1>3, <2>1 DEF Team!Member, Team!Given
    <2> HIDE DEF row, p
    <2> QED
        BY <1>1, <1>2, <2>2, <2>3, MemberChanges
<1>5. CASE Team!ChangeRole(r) /\ j.role = j.was
    <2>1. member' = member /\ linked \subseteq linked' /\ linked' \subseteq Nat
        BY <1>1, <1>5, TeamFacts DEF Team!ChangeRole
    <2> QED
        BY <1>1, <2>1, NoWorkFits, WorkGoesOn
<1>6. CASE Team!Remove(r)
    <2> DEFINE row == [old EXCEPT !.deleted = TRUE]
    <2>1. member' = [member EXCEPT ![p] = row]
        BY <1>2, <1>6, TeamFacts DEF Team!Remove
    <2>2. row \in Team!Member /\ row.role # "OWNER"
        <3> HIDE DEF old
        <3> QED
            BY <1>3 DEF Team!Member
    <2> HIDE DEF row, p
    <2> QED
        BY <1>1, <1>2, <2>1, <2>2, MemberChanges
<1> QED
    BY <1>4, <1>5, <1>6

\* The UPDATE of an invitation has its rows (revoke_pending_for_email).
LEMMA RevokeKeeps ==
    ASSUME TeamInv, NEW r \in Manager, Team!RevokeSeen(r)
    PROVE  TeamInv'
<1> DEFINE j == membership[r]
           rows == j.revokes \cap Team!Pending(j.who)
           w == [does |-> "invite", who |-> j.who, role |-> j.role, revokes |-> rows]
<1>1. j.does = "revoking" /\ UNCHANGED <<accounts, member, invitation, linked, overlapped>>
    BY DEF Team!RevokeSeen
<1>2. membership' = [membership EXCEPT ![r] = w]
    BY DEF Team!RevokeSeen, Team!Revoked
<1>3. j \in [does: {"revoking", "invite"}, who: Person, role: Team!Given, revokes: SUBSET Nat]
    BY <1>1, TeamFacts DEF Team!Work, Team!Idle
<1>4. WorkFits(j)
    BY TeamFacts
<1> HIDE DEF j
<1>5. /\ w \in [does: {"revoking", "invite"}, who: Person, role: Team!Given, revokes: SUBSET Nat]
      /\ w.does = "invite" /\ w.who = j.who /\ w.revokes = rows
    BY <1>3
<1>6. w \in Team!Work
    BY <1>5 DEF Team!Work
<1>7. WorkFits(w)
    BY <1>1, <1>4, <1>5 DEF WorkFits
<1>8. linked \subseteq linked' /\ linked' \subseteq Nat
    BY <1>1, TeamFacts
<1> HIDE DEF w
<1> QED
    BY <1>1, <1>2, <1>6, <1>7, <1>8, WorkGoesOn

LEMMA StepKeepsTeam == TeamInv /\ [Team!Next]_(Team!vars) => TeamInv'
<1> SUFFICES ASSUME TeamInv, [Team!Next]_(Team!vars) PROVE TeamInv'
    OBVIOUS
<1>1. CASE UNCHANGED Team!vars
    <2>1. \A p : Team!Pending(p)' = Team!Pending(p)
        BY <1>1 DEF Team!vars, Team!Pending, Team!Valid
    <2>2. \A r \in Manager : WorkFits(membership[r])'
        BY <1>1, <2>1, TeamFacts DEF Team!vars, WorkFits
    <2> QED
        BY <1>1, <2>2 DEF Team!vars, TeamInv, Team!TypeOK, OwnerStays, OneLink, AcceptedFits,
                          MembersInvited, Team!Valid
<1>2. ASSUME NEW p \in Person, Team!Register(p) PROVE TeamInv'
    <2>1. UNCHANGED <<member, linked, invitation, membership, overlapped>>
          /\ accounts' = accounts \cup {p}
        BY <1>2 DEF Team!Register
    <2>2. \A q : Team!Pending(q)' = Team!Pending(q)
        BY <2>1 DEF Team!Pending, Team!Valid
    <2>3. \A r \in Manager : WorkFits(membership[r])'
        BY <2>1, <2>2, TeamFacts DEF WorkFits
    <2> QED
        BY <2>1, <2>3 DEF TeamInv, Team!TypeOK, OwnerStays, OneLink, AcceptedFits,
                          MembersInvited, Team!Valid
<1>3. ASSUME NEW r \in Manager, Team!Deliver(r) PROVE TeamInv'
    <2>1. /\ membership' = [membership EXCEPT ![r] = Team!Idle]
          /\ linked' = linked \cup {membership[r].inv} /\ membership[r].does = "mail"
          /\ UNCHANGED <<accounts, member, invitation, overlapped>>
        BY <1>3 DEF Team!Deliver, Team!End
    <2>2. linked \subseteq linked' /\ linked' \subseteq Nat
        BY <2>1, TeamFacts, WorkTypes
    <2> QED
        BY <2>1, <2>2, NoWorkFits, WorkGoesOn
<1>4. ASSUME NEW r \in Manager, Team!Drop(r) PROVE TeamInv'
    <2>1. /\ membership' = [membership EXCEPT ![r] = Team!Idle]
          /\ UNCHANGED <<accounts, member, invitation, overlapped>>
          /\ linked \subseteq linked' /\ linked' \subseteq Nat
        BY <1>4, TeamFacts DEF Team!Drop, Team!End
    <2> QED
        BY <2>1, NoWorkFits, WorkGoesOn
<1> QED
    BY <1>1, <1>2, <1>3, <1>4, InviteKeeps, AcceptKeeps, ReadKeeps, CloseKeeps, StaffKeeps,
       RevokeKeeps
       DEF Team!Next

\* At most one thing, counted.
LEMMA AtMostOne ==
    ASSUME NEW S, \A x, y \in S : x = y
    PROVE  Team!Cardinality(S) <= 1
<1>1. Team!Cardinality(S) = Cardinality(S)
    BY DEF Team!Cardinality, Cardinality
<1>2. CASE S = {}
    <2>1. Cardinality(S) = 0
        BY <1>2, FS_EmptySet, Zenon
    <2> QED
        BY <1>1, <2>1
<1>3. CASE S # {}
    <2>1. PICK x \in S : TRUE
        BY <1>3
    <2>2. S = {x}
        BY <2>1
    <2>3. Cardinality(S) = 1
        BY <2>2, FS_Singleton, Zenon
    <2> QED
        BY <1>1, <2>3
<1> QED
    BY <1>2, <1>3

LEMMA TeamHolds == TeamInv => Team!MembersHold
<1> SUFFICES ASSUME TeamInv PROVE Team!MembersHold
    OBVIOUS
<1>1. Team!OneLinkOpens
    <2> SUFFICES ASSUME NEW p \in Person \ overlapped
                 PROVE  Team!Cardinality(Team!Pending(p)) <= 1
        BY DEF Team!OneLinkOpens
    <2>1. \A x, y \in Team!Pending(p) : x = y
        BY TeamFacts DEF OneLink, Team!Pending
    <2> QED
        BY <2>1, AtMostOne
<1>2. Team!AcceptedOnce
    <2> SUFFICES ASSUME NEW p \in Person
                 PROVE  /\ Team!Cardinality(Team!Accepted(p)) <= 1
                        /\ Team!Accepted(p) # {} => member[p] # None
                        /\ member[p] # None /\ member[p].role # "OWNER" =>
                              \/ Team!Accepted(p) # {}
                              \/ \E i \in linked :
                                    invitation[i].to = p /\ invitation[i].status = "REVOKED"
        BY DEF Team!AcceptedOnce
    <2>1. \A x, y \in Team!Accepted(p) : x = y
        BY TeamFacts DEF AcceptedFits, Team!Accepted
    <2>2. Team!Accepted(p) # {} => member[p] # None
        BY TeamFacts DEF AcceptedFits, Team!Accepted
    <2>3. ASSUME member[p] # None, member[p].role # "OWNER"
          PROVE  \/ Team!Accepted(p) # {}
                 \/ \E i \in linked : invitation[i].to = p /\ invitation[i].status = "REVOKED"
        <3>1. p # Owner
            BY <2>3, TeamFacts DEF OwnerStays
        <3>2. PICK i \in DOMAIN invitation :
                  /\ i \in linked /\ invitation[i].to = p
                  /\ invitation[i].status \in {"ACCEPTED", "REVOKED"}
            BY <2>3, <3>1, TeamFacts DEF MembersInvited
        <3> QED
            BY <3>2 DEF Team!Accepted
    <2>4. Team!Cardinality(Team!Accepted(p)) <= 1
        BY <2>1, AtMostOne
    <2> QED
        BY <2>2, <2>3, <2>4
<1> QED
    BY <1>1, <1>2 DEF Team!MembersHold

\* However many requests invite, accept, revoke, change and remove, an address has one link that
\* opens unless two invitations of it crossed, and an invitation makes a member once
\* (member_service.py, revoke_pending_for_email).
THEOREM MembersKept == Team!Spec => []Team!MembersHold
<1>1. Team!Init => TeamInv
    <2> SUFFICES ASSUME Team!Init PROVE TeamInv
        OBVIOUS
    <2>1. /\ member = [p \in Person |-> IF p = Owner THEN [role |-> "OWNER", deleted |-> FALSE]
                                       ELSE None]
          /\ accounts = {Owner} /\ invitation = <<>> /\ linked = {} /\ overlapped = {}
          /\ membership = [r \in Manager |-> Team!Idle]
        BY DEF Team!Init
    <2>2. [role |-> "OWNER", deleted |-> FALSE] \in Team!Member /\ Owner \in Person
        BY TeamAssumption DEF Team!Member, Team!Role
    <2>3. Team!TypeOK
        <3>1. <<>> \in Seq(Team!Invitation) /\ Len(<<>>) = 0 /\ 0 <= MaxInvites
            BY TeamAssumption
        <3> QED
            BY <2>1, <2>2, <3>1, NoWorkFits DEF Team!TypeOK
    <2>4. DOMAIN invitation = {}
        BY <2>1
    <2>5. OwnerStays /\ MembersInvited
        BY <2>1, <2>2 DEF OwnerStays, MembersInvited
    <2>6. OneLink /\ AcceptedFits
        BY <2>4 DEF OneLink, AcceptedFits
    <2> QED
        BY <2>1, <2>3, <2>5, <2>6, NoWorkFits DEF TeamInv
<1> QED
    BY <1>1, StepKeepsTeam, TeamHolds, PTL DEF Team!Spec

-----------------------------------------------------------------------------
(* Logins, tokens and the roles that they are admitted with (Access).       *)

\* What a login has read is not more than was counted, and is the row when no logins crossed.
LoginFits(l) ==
    logins[l].does # "nothing" =>
        /\ logins[l].read.failures <= wrongs.all
        /\ aside => /\ logins[l].read = account
                    /\ \A k \in SignIn \ {l} : logins[k].does = "nothing"

\* A token whose revocation has ended is refused there for its life.
Refused ==
    \A s \in revocations :
        /\ s[1][1] \in DOMAIN pairs
        /\ refusals[s[2]][s[1]] >= Entrance!Expiry(s[1])

\* Who is admitted was not to be refused, and has had the role since.
ShownFits(j) ==
    j # Entrance!Idle =>
        /\ ~j.due /\ role \in j.since /\ j.token[1] \in DOMAIN pairs
        /\ j.stage = "admitted" => j.role \in j.since \ {None}

LoginHalf ==
    /\ moment \in 0..LastMoment /\ account \in Entrance!Account
    /\ logins \in [SignIn -> Entrance!Attempt] /\ aside \in BOOLEAN
    /\ wrongs \in [all: 0..MaxWrong, since: 0..MaxWrong] /\ wrongs.since <= wrongs.all
    /\ Entrance!LockTells /\ \A l \in SignIn : LoginFits(l)

TokenHalf ==
    /\ role \in Entrance!Role /\ pairs \in Seq(Nat) /\ Len(pairs) <= Pairs
    /\ refusals \in [Entrance!Place -> [Entrance!Token -> Nat]]
    /\ redisUp \in BOOLEAN /\ client \in [Process -> {"untried", "open", "disabled"}]
    /\ presented \in [Visitor -> Entrance!Shown \cup {Entrance!Idle}]
    /\ revocations \subseteq Entrance!Token \X Entrance!Place
    /\ Refused /\ \A r \in Visitor : ShownFits(presented[r])

EntranceInv == LoginHalf /\ TokenHalf

LEMMA AttemptTypes ==
    ASSUME NEW j \in Entrance!Attempt
    PROVE  /\ j.does \in {"nothing", "succeed", "fail"}
           /\ j.does # "nothing" => j.read \in Entrance!Account
           /\ j = Entrance!Idle <=> j.does = "nothing"
BY DEF Entrance!Attempt, Entrance!Idle

LEMMA AccountTypes ==
    ASSUME NEW a \in Entrance!Account
    PROVE  a.failures \in Nat /\ a.lockedUntil \in Nat
BY DEF Entrance!Account

LEMMA ShownTypes ==
    ASSUME NEW j \in Entrance!Shown
    PROVE  /\ j # Entrance!Idle /\ j.at \in Process /\ j.token \in Entrance!Token
           /\ j.due \in BOOLEAN /\ j.since \subseteq Entrance!Role
           /\ j.stage \in {"checked", "admitted"} /\ j.role \in Entrance!Role
BY DEF Entrance!Shown, Entrance!Idle

LEMMA LockFacts ==
    ASSUME LoginHalf
    PROVE  /\ moment \in Nat /\ account \in Entrance!Account
           /\ account.failures \in Nat /\ account.lockedUntil \in Nat
           /\ wrongs.all \in Nat /\ wrongs.since \in Nat /\ wrongs.since <= wrongs.all
           /\ account.failures <= wrongs.all
           /\ account.lockedUntil # 0 => wrongs.all >= WrongAllowed
           /\ aside => account.failures = wrongs.since
                       /\ (wrongs.since < WrongAllowed => account.lockedUntil = 0)
           /\ \A l \in SignIn : logins[l] \in Entrance!Attempt /\ LoginFits(l)
BY EntranceAssumption, AccountTypes DEF LoginHalf, Entrance!LockTells

\* A login reads the account (login).
LEMMA LoginBegins ==
    ASSUME LoginHalf, NEW l \in SignIn, NEW right \in BOOLEAN, Entrance!ReadAccount(l, right)
    PROVE  LoginHalf'
<1> DEFINE j == [does |-> IF right THEN "succeed" ELSE "fail", read |-> account]
<1>1. /\ logins[l] = Entrance!Idle /\ logins' = [logins EXCEPT ![l] = j]
      /\ aside' = (aside /\ \A k \in SignIn : logins[k] = Entrance!Idle)
      /\ UNCHANGED <<moment, account, wrongs>>
    BY DEF Entrance!ReadAccount
<1>2. j \in Entrance!Attempt /\ j.read = account /\ j.does # "nothing"
    BY LockFacts DEF Entrance!Attempt
<1> HIDE DEF j
<1>3. logins'[l] = j /\ \A k \in SignIn \ {l} : logins'[k] = logins[k]
    BY <1>1 DEF LoginHalf
<1>4. \A k \in SignIn : logins[k] = Entrance!Idle => logins[k].does = "nothing"
    BY LockFacts, AttemptTypes
<1>5. ASSUME NEW k \in SignIn PROVE LoginFits(k)'
    <2>1. CASE k = l
        BY <1>1, <1>2, <1>3, <1>4, <2>1, LockFacts DEF LoginFits
    <2>2. CASE k # l
        <3>1. aside' => logins'[k].does = "nothing"
            BY <1>1, <1>3, <1>4, <2>2
        <3>2. logins'[k] = logins[k] /\ LoginFits(k)
            BY <1>3, <2>2, LockFacts
        <3> QED
            BY <1>1, <3>1, <3>2 DEF LoginFits
    <2> QED
        BY <2>1, <2>2
<1>6. aside' \in BOOLEAN /\ (aside' => aside)
    BY <1>1
<1>7. Entrance!LockTells'
    BY <1>1, <1>6, LockFacts DEF Entrance!LockTells
<1>8. logins' \in [SignIn -> Entrance!Attempt]
    BY <1>1, <1>2 DEF LoginHalf
<1> QED
    BY <1>1, <1>5, <1>6, <1>7, <1>8 DEF LoginHalf

\* A login ends, and writes the columns that it has changed (record_login_*).
LEMMA LoginEnds ==
    ASSUME LoginHalf, NEW l \in SignIn, Entrance!FailLogin(l) \/ Entrance!Succeed(l)
    PROVE  LoginHalf'
<1> DEFINE read == logins[l].read
<1>1. /\ logins[l].does \in {"fail", "succeed"} /\ logins' = [logins EXCEPT ![l] = Entrance!Idle]
      /\ UNCHANGED <<moment, aside>>
    BY DEF Entrance!FailLogin, Entrance!Succeed
<1>2. /\ read \in Entrance!Account /\ read.failures \in Nat /\ read.lockedUntil \in Nat
      /\ read.failures <= wrongs.all
      /\ aside => read = account /\ \A k \in SignIn \ {l} : logins[k].does = "nothing"
    BY <1>1, LockFacts, AttemptTypes, AccountTypes DEF LoginFits
<1> HIDE DEF read
<1>3. logins' \in [SignIn -> Entrance!Attempt] /\ logins'[l] = Entrance!Idle
      /\ \A k \in SignIn \ {l} : logins'[k] = logins[k]
    BY <1>1 DEF LoginHalf, Entrance!Attempt
<1>4. Entrance!Idle.does = "nothing"
    BY DEF Entrance!Idle
<1>5. ASSUME wrongs'.all >= wrongs.all, NEW k \in SignIn PROVE LoginFits(k)'
    <2>1. CASE k = l
        BY <1>3, <1>4, <2>1 DEF LoginFits
    <2>2. CASE k # l
        <3>1. logins'[k] = logins[k] /\ LoginFits(k) /\ (aside => logins[k].does = "nothing")
            BY <1>2, <1>3, <2>2, LockFacts
        <3>2. logins[k].does # "nothing" => logins[k].read.failures \in Nat
            BY LockFacts, AttemptTypes, AccountTypes
        <3>4. wrongs'.all \in Int
            BY LockFacts, EntranceAssumption DEF Entrance!FailLogin, Entrance!Succeed, LoginHalf
        <3> QED
            BY <1>1, <1>5, <3>1, <3>2, <3>4, LockFacts DEF LoginFits
    <2> QED
        BY <2>1, <2>2
<1>6. CASE Entrance!FailLogin(l)
    <2> DEFINE n == read.failures + 1
               until == IF n >= WrongAllowed THEN moment + LockTime ELSE account.lockedUntil
    <2>1. /\ account' = [failures |-> n, lockedUntil |-> until]
          /\ wrongs' = [all |-> wrongs.all + 1, since |-> wrongs.since + 1]
          /\ wrongs.all < MaxWrong
        BY <1>6 DEF Entrance!FailLogin, Entrance!Counted, read
    <2>2. n \in Nat /\ until \in Nat
        BY <1>2, LockFacts, EntranceAssumption
    <2>3. /\ account'.failures = n /\ account'.lockedUntil = until
          /\ account' \in Entrance!Account
        <3> HIDE DEF n, until
        <3> QED
            BY <2>1, <2>2 DEF Entrance!Account
    <2>4. /\ wrongs'.all = wrongs.all + 1 /\ wrongs'.since = wrongs.since + 1
          /\ wrongs' \in [all: 0..MaxWrong, since: 0..MaxWrong] /\ wrongs'.since <= wrongs'.all
        BY <2>1, LockFacts, EntranceAssumption
    <2>5. Entrance!LockTells'
        BY <1>1, <1>2, <2>3, <2>4, LockFacts, EntranceAssumption DEF Entrance!LockTells
    <2>6. wrongs'.all >= wrongs.all
        BY <2>4, LockFacts
    <2> QED
        BY <1>1, <1>3, <1>5, <2>3, <2>4, <2>5, <2>6 DEF LoginHalf
<1>7. CASE Entrance!Succeed(l)
    <2> DEFINE n == IF read.failures = 0 THEN account.failures ELSE 0
               until == IF read.lockedUntil = 0 THEN account.lockedUntil ELSE 0
    <2>1. /\ account' = [failures |-> n, lockedUntil |-> until]
          /\ wrongs' = [wrongs EXCEPT !.since = 0]
        BY <1>7 DEF Entrance!Succeed, Entrance!Cleared, read
    <2>2. n \in Nat /\ until \in Nat
        BY LockFacts
    <2>3. /\ account'.failures = n /\ account'.lockedUntil = until
          /\ account' \in Entrance!Account
        <3> HIDE DEF n, until
        <3> QED
            BY <2>1, <2>2 DEF Entrance!Account
    <2>4. /\ wrongs'.all = wrongs.all /\ wrongs'.since = 0
          /\ wrongs' \in [all: 0..MaxWrong, since: 0..MaxWrong] /\ wrongs'.since <= wrongs'.all
        BY <2>1, LockFacts, EntranceAssumption DEF LoginHalf
    <2>5. Entrance!LockTells'
        BY <1>1, <1>2, <2>3, <2>4, LockFacts, EntranceAssumption DEF Entrance!LockTells
    <2>6. wrongs'.all >= wrongs.all
        BY <2>4, LockFacts
    <2> QED
        BY <1>1, <1>3, <1>5, <2>3, <2>4, <2>5, <2>6 DEF LoginHalf
<1> QED
    BY <1>6, <1>7

\* Pairs of tokens are only added.
LEMMA PairsGrow ==
    ASSUME pairs \in Seq(Nat), Len(pairs) <= Pairs, moment \in Nat,
           pairs' \in {pairs, Append(pairs, moment)}, Len(pairs) < Pairs \/ pairs' = pairs
    PROVE  /\ pairs' \in Seq(Nat) /\ Len(pairs') <= Pairs
           /\ \A n \in DOMAIN pairs : n \in DOMAIN pairs' /\ pairs'[n] = pairs[n]
<1>1. CASE pairs' = pairs
    BY <1>1
<1>2. CASE pairs' = Append(pairs, moment) /\ Len(pairs) < Pairs
    BY <1>2, EntranceAssumption
<1> QED
    BY <1>1, <1>2

\* The other half of a step of the logins: at most another pair of tokens.
LEMMA TokensRest ==
    ASSUME TokenHalf, LoginHalf, pairs' \in {pairs, Append(pairs, moment)},
           Len(pairs) < Pairs \/ pairs' = pairs,
           UNCHANGED <<role, refusals, redisUp, client, presented, revocations>>
    PROVE  TokenHalf'
<1>1. /\ pairs' \in Seq(Nat) /\ Len(pairs') <= Pairs
      /\ \A n \in DOMAIN pairs : n \in DOMAIN pairs' /\ pairs'[n] = pairs[n]
    BY PairsGrow, LockFacts DEF TokenHalf
<1>2. Refused'
    BY <1>1 DEF TokenHalf, Refused, Entrance!Expiry
<1>3. \A r \in Visitor : ShownFits(presented[r])'
    BY <1>1 DEF TokenHalf, ShownFits
<1> QED
    BY <1>1, <1>2, <1>3 DEF TokenHalf

LEMMA LoginsRest ==
    ASSUME LoginHalf, UNCHANGED <<moment, account, logins, wrongs, aside>>
    PROVE  LoginHalf'
<1>1. \A l \in SignIn : LoginFits(l)'
    BY DEF LoginHalf, LoginFits
<1> QED
    BY <1>1 DEF LoginHalf, Entrance!LockTells

\* Time goes on, and revoked tokens stay refused: what is kept is when.
LEMMA TickKeepsHalves ==
    ASSUME EntranceInv, Entrance!Tick
    PROVE  EntranceInv'
<1>1. /\ moment' = moment + 1 /\ moment < LastMoment
      /\ UNCHANGED <<account, role, pairs, refusals, redisUp, client, logins, presented, wrongs,
                     aside, revocations>>
    BY DEF Entrance!Tick, Entrance!tokens
<1>2. moment' \in 0..LastMoment
    BY <1>1, EntranceAssumption DEF EntranceInv, LoginHalf
<1>3. \A l \in SignIn : LoginFits(l)'
    BY <1>1 DEF EntranceInv, LoginHalf, LoginFits
<1>4. LoginHalf'
    BY <1>1, <1>2, <1>3 DEF EntranceInv, LoginHalf, Entrance!LockTells
<1>5. TokenHalf'
    BY <1>1, TokensRest DEF EntranceInv
<1> QED
    BY <1>4, <1>5 DEF EntranceInv

\* remaining_ttl_seconds: at least a second, and to the end of the token's life.
LEMMA MaxOfTwo ==
    ASSUME NEW x \in Int
    PROVE  LET m == Entrance!Max({1, x}) IN m \in Nat /\ m >= x
<1> DEFINE S == {1, x}
           Fits(m) == m \in S /\ \A y \in S : m >= y
<1>1. \E m : Fits(m)
    <2>1. CASE x >= 1
        BY <2>1
    <2>2. CASE ~(x >= 1)
        BY <2>2
    <2> QED
        BY <2>1, <2>2
<1>2. Entrance!Max(S) = CHOOSE m \in S : \A y \in S : m >= y
    BY DEF Entrance!Max
<1>3. Fits(Entrance!Max(S))
    BY <1>1, <1>2
<1> QED
    BY <1>3

\* Until when a token lives.
LEMMA ExpiryTypes ==
    ASSUME TokenHalf, NEW t \in Entrance!Token, t[1] \in DOMAIN pairs
    PROVE  Entrance!Expiry(t) \in Nat
<1>1. pairs[t[1]] \in Nat
    BY DEF TokenHalf
<1>2. t[2] \in {"access", "refresh"}
    BY DEF Entrance!Token, Entrance!Kind
<1>3. Life[t[2]] \in Nat
    BY <1>2, EntranceAssumption DEF Entrance!Kind
<1> QED
    BY <1>1, <1>3 DEF Entrance!Expiry

\* revoke_payload: the tokens are refused to their ends wherever the revocation was told.
LEMMA RevokedHolds ==
    ASSUME EntranceInv, NEW w \in Process, NEW ts \in SUBSET Entrance!Token,
           \A t \in ts : t[1] \in DOMAIN pairs,
           refusals' = Entrance!Revoked(w, ts),
           revocations' = revocations \cup Entrance!Ended(w, ts),
           pairs' \in {pairs, Append(pairs, moment)}, Len(pairs) < Pairs \/ pairs' = pairs
    PROVE  /\ refusals' \in [Entrance!Place -> [Entrance!Token -> Nat]]
           /\ revocations' \subseteq Entrance!Token \X Entrance!Place
           /\ pairs' \in Seq(Nat) /\ Len(pairs') <= Pairs
           /\ \A n \in DOMAIN pairs : n \in DOMAIN pairs' /\ pairs'[n] = pairs[n]
           /\ Refused'
<1> DEFINE told == {w} \cup (IF Entrance!Answers(w) THEN {"redis"} ELSE {})
<1>1. TokenHalf /\ moment \in Nat
    BY LockFacts DEF EntranceInv
<1>2. /\ pairs' \in Seq(Nat) /\ Len(pairs') <= Pairs
      /\ \A n \in DOMAIN pairs : n \in DOMAIN pairs' /\ pairs'[n] = pairs[n]
    BY <1>1, PairsGrow DEF TokenHalf
<1>3. told \subseteq Entrance!Place /\ Entrance!Ended(w, ts) = ts \X told
    BY DEF Entrance!Ended, Entrance!Place
<1>4. \A p \in Entrance!Place, t \in Entrance!Token : refusals[p][t] \in Nat
    BY <1>1 DEF TokenHalf
<1>5. ASSUME NEW t \in ts
      PROVE  /\ moment + Entrance!RemainingTtl(t) \in Nat
             /\ moment + Entrance!RemainingTtl(t) >= Entrance!Expiry(t)
    <2> DEFINE left == Entrance!Expiry(t) - moment
    <2>1. Entrance!Expiry(t) \in Nat
        BY <1>1, <1>5, ExpiryTypes
    <2>2. left \in Int
        BY <1>1, <2>1
    <2> HIDE DEF left
    <2>3. Entrance!Max({1, left}) \in Nat /\ Entrance!Max({1, left}) >= left
        BY <2>2, MaxOfTwo
    <2>4. Entrance!RemainingTtl(t) = Entrance!Max({1, left})
        BY DEF Entrance!RemainingTtl, left
    <2> QED
        BY <1>1, <2>1, <2>3, <2>4 DEF left
<1> DEFINE Now(p, t) == IF t \in ts /\ (p = w \/ (p = "redis" /\ Entrance!Answers(w)))
                        THEN moment + Entrance!RemainingTtl(t) ELSE refusals[p][t]
<1>6. refusals' = [p \in Entrance!Place |-> [t \in Entrance!Token |-> Now(p, t)]]
    BY DEF Entrance!Revoked
<1>7. \A p \in Entrance!Place, t \in Entrance!Token : Now(p, t) \in Nat
    BY <1>4, <1>5
<1>8. \A t \in ts, p \in told : Now(p, t) >= Entrance!Expiry(t)
    BY <1>5
<1>9. \A t \in Entrance!Token, p \in Entrance!Place :
          t \notin ts \/ p \notin told => Now(p, t) = refusals[p][t]
    OBVIOUS
<1> HIDE DEF Now, told
<1>10. refusals' \in [Entrance!Place -> [Entrance!Token -> Nat]]
    BY <1>6, <1>7
<1>11. revocations' \subseteq Entrance!Token \X Entrance!Place
    BY <1>1, <1>3 DEF TokenHalf
<1>12. ASSUME NEW s \in revocations'
       PROVE  s[1][1] \in DOMAIN pairs' /\ refusals'[s[2]][s[1]] >= Entrance!Expiry(s[1])'
    <2>1. s[1] \in Entrance!Token /\ s[2] \in Entrance!Place
        BY <1>11, <1>12
    <2>2. refusals'[s[2]][s[1]] = Now(s[2], s[1])
        BY <1>6, <2>1
    <2>3. s \in revocations \/ (s[1] \in ts /\ s[2] \in told)
        BY <1>3, <1>12
    <2>4. s[1][1] \in DOMAIN pairs
        BY <1>1, <2>3 DEF TokenHalf, Refused
    <2>5. s[1][1] \in DOMAIN pairs' /\ Entrance!Expiry(s[1])' = Entrance!Expiry(s[1])
        BY <1>2, <2>4 DEF Entrance!Expiry
    <2>6. CASE s[1] \in ts /\ s[2] \in told
        BY <1>8, <2>2, <2>5, <2>6
    <2>7. CASE ~(s[1] \in ts /\ s[2] \in told)
        <3>1. s \in revocations /\ Now(s[2], s[1]) = refusals[s[2]][s[1]]
            BY <1>9, <2>1, <2>3, <2>7
        <3> QED
            BY <1>1, <2>2, <2>5, <3>1 DEF TokenHalf, Refused
    <2> QED
        BY <2>6, <2>7
<1>13. Refused'
    BY <1>12 DEF Refused
<1> QED
    BY <1>2, <1>10, <1>11, <1>13

\* Who is told of what a request has shown: the rest stays.
LEMMA ShownRest ==
    ASSUME TokenHalf, NEW r \in Visitor, NEW j \in Entrance!Shown \cup {Entrance!Idle},
           presented' = [presented EXCEPT ![r] = j],
           ShownFits(j),
           UNCHANGED role,
           \A n \in DOMAIN pairs : n \in DOMAIN pairs'
    PROVE  /\ presented' \in [Visitor -> Entrance!Shown \cup {Entrance!Idle}]
           /\ \A k \in Visitor : ShownFits(presented[k])'
<1>1. presented' \in [Visitor -> Entrance!Shown \cup {Entrance!Idle}]
    BY DEF TokenHalf
<1>2. ASSUME NEW k \in Visitor PROVE ShownFits(presented'[k])
    BY DEF TokenHalf
<1>3. ASSUME NEW k \in Visitor PROVE ShownFits(presented[k])'
    BY <1>2, <1>3 DEF ShownFits
<1> QED
    BY <1>1, <1>3

\* A token is shown, and refused or let in (assert_token_not_revoked).
LEMMA ShowKeeps ==
    ASSUME EntranceInv, NEW r \in Visitor, NEW w \in Process,
           NEW does \in {"call", "refresh", "logout"}, NEW t \in Entrance!Token,
           Entrance!Show(r, w, does, t)
    PROVE  EntranceInv'
<1> DEFINE j == [does |-> does, at |-> w, token |-> t, due |-> Entrance!Due(w, t),
                 since |-> {role}, stage |-> "checked", role |-> None]
<1>1. /\ Entrance!Lives(t) /\ client' = [client EXCEPT ![w] = Entrance!Linked(w)]
      /\ presented' = IF Entrance!RefusedAt(w, t) THEN presented
                      ELSE [presented EXCEPT ![r] = j]
      /\ UNCHANGED <<moment, account, logins, wrongs, aside>>
      /\ UNCHANGED <<role, pairs, refusals, redisUp, revocations>>
    BY DEF Entrance!Show, Entrance!entry
<1>2. TokenHalf /\ LoginHalf /\ moment \in Nat
    BY LockFacts DEF EntranceInv
<1>3. t[1] \in DOMAIN pairs /\ moment < Entrance!Expiry(t) /\ Entrance!Expiry(t) \in Nat
    BY <1>1, <1>2, ExpiryTypes DEF Entrance!Lives
<1>4. Entrance!Linked(w) \in {"untried", "open", "disabled"}
    BY <1>2 DEF TokenHalf, Entrance!Linked
<1>5. client' \in [Process -> {"untried", "open", "disabled"}]
    BY <1>1, <1>2, <1>4 DEF TokenHalf
<1>6. \A p \in Entrance!Place : <<t, p>> \in revocations => refusals[p][t] > moment
    <2> SUFFICES ASSUME NEW p \in Entrance!Place, <<t, p>> \in revocations
                 PROVE  refusals[p][t] > moment
        OBVIOUS
    <2>1. refusals[p][t] >= Entrance!Expiry(t) /\ refusals[p][t] \in Nat
        BY <1>2 DEF TokenHalf, Refused
    <2> QED
        BY <1>2, <1>3, <2>1
<1>7. ~Entrance!RefusedAt(w, t) => ~Entrance!Due(w, t)
    BY <1>6 DEF Entrance!RefusedAt, Entrance!Due, Entrance!Place
<1>8. Entrance!Due(w, t) \in BOOLEAN
    BY DEF Entrance!Due
<1>9. j \in Entrance!Shown /\ (~Entrance!RefusedAt(w, t) => ShownFits(j))
    <2>1. role \in Entrance!Role /\ None \in Entrance!Role
        BY <1>2 DEF TokenHalf, Entrance!Role
    <2>2. j \in Entrance!Shown
        BY <1>8, <2>1 DEF Entrance!Shown
    <2> QED
        BY <1>3, <1>7, <2>2 DEF ShownFits
<1> HIDE DEF j
<1>10. /\ presented' \in [Visitor -> Entrance!Shown \cup {Entrance!Idle}]
       /\ \A k \in Visitor : ShownFits(presented[k])'
    <2>1. CASE Entrance!RefusedAt(w, t)
        BY <1>1, <1>2, <2>1 DEF TokenHalf, ShownFits
    <2>2. CASE ~Entrance!RefusedAt(w, t)
        BY <1>1, <1>2, <1>9, <2>2, ShownRest
    <2> QED
        BY <2>1, <2>2
<1>11. Refused'
    BY <1>1, <1>2 DEF TokenHalf, Refused, Entrance!Expiry
<1>12. TokenHalf'
    BY <1>1, <1>2, <1>5, <1>10, <1>11 DEF TokenHalf
<1> QED
    BY <1>1, <1>2, <1>12, LoginsRest DEF EntranceInv

\* A request that is let in keeps what it has shown.
LEMMA LetIn ==
    ASSUME NEW b \in Entrance!Shown, NEW x \in Entrance!Role
    PROVE  LET j == [b EXCEPT !.stage = "admitted", !.role = x]
           IN  /\ j \in Entrance!Shown /\ j.since = b.since /\ j.due = b.due
               /\ j.token = b.token /\ j.stage = "admitted" /\ j.role = x
<1> DEFINE j == [b EXCEPT !.stage = "admitted", !.role = x]
<1>1. /\ DOMAIN b = {"does", "at", "token", "due", "since", "stage", "role"}
      /\ b.does \in {"call", "refresh", "logout"} /\ b.at \in Process
      /\ b.token \in Entrance!Token /\ b.due \in BOOLEAN /\ b.since \in SUBSET Entrance!Role
    BY DEF Entrance!Shown
<1>2. /\ j.since = b.since /\ j.due = b.due /\ j.does = b.does /\ j.at = b.at
      /\ j.token = b.token /\ j.stage = "admitted" /\ j.role = x
    BY <1>1
<1>3. j \in Entrance!Shown
    BY DEF Entrance!Shown
<1> QED
    BY <1>2, <1>3

\* A request is over, or its member is looked up (get_identity).
LEMMA LookupKeeps ==
    ASSUME EntranceInv, NEW r \in Visitor, Entrance!Drop(r) \/ Entrance!Identify(r)
    PROVE  EntranceInv'
<1>1. TokenHalf /\ LoginHalf
    BY DEF EntranceInv
<1>2. /\ UNCHANGED <<moment, account, logins, wrongs, aside>>
      /\ UNCHANGED <<role, pairs, refusals, redisUp, client, revocations>>
      /\ presented[r] # Entrance!Idle
    BY DEF Entrance!Drop, Entrance!Identify, Entrance!entry
<1>3. presented[r] \in Entrance!Shown /\ ShownFits(presented[r])
    BY <1>1, <1>2 DEF TokenHalf
<1>4. \E j \in Entrance!Shown \cup {Entrance!Idle} :
          ShownFits(j) /\ presented' = [presented EXCEPT ![r] = j]
    <2>1. CASE Entrance!Drop(r)
        BY <2>1 DEF Entrance!Drop, ShownFits
    <2>2. CASE Entrance!Identify(r)
        <3> DEFINE b == presented[r]
                   j == [b EXCEPT !.stage = "admitted", !.role = role]
        <3>1. role # None /\ presented' = [presented EXCEPT ![r] = j]
            BY <2>2 DEF Entrance!Identify, Entrance!RoleNow
        <3>2. role \in Entrance!Role /\ b \in Entrance!Shown /\ ShownFits(b) /\ b # Entrance!Idle
            BY <1>1, <1>2, <1>3 DEF TokenHalf
        <3> HIDE DEF b
        <3>3. /\ j \in Entrance!Shown /\ j.since = b.since /\ j.due = b.due
              /\ j.token = b.token /\ j.stage = "admitted" /\ j.role = role
            BY <3>2, LetIn
        <3> HIDE DEF j
        <3>4. ShownFits(j)
            BY <3>1, <3>2, <3>3 DEF ShownFits
        <3> QED
            BY <3>1, <3>3, <3>4
    <2> QED
        BY <2>1, <2>2
<1>5. /\ presented' \in [Visitor -> Entrance!Shown \cup {Entrance!Idle}]
      /\ \A k \in Visitor : ShownFits(presented[k])'
    BY <1>1, <1>2, <1>4, ShownRest
<1>6. TokenHalf'
    BY <1>1, <1>2, <1>5 DEF TokenHalf, Refused, Entrance!Expiry
<1> QED
    BY <1>1, <1>2, <1>6, LoginsRest DEF EntranceInv

\* A pair of tokens is renewed, or revoked (refresh, logout).
LEMMA RevocationKeeps ==
    ASSUME EntranceInv, NEW r \in Visitor, Entrance!Rotate(r) \/ Entrance!Logout(r)
    PROVE  EntranceInv'
<1> DEFINE w == presented[r].at
           t == presented[r].token
<1>1. TokenHalf /\ LoginHalf /\ moment \in Nat
    BY LockFacts DEF EntranceInv
<1>2. /\ UNCHANGED <<moment, account, logins, wrongs, aside>> /\ UNCHANGED <<role, redisUp>>
      /\ client' = [client EXCEPT ![w] = Entrance!Linked(w)]
      /\ presented' = [presented EXCEPT ![r] = Entrance!Idle]
      /\ presented[r] # Entrance!Idle
    BY DEF Entrance!Rotate, Entrance!Logout, Entrance!entry, Entrance!Is
<1>3. presented[r] \in Entrance!Shown /\ ShownFits(presented[r])
    BY <1>1, <1>2 DEF TokenHalf
<1>4. w \in Process /\ t \in Entrance!Token /\ t[1] \in DOMAIN pairs
    BY <1>2, <1>3, ShownTypes DEF ShownFits
<1>5. \E ts \in SUBSET Entrance!Token :
          /\ \A s \in ts : s[1] \in DOMAIN pairs
          /\ refusals' = Entrance!Revoked(w, ts)
          /\ revocations' = revocations \cup Entrance!Ended(w, ts)
          /\ pairs' \in {pairs, Append(pairs, moment)}
          /\ Len(pairs) < Pairs \/ pairs' = pairs
    <2>1. CASE Entrance!Rotate(r)
        <3> DEFINE ts == {t}
        <3>1. /\ refusals' = Entrance!Revoked(w, ts) /\ pairs' = Append(pairs, moment)
              /\ revocations' = revocations \cup Entrance!Ended(w, ts) /\ Len(pairs) < Pairs
            BY <2>1 DEF Entrance!Rotate
        <3>2. ts \in SUBSET Entrance!Token /\ \A s \in ts : s[1] \in DOMAIN pairs
            BY <1>4
        <3> HIDE DEF ts
        <3> QED
            BY <3>1, <3>2
    <2>2. CASE Entrance!Logout(r)
        <3> DEFINE mate == <<t[1], "refresh">>
                   ts == {t} \cup (IF Entrance!Lives(mate) /\ ~Entrance!RefusedAt(w, mate)
                                   THEN {mate} ELSE {})
        <3>1. mate \in Entrance!Token
            BY <1>4 DEF Entrance!Token, Entrance!Kind
        <3>2. ts \in SUBSET Entrance!Token /\ \A s \in ts : s[1] \in DOMAIN pairs
            BY <1>4, <3>1
        <3>3. /\ refusals' = Entrance!Revoked(w, ts) /\ pairs' = pairs
              /\ revocations' = revocations \cup Entrance!Ended(w, ts)
            BY <2>2 DEF Entrance!Logout
        <3> QED
            BY <3>2, <3>3
    <2> QED
        BY <2>1, <2>2
<1> HIDE DEF w, t
<1>6. /\ refusals' \in [Entrance!Place -> [Entrance!Token -> Nat]]
      /\ revocations' \subseteq Entrance!Token \X Entrance!Place
      /\ pairs' \in Seq(Nat) /\ Len(pairs') <= Pairs
      /\ \A n \in DOMAIN pairs : n \in DOMAIN pairs' /\ pairs'[n] = pairs[n]
      /\ Refused'
    BY <1>4, <1>5, RevokedHolds
<1>7. ShownFits(Entrance!Idle)
    BY DEF ShownFits
<1>8. /\ presented' \in [Visitor -> Entrance!Shown \cup {Entrance!Idle}]
      /\ \A k \in Visitor : ShownFits(presented[k])'
    BY <1>1, <1>2, <1>6, <1>7, ShownRest
<1>9. Entrance!Linked(w) \in {"untried", "open", "disabled"}
    BY <1>1, <1>4 DEF TokenHalf, Entrance!Linked
<1>10. client' \in [Process -> {"untried", "open", "disabled"}]
    BY <1>1, <1>2, <1>9 DEF TokenHalf
<1>11. TokenHalf'
    BY <1>1, <1>2, <1>6, <1>8, <1>10 DEF TokenHalf
<1> QED
    BY <1>1, <1>2, <1>11, LoginsRest DEF EntranceInv

\* The member is given another role, or removed (MemberService); Redis comes and goes.
LEMMA MemberChangeKeeps ==
    ASSUME EntranceInv, NEW to \in GivenRoles \cup {None}, Entrance!ChangeMember(to)
    PROVE  EntranceInv'
<1> DEFINE Later(j) == IF j = Entrance!Idle THEN Entrance!Idle
                       ELSE [j EXCEPT !.since = @ \cup {to}]
<1>1. /\ UNCHANGED <<moment, account, logins, wrongs, aside>>
      /\ UNCHANGED <<pairs, refusals, redisUp, client, revocations>>
      /\ role' = to /\ presented' = [r \in Visitor |-> Later(presented[r])]
    BY DEF Entrance!ChangeMember, Entrance!entry
<1>2. TokenHalf /\ LoginHalf /\ to \in Entrance!Role
    BY DEF EntranceInv, Entrance!Role
<1>3. ASSUME NEW b \in Entrance!Shown
      PROVE  /\ Later(b) \in Entrance!Shown
             /\ Later(b).since = b.since \cup {to} /\ Later(b).due = b.due
             /\ Later(b).token = b.token /\ Later(b).stage = b.stage /\ Later(b).role = b.role
    <2> DEFINE j == [does |-> b.does, at |-> b.at, token |-> b.token, due |-> b.due,
                     since |-> b.since \cup {to}, stage |-> b.stage, role |-> b.role]
    <2>1. b # Entrance!Idle
        BY <1>3, ShownTypes
    <2>2. Later(b) = j
        BY <1>3, <2>1 DEF Entrance!Shown
    <2>3. j \in Entrance!Shown
        BY <1>2, <1>3 DEF Entrance!Shown
    <2> QED
        BY <2>2, <2>3
<1>4. ASSUME NEW r \in Visitor
      PROVE  /\ presented'[r] \in Entrance!Shown \cup {Entrance!Idle}
             /\ ShownFits(presented[r])'
    <2>1. presented'[r] = Later(presented[r])
        BY <1>1, <1>4
    <2>2. CASE presented[r] = Entrance!Idle
        BY <2>1, <2>2 DEF ShownFits
    <2>3. CASE presented[r] # Entrance!Idle
        <3>1. presented[r] \in Entrance!Shown /\ ShownFits(presented[r])
            BY <1>2, <1>4, <2>3 DEF TokenHalf
        <3> DEFINE j == Later(presented[r])
        <3>2. /\ j \in Entrance!Shown
              /\ j.since = presented[r].since \cup {to} /\ j.due = presented[r].due
              /\ j.token = presented[r].token /\ j.stage = presented[r].stage
              /\ j.role = presented[r].role
            BY <1>3, <3>1
        <3> HIDE DEF j
        <3>3. presented'[r] = j
            BY <2>1 DEF j
        <3> QED
            BY <1>1, <2>3, <3>1, <3>2, <3>3 DEF ShownFits
    <2> QED
        BY <2>2, <2>3
<1> HIDE DEF Later
<1>5. presented' \in [Visitor -> Entrance!Shown \cup {Entrance!Idle}]
    BY <1>1, <1>4
<1>6. TokenHalf'
    BY <1>1, <1>2, <1>4, <1>5 DEF TokenHalf, Refused, Entrance!Expiry
<1> QED
    BY <1>1, <1>2, <1>6, LoginsRest DEF EntranceInv

LEMMA RedisKeeps ==
    ASSUME EntranceInv, Entrance!RedisTurns
    PROVE  EntranceInv'
<1>1. /\ redisUp' = ~redisUp /\ UNCHANGED <<moment, account, logins, wrongs, aside>>
      /\ UNCHANGED <<role, pairs, refusals, client, presented, revocations>>
    BY DEF Entrance!RedisTurns, Entrance!entry
<1>2. TokenHalf'
    BY <1>1 DEF EntranceInv, TokenHalf, Refused, ShownFits, Entrance!Expiry
<1> QED
    BY <1>1, <1>2, LoginsRest DEF EntranceInv

\* The two halves of a login's step.
LEMMA LoginStepKeeps ==
    ASSUME EntranceInv, NEW l \in SignIn,
           \/ \E right \in BOOLEAN : Entrance!ReadAccount(l, right)
           \/ Entrance!FailLogin(l) \/ Entrance!Succeed(l)
    PROVE  EntranceInv'
<1>1. LoginHalf /\ TokenHalf
    BY DEF EntranceInv
<1>2. LoginHalf'
    BY <1>1, LoginBegins, LoginEnds
<1>3. /\ pairs' \in {pairs, Append(pairs, moment)} /\ (Len(pairs) < Pairs \/ pairs' = pairs)
      /\ UNCHANGED <<role, refusals, redisUp, client, presented, revocations>>
    BY DEF Entrance!ReadAccount, Entrance!FailLogin, Entrance!Succeed, Entrance!tokens
<1>4. TokenHalf'
    BY <1>1, <1>3, TokensRest
<1> QED
    BY <1>2, <1>4 DEF EntranceInv

LEMMA StepKeepsEntrance ==
    ASSUME EntranceInv, [Entrance!Next]_Entrance!vars
    PROVE  EntranceInv'
<1>1. CASE UNCHANGED Entrance!vars
    <2>1. /\ UNCHANGED <<moment, account, logins, wrongs, aside>>
          /\ UNCHANGED <<role, pairs, refusals, redisUp, client, presented, revocations>>
        BY <1>1 DEF Entrance!vars
    <2>2. TokenHalf'
        BY <2>1 DEF EntranceInv, TokenHalf, Refused, ShownFits, Entrance!Expiry
    <2> QED
        BY <2>1, <2>2, LoginsRest DEF EntranceInv
<1>2. ASSUME NEW l \in SignIn,
             \/ \E right \in BOOLEAN : Entrance!ReadAccount(l, right)
             \/ Entrance!FailLogin(l) \/ Entrance!Succeed(l)
      PROVE  EntranceInv'
    BY <1>2, LoginStepKeeps
<1>3. ASSUME NEW r \in Visitor, NEW w \in Process, NEW does \in {"call", "refresh", "logout"},
             NEW t \in Entrance!Token, Entrance!Show(r, w, does, t)
      PROVE  EntranceInv'
    BY <1>3, ShowKeeps
<1>4. ASSUME NEW r \in Visitor, Entrance!Drop(r) \/ Entrance!Identify(r)
      PROVE  EntranceInv'
    BY <1>4, LookupKeeps
<1>5. ASSUME NEW r \in Visitor, Entrance!Rotate(r) \/ Entrance!Logout(r)
      PROVE  EntranceInv'
    BY <1>5, RevocationKeeps
<1>6. ASSUME NEW to \in GivenRoles \cup {None}, Entrance!ChangeMember(to)
      PROVE  EntranceInv'
    BY <1>6, MemberChangeKeeps
<1>7. CASE Entrance!RedisTurns
    BY <1>7, RedisKeeps
<1>8. CASE Entrance!Tick
    BY <1>8, TickKeepsHalves
<1> QED
    BY <1>1, <1>2, <1>3, <1>4, <1>5, <1>6, <1>7, <1>8 DEF Entrance!Next

LEMMA EntranceOpens ==
    ASSUME Entrance!Init
    PROVE  EntranceInv
<1>1. /\ moment = 0 /\ account = [failures |-> 0, lockedUntil |-> 0] /\ role = "ADMIN"
      /\ pairs = <<0>> /\ redisUp = TRUE /\ wrongs = [all |-> 0, since |-> 0]
      /\ refusals = [p \in Entrance!Place |-> [t \in Entrance!Token |-> 0]]
      /\ client = [w \in Process |-> "untried"]
      /\ logins = [l \in SignIn |-> Entrance!Idle]
      /\ presented = [r \in Visitor |-> Entrance!Idle]
      /\ aside = TRUE /\ revocations = {}
    BY DEF Entrance!Init
<1>2. \A l \in SignIn : LoginFits(l)
    BY <1>1 DEF LoginFits, Entrance!Idle
<1>3. LoginHalf
    BY <1>1, <1>2, EntranceAssumption
       DEF LoginHalf, Entrance!Account, Entrance!Attempt, Entrance!LockTells
<1>4. Refused /\ \A r \in Visitor : ShownFits(presented[r])
    BY <1>1 DEF Refused, ShownFits
<1>5. /\ pairs \in Seq(Nat) /\ Len(pairs) <= Pairs
      /\ refusals \in [Entrance!Place -> [Entrance!Token -> Nat]]
    BY <1>1, EntranceAssumption
<1>6. TokenHalf
    BY <1>1, <1>4, <1>5 DEF TokenHalf, Entrance!Role
<1> QED
    BY <1>3, <1>6 DEF EntranceInv

LEMMA EntranceHolds ==
    ASSUME EntranceInv
    PROVE  Entrance!LockTells /\ Entrance!RevokedStays
BY DEF EntranceInv, LoginHalf, TokenHalf, ShownFits, Entrance!RevokedStays

(***************************************************************************)
(* For any number of logins, tokens, web processes and wrong passwords: an *)
(* account is locked only after that many wrong passwords and each of them *)
(* counts once, however the logins cross (record_login_failure,            *)
(* record_login_success); a revoked token is refused to its end by         *)
(* everyone who was told (revoke_payload, assert_token_not_revoked), and a *)
(* request acts with a role that its member has had since (get_identity).  *)
(***************************************************************************)
THEOREM EntranceKept == Entrance!Spec => [](Entrance!LockTells /\ Entrance!RevokedStays)
<1>1. Entrance!Init => EntranceInv
    BY EntranceOpens
<1> QED
    BY <1>1, StepKeepsEntrance, EntranceHolds, PTL DEF Entrance!Spec

-----------------------------------------------------------------------------
(* The versions of a tax rule and the tax numbers (TaxRules).               *)

AnyRule == [from: TaxDay, to: Nat, active: BOOLEAN]

\* The versions are numbered without a gap.
Numbered == Filings!Latest(rules) \in Nat /\ rules \in [1..Filings!Latest(rules) -> AnyRule]

(***************************************************************************)
(* What a request has seen that makes a version: as long as nobody has     *)
(* taken its number, the versions that are in force leave room for it, but *)
(* for the open one that it cuts off.                                      *)
(***************************************************************************)
RoomFor(j) ==
    /\ j.new \in AnyRule /\ j.new.active /\ j.new.from < j.new.to
    /\ j.version \in 1..(Filings!Latest(rules) + 1) /\ j.version \notin j.cut
    /\ j.version \notin DOMAIN rules =>
          \A v \in Filings!Active(rules) :
              IF v \in j.cut THEN rules[v].to = Filings!Open /\ rules[v].from < j.new.from
              ELSE ~Filings!RangesOverlap(rules[v], j.new)

RatesInv ==
    /\ today \in TaxDay /\ Numbered /\ DOMAIN filing = Filer
    /\ \A r \in Filer : /\ filing[r].does = "create" => RoomFor(filing[r])
                        /\ filing[r].does = "retire" => filing[r].to \in Nat
    /\ Filings!RatesNeverOverlap

\* The number of the next version is one more than there are (TaxRuleRepository).
LEMMA LatestIsLast ==
    ASSUME NEW n \in Nat, NEW rows, DOMAIN rows = 1..n
    PROVE  Filings!Latest(rows) = n
<1>1. n \in 1..n \cup {0} /\ \A v \in 1..n \cup {0} : n >= v
    OBVIOUS
<1>2. \A m \in 1..n \cup {0} : (\A v \in 1..n \cup {0} : m >= v) => m = n
    BY <1>1
<1> QED
    BY <1>1, <1>2 DEF Filings!Latest, Filings!Max

\* No day comes after the last one.
LEMMA OpenIsLast == Filings!Open \in Nat /\ \A d \in TaxDay : d < Filings!Open
<1>1. PICK d \in TaxDay : \A e \in TaxDay : e <= d
    BY FilingsAssumption
<1>2. Filings!Max(TaxDay) \in TaxDay /\ \A e \in TaxDay : Filings!Max(TaxDay) >= e
    <2>1. \A e \in TaxDay : d >= e
        BY <1>1, FilingsAssumption
    <2> QED
        BY <2>1 DEF Filings!Max
<1>3. Filings!Max(TaxDay) \in Nat
    BY <1>2, FilingsAssumption
<1>4. \A e \in TaxDay : e \in Nat /\ e <= Filings!Max(TaxDay)
    BY <1>2, <1>3, FilingsAssumption
<1> QED
    BY <1>3, <1>4 DEF Filings!Open

\* Whoever leaves the rules alone leaves everything that has been seen true.
LEMMA RulesUntouched ==
    ASSUME RatesInv, rules' = rules, today' \in TaxDay, DOMAIN filing' = Filer,
           \A r \in Filer : /\ filing'[r].does = "create" => RoomFor(filing'[r])
                            /\ filing'[r].does = "retire" => filing'[r].to \in Nat
    PROVE  RatesInv'
BY DEF RatesInv, Numbered, RoomFor, Filings!Active, Filings!RatesNeverOverlap

\* A request that ends, or begins something else, has nothing to keep.
LEMMA OthersKeep ==
    ASSUME RatesInv, NEW r \in Filer, NEW work, filing' = [filing EXCEPT ![r] = work],
           work.does = "create" => RoomFor(work),
           work.does = "retire" => work.to \in Nat
    PROVE  /\ DOMAIN filing' = Filer
           /\ \A q \in Filer : /\ filing'[q].does = "create" => RoomFor(filing'[q])
                               /\ filing'[q].does = "retire" => filing'[q].to \in Nat
BY DEF RatesInv

\* A version that is checked has room at that time (TaxRuleService.create).
LEMMA ReadHasRoom ==
    ASSUME RatesInv, NEW r \in Filer, Filings!ReadRules(r)
    PROVE  RatesInv'
<1>1. PICK from \in TaxDay, to \in TaxDay \cup {Filings!Open} :
          LET new == [from |-> from, to |-> to, active |-> TRUE]
          IN  /\ from < to
              /\ ~Filings!Clash(rules, new)
              /\ Filings!Begin(r, [does |-> "create", new |-> new,
                                   version |-> Filings!Latest(rules) + 1,
                                   cut |-> Filings!Truncated(rules, new)])
    BY DEF Filings!ReadRules
<1> DEFINE new == [from |-> from, to |-> to, active |-> TRUE]
           j == [does |-> "create", new |-> new,
                 version |-> Filings!Latest(rules) + 1, cut |-> Filings!Truncated(rules, new)]
<1>2. /\ new \in AnyRule /\ new.active /\ new.from < new.to
    BY <1>1, OpenIsLast, FilingsAssumption DEF AnyRule
<1>3. ASSUME NEW v \in Filings!Active(rules)
      PROVE  IF v \in Filings!Truncated(rules, new)
             THEN rules[v].to = Filings!Open /\ rules[v].from < new.from
             ELSE ~Filings!RangesOverlap(rules[v], new)
    <2>1. CASE v \in Filings!Truncated(rules, new)
        BY <2>1 DEF Filings!Truncated, Filings!OpenOnes
    <2>2. CASE v \notin Filings!Truncated(rules, new)
        <3>1. v \in DOMAIN rules
            BY DEF Filings!Active
        <3>2. Filings!Cut(rules, new)[v] = rules[v]
            BY <2>2, <3>1 DEF Filings!Cut
        <3> QED
            BY <1>1, <2>2, <3>2 DEF Filings!Clash
    <2> QED
        BY <2>1, <2>2
<1>4. /\ Filings!Latest(rules) + 1 \in 1..(Filings!Latest(rules) + 1)
      /\ Filings!Latest(rules) + 1 \notin DOMAIN rules
    BY DEF RatesInv, Numbered
<1>5. Filings!Truncated(rules, new) \subseteq DOMAIN rules
    BY DEF Filings!Truncated, Filings!OpenOnes, Filings!Active
<1>6. RoomFor(j)
    <2> HIDE DEF new
    <2> QED
        BY <1>2, <1>3, <1>4, <1>5 DEF RoomFor
<1>7. filing' = [filing EXCEPT ![r] = j] /\ rules' = rules /\ today' = today /\ j.does = "create"
    BY <1>1 DEF Filings!Begin
<1> HIDE DEF j
<1> QED
    BY <1>6, <1>7, OthersKeep, RulesUntouched DEF RatesInv

\* What the request that makes a version writes, when nobody has taken the number: the version, and
\* the last days of those that it cuts off (TaxRuleService.create).
LEMMA RowsWritten ==
    ASSUME RatesInv, NEW r \in Filer, Filings!Create(r), filing[r].version \notin DOMAIN rules,
           NEW n, n = Filings!Latest(rules)
    PROVE  /\ filing[r].version = n + 1
           /\ rules' = [v \in 1..(n + 1) |->
                           IF v = n + 1 THEN filing[r].new
                           ELSE IF v \in filing[r].cut
                                THEN [rules[v] EXCEPT !.to = filing[r].new.from] ELSE rules[v]]
<1> DEFINE j == filing[r]
<1>0. /\ RoomFor(j) /\ n \in Nat /\ rules \in [1..n -> AnyRule] /\ DOMAIN rules = 1..n
      /\ j.version \in 1..(n + 1)
    BY DEF RatesInv, Numbered, RoomFor, Filings!Create
<1>1. j.version = n + 1
    BY <1>0
<1> DEFINE added == [v \in 1..(n + 1) |-> IF v = n + 1 THEN j.new ELSE rules[v]]
<1>2. Filings!Inserted(j.version, j.new) = added
    <2>1. DOMAIN rules \cup {j.version} = 1..(n + 1)
        BY <1>0, <1>1
    <2> QED
        BY <1>1, <2>1 DEF Filings!Inserted
<1>3. added # rules
    <2>1. DOMAIN added = 1..(n + 1) /\ n + 1 \notin 1..n
        BY <1>0
    <2> HIDE DEF added
    <2> QED
        BY <1>0, <2>1
<1>4. rules' = [v \in 1..(n + 1) |->
                   IF v \in j.cut THEN [added[v] EXCEPT !.to = j.new.from] ELSE added[v]]
    BY <1>2, <1>3 DEF Filings!Create
<1>5. n + 1 \notin j.cut
    BY <1>0, <1>1 DEF RoomFor
<1>6. ASSUME NEW v \in 1..(n + 1)
      PROVE  (IF v \in j.cut THEN [added[v] EXCEPT !.to = j.new.from] ELSE added[v])
             = IF v = n + 1 THEN j.new
               ELSE IF v \in j.cut THEN [rules[v] EXCEPT !.to = j.new.from] ELSE rules[v]
    BY <1>5
<1> QED
    BY <1>1, <1>4, <1>6

(***************************************************************************)
(* A version is added only under the number that the request has read, so  *)
(* that nothing was added since, and nothing it has not seen is in force   *)
(* (uq_tax_rule_key_version).                                              *)
(***************************************************************************)
LEMMA CreateKeeps ==
    ASSUME RatesInv, NEW r \in Filer, Filings!Create(r)
    PROVE  RatesInv'
<1> DEFINE j == filing[r]
           n == Filings!Latest(rules)
<1>0. /\ RoomFor(j) /\ n \in Nat /\ rules \in [1..n -> AnyRule] /\ DOMAIN rules = 1..n
      /\ j.version \in 1..(n + 1) /\ filing' = [filing EXCEPT ![r] = Filings!Idle] /\ today' = today
      /\ Filings!Idle.does = "nothing"
    BY DEF RatesInv, Numbered, Filings!Create, RoomFor, Filings!End, Filings!Idle
<1>1. CASE j.version \in DOMAIN rules
    <2>1. rules' = rules
        BY <1>1 DEF Filings!Create, Filings!Inserted
    <2> QED
        BY <1>0, <2>1, OthersKeep, RulesUntouched DEF RatesInv
<1>2. CASE j.version \notin DOMAIN rules
    <2>1. j.version = n + 1
        BY <1>0, <1>2
    <2>2. DOMAIN rules' = 1..(n + 1)
        BY <1>2, RowsWritten
    <2>3. /\ j.new \in AnyRule /\ j.new.active /\ j.new.from < j.new.to /\ n + 1 \notin j.cut
          /\ j.new.from \in Nat /\ j.new.to \in Nat
        BY <1>0, <2>1, FilingsAssumption DEF RoomFor, AnyRule
    <2>4. rules'[n + 1] = j.new
        BY <1>0, <1>2, RowsWritten
    <2>5. ASSUME NEW v \in 1..n
          PROVE  /\ rules[v] \in AnyRule
                 /\ rules'[v] = IF v \in j.cut THEN [rules[v] EXCEPT !.to = j.new.from]
                                ELSE rules[v]
        BY <1>0, <1>2, RowsWritten
    <2>6. ASSUME NEW v \in 1..n
          PROVE  /\ rules'[v] \in AnyRule /\ rules'[v].from = rules[v].from
                 /\ rules'[v].active = rules[v].active
                 /\ rules'[v].to = IF v \in j.cut THEN j.new.from ELSE rules[v].to
        BY <2>3, <2>5 DEF AnyRule
    <2>7. rules' \in [1..(n + 1) -> AnyRule] /\ Filings!Latest(rules') = n + 1
        <3>1. \A v \in 1..(n + 1) : rules'[v] \in AnyRule
            BY <1>0, <2>3, <2>4, <2>6
        <3>2. DOMAIN rules' = 1..(n + 1) /\ n + 1 \in Nat
            BY <1>0, <2>2
        <3>3. Filings!Latest(rules') = n + 1
            BY <3>2, LatestIsLast
        <3> QED
            BY <2>2, <3>1, <3>2, <3>3, RowsWritten, <1>2
    <2>8. ASSUME NEW v \in 1..n, rules[v].active
           PROVE  /\ ~Filings!RangesOverlap(rules'[v], j.new)
                  /\ v \in j.cut => rules[v].to = Filings!Open
        <3>1. v \in Filings!Active(rules)
            BY <1>0, <2>8 DEF Filings!Active
        <3>2. IF v \in j.cut THEN rules[v].to = Filings!Open /\ rules[v].from < j.new.from
              ELSE ~Filings!RangesOverlap(rules[v], j.new)
            BY <1>0, <1>2, <3>1 DEF RoomFor
        <3> QED
            BY <2>3, <2>5, <2>6, <3>2 DEF Filings!RangesOverlap
    <2>9. ASSUME NEW v \in 1..n, NEW w \in 1..n, v # w, rules[v].active, rules[w].active
           PROVE  ~Filings!RangesOverlap(rules'[v], rules'[w])
        <3>1. ~Filings!RangesOverlap(rules[v], rules[w])
            BY <1>0, <2>9 DEF RatesInv, Filings!RatesNeverOverlap, Filings!Active
        <3>2. ASSUME NEW u \in {v, w}
              PROVE  /\ rules'[u].from = rules[u].from /\ rules'[u].to <= rules[u].to
                     /\ rules[u].from \in Nat /\ rules[u].to \in Nat /\ rules'[u].to \in Nat
            BY <2>3, <2>5, <2>6, <2>8, <2>9, OpenIsLast, FilingsAssumption DEF AnyRule
        <3> QED
            BY <3>1, <3>2 DEF Filings!RangesOverlap
    <2>10. Filings!RatesNeverOverlap'
        <3>1. ASSUME NEW v \in 1..(n + 1), NEW w \in 1..(n + 1), v # w,
                     rules'[v].active, rules'[w].active
              PROVE  ~Filings!RangesOverlap(rules'[v], rules'[w])
            <4>1. CASE v \in 1..n /\ w \in 1..n
                BY <2>6, <2>9, <3>1, <4>1
            <4>2. CASE v \in 1..n /\ w = n + 1
                BY <2>4, <2>6, <2>8, <3>1, <4>2
            <4>3. CASE v = n + 1 /\ w \in 1..n
                BY <2>4, <2>6, <2>8, <3>1, <4>3 DEF Filings!RangesOverlap
            <4> QED
                BY <1>0, <3>1, <4>1, <4>2, <4>3
        <3> QED
            BY <2>7, <3>1 DEF Filings!RatesNeverOverlap, Filings!Active
    <2>11. ASSUME NEW q \in Filer
           PROVE  /\ filing'[q].does = "create" => RoomFor(filing[q])'
                  /\ filing'[q].does = "retire" => filing'[q].to \in Nat
        <3>1. \/ filing'[q] = filing[q]
              \/ filing'[q].does = "nothing"
            BY <1>0 DEF RatesInv
        <3>2. ASSUME filing'[q].does = "create"
              PROVE  RoomFor(filing[q])'
            <4>1. RoomFor(filing[q]) /\ filing'[q] = filing[q]
                BY <3>1, <3>2 DEF RatesInv
            <4> QED
                BY <1>0, <2>7, <4>1 DEF RoomFor
        <3> QED
            BY <3>1, <3>2 DEF RatesInv
    <2> QED
        BY <1>0, <2>7, <2>10, <2>11 DEF RatesInv, Numbered
<1> QED
    BY <1>1, <1>2

\* Retiring takes a version out of force and leaves the others alone (TaxRuleService.delete).
LEMMA RetireKeeps ==
    ASSUME RatesInv, NEW r \in Filer, Filings!Retire(r)
    PROVE  RatesInv'
<1> DEFINE n == Filings!Latest(rules)
<1>1. /\ n \in Nat /\ rules \in [1..n -> AnyRule] /\ DOMAIN rules = 1..n
      /\ filing[r].to \in Nat /\ filing' = [filing EXCEPT ![r] = Filings!Idle]
      /\ Filings!Idle.does = "nothing"
      /\ today' = today
      /\ rules' = [rules EXCEPT ![filing[r].rule].active = FALSE,
                                ![filing[r].rule].to = filing[r].to]
    BY DEF RatesInv, Numbered, Filings!Retire, Filings!End, Filings!Idle
<1>2. DOMAIN rules' = 1..n /\ rules' \in [1..n -> AnyRule]
    BY <1>1 DEF AnyRule
<1>3. Filings!Latest(rules') = n
    BY <1>1, <1>2, LatestIsLast
<1>4. ASSUME NEW v \in Filings!Active(rules')
      PROVE  v \in Filings!Active(rules) /\ rules'[v] = rules[v]
    <2>1. v \in 1..n /\ rules'[v].active
        BY <1>2 DEF Filings!Active
    <2>2. v # filing[r].rule
        BY <1>1, <2>1 DEF AnyRule
    <2> QED
        BY <1>1, <2>1, <2>2 DEF Filings!Active
<1>5. Filings!RatesNeverOverlap'
    BY <1>4 DEF RatesInv, Filings!RatesNeverOverlap
<1>6. ASSUME NEW q \in Filer
      PROVE  /\ filing'[q].does = "create" => RoomFor(filing[q])'
             /\ filing'[q].does = "retire" => filing'[q].to \in Nat
    <2>1. filing'[q] = filing[q] \/ filing'[q].does = "nothing"
        BY <1>1 DEF RatesInv
    <2>2. ASSUME filing'[q].does = "create"
          PROVE  RoomFor(filing[q])'
        <3>1. RoomFor(filing[q]) /\ filing'[q] = filing[q]
            BY <2>1, <2>2 DEF RatesInv
        <3> QED
            BY <1>1, <1>2, <1>3, <1>4, <3>1 DEF RoomFor
    <2> QED
        BY <2>1, <2>2 DEF RatesInv
<1> QED
    BY <1>1, <1>2, <1>3, <1>5, <1>6 DEF RatesInv, Numbered

LEMMA FirstRates ==
    ASSUME Filings!Init
    PROVE  RatesInv
<1>1. DOMAIN rules = 1..0 /\ Filings!Latest(rules) = 0
    BY LatestIsLast DEF Filings!Init
<1>2. rules \in [1..0 -> AnyRule]
    BY <1>1 DEF Filings!Init
<1> QED
    BY <1>1, <1>2
       DEF Filings!Init, RatesInv, Numbered, Filings!RatesNeverOverlap, Filings!Active,
           Filings!Idle

\* Every request keeps what is true of the versions.
LEMMA RatesStep ==
    ASSUME RatesInv, [Filings!Next]_(Filings!vars)
    PROVE  RatesInv'
<1>1. ASSUME NEW r \in Filer, Filings!ReadRule(r)
      PROVE  RatesInv'
    <2>1. PICK v \in Filings!Active(rules) :
              Filings!Begin(r, [does |-> "retire", rule |-> v, to |-> Filings!RetireEnd(rules[v])])
        BY <1>1 DEF Filings!ReadRule
    <2>2. Filings!RetireEnd(rules[v]) \in Nat
        <3>1. rules[v] \in AnyRule /\ today \in Nat
            BY FilingsAssumption DEF Filings!Active, RatesInv, Numbered
        <3>2. Filings!RetireEnd(rules[v]) \in {rules[v].to, today, rules[v].from + 1}
            BY DEF Filings!RetireEnd
        <3>3. rules[v].to \in Nat /\ rules[v].from \in Nat
            BY <3>1, FilingsAssumption DEF AnyRule
        <3> QED
            BY <3>1, <3>2, <3>3
    <2> QED
        BY <2>1, <2>2, OthersKeep, RulesUntouched DEF Filings!Begin, RatesInv
<1>2. ASSUME NEW r \in Filer,
             \/ Filings!ReadRegistrations(r) \/ Filings!Register(r)
             \/ Filings!ReadRegistration(r) \/ Filings!Delete(r)
      PROVE  RatesInv'
    <2>1. /\ rules' = rules /\ today' = today
          /\ \E work : filing' = [filing EXCEPT ![r] = work]
                       /\ work.does \in {"nothing", "register", "delete"}
        BY <1>2 DEF Filings!ReadRegistrations, Filings!Register, Filings!ReadRegistration,
                    Filings!Delete, Filings!Begin, Filings!End, Filings!Idle
    <2> QED
        BY <2>1, OthersKeep, RulesUntouched DEF RatesInv
<1>3. CASE Filings!NextDay
    BY <1>3, RulesUntouched DEF Filings!NextDay, RatesInv
<1>4. CASE UNCHANGED Filings!vars
    BY <1>4, RulesUntouched DEF Filings!vars, RatesInv
<1> QED
    BY <1>1, <1>2, <1>3, <1>4, ReadHasRoom, CreateKeeps, RetireKeeps DEF Filings!Next

\* A version keeps its first day, and lasts at least that day: what a request has seen of the first
\* days is still true when it writes a last day (retire_end, TaxRuleService.create).
SpansInv ==
    /\ Filings!RulesLast
    /\ \A r \in Filer :
          /\ filing[r].does = "create" =>
                \A v \in filing[r].cut :
                    v \in DOMAIN rules /\ rules[v].from < filing[r].new.from
          /\ filing[r].does = "retire" =>
                filing[r].rule \in DOMAIN rules /\ rules[filing[r].rule].from < filing[r].to

FirstDaysStay ==
    \A v \in DOMAIN rules : v \in DOMAIN rules' /\ rules'[v].from = rules[v].from

LEMMA SpansStay ==
    ASSUME RatesInv, SpansInv, FirstDaysStay, Filings!RulesLast', NEW r \in Filer, NEW work,
           filing' = [filing EXCEPT ![r] = work],
           work.does = "create" =>
               \A v \in work.cut : v \in DOMAIN rules /\ rules[v].from < work.new.from,
           work.does = "retire" =>
               work.rule \in DOMAIN rules /\ rules[work.rule].from < work.to
    PROVE  SpansInv'
<1>1. ASSUME NEW q \in Filer
      PROVE  /\ filing'[q].does = "create" =>
                    \A v \in filing'[q].cut :
                        v \in DOMAIN rules' /\ rules'[v].from < filing'[q].new.from
             /\ filing'[q].does = "retire" =>
                    /\ filing'[q].rule \in DOMAIN rules'
                    /\ rules'[filing'[q].rule].from < filing'[q].to
    <2>1. PICK j \in {work, filing[q]} : filing'[q] = j
        BY DEF RatesInv
    <2>2. /\ j.does = "create" =>
                 \A v \in j.cut : v \in DOMAIN rules /\ rules[v].from < j.new.from
          /\ j.does = "retire" => j.rule \in DOMAIN rules /\ rules[j.rule].from < j.to
        BY <2>1 DEF SpansInv
    <2> QED
        BY <2>1, <2>2 DEF FirstDaysStay
<1> QED
    BY <1>1 DEF SpansInv

LEMMA SameSpans ==
    ASSUME UNCHANGED rules
    PROVE  FirstDaysStay /\ (SpansInv => Filings!RulesLast')
BY DEF FirstDaysStay, SpansInv, Filings!RulesLast

LEMMA ReadsSpans ==
    ASSUME RatesInv, SpansInv, NEW r \in Filer, Filings!ReadRules(r) \/ Filings!ReadRule(r)
    PROVE  SpansInv'
<1>1. CASE Filings!ReadRules(r)
    <2>1. PICK from \in TaxDay, to \in TaxDay \cup {Filings!Open} :
              LET new == [from |-> from, to |-> to, active |-> TRUE]
              IN  Filings!Begin(r, [does |-> "create", new |-> new,
                                    version |-> Filings!Latest(rules) + 1,
                                    cut |-> Filings!Truncated(rules, new)])
        BY <1>1 DEF Filings!ReadRules
    <2> DEFINE new == [from |-> from, to |-> to, active |-> TRUE]
               j == [does |-> "create", new |-> new, version |-> Filings!Latest(rules) + 1,
                     cut |-> Filings!Truncated(rules, new)]
    <2>2. filing' = [filing EXCEPT ![r] = j] /\ rules' = rules /\ j.does = "create"
        BY <2>1 DEF Filings!Begin
    <2>3. \A v \in j.cut : v \in DOMAIN rules /\ rules[v].from < j.new.from
        BY DEF Filings!Truncated, Filings!OpenOnes, Filings!Active
    <2> HIDE DEF j
    <2> QED
        BY <2>2, <2>3, SpansStay, SameSpans
<1>2. CASE Filings!ReadRule(r)
    <2>1. PICK v \in Filings!Active(rules) :
              Filings!Begin(r, [does |-> "retire", rule |-> v,
                                to |-> Filings!RetireEnd(rules[v])])
        BY <1>2 DEF Filings!ReadRule
    <2> DEFINE j == [does |-> "retire", rule |-> v, to |-> Filings!RetireEnd(rules[v])]
    <2>2. filing' = [filing EXCEPT ![r] = j] /\ rules' = rules /\ j.does = "retire"
        BY <2>1 DEF Filings!Begin
    <2>3. v \in DOMAIN rules /\ rules[v] \in AnyRule /\ rules[v].from < rules[v].to
        BY DEF Filings!Active, RatesInv, Numbered, SpansInv, Filings!RulesLast
    <2>4. rules[v].from < Filings!RetireEnd(rules[v])
        <3>1. rules[v].from \in Nat
            BY <2>3, FilingsAssumption DEF AnyRule
        <3> QED
            BY <2>3, <3>1 DEF Filings!RetireEnd
    <2>5. j.rule \in DOMAIN rules /\ rules[j.rule].from < j.to
        BY <2>3, <2>4
    <2> HIDE DEF j
    <2> QED
        BY <2>2, <2>5, SpansStay, SameSpans
<1> QED
    BY <1>1, <1>2

LEMMA WritesSpans ==
    ASSUME RatesInv, SpansInv, NEW r \in Filer, Filings!Create(r) \/ Filings!Retire(r)
    PROVE  SpansInv'
<1> DEFINE j == filing[r]
           n == Filings!Latest(rules)
<1>1. filing' = [filing EXCEPT ![r] = Filings!Idle] /\ Filings!Idle.does = "nothing"
    BY DEF Filings!Create, Filings!Retire, Filings!End, Filings!Idle
<1>2. n \in Nat /\ rules \in [1..n -> AnyRule] /\ DOMAIN rules = 1..n
    BY DEF RatesInv, Numbered
<1>3. FirstDaysStay /\ Filings!RulesLast'
    <2>1. CASE Filings!Create(r) /\ j.version \in DOMAIN rules
        <3>1. rules' = rules
            BY <2>1 DEF Filings!Create, Filings!Inserted
        <3> QED
            BY <3>1, SameSpans
    <2>2. CASE Filings!Create(r) /\ j.version \notin DOMAIN rules
        <3>1. rules' = [v \in 1..(n + 1) |->
                           IF v = n + 1 THEN j.new
                           ELSE IF v \in j.cut
                                THEN [rules[v] EXCEPT !.to = j.new.from] ELSE rules[v]]
            BY <2>2, RowsWritten
        <3>2. j.does = "create" /\ j.new.from < j.new.to
            BY <2>2 DEF Filings!Create, RatesInv, RoomFor
        <3>3. ASSUME NEW v \in 1..n
              PROVE  rules'[v].from = rules[v].from /\ rules'[v].from < rules'[v].to
            <4>1. v \in 1..(n + 1) /\ v # n + 1 /\ rules[v] \in AnyRule
                BY <1>2
            <4>2. rules'[v] = IF v \in j.cut THEN [rules[v] EXCEPT !.to = j.new.from]
                              ELSE rules[v]
                BY <3>1, <4>1
            <4>3. rules[v].from < rules[v].to /\ (v \in j.cut => rules[v].from < j.new.from)
                BY <1>2, <3>2 DEF SpansInv, Filings!RulesLast
            <4> QED
                BY <4>1, <4>2, <4>3 DEF AnyRule
        <3>4. DOMAIN rules' = 1..(n + 1) /\ rules'[n + 1] = j.new
            BY <1>2, <3>1
        <3> QED
            BY <1>2, <3>2, <3>3, <3>4 DEF FirstDaysStay, Filings!RulesLast
    <2>3. CASE Filings!Retire(r)
        <3>1. rules' = [rules EXCEPT ![j.rule].active = FALSE, ![j.rule].to = j.to]
            BY <2>3 DEF Filings!Retire
        <3>2. j.rule \in 1..n /\ rules[j.rule].from < j.to
            BY <1>2, <2>3 DEF Filings!Retire, SpansInv
        <3>3. DOMAIN rules' = 1..n
            BY <1>2, <3>1
        <3>4. ASSUME NEW v \in 1..n
              PROVE  rules'[v].from = rules[v].from /\ rules'[v].from < rules'[v].to
            <4>1. rules[v] \in AnyRule /\ rules[v].from < rules[v].to
                BY <1>2 DEF SpansInv, Filings!RulesLast
            <4>2. CASE v = j.rule
                BY <1>2, <3>1, <3>2, <4>1, <4>2 DEF AnyRule
            <4>3. CASE v # j.rule
                BY <1>2, <3>1, <4>1, <4>3
            <4> QED
                BY <4>2, <4>3
        <3> QED
            BY <1>2, <3>3, <3>4 DEF FirstDaysStay, Filings!RulesLast
    <2> QED
        BY <2>1, <2>2, <2>3
<1> QED
    BY <1>1, <1>3, SpansStay

LEMMA SpansStep ==
    ASSUME RatesInv, SpansInv, [Filings!Next]_(Filings!vars)
    PROVE  SpansInv'
<1>1. ASSUME NEW r \in Filer,
             \/ Filings!ReadRegistrations(r) \/ Filings!Register(r)
             \/ Filings!ReadRegistration(r) \/ Filings!Delete(r)
      PROVE  SpansInv'
    <2>1. PICK work : /\ rules' = rules /\ filing' = [filing EXCEPT ![r] = work]
                      /\ work.does \in {"nothing", "register", "delete"}
        BY <1>1 DEF Filings!ReadRegistrations, Filings!Register, Filings!ReadRegistration,
                    Filings!Delete, Filings!Begin, Filings!End, Filings!Idle
    <2> QED
        BY <2>1, SpansStay, SameSpans
<1>2. ASSUME UNCHANGED <<rules, filing>> PROVE SpansInv'
    BY <1>2 DEF SpansInv, Filings!RulesLast
<1> QED
    BY <1>1, <1>2, ReadsSpans, WritesSpans DEF Filings!Next, Filings!NextDay, Filings!vars

\* What a request has read of the registrations; the unique indexes turn away what is there by
\* the time it writes (uq_tax_registration_active, uq_tax_registration_idempotency).
RegistrationsInv ==
    /\ registrations \in Seq(Filings!Registration) /\ DOMAIN filing = Filer
    /\ Filings!RegisteredOnce
    /\ \A r \in Filer :
          /\ filing[r].does = "register" => filing[r].row \in Filings!Registration
          /\ filing[r].does = "delete" => filing[r].row \in DOMAIN registrations

LEMMA RegistrationsStay ==
    ASSUME RegistrationsInv, Filings!RegisteredOnce', NEW r \in Filer, NEW work,
           registrations' \in Seq(Filings!Registration),
           DOMAIN registrations \subseteq DOMAIN registrations',
           filing' = [filing EXCEPT ![r] = work],
           work.does = "register" => work.row \in Filings!Registration,
           work.does = "delete" => work.row \in DOMAIN registrations
    PROVE  RegistrationsInv'
BY DEF RegistrationsInv

LEMMA SameRegistrations ==
    ASSUME RegistrationsInv, UNCHANGED registrations
    PROVE  /\ Filings!RegisteredOnce' /\ registrations' \in Seq(Filings!Registration)
           /\ DOMAIN registrations \subseteq DOMAIN registrations'
BY DEF RegistrationsInv, Filings!RegisteredOnce, Filings!Live, Filings!Bears

LEMMA RegisterKeeps ==
    ASSUME RegistrationsInv, NEW r \in Filer, Filings!Register(r)
    PROVE  RegistrationsInv'
<1> DEFINE row == filing[r].row
           n == Len(registrations)
<1>1. filing' = [filing EXCEPT ![r] = Filings!Idle] /\ Filings!Idle.does = "nothing"
    BY DEF Filings!Register, Filings!End, Filings!Idle
<1>2. registrations \in Seq(Filings!Registration) /\ row \in Filings!Registration
    BY DEF RegistrationsInv, Filings!Register
<1>3. CASE Filings!Refused(row)
    BY <1>1, <1>3, RegistrationsStay, SameRegistrations DEF Filings!Register
<1>4. CASE ~Filings!Refused(row)
    <2>1. registrations' = Append(registrations, row)
        BY <1>4 DEF Filings!Register
    <2>2. /\ registrations' \in Seq(Filings!Registration) /\ DOMAIN registrations = 1..n
          /\ DOMAIN registrations' = 1..(n + 1) /\ n \in Nat
          /\ registrations'[n + 1] = row
          /\ \A i \in 1..n : registrations'[i] = registrations[i]
        BY <1>2, <2>1
    <2>3. ASSUME NEW i \in Filings!Live', NEW k \in Filings!Live', i # k
          PROVE  /\ registrations'[i].no # registrations'[k].no
                 /\ ~(/\ registrations'[k].key # None
                      /\ registrations'[i].key = registrations'[k].key)
        <3>1. i \in 1..(n + 1) /\ k \in 1..(n + 1)
            BY <2>2 DEF Filings!Live
        <3>2. \A m \in 1..n : m \in Filings!Live' => m \in Filings!Live
            BY <2>2 DEF Filings!Live
        <3>3. \A m \in Filings!Live :
                  ~Filings!Bears(m, row.key) /\ registrations[m].no # row.no
            BY <1>4 DEF Filings!Refused
        <3>4. CASE i \in 1..n /\ k \in 1..n
            BY <2>2, <2>3, <3>2, <3>4
               DEF RegistrationsInv, Filings!RegisteredOnce, Filings!Bears
        <3>5. CASE i \in 1..n /\ k = n + 1
            BY <2>2, <2>3, <3>2, <3>3, <3>5 DEF Filings!Bears
        <3>6. CASE i = n + 1 /\ k \in 1..n
            BY <2>2, <2>3, <3>2, <3>3, <3>6 DEF Filings!Bears
        <3> QED
            BY <2>2, <2>3, <3>1, <3>4, <3>5, <3>6
    <2>4. Filings!RegisteredOnce'
        <3> SUFFICES ASSUME NEW i \in Filings!Live', NEW k \in Filings!Live', i # k
                     PROVE  /\ registrations'[i].no # registrations'[k].no
                            /\ ~(/\ registrations'[k].key # None
                                 /\ registrations'[i].key = registrations'[k].key)
            BY DEF Filings!RegisteredOnce, Filings!Bears
        <3> QED
            BY <2>3
    <2>5. DOMAIN registrations \subseteq DOMAIN registrations'
        BY <2>2
    <2>6. registrations' \in Seq(Filings!Registration)
        BY <2>2
    <2> QED
        BY <1>1, <2>4, <2>5, <2>6, RegistrationsStay
<1> QED
    BY <1>3, <1>4

LEMMA DeleteKeeps ==
    ASSUME RegistrationsInv, NEW r \in Filer, Filings!Delete(r)
    PROVE  RegistrationsInv'
<1> DEFINE d == filing[r].row
<1>1. /\ filing' = [filing EXCEPT ![r] = Filings!Idle] /\ Filings!Idle.does = "nothing"
      /\ registrations' = [registrations EXCEPT ![d].deleted = TRUE]
    BY DEF Filings!Delete, Filings!End, Filings!Idle
<1>2. registrations \in Seq(Filings!Registration) /\ d \in DOMAIN registrations
    BY DEF RegistrationsInv, Filings!Delete
<1>3. registrations[d] \in Filings!Registration
    BY <1>2
<1> DEFINE row == [registrations[d] EXCEPT !.deleted = TRUE]
<1>4. row \in Filings!Registration /\ row.deleted
    BY <1>3 DEF Filings!Registration
<1>5. registrations' = [registrations EXCEPT ![d] = row]
    BY <1>1
<1> HIDE DEF row
<1>6. /\ registrations' \in Seq(Filings!Registration)
      /\ DOMAIN registrations' = DOMAIN registrations
      /\ registrations'[d] = row
      /\ \A i \in DOMAIN registrations \ {d} : registrations'[i] = registrations[i]
    BY <1>2, <1>4, <1>5
<1>7. ASSUME NEW i \in Filings!Live'
      PROVE  i \in Filings!Live /\ registrations'[i] = registrations[i]
    BY <1>4, <1>6, <1>7 DEF Filings!Live
<1>8. Filings!RegisteredOnce'
    BY <1>7 DEF RegistrationsInv, Filings!RegisteredOnce, Filings!Bears
<1> QED
    BY <1>1, <1>6, <1>8, RegistrationsStay

LEMMA RegistrationsStep ==
    ASSUME RegistrationsInv, [Filings!Next]_(Filings!vars)
    PROVE  RegistrationsInv'
<1>1. ASSUME NEW r \in Filer, Filings!ReadRegistrations(r) PROVE RegistrationsInv'
    <2>1. PICK no \in TaxNumber, key \in FilingKey \cup {None} :
              Filings!Begin(r, [does |-> "register",
                                row |-> [no |-> no, key |-> key, deleted |-> FALSE]])
        BY <1>1 DEF Filings!ReadRegistrations
    <2> DEFINE row == [no |-> no, key |-> key, deleted |-> FALSE]
               work == [does |-> "register", row |-> row]
    <2>2. /\ row \in Filings!Registration /\ work.does = "register" /\ work.row = row
          /\ filing' = [filing EXCEPT ![r] = work] /\ registrations' = registrations
        BY <2>1 DEF Filings!Registration, Filings!Begin
    <2> HIDE DEF work
    <2> QED
        BY <2>2, RegistrationsStay, SameRegistrations
<1>2. ASSUME NEW r \in Filer, Filings!ReadRegistration(r) PROVE RegistrationsInv'
    <2>1. PICK i \in Filings!Live : Filings!Begin(r, [does |-> "delete", row |-> i])
        BY <1>2 DEF Filings!ReadRegistration
    <2>2. i \in DOMAIN registrations
        BY DEF Filings!Live
    <2> QED
        BY <2>1, <2>2, RegistrationsStay, SameRegistrations DEF Filings!Begin
<1>3. ASSUME NEW r \in Filer,
             \/ Filings!ReadRules(r) \/ Filings!Create(r)
             \/ Filings!ReadRule(r) \/ Filings!Retire(r)
      PROVE  RegistrationsInv'
    <2> DEFINE Goes(work) == /\ UNCHANGED registrations /\ filing' = [filing EXCEPT ![r] = work]
                             /\ work.does \in {"nothing", "create", "retire"}
    <2>1. ASSUME Filings!ReadRules(r) PROVE \E work : Goes(work)
        <3>1. PICK from \in TaxDay, to \in TaxDay \cup {Filings!Open} :
                  LET new == [from |-> from, to |-> to, active |-> TRUE]
                  IN  Filings!Begin(r, [does |-> "create", new |-> new,
                                        version |-> Filings!Latest(rules) + 1,
                                        cut |-> Filings!Truncated(rules, new)])
            BY <2>1 DEF Filings!ReadRules
        <3> DEFINE new == [from |-> from, to |-> to, active |-> TRUE]
                   j == [does |-> "create", new |-> new, version |-> Filings!Latest(rules) + 1,
                         cut |-> Filings!Truncated(rules, new)]
        <3>2. Goes(j)
            BY <3>1 DEF Filings!Begin
        <3> QED
            BY <3>2
    <2>2. ASSUME Filings!ReadRule(r) PROVE \E work : Goes(work)
        <3>1. PICK v : Filings!Begin(r, [does |-> "retire", rule |-> v,
                                         to |-> Filings!RetireEnd(rules[v])])
            BY <2>2 DEF Filings!ReadRule
        <3>2. Goes([does |-> "retire", rule |-> v, to |-> Filings!RetireEnd(rules[v])])
            BY <3>1 DEF Filings!Begin
        <3> QED
            BY <3>2
    <2>3. ASSUME Filings!Create(r) \/ Filings!Retire(r) PROVE Goes(Filings!Idle)
        BY <2>3 DEF Filings!Create, Filings!Retire, Filings!End, Filings!Idle
    <2>4. PICK work : Goes(work)
        BY <1>3, <2>1, <2>2, <2>3
    <2> QED
        BY <2>4, RegistrationsStay, SameRegistrations
<1>4. ASSUME UNCHANGED <<registrations, filing>> PROVE RegistrationsInv'
    BY <1>4, SameRegistrations DEF RegistrationsInv
<1> QED
    BY <1>1, <1>2, <1>3, <1>4, RegisterKeeps, DeleteKeeps
       DEF Filings!Next, Filings!NextDay, Filings!vars

(***************************************************************************)
(* No two versions are in force on one day, every version keeps a day, and *)
(* a tax number is registered once at a time, for any number of requests   *)
(* that write what they have decided on what they had read                 *)
(* (TaxRuleService.create, retire_end, TaxRegistrationService.create).     *)
(***************************************************************************)
THEOREM TaxesKept == Filings!Spec => []Filings!TaxesHold
<1>1. Filings!Init => RatesInv /\ SpansInv /\ RegistrationsInv
    <2> SUFFICES ASSUME Filings!Init PROVE SpansInv /\ RegistrationsInv
        BY FirstRates
    <2> QED
        BY DEF Filings!Init, SpansInv, RegistrationsInv, Filings!RulesLast,
               Filings!RegisteredOnce, Filings!Live, Filings!Idle
<1>2. RatesInv /\ SpansInv /\ RegistrationsInv /\ [Filings!Next]_(Filings!vars)
      => (RatesInv /\ SpansInv /\ RegistrationsInv)'
    BY RatesStep, SpansStep, RegistrationsStep
<1>3. RatesInv /\ SpansInv /\ RegistrationsInv => Filings!TaxesHold
    BY DEF RatesInv, SpansInv, RegistrationsInv, Filings!TaxesHold
<1> QED
    BY <1>1, <1>2, <1>3, PTL DEF Filings!Spec
=============================================================================
