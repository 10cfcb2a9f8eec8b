---------------------------- MODULE CustomerDesk ----------------------------
(***************************************************************************)
(* The buyers' messages of one shop and the tickets made of them:          *)
(* services/cs.py with the rules of engines/cs.py.                         *)
(*                                                                         *)
(* A sync reads what the platform shows, then the rows it has, and commits *)
(* all of it at once; the clerks' requests read a row and commit.  Of a    *)
(* row that is there only the columns that a request changes are written,  *)
(* over whatever is there by then.                                         *)
(*                                                                         *)
(* A sync begins at the first page of the platform's list and stops after  *)
(* cs_sync_max_pages; in what order a platform lists its messages the code *)
(* does not say, so any write may put any of them on these pages.          *)
(***************************************************************************)
EXTENDS Naturals, FiniteSets

CONSTANTS Syncer,   \* workers that run cs.sync_shop_messages, and manual syncs
          Clerk,    \* requests of the customer desk
          Message, Ticket,
          MaxEdits, \* bound on the versions of a message at the platform
          MaxNotes, \* bound on the notes of a ticket
          MaxPulled, \* how many messages the pages of one sync hold
          None

VARIABLES
    platform,  \* the version of each message, 0 before it is sent, and those on the pages
               \* that a sync reads
    inbox,     \* per message, its committed row
    ticket,    \* per ticket, its committed row
    sync,      \* per syncer, the sync in progress
    job,       \* per clerk, the request in progress
    seen,      \* per message, the versions that clerks were shown
    raced      \* messages written by a request whose copy of the row was out of date

vars == <<platform, inbox, ticket, sync, job, seen, raced>>

messages == <<platform, inbox, sync, seen, raced>>

Row == [content: 1..MaxEdits, status: {"UNREAD", "READ"}]

TicketStatus == {"OPEN", "ASSIGNED", "IN_PROGRESS", "CLOSED"}

TicketRow == [status: TicketStatus, assigned: BOOLEAN, notes: 0..MaxNotes, resolved: BOOLEAN]

Version == 0..MaxEdits

Step == {"none", "pulled", "found"}

NoJob == [does |-> "none"]

\* mark_message_read has read the message; the others have found the ticket open.
Job ==
    {NoJob} \cup [does: {"read"}, message: Message, row: Row]
    \cup [does: {"ASSIGN", "NOTE", "CLOSE"}, ticket: Ticket, status: TicketStatus]

TypeOK ==
    /\ platform \in [version: [Message -> Version], first: SUBSET Message]
    /\ inbox \in [Message -> Row \cup {None}]
    /\ ticket \in [Ticket -> TicketRow \cup {None}]
    /\ sync \in [Syncer -> [step: Step, pulled: [Message -> Version],
                            found: [Message -> Row \cup {None}]]]
    /\ job \in [Clerk -> Job]
    /\ seen \in [Message -> SUBSET Version]
    /\ raced \subseteq Message

NoSync == [step |-> "none", pulled |-> [m \in Message |-> 0], found |-> [m \in Message |-> None]]

Init ==
    /\ platform = [version |-> [m \in Message |-> 0], first |-> {}]
    /\ inbox = [m \in Message |-> None]
    /\ ticket = [t \in Ticket |-> None]
    /\ sync = [s \in Syncer |-> NoSync]
    /\ job = [c \in Clerk |-> NoJob]
    /\ seen = [m \in Message |-> {}]
    /\ raced = {}

-----------------------------------------------------------------------------
(* Messages.                                                                *)

\* The pages are full before a message is left out of them.
FirstPages(version) ==
    LET sent == {m \in Message : version[m] > 0}
    IN  {first \in SUBSET sent :
            /\ Cardinality(first) <= MaxPulled
            /\ first = sent \/ Cardinality(first) = MaxPulled}

\* A buyer sends a message, or the platform changes one.
BuyerWrites(m) ==
    /\ platform.version[m] < MaxEdits
    /\ LET version == [platform.version EXCEPT ![m] = @ + 1]
       IN  \E first \in FirstPages(version) :
               platform' = [version |-> version, first |-> first]
    /\ UNCHANGED <<inbox, ticket, sync, job, seen, raced>>

\* _pull reads from the first page on, every time.
Pulled == [m \in Message |-> IF m \in platform.first THEN platform.version[m] ELSE 0]

Pull(s) ==
    /\ sync[s].step = "none"
    /\ sync' = [sync EXCEPT ![s].step = "pulled", ![s].pulled = Pulled]
    /\ UNCHANGED <<platform, inbox, ticket, job, seen, raced>>

Find(s) ==
    /\ sync[s].step = "pulled"
    /\ sync' = [sync EXCEPT ![s].step = "found", ![s].found = inbox]
    /\ UNCHANGED <<platform, inbox, ticket, job, seen, raced>>

\* Faulty: a message that has changed keeps its status.
UpdatedQuietly(old, found, content) ==
    IF found.content = content THEN old ELSE [old EXCEPT !.content = content]

\* Faulty: a message that is there already is skipped.
UpdatedNever(old, found, content) == old

\* The row after the UPDATE of the columns that differ from what was found.
Updated(old, found, content) ==
    IF found.content = content THEN old
    ELSE [old EXCEPT !.content = content,
                     !.status = IF found.status = "UNREAD" THEN @ ELSE "UNREAD"]

New(content) == [content |-> content, status |-> "UNREAD"]

\* uq_cs_message_shop_platform_message: the row of a message was added meanwhile.
Conflict(pulled, found) ==
    \E m \in Message : pulled[m] > 0 /\ found[m] = None /\ inbox[m] # None

Store(s) ==
    LET pulled == sync[s].pulled
        found == sync[s].found
        Stored(m) ==
            IF pulled[m] = 0 THEN inbox[m]
            ELSE IF found[m] = None THEN New(pulled[m])
            ELSE Updated(inbox[m], found[m], pulled[m])
        \* Marked as read since, on the strength of an older version.
        Overtaken == {m \in Message :
                         /\ pulled[m] > 0 /\ found[m] # None
                         /\ inbox[m] # found[m] /\ Stored(m).content # inbox[m].content}
    IN  /\ sync[s].step = "found"
        /\ IF Conflict(pulled, found) THEN UNCHANGED <<inbox, raced>>
           ELSE /\ inbox' = [m \in Message |-> Stored(m)]
                /\ raced' = raced \cup Overtaken
        /\ sync' = [sync EXCEPT ![s] = NoSync]
        /\ UNCHANGED <<platform, ticket, job, seen>>

\* The platform refuses, or the worker stops: nothing is committed.
SyncFails(s) ==
    /\ sync[s].step # "none"
    /\ sync' = [sync EXCEPT ![s] = NoSync]
    /\ UNCHANGED <<platform, inbox, ticket, job, seen, raced>>

StartRead(c, m) ==
    /\ job[c] = NoJob
    /\ inbox[m] # None
    /\ job' = [job EXCEPT ![c] = [does |-> "read", message |-> m, row |-> inbox[m]]]
    /\ UNCHANGED <<messages, ticket>>

\* mark_read; the answer shows the message as it was found.
MarkRead(c) ==
    LET m == job[c].message
        row == job[c].row
    IN  /\ job[c].does = "read"
        /\ inbox' = [inbox EXCEPT ![m].status = IF row.status = "UNREAD" THEN "READ" ELSE @]
        /\ seen' = [seen EXCEPT ![m] = @ \cup {row.content}]
        /\ raced' = IF inbox[m].content = row.content THEN raced ELSE raced \cup {m}
        /\ job' = [job EXCEPT ![c] = NoJob]
        /\ UNCHANGED <<platform, ticket, sync>>

-----------------------------------------------------------------------------
(* Tickets.                                                                 *)

NewTicket == [status |-> "OPEN", assigned |-> FALSE, notes |-> 0, resolved |-> FALSE]

CreateTicket(t) ==
    /\ ticket[t] = None
    /\ ticket' = [ticket EXCEPT ![t] = NewTicket]
    /\ UNCHANGED <<messages, job>>

NextTicketStatus(current, action) ==
    CASE action = "ASSIGN" -> "ASSIGNED"
      [] action = "NOTE" /\ current \in {"OPEN", "ASSIGNED"} -> "IN_PROGRESS"
      [] action = "CLOSE" -> "CLOSED"
      [] OTHER -> current

\* Faulty: a ticket that is closed takes notes.
TakesNotes(row, action) == row # None /\ (row.status # "CLOSED" \/ action = "NOTE")

Takes(row, action) == row # None /\ row.status # "CLOSED"

OpenTicket(c, t, action) ==
    /\ job[c] = NoJob
    /\ Takes(ticket[t], action)
    /\ job' = [job EXCEPT ![c] =
                  [does |-> action, ticket |-> t, status |-> ticket[t].status]]
    /\ UNCHANGED <<messages, ticket>>

SaveTicket(c) ==
    LET t == job[c].ticket
        next == NextTicketStatus(job[c].status, job[c].does)
    IN  /\ job[c].does \in {"ASSIGN", "NOTE", "CLOSE"}
        /\ job[c].does = "NOTE" => ticket[t].notes < MaxNotes
        /\ ticket' = [ticket EXCEPT
                        ![t].status = IF next = job[c].status THEN @ ELSE next,
                        ![t].assigned = @ \/ job[c].does = "ASSIGN",
                        ![t].notes = IF job[c].does = "NOTE" THEN @ + 1 ELSE @,
                        ![t].resolved = @ \/ job[c].does = "CLOSE"]
        /\ job' = [job EXCEPT ![c] = NoJob]
        /\ UNCHANGED messages

RequestFails(c) ==
    /\ job[c] # NoJob
    /\ job' = [job EXCEPT ![c] = NoJob]
    /\ UNCHANGED <<messages, ticket>>

Proceed ==
    \/ \E m \in Message : BuyerWrites(m)
    \/ \E s \in Syncer : Pull(s) \/ Find(s) \/ Store(s)
    \/ \E c \in Clerk :
          \/ \E m \in Message : StartRead(c, m)
          \/ \E t \in Ticket, action \in {"ASSIGN", "NOTE", "CLOSE"} : OpenTicket(c, t, action)
          \/ MarkRead(c) \/ SaveTicket(c)
    \/ \E t \in Ticket : CreateTicket(t)

Next ==
    \/ Proceed
    \/ \E s \in Syncer : SyncFails(s)
    \/ \E c \in Clerk : RequestFails(c)

Spec == Init /\ [][Next]_vars

\* cs.scan_messages starts a sync again and again.
Fairness == \A s \in Syncer : WF_vars(Pull(s) \/ Find(s) \/ Store(s))

\* Once nothing fails any more; what failed before left no trace.
FairSpec == Init /\ [][Proceed]_vars /\ Fairness

-----------------------------------------------------------------------------
(* What is marked as read has been shown to a clerk: a message that the     *)
(* platform changes is unread again (_store, mark_message_read).  The       *)
(* exception are the messages that a sync and a clerk wrote at once.        *)
ReadWasSeen ==
    \A m \in Message \ raced :
        inbox[m] # None /\ inbox[m].status = "READ" => inbox[m].content \in seen[m]

(* The status of a ticket tells what was done with it, whichever requests   *)
(* overlap: each writes its status with the assignee, the note or the       *)
(* resolution in one commit (next_ticket_status, _open_ticket).             *)
TicketTells ==
    \A t \in Ticket :
        ticket[t] # None =>
            CASE ticket[t].status = "OPEN" -> ticket[t] = NewTicket
              [] ticket[t].status = "ASSIGNED" -> ticket[t].assigned
              [] ticket[t].status = "IN_PROGRESS" -> ticket[t].notes > 0
              [] OTHER -> ticket[t].resolved

DeskHolds == ReadWasSeen /\ TicketTells

(* A closed ticket stays as it is once the requests that had found it open  *)
(* are over (next_ticket_status: nothing is done to a closed ticket).       *)
ClosedStays ==
    \A t \in Ticket :
        /\ ticket[t] # None /\ ticket[t].status = "CLOSED"
        /\ \A c \in Clerk :
              job[c].does \in {"ASSIGN", "NOTE", "CLOSE"} /\ job[c].ticket = t =>
                  job[c].status = "CLOSED"
        => ticket'[t] = ticket[t]

(* When the platform changes nothing any more, the desk shows what the      *)
(* platform shows of every message on the pages that a sync reads: one that *)
(* stored an older version is followed by one that reads these pages again  *)
(* (CsService.sync, _pull, scan_messages).  A message behind these pages    *)
(* need not ever arrive.                                                    *)
MessagesArrive ==
    \A m \in Message :
        <>[](m \in platform.first =>
                inbox[m] # None /\ inbox[m].content = platform.version[m])
=============================================================================
