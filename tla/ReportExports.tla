---------------------------- MODULE ReportExports ----------------------------
(***************************************************************************)
(* The report exports of one tenant: ReportService, the task that writes a *)
(* file inside one transaction, and the job that expires old exports       *)
(* (tasks/report.py).  A tenant has at most one export that is not over.   *)
(***************************************************************************)
EXTENDS Naturals, FiniteSets

CONSTANTS Export, None

VARIABLES
    row,    \* per export, its row
    file,   \* exports with a file in the object store
    due,    \* exports whose expires_at has passed
    task,   \* per export, the task that writes it
    expiry  \* per export, what the expiring job is doing with it

vars == <<row, file, due, task, expiry>>

\* RUNNING is written inside the task's transaction; nobody else ever sees it.
Status == {"PENDING", "SUCCEEDED", "FAILED", "EXPIRED"}

TypeOK ==
    /\ row \in [Export -> [status: Status, key: BOOLEAN] \cup {None}]
    /\ file \subseteq Export /\ due \subseteq Export
    /\ task \in [Export -> {"none", "queued", "read", "writing", "written"}]
    /\ expiry \in [Export -> [at: {"idle", "read", "deleted"}, key: BOOLEAN]]

NotExpiring == [at |-> "idle", key |-> FALSE]

Init ==
    /\ row = [e \in Export |-> None]
    /\ file = {} /\ due = {}
    /\ task = [e \in Export |-> "none"]
    /\ expiry = [e \in Export |-> NotExpiring]

-----------------------------------------------------------------------------
Is(e, status) == row[e] # None /\ row[e].status = status

\* The rows of uq_report_export_tenant_active.
Active == {e \in Export : Is(e, "PENDING")}

\* create, and schedule_export: the message, or the inline task, may be lost.
Create(e) ==
    /\ row[e] = None /\ Active = {}
    /\ row' = [row EXCEPT ![e] = [status |-> "PENDING", key |-> FALSE]]
    /\ task' \in {[task EXCEPT ![e] = "queued"], task}
    /\ UNCHANGED <<file, due, expiry>>

Due(e) ==
    /\ row[e] # None /\ e \notin due
    /\ due' = due \cup {e}
    /\ UNCHANGED <<row, file, task, expiry>>

-----------------------------------------------------------------------------
\* Only a pending export is written.
Begin(e) ==
    /\ task[e] = "queued"
    /\ task' = [task EXCEPT ![e] = IF Is(e, "PENDING") THEN "read" ELSE "none"]
    /\ UNCHANGED <<row, file, due, expiry>>

(***************************************************************************)
(* RUNNING is flushed, over whatever the row says by now, and the row      *)
(* stays locked; the index refuses it while another export is active.      *)
(***************************************************************************)
Lock(e) ==
    /\ task[e] = "read"
    /\ task' = [task EXCEPT ![e] = IF Active \subseteq {e} THEN "writing" ELSE "none"]
    /\ UNCHANGED <<row, file, due, expiry>>

Locked(e) == task[e] \in {"writing", "written"}

Write(e) ==
    /\ task[e] = "writing"
    /\ file' = file \cup {e}
    /\ task' = [task EXCEPT ![e] = "written"]
    /\ UNCHANGED <<row, due, expiry>>

Finish(e, status, key) ==
    /\ row' = [row EXCEPT ![e] = [status |-> status, key |-> key]]
    /\ task' = [task EXCEPT ![e] = "none"]
    /\ UNCHANGED <<file, due, expiry>>

Succeed(e) == task[e] = "written" /\ Finish(e, "SUCCEEDED", TRUE)

Fail(e) == task[e] = "writing" /\ Finish(e, "FAILED", FALSE)

\* The transaction is rolled back; the task runs again, or not.
Abort(e) ==
    /\ task[e] \in {"queued", "read", "writing", "written"}
    /\ \E next \in {"queued", "none"} : task' = [task EXCEPT ![e] = next]
    /\ UNCHANGED <<row, file, due, expiry>>

-----------------------------------------------------------------------------
\* Faulty: only exports with a file are expired.
ToExpireFiles(e) == e \in due /\ Is(e, "SUCCEEDED")

ToExpire(e) == e \in due /\ row[e] # None /\ ~Is(e, "EXPIRED")

ReadDue(e) ==
    /\ ToExpire(e) /\ expiry[e] = NotExpiring
    /\ expiry' = [expiry EXCEPT ![e] = [at |-> "read", key |-> row[e].key]]
    /\ UNCHANGED <<row, file, due, task>>

\* expire: the file first, then the row, as it was read.
DeleteFile(e) ==
    /\ expiry[e].at = "read"
    /\ file' = IF expiry[e].key THEN file \ {e} ELSE file
    /\ expiry' = [expiry EXCEPT ![e].at = "deleted"]
    /\ UNCHANGED <<row, due, task>>

Expire(e) ==
    /\ expiry[e].at = "deleted" /\ ~Locked(e)
    /\ row' = [row EXCEPT ![e] = [status |-> "EXPIRED", key |-> @.key /\ ~expiry[e].key]]
    /\ expiry' = [expiry EXCEPT ![e] = NotExpiring]
    /\ UNCHANGED <<file, due, task>>

Next == \E e \in Export :
    \/ Create(e) \/ Due(e) \/ Begin(e) \/ Lock(e) \/ Write(e) \/ Succeed(e)
    \/ Fail(e) \/ Abort(e) \/ ReadDue(e) \/ DeleteFile(e) \/ Expire(e)

Spec == Init /\ [][Next]_vars

\* Each task of an export goes on or ends; the job for old exports keeps coming,
\* and the row lock it waits for is given out in turn.
Expires(e) == Due(e) \/ ReadDue(e) \/ DeleteFile(e) \/ Expire(e)

Goes(e) == Begin(e) \/ Lock(e) \/ Write(e) \/ Succeed(e) \/ Fail(e)

Fairness == \A e \in Export : SF_vars(Expires(e)) /\ WF_vars(Goes(e))

FairSpec == Spec /\ Fairness

-----------------------------------------------------------------------------
(***************************************************************************)
(* Whatever happens to its task, an export ends, and the tenant may ask    *)
(* for another one (execute, _expire_exports, uq_report_export_tenant_     *)
(* active).                                                                *)
(***************************************************************************)
ExportsEnd == \A e \in Export : Is(e, "PENDING") ~> ~Is(e, "PENDING")
=============================================================================
