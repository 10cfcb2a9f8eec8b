-------------------------- MODULE CertificateAlerts --------------------------
(***************************************************************************)
(* Certificates and the warnings before they expire: _save of              *)
(* services/certificate.py, the daily scan of services/compliance_alert.py *)
(* and the windows of services/compliance_windows.py.                      *)
(*                                                                         *)
(* A scan reads the certificates within the horizon, mails a warning for   *)
(* each window that has no notice yet, and commits the notices of all of   *)
(* them at once.  Mails that are sent stay sent.                           *)
(***************************************************************************)
EXTENDS Integers, FiniteSets, FiniteSetsExt

CONSTANTS Scanner,         \* runs of compliance.scan_alerts
          Certificate,     \* rows, by their natural key
          LastDay,         \* bound on the days
          MaxSaves,        \* bound on the saves
          Soon, Mid, Far,  \* CERT_SOON_DAYS < CERT_MID_DAYS < CERT_FAR_DAYS
          Limit,           \* ALERT_LIMIT
          None

VARIABLES
    today,
    saves,     \* saves so far
    expires,   \* per certificate, the last day it is valid
    notices,   \* committed notices
    mailed,    \* notices a mail was sent for
    twice,     \* notices more than one mail was sent for
    scan,      \* per scanner, what it has read and what is left of it
    unscanned, \* certificates saved since the whole scan of today read them
    scanned,   \* a scan of today that read everything in the horizon has committed
    disturbed  \* a scan was lost, or two of them overlapped

vars == <<today, saves, expires, notices, mailed, twice, scan, unscanned, scanned, disturbed>>

Day == 0..LastDay

\* What a certificate may be valid until.
Term == 0..LastDay + Far + 1

Notice == [cert: Certificate, level: {"D7", "D30", "D60"}, due: Term]

TypeOK ==
    /\ today \in Day /\ saves \in 0..MaxSaves
    /\ expires \in [Certificate -> Term \cup {None}]
    /\ notices \subseteq Notice /\ mailed \subseteq Notice /\ twice \subseteq Notice
    /\ \A s \in Scanner : scan[s].busy \in BOOLEAN /\ scan[s].todo \subseteq Notice
    /\ unscanned \subseteq Certificate
    /\ scanned \in BOOLEAN /\ disturbed \in BOOLEAN

NoScan == [busy |-> FALSE, whole |-> FALSE, day |-> 0, todo |-> {}, made |-> {}, fresh |-> {}]

Init ==
    /\ today = 0 /\ saves = 0
    /\ expires = [c \in Certificate |-> None]
    /\ notices = {} /\ mailed = {} /\ twice = {}
    /\ scan = [s \in Scanner |-> NoScan]
    /\ unscanned = Certificate
    /\ scanned = FALSE
    /\ disturbed = FALSE

-----------------------------------------------------------------------------

\* cert_window.
Window(due, day) ==
    CASE due - day < 0 -> "EXPIRED"
      [] 0 <= due - day /\ due - day <= Soon -> "D7"
      [] Soon < due - day /\ due - day <= Mid -> "D30"
      [] Mid < due - day /\ due - day <= Far -> "D60"
      [] OTHER -> None

InHorizon == {c \in Certificate : expires[c] # None /\ expires[c] <= today + Far}

\* list_in_horizon: the first ones by their last day, the expired ones included.
Listed ==
    {picked \in SUBSET InHorizon :
        /\ Cardinality(picked) = Min({Cardinality(InHorizon), Limit})
        /\ \A c \in picked, d \in InHorizon \ picked : expires[c] <= expires[d]}

Due(picked) ==
    {[cert |-> c, level |-> Window(expires[c], today), due |-> expires[c]] :
        c \in {p \in picked : Window(expires[p], today) \notin {None, "EXPIRED"}}}

-----------------------------------------------------------------------------
\* A certificate is recorded, or one that is there gets another term.
Save(c, term) ==
    /\ saves < MaxSaves /\ saves' = saves + 1
    /\ expires[c] # term
    /\ expires' = [expires EXCEPT ![c] = term]
    /\ unscanned' = unscanned \cup {c}
    /\ scan' = [s \in Scanner |->
                    IF scan[s].busy THEN [scan[s] EXCEPT !.fresh = @ \cup {c}] ELSE NoScan]
    /\ UNCHANGED <<today, notices, mailed, twice, scanned, disturbed>>

StartScan(s) ==
    /\ ~scan[s].busy
    /\ \E picked \in Listed :
          scan' = [scan EXCEPT ![s] = [busy |-> TRUE, whole |-> picked = InHorizon, day |-> today,
                                       todo |-> Due(picked), made |-> {}, fresh |-> {}]]
    /\ disturbed' = (disturbed \/ \E other \in Scanner : scan[other].busy)
    /\ UNCHANGED <<today, saves, expires, notices, mailed, twice, unscanned, scanned>>

\* get_window.
Noticed(notice) == notice \in notices

Skip(s, n) ==
    /\ n \in scan[s].todo /\ Noticed(n)
    /\ scan' = [scan EXCEPT ![s].todo = @ \ {n}]
    /\ UNCHANGED <<today, saves, expires, notices, mailed, twice, unscanned, scanned, disturbed>>

Mail(s, n) ==
    /\ n \in scan[s].todo /\ ~Noticed(n)
    /\ scan' = [scan EXCEPT ![s].todo = @ \ {n}, ![s].made = @ \cup {n}]
    /\ mailed' = mailed \cup {n}
    /\ twice' = IF n \in mailed THEN twice \cup {n} ELSE twice
    /\ UNCHANGED <<today, saves, expires, notices, unscanned, scanned, disturbed>>

\* uq_compliance_notice refuses a notice that is there by now, and with it all others.
Commit(s) ==
    LET refused == scan[s].made \cap notices # {}
        whole == ~refused /\ scan[s].whole /\ scan[s].day = today
    IN  /\ scan[s].busy /\ scan[s].todo = {}
        /\ notices' = IF refused THEN notices ELSE notices \cup scan[s].made
        /\ scanned' = (scanned \/ whole)
        /\ unscanned' = IF whole THEN unscanned \cap scan[s].fresh ELSE unscanned
        /\ scan' = [scan EXCEPT ![s] = NoScan]
        /\ UNCHANGED <<today, saves, expires, mailed, twice, disturbed>>

Stop(s) ==
    /\ scan[s].busy
    /\ scan' = [scan EXCEPT ![s] = NoScan]
    /\ disturbed' = TRUE
    /\ UNCHANGED <<today, saves, expires, notices, mailed, twice, unscanned, scanned>>

NextDay ==
    /\ today < LastDay
    /\ today' = today + 1
    /\ unscanned' = Certificate
    /\ scanned' = FALSE
    /\ UNCHANGED <<saves, expires, notices, mailed, twice, scan, disturbed>>

Next ==
    \/ \E c \in Certificate, term \in Term : Save(c, term)
    \/ \E s \in Scanner :
          \/ StartScan(s) \/ Commit(s) \/ Stop(s)
          \/ \E n \in scan[s].todo : Skip(s, n) \/ Mail(s, n)
    \/ NextDay

Spec == Init /\ [][Next]_vars

-----------------------------------------------------------------------------
\* The promise: 60, 30 and 7 days ahead.
Promised(c) ==
    CASE expires[c] \in today..today + Soon -> "D7"
      [] expires[c] \in today + Soon + 1..today + Mid -> "D30"
      [] OTHER -> "D60"

(* After the scan of a day everything that runs out within the windows has  *)
(* its notice, if the scan could list all that there is: the expired        *)
(* certificates come first in it, and take the places (dispatch, _windows,  *)
(* list_in_horizon).                                                        *)
WarnedInTime ==
    scanned =>
        \A c \in Certificate \ unscanned :
            expires[c] # None /\ expires[c] \in today..today + Far =>
                [cert |-> c, level |-> Promised(c), due |-> expires[c]] \in notices

(* A window is mailed before it is noticed, and once, unless a scan was     *)
(* lost or overlapped another (dispatch, uq_compliance_notice).             *)
MailedOnce == notices \subseteq mailed /\ (~disturbed => twice = {})

AlertsHold == WarnedInTime /\ MailedOnce
=============================================================================
