------------------------------ MODULE TaxRules ------------------------------
(***************************************************************************)
(* The versions of one tax rule (a country, a tax and a pattern of codes)  *)
(* and the tax numbers registered for it: services/tax_rule.py and         *)
(* services/tax_registration.py.                                           *)
(*                                                                         *)
(* A request reads the committed rows and writes later.  Of a row that it  *)
(* has changed only the changed columns are written, over whatever is      *)
(* there by then; a row that it adds must not break a unique constraint.   *)
(***************************************************************************)
EXTENDS Naturals, Sequences, FiniteSetsExt

CONSTANTS Request,
          Day,      \* the days rules are about, 0..n
          Number,   \* tax numbers
          Key,      \* idempotency keys a registration may carry
          MaxRows,  \* bound on the versions, and on the registrations
          None

VARIABLES
    today,
    rules,          \* committed versions, by version
    registrations,  \* committed registrations, by the order of their making
    job             \* per request, what it has read

vars == <<today, rules, registrations, job>>

Open == Max(Day) + 1  \* no last day

Rule == [from: Day, to: 0..Open, active: BOOLEAN]

Registration == [no: Number, key: Key \cup {None}, deleted: BOOLEAN]

Version == 1..MaxRows

\* FiniteSetsExt!Max of the versions, and 0 when there is none.
Latest(rows) == Max(DOMAIN rows \cup {0})

Idle == [does |-> "nothing"]

TypeOK ==
    /\ today \in Day
    /\ \E n \in 0..MaxRows : rules \in [1..n -> Rule]
    /\ \E n \in 0..MaxRows : registrations \in [1..n -> Registration]
    /\ \A r \in Request :
          job[r].does \in {"nothing", "create", "retire", "register", "delete"}

Init ==
    /\ today \in Day
    /\ rules = <<>>
    /\ registrations = <<>>
    /\ job = [r \in Request |-> Idle]

-----------------------------------------------------------------------------
(* What create makes of the versions it has read.                           *)

\* ranges_overlap, of half-open ranges.
RangesOverlap(a, b) == a.from < b.to /\ b.from < a.to

Active(rows) == {v \in DOMAIN rows : rows[v].active}

OpenOnes(rows) == {v \in Active(rows) : rows[v].to = Open}

\* The one open version that the new one cuts off, if there is one.
Truncated(rows, new) ==
    LET opens == OpenOnes(rows)
    IN  {v \in opens : /\ opens = {v} /\ rows[v].from < new.from
                       /\ RangesOverlap(rows[v], new)}

Cut(rows, new) ==
    [v \in DOMAIN rows |->
        IF v \in Truncated(rows, new) THEN [rows[v] EXCEPT !.to = new.from] ELSE rows[v]]

Clash(rows, new) == \E v \in Active(rows) : RangesOverlap(Cut(rows, new)[v], new)

\* retire_end.
RetireEnd(rule) ==
    CASE rule.to # Open /\ rule.to <= today -> rule.to
      [] today > rule.from -> today
      [] OTHER -> rule.from + 1

-----------------------------------------------------------------------------
(* The requests.                                                            *)

Begin(r, work) ==
    /\ job[r] = Idle
    /\ job' = [job EXCEPT ![r] = work]
    /\ UNCHANGED <<today, rules, registrations>>

End(r) == job' = [job EXCEPT ![r] = Idle]

ReadRules(r) ==
    \E from \in Day, to \in Day \cup {Open} :
        LET new == [from |-> from, to |-> to, active |-> TRUE]
        IN  /\ from < to
            /\ ~Clash(rules, new)
            /\ Begin(r, [does |-> "create", new |-> new,
                         version |-> Latest(rules) + 1, cut |-> Truncated(rules, new)])

\* Faulty: the version may be taken.
Added(version, new) ==
    [v \in DOMAIN rules \cup {version} |-> IF v = version THEN new ELSE rules[v]]

\* uq_tax_rule_key_version refuses a version that is there by now.
Inserted(version, new) ==
    IF version \in DOMAIN rules THEN rules
    ELSE [v \in DOMAIN rules \cup {version} |-> IF v = version THEN new ELSE rules[v]]

Create(r) ==
    LET j == job[r]
        added == Inserted(j.version, j.new)
    IN  /\ j.does = "create"
        /\ j.version \in Version
        /\ rules' = IF added = rules THEN rules
                    ELSE [v \in DOMAIN added |->
                             IF v \in j.cut THEN [added[v] EXCEPT !.to = j.new.from] ELSE added[v]]
        /\ End(r)
        /\ UNCHANGED <<today, registrations>>

ReadRule(r) ==
    \E v \in Active(rules) :
        Begin(r, [does |-> "retire", rule |-> v, to |-> RetireEnd(rules[v])])

Retire(r) ==
    /\ job[r].does = "retire"
    /\ rules' = [rules EXCEPT ![job[r].rule].active = FALSE, ![job[r].rule].to = job[r].to]
    /\ End(r)
    /\ UNCHANGED <<today, registrations>>

Live == {i \in DOMAIN registrations : ~registrations[i].deleted}

Bears(i, key) == key # None /\ registrations[i].key = key

\* A key that is known, or a number that is registered, ends the request here.
ReadRegistrations(r) ==
    \E no \in Number, key \in Key \cup {None} :
        /\ \A i \in Live : ~Bears(i, key) /\ registrations[i].no # no
        /\ Begin(r, [does |-> "register", row |-> [no |-> no, key |-> key, deleted |-> FALSE]])

\* uq_tax_registration_active and uq_tax_registration_idempotency.
Refused(row) == \E i \in Live : Bears(i, row.key) \/ registrations[i].no = row.no

Register(r) ==
    /\ job[r].does = "register"
    /\ IF Refused(job[r].row) THEN UNCHANGED registrations
       ELSE /\ Latest(registrations) < MaxRows
            /\ registrations' = Append(registrations, job[r].row)
    /\ End(r)
    /\ UNCHANGED <<today, rules>>

ReadRegistration(r) == \E i \in Live : Begin(r, [does |-> "delete", row |-> i])

Delete(r) ==
    /\ job[r].does = "delete"
    /\ registrations' = [registrations EXCEPT ![job[r].row].deleted = TRUE]
    /\ End(r)
    /\ UNCHANGED <<today, rules>>

NextDay ==
    /\ today + 1 \in Day
    /\ today' = today + 1
    /\ UNCHANGED <<rules, registrations, job>>

Next ==
    \/ \E r \in Request :
          \/ ReadRules(r) \/ Create(r) \/ ReadRule(r) \/ Retire(r)
          \/ ReadRegistrations(r) \/ Register(r) \/ ReadRegistration(r) \/ Delete(r)
    \/ NextDay

Spec == Init /\ [][Next]_vars

-----------------------------------------------------------------------------
(* Two versions that are not retired are never in force on one day, however *)
(* the requests that make and retire them overlap: each looks at versions   *)
(* that may be gone, and only the number of the version it adds stops it    *)
(* (TaxRuleService.create, uq_tax_rule_key_version).                        *)
RatesNeverOverlap ==
    \A v, w \in Active(rules) : v # w => ~RangesOverlap(rules[v], rules[w])

(* Every version keeps at least one day (retire_end, the CHECK effective).  *)
RulesLast == \A v \in DOMAIN rules : rules[v].from < rules[v].to

(* A tax number is registered once at a time, and a key made one live       *)
(* registration (TaxRegistrationService.create).                            *)
RegisteredOnce ==
    \A i, k \in Live :
        i # k => registrations[i].no # registrations[k].no /\ ~Bears(i, registrations[k].key)

TaxesHold == RatesNeverOverlap /\ RulesLast /\ RegisteredOnce

=============================================================================
