------------------------------- MODULE Access -------------------------------
(***************************************************************************)
(* Who may do what: the login of one account with its lock                 *)
(* (services/auth_service.py, repositories/identity.py), the tokens that   *)
(* it issues with the list of revoked ones in every web process and in     *)
(* Redis (core/token_blacklist.py), the identity of a request              *)
(* (core/deps.py), and the masked numbers and the files of orders          *)
(* (engines/order_privacy.py, services/order_query.py).                    *)
(*                                                                         *)
(* A request reads a row and writes the columns that it changed; the list  *)
(* of revoked tokens is looked at first and added to last.                 *)
(***************************************************************************)
EXTENDS Naturals, SequencesExt, FiniteSetsExt, Functions

CONSTANTS Login,       \* requests that log in
          Request,     \* requests that show a token
          Worker,      \* web processes
          MaxFailures, \* login_max_failures
          LockTime,    \* login_lock_minutes
          Given,       \* roles that the member, an ADMIN, is given
          Life,        \* per kind of token, how long it is good
          MaxPair,     \* bound on the pairs of tokens issued
          MaxClock,    \* bound on the clock
          MaxWrong,    \* bound on the wrong passwords
          None

VARIABLES
    clock,
    account,  \* the row of sys_user: failed_login_count and locked_until
    member,   \* the role of the row of tenant_user, None once it is removed
    issued,   \* when each pair of tokens was issued
    revoked,  \* per process and in Redis, until when a token is refused
    redisUp,
    link,     \* per process, its client of Redis
    login,    \* what a login has read
    job,      \* what a request has read
    wrong,    \* wrong passwords that were counted, and those since the last login
    alone,    \* no two logins have crossed
    over      \* tokens whose revocation has ended, and who knows of it

vars == <<clock, account, member, issued, revoked, redisUp, link, login, job, wrong, alone, over>>

Kind == {"access", "refresh"}

Token == (1..MaxPair) \X Kind

Place == Worker \cup {"redis"}

Idle == [does |-> "nothing"]

Account == [failures: Nat, lockedUntil: Nat]

Role == Given \cup {"ADMIN", None}

Attempt == {Idle} \cup [does: {"succeed", "fail"}, read: Account]

Shown == [does: {"call", "refresh", "logout"}, at: Worker, token: Token, due: BOOLEAN,
          since: SUBSET Role, stage: {"checked", "admitted"}, role: Role]

TypeOK ==
    /\ clock \in 0..MaxClock
    /\ account \in Account
    /\ member \in Role
    /\ issued \in Seq(Nat) /\ Len(issued) <= MaxPair
    /\ login \in [Login -> Attempt]
    /\ job \in [Request -> Shown \cup {Idle}]
    /\ revoked \in [Place -> [Token -> Nat]]
    /\ redisUp \in BOOLEAN
    /\ link \in [Worker -> {"untried", "open", "disabled"}]
    /\ wrong \in [all: 0..MaxWrong, since: 0..MaxWrong]
    /\ over \subseteq Token \X Place

Init ==
    /\ clock = 0
    /\ account = [failures |-> 0, lockedUntil |-> 0]
    /\ member = "ADMIN"
    /\ issued = <<0>>
    /\ revoked = [p \in Place |-> [t \in Token |-> 0]]
    /\ redisUp = TRUE
    /\ link = [w \in Worker |-> "untried"]
    /\ login = [l \in Login |-> Idle]
    /\ job = [r \in Request |-> Idle]
    /\ wrong = [all |-> 0, since |-> 0]
    /\ alone = TRUE
    /\ over = {}

-----------------------------------------------------------------------------
(* Logging in.                                                              *)

Locked == account.lockedUntil > clock

tokens == <<issued, revoked, redisUp, link, job, over>>

\* A login reads the account; a locked one, or one without a tenant, is refused.
ReadAccount(l, right) ==
    /\ login[l] = Idle /\ ~Locked
    /\ right => member # None
    /\ ~right => wrong.all < MaxWrong
    /\ login' = [login EXCEPT ![l] = [does |-> IF right THEN "succeed" ELSE "fail",
                                      read |-> account]]
    /\ alone' = (alone /\ \A k \in Login : login[k] = Idle)
    /\ UNCHANGED <<clock, account, member, wrong, tokens>>

\* record_login_failure; _reject_login commits it before it raises.
Counted(row, read) ==
    [failures    |-> read.failures + 1,
     lockedUntil |-> IF read.failures + 1 >= MaxFailures THEN clock + LockTime
                     ELSE row.lockedUntil]

FailLogin(l) ==
    /\ login[l].does = "fail" /\ wrong.all < MaxWrong
    /\ account' = Counted(account, login[l].read)
    /\ wrong' = [all |-> wrong.all + 1, since |-> wrong.since + 1]
    /\ login' = [login EXCEPT ![l] = Idle]
    /\ UNCHANGED <<clock, member, alone, tokens>>

\* record_login_success writes only the columns that differ from what was read.
Cleared(row, read) ==
    [failures    |-> IF read.failures = 0 THEN row.failures ELSE 0,
     lockedUntil |-> IF read.lockedUntil = 0 THEN row.lockedUntil ELSE 0]

Succeed(l) ==
    /\ login[l].does = "succeed"
    /\ account' = Cleared(account, login[l].read)
    /\ wrong' = [wrong EXCEPT !.since = 0]
    /\ login' = [login EXCEPT ![l] = Idle]
    /\ issued' = IF Len(issued) < MaxPair THEN Append(issued, clock) ELSE issued
    /\ UNCHANGED <<clock, member, alone, revoked, redisUp, link, job, over>>

-----------------------------------------------------------------------------
(* The tokens.                                                              *)

entry == <<clock, account, login, wrong, alone>>

Expiry(t) == issued[t[1]] + Life[t[2]]

Lives(t) == t[1] \in DOMAIN issued /\ clock < Expiry(t)

\* RedisBackedTokenBlacklist._redis: one failed ping turns Redis off for this process.
Linked(w) == IF link[w] = "untried" THEN IF redisUp THEN "open" ELSE "disabled" ELSE link[w]

Answers(w) == Linked(w) = "open" /\ redisUp

RefusedAt(w, t) ==
    \/ revoked[w][t] > clock
    \/ Answers(w) /\ revoked["redis"][t] > clock

\* remaining_ttl_seconds
RemainingTtl(t) == Max({1, Expiry(t) - clock})

\* revoke: the process itself, and Redis when it answers.
Revoked(w, ts) ==
    [p \in Place |-> [t \in Token |->
        IF t \in ts /\ (p = w \/ (p = "redis" /\ Answers(w)))
        THEN clock + RemainingTtl(t) ELSE revoked[p][t]]]

Ended(w, ts) == ts \X ({w} \cup (IF Answers(w) THEN {"redis"} ELSE {}))

\* What the process must know of: revoked here, or through Redis and Redis answers.
Due(w, t) == <<t, w>> \in over \/ (Answers(w) /\ <<t, "redis">> \in over)

\* decode_token and assert_token_not_revoked.
Show(r, w, does, t) ==
    /\ job[r] = Idle /\ Lives(t)
    /\ t[2] = (IF does = "refresh" THEN "refresh" ELSE "access")
    /\ link' = [link EXCEPT ![w] = Linked(w)]
    /\ job' = IF RefusedAt(w, t) THEN job
              ELSE [job EXCEPT ![r] = [does |-> does, at |-> w, token |-> t, due |-> Due(w, t),
                                       since |-> {member}, stage |-> "checked", role |-> None]]
    /\ UNCHANGED <<entry, member, issued, revoked, redisUp, over>>

Is(r, does, stage) == job[r] # Idle /\ job[r].does = does /\ job[r].stage = stage

Drop(r) ==
    /\ job[r] # Idle
    /\ job' = [job EXCEPT ![r] = Idle]
    /\ UNCHANGED <<entry, member, issued, revoked, redisUp, link, over>>

\* get_identity: the role of the row of now.
RoleNow(r) == member

\* get_identity, and the same questions in refresh: the member, then the lock.
Identify(r) ==
    /\ job[r] # Idle /\ job[r].stage = "checked"
    /\ RoleNow(r) # None /\ ~Locked
    /\ job' = [job EXCEPT ![r] = [@ EXCEPT !.stage = "admitted", !.role = RoleNow(r)]]
    /\ UNCHANGED <<entry, member, issued, revoked, redisUp, link, over>>

\* The old refresh token is revoked and a new pair issued.
Rotate(r) ==
    /\ Is(r, "refresh", "admitted") /\ Len(issued) < MaxPair
    /\ revoked' = Revoked(job[r].at, {job[r].token})
    /\ over' = over \cup Ended(job[r].at, {job[r].token})
    /\ issued' = Append(issued, clock)
    /\ link' = [link EXCEPT ![job[r].at] = Linked(job[r].at)]
    /\ job' = [job EXCEPT ![r] = Idle]
    /\ UNCHANGED <<entry, member, redisUp>>

\* logout: the access token, and the refresh token that came along if it is still good.
Logout(r) ==
    LET w == job[r].at
        mate == <<job[r].token[1], "refresh">>
        ts == {job[r].token} \cup (IF Lives(mate) /\ ~RefusedAt(w, mate) THEN {mate} ELSE {})
    IN  /\ Is(r, "logout", "admitted")
        /\ revoked' = Revoked(w, ts)
        /\ over' = over \cup Ended(w, ts)
        /\ link' = [link EXCEPT ![w] = Linked(w)]
        /\ job' = [job EXCEPT ![r] = Idle]
        /\ UNCHANGED <<entry, member, issued, redisUp>>

\* Redis comes and goes; what it was told it keeps.
RedisTurns ==
    /\ redisUp' = ~redisUp
    /\ UNCHANGED <<entry, member, issued, revoked, link, job, over>>

\* MemberService gives the member another role, or removes them.
ChangeMember(to) ==
    /\ Request # {}
    /\ member # None /\ to # member
    /\ member' = to
    /\ job' = [r \in Request |-> IF job[r] = Idle THEN Idle
                                 ELSE [job[r] EXCEPT !.since = @ \cup {to}]]
    /\ UNCHANGED <<entry, issued, revoked, redisUp, link, over>>

Tick ==
    /\ clock < MaxClock
    /\ clock' = clock + 1
    /\ UNCHANGED <<account, member, login, wrong, alone, tokens>>

Next ==
    \/ \E l \in Login : \/ \E right \in BOOLEAN : ReadAccount(l, right)
                        \/ FailLogin(l) \/ Succeed(l)
    \/ \E r \in Request :
          \/ \E w \in Worker, does \in {"call", "refresh", "logout"}, t \in Token : Show(r, w, does, t)
          \/ Drop(r) \/ Identify(r) \/ Rotate(r) \/ Logout(r)
    \/ \E to \in Given \cup {None} : ChangeMember(to)
    \/ Worker # {} /\ RedisTurns
    \/ Tick

Spec == Init /\ [][Next]_vars

-----------------------------------------------------------------------------
(* What is told of a buyer, and of the orders in a file.                     *)

\* mask_phone_middle: which of n digits are hidden.
HiddenDigits(n) ==
    IF n < 7 THEN 1..n
    ELSE ((n - 4) \div 2 + 1) .. ((n - 4) \div 2 + 4)

ExportFields == {"order_id", "platform", "status", "currency", "total", "buyer_name", "fees"}

DefaultFields == <<"order_id", "status", "currency", "total", "fees">>

\* _export_fields: unknown names are refused, repeated ones taken once.
Columns(asked) ==
    IF asked = <<>> THEN DefaultFields
    ELSE IF \E i \in DOMAIN asked : asked[i] \notin ExportFields THEN None
    ELSE SelectSeq([i \in DOMAIN asked |->
                        IF \E j \in 1..(i - 1) : asked[j] = asked[i] THEN "" ELSE asked[i]],
                   LAMBDA f : f # "")

\* export_orders: one more row is read than the file may have.
Export(orders, cap, asked) ==
    LET hits == SubSeq(orders, 1, Min({Len(orders), cap + 1}))
    IN  [columns   |-> Columns(asked),
         rows      |-> SubSeq(hits, 1, Min({Len(hits), cap})),
         truncated |-> Len(hits) > cap]

-----------------------------------------------------------------------------
(***************************************************************************)
(* The lock of an account (record_login_failure, record_login_success,     *)
(* _reject_login): however the logins cross, an account is locked only     *)
(* after that many wrong passwords, and none is counted twice; when they   *)
(* do not cross, every wrong password since the last login counts.         *)
(***************************************************************************)
LockTells ==
    /\ account.failures <= wrong.all
    /\ account.lockedUntil # 0 => wrong.all >= MaxFailures
    /\ alone => /\ account.failures = wrong.since
                /\ wrong.since < MaxFailures => account.lockedUntil = 0

(***************************************************************************)
(* A token that was revoked is refused to its end by the process that      *)
(* revoked it, and by every process with a working Redis if Redis had      *)
(* heard of it (revoke_payload, assert_token_not_revoked); and what is     *)
(* admitted acts with a role that the member has had since it came in      *)
(* (get_identity).                                                         *)
(***************************************************************************)
RevokedStays ==
    \A r \in Request : job[r] # Idle =>
        /\ ~job[r].due
        /\ job[r].stage = "admitted" => job[r].role \in job[r].since \ {None}

(***************************************************************************)
(* A masked number hides at least four digits and is not told by the rest  *)
(* (mask_phone_middle); a file of orders that is not said to be truncated  *)
(* has every order, and no column twice (export_orders).                   *)
(***************************************************************************)
FilesTell ==
    /\ \A n \in 1..13 : LET hidden == HiddenDigits(n)
                        IN  /\ hidden \subseteq 1..n
                            /\ Cardinality(hidden) >= Min({n, 4})
                            /\ n - Cardinality(hidden) <= n \div 2 + 3
                            /\ n < 7 => hidden = 1..n
    /\ \A n \in 0..4, cap \in 1..3, asked \in {<<>>, <<"fees", "order_id", "fees">>, <<"x">>} :
          LET orders == [i \in 1..n |-> i]
              file == Export(orders, cap, asked)
          IN  /\ file.truncated = (file.rows # orders)
              /\ Len(file.rows) <= cap
              /\ file.columns # None => IsInjective(file.columns)
=============================================================================
