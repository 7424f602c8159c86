------------------------------ MODULE Accounts ------------------------------
(***************************************************************************)
(* Accounts, sessions and one-time secrets: AuthService with its Redis     *)
(* keys, the token dependencies of the endpoints, and the administrators'  *)
(* user management.                                                        *)
(*                                                                         *)
(* A worker serves one request at a time.  A step of a worker ends at each *)
(* Redis call, at each query and at the commit, which get_db issues after  *)
(* the endpoint has returned.  Time is the age of keys and tokens: Tick    *)
(* makes everything with a remaining life one unit older.                  *)
(***************************************************************************)
EXTENDS Requests, SequencesExt

CONSTANTS
    User,       \* accounts, registered or not yet
    Seed,       \* the users table at the start: a row for some of User
    FailLimit,  \* FAILED_LOGIN_LIMIT
    OtpLimit,   \* EMAIL_OTP_RESEND_LIMIT
    Ttl         \* lifetimes of tokens and keys, in ticks

(* A row of the users table, and the kinds of account.                     *)
UserColumns == {"phone", "email", "pass", "role", "active", "verified"}
Roles == {"customer", "staff", "driver", "admin"}

ASSUME LimitsPositive == /\ FailLimit \in Nat \ {0}
                         /\ OtpLimit \in Nat \ {0}

(* The process serves a fixed number of requests at a time, a key or token *)
(* is stored for some time, and a token only lasts a while.                *)
ASSUME ServiceAssumption ==
    /\ IsFiniteSet(Worker)
    /\ {Ttl.access, Ttl.refresh, Ttl.link, Ttl.code,
        Ttl.failed, Ttl.lockout, Ttl.resend, Ttl.query} \subseteq Nat

(* The table begins with an active administrator; the schemas of the       *)
(* requests only let the values of the columns through.                    *)
ASSUME AccountsAssumption ==
    /\ DOMAIN Seed \subseteq User /\ IsFiniteSet(DOMAIN Seed)
    /\ \A u \in DOMAIN Seed :
         /\ DOMAIN Seed[u] = UserColumns /\ Seed[u].role \in Roles
         /\ {Seed[u].active, Seed[u].verified} \subseteq BOOLEAN
    /\ \E u \in DOMAIN Seed : Seed[u].role = "admin" /\ Seed[u].active
    /\ \A s \in Scenario, w \in Worker : \A i \in DOMAIN s[w] :
         /\ s[w][i].op \in {"forgot", "askcode"} => s[w][i].user \in User
         /\ s[w][i].op = "role" => s[w][i].to \in Roles
         /\ s[w][i].op = "status" => s[w][i].to \in BOOLEAN

(* None is not the job of a request that still has to count a failure.     *)
ASSUME NoneIsNoJob ==
    \A s \in Scenario, w \in Worker : \A i \in DOMAIN s[w] :
        None \notin [req : {s[w][i]}, pc : {"count", "expire", "limit"}, tok : {0},
                    user : {s[w][i].user}, row : {None}, n : Nat, seen : Nat, epoch : Nat]

VARIABLES
    db,         \* committed rows of the users table
    redis,      \* key -> value and remaining life
    issued,     \* tokens, reset links and codes, in the order they were issued
    used,       \* history: what spent or revoked which secret
    guesses,    \* history: wrong passwords per identifier, and how many are tolerated
    orphans,    \* history: counters whose INCR was not followed by EXPIRE
    admins      \* history: how many admin changes, and whether two ran together

vars == <<db, redis, issued, todo, job, used, guesses, orphans, admins>>
history == <<used, guesses, orphans, admins>>

-----------------------------------------------------------------------------
(* Redis.                                                                  *)
Forever == -1      \* a key without a time to live

Has(k) == k \in DOMAIN redis
SetEx(k, v, ttl) == redis' = Put(redis, k, [val |-> v, ttl |-> ttl])
Delete(k) == redis' = [x \in DOMAIN redis \ {k} |-> redis[x]]
Expire(k, ttl) == redis' = IF Has(k) THEN [redis EXCEPT ![k].ttl = ttl] ELSE redis

Blacklisted(t) == <<"blacklist", t>>
Lockout(id)    == <<"lockout", id>>
Failed(id)     == <<"failed", id>>
Link(t)        == <<"link", t>>
Code(u)        == <<"otp", u>>
Resend(u)      == <<"resend", u>>

(* An entry of the blacklist lives for what is left of the token, one unit *)
(* at least.                                                               *)
LockoutUnits(t) == Ttl.lockout     \* mutant: one fixed time to live
SecondsUntilExpiry(t) == IF issued[t].left > 1 THEN issued[t].left ELSE 1
Blacklist(t) == SetEx(Blacklisted(t), TRUE, SecondsUntilExpiry(t))

-----------------------------------------------------------------------------
(* Tables and tokens.                                                      *)
ByPhone(p) == {u \in DOMAIN db : db[u].phone = p}
ByEmail(e) == {u \in DOMAIN db : db[u].email = e /\ e # None}
(* An identifier is a phone first, then an e-mail address.                 *)
Account(id) == IF ByPhone(id) # {} THEN ByPhone(id) ELSE ByEmail(id)

Admins       == {u \in DOMAIN db : db[u].role = "admin"}
ActiveAdmins == {u \in Admins : db[u].active}

Secret(kind, u, left) == [kind |-> kind, user |-> u, left |-> left]
(* Every login and every rotation sets both cookies.                       *)
Session(u) == <<Secret("access", u, Ttl.access), Secret("refresh", u, Ttl.refresh)>>
Companion(t) == t + 1

(* What the client of a request presents: a session of its user, a link or *)
(* a code it was mailed, or nothing.                                       *)
Presentable(r) ==
    IF Presents(r.op) = {} THEN {0}
    ELSE {t \in DOMAIN issued : issued[t].kind \in Presents(r.op) /\ issued[t].user = r.user}

Init ==
    /\ db = Seed
    /\ redis = [k \in {} |-> None]
    /\ issued = [t \in 1..(2 * Cardinality(DOMAIN Seed)) |->
                    Session(SetToSeq(DOMAIN Seed)[(t + 1) \div 2])[IF t % 2 = 1 THEN 1 ELSE 2]]
    /\ todo \in Scenario
    /\ job = [w \in Worker |-> None]
    /\ used = <<>>
    /\ guesses = [n |-> [k \in {} |-> 0], slack |-> [k \in {} |-> 0]]
    /\ orphans = {}
    /\ admins = [changes |-> 0, overlapped |-> FALSE]

-----------------------------------------------------------------------------
(* Requests begin, and their users are looked up.                          *)
(* An update that was flushed keeps the row locked until the commit.       *)
RowLocked(u) == \E w \in Worker : job[w] # None /\ Who(w) = u
                                    /\ job[w].pc \in {"spend", "unthrottle", "commit"}

Begin(w) ==
    /\ job[w] = None /\ todo[w] # <<>>
    /\ \E t \in Presentable(Head(todo[w])) :
         job' = [job EXCEPT ![w] =
             [req |-> Head(todo[w]), pc |-> FirstStep(Head(todo[w]).op), tok |-> t,
              user |-> Head(todo[w]).user, row |-> None, n |-> 0,
              seen |-> Len(used), epoch |-> admins.changes]]
    /\ todo' = [todo EXCEPT ![w] = Tail(@)]
    /\ UNCHANGED <<db, redis, issued, history>>

(* decode_token and _raise_if_blacklisted.                                 *)
DecodeToken(w) ==
    /\ At(w, "decode")
    /\ IF issued[job[w].tok].left > 0 /\ ~Has(Blacklisted(job[w].tok))
       THEN Goto(w, "load") ELSE End(w)
    /\ UNCHANGED <<db, redis, issued, todo, history>>

(* Mutant of LoadUser: the claims of the token are believed.               *)
TrustToken(w) ==
    /\ At(w, "load")
    /\ job' = [job EXCEPT ![w].pc = HandlerOf(Op(w)), ![w].row = db[Who(w)],
                          ![w].epoch = admins.changes]
    /\ UNCHANGED <<db, redis, issued, todo, history>>

(* The user behind the token, who must be active; the endpoints for        *)
(* administrators also ask for the role.  The row read here is the one the *)
(* rest of the request sees.                                               *)
LoadUser(w) ==
    /\ At(w, "load")
    /\ LET row == db[Who(w)] IN
         IF /\ row.active
            /\ Op(w) \in AdminOnly => row.role = "admin"
            /\ Op(w) \in StaffOnly => row.role \in {"staff", "admin"}
         THEN job' = [job EXCEPT ![w].pc = HandlerOf(Op(w)), ![w].row = row,
                                 ![w].epoch = admins.changes]
         ELSE End(w)
    /\ UNCHANGED <<db, redis, issued, todo, history>>

-----------------------------------------------------------------------------
(* Login, with its counter of failures and its lock.                       *)
CheckLock(w) ==
    /\ At(w, "lock")
    /\ IF Has(Lockout(job[w].req.id)) THEN End(w) ELSE Goto(w, "password")
    /\ UNCHANGED <<db, redis, issued, todo, history>>

Base == FailLimit - 1 + Cardinality(Worker)
Tolerated(id) == IF id \in DOMAIN guesses.slack THEN guesses.slack[id] ELSE Base
Guesses(id)   == IF id \in DOMAIN guesses.n THEN guesses.n[id] ELSE 0
Guessed(id)   == guesses' = [guesses EXCEPT !.n = Put(@, id, Guesses(id) + 1)]
Forgiven(id)  == [n |-> Put(guesses.n, id, 0), slack |-> Put(guesses.slack, id, Base)]

RightPassword(w) == \E u \in Account(job[w].req.id) : db[u].pass = job[w].req.pass
Active(w)        == \E u \in Account(job[w].req.id) : db[u].active

WrongPassword(w) ==
    /\ At(w, "password") /\ ~RightPassword(w)
    /\ Goto(w, "count")
    /\ Guessed(job[w].req.id)
    /\ UNCHANGED <<db, redis, issued, todo, used, orphans, admins>>

PasswordChecked(w) ==
    /\ At(w, "password") /\ RightPassword(w)
    /\ IF Active(w)
       THEN \E u \in Account(job[w].req.id) :
              job' = [job EXCEPT ![w].pc = "clear", ![w].user = u]
       ELSE End(w)
    /\ UNCHANGED <<db, redis, issued, todo, history>>

ClearFailures(w) ==
    /\ At(w, "clear")
    /\ Delete(Failed(job[w].req.id))
    /\ guesses' = Forgiven(job[w].req.id)
    /\ Goto(w, "issue")
    /\ UNCHANGED <<db, issued, todo, used, orphans, admins>>

(* INCR, and EXPIRE in a call of its own when the counter was created.     *)
Counter(w) == IF Op(w) = "login" THEN Failed(job[w].req.id) ELSE Resend(Who(w))
CounterTtl(w) == IF Op(w) = "login" THEN Ttl.failed ELSE Ttl.resend

Increment(w) ==
    /\ At(w, "count")
    /\ LET k == Counter(w)
           n == IF Has(k) THEN redis[k].val + 1 ELSE 1
       IN  /\ SetEx(k, n, IF Has(k) THEN redis[k].ttl ELSE Forever)
           /\ job' = [job EXCEPT ![w].n = n, ![w].pc = IF n = 1 THEN "expire" ELSE "limit"]
    /\ UNCHANGED <<db, issued, todo, history>>

(* Mutant of ExpireCounter: the counter gets no time to live.              *)
KeepCounter(w) ==
    /\ At(w, "expire")
    /\ Goto(w, "limit")
    /\ UNCHANGED <<db, redis, issued, todo, history>>

ExpireCounter(w) ==
    /\ At(w, "expire")
    /\ Expire(Counter(w), CounterTtl(w))
    /\ Goto(w, "limit")
    /\ UNCHANGED <<db, issued, todo, history>>

(* Mutant of LockAccount: > for >=.                                        *)
LockAccountLate(w) ==
    /\ At(w, "limit") /\ Op(w) = "login"
    /\ IF job[w].n > FailLimit
       THEN SetEx(Lockout(job[w].req.id), TRUE, Ttl.lockout)
       ELSE UNCHANGED redis
    /\ End(w)
    /\ UNCHANGED <<db, issued, todo, history>>

LockAccount(w) ==
    /\ At(w, "limit") /\ Op(w) = "login"
    /\ IF job[w].n >= FailLimit
       THEN SetEx(Lockout(job[w].req.id), TRUE, Ttl.lockout)
       ELSE UNCHANGED redis
    /\ End(w)
    /\ UNCHANGED <<db, issued, todo, history>>

-----------------------------------------------------------------------------
(* Issuing, rotating and revoking sessions.                                *)
Record(w, k) == used' = Append(used, [key |-> k, op |-> Op(w), seen |-> job[w].seen])

IssueSession(w) ==
    /\ At(w, "issue")
    /\ issued' = issued \o Session(Who(w))
    /\ IF Op(w) = "refresh" THEN Record(w, <<"token", job[w].tok>>) ELSE UNCHANGED used
    /\ End(w)
    /\ UNCHANGED <<db, redis, todo, guesses, orphans, admins>>

RotateRefreshToken(w) ==
    /\ At(w, "rotate")
    /\ Blacklist(job[w].tok)
    /\ Goto(w, "issue")
    /\ UNCHANGED <<db, issued, todo, history>>

(* logout_user checks nothing but the signature and the age of its tokens. *)
RevokeAccess(w) ==
    /\ At(w, "revoke")
    /\ IF issued[job[w].tok].left > 0
       THEN /\ Blacklist(job[w].tok)
            /\ Record(w, <<"token", job[w].tok>>)
            /\ Goto(w, "companion")
       ELSE End(w) /\ UNCHANGED <<redis, used>>
    /\ UNCHANGED <<db, issued, todo, guesses, orphans, admins>>

RevokeRefresh(w) ==
    /\ At(w, "companion")
    /\ LET t == Companion(job[w].tok) IN
         IF issued[t].left > 0
         THEN Blacklist(t) /\ Record(w, <<"token", t>>)
         ELSE UNCHANGED <<redis, used>>
    /\ End(w)
    /\ UNCHANGED <<db, issued, todo, guesses, orphans, admins>>

-----------------------------------------------------------------------------
(* Reset links, verification codes and password changes: check, flush the  *)
(* update, spend the secret in Redis, commit at the end of the request.    *)
MailLink(w) ==
    /\ At(w, "mail")
    /\ issued' = Append(issued, Secret("link", Who(w), Ttl.link))
    /\ SetEx(Link(Len(issued')), Who(w), Ttl.link)
    /\ End(w)
    /\ UNCHANGED <<db, todo, history>>

MailCode(w) ==
    /\ At(w, "limit") /\ Op(w) = "askcode"
    /\ IF job[w].n > OtpLimit
       THEN UNCHANGED <<issued, redis>>
       ELSE /\ issued' = Append(issued, Secret("code", Who(w), Ttl.code))
            /\ SetEx(Code(Who(w)), Len(issued'), Ttl.code)
    /\ End(w)
    /\ UNCHANGED <<db, todo, history>>

CheckLink(w) ==
    /\ At(w, "link")
    /\ IF Has(Link(job[w].tok)) THEN Goto(w, "flush") ELSE End(w)
    /\ UNCHANGED <<db, redis, issued, todo, history>>

CheckCode(w) ==
    /\ At(w, "code")
    /\ IF Has(Code(Who(w))) /\ redis[Code(Who(w))].val = job[w].tok
       THEN Goto(w, "flush") ELSE End(w)
    /\ UNCHANGED <<db, redis, issued, todo, history>>

CheckOldPassword(w) ==
    /\ At(w, "old")
    /\ IF job[w].row.pass = job[w].req.old THEN Goto(w, "flush") ELSE End(w)
    /\ UNCHANGED <<db, redis, issued, todo, history>>

FlushUpdate(w) ==
    /\ At(w, "flush") /\ ~RowLocked(Who(w))
    /\ Goto(w, "spend")
    /\ UNCHANGED <<db, redis, issued, todo, history>>

(* Mutant of SpendLink: the link is left to expire.                        *)
KeepLink(w) ==
    /\ At(w, "spend") /\ Op(w) = "reset"
    /\ Record(w, <<"link", job[w].tok>>)
    /\ Goto(w, "commit")
    /\ UNCHANGED <<db, redis, issued, todo, guesses, orphans, admins>>

SpendLink(w) ==
    /\ At(w, "spend") /\ Op(w) = "reset"
    /\ Delete(Link(job[w].tok))
    /\ Record(w, <<"link", job[w].tok>>)
    /\ Goto(w, "commit")
    /\ UNCHANGED <<db, issued, todo, guesses, orphans, admins>>

SpendCode(w) ==
    /\ At(w, "spend") /\ Op(w) = "enter"
    /\ Delete(Code(Who(w)))
    /\ Record(w, <<"code", job[w].tok>>)
    /\ Goto(w, "unthrottle")
    /\ UNCHANGED <<db, issued, todo, guesses, orphans, admins>>

SpendAccess(w) ==
    /\ At(w, "spend") /\ Op(w) = "change"
    /\ Blacklist(job[w].tok)
    /\ Record(w, <<"token", job[w].tok>>)
    /\ Goto(w, "commit")
    /\ UNCHANGED <<db, issued, todo, guesses, orphans, admins>>

ClearResend(w) ==
    /\ At(w, "unthrottle")
    /\ Delete(Resend(Who(w)))
    /\ Goto(w, "commit")
    /\ UNCHANGED <<db, issued, todo, history>>

CommitUpdate(w) ==
    /\ At(w, "commit")
    /\ db' = IF Op(w) = "enter" THEN [db EXCEPT ![Who(w)].verified = TRUE]
             ELSE [db EXCEPT ![Who(w)].pass = job[w].req.pass]
    /\ End(w)
    /\ UNCHANGED <<redis, issued, todo, history>>

-----------------------------------------------------------------------------
(* Registration and the phone of a profile: look for the value first, then *)
(* write it; only the unique indexes are checked again by the write.       *)
Owner(w) == IF Op(w) = "register" THEN {} ELSE {Who(w)}
Taken(w) == (ByPhone(job[w].req.phone) \cup ByEmail(job[w].req.email)) \ Owner(w) # {}

CheckUnique(w) ==
    /\ At(w, "unique")
    /\ IF Taken(w) THEN End(w) ELSE Goto(w, "write")
    /\ UNCHANGED <<db, redis, issued, todo, history>>

(* A registration gets an id that nobody has.                              *)
Written(w) ==
    IF Op(w) = "register"
    THEN {Put(db, u, [phone |-> job[w].req.phone, email |-> job[w].req.email,
                      pass |-> job[w].req.pass, role |-> "customer",
                      active |-> TRUE, verified |-> FALSE])
             : u \in User \ (DOMAIN db \cup {None})}
    ELSE {[db EXCEPT ![Who(w)].phone = job[w].req.phone]}

WriteUnique(w) ==
    /\ At(w, "write") /\ ~Taken(w) /\ ~RowLocked(Who(w))
    /\ db' \in Written(w)
    /\ End(w)
    /\ UNCHANGED <<redis, issued, todo, history>>

IntegrityError(w) ==
    /\ At(w, "write") /\ Taken(w)
    /\ End(w)
    /\ UNCHANGED <<db, redis, issued, todo, history>>

-----------------------------------------------------------------------------
(* Administrators change the role or the status of other users.            *)
LoadTarget(w) ==
    /\ At(w, "target")
    /\ IF job[w].req.target = Who(w) THEN End(w)
       ELSE job' = [job EXCEPT ![w].pc = "guard", ![w].row = db[job[w].req.target]]
    /\ UNCHANGED <<db, redis, issued, todo, history>>

Unsafe(w) ==
    /\ job[w].row.role = "admin"
    /\ \/ Op(w) = "role" /\ job[w].req.to # "admin" /\ Cardinality(Admins) <= 1
       \/ Op(w) = "status" /\ ~job[w].req.to /\ job[w].row.active
             /\ Cardinality(ActiveAdmins) <= 1

EnsureSafe(w) ==
    /\ At(w, "guard")
    /\ IF Unsafe(w) THEN End(w) ELSE Goto(w, "apply")
    /\ UNCHANGED <<db, redis, issued, todo, history>>

ApplyAdminChange(w) ==
    /\ At(w, "apply") /\ ~RowLocked(job[w].req.target)
    /\ LET field == IF Op(w) = "role" THEN "role" ELSE "active" IN
         db' = IF job[w].row[field] = job[w].req.to THEN db   \* nothing to flush
               ELSE [db EXCEPT ![job[w].req.target][field] = job[w].req.to]
    /\ admins' = [changes |-> admins.changes + 1,
                  overlapped |-> admins.overlapped \/ job[w].epoch # admins.changes]
    /\ End(w)
    /\ UNCHANGED <<redis, issued, todo, used, guesses, orphans>>

-----------------------------------------------------------------------------
(* The process of a worker dies: nothing flushed survives, what Redis      *)
(* holds does.                                                             *)
Crash(w) ==
    /\ job[w] # None
    /\ End(w)
    /\ orphans' = IF job[w].pc = "expire" THEN orphans \cup {Counter(w)} ELSE orphans
    /\ guesses' = IF Op(w) = "login" /\ job[w].pc \in {"count", "expire", "limit"}
                  THEN [guesses EXCEPT !.slack = Put(@, job[w].req.id, Tolerated(job[w].req.id) + 1)]
                  ELSE guesses
    /\ UNCHANGED <<db, redis, issued, todo, used, admins>>

Ending == {k \in DOMAIN redis : redis[k].ttl = 1}
OlderAlways(n) == n - 1             \* mutant: ages what has no life left
Older(n) == IF n > 0 THEN n - 1 ELSE n

(* What the guesses of an identifier are worth when its keys expire: a new *)
(* count when the counter goes, one more round when only the lock does.    *)
Aged(id) ==
    IF Failed(id) \in Ending THEN <<0, Base>>
    ELSE IF Lockout(id) \in Ending THEN <<Guesses(id), Tolerated(id) + Cardinality(Worker)>>
    ELSE <<Guesses(id), Tolerated(id)>>

Tick ==
    /\ \/ \E k \in DOMAIN redis : redis[k].ttl > 0
       \/ \E t \in DOMAIN issued : issued[t].left > 0
    /\ redis' = [k \in DOMAIN redis \ Ending |-> [redis[k] EXCEPT !.ttl = Older(@)]]
    /\ issued' = [t \in DOMAIN issued |-> [issued[t] EXCEPT !.left = Older(@)]]
    /\ guesses' = LET ids == DOMAIN guesses.n \cup DOMAIN guesses.slack IN
                    [n |-> [id \in ids |-> Aged(id)[1]], slack |-> [id \in ids |-> Aged(id)[2]]]
    /\ UNCHANGED <<db, todo, job, used, orphans, admins>>

LoginStep(w) == CheckLock(w) \/ WrongPassword(w) \/ PasswordChecked(w) \/ ClearFailures(w)
                  \/ Increment(w) \/ ExpireCounter(w) \/ LockAccount(w)
SessionStep(w) == DecodeToken(w) \/ LoadUser(w) \/ IssueSession(w) \/ RotateRefreshToken(w)
                    \/ RevokeAccess(w) \/ RevokeRefresh(w)
SecretStep(w) == MailLink(w) \/ MailCode(w) \/ CheckLink(w) \/ CheckCode(w)
                   \/ CheckOldPassword(w) \/ FlushUpdate(w) \/ SpendLink(w) \/ SpendCode(w)
                   \/ SpendAccess(w) \/ ClearResend(w) \/ CommitUpdate(w)
UserStep(w) == CheckUnique(w) \/ WriteUnique(w) \/ IntegrityError(w) \/ LoadTarget(w)
                 \/ EnsureSafe(w) \/ ApplyAdminChange(w)
Step(w) == LoginStep(w) \/ SessionStep(w) \/ SecretStep(w) \/ UserStep(w)

Next == Tick \/ \E w \in Worker : Begin(w) \/ Step(w) \/ Crash(w)

(* asyncio runs every request to its end, and time passes.                 *)
Spec == Init /\ [][Next]_vars /\ WF_vars(Tick)
             /\ \A w \in Worker : WF_vars(Begin(w)) /\ WF_vars(Step(w))
-----------------------------------------------------------------------------
(* Every variable ranges over what the code can store in it.               *)
TypeOK ==
    /\ DOMAIN db \subseteq User
    /\ \A u \in DOMAIN db : db[u].role \in Roles
                            /\ {db[u].active, db[u].verified} \subseteq BOOLEAN
    /\ \A k \in DOMAIN redis : redis[k].ttl \in Nat \cup {Forever}
    /\ \A t \in DOMAIN issued : issued[t].user \in User /\ issued[t].left \in Nat
    /\ \A w \in Worker : job[w] # None => job[w].tok \in {0} \cup DOMAIN issued
                                          /\ job[w].seen \in 0..Len(used)

(* A token that a logout, a password change or a rotation revoked stays on *)
(* the blacklist for as long as its signature would be accepted: the time  *)
(* to live that _seconds_until_expiry gives the key never ends first.      *)
RevokedStaysRefused ==
    \A i \in DOMAIN used :
        LET t == used[i].key[2] IN
          used[i].key[1] = "token" /\ issued[t].left > 0 => Has(Blacklisted(t))

(* A refresh token, a reset link, a code or a session whose password       *)
(* changed is of no use to a request that begins after it was spent: only  *)
(* requests that overlapped the first one, between its check and its       *)
(* delete, get anything out of it again.                                   *)
SpentOnce ==
    \A i, j \in DOMAIN used :
        i < j /\ used[i].key = used[j].key /\ used[j].op \notin {"logout"}
            => used[j].seen < i

(* Passwords tried against one identifier while its counter lives: the     *)
(* limit, one more per request already past the lock, and one round per    *)
(* lock that has run out or request that died before it could count.       *)
GuessesBounded == \A id \in DOMAIN guesses.n : Guesses(id) <= Tolerated(id)

(* The last active administrator is lost only to two changes at the same   *)
(* time, each of which counted the other's target.                         *)
AdminsRemain == ActiveAdmins # {} \/ admins.overlapped

(* No counter outlives its time to live: one without is about to get it    *)
(* from the request that created it, unless that request's process died    *)
(* between INCR and EXPIRE, and then it stays until somebody deletes it.   *)
CountersExpire ==
    \A k \in DOMAIN redis :
        k[1] \in {"failed", "resend"} /\ redis[k].ttl = Forever
            => k \in orphans \/ \E w \in Worker : At(w, "expire") /\ Counter(w) = k
=============================================================================
