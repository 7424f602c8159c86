---------------------------- MODULE AccountProofs ----------------------------
(***************************************************************************)
(* Proofs about accounts and tokens, for every number of workers, every    *)
(* scenario of requests, every users table and all lifetimes of keys.      *)
(*                                                                         *)
(* No step holds a lock on what it has checked.  The properties rest on    *)
(* what stays true of a secret once it was checked: a key of Redis lives   *)
(* at least as long as the token it refuses, and a secret that is spent    *)
(* can only be spent again by a request whose check came before.           *)
(***************************************************************************)
EXTENDS SiteSteps, FiniteSetTheorems

(* The routes that come to each step of the accounts.                      *)
Secrets == {"reset", "enter", "change"}

Staged(j) ==
    /\ j.pc \in {"decode", "load"} => Verified(j.req.op)
    /\ j.pc \in {"lock", "password", "clear"} => j.req.op = "login"
    /\ j.pc \in {"count", "expire", "limit"} => j.req.op \in {"login", "askcode"}
    /\ j.pc = "issue" => j.req.op \in {"login", "refresh"}
    /\ j.pc = "rotate" => j.req.op = "refresh"
    /\ j.pc \in {"revoke", "companion"} => j.req.op = "logout"
    /\ j.pc = "mail" => j.req.op = "forgot"
    /\ j.pc = "link" => j.req.op = "reset"
    /\ j.pc \in {"code", "unthrottle"} => j.req.op = "enter"
    /\ j.pc = "old" => j.req.op = "change"
    /\ j.pc \in {"flush", "spend", "commit"} => j.req.op \in Secrets
    /\ j.pc \in {"unique", "write"} => j.req.op \in {"register", "profile"}
    /\ j.pc \in {"target", "guard", "apply"} => j.req.op \in {"role", "status"}

(* The table: rows keep their columns.                                     *)
UsersKept ==
    /\ DOMAIN db \subseteq User
    /\ \A u \in DOMAIN db :
         /\ DOMAIN db[u] = UserColumns /\ db[u].role \in Roles
         /\ {db[u].active, db[u].verified} \subseteq BOOLEAN

(* What was issued: a session belongs to an account that exists, and a     *)
(* refresh token follows its access token.                                 *)
TokensKept ==
    /\ IsSequence(issued)
    /\ \A t \in DOMAIN issued :
         /\ DOMAIN issued[t] = {"kind", "user", "left"}
         /\ issued[t].user \in User /\ issued[t].left \in Nat
         /\ issued[t].kind \in {"access", "refresh"} => issued[t].user \in DOMAIN db
         /\ issued[t].kind = "access" => Companion(t) \in DOMAIN issued

KeysKept ==
    \A k \in DOMAIN redis : /\ DOMAIN redis[k] = {"val", "ttl"}
                            /\ redis[k].ttl \in Nat \cup {Forever}

(* The histories: what was spent had been issued.                          *)
HistoryKept ==
    /\ IsSequence(used)
    /\ \A i \in DOMAIN used : /\ DOMAIN used[i] = {"key", "op", "seen"}
                              /\ used[i].key[2] \in DOMAIN issued
    /\ admins = [changes |-> admins.changes, overlapped |-> admins.overlapped]
    /\ admins.changes \in Nat

(* What a request presents is what its route asks for, of the user that it *)
(* is served as.                                                           *)
Holds(j) ==
    /\ Presents(j.req.op) = {} => j.tok = 0
    /\ Presents(j.req.op) # {} => /\ j.tok \in DOMAIN issued
                                  /\ issued[j.tok].kind \in Presents(j.req.op)
                                  /\ issued[j.tok].user = j.user
    /\ j.req.op \in {"forgot", "askcode"} => j.user \in User
    /\ j.pc \in {"clear", "issue"} => j.user \in DOMAIN db
    /\ j.seen \in 0..Len(used)
    /\ j.epoch \in 0..admins.changes

JobsKept == \A w \in Worker : job[w] # None => Staged(job[w]) /\ Holds(job[w])

AccountInv == UsersKept /\ TokensKept /\ KeysKept /\ HistoryKept /\ JobsKept

-----------------------------------------------------------------------------
(* A token that was revoked is on the blacklist for as long as it lasts.   *)
Refused(t) ==
    issued[t].left > 0 => /\ Has(Blacklisted(t))
                          /\ redis[Blacklisted(t)].ttl >= issued[t].left

RefusedKept ==
    /\ \A i \in DOMAIN used : used[i].key[1] = "token" => Refused(used[i].key[2])
    /\ \A w \in Worker : At(w, "issue") /\ Op(w) = "refresh" => Refused(job[w].tok)

(* A code that can be entered was issued to its user.                      *)
CodesKept ==
    \A u : Has(Code(u)) =>
        /\ redis[Code(u)].val \in DOMAIN issued
        /\ issued[redis[Code(u)].val].user = u

(* What was spent is not to be had any more, and whoever passed the check  *)
(* of what a request has spent began before that.                          *)
SpentKey(w) ==
    IF Op(w) = "reset" THEN <<"link", job[w].tok>>
    ELSE IF Op(w) = "enter" THEN <<"code", job[w].tok>>
    ELSE <<"token", job[w].tok>>

Checked(w) == /\ job[w] # None /\ Op(w) \in Secrets \cup {"refresh"}
              /\ job[w].pc \notin {"decode", "link", "code"}

Gone ==
    \A i \in DOMAIN used :
        /\ used[i].key[1] = "link" => ~Has(Link(used[i].key[2]))
        /\ used[i].key[1] = "code" =>
             \A u : Has(Code(u)) => redis[Code(u)].val # used[i].key[2]

CheckedBefore ==
    \A w \in Worker : Checked(w) =>
        \A i \in DOMAIN used : used[i].key = SpentKey(w) => job[w].seen < i

SpentKept == CodesKept /\ Gone /\ CheckedBefore /\ SpentOnce

(* An administrator who changes a user is another one, and active, unless  *)
(* a change was committed meanwhile.                                       *)
Apart ==
    \A w \in Worker : job[w] # None /\ job[w].pc \in {"guard", "apply"}
                        => job[w].req.target # Who(w)

AuthorityKept == ActsWithAuthority /\ Apart /\ AdminsRemain

(* What may still be guessed against an identifier.  A wrong password is   *)
(* on its way to the counter while its request is Counting, and to the     *)
(* lock while it is Locking; every other request may be about to add one.  *)
LoggingIn(w, id) == job[w] # None /\ Op(w) = "login" /\ job[w].req.id = id
Locking(w)   == job[w].pc \in {"expire", "limit"} /\ job[w].n >= FailLimit
Trying(id)   == {w \in Worker : LoggingIn(w, id) /\ job[w].pc = "password"}
Counting(id) == {w \in Worker : LoggingIn(w, id) /\ job[w].pc = "count"}
Free(id)     == {w \in Worker : LoggingIn(w, id) => job[w].pc # "count" /\ ~Locking(w)}
Counted(id)  == IF Has(Failed(id)) THEN redis[Failed(id)].val ELSE 0
Locked(id)   == Has(Lockout(id))

(* g guesses of which s are tolerated, f of them counted, with so many     *)
(* requests in each of the sets: before the lock the requests that are     *)
(* free may all guess, and so may one for each failure the counter has to  *)
(* go; under the lock only those past it.  The last conjunct says what is  *)
(* left of the counter when the lock runs out first.                       *)
Balance(g, s, f, free, trying, counting, locked) ==
    /\ ~locked => g + free + (IF f < FailLimit - 1 THEN FailLimit - 1 - f ELSE 0) <= s
    /\ locked => g + trying <= s
    /\ g + FailLimit - 1 <= s + f + counting

Balanced(id) ==
    /\ Guesses(id) \in Nat /\ Tolerated(id) \in Nat /\ Counted(id) \in Nat
    /\ Balance(Guesses(id), Tolerated(id), Counted(id), Cardinality(Free(id)),
               Cardinality(Trying(id)), Cardinality(Counting(id)), Locked(id))

(* Up to the lock a request is as it began, but for its place and count.   *)
Early == {"lock", "password", "count", "expire", "limit"}
EarlyKept ==
    \A w \in Worker : job[w] # None /\ job[w].pc \in Early
        => job[w].row = None /\ job[w].user = job[w].req.user /\ job[w].n \in Nat

CountedKept == \A k \in DOMAIN redis : k[1] \in {"failed", "resend"} => redis[k].val \in Nat

GuessesKept ==
    /\ guesses = [n |-> guesses.n, slack |-> guesses.slack]
    /\ \A id : Balanced(id)

-----------------------------------------------------------------------------
(* What the other components do to the accounts: nothing but to serve the  *)
(* requests that have left their steps, with keys of their own.            *)
OtherStep(w) == CatalogStep(w) \/ StorefrontStep(w) \/ AlertStep(w) \/ LearningStep(w)
                  \/ AgentStep(w) \/ GenerationStep(w)

LEMMA SiteCases ==
  ASSUME [SiteNext]_siteVars
  PROVE  \/ UNCHANGED vars
         \/ Tick
         \/ \E w \in Worker : Begin(w) \/ Step(w) \/ Crash(w) \/ OtherStep(w)
BY DEF SiteNext, SiteTick, Serve, Die, OtherStep, siteVars

(* The steps of the others begin outside the steps of the accounts.        *)
LEMMA OthersStart ==
  ASSUME NEW w \in Worker, OtherStep(w)
  PROVE  job[w] # None /\ job[w].pc \notin AccountSteps
<1>. USE DEF At, AccountSteps
<1>1. CASE CatalogStep(w)
  BY <1>1 DEF CatalogStep, CommandStep, ProductStep, CouponStep, PlanChange, StorePending,
     ClaimPending, RecheckPending, ExecuteChange, ReadProduct, PatchProduct, DelistProduct,
     SellProduct, ReadCoupon, WriteCoupon
<1>2. CASE StorefrontStep(w)
  BY <1>2 DEF StorefrontStep, PageStep, RecommendStep, ParentStep, WishlistStep,
     BestSellerStep, ReorderStep, Browse, GasCards, CardParents, CardVariants, OpenParent,
     ParentVariants, ViewProduct, Recommend, CreateProduct, CreateParent, LoadParent,
     PatchParent, LoadVariants, DropParent, CheckSaved, InsertSaved, Unsave, ListSaved,
     CachedBest, QueryBest, KeepBest, OpenOrder, ReorderLine, RebuiltCart
<1>3. CASE AlertStep(w)
  BY <1>3 DEF AlertStep, LookUpSubscription, InsertSubscription, MailConfirmation,
     CommitSubscription, OpenLink, MarkConfirmed, Unsubscribe, BuildPriceRows,
     ListRecipients, SendNotice, FinishRun
<1>4. CASE LearningStep(w)
  BY <1>4 DEF LearningStep, ReviewStep, ReadAnswer, WriteAnswer, EmbedAnswer, LearnAnswer,
     CreateDocument, ImportDocuments, ReadDocument, EmbedDocument, WriteDocument,
     DropDocument, SearchCache, EmbedQuestion, CacheQuestion, MatchDocuments
<1>5. CASE AgentStep(w)
  BY <1>5 DEF AgentStep, TurnStep, GateStep, StartTurn, Intake, HandOver, EmergencyText,
     Route, RunReadTool, Retrieve, Verify, Respond, StartOrder, Resume, DenyGuest,
     Interrupt, Decision, ClaimCall, ApplyCall, KeepResult
<1>6. CASE GenerationStep(w)
  BY <1>6 DEF GenerationStep, StartMessage, BareCategory, EmbedMessage, AskModel, Judge,
     PlanReply, StartQuestion, CheckSafety, FindDocuments, Generate, Stream, Disconnect, Store
<1>. QED  BY <1>1, <1>2, <1>3, <1>4, <1>5, <1>6 DEF OtherStep

LEMMA OthersAside ==
  ASSUME Shape, NEW w \in Worker, OtherStep(w)
  PROVE  /\ UNCHANGED <<db, issued, todo, used, guesses, orphans, admins>>
         /\ job[w].pc \notin AccountSteps
         /\ \A v \in Worker : v # w => job'[v] = job[v]
         /\ job'[w] # None =>
              /\ job'[w].req = job[w].req /\ job'[w].tok = job[w].tok
              /\ job'[w].seen = job[w].seen /\ job'[w].epoch = job[w].epoch
              /\ Op(w) \notin Naming => job'[w].user = job[w].user
              /\ job'[w].pc \notin AccountSteps
<1>1. job[w].pc \notin AccountSteps /\ job[w] # None
  BY OthersStart
<1>2. job[w].pc # "load" /\ job[w].pc # "password"
  BY <1>1 DEF AccountSteps
<1>3. Op(w) \notin Naming => job[w].pc \notin Naming
  <2>1. job[w].pc \in Routes => job[w].pc = Op(w)
    BY <1>1 DEF Shape, Shaped, Op
  <2>. QED  BY <1>2, <2>1 DEF Naming, Routes, Sessionless
<1>4. ASSUME NEW steps, Moves(w, steps), steps \cap AccountSteps = {}
      PROVE  /\ \A v \in Worker : v # w => job'[v] = job[v]
             /\ job'[w] # None =>
                  /\ job'[w].req = job[w].req /\ job'[w].tok = job[w].tok
                  /\ job'[w].seen = job[w].seen /\ job'[w].epoch = job[w].epoch
                  /\ Op(w) \notin Naming => job'[w].user = job[w].user
                  /\ job'[w].pc \notin AccountSteps
  BY <1>2, <1>3, <1>4 DEF Moves
<1>5. CASE CatalogStep(w)
  BY <1>1, <1>4, <1>5, CatalogMoves, StepsApart DEF history
<1>6. CASE StorefrontStep(w)
  BY <1>1, <1>4, <1>6, StorefrontMoves, StepsApart DEF history, Beyond
<1>7. CASE AlertStep(w)
  BY <1>1, <1>4, <1>7, AlertMoves, StepsApart DEF history, Elsewhere
<1>8. CASE LearningStep(w)
  BY <1>1, <1>4, <1>8, LearningMoves, StepsApart DEF history
<1>9. CASE AgentStep(w)
  BY <1>1, <1>4, <1>9, AgentMoves, StepsApart DEF history, OutsideAgent
<1>10. CASE GenerationStep(w)
  BY <1>1, <1>4, <1>10, GenerationMoves, StepsApart DEF history, OutsideGeneration
<1>. QED  BY <1>5, <1>6, <1>7, <1>8, <1>9, <1>10 DEF OtherStep

(* Their entries of Redis have other keys.                                 *)
LEMMA OthersKeys ==
  ASSUME Shape, NEW w \in Worker, OtherStep(w), NEW k, k[1] \in AccountKeys
  PROVE  /\ k \in DOMAIN redis' <=> k \in DOMAIN redis
         /\ k \in DOMAIN redis => redis'[k] = redis[k]
<1>1. k[1] \notin {"pending"} /\ k[1] \notin {"question"} /\ k[1] \notin AgentKeys
  BY DEF AccountKeys, AgentKeys
<1>2. CASE CatalogStep(w)
  BY <1>1, <1>2, CatalogRedis, KeysApart
<1>3. CASE LearningStep(w)
  BY <1>1, <1>3, LearningRedis, KeysApart
<1>4. CASE AgentStep(w)
  BY <1>1, <1>4, AgentRedis, KeysApart
<1>5. CASE UNCHANGED redis
  BY <1>5
<1>. QED  BY <1>2, <1>3, <1>4, <1>5, StorefrontMoves, AlertMoves, GenerationMoves
          DEF OtherStep, Beyond, Elsewhere, OutsideGeneration

(* What they store has a time to live.                                     *)
LEMMA OthersLive ==
  ASSUME Shape, NEW w \in Worker, OtherStep(w), KeysKept
  PROVE  KeysKept'
<1>1. ASSUME NEW k, NEW v, NEW ttl \in Nat, SetEx(k, v, ttl)
      PROVE  KeysKept'
  BY <1>1 DEF SetEx, Put, KeysKept
<1>2. ASSUME NEW k, Delete(k)
      PROVE  KeysKept'
  BY <1>2 DEF Delete, KeysKept
<1>3. CASE UNCHANGED redis
  BY <1>3 DEF KeysKept
<1>4. PendingTtl \in Nat /\ Ttl.query \in Nat
  BY CatalogueAssumption, ServiceAssumption
<1>5. CASE CatalogStep(w)
  BY <1>1, <1>2, <1>3, <1>4, <1>5 DEF CatalogStep, CommandStep, ProductStep, CouponStep,
     PlanChange, StorePending, ClaimPending, RecheckPending, ExecuteChange, ReadProduct,
     PatchProduct, DelistProduct, SellProduct, ReadCoupon, WriteCoupon
<1>6. CASE LearningStep(w)
  BY <1>1, <1>2, <1>3, <1>4, <1>6 DEF LearningStep, ReviewStep, OutsideLearning, ReadAnswer,
     WriteAnswer, EmbedAnswer, LearnAnswer, CreateDocument, ImportDocuments, ReadDocument,
     EmbedDocument, WriteDocument, DropDocument, SearchCache, EmbedQuestion, CacheQuestion,
     MatchDocuments
<1>7. CASE AgentStep(w)
  BY <1>1, <1>2, <1>3, <1>4, <1>7 DEF AgentStep, TurnStep, GateStep, StartTurn, Intake,
     HandOver, EmergencyText, Route, RunReadTool, Retrieve, Verify, Respond, StartOrder,
     Resume, DenyGuest, Interrupt, Decision, ClaimCall, ApplyCall, KeepResult, Enter, StoreCall
<1>. QED  BY <1>3, <1>5, <1>6, <1>7, StorefrontMoves, AlertMoves, GenerationMoves
          DEF OtherStep, Beyond, Elsewhere, OutsideGeneration

-----------------------------------------------------------------------------
(* What each step of the accounts changes.                                 *)
LEMMA StepFrames ==
  ASSUME NEW w \in Worker, Step(w)
  PROVE  /\ UNCHANGED db \/ CommitUpdate(w) \/ WriteUnique(w) \/ ApplyAdminChange(w)
         /\ UNCHANGED issued \/ IssueSession(w) \/ MailLink(w) \/ MailCode(w)
         /\ UNCHANGED used \/ IssueSession(w) \/ RevokeAccess(w) \/ RevokeRefresh(w)
              \/ SpendLink(w) \/ SpendCode(w) \/ SpendAccess(w)
         /\ UNCHANGED admins \/ ApplyAdminChange(w)
         /\ UNCHANGED guesses \/ WrongPassword(w) \/ ClearFailures(w)
         /\ UNCHANGED orphans
         /\ \/ UNCHANGED redis
            \/ ClearFailures(w) \/ Increment(w) \/ ExpireCounter(w) \/ LockAccount(w)
            \/ RotateRefreshToken(w) \/ RevokeAccess(w) \/ RevokeRefresh(w)
            \/ MailLink(w) \/ MailCode(w) \/ SpendLink(w) \/ SpendCode(w)
            \/ SpendAccess(w) \/ ClearResend(w)
<1>. USE DEF history
<1>1. CASE LoginStep(w)
  BY <1>1 DEF LoginStep, CheckLock, WrongPassword, PasswordChecked, ClearFailures, Increment,
     ExpireCounter, LockAccount
<1>2. CASE SessionStep(w)
  BY <1>2 DEF SessionStep, DecodeToken, LoadUser, IssueSession, RotateRefreshToken,
     RevokeAccess, RevokeRefresh
<1>3. CASE SecretStep(w)
  BY <1>3 DEF SecretStep, MailLink, MailCode, CheckLink, CheckCode, CheckOldPassword,
     FlushUpdate, SpendLink, SpendCode, SpendAccess, ClearResend, CommitUpdate
<1>4. CASE UserStep(w)
  BY <1>4 DEF UserStep, CheckUnique, WriteUnique, IntegrityError, LoadTarget, EnsureSafe,
     ApplyAdminChange
<1>. QED  BY <1>1, <1>2, <1>3, <1>4 DEF Step

(* A session is appended as two tokens, and a secret as one.               *)
LEMMA SessionIs ==
  ASSUME NEW u
  PROVE  /\ Session(u) = [i \in 1..2 |-> Session(u)[i]]
         /\ Session(u)[1] = Secret("access", u, Ttl.access)
         /\ Session(u)[2] = Secret("refresh", u, Ttl.refresh)
BY DEF Session

(* What is recorded is appended to what was spent.                         *)
LEMMA UsedGrows ==
  ASSUME HistoryKept, NEW w \in Worker, Step(w)
  PROVE  \/ UNCHANGED used
         \/ \E k : Record(w, k)
BY StepFrames DEF IssueSession, RevokeAccess, RevokeRefresh, SpendLink, SpendCode, SpendAccess

(* Nothing is taken back: rows, tokens and records stay.                   *)
Widens ==
    /\ DOMAIN db \subseteq DOMAIN db'
    /\ DOMAIN issued \subseteq DOMAIN issued'
    /\ \A t \in DOMAIN issued : issued'[t] = issued[t]
    /\ Len(used) \in Nat /\ Len(used') \in Nat /\ Len(used) <= Len(used')
    /\ DOMAIN used = 1..Len(used) /\ DOMAIN used' = 1..Len(used')
    /\ \A i \in DOMAIN used : used'[i] = used[i]
    /\ admins.changes \in Nat /\ admins'.changes \in Nat
    /\ admins.changes <= admins'.changes

LEMMA StepWidens ==
  ASSUME AccountInv, NEW w \in Worker, Step(w)
  PROVE  Widens
<1>1. DOMAIN db \subseteq DOMAIN db'
  <2>1. CASE WriteUnique(w)
    BY <2>1 DEF WriteUnique, Written, Put
  <2>2. CASE ApplyAdminChange(w)
    BY <2>2 DEF ApplyAdminChange
  <2>3. CASE CommitUpdate(w)
    BY <2>3 DEF CommitUpdate
  <2>. QED  BY <2>1, <2>2, <2>3, StepFrames
<1>2. /\ DOMAIN issued \subseteq DOMAIN issued'
      /\ \A t \in DOMAIN issued : issued'[t] = issued[t]
  <2>0. IsSequence(issued)
    BY DEF AccountInv, TokensKept
  <2>1. CASE IssueSession(w)
    <3>1. issued' = issued \o Session(Who(w))
      BY <2>1 DEF IssueSession
    <3>. QED  BY <2>0, <3>1, ConcatIs, SessionIs
  <2>2. CASE MailLink(w) \/ MailCode(w)
    <3>1. UNCHANGED issued \/ \E e : issued' = Append(issued, e)
      BY <2>2 DEF MailLink, MailCode
    <3>. QED  BY <2>0, <3>1, AppendIs
  <2>. QED  BY <2>1, <2>2, StepFrames
<1>3. /\ Len(used) \in Nat /\ Len(used') \in Nat /\ Len(used) <= Len(used')
      /\ DOMAIN used = 1..Len(used) /\ DOMAIN used' = 1..Len(used')
      /\ \A i \in DOMAIN used : used'[i] = used[i]
  <2>0. HistoryKept /\ IsSequence(used)
    BY DEF AccountInv, HistoryKept
  <2>1. Len(used) \in Nat /\ DOMAIN used = 1..Len(used)
    BY <2>0 DEF IsSequence
  <2>2. CASE UNCHANGED used
    BY <2>1, <2>2
  <2>3. ASSUME NEW e, used' = Append(used, e)
        PROVE  /\ DOMAIN used' = 1..(Len(used) + 1) /\ Len(used') = Len(used) + 1
               /\ \A i \in DOMAIN used : used'[i] = used[i]
    BY <2>0, <2>3, AppendIs
  <2>4. CASE \E k : Record(w, k)
    <3>1. PICK k : Record(w, k)
      BY <2>4
    <3>. DEFINE e == [key |-> k, op |-> Op(w), seen |-> job[w].seen]
    <3>2. used' = Append(used, e)
      BY <3>1 DEF Record
    <3>. HIDE DEF e
    <3>3. /\ DOMAIN used' = 1..(Len(used) + 1) /\ Len(used') = Len(used) + 1
          /\ \A i \in DOMAIN used : used'[i] = used[i]
      BY <2>3, <3>2
    <3>. QED  BY <2>1, <3>3
  <2>. QED  BY <2>0, <2>2, <2>4, UsedGrows
<1>4. /\ admins.changes \in Nat /\ admins'.changes \in Nat
      /\ admins.changes <= admins'.changes
  <2>1. admins.changes \in Nat
    BY DEF AccountInv, HistoryKept
  <2>2. CASE ApplyAdminChange(w)
    <3>1. admins'.changes = admins.changes + 1
      BY <2>2 DEF ApplyAdminChange
    <3>. QED  BY <2>1, <3>1
  <2>. QED  BY <2>1, <2>2, StepFrames
<1>. QED  BY <1>1, <1>2, <1>3, <1>4 DEF Widens

(* What a request may ask.                                                 *)
LEMMA RequestTyped ==
  ASSUME NEW r \in Requested
  PROVE  /\ r.op \in Routes
         /\ r.op \in {"forgot", "askcode"} => r.user \in User
         /\ r.op = "role" => r.to \in Roles
         /\ r.op = "status" => r.to \in BOOLEAN
<1>1. PICK s \in Scenario, v \in Worker : \E i \in DOMAIN s[v] : r = s[v][i]
  BY RequestIsAsked
<1>2. PICK i \in DOMAIN s[v] : r = s[v][i]
  BY <1>1
<1>3. /\ s[v][i].op \in {"forgot", "askcode"} => s[v][i].user \in User
      /\ s[v][i].op = "role" => s[v][i].to \in Roles
      /\ s[v][i].op = "status" => s[v][i].to \in BOOLEAN
  BY ONLY AccountsAssumption
<1>. QED  BY <1>2, <1>3, RequestedRouted

(* The jobs of an account step.                                            *)
LEMMA JobIs ==
  ASSUME Shape, AccountInv, NEW w \in Worker, job[w] # None
  PROVE  /\ DOMAIN job = Worker /\ DOMAIN job[w] = Fields
         /\ Req(w) \in Requested /\ Op(w) \in Routes
         /\ Staged(job[w]) /\ Holds(job[w])
BY RequestedRouted DEF Shape, Shaped, AccountInv, JobsKept, Req, Op

LEMMA UsersStep ==
  ASSUME Shape, AccountInv, NEW w \in Worker, Step(w)
  PROVE  UsersKept'
<1>1. UsersKept
  BY DEF AccountInv
<1>2. CASE UNCHANGED db
  BY <1>1, <1>2 DEF UsersKept
<1>3. CASE CommitUpdate(w)
  <2>1. ASSUME NEW u, db' = [db EXCEPT ![u].verified = TRUE]
        PROVE  UsersKept'
    BY <1>1, <2>1 DEF UsersKept, UserColumns
  <2>2. ASSUME NEW u, NEW x, db' = [db EXCEPT ![u].pass = x]
        PROVE  UsersKept'
    BY <1>1, <2>2 DEF UsersKept, UserColumns
  <2>. QED  BY <1>3, <2>1, <2>2 DEF CommitUpdate
<1>4. CASE WriteUnique(w)
  <2>1. CASE Op(w) = "register"
    <3>1. PICK u \in User \ (DOMAIN db \cup {None}) :
             db' = Put(db, u, [phone |-> job[w].req.phone, email |-> job[w].req.email,
                               pass |-> job[w].req.pass, role |-> "customer",
                               active |-> TRUE, verified |-> FALSE])
      BY <1>4, <2>1 DEF WriteUnique, Written
    <3>. QED  BY <1>1, <3>1 DEF UsersKept, Put, UserColumns, Roles
  <2>2. CASE Op(w) # "register"
    <3>1. db' = [db EXCEPT ![Who(w)].phone = job[w].req.phone]
      BY <1>4, <2>2 DEF WriteUnique, Written
    <3>. QED  BY <1>1, <3>1 DEF UsersKept, UserColumns
  <2>. QED  BY <2>1, <2>2
<1>5. CASE ApplyAdminChange(w)
  <2>1. job[w] # None /\ job[w].pc = "apply"
    BY <1>5 DEF ApplyAdminChange, At
  <2>2. Op(w) \in {"role", "status"} /\ Req(w) \in Requested
    BY <2>1, JobIs DEF Staged, Op
  <2>3. /\ Op(w) = "role" => job[w].req.to \in Roles
        /\ Op(w) = "status" => job[w].req.to \in BOOLEAN
    BY <2>2, RequestTyped DEF Op, Req
  <2>4. CASE UNCHANGED db
    BY <1>1, <2>4 DEF UsersKept
  <2>5. CASE Op(w) = "role" /\ db' = [db EXCEPT ![job[w].req.target].role = job[w].req.to]
    BY <1>1, <2>3, <2>5 DEF UsersKept, UserColumns
  <2>6. CASE Op(w) = "status" /\ db' = [db EXCEPT ![job[w].req.target].active = job[w].req.to]
    BY <1>1, <2>3, <2>6 DEF UsersKept, UserColumns
  <2>. QED  BY <1>5, <2>2, <2>4, <2>5, <2>6 DEF ApplyAdminChange
<1>. QED  BY <1>2, <1>3, <1>4, <1>5, StepFrames

(* A user who gets a session exists, and so does one who gets a mail.      *)
LEMMA TokensStep ==
  ASSUME Shape, AccountInv, NEW w \in Worker, Step(w)
  PROVE  TokensKept'
<1>1. /\ IsSequence(issued) /\ TokensKept
      /\ DOMAIN db \subseteq User /\ DOMAIN db \subseteq DOMAIN db'
      /\ DOMAIN issued = 1..Len(issued) /\ Len(issued) \in Nat
  BY StepWidens DEF AccountInv, TokensKept, UsersKept, Widens, IsSequence
<1>2. Ttl.access \in Nat /\ Ttl.refresh \in Nat /\ Ttl.link \in Nat /\ Ttl.code \in Nat
  BY ServiceAssumption
<1>3. CASE UNCHANGED issued
  BY <1>1, <1>3 DEF TokensKept
<1>4. ASSUME NEW kind \in {"link", "code"}, NEW u \in User, NEW left \in Nat,
             issued' = Append(issued, Secret(kind, u, left))
      PROVE  TokensKept'
  <2>. DEFINE s == Secret(kind, u, left)
  <2>1. DOMAIN s = {"kind", "user", "left"} /\ s.user \in User /\ s.left \in Nat
        /\ s.kind \notin {"access", "refresh"}
    BY <1>4 DEF Secret
  <2>. HIDE DEF s
  <2>2. /\ IsSequence(issued') /\ DOMAIN issued' = 1..(Len(issued) + 1)
        /\ issued'[Len(issued) + 1] = s
        /\ \A t \in DOMAIN issued : issued'[t] = issued[t]
    BY <1>1, <1>4, AppendIs DEF s
  <2>3. ASSUME NEW t \in DOMAIN issued'
        PROVE  \/ t \in DOMAIN issued /\ issued'[t] = issued[t]
               \/ issued'[t] = s
    BY <1>1, <2>2
  <2>. QED  BY <1>1, <2>1, <2>2, <2>3 DEF TokensKept, Companion
<1>5. CASE IssueSession(w)
  <2>1. Who(w) \in DOMAIN db /\ issued' = issued \o Session(Who(w))
    BY <1>5, JobIs DEF IssueSession, At, Holds, Who
  <2>. DEFINE n == Len(issued)
              a == Secret("access", Who(w), Ttl.access)
              r == Secret("refresh", Who(w), Ttl.refresh)
  <2>2. /\ DOMAIN a = {"kind", "user", "left"} /\ a.user = Who(w) /\ a.left \in Nat
        /\ DOMAIN r = {"kind", "user", "left"} /\ r.user = Who(w) /\ r.left \in Nat
        /\ r.kind # "access"
    BY <1>2 DEF Secret
  <2>3. /\ IsSequence(issued') /\ DOMAIN issued' = 1..(n + 2)
        /\ \A t \in DOMAIN issued : issued'[t] = issued[t]
        /\ \A t \in DOMAIN issued' \ DOMAIN issued :
             t - n \in 1..2 /\ issued'[t] = Session(Who(w))[t - n]
    <3>1. PICK q : q = Session(Who(w))
      OBVIOUS
    <3>2. PICK m \in Nat : m = 2
      OBVIOUS
    <3>3. q = [i \in 1..m |-> q[i]]
      BY <3>1, <3>2, SessionIs
    <3>4. IsSequence(issued)
      BY <1>1
    <3>5. /\ IsSequence(issued \o q)
          /\ DOMAIN issued = 1..Len(issued) /\ Len(issued) \in Nat
          /\ DOMAIN (issued \o q) = 1..(Len(issued) + m)
          /\ \A t \in DOMAIN issued : (issued \o q)[t] = issued[t]
          /\ \A t \in DOMAIN (issued \o q) \ DOMAIN issued :
                t - Len(issued) \in 1..m /\ (issued \o q)[t] = q[t - Len(issued)]
      BY ONLY <3>2, <3>3, <3>4, ConcatIs
    <3>6. issued' = issued \o q
      BY <2>1, <3>1
    <3>. QED  BY ONLY <3>1, <3>2, <3>5, <3>6
  <2>4. ASSUME NEW t \in DOMAIN issued'
        PROVE  \/ t \in DOMAIN issued /\ issued'[t] = issued[t]
               \/ t = n + 1 /\ issued'[t] = a
               \/ t = n + 2 /\ issued'[t] = r
    BY <1>1, <2>3, SessionIs
  <2>. HIDE DEF a, r
  <2>. QED  BY <1>1, <2>1, <2>2, <2>3, <2>4 DEF TokensKept, Companion
<1>6. CASE MailLink(w)
  <2>1. Who(w) \in User
    BY <1>6, JobIs DEF MailLink, At, Staged, Holds, Who
  <2>. QED  BY <1>2, <1>4, <1>6, <2>1 DEF MailLink
<1>7. CASE MailCode(w)
  <2>1. Who(w) \in User
    BY <1>7, JobIs DEF MailCode, At, Op, Holds, Who
  <2>. QED  BY <1>2, <1>3, <1>4, <1>7, <2>1 DEF MailCode
<1>. QED  BY <1>3, <1>5, <1>6, <1>7, StepFrames

(* A key lives for the rest of its token, or for a fixed time.             *)
LEMMA KeysStep ==
  ASSUME Shape, AccountInv, NEW w \in Worker, Step(w)
  PROVE  KeysKept'
<1>1. KeysKept
  BY DEF AccountInv
<1>2. CASE UNCHANGED redis
  BY <1>1, <1>2 DEF KeysKept
<1>3. ASSUME NEW k, NEW v, NEW ttl \in Nat \cup {Forever}, SetEx(k, v, ttl)
      PROVE  KeysKept'
  BY <1>1, <1>3 DEF SetEx, Put, KeysKept
<1>4. ASSUME NEW k, Delete(k)
      PROVE  KeysKept'
  BY <1>1, <1>4 DEF Delete, KeysKept
<1>5. ASSUME NEW k, NEW ttl \in Nat, Expire(k, ttl)
      PROVE  KeysKept'
  BY <1>1, <1>5 DEF Expire, Has, KeysKept
<1>6. ASSUME NEW t \in DOMAIN issued, Blacklist(t)
      PROVE  KeysKept'
  <2>1. SecondsUntilExpiry(t) \in Nat
    BY <1>6 DEF SecondsUntilExpiry, AccountInv, TokensKept
  <2>. QED  BY <1>3, <1>6, <2>1 DEF Blacklist
<1>7. /\ Ttl.failed \in Nat /\ Ttl.lockout \in Nat /\ Ttl.resend \in Nat
      /\ Ttl.link \in Nat /\ Ttl.code \in Nat
  BY ServiceAssumption
<1>8. ASSUME job[w] # None, Op(w) \in {"refresh", "logout", "change"}
      PROVE  job[w].tok \in DOMAIN issued
  BY <1>8, JobIs DEF Holds, Op, Presents, Sessionless
<1>9. CASE ClearFailures(w) \/ SpendLink(w) \/ SpendCode(w) \/ ClearResend(w)
  BY <1>4, <1>9 DEF ClearFailures, SpendLink, SpendCode, ClearResend
<1>10. CASE Increment(w)
  <2>. DEFINE k == Counter(w)
              n == IF Has(k) THEN redis[k].val + 1 ELSE 1
              life == IF Has(k) THEN redis[k].ttl ELSE Forever
  <2>1. SetEx(k, n, life)
    BY <1>10 DEF Increment
  <2>2. life \in Nat \cup {Forever}
    BY <1>1 DEF KeysKept, Has
  <2>. HIDE DEF k, n, life
  <2>. QED  BY <1>3, <2>1, <2>2
<1>11. CASE ExpireCounter(w)
  BY <1>5, <1>7, <1>11 DEF ExpireCounter, CounterTtl
<1>12. CASE LockAccount(w)
  BY <1>2, <1>3, <1>7, <1>12 DEF LockAccount
<1>13. CASE RotateRefreshToken(w)
  BY <1>6, <1>8, <1>13, JobIs DEF RotateRefreshToken, At, Staged, Op
<1>14. CASE RevokeAccess(w)
  BY <1>2, <1>6, <1>8, <1>14, JobIs DEF RevokeAccess, At, Staged, Op
<1>15. CASE RevokeRefresh(w)
  <2>1. job[w].tok \in DOMAIN issued /\ issued[job[w].tok].kind = "access"
    BY <1>8, <1>15, JobIs DEF RevokeRefresh, At, Staged, Holds, Op, Presents, Sessionless
  <2>2. Companion(job[w].tok) \in DOMAIN issued
    BY <2>1 DEF AccountInv, TokensKept
  <2>. QED  BY <1>2, <1>6, <1>15, <2>2 DEF RevokeRefresh
<1>16. CASE SpendAccess(w)
  BY <1>6, <1>8, <1>16 DEF SpendAccess, At
<1>17. CASE MailLink(w)
  BY <1>3, <1>7, <1>17 DEF MailLink
<1>18. CASE MailCode(w)
  BY <1>2, <1>3, <1>7, <1>18 DEF MailCode
<1>. QED  BY <1>2, <1>9, <1>10, <1>11, <1>12, <1>13, <1>14, <1>15, <1>16, <1>17, <1>18,
             StepFrames

(* What a step records is what its request presented.                      *)
LEMMA RecordedKey ==
  ASSUME Shape, AccountInv, NEW w \in Worker, Step(w)
  PROVE  \/ UNCHANGED used
         \/ \E k : k[2] \in DOMAIN issued /\ Record(w, k)
<1>1. ASSUME job[w] # None, Presents(Op(w)) # {}
      PROVE  job[w].tok \in DOMAIN issued
  BY <1>1, JobIs DEF Holds, Op
<1>2. CASE IssueSession(w)
  <2>1. Op(w) = "refresh" => <<"token", job[w].tok>>[2] \in DOMAIN issued
    BY <1>1, <1>2 DEF IssueSession, At, Presents, Sessionless
  <2>. QED  BY <1>2, <2>1 DEF IssueSession
<1>3. CASE RevokeAccess(w)
  <2>1. <<"token", job[w].tok>>[2] \in DOMAIN issued
    BY <1>1, <1>3, JobIs DEF RevokeAccess, At, Staged, Op, Presents, Sessionless
  <2>. QED  BY <1>3, <2>1 DEF RevokeAccess
<1>4. CASE RevokeRefresh(w)
  <2>1. job[w].tok \in DOMAIN issued /\ issued[job[w].tok].kind = "access"
    BY <1>1, <1>4, JobIs DEF RevokeRefresh, At, Staged, Holds, Op, Presents, Sessionless
  <2>2. <<"token", Companion(job[w].tok)>>[2] \in DOMAIN issued
    BY <2>1 DEF AccountInv, TokensKept
  <2>. QED  BY <1>4, <2>2 DEF RevokeRefresh
<1>5. CASE SpendLink(w)
  <2>1. <<"link", job[w].tok>>[2] \in DOMAIN issued
    BY <1>1, <1>5 DEF SpendLink, At, Presents, Sessionless
  <2>. QED  BY <1>5, <2>1 DEF SpendLink
<1>6. CASE SpendCode(w)
  <2>1. <<"code", job[w].tok>>[2] \in DOMAIN issued
    BY <1>1, <1>6 DEF SpendCode, At, Presents, Sessionless
  <2>. QED  BY <1>6, <2>1 DEF SpendCode
<1>7. CASE SpendAccess(w)
  <2>1. <<"token", job[w].tok>>[2] \in DOMAIN issued
    BY <1>1, <1>7 DEF SpendAccess, At, Presents, Sessionless
  <2>. QED  BY <1>7, <2>1 DEF SpendAccess
<1>. QED  BY <1>2, <1>3, <1>4, <1>5, <1>6, <1>7, StepFrames

LEMMA HistoryStep ==
  ASSUME Shape, AccountInv, NEW w \in Worker, Step(w)
  PROVE  HistoryKept'
<1>1. HistoryKept /\ DOMAIN issued \subseteq DOMAIN issued'
  BY StepWidens DEF AccountInv, Widens
<1>2. /\ admins' = [changes |-> admins'.changes, overlapped |-> admins'.overlapped]
      /\ admins'.changes \in Nat
  <2>1. CASE ApplyAdminChange(w)
    BY <1>1, <2>1 DEF ApplyAdminChange, HistoryKept
  <2>. QED  BY <1>1, <2>1, StepFrames DEF HistoryKept
<1>3. CASE UNCHANGED used
  BY <1>1, <1>2, <1>3 DEF HistoryKept
<1>4. ASSUME NEW k, k[2] \in DOMAIN issued, Record(w, k)
      PROVE  HistoryKept'
  <2>1. PICK e : e = [key |-> k, op |-> Op(w), seen |-> job[w].seen]
    OBVIOUS
  <2>2. used' = Append(used, e) /\ DOMAIN e = {"key", "op", "seen"} /\ e.key[2] \in DOMAIN issued
    BY <1>4, <2>1 DEF Record
  <2>3. IsSequence(used)
    BY <1>1 DEF HistoryKept
  <2>4. /\ IsSequence(used') /\ DOMAIN used' = 1..(Len(used) + 1)
        /\ DOMAIN used = 1..Len(used)
        /\ used'[Len(used) + 1] = e
        /\ \A i \in DOMAIN used : used'[i] = used[i]
    BY <2>2, <2>3, AppendIs
  <2>5. ASSUME NEW i \in DOMAIN used'
        PROVE  \/ i \in DOMAIN used /\ used'[i] = used[i]
               \/ used'[i] = e
    BY <2>3, <2>4 DEF IsSequence
  <2>. QED  BY <1>1, <1>2, <2>2, <2>4, <2>5 DEF HistoryKept
<1>. QED  BY <1>3, <1>4, RecordedKey

(* What others have read and presented is still there.                     *)
LEMMA HoldsWidens ==
  ASSUME Widens, TokensKept, NEW j, Holds(j)
  PROVE  Holds(j)'
<1>1. j.seen \in 0..Len(used)' /\ j.epoch \in 0..admins'.changes
  BY DEF Widens, Holds
<1>2. DOMAIN db \subseteq DOMAIN db' /\ DOMAIN issued \subseteq DOMAIN issued'
      /\ \A t \in DOMAIN issued : issued'[t].kind = issued[t].kind /\ issued'[t].user = issued[t].user
  BY DEF Widens
<1>. QED  BY <1>1, <1>2 DEF Holds

(* Where a handler begins is a step of its route.                          *)
LEMMA HandlerStaged ==
  ASSUME NEW j, j.req.op \in Routes, j.pc = HandlerOf(j.req.op)
  PROVE  Staged(j) /\ j.pc \notin {"clear", "issue", "guard", "apply", "spend"}
<1>. DEFINE op == j.req.op
<1>1. CASE op \in DOMAIN Handler
  <2>1. DOMAIN Handler = {"login", "register", "forgot", "askcode", "refresh", "logout",
                          "change", "profile", "role", "status", "reset", "enter"}
    BY DEF Handler
  <2>2. /\ Handler["login"] = "lock" /\ Handler["register"] = "unique"
        /\ Handler["forgot"] = "mail" /\ Handler["askcode"] = "count"
        /\ Handler["refresh"] = "rotate" /\ Handler["logout"] = "revoke"
        /\ Handler["change"] = "old" /\ Handler["profile"] = "unique"
        /\ Handler["role"] = "target" /\ Handler["status"] = "target"
        /\ Handler["reset"] = "link" /\ Handler["enter"] = "code"
    BY DEF Handler
  <2>. QED  BY <1>1, <2>1, <2>2 DEF HandlerOf, Staged
<1>2. CASE op \notin DOMAIN Handler
  <2>1. j.pc = op /\ op \notin AccountSteps
    BY <1>2, StepsApart DEF HandlerOf
  <2>. QED  BY ONLY <2>1 DEF Staged, AccountSteps
<1>. QED  BY <1>1, <1>2

LEMMA JobsStep ==
  ASSUME Shape, AccountInv, NEW w \in Worker, Step(w)
  PROVE  JobsKept'
<1>. DEFINE Good == Staged(job[w])' /\ Holds(job[w])'
<1>0. PICK old : old = job[w]
  OBVIOUS
<1>1. /\ job[w] # None /\ DOMAIN job = Worker /\ DOMAIN job[w] = Fields
      /\ \A v \in Worker : v # w => job'[v] = job[v]
      /\ Op(w) \in Routes /\ Staged(job[w]) /\ Holds(job[w]) /\ Holds(old)'
  <2>1. /\ job[w] # None /\ \A v \in Worker : v # w => job'[v] = job[v]
    BY AccountMoves DEF Moves
  <2>2. Staged(job[w]) /\ Holds(job[w])
    BY <2>1, JobIs
  <2>3. Holds(old) /\ Widens /\ TokensKept
    BY <1>0, <2>2, StepWidens DEF AccountInv
  <2>4. Holds(old)'
    BY <2>3, HoldsWidens
  <2>. QED  BY <2>1, <2>2, <2>4, JobIs
<1>2. DOMAIN db \subseteq DOMAIN db' /\ admins.changes \in Nat /\ admins'.changes \in Nat
      /\ admins.changes <= admins'.changes
  BY StepWidens DEF Widens
<1>3. ASSUME NEW pc, Goto(w, pc), pc \in {"clear", "issue"} => Who(w) \in DOMAIN db,
             \A j : j.pc = pc /\ j.req = job[w].req => Staged(j)
      PROVE  Good
  <2>1. /\ job'[w].pc = pc /\ job'[w].req = job[w].req /\ job'[w].tok = job[w].tok
        /\ job'[w].user = job[w].user /\ job'[w].seen = job[w].seen
        /\ job'[w].epoch = job[w].epoch
    BY <1>1, <1>3 DEF Goto, Fields
  <2>2. Staged(job[w])'
    BY <1>3, <2>1
  <2>3. Holds(job[w])'
    BY <1>0, <1>1, <1>2, <1>3, <2>1 DEF Holds, Who
  <2>. QED  BY <2>2, <2>3
<1>4. ASSUME End(w)
      PROVE  job'[w] = None
  BY <1>1, <1>4 DEF End
<1>26. ASSUME NEW v \in Worker, v # w, job[v] # None
       PROVE  Staged(job[v])' /\ Holds(job[v])'
  <2>1. PICK j : j = job[v]
    OBVIOUS
  <2>2. Staged(j) /\ Holds(j) /\ Widens /\ TokensKept
    BY <1>26, <2>1, StepWidens DEF AccountInv, JobsKept
  <2>3. Holds(j)' /\ job'[v] = j
    BY <1>1, <1>26, <2>1, <2>2, HoldsWidens
  <2>. QED  BY ONLY <2>2, <2>3 DEF Staged, Holds
<1>. DEFINE OK == job'[w] # None => Good
<1>. SUFFICES OK
  BY <1>1, <1>26 DEF JobsKept
<1>. USE DEF At, Staged, Op
<1>5. CASE CheckLock(w)
  BY <1>1, <1>3, <1>4, <1>5 DEF CheckLock
<1>6. CASE WrongPassword(w)
  BY <1>1, <1>3, <1>6 DEF WrongPassword
<1>7. CASE ClearFailures(w)
  BY <1>1, <1>3, <1>7 DEF ClearFailures, Holds, Who
<1>8. CASE ExpireCounter(w)
  BY <1>1, <1>3, <1>8 DEF ExpireCounter
<1>9. CASE DecodeToken(w)
  BY <1>1, <1>3, <1>4, <1>9 DEF DecodeToken
<1>10. CASE RotateRefreshToken(w)
  <2>1. Op(w) = "refresh" /\ Goto(w, "issue")
    BY <1>1, <1>10 DEF RotateRefreshToken
  <2>2. Who(w) \in DOMAIN db
    BY <1>1, <2>1 DEF Holds, Presents, Sessionless, AccountInv, TokensKept, Who
  <2>. QED  BY <1>3, <2>1, <2>2
<1>11. CASE RevokeAccess(w)
  BY <1>1, <1>3, <1>4, <1>11 DEF RevokeAccess
<1>12. CASE CheckLink(w)
  BY <1>1, <1>3, <1>4, <1>12 DEF CheckLink, Secrets
<1>13. CASE CheckCode(w)
  BY <1>1, <1>3, <1>4, <1>13 DEF CheckCode, Secrets
<1>14. CASE CheckOldPassword(w)
  BY <1>1, <1>3, <1>4, <1>14 DEF CheckOldPassword, Secrets
<1>15. CASE FlushUpdate(w)
  BY <1>1, <1>3, <1>15 DEF FlushUpdate
<1>16. CASE SpendLink(w) \/ SpendAccess(w)
  BY <1>1, <1>3, <1>16 DEF SpendLink, SpendAccess
<1>17. CASE SpendCode(w)
  BY <1>1, <1>3, <1>17 DEF SpendCode
<1>18. CASE ClearResend(w)
  BY <1>1, <1>3, <1>18 DEF ClearResend, Secrets
<1>19. CASE CheckUnique(w)
  BY <1>1, <1>3, <1>4, <1>19 DEF CheckUnique
<1>20. CASE EnsureSafe(w)
  BY <1>1, <1>3, <1>4, <1>20 DEF EnsureSafe
<1>21. CASE LockAccount(w) \/ IssueSession(w) \/ RevokeRefresh(w) \/ MailLink(w) \/ MailCode(w)
            \/ CommitUpdate(w) \/ WriteUnique(w) \/ IntegrityError(w) \/ ApplyAdminChange(w)
  BY <1>4, <1>21 DEF LockAccount, IssueSession, RevokeRefresh, MailLink, MailCode,
     CommitUpdate, WriteUnique, IntegrityError, ApplyAdminChange
<1>22. CASE PasswordChecked(w)
  <2>1. ASSUME NEW u \in Account(job[w].req.id),
               job' = [job EXCEPT ![w].pc = "clear", ![w].user = u]
        PROVE  Good
    <3>1. Op(w) = "login" /\ u \in DOMAIN db
      BY <1>1, <1>22, <2>1 DEF PasswordChecked, Account, ByPhone, ByEmail
    <3>2. /\ job'[w].pc = "clear" /\ job'[w].req = job[w].req /\ job'[w].tok = job[w].tok
          /\ job'[w].user = u /\ job'[w].seen = job[w].seen
          /\ job'[w].epoch = job[w].epoch
      BY <1>1, <2>1 DEF Fields
    <3>3. Staged(job[w])'
      BY <3>1, <3>2
    <3>4. Holds(job[w])'
      BY <1>0, <1>1, <1>2, <3>1, <3>2 DEF Holds, Presents, Sessionless
    <3>. QED  BY <3>3, <3>4
  <2>. QED  BY <1>4, <1>22, <2>1 DEF PasswordChecked
<1>23. CASE Increment(w)
  <2>. DEFINE n == IF Has(Counter(w)) THEN redis[Counter(w)].val + 1 ELSE 1
              pc == IF n = 1 THEN "expire" ELSE "limit"
  <2>1. job' = [job EXCEPT ![w].n = n, ![w].pc = pc] /\ pc \in {"expire", "limit"}
    BY <1>23 DEF Increment
  <2>. HIDE DEF n, pc
  <2>2. /\ job'[w].pc = pc /\ job'[w].req = job[w].req /\ job'[w].tok = job[w].tok
        /\ job'[w].user = job[w].user /\ job'[w].seen = job[w].seen
        /\ job'[w].epoch = job[w].epoch
    BY <1>1, <2>1 DEF Fields
  <2>3. Staged(job[w])'
    BY <1>1, <1>23, <2>1, <2>2 DEF Increment
  <2>4. Holds(job[w])'
    BY <1>0, <1>1, <2>1, <2>2 DEF Holds
  <2>. QED  BY <2>3, <2>4
<1>24. CASE LoadUser(w)
  <2>1. ASSUME job' = [job EXCEPT ![w].pc = HandlerOf(Op(w)), ![w].row = db[Who(w)],
                                  ![w].epoch = admins.changes]
        PROVE  Good
    <3>1. /\ job'[w].pc = HandlerOf(Op(w)) /\ job'[w].req = job[w].req
          /\ job'[w].tok = job[w].tok /\ job'[w].user = job[w].user
          /\ job'[w].seen = job[w].seen /\ job'[w].epoch = admins.changes
      BY <1>1, <2>1 DEF Fields
    <3>2. Staged(job[w])' /\ job'[w].pc \notin {"clear", "issue"}
      BY <1>1, <3>1, HandlerStaged
    <3>3. Holds(job[w])'
      BY <1>0, <1>1, <1>2, <3>1, <3>2 DEF Holds
    <3>. QED  BY <3>2, <3>3
  <2>. QED  BY <1>4, <1>24, <2>1 DEF LoadUser
<1>25. CASE LoadTarget(w)
  <2>1. ASSUME NEW row, job' = [job EXCEPT ![w].pc = "guard", ![w].row = row]
        PROVE  Good
    <3>1. /\ job'[w].pc = "guard" /\ job'[w].req = job[w].req /\ job'[w].tok = job[w].tok
          /\ job'[w].user = job[w].user /\ job'[w].seen = job[w].seen
          /\ job'[w].epoch = job[w].epoch
      BY <1>1, <2>1 DEF Fields
    <3>2. Staged(job[w])'
      BY <1>1, <1>25, <3>1 DEF LoadTarget
    <3>3. Holds(job[w])'
      BY <1>0, <1>1, <3>1 DEF Holds
    <3>. QED  BY <3>2, <3>3
  <2>. QED  BY <1>4, <1>25, <2>1 DEF LoadTarget
<1>. QED  BY <1>5, <1>6, <1>7, <1>8, <1>9, <1>10, <1>11, <1>12, <1>13, <1>14, <1>15, <1>16, <1>17,
          <1>18, <1>19, <1>20, <1>21, <1>22, <1>23, <1>24, <1>25
          DEF Step, LoginStep, SessionStep, SecretStep, UserStep

(* The accounts after any step of the site.                                *)
LEMMA JobsAside ==
  ASSUME Shape, AccountInv, NEW w \in Worker, OtherStep(w)
  PROVE  JobsKept'
<1>1. PICK old : old = job[w]
  OBVIOUS
<1>2. /\ UNCHANGED <<db, issued, used, admins>>
      /\ job[w] # None /\ \A v \in Worker : v # w => job'[v] = job[v]
  BY OthersAside, OthersStart
<1>3. Holds(old) /\ Op(w) = old.req.op
  BY <1>1, <1>2, JobIs DEF Op
<1>4. ASSUME job'[w] # None
      PROVE  Staged(job[w])' /\ Holds(job[w])'
  <2>1. /\ job'[w].req = old.req /\ job'[w].tok = old.tok
        /\ job'[w].seen = old.seen /\ job'[w].epoch = old.epoch
        /\ old.req.op \notin Naming => job'[w].user = old.user
        /\ job'[w].pc \notin AccountSteps
    BY <1>1, <1>3, <1>4, OthersAside
  <2>2. Staged(job[w])'
    BY ONLY <2>1 DEF Staged, AccountSteps
  <2>3. old.req.op # "password"
    <3>1. old.req.op \in Routes
      BY <1>2, <1>3, JobIs
    <3>. QED  BY <3>1, StepsApart DEF AccountSteps
  <2>5. /\ old.req.op \in Naming => Presents(old.req.op) = {}
        /\ old.req.op \notin Naming \/ old.req.op \notin {"forgot", "askcode"}
    BY <2>3 DEF Presents, Sessionless, Naming
  <2>4. Holds(job[w])'
    BY ONLY <1>2, <1>3, <2>1, <2>5 DEF Holds, AccountSteps
  <2>. QED  BY <2>2, <2>4
<1>5. ASSUME NEW v \in Worker, v # w, job'[v] # None
      PROVE  Staged(job[v])' /\ Holds(job[v])'
  BY <1>2, <1>5 DEF AccountInv, JobsKept, Staged, Holds
<1>. QED  BY <1>4, <1>5 DEF JobsKept

LEMMA BeginJobs ==
  ASSUME Shape, AccountInv, NEW w \in Worker, Begin(w)
  PROVE  JobsKept'
<1>1. /\ UNCHANGED <<db, redis, issued, used, guesses, orphans, admins>>
      /\ job[w] = None /\ DOMAIN job = Worker
      /\ todo[w] \in Seq(Requested) /\ todo[w] # <<>>
  BY DEF Begin, history, Shape
<1>2. PICK r \in Requested : r = Head(todo[w])
  BY <1>1, HeadTailProperties
<1>3. PICK t \in Presentable(r) :
         job' = [job EXCEPT ![w] = [req |-> r, pc |-> FirstStep(r.op), tok |-> t,
                                    user |-> r.user, row |-> None, n |-> 0,
                                    seen |-> Len(used), epoch |-> admins.changes]]
  BY <1>2 DEF Begin
<1>4. /\ job'[w].req = r /\ job'[w].pc = FirstStep(r.op) /\ job'[w].tok = t
      /\ job'[w].user = r.user /\ job'[w].seen = Len(used) /\ job'[w].epoch = admins.changes
      /\ \A v \in Worker : v # w => job'[v] = job[v]
  BY <1>1, <1>3
<1>5. Staged(job[w])' /\ job'[w].pc \notin {"clear", "issue"}
  <2>1. CASE Verified(r.op)
    <3>1. job'[w].pc = "decode"
      BY <1>4, <2>1 DEF FirstStep
    <3>. QED  BY <1>4, <2>1, <3>1 DEF Staged
  <2>2. CASE ~Verified(r.op)
    <3>1. PICK j : j = job'[w]
      OBVIOUS
    <3>2. j.pc = HandlerOf(j.req.op) /\ j.req.op \in Routes
      BY <1>4, <2>2, <3>1, RequestTyped DEF FirstStep
    <3>3. Staged(j) /\ j.pc \notin {"clear", "issue"}
      BY <3>2, HandlerStaged
    <3>. QED  BY <3>1, <3>3 DEF Staged
  <2>. QED  BY <2>1, <2>2
<1>6. Holds(job[w])'
  <2>1. /\ Len(used) \in Nat /\ admins.changes \in Nat
        /\ Presents(r.op) = {} => t = 0
        /\ Presents(r.op) # {} => t \in DOMAIN issued /\ issued[t].kind \in Presents(r.op)
                                    /\ issued[t].user = r.user
    BY <1>3 DEF AccountInv, HistoryKept, IsSequence, Presentable
  <2>2. r.op \in {"forgot", "askcode"} => r.user \in User
    BY RequestTyped
  <2>. QED  BY ONLY <1>1, <1>4, <1>5, <2>1, <2>2 DEF Holds
<1>7. ASSUME NEW v \in Worker, v # w, job'[v] # None
      PROVE  Staged(job[v])' /\ Holds(job[v])'
  <2>1. PICK j : j = job[v]
    OBVIOUS
  <2>2. j = job'[v] /\ j # None
    BY <1>4, <1>7, <2>1
  <2>3. Staged(j) /\ Holds(j)
    BY <2>1, <2>2 DEF AccountInv, JobsKept
  <2>4. Holds(j)'
    BY <1>1, <2>3 DEF Holds
  <2>. QED  BY <2>2, <2>3, <2>4
<1>. QED  BY <1>5, <1>6, <1>7 DEF JobsKept

LEMMA TickInv ==
  ASSUME AccountInv, Tick
  PROVE  AccountInv'
<1>1. /\ UNCHANGED <<db, job, used, admins>>
      /\ issued' = [t \in DOMAIN issued |-> [issued[t] EXCEPT !.left = Older(@)]]
      /\ redis' = [k \in DOMAIN redis \ Ending |-> [redis[k] EXCEPT !.ttl = Older(@)]]
  BY DEF Tick
<1>2. \A n \in Nat : Older(n) \in Nat
  BY DEF Older
<1>3. TokensKept'
  <2>1. IsSequence(issued)'
    <3>1. IsSequence(issued)
      BY DEF AccountInv, TokensKept
    <3>2. DOMAIN issued' = 1..Len(issued) /\ Len(issued) \in Nat
      BY <1>1, <3>1 DEF IsSequence
    <3>3. issued' \in Seq({issued'[t] : t \in DOMAIN issued'})
      <4>. DEFINE S == {issued'[t] : t \in DOMAIN issued'}
      <4>1. issued' \in [1..Len(issued) -> S]
        BY <1>1, <3>2
      <4>. HIDE DEF S
      <4>. QED  BY <3>2, <4>1, SeqDef
    <3>. QED  BY <3>3, LenProperties DEF IsSequence
  <2>2. ASSUME NEW t \in DOMAIN issued'
        PROVE  /\ t \in DOMAIN issued
               /\ DOMAIN issued'[t] = {"kind", "user", "left"}
               /\ issued'[t].kind = issued[t].kind /\ issued'[t].user = issued[t].user
               /\ issued'[t].left \in Nat
    BY <1>1, <1>2, <2>2 DEF AccountInv, TokensKept
  <2>3. DOMAIN issued' = DOMAIN issued
    BY <1>1
  <2>. QED  BY <1>1, <2>1, <2>2, <2>3 DEF AccountInv, TokensKept
<1>4. KeysKept'
  <2>1. \A n \in Nat \cup {Forever} : Older(n) \in Nat \cup {Forever}
    BY DEF Older, Forever
  <2>. QED  BY <1>1, <2>1 DEF AccountInv, KeysKept
<1>5. UsersKept' /\ HistoryKept'
  BY <1>1 DEF AccountInv, UsersKept, HistoryKept
<1>6. JobsKept'
  <2>1. DOMAIN issued' = DOMAIN issued
        /\ \A t \in DOMAIN issued : issued'[t].kind = issued[t].kind
                                    /\ issued'[t].user = issued[t].user
    BY <1>1 DEF AccountInv, TokensKept
  <2>2. ASSUME NEW v \in Worker, job'[v] # None
        PROVE  Staged(job[v])' /\ Holds(job[v])'
    <3>1. Staged(job[v]) /\ Holds(job[v]) /\ job'[v] = job[v]
      BY <1>1, <2>2 DEF AccountInv, JobsKept
    <3>. QED  BY ONLY <1>1, <2>1, <3>1 DEF Staged, Holds
  <2>. QED  BY <2>2 DEF JobsKept
<1>. QED  BY <1>3, <1>4, <1>5, <1>6 DEF AccountInv

LEMMA AccountNext == Shape /\ AccountInv /\ [SiteNext]_siteVars => AccountInv'
<1>. SUFFICES ASSUME Shape, AccountInv, [SiteNext]_siteVars PROVE AccountInv'
  OBVIOUS
<1>1. CASE UNCHANGED vars
  <2>1. UNCHANGED <<db, redis, issued, used, admins, job>>
    BY <1>1 DEF vars
  <2>2. UsersKept' /\ TokensKept'
    BY <2>1 DEF AccountInv, UsersKept, TokensKept
  <2>3. KeysKept' /\ HistoryKept'
    BY <2>1 DEF AccountInv, KeysKept, HistoryKept
  <2>4. ASSUME NEW v \in Worker, job'[v] # None
        PROVE  Staged(job[v])' /\ Holds(job[v])'
    <3>1. Staged(job[v]) /\ Holds(job[v]) /\ job'[v] = job[v]
      BY <2>1, <2>4 DEF AccountInv, JobsKept
    <3>. QED  BY ONLY <2>1, <3>1 DEF Staged, Holds
  <2>5. JobsKept'
    BY <2>4 DEF JobsKept
  <2>. QED  BY <2>2, <2>3, <2>5 DEF AccountInv
<1>2. ASSUME NEW w \in Worker, Begin(w)
      PROVE  AccountInv'
  <2>1. UNCHANGED <<db, redis, issued, used, guesses, orphans, admins>>
    BY <1>2 DEF Begin, history
  <2>. QED  BY <1>2, <2>1, BeginJobs DEF AccountInv, UsersKept, TokensKept, KeysKept, HistoryKept
<1>3. ASSUME NEW w \in Worker, Step(w)
      PROVE  AccountInv'
  BY <1>3, UsersStep, TokensStep, KeysStep, HistoryStep, JobsStep DEF AccountInv
<1>4. ASSUME NEW w \in Worker, Crash(w)
      PROVE  AccountInv'
  <2>1. /\ UNCHANGED <<db, redis, issued, used, admins>>
        /\ job'[w] = None /\ \A v \in Worker : v # w => job'[v] = job[v]
    BY <1>4, CrashMoves DEF Moves
  <2>2. ASSUME NEW v \in Worker, job'[v] # None
        PROVE  Staged(job[v])' /\ Holds(job[v])'
    <3>1. Staged(job[v]) /\ Holds(job[v]) /\ job'[v] = job[v]
      BY <2>1, <2>2 DEF AccountInv, JobsKept
    <3>. QED  BY ONLY <2>1, <3>1 DEF Staged, Holds
  <2>3. JobsKept'
    BY <2>2 DEF JobsKept
  <2>. QED  BY <2>1, <2>3 DEF AccountInv, UsersKept, TokensKept, KeysKept, HistoryKept
<1>5. ASSUME NEW w \in Worker, OtherStep(w)
      PROVE  AccountInv'
  <2>1. UNCHANGED <<db, issued, used, admins>>
    BY <1>5, OthersAside
  <2>2. KeysKept' /\ JobsKept'
    BY <1>5, OthersLive, JobsAside DEF AccountInv
  <2>. QED  BY <2>1, <2>2 DEF AccountInv, UsersKept, TokensKept, HistoryKept
<1>6. CASE Tick
  BY <1>6, TickInv
<1>. QED  BY <1>1, <1>2, <1>3, <1>4, <1>5, <1>6, SiteCases

(* The site starts with the sessions of the accounts of the table.         *)
LEMMA SeedListed ==
  /\ Cardinality(DOMAIN Seed) \in Nat
  /\ \A i \in 1..Cardinality(DOMAIN Seed) : SetToSeq(DOMAIN Seed)[i] \in DOMAIN Seed
<1>. DEFINE D == DOMAIN Seed
            n == Cardinality(D)
<1>1. n \in Nat /\ ExistsBijection(1..n, D)
  BY AccountsAssumption, FS_CardinalityType
<1>2. \E f \in [1..n -> D] : IsInjective(f)
  BY <1>1 DEF ExistsBijection, Bijection, Injection
<1>3. SetToSeq(D) \in [1..n -> D]
  BY <1>2 DEF SetToSeq
<1>. QED  BY <1>1, <1>3

LEMMA AccountInit == SiteInit => AccountInv
<1>. SUFFICES ASSUME SiteInit PROVE AccountInv
  OBVIOUS
<1>. DEFINE q == SetToSeq(DOMAIN Seed)
            n == Cardinality(DOMAIN Seed)
<1>1. /\ db = Seed /\ redis = [k \in {} |-> None] /\ used = <<>>
      /\ issued = [t \in 1..(2 * n) |-> Session(q[(t + 1) \div 2])[IF t % 2 = 1 THEN 1 ELSE 2]]
      /\ job = [w \in Worker |-> None]
      /\ admins = [changes |-> 0, overlapped |-> FALSE]
  BY DEF SiteInit, Init
<1>2. n \in Nat /\ \A i \in 1..n : q[i] \in DOMAIN Seed
  BY SeedListed
<1>3. Ttl.access \in Nat /\ Ttl.refresh \in Nat
  BY ServiceAssumption
<1>4. UsersKept
  BY <1>1, AccountsAssumption DEF UsersKept
<1>. HIDE DEF q, n
<1>5. ASSUME NEW t \in 1..(2 * n)
      PROVE  \/ /\ t + 1 \in 1..(2 * n)
                /\ \E u \in DOMAIN Seed : issued[t] = Secret("access", u, Ttl.access)
             \/ \E u \in DOMAIN Seed : issued[t] = Secret("refresh", u, Ttl.refresh)
  <2>1. (t + 1) \div 2 \in 1..n /\ (t % 2 = 1 => t + 1 \in 1..(2 * n))
    BY <1>2, Z3
  <2>2. CASE t % 2 = 1
    BY <1>1, <1>2, <1>5, <2>1, <2>2, SessionIs
  <2>3. CASE t % 2 # 1
    BY <1>1, <1>2, <1>5, <2>1, <2>3, SessionIs
  <2>. QED  BY <2>2, <2>3
<1>6. TokensKept
  <2>1. IsSequence(issued) /\ DOMAIN issued = 1..(2 * n)
    <3>1. PICK m \in Nat : m = 2 * n
      BY <1>2
    <3>2. DOMAIN issued = 1..m
      BY <1>1, <3>1
    <3>3. issued = [t \in 1..m |-> issued[t]]
      BY <1>1, <3>1
    <3>4. issued \in Seq({issued[t] : t \in 1..m})
      <4>. DEFINE S == {issued[t] : t \in 1..m}
      <4>1. issued \in [1..m -> S]
        BY <3>3
      <4>. HIDE DEF S
      <4>. QED  BY <4>1, SeqDef
    <3>5. Len(issued) \in Nat /\ DOMAIN issued = 1..Len(issued)
      BY <3>4, LenProperties
    <3>6. issued = [t \in 1..Len(issued) |-> issued[t]]
      BY <3>2, <3>3, <3>5
    <3>. QED  BY <3>1, <3>2, <3>5, <3>6 DEF IsSequence
  <2>2. ASSUME NEW t \in DOMAIN issued
        PROVE  /\ DOMAIN issued[t] = {"kind", "user", "left"}
               /\ issued[t].user \in DOMAIN Seed /\ issued[t].left \in Nat
               /\ issued[t].kind = "access" => Companion(t) \in DOMAIN issued
    BY <1>3, <1>5, <2>1, <2>2 DEF Secret, Companion
  <2>. QED  BY <1>1, <2>1, <2>2, AccountsAssumption DEF TokensKept
<1>7. KeysKept /\ JobsKept
  BY <1>1 DEF KeysKept, JobsKept
<1>8. HistoryKept
  <2>1. IsSequence(used) /\ DOMAIN used = {}
    BY <1>1, EmptyIs
  <2>. QED  BY <1>1, <2>1 DEF HistoryKept
<1>. QED  BY <1>4, <1>6, <1>7, <1>8 DEF AccountInv

LEMMA AccountAlways == SiteSpec => []AccountInv
<1>. QED  BY AccountInit, AccountNext, JobsShaped, PTL DEF SiteSpec

(* TypeOK of Accounts.  Every variable ranges over what the code can store *)
(* in it: rows keep their columns, keys and tokens a life of whole units,  *)
(* and a request presents a token that was issued.                         *)
THEOREM TypeCorrect == SiteSpec => []TypeOK
<1>1. AccountInv => TypeOK
  <2>1. AccountInv => \A w \in Worker : job[w] # None =>
                         job[w].tok \in {0} \cup DOMAIN issued /\ job[w].seen \in 0..Len(used)
    BY DEF AccountInv, JobsKept, Holds
  <2>. QED  BY <2>1 DEF TypeOK, AccountInv, UsersKept, TokensKept, KeysKept
<1>. QED  BY <1>1, AccountAlways, PTL

-----------------------------------------------------------------------------
(* Which step takes a request to where.                                    *)
LEMMA StepPaths ==
  ASSUME Shape, AccountInv, NEW w \in Worker, Step(w), job'[w] # None
  PROVE  /\ job'[w].req = job[w].req /\ job'[w].tok = job[w].tok
         /\ job'[w].seen = job[w].seen
         /\ ~LoadUser(w) => job'[w].epoch = job[w].epoch
         /\ ~PasswordChecked(w) => job'[w].user = job[w].user
         /\ job'[w].pc \notin {"decode", "link", "code"}
         /\ job'[w].pc = "load" => DecodeToken(w)
         /\ job'[w].pc = "issue" => RotateRefreshToken(w) \/ ClearFailures(w)
         /\ job'[w].pc = "guard" => LoadTarget(w)
         /\ job'[w].pc = "apply" => EnsureSafe(w)
         /\ job[w].pc = "decode" => DecodeToken(w)
         /\ job[w].pc = "load" => LoadUser(w)
         /\ job[w].pc = "link" => CheckLink(w)
         /\ job[w].pc = "code" => CheckCode(w)
<1>. DEFINE Good == /\ job'[w].req = job[w].req /\ job'[w].tok = job[w].tok
                    /\ job'[w].seen = job[w].seen /\ job'[w].epoch = job[w].epoch
                    /\ job'[w].user = job[w].user
<1>1. /\ job[w] # None /\ DOMAIN job = Worker /\ DOMAIN job[w] = Fields
      /\ Op(w) \in Routes /\ Staged(job[w])
  BY AccountMoves, JobIs DEF Moves
<1>2. ASSUME NEW pc, Goto(w, pc)
      PROVE  Good /\ job'[w].pc = pc
  BY <1>1, <1>2 DEF Goto, Fields
<1>3. ~End(w)
  BY <1>1 DEF End
<1>. USE DEF At
<1>4. CASE CheckLock(w)
  BY <1>2, <1>3, <1>4 DEF CheckLock
<1>5. CASE WrongPassword(w) \/ ClearFailures(w) \/ ExpireCounter(w) \/ RotateRefreshToken(w)
  BY <1>2, <1>5 DEF WrongPassword, ClearFailures, ExpireCounter, RotateRefreshToken
<1>6. CASE DecodeToken(w) \/ RevokeAccess(w)
  BY <1>2, <1>3, <1>6 DEF DecodeToken, RevokeAccess
<1>7. CASE CheckLink(w) \/ CheckCode(w) \/ CheckOldPassword(w)
  BY <1>2, <1>3, <1>7 DEF CheckLink, CheckCode, CheckOldPassword
<1>8. CASE FlushUpdate(w) \/ SpendLink(w) \/ SpendCode(w) \/ SpendAccess(w) \/ ClearResend(w)
  BY <1>2, <1>8 DEF FlushUpdate, SpendLink, SpendCode, SpendAccess, ClearResend
<1>9. CASE CheckUnique(w) \/ EnsureSafe(w)
  BY <1>2, <1>3, <1>9 DEF CheckUnique, EnsureSafe
<1>10. ~LockAccount(w) /\ ~IssueSession(w) /\ ~RevokeRefresh(w) /\ ~MailLink(w) /\ ~MailCode(w)
       /\ ~CommitUpdate(w) /\ ~WriteUnique(w) /\ ~IntegrityError(w) /\ ~ApplyAdminChange(w)
  BY <1>3 DEF LockAccount, IssueSession, RevokeRefresh, MailLink, MailCode,
     CommitUpdate, WriteUnique, IntegrityError, ApplyAdminChange
<1>11. CASE PasswordChecked(w)
  <2>1. PICK u : job' = [job EXCEPT ![w].pc = "clear", ![w].user = u]
    BY <1>3, <1>11 DEF PasswordChecked
  <2>2. /\ job'[w].req = job[w].req /\ job'[w].tok = job[w].tok /\ job'[w].pc = "clear"
        /\ job'[w].seen = job[w].seen /\ job'[w].epoch = job[w].epoch
    BY <1>1, <2>1 DEF Fields
  <2>. QED  BY <1>11, <2>2 DEF PasswordChecked
<1>12. CASE Increment(w)
  <2>1. PICK n, pc : /\ job' = [job EXCEPT ![w].n = n, ![w].pc = pc]
                     /\ pc \in {"expire", "limit"}
    BY <1>12 DEF Increment
  <2>2. Good /\ job'[w].pc \in {"expire", "limit"}
    BY <1>1, <2>1 DEF Fields
  <2>. QED  BY <1>12, <2>2 DEF Increment
<1>13. CASE LoadTarget(w)
  <2>1. PICK row : job' = [job EXCEPT ![w].pc = "guard", ![w].row = row]
    BY <1>3, <1>13 DEF LoadTarget
  <2>2. Good /\ job'[w].pc = "guard"
    BY <1>1, <2>1 DEF Fields
  <2>. QED  BY <1>13, <2>2 DEF LoadTarget
<1>14. CASE LoadUser(w)
  <2>1. job[w].pc = "load" /\ Verified(Op(w))
    BY <1>1, <1>14 DEF LoadUser, Staged, Op
  <2>2. job' = [job EXCEPT ![w].pc = HandlerOf(Op(w)), ![w].row = db[Who(w)],
                          ![w].epoch = admins.changes]
    BY <1>3, <1>14 DEF LoadUser
  <2>3. PICK j : j = job'[w]
    OBVIOUS
  <2>4. /\ j.req = job[w].req /\ j.tok = job[w].tok /\ j.seen = job[w].seen
        /\ j.user = job[w].user /\ j.pc = HandlerOf(Op(w))
    BY <1>1, <2>2, <2>3 DEF Fields
  <2>5. Staged(j) /\ j.pc \notin {"issue", "guard"}
    BY <1>1, <2>4, HandlerStaged DEF Op
  <2>6. j.pc \notin {"decode", "load", "apply", "link", "code"}
    <3>1. \A op \in DOMAIN Handler : Handler[op] \notin {"decode", "load", "apply"}
      BY DEF Handler
    <3>2. j.pc \notin {"decode", "load", "apply"}
      BY <1>1, <2>4, <3>1, StepsApart DEF HandlerOf, AccountSteps
    <3>3. Op(w) \notin {"reset", "enter"}
      BY <2>1 DEF Verified, Presents, Sessionless
    <3>. QED  BY <2>4, <2>5, <3>2, <3>3 DEF Staged, Op
  <2>. QED  BY <1>14, <2>1, <2>3, <2>4, <2>5, <2>6
<1>. QED  BY <1>4, <1>5, <1>6, <1>7, <1>8, <1>9, <1>10, <1>11, <1>12, <1>13, <1>14
          DEF Step, LoginStep, SessionStep, SecretStep, UserStep

-----------------------------------------------------------------------------
(* A call that concerns one key of Redis leaves the others alone.          *)
LEMMA OtherKey ==
  ASSUME NEW k, NEW x, k # x,
         \/ \E v, ttl : SetEx(x, v, ttl)
         \/ Delete(x)
         \/ \E ttl : Expire(x, ttl)
  PROVE  /\ k \in DOMAIN redis' <=> k \in DOMAIN redis
         /\ k \in DOMAIN redis => redis'[k] = redis[k]
BY DEF SetEx, Put, Delete, Expire, Has

(* An entry of the blacklist is only ever replaced by a new one.           *)
LEMMA BlacklistStep ==
  ASSUME Shape, AccountInv, NEW w \in Worker, Step(w), NEW t
  PROVE  \/ Blacklist(t)
         \/ /\ Has(Blacklisted(t)) => Has(Blacklisted(t))'
            /\ Has(Blacklisted(t)) => redis'[Blacklisted(t)] = redis[Blacklisted(t)]
<1>. DEFINE k == Blacklisted(t)
            Kept == /\ k \in DOMAIN redis => k \in DOMAIN redis'
                    /\ k \in DOMAIN redis => redis'[k] = redis[k]
<1>1. CASE UNCHANGED redis
  BY <1>1 DEF Has
<1>2. ASSUME NEW x, x[1] # "blacklist",
             (\E v, ttl : SetEx(x, v, ttl)) \/ Delete(x) \/ (\E ttl : Expire(x, ttl))
      PROVE  Kept
  <2>1. k[1] = "blacklist"
    BY DEF Blacklisted
  <2>. HIDE DEF k
  <2>. QED  BY <1>2, <2>1, OtherKey
<1>3. ASSUME NEW s, s # t, Blacklist(s)
      PROVE  Kept
  <2>1. Blacklisted(s) # k
    BY <1>3 DEF Blacklisted
  <2>. HIDE DEF k
  <2>. QED  BY <1>3, <2>1, OtherKey DEF Blacklist
<1>4. /\ \A id : Failed(id)[1] # "blacklist" /\ Lockout(id)[1] # "blacklist"
      /\ \A x : Link(x)[1] # "blacklist" /\ Code(x)[1] # "blacklist" /\ Resend(x)[1] # "blacklist"
      /\ Counter(w)[1] # "blacklist"
  BY DEF Failed, Lockout, Link, Code, Resend, Counter
<1>. SUFFICES Blacklist(t) \/ Kept
  BY DEF Has
<1>5. CASE ClearFailures(w)
  BY <1>2, <1>4, <1>5 DEF ClearFailures
<1>6. CASE Increment(w)
  <2>1. \E v, ttl : SetEx(Counter(w), v, ttl)
    BY <1>6 DEF Increment
  <2>. QED  BY <1>2, <1>4, <2>1
<1>7. CASE ExpireCounter(w)
  BY <1>2, <1>4, <1>7 DEF ExpireCounter
<1>8. CASE LockAccount(w)
  BY <1>1, <1>2, <1>4, <1>8 DEF LockAccount
<1>9. CASE RotateRefreshToken(w) \/ RevokeAccess(w) \/ RevokeRefresh(w) \/ SpendAccess(w)
  BY <1>1, <1>3, <1>9 DEF RotateRefreshToken, RevokeAccess, RevokeRefresh, SpendAccess
<1>10. CASE MailLink(w)
  BY <1>2, <1>4, <1>10 DEF MailLink
<1>11. CASE MailCode(w)
  BY <1>1, <1>2, <1>4, <1>11 DEF MailCode
<1>12. CASE SpendLink(w) \/ SpendCode(w) \/ ClearResend(w)
  BY <1>2, <1>4, <1>12 DEF SpendLink, SpendCode, ClearResend
<1>. QED  BY <1>1, <1>5, <1>6, <1>7, <1>8, <1>9, <1>10, <1>11, <1>12, StepFrames

LEMMA BlacklistRefuses ==
  ASSUME AccountInv, NEW t \in DOMAIN issued, Blacklist(t), issued'[t] = issued[t]
  PROVE  Refused(t)'
<1>1. issued[t].left \in Nat
  BY DEF AccountInv, TokensKept
<1>2. SecondsUntilExpiry(t) >= issued[t].left
  BY <1>1 DEF SecondsUntilExpiry
<1>3. /\ Blacklisted(t) \in DOMAIN redis'
      /\ redis'[Blacklisted(t)].ttl = SecondsUntilExpiry(t)
  BY DEF Blacklist, SetEx, Put
<1>. QED  BY <1>2, <1>3 DEF Refused, Has, Blacklisted

LEMMA RefusedStep ==
  ASSUME Shape, AccountInv, NEW w \in Worker, Step(w), NEW t \in DOMAIN issued, Refused(t)
  PROVE  Refused(t)'
<1>1. issued'[t] = issued[t]
  BY StepWidens DEF Widens
<1>2. CASE Blacklist(t)
  BY <1>1, <1>2, BlacklistRefuses
<1>3. CASE ~Blacklist(t)
  <2>1. Has(Blacklisted(t)) => Has(Blacklisted(t))'
    BY <1>3, BlacklistStep
  <2>2. Has(Blacklisted(t)) => redis'[Blacklisted(t)] = redis[Blacklisted(t)]
    BY <1>3, BlacklistStep
  <2>. QED  BY <1>1, <2>1, <2>2 DEF Refused, Blacklisted
<1>. QED  BY <1>2, <1>3

(* The entry grows old no faster than the token.                           *)
LEMMA RefusedTick ==
  ASSUME AccountInv, Tick, NEW t \in DOMAIN issued, Refused(t)
  PROVE  Refused(t)'
<1>. DEFINE k == Blacklisted(t)
<1>1. /\ issued' = [s \in DOMAIN issued |-> [issued[s] EXCEPT !.left = Older(@)]]
      /\ redis' = [x \in DOMAIN redis \ Ending |-> [redis[x] EXCEPT !.ttl = Older(@)]]
  BY DEF Tick
<1>2. issued'[t].left = Older(issued[t].left) /\ issued[t].left \in Nat
  BY <1>1 DEF AccountInv, TokensKept
<1>3. ASSUME issued'[t].left > 0
      PROVE  k \in DOMAIN redis' /\ redis'[k].ttl >= issued'[t].left
  <2>1. issued[t].left > 1 /\ issued'[t].left = issued[t].left - 1
    BY <1>2, <1>3 DEF Older
  <2>7. k \in DOMAIN redis /\ redis[k].ttl >= issued[t].left
    <3>1. issued[t].left > 0
      BY <1>2, <2>1
    <3>. QED  BY <3>1 DEF Refused, Has
  <2>2. k \in DOMAIN redis /\ redis[k].ttl >= issued[t].left /\ redis[k].ttl \in Nat \cup {Forever}
    BY <2>7 DEF AccountInv, KeysKept
  <2>3. redis[k].ttl \in Nat /\ redis[k].ttl > 1
    BY <1>2, <2>1, <2>2 DEF Forever
  <2>4. k \in DOMAIN redis \ Ending
    BY <2>2, <2>3 DEF Ending
  <2>5. DOMAIN redis[k] = {"val", "ttl"}
    BY <2>2 DEF AccountInv, KeysKept
  <2>. HIDE DEF k
  <2>6. redis'[k].ttl = Older(redis[k].ttl) /\ k \in DOMAIN redis'
    BY <1>1, <2>4, <2>5
  <2>. QED  BY <1>2, <2>1, <2>2, <2>3, <2>6 DEF Older
<1>. QED  BY <1>3 DEF Refused, Has, Blacklisted

(* What a step revokes is refused from then on, and so is the refresh      *)
(* token that was rotated before its session is issued again.              *)
LEMMA RecordedRefused ==
  ASSUME Shape, AccountInv, RefusedKept, NEW w \in Worker, Step(w)
  PROVE  \/ UNCHANGED used
         \/ \E k : Record(w, k) /\ (k[1] = "token" => Refused(k[2])')
<1>1. ASSUME job[w] # None, Presents(Op(w)) # {}
      PROVE  job[w].tok \in DOMAIN issued
  BY <1>1, JobIs DEF Holds, Op
<1>2. PICK t : t = job[w].tok
  OBVIOUS
<1>3. ASSUME NEW s, Record(w, <<"token", s>>), Refused(s)'
      PROVE  \E k : Record(w, k) /\ (k[1] = "token" => Refused(k[2])')
  <2>1. PICK k : k = <<"token", s>>
    OBVIOUS
  <2>2. k[2] = s
    BY <2>1
  <2>3. Refused(k[2])'
    BY <1>3, <2>2 DEF Refused
  <2>. QED  BY <1>3, <2>1, <2>3
<1>4. ASSUME NEW kind, kind # "token", NEW s, Record(w, <<kind, s>>)
      PROVE  \E k : Record(w, k) /\ (k[1] = "token" => Refused(k[2])')
  <2>1. PICK k : k = <<kind, s>>
    OBVIOUS
  <2>. QED  BY <1>4, <2>1
<1>5. CASE IssueSession(w)
  <2>1. CASE Op(w) = "refresh"
    <3>1. t \in DOMAIN issued /\ Record(w, <<"token", t>>) /\ Refused(t)
      BY <1>1, <1>2, <1>5, <2>1 DEF IssueSession, At, Presents, Sessionless, RefusedKept
    <3>2. Refused(t)'
      BY <3>1, RefusedStep
    <3>. QED  BY <1>3, <3>1, <3>2
  <2>. QED  BY <1>5, <2>1 DEF IssueSession
<1>6. CASE RevokeAccess(w)
  <2>1. t \in DOMAIN issued
    BY <1>1, <1>2, <1>6, JobIs DEF RevokeAccess, At, Staged, Op, Presents, Sessionless
  <2>2. UNCHANGED used \/ (Blacklist(t) /\ Record(w, <<"token", t>>) /\ issued' = issued)
    <3>1. CASE issued[job[w].tok].left > 0
      BY <1>2, <1>6, <3>1 DEF RevokeAccess
    <3>2. CASE ~(issued[job[w].tok].left > 0)
      BY <1>6, <3>2 DEF RevokeAccess
    <3>. QED  BY <3>1, <3>2
  <2>. QED  BY <1>3, <2>1, <2>2, BlacklistRefuses
<1>7. CASE RevokeRefresh(w)
  <2>1. job[w].tok \in DOMAIN issued /\ issued[job[w].tok].kind = "access"
    BY <1>1, <1>7, JobIs DEF RevokeRefresh, At, Staged, Holds, Op, Presents, Sessionless
  <2>2. PICK s : s = Companion(job[w].tok)
    OBVIOUS
  <2>3. s \in DOMAIN issued
    BY <2>1, <2>2 DEF AccountInv, TokensKept
  <2>4. UNCHANGED used \/ (Blacklist(s) /\ Record(w, <<"token", s>>) /\ issued' = issued)
    <3>1. CASE issued[s].left > 0
      BY <1>7, <2>2, <3>1 DEF RevokeRefresh
    <3>2. CASE ~(issued[s].left > 0)
      BY <1>7, <2>2, <3>2 DEF RevokeRefresh
    <3>. QED  BY <3>1, <3>2
  <2>. QED  BY <1>3, <2>3, <2>4, BlacklistRefuses
<1>8. CASE SpendLink(w)
  BY <1>4, <1>8 DEF SpendLink
<1>9. CASE SpendCode(w)
  BY <1>4, <1>9 DEF SpendCode
<1>10. CASE SpendAccess(w)
  <2>1. t \in DOMAIN issued /\ Blacklist(t) /\ Record(w, <<"token", t>>) /\ issued' = issued
    BY <1>1, <1>2, <1>10 DEF SpendAccess, At, Presents, Sessionless
  <2>. QED  BY <1>3, <2>1, BlacklistRefuses
<1>. QED  BY <1>5, <1>6, <1>7, <1>8, <1>9, <1>10, StepFrames

LEMMA RefusedKeptStep ==
  ASSUME Shape, AccountInv, RefusedKept, NEW w \in Worker, Step(w)
  PROVE  RefusedKept'
<1>1. Widens /\ IsSequence(used)
  BY StepWidens DEF AccountInv, HistoryKept
<1>2. ASSUME NEW i \in DOMAIN used, used[i].key[1] = "token"
      PROVE  used'[i] = used[i] /\ Refused(used[i].key[2])'
  <2>1. PICK t : t = used[i].key[2]
    OBVIOUS
  <2>2. used'[i] = used[i] /\ t \in DOMAIN issued /\ Refused(t)
    BY <1>1, <1>2, <2>1 DEF Widens, RefusedKept, AccountInv, HistoryKept
  <2>3. Refused(t)'
    BY <2>2, RefusedStep
  <2>. QED  BY <2>1, <2>2, <2>3 DEF Refused
<1>3. ASSUME NEW i \in DOMAIN used', used'[i].key[1] = "token"
      PROVE  Refused(used[i].key[2])'
  <2>1. CASE i \in DOMAIN used
    <3>1. PICK t : t = used[i].key[2]
      OBVIOUS
    <3>2. used'[i] = used[i]
      BY <1>1, <2>1 DEF Widens
    <3>3. Refused(t)'
      BY <1>3, <2>1, <3>1, <3>2, RefusedStep DEF RefusedKept, AccountInv, HistoryKept
    <3>4. used'[i].key[2] = t
      BY <3>1, <3>2
    <3>. QED  BY <3>3, <3>4 DEF Refused
  <2>2. CASE i \notin DOMAIN used
    <3>1. PICK k : Record(w, k) /\ (k[1] = "token" => Refused(k[2])')
      BY <2>2, RecordedRefused
    <3>2. used'[i].key = k
      <4>1. PICK e : e = [key |-> k, op |-> Op(w), seen |-> job[w].seen]
        OBVIOUS
      <4>2. used' = Append(used, e) /\ e.key = k
        BY <3>1, <4>1 DEF Record
      <4>3. /\ DOMAIN used = 1..Len(used) /\ DOMAIN used' = 1..(Len(used) + 1)
            /\ used'[Len(used) + 1] = e
        BY <1>1, <4>2, AppendIs
      <4>. QED  BY <1>1, <2>2, <4>2, <4>3 DEF Widens
    <3>. QED  BY <1>3, <3>1, <3>2 DEF Refused
  <2>. QED  BY <2>1, <2>2
<1>4. ASSUME NEW v \in Worker, At(v, "issue")', Op(v)' = "refresh"
      PROVE  Refused(job[v].tok)'
  <2>1. PICK t : t = job'[v].tok
    OBVIOUS
  <2>2. CASE v # w
    <3>1. job'[v] = job[v]
      BY <2>2, AccountMoves DEF Moves
    <3>2. At(v, "issue") /\ Op(v) = "refresh" /\ t = job[v].tok
      BY <1>4, <2>1, <3>1 DEF At, Op
    <3>3. Refused(t) /\ t \in DOMAIN issued
      BY <3>2, JobIs DEF RefusedKept, At, Op, Holds, Presents, Sessionless
    <3>4. Refused(t)'
      BY <3>3, RefusedStep
    <3>. QED  BY <2>1, <3>4 DEF Refused
  <2>3. CASE v = w
    <3>1. RotateRefreshToken(w) /\ t = job[w].tok
      BY <1>4, <2>1, <2>3, StepPaths, JobIs DEF At, Op, ClearFailures, Staged
    <3>2. t \in DOMAIN issued /\ Blacklist(t) /\ issued' = issued
      BY <3>1, JobIs DEF RotateRefreshToken, At, Staged, Holds, Presents, Sessionless
    <3>3. Refused(t)'
      BY <3>2, BlacklistRefuses
    <3>. QED  BY <2>1, <2>3, <3>3 DEF Refused
  <2>. QED  BY <2>2, <2>3
<1>. QED  BY <1>3, <1>4 DEF RefusedKept

LEMMA RefusedInit == SiteInit => RefusedKept
<1>1. SiteInit => job = [w \in Worker |-> None] /\ used = <<>>
  BY DEF SiteInit, Init
<1>. QED  BY <1>1 DEF RefusedKept, At

LEMMA RefusedNext == Shape /\ AccountInv /\ RefusedKept /\ [SiteNext]_siteVars => RefusedKept'
<1>. SUFFICES ASSUME Shape, AccountInv, RefusedKept, [SiteNext]_siteVars PROVE RefusedKept'
  OBVIOUS
<1>1. ASSUME UNCHANGED used,
             \A t \in DOMAIN issued : Refused(t) => Refused(t)',
             \A v \in Worker : At(v, "issue")' /\ Op(v)' = "refresh"
                               => At(v, "issue") /\ Op(v) = "refresh" /\ job'[v].tok = job[v].tok
      PROVE  RefusedKept'
  <2>1. ASSUME NEW i \in DOMAIN used', used'[i].key[1] = "token"
        PROVE  Refused(used[i].key[2])'
    <3>1. PICK t : t = used'[i].key[2]
      OBVIOUS
    <3>2. Refused(t)'
      BY <1>1, <2>1, <3>1 DEF RefusedKept, AccountInv, HistoryKept
    <3>. QED  BY <3>1, <3>2 DEF Refused
  <2>2. ASSUME NEW v \in Worker, At(v, "issue")', Op(v)' = "refresh"
        PROVE  Refused(job[v].tok)'
    <3>1. PICK t : t = job'[v].tok
      OBVIOUS
    <3>2. Refused(t) /\ t \in DOMAIN issued
      BY <1>1, <2>2, <3>1, JobIs DEF RefusedKept, At, Op, Holds, Presents, Sessionless
    <3>3. Refused(t)'
      BY <1>1, <3>2
    <3>. QED  BY <3>1, <3>3 DEF Refused
  <2>. QED  BY <2>1, <2>2 DEF RefusedKept
<1>2. ASSUME UNCHANGED <<issued, redis>>, NEW t, Refused(t)
      PROVE  Refused(t)'
  BY <1>2 DEF Refused, Has
<1>3. CASE UNCHANGED vars
  BY <1>1, <1>2, <1>3 DEF vars, At, Op
<1>4. ASSUME NEW w \in Worker, Begin(w)
      PROVE  RefusedKept'
  <2>1. /\ UNCHANGED <<redis, issued, used>>
        /\ \A v \in Worker : v # w => job'[v] = job[v]
        /\ job'[w].pc # "issue"
    <3>1. job'[w].pc = FirstStep(job'[w].req.op) /\ job'[w].req \in Requested
      BY <1>4, BeginMoves
    <3>2. PICK j : j = job'[w]
      OBVIOUS
    <3>3. j.pc = "decode" \/ j.pc = HandlerOf(j.req.op)
      BY <3>1, <3>2 DEF FirstStep
    <3>4. j.pc # "issue"
      BY <3>1, <3>2, <3>3, HandlerStaged, RequestedRouted
    <3>. QED  BY <1>4, <3>2, <3>4, BeginMoves DEF Begin, history
  <2>. QED  BY <1>1, <1>2, <2>1 DEF At, Op
<1>5. ASSUME NEW w \in Worker, Step(w)
      PROVE  RefusedKept'
  BY <1>5, RefusedKeptStep
<1>6. ASSUME NEW w \in Worker, Crash(w)
      PROVE  RefusedKept'
  <2>1. /\ UNCHANGED <<redis, issued, used>>
        /\ job'[w] = None /\ \A v \in Worker : v # w => job'[v] = job[v]
    BY <1>6, CrashMoves DEF Moves
  <2>. QED  BY <1>1, <1>2, <2>1 DEF At, Op
<1>7. ASSUME NEW w \in Worker, OtherStep(w)
      PROVE  RefusedKept'
  <2>1. /\ UNCHANGED <<issued, used>>
        /\ \A v \in Worker : v # w => job'[v] = job[v]
        /\ job'[w] # None => job'[w].pc # "issue"
    BY <1>7, OthersAside DEF AccountSteps
  <2>2. ASSUME NEW t, Refused(t)
        PROVE  Refused(t)'
    <3>1. PICK k : k = Blacklisted(t)
      OBVIOUS
    <3>2. k[1] \in AccountKeys
      BY <3>1 DEF Blacklisted, AccountKeys
    <3>3. /\ k \in DOMAIN redis' <=> k \in DOMAIN redis
          /\ k \in DOMAIN redis => redis'[k] = redis[k]
      BY <1>7, <3>2, OthersKeys
    <3>. QED  BY <2>1, <2>2, <3>1, <3>3 DEF Refused, Has, Blacklisted
  <2>. QED  BY <1>1, <2>1, <2>2 DEF At, Op
<1>8. CASE Tick
  <2>1. UNCHANGED <<used, job>>
    BY <1>8 DEF Tick
  <2>. QED  BY <1>1, <1>8, <2>1, RefusedTick DEF At, Op
<1>. QED  BY <1>3, <1>4, <1>5, <1>6, <1>7, <1>8, SiteCases

LEMMA RefusedAlways == SiteSpec => []RefusedKept
<1>. QED  BY RefusedInit, RefusedNext, AccountAlways, JobsShaped, PTL DEF SiteSpec

(* RevokedStaysRefused of Accounts.  A token that a logout, a password     *)
(* change or a rotation revoked stays on the blacklist for as long as its  *)
(* signature would be accepted.                                            *)
THEOREM RevokedRefused == SiteSpec => []RevokedStaysRefused
<1>1. RefusedKept => RevokedStaysRefused
  BY DEF RefusedKept, RevokedStaysRefused, Refused
<1>. QED  BY <1>1, RefusedAlways, PTL

-----------------------------------------------------------------------------
(* A record is appended.                                                   *)
LEMMA Recorded ==
  ASSUME HistoryKept, NEW w \in Worker, NEW k, Record(w, k)
  PROVE  /\ Len(used) \in Nat /\ DOMAIN used = 1..Len(used)
         /\ DOMAIN used' = 1..(Len(used) + 1)
         /\ \A i \in DOMAIN used : used'[i] = used[i]
         /\ used'[Len(used) + 1] = [key |-> k, op |-> Op(w), seen |-> job[w].seen]
<1>1. PICK e : e = [key |-> k, op |-> Op(w), seen |-> job[w].seen]
  OBVIOUS
<1>2. used' = Append(used, e)
  BY <1>1 DEF Record
<1>3. IsSequence(used)
  BY DEF HistoryKept
<1>4. /\ DOMAIN used = 1..Len(used) /\ DOMAIN used' = 1..(Len(used) + 1)
      /\ \A i \in DOMAIN used : used'[i] = used[i]
      /\ used'[Len(used) + 1] = e
  BY <1>2, <1>3, AppendIs
<1>. QED  BY <1>1, <1>3, <1>4 DEF IsSequence

LEMMA RecordedLast ==
  ASSUME HistoryKept, NEW w \in Worker, NEW k, Record(w, k), NEW i \in DOMAIN used' \ DOMAIN used
  PROVE  /\ i = Len(used) + 1 /\ used'[i].key = k
         /\ used'[i].op = Op(w) /\ used'[i].seen = job[w].seen
<1>1. PICK e : e = [key |-> k, op |-> Op(w), seen |-> job[w].seen]
  OBVIOUS
<1>2. /\ Len(used) \in Nat /\ DOMAIN used = 1..Len(used)
      /\ DOMAIN used' = 1..(Len(used) + 1) /\ used'[Len(used) + 1] = e
  BY <1>1, Recorded
<1>3. i = Len(used) + 1
  BY ONLY <1>2
<1>. QED  BY <1>1, <1>2, <1>3

(* What a request spends is what it has checked, but for a logout.         *)
LEMMA RecordsSpent ==
  ASSUME Shape, AccountInv, NEW w \in Worker, Step(w)
  PROVE  \/ UNCHANGED used
         \/ \E k : /\ Record(w, k)
                   /\ Op(w) # "logout" => Checked(w) /\ k = SpentKey(w)
                   /\ k[1] = "link" => SpendLink(w)
                   /\ k[1] = "code" => SpendCode(w)
<1>. USE DEF At, Checked, SpentKey, Secrets
<1>1. CASE IssueSession(w)
  <2>1. <<"token", job[w].tok>>[1] = "token"
    OBVIOUS
  <2>. QED  BY <1>1, <2>1 DEF IssueSession
<1>2. ASSUME NEW t, Record(w, <<"token", t>>), Op(w) = "logout"
      PROVE  \E k : /\ Record(w, k)
                    /\ Op(w) # "logout" => Checked(w) /\ k = SpentKey(w)
                    /\ k[1] = "link" => SpendLink(w)
                    /\ k[1] = "code" => SpendCode(w)
  <2>1. <<"token", t>>[1] = "token"
    OBVIOUS
  <2>. QED  BY <1>2, <2>1
<1>3. CASE RevokeAccess(w)
  BY <1>2, <1>3, JobIs DEF RevokeAccess, Staged, Op
<1>4. CASE RevokeRefresh(w)
  BY <1>2, <1>4, JobIs DEF RevokeRefresh, Staged, Op
<1>5. CASE SpendLink(w)
  <2>1. <<"link", job[w].tok>>[1] = "link"
    OBVIOUS
  <2>. QED  BY <1>5, <2>1 DEF SpendLink
<1>6. CASE SpendCode(w)
  <2>1. <<"code", job[w].tok>>[1] = "code"
    OBVIOUS
  <2>. QED  BY <1>6, <2>1 DEF SpendCode
<1>7. CASE SpendAccess(w)
  <2>1. <<"token", job[w].tok>>[1] = "token"
    OBVIOUS
  <2>. QED  BY <1>7, <2>1 DEF SpendAccess
<1>. QED  BY <1>1, <1>3, <1>4, <1>5, <1>6, <1>7, StepFrames

(* Only four steps touch a link or a code.                                 *)
LEMMA SecretKeys ==
  ASSUME NEW w \in Worker, Step(w), ~MailLink(w), ~MailCode(w), ~SpendLink(w), ~SpendCode(w),
         NEW k, k[1] \in {"link", "otp"}
  PROVE  /\ k \in DOMAIN redis' <=> k \in DOMAIN redis
         /\ k \in DOMAIN redis => redis'[k] = redis[k]
<1>. DEFINE Kept == /\ k \in DOMAIN redis' <=> k \in DOMAIN redis
                    /\ k \in DOMAIN redis => redis'[k] = redis[k]
<1>. SUFFICES Kept
  OBVIOUS
<1>1. CASE UNCHANGED redis
  BY <1>1
<1>2. ASSUME NEW x, x[1] \notin {"link", "otp"},
             (\E v, ttl : SetEx(x, v, ttl)) \/ Delete(x) \/ (\E ttl : Expire(x, ttl))
      PROVE  Kept
  BY <1>2, OtherKey
<1>3. ASSUME NEW t, Blacklist(t)
      PROVE  Kept
  <2>1. Blacklisted(t)[1] \notin {"link", "otp"}
    BY DEF Blacklisted
  <2>. QED  BY <1>2, <1>3, <2>1 DEF Blacklist
<1>4. /\ \A id : Failed(id)[1] \notin {"link", "otp"} /\ Lockout(id)[1] \notin {"link", "otp"}
      /\ \A u : Resend(u)[1] \notin {"link", "otp"}
      /\ Counter(w)[1] \notin {"link", "otp"}
  BY DEF Failed, Lockout, Resend, Counter
<1>5. CASE ClearFailures(w)
  BY <1>2, <1>4, <1>5 DEF ClearFailures
<1>6. CASE Increment(w)
  <2>1. \E v, ttl : SetEx(Counter(w), v, ttl)
    BY <1>6 DEF Increment
  <2>. QED  BY <1>2, <1>4, <2>1
<1>7. CASE ExpireCounter(w)
  BY <1>2, <1>4, <1>7 DEF ExpireCounter
<1>8. CASE LockAccount(w)
  BY <1>1, <1>2, <1>4, <1>8 DEF LockAccount
<1>9. CASE RotateRefreshToken(w) \/ RevokeAccess(w) \/ RevokeRefresh(w) \/ SpendAccess(w)
  BY <1>1, <1>3, <1>9 DEF RotateRefreshToken, RevokeAccess, RevokeRefresh, SpendAccess
<1>10. CASE ClearResend(w)
  BY <1>2, <1>4, <1>10 DEF ClearResend
<1>. QED  BY <1>1, <1>5, <1>6, <1>7, <1>8, <1>9, <1>10, StepFrames

(* Links and codes that only get fewer, and records that are new.          *)
LEMMA GoneStays ==
  ASSUME CodesKept, Gone,
         DOMAIN issued \subseteq DOMAIN issued',
         \A t \in DOMAIN issued : issued'[t].user = issued[t].user,
         \A k : k[1] \in {"link", "otp"} /\ k \in DOMAIN redis'
                  => k \in DOMAIN redis /\ redis'[k].val = redis[k].val,
         \A i \in DOMAIN used : used'[i] = used[i],
         \A i \in DOMAIN used' \ DOMAIN used :
           /\ used'[i].key[1] = "link" => Link(used'[i].key[2]) \notin DOMAIN redis'
           /\ used'[i].key[1] = "code" =>
                \A u : Code(u) \in DOMAIN redis' => redis'[Code(u)].val # used'[i].key[2]
  PROVE  CodesKept' /\ Gone'
<1>1. /\ \A x : Link(x)[1] \in {"link", "otp"} /\ Code(x)[1] \in {"link", "otp"}
  BY DEF Link, Code
<1>2. /\ \A u : Code(u) \in DOMAIN redis' =>
             Code(u) \in DOMAIN redis /\ redis'[Code(u)].val = redis[Code(u)].val
      /\ \A t : Link(t) \in DOMAIN redis' => Link(t) \in DOMAIN redis
  BY <1>1
<1>3. CodesKept'
  BY <1>2 DEF CodesKept, Has, Code
<1>4. ASSUME NEW i \in DOMAIN used'
      PROVE  /\ used'[i].key[1] = "link" => Link(used'[i].key[2]) \notin DOMAIN redis'
             /\ used'[i].key[1] = "code" =>
                  \A u : Code(u) \in DOMAIN redis' => redis'[Code(u)].val # used'[i].key[2]
  <2>1. CASE i \in DOMAIN used
    <3>1. used'[i] = used[i]
      BY <2>1
    <3>2. /\ used[i].key[1] = "link" => Link(used[i].key[2]) \notin DOMAIN redis
          /\ used[i].key[1] = "code" =>
               \A u : Code(u) \in DOMAIN redis => redis[Code(u)].val # used[i].key[2]
      BY <2>1 DEF Gone, Has
    <3>. QED  BY <1>2, <3>1, <3>2
  <2>. QED  BY <2>1
<1>. QED  BY <1>3, <1>4 DEF Gone, Has, Link, Code

(* What was spent is gone after any step of the accounts.                  *)
LEMMA GoneStep ==
  ASSUME Shape, AccountInv, CodesKept, Gone, NEW w \in Worker, Step(w)
  PROVE  CodesKept' /\ Gone'
<1>1. /\ Widens /\ HistoryKept
      /\ \A i \in DOMAIN used : used[i].key[2] \in DOMAIN issued
      /\ Len(issued) \in Nat /\ DOMAIN issued = 1..Len(issued)
  BY StepWidens DEF AccountInv, HistoryKept, TokensKept, IsSequence
<1>2. /\ DOMAIN issued \subseteq DOMAIN issued'
      /\ \A t \in DOMAIN issued : issued'[t] = issued[t]
      /\ \A i \in DOMAIN used : used'[i] = used[i]
  BY <1>1 DEF Widens
<1>3. /\ \A x, y : Link(x) # Code(y)
      /\ \A x, y : (Link(x) = Link(y) => x = y) /\ (Code(x) = Code(y) => x = y)
  <2>1. /\ \A x : Link(x)[1] = "link" /\ Link(x)[2] = x
        /\ \A x : Code(x)[1] = "otp" /\ Code(x)[2] = x
    BY DEF Link, Code
  <2>. QED  BY <2>1
<1>4. ASSUME NEW e, issued' = Append(issued, e)
      PROVE  Len(issued') = Len(issued) + 1 /\ issued'[Len(issued')] = e
             /\ Len(issued') \in DOMAIN issued' /\ Len(issued') \notin DOMAIN issued
  <2>1. IsSequence(issued)
    BY DEF AccountInv, TokensKept
  <2>2. /\ Len(issued') = Len(issued) + 1 /\ DOMAIN issued' = 1..(Len(issued) + 1)
        /\ issued'[Len(issued) + 1] = e
    BY <1>4, <2>1, AppendIs
  <2>. QED  BY <1>1, <2>2
<1>5. CASE MailLink(w)
  <2>1. PICK t : t = Len(issued')
    OBVIOUS
  <2>2. /\ redis' = Put(redis, Link(t), [val |-> Who(w), ttl |-> Ttl.link])
        /\ used' = used
        /\ issued' = Append(issued, Secret("link", Who(w), Ttl.link))
    BY <1>5, <2>1 DEF MailLink, SetEx, history
  <2>3. t \notin DOMAIN issued
    BY <1>4, <2>1, <2>2
  <2>4. \A x : x \in DOMAIN redis' /\ x # Link(t) => x \in DOMAIN redis /\ redis'[x] = redis[x]
    BY <2>2 DEF Put
  <2>5. CodesKept'
    BY <1>2, <1>3, <2>4 DEF CodesKept, Has, Code
  <2>6. Gone'
    <3>1. ASSUME NEW i \in DOMAIN used
          PROVE  /\ used[i].key[1] = "link" => Link(used[i].key[2]) \notin DOMAIN redis'
                 /\ used[i].key[1] = "code" =>
                      \A u : Code(u) \in DOMAIN redis' => redis'[Code(u)].val # used[i].key[2]
      <4>1. used[i].key[2] # t
        BY <1>1, <2>3, <3>1
      <4>. QED  BY <1>3, <2>4, <4>1 DEF Gone, Has
    <3>. QED  BY <2>2, <3>1 DEF Gone, Has, Link, Code
  <2>. QED  BY <2>5, <2>6
<1>6. CASE MailCode(w) /\ ~UNCHANGED <<issued, redis>>
  <2>1. PICK t : t = Len(issued')
    OBVIOUS
  <2>2. /\ redis' = Put(redis, Code(Who(w)), [val |-> t, ttl |-> Ttl.code])
        /\ used' = used
        /\ issued' = Append(issued, Secret("code", Who(w), Ttl.code))
    BY <1>6, <2>1 DEF MailCode, SetEx, history
  <2>3. /\ t \notin DOMAIN issued /\ t \in DOMAIN issued'
        /\ issued'[t].user = Who(w)
    BY <1>4, <2>1, <2>2 DEF Secret
  <2>4. /\ \A x : x \in DOMAIN redis' /\ x # Code(Who(w))
                    => x \in DOMAIN redis /\ redis'[x] = redis[x]
        /\ redis'[Code(Who(w))].val = t
    BY <2>2 DEF Put
  <2>5. CodesKept'
    <3>1. ASSUME NEW u, Code(u) \in DOMAIN redis'
          PROVE  redis'[Code(u)].val \in DOMAIN issued' /\ issued'[redis'[Code(u)].val].user = u
      <4>1. CASE u = Who(w)
        BY <2>3, <2>4, <4>1
      <4>2. CASE u # Who(w)
        BY <1>2, <1>3, <2>4, <3>1, <4>2 DEF CodesKept, Has
      <4>. QED  BY <4>1, <4>2
    <3>. QED  BY <3>1 DEF CodesKept, Has, Code
  <2>6. Gone'
    <3>1. ASSUME NEW i \in DOMAIN used
          PROVE  /\ used[i].key[1] = "link" => Link(used[i].key[2]) \notin DOMAIN redis'
                 /\ used[i].key[1] = "code" =>
                      \A u : Code(u) \in DOMAIN redis' => redis'[Code(u)].val # used[i].key[2]
      <4>1. used[i].key[2] # t
        BY <1>1, <2>3, <3>1
      <4>2. used[i].key[1] = "link" => Link(used[i].key[2]) \notin DOMAIN redis'
        BY <1>3, <2>4, <3>1 DEF Gone, Has
      <4>3. ASSUME NEW u, used[i].key[1] = "code", Code(u) \in DOMAIN redis'
            PROVE  redis'[Code(u)].val # used[i].key[2]
        <5>1. CASE u = Who(w)
          BY <2>4, <4>1, <5>1
        <5>2. CASE u # Who(w)
          BY <1>3, <2>4, <3>1, <4>3, <5>2 DEF Gone, Has
        <5>. QED  BY <5>1, <5>2
      <4>. QED  BY <4>2, <4>3
    <3>. QED  BY <2>2, <3>1 DEF Gone, Has, Link, Code
  <2>. QED  BY <2>5, <2>6
<1>7. ASSUME NEW x, Delete(x), x[1] \in {"link", "otp"}
      PROVE  \A k : k[1] \in {"link", "otp"} /\ k \in DOMAIN redis'
                      => k \in DOMAIN redis /\ redis'[k].val = redis[k].val
  BY <1>7 DEF Delete
<1>8. CASE SpendLink(w)
  <2>1. PICK t : t = job[w].tok
    OBVIOUS
  <2>2. PICK k : k = <<"link", t>>
    OBVIOUS
  <2>3. Delete(Link(t)) /\ Record(w, k) /\ k[1] = "link" /\ k[2] = t
    BY <1>8, <2>1, <2>2 DEF SpendLink
  <2>4. Link(t) \notin DOMAIN redis' /\ Link(t)[1] = "link"
    BY <2>3 DEF Delete, Link
  <2>5. ASSUME NEW i \in DOMAIN used' \ DOMAIN used
        PROVE  used'[i].key = k
    BY <1>1, <2>3, <2>5, RecordedLast
  <2>. QED  BY <1>2, <1>7, <2>3, <2>4, <2>5, GoneStays
<1>9. CASE SpendCode(w)
  <2>1. PICK t : t = job[w].tok
    OBVIOUS
  <2>2. PICK k : k = <<"code", t>>
    OBVIOUS
  <2>3. /\ Delete(Code(Who(w))) /\ Record(w, k) /\ k[1] = "code" /\ k[2] = t
        /\ job[w] # None /\ Op(w) = "enter"
    BY <1>9, <2>1, <2>2 DEF SpendCode, At
  <2>4. t \in DOMAIN issued /\ issued[t].user = Who(w)
    BY <2>1, <2>3, JobIs DEF Holds, Op, Who, Presents, Sessionless
  <2>5. ASSUME NEW i \in DOMAIN used' \ DOMAIN used
        PROVE  used'[i].key = k
    BY <1>1, <2>3, <2>5, RecordedLast
  <2>6. ASSUME NEW u, Code(u) \in DOMAIN redis'
        PROVE  redis'[Code(u)].val # t
    <3>1. u # Who(w) /\ Code(u) \in DOMAIN redis /\ redis'[Code(u)] = redis[Code(u)]
      BY <2>3, <2>6 DEF Delete
    <3>. QED  BY <2>4, <3>1 DEF CodesKept, Has
  <2>7. Code(Who(w))[1] = "otp"
    BY DEF Code
  <2>. QED  BY <1>2, <1>7, <2>3, <2>5, <2>6, <2>7, GoneStays
<1>10. CASE /\ ~MailLink(w) /\ ~SpendLink(w) /\ ~SpendCode(w)
            /\ MailCode(w) => UNCHANGED <<issued, redis>>
  <2>1. ASSUME NEW k, k[1] \in {"link", "otp"}, k \in DOMAIN redis'
        PROVE  k \in DOMAIN redis /\ redis'[k].val = redis[k].val
    BY <1>10, <2>1, SecretKeys
  <2>2. ASSUME NEW i \in DOMAIN used' \ DOMAIN used
        PROVE  used'[i].key[1] \notin {"link", "code"}
    <3>1. PICK k : /\ Record(w, k)
                   /\ k[1] = "link" => SpendLink(w)
                   /\ k[1] = "code" => SpendCode(w)
      BY <2>2, RecordsSpent
    <3>2. used'[i].key = k
      BY <1>1, <2>2, <3>1, RecordedLast
    <3>. QED  BY <1>10, <3>1, <3>2
  <2>. QED  BY <1>2, <2>1, <2>2, GoneStays
<1>. QED  BY <1>5, <1>6, <1>8, <1>9, <1>10

(* Whoever passes a check begins before what was spent of the same kind.   *)
LEMMA CheckedStep ==
  ASSUME Shape, AccountInv, RefusedKept, Gone, CheckedBefore, NEW w \in Worker, Step(w)
  PROVE  CheckedBefore'
<1>1. Widens /\ JobsKept /\ HistoryKept
  BY StepWidens DEF AccountInv
<1>2. ASSUME NEW v \in Worker, Checked(v)', NEW i \in DOMAIN used, used[i].key = SpentKey(v)'
      PROVE  job'[v].seen < i
  <2>1. CASE v # w
    <3>1. job'[v] = job[v]
      BY <2>1, AccountMoves DEF Moves
    <3>. QED  BY <1>2, <3>1 DEF CheckedBefore, Checked, SpentKey, Op
  <2>2. CASE v = w
    <3>1. /\ job[w] # None /\ job'[w] # None
          /\ job'[w].req = job[w].req /\ job'[w].tok = job[w].tok /\ job'[w].seen = job[w].seen
      BY <1>2, <2>2, StepPaths, AccountMoves DEF Checked, Moves
    <3>2. Op(w) \in Secrets \cup {"refresh"} /\ used[i].key = SpentKey(w)
      BY <1>2, <2>2, <3>1 DEF Checked, SpentKey, Op
    <3>3. CASE Checked(w)
      BY <2>2, <3>1, <3>2, <3>3 DEF CheckedBefore
    <3>4. ~(job[w].pc = "decode")
      <4>. SUFFICES ASSUME job[w].pc = "decode" PROVE FALSE
        OBVIOUS
      <4>1. DecodeToken(w) /\ Op(w) \notin {"reset", "enter"}
        BY <3>1, StepPaths, JobIs DEF Staged, Op, Verified, Presents, Sessionless
      <4>2. issued[job[w].tok].left > 0 /\ ~Has(Blacklisted(job[w].tok))
        BY <3>1, <4>1, JobIs DEF DecodeToken, End
      <4>3. used[i].key[1] = "token" /\ used[i].key[2] = job[w].tok
        BY <3>2, <4>1 DEF SpentKey
      <4>. QED  BY <4>2, <4>3 DEF RefusedKept, Refused
    <3>5. ~(job[w].pc = "link")
      <4>. SUFFICES ASSUME job[w].pc = "link" PROVE FALSE
        OBVIOUS
      <4>1. CheckLink(w) /\ Op(w) = "reset"
        BY <3>1, StepPaths, JobIs DEF Staged, Op
      <4>2. Has(Link(job[w].tok))
        BY <3>1, <4>1, JobIs DEF CheckLink, End
      <4>3. used[i].key[1] = "link" /\ used[i].key[2] = job[w].tok
        BY <3>2, <4>1 DEF SpentKey
      <4>. QED  BY <4>2, <4>3 DEF Gone
    <3>6. ~(job[w].pc = "code")
      <4>. SUFFICES ASSUME job[w].pc = "code" PROVE FALSE
        OBVIOUS
      <4>1. CheckCode(w) /\ Op(w) = "enter"
        BY <3>1, StepPaths, JobIs DEF Staged, Op
      <4>2. Has(Code(Who(w))) /\ redis[Code(Who(w))].val = job[w].tok
        BY <3>1, <4>1, JobIs DEF CheckCode, End
      <4>3. used[i].key[1] = "code" /\ used[i].key[2] = job[w].tok
        BY <3>2, <4>1 DEF SpentKey
      <4>. QED  BY <4>2, <4>3 DEF Gone
    <3>. QED  BY <3>1, <3>2, <3>3, <3>4, <3>5, <3>6 DEF Checked
  <2>. QED  BY <2>1, <2>2
<1>3. ASSUME NEW v \in Worker, job'[v] # None
      PROVE  job'[v].seen <= Len(used) /\ job'[v].seen \in Nat
  <2>1. job[v] # None /\ job'[v].seen = job[v].seen
    BY <1>3, StepPaths, AccountMoves DEF Moves
  <2>. QED  BY <1>1, <2>1 DEF JobsKept, Holds, Widens
<1>4. ASSUME NEW v \in Worker, Checked(v)', NEW i \in DOMAIN used', used'[i].key = SpentKey(v)'
      PROVE  job'[v].seen < i
  <2>1. CASE i \in DOMAIN used
    BY <1>1, <1>2, <1>4, <2>1 DEF Widens
  <2>2. CASE i \notin DOMAIN used
    <3>1. i > Len(used) /\ i \in Nat /\ Len(used) \in Nat
      BY <1>1, <1>4, <2>2 DEF Widens
    <3>2. job'[v].seen <= Len(used) /\ job'[v].seen \in Nat
      BY <1>3, <1>4 DEF Checked
    <3>. QED  BY <3>1, <3>2
  <2>. QED  BY <2>1, <2>2
<1>. QED  BY <1>4 DEF CheckedBefore

LEMMA SpentStep ==
  ASSUME Shape, AccountInv, CheckedBefore, SpentOnce, NEW w \in Worker, Step(w)
  PROVE  SpentOnce'
<1>1. Widens /\ HistoryKept
  BY StepWidens DEF AccountInv
<1>2. ASSUME NEW i \in DOMAIN used', NEW j \in DOMAIN used', i < j,
             used'[i].key = used'[j].key, used'[j].op \notin {"logout"}
      PROVE  used'[j].seen < i
  <2>1. CASE j \in DOMAIN used
    <3>1. i \in DOMAIN used
      BY <1>1, <1>2, <2>1 DEF Widens
    <3>2. used'[i] = used[i] /\ used'[j] = used[j]
      BY <1>1, <2>1, <3>1 DEF Widens
    <3>. QED  BY <1>2, <2>1, <3>1, <3>2 DEF SpentOnce
  <2>2. CASE j \notin DOMAIN used
    <3>1. PICK k : /\ Record(w, k)
                   /\ Op(w) # "logout" => Checked(w) /\ k = SpentKey(w)
      BY <1>2, <2>2, RecordsSpent
    <3>2. /\ j = Len(used) + 1 /\ used'[j].key = k
          /\ used'[j].op = Op(w) /\ used'[j].seen = job[w].seen
      BY <1>1, <1>2, <2>2, <3>1, RecordedLast
    <3>3. i \in DOMAIN used /\ used'[i] = used[i]
      BY <1>1, <1>2, <3>2 DEF Widens
    <3>. QED  BY <1>2, <3>1, <3>2, <3>3 DEF CheckedBefore
  <2>. QED  BY <2>1, <2>2
<1>. QED  BY <1>2 DEF SpentOnce

LEMMA SpentInit == SiteInit => SpentKept
<1>. SUFFICES ASSUME SiteInit PROVE SpentKept
  OBVIOUS
<1>1. job = [w \in Worker |-> None] /\ redis = [k \in {} |-> None] /\ used = <<>>
  BY DEF SiteInit, Init
<1>2. DOMAIN used = {} /\ DOMAIN redis = {}
  BY <1>1
<1>. QED  BY <1>1, <1>2 DEF SpentKept, CodesKept, Gone, CheckedBefore, Checked, SpentOnce, Has

LEMMA SpentNext ==
  Shape /\ AccountInv /\ RefusedKept /\ SpentKept /\ [SiteNext]_siteVars => SpentKept'
<1>. SUFFICES ASSUME Shape, AccountInv, RefusedKept, SpentKept, [SiteNext]_siteVars
              PROVE  SpentKept'
  OBVIOUS
<1>. USE DEF SpentKept
<1>1. ASSUME UNCHANGED used,
             DOMAIN issued \subseteq DOMAIN issued',
             \A t \in DOMAIN issued : issued'[t].user = issued[t].user,
             \A k : k[1] \in {"link", "otp"} /\ k \in DOMAIN redis'
                      => k \in DOMAIN redis /\ redis'[k].val = redis[k].val
      PROVE  CodesKept' /\ Gone' /\ SpentOnce'
  BY <1>1, GoneStays DEF SpentOnce
<1>2. ASSUME UNCHANGED used,
             \A v \in Worker : Checked(v)' =>
               Checked(v) /\ job'[v].req = job[v].req /\ job'[v].tok = job[v].tok
                          /\ job'[v].seen = job[v].seen
      PROVE  CheckedBefore'
  BY <1>2 DEF CheckedBefore, SpentKey, Op
<1>3. CASE UNCHANGED vars
  BY <1>1, <1>2, <1>3 DEF vars, Checked, Op
<1>4. ASSUME NEW w \in Worker, Begin(w)
      PROVE  SpentKept'
  <2>1. /\ UNCHANGED <<redis, issued, used>>
        /\ \A v \in Worker : v # w => job'[v] = job[v]
    BY <1>4, BeginMoves DEF Begin, history
  <2>2. ~Checked(w)'
    <3>1. job'[w].pc = FirstStep(job'[w].req.op)
      BY <1>4, BeginMoves
    <3>2. PICK j : j = job'[w]
      OBVIOUS
    <3>3. j.req.op \in Secrets \cup {"refresh"} => j.pc \in {"decode", "link", "code"}
      <4>1. /\ HandlerOf("reset") = "link" /\ HandlerOf("enter") = "code"
        BY DEF HandlerOf, Handler
      <4>2. Verified("refresh") /\ Verified("change")
        BY DEF Verified, Presents, Sessionless
      <4>3. ~Verified("reset") /\ ~Verified("enter")
        BY DEF Verified, Presents, Sessionless
      <4>. QED  BY <3>1, <3>2, <4>1, <4>2, <4>3 DEF FirstStep, Secrets
    <3>. QED  BY <3>2, <3>3 DEF Checked, Op
  <2>. QED  BY <1>1, <1>2, <2>1, <2>2 DEF Checked, Op
<1>5. ASSUME NEW w \in Worker, Step(w)
      PROVE  SpentKept'
  BY <1>5, GoneStep, CheckedStep, SpentStep
<1>6. ASSUME NEW w \in Worker, Crash(w)
      PROVE  SpentKept'
  <2>1. /\ UNCHANGED <<redis, issued, used>>
        /\ job'[w] = None /\ \A v \in Worker : v # w => job'[v] = job[v]
    BY <1>6, CrashMoves DEF Moves
  <2>. QED  BY <1>1, <1>2, <2>1 DEF Checked, Op
<1>7. ASSUME NEW w \in Worker, OtherStep(w)
      PROVE  SpentKept'
  <2>1. /\ UNCHANGED <<issued, used>> /\ job[w] # None
        /\ \A v \in Worker : v # w => job'[v] = job[v]
        /\ job[w].pc \notin {"decode", "link", "code"}
        /\ job'[w] # None => job'[w].req = job[w].req /\ job'[w].tok = job[w].tok
                             /\ job'[w].seen = job[w].seen
    BY <1>7, OthersAside, OthersStart DEF AccountSteps
  <2>2. ASSUME NEW k, k[1] \in {"link", "otp"}, k \in DOMAIN redis'
        PROVE  k \in DOMAIN redis /\ redis'[k].val = redis[k].val
    BY <1>7, <2>2, OthersKeys DEF AccountKeys
  <2>. QED  BY <1>1, <1>2, <2>1, <2>2 DEF Checked, Op
<1>8. CASE Tick
  <2>1. /\ UNCHANGED <<used, job>>
        /\ issued' = [t \in DOMAIN issued |-> [issued[t] EXCEPT !.left = Older(@)]]
        /\ redis' = [k \in DOMAIN redis \ Ending |-> [redis[k] EXCEPT !.ttl = Older(@)]]
    BY <1>8 DEF Tick
  <2>2. \A t \in DOMAIN issued : issued'[t].user = issued[t].user
    BY <2>1 DEF AccountInv, TokensKept
  <2>3. \A k \in DOMAIN redis' : k \in DOMAIN redis /\ redis'[k].val = redis[k].val
    BY <2>1 DEF AccountInv, KeysKept
  <2>. QED  BY <1>1, <1>2, <2>1, <2>2, <2>3 DEF Checked, Op
<1>. QED  BY <1>3, <1>4, <1>5, <1>6, <1>7, <1>8, SiteCases

LEMMA SpentAlways == SiteSpec => []SpentKept
<1>. QED  BY SpentInit, SpentNext, RefusedAlways, AccountAlways, JobsShaped, PTL DEF SiteSpec

(* SpentOnce of Accounts.  A refresh token, a link, a code or a session    *)
(* whose password changed is spent again only by requests that began       *)
(* before it was spent.                                                    *)
THEOREM SecretsSpentOnce == SiteSpec => []SpentOnce
<1>1. SpentKept => SpentOnce
  BY DEF SpentKept
<1>. QED  BY <1>1, SpentAlways, PTL

-----------------------------------------------------------------------------
(* The user behind a verified request has a row.                           *)
LEMMA VerifiedUser ==
  ASSUME Shape, AccountInv, NEW w \in Worker, job[w] # None, Verified(Op(w))
  PROVE  Who(w) \in DOMAIN db /\ Op(w) \notin Naming \cup {"login"}
<1>1. /\ Presents(Op(w)) \subseteq {"access", "refresh"} /\ Op(w) \notin Sessionless
      /\ Presents(Op(w)) # {}
  BY DEF Verified, Presents
<1>2. Op(w) # "password"
  BY JobIs, StepsApart DEF AccountSteps
<1>3. job[w].tok \in DOMAIN issued /\ issued[job[w].tok].user = Who(w)
      /\ issued[job[w].tok].kind \in {"access", "refresh"}
  BY <1>1, JobIs DEF Holds, Op, Who
<1>. QED  BY <1>1, <1>2, <1>3 DEF AccountInv, TokensKept, Naming, Sessionless

(* Only an administrator's change touches a role or a status.              *)
LEMMA RowsStep ==
  ASSUME Shape, AccountInv, NEW w \in Worker, Step(w), ~ApplyAdminChange(w)
  PROVE  /\ admins' = admins
         /\ \A u \in DOMAIN db : /\ u \in DOMAIN db'
                                 /\ db'[u].active = db[u].active /\ db'[u].role = db[u].role
<1>1. admins' = admins
  BY StepFrames
<1>2. UsersKept
  BY DEF AccountInv
<1>3. CASE UNCHANGED db
  BY <1>1, <1>3
<1>4. CASE CommitUpdate(w)
  <2>1. ASSUME NEW x, db' = [db EXCEPT ![x].verified = TRUE], NEW u \in DOMAIN db
        PROVE  /\ u \in DOMAIN db'
               /\ db'[u].active = db[u].active /\ db'[u].role = db[u].role
    BY <1>2, <2>1 DEF UsersKept, UserColumns
  <2>2. ASSUME NEW x, NEW p, db' = [db EXCEPT ![x].pass = p], NEW u \in DOMAIN db
        PROVE  /\ u \in DOMAIN db'
               /\ db'[u].active = db[u].active /\ db'[u].role = db[u].role
    BY <1>2, <2>2 DEF UsersKept, UserColumns
  <2>. QED  BY <1>1, <1>4, <2>1, <2>2 DEF CommitUpdate
<1>5. CASE WriteUnique(w)
  <2>1. CASE Op(w) = "register"
    <3>1. PICK x \in User \ (DOMAIN db \cup {None}) : \E row : db' = Put(db, x, row)
      BY <1>5, <2>1 DEF WriteUnique, Written
    <3>. QED  BY <1>1, <3>1 DEF Put
  <2>2. CASE Op(w) # "register"
    <3>1. PICK x, p : db' = [db EXCEPT ![x].phone = p]
      BY <1>5, <2>2 DEF WriteUnique, Written
    <3>. QED  BY <1>1, <1>2, <3>1 DEF UsersKept, UserColumns
  <2>. QED  BY <2>1, <2>2
<1>. QED  BY <1>3, <1>4, <1>5, StepFrames

(* Every administrator's change begins with another user.                  *)
LEMMA ApartStep ==
  ASSUME Shape, AccountInv, Apart, NEW w \in Worker, Step(w)
  PROVE  Apart'
<1>1. ASSUME NEW v \in Worker, job'[v] # None, job'[v].pc \in {"guard", "apply"}
      PROVE  job'[v].req.target # Who(v)'
  <2>1. CASE v # w
    <3>1. job'[v] = job[v]
      BY <2>1, AccountMoves DEF Moves
    <3>. QED  BY <1>1, <3>1 DEF Apart, Who
  <2>2. CASE v = w
    <3>1. /\ job'[w].req = job[w].req
          /\ LoadTarget(w) \/ EnsureSafe(w)
      BY <1>1, <2>2, StepPaths
    <3>2. ~PasswordChecked(w) /\ job[w] # None
      BY <3>1 DEF LoadTarget, EnsureSafe, PasswordChecked, At
    <3>3. job'[w].user = job[w].user
      BY <1>1, <2>2, <3>2, StepPaths
    <3>4. CASE LoadTarget(w)
      <4>1. ~End(w)
        BY <1>1, <2>2, <3>2, JobIs DEF End
      <4>. QED  BY <2>2, <3>1, <3>3, <3>4, <4>1 DEF LoadTarget, Who
    <3>5. CASE EnsureSafe(w)
      <4>1. job[w].pc = "guard"
        BY <3>5 DEF EnsureSafe, At
      <4>. QED  BY <2>2, <3>1, <3>2, <3>3, <4>1 DEF Apart, Who
    <3>. QED  BY <3>1, <3>4, <3>5
  <2>. QED  BY <2>1, <2>2
<1>. QED  BY <1>1 DEF Apart

LEMMA AuthorityStep ==
  ASSUME Shape, AccountInv, ActsWithAuthority, NEW w \in Worker, Step(w)
  PROVE  ActsWithAuthority'
<1>1. ASSUME NEW v \in Worker, job'[v] # None, Verified(Op(v)'),
             job'[v].pc \notin {"decode", "load"}
      PROVE  \/ /\ db'[Who(v)'].active
                /\ Op(v)' \in AdminOnly => db'[Who(v)'].role = "admin"
                /\ Op(v)' \in StaffOnly => db'[Who(v)'].role \in {"staff", "admin"}
             \/ admins'.changes # job'[v].epoch
  <2>1. PICK u : u = Who(v)'
    OBVIOUS
  <2>2. PICK op : op = Op(v)'
    OBVIOUS
  <2>3. /\ job[v] # None /\ Op(v) = op /\ Who(v) = u /\ u \in DOMAIN db
    <3>1. CASE v # w
      <4>1. job'[v] = job[v]
        BY <3>1, AccountMoves DEF Moves
      <4>. QED  BY <1>1, <2>1, <2>2, <4>1, VerifiedUser DEF Op, Who
    <3>2. CASE v = w
      <4>1. job[w] # None /\ job'[w].req = job[w].req
        BY <1>1, <3>2, StepPaths, AccountMoves DEF Moves
      <4>2. Op(w) = op /\ Verified(Op(w))
        BY <1>1, <2>2, <3>2, <4>1 DEF Op
      <4>3. ~PasswordChecked(w)
        BY <4>1, <4>2, VerifiedUser, JobIs DEF PasswordChecked, At, Staged, Op
      <4>4. job'[w].user = job[w].user
        BY <1>1, <3>2, <4>3, StepPaths
      <4>. QED  BY <2>1, <3>2, <4>1, <4>2, <4>4, VerifiedUser DEF Who
    <3>. QED  BY <3>1, <3>2
  <2>4. CASE ApplyAdminChange(w)
    <3>1. admins'.changes = admins.changes + 1 /\ admins.changes \in Nat
      BY <2>4 DEF ApplyAdminChange, AccountInv, HistoryKept
    <3>2. job'[v].epoch \in 0..admins.changes
      <4>1. job'[v].epoch = job[v].epoch
        BY <1>1, <2>4, StepPaths, AccountMoves DEF Moves, ApplyAdminChange, LoadUser, At
      <4>. QED  BY <2>3, <4>1, JobIs DEF Holds
    <3>. QED  BY <3>1, <3>2
  <2>5. CASE ~ApplyAdminChange(w)
    <3>1. /\ admins' = admins
          /\ db'[u].active = db[u].active /\ db'[u].role = db[u].role
      BY <2>3, <2>5, RowsStep
    <3>2. CASE v # w
      <4>1. job'[v] = job[v]
        BY <3>2, AccountMoves DEF Moves
      <4>. QED  BY <1>1, <2>1, <2>2, <2>3, <3>1, <4>1 DEF ActsWithAuthority
    <3>3. CASE v = w /\ ~LoadUser(w)
      <4>1. job'[w].epoch = job[w].epoch /\ job[w].pc \notin {"decode", "load"}
        <5>1. DecodeToken(w) => job'[w].pc = "load"
          <6>1. ~End(w)
            BY <1>1, <2>3, <3>3, JobIs DEF End
          <6>. QED  BY <2>3, <3>3, <6>1, JobIs DEF DecodeToken, Goto, Fields
        <5>. QED  BY <1>1, <3>3, <5>1, StepPaths
      <4>. QED  BY <1>1, <2>1, <2>2, <2>3, <3>1, <3>3, <4>1 DEF ActsWithAuthority
    <3>4. CASE v = w /\ LoadUser(w)
      <4>1. ~End(w)
        BY <1>1, <2>3, <3>4, JobIs DEF End
      <4>. QED  BY <2>1, <2>2, <2>3, <3>1, <3>4, <4>1 DEF LoadUser
    <3>. QED  BY <3>2, <3>3, <3>4
  <2>. QED  BY <2>4, <2>5
<1>. QED  BY <1>1 DEF ActsWithAuthority, Op, Who

(* Who takes the rights of an administrator away is one.                   *)
LEMMA AdminsStep ==
  ASSUME Shape, AccountInv, ActsWithAuthority, Apart, AdminsRemain, NEW w \in Worker, Step(w)
  PROVE  AdminsRemain'
<1>1. CASE ~ApplyAdminChange(w)
  <2>1. /\ admins' = admins
        /\ \A u \in DOMAIN db : /\ u \in DOMAIN db'
                                /\ db'[u].active = db[u].active /\ db'[u].role = db[u].role
    BY <1>1, RowsStep
  <2>. QED  BY <2>1 DEF AdminsRemain, ActiveAdmins, Admins
<1>2. CASE ApplyAdminChange(w)
  <2>1. admins'.overlapped = (admins.overlapped \/ job[w].epoch # admins.changes)
    BY <1>2 DEF ApplyAdminChange
  <2>2. CASE job[w].epoch # admins.changes
    BY <2>1, <2>2 DEF AdminsRemain
  <2>3. CASE job[w].epoch = admins.changes
    <3>1. job[w] # None /\ job[w].pc = "apply" /\ Op(w) \in {"role", "status"}
      BY <1>2, JobIs DEF ApplyAdminChange, At, Staged, Op
    <3>2. Verified(Op(w)) /\ Op(w) \in AdminOnly
      BY <3>1 DEF Verified, Presents, Sessionless, AdminOnly
    <3>3. /\ Who(w) \in DOMAIN db /\ db[Who(w)].active /\ db[Who(w)].role = "admin"
          /\ job[w].req.target # Who(w)
      BY <2>3, <3>1, <3>2, VerifiedUser DEF ActsWithAuthority, Apart
    <3>4. PICK u : u = Who(w)
      OBVIOUS
    <3>5. u \in DOMAIN db' /\ db'[u] = db[u]
      BY <1>2, <3>3, <3>4 DEF ApplyAdminChange
    <3>6. u \in ActiveAdmins'
      BY <3>3, <3>4, <3>5 DEF ActiveAdmins, Admins
    <3>. QED  BY <3>6 DEF AdminsRemain
  <2>. QED  BY <2>2, <2>3
<1>. QED  BY <1>1, <1>2

LEMMA AuthorityInit == SiteInit => AuthorityKept
<1>. SUFFICES ASSUME SiteInit PROVE AuthorityKept
  OBVIOUS
<1>1. job = [w \in Worker |-> None] /\ db = Seed
  BY DEF SiteInit, Init
<1>2. AdminsRemain
  BY <1>1, AccountsAssumption DEF AdminsRemain, ActiveAdmins, Admins
<1>. QED  BY <1>1, <1>2 DEF AuthorityKept, ActsWithAuthority, Apart

LEMMA AuthorityNext ==
  Shape /\ AccountInv /\ AuthorityKept /\ [SiteNext]_siteVars => AuthorityKept'
<1>. SUFFICES ASSUME Shape, AccountInv, AuthorityKept, [SiteNext]_siteVars
              PROVE  AuthorityKept'
  OBVIOUS
<1>. USE DEF AuthorityKept
<1>1. ASSUME UNCHANGED <<db, admins>>,
             \A v \in Worker : job'[v] # None /\ Verified(Op(v)') /\ job'[v].pc \notin {"decode", "load"}
               => /\ job[v] # None /\ job[v].pc \notin {"decode", "load"}
                  /\ job'[v].req = job[v].req /\ job'[v].user = job[v].user
                  /\ job'[v].epoch = job[v].epoch,
             \A v \in Worker : job'[v] # None /\ job'[v].pc \in {"guard", "apply"}
               => job'[v] = job[v]
      PROVE  AuthorityKept'
  <2>1. ActsWithAuthority'
    BY <1>1 DEF ActsWithAuthority, Op, Who
  <2>2. Apart' /\ AdminsRemain'
    BY <1>1 DEF Apart, Who, AdminsRemain, ActiveAdmins, Admins
  <2>. QED  BY <2>1, <2>2
<1>2. CASE UNCHANGED vars
  BY <1>1, <1>2 DEF vars
<1>3. ASSUME NEW w \in Worker, Begin(w)
      PROVE  AuthorityKept'
  <2>1. /\ UNCHANGED <<db, admins>>
        /\ \A v \in Worker : v # w => job'[v] = job[v]
    BY <1>3, BeginMoves DEF Begin, history
  <2>2. PICK j : j = job'[w]
    OBVIOUS
  <2>3. j.pc = FirstStep(j.req.op) /\ j.req \in Requested
    BY <1>3, <2>2, BeginMoves
  <2>4. /\ Verified(j.req.op) => j.pc = "decode"
        /\ j.pc \notin {"guard", "apply"}
    <3>1. CASE Verified(j.req.op)
      BY <2>3, <3>1 DEF FirstStep
    <3>2. CASE ~Verified(j.req.op)
      <4>1. j.pc = HandlerOf(j.req.op) /\ j.req.op \in Routes
        BY <2>3, <3>2, RequestedRouted DEF FirstStep
      <4>2. Staged(j) /\ j.pc # "guard"
        BY <4>1, HandlerStaged
      <4>3. j.req.op \in {"role", "status"} => Verified(j.req.op)
        BY DEF Verified, Presents, Sessionless
      <4>. QED  BY <3>2, <4>2, <4>3 DEF Staged
    <3>. QED  BY <3>1, <3>2
  <2>. QED  BY <1>1, <2>1, <2>2, <2>4 DEF Op
<1>4. ASSUME NEW w \in Worker, Step(w)
      PROVE  AuthorityKept'
  BY <1>4, AuthorityStep, ApartStep, AdminsStep
<1>5. ASSUME NEW w \in Worker, Crash(w)
      PROVE  AuthorityKept'
  <2>1. /\ UNCHANGED <<db, admins>>
        /\ job'[w] = None /\ \A v \in Worker : v # w => job'[v] = job[v]
    BY <1>5, CrashMoves DEF Moves
  <2>. QED  BY <1>1, <2>1
<1>6. ASSUME NEW w \in Worker, OtherStep(w)
      PROVE  AuthorityKept'
  <2>1. /\ UNCHANGED <<db, admins>> /\ job[w] # None
        /\ \A v \in Worker : v # w => job'[v] = job[v]
        /\ job[w].pc \notin AccountSteps
        /\ job'[w] # None => /\ job'[w].req = job[w].req /\ job'[w].epoch = job[w].epoch
                             /\ Op(w) \notin Naming => job'[w].user = job[w].user
                             /\ job'[w].pc \notin AccountSteps
    BY <1>6, OthersAside, OthersStart
  <2>2. Verified(Op(w)) => Op(w) \notin Naming
    BY <2>1, VerifiedUser
  <2>. QED  BY <1>1, <2>1, <2>2 DEF Op, AccountSteps
<1>7. CASE Tick
  BY <1>1, <1>7 DEF Tick
<1>. QED  BY <1>2, <1>3, <1>4, <1>5, <1>6, <1>7, SiteCases

LEMMA AuthorityAlways == SiteSpec => []AuthorityKept
<1>. QED  BY AuthorityInit, AuthorityNext, AccountAlways, JobsShaped, PTL DEF SiteSpec

(* ActsWithAuthority of Site.  Past the look-up of its user a handler      *)
(* works for an active user who has the role its route asks for, unless a  *)
(* change of a role or a status was committed since.                       *)
THEOREM AuthorityHolds == SiteSpec => []ActsWithAuthority
<1>1. AuthorityKept => ActsWithAuthority
  BY DEF AuthorityKept
<1>. QED  BY <1>1, AuthorityAlways, PTL

(* AdminsRemain of Accounts.  The last active administrator is lost only   *)
(* to two changes at the same time: who takes an administrator's rights    *)
(* away is an active administrator, and another one.                       *)
THEOREM AnAdminRemains == SiteSpec => []AdminsRemain
<1>1. AuthorityKept => AdminsRemain
  BY DEF AuthorityKept
<1>. QED  BY <1>1, AuthorityAlways, PTL

-----------------------------------------------------------------------------
(* Each step of a login belongs to one place of it.                        *)
LEMMA StepAt ==
  ASSUME NEW w \in Worker, Step(w)
  PROVE  /\ job[w].pc = "lock" => CheckLock(w)
         /\ job[w].pc = "password" => WrongPassword(w) \/ PasswordChecked(w)
         /\ job[w].pc = "clear" => ClearFailures(w)
         /\ job[w].pc = "count" => Increment(w)
         /\ job[w].pc = "expire" => ExpireCounter(w)
         /\ job[w].pc = "limit" => LockAccount(w) \/ MailCode(w)
<1>. USE DEF At
<1>1. CASE LoginStep(w)
  BY <1>1 DEF LoginStep, CheckLock, WrongPassword, PasswordChecked, ClearFailures, Increment,
     ExpireCounter, LockAccount
<1>2. CASE SessionStep(w)
  BY <1>2 DEF SessionStep, DecodeToken, LoadUser, IssueSession, RotateRefreshToken,
     RevokeAccess, RevokeRefresh
<1>3. CASE SecretStep(w)
  BY <1>3 DEF SecretStep, MailLink, MailCode, CheckLink, CheckCode, CheckOldPassword,
     FlushUpdate, SpendLink, SpendCode, SpendAccess, ClearResend, CommitUpdate
<1>4. CASE UserStep(w)
  BY <1>4 DEF UserStep, CheckUnique, WriteUnique, IntegrityError, LoadTarget, EnsureSafe,
     ApplyAdminChange
<1>. QED  BY <1>1, <1>2, <1>3, <1>4 DEF Step

(* Only two steps touch a counter but to delete it.                        *)
LEMMA CounterKeys ==
  ASSUME NEW w \in Worker, Step(w), ~Increment(w), ~ExpireCounter(w),
         NEW k, k[1] \in {"failed", "resend"}, k \in DOMAIN redis'
  PROVE  k \in DOMAIN redis /\ redis'[k] = redis[k]
<1>. DEFINE Kept == k \in DOMAIN redis /\ redis'[k] = redis[k]
<1>. SUFFICES Kept
  OBVIOUS
<1>1. CASE UNCHANGED redis
  BY <1>1
<1>2. ASSUME NEW x, NEW v, NEW ttl, x[1] \notin {"failed", "resend"}, SetEx(x, v, ttl)
      PROVE  Kept
  BY <1>2, OtherKey
<1>3. ASSUME NEW x, Delete(x)
      PROVE  Kept
  BY <1>3 DEF Delete
<1>4. ASSUME NEW t, Blacklist(t)
      PROVE  Kept
  <2>1. Blacklisted(t)[1] \notin {"failed", "resend"}
    BY DEF Blacklisted
  <2>. QED  BY <1>2, <1>4, <2>1 DEF Blacklist
<1>5. /\ \A id : Lockout(id)[1] \notin {"failed", "resend"}
      /\ \A x : Link(x)[1] \notin {"failed", "resend"} /\ Code(x)[1] \notin {"failed", "resend"}
  BY DEF Lockout, Link, Code
<1>6. CASE ClearFailures(w) \/ SpendLink(w) \/ SpendCode(w) \/ ClearResend(w)
  BY <1>3, <1>6 DEF ClearFailures, SpendLink, SpendCode, ClearResend
<1>7. CASE LockAccount(w)
  BY <1>1, <1>2, <1>5, <1>7 DEF LockAccount
<1>8. CASE RotateRefreshToken(w) \/ RevokeAccess(w) \/ RevokeRefresh(w) \/ SpendAccess(w)
  BY <1>1, <1>4, <1>8 DEF RotateRefreshToken, RevokeAccess, RevokeRefresh, SpendAccess
<1>9. CASE MailLink(w)
  BY <1>2, <1>5, <1>9 DEF MailLink
<1>10. CASE MailCode(w)
  BY <1>1, <1>2, <1>5, <1>10 DEF MailCode
<1>. QED  BY <1>1, <1>6, <1>7, <1>8, <1>9, <1>10, StepFrames

(* A login on its way to the counter: nobody is looked up yet.             *)
LEMMA EarlyJob ==
  ASSUME NEW j, NEW r \in Requested, NEW pc \in {"count", "expire", "limit"},
         NEW n \in Nat, NEW seen \in Nat, NEW epoch \in Nat,
         j = [f \in Fields |-> j[f]],
         j.req = r, j.pc = pc, j.tok = 0, j.user = r.user, j.row = None, j.n = n,
         j.seen = seen, j.epoch = epoch
  PROVE  j # None
<1>1. PICK s \in Scenario, w \in Worker : \E i \in DOMAIN s[w] : r = s[w][i]
  BY RequestIsAsked
<1>2. None \notin [req : {r}, pc : {"count", "expire", "limit"}, tok : {0},
                   user : {r.user}, row : {None}, n : Nat, seen : Nat, epoch : Nat]
  BY <1>1, NoneIsNoJob
<1>3. j = [req |-> r, pc |-> pc, tok |-> 0, user |-> r.user, row |-> None, n |-> n,
           seen |-> seen, epoch |-> epoch]
  BY DEF Fields
<1>. QED  BY <1>2, <1>3

(* The steps that lead a request to the counter keep it on its way.        *)
LEMMA EarlySteps ==
  ASSUME Shape, AccountInv, NEW w \in Worker, Step(w), job'[w] # None, job'[w].pc \in Early
  PROVE  \/ CheckLock(w) /\ Goto(w, "password")
         \/ WrongPassword(w)
         \/ Increment(w)
         \/ ExpireCounter(w)
<1>1. /\ job[w] # None /\ DOMAIN job = Worker /\ DOMAIN job[w] = Fields
      /\ Op(w) \in Routes /\ Staged(job[w])
  BY AccountMoves, JobIs DEF Moves
<1>2. ASSUME NEW pc, Goto(w, pc)
      PROVE  job'[w].pc = pc
  BY <1>1, <1>2 DEF Goto, Fields
<1>3. ~End(w)
  BY <1>1 DEF End
<1>. USE DEF Early
<1>4. CASE LoginStep(w)
  <2>1. ~ClearFailures(w)
    BY <1>2 DEF ClearFailures
  <2>2. ~LockAccount(w)
    BY <1>3 DEF LockAccount
  <2>3. ~PasswordChecked(w)
    <3>1. ASSUME NEW u, job' = [job EXCEPT ![w].pc = "clear", ![w].user = u]
          PROVE  FALSE
      BY <1>1, <3>1 DEF Fields
    <3>. QED  BY <1>3, <3>1 DEF PasswordChecked
  <2>. QED  BY <1>3, <1>4, <2>1, <2>2, <2>3 DEF LoginStep, CheckLock
<1>5. CASE SessionStep(w)
  <2>1. ~LoadUser(w)
    <3>1. SUFFICES ASSUME LoadUser(w) PROVE FALSE
      OBVIOUS
    <3>2. Verified(Op(w))
      BY <1>1, <3>1 DEF LoadUser, At, Staged, Op
    <3>3. job'[w].pc = HandlerOf(Op(w))
      <4>1. job' = [job EXCEPT ![w].pc = HandlerOf(Op(w)), ![w].row = db[Who(w)],
                               ![w].epoch = admins.changes]
        BY <1>3, <3>1 DEF LoadUser
      <4>. QED  BY <1>1, <4>1 DEF Fields
    <3>4. HandlerOf(Op(w)) \in Early => Op(w) \in {"login", "askcode"}
      <4>1. PICK j : j = [req |-> [op |-> Op(w)], pc |-> HandlerOf(Op(w))]
        OBVIOUS
      <4>2. CASE Op(w) \in DOMAIN Handler
        BY <4>2 DEF HandlerOf, Handler
      <4>3. CASE Op(w) \notin DOMAIN Handler
        BY <1>1, <4>3 DEF HandlerOf, Routes, Sessionless, AdminOnly, StaffOnly, Shopping
      <4>. QED  BY <4>2, <4>3
    <3>. QED  BY <3>2, <3>3, <3>4 DEF Verified, Sessionless
  <2>. QED  BY <1>2, <1>3, <1>5, <2>1 DEF SessionStep, DecodeToken, IssueSession,
            RotateRefreshToken, RevokeAccess, RevokeRefresh
<1>6. CASE SecretStep(w)
  BY <1>2, <1>3, <1>6 DEF SecretStep, MailLink, MailCode, CheckLink, CheckCode,
     CheckOldPassword, FlushUpdate, SpendLink, SpendCode, SpendAccess, ClearResend, CommitUpdate
<1>7. CASE UserStep(w)
  <2>1. ASSUME NEW r, job' = [job EXCEPT ![w].pc = "guard", ![w].row = r]
        PROVE  FALSE
    BY <1>1, <2>1 DEF Fields
  <2>. QED  BY <1>2, <1>3, <1>7, <2>1 DEF UserStep, CheckUnique, WriteUnique, IntegrityError,
            LoadTarget, EnsureSafe, ApplyAdminChange
<1>. QED  BY <1>4, <1>5, <1>6, <1>7 DEF Step

LEMMA EarlyGoes ==
  ASSUME Shape, AccountInv, EarlyKept, NEW w \in Worker, job[w] # None, job[w].pc \in Early,
         NEW pc \in {"count", "expire", "limit"}, NEW n \in Nat,
         \/ job' = [job EXCEPT ![w].n = n, ![w].pc = pc]
         \/ job' = [job EXCEPT ![w].pc = pc] /\ n = job[w].n
  PROVE  /\ job'[w] # None /\ job'[w].pc = pc /\ job'[w].n = n
         /\ job'[w].req = job[w].req /\ job'[w].row = job[w].row
         /\ job'[w].user = job[w].user
<1>1. /\ DOMAIN job = Worker /\ DOMAIN job[w] = Fields
      /\ Req(w) \in Requested /\ Staged(job[w]) /\ Holds(job[w])
  BY JobIs
<1>2. PICK j : j = job'[w]
  OBVIOUS
<1>3. /\ j = [f \in Fields |-> j[f]] /\ j.pc = pc /\ j.n = n /\ j.req = job[w].req
      /\ j.tok = job[w].tok /\ j.user = job[w].user /\ j.row = job[w].row
      /\ j.seen = job[w].seen /\ j.epoch = job[w].epoch
  <2>1. CASE job' = [job EXCEPT ![w].n = n, ![w].pc = pc]
    BY <1>1, <1>2, <2>1 DEF Fields
  <2>2. CASE job' = [job EXCEPT ![w].pc = pc] /\ n = job[w].n
    BY <1>1, <1>2, <2>2 DEF Fields
  <2>. QED  BY <2>1, <2>2
<1>4. job[w].row = None /\ job[w].user = job[w].req.user
  BY DEF EarlyKept
<1>5. job[w].tok = 0
  <2>1. job[w].req.op \in {"login", "askcode"}
    BY <1>1 DEF Staged, Early
  <2>. QED  BY <1>1, <2>1 DEF Holds, Presents, Sessionless
<1>6. job[w].seen \in Nat /\ job[w].epoch \in Nat
  BY <1>1 DEF Holds, AccountInv, HistoryKept, IsSequence
<1>7. PICK r : r = job[w].req
  OBVIOUS
<1>8. r \in Requested
  BY <1>1, <1>7 DEF Req
<1>. QED  BY <1>2, <1>3, <1>4, <1>5, <1>6, <1>7, <1>8, EarlyJob

(* What is counted is a number.                                            *)
LEMMA CounterVal ==
  ASSUME CountedKept, NEW w \in Worker
  PROVE  Counter(w) \in DOMAIN redis => redis[Counter(w)].val \in Nat
BY DEF CountedKept, Counter, Failed, Resend

(* INCR of a counter, in the terms of the request that does it.            *)
LEMMA IncrementIs ==
  ASSUME Shape, AccountInv, EarlyKept, CountedKept, NEW w \in Worker, Increment(w)
  PROVE  /\ \E n, life : SetEx(Counter(w), n, life)
         /\ Counter(w) \in DOMAIN redis'
         /\ ~Has(Counter(w)) =>
              /\ redis'[Counter(w)].val = 1
              /\ job'[w].n = 1 /\ job'[w].pc = "expire"
         /\ Has(Counter(w)) =>
              /\ redis'[Counter(w)].val = redis[Counter(w)].val + 1
              /\ redis'[Counter(w)].ttl = redis[Counter(w)].ttl
              /\ job'[w].n = redis[Counter(w)].val + 1
              /\ job'[w].pc \in {"expire", "limit"}
         /\ job'[w] # None /\ job'[w].req = job[w].req /\ job'[w].user = job[w].user
         /\ job'[w].row = job[w].row
<1>1. job[w] # None /\ DOMAIN job = Worker /\ DOMAIN job[w] = Fields
  BY JobIs DEF Increment, At
<1>2. PICK k : k = Counter(w)
  OBVIOUS
<1>3. PICK n : n = IF Has(k) THEN redis[k].val + 1 ELSE 1
  OBVIOUS
<1>4. PICK life : life = IF Has(k) THEN redis[k].ttl ELSE Forever
  OBVIOUS
<1>5. PICK pc : pc = IF n = 1 THEN "expire" ELSE "limit"
  OBVIOUS
<1>6. SetEx(k, n, life) /\ job' = [job EXCEPT ![w].n = n, ![w].pc = pc]
  BY <1>2, <1>3, <1>4, <1>5 DEF Increment
<1>7. job'[w].n = n /\ job'[w].pc = pc /\ job'[w].req = job[w].req /\ job'[w].user = job[w].user
      /\ job'[w].row = job[w].row /\ DOMAIN job'[w] = Fields
  BY <1>1, <1>6 DEF Fields
<1>8. job'[w] # None
  <2>1. n \in Nat /\ pc \in {"expire", "limit"} /\ job[w].pc = "count"
    BY <1>2, <1>3, <1>5, CounterVal DEF Increment, At, Has
  <2>. QED  BY <1>1, <1>6, <2>1, EarlyGoes DEF Early
<1>9. k \in DOMAIN redis' /\ redis'[k] = [val |-> n, ttl |-> life]
  BY <1>6 DEF SetEx, Put
<1>. QED  BY <1>2, <1>3, <1>4, <1>5, <1>6, <1>7, <1>8, <1>9

LEMMA EarlyStep ==
  ASSUME Shape, AccountInv, EarlyKept, CountedKept, NEW w \in Worker, Step(w)
  PROVE  EarlyKept'
<1>1. ASSUME NEW v \in Worker, job'[v] # None, job'[v].pc \in Early
      PROVE  job'[v].row = None /\ job'[v].user = job'[v].req.user /\ job'[v].n \in Nat
  <2>1. CASE v # w
    <3>1. job'[v] = job[v]
      BY <2>1, AccountMoves DEF Moves
    <3>. QED  BY <1>1, <3>1 DEF EarlyKept
  <2>2. CASE v = w
    <3>1. DOMAIN job = Worker /\ DOMAIN job[w] = Fields
      BY AccountMoves, JobIs DEF Moves
    <3>2. ASSUME NEW pc, Goto(w, pc), job[w] # None, job[w].pc \in Early
          PROVE  /\ job'[w].row = None /\ job'[w].user = job'[w].req.user
                 /\ job'[w].n \in Nat
      <4>1. /\ job'[w].row = job[w].row /\ job'[w].user = job[w].user
            /\ job'[w].req = job[w].req /\ job'[w].n = job[w].n
        BY <3>1, <3>2 DEF Goto, Fields
      <4>. QED  BY <3>2, <4>1 DEF EarlyKept
    <3>3. CASE Increment(w)
      <4>1. job[w] # None /\ job[w].pc \in Early
        BY <3>3 DEF Increment, At, Early
      <4>2. /\ job'[w].row = job[w].row /\ job'[w].user = job[w].user
            /\ job'[w].req = job[w].req /\ job'[w].n \in Nat
        BY <3>3, IncrementIs, CounterVal DEF Has
      <4>. QED  BY <2>2, <4>1, <4>2 DEF EarlyKept
    <3>4. CASE CheckLock(w) /\ Goto(w, "password")
      BY <2>2, <3>2, <3>4 DEF CheckLock, At, Early
    <3>5. CASE WrongPassword(w)
      BY <2>2, <3>2, <3>5 DEF WrongPassword, At, Early
    <3>6. CASE ExpireCounter(w)
      BY <2>2, <3>2, <3>6 DEF ExpireCounter, At, Early
    <3>. QED  BY <1>1, <2>2, <3>3, <3>4, <3>5, <3>6, EarlySteps
  <2>. QED  BY <2>1, <2>2
<1>. QED  BY <1>1 DEF EarlyKept

(* EXPIRE of a counter.                                                    *)
LEMMA ExpireIs ==
  ASSUME AccountInv, NEW w \in Worker, ExpireCounter(w), NEW k, k \in DOMAIN redis'
  PROVE  /\ k \in DOMAIN redis
         /\ redis'[k].val = redis[k].val
         /\ k # Counter(w) => redis'[k] = redis[k]
         /\ k = Counter(w) => redis'[k].ttl \in Nat
<1>1. PICK x : x = Counter(w)
  OBVIOUS
<1>2. PICK ttl : ttl = CounterTtl(w)
  OBVIOUS
<1>3. ttl \in Nat
  BY <1>2, ServiceAssumption DEF CounterTtl
<1>4. redis' = IF x \in DOMAIN redis THEN [redis EXCEPT ![x].ttl = ttl] ELSE redis
  BY <1>1, <1>2 DEF ExpireCounter, Expire, Has
<1>5. DOMAIN redis[k] = {"val", "ttl"} /\ k \in DOMAIN redis
  BY <1>4 DEF AccountInv, KeysKept
<1>. QED  BY <1>1, <1>3, <1>4, <1>5

LEMMA CountedStep ==
  ASSUME Shape, AccountInv, EarlyKept, CountedKept, NEW w \in Worker, Step(w)
  PROVE  CountedKept'
<1>1. ASSUME NEW k, k \in DOMAIN redis', k[1] \in {"failed", "resend"}
      PROVE  redis'[k].val \in Nat
  <2>1. CASE Increment(w)
    <3>1. CASE k = Counter(w)
      BY <2>1, <3>1, IncrementIs, CounterVal DEF Has
    <3>2. CASE k # Counter(w)
      BY <1>1, <2>1, <3>2, IncrementIs, OtherKey DEF CountedKept
    <3>. QED  BY <3>1, <3>2
  <2>2. CASE ExpireCounter(w)
    BY <1>1, <2>2, ExpireIs DEF CountedKept
  <2>3. CASE ~Increment(w) /\ ~ExpireCounter(w)
    BY <1>1, <2>3, CounterKeys DEF CountedKept
  <2>. QED  BY <2>1, <2>2, <2>3
<1>. QED  BY <1>1 DEF CountedKept

LEMMA CountersStep ==
  ASSUME Shape, AccountInv, EarlyKept, CountedKept, CountersExpire, NEW w \in Worker, Step(w)
  PROVE  CountersExpire'
<1>1. ASSUME NEW k, k \in DOMAIN redis', k[1] \in {"failed", "resend"},
             redis'[k].ttl = Forever, k \notin orphans'
      PROVE  \E v \in Worker : /\ job'[v] # None /\ job'[v].pc = "expire"
                               /\ Counter(v)' = k
  <2>0. orphans' = orphans
    BY StepFrames
  <2>1. ASSUME k \in DOMAIN redis, redis[k].ttl = Forever,
               At(w, "expire") => Counter(w) # k
        PROVE  \E v \in Worker : /\ job'[v] # None /\ job'[v].pc = "expire"
                                 /\ Counter(v)' = k
    <3>1. PICK v \in Worker : At(v, "expire") /\ Counter(v) = k
      BY <1>1, <2>0, <2>1 DEF CountersExpire
    <3>2. job'[v] = job[v]
      BY <2>1, <3>1, AccountMoves DEF Moves
    <3>. QED  BY <3>1, <3>2 DEF At, Counter, Op, Who
  <2>2. CASE Increment(w)
    <3>1. ~At(w, "expire")
      BY <2>2 DEF Increment, At
    <3>2. CASE k = Counter(w) /\ ~Has(k)
      <4>1. /\ job'[w] # None /\ job'[w].pc = "expire"
            /\ job'[w].req = job[w].req /\ job'[w].user = job[w].user
        BY <2>2, <3>2, IncrementIs
      <4>2. Counter(w)' = k
        BY <3>2, <4>1 DEF Counter, Op, Who
      <4>. QED  BY <4>1, <4>2
    <3>3. CASE k = Counter(w) /\ Has(k)
      BY <1>1, <2>1, <2>2, <3>1, <3>3, IncrementIs DEF Has
    <3>4. CASE k # Counter(w)
      BY <1>1, <2>1, <2>2, <3>1, <3>4, IncrementIs, OtherKey
    <3>. QED  BY <3>2, <3>3, <3>4
  <2>3. CASE ExpireCounter(w)
    <3>1. k # Counter(w)
      BY <1>1, <2>3, ExpireIs DEF Forever
    <3>. QED  BY <1>1, <2>1, <2>3, <3>1, ExpireIs
  <2>4. CASE ~Increment(w) /\ ~ExpireCounter(w)
    <3>1. ~At(w, "expire")
      BY <2>4, StepAt DEF At
    <3>. QED  BY <1>1, <2>1, <2>4, <3>1, CounterKeys
  <2>. QED  BY <2>2, <2>3, <2>4
<1>. QED  BY <1>1 DEF CountersExpire, At

CountersKept == EarlyKept /\ CountedKept /\ CountersExpire

LEMMA CountersInit == SiteInit => CountersKept
BY DEF SiteInit, Init, CountersKept, EarlyKept, CountedKept, CountersExpire

LEMMA CountersNext ==
  Shape /\ AccountInv /\ CountersKept /\ [SiteNext]_siteVars => CountersKept'
<1>. SUFFICES ASSUME Shape, AccountInv, CountersKept, [SiteNext]_siteVars
              PROVE  CountersKept'
  OBVIOUS
<1>. USE DEF CountersKept
<1>1. ASSUME \A v \in Worker : job'[v] # None /\ job'[v].pc \in Early => job'[v] = job[v]
      PROVE  EarlyKept'
  BY <1>1 DEF EarlyKept
<1>2. ASSUME \A k : k \in DOMAIN redis' /\ k[1] \in {"failed", "resend"} =>
                 k \in DOMAIN redis /\ redis'[k].val = redis[k].val
                   /\ (redis'[k].ttl = Forever => redis[k].ttl = Forever),
             \A v \in Worker : At(v, "expire") => job'[v] = job[v] \/ Counter(v) \in orphans',
             orphans \subseteq orphans'
      PROVE  CountedKept' /\ CountersExpire'
  <2>1. CountedKept'
    BY <1>2 DEF CountedKept
  <2>2. ASSUME NEW k, k \in DOMAIN redis', k[1] \in {"failed", "resend"},
               redis'[k].ttl = Forever, k \notin orphans'
        PROVE  \E v \in Worker : At(v, "expire")' /\ Counter(v)' = k
    <3>1. PICK v \in Worker : At(v, "expire") /\ Counter(v) = k
      BY <1>2, <2>2 DEF CountersExpire
    <3>2. job'[v] = job[v]
      BY <1>2, <2>2, <3>1
    <3>. QED  BY <3>1, <3>2 DEF At, Counter, Op, Who
  <2>. QED  BY <2>1, <2>2 DEF CountersExpire
<1>3. CASE UNCHANGED vars
  BY <1>1, <1>2, <1>3 DEF vars
<1>4. ASSUME NEW w \in Worker, Step(w)
      PROVE  CountersKept'
  BY <1>4, EarlyStep, CountedStep, CountersStep
<1>5. ASSUME NEW w \in Worker, Begin(w)
      PROVE  CountersKept'
  <2>1. UNCHANGED <<redis, orphans>> /\ job[w] = None
        /\ \A v \in Worker : v # w => job'[v] = job[v]
    BY <1>5, BeginMoves DEF Begin, history
  <2>2. job'[w].row = None /\ job'[w].user = job'[w].req.user /\ job'[w].n \in Nat
    BY <1>5 DEF Begin, Shape
  <2>3. EarlyKept'
    BY <2>1, <2>2 DEF EarlyKept
  <2>4. CountedKept' /\ CountersExpire'
    BY <1>2, <2>1 DEF At
  <2>. QED  BY <2>3, <2>4
<1>6. ASSUME NEW w \in Worker, Crash(w)
      PROVE  CountersKept'
  <2>1. UNCHANGED redis /\ job'[w] = None /\ \A v \in Worker : v # w => job'[v] = job[v]
    BY <1>6, CrashMoves DEF Moves
  <2>2. orphans \subseteq orphans' /\ (At(w, "expire") => Counter(w) \in orphans')
    BY <1>6 DEF Crash, At
  <2>. QED  BY <1>1, <1>2, <2>1, <2>2
<1>7. ASSUME NEW w \in Worker, OtherStep(w)
      PROVE  CountersKept'
  <2>1. /\ \A v \in Worker : v # w => job'[v] = job[v]
        /\ job[w].pc \notin AccountSteps
        /\ job'[w] # None => job'[w].pc \notin AccountSteps
        /\ orphans' = orphans
    BY <1>7, OthersAside
  <2>2. {"failed", "resend"} \subseteq AccountKeys /\ Early \subseteq AccountSteps
        /\ "expire" \in AccountSteps
    BY DEF AccountKeys, AccountSteps, Early
  <2>3. \A k : k \in DOMAIN redis' /\ k[1] \in {"failed", "resend"} =>
                 k \in DOMAIN redis /\ redis'[k] = redis[k]
    BY <1>7, <2>2, OthersKeys
  <2>4. EarlyKept'
    BY <1>1, <2>1, <2>2
  <2>5. CountedKept' /\ CountersExpire'
    BY <1>2, <2>1, <2>2, <2>3 DEF At
  <2>. QED  BY <2>4, <2>5
<1>8. CASE Tick
  <2>1. UNCHANGED <<job, orphans>>
    BY <1>8 DEF Tick
  <2>2. redis' = [k \in DOMAIN redis \ Ending |-> [redis[k] EXCEPT !.ttl = Older(@)]]
    BY <1>8 DEF Tick
  <2>3. \A n \in Nat \cup {Forever} : Older(n) = Forever => n = Forever
    BY DEF Older, Forever
  <2>4. ASSUME NEW k, k \in DOMAIN redis'
        PROVE  /\ k \in DOMAIN redis /\ redis'[k].val = redis[k].val
               /\ redis'[k].ttl = Forever => redis[k].ttl = Forever
    <3>1. k \in DOMAIN redis /\ redis'[k] = [redis[k] EXCEPT !.ttl = Older(@)]
      BY <2>2, <2>4
    <3>2. DOMAIN redis[k] = {"val", "ttl"} /\ redis[k].ttl \in Nat \cup {Forever}
      BY <3>1 DEF AccountInv, KeysKept
    <3>. QED  BY <2>3, <3>1, <3>2
  <2>. QED  BY <1>1, <1>2, <2>1, <2>4
<1>. QED  BY <1>3, <1>4, <1>5, <1>6, <1>7, <1>8, SiteCases

LEMMA CountersAlways == SiteSpec => []CountersKept
<1>. QED  BY CountersInit, CountersNext, AccountAlways, JobsShaped, PTL DEF SiteSpec

-----------------------------------------------------------------------------
(* Which steps touch a counter of failures, or a lock.                     *)
LEMMA GuessKeys ==
  ASSUME NEW w \in Worker, Step(w), NEW k, k[1] \in {"failed", "lockout"}
  PROVE  \/ /\ k \in DOMAIN redis' <=> k \in DOMAIN redis
            /\ k \in DOMAIN redis => redis'[k] = redis[k]
         \/ Increment(w) /\ k = Counter(w)
         \/ ExpireCounter(w) /\ k = Counter(w)
         \/ ClearFailures(w) /\ k = Failed(job[w].req.id)
         \/ LockAccount(w) /\ k = Lockout(job[w].req.id)
<1>. DEFINE Kept == /\ k \in DOMAIN redis' <=> k \in DOMAIN redis
                    /\ k \in DOMAIN redis => redis'[k] = redis[k]
<1>1. CASE UNCHANGED redis
  BY <1>1
<1>2. ASSUME NEW x, x[1] \notin {"failed", "lockout"},
             (\E v, ttl : SetEx(x, v, ttl)) \/ Delete(x) \/ (\E ttl : Expire(x, ttl))
      PROVE  Kept
  BY <1>2, OtherKey
<1>3. ASSUME NEW t, Blacklist(t)
      PROVE  Kept
  <2>1. Blacklisted(t)[1] \notin {"failed", "lockout"}
    BY DEF Blacklisted
  <2>. QED  BY <1>2, <1>3, <2>1 DEF Blacklist
<1>4. /\ \A u : Resend(u)[1] \notin {"failed", "lockout"}
      /\ \A x : Link(x)[1] \notin {"failed", "lockout"} /\ Code(x)[1] \notin {"failed", "lockout"}
  BY DEF Resend, Link, Code
<1>5. CASE Increment(w)
  <2>1. \E v, ttl : SetEx(Counter(w), v, ttl)
    BY <1>5 DEF Increment
  <2>. QED  BY <1>5, <2>1, OtherKey
<1>6. CASE ExpireCounter(w)
  <2>1. Expire(Counter(w), CounterTtl(w))
    BY <1>6 DEF ExpireCounter
  <2>. QED  BY <1>6, <2>1, OtherKey
<1>7. CASE ClearFailures(w)
  BY <1>7, OtherKey DEF ClearFailures
<1>8. CASE LockAccount(w)
  BY <1>1, <1>8, OtherKey DEF LockAccount
<1>9. CASE SpendLink(w) \/ SpendCode(w) \/ ClearResend(w)
  BY <1>2, <1>4, <1>9 DEF SpendLink, SpendCode, ClearResend
<1>10. CASE RotateRefreshToken(w) \/ RevokeAccess(w) \/ RevokeRefresh(w) \/ SpendAccess(w)
  BY <1>1, <1>3, <1>10 DEF RotateRefreshToken, RevokeAccess, RevokeRefresh, SpendAccess
<1>11. CASE MailLink(w)
  BY <1>2, <1>4, <1>11 DEF MailLink
<1>12. CASE MailCode(w)
  BY <1>1, <1>2, <1>4, <1>12 DEF MailCode
<1>. QED  BY <1>1, <1>5, <1>6, <1>7, <1>8, <1>9, <1>10, <1>11, <1>12, StepFrames

(* How many requests a set has.                                            *)
Ind(b) == IF b THEN 1 ELSE 0

LEMMA CardIs ==
  ASSUME NEW S \in SUBSET Worker, NEW T \in SUBSET Worker
  PROVE  /\ Cardinality(Worker) \in Nat /\ Cardinality(S) \in Nat
         /\ Cardinality(S) <= Cardinality(Worker)
         /\ S \subseteq T => Cardinality(S) <= Cardinality(T)
         /\ S \cap T = {} => Cardinality(S) + Cardinality(T) <= Cardinality(Worker)
<1>1. IsFiniteSet(Worker)
  BY ServiceAssumption
<1>2. IsFiniteSet(S) /\ IsFiniteSet(T) /\ Cardinality(S) <= Cardinality(Worker)
  BY <1>1, FS_Subset
<1>3. Cardinality(Worker) \in Nat /\ Cardinality(S) \in Nat /\ Cardinality(T) \in Nat
  BY <1>1, <1>2, FS_CardinalityType
<1>4. S \subseteq T => Cardinality(S) <= Cardinality(T)
  BY <1>2, FS_Subset
<1>5. ASSUME S \cap T = {}
      PROVE  Cardinality(S) + Cardinality(T) <= Cardinality(Worker)
  <2>1. Cardinality(S \cup T) = Cardinality(S) + Cardinality(T) - Cardinality(S \cap T)
    BY <1>2, FS_Union
  <2>2. Cardinality(S \cup T) <= Cardinality(Worker)
    BY <1>1, FS_Subset
  <2>3. Cardinality(S \cap T) = 0
    BY <1>5, FS_EmptySet
  <2>. QED  BY <1>3, <2>1, <2>2, <2>3
<1>. QED  BY <1>2, <1>3, <1>4, <1>5

LEMMA CardStep ==
  ASSUME NEW S \in SUBSET Worker, NEW T \in SUBSET Worker, NEW w \in Worker,
         \A v \in Worker : v # w => (v \in S <=> v \in T)
  PROVE  Cardinality(T) = Cardinality(S) + Ind(w \in T) - Ind(w \in S)
<1>1. Cardinality(S) \in Nat /\ Cardinality(T) \in Nat /\ IsFiniteSet(S) /\ IsFiniteSet(T)
  BY CardIs, ServiceAssumption, FS_Subset
<1>2. CASE w \in S <=> w \in T
  <2>1. S = T
    BY <1>2
  <2>. QED  BY <1>1, <2>1 DEF Ind
<1>3. CASE w \in T /\ w \notin S
  <2>1. T = S \cup {w}
    BY <1>3
  <2>. QED  BY <1>1, <1>3, <2>1, FS_AddElement DEF Ind
<1>4. CASE w \in S /\ w \notin T
  <2>1. S = T \cup {w}
    BY <1>4
  <2>. QED  BY <1>1, <1>4, <2>1, FS_AddElement DEF Ind
<1>. QED  BY <1>2, <1>3, <1>4

(* When one request moves, each set has one more, or one less, or as many. *)
LEMMA Retally ==
  ASSUME NEW w \in Worker, \A v \in Worker : v # w => job'[v] = job[v], NEW id
  PROVE  /\ Cardinality(Free(id))' =
              Cardinality(Free(id)) + Ind((w \in Free(id))') - Ind(w \in Free(id))
         /\ Cardinality(Trying(id))' =
              Cardinality(Trying(id)) + Ind((w \in Trying(id))') - Ind(w \in Trying(id))
         /\ Cardinality(Counting(id))' =
              Cardinality(Counting(id)) + Ind((w \in Counting(id))') - Ind(w \in Counting(id))
<1>1. /\ Free(id) \in SUBSET Worker /\ Free(id)' \in SUBSET Worker
      /\ Trying(id) \in SUBSET Worker /\ Trying(id)' \in SUBSET Worker
      /\ Counting(id) \in SUBSET Worker /\ Counting(id)' \in SUBSET Worker
  BY DEF Free, Trying, Counting
<1>2. ASSUME NEW v \in Worker, v # w
      PROVE  /\ v \in Free(id) <=> v \in Free(id)'
             /\ v \in Trying(id) <=> v \in Trying(id)'
             /\ v \in Counting(id) <=> v \in Counting(id)'
  <2>1. job'[v] = job[v]
    BY <1>2
  <2>. QED  BY <2>1 DEF Free, Trying, Counting, LoggingIn, Locking, Op
<1>. QED  BY <1>1, <1>2, CardStep

(* The sets of one identifier.                                             *)
LEMMA SetsAre ==
  ASSUME NEW id
  PROVE  /\ Cardinality(Free(id)) \in Nat /\ Cardinality(Trying(id)) \in Nat
         /\ Cardinality(Counting(id)) \in Nat /\ Cardinality(Worker) \in Nat
         /\ Cardinality(Trying(id)) <= Cardinality(Free(id))
         /\ Cardinality(Free(id)) <= Cardinality(Worker)
         /\ Cardinality(Counting(id)) + Cardinality(Free(id)) <= Cardinality(Worker)
<1>1. /\ Free(id) \in SUBSET Worker /\ Trying(id) \in SUBSET Worker
      /\ Counting(id) \in SUBSET Worker
  BY DEF Free, Trying, Counting
<1>2. Trying(id) \subseteq Free(id) /\ Counting(id) \cap Free(id) = {}
  BY DEF Free, Trying, Counting, Locking
<1>. QED  BY <1>1, <1>2, CardIs

(* A balance in numbers makes a balance of the state.                      *)
LEMMA Rebalanced ==
  ASSUME NEW id, NEW g \in Nat, NEW s \in Nat, NEW f \in Nat, NEW free, NEW trying,
         NEW counting, NEW locked,
         Balance(g, s, f, free, trying, counting, locked),
         Guesses(id)' = g, Tolerated(id)' = s, Counted(id)' = f,
         Cardinality(Free(id))' = free, Cardinality(Trying(id))' = trying,
         Cardinality(Counting(id))' = counting, Locked(id)' <=> locked
  PROVE  Balanced(id)'
BY DEF Balanced, Balance

(* Without a guess there is nothing to settle.                             *)
LEMMA FreshBalance ==
  ASSUME NEW f \in Nat, NEW free \in Nat, NEW trying \in Nat, NEW counting \in Nat,
         NEW locked, free <= Cardinality(Worker), trying <= Cardinality(Worker)
  PROVE  Base \in Nat /\ Balance(0, Base, f, free, trying, counting, locked)
<1>1. Cardinality(Worker) \in Nat
  BY ServiceAssumption, FS_CardinalityType
<1>. QED  BY <1>1, LimitsPositive DEF Base, Balance

LEMMA FreshBalanced ==
  ASSUME NEW id, Guesses(id)' = 0, Tolerated(id)' = Base, Counted(id)' \in Nat
  PROVE  Balanced(id)'
<1>1. PICK free, trying, counting : /\ free = Cardinality(Free(id)')
                                    /\ trying = Cardinality(Trying(id)')
                                    /\ counting = Cardinality(Counting(id)')
  OBVIOUS
<1>2. /\ Free(id)' \in SUBSET Worker /\ Trying(id)' \in SUBSET Worker
      /\ Counting(id)' \in SUBSET Worker
  BY DEF Free, Trying, Counting
<1>3. /\ free \in Nat /\ free <= Cardinality(Worker)
      /\ trying \in Nat /\ trying <= Cardinality(Worker)
      /\ counting \in Nat
  BY <1>1, <1>2, CardIs
<1>4. PICK f \in Nat : f = Counted(id)'
  OBVIOUS
<1>5. Base \in Nat /\ Balance(0, Base, f, free, trying, counting, Locked(id)')
  BY <1>3, FreshBalance
<1>. QED  BY <1>1, <1>4, <1>5, Rebalanced

(* Nothing about an identifier has changed, but perhaps a request that had *)
(* passed its lock has gone.                                               *)
LEMMA SameBalance ==
  ASSUME NEW id, Balanced(id),
         Guesses(id)' = Guesses(id), Tolerated(id)' = Tolerated(id),
         Counted(id)' = Counted(id), Locked(id)' <=> Locked(id),
         Cardinality(Free(id))' = Cardinality(Free(id)),
         Cardinality(Counting(id))' = Cardinality(Counting(id)),
         \/ Cardinality(Trying(id))' = Cardinality(Trying(id))
         \/ Cardinality(Trying(id))' = Cardinality(Trying(id)) - 1
         \/ Cardinality(Trying(id))' = Cardinality(Trying(id)) + 1 /\ ~Locked(id)
  PROVE  Balanced(id)'
<1>1. PICK g, s, f, free, trying, counting :
         /\ g = Guesses(id) /\ s = Tolerated(id) /\ f = Counted(id)
         /\ free = Cardinality(Free(id)) /\ trying = Cardinality(Trying(id))
         /\ counting = Cardinality(Counting(id))
  OBVIOUS
<1>2. /\ g \in Nat /\ s \in Nat /\ f \in Nat
      /\ Balance(g, s, f, free, trying, counting, Locked(id))
  BY <1>1 DEF Balanced
<1>3. trying \in Nat /\ free \in Nat
  BY <1>1, SetsAre
<1>4. PICK t : t = Cardinality(Trying(id))'
  OBVIOUS
<1>5. t = trying \/ t = trying - 1 \/ (t = trying + 1 /\ ~Locked(id))
  BY <1>1, <1>4
<1>6. Balance(g, s, f, free, t, counting, Locked(id))
  BY <1>2, <1>3, <1>5 DEF Balance
<1>. QED  BY <1>1, <1>2, <1>4, <1>6, Rebalanced

(* The arithmetic of a guess: it is made, counted and leads to the lock.   *)
LEMMA GuessMade ==
  ASSUME NEW g \in Nat, NEW s \in Nat, NEW f \in Nat, NEW free \in Nat, NEW trying \in Nat,
         NEW counting \in Nat, NEW locked, Balance(g, s, f, free, trying, counting, locked)
  PROVE  Balance(g + 1, s, f, free - 1, trying - 1, counting + 1, locked)
BY LimitsPositive DEF Balance

LEMMA GuessCounted ==
  ASSUME NEW g \in Nat, NEW s \in Nat, NEW f \in Nat, NEW free \in Nat, NEW trying \in Nat,
         NEW counting \in Nat, NEW locked, Balance(g, s, f, free, trying, counting, locked),
         NEW more, more = IF f + 1 >= FailLimit THEN 0 ELSE 1
  PROVE  Balance(g, s, f + 1, free + more, trying, counting - 1, locked)
BY LimitsPositive DEF Balance

LEMMA GuessLocks ==
  ASSUME NEW g \in Nat, NEW s \in Nat, NEW f \in Nat, NEW free \in Nat, NEW trying \in Nat,
         NEW counting \in Nat, NEW locked, Balance(g, s, f, free, trying, counting, locked),
         trying <= free
  PROVE  Balance(g, s, f, free + 1, trying, counting, TRUE)
BY LimitsPositive DEF Balance

LEMMA GuessLost ==
  ASSUME NEW g \in Nat, NEW s \in Nat, NEW f \in Nat, NEW free \in Nat, NEW trying \in Nat,
         NEW counting \in Nat, NEW locked, Balance(g, s, f, free, trying, counting, locked),
         NEW a \in {0, 1}, NEW b \in {0, 1}
  PROVE  Balance(g, s + 1, f, free + a, trying, counting - b, locked)
BY LimitsPositive DEF Balance

LEMMA LockEnds ==
  ASSUME NEW g \in Nat, NEW s \in Nat, NEW f \in Nat, NEW free \in Nat, NEW trying \in Nat,
         NEW counting \in Nat, NEW locked, NEW n \in Nat,
         Balance(g, s, f, free, trying, counting, locked), trying <= free,
         counting + free <= n
  PROVE  Balance(g, s + n, f, free, trying, counting, FALSE)
BY LimitsPositive DEF Balance

(* Where a login stands, before and after its step.                        *)
LEMMA Standing ==
  ASSUME NEW w \in Worker, NEW id, LoggingIn(w, id),
         job'[w] # None => job'[w].req = job[w].req
  PROVE  /\ w \in Free(id) <=> job[w].pc # "count" /\ ~Locking(w)
         /\ w \in Trying(id) <=> job[w].pc = "password"
         /\ w \in Counting(id) <=> job[w].pc = "count"
         /\ job'[w] = None => (w \in Free(id))' /\ (w \notin Trying(id))'
                                /\ (w \notin Counting(id))'
         /\ job'[w] # None =>
              /\ (w \in Free(id))' <=> job'[w].pc # "count" /\ ~Locking(w)'
              /\ (w \in Trying(id))' <=> job'[w].pc = "password"
              /\ (w \in Counting(id))' <=> job'[w].pc = "count"
BY DEF Free, Trying, Counting, LoggingIn, Op

(* Only two steps of a login move its guesses.                             *)
LEMMA GuessesSame ==
  ASSUME NEW id, guesses' = guesses
  PROVE  Guesses(id)' = Guesses(id) /\ Tolerated(id)' = Tolerated(id)
BY DEF Guesses, Tolerated, Base

LEMMA CountedIs ==
  ASSUME CountedKept, NEW id
  PROVE  Counted(id) \in Nat
BY DEF CountedKept, Counted, Has, Failed

(* The keys of an identifier stay.                                         *)
LEMMA KeysSame ==
  ASSUME NEW id, \A k \in {Failed(id), Lockout(id)} :
                   /\ k \in DOMAIN redis' <=> k \in DOMAIN redis
                   /\ k \in DOMAIN redis => redis'[k].val = redis[k].val
  PROVE  Counted(id)' = Counted(id) /\ (Locked(id)' <=> Locked(id))
BY DEF Counted, Locked, Has, Failed, Lockout

(* A login that stays clear of the counter, or leaves.                     *)
LEMMA QuietGuess ==
  ASSUME Shape, AccountInv, NEW w \in Worker, Step(w), NEW id, LoggingIn(w, id),
         Balanced(id), guesses' = guesses,
         Counted(id)' = Counted(id), Locked(id)' <=> Locked(id),
         job[w].pc # "count", ~Locking(w),
         job'[w] # None => /\ job'[w].pc # "count" /\ ~Locking(w)'
                           /\ job'[w].pc = "password" => ~Locked(id)
  PROVE  Balanced(id)'
<1>1. /\ \A v \in Worker : v # w => job'[v] = job[v]
      /\ job'[w] # None => job'[w].req = job[w].req
  BY AccountMoves DEF Moves
<1>2. /\ Ind(TRUE) = 1 /\ Ind(FALSE) = 0
  BY DEF Ind
<1>3. /\ w \in Free(id) /\ (w \in Free(id))'
      /\ w \notin Counting(id) /\ (w \notin Counting(id))'
      /\ (w \in Trying(id))' => ~Locked(id)
  BY <1>1, Standing
<1>4. /\ Cardinality(Free(id)) \in Nat /\ Cardinality(Trying(id)) \in Nat
      /\ Cardinality(Counting(id)) \in Nat
  BY SetsAre
<1>5. Cardinality(Free(id))' = Cardinality(Free(id))
  BY <1>1, <1>3, <1>4, Retally DEF Ind
<1>6. Cardinality(Counting(id))' = Cardinality(Counting(id))
  BY <1>1, <1>3, <1>4, Retally DEF Ind
<1>7. \/ Cardinality(Trying(id))' = Cardinality(Trying(id))
      \/ Cardinality(Trying(id))' = Cardinality(Trying(id)) - 1
      \/ Cardinality(Trying(id))' = Cardinality(Trying(id)) + 1 /\ ~Locked(id)
  BY <1>1, <1>3, <1>4, Retally DEF Ind
<1>. QED  BY <1>5, <1>6, <1>7, GuessesSame, SameBalance

(* A wrong password.                                                       *)
LEMMA WrongGuess ==
  ASSUME Shape, AccountInv, CountersKept, GuessesKept, NEW w \in Worker, NEW id,
         LoggingIn(w, id), Step(w), WrongPassword(w)
  PROVE  Balanced(id)'
<1>1. /\ \A v \in Worker : v # w => job'[v] = job[v]
      /\ DOMAIN job = Worker /\ DOMAIN job[w] = Fields /\ job[w] # None
      /\ job[w].pc = "password"
  BY AccountMoves, JobIs DEF Moves, WrongPassword, At
<1>2. job'[w] # None /\ job'[w].pc = "count" /\ job'[w].req = job[w].req
  <2>1. job' = [job EXCEPT ![w].pc = "count"] /\ job[w].pc \in Early
    BY DEF WrongPassword, Goto, At, Early
  <2>2. PICK n \in Nat : n = job[w].n
    BY <1>1, <2>1 DEF CountersKept, EarlyKept
  <2>. QED  BY <1>1, <2>1, <2>2, EarlyGoes DEF CountersKept
<1>3. PICK g, s, f, free, trying, counting :
         /\ g = Guesses(id) /\ s = Tolerated(id) /\ f = Counted(id)
         /\ free = Cardinality(Free(id)) /\ trying = Cardinality(Trying(id))
         /\ counting = Cardinality(Counting(id))
  OBVIOUS
<1>4. /\ g \in Nat /\ s \in Nat /\ f \in Nat
      /\ Balance(g, s, f, free, trying, counting, Locked(id))
  BY <1>3 DEF GuessesKept, Balanced
<1>5. free \in Nat /\ trying \in Nat /\ counting \in Nat
  BY <1>3, SetsAre
<1>6. /\ w \in Free(id) /\ (w \notin Free(id))'
      /\ w \in Trying(id) /\ (w \notin Trying(id))'
      /\ w \notin Counting(id) /\ (w \in Counting(id))'
  BY <1>1, <1>2, Standing DEF Locking
<1>7. /\ Cardinality(Free(id))' = free - 1 /\ Cardinality(Trying(id))' = trying - 1
      /\ Cardinality(Counting(id))' = counting + 1
  BY <1>1, <1>3, <1>5, <1>6, Retally DEF Ind
<1>8. Guesses(id)' = g + 1 /\ Tolerated(id)' = s
  <2>1. guesses' = [guesses EXCEPT !.n = Put(guesses.n, id, g + 1)]
    BY <1>3 DEF WrongPassword, Guessed, LoggingIn
  <2>2. guesses = [n |-> guesses.n, slack |-> guesses.slack]
    BY DEF GuessesKept
  <2>3. guesses'.n = Put(guesses.n, id, g + 1) /\ guesses'.slack = guesses.slack
    BY <2>1, <2>2
  <2>. QED  BY <1>3, <2>3 DEF Guesses, Tolerated, Put, Base
<1>9. Counted(id)' = f /\ (Locked(id)' <=> Locked(id))
  BY <1>3 DEF WrongPassword, Counted, Locked, Has
<1>10. Balance(g + 1, s, f, free - 1, trying - 1, counting + 1, Locked(id))
  BY <1>4, <1>5, GuessMade
<1>. QED  BY <1>4, <1>7, <1>8, <1>9, <1>10, Rebalanced

(* A right one forgives what came before.                                  *)
LEMMA ClearedGuess ==
  ASSUME NEW w \in Worker, NEW id, LoggingIn(w, id), ClearFailures(w)
  PROVE  Balanced(id)'
<1>1. guesses' = [n |-> Put(guesses.n, id, 0), slack |-> Put(guesses.slack, id, Base)]
  BY DEF ClearFailures, Forgiven, LoggingIn
<1>2. Guesses(id)' = 0 /\ Tolerated(id)' = Base
  BY <1>1 DEF Guesses, Tolerated, Put, Base
<1>3. Counted(id)' = 0
  BY DEF ClearFailures, Delete, LoggingIn, Counted, Has
<1>. QED  BY <1>2, <1>3, FreshBalanced

(* INCR.                                                                   *)
LEMMA CountedGuess ==
  ASSUME Shape, AccountInv, CountersKept, GuessesKept, NEW w \in Worker, NEW id,
         LoggingIn(w, id), Step(w), Increment(w)
  PROVE  Balanced(id)'
<1>. USE DEF CountersKept
<1>1. /\ \A v \in Worker : v # w => job'[v] = job[v]
      /\ job[w].pc = "count" /\ Counter(w) = Failed(id)
  BY AccountMoves DEF Moves, Increment, At, Counter, LoggingIn
<1>2. PICK g, s, f, free, trying, counting :
         /\ g = Guesses(id) /\ s = Tolerated(id) /\ f = Counted(id)
         /\ free = Cardinality(Free(id)) /\ trying = Cardinality(Trying(id))
         /\ counting = Cardinality(Counting(id))
  OBVIOUS
<1>3. /\ g \in Nat /\ s \in Nat /\ f \in Nat
      /\ Balance(g, s, f, free, trying, counting, Locked(id))
  BY <1>2 DEF GuessesKept, Balanced
<1>4. free \in Nat /\ trying \in Nat /\ counting \in Nat
  BY <1>2, SetsAre
<1>5. /\ Counted(id)' = f + 1 /\ job'[w].n = f + 1 /\ job'[w].pc \in {"expire", "limit"}
      /\ job'[w] # None /\ job'[w].req = job[w].req
  BY <1>1, <1>2, IncrementIs DEF Counted, Has
<1>6. PICK more : more = IF f + 1 >= FailLimit THEN 0 ELSE 1
  OBVIOUS
<1>7. /\ w \notin Free(id)
      /\ (w \in Free(id))' <=> f + 1 < FailLimit
      /\ w \notin Trying(id) /\ (w \notin Trying(id))'
      /\ w \in Counting(id) /\ (w \notin Counting(id))'
  <2>1. Locking(w)' <=> f + 1 >= FailLimit
    BY <1>5 DEF Locking
  <2>2. f + 1 >= FailLimit <=> ~(f + 1 < FailLimit)
    BY <1>3, LimitsPositive
  <2>3. job'[w].pc # "count" /\ job'[w].pc # "password"
    BY <1>5
  <2>. QED  BY <1>1, <1>5, <2>1, <2>2, <2>3, Standing
<1>8. /\ Cardinality(Free(id))' = free + more /\ Cardinality(Trying(id))' = trying
      /\ Cardinality(Counting(id))' = counting - 1
  <2>1. Ind((w \in Free(id))') = more
    BY <1>3, <1>6, <1>7, LimitsPositive DEF Ind
  <2>2. Cardinality(Free(id))' = free + more
    BY <1>1, <1>2, <1>4, <1>6, <1>7, <2>1, Retally DEF Ind
  <2>. QED  BY <1>1, <1>2, <1>4, <1>7, <2>2, Retally DEF Ind
<1>9. Guesses(id)' = g /\ Tolerated(id)' = s
  BY <1>2, GuessesSame DEF Increment, history
<1>10. Locked(id)' <=> Locked(id)
  <2>1. Lockout(id) # Failed(id)
    BY DEF Lockout, Failed
  <2>. QED  BY <1>1, <2>1, IncrementIs, OtherKey DEF Locked, Has
<1>11. Balance(g, s, f + 1, free + more, trying, counting - 1, Locked(id))
  BY <1>3, <1>4, <1>6, GuessCounted
<1>. QED  BY <1>3, <1>8, <1>5, <1>9, <1>10, <1>11, Rebalanced

(* The lock.                                                               *)
LEMMA LockedGuess ==
  ASSUME Shape, AccountInv, CountersKept, GuessesKept, NEW w \in Worker, NEW id,
         LoggingIn(w, id), Step(w), LockAccount(w)
  PROVE  Balanced(id)'
<1>1. /\ \A v \in Worker : v # w => job'[v] = job[v]
      /\ job[w].pc = "limit" /\ job'[w] = None
  BY AccountMoves, JobIs DEF Moves, LockAccount, At, End
<1>2. guesses' = guesses
  BY DEF LockAccount, history
<1>3. Lockout(id) # Failed(id)
  BY DEF Lockout, Failed
<1>4. CASE Locking(w)
  <2>1. SetEx(Lockout(id), TRUE, Ttl.lockout)
    BY <1>4 DEF LockAccount, LoggingIn, Locking
  <2>2. Locked(id)' /\ Counted(id)' = Counted(id)
    BY <1>3, <2>1 DEF Locked, Counted, Has, SetEx, Put
  <2>3. PICK g, s, f, free, trying, counting :
           /\ g = Guesses(id) /\ s = Tolerated(id) /\ f = Counted(id)
           /\ free = Cardinality(Free(id)) /\ trying = Cardinality(Trying(id))
           /\ counting = Cardinality(Counting(id))
    OBVIOUS
  <2>4. /\ g \in Nat /\ s \in Nat /\ f \in Nat
        /\ Balance(g, s, f, free, trying, counting, Locked(id))
    BY <2>3 DEF GuessesKept, Balanced
  <2>5. free \in Nat /\ trying \in Nat /\ counting \in Nat /\ trying <= free
    BY <2>3, SetsAre
  <2>6. /\ w \notin Free(id) /\ (w \in Free(id))'
        /\ w \notin Trying(id) /\ (w \notin Trying(id))'
        /\ w \notin Counting(id) /\ (w \notin Counting(id))'
    BY <1>1, <1>4, Standing
  <2>7. /\ Cardinality(Free(id))' = free + 1 /\ Cardinality(Trying(id))' = trying
        /\ Cardinality(Counting(id))' = counting
    BY <1>1, <2>3, <2>5, <2>6, Retally DEF Ind
  <2>8. Balance(g, s, f, free + 1, trying, counting, TRUE)
    BY <2>4, <2>5, GuessLocks
  <2>. QED  BY <1>2, <2>2, <2>3, <2>4, <2>7, <2>8, GuessesSame, Rebalanced
<1>5. CASE ~Locking(w)
  <2>1. redis' = redis
    BY <1>1, <1>5 DEF LockAccount, Locking
  <2>2. Counted(id)' = Counted(id) /\ (Locked(id)' <=> Locked(id))
    BY <2>1, KeysSame
  <2>. QED  BY <1>1, <1>2, <1>5, <2>2, QuietGuess DEF GuessesKept
<1>. QED  BY <1>4, <1>5

(* EXPIRE.                                                                 *)
LEMMA ExpiringGuess ==
  ASSUME Shape, AccountInv, CountersKept, GuessesKept, NEW w \in Worker, NEW id,
         LoggingIn(w, id), Step(w), ExpireCounter(w)
  PROVE  Balanced(id)'
<1>1. /\ \A v \in Worker : v # w => job'[v] = job[v]
      /\ job[w] # None /\ job[w].pc = "expire" /\ Counter(w) = Failed(id)
  BY AccountMoves DEF Moves, ExpireCounter, At, Counter, LoggingIn
<1>2. /\ job'[w] # None /\ job'[w].pc = "limit" /\ job'[w].n = job[w].n
      /\ job'[w].req = job[w].req
  <2>1. job' = [job EXCEPT ![w].pc = "limit"] /\ job[w].pc \in Early
    BY <1>1 DEF ExpireCounter, Goto, Early
  <2>2. PICK n \in Nat : n = job[w].n
    BY <1>1, <2>1 DEF CountersKept, EarlyKept
  <2>. QED  BY <1>1, <2>1, <2>2, EarlyGoes DEF CountersKept
<1>3. guesses' = guesses
  BY DEF ExpireCounter, history
<1>4. Counted(id)' = Counted(id) /\ (Locked(id)' <=> Locked(id))
  <2>1. Expire(Failed(id), CounterTtl(w))
    BY <1>1 DEF ExpireCounter
  <2>2. DOMAIN redis' = DOMAIN redis
    BY <2>1 DEF Expire
  <2>3. \A k \in DOMAIN redis' : redis'[k].val = redis[k].val
    BY ExpireIs
  <2>. QED  BY <2>2, <2>3, KeysSame
<1>5. /\ w \in Free(id) <=> (w \in Free(id))'
      /\ w \notin Trying(id) /\ (w \notin Trying(id))'
      /\ w \notin Counting(id) /\ (w \notin Counting(id))'
  BY <1>1, <1>2, Standing DEF Locking
<1>6. /\ Cardinality(Free(id))' = Cardinality(Free(id))
      /\ Cardinality(Trying(id))' = Cardinality(Trying(id))
      /\ Cardinality(Counting(id))' = Cardinality(Counting(id))
  BY <1>1, <1>5, Retally, SetsAre DEF Ind
<1>. QED  BY <1>3, <1>4, <1>6, GuessesSame, SameBalance DEF GuessesKept

(* Any step of a login.                                                    *)
LEMMA LoginGuess ==
  ASSUME Shape, AccountInv, CountersKept, GuessesKept, NEW w \in Worker, NEW id,
         LoggingIn(w, id), Step(w)
  PROVE  Balanced(id)'
<1>1. /\ job[w] # None /\ Op(w) = "login" /\ Staged(job[w]) /\ Holds(job[w])
      /\ DOMAIN job = Worker /\ DOMAIN job[w] = Fields /\ Balanced(id)
  BY JobIs DEF LoggingIn, GuessesKept
<1>2. ASSUME NEW pc, Goto(w, pc)
      PROVE  job'[w].pc = pc
  BY <1>1, <1>2 DEF Goto, Fields
<1>3. CASE CheckLock(w)
  <2>1. UNCHANGED <<redis, guesses>> /\ job[w].pc = "lock"
    BY <1>3 DEF CheckLock, history, At
  <2>2. Counted(id)' = Counted(id) /\ (Locked(id)' <=> Locked(id))
    BY <2>1, KeysSame
  <2>3. job'[w] # None => job'[w].pc = "password" /\ ~Locked(id)
    BY <1>1, <1>2, <1>3 DEF CheckLock, End, LoggingIn, Locked
  <2>. QED  BY <1>1, <2>1, <2>2, <2>3, QuietGuess DEF Locking
<1>4. CASE PasswordChecked(w)
  <2>1. UNCHANGED <<redis, guesses>> /\ job[w].pc = "password"
    BY <1>4 DEF PasswordChecked, history, At
  <2>2. Counted(id)' = Counted(id) /\ (Locked(id)' <=> Locked(id))
    BY <2>1, KeysSame
  <2>3. job'[w] # None => job'[w].pc = "clear"
    <3>1. ASSUME NEW u, job' = [job EXCEPT ![w].pc = "clear", ![w].user = u]
          PROVE  job'[w].pc = "clear"
      BY <1>1, <3>1 DEF Fields
    <3>. QED  BY <1>1, <1>4, <3>1 DEF PasswordChecked, End
  <2>. QED  BY <1>1, <2>1, <2>2, <2>3, QuietGuess DEF Locking
<1>5. CASE IssueSession(w)
  <2>1. UNCHANGED <<redis, guesses>> /\ job[w].pc = "issue" /\ job'[w] = None
    BY <1>1, <1>5 DEF IssueSession, End, At
  <2>2. Counted(id)' = Counted(id) /\ (Locked(id)' <=> Locked(id))
    BY <2>1, KeysSame
  <2>. QED  BY <1>1, <2>1, <2>2, QuietGuess DEF Locking
<1>6. CASE LoginStep(w)
  BY <1>3, <1>4, <1>6, WrongGuess, ClearedGuess, CountedGuess, ExpiringGuess, LockedGuess
     DEF LoginStep
<1>7. CASE SessionStep(w)
  <2>1. ~Verified(Op(w))
    BY <1>1 DEF Verified, Sessionless
  <2>. QED  BY <1>1, <1>5, <1>7, <2>1 DEF SessionStep, DecodeToken, LoadUser,
            RotateRefreshToken, RevokeAccess, RevokeRefresh, At, Staged, Op
<1>8. CASE SecretStep(w)
  BY <1>1, <1>8 DEF SecretStep, MailLink, MailCode, CheckLink, CheckCode, CheckOldPassword,
     FlushUpdate, SpendLink, SpendCode, SpendAccess, ClearResend, CommitUpdate, At, Staged,
     Op, Secrets
<1>9. CASE UserStep(w)
  BY <1>1, <1>9 DEF UserStep, CheckUnique, WriteUnique, IntegrityError, LoadTarget,
     EnsureSafe, ApplyAdminChange, At, Staged, Op
<1>. QED  BY <1>6, <1>7, <1>8, <1>9 DEF Step

(* A request that does not log in with an identifier moves none of its     *)
(* sets.                                                                   *)
LEMMA StrangerSets ==
  ASSUME NEW w \in Worker, \A v \in Worker : v # w => job'[v] = job[v], NEW id,
         ~LoggingIn(w, id) \/ job[w].pc \notin {"password", "count", "expire", "limit"},
         ~LoggingIn(w, id)' \/ job'[w].pc \notin {"password", "count", "expire", "limit"}
  PROVE  /\ Cardinality(Free(id))' = Cardinality(Free(id))
         /\ Cardinality(Trying(id))' = Cardinality(Trying(id))
         /\ Cardinality(Counting(id))' = Cardinality(Counting(id))
<1>1. /\ w \in Free(id) /\ (w \in Free(id))'
      /\ w \notin Trying(id) /\ (w \notin Trying(id))'
      /\ w \notin Counting(id) /\ (w \notin Counting(id))'
  BY DEF Free, Trying, Counting, Locking
<1>. QED  BY <1>1, Retally, SetsAre DEF Ind

(* A step of another request.                                              *)
LEMMA StrangerGuess ==
  ASSUME Shape, AccountInv, CountersKept, GuessesKept, NEW w \in Worker, NEW id,
         ~LoggingIn(w, id), Step(w)
  PROVE  Balanced(id)'
<1>1. /\ job[w] # None /\ \A v \in Worker : v # w => job'[v] = job[v]
  BY AccountMoves DEF Moves
<1>2. job'[w] # None => job'[w].req = job[w].req
  BY AccountMoves DEF Moves
<1>3. ~LoggingIn(w, id)'
  BY <1>1, <1>2 DEF LoggingIn, Op
<1>4. Staged(job[w])
  BY <1>1, JobIs
<1>5. Op(w) = "login" => job[w].req.id # id
  BY <1>1 DEF LoggingIn
<1>6. Guesses(id)' = Guesses(id) /\ Tolerated(id)' = Tolerated(id)
  <2>1. CASE guesses' = guesses
    BY <2>1, GuessesSame
  <2>2. guesses = [n |-> guesses.n, slack |-> guesses.slack]
    BY DEF GuessesKept
  <2>3. CASE WrongPassword(w)
    <3>1. PICK x : x = job[w].req.id
      OBVIOUS
    <3>2. x # id
      BY <1>4, <1>5, <2>3, <3>1 DEF WrongPassword, At, Staged, Op
    <3>3. guesses'.n = Put(guesses.n, x, Guesses(x) + 1) /\ guesses'.slack = guesses.slack
      BY <2>2, <2>3, <3>1 DEF WrongPassword, Guessed
    <3>. QED  BY <3>2, <3>3 DEF Guesses, Tolerated, Put, Base
  <2>4. CASE ClearFailures(w)
    <3>1. PICK x : x = job[w].req.id
      OBVIOUS
    <3>2. x # id
      BY <1>4, <1>5, <2>4, <3>1 DEF ClearFailures, At, Staged, Op
    <3>3. guesses' = [n |-> Put(guesses.n, x, 0), slack |-> Put(guesses.slack, x, Base)]
      BY <2>4, <3>1 DEF ClearFailures, Forgiven
    <3>. QED  BY <3>2, <3>3 DEF Guesses, Tolerated, Put, Base
  <2>. QED  BY <2>1, <2>3, <2>4, StepFrames
<1>7. Counted(id)' = Counted(id) /\ (Locked(id)' <=> Locked(id))
  <2>1. ASSUME NEW k \in {Failed(id), Lockout(id)}
        PROVE  /\ k \in DOMAIN redis' <=> k \in DOMAIN redis
               /\ k \in DOMAIN redis => redis'[k] = redis[k]
    <3>1. k[1] \in {"failed", "lockout"} /\ k[2] = id
      BY DEF Failed, Lockout
    <3>2. Counter(w) # k
      BY <1>5, <3>1 DEF Counter, Failed, Resend
    <3>3. ~(ClearFailures(w) /\ k = Failed(job[w].req.id))
      BY <1>4, <1>5, <3>1 DEF ClearFailures, At, Staged, Op, Failed
    <3>4. ~(LockAccount(w) /\ k = Lockout(job[w].req.id))
      <4>1. LockAccount(w) => Op(w) = "login"
        BY DEF LockAccount
      <4>2. \A x : Lockout(x)[2] = x
        BY DEF Lockout
      <4>. QED  BY <1>5, <3>1, <4>1, <4>2
    <3>. QED  BY <3>1, <3>2, <3>3, <3>4, GuessKeys
  <2>. QED  BY <2>1, KeysSame
<1>. QED  BY <1>1, <1>3, <1>6, <1>7, StrangerSets, SameBalance DEF GuessesKept

(* A request that dies before it has counted is tolerated.                 *)
LEMMA CrashGuess ==
  ASSUME Shape, AccountInv, CountersKept, GuessesKept, NEW w \in Worker, Crash(w), NEW id
  PROVE  Balanced(id)'
<1>1. /\ job[w] # None /\ job'[w] = None /\ redis' = redis
      /\ \A v \in Worker : v # w => job'[v] = job[v]
  BY CrashMoves DEF Moves, Crash
<1>2. Counted(id)' = Counted(id) /\ (Locked(id)' <=> Locked(id))
  BY <1>1, KeysSame
<1>3. guesses = [n |-> guesses.n, slack |-> guesses.slack]
  BY DEF GuessesKept
<1>4. CASE LoggingIn(w, id) /\ job[w].pc \in {"count", "expire", "limit"}
  <2>1. PICK g, s, f, free, trying, counting :
           /\ g = Guesses(id) /\ s = Tolerated(id) /\ f = Counted(id)
           /\ free = Cardinality(Free(id)) /\ trying = Cardinality(Trying(id))
           /\ counting = Cardinality(Counting(id))
    OBVIOUS
  <2>2. /\ g \in Nat /\ s \in Nat /\ f \in Nat
        /\ Balance(g, s, f, free, trying, counting, Locked(id))
    BY <2>1 DEF GuessesKept, Balanced
  <2>3. free \in Nat /\ trying \in Nat /\ counting \in Nat
    BY <2>1, SetsAre
  <2>4. /\ (w \in Free(id))'
        /\ w \notin Trying(id) /\ (w \notin Trying(id))'
        /\ (w \notin Counting(id))'
    BY <1>1, <1>4, Standing
  <2>5. PICK a \in {0, 1}, b \in {0, 1} :
          /\ Cardinality(Free(id))' = free + a
          /\ Cardinality(Trying(id))' = trying
          /\ Cardinality(Counting(id))' = counting - b
    <3>1. PICK a \in {0, 1} : a = 1 - Ind(w \in Free(id))
      BY DEF Ind
    <3>2. PICK b \in {0, 1} : b = Ind(w \in Counting(id))
      BY DEF Ind
    <3>3. /\ Ind((w \in Free(id))') = 1 /\ Ind((w \in Counting(id))') = 0
          /\ Ind(w \in Trying(id)) = 0 /\ Ind((w \in Trying(id))') = 0
      BY <2>4 DEF Ind
    <3>4. Ind(w \in Free(id)) \in {0, 1}
      BY DEF Ind
    <3>5. Cardinality(Free(id))' = free + a
      BY <1>1, <2>1, <2>3, <3>1, <3>3, <3>4, Retally
    <3>6. /\ Cardinality(Trying(id))' = trying
          /\ Cardinality(Counting(id))' = counting - b
      BY <1>1, <2>1, <2>3, <3>2, <3>3, Retally
    <3>. QED  BY <3>5, <3>6
  <2>6. Guesses(id)' = g /\ Tolerated(id)' = s + 1
    <3>1. guesses' = [guesses EXCEPT !.slack = Put(guesses.slack, id, s + 1)]
      BY <1>4, <2>1 DEF Crash, LoggingIn
    <3>2. guesses'.n = guesses.n /\ guesses'.slack = Put(guesses.slack, id, s + 1)
      BY <1>3, <3>1
    <3>. QED  BY <2>1, <3>2 DEF Guesses, Tolerated, Put
  <2>7. Balance(g, s + 1, f, free + a, trying, counting - b, Locked(id))
    BY <2>2, <2>3, <2>5, GuessLost
  <2>. QED  BY <1>2, <2>1, <2>2, <2>5, <2>6, <2>7, Rebalanced
<1>5. CASE ~(LoggingIn(w, id) /\ job[w].pc \in {"count", "expire", "limit"})
  <2>1. Guesses(id)' = Guesses(id) /\ Tolerated(id)' = Tolerated(id)
    <3>1. CASE guesses' = guesses
      BY <3>1, GuessesSame
    <3>2. CASE Op(w) = "login" /\ job[w].pc \in {"count", "expire", "limit"}
      <4>1. PICK x : x = job[w].req.id
        OBVIOUS
      <4>2. x # id
        BY <1>1, <1>5, <3>2, <4>1 DEF LoggingIn
      <4>3. guesses' = [guesses EXCEPT !.slack = Put(guesses.slack, x, Tolerated(x) + 1)]
        BY <3>2, <4>1 DEF Crash
      <4>4. guesses'.n = guesses.n /\ guesses'.slack = Put(guesses.slack, x, Tolerated(x) + 1)
        BY <1>3, <4>3
      <4>. QED  BY <4>2, <4>4 DEF Guesses, Tolerated, Put, Base
    <3>. QED  BY <3>1, <3>2 DEF Crash
  <2>2. /\ w \in Free(id) /\ (w \in Free(id))'
        /\ (w \notin Trying(id))'
        /\ w \notin Counting(id) /\ (w \notin Counting(id))'
    BY <1>1, <1>5 DEF Free, Trying, Counting, LoggingIn, Locking
  <2>3. /\ Cardinality(Free(id))' = Cardinality(Free(id))
        /\ Cardinality(Counting(id))' = Cardinality(Counting(id))
    BY <1>1, <2>2, Retally, SetsAre DEF Ind
  <2>4. \/ Cardinality(Trying(id))' = Cardinality(Trying(id))
        \/ Cardinality(Trying(id))' = Cardinality(Trying(id)) - 1
    BY <1>1, <2>2, Retally, SetsAre DEF Ind
  <2>. QED  BY <1>2, <2>1, <2>3, <2>4, SameBalance DEF GuessesKept
<1>. QED  BY <1>4, <1>5

(* When a counter ends the guesses begin anew; when a lock does, everybody *)
(* may guess once more.                                                    *)
LEMMA TickGuess ==
  ASSUME AccountInv, CountersKept, GuessesKept, Tick, NEW id
  PROVE  Balanced(id)'
<1>1. job' = job
  BY DEF Tick
<1>2. redis' = [k \in DOMAIN redis \ Ending |-> [redis[k] EXCEPT !.ttl = Older(@)]]
  BY DEF Tick
<1>3. /\ \A k \in DOMAIN redis \ Ending : redis'[k].val = redis[k].val
      /\ \A k : k \in DOMAIN redis' <=> k \in DOMAIN redis /\ k \notin Ending
  BY <1>2 DEF AccountInv, KeysKept
<1>4. PICK g, s, f, free, trying, counting :
         /\ g = Guesses(id) /\ s = Tolerated(id) /\ f = Counted(id)
         /\ free = Cardinality(Free(id)) /\ trying = Cardinality(Trying(id))
         /\ counting = Cardinality(Counting(id))
  OBVIOUS
<1>5. /\ g \in Nat /\ s \in Nat /\ f \in Nat
      /\ Balance(g, s, f, free, trying, counting, Locked(id))
  BY <1>4 DEF GuessesKept, Balanced
<1>6. /\ free \in Nat /\ trying \in Nat /\ counting \in Nat /\ trying <= free
      /\ Cardinality(Worker) \in Nat /\ counting + free <= Cardinality(Worker)
  BY <1>4, SetsAre
<1>7. /\ Cardinality(Free(id))' = free /\ Cardinality(Trying(id))' = trying
      /\ Cardinality(Counting(id))' = counting
  BY <1>1, <1>4 DEF Free, Trying, Counting, LoggingIn, Locking, Op
<1>8. Counted(id)' = (IF Failed(id) \in Ending THEN 0 ELSE f)
  BY <1>3, <1>4 DEF Counted, Has, Ending
<1>9. Locked(id)' <=> Locked(id) /\ Lockout(id) \notin Ending
  BY <1>3 DEF Locked, Has
<1>10. PICK ids : /\ ids = DOMAIN guesses.n \cup DOMAIN guesses.slack
                  /\ guesses' = [n |-> [x \in ids |-> Aged(x)[1]],
                                 slack |-> [x \in ids |-> Aged(x)[2]]]
  BY DEF Tick
<1>11. /\ guesses'.n = [x \in ids |-> Aged(x)[1]]
       /\ guesses'.slack = [x \in ids |-> Aged(x)[2]]
  BY <1>10
<1>12. CASE id \notin ids
  <2>1. Guesses(id)' = 0 /\ Tolerated(id)' = Base
    BY <1>11, <1>12 DEF Guesses, Tolerated, Base
  <2>2. Counted(id)' \in Nat
    BY <1>5, <1>8
  <2>. QED  BY <2>1, <2>2, FreshBalanced
<1>13. CASE id \in ids
  <2>1. Guesses(id)' = Aged(id)[1] /\ Tolerated(id)' = Aged(id)[2]
    BY <1>11, <1>13 DEF Guesses, Tolerated
  <2>2. CASE Failed(id) \in Ending
    <3>1. Guesses(id)' = 0 /\ Tolerated(id)' = Base /\ Counted(id)' = 0
      BY <1>8, <2>1, <2>2 DEF Aged
    <3>. QED  BY <3>1, FreshBalanced
  <2>3. CASE Failed(id) \notin Ending /\ Lockout(id) \in Ending
    <3>1. /\ Guesses(id)' = g /\ Tolerated(id)' = s + Cardinality(Worker)
          /\ Counted(id)' = f /\ ~Locked(id)'
      BY <1>4, <1>8, <1>9, <2>1, <2>3 DEF Aged
    <3>2. Balance(g, s + Cardinality(Worker), f, free, trying, counting, FALSE)
      BY <1>5, <1>6, LockEnds
    <3>3. PICK m \in Nat : m = s + Cardinality(Worker)
      BY <1>5, <1>6
    <3>4. PICK locked : locked = FALSE
      OBVIOUS
    <3>5. /\ Balance(g, m, f, free, trying, counting, locked)
          /\ Tolerated(id)' = m /\ (Locked(id)' <=> locked)
      BY <3>1, <3>2, <3>3, <3>4
    <3>. QED  BY <1>5, <1>7, <3>1, <3>5, Rebalanced
  <2>4. CASE Failed(id) \notin Ending /\ Lockout(id) \notin Ending
    <3>1. /\ Guesses(id)' = g /\ Tolerated(id)' = s
          /\ Counted(id)' = f /\ (Locked(id)' <=> Locked(id))
      BY <1>4, <1>8, <1>9, <2>1, <2>4 DEF Aged
    <3>. QED  BY <1>5, <1>7, <3>1, Rebalanced
  <2>. QED  BY <2>2, <2>3, <2>4
<1>. QED  BY <1>12, <1>13

LEMMA GuessesInit == SiteInit => GuessesKept
<1>. SUFFICES ASSUME SiteInit PROVE GuessesKept
  OBVIOUS
<1>1. /\ guesses = [n |-> [k \in {} |-> 0], slack |-> [k \in {} |-> 0]]
      /\ redis = [k \in {} |-> None]
  BY DEF SiteInit, Init
<1>2. ASSUME NEW id
      PROVE  Balanced(id)
  <2>1. Guesses(id) = 0 /\ Tolerated(id) = Base /\ Counted(id) = 0
    BY <1>1 DEF Guesses, Tolerated, Counted, Has
  <2>2. /\ Cardinality(Free(id)) \in Nat /\ Cardinality(Trying(id)) \in Nat
        /\ Cardinality(Counting(id)) \in Nat /\ Cardinality(Free(id)) <= Cardinality(Worker)
        /\ Cardinality(Trying(id)) <= Cardinality(Worker)
    BY SetsAre
  <2>3. Base \in Nat /\ Balance(0, Base, 0, Cardinality(Free(id)), Cardinality(Trying(id)),
                                Cardinality(Counting(id)), Locked(id))
    BY <2>2, FreshBalance
  <2>. QED  BY <2>1, <2>3 DEF Balanced
<1>. QED  BY <1>1, <1>2 DEF GuessesKept

LEMMA GuessesNext ==
  Shape /\ AccountInv /\ CountersKept /\ GuessesKept /\ [SiteNext]_siteVars => GuessesKept'
<1>. SUFFICES ASSUME Shape, AccountInv, CountersKept, GuessesKept, [SiteNext]_siteVars
              PROVE  GuessesKept'
  OBVIOUS
<1>1. guesses = [n |-> guesses.n, slack |-> guesses.slack]
  BY DEF GuessesKept
<1>2. ASSUME guesses' = guesses,
             \A id : /\ Counted(id)' = Counted(id) /\ (Locked(id)' <=> Locked(id))
                     /\ Cardinality(Free(id))' = Cardinality(Free(id))
                     /\ Cardinality(Trying(id))' = Cardinality(Trying(id))
                     /\ Cardinality(Counting(id))' = Cardinality(Counting(id))
      PROVE  GuessesKept'
  <2>1. ASSUME NEW id
        PROVE  Balanced(id)'
    BY <1>2, GuessesSame, SameBalance DEF GuessesKept
  <2>. QED  BY <1>1, <1>2, <2>1 DEF GuessesKept
<1>3. CASE UNCHANGED vars
  BY <1>2, <1>3 DEF vars, Counted, Locked, Has, Free, Trying, Counting, LoggingIn, Locking, Op
<1>4. ASSUME NEW w \in Worker, Step(w)
      PROVE  GuessesKept'
  <2>1. guesses' = [n |-> guesses.n, slack |-> guesses.slack]'
    <3>1. CASE guesses' = guesses
      BY <1>1, <3>1
    <3>2. CASE WrongPassword(w)
      BY <1>1, <3>2 DEF WrongPassword, Guessed
    <3>3. CASE ClearFailures(w)
      BY <3>3 DEF ClearFailures, Forgiven
    <3>. QED  BY <1>4, <3>1, <3>2, <3>3, StepFrames
  <2>2. ASSUME NEW id
        PROVE  Balanced(id)'
    BY <1>4, LoginGuess, StrangerGuess
  <2>. QED  BY <2>1, <2>2 DEF GuessesKept
<1>5. ASSUME NEW w \in Worker, Begin(w)
      PROVE  GuessesKept'
  <2>1. /\ UNCHANGED <<redis, guesses>> /\ job[w] = None
        /\ \A v \in Worker : v # w => job'[v] = job[v]
        /\ job'[w].pc = FirstStep(job'[w].req.op)
    BY <1>5, BeginMoves DEF Begin, history
  <2>2. ASSUME NEW id
        PROVE  ~LoggingIn(w, id)' \/ job'[w].pc \notin {"password", "count", "expire", "limit"}
    <3>1. PICK op : op = job'[w].req.op
      OBVIOUS
    <3>2. op = "login" => FirstStep(op) = "lock"
      BY DEF FirstStep, Verified, Sessionless, HandlerOf, Handler
    <3>. QED  BY <2>1, <3>1, <3>2 DEF LoggingIn, Op
  <2>3. ASSUME NEW id
        PROVE  ~LoggingIn(w, id)
    BY <2>1 DEF LoggingIn
  <2>. QED  BY <1>2, <2>1, <2>2, <2>3, StrangerSets, KeysSame
<1>6. ASSUME NEW w \in Worker, Crash(w)
      PROVE  GuessesKept'
  <2>1. guesses' = [n |-> guesses.n, slack |-> guesses.slack]'
    BY <1>1, <1>6 DEF Crash
  <2>. QED  BY <1>6, <2>1, CrashGuess DEF GuessesKept
<1>7. ASSUME NEW w \in Worker, OtherStep(w)
      PROVE  GuessesKept'
  <2>1. /\ guesses' = guesses /\ job[w].pc \notin AccountSteps
        /\ \A v \in Worker : v # w => job'[v] = job[v]
    BY <1>7, OthersAside
  <2>2. job'[w] # None => job'[w].pc \notin AccountSteps
    BY <1>7, OthersAside
  <2>3. ASSUME NEW id
        PROVE  Counted(id)' = Counted(id) /\ (Locked(id)' <=> Locked(id))
    <3>1. Failed(id)[1] \in AccountKeys /\ Lockout(id)[1] \in AccountKeys
      BY DEF Failed, Lockout, AccountKeys
    <3>2. \A k \in {Failed(id), Lockout(id)} :
            /\ k \in DOMAIN redis' <=> k \in DOMAIN redis
            /\ k \in DOMAIN redis => redis'[k] = redis[k]
      BY <1>7, <3>1, OthersKeys
    <3>. QED  BY <3>2, KeysSame
  <2>4. ASSUME NEW id
        PROVE  /\ Cardinality(Free(id))' = Cardinality(Free(id))
               /\ Cardinality(Trying(id))' = Cardinality(Trying(id))
               /\ Cardinality(Counting(id))' = Cardinality(Counting(id))
    <3>1. ~LoggingIn(w, id)' \/ job'[w].pc \notin {"password", "count", "expire", "limit"}
      BY <2>2 DEF LoggingIn, AccountSteps
    <3>2. job[w].pc \notin {"password", "count", "expire", "limit"}
      BY <2>1 DEF AccountSteps
    <3>. QED  BY <2>1, <3>1, <3>2, StrangerSets
  <2>. QED  BY <1>2, <2>1, <2>3, <2>4
<1>8. CASE Tick
  <2>1. guesses' = [n |-> guesses.n, slack |-> guesses.slack]'
    BY <1>8 DEF Tick
  <2>. QED  BY <1>8, <2>1, TickGuess DEF GuessesKept
<1>. QED  BY <1>3, <1>4, <1>5, <1>6, <1>7, <1>8, SiteCases

(* FailuresCounted of Site.  What may be guessed of a password is bounded, *)
(* whatever requests log in with one identifier at the same time, whatever *)
(* dies and whatever expires; and a counter without a time to live is one  *)
(* that is about to get it, or whose request died before it could.         *)
THEOREM FailuresAreCounted == SiteSpec => []FailuresCounted
<1>1. GuessesKept => GuessesBounded
  <2>1. ASSUME GuessesKept, NEW id
        PROVE  Guesses(id) <= Tolerated(id)
    <3>1. Balanced(id)
      BY <2>1 DEF GuessesKept
    <3>2. PICK g, s, f, free, trying, counting :
             /\ g = Guesses(id) /\ s = Tolerated(id) /\ f = Counted(id)
             /\ free = Cardinality(Free(id)) /\ trying = Cardinality(Trying(id))
             /\ counting = Cardinality(Counting(id))
      OBVIOUS
    <3>3. g \in Nat /\ s \in Nat /\ f \in Nat /\ Balance(g, s, f, free, trying, counting, Locked(id))
      BY <3>1, <3>2 DEF Balanced
    <3>4. free \in Nat /\ trying \in Nat
      BY <3>2, SetsAre
    <3>. QED  BY <3>2, <3>3, <3>4, LimitsPositive DEF Balance
  <2>. QED  BY <2>1 DEF GuessesBounded
<1>2. SiteSpec => []GuessesKept
  BY GuessesInit, GuessesNext, CountersAlways, AccountAlways, JobsShaped, PTL DEF SiteSpec
<1>3. CountersKept => CountersExpire
  BY DEF CountersKept
<1>4. GuessesKept /\ CountersKept => FailuresCounted
  BY <1>1, <1>3 DEF FailuresCounted
<1>. QED  BY <1>2, <1>4, CountersAlways, PTL
=============================================================================
