------------------------------ MODULE SiteSteps ------------------------------
(***************************************************************************)
(* What every step of the site has in common, for the proofs about its     *)
(* components: the shape of the jobs of the workers, which steps of a      *)
(* handler a step can lead to, and which variables the steps of a          *)
(* component leave alone.  An invariant about the steps of one component   *)
(* need not look into the actions of another one.                          *)
(***************************************************************************)
EXTENDS Site, SequenceTheorems, TLAPS

(* The requests that are asked of the workers.                             *)
Requested == UNION {{s[w][i] : i \in DOMAIN s[w]} : s \in Scenario, w \in Worker}

(* The fields of a job, and the steps each component takes a job to.       *)
Fields == {"req", "pc", "tok", "user", "row", "n", "seen", "epoch"}

AccountSteps ==
    {"decode", "load", "lock", "password", "count", "expire", "limit", "clear", "issue",
     "rotate", "revoke", "companion", "mail", "link", "code", "old", "flush", "spend",
     "unthrottle", "commit", "unique", "write", "target", "guard", "apply"}
CatalogSteps == {"store", "recheck", "execute", "flush patch", "flush delist", "write coupon"}
StorefrontSteps ==
    {"card parents", "card variants", "page variants", "insert saved", "candidates",
     "best query", "best keep", "reorder line", "flush parent", "load variants", "flush drop"}
AlertSteps ==
    {"insert", "mail link", "commit subscription", "mark confirmed", "recipients", "send"}
LearningSteps ==
    {"embed answer", "write answer", "learn answer", "embed document", "write document",
     "match", "embed question", "cache question"}
AgentSteps ==
    {"intake", "hand over", "emergency text", "route", "run tool", "retrieve", "verify",
     "respond", "claim call", "apply call", "keep result"}
GenerationSteps ==
    {"classify", "check text", "generate", "judge", "decide reply", "ask model",
     "find documents", "stream", "store reply"}

(* A call of the model says where it goes on.                              *)
Calls(j) ==
    j.pc \in GenerationSteps =>
        /\ DOMAIN j.row = DOMAIN Fresh
        /\ j.pc = "generate" => j.row.then \in {"judge", "store reply"}

(* A job that is at the step of a route serves that route.                 *)
Shaped(j) ==
    /\ DOMAIN j = Fields
    /\ j.req \in Requested
    /\ j.pc \in Routes => j.pc = j.req.op
    /\ Calls(j)

Shape ==
    /\ todo \in [Worker -> Seq(Requested)]
    /\ DOMAIN job = Worker
    /\ \A w \in Worker : job[w] # None => Shaped(job[w])

(* The steps at which a handler finds out whom it serves.                  *)
Naming == {"password", "talk", "order", "resume"}

(* A step of w takes its job to one of these steps, or ends it.            *)
Moves(w, steps) ==
    /\ job[w] # None
    /\ DOMAIN job' = Worker
    /\ \A v \in Worker : v # w => job'[v] = job[v]
    /\ job'[w] # None =>
         /\ DOMAIN job'[w] = Fields
         /\ job'[w].req = job[w].req
         /\ job'[w].tok = job[w].tok
         /\ job'[w].seen = job[w].seen
         /\ job[w].pc # "load" => job'[w].epoch = job[w].epoch
         /\ job[w].pc \notin Naming => job'[w].user = job[w].user
         /\ job'[w].pc \in steps

-----------------------------------------------------------------------------
(* A request that is asked is one of some scenario.                        *)
LEMMA RequestIsAsked ==
  ASSUME NEW r \in Requested
  PROVE  \E s \in Scenario, w \in Worker : \E i \in DOMAIN s[w] : r = s[w][i]
<1>. DEFINE R == {{s[w][i] : i \in DOMAIN s[w]} : s \in Scenario, w \in Worker}
<1>1. r \in UNION R
  BY DEF Requested
<1>2. PICK q \in R : r \in q
  <2>. HIDE DEF R
  <2>. QED  BY <1>1
<1>. QED  BY <1>2

(* A request that is asked is one of a route.                              *)
LEMMA RequestedRouted == ASSUME NEW r \in Requested PROVE r.op \in Routes
<1>1. PICK s \in Scenario, w \in Worker : r \in {s[w][i] : i \in DOMAIN s[w]}
  BY DEF Requested
<1>. QED  BY <1>1, RequestsRouted

(* Where the handler of a route begins.                                    *)
LEMMA HandlerSteps == ASSUME NEW op \in Routes PROVE HandlerOf(op) \in AccountSteps \cup {op}
<1>1. CASE op \in DOMAIN Handler
  <2>1. DOMAIN Handler = {"login", "register", "forgot", "askcode", "refresh", "logout",
                          "change", "profile", "role", "status", "reset", "enter"}
    BY DEF Handler
  <2>2. /\ Handler["login"] = "lock" /\ Handler["register"] = "unique"
        /\ Handler["forgot"] = "mail" /\ Handler["askcode"] = "count"
        /\ Handler["refresh"] = "rotate" /\ Handler["logout"] = "revoke"
        /\ Handler["change"] = "old" /\ Handler["profile"] = "unique"
        /\ Handler["role"] = "target" /\ Handler["status"] = "target"
        /\ Handler["reset"] = "link" /\ Handler["enter"] = "code"
    BY DEF Handler
  <2>. QED  BY <1>1, <2>1, <2>2 DEF HandlerOf, AccountSteps
<1>2. CASE op \notin DOMAIN Handler
  BY <1>2 DEF HandlerOf
<1>. QED  BY <1>1, <1>2

(* A step that keeps what it has read and goes on, in either order.        *)
LEMMA KeepMoves ==
  ASSUME Shape, NEW w \in Worker, job[w] # None, NEW steps, NEW pc \in steps, NEW r,
         \/ job' = [job EXCEPT ![w].pc = pc, ![w].row = r]
         \/ job' = [job EXCEPT ![w].row = r, ![w].pc = pc]
  PROVE  Moves(w, steps)
<1>1. CASE job' = [job EXCEPT ![w].pc = pc, ![w].row = r]
  BY <1>1 DEF Moves, Shape, Shaped, Fields
<1>2. CASE job' = [job EXCEPT ![w].row = r, ![w].pc = pc]
  BY <1>2 DEF Moves, Shape, Shaped, Fields
<1>. QED  BY <1>1, <1>2

(* A step of w to one that is given.                                       *)
LEMMA JumpMoves ==
  ASSUME Shape, NEW w \in Worker, job[w] # None, NEW steps, NEW j,
         job' = [job EXCEPT ![w] = j],
         j # None => /\ DOMAIN j = Fields /\ j.req = job[w].req /\ j.tok = job[w].tok
                     /\ j.seen = job[w].seen /\ j.pc \in steps
                     /\ j.epoch = job[w].epoch /\ j.user = job[w].user
  PROVE  Moves(w, steps)
BY DEF Moves, Shape, Shaped

(* The handlers of the accounts.                                           *)
LEMMA AccountMoves ==
  ASSUME Shape, NEW w \in Worker, Step(w)
  PROVE  Moves(w, AccountSteps \cup {HandlerOf(Op(w))}) /\ todo' = todo
<1>. USE DEF At, Moves, Shape, Shaped, Calls, Fields, Naming, AccountSteps
<1>1. CASE CheckLock(w)
  BY ZenonT(60), <1>1 DEF CheckLock, Goto, End
<1>2. CASE WrongPassword(w)
  BY <1>2 DEF WrongPassword, Goto
<1>3. CASE PasswordChecked(w)
  <2>2. job[w] # None /\ job[w].pc = "password" /\ todo' = todo
    BY <1>3 DEF PasswordChecked
  <2>3. CASE End(w)
    BY <2>2, <2>3 DEF End
  <2>4. CASE \E u \in Account(job[w].req.id) : job' = [job EXCEPT ![w].pc = "clear", ![w].user = u]
    BY ZenonT(60), <2>2, <2>4
  <2>. QED  BY <1>3, <2>3, <2>4 DEF PasswordChecked
<1>4. CASE ClearFailures(w)
  BY <1>4 DEF ClearFailures, Goto
<1>5. CASE Increment(w)
  BY <1>5 DEF Increment
<1>6. CASE ExpireCounter(w)
  BY <1>6 DEF ExpireCounter, Goto
<1>7. CASE LockAccount(w)
  BY <1>7 DEF LockAccount, End
<1>8. CASE DecodeToken(w)
  BY ZenonT(60), <1>8 DEF DecodeToken, Goto, End
<1>9. CASE LoadUser(w)
  <2>2. job[w] # None /\ job[w].pc = "load" /\ todo' = todo
    BY <1>9 DEF LoadUser
  <2>3. CASE End(w)
    BY <2>2, <2>3 DEF End
  <2>4. CASE job' = [job EXCEPT ![w].pc = HandlerOf(Op(w)), ![w].row = db[Who(w)], ![w].epoch = admins.changes]
    BY <2>2, <2>4
  <2>. QED  BY <1>9, <2>3, <2>4 DEF LoadUser
<1>10. CASE IssueSession(w)
  BY <1>10 DEF IssueSession, End
<1>11. CASE RotateRefreshToken(w)
  BY <1>11 DEF RotateRefreshToken, Goto
<1>12. CASE RevokeAccess(w)
  BY ZenonT(60), <1>12 DEF RevokeAccess, Goto, End
<1>13. CASE RevokeRefresh(w)
  BY <1>13 DEF RevokeRefresh, End
<1>14. CASE MailLink(w)
  BY <1>14 DEF MailLink, End
<1>15. CASE MailCode(w)
  BY <1>15 DEF MailCode, End
<1>16. CASE CheckLink(w)
  BY ZenonT(60), <1>16 DEF CheckLink, Goto, End
<1>17. CASE CheckCode(w)
  BY ZenonT(60), <1>17 DEF CheckCode, Goto, End
<1>18. CASE CheckOldPassword(w)
  BY ZenonT(60), <1>18 DEF CheckOldPassword, Goto, End
<1>19. CASE FlushUpdate(w)
  BY <1>19 DEF FlushUpdate, Goto
<1>20. CASE SpendLink(w)
  BY <1>20 DEF SpendLink, Goto
<1>21. CASE SpendCode(w)
  BY <1>21 DEF SpendCode, Goto
<1>22. CASE SpendAccess(w)
  BY <1>22 DEF SpendAccess, Goto
<1>23. CASE ClearResend(w)
  BY <1>23 DEF ClearResend, Goto
<1>24. CASE CommitUpdate(w)
  BY <1>24 DEF CommitUpdate, End
<1>25. CASE CheckUnique(w)
  BY ZenonT(60), <1>25 DEF CheckUnique, Goto, End
<1>26. CASE WriteUnique(w)
  BY <1>26 DEF WriteUnique, End
<1>27. CASE IntegrityError(w)
  BY <1>27 DEF IntegrityError, End
<1>28. CASE LoadTarget(w)
  <2>2. job[w] # None /\ todo' = todo
    BY <1>28 DEF LoadTarget
  <2>3. CASE End(w)
    BY <2>2, <2>3 DEF End
  <2>4. CASE job' = [job EXCEPT ![w].pc = "guard", ![w].row = db[job[w].req.target]]
    BY <2>2, <2>4
  <2>. QED  BY <1>28, <2>3, <2>4 DEF LoadTarget
<1>29. CASE EnsureSafe(w)
  BY ZenonT(60), <1>29 DEF EnsureSafe, Goto, End
<1>30. CASE ApplyAdminChange(w)
  BY <1>30 DEF ApplyAdminChange, End
<1>. QED  BY <1>1, <1>2, <1>3, <1>4, <1>5, <1>6, <1>7, <1>8, <1>9, <1>10, <1>11, <1>12, <1>13, <1>14, <1>15, <1>16, <1>17, <1>18, <1>19, <1>20, <1>21, <1>22, <1>23, <1>24, <1>25, <1>26, <1>27, <1>28, <1>29, <1>30 DEF Step, LoginStep, SessionStep, SecretStep, UserStep

(* The handlers of the catalogue leave the accounts alone.                 *)
LEMMA CatalogMoves ==
  ASSUME Shape, NEW w \in Worker, CatalogStep(w)
  PROVE  Moves(w, CatalogSteps) /\ UNCHANGED <<db, issued, todo, history>>
<1>. USE DEF At, Moves, Shape, Shaped, Calls, Fields, CatalogSteps, history, catalogVars
<1>1. CASE PlanChange(w)
  <2>1. UNCHANGED <<db, issued, todo, history>>
    BY <1>1 DEF PlanChange, End, Req
  <2>2. job[w] # None
    BY <1>1 DEF PlanChange
  <2>3. CASE End(w)
    BY <2>1, <2>2, <2>3 DEF End
  <2>4. CASE job' = [job EXCEPT ![w].pc = "store", ![w].row = product[Req(w).product][Req(w).field]]
    BY <2>1, <2>2, <2>4
  <2>. QED  BY <1>1, <2>3, <2>4 DEF PlanChange
<1>2. CASE StorePending(w)
  BY <1>2 DEF StorePending, End, Req
<1>3. CASE ClaimPending(w)
  <2>1. UNCHANGED <<db, issued, todo, history>>
    BY <1>3 DEF ClaimPending, End, Claimed
  <2>2. job[w] # None
    BY <1>3 DEF ClaimPending
  <2>3. CASE End(w)
    BY <2>1, <2>2, <2>3 DEF End
  <2>4. CASE \E t \in DOMAIN previews : job' = [job EXCEPT ![w] = [@ EXCEPT !.pc = "recheck", !.row = redis[Pending(t)].val, !.n = t]]
    BY <2>1, <2>2, <2>4 DEF Claimed
  <2>. QED  BY <1>3, <2>3, <2>4 DEF ClaimPending, Claimed, End
<1>4. CASE RecheckPending(w)
  <2>1. UNCHANGED <<db, issued, todo, history>>
    BY <1>4 DEF RecheckPending, End
  <2>2. job[w] # None
    BY <1>4 DEF RecheckPending
  <2>3. CASE End(w)
    BY <2>1, <2>2, <2>3 DEF End
  <2>4. CASE \E r : job' = [job EXCEPT ![w].pc = "execute", ![w].row = r]
    BY ZenonT(60), <2>1, <2>2, <2>4
  <2>. QED  BY <1>4, <2>3, <2>4 DEF RecheckPending
<1>5. CASE ExecuteChange(w)
  BY <1>5 DEF ExecuteChange, End
<1>6. CASE ReadProduct(w)
  <2>1. UNCHANGED <<db, issued, todo, history>>
    BY <1>6 DEF ReadProduct, End
  <2>2. job[w] # None
    BY <1>6 DEF ReadProduct
  <2>3. CASE End(w)
    BY <2>1, <2>2, <2>3 DEF End
  <2>4. ASSUME NEW pc \in {"flush patch", "flush delist"}, NEW r,
               job' = [job EXCEPT ![w].pc = pc, ![w].row = r]
        PROVE  Moves(w, CatalogSteps)
    BY <2>2, <2>4, KeepMoves
  <2>. QED  BY <1>6, <2>1, <2>3, <2>4 DEF ReadProduct
<1>7. CASE PatchProduct(w)
  BY <1>7 DEF PatchProduct, End, Req
<1>8. CASE DelistProduct(w)
  BY <1>8 DEF DelistProduct, End, Req
<1>9. CASE ReadCoupon(w)
  <2>1. UNCHANGED <<db, issued, todo, history>>
    BY <1>9 DEF ReadCoupon
  <2>2. job[w] # None
    BY <1>9 DEF ReadCoupon
  <2>3. CASE End(w)
    BY <2>1, <2>2, <2>3 DEF End
  <2>4. CASE job' = [job EXCEPT ![w].pc = "write coupon", ![w].row = coupon]
    BY <2>1, <2>2, <2>4
  <2>. QED  BY <1>9, <2>3, <2>4 DEF ReadCoupon
<1>10. CASE WriteCoupon(w)
  BY <1>10 DEF WriteCoupon, End, Req
<1>11. CASE SellProduct(w)
  BY <1>11 DEF SellProduct, End, Req
<1>. QED  BY <1>1, <1>2, <1>3, <1>4, <1>5, <1>6, <1>7, <1>8, <1>9, <1>10, <1>11 DEF CatalogStep, CommandStep, ProductStep, CouponStep

(* The storefront leaves everything but its own state and the products alone. *)
LEMMA StorefrontMoves ==
  ASSUME Shape, NEW w \in Worker, StorefrontStep(w)
  PROVE  Moves(w, StorefrontSteps) /\ UNCHANGED Beyond
<1>. USE DEF At, Moves, Shape, Shaped, Calls, Fields, StorefrontSteps, Beyond, Customer, history, storefrontVars
<1>1. CASE Browse(w)
  BY <1>1 DEF Browse, End, Show, Entered
<1>2. CASE GasCards(w)
  <2>1. UNCHANGED Beyond
    BY <1>2 DEF GasCards, Gather
  <2>2. job[w] # None
    BY <1>2 DEF GasCards
  <2>3. CASE End(w)
    BY <2>1, <2>2, <2>3 DEF End
  <2>4. ASSUME NEW r, Gather(w, r, "card parents")
        PROVE  Moves(w, StorefrontSteps)
    BY <2>2, <2>4, KeepMoves DEF Gather
  <2>. QED  BY <1>2, <2>1, <2>3, <2>4 DEF GasCards
<1>3. CASE CardParents(w)
  BY <1>3 DEF CardParents, Gather
<1>4. CASE CardVariants(w)
  BY <1>4 DEF CardVariants, ShowAndEnd, End, Show
<1>5. CASE OpenParent(w)
  <2>1. UNCHANGED Beyond
    BY <1>5 DEF OpenParent, Gather
  <2>2. job[w] # None
    BY <1>5 DEF OpenParent
  <2>3. CASE End(w)
    BY <2>1, <2>2, <2>3 DEF End
  <2>4. ASSUME NEW r, Gather(w, r, "page variants")
        PROVE  Moves(w, StorefrontSteps)
    BY <2>2, <2>4, KeepMoves DEF Gather
  <2>. QED  BY <1>5, <2>1, <2>3, <2>4 DEF OpenParent
<1>6. CASE ParentVariants(w)
  BY <1>6 DEF ParentVariants, ShowAndEnd, End, Show
<1>7. CASE ViewProduct(w)
  <2>1. UNCHANGED Beyond
    BY <1>7 DEF ViewProduct, Gather
  <2>2. job[w] # None
    BY <1>7 DEF ViewProduct
  <2>3. CASE End(w)
    BY <2>1, <2>2, <2>3 DEF End
  <2>4. ASSUME NEW r, Gather(w, r, "candidates")
        PROVE  Moves(w, StorefrontSteps)
    BY <2>2, <2>4, KeepMoves DEF Gather
  <2>. QED  BY <1>7, <2>1, <2>3, <2>4 DEF ViewProduct
<1>8. CASE Recommend(w)
  BY <1>8 DEF Recommend, ShowAndEnd, End, Show
<1>9. CASE CreateProduct(w)
  BY <1>9 DEF CreateProduct, End
<1>10. CASE CreateParent(w)
  BY <1>10 DEF CreateParent, End
<1>11. CASE LoadParent(w)
  <2>1. UNCHANGED Beyond
    BY <1>11 DEF LoadParent, End
  <2>2. job[w] # None
    BY <1>11 DEF LoadParent
  <2>3. CASE End(w)
    BY <2>1, <2>2, <2>3 DEF End
  <2>4. ASSUME NEW pc \in {"flush parent", "load variants"}, NEW r,
               job' = [job EXCEPT ![w].pc = pc, ![w].row = r]
        PROVE  Moves(w, StorefrontSteps)
    BY <2>2, <2>4, KeepMoves
  <2>. QED  BY <1>11, <2>1, <2>3, <2>4 DEF LoadParent
<1>12. CASE PatchParent(w)
  BY <1>12 DEF PatchParent, End
<1>13. CASE LoadVariants(w)
  BY <1>13 DEF LoadVariants
<1>14. CASE DropParent(w)
  BY <1>14 DEF DropParent, End
<1>15. CASE CheckSaved(w)
  BY ZenonT(60), <1>15 DEF CheckSaved, Goto, End
<1>16. CASE InsertSaved(w)
  BY <1>16 DEF InsertSaved, End
<1>17. CASE Unsave(w)
  BY <1>17 DEF Unsave, End
<1>18. CASE ListSaved(w)
  BY <1>18 DEF ListSaved, End, Show, Entered
<1>19. CASE CachedBest(w)
  <2>1. UNCHANGED Beyond
    BY <1>19 DEF CachedBest, Gather
  <2>2. job[w] # None
    BY <1>19 DEF CachedBest
  <2>3. CASE End(w)
    BY <2>1, <2>2, <2>3 DEF End
  <2>4. ASSUME NEW r, Gather(w, r, "best query")
        PROVE  Moves(w, StorefrontSteps)
    BY <2>2, <2>4, KeepMoves DEF Gather
  <2>. QED  BY <1>19, <2>1, <2>3, <2>4 DEF CachedBest
<1>20. CASE QueryBest(w)
  BY <1>20 DEF QueryBest, Gather
<1>21. CASE KeepBest(w)
  BY <1>21 DEF KeepBest, End, Show
<1>22. CASE OpenOrder(w)
  <2>1. UNCHANGED Beyond
    BY <1>22 DEF OpenOrder, Gather
  <2>2. job[w] # None
    BY <1>22 DEF OpenOrder
  <2>3. CASE End(w)
    BY <2>1, <2>2, <2>3 DEF End
  <2>4. ASSUME NEW r, Gather(w, r, "reorder line")
        PROVE  Moves(w, StorefrontSteps)
    BY <2>2, <2>4, KeepMoves DEF Gather
  <2>. QED  BY <1>22, <2>1, <2>3, <2>4 DEF OpenOrder
<1>23. CASE ReorderLine(w)
  BY <1>23 DEF ReorderLine
<1>24. CASE RebuiltCart(w)
  BY <1>24 DEF RebuiltCart, ShowAndEnd, End, Show
<1>. QED  BY <1>1, <1>2, <1>3, <1>4, <1>5, <1>6, <1>7, <1>8, <1>9, <1>10, <1>11, <1>12, <1>13, <1>14, <1>15, <1>16, <1>17, <1>18, <1>19, <1>20, <1>21, <1>22, <1>23, <1>24 DEF StorefrontStep, PageStep, RecommendStep, ParentStep, WishlistStep, BestSellerStep, ReorderStep

(* The price mails leave accounts and catalogue alone.                     *)
LEMMA AlertMoves ==
  ASSUME Shape, NEW w \in Worker, AlertStep(w)
  PROVE  Moves(w, AlertSteps) /\ UNCHANGED <<todo, Elsewhere>>
<1>. USE DEF At, Moves, Shape, Shaped, Calls, Fields, AlertSteps, Elsewhere, history, catalogVars, alertVars
<1>1. CASE LookUpSubscription(w)
  BY <1>1 DEF LookUpSubscription, Goto, End
<1>2. CASE InsertSubscription(w)
  BY ZenonT(60), <1>2 DEF InsertSubscription, Goto, End
<1>3. CASE MailConfirmation(w)
  BY <1>3 DEF MailConfirmation
<1>4. CASE CommitSubscription(w)
  BY <1>4 DEF CommitSubscription, End
<1>5. CASE OpenLink(w)
  <2>1. UNCHANGED <<todo, Elsewhere>>
    BY <1>5 DEF OpenLink, End
  <2>2. job[w] # None
    BY <1>5 DEF OpenLink
  <2>3. CASE End(w)
    BY <2>1, <2>2, <2>3 DEF End
  <2>4. CASE \E i \in Mailed : job' = [job EXCEPT ![w].pc = "mark confirmed", ![w].n = i]
    BY ZenonT(60), <2>1, <2>2, <2>4
  <2>. QED  BY <1>5, <2>3, <2>4 DEF OpenLink
<1>6. CASE MarkConfirmed(w)
  BY <1>6 DEF MarkConfirmed, End
<1>7. CASE Unsubscribe(w)
  BY <1>7 DEF Unsubscribe, End
<1>8. CASE BuildPriceRows(w)
  BY <1>8 DEF BuildPriceRows
<1>9. CASE ListRecipients(w)
  BY <1>9 DEF ListRecipients
<1>10. CASE SendNotice(w)
  BY <1>10 DEF SendNotice
<1>11. CASE FinishRun(w)
  BY <1>11 DEF FinishRun, End
<1>. QED  BY <1>1, <1>2, <1>3, <1>4, <1>5, <1>6, <1>7, <1>8, <1>9, <1>10, <1>11 DEF AlertStep

(* The knowledge base only shares Redis with them.                         *)
LEMMA LearningMoves ==
  ASSUME Shape, NEW w \in Worker, LearningStep(w)
  PROVE  Moves(w, LearningSteps) /\ UNCHANGED <<todo, db, issued, history, catalogVars, alertVars>>
<1>. USE DEF At, Moves, Shape, Shaped, Calls, Fields, LearningSteps, OutsideLearning, history, catalogVars, alertVars, learningVars
<1>1. CASE ReadAnswer(w)
  BY <1>1 DEF ReadAnswer, Keep
<1>2. CASE WriteAnswer(w)
  BY <1>2 DEF WriteAnswer, End
<1>3. CASE EmbedAnswer(w)
  BY <1>3 DEF EmbedAnswer, Goto, End
<1>4. CASE LearnAnswer(w)
  BY <1>4 DEF LearnAnswer, End
<1>5. CASE CreateDocument(w)
  BY <1>5 DEF CreateDocument, End
<1>6. CASE ImportDocuments(w)
  BY <1>6 DEF ImportDocuments, End
<1>7. CASE ReadDocument(w)
  <2>1. UNCHANGED <<todo, db, issued, history, catalogVars, alertVars>>
    BY <1>7 DEF ReadDocument, End, Keep
  <2>2. job[w] # None
    BY <1>7 DEF ReadDocument
  <2>3. CASE End(w)
    BY <2>1, <2>2, <2>3 DEF End
  <2>4. ASSUME NEW pc \in {"write document", "embed document"}, NEW r,
               job' = [job EXCEPT ![w].pc = pc, ![w].row = r]
        PROVE  Moves(w, LearningSteps)
    BY <2>2, <2>4, KeepMoves
  <2>. QED  BY <1>7, <2>1, <2>3, <2>4 DEF ReadDocument, Keep
<1>8. CASE EmbedDocument(w)
  BY ZenonT(60), <1>8 DEF EmbedDocument, End
<1>9. CASE WriteDocument(w)
  BY <1>9 DEF WriteDocument, End
<1>10. CASE DropDocument(w)
  BY <1>10 DEF DropDocument, End
<1>11. CASE SearchCache(w)
  BY ZenonT(60), <1>11 DEF SearchCache, Goto
<1>12. CASE EmbedQuestion(w)
  BY ZenonT(60), <1>12 DEF EmbedQuestion, End
<1>13. CASE CacheQuestion(w)
  BY <1>13 DEF CacheQuestion, Goto
<1>14. CASE MatchDocuments(w)
  BY <1>14 DEF MatchDocuments, End
<1>. QED  BY <1>1, <1>2, <1>3, <1>4, <1>5, <1>6, <1>7, <1>8, <1>9, <1>10, <1>11, <1>12, <1>13, <1>14 DEF LearningStep, ReviewStep

(* And so does the agent.                                                  *)
LEMMA AgentMoves ==
  ASSUME Shape, NEW w \in Worker, AgentStep(w)
  PROVE  Moves(w, AgentSteps) /\ UNCHANGED <<todo, OutsideAgent>>
<1>. USE DEF At, Moves, Shape, Shaped, Calls, Fields, Naming, AgentSteps, OutsideAgent, history, catalogVars, alertVars, learningVars
<1>1. CASE StartTurn(w)
  <2>1. UNCHANGED <<todo, OutsideAgent>>
    BY <1>1 DEF StartTurn, Enter
  <2>2. job[w] # None /\ job[w].pc = "talk"
    BY <1>1 DEF StartTurn
  <2>3. ASSUME NEW s, Enter(w, s, "intake")
        PROVE  Moves(w, AgentSteps)
    <3>1. PICK caller \in Callers(w) :
             job' = [job EXCEPT ![w].pc = "intake", ![w].user = caller, ![w].row = s,
                                ![w].n = Len(asked) + 1]
      BY <2>3 DEF Enter
    <3>. QED  BY <2>2, <3>1
  <2>. QED  BY <1>1, <2>1, <2>3 DEF StartTurn
<1>2. CASE Intake(w)
  BY <1>2 DEF Intake, Checkpoint
<1>3. CASE HandOver(w)
  BY <1>3 DEF HandOver, Checkpoint
<1>4. CASE EmergencyText(w)
  BY <1>4 DEF EmergencyText, Checkpoint
<1>5. CASE Route(w)
  BY <1>5 DEF Route, Checkpoint
<1>6. CASE RunReadTool(w)
  <2>1. PICK result \in Returned(job[w].row.call.name) :
           Checkpoint(w, WithResult(w, result.ok, result.single), "verify")
    BY <1>6 DEF RunReadTool
  <2>2. UNCHANGED <<todo, OutsideAgent>>
    BY <1>6 DEF RunReadTool, Checkpoint
  <2>3. ASSUME NEW s, Checkpoint(w, s, "verify")
        PROVE  Moves(w, AgentSteps)
    <3>1. job' = [job EXCEPT ![w] = [job[w] EXCEPT !.pc = "verify", !.row = s]]
      BY <2>3 DEF Checkpoint
    <3>2. job[w] # None /\ Shaped(job[w])
      BY <1>6 DEF RunReadTool
    <3>. DEFINE j == [job[w] EXCEPT !.pc = "verify", !.row = s]
    <3>3. /\ DOMAIN j = Fields /\ j.req = job[w].req /\ j.tok = job[w].tok
          /\ j.seen = job[w].seen /\ j.pc \in AgentSteps
      BY <3>2
    <3>. QED  BY <3>1, <3>2, <3>3, JumpMoves
  <2>. QED  BY <2>1, <2>2, <2>3
<1>7. CASE Retrieve(w)
  BY <1>7 DEF Retrieve, Checkpoint
<1>8. CASE Verify(w)
  BY <1>8 DEF Verify, Checkpoint
<1>9. CASE Respond(w)
  BY <1>9 DEF Respond, Checkpoint
<1>10. CASE StartOrder(w)
  <2>1. UNCHANGED <<todo, OutsideAgent>>
    BY <1>10 DEF StartOrder, Enter
  <2>2. job[w] # None /\ job[w].pc = "order"
    BY <1>10 DEF StartOrder
  <2>3. ASSUME NEW s, Enter(w, s, "run tool")
        PROVE  Moves(w, AgentSteps)
    <3>1. PICK caller \in Callers(w) :
             job' = [job EXCEPT ![w].pc = "run tool", ![w].user = caller, ![w].row = s,
                                ![w].n = Len(asked) + 1]
      BY <2>3 DEF Enter
    <3>. QED  BY <2>2, <3>1
  <2>. QED  BY <1>10, <2>1, <2>3 DEF StartOrder
<1>11. CASE Resume(w)
  <2>1. UNCHANGED <<todo, OutsideAgent>>
    BY <1>11 DEF Resume, Enter, End
  <2>2. job[w] # None /\ job[w].pc = "resume"
    BY <1>11 DEF Resume
  <2>3. ASSUME NEW s, Enter(w, s, "run tool")
        PROVE  Moves(w, AgentSteps)
    <3>1. PICK caller \in Callers(w) :
             job' = [job EXCEPT ![w].pc = "run tool", ![w].user = caller, ![w].row = s,
                                ![w].n = Len(asked) + 1]
      BY <2>3 DEF Enter
    <3>. QED  BY <2>2, <3>1
  <2>4. CASE End(w)
    BY <2>1, <2>2, <2>4 DEF End
  <2>. QED  BY <1>11, <2>1, <2>3, <2>4 DEF Resume
<1>12. CASE DenyGuest(w)
  BY <1>12 DEF DenyGuest, Refuse, Checkpoint
<1>13. CASE Interrupt(w)
  BY <1>13 DEF Interrupt, End, StoreCall
<1>14. CASE Decision(w)
  BY <1>14 DEF Decision, Goto, Refuse, StoreCall, Checkpoint
<1>15. CASE ClaimCall(w)
  BY ZenonT(60), <1>15 DEF ClaimCall, Goto, Refuse, Checkpoint
<1>16. CASE ApplyCall(w)
  BY <1>16 DEF ApplyCall, Goto
<1>17. CASE KeepResult(w)
  BY <1>17 DEF KeepResult, Checkpoint
<1>. QED  BY <1>1, <1>2, <1>3, <1>4, <1>5, <1>6, <1>7, <1>8, <1>9, <1>10, <1>11, <1>12, <1>13, <1>14, <1>15, <1>16, <1>17 DEF AgentStep, TurnStep, GateStep

(* The models touch nothing of the others.                                 *)
LEMMA GenerationMoves ==
  ASSUME Shape, NEW w \in Worker, GenerationStep(w)
  PROVE  Moves(w, GenerationSteps) /\ UNCHANGED OutsideGeneration
<1>. USE DEF At, GenerationSteps
<1>1. ASSUME job[w] # None, End(w)
      PROVE  Moves(w, GenerationSteps)
  BY <1>1 DEF End, Moves, Shape, Shaped
<1>2. ASSUME job[w] # None, NEW pc \in GenerationSteps, Goto(w, pc)
      PROVE  Moves(w, GenerationSteps)
  BY <1>2 DEF Goto, Moves, Shape, Shaped, Fields
<1>3. ASSUME job[w] # None, NEW pc \in GenerationSteps, NEW intent, Intend(w, intent, pc)
      PROVE  Moves(w, GenerationSteps)
  BY <1>3 DEF Intend, Moves, Shape, Shaped, Fields
<1>4. ASSUME job[w] # None, NEW then, Call(w, then)
      PROVE  Moves(w, GenerationSteps)
  BY <1>4 DEF Call, Moves, Shape, Shaped, Fields
<1>5. ASSUME job[w] # None, NEW pc \in GenerationSteps, Wire(w, pc)
      PROVE  Moves(w, GenerationSteps) /\ UNCHANGED OutsideGeneration
  <2>1. CASE job' = [job EXCEPT ![w].pc = pc, ![w].row = Fresh]
    BY <1>5, <2>1, KeepMoves DEF Wire
  <2>. QED  BY <1>1, <1>5, <2>1 DEF Wire
<1>6. CASE StartMessage(w)
  BY <1>5, <1>6 DEF StartMessage
<1>7. CASE BareCategory(w)
  BY <1>3, <1>7 DEF BareCategory
<1>8. CASE EmbedMessage(w)
  <2>1. ASSUME NEW category \in Categories, NEW sure \in BOOLEAN,
               Intend(w, category, IF MustCheck(category, sure) THEN "ask model"
                                   ELSE "decide reply")
        PROVE  Moves(w, GenerationSteps)
    <3>. DEFINE pc == IF MustCheck(category, sure) THEN "ask model" ELSE "decide reply"
    <3>1. pc \in GenerationSteps /\ Intend(w, category, pc)
      BY <2>1
    <3>. QED  BY ONLY <1>3, <1>8, <3>1 DEF EmbedMessage, At
  <2>. QED  BY <1>1, <1>2, <1>8, <2>1 DEF EmbedMessage
<1>9. CASE AskModel(w)
  BY <1>4, <1>9 DEF AskModel
<1>10. CASE Judge(w)
  BY <1>1, <1>3, <1>10 DEF Judge
<1>11. CASE PlanReply(w)
  BY <1>1, <1>2, <1>11 DEF PlanReply
<1>12. CASE StartQuestion(w)
  BY <1>5, <1>12 DEF StartQuestion
<1>13. CASE CheckSafety(w)
  BY <1>1, <1>2, <1>13 DEF CheckSafety
<1>14. CASE FindDocuments(w)
  BY <1>1, <1>2, <1>4, <1>14 DEF FindDocuments
<1>15. ASSUME job[w] # None, NextProvider(w), job[w].pc \in GenerationSteps
      PROVE  Moves(w, GenerationSteps)
  BY <1>15 DEF NextProvider, Moves, Shape, Shaped, Fields
<1>16. CASE Generate(w)
  <2>1. job[w] # None /\ job[w].pc = "generate" /\ UNCHANGED OutsideGeneration
    BY <1>16 DEF Generate
  <2>2. ASSUME NEW row,
               job' = [job EXCEPT ![w].pc = job[w].row.then, ![w].row = row]
        PROVE  Moves(w, GenerationSteps)
    <3>1. job[w].row.then \in GenerationSteps
      BY <2>1 DEF Shape, Shaped, Calls
    <3>. QED  BY <2>1, <2>2, <3>1, KeepMoves
  <2>3. ASSUME job' = [job EXCEPT ![w].row.attempt = @ + 1]
        PROVE  Moves(w, GenerationSteps)
    BY <2>1, <2>3 DEF Moves, Shape, Shaped, Fields
  <2>4. ASSUME Raise(w)
        PROVE  Moves(w, GenerationSteps)
    BY <1>1, <2>1, <2>4 DEF Raise
  <2>. QED  BY <1>15, <1>16, <2>1, <2>2, <2>3, <2>4 DEF Generate
<1>17. CASE Stream(w)
  <2>1. job[w] # None /\ job[w].pc = "stream" /\ UNCHANGED OutsideGeneration
    BY <1>17 DEF Stream
  <2>2. ASSUME job' = [job EXCEPT ![w].row.writers = @ \cup {Serving(w)}]
        PROVE  Moves(w, GenerationSteps)
    BY <2>1, <2>2 DEF Moves, Shape, Shaped, Fields
  <2>3. ASSUME Raise(w)
        PROVE  Moves(w, GenerationSteps)
    BY <1>1, <2>1, <2>3 DEF Raise
  <2>. QED  BY <1>2, <1>15, <1>17, <2>1, <2>2, <2>3 DEF Stream
<1>18. CASE Disconnect(w)
  BY <1>1, <1>18 DEF Disconnect
<1>19. CASE Store(w)
  BY <1>1, <1>19 DEF Store
<1>. QED  BY <1>6, <1>7, <1>8, <1>9, <1>10, <1>11, <1>12, <1>13, <1>14, <1>16, <1>17,
             <1>18, <1>19 DEF GenerationStep

(* A call of a model always says where it goes on.                         *)
LEMMA CallsKept ==
  ASSUME Shape, NEW w \in Worker, GenerationStep(w), job'[w] # None
  PROVE  Calls(job'[w])
<1>. DEFINE OK == Calls(job'[w])
<1>0. DOMAIN job = Worker /\ (job[w] # None => DOMAIN job[w] = Fields /\ Calls(job[w]))
  BY DEF Shape, Shaped
<1>. USE DEF At, GenerationSteps, Fields, Calls, Fresh
<1>1. ASSUME NEW pc \in {"check text", "find documents", "store reply", "ask model"},
             job[w].pc \in GenerationSteps, job[w] # None, Goto(w, pc)
      PROVE  OK
  BY <1>0, <1>1 DEF Goto
<1>2. ASSUME NEW pc \in {"decide reply", "ask model"}, NEW intent, Intend(w, intent, pc),
             job[w].pc \in GenerationSteps, job[w] # None
      PROVE  OK
  BY <1>0, <1>2 DEF Intend
<1>3. ASSUME NEW then \in {"judge", "store reply"}, Call(w, then),
             job[w].pc \in GenerationSteps, job[w] # None
      PROVE  OK
  BY <1>0, <1>3 DEF Call
<1>4. ASSUME NEW pc \in {"classify", "check text"}, Wire(w, pc), job[w] # None
      PROVE  OK
  BY ZenonT(60), <1>0, <1>4 DEF Wire, End
<1>5. ASSUME NextProvider(w), job[w].pc \in GenerationSteps, job[w] # None
      PROVE  OK
  BY <1>0, <1>5 DEF NextProvider
<1>6. ~End(w)
  BY <1>0 DEF End
<1>7. CASE StartMessage(w)
  BY <1>4, <1>7 DEF StartMessage
<1>8. CASE BareCategory(w)
  BY <1>2, <1>8 DEF BareCategory
<1>9. CASE EmbedMessage(w)
  <2>1. ASSUME NEW category \in Categories, NEW sure \in BOOLEAN,
               Intend(w, category, IF MustCheck(category, sure) THEN "ask model"
                                   ELSE "decide reply")
        PROVE  OK
    <3>. DEFINE pc == IF MustCheck(category, sure) THEN "ask model" ELSE "decide reply"
    <3>1. pc \in {"decide reply", "ask model"} /\ Intend(w, category, pc)
      BY <2>1
    <3>2. job[w] # None /\ job[w].pc \in GenerationSteps
      BY <1>9 DEF EmbedMessage
    <3>. QED  BY ONLY <1>2, <3>1, <3>2
  <2>. QED  BY <1>1, <1>6, <1>9, <2>1 DEF EmbedMessage
<1>10. CASE AskModel(w)
  BY <1>3, <1>10 DEF AskModel
<1>11. CASE Judge(w)
  BY <1>2, <1>6, <1>11 DEF Judge
<1>12. CASE PlanReply(w)
  BY <1>1, <1>6, <1>12 DEF PlanReply
<1>13. CASE StartQuestion(w)
  BY <1>4, <1>13 DEF StartQuestion
<1>14. CASE CheckSafety(w)
  BY <1>1, <1>6, <1>14 DEF CheckSafety
<1>15. CASE FindDocuments(w)
  <2>1. ASSUME Goto(w, "stream")
        PROVE  OK
    BY <1>0, <1>15, <2>1 DEF FindDocuments, Goto
  <2>. QED  BY <1>3, <1>6, <1>15, <2>1 DEF FindDocuments
<1>16. CASE Generate(w)
  <2>1. job[w] # None /\ job[w].pc = "generate"
    BY <1>16 DEF Generate
  <2>2. ASSUME NEW row, DOMAIN row = DOMAIN Fresh,
               job' = [job EXCEPT ![w].pc = job[w].row.then, ![w].row = row]
        PROVE  OK
    BY <1>0, <2>1, <2>2
  <2>3. ASSUME job' = [job EXCEPT ![w].row.attempt = @ + 1]
        PROVE  OK
    BY <1>0, <2>1, <2>3
  <2>4. DOMAIN [Fresh EXCEPT !.intent = job[w].row.intent] = DOMAIN Fresh
        /\ DOMAIN [job[w].row EXCEPT !.writers = {Serving(w)}] = DOMAIN Fresh
    BY <1>0, <2>1
  <2>5. \/ \E row : /\ DOMAIN row = DOMAIN Fresh
                    /\ job' = [job EXCEPT ![w].pc = job[w].row.then, ![w].row = row]
        \/ job' = [job EXCEPT ![w].row.attempt = @ + 1]
        \/ NextProvider(w)
    BY ONLY <1>6, <1>16, <2>4 DEF Generate, Raise
  <2>. QED  BY <1>5, <2>1, <2>2, <2>3, <2>5
<1>17. CASE Stream(w)
  <2>1. job[w] # None /\ job[w].pc = "stream"
    BY <1>17 DEF Stream
  <2>2. ASSUME job' = [job EXCEPT ![w].row.writers = @ \cup {Serving(w)}]
        PROVE  OK
    BY <1>0, <2>1, <2>2
  <2>. QED  BY <1>1, <1>5, <1>6, <1>17, <2>1, <2>2 DEF Stream, Raise
<1>18. CASE Disconnect(w)
  BY <1>6, <1>18 DEF Disconnect
<1>19. CASE Store(w)
  BY <1>6, <1>19 DEF Store
<1>. QED  BY <1>7, <1>8, <1>9, <1>10, <1>11, <1>12, <1>13, <1>14, <1>15, <1>16, <1>17,
             <1>18, <1>19 DEF GenerationStep

-----------------------------------------------------------------------------
(* No two components take a job to the same step, and none to a route.     *)
LEMMA StepsApart ==
  /\ Routes \cap AccountSteps = {}
  /\ Routes \cap CatalogSteps = {}
  /\ Routes \cap StorefrontSteps = {}
  /\ Routes \cap AlertSteps = {}
  /\ Routes \cap LearningSteps = {}
  /\ Routes \cap AgentSteps = {}
  /\ Routes \cap GenerationSteps = {}
  /\ AccountSteps \cap CatalogSteps = {}
  /\ AccountSteps \cap StorefrontSteps = {}
  /\ AccountSteps \cap AlertSteps = {}
  /\ AccountSteps \cap LearningSteps = {}
  /\ AccountSteps \cap AgentSteps = {}
  /\ AccountSteps \cap GenerationSteps = {}
  /\ CatalogSteps \cap StorefrontSteps = {}
  /\ CatalogSteps \cap AlertSteps = {}
  /\ CatalogSteps \cap LearningSteps = {}
  /\ CatalogSteps \cap AgentSteps = {}
  /\ CatalogSteps \cap GenerationSteps = {}
  /\ StorefrontSteps \cap AlertSteps = {}
  /\ StorefrontSteps \cap LearningSteps = {}
  /\ StorefrontSteps \cap AgentSteps = {}
  /\ StorefrontSteps \cap GenerationSteps = {}
  /\ AlertSteps \cap LearningSteps = {}
  /\ AlertSteps \cap AgentSteps = {}
  /\ AlertSteps \cap GenerationSteps = {}
  /\ LearningSteps \cap AgentSteps = {}
  /\ LearningSteps \cap GenerationSteps = {}
  /\ AgentSteps \cap GenerationSteps = {}
<1>. USE DEF AccountSteps, CatalogSteps, StorefrontSteps, AlertSteps,
        LearningSteps, AgentSteps, GenerationSteps,
        Routes, Sessionless, AdminOnly, StaffOnly, Shopping, Handler
<1>1. Routes \cap AccountSteps = {}
  OBVIOUS
<1>2. Routes \cap CatalogSteps = {}
  OBVIOUS
<1>3. Routes \cap StorefrontSteps = {}
  OBVIOUS
<1>4. Routes \cap AlertSteps = {}
  OBVIOUS
<1>5. Routes \cap LearningSteps = {}
  OBVIOUS
<1>6. Routes \cap AgentSteps = {}
  OBVIOUS
<1>7. Routes \cap GenerationSteps = {}
  OBVIOUS
<1>8. AccountSteps \cap CatalogSteps = {}
  OBVIOUS
<1>9. AccountSteps \cap StorefrontSteps = {}
  OBVIOUS
<1>10. AccountSteps \cap AlertSteps = {}
  OBVIOUS
<1>11. AccountSteps \cap LearningSteps = {}
  OBVIOUS
<1>12. AccountSteps \cap AgentSteps = {}
  OBVIOUS
<1>13. AccountSteps \cap GenerationSteps = {}
  OBVIOUS
<1>14. CatalogSteps \cap StorefrontSteps = {}
  OBVIOUS
<1>15. CatalogSteps \cap AlertSteps = {}
  OBVIOUS
<1>16. CatalogSteps \cap LearningSteps = {}
  OBVIOUS
<1>17. CatalogSteps \cap AgentSteps = {}
  OBVIOUS
<1>18. CatalogSteps \cap GenerationSteps = {}
  OBVIOUS
<1>19. StorefrontSteps \cap AlertSteps = {}
  OBVIOUS
<1>20. StorefrontSteps \cap LearningSteps = {}
  OBVIOUS
<1>21. StorefrontSteps \cap AgentSteps = {}
  OBVIOUS
<1>22. StorefrontSteps \cap GenerationSteps = {}
  OBVIOUS
<1>23. AlertSteps \cap LearningSteps = {}
  OBVIOUS
<1>24. AlertSteps \cap AgentSteps = {}
  OBVIOUS
<1>25. AlertSteps \cap GenerationSteps = {}
  OBVIOUS
<1>26. LearningSteps \cap AgentSteps = {}
  OBVIOUS
<1>27. LearningSteps \cap GenerationSteps = {}
  OBVIOUS
<1>28. AgentSteps \cap GenerationSteps = {}
  OBVIOUS
<1>. QED  BY ONLY <1>1, <1>2, <1>3, <1>4, <1>5, <1>6, <1>7, <1>8, <1>9, <1>10,
                  <1>11, <1>12, <1>13, <1>14, <1>15, <1>16, <1>17, <1>18, <1>19, <1>20,
                  <1>21, <1>22, <1>23, <1>24, <1>25, <1>26, <1>27, <1>28

(* The jobs at these steps are as they were.                               *)
Held(steps) ==
    \A v \in Worker : job'[v] # None /\ job'[v].pc \in steps => job[v] # None /\ job'[v] = job[v]

LEMMA MovesHold ==
  ASSUME NEW w \in Worker, NEW S, NEW T, Moves(w, S), S \cap T = {}
  PROVE  Held(T)
BY DEF Moves, Held

(* A request begins at the step of its route, or with its token.           *)
LEMMA BeginMoves ==
  ASSUME Shape, NEW w \in Worker, Begin(w)
  PROVE  /\ todo' \in [Worker -> Seq(Requested)]
         /\ DOMAIN job' = Worker
         /\ job[w] = None
         /\ \A v \in Worker : v # w => job'[v] = job[v]
         /\ DOMAIN job'[w] = Fields
         /\ job'[w].req \in Requested
         /\ job'[w].req = Head(todo[w])
         /\ job'[w].pc = FirstStep(job'[w].req.op)
         /\ job'[w].pc \in AccountSteps \cup {job'[w].req.op}
         /\ job'[w].tok \in Presentable(job'[w].req)
         /\ job'[w].user = job'[w].req.user
         /\ job'[w].seen = Len(used)
         /\ UNCHANGED <<db, redis, issued, history>>
<1>1. todo[w] \in Seq(Requested) /\ todo[w] # <<>> /\ job[w] = None /\ DOMAIN job = Worker
  BY DEF Begin, Shape, Shaped
<1>2. Head(todo[w]) \in Requested /\ Tail(todo[w]) \in Seq(Requested)
  BY <1>1, HeadTailProperties
<1>3. todo' \in [Worker -> Seq(Requested)]
  BY <1>2 DEF Begin, Shape, Shaped
<1>4. PICK t \in Presentable(Head(todo[w])) :
         job' = [job EXCEPT ![w] =
             [req |-> Head(todo[w]), pc |-> FirstStep(Head(todo[w]).op), tok |-> t,
              user |-> Head(todo[w]).user, row |-> None, n |-> 0,
              seen |-> Len(used), epoch |-> admins.changes]]
  BY DEF Begin
<1>5. FirstStep(Head(todo[w]).op) \in AccountSteps \cup {Head(todo[w]).op}
  <2>1. Head(todo[w]).op \in Routes
    BY <1>2, RequestedRouted
  <2>2. HandlerOf(Head(todo[w]).op) \in AccountSteps \cup {Head(todo[w]).op}
    BY <2>1, HandlerSteps
  <2>. QED  BY <2>2 DEF FirstStep, AccountSteps
<1>6. UNCHANGED <<db, redis, issued, history>>
  BY DEF Begin
<1>. QED  BY <1>1, <1>2, <1>3, <1>4, <1>5, <1>6 DEF Fields

(* A job that ends.                                                        *)
LEMMA CrashMoves ==
  ASSUME Shape, NEW w \in Worker, Crash(w)
  PROVE  Moves(w, {}) /\ job'[w] = None /\ UNCHANGED <<db, redis, issued, todo, used, admins>>
BY DEF Crash, End, Moves, Shape, Shaped

-----------------------------------------------------------------------------
(* The shape of the jobs is kept.                                          *)
LEMMA ShapeInit == SiteInit => Shape
<1>. SUFFICES ASSUME SiteInit PROVE Shape
  OBVIOUS
<1>1. todo \in Scenario /\ job = [w \in Worker |-> None]
  BY DEF SiteInit, Init
<1>2. ASSUME NEW w \in Worker
      PROVE  todo[w] \in Seq(Requested)
  <2>1. /\ Len(todo[w]) \in Nat
        /\ todo[w] = [i \in 1..Len(todo[w]) |-> todo[w][i]]
    BY <1>1, RequestsRouted
  <2>2. ASSUME NEW i \in 1..Len(todo[w])
        PROVE  todo[w][i] \in Requested
    <3>1. i \in DOMAIN todo[w]
      BY <2>1
    <3>2. todo[w][i] \in {todo[w][k] : k \in DOMAIN todo[w]}
      BY <3>1
    <3>. DEFINE R == {{q[v][k] : k \in DOMAIN q[v]} : q \in Scenario, v \in Worker}
    <3>3. {todo[w][k] : k \in DOMAIN todo[w]} \in R
      BY <1>1
    <3>4. todo[w][i] \in UNION R
      <4>. HIDE DEF R
      <4>. QED  BY <3>2, <3>3
    <3>. QED  BY <3>4 DEF Requested
  <2>3. [i \in 1..Len(todo[w]) |-> todo[w][i]] \in [1..Len(todo[w]) -> Requested]
    BY <2>2
  <2>. QED  BY <2>1, <2>3, SeqDef
<1>3. todo = [w \in Worker |-> todo[w]]
  BY <1>1, RequestsRouted
<1>. QED  BY <1>1, <1>2, <1>3 DEF Shape, Shaped

LEMMA MovesKeepShape ==
  ASSUME Shape, NEW w \in Worker, NEW steps, Moves(w, steps), todo' = todo,
         job'[w] # None => Calls(job'[w]) /\ (job'[w].pc \in Routes => job'[w].pc = Op(w))
  PROVE  Shape'
<1>1. ASSUME NEW v \in Worker, job'[v] # None
      PROVE  Shaped(job'[v])
  BY <1>1 DEF Moves, Shape, Shaped, Op
<1>2. DOMAIN job' = Worker /\ todo' \in [Worker -> Seq(Requested)]
  BY DEF Moves, Shape
<1>. QED  BY ONLY <1>1, <1>2 DEF Shape, Shaped, Calls

LEMMA ShapeNext == Shape /\ [SiteNext]_siteVars => Shape'
<1>. SUFFICES ASSUME Shape, [SiteNext]_siteVars PROVE Shape'
  OBVIOUS
<1>1. CASE UNCHANGED <<todo, job>>
  BY <1>1 DEF Shape, Shaped, Calls
<1>2. ASSUME NEW w \in Worker, Begin(w)
      PROVE  Shape'
  <2>1. ASSUME NEW v \in Worker, job'[v] # None
        PROVE  Shaped(job'[v])
    <3>1. CASE v = w
      <4>1. /\ DOMAIN job'[w] = Fields /\ job'[w].req \in Requested
            /\ job'[w].pc \in AccountSteps \cup {job'[w].req.op}
        BY <1>2, BeginMoves
      <4>2. job'[w].req.op \in Routes
        BY <4>1, RequestedRouted
      <4>. QED  BY <3>1, <4>1, <4>2, StepsApart DEF Shaped, Calls
    <3>2. CASE v # w
      BY <1>2, <2>1, <3>2, BeginMoves DEF Shape
    <3>. QED  BY <3>1, <3>2
  <2>2. DOMAIN job' = Worker /\ todo' \in [Worker -> Seq(Requested)]
    BY <1>2, BeginMoves
  <2>. QED  BY ONLY <2>1, <2>2 DEF Shape, Shaped, Calls
<1>3. ASSUME NEW w \in Worker, NEW steps, Moves(w, steps), todo' = todo,
             steps \cap GenerationSteps = {}, steps \cap Routes = {}
      PROVE  Shape'
  <2>1. job'[w] # None => Calls(job'[w]) /\ job'[w].pc \notin Routes
    BY <1>3 DEF Moves, Calls
  <2>. QED  BY <1>3, <2>1, MovesKeepShape
<1>4. ASSUME NEW w \in Worker, Step(w)
      PROVE  Shape'
  <2>1. Op(w) \in Routes
    BY <1>4, AccountMoves, RequestedRouted DEF Moves, Shape, Shaped, Op
  <2>2. HandlerOf(Op(w)) \in AccountSteps \cup {Op(w)}
    BY <2>1, HandlerSteps
  <2>3. Moves(w, AccountSteps \cup {HandlerOf(Op(w))}) /\ todo' = todo
    BY <1>4, AccountMoves
  <2>4. job'[w] # None => job'[w].pc \in AccountSteps \cup {Op(w)}
    BY <2>2, <2>3 DEF Moves
  <2>5. job'[w] # None => Calls(job'[w]) /\ (job'[w].pc \in Routes => job'[w].pc = Op(w))
    BY <2>1, <2>4, StepsApart DEF Calls
  <2>. QED  BY <2>3, <2>5, MovesKeepShape
<1>5. ASSUME NEW w \in Worker, CatalogStep(w)
      PROVE  Shape'
  BY <1>3, <1>5, CatalogMoves, StepsApart
<1>6. ASSUME NEW w \in Worker, StorefrontStep(w)
      PROVE  Shape'
  BY <1>3, <1>6, StorefrontMoves, StepsApart DEF Beyond
<1>7. ASSUME NEW w \in Worker, AlertStep(w)
      PROVE  Shape'
  BY <1>3, <1>7, AlertMoves, StepsApart
<1>8. ASSUME NEW w \in Worker, LearningStep(w)
      PROVE  Shape'
  BY <1>3, <1>8, LearningMoves, StepsApart
<1>9. ASSUME NEW w \in Worker, AgentStep(w)
      PROVE  Shape'
  BY <1>3, <1>9, AgentMoves, StepsApart
<1>10. ASSUME NEW w \in Worker, GenerationStep(w)
       PROVE  Shape'
  <2>1. Moves(w, GenerationSteps) /\ todo' = todo
    BY <1>10, GenerationMoves DEF OutsideGeneration
  <2>2. job'[w] # None => Calls(job'[w]) /\ job'[w].pc \notin Routes
    BY <1>10, <2>1, CallsKept, StepsApart DEF Moves
  <2>. QED  BY <2>1, <2>2, MovesKeepShape
<1>11. ASSUME NEW w \in Worker, Crash(w)
       PROVE  Shape'
  BY <1>3, <1>11, CrashMoves
<1>12. CASE SiteTick
  BY <1>1, <1>12 DEF SiteTick, Tick
<1>13. CASE UNCHANGED siteVars
  BY <1>1, <1>13 DEF siteVars, vars
<1>. QED  BY <1>2, <1>4, <1>5, <1>6, <1>7, <1>8, <1>9, <1>10, <1>11, <1>12, <1>13
          DEF SiteNext, Serve, Die

(* Every job has its shape.                                                *)
THEOREM JobsShaped == SiteSpec => []Shape
<1>. QED  BY ShapeInit, ShapeNext, PTL DEF SiteSpec

(* Account steps and new requests leave the steps of the others alone.     *)
LEMMA AccountHolds ==
  ASSUME Shape, NEW w \in Worker, Begin(w) \/ Step(w), NEW steps,
         steps \cap AccountSteps = {}, steps \cap Routes = {}
  PROVE  Held(steps)
<1>1. CASE Begin(w)
  <2>1. job'[w].req \in Requested /\ job'[w].pc \in AccountSteps \cup {job'[w].req.op}
    BY <1>1, BeginMoves
  <2>2. job'[w].pc \notin steps
    BY <2>1, RequestedRouted
  <2>. QED  BY <1>1, <2>2, BeginMoves DEF Held
<1>2. CASE Step(w)
  <2>1. Op(w) \in Routes
    BY <1>2, AccountMoves, RequestedRouted DEF Moves, Shape, Shaped, Op
  <2>2. HandlerOf(Op(w)) \in AccountSteps \cup {Op(w)}
    BY <2>1, HandlerSteps
  <2>. QED  BY <1>2, <2>1, <2>2, AccountMoves DEF Moves, Held
<1>. QED  BY <1>1, <1>2

-----------------------------------------------------------------------------
(* What a step does to Redis: it stores, deletes or ages one key at most,  *)
(* of a kind that its component uses.                                      *)
AccountKeys == {"blacklist", "lockout", "failed", "link", "otp", "resend"}
AgentKeys == {"pending tool"}

RedisStep(kinds) ==
    \/ redis' = redis
    \/ \E k : /\ k[1] \in kinds
              /\ \/ \E v, ttl : SetEx(k, v, ttl)
                 \/ Delete(k)
                 \/ \E ttl : Expire(k, ttl)

(* Every entry has a value and a time to live.                             *)
Entries == \A k \in DOMAIN redis : DOMAIN redis[k] = {"val", "ttl"}

LEMMA KeysApart ==
  ASSUME NEW kinds, NEW k, k[1] \notin kinds, RedisStep(kinds)
  PROVE  /\ k \in DOMAIN redis' <=> k \in DOMAIN redis
         /\ k \in DOMAIN redis => redis'[k] = redis[k]
BY DEF RedisStep, SetEx, Delete, Expire, Put, Has

LEMMA EntriesKept == ASSUME NEW kinds, Entries, RedisStep(kinds) PROVE Entries'
<1>1. CASE redis' = redis
  BY <1>1 DEF Entries
<1>2. ASSUME NEW k, NEW v, NEW ttl, SetEx(k, v, ttl)
      PROVE  Entries'
  BY <1>2 DEF Entries, SetEx, Put
<1>3. ASSUME NEW k, Delete(k)
      PROVE  Entries'
  BY <1>3 DEF Entries, Delete
<1>4. ASSUME NEW k, NEW ttl, Expire(k, ttl)
      PROVE  Entries'
  BY <1>4 DEF Entries, Expire, Has
<1>. QED  BY <1>1, <1>2, <1>3, <1>4 DEF RedisStep

LEMMA OneKey ==
  ASSUME NEW kinds, NEW k, k[1] \in kinds, NEW v, NEW ttl,
         SetEx(k, v, ttl) \/ Delete(k) \/ Expire(k, ttl)
  PROVE  RedisStep(kinds)
BY DEF RedisStep

(* The accounts.                                                           *)
LEMMA AccountRedis ==
  ASSUME NEW w \in Worker, Step(w)
  PROVE  RedisStep(AccountKeys)
<1>1. ASSUME UNCHANGED redis
      PROVE  RedisStep(AccountKeys)
  BY <1>1 DEF RedisStep
<1>2. ASSUME NEW t, Blacklist(t)
      PROVE  RedisStep(AccountKeys)
  <2>1. SetEx(Blacklisted(t), TRUE, SecondsUntilExpiry(t))
    BY <1>2 DEF Blacklist
  <2>2. Blacklisted(t)[1] \in AccountKeys
    BY DEF Blacklisted, AccountKeys
  <2>. QED  BY <2>1, <2>2, OneKey
<1>3. Counter(w)[1] \in AccountKeys
  BY DEF Counter, Failed, Resend, AccountKeys
<1>4. CASE ClearFailures(w)
  BY <1>4, OneKey DEF ClearFailures, Failed, AccountKeys
<1>5. CASE Increment(w)
  <2>1. \E v, ttl : SetEx(Counter(w), v, ttl)
    BY <1>5 DEF Increment
  <2>. QED  BY <1>3, <2>1, OneKey
<1>6. CASE ExpireCounter(w)
  <2>1. Expire(Counter(w), CounterTtl(w))
    BY <1>6 DEF ExpireCounter
  <2>. QED  BY <1>3, <2>1, OneKey
<1>7. CASE LockAccount(w)
  <2>1. CASE SetEx(Lockout(job[w].req.id), TRUE, Ttl.lockout)
    <3>1. Lockout(job[w].req.id)[1] \in AccountKeys
      BY DEF Lockout, AccountKeys
    <3>. QED  BY <2>1, <3>1, OneKey
  <2>. QED  BY <1>1, <1>7, <2>1 DEF LockAccount
<1>8. CASE MailLink(w)
  <2>1. SetEx(Link(Len(issued')), Who(w), Ttl.link)
    BY <1>8 DEF MailLink
  <2>2. Link(Len(issued'))[1] \in AccountKeys
    BY DEF Link, AccountKeys
  <2>. QED  BY <2>1, <2>2, OneKey
<1>9. CASE MailCode(w)
  <2>1. CASE SetEx(Code(Who(w)), Len(issued'), Ttl.code)
    <3>1. Code(Who(w))[1] \in AccountKeys
      BY DEF Code, AccountKeys
    <3>. QED  BY <2>1, <3>1, OneKey
  <2>. QED  BY <1>1, <1>9, <2>1 DEF MailCode
<1>10. CASE SpendLink(w)
  BY <1>10, OneKey DEF SpendLink, Link, AccountKeys
<1>11. CASE SpendCode(w)
  BY <1>11, OneKey DEF SpendCode, Code, AccountKeys
<1>12. CASE ClearResend(w)
  BY <1>12, OneKey DEF ClearResend, Resend, AccountKeys
<1>13. CASE RotateRefreshToken(w) \/ RevokeAccess(w) \/ RevokeRefresh(w) \/ SpendAccess(w)
  BY <1>1, <1>2, <1>13 DEF RotateRefreshToken, RevokeAccess, RevokeRefresh, SpendAccess
<1>14. CASE UNCHANGED redis
  BY <1>1, <1>14
<1>. QED  BY <1>4, <1>5, <1>6, <1>7, <1>8, <1>9, <1>10, <1>11, <1>12, <1>13, <1>14
          DEF Step, LoginStep, SessionStep, SecretStep, UserStep, CheckLock, WrongPassword,
          PasswordChecked, DecodeToken, LoadUser, IssueSession, CheckLink, CheckCode,
          CheckOldPassword, FlushUpdate, CommitUpdate, CheckUnique, WriteUnique,
          IntegrityError, LoadTarget, EnsureSafe, ApplyAdminChange

(* The catalogue, the knowledge base and the agent.                        *)
LEMMA CatalogRedis ==
  ASSUME NEW w \in Worker, CatalogStep(w)
  PROVE  RedisStep({"pending"})
<1>1. CASE StorePending(w)
  BY <1>1, OneKey DEF StorePending, Pending
<1>2. CASE ClaimPending(w)
  BY <1>2, OneKey DEF ClaimPending, Pending, RedisStep
<1>3. CASE UNCHANGED redis
  BY <1>3 DEF RedisStep
<1>. QED  BY <1>1, <1>2, <1>3 DEF CatalogStep, CommandStep, ProductStep, CouponStep,
             PlanChange, RecheckPending, ExecuteChange, ReadProduct, PatchProduct,
             DelistProduct, SellProduct, ReadCoupon, WriteCoupon

LEMMA LearningRedis ==
  ASSUME NEW w \in Worker, LearningStep(w)
  PROVE  RedisStep({"question"})
<1>1. CASE CacheQuestion(w)
  <2>1. CASE SetEx(Question, job[w].row, Ttl.query)
    <3>1. Question[1] \in {"question"}
      BY DEF Question
    <3>. QED  BY <2>1, <3>1, OneKey
  <2>. QED  BY <1>1, <2>1 DEF CacheQuestion, RedisStep
<1>2. CASE UNCHANGED redis
  BY <1>2 DEF RedisStep
<1>. QED  BY <1>1, <1>2 DEF LearningStep, ReviewStep, OutsideLearning, ReadAnswer,
             WriteAnswer, EmbedAnswer, LearnAnswer, CreateDocument, ImportDocuments,
             ReadDocument, EmbedDocument, WriteDocument, DropDocument, SearchCache,
             EmbedQuestion, MatchDocuments

LEMMA AgentRedis ==
  ASSUME NEW w \in Worker, AgentStep(w)
  PROVE  RedisStep(AgentKeys)
<1>1. Own(w)[1] \in AgentKeys
  BY DEF Own, PendingToken, AgentKeys
<1>2. CASE StoreCall(w)
  <2>1. SetEx(Own(w), OwnCall(w), PendingTtl)
    BY <1>2 DEF StoreCall
  <2>. QED  BY <1>1, <2>1, OneKey
<1>3. CASE Delete(Own(w))
  BY <1>1, <1>3, OneKey
<1>4. CASE UNCHANGED redis
  BY <1>4 DEF RedisStep
<1>. QED  BY <1>2, <1>3, <1>4 DEF AgentStep, TurnStep, GateStep, StartTurn, Intake,
             HandOver, EmergencyText, Route, RunReadTool, Retrieve, Verify, Respond,
             StartOrder, Resume, DenyGuest, Interrupt, Decision, ClaimCall, ApplyCall,
             KeepResult, Enter

LEMMA EntriesNext == Shape /\ Entries /\ [SiteNext]_siteVars => Entries'
<1>. SUFFICES ASSUME Shape, Entries, [SiteNext]_siteVars PROVE Entries'
  OBVIOUS
<1>1. CASE UNCHANGED redis
  BY <1>1 DEF Entries
<1>2. ASSUME NEW w \in Worker, Step(w) \/ CatalogStep(w) \/ LearningStep(w) \/ AgentStep(w)
      PROVE  Entries'
  BY <1>2, AccountRedis, CatalogRedis, LearningRedis, AgentRedis, EntriesKept
<1>3. CASE SiteTick
  BY <1>3 DEF SiteTick, Tick, Entries
<1>4. ASSUME NEW w \in Worker, StorefrontStep(w)
      PROVE  UNCHANGED redis
  BY <1>4, StorefrontMoves DEF Beyond
<1>5. ASSUME NEW w \in Worker, AlertStep(w)
      PROVE  UNCHANGED redis
  BY <1>5, AlertMoves DEF Elsewhere
<1>6. ASSUME NEW w \in Worker, GenerationStep(w)
      PROVE  UNCHANGED redis
  BY <1>6, GenerationMoves DEF OutsideGeneration
<1>7. ASSUME NEW w \in Worker, Begin(w) \/ Crash(w)
      PROVE  UNCHANGED redis
  BY <1>7, BeginMoves, CrashMoves
<1>8. CASE UNCHANGED siteVars
  BY <1>1, <1>8 DEF siteVars, vars
<1>. QED  BY <1>1, <1>2, <1>3, <1>4, <1>5, <1>6, <1>7, <1>8 DEF SiteNext, Serve, Die

-----------------------------------------------------------------------------
(* The histories are sequences, of whatever they record.                   *)
IsSequence(s) == Len(s) \in Nat /\ s = [i \in 1..Len(s) |-> s[i]]

LEMMA AppendIs ==
  ASSUME NEW s, IsSequence(s), NEW e
  PROVE  /\ IsSequence(Append(s, e))
         /\ Len(Append(s, e)) = Len(s) + 1
         /\ DOMAIN s = 1..Len(s)
         /\ DOMAIN Append(s, e) = 1..(Len(s) + 1)
         /\ Append(s, e)[Len(s) + 1] = e
         /\ \A i \in DOMAIN s : Append(s, e)[i] = s[i]
<1>. DEFINE S == {s[i] : i \in 1..Len(s)} \cup {e}
<1>1. s \in Seq(S)
  <2>1. s \in [1..Len(s) -> S]
    BY DEF IsSequence
  <2>. HIDE DEF S
  <2>. QED  BY <2>1, SeqDef DEF IsSequence
<1>. HIDE DEF S
<1>2. e \in S
  BY DEF S
<1>3. /\ Append(s, e) \in Seq(S)
      /\ Len(Append(s, e)) = Len(s) + 1
      /\ \A i \in 1..Len(s) : Append(s, e)[i] = s[i]
      /\ Append(s, e)[Len(s) + 1] = e
  BY <1>1, <1>2, AppendProperties
<1>4. DOMAIN s = 1..Len(s)
  BY <1>1, LenProperties
<1>5. Append(s, e) = [i \in 1..Len(Append(s, e)) |-> Append(s, e)[i]] /\ Len(Append(s, e)) \in Nat
  BY <1>3, LenProperties
<1>. QED  BY <1>1, <1>3, <1>4, <1>5 DEF IsSequence

LEMMA EmptyIs == IsSequence(<<>>)
BY DEF IsSequence

LEMMA ConcatIs ==
  ASSUME NEW s, IsSequence(s), NEW n \in Nat, NEW t, t = [i \in 1..n |-> t[i]]
  PROVE  /\ IsSequence(s \o t)
         /\ DOMAIN s = 1..Len(s) /\ Len(s) \in Nat
         /\ DOMAIN (s \o t) = 1..(Len(s) + n)
         /\ \A i \in DOMAIN s : (s \o t)[i] = s[i]
         /\ \A i \in DOMAIN (s \o t) \ DOMAIN s : i - Len(s) \in 1..n /\ (s \o t)[i] = t[i - Len(s)]
<1>. DEFINE S == {s[i] : i \in 1..Len(s)} \cup {t[i] : i \in 1..n}
<1>1. s \in Seq(S) /\ Len(s) \in Nat
  <2>1. s \in [1..Len(s) -> S]
    BY DEF IsSequence
  <2>. HIDE DEF S
  <2>. QED  BY <2>1, SeqDef DEF IsSequence
<1>2. t \in Seq(S)
  <2>1. t \in [1..n -> S]
    OBVIOUS
  <2>. HIDE DEF S
  <2>. QED  BY <2>1, SeqDef
<1>. HIDE DEF S
<1>3. DOMAIN s = 1..Len(s) /\ DOMAIN t = 1..Len(t) /\ Len(t) \in Nat /\ DOMAIN t = 1..n
  BY <1>1, <1>2, LenProperties
<1>4. Len(t) = n
  BY <1>3
<1>5. /\ s \o t \in Seq(S)
      /\ Len(s \o t) = Len(s) + n
      /\ \A i \in 1..(Len(s) + n) : (s \o t)[i] = IF i <= Len(s) THEN s[i] ELSE t[i - Len(s)]
  BY <1>1, <1>2, <1>4, ConcatProperties
<1>6. s \o t = [i \in 1..Len(s \o t) |-> (s \o t)[i]] /\ DOMAIN (s \o t) = 1..Len(s \o t)
  BY <1>5, LenProperties
<1>. QED  BY <1>1, <1>3, <1>5, <1>6 DEF IsSequence

=============================================================================
