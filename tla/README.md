# Qiki in TLA+

Qiki is a gas and water shop with a chat assistant: a FastAPI backend over
PostgreSQL and Redis, and a Next.js client. This directory models its backend
(`src/backend/app`, "`app/`" below): TLA+ modules, TLC configurations, and
theorems checked by TLAPS.

## Inventory

Every request runs in one asyncio task with one SQLAlchemy session
(`app/db/session.py`, no autoflush, committed when the endpoint has returned).
Requests interleave at every `await`: a query, a Redis call, a mail, a call of a
model. The image starts one uvicorn process; what the database and Redis protect
holds for any number of processes, and what lives in a process (the best sellers,
the chain of providers) is modelled for one. Shared state is PostgreSQL (READ
COMMITTED unless a transaction says otherwise), Redis and those caches.
Components interact by calling each other's service within the caller's session,
by reading rows that other sessions wrote, and through the users table, the
tokens and the blacklist that every authenticated route consults.

| Component | State | Operations | Hard behaviours | Correct when | Modelled in |
|---|---|---|---|---|---|
| Orders, stock, coupons (`order_service.py`, `coupon_service.py`, `endpoints/orders.py`) | stock and `is_active`, `used_count`, orders | checkout with three attempts, cancel, status update, listing switches | races for stock, coupon, key and number; retry; deadlock; edits that read before they lock; commit after the answer | stock, coupon uses, keys, numbers and statuses agree with the orders; every request ends | `OrderStore`, `OrderBook` |
| Deliveries (`delivery_service.py`) | deliveries, their lines, their driver; the order's status | create, staff update, driver update, assign, roll-up | allocation races; roll-ups that miss each other; two writers of one status | lines never over-allocated; codes unique; the order follows its deliveries | `Fulfilment` |
| Chat assistant and staff routing (`conversation_service.py`, `routing_service.py`) | messages, with the order dialogue in the metadata of answers; the conversation's status and staff | a turn: classify, answer, stream, hand over, note, order; staff actions; closing stale conversations | overlapping turns; a disconnect in a stream; a confirmation repeated or with a change in it; a model that repeats old products; a status changed under a turn | an order holds what the customer said after the last cancellation, a cart loses nothing, a complaint stays with the staff | `ChatCart`, `ChatOrder`, `Chat` |
| Accounts, tokens, admin users (`auth_service.py`, `core/security.py`, `api/v1/dependencies`, `endpoints/admin_users.py`) | users; Redis: blacklist, failed logins, lockout, reset link, OTP | register, login, refresh, logout, profile, change and reset of a password, e-mail code, role, status | check-then-act on Redis keys; expiry; INCR and EXPIRE apart; a count without a lock | a revoked secret stays refused; guessing is bounded; an administrator remains | `Requests`, `Accounts` |
| Admin chat, product edits, coupons (`admin_chat_service.py`, `product_service.py`, `coupon_service.py`) | pending command in Redis, products, coupon, audit log | plan, confirm, patch, delist, coupon update | a row changed between preview, check and write; fields that are valid one by one only | an approved change is applied once, to what was approved; every row can be shown | `CatalogAdmin` |
| Catalogue, wishlists, recommendations (`product_service.py`, `wishlist_service.py`, `recommendation_service.py`, `endpoints/orders.py`) | products, parents, wishlists, the kept best sellers | lists, cards, pages, wishlist, recommendations, best sellers, reorder; create, update and delete products and parents | pages of several queries; a cache; deletions that meet updates | nothing off sale is shown; a deleted parent leaves nothing on sale | `Storefront` |
| Price alerts (`price_alert_service.py`) | subscriptions, tokens, expiry | subscribe, confirm, unsubscribe, notify | expiry against resend; unsubscribing during a run | only confirmed addresses are mailed | `PriceAlerts` |
| Message review, knowledge base, search (`review_service.py`, `knowledge_base_service.py`, `rag/`) | the action on an answer, documents, two vectors of each, the cached vector of a query | vote, approve, reject, learn; create, import, edit, drop; search | reviewers at once; an embedding awaited between read and write; quota | vectors match the text; corrections are learned | `KnowledgeBase` |
| LangGraph agent (`agent/`) | checkpointed thread, pending confirmation in Redis | a turn through the nodes, a write tool that pauses and resumes | state of an earlier run read as this run's; re-execution on resume; overlapping and dying runs | turns bounded; emergencies answered by the constant; the prompted user's call is applied | `AgentThread` |
| Intents, retrieval pipeline, LLM fallback (`intent/`, `rag/`, `llm/`) | the cached chain; the stored answer | classify, check safety, retrieve, generate, stream | failing classifiers and providers, a failure in mid-stream, two detectors of emergencies | one answer has one author; a keyword is answered by the constant | `Generation` |
| E-invoice, insights, MCP server, e-mail, address lookup, evaluation, front end | rows they read, or none | reads and single statements | none of their own | as their unit tests say | not modelled |

`PROJECT.json` lists the same components with their files, and under "hazards"
each point of the code where something hard to test can go wrong, with the
properties that would notice.

## Modules

```
OrderBook <--implements-- OrderStore        Fulfilment        ChatCart
                              |                 |                 |
                          MCOrderStore     MCFulfilment       ChatOrder
                              |                 |                 |
                      OrderStoreProofs  FulfilmentProofs       Chat -- MCChat
                                                                 |
                                                            ChatProofs

Requests -- Accounts -- CatalogAdmin -+- Storefront ----------------+
                                      +- PriceAlerts -- KnowledgeBase -+- AgentThread -+- Site -+- MCSite
                                                                       +- Generation  -+       |
                                                                                         SiteSteps
                                                                                               |
                                          AccountProofs, CatalogProofs, LearningProofs, AnswerProofs
```

A line is EXTENDS. Operators whose comment says "mutant" are plausible bugs in the
definition that follows them; no specification uses them: they show that a
property can fail. Variables called history record what happened, for the
properties only, and no guard reads them.

### Orders

`OrderStore` models checkout, cancellation, status updates and listing switches.
One constant element names a request; a checkout names the order it may create
and an edit the order it changes. Variables and code:

| Variable | Code |
|---|---|
| `stock`, `listed`, `used`, `status`, `number` | committed `products.stock_quantity`, `is_active` / `coupons.active`, `coupons.used_count`, `orders.status`, the counter in `orders.order_number` |
| `holder` | row locks and the advisory lock of order numbers |
| `missed` | rows that others committed since a SERIALIZABLE snapshot: what PostgreSQL needs to raise 40001 |
| `seen`, `saw` | the ORM instances of a session: row values, an edit's order status |
| `pc`, `attempt`, `reply` | where the handler is, its attempts, its answer |

`ResolveUser` is the token dependency, `SetIsolationRefused` and `BeginOrder` the
head of `create_order` (SET TRANSACTION, idempotency lookup), `LockProduct` one
row of `get_many_for_update`, `RefuseCart`/`AcceptCart` the activity and stock
checks, `ApplyCoupon`/`RefuseCoupon` the coupon under its lock,
`CreateWithItems` the order number and the INSERTs, `CommitOrder` the commit in
`get_db`, `SerializationFailure` the retry of `endpoints/orders.py` and of the
chat, `FailOnExpiredUser` the lazy load after a rollback. `ReadOrder`,
`IncrementStock`, `RecheckStatus`, `UpdateStatus`, `CommitEdit` are
`cancel_order` and `update_order_status` with the repository functions they
call. `SwitchListing` is the administrator, `DeadlockVictim` PostgreSQL's 40P01
and `ConnectionLost` a crash of the process or connection; both roll back.
An order is one step of a session at its commit because nobody else sees it
earlier; locks, on the other hand, are taken one statement at a time.

`OrderBook` is what that component promises: orders are placed and amended one
at a time in one step each, on current data, with no sessions. `OrderStore`
maps its tables to it (`Book == INSTANCE OrderBook WITH ...`; sessions, locks and
snapshots are mapped to nothing) and `ImplementsOrderBook` states the refinement.

`Fulfilment` models one order, its deliveries and the three kinds of request
that change them: `LockOrder`, `AllocateLines`, `CommitDelivery`
(`create_delivery`), `ReadDelivery`, `FlushDelivery`, `LoadOrder`,
`LoadSiblings`, `RollUp`, `CommitUpdate` (`update_delivery_status` and
`driver_update_status`, which run the same steps in different orders:
`StepAfter`), and the order service's `ReadOrder`, `WriteOrder`, `CommitMove`;
`AssignDriver` is one statement. `session` holds what a request loaded, and ends
with its transaction. The two writers of `orders.status` meet here; the stock
side of a cancellation is `OrderStore`'s subject.

### The site: accounts, catalogue, alerts, knowledge base, agent, answers

`Requests` is the frame these modules share. `Worker` are handlers that run at the
same time, `todo` the requests each has still to serve, `job` the request it
serves: its route `op`, what the client sent (`req`), the user and secret behind
it, and `pc`, the await it stands at. A step of a worker goes from one await to
the next. `FirstStep` says which routes go through the token dependency, and
`AdminOnly` and `StaffOnly` who may call them. A request carries what its sender
chose; the secret it presents is any that was issued to that user, spent or not.

`Accounts` has `db` (committed users), `redis` (key to value and remaining life),
`issued` (tokens, links and codes, with the life left in them). `DecodeToken` and
`LoadUser` are the dependency of every protected route; `CheckLock`,
`WrongPassword`, `Increment`, `ExpireCounter`, `LockAccount`, `ClearFailures`,
`IssueSession` are a login; `RotateRefreshToken`, `RevokeAccess`,
`RevokeRefresh`, `MailLink`, `MailCode`, `CheckLink`, `CheckCode`, `FlushUpdate`,
`SpendLink`, `SpendCode`, `SpendAccess`, `CommitUpdate` the life of the secrets;
`CheckUnique`, `WriteUnique`, `IntegrityError` registration and profile against
the unique indexes; `LoadTarget`, `EnsureSafe`, `ApplyAdminChange` the
administrators. `Tick` takes one unit off everything that has a life; `Crash`
drops a request with its uncommitted changes and keeps what it did to Redis.

`CatalogAdmin` adds `product`, `coupon`, the `previews` and the `audit` log.
`PlanChange` and `StorePending` answer a command with a token, `ClaimPending`
(GETDEL), `RecheckPending` (comparison with the approved value) and
`ExecuteChange` (update and audit entry, one transaction) confirm it.
`ReadProduct`/`PatchProduct` and `DelistProduct` are the product endpoints,
`ReadCoupon`/`WriteCoupon` the merged coupon, `SellProduct` a checkout as the
catalogue sees it. A session writes only the columns that differ from what it
loaded (`Writes`, `WrittenRow`); a price arrives as text and is always written.
Flush, refresh, validation by the response model and commit are one step, because
the flush has locked the row.

`Storefront` adds `parent` (products that group variants), `saved` (wishlists)
and `best` (the kept best sellers). `Browse` is any list or single product;
`GasCards`, `CardParents`, `CardVariants` and `OpenParent`, `ParentVariants` are
the queries of cards and pages, each its own snapshot; `CheckSaved`,
`InsertSaved`, `Unsave`, `ListSaved` the wishlist; `ViewProduct`, `Recommend` the
recommendations; `CachedBest`, `QueryBest`, `KeepBest` the cache, whose age
counts from before its query; `OpenOrder`, `ReorderLine`, `RebuiltCart` the
reorder; `CreateProduct`, `CreateParent`, `LoadParent`, `PatchParent`,
`LoadVariants`, `DropParent` the administrators.

`PriceAlerts` adds `subs` and the mailed `links`: look-up, insert under the
unique index, mail, commit; open, mark confirmed; unsubscribe; and the run that
builds its prices, lists its recipients once and mails them one by one.

`KnowledgeBase` adds one `answer` under review and the `docs`. Each embedding
call is awaited between the read of a row and the write of what follows from it,
and may be out of quota: `EmbedAnswer`, `LearnAnswer`, `CreateDocument`,
`ImportDocuments`, `ReadDocument`, `EmbedDocument`, `WriteDocument`. A vector is
represented by the text it was made of and the model that made it. A search goes
through the query cache in Redis (`SearchCache`, `EmbedQuestion`,
`CacheQuestion`) to the column of its model (`MatchDocuments`).

`AgentThread` adds `threads`, the latest checkpoint of each thread. `StartTurn`
merges the input into the checkpoint; `Intake`, `HandOver`, `EmergencyText`,
`Route`, `RunReadTool`, `Retrieve`, `Verify`, `Respond` are the nodes, each
writing its checkpoint with its step. `Interrupt`, `Resume`, `Decision`,
`ClaimCall`, `ApplyCall`, `KeepResult` are `tool_executor` for a tool that
writes, with the re-execution of the node on resume. No such tool is wired to an
endpoint yet: that thread is the graph the tests drive. Channels that no node
reads are left out.

`Generation` adds `llm`, the chain the factory builds on its first use, and the
answers `written`. `EmbedMessage`, `AskModel`, `Judge`, `BareCategory` are the
hybrid classifier, `PlanReply` the branches of a turn, `CheckSafety`,
`FindDocuments`, `Generate`, `Stream`, `Disconnect`, `Store` the pipeline.
`Errors` says what each provider raises, `FallbackErrors` what hands over and
`Retried` what is tried again. Of a text only three kinds matter: one with a
keyword of the safety checker, one that only the classifier may take for an
emergency, and any other.

`Site` puts these modules on the same workers, users and clock: one `SiteNext`
whose disjuncts name the component that steps and leave the others alone. It
states what only holds of them together (`ActsWithAuthority`).

### The chat

A message is a record of the cues the service finds in its text (one text may
carry several), the products, quantities and contact details it names, and the
categories the classifier may give it. `ChatCart` has the slots of an order and
what merges, adds, replaces and removes lines. `ChatOrder` is the order flow as
one operator, `OrderReply`: from the state found in the recent answers, the
message and what the model extracted, to the question that is asked or the order
that is placed; its parts follow the order of the code's early returns. `Chat`
has the conversation: `said`, `conv`, the `orders` placed in it, `stock`, and the
`turn` each worker handles. `Receive` reads the conversation, `HandOver`,
`AnswerPlainly` and `StartOrder` follow the classifier, `NoteChange` and
`DecideOrder` follow the extraction, `RepeatOrder` and `PlaceOrder` the order
service (one step, as `OrderBook` promises), `Fail` anything that ends a turn
before its commit; `Act`, `Sweep` and `Pause` are the staff, the closing of idle
conversations and time. A turn commits its messages at its end, but an order
commits the customer's message first. Answers are ordered by commit.

`MCOrderStore`, `MCFulfilment`, `MCSite` and `MCChat` give the constants their
values for TLC. The theorems are in the modules whose names end in `Proofs`, and
in `SiteSteps`, which says what every step of the site has in common.

## Runs

| Run | Shows | Result |
|---|---|---|
| `orders_safety` | Three guest checkouts, two of them one key with different carts, two competing for one coupon use and for the last unit of a product; a confirmation, then a cancellation; a product switched on and off; crashes anywhere. Stock, coupon, keys, numbers and locks stay right, no order sells an unlisted product, `OrderBook` is implemented | passes, 420 thousand states |
| `orders_liveness` | A guest, a chat customer and a signed-in customer lock the same two products in any order, one order is cancelled meanwhile: every request that arrived ends | passes, 19 thousand states |
| `orders_double_cancel` | Two overlapping cancellations restore stock twice | violates `StockAccounting` |
| `orders_resurrected` | A confirmation that overlaps a cancellation overwrites it | violates `ValidTransitionsOnly` |
| `orders_signed_in` | A checkout with a valid token cannot set its isolation level | violates `SignedInServed` |
| `fulfilment_safety` | Three creations race for the lines of an order; staff, driver and order service change statuses one after another; crashes anywhere | passes, 318 thousand states |
| `fulfilment_lost_rollup` | The two last deliveries are completed in overlapping requests; the order is never delivered | violates `OrderRolledUp` |
| `site_safety` | Two workers serve 34 groups of requests that touch the same account, token, counter, product, coupon, address, answer, document, thread or chain, with crashes, expiry, exhausted quotas and failing models: 20 properties | passes, 308 thousand states |
| `alerts_expired_link` | Subscribing again after the window mails the expired link | violates `MailedLinkIsValid` |
| `emergency_generated` | A message only the classifier takes for an emergency is answered by the model | violates `EmergencyIsConstant` |
| `chat_safety` | Fifteen conversations of up to four messages, some by two workers at once, with three behaviours of the extracting model, a disconnect, staff, the sweep, a pause and failing turns | passes, 333 thousand states |
| `chat_summary` | A customer who confirms the summary in two words gets an order in their name | violates `PlacedAsSummarised` |

### What the passing properties say

Orders: `StockAccounting`, `CouponAccounting`, `OneOrderPerKey`,
`NumbersSequential`, `SoldWhileListed` tie the tables to the stored orders;
`LocksFollowTransactions` and `ImplementsOrderBook` say that nothing half done is
visible; `EveryRequestEnds` is liveness. Deliveries: `NoOverAllocation`,
`CodesNeverClash`, `OrderRolledUp`, `TerminalOrderStays`, `EndedDeliveryStays`.

Site. Several of these allow what the code allows: where a check is made without
a lock, overlapping requests may both pass it, and the property says that nothing
but such an overlap does. `SpentOnce` (one-time secrets), `AdminsRemain`,
`ApprovedValueReplaced`, `CouponStaysValid`, `VotesAreReviewed`, `SearchMatchesText`,
`LearnsCorrection` and `TurnsBounded` are of this kind; the history they use
(`overlapped`, `moved`, `seen`, `ver`) records the overlap itself and not its
outcome. `RevokedStaysRefused`, `FailuresCounted`, `AppliedOnce`, `CatalogueReadable`,
`DoubleOptIn`, `PromptedUserApplies`, `KeywordsAnswered` and `WrittenByOne` hold
however requests overlap (`FailuresCounted` counts one further guess for each
request that had passed the lock already). `OffSaleNotShown` bounds what a customer may be shown by the
time their request has run, or by the life of the cache; `DeletedVariantsOff`
exempts variants that were added or switched on after the deletion had read them.

Chat: `NothingFromCancelled`, `AnnouncedAsPlaced`, `ComplaintsReachStaff`,
`CartKept`. The exceptions are stated in the properties: turns that overlap
answer from what they read; a quantity without a product replaces the whole cart.

### Bounds, and why they are enough

Orders. Two products are what a lock circle needs; quantities one and
two and a stock of three make the third checkout fail or succeed depending on
the order. Three checkouts let one repeat a key, one retry behind both others,
and exhaust `MaxAttempts` (three, as in the code). One coupon use makes the
limit bite. Two edits make every pair of edits; a third adds no new pair. In
`Fulfilment`, two order lines with quantities two and one let two deliveries
fill the order and a third compete; two updates of one delivery (staff, driver)
and one of another make both kinds of race; each request runs once, so an
operation repeated is two requests. The start of `Fulfilment` is an order that
is pending or confirmed, without deliveries.

`Follows` and `Apart` say which requests do not overlap. The passing runs keep
edits of one order (status changes of one order, in `Fulfilment`) apart, because
the code does not protect them from each other: the violation runs show what
happens when they overlap. Checkouts and delivery creations overlap with
everything.

Site. Two workers make every pair of overlapping requests, and each worker has up
to three requests, so that one may come before, during and after another. The
groups (`AllScenarios` in `MCSite`) put together the routes that share state:
all others commute, being about different rows and keys. `FailLimit` is two,
so that the limit is met below, at and above it; `OtpLimit` one; lifetimes are one or two ticks
(`Short`) in the order of the real ones, so that an access token, a lock and a
code end before a refresh token, a counter and a link, and each can end
between any two steps. `BestTtl` two lets a kept answer be fresh, old and
renewed. `MaxTurns` two is passed by a third turn. The six `Deployments` are the
shapes of a chain: Gemini and Groq in either order, vLLM before each of them,
Ollama alone, and a provider whose key is missing. `Tick` needs no bound: it is
enabled only while a secret or a key of Redis has life left.

Chat. One gas and one water bottle, with stocks of two and one, let a cart be
mixed, exchanged and sold out. Each message of `MCChat` is a text a customer
writes, given above it in a comment, with the cues the service's patterns find in
it. `Recent` is ten, as in the code, and no conversation of the run is longer, so
nothing falls out of the window. `MaxPauses` and `MaxActs` are one: a
conversation goes stale, or the staff acts, at any point of it. Both served
addresses have the ward and quarter the service asks for; an address that is not
served is refused by `ChatOrder`, and no conversation of the run gives one.

Deadlock checking is off where all requests may be done (`Fulfilment`, `Site`,
`Chat`); in `OrderStore` a listing switch is always possible once locks are free,
so TLC checks there that no state is stuck.

### Fairness

`FairSpec` of `OrderStore` assumes weak fairness of the steps of a request that
arrived (asyncio runs every ready task, PostgreSQL grants queued locks) and of
the deadlock detector. It assumes nothing of arrivals, of `ReadOrder` (an edit
that was not sent), of administrators, of crashes. Weak fairness is enough because
a lock wanted is free again after finitely many steps of finitely many requests
and nobody can take it back forever: attempts are bounded. A handler of `Site`
or `Chat` retries nothing without end and waits for one row at most, whose holder
waits for none: that every one ends is a consequence of their shape, and no
liveness property is stated for them.

## Findings

1. `cancel_order` reads the order without a lock and restores stock before it
   writes the status, so overlapping cancellations restore it twice
   (`orders_double_cancel`).
2. `update_status` checks the status its session loaded, so an overlapping update
   revives a cancelled order, whose stock was already returned
   (`orders_resurrected`).
3. A valid token makes the checkout's dependencies query on its session before
   SET TRANSACTION; PostgreSQL answers 25001, which is not retried
   (`orders_signed_in`). The chat commits first and is not affected, but a retry
   after a rollback reads an expired user: `FailOnExpiredUser`.
4. The roll-up takes no order lock, so two completions miss each other
   (`fulfilment_lost_rollup`).
5. `subscribe` mails a pending subscription's link again without renewing it: after
   its window the address can no longer be confirmed (`alerts_expired_link`).
6. The pipeline answers with the emergency constant only where it finds one of its
   own keywords; an emergency that only the classifier sees is answered by the
   model, against the comment of the branch (`emergency_generated`).
7. With a payment method known, up to three words that are not on a short list are
   the customer's name: the words of the confirmation replace the name that the
   summary showed (`chat_summary`).

The models also contain, without a run of their own: streams of Groq, vLLM and
Ollama that are refused raise `httpx.ResponseNotRead` and never fall back
(`unread` in `Generation`); `tool_results` of the agent are never reset, so after
a tool once ran no document reaches the model (`Respond` in `AgentThread`); a
resumed write tool stores its pending record again before it claims it; a
repeated confirmation looks past the placed order to the cart before it; a parent
that is switched off by an update leaves its variants on sale.

What holds is the larger part: checkout itself never oversells, never uses a
coupon beyond its limit, never stores two orders for one key, never skips or
repeats a number, and never leaves a lock or half an order behind; revoked
tokens stay refused for exactly as long as they would be accepted; a confirmed
admin command is applied at most once; no answer mixes two models.

## Proofs

Every safety property of a passing run is a theorem. The theorems hold for every
value of the constants that meets the assumptions of the modules: any number of
workers, requests, products, users and deliveries, any lifetimes, limits and
quantities, any sequence of requests per worker, any messages of customers and
anything a model may extract of them within `Extractions`. The named
assumptions say what the schemas of requests and the configuration say
(`OrderStoreAssumption`, `FulfilmentAssumption`, `RequestsRouted`,
`LimitsPositive`, `ServiceAssumption`, `AccountsAssumption`,
`CatalogueAssumption`, `LifetimeCounted`, `KnowledgeAssumption`, `TurnsCounted`,
`DeploymentsNamed`, `ChatAssumption`), what the rules of the chat return
(`NamesAssumption`: a bare category is no product; `MessageAssumption`: a
product the rules read is one the text mentions or matches;
`ContactsAssumption`: an account has no cart), or that `None` is not one of the
values it stands beside (`NoneIsNoJob`, `NoneIsNoStatus`). TLC evaluates each of
them on the runs.

| Module | Theorems | Hypothesis |
|---|---|---|
| `OrderStoreProofs` | `TypeCorrect`, `KeysUnique`, `CouponsAccounted`, `NumbersInSequence`, `LocksCorrect`, `ListedWhenSold` | none |
| | `StockAccounted`, `TransitionsValid` | `Serialised` |
| | `Refinement`: `OrderStore` implements `OrderBook` | `Serialised` |
| `FulfilmentProofs` | `TypeCorrect`, `CodesAreFree`, `CodesAreSequential` | none |
| | `SharesWithinOrder`, `EndedDeliveriesStay` | `UpdatesApart` |
| | `OrderStaysRolledUp`, `TerminalOrdersStay` | `StatusChangesApart` |
| `SiteSteps` | `JobsShaped` | none |
| `AccountProofs` | `TypeCorrect`, `RevokedRefused`, `SecretsSpentOnce`, `FailuresAreCounted`, `AuthorityHolds`, `AnAdminRemains` | none |
| `CatalogProofs` | `ProductsReadable`, `DeletedVariantsStayOff`, `ChangesAppliedOnce`, `ApprovedReplaced`, `CouponsStayValid`, `OnlyOnSaleShown` | none |
| `LearningProofs` | `OptInIsDouble`, `VotesReachReviewers`, `SearchFindsStoredText`, `CorrectionIsLearned` | none |
| `AnswerProofs` | `OneModelWrites`, `EmergenciesAnswered`, `OnlyPromptedApply`, `TurnsStayBounded` | none |
| `ChatProofs` | `TypeCorrect`, `NothingComesBack`, `AnnouncementsMatch`, `HandedOverStay`, `CartStays` | none |

A hypothesis says which requests do not overlap: two edits of one order
(`Serialised`), two updates of one delivery (`UpdatesApart`), two status changes
of one order (`StatusChangesApart`). Each is needed: the runs that expect a
violation are counterexamples without it. They are theorems of the form
hypothesis => (Spec => []Inv), not assumptions of a module.

### Orders

The properties are not inductive. `IInv` strengthens them: control points
(`StageInv`), attempts left (`BudgetInv`), what is locked when (`LockInv`), that
what was read under a lock is still what the table holds (`FreshInv`), that an
accepted cart stays listed and covered until it commits (`CartInv`), that a
checkout whose lookup missed an order with its key has a snapshot too old to draw
a number (`KeyInv`), and that the number drawn under the advisory lock stays the
next (`NumberInv`). The one fact behind `KeyInv` is worth a reader's time: the
unlocked idempotency lookup is safe because every order also writes the day's
number range, so a snapshot that missed a twin is refused at the number.
`StepCases` splits a step once by what it does to tables, locks and sessions,
and each `...Step` lemma then treats one part of the invariant.
Stock needs more (`EditInv`, `WorksAlone`): with edits apart, what an edit read
is still true when it writes. `UnitsAdd` and `DisjointUnion` count the units of
live orders. For the refinement, commits of checkouts map to `Place`, commits of
edits to `Amend`, listing switches to `Switch`, and every other step to a stutter.

### Deliveries

`Core` holds whatever overlaps: a creation holds the order row from its first
read to its commit (`LockInv`), so the deliveries it counted are still all there
are, and the next code is free (`CodeInv`). With updates of one delivery apart,
what an update asks for is still a transition of the delivery (`WantInv`) and the
shares leave room for a creation that was accepted (`FitInv`); updates only ever
give shares back. With all status changes apart, the committed order is always
its own roll-up (`SettledInv`), and what a request loaded without a lock can only
have been overtaken by creations (`SnapshotInv`, `LoadedInv`), which change
nothing that its roll-up says.

### The site

`SiteSteps` proves once, for all components, which steps a handler can go to
next, what a job keeps (`Moves`) and which variables and kinds of Redis keys the
steps of a component leave alone (`...Moves`, `...Redis`); `Shape` is the
invariant behind it. A proof about one component splits a step into its own
actions and "the others", and never opens the actions of the others.

Hardly any handler of the site holds a lock from its check to its write, so each
invariant says what an earlier check still means now:

* Catalogue. `Evolved`: a row read earlier equals the stored one unless its
  version has grown; validation at the write then makes `CatalogueReadable`
  inductive, and the comparison before `ExecuteChange` gives
  `ApprovedValueReplaced`. `TokensOnce`: the token of a command is in Redis, or
  held by one handler, or in the audit log, and GETDEL moves it from the first to
  the second. `DropsKept` follows the rows a deletion had read, `ShelfKept` the
  time a product has been off sale since the query that found it, with the age of
  the cache beside it.
* Alerts and knowledge base. `AlertInv`: who confirms holds an opened link, and
  an open insertion excludes another for its address. `AnswerInv`, `LibraryInv`:
  a row in a handler is the stored one as long as the version is the same, and a
  vector in a handler is of the text it will write.
* Agent and answers. `GenerationInv`: a call has words of the provider it is at,
  or of none, and past the safety checker its text has no keyword. `AgentInv`:
  what the nodes found in a message is true of the message of this run, although
  the thread is checkpointed by others. `TurnInv` counts: of the runs under way at
  most one began alone, and every run past its intake has counted the answers of
  all that did; what dies uncounted has not answered.
* Accounts. `AccountInv` gives types and says which routes come to which step.
  `RefusedKept`: the key of a revoked token lives at least as long as the token
  (`Refused`); a refresh rotates before it issues. `SpentKept`: a spent secret is
  gone from Redis for good (`Gone`), and whoever passed its check and has not
  spent it began before it was spent (`CheckedBefore`), which is what `SpentOnce`
  allows. `AuthorityKept`: past the look-up the user still has the role unless a
  change was committed since, so whoever takes the rights of an administrator is
  one that remains.
  `FailuresAreCounted` needs a balance. For an identifier with g guesses, of which
  s are tolerated, and f on the counter, let free be the requests that are neither
  on their way to the counter nor about to lock, trying those past the lock, and
  counting those before their INCR. `Balance`: without the lock, g + free plus
  what the counter lacks to one below the limit is at most s; under it, g + trying
  is; and g never exceeds s by more than what the counter and those on their way
  to it make up for, which is what counts when the lock ends before the counter.
  Every step of a login, a crash and the expiry of either key keep it
  (`GuessMade`, `GuessCounted`, `GuessLocks`, `GuessLost`, `LockEnds`).

### The chat

The proof has two invariants. `ChatInv` is about the conversation: every answer
continues and answers what was said before it, an announced order has the key of
its slots, and what a turn saw escalated is still escalated as long as no person
touched the row. It gives `HandedOverStay` and `AnnouncementsMatch`.

`DataInv` is about what messages, states, turns and orders have in them. `Named(k)`
are the names a cart may have after message k: those the customer gave since the
last cancelled order, where the turns saw one another. `DocKept` says that a state
has no other names, and that it leaves the products of the state it continues
(`Leaves`) unless the customer took them away; `CartKeptFor` says the same of a cart
about to be placed and of an order, and that each of its lines has a product and a
quantity, so that what is taken out of the stock is a number and was there. The
argument has three parts:

* The cart. For each operation of `ChatCart`, a lemma says that it stays within a
  set of names (`Lines`) and keeps a set of products (`SlotsOver`): `MergedOver`,
  `AppendItemsOver`, `DropIncompleteOver`, `SpokenOver`, ... These are folds, and
  what a fold computes is otherwise an induction that the provers cannot
  instantiate. `FoldGrows` and `FoldExists` find the function that the fold is
  defined by; `Climb` shows by the least counterexample that its value stays in a
  set that every step stays in; the `...Stay` lemmas say so of each fold.
* The answer. `OrderReplyAnswers` goes through the branches of `OrderReply`, one
  lemma for each way a message is understood (`ChangedOver`, `ChosenProductOver`,
  `ConfirmedChangeOver`, `AddedOrReplacedOver`) and each check (`CheckedAnswers`,
  `OfferedAnswers`): from a state within P it makes a state or an order within P that
  keeps C, the products the customer has not taken away (`Careful`).
* The conversation. A state found in the recent answers may have a name only from
  before its own question, so `NamesStay` is needed: whatever it names may still
  be named now, because between it and the new message no cancellation can lie
  that the turn has read. `Grown` says what entries keep when others are added and
  they age.

The less obvious strengthenings were checked by TLC before they were proved
(`SpentKept`, `GuessesKept`, `TurnInv` on `site_safety`'s model, `DataInv` on
`chat_safety`'s). The proofs also corrected
the models: a registration takes an id
that nobody has, `logout` has a place of its own between its two tokens, and the
prompt of a write tool names the user and the call it shows.

### Only model-checked

* `EveryRequestEnds`: liveness under fairness, which needs ENABLED.
* What the violation runs show, which is false in general.

## Not modelled

* Orders: prices, fees and discounts; a coupon's dates, minimum order and per-user
  limit (the active flag and the usage limit stand for "may be refused"); queries,
  which change nothing; notes, timestamps, coordinates; more than one day of order
  numbers and more than one coupon.
* Chat: the wording of answers, product cards and price lists; the text rules
  behind the cues (a message is given with its cues); the ids and timestamps that
  would order answers committed at the same instant.
* Accounts and storefront: rate limits per client address; password hashing;
  filters, sorting, pages, descriptions and images of products; the order and the
  scores of recommendations.
* Knowledge base and answers: ranking, the two local embedding models, the
  reranker (off by default), prompts, token counts and costs, retrieved documents.
  Embedding, language models, PostgreSQL and Redis are external: modelled by how
  the code uses them, any failure they may raise included.
* E-invoice (a stub provider with one guard), insights and dashboards (read-only
  aggregation), the MCP server (read-only tools), e-mail and address lookup (I/O
  and text), offline evaluation and benchmarks, migrations, and the front end,
  which keeps no shared state.

Chat turns and site handlers are separate compositions: they share only the
orders, which `Chat` takes from `OrderBook`'s promise, and the text of an answer,
which neither reads from the other.

## State of the work

Modelled, checked and proved: the orders (`OrderStore`, `OrderBook`), the deliveries
(`Fulfilment`), the site (`Accounts`, `CatalogAdmin`, `Storefront`, `PriceAlerts`,
`KnowledgeBase`, `AgentThread`, `Generation`) and the chat (`ChatCart`, `ChatOrder`,
`Chat`). What the text rules behind the cues find in a message, and the
composition of the chat with the sessions of `OrderStore`, are the places where
the models could grow next.
