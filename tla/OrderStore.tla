----------------------------- MODULE OrderStore -----------------------------
(***************************************************************************)
(* Orders, stock and coupons of the Qiki shop, and the requests that race  *)
(* on them: guest, signed-in and chat checkouts (OrderService.create_order *)
(* under SERIALIZABLE, retried on SQLSTATE 40001), customer cancellations  *)
(* and staff status updates (READ COMMITTED, read-check-write), and the    *)
(* administrator's listing switches.                                       *)
(*                                                                         *)
(* The committed tables are stock, used, listed, status and number.  Every *)
(* request runs in one database session; what it has read is in `seen` and *)
(* what it has locked is in `holder`.  A snapshot is not copied: `missed`  *)
(* is the set of rows that other sessions committed since it was taken,    *)
(* which is all PostgreSQL compares to raise a serialization failure.      *)
(***************************************************************************)
EXTENDS Naturals, FiniteSets

CONSTANTS
  Product,       \* sellable product variants
  Checkout,      \* checkout requests; each names the order it may create
  Edit,          \* status edits: customer cancellations, staff updates
  Chat,          \* the checkouts that come from the chat assistant
  SignedIn,      \* the checkouts that carry a valid access token
  WithCoupon,    \* the checkouts that carry the coupon code
  Key,           \* Key[c]: the Idempotency-Key of checkout c
  Cart,          \* Cart[c][p]: quantity of p requested by c, over all lines
  InitialStock,  \* InitialStock[p]: units of p on hand at the start
  UsageLimit,    \* usage_limit of the coupon
  Target,        \* Target[e]: the order edited by e
  NewStatus,     \* NewStatus[e]: the status e asks for
  Staff,         \* the edits sent through the staff endpoint
  Follows,       \* <<e, f>>: edit f is sent only after e ended
  Switchable,    \* the rows an administrator activates and deactivates
  Coupon,        \* the coupon row
  Numbers,       \* the advisory lock and key range of the day's order numbers
  Free           \* the holder of a lock nobody holds

Request  == Checkout \cup Edit
Resource == Product \cup {Coupon}
Lockable == Resource \cup {Numbers} \cup Checkout  \* an order row is named by its checkout

Status == {"pending", "confirmed", "shipping", "delivered", "cancelled"}

ASSUME OrderStoreAssumption ==
  /\ IsFiniteSet(Checkout) /\ IsFiniteSet(Product)
  /\ Chat \subseteq Checkout /\ SignedIn \subseteq Checkout
  /\ WithCoupon \subseteq Checkout \ Chat
  /\ Cart \in [Checkout -> [Product -> Nat]]
  /\ InitialStock \in [Product -> Nat]
  /\ UsageLimit \in Nat
  /\ Target \in [Edit -> Checkout]
  /\ NewStatus \in [Edit -> Status \ {"pending"}]
  /\ Staff \subseteq Edit
  /\ \A e \in Edit \ Staff : NewStatus[e] = "cancelled"
  /\ Checkout \cap Edit = {}
  /\ (Resource \cup {Numbers}) \cap Checkout = {}
  /\ Switchable \subseteq Resource
  /\ Coupon \notin Product /\ Numbers \notin Resource
  /\ Free \notin Request

(* How many times create_order is attempted on serialization failures.     *)
MaxAttempts == 3

VARIABLES
  stock,    \* products.stock_quantity
  used,     \* coupons.used_count
  listed,   \* products.is_active, coupons.active
  status,   \* orders.status, "none" while there is no such order
  number,   \* counter part of orders.order_number, 0 while there is none
  holder,   \* who holds each row lock and the advisory lock
  missed,   \* rows committed by others since the checkout's snapshot
  seen,     \* seen[r][x]: the value of row x loaded by request r
  saw,      \* saw[e]: the status loaded by edit e
  pc,       \* control point of each request
  attempt,  \* attempts begun by each checkout
  reply     \* the answer of each request

db   == <<stock, used, listed, status, number>>
vars == <<stock, used, listed, status, number, holder, missed, seen, saw, pc,
          attempt, reply>>

(***************************************************************************)
(* Vocabulary.                                                             *)
(***************************************************************************)
Allowed == [s \in Status |->
  CASE s = "pending"   -> {"confirmed", "cancelled"}
    [] s = "confirmed" -> {"shipping", "cancelled"}
    [] s = "shipping"  -> {"delivered", "cancelled"}
    [] OTHER           -> {}]

Stored(c) == status[c] # "none"
MultiItems(c) == {p \in Product : Cart[c][p] > 1}  \* mutant: > 1 for > 0
Items(c)  == {p \in Product : Cart[c][p] > 0}

(* Mutant: the stock of a confirmed order is forgotten.                    *)
PendingRestocked(e) ==
  IF NewStatus[e] = "cancelled" /\ saw[e] = "pending" THEN Items(Target[e]) ELSE {}

(* The rows a request writes besides the order row itself.                 *)
Restocked(e) == IF NewStatus[e] = "cancelled" THEN Items(Target[e]) ELSE {}
Written(r) ==
  IF r \in Edit THEN Restocked(r)
  ELSE Items(r) \cup {Numbers} \cup (IF r \in WithCoupon THEN {Coupon} ELSE {})

InTx(r) == pc[r] \in {"locking", "coupon", "inserting", "restocking",
                      "updating", "answered"}

(* The locks r may be waiting for.                                         *)
Wanted(r) ==
  CASE pc[r] = "locking"    -> {p \in Items(r) : holder[p] # r}
    [] pc[r] = "coupon"     -> {Coupon}
    [] pc[r] = "inserting"  -> {Numbers}
    [] pc[r] = "restocking" -> {p \in Restocked(r) : holder[p] # r}
    [] pc[r] = "updating"   -> {Target[r]}
    [] OTHER                -> {}

Nothing == [x \in Resource \cup {Numbers} |-> 0]

Init ==
  /\ stock = InitialStock
  /\ used = 0
  /\ listed = [x \in Resource |-> TRUE]
  /\ status = [c \in Checkout |-> "none"]
  /\ number = [c \in Checkout |-> 0]
  /\ holder = [x \in Lockable |-> Free]
  /\ missed = [c \in Checkout |-> {}]
  /\ seen = [r \in Request |-> Nothing]
  /\ saw = [e \in Edit |-> "none"]
  /\ pc = [r \in Request |-> "arrived"]
  /\ attempt = [c \in Checkout |-> 0]
  /\ reply = [r \in Request |-> "none"]

(***************************************************************************)
(* PostgreSQL as the code uses it: row locks held to the end of the        *)
(* transaction, snapshots that age when others commit, rollback.           *)
(***************************************************************************)
LockFree(x) == holder[x] = Free

Take(r, x) ==
  /\ LockFree(x)
  /\ holder' = [holder EXCEPT ![x] = r]

(* Mutant: pg_advisory_lock instead of pg_advisory_xact_lock.              *)
RowsReleased(r) ==
  [x \in Lockable |-> IF holder[x] = r /\ x # Numbers THEN Free ELSE holder[x]]

Released(r) == [x \in Lockable |-> IF holder[x] = r THEN Free ELSE holder[x]]

(* Open snapshots other than r's own go stale on the rows in W.            *)
Aged(r, W) == [c \in Checkout |-> IF c # r /\ InTx(c) THEN missed[c] \cup W
                                  ELSE missed[c]]

EndTx(r, next, answer) ==
  /\ holder' = Released(r)
  /\ seen' = [seen EXCEPT ![r] = Nothing]
  /\ pc' = [pc EXCEPT ![r] = next]
  /\ reply' = [reply EXCEPT ![r] = answer]

Abort(r, next, answer) ==
  /\ EndTx(r, next, answer)
  /\ missed' = [c \in Checkout |-> IF c = r THEN {} ELSE missed[c]]
  /\ UNCHANGED <<db, saw, attempt>>

Goto(r, next) == pc' = [pc EXCEPT ![r] = next]

-----------------------------------------------------------------------------
(* The request's dependencies: a valid token makes get_current_user select *)
(* the user on the request's own session, which begins its transaction.    *)
ResolveUser(c) ==
  /\ pc[c] = "arrived"
  /\ Goto(c, IF c \in SignedIn \cup Chat THEN "queried" ELSE "clean")
  /\ UNCHANGED <<db, holder, missed, seen, saw, attempt, reply>>

(* The chat turn commits what it stored before it places the order.        *)
CommitTurn(c) ==
  /\ pc[c] = "queried" /\ c \in Chat
  /\ Goto(c, "clean")
  /\ UNCHANGED <<db, holder, missed, seen, saw, attempt, reply>>

(* SET TRANSACTION ISOLATION LEVEL after a query is SQLSTATE 25001, which  *)
(* the retry does not accept.                                              *)
SetIsolationRefused(c) ==
  /\ pc[c] = "queried" /\ c \notin Chat
  /\ Abort(c, "done", "bad_session")

(* Mutant: the idempotency lookup is missing.                              *)
BeginUnkeyedOrder(c) ==
  /\ pc[c] = "clean"
  /\ attempt' = [attempt EXCEPT ![c] = @ + 1]
  /\ Goto(c, "locking")
  /\ UNCHANGED <<db, holder, missed, seen, saw, reply>>

(* SET TRANSACTION, then the idempotency lookup, which takes the snapshot. *)
BeginOrder(c) ==
  /\ pc[c] = "clean"
  /\ attempt' = [attempt EXCEPT ![c] = @ + 1]
  /\ IF \E d \in Checkout : Stored(d) /\ Key[d] = Key[c]
       THEN Goto(c, "done") /\ reply' = [reply EXCEPT ![c] = "existing"]
       ELSE Goto(c, "locking") /\ UNCHANGED reply
  /\ UNCHANGED <<db, holder, missed, seen, saw>>

(* SELECT ... FOR UPDATE of the cart's products: the rows come in no       *)
(* promised order, one lock at a time.                                     *)
LockProduct(c, p) ==
  /\ pc[c] = "locking"
  /\ p \in Wanted(c) \ missed[c]
  /\ Take(c, p)
  /\ seen' = [seen EXCEPT ![c][p] = stock[p]]
  /\ UNCHANGED <<db, missed, saw, pc, attempt, reply>>

CartLocked(c) == pc[c] = "locking" /\ Wanted(c) = {}

(* Mutants: is_active or the quantity is not checked.                      *)
InStockOnly(c) == \A p \in Items(c) : Cart[c][p] <= seen[c][p]
ListedOnly(c)  == \A p \in Items(c) : listed[p]

InStock(c) == \A p \in Items(c) : listed[p] /\ Cart[c][p] <= seen[c][p]

RefuseCart(c) ==
  /\ CartLocked(c) /\ ~ InStock(c)
  /\ Abort(c, "done", "refused")

AcceptCart(c) ==
  /\ CartLocked(c) /\ InStock(c)
  /\ Goto(c, IF c \in WithCoupon THEN "coupon" ELSE "inserting")
  /\ UNCHANGED <<db, holder, missed, seen, saw, attempt, reply>>

CouponUsableOnceMore == listed[Coupon] /\ used <= UsageLimit  \* mutant: off by one

CouponUsable == listed[Coupon] /\ used < UsageLimit

ApplyCoupon(c) ==
  /\ pc[c] = "coupon" /\ Coupon \notin missed[c]
  /\ CouponUsable
  /\ Take(c, Coupon)
  /\ seen' = [seen EXCEPT ![c][Coupon] = used]
  /\ Goto(c, "inserting")
  /\ UNCHANGED <<db, missed, saw, attempt, reply>>

RefuseCoupon(c) ==
  /\ pc[c] = "coupon" /\ Coupon \notin missed[c] /\ LockFree(Coupon)
  /\ ~ CouponUsable
  /\ Abort(c, "done", "refused")

(* A rollback expires the signed-in user's attributes; current_user.id is  *)
(* then a lazy load outside the async greenlet, and no database error.     *)
UserExpired(c) == c \in SignedIn /\ attempt[c] > 1

FailOnExpiredUser(c) ==
  /\ pc[c] = "inserting" /\ UserExpired(c)
  /\ Abort(c, "done", "expired_user")

(* Mutant: COUNT of the live orders instead of MAX of the numbers.         *)
LiveCount == Cardinality({d \in Checkout : status[d] \notin {"none", "cancelled"}})

LastNumber == CHOOSE n \in {0} \cup {number[d] : d \in Checkout} :
                \A d \in Checkout : number[d] <= n

(* Decrement, order number under the advisory lock, INSERTs, redemption;   *)
(* then the endpoint returns and the response is sent.                     *)
CreateWithItems(c) ==
  /\ pc[c] = "inserting" /\ Numbers \notin missed[c]
  /\ ~ UserExpired(c)
  /\ Take(c, Numbers)
  /\ seen' = [seen EXCEPT ![c][Numbers] = LastNumber + 1]
  /\ Goto(c, "answered")
  /\ reply' = [reply EXCEPT ![c] = "created"]
  /\ UNCHANGED <<db, missed, saw, attempt>>

(* get_db commits after the response.  The ORM writes absolute values.     *)
CommitOrder(c) ==
  /\ pc[c] = "answered"
  /\ stock' = [p \in Product |-> IF p \in Items(c) THEN seen[c][p] - Cart[c][p]
                                 ELSE stock[p]]
  /\ used' = IF c \in WithCoupon THEN seen[c][Coupon] + 1 ELSE used
  /\ status' = [status EXCEPT ![c] = "pending"]
  /\ number' = [number EXCEPT ![c] = seen[c][Numbers]]
  /\ missed' = [Aged(c, Written(c)) EXCEPT ![c] = {}]
  /\ EndTx(c, "done", reply[c])
  /\ UNCHANGED <<listed, saw, attempt>>

(* A row wanted by c was committed by another session since c's snapshot:  *)
(* 40001, for the order numbers once the advisory lock is granted.  Rolled *)
(* back and retried, at most MaxAttempts times in all.                     *)
SerializationFailure(c) ==
  /\ \E x \in Wanted(c) \cap missed[c] : x = Numbers => LockFree(x)
  /\ IF attempt[c] < MaxAttempts THEN Abort(c, "clean", "none")
     ELSE Abort(c, "done", "conflict")

-----------------------------------------------------------------------------
(* cancel_order and update_order_status: the order is read without a lock. *)
Permitted(e, s) ==
  IF e \in Staff THEN NewStatus[e] \in Allowed[s] ELSE s \in {"pending", "confirmed"}

ReadOrder(e) ==
  /\ pc[e] = "arrived"
  /\ \A f \in Edit : <<f, e>> \in Follows => pc[f] = "done"
  /\ IF Stored(Target[e]) /\ Permitted(e, status[Target[e]])
       THEN Goto(e, "restocking") /\ UNCHANGED reply
       ELSE Goto(e, "done") /\ reply' = [reply EXCEPT ![e] = "refused"]
  /\ saw' = [saw EXCEPT ![e] = status[Target[e]]]
  /\ UNCHANGED <<db, holder, missed, seen, attempt>>

(* increment_stock of one line: lock, read the latest committed value.     *)
IncrementStock(e, p) ==
  /\ pc[e] = "restocking"
  /\ p \in Wanted(e)
  /\ Take(e, p)
  /\ seen' = [seen EXCEPT ![e][p] = stock[p]]
  /\ UNCHANGED <<db, missed, saw, pc, attempt, reply>>

(* update_status checks the transition again, on the instance the session  *)
(* already holds, so on the status that was read first.                    *)
RecheckStatus(e) ==
  /\ pc[e] = "restocking" /\ Wanted(e) = {}
  /\ IF NewStatus[e] \in Allowed[saw[e]]
       THEN /\ Goto(e, "updating")
            /\ UNCHANGED <<db, holder, missed, seen, saw, attempt, reply>>
       ELSE Abort(e, "done", "refused")

(* UPDATE orders SET status: waits for the row lock, overwrites the row.   *)
UpdateStatus(e) ==
  /\ pc[e] = "updating"
  /\ Take(e, Target[e])
  /\ Goto(e, "answered")
  /\ reply' = [reply EXCEPT ![e] = "updated"]
  /\ UNCHANGED <<db, missed, seen, saw, attempt>>

CommitEdit(e) ==
  /\ pc[e] = "answered"
  /\ stock' = [p \in Product |-> IF p \in Restocked(e) THEN seen[e][p] + Cart[Target[e]][p]
                                 ELSE stock[p]]
  /\ status' = [status EXCEPT ![Target[e]] = NewStatus[e]]
  /\ missed' = Aged(e, Written(e))
  /\ EndTx(e, "done", reply[e])
  /\ UNCHANGED <<used, listed, number, saw, attempt>>

-----------------------------------------------------------------------------
(* An administrator activates or deactivates a product or the coupon.      *)
SwitchListing(x) ==
  /\ LockFree(x)
  /\ listed' = [listed EXCEPT ![x] = ~ @]
  /\ missed' = Aged(Free, {x})
  /\ UNCHANGED <<stock, used, status, number, holder, seen, saw, pc, attempt, reply>>

(* Sessions waiting on each other in a circle: PostgreSQL aborts one with  *)
(* 40P01, which nobody retries.                                            *)
WaitsFor(r, s) == r # s /\ \E x \in Wanted(r) : holder[x] = s

DeadlockVictim(r) ==
  /\ \E S \in SUBSET Request :
       /\ r \in S
       /\ \A s \in S : (\E t \in S : WaitsFor(s, t)) /\ (\E t \in S : WaitsFor(t, s))
  /\ Abort(r, "done", "deadlock")

(* The process or the connection dies in the middle of a transaction.      *)
ConnectionLost(r) ==
  /\ InTx(r)
  /\ Abort(r, "done", IF reply[r] = "none" THEN "lost" ELSE reply[r])

-----------------------------------------------------------------------------
CheckoutStep(c) ==
  \/ CommitTurn(c) \/ SetIsolationRefused(c) \/ BeginOrder(c)
  \/ \E p \in Product : LockProduct(c, p)
  \/ RefuseCart(c) \/ AcceptCart(c) \/ ApplyCoupon(c) \/ RefuseCoupon(c)
  \/ FailOnExpiredUser(c) \/ CreateWithItems(c) \/ CommitOrder(c)
  \/ SerializationFailure(c)

EditStep(e) ==
  \/ \E p \in Product : IncrementStock(e, p)
  \/ RecheckStatus(e) \/ UpdateStatus(e) \/ CommitEdit(e)

Done == \A r \in Request : pc[r] = "done"

Next ==
  \/ \E c \in Checkout : ResolveUser(c) \/ CheckoutStep(c)
  \/ \E e \in Edit : ReadOrder(e) \/ EditStep(e)
  \/ \E x \in Switchable : SwitchListing(x)
  \/ \E r \in Request : DeadlockVictim(r) \/ ConnectionLost(r)

Spec == Init /\ [][Next]_vars

(* A request that arrived is served: the event loop runs every ready task  *)
(* and PostgreSQL grants queued locks and resolves deadlocks.  Arrivals,   *)
(* administrators and crashes are under no obligation.                     *)
FairSpec ==
  /\ Spec
  /\ \A c \in Checkout : WF_vars(CheckoutStep(c))
  /\ \A e \in Edit : WF_vars(EditStep(e))
  /\ \A r \in Request : WF_vars(DeadlockVictim(r))
-----------------------------------------------------------------------------
(* Every variable keeps its shape, whatever the requests do.               *)
TypeOK ==
  /\ stock \in [Product -> Nat]
  /\ used \in Nat
  /\ listed \in [Resource -> BOOLEAN]
  /\ status \in [Checkout -> Status \cup {"none"}]
  /\ number \in [Checkout -> Nat]
  /\ holder \in [Lockable -> Request \cup {Free}]
  /\ missed \in [Checkout -> SUBSET (Resource \cup {Numbers})]
  /\ seen \in [Request -> [Resource \cup {Numbers} -> Nat]]
  /\ saw \in [Edit -> Status \cup {"none"}]
  /\ pc \in [Request -> {"arrived", "queried", "clean", "locking", "coupon", "inserting",
                         "restocking", "updating", "answered", "done"}]
  /\ attempt \in [Checkout -> 0 .. MaxAttempts]
  /\ reply \in [Request -> {"none", "created", "existing", "updated", "refused", "conflict",
                            "deadlock", "lost", "bad_session", "expired_user"}]

Orders == {c \in Checkout : Stored(c)}
Live   == {c \in Orders : status[c] # "cancelled"}

(* The units of p in the orders of S, told apart by order and position.    *)
Units(S, p) == UNION {{c} \X (1 .. Cart[c][p]) : c \in S}

(* No oversell and no lost unit: what is on hand and what the live orders  *)
(* hold add up to the initial stock (decrement_stock in create_order,      *)
(* increment_stock on cancellation, each exactly once).                    *)
StockAccounting ==
  \A p \in Product : stock[p] + Cardinality(Units(Live, p)) = InitialStock[p]

(* used_count counts exactly the stored orders with the coupon and never   *)
(* passes usage_limit, although it is read before and written after.       *)
CouponAccounting ==
  /\ used = Cardinality(Orders \cap WithCoupon)
  /\ used <= UsageLimit

(* However a client repeats a checkout, one Idempotency-Key makes at most  *)
(* one order (get_by_idempotency_key reads without a lock).                *)
OneOrderPerKey ==
  \A c, d \in Orders : Key[c] = Key[d] => c = d

(* The day's order numbers are 1, 2, 3, ... with no gap and no duplicate,  *)
(* although rolled back checkouts drew numbers too.                        *)
NumbersSequential ==
  {number[c] : c \in Orders} = 1 .. Cardinality(Orders)

(* No order is stored with a product deactivated before the order commits, *)
(* although is_active was checked earlier in the transaction.              *)
SoldWhileListed ==
  [][\A c \in Checkout : Stored(c)' /\ ~ Stored(c) => \A p \in Items(c) : listed[p]]_vars

(* Stored statuses move only along ALLOWED_STATUS_TRANSITIONS, although    *)
(* the check reads an unlocked row.                                        *)
ValidTransitionsOnly ==
  [][\A c \in Orders : status'[c] \in Allowed[status[c]] \cup {status[c]}]_vars

(* A finished request leaves no lock behind, and a request that was        *)
(* answered with an order holds every lock it wrote under until it commits.*)
LocksFollowTransactions ==
  /\ \A x \in Lockable : holder[x] # Free => InTx(holder[x])
  /\ \A r \in Request : pc[r] = "answered" => \A x \in Written(r) : holder[x] = r

(* A checkout with a valid token is served like a guest's: it never ends   *)
(* in an error that the token alone caused.                                *)
SignedInServed ==
  \A c \in SignedIn : reply[c] \notin {"bad_session", "expired_user"}

(* The committed tables change only as if orders were placed, amended and  *)
(* switched one at a time on current data (SERIALIZABLE, FOR UPDATE).      *)
Book == INSTANCE OrderBook WITH
          stock <- stock, used <- used, listed <- listed,
          status <- status, number <- number
ImplementsOrderBook == Book!Spec

(* Every request that arrived is answered: lock queues, retries and        *)
(* deadlocks between carts always end.                                     *)
EveryRequestEnds ==
  \A r \in Request : pc[r] # "arrived" ~> pc[r] = "done"
=============================================================================
