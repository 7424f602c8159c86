-------------------------- MODULE OrderStoreProofs --------------------------
(***************************************************************************)
(* Proofs about OrderStore, for any sets of products, requests and edits,  *)
(* any carts, stock and usage limit.                                       *)
(***************************************************************************)
EXTENDS OrderStore, FiniteSetTheorems, TLAPS

-----------------------------------------------------------------------------
(* The inductive invariant, by topic.                                      *)

(* Which control points a request can be at.                               *)
StageInv ==
  /\ \A c \in Checkout : pc[c] \in {"arrived", "queried", "clean", "locking", "coupon",
                                    "inserting", "answered", "done"}
  /\ \A e \in Edit : pc[e] \in {"arrived", "restocking", "updating", "answered", "done"}

(* A checkout about to begin an attempt has one left.                      *)
BudgetInv ==
  \A c \in Checkout : /\ pc[c] \in {"arrived", "queried"} => attempt[c] = 0
                      /\ pc[c] = "clean" => attempt[c] < MaxAttempts

Accepted(c) == pc[c] \in {"coupon", "inserting", "answered"}

(* Locks belong to open transactions and cover what will be written.       *)
LockInv ==
  /\ \A x \in Lockable : holder[x] # Free => InTx(holder[x])
  /\ \A c \in Checkout : Accepted(c) => \A p \in Items(c) : holder[p] = c
  /\ \A c \in WithCoupon : pc[c] \in {"inserting", "answered"} => holder[Coupon] = c
  /\ \A c \in Checkout : pc[c] = "answered" => holder[Numbers] = c
  /\ \A e \in Edit : pc[e] \in {"updating", "answered"} => \A p \in Restocked(e) : holder[p] = e

(* What was read under a lock is still what the table holds.               *)
FreshInv ==
  /\ \A p \in Product : holder[p] # Free => seen[holder[p]][p] = stock[p]
  /\ holder[Coupon] # Free => seen[holder[Coupon]][Coupon] = used /\ used < UsageLimit

(* An accepted cart and coupon stay available until the order is stored.   *)
CartInv ==
  /\ \A c \in Checkout : Accepted(c) => \A p \in Items(c) : listed[p] /\ Cart[c][p] <= seen[c][p]
  /\ \A c \in WithCoupon : pc[c] \in {"inserting", "answered"} => listed[Coupon]

(* A transaction whose lookup missed an order with its key has a snapshot  *)
(* too old to draw an order number.                                        *)
KeyInv ==
  /\ OneOrderPerKey
  /\ \A c \in Checkout : InTx(c) => \A d \in Orders : Key[d] = Key[c] => Numbers \in missed[c]
  /\ \A c \in Checkout : pc[c] = "answered" => Numbers \notin missed[c]

(* The number drawn under the advisory lock stays the next one.            *)
NumberInv ==
  /\ \A c \in Checkout : ~ Stored(c) => number[c] = 0
  /\ NumbersSequential
  /\ \A c \in Checkout : pc[c] = "answered" => seen[c][Numbers] = Cardinality(Orders) + 1

(* An edit at work has a stored order to edit.                             *)
TargetInv ==
  \A e \in Edit : pc[e] \in {"restocking", "updating", "answered"} => Stored(Target[e])

IInv ==
  /\ TypeOK /\ StageInv /\ BudgetInv /\ LockInv /\ FreshInv /\ CartInv
  /\ TargetInv /\ KeyInv /\ NumberInv /\ CouponAccounting

-----------------------------------------------------------------------------
(* A rollback, whatever its cause: r is done or, as a checkout with        *)
(* attempts left, back before its first statement.                         *)
RolledBack(r) ==
  \E next \in {"clean", "done"} :
  \E answer \in {"none", "created", "existing", "updated", "refused", "conflict", "deadlock",
                  "lost", "bad_session", "expired_user"} :
    /\ pc[r] # "arrived"
    /\ next = "clean" => r \in Checkout /\ attempt[r] < MaxAttempts
    /\ Abort(r, next, answer)

RecheckPassed(e) ==
  /\ pc[e] = "restocking" /\ Wanted(e) = {} /\ NewStatus[e] \in Allowed[saw[e]]
  /\ Goto(e, "updating")
  /\ UNCHANGED <<db, holder, missed, seen, saw, attempt, reply>>

(* Every way a request fails rolls its transaction back.                   *)
LEMMA FailuresRollBack ==
  ASSUME TypeOK
  PROVE  /\ \A c \in Checkout :
              SetIsolationRefused(c) \/ RefuseCart(c) \/ RefuseCoupon(c)
              \/ FailOnExpiredUser(c) \/ SerializationFailure(c) => RolledBack(c)
         /\ \A e \in Edit : RecheckStatus(e) => RecheckPassed(e) \/ RolledBack(e)
         /\ \A r \in Request : DeadlockVictim(r) \/ ConnectionLost(r) => RolledBack(r)
<1>1. ASSUME NEW c \in Checkout,
             SetIsolationRefused(c) \/ RefuseCart(c) \/ RefuseCoupon(c)
             \/ FailOnExpiredUser(c) \/ SerializationFailure(c)
      PROVE  RolledBack(c)
  <2>1. CASE SerializationFailure(c)
    BY <2>1 DEF SerializationFailure, RolledBack, Wanted
  <2>2. CASE ~ SerializationFailure(c)
    BY <1>1, <2>2 DEF SetIsolationRefused, RefuseCart, RefuseCoupon, FailOnExpiredUser,
                      CartLocked, RolledBack
  <2>. QED  BY <2>1, <2>2
<1>2. ASSUME NEW e \in Edit, RecheckStatus(e)
      PROVE  RecheckPassed(e) \/ RolledBack(e)
  BY <1>2 DEF RecheckStatus, RecheckPassed, RolledBack
<1>3. ASSUME NEW r \in Request, DeadlockVictim(r)
      PROVE  RolledBack(r)
  <2>1. Wanted(r) # {}
    BY <1>3 DEF DeadlockVictim, WaitsFor
  <2>2. pc[r] # "arrived"
    BY <2>1 DEF Wanted
  <2>. QED  BY <1>3, <2>2 DEF DeadlockVictim, RolledBack
<1>4. ASSUME NEW r \in Request, ConnectionLost(r)
      PROVE  RolledBack(r)
  <2>1. reply[r] \in {"none", "created", "existing", "updated", "refused", "conflict",
                      "deadlock", "lost", "bad_session", "expired_user"}
    BY DEF TypeOK
  <2>. QED  BY <1>4, <2>1 DEF ConnectionLost, InTx, RolledBack
<1>. QED  BY <1>1, <1>2, <1>3, <1>4

LEMMA StepCases ==
  ASSUME TypeOK, [Next]_vars
  PROVE  \/ UNCHANGED vars
         \/ \E c \in Checkout :
              \/ ResolveUser(c) \/ CommitTurn(c) \/ BeginOrder(c)
              \/ \E p \in Product : LockProduct(c, p)
              \/ AcceptCart(c) \/ ApplyCoupon(c) \/ CreateWithItems(c) \/ CommitOrder(c)
         \/ \E e \in Edit :
              \/ ReadOrder(e) \/ \E p \in Product : IncrementStock(e, p)
              \/ RecheckPassed(e) \/ UpdateStatus(e) \/ CommitEdit(e)
         \/ \E x \in Switchable : SwitchListing(x)
         \/ \E r \in Request : RolledBack(r)
BY FailuresRollBack DEF Next, CheckoutStep, EditStep, Request

(* Numbers without gaps make the MAX of the query the number of orders.    *)
LEMMA LastNumberCounts ==
  ASSUME TypeOK, NumberInv
  PROVE  /\ Cardinality(Orders) \in Nat
         /\ LastNumber = Cardinality(Orders)
<1>1. IsFiniteSet(Orders) /\ Cardinality(Orders) \in Nat
  BY OrderStoreAssumption, FS_Subset, FS_CardinalityType DEF Orders
<1>2. \A d \in Checkout : number[d] \in 0 .. Cardinality(Orders)
  BY <1>1 DEF NumberInv, NumbersSequential, Orders
<1>3. Cardinality(Orders) \in {0} \cup {number[d] : d \in Checkout}
  <2>1. Orders \subseteq Checkout
    BY DEF Orders
  <2>2. CASE Cardinality(Orders) = 0
    BY <2>2
  <2>3. CASE Cardinality(Orders) # 0
    <3>1. Cardinality(Orders) \in 1 .. Cardinality(Orders)
      BY <1>1, <2>3
    <3>2. Cardinality(Orders) \in {number[d] : d \in Orders}
      BY <3>1 DEF NumberInv, NumbersSequential
    <3>. QED  BY <2>1, <3>2
  <2>. QED  BY <2>2, <2>3
<1>4. \A n \in {0} \cup {number[d] : d \in Checkout} :
        (\A d \in Checkout : number[d] <= n) => n = Cardinality(Orders)
  BY <1>1, <1>2, <1>3 DEF TypeOK
<1>5. \A d \in Checkout : number[d] <= Cardinality(Orders)
  BY <1>1, <1>2
<1>6. \E n \in {0} \cup {number[d] : d \in Checkout} :
        \A d \in Checkout : number[d] <= n
  BY <1>3, <1>5
<1>7. /\ LastNumber \in {0} \cup {number[d] : d \in Checkout}
      /\ \A d \in Checkout : number[d] <= LastNumber
  BY <1>6 DEF LastNumber
<1>. QED  BY <1>1, <1>4, <1>7

(* No edit ages the key range of the order numbers.                        *)
LEMMA EditsWriteProducts ==
  ASSUME NEW e \in Edit
  PROVE  Written(e) \subseteq Product /\ Numbers \notin Written(e)
BY OrderStoreAssumption DEF Written, Restocked, Items, Resource

LEMMA WrittenResources ==
  ASSUME NEW r \in Request
  PROVE  Written(r) \subseteq Resource \cup {Numbers}
BY OrderStoreAssumption DEF Written, Restocked, Items, Resource, Request

(* Every step keeps the types: stock never goes below zero because the     *)
(* cart was accepted under the lock that the commit still holds.           *)
LEMMA TypeStep ==
  ASSUME IInv, [Next]_vars
  PROVE  TypeOK'
<1>0. CASE UNCHANGED vars
  BY <1>0 DEF vars, db, IInv, TypeOK, Resource, Request, Lockable
<1>1. ASSUME NEW c \in Checkout, ResolveUser(c)
      PROVE  TypeOK'
  BY <1>1, OrderStoreAssumption DEF ResolveUser, Goto, db, IInv, TypeOK, Resource, Request, Lockable
<1>2. ASSUME NEW c \in Checkout, CommitTurn(c)
      PROVE  TypeOK'
  BY <1>2, OrderStoreAssumption DEF CommitTurn, Goto, db, IInv, TypeOK, Resource, Request, Lockable
<1>3. ASSUME NEW c \in Checkout, BeginOrder(c)
      PROVE  TypeOK'
  <2>1. c \in Request /\ attempt[c] + 1 \in 0 .. MaxAttempts
    BY SMTT(30), <1>3 DEF BeginOrder, IInv, TypeOK, BudgetInv, MaxAttempts, Request
  <2>2. attempt' = [attempt EXCEPT ![c] = attempt[c] + 1]
    BY <1>3 DEF BeginOrder
  <2>3. \/ pc' = [pc EXCEPT ![c] = "locking"] /\ reply' = reply
        \/ pc' = [pc EXCEPT ![c] = "done"] /\ reply' = [reply EXCEPT ![c] = "existing"]
    BY <1>3 DEF BeginOrder, Goto
  <2>4. UNCHANGED <<db, holder, missed, seen, saw>>
    BY <1>3 DEF BeginOrder
  <2>. QED  BY <2>1, <2>2, <2>3, <2>4 DEF db, IInv, TypeOK
<1>4. ASSUME NEW c \in Checkout, NEW p \in Product, LockProduct(c, p)
      PROVE  TypeOK'
  BY <1>4, OrderStoreAssumption DEF LockProduct, Take, LockFree, db, IInv, TypeOK, Resource, Request, Lockable
<1>5. ASSUME NEW c \in Checkout, AcceptCart(c)
      PROVE  TypeOK'
  BY <1>5, OrderStoreAssumption DEF AcceptCart, Goto, db, IInv, TypeOK, Resource, Request, Lockable
<1>6. ASSUME NEW c \in Checkout, ApplyCoupon(c)
      PROVE  TypeOK'
  BY <1>6, OrderStoreAssumption DEF ApplyCoupon, Take, LockFree, Goto, db, IInv, TypeOK, Resource, Request, Lockable
<1>7. ASSUME NEW c \in Checkout, CreateWithItems(c)
      PROVE  TypeOK'
  <2>1. LastNumber \in Nat
    BY LastNumberCounts DEF IInv
  <2>2. Numbers \in Lockable /\ c \in Request
    BY DEF Lockable, Request
  <2>3. seen' \in [Request -> [Resource \cup {Numbers} -> Nat]]
    <3>1. seen[c] \in [Resource \cup {Numbers} -> Nat]
      BY <2>2 DEF IInv, TypeOK
    <3>2. LastNumber + 1 \in Nat
      BY <2>1
    <3>3. [seen[c] EXCEPT ![Numbers] = LastNumber + 1] \in [Resource \cup {Numbers} -> Nat]
      BY <3>1, <3>2
    <3>. QED  BY <1>7, <2>2, <3>3 DEF CreateWithItems, IInv, TypeOK
  <2>4. holder' = [holder EXCEPT ![Numbers] = c]
    BY <1>7 DEF CreateWithItems, Take
  <2>5. /\ pc' = [pc EXCEPT ![c] = "answered"]
        /\ reply' = [reply EXCEPT ![c] = "created"]
        /\ UNCHANGED <<db, missed, saw, attempt>>
    BY <1>7 DEF CreateWithItems, Goto
  <2>. QED  BY <2>2, <2>3, <2>4, <2>5 DEF db, IInv, TypeOK
<1>8. ASSUME NEW c \in Checkout, CommitOrder(c)
      PROVE  TypeOK'
  <2>1. c \in Request /\ Written(c) \subseteq Resource \cup {Numbers}
    BY WrittenResources DEF Request
  <2>2. stock' \in [Product -> Nat]
    <3>1. \A p \in Product : seen[c][p] \in Nat /\ Cart[c][p] \in Nat
      BY OrderStoreAssumption, <2>1 DEF IInv, TypeOK, Resource
    <3>2. \A p \in Items(c) : Cart[c][p] <= seen[c][p]
      BY <1>8 DEF CommitOrder, IInv, CartInv, Accepted
    <3>3. \A p \in Product : p \in Items(c) => seen[c][p] - Cart[c][p] \in Nat
      BY <3>1, <3>2
    <3>. QED  BY <1>8, <3>3 DEF CommitOrder, IInv, TypeOK
  <2>3. used' \in Nat
    BY <1>8, <2>1 DEF CommitOrder, IInv, TypeOK, Resource
  <2>4. /\ listed' \in [Resource -> BOOLEAN]
        /\ status' \in [Checkout -> Status \cup {"none"}]
        /\ saw' \in [Edit -> Status \cup {"none"}]
        /\ attempt' \in [Checkout -> 0 .. MaxAttempts]
    BY <1>8 DEF CommitOrder, IInv, TypeOK, Status
  <2>5. number' \in [Checkout -> Nat]
    BY <1>8, <2>1 DEF CommitOrder, IInv, TypeOK
  <2>6. missed' \in [Checkout -> SUBSET (Resource \cup {Numbers})]
    BY <1>8, <2>1 DEF CommitOrder, Aged, IInv, TypeOK
  <2>7. /\ holder' \in [Lockable -> Request \cup {Free}]
        /\ seen' \in [Request -> [Resource \cup {Numbers} -> Nat]]
    BY <1>8, <2>1 DEF CommitOrder, EndTx, Released, Nothing, IInv, TypeOK
  <2>8. /\ pc' = [pc EXCEPT ![c] = "done"]
        /\ reply' = [reply EXCEPT ![c] = reply[c]]
    BY <1>8 DEF CommitOrder, EndTx
  <2>. QED  BY <2>1, <2>2, <2>3, <2>4, <2>5, <2>6, <2>7, <2>8 DEF IInv, TypeOK
<1>9. ASSUME NEW e \in Edit, ReadOrder(e)
      PROVE  TypeOK'
  <2>1. e \in Request /\ status[Target[e]] \in Status \cup {"none"}
    BY OrderStoreAssumption DEF Request, IInv, TypeOK
  <2>2. saw' \in [Edit -> Status \cup {"none"}]
    BY <1>9, <2>1 DEF ReadOrder, IInv, TypeOK
  <2>3. \/ pc' = [pc EXCEPT ![e] = "restocking"] /\ reply' = reply
        \/ pc' = [pc EXCEPT ![e] = "done"] /\ reply' = [reply EXCEPT ![e] = "refused"]
    BY <1>9 DEF ReadOrder, Goto
  <2>4. UNCHANGED <<db, holder, missed, seen, attempt>>
    BY <1>9 DEF ReadOrder
  <2>. QED  BY ZenonT(60), <2>1, <2>2, <2>3, <2>4 DEF db, IInv, TypeOK
<1>10. ASSUME NEW e \in Edit, NEW p \in Product, IncrementStock(e, p)
      PROVE  TypeOK'
  BY <1>10, OrderStoreAssumption DEF IncrementStock, Take, LockFree, db, IInv, TypeOK, Resource, Request, Lockable
<1>11. ASSUME NEW e \in Edit, RecheckPassed(e)
      PROVE  TypeOK'
  BY <1>11, OrderStoreAssumption DEF RecheckPassed, Goto, db, IInv, TypeOK, Resource, Request, Lockable
<1>12. ASSUME NEW e \in Edit, UpdateStatus(e)
      PROVE  TypeOK'
  BY <1>12, OrderStoreAssumption DEF UpdateStatus, Take, LockFree, Goto, db, IInv, TypeOK, Resource, Request, Lockable
<1>13. ASSUME NEW e \in Edit, CommitEdit(e)
      PROVE  TypeOK'
  <2>1. /\ e \in Request /\ Target[e] \in Checkout /\ NewStatus[e] \in Status
        /\ Written(e) \subseteq Resource \cup {Numbers}
    BY OrderStoreAssumption, WrittenResources DEF Request
  <2>2. stock' \in [Product -> Nat]
    <3>1. \A p \in Product : seen[e][p] + Cart[Target[e]][p] \in Nat
      BY OrderStoreAssumption, <2>1 DEF IInv, TypeOK, Resource
    <3>. QED  BY <1>13, <3>1 DEF CommitEdit, IInv, TypeOK
  <2>3. status' \in [Checkout -> Status \cup {"none"}]
    BY <1>13, <2>1 DEF CommitEdit, IInv, TypeOK
  <2>4. missed' \in [Checkout -> SUBSET (Resource \cup {Numbers})]
    BY <1>13, <2>1 DEF CommitEdit, Aged, IInv, TypeOK
  <2>5. /\ holder' \in [Lockable -> Request \cup {Free}]
        /\ seen' \in [Request -> [Resource \cup {Numbers} -> Nat]]
    BY <1>13, <2>1 DEF CommitEdit, EndTx, Released, Nothing, IInv, TypeOK
  <2>6. /\ pc' = [pc EXCEPT ![e] = "done"]
        /\ reply' = [reply EXCEPT ![e] = reply[e]]
        /\ UNCHANGED <<used, listed, number, saw, attempt>>
    BY <1>13 DEF CommitEdit, EndTx
  <2>. QED  BY <2>1, <2>2, <2>3, <2>4, <2>5, <2>6 DEF IInv, TypeOK
<1>14. ASSUME NEW x \in Switchable, SwitchListing(x)
      PROVE  TypeOK'
  <2>1. x \in Resource
    BY OrderStoreAssumption
  <2>2. missed' \in [Checkout -> SUBSET (Resource \cup {Numbers})]
    BY <1>14, <2>1 DEF SwitchListing, Aged, IInv, TypeOK
  <2>. QED  BY <1>14, <2>1, <2>2 DEF SwitchListing, IInv, TypeOK
<1>15. ASSUME NEW r \in Request, RolledBack(r)
      PROVE  TypeOK'
  <2>1. PICK next \in {"clean", "done"},
             answer \in {"none", "created", "existing", "updated", "refused", "conflict",
                        "deadlock", "lost", "bad_session", "expired_user"} :
               Abort(r, next, answer)
    BY <1>15 DEF RolledBack
  <2>2. missed' \in [Checkout -> SUBSET (Resource \cup {Numbers})]
    BY <2>1 DEF Abort, IInv, TypeOK
  <2>3. /\ holder' \in [Lockable -> Request \cup {Free}]
        /\ seen' \in [Request -> [Resource \cup {Numbers} -> Nat]]
    BY <2>1 DEF Abort, EndTx, Released, Nothing, IInv, TypeOK
  <2>4. /\ pc' = [pc EXCEPT ![r] = next]
        /\ reply' = [reply EXCEPT ![r] = answer]
        /\ UNCHANGED <<db, saw, attempt>>
    BY <2>1 DEF Abort, EndTx
  <2>. QED  BY <2>1, <2>2, <2>3, <2>4 DEF db, IInv, TypeOK
<1>. QED  BY <1>0, <1>1, <1>2, <1>3, <1>4, <1>5, <1>6, <1>7, <1>8, <1>9, <1>10, <1>11, <1>12, <1>13, <1>14, <1>15, StepCases DEF IInv

(* Every step moves a request along its own control points.               *)
LEMMA StageStep ==
  ASSUME IInv, [Next]_vars
  PROVE  StageInv'
<1>0. CASE UNCHANGED vars
  BY <1>0 DEF vars, db, IInv, TypeOK, StageInv, Request
<1>1. ASSUME NEW c \in Checkout, ResolveUser(c)
      PROVE  StageInv'
  BY <1>1, OrderStoreAssumption DEF ResolveUser, Goto, db, IInv, TypeOK, StageInv, Request
<1>2. ASSUME NEW c \in Checkout, CommitTurn(c)
      PROVE  StageInv'
  BY <1>2, OrderStoreAssumption DEF CommitTurn, Goto, db, IInv, TypeOK, StageInv, Request
<1>3. ASSUME NEW c \in Checkout, BeginOrder(c)
      PROVE  StageInv'
  BY ZenonT(60), <1>3, OrderStoreAssumption DEF BeginOrder, Goto, db, IInv, TypeOK, StageInv, Request
<1>4. ASSUME NEW c \in Checkout, NEW p \in Product, LockProduct(c, p)
      PROVE  StageInv'
  BY <1>4, OrderStoreAssumption DEF LockProduct, Take, LockFree, db, IInv, TypeOK, StageInv, Request
<1>5. ASSUME NEW c \in Checkout, AcceptCart(c)
      PROVE  StageInv'
  BY <1>5, OrderStoreAssumption DEF AcceptCart, Goto, db, IInv, TypeOK, StageInv, Request
<1>6. ASSUME NEW c \in Checkout, ApplyCoupon(c)
      PROVE  StageInv'
  BY <1>6, OrderStoreAssumption DEF ApplyCoupon, Take, LockFree, Goto, db, IInv, TypeOK, StageInv, Request
<1>7. ASSUME NEW c \in Checkout, CreateWithItems(c)
      PROVE  StageInv'
  BY <1>7, OrderStoreAssumption DEF CreateWithItems, Take, LockFree, Goto, db, IInv, TypeOK, StageInv, Request
<1>8. ASSUME NEW c \in Checkout, CommitOrder(c)
      PROVE  StageInv'
  BY <1>8, OrderStoreAssumption DEF CommitOrder, EndTx, Released, Aged, db, IInv, TypeOK, StageInv, Request
<1>9. ASSUME NEW e \in Edit, ReadOrder(e)
      PROVE  StageInv'
  <2>1. /\ pc'[e] \in {"restocking", "done"}
        /\ \A r \in Request : r # e => pc'[r] = pc[r]
    BY <1>9 DEF ReadOrder, Goto, IInv, TypeOK, Request
  <2>. QED  BY <2>1, OrderStoreAssumption DEF IInv, StageInv, Request
<1>10. ASSUME NEW e \in Edit, NEW p \in Product, IncrementStock(e, p)
      PROVE  StageInv'
  BY <1>10, OrderStoreAssumption DEF IncrementStock, Take, LockFree, db, IInv, TypeOK, StageInv, Request
<1>11. ASSUME NEW e \in Edit, RecheckPassed(e)
      PROVE  StageInv'
  BY <1>11, OrderStoreAssumption DEF RecheckPassed, Goto, db, IInv, TypeOK, StageInv, Request
<1>12. ASSUME NEW e \in Edit, UpdateStatus(e)
      PROVE  StageInv'
  BY <1>12, OrderStoreAssumption DEF UpdateStatus, Take, LockFree, Goto, db, IInv, TypeOK, StageInv, Request
<1>13. ASSUME NEW e \in Edit, CommitEdit(e)
      PROVE  StageInv'
  BY <1>13, OrderStoreAssumption DEF CommitEdit, EndTx, Released, Aged, db, IInv, TypeOK, StageInv, Request
<1>14. ASSUME NEW x \in Switchable, SwitchListing(x)
      PROVE  StageInv'
  BY <1>14, OrderStoreAssumption DEF SwitchListing, LockFree, Aged, db, IInv, TypeOK, StageInv, Request
<1>15. ASSUME NEW r \in Request, RolledBack(r)
      PROVE  StageInv'
  BY <1>15, OrderStoreAssumption DEF RolledBack, Abort, EndTx, Released, db, IInv, TypeOK, StageInv, Request
<1>. QED  BY <1>0, <1>1, <1>2, <1>3, <1>4, <1>5, <1>6, <1>7, <1>8, <1>9, <1>10, <1>11, <1>12, <1>13, <1>14, <1>15, StepCases DEF IInv

(* Attempts are counted when they begin and cleared by nobody.             *)
LEMMA BudgetStep ==
  ASSUME IInv, [Next]_vars
  PROVE  BudgetInv'
<1>0. CASE UNCHANGED vars
  BY <1>0 DEF vars, db, IInv, TypeOK, BudgetInv, Request
<1>1. ASSUME NEW c \in Checkout, ResolveUser(c)
      PROVE  BudgetInv'
  BY <1>1, OrderStoreAssumption DEF ResolveUser, Goto, IInv, TypeOK, BudgetInv, MaxAttempts, Request
<1>2. ASSUME NEW c \in Checkout, CommitTurn(c)
      PROVE  BudgetInv'
  BY <1>2, OrderStoreAssumption DEF CommitTurn, Goto, IInv, TypeOK, BudgetInv, MaxAttempts, Request
<1>3. ASSUME NEW c \in Checkout, BeginOrder(c)
      PROVE  BudgetInv'
  BY <1>3, OrderStoreAssumption DEF BeginOrder, Goto, db, IInv, TypeOK, BudgetInv, Request
<1>4. ASSUME NEW c \in Checkout, NEW p \in Product, LockProduct(c, p)
      PROVE  BudgetInv'
  BY <1>4, OrderStoreAssumption DEF LockProduct, Take, LockFree, db, IInv, TypeOK, BudgetInv, Request
<1>5. ASSUME NEW c \in Checkout, AcceptCart(c)
      PROVE  BudgetInv'
  BY <1>5, OrderStoreAssumption DEF AcceptCart, Goto, db, IInv, TypeOK, BudgetInv, Request
<1>6. ASSUME NEW c \in Checkout, ApplyCoupon(c)
      PROVE  BudgetInv'
  BY <1>6, OrderStoreAssumption DEF ApplyCoupon, Take, LockFree, Goto, db, IInv, TypeOK, BudgetInv, Request
<1>7. ASSUME NEW c \in Checkout, CreateWithItems(c)
      PROVE  BudgetInv'
  BY <1>7, OrderStoreAssumption DEF CreateWithItems, Take, LockFree, Goto, db, IInv, TypeOK, BudgetInv, Request
<1>8. ASSUME NEW c \in Checkout, CommitOrder(c)
      PROVE  BudgetInv'
  BY <1>8, OrderStoreAssumption DEF CommitOrder, EndTx, Released, Aged, db, IInv, TypeOK, BudgetInv, Request
<1>9. ASSUME NEW e \in Edit, ReadOrder(e)
      PROVE  BudgetInv'
  BY <1>9, OrderStoreAssumption DEF ReadOrder, Goto, db, IInv, TypeOK, BudgetInv, Request
<1>10. ASSUME NEW e \in Edit, NEW p \in Product, IncrementStock(e, p)
      PROVE  BudgetInv'
  BY <1>10, OrderStoreAssumption DEF IncrementStock, Take, LockFree, db, IInv, TypeOK, BudgetInv, Request
<1>11. ASSUME NEW e \in Edit, RecheckPassed(e)
      PROVE  BudgetInv'
  BY <1>11, OrderStoreAssumption DEF RecheckPassed, Goto, db, IInv, TypeOK, BudgetInv, Request
<1>12. ASSUME NEW e \in Edit, UpdateStatus(e)
      PROVE  BudgetInv'
  BY <1>12, OrderStoreAssumption DEF UpdateStatus, Take, LockFree, Goto, db, IInv, TypeOK, BudgetInv, Request
<1>13. ASSUME NEW e \in Edit, CommitEdit(e)
      PROVE  BudgetInv'
  BY <1>13, OrderStoreAssumption DEF CommitEdit, EndTx, Released, Aged, db, IInv, TypeOK, BudgetInv, Request
<1>14. ASSUME NEW x \in Switchable, SwitchListing(x)
      PROVE  BudgetInv'
  BY <1>14, OrderStoreAssumption DEF SwitchListing, LockFree, Aged, db, IInv, TypeOK, BudgetInv, Request
<1>15. ASSUME NEW r \in Request, RolledBack(r)
      PROVE  BudgetInv'
  BY <1>15, OrderStoreAssumption DEF RolledBack, Abort, EndTx, Released, db, IInv, TypeOK, BudgetInv, Request
<1>. QED  BY <1>0, <1>1, <1>2, <1>3, <1>4, <1>5, <1>6, <1>7, <1>8, <1>9, <1>10, <1>11, <1>12, <1>13, <1>14, <1>15, StepCases DEF IInv

(* Every step keeps locks with the transactions that need them.            *)
LEMMA LockStep ==
  ASSUME IInv, [Next]_vars
  PROVE  LockInv'
<1>0. CASE UNCHANGED vars
  BY <1>0 DEF vars, db, IInv, TypeOK, StageInv, LockInv, InTx, Accepted, Items, Restocked, Request, Lockable, Resource
<1>1. ASSUME NEW c \in Checkout, ResolveUser(c)
      PROVE  LockInv'
  BY <1>1, OrderStoreAssumption DEF ResolveUser, Goto, db, IInv, TypeOK, StageInv, LockInv, InTx, Accepted, Items, Restocked, Request, Lockable, Resource
<1>2. ASSUME NEW c \in Checkout, CommitTurn(c)
      PROVE  LockInv'
  BY <1>2, OrderStoreAssumption DEF CommitTurn, Goto, db, IInv, TypeOK, StageInv, LockInv, InTx, Accepted, Items, Restocked, Request, Lockable, Resource
<1>3. ASSUME NEW c \in Checkout, BeginOrder(c)
      PROVE  LockInv'
  <2>1. /\ pc[c] = "clean" /\ holder' = holder
        /\ pc'[c] \in {"locking", "done"}
        /\ \A r \in Request : r # c => pc'[r] = pc[r]
    BY <1>3 DEF BeginOrder, Goto, IInv, TypeOK, Request
  <2>2. (\A x \in Lockable : holder[x] # Free => InTx(holder[x]))'
    <3>. SUFFICES ASSUME NEW x \in Lockable, holder[x] # Free
                  PROVE  InTx(holder[x])'
      BY <2>1
    <3>1. holder[x] \in Request /\ InTx(holder[x])
      BY DEF IInv, TypeOK, LockInv
    <3>. QED  BY <2>1, <3>1 DEF InTx
  <2>3. (\A d \in Checkout : Accepted(d) => \A p \in Items(d) : holder[p] = d)'
    BY <2>1, OrderStoreAssumption DEF IInv, LockInv, Accepted, Items, Request
  <2>4. /\ (\A d \in WithCoupon : pc[d] \in {"inserting", "answered"} => holder[Coupon] = d)'
        /\ (\A d \in Checkout : pc[d] = "answered" => holder[Numbers] = d)'
    BY <2>1, OrderStoreAssumption DEF IInv, LockInv, Request
  <2>5. (\A f \in Edit : pc[f] \in {"updating", "answered"} =>
                          \A p \in Restocked(f) : holder[p] = f)'
    BY <2>1, OrderStoreAssumption DEF IInv, LockInv, Restocked, Items, Request
  <2>. QED  BY <2>2, <2>3, <2>4, <2>5 DEF LockInv
<1>4. ASSUME NEW c \in Checkout, NEW p \in Product, LockProduct(c, p)
      PROVE  LockInv'
  BY <1>4, OrderStoreAssumption DEF LockProduct, Take, LockFree, db, IInv, TypeOK, StageInv, LockInv, InTx, Accepted, Items, Restocked, Request, Lockable, Resource
<1>5. ASSUME NEW c \in Checkout, AcceptCart(c)
      PROVE  LockInv'
  <2>1. \A p \in Items(c) : holder[p] = c
    BY <1>5 DEF AcceptCart, CartLocked, Wanted
  <2>2. /\ pc[c] = "locking" /\ holder' = holder
        /\ pc'[c] = "coupon" \/ (pc'[c] = "inserting" /\ c \notin WithCoupon)
        /\ \A r \in Request : r # c => pc'[r] = pc[r]
    BY <1>5 DEF AcceptCart, CartLocked, Goto, IInv, TypeOK, Request
  <2>3. (\A x \in Lockable : holder[x] # Free => InTx(holder[x]))'
    <3>. SUFFICES ASSUME NEW x \in Lockable, holder[x] # Free
                  PROVE  InTx(holder[x])'
      BY <2>2
    <3>1. holder[x] \in Request /\ InTx(holder[x])
      BY DEF IInv, TypeOK, LockInv
    <3>. QED  BY <2>1, <2>2, <3>1 DEF InTx
  <2>4. (\A d \in Checkout : Accepted(d) => \A p \in Items(d) : holder[p] = d)'
    BY <2>1, <2>2, OrderStoreAssumption DEF IInv, LockInv, Accepted, Items, Request
  <2>5. /\ (\A d \in WithCoupon : pc[d] \in {"inserting", "answered"} => holder[Coupon] = d)'
        /\ (\A d \in Checkout : pc[d] = "answered" => holder[Numbers] = d)'
    BY <2>1, <2>2, OrderStoreAssumption DEF IInv, LockInv, Request
  <2>6. (\A f \in Edit : pc[f] \in {"updating", "answered"} =>
                          \A p \in Restocked(f) : holder[p] = f)'
    BY <2>1, <2>2, OrderStoreAssumption DEF IInv, LockInv, Restocked, Items, Request
  <2>. QED  BY <2>3, <2>4, <2>5, <2>6 DEF LockInv
<1>6. ASSUME NEW c \in Checkout, ApplyCoupon(c)
      PROVE  LockInv'
  BY <1>6, OrderStoreAssumption DEF ApplyCoupon, Take, LockFree, Goto, db, IInv, TypeOK, StageInv, LockInv, InTx, Accepted, Items, Restocked, Request, Lockable, Resource
<1>7. ASSUME NEW c \in Checkout, CreateWithItems(c)
      PROVE  LockInv'
  BY <1>7, OrderStoreAssumption DEF CreateWithItems, Take, LockFree, Goto, db, IInv, TypeOK, StageInv, LockInv, InTx, Accepted, Items, Restocked, Request, Lockable, Resource
<1>8. ASSUME NEW c \in Checkout, CommitOrder(c)
      PROVE  LockInv'
  BY <1>8, OrderStoreAssumption DEF CommitOrder, EndTx, Released, Aged, db, IInv, TypeOK, StageInv, LockInv, InTx, Accepted, Items, Restocked, Request, Lockable, Resource
<1>9. ASSUME NEW e \in Edit, ReadOrder(e)
      PROVE  LockInv'
  <2>1. /\ pc[e] = "arrived" /\ holder' = holder
        /\ pc'[e] \in {"restocking", "done"}
        /\ \A r \in Request : r # e => pc'[r] = pc[r]
    BY <1>9 DEF ReadOrder, Goto, IInv, TypeOK, Request
  <2>2. (\A x \in Lockable : holder[x] # Free => InTx(holder[x]))'
    <3>. SUFFICES ASSUME NEW x \in Lockable, holder[x] # Free
                  PROVE  InTx(holder[x])'
      BY <2>1
    <3>1. holder[x] \in Request /\ InTx(holder[x])
      BY DEF IInv, TypeOK, LockInv
    <3>. QED  BY <2>1, <3>1 DEF InTx
  <2>3. (\A d \in Checkout : Accepted(d) => \A p \in Items(d) : holder[p] = d)'
    BY <2>1, OrderStoreAssumption DEF IInv, LockInv, Accepted, Items, Request
  <2>4. /\ (\A d \in WithCoupon : pc[d] \in {"inserting", "answered"} => holder[Coupon] = d)'
        /\ (\A d \in Checkout : pc[d] = "answered" => holder[Numbers] = d)'
    BY <2>1, OrderStoreAssumption DEF IInv, LockInv, Request
  <2>5. (\A f \in Edit : pc[f] \in {"updating", "answered"} =>
                          \A p \in Restocked(f) : holder[p] = f)'
    BY <2>1, OrderStoreAssumption DEF IInv, LockInv, Restocked, Items, Request
  <2>. QED  BY <2>2, <2>3, <2>4, <2>5 DEF LockInv
<1>10. ASSUME NEW e \in Edit, NEW p \in Product, IncrementStock(e, p)
      PROVE  LockInv'
  BY <1>10, OrderStoreAssumption DEF IncrementStock, Take, LockFree, db, IInv, TypeOK, StageInv, LockInv, InTx, Accepted, Items, Restocked, Request, Lockable, Resource
<1>11. ASSUME NEW e \in Edit, RecheckPassed(e)
      PROVE  LockInv'
  <2>1. \A p \in Restocked(e) : holder[p] = e
    BY <1>11 DEF RecheckPassed, Wanted
  <2>2. /\ pc[e] = "restocking" /\ holder' = holder
        /\ pc' = [pc EXCEPT ![e] = "updating"]
    BY <1>11 DEF RecheckPassed, Goto
  <2>. QED
    BY <2>1, <2>2, OrderStoreAssumption
    DEF IInv, TypeOK, StageInv, LockInv, InTx, Accepted, Items, Restocked, Request, Lockable, Resource
<1>12. ASSUME NEW e \in Edit, UpdateStatus(e)
      PROVE  LockInv'
  BY <1>12, OrderStoreAssumption DEF UpdateStatus, Take, LockFree, Goto, db, IInv, TypeOK, StageInv, LockInv, InTx, Accepted, Items, Restocked, Request, Lockable, Resource
<1>13. ASSUME NEW e \in Edit, CommitEdit(e)
      PROVE  LockInv'
  BY <1>13, OrderStoreAssumption DEF CommitEdit, EndTx, Released, Aged, db, IInv, TypeOK, StageInv, LockInv, InTx, Accepted, Items, Restocked, Request, Lockable, Resource
<1>14. ASSUME NEW x \in Switchable, SwitchListing(x)
      PROVE  LockInv'
  BY <1>14, OrderStoreAssumption DEF SwitchListing, LockFree, Aged, db, IInv, TypeOK, StageInv, LockInv, InTx, Accepted, Items, Restocked, Request, Lockable, Resource
<1>15. ASSUME NEW r \in Request, RolledBack(r)
      PROVE  LockInv'
  BY <1>15, OrderStoreAssumption DEF RolledBack, Abort, EndTx, Released, db, IInv, TypeOK, StageInv, LockInv, InTx, Accepted, Items, Restocked, Request, Lockable, Resource
<1>. QED  BY <1>0, <1>1, <1>2, <1>3, <1>4, <1>5, <1>6, <1>7, <1>8, <1>9, <1>10, <1>11, <1>12, <1>13, <1>14, <1>15, StepCases DEF IInv

(* Nobody commits a row another request has locked.                        *)
LEMMA FreshStep ==
  ASSUME IInv, [Next]_vars
  PROVE  FreshInv'
<1>0. CASE UNCHANGED vars
  BY <1>0 DEF vars, db, IInv, TypeOK, LockInv, FreshInv, Request, Lockable, Resource
<1>1. ASSUME NEW c \in Checkout, ResolveUser(c)
      PROVE  FreshInv'
  BY <1>1, OrderStoreAssumption DEF ResolveUser, Goto, db, IInv, TypeOK, LockInv, FreshInv, Request, Lockable, Resource
<1>2. ASSUME NEW c \in Checkout, CommitTurn(c)
      PROVE  FreshInv'
  BY <1>2, OrderStoreAssumption DEF CommitTurn, Goto, db, IInv, TypeOK, LockInv, FreshInv, Request, Lockable, Resource
<1>3. ASSUME NEW c \in Checkout, BeginOrder(c)
      PROVE  FreshInv'
  BY <1>3, OrderStoreAssumption DEF BeginOrder, Goto, db, IInv, TypeOK, LockInv, FreshInv, Request, Lockable, Resource
<1>4. ASSUME NEW c \in Checkout, NEW p \in Product, LockProduct(c, p)
      PROVE  FreshInv'
  BY <1>4, OrderStoreAssumption DEF LockProduct, Take, LockFree, db, IInv, TypeOK, LockInv, FreshInv, Request, Lockable, Resource
<1>5. ASSUME NEW c \in Checkout, AcceptCart(c)
      PROVE  FreshInv'
  BY <1>5, OrderStoreAssumption DEF AcceptCart, Goto, db, IInv, TypeOK, LockInv, FreshInv, Request, Lockable, Resource
<1>6. ASSUME NEW c \in Checkout, ApplyCoupon(c)
      PROVE  FreshInv'
  BY <1>6, OrderStoreAssumption DEF ApplyCoupon, CouponUsable, Take, LockFree, db, IInv, TypeOK, FreshInv, Request, Lockable, Resource
<1>7. ASSUME NEW c \in Checkout, CreateWithItems(c)
      PROVE  FreshInv'
  BY <1>7, OrderStoreAssumption DEF CreateWithItems, Take, LockFree, Goto, db, IInv, TypeOK, LockInv, FreshInv, Request, Lockable, Resource
<1>8. ASSUME NEW c \in Checkout, CommitOrder(c)
      PROVE  FreshInv'
  <2>1. /\ \A p \in Items(c) : holder[p] = c
        /\ c \in WithCoupon => holder[Coupon] = c
    BY <1>8, OrderStoreAssumption DEF CommitOrder, Accepted, IInv, LockInv
  <2>2. /\ c \in Request /\ c # Free /\ Product \subseteq Lockable /\ Coupon \in Lockable
        /\ \A x \in Lockable : holder'[x] = IF holder[x] = c THEN Free ELSE holder[x]
        /\ \A x \in Lockable : holder[x] \in Request \cup {Free}
        /\ \A r \in Request : r # c => seen'[r] = seen[r]
    BY <1>8, OrderStoreAssumption
    DEF CommitOrder, EndTx, Released, IInv, TypeOK, Request, Lockable, Resource
  <2>3. \A p \in Product : holder'[p] # Free =>
          holder'[p] = holder[p] /\ holder[p] # c /\ stock'[p] = stock[p]
    BY <1>8, <2>1, <2>2 DEF CommitOrder
  <2>4. holder'[Coupon] # Free =>
          holder'[Coupon] = holder[Coupon] /\ holder[Coupon] # c /\ used' = used
    BY <1>8, <2>1, <2>2 DEF CommitOrder
  <2>. QED  BY <2>2, <2>3, <2>4 DEF IInv, FreshInv
<1>9. ASSUME NEW e \in Edit, ReadOrder(e)
      PROVE  FreshInv'
  BY <1>9, OrderStoreAssumption DEF ReadOrder, Goto, db, IInv, TypeOK, LockInv, FreshInv, Request, Lockable, Resource
<1>10. ASSUME NEW e \in Edit, NEW p \in Product, IncrementStock(e, p)
      PROVE  FreshInv'
  BY <1>10, OrderStoreAssumption DEF IncrementStock, Take, LockFree, db, IInv, TypeOK, LockInv, FreshInv, Request, Lockable, Resource
<1>11. ASSUME NEW e \in Edit, RecheckPassed(e)
      PROVE  FreshInv'
  BY <1>11, OrderStoreAssumption DEF RecheckPassed, Goto, db, IInv, TypeOK, LockInv, FreshInv, Request, Lockable, Resource
<1>12. ASSUME NEW e \in Edit, UpdateStatus(e)
      PROVE  FreshInv'
  BY <1>12, OrderStoreAssumption DEF UpdateStatus, Take, LockFree, Goto, db, IInv, TypeOK, LockInv, FreshInv, Request, Lockable, Resource
<1>13. ASSUME NEW e \in Edit, CommitEdit(e)
      PROVE  FreshInv'
  BY <1>13, OrderStoreAssumption DEF CommitEdit, EndTx, Released, Aged, db, IInv, TypeOK, LockInv, FreshInv, Request, Lockable, Resource
<1>14. ASSUME NEW x \in Switchable, SwitchListing(x)
      PROVE  FreshInv'
  BY <1>14, OrderStoreAssumption DEF SwitchListing, LockFree, Aged, db, IInv, TypeOK, LockInv, FreshInv, Request, Lockable, Resource
<1>15. ASSUME NEW r \in Request, RolledBack(r)
      PROVE  FreshInv'
  BY <1>15, OrderStoreAssumption DEF RolledBack, Abort, EndTx, Released, db, IInv, TypeOK, LockInv, FreshInv, Request, Lockable, Resource
<1>. QED  BY <1>0, <1>1, <1>2, <1>3, <1>4, <1>5, <1>6, <1>7, <1>8, <1>9, <1>10, <1>11, <1>12, <1>13, <1>14, <1>15, StepCases DEF IInv

(* No commit and no listing switch takes an accepted cart away.            *)
LEMMA CartStep ==
  ASSUME IInv, [Next]_vars
  PROVE  CartInv'
<1>0. CASE UNCHANGED vars
  BY <1>0 DEF vars, db, IInv, TypeOK, LockInv, StageInv, CartInv, Accepted, Items, Request, Lockable, Resource
<1>1. ASSUME NEW c \in Checkout, ResolveUser(c)
      PROVE  CartInv'
  BY <1>1, OrderStoreAssumption DEF ResolveUser, Goto, db, IInv, TypeOK, LockInv, StageInv, CartInv, Accepted, Items, Request, Lockable, Resource
<1>2. ASSUME NEW c \in Checkout, CommitTurn(c)
      PROVE  CartInv'
  BY <1>2, OrderStoreAssumption DEF CommitTurn, Goto, db, IInv, TypeOK, LockInv, StageInv, CartInv, Accepted, Items, Request, Lockable, Resource
<1>3. ASSUME NEW c \in Checkout, BeginOrder(c)
      PROVE  CartInv'
  <2>1. /\ seen' = seen /\ listed' = listed
        /\ pc'[c] \in {"locking", "done"}
        /\ \A r \in Request : r # c => pc'[r] = pc[r]
    BY <1>3 DEF BeginOrder, Goto, db, IInv, TypeOK, Request
  <2>. QED  BY <2>1, OrderStoreAssumption DEF IInv, CartInv, Accepted, Items, Request
<1>4. ASSUME NEW c \in Checkout, NEW p \in Product, LockProduct(c, p)
      PROVE  CartInv'
  BY <1>4, OrderStoreAssumption DEF LockProduct, Take, LockFree, db, IInv, TypeOK, LockInv, StageInv, CartInv, Accepted, Items, Request, Lockable, Resource
<1>5. ASSUME NEW c \in Checkout, AcceptCart(c)
      PROVE  CartInv'
  <2>1. /\ seen' = seen /\ listed' = listed
        /\ \A r \in Request : r # c => pc'[r] = pc[r]
    BY <1>5 DEF AcceptCart, Goto, db, IInv, TypeOK, Request
  <2>2. \A p \in Items(c) : listed[p] /\ Cart[c][p] <= seen[c][p]
    BY <1>5 DEF AcceptCart, InStock
  <2>3. c \in WithCoupon => pc'[c] = "coupon"
    BY <1>5 DEF AcceptCart, Goto, IInv, TypeOK, Request
  <2>. QED
    BY <2>1, <2>2, <2>3, OrderStoreAssumption DEF IInv, CartInv, Accepted, Items, Request
<1>6. ASSUME NEW c \in Checkout, ApplyCoupon(c)
      PROVE  CartInv'
  BY <1>6, OrderStoreAssumption DEF ApplyCoupon, CouponUsable, Goto, db, IInv, TypeOK, CartInv, Accepted, Items, Request, Resource
<1>7. ASSUME NEW c \in Checkout, CreateWithItems(c)
      PROVE  CartInv'
  BY <1>7, OrderStoreAssumption DEF CreateWithItems, Take, LockFree, Goto, db, IInv, TypeOK, LockInv, StageInv, CartInv, Accepted, Items, Request, Lockable, Resource
<1>8. ASSUME NEW c \in Checkout, CommitOrder(c)
      PROVE  CartInv'
  BY <1>8, OrderStoreAssumption DEF CommitOrder, EndTx, Released, Aged, db, IInv, TypeOK, LockInv, StageInv, CartInv, Accepted, Items, Request, Lockable, Resource
<1>9. ASSUME NEW e \in Edit, ReadOrder(e)
      PROVE  CartInv'
  BY <1>9, OrderStoreAssumption DEF ReadOrder, Goto, db, IInv, TypeOK, LockInv, StageInv, CartInv, Accepted, Items, Request, Lockable, Resource
<1>10. ASSUME NEW e \in Edit, NEW p \in Product, IncrementStock(e, p)
      PROVE  CartInv'
  BY <1>10, OrderStoreAssumption DEF IncrementStock, Take, LockFree, db, IInv, TypeOK, LockInv, StageInv, CartInv, Accepted, Items, Request, Lockable, Resource
<1>11. ASSUME NEW e \in Edit, RecheckPassed(e)
      PROVE  CartInv'
  BY <1>11, OrderStoreAssumption DEF RecheckPassed, Goto, db, IInv, TypeOK, LockInv, StageInv, CartInv, Accepted, Items, Request, Lockable, Resource
<1>12. ASSUME NEW e \in Edit, UpdateStatus(e)
      PROVE  CartInv'
  BY <1>12, OrderStoreAssumption DEF UpdateStatus, Take, LockFree, Goto, db, IInv, TypeOK, LockInv, StageInv, CartInv, Accepted, Items, Request, Lockable, Resource
<1>13. ASSUME NEW e \in Edit, CommitEdit(e)
      PROVE  CartInv'
  BY <1>13, OrderStoreAssumption DEF CommitEdit, EndTx, Released, Aged, db, IInv, TypeOK, LockInv, StageInv, CartInv, Accepted, Items, Request, Lockable, Resource
<1>14. ASSUME NEW x \in Switchable, SwitchListing(x)
      PROVE  CartInv'
  BY <1>14, OrderStoreAssumption DEF SwitchListing, LockFree, Aged, db, IInv, TypeOK, LockInv, StageInv, CartInv, Accepted, Items, Request, Lockable, Resource
<1>15. ASSUME NEW r \in Request, RolledBack(r)
      PROVE  CartInv'
  BY <1>15, OrderStoreAssumption DEF RolledBack, Abort, EndTx, Released, db, IInv, TypeOK, LockInv, StageInv, CartInv, Accepted, Items, Request, Lockable, Resource
<1>. QED  BY <1>0, <1>1, <1>2, <1>3, <1>4, <1>5, <1>6, <1>7, <1>8, <1>9, <1>10, <1>11, <1>12, <1>13, <1>14, <1>15, StepCases DEF IInv

(* Orders are never deleted.                                               *)
LEMMA TargetStep ==
  ASSUME IInv, [Next]_vars
  PROVE  TargetInv'
<1>0. CASE UNCHANGED vars
  BY <1>0 DEF vars, db, IInv, TypeOK, StageInv, TargetInv, Stored, Request, Status
<1>1. ASSUME NEW c \in Checkout, ResolveUser(c)
      PROVE  TargetInv'
  BY <1>1, OrderStoreAssumption DEF ResolveUser, Goto, db, IInv, TypeOK, StageInv, TargetInv, Stored, Request, Status
<1>2. ASSUME NEW c \in Checkout, CommitTurn(c)
      PROVE  TargetInv'
  BY <1>2, OrderStoreAssumption DEF CommitTurn, Goto, db, IInv, TypeOK, StageInv, TargetInv, Stored, Request, Status
<1>3. ASSUME NEW c \in Checkout, BeginOrder(c)
      PROVE  TargetInv'
  BY <1>3, OrderStoreAssumption DEF BeginOrder, Goto, db, IInv, TypeOK, StageInv, TargetInv, Stored, Request, Status
<1>4. ASSUME NEW c \in Checkout, NEW p \in Product, LockProduct(c, p)
      PROVE  TargetInv'
  BY <1>4, OrderStoreAssumption DEF LockProduct, Take, LockFree, db, IInv, TypeOK, StageInv, TargetInv, Stored, Request, Status
<1>5. ASSUME NEW c \in Checkout, AcceptCart(c)
      PROVE  TargetInv'
  BY <1>5, OrderStoreAssumption DEF AcceptCart, Goto, db, IInv, TypeOK, StageInv, TargetInv, Stored, Request, Status
<1>6. ASSUME NEW c \in Checkout, ApplyCoupon(c)
      PROVE  TargetInv'
  BY <1>6, OrderStoreAssumption DEF ApplyCoupon, Take, LockFree, Goto, db, IInv, TypeOK, StageInv, TargetInv, Stored, Request, Status
<1>7. ASSUME NEW c \in Checkout, CreateWithItems(c)
      PROVE  TargetInv'
  BY <1>7, OrderStoreAssumption DEF CreateWithItems, Take, LockFree, Goto, db, IInv, TypeOK, StageInv, TargetInv, Stored, Request, Status
<1>8. ASSUME NEW c \in Checkout, CommitOrder(c)
      PROVE  TargetInv'
  BY <1>8, OrderStoreAssumption DEF CommitOrder, EndTx, Released, Aged, db, IInv, TypeOK, StageInv, TargetInv, Stored, Request, Status
<1>9. ASSUME NEW e \in Edit, ReadOrder(e)
      PROVE  TargetInv'
  BY <1>9, OrderStoreAssumption DEF ReadOrder, Goto, db, IInv, TypeOK, StageInv, TargetInv, Stored, Request, Status
<1>10. ASSUME NEW e \in Edit, NEW p \in Product, IncrementStock(e, p)
      PROVE  TargetInv'
  BY <1>10, OrderStoreAssumption DEF IncrementStock, Take, LockFree, db, IInv, TypeOK, StageInv, TargetInv, Stored, Request, Status
<1>11. ASSUME NEW e \in Edit, RecheckPassed(e)
      PROVE  TargetInv'
  BY <1>11, OrderStoreAssumption DEF RecheckPassed, Goto, db, IInv, TypeOK, StageInv, TargetInv, Stored, Request, Status
<1>12. ASSUME NEW e \in Edit, UpdateStatus(e)
      PROVE  TargetInv'
  BY <1>12, OrderStoreAssumption DEF UpdateStatus, Take, LockFree, Goto, db, IInv, TypeOK, StageInv, TargetInv, Stored, Request, Status
<1>13. ASSUME NEW e \in Edit, CommitEdit(e)
      PROVE  TargetInv'
  BY ZenonT(60), <1>13, OrderStoreAssumption DEF CommitEdit, EndTx, Released, Aged, db, IInv, TypeOK, StageInv, TargetInv, Stored, Request, Status
<1>14. ASSUME NEW x \in Switchable, SwitchListing(x)
      PROVE  TargetInv'
  BY <1>14, OrderStoreAssumption DEF SwitchListing, LockFree, Aged, db, IInv, TypeOK, StageInv, TargetInv, Stored, Request, Status
<1>15. ASSUME NEW r \in Request, RolledBack(r)
      PROVE  TargetInv'
  BY <1>15, OrderStoreAssumption DEF RolledBack, Abort, EndTx, Released, db, IInv, TypeOK, StageInv, TargetInv, Stored, Request, Status
<1>. QED  BY <1>0, <1>1, <1>2, <1>3, <1>4, <1>5, <1>6, <1>7, <1>8, <1>9, <1>10, <1>11, <1>12, <1>13, <1>14, <1>15, StepCases DEF IInv

(* Two checkouts with one key never both reach the commit.                 *)
LEMMA KeyStep ==
  ASSUME IInv, [Next]_vars
  PROVE  KeyInv'
<1>0. CASE UNCHANGED vars
  BY <1>0 DEF vars, db, IInv, TypeOK, StageInv, TargetInv, KeyInv, OneOrderPerKey, Orders, Stored, InTx, Request, Status
<1>1. ASSUME NEW c \in Checkout, ResolveUser(c)
      PROVE  KeyInv'
  BY <1>1, OrderStoreAssumption DEF ResolveUser, Goto, db, IInv, TypeOK, StageInv, TargetInv, KeyInv, OneOrderPerKey, Orders, Stored, InTx, Request, Status
<1>2. ASSUME NEW c \in Checkout, CommitTurn(c)
      PROVE  KeyInv'
  BY <1>2, OrderStoreAssumption DEF CommitTurn, Goto, db, IInv, TypeOK, StageInv, TargetInv, KeyInv, OneOrderPerKey, Orders, Stored, InTx, Request, Status
<1>3. ASSUME NEW c \in Checkout, BeginOrder(c)
      PROVE  KeyInv'
  <2>1. /\ status' = status /\ missed' = missed
        /\ \A d \in Checkout : d # c => pc'[d] = pc[d]
    BY <1>3 DEF BeginOrder, Goto, db, IInv, TypeOK, Request
  <2>2. CASE \E d \in Checkout : Stored(d) /\ Key[d] = Key[c]
    <3>1. pc'[c] = "done"
      BY <1>3, <2>2 DEF BeginOrder, Goto, IInv, TypeOK, Request
    <3>. QED  BY <2>1, <3>1 DEF IInv, KeyInv, OneOrderPerKey, Orders, Stored, InTx
  <2>3. CASE ~ \E d \in Checkout : Stored(d) /\ Key[d] = Key[c]
    <3>1. pc'[c] = "locking"
      BY <1>3, <2>3 DEF BeginOrder, Goto, IInv, TypeOK, Request
    <3>. QED  BY <2>1, <2>3, <3>1 DEF IInv, KeyInv, OneOrderPerKey, Orders, Stored, InTx
  <2>. QED  BY <2>2, <2>3
<1>4. ASSUME NEW c \in Checkout, NEW p \in Product, LockProduct(c, p)
      PROVE  KeyInv'
  BY <1>4, OrderStoreAssumption DEF LockProduct, Take, LockFree, db, IInv, TypeOK, StageInv, TargetInv, KeyInv, OneOrderPerKey, Orders, Stored, InTx, Request, Status
<1>5. ASSUME NEW c \in Checkout, AcceptCart(c)
      PROVE  KeyInv'
  <2>1. /\ status' = status /\ missed' = missed
        /\ InTx(c) /\ pc'[c] # "answered"
        /\ \A d \in Checkout : d # c => pc'[d] = pc[d]
    BY <1>5 DEF AcceptCart, CartLocked, Goto, db, InTx, IInv, TypeOK, Request
  <2>. QED  BY <2>1 DEF IInv, KeyInv, OneOrderPerKey, Orders, Stored, InTx
<1>6. ASSUME NEW c \in Checkout, ApplyCoupon(c)
      PROVE  KeyInv'
  BY <1>6, OrderStoreAssumption DEF ApplyCoupon, Take, LockFree, Goto, db, IInv, TypeOK, StageInv, TargetInv, KeyInv, OneOrderPerKey, Orders, Stored, InTx, Request, Status
<1>7. ASSUME NEW c \in Checkout, CreateWithItems(c)
      PROVE  KeyInv'
  BY <1>7, OrderStoreAssumption DEF CreateWithItems, Take, LockFree, Goto, db, IInv, TypeOK, StageInv, TargetInv, KeyInv, OneOrderPerKey, Orders, Stored, InTx, Request, Status
<1>8. ASSUME NEW c \in Checkout, CommitOrder(c)
      PROVE  KeyInv'
  <2>1. /\ Orders' = Orders \cup {c} /\ Orders \subseteq Checkout
        /\ pc[c] = "answered" /\ pc'[c] = "done"
        /\ \A d \in Checkout : d # c => pc'[d] = pc[d]
    BY <1>8 DEF CommitOrder, EndTx, Orders, Stored, IInv, TypeOK, Request
  <2>2. \A d \in Orders : Key[d] # Key[c]
    BY <2>1 DEF IInv, KeyInv, InTx
  <2>3. OneOrderPerKey'
    BY <2>1, <2>2 DEF IInv, KeyInv, OneOrderPerKey
  <2>4. \A d \in Checkout : d # c /\ InTx(d) => Numbers \in missed'[d]
    BY <1>8, OrderStoreAssumption DEF CommitOrder, Aged, Written, IInv, TypeOK
  <2>5. \A d \in Checkout : d # c => pc[d] # "answered"
    BY <2>1 DEF IInv, LockInv
  <2>6. \A d \in Checkout : InTx(d)' => d # c /\ InTx(d)
    BY <2>1 DEF InTx
  <2>. QED  BY <2>1, <2>3, <2>4, <2>5, <2>6 DEF KeyInv
<1>9. ASSUME NEW e \in Edit, ReadOrder(e)
      PROVE  KeyInv'
  <2>1. /\ status' = status /\ missed' = missed
        /\ \A d \in Checkout : pc'[d] = pc[d]
    BY <1>9, OrderStoreAssumption DEF ReadOrder, Goto, db, IInv, TypeOK, Request
  <2>. QED  BY <2>1 DEF IInv, KeyInv, OneOrderPerKey, Orders, Stored, InTx
<1>10. ASSUME NEW e \in Edit, NEW p \in Product, IncrementStock(e, p)
      PROVE  KeyInv'
  BY <1>10, OrderStoreAssumption DEF IncrementStock, Take, LockFree, db, IInv, TypeOK, StageInv, TargetInv, KeyInv, OneOrderPerKey, Orders, Stored, InTx, Request, Status
<1>11. ASSUME NEW e \in Edit, RecheckPassed(e)
      PROVE  KeyInv'
  BY <1>11, OrderStoreAssumption DEF RecheckPassed, Goto, db, IInv, TypeOK, StageInv, TargetInv, KeyInv, OneOrderPerKey, Orders, Stored, InTx, Request, Status
<1>12. ASSUME NEW e \in Edit, UpdateStatus(e)
      PROVE  KeyInv'
  BY <1>12, OrderStoreAssumption DEF UpdateStatus, Take, LockFree, Goto, db, IInv, TypeOK, StageInv, TargetInv, KeyInv, OneOrderPerKey, Orders, Stored, InTx, Request, Status
<1>13. ASSUME NEW e \in Edit, CommitEdit(e)
      PROVE  KeyInv'
  <2>1. Orders' = Orders
    BY <1>13, OrderStoreAssumption
    DEF CommitEdit, Orders, Stored, Status, IInv, TypeOK, TargetInv
  <2>2. \A d \in Checkout : pc'[d] = pc[d]
    BY <1>13, OrderStoreAssumption DEF CommitEdit, EndTx, IInv, TypeOK, Request
  <2>3. \A d \in Checkout : Numbers \in missed'[d] <=> Numbers \in missed[d]
    BY <1>13, EditsWriteProducts DEF CommitEdit, Aged
  <2>. QED  BY <2>1, <2>2, <2>3 DEF IInv, KeyInv, OneOrderPerKey, Orders, InTx
<1>14. ASSUME NEW x \in Switchable, SwitchListing(x)
      PROVE  KeyInv'
  BY <1>14, OrderStoreAssumption DEF SwitchListing, LockFree, Aged, db, IInv, TypeOK, StageInv, TargetInv, KeyInv, OneOrderPerKey, Orders, Stored, InTx, Request, Status
<1>15. ASSUME NEW r \in Request, RolledBack(r)
      PROVE  KeyInv'
  BY <1>15, OrderStoreAssumption DEF RolledBack, Abort, EndTx, Released, db, IInv, TypeOK, StageInv, TargetInv, KeyInv, OneOrderPerKey, Orders, Stored, InTx, Request, Status
<1>. QED  BY <1>0, <1>1, <1>2, <1>3, <1>4, <1>5, <1>6, <1>7, <1>8, <1>9, <1>10, <1>11, <1>12, <1>13, <1>14, <1>15, StepCases DEF IInv

(* What NumberInv speaks of, left alone.                                   *)
LEMMA NumberFrame ==
  ASSUME IInv, Orders' = Orders, number' = number,
         \A d \in Checkout : pc'[d] = "answered" =>
            pc[d] = "answered" /\ seen'[d][Numbers] = seen[d][Numbers]
  PROVE  NumberInv'
<1>1. Orders \subseteq Checkout /\ \A d \in Checkout : Stored(d) <=> d \in Orders
  BY DEF Orders
<1>2. \A d \in Checkout : Stored(d)' <=> d \in Orders'
  BY DEF Orders
<1>3. \A d \in Checkout : ~ Stored(d)' => number'[d] = 0
  BY <1>1, <1>2 DEF IInv, NumberInv
<1>4. NumbersSequential'
  BY <1>1 DEF IInv, NumberInv, NumbersSequential
<1>. QED  BY <1>3, <1>4 DEF IInv, NumberInv

(* One transaction at a time draws the next number and stores it.          *)
LEMMA NumberStep ==
  ASSUME IInv, [Next]_vars
  PROVE  NumberInv'
<1>0. CASE UNCHANGED vars
  BY <1>0, NumberFrame DEF vars, db, Orders, Stored
<1>1. ASSUME NEW c \in Checkout,
             \/ ResolveUser(c) \/ CommitTurn(c) \/ BeginOrder(c) \/ AcceptCart(c)
             \/ \E p \in Product : LockProduct(c, p)
             \/ ApplyCoupon(c)
      PROVE  NumberInv'
  <2>1. Orders' = Orders /\ number' = number
    BY <1>1 DEF ResolveUser, CommitTurn, BeginOrder, AcceptCart, LockProduct, ApplyCoupon,
                db, Orders, Stored
  <2>2. \A d \in Checkout : pc'[d] = "answered" => pc[d] = "answered"
    <3>1. CASE \E p \in Product : LockProduct(c, p)
      BY <3>1 DEF LockProduct
    <3>2. CASE ~ \E p \in Product : LockProduct(c, p)
      BY <1>1, <3>2 DEF ResolveUser, CommitTurn, BeginOrder, AcceptCart, ApplyCoupon, Goto,
                        IInv, TypeOK, Request
    <3>. QED  BY <3>1, <3>2
  <2>3. \A d \in Checkout : seen'[d][Numbers] = seen[d][Numbers]
    BY <1>1, OrderStoreAssumption
    DEF ResolveUser, CommitTurn, BeginOrder, AcceptCart, LockProduct, ApplyCoupon,
        IInv, TypeOK, Resource, Request
  <2>. QED  BY <2>1, <2>2, <2>3, NumberFrame
<1>2. ASSUME NEW c \in Checkout, CreateWithItems(c)
      PROVE  NumberInv'
  <2>1. Orders' = Orders /\ number' = number
    BY <1>2 DEF CreateWithItems, db, Orders, Stored
  <2>2. LastNumber = Cardinality(Orders)
    BY LastNumberCounts DEF IInv
  <2>3. \A d \in Checkout : d # c => pc'[d] = pc[d] /\ seen'[d] = seen[d]
    BY <1>2 DEF CreateWithItems, Goto, IInv, TypeOK, Request
  <2>4. seen'[c][Numbers] = Cardinality(Orders) + 1
    BY <1>2, <2>2 DEF CreateWithItems, IInv, TypeOK, Request
  <2>5. \A d \in Checkout : pc'[d] = "answered" => seen'[d][Numbers] = Cardinality(Orders) + 1
    BY <2>3, <2>4 DEF IInv, NumberInv
  <2>6. \A d \in Checkout : ~ Stored(d)' => number'[d] = 0
    BY <1>2 DEF CreateWithItems, db, Stored, IInv, NumberInv
  <2>7. NumbersSequential'
    BY <1>2 DEF CreateWithItems, db, NumbersSequential, Orders, Stored, IInv, NumberInv
  <2>. QED  BY <2>1, <2>5, <2>6, <2>7 DEF NumberInv
<1>3. ASSUME NEW c \in Checkout, CommitOrder(c)
      PROVE  NumberInv'
  <2>1. /\ pc[c] = "answered" /\ pc'[c] = "done" /\ Orders' = Orders \cup {c}
        /\ \A d \in Checkout : d # c => pc'[d] = pc[d]
        /\ number' = [number EXCEPT ![c] = seen[c][Numbers]]
        /\ \A d \in Checkout : ~ Stored(d)' => d # c /\ ~ Stored(d)
    BY <1>3 DEF CommitOrder, EndTx, Orders, Stored, IInv, TypeOK, Request
  <2>2. c \notin Orders /\ Orders \subseteq Checkout
    BY <2>1 DEF IInv, KeyInv, InTx, Orders
  <2>3. IsFiniteSet(Orders) /\ Cardinality(Orders) \in Nat
    BY <2>2, OrderStoreAssumption, FS_Subset, FS_CardinalityType
  <2>4. Cardinality(Orders') = Cardinality(Orders) + 1
    BY <2>1, <2>2, <2>3, FS_AddElement
  <2>5. number'[c] = Cardinality(Orders) + 1 /\ \A d \in Orders : number'[d] = number[d]
    BY <2>1, <2>2 DEF IInv, TypeOK, NumberInv
  <2>6. {number'[d] : d \in Orders'} = {number[d] : d \in Orders} \cup {Cardinality(Orders) + 1}
    BY <2>1, <2>5
  <2>7. NumbersSequential'
    BY <2>3, <2>4, <2>6 DEF IInv, NumberInv, NumbersSequential
  <2>8. \A d \in Checkout : ~ Stored(d)' => number'[d] = 0
    BY <2>1 DEF IInv, TypeOK, NumberInv
  <2>9. \A d \in Checkout : pc'[d] # "answered"
    BY <2>1 DEF IInv, LockInv
  <2>. QED  BY <2>7, <2>8, <2>9 DEF NumberInv
<1>4. ASSUME NEW e \in Edit,
             \/ ReadOrder(e) \/ RecheckPassed(e) \/ UpdateStatus(e) \/ CommitEdit(e)
             \/ \E p \in Product : IncrementStock(e, p)
      PROVE  NumberInv'
  <2>1. Orders' = Orders /\ number' = number
    <3>1. CASE CommitEdit(e)
      BY ZenonT(60), <3>1, OrderStoreAssumption
      DEF CommitEdit, Orders, Stored, Status, IInv, TypeOK, TargetInv
    <3>2. CASE ~ CommitEdit(e)
      BY <1>4, <3>2 DEF ReadOrder, RecheckPassed, UpdateStatus, IncrementStock, db, Orders, Stored
    <3>. QED  BY <3>1, <3>2
  <2>2. e \notin Checkout /\ e \in Request /\ Checkout \subseteq Request
    BY OrderStoreAssumption DEF Request
  <2>3. \A d \in Checkout : pc'[d] = pc[d]
    BY <1>4, <2>2 DEF ReadOrder, RecheckPassed, UpdateStatus, IncrementStock, CommitEdit, EndTx,
                      Goto, IInv, TypeOK
  <2>4. \A d \in Checkout : seen'[d] = seen[d]
    BY <1>4, <2>2 DEF ReadOrder, RecheckPassed, UpdateStatus, IncrementStock, CommitEdit, EndTx,
                      IInv, TypeOK
  <2>. QED  BY <2>1, <2>3, <2>4, NumberFrame
<1>5. ASSUME NEW x \in Switchable, SwitchListing(x)
      PROVE  NumberInv'
  BY <1>5, NumberFrame DEF SwitchListing, Orders, Stored
<1>6. ASSUME NEW r \in Request, RolledBack(r)
      PROVE  NumberInv'
  <2>1. Orders' = Orders /\ number' = number
    BY <1>6 DEF RolledBack, Abort, db, Orders, Stored
  <2>2. pc'[r] # "answered" /\ \A d \in Checkout : d # r => pc'[d] = pc[d] /\ seen'[d] = seen[d]
    BY <1>6 DEF RolledBack, Abort, EndTx, IInv, TypeOK, Request
  <2>. QED  BY <2>1, <2>2, NumberFrame
<1>. QED  BY <1>0, <1>1, <1>2, <1>3, <1>4, <1>5, <1>6, StepCases DEF IInv

(* The coupon is counted by the transaction that holds its row.            *)
LEMMA CouponStep ==
  ASSUME IInv, [Next]_vars
  PROVE  CouponAccounting'
<1>0. CASE UNCHANGED vars
  BY <1>0 DEF vars, db, IInv, TypeOK, CouponAccounting, Orders, Stored, Request
<1>1. ASSUME NEW c \in Checkout, ResolveUser(c)
      PROVE  CouponAccounting'
  BY <1>1, OrderStoreAssumption DEF ResolveUser, Goto, db, IInv, TypeOK, CouponAccounting, Orders, Stored, Request
<1>2. ASSUME NEW c \in Checkout, CommitTurn(c)
      PROVE  CouponAccounting'
  BY <1>2, OrderStoreAssumption DEF CommitTurn, Goto, db, IInv, TypeOK, CouponAccounting, Orders, Stored, Request
<1>3. ASSUME NEW c \in Checkout, BeginOrder(c)
      PROVE  CouponAccounting'
  BY <1>3, OrderStoreAssumption DEF BeginOrder, Goto, db, IInv, TypeOK, CouponAccounting, Orders, Stored, Request
<1>4. ASSUME NEW c \in Checkout, NEW p \in Product, LockProduct(c, p)
      PROVE  CouponAccounting'
  BY <1>4, OrderStoreAssumption DEF LockProduct, Take, LockFree, db, IInv, TypeOK, CouponAccounting, Orders, Stored, Request
<1>5. ASSUME NEW c \in Checkout, AcceptCart(c)
      PROVE  CouponAccounting'
  BY <1>5, OrderStoreAssumption DEF AcceptCart, Goto, db, IInv, TypeOK, CouponAccounting, Orders, Stored, Request
<1>6. ASSUME NEW c \in Checkout, ApplyCoupon(c)
      PROVE  CouponAccounting'
  BY <1>6, OrderStoreAssumption DEF ApplyCoupon, Take, LockFree, Goto, db, IInv, TypeOK, CouponAccounting, Orders, Stored, Request
<1>7. ASSUME NEW c \in Checkout, CreateWithItems(c)
      PROVE  CouponAccounting'
  BY <1>7, OrderStoreAssumption DEF CreateWithItems, Take, LockFree, Goto, db, IInv, TypeOK, CouponAccounting, Orders, Stored, Request
<1>8. ASSUME NEW c \in Checkout, CommitOrder(c)
      PROVE  CouponAccounting'
  <2>1. /\ pc[c] = "answered" /\ Orders' = Orders \cup {c}
        /\ used' = IF c \in WithCoupon THEN seen[c][Coupon] + 1 ELSE used
    BY <1>8 DEF CommitOrder, Orders, Stored, IInv, TypeOK
  <2>2. c \notin Orders /\ Orders \subseteq Checkout
    BY <2>1 DEF IInv, KeyInv, InTx, Orders
  <2>3. /\ IsFiniteSet(Orders \cap WithCoupon)
        /\ used \in Nat /\ used = Cardinality(Orders \cap WithCoupon) /\ used <= UsageLimit
    BY <2>2, OrderStoreAssumption, FS_Subset DEF IInv, TypeOK, CouponAccounting
  <2>4. CASE c \in WithCoupon
    <3>1. holder[Coupon] = c /\ Coupon \in Lockable /\ c # Free
      BY <2>1, <2>4, OrderStoreAssumption DEF IInv, LockInv, Lockable, Resource, Request
    <3>2. used' = used + 1 /\ used < UsageLimit
      BY <2>1, <2>4, <3>1 DEF IInv, FreshInv
    <3>3. (Orders \cap WithCoupon)' = (Orders \cap WithCoupon) \cup {c}
      BY <2>1, <2>4
    <3>4. Cardinality((Orders \cap WithCoupon)') = Cardinality(Orders \cap WithCoupon) + 1
      BY <2>2, <2>3, <3>3, FS_AddElement
    <3>. QED  BY <2>3, <3>2, <3>4, OrderStoreAssumption DEF CouponAccounting
  <2>5. CASE c \notin WithCoupon
    BY <2>1, <2>3, <2>5 DEF CouponAccounting
  <2>. QED  BY <2>4, <2>5
<1>9. ASSUME NEW e \in Edit, ReadOrder(e)
      PROVE  CouponAccounting'
  BY <1>9, OrderStoreAssumption DEF ReadOrder, Goto, db, IInv, TypeOK, CouponAccounting, Orders, Stored, Request
<1>10. ASSUME NEW e \in Edit, NEW p \in Product, IncrementStock(e, p)
      PROVE  CouponAccounting'
  BY <1>10, OrderStoreAssumption DEF IncrementStock, Take, LockFree, db, IInv, TypeOK, CouponAccounting, Orders, Stored, Request
<1>11. ASSUME NEW e \in Edit, RecheckPassed(e)
      PROVE  CouponAccounting'
  BY <1>11, OrderStoreAssumption DEF RecheckPassed, Goto, db, IInv, TypeOK, CouponAccounting, Orders, Stored, Request
<1>12. ASSUME NEW e \in Edit, UpdateStatus(e)
      PROVE  CouponAccounting'
  BY <1>12, OrderStoreAssumption DEF UpdateStatus, Take, LockFree, Goto, db, IInv, TypeOK, CouponAccounting, Orders, Stored, Request
<1>13. ASSUME NEW e \in Edit, CommitEdit(e)
      PROVE  CouponAccounting'
  <2>1. Orders' = Orders /\ used' = used
    BY ZenonT(60), <1>13, OrderStoreAssumption
    DEF CommitEdit, Orders, Stored, Status, IInv, TypeOK, TargetInv
  <2>. QED  BY <2>1 DEF IInv, CouponAccounting
<1>14. ASSUME NEW x \in Switchable, SwitchListing(x)
      PROVE  CouponAccounting'
  BY <1>14, OrderStoreAssumption DEF SwitchListing, LockFree, Aged, db, IInv, TypeOK, CouponAccounting, Orders, Stored, Request
<1>15. ASSUME NEW r \in Request, RolledBack(r)
      PROVE  CouponAccounting'
  BY <1>15, OrderStoreAssumption DEF RolledBack, Abort, EndTx, Released, db, IInv, TypeOK, CouponAccounting, Orders, Stored, Request
<1>. QED  BY <1>0, <1>1, <1>2, <1>3, <1>4, <1>5, <1>6, <1>7, <1>8, <1>9, <1>10, <1>11, <1>12, <1>13, <1>14, <1>15, StepCases DEF IInv

-----------------------------------------------------------------------------
LEMMA InvInit ==
  ASSUME Init
  PROVE  IInv
<1>1. TypeOK
  BY OrderStoreAssumption DEF Init, TypeOK, Nothing, Resource, Lockable, Request, MaxAttempts
<1>2. StageInv /\ BudgetInv /\ CartInv /\ TargetInv
  BY OrderStoreAssumption DEF Init, StageInv, BudgetInv, CartInv, TargetInv, Accepted, Request
<1>3. LockInv /\ FreshInv
  BY OrderStoreAssumption
  DEF Init, LockInv, FreshInv, Accepted, Items, Restocked, Lockable, Resource, Request
<1>4. Orders = {} /\ \A c \in Checkout : pc[c] = "arrived"
  BY DEF Init, Orders, Stored, Request
<1>5. KeyInv
  BY <1>4 DEF KeyInv, OneOrderPerKey, InTx
<1>6. Cardinality(Orders) = 0 /\ Cardinality(Orders \cap WithCoupon) = 0
  BY <1>4, FS_EmptySet
<1>7. NumberInv
  BY <1>4, <1>6 DEF Init, NumberInv, NumbersSequential
<1>8. CouponAccounting
  BY <1>6, OrderStoreAssumption DEF Init, CouponAccounting
<1>. QED  BY <1>1, <1>2, <1>3, <1>5, <1>7, <1>8 DEF IInv

LEMMA InvStep ==
  ASSUME IInv, [Next]_vars
  PROVE  IInv'
BY TypeStep, StageStep, BudgetStep, LockStep, FreshStep, CartStep, TargetStep, KeyStep,
   NumberStep, CouponStep DEF IInv

(* Every reachable state satisfies the inductive invariant.                *)
THEOREM Invariance == Spec => []IInv
BY InvInit, InvStep, PTL DEF Spec

(* No request ever drives stock, used_count, an attempt counter or a lock  *)
(* outside its range: stock_quantity is never negative.                    *)
THEOREM TypeCorrect == Spec => []TypeOK
BY Invariance, PTL DEF IInv

(* However carts, retries, crashes and edits interleave, one               *)
(* Idempotency-Key makes at most one order.                                *)
THEOREM KeysUnique == Spec => []OneOrderPerKey
<1>1. IInv => OneOrderPerKey
  BY DEF IInv, KeyInv
<1>. QED  BY <1>1, Invariance, PTL

(* used_count is the number of stored orders with the coupon and at most   *)
(* usage_limit (apply_coupon, record_redemption).                          *)
THEOREM CouponsAccounted == Spec => []CouponAccounting
BY Invariance, PTL DEF IInv

(* Order numbers are 1 .. n without gap or duplicate (_next_order_number). *)
THEOREM NumbersInSequence == Spec => []NumbersSequential
<1>1. IInv => NumbersSequential
  BY DEF IInv, NumberInv
<1>. QED  BY <1>1, Invariance, PTL

(* Locks end with their transaction and cover everything it commits.       *)
THEOREM LocksCorrect == Spec => []LocksFollowTransactions
<1>1. IInv => LocksFollowTransactions
  <2>. SUFFICES ASSUME IInv, NEW r \in Request, pc[r] = "answered", NEW x \in Written(r)
                PROVE  holder[x] = r
    BY DEF IInv, LockInv, LocksFollowTransactions
  <2>1. CASE r \in Edit
    BY <2>1 DEF IInv, LockInv, Written
  <2>2. CASE r \in Checkout /\ r \notin Edit
    BY <2>2 DEF IInv, LockInv, Written, Accepted
  <2>. QED  BY <2>1, <2>2 DEF Request
<1>. QED  BY <1>1, Invariance, PTL

(* An order is stored only while all its products are active.              *)
THEOREM ListedWhenSold == Spec => SoldWhileListed
<1>1. ASSUME IInv, [Next]_vars, NEW c \in Checkout, Stored(c)', ~ Stored(c), NEW p \in Items(c)
      PROVE  listed[p]
  <2>1. CASE CommitOrder(c)
    BY <1>1, <2>1 DEF CommitOrder, IInv, CartInv, Accepted
  <2>2. ASSUME ~ CommitOrder(c)
        PROVE  FALSE
    <3>1. CASE \E e \in Edit : CommitEdit(e)
      BY <1>1, <3>1, OrderStoreAssumption DEF CommitEdit, Stored, IInv, TypeOK, TargetInv
    <3>2. CASE \E d \in Checkout : CommitOrder(d)
      BY ZenonT(60), <1>1, <2>2, <3>2 DEF CommitOrder, Stored, IInv, TypeOK
    <3>3. CASE (\A e \in Edit : ~ CommitEdit(e)) /\ (\A d \in Checkout : ~ CommitOrder(d))
      <4>1. status' = status
        BY <1>1, <3>3, StepCases
        DEF IInv, ResolveUser, CommitTurn, BeginOrder, LockProduct, AcceptCart, ApplyCoupon,
            CreateWithItems, ReadOrder, IncrementStock, RecheckPassed, UpdateStatus,
            SwitchListing, RolledBack, Abort, db, vars
      <4>. QED  BY <1>1, <4>1 DEF Stored
    <3>. QED  BY <3>1, <3>2, <3>3
  <2>. QED  BY <2>1, <2>2
<1>2. ASSUME IInv, [Next]_vars
      PROVE  [\A c \in Checkout : Stored(c)' /\ ~ Stored(c) => \A p \in Items(c) : listed[p]]_vars
  BY <1>1, <1>2
<1>. QED  BY <1>2, Invariance, PTL DEF Spec, SoldWhileListed

-----------------------------------------------------------------------------
(* Stock and statuses, for edits that the callers send one after another.  *)
Serialised ==
  \A e, f \in Edit : e # f /\ Target[e] = Target[f] => <<e, f>> \in Follows \/ <<f, e>> \in Follows

AtWork(e) == pc[e] \in {"restocking", "updating", "answered"}

(* An edit at work still knows the status of its order, and works alone.   *)
EditInv ==
  /\ \A e \in Edit : AtWork(e) => status[Target[e]] = saw[e]
  /\ \A e \in Edit : pc[e] \in {"updating", "answered"} => NewStatus[e] \in Allowed[saw[e]]
  /\ \A e, f \in Edit : <<f, e>> \in Follows /\ pc[e] # "arrived" => pc[f] = "done"

LEMMA WorksAlone ==
  ASSUME Serialised, EditInv, NEW e \in Edit, NEW f \in Edit,
         AtWork(e), AtWork(f), Target[e] = Target[f]
  PROVE  e = f
BY DEF Serialised, EditInv, AtWork

LEMMA DisjointUnion ==
  ASSUME NEW A, NEW B, IsFiniteSet(A), IsFiniteSet(B), A \cap B = {}
  PROVE  /\ IsFiniteSet(A \cup B)
         /\ Cardinality(A \cup B) = Cardinality(A) + Cardinality(B)
<1>1. /\ IsFiniteSet(A \cup B)
      /\ Cardinality(A \cup B) = Cardinality(A) + Cardinality(B) - Cardinality(A \cap B)
  BY FS_Union
<1>2. Cardinality(A \cap B) = 0
  BY FS_EmptySet
<1>3. Cardinality(A) \in Nat /\ Cardinality(B) \in Nat
  BY FS_CardinalityType
<1>. QED  BY <1>1, <1>2, <1>3

(* One more order holds its cart's quantity more.                          *)
LEMMA UnitsAdd ==
  ASSUME NEW S \in SUBSET Checkout, NEW c \in Checkout \ S, NEW p \in Product,
         IsFiniteSet(Units(S, p))
  PROVE  /\ IsFiniteSet(Units(S \cup {c}, p))
         /\ Cardinality(Units(S \cup {c}, p)) = Cardinality(Units(S, p)) + Cart[c][p]
<1>1. Cart[c][p] \in Nat
  BY OrderStoreAssumption
<1>2. /\ IsFiniteSet({c} \X (1 .. Cart[c][p]))
      /\ Cardinality({c} \X (1 .. Cart[c][p])) = Cart[c][p]
  <2>1. IsFiniteSet(1 .. Cart[c][p]) /\ Cardinality(1 .. Cart[c][p]) = Cart[c][p]
    <3>1. \A n \in Nat : IsFiniteSet(1 .. n) /\ Cardinality(1 .. n) = IF 1 > n THEN 0 ELSE n - 1 + 1
      BY FS_Interval
    <3>2. \A n \in Nat : (IF 1 > n THEN 0 ELSE n - 1 + 1) = n
      OBVIOUS
    <3>. QED  BY <1>1, <3>1, <3>2
  <2>2. IsFiniteSet({c}) /\ Cardinality({c}) = 1
    BY FS_Singleton
  <2>3. /\ IsFiniteSet({c} \X (1 .. Cart[c][p]))
        /\ Cardinality({c} \X (1 .. Cart[c][p])) = Cardinality({c}) * Cardinality(1 .. Cart[c][p])
    BY <2>1, <2>2, FS_Product
  <2>4. \A n \in Nat : 1 * n = n
    OBVIOUS
  <2>. QED  BY <1>1, <2>1, <2>2, <2>3, <2>4
<1>3. Units(S \cup {c}, p) = Units(S, p) \cup ({c} \X (1 .. Cart[c][p]))
  BY DEF Units
<1>4. Units(S, p) \cap ({c} \X (1 .. Cart[c][p])) = {}
  BY DEF Units
<1>5. PICK U, V : U = Units(S, p) /\ V = {c} \X (1 .. Cart[c][p])
  OBVIOUS
<1>6. IsFiniteSet(U) /\ IsFiniteSet(V) /\ U \cap V = {} /\ Cardinality(V) = Cart[c][p]
  BY <1>2, <1>4, <1>5
<1>7. IsFiniteSet(U \cup V) /\ Cardinality(U \cup V) = Cardinality(U) + Cardinality(V)
  BY <1>6, DisjointUnion
<1>8. Units(S \cup {c}, p) = U \cup V
  BY <1>3, <1>5
<1>. QED  BY <1>5, <1>6, <1>7, <1>8

StockInv ==
  \A p \in Product : /\ IsFiniteSet(Units(Live, p))
                     /\ stock[p] + Cardinality(Units(Live, p)) = InitialStock[p]

LEMMA EditInvStep ==
  ASSUME Serialised, IInv, EditInv, [Next]_vars
  PROVE  EditInv'
<1>0. CASE UNCHANGED vars
  BY <1>0 DEF vars, db, EditInv, AtWork
<1>1. ASSUME NEW c \in Checkout,
             \/ ResolveUser(c) \/ CommitTurn(c) \/ BeginOrder(c) \/ AcceptCart(c)
             \/ \E p \in Product : LockProduct(c, p)
             \/ ApplyCoupon(c) \/ CreateWithItems(c)
      PROVE  EditInv'
  <2>1. UNCHANGED <<status, saw>>
    BY <1>1 DEF ResolveUser, CommitTurn, BeginOrder, AcceptCart, LockProduct, ApplyCoupon,
                CreateWithItems, db
  <2>2. c \notin Edit /\ c \in Request /\ Edit \subseteq Request
    BY OrderStoreAssumption DEF Request
  <2>3. \A e \in Edit : pc'[e] = pc[e]
    <3>1. CASE \E p \in Product : LockProduct(c, p)
      BY <3>1 DEF LockProduct
    <3>2. CASE ~ \E p \in Product : LockProduct(c, p)
      BY <1>1, <2>2, <3>2 DEF ResolveUser, CommitTurn, BeginOrder, AcceptCart, ApplyCoupon,
                              CreateWithItems, Goto, IInv, TypeOK
    <3>. QED  BY <3>1, <3>2
  <2>. QED  BY <2>1, <2>3 DEF EditInv, AtWork
<1>2. ASSUME NEW c \in Checkout, CommitOrder(c)
      PROVE  EditInv'
  <2>1. c \notin Edit /\ c \in Request /\ Edit \subseteq Request
    BY OrderStoreAssumption DEF Request
  <2>2. \A e \in Edit : pc'[e] = pc[e] /\ saw'[e] = saw[e]
    BY <1>2, <2>1 DEF CommitOrder, EndTx, IInv, TypeOK
  <2>3. ~ Stored(c)
    BY <1>2 DEF CommitOrder, IInv, KeyInv, InTx, Orders
  <2>4. \A e \in Edit : AtWork(e) => status'[Target[e]] = status[Target[e]]
    BY <1>2, <2>3 DEF CommitOrder, IInv, TypeOK, TargetInv, AtWork
  <2>. QED  BY <2>2, <2>4 DEF EditInv, AtWork
<1>3. ASSUME NEW e \in Edit, ReadOrder(e)
      PROVE  EditInv'
  <2>1. /\ pc[e] = "arrived" /\ pc'[e] \in {"restocking", "done"}
        /\ \A f \in Edit : f # e => pc'[f] = pc[f] /\ saw'[f] = saw[f]
        /\ status' = status /\ saw'[e] = status[Target[e]]
    BY <1>3 DEF ReadOrder, Goto, db, IInv, TypeOK, Request
  <2>2. \A f \in Edit : <<f, e>> \in Follows => pc[f] = "done"
    BY <1>3 DEF ReadOrder
  <2>3. (\A f \in Edit : AtWork(f) => status[Target[f]] = saw[f])'
    BY <2>1 DEF EditInv, AtWork
  <2>4. (\A f \in Edit : pc[f] \in {"updating", "answered"} => NewStatus[f] \in Allowed[saw[f]])'
    BY <2>1 DEF EditInv
  <2>5. (\A f, g \in Edit : <<g, f>> \in Follows /\ pc[f] # "arrived" => pc[g] = "done")'
    BY <2>1, <2>2 DEF EditInv
  <2>. QED  BY <2>3, <2>4, <2>5 DEF EditInv
<1>4. ASSUME NEW e \in Edit,
             (\E p \in Product : IncrementStock(e, p)) \/ RecheckPassed(e) \/ UpdateStatus(e)
      PROVE  EditInv'
  <2>1. /\ UNCHANGED <<status, saw>>
        /\ \A f \in Edit : f # e => pc'[f] = pc[f]
    BY <1>4 DEF IncrementStock, RecheckPassed, UpdateStatus, Goto, db, IInv, TypeOK, Request
  <2>2. /\ AtWork(e) /\ pc'[e] \in {"restocking", "updating", "answered"}
        /\ pc'[e] # "restocking" => NewStatus[e] \in Allowed[saw[e]]
    BY <1>4 DEF IncrementStock, RecheckPassed, UpdateStatus, Goto, AtWork, IInv, TypeOK, EditInv,
                Request
  <2>. QED  BY <2>1, <2>2 DEF EditInv, AtWork
<1>5. ASSUME NEW e \in Edit, CommitEdit(e)
      PROVE  EditInv'
  <2>1. /\ AtWork(e) /\ pc'[e] = "done" /\ saw' = saw
        /\ \A f \in Edit : f # e => pc'[f] = pc[f]
        /\ \A d \in Checkout : d # Target[e] => status'[d] = status[d]
    BY <1>5 DEF CommitEdit, EndTx, AtWork, IInv, TypeOK, Request
  <2>2. \A f \in Edit : AtWork(f)' => AtWork(f) /\ Target[f] # Target[e]
    BY <2>1, WorksAlone DEF AtWork
  <2>3. \A f \in Edit : Target[f] \in Checkout
    BY OrderStoreAssumption
  <2>. QED  BY <2>1, <2>2, <2>3 DEF EditInv, AtWork
<1>6. ASSUME NEW x \in Switchable, SwitchListing(x)
      PROVE  EditInv'
  BY <1>6 DEF SwitchListing, EditInv, AtWork
<1>7. ASSUME NEW r \in Request, RolledBack(r)
      PROVE  EditInv'
  <2>1. /\ UNCHANGED <<status, saw>>
        /\ \A f \in Edit : f # r => pc'[f] = pc[f]
        /\ r \in Edit => pc[r] # "arrived" /\ pc'[r] = "done"
    BY <1>7, OrderStoreAssumption DEF RolledBack, Abort, EndTx, db, IInv, TypeOK, Request
  <2>. QED  BY <2>1 DEF EditInv, AtWork
<1>. QED  BY <1>0, <1>1, <1>2, <1>3, <1>4, <1>5, <1>6, <1>7, StepCases DEF IInv

LEMMA StockStep ==
  ASSUME IInv, EditInv, StockInv, [Next]_vars
  PROVE  StockInv'
<1>1. ASSUME NEW c \in Checkout, CommitOrder(c)
      PROVE  StockInv'
  <2>1. c \notin Live /\ Live \in SUBSET Checkout
    BY <1>1 DEF CommitOrder, IInv, KeyInv, InTx, Live, Orders
  <2>2. Live' = Live \cup {c}
    BY <1>1 DEF CommitOrder, Live, Orders, Stored, IInv, TypeOK
  <2>3. \A p \in Items(c) : seen[c][p] = stock[p]
    <3>1. \A p \in Items(c) : p \in Product /\ holder[p] = c /\ c # Free
      BY <1>1, OrderStoreAssumption DEF CommitOrder, IInv, LockInv, Accepted, Items, Request
    <3>. QED  BY <3>1 DEF IInv, FreshInv
  <2>4. ASSUME NEW p \in Product
        PROVE  /\ IsFiniteSet(Units(Live', p))
               /\ stock'[p] + Cardinality(Units(Live', p)) = InitialStock[p]
    <3>1. /\ IsFiniteSet(Units(Live', p))
          /\ Cardinality(Units(Live', p)) = Cardinality(Units(Live, p)) + Cart[c][p]
      BY <2>1, <2>2, UnitsAdd DEF StockInv
    <3>2. Cart[c][p] \in Nat /\ stock[p] \in Nat /\ Cardinality(Units(Live, p)) \in Nat
      BY OrderStoreAssumption, FS_CardinalityType DEF StockInv, IInv, TypeOK
    <3>3. stock'[p] = stock[p] - Cart[c][p]
      BY <1>1, <2>3, <3>2 DEF CommitOrder, Items
    <3>. QED  BY <3>1, <3>2, <3>3 DEF StockInv
  <2>. QED  BY <2>4 DEF StockInv, Units
<1>2. ASSUME NEW e \in Edit, CommitEdit(e)
      PROVE  StockInv'
  <2>. DEFINE t == Target[e]
  <2>1. t \in Checkout /\ Live \subseteq Checkout
    BY OrderStoreAssumption DEF Live, Orders
  <2>2. NewStatus[e] \in Allowed[status[t]] /\ status[t] \in Status
    BY <1>2, <2>1 DEF CommitEdit, EditInv, AtWork, IInv, TypeOK, TargetInv, Stored
  <2>3. t \in Live
    BY <2>1, <2>2 DEF Allowed, Live, Orders, Stored, Status
  <2>4. status' = [status EXCEPT ![t] = NewStatus[e]] /\ NewStatus[e] # "none"
    BY <1>2, OrderStoreAssumption DEF CommitEdit, Status
  <2>5. CASE NewStatus[e] = "cancelled"
    <3>1. Live' = Live \ {t}
      BY <2>1, <2>4, <2>5 DEF Live, Orders, Stored, IInv, TypeOK
    <3>2. \A p \in Items(t) : seen[e][p] = stock[p]
      <4>1. \A p \in Items(t) : p \in Product /\ holder[p] = e /\ e # Free
        BY <1>2, <2>5, OrderStoreAssumption
        DEF CommitEdit, IInv, LockInv, Restocked, Items, Request
      <4>. QED  BY <4>1 DEF IInv, FreshInv
    <3>3. ASSUME NEW p \in Product
          PROVE  /\ IsFiniteSet(Units(Live', p))
                 /\ stock'[p] + Cardinality(Units(Live', p)) = InitialStock[p]
      <4>1. IsFiniteSet(Units(Live', p))
        <5>1. Units(Live', p) \in SUBSET Units(Live, p)
          BY <3>1 DEF Units
        <5>. QED  BY <5>1, FS_Subset DEF StockInv
      <4>2. Live' \in SUBSET Checkout /\ t \in Checkout \ Live' /\ Live = Live' \cup {t}
        BY <2>1, <2>3, <3>1
      <4>3. Cardinality(Units(Live, p)) = Cardinality(Units(Live', p)) + Cart[t][p]
        BY <4>1, <4>2, UnitsAdd
      <4>4. /\ Cart[t][p] \in Nat /\ stock[p] \in Nat
            /\ Cardinality(Units(Live', p)) \in Nat
        BY <2>1, <4>1, OrderStoreAssumption, FS_CardinalityType DEF IInv, TypeOK
      <4>5. stock'[p] = stock[p] + Cart[t][p]
        BY <1>2, <2>5, <3>2, <4>4 DEF CommitEdit, Restocked, Items
      <4>. QED  BY <4>1, <4>3, <4>4, <4>5 DEF StockInv
    <3>. QED  BY <3>3 DEF StockInv, Units
  <2>6. CASE NewStatus[e] # "cancelled"
    <3>1. Live' = Live
      BY <2>1, <2>3, <2>4, <2>6 DEF Live, Orders, Stored, IInv, TypeOK
    <3>2. stock' = stock
      BY <1>2, <2>6 DEF CommitEdit, Restocked, IInv, TypeOK
    <3>. QED  BY <3>1, <3>2 DEF StockInv, Units
  <2>. QED  BY <2>5, <2>6
<1>3. CASE (\A e \in Edit : ~ CommitEdit(e)) /\ (\A c \in Checkout : ~ CommitOrder(c))
  <2>1. UNCHANGED <<stock, status>>
    BY <1>3, StepCases
    DEF IInv, ResolveUser, CommitTurn, BeginOrder, LockProduct, AcceptCart, ApplyCoupon,
        CreateWithItems, ReadOrder, IncrementStock, RecheckPassed, UpdateStatus,
        SwitchListing, RolledBack, Abort, db, vars
  <2>2. Live' = Live
    BY <2>1 DEF Live, Orders, Stored
  <2>. QED  BY <2>1, <2>2 DEF StockInv, Units
<1>. QED  BY <1>1, <1>2, <1>3

StockIInv == IInv /\ EditInv /\ StockInv

LEMMA StockInvInit ==
  ASSUME Init
  PROVE  EditInv /\ StockInv
<1>1. EditInv
  BY DEF Init, EditInv, AtWork, Request
<1>2. Live = {}
  BY DEF Init, Live, Orders, Stored
<1>3. \A p \in Product : Units(Live, p) = {}
  BY <1>2 DEF Units
<1>4. IsFiniteSet({}) /\ Cardinality({}) = 0
  BY FS_EmptySet
<1>5. ASSUME NEW p \in Product
      PROVE  /\ IsFiniteSet(Units(Live, p))
             /\ stock[p] + Cardinality(Units(Live, p)) = InitialStock[p]
  <2>1. stock[p] = InitialStock[p] /\ InitialStock[p] \in Nat
    BY OrderStoreAssumption DEF Init
  <2>. QED  BY <1>3, <1>4, <2>1
<1>. QED  BY <1>1, <1>5 DEF StockInv

LEMMA StockInvariance ==
  ASSUME Serialised
  PROVE  Spec => []StockIInv
<1>1. Init => StockIInv
  BY InvInit, StockInvInit DEF StockIInv
<1>2. StockIInv /\ [Next]_vars => StockIInv'
  BY InvStep, EditInvStep, StockStep DEF StockIInv
<1>. QED  BY <1>1, <1>2, PTL DEF Spec

(* As long as no two edits of one order overlap, every unit is either on   *)
(* hand or in a live order, whatever the checkouts do: the shop never      *)
(* oversells, and a cancellation returns each unit once.                   *)
THEOREM StockAccounted ==
  ASSUME Serialised
  PROVE  Spec => []StockAccounting
<1>1. StockIInv => StockAccounting
  BY DEF StockIInv, StockInv, StockAccounting
<1>. QED  BY <1>1, StockInvariance, PTL

(* As long as no two edits of one order overlap, its status moves only     *)
(* along ALLOWED_STATUS_TRANSITIONS.                                       *)
THEOREM TransitionsValid ==
  ASSUME Serialised
  PROVE  Spec => ValidTransitionsOnly
<1>1. ASSUME StockIInv, [Next]_vars, NEW c \in Orders
      PROVE  status'[c] \in Allowed[status[c]] \cup {status[c]}
  <2>1. CASE \E e \in Edit : CommitEdit(e)
    <3>1. PICK e \in Edit : CommitEdit(e)
      BY <2>1
    <3>2. NewStatus[e] \in Allowed[status[Target[e]]]
      BY <1>1, <3>1 DEF CommitEdit, StockIInv, EditInv, AtWork
    <3>. QED  BY <3>1, <3>2, <1>1 DEF CommitEdit, StockIInv, IInv, TypeOK, Orders
  <2>2. CASE \E d \in Checkout : CommitOrder(d)
    <3>1. PICK d \in Checkout : CommitOrder(d)
      BY <2>2
    <3>2. d # c
      BY <1>1, <3>1 DEF CommitOrder, StockIInv, IInv, KeyInv, InTx
    <3>. QED  BY <1>1, <3>1, <3>2 DEF CommitOrder, StockIInv, IInv, TypeOK, Orders
  <2>3. CASE (\A e \in Edit : ~ CommitEdit(e)) /\ (\A d \in Checkout : ~ CommitOrder(d))
    <3>1. status' = status
      BY <1>1, <2>3, StepCases
      DEF StockIInv, IInv, ResolveUser, CommitTurn, BeginOrder, LockProduct, AcceptCart,
          ApplyCoupon, CreateWithItems, ReadOrder, IncrementStock, RecheckPassed, UpdateStatus,
          SwitchListing, RolledBack, Abort, db, vars
    <3>. QED  BY <3>1
  <2>. QED  BY <2>1, <2>2, <2>3
<1>2. StockIInv /\ [Next]_vars =>
        [\A c \in Orders : status'[c] \in Allowed[status[c]] \cup {status[c]}]_vars
  BY <1>1
<1>. QED  BY <1>2, StockInvariance, PTL DEF Spec, ValidTransitionsOnly

-----------------------------------------------------------------------------
(* The store implements the order book: whatever sessions, snapshots and   *)
(* locks do in between, the committed tables change as if orders were      *)
(* placed, amended and switched one at a time.                             *)

LEMMA BookInit ==
  ASSUME Init
  PROVE  Book!Init
BY DEF Init, Book!Init, Resource

(* A committed checkout is one Place on the current tables.                *)
LEMMA CommitIsPlace ==
  ASSUME StockIInv, NEW c \in Checkout, CommitOrder(c)
  PROVE  Book!Place(c)
<1>1. Book!Placed = Orders /\ Book!Items(c) = Items(c)
  BY DEF Book!Placed, Orders, Stored, Book!Items, Items
<1>2. \A d \in Orders : Key[d] # Key[c]
  BY DEF CommitOrder, StockIInv, IInv, KeyInv, InTx
<1>3. \A p \in Items(c) : p \in Product /\ holder[p] = c /\ c # Free
  BY OrderStoreAssumption DEF CommitOrder, StockIInv, IInv, LockInv, Accepted, Items, Request
<1>4. \A p \in Items(c) : seen[c][p] = stock[p]
  BY <1>3 DEF StockIInv, IInv, FreshInv
<1>5. \A p \in Items(c) : listed[p] /\ Cart[c][p] <= stock[p]
  BY <1>4 DEF CommitOrder, StockIInv, IInv, CartInv, Accepted
<1>6. c \in WithCoupon => listed[Coupon] /\ seen[c][Coupon] = used /\ used < UsageLimit
  <2>1. c \in WithCoupon => holder[Coupon] = c /\ c # Free
    BY OrderStoreAssumption DEF CommitOrder, StockIInv, IInv, LockInv, Request
  <2>. QED  BY <2>1 DEF CommitOrder, StockIInv, IInv, FreshInv, CartInv
<1>7. stock' = [p \in Product |-> stock[p] - Cart[c][p]]
  <2>1. \A p \in Product \ Items(c) : Cart[c][p] = 0 /\ stock[p] - 0 = stock[p]
    BY OrderStoreAssumption DEF Items, StockIInv, IInv, TypeOK
  <2>. QED  BY <1>4, <2>1 DEF CommitOrder
<1>8. number' = [number EXCEPT ![c] = Cardinality(Orders) + 1]
  BY DEF CommitOrder, StockIInv, IInv, NumberInv
<1>9. /\ used' = IF c \in WithCoupon THEN used + 1 ELSE used
      /\ status' = [status EXCEPT ![c] = "pending"]
      /\ UNCHANGED listed
  BY <1>6 DEF CommitOrder
<1>10. Book!Cardinality(Orders) = Cardinality(Orders)
  BY DEF Cardinality, Book!Cardinality
<1>. QED  BY <1>1, <1>2, <1>5, <1>6, <1>7, <1>8, <1>9, <1>10 DEF Book!Place

(* A committed edit is one Amend of its order.                             *)
LEMMA CommitIsAmend ==
  ASSUME StockIInv, NEW e \in Edit, CommitEdit(e)
  PROVE  \E c \in Checkout, s \in {"confirmed", "shipping", "delivered", "cancelled"} :
           Book!Amend(c, s)
<1>. DEFINE t == Target[e]
            s == NewStatus[e]
<1>1. t \in Checkout /\ s \in {"confirmed", "shipping", "delivered", "cancelled"}
  BY OrderStoreAssumption DEF Status
<1>2. s \in Allowed[status[t]] /\ status[t] \in Status
  BY <1>1 DEF CommitEdit, StockIInv, EditInv, AtWork, IInv, TypeOK, TargetInv, Stored
<1>3. s \in Book!Successors(status[t])
  BY <1>2 DEF Allowed, Status, Book!Successors
<1>4. \A p \in Restocked(e) : seen[e][p] = stock[p]
  <2>1. \A p \in Restocked(e) : p \in Product /\ holder[p] = e /\ e # Free
    BY OrderStoreAssumption
    DEF CommitEdit, StockIInv, IInv, LockInv, Restocked, Items, Request
  <2>. QED  BY <2>1 DEF StockIInv, IInv, FreshInv
<1>5. stock' = IF s = "cancelled" THEN [p \in Product |-> stock[p] + Cart[t][p]] ELSE stock
  <2>1. CASE s = "cancelled"
    <3>1. \A p \in Product \ Items(t) : Cart[t][p] = 0 /\ stock[p] + 0 = stock[p]
      BY <1>1, OrderStoreAssumption DEF Items, StockIInv, IInv, TypeOK
    <3>. QED  BY <1>4, <2>1, <3>1 DEF CommitEdit, Restocked
  <2>2. CASE s # "cancelled"
    BY <2>2 DEF CommitEdit, Restocked, StockIInv, IInv, TypeOK
  <2>. QED  BY <2>1, <2>2
<1>6. Book!Amend(t, s)
  BY <1>3, <1>5 DEF CommitEdit, Book!Amend
<1>. QED  BY <1>1, <1>6

LEMMA StepRefines ==
  ASSUME StockIInv, [Next]_vars
  PROVE  [Book!Next]_(Book!book)
<1>1. ASSUME NEW c \in Checkout, CommitOrder(c)
      PROVE  Book!Next
  BY <1>1, CommitIsPlace DEF Book!Next
<1>2. ASSUME NEW e \in Edit, CommitEdit(e)
      PROVE  Book!Next
  BY <1>2, CommitIsAmend DEF Book!Next
<1>3. ASSUME NEW x \in Switchable, SwitchListing(x)
      PROVE  Book!Next
  <2>1. Book!Switch(x)
    BY <1>3 DEF SwitchListing, Book!Switch
  <2>. QED  BY <2>1, OrderStoreAssumption DEF Book!Next, Resource
<1>4. CASE /\ \A c \in Checkout : ~ CommitOrder(c)
           /\ \A e \in Edit : ~ CommitEdit(e)
           /\ \A x \in Switchable : ~ SwitchListing(x)
  <2>1. UNCHANGED db
    BY <1>4, StepCases
    DEF StockIInv, IInv, ResolveUser, CommitTurn, BeginOrder, LockProduct, AcceptCart,
        ApplyCoupon, CreateWithItems, ReadOrder, IncrementStock, RecheckPassed, UpdateStatus,
        RolledBack, Abort, db, vars
  <2>. QED  BY <2>1 DEF db, Book!book
<1>. QED  BY <1>1, <1>2, <1>3, <1>4

(* As long as no two edits of one order overlap, the order service with    *)
(* its sessions, locks, snapshots, retries and crashes behaves on the      *)
(* tables like the atomic order book.                                      *)
THEOREM Refinement ==
  ASSUME Serialised
  PROVE  Spec => ImplementsOrderBook
<1>1. Init => Book!Init
  BY BookInit
<1>2. StockIInv /\ [Next]_vars => [Book!Next]_(Book!book)
  BY StepRefines
<1>. QED  BY <1>1, <1>2, StockInvariance, PTL DEF Spec, ImplementsOrderBook, Book!Spec
=============================================================================
