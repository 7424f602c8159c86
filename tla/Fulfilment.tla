----------------------------- MODULE Fulfilment -----------------------------
(***************************************************************************)
(* One order fulfilled in several deliveries: staff split the order        *)
(* (create_delivery, under the order's row lock), staff and drivers move   *)
(* each delivery along (read without a lock), every change re-derives the  *)
(* order's status, and the order service moves the same status on its own. *)
(* Each request is one READ COMMITTED transaction.                         *)
(***************************************************************************)
EXTENDS Naturals, FiniteSets

CONSTANTS
  Item,       \* lines of the order
  Ordered,    \* Ordered[i]: quantity of line i
  Create,     \* create requests; each names the delivery it may create
  Load,       \* Load[d][i]: quantity of line i that delivery d carries
  Update,     \* delivery status updates
  Of,         \* Of[u]: the delivery updated by u
  DriverApp,  \* the updates sent through the driver endpoint
  Driver,     \* drivers
  Actor,      \* Actor[u]: the driver sending u, or Office for staff
  Office,
  Move,       \* order status updates through the order service
  Apart,      \* pairs of requests that never overlap in time
  OrderRow,   \* the row lock of the order
  Free        \* the holder of a lock nobody holds

Request == Create \cup Update \cup Move
Row     == Create \cup {OrderRow}  \* a delivery row is named by its create request

OrderStatus    == {"pending", "confirmed", "shipping", "delivered", "cancelled"}
DeliveryStatus == {"pending", "shipping", "delivered", "failed", "cancelled"}

ASSUME FulfilmentAssumption ==
  /\ IsFiniteSet(Create) /\ IsFiniteSet(Item)
  /\ Ordered \in [Item -> Nat \ {0}] /\ Item # {}
  /\ Load \in [Create -> [Item -> Nat]]
  /\ Of \in [Update -> Create]
  /\ DriverApp \subseteq Update
  /\ Actor \in [Update -> Driver \cup {Office}] /\ Office \notin Driver
  /\ Create \cap Update = {} /\ Create \cap Move = {} /\ Update \cap Move = {}
  /\ OrderRow \notin Create /\ Free \notin Request

VARIABLES
  order,      \* orders.status
  delivery,   \* deliveries.status, "none" while there is no such delivery
  code,       \* n of deliveries.code <order_number>-D<n>, 0 while there is none
  driver,     \* deliveries.driver_id, Office while nobody is assigned
  holder,     \* who holds each row lock
  pc,         \* control point of each request
  session     \* what each request has read or been asked: the status it wants,
              \* the order status and the delivery statuses it loaded

tables == <<order, delivery, code, driver>>
vars   == <<order, delivery, code, driver, holder, pc, session>>

-----------------------------------------------------------------------------
(* Vocabulary.                                                             *)
DeliveryTransitions == [s \in DeliveryStatus |->
  CASE s = "pending"  -> {"shipping", "delivered", "failed", "cancelled"}
    [] s = "shipping" -> {"delivered", "failed", "cancelled"}
    [] OTHER          -> {}]

OrderTransitions == [s \in OrderStatus |->
  CASE s = "pending"   -> {"confirmed", "cancelled"}
    [] s = "confirmed" -> {"shipping", "cancelled"}
    [] s = "shipping"  -> {"delivered", "cancelled"}
    [] OTHER           -> {}]

Nobody == [d \in Create |-> "none"]

NoSession == [want |-> "none", order |-> "none", deliveries |-> Nobody]

Created(ds) == {d \in Create : ds[d] # "none"}

(* The units of line i that the deliveries of S carry.                     *)
Carried(S, i) == UNION {{d} \X (1 .. Load[d][i]) : d \in S}

(* Mutant: what was delivered no longer counts.                            *)
Underway(ds) == {d \in Create : ds[d] \in {"pending", "shipping"}}

(* The deliveries whose lines count as allocated.                          *)
Allocated(ds) == {d \in Create : ds[d] \notin {"none", "failed", "cancelled"}}

Delivered(ds) == {d \in Create : ds[d] = "delivered"}

FullyDelivered(ds) == \A i \in Item : Cardinality(Carried(Delivered(ds), i)) >= Ordered[i]

(* Mutant: a cancelled order is rolled up like any other.                  *)
RolledUpAlways(o, ds) ==
  IF Created(ds) = {} THEN o
  ELSE IF FullyDelivered(ds) THEN "delivered"
  ELSE IF o \in {"pending", "confirmed"} /\ \E d \in Create : ds[d] = "shipping" THEN "shipping"
  ELSE o

(* _roll_up_order_status: the order status derived from o and ds.          *)
RolledUp(o, ds) ==
  IF Created(ds) = {} \/ o = "cancelled" THEN o
  ELSE IF FullyDelivered(ds) THEN "delivered"
  ELSE IF o \in {"pending", "confirmed"} /\ \E d \in Create : ds[d] = "shipping" THEN "shipping"
  ELSE o

InTx(r) == pc[r] \notin {"arrived", "done"}

Init ==
  /\ order \in {"pending", "confirmed"}
  /\ delivery = Nobody
  /\ code = [d \in Create |-> 0]
  /\ driver = [d \in Create |-> Office]
  /\ holder = [x \in Row |-> Free]
  /\ pc = [r \in Request |-> "arrived"]
  /\ session = [r \in Request |-> NoSession]

LockFree(x) == holder[x] = Free

Take(r, x) ==
  /\ LockFree(x)
  /\ holder' = [holder EXCEPT ![x] = r]

Goto(r, next) == pc' = [pc EXCEPT ![r] = next]

(* The end of r's transaction, by commit or rollback, and of its session.  *)
EndTx(r) ==
  /\ holder' = [x \in Row |-> IF holder[x] = r THEN Free ELSE holder[x]]
  /\ session' = [session EXCEPT ![r] = NoSession]
  /\ Goto(r, "done")

(* A refusal before r locked or wrote anything.                            *)
Refuse(r) ==
  /\ Goto(r, "done")
  /\ UNCHANGED <<tables, holder, session>>

MaySend(r) == pc[r] = "arrived" /\ \A q \in Request : <<q, r>> \in Apart => ~ InTx(q)

-----------------------------------------------------------------------------
(* Mutant of LockOrder: the order is read without FOR UPDATE.              *)
ReadOrderUnlocked(d) ==
  /\ MaySend(d)
  /\ Goto(d, "locked")
  /\ session' = [session EXCEPT ![d].order = order]
  /\ UNCHANGED <<tables, holder>>

(* create_delivery: SELECT ... FOR UPDATE of the order.                    *)
LockOrder(d) ==
  /\ MaySend(d)
  /\ Take(d, OrderRow)
  /\ Goto(d, "locked")
  /\ session' = [session EXCEPT ![d].order = order]
  /\ UNCHANGED tables

Fits(d, ds) ==
  \A i \in Item : Load[d][i] > 0 =>
    Cardinality(Carried(Allocated(ds), i)) + Load[d][i] <= Ordered[i]

(* The deliveries are loaded by a second query and the lines checked.      *)
AllocateLines(d) ==
  /\ pc[d] = "locked"
  /\ IF session[d].order # "cancelled" /\ Fits(d, delivery)
       THEN /\ Goto(d, "answered")
            /\ session' = [session EXCEPT ![d].deliveries = delivery]
            /\ UNCHANGED holder
       ELSE EndTx(d)
  /\ UNCHANGED tables

(* Mutant: the new delivery is counted too.                                *)
NextCodeAfterInsert(ds) == Cardinality(Created(ds)) + 2

NextCode(ds) == Cardinality(Created(ds)) + 1

CodeTaken(n) == \E e \in Created(delivery) : code[e] = n

(* The INSERT, which the index on (order_id, code) refuses when the code   *)
(* is taken, and the roll-up, over the deliveries loaded before it.        *)
CommitDelivery(d) ==
  /\ pc[d] = "answered" /\ d \in Create
  /\ LET n == NextCode(session[d].deliveries)
     IN  IF CodeTaken(n) THEN UNCHANGED <<order, delivery, code>>
         ELSE /\ delivery' = [delivery EXCEPT ![d] = "pending"]
              /\ code' = [code EXCEPT ![d] = n]
              /\ order' = RolledUp(session[d].order, session[d].deliveries)
  /\ EndTx(d)
  /\ UNCHANGED driver

-----------------------------------------------------------------------------
(* assign_driver: one UPDATE, which waits for the row.                     *)
AssignDriver(d, v) ==
  /\ delivery[d] # "none" /\ driver[d] # v
  /\ LockFree(d)
  /\ driver' = [driver EXCEPT ![d] = v]
  /\ UNCHANGED <<order, delivery, code, holder, pc, session>>

(* What each endpoint lets its caller ask for.                             *)
Asked(u) == IF u \in DriverApp THEN {"delivered", "failed"} ELSE DeliveryStatus

OwnDelivery(u) == u \in DriverApp /\ Actor[u] # Office => driver[Of[u]] = Actor[u]

(* update_delivery_status, driver_update_status: the delivery is read      *)
(* without a lock. The driver endpoint loads its order and the order's     *)
(* other deliveries with it and then flushes; the staff endpoint flushes   *)
(* first. The steps left to u are "flush", "order", "siblings", "rollup".  *)
FirstStep(u) == IF u \in DriverApp THEN "order" ELSE "flush"

StepAfter(u, step) ==
  IF u \in DriverApp
    THEN CASE step = "order" -> "siblings" [] step = "siblings" -> "flush" [] OTHER -> "rollup"
    ELSE CASE step = "flush" -> "order"    [] step = "order" -> "siblings" [] OTHER -> "rollup"

(* Mutant: the requested status is not checked against the current one.    *)
ReadDeliveryUnchecked(u, s) ==
  /\ MaySend(u)
  /\ IF delivery[Of[u]] # "none" /\ OwnDelivery(u)
       THEN /\ Goto(u, FirstStep(u))
            /\ session' = [session EXCEPT ![u].want = s]
            /\ UNCHANGED <<tables, holder>>
       ELSE Refuse(u)

ReadDelivery(u, s) ==
  /\ MaySend(u)
  /\ IF /\ delivery[Of[u]] # "none" /\ OwnDelivery(u)
        /\ s \in DeliveryTransitions[delivery[Of[u]]]
       THEN /\ Goto(u, FirstStep(u))
            /\ session' = [session EXCEPT ![u].want = s]
            /\ UNCHANGED <<tables, holder>>
       ELSE Refuse(u)

(* UPDATE deliveries SET status: waits for the row, then overwrites it.    *)
FlushDelivery(u) ==
  /\ pc[u] = "flush"
  /\ Take(u, Of[u])
  /\ Goto(u, StepAfter(u, "flush"))
  /\ UNCHANGED <<tables, session>>

LoadOrder(u) ==
  /\ pc[u] = "order"
  /\ session' = [session EXCEPT ![u].order = order]
  /\ Goto(u, StepAfter(u, "order"))
  /\ UNCHANGED <<tables, holder>>

(* The deliveries of the order, u's own change included.                   *)
LoadSiblings(u) ==
  /\ pc[u] = "siblings"
  /\ session' = [session EXCEPT ![u].deliveries =
                   [delivery EXCEPT ![Of[u]] = session[u].want]]
  /\ Goto(u, StepAfter(u, "siblings"))
  /\ UNCHANGED <<tables, holder>>

(* The order status that u derives.                                        *)
Derived(u) == RolledUp(session[u].order, session[u].deliveries)

(* Mutant: nobody re-derives the order status.                             *)
SkipRollUp(u) ==
  /\ pc[u] = "rollup"
  /\ Goto(u, "answered")
  /\ UNCHANGED <<tables, holder, session>>

(* The roll-up writes the order row only when the status changes.          *)
RollUp(u) ==
  /\ pc[u] = "rollup"
  /\ IF Derived(u) = session[u].order THEN UNCHANGED holder ELSE Take(u, OrderRow)
  /\ Goto(u, "answered")
  /\ UNCHANGED <<tables, session>>

CommitUpdate(u) ==
  /\ pc[u] = "answered" /\ u \in Update
  /\ delivery' = [delivery EXCEPT ![Of[u]] = session[u].want]
  /\ order' = IF holder[OrderRow] = u THEN Derived(u) ELSE order
  /\ EndTx(u)
  /\ UNCHANGED <<code, driver>>

-----------------------------------------------------------------------------
(* The order service's own status update (stock is OrderStore's subject).  *)
ReadOrder(m, s) ==
  /\ MaySend(m)
  /\ IF s \in OrderTransitions[order]
       THEN /\ Goto(m, "moving")
            /\ session' = [session EXCEPT ![m].want = s, ![m].order = order]
            /\ UNCHANGED <<tables, holder>>
       ELSE Refuse(m)

WriteOrder(m) ==
  /\ pc[m] = "moving"
  /\ Take(m, OrderRow)
  /\ Goto(m, "answered")
  /\ UNCHANGED <<tables, session>>

CommitMove(m) ==
  /\ pc[m] = "answered" /\ m \in Move
  /\ order' = session[m].want
  /\ EndTx(m)
  /\ UNCHANGED <<delivery, code, driver>>

(* The process or the connection dies in the middle of a transaction.      *)
ConnectionLost(r) ==
  /\ InTx(r)
  /\ EndTx(r)
  /\ UNCHANGED tables

Next ==
  \/ \E d \in Create : LockOrder(d) \/ AllocateLines(d) \/ CommitDelivery(d)
  \/ \E d \in Create, v \in Driver \cup {Office} : AssignDriver(d, v)
  \/ \E u \in Update : \/ \E s \in Asked(u) : ReadDelivery(u, s)
                       \/ FlushDelivery(u) \/ LoadOrder(u) \/ LoadSiblings(u)
                       \/ RollUp(u) \/ CommitUpdate(u)
  \/ \E m \in Move : \/ \E s \in OrderStatus : ReadOrder(m, s)
                     \/ WriteOrder(m) \/ CommitMove(m)
  \/ \E r \in Request : ConnectionLost(r)

Spec == Init /\ [][Next]_vars
-----------------------------------------------------------------------------
(* Every variable keeps its shape.                                         *)
TypeOK ==
  /\ order \in OrderStatus
  /\ delivery \in [Create -> DeliveryStatus \cup {"none"}]
  /\ code \in [Create -> 0 .. Cardinality(Create)]
  /\ driver \in [Create -> Driver \cup {Office}]
  /\ holder \in [Row -> Request \cup {Free}]
  /\ pc \in [Request -> {"arrived", "locked", "flush", "order", "siblings", "rollup",
                         "moving", "answered", "done"}]
  /\ session \in [Request ->
       [want : OrderStatus \cup DeliveryStatus \cup {"none"},
        order : OrderStatus \cup {"none"},
        deliveries : [Create -> DeliveryStatus \cup {"none"}]]]

(* No line is promised to deliveries beyond what was ordered, although     *)
(* failed deliveries give their share back while others are being created  *)
(* (create_delivery, _allocated_quantities).                               *)
NoOverAllocation ==
  LET Promised == {d \in Create : delivery[d] \in {"pending", "shipping", "delivered"}}
  IN  \A i \in Item : Cardinality(Carried(Promised, i)) <= Ordered[i]

(* A delivery about to be inserted never draws a code that another one     *)
(* carries, whatever happened to the deliveries counted (create_delivery   *)
(* derives the code from their number).                                    *)
CodesNeverClash ==
  \A d \in Create : pc[d] = "answered" => ~ CodeTaken(NextCode(session[d].deliveries))

(* When nobody is at work, an order whose lines were all delivered is      *)
(* delivered and one with a delivery on the road is at least shipping      *)
(* (_roll_up_order_status), unless it was cancelled.                       *)
OrderRolledUp ==
  (\A r \in Request : ~ InTx(r)) /\ order # "cancelled" =>
    RolledUp(order, delivery) = order

(* A cancelled or delivered order stays so: no roll-up and no order update *)
(* writes over it.                                                         *)
TerminalOrderStays ==
  [][(order \in {"delivered", "cancelled"}) => UNCHANGED order]_vars

(* A delivery that ended (delivered, failed, cancelled) never changes.     *)
EndedDeliveryStays ==
  [][\A d \in Create : delivery[d] \in {"delivered", "failed", "cancelled"} =>
       delivery'[d] = delivery[d]]_vars
=============================================================================
