-------------------------- MODULE FulfilmentProofs --------------------------
(***************************************************************************)
(* Proofs about Fulfilment, for any order, any sets of creations, updates  *)
(* and moves, and any quantities. What holds whatever overlaps is proved   *)
(* from Core; what needs updates of one delivery, or all status changes,   *)
(* to be apart is proved from Core, Shares and Rolled under that           *)
(* hypothesis on Apart.                                                    *)
(***************************************************************************)
EXTENDS Fulfilment, FiniteSetTheorems, TLAPS

-----------------------------------------------------------------------------
(* The hypotheses on who may overlap with whom.                            *)

(* Two updates of the same delivery are never in progress together.        *)
UpdatesApart ==
  \A u, w \in Update : u # w /\ Of[u] = Of[w] => <<u, w>> \in Apart

(* No two status changes, of deliveries or of the order, are in progress   *)
(* together; creations overlap with them and with each other.              *)
StatusChangesApart ==
  \A p, q \in Update \cup Move : p # q => <<p, q>> \in Apart

-----------------------------------------------------------------------------
(* The inductive invariants, by topic.                                     *)

(* Which control points a request can be at.                               *)
StageInv ==
  /\ \A d \in Create : pc[d] \in {"arrived", "locked", "answered", "done"}
  /\ \A u \in Update : pc[u] \in {"arrived", "flush", "order", "siblings", "rollup",
                                  "answered", "done"}
  /\ \A m \in Move : pc[m] \in {"arrived", "moving", "answered", "done"}

(* A creation holds the order row from its first read to its commit, and   *)
(* so does whoever is about to write the order.                            *)
LockInv ==
  /\ \A d \in Create : pc[d] \in {"locked", "answered"} => holder[OrderRow] = d
  /\ \A u \in Update : holder[OrderRow] = u => pc[u] = "answered"
  /\ \A m \in Move : pc[m] = "answered" => holder[OrderRow] = m

OrderLoaded(u) ==
  \/ pc[u] \in {"siblings", "rollup", "answered"}
  \/ u \in DriverApp /\ pc[u] = "flush"

SiblingsLoaded(u) ==
  \/ pc[u] \in {"rollup", "answered"}
  \/ u \in DriverApp /\ pc[u] = "flush"

(* A request at work has read an order, or asked for a status, that there  *)
(* is, and an update has a delivery to update.                             *)
AskedInv ==
  /\ \A d \in Create : InTx(d) => session[d].order \in OrderStatus
  /\ \A u \in Update :
       /\ InTx(u) => session[u].want \in DeliveryStatus /\ delivery[Of[u]] # "none"
       /\ OrderLoaded(u) => session[u].order \in OrderStatus
  /\ \A m \in Move : InTx(m) => session[m].want \in OrderStatus

(* Deliveries are numbered from 1 without repetition, and the number of    *)
(* them that an accepted creation counted is still their number.           *)
CodeInv ==
  /\ \A d \in Create : pc[d] # "done" => delivery[d] = "none"
  /\ \A d \in Created(delivery) : code[d] \in 1 .. Cardinality(Created(delivery))
  /\ \A d, e \in Created(delivery) : d # e => code[d] # code[e]
  /\ \A d \in Create : pc[d] = "answered" => Created(session[d].deliveries) = Created(delivery)

Core == TypeOK /\ StageInv /\ LockInv /\ AskedInv /\ CodeInv

(* An update at work has its delivery to itself, and what it asks for is   *)
(* still a transition of it.                                               *)
WantInv ==
  /\ \A u, w \in Update : InTx(u) /\ InTx(w) /\ Of[u] = Of[w] => u = w
  /\ \A u \in Update : InTx(u) => session[u].want \in DeliveryTransitions[delivery[Of[u]]]

(* The allocated shares are within the order and leave room for a creation *)
(* whose lines were accepted.                                              *)
FitInv ==
  /\ \A i \in Item : Cardinality(Carried(Allocated(delivery), i)) <= Ordered[i]
  /\ \A d \in Create : pc[d] = "answered" => Fits(d, delivery)

Shares == WantInv /\ FitInv

(* At most one status change is at work.                                   *)
AloneInv == \A p, q \in Update \cup Move : InTx(p) /\ InTx(q) => p = q

(* es is ds after some deliveries were created.                            *)
Grown(ds, es) == \A d \in Create : es[d] = ds[d] \/ (ds[d] = "none" /\ es[d] = "pending")

(* The order row agrees with the committed deliveries at all times.        *)
SettledInv == RolledUp(order, delivery) = order

(* What a creation loaded under its lock is still the order, and its       *)
(* roll-up has nothing to change.                                          *)
SnapshotInv ==
  /\ \A d \in Create : InTx(d) => session[d].order = order
  /\ \A d \in Create : pc[d] = "answered" => RolledUp(order, session[d].deliveries) = order

(* What an update loaded without a lock is still so, up to the creations   *)
(* since, and it takes the order row when it has a change to write.        *)
LoadedInv ==
  /\ \A u \in Update : OrderLoaded(u) => session[u].order = order
  /\ \A u \in Update : SiblingsLoaded(u) =>
       /\ Grown(session[u].deliveries, [delivery EXCEPT ![Of[u]] = session[u].want])
       /\ session[u].deliveries[Of[u]] # "none"
  /\ \A u \in Update : pc[u] = "answered" /\ holder[OrderRow] # u => Derived(u) = session[u].order

(* What a move asks for is still a transition of the order.                *)
MoveInv == \A m \in Move : InTx(m) => session[m].want \in OrderTransitions[order]

RollInv == SettledInv /\ SnapshotInv /\ LoadedInv /\ MoveInv

Rolled == AloneInv /\ RollInv

-----------------------------------------------------------------------------
(* The steps, with their refusals and rollbacks apart.                     *)

(* r ends without a trace: a refusal under the lock, a code already taken, *)
(* a lost connection.                                                      *)
GaveUp(r) == InTx(r) /\ EndTx(r) /\ UNCHANGED tables

(* r is turned down by its first read.                                     *)
Refused(r) == pc[r] = "arrived" /\ Refuse(r)

AcceptLines(d) ==
  /\ pc[d] = "locked" /\ session[d].order # "cancelled" /\ Fits(d, delivery)
  /\ Goto(d, "answered")
  /\ session' = [session EXCEPT ![d].deliveries = delivery]
  /\ UNCHANGED <<tables, holder>>

InsertDelivery(d) ==
  /\ pc[d] = "answered" /\ d \in Create
  /\ ~ CodeTaken(NextCode(session[d].deliveries))
  /\ delivery' = [delivery EXCEPT ![d] = "pending"]
  /\ code' = [code EXCEPT ![d] = NextCode(session[d].deliveries)]
  /\ order' = RolledUp(session[d].order, session[d].deliveries)
  /\ EndTx(d)
  /\ UNCHANGED driver

BeginUpdate(u, s) ==
  /\ MaySend(u) /\ delivery[Of[u]] # "none" /\ s \in DeliveryTransitions[delivery[Of[u]]]
  /\ Goto(u, FirstStep(u))
  /\ session' = [session EXCEPT ![u].want = s]
  /\ UNCHANGED <<tables, holder>>

BeginMove(m, s) ==
  /\ MaySend(m) /\ s \in OrderTransitions[order]
  /\ Goto(m, "moving")
  /\ session' = [session EXCEPT ![m].want = s, ![m].order = order]
  /\ UNCHANGED <<tables, holder>>

LEMMA StepCases ==
  ASSUME TypeOK, [Next]_vars
  PROVE  \/ UNCHANGED vars
         \/ \E d \in Create : LockOrder(d) \/ AcceptLines(d) \/ InsertDelivery(d)
         \/ \E d \in Create, v \in Driver \cup {Office} : AssignDriver(d, v)
         \/ \E u \in Update :
              \/ \E s \in DeliveryStatus : BeginUpdate(u, s)
              \/ FlushDelivery(u) \/ LoadOrder(u) \/ LoadSiblings(u)
              \/ RollUp(u) \/ CommitUpdate(u)
         \/ \E m \in Move :
              \/ \E s \in OrderStatus : BeginMove(m, s)
              \/ WriteOrder(m) \/ CommitMove(m)
         \/ \E r \in Request : GaveUp(r) \/ Refused(r)
<1>1. ASSUME NEW d \in Create, AllocateLines(d)
      PROVE  AcceptLines(d) \/ GaveUp(d)
  BY <1>1 DEF AllocateLines, AcceptLines, GaveUp, InTx, tables
<1>2. ASSUME NEW d \in Create, CommitDelivery(d)
      PROVE  InsertDelivery(d) \/ GaveUp(d)
  BY <1>2 DEF CommitDelivery, InsertDelivery, GaveUp, InTx, tables
<1>3. ASSUME NEW u \in Update, NEW s \in Asked(u), ReadDelivery(u, s)
      PROVE  s \in DeliveryStatus /\ (BeginUpdate(u, s) \/ Refused(u))
  BY <1>3 DEF ReadDelivery, MaySend, BeginUpdate, Refused, Asked, DeliveryStatus
<1>4. ASSUME NEW m \in Move, NEW s \in OrderStatus, ReadOrder(m, s)
      PROVE  BeginMove(m, s) \/ Refused(m)
  BY <1>4 DEF ReadOrder, MaySend, BeginMove, Refused
<1>5. ASSUME NEW r \in Request, ConnectionLost(r)
      PROVE  GaveUp(r)
  BY <1>5 DEF ConnectionLost, GaveUp
<1>. QED  BY <1>1, <1>2, <1>3, <1>4, <1>5 DEF Next, Request

(* The end of a transaction, request by request and lock by lock.          *)
LEMMA EndTxEffect ==
  ASSUME TypeOK, NEW r \in Request, EndTx(r)
  PROVE  /\ pc'[r] = "done"
         /\ \A q \in Request : q # r => pc'[q] = pc[q] /\ session'[q] = session[q]
         /\ \A x \in Row : holder'[x] = IF holder[x] = r THEN Free ELSE holder[x]
BY DEF EndTx, Goto, TypeOK

(* What the roll-up returns is an order status.                            *)
LEMMA RolledUpType ==
  ASSUME NEW o \in OrderStatus, NEW ds
  PROVE  RolledUp(o, ds) \in OrderStatus
BY DEF RolledUp, OrderStatus

(* The deliveries counted are finitely many.                               *)
LEMMA CreatedFinite ==
  ASSUME NEW ds
  PROVE  /\ Created(ds) \subseteq Create /\ IsFiniteSet(Created(ds))
         /\ Cardinality(Created(ds)) \in Nat
         /\ IsFiniteSet(Create) /\ Cardinality(Create) \in Nat
         /\ Cardinality(Created(ds)) <= Cardinality(Create)
<1>1. Created(ds) \subseteq Create
  BY DEF Created
<1>. QED  BY <1>1, FulfilmentAssumption, FS_Subset, FS_CardinalityType

(* A creation adds one delivery to those there are.                        *)
LEMMA CreatedGrows ==
  ASSUME TypeOK, NEW d \in Create, delivery[d] = "none",
         delivery' = [delivery EXCEPT ![d] = "pending"]
  PROVE  /\ Created(delivery)' = Created(delivery) \cup {d}
         /\ Cardinality(Created(delivery))' = Cardinality(Created(delivery)) + 1
         /\ Cardinality(Created(delivery)) + 1 <= Cardinality(Create)
<1>1. Created(delivery') = Created(delivery) \cup {d} /\ d \notin Created(delivery)
  BY DEF Created, TypeOK
<1>2. Cardinality(Created(delivery')) = Cardinality(Created(delivery)) + 1
  BY <1>1, CreatedFinite, FS_AddElement
<1>3. Cardinality(Created(delivery')) <= Cardinality(Create)
  BY CreatedFinite
<1>. QED  BY <1>1, <1>2, <1>3

(* The code an accepted creation draws is above every code in use.         *)
LEMMA CodeIsFree ==
  ASSUME Core, NEW d \in Create, pc[d] = "answered"
  PROVE  /\ delivery[d] = "none"
         /\ NextCode(session[d].deliveries) = Cardinality(Created(delivery)) + 1
         /\ ~ CodeTaken(NextCode(session[d].deliveries))
<1>1. Cardinality(Created(delivery)) \in Nat
  BY CreatedFinite
<1>2. NextCode(session[d].deliveries) = Cardinality(Created(delivery)) + 1
  BY DEF NextCode, Core, CodeInv
<1>3. \A e \in Created(delivery) : code[e] \in 1 .. Cardinality(Created(delivery))
  BY DEF Core, CodeInv
<1>. QED  BY <1>1, <1>2, <1>3 DEF CodeTaken, Core, CodeInv

(* What a request has read or asked for, as the type invariant has it.     *)
Session == [want : OrderStatus \cup DeliveryStatus \cup {"none"},
            order : OrderStatus \cup {"none"},
            deliveries : [Create -> DeliveryStatus \cup {"none"}]]

(* Noting one more thing read keeps the sessions' shape.                   *)
LEMMA SessionUpdates ==
  ASSUME TypeOK, NEW r \in Request
  PROVE  /\ session[r] \in Session
         /\ \A o \in OrderStatus : [session EXCEPT ![r].order = o] \in [Request -> Session]
         /\ \A w \in OrderStatus \cup DeliveryStatus :
              [session EXCEPT ![r].want = w] \in [Request -> Session]
         /\ \A w, o \in OrderStatus :
              [session EXCEPT ![r].want = w, ![r].order = o] \in [Request -> Session]
         /\ \A ds \in [Create -> DeliveryStatus \cup {"none"}] :
              [session EXCEPT ![r].deliveries = ds] \in [Request -> Session]
<1>1. session \in [Request -> Session]
  BY DEF TypeOK, Session
<1>2. session[r] \in Session
  BY <1>1
<1>3. ASSUME NEW o \in OrderStatus
      PROVE  [session EXCEPT ![r].order = o] \in [Request -> Session]
  <2>1. [session[r] EXCEPT !.order = o] \in Session
    BY <1>2 DEF Session
  <2>. QED  BY <1>1, <2>1
<1>4. ASSUME NEW w \in OrderStatus \cup DeliveryStatus
      PROVE  [session EXCEPT ![r].want = w] \in [Request -> Session]
  <2>1. [session[r] EXCEPT !.want = w] \in Session
    BY <1>2 DEF Session
  <2>. QED  BY <1>1, <2>1
<1>5. ASSUME NEW w \in OrderStatus, NEW o \in OrderStatus
      PROVE  [session EXCEPT ![r].want = w, ![r].order = o] \in [Request -> Session]
  <2>1. [session[r] EXCEPT !.want = w, !.order = o] \in Session
    BY <1>2 DEF Session
  <2>. QED  BY <1>1, <2>1
<1>6. ASSUME NEW ds \in [Create -> DeliveryStatus \cup {"none"}]
      PROVE  [session EXCEPT ![r].deliveries = ds] \in [Request -> Session]
  <2>1. [session[r] EXCEPT !.deliveries = ds] \in Session
    BY <1>2 DEF Session
  <2>. QED  BY <1>1, <2>1
<1>. QED  BY <1>2, <1>3, <1>4, <1>5, <1>6

(* Every step keeps the types.                                             *)
LEMMA TypeStep ==
  ASSUME Core, [Next]_vars
  PROVE  TypeOK'
<1>0. CASE UNCHANGED vars
  BY <1>0 DEF vars, tables, Core, TypeOK, NoSession, Nobody
<1>1. ASSUME NEW d \in Create, LockOrder(d)
      PROVE  TypeOK'
  <2>1. session' \in [Request -> Session]
    BY <1>1, FulfilmentAssumption, SessionUpdates DEF LockOrder, Core, TypeOK, Request
  <2>. QED  BY <1>1, <2>1, FulfilmentAssumption DEF LockOrder, MaySend, Take, LockFree, Goto, tables, Core, TypeOK, Session, Request, Row
<1>2. ASSUME NEW d \in Create, AcceptLines(d)
      PROVE  TypeOK'
  <2>1. session' \in [Request -> Session]
    BY <1>2, FulfilmentAssumption, SessionUpdates DEF AcceptLines, Core, TypeOK, Request
  <2>. QED  BY <1>2, <2>1, FulfilmentAssumption DEF AcceptLines, Goto, tables, Core, TypeOK, Session, Request, Row
<1>3. ASSUME NEW d \in Create, InsertDelivery(d)
      PROVE  TypeOK'
  <2>1. /\ delivery[d] = "none"
        /\ code' = [code EXCEPT ![d] = Cardinality(Created(delivery)) + 1]
        /\ delivery' = [delivery EXCEPT ![d] = "pending"]
    BY <1>3, CodeIsFree DEF InsertDelivery
  <2>2. Cardinality(Created(delivery)) + 1 \in 0 .. Cardinality(Create)
    <3>1. Cardinality(Created(delivery)) + 1 <= Cardinality(Create)
      BY <2>1, CreatedGrows DEF Core
    <3>. QED  BY <3>1, CreatedFinite
  <2>3. order' \in OrderStatus
    <3>1. session[d].order \in OrderStatus
      BY <1>3 DEF InsertDelivery, InTx, Core, AskedInv
    <3>. QED  BY <1>3, <3>1, RolledUpType DEF InsertDelivery
  <2>4. /\ delivery' \in [Create -> DeliveryStatus \cup {"none"}]
        /\ code' \in [Create -> 0 .. Cardinality(Create)]
    BY <2>1, <2>2 DEF Core, TypeOK, DeliveryStatus
  <2>. QED  BY <1>3, <2>3, <2>4 DEF InsertDelivery, EndTx, Goto, Core, TypeOK, NoSession, Nobody, Request
<1>4. ASSUME NEW d \in Create, NEW v \in Driver \cup {Office}, AssignDriver(d, v)
      PROVE  TypeOK'
  BY <1>4, FulfilmentAssumption DEF AssignDriver, LockFree, Core, TypeOK, NoSession, Nobody, Request, Row
<1>5. ASSUME NEW u \in Update, NEW s \in DeliveryStatus, BeginUpdate(u, s)
      PROVE  TypeOK'
  <2>1. session' \in [Request -> Session]
    BY <1>5, FulfilmentAssumption, SessionUpdates DEF BeginUpdate, Core, TypeOK, Request
  <2>. QED  BY <1>5, <2>1, FulfilmentAssumption DEF BeginUpdate, MaySend, FirstStep, Goto, tables, Core, TypeOK, Session, Request, Row
<1>6. ASSUME NEW u \in Update, FlushDelivery(u)
      PROVE  TypeOK'
  BY <1>6, FulfilmentAssumption DEF FlushDelivery, StepAfter, Take, LockFree, Goto, tables, Core, TypeOK, NoSession, Nobody, Request, Row
<1>7. ASSUME NEW u \in Update, LoadOrder(u)
      PROVE  TypeOK'
  <2>1. session' \in [Request -> Session]
    BY <1>7, FulfilmentAssumption, SessionUpdates DEF LoadOrder, Core, TypeOK, Request
  <2>. QED  BY <1>7, <2>1, FulfilmentAssumption DEF LoadOrder, StepAfter, Goto, tables, Core, TypeOK, Session, Request, Row
<1>8. ASSUME NEW u \in Update, LoadSiblings(u)
      PROVE  TypeOK'
  <2>1. session[u].want \in DeliveryStatus /\ Of[u] \in Create /\ u \in Request
    BY <1>8, FulfilmentAssumption DEF LoadSiblings, InTx, Core, AskedInv, Request
  <2>2. [delivery EXCEPT ![Of[u]] = session[u].want] \in [Create -> DeliveryStatus \cup {"none"}]
    BY <2>1 DEF Core, TypeOK
  <2>3. session' \in [Request -> Session]
    BY <1>8, <2>1, <2>2, SessionUpdates DEF LoadSiblings, Core
  <2>. QED  BY <1>8, <2>3 DEF LoadSiblings, StepAfter, Goto, tables, Core, TypeOK, Session
<1>9. ASSUME NEW u \in Update, RollUp(u)
      PROVE  TypeOK'
  BY <1>9, FulfilmentAssumption DEF RollUp, Take, LockFree, Goto, tables, Core, TypeOK, NoSession, Nobody, Request, Row
<1>10. ASSUME NEW u \in Update, CommitUpdate(u)
      PROVE  TypeOK'
  <2>1. Of[u] \in Create /\ session[u].want \in DeliveryStatus
    BY <1>10, FulfilmentAssumption DEF CommitUpdate, InTx, Core, AskedInv
  <2>2. order' \in OrderStatus
    <3>1. session[u].order \in OrderStatus
      BY <1>10 DEF CommitUpdate, OrderLoaded, Core, AskedInv
    <3>. QED  BY <1>10, <3>1, RolledUpType DEF CommitUpdate, Derived, Core, TypeOK
  <2>. QED  BY <1>10, <2>1, <2>2 DEF CommitUpdate, EndTx, Goto, Core, TypeOK, NoSession, Nobody, Request
<1>11. ASSUME NEW m \in Move, NEW s \in OrderStatus, BeginMove(m, s)
      PROVE  TypeOK'
  <2>1. session' \in [Request -> Session]
    BY <1>11, FulfilmentAssumption, SessionUpdates DEF BeginMove, Core, TypeOK, Request
  <2>. QED  BY <1>11, <2>1, FulfilmentAssumption DEF BeginMove, MaySend, Goto, tables, Core, TypeOK, Session, Request, Row
<1>12. ASSUME NEW m \in Move, WriteOrder(m)
      PROVE  TypeOK'
  BY <1>12, FulfilmentAssumption DEF WriteOrder, Take, LockFree, Goto, tables, Core, TypeOK, NoSession, Nobody, Request, Row
<1>13. ASSUME NEW m \in Move, CommitMove(m)
      PROVE  TypeOK'
  <2>1. session[m].want \in OrderStatus
    BY <1>13 DEF CommitMove, InTx, Core, AskedInv
  <2>. QED  BY <1>13, <2>1 DEF CommitMove, EndTx, Goto, Core, TypeOK, NoSession, Nobody, Request
<1>14. ASSUME NEW r \in Request, GaveUp(r)
      PROVE  TypeOK'
  BY <1>14, FulfilmentAssumption DEF GaveUp, EndTx, Goto, tables, Core, TypeOK, NoSession, Nobody, Request, Row
<1>15. ASSUME NEW r \in Request, Refused(r)
      PROVE  TypeOK'
  BY <1>15, FulfilmentAssumption DEF Refused, Refuse, Goto, tables, Core, TypeOK, NoSession, Nobody, Request, Row
<1>. QED  BY <1>0, <1>1, <1>2, <1>3, <1>4, <1>5, <1>6, <1>7, <1>8, <1>9, <1>10, <1>11, <1>12, <1>13, <1>14, <1>15, StepCases DEF Core

(* Every step moves a request along its own control points.                *)
LEMMA StageStep ==
  ASSUME Core, [Next]_vars
  PROVE  StageInv'
<1>0. CASE UNCHANGED vars
  BY <1>0 DEF vars, tables, Core, TypeOK, StageInv
<1>1. ASSUME NEW d \in Create, LockOrder(d)
      PROVE  StageInv'
  BY <1>1, FulfilmentAssumption DEF LockOrder, MaySend, Take, LockFree, Goto, tables, Core, TypeOK, StageInv, Request, Row
<1>2. ASSUME NEW d \in Create, AcceptLines(d)
      PROVE  StageInv'
  BY <1>2, FulfilmentAssumption DEF AcceptLines, Goto, tables, Core, TypeOK, StageInv, Request, Row
<1>3. ASSUME NEW d \in Create, InsertDelivery(d)
      PROVE  StageInv'
  BY <1>3, FulfilmentAssumption DEF InsertDelivery, EndTx, Goto, Core, TypeOK, StageInv, Request, Row
<1>4. ASSUME NEW d \in Create, NEW v \in Driver \cup {Office}, AssignDriver(d, v)
      PROVE  StageInv'
  BY <1>4, FulfilmentAssumption DEF AssignDriver, LockFree, Core, TypeOK, StageInv, Request, Row
<1>5. ASSUME NEW u \in Update, NEW s \in DeliveryStatus, BeginUpdate(u, s)
      PROVE  StageInv'
  BY <1>5, FulfilmentAssumption DEF BeginUpdate, MaySend, FirstStep, Goto, tables, Core, TypeOK, StageInv, Request, Row
<1>6. ASSUME NEW u \in Update, FlushDelivery(u)
      PROVE  StageInv'
  BY <1>6, FulfilmentAssumption DEF FlushDelivery, StepAfter, Take, LockFree, Goto, tables, Core, TypeOK, StageInv, Request, Row
<1>7. ASSUME NEW u \in Update, LoadOrder(u)
      PROVE  StageInv'
  BY <1>7, FulfilmentAssumption DEF LoadOrder, StepAfter, Goto, tables, Core, TypeOK, StageInv, Request, Row
<1>8. ASSUME NEW u \in Update, LoadSiblings(u)
      PROVE  StageInv'
  BY <1>8, FulfilmentAssumption DEF LoadSiblings, StepAfter, Goto, tables, Core, TypeOK, StageInv, Request, Row
<1>9. ASSUME NEW u \in Update, RollUp(u)
      PROVE  StageInv'
  BY <1>9, FulfilmentAssumption DEF RollUp, Take, LockFree, Goto, tables, Core, TypeOK, StageInv, Request, Row
<1>10. ASSUME NEW u \in Update, CommitUpdate(u)
      PROVE  StageInv'
  BY <1>10, FulfilmentAssumption DEF CommitUpdate, EndTx, Goto, Core, TypeOK, StageInv, Request, Row
<1>11. ASSUME NEW m \in Move, NEW s \in OrderStatus, BeginMove(m, s)
      PROVE  StageInv'
  BY <1>11, FulfilmentAssumption DEF BeginMove, MaySend, Goto, tables, Core, TypeOK, StageInv, Request, Row
<1>12. ASSUME NEW m \in Move, WriteOrder(m)
      PROVE  StageInv'
  BY <1>12, FulfilmentAssumption DEF WriteOrder, Take, LockFree, Goto, tables, Core, TypeOK, StageInv, Request, Row
<1>13. ASSUME NEW m \in Move, CommitMove(m)
      PROVE  StageInv'
  BY <1>13, FulfilmentAssumption DEF CommitMove, EndTx, Goto, Core, TypeOK, StageInv, Request, Row
<1>14. ASSUME NEW r \in Request, GaveUp(r)
      PROVE  StageInv'
  BY <1>14, FulfilmentAssumption DEF GaveUp, EndTx, Goto, tables, Core, TypeOK, StageInv, Request, Row
<1>15. ASSUME NEW r \in Request, Refused(r)
      PROVE  StageInv'
  BY <1>15, FulfilmentAssumption DEF Refused, Refuse, Goto, tables, Core, TypeOK, StageInv, Request, Row
<1>. QED  BY <1>0, <1>1, <1>2, <1>3, <1>4, <1>5, <1>6, <1>7, <1>8, <1>9, <1>10, <1>11, <1>12, <1>13, <1>14, <1>15, StepCases DEF Core

(* The order row is taken by who needs it and given back at the end.       *)
LEMMA LockStep ==
  ASSUME Core, [Next]_vars
  PROVE  LockInv'
<1>0. CASE UNCHANGED vars
  BY <1>0 DEF vars, tables, Core, TypeOK, StageInv, LockInv
<1>1. ASSUME NEW d \in Create, LockOrder(d)
      PROVE  LockInv'
  BY <1>1, FulfilmentAssumption DEF LockOrder, MaySend, Take, LockFree, Goto, tables, Core, TypeOK, StageInv, LockInv, Request, Row
<1>2. ASSUME NEW d \in Create, AcceptLines(d)
      PROVE  LockInv'
  BY <1>2, FulfilmentAssumption DEF AcceptLines, Goto, tables, Core, TypeOK, StageInv, LockInv, Request, Row
<1>3. ASSUME NEW d \in Create, InsertDelivery(d)
      PROVE  LockInv'
  BY <1>3, FulfilmentAssumption DEF InsertDelivery, EndTx, Goto, Core, TypeOK, StageInv, LockInv, Request, Row
<1>4. ASSUME NEW d \in Create, NEW v \in Driver \cup {Office}, AssignDriver(d, v)
      PROVE  LockInv'
  BY <1>4, FulfilmentAssumption DEF AssignDriver, LockFree, Core, TypeOK, StageInv, LockInv, Request, Row
<1>5. ASSUME NEW u \in Update, NEW s \in DeliveryStatus, BeginUpdate(u, s)
      PROVE  LockInv'
  BY <1>5, FulfilmentAssumption DEF BeginUpdate, MaySend, FirstStep, Goto, tables, Core, TypeOK, StageInv, LockInv, Request, Row
<1>6. ASSUME NEW u \in Update, FlushDelivery(u)
      PROVE  LockInv'
  BY <1>6, FulfilmentAssumption DEF FlushDelivery, StepAfter, Take, LockFree, Goto, tables, Core, TypeOK, StageInv, LockInv, Request, Row
<1>7. ASSUME NEW u \in Update, LoadOrder(u)
      PROVE  LockInv'
  BY <1>7, FulfilmentAssumption DEF LoadOrder, StepAfter, Goto, tables, Core, TypeOK, StageInv, LockInv, Request, Row
<1>8. ASSUME NEW u \in Update, LoadSiblings(u)
      PROVE  LockInv'
  BY <1>8, FulfilmentAssumption DEF LoadSiblings, StepAfter, Goto, tables, Core, TypeOK, StageInv, LockInv, Request, Row
<1>9. ASSUME NEW u \in Update, RollUp(u)
      PROVE  LockInv'
  BY <1>9, FulfilmentAssumption DEF RollUp, Take, LockFree, Goto, tables, Core, TypeOK, StageInv, LockInv, Request, Row
<1>10. ASSUME NEW u \in Update, CommitUpdate(u)
      PROVE  LockInv'
  BY <1>10, FulfilmentAssumption DEF CommitUpdate, EndTx, Goto, Core, TypeOK, StageInv, LockInv, Request, Row
<1>11. ASSUME NEW m \in Move, NEW s \in OrderStatus, BeginMove(m, s)
      PROVE  LockInv'
  BY <1>11, FulfilmentAssumption DEF BeginMove, MaySend, Goto, tables, Core, TypeOK, StageInv, LockInv, Request, Row
<1>12. ASSUME NEW m \in Move, WriteOrder(m)
      PROVE  LockInv'
  BY <1>12, FulfilmentAssumption DEF WriteOrder, Take, LockFree, Goto, tables, Core, TypeOK, StageInv, LockInv, Request, Row
<1>13. ASSUME NEW m \in Move, CommitMove(m)
      PROVE  LockInv'
  BY <1>13, FulfilmentAssumption DEF CommitMove, EndTx, Goto, Core, TypeOK, StageInv, LockInv, Request, Row
<1>14. ASSUME NEW r \in Request, GaveUp(r)
      PROVE  LockInv'
  BY <1>14, FulfilmentAssumption DEF GaveUp, EndTx, Goto, tables, Core, TypeOK, StageInv, LockInv, Request, Row
<1>15. ASSUME NEW r \in Request, Refused(r)
      PROVE  LockInv'
  BY <1>15, FulfilmentAssumption DEF Refused, Refuse, Goto, tables, Core, TypeOK, StageInv, LockInv, Request, Row
<1>. QED  BY <1>0, <1>1, <1>2, <1>3, <1>4, <1>5, <1>6, <1>7, <1>8, <1>9, <1>10, <1>11, <1>12, <1>13, <1>14, <1>15, StepCases DEF Core

(* What was read or asked stays an order or delivery status, and no        *)
(* delivery is ever removed.                                               *)
LEMMA AskedStep ==
  ASSUME Core, [Next]_vars
  PROVE  AskedInv'
<1>0. CASE UNCHANGED vars
  BY <1>0 DEF vars, tables, Core, TypeOK, StageInv, AskedInv, InTx, OrderLoaded
<1>1. ASSUME NEW d \in Create, LockOrder(d)
      PROVE  AskedInv'
  BY <1>1, FulfilmentAssumption DEF LockOrder, MaySend, Take, LockFree, Goto, tables, Core, TypeOK, StageInv, AskedInv, InTx, OrderLoaded, Request, Row
<1>2. ASSUME NEW d \in Create, AcceptLines(d)
      PROVE  AskedInv'
  BY <1>2, FulfilmentAssumption DEF AcceptLines, Goto, tables, Core, TypeOK, StageInv, AskedInv, InTx, OrderLoaded, Request, Row
<1>3. ASSUME NEW d \in Create, InsertDelivery(d)
      PROVE  AskedInv'
  BY <1>3, FulfilmentAssumption DEF InsertDelivery, EndTx, Goto, Core, TypeOK, StageInv, AskedInv, InTx, OrderLoaded, Request, Row
<1>4. ASSUME NEW d \in Create, NEW v \in Driver \cup {Office}, AssignDriver(d, v)
      PROVE  AskedInv'
  BY <1>4, FulfilmentAssumption DEF AssignDriver, LockFree, Core, TypeOK, StageInv, AskedInv, InTx, OrderLoaded, Request, Row
<1>5. ASSUME NEW u \in Update, NEW s \in DeliveryStatus, BeginUpdate(u, s)
      PROVE  AskedInv'
  BY <1>5, FulfilmentAssumption DEF BeginUpdate, MaySend, FirstStep, Goto, tables, Core, TypeOK, StageInv, AskedInv, InTx, OrderLoaded, Request, Row
<1>6. ASSUME NEW u \in Update, FlushDelivery(u)
      PROVE  AskedInv'
  BY <1>6, FulfilmentAssumption DEF FlushDelivery, StepAfter, Take, LockFree, Goto, tables, Core, TypeOK, StageInv, AskedInv, InTx, OrderLoaded, Request, Row
<1>7. ASSUME NEW u \in Update, LoadOrder(u)
      PROVE  AskedInv'
  BY <1>7, FulfilmentAssumption DEF LoadOrder, StepAfter, Goto, tables, Core, TypeOK, StageInv, AskedInv, InTx, OrderLoaded, Request, Row
<1>8. ASSUME NEW u \in Update, LoadSiblings(u)
      PROVE  AskedInv'
  BY <1>8, FulfilmentAssumption DEF LoadSiblings, StepAfter, Goto, tables, Core, TypeOK, StageInv, AskedInv, InTx, OrderLoaded, Request, Row
<1>9. ASSUME NEW u \in Update, RollUp(u)
      PROVE  AskedInv'
  BY <1>9, FulfilmentAssumption DEF RollUp, Take, LockFree, Goto, tables, Core, TypeOK, StageInv, AskedInv, InTx, OrderLoaded, Request, Row
<1>10. ASSUME NEW u \in Update, CommitUpdate(u)
      PROVE  AskedInv'
  <2>1. u \in Request /\ Of[u] \in Create /\ session[u].want \in DeliveryStatus
    BY <1>10, FulfilmentAssumption DEF CommitUpdate, InTx, Core, AskedInv, Request
  <2>2. /\ pc'[u] = "done"
        /\ \A q \in Request : q # u => pc'[q] = pc[q] /\ session'[q] = session[q]
    BY <1>10, <2>1, EndTxEffect DEF CommitUpdate, Core
  <2>3. \A e \in Create : delivery[e] # "none" => delivery'[e] # "none"
    BY <1>10, <2>1 DEF CommitUpdate, Core, TypeOK, DeliveryStatus
  <2>. QED  BY <2>1, <2>2, <2>3, FulfilmentAssumption DEF Core, AskedInv, InTx, OrderLoaded, Request
<1>11. ASSUME NEW m \in Move, NEW s \in OrderStatus, BeginMove(m, s)
      PROVE  AskedInv'
  BY <1>11, FulfilmentAssumption DEF BeginMove, MaySend, Goto, tables, Core, TypeOK, StageInv, AskedInv, InTx, OrderLoaded, Request, Row
<1>12. ASSUME NEW m \in Move, WriteOrder(m)
      PROVE  AskedInv'
  BY <1>12, FulfilmentAssumption DEF WriteOrder, Take, LockFree, Goto, tables, Core, TypeOK, StageInv, AskedInv, InTx, OrderLoaded, Request, Row
<1>13. ASSUME NEW m \in Move, CommitMove(m)
      PROVE  AskedInv'
  BY <1>13, FulfilmentAssumption DEF CommitMove, EndTx, Goto, Core, TypeOK, StageInv, AskedInv, InTx, OrderLoaded, Request, Row
<1>14. ASSUME NEW r \in Request, GaveUp(r)
      PROVE  AskedInv'
  BY <1>14, FulfilmentAssumption DEF GaveUp, EndTx, Goto, tables, Core, TypeOK, StageInv, AskedInv, InTx, OrderLoaded, Request, Row
<1>15. ASSUME NEW r \in Request, Refused(r)
      PROVE  AskedInv'
  BY <1>15, FulfilmentAssumption DEF Refused, Refuse, Goto, tables, Core, TypeOK, StageInv, AskedInv, InTx, OrderLoaded, Request, Row
<1>. QED  BY <1>0, <1>1, <1>2, <1>3, <1>4, <1>5, <1>6, <1>7, <1>8, <1>9, <1>10, <1>11, <1>12, <1>13, <1>14, <1>15, StepCases DEF Core

(* A step that neither adds nor renumbers a delivery, nor accepts one.     *)
LEMMA CodesKept ==
  ASSUME Core, code' = code,
         \A d \in Create : delivery'[d] = "none" <=> delivery[d] = "none",
         \A d \in Create :
           /\ pc'[d] # "done" => pc[d] # "done"
           /\ pc'[d] = "answered" => pc[d] = "answered" /\ session'[d] = session[d]
  PROVE  CodeInv'
<1>1. Created(delivery') = Created(delivery)
  BY DEF Created
<1>2. \A d \in Create : pc'[d] # "done" => delivery'[d] = "none"
  BY DEF Core, CodeInv
<1>3. /\ \A d \in Created(delivery') : code'[d] \in 1 .. Cardinality(Created(delivery'))
      /\ \A d, e \in Created(delivery') : d # e => code'[d] # code'[e]
  BY <1>1 DEF Core, CodeInv
<1>4. \A d \in Create : pc'[d] = "answered" =>
        Created(session'[d].deliveries) = Created(delivery')
  BY <1>1 DEF Core, CodeInv
<1>. QED  BY <1>2, <1>3, <1>4 DEF CodeInv

(* Deliveries get their numbers one by one, under the lock of the order.   *)
LEMMA CodeStep ==
  ASSUME Core, [Next]_vars
  PROVE  CodeInv'
<1>0. CASE UNCHANGED vars
  BY <1>0 DEF vars, tables, Core, TypeOK, StageInv, LockInv, AskedInv, CodeInv, Created
<1>1. ASSUME NEW d \in Create, LockOrder(d)
      PROVE  CodeInv'
  BY <1>1, CodesKept, FulfilmentAssumption DEF LockOrder, MaySend, Take, LockFree, Goto, tables, Core, TypeOK, StageInv, Request
<1>2. ASSUME NEW d \in Create, AcceptLines(d)
      PROVE  CodeInv'
  BY <1>2, FulfilmentAssumption DEF AcceptLines, Goto, tables, Core, TypeOK, StageInv, LockInv, AskedInv, CodeInv, Created, Request, Row
<1>3. ASSUME NEW d \in Create, InsertDelivery(d)
      PROVE  CodeInv'
  <2>1. /\ d \in Request /\ pc[d] = "answered" /\ delivery[d] = "none"
        /\ code' = [code EXCEPT ![d] = Cardinality(Created(delivery)) + 1]
        /\ delivery' = [delivery EXCEPT ![d] = "pending"]
    BY <1>3, CodeIsFree DEF InsertDelivery, Request
  <2>2. /\ Created(delivery)' = Created(delivery) \cup {d} /\ d \notin Created(delivery)
        /\ Cardinality(Created(delivery))' = Cardinality(Created(delivery)) + 1
        /\ Cardinality(Created(delivery)) \in Nat
    BY <2>1, CreatedGrows, CreatedFinite DEF Core, Created
  <2>3. /\ pc'[d] = "done"
        /\ \A q \in Request : q # d => pc'[q] = pc[q] /\ session'[q] = session[q]
    BY <1>3, <2>1, EndTxEffect DEF InsertDelivery, Core
  <2>4. \A e \in Create : pc'[e] # "done" => delivery'[e] = "none"
    BY <2>1, <2>3 DEF Core, CodeInv, TypeOK, Request
  <2>5. /\ code'[d] = Cardinality(Created(delivery)) + 1
        /\ \A e \in Created(delivery) :
             code'[e] = code[e] /\ code[e] \in 1 .. Cardinality(Created(delivery))
    BY <2>1, <2>2 DEF Core, CodeInv, TypeOK, Created
  <2>6. /\ \A e \in Created(delivery)' : code'[e] \in 1 .. Cardinality(Created(delivery))'
        /\ \A e, f \in Created(delivery)' : e # f => code'[e] # code'[f]
    BY <2>2, <2>5 DEF Core, CodeInv
  <2>7. \A e \in Create : pc'[e] # "answered"
    BY <2>1, <2>3 DEF Core, LockInv, Request
  <2>. QED  BY <2>4, <2>6, <2>7 DEF CodeInv
<1>4. ASSUME NEW d \in Create, NEW v \in Driver \cup {Office}, AssignDriver(d, v)
      PROVE  CodeInv'
  BY <1>4, CodesKept, FulfilmentAssumption DEF AssignDriver, LockFree, Core, TypeOK, StageInv, Request
<1>5. ASSUME NEW u \in Update, NEW s \in DeliveryStatus, BeginUpdate(u, s)
      PROVE  CodeInv'
  BY <1>5, CodesKept, FulfilmentAssumption DEF BeginUpdate, MaySend, FirstStep, Goto, tables, Core, TypeOK, StageInv, Request
<1>6. ASSUME NEW u \in Update, FlushDelivery(u)
      PROVE  CodeInv'
  BY <1>6, CodesKept, FulfilmentAssumption DEF FlushDelivery, StepAfter, Take, LockFree, Goto, tables, Core, TypeOK, StageInv, Request
<1>7. ASSUME NEW u \in Update, LoadOrder(u)
      PROVE  CodeInv'
  BY <1>7, CodesKept, FulfilmentAssumption DEF LoadOrder, StepAfter, Goto, tables, Core, TypeOK, StageInv, Request
<1>8. ASSUME NEW u \in Update, LoadSiblings(u)
      PROVE  CodeInv'
  BY <1>8, CodesKept, FulfilmentAssumption DEF LoadSiblings, StepAfter, Goto, tables, Core, TypeOK, StageInv, Request
<1>9. ASSUME NEW u \in Update, RollUp(u)
      PROVE  CodeInv'
  BY <1>9, CodesKept, FulfilmentAssumption DEF RollUp, Take, LockFree, Goto, tables, Core, TypeOK, StageInv, Request
<1>10. ASSUME NEW u \in Update, CommitUpdate(u)
      PROVE  CodeInv'
  <2>1. u \in Request /\ Of[u] \in Create
    BY FulfilmentAssumption DEF Request
  <2>2. session[u].want # "none" /\ delivery[Of[u]] # "none"
    BY <1>10 DEF CommitUpdate, InTx, Core, AskedInv, DeliveryStatus
  <2>3. \A e \in Create : delivery'[e] = "none" <=> delivery[e] = "none"
    BY <1>10, <2>1, <2>2 DEF CommitUpdate, Core, TypeOK
  <2>4. /\ pc'[u] = "done"
        /\ \A q \in Request : q # u => pc'[q] = pc[q] /\ session'[q] = session[q]
    BY <1>10, <2>1, EndTxEffect DEF CommitUpdate, Core
  <2>5. code' = code
    BY <1>10 DEF CommitUpdate
  <2>. QED  BY <2>3, <2>4, <2>5, CodesKept, FulfilmentAssumption DEF Request
<1>11. ASSUME NEW m \in Move, NEW s \in OrderStatus, BeginMove(m, s)
      PROVE  CodeInv'
  BY <1>11, CodesKept, FulfilmentAssumption DEF BeginMove, MaySend, Goto, tables, Core, TypeOK, StageInv, Request
<1>12. ASSUME NEW m \in Move, WriteOrder(m)
      PROVE  CodeInv'
  BY <1>12, CodesKept, FulfilmentAssumption DEF WriteOrder, Take, LockFree, Goto, tables, Core, TypeOK, StageInv, Request
<1>13. ASSUME NEW m \in Move, CommitMove(m)
      PROVE  CodeInv'
  BY <1>13, CodesKept, FulfilmentAssumption DEF CommitMove, EndTx, Goto, Core, TypeOK, StageInv, Request
<1>14. ASSUME NEW r \in Request, GaveUp(r)
      PROVE  CodeInv'
  BY <1>14, CodesKept, FulfilmentAssumption DEF GaveUp, EndTx, Goto, tables, Core, TypeOK, StageInv, Request
<1>15. ASSUME NEW r \in Request, Refused(r)
      PROVE  CodeInv'
  BY <1>15, CodesKept, FulfilmentAssumption DEF Refused, Refuse, Goto, tables, Core, TypeOK, StageInv, Request
<1>. QED  BY <1>0, <1>1, <1>2, <1>3, <1>4, <1>5, <1>6, <1>7, <1>8, <1>9, <1>10, <1>11, <1>12, <1>13, <1>14, <1>15, StepCases DEF Core

(* The types, the stages, the lock, what is asked for and the codes are    *)
(* right whatever overlaps.                                                *)
LEMMA CoreHolds == Spec => []Core
<1>1. Init => Core
  <2>. SUFFICES ASSUME Init PROVE Core
    OBVIOUS
  <2>1. Created(delivery) = {} /\ Cardinality(Create) \in Nat
    BY CreatedFinite DEF Init, Nobody, Created
  <2>2. TypeOK
    BY <2>1, FulfilmentAssumption DEF Init, TypeOK, NoSession, Nobody, OrderStatus
  <2>3. StageInv /\ LockInv /\ AskedInv
    BY FulfilmentAssumption DEF Init, StageInv, LockInv, AskedInv, InTx, OrderLoaded, Row, Request
  <2>4. CodeInv
    BY <2>1, FulfilmentAssumption DEF Init, CodeInv, Nobody, Request
  <2>. QED  BY <2>2, <2>3, <2>4 DEF Core
<1>2. Core /\ [Next]_vars => Core'
  BY TypeStep, StageStep, LockStep, AskedStep, CodeStep DEF Core
<1>. QED  BY <1>1, <1>2, PTL DEF Spec

(* Every variable keeps its shape: no quantity, code or status outside its *)
(* range is ever stored, whatever overlaps.                                *)
THEOREM TypeCorrect == Spec => []TypeOK
<1>1. Core => TypeOK
  BY DEF Core
<1>. QED  BY <1>1, CoreHolds, PTL

(* The code a creation derives from the number of deliveries it counted is *)
(* never one that another delivery carries, whatever overlaps with it: the *)
(* unique index is never hit.                                              *)
THEOREM CodesAreFree == Spec => []CodesNeverClash
<1>1. Core => CodesNeverClash
  BY CodeIsFree DEF CodesNeverClash
<1>. QED  BY <1>1, CoreHolds, PTL

(* Two deliveries of an order never carry the same code, and the codes in  *)
(* use stay within 1 .. n for the n deliveries there are, ended ones too.  *)
CodesSequential ==
  /\ \A d, e \in Created(delivery) : d # e => code[d] # code[e]
  /\ \A d \in Created(delivery) : code[d] \in 1 .. Cardinality(Created(delivery))

THEOREM CodesAreSequential == Spec => []CodesSequential
<1>1. Core => CodesSequential
  BY DEF Core, CodeInv, CodesSequential
<1>. QED  BY <1>1, CoreHolds, PTL

-----------------------------------------------------------------------------
(* What deliveries carry.                                                  *)

(* The units one delivery carries are as many as its line says.            *)
LEMMA UnitsOfOne ==
  ASSUME NEW d \in Create, NEW i \in Item
  PROVE  /\ Load[d][i] \in Nat
         /\ IsFiniteSet({d} \X (1 .. Load[d][i]))
         /\ Cardinality({d} \X (1 .. Load[d][i])) = Load[d][i]
<1>1. Load[d][i] \in Nat
  BY FulfilmentAssumption
<1>2. /\ IsFiniteSet(1 .. Load[d][i]) /\ Cardinality(1 .. Load[d][i]) = Load[d][i]
  <2>1. 1 \in Int /\ Load[d][i] \in Int
    BY <1>1
  <2>2. /\ IsFiniteSet(1 .. Load[d][i])
        /\ Cardinality(1 .. Load[d][i]) = IF 1 > Load[d][i] THEN 0 ELSE Load[d][i] - 1 + 1
    BY <2>1, FS_Interval
  <2>. QED  BY <1>1, <2>2
<1>3. IsFiniteSet({d}) /\ Cardinality({d}) = 1
  BY FS_Singleton
<1>4. /\ IsFiniteSet({d} \X (1 .. Load[d][i]))
      /\ Cardinality({d} \X (1 .. Load[d][i])) = Cardinality({d}) * Cardinality(1 .. Load[d][i])
  BY <1>2, <1>3, FS_Product
<1>. QED  BY <1>1, <1>2, <1>3, <1>4

LEMMA CarriedFinite ==
  ASSUME NEW S \in SUBSET Create, NEW i \in Item
  PROVE  IsFiniteSet(Carried(S, i)) /\ Cardinality(Carried(S, i)) \in Nat
<1>. DEFINE T == {{d} \X (1 .. Load[d][i]) : d \in S}
            f == [d \in S |-> {d} \X (1 .. Load[d][i])]
<1>1. IsFiniteSet(S)
  BY FulfilmentAssumption, FS_Subset
<1>2. f \in Surjection(S, T)
  BY DEF Surjection
<1>3. IsFiniteSet(T)
  <2>. HIDE DEF T, f
  <2>. QED  BY <1>1, <1>2, FS_Surjection
<1>4. \A U \in T : IsFiniteSet(U)
  BY UnitsOfOne
<1>5. IsFiniteSet(UNION T)
  <2>. HIDE DEF T
  <2>. QED  BY <1>3, <1>4, FS_UNION
<1>. QED  BY <1>5, FS_CardinalityType DEF Carried

(* Fewer deliveries carry no more.                                         *)
LEMMA CarriedMonotone ==
  ASSUME NEW S \in SUBSET Create, NEW T \in SUBSET S, NEW i \in Item
  PROVE  Cardinality(Carried(T, i)) <= Cardinality(Carried(S, i))
<1>1. Carried(T, i) \in SUBSET Carried(S, i)
  BY DEF Carried
<1>. QED  BY <1>1, CarriedFinite, FS_Subset

(* One more delivery carries its line more.                                *)
LEMMA CarriedAdds ==
  ASSUME NEW S \in SUBSET Create, NEW d \in Create, d \notin S, NEW i \in Item
  PROVE  Cardinality(Carried(S \cup {d}, i)) = Cardinality(Carried(S, i)) + Load[d][i]
<1>. DEFINE One == {d} \X (1 .. Load[d][i])
<1>1. /\ Carried(S \cup {d}, i) = Carried(S, i) \cup One
      /\ Carried(S, i) \cap One = {}
  BY DEF Carried
<1>2. IsFiniteSet(Carried(S, i)) /\ Cardinality(Carried(S, i)) \in Nat
  BY CarriedFinite
<1>3. IsFiniteSet(One) /\ Cardinality(One) = Load[d][i] /\ Load[d][i] \in Nat
  BY UnitsOfOne
<1>4. Cardinality(Carried(S, i) \cup One) = Cardinality(Carried(S, i)) + Cardinality(One) - Cardinality({})
  <2>. HIDE DEF One
  <2>. QED  BY <1>1, <1>2, <1>3, FS_Union
<1>5. Cardinality({}) = 0
  BY FS_EmptySet
<1>6. Cardinality(Carried(S, i) \cup One) = Cardinality(Carried(S, i)) + Load[d][i]
  <2>. HIDE DEF One
  <2>. QED  BY <1>2, <1>3, <1>4, <1>5
<1>. QED  BY <1>1, <1>6

-----------------------------------------------------------------------------
(* The shares, when updates of one delivery are apart.                     *)

(* Nothing follows a delivery that ended.                                  *)
LEMMA EndedHasNoTransition ==
  /\ \A s \in DeliveryStatus : DeliveryTransitions[s] \subseteq DeliveryStatus \ {"pending"}
  /\ \A s \in {"delivered", "failed", "cancelled"} : DeliveryTransitions[s] = {}
BY DEF DeliveryTransitions, DeliveryStatus

(* A step of u that starts finds no other update of its delivery at work.  *)
LEMMA SendsAlone ==
  ASSUME UpdatesApart, NEW u \in Update, MaySend(u), NEW w \in Update, w # u, Of[w] = Of[u]
  PROVE  ~ InTx(w)
BY DEF UpdatesApart, MaySend, Request

(* A step in which no update starts and no delivery at work changes.       *)
LEMMA WantsKept ==
  ASSUME WantInv,
         \A u \in Update : InTx(u)' =>
           InTx(u) /\ session'[u].want = session[u].want /\ delivery'[Of[u]] = delivery[Of[u]]
  PROVE  WantInv'
BY DEF WantInv

(* An update keeps its delivery to itself until it ends.                   *)
LEMMA WantStep ==
  ASSUME UpdatesApart, Core, Shares, [Next]_vars
  PROVE  WantInv'
<1>0. CASE UNCHANGED vars
  BY <1>0 DEF vars, tables, Shares, WantInv, InTx
<1>1. ASSUME NEW d \in Create, LockOrder(d)
      PROVE  WantInv'
  BY <1>1, WantsKept, FulfilmentAssumption DEF LockOrder, MaySend, Take, LockFree, Goto, tables, InTx, Shares, Core, TypeOK, StageInv, Request
<1>2. ASSUME NEW d \in Create, AcceptLines(d)
      PROVE  WantInv'
  BY <1>2, WantsKept, FulfilmentAssumption DEF AcceptLines, Goto, tables, InTx, Shares, Core, TypeOK, StageInv, Request
<1>3. ASSUME NEW d \in Create, InsertDelivery(d)
      PROVE  WantInv'
  <2>1. /\ d \in Request /\ delivery[d] = "none" /\ delivery' = [delivery EXCEPT ![d] = "pending"]
    BY <1>3, CodeIsFree DEF InsertDelivery, Request
  <2>2. \A q \in Request : q # d => pc'[q] = pc[q] /\ session'[q] = session[q]
    BY <1>3, <2>1, EndTxEffect DEF InsertDelivery, Core
  <2>3. \A u \in Update : InTx(u) => Of[u] # d /\ Of[u] \in Create
    BY <2>1, FulfilmentAssumption DEF Core, AskedInv
  <2>4. \A u \in Update : u # d
    BY FulfilmentAssumption
  <2>. QED  BY <2>1, <2>2, <2>3, <2>4, WantsKept DEF Shares, Core, TypeOK, InTx, Request
<1>4. ASSUME NEW d \in Create, NEW v \in Driver \cup {Office}, AssignDriver(d, v)
      PROVE  WantInv'
  BY <1>4, WantsKept, FulfilmentAssumption DEF AssignDriver, LockFree, InTx, Shares, Core, TypeOK, StageInv, Request
<1>5. ASSUME NEW u \in Update, NEW s \in DeliveryStatus, BeginUpdate(u, s)
      PROVE  WantInv'
  <2>1. u \in Request /\ Update \subseteq Request
    BY DEF Request
  <2>2. /\ \A w \in Update : w # u => pc'[w] = pc[w] /\ session'[w] = session[w]
        /\ session'[u].want = s /\ delivery' = delivery
    BY <1>5, <2>1 DEF BeginUpdate, Goto, tables, Core, TypeOK
  <2>3. s \in DeliveryTransitions[delivery[Of[u]]] /\ MaySend(u)
    BY <1>5 DEF BeginUpdate
  <2>4. \A w \in Update : w # u /\ Of[w] = Of[u] => ~ InTx(w)
    BY <2>3, SendsAlone
  <2>. QED  BY <2>2, <2>3, <2>4 DEF Shares, WantInv, InTx
<1>6. ASSUME NEW u \in Update, FlushDelivery(u)
      PROVE  WantInv'
  BY <1>6, WantsKept, FulfilmentAssumption DEF FlushDelivery, StepAfter, Take, LockFree, Goto, tables, InTx, Shares, Core, TypeOK, StageInv, Request
<1>7. ASSUME NEW u \in Update, LoadOrder(u)
      PROVE  WantInv'
  BY <1>7, WantsKept, FulfilmentAssumption DEF LoadOrder, StepAfter, Goto, tables, InTx, Shares, Core, TypeOK, StageInv, Request
<1>8. ASSUME NEW u \in Update, LoadSiblings(u)
      PROVE  WantInv'
  BY <1>8, WantsKept, FulfilmentAssumption DEF LoadSiblings, StepAfter, Goto, tables, InTx, Shares, Core, TypeOK, StageInv, Request
<1>9. ASSUME NEW u \in Update, RollUp(u)
      PROVE  WantInv'
  BY <1>9, WantsKept, FulfilmentAssumption DEF RollUp, Take, LockFree, Goto, tables, InTx, Shares, Core, TypeOK, StageInv, Request
<1>10. ASSUME NEW u \in Update, CommitUpdate(u)
      PROVE  WantInv'
  <2>1. u \in Request /\ InTx(u) /\ delivery' = [delivery EXCEPT ![Of[u]] = session[u].want]
    BY <1>10 DEF CommitUpdate, InTx, Request
  <2>2. /\ pc'[u] = "done"
        /\ \A q \in Request : q # u => pc'[q] = pc[q] /\ session'[q] = session[q]
    BY <1>10, <2>1, EndTxEffect DEF CommitUpdate, Core
  <2>3. \A w \in Update : InTx(w)' => w # u /\ InTx(w)
    BY <2>2 DEF InTx, Request
  <2>4. \A w \in Update : InTx(w)' => Of[w] # Of[u]
    BY <2>1, <2>3 DEF Shares, WantInv
  <2>. QED  BY <2>1, <2>2, <2>3, <2>4, WantsKept DEF Shares, Core, TypeOK, Request
<1>11. ASSUME NEW m \in Move, NEW s \in OrderStatus, BeginMove(m, s)
      PROVE  WantInv'
  BY <1>11, WantsKept, FulfilmentAssumption DEF BeginMove, MaySend, Goto, tables, InTx, Shares, Core, TypeOK, StageInv, Request
<1>12. ASSUME NEW m \in Move, WriteOrder(m)
      PROVE  WantInv'
  BY <1>12, WantsKept, FulfilmentAssumption DEF WriteOrder, Take, LockFree, Goto, tables, InTx, Shares, Core, TypeOK, StageInv, Request
<1>13. ASSUME NEW m \in Move, CommitMove(m)
      PROVE  WantInv'
  BY <1>13, WantsKept, FulfilmentAssumption DEF CommitMove, EndTx, Goto, InTx, Shares, Core, TypeOK, StageInv, Request
<1>14. ASSUME NEW r \in Request, GaveUp(r)
      PROVE  WantInv'
  BY <1>14, WantsKept, FulfilmentAssumption DEF GaveUp, EndTx, Goto, tables, InTx, Shares, Core, TypeOK, StageInv, Request
<1>15. ASSUME NEW r \in Request, Refused(r)
      PROVE  WantInv'
  BY <1>15, WantsKept, FulfilmentAssumption DEF Refused, Refuse, Goto, tables, InTx, Shares, Core, TypeOK, StageInv, Request
<1>. QED  BY <1>0, <1>1, <1>2, <1>3, <1>4, <1>5, <1>6, <1>7, <1>8, <1>9, <1>10, <1>11, <1>12, <1>13, <1>14, <1>15, StepCases DEF Core

(* A step in which no delivery joins the allocated ones and no creation's  *)
(* lines are accepted.                                                     *)
LEMMA FitKept ==
  ASSUME FitInv, Allocated(delivery') \subseteq Allocated(delivery),
         \A d \in Create : pc'[d] = "answered" => pc[d] = "answered"
  PROVE  FitInv'
<1>1. Allocated(delivery) \in SUBSET Create
  BY DEF Allocated
<1>2. \A i \in Item : /\ Cardinality(Carried(Allocated(delivery'), i)) <= Cardinality(Carried(Allocated(delivery), i))
                      /\ Cardinality(Carried(Allocated(delivery'), i)) \in Nat
                      /\ Cardinality(Carried(Allocated(delivery), i)) \in Nat
                      /\ Ordered[i] \in Nat
  BY <1>1, CarriedMonotone, CarriedFinite, FulfilmentAssumption
<1>3. \A i \in Item : Cardinality(Carried(Allocated(delivery'), i)) <= Ordered[i]
  BY <1>2 DEF FitInv
<1>4. ASSUME NEW d \in Create, pc'[d] = "answered"
      PROVE  Fits(d, delivery')
  <2>1. Fits(d, delivery) /\ \A i \in Item : Load[d][i] \in Nat
    BY <1>4, UnitsOfOne DEF FitInv
  <2>. QED  BY <2>1, <1>2 DEF Fits
<1>. QED  BY <1>3, <1>4 DEF FitInv

(* Creations take shares one by one under the lock of the order; updates   *)
(* only give shares back.                                                  *)
LEMMA FitStep ==
  ASSUME Core, Shares, [Next]_vars
  PROVE  FitInv'
<1>0. CASE UNCHANGED vars
  BY <1>0 DEF vars, tables, Shares, FitInv, Fits
<1>1. ASSUME NEW d \in Create, LockOrder(d)
      PROVE  FitInv'
  BY <1>1, FitKept, FulfilmentAssumption DEF LockOrder, MaySend, Take, LockFree, Goto, tables, Shares, Core, TypeOK, StageInv, Request
<1>2. ASSUME NEW d \in Create, AcceptLines(d)
      PROVE  FitInv'
  <2>1. /\ delivery' = delivery /\ Fits(d, delivery)
        /\ \A e \in Create : e # d => pc'[e] = pc[e]
    BY <1>2 DEF AcceptLines, Goto, tables, Core, TypeOK, Request
  <2>. QED  BY <2>1 DEF Shares, FitInv, Fits
<1>3. ASSUME NEW d \in Create, InsertDelivery(d)
      PROVE  FitInv'
  <2>1. /\ d \in Request /\ pc[d] = "answered" /\ delivery[d] = "none"
        /\ delivery' = [delivery EXCEPT ![d] = "pending"]
    BY <1>3, CodeIsFree DEF InsertDelivery, Request
  <2>2. /\ Allocated(delivery') = Allocated(delivery) \cup {d}
        /\ d \notin Allocated(delivery) /\ Allocated(delivery) \in SUBSET Create
    BY <2>1 DEF Allocated, Core, TypeOK
  <2>3. Fits(d, delivery)
    BY <2>1 DEF Shares, FitInv
  <2>4. ASSUME NEW i \in Item
        PROVE  Cardinality(Carried(Allocated(delivery'), i)) <= Ordered[i]
    <3>1. Cardinality(Carried(Allocated(delivery'), i)) = Cardinality(Carried(Allocated(delivery), i)) + Load[d][i]
      BY <2>2, CarriedAdds
    <3>2. /\ Cardinality(Carried(Allocated(delivery), i)) \in Nat /\ Load[d][i] \in Nat
          /\ Cardinality(Carried(Allocated(delivery), i)) <= Ordered[i]
      BY <2>2, CarriedFinite, UnitsOfOne DEF Shares, FitInv
    <3>. QED  BY <2>3, <3>1, <3>2 DEF Fits
  <2>5. /\ pc'[d] = "done"
        /\ \A q \in Request : q # d => pc'[q] = pc[q]
    BY <1>3, <2>1, EndTxEffect DEF InsertDelivery, Core
  <2>6. \A e \in Create : pc'[e] # "answered"
    BY <2>1, <2>5 DEF Core, LockInv, Request
  <2>. QED  BY <2>4, <2>6 DEF FitInv
<1>4. ASSUME NEW d \in Create, NEW v \in Driver \cup {Office}, AssignDriver(d, v)
      PROVE  FitInv'
  BY <1>4, FitKept, FulfilmentAssumption DEF AssignDriver, LockFree, Shares, Core, TypeOK, StageInv, Request
<1>5. ASSUME NEW u \in Update, NEW s \in DeliveryStatus, BeginUpdate(u, s)
      PROVE  FitInv'
  BY <1>5, FitKept, FulfilmentAssumption DEF BeginUpdate, MaySend, FirstStep, Goto, tables, Shares, Core, TypeOK, StageInv, Request
<1>6. ASSUME NEW u \in Update, FlushDelivery(u)
      PROVE  FitInv'
  BY <1>6, FitKept, FulfilmentAssumption DEF FlushDelivery, StepAfter, Take, LockFree, Goto, tables, Shares, Core, TypeOK, StageInv, Request
<1>7. ASSUME NEW u \in Update, LoadOrder(u)
      PROVE  FitInv'
  BY <1>7, FitKept, FulfilmentAssumption DEF LoadOrder, StepAfter, Goto, tables, Shares, Core, TypeOK, StageInv, Request
<1>8. ASSUME NEW u \in Update, LoadSiblings(u)
      PROVE  FitInv'
  BY <1>8, FitKept, FulfilmentAssumption DEF LoadSiblings, StepAfter, Goto, tables, Shares, Core, TypeOK, StageInv, Request
<1>9. ASSUME NEW u \in Update, RollUp(u)
      PROVE  FitInv'
  BY <1>9, FitKept, FulfilmentAssumption DEF RollUp, Take, LockFree, Goto, tables, Shares, Core, TypeOK, StageInv, Request
<1>10. ASSUME NEW u \in Update, CommitUpdate(u)
      PROVE  FitInv'
  <2>1. /\ u \in Request /\ InTx(u) /\ Of[u] \in Create
        /\ delivery' = [delivery EXCEPT ![Of[u]] = session[u].want]
    BY <1>10, FulfilmentAssumption DEF CommitUpdate, InTx, Request
  <2>2. /\ delivery[Of[u]] \in DeliveryStatus
        /\ session[u].want \in DeliveryTransitions[delivery[Of[u]]]
    BY <2>1 DEF Core, TypeOK, AskedInv, Shares, WantInv
  <2>3. Of[u] \in Allocated(delivery)
    BY <2>1, <2>2, EndedHasNoTransition DEF Allocated, DeliveryStatus
  <2>4. Allocated(delivery') \subseteq Allocated(delivery)
    BY <2>1, <2>3 DEF Allocated, Core, TypeOK
  <2>5. \A e \in Create : pc'[e] = "answered" => pc[e] = "answered"
    BY <1>10, <2>1, EndTxEffect, FulfilmentAssumption DEF CommitUpdate, Core, Request
  <2>. QED  BY <2>4, <2>5, FitKept DEF Shares
<1>11. ASSUME NEW m \in Move, NEW s \in OrderStatus, BeginMove(m, s)
      PROVE  FitInv'
  BY <1>11, FitKept, FulfilmentAssumption DEF BeginMove, MaySend, Goto, tables, Shares, Core, TypeOK, StageInv, Request
<1>12. ASSUME NEW m \in Move, WriteOrder(m)
      PROVE  FitInv'
  BY <1>12, FitKept, FulfilmentAssumption DEF WriteOrder, Take, LockFree, Goto, tables, Shares, Core, TypeOK, StageInv, Request
<1>13. ASSUME NEW m \in Move, CommitMove(m)
      PROVE  FitInv'
  BY <1>13, FitKept, FulfilmentAssumption DEF CommitMove, EndTx, Goto, Shares, Core, TypeOK, StageInv, Request
<1>14. ASSUME NEW r \in Request, GaveUp(r)
      PROVE  FitInv'
  BY <1>14, FitKept, FulfilmentAssumption DEF GaveUp, EndTx, Goto, tables, Shares, Core, TypeOK, StageInv, Request
<1>15. ASSUME NEW r \in Request, Refused(r)
      PROVE  FitInv'
  BY <1>15, FitKept, FulfilmentAssumption DEF Refused, Refuse, Goto, tables, Shares, Core, TypeOK, StageInv, Request
<1>. QED  BY <1>0, <1>1, <1>2, <1>3, <1>4, <1>5, <1>6, <1>7, <1>8, <1>9, <1>10, <1>11, <1>12, <1>13, <1>14, <1>15, StepCases DEF Core

LEMMA SharesHold == UpdatesApart => (Spec => []Shares)
<1>. SUFFICES ASSUME UpdatesApart PROVE Spec => []Shares
  OBVIOUS
<1>1. Init => Shares
  <2>. SUFFICES ASSUME Init PROVE Shares
    OBVIOUS
  <2>1. WantInv
    BY DEF Init, WantInv, InTx, Request
  <2>2. \A i \in Item : Cardinality(Carried(Allocated(delivery), i)) <= Ordered[i]
    <3>1. ASSUME NEW i \in Item PROVE Carried(Allocated(delivery), i) = {}
      BY DEF Init, Nobody, Allocated, Carried
    <3>2. \A i \in Item : Ordered[i] \in Nat
      BY FulfilmentAssumption
    <3>. QED  BY <3>1, <3>2, FS_EmptySet
  <2>3. \A d \in Create : pc[d] # "answered"
    BY DEF Init, Request
  <2>. QED  BY <2>1, <2>2, <2>3 DEF Shares, FitInv
<1>2. Core /\ Shares /\ [Next]_vars => Shares'
  BY WantStep, FitStep DEF Shares
<1>. QED  BY <1>1, <1>2, CoreHolds, PTL DEF Spec

(* The deliveries not failed or cancelled together never carry more of a   *)
(* line than was ordered, although failures give shares back while others  *)
(* are created, as long as two updates of one delivery are apart.          *)
THEOREM SharesWithinOrder == UpdatesApart => (Spec => []NoOverAllocation)
<1>1. Core /\ Shares => NoOverAllocation
  <2>. SUFFICES ASSUME Core, Shares PROVE NoOverAllocation
    OBVIOUS
  <2>1. {d \in Create : delivery[d] \in {"pending", "shipping", "delivered"}} = Allocated(delivery)
    BY DEF Core, TypeOK, DeliveryStatus, Allocated
  <2>. QED  BY <2>1 DEF NoOverAllocation, Shares, FitInv
<1>. QED  BY <1>1, CoreHolds, SharesHold, PTL

(* A delivery that was delivered, failed or cancelled is never written     *)
(* again, as long as two updates of one delivery are apart.                *)
THEOREM EndedDeliveriesStay == UpdatesApart => (Spec => EndedDeliveryStays)
<1>. SUFFICES ASSUME UpdatesApart PROVE Spec => EndedDeliveryStays
  OBVIOUS
<1>1. ASSUME Core, Shares, [Next]_vars
      PROVE  \A d \in Create : delivery[d] \in {"delivered", "failed", "cancelled"} =>
               delivery'[d] = delivery[d]
  <2>1. CASE \E e \in Create : InsertDelivery(e)
    <3>1. PICK e \in Create : InsertDelivery(e)
      BY <2>1
    <3>2. delivery[e] = "none" /\ delivery' = [delivery EXCEPT ![e] = "pending"]
      BY <1>1, <3>1, CodeIsFree DEF InsertDelivery
    <3>. QED  BY <1>1, <3>2 DEF Core, TypeOK
  <2>2. CASE \E u \in Update : CommitUpdate(u)
    <3>1. PICK u \in Update : CommitUpdate(u)
      BY <2>2
    <3>2. /\ session[u].want \in DeliveryTransitions[delivery[Of[u]]]
          /\ delivery' = [delivery EXCEPT ![Of[u]] = session[u].want]
      BY <1>1, <3>1 DEF CommitUpdate, InTx, Shares, WantInv
    <3>. QED  BY <1>1, <3>2, EndedHasNoTransition DEF Core, TypeOK
  <2>3. CASE delivery' = delivery
    BY <2>3
  <2>4. \/ \E e \in Create : InsertDelivery(e)
        \/ \E u \in Update : CommitUpdate(u)
        \/ delivery' = delivery
    BY <1>1, StepCases DEF Core, vars, tables, LockOrder, AcceptLines, AssignDriver, BeginUpdate,
                     FlushDelivery, LoadOrder, LoadSiblings, RollUp, BeginMove, WriteOrder,
                     CommitMove, GaveUp, Refused, Refuse
  <2>. QED  BY <2>1, <2>2, <2>3, <2>4
<1>. QED  BY <1>1, CoreHolds, SharesHold, PTL DEF EndedDeliveryStays, Spec

-----------------------------------------------------------------------------
(* The roll-up, when status changes are apart.                             *)

(* Rolling up again changes nothing, and an order that ended stays.        *)
LEMMA RolledUpStable ==
  ASSUME NEW o \in OrderStatus, NEW ds
  PROVE  /\ RolledUp(RolledUp(o, ds), ds) = RolledUp(o, ds)
         /\ o \in {"delivered", "cancelled"} => RolledUp(o, ds) = o
BY DEF RolledUp, OrderStatus

(* A move along the transitions leaves the order in agreement with its     *)
(* deliveries.                                                             *)
LEMMA RolledUpMoved ==
  ASSUME NEW o \in OrderStatus, NEW ds, RolledUp(o, ds) = o, NEW s \in OrderTransitions[o]
  PROVE  /\ s \in OrderStatus /\ RolledUp(s, ds) = s
         /\ o \notin {"delivered", "cancelled"}
<1>. DEFINE full == FullyDelivered(ds)
            shipping == \E d \in Create : ds[d] = "shipping"
            none == Created(ds) = {}
<1>1. /\ o \notin {"delivered", "cancelled"}
      /\ o = "pending" => s \in {"confirmed", "cancelled"}
      /\ o = "confirmed" => s \in {"shipping", "cancelled"}
      /\ o = "shipping" => s \in {"delivered", "cancelled"}
  BY DEF OrderTransitions, OrderStatus
<1>2. \A x : RolledUp(x, ds) =
        IF none \/ x = "cancelled" THEN x
        ELSE IF full THEN "delivered"
        ELSE IF x \in {"pending", "confirmed"} /\ shipping THEN "shipping"
        ELSE x
  BY DEF RolledUp
<1>. HIDE DEF full, shipping, none
<1>. QED  BY <1>1, <1>2 DEF OrderStatus

(* Nothing is delivered in full by no delivery.                            *)
LEMMA NothingDelivered ==
  ASSUME NEW ds, Delivered(ds) = {}
  PROVE  ~ FullyDelivered(ds)
<1>1. PICK i \in Item : Ordered[i] \in Nat \ {0}
  BY FulfilmentAssumption
<1>2. Carried(Delivered(ds), i) = {}
  BY DEF Carried
<1>3. Cardinality(Carried(Delivered(ds), i)) = 0
  BY <1>2, FS_EmptySet
<1>. QED  BY <1>1, <1>3 DEF FullyDelivered

(* New deliveries, all pending, make no difference to the roll-up once     *)
(* there is one delivery, and give an agreeing order nothing to change.    *)
LEMMA RolledUpGrown ==
  ASSUME NEW ds, NEW es, Grown(ds, es), NEW o
  PROVE  /\ Created(ds) # {} => RolledUp(o, es) = RolledUp(o, ds)
         /\ RolledUp(o, ds) = o => RolledUp(o, es) = o
<1>1. /\ Delivered(es) = Delivered(ds)
      /\ (\E d \in Create : es[d] = "shipping") <=> (\E d \in Create : ds[d] = "shipping")
      /\ Created(ds) \subseteq Created(es)
  BY DEF Grown, Delivered, Created
<1>2. FullyDelivered(es) <=> FullyDelivered(ds)
  BY <1>1 DEF FullyDelivered
<1>3. CASE Created(ds) # {}
  <2>1. Created(es) # {}
    BY <1>1, <1>3
  <2>2. RolledUp(o, es) = RolledUp(o, ds)
    BY <1>1, <1>2, <1>3, <2>1 DEF RolledUp
  <2>. QED  BY <2>2
<1>4. CASE Created(ds) = {}
  <2>1. Delivered(ds) = {} /\ ~ \E d \in Create : ds[d] = "shipping"
    BY <1>4 DEF Created, Delivered
  <2>2. ~ FullyDelivered(es) /\ ~ \E d \in Create : es[d] = "shipping"
    BY <1>1, <2>1, NothingDelivered
  <2>3. RolledUp(o, es) = o
    BY <2>2 DEF RolledUp
  <2>. QED  BY <1>4, <2>3
<1>. QED  BY <1>3, <1>4

(* A creation's roll-up leaves the order as it is.                         *)
LEMMA CreationKeepsOrder ==
  ASSUME Core, Rolled, NEW d \in Create, InsertDelivery(d)
  PROVE  /\ order' = order /\ d \in Request
         /\ delivery[d] = "none" /\ delivery' = [delivery EXCEPT ![d] = "pending"]
         /\ Grown(delivery, delivery')
         /\ \A u \in Update : InTx(u) => Of[u] # d
<1>1. /\ d \in Request /\ pc[d] = "answered" /\ InTx(d)
      /\ delivery[d] = "none" /\ delivery' = [delivery EXCEPT ![d] = "pending"]
  BY CodeIsFree DEF InsertDelivery, InTx, Request
<1>2. order' = order
  BY <1>1 DEF InsertDelivery, Rolled, RollInv, SnapshotInv
<1>3. \A u \in Update : InTx(u) => Of[u] # d
  BY <1>1 DEF Core, AskedInv
<1>. QED  BY <1>1, <1>2, <1>3 DEF Grown, Core, TypeOK

(* An update's commit leaves the order as its roll-up over the committed   *)
(* deliveries, its own included.                                           *)
LEMMA UpdateSettles ==
  ASSUME Core, Rolled, NEW u \in Update, CommitUpdate(u)
  PROVE  /\ u \in Request /\ InTx(u) /\ Of[u] \in Create
         /\ delivery' = [delivery EXCEPT ![Of[u]] = session[u].want]
         /\ order' = RolledUp(order, delivery')
<1>1. /\ u \in Request /\ InTx(u) /\ pc[u] = "answered" /\ OrderLoaded(u) /\ SiblingsLoaded(u)
      /\ Of[u] \in Create /\ delivery' = [delivery EXCEPT ![Of[u]] = session[u].want]
  BY FulfilmentAssumption DEF CommitUpdate, InTx, OrderLoaded, SiblingsLoaded, Request
<1>2. session[u].order = order /\ Grown(session[u].deliveries, delivery')
  BY <1>1 DEF Rolled, RollInv, LoadedInv
<1>3. Created(session[u].deliveries) # {}
  BY <1>1 DEF Rolled, RollInv, LoadedInv, Created
<1>4. order' = Derived(u)
  BY <1>1, <1>2 DEF CommitUpdate, Rolled, RollInv, LoadedInv
<1>5. Derived(u) = RolledUp(order, delivery')
  BY <1>2, <1>3, RolledUpGrown DEF Derived
<1>. QED  BY <1>1, <1>4, <1>5

(* While a creation is at work it holds the order row, and nobody writes   *)
(* the order.                                                              *)
LEMMA LockedOrderStays ==
  ASSUME Core, Rolled, [Next]_vars, NEW d \in Create, InTx(d)
  PROVE  order' = order
<1>1. holder[OrderRow] = d
  BY DEF Core, StageInv, LockInv, InTx
<1>2. ASSUME NEW u \in Update, CommitUpdate(u) PROVE order' = order
  BY <1>1, <1>2, FulfilmentAssumption DEF CommitUpdate
<1>3. ASSUME NEW m \in Move, CommitMove(m) PROVE FALSE
  BY <1>1, <1>3, FulfilmentAssumption DEF CommitMove, Core, LockInv
<1>4. ASSUME NEW e \in Create, InsertDelivery(e) PROVE order' = order
  BY <1>4, CreationKeepsOrder
<1>5. \/ \E e \in Create : InsertDelivery(e)
      \/ \E u \in Update : CommitUpdate(u)
      \/ \E m \in Move : CommitMove(m)
      \/ order' = order
  BY StepCases DEF Core, vars, tables, LockOrder, AcceptLines, AssignDriver, BeginUpdate,
                   FlushDelivery, LoadOrder, LoadSiblings, RollUp, BeginMove, WriteOrder,
                   GaveUp, Refused, Refuse
<1>. QED  BY <1>2, <1>3, <1>4, <1>5

LEMMA AloneKept ==
  ASSUME AloneInv, \A p \in Update \cup Move : InTx(p)' => InTx(p)
  PROVE  AloneInv'
BY DEF AloneInv

(* A status change starts when no other is at work.                        *)
LEMMA AloneStep ==
  ASSUME StatusChangesApart, Core, Rolled, [Next]_vars
  PROVE  AloneInv'
<1>0. CASE UNCHANGED vars
  BY <1>0 DEF vars, tables, Rolled, AloneInv, InTx
<1>1. ASSUME NEW d \in Create, LockOrder(d)
      PROVE  AloneInv'
  BY <1>1, AloneKept, FulfilmentAssumption DEF LockOrder, MaySend, Take, LockFree, Goto, tables, InTx, Rolled, Core, TypeOK, StageInv, Request
<1>2. ASSUME NEW d \in Create, AcceptLines(d)
      PROVE  AloneInv'
  BY <1>2, AloneKept, FulfilmentAssumption DEF AcceptLines, Goto, tables, InTx, Rolled, Core, TypeOK, StageInv, Request
<1>3. ASSUME NEW d \in Create, InsertDelivery(d)
      PROVE  AloneInv'
  BY <1>3, AloneKept, FulfilmentAssumption DEF InsertDelivery, EndTx, Goto, InTx, Rolled, Core, TypeOK, StageInv, Request
<1>4. ASSUME NEW d \in Create, NEW v \in Driver \cup {Office}, AssignDriver(d, v)
      PROVE  AloneInv'
  BY <1>4, AloneKept, FulfilmentAssumption DEF AssignDriver, LockFree, InTx, Rolled, Core, TypeOK, StageInv, Request
<1>5. ASSUME NEW u \in Update, NEW s \in DeliveryStatus, BeginUpdate(u, s)
      PROVE  AloneInv'
  <2>1. u \in Request /\ Update \cup Move \subseteq Request /\ MaySend(u)
    BY <1>5 DEF BeginUpdate, Request
  <2>2. \A q \in Update \cup Move : q # u => ~ InTx(q) /\ pc'[q] = pc[q]
    BY <1>5, <2>1 DEF BeginUpdate, Goto, MaySend, StatusChangesApart, Core, TypeOK
  <2>. QED  BY <2>2 DEF AloneInv, InTx
<1>6. ASSUME NEW u \in Update, FlushDelivery(u)
      PROVE  AloneInv'
  BY <1>6, AloneKept, FulfilmentAssumption DEF FlushDelivery, StepAfter, Take, LockFree, Goto, tables, InTx, Rolled, Core, TypeOK, StageInv, Request
<1>7. ASSUME NEW u \in Update, LoadOrder(u)
      PROVE  AloneInv'
  BY <1>7, AloneKept, FulfilmentAssumption DEF LoadOrder, StepAfter, Goto, tables, InTx, Rolled, Core, TypeOK, StageInv, Request
<1>8. ASSUME NEW u \in Update, LoadSiblings(u)
      PROVE  AloneInv'
  BY <1>8, AloneKept, FulfilmentAssumption DEF LoadSiblings, StepAfter, Goto, tables, InTx, Rolled, Core, TypeOK, StageInv, Request
<1>9. ASSUME NEW u \in Update, RollUp(u)
      PROVE  AloneInv'
  BY <1>9, AloneKept, FulfilmentAssumption DEF RollUp, Take, LockFree, Goto, tables, InTx, Rolled, Core, TypeOK, StageInv, Request
<1>10. ASSUME NEW u \in Update, CommitUpdate(u)
      PROVE  AloneInv'
  BY <1>10, AloneKept, FulfilmentAssumption DEF CommitUpdate, EndTx, Goto, InTx, Rolled, Core, TypeOK, StageInv, Request
<1>11. ASSUME NEW m \in Move, NEW s \in OrderStatus, BeginMove(m, s)
      PROVE  AloneInv'
  <2>1. m \in Request /\ Update \cup Move \subseteq Request /\ MaySend(m)
    BY <1>11 DEF BeginMove, Request
  <2>2. \A q \in Update \cup Move : q # m => ~ InTx(q) /\ pc'[q] = pc[q]
    BY <1>11, <2>1 DEF BeginMove, Goto, MaySend, StatusChangesApart, Core, TypeOK
  <2>. QED  BY <2>2 DEF AloneInv, InTx
<1>12. ASSUME NEW m \in Move, WriteOrder(m)
      PROVE  AloneInv'
  BY <1>12, AloneKept, FulfilmentAssumption DEF WriteOrder, Take, LockFree, Goto, tables, InTx, Rolled, Core, TypeOK, StageInv, Request
<1>13. ASSUME NEW m \in Move, CommitMove(m)
      PROVE  AloneInv'
  BY <1>13, AloneKept, FulfilmentAssumption DEF CommitMove, EndTx, Goto, InTx, Rolled, Core, TypeOK, StageInv, Request
<1>14. ASSUME NEW r \in Request, GaveUp(r)
      PROVE  AloneInv'
  BY <1>14, AloneKept, FulfilmentAssumption DEF GaveUp, EndTx, Goto, tables, InTx, Rolled, Core, TypeOK, StageInv, Request
<1>15. ASSUME NEW r \in Request, Refused(r)
      PROVE  AloneInv'
  BY <1>15, AloneKept, FulfilmentAssumption DEF Refused, Refuse, Goto, tables, InTx, Rolled, Core, TypeOK, StageInv, Request
<1>. QED  BY <1>0, <1>1, <1>2, <1>3, <1>4, <1>5, <1>6, <1>7, <1>8, <1>9, <1>10, <1>11, <1>12, <1>13, <1>14, <1>15, StepCases DEF Core

(* Whoever commits a delivery's status commits the order's with it.        *)
LEMMA SettledStep ==
  ASSUME Core, Rolled, [Next]_vars
  PROVE  SettledInv'
<1>0. CASE UNCHANGED vars
  BY <1>0 DEF vars, tables, Rolled, RollInv, SettledInv
<1>1. ASSUME NEW d \in Create, LockOrder(d)
      PROVE  SettledInv'
  BY <1>1 DEF LockOrder, MaySend, Take, LockFree, Goto, tables, Rolled, RollInv, SettledInv
<1>2. ASSUME NEW d \in Create, AcceptLines(d)
      PROVE  SettledInv'
  BY <1>2 DEF AcceptLines, Goto, tables, Rolled, RollInv, SettledInv
<1>3. ASSUME NEW d \in Create, InsertDelivery(d)
      PROVE  SettledInv'
  BY <1>3, CreationKeepsOrder, RolledUpGrown DEF Rolled, RollInv, SettledInv
<1>4. ASSUME NEW d \in Create, NEW v \in Driver \cup {Office}, AssignDriver(d, v)
      PROVE  SettledInv'
  BY <1>4 DEF AssignDriver, LockFree, Rolled, RollInv, SettledInv
<1>5. ASSUME NEW u \in Update, NEW s \in DeliveryStatus, BeginUpdate(u, s)
      PROVE  SettledInv'
  BY <1>5 DEF BeginUpdate, MaySend, FirstStep, Goto, tables, Rolled, RollInv, SettledInv
<1>6. ASSUME NEW u \in Update, FlushDelivery(u)
      PROVE  SettledInv'
  BY <1>6 DEF FlushDelivery, StepAfter, Take, LockFree, Goto, tables, Rolled, RollInv, SettledInv
<1>7. ASSUME NEW u \in Update, LoadOrder(u)
      PROVE  SettledInv'
  BY <1>7 DEF LoadOrder, StepAfter, Goto, tables, Rolled, RollInv, SettledInv
<1>8. ASSUME NEW u \in Update, LoadSiblings(u)
      PROVE  SettledInv'
  BY <1>8 DEF LoadSiblings, StepAfter, Goto, tables, Rolled, RollInv, SettledInv
<1>9. ASSUME NEW u \in Update, RollUp(u)
      PROVE  SettledInv'
  BY <1>9 DEF RollUp, Take, LockFree, Goto, tables, Rolled, RollInv, SettledInv
<1>10. ASSUME NEW u \in Update, CommitUpdate(u)
      PROVE  SettledInv'
  <2>1. order \in OrderStatus
    BY DEF Core, TypeOK
  <2>. QED  BY <1>10, <2>1, UpdateSettles, RolledUpStable DEF SettledInv
<1>11. ASSUME NEW m \in Move, NEW s \in OrderStatus, BeginMove(m, s)
      PROVE  SettledInv'
  BY <1>11 DEF BeginMove, MaySend, Goto, tables, Rolled, RollInv, SettledInv
<1>12. ASSUME NEW m \in Move, WriteOrder(m)
      PROVE  SettledInv'
  BY <1>12 DEF WriteOrder, Take, LockFree, Goto, tables, Rolled, RollInv, SettledInv
<1>13. ASSUME NEW m \in Move, CommitMove(m)
      PROVE  SettledInv'
  <2>1. /\ delivery' = delivery /\ order \in OrderStatus
        /\ order' \in OrderTransitions[order]
    BY <1>13 DEF CommitMove, InTx, Core, TypeOK, Rolled, RollInv, MoveInv
  <2>. QED  BY <2>1, RolledUpMoved DEF Rolled, RollInv, SettledInv
<1>14. ASSUME NEW r \in Request, GaveUp(r)
      PROVE  SettledInv'
  BY <1>14 DEF GaveUp, EndTx, Goto, tables, Rolled, RollInv, SettledInv
<1>15. ASSUME NEW r \in Request, Refused(r)
      PROVE  SettledInv'
  BY <1>15 DEF Refused, Refuse, Goto, tables, Rolled, RollInv, SettledInv
<1>. QED  BY <1>0, <1>1, <1>2, <1>3, <1>4, <1>5, <1>6, <1>7, <1>8, <1>9, <1>10, <1>11, <1>12, <1>13, <1>14, <1>15, StepCases DEF Core

LEMMA SnapshotKept ==
  ASSUME Core, Rolled, [Next]_vars,
         \A d \in Create :
           /\ InTx(d)' => InTx(d) /\ session'[d] = session[d]
           /\ pc'[d] = "answered" => pc[d] = "answered"
  PROVE  SnapshotInv'
<1>1. \A d \in Create : InTx(d) => order' = order
  BY LockedOrderStays
<1>2. \A d \in Create : pc'[d] = "answered" => InTx(d)'
  BY DEF InTx
<1>. QED  BY <1>1, <1>2 DEF Rolled, RollInv, SnapshotInv

(* A creation reads the order under the lock it keeps until it commits.    *)
LEMMA SnapshotStep ==
  ASSUME Core, Rolled, [Next]_vars
  PROVE  SnapshotInv'
<1>0. CASE UNCHANGED vars
  BY <1>0 DEF vars, tables, Rolled, RollInv, SnapshotInv, InTx, Core, TypeOK
<1>1. ASSUME NEW d \in Create, LockOrder(d)
      PROVE  SnapshotInv'
  <2>1. /\ order' = order /\ pc'[d] = "locked" /\ session'[d].order = order
        /\ \A e \in Create : e # d => pc'[e] = pc[e] /\ session'[e] = session[e]
    BY <1>1 DEF LockOrder, Goto, tables, Core, TypeOK, Request
  <2>. QED  BY <2>1 DEF Rolled, RollInv, SnapshotInv, InTx
<1>2. ASSUME NEW d \in Create, AcceptLines(d)
      PROVE  SnapshotInv'
  <2>1. /\ order' = order /\ InTx(d) /\ session'[d].order = session[d].order
        /\ session'[d].deliveries = delivery
        /\ \A e \in Create : e # d => pc'[e] = pc[e] /\ session'[e] = session[e]
    BY <1>2 DEF AcceptLines, Goto, tables, InTx, Core, TypeOK, Request
  <2>. QED  BY <2>1 DEF Rolled, RollInv, SnapshotInv, SettledInv, InTx
<1>3. ASSUME NEW d \in Create, InsertDelivery(d)
      PROVE  SnapshotInv'
  BY <1>3, SnapshotKept, FulfilmentAssumption DEF InsertDelivery, EndTx, Goto, InTx, Core, TypeOK, StageInv, Request
<1>4. ASSUME NEW d \in Create, NEW v \in Driver \cup {Office}, AssignDriver(d, v)
      PROVE  SnapshotInv'
  BY <1>4, SnapshotKept, FulfilmentAssumption DEF AssignDriver, LockFree, InTx, Core, TypeOK, StageInv, Request
<1>5. ASSUME NEW u \in Update, NEW s \in DeliveryStatus, BeginUpdate(u, s)
      PROVE  SnapshotInv'
  BY <1>5, SnapshotKept, FulfilmentAssumption DEF BeginUpdate, MaySend, FirstStep, Goto, tables, InTx, Core, TypeOK, StageInv, Request
<1>6. ASSUME NEW u \in Update, FlushDelivery(u)
      PROVE  SnapshotInv'
  BY <1>6, SnapshotKept, FulfilmentAssumption DEF FlushDelivery, StepAfter, Take, LockFree, Goto, tables, InTx, Core, TypeOK, StageInv, Request
<1>7. ASSUME NEW u \in Update, LoadOrder(u)
      PROVE  SnapshotInv'
  BY <1>7, SnapshotKept, FulfilmentAssumption DEF LoadOrder, StepAfter, Goto, tables, InTx, Core, TypeOK, StageInv, Request
<1>8. ASSUME NEW u \in Update, LoadSiblings(u)
      PROVE  SnapshotInv'
  BY <1>8, SnapshotKept, FulfilmentAssumption DEF LoadSiblings, StepAfter, Goto, tables, InTx, Core, TypeOK, StageInv, Request
<1>9. ASSUME NEW u \in Update, RollUp(u)
      PROVE  SnapshotInv'
  BY <1>9, SnapshotKept, FulfilmentAssumption DEF RollUp, Take, LockFree, Goto, tables, InTx, Core, TypeOK, StageInv, Request
<1>10. ASSUME NEW u \in Update, CommitUpdate(u)
      PROVE  SnapshotInv'
  BY <1>10, SnapshotKept, FulfilmentAssumption DEF CommitUpdate, EndTx, Goto, InTx, Core, TypeOK, StageInv, Request
<1>11. ASSUME NEW m \in Move, NEW s \in OrderStatus, BeginMove(m, s)
      PROVE  SnapshotInv'
  BY <1>11, SnapshotKept, FulfilmentAssumption DEF BeginMove, MaySend, Goto, tables, InTx, Core, TypeOK, StageInv, Request
<1>12. ASSUME NEW m \in Move, WriteOrder(m)
      PROVE  SnapshotInv'
  BY <1>12, SnapshotKept, FulfilmentAssumption DEF WriteOrder, Take, LockFree, Goto, tables, InTx, Core, TypeOK, StageInv, Request
<1>13. ASSUME NEW m \in Move, CommitMove(m)
      PROVE  SnapshotInv'
  BY <1>13, SnapshotKept, FulfilmentAssumption DEF CommitMove, EndTx, Goto, InTx, Core, TypeOK, StageInv, Request
<1>14. ASSUME NEW r \in Request, GaveUp(r)
      PROVE  SnapshotInv'
  BY <1>14, SnapshotKept, FulfilmentAssumption DEF GaveUp, EndTx, Goto, tables, InTx, Core, TypeOK, StageInv, Request
<1>15. ASSUME NEW r \in Request, Refused(r)
      PROVE  SnapshotInv'
  BY <1>15, SnapshotKept, FulfilmentAssumption DEF Refused, Refuse, Goto, tables, InTx, Core, TypeOK, StageInv, Request
<1>. QED  BY <1>0, <1>1, <1>2, <1>3, <1>4, <1>5, <1>6, <1>7, <1>8, <1>9, <1>10, <1>11, <1>12, <1>13, <1>14, <1>15, StepCases DEF Core

(* A step that leaves the orders and the deliveries, up to new ones, and   *)
(* every update at work.                                                   *)
LEMMA LoadedKept ==
  ASSUME Core, Rolled,
         \A u \in Update : InTx(u)' =>
           /\ order' = order
           /\ Grown([delivery EXCEPT ![Of[u]] = session[u].want],
                    [delivery' EXCEPT ![Of[u]] = session[u].want])
           /\ session'[u] = session[u] /\ pc'[u] = pc[u]
           /\ holder'[OrderRow] = u <=> holder[OrderRow] = u
  PROVE  LoadedInv'
<1>. SUFFICES ASSUME NEW u \in Update, InTx(u)'
              PROVE  /\ OrderLoaded(u)' => session'[u].order = order'
                     /\ SiblingsLoaded(u)' =>
                          /\ Grown(session'[u].deliveries, [delivery' EXCEPT ![Of[u]] = session'[u].want])
                          /\ session'[u].deliveries[Of[u]] # "none"
                     /\ pc'[u] = "answered" /\ holder'[OrderRow] # u => Derived(u)' = session'[u].order
  BY DEF LoadedInv, OrderLoaded, SiblingsLoaded, InTx
<1>1. OrderLoaded(u)' => session'[u].order = order'
  BY DEF OrderLoaded, Rolled, RollInv, LoadedInv
<1>2. ASSUME SiblingsLoaded(u)'
      PROVE  /\ Grown(session'[u].deliveries, [delivery' EXCEPT ![Of[u]] = session'[u].want])
             /\ session'[u].deliveries[Of[u]] # "none"
  <2>1. SiblingsLoaded(u)
    BY <1>2 DEF SiblingsLoaded
  <2>2. /\ Grown(session[u].deliveries, [delivery EXCEPT ![Of[u]] = session[u].want])
        /\ session[u].deliveries[Of[u]] # "none"
    BY <2>1 DEF Rolled, RollInv, LoadedInv
  <2>. QED  BY <2>2 DEF Grown
<1>3. ASSUME pc'[u] = "answered", holder'[OrderRow] # u
      PROVE  Derived(u)' = session'[u].order
  <2>1. pc[u] = "answered" /\ holder[OrderRow] # u /\ session'[u] = session[u]
    BY <1>3
  <2>2. Derived(u) = session[u].order
    BY <2>1 DEF Rolled, RollInv, LoadedInv
  <2>3. Derived(u)' = Derived(u)
    BY <2>1 DEF Derived, RolledUp
  <2>. QED  BY <2>1, <2>2, <2>3
<1>. QED  BY <1>1, <1>2, <1>3

(* A step that leaves the tables and touches one update at most.           *)
LEMMA OnlyOneLoads ==
  ASSUME Core, Rolled, NEW u \in Update, order' = order, delivery' = delivery,
         \A w \in Update : w # u =>
           /\ session'[w] = session[w] /\ pc'[w] = pc[w]
           /\ holder'[OrderRow] = w <=> holder[OrderRow] = w,
         /\ OrderLoaded(u)' => session'[u].order = order
         /\ SiblingsLoaded(u)' =>
              /\ Grown(session'[u].deliveries, [delivery EXCEPT ![Of[u]] = session'[u].want])
              /\ session'[u].deliveries[Of[u]] # "none"
         /\ pc'[u] = "answered" /\ holder'[OrderRow] # u => Derived(u)' = session'[u].order
  PROVE  LoadedInv'
<1>1. ASSUME NEW w \in Update, w # u
      PROVE  /\ OrderLoaded(w)' <=> OrderLoaded(w)
             /\ SiblingsLoaded(w)' <=> SiblingsLoaded(w)
             /\ Derived(w)' = Derived(w)
  BY <1>1 DEF OrderLoaded, SiblingsLoaded, Derived, RolledUp
<1>2. \A w \in Update : OrderLoaded(w)' => session'[w].order = order'
  BY <1>1 DEF Rolled, RollInv, LoadedInv
<1>3. \A w \in Update : SiblingsLoaded(w)' =>
        /\ Grown(session'[w].deliveries, [delivery' EXCEPT ![Of[w]] = session'[w].want])
        /\ session'[w].deliveries[Of[w]] # "none"
  BY <1>1 DEF Rolled, RollInv, LoadedInv
<1>4. \A w \in Update : pc'[w] = "answered" /\ holder'[OrderRow] # w => Derived(w)' = session'[w].order
  BY <1>1 DEF Rolled, RollInv, LoadedInv
<1>. QED  BY <1>2, <1>3, <1>4 DEF LoadedInv

(* Alone among status changes, an update finds what it loaded unchanged    *)
(* but for new deliveries.                                                 *)
LEMMA LoadedStep ==
  ASSUME Core, Rolled, [Next]_vars
  PROVE  LoadedInv'
<1>0. CASE UNCHANGED vars
  BY ZenonT(60), <1>0 DEF vars, tables, Rolled, RollInv, LoadedInv, InTx, Core, TypeOK, OrderLoaded, SiblingsLoaded, Derived, RolledUp
<1>1. ASSUME NEW d \in Create, LockOrder(d)
      PROVE  LoadedInv'
  BY <1>1, LoadedKept, FulfilmentAssumption DEF LockOrder, MaySend, Take, LockFree, Goto, tables, Grown, InTx, Core, TypeOK, StageInv, Request, Row
<1>2. ASSUME NEW d \in Create, AcceptLines(d)
      PROVE  LoadedInv'
  BY <1>2, LoadedKept, FulfilmentAssumption DEF AcceptLines, Goto, tables, Grown, InTx, Core, TypeOK, StageInv, Request, Row
<1>3. ASSUME NEW d \in Create, InsertDelivery(d)
      PROVE  LoadedInv'
  <2>1. /\ order' = order /\ d \in Request /\ delivery[d] = "none"
        /\ delivery' = [delivery EXCEPT ![d] = "pending"]
        /\ \A u \in Update : InTx(u) => Of[u] # d
    BY <1>3, CreationKeepsOrder
  <2>2. /\ \A q \in Request : q # d => pc'[q] = pc[q] /\ session'[q] = session[q]
        /\ holder'[OrderRow] = IF holder[OrderRow] = d THEN Free ELSE holder[OrderRow]
    BY <1>3, <2>1, EndTxEffect DEF InsertDelivery, Core, Row
  <2>3. \A u \in Update : u # d /\ u # Free /\ u \in Request
    BY FulfilmentAssumption DEF Request
  <2>4. \A u \in Update : InTx(u)' => InTx(u)
    BY <2>2, <2>3 DEF InTx
  <2>5. \A u \in Update : InTx(u)' =>
          Grown([delivery EXCEPT ![Of[u]] = session[u].want],
                [delivery' EXCEPT ![Of[u]] = session[u].want])
    BY <2>1, <2>4 DEF Grown, Core, TypeOK
  <2>. QED  BY <2>1, <2>2, <2>3, <2>5, LoadedKept
<1>4. ASSUME NEW d \in Create, NEW v \in Driver \cup {Office}, AssignDriver(d, v)
      PROVE  LoadedInv'
  BY <1>4, LoadedKept, FulfilmentAssumption DEF AssignDriver, LockFree, Grown, InTx, Core, TypeOK, StageInv, Request, Row
<1>5. ASSUME NEW u \in Update, NEW s \in DeliveryStatus, BeginUpdate(u, s)
      PROVE  LoadedInv'
  <2>1. /\ u \in Request /\ Of[u] \in Create /\ order' = order /\ delivery' = delivery
        /\ \A w \in Update : w # u => session'[w] = session[w] /\ pc'[w] = pc[w]
    BY <1>5, FulfilmentAssumption DEF BeginUpdate, Goto, tables, Core, TypeOK, Request
  <2>2. holder' = holder
    BY <1>5 DEF BeginUpdate
  <2>3. pc'[u] = IF u \in DriverApp THEN "order" ELSE "flush"
    BY <1>5, <2>1 DEF BeginUpdate, FirstStep, Goto, Core, TypeOK
  <2>4. ~ OrderLoaded(u)' /\ ~ SiblingsLoaded(u)' /\ pc'[u] # "answered"
    BY <2>3 DEF OrderLoaded, SiblingsLoaded
  <2>. QED  BY <2>1, <2>2, <2>4, OnlyOneLoads
<1>6. ASSUME NEW u \in Update, FlushDelivery(u)
      PROVE  LoadedInv'
  <2>1. /\ u \in Request /\ Of[u] \in Create /\ order' = order /\ delivery' = delivery
        /\ \A w \in Update : w # u => session'[w] = session[w] /\ pc'[w] = pc[w]
    BY <1>6, FulfilmentAssumption DEF FlushDelivery, Goto, tables, Core, TypeOK, Request
  <2>2. holder'[OrderRow] = holder[OrderRow] /\ session' = session
    BY <1>6, <2>1, FulfilmentAssumption DEF FlushDelivery, Take, Core, TypeOK, Row
  <2>3. /\ pc[u] = "flush"
        /\ pc'[u] = IF u \in DriverApp THEN "rollup" ELSE "order"
    BY <1>6, <2>1 DEF FlushDelivery, StepAfter, Goto, Core, TypeOK
  <2>4. /\ OrderLoaded(u)' => OrderLoaded(u)
        /\ SiblingsLoaded(u)' => SiblingsLoaded(u)
        /\ pc'[u] # "answered"
    BY <2>3 DEF OrderLoaded, SiblingsLoaded
  <2>5. /\ OrderLoaded(u)' => session'[u].order = order
        /\ SiblingsLoaded(u)' =>
             /\ Grown(session'[u].deliveries, [delivery EXCEPT ![Of[u]] = session'[u].want])
             /\ session'[u].deliveries[Of[u]] # "none"
    BY <2>2, <2>4 DEF Rolled, RollInv, LoadedInv
  <2>. QED  BY <2>1, <2>2, <2>4, <2>5, OnlyOneLoads
<1>7. ASSUME NEW u \in Update, LoadOrder(u)
      PROVE  LoadedInv'
  <2>1. /\ u \in Request /\ Of[u] \in Create /\ order' = order /\ delivery' = delivery
        /\ \A w \in Update : w # u => session'[w] = session[w] /\ pc'[w] = pc[w]
    BY <1>7, FulfilmentAssumption DEF LoadOrder, Goto, tables, Core, TypeOK, Request
  <2>2. holder' = holder /\ session'[u].order = order
    BY <1>7, <2>1 DEF LoadOrder, Core, TypeOK
  <2>3. pc'[u] = "siblings"
    BY <1>7, <2>1 DEF LoadOrder, StepAfter, Goto, Core, TypeOK
  <2>4. ~ SiblingsLoaded(u)' /\ pc'[u] # "answered"
    BY <2>3 DEF SiblingsLoaded
  <2>. QED  BY <2>1, <2>2, <2>4, OnlyOneLoads
<1>8. ASSUME NEW u \in Update, LoadSiblings(u)
      PROVE  LoadedInv'
  <2>1. /\ u \in Request /\ Of[u] \in Create /\ order' = order /\ delivery' = delivery
        /\ \A w \in Update : w # u => session'[w] = session[w] /\ pc'[w] = pc[w]
    BY <1>8, FulfilmentAssumption DEF LoadSiblings, Goto, tables, Core, TypeOK, Request
  <2>2. /\ pc[u] = "siblings" /\ holder' = holder
        /\ session'[u].order = session[u].order /\ session'[u].want = session[u].want
        /\ session'[u].deliveries = [delivery EXCEPT ![Of[u]] = session[u].want]
    BY <1>8, <2>1 DEF LoadSiblings, Core, TypeOK
  <2>3. pc'[u] # "answered"
    BY <1>8, <2>1 DEF LoadSiblings, StepAfter, Goto, Core, TypeOK
  <2>4. session'[u].order = order
    BY <2>2 DEF OrderLoaded, Rolled, RollInv, LoadedInv
  <2>5. /\ Grown(session'[u].deliveries, [delivery EXCEPT ![Of[u]] = session'[u].want])
        /\ session'[u].deliveries[Of[u]] # "none"
    BY <2>1, <2>2 DEF Grown, InTx, Core, TypeOK, AskedInv, DeliveryStatus
  <2>. QED  BY <2>1, <2>2, <2>3, <2>4, <2>5, OnlyOneLoads
<1>9. ASSUME NEW u \in Update, RollUp(u)
      PROVE  LoadedInv'
  <2>1. /\ u \in Request /\ Of[u] \in Create /\ order' = order /\ delivery' = delivery
        /\ \A w \in Update : w # u => session'[w] = session[w] /\ pc'[w] = pc[w]
    BY <1>9, FulfilmentAssumption DEF RollUp, Goto, tables, Core, TypeOK, Request
  <2>2. pc[u] = "rollup" /\ session' = session /\ pc'[u] = "answered"
    BY <1>9, <2>1 DEF RollUp, Goto, Core, TypeOK
  <2>3. \/ holder' = holder /\ Derived(u) = session[u].order
        \/ holder[OrderRow] = Free /\ holder'[OrderRow] = u
    BY <1>9 DEF RollUp, Take, LockFree, Core, TypeOK, Row
  <2>4. \A w \in Update : w # u => (holder'[OrderRow] = w <=> holder[OrderRow] = w)
    BY <2>3, FulfilmentAssumption DEF Request
  <2>5. Derived(u)' = Derived(u)
    BY <2>2 DEF Derived, RolledUp
  <2>6. OrderLoaded(u) /\ SiblingsLoaded(u)
    BY <2>2 DEF OrderLoaded, SiblingsLoaded
  <2>7. /\ session'[u].order = order
        /\ Grown(session'[u].deliveries, [delivery EXCEPT ![Of[u]] = session'[u].want])
        /\ session'[u].deliveries[Of[u]] # "none"
    BY <2>2, <2>6 DEF Rolled, RollInv, LoadedInv
  <2>8. holder'[OrderRow] # u => Derived(u)' = session'[u].order
    BY <2>2, <2>3, <2>5
  <2>. QED  BY <2>1, <2>4, <2>7, <2>8, OnlyOneLoads
<1>10. ASSUME NEW u \in Update, CommitUpdate(u)
      PROVE  LoadedInv'
  <2>1. u \in Request /\ InTx(u)
    BY <1>10 DEF CommitUpdate, InTx, Request
  <2>2. /\ pc'[u] = "done"
        /\ \A q \in Request : q # u => pc'[q] = pc[q]
    BY <1>10, <2>1, EndTxEffect DEF CommitUpdate, Core
  <2>3. \A w \in Update : ~ InTx(w)'
    BY <2>1, <2>2 DEF InTx, Rolled, AloneInv, Request
  <2>. QED  BY <2>3, LoadedKept
<1>11. ASSUME NEW m \in Move, NEW s \in OrderStatus, BeginMove(m, s)
      PROVE  LoadedInv'
  BY <1>11, LoadedKept, FulfilmentAssumption DEF BeginMove, MaySend, Goto, tables, Grown, InTx, Core, TypeOK, StageInv, Request, Row
<1>12. ASSUME NEW m \in Move, WriteOrder(m)
      PROVE  LoadedInv'
  BY <1>12, LoadedKept, FulfilmentAssumption DEF WriteOrder, Take, LockFree, Goto, tables, Grown, InTx, Core, TypeOK, StageInv, Request, Row
<1>13. ASSUME NEW m \in Move, CommitMove(m)
      PROVE  LoadedInv'
  <2>1. m \in Request /\ InTx(m)
    BY <1>13 DEF CommitMove, InTx, Request
  <2>2. /\ pc'[m] = "done"
        /\ \A q \in Request : q # m => pc'[q] = pc[q]
    BY <1>13, <2>1, EndTxEffect DEF CommitMove, Core
  <2>3. \A w \in Update : ~ InTx(w)'
    BY <2>1, <2>2 DEF InTx, Rolled, AloneInv, Request
  <2>. QED  BY <2>3, LoadedKept
<1>14. ASSUME NEW r \in Request, GaveUp(r)
      PROVE  LoadedInv'
  BY <1>14, LoadedKept, FulfilmentAssumption DEF GaveUp, EndTx, Goto, tables, Grown, InTx, Core, TypeOK, StageInv, Request, Row
<1>15. ASSUME NEW r \in Request, Refused(r)
      PROVE  LoadedInv'
  BY <1>15, LoadedKept, FulfilmentAssumption DEF Refused, Refuse, Goto, tables, Grown, InTx, Core, TypeOK, StageInv, Request, Row
<1>. QED  BY <1>0, <1>1, <1>2, <1>3, <1>4, <1>5, <1>6, <1>7, <1>8, <1>9, <1>10, <1>11, <1>12, <1>13, <1>14, <1>15, StepCases DEF Core

LEMMA MoveKept ==
  ASSUME Core, Rolled,
         \A m \in Move : InTx(m)' => InTx(m) /\ order' = order /\ session'[m] = session[m]
  PROVE  MoveInv'
BY DEF Rolled, RollInv, MoveInv

(* Alone among status changes, a move finds the order as it read it.       *)
LEMMA MoveStep ==
  ASSUME Core, Rolled, [Next]_vars
  PROVE  MoveInv'
<1>0. CASE UNCHANGED vars
  BY <1>0 DEF vars, tables, Rolled, RollInv, MoveInv, InTx, Core, TypeOK
<1>1. ASSUME NEW d \in Create, LockOrder(d)
      PROVE  MoveInv'
  BY <1>1, MoveKept, FulfilmentAssumption DEF LockOrder, MaySend, Take, LockFree, Goto, tables, InTx, Core, TypeOK, StageInv, Request
<1>2. ASSUME NEW d \in Create, AcceptLines(d)
      PROVE  MoveInv'
  BY <1>2, MoveKept, FulfilmentAssumption DEF AcceptLines, Goto, tables, InTx, Core, TypeOK, StageInv, Request
<1>3. ASSUME NEW d \in Create, InsertDelivery(d)
      PROVE  MoveInv'
  <2>1. order' = order /\ d \in Request
    BY <1>3, CreationKeepsOrder
  <2>2. \A q \in Request : q # d => pc'[q] = pc[q] /\ session'[q] = session[q]
    BY <1>3, <2>1, EndTxEffect DEF InsertDelivery, Core
  <2>. QED  BY <2>1, <2>2, MoveKept, FulfilmentAssumption DEF InTx, Request
<1>4. ASSUME NEW d \in Create, NEW v \in Driver \cup {Office}, AssignDriver(d, v)
      PROVE  MoveInv'
  BY <1>4, MoveKept, FulfilmentAssumption DEF AssignDriver, LockFree, InTx, Core, TypeOK, StageInv, Request
<1>5. ASSUME NEW u \in Update, NEW s \in DeliveryStatus, BeginUpdate(u, s)
      PROVE  MoveInv'
  BY <1>5, MoveKept, FulfilmentAssumption DEF BeginUpdate, MaySend, FirstStep, Goto, tables, InTx, Core, TypeOK, StageInv, Request
<1>6. ASSUME NEW u \in Update, FlushDelivery(u)
      PROVE  MoveInv'
  BY <1>6, MoveKept, FulfilmentAssumption DEF FlushDelivery, StepAfter, Take, LockFree, Goto, tables, InTx, Core, TypeOK, StageInv, Request
<1>7. ASSUME NEW u \in Update, LoadOrder(u)
      PROVE  MoveInv'
  BY <1>7, MoveKept, FulfilmentAssumption DEF LoadOrder, StepAfter, Goto, tables, InTx, Core, TypeOK, StageInv, Request
<1>8. ASSUME NEW u \in Update, LoadSiblings(u)
      PROVE  MoveInv'
  BY <1>8, MoveKept, FulfilmentAssumption DEF LoadSiblings, StepAfter, Goto, tables, InTx, Core, TypeOK, StageInv, Request
<1>9. ASSUME NEW u \in Update, RollUp(u)
      PROVE  MoveInv'
  BY <1>9, MoveKept, FulfilmentAssumption DEF RollUp, Take, LockFree, Goto, tables, InTx, Core, TypeOK, StageInv, Request
<1>10. ASSUME NEW u \in Update, CommitUpdate(u)
      PROVE  MoveInv'
  <2>1. u \in Request /\ InTx(u)
    BY <1>10 DEF CommitUpdate, InTx, Request
  <2>2. /\ pc'[u] = "done"
        /\ \A q \in Request : q # u => pc'[q] = pc[q]
    BY <1>10, <2>1, EndTxEffect DEF CommitUpdate, Core
  <2>3. \A m2 \in Move : ~ InTx(m2)'
    BY <2>1, <2>2 DEF InTx, Rolled, AloneInv, Request
  <2>. QED  BY <2>3, MoveKept
<1>11. ASSUME NEW m \in Move, NEW s \in OrderStatus, BeginMove(m, s)
      PROVE  MoveInv'
  <2>1. /\ order' = order /\ session'[m].want = s /\ s \in OrderTransitions[order]
        /\ \A m2 \in Move : m2 # m => pc'[m2] = pc[m2] /\ session'[m2] = session[m2]
    BY <1>11 DEF BeginMove, Goto, tables, Core, TypeOK, Request
  <2>. QED  BY <2>1 DEF Rolled, RollInv, MoveInv, InTx
<1>12. ASSUME NEW m \in Move, WriteOrder(m)
      PROVE  MoveInv'
  BY <1>12, MoveKept, FulfilmentAssumption DEF WriteOrder, Take, LockFree, Goto, tables, InTx, Core, TypeOK, StageInv, Request
<1>13. ASSUME NEW m \in Move, CommitMove(m)
      PROVE  MoveInv'
  <2>1. m \in Request /\ InTx(m)
    BY <1>13 DEF CommitMove, InTx, Request
  <2>2. /\ pc'[m] = "done"
        /\ \A q \in Request : q # m => pc'[q] = pc[q]
    BY <1>13, <2>1, EndTxEffect DEF CommitMove, Core
  <2>3. \A m2 \in Move : ~ InTx(m2)'
    BY <2>1, <2>2 DEF InTx, Rolled, AloneInv, Request
  <2>. QED  BY <2>3, MoveKept
<1>14. ASSUME NEW r \in Request, GaveUp(r)
      PROVE  MoveInv'
  BY <1>14, MoveKept, FulfilmentAssumption DEF GaveUp, EndTx, Goto, tables, InTx, Core, TypeOK, StageInv, Request
<1>15. ASSUME NEW r \in Request, Refused(r)
      PROVE  MoveInv'
  BY <1>15, MoveKept, FulfilmentAssumption DEF Refused, Refuse, Goto, tables, InTx, Core, TypeOK, StageInv, Request
<1>. QED  BY <1>0, <1>1, <1>2, <1>3, <1>4, <1>5, <1>6, <1>7, <1>8, <1>9, <1>10, <1>11, <1>12, <1>13, <1>14, <1>15, StepCases DEF Core

LEMMA RolledHolds == StatusChangesApart => (Spec => []Rolled)
<1>. SUFFICES ASSUME StatusChangesApart PROVE Spec => []Rolled
  OBVIOUS
<1>1. Init => Rolled
  <2>. SUFFICES ASSUME Init PROVE Rolled
    OBVIOUS
  <2>1. Created(delivery) = {}
    BY DEF Init, Nobody, Created
  <2>2. SettledInv
    BY <2>1 DEF SettledInv, RolledUp
  <2>3. \A r \in Request : pc[r] = "arrived"
    BY DEF Init
  <2>. QED  BY <2>2, <2>3 DEF Rolled, AloneInv, RollInv, SnapshotInv, LoadedInv, MoveInv, InTx,
                            OrderLoaded, SiblingsLoaded, Request
<1>2. Core /\ Rolled /\ [Next]_vars => Rolled'
  BY AloneStep, SettledStep, SnapshotStep, LoadedStep, MoveStep DEF Rolled, RollInv
<1>. QED  BY <1>1, <1>2, CoreHolds, PTL DEF Spec

(* The order's status agrees with the committed deliveries: delivered when *)
(* every line was, at least shipping when one is on the road, unless it    *)
(* was cancelled - as long as status changes are apart, however creations  *)
(* overlap with them.                                                      *)
THEOREM OrderStaysRolledUp == StatusChangesApart => (Spec => []OrderRolledUp)
<1>1. Rolled => OrderRolledUp
  BY DEF Rolled, RollInv, SettledInv, OrderRolledUp
<1>. QED  BY <1>1, RolledHolds, PTL

(* Nothing writes over a delivered or cancelled order: no roll-up, no      *)
(* creation of a delivery, no move - as long as status changes are apart.  *)
THEOREM TerminalOrdersStay == StatusChangesApart => (Spec => TerminalOrderStays)
<1>. SUFFICES ASSUME StatusChangesApart PROVE Spec => TerminalOrderStays
  OBVIOUS
<1>1. ASSUME Core, Rolled, [Next]_vars, order \in {"delivered", "cancelled"}
      PROVE  order' = order
  <2>1. order \in OrderStatus
    BY <1>1 DEF Core, TypeOK
  <2>2. ASSUME NEW e \in Create, InsertDelivery(e) PROVE order' = order
    BY <1>1, <2>2, CreationKeepsOrder
  <2>3. ASSUME NEW u \in Update, CommitUpdate(u) PROVE order' = order
    BY <1>1, <2>1, <2>3, UpdateSettles, RolledUpStable
  <2>4. ASSUME NEW m \in Move, CommitMove(m) PROVE FALSE
    <3>1. session[m].want \in OrderTransitions[order]
      BY <1>1, <2>4 DEF CommitMove, InTx, Rolled, RollInv, MoveInv
    <3>. QED  BY <1>1, <2>1, <3>1, RolledUpMoved DEF Rolled, RollInv, SettledInv
  <2>5. \/ \E e \in Create : InsertDelivery(e)
        \/ \E u \in Update : CommitUpdate(u)
        \/ \E m \in Move : CommitMove(m)
        \/ order' = order
    BY <1>1, StepCases DEF Core, vars, tables, LockOrder, AcceptLines, AssignDriver, BeginUpdate,
                     FlushDelivery, LoadOrder, LoadSiblings, RollUp, BeginMove, WriteOrder,
                     GaveUp, Refused, Refuse
  <2>. QED  BY <2>2, <2>3, <2>4, <2>5
<1>2. Core /\ Rolled /\ [Next]_vars => [(order \in {"delivered", "cancelled"}) => UNCHANGED order]_vars
  BY <1>1
<1>. QED  BY <1>2, CoreHolds, RolledHolds, PTL DEF TerminalOrderStays, Spec
=============================================================================
