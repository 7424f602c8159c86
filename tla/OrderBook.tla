----------------------------- MODULE OrderBook ------------------------------
(***************************************************************************)
(* What the order service promises, without sessions, locks or snapshots:  *)
(* orders are placed and amended one at a time, each in one step on the    *)
(* current tables.  OrderStore implements it.                              *)
(***************************************************************************)
EXTENDS Naturals, FiniteSets

CONSTANTS Product, Checkout, WithCoupon, Key, Cart, InitialStock, UsageLimit, Coupon

VARIABLES stock, used, listed, status, number

book == <<stock, used, listed, status, number>>

Placed   == {c \in Checkout : status[c] # "none"}
Items(c) == {p \in Product : Cart[c][p] > 0}

Successors(s) ==
  CASE s = "pending"   -> {"confirmed", "cancelled"}
    [] s = "confirmed" -> {"shipping", "cancelled"}
    [] s = "shipping"  -> {"delivered", "cancelled"}
    [] OTHER           -> {}

Init ==
  /\ stock = InitialStock
  /\ used = 0
  /\ listed = [x \in Product \cup {Coupon} |-> TRUE]
  /\ status = [c \in Checkout |-> "none"]
  /\ number = [c \in Checkout |-> 0]

(* An order takes its whole cart and its coupon use, or it is not placed.  *)
Place(c) ==
  /\ \A d \in Placed : Key[d] # Key[c]
  /\ \A p \in Items(c) : listed[p] /\ Cart[c][p] <= stock[p]
  /\ c \in WithCoupon => listed[Coupon] /\ used < UsageLimit
  /\ stock' = [p \in Product |-> stock[p] - Cart[c][p]]
  /\ used' = IF c \in WithCoupon THEN used + 1 ELSE used
  /\ status' = [status EXCEPT ![c] = "pending"]
  /\ number' = [number EXCEPT ![c] = Cardinality(Placed) + 1]
  /\ UNCHANGED listed

(* A placed order moves along the lifecycle; cancelling returns its cart.  *)
Amend(c, s) ==
  /\ s \in Successors(status[c])
  /\ status' = [status EXCEPT ![c] = s]
  /\ stock' = IF s = "cancelled" THEN [p \in Product |-> stock[p] + Cart[c][p]] ELSE stock
  /\ UNCHANGED <<used, listed, number>>

Switch(x) ==
  /\ listed' = [listed EXCEPT ![x] = ~ @]
  /\ UNCHANGED <<stock, used, status, number>>

Next ==
  \/ \E c \in Checkout : Place(c) \/ \E s \in {"confirmed", "shipping", "delivered", "cancelled"} :
       Amend(c, s)
  \/ \E x \in Product \cup {Coupon} : Switch(x)

Spec == Init /\ [][Next]_book
=============================================================================
