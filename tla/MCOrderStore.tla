---------------------------- MODULE MCOrderStore ----------------------------
(***************************************************************************)
(* Instances of OrderStore for TLC.                                        *)
(***************************************************************************)
EXTENDS OrderStore, TLC

CONSTANTS c1, c2, c3, e1, e2, p1, p2

(* c2 repeats c1's key with another cart and a coupon; c3 competes with c1 *)
(* for p2 and with c2 for the last use of the coupon.                      *)
RepeatedKey == c1 :> "k1" @@ c2 :> "k1" @@ c3 :> "k3"
Units12(m, n) == p1 :> m @@ p2 :> n
RivalCart   == c1 :> Units12(1, 1) @@ c2 :> Units12(1, 0) @@ c3 :> Units12(2, 1)
RivalStock  == Units12(3, 1)

(* The edits all aim at one order.                                         *)
AtFirst == [e \in Edit |-> c1]
AtChat  == [e \in Edit |-> c2]
Sequential == {<<e1, e2>>}
ConfirmThenCancel == e1 :> "confirmed" @@ e2 :> "cancelled"
AllCancel == [e \in Edit |-> "cancelled"]

(* Customers with a key each and the same cart.                            *)
OwnKey    == [c \in Checkout |-> c]
EqualCart == [c \in Checkout |-> Units12(1, 1)]
ScarceStock == Units12(2, 1)
=============================================================================
