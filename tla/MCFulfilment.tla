---------------------------- MODULE MCFulfilment ----------------------------
(***************************************************************************)
(* Instances of Fulfilment for TLC.                                        *)
(***************************************************************************)
EXTENDS Fulfilment, TLC

CONSTANTS d1, d2, d3, u1, u2, u3, m1, i1, i2, v1

(* d1 and d2 fill the order, d3 competes with d2 for the rest of i1.       *)
MCOrdered == i1 :> 2 @@ i2 :> 1
MCLoad    == [d \in Create |-> IF d = d1 THEN i1 :> 1 @@ i2 :> 1 ELSE i1 :> 1 @@ i2 :> 0]

(* Staff and the driver both work on d1, staff alone on d2.                *)
MCOf    == [u \in Update |-> IF u = u3 THEN d2 ELSE d1]
MCActor == [u \in Update |-> IF u = u2 THEN v1 ELSE Office]

(* Status changes never overlap; creations overlap with everything.        *)
OneByOne == {p \in (Update \cup Move) \X (Update \cup Move) : p[1] # p[2]}

(* Two status changes of different deliveries overlap.                     *)
Overlapping == {}
=============================================================================
