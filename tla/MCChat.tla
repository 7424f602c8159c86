------------------------------- MODULE MCChat -------------------------------
(***************************************************************************)
(* A catalogue of one gas and one water, two addresses that are served and *)
(* messages a customer writes, each with the cues of a real text.          *)
(***************************************************************************)
EXTENDS Chat

CONSTANTS one, two      \* workers

MCCatalogue == [petrolimex |-> "gas12", lavie |-> "water19"]
MCName      == {"petrolimex", "lavie", "gas", "water"}
MCCategory  == {"gas", "water"}
MCPlace     == [home |-> "served", office |-> "served"]
MCInStore   == [gas12 |-> 2, water19 |-> 1]
MCAccounts  == {None, [NoSlots EXCEPT !.name = "Binh", !.phone = "0907"]}

Item(p, q)  == [p |-> p, q |-> q]
Sure(c)     == [category |-> c, sure |-> TRUE]
Chats       == {Sure("place_order"), [category |-> "general", sure |-> FALSE]}

(* A message that says nothing the service looks for.                      *)
Text == [cues |-> {}, items |-> <<>>, said |-> <<>>, names |-> {}, match |-> None,
         name |-> None, words |-> None, phone |-> None, address |-> None,
         notes |-> None, pay |-> None, intents |-> {Sure("place_order")}]

(* "1 petrolimex"                                                          *)
Gas1 == [Text EXCEPT !.cues = {"brand", "order"}, !.items = <<Item("petrolimex", 1)>>,
                     !.said = <<Item("petrolimex", 1)>>, !.names = {"petrolimex"},
                     !.match = "petrolimex", !.words = "Petrolimex"]
(* "1 petrolimex va 1 lavie"                                               *)
Both == [Text EXCEPT !.cues = {"add", "brand", "order"},
                     !.items = <<Item("petrolimex", 1), Item("lavie", 1)>>,
                     !.said = <<Item("petrolimex", 1), Item("lavie", 1)>>,
                     !.names = {"petrolimex", "lavie"}, !.match = "petrolimex"]
(* "them 1 lavie"                                                          *)
AddWater == [Text EXCEPT !.cues = {"add"}, !.items = <<Item("lavie", 1)>>,
                         !.said = <<Item("lavie", 1)>>, !.names = {"lavie"},
                         !.match = "lavie", !.words = "Them Lavie"]
(* "1 lavie"                                                               *)
Water1 == [AddWater EXCEPT !.cues = {"order"}, !.words = "Lavie"]
(* "doi sang lavie"; the quantity is left to the model                     *)
ToWater == [AddWater EXCEPT !.cues = {"replace", "order"}, !.items = <<>>,
                            !.said = <<Item("lavie", None)>>, !.words = "Doi Sang Lavie"]
(* "bo lavie"                                                              *)
NoWater == [ToWater EXCEPT !.cues = {"remove"}, !.words = "Bo Lavie"]
(* "gas", "12kg", "petrolimex"                                             *)
AnyGas  == [Text EXCEPT !.items = <<Item("gas", None)>>, !.words = "Gas"]
Size12  == [Text EXCEPT !.cues = {"size"}, !.names = {"petrolimex"}, !.match = "petrolimex",
                        !.words = "Kg"]
Brand   == [Text EXCEPT !.cues = {"brand", "order"}, !.names = {"petrolimex"},
                        !.said = <<Item("petrolimex", None)>>,
                        !.match = "petrolimex", !.words = "Petrolimex"]
(* "2 binh"                                                                *)
TwoOfIt == [Text EXCEPT !.cues = {"order"}, !.items = <<Item(None, 2)>>,
                        !.said = <<Item(None, 2)>>, !.words = "Binh"]
(* "giao 7-8h", morning or evening                                         *)
Window  == [Text EXCEPT !.cues = {"window", "deliver"}, !.notes = "7-8h"]
(* "12 duong Le Loi, khu pho 3, phuong Hiep Binh; ten An; 0901...;        *)
(* tien mat" and another address                                           *)
Details == [Text EXCEPT !.name = "An", !.words = "An", !.phone = "0901", !.address = "home",
                        !.pay = "cod"]
Office  == [Text EXCEPT !.address = "office"]
AllOfIt == [Gas1 EXCEPT !.items = <<>>, !.name = "An", !.words = "An", !.phone = "0901",
                        !.address = "home", !.pay = "cod"]
Elsewhere == [AllOfIt EXCEPT !.address = "office"]
(* "ok", "xac nhan", "xac nhan, them 1 lavie"                              *)
Okay    == [Text EXCEPT !.cues = {"affirm"}]
Confirm == [Okay EXCEPT !.words = "Xac Nhan"]
OkayAnd == [AddWater EXCEPT !.cues = {"affirm", "add"}, !.words = None]
(* "1 lavie, ..." with all details; "ok" with another address              *)
AllWater   == [Details EXCEPT !.cues = {"order"}, !.said = <<Item("lavie", 1)>>,
                              !.names = {"lavie"}, !.match = "lavie"]
OkayOffice == [Okay EXCEPT !.address = "office"]
(* "khong", "huy don", "ck", "goi lai cho toi"                             *)
Decline == [Text EXCEPT !.cues = {"negate"}, !.words = "Khong"]
Cancel  == [Text EXCEPT !.cues = {"remove", "cancel"}, !.words = "Huy Don"]
Bank    == [Text EXCEPT !.pay = "bank"]
CallMe  == [Text EXCEPT !.cues = {"callback"}, !.intents = {Sure("general")}]
(* "gap nhan vien", "shop o dau", "gia bao nhieu"                          *)
Human   == [Text EXCEPT !.cues = {"human"}, !.intents = Chats]
Where   == [Text EXCEPT !.intents = {Sure("general"), [category |-> "general", sure |-> FALSE]}]
Leak    == [Text EXCEPT !.intents = {Sure("safety")}]
(* "doi sang chuyen khoan"                                                 *)
ToBank  == [Text EXCEPT !.cues = {"change", "replace", "remove"}, !.pay = "bank"]

Talk(a, b) == [w \in Worker |-> IF w = one THEN a ELSE b]
MCScript == {
    Talk(<<AllOfIt, Confirm>>, <<Okay>>),
    Talk(<<AllWater, Okay>>, <<OkayOffice>>),
    Talk(<<Gas1, AddWater, Details, Okay>>, <<>>),
    Talk(<<Both, Cancel, AllOfIt, Okay>>, <<>>),
    Talk(<<AllOfIt, Okay, Elsewhere, Okay>>, <<>>),
    Talk(<<AllOfIt, Okay, Water1, Okay>>, <<>>),
    Talk(<<Gas1, Window, Details>>, <<>>),
    Talk(<<AnyGas, Size12, Brand, Details>>, <<>>),
    Talk(<<AllOfIt, Water1, AddWater, Okay>>, <<>>),
    Talk(<<Both, ToWater, Decline, NoWater>>, <<>>),
    Talk(<<Human, Gas1>>, <<Leak>>),
    Talk(<<AllOfIt, Okay, ToBank>>, <<>>),
    Talk(<<AllOfIt, OkayAnd, Okay>>, <<>>),
    Talk(<<Water1, TwoOfIt, Details>>, <<>>),
    Talk(<<Where, CallMe>>, <<Bank>>)}

MCMessage == UNION {UNION {{script[w][i] : i \in DOMAIN script[w]} : w \in Worker} :
                      script \in MCScript}

(* A customer who writes everything at once and confirms.                  *)
MCShort == {Talk(<<AllOfIt, Confirm>>, <<>>)}
=============================================================================
