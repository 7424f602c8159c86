------------------------------ MODULE ChatCart ------------------------------
(***************************************************************************)
(* What a message of a customer says, and what it does to the cart of a    *)
(* chat order.  The text itself is left out: a message is a record of the  *)
(* cues the service finds in it (one text may carry several, a             *)
(* confirmation that also adds something for one) and of the products,     *)
(* quantities and contact details it names.                                *)
(***************************************************************************)
EXTENDS Integers, Sequences, SequencesExt

CONSTANTS
    Name,       \* what products are called in a message
    Catalogue,  \* the product a name stands for; other names match nothing
    Category,   \* names that only say what kind of product is wanted
    GoodPhone,  \* numbers that are phone numbers of the country
    Place,      \* what is known of an address: its ward, its quarter
    Payment,    \* the payment methods the shop takes
    None        \* nothing said

(* A name that only says the kind, or no name, stands for no product       *)
(* (GENERIC_PRODUCT_MATCH_TOKENS).                                         *)
ASSUME NamesAssumption ==
    "gas" \in Category /\ DOMAIN Catalogue \cap (Category \cup {None}) = {}

-----------------------------------------------------------------------------
(* The cues, as predicates of a message.                                   *)
Affirms(m)       == "affirm" \in m.cues
Negates(m)       == "negate" \in m.cues
Keeps(m)         == "keep" \in m.cues
Adds(m)          == "add" \in m.cues
CancelsAdd(m)    == "canceladd" \in m.cues
Replaces(m)      == "replace" \in m.cues
Removes(m)       == "remove" \in m.cues
CancelsOrder(m)  == "cancel" \in m.cues
NamesBrand(m)    == "brand" \in m.cues
NamesSize(m)     == "size" \in m.cues
VagueWindow(m)   == "window" \in m.cues
AsksForHuman(m)  == "human" \in m.cues
AsksChange(m)    == "change" \in m.cues
AsksAbout(m)     == "question" \in m.cues
Orders(m)        == "order" \in m.cues

(* A callback or a time of delivery to be noted for the staff; a time that *)
(* comes with an order belongs to the order.                               *)
FollowUp(m, category) ==
    \/ m.cues \cap {"decline", "callback"} # {}
    \/ "deliver" \in m.cues /\ category # "place_order"

Mentioned(m, name) == name \in m.names

(* What the rules themselves read in a message.  With a payment method     *)
(* known, up to three words that are not on a short list are a name.       *)
NameIn(m, pay) ==
    IF m.name # None THEN m.name
    ELSE IF pay # None THEN m.words
    ELSE None

-----------------------------------------------------------------------------
(* Slots of an order: its items and who it is for.                         *)
Line == [p : Name \cup {None}, q : Nat \cup {None}]

Or(a, b) == IF a = None THEN b ELSE a

NoSlots == [items |-> <<>>, name |-> None, phone |-> None, address |-> None,
            notes |-> None, pay |-> None]

Match(name)      == IF name \in DOMAIN Catalogue THEN Catalogue[name] ELSE None
IsBare(item)     == item.p \in Category
Incomplete(item) == item.p \in {None, "gas"}

(* Where the cart holds the product of an item, or 0.                      *)
IndexOf(items, item) ==
    SelectInSeq(items, LAMBDA other : Match(item.p) # None /\ Match(other.p) = Match(item.p))

FirstItem(items, Test(_)) ==
    LET i == SelectInSeq(items, Test) IN IF i = 0 THEN None ELSE items[i]

(* The new item gives a quantity only where there was none.                *)
MergeCandidate(items, item) ==
    LET i == IndexOf(items, item) IN
      IF i = 0 THEN Append(items, item)
      ELSE [items EXCEPT ![i].q = Or(@, item.q)]

(* Slots merge field by field, the later one first; items merge by name.   *)
MergeNamed(items, item) ==
    LET i == SelectInSeq(items, LAMBDA other : item.p # None /\ other.p = item.p) IN
      IF i = 0 THEN Append(items, item)
      ELSE [items EXCEPT ![i].q = Or(item.q, @)]

MergeItems(current, incoming) ==
    IF current = <<>> THEN incoming ELSE FoldLeft(MergeNamed, current, incoming)

MergeSlots(current, incoming) ==
    [f \in DOMAIN current |-> IF f = "items" THEN MergeItems(current.items, incoming.items)
                              ELSE Or(incoming[f], current[f])]

WithItems(slots, items) == [slots EXCEPT !.items = items]

(* Mutant of AppendItems: what was added takes the place of the cart.      *)
OnlyAdded(slots, items) == WithItems(slots, FoldLeft(MergeCandidate, <<>>, items))

AppendItems(slots, items) == WithItems(slots, FoldLeft(MergeCandidate, slots.items, items))

(* The product of the item, or else the first one, gives way.              *)
ReplaceFirst(slots, item) ==
    IF slots.items = <<>> THEN WithItems(slots, <<item>>)
    ELSE LET i == IndexOf(slots.items, item)
             at == IF i = 0 THEN 1 ELSE i
             old == slots.items[at] IN
           WithItems(slots, [slots.items EXCEPT
               ![at] = [p |-> Or(item.p, old.p), q |-> Or(item.q, old.q)]])

MergeExisting(slots, item) ==
    LET i == IndexOf(slots.items, item) IN
      WithItems(slots,
          IF i = 0 THEN Append(slots.items, item)
          ELSE [slots.items EXCEPT ![i] = [p |-> Or(item.p, @.p), q |-> Or(item.q, @.q)]])

RemoveItem(slots, item) ==
    LET i == IndexOf(slots.items, item) IN
      IF i = 0 THEN slots ELSE WithItems(slots, RemoveAt(slots.items, i))

DropIncomplete(slots) ==
    LET Keep(items, item) == IF Incomplete(item) THEN items ELSE Append(items, item)
    IN WithItems(slots, FoldLeft(Keep, <<>>, slots.items))

(* What a message with these items does to a cart: without a product name  *)
(* they become the cart.                                                   *)
Operation(m, cart, items) ==
    LET named == {i \in DOMAIN items : items[i].p # None} IN
      IF items = <<>> THEN "none"
      ELSE IF named = {} THEN "set"
      ELSE IF Removes(m) THEN "remove"
      ELSE IF Adds(m) THEN "add"
      ELSE IF Replaces(m) THEN "replace"
      ELSE IF cart = <<>> THEN "set"
      ELSE IF \A i \in named : IndexOf(cart, items[i]) # 0 THEN "merge"
      ELSE "ambiguous"

(* The item a pending change was about.                                    *)
ChangedItem(before, after) ==
    LET added == FirstItem(after, LAMBDA item : IndexOf(before, item) = 0) IN
      IF added # None THEN added ELSE FirstItem(after, LAMBDA item : TRUE)

-----------------------------------------------------------------------------
(* Of two addresses one in a known ward wins, otherwise the model's.       *)
Address(extracted, inferred) ==
    IF inferred = None THEN extracted
    ELSE IF extracted = None \/ (Place[inferred] # "elsewhere" /\ Place[extracted] = "elsewhere")
         THEN inferred
    ELSE extracted

(* Mutant of Spoken: the model's items are not compared with the message.  *)
AllExtracted(m, extracted) ==
    [extracted EXCEPT !.items = FoldLeft(MergeCandidate, m.items, extracted.items)]

(* The items and contact details of a message: what the rules infer, with  *)
(* what the model extracts.  A product the message does not mention is     *)
(* dropped; a bare category gives way to a product of the model.           *)
Spoken(m, extracted) ==
    LET Specific(item) == Match(item.p) # None /\ Mentioned(m, item.p)
        Merge(items, item) ==
            IF item.p # None /\ ~Mentioned(m, item.p) THEN items
            ELSE IF Len(items) = 1 /\ IsBare(items[1]) /\ Specific(item) THEN <<item>>
            ELSE MergeCandidate(items, item)
    IN [extracted EXCEPT !.items = FoldLeft(Merge, m.items, @),
                         !.address = Address(@, m.address)]

(* The rules fill what is still open: a valid phone, a payment method and  *)
(* a time stay, a name does not.                                           *)
WithCues(slots, m) ==
    LET pay == Or(slots.pay, m.pay) IN
      [slots EXCEPT
          !.phone = IF m.phone # None /\ slots.phone \notin GoodPhone THEN m.phone ELSE @,
          !.pay   = pay,
          !.name  = Or(NameIn(m, pay), @),
          !.notes = Or(@, m.notes)]

HasContact(slots) == slots.name # None \/ slots.phone # None \/ slots.address # None

(* What is still missing before an order can be taken.                     *)
MissingSlots(slots) ==
    {f \in {"name", "phone", "address", "pay"} : slots[f] = None}
      \cup {f \in {"product"} : \/ slots.items = <<>>
                                \/ \E i \in DOMAIN slots.items : Match(slots.items[i].p) = None}
      \cup {f \in {"quantity"} : \E i \in DOMAIN slots.items : slots.items[i].q = None}

(* The ward is served and has a quarter of that number.                    *)
Deliverable(address) == Place[address] = "served"

(* Mutant of OrderKey: the address is left out of the key.                 *)
KeyWithoutAddress(slots) ==
    [items |-> ToBag(slots.items), phone |-> slots.phone, address |-> None]

(* What identifies an order of the conversation: items in any order, the   *)
(* phone and the address, but neither name, time nor payment method.       *)
OrderKey(slots) ==
    [items |-> ToBag(slots.items), phone |-> slots.phone, address |-> slots.address]
=============================================================================
