----------------------------- MODULE ChatOrder ------------------------------
(***************************************************************************)
(* What the chat answers to a message about an order: a question that      *)
(* keeps the cart in its metadata, or the order itself.  The state of an   *)
(* order is nowhere but in those answers, so a turn starts from the last   *)
(* of them it can still use.                                               *)
(***************************************************************************)
EXTENDS ChatCart, FiniteSetsExt

-----------------------------------------------------------------------------
(* The metadata of an answer: a state of the order or the order.           *)
Ask(status, slots) ==
    [type |-> "state", status |-> status, slots |-> slots, pending |-> None, previous |-> <<>>]
AskAbout(status, slots, item) == [Ask(status, slots) EXCEPT !.pending = item]
AskChange(slots, item, before) ==
    [AskAbout("awaiting_product_change_confirmation", slots, item) EXCEPT !.previous = before]
Ordered(slots, number) == [type |-> "order", slots |-> slots, number |-> number]

(* No state has no status.                                                 *)
ASSUME NoneIsNoStatus ==
    None \notin {"awaiting_product_choice", "awaiting_product_change_confirmation",
                 "awaiting_add_or_replace"}

Status(state) == IF state = None THEN None ELSE state.status
Slots(state)  == IF state = None THEN NoSlots ELSE state.slots

(* The answers of the assistant in a part of the conversation.             *)
Answers(history) == {i \in DOMAIN history : history[i].role = "assistant"}
IsState(entry) == entry.doc # None /\ entry.doc.type = "state"
IsOrder(entry) == entry.doc # None /\ entry.doc.type = "order"

(* The last answer asked something about an order, not long ago.           *)
InProgress(history) ==
    /\ Answers(history) # {}
    /\ LET last == history[Max(Answers(history))] IN IsState(last) /\ last.fresh

(* Mutant of StateAt: a cancelled order does not end the search.           *)
StateBeforeCancel(m, history) ==
    LET found == {i \in Answers(history) :
                    \/ IsState(history[i]) /\ history[i].doc.status # "order_cancelled"
                    \/ IsOrder(history[i]) /\ ~Affirms(m)}
    IN IF found = {} THEN 0
       ELSE LET i == Max(found) IN IF IsState(history[i]) /\ history[i].fresh THEN i ELSE 0

(* Where the state of the order is that a message continues, or 0: an      *)
(* order that was placed is only looked past by a repeated confirmation.   *)
StateAt(m, history) ==
    LET found == {i \in Answers(history) :
                    IsState(history[i]) \/ (IsOrder(history[i]) /\ ~Affirms(m))}
    IN IF found = {} THEN 0
       ELSE LET i == Max(found) IN
              IF /\ IsState(history[i]) /\ history[i].fresh
                 /\ history[i].doc.status # "order_cancelled"
              THEN i ELSE 0

(* The order the conversation has, if its recent part still shows it.      *)
OrderAt(history) ==
    LET found == {i \in Answers(history) : IsOrder(history[i])}
    IN IF found = {} THEN 0 ELSE Max(found)

(* Contact details of an earlier cart or order of the conversation.        *)
ReusableContact(history) ==
    LET found == {i \in Answers(history) :
                    (IsState(history[i]) \/ IsOrder(history[i])) /\ HasContact(history[i].doc.slots)}
    IN IF found = {} THEN None
       ELSE LET slots == history[Max(found)].doc.slots IN
              [NoSlots EXCEPT !.name = slots.name, !.phone = slots.phone, !.address = slots.address]

-----------------------------------------------------------------------------
(* The cart after the message, or a question it raises.  A turn is its     *)
(* message m, what was read in it, and the state it continues.             *)
Contact(t) == WithItems(t.spoken, <<>>)
Cart(t, slots, resolved) ==
    [type |-> "cart", slots |-> MergeSlots(slots, Contact(t)), resolved |-> resolved]

Candidate(t) == FirstItem(t.spoken.items, LAMBDA item : TRUE)
NamesProduct(t) == Candidate(t) # None /\ Candidate(t).p # None

Changed(t) ==
    LET m == t.msg
        base == MergeSlots(Slots(t.state), Contact(t))
        items == t.spoken.items
        operation == Operation(m, base.items, items)
    IN CASE operation = "none" -> Cart(t, base, FALSE)
         [] operation = "set" -> Cart(t, WithItems(base, items), FALSE)
         [] operation = "add" -> Cart(t, AppendItems(base, items), FALSE)
         [] operation = "remove" -> Cart(t, RemoveItem(base, items[1]), FALSE)
         [] operation = "merge" -> Cart(t, FoldLeft(MergeExisting, base, items), FALSE)
         [] operation = "replace" /\ base.items = <<>> -> Cart(t, WithItems(base, items), FALSE)
         [] operation = "replace" /\ base.items # <<>> ->
              AskChange(ReplaceFirst(base, items[1]), items[1], base.items)
         [] operation = "ambiguous" -> AskAbout("awaiting_add_or_replace", base, items[1])

(* A gas was asked for and the size or brand is open.                      *)
OpenItem(state) ==
    IF state.pending # None THEN state.pending
    ELSE FirstItem(state.slots.items, Incomplete)

ChosenProduct(t) ==
    LET m == t.msg
        base == t.state.slots
        open == OpenItem(t.state)
    IN IF CancelsAdd(m) THEN Cart(t, DropIncomplete(base), FALSE)
       ELSE IF Affirms(m) THEN Cart(t, DropIncomplete(base), TRUE)
       ELSE IF NamesBrand(m) /\ m.match # None
       THEN Cart(t, AppendItems(DropIncomplete(base), <<[p |-> m.match, q |-> open.q]>>), FALSE)
       ELSE IF NamesSize(m) THEN AskAbout("awaiting_product_choice", base, open)
       ELSE Changed(t)

(* Another product was to take the place of one in the cart.               *)
ConfirmedChange(t) ==
    LET m == t.msg
        base == t.state.slots
        before == IF t.state.previous # <<>> THEN t.state.previous ELSE base.items
        original == WithItems(base, before)
        item == IF t.state.pending # None THEN t.state.pending
                ELSE ChangedItem(before, base.items)
    IN IF m.pay # None THEN Cart(t, [original EXCEPT !.pay = m.pay], FALSE)
       ELSE IF Negates(m) /\ Adds(m) /\ item # None
       THEN Cart(t, WithItems(original, Append(before, item)), FALSE)
       ELSE IF Affirms(m) THEN Cart(t, base, FALSE)
       ELSE IF Negates(m) \/ Keeps(m) THEN Cart(t, original, FALSE)
       ELSE IF Adds(m) /\ t.spoken.items # <<>>
       THEN Cart(t, AppendItems(original, t.spoken.items), FALSE)
       ELSE IF Adds(m) /\ item # None THEN Cart(t, AppendItems(original, <<item>>), FALSE)
       ELSE IF NamesProduct(t)
       THEN AskChange(ReplaceFirst(original, Candidate(t)), Candidate(t), before)
       ELSE AskChange(base, item, before)

(* A product was named that may be meant in addition or instead.           *)
AddedOrReplaced(t) ==
    LET m == t.msg
        base == t.state.slots
        item == IF t.state.pending # None THEN t.state.pending ELSE Candidate(t)
    IN IF m.pay # None THEN Cart(t, [base EXCEPT !.pay = m.pay], FALSE)
       ELSE IF item # None /\ Adds(m) THEN Cart(t, AppendItems(base, <<item>>), FALSE)
       ELSE IF item # None /\ (Replaces(m) \/ Affirms(m))
       THEN Cart(t, ReplaceFirst(base, item), FALSE)
       ELSE IF Negates(m) THEN Cart(t, base, FALSE)
       ELSE AskAbout("awaiting_add_or_replace", base,
                     IF NamesProduct(t) THEN Candidate(t) ELSE item)

Understood(t) ==
    LET status == Status(t.state) IN
      CASE /\ status = "awaiting_product_choice"
           /\ OpenItem(t.state) # None /\ Incomplete(OpenItem(t.state)) -> ChosenProduct(t)
        [] status = "awaiting_product_change_confirmation" -> ConfirmedChange(t)
        [] status = "awaiting_add_or_replace" -> AddedOrReplaced(t)
        [] OTHER -> Changed(t)

(* Only after the summary, or for the rest of a cart that was to grow, is  *)
(* an affirmation the confirmation of the order.                           *)
Confirmed(t, resolved) ==
    resolved \/ (Status(t.state) = "awaiting_confirmation" /\ Affirms(t.msg))

-----------------------------------------------------------------------------
(* What is checked before an order is offered for confirmation.            *)
Whole(items) ==
    items # <<>> /\ \A i \in DOMAIN items : Match(items[i].p) # None /\ items[i].q # None

(* A new order may reuse the details of an earlier one, if the customer    *)
(* gives none, or those of the account, if there is neither name nor phone.*)
OffersReuse(t, slots) ==
    /\ t.state = None
    /\ Whole(slots.items)
    /\ t.reusable # None
    /\ ~HasContact(slots)
OffersAccount(t, slots) ==
    /\ t.state = None
    /\ Whole(slots.items)
    /\ t.account # None
    /\ HasContact(t.account)
    /\ slots.name = None /\ slots.phone = None

Acceptable(t, slots) ==
    /\ slots.phone \in GoodPhone
    /\ MissingSlots(slots) = {}
    /\ Deliverable(slots.address)
    /\ \A i \in DOMAIN slots.items : t.stock[Match(slots.items[i].p)] >= slots.items[i].q
    /\ slots.pay \in Payment

(* Account details fill the gaps of what the customer gave.                *)
Offered(t, slots, confirmed) ==
    LET all == IF t.account = None THEN slots ELSE MergeSlots(t.account, slots) IN
      IF ~Acceptable(t, all) THEN Ask("awaiting_missing_slots", all)
      ELSE IF confirmed THEN Ordered(all, None)
      ELSE Ask("awaiting_confirmation", all)

Checked(t, slots, confirmed) ==
    LET bare == FirstItem(slots.items, IsBare)
        unknown == FirstItem(slots.items, LAMBDA item : item.p # None /\ Match(item.p) = None)
    IN IF bare # None THEN AskAbout("awaiting_product_choice", slots, bare)
       ELSE IF unknown # None THEN Ask("awaiting_product_choice", slots)
       ELSE IF OffersReuse(t, slots)
       THEN Ask("awaiting_reused_contact_confirmation", MergeSlots(slots, t.reusable))
       ELSE IF OffersAccount(t, slots)
       THEN Ask("awaiting_account_contact_confirmation", MergeSlots(t.account, slots))
       ELSE Offered(t, slots, confirmed)

(* The answer to a turn about an order.                                    *)
OrderReply(t) ==
    IF t.state # None /\ CancelsOrder(t.msg) THEN Ask("order_cancelled", NoSlots)
    ELSE IF t.state # None /\ VagueWindow(t.msg)
         THEN Ask("awaiting_missing_slots", t.state.slots)
    ELSE LET cart == Understood(t) IN
           IF cart.type # "cart" THEN cart
           ELSE Checked(t, WithCues(cart.slots, t.msg), Confirmed(t, cart.resolved))
=============================================================================
