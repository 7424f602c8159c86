-------------------------------- MODULE Chat --------------------------------
(***************************************************************************)
(* A conversation with the shop: the turns of the customer, answered by    *)
(* rules, by the retrieval pipeline or by an order, next to what the staff *)
(* and the sweep of idle conversations do to it.  A turn reads the         *)
(* conversation, waits for the classifier, plans its answer and, for an    *)
(* order, waits for the extraction of slots; its messages are committed    *)
(* together at the end, except that an order commits the message of the    *)
(* customer first.                                                         *)
(***************************************************************************)
EXTENDS ChatOrder

CONSTANTS
    Worker,     \* turns that may be handled at the same time
    Message,    \* what a customer may write
    Script,     \* the messages each worker may have to serve
    Accounts,   \* contact details of signed-in customers, and None
    InStore,    \* stock of each product
    OnDuty,     \* who _find_available_staff may return
    Staff,      \* who a conversation may be transferred to
    Recent,     \* messages a turn reads back
    MaxPauses,  \* bound: how often time passes
    MaxActs     \* bound: what the staff does

ASSUME ChatAssumption ==
    /\ Recent \in Nat \ {0}
    /\ MaxPauses \in Nat /\ MaxActs \in Nat
    /\ OnDuty # {} /\ OnDuty \subseteq Staff \cup {None}
    /\ InStore \in [DOMAIN InStore -> Nat]
    /\ Script \subseteq [Worker -> Seq(Message)]

(* What the rules and the model read in a message are lines; the rules     *)
(* read a product only where the text names it.                            *)
ASSUME MessageAssumption ==
    \A m \in Message :
      /\ m.items \in Seq(Line) /\ m.said \in Seq(Line) /\ m.match \in Name \cup {None}
      /\ \A i \in DOMAIN m.items :
           LET p == m.items[i].p IN Match(p) # None => Mentioned(m, p) \/ m.match = p

(* An account has contact details and no cart.                             *)
ASSUME ContactsAssumption ==
    \A a \in Accounts : a = None \/ (DOMAIN a = DOMAIN NoSlots /\ a.items = <<>>)

VARIABLES
    said,       \* committed messages, oldest first
    conv,       \* the conversation's row
    orders,     \* orders placed in the conversation
    stock,      \* products in store
    turn,       \* the turn each worker handles, or None
    todo,       \* messages each worker has still to serve
    pauses, acts

vars == <<said, conv, orders, stock, turn, todo, pauses, acts>>

-----------------------------------------------------------------------------
(* Messages, as they are stored.  History only: what the customer's turn   *)
(* had read, and of an answer the one whose state it continues and the     *)
(* message it answers.                                                     *)
FromUser(m, read) == [role |-> "user", msg |-> m, read |-> read]
Answer(doc, from, to) ==
    [role |-> "assistant", doc |-> doc, fresh |-> TRUE, from |-> from, to |-> to]

(* The greeting opens the conversation.                                    *)
Init ==
    /\ said = <<Answer(None, 0, 0)>>
    /\ conv = [status |-> "active", staff |-> None, idle |-> FALSE,
               ver |-> 0, waiting |-> FALSE, overlapped |-> FALSE]
    /\ orders = <<>>
    /\ stock = InStore
    /\ turn = [w \in Worker |-> None]
    /\ todo \in Script
    /\ pauses = 0 /\ acts = 0

(* A function with the same domain as the messages it shows.               *)
History(w) == [i \in Max({1, turn[w].read - Recent + 1})..turn[w].read |-> said[i]]

At(w, pc) == turn[w] # None /\ turn[w].pc = pc
End(w)    == turn' = [turn EXCEPT ![w] = None]
Outside   == <<todo, pauses, acts>>

Stored(entries) ==
    /\ said' = said \o entries
    /\ conv' = [conv EXCEPT !.idle = FALSE]

-----------------------------------------------------------------------------
(* A turn begins with the conversation and its recent messages.            *)
Receive(w) ==
    /\ turn[w] = None /\ todo[w] # <<>>
    /\ turn' = [turn EXCEPT ![w] =
           [pc |-> "classify", msg |-> Head(todo[w]), read |-> Len(said), seen |-> conv,
            cart |-> None, from |-> 0, to |-> 0]]
    /\ todo' = [todo EXCEPT ![w] = Tail(@)]
    /\ UNCHANGED <<said, conv, orders, stock, pauses, acts>>

(* A product of the catalogue in the message makes it a question or an     *)
(* order.                                                                  *)
CatalogIntent(m) ==
    IF m.match = None THEN None
    ELSE IF AsksAbout(m) THEN "product_inquiry"
    ELSE IF Orders(m) THEN "place_order"
    ELSE None

(* What the classifier says is overruled, but for an emergency.            *)
Intent(m, history, llm) ==
    IF llm.category = "safety" THEN llm
    ELSE LET rule ==
               IF CatalogIntent(m) # None THEN CatalogIntent(m)
               ELSE IF OrderAt(history) # 0 /\ AsksChange(m) THEN "place_order"
               ELSE IF AsksForHuman(m) THEN "complaint"
               ELSE IF InProgress(history) THEN "place_order"
               ELSE None
         IN IF rule = None THEN llm ELSE [category |-> rule, sure |-> TRUE]

RequiresHuman(intent) == intent.category \in {"safety", "complaint"}

(* A session writes what differs from the row it has loaded.               *)
Escalated(w, staff) ==
    [conv EXCEPT !.status = IF turn[w].seen.status # "escalated" THEN "escalated" ELSE @,
                 !.staff  = IF turn[w].seen.staff # staff THEN staff ELSE @,
                 !.idle = FALSE, !.waiting = TRUE,
                 !.overlapped = conv.ver # turn[w].seen.ver]

(* Answers without an order: a note for the staff, a hand-over, a          *)
(* clarification, the catalogue, or the retrieval pipeline.                *)
PlainDoc(w, intent) ==
    LET history == History(w) IN
      IF /\ intent.category # "safety"
         /\ ~InProgress(history) /\ OrderAt(history) = 0
         /\ FollowUp(turn[w].msg, intent.category)
      THEN [type |-> "note"] ELSE None

Question(w) == FromUser(turn[w].msg, turn[w].read)
Reply(w, doc) == <<Question(w), Answer(doc, 0, Len(said) + 1)>>

(* A turn that asks for a person, or is an emergency, is handed over.      *)
HandOver(w) ==
    /\ At(w, "classify")
    /\ \E llm \in turn[w].msg.intents, staff \in OnDuty :
         LET intent == Intent(turn[w].msg, History(w), llm) IN
           /\ RequiresHuman(intent)
           /\ conv' = Escalated(w, staff)
           /\ said' = said \o Reply(w, PlainDoc(w, intent))
    /\ End(w)
    /\ UNCHANGED <<orders, stock, Outside>>

(* An answer of the retrieval pipeline is streamed and stored at the end,  *)
(* what was sent of it if it is cut off; if nothing was, the question      *)
(* stands alone.                                                           *)
AnswerPlainly(w) ==
    /\ At(w, "classify")
    /\ \E llm \in turn[w].msg.intents :
         LET intent == Intent(turn[w].msg, History(w), llm) IN
           /\ ~RequiresHuman(intent)
           /\ intent.category # "place_order" \/ PlainDoc(w, intent) # None
           /\ \/ Stored(Reply(w, PlainDoc(w, intent)))
              \/ /\ PlainDoc(w, intent) = None /\ intent.sure
                 /\ Stored(<<Question(w)>>)
    /\ End(w)
    /\ UNCHANGED <<orders, stock, Outside>>

StartOrder(w) ==
    /\ At(w, "classify")
    /\ \E llm \in turn[w].msg.intents :
         LET intent == Intent(turn[w].msg, History(w), llm) IN
           intent.category = "place_order" /\ PlainDoc(w, intent) = None
    /\ turn' = [turn EXCEPT ![w].pc = "extract"]
    /\ UNCHANGED <<said, conv, orders, stock, Outside>>

-----------------------------------------------------------------------------
(* The order flow.                                                         *)

(* The model extracts nothing, what the message says, or what was said     *)
(* before as well: its prompt holds the recent messages.                   *)
Extracted(m) == [items |-> m.said, name |-> m.name, phone |-> m.phone,
                 address |-> m.address, notes |-> m.notes, pay |-> m.pay]
Extractions(w) ==
    LET m == turn[w].msg
        asked == {i \in DOMAIN History(w) : said[i].role = "user"}
    IN {NoSlots, Extracted(m)}
         \cup {MergeSlots(Extracted(said[i].msg), Extracted(m)) : i \in asked}

(* After an order a request to change it is only noted.                    *)
NoteChange(w) ==
    /\ At(w, "extract")
    /\ OrderAt(History(w)) # 0 /\ AsksChange(turn[w].msg)
    /\ Stored(Reply(w, said[OrderAt(History(w))].doc))
    /\ End(w)
    /\ UNCHANGED <<orders, stock, Outside>>

TurnRead(w, extracted, account) ==
    LET i == StateAt(turn[w].msg, History(w)) IN
      [msg |-> turn[w].msg,
       state |-> IF i = 0 THEN None ELSE said[i].doc,
       spoken |-> Spoken(turn[w].msg, extracted),
       reusable |-> ReusableContact(said),
       account |-> account,
       stock |-> stock]

(* The answer asks something, or the customer's message is committed and   *)
(* the order follows.                                                      *)
DecideOrder(w) ==
    /\ At(w, "extract")
    /\ ~(OrderAt(History(w)) # 0 /\ AsksChange(turn[w].msg))
    /\ \E extracted \in Extractions(w), account \in Accounts :
         LET reply == OrderReply(TurnRead(w, extracted, account))
             from == StateAt(turn[w].msg, History(w))
         IN \/ /\ reply.type = "state"
               /\ Stored(<<Question(w), Answer(reply, from, Len(said) + 1)>>)
               /\ End(w)
            \/ /\ reply.type = "order"
               /\ Stored(<<Question(w)>>)
               /\ turn' = [turn EXCEPT ![w].pc = "order", ![w].cart = reply.slots,
                                       ![w].from = from, ![w].to = Len(said) + 1]
    /\ UNCHANGED <<orders, stock, Outside>>

Placed(key) == {i \in DOMAIN orders : orders[i].key = key}

(* The order of the key is there already and announced once more.          *)
RepeatOrder(w) ==
    /\ At(w, "order")
    /\ \E i \in Placed(OrderKey(turn[w].cart)) :
         Stored(<<Answer(Ordered(turn[w].cart, i), turn[w].from, turn[w].to)>>)
    /\ End(w)
    /\ UNCHANGED <<orders, stock, Outside>>

Wanted(slots, p) ==
    FoldLeft(LAMBDA n, item : IF Match(item.p) = p THEN n + item.q ELSE n, 0, slots.items)

(* Mutant of Suffices: the chat has compared the stock already.            *)
CheckedAlready(slots) == slots # None

(* The order service compares the sum of the lines under its row locks.    *)
Suffices(slots) == \A p \in DOMAIN stock : stock[p] >= Wanted(slots, p)

PlaceOrder(w) ==
    LET slots == turn[w].cart IN
    /\ At(w, "order")
    /\ Placed(OrderKey(slots)) = {}
    /\ Suffices(slots)
    /\ orders' = Append(orders, [key |-> OrderKey(slots), slots |-> slots, read |-> turn[w].read,
                                 from |-> turn[w].from, to |-> turn[w].to])
    /\ stock' = [p \in DOMAIN stock |-> stock[p] - Wanted(slots, p)]
    /\ Stored(<<Answer(Ordered(slots, Len(orders) + 1), turn[w].from, turn[w].to)>>)
    /\ End(w)
    /\ UNCHANGED Outside

(* Sold out meanwhile, a refusal of the order service, a failed model call *)
(* or the process itself: what was not committed is gone.                  *)
Fail(w) ==
    /\ turn[w] # None
    /\ End(w)
    /\ UNCHANGED <<said, conv, orders, stock, Outside>>

Turn(w) ==
    \/ Receive(w) \/ HandOver(w) \/ AnswerPlainly(w) \/ StartOrder(w)
    \/ NoteChange(w) \/ DecideOrder(w) \/ RepeatOrder(w) \/ PlaceOrder(w) \/ Fail(w)

-----------------------------------------------------------------------------
(* Staff and time.                                                         *)
Settable == {"active", "escalated", "resolved", "closed", "flagged"}
Handled(status) ==
    conv' = [conv EXCEPT !.status = status, !.waiting = FALSE, !.ver = @ + 1]

(* The conversation is set to a status, transferred, answered by a person. *)
Act ==
    /\ acts < MaxActs
    /\ acts' = acts + 1
    /\ \/ \E status \in Settable :
            Handled(status) /\ UNCHANGED said
       \/ \E s \in Staff : conv' = [conv EXCEPT !.staff = s] /\ UNCHANGED said
       \/ Stored(<<[role |-> "staff"]>>)
    /\ UNCHANGED <<orders, stock, turn, todo, pauses>>

(* Mutant of Sweep: every idle conversation is closed.                     *)
SweepAll ==
    /\ conv.idle
    /\ conv' = [conv EXCEPT !.status = "closed"]
    /\ UNCHANGED <<said, orders, stock, turn, todo, pauses, acts>>

(* A staff member who lists conversations closes the idle ones.            *)
Sweep ==
    /\ conv.idle /\ conv.status = "active"
    /\ conv' = [conv EXCEPT !.status = "closed"]
    /\ UNCHANGED <<said, orders, stock, turn, todo, pauses, acts>>

(* Half an hour passes, or days.                                           *)
Pause ==
    /\ pauses < MaxPauses
    /\ pauses' = pauses + 1
    /\ said' = [i \in DOMAIN said |-> IF said[i].role = "assistant"
                                      THEN [said[i] EXCEPT !.fresh = FALSE] ELSE said[i]]
    /\ conv' \in {conv, [conv EXCEPT !.idle = TRUE]}
    /\ UNCHANGED <<orders, stock, turn, todo, acts>>

Next == Act \/ Sweep \/ Pause \/ \E w \in Worker : Turn(w)

Spec == Init /\ [][Next]_vars

-----------------------------------------------------------------------------
(* Properties.                                                             *)

Asked == {k \in DOMAIN said : said[k].role = "user"}
Docs  == {j \in Answers(said) : IsState(said[j]) \/ IsOrder(said[j])}

(* What an answer or an order refers to exists, and the stock stays within *)
(* its bounds even where two turns checked it before either ordered        *)
(* (_handle_chat_order reads it, commits, and only then checks out).       *)
TypeOK ==
    /\ \A p \in DOMAIN stock : stock[p] \in 0..InStore[p]
    /\ \A j \in Docs : /\ said[j].from \in 0..(j - 1) /\ said[j].to \in 0..(j - 1)
                       /\ IsOrder(said[j]) => said[j].doc.number \in DOMAIN orders
    /\ \A o \in DOMAIN orders : orders[o].from < orders[o].to
    /\ conv.status \in Settable
    /\ \A w \in Worker : turn[w] = None \/ turn[w].pc \in {"classify", "extract", "order"}

(* A cancelled cart is gone (_find_order_state stops at "order_cancelled", *)
(* _combine_current_message_slots drops what the message does not mention):*)
(* each line of an order was named by the customer after the cancellation, *)
(* whatever the model repeats of earlier messages.  Turns that overlap may *)
(* still answer from the cart as they read it.                             *)
Names(m, p) == Mentioned(m, p) \/ m.match = p
CancelledBefore(k) ==
    Max({0} \cup {j \in Answers(said) : /\ j < k /\ IsState(said[j])
                                       /\ said[j].doc.status = "order_cancelled"})
InTurn(k) == said[k].read = k - 1
NothingFromCancelled ==
    \A o \in DOMAIN orders :
      LET since == CancelledBefore(orders[o].to)
          later == {k \in Asked : since < k /\ k <= orders[o].to}
      IN (\A k \in later : InTurn(k)) =>
           \A i \in DOMAIN orders[o].slots.items :
             \E k \in later : Names(said[k].msg, orders[o].slots.items[i].p)

(* An order that is announced, once more or for the first time, is the     *)
(* order that was stored: same lines, phone and address                    *)
(* (_chat_order_idempotency_key).  Name, time and payment may differ.      *)
AnnouncedAsPlaced ==
    \A j \in Docs : IsOrder(said[j]) =>
      LET told == said[j].doc.slots
          kept == orders[said[j].doc.number].slots
      IN /\ ToBag(told.items) = ToBag(kept.items)
         /\ told.phone = kept.phone /\ told.address = kept.address

(* A customer who was handed over stays with the staff until they say      *)
(* otherwise: neither a later turn nor the sweep of idle conversations     *)
(* takes the conversation away (assign_to_staff, close_stale).  A turn     *)
(* that staff overtook may write nothing, its session had loaded the row   *)
(* as escalated already.                                                   *)
ComplaintsReachStaff ==
    conv.waiting => conv.status = "escalated" \/ conv.overlapped

(* A cart loses nothing on its way through questions and corrections       *)
(* unless the customer takes it away: by a word of removal or exchange, by *)
(* saying yes to an exchange, or by a quantity without a product, which    *)
(* stands for the whole cart (_detect_order_items_operation).              *)
Products(items) == {Match(items[i].p) : i \in DOMAIN items} \ {None}
CartOf(doc) ==
    IF doc.type = "state" /\ doc.previous # <<>>
    THEN Products(doc.slots.items) \cap Products(doc.previous)
    ELSE Products(doc.slots.items)
StillThere(doc) ==
    Products(doc.slots.items) \cup (IF doc.type = "state" THEN Products(doc.previous) ELSE {})
TakesAway(m, state) ==
    \/ Removes(m) \/ Replaces(m) \/ CancelsOrder(m)
    \/ state.status = "awaiting_add_or_replace" /\ Affirms(m)
OnlyQuantity(m) ==
    \/ \E i \in DOMAIN m.items : m.items[i].p = None
    \/ \E i \in DOMAIN m.said : m.said[i].p = None
CartKept ==
    \A j \in {d \in Docs : said[d].from # 0} :
      LET before == said[said[j].from].doc IN
        \/ TakesAway(said[said[j].to].msg, before)
        \/ \E k \in Asked : k <= said[j].to /\ OnlyQuantity(said[k].msg)
        \/ CartOf(before) \subseteq StillThere(said[j].doc)

(* What the customer only confirms is placed as it was summarised, for     *)
(* "Ban xac nhan dat don nay khong?" asks about this order.                *)
OnlyAffirms(m) == m.cues = {"affirm"} /\ m.items = <<>> /\ m.phone = None /\ m.pay = None
PlacedAsSummarised ==
    \A o \in DOMAIN orders :
      LET asked == said[orders[o].from].doc IN
        (/\ orders[o].from # 0 /\ asked.status = "awaiting_confirmation"
         /\ OnlyAffirms(said[orders[o].to].msg))
        => orders[o].slots = asked.slots
=============================================================================
