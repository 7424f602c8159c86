---------------------------- MODULE PriceAlerts -----------------------------
(***************************************************************************)
(* Subscriptions to price mails, with a double opt-in: subscribe, confirm  *)
(* and unsubscribe through mailed links, and the administrator's run that  *)
(* mails the prices of the catalogue to everybody who confirmed.           *)
(***************************************************************************)
EXTENDS CatalogAdmin

CONSTANT ConfirmTtl     \* CONFIRM_TOKEN_TTL, in ticks

VARIABLES
    subs,       \* committed rows: the number of their link -> subscription
    links,      \* confirmation mails: the link and the life it had when sent
    opened,     \* history: links that were opened while they were valid
    notices     \* history: price mails and what they said

alertVars == <<subs, links, opened, notices>>

AlertInit ==
    /\ subs = [i \in {} |-> None]
    /\ links = <<>>
    /\ opened = {}
    /\ notices = <<>>

Mailed == {links[m].link : m \in DOMAIN links}
Elsewhere == <<db, redis, issued, history, catalogVars>>

ActiveByEmail(e) == {i \in DOMAIN subs : subs[i].email = e /\ ~subs[i].gone}

(* A new row holds the unique index entry of its address from the flush to *)
(* the commit, which comes after the mail.                                 *)
Inserting(e) == \E w \in Worker : job[w] # None /\ Op(w) = "subscribe"
                    /\ Req(w).email = e /\ job[w].pc \in {"mail link", "commit subscription"}

(* An address that is confirmed is left alone; one that is pending is      *)
(* mailed its link again.                                                  *)
LookUpSubscription(w) ==
    /\ At(w, "subscribe")
    /\ LET rows == ActiveByEmail(Req(w).email) IN
         \/ rows = {} /\ Goto(w, "insert") /\ UNCHANGED links
         \/ \E i \in rows :
              /\ End(w)
              /\ links' = IF subs[i].confirmed THEN links
                          ELSE Append(links, [link |-> i, left |-> subs[i].left])
    /\ UNCHANGED <<subs, opened, notices, todo, Elsewhere>>

InsertSubscription(w) ==
    /\ At(w, "insert") /\ ~Inserting(Req(w).email)
    /\ IF ActiveByEmail(Req(w).email) = {} THEN Goto(w, "mail link") ELSE End(w)
    /\ UNCHANGED <<alertVars, todo, Elsewhere>>

MailConfirmation(w) ==
    /\ At(w, "mail link")
    /\ LET i == Cardinality(Mailed) + 1 IN
         /\ links' = Append(links, [link |-> i, left |-> ConfirmTtl])
         /\ job' = [job EXCEPT ![w].pc = "commit subscription", ![w].n = i]
    /\ UNCHANGED <<subs, opened, notices, todo, Elsewhere>>

CommitSubscription(w) ==
    /\ At(w, "commit subscription")
    /\ subs' = Put(subs, job[w].n, [email |-> Req(w).email, confirmed |-> FALSE,
                                    gone |-> FALSE, left |-> ConfirmTtl])
    /\ End(w)
    /\ UNCHANGED <<links, opened, notices, todo, Elsewhere>>

(* A link is opened: unknown or unsubscribed, confirmed already, expired,  *)
(* or confirmed now.                                                       *)
OpenLink(w) ==
    /\ At(w, "confirm alert")
    /\ \E i \in Mailed :
         IF i \in DOMAIN subs /\ ~subs[i].gone /\ ~subs[i].confirmed /\ subs[i].left > 0
         THEN /\ job' = [job EXCEPT ![w].pc = "mark confirmed", ![w].n = i]
              /\ opened' = opened \cup {i}
         ELSE End(w) /\ UNCHANGED opened
    /\ UNCHANGED <<subs, links, notices, todo, Elsewhere>>

MarkConfirmed(w) ==
    /\ At(w, "mark confirmed")
    /\ subs' = [subs EXCEPT ![job[w].n].confirmed = TRUE]
    /\ End(w)
    /\ UNCHANGED <<links, opened, notices, todo, Elsewhere>>

Unsubscribe(w) ==
    /\ At(w, "unsubscribe")
    /\ \E i \in Mailed :
         subs' = IF i \in DOMAIN subs THEN [subs EXCEPT ![i].gone = TRUE] ELSE subs
    /\ End(w)
    /\ UNCHANGED <<links, opened, notices, todo, Elsewhere>>

-----------------------------------------------------------------------------
(* The run reads the prices, then the recipients, then mails them one      *)
(* after the other.                                                        *)
BuildPriceRows(w) ==
    /\ At(w, "notify")
    /\ job' = [job EXCEPT ![w].pc = "recipients", ![w].row =
           [p \in {q \in DOMAIN product : product[q].active} |-> product[p].price]]
    /\ UNCHANGED <<alertVars, todo, Elsewhere>>

(* Mutant of ConfirmedActive: whoever has not unsubscribed.                *)
EveryActive == {i \in DOMAIN subs : ~subs[i].gone}

ConfirmedActive == {i \in DOMAIN subs : subs[i].confirmed /\ ~subs[i].gone}

ListRecipients(w) ==
    /\ At(w, "recipients")
    /\ job' = [job EXCEPT ![w].pc = "send",
                          ![w].row = [prices |-> @, left |-> ConfirmedActive]]
    /\ UNCHANGED <<alertVars, todo, Elsewhere>>

SendNotice(w) ==
    /\ At(w, "send")
    /\ \E i \in job[w].row.left :
         /\ notices' = Append(notices, [sub |-> i, prices |-> job[w].row.prices])
         /\ job' = [job EXCEPT ![w].row.left = @ \ {i}]
    /\ UNCHANGED <<subs, links, opened, todo, Elsewhere>>

FinishRun(w) ==
    /\ At(w, "send") /\ job[w].row.left = {}
    /\ End(w)
    /\ UNCHANGED <<alertVars, todo, Elsewhere>>

AgeLinks == subs' = [i \in DOMAIN subs |-> [subs[i] EXCEPT !.left = Older(@)]]

AlertStep(w) ==
    \/ LookUpSubscription(w) \/ InsertSubscription(w) \/ MailConfirmation(w)
    \/ CommitSubscription(w) \/ OpenLink(w) \/ MarkConfirmed(w) \/ Unsubscribe(w)
    \/ BuildPriceRows(w) \/ ListRecipients(w) \/ SendNotice(w) \/ FinishRun(w)

-----------------------------------------------------------------------------
(* Price mails go to addresses whose owner opened the mailed link while it *)
(* was valid, and to one subscription of each address only.                *)
DoubleOptIn ==
    /\ \A n \in DOMAIN notices : notices[n].sub \in opened
    /\ \A i, j \in DOMAIN subs :
         subs[i].email = subs[j].email /\ ~subs[i].gone /\ ~subs[j].gone => i = j

(* "After this window the customer must subscribe again": the confirmation *)
(* mail of a new attempt carries a link that can still be confirmed.       *)
MailedLinkIsValid == \A m \in DOMAIN links : links[m].left > 0
=============================================================================
