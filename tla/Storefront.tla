----------------------------- MODULE Storefront -----------------------------
(***************************************************************************)
(* What customers see of the catalogue: product lists, cards and pages of  *)
(* the parents that group variants, wishlists, recommendations, the cached *)
(* best sellers and the cart of an earlier order, while administrators add *)
(* products and take products and parents off sale.                        *)
(***************************************************************************)
EXTENDS CatalogAdmin

CONSTANTS
    Parents,    \* product parents at the start, all of them active
    PastOrder,  \* an order of the past: its user, its lines
    BestTtl     \* BEST_SELLERS_CACHE_TTL_SECONDS, in ticks

ASSUME LifetimeCounted == BestTtl \in Nat

VARIABLES
    parent,     \* committed parents and whether they are active
    saved,      \* the wishlists: pairs of a user and a product
    best,       \* the best sellers that the process keeps, and their age, or None
    waited,     \* ticks since a handler began: its reading of the clock
    shown,      \* history: how long products were off sale when customers got
                \* them, and how long is in order
    dropped     \* history: what a deletion of a parent had read of its variants

storefrontVars == <<parent, saved, best, waited, shown, dropped>>

StorefrontInit ==
    /\ parent = [q \in Parents |-> TRUE]
    /\ saved = {}
    /\ best = None
    /\ waited = [w \in Worker |-> 0]
    /\ shown = {}
    /\ dropped = {}

OnSale == {p \in DOMAIN product : product[p].active}
Variants(q) == {p \in DOMAIN product : product[p].parent = q}

Beyond == <<db, redis, issued, todo, history, coupon, previews, audit>>
Customer == <<product, parent, dropped, Beyond>>

(* A handler begins to answer a customer.                                  *)
Entered(w) == waited' = [waited EXCEPT ![w] = 0]

Show(items, allowed) ==
    shown' = shown \cup {[off |-> product[p].since, allowed |-> allowed] : p \in items}

(* A step that answers the customer, and one that reads on.                *)
ShowAndEnd(w, items) == Show(items, waited[w]) /\ End(w)
                     /\ UNCHANGED <<saved, best, waited, Customer>>
Gather(w, rows, pc) == job' = [job EXCEPT ![w].row = rows, ![w].pc = pc]
                         /\ UNCHANGED <<shown, saved, best, Customer>>

-----------------------------------------------------------------------------
(* Products in a list, by their id or by their SKU: one select.            *)
Browse(w) ==
    /\ At(w, "browse")
    /\ Entered(w)
    /\ Show(OnSale, 0)
    /\ End(w)
    /\ UNCHANGED <<saved, best, Customer>>

(* The cards: every gas product is one, water is grouped under parents.    *)
GasCards(w) ==
    /\ At(w, "cards")
    /\ Entered(w)
    /\ LET gas == {p \in OnSale : product[p].category = "gas"} IN
         IF Req(w).category = "gas"
         THEN Show(gas, 0) /\ End(w) /\ UNCHANGED <<saved, best, Customer>>
         ELSE Gather(w, gas, "card parents")

(* The parents and their variants are two selects.                         *)
CardParents(w) ==
    /\ At(w, "card parents")
    /\ Gather(w, [gas |-> job[w].row, parents |-> {q \in DOMAIN parent : parent[q]}],
              "card variants")
    /\ UNCHANGED waited

CardVariants(w) ==
    /\ At(w, "card variants")
    /\ ShowAndEnd(w, job[w].row.gas \cup UNION {Variants(q) \cap OnSale : q \in job[w].row.parents})

OpenParent(w) ==
    /\ At(w, "page")
    /\ Entered(w)
    /\ IF parent[Req(w).parent] THEN Gather(w, Req(w).parent, "page variants")
       ELSE End(w) /\ UNCHANGED <<shown, saved, best, Customer>>

ParentVariants(w) ==
    /\ At(w, "page variants")
    /\ ShowAndEnd(w, Variants(job[w].row) \cap OnSale)

(* A wishlist: what is saved was on sale a moment before; what is listed   *)
(* is on sale.                                                             *)
CheckSaved(w) ==
    /\ At(w, "save")
    /\ IF Req(w).product \in OnSale THEN Goto(w, "insert saved") ELSE End(w)
    /\ UNCHANGED <<storefrontVars, product, Beyond>>

InsertSaved(w) ==
    /\ At(w, "insert saved")
    /\ saved' = saved \cup {<<Who(w), Req(w).product>>}
    /\ End(w)
    /\ UNCHANGED <<best, waited, shown, Customer>>

Unsave(w) ==
    /\ At(w, "unsave")
    /\ saved' = saved \ {<<Who(w), Req(w).product>>}
    /\ End(w)
    /\ UNCHANGED <<best, waited, shown, Customer>>

ListSaved(w) ==
    /\ At(w, "saved")
    /\ Entered(w)
    /\ Show({p \in OnSale : <<Who(w), p>> \in saved}, 0)
    /\ End(w)
    /\ UNCHANGED <<saved, best, Customer>>

(* Recommendations for a product that is looked at: every other one, once  *)
(* it is known to be on sale.  Their order is left out, and so are the     *)
(* best sellers, which only change the order.                              *)
ViewProduct(w) ==
    /\ At(w, "recommend")
    /\ Entered(w)
    /\ IF Req(w).product \in OnSale THEN Gather(w, Req(w).product, "candidates")
       ELSE End(w) /\ UNCHANGED <<shown, saved, best, Customer>>

Recommend(w) ==
    /\ At(w, "candidates")
    /\ ShowAndEnd(w, OnSale \ {job[w].row})

(* The best sellers.  The clock is read before they are queried, and what  *)
(* it said is kept with the answer.                                        *)
CachedBest(w) ==
    /\ At(w, "best")
    /\ Entered(w)
    /\ IF best # None /\ best.age < BestTtl
       THEN /\ Show(best.items, BestTtl - 1) /\ End(w)
            /\ UNCHANGED <<saved, best, Customer>>
       ELSE Gather(w, None, "best query")

QueryBest(w) ==
    /\ At(w, "best query")
    /\ Gather(w, {p \in OnSale : product[p].sold}, "best keep")
    /\ UNCHANGED waited

(* Mutant of KeepBest: the clock is read once more.                        *)
KeepBestNow(w) ==
    /\ At(w, "best keep")
    /\ best' = [items |-> job[w].row, age |-> 0]
    /\ Show(job[w].row, waited[w])
    /\ End(w)
    /\ UNCHANGED <<saved, waited, Customer>>

KeepBest(w) ==
    /\ At(w, "best keep")
    /\ best' = [items |-> job[w].row, age |-> waited[w]]
    /\ Show(job[w].row, waited[w])
    /\ End(w)
    /\ UNCHANGED <<saved, waited, Customer>>

(* The cart of an earlier order: its user only; line by line, what is on   *)
(* sale and in stock, as many as there are.                                *)
OpenOrder(w) ==
    /\ At(w, "reorder")
    /\ Entered(w)
    /\ IF PastOrder.user = Who(w) THEN Gather(w, {}, "reorder line")
       ELSE End(w) /\ UNCHANGED <<shown, saved, best, Customer>>

ReorderLine(w) ==
    /\ At(w, "reorder line") /\ job[w].n < Len(PastOrder.lines)
    /\ LET p == PastOrder.lines[job[w].n + 1] IN
         job' = [job EXCEPT ![w].n = @ + 1,
                            ![w].row = IF p \in OnSale /\ product[p].stock > 0
                                       THEN @ \cup {p} ELSE @]
    /\ UNCHANGED <<storefrontVars, product, Beyond>>

RebuiltCart(w) ==
    /\ At(w, "reorder line") /\ job[w].n = Len(PastOrder.lines)
    /\ ShowAndEnd(w, job[w].row)

-----------------------------------------------------------------------------
(* Administrators.  A SKU is unique; a new product is on sale.             *)
CreateProduct(w) ==
    /\ At(w, "new product")
    /\ LET row == Req(w).row IN
         IF Req(w).product \in DOMAIN product \/ ~Readable(row) THEN UNCHANGED product
         ELSE product' = Put(product, Req(w).product, Inserted(row))
    /\ End(w)
    /\ UNCHANGED <<storefrontVars, Beyond>>

CreateParent(w) ==
    /\ At(w, "new parent")
    /\ parent' = Put(parent, Req(w).parent, TRUE)
    /\ End(w)
    /\ UNCHANGED <<product, saved, best, waited, shown, dropped, Beyond>>

(* The two ways to take a parent off sale.  An update leaves its variants  *)
(* alone.                                                                  *)
LoadParent(w) ==
    /\ job[w] # None /\ job[w].pc \in {"patch parent", "drop parent"}
    /\ IF Req(w).parent \in DOMAIN parent
       THEN job' = [job EXCEPT ![w].pc = IF @ = "patch parent" THEN "flush parent"
                                         ELSE "load variants",
                               ![w].row = parent[Req(w).parent]]
       ELSE End(w)
    /\ UNCHANGED <<storefrontVars, product, Beyond>>

PatchParent(w) ==
    /\ At(w, "flush parent")
    /\ parent' = IF job[w].row # Req(w).to THEN [parent EXCEPT ![Req(w).parent] = Req(w).to]
                 ELSE parent
    /\ End(w)
    /\ UNCHANGED <<product, saved, best, waited, shown, dropped, Beyond>>

LoadVariants(w) ==
    /\ At(w, "load variants")
    /\ job' = [job EXCEPT ![w].pc = "flush drop",
           ![w].row = [active |-> @, rows |-> [p \in Variants(Req(w).parent) |-> product[p]]]]
    /\ UNCHANGED <<storefrontVars, product, Beyond>>

(* A deletion takes the parent and its variants off sale, as it read them. *)
DropParent(w) ==
    /\ At(w, "flush drop")
    /\ LET read == job[w].row.rows IN
         /\ parent' = [parent EXCEPT ![Req(w).parent] = @ /\ ~job[w].row.active]
         /\ product' = [p \in DOMAIN product |->
                IF p \in DOMAIN read THEN WrittenRow(p, read[p], "active", FALSE) ELSE product[p]]
         /\ dropped' = dropped \cup {[p \in DOMAIN read |-> read[p].ver]}
    /\ End(w)
    /\ UNCHANGED <<saved, best, waited, shown, Beyond>>

-----------------------------------------------------------------------------
(* Time passes for handlers, for the cache and for what is off sale.       *)
AgeStorefront ==
    /\ product' = [p \in DOMAIN product |->
           IF product[p].active THEN product[p] ELSE [product[p] EXCEPT !.since = @ + 1]]
    /\ best' = IF best = None THEN None ELSE [best EXCEPT !.age = @ + 1]
    /\ waited' = [w \in Worker |->
           IF job[w] # None /\ Op(w) \in Shopping THEN waited[w] + 1 ELSE waited[w]]
    /\ UNCHANGED <<coupon, previews, audit, parent, saved, shown, dropped>>

PageStep(w) == Browse(w) \/ GasCards(w) \/ CardParents(w) \/ CardVariants(w)
                 \/ OpenParent(w) \/ ParentVariants(w)
RecommendStep(w) == ViewProduct(w) \/ Recommend(w)
ParentStep(w) == CreateProduct(w) \/ CreateParent(w) \/ LoadParent(w) \/ PatchParent(w)
                   \/ LoadVariants(w) \/ DropParent(w)
WishlistStep(w) == CheckSaved(w) \/ InsertSaved(w) \/ Unsave(w) \/ ListSaved(w)
BestSellerStep(w) == CachedBest(w) \/ QueryBest(w) \/ KeepBest(w)
ReorderStep(w) == OpenOrder(w) \/ ReorderLine(w) \/ RebuiltCart(w)
StorefrontStep(w) == PageStep(w) \/ RecommendStep(w) \/ ParentStep(w) \/ WishlistStep(w)
                       \/ BestSellerStep(w) \/ ReorderStep(w)

-----------------------------------------------------------------------------
(* No customer is shown a product that was off sale before the request     *)
(* began; a best seller may have been for less than the life of the cache, *)
(* counted from before its query.                                          *)
OffSaleNotShown == \A s \in shown : s.off <= s.allowed

(* Once a parent is deleted none of its variants is on sale, but for those *)
(* that were added or put on sale after the deletion had read them.        *)
DeletedVariantsOff ==
    \A read \in dropped : \A p \in DOMAIN read :
        product[p].active => product[p].on > read[p]
=============================================================================
