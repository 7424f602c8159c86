---------------------------- MODULE CatalogAdmin ----------------------------
(***************************************************************************)
(* The catalogue as administrators change it: the admin chat, which asks   *)
(* for a confirmation under a one-time token, the product endpoints, which *)
(* ask for none, and the coupons.  Sales change the stock meanwhile.       *)
(***************************************************************************)
EXTENDS Accounts

CONSTANTS
    Catalogue,  \* products at the start: category, parent, price, sale price (0:
                \* none), stock, active, sold (in an order that stands)
    Promotion,  \* the coupon at the start: kind and value
    PendingTtl  \* PENDING_TTL_SECONDS, in ticks

(* The columns that an update may change, and what they may hold: the      *)
(* schemas refuse everything else before a handler sees it.                *)
Updatable == {"price", "sale", "stock", "active"}
ColumnValues(field) == IF field = "active" THEN BOOLEAN ELSE Int
WellFormed(row) == \A field \in Updatable : row[field] \in ColumnValues(field)

(* The response model refuses a sale price that is not below the price.    *)
Readable(row) == row.sale < row.price

ValidCoupon(c) == c.kind = "percent" => c.value <= 100

ASSUME CatalogueAssumption ==
    /\ PendingTtl \in Nat
    /\ \A p \in DOMAIN Catalogue : WellFormed(Catalogue[p]) /\ Readable(Catalogue[p])
    /\ ValidCoupon(Promotion)
    /\ \A s \in Scenario, w \in Worker : \A i \in DOMAIN s[w] : LET r == s[w][i] IN
         /\ r.op \in {"plan", "patch"} => r.field \in Updatable /\ r.to \in ColumnValues(r.field)
         /\ r.op = "new product" => WellFormed(r.row)
         /\ r.op = "coupon" => DOMAIN r.changes \subseteq {"kind", "value"}

VARIABLES
    product,    \* committed products; history: ver counts the changes of a row, on
                \* is ver when it was last put on sale, since its ticks off sale
    coupon,     \* the committed coupon, with ver
    previews,   \* history: the previews that were given a token
    audit       \* the audit log; what the row held and whether it had changed
                \* since it was compared is history

catalogVars == <<product, coupon, previews, audit>>

(* A row that nobody has changed.                                          *)
Inserted(row) ==
    [category |-> row.category, parent |-> row.parent, price |-> row.price, sale |-> row.sale,
     stock |-> row.stock, active |-> row.active, sold |-> row.sold,
     ver |-> 0, on |-> 0, since |-> 0]

CatalogInit ==
    /\ product = [p \in DOMAIN Catalogue |-> Inserted(Catalogue[p])]
    /\ coupon = [kind |-> Promotion.kind, value |-> Promotion.value, ver |-> 0, moved |-> FALSE]
    /\ previews = <<>>
    /\ audit = <<>>

Pending(t) == <<"pending", t>>

(* A price must be positive and a stock must not be negative.              *)
ValidChange(field, value) ==
    /\ field = "price" => value > 0
    /\ field = "stock" => value >= 0

Changed(row, field, value) ==
    IF row[field] = value THEN row
    ELSE [row EXCEPT ![field] = value, !.ver = @ + 1,
                     !.on = IF field = "active" /\ value THEN row.ver + 1 ELSE @,
                     !.since = IF field = "active" THEN 0 ELSE @]

(* An update writes the columns that differ from the row as it was read; a *)
(* price is sent as text and always differs.                               *)
Writes(row, field, value) ==
    \/ row[field] # value
    \/ field \in {"price", "sale"} /\ value > 0

(* Mutant of WrittenRow: the whole row goes back.                             *)
WrittenWhole(p, row, field, value) == Changed(row, field, value)
WrittenRow(p, row, field, value) ==
    IF Writes(row, field, value) THEN Changed(product[p], field, value) ELSE product[p]

(* The row is refreshed after the flush, which locked it, and the response *)
(* is made of it before the commit.                                        *)
ValidatedAsRead(p, row, field, value) == Readable([row EXCEPT ![field] = value])  \* mutant
Validated(p, row, field, value) == Readable(WrittenRow(p, row, field, value))

-----------------------------------------------------------------------------
(* The first message of a command: parse, resolve the product, validate    *)
(* and keep what the administrator was shown under a new token.            *)
PlanChange(w) ==
    /\ At(w, "plan")
    /\ IF Req(w).product \in DOMAIN product /\ ValidChange(Req(w).field, Req(w).to)
       THEN job' = [job EXCEPT ![w].pc = "store",
                               ![w].row = product[Req(w).product][Req(w).field]]
       ELSE End(w)
    /\ UNCHANGED <<db, redis, issued, todo, history, catalogVars>>

StorePending(w) ==
    /\ At(w, "store")
    /\ previews' = Append(previews, Who(w))
    /\ SetEx(Pending(Len(previews')),
             [admin |-> Who(w), product |-> Req(w).product, field |-> Req(w).field,
              to |-> Req(w).to, before |-> job[w].row], PendingTtl)
    /\ End(w)
    /\ UNCHANGED <<db, issued, todo, history, product, coupon, audit>>

(* The confirmation claims its token: read and delete in one round trip,   *)
(* before anything else is looked at.                                      *)
Claimed(w, t) ==
    job' = [job EXCEPT ![w] = IF redis[Pending(t)].val.admin = Who(w)
        THEN [@ EXCEPT !.pc = "recheck", !.row = redis[Pending(t)].val, !.n = t]
        ELSE None]

(* Mutant of ClaimPending: GET, and the token is left to expire.           *)
ReadPending(w) ==
    /\ At(w, "confirm")
    /\ \E t \in DOMAIN previews :
         IF Has(Pending(t)) THEN Claimed(w, t) ELSE End(w)
    /\ UNCHANGED <<db, redis, issued, todo, history, catalogVars>>

ClaimPending(w) ==
    /\ At(w, "confirm")
    /\ \E t \in DOMAIN previews :
         IF Has(Pending(t)) THEN Claimed(w, t) /\ Delete(Pending(t))
         ELSE End(w) /\ UNCHANGED redis
    /\ UNCHANGED <<db, issued, todo, history, catalogVars>>

(* Mutant of RecheckPending: the live value is not compared.               *)
TrustPreview(w) ==
    /\ At(w, "recheck")
    /\ job' = [job EXCEPT ![w].pc = "execute", ![w].row = Put(@, "read", product[@.product])]
    /\ UNCHANGED <<db, redis, issued, todo, history, catalogVars>>

RecheckPending(w) ==
    /\ At(w, "recheck")
    /\ LET change == job[w].row
           live == product[change.product] IN
         IF ValidChange(change.field, change.to) /\ live[change.field] = change.before
         THEN job' = [job EXCEPT ![w].pc = "execute", ![w].row = Put(@, "read", live)]
         ELSE End(w)
    /\ UNCHANGED <<db, redis, issued, todo, history, catalogVars>>

(* The update and its audit entry, in one transaction, which is rolled     *)
(* back when the updated row cannot be answered with.                      *)
ExecuteChange(w) ==
    /\ At(w, "execute")
    /\ LET change == job[w].row
           live == product[change.product] IN
         IF Validated(change.product, change.read, change.field, change.to)
         THEN /\ product' = [product EXCEPT ![change.product] =
                     WrittenRow(change.product, change.read, change.field, change.to)]
              /\ audit' = Append(audit,
                     [token |-> job[w].n, admin |-> Who(w), before |-> change.before,
                      after |-> change.to, found |-> live[change.field],
                      moved |-> live.ver # change.read.ver])
         ELSE UNCHANGED <<product, audit>>
    /\ End(w)
    /\ UNCHANGED <<db, redis, issued, todo, history, coupon, previews>>

-----------------------------------------------------------------------------
(* The product endpoints read the row and write it, without a lock.        *)
ReadProduct(w) ==
    /\ job[w] # None /\ job[w].pc \in {"patch", "delist"}
    /\ IF Req(w).product \in DOMAIN product
       THEN job' = [job EXCEPT ![w].pc = IF @ = "patch" THEN "flush patch" ELSE "flush delist",
                               ![w].row = product[Req(w).product]]
       ELSE End(w)
    /\ UNCHANGED <<db, redis, issued, todo, history, catalogVars>>

PatchProduct(w) ==
    /\ At(w, "flush patch")
    /\ LET p == Req(w).product IN
         IF Validated(p, job[w].row, Req(w).field, Req(w).to)
         THEN product' = [product EXCEPT ![p] = WrittenRow(p, job[w].row, Req(w).field, Req(w).to)]
         ELSE UNCHANGED product
    /\ End(w)
    /\ UNCHANGED <<db, redis, issued, todo, history, coupon, previews, audit>>

(* A deleted product is off sale.                                          *)
DelistProduct(w) ==
    /\ At(w, "flush delist")
    /\ LET p == Req(w).product IN
         product' = [product EXCEPT ![p] = WrittenRow(p, job[w].row, "active", FALSE)]
    /\ End(w)
    /\ UNCHANGED <<db, redis, issued, todo, history, coupon, previews, audit>>

(* An order takes stock off the row it has locked.                         *)
SellProduct(w) ==
    /\ At(w, "sell")
    /\ LET live == product[Req(w).product] IN
         IF live.active /\ live.stock > 0
         THEN product' = [product EXCEPT ![Req(w).product] =
                  [Changed(live, "stock", live.stock - 1) EXCEPT !.sold = TRUE]]
         ELSE UNCHANGED product
    /\ End(w)
    /\ UNCHANGED <<db, redis, issued, todo, history, coupon, previews, audit>>

-----------------------------------------------------------------------------
(* A coupon update is validated against the coupon as it was read, merged  *)
(* with the fields that change; only those are written.                    *)
Merged(row, changes) == [f \in DOMAIN row |-> IF f \in DOMAIN changes THEN changes[f] ELSE row[f]]

(* Mutant of ReadCoupon: only the fields of the request are validated.     *)
ReadCouponUnmerged(w) ==
    /\ At(w, "coupon")
    /\ IF ValidCoupon(Merged([kind |-> "fixed", value |-> 0], Req(w).changes))
       THEN job' = [job EXCEPT ![w].pc = "write coupon", ![w].row = coupon]
       ELSE End(w)
    /\ UNCHANGED <<db, redis, issued, todo, history, catalogVars>>

ReadCoupon(w) ==
    /\ At(w, "coupon")
    /\ IF ValidCoupon(Merged(coupon, Req(w).changes))
       THEN job' = [job EXCEPT ![w].pc = "write coupon", ![w].row = coupon]
       ELSE End(w)
    /\ UNCHANGED <<db, redis, issued, todo, history, catalogVars>>

WriteCoupon(w) ==
    /\ At(w, "write coupon")
    /\ coupon' = [Merged(coupon, Req(w).changes) EXCEPT
                     !.ver = @ + 1, !.moved = @ \/ coupon.ver # job[w].row.ver]
    /\ End(w)
    /\ UNCHANGED <<db, redis, issued, todo, history, product, previews, audit>>

CommandStep(w) == PlanChange(w) \/ StorePending(w) \/ ClaimPending(w) \/ RecheckPending(w)
                    \/ ExecuteChange(w)
ProductStep(w) == ReadProduct(w) \/ PatchProduct(w) \/ DelistProduct(w)
CouponStep(w) == ReadCoupon(w) \/ WriteCoupon(w)
CatalogStep(w) == CommandStep(w) \/ ProductStep(w) \/ CouponStep(w) \/ SellProduct(w)

-----------------------------------------------------------------------------
(* A confirmation token changes the catalogue once, for the administrator  *)
(* who asked, however many confirmations race.                             *)
AppliedOnce ==
    /\ \A i, j \in DOMAIN audit : audit[i].token = audit[j].token => i = j
    /\ \A i \in DOMAIN audit : audit[i].admin = previews[audit[i].token]

(* A confirmed change replaces the value the administrator approved; it    *)
(* can only replace another one that was committed after the handler had   *)
(* compared the row, for the row is not locked in between.                 *)
ApprovedValueReplaced ==
    \A i \in DOMAIN audit : audit[i].found = audit[i].before \/ audit[i].moved

(* No update leaves a product that the response model refuses, which would *)
(* fail every page that lists it: a price and a sale price that are valid  *)
(* one by one are refused together, however their updates overlap.         *)
CatalogueReadable == \A p \in DOMAIN product : Readable(product[p])

(* A percentage never exceeds 100, unless two updates, valid one by one,   *)
(* overlapped.                                                             *)
CouponStaysValid == ValidCoupon(coupon) \/ coupon.moved
=============================================================================
