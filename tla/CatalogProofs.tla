---------------------------- MODULE CatalogProofs ----------------------------
(***************************************************************************)
(* Proofs about the catalogue, for every number of workers, every scenario *)
(* of requests and every catalogue.                                        *)
(*                                                                         *)
(* No handler locks a product row between reading and writing it, so every *)
(* property rests on what a row read earlier still says of the row as it   *)
(* is now: its version, and what the versions in between may have done.    *)
(***************************************************************************)
EXTENDS SiteSteps

Columns == {"category", "parent", "price", "sale", "stock", "active", "sold",
            "ver", "on", "since"}

TypedRow(row) ==
    /\ DOMAIN row = Columns
    /\ WellFormed(row)
    /\ row.ver \in Nat /\ row.on \in Nat
    /\ row.on <= row.ver

RowsTyped == \A p \in DOMAIN product : TypedRow(product[p])

(* What a row that was read says of the same row now: as long as the       *)
(* version is the same its columns are, and if it went on sale since then  *)
(* that came later.                                                        *)
Evolved(row, now) ==
    /\ row.ver <= now.ver
    /\ now.ver = row.ver => \A field \in Updatable : now[field] = row[field]
    /\ row.on <= now.on
    /\ now.active /\ ~row.active => now.on > row.ver

ReadOf(row, p) ==
    /\ p \in DOMAIN product
    /\ TypedRow(row)
    /\ Evolved(row, product[p])

(* A change that was previewed.                                            *)
PreviewFields == {"admin", "product", "field", "to", "before"}
Planned(c) ==
    /\ c.product \in DOMAIN product
    /\ c.field \in Updatable
    /\ c.to \in ColumnValues(c.field)

PendingPlanned ==
    \A t : Has(Pending(t)) => /\ DOMAIN redis[Pending(t)].val = PreviewFields
                              /\ Planned(redis[Pending(t)].val)

(* What the handlers between their read and their write hold.              *)
ReadHeld(w) ==
    /\ job[w].pc = "store" => Op(w) = "plan" /\ Req(w).product \in DOMAIN product
    /\ job[w].pc = "recheck" => DOMAIN job[w].row = PreviewFields /\ Planned(job[w].row)
    /\ job[w].pc = "execute" =>
         LET change == job[w].row IN
           /\ Planned(change)
           /\ ReadOf(change.read, change.product)
           /\ change.read[change.field] = change.before
    /\ job[w].pc = "flush patch" => Op(w) = "patch" /\ ReadOf(job[w].row, Req(w).product)
    /\ job[w].pc = "flush delist" => ReadOf(job[w].row, Req(w).product)
    /\ job[w].pc = "flush drop" =>
         \A p \in DOMAIN job[w].row.rows : ReadOf(job[w].row.rows[p], p)

ReadsHeld == \A w \in Worker : job[w] # None => ReadHeld(w)

CatalogInv == Shape /\ Entries /\ RowsTyped /\ PendingPlanned /\ ReadsHeld

(* The rows that a deletion had read.                                      *)
DropsKept ==
    \A read \in dropped : \A p \in DOMAIN read :
        /\ p \in DOMAIN product
        /\ read[p] \in Nat
        /\ read[p] <= product[p].ver
        /\ product[p].active => product[p].on > read[p]

(* Where the token of a preview is: pending in Redis, held by one handler, *)
(* or in the audit log.                                                    *)
Confirming(w, t) ==
    job[w] # None /\ job[w].pc \in {"recheck", "execute"} /\ job[w].n = t
Audited(t) == \E i \in DOMAIN audit : audit[i].token = t

TokensOnce ==
    /\ IsSequence(previews) /\ IsSequence(audit)
    /\ \A t : Has(Pending(t)) =>
         /\ t \in DOMAIN previews
         /\ redis[Pending(t)].val.admin = previews[t]
         /\ ~Audited(t)
         /\ \A w \in Worker : ~Confirming(w, t)
    /\ \A w \in Worker : \A t : Confirming(w, t) =>
         /\ t \in DOMAIN previews
         /\ Who(w) = previews[t]
         /\ ~Audited(t)
         /\ \A v \in Worker : Confirming(v, t) => v = w
    /\ \A i \in DOMAIN audit : audit[i].token \in DOMAIN previews
    /\ AppliedOnce

(* How long a product has been off sale when a handler shows it: it was on *)
(* sale when the handler or the cache read it, and both count the time     *)
(* since.                                                                  *)
Gathering == {"card parents", "card variants", "best query", "best keep", "reorder line"}
Gathered(w) ==
    IF job[w].pc \in {"card parents", "best keep", "reorder line"} THEN job[w].row
    ELSE IF job[w].pc = "card variants" THEN job[w].row.gas
    ELSE {}

OffFor(p, limit) == p \in DOMAIN product /\ product[p].since <= limit

BestKept(kept) ==
    /\ DOMAIN kept = {"items", "age"}
    /\ kept.age \in Nat
    /\ \A p \in kept.items : OffFor(p, kept.age)

ShelfKept ==
    /\ \A p \in DOMAIN product :
         product[p].since \in Nat /\ (product[p].active => product[p].since = 0)
    /\ waited \in [Worker -> Nat]
    /\ \A w \in Worker : job[w] # None =>
         /\ job[w].pc \in Gathering => Op(w) \in Shopping
         /\ \A p \in Gathered(w) : OffFor(p, waited[w])
    /\ best # None => BestKept(best)
    /\ OffSaleNotShown

(* A coupon that was read is the coupon of its version.                    *)
CouponFields == {"kind", "value", "ver", "moved"}
CouponRead(w) ==
    /\ job[w].row.ver <= coupon.ver
    /\ job[w].row.ver = coupon.ver =>
         coupon.kind = job[w].row.kind /\ coupon.value = job[w].row.value
    /\ DOMAIN job[w].row = CouponFields
    /\ job[w].row.ver \in Nat
    /\ Op(w) = "coupon"
    /\ ValidCoupon(Merged(job[w].row, Req(w).changes))
CouponsRead ==
    /\ DOMAIN coupon = CouponFields
    /\ coupon.ver \in Nat
    /\ \A w \in Worker : At(w, "write coupon") => CouponRead(w)
    /\ CouponStaysValid
-----------------------------------------------------------------------------
(* The schemas refuse every other request.                                 *)
LEMMA RequestTyped ==
  ASSUME NEW r \in Requested
  PROVE  /\ r.op \in {"plan", "patch"} =>
              r.field \in Updatable /\ r.to \in ColumnValues(r.field)
         /\ r.op = "new product" => WellFormed(r.row)
         /\ r.op = "coupon" => DOMAIN r.changes \subseteq {"kind", "value"}
<1>1. PICK s \in Scenario, w \in Worker : \E i \in DOMAIN s[w] : r = s[w][i]
  BY RequestIsAsked
<1>2. PICK i \in DOMAIN s[w] : r = s[w][i]
  BY <1>1
<1>. QED  BY <1>2, CatalogueAssumption

LEMMA ChangedRow ==
  ASSUME NEW row, TypedRow(row), NEW field \in Updatable, NEW value \in ColumnValues(field)
  PROVE  TypedRow(Changed(row, field, value)) /\ Evolved(row, Changed(row, field, value))
<1>. USE DEF TypedRow, Evolved, WellFormed, Updatable, ColumnValues, Columns
<1>1. CASE row[field] = value
  BY <1>1 DEF Changed
<1>2. CASE row[field] # value /\ field = "active"
  BY <1>2 DEF Changed
<1>3. CASE row[field] # value /\ field # "active"
  BY <1>3 DEF Changed
<1>. QED  BY ONLY <1>1, <1>2, <1>3

LEMMA SameRow == ASSUME NEW row, TypedRow(row) PROVE Evolved(row, row)
BY DEF TypedRow, Evolved

LEMMA EvolvedTwice ==
  ASSUME NEW a, NEW b, NEW c, TypedRow(a), TypedRow(b), TypedRow(c), Evolved(a, b), Evolved(b, c)
  PROVE  Evolved(a, c)
BY DEF TypedRow, Evolved

(* The table after a step: rows are added, and those there were evolve.    *)
TableKept ==
    /\ RowsTyped'
    /\ \A p \in DOMAIN product : p \in DOMAIN product' /\ Evolved(product[p], product'[p])

LEMMA TableSame == ASSUME RowsTyped, product' = product PROVE TableKept
BY SameRow DEF TableKept, RowsTyped

LEMMA WrittenKept ==
  ASSUME RowsTyped, NEW p \in DOMAIN product, NEW row, NEW field \in Updatable,
         NEW value \in ColumnValues(field)
  PROVE  /\ TypedRow(WrittenRow(p, row, field, value))
         /\ Evolved(product[p], WrittenRow(p, row, field, value))
<1>1. TypedRow(product[p])
  BY DEF RowsTyped
<1>. QED  BY <1>1, ChangedRow, SameRow DEF WrittenRow

LEMMA OneRowKept ==
  ASSUME RowsTyped, NEW p, NEW row,
         p \in DOMAIN product => TypedRow(row) /\ Evolved(product[p], row),
         product' = [product EXCEPT ![p] = row]
  PROVE  TableKept
BY SameRow DEF TableKept, RowsTyped

LEMMA ReadKept ==
  ASSUME RowsTyped, TableKept, NEW row, NEW p, ReadOf(row, p)
  PROVE  ReadOf(row, p)'
<1>1. p \in DOMAIN product /\ p \in DOMAIN product' /\ TypedRow(product[p]) /\ TypedRow(product'[p])
      /\ Evolved(product[p], product'[p]) /\ TypedRow(row) /\ Evolved(row, product[p])
  BY DEF ReadOf, TableKept, RowsTyped
<1>2. Evolved(row, product'[p])
  BY ONLY <1>1, EvolvedTwice
<1>. QED  BY <1>1, <1>2 DEF ReadOf

LEMMA FreshRead ==
  ASSUME RowsTyped, NEW p \in DOMAIN product
  PROVE  ReadOf(product[p], p)
BY SameRow DEF ReadOf, RowsTyped
-----------------------------------------------------------------------------
(* Three kinds of steps matter here: those of the catalogue, those of the  *)
(* storefront, and time.                                                   *)
PendingKept ==
    \A t : t \in DOMAIN redis' /\ t[1] = "pending" =>
             t \in DOMAIN redis /\ redis'[t].val = redis[t].val

Quiet ==
    /\ UNCHANGED <<catalogVars, waited, shown, dropped>>
    /\ best' \in {best, None}
    /\ Held(CatalogSteps) /\ Held(StorefrontSteps)
    /\ PendingKept

LEMMA HeldApart ==
  ASSUME NEW w \in Worker, NEW steps, Moves(w, steps),
         steps \cap CatalogSteps = {}, steps \cap StorefrontSteps = {}
  PROVE  Held(CatalogSteps) /\ Held(StorefrontSteps)
BY MovesHold

LEMMA CatalogCases ==
  ASSUME Shape, Entries, [SiteNext]_siteVars
  PROVE  \/ Quiet
         \/ \E w \in Worker : CatalogStep(w) /\ UNCHANGED storefrontVars
         \/ \E w \in Worker : StorefrontStep(w)
         \/ SiteTick
<1>. USE DEF Quiet, catalogVars, storefrontVars
<1>1. ASSUME NEW kinds, "pending" \notin kinds, RedisStep(kinds)
      PROVE  PendingKept
  BY <1>1, KeysApart DEF PendingKept
<1>2. ASSUME redis' = redis
      PROVE  PendingKept
  BY <1>2 DEF PendingKept
<1>3. "pending" \notin AccountKeys /\ "pending" \notin {"question"} /\ "pending" \notin AgentKeys
  BY DEF AccountKeys, AgentKeys
<1>4. ASSUME NEW w \in Worker, Begin(w) \/ Step(w),
             UNCHANGED <<catalogVars, storefrontVars, beyondCatalogue>>
      PROVE  Quiet
  <2>1. Held(CatalogSteps) /\ Held(StorefrontSteps)
    BY <1>4, AccountHolds, StepsApart
  <2>2. PendingKept
    BY <1>1, <1>2, <1>3, <1>4, BeginMoves, AccountRedis
  <2>. QED  BY <1>4, <2>1, <2>2
<1>5. ASSUME NEW w \in Worker, AlertStep(w), UNCHANGED storefrontVars
      PROVE  Quiet
  <2>1. Held(CatalogSteps) /\ Held(StorefrontSteps)
    BY <1>5, AlertMoves, HeldApart, StepsApart
  <2>2. UNCHANGED <<redis, catalogVars>>
    BY <1>5, AlertMoves DEF Elsewhere
  <2>. QED  BY <1>2, <1>5, <2>1, <2>2
<1>6. ASSUME NEW w \in Worker, LearningStep(w), UNCHANGED storefrontVars
      PROVE  Quiet
  <2>1. Held(CatalogSteps) /\ Held(StorefrontSteps)
    BY <1>6, LearningMoves, HeldApart, StepsApart
  <2>2. UNCHANGED catalogVars
    BY <1>6, LearningMoves
  <2>. QED  BY <1>1, <1>3, <1>6, <2>1, <2>2, LearningRedis
<1>7. ASSUME NEW w \in Worker, AgentStep(w), UNCHANGED storefrontVars
      PROVE  Quiet
  <2>1. Held(CatalogSteps) /\ Held(StorefrontSteps)
    BY <1>7, AgentMoves, HeldApart, StepsApart
  <2>2. UNCHANGED catalogVars
    BY <1>7, AgentMoves DEF OutsideAgent
  <2>. QED  BY <1>1, <1>3, <1>7, <2>1, <2>2, AgentRedis
<1>8. ASSUME NEW w \in Worker, GenerationStep(w), UNCHANGED storefrontVars
      PROVE  Quiet
  <2>1. Held(CatalogSteps) /\ Held(StorefrontSteps)
    BY <1>8, GenerationMoves, HeldApart, StepsApart
  <2>2. UNCHANGED <<redis, catalogVars>>
    BY <1>8, GenerationMoves DEF OutsideGeneration
  <2>. QED  BY <1>2, <1>8, <2>1, <2>2
<1>9. ASSUME NEW w \in Worker, Die(w)
      PROVE  Quiet
  <2>1. Moves(w, {}) /\ redis' = redis
    BY <1>9, CrashMoves DEF Die
  <2>2. Held(CatalogSteps) /\ Held(StorefrontSteps)
    BY <2>1, HeldApart
  <2>3. UNCHANGED <<catalogVars, waited, shown, dropped>> /\ best' \in {best, None}
    BY <1>9 DEF Die
  <2>. QED  BY <1>2, <2>1, <2>2, <2>3
<1>10. CASE UNCHANGED siteVars
  <2>1. UNCHANGED <<redis, job, catalogVars, storefrontVars>>
    BY <1>10 DEF siteVars, vars
  <2>2. Held(CatalogSteps) /\ Held(StorefrontSteps)
    BY <2>1 DEF Held
  <2>. QED  BY <1>2, <2>1, <2>2
<1>11. ASSUME NEW w \in Worker, Serve(w)
       PROVE  Quiet \/ (CatalogStep(w) /\ UNCHANGED storefrontVars) \/ StorefrontStep(w)
  BY <1>4, <1>5, <1>6, <1>7, <1>8, <1>11 DEF Serve
<1>. QED  BY <1>9, <1>10, <1>11 DEF SiteNext

(* Time passes.                                                            *)
LEMMA TickKeeps ==
  ASSUME Entries, RowsTyped, SiteTick
  PROVE  PendingKept /\ job' = job /\ TableKept /\ UNCHANGED <<coupon, previews, audit, dropped>>
<1>1. PendingKept
  BY DEF SiteTick, Tick, PendingKept, Entries
<1>2. job' = job /\ UNCHANGED <<coupon, previews, audit, dropped>>
  BY DEF SiteTick, Tick, AgeStorefront
<1>3. DOMAIN product' = DOMAIN product
      /\ \A p \in DOMAIN product :
           product'[p] = product[p] \/ product'[p] = [product[p] EXCEPT !.since = @ + 1]
  BY DEF SiteTick, AgeStorefront
<1>4. ASSUME NEW row, TypedRow(row)
      PROVE  LET now == [row EXCEPT !.since = @ + 1] IN TypedRow(now) /\ Evolved(row, now)
  BY <1>4 DEF TypedRow, Evolved, WellFormed, Updatable, ColumnValues, Columns
<1>5. TableKept
  BY <1>3, <1>4, SameRow DEF TableKept, RowsTyped
<1>. QED  BY <1>1, <1>2, <1>5

(* Of the storefront, what adds a product, or takes the variants of a      *)
(* parent off sale, as it read them.                                       *)
LEMMA StorefrontCases ==
  ASSUME Shape, NEW w \in Worker, StorefrontStep(w)
  PROVE  \/ CreateProduct(w) \/ LoadVariants(w) \/ DropParent(w)
         \/ /\ UNCHANGED <<product, dropped>>
            /\ Moves(w, StorefrontSteps \ {"flush drop"})
<1>. DEFINE Other == StorefrontSteps \ {"flush drop"}
<1>. USE DEF At, Customer, storefrontVars, StorefrontSteps
<1>1. ASSUME NEW pc \in Other, NEW rows, Gather(w, rows, pc), job[w] # None
      PROVE  Moves(w, Other)
  BY <1>1, KeepMoves DEF Gather
<1>2. ASSUME job[w] # None, End(w)
      PROVE  Moves(w, Other)
  BY <1>2 DEF End, Moves, Shape
<1>3. CASE Browse(w) \/ CardVariants(w) \/ ParentVariants(w) \/ Recommend(w) \/ InsertSaved(w)
           \/ Unsave(w) \/ ListSaved(w) \/ KeepBest(w) \/ RebuiltCart(w)
  BY <1>2, <1>3 DEF Browse, CardVariants, ParentVariants, Recommend, InsertSaved, Unsave,
                    ListSaved, KeepBest, RebuiltCart, ShowAndEnd
<1>4. CASE GasCards(w)
  <2>. DEFINE gas == {p \in OnSale : product[p].category = "gas"}
  <2>1. CASE Gather(w, gas, "card parents")
    BY <1>1, <1>4, <2>1 DEF GasCards, Gather
  <2>. QED  BY <1>2, <1>4, <2>1 DEF GasCards
<1>5. CASE CardParents(w)
  BY <1>1, <1>5 DEF CardParents, Gather
<1>6. CASE OpenParent(w)
  <2>1. CASE Gather(w, Req(w).parent, "page variants")
    BY <1>1, <1>6, <2>1 DEF OpenParent, Gather
  <2>. QED  BY <1>2, <1>6, <2>1 DEF OpenParent
<1>7. CASE CheckSaved(w)
  <2>1. CASE Goto(w, "insert saved")
    BY <1>7, <2>1 DEF CheckSaved, Goto, Moves, Shape, Shaped, Fields
  <2>. QED  BY <1>2, <1>7, <2>1 DEF CheckSaved
<1>8. CASE ViewProduct(w)
  <2>1. CASE Gather(w, Req(w).product, "candidates")
    BY <1>1, <1>8, <2>1 DEF ViewProduct, Gather
  <2>. QED  BY <1>2, <1>8, <2>1 DEF ViewProduct
<1>9. CASE CachedBest(w)
  <2>1. CASE Gather(w, None, "best query")
    BY <1>1, <1>9, <2>1 DEF CachedBest, Gather
  <2>. QED  BY <1>2, <1>9, <2>1 DEF CachedBest
<1>10. CASE QueryBest(w)
  BY <1>1, <1>10 DEF QueryBest, Gather
<1>11. CASE OpenOrder(w)
  <2>1. CASE Gather(w, {}, "reorder line")
    BY <1>1, <1>11, <2>1 DEF OpenOrder, Gather
  <2>. QED  BY <1>2, <1>11, <2>1 DEF OpenOrder
<1>12. CASE ReorderLine(w)
  BY <1>12 DEF ReorderLine, Moves, Shape, Shaped, Fields
<1>13. CASE CreateParent(w) \/ PatchParent(w)
  BY <1>2, <1>13 DEF CreateParent, PatchParent
<1>14. CASE LoadParent(w)
  <2>1. CASE End(w)
    BY <1>2, <1>14, <2>1 DEF LoadParent
  <2>2. ASSUME ~End(w)
        PROVE  Moves(w, Other)
    <3>1. PICK pc \in {"flush parent", "load variants"} :
             job' = [job EXCEPT ![w].pc = pc, ![w].row = parent[Req(w).parent]]
      BY <1>14, <2>2 DEF LoadParent, Shape, Shaped, Fields
    <3>. QED  BY <1>14, <3>1, KeepMoves DEF LoadParent
  <2>. QED  BY <1>14, <2>1, <2>2 DEF LoadParent
<1>. QED  BY <1>3, <1>4, <1>5, <1>6, <1>7, <1>8, <1>9, <1>10, <1>11, <1>12, <1>13, <1>14
          DEF StorefrontStep, PageStep, RecommendStep, ParentStep, WishlistStep,
              BestSellerStep, ReorderStep

(* What every step does to the table.                                      *)
LEMMA CreateKeeps ==
  ASSUME Shape, RowsTyped, NEW w \in Worker, CreateProduct(w)
  PROVE  TableKept
<1>. DEFINE row == Req(w).row
<1>1. CASE product' = product
  BY <1>1, TableSame
<1>2. CASE Req(w).product \notin DOMAIN product /\ product' = Put(product, Req(w).product, Inserted(row))
  <2>1. WellFormed(row)
    BY RequestTyped DEF CreateProduct, At, Shape, Shaped, Routes, AdminOnly, Req
  <2>2. TypedRow(Inserted(row))
    BY <2>1 DEF Inserted, TypedRow, Columns, WellFormed, Updatable
  <2>. QED  BY <1>2, <2>2, SameRow DEF TableKept, RowsTyped, Put
<1>. QED  BY <1>1, <1>2 DEF CreateProduct

LEMMA DropKeeps ==
  ASSUME RowsTyped, NEW w \in Worker, DropParent(w)
  PROVE  TableKept
<1>. DEFINE read == job[w].row.rows
<1>1. product' = [p \in DOMAIN product |->
         IF p \in DOMAIN read THEN WrittenRow(p, read[p], "active", FALSE) ELSE product[p]]
  BY DEF DropParent
<1>2. "active" \in Updatable /\ FALSE \in ColumnValues("active")
  BY DEF Updatable, ColumnValues
<1>3. ASSUME NEW p \in DOMAIN product
      PROVE  TypedRow(product'[p]) /\ Evolved(product[p], product'[p])
  BY <1>1, <1>2, <1>3, WrittenKept, SameRow DEF RowsTyped
<1>. QED  BY <1>1, <1>3 DEF TableKept, RowsTyped

LEMMA SaleKeeps ==
  ASSUME RowsTyped, NEW w \in Worker, SellProduct(w)
  PROVE  TableKept
<1>. DEFINE p == Req(w).product
            live == product[p]
            sold == [Changed(live, "stock", live.stock - 1) EXCEPT !.sold = TRUE]
<1>1. CASE product' = product
  BY <1>1, TableSame
<1>2. CASE product' = [product EXCEPT ![p] = sold]
  <2>1. ASSUME p \in DOMAIN product
        PROVE  TypedRow(sold) /\ Evolved(live, sold)
    <3>1. TypedRow(live)
      BY <2>1 DEF RowsTyped
    <3>2. "stock" \in Updatable /\ live.stock - 1 \in ColumnValues("stock")
      BY <3>1 DEF TypedRow, WellFormed, Updatable, ColumnValues
    <3>. DEFINE c == Changed(live, "stock", live.stock - 1)
    <3>3. TypedRow(c) /\ Evolved(live, c)
      BY <3>1, <3>2, ChangedRow
    <3>. HIDE DEF c
    <3>4. TypedRow([c EXCEPT !.sold = TRUE]) /\ Evolved(live, [c EXCEPT !.sold = TRUE])
      BY <3>3 DEF TypedRow, Evolved, WellFormed, Updatable, ColumnValues, Columns
    <3>. QED  BY <3>4 DEF c
  <2>. HIDE DEF sold
  <2>. QED  BY <1>2, <2>1, OneRowKept
<1>. QED  BY <1>1, <1>2 DEF SellProduct

LEMMA WriteKeeps ==
  ASSUME RowsTyped, NEW p, NEW row, NEW field \in Updatable, NEW value \in ColumnValues(field),
         product' = [product EXCEPT ![p] = WrittenRow(p, row, field, value)]
  PROVE  TableKept
BY WrittenKept, OneRowKept

LEMMA TableNext ==
  ASSUME CatalogInv, [SiteNext]_siteVars
  PROVE  TableKept
<1>. USE DEF CatalogInv
<1>1. CASE product' = product
  BY <1>1, TableSame
<1>2. CASE Quiet
  BY <1>1, <1>2 DEF Quiet, catalogVars
<1>3. CASE SiteTick
  BY <1>3, TickKeeps
<1>4. ASSUME NEW w \in Worker, StorefrontStep(w)
      PROVE  TableKept
  BY <1>1, <1>4, StorefrontCases, CreateKeeps, DropKeeps DEF LoadVariants
<1>5. ASSUME NEW w \in Worker, CatalogStep(w)
      PROVE  TableKept
  <2>1. CASE ExecuteChange(w)
    <3>. DEFINE change == job[w].row
    <3>1. change.field \in Updatable /\ change.to \in ColumnValues(change.field)
      BY <2>1 DEF ExecuteChange, At, ReadsHeld, ReadHeld, Planned
    <3>2. CASE product' = [product EXCEPT ![change.product] =
                   WrittenRow(change.product, change.read, change.field, change.to)]
      BY <3>1, <3>2, WriteKeeps
    <3>. QED  BY <1>1, <2>1, <3>2 DEF ExecuteChange
  <2>2. CASE PatchProduct(w)
    <3>1. Req(w).field \in Updatable /\ Req(w).to \in ColumnValues(Req(w).field)
      BY <2>2, RequestTyped DEF PatchProduct, At, ReadsHeld, ReadHeld, Shape, Shaped, Op, Req
    <3>2. CASE product' = [product EXCEPT ![Req(w).product] =
                   WrittenRow(Req(w).product, job[w].row, Req(w).field, Req(w).to)]
      BY <3>1, <3>2, WriteKeeps
    <3>. QED  BY <1>1, <2>2, <3>2 DEF PatchProduct
  <2>3. CASE DelistProduct(w)
    <3>1. "active" \in Updatable /\ FALSE \in ColumnValues("active")
      BY DEF Updatable, ColumnValues
    <3>. QED  BY <2>3, <3>1, WriteKeeps DEF DelistProduct
  <2>. QED  BY <1>1, <1>5, <2>1, <2>2, <2>3, SaleKeeps DEF CatalogStep, CommandStep, ProductStep,
            CouponStep, PlanChange, StorePending, ClaimPending, RecheckPending, ReadProduct,
            ReadCoupon, WriteCoupon, catalogVars
<1>. QED  BY <1>2, <1>3, <1>4, <1>5, CatalogCases

-----------------------------------------------------------------------------
(* The catalogue can be read: no update gets past the response model.      *)
LEMMA ReadableInit == SiteInit => CatalogueReadable
<1>1. \A p \in DOMAIN Catalogue : Readable(Catalogue[p])
  BY CatalogueAssumption
<1>. QED  BY <1>1 DEF SiteInit, CatalogInit, CatalogueReadable, Readable, Inserted

LEMMA ReadableRow ==
  ASSUME CatalogueReadable, NEW p, NEW row, Readable(row),
         product' = [product EXCEPT ![p] = row]
  PROVE  CatalogueReadable'
BY DEF CatalogueReadable, Readable

LEMMA OffSaleReadable ==
  ASSUME RowsTyped, CatalogueReadable, NEW p \in DOMAIN product, NEW row
  PROVE  Readable(WrittenRow(p, row, "active", FALSE))
<1>1. DOMAIN product[p] = Columns /\ Readable(product[p])
  BY DEF RowsTyped, TypedRow, CatalogueReadable
<1>2. CASE WrittenRow(p, row, "active", FALSE) = product[p]
  BY <1>1, <1>2
<1>3. CASE WrittenRow(p, row, "active", FALSE) # product[p]
  <2>1. WrittenRow(p, row, "active", FALSE).price = product[p].price
        /\ WrittenRow(p, row, "active", FALSE).sale = product[p].sale
    BY <1>1, <1>3 DEF WrittenRow, Changed, Columns
  <2>. QED  BY <1>1, <2>1 DEF Readable
<1>. QED  BY <1>2, <1>3

LEMMA ReadableNext == CatalogInv /\ CatalogueReadable /\ [SiteNext]_siteVars => CatalogueReadable'
<1>. SUFFICES ASSUME CatalogInv, CatalogueReadable, [SiteNext]_siteVars
              PROVE  CatalogueReadable'
  OBVIOUS
<1>. USE DEF CatalogInv
<1>1. CASE product' = product
  BY <1>1 DEF CatalogueReadable
<1>2. CASE Quiet
  BY <1>1, <1>2 DEF Quiet, catalogVars
<1>3. CASE SiteTick
  <2>1. DOMAIN product' = DOMAIN product
        /\ \A p \in DOMAIN product :
             product'[p] = product[p] \/ product'[p] = [product[p] EXCEPT !.since = @ + 1]
    BY <1>3 DEF SiteTick, AgeStorefront
  <2>2. \A p \in DOMAIN product :
           DOMAIN product[p] = Columns /\ product[p].sale < product[p].price
    BY DEF RowsTyped, TypedRow, CatalogueReadable, Readable
  <2>. QED  BY <2>1, <2>2 DEF CatalogueReadable, Readable, Columns
<1>4. ASSUME NEW w \in Worker, CreateProduct(w)
      PROVE  CatalogueReadable'
  <2>1. CASE /\ Readable(Req(w).row)
             /\ product' = Put(product, Req(w).product, Inserted(Req(w).row))
    BY <2>1 DEF CatalogueReadable, Readable, Put, Inserted
  <2>. QED  BY <1>1, <1>4, <2>1 DEF CreateProduct
<1>5. ASSUME NEW w \in Worker, DropParent(w)
      PROVE  CatalogueReadable'
  BY <1>5, OffSaleReadable DEF DropParent, CatalogueReadable
<1>6. ASSUME NEW w \in Worker, SellProduct(w)
      PROVE  CatalogueReadable'
  <2>. DEFINE p == Req(w).product
              sold == [Changed(product[p], "stock", product[p].stock - 1) EXCEPT !.sold = TRUE]
  <2>1. p \in DOMAIN product => Readable(sold)
    BY DEF RowsTyped, TypedRow, CatalogueReadable, Readable, Changed, Columns
  <2>2. CASE product' = [product EXCEPT ![p] = sold]
    <3>. HIDE DEF sold
    <3>. QED  BY <2>1, <2>2 DEF CatalogueReadable
  <2>. QED  BY <1>1, <1>6, <2>2 DEF SellProduct
<1>7. ASSUME NEW w \in Worker, CatalogStep(w)
      PROVE  CatalogueReadable'
  <2>1. CASE ExecuteChange(w)
    BY <1>1, <2>1, ReadableRow DEF ExecuteChange, Validated
  <2>2. CASE PatchProduct(w)
    BY <1>1, <2>2, ReadableRow DEF PatchProduct, Validated
  <2>3. CASE DelistProduct(w)
    BY <2>3, OffSaleReadable DEF DelistProduct, CatalogueReadable
  <2>. QED  BY <1>1, <1>6, <1>7, <2>1, <2>2, <2>3 DEF CatalogStep, CommandStep, ProductStep,
            CouponStep, PlanChange, StorePending, ClaimPending, RecheckPending, ReadProduct,
            ReadCoupon, WriteCoupon, catalogVars
<1>8. ASSUME NEW w \in Worker, StorefrontStep(w)
      PROVE  CatalogueReadable'
  BY <1>1, <1>4, <1>5, <1>8, StorefrontCases DEF LoadVariants
<1>. QED  BY <1>2, <1>3, <1>7, <1>8, CatalogCases

-----------------------------------------------------------------------------
(* Previews stay what they were, and so do reads.                          *)
LEMMA PlannedKept == ASSUME TableKept, NEW c, Planned(c) PROVE Planned(c)'
BY DEF TableKept, Planned

LEMMA PendingNext ==
  ASSUME CatalogInv, [SiteNext]_siteVars, TableKept
  PROVE  PendingPlanned'
<1>. USE DEF CatalogInv
<1>1. ASSUME PendingKept
      PROVE  PendingPlanned'
  BY <1>1, PlannedKept DEF PendingKept, PendingPlanned, Has, Pending
<1>2. ASSUME NEW w \in Worker, StorefrontStep(w)
      PROVE  PendingPlanned'
  <2>1. redis' = redis
    BY <1>2, StorefrontMoves DEF Beyond
  <2>. QED  BY <2>1, PlannedKept DEF PendingPlanned, Has, Pending
<1>3. ASSUME NEW w \in Worker, CatalogStep(w)
      PROVE  PendingPlanned'
  <2>1. CASE redis' = redis
    BY <2>1, PlannedKept DEF PendingPlanned, Has, Pending
  <2>2. CASE StorePending(w)
    <3>. PICK c : c = [admin |-> Who(w), product |-> Req(w).product, field |-> Req(w).field,
                       to |-> Req(w).to, before |-> job[w].row]
      OBVIOUS
    <3>1. Op(w) = "plan" /\ Req(w).product \in DOMAIN product /\ Req(w) \in Requested
      BY <2>2 DEF StorePending, At, ReadsHeld, ReadHeld, Shape, Shaped, Req
    <3>2. Planned(c)
      BY <3>1, RequestTyped DEF Planned, Op, Req
    <3>3. redis' = Put(redis, Pending(Len(previews')), [val |-> c, ttl |-> PendingTtl])
      BY <2>2 DEF StorePending, SetEx
    <3>4. DOMAIN c = PreviewFields
      BY DEF PreviewFields
    <3>5. ASSUME NEW t, Has(Pending(t))', NEW d, d = redis'[Pending(t)].val
          PROVE  DOMAIN d = PreviewFields /\ Planned(d)
      <4>1. CASE Pending(t) = Pending(Len(previews'))
        BY <3>2, <3>3, <3>4, <3>5, <4>1 DEF Put
      <4>2. CASE Pending(t) # Pending(Len(previews'))
        BY <3>3, <3>5, <4>2 DEF Put, Has, PendingPlanned
      <4>. QED  BY <4>1, <4>2
    <3>6. ASSUME NEW t, Has(Pending(t))', NEW d, d = redis'[Pending(t)].val
          PROVE  DOMAIN d = PreviewFields /\ Planned(d)'
      BY <3>5, <3>6, PlannedKept
    <3>. QED  BY <3>6 DEF PendingPlanned, Planned
  <2>3. ASSUME NEW t, Delete(Pending(t))
        PROVE  PendingPlanned'
    BY <2>3, PlannedKept DEF PendingPlanned, Has, Delete
  <2>4. CASE ClaimPending(w)
    BY <2>1, <2>3, <2>4 DEF ClaimPending
  <2>. QED  BY <1>3, <2>1, <2>2, <2>4 DEF CatalogStep, CommandStep, ProductStep,
            CouponStep, PlanChange, ExecuteChange, RecheckPending, ReadProduct, PatchProduct,
            DelistProduct, SellProduct, ReadCoupon, WriteCoupon
<1>. QED  BY <1>1, <1>2, <1>3, CatalogCases, TickKeeps DEF Quiet

LEMMA ReadHeldKept ==
  ASSUME RowsTyped, TableKept, NEW v, job'[v] = job[v], ReadHeld(v)
  PROVE  ReadHeld(v)'
BY ReadKept, PlannedKept DEF ReadHeld, TableKept, Op, Req

LEMMA ReadsNext ==
  ASSUME CatalogInv, [SiteNext]_siteVars, TableKept
  PROVE  ReadsHeld'
<1>. USE DEF CatalogInv
<1>. SUFFICES ASSUME NEW v \in Worker, job'[v] # None
              PROVE  ReadHeld(v)'
  BY DEF ReadsHeld
<1>1. CASE job'[v] = job[v]
  BY <1>1, ReadHeldKept DEF ReadsHeld
<1>2. ASSUME job'[v].pc \notin CatalogSteps, job'[v].pc # "flush drop"
      PROVE  ReadHeld(v)'
  BY <1>2 DEF CatalogSteps, ReadHeld
<1>3. CASE Quiet
  BY <1>1, <1>2, <1>3 DEF Quiet, Held, StorefrontSteps
<1>4. CASE SiteTick
  BY <1>1, <1>4, TickKeeps
<1>5. ASSUME StorefrontStep(v)
      PROVE  ReadHeld(v)'
  <2>1. job'[v].pc \notin CatalogSteps
    BY <1>5, StorefrontMoves, StepsApart DEF Moves
  <2>2. CASE LoadVariants(v)
    <3>1. /\ product' = product
          /\ job'[v].pc = "flush drop"
          /\ job'[v].row.rows = [p \in Variants(Req(v).parent) |-> product[p]]
      BY <2>2 DEF LoadVariants, At, Shape, Shaped, Fields, storefrontVars
    <3>2. \A p \in Variants(Req(v).parent) : ReadOf(product[p], p)
      BY FreshRead DEF Variants
    <3>. QED  BY <3>1, <3>2 DEF ReadHeld, ReadOf
  <2>3. CASE CreateProduct(v) \/ DropParent(v)
    BY <2>3 DEF CreateProduct, DropParent, End, At, Shape
  <2>. QED  BY <1>2, <1>5, <2>1, <2>2, <2>3, StorefrontCases DEF Moves
<1>6. ASSUME NEW w \in Worker, w # v, StorefrontStep(w) \/ CatalogStep(w)
      PROVE  ReadHeld(v)'
  BY <1>1, <1>6, StorefrontMoves, CatalogMoves DEF Moves
<1>7. CASE CatalogStep(v)
  <2>1. CASE PlanChange(v)
    <3>1. Op(v) = "plan" /\ job'[v].pc = "store" /\ job'[v].req = job[v].req
          /\ Req(v).product \in DOMAIN product /\ product' = product
      BY ZenonT(60), <2>1 DEF PlanChange, At, Shape, Shaped, Fields, Routes, AdminOnly, Op, End, catalogVars
    <3>. QED  BY <3>1 DEF ReadHeld, Op, Req
  <2>2. CASE ClaimPending(v)
    <3>1. PICK t \in DOMAIN previews :
             IF Has(Pending(t)) THEN Claimed(v, t) /\ Delete(Pending(t))
             ELSE End(v) /\ UNCHANGED redis
      BY <2>2 DEF ClaimPending
    <3>2. Has(Pending(t)) /\ redis[Pending(t)].val.admin = Who(v)
      BY <2>2, <3>1 DEF ClaimPending, Claimed, End, Shape, At
    <3>3. job' = [job EXCEPT ![v] = [@ EXCEPT !.pc = "recheck", !.row = redis[Pending(t)].val, !.n = t]]
      BY <3>1, <3>2 DEF Claimed
    <3>4. job'[v].pc = "recheck" /\ job'[v].row = redis[Pending(t)].val
      BY <2>2, <3>3 DEF ClaimPending, Shape, Shaped, Fields, At
    <3>. QED  BY <3>2, <3>4, PlannedKept DEF PendingPlanned, ReadHeld, Planned
  <2>3. CASE RecheckPending(v)
    <3>. DEFINE change == job[v].row
                live == product[change.product]
    <3>1. /\ live[change.field] = change.before
          /\ job' = [job EXCEPT ![v].pc = "execute", ![v].row = Put(change, "read", live)]
          /\ product' = product
          /\ job[v] # None /\ job[v].pc = "recheck"
      BY <2>3 DEF RecheckPending, At, End, Shape, catalogVars
    <3>2. DOMAIN change = PreviewFields /\ Planned(change)
      BY <3>1 DEF ReadsHeld, ReadHeld
    <3>3. job'[v].pc = "execute" /\ job'[v].row = Put(change, "read", live)
      BY <3>1 DEF Shape, Shaped, Fields
    <3>. DEFINE next == Put(change, "read", live)
    <3>4. /\ next.product = change.product /\ next.field = change.field /\ next.to = change.to
          /\ next.before = change.before /\ next.read = live
      BY <3>2 DEF Put, PreviewFields
    <3>5. ReadOf(live, change.product)
      BY <3>2, FreshRead DEF Planned
    <3>. HIDE DEF next
    <3>6. Planned(next) /\ ReadOf(next.read, next.product) /\ next.read[next.field] = next.before
      BY <3>1, <3>2, <3>4, <3>5 DEF Planned
    <3>7. job'[v].row = next
      BY <3>3 DEF next
    <3>. QED  BY <3>1, <3>3, <3>6, <3>7 DEF ReadHeld, Planned, ReadOf
  <2>4. CASE ReadProduct(v)
    <3>1. /\ Req(v).product \in DOMAIN product /\ product' = product
          /\ job'[v].row = product[Req(v).product]
          /\ job'[v].req = job[v].req
          /\ \/ job[v].pc = "patch" /\ job'[v].pc = "flush patch"
             \/ job'[v].pc = "flush delist"
      <4>1. PICK pc :
               /\ job' = [job EXCEPT ![v].pc = pc, ![v].row = product[Req(v).product]]
               /\ \/ job[v].pc = "patch" /\ pc = "flush patch"
                  \/ pc = "flush delist"
        BY <2>4 DEF ReadProduct, End, Shape, Shaped, Fields
      <4>. QED  BY <2>4, <4>1 DEF ReadProduct, End, Shape, Shaped, Fields, catalogVars
    <3>2. ReadOf(product[Req(v).product], Req(v).product)
      BY <3>1, FreshRead
    <3>3. job[v].pc = "patch" => Op(v) = "patch"
      BY <2>4 DEF ReadProduct, Shape, Shaped, Routes, AdminOnly, Op
    <3>. QED  BY <3>1, <3>2, <3>3 DEF ReadHeld, Op, Req, ReadOf
  <2>5. CASE ReadCoupon(v)
    <3>1. job'[v].pc = "write coupon"
      BY <2>5 DEF ReadCoupon, End, At, Shape, Shaped, Fields
    <3>. QED  BY <3>1 DEF ReadHeld
  <2>. QED  BY <1>7, <2>1, <2>2, <2>3, <2>4, <2>5 DEF CatalogStep, CommandStep, ProductStep,
            CouponStep, StorePending, ExecuteChange, PatchProduct, DelistProduct, SellProduct,
            WriteCoupon, End, Shape, At
<1>. QED  BY <1>3, <1>4, <1>5, <1>6, <1>7, CatalogCases

-----------------------------------------------------------------------------
(* The rows, the previews and the reads of the catalogue are as described. *)
LEMMA EntriesInit == SiteInit => Entries
BY DEF SiteInit, Init, Entries

LEMMA CatalogInvInit == SiteInit => CatalogInv
<1>. SUFFICES ASSUME SiteInit PROVE CatalogInv
  OBVIOUS
<1>1. RowsTyped
  <2>1. \A p \in DOMAIN Catalogue : WellFormed(Catalogue[p])
    BY CatalogueAssumption
  <2>. QED  BY <2>1 DEF SiteInit, CatalogInit, RowsTyped, TypedRow, Inserted, Columns, WellFormed, Updatable
<1>2. PendingPlanned
  BY DEF SiteInit, Init, PendingPlanned, Has
<1>3. ReadsHeld
  BY DEF SiteInit, Init, ReadsHeld
<1>. QED  BY <1>1, <1>2, <1>3, ShapeInit, EntriesInit DEF CatalogInv

LEMMA CatalogInvNext == CatalogInv /\ [SiteNext]_siteVars => CatalogInv'
<1>. SUFFICES ASSUME CatalogInv, [SiteNext]_siteVars PROVE CatalogInv'
  OBVIOUS
<1>1. TableKept
  BY TableNext
<1>2. Shape' /\ Entries'
  BY ShapeNext, EntriesNext DEF CatalogInv
<1>. QED  BY <1>1, <1>2, PendingNext, ReadsNext DEF CatalogInv, TableKept

LEMMA CatalogAlways == SiteSpec => []CatalogInv
<1>. QED  BY CatalogInvInit, CatalogInvNext, PTL DEF SiteSpec

(* No update leaves a product that the response model refuses, which would *)
(* fail every page that lists it.                                          *)
THEOREM ProductsReadable == SiteSpec => []CatalogueReadable
<1>. QED  BY CatalogAlways, ReadableInit, ReadableNext, PTL DEF SiteSpec

-----------------------------------------------------------------------------
(* A deletion took off sale what it had read, and what went on sale again  *)
(* did so later.                                                           *)
LEMMA DropsInit == SiteInit => DropsKept
BY DEF SiteInit, StorefrontInit, DropsKept

LEMMA DropsSame ==
  ASSUME RowsTyped, TableKept, DropsKept, NEW read \in dropped, NEW p \in DOMAIN read
  PROVE  /\ p \in DOMAIN product'
         /\ read[p] \in Nat
         /\ read[p] <= product'[p].ver
         /\ product'[p].active => product'[p].on > read[p]
<1>1. /\ p \in DOMAIN product /\ p \in DOMAIN product'
      /\ read[p] \in Nat /\ read[p] <= product[p].ver
      /\ product[p].active => product[p].on > read[p]
      /\ TypedRow(product[p]) /\ TypedRow(product'[p]) /\ Evolved(product[p], product'[p])
  BY DEF DropsKept, TableKept, RowsTyped
<1>. QED  BY ONLY <1>1 DEF TypedRow, Evolved, WellFormed, Updatable, ColumnValues

LEMMA DropsNext == CatalogInv /\ DropsKept /\ [SiteNext]_siteVars => DropsKept'
<1>. SUFFICES ASSUME CatalogInv, DropsKept, [SiteNext]_siteVars PROVE DropsKept'
  OBVIOUS
<1>. USE DEF CatalogInv
<1>0. TableKept
  BY TableNext
<1>1. CASE dropped' = dropped
  BY <1>0, <1>1, DropsSame DEF DropsKept
<1>2. ASSUME NEW w \in Worker, DropParent(w)
      PROVE  DropsKept'
  <2>. DEFINE read == job[w].row.rows
              vers == [p \in DOMAIN read |-> read[p].ver]
  <2>1. ASSUME NEW p \in DOMAIN vers
        PROVE  /\ p \in DOMAIN product'
               /\ vers[p] \in Nat
               /\ vers[p] <= product'[p].ver
               /\ product'[p].active => product'[p].on > vers[p]
    <3>1. ReadOf(read[p], p)
      BY <1>2 DEF DropParent, At, ReadsHeld, ReadHeld
    <3>2. product'[p] = WrittenRow(p, read[p], "active", FALSE)
      BY <1>2, <3>1 DEF DropParent, ReadOf
    <3>. PICK row : row = read[p]
      OBVIOUS
    <3>3. ReadOf(row, p)'
      BY <1>0, <3>1, ReadKept
    <3>4. ~product'[p].active \/ (~row.active /\ product'[p] = product[p])
      <4>1. TypedRow(product[p]) /\ TypedRow(row)
        BY <3>1 DEF ReadOf, RowsTyped
      <4>. QED  BY <3>2, <4>1 DEF WrittenRow, Writes, Changed, TypedRow, WellFormed,
                   Updatable, ColumnValues, Columns
    <3>. QED  BY <3>3, <3>4 DEF ReadOf, TypedRow, Evolved
  <2>. QED  BY <1>0, <1>2, <2>1, DropsSame DEF DropParent, DropsKept
<1>3. ASSUME NEW w \in Worker, StorefrontStep(w)
      PROVE  DropsKept'
  BY <1>1, <1>2, <1>3, StorefrontCases DEF CreateProduct, LoadVariants, storefrontVars
<1>4. ASSUME NEW w \in Worker, UNCHANGED storefrontVars
      PROVE  DropsKept'
  BY <1>1, <1>4 DEF storefrontVars
<1>. QED  BY <1>1, <1>3, <1>4, CatalogCases, TickKeeps DEF Quiet

(* Once a parent is deleted none of its variants is on sale, but for those *)
(* that were added or put on sale after the deletion had read them.        *)
THEOREM DeletedVariantsStayOff == SiteSpec => []DeletedVariantsOff
<1>1. DropsKept => DeletedVariantsOff
  BY DEF DropsKept, DeletedVariantsOff
<1>. QED  BY <1>1, CatalogAlways, DropsInit, DropsNext, PTL DEF SiteSpec

-----------------------------------------------------------------------------
(* A token is in one place.                                                *)
LEMMA TokensInit == SiteInit => TokensOnce
<1>. SUFFICES ASSUME SiteInit PROVE TokensOnce
  OBVIOUS
<1>1. previews = <<>> /\ audit = <<>> /\ redis = [k \in {} |-> None] /\ job = [w \in Worker |-> None]
  BY DEF SiteInit, Init, CatalogInit
<1>. QED  BY <1>1, EmptyIs DEF TokensOnce, Has, Confirming, AppliedOnce

LEMMA TokensFewer ==
  ASSUME TokensOnce, UNCHANGED <<previews, audit>>, PendingKept,
         \A w \in Worker : \A t : Confirming(w, t)' => Confirming(w, t) /\ Who(w)' = Who(w)
  PROVE  TokensOnce'
<1>1. IsSequence(previews)' /\ IsSequence(audit)' /\ AppliedOnce'
      /\ \A i \in DOMAIN audit' : audit'[i].token \in DOMAIN previews'
  BY DEF TokensOnce, AppliedOnce, IsSequence
<1>2. \A t : Audited(t)' <=> Audited(t)
  BY DEF Audited
<1>3. \A t : Has(Pending(t))' => /\ Has(Pending(t))
                                 /\ redis'[Pending(t)].val = redis[Pending(t)].val
  BY DEF PendingKept, Has, Pending
<1>4. ASSUME NEW t, Has(Pending(t))'
      PROVE  /\ t \in DOMAIN previews'
             /\ redis'[Pending(t)].val.admin = previews'[t]
             /\ ~Audited(t)'
             /\ \A w \in Worker : ~Confirming(w, t)'
  BY <1>2, <1>3, <1>4 DEF TokensOnce
<1>5. ASSUME NEW w \in Worker, NEW t, Confirming(w, t)'
      PROVE  /\ t \in DOMAIN previews'
             /\ Who(w)' = previews'[t]
             /\ ~Audited(t)'
             /\ \A v \in Worker : Confirming(v, t)' => v = w
  BY <1>2, <1>5 DEF TokensOnce
<1>. QED  BY ONLY <1>1, <1>4, <1>5 DEF TokensOnce

LEMMA HeldConfirms ==
  ASSUME Held(CatalogSteps), NEW w \in Worker, NEW t, Confirming(w, t)'
  PROVE  Confirming(w, t) /\ Who(w)' = Who(w)
BY DEF Held, Confirming, CatalogSteps, Who

LEMMA ClaimKeepsTokens ==
  ASSUME Shape, TokensOnce, NEW w \in Worker, ClaimPending(w)
  PROVE  TokensOnce'
<1>0. UNCHANGED <<previews, audit>> /\ job[w] # None /\ Shaped(job[w]) /\ DOMAIN job = Worker
  BY DEF ClaimPending, At, catalogVars, Shape
<1>1. PICK t \in DOMAIN previews :
         IF Has(Pending(t)) THEN Claimed(w, t) /\ Delete(Pending(t)) ELSE End(w) /\ UNCHANGED redis
  BY DEF ClaimPending
<1>2. PendingKept
  BY <1>1 DEF PendingKept, Delete
<1>3. CASE End(w) \/ job' = [job EXCEPT ![w] = None]
  <2>1. \A v \in Worker : \A k : Confirming(v, k)' => Confirming(v, k) /\ Who(v)' = Who(v)
    BY <1>0, <1>3 DEF End, Confirming, Who
  <2>. QED  BY <1>0, <1>2, <2>1, TokensFewer
<1>4. ASSUME Has(Pending(t)), redis[Pending(t)].val.admin = Who(w)
      PROVE  TokensOnce'
  <2>1. job' = [job EXCEPT ![w] = [@ EXCEPT !.pc = "recheck", !.row = redis[Pending(t)].val, !.n = t]]
        /\ redis' = [x \in DOMAIN redis \ {Pending(t)} |-> redis[x]]
    BY <1>1, <1>4 DEF Claimed, Delete
  <2>2. job'[w] # None => job'[w].user = job[w].user
    BY <1>0, <2>1 DEF Shaped, Fields
  <2>3. \A v \in Worker : v # w => job'[v] = job[v]
    BY <1>0, <2>1
  <2>4. job'[w].n = t
    BY <1>0, <2>1 DEF Shaped, Fields
  <2>5. \A k : Has(Pending(k))' => /\ Has(Pending(k)) /\ k # t
                                   /\ redis'[Pending(k)] = redis[Pending(k)]
    BY <2>1 DEF Has
  <2>6. \A k : Audited(k)' <=> Audited(k)
    BY <1>0 DEF Audited
  <2>7. /\ t \in DOMAIN previews /\ Who(w) = previews[t] /\ ~Audited(t)
        /\ \A v \in Worker : ~Confirming(v, t)
    BY <1>4 DEF TokensOnce
  <2>8. ASSUME NEW k, Has(Pending(k))'
        PROVE  /\ k \in DOMAIN previews'
               /\ redis'[Pending(k)].val.admin = previews'[k]
               /\ ~Audited(k)'
               /\ \A v \in Worker : ~Confirming(v, k)'
    <3>1. /\ k \in DOMAIN previews /\ redis[Pending(k)].val.admin = previews[k] /\ ~Audited(k)
          /\ \A v \in Worker : ~Confirming(v, k)
      BY <2>5, <2>8 DEF TokensOnce
    <3>2. \A v \in Worker : ~Confirming(v, k)'
      BY <2>3, <2>4, <2>5, <2>8, <3>1 DEF Confirming
    <3>. QED  BY <1>0, <2>5, <2>6, <2>8, <3>1, <3>2
  <2>9. ASSUME NEW v \in Worker, NEW k, Confirming(v, k)'
        PROVE  /\ k \in DOMAIN previews'
               /\ Who(v)' = previews'[k]
               /\ ~Audited(k)'
               /\ \A u \in Worker : Confirming(u, k)' => u = v
    <3>1. CASE v = w
      <4>1. k = t
        BY <2>4, <2>9, <3>1 DEF Confirming
      <4>2. Who(v)' = previews[t]
        BY <2>2, <2>7, <2>9, <3>1 DEF Confirming, Who
      <4>3. \A u \in Worker : Confirming(u, k)' => u = v
        BY <2>3, <2>7, <3>1, <4>1 DEF Confirming
      <4>. QED  BY <1>0, <2>6, <2>7, <4>1, <4>2, <4>3
    <3>2. CASE v # w
      <4>1. Confirming(v, k) /\ Who(v)' = Who(v)
        BY <2>3, <2>9, <3>2 DEF Confirming, Who
      <4>2. k # t
        BY <2>7, <4>1
      <4>3. \A u \in Worker : Confirming(u, k)' => u = v
        BY <2>3, <2>4, <4>1, <4>2 DEF Confirming, TokensOnce
      <4>. QED  BY <1>0, <2>6, <4>1, <4>3 DEF TokensOnce
    <3>. QED  BY <3>1, <3>2
  <2>10. IsSequence(previews)' /\ IsSequence(audit)' /\ AppliedOnce'
         /\ \A i \in DOMAIN audit' : audit'[i].token \in DOMAIN previews'
    BY <1>0 DEF TokensOnce, AppliedOnce, IsSequence
  <2>. QED  BY ONLY <2>8, <2>9, <2>10 DEF TokensOnce
<1>. QED  BY <1>1, <1>3, <1>4 DEF Claimed

LEMMA StoreKeepsTokens ==
  ASSUME Shape, TokensOnce, NEW w \in Worker, StorePending(w)
  PROVE  TokensOnce'
<1>. DEFINE t == Len(previews) + 1
<1>1. /\ previews' = Append(previews, Who(w)) /\ audit' = audit
      /\ job' = [job EXCEPT ![w] = None]
      /\ IsSequence(previews)
  BY DEF StorePending, End, TokensOnce
<1>2. /\ IsSequence(previews)' /\ Len(previews') = t
      /\ DOMAIN previews = 1..Len(previews) /\ DOMAIN previews' = 1..t
      /\ previews'[t] = Who(w)
      /\ \A i \in DOMAIN previews : previews'[i] = previews[i]
  BY <1>1, AppendIs DEF IsSequence
<1>3. t \notin DOMAIN previews /\ DOMAIN previews \subseteq DOMAIN previews' /\ t \in DOMAIN previews'
  BY <1>2 DEF TokensOnce, IsSequence
<1>4. PICK c : c.admin = Who(w) /\ redis' = Put(redis, Pending(t), [val |-> c, ttl |-> PendingTtl])
  BY <1>2 DEF StorePending, SetEx
<1>. HIDE DEF t
<1>5. \A k : Audited(k)' <=> Audited(k)
  BY <1>1 DEF Audited
<1>6. \A v \in Worker : \A k : Confirming(v, k)' => Confirming(v, k) /\ Who(v)' = Who(v)
  BY <1>1 DEF Confirming, Who, Shape
<1>7. ASSUME NEW k, Has(Pending(k))'
      PROVE  /\ k \in DOMAIN previews'
             /\ redis'[Pending(k)].val.admin = previews'[k]
             /\ ~Audited(k)'
             /\ \A v \in Worker : ~Confirming(v, k)'
  <2>1. CASE k = t
    <3>1. redis'[Pending(k)].val.admin = previews'[k]
      BY <1>2, <1>4, <2>1 DEF Put
    <3>2. ~Audited(k)
      BY <1>3, <2>1 DEF TokensOnce, Audited
    <3>3. \A v \in Worker : ~Confirming(v, k)
      BY <1>3, <2>1 DEF TokensOnce
    <3>. QED  BY <1>3, <1>5, <1>6, <2>1, <3>1, <3>2, <3>3
  <2>2. CASE k # t
    <3>1. Pending(k) # Pending(t)
      BY <2>2 DEF Pending
    <3>2. Has(Pending(k)) /\ redis'[Pending(k)] = redis[Pending(k)]
      BY <1>4, <1>7, <3>1 DEF Put, Has
    <3>. QED  BY <1>2, <1>3, <1>5, <1>6, <3>2 DEF TokensOnce
  <2>. QED  BY <2>1, <2>2
<1>8. ASSUME NEW v \in Worker, NEW k, Confirming(v, k)'
      PROVE  /\ k \in DOMAIN previews'
             /\ Who(v)' = previews'[k]
             /\ ~Audited(k)'
             /\ \A u \in Worker : Confirming(u, k)' => u = v
  <2>1. Confirming(v, k) /\ Who(v)' = Who(v)
    BY <1>6, <1>8
  <2>. QED  BY <1>2, <1>3, <1>5, <1>6, <2>1 DEF TokensOnce
<1>9. IsSequence(audit)' /\ \A i \in DOMAIN audit' : audit'[i].token \in DOMAIN previews'
  BY <1>1, <1>3 DEF TokensOnce, IsSequence
<1>10. AppliedOnce'
  BY <1>1, <1>2 DEF AppliedOnce, TokensOnce
<1>. QED  BY ONLY <1>2, <1>7, <1>8, <1>9, <1>10 DEF TokensOnce

LEMMA ExecuteKeepsTokens ==
  ASSUME Shape, TokensOnce, NEW w \in Worker, ExecuteChange(w)
  PROVE  TokensOnce'
<1>1. /\ redis' = redis /\ previews' = previews /\ job' = [job EXCEPT ![w] = None]
      /\ job[w] # None /\ job[w].pc = "execute" /\ DOMAIN job = Worker
  BY DEF ExecuteChange, At, End, Shape
<1>2. \A v \in Worker : \A k : Confirming(v, k)' => Confirming(v, k) /\ Who(v)' = Who(v) /\ v # w
  BY <1>1 DEF Confirming, Who
<1>3. CASE audit' = audit
  BY <1>1, <1>2, <1>3, TokensFewer DEF PendingKept
<1>4. ASSUME NEW entry, entry.token = job[w].n, entry.admin = Who(w), audit' = Append(audit, entry)
      PROVE  TokensOnce'
  <2>. DEFINE t == job[w].n
  <2>1. IsSequence(audit) /\ Confirming(w, t)
    BY <1>1 DEF TokensOnce, Confirming
  <2>2. /\ IsSequence(audit)'
        /\ DOMAIN audit = 1..Len(audit) /\ DOMAIN audit' = 1..(Len(audit) + 1)
        /\ audit'[Len(audit) + 1] = entry
        /\ \A i \in DOMAIN audit : audit'[i] = audit[i]
    BY <1>4, <2>1, AppendIs DEF IsSequence
  <2>3. DOMAIN audit' = DOMAIN audit \cup {Len(audit) + 1} /\ Len(audit) + 1 \notin DOMAIN audit
    BY <2>1, <2>2 DEF IsSequence
  <2>4. t \in DOMAIN previews /\ Who(w) = previews[t] /\ ~Audited(t)
        /\ \A u \in Worker : Confirming(u, t) => u = w
    BY <2>1 DEF TokensOnce
  <2>5. \A k : Audited(k)' => Audited(k) \/ k = t
    BY <1>4, <2>2, <2>3 DEF Audited
  <2>6. ~Has(Pending(t))
    BY <2>1 DEF TokensOnce
  <2>7. ASSUME NEW k, Has(Pending(k))'
        PROVE  /\ k \in DOMAIN previews'
               /\ redis'[Pending(k)].val.admin = previews'[k]
               /\ ~Audited(k)'
               /\ \A v \in Worker : ~Confirming(v, k)'
    <3>1. Has(Pending(k)) /\ k # t
      BY <1>1, <2>6, <2>7 DEF Has
    <3>. QED  BY <1>1, <1>2, <2>5, <3>1 DEF TokensOnce
  <2>8. ASSUME NEW v \in Worker, NEW k, Confirming(v, k)'
        PROVE  /\ k \in DOMAIN previews'
               /\ Who(v)' = previews'[k]
               /\ ~Audited(k)'
               /\ \A u \in Worker : Confirming(u, k)' => u = v
    <3>1. Confirming(v, k) /\ Who(v)' = Who(v) /\ v # w
      BY <1>2, <2>8
    <3>2. k # t
      BY <2>4, <3>1
    <3>. QED  BY <1>1, <1>2, <2>5, <3>1, <3>2 DEF TokensOnce
  <2>9. \A i \in DOMAIN audit' : audit'[i].token \in DOMAIN previews'
    BY <1>1, <1>4, <2>2, <2>3, <2>4 DEF TokensOnce
  <2>10. AppliedOnce'
    <3>1. ASSUME NEW i \in DOMAIN audit', NEW j \in DOMAIN audit', audit'[i].token = audit'[j].token
          PROVE  i = j
      BY <1>4, <2>2, <2>3, <2>4, <3>1 DEF TokensOnce, AppliedOnce, Audited
    <3>2. ASSUME NEW i \in DOMAIN audit'
          PROVE  audit'[i].admin = previews'[audit'[i].token]
      BY <1>1, <1>4, <2>2, <2>3, <2>4 DEF TokensOnce, AppliedOnce
    <3>. QED  BY <3>1, <3>2 DEF AppliedOnce
  <2>. QED  BY ONLY <1>1, <2>2, <2>7, <2>8, <2>9, <2>10, TokensOnce DEF TokensOnce, IsSequence
<1>. QED  BY <1>3, <1>4 DEF ExecuteChange

LEMMA TokensNext == CatalogInv /\ TokensOnce /\ [SiteNext]_siteVars => TokensOnce'
<1>. SUFFICES ASSUME CatalogInv, TokensOnce, [SiteNext]_siteVars PROVE TokensOnce'
  OBVIOUS
<1>. USE DEF CatalogInv
<1>1. CASE Quiet
  BY <1>1, HeldConfirms, TokensFewer DEF Quiet, catalogVars
<1>2. CASE SiteTick
  BY <1>2, TickKeeps, TokensFewer DEF Confirming, Who
<1>3. ASSUME NEW w \in Worker, StorefrontStep(w)
      PROVE  TokensOnce'
  <2>1. Held(CatalogSteps) /\ UNCHANGED <<redis, previews, audit>>
    BY <1>3, StorefrontMoves, MovesHold, StepsApart DEF Beyond
  <2>. QED  BY <2>1, HeldConfirms, TokensFewer DEF PendingKept
<1>4. ASSUME NEW w \in Worker, CatalogStep(w)
      PROVE  TokensOnce'
  <2>1. ASSUME UNCHANGED <<redis, previews, audit>>,
               \A k : Confirming(w, k)' => Confirming(w, k) /\ Who(w)' = Who(w)
        PROVE  TokensOnce'
    <3>1. \A v \in Worker : \A k : Confirming(v, k)' => Confirming(v, k) /\ Who(v)' = Who(v)
      BY <1>4, <2>1, CatalogMoves DEF Moves, Confirming, Who
    <3>. QED  BY <2>1, <3>1, TokensFewer DEF PendingKept
  <2>2. CASE RecheckPending(w)
    <3>1. \A k : Confirming(w, k)' => Confirming(w, k) /\ Who(w)' = Who(w)
      BY <2>2 DEF RecheckPending, At, End, Confirming, Who, Shape, Shaped, Fields
    <3>. QED  BY <2>1, <2>2, <3>1 DEF RecheckPending, catalogVars
  <2>3. ASSUME UNCHANGED <<redis, previews, audit>>,
               job'[w] # None => job'[w].pc \notin {"recheck", "execute"}
        PROVE  TokensOnce'
    BY <2>1, <2>3 DEF Confirming
  <2>4. CASE PlanChange(w) \/ ReadProduct(w) \/ ReadCoupon(w)
    <3>1. \/ job' = [job EXCEPT ![w] = None]
          \/ \E pc \in CatalogSteps \ {"recheck", "execute"} : \E row :
               job' = [job EXCEPT ![w].pc = pc, ![w].row = row]
      BY <2>4 DEF PlanChange, ReadProduct, ReadCoupon, End, CatalogSteps, Shape, Shaped, Fields
    <3>2. job[w] # None /\ UNCHANGED <<redis, previews, audit>>
      BY <2>4 DEF PlanChange, ReadProduct, ReadCoupon, At, catalogVars
    <3>. QED  BY <2>3, <3>1, <3>2 DEF Shape, Shaped, Fields
  <2>5. CASE PatchProduct(w) \/ DelistProduct(w) \/ SellProduct(w) \/ WriteCoupon(w)
    BY <2>3, <2>5 DEF PatchProduct, DelistProduct, SellProduct, WriteCoupon, End, Shape
  <2>. QED  BY <1>4, <2>2, <2>4, <2>5, StoreKeepsTokens, ClaimKeepsTokens, ExecuteKeepsTokens
            DEF CatalogStep, CommandStep, ProductStep, CouponStep
<1>. QED  BY <1>1, <1>2, <1>3, <1>4, CatalogCases

(* A confirmation token changes the catalogue once, for the administrator  *)
(* who asked, however many confirmations race.                             *)
THEOREM ChangesAppliedOnce == SiteSpec => []AppliedOnce
<1>1. TokensOnce => AppliedOnce
  BY DEF TokensOnce
<1>. QED  BY <1>1, CatalogAlways, TokensInit, TokensNext, PTL DEF SiteSpec

-----------------------------------------------------------------------------
(* A confirmed change replaces the value that was approved.                *)
LEMMA OnlyExecuteAudits ==
  ASSUME CatalogInv, [SiteNext]_siteVars
  PROVE  audit' = audit \/ \E w \in Worker : ExecuteChange(w)
<1>1. ASSUME NEW w \in Worker, CatalogStep(w)
      PROVE  audit' = audit \/ ExecuteChange(w)
  BY <1>1 DEF CatalogStep, CommandStep, ProductStep, CouponStep, PlanChange, StorePending,
        ClaimPending, RecheckPending, ReadProduct, PatchProduct, DelistProduct, SellProduct,
        ReadCoupon, WriteCoupon, catalogVars
<1>2. ASSUME NEW w \in Worker, StorefrontStep(w)
      PROVE  audit' = audit
  BY <1>2, StorefrontMoves DEF CatalogInv, Beyond
<1>. QED  BY <1>1, <1>2, CatalogCases, TickKeeps DEF CatalogInv, Quiet, catalogVars

LEMMA ApprovedNext ==
  CatalogInv /\ TokensOnce /\ ApprovedValueReplaced /\ [SiteNext]_siteVars
    => ApprovedValueReplaced'
<1>. SUFFICES ASSUME CatalogInv, TokensOnce, ApprovedValueReplaced, [SiteNext]_siteVars
              PROVE  ApprovedValueReplaced'
  OBVIOUS
<1>1. CASE audit' = audit
  BY <1>1 DEF ApprovedValueReplaced
<1>2. ASSUME NEW w \in Worker, ExecuteChange(w)
      PROVE  ApprovedValueReplaced'
  <2>. DEFINE change == job[w].row
              live == product[change.product]
              entry == [token |-> job[w].n, admin |-> Who(w), before |-> change.before,
                        after |-> change.to, found |-> live[change.field],
                        moved |-> live.ver # change.read.ver]
  <2>1. CASE audit' = Append(audit, entry)
    <3>1. /\ change.field \in Updatable
          /\ Evolved(change.read, live)
          /\ change.read[change.field] = change.before
      BY <1>2 DEF ExecuteChange, At, CatalogInv, ReadsHeld, ReadHeld, Planned, ReadOf
    <3>2. entry.found = entry.before \/ entry.moved
      BY <3>1 DEF Evolved
    <3>. HIDE DEF entry
    <3>. QED  BY <2>1, <3>2, AppendIs DEF TokensOnce, ApprovedValueReplaced
  <2>. QED  BY <1>1, <1>2, <2>1 DEF ExecuteChange
<1>. QED  BY <1>1, <1>2, OnlyExecuteAudits

(* A confirmed change replaces the value the administrator approved; it    *)
(* can only replace another one that was committed after the handler had   *)
(* compared the row.                                                       *)
THEOREM ApprovedReplaced == SiteSpec => []ApprovedValueReplaced
<1>1. SiteInit => ApprovedValueReplaced
  BY DEF SiteInit, CatalogInit, ApprovedValueReplaced
<1>. QED  BY <1>1, CatalogAlways, TokensInit, TokensNext, ApprovedNext, PTL DEF SiteSpec

-----------------------------------------------------------------------------
(* A coupon is valid, or updates overlapped.                               *)
LEMMA CouponInit == SiteInit => CouponsRead
<1>1. ValidCoupon(Promotion)
  BY CatalogueAssumption
<1>. QED  BY <1>1 DEF SiteInit, Init, CatalogInit, CouponsRead, CouponFields, CouponStaysValid,
             ValidCoupon, At

LEMMA CouponSame ==
  ASSUME CouponsRead, coupon' = coupon,
         \A w \in Worker : At(w, "write coupon")' => At(w, "write coupon") /\ job'[w] = job[w]
  PROVE  CouponsRead'
BY DEF CouponsRead, CouponRead, CouponStaysValid, Op, Req

LEMMA CouponNext == CatalogInv /\ CouponsRead /\ [SiteNext]_siteVars => CouponsRead'
<1>. SUFFICES ASSUME CatalogInv, CouponsRead, [SiteNext]_siteVars PROVE CouponsRead'
  OBVIOUS
<1>. USE DEF CatalogInv
<1>0. ASSUME Held(CatalogSteps), coupon' = coupon
      PROVE  CouponsRead'
  BY <1>0, CouponSame DEF Held, At, CatalogSteps
<1>1. CASE Quiet
  BY <1>0, <1>1 DEF Quiet, catalogVars
<1>2. CASE SiteTick
  BY <1>2, TickKeeps, CouponSame DEF At
<1>3. ASSUME NEW w \in Worker, StorefrontStep(w)
      PROVE  CouponsRead'
  BY <1>0, <1>3, StorefrontMoves, MovesHold, StepsApart DEF Beyond
<1>4. ASSUME NEW w \in Worker, CatalogStep(w)
      PROVE  CouponsRead'
  <2>0. /\ job[w] # None /\ Shaped(job[w]) /\ DOMAIN job = Worker
        /\ \A v \in Worker : v # w => job'[v] = job[v]
    BY <1>4, CatalogMoves DEF Moves, Shape
  <2>1. ASSUME coupon' = coupon, job'[w] # None => job'[w].pc # "write coupon"
        PROVE  CouponsRead'
    BY <2>0, <2>1, CouponSame DEF At
  <2>2. CASE ReadCoupon(w)
    <3>1. coupon' = coupon /\ Op(w) = "coupon"
      BY <2>0, <2>2 DEF ReadCoupon, At, Shaped, Routes, AdminOnly, Op, catalogVars
    <3>2. CASE End(w)
      BY <2>0, <2>1, <3>1, <3>2 DEF End
    <3>3. CASE /\ ValidCoupon(Merged(coupon, Req(w).changes))
               /\ job' = [job EXCEPT ![w].pc = "write coupon", ![w].row = coupon]
      <4>1. job'[w].row = coupon /\ job'[w].req = job[w].req
        BY <2>0, <3>3 DEF Shaped, Fields
      <4>2. CouponRead(w)'
        <5>1. ValidCoupon(Merged(job'[w].row, job'[w].req.changes))
          BY <3>3, <4>1 DEF Req
        <5>2. DOMAIN coupon = CouponFields /\ coupon.ver \in Nat
          BY DEF CouponsRead
        <5>. QED  BY <3>1, <4>1, <5>1, <5>2 DEF CouponRead, Op, Req
      <4>3. ASSUME NEW v \in Worker, At(v, "write coupon")'
            PROVE  CouponRead(v)'
        BY <2>0, <3>1, <4>2, <4>3 DEF CouponsRead, CouponRead, Op, Req, At
      <4>. QED  BY <3>1, <4>3 DEF CouponsRead, CouponStaysValid
    <3>. QED  BY <2>2, <3>2, <3>3 DEF ReadCoupon
  <2>3. CASE WriteCoupon(w)
    <3>. DEFINE changes == Req(w).changes
                row == job[w].row
    <3>1. /\ CouponRead(w) /\ job'[w] = None
          /\ coupon' = [Merged(coupon, changes) EXCEPT
                           !.ver = @ + 1, !.moved = @ \/ coupon.ver # row.ver]
      BY <2>0, <2>3 DEF WriteCoupon, At, End, CouponsRead
    <3>2. DOMAIN changes \subseteq {"kind", "value"}
      BY <2>0, <3>1, RequestTyped DEF CouponRead, Shaped, Op, Req
    <3>3. DOMAIN coupon = CouponFields /\ coupon.ver \in Nat /\ CouponStaysValid
      BY DEF CouponsRead
    <3>4. /\ DOMAIN coupon' = CouponFields
          /\ coupon'.ver = coupon.ver + 1
          /\ coupon'.kind = Merged(coupon, changes).kind
          /\ coupon'.value = Merged(coupon, changes).value
          /\ coupon'.moved <=> (coupon.moved \/ coupon.ver # row.ver)
      BY <3>1, <3>2, <3>3 DEF Merged, CouponFields
    <3>5. ASSUME row.ver = coupon.ver
          PROVE  ValidCoupon(coupon')
      <4>1. /\ Merged(coupon, changes).kind = Merged(row, changes).kind
            /\ Merged(coupon, changes).value = Merged(row, changes).value
        BY <3>1, <3>3, <3>5 DEF CouponRead, Merged, CouponFields
      <4>. QED  BY <3>1, <3>4, <4>1 DEF CouponRead, ValidCoupon
    <3>6. CouponStaysValid'
      BY <3>3, <3>4, <3>5 DEF CouponStaysValid
    <3>7. ASSUME NEW v \in Worker, At(v, "write coupon")'
          PROVE  CouponRead(v)'
      <4>1. v # w /\ job'[v] = job[v] /\ CouponRead(v)
        BY <2>0, <3>1, <3>7 DEF At, CouponsRead
      <4>2. job[v].row.ver <= coupon.ver /\ job[v].row.ver \in Nat
        BY <4>1 DEF CouponRead
      <4>3. job[v].row.ver < coupon'.ver
        BY <3>3, <3>4, <4>2
      <4>. QED  BY <3>3, <3>4, <4>1, <4>2, <4>3 DEF CouponRead, Op, Req
    <3>8. coupon'.ver \in Nat
      BY <3>3, <3>4
    <3>. QED  BY ONLY <3>4, <3>6, <3>7, <3>8 DEF CouponsRead
  <2>4. CASE StorePending(w) \/ ExecuteChange(w) \/ PatchProduct(w) \/ DelistProduct(w)
             \/ SellProduct(w)
    BY <2>0, <2>1, <2>4 DEF StorePending, ExecuteChange, PatchProduct, DelistProduct,
                            SellProduct, End
  <2>5. CASE PlanChange(w) \/ RecheckPending(w) \/ ReadProduct(w)
    <3>1. \/ job' = [job EXCEPT ![w] = None]
          \/ \E pc \in CatalogSteps \ {"write coupon"} : \E row :
               job' = [job EXCEPT ![w].pc = pc, ![w].row = row]
      BY <2>0, <2>5 DEF PlanChange, RecheckPending, ReadProduct, End, CatalogSteps, Shaped, Fields
    <3>2. coupon' = coupon
      BY <2>5 DEF PlanChange, RecheckPending, ReadProduct, catalogVars
    <3>. QED  BY <2>0, <2>1, <3>1, <3>2 DEF Shaped, Fields
  <2>6. CASE ClaimPending(w)
    <3>1. coupon' = coupon
      BY <2>6 DEF ClaimPending, catalogVars
    <3>2. PICK t \in DOMAIN previews : Claimed(w, t) \/ End(w)
      BY <2>6 DEF ClaimPending
    <3>3. \/ job' = [job EXCEPT ![w] = None]
          \/ \E row : job' = [job EXCEPT ![w] = [@ EXCEPT !.pc = "recheck", !.row = row, !.n = t]]
      BY <3>2 DEF Claimed, End
    <3>. QED  BY <2>0, <2>1, <3>1, <3>3 DEF Shaped, Fields
  <2>. QED  BY <1>4, <2>2, <2>3, <2>4, <2>5, <2>6 DEF CatalogStep, CommandStep, ProductStep, CouponStep
<1>. QED  BY <1>1, <1>2, <1>3, <1>4, CatalogCases

(* A percentage never exceeds 100, unless two updates, valid one by one,   *)
(* overlapped.                                                             *)
THEOREM CouponsStayValid == SiteSpec => []CouponStaysValid
<1>1. CouponsRead => CouponStaysValid
  BY DEF CouponsRead
<1>. QED  BY <1>1, CatalogAlways, CouponInit, CouponNext, PTL DEF SiteSpec

-----------------------------------------------------------------------------
(* What is shown.  No step but time makes a product be off sale longer.    *)
RowStep(p) ==
    \/ product'[p] = product[p]
    \/ \E field \in Updatable : \E value \in ColumnValues(field) :
         \/ product'[p] = Changed(product[p], field, value)
         \/ product'[p] = [Changed(product[p], field, value) EXCEPT !.sold = TRUE]

TableStep ==
    \A p \in DOMAIN product' :
        \/ p \in DOMAIN product /\ RowStep(p)
        \/ p \notin DOMAIN product /\ \E row : product'[p] = Inserted(row)

LEMMA WrittenSteps ==
  ASSUME NEW p \in DOMAIN product, NEW row, NEW field \in Updatable,
         NEW value \in ColumnValues(field), product'[p] = WrittenRow(p, row, field, value)
  PROVE  RowStep(p)
BY DEF WrittenRow, RowStep

LEMMA OneRowSteps ==
  ASSUME NEW p, NEW row, NEW field \in Updatable, NEW value \in ColumnValues(field),
         product' = [product EXCEPT ![p] = WrittenRow(p, row, field, value)]
  PROVE  TableStep
<1>1. ASSUME NEW q \in DOMAIN product
      PROVE  RowStep(q)
  <2>1. CASE q = p
    BY <2>1, WrittenSteps
  <2>2. CASE q # p
    BY <2>2 DEF RowStep
  <2>. QED  BY <2>1, <2>2
<1>. QED  BY <1>1 DEF TableStep

LEMMA TableSteps ==
  ASSUME CatalogInv, [SiteNext]_siteVars, ~SiteTick
  PROVE  TableStep
<1>. USE DEF CatalogInv
<1>1. CASE product' = product
  BY <1>1 DEF TableStep, RowStep
<1>2. CASE Quiet
  BY <1>1, <1>2 DEF Quiet, catalogVars
<1>3. ASSUME NEW w \in Worker, CreateProduct(w)
      PROVE  TableStep
  <2>1. CASE /\ Req(w).product \notin DOMAIN product
             /\ product' = Put(product, Req(w).product, Inserted(Req(w).row))
    <3>1. ASSUME NEW q \in DOMAIN product
          PROVE  RowStep(q)
      BY <2>1 DEF Put, RowStep
    <3>. QED  BY <2>1, <3>1 DEF TableStep, Put
  <2>. QED  BY <1>1, <1>3, <2>1 DEF CreateProduct
<1>4. "active" \in Updatable /\ FALSE \in ColumnValues("active")
  BY DEF Updatable, ColumnValues
<1>5. ASSUME NEW w \in Worker, DropParent(w)
      PROVE  TableStep
  <2>1. ASSUME NEW q \in DOMAIN product
        PROVE  RowStep(q)
    <3>. DEFINE read == job[w].row.rows
    <3>1. \/ product'[q] = WrittenRow(q, read[q], "active", FALSE)
          \/ product'[q] = product[q]
      BY <1>5 DEF DropParent
    <3>. QED  BY <1>4, <3>1, WrittenSteps DEF RowStep
  <2>. QED  BY <1>5, <2>1 DEF TableStep, DropParent
<1>6. ASSUME NEW w \in Worker, SellProduct(w)
      PROVE  TableStep
  <2>. DEFINE p == Req(w).product
              sold == [Changed(product[p], "stock", product[p].stock - 1) EXCEPT !.sold = TRUE]
  <2>1. CASE product' = [product EXCEPT ![p] = sold]
    <3>1. ASSUME p \in DOMAIN product
          PROVE  "stock" \in Updatable /\ product[p].stock - 1 \in ColumnValues("stock")
      BY <3>1 DEF RowsTyped, TypedRow, WellFormed, Updatable, ColumnValues
    <3>2. ASSUME NEW q \in DOMAIN product
          PROVE  RowStep(q)
      <4>1. CASE q = p
        BY <2>1, <3>1, <4>1 DEF RowStep
      <4>2. CASE q # p
        BY <2>1, <4>2 DEF RowStep
      <4>. QED  BY <4>1, <4>2
    <3>. QED  BY <2>1, <3>2 DEF TableStep
  <2>. QED  BY <1>1, <1>6, <2>1 DEF SellProduct
<1>7. ASSUME NEW w \in Worker, CatalogStep(w)
      PROVE  TableStep
  <2>1. CASE ExecuteChange(w)
    <3>. DEFINE change == job[w].row
    <3>1. change.field \in Updatable /\ change.to \in ColumnValues(change.field)
      BY <2>1 DEF ExecuteChange, At, ReadsHeld, ReadHeld, Planned
    <3>2. CASE product' = [product EXCEPT ![change.product] =
                   WrittenRow(change.product, change.read, change.field, change.to)]
      BY <3>1, <3>2, OneRowSteps
    <3>. QED  BY <1>1, <2>1, <3>2 DEF ExecuteChange
  <2>2. CASE PatchProduct(w)
    <3>1. Req(w).field \in Updatable /\ Req(w).to \in ColumnValues(Req(w).field)
      BY <2>2, RequestTyped DEF PatchProduct, At, ReadsHeld, ReadHeld, Shape, Shaped, Op, Req
    <3>2. CASE product' = [product EXCEPT ![Req(w).product] =
                   WrittenRow(Req(w).product, job[w].row, Req(w).field, Req(w).to)]
      BY <3>1, <3>2, OneRowSteps
    <3>. QED  BY <1>1, <2>2, <3>2 DEF PatchProduct
  <2>3. CASE DelistProduct(w)
    BY <1>4, <2>3, OneRowSteps DEF DelistProduct
  <2>. QED  BY <1>1, <1>6, <1>7, <2>1, <2>2, <2>3 DEF CatalogStep, CommandStep, ProductStep,
            CouponStep, PlanChange, StorePending, ClaimPending, RecheckPending, ReadProduct,
            ReadCoupon, WriteCoupon, catalogVars
<1>8. ASSUME NEW w \in Worker, StorefrontStep(w)
      PROVE  TableStep
  BY <1>1, <1>3, <1>5, <1>8, StorefrontCases DEF LoadVariants, storefrontVars
<1>. QED  BY <1>2, <1>7, <1>8, CatalogCases

Shelf == \A p \in DOMAIN product :
             product[p].since \in Nat /\ (product[p].active => product[p].since = 0)
ShelfStep ==
    /\ Shelf'
    /\ \A p : \A limit \in Nat : OffFor(p, limit) => OffFor(p, limit)'

LEMMA ChangedShelf ==
  ASSUME NEW row, DOMAIN row = Columns, row.since \in Nat, row.active => row.since = 0,
         NEW field \in Updatable, NEW value
  PROVE  LET c == Changed(row, field, value) IN
           /\ DOMAIN c = Columns
           /\ c.since \in Nat
           /\ c.active => c.since = 0
           /\ c.since <= row.since
<1>1. CASE row[field] = value
  BY <1>1 DEF Changed
<1>2. ASSUME row[field] # value, NEW c, c = Changed(row, field, value), field = "active"
      PROVE  DOMAIN c = Columns /\ c.since = 0
  BY <1>2 DEF Changed, Columns
<1>3. ASSUME row[field] # value, NEW c, c = Changed(row, field, value), field # "active"
      PROVE  DOMAIN c = Columns /\ c.since = row.since /\ c.active = row.active
  BY <1>3 DEF Changed, Columns, Updatable
<1>. QED  BY <1>1, <1>2, <1>3

LEMMA ShelfSteps ==
  ASSUME RowsTyped, TableKept, Shelf, TableStep
  PROVE  ShelfStep
<1>1. ASSUME NEW p \in DOMAIN product, RowStep(p)
      PROVE  /\ product'[p].since \in Nat
             /\ product'[p].active => product'[p].since = 0
             /\ product'[p].since <= product[p].since
  <2>. DEFINE row == product[p]
  <2>0. DOMAIN row = Columns /\ row.since \in Nat /\ (row.active => row.since = 0)
    BY DEF RowsTyped, TypedRow, Shelf
  <2>1. ASSUME NEW field \in Updatable, NEW value \in ColumnValues(field), NEW c,
               c = Changed(row, field, value)
        PROVE  /\ DOMAIN c = Columns
               /\ c.since \in Nat
               /\ c.active => c.since = 0
               /\ c.since <= row.since
    BY ONLY <2>0, <2>1, ChangedShelf
  <2>2. CASE product'[p] = row
    BY <2>0, <2>2
  <2>3. ASSUME NEW field \in Updatable, NEW value \in ColumnValues(field), NEW c,
               c = Changed(row, field, value),
               product'[p] = c \/ product'[p] = [c EXCEPT !.sold = TRUE]
        PROVE  /\ product'[p].since \in Nat
               /\ product'[p].active => product'[p].since = 0
               /\ product'[p].since <= row.since
    BY <2>1, <2>3 DEF Columns
  <2>. QED  BY <1>1, <2>2, <2>3 DEF RowStep
<1>2. Shelf'
  BY <1>1 DEF TableStep, Inserted, Shelf
<1>3. ASSUME NEW p, NEW limit \in Nat, OffFor(p, limit)
      PROVE  OffFor(p, limit)'
  <2>1. p \in DOMAIN product' /\ RowStep(p) /\ p \in DOMAIN product
    BY <1>3 DEF TableKept, TableStep, OffFor
  <2>2. product'[p].since <= product[p].since /\ product'[p].since \in Nat /\ product[p].since \in Nat
    BY <1>1, <2>1 DEF Shelf
  <2>. QED  BY <1>3, <2>1, <2>2 DEF OffFor
<1>. QED  BY <1>2, <1>3 DEF ShelfStep

(* A step of the storefront shows what it may, and reads what is on sale.  *)
Ready(w) ==
    job'[w] # None =>
        /\ job'[w].pc \in Gathering => Op(w) \in Shopping
        /\ \A p \in Gathered(w)' : OffFor(p, waited'[w])

LEMMA ShownKept ==
  ASSUME ShelfKept, NEW items, NEW allowed \in Nat, Show(items, allowed),
         \A p \in items : OffFor(p, allowed)
  PROVE  OffSaleNotShown'
BY DEF ShelfKept, OffSaleNotShown, Show, OffFor

LEMMA GatheredReady ==
  ASSUME Shape, NEW w \in Worker, job[w] # None, NEW rows, NEW pc, Gather(w, rows, pc),
         pc \in Gathering => Op(w) \in Shopping,
         pc \in {"card parents", "best keep", "reorder line"} =>
             \A p \in rows : OffFor(p, waited'[w]),
         pc = "card variants" => \A p \in rows.gas : OffFor(p, waited'[w])
  PROVE  Ready(w) /\ UNCHANGED <<shown, best, product>>
<1>1. job'[w].pc = pc /\ job'[w].row = rows
  BY DEF Gather, Shape, Shaped, Fields
<1>. QED  BY <1>1 DEF Ready, Gathered, Gather, Customer

LEMMA StorefrontShows ==
  ASSUME Shape, ShelfKept, NEW w \in Worker, StorefrontStep(w)
  PROVE  /\ OffSaleNotShown'
         /\ waited' \in {waited, [waited EXCEPT ![w] = 0]}
         /\ Ready(w)
         /\ best' = best \/ BestKept(best')
<1>. DEFINE Goal == /\ OffSaleNotShown'
                    /\ waited' \in {waited, [waited EXCEPT ![w] = 0]}
                    /\ Ready(w)
                    /\ best' = best \/ BestKept(best')
<1>0. /\ job[w] # None /\ Shaped(job[w]) /\ DOMAIN job = Worker
      /\ waited \in [Worker -> Nat]
      /\ job[w].pc \in Gathering => Op(w) \in Shopping
      /\ \A p \in Gathered(w) : OffFor(p, waited[w])
      /\ Op(w) \in Routes /\ (job[w].pc \in Routes => job[w].pc = Op(w))
  BY StorefrontMoves, RequestedRouted DEF Moves, Shape, Shaped, ShelfKept, Op
<1>1. \A p \in OnSale : \A limit \in Nat : OffFor(p, limit)
  BY DEF ShelfKept, OnSale, OffFor
<1>2. ASSUME shown' = shown
      PROVE  OffSaleNotShown'
  BY <1>2 DEF ShelfKept, OffSaleNotShown
<1>3. ASSUME End(w)
      PROVE  Ready(w)
  BY <1>0, <1>3 DEF End, Ready
<1>4. ASSUME Entered(w)
      PROVE  waited'[w] = 0 /\ waited' = [waited EXCEPT ![w] = 0]
  BY <1>0, <1>4 DEF Entered
<1>. USE DEF Customer, At
<1>5. CASE Browse(w) \/ ListSaved(w)
  <2>1. PICK items \in SUBSET OnSale : Show(items, 0)
    BY <1>5 DEF Browse, ListSaved
  <2>2. OffSaleNotShown'
    BY <1>1, <2>1, ShownKept
  <2>. QED  BY <1>3, <1>4, <1>5, <2>2 DEF Browse, ListSaved
<1>6. ASSUME NEW items, ShowAndEnd(w, items), \A p \in items : OffFor(p, waited[w])
      PROVE  Goal
  BY <1>0, <1>3, <1>6, ShownKept DEF ShowAndEnd
<1>7. CASE GasCards(w)
  <2>. DEFINE gas == {p \in OnSale : product[p].category = "gas"}
  <2>1. CASE Gather(w, gas, "card parents")
    <3>1. Op(w) \in Shopping
      BY <1>0, <1>7 DEF GasCards, Routes, Sessionless, Shopping
    <3>2. Ready(w) /\ UNCHANGED <<shown, best, product>>
      BY <1>0, <1>1, <1>4, <1>7, <2>1, <3>1, GatheredReady DEF GasCards
    <3>. QED  BY <1>2, <1>4, <1>7, <3>2 DEF GasCards
  <2>2. CASE Show(gas, 0) /\ End(w) /\ UNCHANGED <<saved, best, Customer>>
    <3>1. OffSaleNotShown'
      BY <1>1, <2>2, ShownKept
    <3>. QED  BY <1>3, <1>4, <1>7, <2>2, <3>1 DEF GasCards
  <2>. QED  BY <1>7, <2>1, <2>2 DEF GasCards
<1>8. CASE CardParents(w)
  <2>. DEFINE rows == [gas |-> job[w].row, parents |-> {q \in DOMAIN parent : parent[q]}]
  <2>1. Gather(w, rows, "card variants") /\ waited' = waited /\ job[w].pc = "card parents"
    BY <1>8 DEF CardParents
  <2>2. \A p \in rows.gas : OffFor(p, waited'[w])
    BY <1>0, <2>1 DEF Gathered
  <2>3. Op(w) \in Shopping
    BY <1>0, <2>1 DEF Gathering
  <2>. HIDE DEF rows
  <2>4. Ready(w) /\ UNCHANGED <<shown, best, product>>
    BY <1>0, <2>1, <2>2, <2>3, GatheredReady
  <2>. QED  BY <1>2, <2>1, <2>4
<1>9. CASE CardVariants(w)
  <2>1. \A p \in job[w].row.gas : OffFor(p, waited[w])
    BY <1>0, <1>9 DEF CardVariants, Gathered
  <2>. DEFINE items == job[w].row.gas \cup UNION {Variants(q) \cap OnSale : q \in job[w].row.parents}
  <2>2. \A p \in items : OffFor(p, waited[w])
    BY <1>0, <1>1, <2>1
  <2>. HIDE DEF items
  <2>3. ShowAndEnd(w, items)
    BY <1>9 DEF CardVariants, items
  <2>. QED  BY <1>6, <2>2, <2>3
<1>10. CASE ParentVariants(w) \/ Recommend(w)
  <2>1. PICK items \in SUBSET OnSale : ShowAndEnd(w, items)
    BY <1>10 DEF ParentVariants, Recommend
  <2>. QED  BY <1>0, <1>1, <1>6, <2>1
<1>11. ASSUME NEW rows, NEW pc \in {"page variants", "candidates"}, Gather(w, rows, pc), Entered(w)
       PROVE  Goal
  <2>1. Ready(w) /\ UNCHANGED <<shown, best, product>>
    BY <1>0, <1>11, GatheredReady DEF Gathering
  <2>. QED  BY <1>2, <1>4, <1>11, <2>1
<1>12. ASSUME End(w), Entered(w), UNCHANGED <<shown, best>>
       PROVE  Goal
  BY <1>2, <1>3, <1>4, <1>12
<1>13. CASE OpenParent(w) \/ ViewProduct(w)
  BY <1>11, <1>12, <1>13 DEF OpenParent, ViewProduct
<1>14. ASSUME UNCHANGED <<waited, shown, best>>, Ready(w)
       PROVE  Goal
  BY <1>2, <1>14
<1>15. CASE InsertSaved(w) \/ Unsave(w) \/ CreateProduct(w) \/ CreateParent(w) \/ PatchParent(w)
            \/ DropParent(w)
  BY <1>3, <1>14, <1>15 DEF InsertSaved, Unsave, CreateProduct, CreateParent, PatchParent,
                           DropParent, storefrontVars
<1>16. CASE CheckSaved(w) \/ LoadParent(w) \/ LoadVariants(w)
  <2>1. job'[w] # None => job'[w].pc \in {"insert saved", "flush parent", "load variants", "flush drop"}
    BY <1>0, <1>16 DEF CheckSaved, LoadParent, LoadVariants, Goto, End, Shaped, Fields
  <2>2. Ready(w)
    BY <2>1 DEF Ready, Gathered, Gathering
  <2>. QED  BY <1>14, <1>16, <2>2 DEF CheckSaved, LoadParent, LoadVariants, storefrontVars
<1>17. CASE CachedBest(w)
  <2>1. CASE Gather(w, None, "best query")
    <3>1. Op(w) \in Shopping
      BY <1>0, <1>17 DEF CachedBest, Routes, Sessionless, Shopping
    <3>2. Ready(w) /\ UNCHANGED <<shown, best, product>>
      BY <1>0, <2>1, <3>1, GatheredReady
    <3>. QED  BY <1>2, <1>4, <1>17, <3>2 DEF CachedBest
  <2>2. CASE /\ best # None /\ best.age < BestTtl
             /\ Show(best.items, BestTtl - 1) /\ End(w)
             /\ UNCHANGED <<saved, best, Customer>>
    <3>1. BestTtl - 1 \in Nat /\ \A p \in best.items : OffFor(p, BestTtl - 1)
      BY <2>2, LifetimeCounted DEF ShelfKept, BestKept, OffFor, Shelf
    <3>2. OffSaleNotShown'
      BY <2>2, <3>1, ShownKept
    <3>. QED  BY <1>3, <1>4, <1>17, <2>2, <3>2 DEF CachedBest
  <2>. QED  BY <1>17, <2>1, <2>2 DEF CachedBest
<1>18. CASE QueryBest(w)
  <2>. DEFINE rows == {p \in OnSale : product[p].sold}
  <2>1. Gather(w, rows, "best keep") /\ waited' = waited /\ job[w].pc = "best query"
    BY <1>18 DEF QueryBest
  <2>2. \A p \in rows : OffFor(p, waited'[w])
    BY <1>0, <1>1, <2>1
  <2>3. Op(w) \in Shopping
    BY <1>0, <2>1 DEF Gathering
  <2>. HIDE DEF rows
  <2>4. Ready(w) /\ UNCHANGED <<shown, best, product>>
    BY <1>0, <2>1, <2>2, <2>3, GatheredReady
  <2>. QED  BY <1>2, <2>1, <2>4
<1>19. CASE KeepBest(w)
  <2>1. \A p \in job[w].row : OffFor(p, waited[w])
    BY <1>0, <1>19 DEF KeepBest, Gathered
  <2>2. OffSaleNotShown'
    BY <1>0, <1>19, <2>1, ShownKept DEF KeepBest
  <2>. QED  BY <1>0, <1>3, <1>19, <2>1, <2>2 DEF KeepBest, BestKept
<1>20. CASE OpenOrder(w)
  <2>1. CASE Gather(w, {}, "reorder line")
    <3>1. Op(w) \in Shopping
      BY <1>0, <1>20 DEF OpenOrder, Routes, Shopping
    <3>2. Ready(w) /\ UNCHANGED <<shown, best, product>>
      BY <1>0, <2>1, <3>1, GatheredReady
    <3>. QED  BY <1>2, <1>4, <1>20, <3>2 DEF OpenOrder
  <2>. QED  BY <1>12, <1>20, <2>1 DEF OpenOrder
<1>21. CASE ReorderLine(w)
  <2>. DEFINE p == PastOrder.lines[job[w].n + 1]
  <2>1. /\ job[w].pc = "reorder line"
        /\ UNCHANGED <<waited, shown, best>>
        /\ job'[w].pc = "reorder line"
        /\ job'[w].row \in {job[w].row, job[w].row \cup {p}}
        /\ job'[w].row # job[w].row => p \in OnSale
    BY <1>0, <1>21 DEF ReorderLine, Shaped, Fields, storefrontVars
  <2>2. \A q \in job[w].row : OffFor(q, waited[w])
    BY <1>0, <2>1 DEF Gathered
  <2>3. Ready(w)
    BY <1>0, <1>1, <2>1, <2>2 DEF Ready, Gathered, Gathering
  <2>. QED  BY <1>14, <2>1, <2>3
<1>22. CASE RebuiltCart(w)
  <2>1. \A p \in job[w].row : OffFor(p, waited[w])
    BY <1>0, <1>22 DEF RebuiltCart, Gathered
  <2>. QED  BY <1>6, <1>22, <2>1 DEF RebuiltCart
<1>. QED  BY <1>5, <1>7, <1>8, <1>9, <1>10, <1>13, <1>15, <1>16, <1>17, <1>18, <1>19, <1>20,
             <1>21, <1>22
          DEF StorefrontStep, PageStep, RecommendStep, ParentStep, WishlistStep,
              BestSellerStep, ReorderStep

LEMMA ShelfInit == SiteInit => ShelfKept
BY DEF SiteInit, Init, CatalogInit, StorefrontInit, ShelfKept, Inserted, OffSaleNotShown

LEMMA GatheredKept ==
  ASSUME ShelfKept, NEW v \in Worker, job'[v] # None, waited' = waited,
         \A p : \A limit \in Nat : OffFor(p, limit) => OffFor(p, limit)',
         job'[v].pc \in StorefrontSteps => job[v] # None /\ job'[v] = job[v]
  PROVE  /\ job'[v].pc \in Gathering => Op(v)' \in Shopping
         /\ \A p \in Gathered(v)' : OffFor(p, waited[v])'
<1>. USE DEF Gathering, StorefrontSteps
<1>1. CASE job'[v].pc \in StorefrontSteps
  <2>1. Gathered(v)' = Gathered(v) /\ Op(v)' = Op(v)
    BY <1>1 DEF Gathered, Op
  <2>. QED  BY <1>1, <2>1 DEF ShelfKept
<1>2. CASE job'[v].pc \notin StorefrontSteps
  BY <1>2 DEF Gathered
<1>. QED  BY <1>1, <1>2

LEMMA BestStep ==
  ASSUME ShelfStep, BestKept(best')
  PROVE  BestKept(best)'
<1>1. ASSUME NEW age \in Nat, age = best'.age, NEW p \in best'.items, OffFor(p, age)
      PROVE  OffFor(p, age)'
  BY <1>1 DEF ShelfStep
<1>. QED  BY <1>1 DEF BestKept, OffFor

LEMMA ShelfNext == CatalogInv /\ ShelfKept /\ [SiteNext]_siteVars => ShelfKept'
<1>. SUFFICES ASSUME CatalogInv, ShelfKept, [SiteNext]_siteVars PROVE ShelfKept'
  OBVIOUS
<1>. USE DEF CatalogInv
<1>1. ASSUME ~SiteTick
      PROVE  ShelfStep
  <2>1. Shelf
    BY DEF ShelfKept, Shelf
  <2>. QED  BY <1>1, <2>1, TableNext, TableSteps, ShelfSteps
<1>2. ASSUME ~SiteTick, Held(StorefrontSteps), UNCHANGED <<waited, shown>>, best' \in {best, None}
      PROVE  ShelfKept'
  <2>1. ASSUME NEW v \in Worker, job'[v] # None
        PROVE  /\ job'[v].pc \in Gathering => Op(v)' \in Shopping
               /\ \A p \in Gathered(v)' : OffFor(p, waited[v])'
    BY <1>1, <1>2, <2>1, GatheredKept DEF ShelfStep, Held
  <2>2. best' # None => BestKept(best')
    BY <1>2 DEF ShelfKept
  <2>3. best' # None => BestKept(best)'
    BY <1>1, <1>2, <2>2, BestStep
  <2>4. OffSaleNotShown' /\ waited' \in [Worker -> Nat]
    BY <1>2 DEF ShelfKept, OffSaleNotShown
  <2>. QED  BY <1>1, <1>2, <2>1, <2>3, <2>4 DEF ShelfKept, ShelfStep, Shelf
<1>3. ASSUME ~SiteTick, Quiet
      PROVE  ShelfKept'
  BY <1>2, <1>3 DEF Quiet
<1>4. ASSUME ~SiteTick, NEW w \in Worker, CatalogStep(w), UNCHANGED storefrontVars
      PROVE  ShelfKept'
  BY <1>2, <1>4, CatalogMoves, MovesHold, StepsApart DEF storefrontVars
<1>5. ASSUME ~SiteTick, NEW w \in Worker, StorefrontStep(w)
      PROVE  ShelfKept'
  <2>1. /\ OffSaleNotShown'
        /\ waited' \in {waited, [waited EXCEPT ![w] = 0]}
        /\ Ready(w)
        /\ best' = best \/ BestKept(best')
    BY <1>5, StorefrontShows
  <2>2. Moves(w, StorefrontSteps)
    BY <1>5, StorefrontMoves
  <2>3. waited' \in [Worker -> Nat] /\ \A v \in Worker : v # w => waited'[v] = waited[v]
    BY <2>1 DEF ShelfKept
  <2>4. ASSUME NEW v \in Worker, job'[v] # None
        PROVE  /\ job'[v].pc \in Gathering => Op(v)' \in Shopping
               /\ \A p \in Gathered(v)' : OffFor(p, waited[v])'
    <3>1. CASE v = w
      <4>1. Op(v)' = Op(v)
        BY <2>2, <2>4, <3>1 DEF Moves, Op
      <4>2. PICK limit \in Nat : limit = waited'[w]
        BY <2>3
      <4>3. \A p \in Gathered(w)' : OffFor(p, limit)
        BY <2>1, <2>4, <3>1, <4>2 DEF Ready
      <4>4. \A p \in Gathered(w)' : OffFor(p, limit)'
        BY <1>1, <1>5, <4>3 DEF ShelfStep
      <4>. QED  BY <2>1, <2>4, <3>1, <4>1, <4>2, <4>4 DEF Ready, OffFor
    <3>2. CASE v # w
      <4>1. job'[v] = job[v]
        BY <2>2, <3>2 DEF Moves
      <4>2. PICK limit \in Nat : limit = waited[v]
        BY DEF ShelfKept
      <4>3. \A p \in Gathered(v)' : OffFor(p, limit)'
        BY <1>1, <1>5, <2>4, <4>1, <4>2 DEF ShelfKept, ShelfStep, Gathered
      <4>. QED  BY <2>3, <2>4, <3>2, <4>1, <4>2, <4>3 DEF ShelfKept, Op, OffFor
    <3>. QED  BY <3>1, <3>2
  <2>5. best' # None => BestKept(best)'
    BY <1>1, <1>5, <2>1, BestStep DEF ShelfKept
  <2>. QED  BY <1>1, <1>5, <2>1, <2>3, <2>4, <2>5 DEF ShelfKept, ShelfStep, Shelf
<1>6. CASE SiteTick
  <2>1. /\ job' = job /\ shown' = shown
        /\ best' = IF best = None THEN None ELSE [best EXCEPT !.age = @ + 1]
        /\ waited' = [w \in Worker |->
             IF job[w] # None /\ Op(w) \in Shopping THEN waited[w] + 1 ELSE waited[w]]
        /\ product' = [p \in DOMAIN product |->
             IF product[p].active THEN product[p] ELSE [product[p] EXCEPT !.since = @ + 1]]
    BY <1>6 DEF SiteTick, Tick, AgeStorefront
  <2>2. ASSUME NEW p \in DOMAIN product
        PROVE  /\ product'[p].since \in Nat
               /\ product'[p].active => product'[p].since = 0
               /\ product'[p].since <= product[p].since + 1
    <3>1. DOMAIN product[p] = Columns /\ product[p].since \in Nat
          /\ (product[p].active => product[p].since = 0)
      BY DEF RowsTyped, TypedRow, ShelfKept
    <3>2. CASE product[p].active
      BY <2>1, <3>1, <3>2
    <3>3. CASE ~product[p].active
      BY <2>1, <3>1, <3>3 DEF Columns
    <3>. QED  BY <3>2, <3>3
  <2>3. ASSUME NEW p, NEW limit \in Nat, OffFor(p, limit)
        PROVE  OffFor(p, limit + 1)'
    BY <2>1, <2>2, <2>3 DEF OffFor, ShelfKept
  <2>4. waited' \in [Worker -> Nat]
    BY <2>1 DEF ShelfKept
  <2>5. ASSUME NEW v \in Worker, job'[v] # None
        PROVE  /\ job'[v].pc \in Gathering => Op(v)' \in Shopping
               /\ \A p \in Gathered(v)' : OffFor(p, waited[v])'
    <3>1. Gathered(v)' = Gathered(v) /\ Op(v)' = Op(v)
      BY <2>1 DEF Gathered, Op
    <3>2. ASSUME NEW p \in Gathered(v)
          PROVE  OffFor(p, waited[v])'
      <4>1. Op(v) \in Shopping
        BY <2>1, <2>5 DEF Gathered, Gathering, ShelfKept
      <4>2. PICK limit \in Nat : limit = waited[v]
        BY DEF ShelfKept
      <4>3. waited'[v] = limit + 1
        BY <2>1, <2>5, <4>1, <4>2
      <4>4. OffFor(p, limit)
        BY <2>1, <2>5, <3>2, <4>2 DEF ShelfKept
      <4>5. OffFor(p, limit + 1)'
        BY <2>3, <4>4
      <4>. QED  BY <4>3, <4>5 DEF OffFor
    <3>. QED  BY <2>1, <2>5, <3>1, <3>2 DEF ShelfKept
  <2>6. ASSUME best' # None
        PROVE  BestKept(best)'
    <3>1. best' = [best EXCEPT !.age = @ + 1] /\ BestKept(best)
      BY <2>1, <2>6 DEF ShelfKept
    <3>2. DOMAIN best' = {"items", "age"} /\ best'.age = best.age + 1 /\ best'.items = best.items
      BY <3>1 DEF BestKept
    <3>. QED  BY <2>3, <3>1, <3>2 DEF BestKept, OffFor
  <2>. QED  BY <2>1, <2>2, <2>4, <2>5, <2>6 DEF ShelfKept, OffSaleNotShown
<1>. QED  BY <1>3, <1>4, <1>5, <1>6, CatalogCases

(* No customer is shown a product that was off sale before the request     *)
(* began; a best seller may have been for less than the life of the cache. *)
THEOREM OnlyOnSaleShown == SiteSpec => []OffSaleNotShown
<1>1. ShelfKept => OffSaleNotShown
  BY DEF ShelfKept
<1>. QED  BY <1>1, CatalogAlways, ShelfInit, ShelfNext, PTL DEF SiteSpec

=============================================================================
