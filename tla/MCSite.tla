------------------------------- MODULE MCSite -------------------------------
(***************************************************************************)
(* An instance of Site for TLC: the requests that touch the same account,  *)
(* token, product, address or document, spread over two workers.           *)
(***************************************************************************)
EXTENDS Site, TLC

CONSTANTS w1, w2, ann, boss, new, none

Row(p, e, r) == [phone |-> p, email |-> e, pass |-> "old", role |-> r,
                 active |-> TRUE, verified |-> FALSE]
TwoAdmins == ann :> Row("090", "ann@", "admin") @@ boss :> Row("091", none, "admin")

Ask(op, u) == [op |-> op, user |-> u]
Login(id, pass) == [op |-> "login", user |-> none, id |-> id, pass |-> pass]
Change(u) == [op |-> "change", user |-> u, old |-> "old", pass |-> "new"]
Reset(u, pass) == [op |-> "reset", user |-> u, pass |-> pass]
Phone(u, p) == [op |-> "profile", user |-> u, phone |-> p, email |-> none]
Register(u, p) == [op |-> "register", user |-> u, phone |-> p, email |-> "ann@", pass |-> "old"]
Admin(op, u, target, to) == [op |-> op, user |-> u, target |-> target, to |-> to]

Over(a, b) == w1 :> a @@ w2 :> b

Sessions == {Over(<<Ask("refresh", ann), Ask("logout", ann)>>, <<Ask("refresh", ann), Change(ann)>>)}
Logins == {Over(<<Login("090", "bad"), Login("090", "bad")>>,
                <<Login("090", "bad"), Login("090", "bad"), Login("090", "old")>>),
           Over(<<Login("090", "bad"), Login("090", "bad"), Login("090", "bad")>>,
                <<Login("090", "bad"), Login("ann@", "bad")>>)}
Links == {Over(<<Ask("forgot", ann), Reset(ann, "r1")>>, <<Reset(ann, "r2"), Login("090", "r1")>>)}
Codes == {Over(<<Ask("askcode", ann), Ask("enter", ann), Ask("askcode", ann)>>,
               <<Ask("askcode", ann), Ask("enter", ann)>>)}
Phones == {Over(<<Phone(ann, "092")>>, <<Phone(boss, "092"), Register(new, "090")>>),
           Over(<<Register(new, "093"), Phone(boss, "091")>>, <<Phone(ann, "093")>>)}
Staffing == {Over(<<Admin("status", ann, boss, FALSE), Admin("role", ann, boss, "staff")>>,
                  <<Admin("role", boss, ann, "staff"), Admin("status", boss, ann, FALSE)>>)}

(* A gas bottle and a bottle of water, which has a parent; a percentage    *)
(* coupon.                                                                 *)
Gas   == [category |-> "gas", parent |-> none, price |-> 3, sale |-> 0,
          stock |-> 1, active |-> TRUE, sold |-> FALSE]
Water == [Gas EXCEPT !.category = "nuoc_uong", !.parent = "lavie", !.price = 9, !.sold = TRUE]
Goods == "gas" :> Gas @@ "water" :> Water
Percent == [kind |-> "percent", value |-> 50]

Of(op, u, p) == [op |-> op, user |-> u, product |-> p]
PlanFor(u, p, field, to) == Of("plan", u, p) @@ [field |-> field, to |-> to]
EditOf(p, field, to) == Of("patch", boss, p) @@ [field |-> field, to |-> to]
Plan(u, field, to) == PlanFor(u, "gas", field, to)
Patch(field, to) == EditOf("gas", field, to)
Delist(p) == Of("delist", boss, p)
Sell(p) == Of("sell", none, p)
Coupon(changes) == [op |-> "coupon", user |-> boss, changes |-> changes]

Commands == {Over(<<Plan(ann, "stock", 5), Ask("confirm", ann)>>, <<Sell("gas"), Ask("confirm", ann)>>),
             Over(<<Plan(ann, "price", 4), Ask("confirm", ann)>>,
                  <<Ask("confirm", boss), Patch("price", 2)>>),
             Over(<<Plan(ann, "price", 0), Plan(ann, "active", FALSE), Ask("confirm", ann)>>, <<Delist("gas")>>),
             Over(<<Plan(ann, "price", 4), Ask("confirm", ann)>>,
                  <<Admin("role", boss, ann, "staff")>>),
             Over(<<PlanFor(ann, "water", "price", 4), Ask("confirm", ann)>>,
                  <<EditOf("water", "sale", 5)>>)}
Coupons == {Over(<<Coupon([value |-> 150])>>, <<Coupon([kind |-> "fixed"]), Coupon([kind |-> "percent"])>>)}

(* The storefront.                                                         *)
Cards(category) == [op |-> "cards", user |-> none, category |-> category]
Group(op, u, q) == [op |-> op, user |-> u, parent |-> q]
SetParent(q, to) == Group("patch parent", boss, q) @@ [to |-> to]
New(p, row) == Of("new product", boss, p) @@ [row |-> row]
Earlier == [user |-> ann, lines |-> <<"gas", "water">>]
Shop == {Over(<<Ask("best", none), Ask("best", none)>>, <<Delist("water"), Ask("browse", none)>>),
         Over(<<EditOf("water", "price", 4)>>, <<EditOf("water", "sale", 5)>>),
         Over(<<Group("drop parent", boss, "lavie"), Cards("all")>>,
              <<EditOf("water", "price", 8), New("big", Water)>>),
         Over(<<Group("drop parent", boss, "lavie")>>,
              <<EditOf("water", "active", FALSE), EditOf("water", "active", TRUE),
                Group("page", none, "lavie")>>),
         Over(<<Of("save", ann, "water"), Ask("saved", ann), Of("unsave", ann, "water")>>,
              <<Delist("water"), Of("recommend", none, "water")>>),
         Over(<<Ask("reorder", ann), Ask("reorder", boss)>>, <<Sell("gas"), Sell("gas"), Delist("water")>>),
         Over(<<SetParent("lavie", FALSE), Group("new parent", boss, "b"), New("gas", Gas)>>,
              <<Cards("all"), Group("page", none, "lavie"), Cards("gas")>>)}

Subscribe == [op |-> "subscribe", user |-> none, email |-> "x@"]
Alerts == {Over(<<Subscribe, Ask("confirm alert", none)>>,
                <<Subscribe, Ask("unsubscribe", none), Subscribe>>),
           Over(<<Subscribe, Ask("confirm alert", none), Ask("notify", boss)>>,
                <<Patch("price", 2), Ask("notify", boss)>>)}

Approve(u, fixed) == [op |-> "approve", user |-> u, fixed |-> fixed]
NewDoc == [op |-> "new doc", user |-> boss, title |-> "a", content |-> "b"]
Edit(field, to) == [op |-> "edit doc", user |-> boss, doc |-> 1, field |-> field, to |-> to]
Import == [op |-> "import", user |-> boss, texts |-> <<"c", "d">>]
Drop == [op |-> "drop doc", user |-> boss, doc |-> 1]
Reviews == {Over(<<Approve(ann, "better"), Ask("learn", ann)>>, <<Ask("vote", none), Ask("reject", boss)>>),
            Over(<<Ask("learn", ann), Ask("vote", none)>>, <<Approve(boss, "better"), Ask("vote", none)>>)}
Library == {Over(<<NewDoc, Edit("title", "c"), Edit("active", FALSE)>>, <<Edit("content", "d"), Drop>>),
            Over(<<Import, Ask("search", none)>>, <<Ask("search", none), Edit("content", "d")>>)}

Talk(u, text) == [op |-> "talk", user |-> u, text |-> text]
Order(u, args) == [op |-> "order", user |-> u, args |-> args]
Answer(u, seen, args, approved) ==
    [op |-> "resume", user |-> u, shown |-> [user |-> seen, args |-> args], approved |-> approved]
Turns == {Over(<<Talk(none, "search"), Talk(none, "stock")>>, <<Talk(none, "other")>>),
          Over(<<Talk(none, "emergency"), Talk(none, "policy")>>, <<Talk(none, "other")>>)}
Confirms == {Over(<<Order(ann, "gas"), Answer(ann, ann, "gas", TRUE)>>,
                  <<Order(boss, "gas"), Answer(boss, ann, "gas", TRUE), Answer(boss, boss, "gas", FALSE)>>),
             Over(<<Order(ann, "gas"), Answer(ann, ann, "gas", TRUE)>>,
                  <<Order(ann, "water"), Order(none, "gas"), Answer(ann, ann, "gas", TRUE)>>)}

Message(text, stream) == [op |-> "message", user |-> none, text |-> text, stream |-> stream]
Probe(op, text) == [op |-> op, user |-> boss, text |-> text]
Answers == {Over(<<Message("other", TRUE)>>, <<Message("keyword", FALSE)>>),
            Over(<<Probe("rag stream", "other")>>, <<Probe("rag query", "keyword")>>),
            Over(<<Message("category", FALSE)>>, <<Probe("rag stream", "keyword")>>)}
Set(name, keys) == [name |-> name, keys |-> keys]
Hosts == {Set("gemini", {"gemini", "groq"}), Set("groq", {"gemini", "groq"}), Set("groq", {}),
          Set("vllm", {"groq"}), Set("vllm", {"gemini"}), Set("ollama", {})}

AllScenarios == Sessions \cup Logins \cup Links \cup Codes \cup Phones \cup Staffing
                  \cup Commands \cup Coupons \cup Shop \cup Alerts \cup Reviews \cup Library
                  \cup Turns \cup Confirms \cup Answers
AlertsOnly == Alerts
AnswersOnly == Answers
Short == [access |-> 1, refresh |-> 2, failed |-> 2, lockout |-> 1, link |-> 2,
          code |-> 1, resend |-> 2, query |-> 1]
=============================================================================
