------------------------------ MODULE Requests ------------------------------
(***************************************************************************)
(* The request handlers of the API: which steps a route goes through, what *)
(* its client presents and who may call it.  A worker serves one request   *)
(* at a time, and its steps interleave with those of the other workers     *)
(* wherever the handler awaits Redis, the database, a mail or a model.     *)
(***************************************************************************)
EXTENDS Integers, Sequences, FiniteSets

CONSTANTS
    Worker,     \* request handlers that run at the same time
    Scenario,   \* the ways requests may be spread over the workers
    None        \* no user, no job, no value

VARIABLES
    todo,       \* requests each worker has still to serve
    job         \* the request each worker is serving, or None

(* The routes that show products to customers.                             *)
Shopping == {"browse", "cards", "page", "recommend", "best", "saved", "reorder"}

(* The token, link or code a client has to hold to call a route.           *)
Sessionless == {"browse", "cards", "page", "recommend", "best",
                "login", "register", "forgot", "askcode", "sell", "subscribe",
                "confirm alert", "unsubscribe", "vote", "search",
                "talk", "order", "resume", "message"}
AdminOnly   == {"role", "status", "plan", "confirm", "patch", "delist", "coupon", "notify",
                "new doc", "edit doc", "drop doc", "import",
                "new product", "new parent", "patch parent", "drop parent"}
StaffOnly   == {"approve", "reject", "learn", "rag query", "rag stream"}
Presents(op) ==
    IF op \in Sessionless THEN {}
    ELSE IF op = "refresh" THEN {"refresh"}
    ELSE IF op = "reset" THEN {"link"}
    ELSE IF op = "enter" THEN {"code"}
    ELSE {"access"}

(* Where the handler of a route begins, and where it goes once the user    *)
(* behind the token is known.                                              *)
Handler ==
    [login |-> "lock", register |-> "unique", forgot |-> "mail", askcode |-> "count",
     refresh |-> "rotate", logout |-> "revoke", change |-> "old", profile |-> "unique",
     role |-> "target", status |-> "target", reset |-> "link", enter |-> "code"]
HandlerOf(op) == IF op \in DOMAIN Handler THEN Handler[op] ELSE op
Verified(op)  == Presents(op) \subseteq {"access", "refresh"} /\ op \notin Sessionless \cup {"logout"}
FirstStep(op) == IF Verified(op) THEN "decode" ELSE HandlerOf(op)

(* Every route.  A scenario gives each worker a sequence of requests.      *)
Routes == Sessionless \cup AdminOnly \cup StaffOnly \cup DOMAIN Handler
            \cup Shopping \cup {"save", "unsave"}

ASSUME RequestsRouted ==
    \A s \in Scenario :
        /\ s = [w \in Worker |-> s[w]]
        /\ \A w \in Worker :
             /\ Len(s[w]) \in Nat
             /\ s[w] = [i \in 1..Len(s[w]) |-> s[w][i]]
             /\ \A i \in DOMAIN s[w] : s[w][i].op \in Routes

At(w, pc) == job[w] # None /\ job[w].pc = pc
Req(w) == job[w].req
Op(w)  == job[w].req.op
Who(w) == job[w].user
Goto(w, pc) == job' = [job EXCEPT ![w].pc = pc]
End(w) == job' = [job EXCEPT ![w] = None]

(* A finite function, changed or extended at one point.                    *)
Put(f, k, v) == [x \in DOMAIN f \cup {k} |-> IF x = k THEN v ELSE f[x]]
=============================================================================
