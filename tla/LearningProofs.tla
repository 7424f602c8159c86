--------------------------- MODULE LearningProofs ----------------------------
(***************************************************************************)
(* Proofs about the price mails and the knowledge base.  Both read a row,  *)
(* await a mail or a model, and write what follows from the row as it was: *)
(* the invariants say what that row still says of the one that is stored.  *)
(***************************************************************************)
EXTENDS SiteSteps

(* A subscription that is confirmed is one whose link was opened, and so   *)
(* are those that a run holds; the address of one that is on its way has   *)
(* no other.                                                               *)
SubscriptionFields == {"email", "confirmed", "gone", "left"}
Committing(w) == job[w] # None /\ job[w].pc \in {"mail link", "commit subscription"}

OptedIn(w) ==
    /\ job[w].pc \in {"insert", "mail link", "commit subscription"} => Op(w) = "subscribe"
    /\ Committing(w) => ActiveByEmail(Req(w).email) = {}
    /\ job[w].pc = "mark confirmed" => job[w].n \in opened
    /\ job[w].pc = "send" => job[w].row.left \subseteq opened

AlertInv ==
    /\ IsSequence(notices)
    /\ \A i \in DOMAIN subs :
         DOMAIN subs[i] = SubscriptionFields /\ (subs[i].confirmed => i \in opened)
    /\ \A w \in Worker : job[w] # None => OptedIn(w)
    /\ \A v, w \in Worker :
         Committing(v) /\ Committing(w) /\ Req(v).email = Req(w).email => v = w
    /\ DoubleOptIn

(* What a row that was read says of the row that is stored: as long as the *)
(* version is the same, so are the columns.                                *)
AnswerFields == {"flag", "action", "fixed", "votes", "judged", "ver", "overlapped"}
AnswerRead(row) ==
    /\ DOMAIN row = AnswerFields
    /\ row.votes \in Nat /\ row.judged \in Nat /\ row.ver \in Nat
    /\ row.ver <= answer.ver
    /\ row.ver = answer.ver => row = answer

AnswerInv ==
    /\ AnswerRead(answer)
    /\ \A w \in Worker : job[w] # None =>
         /\ job[w].pc \in {"write answer", "embed answer", "learn answer"} =>
              AnswerRead(job[w].row)
         /\ job[w].pc = "write answer" => Op(w) \in {"vote", "approve", "reject"}
    /\ VotesAreReviewed

(* The same of a document; its vectors are of the text it will have.       *)
DocumentFields == {"title", "content", "gemini", "jina", "active", "source", "ver",
                   "overlapped", "quota"}
Made(doc) ==
    \/ doc.overlapped
    \/ LET text == Text(doc.title, doc.content) IN
         /\ doc.jina \in {text, None}
         /\ doc.quota \/ doc.gemini \in {text, None}

Loaded(row, d) ==
    /\ d \in DOMAIN docs
    /\ row.ver \in Nat
    /\ row.ver <= docs[d].ver
    /\ row.ver = docs[d].ver => row.title = docs[d].title /\ row.content = docs[d].content

VectorsOf(w) ==
    LET row == job[w].row
        text == Text(Edited(w, row).title, Edited(w, row).content) IN
      IF "vectors" \in DOMAIN row
      THEN /\ DOMAIN row = DocumentFields \cup {"vectors"}
           /\ row.vectors.jina = text
           /\ row.vectors.gemini \in {text, None}
      ELSE DOMAIN row = DocumentFields /\ Req(w).field = "active"

DocumentHeld(w) ==
    /\ job[w].pc \in {"embed document", "write document"} =>
         Op(w) = "edit doc" /\ Loaded(job[w].row, Req(w).doc)
    /\ job[w].pc = "embed document" => DOMAIN job[w].row = DocumentFields
    /\ job[w].pc = "write document" => VectorsOf(w)
    /\ job[w].pc \in {"cache question", "match"} =>
         DOMAIN job[w].row = {"made", "compared"} /\ job[w].row.made = job[w].row.compared

LibraryInv ==
    /\ IsSequence(docs) /\ IsSequence(searches)
    /\ \A d \in DOMAIN docs :
         DOMAIN docs[d] = DocumentFields /\ docs[d].ver \in Nat /\ Made(docs[d])
    /\ \A w \in Worker : job[w] # None => DocumentHeld(w)
    /\ Has(Question) =>
         LET vector == redis[Question].val IN
           DOMAIN vector = {"made", "compared"} /\ vector.made = vector.compared
    /\ OneVectorSpace
-----------------------------------------------------------------------------
(* Two kinds of steps matter here, those of the price mails and those of   *)
(* the knowledge base; the others leave both alone, but that links age.    *)
QuestionKept == Has(Question)' => Has(Question) /\ redis'[Question].val = redis[Question].val

Quiet ==
    /\ subs' = subs \/ AgeLinks
    /\ UNCHANGED <<links, opened, notices, learningVars>>
    /\ Held(AlertSteps) /\ Held(LearningSteps)
    /\ QuestionKept

LEMMA HeldApart ==
  ASSUME NEW w \in Worker, NEW steps, Moves(w, steps),
         steps \cap AlertSteps = {}, steps \cap LearningSteps = {}
  PROVE  Held(AlertSteps) /\ Held(LearningSteps)
BY MovesHold

LEMMA LearningCases ==
  ASSUME Shape, Entries, [SiteNext]_siteVars
  PROVE  \/ Quiet
         \/ \E w \in Worker : AlertStep(w) /\ UNCHANGED learningVars
         \/ \E w \in Worker : LearningStep(w)
<1>. USE DEF Quiet, alertVars, QuestionKept
<1>1. ASSUME NEW kinds, "question" \notin kinds, RedisStep(kinds)
      PROVE  QuestionKept
  <2>1. Question[1] \notin kinds
    BY <1>1 DEF Question
  <2>. QED  BY <1>1, <2>1, KeysApart DEF Has
<1>2. ASSUME redis' = redis
      PROVE  QuestionKept
  BY <1>2 DEF Has
<1>3. "question" \notin AccountKeys /\ "question" \notin {"pending"} /\ "question" \notin AgentKeys
  BY DEF AccountKeys, AgentKeys
<1>4. ASSUME NEW w \in Worker, Begin(w) \/ Step(w), UNCHANGED <<alertVars, learningVars>>
      PROVE  Quiet
  <2>1. Held(AlertSteps) /\ Held(LearningSteps)
    BY <1>4, AccountHolds, StepsApart
  <2>. QED  BY <1>1, <1>2, <1>3, <1>4, <2>1, BeginMoves, AccountRedis
<1>5. ASSUME NEW w \in Worker, CatalogStep(w), UNCHANGED <<alertVars, learningVars>>
      PROVE  Quiet
  <2>1. Held(AlertSteps) /\ Held(LearningSteps)
    BY <1>5, CatalogMoves, HeldApart, StepsApart
  <2>. QED  BY <1>1, <1>3, <1>5, <2>1, CatalogRedis
<1>6. ASSUME NEW w \in Worker, StorefrontStep(w), UNCHANGED <<alertVars, learningVars>>
      PROVE  Quiet
  <2>1. Held(AlertSteps) /\ Held(LearningSteps)
    BY <1>6, StorefrontMoves, HeldApart, StepsApart
  <2>2. redis' = redis
    BY <1>6, StorefrontMoves DEF Beyond
  <2>. QED  BY <1>2, <1>6, <2>1, <2>2
<1>7. ASSUME NEW w \in Worker, AgentStep(w)
      PROVE  Quiet
  <2>1. Held(AlertSteps) /\ Held(LearningSteps)
    BY <1>7, AgentMoves, HeldApart, StepsApart
  <2>2. UNCHANGED <<alertVars, learningVars>>
    BY <1>7, AgentMoves DEF OutsideAgent
  <2>. QED  BY <1>1, <1>3, <1>7, <2>1, <2>2, AgentRedis
<1>8. ASSUME NEW w \in Worker, GenerationStep(w)
      PROVE  Quiet
  <2>1. Held(AlertSteps) /\ Held(LearningSteps)
    BY <1>8, GenerationMoves, HeldApart, StepsApart
  <2>2. UNCHANGED <<redis, alertVars, learningVars>>
    BY <1>8, GenerationMoves DEF OutsideGeneration
  <2>. QED  BY <1>2, <1>8, <2>1, <2>2
<1>9. ASSUME NEW w \in Worker, Die(w)
      PROVE  Quiet
  <2>1. Moves(w, {}) /\ redis' = redis
    BY <1>9, CrashMoves DEF Die
  <2>2. Held(AlertSteps) /\ Held(LearningSteps)
    BY <2>1, HeldApart
  <2>3. UNCHANGED <<alertVars, learningVars>>
    BY <1>9 DEF Die, beyondCatalogue
  <2>. QED  BY <1>2, <2>1, <2>2, <2>3
<1>10. CASE SiteTick
  <2>1. job' = job /\ QuestionKept
    BY <1>10 DEF SiteTick, Tick, Has, Entries
  <2>2. Held(AlertSteps) /\ Held(LearningSteps)
    BY <2>1 DEF Held
  <2>. QED  BY <1>10, <2>1, <2>2 DEF SiteTick
<1>11. CASE UNCHANGED siteVars
  <2>1. UNCHANGED <<redis, job, alertVars, learningVars>>
    BY <1>11 DEF siteVars, vars
  <2>2. Held(AlertSteps) /\ Held(LearningSteps)
    BY <2>1 DEF Held
  <2>. QED  BY <1>2, <2>1, <2>2
<1>12. ASSUME NEW w \in Worker, Serve(w)
       PROVE  Quiet \/ (AlertStep(w) /\ UNCHANGED learningVars) \/ LearningStep(w)
  BY <1>4, <1>5, <1>6, <1>7, <1>8, <1>12 DEF Serve, beyondCatalogue
<1>. QED  BY <1>9, <1>10, <1>11, <1>12 DEF SiteNext

-----------------------------------------------------------------------------
(* The price mails.                                                        *)
LEMMA AlertStart == SiteInit => AlertInv
<1>. SUFFICES ASSUME SiteInit PROVE AlertInv
  OBVIOUS
<1>1. subs = [i \in {} |-> None] /\ notices = <<>> /\ job = [w \in Worker |-> None]
  BY DEF SiteInit, Init, AlertInit
<1>. QED  BY <1>1, EmptyIs DEF AlertInv, Committing, DoubleOptIn

(* A step that takes no address adds no row, but may lose some.            *)
SubsKept ==
    /\ DOMAIN subs' = DOMAIN subs
    /\ \A i \in DOMAIN subs :
         /\ DOMAIN subs'[i] = SubscriptionFields
         /\ subs'[i].email = subs[i].email
         /\ subs[i].gone => subs'[i].gone
         /\ subs'[i].confirmed => i \in opened'

LEMMA ActiveFewer ==
  ASSUME SubsKept, NEW e
  PROVE  ActiveByEmail(e)' \subseteq ActiveByEmail(e)
BY DEF SubsKept, ActiveByEmail

(* Most steps write no mail and take no address.                           *)
LEMMA AlertKept ==
  ASSUME AlertInv, SubsKept, opened \subseteq opened',
         IsSequence(notices)', \A n \in DOMAIN notices' : notices'[n].sub \in opened',
         \A w \in Worker : job'[w] # None /\ job'[w].pc \in AlertSteps =>
            \/ job[w] # None /\ job'[w] = job[w]
            \/ /\ job'[w].pc \in {"insert", "mark confirmed", "send", "recipients"}
               /\ OptedIn(w)'
  PROVE  AlertInv'
<1>1. ASSUME NEW w \in Worker, job'[w] # None
      PROVE  OptedIn(w)'
  <2>1. CASE job[w] # None /\ job'[w] = job[w]
    <3>1. OptedIn(w)
      BY <2>1 DEF AlertInv
    <3>2. ActiveByEmail(Req(w).email)' \subseteq ActiveByEmail(Req(w).email)
      BY <2>1, ActiveFewer DEF Req
    <3>. QED  BY <2>1, <3>1, <3>2 DEF OptedIn, Committing, Op, Req
  <2>2. CASE job'[w].pc \notin AlertSteps
    BY <2>2 DEF OptedIn, Committing, AlertSteps
  <2>. QED  BY <1>1, <2>1, <2>2
<1>2. ASSUME NEW w \in Worker, Committing(w)'
      PROVE  Committing(w) /\ Req(w)' = Req(w)
  <2>1. job'[w] # None /\ job'[w].pc \in AlertSteps \ {"insert", "mark confirmed", "send", "recipients"}
    BY <1>2 DEF Committing, AlertSteps
  <2>. QED  BY <1>2, <2>1 DEF Committing, Req
<1>3. ASSUME NEW v \in Worker, NEW w \in Worker, Committing(v)', Committing(w)',
             Req(v)'.email = Req(w)'.email
      PROVE  v = w
  <2>1. Committing(v) /\ Committing(w) /\ Req(v).email = Req(w).email
    BY <1>2, <1>3
  <2>. QED  BY <2>1 DEF AlertInv
<1>4. \A i \in DOMAIN subs' :
         DOMAIN subs'[i] = SubscriptionFields /\ (subs'[i].confirmed => i \in opened')
  BY DEF SubsKept
<1>5. DoubleOptIn'
  BY DEF AlertInv, DoubleOptIn, SubsKept
<1>. QED  BY <1>1, <1>3, <1>4, <1>5 DEF AlertInv

LEMMA SubsSame == ASSUME AlertInv, subs' = subs \/ AgeLinks, opened \subseteq opened' PROVE SubsKept
BY DEF AlertInv, SubsKept, AgeLinks, SubscriptionFields

LEMMA AlertQuiet == ASSUME AlertInv, Quiet PROVE AlertInv'
<1>1. SubsKept
  BY SubsSame DEF Quiet
<1>2. IsSequence(notices)' /\ \A n \in DOMAIN notices' : notices'[n].sub \in opened'
  BY DEF Quiet, AlertInv, DoubleOptIn
<1>. QED  BY <1>1, <1>2, AlertKept DEF Quiet, Held

(* A step of w that leaves the jobs of the others as they are.             *)
LEMMA AlertOwn ==
  ASSUME AlertInv, SubsKept, opened \subseteq opened',
         IsSequence(notices)', \A n \in DOMAIN notices' : notices'[n].sub \in opened',
         NEW w \in Worker, NEW steps, Moves(w, steps),
         job'[w] # None => /\ job'[w].pc \in {"insert", "mark confirmed", "send", "recipients"}
                           /\ OptedIn(w)'
  PROVE  AlertInv'
BY AlertKept DEF Moves

LEMMA AlertNext == ASSUME Shape, AlertInv, NEW w \in Worker, AlertStep(w) PROVE AlertInv'
<1>1. job[w] # None /\ Shaped(job[w]) /\ OptedIn(w) /\ Moves(w, AlertSteps)
  BY AlertMoves DEF Moves, Shape, AlertInv
<1>. USE DEF At
<1>2. ASSUME UNCHANGED <<subs, opened, notices>>, NEW steps, Moves(w, steps),
             job'[w] # None => /\ job'[w].pc \in {"insert", "mark confirmed", "send", "recipients"}
                               /\ OptedIn(w)'
      PROVE  AlertInv'
  <2>1. SubsKept /\ opened \subseteq opened'
    BY <1>2, SubsSame
  <2>2. IsSequence(notices)' /\ \A n \in DOMAIN notices' : notices'[n].sub \in opened'
    BY <1>2 DEF AlertInv, DoubleOptIn
  <2>. QED  BY <1>2, <2>1, <2>2, AlertOwn
<1>3. ASSUME UNCHANGED <<subs, opened, notices>>, End(w)
      PROVE  AlertInv'
  <2>1. job'[w] = None
    BY <1>1, <1>3 DEF End, Shape
  <2>. QED  BY <1>1, <1>2, <1>3, <2>1
<1>4. CASE LookUpSubscription(w)
  <2>1. UNCHANGED <<subs, opened, notices>>
    BY <1>4 DEF LookUpSubscription
  <2>2. CASE Goto(w, "insert")
    <3>1. job'[w].pc = "insert" /\ Op(w)' = Op(w)
      BY <1>1, <2>2 DEF Goto, Shape, Shaped, Fields, Op
    <3>2. Op(w) = "subscribe"
      BY <1>1, <1>4 DEF LookUpSubscription, Shaped, Routes, Sessionless, Op
    <3>. QED  BY <1>1, <1>2, <2>1, <3>1, <3>2 DEF OptedIn, Committing
  <2>. QED  BY <1>3, <1>4, <2>1, <2>2 DEF LookUpSubscription
<1>5. CASE InsertSubscription(w)
  <2>1. UNCHANGED <<subs, opened, notices>>
    BY <1>5 DEF InsertSubscription, alertVars
  <2>2. CASE Goto(w, "mail link") /\ ActiveByEmail(Req(w).email) = {}
    <3>1. /\ job'[w].pc = "mail link" /\ Req(w)' = Req(w)
          /\ \A v \in Worker : v # w => job'[v] = job[v]
      BY <1>1, <2>2 DEF Goto, Shape, Shaped, Fields, Req
    <3>2. Op(w) = "subscribe" /\ ~Inserting(Req(w).email)
      BY <1>1, <1>5 DEF InsertSubscription, OptedIn
    <3>3. \A v \in Worker : Committing(v) => Req(v).email # Req(w).email
      BY <3>2 DEF Inserting, Committing, AlertInv, OptedIn
    <3>4. \A e : ActiveByEmail(e)' = ActiveByEmail(e)
      BY <2>1 DEF ActiveByEmail
    <3>5. OptedIn(w)'
      BY <2>2, <3>1, <3>2, <3>4 DEF OptedIn, Committing, Op, Req
    <3>6. ASSUME NEW v \in Worker, v # w, job'[v] # None
          PROVE  OptedIn(v)'
      BY <2>1, <3>1, <3>4, <3>6 DEF OptedIn, Committing, Op, Req, AlertInv
    <3>7. ASSUME NEW u \in Worker, NEW v \in Worker, Committing(u)', Committing(v)',
                 Req(u)'.email = Req(v)'.email
          PROVE  u = v
      <4>1. \A x \in Worker : x # w => (Committing(x)' <=> Committing(x)) /\ Req(x)' = Req(x)
        BY <3>1 DEF Committing, Req
      <4>. QED  BY <3>1, <3>3, <3>7, <4>1 DEF AlertInv
    <3>. QED  BY <2>1, <3>5, <3>6, <3>7 DEF AlertInv, DoubleOptIn
  <2>. QED  BY <1>3, <1>5, <2>1, <2>2 DEF InsertSubscription
<1>6. CASE MailConfirmation(w)
  <2>1. UNCHANGED <<subs, opened, notices>>
    BY <1>6 DEF MailConfirmation
  <2>2. /\ job'[w].pc = "commit subscription" /\ Req(w)' = Req(w)
        /\ \A v \in Worker : v # w => job'[v] = job[v]
    <3>1. PICK i : job' = [job EXCEPT ![w].pc = "commit subscription", ![w].n = i]
      BY <1>6 DEF MailConfirmation
    <3>. QED  BY <1>1, <3>1 DEF Shape, Shaped, Fields, Req
  <2>3. \A v \in Worker : (Committing(v)' => Committing(v)) /\ (Committing(v) => Req(v)' = Req(v))
    BY <1>1, <1>6, <2>2 DEF Committing, MailConfirmation, Req
  <2>4. \A e : ActiveByEmail(e)' = ActiveByEmail(e)
    BY <2>1 DEF ActiveByEmail
  <2>5. OptedIn(w)'
    BY <1>1, <1>6, <2>2, <2>3, <2>4 DEF OptedIn, Op, Req, MailConfirmation
  <2>6. ASSUME NEW v \in Worker, v # w, job'[v] # None
        PROVE  OptedIn(v)'
    BY <2>1, <2>2, <2>4, <2>6 DEF OptedIn, Committing, Op, Req, AlertInv
  <2>. QED  BY <2>1, <2>3, <2>5, <2>6 DEF AlertInv, DoubleOptIn
<1>7. CASE CommitSubscription(w)
  <2>1. PICK e : e = Req(w).email
    OBVIOUS
  <2>2. /\ DOMAIN subs' = DOMAIN subs \cup {job[w].n}
        /\ subs'[job[w].n] = [email |-> e, confirmed |-> FALSE, gone |-> FALSE, left |-> ConfirmTtl]
        /\ \A i \in DOMAIN subs : i # job[w].n => subs'[i] = subs[i]
    BY <1>7, <2>1 DEF CommitSubscription, Put
  <2>3. ActiveByEmail(e) = {} /\ Committing(w)
    BY <1>1, <1>7, <2>1 DEF CommitSubscription, OptedIn, Committing
  <2>4. UNCHANGED <<opened, notices>> /\ job'[w] = None
    BY <1>1, <1>7 DEF CommitSubscription, End, Shape
  <2>5. \A i \in DOMAIN subs' :
           DOMAIN subs'[i] = SubscriptionFields /\ (subs'[i].confirmed => i \in opened')
    BY <2>2, <2>4 DEF AlertInv, SubscriptionFields
  <2>6. ASSUME NEW i \in DOMAIN subs', NEW k \in DOMAIN subs', subs'[i].email = subs'[k].email,
               ~subs'[i].gone, ~subs'[k].gone
        PROVE  i = k
    <3>1. \A x \in DOMAIN subs : subs[x].email = e => subs[x].gone
      BY <2>3 DEF ActiveByEmail
    <3>. QED  BY <2>2, <2>6, <3>1 DEF AlertInv, DoubleOptIn
  <2>7. ASSUME NEW v \in Worker, job'[v] # None
        PROVE  OptedIn(v)'
    <3>1. v # w /\ job'[v] = job[v] /\ OptedIn(v)
      BY <1>1, <2>4, <2>7 DEF Moves, AlertInv
    <3>2. ASSUME Committing(v)
          PROVE  ActiveByEmail(Req(v).email)' = {}
      <4>1. Req(v).email # e /\ ActiveByEmail(Req(v).email) = {}
        BY <2>1, <2>3, <3>1, <3>2 DEF AlertInv, OptedIn
      <4>2. Req(v)' = Req(v)
        BY <3>1 DEF Req
      <4>. QED  BY <2>2, <4>1, <4>2 DEF ActiveByEmail
    <3>. QED  BY <2>4, <3>1, <3>2 DEF OptedIn, Committing, Op, Req
  <2>8. ASSUME NEW u \in Worker, NEW v \in Worker, Committing(u)', Committing(v)',
               Req(u)'.email = Req(v)'.email
        PROVE  u = v
    BY <1>1, <2>4, <2>8 DEF Moves, Committing, Req, AlertInv
  <2>9. IsSequence(notices)' /\ \A n \in DOMAIN notices' : notices'[n].sub \in opened'
    BY <2>4 DEF AlertInv, DoubleOptIn
  <2>. QED  BY <2>5, <2>6, <2>7, <2>8, <2>9 DEF AlertInv, DoubleOptIn
<1>8. CASE OpenLink(w)
  <2>1. PICK i \in Mailed :
          IF i \in DOMAIN subs /\ ~subs[i].gone /\ ~subs[i].confirmed /\ subs[i].left > 0
          THEN /\ job' = [job EXCEPT ![w].pc = "mark confirmed", ![w].n = i]
               /\ opened' = opened \cup {i}
          ELSE End(w) /\ UNCHANGED opened
    BY <1>8 DEF OpenLink
  <2>2. UNCHANGED <<subs, notices>>
    BY <1>8 DEF OpenLink
  <2>3. CASE job' = [job EXCEPT ![w].pc = "mark confirmed", ![w].n = i] /\ opened' = opened \cup {i}
    <3>1. SubsKept /\ opened \subseteq opened'
      BY <2>2, <2>3, SubsSame
    <3>2. IsSequence(notices)' /\ \A n \in DOMAIN notices' : notices'[n].sub \in opened'
      BY <2>2, <2>3 DEF AlertInv, DoubleOptIn
    <3>3. job'[w].pc = "mark confirmed" /\ job'[w].n = i
      BY <1>1, <2>3 DEF Shape, Shaped, Fields
    <3>4. OptedIn(w)'
      <4>1. i \in opened'
        BY <2>3
      <4>. QED  BY ONLY <3>3, <4>1 DEF OptedIn, Committing
    <3>. QED  BY <1>1, <3>1, <3>2, <3>3, <3>4, AlertOwn
  <2>. QED  BY <1>3, <2>1, <2>2, <2>3
<1>9. ASSUME SubsKept, UNCHANGED <<opened, notices>>, End(w)
      PROVE  AlertInv'
  <2>1. job'[w] = None
    BY <1>1, <1>9 DEF End, Shape
  <2>2. IsSequence(notices)' /\ \A n \in DOMAIN notices' : notices'[n].sub \in opened'
    BY <1>9 DEF AlertInv, DoubleOptIn
  <2>. QED  BY <1>1, <1>9, <2>1, <2>2, AlertOwn
<1>10. CASE MarkConfirmed(w)
  <2>1. SubsKept
    BY <1>1, <1>10 DEF MarkConfirmed, SubsKept, AlertInv, OptedIn, SubscriptionFields
  <2>. QED  BY <1>9, <1>10, <2>1 DEF MarkConfirmed
<1>11. CASE Unsubscribe(w)
  <2>1. SubsKept
    BY <1>11 DEF Unsubscribe, SubsKept, AlertInv, SubscriptionFields
  <2>. QED  BY <1>9, <1>11, <2>1 DEF Unsubscribe
<1>12. CASE BuildPriceRows(w)
  <2>1. UNCHANGED <<subs, opened, notices>>
    BY <1>12 DEF BuildPriceRows, alertVars
  <2>2. job'[w].pc = "recipients"
    BY <1>1, <1>12 DEF BuildPriceRows, Shape, Shaped, Fields
  <2>. QED  BY <1>1, <1>2, <2>1, <2>2 DEF OptedIn, Committing
<1>13. CASE ListRecipients(w)
  <2>1. UNCHANGED <<subs, opened, notices>>
    BY <1>13 DEF ListRecipients, alertVars
  <2>2. job'[w].pc = "send" /\ job'[w].row.left = ConfirmedActive
    BY <1>1, <1>13 DEF ListRecipients, Shape, Shaped, Fields
  <2>3. ConfirmedActive \subseteq opened
    BY DEF ConfirmedActive, AlertInv
  <2>. QED  BY <1>1, <1>2, <2>1, <2>2, <2>3 DEF OptedIn, Committing
<1>14. CASE SendNotice(w)
  <2>1. PICK i \in job[w].row.left :
          /\ notices' = Append(notices, [sub |-> i, prices |-> job[w].row.prices])
          /\ job' = [job EXCEPT ![w].row.left = @ \ {i}]
    BY <1>14 DEF SendNotice
  <2>2. i \in opened /\ UNCHANGED <<subs, opened>>
    BY <1>1, <1>14 DEF SendNotice, OptedIn
  <2>3. IsSequence(notices)' /\ \A n \in DOMAIN notices' : notices'[n].sub \in opened'
    <3>1. /\ IsSequence(notices)'
          /\ DOMAIN notices = 1..Len(notices) /\ DOMAIN notices' = 1..(Len(notices) + 1)
          /\ notices'[Len(notices) + 1].sub = i
          /\ \A n \in DOMAIN notices : notices'[n] = notices[n]
      BY <2>1, AppendIs DEF AlertInv
    <3>2. Len(notices) \in Nat
      BY DEF AlertInv, IsSequence
    <3>. QED  BY <2>2, <3>1, <3>2 DEF AlertInv, DoubleOptIn
  <2>4. OptedIn(w)'
    <3>1. job'[w].pc = "send"
      BY <1>1, <1>14, <2>1 DEF SendNotice, Shape, Shaped, Fields
    <3>2. job'[w].row.left \subseteq job[w].row.left
      BY <1>1, <2>1 DEF Shape, Shaped, Fields
    <3>. QED  BY <1>1, <1>14, <2>2, <3>1, <3>2 DEF SendNotice, OptedIn, Committing
  <2>5. job'[w].pc = "send"
    BY <1>1, <1>14, <2>1 DEF SendNotice, Shape, Shaped, Fields
  <2>6. SubsKept
    BY <2>2, SubsSame
  <2>. QED  BY <1>1, <2>2, <2>3, <2>4, <2>5, <2>6, AlertOwn
<1>15. CASE FinishRun(w)
  BY <1>3, <1>15 DEF FinishRun, alertVars
<1>. QED  BY <1>4, <1>5, <1>6, <1>7, <1>8, <1>10, <1>11, <1>12, <1>13, <1>14, <1>15, AlertMoves
          DEF AlertStep

LEMMA AlertStepKeeps ==
  Shape /\ Entries /\ AlertInv /\ [SiteNext]_siteVars => AlertInv'
<1>. SUFFICES ASSUME Shape, Entries, AlertInv, [SiteNext]_siteVars PROVE AlertInv'
  OBVIOUS
<1>1. ASSUME NEW w \in Worker, LearningStep(w)
      PROVE  AlertInv'
  <2>1. Held(AlertSteps) /\ UNCHANGED alertVars
    BY <1>1, LearningMoves, MovesHold, StepsApart
  <2>2. SubsKept /\ opened' = opened
    BY <2>1, SubsSame DEF alertVars
  <2>3. IsSequence(notices)' /\ \A n \in DOMAIN notices' : notices'[n].sub \in opened'
    BY <2>1 DEF AlertInv, DoubleOptIn, alertVars
  <2>. QED  BY <2>1, <2>2, <2>3, AlertKept DEF Held
<1>. QED  BY <1>1, LearningCases, AlertQuiet, AlertNext

(* Every job and every entry of Redis keeps its shape.                     *)
LEMMA ShapesAlways == SiteSpec => [](Shape /\ Entries)
<1>1. SiteInit => Entries
  BY DEF SiteInit, Init, Entries
<1>. QED  BY <1>1, ShapeInit, ShapeNext, EntriesNext, PTL DEF SiteSpec

(* Price mails go only to addresses whose owner opened the mailed link in  *)
(* time, and each address has one subscription: the check of its insertion *)
(* and the index entry that an open transaction holds exclude a second.    *)
THEOREM OptInIsDouble == SiteSpec => []DoubleOptIn
<1>1. AlertInv => DoubleOptIn
  BY DEF AlertInv
<1>. QED  BY <1>1, AlertStart, AlertStepKeeps, ShapesAlways, PTL DEF SiteSpec

-----------------------------------------------------------------------------
(* The reviews of the answer.                                              *)
LEMMA AnswerStart == SiteInit => AnswerInv
<1>. SUFFICES ASSUME SiteInit PROVE AnswerInv
  OBVIOUS
<1>1. /\ answer = [flag |-> TRUE, action |-> None, fixed |-> None,
                   votes |-> 0, judged |-> 0, ver |-> 0, overlapped |-> FALSE]
      /\ job = [w \in Worker |-> None]
  BY DEF SiteInit, Init, LearningInit
<1>. QED  BY <1>1 DEF AnswerInv, AnswerRead, AnswerFields, VotesAreReviewed

AnswerSteps == {"write answer", "embed answer", "learn answer"}

(* Steps that leave the answer alone.                                      *)
LEMMA AnswerKept ==
  ASSUME AnswerInv, answer' = answer,
         \A w \in Worker : job'[w] # None /\ job'[w].pc \in AnswerSteps =>
            job[w] # None /\ job'[w] = job[w]
  PROVE  AnswerInv'
<1>1. ASSUME NEW w \in Worker, job'[w] # None
      PROVE  /\ job'[w].pc \in AnswerSteps => AnswerRead(job[w].row)'
             /\ job'[w].pc = "write answer" => Op(w)' \in {"vote", "approve", "reject"}
  <2>1. CASE job'[w].pc \in AnswerSteps
    <3>1. job[w] # None /\ job'[w] = job[w]
      BY <1>1, <2>1
    <3>2. AnswerRead(job[w].row) /\ (job[w].pc = "write answer" => Op(w) \in {"vote", "approve", "reject"})
      BY <2>1, <3>1 DEF AnswerInv, AnswerSteps
    <3>. QED  BY <3>1, <3>2 DEF AnswerRead, Op
  <2>. QED  BY <2>1 DEF AnswerSteps
<1>. QED  BY <1>1 DEF AnswerInv, AnswerRead, VotesAreReviewed, AnswerSteps

LEMMA AnswerQuiet ==
  ASSUME Shape, AnswerInv, Quiet \/ (\E w \in Worker : AlertStep(w) /\ UNCHANGED learningVars)
  PROVE  AnswerInv'
<1>1. Held(LearningSteps) /\ answer' = answer
  <2>1. ASSUME NEW w \in Worker, AlertStep(w), UNCHANGED learningVars
        PROVE  Held(LearningSteps)
    BY <2>1, AlertMoves, MovesHold, StepsApart
  <2>. QED  BY <2>1 DEF Quiet, learningVars
<1>2. AnswerSteps \subseteq LearningSteps
  BY DEF AnswerSteps, LearningSteps
<1>. QED  BY <1>1, <1>2, AnswerKept DEF Held

(* A write bumps the version, so that no other row that was read is the    *)
(* stored one any more.                                                    *)
LEMMA AnswerWritten ==
  ASSUME Shape, AnswerInv, NEW w \in Worker, job[w] # None, End(w),
         DOMAIN answer' = AnswerFields,
         answer'.votes \in Nat, answer'.judged \in Nat, answer'.ver = answer.ver + 1,
         VotesAreReviewed'
  PROVE  AnswerInv'
<1>0. answer.ver \in Nat
  BY DEF AnswerInv, AnswerRead
<1>1. job'[w] = None /\ \A v \in Worker : v # w => job'[v] = job[v]
  BY DEF End, Shape
<1>2. ASSUME NEW v \in Worker, job'[v] # None
      PROVE  /\ job'[v].pc \in {"write answer", "embed answer", "learn answer"} =>
                  AnswerRead(job[v].row)'
             /\ job'[v].pc = "write answer" => Op(v)' \in {"vote", "approve", "reject"}
  <2>1. v # w /\ job'[v] = job[v]
    BY <1>1, <1>2
  <2>2. Op(v)' = Op(v)
    BY <2>1 DEF Op
  <2>3. ASSUME AnswerRead(job[v].row)
        PROVE  AnswerRead(job[v].row)'
    BY <1>0, <2>1, <2>3 DEF AnswerRead
  <2>. QED  BY <1>2, <2>1, <2>2, <2>3 DEF AnswerInv
<1>3. AnswerRead(answer)'
  BY <1>0 DEF AnswerRead
<1>. QED  BY <1>2, <1>3 DEF AnswerInv

(* Only what changed is written.                                           *)
LEMMA DownvoteIs ==
  ASSUME NEW w \in Worker, AnswerRead(answer), AnswerRead(job[w].row)
  PROVE  LET new == Downvote(w) IN
           /\ DOMAIN new = AnswerFields
           /\ new.votes = answer.votes + 1 /\ new.judged = answer.judged
           /\ new.ver = answer.ver + 1
           /\ answer.ver = job[w].row.ver => new.flag
           /\ answer.ver # job[w].row.ver => new.overlapped
<1>. DEFINE c == [flag |-> TRUE]
            f == Flushed(answer, job[w].row, c)
<1>1. /\ DOMAIN f = AnswerFields
      /\ f.votes = answer.votes /\ f.judged = answer.judged /\ f.ver = answer.ver
      /\ f.overlapped = answer.overlapped
      /\ job[w].row = answer => f.flag = TRUE
  BY DEF Flushed, AnswerRead, AnswerFields
<1>. HIDE DEF f
<1>2. Downvote(w) = [[f EXCEPT !.ver = @ + 1, !.overlapped = @ \/ answer.ver # job[w].row.ver]
                        EXCEPT !.votes = @ + 1]
  BY DEF Downvote, Amend, f
<1>. QED  BY ZenonT(60), <1>1, <1>2 DEF AnswerRead, AnswerFields

LEMMA DecideIs ==
  ASSUME NEW w \in Worker, AnswerRead(answer), AnswerRead(job[w].row), NEW action, NEW fixed
  PROVE  LET new == Decide(w, action, fixed) IN
           /\ DOMAIN new = AnswerFields
           /\ new.votes = answer.votes /\ new.judged = job[w].row.votes
           /\ new.ver = answer.ver + 1
           /\ answer.ver # job[w].row.ver => new.overlapped
<1>. DEFINE c == [flag |-> FALSE, action |-> action, fixed |-> fixed]
            f == Flushed(answer, job[w].row, c)
<1>1. /\ DOMAIN f = AnswerFields
      /\ f.votes = answer.votes /\ f.ver = answer.ver
  BY DEF Flushed, AnswerRead, AnswerFields
<1>. HIDE DEF f
<1>2. Decide(w, action, fixed) =
        [[f EXCEPT !.ver = @ + 1, !.overlapped = @ \/ answer.ver # job[w].row.ver]
            EXCEPT !.judged = job[w].row.votes]
  BY DEF Decide, Amend, f
<1>. QED  BY <1>1, <1>2 DEF AnswerRead, AnswerFields

(* The steps of the reviews and those of the documents and searches.       *)
LibrarySteps == {"embed document", "write document", "match", "embed question", "cache question"}
LibraryStep(w) ==
    \/ CreateDocument(w) \/ ImportDocuments(w) \/ ReadDocument(w) \/ EmbedDocument(w)
    \/ WriteDocument(w) \/ DropDocument(w) \/ SearchCache(w) \/ EmbedQuestion(w)
    \/ CacheQuestion(w) \/ MatchDocuments(w)

LEMMA LibraryMoves ==
  ASSUME Shape, NEW w \in Worker, LibraryStep(w)
  PROVE  Moves(w, LibrarySteps) /\ answer' = answer
<1>. USE DEF At, Moves, Shape, Shaped, Calls, Fields, LibrarySteps, learningVars
<1>1. CASE CreateDocument(w)
  BY <1>1 DEF CreateDocument, End
<1>2. CASE ImportDocuments(w)
  BY <1>2 DEF ImportDocuments, End
<1>3. CASE ReadDocument(w)
  <2>1. job[w] # None /\ answer' = answer
    BY <1>3 DEF ReadDocument
  <2>2. CASE End(w)
    BY <2>1, <2>2 DEF End
  <2>3. ASSUME NEW pc \in {"write document", "embed document"}, NEW r,
               job' = [job EXCEPT ![w].pc = pc, ![w].row = r]
        PROVE  Moves(w, LibrarySteps)
    BY <2>1, <2>3, KeepMoves
  <2>. QED  BY <1>3, <2>1, <2>2, <2>3 DEF ReadDocument, Keep
<1>4. CASE EmbedDocument(w)
  BY ZenonT(60), <1>4 DEF EmbedDocument, End
<1>5. CASE WriteDocument(w)
  BY <1>5 DEF WriteDocument, End
<1>6. CASE DropDocument(w)
  BY <1>6 DEF DropDocument, End
<1>7. CASE SearchCache(w)
  BY ZenonT(60), <1>7 DEF SearchCache, Goto
<1>8. CASE EmbedQuestion(w)
  BY ZenonT(60), <1>8 DEF EmbedQuestion, End
<1>9. CASE CacheQuestion(w)
  BY <1>9 DEF CacheQuestion, Goto
<1>10. CASE MatchDocuments(w)
  BY <1>10 DEF MatchDocuments, End
<1>. QED  BY <1>1, <1>2, <1>3, <1>4, <1>5, <1>6, <1>7, <1>8, <1>9, <1>10 DEF LibraryStep

LEMMA AnswerNext ==
  ASSUME Shape, AnswerInv, NEW w \in Worker, LearningStep(w)
  PROVE  AnswerInv'
<1>. USE DEF At
<1>1. CASE LibraryStep(w)
  <2>1. Moves(w, LibrarySteps) /\ answer' = answer
    BY <1>1, LibraryMoves
  <2>2. LibrarySteps \cap AnswerSteps = {}
    BY DEF LibrarySteps, AnswerSteps
  <2>3. Held(AnswerSteps)
    BY <2>1, <2>2, MovesHold
  <2>. QED  BY <2>1, <2>3, AnswerKept DEF Held
<1>2. CASE ReadAnswer(w)
  <2>1. /\ answer' = answer /\ job[w] # None
        /\ Op(w) \in {"vote", "approve", "reject", "learn"}
    BY <1>2 DEF ReadAnswer, learningVars, Shape, Shaped, Op, Routes, Sessionless, StaffOnly
  <2>2. PICK pc : pc = IF Op(w) = "learn" THEN "embed answer" ELSE "write answer"
    OBVIOUS
  <2>3. job' = [job EXCEPT ![w].pc = pc, ![w].row = answer]
    BY <1>2, <2>2 DEF ReadAnswer, Keep
  <2>4. /\ job'[w].pc = pc /\ job'[w].row = answer /\ job'[w].req = job[w].req
        /\ \A v \in Worker : v # w => job'[v] = job[v]
    BY <2>1, <2>3 DEF Shape, Shaped, Fields
  <2>5. ASSUME NEW v \in Worker, job'[v] # None
        PROVE  /\ job'[v].pc \in {"write answer", "embed answer", "learn answer"} =>
                    AnswerRead(job[v].row)'
               /\ job'[v].pc = "write answer" => Op(v)' \in {"vote", "approve", "reject"}
    <3>1. CASE v = w
      <4>1. AnswerRead(answer)'
        BY <2>1 DEF AnswerInv, AnswerRead
      <4>2. AnswerRead(job[w].row)'
        BY <2>1, <2>4, <4>1 DEF AnswerRead
      <4>3. pc = "write answer" => Op(w) \in {"vote", "approve", "reject"}
        BY <2>1, <2>2
      <4>. QED  BY <2>4, <3>1, <4>2, <4>3 DEF Op
    <3>2. CASE v # w
      <4>1. job'[v] = job[v]
        BY <2>4, <3>2
      <4>. QED  BY <2>1, <2>5, <4>1 DEF AnswerInv, AnswerRead, Op
    <3>. QED  BY <3>1, <3>2
  <2>. QED  BY <2>1, <2>5 DEF AnswerInv, AnswerRead, VotesAreReviewed
<1>3. CASE WriteAnswer(w)
  <2>1. /\ job[w] # None /\ job[w].pc = "write answer" /\ End(w)
        /\ AnswerRead(answer) /\ AnswerRead(job[w].row)
        /\ Op(w) \in {"vote", "approve", "reject"}
    BY <1>3 DEF WriteAnswer, AnswerInv
  <2>3. CASE answer' = Downvote(w)
    <3>1. /\ DOMAIN answer' = AnswerFields
          /\ answer'.votes = answer.votes + 1 /\ answer'.judged = answer.judged
          /\ answer'.ver = answer.ver + 1
          /\ answer.ver = job[w].row.ver => answer'.flag
          /\ answer.ver # job[w].row.ver => answer'.overlapped
      BY <2>1, <2>3, DownvoteIs
    <3>2. answer.votes \in Nat /\ answer.judged \in Nat
      BY <2>1 DEF AnswerRead
    <3>3. VotesAreReviewed' /\ answer'.votes \in Nat /\ answer'.judged \in Nat
      BY <3>1, <3>2 DEF VotesAreReviewed
    <3>. QED  BY <2>1, <3>1, <3>3, AnswerWritten
  <2>4. ASSUME NEW action, NEW fixed, answer' = Decide(w, action, fixed)
        PROVE  AnswerInv'
    <3>1. /\ DOMAIN answer' = AnswerFields
          /\ answer'.votes = answer.votes /\ answer'.judged = job[w].row.votes
          /\ answer'.ver = answer.ver + 1
          /\ answer.ver # job[w].row.ver => answer'.overlapped
      BY <2>1, <2>4, DecideIs
    <3>2. answer.votes \in Nat /\ job[w].row.votes \in Nat
          /\ (answer.ver = job[w].row.ver => answer = job[w].row)
      BY <2>1 DEF AnswerRead
    <3>3. VotesAreReviewed' /\ answer'.votes \in Nat /\ answer'.judged \in Nat
      BY <3>1, <3>2 DEF VotesAreReviewed
    <3>. QED  BY <2>1, <3>1, <3>3, AnswerWritten
  <2>5. \/ answer' = Downvote(w)
        \/ \E action, fixed : answer' = Decide(w, action, fixed)
    BY <1>3, <2>1 DEF WriteAnswer
  <2>. QED  BY <2>3, <2>4, <2>5
<1>4. CASE EmbedAnswer(w)
  <2>1. job[w] # None /\ job[w].pc = "embed answer" /\ answer' = answer
    BY <1>4 DEF EmbedAnswer, learningVars
  <2>2. /\ \A v \in Worker : v # w => job'[v] = job[v]
        /\ job'[w] # None => job'[w].pc = "learn answer" /\ job'[w].row = job[w].row
    BY <1>4, <2>1 DEF EmbedAnswer, Goto, End, Shape, Shaped, Fields
  <2>3. AnswerRead(job[w].row)
    BY <2>1 DEF AnswerInv
  <2>4. ASSUME NEW v \in Worker, job'[v] # None
        PROVE  /\ job'[v].pc \in {"write answer", "embed answer", "learn answer"} =>
                    AnswerRead(job[v].row)'
               /\ job'[v].pc = "write answer" => Op(v)' \in {"vote", "approve", "reject"}
    <3>1. CASE v = w
      BY <2>1, <2>2, <2>3, <2>4, <3>1 DEF AnswerRead
    <3>2. CASE v # w
      <4>1. job'[v] = job[v]
        BY <2>2, <3>2
      <4>. QED  BY <2>1, <2>4, <4>1 DEF AnswerInv, AnswerRead, Op
    <3>. QED  BY <3>1, <3>2
  <2>. QED  BY <2>1, <2>4 DEF AnswerInv, AnswerRead, VotesAreReviewed
<1>5. CASE LearnAnswer(w)
  <2>1. /\ job[w] # None /\ job[w].pc = "learn answer" /\ End(w)
        /\ AnswerRead(answer) /\ AnswerRead(job[w].row)
        /\ answer' = Decide(w, "added_to_kb", job[w].row.fixed)
    BY <1>5 DEF LearnAnswer, AnswerInv
  <2>2. /\ DOMAIN answer' = AnswerFields
        /\ answer'.votes = answer.votes /\ answer'.judged = job[w].row.votes
        /\ answer'.ver = answer.ver + 1
        /\ answer.ver # job[w].row.ver => answer'.overlapped
    <3>1. PICK action, fixed : action = "added_to_kb" /\ fixed = job[w].row.fixed
      OBVIOUS
    <3>2. answer' = Decide(w, action, fixed)
      BY <2>1, <3>1
    <3>3. w \in Worker /\ AnswerRead(answer) /\ AnswerRead(job[w].row)
      BY <2>1
    <3>. QED  BY ONLY <3>2, <3>3, DecideIs
  <2>3. answer.votes \in Nat /\ job[w].row.votes \in Nat
        /\ (answer.ver = job[w].row.ver => answer = job[w].row)
    BY <2>1 DEF AnswerRead
  <2>4. VotesAreReviewed' /\ answer'.votes \in Nat /\ answer'.judged \in Nat
    BY <2>2, <2>3 DEF VotesAreReviewed
  <2>. QED  BY <2>1, <2>2, <2>4, AnswerWritten
<1>. QED  BY <1>1, <1>2, <1>3, <1>4, <1>5 DEF LearningStep, ReviewStep, LibraryStep

LEMMA AnswerStepKeeps ==
  Shape /\ Entries /\ AnswerInv /\ [SiteNext]_siteVars => AnswerInv'
BY LearningCases, AnswerQuiet, AnswerNext

(* A vote is not lost: the answer stays in the queue of the reviewers      *)
(* until one of them has decided on it, who had seen the vote or whose     *)
(* decision overlapped with it.                                            *)
THEOREM VotesReachReviewers == SiteSpec => []VotesAreReviewed
<1>1. AnswerInv => VotesAreReviewed
  BY DEF AnswerInv
<1>. QED  BY <1>1, AnswerStart, AnswerStepKeeps, ShapesAlways, PTL DEF SiteSpec

-----------------------------------------------------------------------------
(* The documents and the searches.                                         *)
LEMMA KnowledgeTyped ==
  ASSUME NEW r \in Requested
  PROVE  /\ r.op = "edit doc" => r.field \in Editable
         /\ r.op = "import" => /\ Len(r.texts) \in Nat
                               /\ r.texts = [k \in 1..Len(r.texts) |-> r.texts[k]]
<1>1. PICK s \in Scenario, w \in Worker : \E i \in DOMAIN s[w] : r = s[w][i]
  BY RequestIsAsked
<1>2. PICK i \in DOMAIN s[w] : r = s[w][i]
  BY <1>1
<1>3. /\ s[w][i].op = "edit doc" => s[w][i].field \in Editable
      /\ s[w][i].op = "import" =>
           /\ Len(s[w][i].texts) \in Nat
           /\ s[w][i].texts = [k \in 1..Len(s[w][i].texts) |-> s[w][i].texts[k]]
  BY ONLY <1>1, <1>2, KnowledgeAssumption
<1>. QED  BY ONLY <1>2, <1>3

LEMMA LibraryStart == SiteInit => LibraryInv
<1>. SUFFICES ASSUME SiteInit PROVE LibraryInv
  OBVIOUS
<1>1. docs = <<>> /\ searches = <<>> /\ redis = [k \in {} |-> None] /\ job = [w \in Worker |-> None]
  BY DEF SiteInit, Init, LearningInit
<1>. QED  BY <1>1, EmptyIs DEF LibraryInv, Has, OneVectorSpace

(* Documents are added, and those there were keep their text or get        *)
(* another version.                                                        *)
Sound(doc) == DOMAIN doc = DocumentFields /\ doc.ver \in Nat /\ Made(doc)
DocsKept ==
    /\ IsSequence(docs')
    /\ \A d \in DOMAIN docs' : Sound(docs'[d])
    /\ \A d \in DOMAIN docs :
         /\ d \in DOMAIN docs'
         /\ docs[d].ver <= docs'[d].ver
         /\ docs'[d].ver = docs[d].ver =>
              docs'[d].title = docs[d].title /\ docs'[d].content = docs[d].content

SameVectors(vector) == DOMAIN vector = {"made", "compared"} /\ vector.made = vector.compared
QuestionSound == Has(Question) => SameVectors(redis[Question].val)
SearchesSound == IsSequence(searches) /\ OneVectorSpace

LEMMA DocsSame == ASSUME LibraryInv, docs' = docs PROVE DocsKept
BY DEF LibraryInv, DocsKept, Sound

LEMMA LoadedKept ==
  ASSUME LibraryInv, DocsKept, NEW row, NEW d, Loaded(row, d)
  PROVE  Loaded(row, d)'
<1>1. /\ d \in DOMAIN docs /\ docs[d].ver \in Nat /\ docs'[d].ver \in Nat /\ row.ver \in Nat
      /\ row.ver <= docs[d].ver
      /\ row.ver = docs[d].ver => row.title = docs[d].title /\ row.content = docs[d].content
  BY DEF LibraryInv, DocsKept, Loaded, Sound
<1>2. /\ d \in DOMAIN docs'
      /\ docs[d].ver <= docs'[d].ver
      /\ docs'[d].ver = docs[d].ver =>
           docs'[d].title = docs[d].title /\ docs'[d].content = docs[d].content
  BY <1>1 DEF DocsKept
<1>. QED  BY ONLY <1>1, <1>2 DEF Loaded

LEMMA HeldDocument ==
  ASSUME LibraryInv, DocsKept, NEW w \in Worker, job[w] # None, job'[w] = job[w]
  PROVE  DocumentHeld(w)'
<1>1. DocumentHeld(w)
  BY DEF LibraryInv
<1>2. Op(w)' = Op(w) /\ Req(w)' = Req(w)
  BY DEF Op, Req
<1>3. Loaded(job[w].row, Req(w).doc) => Loaded(job[w].row, Req(w).doc)'
  <2>1. PICK row, d : row = job[w].row /\ d = Req(w).doc
    OBVIOUS
  <2>2. Loaded(row, d) => Loaded(row, d)'
    BY LoadedKept
  <2>. QED  BY <1>2, <2>1, <2>2 DEF Loaded
<1>4. VectorsOf(w)' <=> VectorsOf(w)
  BY <1>2 DEF VectorsOf, Edited
<1>. QED  BY <1>1, <1>2, <1>3, <1>4 DEF DocumentHeld

LEMMA LibraryKept ==
  ASSUME LibraryInv, DocsKept, QuestionSound', SearchesSound',
         \A w \in Worker : job'[w] # None /\ job'[w].pc \in LibrarySteps =>
            (job[w] # None /\ job'[w] = job[w]) \/ DocumentHeld(w)'
  PROVE  LibraryInv'
<1>1. ASSUME NEW w \in Worker, job'[w] # None
      PROVE  DocumentHeld(w)'
  <2>1. CASE job'[w].pc \in LibrarySteps
    BY <1>1, <2>1, HeldDocument
  <2>2. CASE job'[w].pc \notin LibrarySteps
    BY <2>2 DEF DocumentHeld, LibrarySteps
  <2>. QED  BY <2>1, <2>2
<1>2. /\ IsSequence(docs)'
      /\ \A d \in DOMAIN docs' : DOMAIN docs'[d] = DocumentFields /\ docs'[d].ver \in Nat /\ Made(docs'[d])
  BY DEF DocsKept, Sound
<1>3. \A d \in DOMAIN docs' : Made(docs'[d]) <=> Made(docs[d])'
  BY DEF Made, Text
<1>. QED  BY <1>1, <1>2, <1>3 DEF LibraryInv, QuestionSound, SearchesSound, SameVectors

LEMMA LibraryQuiet ==
  ASSUME Shape, LibraryInv, Quiet \/ (\E w \in Worker : AlertStep(w) /\ UNCHANGED learningVars)
  PROVE  LibraryInv'
<1>1. Held(LearningSteps) /\ UNCHANGED learningVars /\ QuestionKept
  <2>1. ASSUME NEW w \in Worker, AlertStep(w), UNCHANGED learningVars
        PROVE  Held(LearningSteps) /\ QuestionKept
    BY <2>1, AlertMoves, MovesHold, StepsApart DEF Elsewhere, QuestionKept, Has
  <2>. QED  BY <2>1 DEF Quiet
<1>2. LibrarySteps \subseteq LearningSteps
  BY DEF LibrarySteps, LearningSteps
<1>3. DocsKept
  BY <1>1, DocsSame DEF learningVars
<1>4. QuestionSound'
  BY <1>1 DEF LibraryInv, QuestionKept, QuestionSound, SameVectors
<1>5. SearchesSound'
  BY <1>1 DEF LibraryInv, SearchesSound, OneVectorSpace, learningVars
<1>. QED  BY <1>1, <1>2, <1>3, <1>4, <1>5, LibraryKept DEF Held

(* A document that is new is of its text.                                  *)
LEMMA DocumentSound ==
  ASSUME NEW title, NEW content, NEW gemini \in {Text(title, content), None},
         NEW jina \in {Text(title, content), None}, NEW source
  PROVE  Sound(Document(title, content, gemini, jina, source))
BY DEF Sound, Made, Document, DocumentFields

LEMMA AppendKeeps ==
  ASSUME LibraryInv, NEW doc, Sound(doc), docs' = Append(docs, doc)
  PROVE  DocsKept
<1>1. /\ IsSequence(docs') /\ Len(docs) \in Nat
      /\ DOMAIN docs = 1..Len(docs) /\ DOMAIN docs' = 1..(Len(docs) + 1)
      /\ docs'[Len(docs) + 1] = doc
      /\ \A i \in DOMAIN docs : docs'[i] = docs[i]
  BY AppendIs DEF LibraryInv, IsSequence
<1>2. \A d \in DOMAIN docs : Sound(docs[d])
  BY DEF LibraryInv, Sound
<1>. QED  BY <1>1, <1>2 DEF DocsKept, Sound

(* A step of w that leaves the jobs of the others as they are.             *)
LEMMA LibraryOwn ==
  ASSUME LibraryInv, DocsKept, QuestionSound', SearchesSound',
         NEW w \in Worker, NEW steps, Moves(w, steps),
         job'[w] # None /\ job'[w].pc \in LibrarySteps => DocumentHeld(w)'
  PROVE  LibraryInv'
BY LibraryKept DEF Moves

LEMMA ReviewMoves ==
  ASSUME Shape, NEW w \in Worker, ReviewStep(w)
  PROVE  Moves(w, AnswerSteps) /\ UNCHANGED <<redis, searches>>
<1>. USE DEF At, Moves, Shape, Shaped, Calls, Fields, AnswerSteps, learningVars, OutsideLearning
<1>1. CASE ReadAnswer(w)
  BY <1>1 DEF ReadAnswer, Keep
<1>2. CASE WriteAnswer(w)
  BY <1>2 DEF WriteAnswer, End
<1>3. CASE EmbedAnswer(w)
  BY <1>3 DEF EmbedAnswer, Goto, End
<1>4. CASE LearnAnswer(w)
  BY <1>4 DEF LearnAnswer, End
<1>. QED  BY <1>1, <1>2, <1>3, <1>4 DEF ReviewStep

(* Of the documents, what an answer, a form or an upload adds.             *)
LEMMA ReviewKeepsDocs ==
  ASSUME LibraryInv, NEW w \in Worker, ReviewStep(w)
  PROVE  DocsKept
<1>1. CASE LearnAnswer(w)
  <2>1. PICK title, content, source :
           docs' = Append(docs, Document(title, content, Text(title, content), None, source))
    BY <1>1 DEF LearnAnswer
  <2>. QED  BY <2>1, DocumentSound, AppendKeeps
<1>2. CASE docs' = docs
  BY <1>2, DocsSame
<1>. QED  BY <1>1, <1>2 DEF ReviewStep, ReadAnswer, WriteAnswer, EmbedAnswer, learningVars

LEMMA CreateKeepsDocs ==
  ASSUME LibraryInv, NEW w \in Worker, CreateDocument(w)
  PROVE  DocsKept
<1>1. CASE docs' = docs
  BY <1>1, DocsSame
<1>2. PICK title, content, source : title = Req(w).title /\ content = Req(w).content /\ source = "staff"
  OBVIOUS
<1>3. ASSUME NEW gemini \in {Text(title, content), None},
             docs' = Append(docs, Document(title, content, gemini, Text(title, content), source))
      PROVE  DocsKept
  BY <1>3, DocumentSound, AppendKeeps
<1>. QED  BY <1>1, <1>2, <1>3 DEF CreateDocument

LEMMA ImportKeepsDocs ==
  ASSUME Shape, LibraryInv, NEW w \in Worker, ImportDocuments(w)
  PROVE  DocsKept
<1>1. CASE docs' = docs
  BY <1>1, DocsSame
<1>2. PICK texts : texts = Req(w).texts
  OBVIOUS
<1>3. Len(texts) \in Nat /\ texts = [k \in 1..Len(texts) |-> texts[k]]
  <2>1. Op(w) = "import" /\ Req(w) \in Requested
    BY DEF ImportDocuments, At, Shape, Shaped, Op, Req, Routes, AdminOnly
  <2>. QED  BY <1>2, <2>1, KnowledgeTyped DEF Op, Req
<1>4. PICK title : title = "upload"
  OBVIOUS
<1>. DEFINE Doc(i) == Document(title, texts[i], Text(title, texts[i]), Text(title, texts[i]), title)
            added == [i \in 1..Len(texts) |-> Doc(i)]
<1>5. ASSUME docs' = docs \o added
      PROVE  DocsKept
  <2>1. added = [i \in 1..Len(texts) |-> added[i]]
    OBVIOUS
  <2>2. \A i \in 1..Len(texts) : Sound(added[i])
    <3>1. ASSUME NEW i \in 1..Len(texts)
          PROVE  Sound(Doc(i))
      BY DocumentSound
    <3>. QED  BY <3>1
  <2>. HIDE DEF added
  <2>3. /\ IsSequence(docs')
        /\ \A i \in DOMAIN docs : docs'[i] = docs[i] /\ i \in DOMAIN docs'
        /\ \A i \in DOMAIN docs' \ DOMAIN docs : i - Len(docs) \in 1..Len(texts) /\ docs'[i] = added[i - Len(docs)]
    <3>1. IsSequence(docs)
      BY DEF LibraryInv
    <3>2. PICK n \in Nat : n = Len(texts)
      BY <1>3
    <3>3. added = [i \in 1..n |-> added[i]]
      BY <2>1, <3>2
    <3>4. /\ IsSequence(docs \o added)
          /\ DOMAIN docs = 1..Len(docs) /\ Len(docs) \in Nat
          /\ DOMAIN (docs \o added) = 1..(Len(docs) + n)
          /\ \A i \in DOMAIN docs : (docs \o added)[i] = docs[i]
          /\ \A i \in DOMAIN (docs \o added) \ DOMAIN docs :
                i - Len(docs) \in 1..n /\ (docs \o added)[i] = added[i - Len(docs)]
      BY ONLY <3>1, <3>2, <3>3, ConcatIs
    <3>. QED  BY ONLY <1>5, <3>2, <3>4
  <2>4. \A d \in DOMAIN docs : Sound(docs[d])
    BY DEF LibraryInv, Sound
  <2>. QED  BY <2>2, <2>3, <2>4 DEF DocsKept, Sound
<1>. QED  BY <1>1, <1>2, <1>3, <1>4, <1>5 DEF ImportDocuments

(* One document is written.                                                *)
LEMMA OneDocKept ==
  ASSUME LibraryInv, NEW d, NEW doc, d \in DOMAIN docs => Sound(doc),
         d \in DOMAIN docs => \/ doc.ver = docs[d].ver + 1
                              \/ /\ doc.ver = docs[d].ver /\ doc.title = docs[d].title
                                 /\ doc.content = docs[d].content,
         docs' = [docs EXCEPT ![d] = doc]
  PROVE  DocsKept
<1>1. IsSequence(docs) /\ \A e \in DOMAIN docs : Sound(docs[e])
  BY DEF LibraryInv, Sound
<1>2. DOMAIN docs' = DOMAIN docs /\ \A e \in DOMAIN docs : docs'[e] = IF e = d THEN doc ELSE docs[e]
  OBVIOUS
<1>3. IsSequence(docs')
  <2>. DEFINE S == {docs[i] : i \in 1..Len(docs)} \cup {doc}
  <2>1. Len(docs) \in Nat /\ docs = [i \in 1..Len(docs) |-> docs[i]]
    BY <1>1 DEF IsSequence
  <2>2. docs' \in [1..Len(docs) -> S]
    BY <1>2, <2>1
  <2>. HIDE DEF S
  <2>3. docs' \in Seq(S)
    BY <2>1, <2>2, SeqDef
  <2>4. Len(docs') \in Nat /\ docs' \in [1..Len(docs') -> S]
    BY <2>3, LenProperties
  <2>. QED  BY <2>4 DEF IsSequence
<1>. QED  BY <1>1, <1>2, <1>3 DEF DocsKept, Sound

LEMMA WriteKeepsDocs ==
  ASSUME Shape, LibraryInv, NEW w \in Worker, WriteDocument(w)
  PROVE  DocsKept
<1>1. PICK d, field, to, seen :
         d = Req(w).doc /\ field = Req(w).field /\ to = Req(w).to /\ seen = job[w].row
  OBVIOUS
<1>2. job[w] # None /\ job[w].pc = "write document" /\ DocumentHeld(w)
  BY DEF WriteDocument, At, LibraryInv
<1>3. Loaded(seen, d) /\ VectorsOf(w) /\ Op(w) = "edit doc"
  BY <1>1, <1>2 DEF DocumentHeld
<1>4. PICK row : row = Flushed(docs[d], seen, [f \in {field} |-> to])
  OBVIOUS
<1>5. PICK doc : doc = IF "vectors" \in DOMAIN seen
                       THEN WithVectors(row, seen.vectors, docs[d].ver # seen.ver)
                       ELSE row
  OBVIOUS
<1>6. docs' = [docs EXCEPT ![d] = doc]
  BY <1>1, <1>4, <1>5 DEF WriteDocument
<1>7. d \in DOMAIN docs /\ DOMAIN docs[d] = DocumentFields /\ docs[d].ver \in Nat /\ Made(docs[d])
  BY <1>3 DEF Loaded, LibraryInv
<1>8. /\ DOMAIN row = DocumentFields
      /\ \A f \in DocumentFields : row[f] = IF f = field /\ to # seen[f] THEN to ELSE docs[d][f]
  <2>1. PICK old : old = docs[d]
    OBVIOUS
  <2>2. row = Flushed(old, seen, [f \in {field} |-> to]) /\ DOMAIN old = DocumentFields
    BY <1>4, <1>7, <2>1
  <2>3. DOMAIN row = DOMAIN old
        /\ \A f \in DOMAIN old : row[f] = IF f = field /\ to # seen[f] THEN to ELSE old[f]
    BY ONLY <2>2 DEF Flushed
  <2>. QED  BY <2>1, <2>2, <2>3
<1>9. field \in Editable
  <2>1. Req(w) \in Requested
    BY <1>2 DEF Shape, Shaped, Req
  <2>. QED  BY <1>1, <1>3, <2>1, KnowledgeTyped DEF Op, Req
<1>10. CASE "vectors" \in DOMAIN seen
  <2>1. /\ DOMAIN seen = DocumentFields \cup {"vectors"}
        /\ seen.vectors.jina = Text(Edited(w, seen).title, Edited(w, seen).content)
        /\ seen.vectors.gemini \in {Text(Edited(w, seen).title, Edited(w, seen).content), None}
    BY <1>1, <1>3, <1>10 DEF VectorsOf
  <2>2. PICK edited : edited = [seen EXCEPT ![field] = to]
    OBVIOUS
  <2>3. edited = Edited(w, seen)
    BY <1>1, <2>2 DEF Edited
  <2>4. docs[d].ver = seen.ver => edited.title = row.title /\ edited.content = row.content
    <3>1. ASSUME docs[d].ver = seen.ver
          PROVE  seen.title = docs[d].title /\ seen.content = docs[d].content
      BY <1>3, <3>1 DEF Loaded
    <3>2. "title" \in DOMAIN seen /\ "content" \in DOMAIN seen
      BY <2>1 DEF DocumentFields
    <3>3. /\ row.title = IF "title" = field /\ to # seen.title THEN to ELSE docs[d].title
          /\ row.content = IF "content" = field /\ to # seen.content THEN to ELSE docs[d].content
      BY <1>8 DEF DocumentFields
    <3>. QED  BY <2>2, <3>1, <3>2, <3>3
  <2>5. PICK vectors, late : vectors = seen.vectors /\ late = (docs[d].ver # seen.ver)
    OBVIOUS
  <2>6. doc = [row EXCEPT !.jina = vectors.jina, !.ver = @ + 1, !.overlapped = late,
                          !.gemini = IF vectors.gemini = None THEN @ ELSE vectors.gemini,
                          !.quota = vectors.gemini = None]
    BY <1>5, <1>10, <2>5 DEF WithVectors
  <2>7. /\ DOMAIN doc = DocumentFields
        /\ doc.ver = docs[d].ver + 1
        /\ doc.title = row.title /\ doc.content = row.content
        /\ doc.jina = vectors.jina /\ doc.overlapped = late
        /\ vectors.gemini = None => doc.quota = TRUE
        /\ vectors.gemini # None => doc.gemini = vectors.gemini
    BY <1>8, <1>9, <2>6 DEF DocumentFields, Editable
  <2>8. Made(doc)
    <3>1. CASE docs[d].ver # seen.ver
      BY <2>5, <2>7, <3>1 DEF Made
    <3>2. CASE docs[d].ver = seen.ver
      <4>1. PICK text : text = Text(row.title, row.content)
        OBVIOUS
      <4>2. vectors.jina = text /\ vectors.gemini \in {text, None}
        BY <2>1, <2>3, <2>4, <2>5, <3>2, <4>1
      <4>. QED  BY <2>7, <4>1, <4>2 DEF Made
    <3>. QED  BY <3>1, <3>2
  <2>9. Sound(doc)
    BY <1>7, <2>7, <2>8 DEF Sound
  <2>. QED  BY <1>6, <2>7, <2>9, OneDocKept
<1>11. CASE "vectors" \notin DOMAIN seen
  <2>1. field = "active" /\ doc = row
    BY <1>1, <1>3, <1>5, <1>11 DEF VectorsOf
  <2>2. /\ row.title = docs[d].title /\ row.content = docs[d].content /\ row.ver = docs[d].ver
        /\ row.gemini = docs[d].gemini /\ row.jina = docs[d].jina
        /\ row.quota = docs[d].quota /\ row.overlapped = docs[d].overlapped
    BY <1>8, <2>1 DEF DocumentFields
  <2>3. Sound(doc)
    BY <1>7, <1>8, <2>1, <2>2 DEF Sound, Made
  <2>. QED  BY <1>6, <2>1, <2>2, <2>3, OneDocKept
<1>. QED  BY <1>10, <1>11

LEMMA DropKeepsDocs ==
  ASSUME LibraryInv, NEW w \in Worker, DropDocument(w)
  PROVE  DocsKept
<1>1. CASE docs' = docs
  BY <1>1, DocsSame
<1>2. PICK d : d = Req(w).doc
  OBVIOUS
<1>3. CASE d \in DOMAIN docs /\ docs' = [docs EXCEPT ![d].active = FALSE]
  <2>1. PICK doc : doc = [docs[d] EXCEPT !.active = FALSE]
    OBVIOUS
  <2>2. docs' = [docs EXCEPT ![d] = doc]
    BY <1>3, <2>1
  <2>3. DOMAIN docs[d] = DocumentFields /\ docs[d].ver \in Nat /\ Made(docs[d])
    BY <1>3 DEF LibraryInv
  <2>4. /\ doc.title = docs[d].title /\ doc.content = docs[d].content /\ doc.ver = docs[d].ver
        /\ doc.gemini = docs[d].gemini /\ doc.jina = docs[d].jina
        /\ doc.quota = docs[d].quota /\ doc.overlapped = docs[d].overlapped
        /\ DOMAIN doc = DOMAIN docs[d]
    BY <2>1
  <2>5. Sound(doc)
    BY <2>3, <2>4 DEF Sound, Made
  <2>. QED  BY <2>2, <2>4, <2>5, OneDocKept
<1>. QED  BY <1>1, <1>2, <1>3 DEF DropDocument

LEMMA LibraryNext ==
  ASSUME Shape, LibraryInv, NEW w \in Worker, LearningStep(w)
  PROVE  LibraryInv'
<1>. USE DEF At
<1>1. QuestionSound /\ SearchesSound
  BY DEF LibraryInv, QuestionSound, SearchesSound, SameVectors
<1>2. redis' = redis => QuestionSound'
  BY <1>1 DEF QuestionSound, Has
<1>3. searches' = searches => SearchesSound'
  BY <1>1 DEF SearchesSound, OneVectorSpace
<1>4. ASSUME DocsKept, UNCHANGED <<redis, searches>>, End(w), job[w] # None
      PROVE  LibraryInv'
  <2>1. job'[w] = None /\ \A v \in Worker : v # w => job'[v] = job[v]
    BY <1>4 DEF End, Shape
  <2>. QED  BY <1>2, <1>3, <1>4, <2>1, LibraryKept
<1>5. ASSUME docs' = docs, UNCHANGED <<redis, searches>>, job[w] # None, DOMAIN job[w] = Fields,
             NEW pc, NEW row, job' = [job EXCEPT ![w].pc = pc, ![w].row = row],
             (/\ job'[w].pc = pc /\ job'[w].row = row /\ job'[w].req = job[w].req)
                => DocumentHeld(w)'
      PROVE  LibraryInv'
  <2>1. /\ job'[w].pc = pc /\ job'[w].row = row /\ job'[w].req = job[w].req
        /\ \A v \in Worker : v # w => job'[v] = job[v]
    BY <1>5 DEF Shape, Fields
  <2>2. DocsKept
    BY <1>5, DocsSame
  <2>. QED  BY <1>2, <1>3, <1>5, <2>1, <2>2, LibraryKept
<1>6. CASE ReviewStep(w)
  <2>1. AnswerSteps \cap LibrarySteps = {}
    BY DEF AnswerSteps, LibrarySteps
  <2>2. job'[w] # None => job'[w].pc \notin LibrarySteps
    BY <1>6, <2>1, ReviewMoves DEF Moves
  <2>. QED  BY <1>2, <1>3, <1>6, <2>2, ReviewMoves, ReviewKeepsDocs, LibraryOwn
<1>7. CASE CreateDocument(w)
  BY <1>4, <1>7, CreateKeepsDocs DEF CreateDocument, OutsideLearning
<1>8. CASE ImportDocuments(w)
  BY <1>4, <1>8, ImportKeepsDocs DEF ImportDocuments, OutsideLearning
<1>9. CASE ReadDocument(w)
  <2>1. /\ job[w] # None /\ DOMAIN job[w] = Fields /\ docs' = docs /\ UNCHANGED <<redis, searches>>
        /\ Op(w) = "edit doc" /\ Req(w) \in Requested
    BY <1>9 DEF ReadDocument, learningVars, OutsideLearning, Shape, Shaped, Op, Req, Routes, AdminOnly
  <2>2. PICK d, field : d = Req(w).doc /\ field = Req(w).field
    OBVIOUS
  <2>3. CASE d \in DOMAIN docs
    <3>1. PICK row : row = docs[d]
      OBVIOUS
    <3>2. PICK pc : pc = IF field = "active" THEN "write document" ELSE "embed document"
      OBVIOUS
    <3>3. job' = [job EXCEPT ![w].pc = pc, ![w].row = row]
      BY <1>9, <2>2, <2>3, <3>1, <3>2 DEF ReadDocument, Keep
    <3>4. DOMAIN row = DocumentFields /\ row.ver \in Nat
      BY <2>3, <3>1 DEF LibraryInv
    <3>5. /\ d \in DOMAIN docs' /\ row.ver <= docs'[d].ver
          /\ row.title = docs'[d].title /\ row.content = docs'[d].content
      <4>1. docs' = docs
        BY <2>1
      <4>2. docs'[d] = row /\ d \in DOMAIN docs'
        BY ONLY <4>1, <2>3, <3>1
      <4>. QED  BY ONLY <3>4, <4>2
    <3>6. ASSUME job'[w].pc = pc, job'[w].row = row, job'[w].req = job[w].req
          PROVE  DocumentHeld(w)'
      <4>1. Op(w)' = "edit doc" /\ Req(w)' = Req(w)
        BY <2>1, <3>6 DEF Op, Req
      <4>2. Loaded(job[w].row, Req(w).doc)'
        BY <2>2, <3>4, <3>5, <3>6, <4>1 DEF Loaded
      <4>3. pc \in {"write document", "embed document"} /\ (pc = "write document" => field = "active")
        BY <3>2
      <4>4. pc = "write document" => VectorsOf(w)'
        <5>1. "vectors" \notin DOMAIN row
          BY <3>4 DEF DocumentFields
        <5>. QED  BY <2>2, <3>4, <3>6, <4>1, <4>3, <5>1 DEF VectorsOf
      <4>. QED  BY <3>4, <3>6, <4>1, <4>2, <4>3, <4>4 DEF DocumentHeld
    <3>. QED  BY <1>5, <2>1, <3>3, <3>6
  <2>4. CASE d \notin DOMAIN docs
    <3>1. End(w)
      BY <1>9, <2>2, <2>4 DEF ReadDocument
    <3>. QED  BY <1>4, <2>1, <3>1, DocsSame
  <2>. QED  BY <2>3, <2>4
<1>10. CASE EmbedDocument(w)
  <2>1. /\ job[w] # None /\ DOMAIN job[w] = Fields /\ docs' = docs /\ UNCHANGED <<redis, searches>>
        /\ job[w].pc = "embed document" /\ DocumentHeld(w)
    BY <1>10 DEF EmbedDocument, learningVars, OutsideLearning, Shape, Shaped, LibraryInv
  <2>2. PICK seen, field, to, d :
           seen = job[w].row /\ field = Req(w).field /\ to = Req(w).to /\ d = Req(w).doc
    OBVIOUS
  <2>3. Op(w) = "edit doc" /\ Loaded(seen, d) /\ DOMAIN seen = DocumentFields
    BY <2>1, <2>2 DEF DocumentHeld
  <2>4. CASE End(w)
    BY <1>4, <2>1, <2>4, DocsSame
  <2>5. PICK text : text = Text(Edited(w, seen).title, Edited(w, seen).content)
    OBVIOUS
  <2>6. ASSUME NEW gemini \in {text, None},
               job' = [job EXCEPT ![w].pc = "write document",
                           ![w].row = Put(@, "vectors", [gemini |-> gemini, jina |-> text])]
        PROVE  LibraryInv'
    <3>1. PICK vectors : vectors = [gemini |-> gemini, jina |-> text]
      OBVIOUS
    <3>2. PICK row : row = Put(seen, "vectors", vectors)
      OBVIOUS
    <3>3. job' = [job EXCEPT ![w].pc = "write document", ![w].row = row]
      BY <2>1, <2>2, <2>6, <3>1, <3>2 DEF Fields
    <3>4. /\ DOMAIN row = DocumentFields \cup {"vectors"}
          /\ \A f \in DocumentFields : row[f] = seen[f]
          /\ row.vectors = vectors
      BY <2>3, <3>2 DEF Put, DocumentFields
    <3>5. row.title = seen.title /\ row.content = seen.content /\ row.ver = seen.ver
      BY <3>4 DEF DocumentFields
    <3>6. field \in {"title", "content", "active"}
      <4>1. Req(w) \in Requested
        BY <2>1 DEF Shape, Shaped, Req
      <4>. QED  BY <2>2, <2>3, <4>1, KnowledgeTyped DEF Op, Req, Editable
    <3>7. text = Text([row EXCEPT ![field] = to].title, [row EXCEPT ![field] = to].content)
      <4>1. PICK before, after : before = [seen EXCEPT ![field] = to] /\ after = [row EXCEPT ![field] = to]
        OBVIOUS
      <4>2. before.title = after.title /\ before.content = after.content
        BY <2>3, <3>4, <3>5, <4>1 DEF DocumentFields
      <4>3. text = Text(before.title, before.content)
        BY <2>2, <2>5, <4>1 DEF Edited
      <4>. QED  BY <4>1, <4>2, <4>3
    <3>8. ASSUME job'[w].pc = "write document", job'[w].row = row, job'[w].req = job[w].req
          PROVE  DocumentHeld(w)'
      <4>1. Op(w)' = "edit doc" /\ Req(w)' = Req(w)
        BY <2>3, <3>8 DEF Op, Req
      <4>2. Loaded(row, d)'
        BY <2>1, <2>3, <3>5 DEF Loaded
      <4>3. Loaded(job[w].row, Req(w).doc)'
        BY <2>2, <3>8, <4>1, <4>2 DEF Loaded
      <4>4. row.vectors.jina = text /\ row.vectors.gemini \in {text, None}
        BY ONLY <3>1, <3>4, gemini \in {text, None}
      <4>5. VectorsOf(w)'
        BY <2>2, <3>4, <3>7, <3>8, <4>1, <4>4 DEF VectorsOf, Edited
      <4>. QED  BY <3>8, <4>1, <4>3, <4>5 DEF DocumentHeld
    <3>. QED  BY <1>5, <2>1, <3>3, <3>8
  <2>. QED  BY <1>10, <2>2, <2>4, <2>5, <2>6 DEF EmbedDocument
<1>11. CASE WriteDocument(w)
  BY <1>4, <1>11, WriteKeepsDocs DEF WriteDocument, OutsideLearning
<1>12. CASE DropDocument(w)
  BY <1>4, <1>12, DropKeepsDocs DEF DropDocument, OutsideLearning
<1>13. ASSUME NEW pc, NEW vector, SameVectors(vector), pc \in {"match", "cache question"},
              job'[w].pc = pc, job'[w].row = vector
       PROVE  DocumentHeld(w)'
  BY <1>13 DEF DocumentHeld, SameVectors
<1>14. ASSUME job[w] # None, Goto(w, "embed question"), docs' = docs, UNCHANGED <<redis, searches>>
       PROVE  LibraryInv'
  <2>1. job'[w].pc = "embed question" /\ \A v \in Worker : v # w => job'[v] = job[v]
    BY <1>14 DEF Goto, Shape, Shaped, Fields
  <2>2. DocumentHeld(w)'
    BY <2>1 DEF DocumentHeld
  <2>. QED  BY <1>2, <1>3, <1>14, <2>1, <2>2, LibraryKept, DocsSame
<1>15. CASE SearchCache(w)
  <2>1. /\ job[w] # None /\ DOMAIN job[w] = Fields /\ docs' = docs /\ UNCHANGED <<redis, searches>>
    BY <1>15 DEF SearchCache, learningVars, OutsideLearning, Shape, Shaped
  <2>2. CASE Has(Question) /\ job' = [job EXCEPT ![w].pc = "match", ![w].row = redis[Question].val]
    <3>1. SameVectors(redis[Question].val)
      BY <1>1, <2>2 DEF QuestionSound
    <3>2. PICK vector : vector = redis[Question].val
      OBVIOUS
    <3>. QED  BY <1>5, <1>13, <2>1, <2>2, <3>1, <3>2
  <2>. QED  BY <1>14, <1>15, <2>1, <2>2 DEF SearchCache
<1>16. CASE EmbedQuestion(w)
  <2>1. /\ job[w] # None /\ DOMAIN job[w] = Fields /\ docs' = docs /\ UNCHANGED <<redis, searches>>
    BY <1>16 DEF EmbedQuestion, learningVars, OutsideLearning, Shape, Shaped
  <2>2. ASSUME NEW model,
               job' = [job EXCEPT ![w].pc = "cache question",
                           ![w].row = [made |-> model, compared |-> Compared(model)]]
        PROVE  LibraryInv'
    <3>1. PICK vector : vector = [made |-> model, compared |-> Compared(model)]
      OBVIOUS
    <3>2. SameVectors(vector)
      BY <3>1 DEF SameVectors, Compared
    <3>. QED  BY <1>5, <1>13, <2>1, <2>2, <3>1, <3>2
  <2>3. CASE End(w)
    BY <1>4, <2>1, <2>3, DocsSame
  <2>. QED  BY <1>16, <2>2, <2>3 DEF EmbedQuestion
<1>17. CASE CacheQuestion(w)
  <2>1. /\ job[w] # None /\ job[w].pc = "cache question" /\ Goto(w, "match")
        /\ docs' = docs /\ searches' = searches
    BY <1>17 DEF CacheQuestion, learningVars
  <2>2. SameVectors(job[w].row)
    BY <2>1 DEF LibraryInv, DocumentHeld, SameVectors
  <2>3. PICK vector, ttl : vector = job[w].row /\ ttl = Ttl.query
    OBVIOUS
  <2>4. SameVectors(vector)
    BY <2>2, <2>3
  <2>5. QuestionSound'
    <3>1. CASE SetEx(Question, vector, ttl)
      BY <2>4, <3>1 DEF SetEx, Put, QuestionSound, Has
    <3>. QED  BY <1>2, <1>17, <2>3, <3>1 DEF CacheQuestion
  <2>6. /\ job'[w].pc = "match" /\ job'[w].row = vector
        /\ \A v \in Worker : v # w => job'[v] = job[v]
    BY <2>1, <2>3 DEF Goto, Shape, Shaped, Fields
  <2>7. DocumentHeld(w)'
    BY <1>13, <2>4, <2>6
  <2>. QED  BY <1>3, <2>1, <2>5, <2>6, <2>7, LibraryKept, DocsSame
<1>18. CASE MatchDocuments(w)
  <2>1. /\ job[w] # None /\ job[w].pc = "match" /\ End(w) /\ docs' = docs /\ redis' = redis
    BY <1>18 DEF MatchDocuments, OutsideLearning
  <2>2. PICK vector, hits :
          vector = job[w].row /\ searches' = Append(searches, Put(vector, "hits", hits))
    BY <1>18 DEF MatchDocuments
  <2>3. SameVectors(vector)
    BY <2>1, <2>2 DEF LibraryInv, DocumentHeld, SameVectors
  <2>4. PICK entry : entry = Put(vector, "hits", hits)
    OBVIOUS
  <2>5. entry.made = entry.compared
    BY <2>3, <2>4 DEF Put, SameVectors
  <2>6. SearchesSound'
    <3>1. /\ IsSequence(searches') /\ Len(searches) \in Nat
          /\ DOMAIN searches = 1..Len(searches) /\ DOMAIN searches' = 1..(Len(searches) + 1)
          /\ searches'[Len(searches) + 1] = entry
          /\ \A i \in DOMAIN searches : searches'[i] = searches[i]
      BY <1>1, <2>2, <2>4, AppendIs DEF SearchesSound, IsSequence
    <3>. QED  BY <1>1, <2>5, <3>1 DEF SearchesSound, OneVectorSpace
  <2>7. job'[w] = None /\ \A v \in Worker : v # w => job'[v] = job[v]
    BY <2>1 DEF End, Shape
  <2>. QED  BY <1>2, <2>1, <2>6, <2>7, LibraryKept, DocsSame
<1>. QED  BY <1>6, <1>7, <1>8, <1>9, <1>10, <1>11, <1>12, <1>15, <1>16, <1>17, <1>18 DEF LearningStep

LEMMA LibraryStepKeeps ==
  Shape /\ Entries /\ LibraryInv /\ [SiteNext]_siteVars => LibraryInv'
BY LearningCases, LibraryQuiet, LibraryNext

LEMMA LibraryAlways == SiteSpec => []LibraryInv
BY LibraryStart, LibraryStepKeeps, ShapesAlways, PTL DEF SiteSpec

(* Whoever searches compares vectors of one model, and finds a document    *)
(* under the text it has now, but for edits that overlapped and an edit    *)
(* that could not reach Gemini.                                            *)
THEOREM SearchFindsStoredText == SiteSpec => []SearchMatchesText
<1>1. LibraryInv => SearchMatchesText
  BY DEF LibraryInv, SearchMatchesText, VectorsMatchText, Made
<1>. QED  BY <1>1, LibraryAlways, PTL

(* A document learned from an answer teaches the correction in force, or   *)
(* the answer changed while its text was embedded.                         *)
THEOREM CorrectionIsLearned == SiteSpec => LearnsCorrection
<1>. DEFINE Taught == \A w \in Worker : LearnAnswer(w) =>
                        \/ answer.ver # job[w].row.ver
                        \/ answer.fixed \in {None, docs'[Len(docs')].content}
<1>1. ASSUME AnswerInv, LibraryInv, NEW w \in Worker, LearnAnswer(w), answer.ver = job[w].row.ver
      PROVE  answer.fixed \in {None, docs'[Len(docs')].content}
  <2>1. AnswerRead(job[w].row)
    BY <1>1 DEF LearnAnswer, At, AnswerInv
  <2>2. job[w].row = answer
    BY <1>1, <2>1 DEF AnswerRead
  <2>3. PICK content, title, source :
           /\ content = Content(answer)
           /\ docs' = Append(docs, Document(title, content, Text(title, content), None, source))
    BY <1>1, <2>2 DEF LearnAnswer
  <2>4. PICK doc : doc = Document(title, content, Text(title, content), None, source)
    OBVIOUS
  <2>5. Len(docs') = Len(docs) + 1 /\ docs'[Len(docs) + 1] = doc
    BY <1>1, <2>3, <2>4, AppendIs DEF LibraryInv
  <2>6. doc.content = content
    BY <2>4 DEF Document
  <2>. QED  BY <2>3, <2>5, <2>6 DEF Content
<1>2. AnswerInv /\ LibraryInv /\ [SiteNext]_siteVars => [Taught]_docs
  BY <1>1
<1>3. LearnsCorrection <=> [][Taught]_docs
  BY DEF LearnsCorrection
<1>. QED  BY <1>2, <1>3, AnswerStart, AnswerStepKeeps, ShapesAlways, LibraryAlways, PTL DEF SiteSpec

=============================================================================
