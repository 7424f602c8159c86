---------------------------- MODULE AnswerProofs -----------------------------
(***************************************************************************)
(* Proofs about the agent and about the answers that a model writes: what  *)
(* a run still knows of its message when it answers, whatever the other    *)
(* runs of its thread have checkpointed, and whose words an answer has,    *)
(* wherever along the chain of providers its call is.                      *)
(***************************************************************************)
EXTENDS SiteSteps, FiniteSetTheorems

(* A call has words of the provider it is at, and of no other one; past    *)
(* the safety checker, its text has no keyword.                            *)
Streaming == {"stream", "store reply"}
Checked(w) ==
    \/ job[w].pc \in {"find documents", "stream", "store reply"}
    \/ job[w].pc = "generate" /\ job[w].row.then = "store reply"

Answering(w) ==
    /\ llm # None
    /\ job[w].row.link \in DOMAIN Chain(llm)
    /\ job[w].row.writers \in {{}, {Serving(w)}}
    /\ job[w].pc \notin Streaming => job[w].row.writers = {}
    /\ Checked(w) => Req(w).text # "keyword"

GenerationInv ==
    /\ llm \in Deployments \cup {None}
    /\ IsSequence(written)
    /\ llm = None => written = <<>>
    /\ \A w \in Worker : job[w] # None /\ job[w].pc \in GenerationSteps => Answering(w)
    /\ WrittenByOne /\ KeywordNeverGenerated

-----------------------------------------------------------------------------
(* What a run of the agent has found in its message stays true of it, and  *)
(* only a call of the write tool waits in its thread.                      *)
StateFields == {"turns", "emergency", "call", "results", "docs", "confidence", "next"}
TalkSteps == {"intake", "hand over", "emergency text", "route", "retrieve", "verify", "respond"}
Harmless == {"route", "run tool", "retrieve", "verify", "respond"}
Running(w) == job[w] # None /\ job[w].pc \in AgentSteps

OfItsMessage(w) ==
    /\ DOMAIN job[w].row = StateFields
    /\ Op(w) \in {"talk", "order", "resume"}
    /\ job[w].pc \in TalkSteps => Op(w) = "talk"
    /\ Op(w) = "talk" =>
         /\ job[w].n \in DOMAIN asked
         /\ asked[job[w].n].text = Req(w).text
         /\ job[w].pc \in Harmless => Req(w).text # "emergency"
         /\ job[w].pc = "emergency text" => Req(w).text = "emergency"
    /\ Op(w) # "talk" => Gated(w)

(* A prompt names its user and the call; who answers one was shown it, and *)
(* whoever confirmed a call had been shown this one.                       *)
OfItsPrompt(w) ==
    /\ Op(w) = "resume" => Req(w).shown \in gate.prompted
    /\ job[w].pc \in {"claim call", "apply call"} =>
         Op(w) = "resume" /\ OwnCall(w) \in gate.prompted

ThreadsKept ==
    /\ DOMAIN threads = {"chat", "orders"}
    /\ \A s \in DOMAIN threads : DOMAIN threads[s] = StateFields
    /\ threads["orders"].next # "end" => threads["orders"].call.name = "order"

GateKept ==
    /\ DOMAIN gate = {"prompted", "applied"}
    /\ \A p \in gate.prompted : p = [user |-> p.user, args |-> p.args]
    /\ PromptedUserApplies

AgentInv ==
    /\ IsSequence(asked) /\ IsSequence(replies)
    /\ ThreadsKept /\ GateKept
    /\ \A w \in Worker : Running(w) => OfItsMessage(w) /\ OfItsPrompt(w)
    /\ \A i \in DOMAIN replies : replies[i].run \in DOMAIN asked
    /\ EmergencyAnswered

-----------------------------------------------------------------------------
(* The turns.  Of the runs that are under way one at most began when none  *)
(* was.  Its turn, and those of its kind that were answered, are counted   *)
(* in every run that is past its intake and, once it is past its own, in   *)
(* the thread; a run before its intake is about to count one more.         *)
TurnOf(w)  == Running(w) /\ Op(w) = "talk"
Alone(w)   == TurnOf(w) /\ ~asked[job[w].n].overlaps
Busy       == \E w \in Worker : Alone(w)
Used       == {i \in DOMAIN replies : replies[i].kind = "generated" /\ ~asked[replies[i].run].overlaps}
Spent      == Cardinality(Used)
Least      == Spent + (IF Busy THEN 1 ELSE 0)

Unlimited == {"intake", "hand over"}
Counted(w) ==
    /\ job[w].row.turns \in Nat
    /\ IF job[w].pc = "intake" THEN job[w].row.turns + 1 >= Least ELSE job[w].row.turns >= Least
    /\ job[w].pc \notin Unlimited => job[w].row.turns <= MaxTurns

TurnInv ==
    /\ Spent <= MaxTurns
    /\ threads["chat"].turns \in Nat
    /\ threads["chat"].turns >= Spent
    /\ \A w \in Worker : Alone(w) /\ job[w].pc # "intake" => threads["chat"].turns >= Spent + 1
    /\ \A v, w \in Worker : Alone(v) /\ Alone(w) => v = w
    /\ \A v, w \in Worker : TurnOf(v) /\ TurnOf(w) /\ job[v].n = job[w].n => v = w
    /\ \A w \in Worker : TurnOf(w) => Counted(w) /\ \A i \in DOMAIN replies : replies[i].run # job[w].n
    /\ \A i, k \in DOMAIN replies : replies[i].run = replies[k].run => i = k

-----------------------------------------------------------------------------
(* Other steps than those of the agent leave its state alone, and so it is *)
(* with the answers.                                                       *)
AgentQuiet      == UNCHANGED agentVars /\ Held(AgentSteps)
GenerationQuiet == UNCHANGED generationVars /\ Held(GenerationSteps)

LEMMA AnswerCases ==
  ASSUME Shape, [SiteNext]_siteVars
  PROVE  /\ AgentQuiet \/ \E w \in Worker : AgentStep(w)
         /\ GenerationQuiet \/ \E w \in Worker : GenerationStep(w)
<1>. DEFINE Apart == Held(AgentSteps) /\ Held(GenerationSteps)
<1>1. ASSUME NEW w \in Worker, NEW steps, Moves(w, steps),
             steps \cap AgentSteps = {}, steps \cap GenerationSteps = {}
      PROVE  Apart
  BY <1>1, MovesHold
<1>2. ASSUME NEW w \in Worker, Begin(w) \/ Step(w)
      PROVE  Apart
  BY <1>2, AccountHolds, StepsApart
<1>3. ASSUME NEW w \in Worker, CatalogStep(w) \/ StorefrontStep(w) \/ AlertStep(w) \/ LearningStep(w)
      PROVE  Apart
  BY <1>1, <1>3, CatalogMoves, StorefrontMoves, AlertMoves, LearningMoves, StepsApart
<1>4. ASSUME NEW w \in Worker, AgentStep(w)
      PROVE  Held(GenerationSteps)
  BY <1>4, AgentMoves, MovesHold, StepsApart
<1>5. ASSUME NEW w \in Worker, GenerationStep(w)
      PROVE  Held(AgentSteps)
  BY <1>5, GenerationMoves, MovesHold, StepsApart
<1>6. ASSUME NEW w \in Worker, Die(w)
      PROVE  Apart /\ UNCHANGED <<agentVars, generationVars>>
  <2>1. Moves(w, {})
    BY <1>6, CrashMoves DEF Die
  <2>. QED  BY <1>1, <1>6, <2>1 DEF Die, beyondCatalogue
<1>7. ASSUME UNCHANGED <<job, agentVars, generationVars>>
      PROVE  Apart
  BY <1>7 DEF Held
<1>8. CASE SiteTick
  <2>1. UNCHANGED <<job, agentVars, generationVars>>
    BY <1>8 DEF SiteTick, Tick
  <2>. QED  BY <1>7, <2>1 DEF AgentQuiet, GenerationQuiet
<1>9. CASE UNCHANGED siteVars
  <2>1. UNCHANGED <<job, agentVars, generationVars>>
    BY <1>9 DEF siteVars, vars
  <2>. QED  BY <1>7, <2>1 DEF AgentQuiet, GenerationQuiet
<1>10. ASSUME NEW w \in Worker, Serve(w)
       PROVE  /\ AgentQuiet \/ AgentStep(w)
              /\ GenerationQuiet \/ GenerationStep(w)
  BY <1>2, <1>3, <1>4, <1>5, <1>10 DEF Serve, beyondCatalogue, AgentQuiet, GenerationQuiet
<1>. QED  BY <1>6, <1>8, <1>9, <1>10 DEF SiteNext, AgentQuiet, GenerationQuiet

-----------------------------------------------------------------------------
(* The chain of a deployment has a first provider, and all have a name.    *)
LEMMA SingleSequence ==
  ASSUME NEW S, S = {} \/ \E x : S = {x}
  PROVE  /\ Cardinality(S) \in Nat
         /\ SetToSeq(S) \in [1..Cardinality(S) -> S]
<1>1. CASE S = {}
  <2>1. Cardinality(S) = 0
    BY <1>1, FS_EmptySet
  <2>2. \E f \in [1..Cardinality(S) -> S] : IsInjective(f)
    <3>1. [i \in 1..0 |-> i] \in [1..0 -> {}] /\ IsInjective([i \in 1..0 |-> i])
      BY DEF IsInjective
    <3>. QED  BY <1>1, <2>1, <3>1
  <2>3. SetToSeq(S) \in [1..Cardinality(S) -> S]
    BY ONLY <2>2 DEF SetToSeq
  <2>. QED  BY <2>1, <2>3
<1>2. ASSUME NEW x, S = {x}
      PROVE  Cardinality(S) \in Nat /\ SetToSeq(S) \in [1..Cardinality(S) -> S]
  <2>1. Cardinality(S) = 1
    BY <1>2, FS_Singleton
  <2>2. \E f \in [1..Cardinality(S) -> S] : IsInjective(f)
    <3>1. [i \in 1..1 |-> x] \in [1..1 -> {x}] /\ IsInjective([i \in 1..1 |-> x])
      BY DEF IsInjective
    <3>. QED  BY <1>2, <2>1, <3>1
  <2>3. SetToSeq(S) \in [1..Cardinality(S) -> S]
    BY ONLY <2>2 DEF SetToSeq
  <2>. QED  BY <2>1, <2>3
<1>. QED  BY <1>1, <1>2

LEMMA ChainIs ==
  ASSUME NEW d \in Deployments
  PROVE  /\ Len(Chain(d)) \in Nat \ {0}
         /\ DOMAIN Chain(d) = 1..Len(Chain(d))
         /\ \A i \in DOMAIN Chain(d) : Chain(d)[i] # None
<1>1. d.name \in Providers /\ None \notin Providers
  BY ONLY DeploymentsNamed
<1>2. Backup(d) \subseteq Providers /\ (Backup(d) = {} \/ \E x : Backup(d) = {x})
  <2>1. \A x : {x} \cap d.keys = {} \/ {x} \cap d.keys = {x}
    OBVIOUS
  <2>. QED  BY <1>1, <2>1 DEF Backup, Providers
<1>3. PICK t, n : t = SetToSeq(Backup(d)) /\ n = Cardinality(Backup(d))
  OBVIOUS
<1>4. n \in Nat /\ t \in [1..n -> Backup(d)]
  BY <1>2, <1>3, SingleSequence
<1>5. PICK s : s = <<d.name>>
  OBVIOUS
<1>6. IsSequence(s) /\ Len(s) = 1 /\ s[1] = d.name
  BY <1>5 DEF IsSequence
<1>7. t = [i \in 1..n |-> t[i]] /\ \A i \in 1..n : t[i] \in Providers
  BY <1>2, <1>4
<1>8. /\ IsSequence(s \o t)
      /\ DOMAIN (s \o t) = 1..(Len(s) + n)
      /\ \A i \in DOMAIN s : (s \o t)[i] = s[i]
      /\ \A i \in DOMAIN (s \o t) \ DOMAIN s : i - Len(s) \in 1..n /\ (s \o t)[i] = t[i - Len(s)]
      /\ DOMAIN s = 1..Len(s)
  <2>1. n \in Nat
    BY <1>4
  <2>2. IsSequence(s)
    BY <1>6
  <2>3. t = [i \in 1..n |-> t[i]]
    BY <1>7
  <2>. QED  BY ONLY <2>1, <2>2, <2>3, ConcatIs
<1>9. Chain(d) = s \o t
  BY <1>3, <1>5 DEF Chain
<1>10. PICK c : c = s \o t
  OBVIOUS
<1>11. Len(c) \in Nat /\ DOMAIN c = 1..Len(c)
  BY <1>8, <1>10 DEF IsSequence
<1>12. \A i \in DOMAIN c : c[i] \in Providers
  <2>1. ASSUME NEW i \in DOMAIN c, i \in DOMAIN s
        PROVE  c[i] \in Providers
    <3>1. i = 1
      BY ONLY <1>6, <1>8, <2>1
    <3>. QED  BY ONLY <1>1, <1>6, <1>8, <1>10, <2>1, <3>1
  <2>2. ASSUME NEW i \in DOMAIN c, i \notin DOMAIN s
        PROVE  c[i] \in Providers
    BY ONLY <1>7, <1>8, <1>10, <2>2
  <2>. QED  BY ONLY <2>1, <2>2
<1>13. 1 \in DOMAIN c
  BY ONLY <1>4, <1>6, <1>8, <1>10
<1>. QED  BY <1>1, <1>9, <1>10, <1>11, <1>12, <1>13

-----------------------------------------------------------------------------
(* The answers.                                                            *)
LEMMA GenerationStart == SiteInit => GenerationInv
<1>. SUFFICES ASSUME SiteInit PROVE GenerationInv
  OBVIOUS
<1>1. llm = None /\ written = <<>> /\ job = [w \in Worker |-> None]
  BY DEF SiteInit, Init, GenerationInit
<1>. QED  BY <1>1, EmptyIs DEF GenerationInv, WrittenByOne, KeywordNeverGenerated

(* Nothing is in the empty sequence.                                       *)
LEMMA NothingIn == ASSUME NEW s, s = <<>> PROVE IsSequence(s) /\ ~ \E i : i \in DOMAIN s
<1>1. IsSequence(s) /\ Len(s) = 0
  BY EmptyIs
<1>2. PICK n : n = Len(s)
  OBVIOUS
<1>3. DOMAIN s = 1..n /\ n = 0
  BY ONLY <1>1, <1>2 DEF IsSequence
<1>. QED  BY <1>1, <1>3

(* An answer that may be given.                                            *)
Sound(e) ==
    /\ Cardinality(e.writers) <= 1
    /\ e.provider \in {None} \cup e.writers
    /\ e.kind = "generated" /\ e.op = "message" /\ Len(Chain(llm)) > 1 => e.provider # None
    /\ e.text = "keyword" => e.writers = {}

LEMMA GenerationQuietKeeps == ASSUME GenerationInv, GenerationQuiet PROVE GenerationInv'
<1>1. UNCHANGED <<llm, written>> /\ Held(GenerationSteps)
  BY DEF GenerationQuiet, generationVars
<1>2. ASSUME NEW w \in Worker, job'[w] # None, job'[w].pc \in GenerationSteps
      PROVE  Answering(w)'
  BY <1>1, <1>2 DEF GenerationInv, Held, Answering, Serving, Checked, Req
<1>3. WrittenByOne' /\ KeywordNeverGenerated'
  BY <1>1 DEF GenerationInv, WrittenByOne, KeywordNeverGenerated
<1>. QED  BY <1>1, <1>2, <1>3 DEF GenerationInv

(* A step of w gives one answer at most.                                   *)
LEMMA GenerationOwn ==
  ASSUME GenerationInv, NEW w \in Worker, Moves(w, GenerationSteps), UNCHANGED llm,
         UNCHANGED written \/ \E e : Sound(e) /\ written' = Append(written, e) /\ llm # None,
         job'[w] # None => Answering(w)'
  PROVE  GenerationInv'
<1>1. ASSUME NEW v \in Worker, job'[v] # None, job'[v].pc \in GenerationSteps
      PROVE  Answering(v)'
  <2>1. CASE v = w
    BY <1>1, <2>1
  <2>2. CASE v # w
    <3>1. job'[v] = job[v] /\ llm' = llm /\ Answering(v)
      BY <1>1, <2>2 DEF Moves, GenerationInv
    <3>. QED  BY <3>1 DEF Answering, Serving, Checked, Req
  <2>. QED  BY <2>1, <2>2
<1>2. CASE UNCHANGED written
  BY <1>1, <1>2 DEF GenerationInv, WrittenByOne, KeywordNeverGenerated
<1>3. ASSUME NEW e, Sound(e), written' = Append(written, e), llm # None
      PROVE  GenerationInv'
  <2>1. /\ IsSequence(written')
        /\ DOMAIN written = 1..Len(written) /\ DOMAIN written' = 1..(Len(written) + 1)
        /\ written'[Len(written) + 1] = e
        /\ \A i \in DOMAIN written : written'[i] = written[i]
    BY <1>3, AppendIs DEF GenerationInv
  <2>2. Len(written) \in Nat
    BY DEF GenerationInv, IsSequence
  <2>3. \A i \in DOMAIN written' : i \in DOMAIN written \/ written'[i] = e
    BY ONLY <2>1, <2>2
  <2>4. ASSUME NEW i \in DOMAIN written'
        PROVE  Sound(written'[i])
    <3>1. CASE i \in DOMAIN written
      <4>1. Sound(written[i])
        BY <3>1 DEF GenerationInv, WrittenByOne, KeywordNeverGenerated, Sound
      <4>. QED  BY <2>1, <3>1, <4>1
    <3>. QED  BY <1>3, <2>3, <2>4, <3>1
  <2>5. WrittenByOne' /\ KeywordNeverGenerated'
    BY <2>4 DEF WrittenByOne, KeywordNeverGenerated, Sound
  <2>. QED  BY <1>1, <1>3, <2>1, <2>5 DEF GenerationInv
<1>. QED  BY <1>2, <1>3

(* What is given from a call has the words of one provider.                *)
LEMMA GivenSound ==
  ASSUME GenerationInv, NEW w \in Worker, job[w] # None, job[w].pc \in GenerationSteps,
         NEW kind, NEW provider, Given(w, kind, provider),
         provider \in {None} \cup job[w].row.writers,
         kind = "generated" /\ Op(w) = "message" /\ Len(Chain(llm)) > 1 => provider # None
  PROVE  \E e : Sound(e) /\ written' = Append(written, e) /\ llm # None
<1>. DEFINE e == [op |-> Op(w), text |-> Req(w).text, intent |-> job[w].row.intent,
                  kind |-> kind, writers |-> job[w].row.writers, provider |-> provider]
<1>1. Answering(w)
  BY DEF GenerationInv
<1>2. PICK writers : writers = job[w].row.writers
  OBVIOUS
<1>3. writers = {} \/ \E x : writers = {x}
  BY <1>1, <1>2 DEF Answering
<1>4. Cardinality(writers) <= 1
  <2>1. Cardinality(writers) \in {0, 1}
    BY <1>3, FS_EmptySet, FS_Singleton
  <2>. QED  BY <2>1
<1>5. Req(w).text = "keyword" => writers = {}
  BY <1>1, <1>2 DEF Answering, Checked, Streaming
<1>6. Sound(e)
  BY <1>2, <1>4, <1>5 DEF Sound
<1>7. written' = Append(written, e)
  BY DEF Given
<1>. QED  BY <1>1, <1>6, <1>7 DEF Answering

LEMMA GenerationNext ==
  ASSUME Shape, GenerationInv, NEW w \in Worker, GenerationStep(w)
  PROVE  GenerationInv'
<1>1. job[w] # None /\ DOMAIN job[w] = Fields /\ DOMAIN job = Worker /\ Moves(w, GenerationSteps)
  BY GenerationMoves DEF Moves, Shape, Shaped
<1>2. ASSUME job[w].pc \in GenerationSteps
      PROVE  /\ Answering(w) /\ llm # None /\ llm \in Deployments
             /\ DOMAIN job[w].row = {"intent", "link", "attempt", "writers", "then"}
  BY <1>1, <1>2 DEF GenerationInv, Answering, Shape, Shaped, Calls, Fresh
<1>. USE DEF At
<1>3. ASSUME UNCHANGED <<llm, written>>, job'[w] # None => Answering(w)'
      PROVE  GenerationInv'
  BY <1>1, <1>3, GenerationOwn
<1>4. ASSUME UNCHANGED llm, End(w), job[w].pc \in GenerationSteps,
             \/ UNCHANGED written
             \/ \E kind \in {"fixed reply", "emergency text", "cut off", "broken off"} :
                  Given(w, kind, None)
             \/ \E p \in job[w].row.writers : p # None /\ Given(w, "generated", p)
             \/ /\ \/ Op(w) # "message"
                   \/ ~ (Len(Chain(llm)) > 1)
                /\ Given(w, "generated", None)
      PROVE  GenerationInv'
  <2>1. job'[w] = None
    BY <1>1, <1>4 DEF End
  <2>2. UNCHANGED written \/ \E e : Sound(e) /\ written' = Append(written, e) /\ llm # None
    <3>1. ASSUME NEW kind \in {"fixed reply", "emergency text", "cut off", "broken off"},
                 Given(w, kind, None)
          PROVE  \E e : Sound(e) /\ written' = Append(written, e) /\ llm # None
      BY <1>1, <1>4, <3>1, GivenSound
    <3>2. ASSUME NEW p \in job[w].row.writers, p # None, Given(w, "generated", p)
          PROVE  \E e : Sound(e) /\ written' = Append(written, e) /\ llm # None
      BY <1>1, <1>4, <3>2, GivenSound
    <3>3. ASSUME Op(w) # "message" \/ ~ (Len(Chain(llm)) > 1), Given(w, "generated", None)
          PROVE  \E e : Sound(e) /\ written' = Append(written, e) /\ llm # None
      BY <1>1, <1>4, <3>3, GivenSound
    <3>. QED  BY <1>4, <3>1, <3>2, <3>3
  <2>. QED  BY <1>1, <1>4, <2>1, <2>2, GenerationOwn
<1>5. ASSUME UNCHANGED <<llm, written>>, job[w].pc \in GenerationSteps,
             NEW pc, NEW link \in DOMAIN Chain(llm), NEW then,
             job'[w].pc = pc, job'[w].req = job[w].req,
             job'[w].row.link = link, job'[w].row.writers = {}, job'[w].row.then = then,
             \/ Checked(w)
             \/ Req(w).text # "keyword"
             \/ /\ pc \notin {"find documents", "stream", "store reply"}
                /\ ~ (pc = "generate" /\ then = "store reply")
      PROVE  GenerationInv'
  <2>1. Answering(w)'
    BY <1>2, <1>5 DEF Answering, Checked, Req, Serving
  <2>. QED  BY <1>3, <1>5, <2>1
<1>6. \A d \in Deployments : 1 \in DOMAIN Chain(d)
  BY ChainIs
<1>7. ASSUME NEW pc \in {"classify", "check text"}, Wire(w, pc)
      PROVE  GenerationInv'
  <2>1. llm' \in Deployments /\ None \notin Deployments /\ UNCHANGED written
    BY <1>7, DeploymentsNamed DEF Wire, GenerationInv
  <2>2. job'[w] # None => Answering(w)'
    <3>1. CASE End(w)
      BY <1>1, <3>1 DEF End
    <3>2. CASE job' = [job EXCEPT ![w].pc = pc, ![w].row = Fresh]
      <4>1. job'[w].pc = pc /\ job'[w].row = Fresh
        BY <1>1, <3>2 DEF Fields
      <4>2. PICK d \in Deployments : d = llm'
        BY <2>1
      <4>3. 1 \in DOMAIN Chain(d) /\ d # None
        BY <1>6, <2>1, <4>2
      <4>4. job'[w].row.link = 1 /\ job'[w].row.writers = {}
        <5>1. Fresh.link = 1 /\ Fresh.writers = {}
          BY DEF Fresh
        <5>. QED  BY <4>1, <5>1
      <4>. QED  BY <1>7, <4>1, <4>2, <4>3, <4>4 DEF Answering, Checked, Streaming
    <3>. QED  BY <1>7, <3>1, <3>2 DEF Wire
  <2>3. CASE llm' = llm
    BY <1>3, <2>1, <2>2, <2>3
  <2>4. CASE llm = None
    <3>1. ASSUME NEW v \in Worker, job'[v] # None, job'[v].pc \in GenerationSteps
          PROVE  Answering(v)'
      BY <1>1, <2>2, <2>4, <3>1 DEF Moves, GenerationInv, Answering
    <3>2. written' = <<>>
      BY <2>1, <2>4 DEF GenerationInv
    <3>3. IsSequence(written)' /\ WrittenByOne' /\ KeywordNeverGenerated'
      BY ONLY <3>2, NothingIn DEF WrittenByOne, KeywordNeverGenerated
    <3>. QED  BY <2>1, <3>1, <3>2, <3>3 DEF GenerationInv
  <2>. QED  BY <1>7, <2>3, <2>4 DEF Wire
<1>8. CASE StartMessage(w) \/ StartQuestion(w)
  BY <1>7, <1>8 DEF StartMessage, StartQuestion
<1>. DEFINE row == job[w].row
(* The call goes on, at a step where it has no words yet.                  *)
<1>9. ASSUME UNCHANGED <<llm, written>>, job[w].pc \in GenerationSteps \ Streaming,
             NEW pc, pc \notin {"find documents", "stream", "store reply", "generate"} \/ Checked(w)
                       \/ Req(w).text # "keyword",
             \/ job' = [job EXCEPT ![w].pc = pc]
             \/ \E intent : Intend(w, intent, pc)
      PROVE  GenerationInv'
  <2>1. row.link \in DOMAIN Chain(llm) /\ row.writers = {}
    BY <1>2, <1>9 DEF Answering
  <2>2. /\ job'[w].pc = pc /\ job'[w].req = job[w].req
        /\ job'[w].row.link = row.link /\ job'[w].row.writers = row.writers
        /\ job'[w].row.then = row.then
    <3>1. CASE job' = [job EXCEPT ![w].pc = pc]
      BY <1>1, <1>9, <3>1 DEF Fields
    <3>2. CASE \E intent : Intend(w, intent, pc)
      <4>1. PICK intent : job' = [job EXCEPT ![w].pc = pc, ![w].row.intent = intent]
        BY <3>2 DEF Intend
      <4>2. /\ job'[w].pc = pc /\ job'[w].req = job[w].req
            /\ job'[w].row = [row EXCEPT !.intent = intent]
        BY <1>1, <4>1 DEF Fields
      <4>3. PICK r : r = [row EXCEPT !.intent = intent]
        OBVIOUS
      <4>4. r.link = row.link /\ r.writers = row.writers /\ r.then = row.then
        BY <1>2, <1>9, <4>3
      <4>. QED  BY ONLY <4>2, <4>3, <4>4
    <3>. QED  BY ONLY <1>9, <3>1, <3>2
  <2>. QED  BY <1>5, <1>9, <2>1, <2>2
<1>10. CASE BareCategory(w)
  BY <1>9, <1>10 DEF BareCategory, GenerationSteps, Streaming
<1>11. CASE EmbedMessage(w)
  <2>1. UNCHANGED <<llm, written>> /\ job[w].pc \in GenerationSteps \ Streaming
    BY <1>11 DEF EmbedMessage, GenerationSteps, Streaming
  <2>2. CASE End(w)
    BY <1>4, <2>1, <2>2
  <2>3. ASSUME NEW category, NEW pc \in {"ask model", "decide reply"}, Intend(w, category, pc)
        PROVE  GenerationInv'
    BY <1>9, <2>1, <2>3
  <2>4. CASE Goto(w, "ask model")
    BY <1>9, <2>1, <2>4 DEF Goto
  <2>. QED  BY <1>11, <2>2, <2>3, <2>4 DEF EmbedMessage
<1>12. CASE AskModel(w)
  <2>1. UNCHANGED <<llm, written>> /\ job[w].pc \in GenerationSteps \ Streaming
    BY <1>12 DEF AskModel, GenerationSteps, Streaming
  <2>2. row.link \in DOMAIN Chain(llm) /\ row.writers = {}
    BY <1>2, <2>1 DEF Answering
  <2>3. /\ job'[w].pc = "generate" /\ job'[w].req = job[w].req
        /\ job'[w].row.link = row.link /\ job'[w].row.writers = row.writers
        /\ job'[w].row.then = "judge"
    BY <1>1, <1>2, <1>12, <2>1 DEF Fields, AskModel, Call
  <2>. QED  BY <1>5, <2>1, <2>2, <2>3
<1>13. CASE Judge(w)
  <2>1. UNCHANGED <<llm, written>> /\ job[w].pc \in GenerationSteps \ Streaming
    BY <1>13 DEF Judge, GenerationSteps, Streaming
  <2>2. CASE End(w)
    BY <1>4, <2>1, <2>2
  <2>3. ASSUME NEW category, Intend(w, category, "decide reply")
        PROVE  GenerationInv'
    BY <1>9, <2>1, <2>3
  <2>. QED  BY <1>13, <2>2, <2>3 DEF Judge
<1>14. CASE PlanReply(w)
  <2>1. UNCHANGED llm /\ job[w].pc \in GenerationSteps \ Streaming
    BY <1>14 DEF PlanReply, GenerationSteps, Streaming
  <2>2. CASE End(w) /\ Given(w, "fixed reply", None)
    BY <1>4, <2>1, <2>2
  <2>3. CASE Goto(w, "check text") /\ UNCHANGED written
    BY <1>9, <2>1, <2>3 DEF Goto
  <2>. QED  BY <1>14, <2>2, <2>3 DEF PlanReply
<1>15. CASE CheckSafety(w)
  <2>1. UNCHANGED llm /\ job[w].pc \in GenerationSteps \ Streaming
    BY <1>15 DEF CheckSafety, GenerationSteps, Streaming
  <2>2. CASE CheckQuery(w)
    BY <1>4, <1>15, <2>1, <2>2 DEF CheckSafety
  <2>3. CASE ~CheckQuery(w)
    BY <1>9, <1>15, <2>1, <2>3 DEF CheckSafety, CheckQuery, Goto
  <2>. QED  BY <2>2, <2>3
<1>16. CASE FindDocuments(w)
  <2>1. UNCHANGED <<llm, written>> /\ job[w].pc \in GenerationSteps \ Streaming /\ Checked(w)
    BY <1>16 DEF FindDocuments, GenerationSteps, Streaming, Checked
  <2>2. CASE End(w)
    BY <1>4, <2>1, <2>2
  <2>3. CASE Goto(w, "stream")
    BY <1>9, <2>1, <2>3 DEF Goto
  <2>4. CASE Call(w, "store reply")
    <3>1. row.link \in DOMAIN Chain(llm) /\ row.writers = {}
      BY <1>2, <2>1 DEF Answering
    <3>2. /\ job'[w].pc = "generate" /\ job'[w].req = job[w].req
          /\ job'[w].row.link = row.link /\ job'[w].row.writers = row.writers
          /\ job'[w].row.then = "store reply"
      BY <1>1, <1>2, <2>1, <2>4 DEF Fields, Call
    <3>. QED  BY <1>5, <2>1, <3>1, <3>2
  <2>. QED  BY <1>16, <2>2, <2>3, <2>4 DEF FindDocuments
(* A provider failed: the call is tried again, passed on or given up.      *)
<1>17. ASSUME UNCHANGED <<llm, written>>, NEW error, job[w].pc \in {"generate", "stream"},
              NextProvider(w), MayFallBack(w, error)
       PROVE  GenerationInv'
  <2>1. row.link \in DOMAIN Chain(llm) /\ row.writers = {} /\ row.link < Len(Chain(llm))
    BY <1>2, <1>17 DEF Answering, MayFallBack, HasNext, GenerationSteps
  <2>2. /\ job'[w].pc = job[w].pc /\ job'[w].req = job[w].req
        /\ job'[w].row.link = row.link + 1 /\ job'[w].row.writers = row.writers
        /\ job'[w].row.then = row.then
    BY <1>1, <1>2, <1>17 DEF Fields, NextProvider, GenerationSteps
  <2>3. row.link + 1 \in DOMAIN Chain(llm)
    <3>1. llm \in Deployments
      BY <1>2, <1>17 DEF GenerationSteps
    <3>2. PICK n \in Nat : n = Len(Chain(llm)) /\ DOMAIN Chain(llm) = 1..n
      BY <3>1, ChainIs
    <3>. QED  BY <2>1, <3>2
  <2>4. Checked(w) \/ ~ (job[w].pc = "generate" /\ row.then = "store reply")
    BY DEF Checked
  <2>. QED  BY <1>5, <1>17, <2>1, <2>2, <2>3, <2>4 DEF Checked, GenerationSteps
<1>18. ASSUME UNCHANGED llm, job[w].pc \in {"generate", "stream"}, Raise(w)
       PROVE  GenerationInv'
  BY <1>4, <1>18 DEF Raise, GenerationSteps
<1>19. CASE Generate(w)
  <2>1. UNCHANGED llm /\ job[w].pc = "generate" /\ job[w].pc \in GenerationSteps
    BY <1>19 DEF Generate, GenerationSteps
  <2>2. row.then \in {"judge", "store reply"} /\ Answering(w) /\ row.writers = {}
    BY <1>1, <1>2, <2>1 DEF Shape, Shaped, Calls, Answering, Streaming
  <2>3. PICK r : r = IF row.then = "judge" THEN [Fresh EXCEPT !.intent = row.intent]
                     ELSE [row EXCEPT !.writers = {Serving(w)}]
    OBVIOUS
  <2>4. CASE job' = [job EXCEPT ![w].pc = row.then, ![w].row = r] /\ UNCHANGED written
    <3>1. job'[w].pc = row.then /\ job'[w].req = job[w].req /\ job'[w].row = r
      BY <1>1, <2>4 DEF Fields
    <3>2. CASE row.then = "judge"
      <4>1. r.link = 1 /\ r.writers = {} /\ 1 \in DOMAIN Chain(llm) /\ r.then = None
        BY <1>2, <1>6, <2>1, <2>3, <3>2 DEF Fresh
      <4>. QED  BY <1>5, <2>1, <2>4, <3>1, <3>2, <4>1
    <3>3. CASE row.then = "store reply"
      <4>1. r.link = row.link /\ r.writers = {Serving(w)}
        BY <1>2, <2>1, <2>3, <3>3
      <4>2. Req(w).text # "keyword"
        BY <2>1, <2>2, <3>3 DEF Answering, Checked
      <4>3. Answering(w)'
        BY <2>1, <2>2, <3>1, <3>3, <4>1, <4>2 DEF Answering, Serving, Streaming, Req
      <4>. QED  BY <1>3, <2>1, <2>4, <4>3
    <3>. QED  BY <2>2, <3>2, <3>3
  <2>5. CASE job' = [job EXCEPT ![w].row.attempt = @ + 1] /\ UNCHANGED written
    <3>1. /\ job'[w].pc = job[w].pc /\ job'[w].req = job[w].req
          /\ job'[w].row.link = row.link /\ job'[w].row.writers = row.writers
          /\ job'[w].row.then = row.then
      BY <1>1, <1>2, <2>1, <2>5 DEF Fields
    <3>. QED  BY <1>5, <2>1, <2>2, <2>5, <3>1 DEF Checked, Answering
  <2>6. ASSUME NEW error, MayFallBack(w, error), NextProvider(w), UNCHANGED written
        PROVE  GenerationInv'
    BY <1>17, <2>1, <2>6
  <2>7. CASE Raise(w)
    BY <1>18, <2>1, <2>7
  <2>. QED  BY ONLY <1>19, <2>3, <2>4, <2>5, <2>6, <2>7 DEF Generate
<1>20. CASE Stream(w)
  <2>1. UNCHANGED llm /\ job[w].pc = "stream" /\ job[w].pc \in GenerationSteps
    BY <1>20 DEF Stream, GenerationSteps
  <2>2. Answering(w) /\ Req(w).text # "keyword"
    BY <1>2, <2>1 DEF Answering, Checked
  <2>3. ASSUME UNCHANGED written, job'[w].req = job[w].req, job'[w].pc \in Streaming,
               job'[w].row.link = row.link, job'[w].row.writers \in {row.writers, {Serving(w)}}
        PROVE  GenerationInv'
    <3>1. Answering(w)'
      BY <2>1, <2>2, <2>3 DEF Answering, Serving, Streaming, Req
    <3>. QED  BY <1>3, <2>1, <2>3, <3>1
  <2>4. CASE job' = [job EXCEPT ![w].row.writers = @ \cup {Serving(w)}] /\ UNCHANGED written
    <3>1. PICK x : x = Serving(w)
      OBVIOUS
    <3>2. /\ job'[w].pc = job[w].pc /\ job'[w].req = job[w].req
          /\ job'[w].row.link = row.link /\ job'[w].row.writers = row.writers \cup {x}
      BY <1>1, <1>2, <2>1, <2>4, <3>1 DEF Fields
    <3>3. row.writers \cup {x} = {x}
      BY <2>2, <3>1 DEF Answering
    <3>. QED  BY <2>1, <2>3, <2>4, <3>1, <3>2, <3>3 DEF Streaming
  <2>5. CASE Goto(w, "store reply") /\ UNCHANGED written
    <3>1. job'[w].pc = "store reply" /\ job'[w].req = job[w].req /\ job'[w].row = row
      BY <1>1, <2>5 DEF Fields, Goto
    <3>. QED  BY <2>3, <2>5, <3>1 DEF Streaming
  <2>6. ASSUME NEW error, MayFallBack(w, error), NextProvider(w), UNCHANGED written
        PROVE  GenerationInv'
    BY <1>17, <2>1, <2>6
  <2>7. CASE Raise(w)
    BY <1>18, <2>1, <2>7
  <2>. QED  BY ONLY <1>20, <2>4, <2>5, <2>6, <2>7 DEF Stream
<1>21. CASE Disconnect(w)
  BY <1>4, <1>21 DEF Disconnect, GenerationSteps
<1>22. CASE Store(w)
  <2>1. UNCHANGED llm /\ job[w].pc = "store reply" /\ job[w].pc \in GenerationSteps /\ End(w)
    BY <1>22 DEF Store, GenerationSteps
  <2>2. CASE row.writers = {}
    BY <1>4, <1>22, <2>1, <2>2 DEF Store
  <2>3. CASE row.writers # {} /\ Given(w, "generated", Attributed(w))
    <3>1. row.writers = {Serving(w)} /\ Serving(w) # None
      BY <1>2, <2>1, <2>3, ChainIs DEF Answering, Serving
    <3>2. CASE Attributed(w) = Serving(w)
      BY <1>4, <2>1, <2>3, <3>1, <3>2
    <3>3. CASE Attributed(w) = None /\ (Op(w) # "message" \/ ~ (Len(Chain(llm)) > 1))
      BY <1>4, <2>1, <2>3, <3>3
    <3>. QED  BY <3>2, <3>3 DEF Attributed
  <2>. QED  BY <1>22, <2>2, <2>3 DEF Store
<1>. QED  BY <1>8, <1>10, <1>11, <1>12, <1>13, <1>14, <1>15, <1>16, <1>19, <1>20, <1>21, <1>22
          DEF GenerationStep

LEMMA GenerationAlways == SiteSpec => [](Shape /\ GenerationInv)
<1>1. Shape /\ GenerationInv /\ [SiteNext]_siteVars => GenerationInv'
  BY AnswerCases, GenerationQuietKeeps, GenerationNext
<1>. QED  BY <1>1, ShapeInit, ShapeNext, GenerationStart, PTL DEF SiteSpec

(* No answer is spliced from two models, and its provider is the one that  *)
(* wrote it, whatever fails along the chain and wherever a stream breaks.  *)
THEOREM OneModelWrites == SiteSpec => []WrittenByOne
<1>1. GenerationInv => WrittenByOne
  BY DEF GenerationInv
<1>. QED  BY <1>1, GenerationAlways, PTL

-----------------------------------------------------------------------------
(* The agent.                                                              *)
LEMMA AgentStart == SiteInit => AgentInv
<1>. SUFFICES ASSUME SiteInit PROVE AgentInv
  OBVIOUS
<1>1. asked = <<>> /\ replies = <<>> /\ gate = [prompted |-> {}, applied |-> {}]
  BY DEF SiteInit, AgentInit
<1>2. ASSUME NEW w \in Worker
      PROVE  ~ Running(w)
  BY DEF SiteInit, Init, Running
<1>3. ThreadsKept
  BY DEF SiteInit, AgentInit, ThreadsKept, StateFields
<1>4. GateKept
  BY <1>1 DEF GateKept, PromptedUserApplies
<1>5. IsSequence(asked) /\ IsSequence(replies) /\ ~ \E i : i \in DOMAIN replies
  BY ONLY <1>1, NothingIn
<1>. QED  BY <1>2, <1>3, <1>4, <1>5 DEF AgentInv, EmergencyAnswered

LEMMA AgentQuietKeeps == ASSUME AgentInv, AgentQuiet PROVE AgentInv'
<1>1. UNCHANGED <<threads, asked, replies, gate>>
  BY DEF AgentQuiet, agentVars
<1>2. ASSUME NEW w \in Worker, Running(w)'
      PROVE  OfItsMessage(w)' /\ OfItsPrompt(w)'
  <2>1. job'[w] = job[w] /\ Running(w)
    BY <1>2 DEF AgentQuiet, Held, Running
  <2>2. OfItsMessage(w) /\ OfItsPrompt(w)
    BY <2>1 DEF AgentInv
  <2>. QED  BY <1>1, <2>1, <2>2 DEF OfItsMessage, OfItsPrompt, Op, Req, Who, Gated, OwnCall
<1>3. ThreadsKept' /\ GateKept' /\ EmergencyAnswered'
  BY <1>1 DEF AgentInv, ThreadsKept, GateKept, EmergencyAnswered, PromptedUserApplies
<1>. QED  BY <1>1, <1>2, <1>3 DEF AgentInv

(* What an answer must be for the message it is given for.                 *)
Fitting(e) ==
    /\ e.run \in DOMAIN asked
    /\ IF asked[e.run].text = "emergency" THEN e.kind # "generated" ELSE e.kind # "emergency"

LEMMA AgentOwn ==
  ASSUME AgentInv, NEW w \in Worker, Moves(w, AgentSteps), ThreadsKept', GateKept',
         gate.prompted \subseteq gate'.prompted,
         \/ UNCHANGED <<asked, replies>>
         \/ UNCHANGED replies /\ \E e : asked' = Append(asked, e)
         \/ UNCHANGED asked /\ \E e : Fitting(e) /\ replies' = Append(replies, e),
         job'[w] # None => OfItsMessage(w)' /\ OfItsPrompt(w)'
  PROVE  AgentInv'
<1>1. IsSequence(asked)' /\ \A n \in DOMAIN asked : n \in DOMAIN asked' /\ asked'[n] = asked[n]
  <2>1. CASE asked' = asked
    BY <2>1 DEF AgentInv
  <2>2. ASSUME NEW e, asked' = Append(asked, e)
        PROVE  /\ IsSequence(asked)'
               /\ \A n \in DOMAIN asked : n \in DOMAIN asked' /\ asked'[n] = asked[n]
    <3>1. /\ IsSequence(asked')
          /\ DOMAIN asked = 1..Len(asked) /\ DOMAIN asked' = 1..(Len(asked) + 1)
          /\ \A i \in DOMAIN asked : asked'[i] = asked[i]
      BY <2>2, AppendIs DEF AgentInv
    <3>2. Len(asked) \in Nat
      BY DEF AgentInv, IsSequence
    <3>. QED  BY <3>1, <3>2
  <2>. QED  BY <2>1, <2>2
<1>2. IsSequence(replies)' /\ \A i \in DOMAIN replies' : Fitting(replies'[i])
  <2>1. \A i \in DOMAIN replies : Fitting(replies[i])
    BY DEF AgentInv, EmergencyAnswered, Fitting
  <2>2. CASE replies' = replies
    BY <2>1, <2>2 DEF AgentInv
  <2>3. ASSUME NEW e, Fitting(e), replies' = Append(replies, e)
        PROVE  IsSequence(replies)' /\ \A i \in DOMAIN replies' : Fitting(replies'[i])
    <3>1. /\ IsSequence(replies')
          /\ DOMAIN replies = 1..Len(replies) /\ DOMAIN replies' = 1..(Len(replies) + 1)
          /\ replies'[Len(replies) + 1] = e
          /\ \A i \in DOMAIN replies : replies'[i] = replies[i]
      BY <2>3, AppendIs DEF AgentInv
    <3>2. Len(replies) \in Nat
      BY DEF AgentInv, IsSequence
    <3>3. \A i \in DOMAIN replies' : i \in DOMAIN replies \/ replies'[i] = e
      BY ONLY <3>1, <3>2
    <3>. QED  BY <2>1, <2>3, <3>1, <3>3
  <2>. QED  BY <2>2, <2>3
<1>3. EmergencyAnswered' /\ \A i \in DOMAIN replies' : replies'[i].run \in DOMAIN asked'
  BY <1>1, <1>2 DEF EmergencyAnswered, Fitting
<1>4. ASSUME NEW v \in Worker, Running(v)'
      PROVE  OfItsMessage(v)' /\ OfItsPrompt(v)'
  <2>1. CASE v = w
    BY <1>4, <2>1 DEF Running
  <2>2. CASE v # w
    <3>1. job'[v] = job[v] /\ OfItsMessage(v) /\ OfItsPrompt(v)
      BY <1>4, <2>2 DEF Moves, Running, AgentInv
    <3>. QED  BY <1>1, <3>1 DEF OfItsMessage, OfItsPrompt, Op, Req, Who, Gated, OwnCall
  <2>. QED  BY <2>1, <2>2
<1>. QED  BY <1>1, <1>2, <1>3, <1>4 DEF AgentInv

(* What a checkpoint leaves in the thread, and in the run.                 *)
LEMMA CheckpointIs ==
  ASSUME Shape, AgentInv, NEW w \in Worker, job[w] # None,
         NEW state, DOMAIN state = StateFields,
         NEW next, Op(w) = "talk" \/ next = "end", Checkpoint(w, state, next)
  PROVE  /\ ThreadsKept'
         /\ IF Op(w) = "talk" THEN threads'["chat"].turns = state.turns
                              ELSE threads'["chat"] = threads["chat"]
         /\ next = "end" => job'[w] = None
         /\ next # "end" => /\ job'[w].pc = next /\ job'[w].row = state
                            /\ job'[w].req = job[w].req /\ job'[w].n = job[w].n
                            /\ job'[w].user = job[w].user
<1>1. DOMAIN job = Worker /\ DOMAIN job[w] = Fields /\ ThreadsKept
  BY DEF Shape, Shaped, AgentInv
<1>2. PICK j : j = IF next = "end" THEN None ELSE [job[w] EXCEPT !.pc = next, !.row = state]
  OBVIOUS
<1>3. job'[w] = j
  BY <1>1, <1>2 DEF Checkpoint
<1>4. next # "end" => /\ j.pc = next /\ j.row = state /\ j.req = job[w].req
                      /\ j.n = job[w].n /\ j.user = job[w].user
  BY <1>1, <1>2 DEF Fields
<1>5. PICK s : s = [state EXCEPT !.next = next]
  OBVIOUS
<1>6. DOMAIN s = StateFields /\ s.next = next /\ s.turns = state.turns
  BY <1>5 DEF StateFields
<1>7. threads' = [threads EXCEPT ![Thread(Op(w))] = s]
  BY <1>5 DEF Checkpoint
<1>8. CASE Op(w) = "talk"
  BY <1>1, <1>3, <1>4, <1>2, <1>6, <1>7, <1>8 DEF Thread, ThreadsKept
<1>9. CASE Op(w) # "talk"
  BY <1>1, <1>3, <1>4, <1>2, <1>6, <1>7, <1>9 DEF Thread, ThreadsKept
<1>. QED  BY <1>8, <1>9

(* What a run begins with: the state of its thread, or with a call in it.  *)
LEMMA EnterIs ==
  ASSUME Shape, AgentInv, NEW w \in Worker, job[w] # None,
         NEW state, DOMAIN state = StateFields, Op(w) # "talk" => state.call.name = "order",
         NEW pc, Enter(w, state, pc)
  PROVE  /\ ThreadsKept'
         /\ IF Op(w) = "talk" THEN threads'["chat"].turns = state.turns
                              ELSE threads'["chat"] = threads["chat"]
         /\ job'[w].pc = pc /\ job'[w].row = state /\ job'[w].req = job[w].req
         /\ job'[w].n = Len(asked) + 1
<1>1. DOMAIN job = Worker /\ DOMAIN job[w] = Fields /\ ThreadsKept
  BY DEF Shape, Shaped, AgentInv
<1>2. PICK caller : job' = [job EXCEPT ![w].pc = pc, ![w].user = caller, ![w].row = state,
                                       ![w].n = Len(asked) + 1]
  BY DEF Enter
<1>3. /\ job'[w].pc = pc /\ job'[w].row = state /\ job'[w].req = job[w].req
      /\ job'[w].n = Len(asked) + 1
  BY <1>1, <1>2 DEF Fields
<1>4. PICK s : s = [state EXCEPT !.next = pc]
  OBVIOUS
<1>5. DOMAIN s = StateFields /\ s.call = state.call /\ s.turns = state.turns
  BY <1>4 DEF StateFields
<1>6. threads' = [threads EXCEPT ![Thread(Op(w))] = s]
  BY <1>4 DEF Enter
<1>7. CASE Op(w) = "talk"
  BY <1>1, <1>3, <1>5, <1>6, <1>7 DEF Thread, ThreadsKept
<1>8. CASE Op(w) # "talk"
  BY <1>1, <1>3, <1>5, <1>6, <1>8 DEF Thread, ThreadsKept
<1>. QED  BY <1>7, <1>8

LEMMA AgentNext ==
  ASSUME Shape, AgentInv, NEW w \in Worker, AgentStep(w)
  PROVE  AgentInv'
<1>1. /\ job[w] # None /\ DOMAIN job[w] = Fields /\ DOMAIN job = Worker
      /\ Moves(w, AgentSteps)
  BY AgentMoves DEF Moves, Shape, Shaped
<1>. USE DEF At
<1>. DEFINE pc == job[w].pc
            row == job[w].row
<1>2. ASSUME pc \in AgentSteps
      PROVE  /\ OfItsMessage(w) /\ OfItsPrompt(w) /\ DOMAIN row = StateFields
             /\ Op(w) = "talk" => job[w].n \in DOMAIN asked /\ asked[job[w].n].text = Req(w).text
  BY <1>1, <1>2 DEF AgentInv, Running, OfItsMessage
<1>3. UNCHANGED gate => GateKept'
  BY DEF AgentInv, GateKept, PromptedUserApplies
<1>4. UNCHANGED threads => ThreadsKept'
  BY DEF AgentInv, ThreadsKept
(* The run goes on with a state of its thread, or answers.                 *)
<1>5. ASSUME pc \in AgentSteps, NEW state, DOMAIN state = StateFields,
             NEW next \in TalkSteps \cup {"run tool", "end"}, Checkpoint(w, state, next),
             Op(w) = "talk" \/ next = "end", UNCHANGED <<asked, gate>>,
             \/ UNCHANGED replies
             \/ \E kind : /\ Op(w) = "talk" /\ Reply(w, kind)
                          /\ IF Req(w).text = "emergency" THEN kind # "generated"
                                                           ELSE kind # "emergency",
             next \in Harmless => Req(w).text # "emergency",
             next = "emergency text" => Req(w).text = "emergency"
      PROVE  AgentInv'
  <2>1. /\ ThreadsKept'
        /\ next = "end" => job'[w] = None
        /\ next # "end" => /\ job'[w].pc = next /\ job'[w].row = state
                           /\ job'[w].req = job[w].req /\ job'[w].n = job[w].n
    <3>1. /\ job[w] # None /\ DOMAIN state = StateFields
          /\ Op(w) = "talk" \/ next = "end"
          /\ Checkpoint(w, state, next)
      BY <1>1, <1>5
    <3>. QED  BY ONLY ZenonT(60), Shape, AgentInv, <3>1, CheckpointIs
  <2>2. ASSUME job'[w] # None
        PROVE  OfItsMessage(w)' /\ OfItsPrompt(w)'
    <3>1. next # "end"
      BY <2>1, <2>2
    <3>2. next \notin {"claim call", "apply call"}
      BY <1>5 DEF TalkSteps
    <3>. QED  BY <1>2, <1>5, <2>1, <3>1, <3>2 DEF OfItsMessage, OfItsPrompt, Op, Req
  <2>3. UNCHANGED replies \/ \E e : Fitting(e) /\ replies' = Append(replies, e)
    <3>1. ASSUME NEW kind, Op(w) = "talk", Reply(w, kind),
                 IF Req(w).text = "emergency" THEN kind # "generated" ELSE kind # "emergency"
          PROVE  \E e : Fitting(e) /\ replies' = Append(replies, e)
      <4>1. Fitting([run |-> job[w].n, kind |-> kind])
        BY <1>2, <1>5, <3>1 DEF Fitting
      <4>. QED  BY <3>1, <4>1 DEF Reply
    <3>. QED  BY <1>5, <3>1
  <2>. QED  BY <1>1, <1>3, <1>5, <2>1, <2>2, <2>3, AgentOwn
<1>6. ASSUME pc \in AgentSteps, UNCHANGED <<threads, asked, replies>>, GateKept',
             gate.prompted \subseteq gate'.prompted,
             \/ End(w)
             \/ \E next \in {"claim call", "apply call", "keep result"} :
                  /\ Goto(w, next) /\ Op(w) = "resume"
                  /\ next # "keep result" => OwnCall(w) \in gate.prompted
      PROVE  AgentInv'
  <2>1. ASSUME job'[w] # None
        PROVE  OfItsMessage(w)' /\ OfItsPrompt(w)'
    <3>1. ~ End(w)
      BY <1>1, <2>1 DEF End
    <3>2. PICK next \in {"claim call", "apply call", "keep result"} :
            /\ Goto(w, next) /\ Op(w) = "resume"
            /\ next # "keep result" => OwnCall(w) \in gate.prompted
      BY <1>6, <3>1
    <3>3. /\ job'[w].pc = next /\ job'[w].row = row /\ job'[w].req = job[w].req
          /\ job'[w].user = job[w].user
      BY <1>1, <3>2 DEF Goto, Fields
    <3>4. next \notin TalkSteps
      BY <3>2 DEF TalkSteps
    <3>. QED  BY <1>2, <1>6, <3>2, <3>3, <3>4
              DEF OfItsMessage, OfItsPrompt, Op, Req, Who, Gated, OwnCall
  <2>. QED  BY <1>1, <1>4, <1>6, <2>1, AgentOwn
<1>7. CASE StartTurn(w)
  <2>1. Op(w) = "talk" /\ Enter(w, threads["chat"], "intake") /\ UNCHANGED <<replies, gate>>
    BY <1>1, <1>7 DEF StartTurn, WithInput, Shape, Shaped, Op, Routes, Sessionless
  <2>2. DOMAIN threads["chat"] = StateFields
    BY DEF AgentInv, ThreadsKept
  <2>3. /\ ThreadsKept' /\ job'[w].pc = "intake" /\ job'[w].row = threads["chat"]
        /\ job'[w].req = job[w].req /\ job'[w].n = Len(asked) + 1
    BY <1>1, <2>1, <2>2, EnterIs
  <2>4. PICK e : e.text = Req(w).text /\ asked' = Append(asked, e)
    BY <1>7 DEF StartTurn
  <2>5. Len(asked) + 1 \in DOMAIN asked' /\ asked'[Len(asked) + 1] = e
    <3>1. /\ DOMAIN asked' = 1..(Len(asked) + 1) /\ asked'[Len(asked) + 1] = e
          /\ Len(asked) \in Nat
      BY <2>4, AppendIs DEF AgentInv, IsSequence
    <3>. QED  BY <3>1
  <2>6. OfItsMessage(w)' /\ OfItsPrompt(w)'
    BY <2>1, <2>2, <2>3, <2>4, <2>5
       DEF OfItsMessage, OfItsPrompt, Op, Req, TalkSteps, Harmless
  <2>. QED  BY <1>1, <1>3, <2>1, <2>3, <2>4, <2>6, AgentOwn
<1>8. ASSUME Op(w) \in {"order", "resume"}, UNCHANGED <<asked, replies, gate>>,
             NEW state, DOMAIN state = StateFields, state.call.name = "order",
             Enter(w, state, "run tool"),
             Op(w) = "resume" => Req(w).shown \in gate.prompted
      PROVE  AgentInv'
  <2>1. /\ ThreadsKept' /\ job'[w].pc = "run tool" /\ job'[w].row = state
        /\ job'[w].req = job[w].req
    BY <1>1, <1>8, EnterIs
  <2>2. OfItsMessage(w)' /\ OfItsPrompt(w)'
    BY <1>8, <2>1 DEF OfItsMessage, OfItsPrompt, Op, Req, Gated, TalkSteps
  <2>. QED  BY <1>1, <1>3, <1>8, <2>1, <2>2, AgentOwn
<1>9. CASE StartOrder(w)
  <2>1. Op(w) = "order" /\ UNCHANGED <<asked, replies, gate>>
    BY <1>1, <1>9 DEF StartOrder, Shape, Shaped, Op, Routes, Sessionless
  <2>2. PICK call : call = [name |-> "order", args |-> Req(w).args]
    OBVIOUS
  <2>3. PICK state : state = [threads["orders"] EXCEPT !.call = call]
    OBVIOUS
  <2>4. DOMAIN state = StateFields /\ state.call = call
    BY <2>3 DEF AgentInv, ThreadsKept, StateFields
  <2>5. Enter(w, state, "run tool")
    BY <1>9, <2>2, <2>3 DEF StartOrder
  <2>6. call.name = "order"
    BY <2>2
  <2>. QED  BY <1>8, <2>1, <2>4, <2>5, <2>6
<1>10. CASE Resume(w)
  <2>1. Op(w) = "resume" /\ UNCHANGED <<asked, replies, gate>> /\ Req(w).shown \in gate.prompted
    BY <1>1, <1>10 DEF Resume, Shape, Shaped, Op, Routes, Sessionless
  <2>2. CASE threads["orders"].next = "end"
    <3>1. job'[w] = None /\ UNCHANGED threads
      BY <1>1, <1>10, <2>2 DEF Resume, End
    <3>. QED  BY <1>1, <1>3, <1>4, <2>1, <3>1, AgentOwn
  <2>3. CASE threads["orders"].next # "end"
    <3>1. DOMAIN threads["orders"] = StateFields /\ threads["orders"].call.name = "order"
      BY <2>3 DEF AgentInv, ThreadsKept
    <3>2. Enter(w, threads["orders"], "run tool")
      BY <1>10, <2>3 DEF Resume
    <3>. QED  BY <1>8, <2>1, <3>1, <3>2
  <2>. QED  BY <2>2, <2>3
<1>11. CASE Intake(w)
  <2>1. pc = "intake" /\ pc \in AgentSteps /\ UNCHANGED <<asked, replies, gate>>
    BY <1>11 DEF Intake, AgentSteps
  <2>2. Op(w) = "talk"
    BY <1>2, <2>1 DEF OfItsMessage, TalkSteps
  <2>3. PICK flag : flag = Emergency(row, Req(w).text)
    OBVIOUS
  <2>4. PICK state : state = [row EXCEPT !.turns = @ + 1, !.emergency = flag]
    OBVIOUS
  <2>5. DOMAIN state = StateFields /\ state.emergency = flag
    BY <1>2, <2>1, <2>4 DEF StateFields
  <2>6. PICK next : next = IF state.turns > MaxTurns THEN "hand over"
                           ELSE IF state.emergency THEN "emergency text" ELSE "route"
    OBVIOUS
  <2>7. Checkpoint(w, state, next)
    BY <1>11, <2>3, <2>4, <2>6 DEF Intake
  <2>8. /\ next \in TalkSteps
        /\ next \in Harmless => Req(w).text # "emergency"
        /\ next = "emergency text" => Req(w).text = "emergency"
    <3>1. state.emergency = (Req(w).text = "emergency")
      BY ONLY <2>3, <2>5 DEF Emergency
    <3>2. next \in {"hand over", "emergency text", "route"}
      BY <2>6
    <3>3. next = "route" => ~ state.emergency
      BY <2>6
    <3>4. next = "emergency text" => state.emergency
      BY <2>6
    <3>. QED  BY ONLY <3>1, <3>2, <3>3, <3>4 DEF TalkSteps, Harmless
  <2>. QED  BY <1>5, <2>1, <2>2, <2>5, <2>7, <2>8
(* The nodes of a turn behind its intake.                                  *)
<1>12. CASE HandOver(w)
  <2>1. pc = "hand over" /\ pc \in AgentSteps /\ UNCHANGED <<asked, gate>>
    BY <1>12 DEF HandOver, AgentSteps
  <2>2. Op(w) = "talk" /\ Reply(w, "hand over") /\ Checkpoint(w, row, "end")
    BY <1>2, <1>12, <2>1 DEF OfItsMessage, TalkSteps, HandOver
  <2>. QED  BY <1>2, <1>5, <2>1, <2>2 DEF Harmless
<1>13. CASE EmergencyText(w)
  <2>1. pc = "emergency text" /\ pc \in AgentSteps /\ UNCHANGED <<asked, gate>>
    BY <1>13 DEF EmergencyText, AgentSteps
  <2>2. PICK state : state = [row EXCEPT !.confidence = job[w].n]
    OBVIOUS
  <2>3. DOMAIN state = StateFields
    BY <1>2, <2>1, <2>2
  <2>4. /\ Op(w) = "talk" /\ Req(w).text = "emergency"
        /\ Reply(w, "emergency") /\ Checkpoint(w, state, "end")
    BY <1>2, <1>13, <2>1, <2>2 DEF OfItsMessage, TalkSteps, EmergencyText
  <2>. QED  BY <1>5, <2>1, <2>3, <2>4 DEF Harmless
<1>14. CASE Route(w)
  <2>1. pc = "route" /\ pc \in AgentSteps /\ UNCHANGED <<asked, replies, gate>>
    BY <1>14 DEF Route, AgentSteps
  <2>2. PICK tool : tool = ToolFor(row, Req(w).text)
    OBVIOUS
  <2>3. PICK call : call = IF tool = None THEN None ELSE [name |-> tool, args |-> None]
    OBVIOUS
  <2>4. PICK state : state = [row EXCEPT !.call = call]
    OBVIOUS
  <2>5. PICK next : next = IF tool = None THEN "retrieve" ELSE "run tool"
    OBVIOUS
  <2>6. DOMAIN state = StateFields
    BY <1>2, <2>1, <2>4
  <2>7. Checkpoint(w, state, next)
    BY <1>14, <2>2, <2>3, <2>4, <2>5 DEF Route
  <2>8. Op(w) = "talk" /\ Req(w).text # "emergency"
    BY <1>2, <2>1 DEF OfItsMessage, TalkSteps, Harmless
  <2>9. next \in TalkSteps \cup {"run tool", "end"} /\ next # "emergency text"
    BY <2>5 DEF TalkSteps
  <2>. QED  BY <1>5, <2>1, <2>6, <2>7, <2>8, <2>9
<1>15. CASE RunReadTool(w)
  <2>1. pc = "run tool" /\ pc \in AgentSteps /\ ~Gated(w) /\ UNCHANGED <<asked, replies, gate>>
    BY <1>15 DEF RunReadTool, AgentSteps
  <2>2. PICK ok, single : Checkpoint(w, WithResult(w, ok, single), "verify")
    BY <1>15 DEF RunReadTool
  <2>3. DOMAIN WithResult(w, ok, single) = StateFields
    BY <1>2, <2>1 DEF WithResult
  <2>4. Op(w) = "talk" /\ Req(w).text # "emergency"
    BY <1>2, <2>1 DEF OfItsMessage, Harmless
  <2>. QED  BY <1>5, <2>1, <2>2, <2>3, <2>4 DEF TalkSteps
<1>16. CASE Retrieve(w)
  <2>1. pc = "retrieve" /\ pc \in AgentSteps /\ UNCHANGED <<asked, replies, gate>>
    BY <1>16 DEF Retrieve, AgentSteps
  <2>2. PICK state : state = [row EXCEPT !.docs = job[w].n, !.confidence = job[w].n]
    OBVIOUS
  <2>3. DOMAIN state = StateFields /\ Checkpoint(w, state, "verify")
    BY <1>2, <1>16, <2>1, <2>2 DEF Retrieve
  <2>4. Op(w) = "talk" /\ Req(w).text # "emergency"
    BY <1>2, <2>1 DEF OfItsMessage, TalkSteps, Harmless
  <2>. QED  BY <1>5, <2>1, <2>3, <2>4 DEF TalkSteps
<1>17. CASE Verify(w)
  <2>1. pc = "verify" /\ pc \in AgentSteps /\ UNCHANGED <<asked, replies, gate>>
    BY <1>17 DEF Verify, AgentSteps
  <2>2. PICK state : state = [row EXCEPT !.confidence = IF @ = None THEN job[w].n ELSE @]
    OBVIOUS
  <2>3. DOMAIN state = StateFields /\ Checkpoint(w, state, "respond")
    BY <1>2, <1>17, <2>1, <2>2 DEF Verify
  <2>4. Op(w) = "talk" /\ Req(w).text # "emergency"
    BY <1>2, <2>1 DEF OfItsMessage, TalkSteps, Harmless
  <2>. QED  BY <1>5, <2>1, <2>3, <2>4 DEF TalkSteps
<1>18. CASE Respond(w)
  <2>1. pc = "respond" /\ pc \in AgentSteps /\ UNCHANGED <<asked, gate>>
    BY <1>18 DEF Respond, AgentSteps
  <2>2. /\ Op(w) = "talk" /\ Req(w).text # "emergency"
        /\ Reply(w, "generated") /\ Checkpoint(w, row, "end")
    BY <1>2, <1>18, <2>1 DEF OfItsMessage, TalkSteps, Harmless, Respond
  <2>3. \E kind : /\ Op(w) = "talk" /\ Reply(w, kind)
                  /\ IF Req(w).text = "emergency" THEN kind # "generated" ELSE kind # "emergency"
    BY ONLY <2>2
  <2>4. DOMAIN row = StateFields
    BY <1>2, <2>1
  <2>. QED  BY <1>5, <2>1, <2>2, <2>3, <2>4 DEF Harmless
(* The confirmation gate.                                                  *)
<1>19. ASSUME pc \in AgentSteps, UNCHANGED <<asked, replies, gate>>,
              NEW ok, Checkpoint(w, WithResult(w, ok, FALSE), "end")
       PROVE  AgentInv'
  <2>1. DOMAIN WithResult(w, ok, FALSE) = StateFields
    BY <1>2, <1>19 DEF WithResult
  <2>. QED  BY <1>5, <1>19, <2>1 DEF Harmless
<1>20. CASE DenyGuest(w) \/ KeepResult(w)
  BY <1>19, <1>20 DEF DenyGuest, KeepResult, Refuse, AgentSteps
<1>21. CASE Interrupt(w)
  <2>1. PICK c : c = OwnCall(w)
    OBVIOUS
  <2>2. gate' = [gate EXCEPT !.prompted = @ \cup {c}] /\ c = [user |-> c.user, args |-> c.args]
    BY <1>21, <2>1 DEF Interrupt, OwnCall
  <2>3. GateKept' /\ gate.prompted \subseteq gate'.prompted
    BY <2>2 DEF AgentInv, GateKept, PromptedUserApplies
  <2>. QED  BY <1>6, <1>21, <2>3 DEF Interrupt, AgentSteps
<1>22. CASE Decision(w)
  <2>1. pc \in AgentSteps /\ Op(w) = "resume" /\ UNCHANGED <<asked, replies, gate>>
    BY <1>22 DEF Decision, AgentSteps
  <2>2. CASE Refuse(w)
    BY <1>19, <2>1, <2>2 DEF Refuse
  <2>3. CASE Confirmed(w) /\ Goto(w, "claim call") /\ UNCHANGED threads
    <3>1. PICK p \in gate.prompted : p = Req(w).shown /\ p = [user |-> p.user, args |-> p.args]
      BY <1>2, <2>1 DEF OfItsPrompt, AgentInv, GateKept
    <3>2. p.user = Who(w) /\ p.args = row.call.args
      BY <2>3, <3>1 DEF Confirmed, PendingToken, Own
    <3>3. OwnCall(w) \in gate.prompted
      BY <3>1, <3>2 DEF OwnCall
    <3>. QED  BY <1>3, <1>6, <2>1, <2>3, <3>3
  <2>. QED  BY <1>22, <2>2, <2>3 DEF Decision
<1>23. CASE ClaimCall(w)
  <2>1. pc = "claim call" /\ pc \in AgentSteps /\ UNCHANGED <<asked, replies, gate>>
    BY <1>23 DEF ClaimCall, AgentSteps
  <2>2. CASE Refuse(w)
    BY <1>19, <2>1, <2>2 DEF Refuse
  <2>3. CASE Goto(w, "apply call") /\ UNCHANGED threads
    <3>1. OwnCall(w) \in gate.prompted /\ Op(w) = "resume"
      BY <1>2, <2>1 DEF OfItsPrompt
    <3>. QED  BY <1>3, <1>6, <2>1, <2>3, <3>1
  <2>. QED  BY <1>23, <2>2, <2>3 DEF ClaimCall
<1>24. CASE ApplyCall(w)
  <2>1. pc = "apply call" /\ pc \in AgentSteps /\ UNCHANGED <<threads, asked, replies>>
    BY <1>24 DEF ApplyCall, AgentSteps
  <2>2. OwnCall(w) \in gate.prompted /\ Op(w) = "resume"
    BY <1>2, <2>1 DEF OfItsPrompt
  <2>3. PICK c : c = OwnCall(w)
    OBVIOUS
  <2>4. gate' = [gate EXCEPT !.applied = @ \cup {c}]
    BY <1>24, <2>3 DEF ApplyCall
  <2>5. GateKept' /\ gate.prompted \subseteq gate'.prompted
    BY <2>2, <2>3, <2>4 DEF AgentInv, GateKept, PromptedUserApplies
  <2>. QED  BY <1>6, <1>24, <2>1, <2>2, <2>5 DEF ApplyCall
<1>. QED  BY <1>7, <1>9, <1>10, <1>11, <1>12, <1>13, <1>14, <1>15, <1>16, <1>17, <1>18, <1>20,
             <1>21, <1>22, <1>23, <1>24 DEF AgentStep, TurnStep, GateStep

LEMMA AgentAlways == SiteSpec => [](Shape /\ AgentInv)
<1>1. Shape /\ AgentInv /\ [SiteNext]_siteVars => AgentInv'
  BY AnswerCases, AgentQuietKeeps, AgentNext
<1>. QED  BY <1>1, ShapeInit, ShapeNext, AgentStart, PTL DEF SiteSpec

(* A message that names an emergency never gets words of a model, in the   *)
(* agent or in the pipeline, and no other gets the text for emergencies.   *)
THEOREM EmergenciesAnswered == SiteSpec => []KeywordsAnswered
<1>1. AgentInv /\ GenerationInv => KeywordsAnswered
  BY DEF AgentInv, GenerationInv, KeywordsAnswered
<1>. QED  BY <1>1, AgentAlways, GenerationAlways, PTL

(* A call of a write tool is applied for a user who was shown this call,   *)
(* whoever else answers the prompts of the thread.                         *)
THEOREM OnlyPromptedApply == SiteSpec => []PromptedUserApplies
<1>1. AgentInv => PromptedUserApplies
  BY DEF AgentInv, GateKept
<1>. QED  BY <1>1, AgentAlways, PTL

-----------------------------------------------------------------------------
(* The turns.                                                              *)
LEMMA UsedFinite ==
  ASSUME AgentInv
  PROVE  IsFiniteSet(Used) /\ Spent \in Nat
<1>1. PICK n \in Nat : DOMAIN replies = 1..n
  BY DEF AgentInv, IsSequence
<1>2. IsFiniteSet(1..n)
  BY FS_Interval
<1>3. Used \in SUBSET (1..n)
  BY <1>1 DEF Used
<1>. QED  BY <1>2, <1>3, FS_Subset, FS_CardinalityType DEF Spent

LEMMA TurnStart == SiteInit => TurnInv
<1>. SUFFICES ASSUME SiteInit PROVE TurnInv
  OBVIOUS
<1>1. replies = <<>> /\ threads["chat"].turns = 0
  BY DEF SiteInit, AgentInit
<1>2. ~ \E i : i \in DOMAIN replies
  BY ONLY <1>1, NothingIn
<1>3. Spent = 0
  <2>1. Used = {}
    BY ONLY <1>2 DEF Used
  <2>. QED  BY <2>1, FS_EmptySet DEF Spent
<1>4. ASSUME NEW w \in Worker
      PROVE  ~ TurnOf(w)
  BY DEF SiteInit, Init, TurnOf, Running
<1>5. Spent <= MaxTurns
  BY ONLY <1>3, TurnsCounted
<1>. QED  BY <1>1, <1>2, <1>3, <1>4, <1>5 DEF TurnInv, Alone

(* A step that answers nothing and takes no new message.                   *)
TurnGoesOn(v) ==
    /\ TurnOf(v) /\ job'[v].n = job[v].n
    /\ job'[v].row.turns \in Nat
    /\ \/ job'[v].pc = job[v].pc /\ job'[v].row = job[v].row
       \/ /\ job'[v].pc # "intake" /\ job'[v].row.turns >= Least
          /\ job'[v].pc \notin Unlimited => job'[v].row.turns <= MaxTurns
          /\ threads'["chat"].turns >= Least

LEMMA TurnKept ==
  ASSUME AgentInv, TurnInv, UNCHANGED <<asked, replies>>,
         threads'["chat"].turns \in Nat,
         threads'["chat"].turns = threads["chat"].turns \/ threads'["chat"].turns >= Least,
         \A v \in Worker : TurnOf(v)' => TurnGoesOn(v)
  PROVE  TurnInv'
<1>1. Spent \in Nat
  BY UsedFinite
<1>2. Spent' = Spent /\ DOMAIN replies' = DOMAIN replies
  BY DEF Used, Spent
<1>3. \A v \in Worker : Alone(v)' => Alone(v)
  BY DEF Alone, TurnGoesOn
<1>4. Least \in Nat /\ Least >= Spent /\ (Busy => Least = Spent + 1)
  BY <1>1 DEF Least
<1>5. Least' \in Nat /\ Least' <= Least
  BY <1>1, <1>2, <1>3 DEF Least, Busy
<1>6. threads'["chat"].turns >= Spent'
  BY <1>1, <1>2, <1>4 DEF TurnInv
<1>7. ASSUME NEW w \in Worker, Alone(w)', job'[w].pc # "intake"
      PROVE  threads'["chat"].turns >= Spent' + 1
  <2>1. Alone(w) /\ TurnGoesOn(w) /\ Busy
    BY <1>3, <1>7 DEF Alone, Busy
  <2>2. CASE threads'["chat"].turns >= Least
    BY <1>1, <1>2, <1>4, <2>1, <2>2
  <2>3. CASE threads'["chat"].turns = threads["chat"].turns /\ job[w].pc # "intake"
    BY <1>2, <2>1, <2>3 DEF TurnInv
  <2>. QED  BY <1>7, <2>1, <2>2, <2>3 DEF TurnGoesOn
<1>8. ASSUME NEW w \in Worker, TurnOf(w)'
      PROVE  Counted(w)' /\ \A i \in DOMAIN replies' : replies'[i].run # job'[w].n
  <2>1. TurnGoesOn(w) /\ Counted(w) /\ \A i \in DOMAIN replies : replies[i].run # job[w].n
    BY <1>8 DEF TurnGoesOn, TurnInv
  <2>2. PICK least \in Nat : least = Least
    BY <1>4
  <2>3. PICK later \in Nat : later = Least' /\ later <= least
    BY <1>5, <2>2
  <2>4. PICK t \in Nat : t = job'[w].row.turns
    BY <2>1 DEF TurnGoesOn
  <2>5. ASSUME job'[w].pc = job[w].pc, job'[w].row = job[w].row
        PROVE  Counted(w)'
    <3>1. /\ IF job'[w].pc = "intake" THEN t + 1 >= least ELSE t >= least
          /\ job'[w].pc \notin Unlimited => t <= MaxTurns
      BY <2>1, <2>2, <2>4, <2>5 DEF Counted
    <3>2. IF job'[w].pc = "intake" THEN t + 1 >= later ELSE t >= later
      BY ONLY <2>2, <2>3, <2>4, <3>1
    <3>3. IF job'[w].pc = "intake" THEN job'[w].row.turns + 1 >= Least'
                                   ELSE job'[w].row.turns >= Least'
      BY ONLY <2>3, <2>4, <3>2
    <3>. QED  BY ONLY <2>4, <3>1, <3>3 DEF Counted
  <2>6. ASSUME job'[w].pc # "intake", job'[w].row.turns >= Least,
               job'[w].pc \notin Unlimited => job'[w].row.turns <= MaxTurns
        PROVE  Counted(w)'
    <3>1. t >= later
      BY <2>2, <2>3, <2>4, <2>6
    <3>2. IF job'[w].pc = "intake" THEN job'[w].row.turns + 1 >= Least'
                                   ELSE job'[w].row.turns >= Least'
      BY ONLY <2>3, <2>4, <2>6, <3>1
    <3>. QED  BY ONLY <2>4, <2>6, <3>2 DEF Counted
  <2>7. Counted(w)'
    BY <2>1, <2>5, <2>6 DEF TurnGoesOn
  <2>8. job'[w].n = job[w].n
    BY <2>1 DEF TurnGoesOn
  <2>. QED  BY <2>1, <2>7, <2>8
<1>9. \A v, w \in Worker : TurnOf(v)' /\ TurnOf(w)' /\ job'[v].n = job'[w].n => v = w
  BY DEF TurnGoesOn, TurnInv
<1>. QED  BY <1>2, <1>3, <1>6, <1>7, <1>8, <1>9 DEF TurnInv

(* A message that begins a run.                                            *)
LEMMA TurnBegins ==
  ASSUME Shape, AgentInv, TurnInv, NEW w \in Worker, StartTurn(w)
  PROVE  TurnInv'
<1>1. /\ job[w] # None /\ job[w].pc = "talk" /\ Op(w) = "talk"
      /\ Enter(w, threads["chat"], "intake") /\ UNCHANGED replies
      /\ DOMAIN threads["chat"] = StateFields
  BY DEF StartTurn, At, WithInput, Shape, Shaped, Op, Routes, Sessionless, AgentInv, ThreadsKept
<1>2. /\ job'[w].pc = "intake" /\ job'[w].row = threads["chat"]
      /\ job'[w].req = job[w].req /\ job'[w].n = Len(asked) + 1
      /\ threads'["chat"].turns = threads["chat"].turns
  BY <1>1, EnterIs
<1>3. Moves(w, AgentSteps)
  BY AgentMoves DEF AgentStep, TurnStep
<1>4. PICK e : /\ asked' = Append(asked, e)
               /\ e.overlaps <=> \E v \in Worker \ {w} : Talking(v)
  BY DEF StartTurn
<1>5. /\ Len(asked) \in Nat /\ DOMAIN asked = 1..Len(asked)
      /\ DOMAIN asked' = 1..(Len(asked) + 1) /\ asked'[Len(asked) + 1] = e
      /\ \A i \in DOMAIN asked : asked'[i] = asked[i]
  BY <1>4, AppendIs DEF AgentInv, IsSequence
<1>6. Spent' = Spent /\ Spent \in Nat
  <2>1. Used' = Used
    BY <1>1, <1>5 DEF Used, AgentInv
  <2>. QED  BY <2>1, UsedFinite DEF Spent
<1>7. ~ TurnOf(w)
  BY <1>1 DEF TurnOf, Running, AgentSteps
<1>8. ASSUME NEW v \in Worker, v # w
      PROVE  /\ TurnOf(v)' <=> TurnOf(v)
             /\ job'[v] = job[v]
             /\ TurnOf(v) => /\ job[v].n \in DOMAIN asked /\ Talking(v)
                             /\ Alone(v)' <=> Alone(v)
  <2>1. job'[v] = job[v]
    BY <1>3, <1>8 DEF Moves
  <2>2. TurnOf(v)' <=> TurnOf(v)
    BY <2>1 DEF TurnOf, Running, Op
  <2>3. ASSUME TurnOf(v)
        PROVE  job[v].n \in DOMAIN asked /\ Talking(v)
    BY <2>3 DEF TurnOf, Running, AgentInv, OfItsMessage, Talking, AgentSteps
  <2>. QED  BY <1>5, <2>1, <2>2, <2>3 DEF Alone
<1>9. Alone(w)' => \A v \in Worker : v # w => ~ TurnOf(v)
  <2>1. Alone(w)' => ~ e.overlaps
    BY <1>2, <1>5 DEF Alone
  <2>. QED  BY <1>4, <1>8, <2>1
<1>10. threads["chat"].turns \in Nat /\ threads["chat"].turns >= Spent
  BY DEF TurnInv
<1>11. Least' = Least \/ (Alone(w)' /\ Least' = Spent + 1)
  <2>1. CASE Alone(w)'
    BY <1>6, <2>1 DEF Least, Busy
  <2>2. CASE ~ Alone(w)'
    <3>1. Busy' <=> Busy
      BY <1>7, <1>8, <2>2 DEF Busy, Alone
    <3>. QED  BY <1>6, <3>1 DEF Least
  <2>. QED  BY <2>1, <2>2
<1>12. Counted(w)'
  <2>1. Least <= Spent + 1 /\ Least \in Nat
    BY <1>6 DEF Least
  <2>2. PICK t \in Nat : t = threads["chat"].turns
    BY <1>10
  <2>3. t + 1 >= Least'
    BY <1>6, <1>10, <1>11, <2>1, <2>2
  <2>4. job'[w].pc = "intake" /\ job'[w].row.turns = t
    BY <1>2, <2>2
  <2>. QED  BY ONLY <2>2, <2>3, <2>4 DEF Counted, Unlimited
<1>13. ASSUME NEW v \in Worker, TurnOf(v)'
       PROVE  Counted(v)' /\ \A i \in DOMAIN replies' : replies'[i].run # job'[v].n
  <2>1. CASE v = w
    <3>1. \A i \in DOMAIN replies : replies[i].run # Len(asked) + 1
      BY <1>5 DEF AgentInv
    <3>. QED  BY <1>1, <1>2, <1>12, <2>1, <3>1
  <2>2. CASE v # w
    <3>1. TurnOf(v) /\ job'[v] = job[v] /\ Least' = Least
      BY <1>8, <1>9, <1>11, <1>13, <2>2
    <3>. QED  BY <1>1, <3>1 DEF Counted, TurnInv
  <2>. QED  BY <2>1, <2>2
<1>14. \A v, u \in Worker : TurnOf(v)' /\ TurnOf(u)' /\ job'[v].n = job'[u].n => v = u
  <2>1. \A v \in Worker : v # w /\ TurnOf(v)' => TurnOf(v) /\ job'[v].n = job[v].n /\ job[v].n # Len(asked) + 1
    BY <1>5, <1>8
  <2>. QED  BY <1>2, <2>1 DEF TurnInv
<1>15. \A v, u \in Worker : Alone(v)' /\ Alone(u)' => v = u
  <2>1. \A v \in Worker : v # w /\ Alone(v)' => Alone(v) /\ TurnOf(v)
    BY <1>8 DEF Alone
  <2>. QED  BY <1>9, <2>1 DEF TurnInv
<1>16. ASSUME NEW v \in Worker, Alone(v)', job'[v].pc # "intake"
       PROVE  threads'["chat"].turns >= Spent' + 1
  <2>1. v # w /\ Alone(v) /\ job[v].pc # "intake"
    BY <1>2, <1>8, <1>16 DEF Alone
  <2>. QED  BY <1>2, <1>6, <2>1 DEF TurnInv
<1>. QED  BY <1>1, <1>2, <1>6, <1>10, <1>13, <1>14, <1>15, <1>16 DEF TurnInv

(* A run that ends with an answer; one of a model is within the limit.     *)
LEMMA TurnEnds ==
  ASSUME Shape, AgentInv, TurnInv, NEW w \in Worker, TurnOf(w), job[w].pc # "intake",
         NEW kind, Reply(w, kind), UNCHANGED asked,
         kind = "generated" => job[w].pc \notin Unlimited,
         Moves(w, AgentSteps), job'[w] = None,
         threads'["chat"].turns = job[w].row.turns
  PROVE  TurnInv'
<1>1. job[w].n \in DOMAIN asked /\ Counted(w) /\ \A i \in DOMAIN replies : replies[i].run # job[w].n
  BY DEF TurnOf, Running, AgentInv, OfItsMessage, TurnInv
<1>2. PICK t \in Nat : t = job[w].row.turns
  BY <1>1 DEF Counted
<1>3. t >= Least /\ (kind = "generated" => t <= MaxTurns)
  BY <1>1, <1>2 DEF Counted
<1>4. Spent \in Nat /\ IsFiniteSet(Used) /\ MaxTurns \in Nat
  BY UsedFinite, TurnsCounted
<1>5. PICK spent \in Nat : spent = Spent
  BY <1>4
<1>6. PICK least \in Nat :
           /\ least = Least /\ least >= spent
           /\ Busy => least = spent + 1
           /\ ~Busy => least = spent
  <2>1. CASE Busy
    BY <1>5, <2>1 DEF Least
  <2>2. CASE ~Busy
    BY <1>5, <2>2 DEF Least
  <2>. QED  BY <2>1, <2>2
<1>7. PICK e : e = [run |-> job[w].n, kind |-> kind]
  OBVIOUS
<1>8. e.run = job[w].n /\ e.kind = kind /\ replies' = Append(replies, e)
  BY <1>7 DEF Reply
<1>9. PICK size \in Nat : size = Len(replies)
  BY DEF AgentInv, IsSequence
<1>10. PICK k : k = size + 1
  OBVIOUS
<1>11. /\ DOMAIN replies' = DOMAIN replies \cup {k} /\ replies'[k] = e
       /\ k \notin DOMAIN replies
       /\ \A i \in DOMAIN replies : replies'[i] = replies[i]
  <2>1. IsSequence(replies)
    BY DEF AgentInv
  <2>2. /\ DOMAIN replies = 1..Len(replies)
        /\ DOMAIN replies' = 1..(Len(replies) + 1) /\ replies'[Len(replies) + 1] = e
        /\ \A i \in DOMAIN replies : replies'[i] = replies[i]
    BY <1>8, <2>1, AppendIs
  <2>. QED  BY ONLY <1>9, <1>10, <2>2
<1>12. ASSUME NEW v \in Worker, TurnOf(v)'
       PROVE  v # w /\ job'[v] = job[v] /\ TurnOf(v)
  BY <1>12 DEF TurnOf, Running, Moves, Op
<1>13. \A v \in Worker : Alone(v)' => Alone(v) /\ v # w
  BY <1>12 DEF Alone
<1>14. \/ Used' = Used /\ ~ (kind = "generated" /\ Alone(w))
       \/ Used' = Used \cup {k} /\ kind = "generated" /\ Alone(w)
  <2>1. \A i \in DOMAIN replies : i \in Used' <=> i \in Used
    BY <1>11 DEF Used
  <2>2. k \in Used' <=> kind = "generated" /\ Alone(w)
    BY <1>8, <1>11 DEF Used, Alone
  <2>3. Used \subseteq DOMAIN replies /\ Used' \subseteq DOMAIN replies'
    BY DEF Used
  <2>. QED  BY <1>11, <2>1, <2>2, <2>3
<1>15. Busy' => Busy
  BY <1>13 DEF Busy
<1>16. /\ Spent' \in Nat /\ Spent' <= MaxTurns /\ Spent' <= least
       /\ Busy' => Spent' + 1 <= least
  <2>1. CASE Used' = Used
    <3>1. Spent' = spent /\ spent <= MaxTurns
      BY <1>5, <2>1 DEF Spent, TurnInv
    <3>2. spent <= least /\ (Busy' => spent + 1 <= least)
      BY <1>5, <1>6, <1>15
    <3>. QED  BY <1>5, <3>1, <3>2
  <2>2. CASE Used' = Used \cup {k} /\ kind = "generated" /\ Alone(w)
    <3>1. k \notin Used
      BY <1>11 DEF Used
    <3>2. Spent' = spent + 1
      BY <1>4, <1>5, <2>2, <3>1, FS_AddElement DEF Spent
    <3>3. Busy /\ ~Busy'
      BY <1>13, <2>2 DEF Busy, TurnInv
    <3>4. spent + 1 <= MaxTurns
      <4>1. t >= least /\ t <= MaxTurns /\ least = spent + 1
        BY <1>3, <1>6, <2>2, <3>3
      <4>. QED  BY ONLY <1>2, <1>4, <1>5, <1>6, <4>1
    <3>5. spent + 1 <= least
      BY <1>5, <1>6, <3>3
    <3>. QED  BY <1>5, <3>2, <3>3, <3>4, <3>5
  <2>. QED  BY <1>14, <2>1, <2>2
<1>17. PICK later \in Nat : Spent' = later
  BY <1>16
<1>25. later <= least /\ (Busy' => later + 1 <= least)
  BY ONLY <1>16, <1>17
<1>26. Least' = (IF Busy' THEN later + 1 ELSE later)
  <2>1. Least' = Spent' + (IF Busy' THEN 1 ELSE 0)
    BY ONLY DEF Least
  <2>. QED  BY ONLY <1>17, <2>1
<1>27. PICK floor \in Nat : Least' = floor
  BY ONLY <1>17, <1>26
<1>28. floor <= least /\ floor >= later /\ (Busy' => floor = later + 1)
  BY ONLY <1>6, <1>17, <1>25, <1>26, <1>27
<1>18. threads'["chat"].turns = t /\ t >= least
  BY <1>2, <1>3, <1>6
<1>19. t >= later /\ (Busy' => t >= later + 1)
  BY ONLY <1>2, <1>6, <1>17, <1>25, <1>18
<1>20. \A v \in Worker : Alone(v)' => threads'["chat"].turns >= Spent' + 1
  BY <1>17, <1>18, <1>19 DEF Busy
<1>21. ASSUME NEW v \in Worker, TurnOf(v)'
       PROVE  Counted(v)' /\ \A i \in DOMAIN replies' : replies'[i].run # job'[v].n
  <2>1. v # w /\ job'[v] = job[v] /\ TurnOf(v) /\ Counted(v) /\ job[v].n # job[w].n
    BY <1>12, <1>21 DEF TurnInv
  <2>2. \A i \in DOMAIN replies : replies[i].run # job[v].n
    BY <2>1 DEF TurnInv
  <2>3. PICK u \in Nat : u = job[v].row.turns
    BY <2>1 DEF Counted
  <2>4. /\ IF job[v].pc = "intake" THEN u + 1 >= least ELSE u >= least
        /\ job[v].pc \notin Unlimited => u <= MaxTurns
    BY <1>6, <2>1, <2>3 DEF Counted
  <2>5. IF job[v].pc = "intake" THEN u + 1 >= floor ELSE u >= floor
    BY ONLY <1>6, <1>27, <1>28, <2>3, <2>4
  <2>6. Counted(v)'
    BY ONLY <1>27, <2>1, <2>3, <2>4, <2>5 DEF Counted
  <2>. QED  BY <1>8, <1>11, <2>1, <2>2, <2>6
<1>22. \A i, j \in DOMAIN replies' : replies'[i].run = replies'[j].run => i = j
  <2>1. \A i \in DOMAIN replies : replies'[i].run # e.run
    BY <1>1, <1>8, <1>11
  <2>2. \A i, j \in DOMAIN replies : replies'[i].run = replies'[j].run => i = j
    BY <1>11 DEF TurnInv
  <2>. QED  BY ONLY <1>11, <2>1, <2>2
<1>23. \A v, u \in Worker : TurnOf(v)' /\ TurnOf(u)' /\ job'[v].n = job'[u].n => v = u
  BY <1>12 DEF TurnInv
<1>24. \A v, u \in Worker : Alone(v)' /\ Alone(u)' => v = u
  BY <1>13 DEF TurnInv
<1>. QED  BY <1>2, <1>16, <1>17, <1>18, <1>19, <1>20, <1>21, <1>22, <1>23, <1>24 DEF TurnInv

LEMMA TurnQuiet == ASSUME AgentInv, TurnInv, AgentQuiet PROVE TurnInv'
<1>1. UNCHANGED <<threads, asked, replies>>
  BY DEF AgentQuiet, agentVars
<1>2. ASSUME NEW v \in Worker, TurnOf(v)'
      PROVE  TurnGoesOn(v)
  <2>1. job'[v] = job[v] /\ TurnOf(v)
    BY <1>2 DEF AgentQuiet, Held, TurnOf, Running, Op
  <2>. QED  BY <2>1 DEF TurnInv, Counted, TurnGoesOn
<1>3. threads'["chat"].turns = threads["chat"].turns /\ threads["chat"].turns \in Nat
  BY <1>1 DEF TurnInv
<1>. QED  BY <1>1, <1>2, <1>3, TurnKept

(* A step of a run that answers nothing: one that is of no turn, and one   *)
(* that leaves a checkpoint.                                               *)
LEMMA TurnAside ==
  ASSUME AgentInv, TurnInv, NEW w \in Worker, Moves(w, AgentSteps),
         UNCHANGED <<asked, replies>>, threads'["chat"] = threads["chat"],
         ~ TurnOf(w)'
  PROVE  TurnInv'
<1>1. ASSUME NEW v \in Worker, TurnOf(v)'
      PROVE  TurnGoesOn(v)
  <2>1. v # w /\ job'[v] = job[v] /\ TurnOf(v)
    BY <1>1 DEF Moves, TurnOf, Running, Op
  <2>. QED  BY <2>1 DEF TurnInv, Counted, TurnGoesOn
<1>2. threads'["chat"].turns = threads["chat"].turns /\ threads["chat"].turns \in Nat
  BY DEF TurnInv
<1>. QED  BY <1>1, <1>2, TurnKept

LEMMA TurnSaved ==
  ASSUME Shape, AgentInv, TurnInv, NEW w \in Worker, job[w] # None, Moves(w, AgentSteps),
         UNCHANGED <<asked, replies>>,
         NEW state, DOMAIN state = StateFields,
         NEW next, next # "intake", Op(w) = "talk" \/ next = "end", Checkpoint(w, state, next),
         Op(w) = "talk" => /\ TurnOf(w)
                           /\ state.turns \in Nat /\ state.turns >= Least
                           /\ next \in Unlimited \cup {"end"} \/ state.turns <= MaxTurns
  PROVE  TurnInv'
<1>1. /\ IF Op(w) = "talk" THEN threads'["chat"].turns = state.turns
                           ELSE threads'["chat"] = threads["chat"]
      /\ next = "end" => job'[w] = None
      /\ next # "end" => /\ job'[w].pc = next /\ job'[w].row = state /\ job'[w].n = job[w].n
  BY CheckpointIs
<1>2. CASE Op(w) # "talk"
  <2>1. ~ TurnOf(w)'
    BY <1>1, <1>2 DEF TurnOf, Running
  <2>. QED  BY <1>1, <1>2, <2>1, TurnAside
<1>3. CASE Op(w) = "talk"
  <2>1. threads'["chat"].turns = state.turns
    BY <1>1, <1>3
  <2>2. ASSUME NEW v \in Worker, TurnOf(v)', v # w
        PROVE  TurnGoesOn(v)
    <3>1. job'[v] = job[v] /\ TurnOf(v)
      BY <2>2 DEF Moves, TurnOf, Running, Op
    <3>. QED  BY <3>1 DEF TurnInv, Counted, TurnGoesOn
  <2>3. ASSUME TurnOf(w)'
        PROVE  TurnGoesOn(w)
    <3>1. next # "end"
      BY <1>1, <2>3 DEF TurnOf, Running
    <3>2. next \notin Unlimited => state.turns <= MaxTurns
      BY <1>3, <3>1
    <3>. QED  BY ONLY <1>1, <1>3, <2>1, <3>1, <3>2, next # "intake",
                      Op(w) = "talk" => TurnOf(w) /\ state.turns \in Nat /\ state.turns >= Least
              DEF TurnGoesOn
  <2>4. threads'["chat"].turns \in Nat /\ threads'["chat"].turns >= Least
    BY <1>3, <2>1
  <2>. QED  BY <2>2, <2>3, <2>4, TurnKept
<1>. QED  BY <1>2, <1>3

LEMMA TurnNext ==
  ASSUME Shape, AgentInv, TurnInv, NEW w \in Worker, AgentStep(w)
  PROVE  TurnInv'
<1>1. /\ job[w] # None /\ DOMAIN job[w] = Fields /\ DOMAIN job = Worker
      /\ Moves(w, AgentSteps)
  BY AgentMoves DEF Moves, Shape, Shaped
<1>. USE DEF At
<1>. DEFINE pc == job[w].pc
            row == job[w].row
<1>2. ASSUME pc \in AgentSteps
      PROVE  /\ OfItsMessage(w) /\ OfItsPrompt(w) /\ DOMAIN row = StateFields
             /\ Op(w) = "talk" => TurnOf(w) /\ Counted(w)
  BY <1>1, <1>2 DEF AgentInv, Running, OfItsMessage, TurnInv, TurnOf
<1>3. ASSUME pc \in TalkSteps
      PROVE  pc \in AgentSteps /\ Op(w) = "talk" /\ TurnOf(w) /\ Counted(w)
  <2>1. pc \in AgentSteps
    BY <1>3 DEF TalkSteps, AgentSteps
  <2>. QED  BY <1>2, <1>3, <2>1 DEF OfItsMessage
(* The run goes on with the turns that it had.                             *)
<1>4. ASSUME pc \in AgentSteps, pc # "intake", UNCHANGED <<asked, replies>>,
             NEW state, DOMAIN state = StateFields, state.turns = row.turns,
             NEW next, next # "intake", Op(w) = "talk" \/ next = "end",
             pc \notin Unlimited \/ next = "end", Checkpoint(w, state, next)
      PROVE  TurnInv'
  <2>1. Op(w) = "talk" => /\ TurnOf(w) /\ row.turns \in Nat /\ row.turns >= Least
                          /\ pc \in Unlimited \/ row.turns <= MaxTurns
    BY <1>2, <1>4 DEF Counted
  <2>. QED  BY <1>1, <1>4, <2>1, TurnSaved
(* It ends with an answer.                                                 *)
<1>5. ASSUME pc \in TalkSteps, pc # "intake", NEW kind, Reply(w, kind), UNCHANGED asked,
             kind = "generated" => pc \notin Unlimited,
             NEW state, DOMAIN state = StateFields, state.turns = row.turns,
             Checkpoint(w, state, "end")
      PROVE  TurnInv'
  <2>1. Op(w) = "talk" /\ TurnOf(w)
    BY <1>3, <1>5
  <2>2. threads'["chat"].turns = row.turns /\ job'[w] = None
    BY <1>1, <1>5, <2>1, CheckpointIs
  <2>. QED  BY <1>1, <1>5, <2>1, <2>2, TurnEnds
(* It is of a call, and leaves the thread of the turns alone.              *)
<1>6. ASSUME UNCHANGED <<asked, replies>>, threads'["chat"] = threads["chat"],
             job'[w] # None => Op(w) # "talk" /\ job'[w].req = job[w].req
      PROVE  TurnInv'
  <2>1. ~ TurnOf(w)'
    BY <1>6 DEF TurnOf, Running, Op
  <2>. QED  BY <1>1, <1>6, <2>1, TurnAside
<1>7. CASE StartTurn(w)
  BY <1>7, TurnBegins
<1>8. ASSUME Op(w) \in {"order", "resume"}, UNCHANGED <<asked, replies>>,
             NEW state, DOMAIN state = StateFields, state.call.name = "order",
             Enter(w, state, "run tool")
      PROVE  TurnInv'
  <2>1. threads'["chat"] = threads["chat"] /\ job'[w].req = job[w].req
    BY <1>1, <1>8, EnterIs
  <2>. QED  BY <1>6, <1>8, <2>1
<1>9. CASE StartOrder(w)
  <2>1. Op(w) = "order" /\ UNCHANGED <<asked, replies>>
    BY <1>1, <1>9 DEF StartOrder, Shape, Shaped, Op, Routes, Sessionless
  <2>2. PICK call : call = [name |-> "order", args |-> Req(w).args]
    OBVIOUS
  <2>3. PICK state : state = [threads["orders"] EXCEPT !.call = call]
    OBVIOUS
  <2>4. DOMAIN state = StateFields /\ state.call = call
    BY <2>3 DEF AgentInv, ThreadsKept, StateFields
  <2>5. Enter(w, state, "run tool")
    BY <1>9, <2>2, <2>3 DEF StartOrder
  <2>6. call.name = "order"
    BY <2>2
  <2>. QED  BY <1>8, <2>1, <2>4, <2>5, <2>6
<1>10. CASE Resume(w)
  <2>1. Op(w) = "resume" /\ UNCHANGED <<asked, replies>>
    BY <1>1, <1>10 DEF Resume, Shape, Shaped, Op, Routes, Sessionless
  <2>2. CASE threads["orders"].next = "end"
    <3>1. job'[w] = None /\ UNCHANGED threads
      BY <1>1, <1>10, <2>2 DEF Resume, End
    <3>. QED  BY <1>6, <2>1, <3>1
  <2>3. CASE threads["orders"].next # "end"
    <3>1. DOMAIN threads["orders"] = StateFields /\ threads["orders"].call.name = "order"
      BY <2>3 DEF AgentInv, ThreadsKept
    <3>2. Enter(w, threads["orders"], "run tool")
      BY <1>10, <2>3 DEF Resume
    <3>. QED  BY <1>8, <2>1, <3>1, <3>2
  <2>. QED  BY <2>2, <2>3
<1>11. CASE Intake(w)
  <2>1. pc = "intake" /\ pc \in TalkSteps /\ UNCHANGED <<asked, replies>>
    BY <1>11 DEF Intake, TalkSteps
  <2>2. PICK t \in Nat : t = row.turns
    BY <1>3, <2>1 DEF Counted
  <2>3. t + 1 >= Least
    BY <1>3, <2>1, <2>2 DEF Counted
  <2>4. PICK flag : flag = Emergency(row, Req(w).text)
    OBVIOUS
  <2>5. PICK state : state = [row EXCEPT !.turns = @ + 1, !.emergency = flag]
    OBVIOUS
  <2>6. DOMAIN state = StateFields /\ state.turns = t + 1
    BY <1>2, <1>3, <2>1, <2>2, <2>5 DEF StateFields
  <2>7. PICK next : next = IF state.turns > MaxTurns THEN "hand over"
                           ELSE IF state.emergency THEN "emergency text" ELSE "route"
    OBVIOUS
  <2>8. Checkpoint(w, state, next)
    BY <1>11, <2>4, <2>5, <2>7 DEF Intake
  <2>9. next # "intake" /\ (next \notin Unlimited => ~ (state.turns > MaxTurns))
    BY <2>7 DEF Unlimited
  <2>10. next \in Unlimited \/ state.turns <= MaxTurns
    BY ONLY <2>2, <2>6, <2>9, TurnsCounted
  <2>11. state.turns \in Nat /\ state.turns >= Least
    BY ONLY <2>2, <2>3, <2>6
  <2>. QED  BY <1>1, <1>3, <2>1, <2>6, <2>8, <2>9, <2>10, <2>11, TurnSaved
<1>12. CASE HandOver(w)
  <2>1. /\ pc = "hand over" /\ pc \in TalkSteps /\ UNCHANGED asked
        /\ Reply(w, "hand over") /\ Checkpoint(w, row, "end")
    BY <1>12 DEF HandOver, TalkSteps
  <2>. QED  BY <1>2, <1>3, <1>5, <2>1
<1>13. CASE EmergencyText(w)
  <2>1. pc = "emergency text" /\ pc \in TalkSteps /\ UNCHANGED asked /\ Reply(w, "emergency")
    BY <1>13 DEF EmergencyText, TalkSteps
  <2>2. PICK state : state = [row EXCEPT !.confidence = job[w].n]
    OBVIOUS
  <2>3. DOMAIN state = StateFields /\ state.turns = row.turns
    BY <1>2, <1>3, <2>1, <2>2 DEF StateFields
  <2>4. Checkpoint(w, state, "end")
    BY <1>13, <2>2 DEF EmergencyText
  <2>. QED  BY <1>5, <2>1, <2>3, <2>4
<1>14. CASE Route(w)
  <2>1. pc = "route" /\ pc \in TalkSteps /\ UNCHANGED <<asked, replies>>
    BY <1>14 DEF Route, TalkSteps
  <2>2. PICK tool : tool = ToolFor(row, Req(w).text)
    OBVIOUS
  <2>3. PICK call : call = IF tool = None THEN None ELSE [name |-> tool, args |-> None]
    OBVIOUS
  <2>4. PICK state : state = [row EXCEPT !.call = call]
    OBVIOUS
  <2>5. PICK next : next = IF tool = None THEN "retrieve" ELSE "run tool"
    OBVIOUS
  <2>6. DOMAIN state = StateFields /\ state.turns = row.turns
    BY <1>2, <1>3, <2>1, <2>4 DEF StateFields
  <2>7. Checkpoint(w, state, next)
    BY <1>14, <2>2, <2>3, <2>4, <2>5 DEF Route
  <2>8. next # "intake" /\ pc \notin Unlimited
    BY <2>1, <2>5 DEF Unlimited
  <2>. QED  BY <1>3, <1>4, <2>1, <2>6, <2>7, <2>8
<1>15. CASE RunReadTool(w)
  <2>1. pc = "run tool" /\ pc \in AgentSteps /\ ~Gated(w) /\ UNCHANGED <<asked, replies>>
    BY <1>15 DEF RunReadTool, AgentSteps
  <2>2. PICK ok, single : Checkpoint(w, WithResult(w, ok, single), "verify")
    BY <1>15 DEF RunReadTool
  <2>3. /\ DOMAIN WithResult(w, ok, single) = StateFields
        /\ WithResult(w, ok, single).turns = row.turns
    BY <1>2, <2>1 DEF WithResult, StateFields
  <2>4. Op(w) = "talk" /\ pc \notin Unlimited
    BY <1>2, <2>1 DEF OfItsMessage, Unlimited
  <2>. QED  BY <1>4, <2>1, <2>2, <2>3, <2>4
<1>16. CASE Retrieve(w)
  <2>1. pc = "retrieve" /\ pc \in TalkSteps /\ UNCHANGED <<asked, replies>>
    BY <1>16 DEF Retrieve, TalkSteps
  <2>2. PICK state : state = [row EXCEPT !.docs = job[w].n, !.confidence = job[w].n]
    OBVIOUS
  <2>3. DOMAIN state = StateFields /\ state.turns = row.turns
    BY <1>2, <1>3, <2>1, <2>2 DEF StateFields
  <2>4. Checkpoint(w, state, "verify") /\ pc \notin Unlimited
    BY <1>16, <2>1, <2>2 DEF Retrieve, Unlimited
  <2>. QED  BY <1>3, <1>4, <2>1, <2>3, <2>4
<1>17. CASE Verify(w)
  <2>1. pc = "verify" /\ pc \in TalkSteps /\ UNCHANGED <<asked, replies>>
    BY <1>17 DEF Verify, TalkSteps
  <2>2. PICK state : state = [row EXCEPT !.confidence = IF @ = None THEN job[w].n ELSE @]
    OBVIOUS
  <2>3. DOMAIN state = StateFields /\ state.turns = row.turns
    BY <1>2, <1>3, <2>1, <2>2 DEF StateFields
  <2>4. Checkpoint(w, state, "respond") /\ pc \notin Unlimited
    BY <1>17, <2>1, <2>2 DEF Verify, Unlimited
  <2>. QED  BY <1>3, <1>4, <2>1, <2>3, <2>4
<1>18. CASE Respond(w)
  <2>1. /\ pc = "respond" /\ pc \in TalkSteps /\ pc \notin Unlimited /\ UNCHANGED asked
        /\ Reply(w, "generated") /\ Checkpoint(w, row, "end")
    BY <1>18 DEF Respond, TalkSteps, Unlimited
  <2>. QED  BY <1>2, <1>3, <1>5, <2>1
(* The confirmation gate.                                                  *)
<1>19. ASSUME pc \in AgentSteps, pc # "intake", UNCHANGED <<asked, replies>>,
              NEW ok, Checkpoint(w, WithResult(w, ok, FALSE), "end")
       PROVE  TurnInv'
  <2>1. /\ DOMAIN WithResult(w, ok, FALSE) = StateFields
        /\ WithResult(w, ok, FALSE).turns = row.turns
    BY <1>2, <1>19 DEF WithResult, StateFields
  <2>. QED  BY <1>4, <1>19, <2>1
<1>20. CASE DenyGuest(w) \/ KeepResult(w)
  BY <1>19, <1>20 DEF DenyGuest, KeepResult, Refuse, AgentSteps
<1>21. CASE Interrupt(w)
  <2>1. job'[w] = None
    BY <1>1, <1>21 DEF Interrupt, End
  <2>. QED  BY <1>6, <1>21, <2>1 DEF Interrupt
<1>22. ASSUME Op(w) # "talk", NEW next, Goto(w, next), UNCHANGED <<threads, asked, replies>>
       PROVE  TurnInv'
  <2>1. job'[w].req = job[w].req
    BY <1>1, <1>22 DEF Goto, Fields
  <2>. QED  BY <1>6, <1>22, <2>1
<1>23. CASE Decision(w)
  <2>1. pc \in AgentSteps /\ pc # "intake" /\ Op(w) # "talk" /\ UNCHANGED <<asked, replies>>
    BY <1>23 DEF Decision, AgentSteps
  <2>. QED  BY <1>19, <1>22, <1>23, <2>1 DEF Decision, Refuse
<1>24. CASE ClaimCall(w)
  <2>1. pc = "claim call" /\ pc \in AgentSteps /\ pc # "intake" /\ UNCHANGED <<asked, replies>>
    BY <1>24 DEF ClaimCall, AgentSteps
  <2>2. Op(w) # "talk"
    BY <1>2, <2>1 DEF OfItsPrompt
  <2>. QED  BY <1>19, <1>22, <1>24, <2>1, <2>2 DEF ClaimCall, Refuse
<1>25. CASE ApplyCall(w)
  <2>1. pc = "apply call" /\ pc \in AgentSteps /\ UNCHANGED <<threads, asked, replies>>
    BY <1>25 DEF ApplyCall, AgentSteps
  <2>2. Op(w) # "talk"
    BY <1>2, <2>1 DEF OfItsPrompt
  <2>. QED  BY <1>22, <1>25, <2>1, <2>2 DEF ApplyCall
<1>. QED  BY <1>7, <1>9, <1>10, <1>11, <1>12, <1>13, <1>14, <1>15, <1>16, <1>17, <1>18, <1>20,
             <1>21, <1>23, <1>24, <1>25 DEF AgentStep, TurnStep, GateStep

LEMMA TurnAlways == SiteSpec => [](Shape /\ AgentInv /\ TurnInv)
<1>1. Shape /\ AgentInv /\ TurnInv /\ [SiteNext]_siteVars => TurnInv'
  BY AnswerCases, TurnQuiet, TurnNext
<1>. QED  BY <1>1, TurnStart, ShapeInit, AgentAlways, PTL DEF SiteSpec

(* A thread costs at most MaxTurns answers of the model, however many of   *)
(* its runs die; each run that began while another was under way adds at   *)
(* most one.                                                               *)
THEOREM TurnsStayBounded == SiteSpec => []TurnsBounded
<1>1. ASSUME AgentInv, TurnInv
      PROVE  TurnsBounded
  <2>. DEFINE Generated == {i \in DOMAIN replies : replies[i].kind = "generated"}
              More == {i \in Generated : asked[replies[i].run].overlaps}
              Late == {i \in DOMAIN asked : asked[i].overlaps}
  <2>1. IsFiniteSet(Generated) /\ IsFiniteSet(Late)
    <3>1. PICK n \in Nat : DOMAIN replies = 1..n
      BY <1>1 DEF AgentInv, IsSequence
    <3>2. PICK m \in Nat : DOMAIN asked = 1..m
      BY <1>1 DEF AgentInv, IsSequence
    <3>3. IsFiniteSet(1..n) /\ IsFiniteSet(1..m)
      BY FS_Interval
    <3>4. Generated \in SUBSET (1..n) /\ Late \in SUBSET (1..m)
      BY <3>1, <3>2
    <3>. QED  BY <3>3, <3>4, FS_Subset
  <2>2. IsFiniteSet(More) /\ Cardinality(More) <= Cardinality(Late)
    <3>1. IsFiniteSet(More)
      BY <2>1, FS_Subset
    <3>. DEFINE f == [i \in More |-> replies[i].run]
    <3>2. f \in [More -> Late]
      BY <1>1 DEF AgentInv
    <3>3. IsInjective(f)
      BY <1>1 DEF IsInjective, TurnInv
    <3>4. f \in Injection(More, Late)
      BY <3>2, <3>3 DEF Injection
    <3>. QED  BY <2>1, <3>1, <3>4, FS_Injection
  <2>3. Generated = Used \cup More /\ Used \cap More = {}
    BY DEF Used
  <2>4. Cardinality(Generated) = Spent + Cardinality(More)
    <3>1. PICK u, m : u = Used /\ m = More
      OBVIOUS
    <3>2. IsFiniteSet(u) /\ IsFiniteSet(m) /\ u \cap m = {} /\ Generated = u \cup m
      BY <1>1, <2>2, <2>3, <3>1, UsedFinite
    <3>3. Cardinality(u \cup m) = Cardinality(u) + Cardinality(m) - Cardinality(u \cap m)
      BY <3>2, FS_Union
    <3>4. Cardinality(u \cap m) = 0 /\ Cardinality(u) \in Nat /\ Cardinality(m) \in Nat
      BY <3>2, FS_EmptySet, FS_CardinalityType
    <3>5. Cardinality(u \cup m) = Cardinality(u) + Cardinality(m)
      BY ONLY <3>3, <3>4
    <3>. QED  BY <3>1, <3>2, <3>5 DEF Spent
  <2>5. Spent <= MaxTurns
    BY <1>1 DEF TurnInv
  <2>6. Cardinality(Generated) <= MaxTurns + Cardinality(Late)
    BY <1>1, <2>1, <2>2, <2>4, <2>5, UsedFinite, TurnsCounted, FS_CardinalityType
  <2>. QED  BY <2>6 DEF TurnsBounded
<1>. QED  BY <1>1, TurnAlways, PTL

=============================================================================
