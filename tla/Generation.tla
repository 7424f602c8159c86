----------------------------- MODULE Generation -----------------------------
(***************************************************************************)
(* Answers that a language model writes.  A message of a customer goes     *)
(* through the intent classifier, whose embedding and model calls may      *)
(* fail, and then, like the questions of staff, through the pipeline: the  *)
(* safety checker, the retriever, and the chain of providers.  A provider  *)
(* that is out of quota hands over to the next one, for a stream only      *)
(* before its first chunk.                                                 *)
(*                                                                         *)
(* Two detectors look for an emergency, the keywords of the checker and    *)
(* the classifier, and neither knows of the other.  Of a text only what    *)
(* they find in it counts; retrieved documents are left out.               *)
(***************************************************************************)
EXTENDS KnowledgeBase

CONSTANT Deployments    \* the provider and the API keys of the settings

(* The names that the settings take for LLM_PROVIDER.                      *)
Providers == {"gemini", "groq", "vllm", "ollama"}
ASSUME DeploymentsNamed ==
    None \notin Providers /\ None \notin Deployments /\ \A d \in Deployments : d.name \in Providers

VARIABLES
    llm,        \* the chain the factory cached, or None
    written     \* history: the answers customers and staff were given

generationVars == <<llm, written>>
GenerationInit == llm = None /\ written = <<>>

OutsideGeneration == <<todo, db, redis, issued, history, catalogVars, alertVars, learningVars>>

-----------------------------------------------------------------------------
(* The chain of a deployment, and the errors that move a call along it.    *)
Backup(d) ==
    CASE d.name = "gemini" -> {"groq"} \cap d.keys
      [] d.name = "groq"   -> {"gemini"} \cap d.keys
      [] d.name = "vllm"   -> IF "groq" \in d.keys THEN {"groq"} ELSE {"gemini"} \cap d.keys
      [] OTHER             -> {}
Chain(d) == <<d.name>> \o SetToSeq(Backup(d))
Configured(d) == d.name \in {"gemini", "groq"} => d.name \in d.keys

Exhausted   == {"quota", "rate"}
Unreachable == {"timeout", "connection"}
FallbackErrors(d) == Exhausted \cup (IF d.name = "vllm" THEN Unreachable ELSE {})

(* A response that is refused is read for its message.  That of a stream   *)
(* has not been read, and reading it raises an error of its own.           *)
Mapped == Exhausted \cup Unreachable \cup {"invalid"}
GeminiErrors(stream) == Mapped
GroqErrors(stream)   == IF stream THEN Unreachable \cup {"unread"} ELSE Mapped \cup {"unparsable"}
VLLMErrors(stream)   == IF stream THEN Unreachable \cup {"unread"} ELSE Mapped \cup {"unparsable"}
OllamaErrors(stream) == Unreachable \cup (IF stream THEN {"unread"} ELSE {"invalid", "unparsable"})

Errors(p, stream) ==
    CASE p = "gemini" -> GeminiErrors(stream)
      [] p = "groq"   -> GroqErrors(stream)
      [] p = "vllm"   -> VLLMErrors(stream)
      [] p = "ollama" -> OllamaErrors(stream)

(* The embedding services.  The first one knows what its API answers, but  *)
(* not that it could not be reached.                                       *)
EmbeddingErrors == Mapped \cup {"network"}
JinaErrors      == Mapped

Attempts == 3
Retried(p, error, attempt) ==
    p \in {"gemini", "ollama"} /\ error \in Unreachable /\ attempt < Attempts

Serving(w) == Chain(llm)[job[w].row.link]

(* The next provider begins where the answer does.                         *)
NextProvider(w) ==
    job' = [job EXCEPT ![w].row.link = @ + 1, ![w].row.attempt = 1]
HasNext(w) == job[w].row.link < Len(Chain(llm))

(* Mutant of MayFallBack: a stream that breaks off is taken over, too.     *)
MayAlwaysFallBack(w, error) == error \in FallbackErrors(llm) /\ HasNext(w)

MayFallBack(w, error) ==
    error \in FallbackErrors(llm) /\ HasNext(w) /\ job[w].row.writers = {}

-----------------------------------------------------------------------------
(* Where a call is: at which provider, at which attempt, and whose words   *)
(* its answer has so far.                                                  *)
Fresh == [intent |-> None, link |-> 1, attempt |-> 1, writers |-> {}, then |-> None]

Given(w, kind, provider) ==
    written' = Append(written, [op |-> Op(w), text |-> Req(w).text, intent |-> job[w].row.intent,
                                kind |-> kind, writers |-> job[w].row.writers,
                                provider |-> provider])

(* A request that fails is rolled back: of a stream its reader keeps what  *)
(* was sent.                                                               *)
Raise(w) ==
    /\ End(w)
    /\ IF job[w].row.writers = {} THEN UNCHANGED written ELSE Given(w, "broken off", None)

Streams(w) == \/ Op(w) = "rag stream"
              \/ Op(w) = "message" /\ Req(w).stream /\ job[w].row.intent # "emergency"

Call(w, then) ==
    job' = [job EXCEPT ![w].pc = "generate", ![w].row.then = then]

Generate(w) ==
    /\ At(w, "generate")
    /\ \/ /\ job' = [job EXCEPT
                ![w].pc = job[w].row.then,
                ![w].row = IF job[w].row.then = "judge"
                           THEN [Fresh EXCEPT !.intent = job[w].row.intent]
                           ELSE [job[w].row EXCEPT !.writers = {Serving(w)}]]
          /\ UNCHANGED written
       \/ \E error \in Errors(Serving(w), FALSE) :
            IF Retried(Serving(w), error, job[w].row.attempt)
            THEN job' = [job EXCEPT ![w].row.attempt = @ + 1] /\ UNCHANGED written
            ELSE IF MayFallBack(w, error) THEN NextProvider(w) /\ UNCHANGED written
            ELSE Raise(w)
    /\ UNCHANGED <<llm, OutsideGeneration>>

(* A chunk is sent on, the stream ends, or it fails.                       *)
Stream(w) ==
    /\ At(w, "stream")
    /\ \/ /\ job' = [job EXCEPT ![w].row.writers = @ \cup {Serving(w)}]
          /\ UNCHANGED written
       \/ Goto(w, "store reply") /\ UNCHANGED written
       \/ \E error \in Errors(Serving(w), TRUE) :
            IF MayFallBack(w, error) THEN NextProvider(w) /\ UNCHANGED written ELSE Raise(w)
    /\ UNCHANGED <<llm, OutsideGeneration>>

(* The reader goes away: what it was sent is stored, without the provider, *)
(* which is only known to the caller when the stream has ended.            *)
Disconnect(w) ==
    /\ At(w, "stream")
    /\ End(w)
    /\ IF job[w].row.writers = {} THEN UNCHANGED written ELSE Given(w, "cut off", None)
    /\ UNCHANGED <<llm, OutsideGeneration>>

(* The provider of the chunks, or of the response.  Chunks name it where   *)
(* the chain or one of two providers puts it there, and staff who read a   *)
(* stream are not told.                                                    *)
NamesItself(p) == p \in {"groq", "vllm"}
Attributed(w) ==
    IF Op(w) = "rag stream" THEN None
    ELSE IF ~Streams(w) \/ Len(Chain(llm)) > 1 \/ NamesItself(Serving(w)) THEN Serving(w)
    ELSE None

(* A stream without a chunk leaves no answer.                              *)
Store(w) ==
    /\ At(w, "store reply")
    /\ IF job[w].row.writers = {} THEN UNCHANGED written ELSE Given(w, "generated", Attributed(w))
    /\ End(w)
    /\ UNCHANGED <<llm, OutsideGeneration>>

-----------------------------------------------------------------------------
(* The intent of a message.  The embedding answers first; the model is     *)
(* asked where the embedding is not sure, or has found an emergency, or    *)
(* has no quota left.                                                      *)
Categories == {"emergency", "complaint", "question"}

(* The factory builds the chain for the first request that needs it.       *)
Wire(w, pc) ==
    /\ IF llm = None THEN llm' \in Deployments ELSE UNCHANGED llm
    /\ IF Configured(llm')
       THEN job' = [job EXCEPT ![w].pc = pc, ![w].row = Fresh]
       ELSE End(w)
    /\ UNCHANGED <<written, OutsideGeneration>>

StartMessage(w)  == At(w, "message") /\ Wire(w, "classify")
StartQuestion(w) == At(w, Op(w)) /\ Op(w) \in {"rag query", "rag stream"} /\ Wire(w, "check text")

Intend(w, intent, pc) == job' = [job EXCEPT ![w].pc = pc, ![w].row.intent = intent]

(* A bare category is a question about products.                           *)
BareCategory(w) ==
    /\ At(w, "classify")
    /\ Req(w).text = "category"
    /\ Intend(w, "question", "decide reply")
    /\ UNCHANGED <<llm, written, OutsideGeneration>>

MustCheck(category, sure) == category = "emergency" \/ ~sure

EmbedMessage(w) ==
    /\ At(w, "classify")
    /\ Req(w).text # "category"
    /\ \/ \E category \in Categories, sure \in BOOLEAN :
            Intend(w, category, IF MustCheck(category, sure) THEN "ask model" ELSE "decide reply")
       \/ \E error \in EmbeddingErrors :
            IF error \in Exhausted THEN Goto(w, "ask model") ELSE End(w)
    /\ UNCHANGED <<llm, written, OutsideGeneration>>

AskModel(w) ==
    /\ At(w, "ask model")
    /\ Call(w, "judge")
    /\ UNCHANGED <<llm, written, OutsideGeneration>>

(* Either of them is enough for an emergency.                              *)
Judged(embedded, category) ==
    IF "emergency" \in {embedded, category} THEN "emergency" ELSE category

Judge(w) ==
    /\ At(w, "judge")
    /\ \/ \E category \in Categories :
            Intend(w, Judged(job[w].row.intent, category), "decide reply")
       \/ End(w)
    /\ UNCHANGED <<llm, written, OutsideGeneration>>

(* A complaint goes to staff, a question that is understood and that the   *)
(* catalogue does not answer goes to the pipeline, as does an emergency.   *)
PlanReply(w) ==
    /\ At(w, "decide reply")
    /\ \/ /\ job[w].row.intent # "complaint"
          /\ Goto(w, "check text") /\ UNCHANGED written
       \/ /\ job[w].row.intent # "emergency"
          /\ Given(w, "fixed reply", None)
          /\ End(w)
    /\ UNCHANGED <<llm, OutsideGeneration>>

-----------------------------------------------------------------------------
(* The pipeline.                                                           *)
(* Mutant of CheckQuery: what the classifier passed is not checked again.  *)
CheckUnclassified(w) == Req(w).text = "keyword" /\ job[w].row.intent = None

CheckQuery(w) == Req(w).text = "keyword"

CheckSafety(w) ==
    /\ At(w, "check text")
    /\ IF CheckQuery(w)
       THEN Given(w, "emergency text", None) /\ End(w)
       ELSE Goto(w, "find documents") /\ UNCHANGED written
    /\ UNCHANGED <<llm, OutsideGeneration>>

(* Without documents the model is asked all the same, unless the error is  *)
(* one the pipeline does not know.                                         *)
RetrievalErrors == (EmbeddingErrors \ Exhausted) \cup JinaErrors
Known(error) == error # "network"

FindDocuments(w) ==
    /\ At(w, "find documents")
    /\ \E result \in {"documents"} \cup RetrievalErrors :
         IF ~Known(result) THEN End(w)
         ELSE IF Streams(w) THEN Goto(w, "stream") ELSE Call(w, "store reply")
    /\ UNCHANGED <<llm, written, OutsideGeneration>>

GenerationStep(w) ==
    \/ StartMessage(w) \/ BareCategory(w) \/ EmbedMessage(w) \/ AskModel(w) \/ Judge(w)
    \/ PlanReply(w) \/ StartQuestion(w) \/ CheckSafety(w) \/ FindDocuments(w)
    \/ Generate(w) \/ Stream(w) \/ Disconnect(w) \/ Store(w)

-----------------------------------------------------------------------------
(* No answer is spliced from two models, however its providers fail, and   *)
(* the provider that an answer is accounted to is the one that wrote it,   *)
(* which is always known where a chain of two could have.                  *)
WrittenByOne ==
    \A i \in DOMAIN written :
        /\ Cardinality(written[i].writers) <= 1
        /\ written[i].provider \in {None} \cup written[i].writers
        /\ written[i].kind = "generated" /\ written[i].op = "message" /\ Len(Chain(llm)) > 1
               => written[i].provider # None

(* A text with an emergency keyword never gets words of a model, whichever *)
(* route it takes and whatever the classifier made of it.                  *)
KeywordNeverGenerated ==
    \A i \in DOMAIN written : written[i].text = "keyword" => written[i].writers = {}

(* What the comment at the emergency branch of a turn says: its answer is  *)
(* the constant, with no call of the model.                                *)
EmergencyIsConstant ==
    \A i \in DOMAIN written : written[i].intent = "emergency" => written[i].kind = "emergency text"
=============================================================================
