--------------------------- MODULE KnowledgeBase ----------------------------
(***************************************************************************)
(* The knowledge base and the review of answers that feeds it.  Staff      *)
(* judge an answer and may make a document of it; administrators write,    *)
(* import, edit and drop documents; a search compares the vector of a      *)
(* question with the vectors of the documents.  Gemini may be out of quota *)
(* at any call, and each embedding call is awaited between the read of a   *)
(* row and the write of what follows from it.  An object that a session    *)
(* has loaded is not read again, and only what changed is written.         *)
(***************************************************************************)
EXTENDS PriceAlerts

VARIABLES
    answer,     \* one answer of the assistant, with what its reviewers did
    docs,       \* documents of the knowledge base and their vectors
    searches    \* history: the vector and the column each search compared

learningVars == <<answer, docs, searches>>

(* The answer starts out flagged: its intent was of low confidence.        *)
LearningInit ==
    /\ answer = [flag |-> TRUE, action |-> None, fixed |-> None,
                 votes |-> 0, judged |-> 0, ver |-> 0, overlapped |-> FALSE]
    /\ docs = <<>>
    /\ searches = <<>>

OutsideLearning == <<todo, db, redis, issued, history, catalogVars, alertVars>>

Keep(w, row, pc) ==
    job' = [job EXCEPT ![w].pc = pc, ![w].row = row]

-----------------------------------------------------------------------------
(* Votes and reviews of the answer.                                        *)
ReadAnswer(w) ==
    /\ \E op \in {"vote", "approve", "reject", "learn"} : At(w, op)
    /\ Keep(w, answer, IF Op(w) = "learn" THEN "embed answer" ELSE "write answer")
    /\ UNCHANGED <<learningVars, OutsideLearning>>

(* What a session writes of a row it has loaded: the fields it changed.    *)
Flushed(row, seen, changes) ==
    [f \in DOMAIN row |-> IF f \in DOMAIN changes /\ changes[f] # seen[f]
                          THEN changes[f] ELSE row[f]]
Amend(w, changes) ==
    [Flushed(answer, job[w].row, changes) EXCEPT
        !.ver = @ + 1, !.overlapped = @ \/ answer.ver # job[w].row.ver]

(* Mutant of Downvote: the score is stored and the flag is not.            *)
ScoreOnly(w) == [Amend(w, [ver |-> 0]) EXCEPT !.votes = @ + 1]

Downvote(w) == [Amend(w, [flag |-> TRUE]) EXCEPT !.votes = @ + 1]

Decide(w, action, fixed) ==
    [Amend(w, [flag |-> FALSE, action |-> action, fixed |-> fixed])
        EXCEPT !.judged = job[w].row.votes]

WriteAnswer(w) ==
    /\ At(w, "write answer")
    /\ answer' = CASE Op(w) = "vote"    -> Downvote(w)
                   [] Op(w) = "approve" -> Decide(w, "approved", Req(w).fixed)
                   [] Op(w) = "reject"  -> Decide(w, "rejected", job[w].row.fixed)
    /\ End(w)
    /\ UNCHANGED <<docs, searches, OutsideLearning>>

-----------------------------------------------------------------------------
(* Documents.  The vectors are the texts they were made from.              *)
Text(title, content) == <<title, content>>
Document(title, content, gemini, jina, source) ==
    [title |-> title, content |-> content, gemini |-> gemini, jina |-> jina,
     active |-> TRUE, source |-> source, ver |-> 0, overlapped |-> FALSE, quota |-> FALSE]

(* Mutant of Content: the correction is not used.                          *)
Original(row) == "answer"

(* The text a reviewed answer teaches: its correction, if there is one.    *)
Content(row) == IF row.fixed # None THEN row.fixed ELSE "answer"

(* add_to_knowledge_base has no fallback: without Gemini it fails.         *)
EmbedAnswer(w) ==
    /\ At(w, "embed answer")
    /\ Goto(w, "learn answer") \/ End(w)
    /\ UNCHANGED <<learningVars, OutsideLearning>>

LearnAnswer(w) ==
    /\ At(w, "learn answer")
    /\ LET content == Content(job[w].row) IN
         docs' = Append(docs, Document("title", content, Text("title", content), None, "chat"))
    /\ answer' = Decide(w, "added_to_kb", job[w].row.fixed)
    /\ End(w)
    /\ UNCHANGED <<searches, OutsideLearning>>

(* One document: without Gemini its vector is left out, without Jina the   *)
(* request fails.                                                          *)
CreateDocument(w) ==
    /\ At(w, "new doc")
    /\ \/ \E gemini \in {Text(Req(w).title, Req(w).content), None} :
            docs' = Append(docs, Document(Req(w).title, Req(w).content, gemini,
                                          Text(Req(w).title, Req(w).content), "staff"))
       \/ UNCHANGED docs
    /\ End(w)
    /\ UNCHANGED <<answer, searches, OutsideLearning>>

(* An import needs both models for all its documents, or creates none.     *)
ImportDocuments(w) ==
    /\ At(w, "import")
    /\ \/ docs' = docs \o [i \in DOMAIN Req(w).texts |->
                      Document("upload", Req(w).texts[i], Text("upload", Req(w).texts[i]),
                               Text("upload", Req(w).texts[i]), "upload")]
       \/ UNCHANGED docs
    /\ End(w)
    /\ UNCHANGED <<answer, searches, OutsideLearning>>

(* The schemas: what an edit may change, and an import is a list.          *)
Editable == {"title", "content", "active"}

ASSUME KnowledgeAssumption ==
    \A s \in Scenario, w \in Worker : \A i \in DOMAIN s[w] :
        /\ s[w][i].op = "edit doc" => s[w][i].field \in Editable
        /\ s[w][i].op = "import" =>
             /\ Len(s[w][i].texts) \in Nat
             /\ s[w][i].texts = [k \in 1..Len(s[w][i].texts) |-> s[w][i].texts[k]]

Edited(w, row) == [row EXCEPT ![Req(w).field] = Req(w).to]

(* Only a new title or content is embedded.                                *)
ReadDocument(w) ==
    /\ At(w, "edit doc")
    /\ IF Req(w).doc \in DOMAIN docs
       THEN Keep(w, docs[Req(w).doc],
                 IF Req(w).field = "active" THEN "write document" ELSE "embed document")
       ELSE End(w)
    /\ UNCHANGED <<learningVars, OutsideLearning>>

(* Mutant of EmbedDocument: the text from before the edit is embedded.     *)
EmbedStoredText(w) ==
    /\ At(w, "embed document")
    /\ LET text == Text(job[w].row.title, job[w].row.content) IN
         \/ \E gemini \in {text, None} :
              job' = [job EXCEPT ![w].pc = "write document",
                  ![w].row = Put(@, "vectors", [gemini |-> gemini, jina |-> text])]
         \/ End(w)
    /\ UNCHANGED <<learningVars, OutsideLearning>>

EmbedDocument(w) ==
    /\ At(w, "embed document")
    /\ LET text == Text(Edited(w, job[w].row).title, Edited(w, job[w].row).content) IN
         \/ \E gemini \in {text, None} :
              job' = [job EXCEPT ![w].pc = "write document",
                  ![w].row = Put(@, "vectors", [gemini |-> gemini, jina |-> text])]
         \/ End(w)
    /\ UNCHANGED <<learningVars, OutsideLearning>>

(* A vector that was not made is not written: the old one stays.           *)
WithVectors(row, vectors, overlapped) ==
    [row EXCEPT !.jina = vectors.jina, !.ver = @ + 1, !.overlapped = overlapped,
                !.gemini = IF vectors.gemini = None THEN @ ELSE vectors.gemini,
                !.quota = vectors.gemini = None]

WriteDocument(w) ==
    /\ At(w, "write document")
    /\ LET d == Req(w).doc
           row == Flushed(docs[d], job[w].row, [f \in {Req(w).field} |-> Req(w).to]) IN
         docs' = [docs EXCEPT ![d] =
             IF "vectors" \in DOMAIN job[w].row
             THEN WithVectors(row, job[w].row.vectors, docs[d].ver # job[w].row.ver)
             ELSE row]
    /\ End(w)
    /\ UNCHANGED <<answer, searches, OutsideLearning>>

DropDocument(w) ==
    /\ At(w, "drop doc")
    /\ docs' = IF Req(w).doc \in DOMAIN docs
               THEN [docs EXCEPT ![Req(w).doc].active = FALSE] ELSE docs
    /\ End(w)
    /\ UNCHANGED <<answer, searches, OutsideLearning>>

-----------------------------------------------------------------------------
(* Searches.  A question's vector is cached with the function that may     *)
(* compare it; an unreachable cache counts as empty.                       *)
Question == <<"question">>

SearchCache(w) ==
    /\ At(w, "search")
    /\ \/ Has(Question) /\ job' = [job EXCEPT ![w].pc = "match", ![w].row = redis[Question].val]
       \/ Goto(w, "embed question")
    /\ UNCHANGED <<learningVars, OutsideLearning>>

(* Mutant of Compared: every vector is compared with the Gemini column.    *)
GeminiColumn(model) == "gemini"

Compared(model) == model

EmbedQuestion(w) ==
    /\ At(w, "embed question")
    /\ \/ \E model \in {"gemini", "jina"} :
            job' = [job EXCEPT ![w].pc = "cache question",
                               ![w].row = [made |-> model, compared |-> Compared(model)]]
       \/ End(w)
    /\ UNCHANGED <<learningVars, OutsideLearning>>

CacheQuestion(w) ==
    /\ At(w, "cache question")
    /\ SetEx(Question, job[w].row, Ttl.query) \/ UNCHANGED redis
    /\ Goto(w, "match")
    /\ UNCHANGED <<learningVars, todo, db, issued, history, catalogVars, alertVars>>

MatchDocuments(w) ==
    /\ At(w, "match")
    /\ searches' = Append(searches,
           Put(job[w].row, "hits", {d \in DOMAIN docs :
               docs[d].active /\ docs[d][job[w].row.compared] # None}))
    /\ End(w)
    /\ UNCHANGED <<answer, docs, OutsideLearning>>

ReviewStep(w) == ReadAnswer(w) \/ WriteAnswer(w) \/ EmbedAnswer(w) \/ LearnAnswer(w)
LearningStep(w) ==
    \/ ReviewStep(w)
    \/ CreateDocument(w) \/ ImportDocuments(w) \/ ReadDocument(w) \/ EmbedDocument(w)
    \/ WriteDocument(w) \/ DropDocument(w) \/ SearchCache(w) \/ EmbedQuestion(w)
    \/ CacheQuestion(w) \/ MatchDocuments(w)

-----------------------------------------------------------------------------
(* An answer that customers voted down is in the review queue, or a        *)
(* reviewer who had seen the vote decided on it; only a vote and a         *)
(* decision that overlapped can lose one another.                          *)
VotesAreReviewed ==
    answer.votes > answer.judged => answer.flag \/ answer.overlapped

(* Whoever searches finds a document under the text it has now: both       *)
(* vectors were made from it, unless two edits overlapped or the last edit *)
(* could not reach Gemini and left its old vector in place.                *)
VectorsMatchText ==
    \A d \in DOMAIN docs :
        LET text == Text(docs[d].title, docs[d].content) IN
          docs[d].overlapped
          \/ /\ docs[d].jina \in {text, None}
             /\ docs[d].quota \/ docs[d].gemini \in {text, None}

(* A document learned from an answer teaches the correction that was in    *)
(* force, unless a reviewer changed it while the answer was embedded.      *)
LearnsCorrection ==
    [][\A w \in Worker : LearnAnswer(w) =>
          \/ answer.ver # job[w].row.ver
          \/ answer.fixed \in {None, docs'[Len(docs')].content}]_docs

(* A vector is only compared with vectors of the model that made it, for a *)
(* cached question too.                                                    *)
OneVectorSpace == \A i \in DOMAIN searches : searches[i].made = searches[i].compared
=============================================================================
