---------------------------- MODULE AgentThread -----------------------------
(***************************************************************************)
(* The LangGraph agent.  A run takes one message through the nodes of the  *)
(* graph and checkpoints the state of its thread after every node; the     *)
(* next run of the thread starts from the latest checkpoint, whoever wrote *)
(* it, so a run that dies leaves its half-done state behind and two runs   *)
(* of one thread overwrite each other.  A tool that writes pauses its run  *)
(* until its caller resumes it with an approval.                           *)
(*                                                                         *)
(* One thread holds the turns of the chat endpoint, another the calls of   *)
(* the write tool, whose graph has the node tool_executor only.  Nothing   *)
(* of the text of a message counts but what the nodes look for in it.      *)
(***************************************************************************)
EXTENDS KnowledgeBase

CONSTANT MaxTurns    \* MAX_AGENT_TURNS
ASSUME TurnsCounted == MaxTurns \in Nat

VARIABLES
    threads,    \* the latest checkpoint of each thread
    asked,      \* history: the runs of the chat thread, in the order they began
    replies,    \* history: how each of them was answered
    gate        \* history: the prompts shown, and the calls applied

agentVars == <<threads, asked, replies, gate>>

Thread(op) == IF op = "talk" THEN "chat" ELSE "orders"

AgentInit ==
    /\ threads = [s \in {"chat", "orders"} |->
                    [turns |-> 0, emergency |-> FALSE, call |-> None, results |-> None,
                     docs |-> 0, confidence |-> None, next |-> "end"]]
    /\ asked = <<>>
    /\ replies = <<>>
    /\ gate = [prompted |-> {}, applied |-> {}]

OutsideAgent == <<db, issued, history, catalogVars, alertVars, learningVars>>

(* A node has run: its updates are checkpointed with the node that follows.*)
Checkpoint(w, state, next) ==
    /\ threads' = [threads EXCEPT ![Thread(Op(w))] = [state EXCEPT !.next = next]]
    /\ job' = [job EXCEPT ![w] = IF next = "end" THEN None
                                 ELSE [@ EXCEPT !.pc = next, !.row = state]]
    /\ UNCHANGED <<todo, OutsideAgent>>

-----------------------------------------------------------------------------
(* The endpoint.  A token that does not verify makes its bearer a guest.   *)
Bearer(w, t) ==
    IF issued[t].left > 0 /\ ~Has(Blacklisted(t)) /\ db[Who(w)].active THEN Who(w) ELSE None
Tokens(w)  == {t \in DOMAIN issued : issued[t].kind = "access" /\ issued[t].user = Who(w)}
Callers(w) == IF Tokens(w) = {} THEN {None} ELSE {Bearer(w, t) : t \in Tokens(w)}

Talking(w) == job[w] # None /\ Op(w) = "talk" /\ job[w].pc # "talk"

(* Mutant of WithInput: the turn of the request starts its own count.      *)
WithFreshInput(state) == [state EXCEPT !.turns = 0]

(* A message leaves every other channel of the thread as it was.           *)
WithInput(state) == state

Enter(w, state, pc) ==
    /\ \E caller \in Callers(w) :
         job' = [job EXCEPT ![w].pc = pc, ![w].user = caller, ![w].row = state,
                            ![w].n = Len(asked) + 1]
    /\ threads' = [threads EXCEPT ![Thread(Op(w))] = [state EXCEPT !.next = pc]]
    /\ UNCHANGED <<todo, redis, OutsideAgent>>

StartTurn(w) ==
    /\ At(w, "talk")
    /\ Enter(w, WithInput(threads["chat"]), "intake")
    /\ asked' = Append(asked, [text |-> Req(w).text,
                               overlaps |-> \E v \in Worker \ {w} : Talking(v)])
    /\ UNCHANGED <<replies, gate>>

StartOrder(w) ==
    /\ At(w, "order")
    /\ Enter(w, [threads["orders"] EXCEPT !.call = [name |-> "order", args |-> Req(w).args]],
             "run tool")
    /\ UNCHANGED <<asked, replies, gate>>

(* A client answers a prompt that it, or another user of the thread, was   *)
(* shown.  The thread goes on where its latest checkpoint stopped.         *)
Resume(w) ==
    /\ At(w, "resume")
    /\ Req(w).shown \in gate.prompted
    /\ IF threads["orders"].next = "end"
       THEN End(w) /\ UNCHANGED <<todo, redis, threads, OutsideAgent>>
       ELSE Enter(w, threads["orders"], "run tool")
    /\ UNCHANGED <<asked, replies, gate>>

-----------------------------------------------------------------------------
(* Mutant of Emergency: a flag is only set when there is none, as verifier *)
(* does with the confidence.                                               *)
EmergencySinceStart(state, text) == state.emergency \/ text = "emergency"

Emergency(state, text) == text = "emergency"

(* intake_guardrail and the edges behind it: the turn limit goes before    *)
(* the emergency.                                                          *)
Intake(w) ==
    /\ At(w, "intake")
    /\ LET state == [job[w].row EXCEPT !.turns = @ + 1,
                                       !.emergency = Emergency(job[w].row, Req(w).text)] IN
         Checkpoint(w, state, IF state.turns > MaxTurns THEN "hand over"
                              ELSE IF state.emergency THEN "emergency text" ELSE "route")
    /\ UNCHANGED <<redis, asked, replies, gate>>

Reply(w, kind) == replies' = Append(replies, [run |-> job[w].n, kind |-> kind])

HandOver(w) ==
    /\ At(w, "hand over")
    /\ Reply(w, "hand over")
    /\ Checkpoint(w, job[w].row, "end")
    /\ UNCHANGED <<redis, asked, gate>>

EmergencyText(w) ==
    /\ At(w, "emergency text")
    /\ Reply(w, "emergency")
    /\ Checkpoint(w, [job[w].row EXCEPT !.confidence = job[w].n], "end")
    /\ UNCHANGED <<redis, asked, gate>>

-----------------------------------------------------------------------------
(* The router: a question about the stock is about the one product that    *)
(* the last search found; other words lead to another tool, or to none.    *)
Remembered(state) == state.results # None /\ state.results.name = "search" /\ state.results.single

ToolFor(state, text) ==
    IF text = "stock" /\ Remembered(state) THEN "inventory"
    ELSE IF text \in {"policy", "search"} THEN text ELSE None

Route(w) ==
    /\ At(w, "route")
    /\ LET tool == ToolFor(job[w].row, Req(w).text) IN
         Checkpoint(w, [job[w].row EXCEPT
                            !.call = IF tool = None THEN None ELSE [name |-> tool, args |-> None]],
                    IF tool = None THEN "retrieve" ELSE "run tool")
    /\ UNCHANGED <<redis, asked, replies, gate>>

(* The results of the calls replace those the thread had; a tool that      *)
(* fails gives a result too.                                               *)
WithResult(w, ok, single) ==
    [job[w].row EXCEPT !.results =
        [name |-> job[w].row.call.name, run |-> job[w].n, ok |-> ok, single |-> single]]

Gated(w) == job[w].row.call.name = "order"

(* What each read tool may return; any of them may also raise.             *)
Found(single) == [ok |-> TRUE, single |-> single]
Failure == [ok |-> FALSE, single |-> FALSE]
Listed == \E p \in DOMAIN product : product[p].active

SearchProducts  == {Found(FALSE)} \cup {Found(TRUE) : p \in {q \in DOMAIN product : product[q].active}}
CheckInventory  == {IF Listed THEN Found(FALSE) ELSE Failure}
LookupSafetyPolicy == {Found(FALSE)}

Returned(tool) ==
    {Failure} \cup CASE tool = "search"    -> SearchProducts
                     [] tool = "inventory" -> CheckInventory
                     [] tool = "policy"    -> LookupSafetyPolicy

RunReadTool(w) ==
    /\ At(w, "run tool") /\ ~Gated(w)
    /\ \E result \in Returned(job[w].row.call.name) :
         Checkpoint(w, WithResult(w, result.ok, result.single), "verify")
    /\ UNCHANGED <<redis, asked, replies, gate>>

(* Documents come without the results of earlier tools being dropped.      *)
Retrieve(w) ==
    /\ At(w, "retrieve")
    /\ Checkpoint(w, [job[w].row EXCEPT !.docs = job[w].n, !.confidence = job[w].n], "verify")
    /\ UNCHANGED <<redis, asked, replies, gate>>

Verify(w) ==
    /\ At(w, "verify")
    /\ Checkpoint(w, [job[w].row EXCEPT !.confidence = IF @ = None THEN job[w].n ELSE @], "respond")
    /\ UNCHANGED <<redis, asked, replies, gate>>

(* The model is given the results the thread has, or else the documents:   *)
(* after a tool once ran, no document reaches it any more.                 *)
Respond(w) ==
    /\ At(w, "respond")
    /\ Reply(w, "generated")
    /\ Checkpoint(w, job[w].row, "end")
    /\ UNCHANGED <<redis, asked, gate>>

-----------------------------------------------------------------------------
(* The confirmation gate of the tools that write.                          *)

(* Mutant of PendingToken: one token for whoever makes the same call.      *)
SharedToken(user, args) == <<"pending tool", args>>

PendingToken(user, args) == <<"pending tool", user, args>>

Own(w) == PendingToken(Who(w), job[w].row.call.args)

Refuse(w) == Checkpoint(w, WithResult(w, FALSE, FALSE), "end")

DenyGuest(w) ==
    /\ At(w, "run tool") /\ Gated(w) /\ Who(w) = None
    /\ Refuse(w)
    /\ UNCHANGED <<redis, asked, replies, gate>>

OwnCall(w) == [user |-> Who(w), args |-> job[w].row.call.args]
StoreCall(w) == SetEx(Own(w), OwnCall(w), PendingTtl)

(* The first time, interrupt ends the run and leaves its checkpoint.       *)
Interrupt(w) ==
    /\ At(w, "run tool") /\ Gated(w) /\ Who(w) # None /\ Op(w) = "order"
    /\ StoreCall(w)
    /\ gate' = [gate EXCEPT !.prompted = @ \cup {OwnCall(w)}]
    /\ End(w)
    /\ UNCHANGED <<todo, threads, asked, replies, OutsideAgent>>

(* The client approves, and echoes the token of this call.                 *)
Confirmed(w) == Req(w).approved /\ PendingToken(Req(w).shown.user, Req(w).shown.args) = Own(w)

(* The second time the node runs from its first line, so the call is       *)
(* stored again, and interrupt returns the decision.                       *)
Decision(w) ==
    /\ At(w, "run tool") /\ Gated(w) /\ Who(w) # None /\ Op(w) = "resume"
    /\ StoreCall(w)
    /\ \/ Confirmed(w) /\ Goto(w, "claim call") /\ UNCHANGED <<todo, threads, OutsideAgent>>
       \/ ~Confirmed(w) /\ Refuse(w)
    /\ UNCHANGED <<asked, replies, gate>>

(* GETDEL.                                                                 *)
ClaimCall(w) ==
    /\ At(w, "claim call")
    /\ Delete(Own(w))
    /\ IF Has(Own(w)) /\ redis[Own(w)].val = OwnCall(w)
       THEN Goto(w, "apply call") /\ UNCHANGED <<todo, threads, OutsideAgent>>
       ELSE Refuse(w)
    /\ UNCHANGED <<asked, replies, gate>>

(* The call is applied and audited; its result is checkpointed afterwards. *)
ApplyCall(w) ==
    /\ At(w, "apply call")
    /\ gate' = [gate EXCEPT !.applied = @ \cup {OwnCall(w)}]
    /\ Goto(w, "keep result")
    /\ UNCHANGED <<todo, redis, threads, asked, replies, OutsideAgent>>

KeepResult(w) ==
    /\ At(w, "keep result")
    /\ Checkpoint(w, WithResult(w, TRUE, FALSE), "end")
    /\ UNCHANGED <<redis, asked, replies, gate>>

TurnStep(w) ==
    \/ StartTurn(w) \/ Intake(w) \/ HandOver(w) \/ EmergencyText(w) \/ Route(w)
    \/ RunReadTool(w) \/ Retrieve(w) \/ Verify(w) \/ Respond(w)
GateStep(w) ==
    \/ StartOrder(w) \/ Resume(w) \/ DenyGuest(w) \/ Interrupt(w) \/ Decision(w)
    \/ ClaimCall(w) \/ ApplyCall(w) \/ KeepResult(w)
AgentStep(w) == TurnStep(w) \/ GateStep(w)

-----------------------------------------------------------------------------
(* A thread costs at most MAX_AGENT_TURNS generations, however many of its *)
(* runs die; a run that began while another was under way can add one.     *)
TurnsBounded ==
    Cardinality({i \in DOMAIN replies : replies[i].kind = "generated"})
        <= MaxTurns + Cardinality({i \in DOMAIN asked : asked[i].overlaps})

(* An emergency is never answered by the model and nothing else gets the   *)
(* emergency text, whatever the thread was about before.                   *)
EmergencyAnswered ==
    \A i \in DOMAIN replies :
        LET emergency == asked[replies[i].run].text = "emergency" IN
          IF emergency THEN replies[i].kind # "generated" ELSE replies[i].kind # "emergency"

(* A call is applied for a user only if that user was shown this call to   *)
(* confirm, whoever shares the thread and answers its prompts.             *)
PromptedUserApplies == gate.applied \subseteq gate.prompted
=============================================================================
