-------------------------------- MODULE Site --------------------------------
(***************************************************************************)
(* The request handlers of the site together: accounts, the catalogue and  *)
(* its admin chat, the storefront, price mails, the knowledge base, the    *)
(* agent, the answers of the models.  They share the workers, the users    *)
(* table, the tokens, the blacklist and Redis: an administrator who is     *)
(* logged out, demoted or deactivated while a change is pending meets the  *)
(* other components through them.                                          *)
(***************************************************************************)
EXTENDS Storefront, AgentThread, Generation

siteVars == <<vars, catalogVars, storefrontVars, alertVars, learningVars, agentVars, generationVars>>

beyondCatalogue == <<alertVars, learningVars, agentVars, generationVars>>

SiteInit ==
    /\ Init /\ CatalogInit /\ StorefrontInit /\ AlertInit
    /\ LearningInit /\ AgentInit /\ GenerationInit

(* A lifetime ends somewhere: in Redis, in a token or in a link.           *)
SiteTick ==
    /\ Tick
    /\ AgeLinks
    /\ AgeStorefront
    /\ UNCHANGED <<links, opened, notices, learningVars, agentVars, generationVars>>

Serve(w) ==
    \/ (Begin(w) \/ Step(w)) /\ UNCHANGED <<catalogVars, storefrontVars, beyondCatalogue>>
    \/ CatalogStep(w) /\ UNCHANGED <<storefrontVars, beyondCatalogue>>
    \/ StorefrontStep(w) /\ UNCHANGED beyondCatalogue
    \/ AlertStep(w) /\ UNCHANGED <<storefrontVars, learningVars, agentVars, generationVars>>
    \/ LearningStep(w) /\ UNCHANGED <<storefrontVars, agentVars, generationVars>>
    \/ AgentStep(w) /\ UNCHANGED <<storefrontVars, generationVars>>
    \/ GenerationStep(w) /\ UNCHANGED <<storefrontVars, agentVars>>

(* A request that dies with its process, which may be the one that keeps   *)
(* the best sellers.                                                       *)
Die(w) ==
    /\ Crash(w)
    /\ best' \in {best, None}
    /\ UNCHANGED <<catalogVars, parent, saved, waited, shown, dropped, beyondCatalogue>>

SiteNext ==
    \/ SiteTick
    \/ \E w \in Worker : Serve(w) \/ Die(w)

SiteSpec == SiteInit /\ [][SiteNext]_siteVars

-----------------------------------------------------------------------------
(* Past the look-up of its user a handler works for an active user who has *)
(* the role its route asks for; only a change of roles or of a status that *)
(* was committed meanwhile can take that away from a running request.  An  *)
(* administrator who was demoted before confirms nothing any more.         *)
ActsWithAuthority ==
    \A w \in Worker :
        /\ job[w] # None
        /\ Verified(Op(w))
        /\ job[w].pc \notin {"decode", "load"}
        => \/ /\ db[Who(w)].active
              /\ Op(w) \in AdminOnly => db[Who(w)].role = "admin"
              /\ Op(w) \in StaffOnly => db[Who(w)].role \in {"staff", "admin"}
           \/ admins.changes # job[w].epoch

(* A turn that names an emergency gets the constant answer, in the agent   *)
(* and in the pipeline: no tool and no model comes before the keywords.    *)
KeywordsAnswered == EmergencyAnswered /\ KeywordNeverGenerated

(* A search compares vectors of the text that is stored, made by the model *)
(* that the column it looks in belongs to.                                 *)
SearchMatchesText == VectorsMatchText /\ OneVectorSpace

(* Guessing a password is bounded, and no counter locks anybody out for    *)
(* ever unless its handler died between INCR and EXPIRE.                   *)
FailuresCounted == GuessesBounded /\ CountersExpire
=============================================================================
