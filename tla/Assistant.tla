-------------------------------- MODULE Assistant --------------------------------
(***************************************************************************)
(* Questions to the assistant (assistant.py, ollama.py): the local model   *)
(* plans one question at a time, which takes long; the plan is then        *)
(* executed under the access the user has by then, and the answer is saved *)
(* with its conversation in one commit.  Administrators change access and  *)
(* the company's data changes while the model plans.                       *)
(*                                                                         *)
(* An access is [permitted, scope]: user and membership active, and with   *)
(* analytics:read; for the whole company or one department.                *)
(***************************************************************************)
EXTENDS FiniteSets, Integers, Sequences

CONSTANTS
  Questions,   \* the questions asked, each once
  Users,       \* who may ask them
  Departments, \* departments a manager may be limited to
  Uploads,     \* dataset versions
  UploadedBy,  \* who created each
  MaxChanges,  \* bound on changes of access
  MaxFacts     \* bound on changes of the company's data

VARIABLES
  access,         \* each user's access
  changes,        \* changes of access made
  facts,          \* the company's data, by version
  slot,           \* _inference_slot: the question that holds it, or Free
  asked,          \* each question's progress
  inForce,        \* the accesses its user had since its plan was made
  results,        \* metric_results rows
  conversations   \* saved conversations: owner and messages

assistantVars == <<access, changes, facts, slot, asked, inForce, results, conversations>>

Free == "free"
Canonical == "canonical"   \* the company's tables, when no dataset version is named
Company == "company"
Accesses == [permitted : BOOLEAN, scope : Departments \cup {Company}]

\* What a plan may select, and the period it names.
Actions == {"metric_query", "forecast", "process", "clarify"}
Plans == {p \in [action : Actions, dated : BOOLEAN] : p.action = "clarify" => ~p.dated}

AssistantInit ==
  /\ access = [u \in Users |-> [permitted |-> TRUE, scope |-> Company]]
  /\ changes = 0 /\ facts = 0 /\ slot = Free
  /\ asked = [q \in Questions |-> [stage |-> "new"]]
  /\ inForce = [q \in Questions |-> {}]
  /\ results = {}
  /\ conversations = [q \in {} |-> 0]

-----------------------------------------------------------------------------
Planned(q, plan) ==
  /\ asked' = [asked EXCEPT ![q] = [@ EXCEPT !.stage = "planned", !.plan = plan]]
  /\ inForce' = [inForce EXCEPT ![q] = {access[asked[q].user]}]

Refuse(q) ==
  /\ asked' = [asked EXCEPT ![q] = [stage |-> "refused"]]
  /\ UNCHANGED inForce

(* run_assistant up to its plan: the request is let in with the access of  *)
(* the moment, to a new conversation or to one of the user's own.  A named *)
(* metric needs no model; else the slot is taken, or the model is busy.    *)
Ask(q, user, metric, data, conversation) ==
  LET entered == [stage |-> "planning", plan |-> [action |-> "metric_query", dated |-> FALSE],
                  user |-> user, context |-> access[user], data |-> data,
                  conversation |-> conversation, rows |-> {}]
  IN /\ asked[q].stage = "new"
     /\ IF \/ ~access[user].permitted
           \/ (conversation # q /\ conversations[conversation].owner # user)
           \/ (~metric /\ slot # Free)
        THEN Refuse(q) /\ UNCHANGED slot
        ELSE IF metric
        THEN /\ asked' = [asked EXCEPT ![q] = [entered EXCEPT !.stage = "planned"]]
             /\ inForce' = [inForce EXCEPT ![q] = {access[user]}]
             /\ UNCHANGED slot
        ELSE asked' = [asked EXCEPT ![q] = entered] /\ slot' = q /\ UNCHANGED inForce
     /\ UNCHANGED <<access, changes, facts, results, conversations>>

(* The model answers: with a plan; with output that is none, which becomes *)
(* a request to clarify; or not in time, not at all, not to the end.  The  *)
(* slot is given back whatever happened.                                   *)
Infer(q) ==
  /\ asked[q].stage = "planning"
  /\ \/ \E plan \in Plans : Planned(q, plan)
     \/ Planned(q, [action |-> "clarify", dated |-> FALSE])
     \/ Refuse(q)
  /\ slot' = Free
  /\ UNCHANGED <<access, changes, facts, results, conversations>>

-----------------------------------------------------------------------------
(* _execute forgets what the request read and reads the access again.      *)
AccessOnEntry(q) == asked[q].context
AccessRead(q) == access[asked[q].user]

(* What is refused: dates where all of history is used, processes outside  *)
(* the company's scope, and of an uploaded file anything but metrics over  *)
(* all of it, or a file another user made to someone limited to a          *)
(* department.                                                             *)
Unsupported(q, plan, current) ==
  \/ plan.action \in {"forecast", "process"} /\ plan.dated
  \/ plan.action = "process" /\ current.scope # Company
  \/ /\ asked[q].data # Canonical
     /\ \/ plan.action # "metric_query" \/ plan.dated
        \/ current.scope # Company /\ UploadedBy[asked[q].data] # asked[q].user

(* The row of a result: what was computed, for whom and in which scope,    *)
(* from which data.  Of the permissions it also holds only analytics:read  *)
(* is modelled, which every row has.                                       *)
Fingerprint(q, plan, current) ==
  [metric |-> plan.action, dated |-> plan.dated, user |-> asked[q].user,
   scope |-> current.scope, data |-> asked[q].data,
   facts |-> IF asked[q].data = Canonical THEN facts ELSE 0]

Execute(q) ==
  LET current == AccessRead(q)
      plan == asked[q].plan
  IN /\ asked[q].stage = "planned"
     /\ IF \/ ~current.permitted
           \/ plan.action # "clarify" /\ Unsupported(q, plan, current)
        THEN Refuse(q)
        ELSE /\ asked' = [asked EXCEPT ![q] =
                  [@ EXCEPT !.stage = "executed",
                            !.rows = IF plan.action = "clarify" THEN {}
                                     ELSE LET row == Fingerprint(q, plan, current)
                                          IN {[row |-> row, new |-> row \notin results]}]]
             /\ UNCHANGED inForce
     /\ UNCHANGED <<access, changes, facts, slot, results, conversations>>

\* The conversation of a question with both of its messages.
WithExchange(q) ==
  LET home == asked[q].conversation
      exchange == <<[role |-> "user", of |-> q, rows |-> {}],
                    [role |-> "assistant", of |-> q, rows |-> {r.row : r \in asked[q].rows}]>>
      kept == IF home \in DOMAIN conversations THEN conversations[home].messages ELSE <<>>
  IN [c \in DOMAIN conversations \cup {home} |->
        IF c = home THEN [owner |-> asked[q].user, messages |-> kept \o exchange]
        ELSE conversations[c]]

\* Mutant of RolledBack: the messages were committed before the results.
MessagesCommitted(q) == conversations' = WithExchange(q) /\ UNCHANGED results

\* A commit that fails leaves nothing.
RolledBack(q) == UNCHANGED <<results, conversations>>

(* The commit of run_assistant: results that were new, the conversation    *)
(* and both messages, or nothing: a result another question of the user    *)
(* inserted since breaks the unique key of (organization, input hash).     *)
Save(q) ==
  LET inserted == {r.row : r \in {r \in asked[q].rows : r.new}}
  IN /\ asked[q].stage = "executed"
     /\ IF inserted \cap results # {}
        THEN Refuse(q) /\ RolledBack(q)
        ELSE /\ results' = results \cup inserted
             /\ conversations' = WithExchange(q)
             /\ asked' = [asked EXCEPT ![q].stage = "answered"]
             /\ UNCHANGED inForce
     /\ UNCHANGED <<access, changes, facts, slot>>

ChangeAccess(user, new) ==
  /\ changes < MaxChanges /\ new # access[user]
  /\ access' = [access EXCEPT ![user] = new]
  /\ changes' = changes + 1
  /\ inForce' = [q \in Questions |->
       IF asked[q].stage = "planned" /\ asked[q].user = user THEN inForce[q] \cup {new}
       ELSE inForce[q]]
  /\ UNCHANGED <<facts, slot, asked, results, conversations>>

ChangeFacts ==
  /\ facts < MaxFacts /\ facts' = facts + 1
  /\ UNCHANGED <<access, changes, slot, asked, inForce, results, conversations>>

AssistantNext ==
  \/ \E q \in Questions :
       \/ \E user \in Users, metric \in BOOLEAN, data \in Uploads \cup {Canonical},
            c \in DOMAIN conversations \cup {q} : Ask(q, user, metric, data, c)
       \/ Infer(q) \/ Execute(q) \/ Save(q)
  \/ \E user \in Users, new \in Accesses : ChangeAccess(user, new)
  \/ ChangeFacts

-----------------------------------------------------------------------------
Messages(c) == {conversations[c].messages[k] : k \in DOMAIN conversations[c].messages}

(* An answer that was saved was computed for an access its user had once   *)
(* the model had planned it, one that lets analytics be read: a user whose *)
(* access went, or was limited to a department, during the inference gets  *)
(* nothing computed under what it was before.                              *)
AnswersAuthorized ==
  \A c \in DOMAIN conversations : \A m \in Messages(c) : \A row \in m.rows :
    \E a \in inForce[m.of] : a.permitted /\ a.scope = row.scope

(* A question is answered whole or leaves nothing, whatever fails: a       *)
(* conversation of the user who asked has the question and, right after    *)
(* it, the assistant's answer, whose results are stored; of a question     *)
(* that was refused, or is not answered yet, there is no message, no empty *)
(* conversation and no result, each of which some answer cites; and the    *)
(* model is not held by a question that ended.                             *)
QuestionsSettle ==
  /\ slot # Free => asked[slot].stage = "planning"
  /\ \A q \in Questions : asked[q].stage = "answered" =>
       \E c \in DOMAIN conversations : \E k \in DOMAIN conversations[c].messages :
         LET said == conversations[c].messages[k]
             given == conversations[c].messages[k + 1]
         IN /\ conversations[c].owner = asked[q].user
            /\ k + 1 \in DOMAIN conversations[c].messages
            /\ said.of = q /\ said.role = "user"
            /\ given.of = q /\ given.role = "assistant" /\ given.rows \subseteq results
  /\ \A c \in DOMAIN conversations :
       Messages(c) # {} /\ \A m \in Messages(c) : asked[m.of].stage = "answered"
  /\ \A row \in results : \E c \in DOMAIN conversations : \E m \in Messages(c) : row \in m.rows
=============================================================================
