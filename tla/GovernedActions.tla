---------------------------- MODULE GovernedActions ----------------------------
(****************************************************************************)
(* Drafts, recommendations and receipts (packages/api/src/control.ts,         *)
(* packages/control/src/actions.ts, migration 0024): each route is a few       *)
(* transactions, other routes come between them, and a client that lost an     *)
(* answer asks again under the same idempotency key.  One capability, one      *)
(* recommendation; a draft is named by the call that created it, and evidence   *)
(* by the idempotency key that stored it; the key of an item that was erased    *)
(* is not asked under again.                                                 *)
(****************************************************************************)
EXTENDS Naturals, Sequences

CONSTANTS
    Calls,    \* calls of the routes
    Asked     \* idempotency keys

VARIABLES
    call,            \* each call: where it is, and what it has read or carries
    granted,         \* the drafting capability
    recommendation,  \* its status, the owner's answer and the words behind it
    draft,           \* each draft's status
    history,         \* the action history: each draft's stages, in order
    evidence,        \* what is stored under each key: a statement, a receipt, a tombstone
    facts            \* the calls that appended an execution fact, by their key

actionVars == <<call, granted, recommendation, draft, history, evidence, facts>>

Unset == "unset"
Answers == {"ACCEPTED_AS_INTENT_TO_PREPARE", "DISMISSED", "SNOOZED"}
Open == {"NONE", "SNOOZED"}
DraftStatuses == {"CREATED", "AWAITING_APPROVAL", "APPROVED", "DISCARDED"}
Drafted == {d \in Calls : draft[d] # Unset}

Waiting == [at |-> "idle", about |-> Unset, says |-> Unset]
Done(c) == call' = [call EXCEPT ![c].at = "done"]
Turns(c, at, about, says) == call' = [call EXCEPT ![c] = [at |-> at, about |-> about, says |-> says]]

\* The owner grants or withholds the capability.
SetPluginCapability ==
    /\ granted' = ~granted
    /\ UNCHANGED <<call, recommendation, draft, history, evidence, facts>>

\* A recommendation is stored with the broker's verdict on what it rests on.
Recommend ==
    /\ recommendation.status = Unset
    /\ \E status \in {"ACTIVE", "BLOCKED"} :
          recommendation' = [recommendation EXCEPT !.status = status, !.response = "NONE"]
    /\ UNCHANGED <<call, granted, draft, history, evidence, facts>>

\* POST /drafts: what the draft is for must not be blocked, and the capability held ...
AskDraft(c) ==
    /\ call[c].at = "idle" /\ recommendation.status # "BLOCKED"
    /\ IF granted THEN Turns(c, "granted", Unset, Unset) ELSE Done(c)
    /\ UNCHANGED <<granted, recommendation, draft, history, evidence, facts>>

\* ... the port answers, and only ALLOW writes the draft with its first entry.
CreateDraft(c) ==
    /\ call[c].at = "granted"
    /\ Done(c)
    /\ \/ UNCHANGED <<draft, history>>
       \/ /\ draft' = [draft EXCEPT ![c] = "CREATED"]
          /\ history' = [history EXCEPT ![c] = Append(@, "DRAFTED")]
    /\ UNCHANGED <<granted, recommendation, evidence, facts>>

MayFollow(status, next) ==
    \/ status = "CREATED" /\ next \in {"AWAITING_APPROVAL", "DISCARDED"}
    \/ status = "AWAITING_APPROVAL" /\ next \in {"APPROVED", "DISCARDED"}

\* POST /drafts/:id/decision: the draft is read, without a lock ...
ReadDraft(c, d, next) ==
    /\ call[c].at = "idle" /\ d \in Drafted
    /\ IF MayFollow(draft[d], next) THEN Turns(c, "deciding", d, next) ELSE Done(c)
    /\ UNCHANGED <<granted, recommendation, draft, history, evidence, facts>>

\* The same without a trigger, the route having looked.
Transition_Trusted(d, next) == TRUE
\* What the trigger draft_transition lets the update do.
Transition(d, next) == MayFollow(draft[d], next)
\* ... and updated, the trigger judging the row as it is by then.
DecideDraft(c) ==
    LET d == call[c].about
    IN  /\ call[c].at = "deciding"
        /\ Done(c)
        /\ IF Transition(d, call[c].says)
           THEN /\ draft' = [draft EXCEPT ![d] = call[c].says]
                /\ history' = IF call[c].says = "AWAITING_APPROVAL"
                              THEN [history EXCEPT ![d] = Append(@, "REQUESTED_APPROVAL")] ELSE history
           ELSE UNCHANGED <<draft, history>>
        /\ UNCHANGED <<granted, recommendation, evidence, facts>>

\* POST /recommendations/:id/respond: the owner's words are evidence first, stored
\* once under their key ...
Say(c, key, answer) ==
    /\ call[c].at = "idle" /\ recommendation.status # Unset
    /\ \/ answer # "ACCEPTED_AS_INTENT_TO_PREPARE" /\ Turns(c, "said", Unset, answer) /\ UNCHANGED evidence
       \/ /\ evidence[key] \in {Unset, "statement"}
          /\ Turns(c, "said", key, answer) /\ evidence' = [evidence EXCEPT ![key] = "statement"]
    /\ UNCHANGED <<granted, recommendation, draft, history, facts>>

\* ... then the recommendation is read ...
ReadRecommendation(c) ==
    /\ call[c].at = "said"
    /\ IF \/ recommendation.status = "BLOCKED" /\ call[c].says # "DISMISSED"
          \/ recommendation.response \notin Open
       THEN Done(c) ELSE call' = [call EXCEPT ![c].at = "answering"]
    /\ UNCHANGED <<granted, recommendation, draft, history, evidence, facts>>

\* The same without a trigger, the route having looked.
Unanswered_Trusted == TRUE
\* What the trigger recommendation_response_only lets the update overwrite.
Unanswered == recommendation.response \in Open
\* ... and answered.
Respond(c) ==
    /\ call[c].at = "answering"
    /\ Done(c)
    /\ IF Unanswered
       THEN recommendation' = [recommendation EXCEPT !.response = call[c].says, !.words = call[c].about]
       ELSE UNCHANGED recommendation
    /\ UNCHANGED <<granted, draft, history, evidence, facts>>

\* POST /actions/receipts: the receipt is evidence first ...
StoreReceipt(c, key) ==
    /\ call[c].at = "idle" /\ evidence[key] \in {Unset, "receipt"}
    /\ Turns(c, "received", key, Unset) /\ evidence' = [evidence EXCEPT ![key] = "receipt"]
    /\ UNCHANGED <<granted, recommendation, draft, history, facts>>

\* The trigger action_history_subject: a live item, stored as a tool's receipt.
Authoritative(key) == evidence[key] = "receipt"
\* ... then the fact it establishes is appended.
RecordReceipt(c) ==
    /\ call[c].at = "received"
    /\ Done(c)
    /\ facts' = IF Authoritative(call[c].about) THEN facts \cup {<<c, call[c].about>>} ELSE facts
    /\ UNCHANGED <<granted, recommendation, draft, history, evidence>>

\* An item is erased; what names it goes on naming a tombstone.
EraseItem(key) ==
    /\ evidence[key] \in {"statement", "receipt"}
    /\ evidence' = [evidence EXCEPT ![key] = "erased"]
    /\ UNCHANGED <<call, granted, recommendation, draft, history, facts>>

ActionInit ==
    /\ call = [c \in Calls |-> Waiting] /\ granted \in BOOLEAN
    /\ recommendation = [status |-> Unset, response |-> Unset, words |-> Unset]
    /\ draft = [c \in Calls |-> Unset] /\ history = [c \in Calls |-> <<>>]
    /\ evidence = [k \in Asked |-> Unset] /\ facts = {}

ActionNext ==
    \/ SetPluginCapability \/ Recommend
    \/ \E key \in Asked : EraseItem(key)
    \/ \E c \in Calls :
          \/ AskDraft(c) \/ CreateDraft(c) \/ DecideDraft(c)
          \/ \E d \in Calls, next \in DraftStatuses \ {"CREATED"} : ReadDraft(c, d, next)
          \/ \E key \in Asked, answer \in Answers : Say(c, key, answer)
          \/ ReadRecommendation(c) \/ Respond(c)
          \/ \E key \in Asked : StoreReceipt(c, key)
          \/ RecordReceipt(c)

ActionSpec == ActionInit /\ [][ActionNext]_actionVars

ActionTypeOK ==
    /\ call \in [Calls -> [at : {"idle", "granted", "deciding", "said", "answering", "received", "done"},
                           about : Calls \cup Asked \cup {Unset}, says : DraftStatuses \cup Answers \cup {Unset}]]
    /\ granted \in BOOLEAN
    /\ recommendation \in [status : {Unset, "ACTIVE", "BLOCKED"}, response : Answers \cup {"NONE", Unset},
                           words : Asked \cup {Unset}]
    /\ draft \in [Calls -> DraftStatuses \cup {Unset}]
    /\ history \in [Calls -> Seq({"DRAFTED", "REQUESTED_APPROVAL"})]
    /\ evidence \in [Asked -> {Unset, "statement", "receipt", "erased"}]
    /\ facts \subseteq Calls \X Asked

\* Whoever decides on a draft at the same time, its status and its history tell one
\* story: drafted once, approval requested once and before it was approved.
DraftsTellOneStory ==
    \A d \in Calls :
        history[d] \in CASE draft[d] = Unset -> {<<>>}
                         [] draft[d] = "CREATED" -> {<<"DRAFTED">>}
                         [] draft[d] = "DISCARDED" -> {<<"DRAFTED">>, <<"DRAFTED", "REQUESTED_APPROVAL">>}
                         [] OTHER -> {<<"DRAFTED", "REQUESTED_APPROVAL">>}

\* The owner's answer, once it is one, stands with its words whoever answers beside
\* it; a blocked recommendation is never taken up; and what was executed is told
\* only by a tool's receipt that is still there.
AnswersStand ==
    [][/\ recommendation.response \notin Open \cup {Unset} => UNCHANGED recommendation
       /\ recommendation.status = "BLOCKED" => recommendation'.response \in {"NONE", "DISMISSED"}
       /\ \A f \in facts' \ facts : evidence[f[2]] = "receipt"]_actionVars

-----------------------------------------------------------------------------
(* The inductive invariant behind them.                                     *)

\* What a call carries from one of its transactions to the next.
CallKnows(c) ==
    LET mine == call[c]
    IN  /\ draft[c] # Unset => mine.at = "done"
        /\ mine.at = "deciding" => mine.about \in Calls /\ mine.says \in DraftStatuses
        /\ mine.at \in {"said", "answering"} =>
              /\ mine.about \in Asked \cup {Unset} /\ mine.says \in Answers
              /\ recommendation.status # Unset
        /\ mine.at = "answering" /\ recommendation.status = "BLOCKED" => mine.says = "DISMISSED"
        /\ mine.at = "received" => mine.about \in Asked

CallsKnow == \A c \in Calls : CallKnows(c)

\* A recommendation has an answer, if only NONE, exactly when it is stored; a blocked
\* one is at most dismissed.
AnswerFits ==
    /\ recommendation.status = Unset <=> recommendation.response = Unset
    /\ recommendation.status = "BLOCKED" => recommendation.response \in {"NONE", "DISMISSED"}

ActionInv == ActionTypeOK /\ CallsKnow /\ AnswerFits /\ DraftsTellOneStory
=============================================================================
