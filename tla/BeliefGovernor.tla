--------------------------- MODULE BeliefGovernor ---------------------------
(***************************************************************************)
(* The write governor of packages/belief: proposed change sets that are    *)
(* validated, and committed in two database transactions.  The first locks *)
(* the row, validates against the graph it reads and records a refusal;    *)
(* the second locks it again, applies every operation, reassesses what is  *)
(* derived and stores the receipt.  Sessions do all this concurrently.     *)
(*                                                                         *)
(* What a change set contains is a constant: the support edges it adds,    *)
(* the verdicts it sets, the derivations it records, the claims it         *)
(* suppresses.  What contracts, risk, origin and the policy port make of   *)
(* it does not depend on the graph and is the constant Allowed.            *)
(***************************************************************************)
EXTENDS Naturals

CONSTANTS Transactions,  \* belief_transactions, by idempotency key
          Sessions,      \* request handlers and workers
          Propositions, Claims,
          Slot,          \* belief_slot_id of a proposition
          Edges,         \* ADD_SUPPORT: pairs <<supported, supporting>>
          Verdicts,      \* SET_BELIEF_ASSESSMENT, SUPPRESS of a proposition
          Derives,       \* DERIVE: records of a derived proposition and its inputs
          Suppresses,    \* SUPPRESS of a claim
          Allowed,       \* change sets that nothing but the graph can refuse
          None           \* SQL NULL

AssessmentStatuses == {"CANDIDATE", "PROVISIONAL", "ACCEPTED", "CONTESTED", "REJECTED",
                       "SUPERSEDED", "UNSUPPORTED", "SUPPRESSED"}
Assessments == [Propositions -> AssessmentStatuses \cup {None}]
Dependencies == [derived : Propositions, inputs : SUBSET (Propositions \cup Claims)]

ASSUME NoneAssumption == None \notin AssessmentStatuses /\ None \notin Transactions
ASSUME ContentAssumption ==
  /\ Edges \in [Transactions -> SUBSET (Propositions \X Propositions)]
  /\ Verdicts \in [Transactions -> Assessments]
  /\ Derives \in [Transactions -> SUBSET Dependencies]
  /\ Suppresses \in [Transactions -> SUBSET Claims]
  /\ Allowed \subseteq Transactions

VARIABLES txn,       \* status and receipt of each change set
          graph,     \* the committed tables
          session,   \* where each session is
          applied,   \* history: how often a change set was applied
          answers    \* history: the receipts commits have answered with

vars == <<txn, graph, session, applied, answers>>

TransactionStatuses == {"ABSENT", "PROPOSED", "VALIDATED", "REJECTED", "COMMITTED"}

\* at: "idle", "validating" (validated, status not yet written), "ready" (first
\* transaction of a commit done), "applied" (second one done but for its COMMIT).
Places == {"idle", "validating", "ready", "applied"}
Idle == [at |-> "idle", t |-> None, good |-> FALSE, wrote |-> [p \in Propositions |-> None]]

Init ==
  /\ txn = [t \in Transactions |-> [status |-> "ABSENT", receipt |-> {}]]
  /\ graph = [edges |-> {}, verdict |-> [p \in Propositions |-> None], deps |-> {}, suppressed |-> {}]
  /\ session = [s \in Sessions |-> Idle]
  /\ applied = [t \in Transactions |-> 0]
  /\ answers = {}

-----------------------------------------------------------------------------
(* Validation, against the graph as one session sees it.                   *)

\* findSupportCycle: some propositions rest on nothing but one another.
Cyclic(edges) ==
  \E loop \in SUBSET Propositions :
    loop # {} /\ \A p \in loop : \E q \in loop : <<p, q>> \in edges

\* COMPETING_ACCEPTED_PROPOSITION_IN_SLOT
MaterialConflict(t) ==
  \E p, q \in Propositions : /\ Verdicts[t][p] = "ACCEPTED"
                             /\ q # p /\ Slot[q] = Slot[p] /\ graph.verdict[q] = "ACCEPTED"

\* The decision is not REJECTED: a conflict makes it CONTESTED.
Acceptable(t) == t \in Allowed /\ ~Cyclic(graph.edges \cup Edges[t])

Committable_Contested(t) == Acceptable(t)

Committable(t) == Acceptable(t) /\ ~MaterialConflict(t)

Settlement_Decision(t) == IF Committable(t) THEN "COMMITTABLE" ELSE "REJECTED"

\* The status the first transaction of a commit leaves.
Settlement(t) == IF Committable(t) THEN "VALIDATED" ELSE "REJECTED"

-----------------------------------------------------------------------------
(* What the second transaction writes.                                     *)

Invalid == {"REJECTED", "SUPERSEDED", "SUPPRESSED", "UNSUPPORTED"}

Gone(inputs, verdict, suppressed) ==
  \A x \in inputs : IF x \in Claims THEN x \in suppressed ELSE verdict[x] \in Invalid

Override(verdict, more) == [p \in Propositions |-> IF more[p] = None THEN verdict[p] ELSE more[p]]

\* reassessDerivedPropositions: one SELECT over what this transaction sees.
Moved(t) ==
  LET verdict == Override(graph.verdict, Verdicts[t])
      suppressed == graph.suppressed \cup Suppresses[t]
  IN  {d.derived : d \in {e \in graph.deps \cup Derives[t] :
                            /\ Gone(e.inputs, verdict, suppressed)
                            /\ verdict[e.derived] \notin {None, "UNSUPPORTED"}}}

\* Every verdict the transaction leaves behind.
Written(t) ==
  [p \in Propositions |-> IF p \in Moved(t) THEN "UNSUPPORTED" ELSE Verdicts[t][p]]

Assessed(wrote) == {<<p, wrote[p]>> : p \in {q \in Propositions : wrote[q] # None}}

-----------------------------------------------------------------------------
(* Rows that another session's open transaction has locked.                *)

RowFree_Always(s, t) == TRUE

RowFree(s, t) == \A r \in Sessions \ {s} : ~(session[r].at = "applied" /\ session[r].t = t)

VerdictsFree(s, wrote) ==
  \A r \in Sessions \ {s}, p \in Propositions : session[r].wrote[p] = None \/ wrote[p] = None

\* belief_transaction_settle_only raises on any other status of a settled row.
Refuses_Nothing(t) == FALSE

Refuses(t) == txn[t].status \in {"COMMITTED", "REJECTED"}

\* What it says is read from the verdicts as they are now.
Receipt_Current(t) == {<<p, graph.verdict[p]>> : p \in {q \in Propositions : Verdicts[t][q] # None}}

\* The stored bytes.
Receipt(t) == txn[t].receipt

Answer(t, receipt) == answers' = answers \cup {<<t, receipt>>}

-----------------------------------------------------------------------------
\* A repeated proposal of one key finds the first.
Propose(t) ==
  /\ txn[t].status = "ABSENT"
  /\ txn' = [txn EXCEPT ![t].status = "PROPOSED"]
  /\ UNCHANGED <<graph, session, applied, answers>>

\* validateBeliefTransaction reads the row without a lock ...
ValidateRead(s, t) ==
  /\ session[s].at = "idle"
  /\ txn[t].status \notin {"ABSENT", "COMMITTED"}
  /\ session' = [session EXCEPT ![s] = [Idle EXCEPT !.at = "validating", !.t = t,
                                                    !.good = Acceptable(t)]]
  /\ UNCHANGED <<txn, graph, applied, answers>>

\* ... and writes its status later, or is refused by the trigger.
ValidateWrite(s) ==
  LET t == session[s].t IN
  /\ session[s].at = "validating"
  /\ RowFree(s, t)
  /\ txn' = IF Refuses(t) THEN txn
            ELSE [txn EXCEPT ![t].status = IF session[s].good THEN "VALIDATED" ELSE "PROPOSED"]
  /\ session' = [session EXCEPT ![s] = Idle]
  /\ UNCHANGED <<graph, applied, answers>>

\* Commit, first transaction: the stored receipt, a recorded refusal, or go on.
Settle(s, t) ==
  /\ session[s].at = "idle"
  /\ RowFree(s, t)
  /\ \/ /\ txn[t].status = "COMMITTED"
        /\ Answer(t, Receipt(t))
        /\ UNCHANGED <<txn, session>>
     \/ /\ txn[t].status \in {"PROPOSED", "VALIDATED"}
        /\ txn' = [txn EXCEPT ![t].status = Settlement(t)]
        /\ session' = [session EXCEPT ![s] = IF Committable(t) THEN [Idle EXCEPT !.at = "ready", !.t = t]
                                              ELSE Idle]
        /\ UNCHANGED answers
  /\ UNCHANGED <<graph, applied>>

\* Second transaction, when another session has settled the row meanwhile.
ApplySettled(s) ==
  LET t == session[s].t IN
  /\ session[s].at = "ready"
  /\ RowFree(s, t)
  /\ \/ txn[t].status = "COMMITTED" /\ Answer(t, Receipt(t))
     \/ txn[t].status # "COMMITTED" /\ Refuses(t) /\ UNCHANGED answers
  /\ session' = [session EXCEPT ![s] = Idle]
  /\ UNCHANGED <<txn, graph, applied>>

\* Second transaction, its statements: nothing is validated again.
Apply(s) ==
  LET t == session[s].t IN
  /\ session[s].at = "ready"
  /\ RowFree(s, t)
  /\ txn[t].status # "COMMITTED" /\ ~Refuses(t)
  /\ VerdictsFree(s, Written(t))
  /\ session' = [session EXCEPT ![s].at = "applied", ![s].wrote = Written(t)]
  /\ UNCHANGED <<txn, graph, applied, answers>>

Committed(t, wrote) ==
  [edges |-> graph.edges \cup Edges[t], verdict |-> Override(graph.verdict, wrote),
   deps |-> graph.deps \cup Derives[t], suppressed |-> graph.suppressed \cup Suppresses[t]]

CommitApply(s) ==
  LET t == session[s].t
      receipt == Assessed(session[s].wrote)
  IN
  /\ session[s].at = "applied"
  /\ graph' = Committed(t, session[s].wrote)
  /\ txn' = [txn EXCEPT ![t] = [status |-> "COMMITTED", receipt |-> receipt]]
  /\ applied' = [applied EXCEPT ![t] = @ + 1]
  /\ Answer(t, receipt)
  /\ session' = [session EXCEPT ![s] = Idle]

\* An operation fails, a verdict of another session came first, the client is gone.
Rollback(s) ==
  /\ session[s].at # "idle"
  /\ session' = [session EXCEPT ![s] = Idle]
  /\ UNCHANGED <<txn, graph, applied, answers>>

Next ==
  \/ \E t \in Transactions : Propose(t)
  \/ \E s \in Sessions :
       \/ \E t \in Transactions : ValidateRead(s, t) \/ Settle(s, t)
       \/ ValidateWrite(s) \/ ApplySettled(s) \/ Apply(s) \/ CommitApply(s) \/ Rollback(s)

Spec == Init /\ [][Next]_vars

-----------------------------------------------------------------------------
(* Correctness.                                                            *)

\* Every variable keeps the shape the tables and the two transactions give it.
TypeOK ==
  /\ txn \in [Transactions -> [status : TransactionStatuses,
                               receipt : SUBSET (Propositions \X AssessmentStatuses)]]
  /\ graph \in [edges : SUBSET (Propositions \X Propositions), verdict : Assessments,
                deps : SUBSET Dependencies, suppressed : SUBSET Claims]
  /\ session \in [Sessions -> [at : Places, t : Transactions \cup {None},
                               good : BOOLEAN, wrote : Assessments]]
  /\ applied \in [Transactions -> Nat]
  /\ answers \subseteq Transactions \X SUBSET (Propositions \X AssessmentStatuses)

\* However many sessions validate and commit one change set at once, it is applied
\* exactly once if it is committed and never if it is not.
AppliedOnce ==
  \A t \in Transactions : applied[t] = IF txn[t].status = "COMMITTED" THEN 1 ELSE 0

\* A settled change set is never reopened, not by a validation that read it before
\* it was settled, nor by a commit whose first half came before a refusal.
SettledForGood ==
  [][\A t \in Transactions : txn[t].status \in {"COMMITTED", "REJECTED"} => txn'[t] = txn[t]]_vars

\* Committing twice answers once: all receipts of one change set are the same.
AnswersAgree ==
  \A a, b \in answers : a[1] = b[1] => a[2] = b[2]

\* No committed support makes a belief rest on itself.
SupportAcyclic == ~Cyclic(graph.edges)

\* A slot has one accepted value, unless one change set accepted several: what a change
\* set accepts is compared with what is stored, not with what else it accepts.
OneAcceptedPerSlot ==
  \A p, q \in Propositions :
    /\ graph.verdict[p] = "ACCEPTED" /\ graph.verdict[q] = "ACCEPTED"
    /\ Slot[p] = Slot[q]
    => \/ p = q
       \/ \E t \in Transactions :
            txn[t].status = "COMMITTED" /\ Verdicts[t][p] = "ACCEPTED" /\ Verdicts[t][q] = "ACCEPTED"

\* A belief whose inputs are all invalidated is UNSUPPORTED, if none of them is derived.
DerivedFollowInputs ==
  \A d \in graph.deps :
    /\ \A e \in graph.deps : e.derived \notin d.inputs
    /\ Gone(d.inputs, graph.verdict, graph.suppressed)
    => graph.verdict[d.derived] \in {None, "UNSUPPORTED"}
=============================================================================
