------------------------ MODULE BeliefGovernorProofs ------------------------
(***************************************************************************)
(* Proofs about the three models of MCBelief: what the write governor       *)
(* promises about one change set, for any number of sessions, change sets   *)
(* and propositions; what an answer stands on, for every finite set of      *)
(* beliefs with any computations; and where merges and splits lead.         *)
(***************************************************************************)
EXTENDS MCBelief, Rounds

-----------------------------------------------------------------------------
(* The governor.                                                           *)

Receipts == SUBSET (Propositions \X AssessmentStatuses)
TransactionRows == [status : TransactionStatuses, receipt : Receipts]
SessionStates == [at : Places, t : Transactions \cup {None}, good : BOOLEAN, wrote : Assessments]
Graphs == [edges : SUBSET (Propositions \X Propositions), verdict : Assessments,
           deps : SUBSET Dependencies, suppressed : SUBSET Claims]

-----------------------------------------------------------------------------
(* Type correctness.                                                       *)

\* Writing verdicts over verdicts gives verdicts.
LEMMA OverrideType ==
  ASSUME NEW v \in Assessments, NEW w \in Assessments PROVE Override(v, w) \in Assessments
  BY DEF Override, Assessments

\* What a change set writes, the moved derivations included, is a set of verdicts.
LEMMA WrittenType ==
  ASSUME NEW t \in Transactions PROVE Written(t) \in Assessments
<1>1. Verdicts[t] \in Assessments
  BY ContentAssumption
<1> QED
  BY <1>1 DEF Written, Assessments, AssessmentStatuses

\* A receipt lists propositions with a verdict.
LEMMA AssessedType ==
  ASSUME NEW w \in Assessments PROVE Assessed(w) \in Receipts
<1>1. \A p \in Propositions : w[p] # None => w[p] \in AssessmentStatuses
  BY DEF Assessments
<1> QED
  BY <1>1 DEF Assessed, Receipts

\* What a commit leaves is again a graph.
LEMMA CommittedType ==
  ASSUME NEW t \in Transactions, NEW w \in Assessments, graph \in Graphs
  PROVE  Committed(t, w) \in Graphs
<1>1. /\ Edges[t] \in SUBSET (Propositions \X Propositions)
      /\ Derives[t] \in SUBSET Dependencies
      /\ Suppresses[t] \in SUBSET Claims
  BY ContentAssumption
<1>2. Override(graph.verdict, w) \in Assessments
  BY OverrideType DEF Graphs
<1> QED
  BY <1>1, <1>2 DEF Committed, Graphs

\* A session that has nothing to do is in its type.
LEMMA IdleType == Idle \in SessionStates
  BY DEF Idle, SessionStates, Places, Assessments

\* The initial state has its type.
LEMMA TypeInit == Init => TypeOK
  BY IdleType DEF Init, TypeOK, SessionStates, TransactionStatuses, Assessments

\* The part of the invariant about who holds which change set: a session that is
\* on one is on a real one; one that has applied it but not committed it keeps it
\* from being settled, and keeps every other session from applying it too.
OpenApplications ==
  /\ \A s \in Sessions : session[s].at # "idle" => session[s].t \in Transactions
  /\ \A s \in Sessions : session[s].at = "applied" =>
       txn[session[s].t].status \notin {"COMMITTED", "REJECTED"}
  /\ \A r, s \in Sessions : session[r].at = "applied" /\ session[s].at = "applied"
       /\ session[r].t = session[s].t => r = s

\* Every answered receipt is the stored one.
AnswersStored ==
  \A answer \in answers : txn[answer[1]].status = "COMMITTED" /\ answer[2] = txn[answer[1]].receipt

IInv == TypeOK /\ OpenApplications /\ AppliedOnce /\ AnswersStored

\* The initial state satisfies the invariant.
LEMMA InvInit == Init => IInv
  BY TypeInit DEF Init, IInv, OpenApplications, AppliedOnce, AnswersStored, Idle

-----------------------------------------------------------------------------
(* Every step keeps the types.                                             *)

\* A session that takes a new state keeps the sessions in their type.
LEMMA SessionMoves ==
  ASSUME TypeOK, NEW s \in Sessions, NEW new \in SessionStates,
         session' = [session EXCEPT ![s] = new]
  PROVE  session' \in [Sessions -> SessionStates]
  BY DEF TypeOK, SessionStates

\* A change set that takes a new row keeps the change sets in theirs.
LEMMA RowMoves ==
  ASSUME TypeOK, NEW t \in Transactions, NEW new \in TransactionRows,
         txn' = [txn EXCEPT ![t] = new]
  PROVE  txn' \in [Transactions -> TransactionRows]
  BY DEF TypeOK, TransactionRows, Receipts

\* Writing the status alone is writing a row.
LEMMA StatusRow ==
  ASSUME TypeOK, NEW t \in Transactions, NEW status \in TransactionStatuses
  PROVE  /\ [txn EXCEPT ![t].status = status] \in [Transactions -> TransactionRows]
         /\ [txn EXCEPT ![t].status = status]
              = [txn EXCEPT ![t] = [status |-> status, receipt |-> txn[t].receipt]]
         /\ [status |-> status, receipt |-> txn[t].receipt] \in TransactionRows
<1>1. txn \in [Transactions -> TransactionRows]
  BY DEF TypeOK, TransactionRows, Receipts
<1>2. txn[t] \in TransactionRows /\ txn[t].receipt \in Receipts
  BY <1>1 DEF TransactionRows
<1>3. [txn[t] EXCEPT !.status = status] = [status |-> status, receipt |-> txn[t].receipt]
  BY <1>2 DEF TransactionRows
<1>4. [status |-> status, receipt |-> txn[t].receipt] \in TransactionRows
  BY <1>2 DEF TransactionRows
<1> QED
  BY <1>1, <1>3, <1>4

\* What a session knows after reading a change set, or validating it to commit.
Validating(t, good) == [Idle EXCEPT !.at = "validating", !.t = t, !.good = good]
Ready(t) == [Idle EXCEPT !.at = "ready", !.t = t]

\* Both are places a session can be in, on that change set.
LEMMA SessionStatesReached ==
  \A t \in Transactions, good \in BOOLEAN :
    /\ Validating(t, good) \in SessionStates /\ Ready(t) \in SessionStates
    /\ Validating(t, good).at = "validating" /\ Ready(t).at = "ready"
    /\ Validating(t, good).t = t /\ Ready(t).t = t
<1>1. Idle.wrote \in Assessments
  BY IdleType DEF SessionStates
<1> QED
  BY <1>1 DEF Validating, Ready, Idle, SessionStates, Places

\* Every step keeps every variable in its type, given that a session that is not
\* idle is on a change set.
LEMMA TypeStep == TypeOK /\ OpenApplications /\ [Next]_vars => TypeOK'
<1> SUFFICES ASSUME TypeOK, OpenApplications, [Next]_vars PROVE TypeOK'
  OBVIOUS
<1> DEFINE TypeOf(x, g, s, n, as) ==
      /\ x \in [Transactions -> TransactionRows] /\ g \in Graphs
      /\ s \in [Sessions -> SessionStates] /\ n \in [Transactions -> Nat]
      /\ as \subseteq Transactions \X Receipts
<1>0. TypeOf(txn, graph, session, applied, answers)
  BY DEF TypeOK, TransactionRows, Receipts, Graphs, SessionStates
<1>1. TypeOf(txn', graph', session', applied', answers') => TypeOK'
  BY DEF TypeOK, TransactionRows, Receipts, Graphs, SessionStates
<1>2. \A s \in Sessions : session[s].at # "idle" => session[s].t \in Transactions
  BY DEF OpenApplications
<1>3. \A t \in Transactions : txn[t].receipt \in Receipts
  BY <1>0 DEF TransactionRows
<1>4. ASSUME NEW t \in Transactions, Propose(t) PROVE TypeOK'
  <2>1. txn' \in [Transactions -> TransactionRows]
    BY <1>4, StatusRow DEF Propose, TransactionStatuses
  <2> QED
    BY <1>0, <1>1, <1>4, <2>1 DEF Propose
<1>5. ASSUME NEW s \in Sessions, NEW t \in Transactions, ValidateRead(s, t) PROVE TypeOK'
  <2>1. Acceptable(t) \in BOOLEAN
    BY DEF Acceptable
  <2>2. session' \in [Sessions -> SessionStates]
    <3>1. session' = [session EXCEPT ![s] = Validating(t, Acceptable(t))]
      BY <1>5 DEF ValidateRead, Validating
    <3> QED
      BY <2>1, <3>1, SessionStatesReached, SessionMoves
  <2> QED
    BY <1>0, <1>1, <1>5, <2>2 DEF ValidateRead
<1>6. ASSUME NEW s \in Sessions, ValidateWrite(s) PROVE TypeOK'
  <2>1. session[s].t \in Transactions
    BY <1>2, <1>6 DEF ValidateWrite
  <2>2. session' \in [Sessions -> SessionStates]
    BY <1>6, IdleType, SessionMoves DEF ValidateWrite
  <2>3. txn' \in [Transactions -> TransactionRows]
    <3>1. CASE Refuses(session[s].t)
      BY <1>0, <1>6, <3>1 DEF ValidateWrite
    <3>2. CASE ~Refuses(session[s].t)
      <4> DEFINE status == IF session[s].good THEN "VALIDATED" ELSE "PROPOSED"
      <4>1. status \in TransactionStatuses
        BY DEF TransactionStatuses
      <4>2. txn' = [txn EXCEPT ![session[s].t].status = status]
        BY <1>6, <3>2 DEF ValidateWrite
      <4> QED
        <5> HIDE DEF status
        <5> QED
          BY <2>1, <4>1, <4>2, StatusRow
    <3> QED
      BY <3>1, <3>2
  <2> QED
    BY <1>0, <1>1, <1>6, <2>2, <2>3 DEF ValidateWrite
<1>7. ASSUME NEW s \in Sessions, NEW t \in Transactions, Settle(s, t) PROVE TypeOK'
  <2>1. CASE txn[t].status = "COMMITTED"
    <3>1. /\ answers' = answers \cup {<<t, txn[t].receipt>>}
          /\ UNCHANGED <<txn, session, graph, applied>>
      BY <1>7, <2>1 DEF Settle, Answer, Receipt
    <3> QED
      BY <1>0, <1>1, <1>3, <3>1
  <2>2. CASE txn[t].status # "COMMITTED"
    <3>1. /\ txn' = [txn EXCEPT ![t].status = Settlement(t)]
          /\ session' = [session EXCEPT ![s] = IF Committable(t)
                            THEN Ready(t) ELSE Idle]
          /\ UNCHANGED <<graph, applied, answers>>
      BY <1>7, <2>2 DEF Settle, Ready
    <3>2. Settlement(t) \in TransactionStatuses
      BY DEF Settlement, TransactionStatuses
    <3>3. txn' \in [Transactions -> TransactionRows]
      BY <3>1, <3>2, StatusRow
    <3>4. (IF Committable(t) THEN Ready(t) ELSE Idle) \in SessionStates
      BY IdleType, SessionStatesReached
    <3>5. session' \in [Sessions -> SessionStates]
      BY <3>1, <3>4, SessionMoves
    <3> QED
      BY <1>0, <1>1, <3>1, <3>3, <3>5
  <2> QED
    BY <2>1, <2>2
<1>8. ASSUME NEW s \in Sessions, ApplySettled(s) PROVE TypeOK'
  <2>1. session[s].t \in Transactions
    BY <1>2, <1>8 DEF ApplySettled
  <2>2. session' \in [Sessions -> SessionStates]
    BY <1>8, IdleType, SessionMoves DEF ApplySettled
  <2>3. answers' \subseteq Transactions \X Receipts
    <3>1. answers' = answers \/ answers' = answers \cup {<<session[s].t, txn[session[s].t].receipt>>}
      BY <1>8 DEF ApplySettled, Answer, Receipt
    <3> QED
      BY <1>0, <1>3, <2>1, <3>1
  <2> QED
    BY <1>0, <1>1, <1>8, <2>2, <2>3 DEF ApplySettled
<1>9. ASSUME NEW s \in Sessions, Apply(s) PROVE TypeOK'
  <2>1. session[s].t \in Transactions
    BY <1>2, <1>9 DEF Apply
  <2>2. Written(session[s].t) \in Assessments
    BY <2>1, WrittenType
  <2>3. session' \in [Sessions -> SessionStates]
    <3>1. session[s] \in SessionStates
      BY <1>0
    <3>2. [session[s] EXCEPT !.at = "applied", !.wrote = Written(session[s].t)] \in SessionStates
      BY <2>2, <3>1 DEF SessionStates, Places
    <3>3. session' = [session EXCEPT
                        ![s] = [session[s] EXCEPT !.at = "applied", !.wrote = Written(session[s].t)]]
      BY <1>9 DEF Apply
    <3> QED
      BY <1>0, <3>2, <3>3
  <2> QED
    BY <1>0, <1>1, <1>9, <2>3 DEF Apply
<1>10. ASSUME NEW s \in Sessions, CommitApply(s) PROVE TypeOK'
  <2> DEFINE t == session[s].t
             receipt == Assessed(session[s].wrote)
  <2>1. t \in Transactions
    BY <1>2, <1>10 DEF CommitApply
  <2>2. session[s].wrote \in Assessments
    BY <1>0 DEF SessionStates
  <2>3. receipt \in Receipts
    BY <2>2, AssessedType
  <2>4. [status |-> "COMMITTED", receipt |-> receipt] \in TransactionRows
    BY <2>3 DEF TransactionRows, TransactionStatuses
  <2>5. txn' \in [Transactions -> TransactionRows]
    BY <1>10, <2>1, <2>4, RowMoves DEF CommitApply
  <2>6. graph' \in Graphs
    BY <1>0, <1>10, <2>1, <2>2, CommittedType DEF CommitApply
  <2>7. session' \in [Sessions -> SessionStates]
    BY <1>10, IdleType, SessionMoves DEF CommitApply
  <2>8. applied' \in [Transactions -> Nat]
    BY <1>0, <1>10, <2>1 DEF CommitApply
  <2>9. answers' \subseteq Transactions \X Receipts
    BY <1>0, <1>10, <2>1, <2>3 DEF CommitApply, Answer
  <2> QED
    BY <1>1, <2>5, <2>6, <2>7, <2>8, <2>9
<1>11. ASSUME NEW s \in Sessions, Rollback(s) PROVE TypeOK'
  <2>1. session' \in [Sessions -> SessionStates]
    BY <1>11, IdleType, SessionMoves DEF Rollback
  <2> QED
    BY <1>0, <1>1, <1>11, <2>1 DEF Rollback
<1>12. CASE UNCHANGED vars
  BY <1>0, <1>1, <1>12 DEF vars
<1> QED
  BY <1>4, <1>5, <1>6, <1>7, <1>8, <1>9, <1>10, <1>11, <1>12 DEF Next

-----------------------------------------------------------------------------
(* Every step keeps the invariant.                                         *)

\* A change set that moves between statuses that are not COMMITTED, and is settled
\* only if nobody has applied it, leaves the history as it is.
LEMMA StatusMoves ==
  ASSUME IInv, TypeOK', NEW t \in Transactions, NEW status \in TransactionStatuses,
         txn' = [txn EXCEPT ![t].status = status],
         txn[t].status # "COMMITTED", status # "COMMITTED",
         UNCHANGED <<applied, answers>>
  PROVE  /\ AppliedOnce' /\ AnswersStored'
         /\ \A u \in Transactions : txn'[u].status = IF u = t THEN status ELSE txn[u].status
<1>1. txn \in [Transactions -> TransactionRows]
  BY DEF IInv, TypeOK, TransactionRows, Receipts
<1>2. txn' = [txn EXCEPT ![t] = [status |-> status, receipt |-> txn[t].receipt]]
  BY StatusRow DEF IInv
<1>3. \A u \in Transactions : /\ txn'[u].status = IF u = t THEN status ELSE txn[u].status
                              /\ txn'[u].receipt = txn[u].receipt
  <2> DEFINE row == [status |-> status, receipt |-> txn[t].receipt]
  <2>1. row.status = status /\ row.receipt = txn[t].receipt
    OBVIOUS
  <2>2. txn' = [txn EXCEPT ![t] = row]
    BY <1>2
  <2> HIDE DEF row
  <2>3. \A u \in Transactions : txn'[u] = IF u = t THEN row ELSE txn[u]
    BY <1>1, <2>2
  <2> QED
    BY <2>1, <2>3
<1>4. \A answer \in answers : answer[1] \in Transactions
  BY DEF IInv, TypeOK
<1> QED
  BY <1>3, <1>4 DEF IInv, AppliedOnce, AnswersStored

\* A session that goes anywhere but to "applied", while no settled change set is
\* held by another that has applied it, leaves the open applications in order.
LEMMA SessionSettles ==
  ASSUME IInv, NEW s \in Sessions, NEW new \in SessionStates,
         session' = [session EXCEPT ![s] = new],
         new.at # "applied", new.at # "idle" => new.t \in Transactions,
         \A r \in Sessions \ {s} : session[r].at = "applied" =>
            txn'[session[r].t].status \notin {"COMMITTED", "REJECTED"}
  PROVE  OpenApplications'
<1>1. session \in [Sessions -> SessionStates]
  BY DEF IInv, TypeOK, SessionStates
<1>2. \A r \in Sessions : session'[r] = IF r = s THEN new ELSE session[r]
  BY <1>1
<1> QED
  BY <1>2 DEF IInv, OpenApplications

\* One step keeps the invariant.
LEMMA InvStep == IInv /\ [Next]_vars => IInv'
<1> SUFFICES ASSUME IInv, [Next]_vars PROVE IInv'
  OBVIOUS
<1>1. TypeOK'
  BY TypeStep DEF IInv
<1>2. \A r \in Sessions : session[r].at = "applied" =>
        session[r].t \in Transactions /\ txn[session[r].t].status \notin {"COMMITTED", "REJECTED"}
  BY DEF IInv, OpenApplications
<1>3. /\ session \in [Sessions -> SessionStates] /\ txn \in [Transactions -> TransactionRows]
      /\ applied \in [Transactions -> Nat] /\ answers \subseteq Transactions \X Receipts
  BY DEF IInv, TypeOK, SessionStates, TransactionRows, Receipts
<1>4. ASSUME NEW t \in Transactions, Propose(t) PROVE IInv'
  <2>1. /\ AppliedOnce' /\ AnswersStored'
        /\ \A u \in Transactions : txn'[u].status = IF u = t THEN "PROPOSED" ELSE txn[u].status
    BY <1>1, <1>4, StatusMoves DEF Propose, TransactionStatuses
  <2>2. OpenApplications'
    BY <1>2, <1>4, <2>1 DEF Propose, IInv, OpenApplications
  <2> QED
    BY <1>1, <2>1, <2>2 DEF IInv
<1>5. ASSUME NEW s \in Sessions, NEW t \in Transactions, ValidateRead(s, t) PROVE IInv'
  <2> DEFINE new == Validating(t, Acceptable(t))
  <2>1. new \in SessionStates /\ new.at = "validating" /\ new.t = t
    BY SessionStatesReached DEF Acceptable
  <2>2. session' = [session EXCEPT ![s] = new] /\ UNCHANGED <<txn, applied, answers>>
    BY <1>5 DEF ValidateRead, Validating
  <2> HIDE DEF new
  <2>3. OpenApplications'
    BY <1>2, <2>1, <2>2, SessionSettles
  <2> QED
    BY <1>1, <2>2, <2>3 DEF IInv, AppliedOnce, AnswersStored
<1>6. ASSUME NEW s \in Sessions, ValidateWrite(s) PROVE IInv'
  <2> DEFINE t == session[s].t
             status == IF session[s].good THEN "VALIDATED" ELSE "PROPOSED"
  <2>1. /\ session' = [session EXCEPT ![s] = Idle]
        /\ UNCHANGED <<applied, answers>> /\ t \in Transactions
    BY <1>6 DEF ValidateWrite, IInv, OpenApplications
  <2>2. Idle \in SessionStates /\ Idle.at = "idle"
    BY IdleType DEF Idle
  <2>3. CASE Refuses(t)
    <3>1. UNCHANGED txn
      BY <1>6, <2>3 DEF ValidateWrite
    <3>2. OpenApplications'
      BY <1>2, <2>1, <2>2, <3>1, SessionSettles
    <3> QED
      BY <1>1, <2>1, <3>1, <3>2 DEF IInv, AppliedOnce, AnswersStored
  <2>4. CASE ~Refuses(t)
    <3>1. txn' = [txn EXCEPT ![t].status = status] /\ txn[t].status # "COMMITTED"
      BY <1>6, <2>4 DEF ValidateWrite, Refuses
    <3>2. status \in TransactionStatuses /\ status \notin {"COMMITTED", "REJECTED"}
      BY DEF TransactionStatuses
    <3> HIDE DEF t, status
    <3>3. /\ AppliedOnce' /\ AnswersStored'
          /\ \A u \in Transactions : txn'[u].status = IF u = t THEN status ELSE txn[u].status
      BY <1>1, <2>1, <3>1, <3>2, StatusMoves
    <3>4. OpenApplications'
      BY <1>2, <2>1, <2>2, <3>2, <3>3, SessionSettles
    <3> QED
      BY <1>1, <3>3, <3>4 DEF IInv
  <2> QED
    BY <2>3, <2>4
<1>7. ASSUME NEW s \in Sessions, NEW t \in Transactions, Settle(s, t) PROVE IInv'
  <2>1. CASE txn[t].status = "COMMITTED"
    <3>1. /\ answers' = answers \cup {<<t, txn[t].receipt>>}
          /\ UNCHANGED <<txn, session, graph, applied>>
      BY <1>7, <2>1 DEF Settle, Answer, Receipt
    <3>2. AnswersStored'
      BY <2>1, <3>1 DEF IInv, AnswersStored
    <3> QED
      BY <1>1, <3>1, <3>2 DEF IInv, OpenApplications, AppliedOnce
  <2>2. CASE txn[t].status # "COMMITTED"
    <3> DEFINE new == IF Committable(t) THEN Ready(t) ELSE Idle
    <3>1. /\ txn' = [txn EXCEPT ![t].status = Settlement(t)]
          /\ session' = [session EXCEPT ![s] = new]
          /\ UNCHANGED <<graph, applied, answers>> /\ RowFree(s, t)
      BY <1>7, <2>2 DEF Settle, Ready
    <3>2. Settlement(t) \in TransactionStatuses /\ Settlement(t) # "COMMITTED"
      BY DEF Settlement, TransactionStatuses
    <3>3. new \in SessionStates /\ new.at # "applied" /\ (new.at # "idle" => new.t \in Transactions)
      <4>1. Ready(t) \in SessionStates /\ Ready(t).at = "ready" /\ Ready(t).t = t
        BY SessionStatesReached
      <4>2. Idle \in SessionStates /\ Idle.at = "idle"
        BY IdleType DEF Idle
      <4> QED
        BY <4>1, <4>2
    <3>4. /\ AppliedOnce' /\ AnswersStored'
          /\ \A u \in Transactions : txn'[u].status = IF u = t THEN Settlement(t) ELSE txn[u].status
      BY <1>1, <2>2, <3>1, <3>2, StatusMoves
    <3>5. \A r \in Sessions \ {s} : session[r].at = "applied" =>
            txn'[session[r].t].status \notin {"COMMITTED", "REJECTED"}
      BY <1>2, <3>1, <3>4 DEF RowFree
    <3> HIDE DEF new
    <3>6. OpenApplications'
      BY <3>1, <3>3, <3>5, SessionSettles
    <3> QED
      BY <1>1, <3>4, <3>6 DEF IInv
  <2> QED
    BY <2>1, <2>2
<1>8. ASSUME NEW s \in Sessions, ApplySettled(s) PROVE IInv'
  <2>1. /\ session' = [session EXCEPT ![s] = Idle] /\ UNCHANGED <<txn, applied>>
        /\ \/ answers' = answers
           \/ /\ txn[session[s].t].status = "COMMITTED"
              /\ answers' = answers \cup {<<session[s].t, txn[session[s].t].receipt>>}
    BY <1>8 DEF ApplySettled, Answer, Receipt
  <2>2. Idle \in SessionStates /\ Idle.at = "idle"
    BY IdleType DEF Idle
  <2>3. OpenApplications'
    BY <1>2, <2>1, <2>2, SessionSettles
  <2>4. AnswersStored'
    BY <2>1 DEF IInv, AnswersStored
  <2> QED
    BY <1>1, <2>1, <2>3, <2>4 DEF IInv, AppliedOnce
<1>9. ASSUME NEW s \in Sessions, Apply(s) PROVE IInv'
  <2>1. /\ session[s].t \in Transactions /\ RowFree(s, session[s].t)
        /\ txn[session[s].t].status \notin {"COMMITTED", "REJECTED"}
        /\ UNCHANGED <<txn, applied, answers>>
    BY <1>9 DEF Apply, Refuses, IInv, OpenApplications
  <2>2. \A r \in Sessions : /\ session'[r].t = session[r].t
                            /\ session'[r].at = IF r = s THEN "applied" ELSE session[r].at
    BY <1>3, <1>9 DEF Apply, SessionStates
  <2>3. \A r \in Sessions \ {s} : session[r].at = "applied" => session[r].t # session[s].t
    BY <2>1 DEF RowFree
  <2>4. OpenApplications'
    BY <2>1, <2>2, <2>3 DEF IInv, OpenApplications
  <2> QED
    BY <1>1, <2>1, <2>4 DEF IInv, AppliedOnce, AnswersStored
<1>10. ASSUME NEW s \in Sessions, CommitApply(s) PROVE IInv'
  <2> DEFINE t == session[s].t
             receipt == Assessed(session[s].wrote)
  <2>1. /\ t \in Transactions /\ txn[t].status \notin {"COMMITTED", "REJECTED"}
        /\ session[s].at = "applied"
    BY <1>2, <1>10 DEF CommitApply
  <2>2. /\ txn' = [txn EXCEPT ![t] = [status |-> "COMMITTED", receipt |-> receipt]]
        /\ applied' = [applied EXCEPT ![t] = applied[t] + 1]
        /\ answers' = answers \cup {<<t, receipt>>}
        /\ session' = [session EXCEPT ![s] = Idle]
    BY <1>10 DEF CommitApply, Answer
  <2> HIDE DEF t, receipt
  <2>3. /\ txn'[t].status = "COMMITTED" /\ txn'[t].receipt = receipt
        /\ \A u \in Transactions \ {t} : txn'[u] = txn[u] /\ applied'[u] = applied[u]
        /\ applied'[t] = applied[t] + 1
    BY <1>3, <2>1, <2>2
  <2>4. AppliedOnce'
    BY <1>3, <2>1, <2>3 DEF IInv, AppliedOnce
  <2>5. \A answer \in answers : answer[1] \in Transactions \ {t}
    BY <1>3, <2>1 DEF IInv, AnswersStored
  <2>6. AnswersStored'
    BY <2>2, <2>3, <2>5 DEF IInv, AnswersStored
  <2>7. \A r \in Sessions \ {s} : session[r].at = "applied" => session[r].t \in Transactions \ {t}
    BY <1>2, <2>1 DEF t, IInv, OpenApplications
  <2>8. \A r \in Sessions \ {s} : session[r].at = "applied" =>
          txn'[session[r].t].status \notin {"COMMITTED", "REJECTED"}
    BY <1>2, <2>3, <2>7
  <2>9. Idle \in SessionStates /\ Idle.at = "idle"
    BY IdleType DEF Idle
  <2>10. OpenApplications'
    BY <2>2, <2>8, <2>9, SessionSettles
  <2> QED
    BY <1>1, <2>4, <2>6, <2>10 DEF IInv
<1>11. ASSUME NEW s \in Sessions, Rollback(s) PROVE IInv'
  <2>1. session' = [session EXCEPT ![s] = Idle] /\ UNCHANGED <<txn, applied, answers>>
    BY <1>11 DEF Rollback
  <2>2. Idle \in SessionStates /\ Idle.at = "idle"
    BY IdleType DEF Idle
  <2>3. OpenApplications'
    BY <1>2, <2>1, <2>2, SessionSettles
  <2> QED
    BY <1>1, <2>1, <2>3 DEF IInv, AppliedOnce, AnswersStored
<1>12. CASE UNCHANGED vars
  BY <1>1, <1>12 DEF vars, IInv, OpenApplications, AppliedOnce, AnswersStored
<1> QED
  BY <1>4, <1>5, <1>6, <1>7, <1>8, <1>9, <1>10, <1>11, <1>12 DEF Next

-----------------------------------------------------------------------------
(* What follows.                                                           *)

\* The invariant holds in every reachable state.
THEOREM GovernorInvariant == Spec => []IInv
<1>1. Init => IInv
  BY InvInit
<1>2. IInv /\ [Next]_vars => IInv'
  BY InvStep
<1> QED
  BY <1>1, <1>2, PTL DEF Spec

\* Every variable has its type in every reachable state.
THEOREM GovernorTypes == Spec => []TypeOK
<1>1. IInv => TypeOK
  BY DEF IInv
<1> QED
  BY <1>1, GovernorInvariant, PTL

\* However many sessions commit one change set, it is applied once or not at all.
THEOREM OnceApplied == Spec => []AppliedOnce
<1>1. IInv => AppliedOnce
  BY DEF IInv
<1> QED
  BY <1>1, GovernorInvariant, PTL

\* Every commit of one change set answers with the same receipt.
THEOREM OneAnswer == Spec => []AnswersAgree
<1>1. IInv => AnswersAgree
  BY DEF IInv, AnswersStored, AnswersAgree
<1> QED
  BY <1>1, GovernorInvariant, PTL

\* A change set that is committed or rejected stays as it is.
THEOREM NeverReopened == Spec => SettledForGood
<1> DEFINE Kept == \A t \in Transactions :
                     txn[t].status \in {"COMMITTED", "REJECTED"} => txn'[t] = txn[t]
<1>1. IInv /\ [Next]_vars => [Kept]_vars
  <2> SUFFICES ASSUME IInv, [Next]_vars PROVE Kept
    OBVIOUS
  <2>1. txn \in [Transactions -> TransactionRows]
    BY DEF IInv, TypeOK, TransactionRows, Receipts
  <2>2. \A s \in Sessions : session[s].at = "applied" =>
          txn[session[s].t].status \notin {"COMMITTED", "REJECTED"}
    BY DEF IInv, OpenApplications
  <2> SUFFICES ASSUME NEW t \in Transactions, txn[t].status \in {"COMMITTED", "REJECTED"}
               PROVE  txn'[t] = txn[t]
    OBVIOUS
  <2>3. ASSUME NEW u \in Transactions, Propose(u) PROVE txn'[t] = txn[t]
    BY <2>1, <2>3 DEF Propose
  <2>4. ASSUME NEW s \in Sessions, NEW u \in Transactions, ValidateRead(s, u) \/ Settle(s, u)
        PROVE  txn'[t] = txn[t]
    BY <2>1, <2>4 DEF ValidateRead, Settle
  <2>5. ASSUME NEW s \in Sessions, ValidateWrite(s) PROVE txn'[t] = txn[t]
    BY <2>1, <2>5 DEF ValidateWrite, Refuses
  <2>6. ASSUME NEW s \in Sessions, CommitApply(s) PROVE txn'[t] = txn[t]
    BY <2>1, <2>2, <2>6 DEF CommitApply
  <2>7. ASSUME NEW s \in Sessions, ApplySettled(s) \/ Apply(s) \/ Rollback(s)
        PROVE  txn'[t] = txn[t]
    BY <2>7 DEF ApplySettled, Apply, Rollback
  <2>8. CASE UNCHANGED vars
    BY <2>8 DEF vars
  <2> QED
    BY <2>3, <2>4, <2>5, <2>6, <2>7, <2>8 DEF Next
<1> QED
  BY <1>1, GovernorInvariant, PTL DEF Spec, SettledForGood

-----------------------------------------------------------------------------
(* Without overlap.                                                        *)

\* While no session has begun beside another: the one at work, if any, validated against
\* the graph as it still is, and has written what follows from it.
ValidatedHere ==
  /\ \A r, s \in Busy : r = s
  /\ \A s \in Sessions : session[s].at \in {"ready", "applied"} => Committable(session[s].t)
  /\ \A s \in Sessions : session[s].at = "applied" => session[s].wrote = Written(session[s].t)
GraphSound == SupportAcyclic /\ OneAcceptedPerSlot /\ DerivedFollowInputs
AInv == alone \in BOOLEAN /\ (alone => ValidatedHere /\ GraphSound)

\* How alone follows a step of the governor.
Apart == session' = session \/ \A s \in Busy : session'[s] # session[s]

\* Verdicts over verdicts, read one by one.
LEMMA OverrideAt ==
  ASSUME NEW v, NEW w, NEW p \in Propositions
  PROVE  Override(v, w)[p] = IF w[p] = None THEN v[p] ELSE w[p]
  BY DEF Override

\* What a commit leaves is sound if it was validated against what it changes.
LEMMA CommitSound ==
  ASSUME IInv, GraphSound, NEW t \in Transactions, Committable(t), graph' = Committed(t, Written(t)),
         txn'[t].status = "COMMITTED",
         \A u \in Transactions : txn[u].status = "COMMITTED" => txn'[u].status = "COMMITTED"
  PROVE  GraphSound'
<1> DEFINE wrote == Written(t)
           said == Override(graph.verdict, Verdicts[t])
           fell == graph.suppressed \cup Suppresses[t]
<1>1. /\ graph'.edges = graph.edges \cup Edges[t] /\ graph'.verdict = Override(graph.verdict, wrote)
      /\ graph'.deps = graph.deps \cup Derives[t] /\ graph'.suppressed = fell
  BY DEF Committed
<1>2. Verdicts[t] \in Assessments /\ None \notin AssessmentStatuses /\ graph.deps \cup Derives[t] \subseteq Dependencies
  BY ContentAssumption, NoneAssumption DEF IInv, TypeOK
<1>3. \A p \in Propositions : wrote[p] = IF p \in Moved(t) THEN "UNSUPPORTED" ELSE Verdicts[t][p]
  BY DEF Written
<1>4. \A p \in Propositions : said[p] = IF Verdicts[t][p] = None THEN graph.verdict[p] ELSE Verdicts[t][p]
  BY OverrideAt
<1>5. \A p \in Propositions :
        graph'.verdict[p] = IF p \in Moved(t) THEN "UNSUPPORTED" ELSE said[p]
  <2> TAKE p \in Propositions
  <2>1. graph'.verdict[p] = IF wrote[p] = None THEN graph.verdict[p] ELSE wrote[p]
    BY <1>1, OverrideAt
  <2>2. "UNSUPPORTED" # None
    BY <1>2 DEF AssessmentStatuses
  <2> HIDE DEF wrote, said
  <2> QED
    BY <1>3, <1>4, <2>1, <2>2
<1>6. Moved(t) = {d.derived : d \in {e \in graph.deps \cup Derives[t] :
                    Gone(e.inputs, said, fell) /\ said[e.derived] \notin {None, "UNSUPPORTED"}}}
  BY DEF Moved
<1> HIDE DEF wrote, said, fell
<1>7. SupportAcyclic'
  BY <1>1 DEF Committable, Acceptable, SupportAcyclic, Cyclic
<1>8. OneAcceptedPerSlot'
  <2> SUFFICES ASSUME NEW p \in Propositions, NEW q \in Propositions, p # q, Slot[p] = Slot[q],
                      graph'.verdict[p] = "ACCEPTED", graph'.verdict[q] = "ACCEPTED"
               PROVE  \E u \in Transactions :
                        txn'[u].status = "COMMITTED" /\ Verdicts[u][p] = "ACCEPTED" /\ Verdicts[u][q] = "ACCEPTED"
    BY DEF OneAcceptedPerSlot
  <2>1. said[p] = "ACCEPTED" /\ said[q] = "ACCEPTED"
    BY <1>5
  <2>2. \A x \in {p, q} : Verdicts[t][x] = "ACCEPTED" \/ graph.verdict[x] = "ACCEPTED"
    BY <1>4, <2>1
  <2>3. CASE Verdicts[t][p] = "ACCEPTED" /\ Verdicts[t][q] = "ACCEPTED"
    BY <2>3
  <2>4. CASE Verdicts[t][p] = "ACCEPTED" /\ graph.verdict[q] = "ACCEPTED"
    BY <2>4 DEF Committable, MaterialConflict
  <2>5. CASE Verdicts[t][q] = "ACCEPTED" /\ graph.verdict[p] = "ACCEPTED"
    BY <2>5 DEF Committable, MaterialConflict
  <2>6. CASE graph.verdict[p] = "ACCEPTED" /\ graph.verdict[q] = "ACCEPTED"
    BY <2>6 DEF GraphSound, OneAcceptedPerSlot
  <2> QED
    BY <2>2, <2>3, <2>4, <2>5, <2>6
<1>9. DerivedFollowInputs'
  <2> SUFFICES ASSUME NEW d \in graph.deps \cup Derives[t],
                      \A e \in graph.deps \cup Derives[t] : e.derived \notin d.inputs,
                      Gone(d.inputs, graph'.verdict, fell)
               PROVE  graph'.verdict[d.derived] \in {None, "UNSUPPORTED"}
    BY <1>1 DEF DerivedFollowInputs
  <2>1. d.derived \in Propositions /\ d.inputs \subseteq Propositions \cup Claims
    BY <1>2 DEF Dependencies
  <2>2. \A x \in d.inputs : x \notin Moved(t)
    BY <1>6
  <2>3. Gone(d.inputs, said, fell)
    BY <1>5, <2>1, <2>2 DEF Gone
  <2>4. d.derived \in Moved(t) \/ said[d.derived] \in {None, "UNSUPPORTED"}
    BY <1>6, <2>3
  <2> QED
    BY <1>5, <2>1, <2>4
<1> QED
  BY <1>7, <1>8, <1>9 DEF GraphSound

\* A step that leaves the graph alone and reopens no change set keeps it sound.
LEMMA SoundStays ==
  ASSUME GraphSound, graph' = graph,
         \A u \in Transactions : txn[u].status = "COMMITTED" => txn'[u].status = "COMMITTED"
  PROVE  GraphSound'
<1>1. SupportAcyclic'
  BY DEF GraphSound, SupportAcyclic
<1>2. OneAcceptedPerSlot'
  BY DEF GraphSound, OneAcceptedPerSlot
<1>3. DerivedFollowInputs'
  BY DEF GraphSound, DerivedFollowInputs
<1> QED
  BY <1>1, <1>2, <1>3 DEF GraphSound

\* What a validation finds, and what is written from it, with the graph named.
CommittableOn(g, t) ==
  /\ t \in Allowed /\ ~Cyclic(g.edges \cup Edges[t])
  /\ ~\E p, q \in Propositions :
        Verdicts[t][p] = "ACCEPTED" /\ q # p /\ Slot[q] = Slot[p] /\ g.verdict[q] = "ACCEPTED"
MovedOn(g, t) ==
  LET verdict1 == Override(g.verdict, Verdicts[t])
      suppressed == g.suppressed \cup Suppresses[t]
  IN  {d.derived : d \in {e \in g.deps \cup Derives[t] :
                            /\ Gone(e.inputs, verdict1, suppressed)
                            /\ verdict1[e.derived] \notin {None, "UNSUPPORTED"}}}
WrittenOn(g, t) == [p \in Propositions |-> IF p \in MovedOn(g, t) THEN "UNSUPPORTED" ELSE Verdicts[t][p]]
FitsOn(g, mine) ==
  /\ mine.at \in {"ready", "applied"} => CommittableOn(g, mine.t)
  /\ mine.at = "applied" => mine.wrote = WrittenOn(g, mine.t)

LEMMA CommittableHere == \A t : (Committable(t) <=> CommittableOn(graph, t)) /\ Written(t) = WrittenOn(graph, t)
  BY DEF Committable, Acceptable, MaterialConflict, CommittableOn, Written, Moved, WrittenOn, MovedOn

LEMMA ValidatedFits ==
  /\ ValidatedHere <=> (\A r, s \in Busy : r = s) /\ \A s \in Sessions : FitsOn(graph, session[s])
  /\ ValidatedHere' <=> (\A r, s \in Busy' : r = s) /\ \A s \in Sessions : FitsOn(graph', session'[s])
<1>1. ValidatedHere <=> (\A r, s \in Busy : r = s) /\ \A s \in Sessions : FitsOn(graph, session[s])
  BY DEF ValidatedHere, FitsOn, Committable, Acceptable, MaterialConflict, CommittableOn, Written, Moved, WrittenOn, MovedOn
<1>2. ValidatedHere' <=> (\A r, s \in Busy' : r = s) /\ \A s \in Sessions : FitsOn(graph', session'[s])
  BY DEF ValidatedHere, FitsOn, Committable, Acceptable, MaterialConflict, CommittableOn, Written, Moved, WrittenOn, MovedOn
<1> QED
  BY <1>1, <1>2

\* One session goes to a new place, and nobody else is at work.
LEMMA OneAtWork ==
  ASSUME IInv, ValidatedHere, Apart, graph' = graph, NEW s \in Sessions, NEW new,
         session' = [session EXCEPT ![s] = new], FitsOn(graph, new)
  PROVE  ValidatedHere'
<1>1. session \in [Sessions -> SessionStates]
  BY DEF IInv, TypeOK, SessionStates
<1>2. \A r \in Sessions : session'[r] = IF r = s THEN new ELSE session[r]
  BY <1>1
<1>3. \A r \in Sessions : FitsOn(graph', session'[r])
  BY <1>2, ValidatedFits
<1>4. \A r, x \in Busy' : r = x
  <2>1. CASE session' = session
    BY <2>1 DEF ValidatedHere, Busy
  <2>2. CASE \A r \in Busy : session'[r] # session[r]
    <3>1. Busy \subseteq {s}
      BY <1>2, <2>2 DEF Busy
    <3>2. \A r \in Busy' : r \in Busy \/ r = s
      BY <1>2 DEF Busy
    <3> QED
      BY <3>1, <3>2
  <2> QED
    BY <2>1, <2>2 DEF Apart
<1> QED
  BY <1>3, <1>4, ValidatedFits

\* Every step of the governor that keeps out of the others' way keeps the graph sound.
LEMMA GovernorSound ==
  ASSUME IInv, ValidatedHere, GraphSound, Next, Apart
  PROVE  ValidatedHere' /\ GraphSound'
<1>1. /\ session \in [Sessions -> SessionStates] /\ txn \in [Transactions -> TransactionRows]
      /\ \A s \in Sessions : session[s].at # "idle" => session[s].t \in Transactions
      /\ \A s \in Sessions : session[s].at = "applied" => txn[session[s].t].status \notin {"COMMITTED", "REJECTED"}
  BY DEF IInv, TypeOK, SessionStates, TransactionRows, Receipts, OpenApplications
<1>2. FitsOn(graph, Idle)
  BY DEF FitsOn, Idle
<1>3. ASSUME NEW t \in Transactions, Propose(t) PROVE ValidatedHere' /\ GraphSound'
  <2>1. \A u \in Transactions : txn[u].status = "COMMITTED" => txn'[u].status = "COMMITTED"
    BY <1>1, <1>3 DEF Propose
  <2>2. UNCHANGED <<graph, session>>
    BY <1>3 DEF Propose
  <2>3. GraphSound'
    BY <2>1, <2>2, SoundStays
  <2>4. ValidatedHere'
    BY <2>2, ValidatedFits DEF Busy
  <2> QED
    BY <2>3, <2>4
<1>4. ASSUME NEW s \in Sessions, NEW t \in Transactions, ValidateRead(s, t) PROVE ValidatedHere' /\ GraphSound'
  <2>1. session' = [session EXCEPT ![s] = Validating(t, Acceptable(t))] /\ UNCHANGED <<txn, graph>>
    BY <1>4 DEF ValidateRead, Validating
  <2>2. FitsOn(graph, Validating(t, Acceptable(t)))
    <3>1. Validating(t, Acceptable(t)).at = "validating"
      BY SessionStatesReached DEF Acceptable
    <3> QED
      BY <3>1 DEF FitsOn
  <2> QED
    BY <2>1, <2>2, OneAtWork, SoundStays
<1>5. ASSUME NEW s \in Sessions, ValidateWrite(s) PROVE ValidatedHere' /\ GraphSound'
  <2>1. session' = [session EXCEPT ![s] = Idle] /\ graph' = graph
    BY <1>5 DEF ValidateWrite
  <2>2. \A u \in Transactions : txn[u].status = "COMMITTED" => txn'[u].status = "COMMITTED"
    BY <1>1, <1>5 DEF ValidateWrite, Refuses
  <2> QED
    BY <1>2, <2>1, <2>2, OneAtWork, SoundStays
<1>6. ASSUME NEW s \in Sessions, NEW t \in Transactions, Settle(s, t) PROVE ValidatedHere' /\ GraphSound'
  <2>1. CASE txn[t].status = "COMMITTED"
    <3>1. UNCHANGED <<txn, session, graph>>
      BY <1>6, <2>1 DEF Settle
    <3>2. ValidatedHere'
      BY <3>1, ValidatedFits DEF Busy
    <3> QED
      BY <3>1, <3>2, SoundStays
  <2>2. CASE txn[t].status # "COMMITTED"
    <3> DEFINE new == IF Committable(t) THEN Ready(t) ELSE Idle
    <3>1. /\ txn' = [txn EXCEPT ![t].status = Settlement(t)] /\ graph' = graph
          /\ session' = [session EXCEPT ![s] = new]
      BY <1>6, <2>2 DEF Settle, Ready
    <3>2. \A u \in Transactions : txn[u].status = "COMMITTED" => txn'[u].status = "COMMITTED"
      BY <1>1, <2>2, <3>1
    <3>3. FitsOn(graph, new)
      <4>1. Ready(t).at = "ready" /\ Ready(t).t = t
        BY SessionStatesReached
      <4>2. Committable(t) => FitsOn(graph, Ready(t))
        BY <4>1, CommittableHere DEF FitsOn
      <4> QED
        BY <1>2, <4>2
    <3> HIDE DEF new
    <3> QED
      BY <3>1, <3>2, <3>3, OneAtWork, SoundStays
  <2> QED
    BY <2>1, <2>2
<1>7. ASSUME NEW s \in Sessions, ApplySettled(s) \/ Rollback(s) PROVE ValidatedHere' /\ GraphSound'
  <2>1. session' = [session EXCEPT ![s] = Idle] /\ UNCHANGED <<txn, graph>>
    BY <1>7 DEF ApplySettled, Rollback
  <2> QED
    BY <1>2, <2>1, OneAtWork, SoundStays
<1>8. ASSUME NEW s \in Sessions, Apply(s) PROVE ValidatedHere' /\ GraphSound'
  <2> DEFINE t == session[s].t
             new == [session[s] EXCEPT !.at = "applied", !.wrote = Written(t)]
  <2>1. session' = [session EXCEPT ![s] = new] /\ UNCHANGED <<txn, graph>>
    BY <1>8 DEF Apply
  <2>2. new.at = "applied" /\ new.t = t /\ new.wrote = Written(t)
    BY <1>1 DEF SessionStates
  <2>3. session[s].at = "ready"
    BY <1>8 DEF Apply
  <2>4. FitsOn(graph, session[s])
    BY ValidatedFits
  <2>5. FitsOn(graph, new)
    <3> HIDE DEF new
    <3> QED
      BY <2>2, <2>3, <2>4, CommittableHere DEF FitsOn
  <2> HIDE DEF new
  <2> QED
    BY <2>1, <2>5, OneAtWork, SoundStays
<1>9. ASSUME NEW s \in Sessions, CommitApply(s) PROVE ValidatedHere' /\ GraphSound'
  <2> DEFINE t == session[s].t
  <2>1. session[s].at = "applied" /\ t \in Transactions /\ graph' = Committed(t, session[s].wrote)
    BY <1>1, <1>9 DEF CommitApply
  <2>2. Committable(t) /\ session[s].wrote = Written(t)
    BY <2>1 DEF ValidatedHere
  <2>3. txn' = [txn EXCEPT ![t] = [status |-> "COMMITTED", receipt |-> Assessed(session[s].wrote)]]
        /\ session' = [session EXCEPT ![s] = Idle]
    BY <1>9 DEF CommitApply
  <2> HIDE DEF t
  <2>4. txn'[t].status = "COMMITTED" /\ \A u \in Transactions : txn[u].status = "COMMITTED" => txn'[u].status = "COMMITTED"
    BY <1>1, <2>1, <2>3
  <2>5. GraphSound'
    BY <2>1, <2>2, <2>4, CommitSound
  <2>6. Busy' = {}
    <3>1. s \in Busy /\ \A r \in Busy : r = s
      BY <2>1 DEF Busy, ValidatedHere
    <3>2. \A r \in Sessions : session'[r] = IF r = s THEN Idle ELSE session[r]
      BY <1>1, <2>3
    <3> QED
      BY <3>1, <3>2 DEF Busy, Idle
  <2>7. \A r \in Sessions : FitsOn(graph', session'[r])
    BY <2>6 DEF FitsOn, Busy
  <2>8. ValidatedHere'
    BY <2>6, <2>7, ValidatedFits
  <2> QED
    BY <2>5, <2>8
<1> QED
  BY <1>3, <1>4, <1>5, <1>6, <1>7, <1>8, <1>9 DEF Next

\* Beside the other models of its run the governor moves by its own steps only.
LEMMA MCStep ==
  ASSUME MCNext \/ UNCHANGED <<vars, identities, answerVars, alone, subject>>, alone \in BOOLEAN
  PROVE  [Next]_vars /\ alone' \in BOOLEAN /\ (alone' => alone) /\ (Next /\ alone' => Apart \/ UNCHANGED vars)
<1>1. CASE subject = "governor" /\ Next /\ alone' = (alone /\ Apart)
  BY <1>1
<1>2. CASE UNCHANGED vars /\ alone' \in BOOLEAN /\ (alone' => alone)
  BY <1>2
<1>3. CASE MCNext
  <2>1. CASE subject = "governor" /\ Next /\ alone' = (alone /\ (session' = session \/ \A s \in Busy : session'[s] # session[s]))
    BY <1>1, <2>1 DEF Apart
  <2> DEFINE apart == IF frame' = frame THEN Cardinality({w \in Writers : writer'[w] # L!Idle}) <= 1 ELSE AtWork = {}
  <2>2. CASE UNCHANGED vars /\ alone' = (alone /\ apart)
    <3> HIDE DEF apart
    <3> QED
      BY <1>2, <2>2
  <2>3. CASE UNCHANGED vars /\ alone' = alone
    BY <1>2, <2>3
  <2> QED
    BY <1>3, <2>1, <2>2, <2>3 DEF MCNext
<1>4. CASE UNCHANGED <<vars, identities, answerVars, alone, subject>>
  BY <1>2, <1>4
<1> QED
  BY <1>3, <1>4

LEMMA AloneStep == IInv /\ AInv /\ [MCNext]_<<vars, identities, answerVars, alone, subject>> => AInv'
<1> SUFFICES ASSUME IInv, AInv, [MCNext]_<<vars, identities, answerVars, alone, subject>> PROVE AInv'
  OBVIOUS
<1>1. [Next]_vars /\ alone' \in BOOLEAN /\ (alone' => alone) /\ (Next /\ alone' => Apart \/ UNCHANGED vars)
  BY MCStep DEF AInv
<1> SUFFICES ASSUME alone' PROVE ValidatedHere' /\ GraphSound'
  BY <1>1 DEF AInv
<1>2. ValidatedHere /\ GraphSound
  BY <1>1 DEF AInv
<1>3. CASE Next /\ Apart
  BY <1>2, <1>3, GovernorSound
<1>4. CASE UNCHANGED vars
  <2>1. UNCHANGED <<txn, graph, session>>
    BY <1>4 DEF vars
  <2>2. ValidatedHere'
    BY <1>2, <2>1, ValidatedFits DEF Busy
  <2> QED
    BY <1>2, <2>1, <2>2, SoundStays
<1> QED
  BY <1>1, <1>3, <1>4

LEMMA AloneInit == MCInit => AInv
<1> SUFFICES ASSUME MCInit PROVE AInv
  OBVIOUS
<1>1. Init /\ alone = TRUE
  BY DEF MCInit
<1>2. Busy = {} /\ \A s \in Sessions : session[s].at = "idle"
  BY <1>1 DEF Init, Busy, Idle
<1>3. ValidatedHere
  BY <1>2 DEF ValidatedHere
<1>4. graph.edges = {} /\ graph.deps = {} /\ \A p \in Propositions : graph.verdict[p] = None
  BY <1>1 DEF Init
<1>5. None # "ACCEPTED"
  BY NoneAssumption DEF AssessmentStatuses
<1>6. GraphSound
  BY <1>4, <1>5 DEF GraphSound, SupportAcyclic, Cyclic, OneAcceptedPerSlot, DerivedFollowInputs
<1> QED
  BY <1>1, <1>3, <1>6 DEF AInv

\* Without overlapping commits no committed support goes in a circle, no slot has two
\* accepted values from two change sets, and no belief outlives its inputs.
THEOREM SoundWithoutOverlap == MCSpec => []GraphSoundAlone
<1>1. MCInit => IInv /\ AInv
  BY InvInit, AloneInit DEF MCInit
<1>2. IInv /\ AInv /\ [MCNext]_<<vars, identities, answerVars, alone, subject>> => IInv' /\ AInv'
  <2> SUFFICES ASSUME IInv, AInv, [MCNext]_<<vars, identities, answerVars, alone, subject>> PROVE IInv' /\ AInv'
    OBVIOUS
  <2>1. [Next]_vars
    BY MCStep DEF AInv
  <2> QED
    BY <2>1, InvStep, AloneStep
<1>3. AInv => GraphSoundAlone
  BY DEF AInv, GraphSound, GraphSoundAlone
<1> QED
  BY <1>1, <1>2, <1>3, PTL DEF MCSpec

-----------------------------------------------------------------------------
(* Answers.                                                                *)

\* Beliefs with what they cite.
Partial == UNION {[S -> SUBSET Evidence] : S \in SUBSET Beliefs}

LEMMA PartialIs ==
  \A f : f \in Partial <=> f \in [DOMAIN f -> SUBSET Evidence] /\ DOMAIN f \subseteq Beliefs
  BY DEF Partial

\* The proofs after n rounds.
ProofRuns(g, n, readable, blocked) ==
  /\ g[0] = Grounded(readable, blocked)
  /\ \A m \in 1..n : g[m] = Round(g[m - 1], blocked)

LEMMA RoundIsPartial ==
  ASSUME NEW f \in Partial, NEW blocked
  PROVE  Round(f, blocked) \in Partial
<1>1. f \in [DOMAIN f -> SUBSET Evidence] /\ DOMAIN f \subseteq Beliefs
  BY PartialIs
<1>2. DOMAIN Round(f, blocked) = DOMAIN f \cup Reached(f, blocked)
  BY DEF Round
<1>3. Reached(f, blocked) \subseteq Beliefs
  BY DEF Reached
<1>4. ASSUME NEW b \in DOMAIN Round(f, blocked)
      PROVE  Round(f, blocked)[b] \in SUBSET Evidence
  <2>1. CASE b \in DOMAIN f
    BY <1>1, <2>1 DEF Round
  <2>2. CASE b \notin DOMAIN f
    <3> DEFINE path == CHOOSE path \in Complete(f, b) : TRUE
    <3>1. b \in Reached(f, blocked) /\ Complete(f, b) # {}
      BY <1>2, <2>2 DEF Reached
    <3>2. path \in Complete(f, b)
      BY <3>1
    <3>3. path \subseteq DOMAIN f
      BY <3>2 DEF Complete
    <3>4. Round(f, blocked)[b] = UNION {f[c] : c \in path}
      BY <2>2, <3>1 DEF Round
    <3> QED
      BY <1>1, <3>3, <3>4
  <2> QED
    BY <2>1, <2>2
<1>5. Round(f, blocked) = [b \in DOMAIN Round(f, blocked) |-> Round(f, blocked)[b]]
  BY DEF Round
<1> QED
  BY <1>1, <1>2, <1>3, <1>4, <1>5, PartialIs

LEMMA GroundedIsPartial ==
  ASSUME NEW readable, NEW blocked
  PROVE  /\ Grounded(readable, blocked) \in Partial
         /\ DOMAIN Grounded(readable, blocked) = (Direct \cap readable) \ blocked
         /\ \A b \in DOMAIN Grounded(readable, blocked) : Grounded(readable, blocked)[b] = {b}
<1> DEFINE f == Grounded(readable, blocked)
<1>1. DOMAIN f = (Direct \cap readable) \ blocked /\ \A b \in DOMAIN f : f[b] = {b}
  BY DEF Grounded
<1>2. f \in [DOMAIN f -> SUBSET Evidence]
  <2>1. f = [b \in DOMAIN f |-> f[b]]
    BY DEF Grounded
  <2>2. \A b \in DOMAIN f : f[b] \in SUBSET Evidence
    BY <1>1 DEF Evidence
  <2> HIDE DEF f
  <2> QED
    BY <2>1, <2>2
<1>3. DOMAIN f \subseteq Beliefs
  BY <1>1, BeliefsAssumption
<1> QED
  BY <1>1, <1>2, <1>3, PartialIs

\* The function of the rounds is there, and Proofs is its last value.
LEMMA ProofsAreRuns ==
  ASSUME NEW readable, NEW blocked, NEW N \in Nat, N = Cardinality(Beliefs)
  PROVE  \E g \in [0..N -> Partial] : ProofRuns(g, N, readable, blocked) /\ Proofs(readable, blocked) = g[N]
<1> DEFINE Base == Grounded(readable, blocked)
           Next1(f) == Round(f, blocked)
           T == {n \in 0..N : \E g \in [0..n -> Partial] : ProofRuns(g, n, readable, blocked)}
<1>0. Base \in Partial
  BY GroundedIsPartial
<1>1. 0 \in T
  <2> DEFINE g == [m \in 0..0 |-> Base]
  <2>1. g \in [0..0 -> Partial] /\ g[0] = Base
    <3> HIDE DEF Base
    <3> QED
      BY <1>0
  <2>2. 1..0 = {} /\ 0 \in 0..N
    OBVIOUS
  <2> QED
    BY <2>1, <2>2 DEF ProofRuns
<1>2. ASSUME NEW n \in 0..N, n + 1 \in 0..N, n \in T PROVE n + 1 \in T
  <2>1. PICK g \in [0..n -> Partial] : ProofRuns(g, n, readable, blocked)
    BY <1>2
  <2> DEFINE h == [m \in 0..(n + 1) |-> IF m = n + 1 THEN Next1(g[n]) ELSE g[m]]
  <2>2. g[n] \in Partial
    BY <2>1
  <2>3. Next1(g[n]) \in Partial
    BY <2>2, RoundIsPartial
  <2>4. h \in [0..(n + 1) -> Partial]
    <3> HIDE DEF Next1
    <3>1. \A m \in 0..(n + 1) : m # n + 1 => m \in 0..n
      OBVIOUS
    <3> QED
      BY <2>1, <2>3, <3>1
  <2>5. h[0] = Base
    <3>1. 0 # n + 1 /\ 0 \in 0..(n + 1)
      OBVIOUS
    <3> QED
      BY <2>1, <3>1 DEF ProofRuns
  <2>6. ASSUME NEW m \in 1..(n + 1) PROVE h[m] = Next1(h[m - 1])
    <3>1. m \in 0..(n + 1) /\ m - 1 \in 0..(n + 1) /\ m - 1 # n + 1
      OBVIOUS
    <3>2. h[m - 1] = g[m - 1]
      BY <3>1
    <3>3. CASE m = n + 1
      <4>1. m - 1 = n
        BY <3>3
      <4> QED
        BY <3>1, <3>2, <3>3, <4>1
    <3>4. CASE m # n + 1
      <4>1. m \in 1..n
        BY <3>4
      <4> QED
        BY <2>1, <3>1, <3>2, <3>4, <4>1 DEF ProofRuns
    <3> QED
      BY <3>3, <3>4
  <2> HIDE DEF h
  <2> QED
    BY <1>2, <2>4, <2>5, <2>6 DEF ProofRuns
<1>3. N \in T
  <2>1. 0..N \subseteq T
    <3> HIDE DEF T
    <3> QED
      BY <1>1, <1>2, AllRounds
  <2> QED
    BY <2>1
<1>4. PICK g \in [0..N -> Partial] : ProofRuns(g, N, readable, blocked)
  BY <1>3
<1> DEFINE Is(f) == f = [n \in 0..N |-> IF n = 0 THEN Base ELSE Next1(f[n - 1])]
<1>5. Is(g)
  <2>1. \A n \in 0..N : g[n] = IF n = 0 THEN Base ELSE Next1(g[n - 1])
    <3>1. \A n \in 0..N : n # 0 => n \in 1..N
      OBVIOUS
    <3> QED
      BY <1>4, <3>1 DEF ProofRuns
  <2>2. g = [n \in 0..N |-> g[n]]
    BY <1>4
  <2> HIDE DEF Base, Next1
  <2> QED
    BY <2>1, <2>2
<1> DEFINE found == CHOOSE f : Is(f)
<1>6. Is(found)
  <2> HIDE DEF Is
  <2> QED
    BY <1>5
<1>7. \A f : Is(f) => f \in [0..N -> Partial] /\ ProofRuns(f, N, readable, blocked)
  <2> SUFFICES ASSUME NEW f, Is(f) PROVE f \in [0..N -> Partial] /\ ProofRuns(f, N, readable, blocked)
    OBVIOUS
  <2>1. f[0] = Base /\ \A n \in 1..N : f[n] = Next1(f[n - 1])
    <3>1. 0 \in 0..N /\ \A n \in 1..N : n \in 0..N /\ n # 0
      OBVIOUS
    <3> HIDE DEF Base, Next1
    <3> QED
      BY <3>1
  <2>2. ProofRuns(f, N, readable, blocked)
    BY <2>1 DEF ProofRuns
  <2> DEFINE U == {n \in 0..N : f[n] \in Partial}
  <2>3. 0 \in U
    BY <1>0, <2>1
  <2>4. ASSUME NEW n \in 0..N, n + 1 \in 0..N, n \in U PROVE n + 1 \in U
    <3>1. n + 1 \in 1..N /\ (n + 1) - 1 = n
      BY <2>4
    <3>2. f[n + 1] = Next1(f[n])
      BY <2>1, <3>1
    <3> QED
      BY <2>4, <3>2, RoundIsPartial
  <2>5. 0..N \subseteq U
    <3> HIDE DEF U
    <3> QED
      BY <2>3, <2>4, AllRounds
  <2>6. DOMAIN f = 0..N /\ f = [n \in 0..N |-> f[n]]
    <3> HIDE DEF Base, Next1
    <3>1. f = [n \in 0..N |-> IF n = 0 THEN Base ELSE Next1(f[n - 1])]
      OBVIOUS
    <3>2. \A n \in 0..N : f[n] = IF n = 0 THEN Base ELSE Next1(f[n - 1])
      BY <3>1
    <3>3. [n \in 0..N |-> f[n]] = [n \in 0..N |-> IF n = 0 THEN Base ELSE Next1(f[n - 1])]
      BY <3>2
    <3> QED
      BY <3>1, <3>3
  <2> QED
    BY <2>2, <2>5, <2>6
<1>8. Proofs(readable, blocked) = found[N]
  BY DEF Proofs
<1> QED
  BY <1>6, <1>7, <1>8

\* What a round adds: where its inputs lead, and what they cite.
LEMMA RoundAdds ==
  ASSUME NEW f \in Partial, NEW blocked
  PROVE  /\ DOMAIN Round(f, blocked) = DOMAIN f \cup Reached(f, blocked)
         /\ \A b \in DOMAIN f : Round(f, blocked)[b] = f[b]
         /\ \A b \in DOMAIN Round(f, blocked) \ DOMAIN f :
              /\ b \in Beliefs \ (gone \cup blocked)
              /\ \E path \in Inputs[b] : /\ path # {} /\ path \subseteq DOMAIN f
                                         /\ Round(f, blocked)[b] = UNION {f[c] : c \in path}
<1>1. DOMAIN Round(f, blocked) = DOMAIN f \cup Reached(f, blocked)
  BY DEF Round
<1>2. \A b \in DOMAIN f : Round(f, blocked)[b] = f[b]
  BY DEF Round
<1>3. ASSUME NEW b \in DOMAIN Round(f, blocked) \ DOMAIN f
      PROVE  /\ b \in Beliefs \ (gone \cup blocked)
             /\ \E path \in Inputs[b] : /\ path # {} /\ path \subseteq DOMAIN f
                                        /\ Round(f, blocked)[b] = UNION {f[c] : c \in path}
  <2>1. b \in Reached(f, blocked) /\ b \notin DOMAIN f
    BY <1>1, <1>3
  <2> DEFINE path == CHOOSE path \in Complete(f, b) : TRUE
  <2>2. b \in Beliefs \ (gone \cup blocked) /\ path \in Complete(f, b)
    BY <2>1 DEF Reached
  <2>3. path \in Inputs[b] /\ path # {} /\ path \subseteq DOMAIN f
    BY <2>2 DEF Complete
  <2>4. Round(f, blocked)[b] = UNION {f[c] : c \in path}
    BY <2>1 DEF Round
  <2> HIDE DEF path
  <2> QED
    BY <2>2, <2>3, <2>4
<1> QED
  BY <1>1, <1>2, <1>3

\* What holds of the proofs after any number of rounds.
Sound(f, readable, blocked) ==
  /\ f \in Partial
  /\ \A b \in DOMAIN f : f[b] # {} /\ f[b] \subseteq readable
  /\ \A b \in (Direct \cap readable) \ blocked : b \in DOMAIN f /\ f[b] = {b}
  /\ \A S \in SUBSET Beliefs : Complies(S, readable, blocked) => DOMAIN f \subseteq S
  /\ gone \cap Direct \cap readable = {} => DOMAIN f \cap gone = {}
  /\ DOMAIN f \cap blocked = {}
  /\ Rooted(f)

LEMMA GroundedIsSound ==
  ASSUME NEW readable, NEW blocked
  PROVE  Sound(Grounded(readable, blocked), readable, blocked)
<1> DEFINE f == Grounded(readable, blocked)
<1>1. f \in Partial /\ DOMAIN f = (Direct \cap readable) \ blocked /\ \A b \in DOMAIN f : f[b] = {b}
  BY GroundedIsPartial
<1> HIDE DEF f
<1>2. \A S \in SUBSET Beliefs : Complies(S, readable, blocked) => DOMAIN f \subseteq S
  BY <1>1 DEF Complies
<1>3. Rooted(f)
  <2> DEFINE E == UNION {f[b] : b \in DOMAIN f}
  <2>1. DOMAIN f \subseteq E
    BY <1>1
  <2>2. DOMAIN f \cap Direct \cap E = DOMAIN f
    BY <1>1, <2>1
  <2> HIDE DEF E
  <2>3. \A S \in SUBSET DOMAIN f : DOMAIN f \cap Direct \cap E \subseteq S => S = DOMAIN f
    BY <2>2
  <2> QED
    BY <2>3 DEF Rooted, E
<1>4. \A b \in DOMAIN f : f[b] # {} /\ f[b] \subseteq readable
  BY <1>1
<1>5. /\ \A b \in (Direct \cap readable) \ blocked : b \in DOMAIN f /\ f[b] = {b}
      /\ gone \cap Direct \cap readable = {} => DOMAIN f \cap gone = {}
      /\ DOMAIN f \cap blocked = {}
  BY <1>1
<1> QED
  BY <1>1, <1>2, <1>3, <1>4, <1>5 DEF Sound, f

LEMMA RoundIsSound ==
  ASSUME NEW readable, NEW blocked, NEW f, Sound(f, readable, blocked)
  PROVE  Sound(Round(f, blocked), readable, blocked)
<1> DEFINE h == Round(f, blocked)
<1>0. f \in Partial
  BY DEF Sound
<1>1. h \in Partial
  BY <1>0, RoundIsPartial
<1>2. /\ DOMAIN h = DOMAIN f \cup Reached(f, blocked)
      /\ \A b \in DOMAIN f : h[b] = f[b]
      /\ \A b \in DOMAIN h \ DOMAIN f :
              /\ b \in Beliefs \ (gone \cup blocked)
              /\ \E path \in Inputs[b] : /\ path # {} /\ path \subseteq DOMAIN f
                                         /\ h[b] = UNION {f[c] : c \in path}
  BY <1>0, RoundAdds
<1> HIDE DEF h
<1>3. ASSUME NEW b \in DOMAIN h PROVE h[b] # {} /\ h[b] \subseteq readable
  <2>1. CASE b \in DOMAIN f
    BY <1>2, <2>1 DEF Sound
  <2>2. CASE b \notin DOMAIN f
    <3>1. PICK path \in Inputs[b] : path # {} /\ path \subseteq DOMAIN f /\ h[b] = UNION {f[c] : c \in path}
      BY <1>2, <2>2
    <3>2. \A c \in path : f[c] # {} /\ f[c] \subseteq readable
      BY <3>1 DEF Sound
    <3> QED
      BY <3>1, <3>2
  <2> QED
    BY <2>1, <2>2
<1>4. ASSUME NEW S \in SUBSET Beliefs, Complies(S, readable, blocked) PROVE DOMAIN h \subseteq S
  <2>1. DOMAIN f \subseteq S
    BY <1>4 DEF Sound
  <2>2. ASSUME NEW b \in DOMAIN h, b \notin DOMAIN f PROVE b \in S
    <3>1. b \in Beliefs \ (gone \cup blocked)
      BY <1>2, <2>2
    <3>2. PICK path \in Inputs[b] : path # {} /\ path \subseteq DOMAIN f
      BY <1>2, <2>2
    <3>3. path \subseteq S
      BY <2>1, <3>2
    <3> QED
      BY <1>4, <3>1, <3>2, <3>3 DEF Complies
  <2> QED
    BY <2>1, <2>2
<1>5. Rooted(h)
  <2> DEFINE E == UNION {f[b] : b \in DOMAIN f}
             E2 == UNION {h[b] : b \in DOMAIN h}
  <2>1. DOMAIN f \subseteq DOMAIN h
    BY <1>2
  <2>2. E \subseteq E2
    BY <1>2, <2>1
  <2> HIDE DEF E, E2
  <2>3. SUFFICES ASSUME NEW S \in SUBSET DOMAIN h, DOMAIN h \cap Direct \cap E2 \subseteq S,
                        \A b \in DOMAIN h : \A path \in Inputs[b] : path # {} /\ path \subseteq S => b \in S
                 PROVE  S = DOMAIN h
    BY DEF Rooted, E2
  <2> DEFINE R == S \cap DOMAIN f
  <2>4. R \in SUBSET DOMAIN f /\ DOMAIN f \cap Direct \cap E \subseteq R
    BY <2>1, <2>2, <2>3
  <2>5. \A b \in DOMAIN f : \A path \in Inputs[b] : path # {} /\ path \subseteq R => b \in R
    BY <2>1, <2>3
  <2>6. \A Q \in SUBSET DOMAIN f :
          /\ DOMAIN f \cap Direct \cap E \subseteq Q
          /\ \A b \in DOMAIN f : \A path \in Inputs[b] : path # {} /\ path \subseteq Q => b \in Q
          => Q = DOMAIN f
    BY DEF Sound, Rooted, E
  <2>7. R = DOMAIN f
    <3> HIDE DEF R
    <3> QED
      BY <2>4, <2>5, <2>6
  <2>8. ASSUME NEW b \in DOMAIN h, b \notin DOMAIN f PROVE b \in S
    <3>1. PICK path \in Inputs[b] : path # {} /\ path \subseteq DOMAIN f
      BY <1>2, <2>8
    <3>2. path \subseteq S
      BY <2>7, <3>1
    <3> QED
      BY <2>3, <2>8, <3>1, <3>2
  <2> QED
    BY <2>3, <2>7, <2>8
<1>6. \A b \in (Direct \cap readable) \ blocked : b \in DOMAIN h /\ h[b] = {b}
  BY <1>2 DEF Sound
<1>7. gone \cap Direct \cap readable = {} => DOMAIN h \cap gone = {}
  BY <1>2 DEF Sound
<1>8. DOMAIN h \cap blocked = {}
  BY <1>2 DEF Sound
<1>9. Sound(h, readable, blocked)
  BY <1>1, <1>3, <1>4, <1>5, <1>6, <1>7, <1>8 DEF Sound
<1> QED
  BY <1>9 DEF h

\* A round that reaches nothing new changes nothing.
LEMMA RoundRests ==
  ASSUME NEW f \in Partial, NEW blocked, Reached(f, blocked) \subseteq DOMAIN f
  PROVE  Round(f, blocked) = f
<1>1. f \in [DOMAIN f -> SUBSET Evidence]
  BY PartialIs
<1>2. DOMAIN f \cup Reached(f, blocked) = DOMAIN f
  OBVIOUS
<1>3. Round(f, blocked) =
        [b \in DOMAIN f |-> IF b \in DOMAIN f THEN f[b]
                            ELSE UNION {f[c] : c \in CHOOSE path \in Complete(f, b) : TRUE}]
  BY <1>2 DEF Round
<1>4. Round(f, blocked) = [b \in DOMAIN f |-> f[b]]
  BY <1>3
<1> QED
  BY <1>1, <1>4

\* As many rounds as there are beliefs are enough: until a round rests, each adds one.
LEMMA RoundsSuffice ==
  ASSUME NEW readable, NEW blocked
  PROVE  /\ Sound(Proofs(readable, blocked), readable, blocked)
         /\ Reached(Proofs(readable, blocked), blocked) \subseteq DOMAIN Proofs(readable, blocked)
<1> DEFINE N == Cardinality(Beliefs)
<1>1. N \in Nat
  BY BeliefsAssumption, FS_CardinalityType
<1>2. PICK g \in [0..N -> Partial] : ProofRuns(g, N, readable, blocked) /\ Proofs(readable, blocked) = g[N]
  BY <1>1, ProofsAreRuns
<1>3. g[0] = Grounded(readable, blocked) /\ \A m \in 0..N : m + 1 \in 0..N => g[m + 1] = Round(g[m], blocked)
  <2>1. \A m \in 0..N : m + 1 \in 0..N => m + 1 \in 1..N /\ (m + 1) - 1 = m
    BY <1>1
  <2> QED
    BY <1>2, <2>1 DEF ProofRuns
<1> HIDE DEF N
<1>4. \A m \in 0..N : Sound(g[m], readable, blocked)
  <2> DEFINE T == {m \in 0..N : Sound(g[m], readable, blocked)}
  <2>1. 0 \in T
    BY <1>1, <1>3, GroundedIsSound
  <2>2. ASSUME NEW m \in 0..N, m + 1 \in 0..N, m \in T PROVE m + 1 \in T
    BY <1>3, <2>2, RoundIsSound
  <2>3. 0..N \subseteq T
    <3> HIDE DEF T
    <3> QED
      BY <1>1, <2>1, <2>2, AllRounds
  <2> QED
    BY <2>3
<1> DEFINE Rests(m) == Reached(g[m], blocked) \subseteq DOMAIN g[m]
<1>5. ASSUME NEW n \in 0..N, Rests(n) PROVE Rests(N)
  <2>0. Round(g[n], blocked) = g[n]
    BY <1>2, <1>5, RoundRests
  <2> DEFINE T == {m \in 0..N : m >= n => g[m] = g[n]}
  <2>1. 0 \in T
    BY <1>1
  <2>2. ASSUME NEW m \in 0..N, m + 1 \in 0..N, m \in T PROVE m + 1 \in T
    <3>1. CASE m >= n
      <4>1. g[m] = g[n]
        BY <2>2, <3>1
      <4>2. g[m + 1] = g[n]
        BY <1>3, <2>0, <2>2, <4>1
      <4> QED
        BY <2>2, <4>2
    <3>2. CASE ~(m >= n)
      <4>1. m + 1 >= n => m + 1 = n
        BY <1>1, <3>2
      <4> QED
        BY <2>2, <4>1
    <3> QED
      BY <3>1, <3>2
  <2>3. 0..N \subseteq T
    <3> HIDE DEF T
    <3> QED
      BY <1>1, <2>1, <2>2, AllRounds
  <2>4. N \in 0..N /\ N >= n
    BY <1>1
  <2>5. g[N] = g[n]
    BY <2>3, <2>4
  <2> QED
    BY <1>5, <2>5
<1>6. ASSUME ~Rests(N) PROVE FALSE
  <2>1. \A m \in 0..N : DOMAIN g[m] \subseteq Beliefs
    BY <1>2, PartialIs
  <2>2. \A m \in 0..N : IsFiniteSet(DOMAIN g[m]) /\ Cardinality(DOMAIN g[m]) \in Nat
    BY <2>1, BeliefsAssumption, FS_Subset, FS_CardinalityType
  <2> DEFINE T == {m \in 0..N : Cardinality(DOMAIN g[m]) >= m}
  <2>3. 0 \in T
    BY <1>1, <2>2
  <2>4. ASSUME NEW m \in 0..N, m + 1 \in 0..N, m \in T PROVE m + 1 \in T
    <3>1. ~Rests(m)
      BY <1>5, <1>6
    <3>2. DOMAIN g[m + 1] = DOMAIN g[m] \cup Reached(g[m], blocked)
      <4>1. g[m] \in Partial /\ g[m + 1] = Round(g[m], blocked)
        BY <1>2, <1>3, <2>4
      <4> QED
        BY <4>1, RoundAdds
    <3>3. DOMAIN g[m] \subseteq DOMAIN g[m + 1] /\ DOMAIN g[m] # DOMAIN g[m + 1]
      BY <3>1, <3>2
    <3>4. /\ Cardinality(DOMAIN g[m]) <= Cardinality(DOMAIN g[m + 1])
          /\ Cardinality(DOMAIN g[m]) # Cardinality(DOMAIN g[m + 1])
      BY <2>2, <2>4, <3>3, FS_Subset
    <3>5. Cardinality(DOMAIN g[m]) >= m
      BY <2>4
    <3> QED
      BY <2>2, <2>4, <3>4, <3>5
  <2>5. 0..N \subseteq T
    <3> HIDE DEF T
    <3> QED
      BY <1>1, <2>3, <2>4, AllRounds
  <2>6. N \in 0..N
    BY <1>1
  <2>7. Cardinality(DOMAIN g[N]) >= Cardinality(Beliefs)
    BY <2>5, <2>6 DEF N
  <2>8. Cardinality(DOMAIN g[N]) <= Cardinality(Beliefs)
        /\ (Cardinality(DOMAIN g[N]) = Cardinality(Beliefs) => DOMAIN g[N] = Beliefs)
    BY <2>1, <2>6, BeliefsAssumption, FS_Subset
  <2>9. DOMAIN g[N] = Beliefs
    BY <2>2, <2>6, <2>7, <2>8, FS_CardinalityType, BeliefsAssumption
  <2>10. Reached(g[N], blocked) \subseteq Beliefs
    BY DEF Reached
  <2> QED
    BY <1>6, <2>9, <2>10
<1>7. N \in 0..N
  BY <1>1
<1> QED
  BY <1>2, <1>4, <1>6, <1>7

\* The rounds find a least set: a belief has a proof exactly when it may be read, by
\* readable sources, some, and a proof rests on what it cites.
THEOREM ProofsAreLeast ==
  ASSUME NEW readable, NEW blocked
  PROVE  LET f == Proofs(readable, blocked)
         IN  /\ DOMAIN f = MayBeRead(readable, blocked)
             /\ \A b \in DOMAIN f : f[b] # {} /\ f[b] \subseteq readable
             /\ Rooted(f)
<1> DEFINE f == Proofs(readable, blocked)
<1>1. Sound(f, readable, blocked) /\ Reached(f, blocked) \subseteq DOMAIN f
  BY RoundsSuffice
<1> HIDE DEF f
<1>2. DOMAIN f \subseteq Beliefs
  BY <1>1, PartialIs DEF Sound
<1>3. DOMAIN f \subseteq MayBeRead(readable, blocked)
  BY <1>1, <1>2 DEF Sound, MayBeRead
<1>4. Complies(DOMAIN f, readable, blocked)
  <2>1. (Direct \cap readable) \ blocked \subseteq DOMAIN f
    BY <1>1 DEF Sound
  <2>2. ASSUME NEW b \in Beliefs \ (gone \cup blocked), NEW path \in Inputs[b],
               path # {}, path \subseteq DOMAIN f
        PROVE  b \in DOMAIN f
    <3>1. path \in Complete(f, b)
      BY <2>2 DEF Complete
    <3>2. b \in Reached(f, blocked)
      BY <3>1 DEF Reached
    <3> QED
      BY <1>1, <3>2
  <2> QED
    BY <2>1, <2>2 DEF Complies
<1>5. MayBeRead(readable, blocked) \subseteq DOMAIN f
  BY <1>2, <1>4 DEF MayBeRead
<1> QED
  BY <1>1, <1>3, <1>5 DEF Sound, f

-----------------------------------------------------------------------------
(* A question moves.                                                       *)

\* A question that is not answered has no manifest yet.
LEMMA Unanswered ==
  ASSUME AnswerInv, NEW a \in Asks, ask[a].at # "answered"
  PROVE  manifests[a] = Absent /\ a \notin Recorded
  BY DEF AnswerInv, ManifestsSound, Recorded

\* A step of one question, which may store its packet and leaves everything else alone.
LEMMA QuestionMoves ==
  ASSUME AnswerInv, NEW a \in Asks, NEW t, ask[a].at # "answered",
         ask' = [ask EXCEPT ![a] = t], QuestionType(t), QuestionKnows(t),
         DOMAIN packets' = Asks, \A x \in Asks \ {a} : packets'[x] = packets[x],
         packets'[a] # Absent => PacketType(packets'[a]) /\ PacketOf(packets'[a], t),
         UNCHANGED <<version, erased, gone, removed, manifests, listed, change, erasing>>
  PROVE  AnswerInv'
<1>1. DOMAIN ask' = Asks /\ ask'[a] = t /\ \A x \in Asks \ {a} : ask'[x] = ask[x]
  BY DEF AnswerInv, AnswerTypeOK
<1>2. AnswerTypeOK'
  <2>1. \A x \in Asks : QuestionType(ask'[x])
    BY <1>1 DEF AnswerInv, AnswerTypeOK
  <2>2. \A x \in Asks : packets'[x] # Absent => PacketType(packets'[x])
    BY DEF AnswerInv, AnswerTypeOK
  <2> QED
    BY <1>1, <2>1, <2>2 DEF AnswerInv, AnswerTypeOK
<1>3. QuestionsKnow'
  <2> SUFFICES ASSUME NEW x \in Asks PROVE QuestionKnows(ask[x])'
    BY DEF QuestionsKnow
  <2>1. CASE x = a
    BY <1>1, <2>1 DEF QuestionKnows, PacketSound
  <2>2. CASE x # a
    <3>1. QuestionKnows(ask[x])
      BY DEF AnswerInv, QuestionsKnow
    <3> QED
      BY <1>1, <2>2, <3>1 DEF QuestionKnows, PacketSound
  <2> QED
    BY <2>1, <2>2
<1>4. PacketsStored'
  <2>1. \A x \in Asks : packets'[x] # Absent => PacketOf(packets'[x], ask'[x])
    BY <1>1 DEF AnswerInv, PacketsStored
  <2> QED
    BY <2>1 DEF PacketsStored
<1>5. ManifestsSound'
  <2> SUFFICES ASSUME NEW x \in Asks, manifests[x] # Absent
               PROVE  ask'[x].at = "answered" /\ ManifestSound(manifests[x])'
    BY DEF ManifestsSound
  <2>1. x # a /\ ask[x].at = "answered" /\ ManifestSound(manifests[x])
    BY Unanswered DEF AnswerInv, ManifestsSound
  <2> QED
    BY <1>1, <2>1 DEF ManifestSound
<1>6. ChangesFind' /\ RowsOfAnswers' /\ GoneWithItsEvidence' /\ ChangesListEarlierAnswers'
  BY DEF AnswerInv, ChangesFind, ChangeKnows, RowsOfAnswers, Recorded, GoneWithItsEvidence, ChangesListEarlierAnswers
<1> QED
  BY <1>2, <1>3, <1>4, <1>5, <1>6 DEF AnswerInv

\* ... of which most store nothing.
LEMMA QuestionGoesOn ==
  ASSUME AnswerInv, NEW a \in Asks, NEW t, ask[a].at # "answered",
         ask' = [ask EXCEPT ![a] = t], QuestionType(t), QuestionKnows(t),
         packets[a] # Absent => PacketOf(packets[a], t),
         UNCHANGED <<version, erased, gone, removed, packets, manifests, listed, change, erasing>>
  PROVE  AnswerInv'
<1>1. DOMAIN packets' = Asks /\ \A x \in Asks : packets'[x] = packets[x]
  BY DEF AnswerInv, AnswerTypeOK
<1>2. packets[a] # Absent => PacketType(packets[a])
  BY DEF AnswerInv, AnswerTypeOK
<1> QED
  BY <1>1, <1>2, QuestionMoves

\* What is known of a question.
LEMMA KnownOfQuestion ==
  ASSUME AnswerInv, NEW a \in Asks
  PROVE  /\ QuestionType(ask[a]) /\ QuestionKnows(ask[a])
         /\ packets[a] # Absent => PacketOf(packets[a], ask[a])
  BY DEF AnswerInv, AnswerTypeOK, QuestionsKnow, PacketsStored

\* A question that ends carries nothing.
LEMMA Ended ==
  ASSUME NEW at \in {"refused", "answered"}
  PROVE  QuestionType([at |-> at]) /\ QuestionKnows([at |-> at]) /\ \A p : PacketOf(p, [at |-> at])
  BY DEF QuestionType, QuestionKnows, PacketOf, WithPacket

LEMMA InitHolds == AnswerInit => AnswerInv
<1> SUFFICES ASSUME AnswerInit PROVE AnswerInv
  OBVIOUS
<1> USE DEF AnswerInit
<1>1. AnswerTypeOK
  BY DEF AnswerTypeOK, QuestionType, Fresh, Closed, ChangeTypes, WithPacket
<1>2. QuestionsKnow
  BY DEF QuestionsKnow, QuestionKnows, Fresh, WithPacket
<1>3. PacketsStored /\ ManifestsSound
  BY DEF PacketsStored, ManifestsSound
<1>4. ChangesFind /\ RowsOfAnswers /\ GoneWithItsEvidence /\ ChangesListEarlierAnswers
  BY DEF ChangesFind, ChangeKnows, RowsOfAnswers, GoneWithItsEvidence, ChangesListEarlierAnswers, Closed
<1> QED
  BY <1>1, <1>2, <1>3, <1>4 DEF AnswerInv

LEMMA AuthorizeKeeps == ASSUME AnswerInv, NEW a \in Asks, Authorize(a) PROVE AnswerInv'
<1>1. ask[a].at = "idle" /\ (packets[a] # Absent => FALSE)
  BY KnownOfQuestion DEF Authorize, PacketOf
<1>2. CASE Live # {} /\ Live \subseteq Unadmitted
  <2> DEFINE t == [at |-> "refused"]
  <2>1. ask' = [ask EXCEPT ![a] = t]
    BY <1>2 DEF Authorize
  <2>2. QuestionType(t) /\ QuestionKnows(t)
    BY Ended
  <2> HIDE DEF t
  <2> QED
    BY <1>1, <2>1, <2>2, QuestionGoesOn DEF Authorize
<1>3. CASE ~(Live # {} /\ Live \subseteq Unadmitted)
  <2> DEFINE t == [at |-> "authorized", admitted |-> Live \ Unadmitted, withheld |-> Live \cap Unadmitted]
  <2>1. ask' = [ask EXCEPT ![a] = t]
    BY <1>3 DEF Authorize
  <2>2. QuestionType(t)
    BY DEF QuestionType, WithPacket, Live
  <2>3. QuestionKnows(t)
    BY DEF QuestionKnows, WithPacket
  <2> HIDE DEF t
  <2> QED
    BY <1>1, <2>1, <2>2, <2>3, QuestionGoesOn DEF Authorize
<1> QED
  BY <1>2, <1>3

LEMMA ReadRemovalsKeeps == ASSUME AnswerInv, NEW a \in Asks, ReadRemovals(a) PROVE AnswerInv'
<1>1. ask[a].at = "authorized" /\ (packets[a] # Absent => FALSE)
  BY KnownOfQuestion DEF ReadRemovals, PacketOf
<1>2. ask[a].admitted \subseteq Evidence /\ ask[a].withheld \subseteq Evidence /\ ask[a].admitted \cap Unadmitted = {}
  BY <1>1, KnownOfQuestion DEF QuestionType, QuestionKnows
<1> DEFINE t == [at |-> "reading", admitted |-> ask[a].admitted, withheld |-> ask[a].withheld, hidden |-> removed]
<1>3. ask' = [ask EXCEPT ![a] = t]
  BY DEF ReadRemovals, AnswerInv, AnswerTypeOK
<1>4. QuestionType(t)
  BY <1>2 DEF QuestionType, WithPacket, AnswerInv, AnswerTypeOK
<1>5. QuestionKnows(t)
  BY <1>2 DEF QuestionKnows, WithPacket
<1> HIDE DEF t
<1> QED
  BY <1>1, <1>3, <1>4, <1>5, QuestionGoesOn DEF ReadRemovals

LEMMA ReadBeliefsKeeps == ASSUME AnswerInv, NEW a \in Asks, ReadBeliefs(a) PROVE AnswerInv'
<1> DEFINE readable == ask[a].admitted \ erased
           hidden == ask[a].hidden
           f == Proofs(readable, hidden)
           stands == [b \in DOMAIN f |-> version[b]]
           withheld == ask[a].withheld \cup ((Beliefs \ (gone \cup hidden)) \ DOMAIN f)
           packet == [cites |-> f, stands |-> stands, withheld |-> withheld]
           t == [at |-> "read", packet |-> packet]
<1>1. ask[a].at = "reading" /\ (packets[a] # Absent => FALSE)
  BY KnownOfQuestion DEF ReadBeliefs, PacketOf
<1>2. /\ ask[a].admitted \subseteq Evidence /\ ask[a].withheld \subseteq Evidence
      /\ ask[a].admitted \cap Unadmitted = {}
  BY <1>1, KnownOfQuestion DEF QuestionType, QuestionKnows
<1>3. ask' = [ask EXCEPT ![a] = t]
  BY DEF ReadBeliefs, AnswerInv, AnswerTypeOK
<1>4. Sound(f, readable, hidden)
  BY RoundsSuffice
<1>5. readable \subseteq Evidence /\ readable \cap Unadmitted = {} /\ readable \cap erased = {}
  BY <1>2
<1>6. gone \cap Direct \cap readable = {}
  BY <1>5 DEF AnswerInv, GoneWithItsEvidence
<1> HIDE DEF f, readable, hidden
<1>7. f \in [DOMAIN f -> SUBSET Evidence] /\ DOMAIN f \subseteq Beliefs
  BY <1>4, PartialIs DEF Sound
<1>8. stands \in [DOMAIN f -> Nat] /\ \A b \in DOMAIN f : stands[b] <= version[b]
  <2>1. \A b \in DOMAIN f : version[b] \in Nat /\ version[b] <= version[b]
    BY <1>7 DEF AnswerInv, AnswerTypeOK
  <2> QED
    BY <2>1
<1>9. withheld \subseteq Beliefs
  BY <1>2, BeliefsAssumption DEF Evidence
<1> HIDE DEF stands, withheld
<1>10. PacketType(packet)
  BY <1>7, <1>8, <1>9 DEF PacketType
<1>11. PacketSound(packet)
  <2>1. Supplied(packet) = DOMAIN f /\ Cited(packet) \subseteq readable
    BY <1>4 DEF Supplied, Cited, Sound
  <2>2. Rooted(packet.cites)
    BY <1>4 DEF Sound
  <2>3. DOMAIN f \cap gone = {}
    BY <1>4, <1>6 DEF Sound
  <2>4. \A b \in Supplied(packet) : packet.stands[b] <= version[b]
    BY <1>8, <2>1
  <2> QED
    BY <1>5, <2>1, <2>2, <2>3, <2>4 DEF PacketSound
<1> HIDE DEF packet
<1>12. QuestionType(t) /\ QuestionKnows(t)
  BY <1>10, <1>11 DEF QuestionType, QuestionKnows, WithPacket
<1> HIDE DEF t
<1> QED
  BY <1>1, <1>3, <1>12, QuestionGoesOn DEF ReadBeliefs

LEMMA StorePacketKeeps == ASSUME AnswerInv, NEW a \in Asks, StorePacket(a) PROVE AnswerInv'
<1> DEFINE p == ask[a].packet
           t == [at |-> "phrasing", packet |-> p, attempts |-> 0, verdict |-> "PASSED"]
<1>1. ask[a].at = "read"
  BY DEF StorePacket
<1>2. PacketType(p) /\ PacketSound(p)
  BY <1>1, KnownOfQuestion DEF QuestionType, QuestionKnows, WithPacket
<1>3. ask' = [ask EXCEPT ![a] = t]
  BY DEF StorePacket, AnswerInv, AnswerTypeOK
<1>4. DOMAIN packets' = Asks /\ packets'[a] = p /\ \A x \in Asks \ {a} : packets'[x] = packets[x]
  BY DEF StorePacket, AnswerInv, AnswerTypeOK
<1> HIDE DEF p
<1>5. QuestionType(t) /\ QuestionKnows(t) /\ PacketOf(p, t)
  BY <1>2, AttemptsAssumption DEF QuestionType, QuestionKnows, PacketOf, WithPacket
<1> HIDE DEF t
<1> QED
  BY <1>1, <1>2, <1>3, <1>4, <1>5, QuestionMoves DEF StorePacket

\* A packet that is spoken from, and what is said of it.
LEMMA PhrasingOf ==
  ASSUME AnswerInv, NEW a \in Asks, ask[a].at = "phrasing"
  PROVE  /\ PacketType(ask[a].packet) /\ PacketSound(ask[a].packet)
         /\ ask[a].attempts \in 0..MaxAttempts /\ ask[a].verdict \in {"PASSED", "REGENERATE"}
         /\ ask[a] = [at |-> "phrasing", packet |-> ask[a].packet, attempts |-> ask[a].attempts,
                      verdict |-> ask[a].verdict]
         /\ packets[a] # Absent => packets[a] = ask[a].packet
  BY KnownOfQuestion DEF QuestionType, QuestionKnows, PacketOf, WithPacket

LEMMA PresentsKnows ==
  ASSUME AnswerInv, NEW a \in Asks, ask[a].at = "phrasing", NEW names \in SUBSET Beliefs,
         NEW judged \in {"PASSED", "DOWNGRADED", "BLOCKED"},
         judged # "BLOCKED" => names \subseteq Supplied(ask[a].packet)
  PROVE  /\ QuestionType(Presents(a, names, judged)) /\ QuestionKnows(Presents(a, names, judged))
         /\ packets[a] # Absent => PacketOf(packets[a], Presents(a, names, judged))
<1> DEFINE t == Presents(a, names, judged)
<1>1. /\ t = [at |-> "presented", packet |-> ask[a].packet, says |-> t.says, action |-> t.action]
      /\ t.says = (IF judged = "BLOCKED" THEN {} ELSE names) /\ t.action \in GroundingActions
  BY DEF Presents, Action, GroundingActions
<1> HIDE DEF t
<1>2. t.at = "presented" /\ t.packet = ask[a].packet /\ t.says \subseteq Supplied(t.packet) /\ t.says \subseteq Beliefs
  BY <1>1
<1>3. QuestionType(t)
  BY <1>1, <1>2, PhrasingOf DEF QuestionType
<1>4. QuestionKnows(t)
  BY <1>2, PhrasingOf DEF QuestionKnows
<1>5. packets[a] # Absent => PacketOf(packets[a], t)
  BY <1>2, PhrasingOf DEF PacketOf
<1> QED
  BY <1>3, <1>4, <1>5 DEF t

\* Grounding passes only what names something supplied.
LEMMA GroundedNames ==
  ASSUME NEW packet, NEW names, NEW worded
  PROVE  /\ Validate(packet, names, worded) \in {"PASSED", "DOWNGRADED", "BLOCKED", "REGENERATE"}
         /\ Validate(packet, names, worded) \in {"PASSED", "DOWNGRADED"} => names \subseteq Supplied(packet)
<1>1. CASE names \cap packet.withheld # {}
  BY <1>1 DEF Validate
<1>2. CASE names \cap packet.withheld = {}
  <2>1. CASE ~(names \subseteq DOMAIN packet.cites) \/ names = {} \/ worded = "current"
    BY <1>2, <2>1 DEF Validate
  <2>2. CASE ~(~(names \subseteq DOMAIN packet.cites) \/ names = {} \/ worded = "current")
    BY <1>2, <2>2 DEF Validate, Supplied
  <2> QED
    BY <2>1, <2>2
<1> QED
  BY <1>1, <1>2

\* A question whose answer has been checked.
LEMMA Checked ==
  ASSUME NEW at, NEW p, NEW s, NEW v, NEW w, NEW d
  PROVE  [[at |-> at, packet |-> p, says |-> s, action |-> v, withdrawn |-> w, dead |-> d] EXCEPT !.at = "recorded"]
           = [at |-> "recorded", packet |-> p, says |-> s, action |-> v, withdrawn |-> w, dead |-> d]
  OBVIOUS

LEMMA PhraseKeeps ==
  ASSUME AnswerInv, NEW a \in Asks, NEW names \in SUBSET Beliefs, NEW worded, Phrase(a, names, worded)
  PROVE  AnswerInv'
<1> DEFINE judged == Validate(ask[a].packet, names, worded)
<1>1. ask[a].at = "phrasing" /\ ask[a].attempts < MaxAttempts
  BY DEF Phrase
<1>2. /\ judged \in {"PASSED", "DOWNGRADED", "BLOCKED", "REGENERATE"}
      /\ judged \in {"PASSED", "DOWNGRADED"} => names \subseteq Supplied(ask[a].packet)
  BY GroundedNames
<1>3. ask' = [ask EXCEPT ![a] = IF judged = "REGENERATE" THEN AskedAgain(a) ELSE Presents(a, names, judged)]
  BY DEF Phrase
<1> HIDE DEF judged
<1>4. CASE judged = "REGENERATE"
  <2> DEFINE t == AskedAgain(a)
  <2>2. ask' = [ask EXCEPT ![a] = t]
    BY <1>3, <1>4
  <2>3. ask[a].attempts + 1 \in 0..MaxAttempts
    <3>1. ask[a].attempts \in 0..MaxAttempts
      BY <1>1, PhrasingOf
    <3> QED
      BY <1>1, <3>1, AttemptsAssumption
  <2>4. QuestionType(t)
    BY <1>1, <2>3, PhrasingOf DEF QuestionType, AskedAgain
  <2>5. QuestionKnows(t)
    BY <1>1, PhrasingOf DEF QuestionKnows, AskedAgain
  <2>6. packets[a] # Absent => PacketOf(packets[a], t)
    BY <1>1, PhrasingOf DEF PacketOf, AskedAgain
  <2> HIDE DEF t
  <2> QED
    BY <1>1, <2>2, <2>4, <2>5, <2>6, QuestionGoesOn DEF Phrase
<1>5. CASE judged # "REGENERATE"
  <2> DEFINE t == Presents(a, names, judged)
  <2>1. ask' = [ask EXCEPT ![a] = t]
    BY <1>3, <1>5
  <2>2. QuestionType(t) /\ QuestionKnows(t) /\ (packets[a] # Absent => PacketOf(packets[a], t))
    BY <1>1, <1>2, <1>5, PresentsKnows
  <2> HIDE DEF t
  <2> QED
    BY <1>1, <2>1, <2>2, QuestionGoesOn DEF Phrase
<1> QED
  BY <1>4, <1>5

LEMMA ComposeKeeps == ASSUME AnswerInv, NEW a \in Asks, Compose(a) PROVE AnswerInv'
<1> DEFINE names == DOMAIN ask[a].packet.cites
           t == Presents(a, names, "PASSED")
<1>1. ask[a].at = "phrasing" /\ ask' = [ask EXCEPT ![a] = t]
  BY DEF Compose
<1>2. names \in SUBSET Beliefs /\ names \subseteq Supplied(ask[a].packet)
  BY <1>1, PhrasingOf DEF PacketType, Supplied
<1>3. QuestionType(t) /\ QuestionKnows(t) /\ (packets[a] # Absent => PacketOf(packets[a], t))
  <2> HIDE DEF names
  <2> QED
    BY <1>1, <1>2, PresentsKnows
<1> HIDE DEF t
<1> QED
  BY <1>1, <1>3, QuestionGoesOn DEF Compose

LEMMA BeginRecordKeeps == ASSUME AnswerInv, NEW a \in Asks, BeginRecord(a) PROVE AnswerInv'
<1> DEFINE q == ask[a]
           t == [at |-> "recording", packet |-> q.packet, says |-> q.says, action |-> q.action,
                 withdrawn |-> gone \cup removed, dead |-> erased]
<1>1. q.at = "presented"
  BY DEF BeginRecord
<1>2. ask' = [ask EXCEPT ![a] = t]
  BY DEF BeginRecord, AnswerInv, AnswerTypeOK
<1>3. /\ PacketType(q.packet) /\ PacketSound(q.packet) /\ q.says \subseteq Supplied(q.packet)
      /\ q.says \subseteq Beliefs /\ q.action \in GroundingActions
      /\ packets[a] # Absent => packets[a] = q.packet
  BY <1>1, KnownOfQuestion DEF QuestionType, QuestionKnows, PacketOf, WithPacket
<1> HIDE DEF q
<1>4. gone \cup removed \subseteq Beliefs /\ erased \subseteq Evidence
  BY DEF AnswerInv, AnswerTypeOK
<1>5. QuestionType(t)
  BY <1>3, <1>4 DEF QuestionType
<1>6. QuestionKnows(t) /\ (packets[a] # Absent => PacketOf(packets[a], t))
  BY <1>3 DEF QuestionKnows, PacketOf
<1> HIDE DEF t
<1> QED
  BY <1>1, <1>2, <1>5, <1>6, QuestionGoesOn DEF BeginRecord, q

\* An answer that is being recorded.
LEMMA RecordingOf ==
  ASSUME AnswerInv, NEW a \in Asks, ask[a].at \in {"recording", "recorded"}
  PROVE  /\ PacketType(ask[a].packet) /\ PacketSound(ask[a].packet)
         /\ ask[a].says \subseteq Supplied(ask[a].packet) /\ ask[a].says \subseteq Beliefs
         /\ ask[a].withdrawn \subseteq gone \cup removed /\ ask[a].dead \subseteq erased
         /\ ask[a].withdrawn \subseteq Beliefs /\ ask[a].dead \subseteq Evidence /\ ask[a].action \in GroundingActions
         /\ ask[a] = [at |-> ask[a].at, packet |-> ask[a].packet, says |-> ask[a].says, action |-> ask[a].action,
                      withdrawn |-> ask[a].withdrawn, dead |-> ask[a].dead]
         /\ ask[a].at = "recorded" =>
              Supplied(ask[a].packet) \cap ask[a].withdrawn = {} /\ Cited(ask[a].packet) \cap ask[a].dead = {}
         /\ packets[a] # Absent => packets[a] = ask[a].packet
  BY KnownOfQuestion DEF QuestionType, QuestionKnows, PacketOf, WithPacket

\* The stored packet is still accessible: what it cites is there, and so is, and has not
\* been removed, what it supplies.
LEMMA RecheckKeeps == ASSUME AnswerInv, NEW a \in Asks, Recheck(a) PROVE AnswerInv'
<1>1. ask[a].at = "recording"
  BY DEF Recheck
<1>2. CASE Accessible(a)
  <2> DEFINE q == ask[a]
             t == [at |-> "recorded", packet |-> q.packet, says |-> q.says, action |-> q.action,
                   withdrawn |-> q.withdrawn, dead |-> q.dead]
  <2>1. [ask[a] EXCEPT !.at = "recorded"] = t
    <3>1. q = [at |-> q.at, packet |-> q.packet, says |-> q.says, action |-> q.action,
               withdrawn |-> q.withdrawn, dead |-> q.dead]
      BY <1>1, RecordingOf
    <3>2. [[at |-> q.at, packet |-> q.packet, says |-> q.says, action |-> q.action,
            withdrawn |-> q.withdrawn, dead |-> q.dead] EXCEPT !.at = "recorded"] = t
      BY Checked
    <3> HIDE DEF q
    <3> QED
      BY <3>1, <3>2 DEF q
  <2>2. ask' = [ask EXCEPT ![a] = t]
    BY <1>2, <2>1 DEF Recheck, AnswerInv, AnswerTypeOK
  <2>3. packets[a] # Absent /\ packets[a] = q.packet
    BY <1>1, <1>2, RecordingOf DEF Accessible
  <2>4. Cited(q.packet) \cap erased = {} /\ Supplied(q.packet) \cap removed = {}
    BY <1>2, <2>3 DEF Accessible
  <2>5. Supplied(q.packet) \cap gone = {}
    BY <1>1, <2>4, RecordingOf DEF PacketSound
  <2>6. Supplied(q.packet) \cap q.withdrawn = {} /\ Cited(q.packet) \cap q.dead = {}
    BY <1>1, <2>4, <2>5, RecordingOf
  <2>7. QuestionType(t)
    BY <1>1, RecordingOf DEF QuestionType
  <2>8. QuestionKnows(t)
    BY <1>1, <2>6, RecordingOf DEF QuestionKnows
  <2>9. packets[a] # Absent => PacketOf(packets[a], t)
    BY <2>3 DEF PacketOf
  <2> HIDE DEF q, t
  <2> QED
    BY <1>1, <2>2, <2>7, <2>8, <2>9, QuestionGoesOn DEF Recheck
<1>3. CASE ~Accessible(a)
  <2> DEFINE t == [at |-> "refused"]
  <2>1. ask' = [ask EXCEPT ![a] = t]
    BY <1>3 DEF Recheck
  <2>2. QuestionType(t) /\ QuestionKnows(t) /\ \A p : PacketOf(p, t)
    BY Ended
  <2> HIDE DEF t
  <2> QED
    BY <1>1, <2>1, <2>2, QuestionGoesOn DEF Recheck
<1> QED
  BY <1>2, <1>3

LEMMA AbandonKeeps == ASSUME AnswerInv, NEW a \in Asks, Abandon(a) PROVE AnswerInv'
<1> DEFINE t == [at |-> "refused"]
<1>1. ask' = [ask EXCEPT ![a] = t] /\ ask[a].at # "answered"
  BY DEF Abandon
<1>2. QuestionType(t) /\ QuestionKnows(t) /\ \A p : PacketOf(p, t)
  BY Ended
<1> HIDE DEF t
<1> QED
  BY <1>1, <1>2, QuestionGoesOn DEF Abandon

\* The manifest is new: no change has looked for it yet.
LEMMA CommitRecordKeeps == ASSUME AnswerInv, NEW a \in Asks, CommitRecord(a) PROVE AnswerInv'
<1> DEFINE q == ask[a]
           m == [supplied |-> Supplied(q.packet), says |-> q.says, packet |-> q.packet,
                 withdrawn |-> q.withdrawn, dead |-> q.dead]
           t == [at |-> "answered"]
<1>1. q.at = "recorded" /\ ask' = [ask EXCEPT ![a] = t]
  BY DEF CommitRecord
<1>2. manifests' = [manifests EXCEPT ![a] = m]
  BY DEF CommitRecord, AnswerInv, AnswerTypeOK
<1>3. /\ DOMAIN manifests' = Asks /\ manifests'[a] = m /\ \A x \in Asks \ {a} : manifests'[x] = manifests[x]
      /\ DOMAIN ask' = Asks /\ ask'[a] = t /\ \A x \in Asks \ {a} : ask'[x] = ask[x]
  BY <1>1, <1>2 DEF AnswerInv, AnswerTypeOK
<1>4. manifests[a] = Absent /\ a \notin Recorded
  BY <1>1, Unanswered
<1>5. UNCHANGED <<version, erased, gone, removed, packets, listed, change, erasing>>
  BY DEF CommitRecord
<1>6. ManifestType(m) /\ ManifestSound(m)
  <2>1. Supplied(q.packet) \subseteq Beliefs
    BY <1>1, RecordingOf DEF Supplied, PacketType
  <2>2. ManifestType(m)
    BY <1>1, <2>1, RecordingOf DEF ManifestType
  <2>3. Cited(q.packet) \cap Unadmitted = {} /\ \A b \in Supplied(q.packet) : q.packet.stands[b] <= version[b]
    BY <1>1, RecordingOf DEF PacketSound
  <2>4. ManifestSound(m)
    BY <1>1, <2>3, RecordingOf DEF ManifestSound
  <2> QED
    BY <2>2, <2>4
<1> HIDE DEF q, m
<1>7. Recorded \subseteq Recorded' /\ Recorded' \subseteq Recorded \cup {a}
  BY <1>3, <1>4 DEF Recorded
<1>8. AnswerTypeOK'
  <2>1. \A x \in Asks : QuestionType(ask'[x])
    BY <1>3, Ended DEF AnswerInv, AnswerTypeOK
  <2>2. \A x \in Asks : manifests'[x] # Absent => ManifestType(manifests'[x])
    BY <1>3, <1>6 DEF AnswerInv, AnswerTypeOK
  <2> QED
    BY <1>3, <1>5, <2>1, <2>2 DEF AnswerInv, AnswerTypeOK
<1>9. QuestionsKnow'
  <2> SUFFICES ASSUME NEW x \in Asks PROVE QuestionKnows(ask[x])'
    BY DEF QuestionsKnow
  <2>1. CASE x = a
    BY <1>3, <2>1 DEF QuestionKnows, WithPacket
  <2>2. CASE x # a
    <3>1. QuestionKnows(ask[x])
      BY DEF AnswerInv, QuestionsKnow
    <3> QED
      BY <1>3, <1>5, <2>2, <3>1 DEF QuestionKnows, PacketSound
  <2> QED
    BY <2>1, <2>2
<1>10. PacketsStored'
  <2>1. \A x \in Asks : packets[x] # Absent => PacketOf(packets[x], ask'[x])
    BY <1>3, Ended DEF AnswerInv, PacketsStored
  <2> QED
    BY <1>5, <2>1 DEF PacketsStored
<1>11. ManifestsSound'
  <2> SUFFICES ASSUME NEW x \in Asks, manifests'[x] # Absent
               PROVE  ask'[x].at = "answered" /\ ManifestSound(manifests[x])'
    BY DEF ManifestsSound
  <2>1. CASE x = a
    BY <1>3, <1>5, <1>6, <2>1 DEF ManifestSound
  <2>2. CASE x # a
    <3>1. ask[x].at = "answered" /\ ManifestSound(manifests[x])
      BY <1>3, <2>2 DEF AnswerInv, ManifestsSound
    <3> QED
      BY <1>3, <1>5, <2>2, <3>1 DEF ManifestSound
  <2> QED
    BY <2>1, <2>2
<1>12. \A c \in Changes : /\ change[c].at # "closed" => a \notin change[c].done
                          /\ change[c].at = "written" => a \notin change[c].found
  BY <1>4 DEF AnswerInv, ChangesFind, ChangeKnows
<1>13. \A row \in listed : row[1] \in Recorded /\ row[1] # a
  BY <1>4 DEF AnswerInv, RowsOfAnswers
<1>14. ChangesFind'
  <2> SUFFICES ASSUME NEW c \in Changes
               PROVE  /\ change[c].at # "closed" => change[c].done \subseteq Recorded'
                      /\ change[c].at = "open" => change[c].done \subseteq change[c].earlier
                      /\ change[c].at = "written" =>
                           /\ change[c].found \subseteq {x \in Recorded' : change[c].belief \in manifests'[x].supplied}
                           /\ \A x \in change[c].done :
                                change[c].belief \in manifests'[x].supplied => x \in change[c].found
    BY <1>5 DEF ChangesFind, ChangeKnows
  <2>1. /\ change[c].at # "closed" => change[c].done \subseteq Recorded
        /\ change[c].at = "open" => change[c].done \subseteq change[c].earlier
        /\ change[c].at = "written" =>
             /\ change[c].found \subseteq {x \in Recorded : change[c].belief \in manifests[x].supplied}
             /\ \A x \in change[c].done : change[c].belief \in manifests[x].supplied => x \in change[c].found
    BY DEF AnswerInv, ChangesFind, ChangeKnows
  <2>2. Recorded \subseteq Asks
    BY DEF Recorded
  <2> QED
    BY <1>3, <1>7, <1>12, <2>1, <2>2
<1>15. RowsOfAnswers'
  <2>1. \A row \in listed : row[1] \in Asks
    BY <1>13 DEF Recorded
  <2> QED
    BY <1>3, <1>5, <1>7, <1>13, <2>1 DEF AnswerInv, RowsOfAnswers
<1>16. ChangesListEarlierAnswers'
  <2> SUFFICES ASSUME NEW x \in Asks, manifests'[x] # Absent
               PROVE  /\ \A c \in Changes :
                           change[c].at = "done" /\ x \in change[c].done /\ change[c].belief \in manifests'[x].supplied =>
                             <<x, change[c].belief, change[c].to>> \in listed
                      /\ \A row \in listed : row[1] = x => manifests'[x].packet.stands[row[2]] < row[3]
    BY <1>5 DEF ChangesListEarlierAnswers
  <2>1. CASE x = a
    BY <1>12, <1>13, <2>1
  <2>2. CASE x # a
    BY <1>3, <2>2 DEF AnswerInv, ChangesListEarlierAnswers
  <2> QED
    BY <2>1, <2>2
<1>17. GoneWithItsEvidence'
  BY <1>5 DEF AnswerInv, GoneWithItsEvidence
<1> QED
  BY <1>8, <1>9, <1>10, <1>11, <1>14, <1>15, <1>16, <1>17 DEF AnswerInv

-----------------------------------------------------------------------------
(* A belief changes.                                                       *)

\* A step of one change that is not its last.
LEMMA ChangeMoves ==
  ASSUME AnswerInv, NEW c \in Changes, NEW t \in ChangeTypes, t.at \in {"open", "written"}, ChangeKnows(t),
         change' = [change EXCEPT ![c] = t],
         UNCHANGED <<version, erased, gone, removed, ask, packets, manifests, listed, erasing>>
  PROVE  AnswerInv'
<1>1. change'[c] = t /\ \A x \in Changes \ {c} : change'[x] = change[x]
  BY DEF AnswerInv, AnswerTypeOK
<1>2. AnswerTypeOK'
  BY DEF AnswerInv, AnswerTypeOK
<1>3. QuestionsKnow' /\ PacketsStored'
  BY DEF AnswerInv, QuestionsKnow, QuestionKnows, PacketSound, PacketsStored
<1>4. ManifestsSound' /\ RowsOfAnswers' /\ GoneWithItsEvidence'
  BY DEF AnswerInv, ManifestsSound, ManifestSound, RowsOfAnswers, Recorded, GoneWithItsEvidence
<1>5. ChangesFind'
  <2> SUFFICES ASSUME NEW x \in Changes PROVE ChangeKnows(change[x])'
    BY DEF ChangesFind
  <2>1. CASE x = c
    BY <1>1, <2>1 DEF ChangeKnows, Recorded
  <2>2. CASE x # c
    <3>1. ChangeKnows(change[x])
      BY DEF AnswerInv, ChangesFind
    <3> QED
      BY <1>1, <2>2, <3>1 DEF ChangeKnows, Recorded
  <2> QED
    BY <2>1, <2>2
<1>6. ChangesListEarlierAnswers'
  <2>1. \A x \in Changes : change'[x].at = "done" => change'[x] = change[x]
    BY <1>1
  <2> QED
    BY <2>1 DEF AnswerInv, ChangesListEarlierAnswers
<1> QED
  BY <1>2, <1>3, <1>4, <1>5, <1>6 DEF AnswerInv

LEMMA BeginChangeKeeps ==
  ASSUME AnswerInv, NEW c \in Changes, NEW b \in Touched, BeginChange(c, b)
  PROVE  AnswerInv'
<1> DEFINE t == [at |-> "open", belief |-> b, earlier |-> Recording, done |-> Recorded]
<1>1. change' = [change EXCEPT ![c] = t]
  BY DEF BeginChange
<1>2. t \in ChangeTypes
  BY BeliefsAssumption DEF ChangeTypes, Recording, Recorded
<1>3. ChangeKnows(t) /\ t.at = "open"
  BY DEF ChangeKnows, Recording, Recorded
<1> HIDE DEF t
<1> QED
  BY <1>1, <1>2, <1>3, ChangeMoves DEF BeginChange

\* What is known of a change.
LEMMA KnownOfChange ==
  ASSUME AnswerInv, NEW c \in Changes
  PROVE  /\ change[c].at \in {"open", "written"} => change[c].belief \in Beliefs /\ change[c].done \subseteq Recorded
         /\ change[c].at = "open" => change[c].earlier \subseteq Asks /\ change[c].done \subseteq change[c].earlier
         /\ change[c].at = "written" =>
              /\ change[c].found \subseteq {a \in Recorded : change[c].belief \in manifests[a].supplied}
              /\ \A a \in change[c].done : change[c].belief \in manifests[a].supplied => a \in change[c].found
<1>1. change[c] \in ChangeTypes /\ ChangeKnows(change[c])
  BY DEF AnswerInv, AnswerTypeOK, ChangesFind
<1>2. change[c].at \in {"open", "written"} => change[c].belief \in Beliefs
  BY <1>1 DEF ChangeTypes
<1>3. change[c].at = "open" => change[c].earlier \subseteq Asks
  BY <1>1 DEF ChangeTypes
<1> QED
  BY <1>1, <1>2, <1>3 DEF ChangeKnows

\* It finds what was recorded before it, which had begun by then.
LEMMA WriteChangeKeeps == ASSUME AnswerInv, NEW c \in Changes, WriteChange(c) PROVE AnswerInv'
<1> DEFINE moved == change[c].belief
           done == change[c].done
           found == {a \in Recorded \cap change[c].earlier : Contains(a, moved)}
           t == [at |-> "written", belief |-> moved, done |-> done, found |-> found]
<1>1. change[c].at = "open"
  BY DEF WriteChange
<1>2. change' = [change EXCEPT ![c] = t]
  BY DEF WriteChange, AnswerInv, AnswerTypeOK
<1>3. moved \in Beliefs /\ done \subseteq Recorded /\ done \subseteq change[c].earlier
  BY <1>1, KnownOfChange
<1>4. /\ found \subseteq {a \in Recorded : moved \in manifests[a].supplied}
      /\ \A a \in done : moved \in manifests[a].supplied => a \in found
  BY <1>3 DEF Contains
<1> HIDE DEF moved, done, found
<1>5. t \in ChangeTypes
  BY <1>3, <1>4 DEF ChangeTypes, Recorded
<1>6. ChangeKnows(t) /\ t.at = "written"
  BY <1>3, <1>4 DEF ChangeKnows
<1> HIDE DEF t
<1> QED
  BY <1>2, <1>5, <1>6, ChangeMoves DEF WriteChange

\* The new version is newer than what any packet saw, and its rows are the answers found.
LEMMA CommitChangeKeeps == ASSUME AnswerInv, NEW c \in Changes, CommitChange(c) PROVE AnswerInv'
<1> DEFINE moved == change[c].belief
           done == change[c].done
           found == change[c].found
           to == version[moved] + 1
           t == [at |-> "done", belief |-> moved, done |-> done, to |-> to]
<1>1. /\ change[c].at = "written"
      /\ version' = [version EXCEPT ![moved] = to]
      /\ listed' = listed \cup {<<a, moved, to>> : a \in found}
      /\ change' = [change EXCEPT ![c] = t]
  BY DEF CommitChange, AnswerInv, AnswerTypeOK
<1>2. UNCHANGED <<erased, gone, removed, ask, packets, manifests, erasing>>
  BY DEF CommitChange
<1>3. /\ moved \in Beliefs /\ done \subseteq Recorded
      /\ found \subseteq {a \in Recorded : moved \in manifests[a].supplied}
      /\ \A a \in done : moved \in manifests[a].supplied => a \in found
  BY <1>1, KnownOfChange
<1>4. version[moved] \in Nat /\ to \in Nat /\ version[moved] < to
  BY <1>3 DEF AnswerInv, AnswerTypeOK
<1>5. version' \in [Beliefs -> Nat] /\ \A b \in Beliefs : version[b] <= version'[b]
  <2>1. version \in [Beliefs -> Nat]
    BY DEF AnswerInv, AnswerTypeOK
  <2> HIDE DEF moved, to, t
  <2>2. version' \in [Beliefs -> Nat]
    BY <1>1, <1>4, <2>1
  <2>3. ASSUME NEW b \in Beliefs PROVE version[b] <= version'[b]
    <3>1. CASE b = moved
      <4>1. version'[b] = to
        BY <1>1, <2>1, <3>1
      <4> QED
        BY <1>4, <3>1, <4>1
    <3>2. CASE b # moved
      BY <1>1, <2>1, <3>2
    <3> QED
      BY <3>1, <3>2
  <2> QED
    BY <2>2, <2>3
<1>6. Recorded' = Recorded /\ Recorded \subseteq Asks
  BY <1>2 DEF Recorded
<1> HIDE DEF moved, done, found, to
<1>7. /\ change'[c] = t /\ \A x \in Changes \ {c} : change'[x] = change[x]
      /\ t \in ChangeTypes
  BY <1>1, <1>3, <1>4, <1>6 DEF AnswerInv, AnswerTypeOK, ChangeTypes
<1>8. \A row \in listed' : row \in listed \/ \E a \in found : row = <<a, moved, to>>
  BY <1>1
<1>9. AnswerTypeOK'
  <2>1. listed' \subseteq Asks \X Beliefs \X Nat
    BY <1>1, <1>3, <1>4, <1>6 DEF AnswerInv, AnswerTypeOK
  <2>2. change' \in [Changes -> ChangeTypes]
    BY <1>1, <1>7 DEF AnswerInv, AnswerTypeOK
  <2> QED
    BY <1>2, <1>5, <2>1, <2>2 DEF AnswerInv, AnswerTypeOK
<1>10. QuestionsKnow'
  <2> SUFFICES ASSUME NEW a \in Asks PROVE QuestionKnows(ask[a])'
    BY DEF QuestionsKnow
  <2>1. QuestionKnows(ask[a]) /\ QuestionType(ask[a])
    BY KnownOfQuestion
  <2>2. ask[a].at \in WithPacket => PacketSound(ask[a].packet)'
    <3> SUFFICES ASSUME ask[a].at \in WithPacket PROVE PacketSound(ask[a].packet)'
      OBVIOUS
    <3>1. PacketSound(ask[a].packet) /\ PacketType(ask[a].packet)
      BY <2>1 DEF QuestionKnows, QuestionType
    <3>2. \A b \in Supplied(ask[a].packet) : b \in Beliefs /\ ask[a].packet.stands[b] \in Nat
      BY <3>1 DEF PacketType, Supplied
    <3>3. \A b \in Supplied(ask[a].packet) : ask[a].packet.stands[b] <= version'[b]
      <4> SUFFICES ASSUME NEW b \in Supplied(ask[a].packet) PROVE ask[a].packet.stands[b] <= version'[b]
        OBVIOUS
      <4>1. ask[a].packet.stands[b] \in Nat /\ ask[a].packet.stands[b] <= version[b] /\ b \in Beliefs
        BY <3>1, <3>2 DEF PacketSound
      <4>2. version[b] \in Nat /\ version'[b] \in Nat
        BY <1>5, <4>1 DEF AnswerInv, AnswerTypeOK
      <4> QED
        BY <1>5, <4>1, <4>2
    <3> QED
      BY <1>2, <3>1, <3>3 DEF PacketSound
  <2> QED
    BY <1>2, <2>1, <2>2 DEF QuestionKnows
<1>11. PacketsStored'
  BY <1>2 DEF AnswerInv, PacketsStored
<1>12. \A a \in Recorded : /\ manifests[a] # Absent /\ a \in Asks /\ ask[a].at = "answered" /\ ManifestSound(manifests[a])
                           /\ manifests[a].supplied \subseteq Beliefs
                           /\ \A b \in manifests[a].supplied : manifests[a].packet.stands[b] \in Nat
  <2> SUFFICES ASSUME NEW a \in Recorded
               PROVE  /\ manifests[a] # Absent /\ a \in Asks /\ ask[a].at = "answered" /\ ManifestSound(manifests[a])
                      /\ manifests[a].supplied \subseteq Beliefs
                      /\ \A b \in manifests[a].supplied : manifests[a].packet.stands[b] \in Nat
    OBVIOUS
  <2>1. manifests[a] # Absent /\ a \in Asks /\ ask[a].at = "answered" /\ ManifestSound(manifests[a])
    BY DEF Recorded, AnswerInv, ManifestsSound
  <2>2. ManifestType(manifests[a])
    BY <2>1 DEF AnswerInv, AnswerTypeOK
  <2>3. manifests[a].supplied = DOMAIN manifests[a].packet.cites
    BY <2>1 DEF ManifestSound, Supplied
  <2> QED
    BY <2>1, <2>2, <2>3 DEF ManifestType, PacketType
<1>13. ManifestsSound'
  <2> SUFFICES ASSUME NEW a \in Recorded PROVE ManifestSound(manifests[a])'
    BY <1>2, <1>12 DEF ManifestsSound, Recorded
  <2>1. \A b \in manifests[a].supplied : manifests[a].packet.stands[b] <= version'[b]
    <3> SUFFICES ASSUME NEW b \in manifests[a].supplied PROVE manifests[a].packet.stands[b] <= version'[b]
      OBVIOUS
    <3>1. b \in Beliefs /\ manifests[a].packet.stands[b] \in Nat /\ manifests[a].packet.stands[b] <= version[b]
      BY <1>12 DEF ManifestSound
    <3>2. version[b] \in Nat /\ version'[b] \in Nat
      BY <1>5, <3>1 DEF AnswerInv, AnswerTypeOK
    <3> QED
      BY <1>5, <3>1, <3>2
  <2> QED
    BY <1>2, <1>12, <2>1 DEF ManifestSound
<1>14. ChangesFind'
  <2> SUFFICES ASSUME NEW x \in Changes PROVE ChangeKnows(change[x])'
    BY DEF ChangesFind
  <2>1. CASE x = c
    BY <1>3, <1>6, <1>7, <2>1 DEF ChangeKnows
  <2>2. CASE x # c
    <3>1. ChangeKnows(change[x])
      BY DEF AnswerInv, ChangesFind
    <3> QED
      BY <1>2, <1>6, <1>7, <2>2, <3>1 DEF ChangeKnows
  <2> QED
    BY <2>1, <2>2
<1>15. RowsOfAnswers'
  BY <1>2, <1>3, <1>6, <1>8 DEF AnswerInv, RowsOfAnswers
<1>16. GoneWithItsEvidence'
  BY <1>2 DEF AnswerInv, GoneWithItsEvidence
<1>17. ChangesListEarlierAnswers'
  <2> SUFFICES ASSUME NEW a \in Asks, manifests[a] # Absent
               PROVE  /\ \A x \in Changes :
                           change'[x].at = "done" /\ a \in change'[x].done /\ change'[x].belief \in manifests[a].supplied =>
                             <<a, change'[x].belief, change'[x].to>> \in listed'
                      /\ \A row \in listed' : row[1] = a => manifests[a].packet.stands[row[2]] < row[3]
    BY <1>2 DEF ChangesListEarlierAnswers
  <2>1. ASSUME NEW x \in Changes, change'[x].at = "done", a \in change'[x].done,
               change'[x].belief \in manifests[a].supplied
        PROVE  <<a, change'[x].belief, change'[x].to>> \in listed'
    <3>1. CASE x = c
      BY <1>1, <1>3, <1>7, <2>1, <3>1
    <3>2. CASE x # c
      BY <1>1, <1>7, <2>1, <3>2 DEF AnswerInv, ChangesListEarlierAnswers
    <3> QED
      BY <3>1, <3>2
  <2>2. ASSUME NEW row \in listed', row[1] = a PROVE manifests[a].packet.stands[row[2]] < row[3]
    <3>1. CASE row \in listed
      BY <2>2, <3>1 DEF AnswerInv, ChangesListEarlierAnswers
    <3>2. CASE row \notin listed
      <4>1. PICK f \in found : row = <<f, moved, to>>
        BY <1>8, <3>2
      <4>2. a = f /\ row[2] = moved /\ row[3] = to
        BY <2>2, <4>1
      <4>3. a \in Recorded /\ moved \in manifests[a].supplied
        BY <1>3, <4>2
      <4>4. manifests[a].packet.stands[moved] \in Nat /\ manifests[a].packet.stands[moved] <= version[moved]
        BY <1>12, <4>3 DEF ManifestSound
      <4> QED
        BY <1>4, <4>2, <4>4
    <3> QED
      BY <3>1, <3>2
  <2> QED
    BY <2>1, <2>2
<1> QED
  BY <1>9, <1>10, <1>11, <1>13, <1>14, <1>15, <1>16, <1>17 DEF AnswerInv

-----------------------------------------------------------------------------
(* The owner removes and takes back; evidence goes.                        *)

LEMMA SuppressKeeps == ASSUME AnswerInv, NEW b \in Touched, Suppress(b) PROVE AnswerInv'
<1>1. removed' = removed \cup {b} /\ b \in Beliefs
  BY BeliefsAssumption DEF Suppress
<1>2. UNCHANGED <<version, erased, gone, ask, packets, manifests, listed, change, erasing>>
  BY DEF Suppress
<1>3. AnswerTypeOK'
  BY <1>1, <1>2 DEF AnswerInv, AnswerTypeOK
<1>4. QuestionsKnow'
  <2> SUFFICES ASSUME NEW a \in Asks PROVE QuestionKnows(ask[a])'
    BY DEF QuestionsKnow
  <2>1. QuestionKnows(ask[a])
    BY KnownOfQuestion
  <2> QED
    BY <1>1, <1>2, <2>1 DEF QuestionKnows, PacketSound
<1>5. PacketsStored' /\ ManifestsSound'
  BY <1>2 DEF AnswerInv, PacketsStored, ManifestsSound, ManifestSound
<1>6. ChangesFind' /\ RowsOfAnswers' /\ GoneWithItsEvidence' /\ ChangesListEarlierAnswers'
  BY <1>2 DEF AnswerInv, ChangesFind, ChangeKnows, RowsOfAnswers, Recorded, GoneWithItsEvidence, ChangesListEarlierAnswers
<1> QED
  BY <1>3, <1>4, <1>5, <1>6 DEF AnswerInv

LEMMA LessWithdrawn ==
  ASSUME NEW at, NEW p, NEW s, NEW v, NEW w, NEW d, NEW b
  PROVE  [[at |-> at, packet |-> p, says |-> s, action |-> v, withdrawn |-> w, dead |-> d]
            EXCEPT !.withdrawn = @ \ {b}]
           = [at |-> at, packet |-> p, says |-> s, action |-> v, withdrawn |-> w \ {b}, dead |-> d]
  OBVIOUS

\* What is taken back is no longer withdrawn for the answers that are being recorded.
LEMMA WithdrawKeeps == ASSUME AnswerInv, NEW b \in Touched, Withdraw(b) PROVE AnswerInv'
<1>1. removed' = removed \ {b}
  BY DEF Withdraw
<1>2. UNCHANGED <<version, erased, gone, packets, manifests, listed, change, erasing>>
  BY DEF Withdraw
<1> DEFINE Less(q) == [at |-> q.at, packet |-> q.packet, says |-> q.says, action |-> q.action,
                       withdrawn |-> q.withdrawn \ {b}, dead |-> q.dead]
<1>3. DOMAIN ask' = Asks
  BY DEF Withdraw
<1>4. \A a \in Asks : ask[a].at \notin {"recording", "recorded"} => ask'[a] = ask[a]
  BY DEF Withdraw
<1>5. ASSUME NEW a \in Asks, ask[a].at \in {"recording", "recorded"} PROVE ask'[a] = Less(ask[a])
  <2> DEFINE q == ask[a]
  <2>1. ask'[a] = [ask[a] EXCEPT !.withdrawn = @ \ {b}]
    BY <1>5 DEF Withdraw
  <2>2. q = [at |-> q.at, packet |-> q.packet, says |-> q.says, action |-> q.action,
             withdrawn |-> q.withdrawn, dead |-> q.dead]
    BY <1>5, RecordingOf
  <2>3. [[at |-> q.at, packet |-> q.packet, says |-> q.says, action |-> q.action,
          withdrawn |-> q.withdrawn, dead |-> q.dead] EXCEPT !.withdrawn = @ \ {b}] = Less(q)
    BY LessWithdrawn
  <2> HIDE DEF Less
  <2>4. [q EXCEPT !.withdrawn = @ \ {b}] = Less(q)
    <3> HIDE DEF q
    <3> QED
      BY <2>2, <2>3
  <2> QED
    BY <2>1, <2>4
<1>6. ASSUME NEW a \in Asks
      PROVE  /\ QuestionType(ask'[a]) /\ QuestionKnows(ask[a])' /\ ask'[a].at = ask[a].at
             /\ ask[a].at \in WithPacket => ask'[a].packet = ask[a].packet
  <2>1. CASE ask[a].at \notin {"recording", "recorded"}
    <3>1. QuestionType(ask[a]) /\ QuestionKnows(ask[a]) /\ ask'[a] = ask[a]
      BY <1>4, <2>1, KnownOfQuestion
    <3> QED
      BY <1>2, <2>1, <3>1 DEF QuestionKnows, PacketSound
  <2>2. CASE ask[a].at \in {"recording", "recorded"}
    <3> DEFINE t == Less(ask[a])
    <3>1. ask'[a] = t
      BY <1>5, <2>2
    <3>2. QuestionType(t)
      BY <2>2, RecordingOf DEF QuestionType
    <3>3. t.at = ask[a].at /\ t.packet = ask[a].packet /\ t.says = ask[a].says /\ t.dead = ask[a].dead
          /\ t.withdrawn = ask[a].withdrawn \ {b}
      OBVIOUS
    <3> HIDE DEF t
    <3>4. t.withdrawn \subseteq gone \cup removed'
      BY <1>1, <2>2, <3>3, RecordingOf
    <3>5. PacketSound(ask[a].packet)'
      <4>1. PacketSound(ask[a].packet) /\ ask'[a].packet = ask[a].packet
        BY <2>2, <3>1, <3>3, RecordingOf
      <4> QED
        BY <1>2, <4>1 DEF PacketSound
    <3>6. QuestionKnows(ask[a])'
      BY <1>2, <2>2, <3>1, <3>3, <3>4, <3>5, RecordingOf DEF QuestionKnows
    <3> QED
      BY <3>1, <3>2, <3>3, <3>6
  <2> QED
    BY <2>1, <2>2
<1>7. AnswerTypeOK'
  BY <1>1, <1>2, <1>3, <1>6 DEF AnswerInv, AnswerTypeOK
<1>8. QuestionsKnow'
  BY <1>6 DEF QuestionsKnow
<1>9. PacketsStored'
  BY <1>2, <1>6 DEF AnswerInv, PacketsStored, PacketOf
<1>10. ManifestsSound'
  BY <1>2, <1>6 DEF AnswerInv, ManifestsSound, ManifestSound
<1>11. ChangesFind' /\ RowsOfAnswers' /\ GoneWithItsEvidence' /\ ChangesListEarlierAnswers'
  BY <1>2 DEF AnswerInv, ChangesFind, ChangeKnows, RowsOfAnswers, Recorded, GoneWithItsEvidence, ChangesListEarlierAnswers
<1> QED
  BY <1>7, <1>8, <1>9, <1>10, <1>11 DEF AnswerInv

LEMMA EraseKeeps == ASSUME AnswerInv, NEW e \in Evidence, Erase(e) PROVE AnswerInv'
<1>1. UNCHANGED <<version, erased, gone, removed, ask, packets, manifests, listed, change>>
  BY DEF Erase
<1>2. AnswerTypeOK'
  BY <1>1 DEF Erase, AnswerInv, AnswerTypeOK
<1>3. QuestionsKnow' /\ PacketsStored' /\ ManifestsSound'
  BY <1>1 DEF AnswerInv, QuestionsKnow, QuestionKnows, PacketSound, PacketsStored, ManifestsSound, ManifestSound
<1>4. ChangesFind' /\ RowsOfAnswers' /\ GoneWithItsEvidence' /\ ChangesListEarlierAnswers'
  BY <1>1 DEF AnswerInv, ChangesFind, ChangeKnows, RowsOfAnswers, Recorded, GoneWithItsEvidence, ChangesListEarlierAnswers
<1> QED
  BY <1>2, <1>3, <1>4 DEF AnswerInv

\* Without e: what went before goes, what is told by evidence that is left does not.
LEMMA WhatFalls ==
  ASSUME AnswerInv, NEW e
  PROVE  gone \subseteq Falling(e) /\ Falling(e) \cap Direct \subseteq erased \cup {e}
<1>1. Complies(Beliefs \ gone, Live \ {e}, {})
  <2>1. gone \cap Direct \subseteq erased /\ Direct \subseteq Beliefs
    BY BeliefsAssumption DEF AnswerInv, GoneWithItsEvidence
  <2> QED
    BY <2>1 DEF Complies, Live
<1>2. MayBeRead(Live \ {e}, {}) \subseteq Beliefs \ gone
  BY <1>1 DEF MayBeRead
<1>3. gone \subseteq Beliefs
  BY DEF AnswerInv, AnswerTypeOK
<1>4. Direct \ (erased \cup {e}) \subseteq MayBeRead(Live \ {e}, {})
  BY BeliefsAssumption DEF MayBeRead, Complies, Live, Evidence
<1> QED
  BY <1>2, <1>3, <1>4 DEF Falling

\* A proof that cites neither e nor anything erased stays when e goes.
LEMMA CitedStays ==
  ASSUME AnswerInv, NEW e, NEW f, DOMAIN f \subseteq Beliefs, Rooted(f), DOMAIN f \cap gone = {},
         (UNION {f[b] : b \in DOMAIN f}) \cap (erased \cup {e}) = {}
  PROVE  DOMAIN f \cap Falling(e) = {}
<1> DEFINE X == DOMAIN f
           E == UNION {f[b] : b \in X}
           M == MayBeRead(Live \ {e}, {})
           S == X \cap M
<1>1. X \cap Direct \cap E \subseteq S
  <2>1. Direct \ (erased \cup {e}) \subseteq M
    BY BeliefsAssumption DEF MayBeRead, Complies, Live, Evidence
  <2> QED
    BY <2>1
<1>2. ASSUME NEW b \in X, NEW path \in Inputs[b], path # {}, path \subseteq S PROVE b \in S
  <2>1. b \in Beliefs \ (gone \cup {})
    OBVIOUS
  <2>2. ASSUME NEW R \in SUBSET Beliefs, Complies(R, Live \ {e}, {}) PROVE b \in R
    <3>1. path \subseteq R
      BY <1>2, <2>2 DEF MayBeRead
    <3> QED
      BY <1>2, <2>1, <2>2, <3>1 DEF Complies
  <2>3. b \in M
    BY <2>1, <2>2 DEF MayBeRead
  <2> QED
    BY <2>3
<1>3. S = X
  <2>1. S \in SUBSET X
    OBVIOUS
  <2> HIDE DEF S
  <2> QED
    BY <1>1, <1>2, <2>1 DEF Rooted
<1> QED
  BY <1>3 DEF Falling

LEMMA CommitErasureKeeps == ASSUME AnswerInv, CommitErasure PROVE AnswerInv'
<1> DEFINE e == erasing.item
<1>1. /\ erased' = erased \cup {e} /\ gone' = Falling(e) /\ erasing' = Absent
      /\ packets' = [a \in Asks |-> IF a \in erasing.emptied THEN Absent ELSE packets[a]]
  BY DEF CommitErasure
<1>2. UNCHANGED <<version, removed, ask, manifests, listed, change>>
  BY DEF CommitErasure
<1>3. e \in Evidence
  BY DEF CommitErasure, AnswerInv, AnswerTypeOK
<1>4. DOMAIN packets' = Asks /\ \A a \in Asks : packets'[a] # Absent => packets'[a] = packets[a]
  BY <1>1
<1> HIDE DEF e
<1>5. gone \subseteq gone' /\ gone' \cap Direct \subseteq erased' /\ gone' \subseteq Beliefs
  BY <1>1, WhatFalls DEF Falling
<1>6. AnswerTypeOK'
  <2>1. erased' \subseteq Evidence
    BY <1>1, <1>3 DEF AnswerInv, AnswerTypeOK
  <2>2. \A a \in Asks : packets'[a] # Absent => PacketType(packets'[a])
    BY <1>4 DEF AnswerInv, AnswerTypeOK
  <2> QED
    BY <1>1, <1>2, <1>4, <1>5, <2>1, <2>2 DEF AnswerInv, AnswerTypeOK
<1>7. QuestionsKnow'
  <2> SUFFICES ASSUME NEW a \in Asks PROVE QuestionKnows(ask[a])'
    BY DEF QuestionsKnow
  <2>1. QuestionKnows(ask[a]) /\ QuestionType(ask[a])
    BY KnownOfQuestion
  <2>2. ask[a].at \in WithPacket => PacketSound(ask[a].packet)'
    <3> SUFFICES ASSUME ask[a].at \in WithPacket PROVE PacketSound(ask[a].packet)'
      OBVIOUS
    <3> DEFINE p == ask[a].packet
    <3>1. PacketSound(p) /\ PacketType(p)
      BY <2>1 DEF QuestionKnows, QuestionType
    <3> HIDE DEF p
    <3>2. ASSUME Cited(p) \cap erased' = {} PROVE Supplied(p) \cap gone' = {}
      <4>1. Cited(p) \cap (erased \cup {e}) = {} /\ Supplied(p) \cap gone = {}
        BY <1>1, <3>1, <3>2 DEF PacketSound
      <4>2. DOMAIN p.cites \subseteq Beliefs /\ Rooted(p.cites)
        BY <3>1 DEF PacketSound, PacketType
      <4>3. DOMAIN p.cites \cap Falling(e) = {}
        BY <4>1, <4>2, CitedStays DEF Cited, Supplied
      <4> QED
        BY <1>1, <4>3 DEF Supplied
    <3>3. PacketSound(p)'
      BY <1>2, <3>1, <3>2 DEF PacketSound, p
    <3> QED
      BY <3>3 DEF p
  <2> QED
    BY <1>1, <1>2, <1>5, <2>1, <2>2 DEF QuestionKnows
<1>8. PacketsStored'
  BY <1>2, <1>4 DEF AnswerInv, PacketsStored
<1>9. ManifestsSound'
  BY <1>2 DEF AnswerInv, ManifestsSound, ManifestSound
<1>10. ChangesFind' /\ RowsOfAnswers' /\ ChangesListEarlierAnswers'
  BY <1>2 DEF AnswerInv, ChangesFind, ChangeKnows, RowsOfAnswers, Recorded, ChangesListEarlierAnswers
<1>11. GoneWithItsEvidence'
  BY <1>5 DEF GoneWithItsEvidence
<1> QED
  BY <1>6, <1>7, <1>8, <1>9, <1>10, <1>11 DEF AnswerInv

-----------------------------------------------------------------------------
LEMMA NextHolds == ASSUME AnswerInv, [AnswerNext]_answerVars PROVE AnswerInv'
<1>1. ASSUME NEW a \in Asks, Authorize(a) \/ ReadRemovals(a) \/ ReadBeliefs(a) \/ StorePacket(a) PROVE AnswerInv'
  BY <1>1, AuthorizeKeeps, ReadRemovalsKeeps, ReadBeliefsKeeps, StorePacketKeeps
<1>2. ASSUME NEW a \in Asks, NEW names \in SUBSET Beliefs, NEW worded, Phrase(a, names, worded) PROVE AnswerInv'
  BY <1>2, PhraseKeeps
<1>3. ASSUME NEW a \in Asks, Compose(a) \/ BeginRecord(a) \/ Recheck(a) \/ CommitRecord(a) \/ Abandon(a)
      PROVE  AnswerInv'
  BY <1>3, ComposeKeeps, BeginRecordKeeps, RecheckKeeps, CommitRecordKeeps, AbandonKeeps
<1>4. ASSUME NEW c \in Changes, (\E b \in Touched : BeginChange(c, b)) \/ WriteChange(c) \/ CommitChange(c)
      PROVE  AnswerInv'
  BY <1>4, BeginChangeKeeps, WriteChangeKeeps, CommitChangeKeeps
<1>5. ASSUME NEW b \in Touched, Suppress(b) \/ Withdraw(b) PROVE AnswerInv'
  BY <1>5, SuppressKeeps, WithdrawKeeps
<1>6. ASSUME NEW e \in Evidence, Erase(e) PROVE AnswerInv'
  BY <1>6, EraseKeeps
<1>7. CASE CommitErasure
  BY <1>7, CommitErasureKeeps
<1>8. CASE UNCHANGED answerVars
  BY <1>8 DEF answerVars, AnswerInv, AnswerTypeOK, QuestionsKnow, QuestionKnows, PacketSound, PacketsStored,
     ManifestsSound, ManifestSound, ChangesFind, ChangeKnows, RowsOfAnswers, Recorded, GoneWithItsEvidence,
     ChangesListEarlierAnswers
<1> QED
  BY <1>1, <1>2, <1>3, <1>4, <1>5, <1>6, <1>7, <1>8 DEF AnswerNext

\* Whatever interleaves with a question - changes, removals that are taken back, erasures -
\* it carries and leaves what AnswerInv says.
THEOREM AnsweringInvariant == AnswerSpec => []AnswerInv
<1>1. AnswerInit => AnswerInv
  BY InitHolds
<1>2. AnswerInv /\ [AnswerNext]_answerVars => AnswerInv'
  BY NextHolds
<1> QED
  BY <1>1, <1>2, PTL DEF AnswerSpec

\* Every variable of a question, its answers and what changes beside them has its type.
THEOREM AnsweringTypes == AnswerSpec => []AnswerTypeOK
<1>1. AnswerInv => AnswerTypeOK
  BY DEF AnswerInv
<1> QED
  BY <1>1, AnsweringInvariant, PTL

\* What a question reads is what may be read, and an answer on record says nothing that
\* was not supplied and rests on nothing that was withdrawn or erased before its recording.
THEOREM AnswersHold == AnswerSpec => []AnswersStandOnWhatMayBeSaid
<1>1. AnswerInv => AnswersStandOnWhatMayBeSaid
  <2> SUFFICES ASSUME AnswerInv, NEW a \in Asks
               PROVE  /\ LET readable == ask[a].admitted \ erased
                             proofs == Proofs(readable, ask[a].hidden)
                         IN  /\ DOMAIN proofs = MayBeRead(readable, ask[a].hidden)
                             /\ \A b \in DOMAIN proofs : proofs[b] # {} /\ proofs[b] \subseteq readable
                      /\ manifests[a] # Absent =>
                           /\ manifests[a].says \subseteq manifests[a].supplied
                           /\ manifests[a].supplied \cap manifests[a].withdrawn = {}
                           /\ Cited(manifests[a].packet) \cap (manifests[a].dead \cup Unadmitted) = {}
    BY DEF AnswersStandOnWhatMayBeSaid
  <2>1. manifests[a] # Absent => ManifestSound(manifests[a])
    BY DEF AnswerInv, ManifestsSound
  <2> QED
    BY <2>1, ProofsAreLeast DEF ManifestSound
<1> QED
  BY <1>1, AnsweringInvariant, PTL

\* A change lists every answer recorded before it that was supplied the belief, and none
\* that was supplied what it left.
THEOREM EarlierAnswersListed == AnswerSpec => []ChangesListEarlierAnswers
<1>1. AnswerInv => ChangesListEarlierAnswers
  BY DEF AnswerInv
<1> QED
  BY <1>1, AnsweringInvariant, PTL

-----------------------------------------------------------------------------
(* Merges and splits.                                                      *)

\* Counting is the same there as here.
LEMMA SameCount == \A S : L!Cardinality(S) = Cardinality(S)
  BY DEF L!Cardinality, Cardinality

\* The first of the identifiers in a set is one of them, and comes before the others.
LEMMA LeastIsFirst ==
  ASSUME NEW T, T \subseteq Nat, T # {} PROVE L!Least(T) \in T /\ \A y \in T : L!Least(T) <= y
<1>1. PICK top \in T : TRUE
  OBVIOUS
<1> DEFINE Below == {0..x : x \in {y \in T : y <= top}}
<1>2. Below \subseteq FiniteSubsetsOf(0..top) /\ Below # {}
  <2>1. ASSUME NEW x \in {y \in T : y <= top} PROVE 0..x \subseteq 0..top /\ IsFiniteSet(0..x)
    <3>1. x \in Int /\ 0 \in Int
      BY <1>1
    <3>2. IsFiniteSet(0..x)
      BY <3>1, FS_Interval
    <3> QED
      BY <1>1, <3>2
  <2>2. top \in {y \in T : y <= top}
    BY <1>1
  <2> QED
    BY <2>1, <2>2 DEF FiniteSubsetsOf
<1>3. PICK low \in Below : \A other \in Below : ~(<<other, low>> \in StrictSubsetOrdering(0..top))
  <2> HIDE DEF Below
  <2> QED
    BY <1>2, FS_StrictSubsetOrderingWellFounded, WFMin
<1>4. PICK x \in T : x <= top /\ low = 0..x
  BY <1>3
<1>5. ASSUME NEW y \in T PROVE x <= y
  <2> SUFFICES ASSUME y < x PROVE FALSE
    BY <1>4
  <2>1. x \in Nat /\ y \in Nat /\ top \in Nat
    BY <1>1, <1>4
  <2>2. 0..y \subseteq 0..x /\ x \in 0..x /\ x \notin 0..y /\ 0..x \subseteq 0..top
    BY <1>4, <2>1
  <2>3. 0..y \in Below /\ 0..y # 0..x
    BY <1>4, <2>1, <2>2
  <2> QED
    BY <1>3, <1>4, <2>2, <2>3 DEF StrictSubsetOrdering
<1> QED
  BY <1>4, <1>5 DEF L!Least

LifeOfFrames == {"unused", "ACTIVE", "MERGED", "SPLIT"}
SlotRows == [row : Frames \cup {0}, index : Frames \cup {0}, lifecycle : {"unused", "ACTIVE", "MERGED"}]
ClaimRows == [slot : Slots, value : Values, late : BOOLEAN, lifecycle : {"PROVISIONAL", "CONTESTED"}]
WriterStates == [at : {"matched", "resolved"}, claim : Statements, frame : Frames, slot : Slots \cup {0}, value : Values]
RowsOf(f) == {row \in lineage : row[1] = f}
RowsFit ==
  \A f \in Frames : /\ frame[f] = "MERGED" => Cardinality(RowsOf(f)) = 1
                    /\ frame[f] \in {"MERGED", "SPLIT"} <=> RowsOf(f) # {}

\* The type invariant of merges and splits, part by part.
LEMMA LineageTypes ==
  /\ L!LineageTypeOK <=>
       /\ frame \in [Frames -> LifeOfFrames]
       /\ lineage \subseteq Frames \X Frames \X {"MERGED_INTO", "SPLIT_INTO"}
       /\ slot \in [Slots -> SlotRows]
       /\ verdict \in [Slots \X Values -> L!Assessments]
       /\ into \in [Slots \X Values -> Slots \cup {0}]
       /\ claim \in [Statements -> {L!NoClaim} \cup ClaimRows]
       /\ support \subseteq Statements \X Slots
       /\ writer \in [Writers -> {L!Idle} \cup WriterStates]
       /\ RowsFit
  /\ L!LineageTypeOK' <=>
       /\ frame' \in [Frames -> LifeOfFrames]
       /\ lineage' \subseteq Frames \X Frames \X {"MERGED_INTO", "SPLIT_INTO"}
       /\ slot' \in [Slots -> SlotRows]
       /\ verdict' \in [Slots \X Values -> L!Assessments]
       /\ into' \in [Slots \X Values -> Slots \cup {0}]
       /\ claim' \in [Statements -> {L!NoClaim} \cup ClaimRows]
       /\ support' \subseteq Statements \X Slots
       /\ writer' \in [Writers -> {L!Idle} \cup WriterStates]
       /\ RowsFit'
  BY SameCount DEF L!LineageTypeOK, LifeOfFrames, SlotRows, ClaimRows, WriterStates, RowsOf, RowsFit, L!Unused, L!NoSlot

\* New rows of one frame are rows, and nobody else's.
LEMMA NewRows ==
  ASSUME lineage \subseteq Frames \X Frames \X {"MERGED_INTO", "SPLIT_INTO"}, NEW f \in Frames, NEW new,
         \A row \in new : row \in Frames \X Frames \X {"MERGED_INTO", "SPLIT_INTO"} /\ row[1] = f,
         lineage' = lineage \cup new
  PROVE  /\ lineage' \subseteq Frames \X Frames \X {"MERGED_INTO", "SPLIT_INTO"}
         /\ RowsOf(f)' = RowsOf(f) \cup new
         /\ \A g \in Frames \ {f} : RowsOf(g)' = RowsOf(g)
<1> DEFINE Rows == Frames \X Frames \X {"MERGED_INTO", "SPLIT_INTO"}
<1> SUFFICES /\ lineage' \subseteq Rows
             /\ RowsOf(f)' = RowsOf(f) \cup new
             /\ \A g \in Frames \ {f} : RowsOf(g)' = RowsOf(g)
  OBVIOUS
<1>1. lineage \subseteq Rows /\ \A row \in new : row \in Rows /\ row[1] = f
  OBVIOUS
<1> HIDE DEF Rows
<1> QED
  BY <1>1 DEF RowsOf

LEMMA LineageTypeInit == L!LineageInit => L!LineageTypeOK
<1> SUFFICES ASSUME L!LineageInit PROVE L!LineageTypeOK
  OBVIOUS
<1>1. RowsFit
  BY DEF L!LineageInit, RowsFit, RowsOf, L!Unused
<1>2. frame \in [Frames -> LifeOfFrames] /\ slot \in [Slots -> SlotRows]
  BY DEF L!LineageInit, LifeOfFrames, SlotRows, L!Unused
<1>3. verdict \in [Slots \X Values -> L!Assessments] /\ into \in [Slots \X Values -> Slots \cup {0}]
  BY DEF L!LineageInit, L!Assessments, L!NoSlot
<1>4. claim \in [Statements -> {L!NoClaim} \cup ClaimRows] /\ writer \in [Writers -> {L!Idle} \cup WriterStates]
  BY DEF L!LineageInit
<1> QED
  BY <1>1, <1>2, <1>3, <1>4, LineageTypes DEF L!LineageInit

LEMMA CanonicalizationTypes ==
  ASSUME L!LineageTypeOK
  PROVE  /\ \A w \in Writers, n \in Statements, f \in Frames, v \in Values : L!Match(w, n, f, v) => L!LineageTypeOK'
         /\ \A w \in Writers : L!Lookup(w) \/ L!WriteClaim(w) => L!LineageTypeOK'
         /\ \A x \in Slots, v \in Values, status \in Assessable : L!Assess(x, v, status) => L!LineageTypeOK'
<1>1. ASSUME NEW w \in Writers, NEW n \in Statements, NEW f \in Frames, NEW v \in Values, L!Match(w, n, f, v)
      PROVE  L!LineageTypeOK'
  <2>1. writer' \in [Writers -> {L!Idle} \cup WriterStates]
    BY <1>1, LineageTypes DEF L!Match, WriterStates, L!NoSlot
  <2> QED
    BY <1>1, <2>1, LineageTypes DEF L!Match, RowsFit, RowsOf
<1>2. ASSUME NEW w \in Writers, L!Lookup(w) PROVE L!LineageTypeOK'
  <2> DEFINE found == L!Indexed(writer[w].frame)
             x == IF Cardinality(found) = 1 THEN L!Least(found) ELSE 0
  <2>1. writer[w] \in WriterStates
    BY <1>2, LineageTypes DEF L!Lookup, L!Idle
  <2>2. found \subseteq Slots
    BY DEF L!Indexed
  <2>3. x \in Slots \cup {0}
    <3> HIDE DEF found
    <3>1. CASE Cardinality(found) = 1
      <4>1. found # {} /\ found \subseteq Nat
        BY <2>2, <3>1, FS_EmptySet, IdentifierAssumption
      <4> QED
        BY <2>2, <3>1, <4>1, LeastIsFirst
    <3> QED
      BY <3>1
  <2>4. writer' = [writer EXCEPT ![w].at = "resolved", ![w].slot = x]
    BY <1>2, SameCount DEF L!Lookup, L!NoSlot
  <2> HIDE DEF found, x
  <2>5. writer' \in [Writers -> {L!Idle} \cup WriterStates]
    <3>1. [writer[w] EXCEPT !.at = "resolved", !.slot = x] \in WriterStates
      BY <2>1, <2>3 DEF WriterStates
    <3>2. writer \in [Writers -> {L!Idle} \cup WriterStates]
      BY LineageTypes
    <3>3. \A other \in Writers : writer'[other] = IF other = w THEN [writer[w] EXCEPT !.at = "resolved", !.slot = x] ELSE writer[other]
      BY <2>1, <2>4, <3>2 DEF WriterStates
    <3> QED
      BY <2>4, <3>1, <3>2, <3>3
  <2> QED
    BY <1>2, <2>5, LineageTypes DEF L!Lookup, RowsFit, RowsOf
<1>3. ASSUME NEW w \in Writers, L!WriteClaim(w) PROVE L!LineageTypeOK'
  <2> DEFINE new == writer[w].slot = 0
             x == IF new THEN L!Least(L!FreshSlots) ELSE writer[w].slot
             v == writer[w].value
  <2>1. writer[w] \in WriterStates
    BY <1>3, LineageTypes DEF L!WriteClaim, L!Idle
  <2>2. x \in Slots /\ v \in Values /\ writer[w].claim \in Statements /\ writer[w].frame \in Frames
    <3>1. L!FreshSlots \subseteq Slots /\ (new => L!FreshSlots # {})
      BY <1>3 DEF L!WriteClaim, L!FreshSlots, L!NoSlot
    <3> QED
      BY <2>1, <3>1, LeastIsFirst, IdentifierAssumption DEF WriterStates
  <2>3. /\ slot' = IF new THEN [slot EXCEPT ![x] = [row |-> writer[w].frame, index |-> writer[w].frame,
                                                    lifecycle |-> "ACTIVE"]] ELSE slot
        /\ verdict' = [verdict EXCEPT ![<<x, v>>] = IF verdict[<<x, v>>] = "absent" THEN "NONE" ELSE verdict[<<x, v>>]]
        /\ claim' = [claim EXCEPT ![writer[w].claim] =
                         [slot |-> x, value |-> v, lifecycle |-> "PROVISIONAL", late |-> slot[x].lifecycle = "MERGED"]]
        /\ writer' = [writer EXCEPT ![w] = L!Idle]
        /\ UNCHANGED <<frame, lineage, into, support>>
    BY <1>3 DEF L!WriteClaim, L!NoSlot
  <2> HIDE DEF new, x, v
  <2>4. slot' \in [Slots -> SlotRows]
    BY <2>2, <2>3, LineageTypes DEF SlotRows
  <2>5. verdict' \in [Slots \X Values -> L!Assessments]
    <3>1. "NONE" \in L!Assessments /\ verdict \in [Slots \X Values -> L!Assessments]
      BY LineageTypes DEF L!Assessments
    <3> QED
      BY <2>3, <3>1
  <2>6. claim' \in [Statements -> {L!NoClaim} \cup ClaimRows]
    <3>1. [slot |-> x, value |-> v, lifecycle |-> "PROVISIONAL", late |-> slot[x].lifecycle = "MERGED"] \in ClaimRows
      BY <2>2 DEF ClaimRows
    <3> QED
      BY <2>3, <3>1, LineageTypes
  <2>7. writer' \in [Writers -> {L!Idle} \cup WriterStates]
    BY <2>3, LineageTypes
  <2> QED
    BY <2>3, <2>4, <2>5, <2>6, <2>7, LineageTypes DEF RowsFit, RowsOf
<1>4. ASSUME NEW x \in Slots, NEW v \in Values, NEW status \in Assessable, L!Assess(x, v, status)
      PROVE  L!LineageTypeOK'
  <2>1. verdict' \in [Slots \X Values -> L!Assessments]
    BY <1>4, LineageTypes, IdentifierAssumption DEF L!Assess, L!Assessments
  <2> QED
    BY <1>4, <2>1, LineageTypes DEF L!Assess, RowsFit, RowsOf
<1> QED
  BY <1>1, <1>2, <1>3, <1>4
\* What a merge makes of the verdicts are verdicts.
LEMMA MergedVerdictsTypes ==
  ASSUME verdict \in [Slots \X Values -> L!Assessments], NEW kept \in Slots, NEW colliding \in SUBSET Slots
  PROVE  L!MergedVerdicts(kept, colliding) \in [Slots \X Values -> L!Assessments]
<1> DEFINE Moving(v) == {x \in colliding : v \in L!ActiveValues(x)}
           Own(v) == IF v \in L!ActiveValues(kept) THEN verdict[kept, v] ELSE "NONE"
           Judged(v) == {x \in Moving(v) : verdict[x, v] \in L!Settled}
           Carried(v) == IF Own(v) \in L!Settled \/ Judged(v) = {} THEN Own(v) ELSE verdict[L!Least(Judged(v)), v]
           values == L!ActiveValues(kept) \cup {v \in Values : Moving(v) # {}}
           At(q) == IF q[1] \in Moving(q[2]) THEN (IF verdict[q] \in L!Settled THEN "SUPERSEDED" ELSE "NONE")
                    ELSE IF q[1] = kept /\ q[2] \in values THEN L!Competing(values, Carried(q[2])) ELSE verdict[q]
<1>1. L!MergedVerdicts(kept, colliding) = [q \in Slots \X Values |-> At(q)]
  BY DEF L!MergedVerdicts
<1>2. "SUPERSEDED" \in L!Assessments /\ "NONE" \in L!Assessments /\ "CONTESTED" \in L!Assessments
  BY DEF L!Assessments, L!Settled
<1>3. ASSUME NEW v \in Values PROVE Carried(v) \in L!Assessments
  <2>1. Own(v) \in L!Assessments
    BY <1>2
  <2>2. CASE Judged(v) # {}
    <3>1. Judged(v) \subseteq Slots
      OBVIOUS
    <3> HIDE DEF Judged
    <3>2. L!Least(Judged(v)) \in Slots
      BY <2>2, <3>1, LeastIsFirst, IdentifierAssumption
    <3> HIDE DEF Own
    <3> QED
      BY <2>1, <3>2
  <2> HIDE DEF Own, Judged
  <2> QED
    BY <2>1, <2>2
<1>4. ASSUME NEW q \in Slots \X Values PROVE At(q) \in L!Assessments
  <2>1. q[2] \in Values /\ verdict[q] \in L!Assessments
    OBVIOUS
  <2>2. Carried(q[2]) \in L!Assessments
    BY <1>3, <2>1
  <2> HIDE DEF Carried, Moving, values
  <2> QED
    BY <1>2, <2>1, <2>2 DEF L!Competing
<1> HIDE DEF At
<1> QED
  BY <1>1, <1>4

LEMMA MergeTypes ==
  ASSUME L!LineageTypeOK, NEW m \in Frames, NEW s \in Frames, L!MergeFrames(m, s) PROVE L!LineageTypeOK'
<1> DEFINE moved == L!FrameSlots(m)
           stay == IF L!FrameSlots(s) = {} THEN moved ELSE L!FrameSlots(s)
           kept == IF stay = {} THEN 0 ELSE L!Least(stay)
           colliding == moved \ {kept}
<1>1. /\ slot' = [x \in Slots |->
                     IF x \notin moved THEN slot[x]
                     ELSE [slot[x] EXCEPT !.index = s, !.lifecycle = IF x \in colliding THEN "MERGED" ELSE @]]
      /\ verdict' = IF colliding = {} THEN verdict ELSE L!MergedVerdicts(kept, colliding)
      /\ into' = [q \in Slots \X Values |->
                     IF q[1] \in colliding /\ q[2] \in L!ActiveValues(q[1]) THEN kept ELSE into[q]]
      /\ frame' = [frame EXCEPT ![m] = "MERGED"]
      /\ lineage' = lineage \cup {<<m, s, "MERGED_INTO">>}
      /\ UNCHANGED <<claim, support, writer>>
  BY DEF L!MergeFrames, L!NoSlot
<1>2. frame[m] = "ACTIVE" /\ m # s
  BY DEF L!MergeFrames, L!Mergeable
<1>3. moved \subseteq Slots /\ L!FrameSlots(s) \subseteq Slots
  BY DEF L!FrameSlots
<1> HIDE DEF moved
<1>4. kept \in Slots \cup {0} /\ colliding \subseteq Slots /\ (colliding # {} => kept \in Slots)
  <2>1. stay \subseteq Slots /\ (stay = {} => moved = {})
    BY <1>3
  <2> HIDE DEF stay
  <2>2. stay # {} => L!Least(stay) \in Slots
    BY <2>1, LeastIsFirst, IdentifierAssumption
  <2> QED
    BY <1>3, <2>1, <2>2
<1> HIDE DEF kept, colliding
<1>5. slot' \in [Slots -> SlotRows]
  <2>1. ASSUME NEW x \in Slots PROVE slot'[x] \in SlotRows
    <3>1. slot[x] \in SlotRows
      BY LineageTypes
    <3>2. [slot[x] EXCEPT !.index = s, !.lifecycle = IF x \in colliding THEN "MERGED" ELSE slot[x].lifecycle] \in SlotRows
      BY <3>1 DEF SlotRows
    <3> QED
      BY <1>1, <3>1, <3>2
  <2> QED
    BY <1>1, <2>1
<1>6. verdict' \in [Slots \X Values -> L!Assessments]
  BY <1>1, <1>4, MergedVerdictsTypes, LineageTypes
<1>7. into' \in [Slots \X Values -> Slots \cup {0}]
  <2>1. \A q \in Slots \X Values : into[q] \in Slots \cup {0}
    BY LineageTypes
  <2> QED
    BY <1>1, <1>4, <2>1
<1>8. frame' \in [Frames -> LifeOfFrames]
  BY <1>1, LineageTypes DEF LifeOfFrames
<1>9. /\ lineage' \subseteq Frames \X Frames \X {"MERGED_INTO", "SPLIT_INTO"}
      /\ RowsOf(m)' = RowsOf(m) \cup {<<m, s, "MERGED_INTO">>}
      /\ \A f \in Frames \ {m} : RowsOf(f)' = RowsOf(f)
  <2> DEFINE new == {<<m, s, "MERGED_INTO">>}
  <2>1. \A row \in new : row \in Frames \X Frames \X {"MERGED_INTO", "SPLIT_INTO"} /\ row[1] = m
    OBVIOUS
  <2>2. lineage' = lineage \cup new
    BY <1>1
  <2>3. lineage \subseteq Frames \X Frames \X {"MERGED_INTO", "SPLIT_INTO"}
    BY LineageTypes
  <2> HIDE DEF new
  <2>4. /\ lineage' \subseteq Frames \X Frames \X {"MERGED_INTO", "SPLIT_INTO"}
        /\ RowsOf(m)' = RowsOf(m) \cup new
        /\ \A f \in Frames \ {m} : RowsOf(f)' = RowsOf(f)
    BY <2>1, <2>2, <2>3, NewRows
  <2> QED
    BY <2>4 DEF new
<1>10. RowsFit'
  <2>1. RowsFit /\ frame \in [Frames -> LifeOfFrames]
    BY LineageTypes
  <2>2. RowsOf(m) = {}
    BY <1>2, <2>1 DEF RowsFit
  <2>3. RowsOf(m)' = {<<m, s, "MERGED_INTO">>}
    BY <1>9, <2>2
  <2>6. Cardinality(RowsOf(m)') = 1
    BY <2>3, FS_Singleton
  <2>4. ASSUME NEW f \in Frames, f # m PROVE RowsOf(f)' = RowsOf(f) /\ frame'[f] = frame[f]
    BY <1>1, <1>9, <2>1, <2>4
  <2>5. frame'[m] = "MERGED"
    BY <1>1, <2>1
  <2> QED
    BY <2>1, <2>3, <2>4, <2>5, <2>6 DEF RowsFit
<1> QED
  BY <1>1, <1>5, <1>6, <1>7, <1>8, <1>9, <1>10, LineageTypes

LEMMA SplitTypes ==
  ASSUME L!LineageTypeOK, NEW p \in Frames, NEW part \in [L!Speaking(p) -> 0..2],
         NEW one \in L!FreshFrames, NEW two \in L!FreshFrames,
         NEW name \in [L!Mixed(p, part) -> L!TheFirst(L!Cardinality(L!Mixed(p, part)), L!FreshSlots)],
         L!SplitFrame(p, part, one, two, name)
  PROVE  L!LineageTypeOK'
<1> DEFINE parent == L!FrameSlots(p)
           assigned == {n \in DOMAIN part : part[n] # 0}
           mixed == L!Mixed(p, part)
           Heirs(x, v) == {h \in mixed : name[h] = x /\ \E n \in assigned : <<L!Spot(n, p), part[n]>> = h /\ claim[n].value = v}
           Abandoned(x, v) == \E n \in DOMAIN part \ assigned : L!Spot(n, p) = x /\ claim[n].value = v
           Verdict(x, v) ==
             IF \E h \in Heirs(x, v) : TRUE THEN verdict[(CHOOSE h \in Heirs(x, v) : TRUE)[1], v]
             ELSE IF x \in parent /\ v \in L!ActiveValues(x) /\ verdict[x, v] \in L!Settled
             THEN (IF Abandoned(x, v) THEN "CONTESTED" ELSE "SUPERSEDED") ELSE verdict[x, v]
<1>1. /\ frame' = [f \in Frames |-> IF f = p THEN "SPLIT" ELSE IF f \in {one, two} THEN "ACTIVE" ELSE frame[f]]
      /\ lineage' = lineage \cup {<<p, one, "SPLIT_INTO">>, <<p, two, "SPLIT_INTO">>}
      /\ slot' = [x \in Slots |->
                    IF \E h \in mixed : name[h] = x
                    THEN LET f == IF (CHOOSE h \in mixed : name[h] = x)[2] = 1 THEN one ELSE two
                         IN  [row |-> f, index |-> f, lifecycle |-> "ACTIVE"]
                    ELSE slot[x]]
      /\ verdict' = [q \in Slots \X Values |-> Verdict(q[1], q[2])]
      /\ support' = support \cup {<<n, name[<<L!Spot(n, p), part[n]>>]>> : n \in assigned}
      /\ claim' = [n \in Statements |->
                     IF n \in DOMAIN part \ assigned /\ claim[n].lifecycle \in L!Contestable
                     THEN [claim[n] EXCEPT !.lifecycle = "CONTESTED"] ELSE claim[n]]
      /\ UNCHANGED <<into, writer>>
  BY DEF L!SplitFrame
<1>2. frame[p] = "ACTIVE" /\ one \in Frames /\ two \in Frames /\ frame[one] = "unused" /\ frame[two] = "unused"
  BY DEF L!SplitFrame, L!FreshFrames, L!Unused
<1>3. DOMAIN part \subseteq Statements /\ assigned \subseteq Statements /\ assigned \subseteq DOMAIN part
  BY DEF L!Speaking
<1>4. ASSUME NEW n \in DOMAIN part PROVE L!Spot(n, p) \in Slots
  <2>1. L!Spots(n, p) # {} /\ L!Spots(n, p) \subseteq Slots
    BY DEF L!Speaking, L!Spots, L!FrameSlots
  <2> QED
    BY <2>1, LeastIsFirst, IdentifierAssumption DEF L!Spot
<1>5. mixed = {<<L!Spot(n, p), part[n]>> : n \in assigned}
  BY DEF L!Mixed
<1>6. \A h \in mixed : h[1] \in Slots
  BY <1>3, <1>4, <1>5
<1>7. name \in [mixed -> Slots]
  <2>1. L!TheFirst(L!Cardinality(L!Mixed(p, part)), L!FreshSlots) \subseteq Slots
    BY DEF L!TheFirst, L!FreshSlots
  <2> QED
    BY <2>1
<1> HIDE DEF mixed
<1>8. frame' \in [Frames -> LifeOfFrames]
  BY <1>1, LineageTypes DEF LifeOfFrames
<1>9. /\ lineage' \subseteq Frames \X Frames \X {"MERGED_INTO", "SPLIT_INTO"}
      /\ RowsOf(p)' = RowsOf(p) \cup {<<p, one, "SPLIT_INTO">>, <<p, two, "SPLIT_INTO">>}
      /\ \A f \in Frames \ {p} : RowsOf(f)' = RowsOf(f)
  <2> DEFINE new == {<<p, one, "SPLIT_INTO">>, <<p, two, "SPLIT_INTO">>}
  <2>1. \A row \in new : row \in Frames \X Frames \X {"MERGED_INTO", "SPLIT_INTO"} /\ row[1] = p
    BY <1>2
  <2>2. lineage' = lineage \cup new
    BY <1>1
  <2>3. lineage \subseteq Frames \X Frames \X {"MERGED_INTO", "SPLIT_INTO"}
    BY LineageTypes
  <2> HIDE DEF new
  <2>4. /\ lineage' \subseteq Frames \X Frames \X {"MERGED_INTO", "SPLIT_INTO"}
        /\ RowsOf(p)' = RowsOf(p) \cup new
        /\ \A f \in Frames \ {p} : RowsOf(f)' = RowsOf(f)
    BY <2>1, <2>2, <2>3, NewRows
  <2> QED
    BY <2>4 DEF new
<1>10. slot' \in [Slots -> SlotRows]
  <2>1. ASSUME NEW f \in {one, two} PROVE [row |-> f, index |-> f, lifecycle |-> "ACTIVE"] \in SlotRows
    BY <1>2 DEF SlotRows
  <2>2. slot \in [Slots -> SlotRows]
    BY LineageTypes
  <2>3. ASSUME NEW x \in Slots PROVE slot'[x] \in SlotRows
    BY <1>1, <2>1, <2>2
  <2> QED
    BY <1>1, <2>3
<1>11. verdict' \in [Slots \X Values -> L!Assessments]
  <2>1. "SUPERSEDED" \in L!Assessments /\ "CONTESTED" \in L!Assessments
    BY DEF L!Assessments, L!Settled
  <2>2. verdict \in [Slots \X Values -> L!Assessments]
    BY LineageTypes
  <2>3. ASSUME NEW x \in Slots, NEW v \in Values PROVE Verdict(x, v) \in L!Assessments
    <3>1. CASE \E h \in Heirs(x, v) : TRUE
      <4>1. (CHOOSE h \in Heirs(x, v) : TRUE) \in Heirs(x, v)
        BY <3>1
      <4>2. Heirs(x, v) \subseteq mixed
        OBVIOUS
      <4> HIDE DEF Heirs
      <4>3. (CHOOSE h \in Heirs(x, v) : TRUE)[1] \in Slots
        BY <1>6, <4>1, <4>2
      <4> QED
        BY <2>2, <3>1, <4>3
    <3> HIDE DEF Heirs, Abandoned, parent
    <3> QED
      BY <2>1, <2>2, <3>1
  <2> HIDE DEF Verdict
  <2> QED
    BY <1>1, <2>3
<1>12. support' \subseteq Statements \X Slots
  <2>1. \A n \in assigned : name[<<L!Spot(n, p), part[n]>>] \in Slots
    BY <1>5, <1>7
  <2> DEFINE new == {<<n, name[<<L!Spot(n, p), part[n]>>]>> : n \in assigned}
  <2>2. new \subseteq Statements \X Slots
    <3> SUFFICES ASSUME NEW n \in assigned PROVE <<n, name[<<L!Spot(n, p), part[n]>>]>> \in Statements \X Slots
      OBVIOUS
    <3> HIDE DEF assigned
    <3>1. n \in Statements
      BY <1>3
    <3> QED
      BY <2>1, <3>1
  <2>3. support' = support \cup new /\ support \subseteq Statements \X Slots
    BY <1>1, LineageTypes
  <2> HIDE DEF new
  <2> QED
    BY <2>2, <2>3
<1>13. claim' \in [Statements -> {L!NoClaim} \cup ClaimRows]
  <2>1. ASSUME NEW n \in Statements, claim[n].lifecycle \in L!Contestable
        PROVE  [claim[n] EXCEPT !.lifecycle = "CONTESTED"] \in ClaimRows
    <3>1. claim[n] \in ClaimRows
      BY <2>1, LineageTypes DEF L!NoClaim, L!Contestable, L!Unused
    <3> QED
      BY <3>1 DEF ClaimRows
  <2>2. claim \in [Statements -> {L!NoClaim} \cup ClaimRows]
    BY LineageTypes
  <2>3. ASSUME NEW n \in Statements PROVE claim'[n] \in {L!NoClaim} \cup ClaimRows
    BY <1>1, <2>1, <2>2
  <2> QED
    BY <1>1, <2>3
<1>14. RowsFit'
  <2>1. RowsFit /\ frame \in [Frames -> LifeOfFrames]
    BY LineageTypes
  <2>2. <<p, one, "SPLIT_INTO">> \in RowsOf(p)' /\ frame'[p] = "SPLIT"
    BY <1>1, <1>9
  <2>3. ASSUME NEW f \in Frames, f # p PROVE RowsOf(f)' = RowsOf(f)
    BY <1>9, <2>3
  <2>4. ASSUME NEW f \in Frames, f # p
        PROVE  frame'[f] = frame[f] \/ (frame'[f] = "ACTIVE" /\ frame[f] = "unused")
    BY <1>1, <1>2, <2>4
  <2> QED
    BY <2>1, <2>2, <2>3, <2>4 DEF RowsFit
<1> QED
  BY <1>1, <1>8, <1>9, <1>10, <1>11, <1>12, <1>13, <1>14, LineageTypes

LEMMA LineageTypeStep == L!LineageTypeOK /\ [L!LineageNext]_identities => L!LineageTypeOK'
<1> SUFFICES ASSUME L!LineageTypeOK, L!LineageNext \/ UNCHANGED identities PROVE L!LineageTypeOK'
  OBVIOUS
<1>1. CASE UNCHANGED identities
  BY <1>1, LineageTypes DEF identities, RowsFit, RowsOf
<1>2. CASE L!LineageNext
  BY <1>2, CanonicalizationTypes, MergeTypes, SplitTypes DEF L!LineageNext
<1> QED
  BY <1>1, <1>2

\* What a step does to each of the three it may be about.
LEMMA MCSteps ==
  ASSUME MCNext \/ UNCHANGED <<vars, identities, answerVars, alone, subject>>
  PROVE  [Next]_vars /\ [AnswerNext]_answerVars /\ [L!LineageNext]_identities
<1>1. CASE subject = "governor" /\ Next /\ UNCHANGED <<identities, answerVars, subject>>
  BY <1>1
<1>2. CASE subject = "lineage" /\ L!LineageNext /\ UNCHANGED <<vars, answerVars, subject>>
  BY <1>2
<1>3. CASE subject = "answering" /\ AnswerNext /\ UNCHANGED <<vars, identities, alone, subject>>
  BY <1>3
<1>4. CASE UNCHANGED <<vars, identities, answerVars, alone, subject>>
  BY <1>4
<1> QED
  BY <1>1, <1>2, <1>3, <1>4 DEF MCNext

\* Whichever of the three a run is about, its variables have their types; of merges and
\* splits these say that a retired frame has its row in the lineage, a merged one just one.
THEOREM BeliefTypes == MCSpec => []TypesOK
<1> DEFINE EachTyped == IInv /\ AnswerInv /\ L!LineageTypeOK
<1>1. MCInit => EachTyped
  BY InvInit, InitHolds, LineageTypeInit DEF MCInit
<1>2. EachTyped /\ [MCNext]_<<vars, identities, answerVars, alone, subject>> => EachTyped'
  BY MCSteps, InvStep, NextHolds, LineageTypeStep
<1>3. EachTyped => TypesOK
  BY DEF TypesOK, IInv, AnswerInv
<1> QED
  BY <1>1, <1>2, <1>3, PTL DEF MCSpec

-----------------------------------------------------------------------------
(* Where an old identifier leads.                                          *)

\* The frame that a frame was merged into, itself if it was not.
Absorber ==
  [g \in Frames |->
     LET absorbing == {row[2] : row \in {r \in L!Merges : r[1] = g}}
     IN  IF absorbing = {} THEN g ELSE L!Least(absorbing)]

\* The end of the chain of merges, which the survivor is unless it was split.
Last(f) ==
  LET chain[n \in 0..L!Cardinality(L!Merges)] ==
        IF n = 0 THEN f
        ELSE LET g == chain[n - 1]
                 absorbing == {row[2] : row \in {r \in L!Merges : r[1] = g}}
             IN  IF absorbing = {} THEN g ELSE L!Least(absorbing)
  IN  chain[L!Cardinality(L!Merges)]

LEMMA SurvivorIs ==
  \A f : L!Survivor(f) = IF \E row \in lineage : row[1] = Last(f) /\ row[3] = "SPLIT_INTO" THEN 0 ELSE Last(f)
  BY DEF L!Survivor, Last

\* There are finitely many rows, each from a frame that was retired that way to one that
\* was there, and they lead out of every set of frames.
LineageWell ==
  /\ IsFiniteSet(lineage)
  /\ \A row \in lineage : /\ frame[row[2]] # "unused"
                          /\ row[3] = "MERGED_INTO" => frame[row[1]] = "MERGED"
                          /\ row[3] = "SPLIT_INTO" => frame[row[1]] = "SPLIT"
  /\ \A S \in SUBSET Frames : S # {} => \E f \in S : \A row \in lineage : row[1] = f => row[2] \notin S

LEMMA RowsAre ==
  ASSUME L!LineageTypeOK, LineageWell
  PROVE  /\ \A row \in lineage : /\ row[1] \in Frames /\ row[2] \in Frames
                                 /\ row \in L!Merges <=> frame[row[1]] = "MERGED"
                                 /\ row[3] = "SPLIT_INTO" <=> frame[row[1]] = "SPLIT"
         /\ L!Merges \subseteq lineage
         /\ \A g \in Frames : frame[g] \in {"MERGED", "SPLIT"} <=> \E row \in lineage : row[1] = g
         /\ \A r, q \in lineage : r[1] = q[1] /\ frame[r[1]] = "MERGED" => r = q
<1>1. /\ RowsFit /\ frame \in [Frames -> LifeOfFrames]
      /\ lineage \subseteq Frames \X Frames \X {"MERGED_INTO", "SPLIT_INTO"}
  BY LineageTypes
<1>2. ASSUME NEW row \in lineage
      PROVE  /\ row[1] \in Frames /\ row[2] \in Frames
             /\ row \in L!Merges <=> frame[row[1]] = "MERGED"
             /\ row[3] = "SPLIT_INTO" <=> frame[row[1]] = "SPLIT"
  <2>1. row[1] \in Frames /\ row[2] \in Frames /\ row[3] \in {"MERGED_INTO", "SPLIT_INTO"}
    BY <1>1
  <2> QED
    BY <2>1 DEF LineageWell, L!Merges
<1>3. \A g \in Frames : frame[g] \in {"MERGED", "SPLIT"} <=> \E row \in lineage : row[1] = g
  BY <1>1 DEF RowsFit, RowsOf
<1>4. ASSUME NEW r \in lineage, NEW q \in lineage, r[1] = q[1], frame[r[1]] = "MERGED" PROVE r = q
  <2>1. Cardinality(RowsOf(r[1])) = 1
    BY <1>1, <1>2, <1>4 DEF RowsFit
  <2>2. RowsOf(r[1]) \in SUBSET lineage
    BY DEF RowsOf
  <2>3. IsFiniteSet(RowsOf(r[1]))
    BY <2>2, FS_Subset DEF LineageWell
  <2>4. PICK x : RowsOf(r[1]) = {x}
    BY <2>1, <2>3, FS_Singleton
  <2> QED
    BY <1>4, <2>4 DEF RowsOf
<1> QED
  BY <1>2, <1>3, <1>4 DEF L!Merges

LEMMA AbsorberIs ==
  ASSUME L!LineageTypeOK, LineageWell
  PROVE  /\ Absorber \in [Frames -> Frames]
         /\ \A g \in Frames : frame[g] # "MERGED" => Absorber[g] = g
         /\ \A row \in L!Merges : Absorber[row[1]] = row[2]
<1> DEFINE absorbing(g) == {row[2] : row \in {r \in L!Merges : r[1] = g}}
<1>1. ASSUME NEW g \in Frames, frame[g] # "MERGED" PROVE Absorber[g] = g
  <2>1. absorbing(g) = {}
    BY <1>1, RowsAre
  <2> QED
    BY <2>1 DEF Absorber
<1>2. ASSUME NEW row \in L!Merges PROVE Absorber[row[1]] = row[2]
  <2>1. row \in lineage /\ row[1] \in Frames /\ row[2] \in Frames /\ frame[row[1]] = "MERGED"
    BY RowsAre
  <2>2. \A r \in L!Merges : r[1] = row[1] => r = row
    BY <2>1, RowsAre
  <2>3. absorbing(row[1]) = {row[2]}
    BY <2>2
  <2>4. {row[2]} \subseteq Nat /\ {row[2]} # {}
    BY <2>1, IdentifierAssumption
  <2>5. L!Least({row[2]}) = row[2]
    BY <2>4, LeastIsFirst
  <2> QED
    BY <2>1, <2>3, <2>5 DEF Absorber
<1>3. ASSUME NEW g \in Frames PROVE Absorber[g] \in Frames
  <2>1. CASE frame[g] # "MERGED"
    BY <1>1, <2>1
  <2>2. CASE frame[g] = "MERGED"
    <3>1. PICK row \in lineage : row[1] = g
      BY <2>2, RowsAre
    <3>2. row \in L!Merges /\ row[2] \in Frames
      BY <2>2, <3>1, RowsAre
    <3> QED
      BY <1>2, <3>1, <3>2
  <2> QED
    BY <2>1, <2>2
<1>4. Absorber \in [Frames -> Frames]
  <2>1. Absorber = [g \in Frames |-> Absorber[g]]
    BY DEF Absorber
  <2> QED
    BY <1>3, <2>1
<1> QED
  BY <1>1, <1>2, <1>4

\* How many rounds there are.
LEMMA MergesCounted ==
  ASSUME LineageWell
  PROVE  IsFiniteSet(L!Merges) /\ Cardinality(L!Merges) \in Nat /\ L!Cardinality(L!Merges) = Cardinality(L!Merges)
<1>1. L!Merges \in SUBSET lineage
  BY DEF L!Merges
<1>2. IsFiniteSet(L!Merges)
  BY <1>1, FS_Subset DEF LineageWell
<1> QED
  BY <1>2, FS_CardinalityType, SameCount

\* The chain is a run of the absorber.
LEMMA ChainRuns ==
  ASSUME L!LineageTypeOK, LineageWell, NEW f \in Frames
  PROVE  LET N == Cardinality(L!Merges)
         IN \E g \in [0..N -> Frames] : g[0] = f /\ Run(g, N, Absorber) /\ Last(f) = g[N]
<1> DEFINE N == Cardinality(L!Merges)
           After(h) == LET absorbing == {row[2] : row \in {r \in L!Merges : r[1] = h}}
                       IN  IF absorbing = {} THEN h ELSE L!Least(absorbing)
           Is(c) == c = [n \in 0..N |-> IF n = 0 THEN f ELSE LET h == c[n - 1] IN After(h)]
           chain == CHOOSE c : Is(c)
<1>1. N \in Nat /\ L!Cardinality(L!Merges) = N
  BY MergesCounted
<1>2. Absorber \in [Frames -> Frames] /\ \A h \in Frames : Absorber[h] = After(h)
  BY AbsorberIs DEF Absorber
<1>3. Last(f) = chain[N]
  <2> HIDE DEF N
  <2> QED
    BY <1>1 DEF Last
<1> HIDE DEF N, After
<1>4. PICK g \in [0..N -> Frames] : g[0] = f /\ Run(g, N, Absorber)
  <2>1. Runs(N, Frames, f, Absorber) # {}
    BY <1>1, <1>2, RunExists
  <2> QED
    BY <2>1 DEF Runs
<1>5. \A n \in 0..N : g[n] = IF n = 0 THEN f ELSE After(g[n - 1])
  <2>1. \A n \in 0..N : n # 0 => n \in 1..N /\ n - 1 \in 0..N
    BY <1>1
  <2> QED
    BY <1>2, <1>4, <2>1 DEF Run
<1>6. Is(g)
  BY <1>4, <1>5
<1>7. Is(chain)
  <2> HIDE DEF Is
  <2> QED
    BY <1>6
<1>8. \A n \in 0..N : chain[n] = g[n]
  <2> DEFINE T == {n \in 0..N : chain[n] = g[n]}
  <2> HIDE DEF chain
  <2>1. 0 \in T
    BY <1>1, <1>4, <1>7
  <2>2. ASSUME NEW n \in 0..N, n + 1 \in 0..N, n \in T PROVE n + 1 \in T
    <3>1. n + 1 # 0 /\ (n + 1) - 1 = n
      BY <1>1
    <3>2. chain[n + 1] = After(chain[n])
      BY <1>7, <2>2, <3>1
    <3>3. g[n + 1] = After(g[n])
      BY <1>5, <2>2, <3>1
    <3> QED
      BY <2>2, <3>2, <3>3
  <2>3. 0..N \subseteq T
    <3> HIDE DEF T
    <3> QED
      BY <1>1, <2>1, <2>2, AllRounds
  <2> QED
    BY <2>3
<1>9. N \in 0..N
  BY <1>1
<1> QED
  BY <1>3, <1>4, <1>8, <1>9 DEF N

\* The chain ends at a frame that was not merged.
LEMMA ChainEnds ==
  ASSUME L!LineageTypeOK, LineageWell, NEW f \in Frames
  PROVE  Last(f) \in Frames /\ frame[Last(f)] # "MERGED"
<1> DEFINE N == Cardinality(L!Merges)
           P == {f} \cup {row[2] : row \in L!Merges}
           F == [s \in SUBSET P |-> s \cup {row[2] : row \in {r \in L!Merges : r[1] \in s}}]
<1>1. N \in Nat /\ IsFiniteSet(L!Merges)
  BY MergesCounted
<1>2. PICK g \in [0..N -> Frames] : g[0] = f /\ Run(g, N, Absorber) /\ Last(f) = g[N]
  BY ChainRuns
<1> DEFINE V == [n \in 0..N |-> {g[m] : m \in 0..n}]
<1>3. IsFiniteSet(P \ {f}) /\ Cardinality(P \ {f}) <= N
  <2> DEFINE Q == {row[2] : row \in L!Merges}
  <2>1. IsFiniteSet(Q) /\ Cardinality(Q) <= N
    BY <1>1, ColumnIsSmall
  <2>2. P \ {f} \in SUBSET Q
    OBVIOUS
  <2> HIDE DEF Q, N, P
  <2>3. IsFiniteSet(P \ {f}) /\ Cardinality(P \ {f}) <= Cardinality(Q)
    BY <2>1, <2>2, FS_Subset
  <2> QED
    BY <1>1, <2>1, <2>3, FS_CardinalityType
<1>4. Adds(F, P)
  BY DEF Adds
<1>5. ASSUME NEW n \in 1..N PROVE g[n] = Absorber[g[n - 1]] /\ g[n - 1] \in Frames /\ n - 1 \in 0..N /\ n \in 0..N
  BY <1>1, <1>2 DEF Run
<1>6. \A n \in 0..N : V[n] \in SUBSET P
  <2> DEFINE T == {h \in Frames : h \in P}
  <2>1. \A n \in 1..N : g[n - 1] \in T => g[n] \in T
    <3> SUFFICES ASSUME NEW n \in 1..N, g[n - 1] \in T PROVE g[n] \in T
      OBVIOUS
    <3>1. g[n] = Absorber[g[n - 1]] /\ g[n - 1] \in Frames /\ g[n] \in Frames
      BY <1>1, <1>2, <1>5
    <3>2. CASE frame[g[n - 1]] # "MERGED"
      BY <3>1, <3>2, AbsorberIs
    <3>3. CASE frame[g[n - 1]] = "MERGED"
      <4>1. PICK row \in L!Merges : row[1] = g[n - 1]
        BY <3>1, <3>3, RowsAre
      <4> QED
        BY <3>1, <4>1, AbsorberIs
    <3> QED
      BY <3>2, <3>3
  <2>2. g[0] \in T
    BY <1>2
  <2>3. \A n \in 0..N : g[n] \in T
    <3> HIDE DEF T, N
    <3> QED
      BY <1>1, <2>1, <2>2, RunStays
  <2>4. \A n \in 0..N : \A m \in 0..n : m \in 0..N
    BY <1>1
  <2> HIDE DEF P, N
  <2> QED
    BY <2>3, <2>4
<1>7. V[0] = {f}
  BY <1>1, <1>2
<1>8. Run(V, N, F)
  <2> SUFFICES ASSUME NEW n \in 1..N PROVE V[n] = F[V[n - 1]]
    BY DEF Run
  <2>1. n \in 0..N /\ n - 1 \in 0..N /\ g[n] = Absorber[g[n - 1]] /\ g[n - 1] \in Frames /\ n - 1 \in 0..(n - 1)
    BY <1>1, <1>5
  <2>2. V[n] = V[n - 1] \cup {g[n]}
    <3>1. 0..n = 0..(n - 1) \cup {n}
      BY <1>1
    <3> QED
      BY <2>1, <3>1
  <2>3. F[V[n - 1]] = V[n - 1] \cup {row[2] : row \in {r \in L!Merges : r[1] \in V[n - 1]}}
    BY <1>6, <2>1
  <2>4. ASSUME NEW row \in L!Merges, row[1] \in V[n - 1] PROVE row[2] \in V[n]
    <3>1. PICK m \in 0..(n - 1) : row[1] = g[m]
      BY <2>1, <2>4
    <3>2. m + 1 \in 1..N /\ (m + 1) - 1 = m /\ m + 1 \in 0..n
      BY <1>1
    <3>3. g[m + 1] = Absorber[row[1]]
      BY <1>5, <3>1, <3>2
    <3>4. g[m + 1] = row[2]
      BY <3>3, AbsorberIs
    <3>5. V[n] = {g[j] : j \in 0..n}
      BY <2>1
    <3> HIDE DEF V
    <3> QED
      BY <3>2, <3>4, <3>5
  <2>5. g[n] \in F[V[n - 1]]
    <3>1. g[n - 1] \in V[n - 1]
      BY <2>1
    <3>2. CASE frame[g[n - 1]] # "MERGED"
      BY <2>1, <2>3, <3>1, <3>2, AbsorberIs
    <3>3. CASE frame[g[n - 1]] = "MERGED"
      <4>1. PICK row \in L!Merges : row[1] = g[n - 1]
        BY <2>1, <3>3, RowsAre
      <4>2. g[n] = row[2]
        BY <2>1, <4>1, AbsorberIs
      <4> QED
        BY <2>3, <3>1, <4>1, <4>2
    <3> QED
      BY <3>2, <3>3
  <2> HIDE DEF V, F
  <2> QED
    BY <2>2, <2>3, <2>4, <2>5
<1>9. F[V[N]] = V[N]
  <2> DEFINE base == {f}
  <2>1. V[0] = base /\ Enough(N, P, base)
    <3> HIDE DEF V
    <3> QED
      BY <1>1, <1>3, <1>7 DEF Enough
  <2> HIDE DEF V, F, P, N, base
  <2> QED
    BY <1>1, <1>4, <1>8, <2>1, RoundsReach
<1>10. PICK h \in V[N] : \A row \in lineage : row[1] = h => row[2] \notin V[N]
  <2>1. V[N] \in SUBSET Frames /\ V[N] # {}
    BY <1>1, <1>2
  <2> HIDE DEF V
  <2> QED
    BY <2>1 DEF LineageWell
<1>11. PICK i \in 0..N : h = g[i]
  BY <1>1
<1>12. frame[h] # "MERGED"
  <2> SUFFICES ASSUME frame[h] = "MERGED" PROVE FALSE
    OBVIOUS
  <2>1. h \in Frames
    BY <1>2, <1>11
  <2>2. PICK row \in L!Merges : row[1] = h /\ row \in lineage
    BY <2>1, RowsAre
  <2>3. row[2] \in F[V[N]]
    <3>1. V[N] \in SUBSET P
      BY <1>1, <1>6
    <3> HIDE DEF V, P
    <3> QED
      BY <1>10, <2>2, <3>1
  <2> QED
    BY <1>9, <1>10, <2>2, <2>3
<1>13. \A n \in 0..N : n >= i => g[n] = h
  <2> DEFINE T == {n \in 0..N : n >= i => g[n] = h}
  <2>1. 0 \in T
    BY <1>1, <1>11
  <2>2. ASSUME NEW n \in 0..N, n + 1 \in 0..N, n \in T PROVE n + 1 \in T
    <3>1. CASE n + 1 = i
      BY <1>11, <2>2, <3>1
    <3>2. CASE n + 1 > i
      <4>1. g[n] = h /\ n + 1 \in 1..N /\ (n + 1) - 1 = n
        BY <1>1, <2>2, <3>2
      <4>2. g[n + 1] = Absorber[h] /\ h \in Frames
        BY <1>5, <4>1
      <4> QED
        BY <1>12, <2>2, <4>2, AbsorberIs
    <3>3. CASE n + 1 < i
      BY <1>1, <2>2, <3>3
    <3> QED
      BY <1>1, <3>1, <3>2, <3>3
  <2>3. 0..N \subseteq T
    <3> HIDE DEF T, N
    <3> QED
      BY <1>1, <2>1, <2>2, AllRounds
  <2> QED
    BY <2>3
<1>14. g[N] = h /\ g[N] \in Frames
  <2>1. N \in 0..N /\ N >= i
    BY <1>1, <1>11
  <2> QED
    BY <1>2, <1>13, <2>1
<1> QED
  BY <1>2, <1>12, <1>14

\* A frame that was not merged is the end of its chain; a merged one shares the end with
\* the frame it was merged into.
LEMMA LastSteps ==
  ASSUME L!LineageTypeOK, LineageWell
  PROVE  /\ \A f \in Frames : frame[f] # "MERGED" => Last(f) = f
         /\ \A row \in L!Merges : Last(row[1]) = Last(row[2])
<1> DEFINE N == Cardinality(L!Merges)
<1>1. N \in Nat /\ IsFiniteSet(L!Merges)
  BY MergesCounted
<1>2. ASSUME NEW f \in Frames, frame[f] # "MERGED" PROVE Last(f) = f
  <2>1. PICK g \in [0..N -> Frames] : g[0] = f /\ Run(g, N, Absorber) /\ Last(f) = g[N]
    BY ChainRuns
  <2> DEFINE S == {f}
  <2>2. g[0] \in S /\ \A n \in 1..N : g[n - 1] \in S => g[n] \in S
    BY <1>2, <2>1, AbsorberIs DEF Run
  <2>3. \A n \in 0..N : g[n] \in S
    <3> HIDE DEF N, S
    <3> QED
      BY <1>1, <2>2, RunStays
  <2> QED
    BY <1>1, <2>1, <2>3
<1>3. ASSUME NEW row \in L!Merges PROVE Last(row[1]) = Last(row[2])
  <2>1. row[1] \in Frames /\ row[2] \in Frames
    BY RowsAre
  <2>2. PICK g \in [0..N -> Frames] : g[0] = row[1] /\ Run(g, N, Absorber) /\ Last(row[1]) = g[N]
    BY <2>1, ChainRuns
  <2>3. PICK h \in [0..N -> Frames] : h[0] = row[2] /\ Run(h, N, Absorber) /\ Last(row[2]) = h[N]
    BY <2>1, ChainRuns
  <2>4. N # 0
    BY <1>1, FS_EmptySet
  <2> DEFINE T == {n \in 0..N : n + 1 \in 0..N => g[n + 1] = h[n]}
  <2>5. 0 \in T
    <3>1. 1 \in 1..N /\ 1 - 1 = 0
      BY <1>1, <2>4
    <3>2. g[1] = Absorber[g[0]]
      BY <2>2, <3>1 DEF Run
    <3> QED
      BY <1>1, <2>2, <2>3, <3>2, AbsorberIs
  <2>6. ASSUME NEW n \in 0..N, n + 1 \in 0..N, n \in T PROVE n + 1 \in T
    <3> SUFFICES ASSUME (n + 1) + 1 \in 0..N PROVE g[(n + 1) + 1] = h[n + 1]
      BY <2>6
    <3>1. /\ n + 1 \in 1..N /\ (n + 1) - 1 = n
          /\ (n + 1) + 1 \in 1..N /\ ((n + 1) + 1) - 1 = n + 1
      BY <1>1, <2>6
    <3>2. g[(n + 1) + 1] = Absorber[g[n + 1]] /\ h[n + 1] = Absorber[h[n]]
      BY <2>2, <2>3, <3>1 DEF Run
    <3> QED
      BY <2>6, <3>2
  <2>7. 0..N \subseteq T
    <3> HIDE DEF T, N
    <3> QED
      BY <1>1, <2>5, <2>6, AllRounds
  <2>8. N - 1 \in 0..N /\ (N - 1) + 1 = N /\ N \in 0..N /\ N \in 1..N
    BY <1>1, <2>4
  <2>9. g[N] = h[N - 1]
    BY <2>7, <2>8
  <2>10. h[N] = Absorber[h[N - 1]]
    BY <2>3, <2>8 DEF Run
  <2>11. g[N] \in Frames /\ frame[g[N]] # "MERGED"
    BY <2>1, <2>2, ChainEnds
  <2> QED
    BY <2>2, <2>3, <2>9, <2>10, <2>11, AbsorberIs
<1> QED
  BY <1>2, <1>3

LEMMA LineageCounted ==
  ASSUME LineageWell
  PROVE  IsFiniteSet(lineage) /\ Cardinality(lineage) \in Nat /\ L!Cardinality(lineage) = Cardinality(lineage)
  BY FS_CardinalityType, SameCount DEF LineageWell

\* The members of a frame are the least set that has it and all that merged into them.
LEMMA MembersAreLeast ==
  ASSUME L!LineageTypeOK, LineageWell, NEW f \in Frames
  PROVE  /\ f \in L!Members(f) /\ L!Members(f) \subseteq {f} \cup {row[1] : row \in L!Merges}
         /\ \A row \in L!Merges : row[2] \in L!Members(f) => row[1] \in L!Members(f)
         /\ \A U : f \in U /\ (\A row \in L!Merges : row[2] \in U => row[1] \in U) => L!Members(f) \subseteq U
<1> DEFINE N == Cardinality(L!Merges)
           P == {f} \cup {row[1] : row \in L!Merges}
           Add(s) == {row[1] : row \in {r \in L!Merges : r[2] \in s}}
           F == [s \in SUBSET P |-> s \cup Add(s)]
           base == {f}
           Is(c) == c = [n \in 0..N |-> IF n = 0 THEN base ELSE LET found == c[n - 1] IN found \cup Add(found)]
           reach == CHOOSE c : Is(c)
<1>1. N \in Nat /\ L!Cardinality(L!Merges) = N
  BY MergesCounted
<1>2. Enough(N, P, base)
  <2> DEFINE Q == {row[1] : row \in L!Merges}
  <2>1. IsFiniteSet(Q) /\ Cardinality(Q) <= N
    BY MergesCounted, ColumnIsSmall
  <2>2. P \ base \in SUBSET Q /\ base \in SUBSET P
    OBVIOUS
  <2> HIDE DEF Q, N, P, base
  <2>3. IsFiniteSet(P \ base) /\ Cardinality(P \ base) <= Cardinality(Q)
    BY <2>1, <2>2, FS_Subset
  <2> QED
    BY <1>1, <2>1, <2>2, <2>3, FS_CardinalityType DEF Enough
<1>3. \A s : Add(s) \subseteq P
  OBVIOUS
<1>4. F \in [SUBSET P -> SUBSET P] /\ \A s \in SUBSET P : F[s] = s \cup Add(s)
  BY <1>3
<1>5. L!Members(f) = reach[N]
  <2> HIDE DEF N
  <2> QED
    BY <1>1 DEF L!Members
<1> HIDE DEF N, Add, P, F, base
<1>6. PICK g \in [0..N -> SUBSET P] : g[0] = base /\ Run(g, N, F)
  <2>1. Runs(N, SUBSET P, base, F) # {}
    BY <1>1, <1>2, <1>4, RunExists DEF Enough
  <2> QED
    BY <2>1 DEF Runs
<1>7. \A n \in 0..N : g[n] = IF n = 0 THEN base ELSE g[n - 1] \cup Add(g[n - 1])
  <2>1. \A n \in 0..N : n # 0 => n \in 1..N /\ n - 1 \in 0..N
    BY <1>1
  <2> QED
    BY <1>4, <1>6, <2>1 DEF Run
<1>8. Is(g)
  BY <1>6, <1>7
<1>9. Is(reach)
  <2> HIDE DEF Is
  <2> QED
    BY <1>8
<1> HIDE DEF reach
<1>10. reach[0] = base /\ \A n \in 1..N : reach[n] = reach[n - 1] \cup Add(reach[n - 1])
  <2>1. 0 \in 0..N /\ \A n \in 1..N : n \in 0..N /\ n # 0
    BY <1>1
  <2> QED
    BY <1>9, <2>1
<1>11. \A n \in 0..N : reach[n] \in SUBSET P
  <2> DEFINE S == SUBSET P
  <2>1. reach[0] \in S /\ \A n \in 1..N : reach[n - 1] \in S => reach[n] \in S
    BY <1>2, <1>3, <1>10 DEF Enough
  <2> HIDE DEF S
  <2>2. \A n \in 0..N : reach[n] \in S
    BY <1>1, <2>1, RunStays
  <2> QED
    BY <2>2 DEF S
<1>12. Run(reach, N, F) /\ Adds(F, P)
  <2>1. \A n \in 1..N : n - 1 \in 0..N
    BY <1>1
  <2> QED
    BY <1>4, <1>10, <1>11, <2>1 DEF Run, Adds
<1>13. /\ reach[N] \in SUBSET P /\ base \subseteq reach[N] /\ F[reach[N]] = reach[N]
       /\ \A U : base \subseteq U /\ (\A s \in SUBSET P : s \subseteq U => F[s] \subseteq U) => reach[N] \subseteq U
  BY <1>2, <1>10, <1>12, RoundsReach
<1>14. Add(reach[N]) \subseteq reach[N]
  BY <1>4, <1>13
<1>15. ASSUME NEW U, f \in U, (\A row \in L!Merges : row[2] \in U => row[1] \in U) PROVE reach[N] \subseteq U
  <2>1. \A s \in SUBSET P : s \subseteq U => F[s] \subseteq U
    BY <1>4, <1>15 DEF Add
  <2>2. base \subseteq U
    BY <1>15 DEF base
  <2> QED
    BY <1>13, <2>1, <2>2
<1> HIDE DEF Is
<1> QED
  BY <1>5, <1>13, <1>14, <1>15 DEF Add, P, base

\* A frame at which the forward query stops.
Stops(g) == frame[g] = "ACTIVE" \/ \A row \in lineage : row[1] # g

\* What the forward query passes through.
Passed(f) ==
  LET Successors(g) == {row[2] : row \in {r \in lineage : r[1] = g}}
      Ends(g) == frame[g] = "ACTIVE" \/ Successors(g) = {}
      frontier[n \in 0..L!Cardinality(lineage)] ==
        IF n = 0 THEN {f}
        ELSE LET found == frontier[n - 1] IN found \cup UNION {Successors(g) : g \in {h \in found : ~Ends(h)}}
  IN  frontier[L!Cardinality(lineage)]

LEMMA ResolvesToIs == \A f : L!ResolvesTo(f) = {g \in Passed(f) : Stops(g)}
<1> SUFFICES ASSUME NEW f PROVE L!ResolvesTo(f) = {g \in Passed(f) : Stops(g)}
  OBVIOUS
<1> DEFINE Ends(g) == frame[g] = "ACTIVE" \/ {row[2] : row \in {r \in lineage : r[1] = g}} = {}
<1>1. L!ResolvesTo(f) = {g \in Passed(f) : Ends(g)}
  BY DEF L!ResolvesTo, Passed
<1>2. \A g : Ends(g) <=> Stops(g)
  BY DEF Stops
<1> HIDE DEF Ends
<1> QED
  BY <1>1, <1>2

\* It passes through the least set that has the frame and, where it does not stop, the
\* successors.
LEMMA PassedIsLeast ==
  ASSUME L!LineageTypeOK, LineageWell, NEW f \in Frames
  PROVE  /\ f \in Passed(f) /\ Passed(f) \subseteq {f} \cup {row[2] : row \in lineage}
         /\ \A row \in lineage : row[1] \in Passed(f) /\ ~Stops(row[1]) => row[2] \in Passed(f)
         /\ \A U : f \in U /\ (\A row \in lineage : row[1] \in U /\ ~Stops(row[1]) => row[2] \in U) => Passed(f) \subseteq U
<1> DEFINE N == Cardinality(lineage)
           P == {f} \cup {row[2] : row \in lineage}
           Add(s) == UNION {{row[2] : row \in {r \in lineage : r[1] = g}} : g \in {h \in s : ~(frame[h] = "ACTIVE" \/ {row[2] : row \in {r \in lineage : r[1] = h}} = {})}}
           F == [s \in SUBSET P |-> s \cup Add(s)]
           base == {f}
           Is(c) == c = [n \in 0..N |-> IF n = 0 THEN base ELSE LET found == c[n - 1] IN found \cup Add(found)]
           reach == CHOOSE c : Is(c)
<1>1. N \in Nat /\ L!Cardinality(lineage) = N
  BY LineageCounted
<1>2. Enough(N, P, base)
  <2> DEFINE Q == {row[2] : row \in lineage}
  <2>1. IsFiniteSet(Q) /\ Cardinality(Q) <= N
    BY LineageCounted, ColumnIsSmall
  <2>2. P \ base \in SUBSET Q /\ base \in SUBSET P
    OBVIOUS
  <2> HIDE DEF Q, N, P, base
  <2>3. IsFiniteSet(P \ base) /\ Cardinality(P \ base) <= Cardinality(Q)
    BY <2>1, <2>2, FS_Subset
  <2> QED
    BY <1>1, <2>1, <2>2, <2>3, FS_CardinalityType DEF Enough
<1>3. \A s : Add(s) \subseteq P
  OBVIOUS
<1>4. F \in [SUBSET P -> SUBSET P] /\ \A s \in SUBSET P : F[s] = s \cup Add(s)
  BY <1>3
<1>5. Passed(f) = reach[N]
  <2> HIDE DEF N
  <2> QED
    BY <1>1 DEF Passed
<1> HIDE DEF N, Add, P, F, base
<1>6. PICK g \in [0..N -> SUBSET P] : g[0] = base /\ Run(g, N, F)
  <2>1. Runs(N, SUBSET P, base, F) # {}
    BY <1>1, <1>2, <1>4, RunExists DEF Enough
  <2> QED
    BY <2>1 DEF Runs
<1>7. \A n \in 0..N : g[n] = IF n = 0 THEN base ELSE g[n - 1] \cup Add(g[n - 1])
  <2>1. \A n \in 0..N : n # 0 => n \in 1..N /\ n - 1 \in 0..N
    BY <1>1
  <2> QED
    BY <1>4, <1>6, <2>1 DEF Run
<1>8. Is(g)
  BY <1>6, <1>7
<1>9. Is(reach)
  <2> HIDE DEF Is
  <2> QED
    BY <1>8
<1> HIDE DEF reach
<1>10. reach[0] = base /\ \A n \in 1..N : reach[n] = reach[n - 1] \cup Add(reach[n - 1])
  <2>1. 0 \in 0..N /\ \A n \in 1..N : n \in 0..N /\ n # 0
    BY <1>1
  <2> QED
    BY <1>9, <2>1
<1>11. \A n \in 0..N : reach[n] \in SUBSET P
  <2> DEFINE S == SUBSET P
  <2>1. reach[0] \in S /\ \A n \in 1..N : reach[n - 1] \in S => reach[n] \in S
    BY <1>2, <1>3, <1>10 DEF Enough
  <2> HIDE DEF S
  <2>2. \A n \in 0..N : reach[n] \in S
    BY <1>1, <2>1, RunStays
  <2> QED
    BY <2>2 DEF S
<1>12. Run(reach, N, F) /\ Adds(F, P)
  <2>1. \A n \in 1..N : n - 1 \in 0..N
    BY <1>1
  <2> QED
    BY <1>4, <1>10, <1>11, <2>1 DEF Run, Adds
<1>13. /\ reach[N] \in SUBSET P /\ base \subseteq reach[N] /\ F[reach[N]] = reach[N]
       /\ \A U : base \subseteq U /\ (\A s \in SUBSET P : s \subseteq U => F[s] \subseteq U) => reach[N] \subseteq U
  BY <1>2, <1>10, <1>12, RoundsReach
<1>14. Add(reach[N]) \subseteq reach[N]
  BY <1>4, <1>13
<1>15. ASSUME NEW U, f \in U, (\A row \in lineage : row[1] \in U /\ ~Stops(row[1]) => row[2] \in U) PROVE reach[N] \subseteq U
  <2>1. \A s \in SUBSET P : s \subseteq U => F[s] \subseteq U
    BY <1>4, <1>15 DEF Add, Stops
  <2>2. base \subseteq U
    BY <1>15 DEF base
  <2> QED
    BY <1>13, <2>1, <2>2
<1>16. ASSUME NEW row \in lineage, row[1] \in reach[N], ~Stops(row[1]) PROVE row[2] \in reach[N]
  <2> DEFINE found == reach[N]
             Successors(y) == {q[2] : q \in {r \in lineage : r[1] = y}}
  <2>1. row[2] \in Successors(row[1])
    OBVIOUS
  <2>2. row[1] \in {h \in found : ~(frame[h] = "ACTIVE" \/ Successors(h) = {})}
    BY <1>16, <2>1 DEF Stops
  <2>3. row[2] \in Add(found)
    <3>1. Add(found) = UNION {Successors(y) : y \in {h \in found : ~(frame[h] = "ACTIVE" \/ Successors(h) = {})}}
      BY DEF Add
    <3> HIDE DEF Successors, found
    <3> QED
      BY <2>1, <2>2, <3>1
  <2> QED
    BY <1>14, <2>3
<1> HIDE DEF Is
<1> QED
  BY <1>5, <1>13, <1>15, <1>16 DEF P, base

\* Of a frame that was not merged the members are those whose chain ends at it.
LEMMA MembersLast ==
  ASSUME L!LineageTypeOK, LineageWell, NEW f \in Frames, frame[f] # "MERGED"
  PROVE  L!Members(f) = {h \in Frames : Last(h) = f}
<1> DEFINE U == {h \in Frames : Last(h) = f}
<1>1. L!Members(f) \subseteq U
  <2>1. f \in U /\ \A row \in L!Merges : row[2] \in U => row[1] \in U
    BY LastSteps, RowsAre
  <2> HIDE DEF U
  <2> QED
    BY <2>1, MembersAreLeast
<1>2. ASSUME NEW x \in U, x \notin L!Members(f) PROVE FALSE
  <2> DEFINE Missing == {h \in U : h \notin L!Members(f)}
  <2>1. Missing \in SUBSET Frames /\ Missing # {}
    BY <1>2
  <2>2. PICK h \in Missing : \A row \in lineage : row[1] = h => row[2] \notin Missing
    <3> HIDE DEF Missing
    <3> QED
      BY <2>1 DEF LineageWell
  <2>3. CASE frame[h] # "MERGED"
    BY <2>2, <2>3, LastSteps, MembersAreLeast
  <2>4. CASE frame[h] = "MERGED"
    <3>1. PICK row \in lineage : row[1] = h /\ row \in L!Merges /\ row[2] \in Frames
      BY <2>2, <2>4, RowsAre
    <3>2. row[2] \in U
      BY <2>2, <3>1, LastSteps
    <3>3. row[2] \in L!Members(f)
      BY <2>2, <3>1, <3>2
    <3> QED
      BY <2>2, <3>1, <3>3, MembersAreLeast
  <2> QED
    BY <2>3, <2>4
<1> QED
  BY <1>1, <1>2

\* The forward query leads to live frames, and to the survivor where there is one.
LEMMA LeadsToLive ==
  ASSUME L!LineageTypeOK, LineageWell, NEW f \in Frames, frame[f] # "unused"
  PROVE  /\ L!ResolvesTo(f) # {}
         /\ \A g \in L!ResolvesTo(f) : g \in Frames /\ frame[g] = "ACTIVE"
         /\ frame[Last(f)] # "SPLIT" => L!ResolvesTo(f) = {Last(f)}
<1>1. \A g \in Frames : frame[g] \in LifeOfFrames
  BY LineageTypes
<1>2. \A row \in lineage : row[1] \in Frames /\ row[2] \in Frames /\ frame[row[2]] # "unused"
  BY RowsAre DEF LineageWell
<1>3. Passed(f) \subseteq {g \in Frames : frame[g] # "unused"}
  <2> DEFINE U == {g \in Frames : frame[g] # "unused"}
  <2>1. f \in U /\ \A row \in lineage : row[1] \in U /\ ~Stops(row[1]) => row[2] \in U
    BY <1>2
  <2> HIDE DEF U
  <2>2. Passed(f) \subseteq U
    BY <2>1, PassedIsLeast
  <2> QED
    BY <2>2 DEF U
<1>4. \A g \in Passed(f) : Stops(g) => frame[g] = "ACTIVE"
  BY <1>1, <1>3, RowsAre DEF Stops, LifeOfFrames
<1>5. \E g \in Passed(f) : Stops(g)
  <2>1. Passed(f) \in SUBSET Frames /\ Passed(f) # {}
    BY <1>3, PassedIsLeast
  <2>2. PICK g \in Passed(f) : \A row \in lineage : row[1] = g => row[2] \notin Passed(f)
    BY <2>1 DEF LineageWell
  <2>3. Stops(g)
    <3>1. \A row \in lineage : row[1] \in Passed(f) /\ ~Stops(row[1]) => row[2] \in Passed(f)
      BY PassedIsLeast
    <3>2. ~Stops(g) => \E row \in lineage : row[1] = g
      BY DEF Stops
    <3> QED
      BY <2>2, <3>1, <3>2
  <2> QED
    BY <2>3
<1>6. ASSUME frame[Last(f)] # "SPLIT" PROVE \A g \in Passed(f) : Stops(g) => g = Last(f)
  <2> DEFINE U == {g \in Frames : Last(g) = Last(f)}
  <2>1. ASSUME NEW row \in lineage, row[1] \in U PROVE row[2] \in U
    <3>1. frame[row[1]] \in {"MERGED", "SPLIT"} /\ row[1] \in Frames /\ row[2] \in Frames
      BY RowsAre
    <3>2. CASE frame[row[1]] = "SPLIT"
      BY <1>6, <2>1, <3>1, <3>2, LastSteps
    <3>3. CASE frame[row[1]] = "MERGED"
      <4>1. row \in L!Merges
        BY <3>3, RowsAre
      <4> QED
        BY <2>1, <3>1, <4>1, LastSteps
    <3> QED
      BY <3>1, <3>2, <3>3
  <2>2. f \in U
    OBVIOUS
  <2>3. Passed(f) \subseteq U
    <3> HIDE DEF U
    <3> QED
      BY <2>1, <2>2, PassedIsLeast
  <2>4. \A g \in Passed(f) : frame[g] = "ACTIVE" => g = Last(f)
    BY <2>3, LastSteps
  <2> QED
    BY <1>4, <2>4
<1>7. L!ResolvesTo(f) = {g \in Passed(f) : Stops(g)}
  BY ResolvesToIs
<1> QED
  BY <1>3, <1>4, <1>5, <1>6, <1>7

\* Where the survivor is known it is the end of the chain.
LEMMA SurvivorEnds ==
  ASSUME L!LineageTypeOK, LineageWell, NEW f \in Frames
  PROVE  /\ L!Survivor(f) = IF frame[Last(f)] = "SPLIT" THEN 0 ELSE Last(f)
         /\ Last(f) \in Frames /\ Last(f) # 0
<1>1. Last(f) \in Frames /\ Last(f) # 0
  BY ChainEnds, IdentifierAssumption
<1>2. (\E row \in lineage : row[1] = Last(f) /\ row[3] = "SPLIT_INTO") <=> frame[Last(f)] = "SPLIT"
  BY <1>1, RowsAre
<1> QED
  BY <1>1, <1>2, SurvivorIs

LEMMA QueriesAgree == ASSUME L!LineageTypeOK, LineageWell PROVE L!OldIdsResolve
<1> DEFINE used == {f \in Frames : frame[f] # "unused"}
           survivor == [f \in used |-> L!Survivor(f)]
<1>1. ASSUME NEW f \in used
      PROVE  /\ L!ResolvesTo(f) # {} /\ \A g \in L!ResolvesTo(f) : frame[g] = "ACTIVE"
             /\ survivor[f] # 0 => L!ResolvesTo(f) = {survivor[f]}
  <2>1. survivor[f] # 0 => frame[Last(f)] # "SPLIT" /\ survivor[f] = Last(f)
    BY SurvivorEnds
  <2> HIDE DEF survivor
  <2> QED
    BY <2>1, LeadsToLive
<1>2. ASSUME NEW g \in used, frame[g] = "ACTIVE" PROVE L!Members(g) = {f \in used : survivor[f] = g}
  <2>1. L!Members(g) = {h \in Frames : Last(h) = g}
    BY <1>2, MembersLast
  <2>2. ASSUME NEW h \in Frames, Last(h) = g PROVE h \in used /\ L!Survivor(h) = g
    <3>1. frame[h] # "unused"
      BY <1>2, <2>2, LastSteps
    <3> QED
      BY <1>2, <2>2, <3>1, SurvivorEnds
  <2>3. ASSUME NEW h \in used, L!Survivor(h) = g PROVE h \in Frames /\ Last(h) = g
    <3>1. g \in Frames /\ g # 0
      BY IdentifierAssumption
    <3> QED
      BY <2>3, <3>1, SurvivorEnds
  <2>4. \A h \in used : survivor[h] = L!Survivor(h)
    OBVIOUS
  <2> HIDE DEF survivor, used
  <2> QED
    BY <2>1, <2>2, <2>3, <2>4 DEF used
<1> QED
  BY <1>1, <1>2 DEF L!OldIdsResolve, L!Unused

LEMMA LineageWellInit == L!LineageInit => LineageWell
<1> SUFFICES ASSUME L!LineageInit PROVE LineageWell
  OBVIOUS
<1>1. lineage = {}
  BY DEF L!LineageInit
<1>2. IsFiniteSet(lineage)
  BY <1>1, FS_EmptySet
<1> QED
  BY <1>1, <1>2 DEF LineageWell

\* Rows that lead to live frames, from a frame that was live till then, lead out of
\* every set as the old ones do: a live frame has none.
LEMMA RowsLeadOut ==
  ASSUME L!LineageTypeOK, L!LineageTypeOK', LineageWell, NEW new, IsFiniteSet(new), lineage' = lineage \cup new,
         \A row \in new : /\ frame'[row[2]] = "ACTIVE"
                          /\ row[3] = "MERGED_INTO" => frame'[row[1]] = "MERGED"
                          /\ row[3] = "SPLIT_INTO" => frame'[row[1]] = "SPLIT",
         \A f \in Frames : /\ frame[f] \in {"MERGED", "SPLIT"} => frame'[f] = frame[f]
                           /\ frame[f] # "unused" => frame'[f] # "unused"
  PROVE  LineageWell'
<1>1. \A row \in lineage : row[1] \in Frames /\ row[2] \in Frames /\ row[3] \in {"MERGED_INTO", "SPLIT_INTO"}
  BY LineageTypes
<1>2. IsFiniteSet(lineage')
  BY FS_Union DEF LineageWell
<1>3. \A row \in lineage' : /\ frame'[row[2]] # "unused"
                            /\ row[3] = "MERGED_INTO" => frame'[row[1]] = "MERGED"
                            /\ row[3] = "SPLIT_INTO" => frame'[row[1]] = "SPLIT"
  BY <1>1 DEF LineageWell
<1>4. ASSUME NEW S \in SUBSET Frames, S # {} PROVE \E f \in S : \A row \in lineage' : row[1] = f => row[2] \notin S
  <2>1. CASE \E q \in new : q[2] \in S
    <3>1. PICK q \in new : q[2] \in S
      BY <2>1
    <3>2. RowsOf(q[2])' = {}
      BY <3>1, LineageTypes DEF RowsFit
    <3>3. \A row \in lineage' : row[1] # q[2]
      BY <3>2 DEF RowsOf
    <3> QED
      BY <3>1, <3>3
  <2>2. CASE \A q \in new : q[2] \notin S
    <3>1. PICK f \in S : \A row \in lineage : row[1] = f => row[2] \notin S
      BY <1>4 DEF LineageWell
    <3> QED
      BY <2>2, <3>1
  <2> QED
    BY <2>1, <2>2
<1> QED
  BY <1>2, <1>3, <1>4 DEF LineageWell

LEMMA LineageWellStep ==
  ASSUME L!LineageTypeOK, LineageWell, L!LineageNext \/ UNCHANGED identities PROVE LineageWell'
<1>0. L!LineageTypeOK' /\ frame \in [Frames -> LifeOfFrames]
  BY LineageTypeStep, LineageTypes
<1>1. CASE UNCHANGED <<frame, lineage>>
  BY <1>1 DEF LineageWell
<1>2. ASSUME NEW m \in Frames, NEW s \in Frames, L!MergeFrames(m, s) PROVE LineageWell'
  <2> DEFINE new == {<<m, s, "MERGED_INTO">>}
  <2>1. /\ frame[m] = "ACTIVE" /\ frame[s] = "ACTIVE" /\ m # s
        /\ frame' = [frame EXCEPT ![m] = "MERGED"] /\ lineage' = lineage \cup new
    BY <1>2 DEF L!MergeFrames, L!Mergeable
  <2>2. IsFiniteSet(new)
    BY FS_Singleton
  <2>3. frame'[s] = "ACTIVE" /\ frame'[m] = "MERGED" /\ \A f \in Frames \ {m} : frame'[f] = frame[f]
    BY <1>0, <2>1
  <2>4. \A row \in new : /\ frame'[row[2]] = "ACTIVE"
                         /\ row[3] = "MERGED_INTO" => frame'[row[1]] = "MERGED"
                         /\ row[3] = "SPLIT_INTO" => frame'[row[1]] = "SPLIT"
    BY <2>3
  <2>5. \A f \in Frames : /\ frame[f] \in {"MERGED", "SPLIT"} => frame'[f] = frame[f]
                          /\ frame[f] # "unused" => frame'[f] # "unused"
    BY <2>1, <2>3
  <2> HIDE DEF new
  <2> QED
    BY <1>0, <2>1, <2>2, <2>4, <2>5, RowsLeadOut
<1>3. ASSUME NEW p \in Frames, NEW part \in [L!Speaking(p) -> 0..2],
             NEW one \in L!FreshFrames, NEW two \in L!FreshFrames,
             NEW name \in [L!Mixed(p, part) -> L!TheFirst(L!Cardinality(L!Mixed(p, part)), L!FreshSlots)],
             L!SplitFrame(p, part, one, two, name)
      PROVE  LineageWell'
  <2> DEFINE new == {<<p, one, "SPLIT_INTO">>, <<p, two, "SPLIT_INTO">>}
  <2>0. /\ frame[p] = "ACTIVE"
        /\ lineage' = lineage \cup {<<p, one, "SPLIT_INTO">>, <<p, two, "SPLIT_INTO">>}
        /\ frame' = [f \in Frames |-> IF f = p THEN "SPLIT" ELSE IF f \in {one, two} THEN "ACTIVE" ELSE frame[f]]
    BY <1>3, Zenon DEF L!SplitFrame
  <2>1. /\ frame[p] = "ACTIVE" /\ lineage' = lineage \cup new
        /\ frame' = [f \in Frames |-> IF f = p THEN "SPLIT" ELSE IF f \in {one, two} THEN "ACTIVE" ELSE frame[f]]
    BY <2>0
  <2>2. IsFiniteSet(new)
    <3> DEFINE r == <<p, one, "SPLIT_INTO">>
               q == <<p, two, "SPLIT_INTO">>
    <3>1. new = {r} \cup {q}
      OBVIOUS
    <3> HIDE DEF r, q, new
    <3>2. IsFiniteSet({r}) /\ IsFiniteSet({q})
      BY FS_Singleton
    <3> QED
      BY <3>1, <3>2, FS_Union
  <2>3. one \in Frames /\ two \in Frames /\ frame[one] = "unused" /\ frame[two] = "unused"
    BY DEF L!FreshFrames, L!Unused
  <2>4. /\ frame'[one] = "ACTIVE" /\ frame'[two] = "ACTIVE" /\ frame'[p] = "SPLIT"
        /\ \A f \in Frames \ {p, one, two} : frame'[f] = frame[f]
    BY <2>1, <2>3
  <2>5. \A row \in new : /\ frame'[row[2]] = "ACTIVE"
                         /\ row[3] = "MERGED_INTO" => frame'[row[1]] = "MERGED"
                         /\ row[3] = "SPLIT_INTO" => frame'[row[1]] = "SPLIT"
    BY <2>4
  <2>6. \A f \in Frames : /\ frame[f] \in {"MERGED", "SPLIT"} => frame'[f] = frame[f]
                          /\ frame[f] # "unused" => frame'[f] # "unused"
    BY <2>1, <2>3, <2>4
  <2> HIDE DEF new
  <2> QED
    BY <1>0, <2>1, <2>2, <2>5, <2>6, RowsLeadOut
<1>4. CASE UNCHANGED identities
  BY <1>1, <1>4 DEF identities
<1>5. CASE L!LineageNext
  <2>1. ASSUME NEW w \in Writers, NEW n \in Statements, NEW f \in Frames, NEW v \in Values, L!Match(w, n, f, v)
        PROVE  LineageWell'
    BY <1>1, <2>1 DEF L!Match
  <2>2. ASSUME NEW w \in Writers, L!Lookup(w) \/ L!WriteClaim(w) PROVE LineageWell'
    BY <1>1, <2>2 DEF L!Lookup, L!WriteClaim
  <2>3. ASSUME NEW x \in Slots, NEW v \in Values, NEW status \in Assessable, L!Assess(x, v, status) PROVE LineageWell'
    BY <1>1, <2>3 DEF L!Assess
  <2> QED
    BY <1>2, <1>3, <1>5, <2>1, <2>2, <2>3 DEF L!LineageNext
<1> QED
  BY <1>4, <1>5

\* What the lemma LastSteps says of chains.
ChainsEnd ==
  /\ \A f \in Frames : Last(f) \in Frames /\ frame[Last(f)] # "MERGED"
  /\ \A f \in Frames : frame[f] # "MERGED" => Last(f) = f
  /\ \A row \in L!Merges : Last(row[1]) = Last(row[2])

LEMMA ChainsDo ==
  /\ L!LineageTypeOK /\ LineageWell => ChainsEnd
  /\ L!LineageTypeOK' /\ LineageWell' => ChainsEnd'
<1>1. L!LineageTypeOK /\ LineageWell => ChainsEnd
  BY LastSteps, ChainEnds DEF ChainsEnd
<1> QED
  BY <1>1, PTL

\* A step that keeps every row and retires no frame but one moves the ends of no chains
\* but those that ended there.
LEMMA ChainsMove ==
  ASSUME L!LineageTypeOK, LineageWell, L!LineageTypeOK', LineageWell',
         lineage \subseteq lineage',
         \A f \in Frames : frame'[f] = "MERGED" /\ frame[f] # "MERGED" =>
                           \E row \in L!Merges' : row[1] = f /\ row[2] \in Frames /\ frame'[row[2]] # "MERGED"
  PROVE  \A f, e \in Frames : Last(f) = e => Last(f)' = Last(e)'
<1> DEFINE U == {f \in Frames : \E e \in Frames : Last(f) = e /\ Last(f)' # Last(e)'}
<1> SUFFICES ASSUME U # {} PROVE FALSE
  OBVIOUS
<1>1. ChainsEnd /\ ChainsEnd'
  BY ChainsDo
<1>2. PICK g \in U : \A row \in lineage : row[1] = g => row[2] \notin U
  <2>1. U \in SUBSET Frames
    OBVIOUS
  <2> HIDE DEF U
  <2> QED
    BY <2>1 DEF LineageWell
<1>3. PICK e \in Frames : Last(g) = e /\ Last(g)' # Last(e)'
  BY <1>2
<1>4. CASE frame[g] # "MERGED"
  <2>1. Last(g) = g
    BY <1>1, <1>2, <1>4 DEF ChainsEnd
  <2> QED
    BY <1>3, <2>1
<1>5. CASE frame[g] = "MERGED"
  <2>1. PICK row \in L!Merges : row[1] = g /\ row \in lineage /\ row[2] \in Frames
    BY <1>2, <1>5, RowsAre
  <2>2. row \in L!Merges'
    BY <2>1 DEF L!Merges
  <2>3. PICK h \in Frames : h = row[2]
    BY <2>1
  <2>4. h \notin U /\ Last(g) = Last(h) /\ Last(g)' = Last(h)'
    BY <1>1, <1>2, <2>1, <2>2, <2>3 DEF ChainsEnd
  <2> QED
    BY <1>3, <2>4
<1> QED
  BY <1>4, <1>5

-----------------------------------------------------------------------------
(* Where a claim has got to.                                               *)

\* The propositions that one was merged into are the least set that has it and what each
\* of its own was merged into.
LEMMA FollowsToIsLeast ==
  ASSUME L!LineageTypeOK, NEW x \in Slots, NEW v \in Values
  PROVE  /\ x \in L!FollowsTo(x, v) /\ L!FollowsTo(x, v) \subseteq Slots
         /\ \A y \in L!FollowsTo(x, v) : into[y, v] # 0 => into[y, v] \in L!FollowsTo(x, v)
         /\ \A U : x \in U /\ (\A y \in Slots : y \in U /\ into[y, v] # 0 => into[y, v] \in U) => L!FollowsTo(x, v) \subseteq U
<1> DEFINE N == Cardinality(Slots)
           P == Slots
           Add(s) == {into[y, v] : y \in s} \ {0}
           F == [s \in SUBSET P |-> s \cup Add(s)]
           base == {x}
           Is(c) == c = [n \in 0..N |-> IF n = 0 THEN base ELSE LET found == c[n - 1] IN found \cup Add(found)]
           reach == CHOOSE c : Is(c)
<1>1. N \in Nat /\ L!Cardinality(Slots) = N /\ IsFiniteSet(Slots)
  BY IdentifierAssumption, FS_CardinalityType, SameCount
<1>2. Enough(N, P, base)
  <2>1. P \ base \in SUBSET P /\ base \in SUBSET P
    OBVIOUS
  <2> HIDE DEF N, base
  <2>2. IsFiniteSet(P \ base) /\ Cardinality(P \ base) <= Cardinality(P)
    BY <1>1, <2>1, FS_Subset
  <2> QED
    BY <1>1, <2>1, <2>2 DEF Enough, N
<1>3. \A s \in SUBSET P : Add(s) \subseteq P
  <2>1. \A y \in Slots : into[y, v] \in Slots \cup {0}
    BY LineageTypes
  <2> QED
    BY <2>1
<1>4. F \in [SUBSET P -> SUBSET P] /\ \A s \in SUBSET P : F[s] = s \cup Add(s)
  BY <1>3
<1>5. L!FollowsTo(x, v) = reach[N]
  <2> HIDE DEF N
  <2> QED
    BY <1>1 DEF L!FollowsTo, L!NoSlot
<1> HIDE DEF N, Add, P, F, base
<1>6. PICK g \in [0..N -> SUBSET P] : g[0] = base /\ Run(g, N, F)
  <2>1. Runs(N, SUBSET P, base, F) # {}
    BY <1>1, <1>2, <1>4, RunExists DEF Enough
  <2> QED
    BY <2>1 DEF Runs
<1>7. \A n \in 0..N : g[n] = IF n = 0 THEN base ELSE g[n - 1] \cup Add(g[n - 1])
  <2>1. \A n \in 0..N : n # 0 => n \in 1..N /\ n - 1 \in 0..N
    BY <1>1
  <2> QED
    BY <1>4, <1>6, <2>1 DEF Run
<1>8. Is(g)
  BY <1>6, <1>7
<1>9. Is(reach)
  <2> HIDE DEF Is
  <2> QED
    BY <1>8
<1> HIDE DEF reach
<1>10. reach[0] = base /\ \A n \in 1..N : reach[n] = reach[n - 1] \cup Add(reach[n - 1])
  <2>1. 0 \in 0..N /\ \A n \in 1..N : n \in 0..N /\ n # 0
    BY <1>1
  <2> QED
    BY <1>9, <2>1
<1>11. \A n \in 0..N : reach[n] \in SUBSET P
  <2> DEFINE S == SUBSET P
  <2>1. reach[0] \in S /\ \A n \in 1..N : reach[n - 1] \in S => reach[n] \in S
    BY <1>2, <1>3, <1>10 DEF Enough
  <2> HIDE DEF S
  <2>2. \A n \in 0..N : reach[n] \in S
    BY <1>1, <2>1, RunStays
  <2> QED
    BY <2>2 DEF S
<1>12. Run(reach, N, F) /\ Adds(F, P)
  <2>1. \A n \in 1..N : n - 1 \in 0..N
    BY <1>1
  <2> QED
    BY <1>4, <1>10, <1>11, <2>1 DEF Run, Adds
<1>13. /\ reach[N] \in SUBSET P /\ base \subseteq reach[N] /\ F[reach[N]] = reach[N]
       /\ \A U : base \subseteq U /\ (\A s \in SUBSET P : s \subseteq U => F[s] \subseteq U) => reach[N] \subseteq U
  BY <1>2, <1>10, <1>12, RoundsReach
<1>14. Add(reach[N]) \subseteq reach[N]
  BY <1>4, <1>13
<1>15. ASSUME NEW U, x \in U, (\A y \in Slots : y \in U /\ into[y, v] # 0 => into[y, v] \in U) PROVE reach[N] \subseteq U
  <2>1. \A s \in SUBSET P : s \subseteq U => F[s] \subseteq U
    <3> SUFFICES ASSUME NEW s \in SUBSET P, s \subseteq U PROVE F[s] \subseteq U
      OBVIOUS
    <3>1. ASSUME NEW z \in Add(s) PROVE z \in U
      <4>1. PICK y \in s : z = into[y, v] /\ z # 0
        BY <3>1 DEF Add
      <4>2. y \in Slots
        BY <4>1 DEF P
      <4> QED
        BY <1>15, <4>1, <4>2
    <3> QED
      BY <1>4, <3>1
  <2>2. base \subseteq U
    BY <1>15 DEF base
  <2> QED
    BY <1>13, <2>1, <2>2
<1> HIDE DEF Is
<1>16. x \in reach[N] /\ reach[N] \subseteq Slots
  BY <1>13 DEF base, P
<1>17. \A y \in reach[N] : into[y, v] # 0 => into[y, v] \in reach[N]
  BY <1>14 DEF Add
<1> QED
  BY <1>5, <1>15, <1>16, <1>17

FollowingFits ==
  \A x \in Slots, v \in Values :
    /\ x \in L!FollowsTo(x, v) /\ L!FollowsTo(x, v) \subseteq Slots
    /\ \A y \in L!FollowsTo(x, v) : into[y, v] # 0 => into[y, v] \in L!FollowsTo(x, v)

LEMMA FollowingDoes == (L!LineageTypeOK => FollowingFits) /\ (L!LineageTypeOK' => FollowingFits')
<1>1. L!LineageTypeOK => FollowingFits
  BY FollowsToIsLeast DEF FollowingFits
<1> QED
  BY <1>1, PTL

\* A merge leads on what was not merged before, so what led somewhere still does.
LEMMA FollowsOn ==
  ASSUME L!LineageTypeOK, L!LineageTypeOK', NEW x \in Slots, NEW v \in Values,
         \A y \in Slots : into[y, v] # 0 => into'[y, v] = into[y, v]
  PROVE  L!FollowsTo(x, v) \subseteq L!FollowsTo(x, v)'
<1>1. FollowingFits'
  BY FollowingDoes
<1> DEFINE U == L!FollowsTo(x, v)'
<1>2. x \in U /\ \A y \in U : into'[y, v] # 0 => into'[y, v] \in U
  BY <1>1 DEF FollowingFits
<1> HIDE DEF U
<1>3. \A y \in Slots : y \in U /\ into[y, v] # 0 => into[y, v] \in U
  BY <1>2
<1>4. L!FollowsTo(x, v) \subseteq U
  BY <1>2, <1>3, FollowsToIsLeast
<1> QED
  BY <1>4 DEF U

-----------------------------------------------------------------------------
(* One location each, and a place for every claim.                         *)

\* A live slot's row leads to the frame its fingerprint names, no two live slots have the
\* same, what a live one says was not merged away, and it accepts one value.
Located ==
  /\ \A x \in Slots : slot[x].lifecycle = "ACTIVE" =>
       /\ slot[x].row \in Frames /\ frame[slot[x].row] # "unused"
       /\ slot[x].index \in Frames /\ frame[slot[x].index] \in {"ACTIVE", "SPLIT"}
       /\ \A f \in Frames : slot[x].row = f => Last(f) = slot[x].index
       /\ \A v \in Values : into[x, v] = 0
       /\ \A v, u \in Values : verdict[x, v] = "ACCEPTED" /\ verdict[x, u] = "ACCEPTED" => v = u
  /\ \A x, y \in Slots : slot[x].lifecycle = "ACTIVE" /\ slot[y].lifecycle = "ACTIVE" /\ slot[x].index = slot[y].index
                         => x = y
  /\ \A x \in Slots : slot[x].lifecycle = "unused" => \A v \in Values : verdict[x, v] = "absent" /\ into[x, v] = 0

\* A claim's proposition, alive in a live frame.
PlaceOf(n, x) ==
  /\ slot[x].lifecycle = "ACTIVE" /\ verdict[x, claim[n].value] # "absent" /\ frame[slot[x].index] = "ACTIVE"

\* What a claim speaks for: what its own proposition was merged into, and what splits gave it.
Speaks(n, x) ==
  \/ <<n, x>> \in support
  \/ \E y \in Slots, v \in Values : claim[n].slot = y /\ claim[n].value = v /\ x \in L!FollowsTo(y, v)

\* A claim nobody contested speaks for one, or a place that a split gave it was merged away.
Placed ==
  \A n \in Statements :
    claim[n].lifecycle # "unused" =>
      /\ ~claim[n].late
      /\ claim[n].lifecycle = "PROVISIONAL" =>
           \/ \E x \in Slots : Speaks(n, x) /\ PlaceOf(n, x)
           \/ \E x \in Slots : <<n, x>> \in support /\ slot[x].lifecycle = "MERGED"

\* For a live frame it has found the one slot there is.
WellFound(r) ==
  /\ frame[r.frame] = "ACTIVE"
  /\ r.at = "resolved" =>
       IF r.slot = 0
       THEN \A x \in Slots : slot[x].lifecycle = "ACTIVE" => slot[x].index # r.frame
       ELSE slot[r.slot].lifecycle = "ACTIVE" /\ slot[r.slot].index = r.frame

\* Who canonicalizes does so alone.
WriterAlone ==
  /\ \A w, u \in AtWork : w = u
  /\ \A w \in AtWork : WellFound(writer[w])

LEMMA ClaimFits ==
  ASSUME L!LineageTypeOK, NEW n \in Statements, claim[n].lifecycle # "unused"
  PROVE  claim[n] \in ClaimRows /\ claim[n].slot \in Slots /\ claim[n].value \in Values
<1>1. claim[n] \in ClaimRows
  BY LineageTypes DEF L!NoClaim, L!Unused
<1> QED
  BY <1>1 DEF ClaimRows

LEMMA AtMostOne == \A S : (\A x, y \in S : x = y) => IsFiniteSet(S) /\ L!Cardinality(S) <= 1
<1> SUFFICES ASSUME NEW S, \A x, y \in S : x = y PROVE IsFiniteSet(S) /\ L!Cardinality(S) <= 1
  OBVIOUS
<1>1. CASE S = {}
  BY <1>1, FS_EmptySet, SameCount
<1>2. CASE S # {}
  <2>1. PICK x \in S : S = {x}
    BY <1>2
  <2> QED
    BY <2>1, FS_Singleton, SameCount
<1> QED
  BY <1>1, <1>2

\* The rows of a live frame's members and its fingerprint find the same one slot.
LEMMA OneLocation ==
  ASSUME L!LineageTypeOK, LineageWell, Located, NEW f \in Frames, frame[f] = "ACTIVE"
  PROVE  /\ L!FrameSlots(f) = L!Indexed(f)
         /\ \A x \in L!Indexed(f) : x \in Slots /\ slot[x].lifecycle = "ACTIVE" /\ slot[x].index = f
         /\ \A x, y \in L!Indexed(f) : x = y
         /\ \A x \in Slots : slot[x].lifecycle = "ACTIVE" /\ slot[x].index = f => x \in L!Indexed(f)
<1>1. L!Members(f) = {h \in Frames : Last(h) = f}
  BY MembersLast
<1>2. \A x \in Slots : slot[x].lifecycle = "ACTIVE" => (slot[x].row \in L!Members(f) <=> slot[x].index = f)
  BY <1>1 DEF Located
<1>3. L!FrameSlots(f) = L!Indexed(f)
  BY <1>2 DEF L!FrameSlots, L!Indexed
<1> QED
  BY <1>3 DEF L!Indexed, Located

\* What is claimed there has a row of its own.
LEMMA ValuesAre ==
  \A x \in Slots : (\A v \in Values : into[x, v] = 0) =>
    L!ActiveValues(x) = {v \in Values : verdict[x, v] # "absent"}
  BY DEF L!ActiveValues, L!NoSlot

LEMMA LocatedEach == ASSUME L!LineageTypeOK, LineageWell, Located PROVE L!OneLocationEach
<1> SUFFICES ASSUME NEW f \in Frames, frame[f] = "ACTIVE"
             PROVE  /\ L!Indexed(f) = L!FrameSlots(f) /\ L!Cardinality(L!Indexed(f)) <= 1
                    /\ \A x \in L!Indexed(f) : L!Cardinality({v \in L!ActiveValues(x) : verdict[x, v] = "ACCEPTED"}) <= 1
  BY DEF L!OneLocationEach
<1>1. L!Indexed(f) = L!FrameSlots(f) /\ L!Cardinality(L!Indexed(f)) <= 1
  BY OneLocation, AtMostOne
<1>2. ASSUME NEW x \in L!Indexed(f) PROVE L!Cardinality({v \in L!ActiveValues(x) : verdict[x, v] = "ACCEPTED"}) <= 1
  <2>1. x \in Slots /\ slot[x].lifecycle = "ACTIVE"
    BY OneLocation
  <2> DEFINE S == {v \in L!ActiveValues(x) : verdict[x, v] = "ACCEPTED"}
  <2>2. \A v, u \in S : v = u
    BY <2>1 DEF Located, L!ActiveValues
  <2> HIDE DEF S
  <2> QED
    BY <2>2, AtMostOne DEF S
<1> QED
  BY <1>1, <1>2

LEMMA PlacedEach == ASSUME L!LineageTypeOK, LineageWell, Located, Placed PROVE L!NoOtherClaimLeftBehind
<1> SUFFICES ASSUME NEW n \in Statements, claim[n].lifecycle = "PROVISIONAL", \A x \in L!AssignedTo(n) : slot[x].lifecycle # "MERGED"
             PROVE  L!HasItsPlace(n)
  BY DEF L!NoOtherClaimLeftBehind, L!Uncontested
<1>2. claim[n].slot \in Slots /\ claim[n].value \in Values /\ L!AssignedTo(n) \subseteq Slots
  BY ClaimFits DEF L!AssignedTo
<1>3. PICK x \in Slots : Speaks(n, x) /\ PlaceOf(n, x)
  BY DEF Placed, L!AssignedTo
<1>4. FollowingFits
  BY FollowingDoes
<1>5. x \in L!Follows(n) /\ x \in Slots
  <2> DEFINE heads == {claim[n].slot} \cup L!AssignedTo(n)
             Reach(y) == L!FollowsTo(y, claim[n].value)
  <2>1. \E y \in heads : x \in Reach(y)
    <3>1. CASE <<n, x>> \in support
      <4>1. x \in heads
        BY <3>1 DEF L!AssignedTo
      <4> QED
        BY <1>2, <1>4, <4>1 DEF FollowingFits
    <3>2. CASE x \in Reach(claim[n].slot)
      BY <3>2
    <3> QED
      BY <1>3, <3>1, <3>2 DEF Speaks
  <2>2. L!Follows(n) = UNION {Reach(y) : y \in heads}
    BY DEF L!Follows
  <2>3. \A y \in heads : Reach(y) \subseteq Slots
    BY <1>2, <1>4 DEF FollowingFits
  <2> HIDE DEF heads, Reach
  <2> QED
    BY <2>1, <2>2, <2>3
<1>6. /\ slot[x].lifecycle = "ACTIVE" /\ frame[slot[x].index] = "ACTIVE"
      /\ Last(slot[x].row) = slot[x].index /\ slot[x].row \in Frames
      /\ verdict[x, claim[n].value] # "absent" /\ into[x, claim[n].value] = 0
  BY <1>2, <1>3, <1>5 DEF Located, PlaceOf
<1>7. claim[n].value \in L!ActiveValues(x)
  BY <1>2, <1>6 DEF L!ActiveValues, L!NoSlot
<1>8. L!Survivor(slot[x].row) = slot[x].index
  BY <1>6, SurvivorEnds
<1> QED
  BY <1>5, <1>6, <1>7, <1>8 DEF L!HasItsPlace

\* What holds while whoever canonicalizes, merges or splits has kept out of the others' way.
LineageAlone == Located /\ Placed /\ WriterAlone

\* A chain's end stays where it is unless it is merged.
LEMMA ChainsStay ==
  ASSUME L!LineageTypeOK, LineageWell, L!LineageTypeOK', LineageWell', lineage \subseteq lineage',
         \A f \in Frames : frame'[f] = "MERGED" /\ frame[f] # "MERGED" =>
                           \E row \in L!Merges' : row[1] = f /\ row[2] \in Frames /\ frame'[row[2]] # "MERGED",
         NEW f \in Frames, frame'[Last(f)] # "MERGED"
  PROVE  Last(f)' = Last(f)
<1>1. ChainsEnd /\ ChainsEnd'
  BY ChainsDo
<1>2. Last(f) \in Frames
  BY <1>1 DEF ChainsEnd
<1>3. PICK e \in Frames : e = Last(f)
  BY <1>2
<1>4. Last(f)' = Last(e)'
  BY <1>3, ChainsMove
<1>5. \A g \in Frames : frame'[g] # "MERGED" => Last(g)' = g
  BY <1>1 DEF ChainsEnd
<1> QED
  BY <1>3, <1>4, <1>5

LEMMA ChainsSame ==
  ASSUME L!LineageTypeOK, LineageWell, UNCHANGED <<frame, lineage>>, L!LineageTypeOK'
  PROVE  LineageWell' /\ \A f \in Frames : Last(f)' = Last(f)
<1>1. LineageWell'
  BY DEF LineageWell
<1>2. ASSUME NEW f \in Frames PROVE Last(f)' = Last(f)
  <2>1. ChainsEnd
    BY ChainsDo
  <2>2. frame'[Last(f)] # "MERGED"
    BY <2>1 DEF ChainsEnd
  <2>3. lineage \subseteq lineage' /\ \A h \in Frames : ~(frame'[h] = "MERGED" /\ frame[h] # "MERGED")
    OBVIOUS
  <2> QED
    BY <1>1, <2>2, <2>3, ChainsStay
<1> QED
  BY <1>1, <1>2

\* What a claim speaks for it goes on speaking for.
LEMMA SpeaksOn ==
  ASSUME L!LineageTypeOK, L!LineageTypeOK', NEW n \in Statements, claim'[n].slot = claim[n].slot, claim'[n].value = claim[n].value,
         support \subseteq support',
         \A y \in Slots, v \in Values : into[y, v] # 0 => into'[y, v] = into[y, v],
         NEW x \in Slots, Speaks(n, x)
  PROVE  Speaks(n, x)'
<1>1. CASE <<n, x>> \in support
  BY <1>1 DEF Speaks
<1>2. ASSUME NEW y \in Slots, NEW v \in Values, claim[n].slot = y, claim[n].value = v, x \in L!FollowsTo(y, v)
      PROVE  Speaks(n, x)'
  <2>1. L!FollowsTo(y, v) \subseteq L!FollowsTo(y, v)'
    BY FollowsOn
  <2> QED
    BY <1>2, <2>1 DEF Speaks
<1> QED
  BY <1>1, <1>2 DEF Speaks

-----------------------------------------------------------------------------
(* Every step keeps them while nobody gets in the way of another.            *)

\* A step that leaves frames, slots and what was merged alone keeps the locations and the
\* places if it changes no verdict, or as an assessment does.
LEMMA SlotsSame ==
  ASSUME L!LineageTypeOK, L!LineageTypeOK', LineageWell, Located, Placed,
         UNCHANGED <<frame, lineage, slot, into, claim, support>>,
         \A x \in Slots, v \in Values : verdict[x, v] = "absent" <=> verdict'[x, v] = "absent",
         \A x \in Slots, v, u \in Values : slot[x].lifecycle = "ACTIVE" /\ verdict'[x, v] = "ACCEPTED" /\ verdict'[x, u] = "ACCEPTED" => v = u
  PROVE  Located' /\ Placed'
<1>1. \A f \in Frames : Last(f)' = Last(f)
  BY ChainsSame
<1>2. Located'
  BY <1>1 DEF Located
<1>3. \A n \in Statements, x \in Slots : Speaks(n, x) => Speaks(n, x)'
  BY SpeaksOn
<1>4. ASSUME NEW n \in Statements, NEW x \in Slots, claim[n].lifecycle = "PROVISIONAL", PlaceOf(n, x) PROVE PlaceOf(n, x)'
  <2>1. claim[n].value \in Values
    BY <1>4, ClaimFits
  <2> QED
    BY <1>4, <2>1 DEF PlaceOf
<1>5. Placed'
  BY <1>3, <1>4 DEF Placed
<1> QED
  BY <1>2, <1>5

LEMMA NotTwo ==
  ASSUME NEW S, IsFiniteSet(S), Cardinality(S) <= 1 PROVE \A x, y \in S : x = y
<1> SUFFICES ASSUME NEW x \in S, NEW y \in S, x # y PROVE FALSE
  OBVIOUS
<1>1. IsFiniteSet(S \ {x}) /\ Cardinality(S \ {x}) = Cardinality(S) - 1 /\ Cardinality(S) \in Nat
  BY FS_RemoveElement, FS_CardinalityType
<1>2. Cardinality(S \ {x}) \in Nat
  BY <1>1, FS_CardinalityType
<1>3. Cardinality(S \ {x}) = 0
  BY <1>1, <1>2
<1>4. S \ {x} = {}
  BY <1>1, <1>3, FS_EmptySet
<1> QED
  BY <1>4

\* The step's part in being alone.
OneWrites == IF frame' = frame THEN Cardinality({w \in Writers : writer'[w] # L!Idle}) <= 1 ELSE AtWork = {}

\* Whoever is at work has a claim, a frame and a value.
LEMMA WritersFit ==
  /\ L!LineageTypeOK => \A w \in Writers : IF w \in AtWork THEN writer[w] \in WriterStates ELSE writer[w] = L!Idle
  /\ \A w \in Writers : writer[w] = L!Idle => writer[w].at = "idle"
  /\ \A r \in WriterStates : /\ r.at \in {"matched", "resolved"} /\ r.claim \in Statements /\ r.frame \in Frames
                             /\ r.slot \in Slots \cup {0} /\ r.value \in Values
  BY LineageTypes DEF AtWork, WriterStates, L!Idle

\* One transaction goes on to a new place, and nobody else is at work.
LEMMA OneGoesOn ==
  ASSUME L!LineageTypeOK, WriterAlone, frame' = frame, OneWrites, NEW w \in Writers, NEW new,
         writer' = [writer EXCEPT ![w] = new], slot' = slot,
         WellFound(new)
  PROVE  WriterAlone'
<1>1. \A u \in Writers : writer'[u] = IF u = w THEN new ELSE writer[u]
  BY LineageTypes
<1>2. AtWork' = {u \in Writers : writer'[u] # L!Idle}
  BY DEF AtWork, L!Idle
<1>3. AtWork' \subseteq AtWork \cup {w}
  BY <1>1, <1>2 DEF AtWork
<1>4. IsFiniteSet(AtWork)
  BY AtMostOne DEF WriterAlone
<1>5. IsFiniteSet(AtWork \cup {w})
  BY <1>4, FS_AddElement
<1>6. IsFiniteSet(AtWork')
  <2>1. AtWork' \in SUBSET (AtWork \cup {w})
    BY <1>3
  <2> QED
    BY <1>5, <2>1, FS_Subset
<1>7. Cardinality(AtWork') <= 1
  BY <1>2 DEF OneWrites
<1>8. \A u, y \in AtWork' : u = y
  BY <1>6, <1>7, NotTwo
<1>9. ASSUME NEW u \in AtWork' PROVE WellFound(writer[u])'
  <2>1. u \in Writers /\ writer'[u] # L!Idle
    BY <1>2
  <2>2. WellFound(writer'[u])
    <3>1. CASE u = w
      BY <1>1, <2>1, <3>1
    <3>2. CASE u # w
      <4>1. writer'[u] = writer[u] /\ u \in AtWork
        BY <1>1, <2>1, <3>2 DEF AtWork
      <4> QED
        BY <4>1 DEF WriterAlone
    <3> QED
      BY <3>1, <3>2
  <2> QED
    BY <2>2 DEF WellFound
<1> QED
  BY <1>8, <1>9 DEF WriterAlone

LEMMA MatchAlone ==
  ASSUME L!LineageTypeOK, L!LineageTypeOK', LineageWell, LineageAlone, OneWrites,
         NEW w \in Writers, NEW n \in Statements, NEW f \in Frames, NEW v \in Values, L!Match(w, n, f, v)
  PROVE  LineageAlone'
<1>1. /\ frame[f] = "ACTIVE" /\ UNCHANGED <<frame, lineage, slot, verdict, into, claim, support>>
      /\ writer' = [writer EXCEPT ![w] = [at |-> "matched", claim |-> n, frame |-> f, slot |-> L!NoSlot, value |-> v]]
  BY DEF L!Match
<1>2. Located' /\ Placed'
  <2>1. \A x \in Slots, u, y \in Values : slot[x].lifecycle = "ACTIVE" /\ verdict[x, u] = "ACCEPTED" /\ verdict[x, y] = "ACCEPTED" => u = y
    BY DEF LineageAlone, Located
  <2> QED
    BY <1>1, <2>1, SlotsSame DEF LineageAlone
<1>3. WriterAlone'
  <2> DEFINE new == [at |-> "matched", claim |-> n, frame |-> f, slot |-> L!NoSlot, value |-> v]
  <2>1. WellFound(new) /\ writer' = [writer EXCEPT ![w] = new]
    BY <1>1 DEF WellFound
  <2> HIDE DEF new
  <2> QED
    BY <1>1, <2>1, OneGoesOn DEF LineageAlone
<1> QED
  BY <1>2, <1>3 DEF LineageAlone

LEMMA LookupAlone ==
  ASSUME L!LineageTypeOK, L!LineageTypeOK', LineageWell, LineageAlone, OneWrites, NEW w \in Writers, L!Lookup(w)
  PROVE  LineageAlone'
<1> DEFINE found == L!Indexed(writer[w].frame)
           new == [writer[w] EXCEPT !.at = "resolved", !.slot = IF L!Cardinality(found) = 1 THEN L!Least(found) ELSE 0]
<1>1. /\ writer[w].at = "matched" /\ UNCHANGED <<frame, lineage, slot, verdict, into, claim, support>>
      /\ writer' = [writer EXCEPT ![w].at = "resolved", ![w].slot = IF L!Cardinality(found) = 1 THEN L!Least(found) ELSE 0]
  BY DEF L!Lookup, L!NoSlot
<1>2. writer' = [writer EXCEPT ![w] = new]
  BY <1>1
<1>3. w \in AtWork /\ writer[w] \in WriterStates /\ writer[w].frame \in Frames
  BY <1>1, WritersFit
<1>4. frame[writer[w].frame] = "ACTIVE"
  BY <1>3 DEF LineageAlone, WriterAlone, WellFound
<1>5. /\ \A x \in found : x \in Slots /\ slot[x].lifecycle = "ACTIVE" /\ slot[x].index = writer[w].frame
      /\ \A x, y \in found : x = y
      /\ \A x \in Slots : slot[x].lifecycle = "ACTIVE" /\ slot[x].index = writer[w].frame => x \in found
  BY <1>3, <1>4, OneLocation DEF LineageAlone
<1>6. new.frame = writer[w].frame /\ new.at = "resolved" /\ new.slot = IF L!Cardinality(found) = 1 THEN L!Least(found) ELSE 0
  <2> HIDE DEF found
  <2> QED
    BY <1>3 DEF WriterStates
<1> HIDE DEF found, new
<1>9. Located' /\ Placed'
  <2>1. \A x \in Slots, u, y \in Values : slot[x].lifecycle = "ACTIVE" /\ verdict[x, u] = "ACCEPTED" /\ verdict[x, y] = "ACCEPTED" => u = y
    BY DEF LineageAlone, Located
  <2> QED
    BY <1>1, <2>1, SlotsSame DEF LineageAlone
<1>10. SUFFICES WellFound(new)
  <2>1. WellFound(new) => WriterAlone'
    BY <1>1, <1>2, OneGoesOn DEF LineageAlone
  <2> QED
    BY <1>9, <2>1 DEF LineageAlone
<1>7. CASE found = {}
  <2>1. L!Cardinality(found) = 0
    BY <1>7, FS_EmptySet, SameCount
  <2>2. WellFound(new)
    BY <1>4, <1>5, <1>6, <1>7, <2>1 DEF WellFound
  <2> QED
    BY <2>2
<1>8. CASE found # {}
  <2>1. PICK x \in found : found = {x}
    BY <1>5, <1>8
  <2>2. L!Cardinality(found) = 1
    BY <2>1, FS_Singleton, SameCount
  <2>3. L!Least(found) \in found /\ L!Least(found) # 0
    <3>1. found \subseteq Nat
      BY <1>5, IdentifierAssumption
    <3> QED
      BY <1>5, <1>8, <3>1, LeastIsFirst, IdentifierAssumption
  <2>4. WellFound(new)
    BY <1>4, <1>5, <1>6, <2>2, <2>3 DEF WellFound
  <2> QED
    BY <2>4
<1> QED
  BY <1>7, <1>8

LEMMA AssessAlone ==
  ASSUME L!LineageTypeOK, L!LineageTypeOK', LineageWell, LineageAlone,
         NEW x \in Slots, NEW v \in Values, NEW status \in Assessable, L!Assess(x, v, status)
  PROVE  LineageAlone'
<1>1. /\ slot[x].lifecycle = "ACTIVE" /\ v \in L!ActiveValues(x)
      /\ status = "ACCEPTED" => \A other \in L!ActiveValues(x) \ {v} : verdict[x, other] # "ACCEPTED"
      /\ verdict' = [verdict EXCEPT ![<<x, v>>] = status]
      /\ UNCHANGED <<frame, lineage, slot, into, claim, support, writer>>
  BY DEF L!Assess
<1>2. \A y \in Slots, u \in Values : verdict'[y, u] = IF y = x /\ u = v THEN status ELSE verdict[y, u]
  BY <1>1, LineageTypes
<1>3. status # "absent"
  BY IdentifierAssumption DEF L!Settled
<1>4. L!ActiveValues(x) = {u \in Values : verdict[x, u] # "absent"}
  BY <1>1, ValuesAre DEF LineageAlone, Located
<1>5. \A y \in Slots, u \in Values : verdict[y, u] = "absent" <=> verdict'[y, u] = "absent"
  BY <1>1, <1>2, <1>3, <1>4
<1>0. \A y \in Slots, u, s \in Values : slot[y].lifecycle = "ACTIVE" /\ verdict[y, u] = "ACCEPTED" /\ verdict[y, s] = "ACCEPTED" => u = s
  BY DEF LineageAlone, Located
<1>6. \A y \in Slots, u, s \in Values : slot[y].lifecycle = "ACTIVE" /\ verdict'[y, u] = "ACCEPTED" /\ verdict'[y, s] = "ACCEPTED" => u = s
  <2> SUFFICES ASSUME NEW y \in Slots, NEW u \in Values, NEW s \in Values, slot[y].lifecycle = "ACTIVE",
                      verdict'[y, u] = "ACCEPTED", verdict'[y, s] = "ACCEPTED"
               PROVE  u = s
    OBVIOUS
  <2>1. CASE y # x
    BY <1>0, <1>2, <2>1
  <2>2. CASE y = x /\ status # "ACCEPTED"
    BY <1>0, <1>2, <2>2
  <2>3. CASE y = x /\ status = "ACCEPTED"
    <3>1. \A other \in Values : other # v => verdict[x, other] # "ACCEPTED"
      BY <1>1, <1>4, <2>3
    <3>2. u = v /\ s = v
      BY <1>2, <2>3, <3>1
    <3> QED
      BY <3>2
  <2> QED
    BY <2>1, <2>2, <2>3
<1>7. Located' /\ Placed'
  BY <1>1, <1>5, <1>6, SlotsSame DEF LineageAlone
<1>8. WriterAlone'
  <2>1. AtWork' = AtWork
    BY <1>1 DEF AtWork, L!Idle
  <2>2. \A w \in AtWork : WellFound(writer[w]) => WellFound(writer[w])'
    BY <1>1 DEF WellFound
  <2> QED
    BY <1>1, <2>1, <2>2 DEF LineageAlone, WriterAlone
<1> QED
  BY <1>7, <1>8 DEF LineageAlone

\* A claim is written where its frame has its one slot, or opens the first there.
LEMMA WriteAlone ==
  ASSUME L!LineageTypeOK, L!LineageTypeOK', LineageWell, LineageAlone, NEW w \in Writers, L!WriteClaim(w)
  PROVE  LineageAlone'
<1> DEFINE new == writer[w].slot = 0
           there == IF new THEN L!Least(L!FreshSlots) ELSE writer[w].slot
<1>0. PICK f, v, x : f = writer[w].frame /\ v = writer[w].value /\ x = there
  OBVIOUS
<1>1. /\ writer[w].at = "resolved" /\ (new => L!FreshSlots # {})
      /\ slot' = IF new THEN [slot EXCEPT ![x] = [row |-> f, index |-> f, lifecycle |-> "ACTIVE"]] ELSE slot
      /\ verdict' = [verdict EXCEPT ![<<x, v>>] = IF verdict[<<x, v>>] = "absent" THEN "NONE" ELSE verdict[<<x, v>>]]
      /\ claim' = [claim EXCEPT ![writer[w].claim] =
                      [slot |-> x, value |-> v, lifecycle |-> "PROVISIONAL", late |-> slot[x].lifecycle = "MERGED"]]
      /\ writer' = [writer EXCEPT ![w] = L!Idle]
      /\ UNCHANGED <<frame, lineage, into, support>>
  BY <1>0 DEF L!WriteClaim, L!NoSlot
<1>2. w \in AtWork /\ writer[w] \in WriterStates /\ f \in Frames /\ v \in Values /\ writer[w].claim \in Statements
      /\ writer[w].slot \in Slots \cup {0}
  BY <1>0, <1>1, WritersFit
<1>3. /\ frame[f] = "ACTIVE"
      /\ new => \A y \in Slots : slot[y].lifecycle = "ACTIVE" => slot[y].index # f
      /\ ~new => slot[writer[w].slot].lifecycle = "ACTIVE" /\ slot[writer[w].slot].index = f
  BY <1>0, <1>1, <1>2 DEF LineageAlone, WriterAlone, WellFound
<1>4. x \in Slots /\ (new => slot[x].lifecycle = "unused") /\ (~new => slot[x].lifecycle = "ACTIVE" /\ slot[x].index = f)
  <2>1. CASE new
    <3>1. L!FreshSlots # {} /\ L!FreshSlots \subseteq Nat
      BY <1>1, <2>1, IdentifierAssumption DEF L!FreshSlots
    <3>2. L!Least(L!FreshSlots) \in L!FreshSlots
      BY <3>1, LeastIsFirst
    <3> QED
      BY <1>0, <2>1, <3>2 DEF L!FreshSlots, L!Unused
  <2>2. CASE ~new
    BY <1>0, <1>2, <1>3, <2>2
  <2> QED
    BY <2>1, <2>2
<1> HIDE DEF new
<1>5. /\ \A y \in Slots : y # x => slot'[y] = slot[y]
      /\ slot'[x].lifecycle = "ACTIVE" /\ slot'[x].index = f
      /\ new => slot'[x].row = f
      /\ ~new => slot'[x] = slot[x]
  <2>1. slot \in [Slots -> SlotRows]
    BY LineageTypes
  <2> QED
    BY <1>1, <1>4, <2>1
<1>6. \A y \in Slots, u \in Values :
        verdict'[y, u] = IF y = x /\ u = v /\ verdict[y, u] = "absent" THEN "NONE" ELSE verdict[y, u]
  <2>1. verdict \in [Slots \X Values -> L!Assessments]
    BY LineageTypes
  <2> QED
    BY <1>1, <1>2, <1>4, <2>1
<1>7. \A g \in Frames : Last(g)' = Last(g)
  BY <1>1, ChainsSame
<1>8. Located
  BY DEF LineageAlone
<1>9. Located'
  <2>1. ASSUME NEW y \in Slots, slot'[y].lifecycle = "ACTIVE"
        PROVE  /\ slot'[y].row \in Frames /\ frame'[slot'[y].row] # "unused"
               /\ slot'[y].index \in Frames /\ frame'[slot'[y].index] \in {"ACTIVE", "SPLIT"}
               /\ \A g \in Frames : slot'[y].row = g => Last(g)' = slot'[y].index
               /\ \A u \in Values : into'[y, u] = 0
               /\ \A u, s \in Values : verdict'[y, u] = "ACCEPTED" /\ verdict'[y, s] = "ACCEPTED" => u = s
    <3>1. CASE y = x /\ new
      <4>1. Last(f) = f
        BY <1>2, <1>3, LastSteps
      <4>2. \A u \in Values : verdict[x, u] = "absent" /\ into[x, u] = 0
        BY <1>4, <1>8, <3>1 DEF Located
      <4>3. \A u \in Values : verdict'[y, u] # "ACCEPTED" /\ into'[y, u] = 0
        <5>1. into' = into
          BY <1>1
        <5>2. ASSUME NEW u \in Values PROVE verdict'[x, u] \in {"NONE", "absent"}
          BY <1>4, <1>6, <4>2
        <5> QED
          BY <3>1, <4>2, <5>1, <5>2
      <4>4. slot'[y].row = f /\ slot'[y].index = f
        BY <1>5, <3>1
      <4> QED
        BY <1>1, <1>2, <1>3, <1>7, <4>1, <4>3, <4>4
    <3>2. CASE y # x \/ ~new
      <4>1. slot'[y] = slot[y]
        BY <1>5, <3>2
      <4>2. /\ slot[y].row \in Frames /\ frame[slot[y].row] # "unused"
            /\ slot[y].index \in Frames /\ frame[slot[y].index] \in {"ACTIVE", "SPLIT"}
            /\ \A g \in Frames : slot[y].row = g => Last(g) = slot[y].index
            /\ \A u \in Values : into[y, u] = 0
            /\ \A u, s \in Values : verdict[y, u] = "ACCEPTED" /\ verdict[y, s] = "ACCEPTED" => u = s
        BY <1>8, <2>1, <4>1 DEF Located
      <4>3. \A u \in Values : verdict'[y, u] = "ACCEPTED" => verdict[y, u] = "ACCEPTED"
        BY <1>6
      <4> QED
        BY <1>1, <1>7, <4>1, <4>2, <4>3
    <3> QED
      BY <3>1, <3>2
  <2>2. ASSUME NEW y \in Slots, NEW z \in Slots, slot'[y].lifecycle = "ACTIVE", slot'[z].lifecycle = "ACTIVE",
               slot'[y].index = slot'[z].index
        PROVE  y = z
    <3>1. CASE new
      <4>1. \A h \in Slots : h # x /\ slot'[h].lifecycle = "ACTIVE" => slot'[h] = slot[h] /\ slot'[h].index # f
        BY <1>3, <1>5, <3>1
      <4>2. y # x /\ z # x => y = z
        BY <1>8, <2>2, <4>1 DEF Located
      <4> QED
        BY <1>5, <2>2, <4>1, <4>2
    <3>2. CASE ~new
      <4>1. slot'[y] = slot[y] /\ slot'[z] = slot[z]
        BY <1>5, <3>2
      <4> QED
        BY <1>8, <2>2, <4>1 DEF Located
    <3> QED
      BY <3>1, <3>2
  <2>3. ASSUME NEW y \in Slots, slot'[y].lifecycle = "unused", NEW u \in Values
        PROVE  verdict'[y, u] = "absent" /\ into'[y, u] = 0
    <3>1. y # x /\ slot[y].lifecycle = "unused"
      BY <1>5, <2>3
    <3>2. verdict[y, u] = "absent" /\ into[y, u] = 0
      BY <1>8, <3>1 DEF Located
    <3> QED
      BY <1>1, <1>6, <3>1, <3>2
  <2> QED
    BY <2>1, <2>2, <2>3 DEF Located
<1>10. Placed'
  <2> SUFFICES ASSUME NEW n \in Statements, claim'[n].lifecycle # "unused"
               PROVE  /\ ~claim'[n].late
                      /\ claim'[n].lifecycle = "PROVISIONAL" =>
                           \/ \E y \in Slots : Speaks(n, y)' /\ PlaceOf(n, y)'
                           \/ \E y \in Slots : <<n, y>> \in support' /\ slot'[y].lifecycle = "MERGED"
    BY DEF Placed
  <2>1. CASE n = writer[w].claim
    <3>1. /\ claim'[n].slot = x /\ claim'[n].value = v
          /\ claim'[n].late = (slot[x].lifecycle = "MERGED")
      BY <1>1, <1>2, <2>1, LineageTypes
    <3>2. Speaks(n, x)'
      <4>1. FollowingFits'
        BY FollowingDoes
      <4>2. \A y \in Slots, u \in Values : y \in L!FollowsTo(y, u)'
        BY <4>1 DEF FollowingFits
      <4> QED
        BY <1>2, <1>4, <3>1, <4>2 DEF Speaks
    <3>3. PlaceOf(n, x)'
      <4>1. frame' = frame
        BY <1>1
      <4>2. verdict'[x, v] # "absent"
        BY <1>2, <1>4, <1>6
      <4> QED
        BY <1>3, <1>5, <3>1, <4>1, <4>2 DEF PlaceOf
    <3> QED
      BY <1>4, <3>1, <3>2, <3>3
  <2>2. CASE n # writer[w].claim
    <3>1. claim'[n] = claim[n]
      BY <1>1, <2>2, LineageTypes
    <3>2. \A y \in Slots : Speaks(n, y) => Speaks(n, y)'
      BY <1>1, <3>1, SpeaksOn
    <3>3. \A y \in Slots : slot[y].lifecycle # "unused" => slot'[y] = slot[y]
      BY <1>4, <1>5
    <3>4. \A y \in Slots : PlaceOf(n, y) => PlaceOf(n, y)'
      <4> SUFFICES ASSUME NEW y \in Slots, PlaceOf(n, y) PROVE PlaceOf(n, y)'
        OBVIOUS
      <4>1. claim[n].value \in Values
        BY <3>1, ClaimFits
      <4>2. slot'[y] = slot[y]
        BY <3>3 DEF PlaceOf
      <4> QED
        BY <1>1, <1>6, <3>1, <4>1, <4>2 DEF PlaceOf
    <3> QED
      BY <1>1, <3>1, <3>2, <3>3, <3>4 DEF LineageAlone, Placed
  <2> QED
    BY <2>1, <2>2
<1>11. WriterAlone'
  <2>1. AtWork' = {}
    BY <1>1, <1>2, LineageTypes DEF AtWork, LineageAlone, WriterAlone, L!Idle
  <2> QED
    BY <2>1 DEF WriterAlone
<1> QED
  BY <1>9, <1>10, <1>11 DEF LineageAlone

\* What a merge makes of the verdicts: nothing said goes unsaid, and where values compete
\* none of them stays accepted.
LEMMA MergedAre ==
  ASSUME L!LineageTypeOK, NEW kept \in Slots, NEW colliding \in SUBSET Slots, kept \notin colliding
  PROVE  LET after == L!MergedVerdicts(kept, colliding)
             Claimed(v) == v \in L!ActiveValues(kept) \/ \E x \in colliding : v \in L!ActiveValues(x)
         IN  \A v \in Values :
               /\ \A x \in colliding : v \in L!ActiveValues(x) => after[x, v] \in {"SUPERSEDED", "NONE"}
               /\ Claimed(v) => after[kept, v] # "absent"
               /\ \A u \in Values : Claimed(v) /\ Claimed(u) /\ u # v => after[kept, v] # "ACCEPTED"
               /\ ~Claimed(v) => after[kept, v] = verdict[kept, v]
<1> DEFINE Moving(v) == {x \in colliding : v \in L!ActiveValues(x)}
           Own(v) == IF v \in L!ActiveValues(kept) THEN verdict[kept, v] ELSE "NONE"
           Judged(v) == {x \in Moving(v) : verdict[x, v] \in L!Settled}
           Carried(v) == IF Own(v) \in L!Settled \/ Judged(v) = {} THEN Own(v) ELSE verdict[L!Least(Judged(v)), v]
           values == L!ActiveValues(kept) \cup {v \in Values : Moving(v) # {}}
           At(q) == IF q[1] \in Moving(q[2]) THEN (IF verdict[q] \in L!Settled THEN "SUPERSEDED" ELSE "NONE")
                    ELSE IF q[1] = kept /\ q[2] \in values THEN L!Competing(values, Carried(q[2])) ELSE verdict[q]
           after == L!MergedVerdicts(kept, colliding)
           Claimed(v) == v \in L!ActiveValues(kept) \/ \E x \in colliding : v \in L!ActiveValues(x)
<1>1. after = [q \in Slots \X Values |-> At(q)]
  BY DEF L!MergedVerdicts
<1>2. \A v \in Values : v \in values <=> Claimed(v)
  BY DEF L!ActiveValues
<1>3. ASSUME NEW v \in Values PROVE Carried(v) # "absent"
  <2>1. Own(v) # "absent"
    BY DEF L!ActiveValues
  <2>2. CASE Judged(v) # {}
    <3>1. Judged(v) \subseteq Nat
      BY IdentifierAssumption
    <3>2. \A y \in Judged(v) : verdict[y, v] # "absent"
      BY DEF L!Settled
    <3> HIDE DEF Judged, Own
    <3>3. L!Least(Judged(v)) \in Judged(v)
      BY <2>2, <3>1, LeastIsFirst
    <3> QED
      BY <2>1, <3>2, <3>3
  <2> HIDE DEF Judged, Own
  <2> QED
    BY <2>1, <2>2
<1>4. \A u, v \in values : u # v => L!Cardinality(values) > 1
  <2> SUFFICES ASSUME NEW u \in values, NEW v \in values, u # v PROVE L!Cardinality(values) > 1
    OBVIOUS
  <2>1. values \in SUBSET Values
    BY DEF L!ActiveValues
  <2> HIDE DEF values
  <2>2. IsFiniteSet(values)
    BY <2>1, FS_Subset, IdentifierAssumption
  <2>3. ~(Cardinality(values) <= 1)
    BY <2>2, NotTwo
  <2> QED
    BY <2>2, <2>3, FS_CardinalityType, SameCount
<1>5. ASSUME NEW v \in Values
      PROVE  /\ \A x \in colliding : v \in L!ActiveValues(x) => after[x, v] \in {"SUPERSEDED", "NONE"}
             /\ Claimed(v) => after[kept, v] = L!Competing(values, Carried(v))
             /\ ~Claimed(v) => after[kept, v] = verdict[kept, v]
  <2>1. \A x \in Slots : after[x, v] = At(<<x, v>>)
    BY <1>1
  <2>2. \A x \in Slots : x \in Moving(v) <=> x \in colliding /\ v \in L!ActiveValues(x)
    OBVIOUS
  <2> HIDE DEF after, Moving, Carried, values
  <2> QED
    BY <1>2, <2>1, <2>2
<1> HIDE DEF after, values, Carried, Claimed
<1>6. ASSUME NEW v \in Values PROVE L!Competing(values, Carried(v)) # "absent"
  BY <1>3 DEF L!Competing
<1>7. ASSUME NEW v \in Values, NEW u \in Values, Claimed(v), Claimed(u), u # v
      PROVE  L!Competing(values, Carried(v)) # "ACCEPTED"
  BY <1>2, <1>4, <1>7 DEF L!Competing
<1>8. \A v \in Values :
        /\ \A x \in colliding : v \in L!ActiveValues(x) => after[x, v] \in {"SUPERSEDED", "NONE"}
        /\ Claimed(v) => after[kept, v] # "absent"
        /\ \A u \in Values : Claimed(v) /\ Claimed(u) /\ u # v => after[kept, v] # "ACCEPTED"
        /\ ~Claimed(v) => after[kept, v] = verdict[kept, v]
  BY <1>5, <1>6, <1>7
<1> QED
  BY <1>8 DEF after, Claimed

\* The verdicts of the slots a merge has nothing to do with stay.
LEMMA MergedElsewhere ==
  ASSUME NEW kept, NEW colliding, NEW x \in Slots, NEW v \in Values, x # kept, x \notin colliding
  PROVE  L!MergedVerdicts(kept, colliding)[x, v] = verdict[x, v]
<1> DEFINE Moving(u) == {y \in colliding : u \in L!ActiveValues(y)}
           Own(u) == IF u \in L!ActiveValues(kept) THEN verdict[kept, u] ELSE "NONE"
           Judged(u) == {y \in Moving(u) : verdict[y, u] \in L!Settled}
           Carried(u) == IF Own(u) \in L!Settled \/ Judged(u) = {} THEN Own(u) ELSE verdict[L!Least(Judged(u)), u]
           values == L!ActiveValues(kept) \cup {u \in Values : Moving(u) # {}}
           At(q) == IF q[1] \in Moving(q[2]) THEN (IF verdict[q] \in L!Settled THEN "SUPERSEDED" ELSE "NONE")
                    ELSE IF q[1] = kept /\ q[2] \in values THEN L!Competing(values, Carried(q[2])) ELSE verdict[q]
<1>1. L!MergedVerdicts(kept, colliding) = [q \in Slots \X Values |-> At(q)]
  BY DEF L!MergedVerdicts
<1>2. L!MergedVerdicts(kept, colliding)[x, v] = At(<<x, v>>)
  BY <1>1
<1>3. x \notin Moving(v)
  OBVIOUS
<1> DEFINE q == <<x, v>>
<1>4. q[1] = x /\ q[2] = v /\ q[1] \notin Moving(q[2]) /\ q[1] # kept
  BY <1>3
<1>5. At(q) = verdict[q]
  <2> HIDE DEF q, Moving, values, Carried
  <2> QED
    BY <1>4
<1> QED
  BY <1>2, <1>5

\* A merge moves the ends of the chains that ended at what it merged.
LEMMA MergeChains ==
  ASSUME L!LineageTypeOK, L!LineageTypeOK', LineageWell, LineageWell', NEW m \in Frames, NEW s \in Frames, L!MergeFrames(m, s)
  PROVE  \A g, e \in Frames : Last(g) = e => Last(g)' = IF e = m THEN s ELSE e
<1>1. /\ frame[m] = "ACTIVE" /\ frame[s] = "ACTIVE" /\ m # s
      /\ frame' = [frame EXCEPT ![m] = "MERGED"] /\ lineage' = lineage \cup {<<m, s, "MERGED_INTO">>}
  BY DEF L!MergeFrames, L!Mergeable
<1>2. frame'[m] = "MERGED" /\ frame'[s] = "ACTIVE" /\ \A f \in Frames \ {m} : frame'[f] = frame[f]
  BY <1>1, LineageTypes
<1>3. PICK row : row = <<m, s, "MERGED_INTO">>
  OBVIOUS
<1>4. row \in L!Merges' /\ row[1] = m /\ row[2] = s
  BY <1>1, <1>3 DEF L!Merges
<1>5. ChainsEnd /\ ChainsEnd'
  BY ChainsDo
<1>6. Last(m)' = s
  <2>1. Last(s)' = s
    BY <1>2, <1>5 DEF ChainsEnd
  <2>2. Last(m)' = Last(s)'
    BY <1>4, <1>5 DEF ChainsEnd
  <2> QED
    BY <2>1, <2>2
<1> SUFFICES ASSUME NEW g \in Frames, NEW e \in Frames, Last(g) = e PROVE Last(g)' = IF e = m THEN s ELSE e
  OBVIOUS
<1>7. Last(g)' = Last(e)'
  <2>1. \A f \in Frames : frame'[f] = "MERGED" /\ frame[f] # "MERGED" => f = m
    BY <1>2
  <2>2. lineage \subseteq lineage'
    BY <1>1
  <2> QED
    BY <1>2, <1>4, <2>1, <2>2, ChainsMove
<1>8. CASE e = m
  BY <1>6, <1>7, <1>8
<1>9. CASE e # m
  <2>1. frame[e] # "MERGED"
    BY <1>5 DEF ChainsEnd
  <2>2. frame'[e] # "MERGED"
    BY <1>2, <1>9, <2>1
  <2>3. Last(e)' = e
    BY <1>5, <2>2 DEF ChainsEnd
  <2> QED
    BY <1>7, <1>9, <2>3
<1> QED
  BY <1>8, <1>9

\* A merge leaves the survivor one slot, where every value moved goes on being said.
LEMMA MergeAlone ==
  ASSUME L!LineageTypeOK, L!LineageTypeOK', LineageWell, LineageWell', LineageAlone, AtWork = {},
         NEW m \in Frames, NEW s \in Frames, L!MergeFrames(m, s)
  PROVE  LineageAlone'
<1> DEFINE goes == L!FrameSlots(m)
           stay == IF L!FrameSlots(s) = {} THEN goes ELSE L!FrameSlots(s)
           keeps == IF stay = {} THEN 0 ELSE L!Least(stay)
<1>0. PICK moved, kept, colliding : moved = goes /\ kept = keeps /\ colliding = moved \ {kept}
  OBVIOUS
<1>1. /\ slot' = [x \in Slots |->
                     IF x \notin moved THEN slot[x]
                     ELSE [slot[x] EXCEPT !.index = s, !.lifecycle = IF x \in colliding THEN "MERGED" ELSE @]]
      /\ verdict' = IF colliding = {} THEN verdict ELSE L!MergedVerdicts(kept, colliding)
      /\ into' = [q \in Slots \X Values |->
                     IF q[1] \in colliding /\ q[2] \in L!ActiveValues(q[1]) THEN kept ELSE into[q]]
      /\ frame' = [frame EXCEPT ![m] = "MERGED"]
      /\ lineage' = lineage \cup {<<m, s, "MERGED_INTO">>}
      /\ UNCHANGED <<claim, support, writer>>
  BY <1>0 DEF L!MergeFrames, L!NoSlot
<1>2. frame[m] = "ACTIVE" /\ frame[s] = "ACTIVE" /\ m # s
  BY DEF L!MergeFrames, L!Mergeable
<1>3. Located /\ Placed
  BY DEF LineageAlone
<1>4. /\ moved \subseteq Slots /\ colliding \subseteq Slots /\ colliding \subseteq moved
      /\ \A x \in Slots : x \in moved <=> slot[x].lifecycle = "ACTIVE" /\ slot[x].index = m
      /\ \A x, y \in moved : x = y
  BY <1>0, <1>2, <1>3, OneLocation
<1>5. /\ colliding # {} => /\ kept \in Slots /\ kept \notin moved /\ slot[kept].lifecycle = "ACTIVE" /\ slot[kept].index = s
                           /\ colliding = moved
      /\ colliding = {} => \A x \in moved, y \in Slots : ~(slot[y].lifecycle = "ACTIVE" /\ slot[y].index = s)
  <2> DEFINE theirs == L!FrameSlots(s)
  <2>1. /\ \A x \in theirs : x \in Slots /\ slot[x].lifecycle = "ACTIVE" /\ slot[x].index = s
        /\ \A x, y \in theirs : x = y
        /\ \A x \in Slots : slot[x].lifecycle = "ACTIVE" /\ slot[x].index = s => x \in theirs
    BY <1>2, <1>3, OneLocation
  <2>2. CASE theirs = {}
    <3>1. stay = moved
      BY <1>0, <2>2
    <3>2. colliding = {}
      <4>1. CASE moved = {}
        BY <1>4, <4>1
      <4>2. CASE moved # {}
        <5>1. kept = L!Least(moved)
          BY <1>0, <3>1, <4>2
        <5>2. L!Least(moved) \in moved
          <6>1. moved \subseteq Nat
            BY <1>4, IdentifierAssumption
          <6> QED
            BY <4>2, <6>1, LeastIsFirst
        <5> QED
          BY <1>0, <1>4, <5>1, <5>2
      <4> QED
        BY <4>1, <4>2
    <3> QED
      BY <2>1, <2>2, <3>2
  <2>3. CASE theirs # {}
    <3>1. kept = L!Least(theirs)
      BY <1>0, <2>3
    <3>2. L!Least(theirs) \in theirs
      <4>1. theirs \subseteq Nat
        BY <2>1, IdentifierAssumption
      <4> HIDE DEF theirs
      <4> QED
        BY <2>3, <4>1, LeastIsFirst
    <3>3. kept \in Slots /\ slot[kept].lifecycle = "ACTIVE" /\ slot[kept].index = s
      BY <2>1, <3>1, <3>2
    <3>4. kept \notin moved
      BY <1>2, <1>4, <3>3
    <3>5. colliding = moved
      BY <1>0, <3>4
    <3> HIDE DEF theirs
    <3> QED
      BY <3>3, <3>4, <3>5
  <2> QED
    BY <2>2, <2>3
<1> HIDE DEF goes, stay, keeps
<1>6. /\ \A x \in Slots \ moved : slot'[x] = slot[x]
      /\ \A x \in moved : /\ slot'[x].row = slot[x].row /\ slot'[x].index = s
                          /\ slot'[x].lifecycle = IF x \in colliding THEN "MERGED" ELSE "ACTIVE"
  <2>1. \A x \in Slots : slot[x] \in SlotRows
    BY LineageTypes
  <2>2. ASSUME NEW x \in moved
        PROVE  /\ slot'[x].row = slot[x].row /\ slot'[x].index = s
               /\ slot'[x].lifecycle = IF x \in colliding THEN "MERGED" ELSE "ACTIVE"
    <3>1. slot'[x] = [slot[x] EXCEPT !.index = s, !.lifecycle = IF x \in colliding THEN "MERGED" ELSE slot[x].lifecycle]
      BY <1>1, <1>4
    <3> QED
      BY <1>4, <2>1, <3>1 DEF SlotRows
  <2> QED
    BY <1>1, <2>2
<1>7. frame'[m] = "MERGED" /\ \A f \in Frames \ {m} : frame'[f] = frame[f]
  BY <1>1, LineageTypes
<1>8. \A g, e \in Frames : Last(g) = e => Last(g)' = IF e = m THEN s ELSE e
  BY MergeChains
<1>9. \A x \in moved : L!ActiveValues(x) = {v \in Values : verdict[x, v] # "absent"} /\ \A v \in Values : into[x, v] = 0
  <2> SUFFICES ASSUME NEW x \in moved
               PROVE  L!ActiveValues(x) = {v \in Values : verdict[x, v] # "absent"} /\ \A v \in Values : into[x, v] = 0
    OBVIOUS
  <2>1. x \in Slots /\ slot[x].lifecycle = "ACTIVE"
    BY <1>4
  <2>2. \A v \in Values : into[x, v] = 0
    BY <1>3, <2>1 DEF Located
  <2> QED
    BY <2>1, <2>2, ValuesAre
<1>10. ASSUME NEW x \in Slots, NEW v \in Values
       PROVE  into'[x, v] = IF x \in colliding /\ verdict[x, v] # "absent" THEN kept ELSE into[x, v]
  <2>1. into'[x, v] = IF x \in colliding /\ v \in L!ActiveValues(x) THEN kept ELSE into[x, v]
    BY <1>1
  <2>2. x \in colliding => (v \in L!ActiveValues(x) <=> verdict[x, v] # "absent")
    BY <1>4, <1>9
  <2> HIDE DEF L!ActiveValues
  <2> QED
    BY <2>1, <2>2
<1>11. \A x \in Slots, v \in Values : x # kept /\ x \notin colliding => verdict'[x, v] = verdict[x, v]
  <2>1. CASE colliding = {}
    BY <1>1, <2>1
  <2>2. CASE colliding # {}
    <3>1. verdict' = L!MergedVerdicts(kept, colliding) /\ kept \in Slots /\ kept \notin colliding
      BY <1>1, <1>4, <1>5, <2>2
    <3> SUFFICES ASSUME NEW x \in Slots, NEW v \in Values, x # kept, x \notin colliding PROVE verdict'[x, v] = verdict[x, v]
      OBVIOUS
    <3>3. L!MergedVerdicts(kept, colliding)[x, v] = verdict[x, v]
      BY MergedElsewhere
    <3> QED
      BY <3>1, <3>3
  <2> QED
    BY <2>1, <2>2
<1>12. \A x \in Slots, v \in Values : verdict[x, v] # "absent" => verdict'[x, v] # "absent"
  <2>1. CASE colliding = {}
    BY <1>1, <2>1
  <2>2. CASE colliding # {}
    <3> SUFFICES ASSUME NEW x \in Slots, NEW v \in Values, verdict[x, v] # "absent" PROVE verdict'[x, v] # "absent"
      OBVIOUS
    <3>1. verdict' = L!MergedVerdicts(kept, colliding) /\ kept \in Slots /\ kept \notin colliding
      BY <1>1, <1>4, <1>5, <2>2
    <3>2. CASE x \in colliding
      <4>1. v \in L!ActiveValues(x)
        BY <1>4, <1>9, <3>2
      <4> QED
        BY <1>4, <3>1, <3>2, <4>1, MergedAre
    <3>3. CASE x = kept
      <4>1. verdict'[kept, v] = verdict[kept, v] \/ verdict'[kept, v] # "absent"
        BY <1>4, <3>1, MergedAre
      <4> QED
        BY <3>3, <4>1
    <3>4. CASE x # kept /\ x \notin colliding
      BY <1>11, <3>4
    <3> QED
      BY <3>2, <3>3, <3>4
  <2> QED
    BY <2>1, <2>2
<1>13. \A x \in colliding, v \in Values : verdict[x, v] # "absent" => verdict'[kept, v] # "absent"
  <2> SUFFICES ASSUME NEW x \in colliding, NEW v \in Values, verdict[x, v] # "absent" PROVE verdict'[kept, v] # "absent"
    OBVIOUS
  <2>1. verdict' = L!MergedVerdicts(kept, colliding) /\ kept \in Slots /\ kept \notin colliding
    BY <1>1, <1>4, <1>5
  <2>2. v \in L!ActiveValues(x)
    BY <1>4, <1>9
  <2> QED
    BY <1>4, <2>1, <2>2, MergedAre
<1>14. \A x \in Slots, v, u \in Values :
         slot'[x].lifecycle = "ACTIVE" /\ verdict'[x, v] = "ACCEPTED" /\ verdict'[x, u] = "ACCEPTED" => v = u
  <2> SUFFICES ASSUME NEW x \in Slots, NEW v \in Values, NEW u \in Values, slot'[x].lifecycle = "ACTIVE",
                      verdict'[x, v] = "ACCEPTED", verdict'[x, u] = "ACCEPTED", v # u
               PROVE  FALSE
    OBVIOUS
  <2>1. x \notin colliding /\ slot[x].lifecycle = "ACTIVE"
    BY <1>4, <1>6
  <2>2. ~(verdict[x, v] = "ACCEPTED" /\ verdict[x, u] = "ACCEPTED")
    BY <1>3, <2>1 DEF Located
  <2>3. x = kept /\ colliding # {}
    <3>1. CASE colliding = {}
      BY <1>1, <2>2, <3>1
    <3>2. CASE x # kept
      BY <1>11, <2>1, <2>2, <3>2
    <3> QED
      BY <3>1, <3>2
  <2> DEFINE Claimed(y) == y \in L!ActiveValues(kept) \/ \E z \in colliding : y \in L!ActiveValues(z)
  <2>4. verdict' = L!MergedVerdicts(kept, colliding) /\ kept \in Slots /\ kept \notin colliding
    BY <1>1, <1>4, <1>5, <2>3
  <2>5. \A y \in Values : /\ \A z \in Values : Claimed(y) /\ Claimed(z) /\ z # y => verdict'[kept, y] # "ACCEPTED"
                          /\ ~Claimed(y) => verdict'[kept, y] = verdict[kept, y]
    BY <1>4, <2>4, MergedAre
  <2>6. \A y \in Values : ~Claimed(y) => verdict[kept, y] = "absent"
    <3>1. L!ActiveValues(kept) = {y \in Values : verdict[kept, y] # "absent"}
      BY <1>3, <2>1, <2>3, ValuesAre DEF Located
    <3> QED
      BY <3>1
  <2> HIDE DEF Claimed
  <2> QED
    BY <2>3, <2>5, <2>6
<1>15. Located'
  <2>1. ASSUME NEW x \in Slots, slot'[x].lifecycle = "ACTIVE"
        PROVE  /\ slot'[x].row \in Frames /\ frame'[slot'[x].row] # "unused"
               /\ slot'[x].index \in Frames /\ frame'[slot'[x].index] \in {"ACTIVE", "SPLIT"}
               /\ \A g \in Frames : slot'[x].row = g => Last(g)' = slot'[x].index
               /\ \A v \in Values : into'[x, v] = 0
    <3>1. x \notin colliding /\ slot[x].lifecycle = "ACTIVE" /\ slot'[x].row = slot[x].row
      BY <1>4, <1>6, <2>1
    <3>2. /\ slot[x].row \in Frames /\ frame[slot[x].row] # "unused"
          /\ slot[x].index \in Frames /\ frame[slot[x].index] \in {"ACTIVE", "SPLIT"}
          /\ \A g \in Frames : slot[x].row = g => Last(g) = slot[x].index
          /\ \A v \in Values : into[x, v] = 0
      BY <1>3, <3>1 DEF Located
    <3>3. \A v \in Values : into'[x, v] = 0
      BY <1>10, <3>1, <3>2
    <3>4. \A f \in Frames : frame[f] # "unused" => frame'[f] # "unused"
      BY <1>7
    <3>5. slot'[x].index = IF slot[x].index = m THEN s ELSE slot[x].index
      BY <1>4, <1>6, <3>1
    <3>6. frame'[slot'[x].index] \in {"ACTIVE", "SPLIT"} /\ slot'[x].index \in Frames
      BY <1>2, <1>7, <3>2, <3>5
    <3>7. \A g \in Frames : slot'[x].row = g => Last(g)' = slot'[x].index
      BY <1>8, <3>1, <3>2, <3>5
    <3> QED
      BY <3>1, <3>2, <3>3, <3>4, <3>6, <3>7
  <2>2. ASSUME NEW x \in Slots, NEW y \in Slots, slot'[x].lifecycle = "ACTIVE", slot'[y].lifecycle = "ACTIVE",
               slot'[x].index = slot'[y].index
        PROVE  x = y
    <3>1. \A z \in {x, y} : z \notin colliding /\ slot[z].lifecycle = "ACTIVE"
      BY <1>4, <1>6, <2>2
    <3>2. \A z \in {x, y} : z \notin moved => slot'[z] = slot[z]
      BY <1>6
    <3>3. \A z \in {x, y} : z \in moved => colliding = {} /\ slot'[z].index = s
      BY <1>5, <1>6, <3>1
    <3>4. CASE x \notin moved /\ y \notin moved
      BY <1>3, <2>2, <3>1, <3>2, <3>4 DEF Located
    <3>5. CASE x \in moved /\ y \in moved
      BY <1>4, <3>5
    <3>6. CASE ~(x \in moved <=> y \in moved)
      BY <1>5, <2>2, <3>1, <3>2, <3>3, <3>6
    <3> QED
      BY <3>4, <3>5, <3>6
  <2>3. ASSUME NEW x \in Slots, slot'[x].lifecycle = "unused", NEW v \in Values
        PROVE  verdict'[x, v] = "absent" /\ into'[x, v] = 0
    <3>1. x \notin moved /\ slot[x].lifecycle = "unused" /\ x \notin colliding /\ (colliding # {} => x # kept)
      BY <1>4, <1>5, <1>6, <2>3
    <3>2. verdict[x, v] = "absent" /\ into[x, v] = 0
      BY <1>3, <3>1 DEF Located
    <3>3. verdict'[x, v] = verdict[x, v]
      BY <1>1, <1>11, <3>1
    <3> QED
      BY <1>10, <3>1, <3>2, <3>3
  <2> QED
    BY <1>14, <2>1, <2>2, <2>3 DEF Located
<1>16. Placed'
  <2> SUFFICES ASSUME NEW n \in Statements, claim[n].lifecycle = "PROVISIONAL"
               PROVE  \/ \E x \in Slots : Speaks(n, x)' /\ PlaceOf(n, x)'
                      \/ \E x \in Slots : <<n, x>> \in support' /\ slot'[x].lifecycle = "MERGED"
    BY <1>1, <1>3 DEF Placed
  <2>1. claim' = claim /\ support' = support /\ claim[n].slot \in Slots /\ claim[n].value \in Values
    BY <1>1, ClaimFits
  <2>2. PICK v \in Values : v = claim[n].value
    BY <2>1
  <2>3. \A x \in Slots, u \in Values : into[x, u] # 0 => into'[x, u] = into[x, u]
    BY <1>4, <1>9, <1>10
  <2>4. \A x \in Slots : Speaks(n, x) => Speaks(n, x)'
    BY <2>1, <2>3, SpeaksOn
  <2>5. CASE \E x \in Slots : <<n, x>> \in support /\ slot[x].lifecycle = "MERGED"
    BY <1>4, <1>6, <2>1, <2>5
  <2>6. ASSUME NEW x \in Slots, Speaks(n, x), PlaceOf(n, x)
        PROVE  \/ \E y \in Slots : Speaks(n, y)' /\ PlaceOf(n, y)'
               \/ \E y \in Slots : <<n, y>> \in support' /\ slot'[y].lifecycle = "MERGED"
    <3>1. slot[x].lifecycle = "ACTIVE" /\ verdict[x, v] # "absent" /\ frame[slot[x].index] = "ACTIVE"
      BY <2>2, <2>6 DEF PlaceOf
    <3>2. verdict'[x, v] # "absent"
      BY <1>12, <3>1
    <3>3. CASE x \notin moved
      <4>1. slot'[x] = slot[x] /\ slot[x].index # m /\ slot[x].index \in Frames
        BY <1>3, <1>4, <1>6, <3>1, <3>3 DEF Located
      <4>2. PlaceOf(n, x)'
        BY <1>7, <2>1, <2>2, <3>1, <3>2, <4>1 DEF PlaceOf
      <4> QED
        BY <2>4, <2>6, <4>2
    <3>4. CASE x \in moved /\ x \notin colliding
      <4>1. slot'[x].lifecycle = "ACTIVE" /\ slot'[x].index = s
        BY <1>6, <3>4
      <4>2. PlaceOf(n, x)'
        BY <1>2, <1>7, <2>1, <2>2, <3>2, <4>1 DEF PlaceOf
      <4> QED
        BY <2>4, <2>6, <4>2
    <3>5. CASE x \in colliding /\ <<n, x>> \in support
      BY <1>4, <1>6, <2>1, <3>5
    <3>6. CASE x \in colliding /\ <<n, x>> \notin support
      <4>1. kept \in Slots /\ slot[kept].lifecycle = "ACTIVE" /\ slot[kept].index = s /\ kept \notin moved /\ kept # 0
        BY <1>5, <3>6, IdentifierAssumption
      <4>2. PlaceOf(n, kept)'
        BY <1>2, <1>6, <1>7, <1>13, <2>1, <2>2, <3>1, <3>6, <4>1 DEF PlaceOf
      <4>3. PICK y \in Slots : claim[n].slot = y /\ x \in L!FollowsTo(y, v)
        BY <2>2, <2>6, <3>6 DEF Speaks
      <4>4. x \in L!FollowsTo(y, v)'
        BY <2>3, <4>3, FollowsOn
      <4>5. into'[x, v] = kept
        BY <1>10, <3>1, <3>6
      <4>6. FollowingFits'
        BY FollowingDoes
      <4>7. kept \in L!FollowsTo(y, v)'
        <5> DEFINE U == L!FollowsTo(y, v)'
        <5>1. \A z \in U : into'[z, v] # 0 => into'[z, v] \in U
          BY <4>6 DEF FollowingFits
        <5> HIDE DEF U
        <5>2. x \in U
          BY <4>4 DEF U
        <5> QED
          BY <4>1, <4>5, <5>1, <5>2 DEF U
      <4>8. Speaks(n, kept)'
        BY <2>1, <2>2, <4>3, <4>7 DEF Speaks
      <4> QED
        BY <4>1, <4>2, <4>8
    <3> QED
      BY <3>3, <3>4, <3>5, <3>6
  <2> QED
    BY <1>3, <2>5, <2>6 DEF Placed
<1>17. WriterAlone'
  <2>1. AtWork' = {}
    BY <1>1 DEF AtWork, L!Idle
  <2> QED
    BY <2>1 DEF WriterAlone
<1> QED
  BY <1>15, <1>16, <1>17 DEF LineageAlone

\* A split opens frames; it merges none, and so moves no chain's end.
LEMMA SplitChains ==
  ASSUME L!LineageTypeOK, L!LineageTypeOK', LineageWell, LineageWell', lineage \subseteq lineage',
         \A f \in Frames : frame'[f] = "MERGED" => frame[f] = "MERGED"
  PROVE  \A f \in Frames : Last(f)' = Last(f)
<1> SUFFICES ASSUME NEW f \in Frames PROVE Last(f)' = Last(f)
  OBVIOUS
<1>1. ChainsEnd
  BY ChainsDo
<1>2. frame'[Last(f)] # "MERGED"
  BY <1>1 DEF ChainsEnd
<1> QED
  BY <1>2, ChainsStay

\* What a split makes of the slots and the verdicts: one slot in each frame it opens, with
\* the verdicts of the slot that the claims spoke for.
SplitSpeaks(p, part) ==
  \A n \in DOMAIN part : /\ n \in Statements /\ L!Spot(n, p) \in L!FrameSlots(p)
                         /\ claim[n].value \in L!ActiveValues(L!Spot(n, p))
                         /\ part[n] # 0 => <<L!Spot(n, p), part[n]>> \in L!Mixed(p, part)

SplitNames(p, part, name) ==
  /\ \A a \in L!Mixed(p, part) : /\ a[1] \in L!FrameSlots(p) /\ a[2] \in {1, 2}
                                 /\ name[a] \in Slots /\ slot[name[a]].lifecycle = "unused"
  /\ \A a, b \in L!Mixed(p, part) : a[2] = b[2] => a = b

SplitOpens(p, part, one, two, name) ==
  \A a \in L!Mixed(p, part) :
    /\ slot'[name[a]].row = IF a[2] = 1 THEN one ELSE two
    /\ slot'[name[a]].index = IF a[2] = 1 THEN one ELSE two
    /\ slot'[name[a]].lifecycle = "ACTIVE"
    /\ \A v \in Values : verdict'[name[a], v] \in {verdict[a[1], v], verdict[name[a], v]}

SplitKeeps(p, part, name) ==
  \A n \in DOMAIN part, v \in Values :
    part[n] # 0 /\ claim[n].value = v => verdict'[name[<<L!Spot(n, p), part[n]>>], v] = verdict[L!Spot(n, p), v]

SplitSpares(p, part, name) ==
  \A x \in Slots : slot[x].lifecycle # "unused" \/ (\A a \in L!Mixed(p, part) : name[a] # x) =>
    /\ slot'[x] = slot[x]
    /\ \A v \in Values : /\ verdict'[x, v] \in {verdict[x, v], "CONTESTED", "SUPERSEDED"}
                         /\ x \notin L!FrameSlots(p) => verdict'[x, v] = verdict[x, v]

LEMMA SplitLeavesIt ==
  ASSUME L!LineageTypeOK, LineageWell, Located,
         NEW p \in Frames, NEW part \in [L!Speaking(p) -> 0..2],
         NEW one \in L!FreshFrames, NEW two \in L!FreshFrames,
         NEW name \in [L!Mixed(p, part) -> L!TheFirst(L!Cardinality(L!Mixed(p, part)), L!FreshSlots)],
         L!SplitFrame(p, part, one, two, name)
  PROVE  /\ SplitSpeaks(p, part) /\ SplitNames(p, part, name) /\ SplitOpens(p, part, one, two, name)
         /\ SplitKeeps(p, part, name) /\ SplitSpares(p, part, name)
<1> DEFINE parent == L!FrameSlots(p)
           assigned == {n \in DOMAIN part : part[n] # 0}
           mixed == L!Mixed(p, part)
           Heirs(x, v) == {h \in mixed : name[h] = x /\ \E n \in assigned : <<L!Spot(n, p), part[n]>> = h /\ claim[n].value = v}
           Abandoned(x, v) == \E n \in DOMAIN part \ assigned : L!Spot(n, p) = x /\ claim[n].value = v
           Verdict(x, v) ==
             IF \E h \in Heirs(x, v) : TRUE THEN verdict[(CHOOSE h \in Heirs(x, v) : TRUE)[1], v]
             ELSE IF x \in parent /\ v \in L!ActiveValues(x) /\ verdict[x, v] \in L!Settled
             THEN (IF Abandoned(x, v) THEN "CONTESTED" ELSE "SUPERSEDED") ELSE verdict[x, v]
<1>1. /\ slot' = [x \in Slots |->
                    IF \E h \in mixed : name[h] = x
                    THEN LET f == IF (CHOOSE h \in mixed : name[h] = x)[2] = 1 THEN one ELSE two
                         IN  [row |-> f, index |-> f, lifecycle |-> "ACTIVE"]
                    ELSE slot[x]]
      /\ verdict' = [q \in Slots \X Values |-> Verdict(q[1], q[2])]
  BY DEF L!SplitFrame
<1>2. frame[p] = "ACTIVE" /\ \A a, b \in mixed : name[a] = name[b] => a = b
  <2>1. frame[p] = "ACTIVE" /\ L!IsInjective(name)
    BY DEF L!SplitFrame
  <2> QED
    BY <2>1 DEF L!IsInjective
<1>3. /\ parent \subseteq Slots /\ \A x, y \in parent : x = y
      /\ \A x \in parent : slot[x].lifecycle = "ACTIVE"
  BY <1>2, OneLocation
<1>4. ASSUME NEW n \in DOMAIN part
      PROVE n \in Statements /\ L!Spot(n, p) \in parent /\ claim[n].value \in L!ActiveValues(L!Spot(n, p))
  <2>1. n \in Statements /\ L!Spots(n, p) # {}
    BY DEF L!Speaking
  <2>2. \A x \in L!Spots(n, p) : x \in parent /\ claim[n].value \in L!ActiveValues(x)
    BY DEF L!Spots
  <2>3. L!Spots(n, p) \subseteq Nat
    BY <1>3, <2>2, IdentifierAssumption
  <2>4. L!Spot(n, p) \in L!Spots(n, p)
    BY <2>1, <2>3, LeastIsFirst DEF L!Spot
  <2> QED
    BY <2>1, <2>2, <2>4
<1>5. mixed = {<<L!Spot(n, p), part[n]>> : n \in assigned}
  BY DEF L!Mixed
<1>6. ASSUME NEW a \in mixed PROVE a[1] \in parent /\ a[2] \in {1, 2} /\ a = <<a[1], a[2]>>
  <2>1. PICK n \in assigned : a = <<L!Spot(n, p), part[n]>>
    BY <1>5
  <2>2. part[n] \in 0..2 /\ part[n] # 0
    OBVIOUS
  <2> QED
    BY <1>4, <2>1, <2>2
<1>7. \A a, b \in mixed : a[2] = b[2] => a = b
  BY <1>3, <1>6
<1>8. \A a \in mixed : name[a] \in Slots /\ slot[name[a]].lifecycle = "unused" /\ name[a] \notin parent
  <2>1. L!TheFirst(L!Cardinality(L!Mixed(p, part)), L!FreshSlots) \subseteq L!FreshSlots
    BY DEF L!TheFirst
  <2>2. \A a \in mixed : name[a] \in L!FreshSlots
    BY <2>1
  <2> HIDE DEF mixed, parent
  <2> QED
    BY <1>3, <2>2 DEF L!FreshSlots, L!Unused
<1>9. \A n \in assigned : <<L!Spot(n, p), part[n]>> \in mixed
  BY <1>5
<1> HIDE DEF mixed, parent
<1>10. ASSUME NEW a \in mixed
       PROVE  slot'[name[a]] = LET f == IF a[2] = 1 THEN one ELSE two IN [row |-> f, index |-> f, lifecycle |-> "ACTIVE"]
  <2>1. (CHOOSE h \in mixed : name[h] = name[a]) = a
    BY <1>2
  <2> QED
    BY <1>1, <1>8, <2>1
<1>11. \A x \in Slots, v \in Values : verdict'[x, v] = Verdict(x, v)
  <2> HIDE DEF Verdict
  <2> QED
    BY <1>1
<1>12. ASSUME NEW a \in mixed, NEW v \in Values
       PROVE  /\ verdict'[name[a], v] \in {verdict[a[1], v], verdict[name[a], v]}
              /\ (\E h \in Heirs(name[a], v) : TRUE) => verdict'[name[a], v] = verdict[a[1], v]
  <2>1. verdict'[name[a], v] = Verdict(name[a], v)
    BY <1>8, <1>11
  <2>2. CASE \E h \in Heirs(name[a], v) : TRUE
    <3>1. Heirs(name[a], v) \subseteq {a}
      BY <1>2
    <3>2. (CHOOSE h \in Heirs(name[a], v) : TRUE) = a
      <4> HIDE DEF Heirs
      <4> QED
        BY <2>2, <3>1
    <3> HIDE DEF Heirs, Abandoned
    <3>3. Verdict(name[a], v) = verdict[a[1], v]
      BY <2>2, <3>2
    <3> HIDE DEF Verdict
    <3> QED
      BY <2>1, <3>3
  <2>3. CASE ~\E h \in Heirs(name[a], v) : TRUE
    <3>1. Verdict(name[a], v) = verdict[name[a], v]
      <4> HIDE DEF Heirs, Abandoned
      <4> QED
        BY <1>8, <2>3
    <3> HIDE DEF Verdict, Heirs
    <3> QED
      BY <2>1, <2>3, <3>1
  <2> HIDE DEF Heirs, Verdict
  <2> QED
    BY <2>2, <2>3
<1>13. ASSUME NEW n \in assigned, NEW v \in Values, claim[n].value = v
       PROVE  verdict'[name[<<L!Spot(n, p), part[n]>>], v] = verdict[L!Spot(n, p), v]
  <2> DEFINE a == <<L!Spot(n, p), part[n]>>
  <2>1. a \in mixed /\ a[1] = L!Spot(n, p)
    BY <1>9
  <2>2. a \in Heirs(name[a], v)
    BY <1>13, <2>1
  <2> HIDE DEF a, Heirs
  <2>3. verdict'[name[a], v] = verdict[a[1], v]
    BY <1>12, <2>1, <2>2
  <2> QED
    BY <2>1, <2>3 DEF a
<1>14. ASSUME NEW x \in Slots, slot[x].lifecycle # "unused" \/ (\A a \in mixed : name[a] # x)
       PROVE  /\ slot'[x] = slot[x]
              /\ \A v \in Values : /\ verdict'[x, v] \in {verdict[x, v], "CONTESTED", "SUPERSEDED"}
                                   /\ x \notin parent => verdict'[x, v] = verdict[x, v]
  <2>1. \A a \in mixed : name[a] # x
    BY <1>8, <1>14
  <2>2. slot'[x] = slot[x]
    BY <1>1, <2>1
  <2>3. ASSUME NEW v \in Values
        PROVE  /\ verdict'[x, v] \in {verdict[x, v], "CONTESTED", "SUPERSEDED"}
               /\ x \notin parent => verdict'[x, v] = verdict[x, v]
    <3>1. ~\E h \in Heirs(x, v) : TRUE
      BY <2>1
    <3>2. verdict'[x, v] = Verdict(x, v)
      BY <1>11
    <3> HIDE DEF Heirs, Abandoned
    <3> QED
      BY <3>1, <3>2
  <2> QED
    BY <2>2, <2>3
<1> HIDE DEF Verdict, Heirs, Abandoned
<1>15. SplitSpeaks(p, part)
  BY <1>4, <1>9 DEF SplitSpeaks, mixed, parent
<1>16. SplitNames(p, part, name)
  BY <1>6, <1>7, <1>8 DEF SplitNames, mixed, parent
<1>17. SplitOpens(p, part, one, two, name)
  <2> SUFFICES ASSUME NEW a \in mixed
               PROVE  /\ slot'[name[a]].row = IF a[2] = 1 THEN one ELSE two
                      /\ slot'[name[a]].index = IF a[2] = 1 THEN one ELSE two
                      /\ slot'[name[a]].lifecycle = "ACTIVE"
                      /\ \A v \in Values : verdict'[name[a], v] \in {verdict[a[1], v], verdict[name[a], v]}
    BY DEF SplitOpens, mixed
  <2> DEFINE f == IF a[2] = 1 THEN one ELSE two
  <2>1. slot'[name[a]] = [row |-> f, index |-> f, lifecycle |-> "ACTIVE"]
    BY <1>10
  <2>2. \A v \in Values : verdict'[name[a], v] \in {verdict[a[1], v], verdict[name[a], v]}
    BY <1>12
  <2>3. /\ slot'[name[a]].row = f /\ slot'[name[a]].index = f
        /\ slot'[name[a]].lifecycle = "ACTIVE"
    <3> HIDE DEF f
    <3> QED
      BY <2>1
  <2> QED
    BY <2>2, <2>3
<1>18. SplitKeeps(p, part, name)
  BY <1>13 DEF SplitKeeps
<1>19. SplitSpares(p, part, name)
  <2> SUFFICES ASSUME NEW x \in Slots, slot[x].lifecycle # "unused" \/ (\A a \in mixed : name[a] # x)
               PROVE  /\ slot'[x] = slot[x]
                      /\ \A v \in Values : /\ verdict'[x, v] \in {verdict[x, v], "CONTESTED", "SUPERSEDED"}
                                           /\ x \notin parent => verdict'[x, v] = verdict[x, v]
    BY DEF SplitSpares, mixed, parent
  <2> QED
    BY <1>14
<1> QED
  BY <1>15, <1>16, <1>17, <1>18, <1>19

\* A split leaves the frames it opens one slot each, and takes no claim's place but those
\* it leaves contested.
LEMMA SplitAlone ==
  ASSUME L!LineageTypeOK, L!LineageTypeOK', LineageWell, LineageWell', LineageAlone, AtWork = {},
         NEW p \in Frames, NEW part \in [L!Speaking(p) -> 0..2],
         NEW one \in L!FreshFrames, NEW two \in L!FreshFrames,
         NEW name \in [L!Mixed(p, part) -> L!TheFirst(L!Cardinality(L!Mixed(p, part)), L!FreshSlots)],
         L!SplitFrame(p, part, one, two, name)
  PROVE  LineageAlone'
<1>1. Located /\ Placed
  BY DEF LineageAlone
<1>20. /\ SplitSpeaks(p, part) /\ SplitNames(p, part, name) /\ SplitOpens(p, part, one, two, name)
       /\ SplitKeeps(p, part, name) /\ SplitSpares(p, part, name)
  BY <1>1, SplitLeavesIt
<1> DEFINE assigned == {n \in DOMAIN part : part[n] # 0}
<1>2. PICK mixed, parent : mixed = L!Mixed(p, part) /\ parent = L!FrameSlots(p)
  OBVIOUS
<1>3. /\ frame' = [f \in Frames |-> IF f = p THEN "SPLIT" ELSE IF f \in {one, two} THEN "ACTIVE" ELSE frame[f]]
      /\ lineage' = lineage \cup {<<p, one, "SPLIT_INTO">>, <<p, two, "SPLIT_INTO">>}
      /\ support' = support \cup {<<n, name[<<L!Spot(n, p), part[n]>>]>> : n \in assigned}
      /\ claim' = [n \in Statements |->
                     IF n \in DOMAIN part \ assigned /\ claim[n].lifecycle \in L!Contestable
                     THEN [claim[n] EXCEPT !.lifecycle = "CONTESTED"] ELSE claim[n]]
      /\ UNCHANGED <<into, writer>>
  BY DEF L!SplitFrame
<1>4. frame[p] = "ACTIVE" /\ one < two
  BY DEF L!SplitFrame
<1>5. one \in Frames /\ two \in Frames /\ frame[one] = "unused" /\ frame[two] = "unused" /\ one # two
  <2>1. one \in Nat /\ two \in Nat
    BY IdentifierAssumption DEF L!FreshFrames
  <2> QED
    BY <1>4, <2>1 DEF L!FreshFrames, L!Unused
<1>6. /\ frame'[p] = "SPLIT" /\ frame'[one] = "ACTIVE" /\ frame'[two] = "ACTIVE"
      /\ \A f \in Frames : f # p /\ frame[f] # "unused" => frame'[f] = frame[f]
      /\ \A f \in Frames : frame'[f] = "MERGED" => frame[f] = "MERGED"
  BY <1>3, <1>4, <1>5
<1>7. \A f \in Frames : Last(f)' = Last(f)
  <2>1. lineage \subseteq lineage'
    BY <1>3
  <2> QED
    BY <1>6, <2>1, SplitChains
<1>8. /\ \A n \in DOMAIN part : n \in Statements /\ L!Spot(n, p) \in parent
      /\ \A n \in assigned : <<L!Spot(n, p), part[n]>> \in mixed
      /\ \A a \in mixed : a[1] \in parent /\ name[a] \in Slots /\ slot[name[a]].lifecycle = "unused"
      /\ \A a, b \in mixed : a[2] = b[2] => a = b
      /\ \A a \in mixed : a[2] \in {1, 2}
  <2>1. \A n \in DOMAIN part : n \in Statements /\ L!Spot(n, p) \in parent
    BY <1>2, <1>20, Zenon DEF SplitSpeaks
  <2>3. ASSUME NEW n \in DOMAIN part, part[n] # 0 PROVE <<L!Spot(n, p), part[n]>> \in mixed
    <3>1. <<L!Spot(n, p), part[n]>> \in L!Mixed(p, part)
      BY <1>20, <2>3, Zenon DEF SplitSpeaks
    <3> QED
      BY <1>2, <3>1
  <2>2. /\ \A a \in mixed : a[1] \in parent /\ name[a] \in Slots /\ slot[name[a]].lifecycle = "unused"
        /\ \A a, b \in mixed : a[2] = b[2] => a = b
        /\ \A a \in mixed : a[2] \in {1, 2}
    BY <1>2, <1>20 DEF SplitNames
  <2> QED
    BY <2>1, <2>2, <2>3
<1>9. \A x \in Slots : slot[x].lifecycle # "unused" \/ (\A a \in mixed : name[a] # x) =>
        /\ slot'[x] = slot[x]
        /\ \A v \in Values : /\ verdict'[x, v] \in {verdict[x, v], "CONTESTED", "SUPERSEDED"}
                             /\ x \notin parent => verdict'[x, v] = verdict[x, v]
  BY <1>2, <1>20 DEF SplitSpares
<1> DEFINE Home(a) == IF a[2] = 1 THEN one ELSE two
<1>10. \A a \in mixed : /\ slot'[name[a]].row = Home(a) /\ slot'[name[a]].index = Home(a)
                        /\ slot'[name[a]].lifecycle = "ACTIVE"
  BY <1>2, <1>20 DEF SplitOpens
<1>11. \A a \in mixed, v \in Values : verdict'[name[a], v] \in {verdict[a[1], v], "absent"}
  <2>1. \A a \in mixed, v \in Values : verdict'[name[a], v] \in {verdict[a[1], v], verdict[name[a], v]}
    BY <1>2, <1>20 DEF SplitOpens
  <2>2. \A a \in mixed, v \in Values : verdict[name[a], v] = "absent"
    BY <1>1, <1>8 DEF Located
  <2> QED
    BY <2>1, <2>2
<1>12. \A x \in Slots : x \in parent <=> slot[x].lifecycle = "ACTIVE" /\ slot[x].index = p
  BY <1>1, <1>2, <1>4, OneLocation
<1>13. parent \subseteq Slots
  BY <1>2 DEF L!FrameSlots
<1>14. ASSUME NEW x \in Slots, slot'[x].lifecycle = "ACTIVE"
       PROVE  \/ slot[x].lifecycle = "ACTIVE" /\ slot'[x] = slot[x] /\ \A a \in mixed : name[a] # x
              \/ \E a \in mixed : name[a] = x
  BY <1>8, <1>9, <1>14
<1>15. Located'
  <2> DEFINE Fits(x) ==
        /\ slot'[x].row \in Frames /\ frame'[slot'[x].row] # "unused"
        /\ slot'[x].index \in Frames /\ frame'[slot'[x].index] \in {"ACTIVE", "SPLIT"}
        /\ \A g \in Frames : slot'[x].row = g => Last(g)' = slot'[x].index
        /\ \A v \in Values : into'[x, v] = 0
        /\ \A v, u \in Values : verdict'[x, v] = "ACCEPTED" /\ verdict'[x, u] = "ACCEPTED" => v = u
  <2>1. ASSUME NEW x \in Slots, slot'[x].lifecycle = "ACTIVE"
        PROVE  Fits(x)
    <3>1. ASSUME slot[x].lifecycle = "ACTIVE", slot'[x] = slot[x]
          PROVE  Fits(x)
      <4>1. /\ slot[x].row \in Frames /\ frame[slot[x].row] # "unused"
            /\ slot[x].index \in Frames /\ frame[slot[x].index] \in {"ACTIVE", "SPLIT"}
            /\ \A g \in Frames : slot[x].row = g => Last(g) = slot[x].index
            /\ \A v \in Values : into[x, v] = 0
            /\ \A v, u \in Values : verdict[x, v] = "ACCEPTED" /\ verdict[x, u] = "ACCEPTED" => v = u
        BY <1>1, <3>1 DEF Located
      <4>2. \A v \in Values : verdict'[x, v] = "ACCEPTED" => verdict[x, v] = "ACCEPTED"
        <5>1. \A v \in Values : verdict'[x, v] \in {verdict[x, v], "CONTESTED", "SUPERSEDED"}
          BY <1>9, <3>1
        <5> QED
          BY <5>1
      <4>3. \A f \in Frames : /\ frame[f] # "unused" => frame'[f] # "unused"
                              /\ frame[f] \in {"ACTIVE", "SPLIT"} => frame'[f] \in {"ACTIVE", "SPLIT"}
        BY <1>6
      <4>4. /\ slot'[x].row \in Frames /\ frame'[slot'[x].row] # "unused"
            /\ slot'[x].index \in Frames /\ frame'[slot'[x].index] \in {"ACTIVE", "SPLIT"}
        BY <3>1, <4>1, <4>3
      <4>5. \A g \in Frames : slot'[x].row = g => Last(g)' = slot'[x].index
        BY <1>7, <3>1, <4>1
      <4>6. \A v \in Values : into'[x, v] = 0
        BY <1>3, <4>1
      <4>7. \A v, u \in Values : verdict'[x, v] = "ACCEPTED" /\ verdict'[x, u] = "ACCEPTED" => v = u
        BY <4>1, <4>2
      <4> QED
        BY <4>4, <4>5, <4>6, <4>7
    <3>2. ASSUME NEW a \in mixed, name[a] = x
          PROVE  Fits(x)
      <4>1. PICK f \in {one, two} : slot'[x].row = f /\ slot'[x].index = f
        BY <1>10, <3>2
      <4>2. f \in Frames /\ frame'[f] = "ACTIVE"
        BY <1>5, <1>6
      <4>3. Last(f)' = f
        <5>1. ChainsEnd'
          BY ChainsDo
        <5> QED
          BY <4>2, <5>1 DEF ChainsEnd
      <4>4. \A v \in Values : into'[x, v] = 0
        BY <1>1, <1>3, <1>8, <3>2 DEF Located
      <4>5. \A v \in Values : verdict'[x, v] = "ACCEPTED" => verdict[a[1], v] = "ACCEPTED"
        <5>1. \A v \in Values : verdict'[x, v] \in {verdict[a[1], v], "absent"}
          BY <1>11, <3>2
        <5> QED
          BY <5>1
      <4>6. a[1] \in Slots /\ slot[a[1]].lifecycle = "ACTIVE"
        BY <1>8, <1>12, <1>13, <3>2
      <4>7. \A v, u \in Values : verdict[a[1], v] = "ACCEPTED" /\ verdict[a[1], u] = "ACCEPTED" => v = u
        BY <1>1, <4>6 DEF Located
      <4>8. \A v, u \in Values : verdict'[x, v] = "ACCEPTED" /\ verdict'[x, u] = "ACCEPTED" => v = u
        BY <4>5, <4>7
      <4> QED
        BY <4>1, <4>2, <4>3, <4>4, <4>8
    <3> HIDE DEF Fits
    <3> QED
      BY <1>14, <2>1, <3>1, <3>2
  <2>2. ASSUME NEW x \in Slots, NEW y \in Slots, slot'[x].lifecycle = "ACTIVE", slot'[y].lifecycle = "ACTIVE",
               slot'[x].index = slot'[y].index
        PROVE  x = y
    <3>1. CASE (\A a \in mixed : name[a] # x) /\ (\A a \in mixed : name[a] # y)
      <4>1. /\ slot[x].lifecycle = "ACTIVE" /\ slot'[x] = slot[x]
            /\ slot[y].lifecycle = "ACTIVE" /\ slot'[y] = slot[y]
        BY <1>14, <2>2, <3>1
      <4>2. slot[x].index = slot[y].index
        BY <2>2, <4>1
      <4> QED
        BY <1>1, <4>1, <4>2 DEF Located
    <3>2. ASSUME NEW a \in mixed, NEW b \in mixed, name[a] = x, name[b] = y PROVE x = y
      <4>1. Home(a) = Home(b)
        BY <1>10, <2>2, <3>2
      <4>2. a[2] = b[2]
        BY <1>5, <1>8, <4>1
      <4> QED
        BY <1>8, <3>2, <4>2
    <3>3. ASSUME NEW z \in {x, y}, NEW u \in {x, y}, NEW a \in mixed, name[a] = z, \A b \in mixed : name[b] # u
          PROVE  FALSE
      <4>1. slot'[z].index \in {one, two}
        BY <1>10, <3>3
      <4>2. slot[u].lifecycle = "ACTIVE" /\ slot'[u] = slot[u]
        BY <1>14, <2>2, <3>3
      <4>3. frame[slot[u].index] \in {"ACTIVE", "SPLIT"}
        BY <1>1, <4>2 DEF Located
      <4> QED
        BY <1>5, <2>2, <4>1, <4>2, <4>3
    <3> QED
      BY <3>1, <3>2, <3>3
  <2>3. ASSUME NEW x \in Slots, slot'[x].lifecycle = "unused", NEW v \in Values
        PROVE  verdict'[x, v] = "absent" /\ into'[x, v] = 0
    <3>1. \A a \in mixed : name[a] # x
      BY <1>10, <2>3
    <3>2. slot'[x] = slot[x] /\ (x \notin parent => verdict'[x, v] = verdict[x, v])
      BY <1>9, <3>1
    <3>3. x \notin parent
      BY <1>12, <2>3, <3>2
    <3>4. verdict[x, v] = "absent" /\ into[x, v] = 0
      BY <1>1, <2>3, <3>2 DEF Located
    <3> QED
      BY <1>3, <3>2, <3>3, <3>4
  <2> QED
    BY <2>1, <2>2, <2>3 DEF Located
<1>16. Placed'
  <2> SUFFICES ASSUME NEW n \in Statements, claim'[n].lifecycle # "unused"
               PROVE  /\ ~claim'[n].late
                      /\ claim'[n].lifecycle = "PROVISIONAL" =>
                           \/ \E y \in Slots : Speaks(n, y)' /\ PlaceOf(n, y)'
                           \/ \E y \in Slots : <<n, y>> \in support' /\ slot'[y].lifecycle = "MERGED"
    BY DEF Placed
  <2>1. claim[n].lifecycle # "unused"
    BY <1>3 DEF L!Contestable
  <2>2. claim[n] \in ClaimRows /\ claim[n].slot \in Slots /\ claim[n].value \in Values
    BY <2>1, ClaimFits
  <2>3. claim'[n].slot = claim[n].slot /\ claim'[n].value = claim[n].value /\ claim'[n].late = claim[n].late
    BY <1>3, <2>2 DEF ClaimRows
  <2>4. ~claim'[n].late
    BY <1>1, <2>1, <2>3 DEF Placed
  <2>5. ASSUME claim'[n].lifecycle = "PROVISIONAL"
        PROVE  \/ \E y \in Slots : Speaks(n, y)' /\ PlaceOf(n, y)'
               \/ \E y \in Slots : <<n, y>> \in support' /\ slot'[y].lifecycle = "MERGED"
    <3>1. claim[n].lifecycle = "PROVISIONAL" /\ (n \in DOMAIN part => n \in assigned)
      BY <1>3, <2>2, <2>5 DEF L!Contestable, ClaimRows
    <3>2. PICK v \in Values : v = claim[n].value
      BY <2>2
    <3>3. \A x \in Slots : Speaks(n, x) => Speaks(n, x)'
      <4>1. support \subseteq support' /\ into' = into
        BY <1>3
      <4> QED
        BY <2>3, <4>1, SpeaksOn
    <3>4. CASE \E x \in Slots : <<n, x>> \in support /\ slot[x].lifecycle = "MERGED"
      BY <1>3, <1>9, <3>4
    <3>5. ASSUME NEW x \in Slots, Speaks(n, x), PlaceOf(n, x)
          PROVE  \E y \in Slots : Speaks(n, y)' /\ PlaceOf(n, y)'
      <4>1. slot[x].lifecycle = "ACTIVE" /\ verdict[x, v] # "absent" /\ frame[slot[x].index] = "ACTIVE"
        BY <3>2, <3>5 DEF PlaceOf
      <4>2. slot'[x] = slot[x] /\ slot[x].index \in Frames
        BY <1>1, <1>9, <4>1 DEF Located
      <4>3. CASE slot[x].index # p
        <5>1. x \notin parent
          BY <1>12, <4>3
        <5>2. verdict'[x, v] = verdict[x, v]
          BY <1>9, <4>1, <5>1
        <5>3. PlaceOf(n, x)'
          BY <1>6, <2>3, <3>2, <4>1, <4>2, <4>3, <5>2 DEF PlaceOf
        <5> QED
          BY <3>3, <3>5, <5>3
      <4>4. CASE slot[x].index = p
        <5>1. n \in DOMAIN part
          <6>1. x \in parent
            BY <1>12, <4>1, <4>4
          <6>2. x \in L!SpeaksFor(n)
            <7>1. claim[n].lifecycle # L!Unused /\ ~claim[n].late
              BY <2>3, <2>4, <3>1 DEF L!Unused
            <7> QED
              BY <3>5, <7>1 DEF L!SpeaksFor, L!AssignedTo, Speaks
          <6>3. claim[n].value \in L!ActiveValues(x)
            BY <1>1, <3>2, <4>1, ValuesAre DEF Located
          <6>4. x \in L!Spots(n, p)
            BY <1>2, <6>1, <6>2, <6>3 DEF L!Spots
          <6> QED
            BY <6>4 DEF L!Speaking
        <5>2. PICK a \in mixed : a = <<L!Spot(n, p), part[n]>> /\ n \in assigned
          BY <1>8, <3>1, <5>1
        <5>3. PICK y \in Slots : y = name[a]
          BY <1>8
        <5>4. verdict'[y, v] # "absent"
          <6>1. verdict'[name[<<L!Spot(n, p), part[n]>>], v] = verdict[L!Spot(n, p), v]
            <7>1. part[n] # 0 /\ claim[n].value = v
              BY <3>2, <5>2
            <7> QED
              BY <1>20, <5>1, <7>1, Zenon DEF SplitKeeps
          <6>2. claim[n].value \in L!ActiveValues(L!Spot(n, p))
            BY <1>20, <5>1, Zenon DEF SplitSpeaks
          <6>3. verdict[L!Spot(n, p), v] # "absent"
            BY <3>2, <6>2 DEF L!ActiveValues
          <6> QED
            BY <5>2, <5>3, <6>1, <6>3
        <5>5. slot'[y].lifecycle = "ACTIVE" /\ frame'[slot'[y].index] = "ACTIVE"
          BY <1>6, <1>10, <5>3
        <5>6. PlaceOf(n, y)'
          BY <2>3, <3>2, <5>4, <5>5 DEF PlaceOf
        <5>7. <<n, y>> \in support'
          BY <1>3, <5>2, <5>3
        <5> QED
          BY <5>6, <5>7 DEF Speaks
      <4> QED
        BY <4>3, <4>4
    <3> QED
      BY <1>1, <3>1, <3>4, <3>5 DEF Placed
  <2> QED
    BY <2>4, <2>5
<1>17. WriterAlone'
  <2>1. AtWork' = {}
    BY <1>3 DEF AtWork, L!Idle
  <2> QED
    BY <2>1 DEF WriterAlone
<1> QED
  BY <1>15, <1>16, <1>17 DEF LineageAlone

\* At first there is no live slot, no claim, and nobody at work.
LEMMA LineageAloneInit == L!LineageInit => LineageAlone
<1> SUFFICES ASSUME L!LineageInit PROVE LineageAlone
  OBVIOUS
<1>1. Located
  BY DEF L!LineageInit, Located, L!Unused, L!NoSlot
<1>2. Placed
  BY DEF L!LineageInit, Placed, L!NoClaim, L!Unused
<1>3. AtWork = {}
  BY DEF L!LineageInit, AtWork
<1> QED
  BY <1>1, <1>2, <1>3 DEF LineageAlone, WriterAlone

\* What is about something else leaves it be.
LEMMA StillAlone ==
  ASSUME L!LineageTypeOK, L!LineageTypeOK', LineageWell, LineageAlone, UNCHANGED identities
  PROVE  LineageAlone'
<1>1. UNCHANGED <<frame, lineage, slot, verdict, into, claim, support, writer>>
  BY DEF identities
<1>2. \A x \in Slots, u, y \in Values : slot[x].lifecycle = "ACTIVE" /\ verdict[x, u] = "ACCEPTED" /\ verdict[x, y] = "ACCEPTED" => u = y
  BY DEF LineageAlone, Located
<1>3. Located' /\ Placed'
  BY <1>1, <1>2, SlotsSame DEF LineageAlone
<1>4. AtWork' = AtWork /\ \A w \in AtWork : WellFound(writer[w]) => WellFound(writer[w])'
  BY <1>1 DEF AtWork, L!Idle, WellFound
<1> QED
  BY <1>1, <1>3, <1>4 DEF LineageAlone, WriterAlone

\* A merge and a split retire a frame, so each comes when nobody is at work.
LEMMA LineageStaysAlone ==
  ASSUME L!LineageTypeOK, LineageWell, LineageAlone, L!LineageNext, OneWrites
  PROVE  LineageAlone'
<1>0. L!LineageTypeOK' /\ LineageWell' /\ frame \in [Frames -> LifeOfFrames]
  BY LineageTypeStep, LineageWellStep, LineageTypes
<1>1. ASSUME NEW w \in Writers, NEW n \in Statements, NEW f \in Frames, NEW v \in Values, L!Match(w, n, f, v)
      PROVE  LineageAlone'
  BY <1>0, <1>1, MatchAlone
<1>2. ASSUME NEW w \in Writers, L!Lookup(w) \/ L!WriteClaim(w) PROVE LineageAlone'
  BY <1>0, <1>2, LookupAlone, WriteAlone
<1>3. ASSUME NEW x \in Slots, NEW v \in Values, NEW status \in Assessable, L!Assess(x, v, status) PROVE LineageAlone'
  BY <1>0, <1>3, AssessAlone
<1>4. ASSUME NEW m \in Frames, NEW s \in Frames, L!MergeFrames(m, s) PROVE LineageAlone'
  <2>1. frame[m] = "ACTIVE" /\ frame' = [frame EXCEPT ![m] = "MERGED"]
    BY <1>4 DEF L!MergeFrames, L!Mergeable
  <2>2. frame' # frame
    BY <1>0, <2>1
  <2>3. AtWork = {}
    BY <2>2 DEF OneWrites
  <2> QED
    BY <1>0, <1>4, <2>3, MergeAlone
<1>5. ASSUME NEW p \in Frames, NEW part \in [L!Speaking(p) -> 0..2],
             NEW one \in L!FreshFrames, NEW two \in L!FreshFrames,
             NEW name \in [L!Mixed(p, part) -> L!TheFirst(L!Cardinality(L!Mixed(p, part)), L!FreshSlots)],
             L!SplitFrame(p, part, one, two, name)
      PROVE  LineageAlone'
  <2>1. /\ frame[p] = "ACTIVE"
        /\ frame' = [f \in Frames |-> IF f = p THEN "SPLIT" ELSE IF f \in {one, two} THEN "ACTIVE" ELSE frame[f]]
    BY <1>5, Zenon DEF L!SplitFrame
  <2>2. frame' # frame
    BY <1>0, <2>1
  <2>3. AtWork = {}
    BY <2>2 DEF OneWrites
  <2> QED
    BY <1>0, <1>5, <2>3, SplitAlone
<1> QED
  BY <1>1, <1>2, <1>3, <1>4, <1>5 DEF L!LineageNext

\* A step is about merges and splits, and says whether it kept out of the others' way, or
\* leaves them be.
LEMMA OthersApart ==
  ASSUME MCNext \/ UNCHANGED <<vars, identities, answerVars, alone, subject>>, alone \in BOOLEAN
  PROVE  /\ alone' \in BOOLEAN /\ (alone' => alone)
         /\ (L!LineageNext /\ (alone' => OneWrites)) \/ UNCHANGED identities
<1> DEFINE apart == session' = session \/ \A s \in Busy : session'[s] # session[s]
<1>1. CASE UNCHANGED identities /\ alone' = (alone /\ apart)
  <2> HIDE DEF apart
  <2> QED
    BY <1>1
<1>2. CASE L!LineageNext /\ alone' = (alone /\ OneWrites)
  BY <1>2
<1>3. CASE UNCHANGED identities /\ alone' = alone
  BY <1>3
<1>4. CASE MCNext
  <2>1. CASE subject = "governor" /\ alone' = (alone /\ apart) /\ UNCHANGED identities
    BY <1>1, <2>1
  <2>2. CASE subject = "lineage" /\ L!LineageNext
             /\ alone' = (alone /\ IF frame' = frame THEN Cardinality({w \in Writers : writer'[w] # L!Idle}) <= 1
                                   ELSE AtWork = {})
    BY <1>2, <2>2 DEF OneWrites
  <2> QED
    BY <1>3, <1>4, <2>1, <2>2 DEF MCNext
<1>5. CASE UNCHANGED <<vars, identities, answerVars, alone, subject>>
  BY <1>3, <1>5
<1> QED
  BY <1>4, <1>5

\* What holds of identifiers always, and while nobody gets in another's way.
LineageInv == alone \in BOOLEAN /\ L!LineageTypeOK /\ LineageWell /\ (alone => LineageAlone)

LEMMA LineageInvStep == LineageInv /\ [MCNext]_<<vars, identities, answerVars, alone, subject>> => LineageInv'
<1> SUFFICES ASSUME LineageInv, MCNext \/ UNCHANGED <<vars, identities, answerVars, alone, subject>> PROVE LineageInv'
  OBVIOUS
<1>1. /\ alone' \in BOOLEAN /\ (alone' => alone)
      /\ (L!LineageNext /\ (alone' => OneWrites)) \/ UNCHANGED identities
  BY OthersApart DEF LineageInv
<1>2. L!LineageTypeOK' /\ LineageWell'
  BY <1>1, LineageTypeStep, LineageWellStep DEF LineageInv
<1>3. ASSUME alone' PROVE LineageAlone'
  <2>1. L!LineageTypeOK /\ LineageWell /\ LineageAlone
    BY <1>1, <1>3 DEF LineageInv
  <2>2. CASE L!LineageNext /\ OneWrites
    BY <2>1, <2>2, LineageStaysAlone
  <2>3. CASE UNCHANGED identities
    BY <1>2, <2>1, <2>3, StillAlone
  <2> QED
    BY <1>1, <1>3, <2>2, <2>3
<1> QED
  BY <1>1, <1>2, <1>3 DEF LineageInv

\* However merges and splits follow one another, an old identifier leads to something live
\* and the queries agree on what; while no merge and no split comes between the statements
\* of a canonicalization, a live frame is one location with one accepted value and a claim
\* nobody contested has its place, but for one that was merged away again.
THEOREM LineageIsSound == MCSpec => []LineageSound
<1>1. MCInit => LineageInv
  BY LineageTypeInit, LineageWellInit, LineageAloneInit DEF MCInit, LineageInv
<1>2. LineageInv => LineageSound
  BY QueriesAgree, LocatedEach, PlacedEach DEF LineageInv, LineageAlone, LineageSound
<1> QED
  BY <1>1, <1>2, LineageInvStep, PTL DEF MCSpec
=============================================================================
