--------------------------- MODULE JobQueueProofs ---------------------------
(***************************************************************************)
(* Proofs about JobQueue, for every set of jobs and workers and every      *)
(* attempt limit.                                                          *)
(***************************************************************************)
EXTENDS JobQueue, TLAPS

USE DEF Statuses, Leases, Errors, Places

\* What each statement writes to a row is again a row.
LEMMA RowsClosed ==
  ASSUME NEW row \in Rows
  PROVE  /\ Requeued(row) \in Rows
         /\ Retired(row) \in Rows
         /\ \A w \in Workers : Taken(row, w) \in Rows
         /\ \A ok \in BOOLEAN : Outcome(row, ok) \in Rows
<1>1. Requeued(row) \in Rows
  BY DEF Requeued, Rows
<1>2. Retired(row) \in Rows
  BY DEF Retired, Rows
<1>3. ASSUME NEW w \in Workers PROVE Taken(row, w) \in Rows
  BY DEF Taken, Rows
<1>4. ASSUME NEW ok \in BOOLEAN PROVE Outcome(row, ok) \in Rows
  BY DEF Outcome, Rows
<1>5. QED
  BY <1>1, <1>2, <1>3, <1>4

\* Writing one field of a row or of a turn leaves a row or a turn.
LEMMA FieldsClosed ==
  /\ \A row \in Rows : [row EXCEPT !.lease = "expired"] \in Rows
  /\ \A t \in Turns : [t EXCEPT !.at = "taken"] \in Turns
  /\ \A t \in Turns, j \in Jobs : [t EXCEPT !.at = "taken", !.job = j] \in Turns
  /\ \A t \in Turns, ok \in BOOLEAN : [t EXCEPT !.at = "reported", !.ok = ok] \in Turns
<1>1. ASSUME NEW row \in Rows PROVE [row EXCEPT !.lease = "expired"] \in Rows
  BY DEF Rows
<1>2. ASSUME NEW t \in Turns PROVE [t EXCEPT !.at = "taken"] \in Turns
  BY DEF Turns
<1>3. ASSUME NEW t \in Turns, NEW j \in Jobs
      PROVE  [t EXCEPT !.at = "taken", !.job = j] \in Turns
  BY DEF Turns
<1>4. ASSUME NEW t \in Turns, NEW ok \in BOOLEAN
      PROVE  [t EXCEPT !.at = "reported", !.ok = ok] \in Turns
  BY DEF Turns
<1>5. QED
  BY <1>1, <1>2, <1>3, <1>4

\* The fields a claim writes.
LEMMA TakenFields ==
  ASSUME NEW row \in Rows, NEW w \in Workers
  PROVE  /\ Taken(row, w).status = "RUNNING" /\ Taken(row, w).owner = w
         /\ Taken(row, w).attempts = row.attempts + 1
  BY DEF Taken, Rows

-----------------------------------------------------------------------------
(* Type correctness.                                                       *)

\* The empty table and idle workers have their types.
LEMMA TypeInit == Init => TypeOK
  BY WorkersAssumption DEF Init, TypeOK, NoRow, Idle, Rows, Turns

\* Every statement, of the API or of a worker, keeps every variable in its type.
LEMMA TypeStep == TypeOK /\ [Next]_vars => TypeOK'
<1> SUFFICES ASSUME TypeOK, [Next]_vars PROVE TypeOK'
  OBVIOUS
<1> USE WorkersAssumption, HandlesAssumption, MaxAttemptsAssumption DEF TypeOK
<1>0. Idle \in Turns /\ \A w \in Workers : worker[w] \in Turns
  BY DEF Idle, Turns
<1>1. ASSUME NEW j \in Jobs, EnqueueJob(j) PROVE TypeOK'
  BY <1>1 DEF EnqueueJob, NoRow, Rows
<1>2. ASSUME NEW j \in Jobs, RetryDeadLetterJob(j) PROVE TypeOK'
  <2>1. Requeued(jobs[j]) \in Rows
    BY RowsClosed
  <2>2. QED
    BY <1>2, <2>1 DEF RetryDeadLetterJob
<1>3. ASSUME NEW j \in Jobs, LeaseExpires(j) PROVE TypeOK'
  <2>1. [jobs[j] EXCEPT !.lease = "expired"] \in Rows
    BY FieldsClosed
  <2>2. jobs' = [jobs EXCEPT ![j] = [jobs[j] EXCEPT !.lease = "expired"]]
    BY <1>3 DEF LeaseExpires
  <2>3. jobs' \in [Jobs -> Rows]
    BY <2>1, <2>2
  <2>4. UNCHANGED <<worker, claims, retries>>
    BY <1>3 DEF LeaseExpires
  <2>5. QED
    BY <2>3, <2>4
<1>4. ASSUME NEW w \in Workers, RetireStranded(w) PROVE TypeOK'
  <2>1. [Idle EXCEPT !.at = "retired", !.stranded = {j \in Jobs : Stranded(j)}] \in Turns
    BY DEF Idle, Turns
  <2>2. QED
    BY <1>4, <2>1 DEF RetireStranded
<1>5. ASSUME NEW w \in Workers, TakeOldest(w) PROVE TypeOK'
  <2>1. worker' \in [Workers -> Turns]
    <3>1. CASE worker' = [worker EXCEPT ![w].at = "taken"]
      <4>1. [worker[w] EXCEPT !.at = "taken"] \in Turns
        BY FieldsClosed
      <4>2. worker' = [worker EXCEPT ![w] = [worker[w] EXCEPT !.at = "taken"]]
        BY <3>1
      <4>3. QED
        BY <4>1, <4>2
    <3>2. ASSUME NEW j \in Free(w), worker' = [worker EXCEPT ![w].at = "taken", ![w].job = j]
          PROVE  worker' \in [Workers -> Turns]
      <4>1. j \in Jobs
        BY DEF Free
      <4>2. QED
        <5>1. [worker[w] EXCEPT !.at = "taken", !.job = j] \in Turns
          BY <4>1, FieldsClosed
        <5>2. worker' = [worker EXCEPT ![w] = [worker[w] EXCEPT !.at = "taken", !.job = j]]
          BY <3>2
        <5>3. QED
          BY <5>1, <5>2
    <3>3. QED
      BY <1>5, <3>1, <3>2 DEF TakeOldest
  <2>2. QED
    BY <1>5, <2>1 DEF TakeOldest
<1>6. ASSUME NEW w \in Workers, CommitClaim(w) PROVE TypeOK'
  <2>1. worker[w].job \in Jobs \cup {None}
    BY DEF Turns
  <2>2. jobs' \in [Jobs -> Rows]
    <3>1. \A i \in Jobs : jobs[i] \in Rows /\ Taken(jobs[i], w) \in Rows /\ Retired(jobs[i]) \in Rows
      BY RowsClosed
    <3>2. QED
      BY <1>6, <3>1 DEF CommitClaim
  <2>3. CASE worker[w].job = None
    <3>1. worker' = [worker EXCEPT ![w] = Idle] /\ UNCHANGED <<claims, retries>>
      BY <1>6, <2>3 DEF CommitClaim
    <3>2. QED
      BY <1>0, <2>2, <3>1
  <2>4. CASE worker[w].job # None
    <3>1. worker[w].job \in Jobs
      BY <2>1, <2>4
    <3>2. claims' \in [Jobs -> Nat] /\ retries' = retries
      BY <1>6, <2>4, <3>1 DEF CommitClaim
    <3>3. [at |-> "handling", stranded |-> {}, job |-> worker[w].job,
           epoch |-> claims[worker[w].job] + 1, ok |-> FALSE] \in Turns
      BY <3>1 DEF Turns
    <3>4. worker' \in [Workers -> Turns]
      BY <1>6, <2>4, <3>3 DEF CommitClaim
    <3>5. QED
      BY <2>2, <3>2, <3>4
  <2>5. QED
    BY <2>3, <2>4
<1>7. ASSUME NEW w \in Workers, NEW ok \in BOOLEAN, ReportOutcome(w, ok) PROVE TypeOK'
  <2>1. [worker[w] EXCEPT !.at = "reported", !.ok = ok] \in Turns
    BY FieldsClosed
  <2>2. worker' = [worker EXCEPT ![w] = [worker[w] EXCEPT !.at = "reported", !.ok = ok]]
    BY <1>7 DEF ReportOutcome
  <2>3. worker' \in [Workers -> Turns]
    BY <2>1, <2>2
  <2>4. UNCHANGED <<jobs, claims, retries>>
    BY <1>7 DEF ReportOutcome
  <2>5. QED
    BY <2>3, <2>4
<1>8. ASSUME NEW w \in Workers, ReportRefused(w) PROVE TypeOK'
  BY <1>0, <1>8 DEF ReportRefused
<1>9. ASSUME NEW w \in Workers, CommitOutcome(w) PROVE TypeOK'
  <2>1. jobs' \in [Jobs -> Rows]
    <3>1. worker[w].ok \in BOOLEAN
      BY DEF Turns
    <3>2. \A i \in Jobs : Outcome(jobs[i], worker[w].ok) \in Rows
      BY <3>1, RowsClosed
    <3>3. QED
      BY <1>9, <3>2 DEF CommitOutcome
  <2>2. QED
    BY <1>0, <1>9, <2>1 DEF CommitOutcome
<1>10. ASSUME NEW w \in Workers, Abandon(w) PROVE TypeOK'
  BY <1>0, <1>10 DEF Abandon
<1>11. CASE UNCHANGED vars
  BY <1>11 DEF vars
<1>12. QED
  BY <1>1, <1>2, <1>3, <1>4, <1>5, <1>6, <1>7, <1>8, <1>9, <1>10, <1>11 DEF Next, Turn

\* Every variable has its type in every reachable state.
THEOREM TypeCorrect == Spec => []TypeOK
  BY TypeInit, TypeStep, PTL DEF Spec

-----------------------------------------------------------------------------
(* The inductive invariant.                                                *)

\* The invariant holds before anything is queued.
LEMMA InvInit == Init => IInv
<1> SUFFICES ASSUME Init PROVE IInv
  OBVIOUS
<1>1. TypeOK
  BY TypeInit
<1>2. TableChecks /\ RowLocksExclusive /\ TurnsKnow
  BY MaxAttemptsAssumption
  DEF Init, NoRow, Idle, TableChecks, RowLocksExclusive, Locked, TurnsKnow, TurnKnows
<1>3. ClaimsAccounted
  BY MaxAttemptsAssumption DEF Init, NoRow, ClaimsAccounted
<1>4. QED
  BY <1>1, <1>2, <1>3 DEF IInv

\* A step that changes one worker's turn keeps the locks apart if the rows the
\* worker then locks were free or its own.
LEMMA LocksStep ==
  ASSUME RowLocksExclusive, NEW w \in Workers,
         \A v \in Workers \ {w} : worker'[v] = worker[v],
         \A j \in Locked(w)' : j \notin LockedByOthers(w)
  PROVE  RowLocksExclusive'
<1>1. \A v \in Workers \ {w} : Locked(v)' = Locked(v)
  BY DEF Locked
<1>2. SUFFICES ASSUME NEW j \in Jobs, NEW u \in Workers, NEW v \in Workers, u # v,
                      j \in Locked(u)', j \in Locked(v)'
               PROVE  FALSE
  BY DEF RowLocksExclusive
<1>3. CASE u # w /\ v # w
  BY <1>1, <1>2, <1>3 DEF RowLocksExclusive
<1>4. CASE u = w
  BY <1>1, <1>2, <1>4 DEF LockedByOthers
<1>5. CASE v = w
  BY <1>1, <1>2, <1>5 DEF LockedByOthers
<1>6. QED
  BY <1>3, <1>4, <1>5

\* Statements that change no committed row: only the worker's own turn moves.
LEMMA QuietStep ==
  ASSUME IInv, TypeOK', UNCHANGED <<jobs, claims, retries>>, NEW w \in Workers,
         \A v \in Workers \ {w} : worker'[v] = worker[v],
         \A j \in Locked(w)' : j \notin LockedByOthers(w),
         TurnKnows(w, worker'[w])
  PROVE  IInv'
<1>1. TableChecks' /\ ClaimsAccounted'
  BY DEF IInv, TableChecks, ClaimsAccounted
<1>2. RowLocksExclusive'
  BY LocksStep DEF IInv
<1>3. TurnsKnow'
  <2>1. \A v \in Workers : TurnKnows(v, worker'[v])
    BY DEF IInv, TurnsKnow
  <2>2. QED
    BY <2>1 DEF TurnsKnow, TurnKnows, Stranded, Runnable, Expired
<1>4. QED
  BY <1>1, <1>2, <1>3 DEF IInv

\* A step that changes one committed row and no turn: no open transaction has
\* that row, and a handler on it keeps what it knows.
LEMMA RowStep ==
  ASSUME IInv, TypeOK', NEW j \in Jobs, UNCHANGED <<worker, claims>>,
         \A i \in Jobs \ {j} : jobs'[i] = jobs[i],
         \A w \in Workers : TurnKnows(w, worker[w]) => TurnKnows(w, worker[w])',
         TableChecks', ClaimsAccounted'
  PROVE  IInv'
<1>1. RowLocksExclusive'
  BY DEF IInv, RowLocksExclusive, Locked
<1>2. TurnsKnow'
  BY DEF IInv, TurnsKnow
<1>3. QED
  BY <1>1, <1>2 DEF IInv

\* Enqueueing keeps the invariant: it touches no row that a worker is on.
LEMMA InvEnqueue == ASSUME IInv, TypeOK', NEW j \in Jobs, EnqueueJob(j) PROVE IInv'
<1> USE MaxAttemptsAssumption DEF EnqueueJob, NoRow
<1>1. TableChecks' /\ ClaimsAccounted'
  BY DEF IInv, TypeOK, Rows, TableChecks, ClaimsAccounted
<1>2. \A w \in Workers : TurnKnows(w, worker[w]) => TurnKnows(w, worker[w])'
  BY DEF IInv, TypeOK, Rows, Turns, TurnKnows, Stranded, Runnable, Expired, TableChecks
<1>3. QED
  BY <1>1, <1>2, RowStep DEF IInv, TypeOK

\* A manual retry keeps the invariant: only a dead letter, which no turn is on, moves.
LEMMA InvRetry == ASSUME IInv, TypeOK', NEW j \in Jobs, RetryDeadLetterJob(j) PROVE IInv'
<1> USE MaxAttemptsAssumption DEF RetryDeadLetterJob, Requeued
<1>1. TableChecks'
  BY DEF IInv, TypeOK, Rows, TableChecks
<1>2. ClaimsAccounted'
  <2>1. jobs[j].attempts = MaxAttempts
    <3>1. jobs[j].attempts <= MaxAttempts /\ jobs[j].attempts >= MaxAttempts
      BY DEF IInv, TableChecks
    <3>2. jobs[j].attempts \in Nat
      BY DEF IInv, TypeOK, Rows
    <3>3. QED
      BY <3>1, <3>2
  <2>2. claims[j] = retries[j] * MaxAttempts + MaxAttempts
    BY <2>1 DEF IInv, ClaimsAccounted
  <2>3. (retries[j] + 1) * MaxAttempts = retries[j] * MaxAttempts + MaxAttempts
    BY DEF IInv, TypeOK
  <2>4. claims'[j] = retries'[j] * MaxAttempts + jobs'[j].attempts
    BY <2>2, <2>3 DEF IInv, TypeOK, Rows
  <2>5. QED
    BY <2>4 DEF IInv, TypeOK, Rows, ClaimsAccounted
<1>3. \A w \in Workers : TurnKnows(w, worker[w]) => TurnKnows(w, worker[w])'
  BY DEF IInv, TypeOK, Rows, Turns, TurnKnows, Stranded, Runnable, Expired, TableChecks
<1>4. QED
  BY <1>1, <1>2, <1>3, RowStep DEF IInv, TypeOK

\* An expiring lease changes what may be claimed, and no claim.
LEMMA InvExpires == ASSUME IInv, TypeOK', NEW j \in Jobs, LeaseExpires(j) PROVE IInv'
<1> USE MaxAttemptsAssumption DEF LeaseExpires
<1>1. TableChecks' /\ ClaimsAccounted'
  BY DEF IInv, TypeOK, Rows, TableChecks, ClaimsAccounted
<1>2. \A w \in Workers : TurnKnows(w, worker[w]) => TurnKnows(w, worker[w])'
  BY DEF IInv, TypeOK, Rows, Turns, TurnKnows, Stranded, Runnable, Expired, TableChecks
<1>3. QED
  BY <1>1, <1>2, RowStep DEF IInv, TypeOK

\* Burying the stranded rows, the first statement of a claim, only locks them.
LEMMA InvRetire == ASSUME IInv, TypeOK', NEW w \in Workers, RetireStranded(w) PROVE IInv'
<1> USE DEF RetireStranded, Idle
<1>1. /\ worker'[w].at = "retired" /\ worker'[w].job = None
      /\ worker'[w].stranded = {j \in Jobs : Stranded(j)}
      /\ worker'[w].stranded \cap LockedByOthers(w) = {}
      /\ \A v \in Workers \ {w} : worker'[v] = worker[v]
  BY DEF IInv, TypeOK
<1>2. \A j \in Locked(w)' : j \notin LockedByOthers(w)
  BY <1>1 DEF Locked
<1>3. TurnKnows(w, worker'[w])
  BY <1>1 DEF TurnKnows
<1>4. QED
  BY <1>1, <1>2, <1>3, QuietStep

\* Selecting and updating the oldest free row locks a row nobody else has.
LEMMA InvTake == ASSUME IInv, TypeOK', NEW w \in Workers, TakeOldest(w) PROVE IInv'
<1>1. CASE worker' = [worker EXCEPT ![w].at = "taken"]
  <2>1. /\ worker'[w].at = "taken" /\ worker'[w].job = worker[w].job
        /\ worker'[w].stranded = worker[w].stranded
        /\ \A v \in Workers \ {w} : worker'[v] = worker[v]
    BY <1>1 DEF IInv, TypeOK, Turns
  <2>2. worker[w].job = None /\ worker[w].at = "retired"
    BY DEF IInv, TurnsKnow, TurnKnows, TakeOldest
  <2>3. Locked(w)' = Locked(w)
    BY <2>1, <2>2, WorkersAssumption DEF Locked
  <2>4. \A j \in Locked(w)' : j \notin LockedByOthers(w)
    BY <2>3 DEF IInv, RowLocksExclusive, LockedByOthers, Locked
  <2>5. TurnKnows(w, worker'[w])
    BY <2>1, <2>2 DEF IInv, TurnsKnow, TurnKnows
  <2>6. UNCHANGED <<jobs, claims, retries>>
    BY DEF TakeOldest
  <2>7. QED
    BY <2>1, <2>4, <2>5, <2>6, QuietStep
<1>2. ASSUME NEW j \in Free(w), worker' = [worker EXCEPT ![w].at = "taken", ![w].job = j]
      PROVE  IInv'
  <2>1. /\ worker'[w].at = "taken" /\ worker'[w].job = j
        /\ worker'[w].stranded = worker[w].stranded
        /\ \A v \in Workers \ {w} : worker'[v] = worker[v]
    BY <1>2 DEF IInv, TypeOK, Turns
  <2>2. j \in Jobs /\ Runnable(j) /\ j \notin LockedByOthers(w)
    BY HandlesAssumption DEF Free
  <2>3. worker[w].at = "retired"
    BY DEF TakeOldest
  <2>4. Locked(w)' \subseteq Locked(w) \cup {j}
    BY <2>1, <2>3 DEF Locked
  <2>5. \A i \in Locked(w)' : i \notin LockedByOthers(w)
    BY <2>2, <2>4 DEF IInv, RowLocksExclusive, LockedByOthers, Locked
  <2>6. TurnKnows(w, worker'[w])
    BY <2>1, <2>2, <2>3 DEF IInv, TurnsKnow, TurnKnows
  <2>7. UNCHANGED <<jobs, claims, retries>>
    BY DEF TakeOldest
  <2>8. QED
    BY <2>1, <2>5, <2>6, <2>7, QuietStep
<1>3. QED
  BY <1>1, <1>2 DEF TakeOldest

\* Reporting an outcome locks the row the worker still holds.
LEMMA InvReport ==
  ASSUME IInv, TypeOK', NEW w \in Workers, NEW ok \in BOOLEAN, ReportOutcome(w, ok)
  PROVE  IInv'
<1> USE DEF ReportOutcome
<1>1. /\ worker'[w].at = "reported" /\ worker'[w].job = worker[w].job
      /\ worker'[w].stranded = worker[w].stranded /\ worker'[w].epoch = worker[w].epoch
      /\ \A v \in Workers \ {w} : worker'[v] = worker[v]
  BY DEF IInv, TypeOK, Turns
<1>2. /\ worker[w].job \in Jobs
      /\ jobs[worker[w].job].status = "RUNNING" /\ jobs[worker[w].job].owner = w
      /\ jobs[worker[w].job].lease = "live"
  BY DEF IInv, TypeOK, Turns, TurnsKnow, TurnKnows, Holds
<1>3. \A j \in Locked(w)' : j \notin LockedByOthers(w)
  <2>1. Locked(w)' = {worker[w].job}
    BY <1>1, <1>2 DEF Locked
  <2>2. ASSUME NEW v \in Workers \ {w}, worker[w].job \in Locked(v) PROVE FALSE
    BY <1>2, <2>2
    DEF IInv, TypeOK, Turns, Locked, TurnsKnow, TurnKnows, Stranded, Runnable, Expired
  <2>3. QED
    BY <2>1, <2>2 DEF LockedByOthers
<1>4. TurnKnows(w, worker'[w])
  BY <1>1, <1>2 DEF IInv, TypeOK, Turns, TurnsKnow, TurnKnows
<1>5. QED
  BY <1>1, <1>3, <1>4, QuietStep

\* Ending a turn without a word releases whatever it had locked.
LEMMA InvGoesIdle ==
  ASSUME IInv, TypeOK', NEW w \in Workers, worker' = [worker EXCEPT ![w] = Idle],
         UNCHANGED <<jobs, claims, retries>>
  PROVE  IInv'
<1>1. worker'[w] = Idle /\ \A v \in Workers \ {w} : worker'[v] = worker[v]
  BY DEF IInv, TypeOK
<1>2. \A j \in Locked(w)' : j \notin LockedByOthers(w)
  BY <1>1 DEF Locked, Idle
<1>3. TurnKnows(w, worker'[w])
  BY <1>1 DEF TurnKnows, Idle
<1>4. QED
  BY <1>1, <1>2, <1>3, QuietStep

\* A COMMIT changes only rows its worker had locked, releases them, and leaves
\* each to its own worker or to nobody: the others' turns keep what they know.
LEMMA CommitStep ==
  ASSUME IInv, TypeOK', NEW w \in Workers,
         \A v \in Workers \ {w} : worker'[v] = worker[v],
         Locked(w)' = {},
         \A i \in Jobs \ Locked(w) : jobs'[i] = jobs[i] /\ claims'[i] = claims[i],
         \A i \in Locked(w) : jobs'[i].owner \in {None, w} /\ claims'[i] >= claims[i],
         TurnKnows(w, worker[w])', TableChecks', ClaimsAccounted'
  PROVE  IInv'
<1>1. RowLocksExclusive'
  BY LocksStep DEF IInv
<1>2. TurnsKnow'
  <2>1. SUFFICES ASSUME NEW v \in Workers \ {w} PROVE TurnKnows(v, worker[v])'
    BY DEF TurnsKnow
  <2> DEFINE t == worker[v]
  <2>2. worker'[v] = t /\ TurnKnows(v, t) /\ t \in Turns
    BY DEF IInv, TypeOK, TurnsKnow
  <2>3. \A i \in Locked(v) : jobs'[i] = jobs[i] /\ claims'[i] = claims[i]
    <3>1. SUFFICES ASSUME NEW i \in Locked(v) PROVE i \in Jobs \ Locked(w)
      OBVIOUS
    <3>2. i \in Jobs
      BY DEF Locked
    <3>3. QED
      BY <3>2 DEF IInv, RowLocksExclusive
  <2>4. CASE t.at \in {"idle", "retired", "taken", "reported"}
    <3>1. t.at \in {"retired", "taken"} => \A i \in t.stranded : i \in Locked(v)
      BY <2>2 DEF Turns, Locked
    <3>2. t.at \in {"taken", "reported"} /\ t.job # None => t.job \in Locked(v)
      BY <2>2 DEF Turns, Locked
    <3>3. t.at = "reported" => t.job # None /\ t.stranded = {}
      BY <2>2 DEF TurnKnows
    <3>4. QED
      BY <2>2, <2>3, <2>4, <3>1, <3>2, <3>3 DEF TurnKnows, Stranded, Runnable, Expired
  <2>5. CASE t.at = "handling"
    <3>1. t.job \in Jobs /\ t.stranded = {} /\ t.epoch <= claims[t.job] /\ t.epoch \in Nat
      BY <2>2, <2>5 DEF TurnKnows, Turns
    <3>2. CASE t.job \in Locked(w)
      <4>1. jobs'[t.job].owner # v
        BY <3>2, WorkersAssumption
      <4>2. t.epoch <= claims'[t.job]
        BY <3>1, <3>2 DEF IInv, TypeOK
      <4>3. QED
        BY <2>2, <2>5, <3>1, <4>1, <4>2, WorkersAssumption DEF TurnKnows
    <3>3. CASE t.job \notin Locked(w)
      BY <2>2, <2>5, <3>1, <3>3 DEF TurnKnows
    <3>4. QED
      BY <3>2, <3>3
  <2>6. QED
    BY <2>2, <2>4, <2>5 DEF Turns
<1>3. QED
  BY <1>1, <1>2 DEF IInv

\* The COMMIT of a claim makes the worker the owner and the only one that can report.
LEMMA InvCommitClaim == ASSUME IInv, TypeOK', NEW w \in Workers, CommitClaim(w) PROVE IInv'
<1> DEFINE t == worker[w]
<1>1. t \in Turns /\ TurnKnows(w, t) /\ t.at = "taken"
  BY DEF IInv, TypeOK, TurnsKnow, CommitClaim
<1>2. Locked(w) = {i \in Jobs : i \in t.stranded \/ i = t.job}
  BY <1>1 DEF Locked
<1>3. \A i \in t.stranded : Stranded(i) /\ i # t.job
  <2>1. ASSUME NEW i \in t.stranded PROVE Stranded(i) /\ i # t.job
    <3>1. i \in Jobs /\ Stranded(i) /\ jobs[i].attempts \in Nat
      BY <1>1 DEF TurnKnows, Turns, IInv, TypeOK, Rows
    <3>2. ~Runnable(i)
      BY <3>1, MaxAttemptsAssumption DEF Stranded, Runnable
    <3>3. QED
      BY <1>1, <3>1, <3>2, WorkersAssumption DEF TurnKnows
  <2>2. QED
    BY <2>1
<1>4. \A i \in Jobs : /\ i = t.job => jobs'[i] = Taken(jobs[i], w)
                      /\ i \in t.stranded => jobs'[i] = Retired(jobs[i])
                      /\ i \notin Locked(w) => jobs'[i] = jobs[i]
  BY <1>2, <1>3 DEF CommitClaim
<1>5. /\ retries' = retries
      /\ \A i \in Jobs : claims'[i] = IF i = t.job THEN claims[i] + 1 ELSE claims[i]
  BY WorkersAssumption DEF CommitClaim, IInv, TypeOK
<1>6. /\ \A v \in Workers \ {w} : worker'[v] = worker[v]
      /\ t.job = None => worker'[w] = Idle
      /\ t.job # None => worker'[w] = [at |-> "handling", stranded |-> {}, job |-> t.job,
                                       epoch |-> claims[t.job] + 1, ok |-> FALSE]
  BY DEF CommitClaim, IInv, TypeOK
<1>7. Locked(w)' = {}
  BY <1>6 DEF Locked, Idle
<1>8. TableChecks'
  <2>1. SUFFICES ASSUME NEW i \in Jobs
                 PROVE  LET row == jobs'[i] IN
                        /\ (row.status = "RUNNING") = (row.owner # None)
                        /\ (row.owner = None) = (row.lease = "none")
                        /\ row.attempts <= MaxAttempts
                        /\ row.status = "DEAD_LETTER" =>
                             row.error # "none" /\ row.attempts >= MaxAttempts
    BY DEF TableChecks
  <2>2. CASE i = t.job
    <3>1. jobs'[i] = Taken(jobs[i], w) /\ jobs[i].attempts \in Nat
      BY <1>4, <2>2 DEF IInv, TypeOK, Rows
    <3>2. jobs[i].attempts < MaxAttempts
      BY <1>1, <2>2, WorkersAssumption DEF TurnKnows, Runnable
    <3>3. QED
      BY <3>1, <3>2, MaxAttemptsAssumption, WorkersAssumption DEF Taken
  <2>3. CASE i \in t.stranded
    <3>1. jobs'[i] = Retired(jobs[i]) /\ jobs[i] \in Rows
      BY <1>4, <2>3 DEF IInv, TypeOK
    <3>2. jobs[i].attempts >= MaxAttempts /\ jobs[i].attempts <= MaxAttempts
      BY <1>3, <2>3 DEF Stranded, IInv, TableChecks
    <3>3. QED
      BY <3>1, <3>2 DEF Retired, Rows
  <2>4. CASE i \notin Locked(w)
    BY <1>4, <2>4 DEF IInv, TableChecks
  <2>5. QED
    BY <1>2, <2>2, <2>3, <2>4
<1>9. ClaimsAccounted'
  <2>1. SUFFICES ASSUME NEW i \in Jobs
                 PROVE  /\ claims'[i] = retries'[i] * MaxAttempts + jobs'[i].attempts
                        /\ jobs'[i].status = "ABSENT" => jobs'[i].attempts = 0
    BY DEF ClaimsAccounted
  <2>2. /\ claims[i] = retries[i] * MaxAttempts + jobs[i].attempts
        /\ jobs[i].status = "ABSENT" => jobs[i].attempts = 0
        /\ jobs[i] \in Rows /\ retries[i] * MaxAttempts \in Nat /\ claims[i] \in Nat
    BY MaxAttemptsAssumption DEF IInv, TypeOK, ClaimsAccounted
  <2> HIDE DEF t
  <2>3. CASE i = t.job
    <3>1. jobs'[i].attempts = jobs[i].attempts + 1 /\ jobs'[i].status = "RUNNING"
      BY <1>4, <2>2, <2>3, TakenFields
    <3>2. claims'[i] = claims[i] + 1 /\ retries'[i] = retries[i]
      BY <1>5, <2>3
    <3>3. jobs[i].attempts \in Nat
      BY <2>2 DEF Rows
    <3>4. QED
      BY <2>2, <3>1, <3>2, <3>3
  <2>4. CASE i \in t.stranded
    <3>1. jobs'[i].attempts = jobs[i].attempts /\ jobs'[i].status = "DEAD_LETTER"
      BY <1>4, <2>2, <2>4 DEF Retired, Rows
    <3>2. claims'[i] = claims[i] /\ retries'[i] = retries[i]
      BY <1>3, <1>5, <2>4
    <3>3. QED
      BY <2>2, <3>1, <3>2
  <2>5. CASE i \notin Locked(w)
    BY <1>2, <1>4, <1>5, <2>2, <2>5
  <2>6. QED
    BY <1>2, <2>3, <2>4, <2>5
<1>10. \A i \in Locked(w) : jobs'[i].owner \in {None, w} /\ claims'[i] >= claims[i]
  <2>1. ASSUME NEW i \in Locked(w)
        PROVE  jobs'[i].owner \in {None, w} /\ claims'[i] >= claims[i]
    <3>1. i \in Jobs /\ claims[i] \in Nat /\ jobs[i] \in Rows
      BY DEF Locked, IInv, TypeOK
    <3>2. claims'[i] >= claims[i]
      BY <1>5, <3>1
    <3>3. CASE i = t.job
      BY <1>4, <3>1, <3>2, <3>3, TakenFields
    <3>4. CASE i \in t.stranded
      BY <1>4, <3>1, <3>2, <3>4 DEF Retired, Rows
    <3>5. QED
      BY <1>2, <3>3, <3>4
  <2>2. QED
    BY <2>1
<1>11. \A i \in Jobs \ Locked(w) : jobs'[i] = jobs[i] /\ claims'[i] = claims[i]
  BY <1>2, <1>4, <1>5
<1>12. TurnKnows(w, worker[w])'
  <2>1. CASE t.job = None
    BY <1>6, <2>1 DEF TurnKnows, Idle
  <2>2. CASE t.job # None
    <3>1. t.job \in Jobs /\ claims'[t.job] = claims[t.job] + 1 /\ claims[t.job] + 1 \in Nat
      BY <1>1, <1>5, <2>2 DEF Turns, IInv, TypeOK
    <3>2. QED
      BY <1>6, <2>2, <3>1 DEF TurnKnows
  <2>3. QED
    BY <2>1, <2>2
<1>13. QED
  BY <1>6, <1>7, <1>8, <1>9, <1>10, <1>11, <1>12, CommitStep

\* The COMMIT of an outcome ends the claim it belongs to.
LEMMA InvCommitOutcome ==
  ASSUME IInv, TypeOK', NEW w \in Workers, CommitOutcome(w) PROVE IInv'
<1> DEFINE j == worker[w].job
<1>1. /\ j \in Jobs /\ Locked(w) = {j} /\ worker[w].ok \in BOOLEAN
      /\ jobs[j].status = "RUNNING" /\ jobs[j] \in Rows
  BY DEF CommitOutcome, IInv, TypeOK, Turns, TurnsKnow, TurnKnows, Locked
<1>2. /\ jobs'[j] = Outcome(jobs[j], worker[w].ok)
      /\ \A i \in Jobs \ Locked(w) : jobs'[i] = jobs[i] /\ claims'[i] = claims[i]
      /\ worker'[w] = Idle /\ \A v \in Workers \ {w} : worker'[v] = worker[v]
      /\ claims' = claims /\ retries' = retries
  BY <1>1 DEF CommitOutcome, IInv, TypeOK
<1> HIDE DEF j
<1>3. /\ jobs'[j].status \in {"SUCCEEDED", "FAILED", "DEAD_LETTER"}
      /\ jobs'[j].owner = None /\ jobs'[j].lease = "none"
      /\ jobs'[j].attempts = jobs[j].attempts
      /\ jobs'[j].status = "DEAD_LETTER" =>
           jobs[j].attempts >= MaxAttempts /\ jobs'[j].error # "none"
  BY <1>1, <1>2 DEF Outcome, Rows
<1>4. TableChecks'
  BY <1>1, <1>2, <1>3 DEF IInv, TableChecks
<1>5. ClaimsAccounted'
  BY <1>1, <1>2, <1>3 DEF IInv, ClaimsAccounted
<1>6. Locked(w)' = {} /\ TurnKnows(w, worker[w])'
  BY <1>2 DEF Locked, TurnKnows, Idle
<1>7. \A i \in Locked(w) : jobs'[i].owner \in {None, w} /\ claims'[i] >= claims[i]
  BY <1>1, <1>2, <1>3 DEF IInv, TypeOK
<1>8. QED
  BY <1>2, <1>4, <1>5, <1>6, <1>7, CommitStep

\* One step of anybody keeps the invariant.
LEMMA InvStep == IInv /\ [Next]_vars => IInv'
<1> SUFFICES ASSUME IInv, [Next]_vars PROVE IInv'
  OBVIOUS
<1>1. TypeOK'
  BY TypeStep DEF IInv
<1>2. CASE UNCHANGED vars
  BY <1>2 DEF vars, IInv, TypeOK, TableChecks, RowLocksExclusive, Locked, TurnsKnow,
              TurnKnows, Stranded, Runnable, Expired, ClaimsAccounted
<1>3. ASSUME NEW j \in Jobs, EnqueueJob(j) \/ RetryDeadLetterJob(j) \/ LeaseExpires(j)
      PROVE  IInv'
  BY <1>1, <1>3, InvEnqueue, InvRetry, InvExpires
<1>4. ASSUME NEW w \in Workers, Turn(w) PROVE IInv'
  <2>1. CASE RetireStranded(w) \/ TakeOldest(w) \/ CommitClaim(w) \/ CommitOutcome(w)
    BY <1>1, <2>1, InvRetire, InvTake, InvCommitClaim, InvCommitOutcome
  <2>2. CASE \E ok \in BOOLEAN : ReportOutcome(w, ok)
    BY <1>1, <2>2, InvReport
  <2>3. CASE ReportRefused(w) \/ Abandon(w)
    BY <1>1, <2>3, InvGoesIdle DEF ReportRefused, Abandon
  <2>4. QED
    BY <1>4, <2>1, <2>2, <2>3 DEF Turn
<1>5. QED
  BY <1>2, <1>3, <1>4 DEF Next

\* The inductive invariant holds in every reachable state of the queue.
THEOREM Invariant == Spec => []IInv
  BY InvInit, InvStep, PTL DEF Spec

-----------------------------------------------------------------------------
(* Consequences.                                                           *)

\* No CHECK constraint of the table is ever violated.
THEOREM ChecksNeverFire == Spec => []TableChecks
  BY Invariant, PTL DEF IInv

\* Two open transactions never have the same row locked.
THEOREM LocksExclusive == Spec => []RowLocksExclusive
  BY Invariant, PTL DEF IInv

\* A dead letter has had its whole attempt budget, each time it was queued.
THEOREM BuriedSpent == Spec => []BuriedOnlyWhenSpent
<1>1. IInv => BuriedOnlyWhenSpent
  <2> SUFFICES ASSUME IInv, NEW j \in Jobs, jobs[j].status = "DEAD_LETTER"
               PROVE  claims[j] = (retries[j] + 1) * MaxAttempts
    BY DEF BuriedOnlyWhenSpent
  <2>1. jobs[j].attempts \in Nat /\ retries[j] \in Nat
    BY DEF IInv, TypeOK, Rows
  <2>2. jobs[j].attempts <= MaxAttempts /\ jobs[j].attempts >= MaxAttempts
    BY DEF IInv, TableChecks
  <2>3. jobs[j].attempts = MaxAttempts
    BY <2>1, <2>2, MaxAttemptsAssumption
  <2>4. claims[j] = retries[j] * MaxAttempts + MaxAttempts
    BY <2>3 DEF IInv, ClaimsAccounted
  <2>5. (retries[j] + 1) * MaxAttempts = retries[j] * MaxAttempts + MaxAttempts
    BY <2>1, MaxAttemptsAssumption
  <2>6. QED
    BY <2>4, <2>5
<1>2. QED
  BY <1>1, Invariant, PTL

\* What a turn knows about its lease is part of the invariant.
LEMMA FenceFromInv == IInv => LeaseFencesAttempts
  BY DEF IInv, TypeOK, Turns, TurnsKnow, TurnKnows, LeaseFencesAttempts, Engaged, Holds

\* The worker id in the lease fences attempts.
THEOREM LeaseFences == Spec => []LeaseFencesAttempts
  BY Invariant, FenceFromInv, PTL

\* At most one worker is on any one claim of a job, the latest being the only one
\* that can report.
THEOREM HandlersApart == Spec => []OneHandlerPerClaim
<1> DEFINE Apart == \A v, w \in Workers :
      (v # w /\ Engaged(v) /\ Engaged(w) /\ worker[v].job = worker[w].job) =>
         worker[v].epoch # worker[w].epoch
<1>1. Init => Apart
  BY DEF Init, Idle, Engaged
<1>2. IInv /\ Apart /\ [Next]_vars => Apart'
  <2> SUFFICES ASSUME IInv, Apart, [Next]_vars PROVE Apart'
    OBVIOUS
  <2>1. SUFFICES ASSUME NEW u \in Workers,
                        \A v \in Workers \ {u} : worker'[v] = worker[v],
                        Engaged(u)' => \/ /\ Engaged(u)
                                          /\ worker'[u].job = worker[u].job
                                          /\ worker'[u].epoch = worker[u].epoch
                                       \/ /\ worker'[u].job \in Jobs
                                          /\ worker'[u].epoch = claims[worker'[u].job] + 1
                 PROVE  Apart'
    <3>1. CASE UNCHANGED worker
      BY <3>1 DEF Engaged
    <3>2. ASSUME NEW j \in Jobs, EnqueueJob(j) \/ RetryDeadLetterJob(j) \/ LeaseExpires(j)
          PROVE  UNCHANGED worker
      BY <3>2 DEF EnqueueJob, RetryDeadLetterJob, LeaseExpires
    <3>3. ASSUME NEW u \in Workers, Turn(u)
          PROVE  /\ \A v \in Workers \ {u} : worker'[v] = worker[v]
                 /\ Engaged(u)' => \/ /\ Engaged(u)
                                      /\ worker'[u].job = worker[u].job
                                      /\ worker'[u].epoch = worker[u].epoch
                                   \/ /\ worker'[u].job \in Jobs
                                      /\ worker'[u].epoch = claims[worker'[u].job] + 1
      <4> USE DEF IInv, TypeOK, Turns, Engaged, Idle
      <4>1. CASE RetireStranded(u)
        BY <4>1 DEF RetireStranded
      <4>2. CASE TakeOldest(u)
        BY <4>2 DEF TakeOldest
      <4>3. CASE CommitClaim(u)
        BY <4>3 DEF CommitClaim
      <4>4. ASSUME NEW ok \in BOOLEAN, ReportOutcome(u, ok)
            PROVE  /\ \A v \in Workers \ {u} : worker'[v] = worker[v]
                   /\ Engaged(u)
                   /\ worker'[u].job = worker[u].job
                   /\ worker'[u].epoch = worker[u].epoch
        BY <4>4 DEF ReportOutcome
      <4>5. CASE ReportRefused(u) \/ CommitOutcome(u) \/ Abandon(u)
        BY <4>5 DEF ReportRefused, CommitOutcome, Abandon
      <4>6. QED
        BY <3>3, <4>1, <4>2, <4>3, <4>4, <4>5 DEF Turn
    <3>4. QED
      BY <2>1, <3>1, <3>2, <3>3 DEF Next, vars
  <2>2. \A v \in Workers : Engaged(v) => /\ worker[v].job \in Jobs
                                        /\ worker[v].epoch <= claims[worker[v].job]
                                        /\ worker[v].epoch \in Nat
    BY DEF IInv, TypeOK, Turns, TurnsKnow, TurnKnows, Engaged
  <2>3. \A j \in Jobs : claims[j] \in Nat
    BY DEF IInv, TypeOK
  <2>4. \A v \in Workers \ {u} : Engaged(v)' = Engaged(v)
    BY <2>1 DEF Engaged
  <2>5. QED
    BY <2>1, <2>2, <2>3, <2>4
<1>3. IInv /\ Apart => OneHandlerPerClaim
  BY DEF OneHandlerPerClaim, IInv, TypeOK, Turns, TurnsKnow, TurnKnows, Engaged, Holds
<1> HIDE DEF Apart
<1>4. Spec => []Apart
  BY <1>1, <1>2, Invariant, PTL DEF Spec
<1>5. QED
  BY <1>3, <1>4, Invariant, PTL

\* SUCCEEDED is final and a dead letter leaves only by a manual retry.
THEOREM SettledForGood == Spec => SettledStays
<1> DEFINE Stays == \A j \in Jobs :
      /\ jobs[j].status = "SUCCEEDED" => jobs'[j] = jobs[j]
      /\ jobs[j].status = "DEAD_LETTER" /\ jobs'[j] # jobs[j] => retries'[j] = retries[j] + 1
<1>1. IInv /\ [Next]_vars => [Stays]_vars
  <2> SUFFICES ASSUME IInv, Next, NEW j \in Jobs,
                      jobs[j].status \in {"SUCCEEDED", "DEAD_LETTER"}, jobs'[j] # jobs[j]
               PROVE  jobs[j].status = "DEAD_LETTER" /\ retries'[j] = retries[j] + 1
    OBVIOUS
  <2>1. CASE \E i \in Jobs : EnqueueJob(i) \/ RetryDeadLetterJob(i) \/ LeaseExpires(i)
    BY <2>1 DEF EnqueueJob, RetryDeadLetterJob, LeaseExpires, IInv, TypeOK, Rows, TableChecks
  <2>2. ASSUME NEW w \in Workers, CommitClaim(w) PROVE FALSE
    <3>1. TurnKnows(w, worker[w]) /\ worker[w].at = "taken"
      BY <2>2 DEF CommitClaim, IInv, TurnsKnow
    <3>2. j = worker[w].job \/ j \in worker[w].stranded
      BY <2>2 DEF CommitClaim
    <3>3. jobs[j].status \in {"PENDING", "FAILED", "RUNNING"}
      BY <3>1, <3>2, WorkersAssumption DEF TurnKnows, Stranded, Runnable, Expired
    <3>4. QED
      BY <3>3
  <2>3. ASSUME NEW w \in Workers, CommitOutcome(w) PROVE FALSE
    BY <2>3 DEF CommitOutcome, IInv, TypeOK, TurnsKnow, TurnKnows
  <2>4. ASSUME NEW w \in Workers, NEW ok \in BOOLEAN,
               RetireStranded(w) \/ TakeOldest(w) \/ ReportOutcome(w, ok)
                 \/ ReportRefused(w) \/ Abandon(w)
        PROVE FALSE
    BY <2>4 DEF RetireStranded, TakeOldest, ReportOutcome, ReportRefused, Abandon
  <2>5. QED
    BY <2>1, <2>2, <2>3, <2>4 DEF Next, Turn
<1>2. QED
  BY <1>1, Invariant, PTL DEF Spec, SettledStays

-----------------------------------------------------------------------------
(* Refinement.                                                             *)

\* The empty table is an empty promise.
LEMMA PromiseInit == Init => Promise!Init
<1> SUFFICES ASSUME Init PROVE Promise!Init
  OBVIOUS
<1>1. \A j \in Jobs : /\ jobs[j].status = "ABSENT" /\ jobs[j].attempts = 0
                      /\ jobs[j].owner = None
  BY DEF Init, NoRow
<1>2. QED
  BY <1>1 DEF Promise!Init, Phase

\* How the change of one row looks to the queue's clients.
LEMMA RowPromise ==
  ASSUME IInv, TypeOK', NEW j \in Jobs,
         \/ jobs'[j] = jobs[j]
         \/ jobs[j].status = "ABSENT" /\ jobs'[j] = [NoRow EXCEPT !.status = "PENDING"]
         \/ jobs[j].status = "DEAD_LETTER" /\ jobs'[j] = Requeued(jobs[j])
         \/ /\ jobs[j].lease = "live"
            /\ jobs'[j] = [jobs[j] EXCEPT !.lease = "expired"]
         \/ Runnable(j) /\ \E w \in Workers : jobs'[j] = Taken(jobs[j], w)
         \/ Stranded(j) /\ jobs'[j] = Retired(jobs[j])
         \/ /\ jobs[j].status = "RUNNING"
            /\ \E ok \in BOOLEAN : jobs'[j] = Outcome(jobs[j], ok)
  PROVE  Promise!TaskStep(j) \/ Promise!Same(j)
<1> USE MaxAttemptsAssumption, WorkersAssumption
<1>1. jobs[j] \in Rows /\ jobs'[j] \in Rows
  BY DEF IInv, TypeOK
<1>2. /\ (jobs[j].status = "RUNNING") = (jobs[j].owner # None)
      /\ (jobs[j].owner = None) = (jobs[j].lease = "none")
      /\ jobs[j].attempts <= MaxAttempts /\ jobs[j].attempts \in Nat
  BY <1>1 DEF IInv, TableChecks, Rows
<1>3. CASE jobs'[j] = jobs[j]
  BY <1>3 DEF Promise!Same
<1>4. CASE jobs[j].status = "ABSENT" /\ jobs'[j] = [NoRow EXCEPT !.status = "PENDING"]
  BY <1>4 DEF NoRow, Phase, Promise!TaskStep, Promise!Submit
<1>5. CASE jobs[j].status = "DEAD_LETTER" /\ jobs'[j] = Requeued(jobs[j])
  <2>1. jobs'[j].status = "PENDING" /\ jobs'[j].attempts = 0 /\ jobs'[j].owner = None
    BY <1>1, <1>2, <1>5 DEF Requeued, Rows
  <2>2. QED
    BY <1>5, <2>1 DEF Phase, Promise!TaskStep, Promise!Reopen
<1>6. CASE jobs[j].lease = "live" /\ jobs'[j] = [jobs[j] EXCEPT !.lease = "expired"]
  <2>1. /\ jobs'[j].status = jobs[j].status /\ jobs'[j].attempts = jobs[j].attempts
        /\ jobs'[j].owner = jobs[j].owner
    BY <1>1, <1>6 DEF Rows
  <2>2. QED
    BY <2>1 DEF Promise!Same
<1>7. ASSUME NEW w \in Workers, Runnable(j), jobs'[j] = Taken(jobs[j], w)
      PROVE  Promise!TaskStep(j)
  <2>1. /\ jobs'[j].status = "RUNNING" /\ jobs'[j].attempts = jobs[j].attempts + 1
        /\ jobs'[j].owner # None
    BY <1>1, <1>7, TakenFields
  <2>2. jobs[j].attempts < MaxAttempts /\ Phase(jobs[j].status) = "open"
    BY <1>7 DEF Runnable, Expired, Phase
  <2>3. QED
    BY <2>1, <2>2 DEF Phase, Promise!TaskStep, Promise!Start
<1>8. CASE Stranded(j) /\ jobs'[j] = Retired(jobs[j])
  <2>1. /\ jobs'[j].status = "DEAD_LETTER" /\ jobs'[j].attempts = jobs[j].attempts
        /\ jobs'[j].owner = None
    BY <1>1, <1>8 DEF Retired, Rows
  <2>2. /\ jobs[j].attempts = MaxAttempts /\ jobs[j].owner # None
        /\ Phase(jobs[j].status) = "open"
    BY <1>2, <1>8 DEF Stranded, Expired, Phase
  <2>3. QED
    BY <2>1, <2>2 DEF Phase, Promise!TaskStep, Promise!GiveUp
<1>9. ASSUME NEW ok \in BOOLEAN, jobs[j].status = "RUNNING", jobs'[j] = Outcome(jobs[j], ok)
      PROVE  Promise!TaskStep(j)
  <2>1. /\ jobs'[j].attempts = jobs[j].attempts /\ jobs'[j].owner = None
        /\ jobs'[j].status = IF ok THEN "SUCCEEDED"
                             ELSE IF jobs[j].attempts >= MaxAttempts THEN "DEAD_LETTER"
                             ELSE "FAILED"
    BY <1>1, <1>9 DEF Outcome, Rows
  <2>2. jobs[j].owner # None /\ Phase(jobs[j].status) = "open"
    BY <1>2, <1>9 DEF Phase
  <2>3. CASE ok
    BY <2>1, <2>2, <2>3 DEF Phase, Promise!TaskStep, Promise!Succeed
  <2>4. CASE ~ok
    <3>1. jobs[j].attempts >= MaxAttempts <=> jobs[j].attempts = MaxAttempts
      BY <1>2
    <3>2. Phase(jobs'[j].status) = IF jobs[j].attempts = MaxAttempts THEN "dead" ELSE "open"
      BY <2>1, <2>4, <3>1 DEF Phase
    <3>3. QED
      BY <2>1, <2>2, <3>2 DEF Promise!TaskStep, Promise!GiveUp
  <2>5. QED
    BY <2>3, <2>4
<1>10. QED
  BY <1>3, <1>4, <1>5, <1>6, <1>7, <1>8, <1>9

\* Every step of the queue is a step of the promise, or one its clients cannot see.
LEMMA PromiseStep == IInv /\ TypeOK' /\ [Next]_vars => [Promise!Next]_(Promise!vars)
<1> SUFFICES ASSUME IInv, TypeOK', [Next]_vars PROVE [Promise!Next]_(Promise!vars)
  OBVIOUS
<1>1. CASE UNCHANGED jobs
  BY <1>1 DEF Promise!vars
<1>2. ASSUME NEW i \in Jobs, EnqueueJob(i) \/ RetryDeadLetterJob(i) \/ LeaseExpires(i)
      PROVE  Promise!Next
  <2>1. \A j \in Jobs :
          \/ jobs'[j] = jobs[j]
          \/ jobs[j].status = "ABSENT" /\ jobs'[j] = [NoRow EXCEPT !.status = "PENDING"]
          \/ jobs[j].status = "DEAD_LETTER" /\ jobs'[j] = Requeued(jobs[j])
          \/ jobs[j].lease = "live" /\ jobs'[j] = [jobs[j] EXCEPT !.lease = "expired"]
    BY <1>2 DEF EnqueueJob, RetryDeadLetterJob, LeaseExpires, IInv, TypeOK
  <2>2. QED
    BY <2>1, RowPromise DEF Promise!Next
<1>3. ASSUME NEW w \in Workers, CommitClaim(w) PROVE Promise!Next
  <2>1. TurnKnows(w, worker[w]) /\ worker[w].at = "taken"
    BY <1>3 DEF IInv, TurnsKnow, CommitClaim
  <2>2. \A j \in Jobs :
          \/ jobs'[j] = jobs[j]
          \/ j = worker[w].job /\ jobs'[j] = Taken(jobs[j], w)
          \/ j \in worker[w].stranded /\ jobs'[j] = Retired(jobs[j])
    BY <1>3 DEF CommitClaim
  <2>3. \A j \in Jobs :
          \/ jobs'[j] = jobs[j]
          \/ Runnable(j) /\ jobs'[j] = Taken(jobs[j], w)
          \/ Stranded(j) /\ jobs'[j] = Retired(jobs[j])
    BY <2>1, <2>2, WorkersAssumption DEF TurnKnows
  <2>4. QED
    BY <2>3, RowPromise DEF Promise!Next
<1>4. ASSUME NEW w \in Workers, CommitOutcome(w) PROVE Promise!Next
  <2>1. /\ worker[w].ok \in BOOLEAN /\ worker[w].job \in Jobs
        /\ jobs[worker[w].job].status = "RUNNING"
    BY <1>4 DEF IInv, TypeOK, Turns, TurnsKnow, TurnKnows, CommitOutcome
  <2>2. \A j \in Jobs :
          \/ jobs'[j] = jobs[j]
          \/ jobs[j].status = "RUNNING" /\ jobs'[j] = Outcome(jobs[j], worker[w].ok)
    BY <1>4, <2>1 DEF CommitOutcome, IInv, TypeOK
  <2>3. QED
    BY <2>1, <2>2, RowPromise DEF Promise!Next
<1>5. ASSUME NEW w \in Workers, Turn(w), ~CommitClaim(w), ~CommitOutcome(w)
      PROVE  UNCHANGED jobs
  BY <1>5 DEF Turn, RetireStranded, TakeOldest, ReportOutcome, ReportRefused, Abandon
<1>6. QED
  BY <1>1, <1>2, <1>3, <1>4, <1>5 DEF Next, vars

\* The queue implements AtLeastOnce: every step a client can see is one of its.
THEOREM QueueKeepsPromise == Spec => KeepsPromise
  BY PromiseInit, PromiseStep, Invariant, TypeCorrect, PTL DEF Spec, KeepsPromise, Promise!Spec
=============================================================================
