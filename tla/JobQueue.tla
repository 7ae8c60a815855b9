------------------------------ MODULE JobQueue ------------------------------
(***************************************************************************)
(* The durable job queue of packages/jobs: rows of the PostgreSQL table    *)
(* `jobs`, driven by workers that claim a row under a lease, run a handler *)
(* outside every transaction, and report an outcome that counts only while *)
(* the lease is still theirs.                                              *)
(*                                                                         *)
(* Transactions are modelled statement by statement where another session  *)
(* can get in between: a claim is two UPDATEs and a COMMIT, an outcome is  *)
(* one UPDATE and a COMMIT, and what an open transaction has written is    *)
(* invisible to the others but its rows are locked.  Time is a lease that  *)
(* may expire at any moment, so every leaseSeconds is covered.             *)
(*                                                                         *)
(* A definition whose name carries a suffix, as Runnable_AnyAttempts, is a *)
(* mistake the code could have made in the definition after it; no action  *)
(* uses it.                                                                *)
(***************************************************************************)
EXTENDS Naturals, FiniteSets

CONSTANTS Jobs,         \* job ids, numbered by (created_at, id)
          Workers,      \* worker identities
          Handles,      \* the jobs whose kind a worker's turns ask for
          Steady,       \* workers whose handlers end or whose process is restarted
          MaxAttempts,  \* the column max_attempts
          MaxRetries,   \* bound: manual retries of one job
          None          \* SQL NULL

ASSUME JobsAssumption == Jobs \subseteq Nat
ASSUME WorkersAssumption == None \notin Workers /\ None \notin Jobs
ASSUME HandlesAssumption == Handles \in [Workers -> SUBSET Jobs]
ASSUME SteadyAssumption == Steady \subseteq Workers
ASSUME MaxAttemptsAssumption == MaxAttempts \in Nat \ {0}
ASSUME MaxRetriesAssumption == MaxRetries \in Nat

VARIABLES jobs,         \* the committed rows of the table
          worker,       \* where each worker is in runJobAttempt
          claims,       \* history: claims committed on each job, ever
          retries       \* manual retries so far, for the bound

vars == <<jobs, worker, claims, retries>>

Statuses == {"ABSENT", "PENDING", "RUNNING", "SUCCEEDED", "FAILED", "DEAD_LETTER"}
Leases == {"none", "live", "expired"}
Errors == {"none", "JOB_LEASE_EXPIRED", "JOB_HANDLER_FAILED"}

Rows == [status : Statuses, attempts : Nat, owner : Workers \cup {None},
         lease : Leases, error : Errors]

\* at: "idle", "retired" (first UPDATE of a claim done), "taken" (second one
\* done), "handling" (claim committed), "reported" (outcome UPDATE done).
Places == {"idle", "retired", "taken", "handling", "reported"}
Turns == [at : Places, stranded : SUBSET Jobs, job : Jobs \cup {None},
          epoch : Nat, ok : BOOLEAN]

NoRow == [status |-> "ABSENT", attempts |-> 0, owner |-> None,
          lease |-> "none", error |-> "none"]
Idle == [at |-> "idle", stranded |-> {}, job |-> None, epoch |-> 0, ok |-> FALSE]

Init ==
  /\ jobs = [j \in Jobs |-> NoRow]
  /\ worker = [w \in Workers |-> Idle]
  /\ claims = [j \in Jobs |-> 0]
  /\ retries = [j \in Jobs |-> 0]

-----------------------------------------------------------------------------
(* Row locks held until COMMIT or ROLLBACK.                                *)

Locked(w) ==
  {j \in Jobs : \/ /\ worker[w].at \in {"retired", "taken"}
                  /\ j \in worker[w].stranded
               \/ /\ worker[w].at \in {"taken", "reported"}
                  /\ j = worker[w].job}

LockedByOthers(w) == {j \in Jobs : \E v \in Workers \ {w} : j \in Locked(v)}

-----------------------------------------------------------------------------
(* The queue's clients.                                                    *)

\* A second enqueue of the same kind and key returns the first row, or refuses
\* a different payload; either way it writes nothing.
EnqueueJob(j) ==
  /\ jobs[j].status = "ABSENT"
  /\ jobs' = [jobs EXCEPT ![j] = [NoRow EXCEPT !.status = "PENDING"]]
  /\ UNCHANGED <<worker, claims, retries>>

Requeued_KeepsAttempts(row) == [row EXCEPT !.status = "PENDING"]

\* The fresh budget of a manual retry; the recorded error stays visible.
Requeued(row) == [row EXCEPT !.status = "PENDING", !.attempts = 0]

RetryDeadLetterJob(j) ==
  /\ jobs[j].status = "DEAD_LETTER"
  /\ retries[j] < MaxRetries
  /\ jobs' = [jobs EXCEPT ![j] = Requeued(@)]
  /\ retries' = [retries EXCEPT ![j] = @ + 1]
  /\ UNCHANGED <<worker, claims>>

\* statement_timestamp() reaches lease_expires_at.
LeaseExpires(j) ==
  /\ jobs[j].lease = "live"
  /\ jobs' = [jobs EXCEPT ![j].lease = "expired"]
  /\ UNCHANGED <<worker, claims, retries>>

-----------------------------------------------------------------------------
(* claimJob.                                                               *)

Expired(j) == jobs[j].status = "RUNNING" /\ jobs[j].lease = "expired"

Stranded_Nothing(j) == FALSE

Stranded_AnyAttempts(j) == Expired(j)

\* An exhausted job whose worker can no longer report.
Stranded(j) == Expired(j) /\ jobs[j].attempts >= MaxAttempts

Runnable(j) ==
  /\ jobs[j].attempts < MaxAttempts
  /\ jobs[j].status \in {"PENDING", "FAILED"} \/ Expired(j)

\* First UPDATE.  It waits while another transaction has one of its rows.
RetireStranded(w) ==
  LET found == {j \in Jobs : Stranded(j)} IN
  /\ worker[w].at = "idle"
  /\ found \cap LockedByOthers(w) = {}
  /\ worker' = [worker EXCEPT ![w] = [Idle EXCEPT !.at = "retired", !.stranded = found]]
  /\ UNCHANGED <<jobs, claims, retries>>

\* FOR UPDATE SKIP LOCKED
Free(w) == {j \in Handles[w] : Runnable(j)} \ LockedByOthers(w)

\* Second UPDATE: the oldest such row, or none.
TakeOldest(w) ==
  /\ worker[w].at = "retired"
  /\ \/ /\ Free(w) = {}
        /\ worker' = [worker EXCEPT ![w].at = "taken"]
     \/ \E j \in Free(w) :
          /\ \A i \in Free(w) : j <= i
          /\ worker' = [worker EXCEPT ![w].at = "taken", ![w].job = j]
  /\ UNCHANGED <<jobs, claims, retries>>

Retired(row) == [row EXCEPT !.status = "DEAD_LETTER", !.error = "JOB_LEASE_EXPIRED",
                            !.owner = None, !.lease = "none"]

Taken_KeepsOwner(row, w) ==
  [status |-> "RUNNING", attempts |-> row.attempts + 1,
   owner |-> IF row.owner = None THEN w ELSE row.owner,
   lease |-> "live", error |-> row.error]

Taken(row, w) == [status |-> "RUNNING", attempts |-> row.attempts + 1, owner |-> w,
                  lease |-> "live", error |-> row.error]

CommitClaim(w) ==
  LET j == worker[w].job IN
  /\ worker[w].at = "taken"
  /\ jobs' = [i \in Jobs |-> IF i = j THEN Taken(jobs[i], w)
                             ELSE IF i \in worker[w].stranded THEN Retired(jobs[i])
                             ELSE jobs[i]]
  /\ IF j = None
     THEN /\ worker' = [worker EXCEPT ![w] = Idle]
          /\ UNCHANGED claims
     ELSE /\ worker' = [worker EXCEPT ![w] =
                         [at |-> "handling", stranded |-> {}, job |-> j,
                          epoch |-> claims[j] + 1, ok |-> FALSE]]
          /\ claims' = [claims EXCEPT ![j] = @ + 1]
  /\ UNCHANGED retries

-----------------------------------------------------------------------------
(* completeJob and failJob.                                                *)

Holds_AnyOwner(w) ==
  LET row == jobs[worker[w].job] IN row.status = "RUNNING" /\ row.lease = "live"

Holds(w) ==
  LET row == jobs[worker[w].job]
  IN  row.status = "RUNNING" /\ row.owner = w /\ row.lease = "live"

\* The handler has ended; its outcome is written only under a live lease.
ReportOutcome(w, ok) ==
  /\ worker[w].at = "handling"
  /\ Holds(w)
  /\ worker' = [worker EXCEPT ![w].at = "reported", ![w].ok = ok]
  /\ UNCHANGED <<jobs, claims, retries>>

\* JOB_LEASE_LOST: the outcome is refused and the turn throws.
ReportRefused(w) ==
  /\ worker[w].at = "handling"
  /\ ~Holds(w)
  /\ worker' = [worker EXCEPT ![w] = Idle]
  /\ UNCHANGED <<jobs, claims, retries>>

Outcome_RawError(row, ok) ==
  [row EXCEPT !.status = IF ok THEN "SUCCEEDED"
                         ELSE IF row.attempts >= MaxAttempts THEN "DEAD_LETTER"
                         ELSE "FAILED",
              !.error = IF ok THEN @ ELSE "the handler's own message",
              !.owner = None, !.lease = "none"]

Outcome(row, ok) ==
  [row EXCEPT !.status = IF ok THEN "SUCCEEDED"
                         ELSE IF row.attempts >= MaxAttempts THEN "DEAD_LETTER"
                         ELSE "FAILED",
              !.error = IF ok THEN @ ELSE "JOB_HANDLER_FAILED",
              !.owner = None, !.lease = "none"]

CommitOutcome(w) ==
  /\ worker[w].at = "reported"
  /\ jobs' = [jobs EXCEPT ![worker[w].job] = Outcome(@, worker[w].ok)]
  /\ worker' = [worker EXCEPT ![w] = Idle]
  /\ UNCHANGED <<claims, retries>>

\* The process dies, or the connection does and the transaction rolls back.
\* Nothing of an open transaction survives; a committed claim keeps its lease.
Abandon(w) ==
  /\ worker[w].at # "idle"
  /\ worker' = [worker EXCEPT ![w] = Idle]
  /\ UNCHANGED <<jobs, claims, retries>>

-----------------------------------------------------------------------------
Turn(w) ==
  \/ RetireStranded(w)
  \/ TakeOldest(w)
  \/ CommitClaim(w)
  \/ \E ok \in BOOLEAN : ReportOutcome(w, ok)
  \/ ReportRefused(w)
  \/ CommitOutcome(w)
  \/ Abandon(w)

Next ==
  \/ \E j \in Jobs : EnqueueJob(j) \/ RetryDeadLetterJob(j) \/ LeaseExpires(j)
  \/ \E w \in Workers : Turn(w)

\* A handler's outcome reaches the queue, refused or not.
HandlerEnds(w) == (\E ok \in BOOLEAN : ReportOutcome(w, ok)) \/ ReportRefused(w)

\* A claim of one job that comes up for COMMIT again and again is committed.
CommitClaimOf(w, j) == worker[w].job = j /\ CommitClaim(w)

\* Sessions do not stay inside a transaction for ever.
TransactionEnds(w) ==
  /\ worker[w].at \in {"retired", "taken", "reported"}
  /\ TakeOldest(w) \/ CommitClaim(w) \/ CommitOutcome(w) \/ Abandon(w)

Fairness ==
  /\ \A j \in Jobs : WF_vars(LeaseExpires(j))
  /\ \A w \in Workers : /\ WF_vars(TransactionEnds(w))
                        /\ \A j \in Jobs \cup {None} : SF_vars(CommitClaimOf(w, j))
  /\ \A w \in Steady : /\ SF_vars(RetireStranded(w)) /\ SF_vars(TakeOldest(w))
                       /\ WF_vars(HandlerEnds(w) \/ (worker[w].at = "handling" /\ Abandon(w)))

Spec == Init /\ [][Next]_vars
FairSpec == Spec /\ Fairness

-----------------------------------------------------------------------------
(* Correctness.                                                            *)

\* Every variable keeps the shape the table and runJobAttempt give it.
TypeOK ==
  /\ jobs \in [Jobs -> Rows]
  /\ worker \in [Workers -> Turns]
  /\ claims \in [Jobs -> Nat]
  /\ retries \in [Jobs -> Nat]

\* The four CHECK constraints of the table: were one to fire, the claim or the
\* outcome that fired it would fail in the same way on every turn thereafter.
TableChecks ==
  \A j \in Jobs : LET row == jobs[j] IN
    /\ (row.status = "RUNNING") = (row.owner # None)
    /\ (row.owner = None) = (row.lease = "none")
    /\ row.attempts <= MaxAttempts
    /\ row.status = "DEAD_LETTER" => row.error # "none" /\ row.attempts >= MaxAttempts

\* No row is written by two open transactions: what each has decided about its
\* rows still holds when it commits.
RowLocksExclusive ==
  \A j \in Jobs : \A v, w \in Workers : j \in Locked(v) /\ j \in Locked(w) => v = w

\* A worker whose claim is committed and whose outcome is not.
Engaged(w) == worker[w].at \in {"handling", "reported"}

\* The lease carries a worker id, not an attempt number.  It still fences
\* attempts: whoever may report, or has reported, speaks for the latest claim.
LeaseFencesAttempts ==
  \A w \in Workers :
    Engaged(w) /\ (worker[w].at = "reported" \/ Holds(w)) =>
      worker[w].epoch = claims[worker[w].job]

\* Handlers may overlap on one job once a lease has expired, but each works on a
\* claim of its own, and of them only the latest can still be heard: the outcome
\* of a lost lease never overwrites that of the new holder.
OneHandlerPerClaim ==
  \A v, w \in Workers :
    (v # w /\ Engaged(v) /\ Engaged(w) /\ worker[v].job = worker[w].job) =>
      /\ worker[v].epoch # worker[w].epoch
      /\ worker[v].at = "reported" \/ Holds(v) => worker[w].epoch < worker[v].epoch

\* SUCCEEDED is never left, and DEAD_LETTER only by a manual retry.
SettledStays ==
  [][\A j \in Jobs :
       /\ jobs[j].status = "SUCCEEDED" => jobs'[j] = jobs[j]
       /\ jobs[j].status = "DEAD_LETTER" /\ jobs'[j] # jobs[j] => retries'[j] = retries[j] + 1
    ]_vars

\* A job is buried only after MaxAttempts claims since it was last queued: with
\* r manual retries behind it, after (r + 1) * MaxAttempts claims in all.
BuriedOnlyWhenSpent ==
  \A j \in Jobs :
    jobs[j].status = "DEAD_LETTER" => claims[j] = (retries[j] + 1) * MaxAttempts

-----------------------------------------------------------------------------
(* The inductive invariant behind them.                                    *)

\* What worker w, being at t, may still rely on: the rows its open transaction
\* has locked are as it read them, and the latest claim of a row it owns is its.
TurnKnows(w, t) ==
  /\ t.at \in {"idle", "retired"} => t.job = None
  /\ t.at \in {"retired", "taken"} => \A j \in t.stranded : Stranded(j)
  /\ t.at = "taken" /\ t.job # None => Runnable(t.job)
  /\ t.at \in {"handling", "reported"} => /\ t.job # None
                                         /\ t.stranded = {}
                                         /\ t.epoch <= claims[t.job]
  /\ t.at = "handling" => (jobs[t.job].owner = w => t.epoch = claims[t.job])
  /\ t.at = "reported" => /\ t.epoch = claims[t.job]
                          /\ jobs[t.job].status = "RUNNING"
                          /\ jobs[t.job].owner = w

TurnsKnow == \A w \in Workers : TurnKnows(w, worker[w])

\* Every claim is an attempt of the current budget or of one already spent.
ClaimsAccounted ==
  \A j \in Jobs :
    /\ claims[j] = retries[j] * MaxAttempts + jobs[j].attempts
    /\ jobs[j].status = "ABSENT" => jobs[j].attempts = 0

IInv == TypeOK /\ TableChecks /\ RowLocksExclusive /\ TurnsKnow /\ ClaimsAccounted

-----------------------------------------------------------------------------
\* The queue as its clients see it.
Phase(status) ==
  IF status = "ABSENT" THEN "absent"
  ELSE IF status = "SUCCEEDED" THEN "done"
  ELSE IF status = "DEAD_LETTER" THEN "dead"
  ELSE "open"

Promise == INSTANCE AtLeastOnce WITH
  Tasks <- Jobs,
  Budget <- MaxAttempts,
  phase <- [j \in Jobs |-> Phase(jobs[j].status)],
  used <- [j \in Jobs |-> jobs[j].attempts],
  speaker <- [j \in Jobs |-> jobs[j].owner # None]

\* The queue keeps the promise of AtLeastOnce.
KeepsPromise == Promise!Spec

\* A stopped worker never strands work: whatever workers crash or hang, a job
\* that a steady worker handles is settled in the end.
EverySteadyJobSettles ==
  \A j \in UNION {Handles[w] : w \in Steady} :
    jobs[j].status \in {"PENDING", "RUNNING", "FAILED"}
      ~> jobs[j].status \in {"SUCCEEDED", "DEAD_LETTER"}
=============================================================================
