------------------------- MODULE EvidenceProcessing -------------------------
(***************************************************************************)
(* The durable processing of an evidence source (packages/api) on top of  *)
(* the job queue: an intent in the ledger `evidence_processing`, a         *)
(* dispatch that gives it a job, and a handler that carries the ledger    *)
(* through its stages, each in transactions of its own, under a session    *)
(* advisory lock held on a connection of its own.                          *)
(*                                                                         *)
(* A source and its job have one name: the job's idempotency key is made   *)
(* of the source and the release.  A stage transaction is one step, since  *)
(* its UPDATE of the ledger row, or the row it inserts, is what another    *)
(* one waits for; where a process can die is between COMMIT sent and       *)
(* COMMIT done, which is the variable `orphan`.                            *)
(***************************************************************************)
EXTENDS JobQueue

CONSTANTS InFlight   \* TRUE: a COMMIT may be on its way when its process dies

ASSUME InFlightAssumption == InFlight \in BOOLEAN

VARIABLES src,     \* ledger row, extraction run and belief transaction of a source
          lock,    \* the session holding 'process:' || source
          hand,    \* where each worker's handler is
          orphan   \* the step whose COMMIT outlives its process; "landed" is history:
                   \* of what landed late before

pvars == <<src, lock, hand, orphan>>
allVars == <<vars, pvars>>

\* Row status, in the order the stages give it; "NONE" is no row yet.
Ledger == <<"NONE", "PENDING", "EXTRACTED", "CANONICALIZED", "GOVERNED", "SUCCEEDED", "NEEDS_REVIEW">>
Final == {"SUCCEEDED", "NEEDS_REVIEW"}
Rank(status) ==
  IF status \in Final THEN 6 ELSE CHOOSE n \in 1..5 : Ledger[n] = status

Effects == {"claims", "canonicalize", "apply", "project"}
BeliefStatuses == {"none", "PROPOSED", "VALIDATED", "REJECTED", "COMMITTED"}
\* Transactions of a handler, in order; those before "claims" write nothing.
Steps == {"extract", "claims", "mark", "canonicalize", "propose", "validate", "decide",
          "apply", "govern", "project", "projected", "clear"}
Handler == [at : Steps \cup {"out", "lock", "look", "failed", "unlock", "ended"},
            stage : 0..4, ok : BOOLEAN]

Out == [at |-> "out", stage |-> 0, ok |-> FALSE]
Go(at, stage, ok) == [at |-> at, stage |-> stage, ok |-> ok]

NoSource == [status |-> "NONE", unresolved |-> 0, asserts |-> FALSE,
             run |-> "none", unknowns |-> 0, open |-> 0, belief |-> "none",
             times |-> [e \in Effects |-> 0]]

PInit ==
  /\ Init
  /\ src = [j \in Jobs |-> NoSource]
  /\ lock = [j \in Jobs |-> None]
  /\ hand = [w \in Workers |-> Out]
  /\ orphan = [j \in Jobs |-> "none"]

-----------------------------------------------------------------------------
(* Intent and dispatch.                                                    *)

\* The triage trigger, or an explicit document request, in the ingest transaction.
RecordIntent(j) ==
  /\ src[j].status = "NONE"
  /\ src' = [src EXCEPT ![j].status = "PENDING"]
  /\ UNCHANGED <<vars, lock, hand, orphan>>

Dispatch_Upserts(w, j) ==
  /\ worker[w].at = "idle"
  /\ src[j].status # "NONE"
  /\ jobs' = [jobs EXCEPT ![j].status = "PENDING"]
  /\ UNCHANGED <<worker, claims, retries, pvars>>

\* A worker's turn, before its claim; job and job_id are written together.
Dispatch(w, j) ==
  /\ worker[w].at = "idle"
  /\ src[j].status # "NONE"
  /\ EnqueueJob(j)
  /\ UNCHANGED pvars

-----------------------------------------------------------------------------
(* What the transaction of a step does.  Outcomes are pairs of the source  *)
(* as COMMIT leaves it and the handler's next place; a transaction that    *)
(* can only raise has none, and leaves the handler to Fail.                *)

Once(row, e) == [row.times EXCEPT ![e] = @ + 1]

Claims_NoUniqueKey(row) ==
  {<<[row EXCEPT !.run = "SUCCEEDED", !.unknowns = u, !.open = u, !.times = Once(row, "claims")],
     Go("mark", 0, FALSE)>> : u \in {0, 1}}

\* The claims and the closed run; a second run of one key breaks a unique index.
Claims(row) ==
  IF row.run = "SUCCEEDED" THEN {}
  ELSE {<<[row EXCEPT !.run = "SUCCEEDED", !.unknowns = u, !.open = u, !.times = Once(row, "claims")],
          Go("mark", 0, FALSE)>> : u \in {0, 1}}

MarkExtracted(row) ==
  {<<[row EXCEPT !.status = "EXTRACTED", !.unresolved = row.unknowns],
     Go("look", 2, FALSE)>>}

Canonicalize(row) ==
  {<<[row EXCEPT !.status = "CANONICALIZED", !.asserts = a, !.unresolved = row.unresolved + u,
                 !.open = row.unknowns + u, !.times = Once(row, "canonicalize")],
     Go("look", 3, FALSE)>> : a \in BOOLEAN, u \in {0, 1}}

\* An existing transaction of the same key is answered as it stands.
Propose(row) ==
  IF row.belief = "none" THEN {<<[row EXCEPT !.belief = "PROPOSED"], Go("validate", 0, FALSE)>>}
  ELSE {<<row, Go(IF row.belief = "COMMITTED" THEN "decide" ELSE "validate", 0, FALSE)>>}

\* A settled transaction is not validated; what is not committable is refused.
Validate(row) ==
  IF row.belief \in {"COMMITTED", "REJECTED"} THEN {}
  ELSE {<<[row EXCEPT !.belief = "VALIDATED"], Go("decide", 0, FALSE)>>,
        <<[row EXCEPT !.belief = "VALIDATED"], Go("failed", 0, FALSE)>>,
        <<[row EXCEPT !.belief = "PROPOSED"], Go("failed", 0, FALSE)>>}

\* commitBeliefTransaction, first transaction: a refusal is recorded and thrown.
Decide(row) ==
  IF row.belief = "COMMITTED" THEN {<<row, Go("govern", 0, FALSE)>>}
  ELSE IF row.belief = "REJECTED" THEN {}
  ELSE {<<[row EXCEPT !.belief = "VALIDATED"], Go("apply", 0, FALSE)>>,
        <<[row EXCEPT !.belief = "REJECTED"], Go("failed", 0, FALSE)>>}

\* Second transaction: applied once, whoever asks again gets the receipt.
Apply(row) ==
  IF row.belief = "COMMITTED" THEN {<<row, Go("govern", 0, FALSE)>>}
  ELSE IF row.belief = "REJECTED" THEN {}
  ELSE {<<[row EXCEPT !.belief = "COMMITTED", !.times = Once(row, "apply")], Go("govern", 0, FALSE)>>}

\* Replay of the three projections and the final status.
Project(row) ==
  {<<[row EXCEPT !.status = IF row.unresolved > 0 THEN "NEEDS_REVIEW" ELSE "SUCCEEDED",
                 !.times = Once(row, "project")],
     Go("projected", 0, TRUE)>>}

Outcomes(at, row) ==
  CASE at = "extract" -> {<<row, Go(IF row.run = "SUCCEEDED" THEN "mark" ELSE "claims", 0, FALSE)>>}
    [] at = "claims" -> Claims(row)
    [] at = "mark" -> MarkExtracted(row)
    [] at = "canonicalize" -> Canonicalize(row)
    [] at = "propose" -> Propose(row)
    [] at = "validate" -> Validate(row)
    [] at = "decide" -> Decide(row)
    [] at = "apply" -> Apply(row)
    [] at = "govern" -> {<<[row EXCEPT !.status = "GOVERNED"], Go("look", 4, FALSE)>>}
    [] at = "project" -> Project(row)
    [] at = "projected" -> {<<row, Go("unlock", 0, TRUE)>>}
    [] at = "clear" -> {<<row, Go("unlock", 0, TRUE)>>}
    [] OTHER -> {}

-----------------------------------------------------------------------------
(* The handler.                                                            *)

Handling(w, at) == worker[w].at = "handling" /\ hand[w].at = at

FreeLock_Ignored(j) == TRUE

FreeLock(j) == lock[j] = None

\* pg_advisory_lock waits, with no timeout, until the other session lets go.
TakeLock(w) ==
  LET j == worker[w].job IN
  /\ Handling(w, "lock")
  /\ FreeLock(j)
  /\ lock' = [lock EXCEPT ![j] = w]
  /\ hand' = [hand EXCEPT ![w] = Go("look", 1, FALSE)]
  /\ UNCHANGED <<vars, src, orphan>>

\* First step of the stage that a status calls for.
FirstStep(row) ==
  CASE row.status = "PENDING" -> "extract"
    [] row.status = "EXTRACTED" -> "canonicalize"
    [] row.status = "CANONICALIZED" -> IF row.asserts THEN "propose" ELSE "govern"
    [] row.status = "GOVERNED" -> "project"

Seen_Restarts(row, k) ==
  IF row.status = "NONE" THEN Go("failed", 0, FALSE)
  ELSE IF Rank(row.status) = k + 1 THEN Go(FirstStep(row), 0, FALSE)
  ELSE IF k = 1 THEN Go("extract", 0, FALSE)
  ELSE IF k = 4 THEN Go("unlock", 0, TRUE)
  ELSE Go("look", k + 1, FALSE)

\* Where a handler that reads `row` before its k-th stage goes.
Seen(row, k) ==
  IF row.status = "NONE" THEN Go("failed", 0, FALSE)
  ELSE IF k = 1 /\ row.status \in Final THEN Go("clear", 0, TRUE)
  ELSE IF Rank(row.status) = k + 1 THEN Go(FirstStep(row), 0, FALSE)
  ELSE IF k = 4 THEN Go("unlock", 0, TRUE)
  ELSE Go("look", k + 1, FALSE)

\* A plain SELECT, in a transaction of its own before every stage.
Look(w) ==
  /\ Handling(w, "look")
  /\ hand' = [hand EXCEPT ![w] = Seen(src[worker[w].job], hand[w].stage)]
  /\ UNCHANGED <<vars, src, lock, orphan>>

\* A SELECT waits for nobody; what writes waits for the locks of an open COMMIT.
Unblocked(w) ==
  worker[w].at = "handling" /\ (hand[w].at \in {"extract", "projected"} \/ orphan[worker[w].job] \notin Steps)

\* The step's transaction commits, or commits while its answer gets lost.
Work(w) ==
  LET j == worker[w].job IN
  /\ Unblocked(w)
  /\ \E o \in Outcomes(hand[w].at, src[j]) :
       /\ src' = [src EXCEPT ![j] = o[1]]
       /\ hand' = [hand EXCEPT ![w] = o[2]]
  /\ UNCHANGED <<vars, lock, orphan>>

AnswerLost(w) ==
  LET j == worker[w].job IN
  /\ Unblocked(w)
  /\ \E o \in Outcomes(hand[w].at, src[j]) : src' = [src EXCEPT ![j] = o[1]] /\ src' # src
  /\ hand' = [hand EXCEPT ![w] = Go("failed", 0, FALSE)]
  /\ UNCHANGED <<vars, lock, orphan>>

\* Nothing of the step commits: an error, a refusal, a failing checkpoint.
Fail(w) ==
  /\ worker[w].at = "handling"
  /\ hand[w].at \in Steps \cup {"lock", "look"}
  /\ hand' = [hand EXCEPT ![w] = Go("failed", 0, FALSE)]
  /\ UNCHANGED <<vars, src, lock, orphan>>

Thrown_Swallowed == Go("unlock", 0, TRUE)

\* catch: the code is recorded, if that succeeds, and rethrown; what it is matters to
\* nobody here.
Thrown == Go("unlock", 0, FALSE)

RecordError(w) ==
  /\ Handling(w, "failed")
  /\ hand' = [hand EXCEPT ![w] = Thrown]
  /\ UNCHANGED <<vars, src, lock, orphan>>

Released(w) == [j \in Jobs |-> IF lock[j] = w THEN None ELSE lock[j]]

\* finally: a session that cannot unlock is gone, and its lock too.
Unlock(w) ==
  /\ Handling(w, "unlock")
  /\ lock' = Released(w)
  /\ \E ok \in {hand[w].ok, FALSE} : hand' = [hand EXCEPT ![w] = Go("ended", 0, ok)]
  /\ UNCHANGED <<vars, src, orphan>>

-----------------------------------------------------------------------------
(* The worker around the handler.                                          *)

BeginJob(w) ==
  /\ CommitClaim(w)
  /\ hand' = [hand EXCEPT ![w] = IF worker[w].job = None THEN Out ELSE Go("lock", 0, FALSE)]
  /\ UNCHANGED <<src, lock, orphan>>

Report(w) ==
  /\ hand[w].at = "ended"
  /\ ReportOutcome(w, hand[w].ok) \/ ReportRefused(w)
  /\ hand' = [hand EXCEPT ![w] = Out]
  /\ UNCHANGED <<src, lock, orphan>>

\* The process dies: its sessions go, and the advisory lock with them.  A COMMIT
\* already sent by the step it was in is carried out all the same.
Die(w) ==
  LET j == worker[w].job IN
  /\ Abandon(w)
  /\ hand' = [hand EXCEPT ![w] = Out]
  /\ lock' = Released(w)
  /\ \/ UNCHANGED orphan
     \/ /\ InFlight
        /\ worker[w].at = "handling"
        /\ orphan[j] \notin Steps
        /\ Outcomes(hand[w].at, src[j]) # {}
        /\ orphan' = [orphan EXCEPT ![j] = hand[w].at]
  /\ UNCHANGED src

\* The COMMIT of a dead process lands.
Land(j) ==
  /\ orphan[j] \in Steps
  /\ \E o \in Outcomes(orphan[j], src[j]) : src' = [src EXCEPT ![j] = o[1]]
  /\ orphan' = [orphan EXCEPT ![j] = "landed"]
  /\ UNCHANGED <<vars, lock, hand>>

QueueStep(w) ==
  /\ RetireStranded(w) \/ TakeOldest(w) \/ CommitOutcome(w)
  /\ UNCHANGED pvars

Handle(w) ==
  TakeLock(w) \/ Look(w) \/ Work(w) \/ AnswerLost(w) \/ Fail(w) \/ RecordError(w) \/ Unlock(w)

PNext ==
  \/ \E j \in Jobs : \/ RecordIntent(j)
                     \/ Land(j)
                     \/ (RetryDeadLetterJob(j) \/ LeaseExpires(j)) /\ UNCHANGED pvars
  \/ \E w \in Workers : \/ \E j \in Jobs : Dispatch(w, j)
                        \/ QueueStep(w) \/ BeginJob(w) \/ Handle(w) \/ Report(w) \/ Die(w)

\* An open transaction ends; a handler comes to an end, or its process is restarted.
\* Nothing ends a wait for the lock but the lock.
SessionGoesOn(w) ==
  /\ worker[w].at \in {"retired", "taken", "reported"}
  /\ QueueStep(w) \/ BeginJob(w) \/ Die(w)

HandlerGoesOn(w) ==
  /\ worker[w].at = "handling" /\ hand[w].at # "lock"
  /\ Handle(w) \/ Report(w) \/ Die(w)

\* Committing a claim that takes the job, or retires it.
BeginJobOn(w, j) == (worker[w].job = j \/ j \in worker[w].stranded) /\ BeginJob(w)

\* Steady workers poll: between them they dispatch and claim without end, and the
\* advisory lock, when it is free again and again, comes to one that waits for it.
PFairness ==
  /\ \A j \in Jobs : /\ SF_allVars(\E w \in Steady : Dispatch(w, j))
                     /\ SF_allVars(\E w \in Workers : BeginJobOn(w, j))
                     /\ WF_allVars(LeaseExpires(j) /\ UNCHANGED pvars)
                     /\ WF_allVars(Land(j))
  /\ SF_allVars(\E w \in Steady : RetireStranded(w) /\ UNCHANGED pvars)
  /\ SF_allVars(\E w \in Steady : TakeOldest(w) /\ UNCHANGED pvars)
  /\ SF_allVars(\E w \in Steady : TakeLock(w))
  /\ \A w \in Workers : WF_allVars(SessionGoesOn(w))
  /\ \A w \in Steady : WF_allVars(HandlerGoesOn(w))

PSpec == PInit /\ [][PNext]_allVars
PFairSpec == PSpec /\ PFairness

-----------------------------------------------------------------------------
(* Correctness.                                                            *)

\* Every variable keeps the shape the ledger, the lock and the handler give it.
PTypeOK ==
  /\ TypeOK
  /\ src \in [Jobs -> [status : {Ledger[n] : n \in 1..7}, unresolved : Nat, asserts : BOOLEAN,
                       run : {"none", "SUCCEEDED"}, unknowns : {0, 1},
                       open : Nat, belief : BeliefStatuses, times : [Effects -> Nat]]]
  /\ lock \in [Jobs -> Workers \cup {None}]
  /\ hand \in [Workers -> Handler]
  /\ orphan \in [Jobs -> Steps \cup {"none", "landed"}]

\* Retries, reclaimed leases, lost answers and crashes notwithstanding, a source's
\* claims are extracted once and its assertions committed once: a unique key or
\* a settled status decides, not the lock.
KeyedEffectsOnce == \A j \in Jobs, e \in {"claims", "apply"} : src[j].times[e] <= 1

\* The ledger goes forward one stage at a time, and a final status stays.
LedgerForward ==
  [][\A j \in Jobs :
       src'[j].status # src[j].status =>
         src[j].status \notin Final /\ Rank(src'[j].status) = Rank(src[j].status) + 1]_allVars

\* A succeeded job has carried its source through every stage.
JobDoneMeansFinal ==
  \A j \in Jobs : jobs[j].status = "SUCCEEDED" => src[j].status \in Final

\* Claims are extracted and assertions committed once, and a succeeded job has carried
\* its source to the end.
KeyedAndComplete == KeyedEffectsOnce /\ JobDoneMeansFinal

\* The stages of a row: what has been carried out, and how often, is what its status,
\* the unique key of its run and its belief transaction say.
StagesExact(row) ==
  /\ row.times["claims"] = IF row.run = "SUCCEEDED" THEN 1 ELSE 0
  /\ row.times["canonicalize"] = IF Rank(row.status) >= 4 THEN 1 ELSE 0
  /\ row.times["apply"] = IF row.belief = "COMMITTED" THEN 1 ELSE 0
  /\ row.times["project"] = IF row.status \in Final THEN 1 ELSE 0

\* A refused belief transaction keeps a source at CANONICALIZED for good.
GovernedMeansCommitted(row) == Rank(row.status) >= 5 /\ row.asserts => row.belief = "COMMITTED"

\* The count that decides between SUCCEEDED and NEEDS_REVIEW is the number of
\* things left open by extraction and canonicalization, neither lost nor doubled.
UnresolvedExact(row) ==
  /\ Rank(row.status) >= 3 => row.unresolved = row.open
  /\ row.status \in Final => (row.status = "NEEDS_REVIEW") = (row.open > 0)

\* While no COMMIT of a source outlives its process, every stage of it is carried out
\* once (the advisory lock and the status read under it keep handlers apart), it passes
\* the governor only with what it asserts committed, and what is left open is counted once.
ExactInTime ==
  \A j \in Jobs :
    orphan[j] = "none" =>
      StagesExact(src[j]) /\ GovernedMeansCommitted(src[j]) /\ UnresolvedExact(src[j])

\* Work is done only for a handler the queue has started, and the queue under it
\* is the queue of JobQueue: no composed step does anything to it that it would not.
QueueUnderneath == Spec

\* Every recorded intent ends processed, or dead-lettered where operations sees it.
IntentIsAnswered ==
  \A j \in Jobs :
    src[j].status = "PENDING" ~> src[j].status \in Final \/ jobs[j].status = "DEAD_LETTER"

-----------------------------------------------------------------------------
(* The inductive invariant behind them.                                    *)

Staged == Steps \ {"projected", "clear"}

\* The status that a step of a stage starts from ...
Begins(at, row) ==
  \/ at \in {"extract", "claims", "mark"} /\ row.status = "PENDING"
  \/ at = "canonicalize" /\ row.status = "EXTRACTED"
  \/ at \in {"propose", "validate", "decide", "apply", "govern"} /\ row.status = "CANONICALIZED"
  \/ at = "project" /\ row.status = "GOVERNED"

\* ... and the one it finds if a COMMIT of the stage was on its way when its process died.
Overtaken(at, row) ==
  \/ at \in {"extract", "claims", "mark"} /\ row.status = "EXTRACTED"
  \/ at = "canonicalize" /\ row.status = "CANONICALIZED"
  \/ at \in {"propose", "validate", "decide", "apply", "govern"} /\ row.status = "GOVERNED"
  \/ at = "project" /\ row.status = IF row.unresolved > 0 THEN "NEEDS_REVIEW" ELSE "SUCCEEDED"

\* What a handler at h may rely on: while a COMMIT is on its way the row is as it read
\* it, and without one it may be a stage ahead; what is answered as done is done.
HandKnows(h, row, pending) ==
  /\ h.at \in Staged => Begins(h.at, row) \/ (~pending /\ Overtaken(h.at, row))
  /\ h.at = "look" => h.stage \in 1..4 /\ (h.stage = 1 \/ h.stage < Rank(row.status))
  /\ h.ok \/ h.at \in {"projected", "clear"} => row.status \in Final

HandsKnow ==
  \A w \in Workers :
    /\ hand[w].at # "out" => worker[w].at = "handling"
    /\ worker[w].at = "handling" => HandKnows(hand[w], src[worker[w].job], orphan[worker[w].job] \in Steps)
    /\ worker[w].at = "reported" /\ worker[w].ok => src[worker[w].job].status \in Final

\* A handler that works has the lock of its source.
LockHeld ==
  \A w \in Workers : hand[w].at \in Steps \cup {"look"} => lock[worker[w].job] = w

OrphansKnow ==
  \A j \in Jobs : orphan[j] \in Staged => Begins(orphan[j], src[j]) \/ Overtaken(orphan[j], src[j])

\* What the unique key of a run, and the status of a belief transaction, remember.
Keyed(row) ==
  /\ row.times["claims"] \in {0, 1} /\ (row.run = "none" => row.times["claims"] = 0)
  /\ row.times["apply"] \in {0, 1} /\ (row.belief # "COMMITTED" => row.times["apply"] = 0)

PInv ==
  /\ IInv /\ PTypeOK
  /\ HandsKnow /\ LockHeld /\ OrphansKnow
  /\ \A j \in Jobs : Keyed(src[j])
  /\ JobDoneMeansFinal

\* While no COMMIT of a source outlives its process, the handler at a step finds the
\* source as the stage begins, and what is open is what extraction left so far.
InTimeKnows ==
  \A w \in Workers :
    LET h == hand[w]
        j == worker[w].job
    IN  h.at \in Staged /\ orphan[j] = "none" =>
          /\ Begins(h.at, src[j])
          /\ h.at = "govern" /\ src[j].asserts => src[j].belief = "COMMITTED"

OpenCounted ==
  \A j \in Jobs : orphan[j] = "none" /\ Rank(src[j].status) < 4 => src[j].open = src[j].unknowns

EInv == PInv /\ ExactInTime /\ InTimeKnows /\ OpenCounted
=============================================================================
