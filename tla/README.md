# uai in TLA+

TLA+ models of uai, the personal memory service in this repository: what is written down about the
owner, how it becomes belief, and what the system may do about it while several workers, requests
and devices are at it at once. TLC checks the models on small instances, TLAPS proves theorems
about eight of them for every instance.

Contents: [the system](#the-system) · [modules](#modules-and-the-code-they-model) ·
[runs](#runs) · [history variables](#history-variables-what-a-property-leaves-out-and-why) ·
[fairness](#fairness) · [proofs](#proofs) · [findings](#where-code-and-documents-disagree) ·
[hazards without a property](#hazards-without-a-property) ·
[not modelled](#what-is-not-modelled) · [plan](#plan)

Conventions. A step is a database transaction, or a part of one where another session can get in
between: under READ COMMITTED a transaction reads what is committed when each of its statements
starts, and a row it has updated is locked until it ends. What an open transaction has written is
kept in the record of its session and becomes visible in one commit step. Words, digests, prompts
and identifiers are members of small sets. A definition with a suffix (`Runnable_AnyAttempts`)
is a mistake that could have been made in the definition that follows it; no action uses it, and
`PROJECT.json` says which property notices it. `PROJECT.json` also gives the source lines of every
definition.

## The system

A request, a document or a connector stores *evidence*; processing extracts claims from it and
canonicalizes them onto *slots and propositions*; the *belief governor* commits assessed beliefs;
*projections*, the *context broker* and *answers* read them. The *overlay* shows the owner's own
words before governance has caught up; the *initiative* and the *inbox* ask the owner questions.
Everything an owner has lives in PostgreSQL, behind a wrapper that opens one transaction per
operation. Three things run besides the requests: processing workers (polling processes), the
dispatchers inside them, and the owner's devices.

In the table, *hard* names the behaviours that make a component difficult; the properties are what
makes it correct. The last column is the module that has them, or *planned*, or why there is none.

| component | state | operations | hard | correct when | module |
|---|---|---|---|---|---|
| Job queue (`jobs`) | rows with status, attempts, lease | enqueue, claim, heartbeat, complete, fail, retry a dead letter | leases run out under running handlers, workers die, SKIP LOCKED | one attempt speaks for a job, budgets are kept, nothing is stranded | `JobQueue` |
| Evidence processing (`api/processing-*`) | the ledger row of a source, its extraction run, the advisory lock | dispatch, stages extract / canonicalize / govern / project, record an error | a stage repeated after a crash, a lost answer or a second handler | stages once and in order, intents answered | `EvidenceProcessing` |
| Belief governor (`belief`) | change sets, receipts, support graph, verdicts, derivations | propose, validate, commit in two transactions | what was validated changes before it is applied | applied once, one receipt, acyclic support, one accepted value, derivations follow | `BeliefGovernor` |
| Connectors (`connectors`) | connector row, grants, cursor, credential | sync, record a failure, change grants, disconnect | network calls inside transactions, revocation beside a sync | nothing lost behind the cursor, disconnect is final | `ConnectorSync` |
| Owner overlay and corrections (`memory/overlay`, `belief/delta-conflicts`, `api/corrections`) | owner's sequence, deltas, proposals, operations | write a delta, correct, poll, contest | order of commits, repeated requests | numbers are the commit order, a poll misses nothing, contradictions are contested | `OwnerOverlay` |
| Owner initiative and attention (`api/initiative-*`, `review/interruption`) | schedule, watches, receipts, questions of the day | dispatch, evaluate, configure, snooze, ask | lost and overtaken attempts, changes while evaluating, a shared budget | asked once, budget kept, a lasting situation answered | `Initiative` |
| Canonical identity (`memory/slots`, `canonicalize`, …) | slots, propositions, fingerprints per normalization version | resolve, create, re-index | colliding fingerprints, inserts beside a re-index | a claim's slot says what the claim says; one live slot per descriptor; nothing unindexed | `Lineage` (lookup and creation) |
| Governed actions and data control (`control`, `api/control`) | drafts, recommendations, action history, tombstones | draft, decide, respond, record a receipt, preview, erase | routes of several transactions, an erasure that fails half way, commits beside it | a draft tells one story; an answer stands; a deletion takes what fell and nothing else | `Erasure`, `GovernedActions` |
| Evidence intake (`api/evidence`) | object store, evidence rows, retry receipts | store, store again under a key | one content or one key at once, a deletion beside it | one live row per content, with its bytes; a key stands for one row | `EvidenceIntake` |
| Merge and split lineage (`belief/lineage`, `memory/lineage`) | lineage edges, retired frames, slots and propositions | merge, split, resolve the survivor | long chains, a canonicalization beside them | old identifiers lead to something live; a live frame is one location; no claim left behind | `Lineage` |
| Typed projections and replay (`capabilities`) | projection rows, watermarks, rebuild receipts | reduce, replay, rebuild, read | two replays at once, an overlay that moves on | replay equals increment; no write of the owner's is lost; what is retired has no row | `Projections` |
| Memory inbox and weekly review (`review`, `api/review`) | cards, decisions to interrupt, learned rules | read, answer, approve and revoke a rule | a reading evaluated late, an answer in three transactions | nothing asked twice with nothing new; rules rest on the owner's fresh answers; what a card says was proposed | `Inbox`; the budget it shares in `Initiative` |
| Bitemporal beliefs and relations | versions with two times | record, supersede, query | overlaps, boundaries | one version at each point of both times | planned |
| Resolutions and outcomes | allocations, schedules | allocate, sweep | partial allocations, elapsed beside fulfilled | never more than the principal | `Projections`, as a row reads them; the rest planned |
| Decisions, goals, mentor | goals with a cached priority | set, review | cache beside its history | cache is the newest of the history | planned; the rest is prose |
| Context broker, answers, manifests (`context`, `api/ask`) | state packets, asks, manifests, reconsideration rows | read a packet, phrase it, record the answer, list it when a belief changes | reads, model calls and recording in transactions of their own, changes, removals and erasures between them | an answer says only what may be said; a change lists every earlier answer | `Answering`; ranking and wording are not |
| Contract registry | immutable releases | release | none of its own | a release never changes | one transaction under a lock |
| Authentication and sessions | sessions, devices | sign in, revoke | protocol is next-auth's | — | one SQL function each |
| Owner transactions (`postgres`) | connection | BEGIN, membership, work, COMMIT | an answer lost after COMMIT | atomic | the notion of a step in every module |
| Model gateway | none | call, check the schema | — | — | its answers are nondeterministic in `EvidenceProcessing` |
| Kernel and composition root | none | identifiers, wiring | — | — | nothing to model |
| Secrets, storage, observability | external | read, write | — | — | pure I/O |
| Web application | rendering | — | — | — | no state of the system |
| Evaluation corpus, fixtures, scripts, documents | — | — | — | — | nothing to model |

How they interact. Workers call the queue; the queue starts a processing or an initiative handler;
processing proposes to the governor and replays projections; a governed commit contests overlay
deltas and moves the input marker of the initiative; connectors store evidence, which records an
intent to process; corrections store evidence, write a delta and propose to the governor; inbox and
initiative spend one budget of questions. Calls cross in plain function calls, each opening its own
transaction; what they share is rows, row locks and advisory locks.

The models compose along these lines: `EvidenceProcessing` EXTENDS `JobQueue` and is shown to be
one of its behaviours; the governor's transactions appear in it as the status of one change set.
`Initiative` stands on `AtLeastOnce`, the promise that `JobQueue` is shown to keep: a task has at
most `Attempts` attempts, and only the latest may settle it. `OwnerOverlay` has the governor's
commit as far as it contests deltas; `Erasure` as far as it writes claims, support and computations
beside a deletion; `Projections` as far as it merges, splits and settles what a row is built from;
`Answering` as far as it gives a belief a new version.
The others share rows rather than calls, and are models of their own.

Four MC modules put several models side by side. A behaviour is about one of them, chosen in the
initial state by the variable `subject`; the others stay as they begin. They share nothing, so the
states of a run are the sum of those of its subjects, not the product.

| MC module | subjects |
|---|---|
| `MCEvidence` | `EvidenceProcessing`; `Projections` once for each of its three reducers |
| `MCBelief` | `BeliefGovernor`, `Lineage`, `Answering` |
| `MCBackground` | `ConnectorSync`, `Initiative` |
| `MCOwnerData` | `OwnerOverlay`, `Erasure`, `EvidenceIntake`, `GovernedActions`, `Inbox` |

## Modules and the code they model

### `AtLeastOnce`, `JobQueue`, `JobQueueProofs`

`packages/jobs/src/index.ts`, `migrations/0007_jobs.sql`. `jobs` is the committed table, `worker`
where each worker is in `runJobAttempt`, `claims` and `retries` count claims and manual retries.

* `EnqueueJob`, `RetryDeadLetterJob` are the clients. A second enqueue of a key writes nothing.
* A claim is `RetireStranded` (the UPDATE that buries exhausted jobs whose lease ran out),
  `TakeOldest` (the UPDATE over `FOR UPDATE SKIP LOCKED`) and `CommitClaim`.
* The handler runs outside every transaction. `ReportOutcome` is the guarded UPDATE of
  `completeJob` and `failJob`, `ReportRefused` is `JOB_LEASE_LOST`, `CommitOutcome` the COMMIT.
* `LeaseExpires` may happen whenever a lease is live, so every lease length and every heartbeat
  is covered: a heartbeat is a lease that does not expire yet.
* `Abandon` is a worker's death or a lost connection at any place.

`AtLeastOnce` says what the clients get, without leases, clocks or workers: tasks that are opened,
attempted at most `Budget` times, and settled by the one attempt with the right to speak. The
refinement (`Promise`) maps a row's status to the phase and its owner to that right. One step may
move many tasks there, as a claim buries every exhausted job at once.

### `EvidenceProcessing`, `EvidenceProcessingProofs`

`packages/api/src/processing-*.ts`, `packages/extraction/src/runs.ts`, `migrations/0031`. `src` is
the ledger row with the extraction run and the belief transaction of a source; `lock` the session
that holds the advisory lock of a source, on a connection of its own; `hand` the place of each
handler; `orphan` a COMMIT that was sent by a process that has died since.

* `RecordIntent` and `Dispatch` give a source a ledger row and a job.
* `TakeLock`, then for each stage `Look` (a plain SELECT of the status) and `Work` (one transaction
  of the stage: extract, claims, mark, canonicalize, propose, validate, decide, apply, govern,
  project, projected, clear). `Outcomes` gives what each writes.
* `AnswerLost` commits and throws, `Fail` throws without a commit, `RecordError` is the catch block,
  `Unlock` the finally block, `Report` the return to the queue.
* `Die` ends the process with its sessions and its lock; `Land` is its COMMIT, late. An `orphan` that
  is "landed" is history: a source whose COMMIT came late once.

What a model says about a source and whether its assertions are committable is nondeterministic. The
error code a failure leaves in the ledger is left out: nothing reads it but the owner.

### `BeliefGovernor`, `BeliefGovernorProofs`

`packages/belief/src/{transactions,assessments,support,policy,admission}.ts`, `migrations/0012`.
`txn` is status and stored receipt of each change set, `graph` the committed support edges, verdicts,
derivations and suppressed claims, `session` the open transactions; `applied` and `answers` are
history. What a change set contains is a constant, as is which of them nothing but the graph can
refuse (`Allowed`: contracts, risk, origin, policy).

* `Propose`; `ValidateRead` and `ValidateWrite`, which read the row without a lock and write later.
* `Settle`: the first transaction of a commit, which validates and records a refusal. `Apply` and
  `CommitApply`: the second, which locks the row again, applies every operation, reassesses what is
  derived (`Moved`) and stores the receipt. `ApplySettled` finds it settled meanwhile.
* `Rollback` ends any of them.

### `ConnectorSync` (proofs in `BackgroundProofs`)

`packages/connectors/src/{sync,grants}.ts`, `packages/api/src/connectors.ts`, `migrations/0018`. One
mailbox whose pages hold one message each. `conn` is the connector row, `grants` the granted
capabilities, `store` evidence per message and content hash, `token` whether the provider still
accepts the credential, `session` the open transactions. Sync is `LoadSync`, `ReadGrants` (which
heals a failed connector), `Fetch` and `Ingest` per page, `FinishSync`; a failure rolls back
(`FailSync`) and is recorded by a transaction of its own. Consent is `LoadGrants`, `Toggle`,
`SetGrants`; leaving is `LoadDisconnect`, `RevokeAtProvider`, `ClearGrants`, `Disconnect`.

### `OwnerOverlay` (proofs in `OwnerDataProofs`)

`packages/memory/src/overlay.ts`, `packages/belief/src/delta-conflicts.ts`,
`packages/api/src/corrections.ts`, `migrations/0014`. `clock` counts begun transactions (`now()` is
the start of one). A write is `Begin`, `Write` (the owner's number is allocated under its row lock),
`CommitDelta`, and for a correction control `ProposeControl` and `RecordOperation`, which are
transactions of their own. A commit of claims is `BeginCommit`, `Scan`, `CommitClaims`. `Read` is a
device reading on from its watermark.

### `Initiative` (proofs in `BackgroundProofs`)

`packages/api/src/initiative-*.ts`, `packages/review/src/{interruption,attention,inbox}.ts`,
`migrations/0033`, `0035`. `settings` is the schedule, `watch` the watches, `receipts` what was
decided about a situation, `cards` what the inbox has asked, `marker` and `unmarked` the input
marker and a governed change it does not count yet. A dispatch is `Look` and `Enqueue`; an
evaluation `Claim`, `Lock`, `Read`, `PassOver` or `Weigh` and `Admit` for each watch, `Finish`,
`Report`; `Lose` is an attempt that throws or is gone. The owner has `BeginPatch`, `WritePatch`,
`PatchWatch`; memory `Govern` and `Complete`; the inbox `CountInbox` and `CommitInbox`.

A day is `Day` ticks: local time and zones are left out. The preparation of a draft is left out, and
so is the creation of a watch. `Gone` is a situation that is resolved or whose source may no longer
be read.

### `Erasure`, `ErasureProofs`, `Rounds`

`packages/control/src/erasure.ts`, `packages/api/src/control.ts`, the definer `erase_evidence` of
`migrations/0029_derived_evidence_erasure.sql`. `item` and `bytes` are the rows and the raw objects,
`memory` what stands on the evidence (claims, rejected claims, propositions, support edges, recorded
computations), `erasing` the open deletion, `writer` a governed commit that has loaded its inputs.

* `Ingest`, `StoreClaim`, `Reject`, `AddSupport`, and the two halves of a derivation (`LoadDerive`,
  `WriteDerive`) write memory. The inputs of a computation are arrays without a foreign key, so
  `WriteDerive` looks at its output only.
* `Erase` is the cascade for one item (`Cascade`): what live independent claims still ground, the
  loop that takes what fell, what quotes it (`Tainted`). The rounds of the SQL loops are functions
  of the round.
* `DeleteObject` is one storage call from inside the transaction, `StorageFails` and `CommitLost`
  the two ways it ends badly, `PreviewRollback` the preview, `CommitErasure` the commit.

What the cascade should do is said without rounds: `Standing` is the least set of propositions that
what is left still grounds. `Rounds` has what the proofs about rounds share, here and in `Lineage` and
`Answering`: what bounded rounds reach, and where a run of a function ends.

### `EvidenceIntake` (proofs in `OwnerDataProofs`)

`packages/api/src/evidence.ts`, `migrations/0004`, `0005`, `0008`. A request that stores evidence,
statement by statement: the advisory lock of its key, a receipt read, the insert that waits for an
uncommitted row of the same content (`Insert`), the read of the row it ran into, the retry receipt
with its foreign key (`Note`, `Share`, `Confirm`), the object, the commit. `Delete` and `Deleted`
are a deletion of a stored row, from its `FOR UPDATE` to its commit. A row is named by the request
that inserted it.

### `GovernedActions` (proofs in `OwnerDataProofs`)

`packages/api/src/control.ts`, `packages/control/src/{actions,permissions}.ts`, `migrations/0024`.
`AskDraft`/`CreateDraft`, `ReadDraft`/`DecideDraft`, `Say`/`ReadRecommendation`/`Respond` and
`StoreReceipt`/`RecordReceipt` are the routes, each cut where another one can come between.
`Transition`, `Unanswered` and `Authoritative` are the triggers that judge the row as it is by then.

### `Lineage` (proofs in `BeliefGovernorProofs`)

`packages/belief/src/lineage.ts`, `packages/memory/src/{lineage,slots,canonicalize}.ts`,
`migrations/0020`. `frame` and `lineage` are the frame instances and their lineage rows, `slot` each
slot with the frame its row names and the one its fingerprint names, `verdict`, `into` and `support`
what its propositions say, were merged into, and were given by a split.

* A canonicalization is `Match`, `Lookup`, `WriteClaim`: a merge or split may come between.
* `Assess` is a governed verdict. `MergeFrames` moves slots, folds colliding ones into the one kept
  and carries verdicts (`MergedVerdicts`); `SplitFrame` gives each part its copies and contests what
  nobody assigned.
* `Survivor`, `ResolvesTo` and `Members` are the three queries over the lineage rows; they are written
  from their own code and proved to agree.

### `Projections`, `ProjectionsProofs`

`packages/capabilities/src/{projections,canonical,obligations,money}.ts`,
`packages/memory/src/resolutions.ts`, `packages/api/src/lineage.ts`, `migrations/0016`. `stated` is
canonical memory about the frames, `overlay` the owner's deltas in order, `row` the projection rows,
`replay` the open transactions, `rebuilt` the receipts of rebuilds.

* The three reducers are `CommitmentRow`, `ObligationRow` and `ScheduleRow`; `Fold` folds the deltas
  in, `View` is what a read shows: the row with the deltas folded over it.
* `CreateFrame`, `State`, `Govern`, `Say`, `Judge`, `MergeFrames`, `SplitFrame` change what the rows
  are built from, each a transaction.
* A replay is `Begin`, `BuildRows`, `WriteRows`, `PruneRows`, `CommitReplay`; a rebuild after a merge
  or split is an incremental step, a pruning, and (`Again`) a replay compared with it. `Abort` is a
  crash or a broken deadlock.

### `Inbox` (proofs in `OwnerDataProofs`)

`packages/review/src/{inbox,interruption,ambiguities,rules}.ts`, `packages/api/src/review.ts`,
`migrations/0023`, `0035`. `pieces` counts what there is about a question and `said` how far the
owner's deltas settle it, `cards` are the clarification cards, `asks` the decisions to interrupt,
`rules` the learned rules, `proposals` what was proposed to the governor.

* A reading is `ReadPacket` (the packet, in a transaction before) and `Evaluate`: `Composed` keeps,
  clears and adds cards, `Decided` suppresses, defers or asks, a rule in effect answers instead.
* An answer, of the owner (`BeginAnswer`) or of a rule, is `WriteDeltas`, `ProposeAnswer` and
  `RecordAnswer`, which may lead to a rule (`Learned`); `Leave` is where it ends half way.
* `Evaluate` is one step: two evaluations that meet on a card wait for its row lock, and the unique
  index refuses a second open card. Two with no card in common count the budget apart; `Initiative`
  has that race.

### `Answering` (proofs in `BeliefGovernorProofs`)

`packages/context/src/{broker,support-authority,grounding,ask,manifests}.ts`,
`packages/api/src/{ask,answers}.ts`, `migrations/0021`, `0029`, `0030`. `version` is the assessment of
each belief, `erased`, `gone` and `removed` what a deletion or the owner has taken, `ask` where each
question is, `packets` and `manifests` what is stored of it, `listed` the reconsideration rows,
`change` and `erasing` the open transactions beside it.

* A question is `Authorize` (a verdict, committed), `ReadRemovals` and `ReadBeliefs` (two statements
  of the next transaction), `StorePacket`, then `Phrase` for each candidate of the model, behind the
  grounding validator (`Validate`), or `Compose`; `BeginRecord`, `Recheck`, `CommitRecord` store the
  manifest, and only then is the answer returned. `Abandon` is where any of it ends.
* `BeginChange`, `WriteChange`, `CommitChange` are a commit that gives a belief a new version and lists
  the manifests its trigger sees; `Suppress` and `Withdraw` are the owner's removals; `Erase` and
  `CommitErasure` a deletion as far as packets go.
* What may be read is computed as the code does, in rounds (`Grounded`, then `Round` by `Round`:
  `Proofs`), and said without rounds (`MayBeRead`, a least set); the property has them agree in every
  state a packet is read in, and a theorem for any recorded computations. A round of the code uses what
  it has proved itself; a round of the model what was proved before it. Both end at the same set.

What a packet selects, its ranking, freshness, wording and threads are left out.

## Runs

Every passing run is complete: TLC visits every reachable state of the instance. State counts are
distinct states, up to symmetry where the configuration has it (only sets of things that are
interchangeable are permuted; never in a run with a liveness property).

| run | instance | states | what it shows |
|---|---|---|---|
| `queue` | 2 workers, one steady, one that crashes or hangs at will and asks for one kind only; 2 jobs, 2 attempts, 1 manual retry | 25k | a lost lease never overwrites the new holder although the lease has a worker's name and no attempt number (`LeaseFencesAttempts`, `OneHandlerPerClaim`); a dead letter has had its budget each time it was queued (`BuriedOnlyWhenSpent`); the queue keeps its promise (`KeepsPromise`); lease expiry, stranded rows and SKIP LOCKED strand nothing (`EverySteadyJobSettles`) |
| `evidence` | processing: 1 source, 2 workers, 2 attempts, 1 retry, late COMMITs. Projections: 3 frames; 3 acts and 2 replays, in the schedule 2 acts and two sessions that replay | 1.9M | claims and assertions are stored once and a succeeded job has a final ledger (`KeyedAndComplete`), the ledger goes forward (`LedgerForward`), the queue underneath is `JobQueue` (`QueueUnderneath`), in time every stage is done once (`ExactInTime`). Projections: no write of the owner's is lost between overlay and read (`NoWriteLost`), a replay leaves what the incremental step left, and what was retired has no row while no two replays overlap (both `RowsAgreeWithMemory`) |
| `evidence_live` | processing, both workers steady | 57k | `IntentIsAnswered`: an intent is processed or dead-lettered |
| `evidence_hung` | processing, one worker may hang | violation | see [findings](#where-code-and-documents-disagree) |
| `converted` | projections, obligations | violation | see findings |
| `belief` | governor: 2 sessions, 6 change sets over 3 propositions and a claim. Lineage: 5 frames, 4 slots, 2 values, 2 claims, 1 canonicalization. Answering: 4 beliefs (two told by the owner, one of them for another purpose; one drawn from the first, or from the other with its own echo), 1 question with 2 attempts, 2 changes, 1 erasure | 840k | applied once, one receipt, never reopened (`AppliedOnce`, `AnswersAgree`, `SettledForGood`); without overlap acyclic support, one accepted value, derivations that follow (`GraphSoundAlone`). Lineage: the three ways of reading an old identifier agree and lead to something live; without overlap a live frame is one location with one accepted value (both `LineageSound`). Answering: an answer says what its packet supplied, that is what has a complete readable proof, and nothing withdrawn or erased before its recording began (`AnswersStandOnWhatMayBeSaid`); a change lists every earlier answer that was supplied the belief, and none that saw it (`ChangesListEarlierAnswers`) |
| `belief_cycle` | governor | violation | see findings |
| `left_behind` | lineage, 1 canonicalization at a time | violation | see findings |
| `background` | connector: 2 sessions, 2 pages, 2 pages a sync. Initiative: 2 workers, 1 watch, 2 states, 2 days of 2 ticks, 2 disturbances | 4.6M | no message is lost behind the cursor or stored twice (`MailboxCovered`); a disconnect is final (`DisconnectedForGood`) and follows the provider's revocation (`RevokedBeforeRecorded`); without overlap status, grants and the failure shown agree (`ConsistentAlone`). Initiative: one question per situation (`AskedOnce`), its scope always, and the day's budget while it and the inbox do not count at once (`BudgetApart`) |
| `owner_data` | overlay: 2 sessions, 3 requests, 2 values, pages of 1, 4 transactions. Erasure: 2 items, 3 propositions, 2 claims, 2 computations, 2 extras. Intake: 3 requests, 2 keys, 2 contents, 1 failure. Actions: 3 calls, 2 keys. Inbox: 2 requests under way and 4 in all, 2 questions, 3 cards, 3 days, budget 1, window 2 | 1.7M | overlay: numbers are the order of the commits (`SequenceIsCommitOrder`), a device that reads on misses nothing (`ReadingOnMissesNothing`), a commit that overlaps no write contests what it contradicts (`ContestsAlone`). Erasure: a deletion takes what no longer stands, nothing that does, and whatever quotes it, in any order of its items (`DeletionTakesWhatFell`). Intake: `StoredOnceUnderOneKey`. Actions: `DraftsTellOneStory`, `AnswersStand`. Inbox: without overlap nobody is asked twice with nothing new (`AskedSparinglyAlone`); rules rest on fresh answers of the owner, answer only while in effect, and what a card says was proposed (`AnswersAreTheOwners`) |
| `bytes` | erasure | violation | see findings |
| `initiative_live` | 1 worker, 2 watches | 506k | `EverySituationAnswered` |

Why the bounds are enough. Two of each actor suffice for a race; a third adds a second copy of one
of them. Two attempts give a job a first, a last, and a reclaim in between; one manual retry, of one
job, gives a stale handler from before the retry. One source is enough in the pipeline because
nothing in it relates two sources but the queue, which has its own run with two jobs. The change
sets of the governor are chosen so that each rule can be broken: two values of one slot, a cycle of
support through a third proposition that needs two change sets, a derivation from a proposition and
a claim, both taken back by different change sets, and one that policy bars. Five frames allow a
split, a merge of a part, and a second split, or a chain of merges behind a split; four slots a
collision in each. Two pages let a sync fail between them, a cursor wrap, and a backfill overtake a
resumed sync. Four transactions in the overlay allow two writes that cross, then a commit that
contests, then a repeated request. Three propositions allow a cycle of derivations that something
outside grounds or not; two items a deletion of several, and one behind another; `MaxExtras` bounds
edges, rejections and faults together, since each needs room only beside one of the others. Three
intake requests allow a first, a retry and a stranger with the same content. Three acts in a
projection allow a statement and an owner's word to be followed by a contest, a merge or a split,
with one replay before and one after. In the inbox four requests are two answers, a reading and one
more reading that applies the rule; a question may get one more piece of evidence. In `Initiative`
the bounds on disturbances (`MaxMoves`, none after the tick `Quiet`) are named constants. A budget of
one makes every second question one too many. Bounds are reached: each of the mistakes listed in
`PROJECT.json` is found by its run within them.

Deadlock is checked, except in `belief`, `left_behind`, `owner_data`, `bytes` and `initiative_live`, where frames, clocks
or requests are bounded and a behaviour ends when they are used up. In `evidence` and `background`
the subjects that end have a step that stands still, so that deadlock is still checked for processing
and the connector.

## History variables: what a property leaves out, and why

Some properties hold only while certain things do not coincide. The MC modules add a variable that
remembers whether they have, never one that keeps them from happening, so the same run explores both.

* `subject` is not history: it says which model a behaviour is about (see above).
* `alone` (`belief`, `background`, `owner_data`): no session has begun while another was at work. The
  properties named `...Alone` say what the code achieves by looking before it writes: it looks at
  what is committed. With overlap each of them fails, because the check and the write are
  in different transactions, or the check reads rows that nothing locks. The governor's failure
  contradicts a text of the repository and is a finding; the others are listed below
  the findings. For the lineage it says that no merge or split came between the statements of a
  canonicalization, for the inbox that no two requests overlapped.
* `inTime` (`evidence`): no two replays of the projection overlapped. What was retired has a row only
  where they did.
* `orphan` (`EvidenceProcessing`): whether a COMMIT of the source has outlived its process. The advisory lock is on a
  connection of its own, and PostgreSQL may release it before it has carried out a COMMIT that the same
  process sent on another connection. A second handler then starts beside that COMMIT. What a unique key or
  a status under a row lock protects still holds (`KeyedAndComplete`, `LedgerForward`); what only the
  advisory lock protects does not: canonicalization and projection may run twice, and the count of
  unresolved claims be added twice. `ExactInTime` is about the sources whose `orphan` is "none".
* For the initiative `alone` says that the inbox has not counted questions while an evaluation stood
  between its count and its receipt, or the other way round. The two count the same rows in
  transactions that do not exclude each other; ADR 0039 and `docs/processing-runtime.md:25` say so.

## Fairness

Liveness is claimed only for workers in `Steady`, whose handlers come to an end or whose process is
restarted.

* Queue: a lease that is live runs out in the end (the wall clock). A session does not stay inside a
  transaction for ever: it ends, or its connection does. A steady worker goes on polling
  (`processing-worker.ts:27-31`), so it retires and takes again and again: strong fairness, since a
  lock of another session may interrupt its turn repeatedly. A claim of a given job that comes up
  for COMMIT again and again is committed: a worker does not lose its connection at exactly that
  point every time.
* Evidence: the same, over the composed steps; the steady workers between them dispatch, claim and
  get the advisory lock when it becomes free again and again; a handler that is not waiting for the
  lock goes on, and a sent COMMIT lands. Nothing ends a wait for the lock but the lock: there is no
  timeout in the code.
* Initiative: time passes, a processing that led to a governed change is recorded as completed, the
  worker goes on. Lost attempts, changed settings and snoozes need no fairness; they are bounded and
  end at `Quiet`, before the last daily run. A situation is claimed to be answered only if it lasts
  from some time on, with the watch and the initiative enabled.

## Proofs

Eight modules hold some 18100 obligations, all of them proved by TLAPS. They assume the named ASSUMEs of the
modules they are about and nothing else, but for one hypothesis that `AskedSparingly` states: identifiers are numbers where rows are ordered by them, NULL
names neither a worker nor a row, a budget is positive, or not negative, where the code's column is, a constant has the
type its name says. No set of actors, jobs, requests, keys or contents is assumed finite; only the
watches of the initiative, the beliefs of an answer, the propositions of a deletion, the questions of
the inbox and the slots and values of a lineage are, since an evaluation goes through all the watches, a
read of authority and a cascade end when a round finds nothing new among the beliefs, an evaluation of the
inbox gives each question that has no card one of the next numbers, and the rows that merged propositions
leave are followed to their end. The frames of a lineage may be infinitely many; its rows are finite by
the invariant. `Erasure` is reached by INSTANCE, so that its assumptions are
hypotheses of `DeletionIsRight`, and `MCOwnerData` states them of the instance.
Every argument has the shape Init ⇒ IInv, IInv ∧ [Next] ⇒ IInv', IInv ⇒ property, with one lemma per action; TLC has checked
each IInv on the instance of its run.

| module | theorems | what makes it inductive |
|---|---|---|
| `JobQueueProofs` | `TypeCorrect`, `ChecksNeverFire`, `LocksExclusive`, `LeaseFences`, `HandlersApart`, `BuriedSpent`, `SettledForGood`, `QueueKeepsPromise` | what an open transaction has read still holds of the rows it has locked |
| `EvidenceProcessingProofs` | `ProcessingInvariant`, `KeyedToTheEnd`, `LedgerGoesForward`, `QueueIsUnderneath`, `ExactWhileInTime` | what a handler at a step, and a COMMIT under way, know of the row |
| | `EvidenceTypes`, `EveryWriteIsRead`, `ReplaysAgree` | the invariants of the four subjects of `MCEvidence`, side by side |
| `ProjectionsProofs` | `ReducersKeepTheirWord`, `RetiredAreGone` | how far an undisturbed replay has come |
| `BeliefGovernorProofs` | `GovernorTypes`, `OnceApplied`, `OneAnswer`, `NeverReopened` | an open application has its row to itself |
| | `SoundWithoutOverlap` | what the one session at work has validated still holds of the graph |
| | `BeliefTypes` | a retired frame has its rows, a merged one exactly one |
| | `LineageIsSound` | rows lead out of every set of frames; a live slot's row leads to what its fingerprint names |
| | `ProofsAreLeast`, `AnsweringInvariant`, `AnsweringTypes`, `AnswersHold`, `EarlierAnswersListed` | a proof rests on what it cites; a packet saw no version that is still to come |
| `BackgroundProofs` | `ConnectorInvariant`, `ConnectorTypes`, `NothingLostOrDoubled`, `RevocationFirst`, `DisconnectIsFinal` | what a sync has read is stored, given up, or about to be |
| | `InitiativeInvariant`, `InitiativeTypes`, `SituationAskedOnce`, `ScopeKept` | what was weighed under the lock is still true when it is written |
| | `ConsistentWithoutOverlap`, `BudgetKeptApart`, `BackgroundTypes` | what the one session at work has loaded is still in the row; what was counted still counts |
| `OwnerDataProofs` | `ActionInvariant`, `OneStory`, `AnswersKept` | what a call carries between its transactions |
| | `IntakeInvariant`, `StoredOnce` | whose a row and a receipt are, at each statement of a request |
| | `InboxInvariant`, `OnlyTheOwnerAnswers` | what an answer carries was the owner's or a rule's in effect |
| | `AskedSparingly` | what a request has read is still so; a card is settled only where memory decides all it shows |
| | `OverlayInvariant`, `OverlayTypes`, `NothingMissed`, `NumbersInCommitOrder` | the numbers are 1..sequence; one transaction holds the next |
| | `EveryConflictContested` | whoever has scanned has scanned everything that is there |
| | `OwnerDataTypes`, `DeletionTakes` | the invariants of the five subjects of `MCOwnerData`, side by side |
| `ErasureProofs` | `DeletionIsRight` | what a deletion has taken has with it everything the foreign keys tie to it |

**The queue.** The safety properties are not inductive. The reason is the gap between a statement
and its COMMIT: what a claim is about to write is justified by what its UPDATE read. `JobQueue!IInv`
adds what carries the justification across the gap:

* `RowLocksExclusive`: no row is locked by two open transactions;
* `TurnsKnow`: what each place of a worker implies — the rows it is about to bury are still stranded,
  the row it is about to take is still runnable, whoever owns a row has the number of its latest
  claim, and whoever has reported still owns it;
* `TableChecks`: the four CHECK constraints;
* `ClaimsAccounted`: claims = manual retries × budget + attempts of the current budget.

A step touches one row, or the rows one transaction has locked; `QuietStep`, `RowStep` and
`CommitStep` say what that leaves alone. `CommitClaim` is the hard one: it moves many rows, and a
worker on another row must not be disturbed. `QueueKeepsPromise` is the refinement: every step, seen
row by row, is a task step or leaves the task alone; `IInv` is what excludes a claim of a spent job or
an outcome of a lost one.

**Processing.** `PInv` stands on the queue's `IInv`, which holds because every composed step is a step
of `JobQueue` or leaves it alone (`Underneath`; that is `QueueIsUnderneath`, the refinement). What it
adds is what each handler may rely on (`HandsKnow`): at a step of a stage the row either is as the
stage begins (`Begins`) or, if a COMMIT of the stage was on its way when its process died, one stage
ahead (`Overtaken`). `OrphansKnow` says the same of the COMMIT, `LockHeld` that a working handler has the
lock of its source, `Keyed` what the unique key of a run and a settled belief transaction remember.
`LedgerForward` follows from each step's lemma over the outcomes of its stage. Exactness is a second
invariant on top, `EInv`: while nothing has come late the handler is at `Begins`, and what is open is
what extraction left. `InFlight` is arbitrary, so the theorems hold with late COMMITs and without.

**The governor.** `IInv` is the types, `OpenApplications` (a change set being applied by one session
is not settled and not being applied by another: the row lock, and the status read under it),
`AppliedOnce` and `AnswersStored` (what was answered is what is stored), for any change sets, sessions,
propositions and graphs. `SoundWithoutOverlap` adds what `alone` gives (`ValidatedHere`): at most one
session is at work, so the graph it validated against is the graph it writes to. Then one commit keeps
the three parts of the property together (`CommitSound`): no cycle, because the new edges were looked at
with all the stored ones; one accepted value in a slot, because a conflict makes a change set
uncommittable; and a derivation whose inputs are all gone is moved, because the one SELECT reads the
verdicts that the same transaction has just written. The proof showed what the property had to leave out:
values accepted by one and the same change set are not compared with one another, and a derivation
whose input is itself derived is not moved in the same commit.

**Merges and splits.** `BeliefTypes` joins the types of the governor, of the answers and of the lineage.
Of the lineage it says more than types: a frame is retired exactly if it has rows to what it became, and
a merged one has just one (the unique index and the trigger of migration 0020), because `Mergeable` and
the split look at the frames under their locks. That every identifier chosen is one of those there are
rests on a least number (`LeastIsFirst`).

`LineageIsSound` has a part that always holds and a part for when nothing came in between. The first needs that
rows lead somewhere: `LineageWell` says that there are finitely many, that each leads from a frame retired
that way to one that is there, and that every set of frames has one with no row back into the set, so that
no chain goes in a circle. It is kept because a merge and a split add rows only from a frame that was live,
which none led out of, to live ones. Then the three queries can be compared (`QueriesAgree`): each
follows rows as often as there are rows, and a chain without repetition is no longer than that, so each
has come to its end (`Last`, which no merge has left, `ChainsEnd`).

The second part is an invariant of its own, `LineageAlone`. `Located`: the row of a live slot leads to the frame
that its fingerprint names, no two live slots have the same, and one of its values is accepted at most.
`Placed`: what a claim speaks for has got to a live value of a live frame, or was merged away
after a split gave it. `WriterAlone`: whoever canonicalizes is the only one, matched a frame that is still
live, and has found the one slot there is. Without the last, a claim written after a merge would be given a slot
of a retired frame; this is what a merge between the statements does, and why the property is about `alone`. A
merge is the hard case: its values move into the slot that is kept and the ends of the chains that led to
the merged frame move with them (`MergeChains`), so a claim that spoke for one of them has to be followed one row
further (`FollowsOn`); where two slots' values compete none stays accepted (`MergedAre`). A split moves no
chain's end, opens at most one slot in each of its two frames, and gives each assigned claim the verdict of
the slot it spoke for (`SplitLeavesIt`); a claim nobody assigned is contested, which is the only way for
one to lose its place.

**The connector.** `MailboxCovered` says that everything up to the cursor is stored once or was given
up. A sync moves the cursor pages after it has read them, so `SessionKnows` says of an open sync that
everything up to *its* cursor is stored, given up, or in what it is about to insert (`Accounted`), that
its inserts are new, and that the provider has revoked what it is about to record as revoked.
`SessionsApart` is the two locks (the connectors row, the idempotency keys): without it two syncs could
both insert a message. `SecretKept` ties the credential to the token, and gives `RevocationFirst`.
`ConsistentWithoutOverlap` is about `alone`: what the one session at work has loaded (status, grants, the
grants it is about to write) is still in the row (`AloneKnows`), so that what it writes agrees with them.

**The overlay.** `SequenceHeld`: the row lock of the owner's sequence gives one open transaction the
next number. Hence the numbers are exactly 1..sequence, each once, and commit in that order
(`NumbersInCommitOrder`). A device reads a page in order of the numbers; that the page is a prefix of
what comes after the watermark (`PageIsPrefix`, by a least element of the intervals) is why reading on
from the last one misses nothing, whatever the page size. `EveryConflictContested`, without overlap: the
claims are older than any write at work, and a commit that has scanned has found every pending delta
that it contradicts, since no other session can add one before it commits.

**The initiative.** `AskedOnce` and `WithinScope` both rest on a check made one transaction before the
write it justifies. `LockExclusive` is the advisory lock; `JudgedUnderLock` says that what was weighed
has no receipt yet and that the scope still has room if it is to be asked, which the lock keeps true
since only its holder writes receipts. The types need `MovesCounted`, the bound on the disturbances, and
a least element for the oldest watch and the next run (`LeastOf`, `NextRunComes`). `BudgetKeptApart` is
the day's budget, which no lock protects: as long as the inbox has not counted while an evaluation stood
between its count and its receipt, there is still room for what was counted (`BudgetHeld`), so that the
receipt or card that follows does not go over it.

**Actions.** The triggers judge the row as it is by then; the invariant has to say only what a call may
carry to them (`CallKnows`): which answer a call has admitted, that a blocked recommendation is at most
dismissed, and that a draft's creator has ended. Histories are sequences; `Entries` says what appending
to one leaves alone.

**The intake.** A row is its request's to commit. `RowFits` and `ReceiptFits` follow a request statement by
statement: which row it has run into, whose that is, whether its receipt is the first of its key.
`KeysApart` is the advisory lock, `OneEach` the unique index together with the wait of an insert for an
uncommitted row, and `BytesThere` that the object comes before the row. `Commit` is the hard case: it makes
visible what others have waited for.

**The inbox.** A request carries what it has read from one transaction to the next: a card and those
it answers, up to where the owner's word reaches, the rule that gives the answer, the proposal. `VisitKnows`
says that each of these is warranted by what is stored now; it survives the others' steps because what it
rests on only grows (`Grown`): evidence and proposals are added, a card keeps its question, a rule once
approved stays approved and is revoked at most now, later than any request that found it in effect.
`RulesFit` says that of the cards a rule rests on, each was answered by the owner in the window.
Together they give `OnlyTheOwnerAnswers`.

`AskedSparingly` is about requests that do not overlap (`AskedInv`). Then what the one request has read
is still so when it writes (`VisitsSee`), and of what was asked before, `AsksStand` says that its card
was asked then or later and knows that it has shown that much. A question is asked again on the same
card or on another. On the same card `Withheld` has looked at both. On another, the card before it is
settled, and `CardsSettle` says that memory then decides all it has shown: so whatever is still open is
new. That is where the hypothesis is needed, that every reading may show every question
(`Eyes` has the set of all of them and no other): a reading that may see less clears the card of a
question it cannot see although nothing decides it, and the next reading puts it on a new one. For the
day's budget, the cards put on screen are ranked by value, so the last of them has room for all
(`FewPutOn`).

**Deletions.** Most of it is about the operators. Rounds that only add to a subset of a finite set have
settled after as many of them as the set has elements (`RoundsSettle`). So `Grounded` is the least set
that holds what live claims state and what that grounds (`GroundedIsLeast`), and what falls is the least
set from which nothing more is pulled that is not grounded (`FallenIsLeast`). That meets the
specification without rounds from both sides: what still stands was grounded and stays, and what lost
something and is left was grounded (`CascadeIsRight`). Of two deletions, what the first kept standing
and the second does not falls with the second (`GroundedTwice`), and both orders ground the same
(`GroundedAlike`); so what two deletions take together is all that either would pull (`BothTake`) and
no more than the other order takes (`GoneAlike`), whence `EitherOrder`. The invariant is then short:
memory, and what the open deletion has read of it, is `Formed` (no claim, edge or output without its
proposition), the deletion has taken what its cascade takes, and what it has taken has with it every row
that the foreign keys tie to it (`Taken`), so that the writes that meanwhile wait for it leave nothing
behind. `Deletion` is this module at the instance of `MCOwnerData`.

**The projections.** `ProjectionsProofs` proves one reducer for all three: the projection is a constant.
`CleanOK` says how far a replay that nobody disturbed has come towards the rows that what is stated and
said amounts to (`Target`): the deltas read, the rows made, the rows written, the rows pruned. That gives
`ReducersKeepTheirWord`: a delta that a row has folded in is not lost from it, the latest stating one is what is
shown, and an undisturbed replay leaves what the incremental step left. `RetiredGone` gives `RetiredAreGone`: while no two replays
overlap, no open replay has made a row of a frame that was retired, so none comes back. `MCEvidence`
instantiates this module once for each reducer, so `EveryWriteIsRead` and `ReplaysAgree` are the
theorems about its runs, with `inTime` as the history of overlap. The one assumption is that the value
that stands for no row is not the mark of an untouched one.

**The answers.** First about the operators: `ProofsAreLeast`. A round keeps what was proved and adds what
a complete computation reaches (`RoundAdds`), so each partial result is `Sound`; until a round rests it
adds a belief, and there are finitely many, so as many rounds as there are beliefs are enough
(`RoundsSuffice`). The argument goes from round to round by a least counterexample among 0..N (`AllRounds`),
which needs no induction theorem. Then `AnswerInv`. `PacketSound` is what a packet keeps while it travels:
as long as what it cites is there, so is what it supplies. That survives a deletion because a proof is
`Rooted`: a set that has the cited beliefs of their own and is closed under the computations has all of it,
so what a deletion leaves readable has it too (`CitedStays`); a deletion takes everything an earlier one
took (`WhatFalls`). That is why `Accessible` may look at the evidence cited and the owner's removals only. For
`EarlierAnswersListed`: an open change has every answer recorded before it among the earlier ones
(`ChangesFind`), and the version it commits is newer than any that a packet saw.

**Only model-checked.** Liveness needs ENABLED and fairness, which TLAPS does not reach, so the liveness
properties (`EverySteadyJobSettles`, `IntentIsAnswered`, `EverySituationAnswered`) have no theorem. Every
safety property that a passing run checks has one. `AskedSparinglyAlone` is proved under a hypothesis (above) that the run's
constants satisfy; where readings see different sets of questions it does not hold, and no run has such a reading.

The library's induction theorems take operators as parameters, which the installed provers cannot
instantiate; where a proof goes from round to round it does so by a least counterexample (`AllRounds`). No module has a
RECURSIVE operator: a cycle is defined as a set of propositions each of which rests on another of the set.

## Where code and documents disagree

Each has a run in which TLC finds the disagreement.

1. **A stopped worker can strand a job** (`evidence_hung`, `EverySteadyJobSettles`).
   `docs/adr/0012-durable-job-queue.md:31-33`: "so a worker that stops mid-job strands nothing: the
   next worker reclaims the job when the lease expires". A worker that stops without dying keeps the
   session advisory lock of its source; the next worker reclaims the job and waits for that lock
   (`processing-runtime.ts:65`) without a timeout, on the job's last attempt, and nobody is left to
   bury it.
2. **A cycle of support can be committed** (`belief_cycle`, `SupportAcyclic`).
   `packages/belief/src/support.ts:82-84` and `migrations/0012_belief_governor.sql:131-132` say that a
   cycle is found before its edges are written. The first transaction of a commit looks, the second
   writes and does not look again (`transactions.ts:889`): two change sets, each acyclic with what
   is stored, close a cycle between them.
3. **A failed deletion can leave a row without its bytes** (`bytes`, `EveryLiveRowHasItsBytes`).
   `packages/api/src/control.ts:457-458`: "a storage failure rolls the erasure back instead of leaving
   a row that promises gone bytes". The objects are deleted one by one inside the transaction
   (line 459). When the second call fails, or the COMMIT is lost, every row comes back and the
   objects already deleted do not.
4. **A claim can be left behind by a split** (`left_behind`, `NoClaimLeftBehindAlone`).
   `packages/belief/src/lineage.ts:239-241` names the claims that speak for the parent, ADR 0025 (90-93)
   says that each is reassigned or contested. The query follows MERGED_INTO from the proposition a
   claim was recorded against, not from one an earlier split assigned it to (line 255): split, merge
   the part with the claim into a frame with the same value, split that one, and the claim is
   uncontested and speaks for nothing live.
5. **An amount is taken off in another currency** (`converted`, `NothingConverted`).
   `packages/capabilities/src/projections.ts:157`: "No conversion, ever". A row without a principal
   keeps no currency although its total was summed in the first allocation's; the read
   (line 942) takes that total off whatever amount the owner has said since.

Seen while modelling, in the models' behaviours, without a run of their own:

* Pipeline: a belief transaction that was REJECTED makes every retry fail the same way
  (`processing-runtime.ts:131`); a job may be DEAD_LETTER although its ledger is final; a failure to
  unlock turns a success into a failed job.
* Governor: a change set that itself accepts two values of one slot is not refused, since each is compared
  with what is stored; a derivation of a derivation is not moved to UNSUPPORTED in the commit that takes its
  input (`assessments.ts:180-194`; compare `docs/belief-governor.md:60`).
* Connector: a page inserted before a disconnect becomes evidence after it, since the trigger of
  `migrations/0018_connector_capabilities_and_lifecycle.sql:150` reads the committed status and locks
  nothing (compare lines 14-16); a grant whose transaction is open during a disconnect survives it
  (`grants.ts:338`), and two requests that revoke the last two leave the connector active; a sync that
  moves the cursor clears the reason another sync has just recorded (`sync.ts:232`); a disconnect
  clears the cursor (`grants.ts:343`; compare `docs/operations/connector-revocation.md:17-18`).
* Overlay: a worker's commit never contests a delta, since it creates no claims
  (`transactions.ts:918`; compare `delta-conflicts.ts:7-8`); a delta whose transaction is open during
  the scan is missed (`delta-conflicts.ts:177`); a correction control is three transactions
  (`corrections.ts:205, 240-260, 262`; the comment at 192-194 says one), so that a crash leaves a
  delta nothing was proposed for; the same key sent twice writes two deltas.
* Erasure: an anchor, a claim or a computation may be written beside a deletion and stay under the
  tombstone until a later deletion takes it (`evidence.ts:325`, `transactions.ts:745`); the next one
  does (`DeletionTakesWhatFell` starts from such states too).
* Actions: a receipt repeated under one key appends a second fact (`control.ts:384`).
* Lineage: two canonicalizations that both find no slot both create one. Fingerprints are not unique
  across slots, on purpose (`migrations/0010_canonical_identity.sql:12-14`): the index of line 108 is
  one live fingerprint per slot. A claim written to a slot that was merged away gets a
  proposition of its own in it, which no split finds.
* Projections: an older replay that overlaps a newer one overwrites its rows until the next replay,
  and an insert of the first replay of all that is not committed yet survives a rebuild beside it, so that a
  retired frame has a row (`projections.ts:594`); a row's overlay watermark is read a statement after
  the deltas it folded; an outcome shown from the owner's earlier word counts as governed
  (`foldOverRow`), so that a later word is neither shown nor pending; due and overdue are not recomputed
  at the read although the comment at `ProjectionReadFilters.asOf` says so; a delta that names a claim,
  slot or proposition is reported as attached to nothing, one about a frame without a row not at all;
  the resolutions and allocations of a frame that is split count for neither half; a crash between the merge's commit and its
  rebuild leaves the old row until the request is repeated.
* Answering: an answer whose packet was read before a change committed, and whose manifest comes after
  the change's statement or whose transaction began after the change's did, is never listed for it, although it did not see
  the new state (compare `packages/context/src/manifests.ts:283-291`).
* Inbox: an answer "keep value 1" to a conflict decides one position where `collectAmbiguities`
  wants all decided, so that the question is put again (`ambiguities.ts:124`); a reading that may see
  less clears the cards of what it does not see, and the next full reading asks again; a packet read
  before an answer and evaluated after it asks the settled question again; a crash between the
  deltas of an answer and its proposal leaves a question that is no longer one, so that the card is cleared
  and nothing is ever proposed (compare `inbox.ts:259-260`); of two answers at once neither
  counts the other for a rule; a card's choices are refreshed under the owner's screen while their
  identifiers stay.
* Initiative: a receipt may be committed just after the initiative was disabled, since the last
  transaction reads the settings again without a lock (`initiative-runtime.ts:96-97` says as much).

## Hazards without a property

`PROJECT.json` lists the hazards with the properties that cover them. Two have none: two commits that
each take one input of a derivation (write skew; the governor's model has it, the property about
derivations is checked without overlap), and a page inserted before a disconnect and committed after
it (the connector's model has it).

## What is not modelled

Within modelled components: payloads, metric readers and the heartbeat's interval of the queue; what a
model run says; the admission matrix, QUALIFY, context moves and the embedding index of the governor;
the page formats of other providers, the document upload and `markTokenRevoked`, which no route
calls; `attachOverlayDelta` and the withdrawn and superseded lifecycles, which no route reaches, and
the filters of a read; the creation of watches and time zones of the initiative; the export, retention
and cache expiry of data control, and the refusal of external actions, which is one constant answer;
anchors and triage of the intake; frames with several predicates or contexts, entities with their
aliases, the instance matcher's scores and `recomputeCanonicalFingerprints`, which only tests call;
due times, flags of a clock, roles, provenance lists and shadow reads of the projections, the sweep of
elapsed schedules and the transitions between registry outcomes; cards about two conflicting values,
expected value, sensitivity caps and the weekly review of the inbox, where the retries of one key are not
told apart; retrieval, ranking, freshness, wording and threads of an answer.

Components without a module are listed above with the reason; those that only render, compose prose,
rank rows or call an external service have no protocol to check.

## Plan

Done, in this order: `JobQueue` with `AtLeastOnce` (safety, liveness, refinement, proofs);
`EvidenceProcessing` on top of it; `BeliefGovernor` and its proofs; `ConnectorSync`; `OwnerOverlay`;
`Initiative`; `Erasure`; `EvidenceIntake`; `GovernedActions`; `Lineage`; `Projections`; `Inbox`;
`Answering`; then the proofs about `ConnectorSync`, `OwnerOverlay`, `GovernedActions`, `EvidenceIntake`,
`EvidenceProcessing`, `Initiative`, `Answering`, `Inbox` and `Projections`, then those about the history
variables (`...Alone`, `BudgetApart`, `RowsAgreeWithMemory`), and those about `Erasure`, `Lineage` and what the
inbox asks.

To do:

1. Decisions and goals: the cached priority of a goal against its history. Entities: merges with their
   aliases and roles.
2. Bitemporal beliefs: the temporal queries against a reference definition.
