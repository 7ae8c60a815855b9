----------------------------- MODULE Initiative -----------------------------
(***************************************************************************)
(* The owner's initiative (packages/api/initiative-*.ts): workers look at  *)
(* the settings, queue one evaluation for each due time or change of the   *)
(* input, and an evaluation weighs every watch under the owner's advisory  *)
(* lock and leaves a receipt for what it found.  The budget of questions a *)
(* day is shared with the inbox (packages/review), which takes no lock.    *)
(*                                                                         *)
(* Queued evaluations are tasks of AtLeastOnce, the promise JobQueue is    *)
(* shown to keep: an attempt may be lost or overtaken, the last one buries *)
(* the task.  A transaction that reads and writes the same rows under a    *)
(* lock, or only reads, is one step.                                       *)
(*                                                                         *)
(* What memory says of a watch is one of States, or Gone: resolved, or its *)
(* source no longer readable.  The clock counts parts of a local day.      *)
(* Preparing a draft is left out.                                          *)
(***************************************************************************)
EXTENDS Integers, FiniteSetsExt

CONSTANTS Workers,
          Watches,      \* numbered by (created_at, id)
          States,       \* what the packet may say of a watch: a state digest
          Gone,
          Deadline,     \* when the scheduled item of a watch in a state is due
          Day,          \* ticks in a day
          RunAt,        \* the tick of the day that local_time names
          Cap, ScopeCap,\* the attention budget: cards a day, and of one scope
          Attempts,     \* maxAttempts of an evaluation
          Horizon,      \* bound: the last tick
          Quiet,        \* bound: the last tick at which the owner acts or an attempt is lost
          MaxMoves,     \* bound: acts of the owner, inbox readings and attempts lost
          Unset

ASSUME TimeAssumption ==
  /\ Day \in Nat \ {0} /\ RunAt \in 0..(Day - 1)
  /\ Horizon \in Nat /\ Quiet \in 0..Horizon
  /\ \A w \in Watches : Deadline[w] \in [States -> Nat]
ASSUME BudgetAssumption ==
  /\ {Cap, ScopeCap, MaxMoves} \subseteq Nat /\ Attempts \in Nat \ {0}
ASSUME NameAssumption ==
  /\ Watches \subseteq Nat /\ IsFiniteSet(Watches)
  /\ Gone \notin States /\ Unset \notin Workers \cup Nat

VARIABLES clock,
          memory,     \* what the packet says of each watch
          unmarked,   \* a governed change whose processing is not recorded as completed
          marker,     \* inputMarker: how often the owner's input has moved
          settings,   \* the row of initiative_settings
          watch,      \* the rows of initiative_watches
          jobs,       \* the evaluations queued, by idempotency key
          receipts,   \* initiative_receipts
          cards,      \* clarification cards asked, by local day
          worker, patch, inbox,
          moves       \* how many of MaxMoves have been made

initiativeVars == <<clock, memory, unmarked, marker, settings, watch, jobs, receipts, cards, worker, patch, inbox, moves>>

Ticks == 0..Horizon
Today(t) == t \div Day

Thresholds == {"UPCOMING", "IMMINENT", "OVERDUE"}
Times == 0..(Horizon + 2 * Day) \cup {Unset}
Settings == [enabled : BOOLEAN, revision : 1..(MaxMoves + 1), due : Times, marker : 0..MaxMoves]
Keys == [revision : 1..(MaxMoves + 1), due : Times, marker : 0..MaxMoves]
Jobs == [phase : {"open", "done", "dead"}, used : 0..Attempts, by : Workers \cup {Unset}]
Receipts == [watch : Watches, state : States, threshold : Thresholds, day : Nat, decision : {"ASK", "BATCH"}]

\* nextInitiativeRun: the first time local_time comes round after a tick.
NextRun(t) == Min({r \in (t + 1)..(t + Day) : r % Day = RunAt})

Threshold(w, state, now) ==
  CASE Deadline[w][state] <= now -> "OVERDUE"
    [] Deadline[w][state] \in (now + 1)..(now + Day) -> "IMMINENT"
    [] OTHER -> "UPCOMING"

\* initiativeSituation: whether there is something to say, in what memory says.
Situation(w, state, now) == state # Gone /\ Deadline[w][state] <= now + 2 * Day

\* When the situation next gets more pressing.
Pressing(w, state, now) ==
  {t \in {Deadline[w][state] - Day, Deadline[w][state]} : t > now}

Resting == [at |-> "idle", revision |-> 0, marker |-> 0, key |-> Unset, now |-> 0,
         seen |-> [w \in Watches |-> Gone], todo |-> {}, decision |-> "ASK"]

InitiativeInit ==
  /\ clock = 0
  /\ memory \in [Watches -> States] /\ unmarked = FALSE
  /\ marker = 0
  /\ settings = [enabled |-> TRUE, revision |-> 1, due |-> NextRun(0), marker |-> 0]
  /\ watch = [w \in Watches |-> [enabled |-> TRUE, until |-> 0]]
  /\ jobs = [k \in {} |-> Unset]
  /\ receipts = {}
  /\ cards = [d \in {Today(t) : t \in Ticks} |-> 0]
  /\ worker = [p \in Workers |-> Resting]
  /\ patch = [at |-> "idle", marker |-> 0, now |-> 0]
  /\ inbox = [at |-> "idle", day |-> 0, asks |-> 0]
  /\ moves = 0

\* What disturbs the system; the bound on it, and the quiet time at the end.
Move == clock <= Quiet /\ moves < MaxMoves /\ moves' = moves + 1

Put(p, record) == worker' = [worker EXCEPT ![p] = record]

-----------------------------------------------------------------------------
(* dispatch().                                                             *)

\* The settings, and then the marker under their source gate.
Look(p) ==
  /\ worker[p].at = "idle"
  /\ Put(p, IF settings.enabled
            THEN [Resting EXCEPT !.at = "looked", !.revision = settings.revision, !.marker = marker, !.now = clock]
            ELSE [Resting EXCEPT !.at = "turn"])
  /\ UNCHANGED <<clock, memory, unmarked, marker, settings, watch, jobs, receipts, cards, patch, inbox, moves>>

IsDue(now) == settings.due # Unset /\ settings.due <= now

\* The idempotency key: what woke the evaluation.
Key_WithoutDue(mine) == [revision |-> settings.revision, due |-> Unset, marker |-> mine.marker]
Key(mine) ==
  [revision |-> settings.revision, due |-> IF IsDue(mine.now) THEN settings.due ELSE Unset, marker |-> mine.marker]

\* The row is locked and read again before the evaluation is queued under the
\* revision, the due time and the marker, and the schedule moves on.
Enqueue(p) ==
  LET mine == worker[p]
  IN /\ mine.at = "looked"
     /\ Put(p, [Resting EXCEPT !.at = "turn"])
     /\ IF settings.enabled /\ settings.revision = mine.revision /\ (IsDue(mine.now) \/ settings.marker # mine.marker)
        THEN /\ jobs' = [k \in DOMAIN jobs \cup {Key(mine)} |->
                           IF k \in DOMAIN jobs THEN jobs[k] ELSE [phase |-> "open", used |-> 0, by |-> Unset]]
             /\ settings' = [settings EXCEPT !.due = NextRun(mine.now), !.marker = mine.marker]
        ELSE UNCHANGED <<jobs, settings>>
     /\ UNCHANGED <<clock, memory, unmarked, marker, watch, receipts, cards, patch, inbox, moves>>

-----------------------------------------------------------------------------
(* handle(): one attempt at an evaluation.                                 *)

Runnable(key) == jobs[key].phase = "open" /\ jobs[key].used < Attempts

\* An attempt overtakes another only when the lease of that one has run out.
Claim(p, key) ==
  /\ worker[p].at = "turn"
  /\ Runnable(key)
  /\ \/ jobs[key].by = Unset /\ UNCHANGED moves
     \/ jobs[key].by # Unset /\ Move
  /\ jobs' = [jobs EXCEPT ![key] = [phase |-> "open", used |-> jobs[key].used + 1, by |-> p]]
  /\ Put(p, [Resting EXCEPT !.at = "claimed", !.key = key])
  /\ UNCHANGED <<clock, memory, unmarked, marker, settings, watch, receipts, cards, patch, inbox>>

\* No evaluation to claim: the turn ends.
Pass(p) ==
  /\ worker[p].at = "turn"
  /\ \A key \in DOMAIN jobs : Runnable(key) => jobs[key].by # Unset
  /\ Put(p, Resting)
  /\ UNCHANGED <<clock, memory, unmarked, marker, settings, watch, jobs, receipts, cards, patch, inbox, moves>>

Locking == {"locked", "weighing", "weighed"}

LockFree_Always(p) == TRUE
LockFree(p) == \A q \in Workers \ {p} : worker[q].at \notin Locking

Lock(p) ==
  /\ worker[p].at = "claimed"
  /\ LockFree(p)
  /\ Put(p, [worker[p] EXCEPT !.at = "locked"])
  /\ UNCHANGED <<clock, memory, unmarked, marker, settings, watch, jobs, receipts, cards, patch, inbox, moves>>

\* Snoozed or disabled, a watch is not looked at.
Awake(w, now) == watch[w].enabled /\ watch[w].until <= now

\* The settings, the packet and the watches.  An evaluation queued before the
\* settings changed returns.
Read(p) ==
  LET seen == [w \in Watches |-> IF Awake(w, clock) THEN memory[w] ELSE Gone]
  IN /\ worker[p].at = "locked"
     /\ IF settings.enabled /\ settings.revision = worker[p].key.revision
        THEN Put(p, [worker[p] EXCEPT !.at = "weighing", !.now = clock, !.seen = seen,
                       !.todo = {w \in Watches : Situation(w, seen[w], clock)}])
        ELSE Put(p, [worker[p] EXCEPT !.at = "handled"])
     /\ UNCHANGED <<clock, memory, unmarked, marker, settings, watch, jobs, receipts, cards, patch, inbox, moves>>

\* A situation the owner was asked about on any day, or judged today, is over.
Existing_Today(w, state, threshold, day) ==
  \E r \in receipts : r.watch = w /\ r.state = state /\ r.threshold = threshold /\ r.day = day
Existing(w, state, threshold, day) ==
  \E r \in receipts : /\ r.watch = w /\ r.state = state /\ r.threshold = threshold
                      /\ r.decision = "ASK" \/ r.day = day

Asked(day) == Cardinality({r \in receipts : r.day = day /\ r.decision = "ASK"})

\* decideInterruption, for a question worth its cost and always with evidence.
Interrupt(day) == IF Asked(day) + cards[day] >= Cap \/ Asked(day) >= ScopeCap THEN "BATCH" ELSE "ASK"

\* The oldest watch left is passed over when it was answered, or when its source
\* is no longer readable.
PassOver(p) ==
  LET mine == worker[p]
      w == Min(mine.todo)
  IN /\ mine.at = "weighing" /\ mine.todo # {}
     /\ \/ Existing(w, mine.seen[w], Threshold(w, mine.seen[w], mine.now), Today(mine.now))
        \/ memory[w] = Gone
     /\ Put(p, [mine EXCEPT !.todo = @ \ {w}])
     /\ UNCHANGED <<clock, memory, unmarked, marker, settings, watch, jobs, receipts, cards, patch, inbox, moves>>

\* Else it is judged against today's counts, as it was when the packet was read.
Weigh(p) ==
  LET mine == worker[p]
      w == Min(mine.todo)
  IN /\ mine.at = "weighing" /\ mine.todo # {}
     /\ ~Existing(w, mine.seen[w], Threshold(w, mine.seen[w], mine.now), Today(mine.now))
     /\ Put(p, [mine EXCEPT !.at = "weighed", !.decision = Interrupt(Today(mine.now))])
     /\ UNCHANGED <<clock, memory, unmarked, marker, settings, watch, jobs, receipts, cards, patch, inbox, moves>>

\* What the transaction that writes the receipt reads again, without a lock.
Permitted(p, w) ==
  /\ settings.enabled /\ settings.revision = worker[p].key.revision
  /\ Awake(w, worker[p].now)

Receipt(p, w) ==
  LET mine == worker[p]
  IN [watch |-> w, state |-> mine.seen[w], threshold |-> Threshold(w, mine.seen[w], mine.now),
      day |-> Today(mine.now), decision |-> mine.decision]

\* The receipt that the unique key refuses ends the attempt; see Lose.
Taken(r) == \E s \in receipts : [s EXCEPT !.decision = r.decision] = r

Admit(p) ==
  LET mine == worker[p]
      w == Min(mine.todo)
  IN /\ mine.at = "weighed"
     /\ ~Taken(Receipt(p, w))
     /\ receipts' = IF Permitted(p, w) THEN receipts \cup {Receipt(p, w)} ELSE receipts
     /\ Put(p, [mine EXCEPT !.at = "weighing", !.todo = @ \ {w}, !.decision = Resting.decision])
     /\ UNCHANGED <<clock, memory, unmarked, marker, settings, watch, jobs, cards, patch, inbox, moves>>

\* The schedule is brought forward to the next threshold any situation will
\* cross, if the settings are still those of the evaluation.
Sooner(p, t) ==
  IF settings.enabled /\ settings.revision = worker[p].key.revision THEN Min({settings.due, t}) ELSE settings.due

Finish(p) ==
  LET mine == worker[p]
      ahead == UNION {Pressing(w, mine.seen[w], mine.now) :
                        w \in {v \in Watches : Situation(v, mine.seen[v], mine.now)}}
  IN /\ mine.at = "weighing" /\ mine.todo = {}
     /\ settings' = IF ahead = {} THEN settings ELSE [settings EXCEPT !.due = Sooner(p, Min(ahead))]
     /\ Put(p, [Resting EXCEPT !.at = "handled", !.key = mine.key])
     /\ UNCHANGED <<clock, memory, unmarked, marker, watch, jobs, receipts, cards, patch, inbox, moves>>

\* Only the latest attempt settles the task.
Report(p) ==
  LET key == worker[p].key
  IN /\ worker[p].at = "handled"
     /\ jobs' = IF jobs[key].by = p THEN [jobs EXCEPT ![key].phase = "done", ![key].by = Unset] ELSE jobs
     /\ Put(p, Resting)
     /\ UNCHANGED <<clock, memory, unmarked, marker, settings, watch, receipts, cards, patch, inbox, moves>>

\* An attempt throws, or its process is gone: the connection that holds the lock
\* closes, and the task is open for another attempt unless that was the last.
Lose(p) ==
  LET key == worker[p].key
      last == jobs[key].used = Attempts
  IN /\ worker[p].at \in {"claimed", "handled"} \cup Locking
     /\ \/ worker[p].at = "weighed" /\ Taken(Receipt(p, Min(worker[p].todo))) /\ UNCHANGED moves
        \/ Move
     /\ jobs' = IF jobs[key].by = p
                THEN [jobs EXCEPT ![key].phase = IF last THEN "dead" ELSE "open", ![key].by = Unset]
                ELSE jobs
     /\ Put(p, Resting)
     /\ UNCHANGED <<clock, memory, unmarked, marker, settings, watch, receipts, cards, patch, inbox>>

-----------------------------------------------------------------------------
(* The owner, memory and the inbox.                                        *)

Tick ==
  /\ clock < Horizon
  /\ clock' = clock + 1
  /\ UNCHANGED <<memory, unmarked, marker, settings, watch, jobs, receipts, cards, worker, patch, inbox, moves>>

\* A governed commit changes what memory says of a watch before the processing
\* that led to it is recorded as completed, which is what the marker counts.
Govern(w, state) ==
  /\ Move /\ ~unmarked
  /\ memory[w] # state
  /\ memory' = [memory EXCEPT ![w] = state]
  /\ unmarked' = TRUE
  /\ UNCHANGED <<clock, marker, settings, watch, jobs, receipts, cards, worker, patch, inbox>>

Complete ==
  /\ unmarked
  /\ unmarked' = FALSE /\ marker' = marker + 1
  /\ UNCHANGED <<clock, memory, settings, watch, jobs, receipts, cards, worker, patch, inbox, moves>>

\* PATCH /v1/settings/initiative reads the marker in a transaction of its own.
BeginPatch ==
  /\ Move /\ patch.at = "idle"
  /\ patch' = [at |-> "read", marker |-> marker, now |-> clock]
  /\ UNCHANGED <<clock, memory, unmarked, marker, settings, watch, jobs, receipts, cards, worker, inbox>>

WritePatch(enabled) ==
  /\ clock <= Quiet /\ patch.at = "read"
  /\ settings' = [enabled |-> enabled, revision |-> settings.revision + 1,
                  due |-> IF enabled THEN NextRun(patch.now) ELSE Unset, marker |-> patch.marker]
  /\ patch' = [at |-> "idle", marker |-> 0, now |-> 0]
  /\ UNCHANGED <<clock, memory, unmarked, marker, watch, jobs, receipts, cards, worker, inbox, moves>>

\* PATCH /v1/initiative/watches/:id.
PatchWatch(w, enabled, until) ==
  /\ Move
  /\ watch' = [watch EXCEPT ![w] = [enabled |-> enabled, until |-> until]]
  /\ watch' # watch
  /\ UNCHANGED <<clock, memory, unmarked, marker, settings, jobs, receipts, cards, worker, patch, inbox>>

\* evaluateInbox: a transaction counts what was asked today and asks one card
\* more, if the budget has room.
CountInbox ==
  /\ Move /\ inbox.at = "idle"
  /\ inbox' = [at |-> "counted", day |-> Today(clock),
               asks |-> IF Asked(Today(clock)) + cards[Today(clock)] < Cap THEN 1 ELSE 0]
  /\ UNCHANGED <<clock, memory, unmarked, marker, settings, watch, jobs, receipts, cards, worker, patch>>

CommitInbox ==
  /\ inbox.at = "counted"
  /\ cards' = [cards EXCEPT ![inbox.day] = @ + inbox.asks]
  /\ inbox' = [at |-> "idle", day |-> 0, asks |-> 0]
  /\ UNCHANGED <<clock, memory, unmarked, marker, settings, watch, jobs, receipts, worker, patch, moves>>

-----------------------------------------------------------------------------
Work(p) ==
  \/ Look(p) \/ Enqueue(p) \/ Pass(p)
  \/ \E key \in DOMAIN jobs : Claim(p, key)
  \/ Lock(p) \/ Read(p) \/ PassOver(p) \/ Weigh(p) \/ Admit(p) \/ Finish(p) \/ Report(p)

Owner ==
  \/ BeginPatch \/ \E enabled \in BOOLEAN : WritePatch(enabled)
  \/ \E w \in Watches, enabled \in BOOLEAN, until \in {0, Quiet} : PatchWatch(w, enabled, until)
  \/ \E w \in Watches, state \in States \cup {Gone} : Govern(w, state)

InitiativeNext ==
  \/ \E p \in Workers : Work(p) \/ Lose(p)
  \/ Owner \/ Complete \/ CountInbox \/ CommitInbox \/ Tick

InitiativeSpec == InitiativeInit /\ [][InitiativeNext]_initiativeVars

\* The worker process polls for ever, its attempts end, time passes.
Fairness == WF_initiativeVars(Tick) /\ WF_initiativeVars(Complete) /\ \A p \in Workers : WF_initiativeVars(Work(p))

-----------------------------------------------------------------------------
TurnPlaces == {"idle", "looked", "turn", "claimed", "handled"} \cup Locking

Decisions == {"ASK", "BATCH"}
Days == {Today(t) : t \in Ticks}
Turns == [at : TurnPlaces, revision : Nat, marker : 0..MaxMoves, key : Keys \cup {Unset}, now : Ticks,
          seen : [Watches -> States \cup {Gone}], todo : SUBSET Watches, decision : Decisions]

\* The schedule is set exactly while the initiative is enabled; jobs, receipts and
\* turns have the shape of their rows and sessions.
InitiativeTypeOK ==
  /\ clock \in Ticks
  /\ memory \in [Watches -> States \cup {Gone}] /\ unmarked \in BOOLEAN
  /\ marker \in 0..MaxMoves /\ moves \in 0..MaxMoves
  /\ settings \in Settings /\ (settings.enabled <=> settings.due # Unset)
  /\ watch \in [Watches -> [enabled : BOOLEAN, until : {0, Quiet}]]
  /\ DOMAIN jobs \subseteq Keys /\ jobs \in [DOMAIN jobs -> Jobs]
  /\ receipts \subseteq Receipts
  /\ cards \in [Days -> Nat]
  /\ worker \in [Workers -> Turns]
  /\ patch \in [at : {"idle", "read"}, marker : 0..MaxMoves, now : Ticks]
  /\ inbox \in [at : {"idle", "counted"}, day : Nat, asks : {0, 1}]

\* The owner is asked about a situation once, whatever day it is, however often
\* the evaluation is repeated and whoever repeats it.
AskedOnce ==
  \A r, s \in receipts :
    /\ r.decision = "ASK" /\ s.decision = "ASK"
    /\ r.watch = s.watch /\ r.state = s.state /\ r.threshold = s.threshold
    => r = s

\* No day has more questions than the budget, and the initiative alone never
\* more than its scope allows.
WithinBudget == \A d \in DOMAIN cards : Asked(d) + cards[d] <= Cap
WithinScope == \A d \in DOMAIN cards : Asked(d) <= ScopeCap

\* A situation that memory goes on reporting, of a watch that stays enabled, is
\* answered by a receipt, whatever was lost, snoozed or reconfigured before.
Lasts(w, state) == memory[w] = state /\ settings.enabled /\ watch[w].enabled
EverySituationAnswered ==
  \A w \in Watches, state \in States :
    Deadline[w][state] <= Horizon /\ <>[]Lasts(w, state)
      => <>(\E r \in receipts : r.watch = w /\ r.state = state)

-----------------------------------------------------------------------------
(* The inductive invariant behind AskedOnce and WithinScope.                *)

\* Every new revision of the settings and every mark was a move.
MovesCounted ==
  (settings.revision - 1) + marker + (IF unmarked THEN 1 ELSE 0) + (IF patch.at = "read" THEN 1 ELSE 0) <= moves

\* One evaluation at a time is between its lock and its last transaction.
LockExclusive ==
  \A p, q \in Workers : worker[p].at \in Locking /\ worker[q].at \in Locking => p = q

\* What is to be weighed has something to say; what was weighed has no receipt yet, and
\* is asked only if the scope had room: the lock has kept every other writer of receipts
\* away since.
Judged(mine) ==
  LET w == Min(mine.todo)
  IN  /\ mine.at \in {"weighing", "weighed"} => \A v \in mine.todo : mine.seen[v] \in States
      /\ mine.at = "weighed" =>
            /\ mine.todo # {}
            /\ ~Existing(w, mine.seen[w], Threshold(w, mine.seen[w], mine.now), Today(mine.now))
            /\ mine.decision = "ASK" => Asked(Today(mine.now)) < ScopeCap
JudgedUnderLock == \A p \in Workers : Judged(worker[p])

InitiativeInv ==
  /\ InitiativeTypeOK /\ IsFiniteSet(receipts) /\ MovesCounted
  /\ LockExclusive /\ JudgedUnderLock /\ AskedOnce /\ WithinScope
=============================================================================
