------------------------------ MODULE Projections ------------------------------
(****************************************************************************)
(* A typed projection (packages/capabilities, migration 0016): rows that a     *)
(* replay rebuilds from canonical memory and the owner's overlay, and that a   *)
(* read folds the overlay over once more.  Projection says whose reducer.      *)
(*                                                                          *)
(* A replay is one transaction, but each of its statements reads what has been *)
(* committed when it starts; the reads of canonical memory within one reducer   *)
(* are one step here.  Of an obligation the model keeps what is owed and what   *)
(* was allocated, of a commitment the outcome, of a schedule the time.         *)
(****************************************************************************)
EXTENDS Integers, Sequences, FiniteSetsExt

CONSTANTS
    Projection,   \* "obligations", "commitments" or "schedule"
    Frames,       \* numbered by created_at
    Existing,     \* the frames that are there at the start
    Statements,   \* what memory may come to say of a frame: [kind, value]
    Words,        \* what the owner may write: [kind, value, byClaim], of a frame or of a claim in it
    Replays,      \* sessions that replay
    MaxActs, MaxReplays,   \* bounds
    Nothing

VARIABLES
    frame,     \* each frame's lifecycle
    into,      \* the frame a merged one was merged into
    stated,    \* claims and resolution assertions, in the order they were recorded
    overlay,   \* the owner's deltas, by owner_sequence
    row,      \* the stored row of each frame
    replay,    \* the open replays
    rebuilt,   \* the merged or split frames whose rebuild has its receipts
    replayed,  \* how many replays have begun
    acts       \* and how many of MaxActs were done

vars == <<frame, into, stated, overlay, row, replay, rebuilt, replayed, acts>>

NoFrame == 0
Money(amount, currency) == [amount |-> amount, currency |-> currency]
Currency(money) == IF money = Nothing THEN Nothing ELSE money.currency
Active == {f \in Frames : frame[f] = "ACTIVE"}

------------------------------------------------------------------------------
(* Reading canonical memory, along lineage.                                  *)

\* NoFrame for a split frame: never re-attached to a guessed half.
Survivor(f) ==
    LET chain[n \in 0..Cardinality(Frames)] ==
            IF n = 0 THEN f ELSE LET g == chain[n - 1] IN IF frame[g] = "MERGED" THEN into[g] ELSE g
        last == chain[Cardinality(Frames)]
    IN IF frame[last] = "SPLIT" THEN NoFrame ELSE last

\* A rejected or suppressed claim counts for nothing, a resolution only once accepted.
Counts(s) == s.life = "ACCEPTED" \/ (s.life = "PROPOSED" /\ s.kind # "outcome")
Values(f, kind) ==
    {i \in DOMAIN stated : stated[i].kind = kind /\ Counts(stated[i]) /\ Survivor(stated[i].about) = f}

\* The newest supported statement is displayed, the others are kept.
Selected(f, kind) == IF Values(f, kind) = {} THEN Nothing ELSE stated[Max(Values(f, kind))].value
Disputed(f, kind) == Cardinality({stated[i].value : i \in Values(f, kind)}) > 1

\* A partial outcome followed by a settling one is a progression, two settling ones
\* are a contradiction.
OutcomeState(f) ==
    LET accepted == {stated[i].value : i \in Values(f, "outcome")}
        settling == accepted \ {"PARTIALLY_FULFILLED"}
    IN CASE accepted = {} -> "UNRESOLVED"
         [] Cardinality(settling) > 1 -> "CONTESTED"
         [] Cardinality(settling) = 1 -> "RESOLVED"
         [] OTHER -> "PARTIALLY_RESOLVED"

\* What the statements numbered ns add up to.
Amounts(statements, ns) == MapThenSumSet(LAMBDA n : statements[n].value.amount, ns)

\* What was allocated is summed in the currency of the principal or, where none is
\* known, in that of the first allocation; what is in another is only reported.
Arithmetic(f, principal) ==
    LET allocations == Values(f, "allocated")
        currency == IF principal # Nothing THEN principal.currency
                    ELSE IF allocations # {} THEN stated[Min(allocations)].value.currency
                    ELSE Nothing
        matching == {i \in allocations : stated[i].value.currency = currency}
        total == Amounts(stated, matching)
    IN [total |-> total, mismatched |-> matching # allocations,
        remaining |-> IF principal = Nothing THEN Nothing ELSE principal.amount - total]

------------------------------------------------------------------------------
(* The owner's overlay.                                                      *)

\* Every delta with the frame it speaks about now.
ReadDeltas == [i \in DOMAIN overlay |-> [overlay[i] EXCEPT !.about = Survivor(overlay[i].about)]]

\* A merge or split, a sentence that it cannot read, or an amount in another currency than
\* the row's: no conversion, ever.
Unread(d, currency) ==
    \/ d.kind = "lineage" \/ d.value = Nothing \/ Projection = "schedule"
    \/ Projection = "obligations" /\ currency \notin {Nothing, Currency(d.value)}

\* What the reducer makes of a delta: whether it folds it in or reports it.
Role_DropsContested(d, currency) ==
    IF d.life \in {"SETTLED", "CONTESTED"} THEN "settled"
    ELSE IF d.kind = "hide" THEN "hides"
    ELSE IF Unread(d, currency) THEN "pending" ELSE "states"
Role(d, currency) ==
    IF d.life = "SETTLED" THEN "settled"
    ELSE IF d.life = "CONTESTED" THEN "pending"
    ELSE IF d.kind = "hide" THEN "hides"
    ELSE IF Unread(d, currency) THEN "pending" ELSE "states"

\* foldOwnerDeltas, over the deltas ds about f.
Fold(ds, f, currency) ==
    LET In(role) == {i \in DOMAIN ds : ds[i].about = f /\ Role(ds[i], currency) = role}
    IN [shown |-> IF In("states") = {} THEN Nothing ELSE ds[Max(In("states"))].value,
        pending |-> In("pending"), hidden |-> In("hides") # {}]

\* The three reducers: the row of f from canonical memory and the deltas read before.
CommitmentRow(f, ds, mark) ==
    LET fold == Fold(ds, f, Nothing)
        outcome == OutcomeState(f)
        shown == IF fold.shown # Nothing /\ outcome = "UNRESOLVED" THEN fold.shown ELSE outcome
    IN [value |-> shown, total |-> 0, remaining |-> Nothing, doubtful |-> shown = "CONTESTED",
        pending |-> fold.pending, hidden |-> fold.hidden, mark |-> mark]

ObligationRow(f, ds, mark) ==
    LET principal == Selected(f, "principal")
        fold == Fold(ds, f, Currency(principal))
        shown == IF fold.shown # Nothing THEN fold.shown ELSE principal
        sums == Arithmetic(f, shown)
    IN [value |-> shown, total |-> sums.total, remaining |-> sums.remaining,
        doubtful |-> Disputed(f, "principal") \/ sums.mismatched,
        pending |-> fold.pending, hidden |-> fold.hidden, mark |-> mark]

ScheduleRow(f, ds, mark) ==
    LET fold == Fold(ds, f, Nothing)
    IN [value |-> Selected(f, "time"), total |-> 0, remaining |-> Nothing, doubtful |-> FALSE,
        pending |-> fold.pending, hidden |-> fold.hidden, mark |-> mark]

BuiltRow(f, ds, mark) ==
    CASE Projection = "commitments" -> CommitmentRow(f, ds, mark)
      [] Projection = "obligations" -> ObligationRow(f, ds, mark)
      [] Projection = "schedule" -> ScheduleRow(f, ds, mark)

\* A read sees no claim, so that a delta that names its frame through one is reported as
\* attached to none.
ReadableDeltas == [i \in DOMAIN overlay |-> IF overlay[i].byClaim THEN [overlay[i] EXCEPT !.about = NoFrame] ELSE ReadDeltas[i]]
Unattached == {i \in DOMAIN overlay : overlay[i].life # "SETTLED" /\ ReadableDeltas[i].about = NoFrame}

\* foldOverRow: the row as a read answers it.
View(f) ==
    LET was == row[f]
        fold == Fold(ReadableDeltas, f, IF Projection = "obligations" THEN Currency(was.value) ELSE Nothing)
        pending == was.pending \cup fold.pending
        hidden == was.hidden \/ fold.hidden
    IN IF fold.shown # Nothing /\ Projection = "obligations"
       THEN [value |-> fold.shown, remaining |-> fold.shown.amount - was.total, pending |-> pending, hidden |-> hidden]
       ELSE IF fold.shown # Nothing /\ Projection = "commitments" /\ was.value = "UNRESOLVED"
       THEN [value |-> fold.shown, remaining |-> Nothing, pending |-> pending, hidden |-> hidden]
       ELSE [value |-> was.value, remaining |-> was.remaining, pending |-> pending, hidden |-> hidden]

------------------------------------------------------------------------------
(* What changes under the projection, each a transaction of its own.         *)

Disturbed == [r \in Replays |-> IF replay[r] = Nothing THEN Nothing ELSE [replay[r] EXCEPT !.clean = FALSE]]

Act == acts < MaxActs /\ acts' = acts + 1 /\ replay' = Disturbed

CreateFrame(f) ==
    /\ frame[f] = "absent" /\ \A g \in Frames : g < f => frame[g] # "absent"
    /\ frame' = [frame EXCEPT ![f] = "ACTIVE"] /\ Act
    /\ UNCHANGED <<into, stated, overlay, row, rebuilt, replayed>>

State(f, s) ==
    /\ frame[f] = "ACTIVE"
    /\ stated' = Append(stated, [about |-> f, kind |-> s.kind, value |-> s.value, life |-> "PROPOSED"])
    /\ Act
    /\ UNCHANGED <<frame, into, overlay, row, rebuilt, replayed>>

\* A governed transaction accepts what was stated, or takes it back.
Govern(i, life) ==
    /\ stated[i].life = "PROPOSED" \/ (stated[i].life = "ACCEPTED" /\ life = "RETRACTED")
    /\ life = "ACCEPTED" => stated[i].kind = "outcome"
    /\ stated' = [stated EXCEPT ![i].life = life] /\ Act
    /\ UNCHANGED <<frame, into, overlay, row, rebuilt, replayed>>

\* The owner writes of a frame, or of a claim in it.
Say(f, w) ==
    /\ frame[f] # "absent"
    /\ overlay' = Append(overlay, [about |-> f, kind |-> w.kind, value |-> w.value, byClaim |-> w.byClaim, life |-> "PENDING"])
    /\ Act
    /\ UNCHANGED <<frame, into, stated, row, rebuilt, replayed>>

\* A commit contests a delta; or it is committed, withdrawn, rejected or superseded.
Judge(i, life) ==
    /\ overlay[i].life # "SETTLED" /\ overlay[i].life # life
    /\ overlay' = [overlay EXCEPT ![i].life = life] /\ Act
    /\ UNCHANGED <<frame, into, stated, row, rebuilt, replayed>>

MergeFrames(m, s) ==
    /\ m # s /\ {m, s} \subseteq Active
    /\ frame' = [frame EXCEPT ![m] = "MERGED"] /\ into' = [into EXCEPT ![m] = s]
    /\ Act
    /\ UNCHANGED <<stated, overlay, row, rebuilt, replayed>>

\* The claims of p go to one of the frames it is split into or to the other; a resolution of
\* it stays behind, and so does an allocation.
SplitFrame(p, c1, c2, first) ==
    LET claims == Values(p, "principal") \cup Values(p, "time")
    IN /\ frame[p] = "ACTIVE" /\ c1 < c2 /\ {frame[c1], frame[c2]} = {"absent"} /\ first \subseteq claims
       /\ frame' = [frame EXCEPT ![p] = "SPLIT", ![c1] = "ACTIVE", ![c2] = "ACTIVE"]
       /\ stated' = [i \in DOMAIN stated |->
              IF i \in claims THEN [stated[i] EXCEPT !.about = IF i \in first THEN c1 ELSE c2] ELSE stated[i]]
       /\ Act
       /\ UNCHANGED <<into, overlay, row, rebuilt, replayed>>

------------------------------------------------------------------------------
(* A replay, and the rebuild after a merge or split: the incremental step for   *)
(* every row and then a replay compared with it, in one transaction.           *)

Untouched == [untouched |-> TRUE]
\* The rows as the transaction sees them, and those that others hold locks on.
Seen(r) == [f \in Frames |-> IF replay[r].mine[f] = Untouched THEN row[f] ELSE replay[r].mine[f]]
Locked(r) == {f \in Frames : \E q \in Replays \ {r} : replay[q] # Nothing /\ replay[q].mine[f] # Untouched}
At(r, place) == replay[r] # Nothing /\ replay[r].at = place

Retired_Early(f) == frame[f] # "ACTIVE"
Retired(f) == frame[f] \in {"MERGED", "SPLIT"}

\* retired is the merged or split frame a rebuild answers for, NoFrame in a plain replay.
Begin(r, retired) ==
    /\ replay[r] = Nothing /\ replayed < MaxReplays
    /\ retired # NoFrame => Retired(retired) /\ retired \notin rebuilt
    /\ replay' = [replay EXCEPT ![r] =
           [at |-> "deltas", retired |-> retired, applying |-> retired # NoFrame, before |-> Nothing,
            deltas |-> ReadDeltas, made |-> [f \in Frames |-> Untouched],
            mine |-> [f \in Frames |-> Untouched], clean |-> TRUE]]
    /\ replayed' = replayed + 1
    /\ UNCHANGED <<frame, into, stated, overlay, row, rebuilt, acts>>

\* readWatermarks comes after readOwnerDeltas.
BuildRows(r) ==
    /\ At(r, "deltas")
    /\ replay' = [replay EXCEPT ![r].at = "built", ![r].made =
           [f \in Frames |-> IF f \in Active THEN BuiltRow(f, replay[r].deltas, Len(overlay)) ELSE Untouched]]
    /\ UNCHANGED <<frame, into, stated, overlay, row, rebuilt, replayed, acts>>

\* The upsert restates every column but the identity.
Restated(old, new) == new

Made(r) == {f \in Frames : replay[r].made[f] # Untouched}
WriteRows(r) ==
    /\ At(r, "built") /\ Locked(r) \cap Made(r) = {}
    /\ replay' = [replay EXCEPT ![r].at = "written", ![r].mine =
           [f \in Frames |-> IF f \in Made(r) THEN Restated(Seen(r)[f], replay[r].made[f]) ELSE replay[r].mine[f]]]
    /\ UNCHANGED <<frame, into, stated, overlay, row, rebuilt, replayed, acts>>

Prunable_Merged(r) == {f \in Frames : frame[f] = "MERGED"}
\* The rows of frames no longer active and, in a replay, those it did not write.
Prunable(r) == {f \in Frames : f \notin Active \/ (~replay[r].applying /\ f \notin Made(r))}

PruneRows(r) ==
    LET gone == {f \in Prunable(r) : Seen(r)[f] # Nothing}
    IN /\ At(r, "written") /\ Locked(r) \cap gone = {}
       /\ replay' = [replay EXCEPT ![r].at = IF replay[r].applying THEN "applied" ELSE "pruned",
              ![r].mine = [f \in Frames |-> IF f \in gone THEN Nothing ELSE replay[r].mine[f]],
              ![r].made = [f \in Frames |-> Untouched]]
       /\ UNCHANGED <<frame, into, stated, overlay, row, rebuilt, replayed, acts>>

\* After the incremental step the replay reads everything again.
Again(r) ==
    /\ At(r, "applied")
    /\ replay' = [replay EXCEPT ![r].at = "deltas", ![r].applying = FALSE, ![r].before = Seen(r),
                                ![r].deltas = ReadDeltas]
    /\ UNCHANGED <<frame, into, stated, overlay, row, rebuilt, replayed, acts>>

CommitReplay(r) ==
    /\ At(r, "pruned")
    /\ row' = Seen(r)
    /\ rebuilt' = rebuilt \cup ({replay[r].retired} \ {NoFrame})
    /\ replay' = [Disturbed EXCEPT ![r] = Nothing]
    /\ UNCHANGED <<frame, into, stated, overlay, replayed, acts>>

\* The process dies, or the database breaks a deadlock of two replays.
Abort(r) ==
    /\ replay[r] # Nothing
    /\ replay' = [replay EXCEPT ![r] = Nothing]
    /\ UNCHANGED <<frame, into, stated, overlay, row, rebuilt, replayed, acts>>

ProjectionInit ==
    /\ frame = [f \in Frames |-> IF f \in Existing THEN "ACTIVE" ELSE "absent"]
    /\ into = [f \in Frames |-> NoFrame]
    /\ stated = <<>> /\ overlay = <<>>
    /\ row = [f \in Frames |-> Nothing]
    /\ replay = [r \in Replays |-> Nothing]
    /\ rebuilt = {} /\ replayed = 0 /\ acts = 0

ProjectionNext ==
    \/ \E f \in Frames : CreateFrame(f) \/ \E s \in Statements : State(f, s)
    \/ \E i \in DOMAIN stated, life \in {"ACCEPTED", "RETRACTED"} : Govern(i, life)
    \/ \E f \in Frames, w \in Words : Say(f, w)
    \/ \E i \in DOMAIN overlay, life \in {"CONTESTED", "SETTLED"} : Judge(i, life)
    \/ \E m, s \in Active : MergeFrames(m, s)
    \/ \E p \in Active, c1, c2 \in Frames \ Active, first \in SUBSET DOMAIN stated : SplitFrame(p, c1, c2, first)
    \/ \E r \in Replays, retired \in (Frames \ Active) \cup {NoFrame} : Begin(r, retired)
    \/ \E r \in Replays : BuildRows(r) \/ WriteRows(r) \/ PruneRows(r) \/ Again(r)
                            \/ CommitReplay(r) \/ Abort(r)

------------------------------------------------------------------------------
(* Correctness.                                                              *)

ProjectionTypeOK ==
    /\ frame \in [Frames -> {"absent", "ACTIVE", "MERGED", "SPLIT"}]
    /\ \A f \in Frames : (frame[f] = "MERGED") <=> (into[f] # NoFrame)
    /\ \A f \in Frames : row[f] = Nothing \/ (row[f].mark <= Len(overlay) /\ row[f].pending \subseteq 1..row[f].mark)
    /\ \A f \in rebuilt : frame[f] \in {"MERGED", "SPLIT"}

\* No write of the owner's is lost between the overlay and a read (projections.ts:
\* "Both are recorded; neither is dropped"): about a frame that has a row and is not hidden, the
\* read reports it as pending, or shows it or a later one in its place.  Of an
\* outcome: unless the row shows one already, from governed memory or from the
\* owner's earlier word.
NoWriteLost ==
    \A i \in DOMAIN overlay :
        LET f == ReadableDeltas[i].about
            later == {j \in DOMAIN overlay : j >= i /\ ReadableDeltas[j].about = f /\ overlay[j].life = "PENDING"}
        IN \/ overlay[i].life = "SETTLED" \/ i \in Unattached
           \/ row[f] = Nothing
           \/ View(f).hidden
           \/ i \in View(f).pending
           \/ \E j \in later : View(f).value = overlay[j].value
           \/ Projection = "commitments" /\ row[f].value # "UNRESOLVED"

\* Once its rebuild has a receipt, a merged or split frame has no row, whatever replays
\* were under way ("a row still keyed by the old id would show one situation twice").
RetiredHaveNoRow == \A f \in rebuilt : row[f] = Nothing

\* A replay that nobody disturbed leaves what a replay now would write, and the one of a
\* rebuild finds exactly what the incremental step had written: there is one reducer.
ReplayEqualsApply ==
    \A r \in Replays :
        At(r, "pruned") /\ replay[r].clean =>
            /\ replay[r].retired # NoFrame => replay[r].before = Seen(r)
            /\ Seen(r) = [f \in Frames |-> IF f \in Active THEN BuiltRow(f, ReadDeltas, Len(overlay)) ELSE Nothing]

\* "No conversion, ever": what a read says remains of an amount has only allocations in that
\* amount's currency taken off it, when nothing was stated since the row was written.
NothingConverted ==
    Projection = "obligations" => \A f \in Active :
        row[f] # Nothing /\ View(f).remaining # Nothing /\ row[f].total = Arithmetic(f, row[f].value).total =>
            View(f).remaining = View(f).value.amount - Arithmetic(f, View(f).value).total
================================================================================
