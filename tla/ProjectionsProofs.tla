--------------------------- MODULE ProjectionsProofs ---------------------------
(***************************************************************************)
(* Lemmas about Projections, for every reducer and every set of frames,     *)
(* statements, words and sessions: what a behaviour begins with and what    *)
(* every step keeps.  EvidenceProcessingProofs draws the theorems from them  *)
(* for the three reducers.                                                  *)
(***************************************************************************)
EXTENDS Projections, FiniteSetTheorems, WellFoundedInduction, TLAPS

ProjectionAssumption ==
  /\ Projection \in {"obligations", "commitments", "schedule"}
  /\ Frames \subseteq Nat \ {NoFrame}
  /\ Untouched # Nothing

-----------------------------------------------------------------------------
(* The newest of some numbers is one of them.                              *)

LEMMA LatestBelow ==
  ASSUME NEW k \in Nat, NEW T, T \subseteq 1..k, T # {}
  PROVE  \E x \in T : \A y \in T : y <= x
<1> DEFINE Segments == {x..k : x \in T}
<1>1. Segments \subseteq FiniteSubsetsOf(1..k)
  <2>1. \A x \in T : x..k \subseteq 1..k
    OBVIOUS
  <2>2. \A x \in T : IsFiniteSet(x..k)
    BY FS_Interval
  <2> QED
    BY <2>1, <2>2 DEF FiniteSubsetsOf
<1>2. PICK least \in Segments : \A q \in Segments : ~(<<q, least>> \in StrictSubsetOrdering(1..k))
  <2>1. Segments # {}
    OBVIOUS
  <2> HIDE DEF Segments
  <2> QED
    BY <1>1, <2>1, FS_StrictSubsetOrderingWellFounded, WFMin
<1>3. PICK x \in T : least = x..k
  BY <1>2
<1>4. ASSUME NEW y \in T, y > x PROVE FALSE
  <2>1. x \in 1..k /\ y \in 1..k
    OBVIOUS
  <2>2. y..k \subseteq x..k /\ x \in x..k /\ x \notin y..k /\ x..k \subseteq 1..k
    BY <2>1, <1>4
  <2>3. <<y..k, x..k>> \in StrictSubsetOrdering(1..k)
    BY <2>2 DEF StrictSubsetOrdering
  <2> QED
    BY <1>2, <1>3, <2>3
<1> QED
  BY <1>4

LEMMA LatestOf ==
  ASSUME NEW k \in Nat, NEW T, T \subseteq 1..k, T # {}
  PROVE  Max(T) \in T /\ \A y \in T : y <= Max(T)
<1>1. PICK x \in T : \A y \in T : x >= y
  BY LatestBelow
<1> QED
  BY <1>1 DEF Max

-----------------------------------------------------------------------------
(* What a reducer writes.                                                  *)

\* A row says up to which of n deltas it was made, and reports as pending only those.
RowOK(x, n) == x.mark \in 0..n /\ x.pending \subseteq 1..x.mark

LEMMA RowsBuilt ==
  ASSUME ProjectionAssumption, NEW f, NEW n \in Nat, NEW ds, DOMAIN ds \subseteq 1..n
  PROVE  RowOK(BuiltRow(f, ds, n), n) /\ BuiltRow(f, ds, n) # Untouched
<1>1. \A currency : Fold(ds, f, currency).pending \subseteq 1..n
  BY DEF Fold
<1>2. ASSUME NEW x, DOMAIN x = {"value", "total", "remaining", "doubtful", "pending", "hidden", "mark"}
      PROVE  x # Untouched
  <2>1. DOMAIN Untouched = {"untouched"}
    BY DEF Untouched
  <2> QED
    BY <1>2, <2>1
<1>3. CASE Projection = "commitments"
  <2>1. BuiltRow(f, ds, n) = CommitmentRow(f, ds, n)
    BY <1>3 DEF BuiltRow
  <2> QED
    BY <1>1, <1>2, <2>1 DEF CommitmentRow, RowOK
<1>4. CASE Projection = "obligations"
  <2>1. BuiltRow(f, ds, n) = ObligationRow(f, ds, n)
    BY <1>4 DEF BuiltRow
  <2> QED
    BY <1>1, <1>2, <2>1 DEF ObligationRow, RowOK
<1>5. CASE Projection = "schedule"
  <2>1. BuiltRow(f, ds, n) = ScheduleRow(f, ds, n)
    BY <1>5 DEF BuiltRow
  <2> QED
    BY <1>1, <1>2, <2>1 DEF ScheduleRow, RowOK
<1> QED
  BY <1>3, <1>4, <1>5 DEF ProjectionAssumption

\* The rows that a replay would leave now.
TargetRow(f) == BuiltRow(f, ReadDeltas, Len(overlay))
Target == [f \in Frames |-> IF f \in Active THEN TargetRow(f) ELSE Nothing]

\* They depend on memory and the overlay alone.
LEMMA MemoryUnchanged ==
  ASSUME frame' = frame, into' = into, stated' = stated, overlay' = overlay
  PROVE  Active' = Active /\ ReadDeltas' = ReadDeltas /\ Target' = Target
<1>1. Active' = Active
  BY DEF Active
<1>2. \A f : Survivor(f)' = Survivor(f)
  <2> SUFFICES ASSUME NEW f PROVE Survivor(f)' = Survivor(f)
    OBVIOUS
  <2> QED
    BY DEF Survivor
<1>3. ReadDeltas' = ReadDeltas
  BY <1>2 DEF ReadDeltas
<1>4. \A f, kind : Values(f, kind)' = Values(f, kind)
  BY <1>2 DEF Values, Counts
<1>5. \A f, ds, n : BuiltRow(f, ds, n)' = BuiltRow(f, ds, n)
  <2> SUFFICES ASSUME NEW f, NEW ds, NEW n PROVE BuiltRow(f, ds, n)' = BuiltRow(f, ds, n)
    OBVIOUS
  <2>1. CommitmentRow(f, ds, n)' = CommitmentRow(f, ds, n)
    <3>1. OutcomeState(f)' = OutcomeState(f)
      BY <1>4 DEF OutcomeState
    <3>2. Fold(ds, f, Nothing)' = Fold(ds, f, Nothing)
      BY DEF Fold, Role, Unread, Currency
    <3> QED
      BY <3>1, <3>2 DEF CommitmentRow
  <2>2. ObligationRow(f, ds, n)' = ObligationRow(f, ds, n)
    <3>1. Selected(f, "principal")' = Selected(f, "principal") /\ Disputed(f, "principal")' = Disputed(f, "principal")
      BY <1>4 DEF Selected, Disputed
    <3> DEFINE principal == Selected(f, "principal")
               fold == Fold(ds, f, Currency(principal))
               shown == IF fold.shown # Nothing THEN fold.shown ELSE principal
               sums == Arithmetic(f, shown)
    <3>2. principal' = principal
      BY <3>1
    <3> HIDE DEF principal
    <3>3. fold' = fold
      BY <3>2 DEF Fold, Role, Unread, Currency
    <3> HIDE DEF fold
    <3>4. shown' = shown
      BY <3>2, <3>3
    <3> HIDE DEF shown
    <3>5. sums' = sums
      BY <1>4, <3>4 DEF Arithmetic
    <3> HIDE DEF sums
    <3>6. ObligationRow(f, ds, n) =
            [value |-> shown, total |-> sums.total, remaining |-> sums.remaining,
             doubtful |-> Disputed(f, "principal") \/ sums.mismatched,
             pending |-> fold.pending, hidden |-> fold.hidden, mark |-> n]
      BY DEF ObligationRow, principal, fold, shown, sums
    <3>7. ObligationRow(f, ds, n)' =
            [value |-> shown', total |-> sums'.total, remaining |-> sums'.remaining,
             doubtful |-> Disputed(f, "principal")' \/ sums'.mismatched,
             pending |-> fold'.pending, hidden |-> fold'.hidden, mark |-> n]
      BY DEF ObligationRow, principal, fold, shown, sums
    <3> QED
      BY <3>1, <3>3, <3>4, <3>5, <3>6, <3>7
  <2>3. ScheduleRow(f, ds, n)' = ScheduleRow(f, ds, n)
    BY <1>4 DEF ScheduleRow, Selected, Fold, Role, Unread, Currency
  <2> QED
    BY <2>1, <2>2, <2>3 DEF BuiltRow
<1> QED
  BY <1>1, <1>3, <1>5 DEF Target, TargetRow

-----------------------------------------------------------------------------
(* A read folds the overlay over the row.                                  *)

Lives == {"PENDING", "CONTESTED", "SETTLED"}
Deltas == [about : Frames, kind : {w.kind : w \in Words}, value : {w.value : w \in Words},
           byClaim : {w.byClaim : w \in Words}, life : Lives]

LEMMA NoneIsLost ==
  ASSUME ProjectionAssumption, overlay \in Seq(Deltas)
  PROVE  NoWriteLost
<1> DEFINE ds == ReadableDeltas
<1>1. /\ DOMAIN overlay = 1..Len(overlay) /\ Len(overlay) \in Nat
      /\ \A i \in DOMAIN overlay : overlay[i] \in Deltas
  OBVIOUS
<1>2. DOMAIN ds = DOMAIN overlay /\ \A i \in DOMAIN overlay :
        ds[i].life = overlay[i].life /\ ds[i].value = overlay[i].value
  BY <1>1 DEF ReadableDeltas, ReadDeltas, Deltas
<1> HIDE DEF ds
<1> SUFFICES ASSUME NEW i \in DOMAIN overlay, NEW f, f = ds[i].about,
                    overlay[i].life # "SETTLED", row[f] # Nothing,
                    ~View(f).hidden, i \notin View(f).pending,
                    ~(Projection = "commitments" /\ row[f].value # "UNRESOLVED")
             PROVE  \E j \in DOMAIN overlay : j >= i /\ ds[j].about = f /\ overlay[j].life = "PENDING"
                                                /\ View(f).value = overlay[j].value
  BY DEF NoWriteLost, ds
<1> DEFINE currency == IF Projection = "obligations" THEN Currency(row[f].value) ELSE Nothing
           In(role) == {j \in DOMAIN ds : ds[j].about = f /\ Role(ds[j], currency) = role}
           fold == Fold(ds, f, currency)
<1>3. /\ fold.shown = IF In("states") = {} THEN Nothing ELSE ds[Max(In("states"))].value
      /\ fold.pending = In("pending") /\ fold.hidden = (In("hides") # {})
  BY DEF Fold
<1>4. /\ View(f).pending = row[f].pending \cup fold.pending
      /\ View(f).hidden = (row[f].hidden \/ fold.hidden)
  BY DEF View, ds
<1>5. /\ fold.shown # Nothing /\ Projection = "obligations" => View(f).value = fold.shown
      /\ fold.shown # Nothing /\ Projection = "commitments" /\ row[f].value = "UNRESOLVED" =>
             View(f).value = fold.shown
  BY DEF View, ds
<1> HIDE DEF currency, fold
<1>6. Role(ds[i], currency) \in {"settled", "pending", "hides", "states"}
  BY DEF Role
<1>7. Role(ds[i], currency) = "states"
  <2>1. Role(ds[i], currency) # "settled"
    BY <1>2 DEF Role
  <2>2. Role(ds[i], currency) # "pending"
    BY <1>2, <1>3, <1>4
  <2>3. Role(ds[i], currency) # "hides"
    BY <1>2, <1>3, <1>4
  <2> QED
    BY <1>6, <2>1, <2>2, <2>3
<1>8. \A j \in In("states") : /\ overlay[j].life = "PENDING" /\ overlay[j].value # Nothing
                               /\ Projection # "schedule"
  BY <1>1, <1>2 DEF Role, Unread, Deltas, Lives
<1>9. i \in In("states")
  BY <1>2, <1>7
<1>10. Max(In("states")) \in In("states") /\ Max(In("states")) >= i
  <2>1. In("states") \subseteq 1..Len(overlay)
    BY <1>1, <1>2
  <2> HIDE DEF In
  <2>2. Max(In("states")) \in In("states") /\ \A j \in In("states") : j <= Max(In("states"))
    BY <1>1, <1>9, <2>1, LatestOf
  <2> QED
    BY <1>9, <2>1, <2>2
<1>11. Max(In("states")) \in DOMAIN overlay /\ ds[Max(In("states"))].about = f
  BY <1>2, <1>10
<1> HIDE DEF In
<1>12. fold.shown = overlay[Max(In("states"))].value /\ fold.shown # Nothing
  BY <1>2, <1>3, <1>8, <1>9, <1>10, <1>11
<1>13. View(f).value = overlay[Max(In("states"))].value
  BY <1>5, <1>8, <1>10, <1>12 DEF ProjectionAssumption
<1> QED
  BY <1>8, <1>10, <1>11, <1>13

-----------------------------------------------------------------------------
(* What every step keeps.                                                  *)

Places == {"deltas", "built", "written", "applied", "pruned"}
Fields == {"at", "retired", "applying", "before", "deltas", "made", "mine", "clean"}
Open(r) == replay[r] # Nothing

\* A replay holds rows that it made of deltas that are still there; the frame that a
\* rebuild answers for is retired, and nothing is made of it.
ReplayOK(r) ==
  Open(r) =>
    /\ DOMAIN replay[r] = Fields /\ replay[r].at \in Places
    /\ replay[r].at = "applied" => replay[r].applying
    /\ replay[r].at = "pruned" => ~replay[r].applying
    /\ replay[r].retired # NoFrame =>
         replay[r].retired \in Frames /\ Retired(replay[r].retired) /\ replay[r].made[replay[r].retired] = Untouched
    /\ DOMAIN replay[r].deltas \subseteq 1..Len(overlay)
    /\ \A f \in Frames :
         /\ replay[r].made[f] = Untouched \/ RowOK(replay[r].made[f], Len(overlay))
         /\ replay[r].mine[f] \in {Untouched, Nothing} \/ RowOK(replay[r].mine[f], Len(overlay))

\* How far a replay that nobody disturbed has come with the rows it should leave.
CleanOK(r) ==
  Open(r) /\ replay[r].clean =>
    /\ ~replay[r].applying /\ replay[r].retired # NoFrame => replay[r].before = Target
    /\ replay[r].at = "deltas" => replay[r].deltas = ReadDeltas
    /\ replay[r].at \in {"built", "written"} =>
         \A f \in Frames : replay[r].made[f] = IF f \in Active THEN Target[f] ELSE Untouched
    /\ replay[r].at = "written" => \A f \in Active : Seen(r)[f] = Target[f]
    /\ replay[r].at \in {"applied", "pruned"} => Seen(r) = Target

IInv ==
  /\ frame \in [Frames -> {"absent", "ACTIVE", "MERGED", "SPLIT"}]
  /\ DOMAIN into = Frames /\ \A f \in Frames : (frame[f] = "MERGED") <=> (into[f] # NoFrame)
  /\ overlay \in Seq(Deltas)
  /\ DOMAIN row = Frames /\ \A f \in Frames : row[f] = Nothing \/ RowOK(row[f], Len(overlay))
  /\ rebuilt \subseteq Frames /\ \A f \in rebuilt : Retired(f)
  /\ DOMAIN replay = Replays
  /\ \A r \in Replays : ReplayOK(r) /\ CleanOK(r)

\* While no two replays are under way: what is rebuilt has no row, nor will it have one.
Alone == \A q, r \in Replays : Open(q) /\ Open(r) => q = r
RetiredGone ==
  /\ \A f \in rebuilt :
       /\ row[f] = Nothing
       /\ \A r \in Replays : Open(r) =>
            replay[r].made[f] = Untouched /\ replay[r].mine[f] \in {Untouched, Nothing}
  /\ \A r \in Replays :
       At(r, "pruned") /\ replay[r].retired # NoFrame => Seen(r)[replay[r].retired] = Nothing

LEMMA Begins ==
  ASSUME ProjectionAssumption, ProjectionInit
  PROVE  IInv /\ RetiredGone
<1>1. /\ frame \in [Frames -> {"absent", "ACTIVE", "MERGED", "SPLIT"}]
      /\ DOMAIN into = Frames /\ \A f \in Frames : frame[f] # "MERGED" /\ into[f] = NoFrame
  BY DEF ProjectionInit
<1>2. overlay \in Seq(Deltas)
  BY DEF ProjectionInit
<1>3. /\ DOMAIN row = Frames /\ rebuilt = {} /\ DOMAIN replay = Replays
      /\ \A f \in Frames : row[f] = Nothing
      /\ \A r \in Replays : ~Open(r)
  BY DEF ProjectionInit, Open
<1>4. \A r \in Replays : ReplayOK(r) /\ CleanOK(r) /\ ~At(r, "pruned")
  BY <1>3 DEF ReplayOK, CleanOK, At, Open
<1> QED
  BY <1>1, <1>2, <1>3, <1>4 DEF IInv, RetiredGone

-----------------------------------------------------------------------------
(* What the steps of a replay do to it.                                    *)

\* A step of r: the memory, the rows and the other replays stay.
Keeps(r) ==
  /\ UNCHANGED <<frame, into, stated, overlay, row, rebuilt>>
  /\ DOMAIN replay' = Replays
  /\ \A q \in Replays \ {r} : replay'[q] = replay[q]

LEMMA BeginDoes ==
  ASSUME IInv, NEW r \in Replays, NEW retired, Begin(r, retired)
  PROVE  /\ Keeps(r) /\ DOMAIN replay'[r] = Fields
         /\ retired # NoFrame => Retired(retired) /\ retired \notin rebuilt
         /\ replay'[r].at = "deltas" /\ replay'[r].retired = retired /\ replay'[r].applying = (retired # NoFrame)
         /\ replay'[r].deltas = ReadDeltas
         /\ \A f \in Frames : replay'[r].made[f] = Untouched /\ replay'[r].mine[f] = Untouched
  BY DEF IInv, Begin, Keeps, Fields

LEMMA BuildRowsDoes ==
  ASSUME IInv, NEW r \in Replays, BuildRows(r)
  PROVE  /\ Keeps(r) /\ Open(r) /\ replay[r].at = "deltas" /\ DOMAIN replay'[r] = Fields
         /\ replay'[r].at = "built"
         /\ \A f \in Frames : replay'[r].made[f] =
              IF f \in Active THEN BuiltRow(f, replay[r].deltas, Len(overlay)) ELSE Untouched
         /\ replay'[r].mine = replay[r].mine /\ replay'[r].deltas = replay[r].deltas
         /\ replay'[r].retired = replay[r].retired /\ replay'[r].applying = replay[r].applying
         /\ replay'[r].before = replay[r].before /\ replay'[r].clean = replay[r].clean
<1>1. Open(r) /\ replay[r].at = "deltas" /\ DOMAIN replay[r] = Fields /\ DOMAIN replay = Replays
  BY DEF IInv, ReplayOK, BuildRows, At, Open
<1>2. Keeps(r)
  BY <1>1 DEF BuildRows, Keeps
<1>3. replay'[r] = [replay[r] EXCEPT !.at = "built",
        !.made = [f \in Frames |-> IF f \in Active THEN BuiltRow(f, replay[r].deltas, Len(overlay)) ELSE Untouched]]
  BY <1>1 DEF BuildRows
<1> QED
  BY <1>1, <1>2, <1>3 DEF Fields

LEMMA WriteRowsDoes ==
  ASSUME IInv, NEW r \in Replays, WriteRows(r)
  PROVE  /\ Keeps(r) /\ Open(r) /\ replay[r].at = "built" /\ DOMAIN replay'[r] = Fields
         /\ replay'[r].at = "written"
         /\ \A f \in Frames : replay'[r].mine[f] =
              IF replay[r].made[f] # Untouched THEN replay[r].made[f] ELSE replay[r].mine[f]
         /\ replay'[r].made = replay[r].made /\ replay'[r].deltas = replay[r].deltas
         /\ replay'[r].retired = replay[r].retired /\ replay'[r].applying = replay[r].applying
         /\ replay'[r].before = replay[r].before /\ replay'[r].clean = replay[r].clean
<1>1. Open(r) /\ replay[r].at = "built" /\ DOMAIN replay[r] = Fields /\ DOMAIN replay = Replays
  BY DEF IInv, ReplayOK, WriteRows, At, Open
<1>2. Keeps(r)
  BY <1>1 DEF WriteRows, Keeps
<1>3. replay'[r] = [replay[r] EXCEPT !.at = "written",
        !.mine = [f \in Frames |-> IF f \in Made(r) THEN replay[r].made[f] ELSE replay[r].mine[f]]]
  BY <1>1 DEF WriteRows, Restated
<1> QED
  BY <1>1, <1>2, <1>3 DEF Fields, Made

LEMMA PruneRowsDoes ==
  ASSUME IInv, NEW r \in Replays, PruneRows(r)
  PROVE  /\ Keeps(r) /\ Open(r) /\ replay[r].at = "written" /\ DOMAIN replay'[r] = Fields
         /\ replay'[r].at = IF replay[r].applying THEN "applied" ELSE "pruned"
         /\ \A f \in Frames : replay'[r].mine[f] =
              IF f \in Prunable(r) /\ Seen(r)[f] # Nothing THEN Nothing ELSE replay[r].mine[f]
         /\ \A f \in Frames : replay'[r].made[f] = Untouched
         /\ replay'[r].deltas = replay[r].deltas
         /\ replay'[r].retired = replay[r].retired /\ replay'[r].applying = replay[r].applying
         /\ replay'[r].before = replay[r].before /\ replay'[r].clean = replay[r].clean
<1>1. Open(r) /\ replay[r].at = "written" /\ DOMAIN replay[r] = Fields /\ DOMAIN replay = Replays
  BY DEF IInv, ReplayOK, PruneRows, At, Open
<1>2. Keeps(r)
  BY <1>1 DEF PruneRows, Keeps
<1> DEFINE gone == {f \in Prunable(r) : Seen(r)[f] # Nothing}
<1>3. replay'[r] = [replay[r] EXCEPT !.at = IF replay[r].applying THEN "applied" ELSE "pruned",
        !.mine = [f \in Frames |-> IF f \in gone THEN Nothing ELSE replay[r].mine[f]],
        !.made = [f \in Frames |-> Untouched]]
  BY <1>1 DEF PruneRows
<1> QED
  BY <1>1, <1>2, <1>3 DEF Fields

LEMMA AgainDoes ==
  ASSUME IInv, NEW r \in Replays, Again(r)
  PROVE  /\ Keeps(r) /\ Open(r) /\ replay[r].at = "applied" /\ DOMAIN replay'[r] = Fields
         /\ replay'[r].at = "deltas" /\ ~replay'[r].applying
         /\ replay'[r].before = Seen(r) /\ replay'[r].deltas = ReadDeltas
         /\ replay'[r].made = replay[r].made /\ replay'[r].mine = replay[r].mine
         /\ replay'[r].retired = replay[r].retired /\ replay'[r].clean = replay[r].clean
<1>1. Open(r) /\ replay[r].at = "applied" /\ DOMAIN replay[r] = Fields /\ DOMAIN replay = Replays
  BY DEF IInv, ReplayOK, Again, At, Open
<1>2. Keeps(r)
  BY <1>1 DEF Again, Keeps
<1>3. replay'[r] = [replay[r] EXCEPT !.at = "deltas", !.applying = FALSE, !.before = Seen(r), !.deltas = ReadDeltas]
  BY <1>1 DEF Again
<1> QED
  BY <1>1, <1>2, <1>3 DEF Fields

\* What a transaction that others commit does to the replays under way.
Disturbs(q) ==
  Open(q)' => /\ Open(q) /\ DOMAIN replay'[q] = Fields /\ ~replay'[q].clean
              /\ \A x \in Fields \ {"clean"} : replay'[q][x] = replay[q][x]

LEMMA DisturbedIs ==
  ASSUME IInv, NEW q \in Replays, replay'[q] = Disturbed[q]
  PROVE  Disturbs(q)
<1>1. CASE Open(q)
  <2>1. DOMAIN replay[q] = Fields /\ replay'[q] = [replay[q] EXCEPT !.clean = FALSE]
    BY <1>1 DEF IInv, ReplayOK, Disturbed, Open
  <2> QED
    BY <1>1, <2>1 DEF Disturbs, Fields
<1>2. CASE ~Open(q)
  BY <1>2 DEF Disturbs, Disturbed, Open
<1> QED
  BY <1>1, <1>2

-----------------------------------------------------------------------------
(* Memory and the overlay change under the replays.                        *)

LEMMA RowsStayOK ==
  ASSUME NEW x, NEW m \in Nat, NEW n \in Nat, m <= n, RowOK(x, m)
  PROVE  RowOK(x, n)
  BY DEF RowOK

\* A replay that memory disturbs keeps what it made.
LEMMA DisturbedKeeps ==
  ASSUME IInv, NEW q \in Replays, Disturbs(q),
         overlay' \in Seq(Deltas), Len(overlay) <= Len(overlay'),
         \A f \in Frames : Retired(f) => Retired(f)'
  PROVE  ReplayOK(q)' /\ CleanOK(q)'
<1> SUFFICES ASSUME Open(q)'
             PROVE  ReplayOK(q)' /\ CleanOK(q)'
  BY DEF ReplayOK, CleanOK
<1>1. /\ Open(q) /\ DOMAIN replay'[q] = Fields /\ ~replay'[q].clean /\ ReplayOK(q)
      /\ \A x \in Fields \ {"clean"} : replay'[q][x] = replay[q][x]
  BY DEF Disturbs, IInv
<1>2. /\ replay'[q].at = replay[q].at /\ replay'[q].retired = replay[q].retired
      /\ replay'[q].applying = replay[q].applying /\ replay'[q].deltas = replay[q].deltas
      /\ replay'[q].made = replay[q].made /\ replay'[q].mine = replay[q].mine
  BY <1>1 DEF Fields
<1>3. Len(overlay) \in Nat /\ Len(overlay') \in Nat
  BY DEF IInv
<1>4. 1..Len(overlay) \subseteq 1..Len(overlay')
  BY <1>3
<1>5. CleanOK(q)'
  BY <1>1 DEF CleanOK
<1>6. \A f \in Frames :
        /\ replay[q].made[f] = Untouched \/ RowOK(replay[q].made[f], Len(overlay'))
        /\ replay[q].mine[f] \in {Untouched, Nothing} \/ RowOK(replay[q].mine[f], Len(overlay'))
  BY <1>1, <1>3, RowsStayOK DEF ReplayOK
<1>7. ReplayOK(q)'
  BY <1>1, <1>2, <1>4, <1>6 DEF ReplayOK, Untouched, RowOK
<1> QED
  BY <1>5, <1>7

LEMMA MemoryMoves ==
  ASSUME IInv, replay' = Disturbed, row' = row, rebuilt' = rebuilt,
         frame' \in [Frames -> {"absent", "ACTIVE", "MERGED", "SPLIT"}],
         DOMAIN into' = Frames, \A f \in Frames : (frame'[f] = "MERGED") <=> (into'[f] # NoFrame),
         overlay' \in Seq(Deltas), Len(overlay) <= Len(overlay'),
         \A f \in Frames : Retired(f) => Retired(f)'
  PROVE  IInv' /\ (RetiredGone => RetiredGone')
<1>1. \A q \in Replays : Disturbs(q)
  BY DisturbedIs
<1>2. \A q \in Replays : ReplayOK(q)' /\ CleanOK(q)'
  BY <1>1, DisturbedKeeps
<1>3. DOMAIN replay' = Replays
  BY DEF Disturbed
<1>4. \A f \in Frames : row'[f] = Nothing \/ RowOK(row'[f], Len(overlay'))
  <2>1. Len(overlay) \in Nat /\ Len(overlay') \in Nat
    BY DEF IInv
  <2> QED
    BY <2>1, RowsStayOK DEF IInv
<1>5. IInv'
  BY <1>2, <1>3, <1>4 DEF IInv, RowOK
<1>6. ASSUME RetiredGone PROVE RetiredGone'
  <2>1. \A r \in Replays : Open(r)' =>
          /\ Open(r) /\ replay'[r].made = replay[r].made /\ replay'[r].mine = replay[r].mine
          /\ replay'[r].at = replay[r].at /\ replay'[r].retired = replay[r].retired
    BY <1>1 DEF Disturbs, Fields
  <2>2. ASSUME NEW r \in Replays, At(r, "pruned")', replay'[r].retired # NoFrame
        PROVE  Seen(r)'[replay'[r].retired] = Nothing
    <3>1. Open(r)' /\ replay'[r].at = "pruned"
      BY <2>2 DEF At, Open
    <3>2. At(r, "pruned") /\ Seen(r)[replay[r].retired] = Nothing
      BY <1>6, <2>1, <2>2, <3>1 DEF At, Open, RetiredGone
    <3>3. Seen(r)' = Seen(r)
      BY <2>1, <3>1 DEF Seen, Untouched
    <3> QED
      BY <2>1, <3>1, <3>2, <3>3
  <2>3. \A f \in rebuilt' :
          /\ row'[f] = Nothing
          /\ \A r \in Replays : Open(r)' =>
               replay'[r].made[f] = Untouched /\ replay'[r].mine[f] \in {Untouched, Nothing}
    BY <1>6, <2>1 DEF RetiredGone
  <2> QED
    BY <2>2, <2>3 DEF RetiredGone, Untouched
<1> QED
  BY <1>5, <1>6

LEMMA StepCreateFrame ==
  ASSUME IInv, NEW f \in Frames, CreateFrame(f)
  PROVE  IInv' /\ (RetiredGone => RetiredGone')
<1>1. /\ replay' = Disturbed /\ row' = row /\ rebuilt' = rebuilt /\ overlay' = overlay /\ into' = into
      /\ frame[f] = "absent" /\ frame' = [frame EXCEPT ![f] = "ACTIVE"]
  BY DEF CreateFrame, Act
<1>2. frame' \in [Frames -> {"absent", "ACTIVE", "MERGED", "SPLIT"}]
  BY <1>1 DEF IInv
<1>3. \A g \in Frames : frame'[g] = IF g = f THEN "ACTIVE" ELSE frame[g]
  BY <1>1 DEF IInv
<1>4. \A g \in Frames : (frame'[g] = "MERGED") <=> (into'[g] # NoFrame)
  BY <1>1, <1>3 DEF IInv
<1>5. \A g \in Frames : Retired(g) => Retired(g)'
  BY <1>1, <1>3 DEF Retired
<1>6. Len(overlay) <= Len(overlay') /\ DOMAIN into' = Frames /\ overlay' \in Seq(Deltas)
  BY <1>1 DEF IInv
<1> QED
  BY <1>1, <1>2, <1>4, <1>5, <1>6, MemoryMoves

\* Of what memory says of a frame, or the owner.
LEMMA StepSaid ==
  ASSUME IInv, replay' = Disturbed, UNCHANGED <<frame, into, row, rebuilt>>,
         overlay' \in Seq(Deltas), Len(overlay) <= Len(overlay')
  PROVE  IInv' /\ (RetiredGone => RetiredGone')
<1>1. \A f \in Frames : Retired(f) => Retired(f)'
  BY DEF Retired
<1>2. /\ frame' \in [Frames -> {"absent", "ACTIVE", "MERGED", "SPLIT"}]
      /\ DOMAIN into' = Frames /\ \A f \in Frames : (frame'[f] = "MERGED") <=> (into'[f] # NoFrame)
  BY DEF IInv
<1> QED
  BY <1>1, <1>2, MemoryMoves

LEMMA StepState ==
  ASSUME IInv, NEW f, NEW s, State(f, s)
  PROVE  IInv' /\ (RetiredGone => RetiredGone')
<1>1. replay' = Disturbed /\ UNCHANGED <<frame, into, row, rebuilt, overlay>>
  BY DEF State, Act
<1> QED
  BY <1>1, StepSaid DEF IInv

LEMMA StepGovern ==
  ASSUME IInv, NEW i, NEW life, Govern(i, life)
  PROVE  IInv' /\ (RetiredGone => RetiredGone')
<1>1. replay' = Disturbed /\ UNCHANGED <<frame, into, row, rebuilt, overlay>>
  BY DEF Govern, Act
<1> QED
  BY <1>1, StepSaid DEF IInv

LEMMA StepSay ==
  ASSUME IInv, NEW f \in Frames, NEW w \in Words, Say(f, w)
  PROVE  IInv' /\ (RetiredGone => RetiredGone')
<1>1. replay' = Disturbed /\ UNCHANGED <<frame, into, row, rebuilt>>
  BY DEF Say, Act
<1> DEFINE d == [about |-> f, kind |-> w.kind, value |-> w.value, byClaim |-> w.byClaim, life |-> "PENDING"]
<1>2. d \in Deltas
  BY DEF Deltas, Lives
<1>3. overlay' = Append(overlay, d)
  BY DEF Say
<1> HIDE DEF d
<1>4. overlay' \in Seq(Deltas) /\ Len(overlay) <= Len(overlay')
  BY <1>2, <1>3 DEF IInv
<1> QED
  BY <1>1, <1>4, StepSaid

LEMMA StepJudge ==
  ASSUME IInv, NEW i \in DOMAIN overlay, NEW life \in {"CONTESTED", "SETTLED"}, Judge(i, life)
  PROVE  IInv' /\ (RetiredGone => RetiredGone')
<1>1. replay' = Disturbed /\ UNCHANGED <<frame, into, row, rebuilt>>
  BY DEF Judge, Act
<1>2. overlay' = [overlay EXCEPT ![i] = [overlay[i] EXCEPT !.life = life]]
  BY DEF Judge
<1>3. overlay[i] \in Deltas
  BY DEF IInv
<1>4. [overlay[i] EXCEPT !.life = life] \in Deltas
  BY <1>3 DEF Deltas, Lives
<1>5. overlay' \in Seq(Deltas) /\ Len(overlay) <= Len(overlay')
  BY <1>2, <1>4 DEF IInv
<1> QED
  BY <1>1, <1>5, StepSaid

LEMMA StepMergeFrames ==
  ASSUME ProjectionAssumption, IInv, NEW m \in Active, NEW s \in Active, MergeFrames(m, s)
  PROVE  IInv' /\ (RetiredGone => RetiredGone')
<1>1. /\ replay' = Disturbed /\ row' = row /\ rebuilt' = rebuilt /\ overlay' = overlay
      /\ frame' = [frame EXCEPT ![m] = "MERGED"] /\ into' = [into EXCEPT ![m] = s]
      /\ m \in Frames /\ s \in Frames /\ frame[m] = "ACTIVE" /\ s # NoFrame
  BY DEF MergeFrames, Act, Active, ProjectionAssumption
<1>2. /\ frame' \in [Frames -> {"absent", "ACTIVE", "MERGED", "SPLIT"}] /\ DOMAIN into' = Frames
      /\ \A g \in Frames : frame'[g] = IF g = m THEN "MERGED" ELSE frame[g]
      /\ \A g \in Frames : into'[g] = IF g = m THEN s ELSE into[g]
  <2>1. frame \in [Frames -> {"absent", "ACTIVE", "MERGED", "SPLIT"}] /\ DOMAIN into = Frames
    BY DEF IInv
  <2>2. \A g \in Frames : into'[g] = IF g = m THEN s ELSE into[g]
    BY <1>1, <2>1
  <2>3. \A g \in Frames : frame'[g] = IF g = m THEN "MERGED" ELSE frame[g]
    BY <1>1, <2>1
  <2> QED
    BY <1>1, <2>1, <2>2, <2>3
<1>3. \A g \in Frames : (frame'[g] = "MERGED") <=> (into'[g] # NoFrame)
  BY <1>1, <1>2 DEF IInv
<1>4. \A g \in Frames : Retired(g) => Retired(g)'
  BY <1>1, <1>2 DEF Retired
<1>5. Len(overlay) <= Len(overlay') /\ overlay' \in Seq(Deltas)
  BY <1>1 DEF IInv
<1> QED
  BY <1>1, <1>2, <1>3, <1>4, <1>5, MemoryMoves

LEMMA StepSplitFrame ==
  ASSUME IInv, NEW p \in Active, NEW c1 \in Frames \ Active, NEW c2 \in Frames \ Active, NEW first,
         SplitFrame(p, c1, c2, first)
  PROVE  IInv' /\ (RetiredGone => RetiredGone')
<1>1. /\ replay' = Disturbed /\ row' = row /\ rebuilt' = rebuilt /\ overlay' = overlay /\ into' = into
      /\ frame' = [frame EXCEPT ![p] = "SPLIT", ![c1] = "ACTIVE", ![c2] = "ACTIVE"]
      /\ p \in Frames /\ c1 \in Frames /\ c2 \in Frames
      /\ frame[p] = "ACTIVE" /\ frame[c1] = "absent" /\ frame[c2] = "absent"
  BY DEF SplitFrame, Act, Active
<1>2. /\ frame' \in [Frames -> {"absent", "ACTIVE", "MERGED", "SPLIT"}] /\ DOMAIN into' = Frames
      /\ \A g \in Frames : frame'[g] = IF g \in {c1, c2} THEN "ACTIVE" ELSE IF g = p THEN "SPLIT" ELSE frame[g]
  BY <1>1 DEF IInv
<1>3. \A g \in Frames : (frame'[g] = "MERGED") <=> (into'[g] # NoFrame)
  BY <1>1, <1>2 DEF IInv
<1>4. \A g \in Frames : Retired(g) => Retired(g)'
  BY <1>1, <1>2 DEF Retired
<1>5. Len(overlay) <= Len(overlay') /\ overlay' \in Seq(Deltas)
  BY <1>1 DEF IInv
<1> QED
  BY <1>1, <1>2, <1>3, <1>4, <1>5, MemoryMoves

-----------------------------------------------------------------------------
(* The steps of a replay.                                                  *)

\* The others go on as they were.
LEMMA OthersKeep ==
  ASSUME IInv, NEW r \in Replays, Keeps(r), NEW q \in Replays \ {r}
  PROVE  ReplayOK(q)' /\ CleanOK(q)'
<1>1. /\ replay'[q] = replay[q] /\ Target' = Target /\ ReadDeltas' = ReadDeltas /\ Active' = Active
      /\ frame' = frame /\ overlay' = overlay /\ row' = row
  BY MemoryUnchanged DEF Keeps
<1>2. ReplayOK(q) /\ CleanOK(q)
  BY DEF IInv
<1>3. Seen(q)' = Seen(q)
  BY <1>1 DEF Seen, Untouched
<1>4. ReplayOK(q)'
  BY <1>1, <1>2 DEF ReplayOK, Open, Retired, RowOK, Untouched
<1>5. CleanOK(q)'
  BY <1>1, <1>2, <1>3 DEF CleanOK, Open, Untouched
<1> QED
  BY <1>4, <1>5

LEMMA OneMoves ==
  ASSUME IInv, NEW r \in Replays, Keeps(r), ReplayOK(r)', CleanOK(r)'
  PROVE  IInv'
<1>1. \A q \in Replays : ReplayOK(q)' /\ CleanOK(q)'
  BY OthersKeep
<1>2. /\ frame' = frame /\ into' = into /\ overlay' = overlay /\ row' = row /\ rebuilt' = rebuilt
      /\ DOMAIN replay' = Replays
  BY DEF Keeps
<1> QED
  BY <1>1, <1>2 DEF IInv, Retired, RowOK

\* Of the frames that are rebuilt, only the one that moves could disturb them.
LEMMA OneMovesRetired ==
  ASSUME RetiredGone, NEW r \in Replays, Keeps(r),
         Open(r)' => \A f \in rebuilt : replay'[r].made[f] = Untouched /\ replay'[r].mine[f] \in {Untouched, Nothing},
         At(r, "pruned")' /\ replay'[r].retired # NoFrame => Seen(r)'[replay'[r].retired] = Nothing
  PROVE  RetiredGone'
<1>1. row' = row /\ rebuilt' = rebuilt /\ \A q \in Replays \ {r} : replay'[q] = replay[q]
  BY DEF Keeps
<1>2. \A q \in Replays \ {r} : Seen(q)' = Seen(q)
  BY <1>1 DEF Seen, Untouched
<1>3. \A f \in rebuilt' : row'[f] = Nothing
  BY <1>1 DEF RetiredGone
<1>4. ASSUME NEW f \in rebuilt', NEW q \in Replays, Open(q)'
      PROVE  replay'[q].made[f] = Untouched /\ replay'[q].mine[f] \in {Untouched, Nothing}
  BY <1>1, <1>4 DEF RetiredGone, Open
<1>5. ASSUME NEW q \in Replays, At(q, "pruned")', replay'[q].retired # NoFrame
      PROVE  Seen(q)'[replay'[q].retired] = Nothing
  <2>1. CASE q = r
    BY <1>5, <2>1
  <2>2. CASE q # r
    <3>1. At(q, "pruned") /\ replay[q].retired # NoFrame
      BY <1>1, <1>5, <2>2 DEF At
    <3>2. Seen(q)[replay[q].retired] = Nothing
      BY <3>1 DEF RetiredGone
    <3> QED
      BY <1>1, <1>2, <2>2, <3>2
  <2> QED
    BY <2>1, <2>2
<1> QED
  BY <1>3, <1>4, <1>5 DEF RetiredGone, Untouched

LEMMA StepBegin ==
  ASSUME ProjectionAssumption, IInv, NEW r \in Replays, NEW retired \in (Frames \ Active) \cup {NoFrame},
         Begin(r, retired)
  PROVE  IInv' /\ (RetiredGone => RetiredGone')
<1>1. /\ Keeps(r) /\ DOMAIN replay'[r] = Fields
      /\ retired # NoFrame => Retired(retired) /\ retired \notin rebuilt
      /\ replay'[r].at = "deltas" /\ replay'[r].retired = retired /\ replay'[r].applying = (retired # NoFrame)
      /\ replay'[r].deltas = ReadDeltas
      /\ \A f \in Frames : replay'[r].made[f] = Untouched /\ replay'[r].mine[f] = Untouched
  BY BeginDoes
<1>2. /\ frame' = frame /\ overlay' = overlay /\ row' = row /\ rebuilt' = rebuilt
      /\ ReadDeltas' = ReadDeltas /\ Untouched' = Untouched
  BY <1>1, MemoryUnchanged DEF Keeps, Untouched
<1>3. DOMAIN ReadDeltas \subseteq 1..Len(overlay)
  BY DEF ReadDeltas, IInv
<1>4. ReplayOK(r)'
  BY <1>1, <1>2, <1>3 DEF ReplayOK, Places, Retired
<1>5. CleanOK(r)'
  BY <1>1, <1>2 DEF CleanOK
<1>6. IInv'
  BY <1>1, <1>4, <1>5, OneMoves
<1>7. \A f \in rebuilt : f \in Frames
  BY DEF IInv
<1>8. RetiredGone => RetiredGone'
  BY <1>1, <1>7, OneMovesRetired DEF At
<1> QED
  BY <1>6, <1>8

LEMMA StepBuildRows ==
  ASSUME ProjectionAssumption, IInv, NEW r \in Replays, BuildRows(r)
  PROVE  IInv' /\ (RetiredGone => RetiredGone')
<1>1. /\ Keeps(r) /\ Open(r) /\ replay[r].at = "deltas" /\ DOMAIN replay'[r] = Fields
      /\ replay'[r].at = "built"
      /\ \A f \in Frames : replay'[r].made[f] =
           IF f \in Active THEN BuiltRow(f, replay[r].deltas, Len(overlay)) ELSE Untouched
      /\ replay'[r].mine = replay[r].mine /\ replay'[r].deltas = replay[r].deltas
      /\ replay'[r].retired = replay[r].retired /\ replay'[r].applying = replay[r].applying
      /\ replay'[r].before = replay[r].before /\ replay'[r].clean = replay[r].clean
  BY BuildRowsDoes
<1>2. /\ frame' = frame /\ overlay' = overlay /\ row' = row /\ rebuilt' = rebuilt
      /\ Target' = Target /\ Active' = Active /\ Untouched' = Untouched
  BY <1>1, MemoryUnchanged DEF Keeps, Untouched
<1>3. ReplayOK(r) /\ CleanOK(r) /\ Len(overlay) \in Nat
  BY DEF IInv
<1>4. \A f \in Frames : replay'[r].made[f] = Untouched \/ RowOK(replay'[r].made[f], Len(overlay))
  BY <1>1, <1>3, RowsBuilt DEF ReplayOK
<1>5. \A f \in Frames : Retired(f) => f \notin Active
  BY DEF Retired, Active
<1>6. ReplayOK(r)'
  BY <1>1, <1>2, <1>3, <1>4, <1>5 DEF ReplayOK, Places, Retired, RowOK
<1>7. CleanOK(r)'
  <2> SUFFICES ASSUME replay[r].clean PROVE CleanOK(r)'
    BY <1>1 DEF CleanOK
  <2>1. replay[r].deltas = ReadDeltas
    BY <1>1, <1>3 DEF CleanOK
  <2>2. \A f \in Frames : replay'[r].made[f] = IF f \in Active THEN Target[f] ELSE Untouched
    BY <1>1, <2>1 DEF Target, TargetRow
  <2> QED
    BY <1>1, <1>2, <1>3, <2>2 DEF CleanOK
<1>8. IInv'
  BY <1>1, <1>6, <1>7, OneMoves
<1>9. \A f \in rebuilt : f \in Frames /\ f \notin Active
  BY <1>5 DEF IInv
<1>10. RetiredGone => RetiredGone'
  <2> SUFFICES ASSUME RetiredGone PROVE RetiredGone'
    OBVIOUS
  <2>1. \A f \in rebuilt : replay'[r].made[f] = Untouched /\ replay'[r].mine[f] \in {Untouched, Nothing}
    BY <1>1, <1>9 DEF RetiredGone
  <2> QED
    BY <1>1, <2>1, OneMovesRetired DEF At
<1> QED
  BY <1>8, <1>10

LEMMA StepWriteRows ==
  ASSUME ProjectionAssumption, IInv, NEW r \in Replays, WriteRows(r)
  PROVE  IInv' /\ (RetiredGone => RetiredGone')
<1>1. /\ Keeps(r) /\ Open(r) /\ replay[r].at = "built" /\ DOMAIN replay'[r] = Fields
      /\ replay'[r].at = "written"
      /\ \A f \in Frames : replay'[r].mine[f] =
           IF replay[r].made[f] # Untouched THEN replay[r].made[f] ELSE replay[r].mine[f]
      /\ replay'[r].made = replay[r].made /\ replay'[r].deltas = replay[r].deltas
      /\ replay'[r].retired = replay[r].retired /\ replay'[r].applying = replay[r].applying
      /\ replay'[r].before = replay[r].before /\ replay'[r].clean = replay[r].clean
  BY WriteRowsDoes
<1>2. /\ frame' = frame /\ overlay' = overlay /\ row' = row /\ rebuilt' = rebuilt
      /\ Target' = Target /\ Active' = Active /\ Untouched' = Untouched
  BY <1>1, MemoryUnchanged DEF Keeps, Untouched
<1>3. ReplayOK(r) /\ CleanOK(r) /\ Len(overlay) \in Nat
  BY DEF IInv
<1>4. ReplayOK(r)'
  BY <1>1, <1>2, <1>3 DEF ReplayOK, Places, Retired, RowOK
<1>5. CleanOK(r)'
  <2> SUFFICES ASSUME replay[r].clean PROVE CleanOK(r)'
    BY <1>1 DEF CleanOK
  <2>1. \A f \in Frames : replay[r].made[f] = IF f \in Active THEN Target[f] ELSE Untouched
    BY <1>1, <1>3 DEF CleanOK
  <2>2. \A f \in Active : f \in Frames /\ Target[f] # Untouched
    <3>1. DOMAIN ReadDeltas \subseteq 1..Len(overlay)
      BY DEF ReadDeltas, IInv
    <3>2. \A f : TargetRow(f) # Untouched
      BY <1>3, <3>1, RowsBuilt DEF TargetRow
    <3> QED
      BY <3>2 DEF Target, Active
  <2>3. \A f \in Active : Seen(r)'[f] = Target[f]
    BY <1>1, <1>2, <2>1, <2>2 DEF Seen
  <2> QED
    BY <1>1, <1>2, <1>3, <2>1, <2>3 DEF CleanOK
<1>6. IInv'
  BY <1>1, <1>4, <1>5, OneMoves
<1>7. \A f \in rebuilt : f \in Frames
  BY DEF IInv
<1>8. RetiredGone => RetiredGone'
  <2> SUFFICES ASSUME RetiredGone PROVE RetiredGone'
    OBVIOUS
  <2>1. \A f \in rebuilt : replay'[r].made[f] = Untouched /\ replay'[r].mine[f] \in {Untouched, Nothing}
    BY <1>1, <1>7 DEF RetiredGone
  <2> QED
    BY <1>1, <2>1, OneMovesRetired DEF At
<1> QED
  BY <1>6, <1>8

LEMMA StepPruneRows ==
  ASSUME ProjectionAssumption, IInv, NEW r \in Replays, PruneRows(r)
  PROVE  IInv' /\ (RetiredGone => RetiredGone')
<1>1. /\ Keeps(r) /\ Open(r) /\ replay[r].at = "written" /\ DOMAIN replay'[r] = Fields
      /\ replay'[r].at = IF replay[r].applying THEN "applied" ELSE "pruned"
      /\ \A f \in Frames : replay'[r].mine[f] =
           IF f \in Prunable(r) /\ Seen(r)[f] # Nothing THEN Nothing ELSE replay[r].mine[f]
      /\ \A f \in Frames : replay'[r].made[f] = Untouched
      /\ replay'[r].deltas = replay[r].deltas
      /\ replay'[r].retired = replay[r].retired /\ replay'[r].applying = replay[r].applying
      /\ replay'[r].before = replay[r].before /\ replay'[r].clean = replay[r].clean
  BY PruneRowsDoes
<1>2. /\ frame' = frame /\ overlay' = overlay /\ row' = row /\ rebuilt' = rebuilt
      /\ Target' = Target /\ Active' = Active /\ Untouched' = Untouched
  BY <1>1, MemoryUnchanged DEF Keeps, Untouched
<1>3. ReplayOK(r) /\ CleanOK(r) /\ Len(overlay) \in Nat
  BY DEF IInv
<1>4. ReplayOK(r)'
  BY <1>1, <1>2, <1>3 DEF ReplayOK, Places, Retired, RowOK
<1>5. \A f \in Frames : Seen(r)'[f] = IF f \in Prunable(r) THEN Nothing ELSE Seen(r)[f]
  BY <1>1, <1>2 DEF Seen, ProjectionAssumption
<1>6. CleanOK(r)'
  <2> SUFFICES ASSUME replay[r].clean PROVE CleanOK(r)'
    BY <1>1 DEF CleanOK
  <2>1. \A f \in Frames : replay[r].made[f] = IF f \in Active THEN Target[f] ELSE Untouched
    BY <1>1, <1>3 DEF CleanOK
  <2>2. \A f \in Active : f \in Frames /\ Seen(r)[f] = Target[f]
    BY <1>1, <1>3 DEF CleanOK, Active
  <2>3. \A f \in Active : Target[f] # Untouched
    <3>1. DOMAIN ReadDeltas \subseteq 1..Len(overlay)
      BY DEF ReadDeltas, IInv
    <3>2. \A f : TargetRow(f) # Untouched
      BY <1>3, <3>1, RowsBuilt DEF TargetRow
    <3> QED
      BY <3>2 DEF Target, Active
  <2>4. \A f \in Frames : f \in Prunable(r) <=> f \notin Active
    BY <2>1, <2>3 DEF Prunable, Made
  <2>5. \A f \in Frames : Seen(r)'[f] = Target[f]
    BY <1>5, <2>2, <2>4 DEF Target
  <2>6. Seen(r)' = Target
    BY <2>5 DEF Seen, Target
  <2> QED
    BY <1>1, <1>2, <1>3, <2>6 DEF CleanOK
<1>7. IInv'
  BY <1>1, <1>4, <1>6, OneMoves
<1>8. \A f \in rebuilt : f \in Frames
  BY DEF IInv
<1>9. RetiredGone => RetiredGone'
  <2> SUFFICES ASSUME RetiredGone PROVE RetiredGone'
    OBVIOUS
  <2>1. \A f \in rebuilt : replay'[r].made[f] = Untouched /\ replay'[r].mine[f] \in {Untouched, Nothing}
    BY <1>1, <1>8 DEF RetiredGone
  <2>2. replay'[r].retired # NoFrame => Seen(r)'[replay'[r].retired] = Nothing
    BY <1>1, <1>3, <1>5 DEF ReplayOK, Retired, Prunable, Active
  <2> QED
    BY <1>1, <2>1, <2>2, OneMovesRetired
<1> QED
  BY <1>7, <1>9

LEMMA StepAgain ==
  ASSUME IInv, NEW r \in Replays, Again(r)
  PROVE  IInv' /\ (RetiredGone => RetiredGone')
<1>1. /\ Keeps(r) /\ Open(r) /\ replay[r].at = "applied" /\ DOMAIN replay'[r] = Fields
      /\ replay'[r].at = "deltas" /\ ~replay'[r].applying
      /\ replay'[r].before = Seen(r) /\ replay'[r].deltas = ReadDeltas
      /\ replay'[r].made = replay[r].made /\ replay'[r].mine = replay[r].mine
      /\ replay'[r].retired = replay[r].retired /\ replay'[r].clean = replay[r].clean
  BY AgainDoes
<1>2. /\ frame' = frame /\ overlay' = overlay /\ row' = row /\ rebuilt' = rebuilt
      /\ ReadDeltas' = ReadDeltas /\ Target' = Target /\ Untouched' = Untouched
  BY <1>1, MemoryUnchanged DEF Keeps, Untouched
<1>3. ReplayOK(r) /\ CleanOK(r)
  BY DEF IInv
<1>4. DOMAIN ReadDeltas \subseteq 1..Len(overlay)
  BY DEF ReadDeltas, IInv
<1>5. ReplayOK(r)'
  BY <1>1, <1>2, <1>3, <1>4 DEF ReplayOK, Places, Retired, RowOK
<1>6. CleanOK(r)'
  BY <1>1, <1>2, <1>3 DEF CleanOK
<1>7. IInv'
  BY <1>1, <1>5, <1>6, OneMoves
<1>8. RetiredGone => RetiredGone'
  <2> SUFFICES ASSUME RetiredGone PROVE RetiredGone'
    OBVIOUS
  <2>1. \A f \in rebuilt : replay'[r].made[f] = Untouched /\ replay'[r].mine[f] \in {Untouched, Nothing}
    BY <1>1 DEF RetiredGone
  <2> QED
    BY <1>1, <2>1, OneMovesRetired DEF At
<1> QED
  BY <1>7, <1>8

LEMMA StepAbort ==
  ASSUME IInv, NEW r \in Replays, Abort(r)
  PROVE  IInv' /\ (RetiredGone => RetiredGone')
<1>1. Keeps(r) /\ ~Open(r)'
  BY DEF IInv, Abort, Keeps, Open
<1>2. IInv'
  BY <1>1, OneMoves DEF ReplayOK, CleanOK
<1>3. RetiredGone => RetiredGone'
  BY <1>1, OneMovesRetired DEF At, Open
<1> QED
  BY <1>2, <1>3

LEMMA StepCommitReplay ==
  ASSUME IInv, NEW r \in Replays, CommitReplay(r)
  PROVE  IInv' /\ (Alone /\ RetiredGone => RetiredGone')
<1>1. /\ Open(r) /\ replay[r].at = "pruned" /\ row' = Seen(r)
      /\ rebuilt' = rebuilt \cup ({replay[r].retired} \ {NoFrame})
      /\ frame' = frame /\ into' = into /\ overlay' = overlay
      /\ replay' = [Disturbed EXCEPT ![r] = Nothing]
  BY DEF CommitReplay, At, Open
<1>2. ReplayOK(r) /\ DOMAIN replay = Replays
  BY DEF IInv
<1>3. ~Open(r)' /\ DOMAIN replay' = Replays /\ \A q \in Replays \ {r} : replay'[q] = Disturbed[q]
  BY <1>1 DEF Disturbed, Open
<1>4. \A q \in Replays : ReplayOK(q)' /\ CleanOK(q)'
  <2>1. ReplayOK(r)' /\ CleanOK(r)'
    BY <1>3 DEF ReplayOK, CleanOK
  <2>2. ASSUME NEW q \in Replays \ {r} PROVE ReplayOK(q)' /\ CleanOK(q)'
    <3>1. Disturbs(q)
      BY <1>3, DisturbedIs
    <3>2. /\ overlay' \in Seq(Deltas) /\ Len(overlay) <= Len(overlay')
          /\ \A f \in Frames : Retired(f) => Retired(f)'
      BY <1>1 DEF IInv, Retired
    <3> QED
      BY <3>1, <3>2, DisturbedKeeps
  <2> QED
    BY <2>1, <2>2
<1>5. DOMAIN row' = Frames /\ \A f \in Frames : row'[f] = IF replay[r].mine[f] = Untouched THEN row[f] ELSE replay[r].mine[f]
  BY <1>1 DEF Seen
<1>6. \A f \in Frames : row'[f] = Nothing \/ RowOK(row'[f], Len(overlay))
  BY <1>1, <1>2, <1>5 DEF ReplayOK, IInv
<1>7. rebuilt' \subseteq Frames /\ \A f \in rebuilt' : Retired(f)
  BY <1>1, <1>2 DEF ReplayOK, IInv
<1>8. IInv'
  BY <1>1, <1>3, <1>4, <1>5, <1>6, <1>7 DEF IInv, RowOK, Retired
<1>9. ASSUME Alone, RetiredGone PROVE RetiredGone'
  <2>1. \A q \in Replays : ~Open(q)'
    BY <1>1, <1>3, <1>9 DEF Alone, Open, Disturbed
  <2>2. \A f \in rebuilt : row'[f] = Nothing
    BY <1>1, <1>5, <1>9 DEF RetiredGone, IInv
  <2>3. replay[r].retired # NoFrame => row'[replay[r].retired] = Nothing
    BY <1>1, <1>9 DEF RetiredGone, At, Open
  <2>4. \A f \in rebuilt' : row'[f] = Nothing
    BY <1>1, <2>2, <2>3
  <2> QED
    BY <2>1, <2>4 DEF RetiredGone, At, Open
<1> QED
  BY <1>8, <1>9

-----------------------------------------------------------------------------
(* What a specification that takes these steps may rely on.                *)

LEMMA Steps ==
  ASSUME ProjectionAssumption, IInv, ProjectionNext
  PROVE  IInv' /\ (Alone /\ RetiredGone => RetiredGone')
<1>1. CASE \E f \in Frames : CreateFrame(f) \/ \E s \in Statements : State(f, s)
  BY <1>1, StepCreateFrame, StepState
<1>2. CASE \E i \in DOMAIN stated, life \in {"ACCEPTED", "RETRACTED"} : Govern(i, life)
  BY <1>2, StepGovern
<1>3. CASE \E f \in Frames, w \in Words : Say(f, w)
  BY <1>3, StepSay
<1>4. CASE \E i \in DOMAIN overlay, life \in {"CONTESTED", "SETTLED"} : Judge(i, life)
  BY <1>4, StepJudge
<1>5. CASE \E m, s \in Active : MergeFrames(m, s)
  BY <1>5, StepMergeFrames
<1>6. CASE \E p \in Active, c1, c2 \in Frames \ Active, first \in SUBSET DOMAIN stated : SplitFrame(p, c1, c2, first)
  BY <1>6, StepSplitFrame
<1>7. CASE \E r \in Replays, retired \in (Frames \ Active) \cup {NoFrame} : Begin(r, retired)
  BY <1>7, StepBegin
<1>8. ASSUME NEW r \in Replays,
             BuildRows(r) \/ WriteRows(r) \/ PruneRows(r) \/ Again(r) \/ CommitReplay(r) \/ Abort(r)
      PROVE  IInv' /\ (Alone /\ RetiredGone => RetiredGone')
  BY <1>8, StepBuildRows, StepWriteRows, StepPruneRows, StepAgain, StepCommitReplay, StepAbort
<1> QED
  BY <1>1, <1>2, <1>3, <1>4, <1>5, <1>6, <1>7, <1>8 DEF ProjectionNext

LEMMA Stutters ==
  ASSUME IInv, UNCHANGED vars
  PROVE  IInv' /\ (RetiredGone => RetiredGone')
<1>1. /\ frame' = frame /\ into' = into /\ stated' = stated /\ overlay' = overlay
      /\ row' = row /\ replay' = replay /\ rebuilt' = rebuilt
  BY DEF vars
<1>2. Target' = Target /\ ReadDeltas' = ReadDeltas /\ Active' = Active
  BY <1>1, MemoryUnchanged
<1>3. \A r \in Replays : Seen(r)' = Seen(r)
  BY <1>1 DEF Seen, Untouched
<1>4. \A r \in Replays : ReplayOK(r)' /\ CleanOK(r)'
  <2>1. \A r \in Replays : ReplayOK(r)'
    BY <1>1 DEF IInv, ReplayOK, Open, Retired, RowOK, Untouched
  <2>2. \A r \in Replays : CleanOK(r)'
    BY <1>1, <1>2, <1>3 DEF IInv, CleanOK, Open, Untouched
  <2> QED
    BY <2>1, <2>2
<1>5. IInv'
  BY <1>1, <1>4 DEF IInv, Retired, RowOK
<1>6. RetiredGone => RetiredGone'
  BY <1>1, <1>3 DEF RetiredGone, Open, At, Untouched
<1> QED
  BY <1>5, <1>6

LEMMA Shows ==
  ASSUME ProjectionAssumption, IInv
  PROVE  ProjectionTypeOK /\ NoWriteLost /\ ReplayEqualsApply /\ (RetiredGone => RetiredHaveNoRow)
<1>1. ProjectionTypeOK
  <2>1. Len(overlay) \in Nat
    BY DEF IInv
  <2> QED
    BY <2>1 DEF IInv, ProjectionTypeOK, RowOK, Retired
<1>2. NoWriteLost
  BY NoneIsLost DEF IInv
<1>3. ReplayEqualsApply
  <2> SUFFICES ASSUME NEW r \in Replays, At(r, "pruned"), replay[r].clean
               PROVE  /\ replay[r].retired # NoFrame => replay[r].before = Seen(r)
                      /\ Seen(r) = Target
    BY DEF ReplayEqualsApply, Target, TargetRow
  <2>1. Open(r) /\ replay[r].at = "pruned" /\ ~replay[r].applying /\ CleanOK(r)
    BY DEF At, Open, IInv, ReplayOK
  <2> QED
    BY <2>1 DEF CleanOK
<1>4. RetiredGone => RetiredHaveNoRow
  BY DEF RetiredGone, RetiredHaveNoRow
<1> QED
  BY <1>1, <1>2, <1>3, <1>4

-----------------------------------------------------------------------------
(* A projection by itself: one reducer, with any frames, words and sessions. *)

ProjectionSpec == ProjectionInit /\ [][ProjectionNext]_vars

\* However replays, rebuilds and the acts of others follow one another, a read of a row
\* reports or shows every open write of the owner's about its frame, and a replay that
\* nobody disturbed leaves what the reducer makes of memory then.
THEOREM ReducersKeepTheirWord ==
  ASSUME ProjectionAssumption
  PROVE  ProjectionSpec => [](ProjectionTypeOK /\ NoWriteLost /\ ReplayEqualsApply)
<1>1. ProjectionInit => IInv
  BY Begins
<1>2. IInv /\ [ProjectionNext]_vars => IInv'
  BY Steps, Stutters
<1>3. IInv => ProjectionTypeOK /\ NoWriteLost /\ ReplayEqualsApply
  BY Shows
<1> QED
  BY <1>1, <1>2, <1>3, PTL DEF ProjectionSpec

\* As long as no two replays have overlapped, what a merge or split retired has no row once
\* its rebuild has its receipts.
THEOREM RetiredAreGone ==
  ASSUME ProjectionAssumption
  PROVE  ProjectionSpec /\ []Alone => []RetiredHaveNoRow
<1>1. ProjectionInit => IInv /\ RetiredGone
  BY Begins
<1>2. IInv /\ RetiredGone /\ Alone /\ [ProjectionNext]_vars => (IInv /\ RetiredGone)'
  BY Steps, Stutters
<1>3. IInv /\ RetiredGone => RetiredHaveNoRow
  BY Shows
<1> QED
  BY <1>1, <1>2, <1>3, PTL DEF ProjectionSpec
================================================================================
