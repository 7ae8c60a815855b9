----------------------------- MODULE MCEvidence -----------------------------
(* Instances of EvidenceProcessing, and of the reducers whose rows a source    *)
(* ends in (Projections).  They are apart: a behaviour is about one of them.   *)
EXTENDS EvidenceProcessing, TLC

CONSTANTS w1, w2,
          Subjects             \* "processing", "obligations", "commitments", "schedule"

\* SQL's NULL is no row.
ASSUME NoneAssumption == None # [untouched |-> TRUE]

OneSource == {1}
TwoWorkers == {w1, w2}
OneWorkerSteady == {w1}
AllKinds == [w \in TwoWorkers |-> OneSource]

Interchangeable == Permutations(TwoWorkers)

VARIABLES frame, into, stated, overlay, row, replay, rebuilt, replayed, acts
projections == <<frame, into, stated, overlay, row, replay, rebuilt, replayed, acts>>

Of(kind, values) == {[kind |-> kind, value |-> v] : v \in values}
Word(kind, value, byClaim) == [kind |-> kind, value |-> value, byClaim |-> byClaim]
Shekels(n) == [amount |-> n, currency |-> "ILS"]
Dollars(n) == [amount |-> n, currency |-> "USD"]

(* Instances of Projections, one for each reducer, with the lemmas about it   *)
(* (ProjectionsProofs) that the theorems about these behaviours rest on.     *)
\* An owed amount, allocations against it, and an owner who says another amount.
O == INSTANCE ProjectionsProofs WITH Projection <- "obligations", Frames <- 1..3, Existing <- {1, 2},
       Statements <- Of("principal", {Shekels(5), Dollars(6)}) \cup Of("allocated", {Dollars(2)}),
       Words <- {Word("value", Shekels(7), FALSE), Word("value", None, TRUE)},
       Replays <- {w1}, MaxActs <- 3, MaxReplays <- 2, Nothing <- None

\* A promise with its outcomes, and an owner who says that it is kept, or half kept.
C == INSTANCE ProjectionsProofs WITH Projection <- "commitments", Frames <- 1..3, Existing <- {1, 2},
       Statements <- Of("outcome", {"PARTIALLY_FULFILLED", "FULFILLED", "CANCELLED"}),
       Words <- {Word("value", "RESOLVED", FALSE), Word("value", "PARTIALLY_RESOLVED", TRUE)},
       Replays <- {w1}, MaxActs <- 3, MaxReplays <- 2, Nothing <- None

\* Two sessions that replay at once, over frames that merge and split.
S == INSTANCE ProjectionsProofs WITH Projection <- "schedule", Frames <- 1..3, Existing <- {1},
       Statements <- Of("time", {1}), Words <- {Word("hide", None, FALSE), Word("lineage", None, FALSE)},
       Replays <- {w1, w2}, MaxActs <- 2, MaxReplays <- 2, Nothing <- None

(* What a behaviour is about; and, history of a projection, whether no two    *)
(* replays of it overlapped.                                                 *)
VARIABLES inTime, subject

MCInit ==
  /\ PInit /\ inTime = TRUE /\ subject \in Subjects
  /\ \/ subject = "obligations" /\ O!ProjectionInit
     \/ subject = "commitments" /\ C!ProjectionInit
     \/ subject \in {"schedule", "processing"} /\ S!ProjectionInit
MCNext ==
  /\ UNCHANGED subject
  /\ \/ /\ subject = "processing" /\ PNext
        /\ UNCHANGED <<projections, inTime>>
     \/ /\ \/ subject = "obligations" /\ O!ProjectionNext
           \/ subject = "commitments" /\ C!ProjectionNext
           \/ subject = "schedule" /\ S!ProjectionNext
        /\ inTime' = (inTime /\ Cardinality({r \in DOMAIN replay' : replay'[r] # None}) <= 1)
        /\ UNCHANGED allVars
     \* The acts and replays of a projection are bounded.
     \/ subject # "processing" /\ UNCHANGED <<allVars, projections, inTime>>
MCSpec == MCInit /\ [][MCNext]_<<allVars, projections, inTime, subject>>
MCFairSpec == MCSpec /\ PFairness

\* Of the projection that a behaviour is about.
Each(obligations, commitments, schedule) ==
  CASE subject = "obligations" -> obligations
    [] subject = "commitments" -> commitments
    [] OTHER -> schedule

TypesOK == PTypeOK /\ Each(O!ProjectionTypeOK, C!ProjectionTypeOK, S!ProjectionTypeOK)

\* No write of the owner's is lost between the overlay and a read of a projection.
NoWriteLost == Each(O!NoWriteLost, C!NoWriteLost, S!NoWriteLost)

\* An undisturbed replay leaves what the reducer says now, as the incremental step did;
\* and while no two replays overlap, what a merge or split retired has no row.
RowsAgreeWithMemory ==
  /\ Each(O!ReplayEqualsApply, C!ReplayEqualsApply, S!ReplayEqualsApply)
  /\ inTime => Each(O!RetiredHaveNoRow, C!RetiredHaveNoRow, S!RetiredHaveNoRow)

\* The comment at the pruning: no row is left keyed by an identity that no longer means
\* one live situation.
RetiredHaveNoRow == Each(O!RetiredHaveNoRow, C!RetiredHaveNoRow, S!RetiredHaveNoRow)

\* The comment at the fold: "No conversion, ever".
NothingConverted == Each(O!NothingConverted, C!NothingConverted, S!NothingConverted)
=============================================================================
