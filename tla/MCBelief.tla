------------------------------ MODULE MCBelief ------------------------------
(* Instances of BeliefGovernor and, apart from it, of Lineage, the merges and *)
(* splits its transactions carry out, and of Answering, which reads what it   *)
(* has committed.  A behaviour is about one of them.                         *)
EXTENDS BeliefGovernor, Answering, TLC

CONSTANTS s1, s2, p1, p2, p3, k1,
          Subjects,   \* what this run is about: "governor", "lineage", "answering"
          Frames, Existing, Slots, Values, Statements, Writers, Assessable,
          told, elsewhere, drawn, echo

VARIABLES frame, lineage, slot, verdict, into, claim, support, writer
L == INSTANCE Lineage WITH Claims <- Statements
ASSUME IdentifierAssumption ==
  /\ Frames \subseteq Nat \ {0} /\ Slots \subseteq Nat \ {0} /\ Assessable \subseteq L!Settled
  /\ IsFiniteSet(Slots) /\ IsFiniteSet(Values)
identities == <<frame, lineage, slot, verdict, into, claim, support, writer>>

\* Two are told by the owner, one of them for another purpose; one is drawn from the
\* first, or from the other with its own echo.  One question is asked; what was told is
\* erased.
FourBeliefs == {told, elsewhere, drawn, echo}
ToldBeliefs == {told, elsewhere}
TouchedBeliefs == {told, drawn}
InputsOf == (told :> {}) @@ (elsewhere :> {}) @@ (drawn :> {{told}, {elsewhere, echo}}) @@ (echo :> {{drawn}})

TwoSessions == {s1, s2}
Interchangeable == Permutations(TwoSessions) \cup Permutations(Values) \cup Permutations(Statements)

Three == {p1, p2, p3}
OneClaim == {k1}

\* p1 and p2 compete for one slot.
SharedSlot == (p1 :> 1) @@ (p2 :> 1) @@ (p3 :> 2)

Nothing == [p \in Three |-> None]
Say(p, status) == [Nothing EXCEPT ![p] = status]

\* Two values of one slot, one of which rests on p3, which rests on the other; a
\* derivation of p3 from p1 and a claim; and what takes the inputs
\* back.
Contents ==
  [accept_1  |-> [edges |-> {<<p1, p3>>}, says |-> Say(p1, "ACCEPTED"), derives |-> {}, suppresses |-> {}],
   accept_2  |-> [edges |-> {<<p2, p1>>}, says |-> Say(p2, "ACCEPTED"), derives |-> {}, suppresses |-> {}],
   derive_3  |-> [edges |-> {<<p3, p2>>}, says |-> Say(p3, "PROVISIONAL"),
                  derives |-> {[derived |-> p3, inputs |-> {p1, k1}]}, suppresses |-> {}],
   retract_1 |-> [edges |-> {}, says |-> Say(p1, "REJECTED"), derives |-> {}, suppresses |-> {}],
   suppress  |-> [edges |-> {}, says |-> Nothing, derives |-> {}, suppresses |-> {k1}],
   barred    |-> [edges |-> {}, says |-> Say(p2, "ACCEPTED"), derives |-> {}, suppresses |-> {}]]

All == DOMAIN Contents

EdgesOf == [t \in All |-> Contents[t].edges]
VerdictsOf == [t \in All |-> Contents[t].says]
DerivesOf == [t \in All |-> Contents[t].derives]
SuppressesOf == [t \in All |-> Contents[t].suppresses]

\* An assistant supports the last, which policy forbids.
Permitted == All \ {"barred"}

FiveFrames == 1..5
OneFrame == {1}
FourSlots == 1..4

(* History: whether whoever writes has kept out of the others' way so far: *)
(* a session begins, a claim is canonicalized, a frame is merged or split  *)
(* only when nothing else is at work.                                      *)
VARIABLES alone, subject

Busy == {s \in Sessions : session[s].at # "idle"}
AtWork == {w \in Writers : writer[w] # L!Idle}

MCInit == Init /\ L!LineageInit /\ AnswerInit /\ alone = TRUE /\ subject \in Subjects
MCNext ==
  \/ /\ subject = "governor" /\ Next
     /\ alone' = (alone /\ (session' = session \/ \A s \in Busy : session'[s] # session[s]))
     /\ UNCHANGED <<identities, answerVars, subject>>
  \/ /\ subject = "lineage" /\ L!LineageNext
     /\ alone' = (alone /\ IF frame' = frame THEN Cardinality({w \in Writers : writer'[w] # L!Idle}) <= 1
                           ELSE AtWork = {})
     /\ UNCHANGED <<vars, answerVars, subject>>
  \/ subject = "answering" /\ AnswerNext /\ UNCHANGED <<vars, identities, alone, subject>>
MCSpec == MCInit /\ [][MCNext]_<<vars, identities, answerVars, alone, subject>>

TypesOK ==
  /\ subject = "governor" => TypeOK
  /\ subject = "lineage" => L!LineageTypeOK
  /\ subject = "answering" => AnswerTypeOK

\* Without overlapping commits no belief rests on itself (findSupportCycle has seen
\* the new edges together with every stored one), a slot has one accepted value (a
\* material conflict keeps a change set from being committed; the values that one change
\* set accepts are not compared with one another), and a belief derived
\* from no other derivation does not outlive its inputs, in whatever order they are
\* taken back.
GraphSoundAlone == subject = "governor" /\ alone => SupportAcyclic /\ OneAcceptedPerSlot /\ DerivedFollowInputs

\* An old identity leads to something live or to the frame it was split into, by the
\* query that reads forward and by the one that reads backward alike.  When no merge or
\* split comes between the statements of a canonicalization, a live frame is one
\* location with one accepted value, whatever was merged into it or split off, and a
\* claim that nobody contested speaks for a live frame -- but for one whose place given
\* by a split was then merged away.
LineageSound == subject = "lineage" => L!OldIdsResolve /\ (alone => L!OneLocationEach /\ L!NoOtherClaimLeftBehind)

\* PRD 14.2: a split reassigns a claim or leaves it contested.
NoClaimLeftBehindAlone == alone => L!NoClaimLeftBehind
=============================================================================
