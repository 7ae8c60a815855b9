----------------------------- MODULE MCOwnerData -----------------------------
(* Instances of five models of the owner's data, each apart from the others: *)
(* a behaviour is about one of them.  What is interchangeable in one is named *)
(* by the same model values as in another.                                   *)
EXTENDS OwnerOverlay, EvidenceIntake, GovernedActions, Inbox, TLC

CONSTANTS correct, assert, unsure, old, new,
          Subjects,             \* what this run is about: "overlay", "erasure", "intake", "actions", "inbox"
          Two, Three

(* The overlay's instance.                                                   *)
AllRequests == {correct, assert, unsure}
AllValues == {old, new}
KindOf == (correct :> "USER_CORRECTION") @@ (assert :> "USER_ASSERTION") @@ (unsure :> "KEEP_UNCERTAIN")
TargetOf == [r \in AllRequests |-> old]
Screens == {correct, unsure}
Governed == {correct}
Both == {"add_claim", "worker"}

VARIABLES item, bytes, memory, retired, writer, erasing, faults
E == INSTANCE Erasure WITH Evidence <- Two, Propositions <- Three, MaxClaims <- 2, MaxComputed <- 2,
       MaxExtras <- 2
ASSUME PropositionsAssumption == IsFiniteSet(Three)
erasure == <<item, bytes, memory, retired, writer, erasing, faults>>

\* The inbox's: there may come to be more about the first question.
Visible == {{1, 2}}
OnceMore == <<2, 1>>

Interchangeable == Permutations(Two) \cup Permutations(Three)

(* History: whether the sessions have kept out of one another's way so far,  *)
(* each beginning only when no other was at work.                           *)
VARIABLES alone, subject

Busy == {s \in Sessions : session[s].at # "idle"}

MCInit ==
  /\ Init /\ E!Init /\ IntakeInit /\ ActionInit /\ InboxInit
  /\ alone = TRUE /\ subject \in Subjects /\ (subject # "actions" => ~granted)
MCNext ==
  \/ /\ subject = "overlay" /\ Next
     /\ alone' = (alone /\ (session' = session \/ \A s \in Busy : session'[s] # session[s]))
     /\ UNCHANGED <<erasure, intakeVars, actionVars, inboxVars, subject>>
  \/ subject = "erasure" /\ E!Next /\ UNCHANGED <<vars, intakeVars, actionVars, inboxVars, alone, subject>>
  \/ subject = "intake" /\ IntakeNext /\ UNCHANGED <<vars, erasure, actionVars, inboxVars, alone, subject>>
  \/ subject = "actions" /\ ActionNext /\ UNCHANGED <<vars, erasure, intakeVars, inboxVars, alone, subject>>
  \/ /\ subject = "inbox" /\ InboxNext
     /\ alone' = (alone /\ Cardinality({r \in Visits : visit'[r] # Nothing}) <= 1)
     /\ UNCHANGED <<vars, erasure, intakeVars, actionVars, subject>>
MCSpec == MCInit /\ [][MCNext]_<<vars, erasure, intakeVars, actionVars, inboxVars, alone, subject>>

TypesOK == TypeOK /\ E!TypeOK /\ IntakeTypeOK /\ ActionTypeOK /\ InboxTypeOK

\* A commit whose claims were created by it, and that overlaps no write, contests
\* every delta it contradicts.
ContestsAlone ==
  subject = "overlay" /\ alone => \A d \in deltas, c \in claims :
             c.feed = "add_claim" /\ Contradicts(c, d) => d.lifecycle = "CONTESTED"

\* A deletion takes what no longer stands on live evidence, in whatever order its
\* items come, and nothing that does; what was deleted is gone with its bytes and is
\* quoted nowhere.
DeletionTakesWhatFell ==
  E!CascadeTakesWhatFell /\ E!OrderDoesNotMatter /\ E!ErasedMeansGone /\ E!NothingQuotesTheErased

\* The comment at the deletion route: a storage failure leaves no row that promises
\* bytes which are gone.
EveryLiveRowHasItsBytes == E!EveryLiveRowHasItsBytes

\* When no two requests overlap, the owner is not asked twice within the window with
\* nothing new to show, and on no day about more cards than the budget has.
AskedSparinglyAlone == subject = "inbox" /\ alone => NotAskedTwice /\ CardsWithinCap
==============================================================================
