------------------------------- MODULE Answering -------------------------------
(****************************************************************************)
(* One owner's questions (packages/context, packages/api/src/ask.ts): a packet  *)
(* is read under a recorded verdict, phrased by a model behind the grounding    *)
(* validator, and presented only once the answer and the manifest of what was   *)
(* supplied are stored.  Beside it beliefs change, the owner removes and takes   *)
(* back, and evidence is erased.                                               *)
(*                                                                          *)
(* A belief with a direct claim has one item of evidence of its own, and is named   *)
(* for it.  A request admits the evidence outside Unadmitted.                    *)
(****************************************************************************)
EXTENDS Naturals, FiniteSets

CONSTANTS Beliefs,
          Direct,       \* those with a claim of their own
          Inputs,       \* the recorded computations of each: sets of beliefs
          Unadmitted,   \* evidence under another data purpose, or above the ceiling
          Touched,      \* the beliefs that change and that the owner removes
          Asks, Changes, Erasures,
          MaxAttempts,  \* candidates a model is asked for
          Absent

ASSUME BeliefsAssumption ==
  /\ IsFiniteSet(Beliefs) /\ Direct \subseteq Beliefs /\ Touched \subseteq Beliefs
  /\ Inputs \in [Beliefs -> SUBSET SUBSET Beliefs]
ASSUME AttemptsAssumption == MaxAttempts \in Nat

VARIABLES version,  \* of each belief's assessment
          erased,   \* evidence that is deleted
          gone,     \* beliefs erased with it
          removed,  \* beliefs that the owner has suppressed
          ask, packets, manifests,
          listed,   \* reconsideration_candidates: <<manifest, belief, change>>
          change, erasing

answerVars == <<version, erased, gone, removed, ask, packets, manifests, listed, change, erasing>>

Evidence == Direct
Live == Evidence \ erased

----------------------------------------------------------------------------
(* What may be read.                                                       *)

\* A belief with a direct claim whose source is readable cites that source.
Grounded(readable, blocked) == [b \in (Direct \cap readable) \ blocked |-> {b}]

\* The computations of b all of whose inputs have a proof already.
Complete(f, b) == {path \in Inputs[b] : path # {} /\ path \subseteq DOMAIN f}
Reached(f, blocked) == {b \in Beliefs \ (gone \cup blocked) : Complete(f, b) # {}}

\* What has no proof yet gets one by the first complete computation found, and cites
\* what its inputs cite.
Round(f, blocked) ==
  [b \in DOMAIN f \cup Reached(f, blocked) |->
     IF b \in DOMAIN f THEN f[b] ELSE UNION {f[c] : c \in CHOOSE path \in Complete(f, b) : TRUE}]

\* readPropositionAuthority, a least fixed point: a belief is readable by a direct
\* claim whose source is, or by one computation all of whose inputs are.  A cycle
\* grants nothing.
Proofs(readable, blocked) ==
  LET found[n \in 0..Cardinality(Beliefs)] ==
        IF n = 0 THEN Grounded(readable, blocked) ELSE Round(found[n - 1], blocked)
  IN  found[Cardinality(Beliefs)]

\* The reference: the least set with the readable direct beliefs that a complete
\* computation does not lead out of.
Complies(S, readable, blocked) ==
  /\ (Direct \cap readable) \ blocked \subseteq S
  /\ \A b \in Beliefs \ (gone \cup blocked) : \A path \in Inputs[b] : path # {} /\ path \subseteq S => b \in S
MayBeRead(readable, blocked) ==
  {b \in Beliefs : \A S \in SUBSET Beliefs : Complies(S, readable, blocked) => b \in S}

----------------------------------------------------------------------------
(* A question.                                                            *)

Fresh == [at |-> "idle"]

\* authorizeContextRead commits its verdict: the owner's evidence refuses the purpose
\* only where none of it admits it.
Authorize(a) ==
  /\ ask[a].at = "idle"
  /\ ask' = [ask EXCEPT ![a] =
               IF Live # {} /\ Live \subseteq Unadmitted THEN [at |-> "refused"]
               ELSE [at |-> "authorized", admitted |-> Live \ Unadmitted, withheld |-> Live \cap Unadmitted]]
  /\ UNCHANGED <<version, erased, gone, removed, packets, manifests, listed, change, erasing>>

\* The second transaction reads first what the owner has removed ...
ReadRemovals(a) ==
  /\ ask[a].at = "authorized"
  /\ ask' = [ask EXCEPT ![a] = [at |-> "reading", admitted |-> @.admitted, withheld |-> @.withheld, hidden |-> removed]]
  /\ UNCHANGED <<version, erased, gone, removed, packets, manifests, listed, change, erasing>>

\* ... and then the beliefs; what has no complete readable proof is only listed.
\* `stands`: the assessments it saw.
ReadBeliefs(a) ==
  LET proofs == Proofs(ask[a].admitted \ erased, ask[a].hidden)
  IN  /\ ask[a].at = "reading"
      /\ ask' = [ask EXCEPT ![a] =
                   [at |-> "read",
                    packet |-> [cites |-> proofs, stands |-> [b \in DOMAIN proofs |-> version[b]],
                                withheld |-> @.withheld \cup ((Beliefs \ (gone \cup @.hidden)) \ DOMAIN proofs)]]]
      /\ UNCHANGED <<version, erased, gone, removed, packets, manifests, listed, change, erasing>>

\* The packet is there once the transaction commits.
StorePacket(a) ==
  /\ ask[a].at = "read"
  /\ packets' = [packets EXCEPT ![a] = ask[a].packet]
  /\ ask' = [ask EXCEPT ![a] = [at |-> "phrasing", packet |-> @.packet, attempts |-> 0, verdict |-> "PASSED"]]
  /\ UNCHANGED <<version, erased, gone, removed, manifests, listed, change, erasing>>

\* validateGrounding, the strongest action first: a statement about something
\* withheld, one about nothing that the packet supplied or of a stale value without
\* saying so, one that is too certain.
Validate(packet, names, worded) ==
  CASE names \cap packet.withheld # {} -> "BLOCKED"
    [] names \cap packet.withheld = {} /\ (~(names \subseteq DOMAIN packet.cites) \/ names = {} \/ worded = "current") -> "REGENERATE"
    [] OTHER -> IF worded = "certain" THEN "DOWNGRADED" ELSE "PASSED"

Action(regenerated, verdict) == IF verdict # "BLOCKED" /\ regenerated THEN "REGENERATED" ELSE verdict

AskedAgain(a) == [at |-> "phrasing", packet |-> ask[a].packet, attempts |-> ask[a].attempts + 1, verdict |-> "REGENERATE"]

Presents(a, names, verdict) ==
  [at |-> "presented", packet |-> ask[a].packet, says |-> IF verdict = "BLOCKED" THEN {} ELSE names,
   action |-> Action(ask[a].verdict = "REGENERATE", verdict)]

\* A model's candidate: presented as downgraded, blocked, or rejected and asked for
\* again.
Phrase(a, names, worded) ==
  LET verdict == Validate(ask[a].packet, names, worded)
  IN  /\ ask[a].at = "phrasing" /\ ask[a].attempts < MaxAttempts
      /\ ask' = [ask EXCEPT ![a] = IF verdict = "REGENERATE" THEN AskedAgain(a) ELSE Presents(a, names, verdict)]
      /\ UNCHANGED <<version, erased, gone, removed, packets, manifests, listed, change, erasing>>

\* No model, one that fails, or no grounded candidate: the composer's statements.
Compose(a) ==
  /\ ask[a].at = "phrasing"
  /\ ask' = [ask EXCEPT ![a] = Presents(a, DOMAIN ask[a].packet.cites, "PASSED")]
  /\ UNCHANGED <<version, erased, gone, removed, packets, manifests, listed, change, erasing>>

----------------------------------------------------------------------------
(* Recording it.  The transaction's start is the manifest's created_at.       *)

\* withdrawn, dead: history, what was removed or erased by then and has stayed so.
BeginRecord(a) ==
  /\ ask[a].at = "presented"
  /\ ask' = [ask EXCEPT ![a] = [at |-> "recording", packet |-> @.packet, says |-> @.says, action |-> @.action,
                                withdrawn |-> gone \cup removed, dead |-> erased]]
  /\ UNCHANGED <<version, erased, gone, removed, packets, manifests, listed, change, erasing>>

Supplied(packet) == DOMAIN packet.cites
Cited(packet) == UNION {packet.cites[b] : b \in DOMAIN packet.cites}

Accessible_HashOnly(a) == packets[a] # Absent
\* readPersistedPacket and requireStoredPacketAccess: the stored packet is whole, each
\* source it cites live and nothing that it supplies removed.
Accessible(a) ==
  /\ packets[a] # Absent
  /\ Cited(packets[a]) \cap erased = {}
  /\ Supplied(packets[a]) \cap removed = {}

Recheck(a) ==
  /\ ask[a].at = "recording"
  /\ ask' = [ask EXCEPT ![a] = IF Accessible(a) THEN [@ EXCEPT !.at = "recorded"] ELSE [at |-> "refused"]]
  /\ UNCHANGED <<version, erased, gone, removed, packets, manifests, listed, change, erasing>>

\* The manifest commits, and only then is the answer returned.
CommitRecord(a) ==
  /\ ask[a].at = "recorded"
  /\ manifests' = [manifests EXCEPT ![a] = [supplied |-> Supplied(ask[a].packet), says |-> ask[a].says,
                      packet |-> ask[a].packet, withdrawn |-> ask[a].withdrawn, dead |-> ask[a].dead]]
  /\ ask' = [ask EXCEPT ![a] = [at |-> "answered"]]
  /\ UNCHANGED <<version, erased, gone, removed, packets, listed, change, erasing>>

\* The process ends, or a statement or the object store fails: nothing is returned.
Abandon(a) ==
  /\ ask[a].at \notin {"idle", "answered", "refused"}
  /\ ask' = [ask EXCEPT ![a] = [at |-> "refused"]]
  /\ UNCHANGED <<version, erased, gone, removed, packets, manifests, listed, change, erasing>>

----------------------------------------------------------------------------
(* Beliefs change.                                                        *)

Closed == [at |-> "closed"]
Recording == {a \in Asks : ask[a].at \in {"recording", "recorded"} \/ manifests[a] # Absent}
Recorded == {a \in Asks : manifests[a] # Absent}

\* earlier: whose record transactions had begun by this one's start; done: history,
\* whose had ended.
BeginChange(c, b) ==
  /\ change[c].at = "closed" /\ b \notin gone
  /\ change' = [change EXCEPT ![c] = [at |-> "open", belief |-> b, earlier |-> Recording, done |-> Recorded]]
  /\ UNCHANGED <<version, erased, gone, removed, ask, packets, manifests, listed, erasing>>

\* What an erasure takes: what no longer has a complete proof.  Its rows are locked.
Falling(e) == Beliefs \ MayBeRead(Live \ {e}, {})

Contains_Says(a, b) == b \in manifests[a].says
Contains(a, b) == b \in manifests[a].supplied

\* assessment_reconsideration on the new version, the live one's row locked: the
\* manifests it sees, created no later than now().
WriteChange(c) ==
  LET moved == change[c].belief
  IN  /\ change[c].at = "open" /\ moved \notin gone
      /\ erasing # Absent => moved \notin Falling(erasing.item)
      /\ \A d \in Changes : change[d].at = "written" => change[d].belief # moved
      /\ change' = [change EXCEPT ![c] = [at |-> "written", belief |-> moved, done |-> @.done,
                      found |-> {a \in Recorded \cap @.earlier : Contains(a, moved)}]]
      /\ UNCHANGED <<version, erased, gone, removed, ask, packets, manifests, listed, erasing>>

CommitChange(c) ==
  LET moved == change[c].belief
  IN  /\ change[c].at = "written"
      /\ version' = [version EXCEPT ![moved] = @ + 1]
      /\ listed' = listed \cup {<<a, moved, version[moved] + 1>> : a \in change[c].found}
      /\ change' = [change EXCEPT ![c] = [at |-> "done", belief |-> moved, done |-> @.done, to |-> version[moved] + 1]]
      /\ UNCHANGED <<erased, gone, removed, ask, packets, manifests, erasing>>

\* The owner removes, and takes that back.
Suppress(b) ==
  /\ b \notin removed \cup gone
  /\ removed' = removed \cup {b}
  /\ UNCHANGED <<version, erased, gone, ask, packets, manifests, listed, change, erasing>>

Withdraw(b) ==
  /\ b \in removed
  /\ removed' = removed \ {b}
  /\ ask' = [a \in Asks |-> IF ask[a].at \in {"recording", "recorded"} THEN [ask[a] EXCEPT !.withdrawn = @ \ {b}] ELSE ask[a]]
  /\ UNCHANGED <<version, erased, gone, packets, manifests, listed, change, erasing>>

\* erase_evidence: what no longer stands goes with the item; every packet that it sees
\* and that names the item, or a value computed from it, is emptied.
Outputs(e) ==
  LET found[n \in 0..Cardinality(Beliefs)] ==
        IF n = 0 THEN {e}
        ELSE found[n - 1] \cup {b \in Beliefs : \E path \in Inputs[b] : path \cap found[n - 1] # {}}
  IN  found[Cardinality(Beliefs)]

Names(packet, e) == e \in Cited(packet) \/ Supplied(packet) \cap Outputs(e) # {}

Erase(e) ==
  /\ e \in Erasures \cap Live /\ erasing = Absent
  /\ \A c \in Changes : change[c].at = "written" => change[c].belief \notin Falling(e)
  /\ erasing' = [item |-> e, emptied |-> {a \in Asks : packets[a] # Absent /\ Names(packets[a], e)}]
  /\ UNCHANGED <<version, erased, gone, removed, ask, packets, manifests, listed, change>>

CommitErasure ==
  /\ erasing # Absent
  /\ erased' = erased \cup {erasing.item}
  /\ gone' = Falling(erasing.item)
  /\ packets' = [a \in Asks |-> IF a \in erasing.emptied THEN Absent ELSE packets[a]]
  /\ erasing' = Absent
  /\ UNCHANGED <<version, removed, ask, manifests, listed, change>>

----------------------------------------------------------------------------
AnswerInit ==
  /\ version = [b \in Beliefs |-> 0]
  /\ erased = {} /\ gone = {} /\ removed = {} /\ listed = {} /\ erasing = Absent
  /\ ask = [a \in Asks |-> Fresh]
  /\ packets = [a \in Asks |-> Absent] /\ manifests = [a \in Asks |-> Absent]
  /\ change = [c \in Changes |-> Closed]

AnswerNext ==
  \/ \E a \in Asks :
       \/ Authorize(a) \/ ReadRemovals(a) \/ ReadBeliefs(a) \/ StorePacket(a)
       \/ \E names \in SUBSET Beliefs, worded \in {"plain", "certain", "current"} : Phrase(a, names, worded)
       \/ Compose(a) \/ BeginRecord(a) \/ Recheck(a) \/ CommitRecord(a) \/ Abandon(a)
  \/ \E c \in Changes : \/ \E b \in Touched : BeginChange(c, b)
                        \/ WriteChange(c) \/ CommitChange(c)
  \/ \E b \in Touched : Suppress(b) \/ Withdraw(b)
  \/ \E e \in Evidence : Erase(e)
  \/ CommitErasure

AnswerSpec == AnswerInit /\ [][AnswerNext]_answerVars

----------------------------------------------------------------------------
GroundingActions == {"PASSED", "DOWNGRADED", "BLOCKED", "REGENERATED"}
WithPacket == {"read", "phrasing", "presented", "recording", "recorded"}

PacketType(p) ==
  /\ DOMAIN p.cites \subseteq Beliefs /\ p.cites \in [DOMAIN p.cites -> SUBSET Evidence]
  /\ p \in [cites : {p.cites}, stands : [DOMAIN p.cites -> Nat], withheld : SUBSET Beliefs]
QuestionType(q) ==
  /\ \/ q \in [at : {"idle", "refused", "answered"}]
     \/ q \in [at : {"authorized"}, admitted : SUBSET Evidence, withheld : SUBSET Evidence]
     \/ q \in [at : {"reading"}, admitted : SUBSET Evidence, withheld : SUBSET Evidence, hidden : SUBSET Beliefs]
     \/ q \in [at : {"read"}, packet : {q.packet}]
     \/ q \in [at : {"phrasing"}, packet : {q.packet}, attempts : 0..MaxAttempts, verdict : {"PASSED", "REGENERATE"}]
     \/ q \in [at : {"presented"}, packet : {q.packet}, says : SUBSET Beliefs, action : GroundingActions]
     \/ q \in [at : {"recording", "recorded"}, packet : {q.packet}, says : SUBSET Beliefs, action : GroundingActions,
               withdrawn : SUBSET Beliefs, dead : SUBSET Evidence]
  /\ q.at \in WithPacket => PacketType(q.packet)
ManifestType(m) ==
  /\ m \in [supplied : SUBSET Beliefs, says : SUBSET Beliefs, packet : {m.packet},
            withdrawn : SUBSET Beliefs, dead : SUBSET Evidence]
  /\ PacketType(m.packet)
ChangeTypes ==
  [at : {"closed"}]
  \cup [at : {"open"}, belief : Beliefs, earlier : SUBSET Asks, done : SUBSET Asks]
  \cup [at : {"written"}, belief : Beliefs, done : SUBSET Asks, found : SUBSET Asks]
  \cup [at : {"done"}, belief : Beliefs, done : SUBSET Asks, to : Nat]

AnswerTypeOK ==
  /\ version \in [Beliefs -> Nat]
  /\ erased \subseteq Evidence /\ gone \subseteq Beliefs /\ removed \subseteq Beliefs
  /\ listed \subseteq Asks \X Beliefs \X Nat
  /\ DOMAIN ask = Asks /\ \A a \in Asks : QuestionType(ask[a])
  /\ DOMAIN packets = Asks /\ \A a \in Asks : packets[a] # Absent => PacketType(packets[a])
  /\ DOMAIN manifests = Asks /\ \A a \in Asks : manifests[a] # Absent => ManifestType(manifests[a])
  /\ change \in [Changes -> ChangeTypes]
  /\ erasing # Absent => erasing \in [item : Evidence, emptied : SUBSET Asks]

\* An answer says nothing that its packet did not supply, the packet supplies what has
\* a complete readable proof and nothing else, and nothing is in an answer that was
\* withdrawn or erased before its recording began, whatever happened since it was read.
AnswersStandOnWhatMayBeSaid ==
  \A a \in Asks :
    /\ ask[a].at = "reading" =>
         LET readable == ask[a].admitted \ erased
             proofs == Proofs(readable, ask[a].hidden)
         IN  /\ DOMAIN proofs = MayBeRead(readable, ask[a].hidden)
             /\ \A b \in DOMAIN proofs : proofs[b] # {} /\ proofs[b] \subseteq readable
    /\ manifests[a] # Absent =>
         /\ manifests[a].says \subseteq manifests[a].supplied
         /\ manifests[a].supplied \cap manifests[a].withdrawn = {}
         /\ Cited(manifests[a].packet) \cap (manifests[a].dead \cup Unadmitted) = {}

\* A change lists every answer that was recorded before it began and had been supplied
\* the belief, and never one whose packet already had the belief as it left it.
ChangesListEarlierAnswers ==
  \A a \in Asks :
    manifests[a] # Absent =>
      /\ \A c \in Changes :
           change[c].at = "done" /\ a \in change[c].done /\ change[c].belief \in manifests[a].supplied =>
             <<a, change[c].belief, change[c].to>> \in listed
      /\ \A row \in listed : row[1] = a => manifests[a].packet.stands[row[2]] < row[3]

----------------------------------------------------------------------------
(* The inductive invariant behind them.                                     *)

\* A proof that rests on evidence of its own: whatever keeps that and what follows from
\* it within the proof keeps all of the proof.
Rooted(f) ==
  LET X == DOMAIN f
      E == UNION {f[b] : b \in X}
  IN  \A S \in SUBSET X :
        /\ X \cap Direct \cap E \subseteq S
        /\ \A b \in X : \A path \in Inputs[b] : path # {} /\ path \subseteq S => b \in S
        => S = X

\* A packet cites admitted evidence, saw nothing newer than there is, and as long as what it
\* cites is there, so is what it supplies.
PacketSound(p) ==
  /\ Rooted(p.cites) /\ Cited(p) \cap Unadmitted = {}
  /\ \A b \in Supplied(p) : p.stands[b] <= version[b]
  /\ Cited(p) \cap erased = {} => Supplied(p) \cap gone = {}

\* What a question at q carries from one of its transactions to the next.
QuestionKnows(q) ==
  /\ q.at \in {"authorized", "reading"} => q.admitted \cap Unadmitted = {}
  /\ q.at \in WithPacket => PacketSound(q.packet)
  /\ q.at \in {"presented", "recording", "recorded"} => q.says \subseteq Supplied(q.packet)
  /\ q.at \in {"recording", "recorded"} => q.withdrawn \subseteq gone \cup removed /\ q.dead \subseteq erased
  /\ q.at = "recorded" => Supplied(q.packet) \cap q.withdrawn = {} /\ Cited(q.packet) \cap q.dead = {}
QuestionsKnow == \A a \in Asks : QuestionKnows(ask[a])

\* The packet stored for a question is the one that it was asked with.
PacketOf(p, q) ==
  /\ q.at \notin {"idle", "authorized", "reading", "read"}
  /\ q.at \in WithPacket => p = q.packet
PacketsStored == \A a \in Asks : packets[a] # Absent => PacketOf(packets[a], ask[a])

\* A manifest is of an answered question; what it says stays true.
ManifestSound(m) ==
  /\ m.supplied = Supplied(m.packet) /\ m.says \subseteq m.supplied
  /\ m.supplied \cap m.withdrawn = {} /\ Cited(m.packet) \cap (m.dead \cup Unadmitted) = {}
  /\ \A b \in m.supplied : m.packet.stands[b] <= version[b]
ManifestsSound ==
  \A a \in Asks : manifests[a] # Absent => ask[a].at = "answered" /\ ManifestSound(manifests[a])

\* An open change is going to find what was recorded before it, and has when it is written.
ChangeKnows(t) ==
  /\ t.at # "closed" => t.done \subseteq Recorded
  /\ t.at = "open" => t.done \subseteq t.earlier
  /\ t.at = "written" =>
       /\ t.found \subseteq {a \in Recorded : t.belief \in manifests[a].supplied}
       /\ \A a \in t.done : t.belief \in manifests[a].supplied => a \in t.found
ChangesFind == \A c \in Changes : ChangeKnows(change[c])

\* A row is about an answer that was supplied the belief.
RowsOfAnswers == \A row \in listed : row[1] \in Recorded /\ row[2] \in manifests[row[1]].supplied

\* What went was not told by evidence that is left.
GoneWithItsEvidence == gone \cap Direct \subseteq erased

AnswerInv ==
  /\ AnswerTypeOK /\ QuestionsKnow /\ PacketsStored /\ ManifestsSound /\ ChangesFind
  /\ RowsOfAnswers /\ GoneWithItsEvidence /\ ChangesListEarlierAnswers
=============================================================================
