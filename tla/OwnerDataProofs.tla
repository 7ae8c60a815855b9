---------------------------- MODULE OwnerDataProofs ----------------------------
(***************************************************************************)
(* Proofs about what is done with the owner's data.  OwnerOverlay, for     *)
(* every set of sessions, requests, values and every page size: the        *)
(* numbers of the owner's deltas, and what a device that reads on from the *)
(* last one is shown.  GovernedActions, for every set of calls and of      *)
(* idempotency keys: what two decisions on one draft, two answers to one   *)
(* recommendation and a receipt erased before it is told of leave behind.  *)
(* EvidenceIntake, for every set of requests, keys and contents and any    *)
(* number of failures: a content is stored once, and a key answers for one *)
(* row, whatever requests and deletions overlap.  Inbox, for every set of  *)
(* questions and of requests and any time: whose answers rules are learned *)
(* from, when one answers, and what was proposed.  Erasure's proofs are a  *)
(* module of their own.                                                    *)
(***************************************************************************)
EXTENDS MCOwnerData, FiniteSetTheorems, WellFoundedInduction, SequenceTheorems, TLAPS

-----------------------------------------------------------------------------
(*                           OwnerOverlay                                  *)

-----------------------------------------------------------------------------
(* Numbers and pages.                                                      *)

\* A set of numbers up to k has a greatest one: of the intervals that reach from an
\* element to k, the least.
LEMMA GreatestBelow ==
  ASSUME NEW k \in Nat, NEW T, T \subseteq 0..k, T # {}
  PROVE  \E x \in T : \A y \in T : y <= x
<1> DEFINE Rests == {x..k : x \in T}
<1>1. Rests \subseteq FiniteSubsetsOf(0..k)
  <2>1. \A x \in T : x..k \subseteq 0..k
    OBVIOUS
  <2>2. \A x \in T : IsFiniteSet(x..k)
    BY FS_Interval
  <2> QED
    BY <2>1, <2>2 DEF FiniteSubsetsOf
<1>2. Rests # {}
  OBVIOUS
<1>3. PICK r \in Rests : \A q \in Rests : ~(<<q, r>> \in StrictSubsetOrdering(0..k))
  <2> HIDE DEF Rests
  <2> QED
    BY <1>1, <1>2, FS_StrictSubsetOrderingWellFounded, WFMin
<1>4. PICK x \in T : r = x..k
  BY <1>3
<1>5. ASSUME NEW y \in T PROVE y <= x
  <2> SUFFICES ASSUME y > x PROVE FALSE
    OBVIOUS
  <2>1. x \in 0..k /\ y \in 0..k
    OBVIOUS
  <2>2. y..k \subseteq x..k /\ x \in x..k /\ x \notin y..k
    BY <2>1
  <2>3. y..k \in Rests /\ y..k \subseteq 0..k /\ x..k \subseteq 0..k
    BY <2>1
  <2>4. <<y..k, x..k>> \in StrictSubsetOrdering(0..k)
    BY <2>2, <2>3 DEF StrictSubsetOrdering
  <2> QED
    BY <1>3, <1>4, <2>3, <2>4
<1> QED
  BY <1>5

\* Max is the greatest element of such a set.
LEMMA MaxOf ==
  ASSUME NEW k \in Nat, NEW T, T \subseteq 0..k, T # {}
  PROVE  Max(T) \in T /\ \A y \in T : y <= Max(T)
<1>1. PICK x \in T : \A y \in T : x >= y
  BY GreatestBelow
<1> QED
  BY <1>1 DEF Max

\* A page is the beginning of what there is to read: whatever comes before something
\* of the page is on it too.
LEMMA PageIsPrefix ==
  ASSUME NEW k \in Nat, NEW after, after \subseteq 0..k,
         NEW m \in Page(after), NEW n \in after, n <= m
  PROVE  n \in Page(after)
<1> DEFINE Lower(x) == {y \in after : y < x}
<1>1. Lower(n) \subseteq Lower(m)
  <2>1. m \in after
    BY DEF Page
  <2>2. m \in 0..k /\ n \in 0..k /\ \A y \in after : y \in 0..k
    BY <2>1
  <2>3. \A y \in after : y < n => y < m
    BY <2>2
  <2> QED
    BY <2>3
<1>2. IsFiniteSet(after)
  <2>1. IsFiniteSet(0..k)
    BY FS_Interval
  <2>2. after \in SUBSET (0..k)
    OBVIOUS
  <2> QED
    BY <2>1, <2>2, FS_Subset
<1>3. IsFiniteSet(Lower(m)) /\ IsFiniteSet(Lower(n))
  BY <1>2, FS_Subset
<1>4. Cardinality(Lower(n)) <= Cardinality(Lower(m))
  BY <1>1, <1>3, FS_Subset
<1>5. Cardinality(Lower(n)) \in Nat /\ Cardinality(Lower(m)) \in Nat
  BY <1>3, FS_CardinalityType
<1>6. Cardinality(Lower(m)) < Limit
  BY DEF Page
<1>7. Limit \in Nat
  BY RequestAssumption
<1>8. Cardinality(Lower(n)) < Limit
  BY <1>4, <1>5, <1>6, <1>7
<1> QED
  BY <1>8 DEF Page

\* A set whose elements carry the numbers 1 to n, each once, has n elements.
LEMMA CountedByNumbers ==
  ASSUME NEW set, NEW n \in Nat, Numbers(set) = 1..n, \A d, e \in set : d.n = e.n => d = e
  PROVE  IsFiniteSet(set) /\ Cardinality(set) = n
<1> DEFINE f == [d \in set |-> d.n]
<1>1. f \in Bijection(set, 1..n)
  BY DEF Numbers, Bijection, Injection, Surjection, IsInjective
<1>2. IsFiniteSet(1..n) /\ Cardinality(1..n) = n
  BY FS_Interval
<1>3. f \in Injection(set, 1..n) /\ f \in Surjection(set, 1..n)
  BY <1>1 DEF Bijection
<1> QED
  BY <1>2, <1>3, FS_Injection

-----------------------------------------------------------------------------
(* The operations.                                                         *)

\* Nothing written, nothing read.
LEMMA InvInit == Init => IInv
<1> SUFFICES ASSUME Init PROVE IInv
  OBVIOUS
<1>1. 0 \in 0..MaxClock /\ 0 \in 0..0 /\ 1..0 = {}
  BY RequestAssumption
<1>2. Idle \in Session
  BY <1>1 DEF Idle, Session, Places
<1>3. TypeOK
  BY <1>1, <1>2 DEF Init, TypeOK
<1>4. SessionsKnow /\ SequenceHeld
  BY DEF Init, Idle, SessionsKnow, SessionKnows, SequenceHeld
<1>5. NumbersOnce /\ NumbersReachSequence /\ DeviceMissesNothing
  BY <1>1 DEF Init, NumbersOnce, NumbersReachSequence, DeviceMissesNothing, Numbers
<1> QED
  BY <1>3, <1>4, <1>5 DEF IInv

\* A session that has nothing to do.
LEMMA IdleSession == Idle \in Session /\ Idle.at = "idle"
<1>1. 0 \in 0..MaxClock
  BY RequestAssumption
<1> QED
  BY <1>1 DEF Idle, Session, Places

\* A step that moves one session and neither deltas nor device keeps the invariant,
\* if the session knows what it is about and holds the sequence alone.
LEMMA SessionStep ==
  ASSUME IInv, NEW s \in Sessions, NEW t \in Session,
         session' = [r \in Sessions |-> IF r = s THEN t ELSE session[r]],
         UNCHANGED <<sequence, deltas, claims, device>>,
         clock' \in 0..MaxClock, proposed' \subseteq Proposing, recorded' \subseteq Controls,
         SessionKnows(t),
         t.at = "written" => t.n = sequence + 1 /\ SequenceFree(s)
  PROVE  IInv'
<1>1. TypeOK'
  BY DEF IInv, TypeOK
<1>2. SessionsKnow'
  BY DEF IInv, SessionsKnow, SessionKnows
<1>3. SequenceHeld'
  <2>1. ASSUME NEW r \in Sessions, session'[r].at = "written" PROVE session'[r].n = sequence' + 1
    BY <2>1 DEF IInv, SequenceHeld
  <2>2. ASSUME NEW q \in Sessions, NEW r \in Sessions,
               session'[q].at = "written", session'[r].at = "written"
        PROVE  q = r
    BY <2>2 DEF IInv, SequenceHeld, SequenceFree, Others
  <2> QED
    BY <2>1, <2>2 DEF SequenceHeld
<1>4. NumbersOnce' /\ NumbersReachSequence' /\ DeviceMissesNothing'
  BY DEF IInv, NumbersOnce, NumbersReachSequence, DeviceMissesNothing, Numbers
<1> QED
  BY <1>1, <1>2, <1>3, <1>4 DEF IInv

\* How a step replaces the record of one session.
LEMMA Replaced ==
  ASSUME IInv, NEW s \in Sessions
  PROVE  /\ \A t : [session EXCEPT ![s] = t] = [r \in Sessions |-> IF r = s THEN t ELSE session[r]]
         /\ session[s] \in Session /\ SessionKnows(session[s])
  BY DEF IInv, TypeOK, SessionsKnow

\* A write begins.
LEMMA InvBegin == ASSUME IInv, NEW s \in Sessions, NEW q \in Requests, Begin(s, q) PROVE IInv'
<1> DEFINE t == [Idle EXCEPT !.at = "begun", !.request = q, !.now = clock + 1]
<1>1. clock + 1 \in 0..MaxClock
  BY RequestAssumption DEF Begin, IInv, TypeOK
<1>2. t \in Session
  BY <1>1, IdleSession DEF Session, Idle, Places
<1>3. t.at = "begun" /\ t.request = q
  BY DEF Idle
<1>4. SessionKnows(t)
  BY <1>3 DEF SessionKnows
<1>5. session' = [session EXCEPT ![s] = t] /\ clock' = clock + 1
  BY DEF Begin
<1>6. UNCHANGED <<sequence, deltas, claims, device, proposed, recorded>>
  BY DEF Begin
<1>7. proposed \subseteq Proposing /\ recorded \subseteq Controls
  BY DEF IInv, TypeOK
<1>8. session' = [r \in Sessions |-> IF r = s THEN t ELSE session[r]]
  BY <1>5, Replaced
<1>9. clock' \in 0..MaxClock
  BY <1>1, <1>5
<1> HIDE DEF t
<1> QED
  BY <1>1, <1>2, <1>3, <1>4, <1>5, <1>6, <1>7, <1>9, <1>8, SessionStep

\* A number is allocated under the lock of the sequence's row.
LEMMA InvWrite == ASSUME IInv, NEW s \in Sessions, Write(s) PROVE IInv'
<1> DEFINE t == [session[s] EXCEPT !.at = "written", !.n = sequence + 1]
<1>1. session[s].at = "begun" /\ SequenceFree(s) /\ session' = [session EXCEPT ![s] = t]
  BY DEF Write
<1>2. session[s] \in Session /\ SessionKnows(session[s]) /\ sequence + 1 \in Nat
  BY Replaced DEF IInv, TypeOK
<1>3. t \in Session
  BY <1>2 DEF Session, Places
<1>4. t.at = "written" /\ t.n = sequence + 1 /\ t.request = session[s].request
  BY <1>2 DEF Session
<1>5. SessionKnows(t)
  BY <1>1, <1>2, <1>4 DEF SessionKnows
<1>6. UNCHANGED <<sequence, deltas, claims, device, proposed, recorded, clock>>
  BY DEF Write
<1>7. proposed \subseteq Proposing /\ recorded \subseteq Controls /\ clock \in 0..MaxClock
  BY DEF IInv, TypeOK
<1>8. session' = [r \in Sessions |-> IF r = s THEN t ELSE session[r]]
  BY <1>1, Replaced
<1> HIDE DEF t
<1> QED
  BY <1>1, <1>3, <1>4, <1>5, <1>6, <1>7, <1>8, SessionStep

\* A control proposes, in a transaction of its own.
LEMMA InvProposeControl == ASSUME IInv, NEW s \in Sessions, ProposeControl(s) PROVE IInv'
<1> DEFINE t == [session[s] EXCEPT !.at = "proposed"]
<1>1. /\ session[s].at = "stored" /\ session' = [session EXCEPT ![s] = t]
      /\ proposed' = proposed \cup ({session[s].request} \cap Proposing)
  BY DEF ProposeControl
<1>2. session[s] \in Session /\ SessionKnows(session[s])
  BY Replaced
<1>3. t \in Session
  BY <1>2 DEF Session, Places
<1>4. t.at = "proposed" /\ t.request = session[s].request
  BY <1>2 DEF Session
<1>5. SessionKnows(t)
  BY <1>1, <1>2, <1>4 DEF SessionKnows
<1>6. UNCHANGED <<sequence, deltas, claims, device, recorded, clock>>
  BY DEF ProposeControl
<1>7. proposed' \subseteq Proposing /\ recorded \subseteq Controls /\ clock \in 0..MaxClock
  BY <1>1 DEF IInv, TypeOK
<1>8. session' = [r \in Sessions |-> IF r = s THEN t ELSE session[r]]
  BY <1>1, Replaced
<1> HIDE DEF t
<1> QED
  BY <1>1, <1>3, <1>4, <1>5, <1>6, <1>7, <1>8, SessionStep

\* A control records what it was, in another.
LEMMA InvRecordOperation == ASSUME IInv, NEW s \in Sessions, RecordOperation(s) PROVE IInv'
<1>1. /\ session[s].at = "proposed" /\ session' = [session EXCEPT ![s] = Idle]
      /\ recorded' = recorded \cup {session[s].request}
  BY DEF RecordOperation
<1>2. session[s].request \in Controls
  BY <1>1, Replaced DEF SessionKnows
<1>3. SessionKnows(Idle)
  BY IdleSession DEF SessionKnows
<1>4. UNCHANGED <<sequence, deltas, claims, device, proposed, clock>>
  BY DEF RecordOperation
<1>5. proposed \subseteq Proposing /\ recorded' \subseteq Controls /\ clock \in 0..MaxClock
  BY <1>1, <1>2 DEF IInv, TypeOK
<1>6. session' = [r \in Sessions |-> IF r = s THEN Idle ELSE session[r]]
  BY <1>1, Replaced
<1> QED
  BY <1>1, <1>3, <1>4, <1>5, IdleSession, <1>6, IdleSession, SessionStep

\* A write or a commit ends without effect; its number is handed out again.
LEMMA InvStop == ASSUME IInv, NEW s \in Sessions, Stop(s) PROVE IInv'
<1>1. session' = [session EXCEPT ![s] = Idle]
  BY DEF Stop
<1>2. SessionKnows(Idle)
  BY IdleSession DEF SessionKnows
<1>3. UNCHANGED <<sequence, deltas, claims, device, proposed, recorded, clock>>
  BY DEF Stop
<1>4. proposed \subseteq Proposing /\ recorded \subseteq Controls /\ clock \in 0..MaxClock
  BY DEF IInv, TypeOK
<1>5. session' = [r \in Sessions |-> IF r = s THEN Idle ELSE session[r]]
  BY <1>1, Replaced
<1> QED
  BY <1>1, <1>2, <1>3, <1>4, IdleSession, <1>5, IdleSession, SessionStep

\* A commit of claims begins.
LEMMA InvBeginCommit ==
  ASSUME IInv, NEW s \in Sessions, NEW value \in Values, NEW feed \in Feeds, BeginCommit(s, value, feed)
  PROVE  IInv'
<1> DEFINE t == [Idle EXCEPT !.at = "governing", !.value = value, !.feed = feed, !.now = clock + 1]
<1>1. clock + 1 \in 0..MaxClock /\ feed \in {"add_claim", "worker"}
  BY RequestAssumption DEF BeginCommit, IInv, TypeOK
<1>2. t \in Session
  BY <1>1, IdleSession DEF Session, Idle, Places
<1>3. t.at = "governing" /\ t.value = value /\ t.feed = feed
  BY DEF Idle
<1>4. SessionKnows(t)
  BY <1>3 DEF SessionKnows
<1>5. session' = [session EXCEPT ![s] = t] /\ clock' = clock + 1
  BY DEF BeginCommit
<1>6. UNCHANGED <<sequence, deltas, claims, device, proposed, recorded>>
  BY DEF BeginCommit
<1>7. proposed \subseteq Proposing /\ recorded \subseteq Controls
  BY DEF IInv, TypeOK
<1>8. session' = [r \in Sessions |-> IF r = s THEN t ELSE session[r]]
  BY <1>5, Replaced
<1>9. clock' \in 0..MaxClock
  BY <1>1, <1>5
<1> HIDE DEF t
<1> QED
  BY <1>1, <1>2, <1>3, <1>4, <1>5, <1>6, <1>7, <1>9, <1>8, SessionStep

\* A commit has found what it contests.
LEMMA InvScan == ASSUME IInv, NEW s \in Sessions, Scan(s) PROVE IInv'
<1> DEFINE t == [session[s] EXCEPT !.at = "scanned", !.contests = Numbers(Contradicted(s))]
<1>1. session[s].at = "governing" /\ session' = [session EXCEPT ![s] = t]
  BY DEF Scan
<1>2. session[s] \in Session /\ SessionKnows(session[s])
  BY Replaced
<1>3. Numbers(Contradicted(s)) \subseteq Nat
  BY DEF Numbers, Contradicted, IInv, TypeOK, Delta
<1>4. t \in Session
  BY <1>2, <1>3 DEF Session, Places
<1>5. t.at = "scanned" /\ t.value = session[s].value /\ t.feed = session[s].feed
  BY <1>2 DEF Session
<1>6. SessionKnows(t)
  BY <1>1, <1>2, <1>5 DEF SessionKnows
<1>7. UNCHANGED <<sequence, deltas, claims, device, proposed, recorded, clock>>
  BY DEF Scan
<1>8. proposed \subseteq Proposing /\ recorded \subseteq Controls /\ clock \in 0..MaxClock
  BY DEF IInv, TypeOK
<1>9. session' = [r \in Sessions |-> IF r = s THEN t ELSE session[r]]
  BY <1>1, Replaced
<1> HIDE DEF t
<1> QED
  BY <1>1, <1>4, <1>5, <1>6, <1>7, <1>8, <1>9, SessionStep

\* A write commits: its number is the next one, and no device has read past it.
LEMMA InvCommitDelta == ASSUME IInv, NEW s \in Sessions, CommitDelta(s) PROVE IInv'
<1> DEFINE w == session[s]
           added == [n |-> w.n, request |-> w.request, at |-> w.now, lifecycle |-> Pending]
           t == IF w.request \in Controls THEN [Idle EXCEPT !.at = "stored", !.request = w.request] ELSE Idle
<1>1. /\ w.at = "written" /\ sequence' = w.n /\ deltas' = deltas \cup {added}
      /\ session' = [session EXCEPT ![s] = t] /\ UNCHANGED <<clock, proposed, recorded, claims, device>>
  BY DEF CommitDelta
<1>2. w \in Session /\ SessionKnows(w) /\ sequence \in Nat /\ w.n = sequence + 1
  BY <1>1, Replaced DEF IInv, TypeOK, SequenceHeld
<1>3. added \in Delta /\ added.n = sequence + 1 /\ sequence' = sequence + 1
  BY <1>1, <1>2 DEF SessionKnows, Delta, Session
<1>4. t \in Session /\ t.at \in {"idle", "stored"} /\ SessionKnows(t)
  BY <1>2, RequestAssumption, IdleSession DEF Session, Idle, Places, SessionKnows
<1>5. session' = [r \in Sessions |-> IF r = s THEN t ELSE session[r]]
  BY <1>1, Replaced
<1> HIDE DEF added, t
<1>6. TypeOK'
  BY <1>1, <1>3, <1>4, <1>5, <1>2 DEF IInv, TypeOK
<1>7. SessionsKnow'
  BY <1>4, <1>5 DEF IInv, SessionsKnow, SessionKnows
<1>8. \A r \in Sessions : session'[r].at # "written"
  BY <1>1, <1>4, <1>5 DEF IInv, SequenceHeld
<1>9. SequenceHeld'
  BY <1>8 DEF SequenceHeld
<1>10. Numbers(deltas') = Numbers(deltas) \cup {sequence + 1}
  BY <1>1, <1>3 DEF Numbers
<1>11. Numbers(deltas) = 1..sequence /\ device.since \in 0..sequence
  BY DEF IInv, NumbersReachSequence
<1>12. NumbersReachSequence'
  <2>1. Numbers(deltas') = 1..(sequence + 1) /\ device.since \in 0..(sequence + 1)
    BY <1>2, <1>10, <1>11
  <2> QED
    BY <1>1, <1>3, <2>1 DEF NumbersReachSequence, Numbers
<1>13. NumbersOnce'
  <2>1. \A d \in deltas : d.n # sequence + 1
    BY <1>2, <1>11 DEF Numbers
  <2> QED
    BY <1>1, <1>3, <2>1 DEF IInv, NumbersOnce
<1>14. DeviceMissesNothing'
  <2>1. \A n \in Numbers(deltas) : n <= device.since => n \in device.shown
    BY DEF IInv, DeviceMissesNothing
  <2>2. ~(sequence + 1 <= device.since)
    BY <1>2, <1>11
  <2> QED
    BY <1>1, <1>10, <2>1, <2>2 DEF DeviceMissesNothing, Numbers
<1> QED
  BY <1>6, <1>7, <1>9, <1>12, <1>13, <1>14 DEF IInv

\* A commit of claims contests deltas, and leaves them their numbers.
LEMMA InvCommitClaims == ASSUME IInv, NEW s \in Sessions, CommitClaims(s) PROVE IInv'
<1> DEFINE w == session[s]
           Judged(d) == [d EXCEPT !.lifecycle = IF d.n \in w.contests THEN "CONTESTED" ELSE @]
<1>1. /\ w.at = "scanned" /\ deltas' = {Judged(d) : d \in deltas}
      /\ claims' = claims \cup {[value |-> w.value, at |-> w.now, feed |-> w.feed]}
      /\ session' = [session EXCEPT ![s] = Idle] /\ UNCHANGED <<clock, sequence, proposed, recorded, device>>
  BY DEF CommitClaims
<1>2. w \in Session /\ SessionKnows(w)
  BY Replaced
<1>3. \A d \in deltas : Judged(d) \in Delta /\ Judged(d).n = d.n
  BY DEF IInv, TypeOK, Delta
<1>4. session' = [r \in Sessions |-> IF r = s THEN Idle ELSE session[r]]
  BY <1>1, Replaced
<1>5. claims' \subseteq [value : Values, at : 0..MaxClock, feed : Feeds]
  BY <1>1, <1>2 DEF IInv, TypeOK, SessionKnows, Session
<1> HIDE DEF Judged
<1>6. TypeOK'
  BY <1>1, <1>3, <1>4, <1>5, IdleSession DEF IInv, TypeOK
<1>7. SessionsKnow' /\ SequenceHeld'
  BY <1>1, <1>4, IdleSession DEF IInv, SessionsKnow, SessionKnows, SequenceHeld
<1>8. Numbers(deltas') = Numbers(deltas)
  BY <1>1, <1>3 DEF Numbers
<1>9. NumbersOnce'
  BY <1>1, <1>3 DEF IInv, NumbersOnce
<1>10. NumbersReachSequence' /\ DeviceMissesNothing'
  BY <1>1, <1>8 DEF IInv, NumbersReachSequence, DeviceMissesNothing, Numbers
<1> QED
  BY <1>6, <1>7, <1>9, <1>10 DEF IInv

\* A device reads a page, which leaves nothing out before its end.
LEMMA InvRead == ASSUME IInv, Read PROVE IInv'
<1> DEFINE after == {n \in Numbers(deltas) : n > device.since}
           page == Page(after)
<1>1. /\ page # {} /\ device' = [since |-> Max(page), shown |-> device.shown \cup page]
      /\ UNCHANGED <<clock, sequence, deltas, proposed, recorded, claims, session>>
  BY DEF Read
<1>2. sequence \in Nat /\ Numbers(deltas) = 1..sequence /\ device.since \in 0..sequence
      /\ device.shown \in SUBSET Nat
  BY DEF IInv, NumbersReachSequence, TypeOK
<1>3. after \subseteq 0..sequence /\ page \subseteq after
  BY <1>2 DEF Page
<1>4. page \subseteq 0..sequence
  BY <1>3
<1>5. Max(page) \in page /\ \A n \in page : n <= Max(page)
  <2> HIDE DEF page
  <2> QED
    BY <1>1, <1>2, <1>4, MaxOf
<1>6. device'.since = Max(page) /\ device'.shown = device.shown \cup page
  BY <1>1
<1>7. TypeOK'
  <2>1. device' \in [since : Nat, shown : SUBSET Nat]
    BY <1>1, <1>2, <1>4, <1>5
  <2> QED
    BY <1>1, <2>1 DEF IInv, TypeOK
<1>8. DeviceMissesNothing'
  <2> SUFFICES ASSUME NEW n \in Numbers(deltas), n <= Max(page) PROVE n \in device.shown \cup page
    BY <1>1, <1>6 DEF DeviceMissesNothing, Numbers
  <2>1. CASE n <= device.since
    BY <2>1 DEF IInv, DeviceMissesNothing
  <2>2. CASE ~(n <= device.since)
    <3>1. n \in after
      BY <1>2, <2>2
    <3>2. n \in page
      <4> HIDE DEF after
      <4> QED
        BY <1>2, <1>3, <1>5, <3>1, PageIsPrefix
    <3> QED
      BY <3>2
  <2> QED
    BY <2>1, <2>2
<1>9. NumbersReachSequence'
  BY <1>1, <1>2, <1>4, <1>5, <1>6 DEF NumbersReachSequence, Numbers
<1>10. SessionsKnow' /\ SequenceHeld' /\ NumbersOnce'
  BY <1>1 DEF IInv, SessionsKnow, SessionKnows, SequenceHeld, NumbersOnce
<1> QED
  BY <1>7, <1>8, <1>9, <1>10 DEF IInv

-----------------------------------------------------------------------------
(* The theorems.                                                           *)

\* Every operation keeps the invariant.
LEMMA InvStep == IInv /\ [Next]_vars => IInv'
<1> SUFFICES ASSUME IInv, [Next]_vars PROVE IInv'
  OBVIOUS
<1>1. CASE UNCHANGED vars
  BY <1>1 DEF vars, IInv, TypeOK, SessionsKnow, SessionKnows, SequenceHeld, NumbersOnce,
              NumbersReachSequence, DeviceMissesNothing, Numbers
<1>2. CASE Read
  BY <1>2, InvRead
<1>3. ASSUME NEW s \in Sessions, NEW q \in Requests, Begin(s, q) PROVE IInv'
  BY <1>3, InvBegin
<1>4. ASSUME NEW s \in Sessions, NEW value \in Values, NEW feed \in Feeds, BeginCommit(s, value, feed)
      PROVE  IInv'
  BY <1>4, InvBeginCommit
<1>5. ASSUME NEW s \in Sessions,
             \/ Write(s) \/ CommitDelta(s) \/ ProposeControl(s) \/ RecordOperation(s)
             \/ Scan(s) \/ CommitClaims(s) \/ Stop(s)
      PROVE  IInv'
  BY <1>5, InvWrite, InvCommitDelta, InvProposeControl, InvRecordOperation, InvScan, InvCommitClaims, InvStop
<1> QED
  BY <1>1, <1>2, <1>3, <1>4, <1>5 DEF Next

\* The invariant holds in every reachable state.
THEOREM OverlayInvariant == Spec => []IInv
  BY InvInit, InvStep, PTL DEF Spec

\* Every variable has its type in every reachable state.
THEOREM OverlayTypes == Spec => []TypeOK
<1>1. IInv => TypeOK
  BY DEF IInv
<1> QED
  BY <1>1, OverlayInvariant, PTL

\* The owner's numbers have no hole and no repetition, and a device that reads on
\* from the last number it saw, a page at a time, is shown every delta.
THEOREM NothingMissed == Spec => []ReadingOnMissesNothing
<1>1. IInv => ReadingOnMissesNothing
  <2> SUFFICES ASSUME IInv PROVE ReadingOnMissesNothing
    OBVIOUS
  <2>1. sequence \in Nat /\ Numbers(deltas) = 1..sequence /\ \A d, e \in deltas : d.n = e.n => d = e
    BY DEF IInv, TypeOK, NumbersReachSequence, NumbersOnce
  <2>2. Cardinality(deltas) = sequence
    BY <2>1, CountedByNumbers
  <2> QED
    BY <2>1, <2>2 DEF IInv, ReadingOnMissesNothing, NumbersWithoutGaps
<1> QED
  BY <1>1, OverlayInvariant, PTL

\* A write that becomes visible has a greater number than everything visible before
\* it, whatever order the writes began in.
THEOREM NumbersInCommitOrder == Spec => SequenceIsCommitOrder
<1> DEFINE InOrder == \A d \in deltas' \ deltas : d.lifecycle = Pending => \A earlier \in deltas : earlier.n < d.n
<1>1. IInv /\ [Next]_vars => [InOrder]_vars
  <2> SUFFICES ASSUME IInv, Next, NEW d \in deltas' \ deltas, d.lifecycle = Pending
               PROVE  \A earlier \in deltas : earlier.n < d.n
    OBVIOUS
  <2>1. PICK s \in Sessions : CommitDelta(s) \/ CommitClaims(s)
    BY DEF Next, Begin, Write, ProposeControl, RecordOperation, BeginCommit, Scan, Stop, Read
  <2>2. CASE CommitDelta(s)
    <3>1. d.n = session[s].n /\ session[s].at = "written"
      BY <2>2 DEF CommitDelta
    <3>2. d.n = sequence + 1
      BY <3>1 DEF IInv, SequenceHeld
    <3>3. \A earlier \in deltas : earlier.n \in 1..sequence
      BY DEF IInv, NumbersReachSequence, Numbers
    <3> QED
      BY <3>2, <3>3 DEF IInv, TypeOK
  <2>3. CASE CommitClaims(s)
    <3>1. PICK before \in deltas :
            d = [before EXCEPT !.lifecycle = IF before.n \in session[s].contests THEN "CONTESTED" ELSE @]
      BY <2>3 DEF CommitClaims
    <3>2. before \in Delta
      BY DEF IInv, TypeOK
    <3>3. d = before
      BY <3>1, <3>2 DEF Delta, Pending
    <3> QED
      BY <3>3
  <2> QED
    BY <2>1, <2>2, <2>3
<1> QED
  BY <1>1, OverlayInvariant, PTL DEF Spec, SequenceIsCommitOrder

-----------------------------------------------------------------------------
(* Sessions that keep out of one another's way.                            *)

\* At most one session is at work.  The claims are of the past; a write that has
\* begun is younger than all of them; and a commit that has looked has found every
\* delta it contradicts.
AloneInv ==
  /\ \A r, s \in Sessions : session[r].at # "idle" /\ session[s].at # "idle" => r = s
  /\ \A c \in claims : c.at <= clock
  /\ \A s \in Sessions : session[s].now <= clock
  /\ \A s \in Sessions : session[s].at \in {"begun", "written"} =>
       \A c \in claims : c.at < session[s].now
  /\ \A s \in Sessions : session[s].at = "scanned" /\ session[s].feed = "add_claim" =>
       \A d \in deltas : d.lifecycle = Pending /\ session[s].now >= d.at
                         /\ Conflicts(session[s].value, d.request) => d.n \in session[s].contests

\* The property, of the instance's overlay part.
Contested ==
  \A d \in deltas, c \in claims :
    c.feed = "add_claim" /\ Contradicts(c, d) => d.lifecycle = "CONTESTED"

\* No session begins while another is at work.
NoOverlap == session' = session \/ \A s \in Busy : session'[s] # session[s]

\* Whoever moves without overlap finds the others idle.
LEMMA OthersIdle ==
  ASSUME IInv, AloneInv, NoOverlap, NEW s \in Sessions, NEW t, t # session[s],
         session' = [r \in Sessions |-> IF r = s THEN t ELSE session[r]]
  PROVE  \A r \in Sessions : r # s => session[r].at = "idle"
<1> SUFFICES ASSUME NEW r \in Sessions, r # s, session[r].at # "idle" PROVE FALSE
  OBVIOUS
<1>1. session'[s] # session[s] /\ session'[r] = session[r]
  OBVIOUS
<1>2. r \in Busy
  BY DEF Busy
<1> QED
  BY <1>1, <1>2 DEF NoOverlap

\* A step that moves one session and neither deltas nor claims, nor the clock back.
LEMMA AloneSession ==
  ASSUME IInv, AloneInv, Contested, NoOverlap, NEW s \in Sessions, NEW t \in Session, t # session[s],
         session' = [r \in Sessions |-> IF r = s THEN t ELSE session[r]],
         UNCHANGED <<deltas, claims>>,
         clock' \in 0..MaxClock, clock' >= clock, t.now <= clock',
         t.at \in {"begun", "written"} => \A c \in claims : c.at < t.now,
         t.at = "scanned" /\ t.feed = "add_claim" =>
           \A d \in deltas : d.lifecycle = Pending /\ t.now >= d.at
                             /\ Conflicts(t.value, d.request) => d.n \in t.contests
  PROVE  AloneInv' /\ Contested'
<1>1. \A r \in Sessions : r # s => session[r].at = "idle"
  BY OthersIdle
<1>2. /\ clock \in 0..MaxClock /\ MaxClock \in Nat
      /\ \A c \in claims : c.at \in 0..MaxClock
      /\ \A r \in Sessions : session[r].now \in 0..MaxClock
  BY RequestAssumption DEF IInv, TypeOK, Session
<1>3. \A c \in claims' : c.at <= clock'
  BY <1>2 DEF AloneInv
<1>4. \A r \in Sessions : session'[r].now <= clock'
  BY <1>2 DEF AloneInv
<1>5. Contested'
  BY DEF Contested
<1> QED
  BY <1>1, <1>3, <1>4, <1>5 DEF AloneInv

\* The write of a delta, when nobody else is at work: it is younger than every claim.
LEMMA AloneCommitDelta ==
  ASSUME IInv, AloneInv, Contested, NoOverlap, NEW s \in Sessions, CommitDelta(s)
  PROVE  AloneInv' /\ Contested'
<1> DEFINE w == session[s]
           added == [n |-> w.n, request |-> w.request, at |-> w.now, lifecycle |-> Pending]
           t == IF w.request \in Controls THEN [Idle EXCEPT !.at = "stored", !.request = w.request] ELSE Idle
<1>1. /\ w.at = "written" /\ deltas' = deltas \cup {added}
      /\ session' = [session EXCEPT ![s] = t] /\ UNCHANGED <<clock, claims>>
  BY DEF CommitDelta
<1>2. session' = [r \in Sessions |-> IF r = s THEN t ELSE session[r]]
  BY <1>1, Replaced
<1>3. t.at \in {"idle", "stored"} /\ t.now = 0
  BY DEF Idle
<1>4. added.at = w.now
  OBVIOUS
<1>5. /\ clock \in 0..MaxClock /\ MaxClock \in Nat /\ w.now \in 0..MaxClock
      /\ \A c \in claims : c.at \in 0..MaxClock
  BY RequestAssumption DEF IInv, TypeOK, Session
<1> HIDE DEF added, t
<1>6. t # w
  BY <1>1, <1>3
<1>7. \A r \in Sessions : r # s => session[r].at = "idle"
  BY <1>2, <1>6, OthersIdle
<1>8. \A r \in Sessions : session'[r].at \in {"idle", "stored"}
  BY <1>2, <1>3, <1>7
<1>9. \A c \in claims : ~ Contradicts(c, added)
  BY <1>1, <1>4, <1>5 DEF AloneInv, Contradicts
<1>10. Contested'
  BY <1>1, <1>9 DEF Contested
<1>11. \A q, r \in Sessions : session'[q].at # "idle" /\ session'[r].at # "idle" => q = r
  BY <1>2, <1>7
<1>12. \A r \in Sessions : session'[r].now <= clock'
  BY <1>1, <1>2, <1>3, <1>5 DEF AloneInv
<1> QED
  BY <1>1, <1>8, <1>10, <1>11, <1>12 DEF AloneInv

\* The commit of a claim, when nobody else is at work: every delta it contradicts was
\* there when it looked.
LEMMA AloneCommitClaims ==
  ASSUME IInv, AloneInv, Contested, NoOverlap, NEW s \in Sessions, CommitClaims(s)
  PROVE  AloneInv' /\ Contested'
<1> DEFINE w == session[s]
           Judged(d) == [d EXCEPT !.lifecycle = IF d.n \in w.contests THEN "CONTESTED" ELSE @]
           claim == [value |-> w.value, at |-> w.now, feed |-> w.feed]
<1>1. /\ w.at = "scanned" /\ deltas' = {Judged(d) : d \in deltas} /\ claims' = claims \cup {claim}
      /\ session' = [session EXCEPT ![s] = Idle] /\ UNCHANGED clock
  BY DEF CommitClaims
<1>2. session' = [r \in Sessions |-> IF r = s THEN Idle ELSE session[r]]
  BY <1>1, Replaced
<1>3. Idle.at = "idle" /\ Idle.now = 0
  BY DEF Idle
<1>4. Idle # w
  BY <1>1, <1>3
<1>5. \A r \in Sessions : r # s => session[r].at = "idle"
  BY <1>2, <1>4, OthersIdle
<1>6. \A r \in Sessions : session'[r].at = "idle"
  BY <1>2, <1>3, <1>5
<1>7. /\ clock \in 0..MaxClock /\ MaxClock \in Nat /\ w.now \in 0..MaxClock
      /\ \A c \in claims : c.at \in 0..MaxClock
  BY RequestAssumption DEF IInv, TypeOK, Session
<1>8. \A d \in deltas : /\ Judged(d).n = d.n /\ Judged(d).at = d.at /\ Judged(d).request = d.request
                        /\ Judged(d).lifecycle = IF d.n \in w.contests THEN "CONTESTED" ELSE d.lifecycle
                        /\ d.lifecycle \in {Pending, "CONTESTED"}
  BY DEF IInv, TypeOK, Delta
<1>9. claim.feed = w.feed /\ claim.at = w.now /\ claim.value = w.value
  OBVIOUS
<1> HIDE DEF Judged, claim
<1>10. \A c \in claims' : c.at <= clock
  BY <1>1, <1>9 DEF AloneInv
<1>11. Contested'
  <2> SUFFICES ASSUME NEW d \in deltas, NEW c \in claims', c.feed = "add_claim", Contradicts(c, Judged(d))
               PROVE  Judged(d).lifecycle = "CONTESTED"
    BY <1>1 DEF Contested
  <2>1. Contradicts(c, d)
    BY <1>8 DEF Contradicts
  <2>2. CASE c \in claims
    BY <1>8, <2>1, <2>2 DEF Contested
  <2>3. CASE c = claim
    <3>1. d.lifecycle = Pending => d.n \in w.contests
      BY <1>1, <1>9, <2>1, <2>3 DEF AloneInv, Contradicts
    <3> QED
      BY <1>8, <3>1
  <2> QED
    BY <1>1, <2>2, <2>3
<1>12. \A r \in Sessions : session'[r].now <= clock'
  BY <1>1, <1>2, <1>3, <1>7 DEF AloneInv
<1> QED
  BY <1>1, <1>6, <1>10, <1>11, <1>12 DEF AloneInv

\* Every operation keeps it, as long as no session begins while another is at work.
LEMMA AloneStep ==
  ASSUME IInv, AloneInv, Contested, NoOverlap, Next
  PROVE  AloneInv' /\ Contested'
<1>1. /\ clock \in 0..MaxClock /\ MaxClock \in Nat
      /\ \A c \in claims : c.at \in 0..MaxClock
      /\ \A r \in Sessions : session[r] \in Session /\ session[r].now \in 0..MaxClock
  BY RequestAssumption DEF IInv, TypeOK, Session
<1>2. Idle \in Session /\ Idle.at = "idle" /\ Idle.now = 0
  BY IdleSession DEF Idle
<1>3. ASSUME NEW s \in Sessions, NEW q \in Requests, Begin(s, q)
      PROVE  AloneInv' /\ Contested'
  <2> DEFINE t == [Idle EXCEPT !.at = "begun", !.request = q, !.now = clock + 1]
  <2>1. /\ session[s].at = "idle" /\ clock' = clock + 1 /\ clock < MaxClock
        /\ session' = [session EXCEPT ![s] = t] /\ UNCHANGED <<deltas, claims>>
    BY <1>3 DEF Begin
  <2> clock + 1 \in 0..MaxClock
    BY <1>1, <2>1
  <2>2. t \in Session /\ t.at = "begun" /\ t.now = clock + 1
    BY <1>2 DEF Session, Idle, Places
  <2>3. session' = [r \in Sessions |-> IF r = s THEN t ELSE session[r]]
    BY <2>1, Replaced
  <2> HIDE DEF t
  <2>4. \A c \in claims : c.at < t.now
    BY <1>1, <2>2 DEF AloneInv
  <2>5. clock' \in 0..MaxClock /\ clock' >= clock /\ t.now <= clock'
    BY <1>1, <2>1, <2>2
  <2>6. t # session[s] /\ t.at # "scanned"
    BY <2>1, <2>2
  <2> QED
    BY <2>1, <2>2, <2>3, <2>4, <2>5, <2>6, AloneSession
<1>4. ASSUME NEW s \in Sessions, NEW value \in Values, NEW feed \in Feeds, BeginCommit(s, value, feed)
      PROVE  AloneInv' /\ Contested'
  <2> DEFINE t == [Idle EXCEPT !.at = "governing", !.value = value, !.feed = feed, !.now = clock + 1]
  <2>1. /\ session[s].at = "idle" /\ clock' = clock + 1 /\ clock < MaxClock
        /\ session' = [session EXCEPT ![s] = t] /\ UNCHANGED <<deltas, claims>>
    BY <1>4 DEF BeginCommit
  <2> clock + 1 \in 0..MaxClock /\ feed \in {"add_claim", "worker"}
    BY <1>1, <2>1, RequestAssumption
  <2>2. t \in Session /\ t.at = "governing" /\ t.now = clock + 1
    BY <1>2 DEF Session, Idle, Places
  <2>3. session' = [r \in Sessions |-> IF r = s THEN t ELSE session[r]]
    BY <2>1, Replaced
  <2> HIDE DEF t
  <2>4. clock' \in 0..MaxClock /\ clock' >= clock /\ t.now <= clock'
    BY <1>1, <2>1, <2>2
  <2>5. t # session[s] /\ t.at # "scanned" /\ t.at \notin {"begun", "written"}
    BY <2>1, <2>2
  <2> QED
    BY <2>1, <2>2, <2>3, <2>4, <2>5, AloneSession
<1>5. ASSUME NEW s \in Sessions, Write(s) PROVE AloneInv' /\ Contested'
  <2> DEFINE t == [session[s] EXCEPT !.at = "written", !.n = sequence + 1]
  <2>1. session[s].at = "begun" /\ session' = [session EXCEPT ![s] = t] /\ UNCHANGED <<clock, deltas, claims>>
    BY <1>5 DEF Write
  <2> session[s] \in Session /\ sequence + 1 \in Nat
    BY <1>1 DEF IInv, TypeOK
  <2>2. t \in Session /\ t.at = "written" /\ t.now = session[s].now
    BY DEF Session, Places
  <2>3. session' = [r \in Sessions |-> IF r = s THEN t ELSE session[r]]
    BY <2>1, Replaced
  <2> HIDE DEF t
  <2>4. \A c \in claims : c.at < t.now
    BY <2>1, <2>2 DEF AloneInv
  <2>5. clock' \in 0..MaxClock /\ clock' >= clock /\ t.now <= clock'
    BY <1>1, <2>1, <2>2 DEF AloneInv
  <2>6. t # session[s] /\ t.at # "scanned"
    BY <2>1, <2>2
  <2> QED
    BY <2>1, <2>2, <2>3, <2>4, <2>5, <2>6, AloneSession
<1>6. ASSUME NEW s \in Sessions, ProposeControl(s) PROVE AloneInv' /\ Contested'
  <2> DEFINE t == [session[s] EXCEPT !.at = "proposed"]
  <2>1. session[s].at = "stored" /\ session' = [session EXCEPT ![s] = t] /\ UNCHANGED <<clock, deltas, claims>>
    BY <1>6 DEF ProposeControl
  <2>2. t \in Session /\ t.at = "proposed" /\ t.now = session[s].now
    BY <1>1 DEF Session, Places
  <2>3. session' = [r \in Sessions |-> IF r = s THEN t ELSE session[r]]
    BY <2>1, Replaced
  <2> HIDE DEF t
  <2>4. clock' \in 0..MaxClock /\ clock' >= clock /\ t.now <= clock'
    BY <1>1, <2>1, <2>2 DEF AloneInv
  <2>5. t # session[s] /\ t.at # "scanned" /\ t.at \notin {"begun", "written"}
    BY <2>1, <2>2
  <2> QED
    BY <2>1, <2>2, <2>3, <2>4, <2>5, AloneSession
<1>7. ASSUME NEW s \in Sessions, RecordOperation(s) \/ Stop(s) PROVE AloneInv' /\ Contested'
  <2>1. session[s].at # "idle" /\ session' = [session EXCEPT ![s] = Idle] /\ UNCHANGED <<clock, deltas, claims>>
    BY <1>7 DEF RecordOperation, Stop
  <2>2. session' = [r \in Sessions |-> IF r = s THEN Idle ELSE session[r]]
    BY <2>1, Replaced
  <2>3. clock' \in 0..MaxClock /\ clock' >= clock /\ Idle.now <= clock'
    BY <1>1, <1>2, <2>1
  <2>4. Idle # session[s] /\ Idle.at # "scanned" /\ Idle.at \notin {"begun", "written"}
    BY <1>2, <2>1
  <2> QED
    BY <1>2, <2>1, <2>2, <2>3, <2>4, AloneSession
<1>8. ASSUME NEW s \in Sessions, Scan(s) PROVE AloneInv' /\ Contested'
  <2> DEFINE found == Numbers(Contradicted(s))
             t == [session[s] EXCEPT !.at = "scanned", !.contests = found]
  <2>1. session[s].at = "governing" /\ session' = [session EXCEPT ![s] = t] /\ UNCHANGED <<clock, deltas, claims>>
    BY <1>8 DEF Scan
  <2>2. found \subseteq Nat
    BY DEF Numbers, Contradicted, IInv, TypeOK, Delta
  <2>3. /\ t \in Session /\ t.at = "scanned" /\ t.now = session[s].now /\ t.contests = found
        /\ t.value = session[s].value /\ t.feed = session[s].feed
    BY <1>1, <2>2 DEF Session, Places
  <2>4. session' = [r \in Sessions |-> IF r = s THEN t ELSE session[r]]
    BY <2>1, Replaced
  <2>5. session[s].feed = "add_claim" =>
          \A d \in deltas : d.lifecycle = Pending /\ session[s].now >= d.at
                            /\ Conflicts(session[s].value, d.request) => d.n \in found
    BY DEF Contradicted, Numbers
  <2> HIDE DEF t, found
  <2>6. clock' \in 0..MaxClock /\ clock' >= clock /\ t.now <= clock'
    BY <1>1, <2>1, <2>3 DEF AloneInv
  <2>7. t # session[s] /\ t.at \notin {"begun", "written"}
    BY <2>1, <2>3
  <2>8. t.at = "scanned" /\ t.feed = "add_claim" =>
          \A d \in deltas : d.lifecycle = Pending /\ t.now >= d.at
                            /\ Conflicts(t.value, d.request) => d.n \in t.contests
    BY <2>3, <2>5
  <2> QED
    BY <2>1, <2>3, <2>4, <2>6, <2>7, <2>8, AloneSession
<1>9. CASE Read
  BY <1>9 DEF Read, AloneInv, Contested
<1> QED
  BY <1>3, <1>4, <1>5, <1>6, <1>7, <1>8, <1>9, AloneCommitDelta, AloneCommitClaims DEF Next

\* The instance's run of the overlay, and the other parts of it, which leave it alone.
AloneSound == subject = "overlay" /\ alone => AloneInv /\ Contested

\* Nobody at work, nothing said.
LEMMA AloneInit == MCInit => IInv /\ AloneSound
<1> SUFFICES ASSUME MCInit PROVE IInv /\ AloneSound
  OBVIOUS
<1>1. Init /\ IInv
  BY InvInit DEF MCInit
<1>2. AloneInv /\ Contested
  BY <1>1, RequestAssumption DEF Init, Idle, AloneInv, Contested
<1> QED
  BY <1>1, <1>2 DEF AloneSound

\* Every step of the instance keeps both.
LEMMA MCStep ==
  IInv /\ AloneSound /\ [MCNext]_<<vars, erasure, intakeVars, actionVars, inboxVars, alone, subject>>
    => IInv' /\ AloneSound'
<1> SUFFICES ASSUME IInv, AloneSound,
                    [MCNext]_<<vars, erasure, intakeVars, actionVars, inboxVars, alone, subject>>
             PROVE  IInv' /\ AloneSound'
  OBVIOUS
<1>1. CASE UNCHANGED vars /\ subject' = subject /\ (alone' = alone \/ subject # "overlay")
  <2>1. IInv'
    BY <1>1, InvStep
  <2>2. AloneSound'
    BY <1>1 DEF vars, AloneSound, AloneInv, Contested
  <2> QED
    BY <2>1, <2>2
<1>2. CASE /\ subject = "overlay" /\ Next /\ UNCHANGED subject
           /\ alone' = (alone /\ (session' = session \/ \A s \in Busy : session'[s] # session[s]))
  <2>1. IInv'
    BY <1>2, InvStep
  <2>2. ASSUME alone' PROVE AloneInv' /\ Contested'
    <3>1. alone /\ NoOverlap
      BY <1>2, <2>2 DEF NoOverlap
    <3> QED
      BY <1>2, <3>1, AloneStep DEF AloneSound
  <2> QED
    BY <2>1, <2>2 DEF AloneSound
<1> QED
  BY <1>1, <1>2 DEF MCNext

\* When sessions keep out of one another's way, every delta that a later commit's own
\* claim contradicts is contested.
THEOREM EveryConflictContested == MCSpec => []ContestsAlone
<1>1. IInv /\ AloneSound => ContestsAlone
  BY DEF AloneSound, Contested, ContestsAlone
<1> QED
  BY <1>1, AloneInit, MCStep, PTL DEF MCSpec

-----------------------------------------------------------------------------
(*                          GovernedActions                                *)

Points == {"idle", "granted", "deciding", "said", "answering", "received", "done"}
CallRecord == [at : Points, about : Calls \cup Asked \cup {Unset}, says : DraftStatuses \cup Answers \cup {Unset}]

-----------------------------------------------------------------------------
(* Calls and histories.                                                    *)

\* What a call knows, apart from the draft it may have created.
Carries(t) ==
    /\ t.at = "deciding" => t.about \in Calls /\ t.says \in DraftStatuses
    /\ t.at \in {"said", "answering"} =>
          /\ t.about \in Asked \cup {Unset} /\ t.says \in Answers
          /\ recommendation.status # Unset
    /\ t.at = "answering" /\ recommendation.status = "BLOCKED" => t.says = "DISMISSED"
    /\ t.at = "received" => t.about \in Asked

LEMMA CallKnowsCarries ==
  ASSUME NEW c \in Calls
  PROVE  CallKnows(c) <=> (draft[c] # Unset => call[c].at = "done") /\ Carries(call[c])
  BY DEF CallKnows, Carries

\* A step that moves one unfinished call and leaves the recommendation alone: it
\* creates a draft only where it ends, and no other.
LEMMA CallMoves ==
  ASSUME ActionInv, NEW c \in Calls, NEW t \in CallRecord,
         call' = [call EXCEPT ![c] = t],
         call[c].at # "done", Carries(t), UNCHANGED recommendation,
         \A d \in Calls : draft'[d] # Unset => draft[d] # Unset \/ (d = c /\ t.at = "done")
  PROVE  call' \in [Calls -> CallRecord] /\ CallsKnow'
<1>1. call \in [Calls -> CallRecord]
  BY DEF ActionInv, ActionTypeOK, CallRecord, Points
<1>2. /\ call' \in [Calls -> CallRecord] /\ call'[c] = t
      /\ \A d \in Calls \ {c} : call'[d] = call[d]
  BY <1>1
<1>3. draft[c] = Unset
  BY DEF ActionInv, CallsKnow, CallKnows
<1>4. CallKnows(c)'
  <2>1. draft'[c] # Unset => t.at = "done"
    BY <1>3
  <2> QED
    BY <1>2, <2>1 DEF CallKnows, Carries
<1>5. ASSUME NEW d \in Calls \ {c}
      PROVE  CallKnows(d)'
  <2>1. CallKnows(d)
    BY DEF ActionInv, CallsKnow
  <2>2. call'[d] = call[d] /\ (draft'[d] # Unset => draft[d] # Unset)
    BY <1>2
  <2> QED
    BY <2>1, <2>2 DEF CallKnows
<1> QED
  BY <1>2, <1>4, <1>5 DEF CallsKnow

\* The entries a history is made of.
LEMMA Entries ==
  /\ Append(<<>>, "DRAFTED") = <<"DRAFTED">>
  /\ Append(<<"DRAFTED">>, "REQUESTED_APPROVAL") = <<"DRAFTED", "REQUESTED_APPROVAL">>
<1> DEFINE stages == {"DRAFTED", "REQUESTED_APPROVAL"}
<1>1. <<>> \in Seq(stages) /\ <<"DRAFTED">> \in Seq(stages)
  OBVIOUS
<1>2. Append(<<>>, "DRAFTED") = <<"DRAFTED">>
  BY <1>1
<1>3. Append(<<"DRAFTED">>, "REQUESTED_APPROVAL") = <<"DRAFTED", "REQUESTED_APPROVAL">>
  <2> DEFINE s == Append(<<"DRAFTED">>, "REQUESTED_APPROVAL")
             t == <<"DRAFTED", "REQUESTED_APPROVAL">>
  <2>1. s \in Seq(stages) /\ Len(s) = 2 /\ s[1] = "DRAFTED" /\ s[2] = "REQUESTED_APPROVAL"
    BY <1>1
  <2>2. t \in Seq(stages) /\ Len(t) = 2 /\ t[1] = "DRAFTED" /\ t[2] = "REQUESTED_APPROVAL"
    OBVIOUS
  <2>3. \A i \in 1..Len(s) : s[i] = t[i]
    BY <2>1, <2>2
  <2>4. s = t
    <3> HIDE DEF s, t, stages
    <3> QED
      BY <2>1, <2>2, <2>3, SeqEqual
  <2> QED
    BY <2>4
<1> QED
  BY <1>2, <1>3

\* A call that only reads, or ends without effect.
LEMMA QuietCall ==
  ASSUME ActionInv, NEW c \in Calls, NEW t \in CallRecord,
         call' = [call EXCEPT ![c] = t],
         call[c].at # "done", Carries(t),
         UNCHANGED <<granted, recommendation, draft, history, facts>>,
         evidence' \in [Asked -> {Unset, "statement", "receipt", "erased"}]
  PROVE  ActionInv'
<1>1. call' \in [Calls -> CallRecord] /\ CallsKnow'
  BY CallMoves
<1>2. ActionTypeOK'
  BY <1>1 DEF ActionInv, ActionTypeOK, CallRecord, Points
<1>3. AnswerFits'
  BY DEF ActionInv, AnswerFits
<1>4. DraftsTellOneStory'
  BY DEF ActionInv, DraftsTellOneStory
<1> QED
  BY <1>1, <1>2, <1>3, <1>4 DEF ActionInv

-----------------------------------------------------------------------------
(* The steps of a call, each as the record it moves the call to.           *)

LEMMA Ended ==
  ASSUME ActionInv, NEW c \in Calls, Done(c)
  PROVE  LET t == [call[c] EXCEPT !.at = "done"]
         IN  t \in CallRecord /\ call' = [call EXCEPT ![c] = t] /\ t.at = "done" /\ Carries(t)
<1> DEFINE t == [call[c] EXCEPT !.at = "done"]
<1>1. call \in [Calls -> CallRecord]
  BY DEF ActionInv, ActionTypeOK, CallRecord, Points
<1>2. call[c] \in CallRecord
  BY <1>1
<1>3. t \in CallRecord /\ t.at = "done"
  BY <1>2 DEF CallRecord, Points
<1>4. call' = [call EXCEPT ![c] = t]
  BY DEF Done
<1>5. Carries(t)
  BY <1>3 DEF Carries
<1> QED
  BY <1>3, <1>4, <1>5

LEMMA EndedQuietly ==
  ASSUME ActionInv, NEW c \in Calls, Done(c), call[c].at # "done",
         UNCHANGED <<granted, recommendation, draft, history, evidence, facts>>
  PROVE  ActionInv'
<1> DEFINE t == [call[c] EXCEPT !.at = "done"]
<1>1. t \in CallRecord /\ call' = [call EXCEPT ![c] = t] /\ Carries(t)
  BY Ended
<1>2. evidence' \in [Asked -> {Unset, "statement", "receipt", "erased"}]
  BY DEF ActionInv, ActionTypeOK
<1> HIDE DEF t
<1> QED
  BY <1>1, <1>2, QuietCall

LEMMA Turned ==
  ASSUME ActionInv, NEW c \in Calls, call[c].at # "done",
         NEW at \in Points, NEW about \in Calls \cup Asked \cup {Unset},
         NEW says \in DraftStatuses \cup Answers \cup {Unset},
         Turns(c, at, about, says), Carries([at |-> at, about |-> about, says |-> says]),
         UNCHANGED <<granted, recommendation, draft, history, facts>>,
         evidence' \in [Asked -> {Unset, "statement", "receipt", "erased"}]
  PROVE  ActionInv'
<1> DEFINE t == [at |-> at, about |-> about, says |-> says]
<1>1. t \in CallRecord
  BY DEF CallRecord
<1>2. call' = [call EXCEPT ![c] = t]
  BY DEF Turns
<1>3. Carries(t)
  OBVIOUS
<1> HIDE DEF t
<1> QED
  BY <1>1, <1>2, <1>3, QuietCall

-----------------------------------------------------------------------------
(* The actions.                                                            *)

LEMMA ActionInitHolds == ASSUME ActionInit PROVE ActionInv
<1>1. ActionTypeOK
  <2>1. Waiting \in CallRecord
    BY DEF Waiting, CallRecord, Points
  <2>2. <<>> \in Seq({"DRAFTED", "REQUESTED_APPROVAL"})
    OBVIOUS
  <2> QED
    BY <2>1, <2>2 DEF ActionInit, ActionTypeOK, CallRecord, Points, Unset
<1>2. CallsKnow
  BY DEF ActionInit, CallsKnow, CallKnows, Waiting
<1>3. AnswerFits
  BY DEF ActionInit, AnswerFits, Unset
<1>4. DraftsTellOneStory
  BY DEF ActionInit, DraftsTellOneStory, Unset
<1> QED
  BY <1>1, <1>2, <1>3, <1>4 DEF ActionInv

LEMMA SetPluginCapabilityKeeps == ASSUME ActionInv, SetPluginCapability PROVE ActionInv'
<1>1. ActionTypeOK'
  BY DEF ActionInv, SetPluginCapability, ActionTypeOK
<1>2. CallsKnow'
  BY DEF ActionInv, SetPluginCapability, CallsKnow, CallKnows
<1>3. AnswerFits' /\ DraftsTellOneStory'
  BY DEF ActionInv, SetPluginCapability, AnswerFits, DraftsTellOneStory
<1> QED
  BY <1>1, <1>2, <1>3 DEF ActionInv

LEMMA RecommendKeeps == ASSUME ActionInv, Recommend PROVE ActionInv'
<1>1. PICK status \in {"ACTIVE", "BLOCKED"} :
        recommendation' = [recommendation EXCEPT !.status = status, !.response = "NONE"]
  BY DEF Recommend
<1>2. /\ recommendation' \in [status : {Unset, "ACTIVE", "BLOCKED"}, response : Answers \cup {"NONE", Unset},
                             words : Asked \cup {Unset}]
      /\ recommendation'.status = status /\ recommendation'.response = "NONE"
  BY <1>1 DEF ActionInv, ActionTypeOK
<1>3. ActionTypeOK'
  BY <1>2 DEF ActionInv, Recommend, ActionTypeOK
<1>4. ASSUME NEW c \in Calls
      PROVE  CallKnows(c)'
  <2>1. CallKnows(c) /\ call[c].at \notin {"said", "answering"}
    BY DEF ActionInv, CallsKnow, CallKnows, Recommend
  <2> QED
    BY <2>1 DEF CallKnows, Recommend
<1>5. AnswerFits' /\ DraftsTellOneStory'
  BY <1>2 DEF ActionInv, Recommend, AnswerFits, DraftsTellOneStory, Unset
<1> QED
  BY <1>3, <1>4, <1>5 DEF ActionInv, CallsKnow

LEMMA EraseItemKeeps == ASSUME ActionInv, NEW key \in Asked, EraseItem(key) PROVE ActionInv'
<1>1. ActionTypeOK'
  BY DEF ActionInv, EraseItem, ActionTypeOK
<1>2. CallsKnow'
  BY DEF ActionInv, EraseItem, CallsKnow, CallKnows
<1>3. AnswerFits' /\ DraftsTellOneStory'
  BY DEF ActionInv, EraseItem, AnswerFits, DraftsTellOneStory
<1> QED
  BY <1>1, <1>2, <1>3 DEF ActionInv

LEMMA AskDraftKeeps == ASSUME ActionInv, NEW c \in Calls, AskDraft(c) PROVE ActionInv'
<1>1. CASE granted
  <2>1. Carries([at |-> "granted", about |-> Unset, says |-> Unset])
    BY DEF Carries
  <2>2. evidence' \in [Asked -> {Unset, "statement", "receipt", "erased"}]
    BY DEF ActionInv, ActionTypeOK, AskDraft
  <2> QED
    BY <1>1, <2>1, <2>2, Turned DEF AskDraft, Points
<1>2. CASE ~granted
  BY <1>2, EndedQuietly DEF AskDraft
<1> QED
  BY <1>1, <1>2

LEMMA CreateDraftKeeps == ASSUME ActionInv, NEW c \in Calls, CreateDraft(c) PROVE ActionInv'
<1>1. CASE UNCHANGED <<draft, history>>
  BY <1>1, EndedQuietly DEF CreateDraft
<1>2. CASE /\ draft' = [draft EXCEPT ![c] = "CREATED"]
           /\ history' = [history EXCEPT ![c] = Append(@, "DRAFTED")]
  <2> DEFINE t == [call[c] EXCEPT !.at = "done"]
  <2>1. t \in CallRecord /\ call' = [call EXCEPT ![c] = t] /\ t.at = "done" /\ Carries(t)
    BY Ended DEF CreateDraft
  <2>2. draft[c] = Unset
    BY DEF ActionInv, CallsKnow, CallKnows, CreateDraft
  <2>3. history[c] = <<>>
    BY <2>2 DEF ActionInv, DraftsTellOneStory, Unset
  <2>4. /\ draft' \in [Calls -> DraftStatuses \cup {Unset}] /\ draft'[c] = "CREATED"
        /\ \A d \in Calls \ {c} : draft'[d] = draft[d]
    BY <1>2 DEF ActionInv, ActionTypeOK, DraftStatuses
  <2>5. history'[c] = <<"DRAFTED">> /\ \A d \in Calls \ {c} : history'[d] = history[d]
    BY <1>2, <2>3, Entries DEF ActionInv, ActionTypeOK
  <2>6. history' \in [Calls -> Seq({"DRAFTED", "REQUESTED_APPROVAL"})]
    BY <1>2 DEF ActionInv, ActionTypeOK
  <2>7. call' \in [Calls -> CallRecord] /\ CallsKnow'
    <3>1. call[c].at # "done" /\ UNCHANGED recommendation
      BY DEF CreateDraft
    <3>2. \A d \in Calls : draft'[d] # Unset => draft[d] # Unset \/ (d = c /\ t.at = "done")
      BY <2>1, <2>4
    <3> HIDE DEF t
    <3> QED
      BY <2>1, <3>1, <3>2, CallMoves
  <2>8. ActionTypeOK'
    BY <2>4, <2>6, <2>7 DEF ActionInv, ActionTypeOK, CreateDraft, CallRecord, Points
  <2>9. DraftsTellOneStory'
    BY <2>4, <2>5 DEF ActionInv, DraftsTellOneStory, Unset
  <2> QED
    BY <2>7, <2>8, <2>9 DEF ActionInv, AnswerFits, CreateDraft
<1> QED
  BY <1>1, <1>2 DEF CreateDraft

LEMMA ReadDraftKeeps ==
  ASSUME ActionInv, NEW c \in Calls, NEW d \in Calls, NEW next \in DraftStatuses \ {"CREATED"},
         ReadDraft(c, d, next)
  PROVE  ActionInv'
<1>1. CASE MayFollow(draft[d], next)
  <2>1. Carries([at |-> "deciding", about |-> d, says |-> next])
    BY DEF Carries
  <2>2. evidence' \in [Asked -> {Unset, "statement", "receipt", "erased"}]
    BY DEF ActionInv, ActionTypeOK, ReadDraft
  <2> QED
    BY <1>1, <2>1, <2>2, Turned DEF ReadDraft, Points
<1>2. CASE ~MayFollow(draft[d], next)
  BY <1>2, EndedQuietly DEF ReadDraft
<1> QED
  BY <1>1, <1>2

LEMMA DecideDraftKeeps == ASSUME ActionInv, NEW c \in Calls, DecideDraft(c) PROVE ActionInv'
<1> DEFINE d == call[c].about
           next == call[c].says
<1>1. d \in Calls /\ next \in DraftStatuses
  BY DEF ActionInv, CallsKnow, CallKnows, DecideDraft
<1>2. CASE Transition(d, next)
  <2> DEFINE t == [call[c] EXCEPT !.at = "done"]
  <2>1. t \in CallRecord /\ call' = [call EXCEPT ![c] = t] /\ Carries(t)
    BY Ended DEF DecideDraft
  <2>2. \/ draft[d] = "CREATED" /\ next \in {"AWAITING_APPROVAL", "DISCARDED"}
        \/ draft[d] = "AWAITING_APPROVAL" /\ next \in {"APPROVED", "DISCARDED"}
    BY <1>2 DEF Transition, MayFollow
  <2>3. /\ draft' = [draft EXCEPT ![d] = next]
        /\ history' = IF next = "AWAITING_APPROVAL"
                      THEN [history EXCEPT ![d] = Append(@, "REQUESTED_APPROVAL")] ELSE history
    BY <1>2 DEF DecideDraft
  <2>4. /\ draft' \in [Calls -> DraftStatuses \cup {Unset}] /\ draft'[d] = next
        /\ \A e \in Calls \ {d} : draft'[e] = draft[e]
    BY <1>1, <2>3 DEF ActionInv, ActionTypeOK
  <2>5. \A e \in Calls \ {d} : history'[e] = history[e]
    BY <2>3 DEF ActionInv, ActionTypeOK
  <2>6. history' \in [Calls -> Seq({"DRAFTED", "REQUESTED_APPROVAL"})]
    BY <1>1, <2>3 DEF ActionInv, ActionTypeOK
  <2>7. call' \in [Calls -> CallRecord] /\ CallsKnow'
    <3>1. call[c].at # "done" /\ UNCHANGED recommendation
      BY DEF DecideDraft
    <3>2. \A e \in Calls : draft'[e] # Unset => draft[e] # Unset
      BY <2>2, <2>4 DEF Unset
    <3> HIDE DEF t
    <3> QED
      BY <2>1, <3>1, <3>2, CallMoves
  <2>8. ActionTypeOK'
    BY <2>4, <2>6, <2>7 DEF ActionInv, ActionTypeOK, DecideDraft, CallRecord, Points
  <2>9. history'[d] \in CASE next = Unset -> {<<>>}
                          [] next = "CREATED" -> {<<"DRAFTED">>}
                          [] next = "DISCARDED" -> {<<"DRAFTED">>, <<"DRAFTED", "REQUESTED_APPROVAL">>}
                          [] OTHER -> {<<"DRAFTED", "REQUESTED_APPROVAL">>}
    <3>1. CASE draft[d] = "CREATED" /\ next = "AWAITING_APPROVAL"
      <4>1. history[d] = <<"DRAFTED">>
        BY <1>1, <3>1 DEF ActionInv, DraftsTellOneStory, Unset
      <4>2. history'[d] = <<"DRAFTED", "REQUESTED_APPROVAL">>
        BY <1>1, <2>3, <3>1, <4>1, Entries DEF ActionInv, ActionTypeOK
      <4> QED
        BY <3>1, <4>2 DEF Unset
    <3>2. CASE draft[d] = "CREATED" /\ next = "DISCARDED"
      <4>1. history'[d] = <<"DRAFTED">>
        BY <1>1, <2>3, <3>2 DEF ActionInv, DraftsTellOneStory, Unset
      <4> QED
        BY <3>2, <4>1 DEF Unset
    <3>3. CASE draft[d] = "AWAITING_APPROVAL" /\ next \in {"APPROVED", "DISCARDED"}
      <4>1. history'[d] = <<"DRAFTED", "REQUESTED_APPROVAL">>
        BY <1>1, <2>3, <3>3 DEF ActionInv, DraftsTellOneStory, Unset
      <4> QED
        BY <3>3, <4>1 DEF Unset
    <3> QED
      BY <2>2, <3>1, <3>2, <3>3
  <2>10. DraftsTellOneStory'
    <3> HIDE DEF d, next
    <3> QED
      BY <2>4, <2>5, <2>9 DEF ActionInv, DraftsTellOneStory
  <2> QED
    BY <2>7, <2>8, <2>10 DEF ActionInv, AnswerFits, DecideDraft
<1>3. CASE ~Transition(d, next)
  BY <1>3, EndedQuietly DEF DecideDraft
<1> QED
  BY <1>2, <1>3

LEMMA SayKeeps ==
  ASSUME ActionInv, NEW c \in Calls, NEW key \in Asked, NEW answer \in Answers, Say(c, key, answer)
  PROVE  ActionInv'
<1>1. evidence' \in [Asked -> {Unset, "statement", "receipt", "erased"}]
  BY DEF ActionInv, ActionTypeOK, Say
<1>2. \A about \in Asked \cup {Unset} : Carries([at |-> "said", about |-> about, says |-> answer])
  BY DEF Carries, Say
<1>3. PICK about \in Asked \cup {Unset} : Turns(c, "said", about, answer)
  BY DEF Say
<1> QED
  BY <1>1, <1>2, <1>3, Turned DEF Say, Points

LEMMA ReadRecommendationKeeps == ASSUME ActionInv, NEW c \in Calls, ReadRecommendation(c) PROVE ActionInv'
<1>1. CASE \/ recommendation.status = "BLOCKED" /\ call[c].says # "DISMISSED"
           \/ recommendation.response \notin Open
  BY <1>1, EndedQuietly DEF ReadRecommendation
<1>2. CASE ~ \/ recommendation.status = "BLOCKED" /\ call[c].says # "DISMISSED"
             \/ recommendation.response \notin Open
  <2> DEFINE t == [call[c] EXCEPT !.at = "answering"]
  <2>1. call \in [Calls -> CallRecord]
    BY DEF ActionInv, ActionTypeOK, CallRecord, Points
  <2>2. call[c] \in CallRecord
    BY <2>1
  <2>3. t \in CallRecord /\ t.at = "answering" /\ t.about = call[c].about /\ t.says = call[c].says
    BY <2>2 DEF CallRecord, Points
  <2>4. call' = [call EXCEPT ![c] = t]
    BY <1>2 DEF ReadRecommendation
  <2>5. Carries(t)
    <3>1. CallKnows(c) /\ call[c].at = "said"
      BY DEF ActionInv, CallsKnow, ReadRecommendation
    <3> QED
      BY <1>2, <2>3, <3>1 DEF CallKnows, Carries
  <2>6. evidence' \in [Asked -> {Unset, "statement", "receipt", "erased"}]
    BY DEF ActionInv, ActionTypeOK, ReadRecommendation
  <2>7. call[c].at # "done" /\ UNCHANGED <<granted, recommendation, draft, history, facts>>
    BY DEF ReadRecommendation
  <2> HIDE DEF t
  <2> QED
    BY <2>3, <2>4, <2>5, <2>6, <2>7, QuietCall
<1> QED
  BY <1>1, <1>2

LEMMA RespondKeeps == ASSUME ActionInv, NEW c \in Calls, Respond(c) PROVE ActionInv'
<1>1. CASE Unanswered
  <2> DEFINE says == call[c].says
             about == call[c].about
  <2>1. /\ about \in Asked \cup {Unset} /\ says \in Answers /\ recommendation.status # Unset
        /\ recommendation.status = "BLOCKED" => says = "DISMISSED"
    BY DEF ActionInv, CallsKnow, CallKnows, Respond
  <2>2. recommendation' = [recommendation EXCEPT !.response = says, !.words = about]
    BY <1>1 DEF Respond
  <2>3. /\ recommendation' \in [status : {Unset, "ACTIVE", "BLOCKED"}, response : Answers \cup {"NONE", Unset},
                               words : Asked \cup {Unset}]
        /\ recommendation'.status = recommendation.status /\ recommendation'.response = says
    BY <2>1, <2>2 DEF ActionInv, ActionTypeOK
  <2>4. call' = [call EXCEPT ![c] = [call[c] EXCEPT !.at = "done"]]
    BY DEF Respond, Done
  <2>5. call \in [Calls -> CallRecord]
    BY DEF ActionInv, ActionTypeOK, CallRecord, Points
  <2>6. /\ call' \in [Calls -> CallRecord] /\ call'[c].at = "done"
        /\ \A e \in Calls \ {c} : call'[e] = call[e]
    BY <2>4, <2>5 DEF CallRecord, Points
  <2>7. CallsKnow'
    BY <2>3, <2>6 DEF ActionInv, CallsKnow, CallKnows, Respond
  <2>8. ActionTypeOK'
    BY <2>3, <2>6 DEF ActionInv, ActionTypeOK, Respond, CallRecord, Points
  <2>9. AnswerFits'
    BY <2>1, <2>3 DEF ActionInv, AnswerFits, Answers, Unset
  <2> QED
    BY <2>7, <2>8, <2>9 DEF ActionInv, DraftsTellOneStory, Respond
<1>2. CASE ~Unanswered
  BY <1>2, EndedQuietly DEF Respond
<1> QED
  BY <1>1, <1>2

LEMMA StoreReceiptKeeps ==
  ASSUME ActionInv, NEW c \in Calls, NEW key \in Asked, StoreReceipt(c, key)
  PROVE  ActionInv'
<1>1. evidence' \in [Asked -> {Unset, "statement", "receipt", "erased"}]
  BY DEF ActionInv, ActionTypeOK, StoreReceipt
<1>2. Carries([at |-> "received", about |-> key, says |-> Unset])
  BY DEF Carries
<1> QED
  BY <1>1, <1>2, Turned DEF StoreReceipt, Points

LEMMA RecordReceiptKeeps == ASSUME ActionInv, NEW c \in Calls, RecordReceipt(c) PROVE ActionInv'
<1> DEFINE t == [call[c] EXCEPT !.at = "done"]
<1>1. t \in CallRecord /\ call' = [call EXCEPT ![c] = t] /\ Carries(t)
  BY Ended DEF RecordReceipt
<1>2. call[c].about \in Asked
  BY DEF ActionInv, CallsKnow, CallKnows, RecordReceipt
<1>3. facts' \subseteq Calls \X Asked
  BY <1>2 DEF ActionInv, ActionTypeOK, RecordReceipt
<1>4. call' \in [Calls -> CallRecord] /\ CallsKnow'
  <2>1. call[c].at # "done" /\ UNCHANGED <<recommendation, draft>>
    BY DEF RecordReceipt
  <2> HIDE DEF t
  <2> QED
    BY <1>1, <2>1, CallMoves
<1>5. ActionTypeOK'
  BY <1>3, <1>4 DEF ActionInv, ActionTypeOK, RecordReceipt, CallRecord, Points
<1> QED
  BY <1>4, <1>5 DEF ActionInv, AnswerFits, DraftsTellOneStory, RecordReceipt

-----------------------------------------------------------------------------
(* The theorems.                                                           *)

LEMMA ActionNextHolds == ASSUME ActionInv, [ActionNext]_actionVars PROVE ActionInv'
<1>1. CASE UNCHANGED actionVars
  <2>1. ActionTypeOK' /\ AnswerFits' /\ DraftsTellOneStory'
    BY <1>1 DEF ActionInv, actionVars, ActionTypeOK, AnswerFits, DraftsTellOneStory
  <2>2. CallsKnow'
    BY <1>1 DEF ActionInv, actionVars, CallsKnow, CallKnows
  <2> QED
    BY <2>1, <2>2 DEF ActionInv
<1>2. CASE ActionNext
  BY <1>2, SetPluginCapabilityKeeps, RecommendKeeps, EraseItemKeeps, AskDraftKeeps, CreateDraftKeeps,
     ReadDraftKeeps, DecideDraftKeeps, SayKeeps, ReadRecommendationKeeps, RespondKeeps,
     StoreReceiptKeeps, RecordReceiptKeeps DEF ActionNext
<1> QED
  BY <1>1, <1>2

\* Every reachable state satisfies the inductive invariant: what a call has read and
\* carries, a recommendation's answer and a draft's history fit one another.
THEOREM ActionInvariant == ActionSpec => []ActionInv
  BY ActionInitHolds, ActionNextHolds, PTL DEF ActionSpec

\* A draft's status and its history tell one story: drafted once, and approval asked
\* for once and before it was given, whoever decides on it at the same time.
THEOREM OneStory == ActionSpec => []DraftsTellOneStory
<1>1. ActionInv => DraftsTellOneStory
  BY DEF ActionInv
<1> QED
  BY <1>1, ActionInvariant, PTL

\* No step overwrites an answer the owner has given or takes up a blocked
\* recommendation, and a fact is appended only on a tool's receipt still there.
THEOREM AnswersKept == ActionSpec => AnswersStand
<1> DEFINE Kept ==
      /\ recommendation.response \notin Open \cup {Unset} => UNCHANGED recommendation
      /\ recommendation.status = "BLOCKED" => recommendation'.response \in {"NONE", "DISMISSED"}
      /\ \A f \in facts' \ facts : evidence[f[2]] = "receipt"
<1>1. ASSUME ActionInv, ActionInv', [ActionNext]_actionVars
      PROVE  [Kept]_actionVars
  <2>1. recommendation.response \notin Open \cup {Unset} => UNCHANGED recommendation
    <3>1. ASSUME Recommend PROVE recommendation.response = Unset
      BY <1>1, <3>1 DEF ActionInv, AnswerFits, Recommend
    <3>2. ASSUME NEW c \in Calls, Respond(c)
          PROVE  recommendation.response \in Open \/ UNCHANGED recommendation
      BY <3>2 DEF Respond, Unanswered
    <3> QED
      BY <1>1, <3>1, <3>2 DEF ActionNext, actionVars, SetPluginCapability, EraseItem, AskDraft,
         CreateDraft, DecideDraft, ReadDraft, Say, ReadRecommendation, StoreReceipt, RecordReceipt
  <2>2. recommendation.status = "BLOCKED" => recommendation'.response \in {"NONE", "DISMISSED"}
    <3>1. ASSUME Recommend PROVE recommendation.status # "BLOCKED"
      BY <3>1 DEF Recommend, Unset
    <3>2. ASSUME NEW c \in Calls, Respond(c), recommendation.status = "BLOCKED"
          PROVE  recommendation'.status = "BLOCKED"
      BY <1>1, <3>2 DEF ActionInv, ActionTypeOK, Respond
    <3>3. recommendation.status = "BLOCKED" => recommendation'.status = "BLOCKED"
      BY <1>1, <3>1, <3>2 DEF ActionNext, actionVars, SetPluginCapability, EraseItem, AskDraft,
         CreateDraft, DecideDraft, ReadDraft, Say, ReadRecommendation, StoreReceipt, RecordReceipt
    <3> QED
      BY <1>1, <3>3 DEF ActionInv, AnswerFits
  <2>3. \A f \in facts' \ facts : evidence[f[2]] = "receipt"
    <3>1. ASSUME NEW c \in Calls, RecordReceipt(c)
          PROVE  \A f \in facts' \ facts : evidence[f[2]] = "receipt"
      BY <3>1 DEF RecordReceipt, Authoritative
    <3>2. ASSUME NEW c \in Calls, Respond(c) PROVE facts' = facts
      BY <3>2 DEF Respond
    <3> QED
      BY <1>1, <3>1, <3>2 DEF ActionNext, actionVars, Recommend, SetPluginCapability, EraseItem, AskDraft,
         CreateDraft, DecideDraft, ReadDraft, Say, ReadRecommendation, StoreReceipt
  <2> QED
    BY <2>1, <2>2, <2>3
<1> QED
  BY <1>1, ActionInvariant, PTL DEF ActionSpec, AnswersStand

-----------------------------------------------------------------------------
(*                          EvidenceIntake                                 *)

RequestRecord == [at : Stages, key : Keys \cup {Unasked}, content : Contents \cup {Unasked},
                  row : Uploads \cup {NoRow}, mine : BOOLEAN]

-----------------------------------------------------------------------------
(* What is known of one request, and of one row.                           *)

LEMMA KnownOfRequest ==
  ASSUME IntakeInv, NEW r \in Uploads
  PROVE  request[r] \in RequestRecord /\ RowFits(r, request[r]) /\ ReceiptFits(request[r])
  BY DEF IntakeInv, IntakeTypeOK, RequestsFit, RequestRecord

\* The request that stored a row has ended well; an uncommitted one is still at work.
LEMMA KnownOfRow ==
  ASSUME IntakeInv, NEW x \in Uploads
  PROVE  /\ rows[x] \in {"live", "erased"} => request[x].at = "stored" /\ request[x].row = x
         /\ rows[x] = "uncommitted" =>
              request[x].at \notin Early \cup {"stored"} /\ request[x].row = x
  BY KnownOfRequest DEF RowFits

\* Nobody else has found a row that is not committed yet.
LEMMA NotFoundYet ==
  ASSUME IntakeInv, NEW r \in Uploads, rows[r] \in {"absent", "uncommitted"}
  PROVE  \A s \in Uploads \ {r} : request[s].at \notin Early => request[s].row # r
<1> SUFFICES ASSUME NEW s \in Uploads \ {r}, request[s].at \notin Early, request[s].row = r
             PROVE  FALSE
  OBVIOUS
<1>1. RowFits(s, request[s])
  BY KnownOfRequest
<1> QED
  BY <1>1 DEF RowFits

-----------------------------------------------------------------------------
(* Steps that move one request.                                            *)

LEMMA RequestMoves ==
  ASSUME IntakeInv, NEW r \in Uploads, NEW t \in RequestRecord, request' = [request EXCEPT ![r] = t]
  PROVE  /\ request' \in [Uploads -> RequestRecord] /\ request'[r] = t
         /\ \A s \in Uploads \ {r} : request'[s] = request[s]
  BY DEF IntakeInv, IntakeTypeOK, RequestRecord

\* No row changes, nor what a key's receipt names.
LEMMA QuietStep ==
  ASSUME IntakeInv, NEW r \in Uploads, NEW t \in RequestRecord,
         request' = [request EXCEPT ![r] = t],
         UNCHANGED <<rows, receipts, deleting, failures>>,
         objects \subseteq objects', objects' \subseteq Uploads,
         RowFits(r, t), ReceiptFits(t),
         t.content = request[r].content \/ request[r].at = "idle",
         (InTransaction(r) /\ t.key = request[r].key)
           \/ t.at \in Ends \cup {"asked"}
           \/ \A q \in Uploads : InTransaction(q) => request[q].key # t.key,
         rows[r] = "uncommitted" /\ t.at \in {"writing", "written"} => r \in objects'
  PROVE  IntakeInv'
<1>1. /\ request' \in [Uploads -> RequestRecord] /\ request'[r] = t
      /\ \A s \in Uploads \ {r} : request'[s] = request[s]
  BY RequestMoves
<1>2. \A x \in Uploads : rows[x] # "absent" => request'[x].content = request[x].content
  <2>1. request[r].at = "idle" => rows[r] = "absent"
    BY KnownOfRequest DEF RowFits, Early
  <2> QED
    BY <1>1, <2>1
<1>3. IntakeTypeOK'
  BY <1>1 DEF IntakeInv, IntakeTypeOK, RequestRecord
<1>4. ASSUME NEW s \in Uploads
      PROVE  RowFits(s, request[s])' /\ ReceiptFits(request[s])'
  <2> DEFINE u == request'[s]
  <2>1. RowFits(s, u) /\ ReceiptFits(u)
    BY <1>1, KnownOfRequest
  <2>2. ReceiptFits(request[s])'
    BY <2>1 DEF ReceiptFits
  <2>3. u.at \notin Early => rows[u.row] # "absent" /\ u.row \in Uploads
    BY <2>1 DEF RowFits
  <2>4. RowFits(s, request[s])'
    BY <1>2, <2>1, <2>3 DEF RowFits
  <2> QED
    BY <2>2, <2>4
<1>5. RequestsFit'
  BY <1>4 DEF RequestsFit
<1>6. OneEach'
  BY <1>2 DEF IntakeInv, OneEach, Present
<1>7. KeysApart'
  BY <1>1 DEF IntakeInv, KeysApart, InTransaction
<1>8. BytesThere'
  BY <1>1 DEF IntakeInv, BytesThere
<1>9. ReceiptsLive'
  BY DEF IntakeInv, ReceiptsLive
<1> QED
  BY <1>3, <1>5, <1>6, <1>7, <1>8, <1>9 DEF IntakeInv

\* A transaction that ends without effect.
LEMMA RefuseStep ==
  ASSUME IntakeInv, NEW r \in Uploads, Refuse(r), request[r].at \notin {"idle", "stored"},
         UNCHANGED <<receipts, objects, deleting>>, failures' \in 0..MaxFailures
  PROVE  IntakeInv'
<1> DEFINE t == [request[r] EXCEPT !.at = "refused"]
<1>1. /\ request[r] \in RequestRecord /\ RowFits(r, request[r]) /\ ReceiptFits(request[r])
  BY KnownOfRequest
<1>2. /\ t \in RequestRecord /\ t.at = "refused" /\ t.key = request[r].key
      /\ t.content = request[r].content
  BY <1>1 DEF RequestRecord, Stages, Ends
<1>3. request' = [request EXCEPT ![r] = t]
  BY DEF Refuse, Goes
<1>4. /\ request' \in [Uploads -> RequestRecord] /\ request'[r] = t
      /\ \A s \in Uploads \ {r} : request'[s] = request[s]
  <2> HIDE DEF t
  <2> QED
    BY <1>2, <1>3, RequestMoves
<1> HIDE DEF t
<1>5. rows[r] \in {"absent", "uncommitted"}
  BY <1>1 DEF RowFits
<1>6. /\ rows' \in [Uploads -> {"absent", "uncommitted", "live", "erased"}]
      /\ rows'[r] = "absent" /\ \A x \in Uploads \ {r} : rows'[x] = rows[x]
  <2>1. rows \in [Uploads -> {"absent", "uncommitted", "live", "erased"}]
    BY DEF IntakeInv, IntakeTypeOK
  <2> QED
    BY <1>5, <2>1 DEF Refuse, Stored
<1>7. \A x \in Uploads : request'[x].content = request[x].content
  BY <1>2, <1>4
<1>8. IntakeTypeOK'
  BY <1>4, <1>6 DEF IntakeInv, IntakeTypeOK, RequestRecord
<1>9. ASSUME NEW s \in Uploads
      PROVE  RowFits(s, request[s])' /\ ReceiptFits(request[s])'
  <2>1. CASE s = r
    <3>1. RowFits(s, request[s])'
      BY <1>1, <1>2, <1>4, <1>6, <2>1 DEF RowFits, Early
    <3>2. ReceiptFits(request[s])'
      BY <1>2, <1>4, <2>1 DEF ReceiptFits, Early, Late
    <3> QED
      BY <3>1, <3>2
  <2>2. CASE s # r
    <3>1. RowFits(s, request[s]) /\ ReceiptFits(request[s])
      BY KnownOfRequest
    <3>2. request'[s] = request[s] /\ (request[s].at \notin Early => request[s].row # r)
      BY <1>4, <1>5, <2>2, NotFoundYet
    <3>3. request[s].at \notin Early => request[s].row \in Uploads \ {r}
      BY <3>1, <3>2 DEF RowFits
    <3>4. RowFits(s, request[s])'
      BY <1>6, <1>7, <2>2, <3>1, <3>2, <3>3 DEF RowFits
    <3>5. ReceiptFits(request[s])'
      BY <1>6, <3>1, <3>2, <3>3 DEF ReceiptFits, Early, Late
    <3> QED
      BY <3>4, <3>5
  <2> QED
    BY <2>1, <2>2
<1>10. OneEach'
  BY <1>6, <1>7 DEF IntakeInv, OneEach, Present
<1>11. KeysApart'
  BY <1>2, <1>4 DEF IntakeInv, KeysApart, InTransaction, Ends
<1>12. BytesThere'
  BY <1>4, <1>6 DEF IntakeInv, BytesThere
<1>13. ReceiptsLive'
  <2>1. ASSUME NEW k \in Keys, receipts[k] # NoRow
        PROVE  rows'[receipts[k]] = "live"
    BY <1>5, <1>6, <2>1 DEF IntakeInv, ReceiptsLive, IntakeTypeOK
  <2>2. \A x \in deleting : rows'[x] = "live"
    BY <1>5, <1>6 DEF IntakeInv, ReceiptsLive, IntakeTypeOK
  <2> QED
    BY <2>1, <2>2 DEF ReceiptsLive
<1> QED
  BY <1>8, <1>9, <1>10, <1>11, <1>12, <1>13 DEF IntakeInv, RequestsFit

\* A request that goes on in its transaction, or from a lock it has to wait for, and
\* changes nothing else but the bytes in storage.
LEMMA GoesOn ==
  ASSUME IntakeInv, NEW r \in Uploads, NEW t \in RequestRecord,
         request' = [request EXCEPT ![r] = t],
         UNCHANGED <<rows, receipts, objects, deleting, failures>>,
         InTransaction(r), t.key = request[r].key, t.content = request[r].content,
         RowFits(r, t), ReceiptFits(t), t.at \notin {"writing", "written"}
  PROVE  IntakeInv'
<1>1. objects \subseteq objects' /\ objects' \subseteq Uploads
  BY DEF IntakeInv, IntakeTypeOK
<1> QED
  BY <1>1, QuietStep

-----------------------------------------------------------------------------
(* The actions.                                                            *)

LEMMA IntakeInitHolds == ASSUME IntakeInit PROVE IntakeInv
<1>1. IntakeTypeOK
  BY IntakeAssumption DEF IntakeInit, IntakeTypeOK, Stages, Ends
<1>2. RequestsFit
  BY DEF IntakeInit, RequestsFit, RowFits, ReceiptFits, Early, Late
<1>3. OneEach /\ KeysApart /\ BytesThere /\ ReceiptsLive
  BY DEF IntakeInit, OneEach, Present, KeysApart, InTransaction, Ends, BytesThere, ReceiptsLive
<1> QED
  BY <1>1, <1>2, <1>3 DEF IntakeInv

LEMMA AskKeeps ==
  ASSUME IntakeInv, NEW r \in Uploads, NEW key \in Keys, NEW content \in Contents, Ask(r, key, content)
  PROVE  IntakeInv'
<1> DEFINE t == [at |-> "asked", key |-> key, content |-> content, row |-> NoRow, mine |-> FALSE]
<1>1. t \in RequestRecord /\ t.at = "asked"
  BY DEF RequestRecord, Stages
<1>2. RowFits(r, t) /\ ReceiptFits(t)
  BY KnownOfRequest DEF Ask, RowFits, ReceiptFits, Early, Late
<1>3. request' = [request EXCEPT ![r] = t] /\ request[r].at = "idle"
  BY DEF Ask
<1>4. objects \subseteq objects' /\ objects' \subseteq Uploads /\ UNCHANGED <<rows, receipts, deleting, failures>>
  BY DEF IntakeInv, IntakeTypeOK, Ask
<1> HIDE DEF t
<1> QED
  BY <1>1, <1>2, <1>3, <1>4, QuietStep

LEMMA LockKeeps == ASSUME IntakeInv, NEW r \in Uploads, Lock(r) PROVE IntakeInv'
<1>1. CASE Receipt(r) # NoRow /\ request[Receipt(r)].content # request[r].content
  <2>1. failures' \in 0..MaxFailures
    BY DEF IntakeInv, IntakeTypeOK, Lock
  <2> QED
    BY <1>1, <2>1, RefuseStep DEF Lock
<1>2. CASE ~(Receipt(r) # NoRow /\ request[Receipt(r)].content # request[r].content)
  <2> DEFINE t == [request[r] EXCEPT !.at = "locked"]
  <2>1. request[r] \in RequestRecord /\ RowFits(r, request[r]) /\ ReceiptFits(request[r])
    BY KnownOfRequest
  <2>2. /\ t \in RequestRecord /\ t.at = "locked" /\ t.mine = request[r].mine
        /\ t.key = request[r].key /\ t.content = request[r].content
    BY <2>1 DEF RequestRecord, Stages
  <2>3. request' = [request EXCEPT ![r] = t]
    BY <1>2 DEF Lock, Goes
  <2> HIDE DEF t
  <2>4. RowFits(r, t) /\ ReceiptFits(t)
    BY <2>1, <2>2 DEF RowFits, ReceiptFits, Early, Late, Lock
  <2>5. \A q \in Uploads : InTransaction(q) => request[q].key # t.key
    BY <2>2 DEF Lock
  <2>6. objects \subseteq objects' /\ objects' \subseteq Uploads /\ UNCHANGED <<rows, receipts, deleting, failures>>
    BY <1>2 DEF IntakeInv, IntakeTypeOK, Lock
  <2> QED
    BY <2>2, <2>3, <2>4, <2>5, <2>6, QuietStep
<1> QED
  BY <1>1, <1>2

LEMMA InsertKeeps == ASSUME IntakeInv, NEW r \in Uploads, Insert(r) PROVE IntakeInv'
<1>1. /\ request[r] \in RequestRecord /\ RowFits(r, request[r]) /\ ReceiptFits(request[r])
      /\ request[r].at = "locked"
  BY KnownOfRequest DEF Insert
<1>2. CASE SameContent(r) \cup SameKey(r) = {}
  <2> DEFINE t == [request[r] EXCEPT !.at = "found", !.row = r]
  <2>1. /\ t \in RequestRecord /\ t.at = "found" /\ t.row = r /\ t.mine = request[r].mine
        /\ t.key = request[r].key /\ t.content = request[r].content
    BY <1>1 DEF RequestRecord, Stages
  <2>2. request' = [request EXCEPT ![r] = t]
    BY <1>2 DEF Insert
  <2> HIDE DEF t
  <2>3. /\ request' \in [Uploads -> RequestRecord] /\ request'[r] = t
        /\ \A s \in Uploads \ {r} : request'[s] = request[s]
    BY <2>1, <2>2, RequestMoves
  <2>4. /\ rows' \in [Uploads -> {"absent", "uncommitted", "live", "erased"}]
        /\ rows[r] = "absent" /\ rows'[r] = "uncommitted"
        /\ \A x \in Uploads \ {r} : rows'[x] = rows[x]
    BY <1>1, <1>2 DEF IntakeInv, IntakeTypeOK, Insert, RowFits, Early
  <2>5. \A x \in Uploads : request'[x].content = request[x].content
    BY <2>1, <2>3
  <2>6. IntakeTypeOK'
    BY <1>2, <2>3, <2>4 DEF IntakeInv, IntakeTypeOK, Insert, RequestRecord
  <2>7. ASSUME NEW s \in Uploads
        PROVE  RowFits(s, request[s])' /\ ReceiptFits(request[s])'
    <3>1. CASE s = r
      <4>1. RowFits(s, request[s])'
        BY <1>1, <2>1, <2>3, <2>4, <2>5, <3>1 DEF RowFits, Early
      <4>2. ReceiptFits(request[s])'
        BY <1>1, <2>1, <2>3, <3>1 DEF ReceiptFits, Early, Late
      <4> QED
        BY <4>1, <4>2
    <3>2. CASE s # r
      <4>1. RowFits(s, request[s]) /\ ReceiptFits(request[s])
        BY KnownOfRequest
      <4>2. request'[s] = request[s] /\ (request[s].at \notin Early => request[s].row # r)
        BY <2>3, <2>4, <3>2, NotFoundYet
      <4>3. request[s].at \notin Early => request[s].row \in Uploads \ {r}
        BY <4>1, <4>2 DEF RowFits
      <4>4. RowFits(s, request[s])'
        BY <2>4, <2>5, <3>2, <4>1, <4>2, <4>3 DEF RowFits
      <4>5. ReceiptFits(request[s])'
        BY <1>2, <2>4, <4>1, <4>2, <4>3 DEF ReceiptFits, Early, Late, Insert
      <4> QED
        BY <4>4, <4>5
    <3> QED
      BY <3>1, <3>2
  <2>8. OneEach'
    <3>1. \A x \in Uploads \ {r} : Present(x) => request[x].content # request[r].content
      BY <1>2 DEF Insert, Present, SameContent, SameKey, Undecided
    <3>2. \A x \in Uploads \ {r} : Present(x)' <=> Present(x)
      BY <2>4 DEF Present
    <3> QED
      BY <2>5, <3>1, <3>2 DEF IntakeInv, OneEach
  <2>9. KeysApart'
    BY <1>1, <2>1, <2>3 DEF IntakeInv, KeysApart, InTransaction, Ends
  <2>10. BytesThere'
    BY <1>2, <2>1, <2>3, <2>4 DEF IntakeInv, BytesThere, Insert
  <2>11. ReceiptsLive'
    <3>1. ASSUME NEW k \in Keys, receipts[k] # NoRow
          PROVE  rows'[receipts[k]] = "live"
      BY <2>4, <3>1 DEF IntakeInv, ReceiptsLive, IntakeTypeOK
    <3>2. \A x \in deleting : rows'[x] = "live"
      BY <2>4 DEF IntakeInv, ReceiptsLive, IntakeTypeOK
    <3> QED
      BY <1>2, <3>1, <3>2 DEF ReceiptsLive, Insert
  <2> QED
    BY <2>6, <2>7, <2>8, <2>9, <2>10, <2>11 DEF IntakeInv, RequestsFit
<1>3. CASE SameContent(r) \cup SameKey(r) # {}
  <2> DEFINE t == [request[r] EXCEPT !.at = "conflicting"]
  <2>1. /\ t \in RequestRecord /\ t.at = "conflicting" /\ t.mine = request[r].mine
        /\ t.key = request[r].key /\ t.content = request[r].content
    BY <1>1 DEF RequestRecord, Stages
  <2>2. request' = [request EXCEPT ![r] = t]
    BY <1>3 DEF Insert, Goes
  <2> HIDE DEF t
  <2>3. RowFits(r, t) /\ ReceiptFits(t)
    BY <1>1, <2>1 DEF RowFits, ReceiptFits, Early, Late
  <2>4. InTransaction(r) /\ UNCHANGED <<rows, receipts, objects, deleting, failures>>
    BY <1>1, <1>3 DEF InTransaction, Ends, Insert
  <2> QED
    BY <2>1, <2>2, <2>3, <2>4, GoesOn
<1> QED
  BY <1>2, <1>3

LEMMA FindKeeps == ASSUME IntakeInv, NEW r \in Uploads, Find(r) PROVE IntakeInv'
<1>1. /\ request[r] \in RequestRecord /\ RowFits(r, request[r]) /\ ReceiptFits(request[r])
      /\ request[r].at = "conflicting"
  BY KnownOfRequest DEF Find
<1>2. CASE SameContent(r) = {}
  <2>1. failures' \in 0..MaxFailures
    BY DEF IntakeInv, IntakeTypeOK, Find
  <2> QED
    BY <1>1, <1>2, <2>1, RefuseStep DEF Find
<1>3. CASE SameContent(r) # {}
  <2>1. PICK x \in SameContent(r) : request' = [request EXCEPT ![r].at = "found", ![r].row = x]
    BY <1>3 DEF Find
  <2>2. x \in Uploads /\ rows[x] = "live" /\ request[x].content = request[r].content
    BY DEF SameContent
  <2> DEFINE t == [request[r] EXCEPT !.at = "found", !.row = x]
  <2>3. /\ t \in RequestRecord /\ t.at = "found" /\ t.row = x /\ t.mine = request[r].mine
        /\ t.key = request[r].key /\ t.content = request[r].content
    BY <1>1, <2>2 DEF RequestRecord, Stages
  <2>4. request' = [request EXCEPT ![r] = t]
    BY <2>1
  <2> HIDE DEF t
  <2>5. RowFits(r, t) /\ ReceiptFits(t)
    BY <1>1, <2>2, <2>3 DEF RowFits, ReceiptFits, Early, Late
  <2>6. InTransaction(r) /\ UNCHANGED <<rows, receipts, objects, deleting, failures>>
    BY <1>1, <1>3 DEF InTransaction, Ends, Find
  <2> QED
    BY <2>3, <2>4, <2>5, <2>6, GoesOn
<1> QED
  BY <1>2, <1>3

LEMMA NoteKeeps == ASSUME IntakeInv, NEW r \in Uploads, Note(r) PROVE IntakeInv'
<1>1. /\ request[r] \in RequestRecord /\ RowFits(r, request[r]) /\ ReceiptFits(request[r])
      /\ request[r].at = "found"
  BY KnownOfRequest DEF Note
<1>2. CASE rows[request[r].row] \notin {"live", "uncommitted"}
  <2>1. failures' \in 0..MaxFailures
    BY DEF IntakeInv, IntakeTypeOK, Note
  <2> QED
    BY <1>1, <1>2, <2>1, RefuseStep DEF Note
<1>3. CASE rows[request[r].row] \in {"live", "uncommitted"}
  <2> DEFINE t == [request[r] EXCEPT !.at = "sharing"]
  <2>1. /\ t \in RequestRecord /\ t.at = "sharing" /\ t.mine = request[r].mine
        /\ t.row = request[r].row /\ t.key = request[r].key /\ t.content = request[r].content
    BY <1>1 DEF RequestRecord, Stages
  <2>2. request' = [request EXCEPT ![r] = t]
    BY <1>3 DEF Note, Goes
  <2> HIDE DEF t
  <2>3. RowFits(r, t) /\ ReceiptFits(t)
    BY <1>1, <2>1 DEF RowFits, ReceiptFits, Early, Late
  <2>4. InTransaction(r) /\ UNCHANGED <<rows, receipts, objects, deleting, failures>>
    BY <1>1, <1>3 DEF InTransaction, Ends, Note
  <2> QED
    BY <2>1, <2>2, <2>3, <2>4, GoesOn
<1> QED
  BY <1>2, <1>3

LEMMA ShareKeeps == ASSUME IntakeInv, NEW r \in Uploads, Share(r) PROVE IntakeInv'
<1>1. /\ request[r] \in RequestRecord /\ RowFits(r, request[r]) /\ ReceiptFits(request[r])
      /\ request[r].at = "sharing" /\ request[r].mine = FALSE
  BY KnownOfRequest DEF Share, ReceiptFits, RequestRecord
<1>2. InTransaction(r) /\ UNCHANGED <<rows, receipts, objects, deleting, failures>>
  BY <1>1 DEF InTransaction, Ends, Share
<1>3. CASE receipts[request[r].key] # NoRow
  <2> DEFINE t == [request[r] EXCEPT !.at = "noted"]
  <2>1. /\ t \in RequestRecord /\ t.at = "noted" /\ t.mine = request[r].mine
        /\ t.row = request[r].row /\ t.key = request[r].key /\ t.content = request[r].content
    BY <1>1 DEF RequestRecord, Stages
  <2>2. request' = [request EXCEPT ![r] = t]
    BY <1>3 DEF Share, Goes
  <2> HIDE DEF t
  <2>3. RowFits(r, t) /\ ReceiptFits(t)
    BY <1>1, <2>1 DEF RowFits, ReceiptFits, Early, Late
  <2> QED
    BY <1>2, <2>1, <2>2, <2>3, GoesOn
<1>4. CASE receipts[request[r].key] = NoRow
  <2> DEFINE t == [request[r] EXCEPT !.at = "noted", !.mine = TRUE]
  <2>1. /\ t \in RequestRecord /\ t.at = "noted" /\ t.mine = TRUE
        /\ t.row = request[r].row /\ t.key = request[r].key /\ t.content = request[r].content
    BY <1>1 DEF RequestRecord, Stages
  <2>2. request' = [request EXCEPT ![r] = t] /\ request[r].row \notin deleting
    BY <1>4 DEF Share
  <2> HIDE DEF t
  <2>3. RowFits(r, t) /\ ReceiptFits(t)
    BY <1>1, <1>4, <2>1, <2>2 DEF RowFits, ReceiptFits, Early, Late
  <2> QED
    BY <1>2, <2>1, <2>2, <2>3, GoesOn
<1> QED
  BY <1>3, <1>4

LEMMA ConfirmKeeps == ASSUME IntakeInv, NEW r \in Uploads, Confirm(r) PROVE IntakeInv'
<1>1. /\ request[r] \in RequestRecord /\ RowFits(r, request[r]) /\ ReceiptFits(request[r])
      /\ request[r].at = "noted"
  BY KnownOfRequest DEF Confirm
<1>2. CASE ~Confirms(r)
  <2>1. failures' \in 0..MaxFailures
    BY DEF IntakeInv, IntakeTypeOK, Confirm
  <2> QED
    BY <1>1, <1>2, <2>1, RefuseStep DEF Confirm
<1>3. CASE Confirms(r)
  <2> DEFINE t == [request[r] EXCEPT !.at = "confirmed"]
  <2>1. /\ t \in RequestRecord /\ t.at = "confirmed" /\ t.mine = request[r].mine
        /\ t.row = request[r].row /\ t.key = request[r].key /\ t.content = request[r].content
    BY <1>1 DEF RequestRecord, Stages
  <2>2. request' = [request EXCEPT ![r] = t]
    BY <1>3 DEF Confirm, Goes
  <2>3. /\ request[r].mine => rows[request[r].row] # "erased"
        /\ ~request[r].mine => receipts[request[r].key] = request[r].row
    <3>1. request[r].row \in Uploads
      BY <1>1 DEF RowFits, Early
    <3> QED
      BY <1>3, <3>1, IntakeAssumption DEF Confirms, Receipt
  <2> HIDE DEF t
  <2>4. RowFits(r, t) /\ ReceiptFits(t)
    BY <1>1, <2>1, <2>3 DEF RowFits, ReceiptFits, Early, Late
  <2>5. InTransaction(r) /\ UNCHANGED <<rows, receipts, objects, deleting, failures>>
    BY <1>1, <1>3 DEF InTransaction, Ends, Confirm
  <2> QED
    BY <2>1, <2>2, <2>4, <2>5, GoesOn
<1> QED
  BY <1>2, <1>3

LEMMA PutKeeps == ASSUME IntakeInv, NEW r \in Uploads, Put(r) PROVE IntakeInv'
<1>1. /\ request[r] \in RequestRecord /\ RowFits(r, request[r]) /\ ReceiptFits(request[r])
      /\ request[r].at = "confirmed"
  BY KnownOfRequest DEF Put
<1>2. CASE rows[request[r].row] = "erased"
  <2>1. failures' \in 0..MaxFailures
    BY DEF IntakeInv, IntakeTypeOK, Put
  <2> QED
    BY <1>1, <1>2, <2>1, RefuseStep DEF Put
<1>3. CASE rows[request[r].row] # "erased"
  <2> DEFINE t == [request[r] EXCEPT !.at = "writing"]
  <2>1. /\ t \in RequestRecord /\ t.at = "writing" /\ t.mine = request[r].mine
        /\ t.row = request[r].row /\ t.key = request[r].key /\ t.content = request[r].content
    BY <1>1 DEF RequestRecord, Stages
  <2>2. request' = [request EXCEPT ![r] = t]
    BY <1>3 DEF Put, Goes
  <2> HIDE DEF t
  <2>3. RowFits(r, t) /\ ReceiptFits(t)
    BY <1>1, <2>1 DEF RowFits, ReceiptFits, Early, Late
  <2>4. InTransaction(r) /\ UNCHANGED <<rows, receipts, deleting, failures>>
    BY <1>1, <1>3 DEF InTransaction, Ends, Put
  <2>5. /\ objects \subseteq objects' /\ objects' \subseteq Uploads
        /\ rows[r] = "uncommitted" => r \in objects'
    BY <1>3 DEF IntakeInv, IntakeTypeOK, Put, Stored
  <2> QED
    BY <2>1, <2>2, <2>3, <2>4, <2>5, QuietStep
<1> QED
  BY <1>2, <1>3

LEMMA WriteKeeps == ASSUME IntakeInv, NEW r \in Uploads, WriteBytes(r) PROVE IntakeInv'
<1> DEFINE t == [request[r] EXCEPT !.at = "written"]
<1>1. /\ request[r] \in RequestRecord /\ RowFits(r, request[r]) /\ ReceiptFits(request[r])
      /\ request[r].at = "writing"
  BY KnownOfRequest DEF WriteBytes
<1>2. /\ t \in RequestRecord /\ t.at = "written" /\ t.mine = request[r].mine
      /\ t.row = request[r].row /\ t.key = request[r].key /\ t.content = request[r].content
  BY <1>1 DEF RequestRecord, Stages
<1>3. request' = [request EXCEPT ![r] = t]
  BY DEF WriteBytes, Goes
<1> HIDE DEF t
<1>4. RowFits(r, t) /\ ReceiptFits(t)
  BY <1>1, <1>2 DEF RowFits, ReceiptFits, Early, Late
<1>5. InTransaction(r) /\ UNCHANGED <<rows, receipts, objects, deleting, failures>>
  BY <1>1 DEF InTransaction, Ends, WriteBytes
<1>6. /\ objects \subseteq objects' /\ objects' \subseteq Uploads
      /\ rows[r] = "uncommitted" => r \in objects'
  BY <1>1 DEF IntakeInv, IntakeTypeOK, WriteBytes, BytesThere
<1> QED
  BY <1>2, <1>3, <1>4, <1>5, <1>6, QuietStep

LEMMA FailKeeps == ASSUME IntakeInv, NEW r \in Uploads, Fail(r) PROVE IntakeInv'
<1>1. failures' \in 0..MaxFailures
  BY IntakeAssumption DEF IntakeInv, IntakeTypeOK, Fail
<1>2. request[r].at \notin {"idle", "stored"}
  BY DEF Fail, InTransaction, Ends
<1> QED
  BY <1>1, <1>2, RefuseStep DEF Fail

LEMMA CommitKeeps == ASSUME IntakeInv, NEW r \in Uploads, Commit(r) PROVE IntakeInv'
<1> DEFINE t == [request[r] EXCEPT !.at = "stored"]
           key == request[r].key
           row == request[r].row
<1>1. /\ request[r] \in RequestRecord /\ RowFits(r, request[r]) /\ ReceiptFits(request[r])
      /\ request[r].at = "written"
  BY KnownOfRequest DEF Commit
<1>2. /\ t \in RequestRecord /\ t.at = "stored" /\ t.mine = request[r].mine
      /\ t.row = row /\ t.key = key /\ t.content = request[r].content
  BY <1>1 DEF RequestRecord, Stages, Ends
<1>3. request' = [request EXCEPT ![r] = t]
  BY DEF Commit, Goes
<1>4. /\ request' \in [Uploads -> RequestRecord] /\ request'[r] = t
      /\ \A s \in Uploads \ {r} : request'[s] = request[s]
  <2> HIDE DEF t
  <2> QED
    BY <1>2, <1>3, RequestMoves
<1> HIDE DEF t
<1>5. /\ key \in Keys /\ row \in Uploads /\ request[row].content = request[r].content
      /\ row = r => rows[r] = "uncommitted"
      /\ row # r => rows[r] = "absent" /\ rows[row] \in {"live", "erased"}
  BY <1>1 DEF RowFits, Early
<1>6. /\ rows' \in [Uploads -> {"absent", "uncommitted", "live", "erased"}]
      /\ rows'[r] = IF row = r THEN "live" ELSE "absent"
      /\ \A x \in Uploads \ {r} : rows'[x] = rows[x]
  <2>1. rows \in [Uploads -> {"absent", "uncommitted", "live", "erased"}]
    BY DEF IntakeInv, IntakeTypeOK
  <2> QED
    BY <1>5, <2>1 DEF Commit, Stored
<1>7. /\ receipts' \in [Keys -> Uploads \cup {NoRow}]
      /\ receipts'[key] = IF request[r].mine THEN row ELSE receipts[key]
      /\ \A k \in Keys \ {key} : receipts'[k] = receipts[k]
  <2>1. receipts \in [Keys -> Uploads \cup {NoRow}]
    BY DEF IntakeInv, IntakeTypeOK
  <2> QED
    BY <1>5, <2>1 DEF Commit
<1>8. /\ request[r].mine => receipts[key] = NoRow /\ row \notin deleting /\ rows[row] # "erased"
      /\ ~request[r].mine /\ rows[row] # "erased" => receipts[key] = row
  BY <1>1 DEF ReceiptFits, Late
<1>9. \A x \in Uploads : request'[x].content = request[x].content
  BY <1>2, <1>4
<1>10. UNCHANGED <<objects, deleting, failures>>
  BY DEF Commit
<1> HIDE DEF key, row
<1>11. IntakeTypeOK'
  BY <1>4, <1>6, <1>7, <1>10 DEF IntakeInv, IntakeTypeOK, RequestRecord
<1>12. ASSUME NEW s \in Uploads
       PROVE  RowFits(s, request[s])' /\ ReceiptFits(request[s])'
  <2>1. CASE s = r
    <3>1. RowFits(s, request[s])'
      BY <1>1, <1>2, <1>4, <1>5, <1>6, <1>9, <2>1 DEF RowFits, Early
    <3>2. rows'[row] # "erased" => rows[row] # "erased"
      BY <1>5, <1>6
    <3>3. ReceiptFits(request[s])'
      BY <1>2, <1>4, <1>7, <1>8, <2>1, <3>2 DEF ReceiptFits, Early, Late
    <3> QED
      BY <3>1, <3>3
  <2>2. CASE s # r
    <3>1. RowFits(s, request[s]) /\ ReceiptFits(request[s])
      BY KnownOfRequest
    <3>2. rows[r] \in {"absent", "uncommitted"}
      BY <1>5
    <3>3. request'[s] = request[s] /\ (request[s].at \notin Early => request[s].row # r)
      BY <1>4, <2>2, <3>2, NotFoundYet
    <3>4. request[s].at \notin Early => request[s].row \in Uploads \ {r}
      BY <3>1, <3>3 DEF RowFits
    <3>5. RowFits(s, request[s])'
      BY <1>6, <1>9, <2>2, <3>1, <3>3, <3>4 DEF RowFits
    <3>6. request[s].at # "idle" => request[s].key \in Keys
      BY <3>1 DEF RowFits
    <3>7. request[s].at \in Late \cup {"noted"} => receipts'[request[s].key] = receipts[request[s].key]
      <4>1. InTransaction(r) /\ key = request[r].key
        BY <1>1 DEF InTransaction, Ends, key
      <4>2. request[s].at \in Late \cup {"noted"} => request[s].key # key
        BY <2>2, <4>1 DEF IntakeInv, KeysApart, InTransaction, Ends, Late
      <4> QED
        BY <1>7, <3>6, <4>2 DEF Late
    <3>8. request[s].at = "stored" /\ rows[request[s].row] # "erased" =>
            receipts'[request[s].key] = request[s].row
      <4> SUFFICES ASSUME request[s].at = "stored", rows[request[s].row] # "erased"
                   PROVE  receipts'[request[s].key] = request[s].row
        OBVIOUS
      <4>1. receipts[request[s].key] = request[s].row
        BY <3>1 DEF ReceiptFits
      <4>2. request[s].row \in Uploads /\ request[s].row # NoRow
        BY <3>4, IntakeAssumption DEF Early
      <4> QED
        BY <1>7, <1>8, <3>6, <4>1, <4>2
    <3>9. request[s].at \in Late \cup {"noted", "stored"} => rows'[request[s].row] = rows[request[s].row]
      BY <1>6, <3>4 DEF Early, Late
    <3>10. ReceiptFits(request[s])'
      BY <1>10, <3>1, <3>3, <3>7, <3>8, <3>9 DEF ReceiptFits
    <3> QED
      BY <3>5, <3>10
  <2> QED
    BY <2>1, <2>2
<1>13. OneEach'
  <2>1. \A x \in Uploads : Present(x)' <=> Present(x)
    BY <1>5, <1>6 DEF Present
  <2> QED
    BY <1>9, <2>1 DEF IntakeInv, OneEach
<1>14. KeysApart'
  BY <1>2, <1>4 DEF IntakeInv, KeysApart, InTransaction, Ends
<1>15. BytesThere'
  BY <1>1, <1>4, <1>5, <1>6, <1>10 DEF IntakeInv, BytesThere
<1>16. ReceiptsLive'
  <2>1. ASSUME NEW x \in Uploads, rows[x] = "live" PROVE rows'[x] = "live"
    BY <1>5, <1>6, <2>1
  <2>2. ASSUME NEW k \in Keys, receipts'[k] # NoRow
        PROVE  rows'[receipts'[k]] = "live"
    <3>1. CASE k = key /\ request[r].mine
      BY <1>5, <1>6, <1>7, <1>8, <3>1
    <3>2. CASE ~(k = key /\ request[r].mine)
      <4>1. receipts'[k] = receipts[k]
        BY <1>7, <3>2
      <4>2. receipts[k] \in Uploads /\ rows[receipts[k]] = "live"
        BY <2>2, <4>1 DEF IntakeInv, IntakeTypeOK, ReceiptsLive
      <4> QED
        BY <2>1, <4>1, <4>2
    <3> QED
      BY <3>1, <3>2
  <2>3. \A x \in deleting : rows'[x] = "live"
    BY <2>1 DEF IntakeInv, ReceiptsLive, IntakeTypeOK
  <2> QED
    BY <1>10, <2>2, <2>3 DEF ReceiptsLive
<1> QED
  BY <1>11, <1>12, <1>13, <1>14, <1>15, <1>16 DEF IntakeInv, RequestsFit

\* A deletion waits for those who hold the row in place: none of them has a receipt of
\* its own to commit for it.
LEMMA DeleteKeeps == ASSUME IntakeInv, NEW x \in Uploads, Delete(x) PROVE IntakeInv'
<1>1. IntakeTypeOK'
  BY DEF IntakeInv, IntakeTypeOK, Delete
<1>2. ASSUME NEW s \in Uploads
      PROVE  RowFits(s, request[s])' /\ ReceiptFits(request[s])'
  <2>1. RowFits(s, request[s]) /\ ReceiptFits(request[s])
    BY KnownOfRequest
  <2>2. request[s].mine /\ request[s].at \in Late \cup {"noted"} => request[s].row # x
    BY DEF Delete, Holders, Late
  <2>3. RowFits(s, request[s])'
    BY <2>1 DEF RowFits, Delete
  <2>4. ReceiptFits(request[s])'
    BY <2>1, <2>2 DEF ReceiptFits, Delete
  <2> QED
    BY <2>3, <2>4
<1>3. OneEach' /\ KeysApart' /\ BytesThere' /\ ReceiptsLive'
  BY DEF IntakeInv, OneEach, Present, KeysApart, InTransaction, BytesThere, ReceiptsLive, Delete
<1> QED
  BY <1>1, <1>2, <1>3 DEF IntakeInv, RequestsFit

LEMMA DeletedKeeps == ASSUME IntakeInv, NEW x \in Uploads, Deleted(x) PROVE IntakeInv'
<1>1. x \in deleting /\ rows[x] = "live"
  BY DEF IntakeInv, ReceiptsLive, Deleted
<1>2. /\ rows' \in [Uploads -> {"absent", "uncommitted", "live", "erased"}]
      /\ rows'[x] = "erased" /\ \A y \in Uploads \ {x} : rows'[y] = rows[y]
  BY DEF IntakeInv, IntakeTypeOK, Deleted
<1>3. /\ receipts' \in [Keys -> Uploads \cup {NoRow}]
      /\ \A k \in Keys : receipts'[k] = IF receipts[k] = x THEN NoRow ELSE receipts[k]
  BY DEF IntakeInv, IntakeTypeOK, Deleted
<1>4. /\ deleting' = deleting \ {x} /\ objects' = objects \ {x} /\ UNCHANGED <<request, failures>>
  BY DEF Deleted
<1>5. IntakeTypeOK'
  BY <1>2, <1>3, <1>4 DEF IntakeInv, IntakeTypeOK
<1>6. ASSUME NEW s \in Uploads
      PROVE  RowFits(s, request[s])' /\ ReceiptFits(request[s])'
  <2>1. RowFits(s, request[s]) /\ ReceiptFits(request[s])
    BY KnownOfRequest
  <2>2. request[x].at = "stored" /\ request[x].row = x
    BY <1>1, KnownOfRow
  <2>3. request[s].at \notin Early => request[s].row \in Uploads /\ request[s].key \in Keys
    BY <2>1 DEF RowFits, Early
  <2>4. RowFits(s, request[s])'
    BY <1>1, <1>2, <1>4, <2>1, <2>2, <2>3 DEF RowFits, Early
  <2>5. request[s].mine /\ request[s].at \in Late \cup {"noted"} => request[s].row # x
    BY <1>1, <2>1 DEF ReceiptFits
  <2>6. ReceiptFits(request[s])'
    BY <1>2, <1>3, <1>4, <2>1, <2>3, <2>5 DEF ReceiptFits, Early, Late
  <2> QED
    BY <2>4, <2>6
<1>7. OneEach'
  <2>1. \A y \in Uploads : Present(y)' => Present(y)
    BY <1>2 DEF Present
  <2> QED
    BY <1>4, <2>1 DEF IntakeInv, OneEach
<1>8. KeysApart'
  BY <1>4 DEF IntakeInv, KeysApart, InTransaction
<1>9. BytesThere'
  BY <1>2, <1>4 DEF IntakeInv, BytesThere
<1>10. ReceiptsLive'
  <2>1. ASSUME NEW k \in Keys, receipts'[k] # NoRow
        PROVE  rows'[receipts'[k]] = "live"
    <3>1. receipts'[k] = receipts[k] /\ receipts[k] # x
      BY <1>3, <2>1
    <3>2. receipts[k] \in Uploads /\ rows[receipts[k]] = "live"
      BY <2>1, <3>1 DEF IntakeInv, IntakeTypeOK, ReceiptsLive
    <3> QED
      BY <1>2, <3>1, <3>2
  <2>2. \A y \in deleting' : rows'[y] = "live"
    BY <1>2, <1>4 DEF IntakeInv, IntakeTypeOK, ReceiptsLive
  <2> QED
    BY <2>1, <2>2 DEF ReceiptsLive
<1> QED
  BY <1>5, <1>6, <1>7, <1>8, <1>9, <1>10 DEF IntakeInv, RequestsFit

LEMMA DeletionFailsKeeps == ASSUME IntakeInv, NEW x \in Uploads, DeletionFails(x) PROVE IntakeInv'
<1>1. IntakeTypeOK'
  BY IntakeAssumption DEF IntakeInv, IntakeTypeOK, DeletionFails
<1>2. ASSUME NEW s \in Uploads
      PROVE  RowFits(s, request[s])' /\ ReceiptFits(request[s])'
  <2>1. RowFits(s, request[s]) /\ ReceiptFits(request[s])
    BY KnownOfRequest
  <2> QED
    BY <2>1 DEF RowFits, ReceiptFits, DeletionFails
<1>3. OneEach' /\ KeysApart' /\ BytesThere' /\ ReceiptsLive'
  BY DEF IntakeInv, OneEach, Present, KeysApart, InTransaction, BytesThere, ReceiptsLive, DeletionFails
<1> QED
  BY <1>1, <1>2, <1>3 DEF IntakeInv, RequestsFit

-----------------------------------------------------------------------------
(* The theorems.                                                           *)

LEMMA IntakeNextHolds == ASSUME IntakeInv, [IntakeNext]_intakeVars PROVE IntakeInv'
<1>1. CASE UNCHANGED intakeVars
  <2>1. ASSUME NEW s \in Uploads
        PROVE  RowFits(s, request[s])' /\ ReceiptFits(request[s])'
    <3>1. RowFits(s, request[s]) /\ ReceiptFits(request[s])
      BY KnownOfRequest
    <3> QED
      BY <1>1, <3>1 DEF intakeVars, RowFits, ReceiptFits
  <2>2. IntakeTypeOK' /\ OneEach' /\ KeysApart' /\ BytesThere' /\ ReceiptsLive'
    BY <1>1 DEF intakeVars, IntakeInv, IntakeTypeOK, OneEach, Present, KeysApart, InTransaction, BytesThere,
       ReceiptsLive
  <2> QED
    BY <2>1, <2>2 DEF IntakeInv, RequestsFit
<1>2. CASE IntakeNext
  BY <1>2, AskKeeps, LockKeeps, InsertKeeps, FindKeeps, NoteKeeps, ShareKeeps, ConfirmKeeps, PutKeeps,
     WriteKeeps, CommitKeeps, FailKeeps, DeleteKeeps, DeletedKeeps, DeletionFailsKeeps DEF IntakeNext
<1> QED
  BY <1>1, <1>2

\* Every reachable state satisfies the inductive invariant: rows, receipts and bytes
\* fit the requests at work on them, which the lock and the two constraints keep apart.
THEOREM IntakeInvariant == IntakeSpec => []IntakeInv
<1>1. IntakeInit => IntakeInv
  BY IntakeInitHolds
<1>2. IntakeInv /\ [IntakeNext]_intakeVars => IntakeInv'
  BY IntakeNextHolds
<1> QED
  BY <1>1, <1>2, PTL DEF IntakeSpec

\* A content is stored once, with its bytes, and a key answers for one row and one
\* content, whatever retries, keys, deletions and failures overlap.
THEOREM StoredOnce == IntakeSpec => []StoredOnceUnderOneKey
<1>1. ASSUME IntakeInv PROVE StoredOnceUnderOneKey
  <2>1. \A x, y \in Uploads :
          rows[x] = "live" /\ rows[y] = "live" /\ request[x].content = request[y].content => x = y
    BY <1>1 DEF IntakeInv, OneEach, Present
  <2>2. \A x \in Uploads : rows[x] = "live" => x \in objects
    BY <1>1 DEF IntakeInv, BytesThere
  <2>3. \A k \in Keys : receipts[k] # NoRow => rows[receipts[k]] = "live"
    BY <1>1 DEF IntakeInv, ReceiptsLive
  <2>4. ASSUME NEW r \in Uploads, request[r].at = "stored", rows[request[r].row] = "live"
        PROVE  /\ receipts[request[r].key] = request[r].row
               /\ request[request[r].row].content = request[r].content
    <3>1. RowFits(r, request[r]) /\ ReceiptFits(request[r])
      BY <1>1, KnownOfRequest
    <3> QED
      BY <2>4, <3>1 DEF RowFits, ReceiptFits, Early
  <2> QED
    BY <2>1, <2>2, <2>3, <2>4 DEF StoredOnceUnderOneKey
<1> QED
  BY <1>1, IntakeInvariant, PTL

-----------------------------------------------------------------------------
(*                                Inbox                                    *)

\* A finite set of numbers has a least one: of the parts that reach up to an element,
\* the smallest.
LEMMA HasLeast ==
  ASSUME NEW T, T \subseteq Nat, IsFiniteSet(T), T # {}
  PROVE  \E x \in T : \A y \in T : x <= y
<1> DEFINE UpTo(x) == {y \in T : y <= x}
           Parts == {UpTo(x) : x \in T}
<1>1. Parts \subseteq FiniteSubsetsOf(T)
  <2>1. \A x \in T : UpTo(x) \subseteq T /\ IsFiniteSet(UpTo(x))
    BY FS_Subset
  <2> QED
    BY <2>1 DEF FiniteSubsetsOf
<1>2. Parts # {}
  OBVIOUS
<1>3. PICK part \in Parts : \A other \in Parts : ~(<<other, part>> \in StrictSubsetOrdering(T))
  <2> HIDE DEF Parts
  <2> QED
    BY <1>1, <1>2, FS_StrictSubsetOrderingWellFounded, WFMin
<1>4. PICK x \in T : part = UpTo(x)
  BY <1>3
<1>5. ASSUME NEW y \in T PROVE x <= y
  <2> SUFFICES ASSUME y < x PROVE FALSE
    BY <1>4
  <2>1. UpTo(y) \subseteq UpTo(x) /\ x \in UpTo(x) /\ x \notin UpTo(y)
    <3>1. x \in Nat /\ y \in Nat /\ \A z \in T : z \in Nat
      OBVIOUS
    <3>2. x <= x /\ ~(x <= y) /\ \A z \in T : z <= y => z <= x
      BY <3>1
    <3> QED
      BY <3>2
  <2>2. UpTo(y) \in Parts /\ UpTo(y) \subseteq T /\ UpTo(x) \subseteq T
    OBVIOUS
  <2>3. <<UpTo(y), UpTo(x)>> \in StrictSubsetOrdering(T)
    <3> HIDE DEF UpTo
    <3> QED
      BY <2>1, <2>2 DEF StrictSubsetOrdering
  <2> QED
    BY <1>3, <1>4, <2>2, <2>3
<1> QED
  BY <1>5

\* What is below an element of a finite set of numbers, counted.
Below(T, x) == {y \in T : y < x}

\* Every rank below the number of its elements is the rank of one: the least rank without
\* one would come after that of the element before, and what is above that one has a least.
LEMMA EveryRankTaken ==
  ASSUME NEW T, T \subseteq Nat, IsFiniteSet(T), NEW i \in 1..Cardinality(T)
  PROVE  \E x \in T : Cardinality(Below(T, x)) = i - 1
<1> DEFINE n == Cardinality(T)
           Free == {k \in 0..(n - 1) : \A x \in T : Cardinality(Below(T, x)) # k}
<1>0. n \in Nat
  BY FS_CardinalityType
<1>1. \A x \in T : IsFiniteSet(Below(T, x)) /\ Cardinality(Below(T, x)) \in Nat
  BY FS_Subset, FS_CardinalityType DEF Below
<1>2. Free = {}
  <2> SUFFICES ASSUME Free # {} PROVE FALSE
    OBVIOUS
  <2>1. Free \subseteq Nat /\ IsFiniteSet(Free)
    <3>1. IsFiniteSet(0..(n - 1)) /\ Free \in SUBSET (0..(n - 1))
      BY <1>0, FS_Interval
    <3> QED
      BY <1>0, <3>1, FS_Subset
  <2>2. PICK k \in Free : \A m \in Free : k <= m
    <3> HIDE DEF Free
    <3> QED
      BY <2>1, HasLeast
  <2>3. k \in 0..(n - 1) /\ \A x \in T : Cardinality(Below(T, x)) # k
    OBVIOUS
  <2>4. CASE k = 0
    <3>1. T # {}
      BY <1>0, <2>3, FS_EmptySet
    <3>2. PICK x \in T : \A y \in T : x <= y
      BY <3>1, HasLeast
    <3>3. \A y \in T : ~(y < x)
      <4>1. \A y \in T : y \in Nat /\ x \in Nat /\ x <= y
        BY <3>2
      <4> QED
        BY <4>1
    <3>4. Below(T, x) = {}
      BY <3>3 DEF Below
    <3> QED
      BY <2>3, <2>4, <3>4, FS_EmptySet
  <2>5. CASE k # 0
    <3>1. k - 1 \in 0..(n - 1) /\ k - 1 \notin Free
      BY <1>0, <2>1, <2>2, <2>3, <2>5
    <3>2. PICK x \in T : Cardinality(Below(T, x)) = k - 1
      BY <3>1
    <3> DEFINE upTo == Below(T, x) \cup {x}
               rest == T \ upTo
    <3>3. x \notin Below(T, x) /\ x \in Nat
      BY DEF Below
    <3>4. Cardinality(upTo) = k /\ IsFiniteSet(upTo)
      <4>1. IsFiniteSet(Below(T, x)) /\ k \in Int
        BY <1>0, <1>1, <2>3
      <4>2. IsFiniteSet(upTo) /\ Cardinality(upTo) = Cardinality(Below(T, x)) + 1
        BY <3>3, <4>1, FS_AddElement
      <4> QED
        BY <3>2, <4>1, <4>2
    <3>5. rest # {}
      <4> SUFFICES ASSUME rest = {} PROVE FALSE
        OBVIOUS
      <4>1. T = upTo
        BY DEF Below
      <4>2. Cardinality(T) = k
        BY <3>4, <4>1
      <4> QED
        BY <1>0, <2>3, <4>2
    <3>6. rest \subseteq Nat /\ IsFiniteSet(rest)
      BY FS_Subset
    <3>7. PICK y \in rest : \A z \in rest : y <= z
      <4> HIDE DEF rest
      <4> QED
        BY <3>5, <3>6, HasLeast
    <3>8. y \in T /\ y \in Nat /\ ~(y < x) /\ y # x
      BY DEF Below
    <3>9. Below(T, y) = upTo
      <4>1. ASSUME NEW z \in T PROVE z < y <=> z \in upTo
        <5>1. z \in Nat
          OBVIOUS
        <5>2. z \in upTo <=> z < x \/ z = x
          BY DEF Below
        <5>3. z \notin upTo => y <= z
          BY <3>7
        <5> QED
          BY <3>3, <3>8, <5>1, <5>2, <5>3
      <4>2. upTo \subseteq T
        BY DEF Below
      <4> QED
        BY <4>1, <4>2 DEF Below
    <3> QED
      BY <2>3, <3>4, <3>8, <3>9
  <2> QED
    BY <2>4, <2>5
<1>3. i - 1 \in 0..(n - 1)
  BY <1>0
<1> QED
  BY <1>2, <1>3

-----------------------------------------------------------------------------
(* Cards.                                                                  *)

\* Which question the i-th new card is about.
Nth(mine, i) == CHOOSE q \in Fresh(mine) : Cardinality({p \in Fresh(mine) : p < q}) = i - 1

\* The new cards are about the questions without one, each about another.
LEMMA NewQuestions ==
  ASSUME NEW mine \in VisitRows
  PROVE  /\ Cardinality(Fresh(mine)) \in Nat /\ Fresh(mine) \subseteq Questions
         /\ \A i \in 1..Cardinality(Fresh(mine)) : Nth(mine, i) \in Fresh(mine)
         /\ \A i, j \in 1..Cardinality(Fresh(mine)) : Nth(mine, i) = Nth(mine, j) => i = j
<1>1. Fresh(mine) \subseteq Questions
  BY DEF Fresh, VisitRows
<1>2. IsFiniteSet(Fresh(mine)) /\ Fresh(mine) \subseteq Nat
  BY <1>1, InboxAssumption, FS_Subset
<1>3. Cardinality(Fresh(mine)) \in Nat
  BY <1>2, FS_CardinalityType
<1>4. ASSUME NEW i \in 1..Cardinality(Fresh(mine))
      PROVE  Nth(mine, i) \in Fresh(mine) /\ Cardinality({p \in Fresh(mine) : p < Nth(mine, i)}) = i - 1
  <2>1. \E q \in Fresh(mine) : Cardinality({p \in Fresh(mine) : p < q}) = i - 1
    BY <1>2, EveryRankTaken DEF Below
  <2> QED
    BY <2>1 DEF Nth
<1>5. \A i, j \in 1..Cardinality(Fresh(mine)) : Nth(mine, i) = Nth(mine, j) => i = j
  <2> SUFFICES ASSUME NEW i \in 1..Cardinality(Fresh(mine)), NEW j \in 1..Cardinality(Fresh(mine)),
                      Nth(mine, i) = Nth(mine, j)
               PROVE  i = j
    OBVIOUS
  <2>1. i - 1 = j - 1
    BY <1>4
  <2> QED
    BY <1>3, <2>1
<1> QED
  BY <1>1, <1>3, <1>4, <1>5

\* A time has a day.
LEMMA DayOf == \A t \in Nat : Today(t) \in Nat
  BY InboxAssumption DEF Today

\* What a refresh makes of one card.
RefreshedCard(mine, card) ==
  IF card.status \in Settled THEN card
  ELSE IF card.question \notin mine.shows THEN [card EXCEPT !.status = "CLEARED"]
  ELSE [card EXCEPT !.seen = mine.seen[card.question],
          !.known = IF card.status = "ASKED" /\ Today(card.asked) = Today(mine.now) THEN mine.seen[card.question] ELSE @]

\* The fields a refresh leaves alone, and what it makes of the others.
LEMMA RefreshKeeps ==
  ASSUME NEW mine \in VisitRows, NEW card \in CardRows
  PROVE  LET nxt == RefreshedCard(mine, card)
         IN  /\ nxt \in CardRows /\ nxt.question = card.question /\ nxt.answer = card.answer
             /\ nxt.status = IF card.status \in Settled \/ card.question \in mine.shows THEN card.status ELSE "CLEARED"
             /\ card.status \in Settled => nxt = card
             /\ nxt.seen \in {card.seen, mine.seen[card.question]}
<1>1. card.question \in Questions /\ mine.seen[card.question] \in Nat
  BY DEF CardRows, VisitRows
<1>2. CASE card.status \in Settled
  <2>1. RefreshedCard(mine, card) = card
    BY <1>2 DEF RefreshedCard
  <2> QED
    BY <1>2, <2>1
<1>3. CASE card.status \notin Settled /\ card.question \notin mine.shows
  <2>1. RefreshedCard(mine, card) = [card EXCEPT !.status = "CLEARED"]
    BY <1>3 DEF RefreshedCard
  <2>2. "CLEARED" \in Statuses
    BY DEF Statuses, Settled
  <2> QED
    BY <1>3, <2>1, <2>2 DEF CardRows
<1>4. CASE card.status \notin Settled /\ card.question \in mine.shows
  <2> DEFINE n == mine.seen[card.question]
             m == IF card.status = "ASKED" /\ Today(card.asked) = Today(mine.now) THEN n ELSE card.known
  <2>1. RefreshedCard(mine, card) = [card EXCEPT !.seen = n, !.known = m]
    BY <1>4 DEF RefreshedCard
  <2>2. n \in Nat /\ m \in Nat
    BY <1>1 DEF CardRows
  <2> QED
    <3> HIDE DEF n, m
    <3>1. card.status = IF card.status \in Settled \/ card.question \in mine.shows THEN card.status ELSE "CLEARED"
      BY <1>4
    <3>2. [card EXCEPT !.seen = n, !.known = m] \in CardRows
      BY <2>2 DEF CardRows
    <3>3. /\ RefreshedCard(mine, card).question = card.question /\ RefreshedCard(mine, card).answer = card.answer
          /\ RefreshedCard(mine, card).status = card.status /\ RefreshedCard(mine, card).seen = n
      BY <2>1 DEF CardRows
    <3> QED
      BY <1>4, <2>1, <3>1, <3>2, <3>3 DEF n
<1> QED
  BY <1>2, <1>3, <1>4

\* The new cards of a reading.
LEMMA NewCardType ==
  ASSUME NEW mine \in VisitRows, NEW q \in Questions
  PROVE  /\ NewCard(mine, q) \in CardRows /\ NewCard(mine, q).question = q /\ NewCard(mine, q).status = "OPEN"
         /\ NewCard(mine, q).answer = NoAnswer /\ NewCard(mine, q).seen = mine.seen[q]
<1>1. mine.seen[q] \in Nat /\ NoAnswer \in AnswerRows /\ "OPEN" \in Statuses
  BY DEF VisitRows, NoAnswer, AnswerRows, Options, Statuses
<1> QED
  BY <1>1 DEF NewCard, CardRows

\* What a reading has before it: the cards there were, refreshed, and one for each question
\* without an open one.
LEMMA CardsComposed ==
  ASSUME cards \in Seq(CardRows), NEW mine \in VisitRows
  PROVE  LET all == Composed(mine)
             n == Cardinality(Fresh(mine))
         IN  /\ all \in Seq(CardRows) /\ Len(all) = Len(cards) + n /\ n \in Nat
             /\ \A c \in DOMAIN cards : c \in DOMAIN all /\ all[c] = RefreshedCard(mine, cards[c])
             /\ \A c \in DOMAIN all \ DOMAIN cards :
                  c - Len(cards) \in 1..n /\ all[c] = NewCard(mine, Nth(mine, c - Len(cards)))
<1> DEFINE was == Refreshed(mine, cards)
           n == Cardinality(Fresh(mine))
           nxt == [i \in 1..n |-> NewCard(mine, Nth(mine, i))]
<1>1. n \in Nat /\ \A i \in 1..n : NewCard(mine, Nth(mine, i)) \in CardRows
  BY NewQuestions, NewCardType
<1>2. was = [c \in DOMAIN cards |-> RefreshedCard(mine, cards[c])]
  BY DEF Refreshed, RefreshedCard
<1>3. \A c \in DOMAIN cards : RefreshedCard(mine, cards[c]) \in CardRows
  BY RefreshKeeps, ElementOfSeq
<1>4. Len(cards) \in Nat /\ DOMAIN cards = 1..Len(cards)
  BY LenProperties
<1>5. was \in Seq(CardRows) /\ Len(was) = Len(cards) /\ DOMAIN was = 1..Len(cards)
  <2>1. was \in [1..Len(cards) -> CardRows]
    BY <1>2, <1>3, <1>4
  <2> HIDE DEF was
  <2> QED
    BY <1>4, <2>1, IsASeq, LenProperties
<1>6. nxt \in Seq(CardRows) /\ Len(nxt) = n
  <2>1. nxt \in [1..n -> CardRows]
    BY <1>1
  <2> HIDE DEF nxt, n
  <2> QED
    BY <1>1, <2>1, IsASeq, LenProperties
<1>7. Composed(mine) = was \o nxt
  BY DEF Composed, Nth
<1> HIDE DEF was, nxt, n
<1>8. /\ Composed(mine) \in Seq(CardRows) /\ Len(Composed(mine)) = Len(cards) + n
      /\ \A c \in 1..Len(Composed(mine)) :
           Composed(mine)[c] = IF c <= Len(cards) THEN was[c] ELSE nxt[c - Len(cards)]
  BY <1>5, <1>6, <1>7, ConcatProperties
<1>9. DOMAIN Composed(mine) = 1..(Len(cards) + n)
  BY <1>8, LenProperties
<1>10. \A c \in DOMAIN cards : c \in DOMAIN Composed(mine) /\ Composed(mine)[c] = RefreshedCard(mine, cards[c])
  BY <1>1, <1>2, <1>4, <1>8, <1>9
<1>11. ASSUME NEW c \in DOMAIN Composed(mine) \ DOMAIN cards
       PROVE  c - Len(cards) \in 1..n /\ Composed(mine)[c] = NewCard(mine, Nth(mine, c - Len(cards)))
  <2>1. c - Len(cards) \in 1..n /\ ~(c <= Len(cards)) /\ c \in 1..Len(Composed(mine))
    BY <1>1, <1>4, <1>8, <1>9
  <2>2. Composed(mine)[c] = nxt[c - Len(cards)]
    BY <1>8, <2>1
  <2> QED
    BY <2>1, <2>2 DEF nxt
<1> QED
  BY <1>1, <1>8, <1>10, <1>11 DEF n

\* The end of a window is a time.
LEMMA WindowEnds ==
  ASSUME NEW card \in CardRows, NEW t \in Nat
  PROVE  WindowEnd(card, t) \in Nat
<1> DEFINE T == {t} \cup ({card.until} \ {Null}) \cup (IF card.asked = Null THEN {} ELSE {card.asked + Window})
<1>1. T \subseteq Nat /\ T # {}
  BY InboxAssumption DEF CardRows
<1>2. \E x \in T : \A y \in T : x >= y
  <2>1. CASE card.until = Null /\ card.asked = Null
    BY <2>1
  <2>2. CASE card.until # Null /\ card.asked = Null
    <3>1. card.until \in Nat
      BY <2>2 DEF CardRows
    <3>2. T = {t, card.until}
      BY <2>2
    <3> QED
      BY <3>1, <3>2
  <2>3. CASE card.until = Null /\ card.asked # Null
    <3>1. card.asked + Window \in Nat
      BY <2>3, InboxAssumption DEF CardRows
    <3>2. T = {t, card.asked + Window}
      BY <2>3
    <3> QED
      BY <3>1, <3>2
  <2>4. CASE card.until # Null /\ card.asked # Null
    <3>1. card.asked + Window \in Nat /\ card.until \in Nat
      BY <2>4, InboxAssumption DEF CardRows
    <3>2. T = {t, card.until, card.asked + Window}
      BY <2>4
    <3> QED
      BY <3>1, <3>2
  <2> QED
    BY <2>1, <2>2, <2>3, <2>4
<1>3. WindowEnd(card, t) = Max(T)
  BY DEF WindowEnd
<1> HIDE DEF T
<1> QED
  BY <1>1, <1>2, <1>3 DEF Max

\* A decision settles nothing and leaves the question, the answer and what is shown alone.
LEMMA DecisionKeeps ==
  ASSUME NEW mine \in VisitRows, NEW c, Composed(mine)[c] \in CardRows
  PROVE  LET card == Composed(mine)[c]
             nxt == Decided(mine, c)
         IN  /\ nxt \in CardRows /\ nxt.question = card.question /\ nxt.answer = card.answer /\ nxt.seen = card.seen
             /\ card.status \in Settled => nxt = card
             /\ card.status \notin Settled => nxt.status \notin Settled
<1> DEFINE card == Composed(mine)[c]
           judged == [card EXCEPT !.evaluated = Today(mine.now)]
           until == WindowEnd(card, mine.now)
<1>0. mine.now \in Nat /\ Today(mine.now) \in Nat /\ card.seen \in Nat /\ until \in Nat
  BY DayOf, WindowEnds DEF VisitRows, CardRows
<1>1. {"SUPPRESSED", "DEFERRED", "ASKED"} \subseteq Statuses \ Settled
  BY DEF Statuses, Settled
<1>2. judged \in CardRows /\ judged.question = card.question /\ judged.answer = card.answer /\ judged.seen = card.seen
  BY <1>0 DEF CardRows
<1>3. card.status \in Settled => ~Due(mine, c)
  BY DEF Due
<1>4. CASE ~Due(mine, c) \/ RulesFor # {}
  <2>1. Decided(mine, c) = card
    BY <1>4 DEF Decided
  <2> QED
    BY <2>1
<1>5. CASE Due(mine, c) /\ RulesFor = {} /\ Withheld(card, mine.now)
  <2>1. Decided(mine, c) = [judged EXCEPT !.status = "SUPPRESSED", !.until = until]
    BY <1>5 DEF Decided
  <2> HIDE DEF judged, until
  <2> QED
    BY <1>0, <1>1, <1>2, <1>3, <1>5, <2>1 DEF CardRows
<1>6. CASE Due(mine, c) /\ RulesFor = {} /\ ~Withheld(card, mine.now) /\ ~WithinCap(mine, c)
  <2>1. Decided(mine, c) = [judged EXCEPT !.status = "DEFERRED"]
    BY <1>6 DEF Decided
  <2> HIDE DEF judged, until
  <2> QED
    BY <1>0, <1>1, <1>2, <1>3, <1>6, <2>1 DEF CardRows
<1>7. CASE Due(mine, c) /\ RulesFor = {} /\ ~Withheld(card, mine.now) /\ WithinCap(mine, c)
  <2>1. Decided(mine, c) = [judged EXCEPT !.status = "ASKED", !.asked = mine.now, !.known = card.seen, !.until = Null]
    BY <1>7 DEF Decided
  <2> HIDE DEF judged, until
  <2> QED
    BY <1>0, <1>1, <1>2, <1>3, <1>7, <2>1 DEF CardRows
<1> QED
  BY <1>4, <1>5, <1>6, <1>7

-----------------------------------------------------------------------------
(* Requests.                                                               *)

\* VisitKnows of a request's record, with what it rests on named.
Warranted(mine, now, have, deck, law, made) ==
  /\ mine.now <= now /\ \A q \in Questions : mine.seen[q] <= have[q]
  /\ mine.at \in {"writing", "written", "proposed"} =>
       /\ {mine.card} \cup mine.apply \subseteq DOMAIN deck
       /\ mine.upTo <= have[deck[mine.card].question]
       /\ mine.apply # {} => mine.rule # 0
  /\ mine.rule # 0 =>
       /\ mine.rule \in DOMAIN law /\ law[mine.rule].approved # Null
       /\ law[mine.rule].revoked # Null => mine.now <= law[mine.rule].revoked
  /\ mine.at = "proposed" /\ mine.choice # "keep" =>
       [card |-> mine.card, choice |-> mine.choice, rule |-> mine.rule] \in made

LEMMA VisitWarranted ==
  ASSUME NEW r \in Visits
  PROVE  /\ VisitKnows(r) <=> Warranted(visit[r], ticks, pieces, cards, rules, proposals)
         /\ VisitKnows(r)' <=> Warranted(visit'[r], ticks', pieces', cards', rules', proposals')
  BY DEF VisitKnows, Warranted

\* What only grows: time, evidence and proposals; a card keeps its question; an approved
\* rule has been approved for good, and one is revoked now if ever.
Grown(now, now2, have, have2, deck, deck2, law, law2, made, made2) ==
  /\ now \in Nat /\ now2 \in Nat /\ now <= now2 /\ made \subseteq made2
  /\ have \in [Questions -> Nat] /\ have2 \in [Questions -> Nat] /\ \A q \in Questions : have[q] <= have2[q]
  /\ deck \in Seq(CardRows) /\ \A c \in DOMAIN deck : c \in DOMAIN deck2 /\ deck2[c].question = deck[c].question
  /\ law \in Seq(RuleRows)
  /\ \A i \in DOMAIN law :
       /\ i \in DOMAIN law2 /\ (law[i].approved # Null => law2[i].approved # Null)
       /\ law2[i].revoked \in {law[i].revoked, now} /\ (law[i].revoked # Null => law2[i].revoked = law[i].revoked)

\* What a request carries is warranted whatever the others do.
LEMMA StaysWarranted ==
  ASSUME NEW mine \in VisitRows, NEW now, NEW now2, NEW have, NEW have2, NEW deck, NEW deck2,
         NEW law, NEW law2, NEW made, NEW made2,
         Warranted(mine, now, have, deck, law, made),
         Grown(now, now2, have, have2, deck, deck2, law, law2, made, made2)
  PROVE  Warranted(mine, now2, have2, deck2, law2, made2)
<1>1. mine.now \in Nat /\ mine.upTo \in Nat /\ mine.seen \in [Questions -> Nat]
  BY DEF VisitRows
<1>2. mine.now <= now2
  BY <1>1 DEF Warranted, Grown
<1>3. \A q \in Questions : mine.seen[q] <= have2[q]
  <2> TAKE q \in Questions
  <2>1. mine.seen[q] \in Nat /\ have[q] \in Nat /\ have2[q] \in Nat /\ have[q] <= have2[q] /\ mine.seen[q] <= have[q]
    BY <1>1 DEF Warranted, Grown
  <2> QED
    BY <2>1
<1>4. ASSUME mine.at \in {"writing", "written", "proposed"}
      PROVE  /\ {mine.card} \cup mine.apply \subseteq DOMAIN deck2
             /\ mine.upTo <= have2[deck2[mine.card].question]
             /\ mine.apply # {} => mine.rule # 0
  <2>1. /\ {mine.card} \cup mine.apply \subseteq DOMAIN deck
        /\ mine.upTo <= have[deck[mine.card].question]
        /\ mine.apply # {} => mine.rule # 0
    BY <1>4 DEF Warranted
  <2>2. {mine.card} \cup mine.apply \subseteq DOMAIN deck2 /\ deck2[mine.card].question = deck[mine.card].question
    BY <2>1 DEF Grown
  <2>3. deck[mine.card].question \in Questions
    <3>1. deck[mine.card] \in CardRows
      BY <2>1, ElementOfSeq, LenProperties DEF Grown
    <3> QED
      BY <3>1 DEF CardRows
  <2> DEFINE q == deck[mine.card].question
  <2>4. have[q] \in Nat /\ have2[q] \in Nat /\ have[q] <= have2[q]
    BY <2>3 DEF Grown
  <2>5. mine.upTo <= have2[q]
    BY <1>1, <2>1, <2>4
  <2> QED
    BY <2>1, <2>2, <2>5
<1>5. ASSUME mine.rule # 0
      PROVE  /\ mine.rule \in DOMAIN law2 /\ law2[mine.rule].approved # Null
             /\ law2[mine.rule].revoked # Null => mine.now <= law2[mine.rule].revoked
  <2>1. /\ mine.rule \in DOMAIN law /\ law[mine.rule].approved # Null
        /\ law[mine.rule].revoked # Null => mine.now <= law[mine.rule].revoked
    BY <1>5 DEF Warranted
  <2>2. mine.now <= now
    BY DEF Warranted
  <2> QED
    BY <2>1, <2>2 DEF Grown
<1>6. mine.at = "proposed" /\ mine.choice # "keep" =>
        [card |-> mine.card, choice |-> mine.choice, rule |-> mine.rule] \in made2
  BY DEF Warranted, Grown
<1> QED
  BY <1>2, <1>3, <1>4, <1>5, <1>6 DEF Warranted

GrowsNow == Grown(ticks, ticks', pieces, pieces', cards, cards', rules, rules', proposals, proposals')

\* One request moves to a record that is warranted; the others keep theirs.
LEMMA VisitMoves ==
  ASSUME InboxTypeOK, VisitsKnow, GrowsNow, NEW r \in Visits, NEW record,
         visit' = [visit EXCEPT ![r] = record],
         record \in VisitRows, Warranted(record, ticks', pieces', cards', rules', proposals')
  PROVE  VisitsKnow' /\ visit' \in [Visits -> VisitRows]
<1>1. visit \in [Visits -> VisitRows]
  BY DEF InboxTypeOK
<1>2. visit' \in [Visits -> VisitRows] /\ visit'[r] = record /\ \A s \in Visits \ {r} : visit'[s] = visit[s]
  BY <1>1
<1>3. VisitKnows(r)'
  BY <1>2, VisitWarranted
<1>4. ASSUME NEW s \in Visits \ {r} PROVE VisitKnows(s)'
  <2>1. Warranted(visit[s], ticks, pieces, cards, rules, proposals)
    BY VisitWarranted DEF VisitsKnow
  <2>2. Warranted(visit[s], ticks', pieces', cards', rules', proposals')
    BY <1>1, <2>1, StaysWarranted DEF GrowsNow
  <2> QED
    BY <1>2, <2>2, VisitWarranted
<1> QED
  BY <1>2, <1>3, <1>4 DEF VisitsKnow

LEMMA VisitsStay ==
  ASSUME InboxTypeOK, VisitsKnow, GrowsNow, visit' = visit
  PROVE  VisitsKnow' /\ visit' \in [Visits -> VisitRows]
<1>1. visit \in [Visits -> VisitRows]
  BY DEF InboxTypeOK
<1>4. ASSUME NEW s \in Visits PROVE VisitKnows(s)'
  <2>1. Warranted(visit[s], ticks, pieces, cards, rules, proposals)
    BY VisitWarranted DEF VisitsKnow
  <2>2. Warranted(visit[s], ticks', pieces', cards', rules', proposals')
    BY <1>1, <2>1, StaysWarranted DEF GrowsNow
  <2> QED
    BY <2>2, VisitWarranted
<1> QED
  BY <1>1, <1>4 DEF VisitsKnow

\* Steps that leave the rows alone.
LEMMA RowsStay ==
  ASSUME InboxInv, UNCHANGED <<ticks, pieces, cards, rules>>, proposals \subseteq proposals'
  PROVE  GrowsNow /\ CardsFit' /\ RulesFit' /\ AnswersAreTheOwners'
<1>1. GrowsNow
  BY DEF GrowsNow, Grown, InboxInv, InboxTypeOK
<1>2. CardsFit' /\ RulesFit'
  BY DEF InboxInv, CardsFit, RulesFit
<1>3. RulesFromFreshAnswers' /\ RulesAnswerInEffect'
  BY DEF InboxInv, AnswersAreTheOwners, RulesFromFreshAnswers, RulesAnswerInEffect
<1>4. ResolvedIsProposed'
  BY DEF InboxInv, AnswersAreTheOwners, ResolvedIsProposed
<1> QED
  BY <1>1, <1>2, <1>3, <1>4 DEF AnswersAreTheOwners

\* Types where rows stay.
LEMMA TypesStay ==
  ASSUME InboxInv, UNCHANGED <<ticks, pieces, cards, rules>>, begun' \in Nat, visit' \in [Visits -> VisitRows],
         said' \in [Questions -> Nat], \A q \in Questions : said'[q] <= pieces[q]
  PROVE  InboxTypeOK'
  BY DEF InboxInv, InboxTypeOK, OpenCards

\* A request that has nothing.
LEMMA NothingCarried ==
  ASSUME InboxTypeOK
  PROVE  Nothing \in VisitRows /\ Warranted(Nothing, ticks, pieces, cards, rules, proposals)
  BY DEF Nothing, VisitRows, Options, Warranted, InboxTypeOK

LEMMA ReadPacketKeeps ==
  ASSUME InboxInv, NEW r \in Visits, NEW eyes \in Eyes, ReadPacket(r, eyes)
  PROVE  InboxInv'
<1> DEFINE shown == {q \in eyes : pieces[q] > said[q]}
           record == [Nothing EXCEPT !.at = "packet", !.now = ticks, !.seen = pieces, !.shows = shown]
<1>1. InboxTypeOK /\ VisitsKnow
  BY DEF InboxInv
<1>2. GrowsNow /\ CardsFit' /\ RulesFit' /\ AnswersAreTheOwners'
  BY RowsStay DEF ReadPacket
<1>3. ticks \in Nat /\ pieces \in [Questions -> Nat] /\ shown \subseteq Questions /\ begun' \in Nat
  <2>1. eyes \subseteq Questions
    BY InboxAssumption
  <2>2. ticks \in Nat /\ begun' \in Nat
    BY <1>1, InboxAssumption DEF InboxTypeOK, ReadPacket, Enter
  <2>3. pieces \in [Questions -> Nat]
    BY <1>1 DEF InboxTypeOK
  <2> QED
    BY <2>1, <2>2, <2>3
<1>4. record \in VisitRows
  BY <1>3 DEF VisitRows, Options, Nothing
<1>5. Warranted(record, ticks', pieces', cards', rules', proposals')
  BY <1>3 DEF Warranted, Nothing, ReadPacket
<1>6. visit' = [visit EXCEPT ![r] = record]
  BY DEF ReadPacket, To
<1>7. VisitsKnow' /\ visit' \in [Visits -> VisitRows]
  <2> HIDE DEF record
  <2> QED
    BY <1>1, <1>2, <1>4, <1>5, <1>6, VisitMoves
<1>8. InboxTypeOK'
  BY <1>1, <1>3, <1>7, TypesStay DEF ReadPacket, InboxTypeOK
<1> QED
  BY <1>2, <1>7, <1>8 DEF InboxInv

LEMMA BeginAnswerKeeps ==
  ASSUME InboxInv, NEW r \in Visits, NEW c \in DOMAIN cards, NEW choice \in Effects, BeginAnswer(r, c, choice)
  PROVE  InboxInv'
<1> DEFINE record == [Nothing EXCEPT !.at = "writing", !.now = ticks, !.card = c, !.upTo = cards[c].seen, !.choice = choice]
<1>1. InboxTypeOK /\ VisitsKnow
  BY DEF InboxInv
<1>2. GrowsNow /\ CardsFit' /\ RulesFit' /\ AnswersAreTheOwners'
  BY RowsStay DEF BeginAnswer
<1>3. /\ ticks \in Nat /\ pieces \in [Questions -> Nat] /\ begun' \in Nat /\ c \in Nat /\ cards[c].seen \in Nat
      /\ cards[c].seen <= pieces[cards[c].question]
  <2>1. c \in Nat /\ cards[c] \in CardRows
    BY <1>1, ElementOfSeq, LenProperties DEF InboxTypeOK
  <2>2. ticks \in Nat /\ begun' \in Nat
    BY <1>1, InboxAssumption DEF InboxTypeOK, BeginAnswer, Enter
  <2>3. pieces \in [Questions -> Nat]
    BY <1>1 DEF InboxTypeOK
  <2>4. cards[c].seen <= pieces[cards[c].question]
    BY DEF InboxInv, CardsFit
  <2> QED
    BY <2>1, <2>2, <2>3, <2>4 DEF CardRows
<1>4. record \in VisitRows
  BY <1>3 DEF VisitRows, Options, Nothing
<1>5. Warranted(record, ticks', pieces', cards', rules', proposals')
  BY <1>3 DEF Warranted, Nothing, BeginAnswer
<1>6. visit' = [visit EXCEPT ![r] = record]
  BY DEF BeginAnswer, To
<1>7. VisitsKnow' /\ visit' \in [Visits -> VisitRows]
  <2> HIDE DEF record
  <2> QED
    BY <1>1, <1>2, <1>4, <1>5, <1>6, VisitMoves
<1>8. InboxTypeOK'
  BY <1>1, <1>3, <1>7, TypesStay DEF BeginAnswer, InboxTypeOK
<1> QED
  BY <1>2, <1>7, <1>8 DEF InboxInv

\* What an answer writes covers no more than there is.
LEMMA WriteDeltasKeeps ==
  ASSUME InboxInv, NEW r \in Visits, WriteDeltas(r)
  PROVE  InboxInv'
<1> DEFINE mine == visit[r]
           q == cards[mine.card].question
           record == [mine EXCEPT !.at = "written"]
<1>1. InboxTypeOK /\ VisitsKnow /\ mine \in VisitRows
  BY DEF InboxInv, InboxTypeOK
<1>2. GrowsNow /\ CardsFit' /\ RulesFit' /\ AnswersAreTheOwners'
  BY RowsStay DEF WriteDeltas
<1>3. Warranted(mine, ticks, pieces, cards, rules, proposals) /\ mine.at = "writing"
  BY <1>1, VisitWarranted DEF VisitsKnow, WriteDeltas
<1>4. record \in VisitRows
  BY <1>1 DEF VisitRows
<1>5. Warranted(record, ticks', pieces', cards', rules', proposals')
  <2>1. /\ record.now = mine.now /\ record.seen = mine.seen /\ record.card = mine.card /\ record.apply = mine.apply
        /\ record.upTo = mine.upTo /\ record.choice = mine.choice /\ record.rule = mine.rule /\ record.at = "written"
    BY <1>1 DEF VisitRows
  <2> HIDE DEF record, mine
  <2> QED
    BY <1>3, <2>1 DEF Warranted, WriteDeltas
<1>6. visit' = [visit EXCEPT ![r] = record]
  BY DEF WriteDeltas, To
<1>7. VisitsKnow' /\ visit' \in [Visits -> VisitRows]
  <2> HIDE DEF record
  <2> QED
    BY <1>1, <1>2, <1>4, <1>5, <1>6, VisitMoves
<1>8. said' \in [Questions -> Nat] /\ \A p \in Questions : said'[p] <= pieces[p]
  <2>1. said \in [Questions -> Nat] /\ \A p \in Questions : said[p] <= pieces[p]
    BY <1>1 DEF InboxTypeOK
  <2>2. CASE mine.choice = "keep"
    BY <2>1, <2>2 DEF WriteDeltas
  <2>3. CASE mine.choice # "keep"
    <3>1. said' = [said EXCEPT ![q] = Max({@, mine.upTo})]
      BY <2>3 DEF WriteDeltas
    <3>2. q \in Questions /\ mine.upTo <= pieces[q] /\ mine.upTo \in Nat
      <4>1. mine.card \in DOMAIN cards /\ mine.upTo <= pieces[q]
        BY <1>3 DEF Warranted
      <4>2. cards[mine.card] \in CardRows
        BY <1>1, <4>1, ElementOfSeq, LenProperties DEF InboxTypeOK
      <4> QED
        BY <1>1, <4>1, <4>2 DEF CardRows, VisitRows
    <3> DEFINE m == Max({said[q], mine.upTo})
    <3>3. m \in {said[q], mine.upTo}
      <4>1. \E x \in {said[q], mine.upTo} : \A y \in {said[q], mine.upTo} : x >= y
        BY <2>1, <3>2
      <4> QED
        BY <4>1 DEF Max
    <3>4. m \in Nat /\ m <= pieces[q]
      BY <2>1, <3>2, <3>3
    <3>5. said' = [said EXCEPT ![q] = m]
      BY <3>1
    <3> HIDE DEF m, q
    <3> QED
      BY <2>1, <3>2, <3>4, <3>5
  <2> QED
    BY <2>2, <2>3
<1>9. InboxTypeOK'
  BY <1>1, <1>7, <1>8, TypesStay DEF WriteDeltas, InboxTypeOK
<1> QED
  BY <1>2, <1>7, <1>9 DEF InboxInv

LEMMA ProposeAnswerKeeps ==
  ASSUME InboxInv, NEW r \in Visits, ProposeAnswer(r)
  PROVE  InboxInv'
<1> DEFINE mine == visit[r]
           record == [mine EXCEPT !.at = "proposed"]
<1>1. InboxTypeOK /\ VisitsKnow /\ mine \in VisitRows
  BY DEF InboxInv, InboxTypeOK
<1>0. proposals \subseteq proposals'
  BY DEF ProposeAnswer
<1>2. GrowsNow /\ CardsFit' /\ RulesFit' /\ AnswersAreTheOwners'
  BY <1>0, RowsStay DEF ProposeAnswer
<1>3. Warranted(mine, ticks, pieces, cards, rules, proposals) /\ mine.at = "written"
  BY <1>1, VisitWarranted DEF VisitsKnow, ProposeAnswer
<1>4. record \in VisitRows
  BY <1>1 DEF VisitRows
<1>5. Warranted(record, ticks', pieces', cards', rules', proposals')
  <2>1. /\ record.now = mine.now /\ record.seen = mine.seen /\ record.card = mine.card /\ record.apply = mine.apply
        /\ record.upTo = mine.upTo /\ record.choice = mine.choice /\ record.rule = mine.rule /\ record.at = "proposed"
    BY <1>1 DEF VisitRows
  <2>2. mine.choice # "keep" => [card |-> mine.card, choice |-> mine.choice, rule |-> mine.rule] \in proposals'
    BY DEF ProposeAnswer
  <2>3. UNCHANGED <<ticks, pieces, cards, rules>>
    BY DEF ProposeAnswer
  <2> HIDE DEF record, mine
  <2> QED
    BY <1>3, <2>1, <2>2, <2>3 DEF Warranted
<1>6. visit' = [visit EXCEPT ![r] = record]
  BY DEF ProposeAnswer, To
<1>7. VisitsKnow' /\ visit' \in [Visits -> VisitRows]
  <2> HIDE DEF record
  <2> QED
    BY <1>1, <1>2, <1>4, <1>5, <1>6, VisitMoves
<1>9. InboxTypeOK'
  BY <1>1, <1>7, TypesStay DEF ProposeAnswer, InboxTypeOK
<1> QED
  BY <1>2, <1>7, <1>9 DEF InboxInv

LEMMA LeaveKeeps ==
  ASSUME InboxInv, NEW r \in Visits, Leave(r)
  PROVE  InboxInv'
<1>1. InboxTypeOK /\ VisitsKnow
  BY DEF InboxInv
<1>2. GrowsNow /\ CardsFit' /\ RulesFit' /\ AnswersAreTheOwners'
  BY RowsStay DEF Leave
<1>3. Nothing \in VisitRows /\ Warranted(Nothing, ticks', pieces', cards', rules', proposals')
  BY <1>1, NothingCarried DEF Leave
<1>4. VisitsKnow' /\ visit' \in [Visits -> VisitRows]
  BY <1>1, <1>2, <1>3, VisitMoves DEF Leave, To
<1>5. InboxTypeOK'
  BY <1>1, <1>4, TypesStay DEF Leave, InboxTypeOK
<1> QED
  BY <1>2, <1>4, <1>5 DEF InboxInv

\* Steps that leave cards and requests alone.
LEMMA CardsStay ==
  ASSUME InboxInv, UNCHANGED <<said, cards, visit, begun>>, proposals \subseteq proposals',
         ticks' \in 0..Horizon, ticks <= ticks', pieces' \in [Questions -> Nat],
         \A q \in Questions : pieces[q] <= pieces'[q],
         rules' \in Seq(RuleRows), Len(rules') = Len(rules),
         \A i \in DOMAIN rules :
           /\ i \in DOMAIN rules' /\ (rules[i].approved # Null => rules'[i].approved # Null)
           /\ rules'[i].revoked \in {rules[i].revoked, ticks} /\ (rules[i].revoked # Null => rules'[i].revoked = rules[i].revoked)
  PROVE  GrowsNow /\ InboxTypeOK' /\ CardsFit' /\ VisitsKnow'
<1>1. InboxTypeOK /\ VisitsKnow /\ CardsFit
  BY DEF InboxInv
<1>2. ticks \in Nat /\ ticks' \in Nat /\ Horizon \in Nat
  BY <1>1, InboxAssumption DEF InboxTypeOK
<1>3. pieces \in [Questions -> Nat] /\ said \in [Questions -> Nat] /\ cards \in Seq(CardRows) /\ rules \in Seq(RuleRows)
  BY <1>1 DEF InboxTypeOK
<1>4. GrowsNow
  BY <1>2, <1>3 DEF GrowsNow, Grown
<1>5. VisitsKnow' /\ visit' \in [Visits -> VisitRows]
  BY <1>1, <1>4, VisitsStay
<1>6. \A q \in Questions : said'[q] <= pieces'[q]
  <2> TAKE q \in Questions
  <2>1. said[q] \in Nat /\ pieces[q] \in Nat /\ pieces'[q] \in Nat /\ said[q] <= pieces[q] /\ pieces[q] <= pieces'[q]
    BY <1>1, <1>3 DEF InboxTypeOK
  <2> QED
    BY <2>1
<1>7. InboxTypeOK'
  BY <1>1, <1>5, <1>6 DEF InboxTypeOK, OpenCards
<1>8. CardsFit'
  <2> SUFFICES ASSUME NEW c \in DOMAIN cards
               PROVE  /\ cards[c].seen <= pieces'[cards[c].question]
                      /\ cards[c].answer.at <= ticks' /\ cards[c].answer.rule \in 0..Len(rules')
    BY DEF CardsFit
  <2>1. cards[c] \in CardRows
    BY <1>3, ElementOfSeq, LenProperties
  <2>2. cards[c].seen \in Nat /\ cards[c].answer.at \in Nat /\ cards[c].question \in Questions
    BY <2>1 DEF CardRows, AnswerRows
  <2>3. pieces[cards[c].question] \in Nat /\ pieces'[cards[c].question] \in Nat
    BY <1>3, <2>2
  <2>4. cards[c].seen <= pieces[cards[c].question] /\ cards[c].answer.at <= ticks /\ cards[c].answer.rule \in 0..Len(rules)
    BY <1>1 DEF CardsFit
  <2> QED
    BY <1>2, <2>2, <2>3, <2>4
<1> QED
  BY <1>4, <1>5, <1>7, <1>8

LEMMA ExtractKeeps ==
  ASSUME InboxInv, NEW q \in Questions, Extract(q)
  PROVE  InboxInv'
<1>1. /\ pieces \in [Questions -> Nat] /\ rules \in Seq(RuleRows) /\ ticks \in 0..Horizon /\ ticks \in Nat
  BY InboxAssumption DEF InboxInv, InboxTypeOK
<1>2. pieces' \in [Questions -> Nat] /\ \A p \in Questions : pieces[p] <= pieces'[p]
  BY <1>1 DEF Extract
<1>3. InboxTypeOK' /\ CardsFit' /\ VisitsKnow'
  BY <1>1, <1>2, CardsStay DEF Extract
<1>4. RulesFit'
  BY DEF InboxInv, RulesFit, Extract
<1>5. AnswersAreTheOwners'
  BY DEF InboxInv, AnswersAreTheOwners, RulesFromFreshAnswers, RulesAnswerInEffect, ResolvedIsProposed, Extract
<1> QED
  BY <1>3, <1>4, <1>5 DEF InboxInv

LEMMA TickKeeps ==
  ASSUME InboxInv, Tick
  PROVE  InboxInv'
<1>1. /\ pieces \in [Questions -> Nat] /\ rules \in Seq(RuleRows) /\ ticks \in 0..Horizon /\ ticks \in Nat
  BY InboxAssumption DEF InboxInv, InboxTypeOK
<1>2. ticks' \in 0..Horizon /\ ticks <= ticks' /\ ticks' = ticks + 1
  BY <1>1, InboxAssumption DEF Tick
<1>3. InboxTypeOK' /\ CardsFit' /\ VisitsKnow'
  BY <1>1, <1>2, CardsStay DEF Tick
<1>4. RulesFit'
  <2>1. \A i \in DOMAIN rules : rules[i].revoked # Null => rules[i].revoked <= ticks'
    <3> TAKE i \in DOMAIN rules
    <3>1. rules[i].revoked \in Nat \cup {Null}
      <4>1. rules[i] \in RuleRows
        BY <1>1, ElementOfSeq, LenProperties
      <4> QED
        BY <4>1 DEF RuleRows
    <3>2. rules[i].revoked # Null => rules[i].revoked <= ticks
      BY DEF InboxInv, RulesFit
    <3> QED
      BY <1>1, <1>2, <3>1, <3>2
  <2> QED
    BY <2>1 DEF InboxInv, RulesFit, Tick
<1>5. AnswersAreTheOwners'
  BY DEF InboxInv, AnswersAreTheOwners, RulesFromFreshAnswers, RulesAnswerInEffect, ResolvedIsProposed, Tick
<1> QED
  BY <1>3, <1>4, <1>5 DEF InboxInv

\* Approving a rule decides nothing it was not asked about before.
LEMMA ApproveRuleKeeps ==
  ASSUME InboxInv, NEW i \in DOMAIN rules, ApproveRule(i)
  PROVE  InboxInv'
<1>1. /\ pieces \in [Questions -> Nat] /\ rules \in Seq(RuleRows) /\ ticks \in 0..Horizon /\ ticks \in Nat /\ Null \notin Nat
  BY InboxAssumption DEF InboxInv, InboxTypeOK
<1>2. rules[i] \in RuleRows /\ DOMAIN rules = 1..Len(rules) /\ Len(rules) \in Nat
  BY <1>1, ElementOfSeq, LenProperties
<1> DEFINE nxt == [rules[i] EXCEPT !.status = "APPROVED", !.approved = ticks]
<1>3. nxt \in RuleRows /\ nxt.revoked = rules[i].revoked /\ nxt.choice = rules[i].choice /\ nxt.from = rules[i].from
      /\ nxt.status = "APPROVED" /\ nxt.approved = ticks
  BY <1>1, <1>2 DEF RuleRows
<1>4. rules' = [rules EXCEPT ![i] = nxt]
  BY DEF ApproveRule
<1>5. rules' \in Seq(RuleRows) /\ Len(rules') = Len(rules) /\ DOMAIN rules' = DOMAIN rules
      /\ rules'[i] = nxt /\ \A j \in DOMAIN rules \ {i} : rules'[j] = rules[j]
  <2> HIDE DEF nxt
  <2> QED
    BY <1>1, <1>2, <1>3, <1>4, ExceptSeq
<1>6. rules[i].status = "PROPOSED" /\ rules[i].revoked = Null
  BY DEF ApproveRule, InboxInv, RulesFit
<1>7. \A j \in DOMAIN rules :
        /\ rules'[j].revoked = rules[j].revoked /\ rules'[j].choice = rules[j].choice /\ rules'[j].from = rules[j].from
        /\ rules[j].approved # Null => rules'[j].approved # Null
        /\ rules[j].status = "REVOKED" <=> rules'[j].status = "REVOKED"
        /\ rules'[j].status = "APPROVED" => rules'[j].approved # Null
  <2> HIDE DEF nxt
  <2> QED
    BY <1>1, <1>3, <1>5, <1>6 DEF InboxInv, RulesFit
<1>8. InboxTypeOK' /\ CardsFit' /\ VisitsKnow'
  <2>1. \A q \in Questions : pieces[q] <= pieces'[q]
    BY <1>1 DEF ApproveRule
  <2> QED
    BY <1>1, <1>5, <1>7, <2>1, CardsStay DEF ApproveRule
<1>9. RulesFit'
  <2>1. UNCHANGED <<cards, ticks>>
    BY DEF ApproveRule
  <2>2. \A j \in DOMAIN rules : \A k \in 1..(j - 1) : k \in DOMAIN rules
    BY <1>2
  <2> QED
    BY <1>2, <1>5, <1>7, <2>1, <2>2 DEF InboxInv, RulesFit
<1>10. AnswersAreTheOwners'
  <2>1. UNCHANGED <<cards, proposals>>
    BY DEF ApproveRule
  <2>2. \A j \in DOMAIN rules : \A k \in 1..(j - 1) : k \in DOMAIN rules
    BY <1>2
  <2>3. RulesFromFreshAnswers'
    BY <1>5, <1>7, <2>1, <2>2 DEF InboxInv, AnswersAreTheOwners, RulesFromFreshAnswers
  <2>4. RulesAnswerInEffect' /\ ResolvedIsProposed'
    BY <1>5, <1>7, <2>1 DEF InboxInv, AnswersAreTheOwners, RulesAnswerInEffect, ResolvedIsProposed
  <2> QED
    BY <2>3, <2>4 DEF AnswersAreTheOwners
<1> QED
  BY <1>8, <1>9, <1>10 DEF InboxInv

\* A rule is revoked no earlier than the answers it has given.
LEMMA RevokeRuleKeeps ==
  ASSUME InboxInv, NEW i \in DOMAIN rules, RevokeRule(i)
  PROVE  InboxInv'
<1>1. /\ pieces \in [Questions -> Nat] /\ rules \in Seq(RuleRows) /\ ticks \in 0..Horizon /\ ticks \in Nat /\ Null \notin Nat
      /\ cards \in Seq(CardRows)
  BY InboxAssumption DEF InboxInv, InboxTypeOK
<1>2. rules[i] \in RuleRows /\ DOMAIN rules = 1..Len(rules) /\ Len(rules) \in Nat
  BY <1>1, ElementOfSeq, LenProperties
<1> DEFINE nxt == [rules[i] EXCEPT !.status = "REVOKED", !.revoked = ticks]
<1>3. nxt \in RuleRows /\ nxt.approved = rules[i].approved /\ nxt.choice = rules[i].choice /\ nxt.from = rules[i].from
      /\ nxt.status = "REVOKED" /\ nxt.revoked = ticks
  BY <1>1, <1>2 DEF RuleRows
<1>4. rules' = [rules EXCEPT ![i] = nxt]
  BY DEF RevokeRule
<1>5. rules' \in Seq(RuleRows) /\ Len(rules') = Len(rules) /\ DOMAIN rules' = DOMAIN rules
      /\ rules'[i] = nxt /\ \A j \in DOMAIN rules \ {i} : rules'[j] = rules[j]
  <2> HIDE DEF nxt
  <2> QED
    BY <1>1, <1>2, <1>3, <1>4, ExceptSeq
<1>6. rules[i].status # "REVOKED" /\ rules[i].revoked = Null
  BY DEF RevokeRule, InboxInv, RulesFit
<1>7. \A j \in DOMAIN rules :
        /\ rules'[j].approved = rules[j].approved /\ rules'[j].choice = rules[j].choice /\ rules'[j].from = rules[j].from
        /\ rules'[j].revoked \in {rules[j].revoked, ticks} /\ (rules[j].revoked # Null => rules'[j].revoked = rules[j].revoked)
        /\ rules[j].status = "REVOKED" => rules'[j] = rules[j]
        /\ rules'[j].status = "APPROVED" => rules[j].status = "APPROVED"
        /\ rules'[j].status = "REVOKED" <=> rules'[j].revoked # Null
        /\ rules'[j].revoked # Null => rules'[j].revoked <= ticks
  <2> HIDE DEF nxt
  <2> QED
    BY <1>1, <1>3, <1>5, <1>6 DEF InboxInv, RulesFit
<1>8. InboxTypeOK' /\ CardsFit' /\ VisitsKnow'
  <2>1. \A q \in Questions : pieces[q] <= pieces'[q]
    BY <1>1 DEF RevokeRule
  <2> QED
    BY <1>1, <1>5, <1>7, <2>1, CardsStay DEF RevokeRule
<1>0. UNCHANGED <<cards, ticks, proposals>>
  BY DEF RevokeRule
<1>00. \A j \in DOMAIN rules : \A k \in 1..(j - 1) : k \in DOMAIN rules
  BY <1>2
<1>9. RulesFit'
  BY <1>0, <1>00, <1>5, <1>7 DEF InboxInv, RulesFit
<1>10. RulesFromFreshAnswers'
  <2>1. \A j \in DOMAIN rules : \A k \in 1..(j - 1) :
          rules[k].choice = rules[j].choice => rules'[k] = rules[k]
    BY <1>00, <1>7 DEF InboxInv, RulesFit
  <2> QED
    BY <1>0, <1>00, <1>5, <1>7, <2>1 DEF InboxInv, AnswersAreTheOwners, RulesFromFreshAnswers
<1>11. RulesAnswerInEffect'
  <2> SUFFICES ASSUME NEW c \in DOMAIN cards, NEW j \in DOMAIN rules, cards[c].answer.rule = j
               PROVE  rules'[j].approved # Null /\ (rules'[j].revoked # Null => cards[c].answer.at <= rules'[j].revoked)
    BY <1>0, <1>5 DEF RulesAnswerInEffect
  <2>1. rules[j].approved # Null /\ (rules[j].revoked # Null => cards[c].answer.at <= rules[j].revoked)
    BY DEF InboxInv, AnswersAreTheOwners, RulesAnswerInEffect
  <2>2. cards[c].answer.at <= ticks
    BY DEF InboxInv, CardsFit
  <2> QED
    BY <1>7, <2>1, <2>2
<1>12. ResolvedIsProposed'
  BY <1>0 DEF InboxInv, AnswersAreTheOwners, ResolvedIsProposed
<1> QED
  BY <1>8, <1>9, <1>10, <1>11, <1>12 DEF InboxInv, AnswersAreTheOwners

\* The next card for a rule's answer is one of them, and it is answered with the rule's
\* choice up to where the packet had it.
AppliedTo(mine, c) ==
  [mine EXCEPT !.at = "writing", !.apply = @ \ {c}, !.card = c,
     !.upTo = mine.seen[Composed(mine)[c].question], !.choice = rules[mine.rule].choice]

LEMMA ApplyingOne ==
  ASSUME cards \in Seq(CardRows), rules \in Seq(RuleRows), NEW mine \in VisitRows,
         mine.apply # {}, mine.apply \subseteq DOMAIN Composed(mine), mine.rule \in DOMAIN rules
  PROVE  /\ Applying(mine) \in VisitRows
         /\ \E c \in mine.apply : Applying(mine) = AppliedTo(mine, c)
<1> DEFINE asked(c) == Composed(mine)[c].question
           T == {asked(c) : c \in mine.apply}
           first == CHOOSE d \in mine.apply : \A e \in mine.apply : Composed(mine)[d].question <= Composed(mine)[e].question
<1>1. \A c \in DOMAIN Composed(mine) : c \in Nat /\ asked(c) \in Questions
  <2>1. Composed(mine) \in Seq(CardRows)
    BY CardsComposed
  <2>2. \A c \in DOMAIN Composed(mine) : c \in Nat /\ Composed(mine)[c] \in CardRows
    BY <2>1, ElementOfSeq, LenProperties
  <2> QED
    BY <2>2 DEF CardRows
<1>2. T \subseteq Nat /\ IsFiniteSet(T) /\ T # {}
  <2>1. T \in SUBSET Questions /\ T # {}
    BY <1>1
  <2> QED
    BY <2>1, InboxAssumption, FS_Subset
<1>3. \E d \in mine.apply : \A e \in mine.apply : asked(d) <= asked(e)
  <2>1. PICK x \in T : \A y \in T : x <= y
    <3> HIDE DEF T
    <3> QED
      BY <1>2, HasLeast
  <2>2. PICK d \in mine.apply : x = asked(d)
    BY <2>1
  <2> QED
    BY <2>1, <2>2
<1>4. first \in mine.apply
  BY <1>3
<1>5. Applying(mine) = AppliedTo(mine, first)
  BY DEF Applying, AppliedTo
<1> HIDE DEF first
<1>6. rules[mine.rule].choice \in Options
  <2>1. rules[mine.rule] \in RuleRows
    BY ElementOfSeq, LenProperties
  <2> QED
    BY <2>1 DEF RuleRows
<1>7. first \in Nat /\ mine.seen[asked(first)] \in Nat
  BY <1>1, <1>4 DEF VisitRows
<1>8. AppliedTo(mine, first) \in VisitRows
  <2> DEFINE upTo == mine.seen[asked(first)]
             choice == rules[mine.rule].choice
  <2>1. AppliedTo(mine, first) =
          [mine EXCEPT !.at = "writing", !.apply = @ \ {first}, !.card = first, !.upTo = upTo, !.choice = choice]
    BY DEF AppliedTo
  <2> HIDE DEF upTo, choice
  <2>2. upTo \in Nat /\ choice \in Options
    BY <1>6, <1>7 DEF upTo, choice
  <2> QED
    BY <1>7, <2>1, <2>2 DEF VisitRows
<1> QED
  BY <1>4, <1>5, <1>8

\* What a rule's answer carries is warranted: by the cards there are now, and by the rule.
LEMMA ApplyingWarranted ==
  ASSUME NEW mine \in VisitRows, cards \in Seq(CardRows), rules \in Seq(RuleRows), mine.apply # {},
         mine.apply \subseteq DOMAIN Composed(mine),
         NEW now, NEW have \in [Questions -> Nat], NEW deck, NEW made,
         mine.now <= now, \A q \in Questions : mine.seen[q] <= have[q],
         \A c \in mine.apply : c \in DOMAIN deck /\ deck[c].question = Composed(mine)[c].question,
         mine.rule # 0, mine.rule \in DOMAIN rules, rules[mine.rule].approved # Null,
         rules[mine.rule].revoked # Null => mine.now <= rules[mine.rule].revoked
  PROVE  Warranted(Applying(mine), now, have, deck, rules, made)
<1>1. PICK c \in mine.apply : Applying(mine) = AppliedTo(mine, c)
  BY ApplyingOne
<1> DEFINE q == Composed(mine)[c].question
           next == Applying(mine)
<1>2. /\ next.at = "writing" /\ next.now = mine.now /\ next.seen = mine.seen /\ next.card = c
      /\ next.apply = mine.apply \ {c} /\ next.upTo = mine.seen[q] /\ next.rule = mine.rule
  BY <1>1 DEF AppliedTo, VisitRows
<1>3. q \in Questions
  <2>1. Composed(mine)[c] \in CardRows
    BY CardsComposed, ElementOfSeq, LenProperties
  <2> QED
    BY <2>1 DEF CardRows
<1> HIDE DEF next, q
<1>4. Warranted(next, now, have, deck, rules, made)
  BY <1>2, <1>3 DEF Warranted, q
<1> QED
  BY <1>4 DEF next

\* The cards after a reading: those there were, with their questions and answers; one that
\* is settled as it was, and none newly resolved; one open card for each question.
LEMMA CardsEvaluated ==
  ASSUME InboxInv, NEW mine \in VisitRows, \A q \in Questions : mine.seen[q] <= pieces[q],
         NEW deck, deck = [c \in DOMAIN Composed(mine) |-> Decided(mine, c)]
  PROVE  /\ deck \in Seq(CardRows) /\ DOMAIN deck = DOMAIN Composed(mine)
         /\ \A c \in DOMAIN cards :
              /\ c \in DOMAIN deck /\ deck[c].question = cards[c].question /\ deck[c].answer = cards[c].answer
              /\ IF cards[c].status \in Settled THEN deck[c] = cards[c] ELSE deck[c].status # "RESOLVED"
         /\ \A c \in DOMAIN deck \ DOMAIN cards : deck[c].answer = NoAnswer /\ deck[c].status \notin Settled
         /\ \A c \in DOMAIN deck : deck[c].question = Composed(mine)[c].question /\ deck[c].seen <= pieces[deck[c].question]
         /\ \A c, d \in DOMAIN deck :
              deck[c].question = deck[d].question /\ deck[c].status \notin Settled /\ deck[d].status \notin Settled => c = d
<1> DEFINE all == Composed(mine)
           n == Cardinality(Fresh(mine))
<1>1. /\ cards \in Seq(CardRows) /\ Len(cards) \in Nat /\ DOMAIN cards = 1..Len(cards)
      /\ \A c \in DOMAIN cards : cards[c] \in CardRows
  BY ElementOfSeq, LenProperties DEF InboxInv, InboxTypeOK
<1>2. /\ all \in Seq(CardRows) /\ Len(all) \in Nat /\ DOMAIN all = 1..Len(all)
      /\ \A c \in DOMAIN all : all[c] \in CardRows
  <2>1. all \in Seq(CardRows)
    BY <1>1, CardsComposed
  <2> HIDE DEF all
  <2> QED
    BY <2>1, ElementOfSeq, LenProperties
<1>3. \A c \in DOMAIN cards : c \in DOMAIN all /\ all[c] = RefreshedCard(mine, cards[c])
  BY <1>1, CardsComposed
<1>4. \A c \in DOMAIN all \ DOMAIN cards :
        c - Len(cards) \in 1..n /\ all[c] = NewCard(mine, Nth(mine, c - Len(cards)))
  BY <1>1, CardsComposed
<1>5. \A c \in DOMAIN deck :
        /\ deck[c] \in CardRows /\ deck[c].question = all[c].question /\ deck[c].answer = all[c].answer
        /\ deck[c].seen = all[c].seen
        /\ IF all[c].status \in Settled THEN deck[c] = all[c] ELSE deck[c].status \notin Settled
  <2> TAKE c \in DOMAIN deck
  <2>1. deck[c] = Decided(mine, c) /\ all[c] \in CardRows
    BY <1>2
  <2> QED
    BY <2>1, DecisionKeeps
<1>6. deck \in Seq(CardRows) /\ DOMAIN deck = DOMAIN all
  <2>1. deck \in [1..Len(all) -> CardRows]
    BY <1>2, <1>5
  <2> QED
    BY <1>2, <2>1, IsASeq
<1>7. ASSUME NEW c \in DOMAIN cards
      PROVE  /\ c \in DOMAIN deck /\ deck[c].question = cards[c].question /\ deck[c].answer = cards[c].answer
             /\ IF cards[c].status \in Settled THEN deck[c] = cards[c] ELSE deck[c].status # "RESOLVED"
             /\ deck[c].status \notin Settled => cards[c].status \notin Settled
             /\ deck[c].seen \in {cards[c].seen, mine.seen[cards[c].question]}
  <2> DEFINE nxt == RefreshedCard(mine, cards[c])
  <2>1. cards[c] \in CardRows /\ c \in DOMAIN deck /\ all[c] = nxt
    BY <1>1, <1>3, <1>6
  <2>2. /\ nxt.question = cards[c].question /\ nxt.answer = cards[c].answer
        /\ nxt.status = IF cards[c].status \in Settled \/ cards[c].question \in mine.shows THEN cards[c].status ELSE "CLEARED"
        /\ cards[c].status \in Settled => nxt = cards[c]
        /\ nxt.seen \in {cards[c].seen, mine.seen[cards[c].question]}
    BY <2>1, RefreshKeeps
  <2> HIDE DEF nxt, all
  <2>3. "CLEARED" \in Settled /\ "RESOLVED" \in Settled /\ "CLEARED" # "RESOLVED"
    BY DEF Settled
  <2> QED
    BY <1>5, <2>1, <2>2, <2>3
<1>8. ASSUME NEW c \in DOMAIN deck \ DOMAIN cards
      PROVE  /\ deck[c].answer = NoAnswer /\ deck[c].status \notin Settled
             /\ c - Len(cards) \in 1..n /\ deck[c].question = Nth(mine, c - Len(cards))
             /\ deck[c].question \in Fresh(mine) /\ deck[c].seen = mine.seen[deck[c].question]
  <2>1. c - Len(cards) \in 1..n /\ all[c] = NewCard(mine, Nth(mine, c - Len(cards)))
    BY <1>4, <1>6
  <2> DEFINE q == Nth(mine, c - Len(cards))
  <2>2. q \in Fresh(mine) /\ q \in Questions
    BY <2>1, NewQuestions
  <2>3. /\ all[c].question = q /\ all[c].status = "OPEN" /\ all[c].answer = NoAnswer /\ all[c].seen = mine.seen[q]
    BY <2>1, <2>2, NewCardType
  <2>4. "OPEN" \notin Settled
    BY DEF Settled
  <2> HIDE DEF q, all
  <2> QED
    BY <1>5, <2>1, <2>2, <2>3, <2>4 DEF q
<1>9. \A c \in DOMAIN deck : deck[c].seen <= pieces[deck[c].question]
  <2> TAKE c \in DOMAIN deck
  <2>1. CASE c \in DOMAIN cards
    <3>1. cards[c].question \in Questions /\ cards[c].seen <= pieces[cards[c].question]
      BY <1>1, <2>1 DEF CardRows, InboxInv, CardsFit
    <3> QED
      BY <1>7, <2>1, <3>1
  <2>2. CASE c \notin DOMAIN cards
    BY <1>8, <2>2, NewQuestions
  <2> QED
    BY <2>1, <2>2
<1>10. ASSUME NEW c \in DOMAIN deck, NEW d \in DOMAIN deck,
              deck[c].question = deck[d].question, deck[c].status \notin Settled, deck[d].status \notin Settled
       PROVE  c = d
  <2>1. CASE c \in DOMAIN cards /\ d \in DOMAIN cards
    <3>1. c \in OpenCards(cards[c].question) /\ d \in OpenCards(cards[c].question) /\ cards[c].question \in Questions
      BY <1>1, <1>7, <1>10, <2>1 DEF OpenCards, CardRows
    <3> QED
      BY <3>1 DEF InboxInv, InboxTypeOK
  <2>2. ASSUME NEW a \in DOMAIN deck, NEW b \in DOMAIN deck, a \in DOMAIN cards, b \notin DOMAIN cards,
               deck[a].question = deck[b].question, deck[a].status \notin Settled
        PROVE  FALSE
    <3>1. a \in OpenCards(deck[b].question)
      BY <1>7, <2>2 DEF OpenCards
    <3>2. deck[b].question \in Fresh(mine)
      BY <1>8, <2>2
    <3> QED
      BY <3>1, <3>2 DEF Fresh
  <2>3. CASE c \notin DOMAIN cards /\ d \notin DOMAIN cards
    <3>1. c - Len(cards) = d - Len(cards)
      BY <1>8, <1>10, <2>3, NewQuestions
    <3>2. c \in Nat /\ d \in Nat
      BY <1>2, <1>6
    <3> QED
      BY <1>1, <3>1, <3>2
  <2> QED
    BY <1>10, <2>1, <2>2, <2>3
<1>11. \A c \in DOMAIN deck : deck[c].question = Composed(mine)[c].question
  BY <1>5
<1>12. deck \in Seq(CardRows) /\ DOMAIN deck = DOMAIN Composed(mine)
  BY <1>6
<1> HIDE DEF all, n
<1>13. \A c \in DOMAIN cards :
         /\ c \in DOMAIN deck /\ deck[c].question = cards[c].question /\ deck[c].answer = cards[c].answer
         /\ IF cards[c].status \in Settled THEN deck[c] = cards[c] ELSE deck[c].status # "RESOLVED"
  BY <1>7
<1>14. \A c \in DOMAIN deck \ DOMAIN cards : deck[c].answer = NoAnswer /\ deck[c].status \notin Settled
  BY <1>8
<1>15. \A c \in DOMAIN deck : deck[c].question = Composed(mine)[c].question /\ deck[c].seen <= pieces[deck[c].question]
  BY <1>9, <1>11
<1>16. \A c, d \in DOMAIN deck :
         deck[c].question = deck[d].question /\ deck[c].status \notin Settled /\ deck[d].status \notin Settled => c = d
  BY <1>10
<1> QED
  BY <1>12, <1>13, <1>14, <1>15, <1>16

\* A reading answers no card: what was answered stays so, and what a card shows there is.
LEMMA EvaluateKeeps ==
  ASSUME InboxInv, NEW r \in Visits, Evaluate(r)
  PROVE  InboxInv'
<1> DEFINE mine == visit[r]
           all == Composed(mine)
<1>1. /\ InboxTypeOK /\ VisitsKnow /\ mine \in VisitRows /\ cards \in Seq(CardRows) /\ rules \in Seq(RuleRows)
      /\ pieces \in [Questions -> Nat] /\ proposals = proposals'
  BY DEF InboxInv, InboxTypeOK, Evaluate
<1>2. UNCHANGED <<ticks, pieces, said, rules, proposals, begun>>
  BY DEF Evaluate
<1>3. mine.now <= ticks /\ \A q \in Questions : mine.seen[q] <= pieces[q]
  BY <1>1 DEF VisitsKnow, VisitKnows
<1>4. cards' = [c \in DOMAIN all |-> Decided(mine, c)]
  BY DEF Evaluate
<1>5. /\ cards' \in Seq(CardRows) /\ DOMAIN cards' = DOMAIN all
      /\ \A c \in DOMAIN cards :
           /\ c \in DOMAIN cards' /\ cards'[c].question = cards[c].question /\ cards'[c].answer = cards[c].answer
           /\ IF cards[c].status \in Settled THEN cards'[c] = cards[c] ELSE cards'[c].status # "RESOLVED"
      /\ \A c \in DOMAIN cards' \ DOMAIN cards : cards'[c].answer = NoAnswer /\ cards'[c].status \notin Settled
      /\ \A c \in DOMAIN cards' : cards'[c].question = all[c].question /\ cards'[c].seen <= pieces[cards'[c].question]
      /\ \A c, d \in DOMAIN cards' :
           cards'[c].question = cards'[d].question /\ cards'[c].status \notin Settled /\ cards'[d].status \notin Settled => c = d
  BY <1>1, <1>3, <1>4, CardsEvaluated
<1> HIDE DEF mine, all
<1>6. GrowsNow
  BY <1>1, <1>2, <1>5, InboxAssumption DEF InboxTypeOK, GrowsNow, Grown
<1>7. \E record : /\ visit' = [visit EXCEPT ![r] = record] /\ record \in VisitRows
                  /\ Warranted(record, ticks', pieces', cards', rules', proposals')
  <2> DEFINE answered == IF RulesFor = {} THEN {} ELSE {c \in DOMAIN all : Due(mine, c)}
  <2>1. PICK i \in IF answered = {} THEN {0} ELSE RulesFor :
          visit' = [visit EXCEPT ![r] =
                      IF answered = {} THEN Nothing ELSE Applying([mine EXCEPT !.apply = answered, !.rule = i])]
    BY DEF Evaluate, To, mine, all
  <2>2. CASE answered = {}
    <3>1. Nothing \in VisitRows /\ Warranted(Nothing, ticks', pieces', cards', rules', proposals')
      BY <1>1, <1>2 DEF Nothing, VisitRows, Options, Warranted, InboxTypeOK
    <3> QED
      BY <2>1, <2>2, <3>1
  <2>3. CASE answered # {}
    <3> DEFINE record == [mine EXCEPT !.apply = answered, !.rule = i]
    <3>1. i \in RulesFor /\ i \in DOMAIN rules /\ i \in Nat /\ i # 0
      <4>1. i \in RulesFor /\ i \in DOMAIN rules
        BY <2>1, <2>3 DEF RulesFor
      <4> QED
        BY <1>1, <4>1, LenProperties
    <3>2. rules[i].approved # Null /\ rules[i].revoked = Null
      BY <3>1 DEF RulesFor, InEffect, InboxInv, RulesFit
    <3>3. answered \subseteq DOMAIN all /\ answered \subseteq Nat
      <4>1. DOMAIN all \subseteq Nat
        BY <1>5, LenProperties
      <4> QED
        BY <4>1
    <3> HIDE DEF answered
    <3>4. /\ record \in VisitRows /\ record.apply = answered /\ record.rule = i /\ record.now = mine.now
          /\ record.seen = mine.seen /\ record.shows = mine.shows
      BY <1>1, <3>1, <3>3 DEF VisitRows
    <3> HIDE DEF record
    <3>5. Composed(record) = all
      BY <3>4 DEF all, Composed, Refreshed, Fresh, NewCard
    <3>6. Applying(record) \in VisitRows
      BY <1>1, <2>3, <3>1, <3>3, <3>4, <3>5, ApplyingOne
    <3>7. Warranted(Applying(record), ticks', pieces', cards', rules', proposals')
      <4>1. Warranted(Applying(record), ticks, pieces, cards', rules, proposals)
        BY <1>1, <1>3, <1>5, <2>3, <3>1, <3>2, <3>3, <3>4, <3>5, ApplyingWarranted
      <4> QED
        BY <1>2, <4>1
    <3> QED
      BY <2>1, <2>3, <3>6, <3>7 DEF record
  <2> QED
    BY <2>2, <2>3
<1>8. VisitsKnow' /\ visit' \in [Visits -> VisitRows]
  BY <1>1, <1>6, <1>7, VisitMoves
<1>9. \A c \in DOMAIN cards' :
        cards'[c].status = "RESOLVED" <=> cards'[c].answer.by # "NOBODY" /\ cards'[c].answer.choice # "keep"
  <2> TAKE c \in DOMAIN cards'
  <2>1. "RESOLVED" \in Settled
    BY DEF Settled
  <2>2. CASE c \in DOMAIN cards
    BY <1>1, <1>5, <2>1, <2>2 DEF InboxTypeOK
  <2>3. CASE c \notin DOMAIN cards
    BY <1>5, <2>1, <2>3 DEF NoAnswer
  <2> QED
    BY <2>2, <2>3
<1>10. InboxTypeOK'
  BY <1>1, <1>2, <1>5, <1>8, <1>9 DEF InboxTypeOK, OpenCards
<1>11. CardsFit'
  <2> SUFFICES ASSUME NEW c \in DOMAIN cards'
               PROVE  /\ cards'[c].seen <= pieces[cards'[c].question]
                      /\ cards'[c].answer.at <= ticks /\ cards'[c].answer.rule \in 0..Len(rules)
    BY <1>2 DEF CardsFit
  <2>1. CASE c \in DOMAIN cards
    BY <1>5, <2>1 DEF InboxInv, CardsFit
  <2>2. CASE c \notin DOMAIN cards
    <3>1. ticks \in Nat /\ Len(rules) \in Nat
      BY <1>1, LenProperties, InboxAssumption DEF InboxTypeOK
    <3> QED
      BY <1>5, <2>2, <3>1 DEF NoAnswer
  <2> QED
    BY <2>1, <2>2
<1>12. RulesFit'
  <2>1. DOMAIN cards \subseteq DOMAIN cards'
    BY <1>5
  <2> QED
    BY <1>2, <2>1 DEF InboxInv, RulesFit
<1>13. RulesFromFreshAnswers'
  <2>1. \A i \in DOMAIN rules : rules[i].from \subseteq DOMAIN cards
    BY DEF InboxInv, RulesFit
  <2> QED
    BY <1>2, <1>5, <2>1 DEF InboxInv, AnswersAreTheOwners, RulesFromFreshAnswers
<1>14. RulesAnswerInEffect'
  <2>1. 0 \notin DOMAIN rules
    BY <1>1, LenProperties
  <2> QED
    BY <1>2, <1>5, <2>1 DEF InboxInv, AnswersAreTheOwners, RulesAnswerInEffect, NoAnswer
<1>15. ResolvedIsProposed'
  <2> SUFFICES ASSUME NEW c \in DOMAIN cards', cards'[c].status = "RESOLVED"
               PROVE  [card |-> c, choice |-> cards'[c].answer.choice, rule |-> cards'[c].answer.rule] \in proposals
    BY <1>2 DEF ResolvedIsProposed
  <2>1. c \in DOMAIN cards /\ cards'[c] = cards[c]
    BY <1>5 DEF Settled
  <2> QED
    BY <2>1 DEF InboxInv, AnswersAreTheOwners, ResolvedIsProposed
<1> QED
  BY <1>8, <1>10, <1>11, <1>12, <1>13, <1>14, <1>15 DEF InboxInv, AnswersAreTheOwners

\* A rule is learned behind the revocation of every earlier one of its kind, and from
\* answers that are later than those.
LEMMA RuleLearned ==
  ASSUME InboxInv, NEW mine \in VisitRows, NEW then \in Seq(CardRows)
  PROVE  LET law == Learned(mine, then)
         IN  /\ law \in Seq(RuleRows) /\ Len(law) \in Nat /\ Len(rules) <= Len(law)
             /\ \A i \in DOMAIN rules : i \in DOMAIN law /\ law[i] = rules[i]
             /\ \A i \in DOMAIN law \ DOMAIN rules :
                  /\ i = Len(rules) + 1 /\ law[i].status = "PROPOSED" /\ law[i].revoked = Null
                  /\ law[i].from \subseteq DOMAIN then /\ Cardinality(law[i].from) >= 2
                  /\ \A c \in law[i].from : then[c].answer.by = "OWNER" /\ then[c].answer.choice = law[i].choice
                  /\ \A j \in DOMAIN rules : rules[j].choice = law[i].choice =>
                       rules[j].status = "REVOKED" /\ \A c \in law[i].from : rules[j].revoked < then[c].answer.at
<1> DEFINE choice == mine.choice
           from == Eligible(then, choice)
           nxt == [choice |-> choice, status |-> "PROPOSED", from |-> from, approved |-> Null, revoked |-> Null]
           learns == choice # "keep" /\ ~Live(choice) /\ Cardinality(from) >= 2
<1>1. rules \in Seq(RuleRows) /\ Len(rules) \in Nat /\ DOMAIN rules = 1..Len(rules)
  BY LenProperties DEF InboxInv, InboxTypeOK
<1>2. CASE ~learns
  <2>1. Learned(mine, then) = rules
    BY <1>2 DEF Learned
  <2> QED
    BY <1>1, <2>1
<1>3. CASE learns
  <2>1. Learned(mine, then) = Append(rules, nxt)
    BY <1>3 DEF Learned
  <2>2. from \subseteq DOMAIN then /\ from \subseteq Nat
    <3>1. DOMAIN then \subseteq Nat
      BY LenProperties
    <3> QED
      BY <3>1 DEF Eligible, Repeated
  <2>3. nxt \in RuleRows
    <3>1. choice \in Options
      BY DEF VisitRows
    <3> HIDE DEF from, choice
    <3>2. choice \in Options \ {"keep"}
      BY <1>3, <3>1
    <3> QED
      BY <2>2, <3>2 DEF RuleRows
  <2> DEFINE law == Append(rules, nxt)
             i == Len(rules) + 1
  <2>4. law \in Seq(RuleRows) /\ Len(law) = i /\ law[i] = nxt /\ \A j \in DOMAIN rules : law[j] = rules[j]
    <3> HIDE DEF nxt
    <3> QED
      BY <1>1, <2>3, AppendProperties
  <2>5. DOMAIN law = 1..i
    <3> HIDE DEF law, i
    <3> QED
      BY <2>4, LenProperties
  <2>6. /\ nxt.status = "PROPOSED" /\ nxt.revoked = Null /\ nxt.from = from /\ nxt.choice = choice
        /\ Cardinality(from) >= 2
        /\ \A c \in from : then[c].answer.by = "OWNER" /\ then[c].answer.choice = choice
    BY <1>3 DEF Eligible, Repeated
  <2>7. ASSUME NEW j \in DOMAIN rules, rules[j].choice = choice
        PROVE  rules[j].status = "REVOKED" /\ \A c \in from : rules[j].revoked < then[c].answer.at
    <3>1. rules[j].status = "REVOKED"
      BY <1>3, <2>7 DEF Live
    <3>2. rules[j].revoked \in Nat
      <4>1. rules[j] \in RuleRows /\ rules[j].revoked # Null
        BY <1>1, <3>1, ElementOfSeq DEF InboxInv, RulesFit
      <4> QED
        BY <4>1 DEF RuleRows
    <3>3. ASSUME NEW c \in from PROVE rules[j].revoked < then[c].answer.at
      <4>1. c \in DOMAIN then /\ then[c].answer.at > rules[j].revoked
        BY <2>7, <3>1 DEF Eligible, Repeated
      <4>2. then[c] \in CardRows
        BY <4>1, ElementOfSeq, LenProperties
      <4>3. then[c].answer.at \in Nat
        BY <4>2 DEF CardRows, AnswerRows
      <4> QED
        BY <3>2, <4>1, <4>3
    <3> QED
      BY <3>1, <3>3
  <2>8. DOMAIN law \ DOMAIN rules = {i} /\ Len(law) \in Nat /\ Len(rules) <= Len(law) /\ DOMAIN rules \subseteq DOMAIN law
    BY <1>1, <2>4, <2>5
  <2> HIDE DEF law, i, nxt, from, choice
  <2>9. Learned(mine, then) = law
    BY <2>1 DEF law
  <2> QED
    BY <2>2, <2>4, <2>6, <2>7, <2>8, <2>9 DEF i
<1> QED
  BY <1>2, <1>3

\* What answering a card makes of it.
LEMMA CardAnswered ==
  ASSUME InboxInv, NEW mine \in VisitRows, mine.card \in DOMAIN cards, cards[mine.card].status \notin Settled
  PROVE  LET nxt == Answered(mine)[mine.card]
             keep == mine.choice = "keep"
         IN  /\ Answered(mine) \in Seq(CardRows) /\ DOMAIN Answered(mine) = DOMAIN cards
             /\ \A c \in DOMAIN cards \ {mine.card} : Answered(mine)[c] = cards[c]
             /\ nxt.question = cards[mine.card].question /\ nxt.seen = cards[mine.card].seen
             /\ nxt.status = IF keep THEN "SUPPRESSED" ELSE "RESOLVED"
             /\ nxt.answer.by \in {"OWNER", "LEARNED_RULE"} /\ nxt.answer.choice = mine.choice
             /\ nxt.answer.at = mine.now /\ nxt.answer.rule = mine.rule
<1> DEFINE card == cards[mine.card]
           keep == mine.choice = "keep"
           answer == [by |-> IF mine.rule = 0 THEN "OWNER" ELSE "LEARNED_RULE",
                      choice |-> mine.choice, at |-> mine.now, rule |-> mine.rule]
           status == IF keep THEN "SUPPRESSED" ELSE "RESOLVED"
           until == IF keep THEN mine.now + Window ELSE card.until
           nxt == [card EXCEPT !.status = status, !.until = until, !.known = card.seen, !.answer = answer]
<1>1. cards \in Seq(CardRows) /\ card \in CardRows /\ DOMAIN cards = 1..Len(cards)
  BY ElementOfSeq, LenProperties DEF InboxInv, InboxTypeOK
<1>2. answer \in AnswerRows
  BY DEF VisitRows, AnswerRows
<1>3. status \in Statuses /\ until \in Nat \cup {Null} /\ card.seen \in Nat
  <2>0. mine.now \in Nat /\ Window \in Nat
    BY InboxAssumption DEF VisitRows
  <2>1. mine.now + Window \in Nat /\ card.until \in Nat \cup {Null} /\ card.seen \in Nat
    BY <1>1, <2>0 DEF CardRows
  <2>2. {"SUPPRESSED", "RESOLVED"} \subseteq Statuses
    BY DEF Statuses, Settled
  <2> QED
    BY <2>1, <2>2
<1>4. Answered(mine) = [cards EXCEPT ![mine.card] = nxt]
  BY DEF Answered
<1>5. answer.by \in {"OWNER", "LEARNED_RULE"} /\ answer.choice = mine.choice /\ answer.at = mine.now /\ answer.rule = mine.rule
  OBVIOUS
<1> HIDE DEF answer, status, until
<1>6. /\ nxt \in CardRows /\ nxt.question = card.question /\ nxt.seen = card.seen /\ nxt.status = status
      /\ nxt.answer = answer
  BY <1>1, <1>2, <1>3 DEF CardRows
<1> HIDE DEF nxt
<1>7. /\ Answered(mine) \in Seq(CardRows) /\ Len(Answered(mine)) = Len(cards)
      /\ \A c \in DOMAIN cards : Answered(mine)[c] = IF c = mine.card THEN nxt ELSE cards[c]
  BY <1>1, <1>4, <1>6, ExceptSeq
<1>8. DOMAIN Answered(mine) = DOMAIN cards
  BY <1>1, <1>7, LenProperties
<1>9. Answered(mine)[mine.card] = nxt
  BY <1>7
<1> QED
  BY <1>5, <1>6, <1>7, <1>8, <1>9 DEF status, keep, card

\* The answer on a card is the owner's, or a rule's that was in effect when its reading
\* began; and what the owner has answered before is not answered again.
LEMMA RecordAnswerKeeps ==
  ASSUME InboxInv, NEW r \in Visits, RecordAnswer(r)
  PROVE  InboxInv'
<1> DEFINE mine == visit[r]
           then == Answered(mine)
           card == mine.card
<1>1. /\ InboxTypeOK /\ VisitsKnow /\ mine \in VisitRows /\ cards \in Seq(CardRows) /\ rules \in Seq(RuleRows)
      /\ pieces \in [Questions -> Nat]
  BY DEF InboxInv, InboxTypeOK
<1>2. UNCHANGED <<ticks, pieces, said, proposals, begun>> /\ cards' = then
  BY DEF RecordAnswer
<1>3. mine.at = "proposed" /\ cards[card].status \notin Settled
  BY DEF RecordAnswer, Recordable
<1>4. Warranted(mine, ticks, pieces, cards, rules, proposals)
  BY <1>1, VisitWarranted DEF VisitsKnow
<1>5. card \in DOMAIN cards /\ mine.apply \subseteq DOMAIN cards
  BY <1>3, <1>4 DEF Warranted
<1>6. /\ then \in Seq(CardRows) /\ DOMAIN then = DOMAIN cards /\ \A c \in DOMAIN cards \ {card} : then[c] = cards[c]
      /\ then[card].question = cards[card].question /\ then[card].seen = cards[card].seen
      /\ then[card].status = IF mine.choice = "keep" THEN "SUPPRESSED" ELSE "RESOLVED"
      /\ then[card].answer.by \in {"OWNER", "LEARNED_RULE"} /\ then[card].answer.choice = mine.choice
      /\ then[card].answer.at = mine.now /\ then[card].answer.rule = mine.rule
  BY <1>1, <1>3, <1>5, CardAnswered
<1>7. rules' = IF mine.rule = 0 THEN Learned(mine, then) ELSE rules
  BY DEF RecordAnswer
<1> HIDE DEF then
<1>8. /\ rules' \in Seq(RuleRows) /\ Len(rules') \in Nat /\ Len(rules) \in Nat /\ Len(rules) <= Len(rules')
      /\ DOMAIN rules = 1..Len(rules) /\ DOMAIN rules' = 1..Len(rules')
      /\ \A i \in DOMAIN rules : i \in DOMAIN rules' /\ rules'[i] = rules[i]
      /\ \A i \in DOMAIN rules' \ DOMAIN rules :
           /\ i = Len(rules) + 1 /\ rules'[i].status = "PROPOSED" /\ rules'[i].revoked = Null
           /\ rules'[i].from \subseteq DOMAIN then /\ Cardinality(rules'[i].from) >= 2
           /\ \A c \in rules'[i].from : then[c].answer.by = "OWNER" /\ then[c].answer.choice = rules'[i].choice
           /\ \A j \in DOMAIN rules : rules[j].choice = rules'[i].choice =>
                rules[j].status = "REVOKED" /\ \A c \in rules'[i].from : rules[j].revoked < then[c].answer.at
  <2>1. Len(rules) \in Nat /\ DOMAIN rules = 1..Len(rules)
    BY <1>1, LenProperties
  <2>2. CASE mine.rule = 0
    <3> DEFINE law == Learned(mine, then)
    <3>1. /\ law \in Seq(RuleRows) /\ Len(law) \in Nat /\ Len(rules) <= Len(law)
          /\ \A i \in DOMAIN rules : i \in DOMAIN law /\ law[i] = rules[i]
          /\ \A i \in DOMAIN law \ DOMAIN rules :
               /\ i = Len(rules) + 1 /\ law[i].status = "PROPOSED" /\ law[i].revoked = Null
               /\ law[i].from \subseteq DOMAIN then /\ Cardinality(law[i].from) >= 2
               /\ \A c \in law[i].from : then[c].answer.by = "OWNER" /\ then[c].answer.choice = law[i].choice
               /\ \A j \in DOMAIN rules : rules[j].choice = law[i].choice =>
                    rules[j].status = "REVOKED" /\ \A c \in law[i].from : rules[j].revoked < then[c].answer.at
      BY <1>1, <1>6, RuleLearned
    <3>2. rules' = law
      BY <1>7, <2>2
    <3> HIDE DEF law
    <3>3. DOMAIN law = 1..Len(law)
      BY <3>1, LenProperties
    <3> QED
      BY <2>1, <3>1, <3>2, <3>3
  <2>3. CASE mine.rule # 0
    <3>1. rules' = rules
      BY <1>7, <2>3
    <3> QED
      BY <1>1, <2>1, <3>1
  <2> QED
    BY <2>2, <2>3
<1> HIDE DEF mine, card
<1>9. GrowsNow
  <2>1. ticks \in Nat
    BY <1>1, InboxAssumption DEF InboxTypeOK
  <2>2. \A c \in DOMAIN cards : c \in DOMAIN cards' /\ cards'[c].question = cards[c].question
    BY <1>2, <1>6
  <2> QED
    BY <1>1, <1>2, <1>8, <2>1, <2>2 DEF GrowsNow, Grown
<1>10. \E record : /\ visit' = [visit EXCEPT ![r] = record] /\ record \in VisitRows
                   /\ Warranted(record, ticks', pieces', cards', rules', proposals')
  <2>1. CASE mine.apply = {}
    <3>1. visit' = [visit EXCEPT ![r] = Nothing]
      BY <2>1 DEF RecordAnswer, To, AfterRecord, mine
    <3>2. Nothing \in VisitRows /\ Warranted(Nothing, ticks', pieces', cards', rules', proposals')
      BY <1>1, <1>2 DEF Nothing, VisitRows, Options, Warranted, InboxTypeOK
    <3> QED
      BY <3>1, <3>2
  <2>2. CASE mine.apply # {}
    <3>1. visit' = [visit EXCEPT ![r] = Applying(mine)]
      BY <2>2 DEF RecordAnswer, To, AfterRecord, mine
    <3>2. /\ mine.rule # 0 /\ mine.rule \in DOMAIN rules /\ rules[mine.rule].approved # Null
          /\ rules[mine.rule].revoked # Null => mine.now <= rules[mine.rule].revoked
          /\ mine.now <= ticks /\ \A q \in Questions : mine.seen[q] <= pieces[q]
      BY <1>3, <1>4, <2>2 DEF Warranted
    <3>3. \A c \in DOMAIN cards : c \in DOMAIN Composed(mine) /\ Composed(mine)[c].question = cards[c].question
      <4> TAKE c \in DOMAIN cards
      <4>1. c \in DOMAIN Composed(mine) /\ Composed(mine)[c] = RefreshedCard(mine, cards[c])
        BY <1>1, CardsComposed
      <4>2. cards[c] \in CardRows
        BY <1>1, ElementOfSeq, LenProperties
      <4> QED
        BY <1>1, <4>1, <4>2, RefreshKeeps
    <3>4. mine.apply \subseteq DOMAIN Composed(mine)
      BY <1>5, <3>3
    <3>5. \A c \in mine.apply : c \in DOMAIN then /\ then[c].question = Composed(mine)[c].question
      BY <1>5, <1>6, <3>3
    <3>6. Applying(mine) \in VisitRows
      BY <1>1, <2>2, <3>2, <3>4, ApplyingOne
    <3>7. Warranted(Applying(mine), ticks, pieces, then, rules, proposals)
      BY <1>1, <2>2, <3>2, <3>4, <3>5, ApplyingWarranted
    <3>8. rules' = rules
      BY <1>7, <3>2
    <3> QED
      BY <1>2, <3>1, <3>6, <3>7, <3>8
  <2> QED
    BY <2>1, <2>2
<1>11. VisitsKnow' /\ visit' \in [Visits -> VisitRows]
  BY <1>1, <1>9, <1>10, VisitMoves
<1>12. "RESOLVED" \in Settled /\ "SUPPRESSED" \notin Settled /\ "RESOLVED" # "SUPPRESSED"
  BY DEF Settled
<1>13. InboxTypeOK'
  <2>1. \A c \in DOMAIN then :
          then[c].status = "RESOLVED" <=> then[c].answer.by # "NOBODY" /\ then[c].answer.choice # "keep"
    <3> TAKE c \in DOMAIN then
    <3>1. CASE c = card
      BY <1>6, <1>12, <3>1
    <3>2. CASE c # card
      BY <1>1, <1>6, <3>2 DEF InboxTypeOK
    <3> QED
      BY <3>1, <3>2
  <2>2. \A q \in Questions : OpenCards(q)' \subseteq OpenCards(q)
    BY <1>2, <1>3, <1>5, <1>6 DEF OpenCards
  <2>3. \A q \in Questions : said'[q] <= pieces'[q] /\ \A c, d \in OpenCards(q)' : c = d
    BY <1>1, <1>2, <2>2 DEF InboxTypeOK
  <2> QED
    BY <1>1, <1>2, <1>6, <1>8, <1>11, <2>1, <2>3 DEF InboxTypeOK
<1>14. CardsFit'
  <2> SUFFICES ASSUME NEW c \in DOMAIN then
               PROVE  /\ then[c].seen <= pieces[then[c].question]
                      /\ then[c].answer.at <= ticks /\ then[c].answer.rule \in 0..Len(rules')
    BY <1>2 DEF CardsFit
  <2>1. cards[c].seen <= pieces[cards[c].question] /\ cards[c].answer.at <= ticks /\ cards[c].answer.rule \in 0..Len(rules)
    BY <1>6 DEF InboxInv, CardsFit
  <2>2. CASE c = card
    <3>1. mine.now <= ticks /\ (mine.rule # 0 => mine.rule \in DOMAIN rules)
      BY <1>4 DEF Warranted
    <3>2. mine.rule \in 0..Len(rules')
      BY <1>8, <3>1
    <3> QED
      BY <1>6, <2>1, <2>2, <3>1, <3>2
  <2>3. CASE c # card
    BY <1>6, <1>8, <2>1, <2>3
  <2> QED
    BY <2>2, <2>3
<1>15. RulesFit'
  <2> SUFFICES ASSUME NEW i \in DOMAIN rules'
               PROVE  /\ (rules'[i].status = "REVOKED") <=> (rules'[i].revoked # Null)
                      /\ rules'[i].status = "APPROVED" => rules'[i].approved # Null
                      /\ rules'[i].revoked # Null => rules'[i].revoked <= ticks
                      /\ rules'[i].from \subseteq DOMAIN cards
                      /\ \A j \in 1..(i - 1) : rules'[j].choice = rules'[i].choice => rules'[j].status = "REVOKED"
    BY <1>2, <1>6 DEF RulesFit
  <2>1. CASE i \in DOMAIN rules
    <3>1. \A j \in 1..(i - 1) : j \in DOMAIN rules
      BY <1>8, <2>1
    <3> QED
      BY <1>8, <2>1, <3>1 DEF InboxInv, RulesFit
  <2>2. CASE i \notin DOMAIN rules
    <3>1. \A j \in 1..(i - 1) : j \in DOMAIN rules
      BY <1>8, <2>2
    <3>2. rules'[i].status = "PROPOSED" /\ rules'[i].revoked = Null /\ rules'[i].from \subseteq DOMAIN cards
      BY <1>6, <1>8, <2>2
    <3>3. \A j \in 1..(i - 1) : rules'[j].choice = rules'[i].choice => rules'[j].status = "REVOKED"
      BY <1>8, <2>2, <3>1
    <3> QED
      BY <3>2, <3>3
  <2> QED
    BY <2>1, <2>2
<1>16. RulesFromFreshAnswers'
  <2> SUFFICES ASSUME NEW i \in DOMAIN rules'
               PROVE  /\ Cardinality(rules'[i].from) >= 2
                      /\ \A c \in rules'[i].from :
                           /\ then[c].answer.by = "OWNER" /\ then[c].answer.choice = rules'[i].choice
                           /\ \A j \in 1..(i - 1) :
                                rules'[j].choice = rules'[i].choice => rules'[j].revoked < then[c].answer.at
    BY <1>2 DEF RulesFromFreshAnswers
  <2>1. CASE i \in DOMAIN rules
    <3>1. \A j \in 1..(i - 1) : j \in DOMAIN rules /\ rules'[j] = rules[j]
      BY <1>8, <2>1
    <3>2. ASSUME NEW c \in rules[i].from PROVE c \in DOMAIN cards /\ c # card
      <4>1. c \in DOMAIN cards /\ cards[c].answer.by = "OWNER" /\ cards[c].answer.choice = rules[i].choice
        BY <2>1 DEF InboxInv, RulesFit, AnswersAreTheOwners, RulesFromFreshAnswers
      <4>2. rules[i].choice # "keep"
        <5>1. rules[i] \in RuleRows
          BY <1>1, <1>8, <2>1, ElementOfSeq
        <5> QED
          BY <5>1 DEF RuleRows
      <4>3. cards[c].status = "RESOLVED"
        BY <1>1, <4>1, <4>2 DEF InboxTypeOK
      <4> QED
        BY <1>3, <1>12, <4>1, <4>3
    <3>3. \A c \in rules[i].from : then[c] = cards[c]
      BY <1>6, <3>2
    <3> QED
      BY <1>8, <2>1, <3>1, <3>3 DEF InboxInv, AnswersAreTheOwners, RulesFromFreshAnswers
  <2>2. CASE i \notin DOMAIN rules
    <3>1. \A j \in 1..(i - 1) : j \in DOMAIN rules
      BY <1>8, <2>2
    <3> QED
      BY <1>8, <2>2, <3>1
  <2> QED
    BY <2>1, <2>2
<1>17. RulesAnswerInEffect'
  <2> SUFFICES ASSUME NEW c \in DOMAIN then, NEW i \in DOMAIN rules', then[c].answer.rule = i
               PROVE  rules'[i].approved # Null /\ (rules'[i].revoked # Null => then[c].answer.at <= rules'[i].revoked)
    BY <1>2 DEF RulesAnswerInEffect
  <2>1. CASE c = card
    <3>1. mine.rule = i /\ i # 0
      BY <1>6, <1>8, <2>1
    <3>2. rules' = rules
      BY <1>7, <3>1
    <3> QED
      BY <1>4, <1>6, <2>1, <3>1, <3>2 DEF Warranted
  <2>2. CASE c # card
    <3>1. then[c] = cards[c] /\ cards[c].answer.rule \in 0..Len(rules)
      BY <1>6, <2>2 DEF InboxInv, CardsFit
    <3>2. i \in DOMAIN rules
      BY <1>8, <3>1
    <3> QED
      BY <1>6, <1>8, <3>1, <3>2 DEF InboxInv, AnswersAreTheOwners, RulesAnswerInEffect
  <2> QED
    BY <2>1, <2>2
<1>18. ResolvedIsProposed'
  <2> SUFFICES ASSUME NEW c \in DOMAIN then, then[c].status = "RESOLVED"
               PROVE  [card |-> c, choice |-> then[c].answer.choice, rule |-> then[c].answer.rule] \in proposals
    BY <1>2 DEF ResolvedIsProposed
  <2>1. CASE c = card
    <3>1. mine.choice # "keep"
      BY <1>6, <1>12, <2>1
    <3> QED
      BY <1>3, <1>4, <1>6, <2>1, <3>1 DEF Warranted, card
  <2>2. CASE c # card
    BY <1>6, <2>2 DEF InboxInv, AnswersAreTheOwners, ResolvedIsProposed
  <2> QED
    BY <2>1, <2>2
<1> QED
  BY <1>11, <1>13, <1>14, <1>15, <1>16, <1>17, <1>18 DEF InboxInv, AnswersAreTheOwners

-----------------------------------------------------------------------------
\* Nothing has been asked, answered or learned.
LEMMA InboxStarts == InboxInit => InboxInv
<1> SUFFICES ASSUME InboxInit PROVE InboxInv
  OBVIOUS
<1>1. Nothing \in VisitRows
  BY DEF Nothing, VisitRows, Options
<1>2. Len(<<>>) = 0 /\ <<>> \in Seq(CardRows) /\ <<>> \in Seq(RuleRows) /\ DOMAIN <<>> = {}
  OBVIOUS
<1>3. InboxTypeOK
  BY <1>1, <1>2, InboxAssumption DEF InboxInit, InboxTypeOK, OpenCards
<1>4. CardsFit /\ RulesFit /\ RulesFromFreshAnswers /\ RulesAnswerInEffect /\ ResolvedIsProposed
  BY DEF InboxInit, CardsFit, RulesFit, RulesFromFreshAnswers, RulesAnswerInEffect, ResolvedIsProposed
<1>5. VisitsKnow
  BY DEF InboxInit, VisitsKnow, VisitKnows, Nothing
<1> QED
  BY <1>3, <1>4, <1>5 DEF InboxInv, AnswersAreTheOwners

LEMMA InboxStepKeeps == InboxInv /\ [InboxNext]_inboxVars => InboxInv'
<1> SUFFICES ASSUME InboxInv, [InboxNext]_inboxVars PROVE InboxInv'
  OBVIOUS
<1>1. ASSUME NEW r \in Visits, NEW eyes \in Eyes, ReadPacket(r, eyes) PROVE InboxInv'
  BY <1>1, ReadPacketKeeps
<1>2. ASSUME NEW r \in Visits, NEW c \in DOMAIN cards, NEW choice \in Effects, BeginAnswer(r, c, choice) PROVE InboxInv'
  BY <1>2, BeginAnswerKeeps
<1>3. ASSUME NEW r \in Visits, Evaluate(r) \/ WriteDeltas(r) \/ ProposeAnswer(r) \/ RecordAnswer(r) \/ Leave(r)
      PROVE  InboxInv'
  BY <1>3, EvaluateKeeps, WriteDeltasKeeps, ProposeAnswerKeeps, RecordAnswerKeeps, LeaveKeeps
<1>4. ASSUME NEW i \in DOMAIN rules, ApproveRule(i) \/ RevokeRule(i) PROVE InboxInv'
  BY <1>4, ApproveRuleKeeps, RevokeRuleKeeps
<1>5. ASSUME NEW q \in Questions, Extract(q) PROVE InboxInv'
  BY <1>5, ExtractKeeps
<1>6. CASE Tick
  BY <1>6, TickKeeps
<1>7. CASE UNCHANGED inboxVars
  <2>1. UNCHANGED <<ticks, pieces, said, cards, asks, rules, proposals, visit, begun>>
    BY <1>7 DEF inboxVars
  <2>2. CardsFit' /\ RulesFit' /\ AnswersAreTheOwners' /\ GrowsNow
    BY <2>1, RowsStay
  <2>3. VisitsKnow' /\ visit' \in [Visits -> VisitRows]
    BY <2>1, <2>2, VisitsStay DEF InboxInv
  <2>4. InboxTypeOK'
    BY <2>1, <2>3, TypesStay DEF InboxInv, InboxTypeOK
  <2> QED
    BY <2>2, <2>3, <2>4 DEF InboxInv
<1> QED
  BY <1>1, <1>2, <1>3, <1>4, <1>5, <1>6, <1>7 DEF InboxNext

\* For every number of questions, visits and ticks: the invariant holds throughout.
THEOREM InboxInvariant == InboxSpec => []InboxInv
<1>1. InboxInit => InboxInv
  BY InboxStarts
<1>2. InboxInv /\ [InboxNext]_inboxVars => InboxInv'
  BY InboxStepKeeps
<1> QED
  BY <1>1, <1>2, PTL DEF InboxSpec

\* Whatever readings and answers overlap and wherever one stops: a rule is learned from
\* fresh answers of the owner, it answers a card only while it is in effect, and what a
\* card says was decided is what was proposed to the governor.
THEOREM OnlyTheOwnerAnswers == InboxSpec => []AnswersAreTheOwners
<1>1. InboxInv => AnswersAreTheOwners
  BY DEF InboxInv
<1> QED
  BY <1>1, InboxInvariant, PTL

-----------------------------------------------------------------------------
(* Requests that do not overlap.                                           *)

\* What was asked stands on its card: the card was last asked then or later, and knows
\* that it has shown that much.
AskRows == [card : Nat, question : Questions, seen : Nat, at : Nat]
AsksStand ==
  /\ asks \subseteq AskRows
  /\ \A a \in asks :
       /\ a.card \in DOMAIN cards /\ a.question = cards[a.card].question
       /\ cards[a.card].asked # Null /\ a.at <= cards[a.card].asked
       /\ a.seen <= cards[a.card].known

\* A card is settled only where memory decides all that it shows.
CardSettles(card, told, now) ==
  /\ card.known <= card.seen
  /\ card.status \in Settled => card.seen <= told[card.question]
  /\ card.asked # Null => card.asked <= now
CardsSettle == \A c \in DOMAIN cards : CardSettles(cards[c], said, ticks)

\* What a request has read is still so: which questions are undecided, that no card shows
\* more or was asked later, and what the cards it answers show.
Sees(mine, deck, told) ==
  /\ mine.at = "packet" =>
       /\ \A q \in Questions : q \in mine.shows <=> mine.seen[q] > told[q]
       /\ \A c \in DOMAIN deck : /\ deck[c].seen <= mine.seen[deck[c].question]
                                 /\ deck[c].asked # Null => deck[c].asked <= mine.now
  /\ mine.at \in {"writing", "written", "proposed"} =>
       /\ mine.upTo = deck[mine.card].seen
       /\ \A d \in mine.apply : deck[d].seen = mine.seen[deck[d].question]
  /\ mine.at \in {"written", "proposed"} /\ mine.choice # "keep" => mine.upTo <= told[deck[mine.card].question]
VisitsSee == \A r \in Visits : Sees(visit[r], cards, said)

OneVisit == \A r, s \in Visits : visit[r] # Nothing /\ visit[s] # Nothing => r = s
Sparingly == AsksStand /\ CardsSettle /\ NotAskedTwice /\ CardsWithinCap
AskedInv == OneVisit /\ VisitsSee /\ Sparingly

\* Each step moves one request or none, so one that begins beside another is two.
LEMMA StillOneVisit ==
  ASSUME OneVisit, InboxNext \/ UNCHANGED inboxVars, visit \in [Visits -> VisitRows],
         Cardinality({r \in Visits : visit'[r] # Nothing}) <= 1
  PROVE  OneVisit'
<1> DEFINE busy == {r \in Visits : visit'[r] # Nothing}
<1>1. visit' = visit \/ \E r \in Visits : \E record : visit' = [visit EXCEPT ![r] = record]
  <2>1. ASSUME NEW r \in Visits, NEW record, To(r, record) PROVE visit' = [visit EXCEPT ![r] = record]
    BY <2>1 DEF To
  <2>2. ASSUME NEW r \in Visits, NEW eyes \in Eyes, ReadPacket(r, eyes)
        PROVE  \E record : visit' = [visit EXCEPT ![r] = record]
    BY <2>2 DEF ReadPacket, To
  <2>3. ASSUME NEW r \in Visits, NEW c \in DOMAIN cards, NEW choice \in Effects, BeginAnswer(r, c, choice)
        PROVE  \E record : visit' = [visit EXCEPT ![r] = record]
    BY <2>3 DEF BeginAnswer, To
  <2>4. ASSUME NEW r \in Visits, Evaluate(r) PROVE \E record : visit' = [visit EXCEPT ![r] = record]
    BY <2>4, Zenon DEF Evaluate, To
  <2>5. ASSUME NEW r \in Visits, WriteDeltas(r) \/ ProposeAnswer(r) \/ RecordAnswer(r) \/ Leave(r)
        PROVE  \E record : visit' = [visit EXCEPT ![r] = record]
    BY <2>5, Zenon DEF WriteDeltas, ProposeAnswer, RecordAnswer, Leave, To
  <2>6. ASSUME NEW i \in DOMAIN rules, ApproveRule(i) \/ RevokeRule(i) PROVE visit' = visit
    BY <2>6 DEF ApproveRule, RevokeRule
  <2>7. ASSUME NEW q \in Questions, Extract(q) PROVE visit' = visit
    BY <2>7 DEF Extract
  <2>8. Tick \/ UNCHANGED inboxVars => visit' = visit
    BY DEF Tick, inboxVars
  <2> QED
    BY <2>2, <2>3, <2>4, <2>5, <2>6, <2>7, <2>8 DEF InboxNext
<1>2. CASE visit' = visit
  BY <1>2 DEF OneVisit
<1>3. ASSUME NEW r \in Visits, NEW record, visit' = [visit EXCEPT ![r] = record] PROVE OneVisit'
  <2>1. \A s \in Visits \ {r} : visit'[s] = visit[s]
    BY <1>3
  <2>2. IsFiniteSet(busy)
    <3>1. PICK one : \A s \in Visits : visit[s] # Nothing => s = one
      BY DEF OneVisit
    <3>2. busy \subseteq {r, one}
      BY <2>1, <3>1
    <3>3. IsFiniteSet({r, one})
      <4>1. IsFiniteSet({r}) /\ IsFiniteSet({r} \cup {one})
        BY FS_Singleton, FS_AddElement
      <4>2. {r} \cup {one} = {r, one}
        OBVIOUS
      <4> QED
        BY <4>1, <4>2
    <3> QED
      BY <3>2, <3>3, FS_Subset
  <2>3. ASSUME NEW s \in busy, NEW t \in busy PROVE s = t
    <3> SUFFICES ASSUME s # t PROVE FALSE
      OBVIOUS
    <3>1. IsFiniteSet({s, t}) /\ Cardinality({s, t}) = 2
      <4>1. IsFiniteSet({s}) /\ Cardinality({s}) = 1
        BY FS_Singleton
      <4>2. IsFiniteSet({s} \cup {t}) /\ Cardinality({s} \cup {t}) = 2
        BY <4>1, FS_AddElement
      <4>3. {s} \cup {t} = {s, t}
        OBVIOUS
      <4> QED
        BY <4>2, <4>3
    <3>2. Cardinality({s, t}) <= Cardinality(busy) /\ Cardinality(busy) \in Nat
      <4>1. {s, t} \subseteq busy
        BY <2>3
      <4> HIDE DEF busy
      <4> QED
        BY <2>2, <4>1, FS_Subset, FS_CardinalityType
    <3> QED
      BY <3>1, <3>2
  <2> QED
    BY <2>3 DEF OneVisit
<1> QED
  BY <1>1, <1>2, <1>3

\* So whoever moves is the only one with something to see.
LEMMA OnlyOneSees ==
  ASSUME visit \in [Visits -> VisitRows], OneVisit, OneVisit', NEW r \in Visits, NEW record,
         visit' = [visit EXCEPT ![r] = record], visit[r] # Nothing \/ record # Nothing, Sees(record, cards', said')
  PROVE  VisitsSee'
<1>1. visit'[r] = record /\ \A s \in Visits \ {r} : visit'[s] = visit[s]
  OBVIOUS
<1>2. \A s \in Visits \ {r} : visit'[s] = Nothing
  <2>1. CASE visit[r] # Nothing
    BY <1>1, <2>1 DEF OneVisit
  <2>2. CASE record # Nothing
    BY <1>1, <2>2 DEF OneVisit
  <2> QED
    BY <2>1, <2>2
<1>3. Sees(Nothing, cards', said')
  BY DEF Sees, Nothing
<1>4. \A s \in Visits : Sees(visit'[s], cards', said')
  BY <1>1, <1>2, <1>3
<1> QED
  BY <1>4 DEF VisitsSee

\* Where neither cards nor asks move, time and what is said go on.
LEMMA SparinglyStays ==
  ASSUME InboxTypeOK, Sparingly, UNCHANGED <<cards, asks>>, ticks' \in Nat, ticks <= ticks',
         said' \in [Questions -> Nat], \A q \in Questions : said[q] <= said'[q]
  PROVE  Sparingly'
<1>1. AsksStand' /\ NotAskedTwice' /\ CardsWithinCap'
  BY DEF Sparingly, AsksStand, NotAskedTwice, CardsWithinCap
<1>2. CardsSettle'
  <2> SUFFICES ASSUME NEW c \in DOMAIN cards PROVE CardSettles(cards[c], said', ticks')
    BY DEF CardsSettle
  <2>1. cards[c] \in CardRows
    BY ElementOfSeq, LenProperties DEF InboxTypeOK
  <2>2. /\ cards[c].question \in Questions /\ cards[c].seen \in Nat /\ cards[c].asked \in Nat \cup {Null}
        /\ ticks \in Nat /\ said \in [Questions -> Nat]
    BY <2>1, InboxAssumption DEF CardRows, InboxTypeOK
  <2>3. CardSettles(cards[c], said, ticks)
    BY DEF Sparingly, CardsSettle
  <2>4. /\ said[cards[c].question] \in Nat /\ said'[cards[c].question] \in Nat
        /\ said[cards[c].question] <= said'[cards[c].question]
    BY <2>2
  <2> QED
    BY <2>2, <2>3, <2>4 DEF CardSettles
<1> QED
  BY <1>1, <1>2 DEF Sparingly

\* A reading: what is undecided now, and no card shows more.
LEMMA ReadPacketSees ==
  ASSUME InboxInv, AskedInv, Eyes \subseteq {Questions}, NEW r \in Visits, NEW eyes \in Eyes, ReadPacket(r, eyes), OneVisit'
  PROVE  AskedInv'
<1> DEFINE shown == {q \in eyes : pieces[q] > said[q]}
           record == [Nothing EXCEPT !.at = "packet", !.now = ticks, !.seen = pieces, !.shows = shown]
<1>1. /\ InboxTypeOK /\ ticks \in Nat /\ visit \in [Visits -> VisitRows] /\ said \in [Questions -> Nat]
      /\ pieces \in [Questions -> Nat]
  BY InboxAssumption DEF InboxInv, InboxTypeOK
<1>2. UNCHANGED <<ticks, said, cards, asks>> /\ visit' = [visit EXCEPT ![r] = record]
  BY DEF ReadPacket, To
<1>3. Sparingly'
  BY <1>1, <1>2, SparinglyStays DEF AskedInv
<1>4. record.at = "packet" /\ record.now = ticks /\ record.seen = pieces /\ record.shows = shown
  BY DEF Nothing
<1>5. \A q \in Questions : q \in shown <=> pieces[q] > said[q]
  OBVIOUS
<1> HIDE DEF record, shown
<1>6. \A c \in DOMAIN cards : /\ cards[c].seen <= pieces[cards[c].question]
                              /\ cards[c].asked # Null => cards[c].asked <= ticks
  BY DEF InboxInv, CardsFit, AskedInv, Sparingly, CardsSettle, CardSettles
<1>7. Sees(record, cards', said')
  BY <1>2, <1>4, <1>5, <1>6 DEF Sees
<1>8. record # Nothing
  BY <1>4 DEF Nothing
<1>9. VisitsSee'
  BY <1>1, <1>2, <1>7, <1>8, OnlyOneSees DEF AskedInv
<1> QED
  BY <1>3, <1>9 DEF AskedInv

\* An answer begins with what its card shows, writes up to there, and proposes or leaves.
LEMMA BeginAnswerSees ==
  ASSUME InboxInv, AskedInv, NEW r \in Visits, NEW c \in DOMAIN cards, NEW choice \in Effects, BeginAnswer(r, c, choice),
         OneVisit'
  PROVE  AskedInv'
<1> DEFINE record == [Nothing EXCEPT !.at = "writing", !.now = ticks, !.card = c, !.upTo = cards[c].seen, !.choice = choice]
<1>1. InboxTypeOK /\ ticks \in Nat /\ visit \in [Visits -> VisitRows] /\ said \in [Questions -> Nat]
  BY InboxAssumption DEF InboxInv, InboxTypeOK
<1>2. UNCHANGED <<ticks, said, cards, asks>> /\ visit' = [visit EXCEPT ![r] = record]
  BY DEF BeginAnswer, To
<1>3. Sparingly'
  BY <1>1, <1>2, SparinglyStays DEF AskedInv
<1>4. record.at = "writing" /\ record.card = c /\ record.upTo = cards[c].seen /\ record.apply = {}
  BY DEF Nothing
<1> HIDE DEF record
<1>5. Sees(record, cards', said') /\ record # Nothing
  BY <1>2, <1>4 DEF Sees, Nothing
<1>6. VisitsSee'
  BY <1>1, <1>2, <1>5, OnlyOneSees DEF AskedInv
<1> QED
  BY <1>3, <1>6 DEF AskedInv

LEMMA WriteDeltasSees ==
  ASSUME InboxInv, AskedInv, NEW r \in Visits, WriteDeltas(r), OneVisit'
  PROVE  AskedInv'
<1> DEFINE mine == visit[r]
           q == cards[mine.card].question
           record == [mine EXCEPT !.at = "written"]
<1>1. /\ InboxTypeOK /\ ticks \in Nat /\ visit \in [Visits -> VisitRows] /\ said \in [Questions -> Nat]
      /\ mine \in VisitRows
  BY InboxAssumption DEF InboxInv, InboxTypeOK
<1>2. /\ UNCHANGED <<ticks, cards, asks>> /\ visit' = [visit EXCEPT ![r] = record] /\ mine.at = "writing"
      /\ said' = IF mine.choice = "keep" THEN said ELSE [said EXCEPT ![q] = Max({@, mine.upTo})]
  BY DEF WriteDeltas, To
<1>3. mine.card \in DOMAIN cards /\ q \in Questions /\ mine.upTo \in Nat
  <2>1. mine.card \in DOMAIN cards
    BY <1>2 DEF InboxInv, VisitsKnow, VisitKnows
  <2>2. cards[mine.card] \in CardRows
    BY <1>1, <2>1, ElementOfSeq, LenProperties DEF InboxTypeOK
  <2> QED
    BY <1>1, <2>1, <2>2 DEF CardRows, VisitRows
<1>4. /\ said' \in [Questions -> Nat] /\ \A p \in Questions : said[p] <= said'[p]
      /\ mine.choice # "keep" => mine.upTo <= said'[q]
  <2>1. CASE mine.choice = "keep"
    BY <1>1, <1>2, <2>1
  <2>2. CASE mine.choice # "keep"
    <3> DEFINE m == Max({said[q], mine.upTo})
    <3>1. said[q] \in Nat
      BY <1>1, <1>3
    <3>2. m \in Nat /\ said[q] <= m /\ mine.upTo <= m
      <4>1. \E x \in {said[q], mine.upTo} : \A y \in {said[q], mine.upTo} : x >= y
        BY <1>3, <3>1
      <4>2. m \in {said[q], mine.upTo} /\ \A y \in {said[q], mine.upTo} : m >= y
        BY <4>1 DEF Max
      <4> QED
        BY <1>3, <3>1, <4>2
    <3>3. said' = [said EXCEPT ![q] = m]
      BY <1>2, <2>2
    <3> HIDE DEF m, q
    <3>4. said' \in [Questions -> Nat] /\ said'[q] = m /\ \A p \in Questions \ {q} : said'[p] = said[p]
      BY <1>1, <1>3, <3>2, <3>3
    <3>5. \A p \in Questions : said[p] <= said'[p]
      BY <1>1, <3>2, <3>4
    <3> QED
      BY <3>2, <3>4, <3>5
  <2> QED
    BY <2>1, <2>2
<1>5. Sparingly'
  BY <1>1, <1>2, <1>4, SparinglyStays DEF AskedInv
<1>6. /\ record.at = "written" /\ record.card = mine.card /\ record.apply = mine.apply /\ record.seen = mine.seen
      /\ record.upTo = mine.upTo /\ record.choice = mine.choice
  BY <1>1 DEF VisitRows
<1>7. Sees(mine, cards, said)
  BY DEF AskedInv, VisitsSee
<1>8. Sees(record, cards', said')
  <2> HIDE DEF record, mine
  <2> QED
    BY <1>2, <1>4, <1>6, <1>7 DEF Sees
<1>9. record # Nothing
  BY <1>6 DEF Nothing
<1>10. VisitsSee'
  <2> HIDE DEF record
  <2> QED
    BY <1>1, <1>2, <1>8, <1>9, OnlyOneSees DEF AskedInv
<1> QED
  BY <1>5, <1>10 DEF AskedInv

LEMMA ProposeAnswerSees ==
  ASSUME InboxInv, AskedInv, NEW r \in Visits, ProposeAnswer(r) \/ Leave(r), OneVisit'
  PROVE  AskedInv'
<1> DEFINE mine == visit[r]
           record == [mine EXCEPT !.at = "proposed"]
<1>1. /\ InboxTypeOK /\ ticks \in Nat /\ visit \in [Visits -> VisitRows] /\ said \in [Questions -> Nat]
      /\ mine \in VisitRows
  BY InboxAssumption DEF InboxInv, InboxTypeOK
<1>2. /\ UNCHANGED <<ticks, said, cards, asks>> /\ mine.at \in {"written", "proposed"}
      /\ \/ visit' = [visit EXCEPT ![r] = record] /\ mine.at = "written"
         \/ visit' = [visit EXCEPT ![r] = Nothing]
  BY DEF ProposeAnswer, Leave, To
<1>3. Sparingly'
  BY <1>1, <1>2, SparinglyStays DEF AskedInv
<1>4. /\ record.at = "proposed" /\ record.card = mine.card /\ record.apply = mine.apply /\ record.seen = mine.seen
      /\ record.upTo = mine.upTo /\ record.choice = mine.choice
  BY <1>1 DEF VisitRows
<1>5. Sees(mine, cards, said)
  BY DEF AskedInv, VisitsSee
<1> HIDE DEF record
<1>6. mine # Nothing
  BY <1>2 DEF Nothing
<1>7. Sees(Nothing, cards', said')
  BY DEF Sees, Nothing
<1>8. mine.at = "written" => Sees(record, cards', said')
  <2> HIDE DEF mine
  <2> QED
    BY <1>2, <1>4, <1>5 DEF Sees
<1>9. VisitsSee'
  <2>1. CASE visit' = [visit EXCEPT ![r] = Nothing]
    BY <1>1, <1>6, <1>7, <2>1, OnlyOneSees DEF AskedInv
  <2>2. CASE visit' = [visit EXCEPT ![r] = record] /\ mine.at = "written"
    BY <1>1, <1>6, <1>8, <2>2, OnlyOneSees DEF AskedInv
  <2> QED
    BY <1>2, <2>1, <2>2
<1> QED
  BY <1>3, <1>9 DEF AskedInv

\* The owner's rules, more evidence and time are nothing to a request that has read.
LEMMA WorldSees ==
  ASSUME InboxInv, AskedInv, UNCHANGED <<said, cards, asks, visit>>, ticks' \in Nat, ticks <= ticks'
  PROVE  AskedInv'
<1>1. Sparingly'
  <2>1. InboxTypeOK /\ said' \in [Questions -> Nat] /\ \A q \in Questions : said[q] <= said'[q]
    BY DEF InboxInv, InboxTypeOK
  <2> QED
    BY <2>1, SparinglyStays DEF AskedInv
<1>2. OneVisit' /\ VisitsSee'
  BY DEF AskedInv, OneVisit, VisitsSee
<1> QED
  BY <1>1, <1>2 DEF AskedInv

\* An answered card was asked when it was, and knows all that it shows.
LEMMA AnsweredKnows ==
  ASSUME cards \in Seq(CardRows), NEW mine \in VisitRows, mine.card \in DOMAIN cards
  PROVE  /\ Answered(mine)[mine.card].known = cards[mine.card].seen
         /\ Answered(mine)[mine.card].asked = cards[mine.card].asked
<1> DEFINE card == cards[mine.card]
           keep == mine.choice = "keep"
           answer == [by |-> IF mine.rule = 0 THEN "OWNER" ELSE "LEARNED_RULE",
                      choice |-> mine.choice, at |-> mine.now, rule |-> mine.rule]
           status == IF keep THEN "SUPPRESSED" ELSE "RESOLVED"
           until == IF keep THEN mine.now + Window ELSE card.until
           nxt == [card EXCEPT !.status = status, !.until = until, !.known = card.seen, !.answer = answer]
<1>1. card \in CardRows
  BY ElementOfSeq, LenProperties
<1>2. Answered(mine) = [cards EXCEPT ![mine.card] = nxt]
  BY DEF Answered
<1> HIDE DEF answer, status, until
<1>3. nxt.known = card.seen /\ nxt.asked = card.asked
  BY <1>1 DEF CardRows
<1> HIDE DEF nxt
<1>4. Answered(mine)[mine.card] = nxt
  BY <1>2
<1> QED
  BY <1>3, <1>4

\* What a rule answers next it answers up to where its reading had it.
LEMMA ApplyingSees ==
  ASSUME cards \in Seq(CardRows), rules \in Seq(RuleRows), NEW mine \in VisitRows,
         mine.apply # {}, mine.apply \subseteq DOMAIN Composed(mine), mine.rule \in DOMAIN rules,
         NEW deck, NEW told,
         \A c \in mine.apply : /\ deck[c].question = Composed(mine)[c].question
                               /\ deck[c].seen = mine.seen[deck[c].question]
  PROVE  Sees(Applying(mine), deck, told)
<1>1. PICK c \in mine.apply : Applying(mine) = AppliedTo(mine, c)
  BY ApplyingOne
<1> DEFINE next == Applying(mine)
           upTo == mine.seen[Composed(mine)[c].question]
<1>2. /\ next.at = "writing" /\ next.card = c /\ next.apply = mine.apply \ {c} /\ next.upTo = upTo
      /\ next.seen = mine.seen
  BY <1>1 DEF AppliedTo, VisitRows
<1>3. upTo = deck[c].seen
  OBVIOUS
<1> HIDE DEF next, upTo
<1>4. Sees(next, deck, told)
  BY <1>2, <1>3 DEF Sees
<1> QED
  BY <1>4 DEF next

\* Where a card is settled by an answer, memory decides all that it shows.
LEMMA RecordAnswerSees ==
  ASSUME InboxInv, AskedInv, NEW r \in Visits, RecordAnswer(r), OneVisit'
  PROVE  AskedInv'
<1> DEFINE mine == visit[r]
           then == Answered(mine)
           card == mine.card
<1>1. /\ InboxTypeOK /\ visit \in [Visits -> VisitRows] /\ cards \in Seq(CardRows) /\ mine \in VisitRows
      /\ rules \in Seq(RuleRows)
  BY DEF InboxInv, InboxTypeOK
<1>2. /\ UNCHANGED <<ticks, said, asks>> /\ cards' = then /\ visit' = [visit EXCEPT ![r] = AfterRecord(mine)]
      /\ mine.at = "proposed" /\ cards[card].status \notin Settled
  BY DEF RecordAnswer, Recordable, To
<1>3. /\ card \in DOMAIN cards /\ mine.apply \subseteq DOMAIN cards
      /\ mine.apply # {} => mine.rule # 0 /\ mine.rule \in DOMAIN rules
  BY <1>2 DEF InboxInv, VisitsKnow, VisitKnows
<1>4. /\ DOMAIN then = DOMAIN cards /\ \A c \in DOMAIN cards \ {card} : then[c] = cards[c]
      /\ then[card].question = cards[card].question /\ then[card].seen = cards[card].seen
      /\ then[card].status = IF mine.choice = "keep" THEN "SUPPRESSED" ELSE "RESOLVED"
  BY <1>1, <1>2, <1>3, CardAnswered
<1>5. then[card].known = cards[card].seen /\ then[card].asked = cards[card].asked
  BY <1>1, <1>3, AnsweredKnows
<1>6. Sees(mine, cards, said)
  BY DEF AskedInv, VisitsSee
<1>7. AfterRecord(mine) = IF mine.apply # {} THEN Applying(mine) ELSE Nothing
  BY DEF AfterRecord
<1> HIDE DEF then
<1>8. CardsSettle'
  <2> SUFFICES ASSUME NEW c \in DOMAIN cards PROVE CardSettles(then[c], said, ticks)
    BY <1>2, <1>4 DEF CardsSettle
  <2>1. CardSettles(cards[c], said, ticks)
    BY DEF AskedInv, Sparingly, CardsSettle
  <2>2. CASE c # card
    BY <1>4, <2>1, <2>2
  <2>3. CASE c = card
    <3>1. then[card].status \in Settled => cards[card].seen <= said[cards[card].question]
      BY <1>2, <1>4, <1>6 DEF Sees, Settled
    <3>2. cards[card].seen \in Nat
      <4>1. cards[card] \in CardRows
        BY <1>1, <1>3, ElementOfSeq, LenProperties
      <4> QED
        BY <4>1 DEF CardRows
    <3> HIDE DEF card, mine
    <3> QED
      BY <1>4, <1>5, <2>1, <2>3, <3>1, <3>2 DEF CardSettles
  <2> QED
    BY <2>2, <2>3
<1>9. AsksStand'
  <2>1. AsksStand
    BY DEF AskedInv, Sparingly
  <2> SUFFICES ASSUME NEW a \in asks
               PROVE  /\ a.card \in DOMAIN then /\ a.question = then[a.card].question
                      /\ then[a.card].asked # Null /\ a.at <= then[a.card].asked /\ a.seen <= then[a.card].known
    BY <1>2, <2>1 DEF AsksStand
  <2>2. /\ a.card \in DOMAIN cards /\ a.question = cards[a.card].question
        /\ cards[a.card].asked # Null /\ a.at <= cards[a.card].asked /\ a.seen <= cards[a.card].known
        /\ a.seen \in Nat
    BY <2>1 DEF AsksStand, AskRows
  <2>3. CASE a.card # card
    BY <1>4, <2>2, <2>3
  <2>4. CASE a.card = card
    <3>1. cards[card] \in CardRows
      BY <1>1, <1>3, ElementOfSeq, LenProperties
    <3>2. cards[card].known \in Nat /\ cards[card].seen \in Nat /\ cards[card].known <= cards[card].seen
      BY <1>3, <3>1 DEF CardRows, AskedInv, Sparingly, CardsSettle, CardSettles
    <3> HIDE DEF card, mine
    <3> QED
      BY <1>4, <1>5, <2>2, <2>4, <3>2
  <2> QED
    BY <2>3, <2>4
<1>10. NotAskedTwice' /\ CardsWithinCap'
  BY <1>2 DEF AskedInv, Sparingly, NotAskedTwice, CardsWithinCap
<1>11. Sees(AfterRecord(mine), then, said)
  <2>1. CASE mine.apply = {}
    BY <1>7, <2>1 DEF Sees, Nothing
  <2>2. CASE mine.apply # {}
    <3>1. \A c \in DOMAIN cards : c \in DOMAIN Composed(mine) /\ Composed(mine)[c].question = cards[c].question
      <4> TAKE c \in DOMAIN cards
      <4>1. c \in DOMAIN Composed(mine) /\ Composed(mine)[c] = RefreshedCard(mine, cards[c])
        BY <1>1, CardsComposed
      <4>2. cards[c] \in CardRows
        BY <1>1, ElementOfSeq, LenProperties
      <4> QED
        BY <1>1, <4>1, <4>2, RefreshKeeps
    <3>2. \A c \in mine.apply : cards[c].seen = mine.seen[cards[c].question]
      BY <1>2, <1>6 DEF Sees
    <3>3. \A c \in DOMAIN cards : then[c].question = cards[c].question /\ then[c].seen = cards[c].seen
      BY <1>4
    <3>4. \A c \in mine.apply : /\ then[c].question = Composed(mine)[c].question
                                /\ then[c].seen = mine.seen[then[c].question]
      BY <1>3, <3>1, <3>2, <3>3
    <3>5. Sees(Applying(mine), then, said)
      BY <1>1, <1>3, <2>2, <3>1, <3>4, ApplyingSees
    <3> QED
      BY <1>7, <2>2, <3>5
  <2> QED
    BY <2>1, <2>2
<1>12. mine # Nothing
  BY <1>2 DEF Nothing
<1>13. VisitsSee'
  BY <1>1, <1>2, <1>11, <1>12, OnlyOneSees DEF AskedInv
<1> QED
  BY <1>8, <1>9, <1>10, <1>13 DEF AskedInv, Sparingly

\* A refresh leaves the last asking alone; what a question shows now is what memory has.
LEMMA RefreshShows ==
  ASSUME NEW mine \in VisitRows, NEW card \in CardRows
  PROVE  LET nxt == RefreshedCard(mine, card)
         IN  /\ nxt.asked = card.asked
             /\ IF card.status \notin Settled /\ card.question \in mine.shows
                THEN nxt.seen = mine.seen[card.question] /\ nxt.known \in {card.known, nxt.seen}
                ELSE nxt.seen = card.seen /\ nxt.known = card.known
<1>1. CASE card.status \in Settled
  <2>1. RefreshedCard(mine, card) = card
    BY <1>1 DEF RefreshedCard
  <2> QED
    BY <1>1, <2>1
<1>2. CASE card.status \notin Settled /\ card.question \notin mine.shows
  <2>1. RefreshedCard(mine, card) = [card EXCEPT !.status = "CLEARED"]
    BY <1>2 DEF RefreshedCard
  <2> QED
    BY <1>2, <2>1 DEF CardRows
<1>3. CASE card.status \notin Settled /\ card.question \in mine.shows
  <2> DEFINE n == mine.seen[card.question]
             m == IF card.status = "ASKED" /\ Today(card.asked) = Today(mine.now) THEN n ELSE card.known
  <2>1. RefreshedCard(mine, card) = [card EXCEPT !.seen = n, !.known = m]
    BY <1>3 DEF RefreshedCard
  <2>2. m \in {card.known, n}
    OBVIOUS
  <2> HIDE DEF n, m
  <2>3. /\ RefreshedCard(mine, card).asked = card.asked /\ RefreshedCard(mine, card).seen = n
        /\ RefreshedCard(mine, card).known = m
    BY <2>1 DEF CardRows
  <2> QED
    BY <1>3, <2>2, <2>3 DEF n
<1> QED
  BY <1>1, <1>2, <1>3

\* The cards that a reading puts on screen.
PutOn(mine) == {c \in DOMAIN Composed(mine) : Wants(mine, c) /\ WithinCap(mine, c)}

\* A decision to ask is dated, and notes what is shown; every other leaves that alone.
LEMMA DecisionAsks ==
  ASSUME NEW mine \in VisitRows, NEW c, Composed(mine)[c] \in CardRows
  PROVE  LET card == Composed(mine)[c]
             nxt == Decided(mine, c)
         IN  IF Wants(mine, c) /\ WithinCap(mine, c)
             THEN /\ nxt.asked = mine.now /\ nxt.known = card.seen /\ card.status \notin Settled
                  /\ ~Withheld(card, mine.now)
             ELSE nxt.asked = card.asked /\ nxt.known = card.known
<1> DEFINE card == Composed(mine)[c]
           judged == [card EXCEPT !.evaluated = Today(mine.now)]
           until == WindowEnd(card, mine.now)
<1>1. judged \in CardRows /\ judged.asked = card.asked /\ judged.known = card.known /\ until \in Nat
  BY DayOf, WindowEnds DEF CardRows, VisitRows
<1>2. CASE ~Due(mine, c) \/ RulesFor # {}
  BY <1>2 DEF Decided, Wants
<1>3. CASE Due(mine, c) /\ RulesFor = {} /\ Withheld(card, mine.now)
  <2>1. Decided(mine, c) = [judged EXCEPT !.status = "SUPPRESSED", !.until = until] /\ ~Wants(mine, c)
    BY <1>3 DEF Decided, Wants
  <2> HIDE DEF judged, until
  <2>2. Decided(mine, c).asked = card.asked /\ Decided(mine, c).known = card.known
    BY <1>1, <2>1 DEF CardRows
  <2> QED
    BY <2>1, <2>2
<1>4. CASE Due(mine, c) /\ RulesFor = {} /\ ~Withheld(card, mine.now) /\ ~WithinCap(mine, c)
  <2>1. Decided(mine, c) = [judged EXCEPT !.status = "DEFERRED"]
    BY <1>4 DEF Decided
  <2> HIDE DEF judged
  <2>2. Decided(mine, c).asked = card.asked /\ Decided(mine, c).known = card.known
    BY <1>1, <2>1 DEF CardRows
  <2> QED
    BY <1>4, <2>2
<1>5. CASE Due(mine, c) /\ RulesFor = {} /\ ~Withheld(card, mine.now) /\ WithinCap(mine, c)
  <2>1. Decided(mine, c) = [judged EXCEPT !.status = "ASKED", !.asked = mine.now, !.known = card.seen, !.until = Null]
    BY <1>5 DEF Decided
  <2>2. card.status \notin Settled /\ Wants(mine, c)
    BY <1>5 DEF Due, Wants
  <2> HIDE DEF judged
  <2>3. Decided(mine, c).asked = mine.now /\ Decided(mine, c).known = card.seen
    BY <1>1, <2>1 DEF CardRows
  <2> QED
    BY <1>5, <2>2, <2>3
<1> QED
  BY <1>2, <1>3, <1>4, <1>5

\* What a reading makes of a card there was: it knows no less, was asked no earlier, and if
\* it is asked again with nothing new, then behind the window.
LEMMA OldCardShown ==
  ASSUME InboxTypeOK, CardsSettle, NEW mine \in VisitRows, mine.at = "packet", Sees(mine, cards, said),
         mine.now <= ticks, NEW c \in DOMAIN cards
  PROVE  LET nxt == Decided(mine, c)
         IN  /\ cards[c].known <= nxt.known /\ CardSettles(nxt, said, ticks)
             /\ cards[c].asked # Null => nxt.asked # Null /\ cards[c].asked <= nxt.asked
             /\ nxt.status \notin Settled =>
                  nxt.seen = mine.seen[nxt.question] /\ said[nxt.question] < mine.seen[nxt.question]
             /\ c \in PutOn(mine) =>
                  /\ nxt.asked = mine.now /\ nxt.status \notin Settled
                  /\ cards[c].asked # Null /\ nxt.seen <= cards[c].known => cards[c].asked + Window <= mine.now
<1> DEFINE card == cards[c]
           mid == Composed(mine)[c]
           nxt == Decided(mine, c)
           q == cards[c].question
<1>1. /\ cards \in Seq(CardRows) /\ card \in CardRows /\ said \in [Questions -> Nat] /\ ticks \in Nat /\ mine.now \in Nat
      /\ Null \notin Nat /\ Window \in Nat
  BY ElementOfSeq, LenProperties, InboxAssumption DEF InboxTypeOK, VisitRows
<1>2. mid = RefreshedCard(mine, card) /\ c \in DOMAIN Composed(mine)
  BY <1>1, CardsComposed
<1>3. /\ mid \in CardRows /\ mid.question = q /\ mid.asked = card.asked
      /\ mid.status = IF card.status \in Settled \/ q \in mine.shows THEN card.status ELSE "CLEARED"
      /\ IF card.status \notin Settled /\ q \in mine.shows
         THEN mid.seen = mine.seen[q] /\ mid.known \in {card.known, mid.seen}
         ELSE mid.seen = card.seen /\ mid.known = card.known
  BY <1>1, <1>2, RefreshKeeps, RefreshShows
<1>4. /\ nxt \in CardRows /\ nxt.question = q /\ nxt.seen = mid.seen
      /\ mid.status \in Settled => nxt = mid
      /\ mid.status \notin Settled => nxt.status \notin Settled
  BY <1>3, DecisionKeeps
<1>5. IF c \in PutOn(mine)
      THEN /\ nxt.asked = mine.now /\ nxt.known = mid.seen /\ mid.status \notin Settled
           /\ ~Withheld(mid, mine.now)
      ELSE nxt.asked = mid.asked /\ nxt.known = mid.known
  BY <1>2, <1>3, DecisionAsks DEF PutOn
<1>6. /\ q \in Questions /\ card.seen \in Nat /\ card.known \in Nat /\ card.asked \in Nat \cup {Null}
      /\ mid.seen \in Nat /\ mid.known \in Nat /\ nxt.known \in Nat /\ said[q] \in Nat /\ mine.seen[q] \in Nat
  BY <1>1, <1>3, <1>4 DEF CardRows, VisitRows
<1>7. CardSettles(card, said, ticks)
  BY DEF CardsSettle
<1>8. /\ q \in mine.shows <=> mine.seen[q] > said[q]
      /\ card.seen <= mine.seen[q] /\ (card.asked # Null => card.asked <= mine.now)
  BY <1>6 DEF Sees
<1>9. Withheld(mid, mine.now) <=>
        /\ (mid.until # Null /\ mine.now < mid.until) \/ (card.asked # Null /\ mine.now < card.asked + Window)
        /\ mid.seen <= mid.known
  BY <1>3 DEF Withheld
<1> HIDE DEF card, mid, nxt, q
<1>10. "CLEARED" \in Settled
  BY DEF Settled
<1>11. card.known <= mid.known /\ mid.known <= mid.seen
  BY <1>3, <1>6, <1>7, <1>8 DEF CardSettles
<1>12. card.known <= nxt.known /\ nxt.known <= nxt.seen
  BY <1>4, <1>5, <1>6, <1>11
<1>13. card.asked # Null => nxt.asked # Null /\ card.asked <= nxt.asked
  BY <1>1, <1>3, <1>5, <1>6, <1>8
<1>14. nxt.asked # Null => nxt.asked <= ticks
  BY <1>1, <1>3, <1>5, <1>6, <1>7 DEF CardSettles
<1>15. nxt.status \in Settled => nxt.seen <= said[q]
  <2>1. nxt.status \in Settled => mid.status \in Settled
    BY <1>4
  <2>2. mid.status \in Settled => card.status \in Settled \/ q \notin mine.shows
    BY <1>3
  <2>3. CASE card.status \in Settled
    <3>1. mid.seen = card.seen
      BY <1>3, <2>3
    <3>2. card.seen <= said[q]
      BY <1>7, <2>3 DEF CardSettles, card, q
    <3> QED
      BY <1>4, <3>1, <3>2
  <2>4. CASE q \notin mine.shows
    <3>1. mid.seen = card.seen /\ ~(mine.seen[q] > said[q])
      BY <1>3, <1>8, <2>4
    <3> QED
      BY <1>4, <1>6, <1>8, <3>1
  <2> QED
    BY <2>1, <2>2, <2>3, <2>4
<1>16. nxt.status \notin Settled => nxt.seen = mine.seen[q] /\ said[q] < mine.seen[q]
  <2>1. nxt.status \notin Settled => card.status \notin Settled /\ q \in mine.shows
    BY <1>3, <1>4, <1>10
  <2> QED
    BY <1>3, <1>4, <1>6, <1>8, <2>1
<1>17. c \in PutOn(mine) =>
         /\ nxt.asked = mine.now /\ nxt.status \notin Settled
         /\ card.asked # Null /\ nxt.seen <= card.known => card.asked + Window <= mine.now
  <2> SUFFICES ASSUME c \in PutOn(mine)
               PROVE  /\ nxt.asked = mine.now /\ nxt.status \notin Settled
                      /\ card.asked # Null /\ nxt.seen <= card.known => card.asked + Window <= mine.now
    OBVIOUS
  <2>1. nxt.seen <= card.known => mid.seen <= mid.known
    BY <1>4, <1>6, <1>11
  <2>2. card.asked # Null /\ nxt.seen <= card.known => ~(mine.now < card.asked + Window)
    BY <1>5, <1>9, <2>1
  <2> QED
    BY <1>1, <1>4, <1>5, <1>6, <2>2
<1>18. CardSettles(nxt, said, ticks)
  BY <1>4, <1>12, <1>14, <1>15 DEF CardSettles
<1> QED
  BY <1>4, <1>12, <1>13, <1>16, <1>17, <1>18 DEF card, nxt, q

\* And of a new card.
LEMMA NewCardShown ==
  ASSUME InboxTypeOK, NEW mine \in VisitRows, mine.at = "packet", Sees(mine, cards, said), mine.now <= ticks,
         NEW c \in DOMAIN Composed(mine) \ DOMAIN cards
  PROVE  LET nxt == Decided(mine, c)
         IN  /\ CardSettles(nxt, said, ticks) /\ nxt.status \notin Settled
             /\ nxt.seen = mine.seen[nxt.question] /\ said[nxt.question] < mine.seen[nxt.question]
             /\ c \in PutOn(mine) => nxt.asked = mine.now
<1> DEFINE q == Nth(mine, c - Len(cards))
           mid == Composed(mine)[c]
           nxt == Decided(mine, c)
<1>1. /\ cards \in Seq(CardRows) /\ said \in [Questions -> Nat] /\ ticks \in Nat /\ mine.now \in Nat /\ Null \notin Nat
  BY InboxAssumption DEF InboxTypeOK, VisitRows
<1>2. c - Len(cards) \in 1..Cardinality(Fresh(mine)) /\ mid = NewCard(mine, q)
  BY <1>1, CardsComposed
<1>3. q \in Questions /\ q \in mine.shows
  BY <1>2, NewQuestions DEF Fresh
<1> HIDE DEF q
<1>4. /\ mid \in CardRows /\ mid.question = q /\ mid.status = "OPEN" /\ mid.seen = mine.seen[q]
      /\ mid.known = 0 /\ mid.asked = Null
  <2>1. NewCard(mine, q).known = 0 /\ NewCard(mine, q).asked = Null
    BY DEF NewCard
  <2> QED
    BY <1>2, <1>3, <2>1, NewCardType
<1>5. /\ nxt \in CardRows /\ nxt.question = q /\ nxt.seen = mid.seen /\ nxt.status \notin Settled
  <2>1. mid.status \notin Settled
    BY <1>4 DEF Settled
  <2> QED
    BY <1>4, <2>1, DecisionKeeps
<1>6. IF c \in PutOn(mine) THEN nxt.asked = mine.now /\ nxt.known = mid.seen
      ELSE nxt.asked = Null /\ nxt.known = 0
  BY <1>4, DecisionAsks DEF PutOn
<1>7. mine.seen[q] > said[q] /\ mine.seen[q] \in Nat /\ said[q] \in Nat
  BY <1>1, <1>3 DEF Sees, VisitRows
<1> HIDE DEF mid, nxt
<1>8. CardSettles(nxt, said, ticks)
  BY <1>1, <1>4, <1>5, <1>6, <1>7 DEF CardSettles
<1> QED
  BY <1>4, <1>5, <1>6, <1>7, <1>8 DEF nxt

\* What a reading leaves on the cards, all of them.
LEMMA CardsShown ==
  ASSUME InboxInv, CardsSettle, NEW mine \in VisitRows, mine.at = "packet", Sees(mine, cards, said), mine.now <= ticks,
         \A q \in Questions : mine.seen[q] <= pieces[q],
         NEW deck, deck = [c \in DOMAIN Composed(mine) |-> Decided(mine, c)]
  PROVE  /\ DOMAIN cards \subseteq DOMAIN deck /\ deck \in Seq(CardRows) /\ DOMAIN deck = DOMAIN Composed(mine)
         /\ \A c \in DOMAIN deck :
              /\ CardSettles(deck[c], said, ticks) /\ deck[c].question = Composed(mine)[c].question
              /\ deck[c].status \notin Settled =>
                   deck[c].seen = mine.seen[deck[c].question] /\ said[deck[c].question] < mine.seen[deck[c].question]
              /\ c \in PutOn(mine) => deck[c].asked = mine.now /\ deck[c].status \notin Settled
         /\ \A c \in DOMAIN cards :
              /\ deck[c].question = cards[c].question /\ cards[c].known <= deck[c].known
              /\ cards[c].asked # Null => deck[c].asked # Null /\ cards[c].asked <= deck[c].asked
              /\ c \in PutOn(mine) /\ cards[c].asked # Null /\ deck[c].seen <= cards[c].known =>
                   cards[c].asked + Window <= mine.now
         /\ \A c, d \in DOMAIN deck :
              deck[c].question = deck[d].question /\ deck[c].status \notin Settled /\ deck[d].status \notin Settled => c = d
<1>1. /\ deck \in Seq(CardRows) /\ DOMAIN deck = DOMAIN Composed(mine)
      /\ \A c \in DOMAIN cards : c \in DOMAIN deck /\ deck[c].question = cards[c].question
      /\ \A c \in DOMAIN deck : deck[c].question = Composed(mine)[c].question
      /\ \A c, d \in DOMAIN deck :
           deck[c].question = deck[d].question /\ deck[c].status \notin Settled /\ deck[d].status \notin Settled => c = d
  BY CardsEvaluated
<1>2. InboxTypeOK
  BY DEF InboxInv
<1>3. \A c \in DOMAIN deck : deck[c] = Decided(mine, c)
  OBVIOUS
<1>4. ASSUME NEW c \in DOMAIN cards
      PROVE  /\ cards[c].known <= deck[c].known /\ CardSettles(deck[c], said, ticks)
             /\ cards[c].asked # Null => deck[c].asked # Null /\ cards[c].asked <= deck[c].asked
             /\ deck[c].status \notin Settled =>
                  deck[c].seen = mine.seen[deck[c].question] /\ said[deck[c].question] < mine.seen[deck[c].question]
             /\ c \in PutOn(mine) =>
                  /\ deck[c].asked = mine.now /\ deck[c].status \notin Settled
                  /\ cards[c].asked # Null /\ deck[c].seen <= cards[c].known => cards[c].asked + Window <= mine.now
  <2>1. deck[c] = Decided(mine, c)
    BY <1>1, <1>3
  <2> QED
    BY <1>2, <2>1, OldCardShown
<1>5. ASSUME NEW c \in DOMAIN deck \ DOMAIN cards
      PROVE  /\ CardSettles(deck[c], said, ticks) /\ deck[c].status \notin Settled
             /\ deck[c].seen = mine.seen[deck[c].question] /\ said[deck[c].question] < mine.seen[deck[c].question]
             /\ c \in PutOn(mine) => deck[c].asked = mine.now
  <2>1. deck[c] = Decided(mine, c) /\ c \in DOMAIN Composed(mine) \ DOMAIN cards
    BY <1>1, <1>3
  <2> QED
    BY <1>2, <2>1, NewCardShown
<1> QED
  BY <1>1, <1>4, <1>5

\* A finite set of numbers has a greatest one: it is no larger than as many of them.
LEMMA HasGreatest ==
  ASSUME NEW T, T \subseteq Nat, IsFiniteSet(T), T # {}
  PROVE  \E x \in T : \A y \in T : y <= x
<1> DEFINE From(x) == {y \in T : x <= y}
           Parts == {From(x) : x \in T}
<1>1. Parts \subseteq FiniteSubsetsOf(T)
  <2>1. \A x \in T : From(x) \subseteq T /\ IsFiniteSet(From(x))
    BY FS_Subset
  <2> QED
    BY <2>1 DEF FiniteSubsetsOf
<1>2. Parts # {}
  OBVIOUS
<1>3. PICK part \in Parts : \A other \in Parts : ~(<<other, part>> \in StrictSubsetOrdering(T))
  <2> HIDE DEF Parts
  <2> QED
    BY <1>1, <1>2, FS_StrictSubsetOrderingWellFounded, WFMin
<1>4. PICK x \in T : part = From(x)
  BY <1>3
<1>5. ASSUME NEW y \in T PROVE y <= x
  <2> SUFFICES ASSUME x < y PROVE FALSE
    BY <1>4
  <2>1. From(y) \subseteq From(x) /\ x \in From(x) /\ x \notin From(y)
    <3>1. x \in Nat /\ y \in Nat /\ \A z \in T : z \in Nat
      OBVIOUS
    <3>2. x <= x /\ ~(y <= x) /\ \A z \in T : y <= z => x <= z
      BY <3>1
    <3> QED
      BY <3>2
  <2>2. From(y) \in Parts /\ From(y) \subseteq T /\ From(x) \subseteq T
    OBVIOUS
  <2>3. <<From(y), From(x)>> \in StrictSubsetOrdering(T)
    <3> HIDE DEF From
    <3> QED
      BY <2>1, <2>2 DEF StrictSubsetOrdering
  <2> QED
    BY <1>3, <1>4, <2>2, <2>3
<1> QED
  BY <1>5

\* Ranked by value, the cards put on screen are no more than the day has left.
LEMMA FewPutOn ==
  ASSUME cards \in Seq(CardRows), NEW mine \in VisitRows, PutOn(mine) # {},
         Composed(mine) \in Seq(CardRows),
         \A c, d \in PutOn(mine) : Composed(mine)[c].question = Composed(mine)[d].question => c = d
  PROVE  LET today == AskedOn(Today(mine.now))
         IN  /\ IsFiniteSet(today \cup PutOn(mine)) /\ Cardinality(today \cup PutOn(mine)) <= Cap
<1> DEFINE all == Composed(mine)
           today == AskedOn(Today(mine.now))
           value(c) == all[c].question
           T == {value(c) : c \in PutOn(mine)}
<1>1. IsFiniteSet(DOMAIN all) /\ IsFiniteSet(DOMAIN cards) /\ \A c \in DOMAIN all : value(c) \in Questions
  <2>1. DOMAIN all = 1..Len(all) /\ Len(all) \in Nat /\ DOMAIN cards = 1..Len(cards) /\ Len(cards) \in Nat
    BY LenProperties
  <2>2. \A c \in DOMAIN all : value(c) \in Questions
    <3> TAKE c \in DOMAIN all
    <3>1. all[c] \in CardRows
      BY ElementOfSeq, <2>1
    <3> QED
      BY <3>1 DEF CardRows
  <2>3. IsFiniteSet(1..Len(all)) /\ IsFiniteSet(1..Len(cards))
    BY <2>1, FS_Interval
  <2> QED
    BY <2>1, <2>2, <2>3
<1>2. PutOn(mine) \subseteq DOMAIN all /\ today \subseteq DOMAIN cards
  BY DEF PutOn, AskedOn
<1>3. IsFiniteSet(PutOn(mine)) /\ IsFiniteSet(today)
  BY <1>1, <1>2, FS_Subset
<1>4. PICK last \in PutOn(mine) : \A c \in PutOn(mine) : value(c) <= value(last)
  <2>1. T \subseteq Questions /\ T # {}
    BY <1>1, <1>2
  <2>2. T \subseteq Nat /\ IsFiniteSet(T)
    BY <2>1, InboxAssumption, FS_Subset
  <2>3. PICK x \in T : \A y \in T : y <= x
    <3> HIDE DEF T
    <3> QED
      BY <2>1, <2>2, HasGreatest
  <2> QED
    BY <2>3
<1> DEFINE earlier == {d \in DOMAIN all : Wants(mine, d) /\ value(d) < value(last)}
<1>5. IsFiniteSet(earlier) /\ Cardinality(today) + Cardinality(earlier) < Cap
  <2>1. earlier \subseteq DOMAIN all
    OBVIOUS
  <2>2. WithinCap(mine, last)
    BY DEF PutOn
  <2>3. Cardinality(today) + Cardinality(earlier) < Cap
    BY <2>2 DEF WithinCap
  <2> HIDE DEF earlier, all
  <2> QED
    BY <1>1, <2>1, <2>3, FS_Subset
<1>6. PutOn(mine) \ {last} \subseteq earlier
  <2> SUFFICES ASSUME NEW c \in PutOn(mine) \ {last} PROVE c \in earlier
    OBVIOUS
  <2>1. value(c) \in Nat /\ value(last) \in Nat
    BY <1>1, <1>2, InboxAssumption
  <2>2. value(c) <= value(last) /\ value(c) # value(last)
    BY <1>4
  <2>3. Wants(mine, c) /\ c \in DOMAIN all
    BY DEF PutOn
  <2> QED
    BY <2>1, <2>2, <2>3
<1> HIDE DEF earlier, today, all
<1>7. Cardinality(PutOn(mine)) = Cardinality(PutOn(mine) \ {last}) + 1 /\ IsFiniteSet(PutOn(mine) \ {last})
  BY <1>3, FS_RemoveElement, FS_Subset, FS_CardinalityType
<1>8. Cardinality(PutOn(mine) \ {last}) <= Cardinality(earlier)
  BY <1>5, <1>6, FS_Subset
<1>9. /\ IsFiniteSet(today \cup PutOn(mine))
      /\ Cardinality(today \cup PutOn(mine)) <= Cardinality(today) + Cardinality(PutOn(mine))
  <2>1. IsFiniteSet(today \cup PutOn(mine)) /\ IsFiniteSet(today \cap PutOn(mine))
    BY <1>3, FS_Union, FS_Intersection
  <2>2. Cardinality(today \cup PutOn(mine))
          = Cardinality(today) + Cardinality(PutOn(mine)) - Cardinality(today \cap PutOn(mine))
    BY <1>3, FS_Union
  <2> QED
    BY <1>3, <2>1, <2>2, FS_CardinalityType
<1>10. /\ Cardinality(today) \in Nat /\ Cardinality(earlier) \in Nat /\ Cardinality(PutOn(mine) \ {last}) \in Nat
       /\ Cardinality(today \cup PutOn(mine)) \in Nat /\ Cap \in Nat
  BY <1>3, <1>5, <1>7, <1>9, FS_CardinalityType, InboxAssumption
<1> QED
  BY <1>5, <1>7, <1>8, <1>9, <1>10 DEF today

\* Days follow one another as their times do.
LEMMA DaysGoOn == \A s, t \in Nat : s <= t => Today(s) <= Today(t)
  BY InboxAssumption DEF Today

\* What a reading asks.
AskedNow(mine, deck) ==
  {[card |-> c, question |-> deck[c].question, seen |-> deck[c].seen, at |-> mine.now] : c \in PutOn(mine)}

\* A reading asks about nothing it has asked within the window with as much to show, and
\* about no more cards than the day has left.
LEMMA EvaluateAsks ==
  ASSUME InboxInv, AskedInv, NEW r \in Visits, Evaluate(r)
  PROVE  Sparingly'
<1> DEFINE mine == visit[r]
           new_asks == AskedNow(mine, cards')
<1>1. /\ InboxTypeOK /\ cards \in Seq(CardRows) /\ mine \in VisitRows /\ mine.now \in Nat /\ ticks \in 0..Horizon
      /\ Null \notin Nat /\ Window \in Nat /\ said \in [Questions -> Nat] /\ Horizon \in Nat
  BY InboxAssumption DEF InboxInv, InboxTypeOK, VisitRows
<1>2. mine.now <= ticks /\ \A q \in Questions : mine.seen[q] <= pieces[q]
  BY DEF InboxInv, VisitsKnow, VisitKnows
<1>3. /\ UNCHANGED <<ticks, said>> /\ mine.at = "packet"
      /\ cards' = [c \in DOMAIN Composed(mine) |-> Decided(mine, c)]
      /\ asks' = asks \cup new_asks
  BY DEF Evaluate, AskedNow, PutOn
<1>4. Sees(mine, cards, said) /\ CardsSettle /\ AsksStand /\ NotAskedTwice /\ CardsWithinCap
  BY DEF AskedInv, VisitsSee, Sparingly
<1>5. /\ DOMAIN cards \subseteq DOMAIN cards' /\ cards' \in Seq(CardRows) /\ DOMAIN cards' = DOMAIN Composed(mine)
      /\ \A c \in DOMAIN cards' :
           /\ CardSettles(cards'[c], said, ticks) /\ cards'[c].question = Composed(mine)[c].question
           /\ cards'[c].status \notin Settled =>
                /\ cards'[c].seen = mine.seen[cards'[c].question]
                /\ said[cards'[c].question] < mine.seen[cards'[c].question]
           /\ c \in PutOn(mine) => cards'[c].asked = mine.now /\ cards'[c].status \notin Settled
      /\ \A c \in DOMAIN cards :
           /\ cards'[c].question = cards[c].question /\ cards[c].known <= cards'[c].known
           /\ cards[c].asked # Null => cards'[c].asked # Null /\ cards[c].asked <= cards'[c].asked
           /\ c \in PutOn(mine) /\ cards[c].asked # Null /\ cards'[c].seen <= cards[c].known =>
                cards[c].asked + Window <= mine.now
      /\ \A c, d \in DOMAIN cards' :
           cards'[c].question = cards'[d].question /\ cards'[c].status \notin Settled /\ cards'[d].status \notin Settled
           => c = d
  BY <1>1, <1>2, <1>3, <1>4, CardsShown
<1>6. /\ PutOn(mine) \subseteq DOMAIN cards'
      /\ \A c \in DOMAIN cards' :
           /\ c \in Nat /\ cards'[c].question \in Questions /\ cards'[c].seen \in Nat /\ cards'[c].known \in Nat
           /\ cards'[c].asked \in Nat \cup {Null}
      /\ \A c \in DOMAIN cards : cards[c].known \in Nat /\ cards[c].asked \in Nat \cup {Null} /\ cards[c].seen \in Nat
  <2>1. PutOn(mine) \subseteq DOMAIN cards'
    BY <1>5 DEF PutOn
  <2>2. /\ \A c \in DOMAIN cards' : c \in Nat /\ cards'[c] \in CardRows
        /\ \A c \in DOMAIN cards : cards[c] \in CardRows
    BY <1>1, <1>5, ElementOfSeq, LenProperties
  <2> QED
    BY <2>1, <2>2 DEF CardRows
<1> HIDE DEF mine
<1>7. \A b \in new_asks : \E c \in PutOn(mine) :
        /\ b = [card |-> c, question |-> cards'[c].question, seen |-> cards'[c].seen, at |-> mine.now]
        /\ b.card = c /\ b.question = cards'[c].question /\ b.seen = cards'[c].seen /\ b.at = mine.now
  BY DEF AskedNow
<1> HIDE DEF new_asks
<1>8. \A a \in asks :
        /\ a.card \in DOMAIN cards /\ a.question = cards[a.card].question
        /\ cards[a.card].asked # Null /\ a.at <= cards[a.card].asked /\ a.seen <= cards[a.card].known
        /\ a \in AskRows /\ a.card \in Nat /\ a.question \in Questions /\ a.seen \in Nat /\ a.at \in Nat
  BY <1>4 DEF AsksStand, AskRows
<1>9. AsksStand'
  <2>1. asks' \subseteq AskRows
    <3>1. new_asks \subseteq AskRows
      <4> SUFFICES ASSUME NEW b \in new_asks PROVE b \in AskRows
        OBVIOUS
      <4>1. PICK c \in PutOn(mine) :
              b = [card |-> c, question |-> cards'[c].question, seen |-> cards'[c].seen, at |-> mine.now]
        BY <1>7
      <4> QED
        BY <1>1, <1>6, <4>1 DEF AskRows
    <3> QED
      BY <1>3, <1>8, <3>1
  <2>2. ASSUME NEW a \in asks
        PROVE  /\ a.card \in DOMAIN cards' /\ a.question = cards'[a.card].question
               /\ cards'[a.card].asked # Null /\ a.at <= cards'[a.card].asked /\ a.seen <= cards'[a.card].known
    BY <1>5, <1>6, <1>8
  <2>3. ASSUME NEW b \in new_asks
        PROVE  /\ b.card \in DOMAIN cards' /\ b.question = cards'[b.card].question
               /\ cards'[b.card].asked # Null /\ b.at <= cards'[b.card].asked /\ b.seen <= cards'[b.card].known
    <3>1. PICK c \in PutOn(mine) :
            b.card = c /\ b.question = cards'[c].question /\ b.seen = cards'[c].seen /\ b.at = mine.now
      BY <1>7
    <3>2. cards'[c].seen <= cards'[c].known
      <4>1. cards'[c].known = cards'[c].seen
        <5>1. Composed(mine)[c] \in CardRows /\ cards'[c] = Decided(mine, c)
          BY <1>1, <1>3, <1>5, <1>6, CardsComposed, ElementOfSeq, LenProperties
        <5> QED
          BY <1>1, <5>1, DecisionAsks, DecisionKeeps DEF PutOn
      <4> QED
        BY <1>6, <4>1
    <3> QED
      BY <1>1, <1>5, <1>6, <3>1, <3>2
  <2> QED
    BY <1>3, <2>1, <2>2, <2>3 DEF AsksStand
<1>10. CardsSettle'
  BY <1>3, <1>5 DEF CardsSettle
<1>11. NotAskedTwice'
  <2>1. ASSUME NEW a \in asks, NEW b \in new_asks, a.question = b.question, a.seen = b.seen
        PROVE  a.at + Window <= b.at
    <3>1. PICK c \in PutOn(mine) :
            b.card = c /\ b.question = cards'[c].question /\ b.seen = cards'[c].seen /\ b.at = mine.now
      BY <1>7
    <3> DEFINE d == a.card
    <3>2. /\ d \in DOMAIN cards /\ a.question = cards'[d].question /\ cards[d].asked \in Nat
          /\ a.at <= cards[d].asked /\ a.seen <= cards[d].known /\ a.seen <= cards'[d].known
      <4>1. /\ d \in DOMAIN cards /\ a.question = cards[d].question /\ cards[d].asked # Null
            /\ a.at <= cards[d].asked /\ a.seen <= cards[d].known /\ a.seen \in Nat
        BY <1>8
      <4>2. cards[d].known \in Nat /\ cards'[d].known \in Nat /\ cards[d].known <= cards'[d].known
            /\ cards'[d].question = cards[d].question /\ cards[d].asked \in Nat
        BY <1>5, <1>6, <4>1
      <4> QED
        BY <4>1, <4>2
    <3> HIDE DEF d
    <3>3. CASE d = c
      <4>1. cards'[c].seen <= cards[d].known
        BY <2>1, <3>1, <3>2
      <4>2. cards[d].asked + Window <= mine.now
        BY <1>1, <1>5, <3>2, <3>3, <4>1
      <4> QED
        BY <1>1, <1>8, <3>1, <3>2, <4>2
    <3>4. CASE d # c
      <4>1. c \in DOMAIN cards' /\ d \in DOMAIN cards' /\ cards'[d].question = cards'[c].question
            /\ cards'[c].status \notin Settled
        BY <1>5, <1>6, <2>1, <3>1, <3>2
      <4>2. cards'[d].status \in Settled
        BY <1>5, <3>4, <4>1
      <4>3. /\ cards'[d].known <= cards'[d].seen /\ cards'[d].seen <= said[cards'[c].question]
            /\ said[cards'[c].question] < cards'[c].seen
        <5>1. CardSettles(cards'[d], said, ticks)
          BY <1>5, <4>1
        <5> QED
          BY <1>5, <4>1, <4>2, <5>1 DEF CardSettles
      <4>4. /\ cards'[d].known \in Nat /\ cards'[d].seen \in Nat /\ said[cards'[c].question] \in Nat
            /\ cards'[c].seen \in Nat /\ a.seen \in Nat /\ a.seen = cards'[c].seen
        BY <1>1, <1>6, <1>8, <2>1, <3>1, <4>1
      <4> QED
        BY <3>2, <4>3, <4>4
    <3> QED
      BY <3>3, <3>4
  <2>2. ASSUME NEW a \in new_asks, NEW b \in new_asks, a.question = b.question PROVE a = b
    <3>1. PICK c \in PutOn(mine) :
            /\ a = [card |-> c, question |-> cards'[c].question, seen |-> cards'[c].seen, at |-> mine.now]
            /\ a.question = cards'[c].question
      BY <1>7
    <3>2. PICK d \in PutOn(mine) :
            /\ b = [card |-> d, question |-> cards'[d].question, seen |-> cards'[d].seen, at |-> mine.now]
            /\ b.question = cards'[d].question
      BY <1>7
    <3>3. c = d
      BY <1>5, <1>6, <2>2, <3>1, <3>2
    <3> QED
      BY <3>1, <3>2, <3>3
  <2> SUFFICES ASSUME NEW a \in asks', NEW b \in asks', a # b, a.question = b.question, a.seen = b.seen
               PROVE  a.at + Window <= b.at \/ b.at + Window <= a.at
    BY DEF NotAskedTwice
  <2>3. CASE a \in asks /\ b \in asks
    BY <1>4, <2>3 DEF NotAskedTwice
  <2>4. CASE a \in asks /\ b \in new_asks
    BY <2>1, <2>4
  <2>5. CASE a \in new_asks /\ b \in asks
    BY <2>1, <2>5
  <2>6. CASE a \in new_asks /\ b \in new_asks
    BY <2>2, <2>6
  <2> QED
    BY <1>3, <2>3, <2>4, <2>5, <2>6
<1>12. CardsWithinCap'
  <2> DEFINE On(set, t) == {a.card : a \in {b \in set : Today(b.at) = Today(t)}}
  <2> SUFFICES ASSUME NEW t \in 0..Horizon PROVE Cardinality(On(asks', t)) <= Cap
    BY DEF CardsWithinCap
  <2>1. Cardinality(On(asks, t)) <= Cap
    BY <1>4 DEF CardsWithinCap
  <2>2. On(asks', t) = On(asks, t) \cup On(new_asks, t)
    BY <1>3
  <2>3. CASE On(new_asks, t) = {}
    BY <2>1, <2>2, <2>3
  <2>4. CASE On(new_asks, t) # {}
    <3>1. On(new_asks, t) \subseteq PutOn(mine) /\ PutOn(mine) # {} /\ Today(mine.now) = Today(t)
      <4>1. \A b \in new_asks : b.card \in PutOn(mine) /\ b.at = mine.now
        BY <1>7
      <4>2. PICK b \in new_asks : Today(b.at) = Today(t)
        BY <2>4
      <4> QED
        BY <4>1, <4>2
    <3> DEFINE today == AskedOn(Today(mine.now))
    <3>2. On(asks, t) \subseteq today
      <4> SUFFICES ASSUME NEW a \in asks, Today(a.at) = Today(t) PROVE a.card \in today
        OBVIOUS
      <4>1. /\ a.card \in DOMAIN cards /\ cards[a.card].asked \in Nat /\ a.at \in Nat
            /\ a.at <= cards[a.card].asked /\ cards[a.card].asked <= mine.now
        <5>1. cards[a.card].asked # Null /\ a.card \in DOMAIN cards /\ a.at \in Nat /\ a.at <= cards[a.card].asked
          BY <1>8
        <5> QED
          BY <1>3, <1>4, <1>6, <5>1 DEF Sees
      <4>2. Today(a.at) <= Today(cards[a.card].asked) /\ Today(cards[a.card].asked) <= Today(mine.now)
        BY <1>1, <4>1, DaysGoOn
      <4>3. Today(cards[a.card].asked) = Today(mine.now)
        <5>1. Today(a.at) \in Nat /\ Today(cards[a.card].asked) \in Nat /\ Today(mine.now) \in Nat
          BY <1>1, <4>1, DayOf
        <5> QED
          BY <3>1, <4>2, <5>1
      <4> QED
        BY <1>1, <4>1, <4>3 DEF AskedOn
    <3>3. IsFiniteSet(today \cup PutOn(mine)) /\ Cardinality(today \cup PutOn(mine)) <= Cap
      <4>1. \A c, d \in PutOn(mine) : Composed(mine)[c].question = Composed(mine)[d].question => c = d
        BY <1>5, <1>6
      <4>2. Composed(mine) \in Seq(CardRows)
        BY <1>1, CardsComposed
      <4> QED
        BY <1>1, <3>1, <4>1, <4>2, FewPutOn
    <3> HIDE DEF today, On
    <3>4. On(asks', t) \subseteq today \cup PutOn(mine)
      BY <2>2, <3>1, <3>2
    <3>5. /\ Cardinality(On(asks', t)) <= Cardinality(today \cup PutOn(mine))
          /\ Cardinality(On(asks', t)) \in Nat /\ Cardinality(today \cup PutOn(mine)) \in Nat /\ Cap \in Nat
      BY <3>3, <3>4, FS_Subset, FS_CardinalityType, InboxAssumption
    <3> QED
      BY <3>3, <3>5
  <2> QED
    BY <2>3, <2>4
<1> QED
  BY <1>9, <1>10, <1>11, <1>12 DEF Sparingly

\* What a reading has a rule answer is answered up to where the reading had it.
LEMMA EvaluateSees ==
  ASSUME InboxInv, AskedInv, NEW r \in Visits, Evaluate(r), OneVisit'
  PROVE  AskedInv'
<1> DEFINE mine == visit[r]
           answered == IF RulesFor = {} THEN {} ELSE {c \in DOMAIN Composed(mine) : Due(mine, c)}
<1>1. /\ InboxTypeOK /\ visit \in [Visits -> VisitRows] /\ cards \in Seq(CardRows) /\ mine \in VisitRows
      /\ rules \in Seq(RuleRows)
  BY DEF InboxInv, InboxTypeOK
<1>2. mine.now <= ticks /\ \A q \in Questions : mine.seen[q] <= pieces[q]
  BY DEF InboxInv, VisitsKnow, VisitKnows
<1>3. /\ said' = said /\ mine.at = "packet" /\ cards' = [c \in DOMAIN Composed(mine) |-> Decided(mine, c)]
  BY DEF Evaluate
<1>4. PICK i \in IF answered = {} THEN {0} ELSE RulesFor :
        visit' = [visit EXCEPT ![r] =
                    IF answered = {} THEN Nothing ELSE Applying([mine EXCEPT !.apply = answered, !.rule = i])]
  BY DEF Evaluate, To
<1>5. Sees(mine, cards, said) /\ CardsSettle
  BY DEF AskedInv, VisitsSee, Sparingly
<1>6. /\ DOMAIN cards' = DOMAIN Composed(mine) /\ cards' \in Seq(CardRows)
      /\ \A c \in DOMAIN cards' :
           /\ cards'[c].question = Composed(mine)[c].question
           /\ cards'[c].status \notin Settled => cards'[c].seen = mine.seen[cards'[c].question]
  BY <1>1, <1>2, <1>3, <1>5, CardsShown
<1>7. mine # Nothing
  BY <1>3 DEF Nothing
<1>8. VisitsSee'
  <2>1. CASE answered = {}
    <3>1. visit' = [visit EXCEPT ![r] = Nothing] /\ Sees(Nothing, cards', said')
      BY <1>4, <2>1 DEF Sees, Nothing
    <3> QED
      BY <1>1, <1>7, <3>1, OnlyOneSees DEF AskedInv
  <2>2. CASE answered # {}
    <3> DEFINE record == [mine EXCEPT !.apply = answered, !.rule = i]
    <3>1. visit' = [visit EXCEPT ![r] = Applying(record)] /\ i \in RulesFor /\ i \in DOMAIN rules /\ i \in Nat
      <4>1. i \in RulesFor /\ i \in DOMAIN rules
        BY <1>4, <2>2 DEF RulesFor
      <4>2. i \in Nat
        BY <1>1, <4>1, LenProperties
      <4>3. visit' = [visit EXCEPT ![r] = Applying(record)]
        <5> HIDE DEF answered, mine
        <5> QED
          BY <1>4, <2>2, Zenon
      <4> QED
        BY <4>1, <4>2, <4>3
    <3>2. answered \subseteq DOMAIN Composed(mine) /\ answered \subseteq Nat
      <4>1. DOMAIN Composed(mine) \subseteq Nat
        BY <1>6, LenProperties
      <4> QED
        BY <4>1
    <3>3. \A c \in answered : /\ cards'[c].question = Composed(mine)[c].question
                              /\ cards'[c].seen = mine.seen[cards'[c].question]
      <4> SUFFICES ASSUME NEW c \in answered
                   PROVE  /\ cards'[c].question = Composed(mine)[c].question
                          /\ cards'[c].seen = mine.seen[cards'[c].question]
        OBVIOUS
      <4>1. Composed(mine)[c].status \notin Settled /\ c \in DOMAIN Composed(mine)
        BY <2>2 DEF Due
      <4>2. cards'[c] = Decided(mine, c) /\ Composed(mine)[c] \in CardRows
        BY <1>1, <1>3, <4>1, CardsComposed, ElementOfSeq, LenProperties
      <4>3. cards'[c].status \notin Settled
        BY <1>1, <4>1, <4>2, DecisionKeeps
      <4> QED
        BY <1>6, <4>1, <4>3
    <3> HIDE DEF answered
    <3>4. /\ record \in VisitRows /\ record.apply = answered /\ record.rule = i /\ record.now = mine.now
          /\ record.seen = mine.seen /\ record.shows = mine.shows
      BY <1>1, <3>1, <3>2 DEF VisitRows
    <3> HIDE DEF record
    <3>5. Composed(record) = Composed(mine)
      BY <3>4 DEF Composed, Refreshed, Fresh, NewCard
    <3>6. Sees(Applying(record), cards', said')
      <4> HIDE DEF mine
      <4> QED
        BY <1>1, <2>2, <3>1, <3>2, <3>3, <3>4, <3>5, ApplyingSees
    <3> QED
      BY <1>1, <1>7, <3>1, <3>6, OnlyOneSees DEF AskedInv
  <2> QED
    BY <2>1, <2>2
<1> QED
  BY <1>8, EvaluateAsks DEF AskedInv

\* Every step of requests that do not overlap.
LEMMA AskedStep ==
  ASSUME InboxInv, AskedInv, Eyes \subseteq {Questions}, InboxNext \/ UNCHANGED inboxVars, OneVisit'
  PROVE  AskedInv'
<1>0. ticks \in Nat
  BY InboxAssumption DEF InboxInv, InboxTypeOK
<1>1. ASSUME NEW r \in Visits, NEW eyes \in Eyes, ReadPacket(r, eyes) PROVE AskedInv'
  BY <1>1, ReadPacketSees
<1>2. ASSUME NEW r \in Visits, NEW c \in DOMAIN cards, NEW choice \in Effects, BeginAnswer(r, c, choice) PROVE AskedInv'
  BY <1>2, BeginAnswerSees
<1>3. ASSUME NEW r \in Visits, Evaluate(r) \/ WriteDeltas(r) \/ ProposeAnswer(r) \/ RecordAnswer(r) \/ Leave(r)
      PROVE  AskedInv'
  BY <1>3, EvaluateSees, WriteDeltasSees, ProposeAnswerSees, RecordAnswerSees
<1>4. ASSUME NEW i \in DOMAIN rules, ApproveRule(i) \/ RevokeRule(i) PROVE AskedInv'
  BY <1>0, <1>4, WorldSees DEF ApproveRule, RevokeRule
<1>5. ASSUME NEW q \in Questions, Extract(q) PROVE AskedInv'
  BY <1>0, <1>5, WorldSees DEF Extract
<1>6. CASE Tick
  BY <1>0, <1>6, WorldSees DEF Tick
<1>7. CASE UNCHANGED inboxVars
  BY <1>0, <1>7, WorldSees DEF inboxVars
<1> QED
  BY <1>1, <1>2, <1>3, <1>4, <1>5, <1>6, <1>7 DEF InboxNext

\* No card, nobody asked.
LEMMA AskedInit == InboxInit => AskedInv
<1> SUFFICES ASSUME InboxInit PROVE AskedInv
  OBVIOUS
<1>1. DOMAIN cards = {} /\ asks = {} /\ \A r \in Visits : visit[r] = Nothing
  BY DEF InboxInit
<1>2. OneVisit /\ AsksStand /\ CardsSettle /\ NotAskedTwice
  BY <1>1 DEF OneVisit, AsksStand, CardsSettle, NotAskedTwice
<1>3. VisitsSee
  BY <1>1 DEF VisitsSee, Sees, Nothing
<1>4. CardsWithinCap
  <2> SUFFICES ASSUME NEW t \in 0..Horizon
               PROVE  Cardinality({a.card : a \in {b \in asks : Today(b.at) = Today(t)}}) <= Cap
    BY DEF CardsWithinCap
  <2>1. {a.card : a \in {b \in asks : Today(b.at) = Today(t)}} = {}
    BY <1>1
  <2>2. Cardinality({}) = 0 /\ 0 <= Cap
    BY FS_EmptySet, InboxAssumption
  <2> QED
    BY <2>1, <2>2
<1> QED
  BY <1>2, <1>3, <1>4 DEF AskedInv, Sparingly

-----------------------------------------------------------------------------
(*                     Side by side, with Erasure                          *)

Deletion == INSTANCE ErasureProofs WITH Evidence <- Two, Propositions <- Three, MaxClaims <- 2, MaxComputed <- 2,
       MaxExtras <- 2

\* The instance's erasure is the one its proofs are about, word for word.
LEMMA ErasureBegins == E!Init => Deletion!ErasureInv
<1>1. Deletion!Init => Deletion!ErasureInv
  BY Deletion!ErasureStarts
<1>2. E!Init => Deletion!Init
  BY DEF E!Init, E!Nothing, E!Idle, E!NoItem,
     Deletion!Init, Deletion!Nothing, Deletion!Idle, Deletion!NoItem
<1> QED
  BY <1>1, <1>2

LEMMA ErasureGoesOn == Deletion!ErasureInv /\ (E!Next \/ UNCHANGED erasure) => Deletion!ErasureInv'
<1>0. Deletion!IsFiniteSet(Three) /\ 2 \in Nat
  BY PropositionsAssumption DEF Deletion!IsFiniteSet, IsFiniteSet
<1>1. Deletion!ErasureInv /\ (Deletion!Next \/ UNCHANGED Deletion!vars) => Deletion!ErasureInv'
  BY <1>0, Deletion!ErasureStepKeeps
<1>2. E!Next => Deletion!Next
  BY DEF E!Next, E!Ingest, E!Erase, E!DeleteObject, E!StorageFails, E!StoreClaim, E!Reject, E!AddSupport,
     E!LoadDerive, E!WriteDerive, E!CommitLost, E!PreviewRollback, E!CommitErasure, E!Claims, E!Edges,
     E!Computations, E!NoItem, E!Nothing, E!Idle, E!Less, E!And, E!HasRoom, E!ClaimsOn, E!AnchoredIn,
     E!LiveClaims, E!GroundedBy, E!Grounded, E!Broken, E!Fallen, E!Cascade, E!Waits, E!Cardinality,
     E!IsFiniteSet,
     Deletion!Next, Deletion!Ingest, Deletion!Erase, Deletion!DeleteObject, Deletion!StorageFails,
     Deletion!StoreClaim, Deletion!Reject, Deletion!AddSupport, Deletion!LoadDerive, Deletion!WriteDerive,
     Deletion!CommitLost, Deletion!PreviewRollback, Deletion!CommitErasure, Deletion!Claims, Deletion!Edges,
     Deletion!Computations, Deletion!NoItem, Deletion!Nothing, Deletion!Idle, Deletion!Less, Deletion!And,
     Deletion!HasRoom, Deletion!ClaimsOn, Deletion!AnchoredIn, Deletion!LiveClaims, Deletion!GroundedBy,
     Deletion!Grounded, Deletion!Broken, Deletion!Fallen, Deletion!Cascade, Deletion!Waits,
     Deletion!Cardinality, Deletion!IsFiniteSet
<1>3. UNCHANGED erasure => UNCHANGED Deletion!vars
  BY DEF erasure, Deletion!vars
<1> QED
  BY <1>1, <1>2, <1>3

LEMMA ErasureHolds ==
  ASSUME Deletion!ErasureInv
  PROVE  E!TypeOK /\ E!CascadeTakesWhatFell /\ E!OrderDoesNotMatter /\ E!ErasedMeansGone /\ E!NothingQuotesTheErased
<1>1. Deletion!IsFiniteSet(Three) /\ 2 \in Nat
  BY PropositionsAssumption DEF Deletion!IsFiniteSet, IsFiniteSet
<1>2. /\ Deletion!TypeOK /\ Deletion!CascadeTakesWhatFell /\ Deletion!OrderDoesNotMatter
      /\ Deletion!ErasedMeansGone /\ Deletion!NothingQuotesTheErased
  BY <1>1, Deletion!ErasureIsRight
<1>3. E!TypeOK
  BY <1>2 DEF E!TypeOK, E!Claims, E!Edges, E!Cardinality, E!IsFiniteSet,
     Deletion!TypeOK, Deletion!Claims, Deletion!Edges, Deletion!Cardinality, Deletion!IsFiniteSet
<1>4. E!CascadeTakesWhatFell
  BY <1>2 DEF E!CascadeTakesWhatFell, E!Standing, E!Less,
     Deletion!CascadeTakesWhatFell, Deletion!Standing, Deletion!Less
<1>5. E!OrderDoesNotMatter
  BY <1>2 DEF E!OrderDoesNotMatter, E!Less, E!ClaimsOn, E!AnchoredIn, E!LiveClaims, E!GroundedBy, E!Grounded, E!Broken,
     E!Fallen, E!Cascade, E!Cardinality, E!IsFiniteSet,
     Deletion!OrderDoesNotMatter, Deletion!Less, Deletion!ClaimsOn, Deletion!AnchoredIn, Deletion!LiveClaims,
     Deletion!GroundedBy, Deletion!Grounded, Deletion!Broken, Deletion!Fallen, Deletion!Cascade,
     Deletion!Cardinality, Deletion!IsFiniteSet
<1>6. E!ErasedMeansGone
  BY <1>2 DEF E!ErasedMeansGone, E!AnchoredIn,
     Deletion!ErasedMeansGone, Deletion!AnchoredIn
<1>7. E!NothingQuotesTheErased
  BY <1>2 DEF E!NothingQuotesTheErased, E!Tainted, E!ClaimsOn, E!AnchoredIn, E!LiveClaims, E!GroundedBy, E!Grounded,
     E!Broken, E!Fallen, E!Cascade, E!Cardinality, E!IsFiniteSet,
     Deletion!NothingQuotesTheErased, Deletion!Tainted, Deletion!ClaimsOn, Deletion!AnchoredIn,
     Deletion!LiveClaims, Deletion!GroundedBy, Deletion!Grounded, Deletion!Broken, Deletion!Fallen,
     Deletion!Cascade, Deletion!Cardinality, Deletion!IsFiniteSet
<1> QED
  BY <1>3, <1>4, <1>5, <1>6, <1>7

\* The invariants of the five subjects, side by side.
OwnerInv == IInv /\ Deletion!ErasureInv /\ IntakeInv /\ ActionInv /\ InboxInv

LEMMA OwnerBegins == MCInit => OwnerInv
<1> SUFFICES ASSUME MCInit PROVE OwnerInv
  OBVIOUS
<1>1. Init /\ E!Init /\ IntakeInit /\ ActionInit /\ InboxInit
  BY DEF MCInit
<1> QED
  BY <1>1, InvInit, ErasureBegins, IntakeInitHolds, ActionInitHolds, InboxStarts DEF OwnerInv

LEMMA OwnerGoesOn ==
  OwnerInv /\ [MCNext]_<<vars, erasure, intakeVars, actionVars, inboxVars, alone, subject>> => OwnerInv'
<1> SUFFICES ASSUME OwnerInv, [MCNext]_<<vars, erasure, intakeVars, actionVars, inboxVars, alone, subject>>
             PROVE  OwnerInv'
  OBVIOUS
<1>1. Next \/ UNCHANGED vars
  BY DEF MCNext
<1>2. E!Next \/ UNCHANGED erasure
  BY DEF MCNext
<1>3. IntakeNext \/ UNCHANGED intakeVars
  BY DEF MCNext
<1>4. ActionNext \/ UNCHANGED actionVars
  BY DEF MCNext
<1>5. InboxNext \/ UNCHANGED inboxVars
  BY DEF MCNext
<1>6. IInv'
  BY <1>1, InvStep DEF OwnerInv
<1>7. Deletion!ErasureInv'
  BY <1>2, ErasureGoesOn DEF OwnerInv
<1>8. IntakeInv'
  BY <1>3, IntakeNextHolds DEF OwnerInv
<1>9. ActionInv'
  BY <1>4, ActionNextHolds DEF OwnerInv
<1>10. InboxInv'
  BY <1>5, InboxStepKeeps DEF OwnerInv
<1> QED
  BY <1>6, <1>7, <1>8, <1>9, <1>10 DEF OwnerInv

\* Every row and every request has its shape, in all five.
THEOREM OwnerDataTypes == MCSpec => []TypesOK
<1>1. OwnerInv => TypesOK
  <2>1. OwnerInv => TypeOK /\ IntakeTypeOK /\ ActionTypeOK /\ InboxTypeOK
    BY DEF OwnerInv, IInv, IntakeInv, ActionInv, InboxInv
  <2>2. OwnerInv => E!TypeOK
    BY ErasureHolds DEF OwnerInv
  <2> QED
    BY <2>1, <2>2 DEF TypesOK
<1> QED
  BY <1>1, OwnerBegins, OwnerGoesOn, PTL DEF MCSpec

\* Whatever is stored and deleted meanwhile, a deletion takes what no longer stands on live
\* evidence and nothing that does, and nothing goes on quoting it.
THEOREM DeletionTakes == MCSpec => []DeletionTakesWhatFell
<1>1. OwnerInv => DeletionTakesWhatFell
  <2> SUFFICES ASSUME OwnerInv PROVE DeletionTakesWhatFell
    OBVIOUS
  <2>1. E!CascadeTakesWhatFell /\ E!OrderDoesNotMatter /\ E!ErasedMeansGone /\ E!NothingQuotesTheErased
    BY ErasureHolds DEF OwnerInv
  <2> QED
    BY <2>1 DEF DeletionTakesWhatFell
<1> QED
  BY <1>1, OwnerBegins, OwnerGoesOn, PTL DEF MCSpec

\* The instance's run of the inbox, and the other parts of it, which leave it alone.
AskedSound == subject = "inbox" /\ alone => AskedInv

LEMMA AskedSoundStep ==
  ASSUME Eyes \subseteq {Questions}
  PROVE  OwnerInv /\ AskedSound
           /\ [MCNext]_<<vars, erasure, intakeVars, actionVars, inboxVars, alone, subject>> => AskedSound'
<1> SUFFICES ASSUME OwnerInv, AskedSound,
                    [MCNext]_<<vars, erasure, intakeVars, actionVars, inboxVars, alone, subject>>,
                    subject' = "inbox", alone'
             PROVE  AskedInv'
  BY DEF AskedSound
<1>1. subject = "inbox" /\ alone /\ InboxInv /\ (InboxNext \/ UNCHANGED inboxVars)
      /\ (inboxVars' = inboxVars \/ Cardinality({r \in Visits : visit'[r] # Nothing}) <= 1)
  BY DEF MCNext, OwnerInv
<1>2. AskedInv
  BY <1>1 DEF AskedSound
<1>3. OneVisit'
  <2>1. CASE inboxVars' = inboxVars
    BY <1>2, <2>1 DEF inboxVars, AskedInv, OneVisit
  <2>2. CASE Cardinality({r \in Visits : visit'[r] # Nothing}) <= 1
    BY <1>1, <1>2, <2>2, StillOneVisit DEF InboxInv, InboxTypeOK, AskedInv
  <2> QED
    BY <1>1, <2>1, <2>2
<1> QED
  BY <1>1, <1>2, <1>3, AskedStep

\* Where every reading may show every question and no two requests overlap, the owner is
\* not asked twice within the window with nothing new to show, and on no day about more
\* cards than the budget has.
THEOREM AskedSparingly == ASSUME Eyes \subseteq {Questions} PROVE MCSpec => []AskedSparinglyAlone
<1>1. MCInit => AskedSound
  BY AskedInit DEF MCInit, AskedSound
<1>2. AskedSound => AskedSparinglyAlone
  BY DEF AskedSound, AskedInv, Sparingly, AskedSparinglyAlone
<1> QED
  BY <1>1, <1>2, OwnerBegins, OwnerGoesOn, AskedSoundStep, PTL DEF MCSpec
=============================================================================
