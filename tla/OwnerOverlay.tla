---------------------------- MODULE OwnerOverlay ----------------------------
(***************************************************************************)
(* What the owner says about memory, from any device (packages/memory,     *)
(* packages/api): a request stores the words as evidence and a delta under *)
(* the owner's next sequence number; a correction control then proposes a  *)
(* belief transaction and records which control it was, each in a          *)
(* transaction of its own.  Devices poll the overlay from the number they  *)
(* last saw.  A governed commit whose claims contradict a pending delta    *)
(* contests it.                                                            *)
(*                                                                         *)
(* now() is the start of a transaction, here a tick of `clock`.  All       *)
(* values belong to one belief slot.                                       *)
(***************************************************************************)
EXTENDS Integers, FiniteSetsExt

CONSTANTS Sessions,
          Requests,     \* idempotency keys of the owner's writes
          Kind, Target, \* of each request: its delta kind and the value it is about
          Controls,     \* requests that are correction controls
          Proposing,    \* those that propose a belief transaction
          Values,       \* values a commit may assert
          Feeds,        \* how those commits come by their claims
          Limit,        \* deltas one read returns
          MaxClock,     \* transactions begun
          None

Corrective == {"USER_CORRECTION", "USER_REJECTION"}
Affirmative == {"USER_ASSERTION", "USER_CONFIRMATION"}

ASSUME RequestAssumption ==
  /\ Kind \in [Requests -> Corrective \cup Affirmative \cup {"KEEP_UNCERTAIN"}]
  /\ Proposing \subseteq Controls /\ Controls \subseteq Requests
  /\ None \notin Requests \cup Values
  /\ Feeds \subseteq {"add_claim", "worker"}
  /\ Limit \in Nat \ {0} /\ MaxClock \in Nat

VARIABLES clock,
          sequence,   \* owner_sequences.last_sequence
          deltas,     \* owner_overlay_deltas
          proposed,   \* requests with a belief transaction
          recorded,   \* requests with a memory operation
          claims,     \* committed claims: a value, when it was recorded, who created it
          session,
          device      \* a polling device: its watermark and the deltas it was shown

vars == <<clock, sequence, deltas, proposed, recorded, claims, session, device>>

Pending == "USER_ASSERTED"
Delta == [n : Nat, request : Requests, at : 0..MaxClock, lifecycle : {Pending, "CONTESTED"}]

\* "begun", "written", "stored", "proposed" are an owner's write; "governing" and
\* "scanned" a commit of claims.
Places == {"idle", "begun", "written", "stored", "proposed", "governing", "scanned"}
Idle == [at |-> "idle", request |-> None, now |-> 0, n |-> 0, value |-> None, feed |-> "worker", contests |-> {}]

Init ==
  /\ clock = 0 /\ sequence = 0
  /\ deltas = {} /\ claims = {}
  /\ proposed = {} /\ recorded = {}
  /\ session = [s \in Sessions |-> Idle]
  /\ device = [since |-> 0, shown |-> {}]

Others(s) == {session[r] : r \in Sessions \ {s}}

-----------------------------------------------------------------------------
(* The owner's writes.                                                     *)

\* A client may send a request again whenever it has seen no answer.
Begin(s, request) ==
  /\ session[s].at = "idle"
  /\ clock < MaxClock
  /\ clock' = clock + 1
  /\ session' = [session EXCEPT ![s] = [Idle EXCEPT !.at = "begun", !.request = request, !.now = clock + 1]]
  /\ UNCHANGED <<sequence, deltas, proposed, recorded, claims, device>>

SequenceFree_Always(s) == TRUE

\* One row per owner: whoever has allocated holds it until its transaction ends.
SequenceFree(s) == \A other \in Others(s) : other.at # "written"

\* Evidence, which a repeated request finds, and a delta, which it does not.
Write(s) ==
  /\ session[s].at = "begun"
  /\ SequenceFree(s)
  /\ session' = [session EXCEPT ![s].at = "written", ![s].n = sequence + 1]
  /\ UNCHANGED <<clock, sequence, deltas, proposed, recorded, claims, device>>

\* From here the write is visible; a plain delta is acknowledged.
CommitDelta(s) ==
  LET w == session[s] IN
  /\ w.at = "written"
  /\ sequence' = w.n
  /\ deltas' = deltas \cup {[n |-> w.n, request |-> w.request, at |-> w.now, lifecycle |-> Pending]}
  /\ session' = [session EXCEPT ![s] = IF w.request \in Controls THEN [Idle EXCEPT !.at = "stored", !.request = w.request] ELSE Idle]
  /\ UNCHANGED <<clock, proposed, recorded, claims, device>>

ProposeControl_Every(s) ==
  /\ session[s].at = "stored"
  /\ proposed' = proposed \cup {session[s].request}
  /\ session' = [session EXCEPT ![s].at = "proposed"]
  /\ UNCHANGED <<clock, sequence, deltas, recorded, claims, device>>

\* Its own transaction; a repeated key finds the first proposal.
ProposeControl(s) ==
  /\ session[s].at = "stored"
  /\ proposed' = proposed \cup ({session[s].request} \cap Proposing)
  /\ session' = [session EXCEPT ![s].at = "proposed"]
  /\ UNCHANGED <<clock, sequence, deltas, recorded, claims, device>>

\* A third one, and the answer.
RecordOperation(s) ==
  /\ session[s].at = "proposed"
  /\ recorded' = recorded \cup {session[s].request}
  /\ session' = [session EXCEPT ![s] = Idle]
  /\ UNCHANGED <<clock, sequence, deltas, proposed, claims, device>>

\* A refused statement, a lost connection, a crash of the process.
Stop(s) ==
  /\ session[s].at # "idle"
  /\ session' = [session EXCEPT ![s] = Idle]
  /\ UNCHANGED <<clock, sequence, deltas, proposed, recorded, claims, device>>

-----------------------------------------------------------------------------
(* A commit of claims, and the deltas it contests.                         *)

BeginCommit(s, value, feed) ==
  /\ session[s].at = "idle"
  /\ clock < MaxClock
  /\ clock' = clock + 1
  /\ session' = [session EXCEPT ![s] = [Idle EXCEPT !.at = "governing", !.value = value,
                                                    !.feed = feed, !.now = clock + 1]]
  /\ UNCHANGED <<sequence, deltas, proposed, recorded, claims, device>>

\* The corrected value again, or another one than the owner stands by.
Conflicts(value, request) ==
  \/ Kind[request] \in Corrective /\ value = Target[request]
  \/ Kind[request] \in Affirmative /\ value # Target[request]

Contradicted_ReassertedOnly(s) ==
  {d \in deltas : /\ session[s].feed = "add_claim"
                  /\ d.lifecycle = Pending
                  /\ session[s].now >= d.at
                  /\ Kind[d.request] \in Corrective /\ session[s].value = Target[d.request]}

\* The claims a commit looks at are those its ADD_CLAIM operations have created;
\* a worker's commit only supports and assesses claims extracted before.
Contradicted(s) ==
  {d \in deltas : /\ session[s].feed = "add_claim"
                  /\ d.lifecycle = Pending
                  /\ session[s].now >= d.at
                  /\ Conflicts(session[s].value, d.request)}

Numbers(set) == {d.n : d \in set}

\* The rows it contests are locked to the end.
Scan(s) ==
  /\ session[s].at = "governing"
  /\ \A other \in Others(s) : other.contests \cap Numbers(Contradicted(s)) = {}
  /\ session' = [session EXCEPT ![s].at = "scanned", ![s].contests = Numbers(Contradicted(s))]
  /\ UNCHANGED <<clock, sequence, deltas, proposed, recorded, claims, device>>

CommitClaims(s) ==
  /\ session[s].at = "scanned"
  /\ claims' = claims \cup {[value |-> session[s].value, at |-> session[s].now,
                                feed |-> session[s].feed]}
  /\ deltas' = {[d EXCEPT !.lifecycle = IF d.n \in session[s].contests THEN "CONTESTED" ELSE @] : d \in deltas}
  /\ session' = [session EXCEPT ![s] = Idle]
  /\ UNCHANGED <<clock, sequence, proposed, recorded, device>>

-----------------------------------------------------------------------------
(* A device reads on from its watermark.                                   *)

Page_NewestFirst(after) == {n \in after : Cardinality({m \in after : m > n}) < Limit}

\* ORDER BY owner_sequence LIMIT
Page(after) == {n \in after : Cardinality({m \in after : m < n}) < Limit}

Read ==
  LET page == Page({n \in Numbers(deltas) : n > device.since}) IN
  /\ page # {}
  /\ device' = [since |-> Max(page), shown |-> device.shown \cup page]
  /\ UNCHANGED <<clock, sequence, deltas, proposed, recorded, claims, session>>

Next ==
  \/ \E s \in Sessions :
       \/ \E request \in Requests : Begin(s, request)
       \/ Write(s) \/ CommitDelta(s) \/ ProposeControl(s) \/ RecordOperation(s)
       \/ \E value \in Values, feed \in Feeds : BeginCommit(s, value, feed)
       \/ Scan(s) \/ CommitClaims(s) \/ Stop(s)
  \/ Read

Spec == Init /\ [][Next]_vars

-----------------------------------------------------------------------------
(* Properties.                                                             *)

Session == [at : Places, request : Requests \cup {None}, now : 0..MaxClock, n : Nat,
            value : Values \cup {None}, feed : {"add_claim", "worker"}, contests : SUBSET Nat]

\* The variables have their types.
TypeOK ==
  /\ clock \in 0..MaxClock /\ sequence \in Nat
  /\ deltas \subseteq Delta
  /\ proposed \subseteq Proposing /\ recorded \subseteq Controls
  /\ claims \subseteq [value : Values, at : 0..MaxClock, feed : Feeds]
  /\ session \in [Sessions -> Session]
  /\ device \in [since : Nat, shown : SUBSET Nat]

\* Numbers grow in the order the writes become visible, whatever order they began in.
SequenceIsCommitOrder == [][\A d \in deltas' \ deltas : d.lifecycle = Pending =>
                              \A earlier \in deltas : earlier.n < d.n]_vars

\* Every number up to the last is one visible delta: a write that was rolled back
\* has left no gap and none has been handed out twice.
NumbersWithoutGaps ==
  /\ Numbers(deltas) = 1..sequence
  /\ Cardinality(deltas) = sequence

\* A device that reads on from its watermark is shown every delta, however its
\* reads fall between the writes of the others.
DeviceMissesNothing == \A n \in Numbers(deltas) : n <= device.since => n \in device.shown

\* The owner's sequence has no hole below its end and no number twice, whatever was
\* rolled back, so that a device reading on from the last number it saw, a page at
\* a time, misses nothing.
ReadingOnMissesNothing == NumbersWithoutGaps /\ DeviceMissesNothing

\* A committed claim against a delta, recorded after it.
Contradicts(c, d) == c.at >= d.at /\ Conflicts(c.value, d.request)

-----------------------------------------------------------------------------
(* The inductive invariant behind them.                                    *)

\* What a session at t is about.
SessionKnows(t) ==
  /\ t.at \in {"begun", "written"} => t.request \in Requests
  /\ t.at \in {"stored", "proposed"} => t.request \in Controls
  /\ t.at \in {"governing", "scanned"} => t.value \in Values /\ t.feed \in Feeds

SessionsKnow == \A s \in Sessions : SessionKnows(session[s])

\* The row of the owner's sequence: one open transaction has allocated from it, and
\* what it has allocated is the next number.
SequenceHeld ==
  /\ \A s \in Sessions : session[s].at = "written" => session[s].n = sequence + 1
  /\ \A r, s \in Sessions : session[r].at = "written" /\ session[s].at = "written" => r = s

\* The unique key of a delta, which has nothing to refuse.
NumbersOnce == \A d, e \in deltas : d.n = e.n => d = e

NumbersReachSequence == Numbers(deltas) = 1..sequence /\ device.since \in 0..sequence

IInv ==
  /\ TypeOK /\ SessionsKnow /\ SequenceHeld
  /\ NumbersOnce /\ NumbersReachSequence /\ DeviceMissesNothing
=============================================================================
