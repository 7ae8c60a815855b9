------------------------------- MODULE Erasure -------------------------------
(****************************************************************************)
(* Deleting evidence (packages/control/src/erasure.ts, the deletion route of *)
(* packages/api/src/control.ts, the definer erase_evidence of migration 0029 *)
(* and the evidence objects of packages/api/src/evidence.ts).                *)
(*                                                                          *)
(* A deletion request runs one transaction: for each item it names, the      *)
(* database cascade; then, still inside it, the raw objects in storage, one   *)
(* call each, which no rollback restores; then the commit.  The cascade reads *)
(* the committed memory, less what this transaction has already deleted, and  *)
(* decides what goes with the item.  Beliefs meanwhile go on being written by *)
(* governed commits, which take no lock on what they read: the inputs of a    *)
(* recorded computation are arrays with no foreign key.                       *)
(*                                                                          *)
(* A claim is named by the item it is anchored in and the proposition it is   *)
(* about.  Caches, summaries, packets, briefings and cards that quote memory  *)
(* go if they quote a proposition in Tainted; which of them there are is left  *)
(* out, so any proposition may be quoted.                                     *)
(****************************************************************************)
EXTENDS Naturals, FiniteSets

CONSTANTS
    Evidence,      \* source items
    Propositions,
    MaxClaims,     \* bound: claims stored
    MaxComputed,   \* bound: computations recorded
    MaxExtras      \* bound: support edges and rejected claims stored, storage calls that
                   \* fail and commits that are lost, in all

VARIABLES
    item,      \* each item: not ingested, live, or a tombstone
    bytes,     \* the items whose raw object is in storage
    memory,    \* what stands on the evidence
    retired,   \* proposition rows once deleted: their ids do not come back
    writer,    \* the computation a governed commit has loaded, not yet written
    erasing,   \* the open deletion transaction
    faults     \* how many faults have been used

vars == <<item, bytes, memory, retired, writer, erasing, faults>>

Claims == Evidence \X Propositions
Edges == Propositions \X Propositions \X {"DIRECT_ASSERTION", "DERIVATION"}
\* What may be computed over the claims cs and the propositions ps: an output, and
\* every input it needed.
Computations(cs, ps) ==
    {c \in [out : ps, claims : SUBSET cs, props : SUBSET ps] :
        Cardinality(c.claims) + Cardinality(c.props) \in 1..2 /\ c.out \notin c.props}

NoItem == "none"
Nothing == [claims |-> {}, rejected |-> {}, props |-> {}, support |-> {}, computed |-> {}]
Idle == [open |-> FALSE, items |-> {}, undone |-> {}, gone |-> Nothing,
         last |-> NoItem, seen |-> Nothing, took |-> Nothing]

\* Everything of `m' but what is in `g'.
Less(m, g) == [field \in DOMAIN m |-> m[field] \ g[field]]
And(g, h) == [field \in DOMAIN g |-> g[field] \cup h[field]]

HasRoom == Cardinality(memory.support) + Cardinality(memory.rejected) + faults < MaxExtras

ClaimsOn(m, ps) == {c \in m.claims : c[2] \in ps}

------------------------------------------------------------------------------
(* The cascade, for one item of the memory `m' the statement reads.          *)

AnchoredIn(m, e) == {c \in m.claims : c[1] = e}

\* Live independent claims: anchored elsewhere, not rejected or suppressed.
LiveClaims(m, e) == {c \in m.claims : c[1] # e /\ c \notin m.rejected}

\* The same with derivation edges grounding what they support.
GroundedBy_AnyEdge(m, live, ps) ==
    {p \in m.props \ ps :
        \/ \E s \in m.support : s[1] = p /\ s[2] \in ps
        \/ \E d \in m.computed : d.out = p /\ d.claims \subseteq live /\ d.props \subseteq ps}

\* One round of the grounding loop.
GroundedBy(m, live, ps) ==
    {p \in m.props \ ps :
        \/ \E s \in m.support : s[1] = p /\ s[2] \in ps /\ s[3] = "DIRECT_ASSERTION"
        \/ \E d \in m.computed : d.out = p /\ d.claims \subseteq live /\ d.props \subseteq ps}

Grounded(m, e) ==
    LET live == LiveClaims(m, e)
        rounds[n \in 0..Cardinality(Propositions)] ==
            IF n = 0 THEN {c[2] : c \in live}
            ELSE LET ps == rounds[n - 1] IN ps \cup GroundedBy(m, live, ps)
    IN rounds[Cardinality(Propositions)]

\* A computation is broken by any input that is going or already gone.
Broken(m, claims, props) ==
    {d \in m.computed :
        \/ d.claims \cap claims # {} \/ ~(d.claims \subseteq m.claims)
        \/ d.props \cap props # {} \/ ~(d.props \subseteq m.props)}

\* What the derivation loop carries: the computations broken so far, and the
\* claims and propositions that go.
Fallen(m, e) ==
    LET grounded == Grounded(m, e)
        Round(r) ==
            LET broken == Broken(m, r.claims, r.props)
                added == {p \in m.props \ (r.props \cup grounded) :
                            \/ \E d \in broken : d.out = p
                            \/ \E c \in r.claims : c[2] = p
                            \/ \E s \in m.support : s[1] = p /\ s[2] \in r.props}
            IN [computed |-> broken, props |-> r.props \cup added,
                claims |-> r.claims \cup ClaimsOn(m, added)]
        rounds[n \in 0..(Cardinality(Propositions) + MaxComputed)] ==
            IF n = 0 THEN [computed |-> {}, props |-> {}, claims |-> AnchoredIn(m, e)]
            ELSE LET r == rounds[n - 1] IN Round(r)
    IN rounds[Cardinality(Propositions) + MaxComputed]

\* The same without what survives on other evidence.
Tainted_TheGone(m, fallen) == fallen.props

\* What may quote a broken computation, so that every record quoting it goes: its
\* output and everything downstream.
Tainted(m, fallen) ==
    LET Downstream(ps) ==
            ps \cup {p \in m.props :
                \/ \E d \in m.computed : d.out = p /\ (d.props \cap ps # {} \/ \E c \in d.claims \cap m.claims : c[2] \in ps)
                \/ \E s \in m.support : s[1] = p /\ s[2] \in ps}
        rounds[n \in 0..Cardinality(Propositions)] ==
            IF n = 0 THEN fallen.props \cup {d.out : d \in fallen.computed}
            ELSE LET ps == rounds[n - 1] IN Downstream(ps)
    IN rounds[Cardinality(Propositions)]

Cascade(m, e) ==
    LET fallen == Fallen(m, e)
        affected == {d.out : d \in fallen.computed}
    IN [claims |-> fallen.claims, rejected |-> fallen.claims \cap m.rejected,
        props |-> fallen.props,
        support |-> {s \in m.support : s[1] \in fallen.props \/ s[2] \in fallen.props
                        \/ (s[3] = "DERIVATION" /\ s[1] \in affected)},
        computed |-> fallen.computed \cup {d \in m.computed : d.out \in fallen.props}]

------------------------------------------------------------------------------
(* Memory being written.                                                     *)

\* The claim's insert waits for a deletion of its anchor's item or of its
\* proposition (foreign keys), and fails if the deletion commits.
Waits(e, p) == erasing.open /\ (e \in erasing.items \/ p \in erasing.gone.props)

\* A commit stores a claim and the proposition it is about.
StoreClaim(e, p) ==
    /\ item[e] = "live" /\ ~Waits(e, p)
    /\ <<e, p>> \notin memory.claims /\ p \notin retired /\ Cardinality(memory.claims) < MaxClaims
    /\ memory' = [memory EXCEPT !.claims = @ \cup {<<e, p>>}, !.props = @ \cup {p}]
    /\ UNCHANGED <<item, bytes, retired, writer, erasing, faults>>

Reject(c) ==
    /\ c \in memory.claims \ memory.rejected /\ ~Waits(c[1], c[2])
    /\ HasRoom
    /\ memory' = [memory EXCEPT !.rejected = @ \cup {c}]
    /\ UNCHANGED <<item, bytes, retired, writer, erasing, faults>>

AddSupport(s) ==
    /\ s[1] # s[2] /\ {s[1], s[2]} \subseteq memory.props
    /\ s \notin memory.support /\ HasRoom
    /\ ~(erasing.open /\ {s[1], s[2]} \cap erasing.gone.props # {})
    /\ memory' = [memory EXCEPT !.support = @ \cup {s}]
    /\ UNCHANGED <<item, bytes, retired, writer, erasing, faults>>

\* A commit loads its operation: a payload naming what has been erased is
\* blanked, so the inputs are there when it is loaded.
LoadDerive(d) ==
    /\ writer = {} /\ Cardinality(memory.computed) < MaxComputed
    /\ d \notin memory.computed
    /\ writer' = {d}
    /\ UNCHANGED <<item, bytes, memory, retired, erasing, faults>>

\* DERIVE: the insert has a foreign key on the output alone.
WriteDerive(d) ==
    /\ ~(erasing.open /\ d.out \in erasing.gone.props)
    /\ writer' = {}
    /\ memory' = IF d.out \in memory.props THEN [memory EXCEPT !.computed = @ \cup {d}] ELSE memory
    /\ UNCHANGED <<item, bytes, retired, erasing, faults>>

------------------------------------------------------------------------------
(* Evidence: stored with its bytes, deleted with them.                       *)

\* ingest: row and object together; an object whose row never committed is an
\* orphan under a key nothing names, and is not in `bytes'.
Ingest(e) ==
    /\ item[e] = "absent"
    /\ item' = [item EXCEPT ![e] = "live"] /\ bytes' = bytes \cup {e}
    /\ UNCHANGED <<memory, retired, writer, erasing, faults>>

\* The database half for one more item, before any object is deleted: the first
\* opens the transaction, which reads its own deletions from then on.
Erase(e) ==
    /\ item[e] = "live" /\ e \notin erasing.items /\ erasing.undone = erasing.items
    /\ LET seen == Less(memory, erasing.gone)
           took == Cascade(seen, e)
       IN erasing' = [open |-> TRUE, items |-> erasing.items \cup {e},
                      undone |-> erasing.undone \cup {e}, gone |-> And(erasing.gone, took),
                      last |-> e, seen |-> seen, took |-> took]
    /\ UNCHANGED <<item, bytes, memory, retired, writer, faults>>

\* objects.delete for one item, from inside the transaction.
DeleteObject(e) ==
    /\ erasing.open /\ e \in erasing.undone
    /\ bytes' = bytes \ {e}
    /\ erasing' = [erasing EXCEPT !.undone = @ \ {e}]
    /\ UNCHANGED <<item, memory, retired, writer, faults>>

\* The storage call fails, with or without having deleted: the transaction rolls back.
StorageFails(e) ==
    /\ erasing.open /\ e \in erasing.undone /\ HasRoom
    /\ bytes' \in {bytes, bytes \ {e}}
    /\ erasing' = Idle /\ faults' = faults + 1
    /\ UNCHANGED <<item, memory, retired, writer>>

\* The connection or the process is lost after the objects and before the commit.
CommitLost ==
    /\ erasing.open /\ erasing.undone = {} /\ HasRoom
    /\ erasing' = Idle /\ faults' = faults + 1
    /\ UNCHANGED <<item, bytes, memory, retired, writer>>

\* A preview is the same cascade, rolled back once it has counted.
PreviewRollback ==
    /\ erasing.open /\ erasing.undone = erasing.items
    /\ erasing' = Idle
    /\ UNCHANGED <<item, bytes, memory, retired, writer, faults>>

CommitErasure ==
    /\ erasing.open /\ erasing.undone = {}
    /\ item' = [e \in Evidence |-> IF e \in erasing.items THEN "erased" ELSE item[e]]
    /\ memory' = Less(memory, erasing.gone)
    /\ retired' = retired \cup erasing.gone.props
    /\ erasing' = Idle
    /\ UNCHANGED <<bytes, writer, faults>>

Init ==
    /\ item = [e \in Evidence |-> "absent"] /\ bytes = {}
    /\ memory = Nothing /\ retired = {} /\ writer = {} /\ erasing = Idle /\ faults = 0

Next ==
    \/ \E e \in Evidence : Ingest(e) \/ Erase(e) \/ DeleteObject(e) \/ StorageFails(e)
    \/ \E e \in Evidence, p \in Propositions : StoreClaim(e, p)
    \/ \E c \in Claims : Reject(c)
    \/ \E s \in Edges : AddSupport(s)
    \/ \E d \in Computations(memory.claims, memory.props) : LoadDerive(d)
    \/ \E d \in writer : WriteDerive(d)
    \/ CommitLost \/ PreviewRollback \/ CommitErasure

Spec == Init /\ [][Next]_vars

------------------------------------------------------------------------------
(* Correctness.                                                              *)

TypeOK ==
    /\ item \in [Evidence -> {"absent", "live", "erased"}] /\ bytes \subseteq Evidence
    /\ memory.claims \subseteq Claims /\ memory.rejected \subseteq memory.claims
    /\ memory.props \subseteq Propositions /\ memory.support \subseteq Edges
    /\ \A d \in memory.computed \cup writer :
          d.out \in Propositions /\ d.claims \subseteq Claims /\ d.props \subseteq Propositions
    /\ Cardinality(writer) <= 1 /\ faults \in 0..MaxExtras

\* What stands, said without rounds: the least set of propositions that holds
\* what a live claim states and everything it computes or directly asserts.
Standing(m) ==
    LET Closed(ps) ==
            /\ \A c \in m.claims \ m.rejected : c[2] \in ps
            /\ \A s \in m.support : s[2] \in ps /\ s[3] = "DIRECT_ASSERTION" => s[1] \in ps
            /\ \A d \in m.computed :
                  d.claims \subseteq m.claims \ m.rejected /\ d.props \subseteq ps => d.out \in ps
    IN {p \in m.props : \A ps \in SUBSET m.props : Closed(ps) => p \in ps}

\* What one cascade takes is what ADR 0033 says goes.  Nothing left names what
\* went: no claim of the item, no computation with a missing input, an orphan of
\* an earlier deletion included.  A belief that lost a claim, a computation or a
\* supporter stays only if it still stands on live evidence, cycles and partial
\* inputs not counting; and a belief that still stands is not taken.
CascadeTakesWhatFell ==
    erasing.open =>
        LET m == erasing.seen
            g == erasing.took
            left == Less(m, g)
            lost == {c[2] : c \in g.claims} \cup {d.out : d \in g.computed}
                       \cup {s[1] : s \in {t \in g.support : t[2] \in g.props}}
        IN /\ \A c \in left.claims : c[1] # erasing.last /\ c[2] \in left.props
           /\ \A d \in left.computed : d.claims \subseteq left.claims /\ {d.out} \cup d.props \subseteq left.props
           /\ \A s \in left.support : {s[1], s[2]} \subseteq left.props
           /\ lost \cap left.props \subseteq Standing(left)
           /\ g.props \cap Standing([m EXCEPT !.claims = {c \in @ : c[1] # erasing.last}]) = {}

\* No record a read composed goes on quoting what a deleted item fed: not the
\* output of a broken computation, nor anything resting on it, whether or not
\* the value itself survives on other evidence.
NothingQuotesTheErased ==
    erasing.open =>
        LET m == erasing.seen
            g == erasing.took
            source == g.props \cup {d.out : d \in g.computed}
            Closed(ps) ==
                /\ source \subseteq ps
                /\ \A s \in m.support : s[2] \in ps => s[1] \in ps
                /\ \A d \in m.computed :
                      d.props \cap ps # {} \/ {c[2] : c \in d.claims \cap m.claims} \cap ps # {} => d.out \in ps
        IN {p \in m.props : \A ps \in SUBSET m.props : Closed(ps) => p \in ps}
               \subseteq Tainted(m, Fallen(m, erasing.last))

\* ``Sequential and batched deletions agree'': the order of a request's items,
\* and of two requests, makes no difference to what is left.
OrderDoesNotMatter ==
    ~erasing.open =>
        LET live == {x \in Evidence : item[x] = "live"}
            After(m, x) == Less(m, Cascade(m, x))
            Once == {[first |-> x, left |-> After(memory, x)] : x \in live}
            Twice(o, x) == LET m == After(o.left, x) IN <<m.props, m.claims, m.computed>>
        IN \A o, q \in Once : o.first # q.first => Twice(o, q.first) = Twice(q, o.first)

\* A tombstone has no bytes behind it, and nothing in memory is anchored in it.
ErasedMeansGone ==
    \A e \in Evidence :
        item[e] = "erased" => e \notin bytes /\ AnchoredIn(memory, e) = {}

\* ``A storage failure rolls the erasure back instead of leaving a row that
\* promises gone bytes'' (packages/api/src/control.ts).
EveryLiveRowHasItsBytes == ~erasing.open => \A e \in Evidence : item[e] = "live" => e \in bytes
=============================================================================
