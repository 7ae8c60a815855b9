---------------------------- MODULE ErasureProofs ----------------------------
(****************************************************************************)
(* Proofs about Erasure, for every set of items, every finite set of         *)
(* propositions and all bounds: what one deletion takes, that two deletions  *)
(* leave the same whichever comes first, and that what is deleted is gone.   *)
(****************************************************************************)
EXTENDS Erasure, Rounds

-----------------------------------------------------------------------------
(* What the cascade finds, said without rounds.                              *)

Computed == [out : Propositions, claims : SUBSET Claims, props : SUBSET Propositions]
Memories == [claims : SUBSET Claims, rejected : SUBSET Claims, props : SUBSET Propositions,
             support : SUBSET Edges, computed : SUBSET Computed]

\* A memory whose rows name propositions that it has, as the foreign keys demand; the
\* inputs of a computation have none.
Formed(m) ==
  /\ m \in Memories /\ m.rejected \subseteq m.claims
  /\ \A c \in m.claims : c[2] \in m.props
  /\ \A s \in m.support : s[1] \in m.props /\ s[2] \in m.props
  /\ \A d \in m.computed : d.out \in m.props
  /\ MaxComputed = 0 => m.computed = {}

\* `ps' has what live claims state and all that follows from it.
Grounds(m, live, ps) ==
  /\ \A c \in live : c[2] \in ps
  /\ \A s \in m.support : s[2] \in ps /\ s[3] = "DIRECT_ASSERTION" => s[1] \in ps
  /\ \A d \in m.computed : d.claims \subseteq live /\ d.props \subseteq ps => d.out \in ps

\* The rounds of the grounding loop end at the least such set.
LEMMA GroundedIsLeast ==
  ASSUME IsFiniteSet(Propositions), NEW m, Formed(m), NEW e
  PROVE  /\ Grounded(m, e) \subseteq m.props
         /\ Grounds(m, LiveClaims(m, e), Grounded(m, e))
         /\ \A ps : Grounds(m, LiveClaims(m, e), ps) => Grounded(m, e) \subseteq ps
<1> DEFINE live == LiveClaims(m, e)
           N == Cardinality(Propositions)
           base == {c[2] : c \in live}
           Is(f) == f = [n \in 0..N |-> IF n = 0 THEN base ELSE LET ps == f[n - 1] IN ps \cup GroundedBy(m, live, ps)]
           S == SUBSET m.props
           F == [ps \in S |-> ps \cup GroundedBy(m, live, ps)]
           f == CHOOSE f : Is(f)
<1>1. N \in Nat /\ IsFiniteSet(m.props) /\ Cardinality(m.props) <= N
  BY FS_CardinalityType, FS_Subset DEF Formed, Memories
<1>2. base \in S /\ live \subseteq m.claims
  BY DEF Formed, LiveClaims
<1>3. F \in [S -> S] /\ \A ps \in S : ps \subseteq F[ps] /\ F[ps] = ps \cup GroundedBy(m, live, ps)
  BY DEF GroundedBy
<1>4. Is(f)
  <2>1. PICK g \in [0..N -> S] : g[0] = base /\ \A n \in 1..N : g[n] = F[g[n - 1]]
    <3> SUFFICES Runs(N, S, base, F) # {}
      BY DEF Runs, Run
    <3>1. N \in Nat /\ base \in S /\ F \in [S -> S]
      BY <1>1, <1>2, <1>3
    <3> HIDE DEF F, S, base, N, f, Is
    <3> QED
      BY <3>1, RunExists
  <2>2. \A n \in 0..N : g[n] = IF n = 0 THEN base ELSE g[n - 1] \cup GroundedBy(m, live, g[n - 1])
    <3>1. \A n \in 0..N : n # 0 => n \in 1..N /\ n - 1 \in 0..N
      BY <1>1
    <3>2. \A n \in 1..N : n - 1 \in 0..N => g[n - 1] \in S
      BY <2>1
    <3> HIDE DEF F, S, base, N
    <3> QED
      BY <1>3, <2>1, <3>1, <3>2
  <2>3. Is(g)
    <3> HIDE DEF S, base, N
    <3> QED
      BY <2>1, <2>2
  <2> HIDE DEF Is
  <2> QED
    BY <2>3
<1>5. f[0] = base /\ \A n \in 1..N : f[n] = f[n - 1] \cup GroundedBy(m, live, f[n - 1])
  <2> HIDE DEF f, base, N
  <2>1. 0 \in 0..N /\ \A n \in 1..N : n \in 0..N /\ n # 0
    BY <1>1
  <2> QED
    BY <1>4, <2>1
<1>6. Grounded(m, e) = f[N]
  BY DEF Grounded
<1> HIDE DEF f, base, N, F, live
<1>7. \A n \in 0..N : f[n] \in S
  <2>1. \A n \in 1..N : f[n - 1] \in S => f[n] \in S
    BY <1>5 DEF GroundedBy
  <2> HIDE DEF S
  <2> QED
    BY <1>1, <1>2, <1>5, <2>1, RunStays
<1>8. \A n \in 1..N : f[n] = F[f[n - 1]]
  <2>1. \A n \in 1..N : n - 1 \in 0..N
    BY <1>1
  <2> QED
    BY <1>3, <1>5, <1>7, <2>1
<1>9. F[f[N]] = f[N]
  <2>1. Adds(F, m.props) /\ Run(f, N, F)
    BY <1>3, <1>8 DEF Adds, Run
  <2>2. \A n \in 0..N : f[n] \in SUBSET m.props
    BY <1>7
  <2> QED
    BY <1>1, <2>1, <2>2, RoundsSettle
<1>10. f[N] \in S /\ GroundedBy(m, live, f[N]) = {}
  <2>1. f[N] \in S
    BY <1>1, <1>7
  <2>2. f[N] = f[N] \cup GroundedBy(m, live, f[N])
    BY <1>3, <1>9, <2>1
  <2> QED
    BY <2>1, <2>2 DEF GroundedBy
<1>11. base \subseteq f[N]
  <2> DEFINE U == {ps \in S : base \subseteq ps}
  <2>1. f[0] \in U /\ \A n \in 1..N : f[n - 1] \in U => f[n] \in U
    BY <1>2, <1>3, <1>5, <1>8
  <2>2. \A n \in 0..N : f[n] \in U
    <3> HIDE DEF U
    <3> QED
      BY <1>1, <2>1, RunStays
  <2> QED
    BY <1>1, <2>2
<1>12. Grounds(m, live, f[N])
  <2>1. \A c \in live : c[2] \in f[N]
    BY <1>11 DEF base
  <2> QED
    BY <1>10, <2>1 DEF Grounds, GroundedBy, Formed
<1>13. ASSUME NEW ps, Grounds(m, live, ps) PROVE f[N] \subseteq ps
  <2> DEFINE U == {qs \in S : qs \subseteq ps}
  <2>1. f[0] \in U
    BY <1>2, <1>5, <1>13 DEF Grounds, base
  <2>2. ASSUME NEW qs \in U PROVE qs \cup GroundedBy(m, live, qs) \in U
    BY <1>13, <2>2 DEF Grounds, GroundedBy
  <2>3. \A n \in 1..N : f[n - 1] \in U => f[n] \in U
    BY <1>5, <2>2
  <2>4. \A n \in 0..N : f[n] \in U
    <3> HIDE DEF U
    <3> QED
      BY <1>1, <2>1, <2>3, RunStays
  <2> QED
    BY <1>1, <2>4
<1> QED
  BY <1>6, <1>10, <1>12, <1>13 DEF live

\* When the propositions ps go: the claims that go, the computations that are broken,
\* and what has to go with them, having lost something and not being grounded.
ClaimsGoing(m, e, ps) == AnchoredIn(m, e) \cup ClaimsOn(m, ps)
BrokenBy(m, e, ps) == Broken(m, ClaimsGoing(m, e, ps), ps)
Pulled(m, e, ps) ==
  {p \in m.props \ (ps \cup Grounded(m, e)) :
     \/ \E d \in BrokenBy(m, e, ps) : d.out = p
     \/ \E c \in ClaimsGoing(m, e, ps) : c[2] = p
     \/ \E s \in m.support : s[1] = p /\ s[2] \in ps}

\* The rounds of the derivation loop end at the least set that pulls nothing more.
LEMMA FallenIsLeast ==
  ASSUME IsFiniteSet(Propositions), MaxComputed \in Nat, NEW m, Formed(m), NEW e
  PROVE  LET gone == Fallen(m, e).props
         IN /\ gone \subseteq m.props \ Grounded(m, e)
            /\ Fallen(m, e).claims = ClaimsGoing(m, e, gone)
            /\ Fallen(m, e).computed = BrokenBy(m, e, gone)
            /\ Pulled(m, e, gone) = {}
            /\ \A ps : Pulled(m, e, ps) = {} => gone \subseteq ps
<1> DEFINE grounded == Grounded(m, e)
           N == Cardinality(Propositions) + MaxComputed
           base == [computed |-> {}, props |-> {}, claims |-> AnchoredIn(m, e)]
           Round(r) ==
             LET broken == Broken(m, r.claims, r.props)
                 added == {p \in m.props \ (r.props \cup grounded) :
                             \/ \E d \in broken : d.out = p
                             \/ \E c \in r.claims : c[2] = p
                             \/ \E s \in m.support : s[1] = p /\ s[2] \in r.props}
             IN [computed |-> broken, props |-> r.props \cup added,
                 claims |-> r.claims \cup ClaimsOn(m, added)]
           Is(f) == f = [n \in 0..N |-> IF n = 0 THEN base ELSE LET r == f[n - 1] IN Round(r)]
           S == [computed : SUBSET m.computed, props : SUBSET (m.props \ grounded), claims : SUBSET m.claims]
           F == [r \in S |-> Round(r)]
           f == CHOOSE f : Is(f)
           H == [ps \in SUBSET m.props |-> ps \cup Pulled(m, e, ps)]
<1>1. /\ N \in Nat /\ IsFiniteSet(m.props) /\ Cardinality(m.props) \in Nat
      /\ Cardinality(m.props) <= N - MaxComputed
  BY FS_CardinalityType, FS_Subset DEF Formed, Memories
<1>2. base \in S
  BY DEF AnchoredIn
<1>3. ASSUME NEW r \in S
      PROVE  /\ Round(r) \in S /\ r.props \subseteq Round(r).props
             /\ Round(r).computed = Broken(m, r.claims, r.props)
  BY DEF ClaimsOn, Broken
<1>4. F \in [S -> S]
  <2> HIDE DEF Round, S
  <2> QED
    BY <1>3
<1>5. Is(f)
  <2>1. PICK g \in [0..N -> S] : g[0] = base /\ \A n \in 1..N : g[n] = F[g[n - 1]]
    <3> SUFFICES Runs(N, S, base, F) # {}
      BY DEF Runs, Run
    <3>1. N \in Nat /\ base \in S /\ F \in [S -> S]
      BY <1>1, <1>2, <1>4
    <3> HIDE DEF F, S, base, N, f, Is
    <3> QED
      BY <3>1, RunExists
  <2>2. \A n \in 0..N : g[n] = IF n = 0 THEN base ELSE Round(g[n - 1])
    <3>1. \A n \in 0..N : n # 0 => n \in 1..N /\ n - 1 \in 0..N
      BY <1>1
    <3>2. \A n \in 1..N : n - 1 \in 0..N => g[n - 1] \in S
      BY <2>1
    <3>3. \A r \in S : F[r] = Round(r)
      OBVIOUS
    <3> HIDE DEF F, S, base, N, Round
    <3> QED
      BY <2>1, <3>1, <3>2, <3>3
  <2>3. Is(g)
    <3> HIDE DEF S, base, N, Round
    <3> QED
      BY <2>1, <2>2
  <2> HIDE DEF Is
  <2> QED
    BY <2>3
<1>6. f[0] = base /\ \A n \in 1..N : f[n] = Round(f[n - 1])
  <2> HIDE DEF f, base, N, Round
  <2>1. 0 \in 0..N /\ \A n \in 1..N : n \in 0..N /\ n # 0
    BY <1>1
  <2> QED
    BY <1>5, <2>1
<1>7. Fallen(m, e) = f[N]
  BY DEF Fallen
<1> HIDE DEF f, N, F, Round, base, S
<1>8. \A n \in 0..N : f[n] \in {r \in S : r.claims = ClaimsGoing(m, e, r.props)}
  <2> DEFINE U == {r \in S : r.claims = ClaimsGoing(m, e, r.props)}
  <2>1. base \in U
    BY <1>2 DEF base, ClaimsGoing, ClaimsOn
  <2>2. ASSUME NEW r \in U PROVE Round(r) \in U
    BY <1>3 DEF Round, ClaimsGoing, ClaimsOn
  <2>3. f[0] \in U /\ \A n \in 1..N : f[n - 1] \in U => f[n] \in U
    BY <1>6, <2>1, <2>2
  <2> HIDE DEF U
  <2>4. \A n \in 0..N : f[n] \in U
    BY <1>1, <2>3, RunStays
  <2> QED
    BY <2>4 DEF U
<1>9. ASSUME NEW n \in 1..N
      PROVE  /\ n - 1 \in 0..N /\ f[n - 1].props \in SUBSET m.props
             /\ f[n].props = f[n - 1].props \cup Pulled(m, e, f[n - 1].props)
             /\ f[n].computed = BrokenBy(m, e, f[n - 1].props)
  <2>1. n - 1 \in 0..N
    BY <1>1
  <2>2. f[n - 1] \in S /\ f[n - 1].claims = ClaimsGoing(m, e, f[n - 1].props) /\ f[n] = Round(f[n - 1])
    BY <1>6, <1>8, <2>1
  <2> QED
    BY <2>1, <2>2 DEF S, Round, Pulled, BrokenBy
<1>10. Adds(H, m.props)
  BY DEF Adds, Pulled
<1>11. \A ps \in SUBSET m.props : H[ps] = ps \cup Pulled(m, e, ps)
  OBVIOUS
<1>12. \A n \in 0..N : f[n].props \in SUBSET m.props
  BY <1>8 DEF S
<1> HIDE DEF H
<1>13. ASSUME NEW k \in Nat, k <= N, k >= Cardinality(m.props)
       PROVE  Pulled(m, e, f[k].props) = {}
  <2> DEFINE g == [n \in 0..k |-> f[n].props]
  <2>1. \A n \in 0..k : g[n] \in SUBSET m.props
    BY <1>1, <1>12, <1>13
  <2>2. Run(g, k, H)
    <3>1. ASSUME NEW n \in 1..k PROVE g[n] = H[g[n - 1]]
      <4>1. n \in 0..k /\ n - 1 \in 0..k /\ n \in 1..N
        BY <1>1, <1>13
      <4> QED
        BY <1>9, <1>11, <4>1
    <3> QED
      BY <3>1 DEF Run
  <2> HIDE DEF g
  <2>3. H[g[k]] = g[k]
    BY <1>1, <1>10, <1>13, <2>1, <2>2, RoundsSettle
  <2>4. g[k] = f[k].props /\ g[k] \in SUBSET m.props
    BY <2>1 DEF g
  <2>5. g[k] = g[k] \cup Pulled(m, e, g[k])
    BY <1>11, <2>3, <2>4
  <2> QED
    BY <2>4, <2>5 DEF Pulled
<1>14. Pulled(m, e, f[N].props) = {}
  BY <1>1, <1>13
<1>15. f[N].claims = ClaimsGoing(m, e, f[N].props) /\ f[N].props \subseteq m.props \ grounded
  BY <1>1, <1>8 DEF S
<1>16. f[N].computed = BrokenBy(m, e, f[N].props)
  <2>1. CASE MaxComputed = 0
    <3>1. m.computed = {}
      BY <2>1 DEF Formed
    <3> QED
      BY <1>1, <1>8, <3>1 DEF S, BrokenBy, Broken
  <2>2. CASE MaxComputed # 0
    <3>1. N - 1 \in Nat /\ N - 1 <= N /\ N - 1 >= Cardinality(m.props) /\ N \in 1..N
      BY <1>1, <2>2
    <3>2. Pulled(m, e, f[N - 1].props) = {}
      BY <1>13, <3>1
    <3>3. f[N].props = f[N - 1].props
      BY <1>9, <3>1, <3>2
    <3> QED
      BY <1>9, <3>1, <3>3
  <2> QED
    BY <2>1, <2>2
<1>17. ASSUME NEW ps, Pulled(m, e, ps) = {} PROVE f[N].props \subseteq ps
  <2> DEFINE T == {r \in S : r.props \subseteq ps}
  <2>1. f[0] \in T
    BY <1>2, <1>6 DEF base
  <2>2. ASSUME NEW n \in 1..N, f[n - 1] \in T PROVE f[n] \in T
    <3>1. n - 1 \in 0..N /\ n \in 0..N
      BY <1>1
    <3>2. f[n - 1].props \subseteq ps
      BY <2>2
    <3>3. Pulled(m, e, f[n - 1].props) \subseteq ps
      BY <1>17, <3>2 DEF Pulled, BrokenBy, Broken, ClaimsGoing, ClaimsOn
    <3> QED
      BY <1>8, <1>9, <3>1, <3>2, <3>3
  <2>3. \A n \in 0..N : f[n] \in T
    <3> HIDE DEF T
    <3> QED
      BY <1>1, <2>1, <2>2, RunStays
  <2> QED
    BY <1>1, <2>3
<1> QED
  BY <1>7, <1>14, <1>15, <1>16, <1>17

\* What may quote something broken, and all that rests on that.
LEMMA TaintedIsClosed ==
  ASSUME IsFiniteSet(Propositions), NEW m, Formed(m), NEW fallen,
         fallen.props \subseteq m.props, fallen.computed \subseteq m.computed
  PROVE  LET ts == Tainted(m, fallen)
         IN /\ ts \subseteq m.props /\ fallen.props \cup {d.out : d \in fallen.computed} \subseteq ts
            /\ \A s \in m.support : s[2] \in ts => s[1] \in ts
            /\ \A d \in m.computed :
                 d.props \cap ts # {} \/ {c[2] : c \in d.claims \cap m.claims} \cap ts # {} => d.out \in ts
<1> DEFINE N == Cardinality(Propositions)
           base == fallen.props \cup {d.out : d \in fallen.computed}
           Downstream(ps) ==
             ps \cup {p \in m.props :
               \/ \E d \in m.computed : d.out = p /\ (d.props \cap ps # {} \/ \E c \in d.claims \cap m.claims : c[2] \in ps)
               \/ \E s \in m.support : s[1] = p /\ s[2] \in ps}
           Is(f) == f = [n \in 0..N |-> IF n = 0 THEN base ELSE LET ps == f[n - 1] IN Downstream(ps)]
           S == SUBSET m.props
           F == [ps \in S |-> Downstream(ps)]
           f == CHOOSE f : Is(f)
<1>1. N \in Nat /\ IsFiniteSet(m.props) /\ Cardinality(m.props) <= N
  BY FS_CardinalityType, FS_Subset DEF Formed, Memories
<1>2. base \in S
  BY DEF Formed
<1>3. F \in [S -> S] /\ Adds(F, m.props) /\ \A ps \in S : F[ps] = Downstream(ps)
  BY DEF Adds
<1>4. Is(f)
  <2>1. PICK g \in [0..N -> S] : g[0] = base /\ \A n \in 1..N : g[n] = F[g[n - 1]]
    <3> SUFFICES Runs(N, S, base, F) # {}
      BY DEF Runs, Run
    <3>1. N \in Nat /\ base \in S /\ F \in [S -> S]
      BY <1>1, <1>2, <1>3
    <3> HIDE DEF F, S, base, N, f, Is
    <3> QED
      BY <3>1, RunExists
  <2>2. \A n \in 0..N : g[n] = IF n = 0 THEN base ELSE Downstream(g[n - 1])
    <3>1. \A n \in 0..N : n # 0 => n \in 1..N /\ n - 1 \in 0..N
      BY <1>1
    <3>2. \A n \in 1..N : n - 1 \in 0..N => g[n - 1] \in S
      BY <2>1
    <3> HIDE DEF F, S, base, N, Downstream
    <3> QED
      BY <1>3, <2>1, <3>1, <3>2
  <2>3. Is(g)
    <3> HIDE DEF S, base, N, Downstream
    <3> QED
      BY <2>1, <2>2
  <2> HIDE DEF Is
  <2> QED
    BY <2>3
<1>5. f[0] = base /\ \A n \in 1..N : f[n] = Downstream(f[n - 1])
  <2> HIDE DEF f, base, N, Downstream
  <2>1. 0 \in 0..N /\ \A n \in 1..N : n \in 0..N /\ n # 0
    BY <1>1
  <2> QED
    BY <1>4, <2>1
<1>6. Tainted(m, fallen) = f[N]
  BY DEF Tainted
<1> HIDE DEF f, base, N, F
<1>7. \A n \in 0..N : f[n] \in {ps \in S : base \subseteq ps}
  <2> DEFINE U == {ps \in S : base \subseteq ps}
  <2>1. f[0] \in U /\ \A n \in 1..N : f[n - 1] \in U => f[n] \in U
    BY <1>2, <1>5
  <2> HIDE DEF U
  <2>2. \A n \in 0..N : f[n] \in U
    BY <1>1, <2>1, RunStays
  <2> QED
    BY <2>2 DEF U
<1>8. F[f[N]] = f[N]
  <2>1. \A n \in 0..N : f[n] \in SUBSET m.props
    BY <1>7
  <2>2. Run(f, N, F)
    <3>1. \A n \in 1..N : n - 1 \in 0..N
      BY <1>1
    <3> HIDE DEF Downstream
    <3> QED
      BY <1>3, <1>5, <2>1, <3>1 DEF Run
  <2> QED
    BY <1>1, <1>3, <2>1, <2>2, RoundsSettle
<1>9. f[N] \in S /\ base \subseteq f[N] /\ Downstream(f[N]) = f[N]
  <2>1. f[N] \in S /\ base \subseteq f[N]
    BY <1>1, <1>7
  <2> HIDE DEF Downstream
  <2> QED
    BY <1>3, <1>8, <2>1
<1>10. \A s \in m.support : s[2] \in f[N] => s[1] \in f[N]
  BY <1>9 DEF Formed
<1>11. \A d \in m.computed : d.props \cap f[N] # {} \/ (\E c \in d.claims \cap m.claims : c[2] \in f[N]) => d.out \in f[N]
  BY <1>9 DEF Formed
<1>12. fallen.props \cup {d.out : d \in fallen.computed} \subseteq f[N]
  BY <1>9 DEF base
<1> QED
  BY <1>6, <1>9, <1>10, <1>11, <1>12

-----------------------------------------------------------------------------
(* One deletion.                                                             *)

\* What is left of a memory, table by table.
LEMMA LeftOver ==
  ASSUME NEW m \in Memories, NEW g
  PROVE  /\ Less(m, g) \in Memories
         /\ Less(m, g).claims = m.claims \ g.claims /\ Less(m, g).rejected = m.rejected \ g.rejected
         /\ Less(m, g).props = m.props \ g.props /\ Less(m, g).support = m.support \ g.support
         /\ Less(m, g).computed = m.computed \ g.computed
<1> DEFINE l == Less(m, g)
           fields == {"claims", "rejected", "props", "support", "computed"}
           rest == [claims |-> l["claims"], rejected |-> l["rejected"], props |-> l["props"],
                    support |-> l["support"], computed |-> l["computed"]]
<1>1. DOMAIN m = fields
  BY DEF Memories
<1>2. DOMAIN l = fields /\ \A field \in fields : l[field] = m[field] \ g[field]
  BY <1>1 DEF Less
<1>3. l = [field \in fields |-> l[field]]
  BY <1>1 DEF Less
<1> HIDE DEF l
<1>4. l = rest
  BY <1>3
<1>5. /\ l.claims = m.claims \ g.claims /\ l.rejected = m.rejected \ g.rejected
      /\ l.props = m.props \ g.props /\ l.support = m.support \ g.support
      /\ l.computed = m.computed \ g.computed
  BY <1>2
<1>6. l \in Memories
  <2>1. /\ m.claims \subseteq Claims /\ m.rejected \subseteq Claims /\ m.props \subseteq Propositions
        /\ m.support \subseteq Edges /\ m.computed \subseteq Computed
    BY DEF Memories
  <2>2. /\ l.claims \subseteq Claims /\ l.rejected \subseteq Claims /\ l.props \subseteq Propositions
        /\ l.support \subseteq Edges /\ l.computed \subseteq Computed
    BY <1>5, <2>1
  <2> QED
    BY <1>4, <2>2 DEF Memories
<1> QED
  BY <1>5, <1>6 DEF l

\* What the cascade takes, table by table.
LEMMA Takes ==
  ASSUME IsFiniteSet(Propositions), MaxComputed \in Nat, NEW m, Formed(m), NEW e
  PROVE  LET g == Cascade(m, e)
         IN /\ g \in Memories /\ g.props \subseteq m.props \ Grounded(m, e)
            /\ g.claims = ClaimsGoing(m, e, g.props) /\ g.rejected = g.claims \cap m.rejected
            /\ g.computed = BrokenBy(m, e, g.props) \cup {d \in m.computed : d.out \in g.props}
            /\ g.support = {s \in m.support : s[1] \in g.props \/ s[2] \in g.props
                              \/ (s[3] = "DERIVATION" /\ \E d \in BrokenBy(m, e, g.props) : d.out = s[1])}
            /\ Pulled(m, e, g.props) = {}
            /\ \A ps : Pulled(m, e, ps) = {} => g.props \subseteq ps
<1> DEFINE g == Cascade(m, e)
           gone == Fallen(m, e).props
<1>1. /\ g.props = gone /\ g.claims = Fallen(m, e).claims /\ g.rejected = Fallen(m, e).claims \cap m.rejected
      /\ g.computed = Fallen(m, e).computed \cup {d \in m.computed : d.out \in gone}
      /\ g.support = {s \in m.support : s[1] \in gone \/ s[2] \in gone
                        \/ (s[3] = "DERIVATION" /\ s[1] \in {d.out : d \in Fallen(m, e).computed})}
      /\ g = [claims |-> g.claims, rejected |-> g.rejected, props |-> g.props, support |-> g.support,
              computed |-> g.computed]
  BY DEF Cascade
<1>2. /\ gone \subseteq m.props \ Grounded(m, e)
      /\ Fallen(m, e).claims = ClaimsGoing(m, e, gone)
      /\ Fallen(m, e).computed = BrokenBy(m, e, gone)
      /\ Pulled(m, e, gone) = {}
      /\ \A ps : Pulled(m, e, ps) = {} => gone \subseteq ps
  BY FallenIsLeast
<1> HIDE DEF g, gone
<1>3. g.claims \subseteq m.claims /\ g.computed \subseteq m.computed
  BY <1>1, <1>2 DEF ClaimsGoing, AnchoredIn, ClaimsOn, BrokenBy, Broken
<1>4. g \in Memories
  <2>1. g.claims \subseteq Claims /\ g.rejected \subseteq Claims /\ g.props \subseteq Propositions /\ g.support \subseteq Edges /\ g.computed \subseteq Computed
    BY <1>1, <1>2, <1>3 DEF Memories, Formed
  <2> QED
    BY <1>1, <2>1 DEF Memories
<1>5. g.support = {s \in m.support : s[1] \in g.props \/ s[2] \in g.props
                    \/ (s[3] = "DERIVATION" /\ \E d \in BrokenBy(m, e, g.props) : d.out = s[1])}
  BY <1>1, <1>2
<1> QED
  BY <1>1, <1>2, <1>4, <1>5 DEF g

\* What is grounded without the item stays, with what grounds it.
LEMMA GroundedStays ==
  ASSUME IsFiniteSet(Propositions), MaxComputed \in Nat, NEW m, Formed(m), NEW e
  PROVE  LET left == Less(m, Cascade(m, e))
             ps == Grounded(m, e)
             live == LiveClaims(m, e)
         IN /\ ps \subseteq left.props /\ live \subseteq left.claims \ left.rejected
            /\ \A c \in live : c[2] \in ps
            /\ \A s \in m.support : s[2] \in ps /\ s[3] = "DIRECT_ASSERTION" => s[1] \in ps /\ s \in left.support
            /\ \A d \in m.computed : d.claims \subseteq live /\ d.props \subseteq ps => d.out \in ps /\ d \in left.computed
<1> DEFINE g == Cascade(m, e)
           left == Less(m, g)
           ps == Grounded(m, e)
           live == LiveClaims(m, e)
<1>1. /\ g.props \subseteq m.props \ ps /\ g.claims = ClaimsGoing(m, e, g.props) /\ g.rejected = g.claims \cap m.rejected
      /\ g.computed = BrokenBy(m, e, g.props) \cup {d \in m.computed : d.out \in g.props}
      /\ g.support = {s \in m.support : s[1] \in g.props \/ s[2] \in g.props
                        \/ (s[3] = "DERIVATION" /\ \E d \in BrokenBy(m, e, g.props) : d.out = s[1])}
  BY Takes
<1>2. /\ left.claims = m.claims \ g.claims /\ left.rejected = m.rejected \ g.rejected
      /\ left.props = m.props \ g.props /\ left.support = m.support \ g.support
      /\ left.computed = m.computed \ g.computed
  BY LeftOver DEF Formed
<1>3. ps \subseteq m.props /\ Grounds(m, live, ps)
  BY GroundedIsLeast
<1>4. live \subseteq m.claims /\ \A c \in live : c[1] # e /\ c \notin m.rejected
  BY DEF LiveClaims
<1> HIDE DEF g, left, ps, live
<1>5. \A c \in live : c[2] \in ps /\ c \notin g.claims
  BY <1>1, <1>3, <1>4 DEF Grounds, ClaimsGoing, AnchoredIn, ClaimsOn
<1>6. ASSUME NEW s \in m.support, s[2] \in ps, s[3] = "DIRECT_ASSERTION" PROVE s[1] \in ps /\ s \in left.support
  BY <1>1, <1>2, <1>3, <1>6 DEF Grounds
<1>7. ASSUME NEW d \in m.computed, d.claims \subseteq live, d.props \subseteq ps PROVE d.out \in ps /\ d \in left.computed
  <2>1. d.out \in ps
    BY <1>3, <1>7 DEF Grounds
  <2>2. d \notin BrokenBy(m, e, g.props)
    <3>1. d.claims \cap ClaimsGoing(m, e, g.props) = {}
      BY <1>1, <1>5, <1>7
    <3>2. d.props \cap g.props = {} /\ d.props \subseteq m.props /\ d.claims \subseteq m.claims
      BY <1>1, <1>3, <1>4, <1>7
    <3> QED
      BY <3>1, <3>2 DEF BrokenBy, Broken
  <2> QED
    BY <1>1, <1>2, <2>1, <2>2
<1>8. ps \subseteq left.props /\ live \subseteq left.claims \ left.rejected
  BY <1>1, <1>2, <1>3, <1>4, <1>5
<1> QED
  BY <1>5, <1>6, <1>7, <1>8 DEF g, left, ps, live

\* A deletion leaves a memory as well formed as it was.
LEMMA LeavesFormed ==
  ASSUME IsFiniteSet(Propositions), MaxComputed \in Nat, NEW m, Formed(m), NEW e
  PROVE  Formed(Less(m, Cascade(m, e)))
<1> DEFINE g == Cascade(m, e)
           left == Less(m, g)
<1>1. /\ g.claims = ClaimsGoing(m, e, g.props) /\ g.rejected = g.claims \cap m.rejected
      /\ g.computed = BrokenBy(m, e, g.props) \cup {d \in m.computed : d.out \in g.props}
      /\ g.support = {s \in m.support : s[1] \in g.props \/ s[2] \in g.props
                        \/ (s[3] = "DERIVATION" /\ \E d \in BrokenBy(m, e, g.props) : d.out = s[1])}
  BY Takes
<1>2. /\ left \in Memories
      /\ left.claims = m.claims \ g.claims /\ left.rejected = m.rejected \ g.rejected
      /\ left.props = m.props \ g.props /\ left.support = m.support \ g.support
      /\ left.computed = m.computed \ g.computed
  BY LeftOver DEF Formed
<1> HIDE DEF g, left
<1>3. left.rejected \subseteq left.claims /\ \A c \in left.claims : c[2] \in left.props
  BY <1>1, <1>2 DEF Formed, ClaimsGoing, ClaimsOn
<1>4. \A s \in left.support : s[1] \in left.props /\ s[2] \in left.props
  BY <1>1, <1>2 DEF Formed
<1>5. (\A d \in left.computed : d.out \in left.props) /\ (MaxComputed = 0 => left.computed = {})
  BY <1>1, <1>2 DEF Formed
<1>6. Formed(left)
  BY <1>2, <1>3, <1>4, <1>5 DEF Formed
<1> QED
  BY <1>6 DEF g, left

\* CascadeTakesWhatFell and NothingQuotesTheErased, of any memory and item.
TakesWhatFell(m, g, e) ==
  LET left == Less(m, g)
      lost == {c[2] : c \in g.claims} \cup {d.out : d \in g.computed}
                 \cup {s[1] : s \in {t \in g.support : t[2] \in g.props}}
  IN /\ \A c \in left.claims : c[1] # e /\ c[2] \in left.props
     /\ \A d \in left.computed : d.claims \subseteq left.claims /\ {d.out} \cup d.props \subseteq left.props
     /\ \A s \in left.support : {s[1], s[2]} \subseteq left.props
     /\ lost \cap left.props \subseteq Standing(left)
     /\ g.props \cap Standing([m EXCEPT !.claims = {c \in @ : c[1] # e}]) = {}
NothingQuotes(m, g, e) ==
  LET source == g.props \cup {d.out : d \in g.computed}
      Closed(ps) ==
        /\ source \subseteq ps
        /\ \A s \in m.support : s[2] \in ps => s[1] \in ps
        /\ \A d \in m.computed :
             d.props \cap ps # {} \/ {c[2] : c \in d.claims \cap m.claims} \cap ps # {} => d.out \in ps
  IN {p \in m.props : \A ps \in SUBSET m.props : Closed(ps) => p \in ps} \subseteq Tainted(m, Fallen(m, e))

\* What is taken no longer stands; what lost something and is left still does.
LEMMA CascadeIsRight ==
  ASSUME IsFiniteSet(Propositions), MaxComputed \in Nat, NEW m, Formed(m), NEW e
  PROVE  TakesWhatFell(m, Cascade(m, e), e)
<1> DEFINE g == Cascade(m, e)
           left == Less(m, g)
           grounded == Grounded(m, e)
           live == LiveClaims(m, e)
<1>1. /\ g.props \subseteq m.props \ grounded /\ g.claims = ClaimsGoing(m, e, g.props)
      /\ g.computed = BrokenBy(m, e, g.props) \cup {d \in m.computed : d.out \in g.props}
      /\ g.support = {s \in m.support : s[1] \in g.props \/ s[2] \in g.props
                        \/ (s[3] = "DERIVATION" /\ \E d \in BrokenBy(m, e, g.props) : d.out = s[1])}
      /\ Pulled(m, e, g.props) = {}
  BY Takes
<1>2. /\ left.claims = m.claims \ g.claims
      /\ left.props = m.props \ g.props /\ left.support = m.support \ g.support
      /\ left.computed = m.computed \ g.computed
  BY LeftOver DEF Formed
<1>3. Formed(left)
  BY LeavesFormed
<1>4. /\ grounded \subseteq left.props /\ live \subseteq left.claims \ left.rejected
      /\ \A c \in live : c[2] \in grounded
      /\ \A s \in m.support : s[2] \in grounded /\ s[3] = "DIRECT_ASSERTION" => s[1] \in grounded /\ s \in left.support
      /\ \A d \in m.computed : d.claims \subseteq live /\ d.props \subseteq grounded =>
                                 d.out \in grounded /\ d \in left.computed
  BY GroundedStays
<1>5. /\ grounded \subseteq m.props /\ Grounds(m, live, grounded)
      /\ \A ps : Grounds(m, live, ps) => grounded \subseteq ps
  BY GroundedIsLeast
<1>6. \A c \in left.claims : c[1] # e /\ c[2] \in left.props
  BY <1>1, <1>2, <1>3 DEF Formed, ClaimsGoing, AnchoredIn
<1>7. \A s \in left.support : {s[1], s[2]} \subseteq left.props
  BY <1>3 DEF Formed
<1>8. ASSUME NEW d \in left.computed PROVE d.claims \subseteq left.claims /\ {d.out} \cup d.props \subseteq left.props
  <2>1. d \in m.computed /\ d \notin BrokenBy(m, e, g.props)
    BY <1>1, <1>2, <1>8
  <2> QED
    BY <1>1, <1>2, <1>3, <1>8, <2>1 DEF Formed, BrokenBy, Broken
<1> HIDE DEF g, left, grounded, live
<1>9. ASSUME NEW p \in left.props,
             \/ \E c \in g.claims : c[2] = p
             \/ \E d \in g.computed : d.out = p
             \/ \E s \in g.support : s[1] = p /\ s[2] \in g.props
      PROVE  p \in grounded
  <2>1. p \in m.props /\ p \notin g.props
    BY <1>2, <1>9
  <2>2. p \notin Pulled(m, e, g.props)
    BY <1>1
  <2> QED
    BY <1>1, <1>9, <2>1, <2>2 DEF Pulled, grounded
<1>10. ASSUME NEW ps \in SUBSET left.props,
              \A c \in left.claims \ left.rejected : c[2] \in ps,
              \A s \in left.support : s[2] \in ps /\ s[3] = "DIRECT_ASSERTION" => s[1] \in ps,
              \A d \in left.computed :
                d.claims \subseteq left.claims \ left.rejected /\ d.props \subseteq ps => d.out \in ps
       PROVE  grounded \subseteq ps
  <2>1. \A c \in live : c[2] \in grounded \cap ps
    BY <1>4, <1>10
  <2>2. \A s \in m.support : s[2] \in grounded \cap ps /\ s[3] = "DIRECT_ASSERTION" => s[1] \in grounded \cap ps
    BY <1>4, <1>10
  <2>3. \A d \in m.computed : d.claims \subseteq live /\ d.props \subseteq grounded \cap ps => d.out \in grounded \cap ps
    BY <1>4, <1>10
  <2>4. Grounds(m, live, grounded \cap ps)
    BY <2>1, <2>2, <2>3 DEF Grounds
  <2> QED
    BY <1>5, <2>4
<1>11. grounded \subseteq Standing(left)
  BY <1>4, <1>10 DEF Standing
<1>12. g.props \cap Standing([m EXCEPT !.claims = {c \in @ : c[1] # e}]) = {}
  <2> DEFINE n == [m EXCEPT !.claims = {c \in @ : c[1] # e}]
  <2>1. /\ n.claims = {c \in m.claims : c[1] # e} /\ n.rejected = m.rejected /\ n.props = m.props
        /\ n.support = m.support /\ n.computed = m.computed
    BY DEF Formed, Memories
  <2>2. n.claims \ n.rejected = live
    BY <2>1 DEF live, LiveClaims
  <2> HIDE DEF n
  <2>3. Standing(n) \subseteq grounded
    BY <1>5, <2>1, <2>2 DEF Standing, Grounds
  <2> QED
    BY <1>1, <2>3 DEF n
<1>13. ({c[2] : c \in g.claims} \cup {d.out : d \in g.computed}
         \cup {s[1] : s \in {t \in g.support : t[2] \in g.props}}) \cap left.props \subseteq Standing(left)
  BY <1>9, <1>11
<1> QED
  BY <1>6, <1>7, <1>8, <1>12, <1>13 DEF TakesWhatFell, g, left

\* What rests on something broken may not be quoted.
LEMMA NothingQuoted ==
  ASSUME IsFiniteSet(Propositions), MaxComputed \in Nat, NEW m, Formed(m), NEW e
  PROVE  NothingQuotes(m, Cascade(m, e), e)
<1> DEFINE g == Cascade(m, e)
           fallen == Fallen(m, e)
           ts == Tainted(m, fallen)
<1>1. g.props = fallen.props /\ g.computed = fallen.computed \cup {d \in m.computed : d.out \in fallen.props}
  BY DEF Cascade
<1>2. fallen.props \subseteq m.props /\ fallen.computed \subseteq m.computed
  BY FallenIsLeast DEF BrokenBy, Broken
<1> HIDE DEF fallen, g
<1>3. /\ ts \subseteq m.props /\ fallen.props \cup {d.out : d \in fallen.computed} \subseteq ts
      /\ \A s \in m.support : s[2] \in ts => s[1] \in ts
      /\ \A d \in m.computed :
           d.props \cap ts # {} \/ {c[2] : c \in d.claims \cap m.claims} \cap ts # {} => d.out \in ts
  BY <1>2, TaintedIsClosed
<1> HIDE DEF ts
<1>4. g.props \cup {d.out : d \in g.computed} \subseteq ts
  BY <1>1, <1>3
<1>5. {p \in m.props : \A ps \in SUBSET m.props :
          (/\ g.props \cup {d.out : d \in g.computed} \subseteq ps
           /\ \A s \in m.support : s[2] \in ps => s[1] \in ps
           /\ \A d \in m.computed :
                d.props \cap ps # {} \/ {c[2] : c \in d.claims \cap m.claims} \cap ps # {} => d.out \in ps)
          => p \in ps} \subseteq ts
  BY <1>3, <1>4
<1> QED
  BY <1>5 DEF NothingQuotes, g, ts, fallen

-----------------------------------------------------------------------------
(* Two deletions.                                                            *)

After(m, x) == Less(m, Cascade(m, x))

\* What two deletions take between them, and what that breaks.
GoneWith(m, y, x) == Cascade(m, y).props \cup Cascade(After(m, y), x).props
BrokenWith(m, y, x, ps) ==
  {d \in m.computed :
     \/ ~(d.claims \subseteq m.claims) \/ ~(d.props \subseteq m.props) \/ d.props \cap ps # {}
     \/ \E c \in d.claims : c[1] = x \/ c[1] = y \/ c[2] \in ps}

\* The tables after the first of two deletions.
LEMMA AfterOne ==
  ASSUME IsFiniteSet(Propositions), MaxComputed \in Nat, NEW m, Formed(m), NEW y
  PROVE  LET n == After(m, y)
             gone == Cascade(m, y).props
         IN /\ Formed(n) /\ gone \subseteq m.props \ Grounded(m, y)
            /\ n.props = m.props \ gone /\ n.rejected \subseteq m.rejected
            /\ n.claims = {c \in m.claims : c[1] # y /\ c[2] \notin gone}
            /\ n.claims \cap m.rejected \subseteq n.rejected
            /\ n.computed = {d \in m.computed : d.out \notin gone /\ d \notin BrokenBy(m, y, gone)}
            /\ n.support = {s \in m.support : s[1] \notin gone /\ s[2] \notin gone
                              /\ ~(s[3] = "DERIVATION" /\ \E d \in BrokenBy(m, y, gone) : d.out = s[1])}
            /\ Pulled(m, y, gone) = {}
<1> DEFINE g == Cascade(m, y)
           n == Less(m, g)
<1>1. /\ g.props \subseteq m.props \ Grounded(m, y) /\ g.claims = ClaimsGoing(m, y, g.props)
      /\ g.rejected = g.claims \cap m.rejected
      /\ g.computed = BrokenBy(m, y, g.props) \cup {d \in m.computed : d.out \in g.props}
      /\ g.support = {s \in m.support : s[1] \in g.props \/ s[2] \in g.props
                        \/ (s[3] = "DERIVATION" /\ \E d \in BrokenBy(m, y, g.props) : d.out = s[1])}
      /\ Pulled(m, y, g.props) = {}
  BY Takes
<1>2. /\ n.claims = m.claims \ g.claims /\ n.rejected = m.rejected \ g.rejected
      /\ n.props = m.props \ g.props /\ n.support = m.support \ g.support
      /\ n.computed = m.computed \ g.computed
  BY LeftOver DEF Formed
<1>3. Formed(n)
  BY LeavesFormed
<1> HIDE DEF g, n
<1>4. n.claims = {c \in m.claims : c[1] # y /\ c[2] \notin g.props}
  BY <1>1, <1>2 DEF ClaimsGoing, AnchoredIn, ClaimsOn
<1>5. n.computed = {d \in m.computed : d.out \notin g.props /\ d \notin BrokenBy(m, y, g.props)}
  BY <1>1, <1>2
<1>6. n.support = {s \in m.support : s[1] \notin g.props /\ s[2] \notin g.props
                     /\ ~(s[3] = "DERIVATION" /\ \E d \in BrokenBy(m, y, g.props) : d.out = s[1])}
  BY <1>1, <1>2
<1> QED
  BY <1>1, <1>2, <1>3, <1>4, <1>5, <1>6 DEF g, n, After

\* What is grounded without either item is grounded without the one and without the
\* other; and what only the second of them grounded falls with it.
LEMMA GroundedTwice ==
  ASSUME IsFiniteSet(Propositions), MaxComputed \in Nat, NEW m, Formed(m), NEW x, NEW y, x # y
  PROVE  LET n == After(m, y)
         IN /\ Grounded(n, x) \subseteq Grounded(m, x) \cap Grounded(m, y)
            /\ Grounded(m, y) \subseteq Grounded(n, x) \cup Cascade(n, x).props
<1> DEFINE n == After(m, y)
           gone == Cascade(m, y).props
           first == Grounded(m, y)
           both == Grounded(n, x)
           then == Cascade(n, x).props
<1>1. /\ Formed(n) /\ gone \subseteq m.props \ first
      /\ n.props = m.props \ gone /\ n.rejected \subseteq m.rejected
      /\ n.claims = {c \in m.claims : c[1] # y /\ c[2] \notin gone}
      /\ n.claims \cap m.rejected \subseteq n.rejected
      /\ n.computed = {d \in m.computed : d.out \notin gone /\ d \notin BrokenBy(m, y, gone)}
      /\ n.support = {s \in m.support : s[1] \notin gone /\ s[2] \notin gone
                        /\ ~(s[3] = "DERIVATION" /\ \E d \in BrokenBy(m, y, gone) : d.out = s[1])}
  BY AfterOne
<1>2. /\ first \subseteq n.props /\ LiveClaims(m, y) \subseteq n.claims \ n.rejected
      /\ \A c \in LiveClaims(m, y) : c[2] \in first
      /\ \A s \in m.support : s[2] \in first /\ s[3] = "DIRECT_ASSERTION" => s[1] \in first /\ s \in n.support
      /\ \A d \in m.computed : d.claims \subseteq LiveClaims(m, y) /\ d.props \subseteq first => d.out \in first /\ d \in n.computed
  BY GroundedStays DEF After
<1>3. /\ both \subseteq n.props
      /\ Grounds(n, LiveClaims(n, x), both)
      /\ \A ps : Grounds(n, LiveClaims(n, x), ps) => both \subseteq ps
  BY <1>1, GroundedIsLeast
<1>4. Pulled(n, x, then) = {}
  BY <1>1, Takes
<1>5. Grounds(m, LiveClaims(m, x), Grounded(m, x)) /\ \A ps : Grounds(m, LiveClaims(m, y), ps) => first \subseteq ps
  BY GroundedIsLeast
<1> HIDE DEF n, gone, first, then
<1>6. LiveClaims(n, x) \subseteq LiveClaims(m, x) \cap LiveClaims(m, y)
  BY <1>1 DEF LiveClaims
<1>7. n.support \subseteq m.support /\ n.computed \subseteq m.computed
  BY <1>1
<1>8. both \subseteq Grounded(m, x)
  <2>1. Grounds(n, LiveClaims(n, x), Grounded(m, x))
    BY <1>5, <1>6, <1>7 DEF Grounds
  <2> QED
    BY <1>3, <2>1
<1>9. both \subseteq first
  <2>1. Grounds(n, LiveClaims(n, x), first)
    BY <1>2, <1>6, <1>7 DEF Grounds
  <2> QED
    BY <1>3, <2>1
<1>10. first \subseteq both \cup then
  <2> DEFINE ps == first \cap (both \cup then)
  <2>1. ASSUME NEW c \in LiveClaims(m, y) PROVE c[2] \in ps
    <3>1. c \in n.claims /\ c \notin n.rejected /\ c[2] \in first /\ c[2] \in n.props
      BY <1>2, <2>1
    <3>2. CASE c[1] = x
      <4>1. c \in ClaimsGoing(n, x, then)
        BY <3>1, <3>2 DEF ClaimsGoing, AnchoredIn
      <4> QED
        BY <1>4, <3>1, <4>1 DEF Pulled, both
    <3>3. CASE c[1] # x
      <4>1. c \in LiveClaims(n, x)
        BY <3>1, <3>3 DEF LiveClaims
      <4> QED
        BY <1>3, <3>1, <4>1 DEF Grounds
    <3> QED
      BY <3>2, <3>3
  <2>2. ASSUME NEW s \in m.support, s[2] \in ps, s[3] = "DIRECT_ASSERTION" PROVE s[1] \in ps
    <3>1. s[1] \in first /\ s \in n.support /\ s[1] \in n.props
      BY <1>2, <2>2
    <3>2. CASE s[2] \in both
      BY <1>3, <2>2, <3>1, <3>2 DEF Grounds
    <3>3. CASE s[2] \in then
      BY <1>4, <3>1, <3>3 DEF Pulled, both
    <3> QED
      BY <2>2, <3>2, <3>3
  <2>3. ASSUME NEW d \in m.computed, d.claims \subseteq LiveClaims(m, y), d.props \subseteq ps PROVE d.out \in ps
    <3>1. d.out \in first /\ d \in n.computed /\ d.out \in n.props
      BY <1>2, <2>3
    <3>2. CASE d.claims \subseteq LiveClaims(n, x) /\ d.props \subseteq both
      BY <1>3, <3>1, <3>2 DEF Grounds
    <3>3. CASE d.props \cap then # {}
      <4>1. d \in BrokenBy(n, x, then)
        BY <3>1, <3>3 DEF BrokenBy, Broken
      <4> QED
        BY <1>4, <3>1, <4>1 DEF Pulled, both
    <3>4. CASE ~(d.claims \subseteq LiveClaims(n, x))
      <4>1. PICK c \in d.claims : c \notin LiveClaims(n, x)
        BY <3>4
      <4>2. c \in n.claims /\ c \notin n.rejected
        BY <1>2, <2>3
      <4>3. c \in AnchoredIn(n, x)
        BY <4>1, <4>2 DEF LiveClaims, AnchoredIn
      <4>4. d \in BrokenBy(n, x, then)
        BY <3>1, <4>3 DEF BrokenBy, Broken, ClaimsGoing
      <4> QED
        BY <1>4, <3>1, <4>4 DEF Pulled, both
    <3> QED
      BY <2>3, <3>2, <3>3, <3>4
  <2>4. Grounds(m, LiveClaims(m, y), ps)
    <3> HIDE DEF ps
    <3> QED
      BY <2>1, <2>2, <2>3 DEF Grounds
  <2>5. first \subseteq ps
    BY <1>5, <2>4
  <2> QED
    BY <2>5
<1> QED
  BY <1>8, <1>9, <1>10 DEF n, first, then

\* What two deletions pull between them is gone after both.
LEMMA BothTake ==
  ASSUME IsFiniteSet(Propositions), MaxComputed \in Nat, NEW m, Formed(m), NEW x, NEW y, x # y,
         NEW p \in m.props \ Grounded(After(m, y), x),
         \/ \E d \in BrokenWith(m, y, x, GoneWith(m, y, x)) : d.out = p
         \/ \E c \in m.claims : c[2] = p /\ (c[1] = x \/ c[1] = y \/ c[2] \in GoneWith(m, y, x))
         \/ \E s \in m.support : s[1] = p /\ s[2] \in GoneWith(m, y, x)
  PROVE  p \in GoneWith(m, y, x)
<1> DEFINE n == After(m, y)
           gone == Cascade(m, y).props
           then == Cascade(n, x).props
<1>1. /\ Formed(n) /\ gone \subseteq m.props
      /\ n.props = m.props \ gone
      /\ n.claims = {c \in m.claims : c[1] # y /\ c[2] \notin gone}
      /\ n.computed = {d \in m.computed : d.out \notin gone /\ d \notin BrokenBy(m, y, gone)}
      /\ n.support = {s \in m.support : s[1] \notin gone /\ s[2] \notin gone
                        /\ ~(s[3] = "DERIVATION" /\ \E d \in BrokenBy(m, y, gone) : d.out = s[1])}
      /\ Pulled(m, y, gone) = {}
  BY AfterOne
<1>2. Grounded(m, y) \subseteq Grounded(n, x) \cup then
  BY GroundedTwice
<1>3. Pulled(n, x, then) = {} /\ then \subseteq n.props
  BY <1>1, Takes
<1>4. GoneWith(m, y, x) = gone \cup then
  BY DEF GoneWith
<1> HIDE DEF n, gone, then
<1> SUFFICES ASSUME p \notin gone, p \notin then PROVE FALSE
  BY <1>4
<1>5. p \in m.props \ (gone \cup Grounded(m, y)) /\ p \in n.props \ (then \cup Grounded(n, x))
  BY <1>1, <1>2 DEF n
<1>6. /\ ~\E d \in BrokenBy(m, y, gone) : d.out = p
      /\ ~\E c \in ClaimsGoing(m, y, gone) : c[2] = p
      /\ ~\E s \in m.support : s[1] = p /\ s[2] \in gone
  BY <1>1, <1>5 DEF Pulled
<1>7. /\ ~\E d \in BrokenBy(n, x, then) : d.out = p
      /\ ~\E c \in ClaimsGoing(n, x, then) : c[2] = p
      /\ ~\E s \in n.support : s[1] = p /\ s[2] \in then
  BY <1>3, <1>5 DEF Pulled
<1>8. ASSUME NEW d \in BrokenWith(m, y, x, gone \cup then), d.out = p PROVE FALSE
  <2>1. d \in m.computed /\ d \notin BrokenBy(m, y, gone)
    BY <1>6, <1>8 DEF BrokenWith
  <2>2. d \in n.computed /\ d \notin BrokenBy(n, x, then)
    BY <1>1, <1>5, <1>7, <1>8, <2>1
  <2>3. /\ d.claims \subseteq m.claims /\ d.props \subseteq m.props /\ d.props \cap gone = {} /\ d.props \cap then = {}
        /\ \A c \in d.claims : c \notin ClaimsGoing(m, y, gone) /\ c \notin ClaimsGoing(n, x, then)
    BY <2>1, <2>2 DEF BrokenBy, Broken
  <2>4. \A c \in d.claims : c[1] # y /\ c[2] \notin gone
    BY <2>3 DEF ClaimsGoing, AnchoredIn, ClaimsOn
  <2>5. \A c \in d.claims : c \in n.claims
    BY <1>1, <2>3, <2>4
  <2>6. \A c \in d.claims : c[1] # x /\ c[2] \notin then
    BY <2>3, <2>5 DEF ClaimsGoing, AnchoredIn, ClaimsOn
  <2> QED
    BY <1>8, <2>3, <2>4, <2>6 DEF BrokenWith
<1>9. ASSUME NEW c \in m.claims, c[2] = p, c[1] = x \/ c[1] = y \/ c[2] \in gone \cup then PROVE FALSE
  <2>1. c[1] # y
    BY <1>6, <1>9 DEF ClaimsGoing, AnchoredIn
  <2>2. c \in n.claims /\ c[1] = x
    BY <1>1, <1>5, <1>9, <2>1
  <2> QED
    BY <1>7, <1>9, <2>2 DEF ClaimsGoing, AnchoredIn
<1>10. ASSUME NEW s \in m.support, s[1] = p, s[2] \in gone \cup then PROVE FALSE
  <2>1. s[2] \in then /\ s[2] \notin gone
    BY <1>1, <1>3, <1>6, <1>10
  <2>2. s \in n.support
    BY <1>1, <1>5, <1>6, <1>10, <2>1
  <2> QED
    BY <1>7, <1>10, <2>1, <2>2
<1> QED
  BY <1>4, <1>8, <1>9, <1>10

\* What is grounded without either does not depend on which went first.
LEMMA GroundedAlike ==
  ASSUME IsFiniteSet(Propositions), MaxComputed \in Nat, NEW m, Formed(m), NEW x, NEW y, x # y
  PROVE  Grounded(After(m, x), y) \subseteq Grounded(After(m, y), x)
<1> DEFINE k == After(m, x)
           n == After(m, y)
           both == Grounded(n, x)
<1>1. /\ Formed(k) /\ k.claims \subseteq m.claims /\ k.support \subseteq m.support /\ k.computed \subseteq m.computed
      /\ \A c \in k.claims : c[1] # x
      /\ k.claims \cap m.rejected \subseteq k.rejected
  BY AfterOne
<1>2. Formed(n)
  BY AfterOne
<1>3. /\ LiveClaims(m, y) \subseteq n.claims \ n.rejected
      /\ \A s \in m.support : s[2] \in Grounded(m, y) /\ s[3] = "DIRECT_ASSERTION" => s \in n.support
      /\ \A d \in m.computed : d.claims \subseteq LiveClaims(m, y) /\ d.props \subseteq Grounded(m, y) => d \in n.computed
  BY GroundedStays DEF After
<1>4. both \subseteq Grounded(m, y)
  BY GroundedTwice
<1>5. Grounds(n, LiveClaims(n, x), both)
  BY <1>2, GroundedIsLeast
<1>6. \A ps : Grounds(k, LiveClaims(k, y), ps) => Grounded(k, y) \subseteq ps
  BY <1>1, GroundedIsLeast
<1> HIDE DEF k, n, both
<1>7. LiveClaims(k, y) \subseteq LiveClaims(m, y)
  BY <1>1 DEF LiveClaims
<1>8. LiveClaims(k, y) \subseteq LiveClaims(n, x)
  <2>1. \A c \in LiveClaims(k, y) : c[1] # x
    BY <1>1 DEF LiveClaims
  <2> QED
    BY <1>3, <1>7, <2>1 DEF LiveClaims
<1>9. Grounds(k, LiveClaims(k, y), both)
  <2>1. \A c \in LiveClaims(k, y) : c[2] \in both
    BY <1>5, <1>8 DEF Grounds
  <2>2. \A s \in k.support : s[2] \in both /\ s[3] = "DIRECT_ASSERTION" => s[1] \in both
    BY <1>1, <1>3, <1>4, <1>5 DEF Grounds
  <2>3. ASSUME NEW d \in k.computed, d.claims \subseteq LiveClaims(k, y), d.props \subseteq both PROVE d.out \in both
    <3>1. d.claims \subseteq LiveClaims(m, y) /\ d.claims \subseteq LiveClaims(n, x) /\ d.props \subseteq Grounded(m, y)
      BY <1>4, <1>7, <1>8, <2>3
    <3>2. d \in n.computed
      BY <1>1, <1>3, <2>3, <3>1
    <3> QED
      BY <1>5, <2>3, <3>1, <3>2 DEF Grounds
  <2> QED
    BY <2>1, <2>2, <2>3 DEF Grounds
<1> QED
  BY <1>6, <1>9 DEF k, n, both

\* What two deletions take does not depend on which comes first.
LEMMA GoneAlike ==
  ASSUME IsFiniteSet(Propositions), MaxComputed \in Nat, NEW m, Formed(m), NEW x, NEW y, x # y
  PROVE  GoneWith(m, x, y) \subseteq GoneWith(m, y, x)
<1> DEFINE k == After(m, x)
           gone == Cascade(m, x).props
           all == GoneWith(m, y, x)
           both == Grounded(After(m, y), x)
<1>1. /\ Formed(k) /\ k.props = m.props \ gone /\ k.support \subseteq m.support /\ k.computed \subseteq m.computed
      /\ k.claims = {c \in m.claims : c[1] # x /\ c[2] \notin gone}
  BY AfterOne
<1>2. both \subseteq Grounded(m, x) /\ both \subseteq Grounded(k, y)
  BY GroundedTwice, GroundedAlike
<1>3. ASSUME NEW p \in m.props, p \notin both,
             \/ \E d \in BrokenWith(m, y, x, all) : d.out = p
             \/ \E c \in m.claims : c[2] = p /\ (c[1] = x \/ c[1] = y \/ c[2] \in all)
             \/ \E s \in m.support : s[1] = p /\ s[2] \in all
      PROVE  p \in all
  BY <1>3, BothTake
<1>4. \A ps : Pulled(m, x, ps) = {} => gone \subseteq ps
  BY Takes
<1>5. \A ps : Pulled(k, y, ps) = {} => Cascade(k, y).props \subseteq ps
  BY <1>1, Takes
<1> HIDE DEF k, gone, all, both
<1>6. gone \subseteq all
  <2> SUFFICES ASSUME NEW p \in Pulled(m, x, all) PROVE FALSE
    BY <1>4
  <2>1. p \in m.props /\ p \notin all /\ p \notin both
    BY <1>2 DEF Pulled
  <2>2. BrokenBy(m, x, all) \subseteq BrokenWith(m, y, x, all)
    BY DEF BrokenBy, Broken, BrokenWith, ClaimsGoing, AnchoredIn, ClaimsOn
  <2>3. \A c \in ClaimsGoing(m, x, all) : c \in m.claims /\ (c[1] = x \/ c[2] \in all)
    BY DEF ClaimsGoing, AnchoredIn, ClaimsOn
  <2> QED
    BY <1>3, <2>1, <2>2, <2>3 DEF Pulled
<1>7. Cascade(k, y).props \subseteq all
  <2> SUFFICES ASSUME NEW p \in Pulled(k, y, all) PROVE FALSE
    BY <1>5
  <2>1. p \in m.props /\ p \notin all /\ p \notin both
    BY <1>1, <1>2 DEF Pulled
  <2>2. ASSUME NEW d \in BrokenBy(k, y, all) PROVE d \in BrokenWith(m, y, x, all)
    <3>1. d \in m.computed
      BY <1>1, <2>2 DEF BrokenBy, Broken
    <3>2. \A c \in ClaimsGoing(k, y, all) : c[1] = y \/ c[2] \in all
      BY DEF ClaimsGoing, AnchoredIn, ClaimsOn
    <3>3. \A c \in m.claims : c \notin k.claims => c[1] = x \/ c[2] \in all
      BY <1>1, <1>6
    <3>4. \A q \in m.props : q \notin k.props => q \in all
      BY <1>1, <1>6
    <3>5. \/ \E c \in d.claims : c \in ClaimsGoing(k, y, all) \/ c \notin k.claims
          \/ \E q \in d.props : q \in all \/ q \notin k.props
      BY <2>2 DEF BrokenBy, Broken
    <3> QED
      BY <3>1, <3>2, <3>3, <3>4, <3>5 DEF BrokenWith
  <2>3. \A c \in ClaimsGoing(k, y, all) : c \in m.claims /\ (c[1] = y \/ c[2] \in all)
    BY <1>1 DEF ClaimsGoing, AnchoredIn, ClaimsOn
  <2>4. \A s \in k.support : s \in m.support
    BY <1>1
  <2> QED
    BY <1>3, <2>1, <2>2, <2>3, <2>4 DEF Pulled
<1> QED
  BY <1>6, <1>7 DEF GoneWith, k, gone, all

\* What two deletions leave.
LEMMA AfterTwo ==
  ASSUME IsFiniteSet(Propositions), MaxComputed \in Nat, NEW m, Formed(m), NEW x, NEW y
  PROVE  LET left == After(After(m, x), y)
             all == GoneWith(m, x, y)
         IN /\ left.props = m.props \ all
            /\ left.claims = {c \in m.claims : c[1] # x /\ c[1] # y /\ c[2] \notin all}
            /\ left.computed = {d \in m.computed : d.out \notin all /\ d \notin BrokenWith(m, x, y, all)}
<1> DEFINE k == After(m, x)
           left == After(k, y)
           gone == Cascade(m, x).props
           then == Cascade(k, y).props
           all == GoneWith(m, x, y)
<1>1. /\ Formed(k) /\ k.props = m.props \ gone
      /\ k.claims = {c \in m.claims : c[1] # x /\ c[2] \notin gone}
      /\ k.computed = {d \in m.computed : d.out \notin gone /\ d \notin BrokenBy(m, x, gone)}
  BY AfterOne
<1>2. /\ left.props = k.props \ then
      /\ left.claims = {c \in k.claims : c[1] # y /\ c[2] \notin then}
      /\ left.computed = {d \in k.computed : d.out \notin then /\ d \notin BrokenBy(k, y, then)}
  BY <1>1, AfterOne
<1>3. all = gone \cup then
  BY DEF GoneWith
<1> HIDE DEF k, left, gone, then, all
<1>4. left.props = m.props \ all /\ left.claims = {c \in m.claims : c[1] # x /\ c[1] # y /\ c[2] \notin all}
  BY <1>1, <1>2, <1>3
<1>5. ASSUME NEW d \in m.computed
      PROVE  d \notin BrokenBy(m, x, gone) /\ d \notin BrokenBy(k, y, then) /\ d \in k.computed
               => d \notin BrokenWith(m, x, y, all)
  <2> SUFFICES ASSUME d \notin BrokenBy(m, x, gone), d \in k.computed, d \notin BrokenBy(k, y, then)
               PROVE  d \notin BrokenWith(m, x, y, all)
    OBVIOUS
  <2>1. /\ d.claims \subseteq m.claims /\ d.props \subseteq m.props /\ d.props \cap gone = {} /\ d.props \cap then = {}
        /\ \A c \in d.claims : c \notin ClaimsGoing(m, x, gone) /\ c \notin ClaimsGoing(k, y, then)
    BY DEF BrokenBy, Broken
  <2>2. \A c \in d.claims : c[1] # x /\ c[2] \notin gone /\ c \in k.claims
    BY <1>1, <2>1 DEF ClaimsGoing, AnchoredIn, ClaimsOn
  <2>3. \A c \in d.claims : c[1] # y /\ c[2] \notin then
    BY <2>1, <2>2 DEF ClaimsGoing, AnchoredIn, ClaimsOn
  <2> QED
    BY <1>3, <2>1, <2>2, <2>3 DEF BrokenWith
<1>6. ASSUME NEW d \in m.computed, d \notin BrokenWith(m, x, y, all)
      PROVE  d \notin BrokenBy(m, x, gone) /\ d \notin BrokenBy(k, y, then)
  <2>1. /\ d.claims \subseteq m.claims /\ d.props \subseteq m.props /\ d.props \cap gone = {} /\ d.props \cap then = {}
        /\ \A c \in d.claims : c[1] # x /\ c[1] # y /\ c[2] \notin gone /\ c[2] \notin then
    BY <1>3, <1>6 DEF BrokenWith
  <2>2. d.claims \subseteq k.claims /\ d.props \subseteq k.props
    BY <1>1, <2>1
  <2> QED
    BY <2>1, <2>2 DEF BrokenBy, Broken, ClaimsGoing, AnchoredIn, ClaimsOn
<1>7. left.computed = {d \in m.computed : d.out \notin all /\ d \notin BrokenWith(m, x, y, all)}
  BY <1>1, <1>2, <1>3, <1>5, <1>6
<1> QED
  BY <1>4, <1>7 DEF left, k, all

\* Two deletions leave the same, whichever comes first.
LEMMA EitherOrder ==
  ASSUME IsFiniteSet(Propositions), MaxComputed \in Nat, NEW m, Formed(m), NEW x, NEW y, x # y
  PROVE  LET one == After(After(m, x), y)
             other == After(After(m, y), x)
         IN one.props = other.props /\ one.claims = other.claims /\ one.computed = other.computed
<1>1. GoneWith(m, x, y) = GoneWith(m, y, x)
  BY GoneAlike
<1>2. BrokenWith(m, x, y, GoneWith(m, x, y)) = BrokenWith(m, y, x, GoneWith(m, y, x))
  BY <1>1 DEF BrokenWith
<1> DEFINE all == GoneWith(m, x, y)
           broken == BrokenWith(m, x, y, all)
           one == After(After(m, x), y)
           other == After(After(m, y), x)
<1>3. /\ one.props = m.props \ all
      /\ one.claims = {c \in m.claims : c[1] # x /\ c[1] # y /\ c[2] \notin all}
      /\ one.computed = {d \in m.computed : d.out \notin all /\ d \notin broken}
  BY AfterTwo
<1>4. /\ other.props = m.props \ all
      /\ other.claims = {c \in m.claims : c[1] # y /\ c[1] # x /\ c[2] \notin all}
      /\ other.computed = {d \in m.computed : d.out \notin all /\ d \notin broken}
  BY <1>1, <1>2, AfterTwo
<1> HIDE DEF all, broken, one, other
<1>5. one.claims = other.claims
  BY <1>3, <1>4
<1> QED
  BY <1>3, <1>4, <1>5 DEF one, other

-----------------------------------------------------------------------------
(* The invariant.                                                            *)

Deletions == [open : BOOLEAN, items : SUBSET Evidence, undone : SUBSET Evidence, gone : Memories,
              last : Evidence \cup {NoItem}, seen : Memories, took : Memories]

\* The rows of the open deletion, as far as it has gone: what it took, with what the
\* foreign keys tie to it.
Taken(m, items, gone) ==
  /\ \A c \in gone.claims : c[1] \in items \/ c[2] \in gone.props
  /\ \A c \in m.claims : c[1] \in items \/ c[2] \in gone.props => c \in gone.claims
  /\ \A c \in m.rejected : c \in gone.claims => c \in gone.rejected
  /\ \A s \in m.support : s[1] \in gone.props \/ s[2] \in gone.props => s \in gone.support
  /\ \A d \in m.computed : d.out \in gone.props => d \in gone.computed

\* What is stored is well formed, and a bounded number of rows.
Stored(m) == Formed(m) /\ IsFiniteSet(m.support) /\ IsFiniteSet(m.rejected) /\ IsFiniteSet(m.computed)

Loaded(w) ==
  /\ w \subseteq Computed /\ (w = {} \/ \E d \in w : w = {d})
  /\ MaxComputed = 0 => w = {}

\* The transaction deletes live items only, has deleted the objects it is done with, and
\* read a well-formed memory.
Opened(t) ==
  /\ t \in Deletions /\ t.undone \subseteq t.items
  /\ ~t.open => t = Idle
  /\ \A e \in t.items : item[e] = "live" /\ (e \notin t.undone => e \notin bytes)
  /\ t.open => Formed(t.seen) /\ t.took = Cascade(t.seen, t.last)

ErasureInv ==
  /\ item \in [Evidence -> {"absent", "live", "erased"}] /\ bytes \subseteq Evidence /\ faults \in 0..MaxExtras
  /\ Stored(memory) /\ Loaded(writer) /\ Opened(erasing)
  /\ Taken(memory, erasing.items, erasing.gone)
  /\ ErasedMeansGone

LEMMA IdleIs ==
  /\ Nothing \in Memories /\ Idle \in Deletions
  /\ Idle.open = FALSE /\ Idle.items = {} /\ Idle.undone = {} /\ Idle.gone = Nothing
  /\ \A m : Taken(m, {}, Nothing)
<1>1. Nothing \in Memories
  BY DEF Nothing, Memories
<1>2. Idle \in Deletions /\ Idle.open = FALSE /\ Idle.items = {} /\ Idle.undone = {} /\ Idle.gone = Nothing
  BY <1>1 DEF Idle, Deletions
<1>3. \A m : Taken(m, {}, Nothing)
  BY DEF Taken, Nothing
<1> QED
  BY <1>1, <1>2, <1>3

\* What is left once everything taken is gone is well formed.
LEMMA LessIsStored ==
  ASSUME NEW m, Stored(m), NEW items, NEW g \in Memories, Taken(m, items, g)
  PROVE  Stored(Less(m, g))
<1> DEFINE l == Less(m, g)
<1>1. /\ l \in Memories
      /\ l.claims = m.claims \ g.claims /\ l.rejected = m.rejected \ g.rejected
      /\ l.props = m.props \ g.props /\ l.support = m.support \ g.support
      /\ l.computed = m.computed \ g.computed
  BY LeftOver DEF Stored, Formed
<1> HIDE DEF l
<1>2. IsFiniteSet(l.support) /\ IsFiniteSet(l.rejected) /\ IsFiniteSet(l.computed)
  <2>1. l.support \in SUBSET m.support /\ l.rejected \in SUBSET m.rejected /\ l.computed \in SUBSET m.computed
    BY <1>1
  <2> QED
    BY <2>1, FS_Subset DEF Stored
<1>3. l.rejected \subseteq l.claims /\ \A c \in l.claims : c[2] \in l.props
  BY <1>1 DEF Stored, Formed, Taken
<1>4. \A s \in l.support : s[1] \in l.props /\ s[2] \in l.props
  BY <1>1 DEF Stored, Formed, Taken
<1>5. (\A d \in l.computed : d.out \in l.props) /\ (MaxComputed = 0 => l.computed = {})
  BY <1>1 DEF Stored, Formed, Taken
<1> QED
  BY <1>1, <1>2, <1>3, <1>4, <1>5 DEF Stored, Formed, l

LEMMA ErasureStarts == ASSUME MaxExtras \in Nat, Init PROVE ErasureInv
<1>1. Stored(Nothing)
  <2>1. /\ Nothing.claims = {} /\ Nothing.rejected = {} /\ Nothing.props = {} /\ Nothing.support = {}
        /\ Nothing.computed = {}
    BY DEF Nothing
  <2> QED
    BY <2>1, IdleIs, FS_EmptySet DEF Stored, Formed
<1>2. Loaded({})
  BY DEF Loaded
<1>3. Opened(Idle)
  BY IdleIs DEF Opened
<1>4. ErasedMeansGone
  BY DEF Init, ErasedMeansGone
<1> QED
  BY <1>1, <1>2, <1>3, <1>4, IdleIs DEF Init, ErasureInv

\* One more row of a table, none of them one that the open deletion has taken or ties to
\* what it has taken.
LEMMA RowAdded ==
  ASSUME NEW m \in Memories, Stored(m), NEW n \in Memories,
         m.claims \subseteq n.claims, m.rejected \subseteq n.rejected, m.props \subseteq n.props,
         m.support \subseteq n.support, m.computed \subseteq n.computed,
         NEW items, NEW g, Taken(m, items, g),
         \A c \in n.claims \ m.claims : c[2] \in n.props /\ c[1] \notin items /\ c[2] \notin g.props,
         \A c \in n.rejected \ m.rejected : c \in n.claims /\ c \notin g.claims,
         \A s \in n.support \ m.support : {s[1], s[2]} \subseteq n.props \ g.props,
         \A d \in n.computed \ m.computed : d.out \in n.props \ g.props /\ MaxComputed # 0,
         IsFiniteSet(n.support), IsFiniteSet(n.rejected), IsFiniteSet(n.computed)
  PROVE  Stored(n) /\ Taken(n, items, g)
<1>1. n.rejected \subseteq n.claims /\ \A c \in n.claims : c[2] \in n.props
  BY DEF Stored, Formed
<1>2. \A s \in n.support : s[1] \in n.props /\ s[2] \in n.props
  BY DEF Stored, Formed
<1>3. (\A d \in n.computed : d.out \in n.props) /\ (MaxComputed = 0 => n.computed = {})
  BY DEF Stored, Formed
<1>4. \A c \in n.claims : c[1] \in items \/ c[2] \in g.props => c \in g.claims
  BY DEF Taken
<1>5. \A c \in n.rejected : c \in g.claims => c \in g.rejected
  BY DEF Taken
<1>6. \A s \in n.support : s[1] \in g.props \/ s[2] \in g.props => s \in g.support
  BY DEF Taken
<1>7. \A d \in n.computed : d.out \in g.props => d \in g.computed
  BY DEF Taken
<1> QED
  BY <1>1, <1>2, <1>3, <1>4, <1>5, <1>6, <1>7 DEF Stored, Formed, Taken

\* What nothing is taken from, where no deletion is open.
LEMMA NoneTaken ==
  ASSUME ErasureInv, ~erasing.open
  PROVE  erasing.items = {} /\ erasing.gone.props = {} /\ erasing.gone.claims = {}
  BY IdleIs DEF ErasureInv, Opened, Nothing

LEMMA StoreClaimKeeps ==
  ASSUME ErasureInv, NEW e \in Evidence, NEW p \in Propositions, StoreClaim(e, p)
  PROVE  ErasureInv'
<1> DEFINE n == [memory EXCEPT !.claims = @ \cup {<<e, p>>}, !.props = @ \cup {p}]
<1>1. /\ item[e] = "live" /\ ~Waits(e, p) /\ memory' = n
      /\ UNCHANGED <<item, bytes, retired, writer, erasing, faults>>
  BY DEF StoreClaim
<1>2. memory \in Memories /\ Stored(memory) /\ Taken(memory, erasing.items, erasing.gone)
  BY DEF ErasureInv, Stored, Formed
<1>3. /\ n.claims = memory.claims \cup {<<e, p>>} /\ n.props = memory.props \cup {p}
      /\ n.rejected = memory.rejected /\ n.support = memory.support /\ n.computed = memory.computed
      /\ n \in Memories
  <2>1. <<e, p>> \in Claims
    BY DEF Claims
  <2> DEFINE a == [memory EXCEPT !.claims = @ \cup {<<e, p>>}]
  <2>2. /\ a \in Memories /\ a.claims = memory.claims \cup {<<e, p>>} /\ a.props = memory.props
        /\ a.rejected = memory.rejected /\ a.support = memory.support /\ a.computed = memory.computed
    BY <1>2, <2>1 DEF Memories
  <2>3. n = [a EXCEPT !.props = @ \cup {p}]
    BY <1>2 DEF Memories
  <2> HIDE DEF a, n
  <2> QED
    BY <2>2, <2>3 DEF Memories
<1>4. e \notin erasing.items /\ p \notin erasing.gone.props
  BY <1>1, NoneTaken DEF Waits
<1> HIDE DEF n
<1>5. \A c \in n.claims \ memory.claims : c[1] = e /\ c[2] = p
  BY <1>3
<1>6. Stored(n) /\ Taken(n, erasing.items, erasing.gone)
  <2>1. IsFiniteSet(n.support) /\ IsFiniteSet(n.rejected) /\ IsFiniteSet(n.computed)
    BY <1>2, <1>3 DEF Stored
  <2> QED
    BY <1>2, <1>3, <1>4, <1>5, <2>1, RowAdded
<1>7. ErasedMeansGone'
  BY <1>1, <1>3, <1>5 DEF ErasureInv, ErasedMeansGone, AnchoredIn
<1> QED
  BY <1>1, <1>6, <1>7 DEF ErasureInv, Opened

LEMMA RejectKeeps == ASSUME ErasureInv, NEW c \in Claims, Reject(c) PROVE ErasureInv'
<1> DEFINE n == [memory EXCEPT !.rejected = @ \cup {c}]
<1>1. /\ c \in memory.claims /\ ~Waits(c[1], c[2]) /\ memory' = n
      /\ UNCHANGED <<item, bytes, retired, writer, erasing, faults>>
  BY DEF Reject
<1>2. memory \in Memories /\ Stored(memory) /\ Taken(memory, erasing.items, erasing.gone)
  BY DEF ErasureInv, Stored, Formed
<1>3. /\ n.claims = memory.claims /\ n.props = memory.props
      /\ n.rejected = memory.rejected \cup {c} /\ n.support = memory.support /\ n.computed = memory.computed
      /\ n \in Memories
  BY <1>2 DEF Memories
<1>4. c \notin erasing.gone.claims
  BY <1>1, <1>2, NoneTaken DEF Waits, Taken
<1> HIDE DEF n
<1>5. Stored(n) /\ Taken(n, erasing.items, erasing.gone)
  <2>1. IsFiniteSet(n.support) /\ IsFiniteSet(n.rejected) /\ IsFiniteSet(n.computed)
    BY <1>2, <1>3, FS_AddElement DEF Stored
  <2> QED
    BY <1>1, <1>2, <1>3, <1>4, <2>1, RowAdded
<1>6. ErasedMeansGone'
  BY <1>1, <1>3 DEF ErasureInv, ErasedMeansGone, AnchoredIn
<1> QED
  BY <1>1, <1>5, <1>6 DEF ErasureInv, Opened

LEMMA AddSupportKeeps == ASSUME ErasureInv, NEW s \in Edges, AddSupport(s) PROVE ErasureInv'
<1> DEFINE n == [memory EXCEPT !.support = @ \cup {s}]
<1>1. /\ {s[1], s[2]} \subseteq memory.props /\ memory' = n
      /\ ~(erasing.open /\ {s[1], s[2]} \cap erasing.gone.props # {})
      /\ UNCHANGED <<item, bytes, retired, writer, erasing, faults>>
  BY DEF AddSupport
<1>2. memory \in Memories /\ Stored(memory) /\ Taken(memory, erasing.items, erasing.gone)
  BY DEF ErasureInv, Stored, Formed
<1>3. /\ n.claims = memory.claims /\ n.props = memory.props
      /\ n.rejected = memory.rejected /\ n.support = memory.support \cup {s} /\ n.computed = memory.computed
      /\ n \in Memories
  BY <1>2 DEF Memories
<1>4. {s[1], s[2]} \cap erasing.gone.props = {}
  BY <1>1, NoneTaken
<1> HIDE DEF n
<1>5. Stored(n) /\ Taken(n, erasing.items, erasing.gone)
  <2>1. IsFiniteSet(n.support) /\ IsFiniteSet(n.rejected) /\ IsFiniteSet(n.computed)
    BY <1>2, <1>3, FS_AddElement DEF Stored
  <2> QED
    BY <1>1, <1>2, <1>3, <1>4, <2>1, RowAdded
<1>6. ErasedMeansGone'
  BY <1>1, <1>3 DEF ErasureInv, ErasedMeansGone, AnchoredIn
<1> QED
  BY <1>1, <1>5, <1>6 DEF ErasureInv, Opened

LEMMA LoadDeriveKeeps ==
  ASSUME MaxComputed \in Nat, ErasureInv, NEW d \in Computations(memory.claims, memory.props), LoadDerive(d)
  PROVE  ErasureInv'
<1>1. /\ Cardinality(memory.computed) < MaxComputed /\ writer' = {d}
      /\ UNCHANGED <<item, bytes, memory, retired, erasing, faults>>
  BY DEF LoadDerive
<1>2. d \in Computed
  BY DEF ErasureInv, Stored, Formed, Memories, Computations, Computed
<1>3. MaxComputed # 0
  BY <1>1, FS_CardinalityType DEF ErasureInv, Stored
<1>4. Loaded(writer')
  BY <1>1, <1>2, <1>3 DEF Loaded
<1>5. ErasedMeansGone'
  BY <1>1 DEF ErasureInv, ErasedMeansGone, AnchoredIn
<1> QED
  BY <1>1, <1>4, <1>5 DEF ErasureInv, Opened

LEMMA WriteDeriveKeeps == ASSUME ErasureInv, NEW d \in writer, WriteDerive(d) PROVE ErasureInv'
<1> DEFINE n == [memory EXCEPT !.computed = @ \cup {d}]
<1>1. /\ ~(erasing.open /\ d.out \in erasing.gone.props) /\ writer' = {}
      /\ memory' = IF d.out \in memory.props THEN n ELSE memory
      /\ UNCHANGED <<item, bytes, retired, erasing, faults>>
  BY DEF WriteDerive
<1>2. memory \in Memories /\ Stored(memory) /\ Taken(memory, erasing.items, erasing.gone)
  BY DEF ErasureInv, Stored, Formed
<1>3. d \in Computed /\ MaxComputed # 0 /\ Loaded({})
  BY DEF ErasureInv, Loaded
<1>4. /\ n.claims = memory.claims /\ n.props = memory.props
      /\ n.rejected = memory.rejected /\ n.support = memory.support /\ n.computed = memory.computed \cup {d}
      /\ n \in Memories
  BY <1>2, <1>3 DEF Memories
<1>5. d.out \notin erasing.gone.props
  BY <1>1, NoneTaken
<1> HIDE DEF n
<1>6. d.out \in memory.props => Stored(n) /\ Taken(n, erasing.items, erasing.gone)
  <2>1. IsFiniteSet(n.support) /\ IsFiniteSet(n.rejected) /\ IsFiniteSet(n.computed)
    BY <1>2, <1>4, FS_AddElement DEF Stored
  <2> QED
    BY <1>2, <1>3, <1>4, <1>5, <2>1, RowAdded
<1>7. ErasedMeansGone'
  BY <1>1, <1>4 DEF ErasureInv, ErasedMeansGone, AnchoredIn
<1>8. Stored(memory') /\ Taken(memory', erasing.items, erasing.gone)
  BY <1>1, <1>2, <1>6
<1> QED
  BY <1>1, <1>3, <1>7, <1>8 DEF ErasureInv, Opened

LEMMA IngestKeeps == ASSUME ErasureInv, NEW e \in Evidence, Ingest(e) PROVE ErasureInv'
<1>1. /\ item[e] = "absent" /\ item' = [item EXCEPT ![e] = "live"] /\ bytes' = bytes \cup {e}
      /\ UNCHANGED <<memory, retired, writer, erasing, faults>>
  BY DEF Ingest
<1>2. item' \in [Evidence -> {"absent", "live", "erased"}] /\ bytes' \subseteq Evidence
  BY <1>1 DEF ErasureInv
<1>3. Opened(erasing)'
  BY <1>1 DEF ErasureInv, Opened, Deletions
<1>4. ErasedMeansGone'
  BY <1>1 DEF ErasureInv, ErasedMeansGone, AnchoredIn
<1> QED
  BY <1>1, <1>2, <1>3, <1>4 DEF ErasureInv

\* The deletion is given up.
LEMMA GivenUp ==
  ASSUME MaxExtras \in Nat, ErasureInv, erasing' = Idle, UNCHANGED <<item, memory, retired, writer>>,
         bytes' \subseteq bytes, faults' \in 0..MaxExtras
  PROVE  ErasureInv'
<1>1. Opened(Idle)' /\ Taken(memory', Idle.items, Idle.gone)
  BY IdleIs DEF Opened
<1>2. ErasedMeansGone'
  BY DEF ErasureInv, ErasedMeansGone, AnchoredIn
<1> QED
  BY <1>1, <1>2 DEF ErasureInv

\* A fault is used while there is one left.
LEMMA OneMoreFault ==
  ASSUME MaxExtras \in Nat, ErasureInv, HasRoom
  PROVE  faults + 1 \in 0..MaxExtras
<1>1. Cardinality(memory.support) \in Nat /\ Cardinality(memory.rejected) \in Nat /\ faults \in Nat
  BY FS_CardinalityType DEF ErasureInv, Stored
<1> QED
  BY <1>1 DEF HasRoom

LEMMA EraseKeeps ==
  ASSUME IsFiniteSet(Propositions), MaxComputed \in Nat, ErasureInv, NEW e \in Evidence, Erase(e)
  PROVE  ErasureInv'
<1> DEFINE seen == Less(memory, erasing.gone)
           took == Cascade(seen, e)
           gone == And(erasing.gone, took)
           t == [open |-> TRUE, items |-> erasing.items \cup {e}, undone |-> erasing.undone \cup {e}, gone |-> gone,
                 last |-> e, seen |-> seen, took |-> took]
<1>1. /\ item[e] = "live" /\ erasing.undone = erasing.items /\ erasing' = t
      /\ UNCHANGED <<item, bytes, memory, retired, writer, faults>>
  BY DEF Erase
<1>2. /\ erasing.gone \in Memories /\ Stored(memory) /\ memory \in Memories
      /\ Taken(memory, erasing.items, erasing.gone)
  BY DEF ErasureInv, Opened, Deletions, Stored, Formed
<1>3. Formed(seen)
  BY <1>2, LessIsStored DEF Stored
<1>4. /\ took \in Memories
      /\ took.claims = ClaimsGoing(seen, e, took.props) /\ took.rejected = took.claims \cap seen.rejected
      /\ {d \in seen.computed : d.out \in took.props} \subseteq took.computed
      /\ {s \in seen.support : s[1] \in took.props \/ s[2] \in took.props} \subseteq took.support
  BY <1>3, Takes
<1>5. /\ seen.claims = memory.claims \ erasing.gone.claims /\ seen.rejected = memory.rejected \ erasing.gone.rejected
      /\ seen.support = memory.support \ erasing.gone.support
      /\ seen.computed = memory.computed \ erasing.gone.computed
  BY <1>2, LeftOver
<1> HIDE DEF seen, took
<1>6. /\ gone.claims = erasing.gone.claims \cup took.claims /\ gone.rejected = erasing.gone.rejected \cup took.rejected
      /\ gone.props = erasing.gone.props \cup took.props /\ gone.support = erasing.gone.support \cup took.support
      /\ gone.computed = erasing.gone.computed \cup took.computed
  BY <1>2 DEF And, Memories
<1>7. gone \in Memories
  <2> DEFINE fields == {"claims", "rejected", "props", "support", "computed"}
  <2>1. DOMAIN erasing.gone = fields
    BY <1>2 DEF Memories
  <2>2. gone = [field \in fields |-> erasing.gone[field] \cup took[field]]
    BY <2>1 DEF And
  <2>3. gone = [field \in fields |-> gone[field]]
    BY <2>2
  <2>4. /\ erasing.gone.claims \cup took.claims \subseteq Claims /\ erasing.gone.rejected \cup took.rejected \subseteq Claims
        /\ erasing.gone.props \cup took.props \subseteq Propositions /\ erasing.gone.support \cup took.support \subseteq Edges
        /\ erasing.gone.computed \cup took.computed \subseteq Computed
    BY <1>2, <1>4 DEF Memories
  <2>5. /\ gone.claims \subseteq Claims /\ gone.rejected \subseteq Claims /\ gone.props \subseteq Propositions
        /\ gone.support \subseteq Edges /\ gone.computed \subseteq Computed
    BY <1>6, <2>4
  <2> HIDE DEF gone
  <2>6. gone = [claims |-> gone.claims, rejected |-> gone.rejected, props |-> gone.props,
                support |-> gone.support, computed |-> gone.computed]
    BY <2>3
  <2> QED
    BY <2>5, <2>6 DEF Memories
<1> HIDE DEF gone
<1>8. Taken(memory, t.items, gone)
  <2>1. took.claims = {c \in seen.claims : c[1] = e \/ c[2] \in took.props}
    BY <1>4 DEF ClaimsGoing, AnchoredIn, ClaimsOn
  <2>2. \A c \in gone.claims : c[1] \in t.items \/ c[2] \in gone.props
    BY <1>2, <1>6, <2>1 DEF Taken
  <2>3. \A c \in memory.claims : c[1] \in t.items \/ c[2] \in gone.props => c \in gone.claims
    BY <1>2, <1>5, <1>6, <2>1 DEF Taken
  <2>4. \A c \in memory.rejected : c \in gone.claims => c \in gone.rejected
    BY <1>2, <1>4, <1>5, <1>6 DEF Taken
  <2>5. \A s \in memory.support : s[1] \in gone.props \/ s[2] \in gone.props => s \in gone.support
    BY <1>2, <1>4, <1>5, <1>6 DEF Taken
  <2>6. \A d \in memory.computed : d.out \in gone.props => d \in gone.computed
    BY <1>2, <1>4, <1>5, <1>6 DEF Taken
  <2> QED
    BY <2>2, <2>3, <2>4, <2>5, <2>6 DEF Taken
<1>9. Opened(erasing)'
  <2>1. t \in Deletions
    <3>1. erasing.items \cup {e} \subseteq Evidence /\ erasing.undone \cup {e} \subseteq Evidence
      BY DEF ErasureInv, Opened, Deletions
    <3>2. seen \in Memories
      BY <1>3 DEF Formed
    <3> QED
      BY <1>4, <1>7, <3>1, <3>2 DEF Deletions
  <2>2. \A x \in t.items : item[x] = "live" /\ x \in t.undone
    BY <1>1 DEF ErasureInv, Opened
  <2>3. t.undone \subseteq t.items /\ t.open = TRUE /\ Formed(t.seen) /\ t.took = Cascade(t.seen, t.last)
    BY <1>1, <1>3 DEF took
  <2> HIDE DEF t
  <2> QED
    BY <1>1, <2>1, <2>2, <2>3 DEF Opened
<1>10. ErasedMeansGone'
  BY <1>1 DEF ErasureInv, ErasedMeansGone, AnchoredIn
<1>11. t.gone = gone
  OBVIOUS
<1> HIDE DEF t
<1> QED
  BY <1>1, <1>8, <1>9, <1>10, <1>11 DEF ErasureInv

LEMMA DeleteObjectKeeps == ASSUME ErasureInv, NEW e \in Evidence, DeleteObject(e) PROVE ErasureInv'
<1> DEFINE t == [erasing EXCEPT !.undone = @ \ {e}]
<1>1. /\ bytes' = bytes \ {e} /\ erasing' = t
      /\ UNCHANGED <<item, memory, retired, writer, faults>> /\ erasing.open
  BY DEF DeleteObject
<1>2. erasing \in Deletions
  BY DEF ErasureInv, Opened
<1>3. /\ t \in Deletions /\ t.open = erasing.open /\ t.items = erasing.items /\ t.undone = erasing.undone \ {e}
      /\ t.gone = erasing.gone /\ t.last = erasing.last /\ t.seen = erasing.seen /\ t.took = erasing.took
  BY <1>2 DEF Deletions
<1> HIDE DEF t
<1>4. Opened(erasing)'
  BY <1>1, <1>3 DEF ErasureInv, Opened
<1>5. ErasedMeansGone'
  BY <1>1 DEF ErasureInv, ErasedMeansGone, AnchoredIn
<1>6. bytes' \subseteq Evidence
  BY <1>1 DEF ErasureInv
<1> QED
  BY <1>1, <1>3, <1>4, <1>5, <1>6 DEF ErasureInv

LEMMA CommitErasureKeeps == ASSUME MaxExtras \in Nat, ErasureInv, CommitErasure PROVE ErasureInv'
<1>1. /\ erasing.open /\ erasing.undone = {}
      /\ item' = [e \in Evidence |-> IF e \in erasing.items THEN "erased" ELSE item[e]]
      /\ memory' = Less(memory, erasing.gone) /\ erasing' = Idle
      /\ UNCHANGED <<bytes, writer, faults>>
  BY DEF CommitErasure
<1>2. erasing.gone \in Memories /\ Stored(memory) /\ memory \in Memories /\ Taken(memory, erasing.items, erasing.gone)
  BY DEF ErasureInv, Opened, Deletions, Stored, Formed
<1>3. Stored(memory')
  BY <1>1, <1>2, LessIsStored
<1>4. memory'.claims = memory.claims \ erasing.gone.claims
  BY <1>1, <1>2, LeftOver
<1>5. Opened(Idle)' /\ Taken(memory', Idle.items, Idle.gone)
  BY IdleIs DEF Opened
<1>6. item' \in [Evidence -> {"absent", "live", "erased"}]
  BY <1>1 DEF ErasureInv
<1>7. ASSUME NEW e \in Evidence, item'[e] = "erased" PROVE e \notin bytes' /\ AnchoredIn(memory', e) = {}
  <2>1. CASE e \in erasing.items
    <3>1. e \notin bytes
      BY <1>1, <2>1 DEF ErasureInv, Opened
    <3>2. \A c \in memory.claims : c[1] = e => c \in erasing.gone.claims
      BY <1>2, <2>1 DEF Taken
    <3> QED
      BY <1>1, <1>4, <3>1, <3>2 DEF AnchoredIn
  <2>2. CASE e \notin erasing.items
    <3>1. item[e] = "erased"
      BY <1>1, <1>7, <2>2
    <3> QED
      BY <1>1, <1>4, <3>1 DEF ErasureInv, ErasedMeansGone, AnchoredIn
  <2> QED
    BY <2>1, <2>2
<1>8. ErasedMeansGone'
  BY <1>7 DEF ErasedMeansGone
<1> QED
  BY <1>1, <1>3, <1>5, <1>6, <1>8 DEF ErasureInv

\* Every step of the specification keeps the invariant.
LEMMA ErasureStepKeeps ==
  ASSUME IsFiniteSet(Propositions), MaxComputed \in Nat, MaxExtras \in Nat, ErasureInv, [Next]_vars
  PROVE  ErasureInv'
<1>1. CASE UNCHANGED vars
  BY <1>1 DEF vars, ErasureInv, Opened, ErasedMeansGone, AnchoredIn
<1>2. ASSUME NEW e \in Evidence, StorageFails(e) PROVE ErasureInv'
  <2>1. bytes' \subseteq bytes /\ erasing' = Idle /\ faults' = faults + 1 /\ HasRoom /\ UNCHANGED <<item, memory, retired, writer>>
    BY <1>2 DEF StorageFails
  <2> QED
    BY <2>1, GivenUp, OneMoreFault
<1>3. CASE CommitLost
  <2>1. bytes' \subseteq bytes /\ erasing' = Idle /\ faults' = faults + 1 /\ HasRoom /\ UNCHANGED <<item, memory, retired, writer>>
    BY <1>3 DEF CommitLost
  <2> QED
    BY <2>1, GivenUp, OneMoreFault
<1>4. CASE PreviewRollback
  <2>1. bytes' \subseteq bytes /\ erasing' = Idle /\ faults' \in 0..MaxExtras /\ UNCHANGED <<item, memory, retired, writer>>
    BY <1>4 DEF PreviewRollback, ErasureInv
  <2> QED
    BY <2>1, GivenUp
<1> QED
  BY <1>1, <1>2, <1>3, <1>4, IngestKeeps, EraseKeeps, DeleteObjectKeeps, StoreClaimKeeps, RejectKeeps,
     AddSupportKeeps, LoadDeriveKeeps, WriteDeriveKeeps, CommitErasureKeeps DEF Next

\* What the invariant says of the properties the run checks.
LEMMA ErasureIsRight ==
  ASSUME IsFiniteSet(Propositions), MaxComputed \in Nat, ErasureInv
  PROVE  TypeOK /\ CascadeTakesWhatFell /\ OrderDoesNotMatter /\ ErasedMeansGone /\ NothingQuotesTheErased
<1>1. TypeOK
  <2>1. /\ memory.claims \subseteq Claims /\ memory.rejected \subseteq memory.claims
        /\ memory.props \subseteq Propositions /\ memory.support \subseteq Edges
        /\ memory.computed \cup writer \subseteq Computed
    BY DEF ErasureInv, Stored, Formed, Memories, Loaded
  <2>2. Cardinality(writer) <= 1
    <3>1. writer = {} \/ \E d \in writer : writer = {d}
      BY DEF ErasureInv, Loaded
    <3>2. CASE writer = {}
      <4>1. Cardinality(writer) = 0
        BY <3>2, FS_EmptySet
      <4> QED
        BY <4>1
    <3>3. ASSUME NEW d \in writer, writer = {d} PROVE Cardinality(writer) <= 1
      <4>1. Cardinality({d}) = 1
        BY FS_Singleton
      <4> QED
        BY <3>3, <4>1
    <3> QED
      BY <3>1, <3>2, <3>3
  <2> QED
    BY <2>1, <2>2 DEF TypeOK, ErasureInv, Computed
<1>2. erasing.open => Formed(erasing.seen) /\ erasing.took = Cascade(erasing.seen, erasing.last)
  BY DEF ErasureInv, Opened
<1>3. CascadeTakesWhatFell
  <2>1. erasing.open => TakesWhatFell(erasing.seen, erasing.took, erasing.last)
    BY <1>2, CascadeIsRight
  <2> QED
    BY <2>1 DEF CascadeTakesWhatFell, TakesWhatFell
<1>4. NothingQuotesTheErased
  <2>1. erasing.open => NothingQuotes(erasing.seen, erasing.took, erasing.last)
    BY <1>2, NothingQuoted
  <2> QED
    BY <2>1 DEF NothingQuotesTheErased, NothingQuotes
<1>5. OrderDoesNotMatter
  <2>1. Formed(memory)
    BY DEF ErasureInv, Stored
  <2> DEFINE left(x, y) == After(After(memory, x), y)
             live == {x \in Evidence : item[x] = "live"}
             Once == {[first |-> x, left |-> After(memory, x)] : x \in live}
  <2>2. ASSUME NEW x \in Evidence, NEW y \in Evidence, x # y
        PROVE  /\ left(x, y).props = left(y, x).props /\ left(x, y).claims = left(y, x).claims
               /\ left(x, y).computed = left(y, x).computed
    BY <2>1, <2>2, EitherOrder
  <2> HIDE DEF live
  <2>3. ASSUME NEW o \in Once, NEW q \in Once, o.first # q.first
        PROVE  LET m == After(o.left, q.first)
                   n == After(q.left, o.first)
               IN <<m.props, m.claims, m.computed>> = <<n.props, n.claims, n.computed>>
    <3>1. PICK x \in live : o = [first |-> x, left |-> After(memory, x)]
      OBVIOUS
    <3>2. PICK y \in live : q = [first |-> y, left |-> After(memory, y)]
      OBVIOUS
    <3>3. x \in Evidence /\ y \in Evidence /\ x # y
      BY <2>3, <3>1, <3>2 DEF live
    <3>4. After(o.left, q.first) = left(x, y) /\ After(q.left, o.first) = left(y, x)
      BY <3>1, <3>2
    <3> QED
      BY <2>2, <3>3, <3>4
  <2> QED
    BY <2>3 DEF OrderDoesNotMatter, After, live
<1> QED
  BY <1>1, <1>3, <1>4, <1>5 DEF ErasureInv

\* A deletion takes what no longer stands on live evidence and nothing that does; two of
\* them leave the same whichever comes first; what is deleted is gone, with its bytes and
\* with everything that may quote it.
THEOREM DeletionIsRight ==
  ASSUME IsFiniteSet(Propositions), MaxComputed \in Nat, MaxExtras \in Nat
  PROVE  Spec => [](TypeOK /\ CascadeTakesWhatFell /\ OrderDoesNotMatter /\ ErasedMeansGone /\ NothingQuotesTheErased)
<1>1. Init => ErasureInv
  BY ErasureStarts
<1>2. ErasureInv /\ [Next]_vars => ErasureInv'
  BY ErasureStepKeeps
<1>3. ErasureInv => TypeOK /\ CascadeTakesWhatFell /\ OrderDoesNotMatter /\ ErasedMeansGone /\ NothingQuotesTheErased
  BY ErasureIsRight
<1> QED
  BY <1>1, <1>2, <1>3, PTL DEF Spec
=============================================================================
