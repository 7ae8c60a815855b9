-------------------------------- MODULE Rounds --------------------------------
(***************************************************************************)
(* What a bounded number of rounds reaches: several models replace a loop,  *)
(* or a recursive query, by rounds that each look at the one before.        *)
(***************************************************************************)
EXTENDS FiniteSetTheorems, WellFoundedInduction, TLAPS

-----------------------------------------------------------------------------
(* Rounds.                                                                   *)

\* What holds for the first round, and for each round after one it holds for, holds
\* for all of them: of the intervals up to a round it does not hold for, one would be
\* the least.
LEMMA AllRounds ==
  ASSUME NEW N \in Nat, NEW T, 0 \in T,
         \A n \in 0..N : n + 1 \in 0..N /\ n \in T => n + 1 \in T
  PROVE  0..N \subseteq T
<1> DEFINE Missing == {n \in 0..N : n \notin T}
           Below == {0..n : n \in Missing}
<1> SUFFICES ASSUME Missing # {} PROVE FALSE
  OBVIOUS
<1>1. Below \subseteq FiniteSubsetsOf(0..N) /\ Below # {}
  <2>1. ASSUME NEW n \in 0..N PROVE 0..n \subseteq 0..N /\ IsFiniteSet(0..n)
    <3>1. n \in Int /\ 0 \in Int
      OBVIOUS
    <3>2. IsFiniteSet(0..n)
      BY <3>1, FS_Interval
    <3> QED
      BY <3>2
  <2> QED
    BY <2>1 DEF FiniteSubsetsOf
<1>2. PICK s \in Below : \A q \in Below : ~(<<q, s>> \in StrictSubsetOrdering(0..N))
  <2> HIDE DEF Below
  <2> QED
    BY <1>1, FS_StrictSubsetOrderingWellFounded, WFMin
<1>3. PICK n \in Missing : s = 0..n
  BY <1>2
<1>4. n # 0 /\ n - 1 \in 0..N /\ n = (n - 1) + 1
  BY <1>3
<1>5. n - 1 \in Missing
  BY <1>3, <1>4
<1>6. <<0..(n - 1), 0..n>> \in StrictSubsetOrdering(0..N)
  <2>1. 0..(n - 1) \subseteq 0..N /\ 0..n \subseteq 0..N /\ 0..(n - 1) \subseteq 0..n
    BY <1>3, <1>4
  <2>2. n \in 0..n /\ n \notin 0..(n - 1)
    BY <1>3, <1>4
  <2> QED
    BY <2>1, <2>2 DEF StrictSubsetOrdering
<1> QED
  BY <1>2, <1>3, <1>5, <1>6

\* Each round applies the function to what the round before it has.
Run(g, N, F) == \A m \in 1..N : g[m] = F[g[m - 1]]
Runs(N, S, base, F) == {g \in [0..N -> S] : g[0] = base /\ Run(g, N, F)}

\* From any beginning a function can be applied as often as one likes.
LEMMA RunExists ==
  ASSUME NEW N \in Nat, NEW S, NEW base \in S, NEW F \in [S -> S]
  PROVE  Runs(N, S, base, F) # {}
<1> DEFINE T == {n \in 0..N : Runs(n, S, base, F) # {}}
<1>1. 0 \in T
  <2>1. [m \in 0..0 |-> base] \in [0..0 -> S] /\ [m \in 0..0 |-> base][0] = base
    OBVIOUS
  <2>2. 1..0 = {} /\ 0 \in 0..N
    OBVIOUS
  <2>3. [m \in 0..0 |-> base] \in Runs(0, S, base, F)
    BY <2>1, <2>2 DEF Runs, Run
  <2> QED
    BY <2>2, <2>3
<1>2. ASSUME NEW n \in 0..N, n + 1 \in 0..N, n \in T PROVE n + 1 \in T
  <2>1. PICK g \in [0..n -> S] : g[0] = base /\ \A m \in 1..n : g[m] = F[g[m - 1]]
    BY <1>2 DEF Runs, Run
  <2> DEFINE h == [m \in 0..(n + 1) |-> IF m = n + 1 THEN F[g[n]] ELSE g[m]]
  <2>2. F[g[n]] \in S
    BY <2>1
  <2>3. h \in [0..(n + 1) -> S]
    <3>1. \A m \in 0..(n + 1) : m # n + 1 => m \in 0..n
      OBVIOUS
    <3> QED
      BY <2>2, <3>1
  <2>4. h[0] = base
    <3>1. 0 # n + 1 /\ 0 \in 0..(n + 1)
      OBVIOUS
    <3> QED
      BY <2>1, <3>1
  <2>5. ASSUME NEW m \in 1..(n + 1) PROVE h[m] = F[h[m - 1]]
    <3>1. m \in 0..(n + 1) /\ m - 1 \in 0..(n + 1) /\ m - 1 # n + 1
      OBVIOUS
    <3>2. h[m - 1] = g[m - 1]
      BY <3>1
    <3>3. CASE m = n + 1
      <4>1. m - 1 = n
        BY <3>3
      <4> QED
        BY <3>1, <3>2, <3>3, <4>1
    <3>4. CASE m # n + 1
      <4>1. m \in 1..n
        BY <3>4
      <4> QED
        BY <2>1, <3>1, <3>2, <3>4, <4>1
    <3> QED
      BY <3>3, <3>4
  <2> HIDE DEF h
  <2>6. h \in Runs(n + 1, S, base, F)
    BY <2>3, <2>4, <2>5 DEF Runs, Run
  <2> QED
    BY <1>2, <2>6
<1>3. 0..N \subseteq T
  <2> HIDE DEF T
  <2> QED
    BY <1>1, <1>2, AllRounds
<1> QED
  BY <1>3

\* A function that only ever adds to the subsets of P.
Adds(F, P) == F \in [SUBSET P -> SUBSET P] /\ \A s \in SUBSET P : s \subseteq F[s]

\* What only ever adds to a subset of a finite set has nothing to add after as many
\* rounds as the set has elements.
LEMMA RoundsSettle ==
  ASSUME NEW P, IsFiniteSet(P), NEW N \in Nat, Cardinality(P) <= N,
         NEW F, Adds(F, P), NEW g, \A n \in 0..N : g[n] \in SUBSET P, Run(g, N, F)
  PROVE  F[g[N]] = g[N]
<1> USE DEF Adds, Run
<1> DEFINE T == {n \in 0..N : F[g[n]] = g[n] \/ Cardinality(g[n]) >= n}
<1>0. \A s \in SUBSET P : IsFiniteSet(s) /\ Cardinality(s) \in Nat
  BY FS_Subset, FS_CardinalityType
<1>1. 0 \in T
  <2>1. g[0] \in SUBSET P /\ 0 \in 0..N
    OBVIOUS
  <2> QED
    BY <1>0, <2>1
<1>2. ASSUME NEW n \in 0..N, n + 1 \in 0..N, n \in T PROVE n + 1 \in T
  <2>1. n + 1 \in 1..N /\ (n + 1) - 1 = n /\ g[n] \in SUBSET P /\ g[n + 1] \in SUBSET P
    BY <1>2
  <2>2. g[n + 1] = F[g[n]]
    BY <2>1
  <2>3. CASE F[g[n]] = g[n]
    BY <1>2, <2>2, <2>3
  <2>4. CASE F[g[n]] # g[n]
    <3>1. Cardinality(g[n]) >= n /\ g[n] \subseteq g[n + 1] /\ g[n] # g[n + 1]
      BY <1>2, <2>1, <2>2, <2>4
    <3>2. PICK x \in g[n + 1] : x \notin g[n]
      BY <3>1
    <3>3. Cardinality(g[n] \cup {x}) = Cardinality(g[n]) + 1
      BY <1>0, <2>1, <3>2, FS_AddElement
    <3>4. g[n] \cup {x} \in SUBSET g[n + 1] /\ IsFiniteSet(g[n + 1])
      BY <1>0, <2>1, <3>1, <3>2
    <3>5. Cardinality(g[n] \cup {x}) <= Cardinality(g[n + 1])
      BY <3>4, FS_Subset
    <3>6. Cardinality(g[n]) \in Nat /\ Cardinality(g[n + 1]) \in Nat
      BY <1>0, <2>1
    <3> QED
      BY <1>2, <3>1, <3>3, <3>5, <3>6
  <2> QED
    BY <2>3, <2>4
<1>3. N \in T
  <2>1. 0..N \subseteq T
    <3> HIDE DEF T
    <3> QED
      BY <1>1, <1>2, AllRounds
  <2> QED
    BY <2>1
<1>4. g[N] \in SUBSET P
  OBVIOUS
<1>5. CASE Cardinality(g[N]) >= N
  <2>1. Cardinality(g[N]) <= Cardinality(P)
    BY <1>4, FS_Subset
  <2>2. Cardinality(g[N]) = Cardinality(P)
    BY <1>0, <1>4, <1>5, <2>1, FS_CardinalityType
  <2>3. g[N] = P
    BY <1>4, <2>2, FS_Subset
  <2>4. P \in SUBSET P
    OBVIOUS
  <2>5. P \subseteq F[P] /\ F[P] \in SUBSET P
    BY <2>4
  <2> QED
    BY <2>3, <2>5
<1> QED
  BY <1>3, <1>5

\* A run stays where it began.
LEMMA RunStays ==
  ASSUME NEW N \in Nat, NEW S, NEW g, g[0] \in S,
         \A m \in 1..N : g[m - 1] \in S => g[m] \in S
  PROVE  \A n \in 0..N : g[n] \in S
<1> DEFINE T == {n \in 0..N : g[n] \in S}
<1>1. 0 \in T
  OBVIOUS
<1>2. ASSUME NEW n \in 0..N, n + 1 \in 0..N, n \in T PROVE n + 1 \in T
  <2>1. n + 1 \in 1..N /\ (n + 1) - 1 = n
    BY <1>2
  <2> QED
    BY <1>2, <2>1
<1>3. 0..N \subseteq T
  <2> HIDE DEF T
  <2> QED
    BY <1>1, <1>2, AllRounds
<1> QED
  BY <1>3

\* N rounds are as many as there is to add to the beginning in P.
Enough(N, P, base) ==
  N \in Nat /\ base \in SUBSET P /\ IsFiniteSet(P \ base) /\ Cardinality(P \ base) <= N

\* Rounds that only ever add to a beginning end at the least set that has it and to
\* which they add nothing, once there are as many of them as there is to add.
LEMMA RoundsReach ==
  ASSUME NEW P, NEW base, NEW N, Enough(N, P, base), NEW F, Adds(F, P), NEW g, g[0] = base, Run(g, N, F)
  PROVE  /\ g[N] \in SUBSET P /\ base \subseteq g[N] /\ F[g[N]] = g[N]
         /\ \A U : base \subseteq U /\ (\A s \in SUBSET P : s \subseteq U => F[s] \subseteq U) => g[N] \subseteq U
<1> USE DEF Adds, Run, Enough
<1> DEFINE In == {s \in SUBSET P : base \subseteq s}
<1>1. \A n \in 0..N : g[n] \in In
  <2>1. g[0] \in In /\ \A m \in 1..N : g[m - 1] \in In => g[m] \in In
    OBVIOUS
  <2> HIDE DEF In
  <2> QED
    BY <2>1, RunStays
<1>2. F[g[N]] = g[N]
  <2> DEFINE Q == P \ base
             H == [s \in SUBSET Q |-> F[s \cup base] \ base]
             h == [n \in 0..N |-> g[n] \ base]
  <2>1. \A s \in SUBSET Q : s \cup base \in SUBSET P
    OBVIOUS
  <2>2. Adds(H, Q)
    BY <2>1
  <2>3. \A n \in 0..N : h[n] = g[n] \ base /\ h[n] \in SUBSET Q /\ h[n] \cup base = g[n]
    BY <1>1
  <2>4. Run(h, N, H)
    <3> SUFFICES ASSUME NEW m \in 1..N PROVE h[m] = H[h[m - 1]]
      OBVIOUS
    <3>1. m \in 0..N /\ m - 1 \in 0..N /\ g[m] = F[g[m - 1]]
      OBVIOUS
    <3>2. h[m - 1] \in SUBSET Q /\ h[m - 1] \cup base = g[m - 1] /\ h[m] = g[m] \ base
      <4> HIDE DEF Q, h
      <4> QED
        BY <2>3, <3>1
    <3> HIDE DEF Q, h
    <3>3. H[h[m - 1]] = F[h[m - 1] \cup base] \ base
      BY <3>2
    <3> HIDE DEF H
    <3> QED
      BY <3>1, <3>2, <3>3
  <2>5. H[h[N]] = h[N]
    <3>1. \A n \in 0..N : h[n] \in SUBSET Q
      BY <2>3
    <3>2. N \in Nat /\ IsFiniteSet(Q) /\ Cardinality(Q) <= N
      OBVIOUS
    <3> HIDE DEF H, h, Q, Adds, Run, Enough
    <3> QED
      BY <2>2, <2>4, <3>1, <3>2, RoundsSettle
  <2>6. N \in 0..N
    OBVIOUS
  <2>7. H[h[N]] = F[g[N]] \ base
    <3> HIDE DEF Q, h
    <3> QED
      BY <2>3, <2>6
  <2>8. g[N] \in SUBSET P /\ g[N] \subseteq F[g[N]] /\ base \subseteq g[N]
    BY <1>1, <2>6
  <2> HIDE DEF H, h, Q
  <2> QED
    BY <2>3, <2>5, <2>6, <2>7, <2>8
<1>3. ASSUME NEW U, base \subseteq U, \A s \in SUBSET P : s \subseteq U => F[s] \subseteq U PROVE g[N] \subseteq U
  <2> DEFINE Under == {s \in SUBSET P : s \subseteq U}
  <2>1. g[0] \in Under
    BY <1>3
  <2>2. \A m \in 1..N : g[m - 1] \in Under => g[m] \in Under
    BY <1>3
  <2>3. \A n \in 0..N : g[n] \in Under
    <3> HIDE DEF Under
    <3> QED
      BY <2>1, <2>2, RunStays
  <2> QED
    BY <2>3
<1>4. N \in 0..N
  OBVIOUS
<1> QED
  BY <1>1, <1>2, <1>3, <1>4

\* A relation relates its first components to at most as many as it has pairs.
LEMMA ColumnIsSmall ==
  ASSUME NEW R, IsFiniteSet(R), NEW j
  PROVE  IsFiniteSet({row[j] : row \in R}) /\ Cardinality({row[j] : row \in R}) <= Cardinality(R)
<1> DEFINE f == [row \in R |-> row[j]]
           T == {row[j] : row \in R}
<1>1. f \in Surjection(R, T)
  BY DEF Surjection
<1> HIDE DEF f, T
<1>2. IsFiniteSet(T) /\ Cardinality(T) <= Cardinality(R)
  BY <1>1, FS_Surjection
<1> QED
  BY <1>2 DEF T

===============================================================================
