---------------------------- MODULE FusionProofs ----------------------------
(***************************************************************************)
(* The fused code of any body does what its ops do: strip_dead_labels,     *)
(* fuse_ops and assemble, for any number of bits, any repertoires and any  *)
(* length of bodies.                                                       *)
(***************************************************************************)
EXTENDS Fusion, FiniteSetTheorems, SequenceTheorems, WellFoundedInduction, TLAPS

(***************************************************************************)
(* Induction over the numbers up to n, by its set.                         *)
(***************************************************************************)
LEMMA Least ==
  ASSUME NEW T, T \subseteq Nat, T # {}
  PROVE  \E n \in T : \A m \in T : n <= m
<1>1. PICK n \in T : \A m \in T : ~ (<<m, n>> \in OpToRel(<, Nat))
  BY NatLessThanWellFounded, WFMin, Zenon
<1>2. \A m \in T : ~ (m < n)
  BY <1>1 DEF OpToRel
<1> QED BY <1>2

LEMMA UpTo ==
  ASSUME NEW n \in Nat, NEW T, 0 \in T, \A i \in 0..(n - 1) : i \in T => i + 1 \in T
  PROVE  \A i \in 0..n : i \in T
<1> SUFFICES ASSUME NEW i \in 0..n, i \notin T PROVE FALSE
  OBVIOUS
<1> DEFINE B == {j \in 0..n : j \notin T}
<1>0. B \subseteq Nat /\ B # {}
  OBVIOUS
<1>1. PICK j \in B : \A k \in B : j <= k
  <2> HIDE DEF B
  <2> QED BY <1>0, Least
<1>2. j # 0 /\ j - 1 \in 0..(n - 1) /\ j - 1 \notin B
  BY <1>1
<1>3. j - 1 \in T
  BY <1>2
<1>4. (j - 1) + 1 \in T
  BY <1>2, <1>3
<1> QED BY <1>4, <1>2

----------------------------------------------------------------------------
(***************************************************************************)
(* Elements kept: Rank(P, i) counts the positions of P up to i.            *)
(***************************************************************************)
LEMMA RankTyped ==
  ASSUME NEW n \in Nat, NEW P \in SUBSET (1..n)
  PROVE  /\ IsFiniteSet(P) /\ Cardinality(P) \in Nat
         /\ \A i : Rank(P, i) \in Nat
         /\ Rank(P, 0) = 0 /\ Rank(P, n) = Cardinality(P)
<1>1. IsFiniteSet(1..n)
  BY FS_Interval
<1>2. IsFiniteSet(P)
  BY <1>1, FS_Subset
<1>3. ASSUME NEW i PROVE Rank(P, i) \in Nat
  <2>1. IsFiniteSet({j \in P : j <= i})
    BY <1>2, FS_Subset
  <2> QED BY <2>1, FS_CardinalityType DEF Rank
<1>4. {j \in P : j <= 0} = {} /\ {j \in P : j <= n} = P
  <2>1. \A j \in P : ~(j <= 0) /\ j <= n
    OBVIOUS
  <2> QED BY ONLY <2>1
<1> QED BY <1>2, <1>3, <1>4, FS_CardinalityType, FS_EmptySet DEF Rank

LEMMA RankNat ==
  ASSUME NEW n \in Nat, NEW P \in SUBSET (1..n), NEW i
  PROVE  Rank(P, i) \in Nat
  BY RankTyped, Zenon

LEMMA RankEnds ==
  ASSUME NEW n \in Nat, NEW P \in SUBSET (1..n)
  PROVE  Rank(P, 0) = 0 /\ Rank(P, n) = Cardinality(P) /\ Cardinality(P) \in Nat
  BY RankTyped, Zenon

LEMMA RankNext ==
  ASSUME NEW n \in Nat, NEW P \in SUBSET (1..n), NEW i \in 1..n
  PROVE  /\ i \in P => Rank(P, i) = Rank(P, i - 1) + 1
         /\ i \notin P => Rank(P, i) = Rank(P, i - 1)
<1> DEFINE Q == {j \in P : j <= i - 1}
<1>1. IsFiniteSet(P) /\ Q \subseteq P
  BY RankTyped
<1>2. IsFiniteSet(Q)
  <2> HIDE DEF Q
  <2> QED BY <1>1, FS_Subset
<1>3. CASE i \in P
  <2>1. {j \in P : j <= i} = Q \cup {i} /\ i \notin Q
    <3>1. \A j \in P : j <= i <=> j <= i - 1 \/ j = i
      OBVIOUS
    <3>2. ~(i <= i - 1)
      OBVIOUS
    <3> QED BY ONLY <3>1, <3>2, <1>3
  <2>2. Cardinality(Q \cup {i}) = Cardinality(Q) + 1
    <3> HIDE DEF Q
    <3> QED BY <1>2, <2>1, FS_AddElement
  <2> QED BY <1>3, <2>1, <2>2 DEF Rank
<1>4. CASE i \notin P
  <2>1. {j \in P : j <= i} = Q
    <3>1. \A j \in P : j <= i <=> j <= i - 1
      BY <1>4
    <3> QED BY ONLY <3>1
  <2> QED BY <1>4, <2>1 DEF Rank
<1> QED BY <1>3, <1>4

LEMMA RankGrows ==
  ASSUME NEW n \in Nat, NEW P \in SUBSET (1..n), NEW i \in 0..n, NEW j \in 0..n, i <= j
  PROVE  Rank(P, i) <= Rank(P, j)
<1> DEFINE Q == {k \in P : k <= i}
           R == {k \in P : k <= j}
<1>1. Q \subseteq R
  <2>1. \A k \in P : k <= i => k <= j
    OBVIOUS
  <2> QED BY ONLY <2>1
<1>2. IsFiniteSet(R)
  <2>1. IsFiniteSet(P) /\ R \subseteq P
    BY RankTyped
  <2> HIDE DEF R
  <2> QED BY <2>1, FS_Subset
<1>3. Cardinality(Q) <= Cardinality(R)
  <2> HIDE DEF Q, R
  <2> QED BY <1>1, <1>2, FS_Subset
<1> QED BY <1>3 DEF Rank

LEMMA RankOrders ==
  ASSUME NEW n \in Nat, NEW P \in SUBSET (1..n), NEW i \in 0..n, NEW j \in P, i < j
  PROVE  Rank(P, i) < Rank(P, j)
<1>1. j \in 1..n /\ i <= j - 1 /\ j - 1 \in 0..n
  OBVIOUS
<1>2. Rank(P, j) = Rank(P, j - 1) + 1
  BY <1>1, RankNext
<1>3. Rank(P, i) <= Rank(P, j - 1)
  BY <1>1, RankGrows
<1>4. Rank(P, i) \in Nat /\ Rank(P, j - 1) \in Nat
  BY RankNat
<1> QED BY <1>2, <1>3, <1>4

LEMMA RankWithin ==
  ASSUME NEW n \in Nat, NEW P \in SUBSET (1..n), NEW i \in P
  PROVE  Rank(P, i) \in 1..Cardinality(P)
<1>1. i \in 1..n /\ 0 \in 0..n /\ n \in 0..n /\ 0 < i /\ i <= n /\ i \in 0..n
  OBVIOUS
<1>2. Rank(P, 0) < Rank(P, i)
  BY <1>1, RankOrders
<1>3. Rank(P, i) <= Rank(P, n)
  BY <1>1, RankGrows
<1>4. Rank(P, 0) = 0 /\ Rank(P, n) = Cardinality(P) /\ Cardinality(P) \in Nat
  BY RankEnds
<1>5. Rank(P, i) \in Nat
  BY RankNat
<1> QED BY ONLY <1>2, <1>3, <1>4, <1>5

LEMMA RankOne ==
  ASSUME NEW n \in Nat, NEW P \in SUBSET (1..n), NEW i \in P, NEW j \in P, Rank(P, i) = Rank(P, j)
  PROVE  i = j
<1>0. Rank(P, i) \in Nat
  BY RankNat
<1>1. i \in 0..n /\ j \in 0..n
  OBVIOUS
<1>2. ~(i < j) /\ ~(j < i)
  <2>1. i < j => Rank(P, i) < Rank(P, j)
    BY <1>1, RankOrders
  <2>2. j < i => Rank(P, j) < Rank(P, i)
    BY <1>1, RankOrders
  <2> QED BY ONLY <2>1, <2>2, <1>0, Rank(P, i) = Rank(P, j)
<1>3. i \in Nat /\ j \in Nat
  OBVIOUS
<1> QED BY ONLY <1>3, <1>2

\* Every place among the kept elements has its position.
LEMMA RankOnto ==
  ASSUME NEW n \in Nat, NEW P \in SUBSET (1..n), NEW m \in 1..Cardinality(P)
  PROVE  \E i \in P : Rank(P, i) = m
<1> DEFINE T == {i \in 1..n : Rank(P, i) >= m}
<1>0. /\ Cardinality(P) \in Nat /\ \A i : Rank(P, i) \in Nat
      /\ Rank(P, 0) = 0 /\ Rank(P, n) = Cardinality(P)
  BY RankNat, RankEnds, Zenon
<1>1. n \in T
  <2>1. n \in 1..n
    <3>1. P # {}
      BY <1>0, FS_EmptySet
    <3>2. PICK p \in P : p \in 1..n
      BY <3>1
    <3> QED BY <3>2
  <2> QED BY <2>1, <1>0
<1>2. PICK i \in 1..n : Rank(P, i) >= m /\ \A j \in 1..n : Rank(P, j) >= m => i <= j
  <2>1. T \subseteq Nat /\ T # {}
    BY <1>1
  <2>2. PICK i \in T : \A j \in T : i <= j
    <3> HIDE DEF T
    <3> QED BY <2>1, Least
  <2> QED BY <2>2
<1> HIDE DEF T
<1>3. Rank(P, i - 1) < m
  <2>1. CASE i = 1
    BY <2>1, <1>0
  <2>2. CASE i # 1
    BY <1>0, <1>2, <2>2
  <2> QED BY <2>1, <2>2
<1>4. Rank(P, i) >= m
  BY <1>2
<1>5. /\ i \in P => Rank(P, i) = Rank(P, i - 1) + 1
      /\ i \notin P => Rank(P, i) = Rank(P, i - 1)
  BY RankNext
<1>6. m \in Nat /\ Rank(P, i) \in Nat /\ Rank(P, i - 1) \in Nat
  BY <1>0
<1>7. i \in P /\ Rank(P, i) = m
  BY ONLY <1>3, <1>4, <1>5, <1>6
<1> QED BY ONLY <1>7

LEMMA KeptAt ==
  ASSUME NEW n \in Nat, NEW P \in SUBSET (1..n), NEW ops, NEW i \in P
  PROVE  Kept(ops, P)[Rank(P, i)] = ops[i]
<1>1. Rank(P, i) \in 1..Cardinality(P)
  BY RankWithin
<1>2. \A j \in P : Rank(P, j) = Rank(P, i) => j = i
  BY RankOne
<1>3. (CHOOSE j \in P : Rank(P, j) = Rank(P, i)) = i
  BY <1>2
<1> QED BY <1>1, <1>3 DEF Kept

LEMMA KeptTyped ==
  ASSUME NEW n \in Nat, NEW P \in SUBSET (1..n), NEW S, NEW ops, \A i \in P : ops[i] \in S
  PROVE  Kept(ops, P) \in Seq(S) /\ Len(Kept(ops, P)) = Cardinality(P)
<1>1. Cardinality(P) \in Nat
  BY RankTyped
<1>2. ASSUME NEW m \in 1..Cardinality(P) PROVE Kept(ops, P)[m] \in S
  <2>1. PICK i \in P : Rank(P, i) = m
    BY RankOnto
  <2> QED BY <2>1, KeptAt
<1>3. Kept(ops, P) = [m \in 1..Cardinality(P) |-> Kept(ops, P)[m]]
  BY DEF Kept
<1>4. Kept(ops, P) \in [1..Cardinality(P) -> S]
  BY <1>2, <1>3
<1> QED BY <1>1, <1>4

----------------------------------------------------------------------------
(***************************************************************************)
(* The positions that the loop of fuse_ops visits.                         *)
(***************************************************************************)
Follow(v, t, k) == \A i \in 1..k : i \in v <=> i = 1 \/ ~(i - 1 \in v /\ PairAt(t, i - 1))

LEMMA VisitsExist ==
  ASSUME NEW t, NEW n \in Nat
  PROVE  \E v \in SUBSET (1..n) : Follow(v, t, n)
<1> DEFINE T == {k \in 0..n : \E v \in SUBSET (1..k) : Follow(v, t, k)}
<1>1. 0 \in T
  <2>1. {} \in SUBSET (1..0) /\ Follow({}, t, 0)
    BY DEF Follow
  <2> QED BY <2>1
<1>2. ASSUME NEW k \in 0..(n - 1), k \in T PROVE k + 1 \in T
  <2>1. PICK v \in SUBSET (1..k) : Follow(v, t, k)
    BY <1>2
  <2>2. PICK w : w = IF k + 1 = 1 \/ ~(k \in v /\ PairAt(t, k)) THEN v \cup {k + 1} ELSE v
    OBVIOUS
  <2>3. w \in SUBSET (1..(k + 1)) /\ \A i \in 1..k : i \in w <=> i \in v
    BY <2>2
  <2>4. k + 1 \in w <=> k + 1 = 1 \/ ~(k \in v /\ PairAt(t, k))
    BY <2>2
  <2>5. ASSUME NEW i \in 1..(k + 1) PROVE i \in w <=> i = 1 \/ ~(i - 1 \in w /\ PairAt(t, i - 1))
    <3>1. CASE i = k + 1
      <4>1. i - 1 = k
        BY <3>1
      <4>2. CASE k = 0
        BY <2>4, <3>1, <4>2
      <4>3. CASE k # 0
        <5>1. k \in w <=> k \in v
          BY <2>3, <4>3
        <5> QED BY ONLY <5>1, <4>1, <3>1, <2>4
      <4> QED BY <4>2, <4>3
    <3>2. CASE i # k + 1
      <4>1. i \in 1..k
        BY <3>2
      <4>2. CASE i = 1
        BY <2>1, <2>3, <4>1, <4>2 DEF Follow
      <4>3. CASE i # 1
        <5>1. i - 1 \in 1..k
          BY <4>1, <4>3
        <5>2. i \in v <=> i = 1 \/ ~(i - 1 \in v /\ PairAt(t, i - 1))
          BY <2>1, <4>1 DEF Follow
        <5>3. (i \in w <=> i \in v) /\ (i - 1 \in w <=> i - 1 \in v)
          BY <2>3, <4>1, <5>1
        <5> QED BY ONLY <5>2, <5>3
      <4> QED BY <4>2, <4>3
    <3> QED BY <3>1, <3>2
  <2>6. Follow(w, t, k + 1)
    BY <2>5 DEF Follow
  <2>7. k + 1 \in 0..n
    OBVIOUS
  <2> QED BY <2>3, <2>6, <2>7
<1> HIDE DEF T
<1>3. n \in T
  <2>1. n \in 0..n
    OBVIOUS
  <2> QED BY <1>1, <1>2, <2>1, UpTo
<1> QED BY <1>3 DEF T

LEMMA VisitedFollow ==
  ASSUME NEW S, NEW t \in Seq(S)
  PROVE  Visited(t) \in SUBSET (1..Len(t)) /\ Follow(Visited(t), t, Len(t))
<1> DEFINE Eq(f) == f = [i \in DOMAIN t |-> i = 1 \/ ~(f[i - 1] /\ PairAt(t, i - 1))]
           c == CHOOSE f : Eq(f)
<1>0. Len(t) \in Nat /\ DOMAIN t = 1..Len(t)
  OBVIOUS
<1>1. PICK v \in SUBSET (1..Len(t)) : Follow(v, t, Len(t))
  BY <1>0, VisitsExist
<1>2. PICK g : g = [i \in DOMAIN t |-> i \in v]
  OBVIOUS
<1>3. Eq(g)
  <2>1. ASSUME NEW i \in DOMAIN t
        PROVE  (i \in v) = (i = 1 \/ ~(g[i - 1] /\ PairAt(t, i - 1)))
    <3>1. i \in v <=> i = 1 \/ ~(i - 1 \in v /\ PairAt(t, i - 1))
      BY <1>0, <1>1 DEF Follow
    <3>2. CASE i = 1
      BY ONLY <3>1, <3>2
    <3>3. CASE i # 1
      <4>1. i - 1 \in DOMAIN t
        BY <1>0, <3>3
      <4>2. g[i - 1] = (i - 1 \in v)
        BY <1>2, <4>1
      <4>3. ~(g[i - 1] /\ PairAt(t, i - 1)) <=> ~(i - 1 \in v /\ PairAt(t, i - 1))
        BY ONLY <4>2
      <4>4. i \in v <=> i = 1 \/ ~(g[i - 1] /\ PairAt(t, i - 1))
        BY ONLY <3>1, <4>3
      <4> QED BY ONLY <4>4
    <3> QED BY <3>2, <3>3
  <2> QED BY ONLY <1>2, <2>1
<1>4. Eq(c)
  <2> HIDE DEF Eq
  <2> QED BY <1>3
<1>5. Visited(t) = {i \in DOMAIN t : c[i]}
  BY DEF Visited
<1> HIDE DEF c
<1>6. ASSUME NEW i \in 1..Len(t)
      PROVE  i \in Visited(t) <=> i = 1 \/ ~(i - 1 \in Visited(t) /\ PairAt(t, i - 1))
  <2>1. c[i] = (i = 1 \/ ~(c[i - 1] /\ PairAt(t, i - 1)))
    BY ONLY <1>0, <1>4
  <2>2. i \in Visited(t) <=> c[i]
    BY ONLY <1>0, <1>5
  <2>3. CASE i = 1
    BY ONLY <2>1, <2>2, <2>3
  <2>4. CASE i # 1
    <3>1. i - 1 \in 1..Len(t)
      BY <1>0, <2>4
    <3>2. i - 1 \in Visited(t) <=> c[i - 1]
      BY ONLY <1>0, <1>5, <3>1
    <3> QED BY ONLY <2>1, <2>2, <3>2
  <2> QED BY <2>3, <2>4
<1> QED BY <1>0, <1>5, <1>6 DEF Follow
----------------------------------------------------------------------------
(***************************************************************************)
(* What each pass keeps of the ops it is given.                            *)
(***************************************************************************)
LEMMA StrippedAt ==
  ASSUME NEW S, NEW s \in Seq(S)
  PROVE  /\ Live(s) \in SUBSET (1..Len(s))
         /\ StripDeadLabels(s) \in Seq(S) /\ Len(StripDeadLabels(s)) = Cardinality(Live(s))
         /\ \A i \in Live(s) : StripDeadLabels(s)[Rank(Live(s), i)] = s[i]
<1>1. Len(s) \in Nat /\ Live(s) \in SUBSET (1..Len(s)) /\ \A i \in Live(s) : s[i] \in S
  BY DEF Live
<1>2. /\ Kept(s, Live(s)) \in Seq(S) /\ Len(Kept(s, Live(s))) = Cardinality(Live(s))
  BY <1>1, KeptTyped
<1>3. \A i \in Live(s) : Kept(s, Live(s))[Rank(Live(s), i)] = s[i]
  BY <1>1, KeptAt
<1> QED BY <1>1, <1>2, <1>3 DEF StripDeadLabels

\* Pairs merged wherever they stand.
Merged(t) == [i \in DOMAIN t |-> IF PairAt(t, i) THEN Fused(t[i], t[i + 1]) ELSE t[i]]

LEMMA FusedAt ==
  ASSUME NEW S, NEW t \in Seq(S)
  PROVE  /\ FuseOps(t) \in Seq({Merged(t)[i] : i \in 1..Len(t)})
         /\ Len(FuseOps(t)) = Cardinality(Visited(t))
         /\ \A i \in Visited(t) : FuseOps(t)[Rank(Visited(t), i)] = Merged(t)[i]
<1>1. Len(t) \in Nat /\ Visited(t) \in SUBSET (1..Len(t))
  BY VisitedFollow
<1>2. FuseOps(t) = Kept(Merged(t), Visited(t))
  BY DEF FuseOps, Merged
<1>3. \A i \in Visited(t) : Merged(t)[i] \in {Merged(t)[j] : j \in 1..Len(t)}
  BY <1>1
<1>4. /\ Kept(Merged(t), Visited(t)) \in Seq({Merged(t)[i] : i \in 1..Len(t)})
      /\ Len(Kept(Merged(t), Visited(t))) = Cardinality(Visited(t))
  BY <1>1, <1>3, KeptTyped
<1>5. \A i \in Visited(t) : Kept(Merged(t), Visited(t))[Rank(Visited(t), i)] = Merged(t)[i]
  BY <1>1, KeptAt
<1> QED BY <1>2, <1>4, <1>5

LEMMA AssembledAt ==
  ASSUME NEW S, NEW u \in Seq(S)
  PROVE  /\ Proper(u) \in SUBSET (1..Len(u))
         /\ Assemble(u) \in Seq({ResolveTargets(u, u[i]) : i \in 1..Len(u)})
         /\ Len(Assemble(u)) = Cardinality(Proper(u))
         /\ \A i \in Proper(u) : Assemble(u)[Rank(Proper(u), i)] = ResolveTargets(u, u[i])
<1> DEFINE R == [i \in DOMAIN u |-> ResolveTargets(u, u[i])]
           X == {ResolveTargets(u, u[i]) : i \in 1..Len(u)}
<1>1. Len(u) \in Nat /\ DOMAIN u = 1..Len(u) /\ Proper(u) \in SUBSET (1..Len(u))
  BY DEF Proper
<1>2. Assemble(u) = Kept(R, Proper(u))
  BY DEF Assemble
<1>3. \A i \in Proper(u) : R[i] = ResolveTargets(u, u[i]) /\ R[i] \in X
  BY <1>1
<1> HIDE DEF R, X
<1>4. Kept(R, Proper(u)) \in Seq(X) /\ Len(Kept(R, Proper(u))) = Cardinality(Proper(u))
  BY <1>1, <1>3, KeptTyped
<1>5. \A i \in Proper(u) : Kept(R, Proper(u))[Rank(Proper(u), i)] = R[i]
  BY <1>1, KeptAt
<1> QED BY <1>1, <1>2, <1>3, <1>4, <1>5 DEF X

LEMMA FusesNoLabel ==
  ASSUME NEW p, NEW q, Fuses(p, q)
  PROVE  ~IsLabel(p) /\ ~IsLabel(q) /\ ~IsLabel(Fused(p, q))
  BY DEF Fuses, FusesLocal, FusesEqZero, FusesCompare, IsLabel, Accesses,
         Fused, FusedLocal, FusedBranch

LEMMA LabelVisited ==
  ASSUME NEW S, NEW t \in Seq(S), NEW j \in 1..Len(t), IsLabel(t[j])
  PROVE  j \in Visited(t) /\ ~PairAt(t, j) /\ ~PairAt(t, j - 1)
<1>1. ~PairAt(t, j) /\ ~PairAt(t, j - 1)
  BY FusesNoLabel DEF PairAt
<1> QED BY <1>1, VisitedFollow DEF Follow

LEMMA LabelStays ==
  ASSUME NEW S, NEW t \in Seq(S), NEW j \in Visited(t)
  PROVE  /\ IsLabel(Merged(t)[j]) <=> IsLabel(t[j])
         /\ IsLabel(t[j]) => Merged(t)[j] = t[j]
<1>1. j \in DOMAIN t
  BY VisitedFollow
<1>2. CASE PairAt(t, j)
  <2>1. Fuses(t[j], t[j + 1]) /\ Merged(t)[j] = Fused(t[j], t[j + 1])
    BY <1>1, <1>2 DEF PairAt, Merged
  <2> QED BY <2>1, FusesNoLabel
<1>3. CASE ~PairAt(t, j)
  BY <1>1, <1>3 DEF Merged
<1> QED BY <1>2, <1>3
----------------------------------------------------------------------------
(***************************************************************************)
(* Where the op at position i of the source, or the label, is after each   *)
(* pass.                                                                   *)
(***************************************************************************)
Stripped(s) == StripDeadLabels(s)
Merging(s) == FuseOps(Stripped(s))

Place(s, i) == Rank(Live(s), i)
MergedPlace(s, i) == Rank(Visited(Stripped(s)), Place(s, i))
CodePlace(s, i) == Rank(Proper(Merging(s)), MergedPlace(s, i))
PlainPlace(s, i) == Rank(Proper(s), i)

\* The op at i begins an op of the fused code; with the next one if it is wide.
Leads(s, i) == i \in Proper(s) /\ Place(s, i) \in Visited(Stripped(s))
Wide(s, i) == PairAt(Stripped(s), Place(s, i))

LEMMA PlacesTyped ==
  ASSUME NEW S, NEW s \in Seq(S)
  PROVE  /\ Len(s) \in Nat /\ Live(s) \in SUBSET (1..Len(s)) /\ Proper(s) \in SUBSET Live(s)
         /\ Stripped(s) \in Seq(S) /\ Len(Stripped(s)) = Cardinality(Live(s))
         /\ Cardinality(Live(s)) \in Nat
         /\ Visited(Stripped(s)) \in SUBSET (1..Len(Stripped(s)))
         /\ \E X : Merging(s) \in Seq(X)
         /\ Len(Merging(s)) = Cardinality(Visited(Stripped(s)))
         /\ Len(Merging(s)) \in Nat
         /\ Proper(Merging(s)) \in SUBSET (1..Len(Merging(s)))
<1>1. Len(s) \in Nat /\ Live(s) \in SUBSET (1..Len(s)) /\ Stripped(s) \in Seq(S)
      /\ Len(Stripped(s)) = Cardinality(Live(s))
  BY StrippedAt DEF Stripped
<1>2. Proper(s) \in SUBSET Live(s)
  BY DEF Proper, Live
<1>3. Visited(Stripped(s)) \in SUBSET (1..Len(Stripped(s)))
  BY <1>1, VisitedFollow
<1>4. \E X : Merging(s) \in Seq(X)
  BY <1>1, FusedAt DEF Merging
<1>5. Len(Merging(s)) = Cardinality(Visited(Stripped(s)))
  BY <1>1, FusedAt DEF Merging
<1>6. Cardinality(Live(s)) \in Nat
  BY <1>1, RankEnds
<1>7. Len(Merging(s)) \in Nat /\ Proper(Merging(s)) \in SUBSET (1..Len(Merging(s)))
  <2>1. PICK X : Merging(s) \in Seq(X)
    BY <1>4
  <2>2. Len(Merging(s)) \in Nat /\ DOMAIN Merging(s) = 1..Len(Merging(s))
    BY ONLY <2>1
  <2> QED BY ONLY <2>2 DEF Proper
<1> QED BY <1>1, <1>2, <1>3, <1>4, <1>5, <1>6, <1>7

LEMMA PlaceTyped ==
  ASSUME NEW S, NEW s \in Seq(S), NEW i \in 0..Len(s)
  PROVE  /\ Place(s, i) \in 0..Len(Stripped(s)) /\ MergedPlace(s, i) \in 0..Len(Merging(s))
         /\ CodePlace(s, i) \in Nat /\ PlainPlace(s, i) \in Nat
         /\ Place(s, 0) = 0 /\ MergedPlace(s, 0) = 0 /\ CodePlace(s, 0) = 0 /\ PlainPlace(s, 0) = 0
<1>1. /\ Len(s) \in Nat /\ Live(s) \in SUBSET (1..Len(s)) /\ Proper(s) \in SUBSET (1..Len(s))
      /\ Len(Stripped(s)) \in Nat /\ Len(Stripped(s)) = Cardinality(Live(s))
      /\ Visited(Stripped(s)) \in SUBSET (1..Len(Stripped(s)))
      /\ Len(Merging(s)) \in Nat /\ Len(Merging(s)) = Cardinality(Visited(Stripped(s)))
      /\ Proper(Merging(s)) \in SUBSET (1..Len(Merging(s)))
  <2>1. Proper(s) \in SUBSET (1..Len(s))
    BY DEF Proper
  <2> QED BY <2>1, PlacesTyped
<1>2. Place(s, i) \in 0..Len(Stripped(s))
  <2>1. Rank(Live(s), i) <= Rank(Live(s), Len(s))
    BY <1>1, RankGrows
  <2>2. Rank(Live(s), Len(s)) = Len(Stripped(s)) /\ Rank(Live(s), i) \in Nat
    BY <1>1, RankEnds, RankNat
  <2> QED BY ONLY <1>1, <2>1, <2>2 DEF Place
<1>3. MergedPlace(s, i) \in 0..Len(Merging(s))
  <2> DEFINE n == Len(Stripped(s))
             V == Visited(Stripped(s))
             j == Place(s, i)
  <2>0. n \in Nat /\ V \in SUBSET (1..n) /\ j \in 0..n /\ n \in 0..n /\ j <= n
    BY <1>1, <1>2
  <2> HIDE DEF n, V, j
  <2>1. Rank(V, j) <= Rank(V, n) /\ Rank(V, n) = Cardinality(V) /\ Rank(V, j) \in Nat
    BY <2>0, RankGrows, RankEnds, RankNat
  <2> QED BY ONLY <1>1, <2>1 DEF MergedPlace, V, j
<1>4. CodePlace(s, i) \in Nat /\ PlainPlace(s, i) \in Nat
  BY <1>1, RankNat DEF CodePlace, PlainPlace
<1>5. Place(s, 0) = 0 /\ PlainPlace(s, 0) = 0
  BY <1>1, RankEnds DEF Place, PlainPlace
<1>6. MergedPlace(s, 0) = 0
  BY <1>1, <1>5, RankEnds DEF MergedPlace
<1>7. CodePlace(s, 0) = 0
  BY <1>1, <1>6, RankEnds DEF CodePlace
<1> QED BY <1>2, <1>3, <1>4, <1>5, <1>6, <1>7

LEMMA OpPlaced ==
  ASSUME NEW S, NEW s \in Seq(S), NEW i \in Live(s)
  PROVE  Place(s, i) \in 1..Len(Stripped(s)) /\ Stripped(s)[Place(s, i)] = s[i]
<1>1. Len(s) \in Nat /\ Live(s) \in SUBSET (1..Len(s)) /\ Len(Stripped(s)) = Cardinality(Live(s))
  BY PlacesTyped
<1>2. Rank(Live(s), i) \in 1..Cardinality(Live(s))
  BY <1>1, RankWithin
<1>3. Stripped(s)[Rank(Live(s), i)] = s[i]
  BY StrippedAt DEF Stripped
<1> QED BY <1>1, <1>2, <1>3 DEF Place

LEMMA OpMerged ==
  ASSUME NEW S, NEW s \in Seq(S), NEW i \in Live(s), Place(s, i) \in Visited(Stripped(s))
  PROVE  /\ MergedPlace(s, i) \in 1..Len(Merging(s))
         /\ Merging(s)[MergedPlace(s, i)] = Merged(Stripped(s))[Place(s, i)]
         /\ MergedPlace(s, i) \in Proper(Merging(s)) <=> i \in Proper(s)
         /\ IsLabel(s[i]) => Merging(s)[MergedPlace(s, i)] = s[i]
<1> DEFINE t == Stripped(s)
           j == Place(s, i)
<1>1. t \in Seq(S) /\ Len(t) \in Nat /\ Visited(t) \in SUBSET (1..Len(t))
      /\ Len(Merging(s)) = Cardinality(Visited(t))
  BY PlacesTyped
<1>2. j \in Visited(t) /\ t[j] = s[i] /\ i \in DOMAIN s
  BY OpPlaced, PlacesTyped
<1> HIDE DEF t, j
<1>3. Rank(Visited(t), j) \in 1..Cardinality(Visited(t))
  BY <1>1, <1>2, RankWithin
<1>4. FuseOps(t)[Rank(Visited(t), j)] = Merged(t)[j]
  BY <1>1, <1>2, FusedAt
<1>5. (IsLabel(Merged(t)[j]) <=> IsLabel(t[j])) /\ (IsLabel(t[j]) => Merged(t)[j] = t[j])
  BY <1>1, <1>2, LabelStays
<1>6. MergedPlace(s, i) = Rank(Visited(t), j) /\ Merging(s) = FuseOps(t)
  BY DEF MergedPlace, Merging, t, j
<1>7. DOMAIN Merging(s) = 1..Len(Merging(s))
  BY PlacesTyped
<1>8. MergedPlace(s, i) \in DOMAIN Merging(s)
  BY <1>1, <1>3, <1>6, <1>7
<1>9. MergedPlace(s, i) \in Proper(Merging(s)) <=> i \in Proper(s)
  BY ONLY <1>2, <1>4, <1>5, <1>6, <1>8 DEF Proper
<1> QED BY <1>1, <1>2, <1>3, <1>4, <1>5, <1>6, <1>9 DEF t, j
\* One position on in the source: what moves in the fused code and in the plain one.
LEMMA PlacesNext ==
  ASSUME NEW S, NEW s \in Seq(S), NEW i \in 1..Len(s)
  PROVE  /\ i \notin Proper(s) =>
              CodePlace(s, i) = CodePlace(s, i - 1) /\ PlainPlace(s, i) = PlainPlace(s, i - 1)
         /\ i \in Proper(s) => PlainPlace(s, i) = PlainPlace(s, i - 1) + 1
         /\ Leads(s, i) => CodePlace(s, i) = CodePlace(s, i - 1) + 1
         /\ i \in Proper(s) /\ ~Leads(s, i) => CodePlace(s, i) = CodePlace(s, i - 1)
<1> DEFINE V == Visited(Stripped(s))
           Q == Proper(Merging(s))
           n == Len(Stripped(s))
           m == Len(Merging(s))
           r == Place(s, i)
<1>1. /\ Len(s) \in Nat /\ Live(s) \in SUBSET (1..Len(s)) /\ Proper(s) \in SUBSET Live(s)
      /\ n \in Nat /\ V \in SUBSET (1..n) /\ m \in Nat /\ Q \in SUBSET (1..m)
  BY PlacesTyped
<1>2. Proper(s) \in SUBSET (1..Len(s))
  BY <1>1
<1>3. /\ i \in Proper(s) => PlainPlace(s, i) = PlainPlace(s, i - 1) + 1
      /\ i \notin Proper(s) => PlainPlace(s, i) = PlainPlace(s, i - 1)
  BY <1>1, <1>2, RankNext DEF PlainPlace
<1>4. CASE i \notin Live(s)
  <2>1. Place(s, i) = Place(s, i - 1)
    BY <1>1, <1>4, RankNext DEF Place
  <2>2. CodePlace(s, i) = CodePlace(s, i - 1)
    BY <2>1 DEF CodePlace, MergedPlace
  <2>3. i \notin Proper(s)
    BY <1>1, <1>4
  <2> QED BY <1>3, <2>2, <2>3 DEF Leads
<1>5. CASE i \in Live(s)
  <2>1. Place(s, i - 1) = r - 1
    <3>1. Rank(Live(s), i) = Rank(Live(s), i - 1) + 1
      BY <1>1, <1>5, RankNext
    <3>2. Rank(Live(s), i - 1) \in Nat
      BY <1>1, RankNat
    <3> QED BY ONLY <3>1, <3>2 DEF Place
  <2>2. r \in 1..n
    BY <1>5, OpPlaced
  <2>3. /\ r \in V => Rank(V, r) = Rank(V, r - 1) + 1
        /\ r \notin V => Rank(V, r) = Rank(V, r - 1)
    <3> HIDE DEF V, n, r
    <3> QED BY <1>1, <2>2, RankNext
  <2>4. Rank(V, r) \in Nat /\ Rank(V, r - 1) \in Nat
    <3> HIDE DEF V, n, r
    <3> QED BY <1>1, RankNat
  <2>5. CASE r \notin V
    <3>1. CodePlace(s, i) = CodePlace(s, i - 1)
      BY ONLY <2>1, <2>3, <2>5 DEF CodePlace, MergedPlace
    <3>2. ~Leads(s, i)
      BY <2>5 DEF Leads
    <3> QED BY <1>3, <3>1, <3>2
  <2>6. CASE r \in V
    <3>1. MergedPlace(s, i) \in 1..m /\ (MergedPlace(s, i) \in Q <=> i \in Proper(s))
      BY <1>5, <2>6, OpMerged
    <3>2. MergedPlace(s, i - 1) = MergedPlace(s, i) - 1
      BY ONLY <2>1, <2>3, <2>4, <2>6 DEF MergedPlace
    <3>3. /\ MergedPlace(s, i) \in Q => Rank(Q, MergedPlace(s, i)) = Rank(Q, MergedPlace(s, i) - 1) + 1
          /\ MergedPlace(s, i) \notin Q => Rank(Q, MergedPlace(s, i)) = Rank(Q, MergedPlace(s, i) - 1)
      <4> HIDE DEF Q, m
      <4> QED BY <1>1, <3>1, RankNext
    <3>4. /\ i \in Proper(s) => CodePlace(s, i) = CodePlace(s, i - 1) + 1
          /\ i \notin Proper(s) => CodePlace(s, i) = CodePlace(s, i - 1)
      BY ONLY <3>1, <3>2, <3>3 DEF CodePlace
    <3>5. Leads(s, i) <=> i \in Proper(s)
      BY <2>6 DEF Leads
    <3> QED BY <1>3, <3>4, <3>5
  <2> QED BY <2>5, <2>6
<1> QED BY <1>4, <1>5

\* The ops that the positions of a head hold.
LEMMA OpsAt ==
  ASSUME NEW S, NEW s \in Seq(S)
  PROVE  /\ \A i \in Proper(s) :
              /\ PlainPlace(s, i) \in 1..Len(Assemble(s))
              /\ Assemble(s)[PlainPlace(s, i)] = ResolveTargets(s, s[i])
         /\ \A i \in 1..Len(s) : Leads(s, i) =>
              /\ CodePlace(s, i) \in 1..Len(Assemble(Merging(s)))
              /\ Assemble(Merging(s))[CodePlace(s, i)] =
                   ResolveTargets(Merging(s), Merged(Stripped(s))[Place(s, i)])
<1>1. Len(s) \in Nat /\ Proper(s) \in SUBSET Live(s)
  BY PlacesTyped
<1>2. ASSUME NEW i \in Proper(s)
      PROVE  /\ PlainPlace(s, i) \in 1..Len(Assemble(s))
             /\ Assemble(s)[PlainPlace(s, i)] = ResolveTargets(s, s[i])
  <2>1. Proper(s) \in SUBSET (1..Len(s)) /\ Len(Assemble(s)) = Cardinality(Proper(s))
    BY AssembledAt
  <2>2. Rank(Proper(s), i) \in 1..Cardinality(Proper(s))
    BY <1>1, <2>1, RankWithin
  <2>3. Assemble(s)[Rank(Proper(s), i)] = ResolveTargets(s, s[i])
    BY AssembledAt
  <2> QED BY <2>1, <2>2, <2>3 DEF PlainPlace
<1>3. ASSUME NEW i \in 1..Len(s), Leads(s, i)
      PROVE  /\ CodePlace(s, i) \in 1..Len(Assemble(Merging(s)))
             /\ Assemble(Merging(s))[CodePlace(s, i)] =
                  ResolveTargets(Merging(s), Merged(Stripped(s))[Place(s, i)])
  <2> DEFINE u == Merging(s)
             q == MergedPlace(s, i)
  <2>1. PICK X : u \in Seq(X)
    BY PlacesTyped
  <2>2. i \in Live(s) /\ i \in Proper(s) /\ Place(s, i) \in Visited(Stripped(s))
    BY <1>1, <1>3 DEF Leads
  <2>3. q \in Proper(u) /\ u[q] = Merged(Stripped(s))[Place(s, i)]
    BY <2>2, OpMerged
  <2> HIDE DEF u, q
  <2>4. /\ Proper(u) \in SUBSET (1..Len(u)) /\ Len(Assemble(u)) = Cardinality(Proper(u))
        /\ Assemble(u)[Rank(Proper(u), q)] = ResolveTargets(u, u[q])
    BY <2>1, <2>3, AssembledAt
  <2>5. Len(u) \in Nat
    BY <2>1
  <2>6. Rank(Proper(u), q) \in 1..Cardinality(Proper(u))
    BY <2>3, <2>4, <2>5, RankWithin
  <2> QED BY <2>3, <2>4, <2>6 DEF CodePlace, u, q
<1> QED BY <1>2, <1>3
----------------------------------------------------------------------------
(***************************************************************************)
(* From one op of the source to the next.                                  *)
(***************************************************************************)
NoneBetween(s, i, j) == \A k \in Proper(s) : ~(i < k /\ k < j)
NextOp(s, i, j) == i < j /\ j \in Proper(s) /\ NoneBetween(s, i, j)

LEMMA NextExists ==
  ASSUME NEW S, NEW s \in Seq(S), NEW i \in 0..Len(s), NEW m \in Proper(s), i < m
  PROVE  \E j \in Proper(s) : NextOp(s, i, j)
<1> DEFINE T == {k \in Proper(s) : i < k}
<1>1. Proper(s) \in SUBSET (1..Len(s)) /\ Len(s) \in Nat
  BY DEF Proper
<1>2. T \subseteq Nat /\ T # {}
  BY <1>1
<1>3. PICK j \in T : \A k \in T : j <= k
  <2> HIDE DEF T
  <2> QED BY <1>2, Least
<1>4. NoneBetween(s, i, j)
  <2> SUFFICES ASSUME NEW k \in Proper(s), i < k, k < j PROVE FALSE
    BY DEF NoneBetween
  <2>1. j <= k /\ j \in Nat /\ k \in Nat
    BY <1>1, <1>3
  <2> QED BY <2>1
<1> QED BY <1>3, <1>4 DEF NextOp

LEMMA LabelNotWide ==
  ASSUME NEW S, NEW s \in Seq(S), NEW k \in Live(s), k \notin Proper(s)
  PROVE  ~Wide(s, k)
<1>1. Stripped(s) \in Seq(S) /\ k \in DOMAIN s
  BY StrippedAt DEF Stripped, Live
<1>2. Place(s, k) \in 1..Len(Stripped(s)) /\ IsLabel(Stripped(s)[Place(s, k)])
  BY <1>1, OpPlaced DEF Proper
<1> QED BY <1>1, <1>2, LabelVisited DEF Wide

LEMMA HeadUnless ==
  ASSUME NEW S, NEW s \in Seq(S), NEW j \in Proper(s),
         \A k \in Proper(s) : Place(s, k) = Place(s, j) - 1 => ~(Leads(s, k) /\ Wide(s, k))
  PROVE  Leads(s, j)
<1> DEFINE t == Stripped(s)
           r == Place(s, j)
<1>1. /\ Len(s) \in Nat /\ Live(s) \in SUBSET (1..Len(s)) /\ j \in Live(s)
      /\ t \in Seq(S) /\ Len(t) = Cardinality(Live(s))
  BY PlacesTyped
<1>2. r \in 1..Len(t)
  BY <1>1, OpPlaced
<1>3. r \in Visited(t) <=> r = 1 \/ ~(r - 1 \in Visited(t) /\ PairAt(t, r - 1))
  <2> HIDE DEF t, r
  <2> QED BY <1>1, <1>2, VisitedFollow DEF Follow
<1>4. CASE r = 1
  BY <1>3, <1>4 DEF Leads
<1>5. CASE r # 1
  <2>1. r - 1 \in 1..Cardinality(Live(s))
    BY <1>1, <1>2, <1>5
  <2>2. PICK k \in Live(s) : Rank(Live(s), k) = r - 1
    <3> HIDE DEF r
    <3> QED BY <1>1, <2>1, RankOnto
  <2>3. Place(s, k) = r - 1
    BY <2>2 DEF Place
  <2>4. ~(r - 1 \in Visited(t) /\ PairAt(t, r - 1))
    <3>1. CASE k \in Proper(s)
      <4>1. ~(Leads(s, k) /\ Wide(s, k))
        BY <2>3, <3>1
      <4> QED BY ONLY <4>1, <3>1, <2>3 DEF Leads, Wide
    <3>2. CASE k \notin Proper(s)
      <4>1. ~Wide(s, k)
        BY <3>2, LabelNotWide
      <4> QED BY ONLY <4>1, <2>3 DEF Wide
    <3> QED BY <3>1, <3>2
  <2> QED BY <1>3, <2>4 DEF Leads
<1> QED BY <1>4, <1>5

LEMMA HeadNext ==
  ASSUME NEW S, NEW s \in Seq(S), NEW i \in 0..Len(s), i = 0 \/ i \in Live(s),
         NEW j \in Proper(s), NextOp(s, i, j), ~(Leads(s, i) /\ Wide(s, i))
  PROVE  Leads(s, j)
<1>1. /\ Len(s) \in Nat /\ Live(s) \in SUBSET (1..Len(s)) /\ Proper(s) \in SUBSET Live(s)
  BY PlacesTyped
<1>2. ASSUME NEW k \in Proper(s), Place(s, k) = Place(s, j) - 1
      PROVE  ~(Leads(s, k) /\ Wide(s, k))
  <2>1. k \in Live(s) /\ j \in Live(s) /\ k \in 1..Len(s) /\ j \in 1..Len(s)
    BY <1>1
  <2>2. Place(s, k) \in Nat /\ Place(s, j) \in Nat
    BY <1>1, RankNat DEF Place
  <2>3. ~(j < k) /\ j # k
    <3>1. j < k => Place(s, j) < Place(s, k)
      BY <1>1, <2>1, RankOrders DEF Place
    <3> QED BY ONLY <3>1, <2>2, <1>2
  <2>4. k < j
    BY ONLY <2>1, <2>3
  <2>5. ~(i < k)
    BY <2>4 DEF NextOp, NoneBetween
  <2>6. CASE k = i
    BY <2>6
  <2>7. CASE k # i
    <3>1. k < i /\ i \in Live(s) /\ i < j
      BY <2>1, <2>5, <2>7 DEF NextOp
    <3>2. k \in 0..Len(s) /\ i \in 0..Len(s)
      BY <2>1
    <3>3. Rank(Live(s), k) < Rank(Live(s), i) /\ Rank(Live(s), i) < Rank(Live(s), j)
      BY <1>1, <2>1, <3>1, <3>2, RankOrders
    <3>4. Place(s, i) \in Nat
      BY <1>1, RankNat DEF Place
    <3> QED BY ONLY <1>2, <2>2, <3>3, <3>4 DEF Place
  <2> QED BY <2>6, <2>7
<1> QED BY <1>2, HeadUnless

LEMMA WideNext ==
  ASSUME NEW S, NEW s \in Seq(S), NEW i \in Proper(s), Leads(s, i), Wide(s, i)
  PROVE  \E j \in Proper(s) :
           /\ NextOp(s, i, j) /\ Fuses(s[i], s[j]) /\ ~Leads(s, j)
           /\ Merged(Stripped(s))[Place(s, i)] = Fused(s[i], s[j])
<1> DEFINE t == Stripped(s)
           r == Place(s, i)
<1>1. /\ Len(s) \in Nat /\ Live(s) \in SUBSET (1..Len(s)) /\ Proper(s) \in SUBSET Live(s)
      /\ t \in Seq(S) /\ Len(t) = Cardinality(Live(s)) /\ DOMAIN t = 1..Len(t)
  BY PlacesTyped
<1>2. r \in 1..Len(t) /\ t[r] = s[i] /\ i \in Live(s)
  BY <1>1, OpPlaced
<1>3. r < Len(t) /\ Fuses(t[r], t[r + 1])
  BY DEF Wide, PairAt
<1>4. r + 1 \in 1..Cardinality(Live(s))
  BY <1>1, <1>2, <1>3
<1>5. PICK j \in Live(s) : Rank(Live(s), j) = r + 1
  <2> HIDE DEF r
  <2> QED BY <1>1, <1>4, RankOnto
<1>6. Place(s, j) = r + 1 /\ t[r + 1] = s[j]
  <2>1. Place(s, j) = r + 1
    BY <1>5 DEF Place
  <2> QED BY <2>1, OpPlaced
<1>7. Fuses(s[i], s[j])
  BY <1>2, <1>3, <1>6
<1>8. j \in Proper(s)
  BY <1>1, <1>7, FusesNoLabel DEF Proper
<1>9. NextOp(s, i, j)
  <2>1. i \in 0..Len(s) /\ j \in 0..Len(s)
    BY <1>1, <1>2
  <2>2. r \in Nat /\ Rank(Live(s), i) = r
    BY <1>2 DEF Place
  <2>3. i # j /\ ~(j < i)
    <3>1. j < i => Rank(Live(s), j) < Rank(Live(s), i)
      BY <1>1, <1>2, <2>1, RankOrders
    <3> HIDE DEF r
    <3> QED BY ONLY <3>1, <2>2, <1>5
  <2>4. i < j
    BY ONLY <2>1, <2>3
  <2>5. ASSUME NEW k \in Proper(s), i < k, k < j PROVE FALSE
    <3>1. k \in Live(s) /\ k \in 0..Len(s)
      BY <1>1
    <3>2. Rank(Live(s), i) < Rank(Live(s), k) /\ Rank(Live(s), k) < Rank(Live(s), j)
      BY <1>1, <2>1, <2>5, <3>1, RankOrders
    <3>3. Rank(Live(s), k) \in Nat
      BY <1>1, RankNat
    <3> HIDE DEF r
    <3> QED BY ONLY <3>2, <3>3, <2>2, <1>5
  <2> QED BY <1>8, <2>4, <2>5 DEF NextOp, NoneBetween
<1>10. ~Leads(s, j)
  <2>1. r \in Visited(t) /\ PairAt(t, r)
    BY Leads(s, i), Wide(s, i) DEF Leads, Wide
  <2>2. r + 1 \in 1..Len(t) /\ r + 1 # 1 /\ (r + 1) - 1 = r
    <3>1. Len(t) \in Nat
      BY <1>1
    <3> HIDE DEF t, r
    <3> QED BY ONLY <1>2, <1>3, <3>1
  <2>3. r + 1 \in Visited(t) <=> r + 1 = 1 \/ ~((r + 1) - 1 \in Visited(t) /\ PairAt(t, (r + 1) - 1))
    <3> HIDE DEF t, r
    <3> QED BY <1>1, <2>2, VisitedFollow DEF Follow
  <2>4. r + 1 \notin Visited(t)
    <3> HIDE DEF t, r
    <3> QED BY ONLY <2>1, <2>2, <2>3
  <2> QED BY <1>6, <2>4 DEF Leads
<1>11. Merged(t)[r] = Fused(s[i], s[j])
  BY <1>1, <1>2, <1>6 DEF Merged, Wide
<1> QED BY <1>7, <1>8, <1>9, <1>10, <1>11

LEMMA PlacesBetween ==
  ASSUME NEW S, NEW s \in Seq(S), NEW i \in 0..Len(s), NEW j \in 1..Len(s), i < j,
         NoneBetween(s, i, j)
  PROVE  CodePlace(s, j - 1) = CodePlace(s, i) /\ PlainPlace(s, j - 1) = PlainPlace(s, i)
<1> DEFINE n == j - 1 - i
           T == {d \in 0..n : /\ CodePlace(s, i + d) = CodePlace(s, i)
                              /\ PlainPlace(s, i + d) = PlainPlace(s, i)}
<1>0. n \in Nat /\ n \in 0..n /\ i + n = j - 1 /\ 0 \in 0..n
  OBVIOUS
<1>1. 0 \in T
  <2>1. i + 0 = i
    OBVIOUS
  <2> QED BY <1>0, <2>1
<1>2. ASSUME NEW d \in 0..(n - 1), d \in T PROVE d + 1 \in T
  <2>1. i + (d + 1) \in 1..Len(s) /\ (i + (d + 1)) - 1 = i + d /\ i < i + (d + 1) /\ i + (d + 1) < j
    OBVIOUS
  <2>2. i + (d + 1) \notin Proper(s)
    BY <2>1 DEF NoneBetween
  <2>3. CodePlace(s, i + (d + 1)) = CodePlace(s, i + d) /\ PlainPlace(s, i + (d + 1)) = PlainPlace(s, i + d)
    BY <2>1, <2>2, PlacesNext
  <2>4. d + 1 \in 0..n
    OBVIOUS
  <2> QED BY <1>2, <2>3, <2>4
<1> HIDE DEF T, n
<1>3. n \in T
  BY <1>0, <1>1, <1>2, UpTo
<1> QED BY <1>0, <1>3 DEF T

----------------------------------------------------------------------------
(***************************************************************************)
(* Where the labels are.                                                   *)
(***************************************************************************)
LEMMA LabelPlaced ==
  ASSUME NEW S, NEW s \in Seq(S), NEW p \in Live(s), IsLabel(s[p]),
         \A i \in 1..Len(s) : IsLabel(s[i]) /\ s[i].label = s[p].label => i = p
  PROVE  /\ Position(s, s[p].label) = PlainPlace(s, p)
         /\ Position(Merging(s), s[p].label) = CodePlace(s, p)
<1> DEFINE l == s[p].label
           t == Stripped(s)
           u == Merging(s)
           q == MergedPlace(s, p)
<1>1. /\ Len(s) \in Nat /\ Live(s) \in SUBSET (1..Len(s)) /\ DOMAIN s = 1..Len(s)
      /\ t \in Seq(S) /\ Len(t) = Cardinality(Live(s)) /\ DOMAIN t = 1..Len(t)
      /\ Visited(t) \in SUBSET (1..Len(t)) /\ DOMAIN u = 1..Len(u) /\ Len(t) \in Nat
      /\ Len(u) = Cardinality(Visited(t)) /\ Len(u) \in Nat
  BY PlacesTyped
<1>2. p \in 1..Len(s) /\ p \notin Proper(s)
  BY <1>1 DEF Proper
<1>3. Position(s, l) = PlainPlace(s, p)
  <2>1. LabelAt(s, l) = {p}
    BY <1>1, <1>2 DEF LabelAt
  <2>2. \A j \in Proper(s) : (\E i \in LabelAt(s, l) : j < i) <=> j <= p
    <3>1. ASSUME NEW j \in Proper(s) PROVE j < p <=> j <= p
      <4>1. j \in Nat /\ p \in Nat /\ j # p
        BY <1>1, <1>2 DEF Proper
      <4> QED BY ONLY <4>1
    <3> QED BY ONLY <2>1, <3>1
  <2>3. {j \in Proper(s) : \E i \in LabelAt(s, l) : j < i} = {j \in Proper(s) : j <= p}
    BY ONLY <2>2
  <2> QED BY <2>3 DEF Position, PlainPlace, Rank
<1>4. Place(s, p) \in 1..Len(t) /\ t[Place(s, p)] = s[p]
  BY OpPlaced
<1>5. Place(s, p) \in Visited(t)
  BY <1>1, <1>4, LabelVisited
<1>6. q \in 1..Len(u) /\ u[q] = s[p] /\ q \notin Proper(u)
  BY <1>2, <1>5, OpMerged
<1>7. ASSUME NEW k \in 1..Len(u), IsLabel(u[k]), u[k].label = l
      PROVE  k = q
  <2>1. PICK j \in Visited(t) : Rank(Visited(t), j) = k
    <3> HIDE DEF t, u
    <3> QED BY <1>1, RankOnto
  <2>2. u[k] = Merged(t)[j]
    <3>1. u = FuseOps(t)
      BY DEF Merging
    <3> HIDE DEF t, u
    <3> QED BY <1>1, <2>1, <3>1, FusedAt
  <2>3. IsLabel(t[j]) /\ t[j] = u[k]
    <3> HIDE DEF t, u
    <3> QED BY <1>1, <1>7, <2>2, LabelStays
  <2>4. j \in 1..Cardinality(Live(s))
    BY <1>1
  <2>5. PICK i \in Live(s) : Rank(Live(s), i) = j
    BY <1>1, <2>4, RankOnto
  <2>6. Place(s, i) = j
    BY <2>5 DEF Place
  <2>7. t[j] = s[i]
    BY <2>6, OpPlaced
  <2>8. i = p
    BY <1>1, <1>7, <2>3, <2>7
  <2> QED BY <2>1, <2>6, <2>8 DEF MergedPlace
<1>8. Position(u, l) = CodePlace(s, p)
  <2> HIDE DEF u, q, l
  <2>1. LabelAt(u, l) = {q}
    <3>1. IsLabel(u[q]) /\ u[q].label = l
      BY <1>6 DEF l
    <3> QED BY <1>1, <1>6, <1>7, <3>1 DEF LabelAt
  <2>2. \A j \in Proper(u) : (\E i \in LabelAt(u, l) : j < i) <=> j <= q
    <3>1. ASSUME NEW j \in Proper(u) PROVE j < q <=> j <= q
      <4>1. j \in Nat /\ q \in Nat /\ j # q
        BY <1>1, <1>6 DEF Proper
      <4> QED BY ONLY <4>1
    <3> QED BY ONLY <2>1, <3>1
  <2>3. {j \in Proper(u) : \E i \in LabelAt(u, l) : j < i} = {j \in Proper(u) : j <= q}
    BY ONLY <2>2
  <2>4. Position(u, l) = Rank(Proper(u), q)
    BY <2>3 DEF Position, Rank
  <2> QED BY <2>4 DEF CodePlace, u, q
<1> QED BY <1>3, <1>8
----------------------------------------------------------------------------
(***************************************************************************)
(* The ops of a body, and the ones made of them.                           *)
(***************************************************************************)
Entry == [target : Labels, keep : Nat, drop : Nat]

Op ==
  [k : {"Label"}, label : Labels]
    \cup [k : {"LocalGet", "LocalSet"}, local : DOMAIN uses.locals]
    \cup [k : {"Compare"}, cmp : Comparisons] \cup [k : {"EqZero"}, type : {"I32", "I64"}]
    \cup [k : {"Load", "Store", "Return"}]
    \cup [k : Jumps, target : Labels, keep : Nat, drop : Nat]
    \cup [k : {"JumpTable"}, entries : Seq(Entry)]

Resolved(u, op) ==
  [k |-> op.k, target |-> Position(u, op.target), keep |-> op.keep, drop |-> op.drop]

LEMMA ResolvedJump ==
  ASSUME NEW u, NEW op \in Op, op.k \in Jumps
  PROVE  ResolveTargets(u, op) = Resolved(u, op)
<1>1. op \in [k : Jumps, target : Labels, keep : Nat, drop : Nat]
  BY DEF Op, Jumps
<1>2. op = [k |-> op.k, target |-> op.target, keep |-> op.keep, drop |-> op.drop]
  BY <1>1
<1>3. ResolveTargets(u, op) = [op EXCEPT !.target = Position(u, op.target)]
  BY DEF ResolveTargets, HasTarget
<1> QED BY <1>1, <1>2, <1>3 DEF Resolved

LEMMA ResolvedTable ==
  ASSUME NEW u, NEW op \in Op, op.k = "JumpTable"
  PROVE  /\ ResolveTargets(u, op).k = "JumpTable"
         /\ op.entries \in Seq(Entry)
         /\ DOMAIN ResolveTargets(u, op).entries = DOMAIN op.entries
         /\ \A e \in DOMAIN op.entries : ResolveTargets(u, op).entries[e] =
              [target |-> Position(u, op.entries[e].target),
               keep |-> op.entries[e].keep, drop |-> op.entries[e].drop]
<1>1. op \in [k : {"JumpTable"}, entries : Seq(Entry)]
  BY DEF Op, Jumps
<1>2. ResolveTargets(u, op) =
        [op EXCEPT !.entries =
           [e \in DOMAIN op.entries |->
              [op.entries[e] EXCEPT !.target = Position(u, op.entries[e].target)]]]
  BY DEF ResolveTargets, HasTarget, Jumps
<1>3. /\ ResolveTargets(u, op).k = "JumpTable"
      /\ ResolveTargets(u, op).entries =
           [e \in DOMAIN op.entries |->
              [op.entries[e] EXCEPT !.target = Position(u, op.entries[e].target)]]
  BY <1>1, <1>2
<1>4. ASSUME NEW e \in DOMAIN op.entries
      PROVE  [op.entries[e] EXCEPT !.target = Position(u, op.entries[e].target)] =
               [target |-> Position(u, op.entries[e].target),
                keep |-> op.entries[e].keep, drop |-> op.entries[e].drop]
  <2>1. op.entries[e] \in Entry
    BY <1>1
  <2> QED BY <2>1 DEF Entry
<1> QED BY <1>1, <1>3, <1>4

LEMMA ResolvedOther ==
  ASSUME NEW u, NEW op, op.k \notin Jumps, op.k # "JumpTable",
         op.k \notin {"CompareJumpIf", "EqZeroJumpIf", "EqZeroJumpIfNot"}
  PROVE  ResolveTargets(u, op) = op
  BY DEF ResolveTargets, HasTarget

LEMMA ResolvedBranch ==
  ASSUME NEW u, NEW p \in Op, NEW q \in Op, Fuses(p, q), ~FusesLocal(p, q)
  PROVE  /\ q.k \in Jumps
         /\ p.k = "Compare" => ResolveTargets(u, Fused(p, q)) =
              [k |-> "CompareJumpIf", cmp |-> p.cmp, target |-> Position(u, q.target),
               keep |-> q.keep, drop |-> q.drop]
         /\ p.k # "Compare" => ResolveTargets(u, Fused(p, q)) =
              [k |-> IF q.k = "JumpIf" THEN "EqZeroJumpIf" ELSE "EqZeroJumpIfNot",
               target |-> Position(u, q.target), keep |-> q.keep, drop |-> q.drop]
<1>1. q.k \in Jumps
  BY DEF Fuses, FusesEqZero, FusesCompare, Jumps
<1>2. Fused(p, q) = FusedBranch(p, q)
  BY DEF Fused
<1>3. CASE p.k = "Compare"
  BY <1>1, <1>2, <1>3 DEF FusedBranch, ResolveTargets, HasTarget
<1>4. CASE p.k # "Compare"
  BY <1>1, <1>2, <1>4 DEF FusedBranch, ResolveTargets, HasTarget
<1> QED BY <1>1, <1>3, <1>4

LEMMA ResolvedLocal ==
  ASSUME NEW u, NEW p \in Op, NEW q \in Op, FusesLocal(p, q)
  PROVE  Fused(p, q).k \in LocalFused /\ ResolveTargets(u, Fused(p, q)) = Fused(p, q)
<1>1. Fused(p, q).k \in LocalFused
  BY DEF Fused, FusedLocal, FusesLocal, Accesses, LocalFused
<1>2. /\ Fused(p, q).k \notin Jumps /\ Fused(p, q).k # "JumpTable"
      /\ Fused(p, q).k \notin {"CompareJumpIf", "EqZeroJumpIf", "EqZeroJumpIfNot"}
  BY <1>1 DEF LocalFused, Jumps
<1> QED BY <1>1, <1>2, ResolvedOther

\* A merged op counts for two, another for one.
LEMMA Widths ==
  ASSUME NEW u
  PROVE  /\ \A op \in Op : Width(ResolveTargets(u, op)) = 1
         /\ \A p, q \in Op : Fuses(p, q) => Width(ResolveTargets(u, Fused(p, q))) = 2
<1>1. ASSUME NEW op \in Op PROVE Width(ResolveTargets(u, op)) = 1
  <2>1. ResolveTargets(u, op).k = op.k
    <3>1. CASE op.k \in Jumps
      BY <3>1, ResolvedJump DEF Resolved
    <3>2. CASE op.k = "JumpTable"
      BY <3>2, ResolvedTable
    <3>3. CASE op.k \notin Jumps /\ op.k # "JumpTable"
      <4>1. op.k \notin {"CompareJumpIf", "EqZeroJumpIf", "EqZeroJumpIfNot"}
        BY DEF Op, Jumps
      <4> QED BY <3>3, <4>1, ResolvedOther
    <3> QED BY <3>1, <3>2, <3>3
  <2>2. op.k \notin LocalFused \cup BranchFused
    BY DEF Op, Jumps, LocalFused, BranchFused
  <2> QED BY <2>1, <2>2 DEF Width
<1>2. ASSUME NEW p \in Op, NEW q \in Op, Fuses(p, q)
      PROVE  Width(ResolveTargets(u, Fused(p, q))) = 2
  <2>1. CASE FusesLocal(p, q)
    BY <2>1, ResolvedLocal DEF Width
  <2>2. CASE ~FusesLocal(p, q)
    BY <1>2, <2>2, ResolvedBranch DEF Width, BranchFused
  <2> QED BY <2>1, <2>2
<1> QED BY <1>1, <1>2
----------------------------------------------------------------------------
(***************************************************************************)
(* Start counts the plain ops before an op of the fused code.              *)
(***************************************************************************)
\* Position i is behind the first half of a merged pair.
Amid(s, i) == Place(s, i) \in Visited(Stripped(s)) /\ Wide(s, i)

LEMMA AmidNext ==
  ASSUME NEW S, NEW s \in Seq(S), NEW i \in 1..Len(s)
  PROVE  /\ i \notin Live(s) => (Amid(s, i) <=> Amid(s, i - 1))
         /\ i \in Live(s) /\ i \notin Proper(s) => ~Amid(s, i) /\ ~Amid(s, i - 1)
         /\ Leads(s, i) => ~Amid(s, i - 1) /\ (Amid(s, i) <=> Wide(s, i))
         /\ i \in Proper(s) /\ ~Leads(s, i) => Amid(s, i - 1) /\ ~Amid(s, i)
<1> DEFINE t == Stripped(s)
           r == Place(s, i)
<1>1. /\ Len(s) \in Nat /\ Live(s) \in SUBSET (1..Len(s)) /\ Proper(s) \in SUBSET Live(s)
      /\ t \in Seq(S) /\ Visited(t) \in SUBSET (1..Len(t)) /\ DOMAIN s = 1..Len(s)
  BY PlacesTyped
<1>2. CASE i \notin Live(s)
  <2>1. Place(s, i) = Place(s, i - 1)
    BY <1>1, <1>2, RankNext DEF Place
  <2>2. i \notin Proper(s)
    BY <1>1, <1>2
  <2> QED BY ONLY <1>2, <2>1, <2>2 DEF Amid, Wide, Leads
<1>3. CASE i \in Live(s)
  <2>1. Place(s, i - 1) = r - 1
    <3>1. Rank(Live(s), i) = Rank(Live(s), i - 1) + 1
      BY <1>1, <1>3, RankNext
    <3>2. Rank(Live(s), i - 1) \in Nat
      BY <1>1, RankNat
    <3> QED BY ONLY <3>1, <3>2 DEF Place
  <2>2. r \in 1..Len(t) /\ t[r] = s[i]
    BY <1>3, OpPlaced
  <2>3. r \in Visited(t) <=> r = 1 \/ ~(r - 1 \in Visited(t) /\ PairAt(t, r - 1))
    <3> HIDE DEF t, r
    <3> QED BY <1>1, <2>2, VisitedFollow DEF Follow
  <2>4. 0 \notin Visited(t)
    BY <1>1
  <2>5. Amid(s, i - 1) <=> r - 1 \in Visited(t) /\ PairAt(t, r - 1)
    BY ONLY <2>1 DEF Amid, Wide
  <2>6. r = 1 => ~Amid(s, i - 1)
    <3> HIDE DEF t, r
    <3> QED BY ONLY <2>4, <2>5
  <2>7. r \in Visited(t) <=> ~Amid(s, i - 1)
    <3> HIDE DEF t, r
    <3> QED BY ONLY <2>3, <2>5, <2>6
  <2>8. Amid(s, i) <=> r \in Visited(t) /\ Wide(s, i)
    BY DEF Amid
  <2>9. Leads(s, i) <=> i \in Proper(s) /\ r \in Visited(t)
    BY DEF Leads
  <2>10. i \notin Proper(s) => ~Wide(s, i) /\ r \in Visited(t)
    <3>1. ASSUME i \notin Proper(s) PROVE ~Wide(s, i)
      BY <1>3, <3>1, LabelNotWide
    <3>2. ASSUME i \notin Proper(s) PROVE r \in Visited(t)
      <4>1. IsLabel(t[r])
        BY <1>1, <2>2, <3>2 DEF Proper
      <4> HIDE DEF t, r
      <4> QED BY <1>1, <2>2, <4>1, LabelVisited
    <3> QED BY <3>1, <3>2
  <2> HIDE DEF t, r
  <2> QED BY ONLY <1>3, <2>7, <2>8, <2>9, <2>10
<1> QED BY <1>2, <1>3

LEMMA WidthAt ==
  ASSUME source \in Seq(Op), code = Assemble(Merging(source)),
         NEW i \in Proper(source), Leads(source, i)
  PROVE  /\ CodePlace(source, i) \in 1..Len(code)
         /\ code[CodePlace(source, i)] =
              ResolveTargets(Merging(source), Merged(Stripped(source))[Place(source, i)])
         /\ Wide(source, i) => Width(code[CodePlace(source, i)]) = 2
         /\ ~Wide(source, i) =>
              /\ code[CodePlace(source, i)] = ResolveTargets(Merging(source), source[i])
              /\ Width(code[CodePlace(source, i)]) = 1
<1> DEFINE r == Place(source, i)
           M == Merged(Stripped(source))
<1>1. i \in 1..Len(source) /\ source[i] \in Op /\ i \in Live(source)
  BY DEF Proper, Live
<1>2. /\ CodePlace(source, i) \in 1..Len(code)
      /\ code[CodePlace(source, i)] = ResolveTargets(Merging(source), M[r])
  BY <1>1, OpsAt
<1>3. r \in DOMAIN Stripped(source) /\ Stripped(source)[r] = source[i]
  BY <1>1, OpPlaced, PlacesTyped
<1>4. ASSUME Wide(source, i) PROVE Width(code[CodePlace(source, i)]) = 2
  <2>1. PICK j \in Proper(source) : Fuses(source[i], source[j]) /\ M[r] = Fused(source[i], source[j])
    BY <1>4, WideNext
  <2>2. source[j] \in Op
    BY DEF Proper
  <2> QED BY <1>1, <1>2, <2>1, <2>2, Widths
<1>5. ASSUME ~Wide(source, i)
      PROVE  /\ code[CodePlace(source, i)] = ResolveTargets(Merging(source), source[i])
             /\ Width(code[CodePlace(source, i)]) = 1
  <2>1. M[r] = source[i]
    BY <1>3, <1>5 DEF Merged, Wide
  <2> QED BY <1>1, <1>2, <2>1, Widths
<1> QED BY <1>2, <1>4, <1>5

LEMMA StartAt ==
  ASSUME source \in Seq(Op), code = Assemble(Merging(source)),
         NEW i \in Proper(source), Leads(source, i)
  PROVE  Start(CodePlace(source, i - 1)) = PlainPlace(source, i - 1)
<1> DEFINE s == source
           W == {n \in 1..Len(code) : Width(code[n]) = 2}
           C(j) == CodePlace(s, j)
           B(j) == PlainPlace(s, j)
           T == {j \in 0..Len(s) : C(j) + Rank(W, C(j)) = B(j) + IF Amid(s, j) THEN 1 ELSE 0}
<1>1. s \in Seq(Op) /\ Len(s) \in Nat /\ Proper(s) \in SUBSET (1..Len(s))
  BY DEF Proper
<1>2. Len(code) \in Nat
  <2>1. PICK X : Merging(s) \in Seq(X)
    BY <1>1, PlacesTyped
  <2>2. Assemble(Merging(s)) \in Seq({ResolveTargets(Merging(s), Merging(s)[n]) : n \in 1..Len(Merging(s))})
    BY ONLY <2>1, AssembledAt
  <2> QED BY <2>2
<1>3. W \in SUBSET (1..Len(code))
  OBVIOUS
<1>4. \A j \in 0..Len(s) : C(j) \in Nat /\ B(j) \in Nat
  BY <1>1, PlaceTyped
<1>5. C(0) = 0 /\ B(0) = 0 /\ ~Amid(s, 0)
  <2>1. 0 \in 0..Len(s)
    BY <1>1
  <2>2. C(0) = 0 /\ B(0) = 0 /\ Place(s, 0) = 0
    BY <1>1, <2>1, PlaceTyped
  <2>3. 0 \notin Visited(Stripped(s))
    BY <1>1, PlacesTyped
  <2> QED BY <2>2, <2>3 DEF Amid
<1>6. 0 \in T
  <2>1. Rank(W, 0) = 0
    <3> HIDE DEF W
    <3> QED BY <1>2, <1>3, RankEnds
  <2> HIDE DEF W
  <2> QED BY <1>1, <1>5, <2>1
<1>7. ASSUME NEW j \in 1..Len(s), j - 1 \in T PROVE j \in T
  <2>1. /\ C(j) \in Nat /\ B(j) \in Nat /\ C(j - 1) \in Nat /\ B(j - 1) \in Nat
        /\ Rank(W, C(j)) \in Nat /\ Rank(W, C(j - 1)) \in Nat
    <3>1. j \in 0..Len(s) /\ j - 1 \in 0..Len(s)
      BY <1>1
    <3> HIDE DEF W
    <3> QED BY <1>2, <1>3, <1>4, <3>1, RankNat
  <2>2. C(j - 1) + Rank(W, C(j - 1)) = B(j - 1) + IF Amid(s, j - 1) THEN 1 ELSE 0
    BY <1>7
  <2>3. /\ j \notin Proper(s) => C(j) = C(j - 1) /\ B(j) = B(j - 1)
        /\ j \in Proper(s) => B(j) = B(j - 1) + 1
        /\ Leads(s, j) => C(j) = C(j - 1) + 1
        /\ j \in Proper(s) /\ ~Leads(s, j) => C(j) = C(j - 1)
    BY <1>1, PlacesNext
  <2>4. /\ j \notin Live(s) => (Amid(s, j) <=> Amid(s, j - 1))
        /\ j \in Live(s) /\ j \notin Proper(s) => ~Amid(s, j) /\ ~Amid(s, j - 1)
        /\ Leads(s, j) => ~Amid(s, j - 1) /\ (Amid(s, j) <=> Wide(s, j))
        /\ j \in Proper(s) /\ ~Leads(s, j) => Amid(s, j - 1) /\ ~Amid(s, j)
    BY <1>1, AmidNext
  <2>5. C(j) + Rank(W, C(j)) = B(j) + IF Amid(s, j) THEN 1 ELSE 0
    <3>1. CASE j \notin Proper(s)
      <4>1. Amid(s, j) <=> Amid(s, j - 1)
        BY <2>4, <3>1
      <4> HIDE DEF W, C, B
      <4> QED BY ONLY <2>2, <2>3, <3>1, <4>1
    <3>2. CASE Leads(s, j)
      <4>1. C(j) = C(j - 1) + 1 /\ B(j) = B(j - 1) + 1 /\ ~Amid(s, j - 1) /\ (Amid(s, j) <=> Wide(s, j))
        BY <2>3, <2>4, <3>2 DEF Leads
      <4>2. /\ C(j) \in 1..Len(code)
            /\ Wide(s, j) => Width(code[C(j)]) = 2
            /\ ~Wide(s, j) => Width(code[C(j)]) = 1
        <5>1. j \in Proper(source)
          BY <3>2 DEF Leads
        <5> QED BY <3>2, <5>1, WidthAt
      <4>3. C(j) \in W <=> Wide(s, j)
        BY <4>2
      <4>4. /\ C(j) \in W => Rank(W, C(j)) = Rank(W, C(j) - 1) + 1
            /\ C(j) \notin W => Rank(W, C(j)) = Rank(W, C(j) - 1)
        <5> HIDE DEF W, C
        <5> QED BY <1>2, <1>3, <4>2, RankNext
      <4>5. C(j) - 1 = C(j - 1)
        <5> HIDE DEF C
        <5> QED BY ONLY <2>1, <4>1
      <4>6. /\ Wide(s, j) => Rank(W, C(j)) = Rank(W, C(j - 1)) + 1
            /\ ~Wide(s, j) => Rank(W, C(j)) = Rank(W, C(j - 1))
        <5> HIDE DEF W, C
        <5> QED BY ONLY <4>3, <4>4, <4>5
      <4>7. C(j - 1) + Rank(W, C(j - 1)) = B(j - 1)
        <5> HIDE DEF W, C, B
        <5> QED BY ONLY <2>1, <2>2, <4>1
      <4> HIDE DEF W, C, B
      <4>8. CASE Wide(s, j)
        <5>1. Amid(s, j)
          BY <4>1, <4>8
        <5> QED BY ONLY <2>1, <4>1, <4>6, <4>7, <4>8, <5>1
      <4>9. CASE ~Wide(s, j)
        <5>1. ~Amid(s, j)
          BY <4>1, <4>9
        <5> QED BY ONLY <2>1, <4>1, <4>6, <4>7, <4>9, <5>1
      <4> QED BY <4>8, <4>9
    <3>3. CASE j \in Proper(s) /\ ~Leads(s, j)
      <4>1. C(j) = C(j - 1) /\ B(j) = B(j - 1) + 1 /\ Amid(s, j - 1) /\ ~Amid(s, j)
        BY <2>3, <2>4, <3>3
      <4> HIDE DEF W, C, B
      <4> QED BY ONLY <2>1, <2>2, <4>1
    <3> QED BY <3>1, <3>2, <3>3
  <2> QED BY <2>5
<1>8. \A j \in 0..(Len(s) - 1) : j \in T => j + 1 \in T
  <2> SUFFICES ASSUME NEW j \in 0..(Len(s) - 1), j \in T PROVE j + 1 \in T
    OBVIOUS
  <2>1. j + 1 \in 1..Len(s) /\ (j + 1) - 1 = j
    BY <1>1
  <2> HIDE DEF T
  <2> QED BY <1>7, <2>1
<1>9. i - 1 \in T
  <2>1. i - 1 \in 0..Len(s)
    BY <1>1
  <2> HIDE DEF T
  <2> QED BY <1>1, <1>6, <1>8, <2>1, UpTo
<1>10. C(i - 1) + Rank(W, C(i - 1)) = B(i - 1)
  <2>1. ~Amid(s, i - 1)
    BY <1>1, AmidNext
  <2>2. C(i - 1) + Rank(W, C(i - 1)) = B(i - 1) + IF Amid(s, i - 1) THEN 1 ELSE 0
    BY <1>9
  <2>3. B(i - 1) \in Nat
    BY <1>1, <1>4
  <2> HIDE DEF W, C, B
  <2> QED BY ONLY <2>1, <2>2, <2>3
<1>11. C(i - 1) \in Nat /\ C(i - 1) <= Len(code)
  <2>1. C(i) = C(i - 1) + 1 /\ C(i) \in 1..Len(code)
    BY <1>1, PlacesNext, WidthAt
  <2>2. C(i - 1) \in Nat
    BY <1>1, <1>4
  <2> HIDE DEF C
  <2> QED BY ONLY <1>2, <2>1, <2>2
<1>12. {n \in 1..C(i - 1) : Width(code[n]) = 2} = {n \in W : n <= C(i - 1)}
  <2> HIDE DEF C
  <2>1. \A n : n \in 1..C(i - 1) <=> n \in 1..Len(code) /\ n <= C(i - 1)
    BY <1>2, <1>11
  <2> QED BY ONLY <2>1
<1> QED BY <1>10, <1>12 DEF Start, Rank
----------------------------------------------------------------------------
(***************************************************************************)
(* One machine: what its primitives do with operands that are there.       *)
(***************************************************************************)
Machine ==
  [status : {"running", "returned", "trapped"}, pc : Nat, stack : Seq(Nat),
   locals : [DOMAIN uses.locals -> Nat], cell : Nat]

Advanced(m) == [m EXCEPT !.pc = @ + 1]

\* Two machines that differ in their pc only.
Twins(m, w) ==
  /\ m \in Machine /\ w \in Machine
  /\ m.status = w.status /\ m.stack = w.stack /\ m.locals = w.locals /\ m.cell = w.cell

LEMMA AdvancedIs ==
  ASSUME NEW m \in Machine
  PROVE  Advanced(m) = [status |-> m.status, pc |-> m.pc + 1, stack |-> m.stack,
                        locals |-> m.locals, cell |-> m.cell]
         /\ Advanced(m) \in Machine
  BY DEF Advanced, Machine

\* m with other operands.
Holding(m, stack) ==
  [status |-> m.status, pc |-> m.pc, stack |-> stack, locals |-> m.locals, cell |-> m.cell]

LEMMA HoldingIs ==
  ASSUME NEW m \in Machine, NEW stack \in Seq(Nat)
  PROVE  [m EXCEPT !.stack = stack] = Holding(m, stack) /\ Holding(m, stack) \in Machine
<1>1. [m EXCEPT !.stack = stack] = Holding(m, stack)
  BY DEF Machine, Holding
<1>2. Holding(m, stack) \in Machine
  BY DEF Machine, Holding
<1> QED BY <1>1, <1>2

LEMMA StackTyped ==
  ASSUME NEW m \in Machine
  PROVE  m.stack \in Seq(Nat) /\ Len(m.stack) \in Nat
  BY DEF Machine

LEMMA PushIs ==
  ASSUME NEW m \in Machine, NEW v \in Nat
  PROVE  /\ Push(m, v) = Holding(m, Append(m.stack, v))
         /\ Push(m, v) \in Machine /\ Len(Append(m.stack, v)) = Len(m.stack) + 1
         /\ Append(m.stack, v)[Len(m.stack) + 1] = v
<1>1. m.stack \in Seq(Nat)
  BY StackTyped
<1>2. /\ Append(m.stack, v) \in Seq(Nat) /\ Len(Append(m.stack, v)) = Len(m.stack) + 1
      /\ Append(m.stack, v)[Len(m.stack) + 1] = v
  BY <1>1, AppendProperties
<1>3. Push(m, v) = [m EXCEPT !.stack = Append(m.stack, v)]
  BY DEF Push
<1>4. [m EXCEPT !.stack = Append(m.stack, v)] = Holding(m, Append(m.stack, v))
      /\ Holding(m, Append(m.stack, v)) \in Machine
  BY <1>2, HoldingIs
<1> QED BY <1>2, <1>3, <1>4

LEMMA PopsIs ==
  ASSUME NEW m \in Machine, NEW n \in Nat, n <= Len(m.stack)
  PROVE  /\ Pops(m, n) = Holding(m, SubSeq(m.stack, 1, Len(m.stack) - n))
         /\ Pops(m, n) \in Machine
         /\ Len(SubSeq(m.stack, 1, Len(m.stack) - n)) = Len(m.stack) - n
<1>1. m.stack \in Seq(Nat) /\ Len(m.stack) \in Nat
  BY StackTyped
<1>2. /\ SubSeq(m.stack, 1, Len(m.stack) - n) \in Seq(Nat)
      /\ Len(SubSeq(m.stack, 1, Len(m.stack) - n)) = Len(m.stack) - n
  BY <1>1
<1>3. Pops(m, n) = [m EXCEPT !.stack = SubSeq(m.stack, 1, Len(m.stack) - n)]
  BY DEF Pops
<1>4. /\ [m EXCEPT !.stack = SubSeq(m.stack, 1, Len(m.stack) - n)]
             = Holding(m, SubSeq(m.stack, 1, Len(m.stack) - n))
      /\ Holding(m, SubSeq(m.stack, 1, Len(m.stack) - n)) \in Machine
  BY <1>2, HoldingIs
<1> QED BY <1>2, <1>3, <1>4

LEMMA PeekIs ==
  ASSUME NEW m \in Machine, NEW n \in Nat, n < Len(m.stack)
  PROVE  Peek(m, n) = m.stack[Len(m.stack) - n] /\ Peek(m, n) \in Nat
<1>1. m.stack \in Seq(Nat) /\ Len(m.stack) \in Nat
  BY StackTyped
<1>2. Len(m.stack) - n \in 1..Len(m.stack)
  BY <1>1
<1>3. m.stack[Len(m.stack) - n] \in Nat
  BY ONLY <1>1, <1>2
<1> QED BY <1>3 DEF Peek

LEMMA JumpIs ==
  ASSUME NEW m \in Machine, NEW t, t.target \in Nat, t.keep \in Nat, t.drop \in Nat,
         Len(m.stack) = t.keep + t.drop
  PROVE  /\ JumpTo(m, t) = [status |-> m.status, pc |-> t.target,
                            stack |-> KeepTop(m.stack, t.keep, t.drop),
                            locals |-> m.locals, cell |-> m.cell]
         /\ JumpTo(m, t) \in Machine
         /\ Len(KeepTop(m.stack, t.keep, t.drop)) = t.keep
<1>1. m.stack \in Seq(Nat) /\ Len(m.stack) \in Nat
  BY DEF Machine
<1> DEFINE low == SubSeq(m.stack, 1, Len(m.stack) - t.keep - t.drop)
           high == SubSeq(m.stack, Len(m.stack) - t.keep + 1, Len(m.stack))
<1>2. low \in Seq(Nat) /\ Len(low) = 0
  BY <1>1
<1>3. high \in Seq(Nat) /\ Len(high) = t.keep
  <2>1. PICK n \in Nat : n = Len(m.stack)
    BY <1>1
  <2>2. PICK d \in Nat : d = t.keep /\ d <= n
    BY <2>1
  <2>3. SubSeq(m.stack, n - d + 1, n) \in Seq(Nat) /\ Len(SubSeq(m.stack, n - d + 1, n)) = d
    <3>1. CASE d = 0
      <4>1. n - d + 1 > n
        BY <3>1
      <4> QED BY ONLY <1>1, <2>1, <2>2, <3>1, <4>1, SubSeqProperties
    <3>2. CASE d # 0
      <4>1. n - d + 1 \in 1..n
        BY <2>2, <3>2
      <4>2. n - d + 1 \in Int /\ n \in Int /\ \A i \in (n - d + 1)..n : m.stack[i] \in Nat
        BY <1>1, <2>1, <2>2, <4>1, SMTT(60)
      <4>3. /\ SubSeq(m.stack, n - d + 1, n) \in Seq(Nat)
            /\ Len(SubSeq(m.stack, n - d + 1, n)) = IF n - d + 1 <= n THEN n - (n - d + 1) + 1 ELSE 0
        BY ONLY <4>2, SubSeqProperties
      <4>4. (IF n - d + 1 <= n THEN n - (n - d + 1) + 1 ELSE 0) = d
        BY ONLY <2>1, <2>2, <4>1, n \in Nat, d \in Nat, SMTT(30), ZenonT(30)
      <4> QED BY ONLY <4>3, <4>4
    <3> QED BY <3>1, <3>2
  <2> QED BY <2>1, <2>2, <2>3
<1>4. KeepTop(m.stack, t.keep, t.drop) = low \o high
  BY DEF KeepTop
<1> HIDE DEF low, high
<1>5. low \o high \in Seq(Nat) /\ Len(low \o high) = t.keep
  <2>1. low \o high \in Seq(Nat) /\ Len(low \o high) = Len(low) + Len(high)
    BY ONLY <1>2, <1>3, ConcatProperties
  <2> QED BY ONLY <1>2, <1>3, <2>1, t.keep \in Nat
<1>6. JumpTo(m, t) = [m EXCEPT !.stack = low \o high, !.pc = t.target]
  BY <1>4 DEF JumpTo
<1>7. [m EXCEPT !.stack = low \o high, !.pc = t.target] =
        [status |-> m.status, pc |-> t.target, stack |-> low \o high,
         locals |-> m.locals, cell |-> m.cell]
  <2>1. PICK x \in Seq(Nat) : x = low \o high
    BY <1>5
  <2>2. [m EXCEPT !.stack = x, !.pc = t.target] = [[m EXCEPT !.stack = x] EXCEPT !.pc = t.target]
    BY DEF Machine
  <2>3. [m EXCEPT !.stack = x] = Holding(m, x)
    BY HoldingIs
  <2>4. [Holding(m, x) EXCEPT !.pc = t.target] =
          [status |-> m.status, pc |-> t.target, stack |-> x, locals |-> m.locals, cell |-> m.cell]
    BY DEF Holding
  <2> QED BY ONLY <2>1, <2>2, <2>3, <2>4
<1>8. [status |-> m.status, pc |-> t.target, stack |-> low \o high,
       locals |-> m.locals, cell |-> m.cell] \in Machine
  BY <1>5 DEF Machine
<1> QED BY <1>4, <1>5, <1>6, <1>7, <1>8

LEMMA ReturnIs ==
  ASSUME NEW m \in Machine, Len(m.stack) >= 1
  PROVE  /\ DoReturn(m) = [status |-> "returned", pc |-> m.pc,
                           stack |-> SubSeq(m.stack, Len(m.stack), Len(m.stack)),
                           locals |-> m.locals, cell |-> m.cell]
         /\ DoReturn(m) \in Machine
<1>1. m.stack \in Seq(Nat) /\ Len(m.stack) \in Nat
  BY DEF Machine
<1>2. SubSeq(m.stack, Len(m.stack), Len(m.stack)) \in Seq(Nat)
  BY <1>1
<1>3. DoReturn(m) = [m EXCEPT !.status = "returned",
                             !.stack = SubSeq(m.stack, Len(m.stack), Len(m.stack))]
  BY DEF DoReturn
<1> HIDE <1>1
<1> QED BY <1>2, <1>3 DEF Machine

LEMMA TrappedIs ==
  ASSUME NEW m \in Machine
  PROVE  /\ Trapped(m) = [status |-> "trapped", pc |-> m.pc, stack |-> <<>>,
                          locals |-> m.locals, cell |-> m.cell]
         /\ Trapped(m) \in Machine
<1>1. <<>> \in Seq(Nat)
  OBVIOUS
<1>2. Trapped(m) = [m EXCEPT !.status = "trapped", !.stack = <<>>]
  BY DEF Trapped
<1> QED BY <1>1, <1>2 DEF Machine

LEMMA FlagTyped == \A b : Flag(b) \in Nat
  BY DEF Flag

\* Operands pushed and popped again.
LEMMA PushPop ==
  ASSUME NEW m \in Machine, NEW v \in Nat
  PROVE  /\ SubSeq(Append(m.stack, v), 1, Len(Append(m.stack, v)) - 1) = m.stack
         /\ Peek(Push(m, v), 0) = v
         /\ Len(m.stack) >= 1 => Peek(Push(m, v), 1) = Peek(m, 0)
<1>1. m.stack \in Seq(Nat) /\ Len(m.stack) \in Nat
  BY StackTyped
<1>2. Push(m, v).stack = Append(m.stack, v) /\ Len(Append(m.stack, v)) = Len(m.stack) + 1
  BY PushIs DEF Holding
<1>3. SubSeq(Append(m.stack, v), 1, Len(Append(m.stack, v)) - 1) = m.stack
  <2>1. Len(Append(m.stack, v)) - 1 = Len(m.stack)
    BY ONLY <1>1, <1>2
  <2>2. SubSeq(Append(m.stack, v), 1, Len(m.stack)) = m.stack
    BY <1>1, HeadTailAppend
  <2> QED BY <2>1, <2>2
<1>4. Peek(Push(m, v), 0) = v
  <2>1. Peek(Push(m, v), 0) = Append(m.stack, v)[(Len(m.stack) + 1) - 0]
    BY ONLY <1>2 DEF Peek
  <2>2. (Len(m.stack) + 1) - 0 = Len(m.stack) + 1
    BY ONLY <1>1
  <2> QED BY <2>1, <2>2, PushIs
<1>5. ASSUME Len(m.stack) >= 1 PROVE Peek(Push(m, v), 1) = Peek(m, 0)
  <2>1. Peek(Push(m, v), 1) = Append(m.stack, v)[(Len(m.stack) + 1) - 1]
    BY ONLY <1>2 DEF Peek
  <2>2. (Len(m.stack) + 1) - 1 = Len(m.stack) /\ Len(m.stack) - 0 = Len(m.stack)
    BY ONLY <1>1
  <2>3. Append(m.stack, v)[Len(m.stack)] = m.stack[Len(m.stack)]
    BY <1>1, <1>5
  <2> QED BY <2>1, <2>2, <2>3 DEF Peek
<1> QED BY <1>3, <1>4, <1>5
----------------------------------------------------------------------------
(***************************************************************************)
(* Two machines that do the same.                                          *)
(***************************************************************************)
LEMMA TwinsFields ==
  ASSUME NEW m, NEW w, Twins(m, w)
  PROVE  /\ m \in Machine /\ w \in Machine /\ w.stack \in Seq(Nat)
         /\ m.status = w.status /\ m.stack = w.stack /\ m.locals = w.locals /\ m.cell = w.cell
         /\ m.stack \in Seq(Nat) /\ Len(m.stack) \in Nat /\ m.pc \in Nat /\ w.pc \in Nat
         /\ m.cell \in Nat /\ \A l \in DOMAIN uses.locals : m.locals[l] \in Nat
  BY DEF Twins, Machine

LEMMA BothAdvance ==
  ASSUME NEW m, NEW w, Twins(m, w)
  PROVE  /\ Twins(Advanced(m), Advanced(w)) /\ Advanced(m).status = m.status
         /\ Advanced(m).pc = m.pc + 1 /\ Advanced(w).pc = w.pc + 1
         /\ Advanced(m).stack = m.stack
<1>1. /\ m \in Machine /\ w \in Machine /\ m.status = w.status /\ m.stack = w.stack
      /\ m.locals = w.locals /\ m.cell = w.cell
  BY TwinsFields
<1>2. /\ Advanced(m) = [status |-> m.status, pc |-> m.pc + 1, stack |-> m.stack,
                         locals |-> m.locals, cell |-> m.cell]
      /\ Advanced(m) \in Machine
  BY <1>1, AdvancedIs
<1>3. /\ Advanced(w) = [status |-> w.status, pc |-> w.pc + 1, stack |-> w.stack,
                         locals |-> w.locals, cell |-> w.cell]
      /\ Advanced(w) \in Machine
  BY <1>1, AdvancedIs
<1> QED BY ONLY <1>1, <1>2, <1>3 DEF Twins

LEMMA BothPush ==
  ASSUME NEW m, NEW w, Twins(m, w), NEW v \in Nat
  PROVE  /\ Twins(Push(m, v), Push(w, v)) /\ Push(m, v).status = m.status
         /\ Push(m, v).pc = m.pc /\ Push(w, v).pc = w.pc
         /\ Len(Push(m, v).stack) = Len(m.stack) + 1
<1>1. /\ m \in Machine /\ w \in Machine /\ m.status = w.status /\ m.stack = w.stack
      /\ m.locals = w.locals /\ m.cell = w.cell
  BY TwinsFields
<1>2. /\ Push(m, v) = Holding(m, Append(m.stack, v)) /\ Push(m, v) \in Machine
      /\ Len(Append(m.stack, v)) = Len(m.stack) + 1
  BY <1>1, PushIs
<1>3. Push(w, v) = Holding(w, Append(w.stack, v)) /\ Push(w, v) \in Machine
  BY <1>1, PushIs
<1> QED BY ONLY <1>1, <1>2, <1>3 DEF Twins, Holding

LEMMA BothPop ==
  ASSUME NEW m, NEW w, Twins(m, w), NEW n \in Nat, n <= Len(m.stack)
  PROVE  /\ Twins(Pops(m, n), Pops(w, n)) /\ Pops(m, n).status = m.status
         /\ Pops(m, n).pc = m.pc /\ Pops(w, n).pc = w.pc
         /\ Len(Pops(m, n).stack) = Len(m.stack) - n
         /\ Pops(m, n).cell = m.cell
<1>1. /\ m \in Machine /\ w \in Machine /\ m.status = w.status /\ m.stack = w.stack
      /\ m.locals = w.locals /\ m.cell = w.cell
  BY TwinsFields
<1>2. /\ Pops(m, n) = Holding(m, SubSeq(m.stack, 1, Len(m.stack) - n)) /\ Pops(m, n) \in Machine
      /\ Len(SubSeq(m.stack, 1, Len(m.stack) - n)) = Len(m.stack) - n
  BY <1>1, PopsIs
<1>3. Pops(w, n) = Holding(w, SubSeq(w.stack, 1, Len(w.stack) - n)) /\ Pops(w, n) \in Machine
  BY <1>1, PopsIs
<1> QED BY ONLY <1>1, <1>2, <1>3 DEF Twins, Holding

LEMMA BothPeek ==
  ASSUME NEW m, NEW w, Twins(m, w), NEW n \in Nat, n < Len(m.stack)
  PROVE  Peek(m, n) = Peek(w, n) /\ Peek(m, n) \in Nat
<1>1. /\ m \in Machine /\ w \in Machine /\ m.status = w.status /\ m.stack = w.stack
      /\ m.locals = w.locals /\ m.cell = w.cell
  BY TwinsFields
<1>2. Peek(m, n) = m.stack[Len(m.stack) - n] /\ Peek(m, n) \in Nat
  BY <1>1, PeekIs
<1>3. Peek(w, n) = w.stack[Len(w.stack) - n]
  BY <1>1, PeekIs
<1> QED BY ONLY <1>1, <1>2, <1>3

LEMMA BothReturn ==
  ASSUME NEW m, NEW w, Twins(m, w), Len(m.stack) >= 1
  PROVE  Twins(DoReturn(m), DoReturn(w)) /\ DoReturn(m).status = "returned"
<1>1. /\ m \in Machine /\ w \in Machine /\ m.status = w.status /\ m.stack = w.stack
      /\ m.locals = w.locals /\ m.cell = w.cell
  BY TwinsFields
<1>2. /\ DoReturn(m) = [status |-> "returned", pc |-> m.pc,
                         stack |-> SubSeq(m.stack, Len(m.stack), Len(m.stack)),
                         locals |-> m.locals, cell |-> m.cell]
      /\ DoReturn(m) \in Machine
  BY <1>1, ReturnIs
<1>3. /\ DoReturn(w) = [status |-> "returned", pc |-> w.pc,
                         stack |-> SubSeq(w.stack, Len(w.stack), Len(w.stack)),
                         locals |-> w.locals, cell |-> w.cell]
      /\ DoReturn(w) \in Machine
  BY <1>1, ReturnIs
<1> QED BY ONLY <1>1, <1>2, <1>3 DEF Twins

LEMMA BothTrap ==
  ASSUME NEW m, NEW w, Twins(m, w)
  PROVE  Twins(Trapped(m), Trapped(w)) /\ Trapped(m).status = "trapped"
  BY TwinsFields, TrappedIs DEF Twins

LEMMA BothJump ==
  ASSUME NEW m, NEW w, Twins(m, w), NEW t, NEW r, t.target \in Nat, r.target \in Nat,
         t.keep \in Nat, t.drop \in Nat, r.keep = t.keep, r.drop = t.drop,
         Len(m.stack) = t.keep + t.drop
  PROVE  /\ Twins(JumpTo(m, t), JumpTo(w, r))
         /\ JumpTo(m, t).pc = t.target /\ JumpTo(w, r).pc = r.target
         /\ Len(JumpTo(m, t).stack) = t.keep
<1>1. /\ m \in Machine /\ w \in Machine /\ m.status = w.status /\ m.stack = w.stack
      /\ m.locals = w.locals /\ m.cell = w.cell
  BY TwinsFields
<1>2. /\ JumpTo(m, t) = [status |-> m.status, pc |-> t.target,
                         stack |-> KeepTop(m.stack, t.keep, t.drop),
                         locals |-> m.locals, cell |-> m.cell]
      /\ JumpTo(m, t) \in Machine /\ Len(KeepTop(m.stack, t.keep, t.drop)) = t.keep
  BY <1>1, JumpIs
<1>3. /\ JumpTo(w, r) = [status |-> w.status, pc |-> r.target,
                         stack |-> KeepTop(w.stack, r.keep, r.drop),
                         locals |-> w.locals, cell |-> w.cell]
      /\ JumpTo(w, r) \in Machine
  BY <1>1, JumpIs
<1> QED BY <1>1, <1>2, <1>3 DEF Twins

\* m with another value in a local, or in memory.
Setting(m, l, v) ==
  [status |-> m.status, pc |-> m.pc, stack |-> m.stack,
   locals |-> [m.locals EXCEPT ![l] = v], cell |-> m.cell]
Writes(m, v) ==
  [status |-> m.status, pc |-> m.pc, stack |-> m.stack, locals |-> m.locals, cell |-> v]

LEMMA BothSet ==
  ASSUME NEW m, NEW w, Twins(m, w), NEW l \in DOMAIN uses.locals, NEW v \in Nat
  PROVE  /\ Twins([m EXCEPT !.locals[l] = v], [w EXCEPT !.locals[l] = v])
         /\ [m EXCEPT !.locals[l] = v].status = m.status
         /\ [m EXCEPT !.locals[l] = v].pc = m.pc /\ [w EXCEPT !.locals[l] = v].pc = w.pc
         /\ [m EXCEPT !.locals[l] = v].stack = m.stack
<1>1. ASSUME NEW x \in Machine
      PROVE  [x EXCEPT !.locals[l] = v] = Setting(x, l, v) /\ Setting(x, l, v) \in Machine
  <2>1. [x.locals EXCEPT ![l] = v] \in [DOMAIN uses.locals -> Nat]
    BY DEF Machine
  <2>2. [x EXCEPT !.locals[l] = v] = Setting(x, l, v)
    <3>1. PICK y : y = [x.locals EXCEPT ![l] = v]
      OBVIOUS
    <3>2. [x EXCEPT !.locals[l] = v] = [x EXCEPT !.locals = y]
      BY ONLY <3>1
    <3>3. [x EXCEPT !.locals = y] =
            [status |-> x.status, pc |-> x.pc, stack |-> x.stack, locals |-> y, cell |-> x.cell]
      BY SMTT(30), ZenonT(30) DEF Machine
    <3> QED BY ONLY <3>1, <3>2, <3>3 DEF Setting
  <2>3. Setting(x, l, v) \in Machine
    BY <2>1 DEF Machine, Setting
  <2> QED BY <2>2, <2>3
<1>2. /\ m \in Machine /\ w \in Machine /\ m.status = w.status /\ m.stack = w.stack
      /\ m.locals = w.locals /\ m.cell = w.cell
  BY TwinsFields
<1>3. /\ [m EXCEPT !.locals[l] = v] = Setting(m, l, v) /\ Setting(m, l, v) \in Machine
      /\ [w EXCEPT !.locals[l] = v] = Setting(w, l, v) /\ Setting(w, l, v) \in Machine
  BY <1>1, <1>2
<1> QED BY ONLY <1>2, <1>3 DEF Twins, Setting

LEMMA BothWrite ==
  ASSUME NEW m, NEW w, Twins(m, w), NEW v \in Nat
  PROVE  /\ Twins([m EXCEPT !.cell = v], [w EXCEPT !.cell = v])
         /\ [m EXCEPT !.cell = v].status = m.status
         /\ [m EXCEPT !.cell = v].pc = m.pc /\ [w EXCEPT !.cell = v].pc = w.pc
         /\ [m EXCEPT !.cell = v].stack = m.stack
<1>1. ASSUME NEW x \in Machine
      PROVE  [x EXCEPT !.cell = v] = Writes(x, v) /\ Writes(x, v) \in Machine
  <2>1. [x EXCEPT !.cell = v] = Writes(x, v)
    BY DEF Machine, Writes
  <2>2. Writes(x, v) \in Machine
    BY DEF Machine, Writes
  <2> QED BY <2>1, <2>2
<1>2. /\ m \in Machine /\ w \in Machine /\ m.status = w.status /\ m.stack = w.stack
      /\ m.locals = w.locals /\ m.cell = w.cell
  BY TwinsFields
<1>3. /\ [m EXCEPT !.cell = v] = Writes(m, v) /\ Writes(m, v) \in Machine
      /\ [w EXCEPT !.cell = v] = Writes(w, v) /\ Writes(w, v) \in Machine
  BY <1>1, <1>2
<1> QED BY ONLY <1>2, <1>3 DEF Twins, Writes
----------------------------------------------------------------------------
(***************************************************************************)
(* How an op moves the operand stack, from height b to a; -1 when nothing  *)
(* follows it.  A jump leaves the operands of its label.                   *)
(***************************************************************************)
Arity(l) == Len(uses.labels[l])

Leaves(t, b) == t.keep = Arity(t.target) /\ b = t.keep + t.drop

Moves(op, b, a) ==
  /\ b \in Int /\ a \in Int
  /\ op.k = "Label" => (b = -1 \/ b = Arity(op.label)) /\ a = Arity(op.label)
  /\ op.k # "Label" => b >= 0
  /\ op.k = "LocalGet" => a = b + 1
  /\ op.k = "LocalSet" => b >= 1 /\ a = b - 1
  /\ op.k = "Compare" => b >= 2 /\ a = b - 1
  /\ op.k \in {"EqZero", "Load"} => b >= 1 /\ a = b
  /\ op.k = "Store" => b >= 2 /\ a = b - 2
  /\ op.k = "Jump" => Leaves(op, b) /\ a = -1
  /\ op.k \in {"JumpIf", "JumpIfNot"} => b >= 1 /\ Leaves(op, b - 1) /\ a = b - 1
  /\ op.k = "JumpTable" =>
       /\ b >= 1 /\ a = -1 /\ op.entries # <<>>
       /\ \A e \in DOMAIN op.entries : Leaves(op.entries[e], b - 1)
  /\ op.k = "Return" => b >= 1 /\ a = -1

Targets(op) ==
  IF op.k \in Jumps THEN {op.target}
  ELSE IF op.k = "JumpTable" THEN {op.entries[e].target : e \in DOMAIN op.entries}
  ELSE {}

\* After op two machines are alike, at the op behind it or at the same label.
Arrives(u, v, op, x, y, c, d, a) ==
  /\ Twins(x, y)
  /\ x.status = "running" =>
       \/ a >= 0 /\ x.pc = c /\ y.pc = d /\ Len(x.stack) = a
       \/ \E l \in Targets(op) :
            x.pc = Position(u, l) /\ y.pc = Position(v, l) /\ Len(x.stack) = Arity(l)

Located(u) == \A l : Position(u, l) \in Nat

LEMMA JumpArrives ==
  ASSUME NEW u, NEW v, Located(u), Located(v), NEW m, NEW w, Twins(m, w), NEW op, NEW l \in Targets(op),
         NEW t, NEW r, t.target = Position(u, l), r.target = Position(v, l), NEW keep \in Nat, NEW drop \in Nat,
         t.keep = keep, r.keep = keep, t.drop = drop, r.drop = drop,
         keep = Arity(l), Len(m.stack) = keep + drop, NEW c, NEW d, NEW a
  PROVE  Arrives(u, v, op, JumpTo(m, t), JumpTo(w, r), c, d, a)
<1>1. t.target \in Nat /\ r.target \in Nat
  BY DEF Located
<1>2. /\ Twins(JumpTo(m, t), JumpTo(w, r)) /\ JumpTo(m, t).pc = t.target
      /\ JumpTo(w, r).pc = r.target /\ Len(JumpTo(m, t).stack) = t.keep
  <2>1. /\ t.keep \in Nat /\ t.drop \in Nat /\ r.keep = t.keep /\ r.drop = t.drop
        /\ Len(m.stack) = t.keep + t.drop
    OBVIOUS
  <2> QED BY ONLY <1>1, <2>1, Twins(m, w), BothJump, SMTT(60)
<1>3. /\ JumpTo(m, t).pc = Position(u, l) /\ JumpTo(w, r).pc = Position(v, l)
      /\ Len(JumpTo(m, t).stack) = Arity(l)
  BY <1>2
<1>4. PICK x, y : x = JumpTo(m, t) /\ y = JumpTo(w, r)
  OBVIOUS
<1>5. Twins(x, y) /\ x.pc = Position(u, l) /\ y.pc = Position(v, l) /\ Len(x.stack) = Arity(l)
  BY ONLY <1>2, <1>3, <1>4
<1>6. Arrives(u, v, op, x, y, c, d, a)
  BY ONLY <1>5, l \in Targets(op) DEF Arrives
<1> QED BY <1>4, <1>6

LEMMA BranchArrives ==
  ASSUME NEW u, NEW v, Located(u), Located(v), NEW m, NEW w, Twins(m, w), NEW op \in Op,
         op.k \in {"JumpIf", "JumpIfNot"}, NEW a \in Nat, Leaves(op, a), Len(m.stack) = a,
         NEW t, t.target = Position(u, op.target), t.keep = op.keep, t.drop = op.drop, NEW x, NEW y,
         \/ x = JumpTo(m, t) /\ y = JumpTo(w, Resolved(v, op))
         \/ x = m /\ y = w
  PROVE  Arrives(u, v, op, x, y, m.pc, w.pc, a)
<1>1. op.keep \in Nat /\ op.drop \in Nat /\ op.target \in Targets(op)
  <2>1. op \in [k : Jumps, target : Labels, keep : Nat, drop : Nat]
    BY DEF Op, Jumps
  <2>2. op.k \in Jumps
    BY DEF Jumps
  <2>3. Targets(op) = {op.target}
    BY <2>2 DEF Targets
  <2> QED BY <2>1, <2>3
<1>2. CASE x = JumpTo(m, t) /\ y = JumpTo(w, Resolved(v, op))
  <2>1. /\ Resolved(v, op).target = Position(v, op.target)
        /\ Resolved(v, op).keep = op.keep /\ Resolved(v, op).drop = op.drop
    BY DEF Resolved
  <2>2. op.keep = Arity(op.target) /\ Len(m.stack) = op.keep + op.drop
    BY DEF Leaves
  <2> QED BY <1>1, <1>2, <2>1, <2>2, JumpArrives
<1>3. CASE x = m /\ y = w
  BY <1>3 DEF Arrives
<1> QED BY <1>2, <1>3

LEMMA BothLoad ==
  ASSUME NEW m, NEW w, Twins(m, w), NEW base
  PROVE  /\ Twins(LoadFrom(m, base), LoadFrom(w, base))
         /\ LoadFrom(m, base).status = "running" =>
              /\ LoadFrom(m, base).pc = m.pc /\ LoadFrom(w, base).pc = w.pc
              /\ Len(LoadFrom(m, base).stack) = Len(m.stack) + 1
<1>1. m.cell = w.cell /\ m.cell \in Nat
  BY TwinsFields
<1>2. CASE base = 0
  <2>1. LoadFrom(m, base) = Push(m, m.cell) /\ LoadFrom(w, base) = Push(w, m.cell)
    BY <1>1, <1>2 DEF LoadFrom
  <2> QED BY <1>1, <2>1, BothPush
<1>3. CASE base # 0
  <2>1. LoadFrom(m, base) = Trapped(m) /\ LoadFrom(w, base) = Trapped(w)
    BY <1>3 DEF LoadFrom
  <2> QED BY <2>1, BothTrap
<1> QED BY <1>2, <1>3

LEMMA BothStore ==
  ASSUME NEW m, NEW w, Twins(m, w), NEW base, NEW v \in Nat
  PROVE  /\ Twins(StoreTo(m, base, v), StoreTo(w, base, v))
         /\ StoreTo(m, base, v).status = "running" =>
              /\ StoreTo(m, base, v).pc = m.pc /\ StoreTo(w, base, v).pc = w.pc
              /\ Len(StoreTo(m, base, v).stack) = Len(m.stack)
<1>1. CASE base = 0
  <2>1. StoreTo(m, base, v) = [m EXCEPT !.cell = v] /\ StoreTo(w, base, v) = [w EXCEPT !.cell = v]
    BY <1>1 DEF StoreTo
  <2>2. /\ Twins([m EXCEPT !.cell = v], [w EXCEPT !.cell = v])
        /\ [m EXCEPT !.cell = v].pc = m.pc /\ [w EXCEPT !.cell = v].pc = w.pc
        /\ [m EXCEPT !.cell = v].stack = m.stack
    BY BothWrite
  <2> QED BY ONLY <2>1, <2>2
<1>2. CASE base # 0
  <2>1. StoreTo(m, base, v) = Trapped(m) /\ StoreTo(w, base, v) = Trapped(w)
    BY <1>2 DEF StoreTo
  <2> QED BY <2>1, BothTrap
<1> QED BY <1>1, <1>2

LEMMA PlainLocal ==
  ASSUME NEW u, NEW v, NEW m, NEW w, Twins(m, w), NEW op \in Op, NEW b, NEW a, Moves(op, b, a),
         Len(m.stack) = b, op.k \in {"LocalGet", "LocalSet"}
  PROVE  Arrives(u, v, op, ExecutePlain(op, m), ExecutePlain(op, w), m.pc, w.pc, a)
<1>1. op.local \in DOMAIN uses.locals
  <2>1. op \in [k : {"LocalGet", "LocalSet"}, local : DOMAIN uses.locals]
    BY DEF Op, Jumps
  <2> QED BY <2>1
<1>2. m.locals[op.local] = w.locals[op.local] /\ m.locals[op.local] \in Nat /\ Len(m.stack) \in Nat
  BY <1>1, TwinsFields
<1>3. CASE op.k = "LocalGet"
  <2> DEFINE x == m.locals[op.local]
  <2>1. ExecutePlain(op, m) = Push(m, x) /\ ExecutePlain(op, w) = Push(w, x)
    BY <1>2, <1>3 DEF ExecutePlain
  <2>2. a = Len(m.stack) + 1
    BY <1>3 DEF Moves
  <2>3. x \in Nat
    BY <1>2
  <2> HIDE DEF x
  <2>4. /\ Twins(Push(m, x), Push(w, x)) /\ Push(m, x).pc = m.pc /\ Push(w, x).pc = w.pc
        /\ Len(Push(m, x).stack) = a
    BY <2>2, <2>3, BothPush
  <2>5. a >= 0
    BY ONLY <1>2, <2>2
  <2> QED BY ONLY <2>1, <2>4, <2>5 DEF Arrives
<1>4. CASE op.k = "LocalSet"
  <2>1. b >= 1 /\ a = b - 1
    BY <1>4 DEF Moves
  <2>2. Peek(m, 0) = Peek(w, 0) /\ Peek(m, 0) \in Nat
    BY <1>2, <2>1, BothPeek
  <2>3. /\ Twins(Pops(m, 1), Pops(w, 1)) /\ Pops(m, 1).pc = m.pc /\ Pops(w, 1).pc = w.pc
        /\ Len(Pops(m, 1).stack) = a
    BY <1>2, <2>1, BothPop
  <2>4. PICK p, q, x : p = Pops(m, 1) /\ q = Pops(w, 1) /\ x = Peek(m, 0)
    OBVIOUS
  <2>5. /\ ExecutePlain(op, m) = [p EXCEPT !.locals[op.local] = x]
        /\ ExecutePlain(op, w) = [q EXCEPT !.locals[op.local] = x]
    BY <1>4, <2>2, <2>4 DEF ExecutePlain
  <2>6. /\ Twins([p EXCEPT !.locals[op.local] = x], [q EXCEPT !.locals[op.local] = x])
        /\ [p EXCEPT !.locals[op.local] = x].pc = p.pc /\ [q EXCEPT !.locals[op.local] = x].pc = q.pc
        /\ [p EXCEPT !.locals[op.local] = x].stack = p.stack
    <3>1. Twins(p, q) /\ x \in Nat
      BY ONLY <2>2, <2>3, <2>4
    <3> QED BY ONLY <1>1, <3>1, BothSet
  <2>7. a >= 0
    BY <1>2, <2>1
  <2> QED BY ONLY <2>3, <2>4, <2>5, <2>6, <2>7 DEF Arrives
<1> QED BY <1>3, <1>4

LEMMA PlainFlag ==
  ASSUME NEW u, NEW v, NEW m, NEW w, Twins(m, w), NEW op, NEW b, NEW a, Moves(op, b, a),
         Len(m.stack) = b, op.k \in {"Compare", "EqZero"}
  PROVE  Arrives(u, v, op, ExecutePlain(op, m), ExecutePlain(op, w), m.pc, w.pc, a)
<1> DEFINE n == IF op.k = "Compare" THEN 2 ELSE 1
           f == IF op.k = "Compare" THEN Flag(Related(op.cmp, Peek(m, 1), Peek(m, 0)))
                ELSE Flag(Peek(m, 0) = 0)
<1>1. Len(m.stack) \in Nat /\ n \in Nat /\ b >= n /\ a = (b - n) + 1
  BY TwinsFields DEF Moves
<1>2. Peek(m, 0) = Peek(w, 0)
  BY <1>1, BothPeek
<1>3. op.k = "Compare" => Peek(m, 1) = Peek(w, 1)
  BY <1>1, BothPeek
<1>4. ExecutePlain(op, m) = Push(Pops(m, n), f) /\ ExecutePlain(op, w) = Push(Pops(w, n), f)
  <2>1. CASE op.k = "Compare"
    BY <1>2, <1>3, <2>1 DEF ExecutePlain
  <2>2. CASE op.k = "EqZero"
    BY <1>2, <2>2 DEF ExecutePlain
  <2> QED BY <2>1, <2>2
<1>5. f \in Nat
  BY FlagTyped
<1> HIDE DEF f, n
<1>6. /\ Twins(Pops(m, n), Pops(w, n)) /\ Pops(m, n).pc = m.pc /\ Pops(w, n).pc = w.pc
      /\ Len(Pops(m, n).stack) = b - n
  BY <1>1, BothPop
<1>7. PICK p, q : p = Pops(m, n) /\ q = Pops(w, n)
  OBVIOUS
<1>8. /\ Twins(Push(p, f), Push(q, f)) /\ Push(p, f).pc = p.pc /\ Push(q, f).pc = q.pc
      /\ Len(Push(p, f).stack) = Len(p.stack) + 1
  BY ONLY <1>5, <1>6, <1>7, BothPush
<1>9. a >= 0
  BY <1>1
<1> QED BY ONLY <1>1, <1>4, <1>6, <1>7, <1>8, <1>9 DEF Arrives

LEMMA PlainAccess ==
  ASSUME NEW u, NEW v, NEW m, NEW w, Twins(m, w), NEW op, NEW b, NEW a, Moves(op, b, a),
         Len(m.stack) = b, op.k \in Accesses
  PROVE  Arrives(u, v, op, ExecutePlain(op, m), ExecutePlain(op, w), m.pc, w.pc, a)
<1>1. Len(m.stack) \in Nat
  BY TwinsFields
<1>2. CASE op.k = "Load"
  <2>1. b >= 1 /\ a = b
    BY <1>2 DEF Moves
  <2>2. Peek(m, 0) = Peek(w, 0)
    BY <1>1, <2>1, BothPeek
  <2>3. /\ Twins(Pops(m, 1), Pops(w, 1)) /\ Pops(m, 1).pc = m.pc /\ Pops(w, 1).pc = w.pc
        /\ Len(Pops(m, 1).stack) = b - 1
    BY <1>1, <2>1, BothPop
  <2>4. PICK p, q, x : p = Pops(m, 1) /\ q = Pops(w, 1) /\ x = Peek(m, 0)
    OBVIOUS
  <2>5. ExecutePlain(op, m) = LoadFrom(p, x) /\ ExecutePlain(op, w) = LoadFrom(q, x)
    BY <1>2, <2>2, <2>4 DEF ExecutePlain
  <2>6. /\ Twins(LoadFrom(p, x), LoadFrom(q, x))
        /\ LoadFrom(p, x).status = "running" =>
             /\ LoadFrom(p, x).pc = p.pc /\ LoadFrom(q, x).pc = q.pc
             /\ Len(LoadFrom(p, x).stack) = Len(p.stack) + 1
    BY ONLY <2>3, <2>4, BothLoad
  <2>7. a >= 0 /\ a = (b - 1) + 1
    BY <1>1, <2>1
  <2> QED BY ONLY <2>3, <2>4, <2>5, <2>6, <2>7 DEF Arrives
<1>3. CASE op.k = "Store"
  <2>1. b >= 2 /\ a = b - 2
    BY <1>3 DEF Moves
  <2>2. Peek(m, 0) = Peek(w, 0) /\ Peek(m, 1) = Peek(w, 1) /\ Peek(m, 0) \in Nat
    BY <1>1, <2>1, BothPeek
  <2>3. /\ Twins(Pops(m, 2), Pops(w, 2)) /\ Pops(m, 2).pc = m.pc /\ Pops(w, 2).pc = w.pc
        /\ Len(Pops(m, 2).stack) = a
    BY <1>1, <2>1, BothPop
  <2>4. PICK p, q, x, y : p = Pops(m, 2) /\ q = Pops(w, 2) /\ x = Peek(m, 1) /\ y = Peek(m, 0)
    OBVIOUS
  <2>5. ExecutePlain(op, m) = StoreTo(p, x, y) /\ ExecutePlain(op, w) = StoreTo(q, x, y)
    BY <1>3, <2>2, <2>4 DEF ExecutePlain
  <2>6. /\ Twins(StoreTo(p, x, y), StoreTo(q, x, y))
        /\ StoreTo(p, x, y).status = "running" =>
             /\ StoreTo(p, x, y).pc = p.pc /\ StoreTo(q, x, y).pc = q.pc
             /\ Len(StoreTo(p, x, y).stack) = Len(p.stack)
    <3>1. y \in Nat /\ Twins(p, q)
      BY ONLY <2>2, <2>3, <2>4
    <3> QED BY ONLY <3>1, BothStore
  <2>7. a >= 0
    BY <1>1, <2>1
  <2> QED BY ONLY <2>3, <2>4, <2>5, <2>6, <2>7 DEF Arrives
<1> QED BY <1>2, <1>3 DEF Accesses

LEMMA PlainBranch ==
  ASSUME NEW u, NEW v, Located(u), Located(v), NEW m, NEW w, Twins(m, w), NEW op \in Op, NEW b, NEW a,
         Moves(op, b, a), Len(m.stack) = b, op.k \in Jumps
  PROVE  Arrives(u, v, op, ExecutePlain(Resolved(u, op), m), ExecutePlain(Resolved(v, op), w),
                 m.pc, w.pc, a)
<1>1. /\ op.keep \in Nat /\ op.drop \in Nat /\ op.target \in Targets(op) /\ Len(m.stack) \in Nat
  <2>1. op \in [k : Jumps, target : Labels, keep : Nat, drop : Nat]
    BY DEF Op, Jumps
  <2>2. Targets(op) = {op.target}
    BY DEF Targets
  <2> QED BY <2>1, <2>2, TwinsFields
<1>2. \A z : /\ Resolved(z, op).k = op.k /\ Resolved(z, op).target = Position(z, op.target)
             /\ Resolved(z, op).keep = op.keep /\ Resolved(z, op).drop = op.drop
  BY DEF Resolved
<1>3. PICK t, r : t = Resolved(u, op) /\ r = Resolved(v, op)
  OBVIOUS
<1>4. /\ t.k = op.k /\ t.target = Position(u, op.target) /\ t.keep = op.keep /\ t.drop = op.drop
      /\ r.k = op.k /\ r.target = Position(v, op.target) /\ r.keep = op.keep /\ r.drop = op.drop
  BY ONLY <1>2, <1>3
<1>5. CASE op.k = "Jump"
  <2>1. op.keep = Arity(op.target) /\ Len(m.stack) = op.keep + op.drop
    BY <1>5 DEF Moves, Leaves
  <2>2. ExecutePlain(t, m) = JumpTo(m, t) /\ ExecutePlain(r, w) = JumpTo(w, r)
    BY <1>4, <1>5 DEF ExecutePlain
  <2>3. Arrives(u, v, op, JumpTo(m, t), JumpTo(w, r), m.pc, w.pc, a)
    BY ONLY <1>1, <1>4, <2>1, Located(u), Located(v), Twins(m, w), JumpArrives
  <2> QED BY ONLY <1>3, <2>2, <2>3
<1>6. CASE op.k \in {"JumpIf", "JumpIfNot"}
  <2>1. b >= 1 /\ Leaves(op, a) /\ a = b - 1 /\ a \in Nat
    BY <1>1, <1>6 DEF Moves
  <2>2. Peek(m, 0) = Peek(w, 0)
    BY <1>1, <2>1, BothPeek
  <2>3. /\ Twins(Pops(m, 1), Pops(w, 1)) /\ Pops(m, 1).pc = m.pc /\ Pops(w, 1).pc = w.pc
        /\ Len(Pops(m, 1).stack) = a
    BY <1>1, <2>1, BothPop
  <2>4. PICK p, q, x, y : /\ p = Pops(m, 1) /\ q = Pops(w, 1)
                          /\ x = ExecutePlain(t, m) /\ y = ExecutePlain(r, w)
    OBVIOUS
  <2>5. (x = JumpTo(p, t) /\ y = JumpTo(q, r)) \/ (x = p /\ y = q)
    <3>1. CASE op.k = "JumpIf"
      <4>1. ASSUME NEW z, NEW s, z.k = "JumpIf"
            PROVE  ExecutePlain(z, s) = IF Peek(s, 0) # 0 THEN JumpTo(Pops(s, 1), z) ELSE Pops(s, 1)
        BY ONLY <4>1 DEF ExecutePlain, JumpWhen
      <4>2. t.k = "JumpIf" /\ r.k = "JumpIf"
        BY ONLY <1>4, <3>1
      <4>3. /\ x = IF Peek(m, 0) # 0 THEN JumpTo(p, t) ELSE p
            /\ y = IF Peek(m, 0) # 0 THEN JumpTo(q, r) ELSE q
        BY ONLY <2>2, <2>4, <4>1, <4>2
      <4>4. CASE Peek(m, 0) = 0
        BY ONLY <4>3, <4>4
      <4>5. CASE Peek(m, 0) # 0
        BY ONLY <4>3, <4>5
      <4> QED BY ONLY <4>4, <4>5
    <3>2. CASE op.k = "JumpIfNot"
      <4>1. ASSUME NEW z, NEW s, z.k = "JumpIfNot"
            PROVE  ExecutePlain(z, s) = IF Peek(s, 0) = 0 THEN JumpTo(Pops(s, 1), z) ELSE Pops(s, 1)
        BY ONLY <4>1 DEF ExecutePlain, JumpWhen
      <4>2. t.k = "JumpIfNot" /\ r.k = "JumpIfNot"
        BY ONLY <1>4, <3>2
      <4>3. /\ x = IF Peek(m, 0) = 0 THEN JumpTo(p, t) ELSE p
            /\ y = IF Peek(m, 0) = 0 THEN JumpTo(q, r) ELSE q
        BY ONLY <2>2, <2>4, <4>1, <4>2
      <4>4. CASE Peek(m, 0) = 0
        BY ONLY <4>3, <4>4
      <4>5. CASE Peek(m, 0) # 0
        BY ONLY <4>3, <4>5
      <4> QED BY ONLY <4>4, <4>5
    <3> QED BY <1>6, <3>1, <3>2
  <2>6. Twins(p, q) /\ Len(p.stack) = a /\ p.pc = m.pc /\ q.pc = w.pc
    BY ONLY <2>3, <2>4
  <2>7. Arrives(u, v, op, x, y, p.pc, q.pc, a)
    BY ONLY <1>3, <1>4, <1>6, <2>1, <2>5, <2>6, Located(u), Located(v), op \in Op, BranchArrives
  <2> QED BY ONLY <1>3, <2>4, <2>6, <2>7
<1> QED BY <1>5, <1>6 DEF Jumps

\* The entry taken does not depend on where the labels are.
LEMMA TableEntry ==
  ASSUME NEW op \in Op, op.k = "JumpTable", op.entries # <<>>, NEW i \in Nat
  PROVE  \E e \in DOMAIN op.entries : \A u : EntryOf(ResolveTargets(u, op), i) =
           [target |-> Position(u, op.entries[e].target),
            keep |-> op.entries[e].keep, drop |-> op.entries[e].drop]
<1>1. op.entries \in Seq(Entry)
  BY ResolvedTable
<1>2. PICK n \in Nat \ {0} : Len(op.entries) = n /\ DOMAIN op.entries = 1..n
  BY <1>1
<1> DEFINE e == IF i < n - 1 THEN i + 1 ELSE n
<1>3. e \in 1..n
  OBVIOUS
<1>4. ASSUME NEW u
      PROVE  EntryOf(ResolveTargets(u, op), i) =
               [target |-> Position(u, op.entries[e].target),
                keep |-> op.entries[e].keep, drop |-> op.entries[e].drop]
  <2> DEFINE E == ResolveTargets(u, op).entries
             F(k) == [target |-> Position(u, op.entries[k].target),
                      keep |-> op.entries[k].keep, drop |-> op.entries[k].drop]
  <2>1. DOMAIN E = 1..n /\ \A k \in 1..n : E[k] = F(k)
    BY <1>2, ResolvedTable
  <2>2. E = [k \in DOMAIN op.entries |->
               [op.entries[k] EXCEPT !.target = Position(u, op.entries[k].target)]]
    <3>1. op \in [k : {"JumpTable"}, entries : Seq(Entry)]
      BY DEF Op, Jumps
    <3>2. ResolveTargets(u, op) =
            [op EXCEPT !.entries =
               [k \in DOMAIN op.entries |->
                  [op.entries[k] EXCEPT !.target = Position(u, op.entries[k].target)]]]
      BY DEF ResolveTargets, HasTarget, Jumps
    <3> QED BY ONLY <3>1, <3>2
  <2>3. Len(E) = n
    <3>1. E = [k \in 1..n |-> E[k]]
      BY <1>2, <2>2
    <3> DEFINE X == {E[k] : k \in 1..n}
    <3>2. E \in [1..n -> X]
      BY <3>1
    <3> HIDE DEF E, X
    <3>3. E \in Seq(X)
      BY <3>2
    <3> QED BY <2>1, <3>3
  <2>4. EntryOf(ResolveTargets(u, op), i) = E[e]
    BY <2>3 DEF EntryOf, Last
  <2> HIDE DEF E, F, e
  <2>5. EntryOf(ResolveTargets(u, op), i) = F(e)
    BY ONLY <1>3, <2>1, <2>4
  <2> QED BY ONLY <2>5 DEF F
<1> HIDE DEF e
<1> QED BY <1>2, <1>3, <1>4

LEMMA PlainTable ==
  ASSUME NEW u, NEW v, Located(u), Located(v), NEW m, NEW w, Twins(m, w), NEW op \in Op, NEW b, NEW a,
         Moves(op, b, a), Len(m.stack) = b, op.k = "JumpTable"
  PROVE  Arrives(u, v, op, ExecutePlain(ResolveTargets(u, op), m),
                 ExecutePlain(ResolveTargets(v, op), w), m.pc, w.pc, a)
<1>1. /\ b >= 1 /\ op.entries # <<>> /\ Len(m.stack) \in Nat
      /\ \A e \in DOMAIN op.entries : Leaves(op.entries[e], b - 1)
  BY TwinsFields DEF Moves
<1>2. Peek(m, 0) = Peek(w, 0) /\ Peek(m, 0) \in Nat
  BY <1>1, BothPeek
<1>3. PICK e \in DOMAIN op.entries : \A z : EntryOf(ResolveTargets(z, op), Peek(m, 0)) =
           [target |-> Position(z, op.entries[e].target),
            keep |-> op.entries[e].keep, drop |-> op.entries[e].drop]
  BY <1>1, <1>2, TableEntry
<1> DEFINE l == op.entries[e].target
           keep == op.entries[e].keep
           drop == op.entries[e].drop
<1>4. keep \in Nat /\ drop \in Nat
  <2>1. op.entries[e] \in Entry
    BY ResolvedTable
  <2> QED BY <2>1 DEF Entry
<1>5. keep = Arity(l) /\ b - 1 = keep + drop
  BY <1>1 DEF Leaves
<1>6. l \in Targets(op)
  BY DEF Targets, Jumps
<1>7. /\ Twins(Pops(m, 1), Pops(w, 1)) /\ Len(Pops(m, 1).stack) = b - 1
  BY <1>1, BothPop
<1>8. PICK p, q, t, r : /\ p = Pops(m, 1) /\ q = Pops(w, 1)
                        /\ t = EntryOf(ResolveTargets(u, op), Peek(m, 0))
                        /\ r = EntryOf(ResolveTargets(v, op), Peek(m, 0))
  OBVIOUS
<1>9. /\ ExecutePlain(ResolveTargets(u, op), m) = JumpTo(p, t)
      /\ ExecutePlain(ResolveTargets(v, op), w) = JumpTo(q, r)
  <2>1. ResolveTargets(u, op).k = "JumpTable" /\ ResolveTargets(v, op).k = "JumpTable"
    BY ResolvedTable
  <2> QED BY <1>2, <1>8, <2>1 DEF ExecutePlain
<1>10. /\ t.target = Position(u, l) /\ t.keep = keep /\ t.drop = drop
       /\ r.target = Position(v, l) /\ r.keep = keep /\ r.drop = drop
  BY <1>3, <1>8
<1>11. Twins(p, q) /\ Len(p.stack) = keep + drop
  BY ONLY <1>5, <1>7, <1>8
<1>12. Arrives(u, v, op, JumpTo(p, t), JumpTo(q, r), m.pc, w.pc, a)
  <2> HIDE DEF l, keep, drop
  <2> QED BY ONLY <1>4, <1>5, <1>6, <1>10, <1>11, Located(u), Located(v), JumpArrives
<1> QED BY ONLY <1>9, <1>12

LEMMA PlainReturn ==
  ASSUME NEW u, NEW v, NEW m, NEW w, Twins(m, w), NEW op, NEW b, NEW a, Moves(op, b, a),
         Len(m.stack) = b, op.k = "Return"
  PROVE  Arrives(u, v, op, ExecutePlain(op, m), ExecutePlain(op, w), m.pc, w.pc, a)
<1>1. Len(m.stack) >= 1
  BY DEF Moves
<1>2. ExecutePlain(op, m) = DoReturn(m) /\ ExecutePlain(op, w) = DoReturn(w)
  BY DEF ExecutePlain
<1>3. Twins(DoReturn(m), DoReturn(w)) /\ DoReturn(m).status = "returned"
  BY <1>1, BothReturn
<1> QED BY <1>2, <1>3 DEF Arrives

LEMMA PlainArrives ==
  ASSUME NEW u, NEW v, Located(u), Located(v), NEW m, NEW w, Twins(m, w), NEW op \in Op, ~IsLabel(op),
         NEW b, NEW a, Moves(op, b, a), Len(m.stack) = b
  PROVE  Arrives(u, v, op, ExecutePlain(ResolveTargets(u, op), m),
                 ExecutePlain(ResolveTargets(v, op), w), m.pc, w.pc, a)
<1>1. CASE op.k \in Jumps
  BY <1>1, ResolvedJump, PlainBranch
<1>2. CASE op.k = "JumpTable"
  BY <1>2, PlainTable
<1>3. CASE op.k \notin Jumps /\ op.k # "JumpTable"
  <2>1. op.k \in {"LocalGet", "LocalSet", "Compare", "EqZero", "Load", "Store", "Return"}
    BY <1>3 DEF Op, IsLabel, Jumps
  <2>2. ResolveTargets(u, op) = op /\ ResolveTargets(v, op) = op
    BY <1>3, <2>1, ResolvedOther
  <2>3. Arrives(u, v, op, ExecutePlain(op, m), ExecutePlain(op, w), m.pc, w.pc, a)
    BY <2>1, PlainLocal, PlainFlag, PlainAccess, PlainReturn DEF Accesses
  <2> QED BY <2>2, <2>3
<1> QED BY <1>1, <1>2, <1>3
----------------------------------------------------------------------------
(***************************************************************************)
(* A merged op does what its two ops do one after the other.               *)
(***************************************************************************)
LEMMA PushThenPop ==
  ASSUME NEW m \in Machine, NEW v \in Nat
  PROVE  /\ Pops(Push(m, v), 1) = m /\ Push(m, v).locals = m.locals /\ Push(m, v) \in Machine
         /\ Len(m.stack) >= 1 => Pops(Push(m, v), 2) = Pops(m, 1)
<1> DEFINE s == Append(m.stack, v)
<1>1. m.stack \in Seq(Nat) /\ Len(m.stack) \in Nat
  BY StackTyped
<1>2. /\ Push(m, v) = Holding(m, s) /\ Push(m, v) \in Machine /\ Len(s) = Len(m.stack) + 1
      /\ s \in Seq(Nat)
  BY <1>1, PushIs, AppendProperties
<1>3. /\ Push(m, v).stack = s /\ Push(m, v).locals = m.locals
      /\ \A x : Holding(Push(m, v), x) = Holding(m, x)
  BY <1>2 DEF Holding
<1>4. SubSeq(s, 1, Len(s) - 1) = m.stack
  BY PushPop
<1>5. Holding(m, m.stack) = m
  BY DEF Holding, Machine
<1> HIDE DEF s
<1>6. Pops(Push(m, v), 1) = m
  <2>1. 1 <= Len(Push(m, v).stack)
    BY ONLY <1>1, <1>2, <1>3
  <2>2. Pops(Push(m, v), 1) =
          Holding(Push(m, v), SubSeq(Push(m, v).stack, 1, Len(Push(m, v).stack) - 1))
    BY <1>2, <2>1, PopsIs
  <2> QED BY ONLY <1>3, <1>4, <1>5, <2>2
<1>7. ASSUME Len(m.stack) >= 1 PROVE Pops(Push(m, v), 2) = Pops(m, 1)
  <2>1. 2 <= Len(Push(m, v).stack)
    BY ONLY <1>1, <1>2, <1>3, <1>7
  <2>2. Pops(Push(m, v), 2) =
          Holding(Push(m, v), SubSeq(Push(m, v).stack, 1, Len(Push(m, v).stack) - 2))
    BY <1>2, <2>1, PopsIs
  <2>3. Pops(m, 1) = Holding(m, SubSeq(m.stack, 1, Len(m.stack) - 1))
    BY <1>7, PopsIs
  <2>4. PICK n \in Nat : n = Len(m.stack) /\ n >= 1 /\ n - 1 \in Nat
    BY <1>1, <1>7
  <2>5. Len(s) - 2 = n - 1 /\ Len(m.stack) - 1 = n - 1
    BY ONLY <1>2, <2>4
  <2>6. SubSeq(s, 1, n - 1) = SubSeq(m.stack, 1, n - 1)
    <3>1. \A i \in 1..n : s[i] = m.stack[i]
      BY <1>1, <2>4 DEF s
    <3>2. /\ SubSeq(s, 1, n - 1) \in Seq(Nat) /\ Len(SubSeq(s, 1, n - 1)) = n - 1
          /\ \A i \in 1..(n - 1) : SubSeq(s, 1, n - 1)[i] = s[i]
      BY ONLY <1>2, <2>4, <2>5, SMTT(30), ZenonT(30)
    <3>3. /\ SubSeq(m.stack, 1, n - 1) \in Seq(Nat) /\ Len(SubSeq(m.stack, 1, n - 1)) = n - 1
          /\ \A i \in 1..(n - 1) : SubSeq(m.stack, 1, n - 1)[i] = m.stack[i]
      BY ONLY <1>1, <2>4
    <3>4. \A i \in 1..(n - 1) : i \in 1..n
      BY ONLY <2>4
    <3> QED BY ONLY <3>1, <3>2, <3>3, <3>4, SeqEqual
  <2> QED BY ONLY <1>3, <2>2, <2>3, <2>5, <2>6
<1> QED BY <1>2, <1>3, <1>6, <1>7

LEMMA LocalFusion ==
  ASSUME NEW p \in Op, NEW q, FusesLocal(p, q), NEW m \in Machine,
         q.k = "Store" => Len(m.stack) >= 1
  PROVE  ExecuteLocalFused(Fused(p, q), m) = ExecutePlain(q, ExecutePlain(p, m))
<1>1. p.k = "LocalGet" /\ p.local \in DOMAIN uses.locals
  <2>1. p.k = "LocalGet"
    BY DEF FusesLocal
  <2>2. p \in [k : {"LocalGet", "LocalSet"}, local : DOMAIN uses.locals]
    BY <2>1 DEF Op, Jumps
  <2> QED BY <2>1, <2>2
<1> DEFINE f == Fused(p, q)
<1>2. f = FusedLocal(p, q)
  BY DEF Fused
<1>3. PICK x \in Nat : x = m.locals[p.local]
  BY <1>1 DEF Machine
<1>4. PICK z : z = Push(m, x)
  OBVIOUS
<1>5. ExecutePlain(p, m) = z
  BY ONLY <1>1, <1>3, <1>4 DEF ExecutePlain
<1>6. /\ Pops(z, 1) = m /\ z.locals = m.locals /\ Peek(z, 0) = x
      /\ Len(m.stack) >= 1 => Pops(z, 2) = Pops(m, 1) /\ Peek(z, 1) = Peek(m, 0)
  BY ONLY <1>3, <1>4, m \in Machine, PushThenPop, PushPop
<1>7. CASE q.k = "LocalSet"
  <2>1. f.k = "LocalGetLocalSet" /\ f.get = p.local /\ f.set = q.local
    BY <1>2, <1>7 DEF FusedLocal
  <2>2. ExecuteLocalFused(f, m) = [m EXCEPT !.locals[q.local] = x]
    BY ONLY <1>3, <2>1 DEF ExecuteLocalFused
  <2>3. ExecutePlain(q, z) = [m EXCEPT !.locals[q.local] = x]
    BY ONLY <1>6, <1>7 DEF ExecutePlain
  <2> QED BY ONLY <1>5, <2>2, <2>3
<1>8. CASE q.k = "LocalGet"
  <2>1. f.k = "LocalGet2" /\ f.a = p.local /\ f.b = q.local
    BY <1>2, <1>8 DEF FusedLocal
  <2>2. ExecuteLocalFused(f, m) = Push(z, m.locals[q.local])
    BY ONLY <1>3, <1>4, <2>1 DEF ExecuteLocalFused
  <2>3. ExecutePlain(q, z) = Push(z, m.locals[q.local])
    BY ONLY <1>6, <1>8 DEF ExecutePlain
  <2> QED BY ONLY <1>5, <2>2, <2>3
<1>9. CASE q.k = "Return"
  <2>1. f.k = "LocalGetReturn" /\ f.local = p.local
    BY <1>2, <1>9 DEF FusedLocal
  <2>2. ExecuteLocalFused(f, m) = DoReturn(z)
    BY ONLY <1>3, <1>4, <2>1 DEF ExecuteLocalFused
  <2>3. ExecutePlain(q, z) = DoReturn(z)
    BY ONLY <1>9 DEF ExecutePlain
  <2> QED BY ONLY <1>5, <2>2, <2>3
<1>10. CASE q.k = "Load"
  <2>1. f.k = "LocalGetLoad" /\ f.local = p.local
    BY <1>2, <1>10 DEF FusedLocal
  <2>2. ExecuteLocalFused(f, m) = LoadFrom(m, x)
    BY ONLY <1>3, <2>1 DEF ExecuteLocalFused
  <2>3. ExecutePlain(q, z) = LoadFrom(m, x)
    BY ONLY <1>6, <1>10 DEF ExecutePlain
  <2> QED BY ONLY <1>5, <2>2, <2>3
<1>11. CASE q.k = "Store"
  <2>1. f.k = "LocalGetStore" /\ f.local = p.local
    BY <1>2, <1>11 DEF FusedLocal
  <2>2. ExecuteLocalFused(f, m) = StoreTo(Pops(m, 1), Peek(m, 0), x)
    BY ONLY <1>3, <2>1 DEF ExecuteLocalFused
  <2>3. ExecutePlain(q, z) = StoreTo(Pops(m, 1), Peek(m, 0), x)
    <3>1. Pops(z, 2) = Pops(m, 1) /\ Peek(z, 1) = Peek(m, 0) /\ Peek(z, 0) = x
      BY <1>6, <1>11
    <3> QED BY ONLY <1>11, <3>1 DEF ExecutePlain
  <2> QED BY ONLY <1>5, <2>2, <2>3
<1> QED BY <1>7, <1>8, <1>9, <1>10, <1>11 DEF FusesLocal, Accesses

LEMMA JumpSame ==
  ASSUME NEW s, NEW t, NEW r, t.keep = r.keep, t.drop = r.drop, t.target = r.target
  PROVE  JumpTo(s, t) = JumpTo(s, r)
  BY DEF JumpTo

LEMMA BranchFusion ==
  ASSUME NEW u, NEW p \in Op, NEW q \in Op, Fuses(p, q), ~FusesLocal(p, q), NEW m \in Machine,
         Len(m.stack) >= IF p.k = "Compare" THEN 2 ELSE 1
  PROVE  ExecuteBranch(ResolveTargets(u, Fused(p, q)), m)
           = ExecutePlain(ResolveTargets(u, q), ExecutePlain(p, m))
<1>1. /\ p.k \in {"Compare", "EqZero"} /\ q.k \in {"JumpIf", "JumpIfNot"} /\ q.k \in Jumps
      /\ p.k = "Compare" => q.k = "JumpIf"
  BY DEF Fuses, FusesEqZero, FusesCompare, Jumps
<1>2. PICK r : r = ResolveTargets(u, q)
  OBVIOUS
<1>3. r.k = q.k /\ r.target = Position(u, q.target) /\ r.keep = q.keep /\ r.drop = q.drop
  BY <1>1, <1>2, ResolvedJump DEF Resolved
<1>4. PICK t : t = ResolveTargets(u, Fused(p, q))
  OBVIOUS
<1>5. /\ t.target = r.target /\ t.keep = r.keep /\ t.drop = r.drop
      /\ t.k = IF p.k = "Compare" THEN "CompareJumpIf"
               ELSE IF q.k = "JumpIf" THEN "EqZeroJumpIf" ELSE "EqZeroJumpIfNot"
      /\ p.k = "Compare" => t.cmp = p.cmp
  BY <1>1, <1>3, <1>4, ResolvedBranch
<1> DEFINE n == IF p.k = "Compare" THEN 2 ELSE 1
<1>6. n \in Nat /\ n <= Len(m.stack)
  OBVIOUS
<1>7. PICK c \in BOOLEAN :
        c <=> IF p.k = "Compare" THEN Related(p.cmp, Peek(m, 1), Peek(m, 0)) ELSE Peek(m, 0) = 0
  OBVIOUS
<1>8. PICK z : z = Pops(m, n)
  OBVIOUS
<1>9. z \in Machine
  BY <1>6, <1>8, PopsIs
<1>10. Flag(c) \in Nat /\ (Flag(c) = 0 <=> ~c)
  BY DEF Flag
<1>11. ExecutePlain(p, m) = Push(z, Flag(c))
  <2>1. CASE p.k = "Compare"
    <3>1. Flag(c) = Flag(Related(p.cmp, Peek(m, 1), Peek(m, 0)))
      BY <1>7, <2>1 DEF Flag
    <3> QED BY ONLY <1>8, <2>1, <3>1 DEF ExecutePlain
  <2>2. CASE p.k = "EqZero"
    <3>1. Flag(c) = Flag(Peek(m, 0) = 0)
      BY <1>7, <2>2 DEF Flag
    <3> QED BY ONLY <1>8, <2>2, <3>1 DEF ExecutePlain
  <2> QED BY <1>1, <2>1, <2>2
<1>12. PICK y : y = Push(z, Flag(c))
  OBVIOUS
<1>13. Pops(y, 1) = z /\ (Peek(y, 0) = 0 <=> ~c)
  BY <1>9, <1>10, <1>12, PushThenPop, PushPop
<1>14. JumpTo(z, t) = JumpTo(z, r)
  BY <1>5, JumpSame
<1>15. CASE p.k = "Compare"
  <2>1. ExecutePlain(r, y) = IF Peek(y, 0) # 0 THEN JumpTo(Pops(y, 1), r) ELSE Pops(y, 1)
    BY <1>1, <1>3, <1>15 DEF ExecutePlain, JumpWhen
  <2>2. ExecuteBranch(t, m) = IF Related(p.cmp, Peek(m, 1), Peek(m, 0)) THEN JumpTo(z, t) ELSE z
    BY <1>5, <1>8, <1>15 DEF ExecuteBranch, JumpWhen
  <2>3. Related(p.cmp, Peek(m, 1), Peek(m, 0)) <=> c
    BY <1>7, <1>15
  <2> QED BY ONLY <1>2, <1>4, <1>11, <1>12, <1>13, <1>14, <2>1, <2>2, <2>3
<1>16. CASE p.k = "EqZero" /\ q.k = "JumpIf"
  <2>1. ExecutePlain(r, y) = IF Peek(y, 0) # 0 THEN JumpTo(Pops(y, 1), r) ELSE Pops(y, 1)
    BY <1>3, <1>16 DEF ExecutePlain, JumpWhen
  <2>2. ExecuteBranch(t, m) = IF Peek(m, 0) = 0 THEN JumpTo(z, t) ELSE z
    BY <1>5, <1>8, <1>16 DEF ExecuteBranch, JumpWhen
  <2>3. Peek(m, 0) = 0 <=> c
    BY <1>7, <1>16
  <2> QED BY ONLY <1>2, <1>4, <1>11, <1>12, <1>13, <1>14, <2>1, <2>2, <2>3
<1>17. CASE p.k = "EqZero" /\ q.k = "JumpIfNot"
  <2>1. ExecutePlain(r, y) = IF Peek(y, 0) = 0 THEN JumpTo(Pops(y, 1), r) ELSE Pops(y, 1)
    BY <1>3, <1>17 DEF ExecutePlain, JumpWhen
  <2>2. ExecuteBranch(t, m) = IF Peek(m, 0) # 0 THEN JumpTo(z, t) ELSE z
    BY <1>5, <1>8, <1>17 DEF ExecuteBranch, JumpWhen
  <2>3. Peek(m, 0) = 0 <=> c
    BY <1>7, <1>17
  <2> QED BY ONLY <1>2, <1>4, <1>11, <1>12, <1>13, <1>14, <2>1, <2>2, <2>3
<1> QED BY <1>1, <1>15, <1>16, <1>17

LEMMA FirstRuns ==
  ASSUME NEW p \in Op, p.k \in {"LocalGet", "Compare", "EqZero"}, NEW m \in Machine,
         NEW b, NEW c, Moves(p, b, c), Len(m.stack) = b
  PROVE  ExecutePlain(p, m).status = m.status /\ ExecutePlain(p, m).pc = m.pc
<1>1. Len(m.stack) \in Nat
  BY StackTyped
<1>2. CASE p.k = "LocalGet"
  <2>1. ExecutePlain(p, m) = Push(m, m.locals[p.local])
    BY <1>2 DEF ExecutePlain
  <2>2. Push(m, m.locals[p.local]).status = m.status /\ Push(m, m.locals[p.local]).pc = m.pc
    BY DEF Push, Machine
  <2> QED BY <2>1, <2>2
<1>3. ASSUME NEW n \in Nat, n <= b, NEW f
      PROVE  Push(Pops(m, n), f).status = m.status /\ Push(Pops(m, n), f).pc = m.pc
  <2>1. PICK z : z = Pops(m, n)
    OBVIOUS
  <2>2. z \in Machine /\ z.status = m.status /\ z.pc = m.pc
    BY <1>3, <2>1, PopsIs DEF Holding
  <2>3. Push(z, f).status = z.status /\ Push(z, f).pc = z.pc
    BY <2>2 DEF Push, Machine
  <2> QED BY <2>1, <2>2, <2>3
<1>4. CASE p.k = "Compare"
  <2>1. ExecutePlain(p, m) = Push(Pops(m, 2), Flag(Related(p.cmp, Peek(m, 1), Peek(m, 0))))
    BY <1>4 DEF ExecutePlain
  <2>2. 2 <= b
    BY <1>4 DEF Moves
  <2> QED BY <1>3, <2>1, <2>2
<1>5. CASE p.k = "EqZero"
  <2>1. ExecutePlain(p, m) = Push(Pops(m, 1), Flag(Peek(m, 0) = 0))
    BY <1>5 DEF ExecutePlain
  <2>2. 1 <= b
    BY <1>5 DEF Moves
  <2> QED BY <1>3, <2>1, <2>2
<1> QED BY <1>2, <1>4, <1>5

LEMMA PairArrives ==
  ASSUME NEW u, NEW v, Located(u), Located(v), NEW m, NEW w, Twins(m, w), m.status = "running",
         NEW p \in Op, NEW q \in Op, Fuses(p, q), NEW b, NEW c, NEW a, Moves(p, b, c), Moves(q, c, a),
         Len(m.stack) = b, NEW x, NEW y,
         x = IF FusesLocal(p, q) THEN ExecuteLocalFused(Fused(p, q), m)
             ELSE ExecuteBranch(ResolveTargets(u, Fused(p, q)), m),
         y = ExecutePlain(ResolveTargets(v, q), Advanced(ExecutePlain(ResolveTargets(v, p), w)))
  PROVE  Arrives(u, v, q, x, y, m.pc, w.pc + 1, a)
<1>1. /\ p.k \in {"LocalGet", "Compare", "EqZero"} /\ ~IsLabel(p) /\ ~IsLabel(q)
      /\ ResolveTargets(u, p) = p /\ ResolveTargets(v, p) = p /\ m \in Machine
  <2>1. p.k \in {"LocalGet", "Compare", "EqZero"} /\ ~IsLabel(p) /\ ~IsLabel(q)
    BY DEF Fuses, FusesLocal, FusesEqZero, FusesCompare, Accesses, IsLabel
  <2>2. p.k \notin Jumps /\ p.k # "JumpTable"
        /\ p.k \notin {"CompareJumpIf", "EqZeroJumpIf", "EqZeroJumpIfNot"}
    BY <2>1 DEF Jumps
  <2> QED BY <2>1, <2>2, ResolvedOther, TwinsFields
<1>2. PICK f, g : f = ExecutePlain(p, m) /\ g = ExecutePlain(p, w)
  OBVIOUS
<1>3. Arrives(u, v, p, f, g, m.pc, w.pc, c)
  <2>1. Arrives(u, v, p, ExecutePlain(ResolveTargets(u, p), m),
                 ExecutePlain(ResolveTargets(v, p), w), m.pc, w.pc, c)
    BY <1>1, PlainArrives
  <2> QED BY ONLY <1>1, <1>2, <2>1
<1>4. f.status = "running"
  BY <1>1, <1>2, FirstRuns
<1>5. Twins(f, g) /\ f.pc = m.pc /\ g.pc = w.pc /\ Len(f.stack) = c
  <2>1. Targets(p) = {}
    BY <1>1 DEF Targets, Jumps
  <2> QED BY <1>3, <1>4, <2>1 DEF Arrives
<1>6. PICK h : h = Advanced(g)
  OBVIOUS
<1>7. Twins(f, h) /\ h.pc = w.pc + 1
  <2>1. /\ f \in Machine /\ g \in Machine /\ f.status = g.status /\ f.stack = g.stack
        /\ f.locals = g.locals /\ f.cell = g.cell
    BY <1>5, TwinsFields
  <2>2. /\ Advanced(g) = [status |-> g.status, pc |-> g.pc + 1, stack |-> g.stack,
                          locals |-> g.locals, cell |-> g.cell]
        /\ Advanced(g) \in Machine
    BY <2>1, AdvancedIs
  <2> QED BY ONLY <1>5, <1>6, <2>1, <2>2 DEF Twins
<1>8. Arrives(u, v, q, ExecutePlain(ResolveTargets(u, q), f), ExecutePlain(ResolveTargets(v, q), h),
              f.pc, h.pc, a)
  BY <1>1, <1>5, <1>7, PlainArrives
<1>9. x = ExecutePlain(ResolveTargets(u, q), f)
  <2>1. CASE FusesLocal(p, q)
    <3>1. ResolveTargets(u, q) = q
      <4>1. q.k \notin Jumps /\ q.k # "JumpTable"
            /\ q.k \notin {"CompareJumpIf", "EqZeroJumpIf", "EqZeroJumpIfNot"}
        BY <2>1 DEF FusesLocal, Accesses, Jumps
      <4> QED BY <4>1, ResolvedOther
    <3>2. q.k = "Store" => Len(m.stack) >= 1
      <4>1. p.k = "LocalGet"
        BY <2>1 DEF FusesLocal
      <4>2. c = b + 1 /\ (q.k = "Store" => c >= 2) /\ b \in Int
        BY <4>1 DEF Moves
      <4> QED BY ONLY <4>2, Len(m.stack) = b
    <3>3. ExecuteLocalFused(Fused(p, q), m) = ExecutePlain(q, ExecutePlain(p, m))
      BY <1>1, <2>1, <3>2, LocalFusion
    <3> QED BY <1>2, <2>1, <3>1, <3>3
  <2>2. CASE ~FusesLocal(p, q)
    <3>1. Len(m.stack) >= IF p.k = "Compare" THEN 2 ELSE 1
      <4>1. p.k \in {"Compare", "EqZero"}
        BY <2>2 DEF Fuses, FusesEqZero, FusesCompare
      <4> QED BY <4>1 DEF Moves
    <3>2. ExecuteBranch(ResolveTargets(u, Fused(p, q)), m)
            = ExecutePlain(ResolveTargets(u, q), ExecutePlain(p, m))
      BY <1>1, <2>2, <3>1, BranchFusion
    <3> QED BY <1>2, <2>2, <3>2
  <2> QED BY <2>1, <2>2
<1>10. y = ExecutePlain(ResolveTargets(v, q), h)
  BY <1>1, <1>2, <1>6
<1> QED BY ONLY <1>5, <1>7, <1>8, <1>9, <1>10
----------------------------------------------------------------------------
(***************************************************************************)
(* The invariant: a body has a height before and after each op, and the    *)
(* machines, while they run, stand at an op that leads, with the operands  *)
(* of that place.                                                          *)
(***************************************************************************)
Height(ty) == IF ty = Dead THEN -1 ELSE Len(ty)

Heights(s, h) ==
  /\ h \in [0..Len(s) -> Int] /\ h[0] = Len(uses.args)
  /\ \A i \in 1..Len(s) : Moves(s[i], h[i - 1], h[i])

LabelsOnce(s) ==
  \A i, j \in 1..Len(s) : IsLabel(s[i]) /\ IsLabel(s[j]) /\ s[i].label = s[j].label => i = j

Written ==
  /\ uses \in Repertoires /\ (types = Dead \/ types \in Seq(Types))
  /\ source \in Seq(Op) /\ LabelsOnce(source)
  /\ \E h : Heights(source, h) /\ h[Len(source)] = Height(types)

At(s, h, x, y) ==
  \E j \in Proper(s) :
    /\ Leads(s, j) /\ x.pc = CodePlace(s, j - 1) /\ y.pc = PlainPlace(s, j - 1)
    /\ Len(x.stack) = h[j - 1]

Whole(s) ==
  /\ s # <<>> /\ Last(s).k = "Return"
  /\ \A l \in LiveLabels(s) : \E i \in 1..Len(s) : IsLabel(s[i]) /\ s[i].label = l

Together ==
  machine.status = "running" =>
    /\ code = Assemble(Merging(source)) /\ code # <<>> /\ plain = Assemble(source)
    /\ Whole(source) /\ Twins(machine, twin)
    /\ \E h : Heights(source, h) /\ At(source, h, machine, twin)

Same == [machine EXCEPT !.pc = 0] = [twin EXCEPT !.pc = 0]

Invariant == Written /\ Same /\ Together

\* A run of labels does not change the height.
LEMMA HeightsBetween ==
  ASSUME NEW s \in Seq(Op), NEW h, Heights(s, h), NEW i \in 0..Len(s), NEW j \in 1..Len(s), i < j,
         NoneBetween(s, i, j), h[i] >= 0
  PROVE  h[j - 1] = h[i]
<1> DEFINE n == j - 1 - i
           T == {d \in 0..n : h[i + d] = h[i]}
<1>0. n \in Nat /\ n \in 0..n /\ i + n = j - 1 /\ 0 \in 0..n /\ i \in Nat
  OBVIOUS
<1>1. 0 \in T
  <2>1. i + 0 = i
    OBVIOUS
  <2> QED BY <1>0, <2>1
<1>2. ASSUME NEW d \in 0..(n - 1), d \in T PROVE d + 1 \in T
  <2>1. i + (d + 1) \in 1..Len(s) /\ (i + (d + 1)) - 1 = i + d /\ i < i + (d + 1) /\ i + (d + 1) < j
    OBVIOUS
  <2>2. i + (d + 1) \notin Proper(s)
    BY <2>1 DEF NoneBetween
  <2>3. s[i + (d + 1)].k = "Label"
    BY <2>1, <2>2 DEF Proper, IsLabel
  <2>4. Moves(s[i + (d + 1)], h[i + d], h[i + (d + 1)])
    BY <2>1 DEF Heights
  <2>5. h[i + d] >= 0
    BY <1>2
  <2>6. h[i + (d + 1)] = h[i + d]
    BY ONLY <2>3, <2>4, <2>5 DEF Moves
  <2>7. d + 1 \in 0..n
    OBVIOUS
  <2> QED BY <1>2, <2>6, <2>7
<1> HIDE DEF T, n
<1>3. n \in T
  BY <1>0, <1>1, <1>2, UpTo
<1> QED BY <1>0, <1>3 DEF T

\* From a place behind an op or a label, or from the start, the next op leads.
LEMMA Onwards ==
  ASSUME NEW s \in Seq(Op), NEW h, Heights(s, h), Whole(s), NEW i \in 0..Len(s), i # Len(s), h[i] >= 0,
         i = 0 \/ i \in Live(s), ~(Leads(s, i) /\ Wide(s, i)), NEW x, NEW y,
         x.pc = CodePlace(s, i), y.pc = PlainPlace(s, i), Len(x.stack) = h[i]
  PROVE  At(s, h, x, y)
<1>1. Len(s) \in Proper(s) /\ i < Len(s)
  <2>1. Len(s) \in Nat /\ Len(s) # 0 /\ DOMAIN s = 1..Len(s)
    BY DEF Whole
  <2>2. s[Len(s)].k = "Return"
    BY DEF Whole, Last
  <2> QED BY <2>1, <2>2 DEF Proper, IsLabel
<1>2. PICK j \in Proper(s) : NextOp(s, i, j)
  BY <1>1, NextExists
<1>3. Leads(s, j)
  BY <1>2, HeadNext
<1>4. j \in 1..Len(s) /\ i < j /\ NoneBetween(s, i, j)
  BY <1>2 DEF NextOp, Proper
<1>5. CodePlace(s, j - 1) = CodePlace(s, i) /\ PlainPlace(s, j - 1) = PlainPlace(s, i)
  BY <1>4, PlacesBetween
<1>6. h[j - 1] = h[i]
  BY <1>4, HeightsBetween
<1> QED BY <1>3, <1>5, <1>6 DEF At

LEMMA TargetsLive ==
  ASSUME NEW s \in Seq(Op), NEW j \in 1..Len(s), NEW l \in Targets(s[j])
  PROVE  l \in LiveLabels(s)
<1>1. CASE s[j].k \in Jumps
  BY <1>1 DEF Targets, LiveLabels
<1>2. CASE s[j].k = "JumpTable"
  <2>1. s[j].k \notin Jumps
    BY <1>2 DEF Jumps
  <2>2. PICK e \in DOMAIN s[j].entries : l = s[j].entries[e].target
    BY <1>2, <2>1 DEF Targets
  <2>3. s[j].entries[e] \in ToSet(s[j].entries)
    BY DEF ToSet
  <2>4. l \in {f.target : f \in ToSet(s[j].entries)}
    BY <2>2, <2>3
  <2>5. j \in {i \in DOMAIN s : s[i].k = "JumpTable"}
    BY <1>2
  <2> QED BY <2>4, <2>5 DEF LiveLabels
<1>3. CASE s[j].k \notin Jumps /\ s[j].k # "JumpTable"
  BY <1>3 DEF Targets
<1> QED BY <1>1, <1>2, <1>3

\* Behind an op that is not merged with the next, two machines are together again.
LEMMA Arrived ==
  ASSUME NEW s \in Seq(Op), LabelsOnce(s), NEW h, Heights(s, h), Whole(s), NEW j \in Proper(s),
         ~(Leads(s, j) /\ Wide(s, j)), NEW x, NEW y, x.status = "running",
         Arrives(Merging(s), s, s[j], x, y, CodePlace(s, j), PlainPlace(s, j), h[j])
  PROVE  At(s, h, x, y)
<1>1. /\ Len(s) \in Nat /\ Len(s) # 0 /\ DOMAIN s = 1..Len(s) /\ j \in 1..Len(s)
      /\ s[Len(s)].k = "Return"
  BY DEF Whole, Last, Proper
<1>2. CASE h[j] >= 0 /\ x.pc = CodePlace(s, j) /\ y.pc = PlainPlace(s, j) /\ Len(x.stack) = h[j]
  <2>1. j # Len(s)
    <3>1. Moves(s[j], h[j - 1], h[j])
      BY <1>1 DEF Heights
    <3>2. s[j].k = "Return" => h[j] = -1
      BY <3>1 DEF Moves
    <3> QED BY <1>1, <1>2, <3>2
  <2>2. j \in Live(s) /\ j \in 0..Len(s)
    BY <1>1 DEF Proper, Live
  <2> QED BY <1>2, <2>1, <2>2, Onwards
<1>3. ASSUME NEW l \in Targets(s[j]), x.pc = Position(Merging(s), l), y.pc = Position(s, l),
             Len(x.stack) = Arity(l)
      PROVE  At(s, h, x, y)
  <2>1. l \in LiveLabels(s)
    BY <1>1, TargetsLive
  <2>2. PICK p \in 1..Len(s) : IsLabel(s[p]) /\ s[p].label = l
    BY <2>1 DEF Whole
  <2>3. p \in Live(s) /\ p \in 0..Len(s) /\ p # Len(s) /\ ~Leads(s, p)
    BY <1>1, <2>1, <2>2 DEF Live, IsLabel, Leads, Proper
  <2>4. \A i \in 1..Len(s) : IsLabel(s[i]) /\ s[i].label = s[p].label => i = p
    BY <2>2 DEF LabelsOnce
  <2>5. x.pc = CodePlace(s, p) /\ y.pc = PlainPlace(s, p)
    BY <1>3, <2>2, <2>3, <2>4, LabelPlaced
  <2>6. h[p] = Arity(l)
    <3>1. Moves(s[p], h[p - 1], h[p])
      BY DEF Heights
    <3> QED BY <2>2, <3>1 DEF Moves, IsLabel
  <2>7. h[p] >= 0
    <3>1. Len(x.stack) \in Nat
      BY TwinsFields DEF Arrives
    <3> QED BY <1>3, <2>6, <3>1
  <2> QED BY <1>3, <2>3, <2>5, <2>6, <2>7, Onwards
<1> QED BY <1>2, <1>3 DEF Arrives
----------------------------------------------------------------------------
(***************************************************************************)
(* One step of the fused code, and the plain ops it stands for.            *)
(***************************************************************************)
LEMMA PositionsLocated ==
  ASSUME NEW S, NEW s \in Seq(S)
  PROVE  Located(s)
<1> SUFFICES ASSUME NEW l PROVE Position(s, l) \in Nat
  BY DEF Located
<1> DEFINE P == {j \in Proper(s) : \E i \in LabelAt(s, l) : j < i}
<1>1. P \in SUBSET (1..Len(s)) /\ Len(s) \in Nat
  BY DEF Proper
<1>2. Cardinality(P) \in Nat
  <2> HIDE DEF P
  <2> QED BY <1>1, RankTyped
<1> QED BY <1>2 DEF Position

LEMMA Narrow ==
  ASSUME NEW ops, NEW z, Width(ops[z.pc + 1]) = 1
  PROVE  Execute(ops, z) = ExecutePlain(ops[z.pc + 1], Advanced(z))
<1>1. ops[z.pc + 1].k \notin LocalFused /\ ops[z.pc + 1].k \notin BranchFused
  BY DEF Width
<1> QED BY <1>1 DEF Execute, Advanced

LEMMA Broad ==
  ASSUME NEW ops, NEW z, NEW u, NEW p \in Op, NEW q \in Op, Fuses(p, q),
         ops[z.pc + 1] = ResolveTargets(u, Fused(p, q))
  PROVE  Execute(ops, z) =
           IF FusesLocal(p, q) THEN ExecuteLocalFused(Fused(p, q), Advanced(z))
           ELSE ExecuteBranch(ResolveTargets(u, Fused(p, q)), Advanced(z))
<1> DEFINE r == ResolveTargets(u, Fused(p, q))
<1>1. CASE FusesLocal(p, q)
  <2>1. r.k \in LocalFused /\ r = Fused(p, q)
    BY <1>1, ResolvedLocal
  <2> HIDE DEF r
  <2>2. ops[z.pc + 1] = r
    BY DEF r
  <2> QED BY <1>1, <2>1, <2>2 DEF Execute, Advanced
<1>2. CASE ~FusesLocal(p, q)
  <2>1. r.k \in BranchFused
    BY <1>2, ResolvedBranch DEF BranchFused
  <2>2. r.k \notin LocalFused
    BY <2>1 DEF BranchFused, LocalFused
  <2> HIDE DEF r
  <2>3. ops[z.pc + 1] = r
    BY DEF r
  <2> QED BY <1>2, <2>1, <2>2, <2>3 DEF Execute, Advanced, r
<1> QED BY <1>1, <1>2

LEMMA StepArrives ==
  ASSUME source \in Seq(Op), LabelsOnce(source), Whole(source), NEW h, Heights(source, h),
         code = Assemble(Merging(source)), plain = Assemble(source),
         NEW m, NEW w, Twins(m, w), m.status = "running", NEW i \in Proper(source), Leads(source, i),
         m.pc = CodePlace(source, i - 1), w.pc = PlainPlace(source, i - 1), Len(m.stack) = h[i - 1],
         NEW x, NEW y, x = Execute(code, m),
         y = IF Width(code[m.pc + 1]) = 1 THEN Execute(plain, w) ELSE Execute(plain, Execute(plain, w))
  PROVE  Twins(x, y) /\ (x.status = "running" => At(source, h, x, y))
<1> DEFINE u == Merging(source)
           p == source[i]
<1>1. Located(u) /\ Located(source) /\ i \in 1..Len(source) /\ p \in Op /\ ~IsLabel(p)
  <2>1. PICK X : u \in Seq(X)
    BY PlacesTyped
  <2> QED BY <2>1, PositionsLocated DEF Proper
<1>2. /\ m.pc + 1 = CodePlace(source, i) /\ w.pc + 1 = PlainPlace(source, i)
  BY <1>1, PlacesNext
<1>3. Moves(p, h[i - 1], h[i])
  BY <1>1 DEF Heights
<1>4. plain[w.pc + 1] = ResolveTargets(source, p)
  BY <1>2, OpsAt
<1>5. \A z \in Op : Width(ResolveTargets(source, z)) = 1
  BY Widths
<1>6. /\ Twins(Advanced(m), Advanced(w)) /\ Advanced(m).status = "running"
      /\ Advanced(m).pc = CodePlace(source, i) /\ Advanced(w).pc = PlainPlace(source, i)
      /\ Len(Advanced(m).stack) = h[i - 1]
  BY <1>2, BothAdvance
<1>7. Execute(plain, w) = ExecutePlain(ResolveTargets(source, p), Advanced(w))
  <2>1. Width(plain[w.pc + 1]) = 1
    BY <1>1, <1>4, <1>5
  <2> QED BY <1>4, <2>1, Narrow
<1> SUFFICES \E j \in Proper(source) :
               /\ ~(Leads(source, j) /\ Wide(source, j))
               /\ Arrives(u, source, source[j], x, y, CodePlace(source, j), PlainPlace(source, j), h[j])
  BY Arrived DEF Arrives
<1>8. CASE ~Wide(source, i)
  <2>1. code[m.pc + 1] = ResolveTargets(u, p) /\ Width(code[m.pc + 1]) = 1
    BY <1>2, <1>8, WidthAt
  <2>2. x = ExecutePlain(ResolveTargets(u, p), Advanced(m))
    BY <2>1, Narrow
  <2>3. y = ExecutePlain(ResolveTargets(source, p), Advanced(w))
    BY <1>7, <2>1
  <2> HIDE DEF u, p
  <2>4. Arrives(u, source, p, ExecutePlain(ResolveTargets(u, p), Advanced(m)),
                ExecutePlain(ResolveTargets(source, p), Advanced(w)),
                Advanced(m).pc, Advanced(w).pc, h[i])
    BY <1>1, <1>3, <1>6, PlainArrives
  <2>5. Arrives(u, source, p, x, y, CodePlace(source, i), PlainPlace(source, i), h[i])
    BY ONLY <1>6, <2>2, <2>3, <2>4
  <2> QED BY <1>8, <2>5 DEF p
<1>9. CASE Wide(source, i)
  <2>1. PICK j \in Proper(source) :
          /\ NextOp(source, i, j) /\ Fuses(p, source[j]) /\ ~Leads(source, j)
          /\ Merged(Stripped(source))[Place(source, i)] = Fused(p, source[j])
    BY <1>9, WideNext
  <2> DEFINE q == source[j]
  <2>2. j \in 1..Len(source) /\ q \in Op /\ i < j /\ NoneBetween(source, i, j) /\ i \in 0..Len(source)
    BY <1>1, <2>1 DEF Proper, NextOp
  <2>3. code[m.pc + 1] = ResolveTargets(u, Fused(p, q)) /\ Width(code[m.pc + 1]) = 2
    BY <1>2, <1>9, <2>1, WidthAt
  <2>4. /\ CodePlace(source, j) = CodePlace(source, i)
        /\ PlainPlace(source, j) = PlainPlace(source, i) + 1
    <3>1. CodePlace(source, j - 1) = CodePlace(source, i) /\ PlainPlace(source, j - 1) = PlainPlace(source, i)
      BY <2>2, PlacesBetween
    <3>2. CodePlace(source, j) = CodePlace(source, j - 1)
          /\ PlainPlace(source, j) = PlainPlace(source, j - 1) + 1
      BY <2>1, <2>2, PlacesNext
    <3> QED BY <3>1, <3>2
  <2>5. Moves(q, h[i], h[j])
    <3>1. h[i] >= 0
      <4>1. p.k \in {"LocalGet", "Compare", "EqZero"}
        BY <2>1 DEF Fuses, FusesLocal, FusesEqZero, FusesCompare
      <4> QED BY <1>3, <4>1 DEF Moves
    <3>2. h[j - 1] = h[i]
      BY <2>2, <3>1, HeightsBetween
    <3>3. Moves(q, h[j - 1], h[j])
      BY <2>2 DEF Heights
    <3> QED BY <3>2, <3>3
  <2>6. PICK z : z = Execute(plain, w)
    OBVIOUS
  <2>7. z = ExecutePlain(p, Advanced(w)) /\ ResolveTargets(source, p) = p
    <3>1. p.k \notin Jumps /\ p.k # "JumpTable"
          /\ p.k \notin {"CompareJumpIf", "EqZeroJumpIf", "EqZeroJumpIfNot"}
      BY <2>1 DEF Fuses, FusesLocal, FusesEqZero, FusesCompare, Jumps
    <3> QED BY <1>7, <2>6, <3>1, ResolvedOther
  <2>8. z.pc = PlainPlace(source, i)
    <3>1. p.k \in {"LocalGet", "Compare", "EqZero"}
      BY <2>1 DEF Fuses, FusesLocal, FusesEqZero, FusesCompare
    <3>2. Advanced(w) \in Machine /\ Len(Advanced(w).stack) = h[i - 1]
      BY <1>6, TwinsFields
    <3>3. ExecutePlain(p, Advanced(w)).pc = Advanced(w).pc
      BY <1>1, <1>3, <3>1, <3>2, FirstRuns
    <3> QED BY <1>6, <2>7, <3>3
  <2>9. y = ExecutePlain(ResolveTargets(source, q), Advanced(ExecutePlain(ResolveTargets(source, p), Advanced(w))))
    <3>1. plain[z.pc + 1] = ResolveTargets(source, q)
      BY <2>1, <2>4, <2>8, OpsAt
    <3>2. Width(plain[z.pc + 1]) = 1
      BY <1>5, <2>2, <3>1
    <3>3. Execute(plain, z) = ExecutePlain(ResolveTargets(source, q), Advanced(z))
      BY <3>1, <3>2, Narrow
    <3> QED BY <2>3, <2>6, <2>7, <3>3
  <2>10. x = IF FusesLocal(p, q) THEN ExecuteLocalFused(Fused(p, q), Advanced(m))
             ELSE ExecuteBranch(ResolveTargets(u, Fused(p, q)), Advanced(m))
    <3> HIDE DEF u, p, q
    <3>1. Execute(code, m) =
            IF FusesLocal(p, q) THEN ExecuteLocalFused(Fused(p, q), Advanced(m))
            ELSE ExecuteBranch(ResolveTargets(u, Fused(p, q)), Advanced(m))
      <4>1. Fuses(p, q)
        BY <2>1 DEF p, q
      <4> QED BY ONLY <1>1, <2>2, <2>3, <4>1, Broad
    <3> QED BY ONLY <3>1, x = Execute(code, m)
  <2> HIDE DEF u, p, q
  <2>11. Arrives(u, source, q, x, y, Advanced(m).pc, Advanced(w).pc + 1, h[j])
    BY <1>1, <1>3, <1>6, <2>1, <2>2, <2>5, <2>9, <2>10, PairArrives DEF p, q
  <2>12. Arrives(u, source, q, x, y, CodePlace(source, j), PlainPlace(source, j), h[j])
    BY ONLY <1>6, <2>4, <2>11
  <2> QED BY <2>1, <2>12 DEF q
<1> QED BY <1>8, <1>9
----------------------------------------------------------------------------
(***************************************************************************)
(* Each op emitted continues a body that has heights.                      *)
(***************************************************************************)
LEMMA UsesTyped ==
  ASSUME RepertoiresAssumption, uses \in Repertoires
  PROVE  /\ uses.args \in Seq(Types) /\ uses.locals \in Seq(Types)
         /\ uses.labels \in Seq(Seq(Types)) /\ uses.type \in Types /\ uses.result \in Types
         /\ uses.values \in SUBSET Nat
         /\ \A l \in Labels : uses.labels[l] \in Seq(Types) /\ Arity(l) \in Nat
<1>1. /\ uses.args \in Seq(Types) /\ uses.locals \in Seq(Types)
      /\ uses.labels \in Seq(Seq(Types)) /\ uses.type \in Types /\ uses.result \in Types
      /\ uses.values \in SUBSET Nat
  BY DEF RepertoiresAssumption
<1>2. \A l \in Labels : uses.labels[l] \in Seq(Types)
  BY <1>1 DEF Labels
<1> QED BY <1>1, <1>2 DEF Arity

LEMMA NeverDead == \A s \in Seq(Types) : s # Dead /\ Height(s) = Len(s) /\ Len(s) \in Nat
<1> SUFFICES ASSUME NEW s \in Seq(Types) PROVE s # Dead
  BY DEF Height
<1>1. ASSUME s = <<"dead">> PROVE FALSE
  <2>1. Len(s) = 1 /\ s[1] = "dead"
    BY <1>1
  <2>2. s[1] \in Types
    BY <2>1
  <2> QED BY <2>1, <2>2 DEF Types
<1> QED BY <1>1 DEF Dead

LEMMA SuffixLen ==
  ASSUME NEW s \in Seq(Types), NEW t \in Seq(Types), IsSuffix(s, t)
  PROVE  Len(s) <= Len(t)
<1>1. \A r \in Seq(Types) : Len(Reverse(r)) = Len(r)
  <2> SUFFICES ASSUME NEW r \in Seq(Types) PROVE Len(Reverse(r)) = Len(r)
    OBVIOUS
  <2>1. Reverse(r) \in [1..Len(r) -> Types] /\ Len(r) \in Nat
    BY DEF Reverse
  <2> QED BY <2>1
<1>2. Len(Reverse(s)) <= Len(Reverse(t))
  BY DEF IsSuffix, IsPrefix
<1> QED BY <1>1, <1>2

\* What depends on the repertoire stays with it.
LEMMA Frame ==
  ASSUME uses' = uses
  PROVE  /\ Op' = Op /\ Machine' = Machine
         /\ \A s, h : Heights(s, h)' <=> Heights(s, h)
         /\ \A x, y : Twins(x, y)' <=> Twins(x, y)
<1>1. Labels' = Labels
  BY DEF Labels
<1>2. Op' = Op
  BY <1>1 DEF Op, Entry, Comparisons
<1>3. Machine' = Machine
  BY DEF Machine
<1>4. \A s, h : Heights(s, h)' <=> Heights(s, h)
  BY DEF Heights, Moves, Leaves, Arity
<1>5. \A x, y : Twins(x, y)' <=> Twins(x, y)
  BY <1>3 DEF Twins
<1> QED BY <1>2, <1>3, <1>4, <1>5

\* Only a machine with code runs.
LEMMA EmitKeeps ==
  ASSUME Invariant, code = <<>>, NEW op \in Op, NEW after, Emit(op, after),
         after = Dead \/ after \in Seq(Types), Moves(op, Height(types), Height(after)),
         IsLabel(op) => ~Emitted(op.label)
  PROVE  Invariant'
<1>1. /\ uses' = uses /\ source' = Append(source, op) /\ types' = after /\ code' = code
      /\ plain' = plain /\ machine' = machine /\ twin' = twin
  BY DEF Emit
<1>2. machine.status # "running"
  BY DEF Invariant, Together
<1>3. Same' /\ Together'
  BY <1>1, <1>2 DEF Invariant, Same, Together
<1>4. source \in Seq(Op) /\ LabelsOnce(source) /\ uses \in Repertoires
  BY DEF Invariant, Written
<1> DEFINE n == Len(source)
           s == Append(source, op)
<1>5. /\ n \in Nat /\ s \in Seq(Op) /\ Len(s) = n + 1 /\ s[n + 1] = op
      /\ \A i \in 1..n : s[i] = source[i]
  BY <1>4, AppendProperties
<1>6. PICK h : Heights(source, h) /\ h[n] = Height(types)
  BY DEF Invariant, Written
<1> DEFINE g == [i \in 0..(n + 1) |-> IF i <= n THEN h[i] ELSE Height(after)]
<1>7. Heights(s, g) /\ g[Len(s)] = Height(after)
  <2>1. h \in [0..n -> Int] /\ h[0] = Len(uses.args) /\ \A i \in 1..n : Moves(source[i], h[i - 1], h[i])
    BY <1>6 DEF Heights
  <2>2. Height(after) \in Int
    BY NeverDead DEF Height
  <2>3. g \in [0..(n + 1) -> Int] /\ g[n + 1] = Height(after) /\ \A i \in 0..n : g[i] = h[i]
    BY <1>5, <2>1, <2>2
  <2> HIDE DEF g, s, n
  <2>4. ASSUME NEW i \in 1..(n + 1) PROVE Moves(s[i], g[i - 1], g[i])
    <3>1. CASE i = n + 1
      <4>1. s[i] = op /\ g[i - 1] = Height(types) /\ g[i] = Height(after)
        BY <1>5, <1>6, <2>3, <3>1
      <4> QED BY ONLY <4>1, Moves(op, Height(types), Height(after))
    <3>2. CASE i # n + 1
      <4>1. i \in 1..n /\ i - 1 \in 0..n /\ i \in 0..n
        BY <1>5, <3>2
      <4>2. s[i] = source[i] /\ g[i - 1] = h[i - 1] /\ g[i] = h[i]
        BY ONLY <1>5, <2>3, <4>1
      <4> QED BY ONLY <2>1, <4>1, <4>2
    <3> QED BY <3>1, <3>2
  <2>5. g[0] = Len(uses.args)
    BY <1>5, <2>1, <2>3
  <2> QED BY ONLY <1>5, <2>3, <2>4, <2>5 DEF Heights
<1>8. LabelsOnce(s)
  <2> SUFFICES ASSUME NEW i \in 1..(n + 1), NEW j \in 1..(n + 1), IsLabel(s[i]), IsLabel(s[j]),
                      s[i].label = s[j].label
               PROVE  i = j
    BY <1>5 DEF LabelsOnce
  <2>1. ASSUME NEW k \in 1..(n + 1), k # n + 1, IsLabel(s[k]), IsLabel(op), s[k].label = op.label
        PROVE  FALSE
    <3>1. k \in 1..n /\ s[k] = source[k]
      BY <1>5, <2>1
    <3>2. Emitted(op.label)
      BY <1>4, <2>1, <3>1 DEF Emitted
    <3> QED BY <2>1, <3>2
  <2>2. CASE i = n + 1
    BY <1>5, <2>1, <2>2
  <2>3. CASE j = n + 1
    BY <1>5, <2>1, <2>3
  <2>4. CASE i # n + 1 /\ j # n + 1
    <3>1. i \in 1..n /\ j \in 1..n /\ s[i] = source[i] /\ s[j] = source[j]
      BY <1>5, <2>4
    <3> QED BY <1>4, <3>1 DEF LabelsOnce
  <2> QED BY <2>2, <2>3, <2>4
<1>9. Written'
  <2> HIDE DEF g, s, n
  <2>1. PICK r, f : r = s /\ f = g
    OBVIOUS
  <2>2. source' = r /\ types' = after
    BY <1>1, <2>1 DEF s
  <2>3. Op' = Op /\ (Heights(r, f)' <=> Heights(r, f))
    BY <1>1, Frame
  <2>4. uses' \in Repertoires /\ (types' = Dead \/ types' \in Seq(Types))
    BY <1>1, <1>4
  <2>5. source' \in Seq(Op')
    BY <1>5, <2>1, <2>2, <2>3
  <2>6. LabelsOnce(r)
    BY <1>8, <2>1
  <2>7. LabelsOnce(source)'
    BY ONLY <2>2, <2>6 DEF LabelsOnce
  <2>8. Heights(r, f)' /\ f[Len(r)] = Height(after)
    BY <1>7, <2>1, <2>3
  <2>9. Heights(source, f)'
    BY ONLY <2>2, <2>8 DEF Heights
  <2>10. (f[Len(source)] = Height(types))'
    BY ONLY <2>2, <2>8 DEF Height
  <2> QED BY <2>4, <2>5, <2>7, <2>9, <2>10 DEF Written
<1> QED BY <1>3, <1>9 DEF Invariant
LEMMA EndsLen ==
  ASSUME types \in Seq(Types)
  PROVE  /\ \A t \in Types : Ends(<<t>>) => Len(types) >= 1
         /\ \A t, r \in Types : Ends(<<t, r>>) => Len(types) >= 2
<1>1. ASSUME NEW t \in Types, Ends(<<t>>) PROVE Len(types) >= 1
  <2>1. <<t>> \in Seq(Types) /\ Len(<<t>>) = 1
    OBVIOUS
  <2>2. Len(<<t>>) <= Len(types)
    BY <1>1, <2>1, SuffixLen DEF Ends
  <2> QED BY <2>1, <2>2
<1>2. ASSUME NEW t \in Types, NEW r \in Types, Ends(<<t, r>>) PROVE Len(types) >= 2
  <2>1. <<t, r>> \in Seq(Types) /\ Len(<<t, r>>) = 2
    OBVIOUS
  <2>2. Len(<<t, r>>) <= Len(types)
    BY <1>2, <2>1, SuffixLen DEF Ends
  <2> QED BY <2>1, <2>2
<1> QED BY <1>1, <1>2

LEMMA Grown ==
  ASSUME NEW s \in Seq(Types), NEW t \in Types
  PROVE  /\ Append(s, t) \in Seq(Types) /\ Len(s) \in Nat /\ Height(s) = Len(s)
         /\ Height(Append(s, t)) = Len(s) + 1
<1>1. Append(s, t) \in Seq(Types) /\ Len(Append(s, t)) = Len(s) + 1
  BY AppendProperties
<1> QED BY <1>1, NeverDead

LEMMA BelowIs ==
  ASSUME types \in Seq(Types), NEW n \in Nat, n <= Len(types)
  PROVE  /\ Below(n) \in Seq(Types) /\ Len(types) \in Nat /\ Height(types) = Len(types)
         /\ Len(Below(n)) = Len(types) - n /\ Height(Below(n)) = Len(types) - n
<1>1. Len(types) \in Nat
  OBVIOUS
<1>2. SubSeq(types, 1, Len(types) - n) \in Seq(Types) /\ Len(SubSeq(types, 1, Len(types) - n)) = Len(types) - n
  BY <1>1
<1>3. Below(n) \in Seq(Types) /\ Len(Below(n)) = Len(types) - n
  BY <1>2 DEF Below
<1> QED BY <1>3, NeverDead

LEMMA EmitLocalKeeps == RepertoiresAssumption /\ Invariant /\ EmitLocal => Invariant'
<1> SUFFICES ASSUME RepertoiresAssumption, Invariant, EmitLocal PROVE Invariant'
  OBVIOUS
<1>1. uses \in Repertoires /\ (types = Dead \/ types \in Seq(Types))
  BY DEF Invariant, Written
<1>2. uses.locals \in Seq(Types)
  BY <1>1, UsesTyped
<1>3. PICK l \in DOMAIN uses.locals :
        \/ /\ May("LocalGet")
           /\ Emit([k |-> "LocalGet", local |-> l], Append(types, uses.locals[l]))
        \/ /\ May("LocalSet") /\ Ends(<<uses.locals[l]>>)
           /\ Emit([k |-> "LocalSet", local |-> l], Below(1))
  BY DEF EmitLocal
<1>4. uses.locals[l] \in Types /\ types \in Seq(Types) /\ code = <<>>
  BY <1>1, <1>2, <1>3 DEF May, Writing
<1>5. CASE May("LocalGet") /\ Emit([k |-> "LocalGet", local |-> l], Append(types, uses.locals[l]))
  <2> DEFINE op == [k |-> "LocalGet", local |-> l]
             after == Append(types, uses.locals[l])
  <2>1. op \in Op /\ op.k = "LocalGet"
    BY DEF Op
  <2>2. /\ after \in Seq(Types) /\ Len(types) \in Nat
        /\ Height(types) = Len(types) /\ Height(after) = Len(types) + 1
    BY <1>4, Grown
  <2>3. Emit(op, after)
    BY <1>5
  <2> HIDE DEF op, after
  <2>4. Moves(op, Height(types), Height(after)) /\ ~IsLabel(op)
    BY <2>1, <2>2 DEF Moves, IsLabel, Jumps
  <2> QED BY <1>4, <2>1, <2>2, <2>3, <2>4, EmitKeeps
<1>6. CASE /\ May("LocalSet") /\ Ends(<<uses.locals[l]>>)
           /\ Emit([k |-> "LocalSet", local |-> l], Below(1))
  <2> DEFINE op == [k |-> "LocalSet", local |-> l]
             after == Below(1)
  <2>1. op \in Op /\ op.k = "LocalSet"
    BY DEF Op
  <2>2. 1 <= Len(types)
    BY <1>4, <1>6, EndsLen
  <2>3. /\ after \in Seq(Types) /\ Len(types) \in Nat
        /\ Height(types) = Len(types) /\ Height(after) = Len(types) - 1
    BY <1>4, <2>2, BelowIs
  <2>4. Emit(op, after)
    BY <1>6
  <2> HIDE DEF op, after
  <2>5. Moves(op, Height(types), Height(after)) /\ ~IsLabel(op)
    BY <2>1, <2>2, <2>3 DEF Moves, IsLabel, Jumps
  <2> QED BY <1>4, <2>1, <2>3, <2>4, <2>5, EmitKeeps
<1> QED BY <1>3, <1>5, <1>6
LEMMA EmitCompareKeeps == RepertoiresAssumption /\ Invariant /\ EmitCompare => Invariant'
<1> SUFFICES ASSUME RepertoiresAssumption, Invariant, EmitCompare PROVE Invariant'
  OBVIOUS
<1>1. uses \in Repertoires /\ (types = Dead \/ types \in Seq(Types)) /\ uses.type \in Types
  BY UsesTyped DEF Invariant, Written
<1>2. ASSUME NEW k, May(k) PROVE types \in Seq(Types) /\ code = <<>>
  BY <1>1, <1>2 DEF May, Writing
<1>3. "I32" \in Types
  BY DEF Types
<1>4. ASSUME NEW c \in Comparisons, May("Compare"), c.type = uses.type, Ends(<<c.type, c.type>>),
             Emit([k |-> "Compare", cmp |-> c], Append(Below(2), "I32"))
      PROVE  Invariant'
  <2> DEFINE op == [k |-> "Compare", cmp |-> c]
             after == Append(Below(2), "I32")
  <2>1. op \in Op /\ op.k = "Compare"
    BY DEF Op
  <2>2. types \in Seq(Types) /\ code = <<>> /\ 2 <= Len(types)
    BY <1>1, <1>2, <1>4, EndsLen
  <2>3. /\ Below(2) \in Seq(Types) /\ Len(types) \in Nat /\ Height(types) = Len(types)
        /\ Len(Below(2)) = Len(types) - 2
    BY <2>2, BelowIs
  <2>4. after \in Seq(Types) /\ Height(after) = Len(types) - 1
    BY <1>3, <2>3, Grown
  <2>5. Emit(op, after)
    BY <1>4
  <2> HIDE DEF op, after
  <2>6. Moves(op, Height(types), Height(after)) /\ ~IsLabel(op)
    BY <2>1, <2>2, <2>3, <2>4 DEF Moves, IsLabel, Jumps
  <2> QED BY <2>1, <2>2, <2>4, <2>5, <2>6, EmitKeeps
<1>5. ASSUME May("EqZero"), uses.type \in {"I32", "I64"}, Ends(<<uses.type>>),
             Emit([k |-> "EqZero", type |-> uses.type], Append(Below(1), "I32"))
      PROVE  Invariant'
  <2> DEFINE op == [k |-> "EqZero", type |-> uses.type]
             after == Append(Below(1), "I32")
  <2>1. op \in Op /\ op.k = "EqZero"
    BY <1>5 DEF Op
  <2>2. types \in Seq(Types) /\ code = <<>> /\ 1 <= Len(types)
    BY <1>1, <1>2, <1>5, EndsLen
  <2>3. /\ Below(1) \in Seq(Types) /\ Len(types) \in Nat /\ Height(types) = Len(types)
        /\ Len(Below(1)) = Len(types) - 1
    BY <2>2, BelowIs
  <2>4. after \in Seq(Types) /\ Height(after) = Len(types)
    BY <1>3, <2>3, Grown
  <2>5. Emit(op, after)
    BY <1>5
  <2> HIDE DEF op, after
  <2>6. Moves(op, Height(types), Height(after)) /\ ~IsLabel(op)
    BY <2>1, <2>2, <2>3, <2>4 DEF Moves, IsLabel, Jumps
  <2> QED BY <2>1, <2>2, <2>4, <2>5, <2>6, EmitKeeps
<1> QED BY <1>4, <1>5 DEF EmitCompare

LEMMA EmitAccessKeeps == RepertoiresAssumption /\ Invariant /\ EmitAccess => Invariant'
<1> SUFFICES ASSUME RepertoiresAssumption, Invariant, EmitAccess PROVE Invariant'
  OBVIOUS
<1>1. uses \in Repertoires /\ (types = Dead \/ types \in Seq(Types)) /\ uses.type \in Types
  BY UsesTyped DEF Invariant, Written
<1>2. ASSUME NEW k, May(k) PROVE types \in Seq(Types) /\ code = <<>>
  BY <1>1, <1>2 DEF May, Writing
<1>3. "I32" \in Types
  BY DEF Types
<1>4. ASSUME May("Load"), Ends(<<"I32">>), Emit([k |-> "Load"], Append(Below(1), uses.type))
      PROVE  Invariant'
  <2> DEFINE op == [k |-> "Load"]
             after == Append(Below(1), uses.type)
  <2>1. op \in Op /\ op.k = "Load"
    BY DEF Op
  <2>2. types \in Seq(Types) /\ code = <<>> /\ 1 <= Len(types)
    BY <1>2, <1>3, <1>4, EndsLen
  <2>3. /\ Below(1) \in Seq(Types) /\ Len(types) \in Nat /\ Height(types) = Len(types)
        /\ Len(Below(1)) = Len(types) - 1
    BY <2>2, BelowIs
  <2>4. after \in Seq(Types) /\ Height(after) = Len(types)
    BY <1>1, <2>3, Grown
  <2>5. Emit(op, after)
    BY <1>4
  <2> HIDE DEF op, after
  <2>6. Moves(op, Height(types), Height(after)) /\ ~IsLabel(op)
    BY <2>1, <2>2, <2>3, <2>4 DEF Moves, IsLabel, Jumps
  <2> QED BY <2>1, <2>2, <2>4, <2>5, <2>6, EmitKeeps
<1>5. ASSUME May("Store"), Ends(<<"I32", uses.type>>), Emit([k |-> "Store"], Below(2))
      PROVE  Invariant'
  <2> DEFINE op == [k |-> "Store"]
             after == Below(2)
  <2>1. op \in Op /\ op.k = "Store"
    BY DEF Op
  <2>2. types \in Seq(Types) /\ code = <<>> /\ 2 <= Len(types)
    BY <1>1, <1>2, <1>3, <1>5, EndsLen
  <2>3. /\ after \in Seq(Types) /\ Len(types) \in Nat /\ Height(types) = Len(types)
        /\ Height(after) = Len(types) - 2
    BY <2>2, BelowIs
  <2>4. Emit(op, after)
    BY <1>5
  <2> HIDE DEF op, after
  <2>5. Moves(op, Height(types), Height(after)) /\ ~IsLabel(op)
    BY <2>1, <2>2, <2>3 DEF Moves, IsLabel, Jumps
  <2> QED BY <2>1, <2>2, <2>3, <2>4, <2>5, EmitKeeps
<1> QED BY <1>4, <1>5 DEF EmitAccess

LEMMA DeadHeight == Height(Dead) = -1
  BY DEF Height

LEMMA EmitReturnKeeps == RepertoiresAssumption /\ Invariant /\ EmitReturn => Invariant'
<1> SUFFICES ASSUME RepertoiresAssumption, Invariant, EmitReturn PROVE Invariant'
  OBVIOUS
<1>1. uses \in Repertoires /\ types \in Seq(Types) /\ code = <<>> /\ uses.result \in Types
  BY UsesTyped DEF Invariant, Written, EmitReturn, May, Writing
<1> DEFINE op == [k |-> "Return"]
<1>2. op \in Op /\ op.k = "Return"
  BY DEF Op
<1>3. 1 <= Len(types) /\ Emit(op, Dead)
  BY <1>1, EndsLen DEF EmitReturn
<1>4. Height(types) = Len(types) /\ Height(Dead) = -1 /\ Len(types) \in Nat
  BY <1>1, NeverDead, DeadHeight
<1> HIDE DEF op
<1>5. Moves(op, Height(types), Height(Dead)) /\ ~IsLabel(op)
  BY <1>2, <1>3, <1>4 DEF Moves, IsLabel, Jumps
<1> QED BY <1>1, <1>2, <1>3, <1>5, EmitKeeps

LEMMA EmitLabelKeeps == RepertoiresAssumption /\ Invariant /\ EmitLabel => Invariant'
<1> SUFFICES ASSUME RepertoiresAssumption, Invariant, EmitLabel PROVE Invariant'
  OBVIOUS
<1>1. uses \in Repertoires /\ code = <<>>
  BY DEF Invariant, Written, EmitLabel, Writing
<1>2. PICK l \in Labels : /\ ~Emitted(l) /\ (types = Dead \/ types = uses.labels[l])
                          /\ Emit([k |-> "Label", label |-> l], uses.labels[l])
  BY DEF EmitLabel
<1>3. uses.labels[l] \in Seq(Types) /\ Arity(l) \in Nat /\ Arity(l) = Len(uses.labels[l])
  BY <1>1, UsesTyped DEF Arity
<1> DEFINE op == [k |-> "Label", label |-> l]
<1>4. op \in Op /\ op.k = "Label" /\ op.label = l
  BY DEF Op
<1>5. Height(uses.labels[l]) = Arity(l) /\ (Height(types) = -1 \/ Height(types) = Arity(l))
  BY <1>2, <1>3, NeverDead, DeadHeight
<1>6. Emit(op, uses.labels[l])
  BY <1>2
<1> HIDE DEF op
<1>7. Moves(op, Height(types), Height(uses.labels[l]))
  BY <1>3, <1>4, <1>5 DEF Moves, Jumps
<1> QED BY <1>1, <1>2, <1>3, <1>4, <1>6, <1>7, EmitKeeps

LEMMA EmitJumpKeeps == RepertoiresAssumption /\ Invariant /\ EmitJump => Invariant'
<1> SUFFICES ASSUME RepertoiresAssumption, Invariant, EmitJump PROVE Invariant'
  OBVIOUS
<1>1. uses \in Repertoires /\ (types = Dead \/ types \in Seq(Types)) /\ "I32" \in Types
  BY DEF Invariant, Written, Types
<1>2. ASSUME NEW k, May(k) PROVE types \in Seq(Types) /\ code = <<>>
  BY <1>1, <1>2 DEF May, Writing
<1>3. ASSUME NEW l \in Labels, NEW stack \in Seq(Types), Reaches(l, stack)
      PROVE  Arity(l) \in Nat /\ Len(stack) - Arity(l) \in Nat /\ Arity(l) <= Len(stack)
  <2>1. uses.labels[l] \in Seq(Types) /\ Arity(l) \in Nat
    BY <1>1, UsesTyped
  <2>2. Arity(l) <= Len(stack)
    BY <1>3, <2>1, SuffixLen DEF Reaches, Arity
  <2> QED BY <2>1, <2>2
<1>4. ASSUME NEW k \in Jumps, NEW l \in Labels, NEW n \in Nat, n - Arity(l) \in Nat, Arity(l) \in Nat
      PROVE  JumpOp(k, l, n) \in Op /\ JumpOp(k, l, n).k = k /\ Leaves(JumpOp(k, l, n), n)
             /\ ~IsLabel(JumpOp(k, l, n))
  <2>1. JumpOp(k, l, n) = [k |-> k, target |-> l, keep |-> Arity(l), drop |-> n - Arity(l)]
    BY DEF JumpOp, Arity
  <2>2. JumpOp(k, l, n) \in [k : Jumps, target : Labels, keep : Nat, drop : Nat]
    BY <1>4, <2>1
  <2>3. JumpOp(k, l, n) \in Op
    BY <2>2 DEF Op
  <2>4. Leaves(JumpOp(k, l, n), n)
    BY <1>4, <2>1 DEF Leaves
  <2> QED BY <2>1, <2>3, <2>4 DEF IsLabel, Jumps
<1>5. ASSUME NEW l \in Labels, May("Jump"), Reaches(l, types), Emit(JumpOp("Jump", l, Len(types)), Dead)
      PROVE  Invariant'
  <2>1. types \in Seq(Types) /\ code = <<>> /\ Len(types) \in Nat /\ Height(types) = Len(types)
    BY <1>2, <1>5, NeverDead
  <2>2. Arity(l) \in Nat /\ Len(types) - Arity(l) \in Nat
    BY <1>3, <1>5, <2>1
  <2>3. PICK op : op = JumpOp("Jump", l, Len(types))
    OBVIOUS
  <2>4. op \in Op /\ op.k = "Jump" /\ Leaves(op, Len(types)) /\ ~IsLabel(op)
    <3>1. "Jump" \in Jumps
      BY DEF Jumps
    <3> QED BY <1>4, <2>1, <2>2, <2>3, <3>1
  <2>5. Moves(op, Height(types), Height(Dead))
    BY <2>1, <2>4, DeadHeight DEF Moves, Jumps
  <2> QED BY <1>5, <2>1, <2>3, <2>4, <2>5, EmitKeeps
<1>6. ASSUME NEW l \in Labels, NEW k, May(k), Ends(<<"I32">>), Reaches(l, Below(1))
      PROVE  /\ types \in Seq(Types) /\ code = <<>> /\ Len(types) \in Nat /\ Height(types) = Len(types)
             /\ Len(types) - 1 \in Nat /\ Below(1) \in Seq(Types) /\ Height(Below(1)) = Len(types) - 1
             /\ Arity(l) \in Nat /\ (Len(types) - 1) - Arity(l) \in Nat
  <2>1. types \in Seq(Types) /\ code = <<>> /\ 1 <= Len(types)
    BY <1>1, <1>2, <1>6, EndsLen
  <2>2. /\ Below(1) \in Seq(Types) /\ Len(types) \in Nat /\ Height(types) = Len(types)
        /\ Len(Below(1)) = Len(types) - 1 /\ Height(Below(1)) = Len(types) - 1
    BY <2>1, BelowIs
  <2>3. Arity(l) \in Nat /\ Len(Below(1)) - Arity(l) \in Nat
    BY <1>3, <1>6, <2>2
  <2> QED BY <2>1, <2>2, <2>3
<1>7. ASSUME NEW l \in Labels, NEW k \in {"JumpIf", "JumpIfNot"}, May(k), Ends(<<"I32">>),
             Reaches(l, Below(1)), Emit(JumpOp(k, l, Len(types) - 1), Below(1))
      PROVE  Invariant'
  <2>1. /\ types \in Seq(Types) /\ code = <<>> /\ Len(types) \in Nat /\ Height(types) = Len(types)
        /\ Len(types) - 1 \in Nat /\ Below(1) \in Seq(Types) /\ Height(Below(1)) = Len(types) - 1
        /\ Arity(l) \in Nat /\ (Len(types) - 1) - Arity(l) \in Nat
    BY <1>6, <1>7
  <2>2. PICK op : op = JumpOp(k, l, Len(types) - 1)
    OBVIOUS
  <2>3. op \in Op /\ op.k = k /\ Leaves(op, Len(types) - 1) /\ ~IsLabel(op)
    <3>1. k \in Jumps
      BY DEF Jumps
    <3> QED BY <1>4, <2>1, <2>2, <3>1
  <2>4. Moves(op, Height(types), Height(Below(1)))
    BY <2>1, <2>3 DEF Moves, Jumps
  <2> QED BY <1>7, <2>1, <2>2, <2>3, <2>4, EmitKeeps
<1>8. ASSUME NEW l \in Labels, May("JumpTable"), Ends(<<"I32">>), Reaches(l, Below(1)),
             NEW d \in Labels, uses.labels[d] = uses.labels[l],
             Emit([k |-> "JumpTable",
                   entries |-> <<Target(l, Len(types) - 1), Target(d, Len(types) - 1)>>], Dead)
      PROVE  Invariant'
  <2>1. /\ types \in Seq(Types) /\ code = <<>> /\ Len(types) \in Nat /\ Height(types) = Len(types)
        /\ Len(types) - 1 \in Nat /\ Arity(l) \in Nat /\ (Len(types) - 1) - Arity(l) \in Nat
    BY <1>6, <1>8
  <2>2. Arity(d) = Arity(l)
    BY <1>8 DEF Arity
  <2> DEFINE n == Len(types) - 1
  <2>3. PICK e, f : e = Target(l, n) /\ f = Target(d, n)
    OBVIOUS
  <2>4. e \in Entry /\ f \in Entry /\ Leaves(e, n) /\ Leaves(f, n)
    <3>1. /\ e = [target |-> l, keep |-> Arity(l), drop |-> n - Arity(l)]
          /\ f = [target |-> d, keep |-> Arity(l), drop |-> n - Arity(l)]
      BY <2>2, <2>3 DEF Target, Arity
    <3>2. e \in Entry /\ f \in Entry
      BY <2>1, <3>1 DEF Entry
    <3>3. Leaves(e, n) /\ Leaves(f, n)
      BY <2>1, <2>2, <3>1 DEF Leaves
    <3> QED BY <3>2, <3>3
  <2>5. PICK op : op = [k |-> "JumpTable", entries |-> <<e, f>>]
    OBVIOUS
  <2>6. op \in Op /\ op.k = "JumpTable" /\ op.entries = <<e, f>> /\ ~IsLabel(op)
    <3>1. <<e, f>> \in Seq(Entry)
      BY <2>4
    <3>2. op \in [k : {"JumpTable"}, entries : Seq(Entry)]
      BY <2>5, <3>1
    <3> QED BY <2>5, <3>2 DEF Op, IsLabel
  <2>7. op.entries # <<>> /\ \A x \in DOMAIN op.entries : Leaves(op.entries[x], n)
    <3>1. \A x \in 1..2 : Leaves(<<e, f>>[x], n)
      BY <2>4
    <3> QED BY <2>6, <3>1
  <2>8. Moves(op, Height(types), Height(Dead))
    BY <2>1, <2>6, <2>7, DeadHeight DEF Moves, Jumps
  <2>9. Emit(op, Dead)
    BY <1>8, <2>3, <2>5
  <2> QED BY <2>1, <2>6, <2>8, <2>9, EmitKeeps
<1> QED BY <1>5, <1>7, <1>8 DEF EmitJump
----------------------------------------------------------------------------
(***************************************************************************)
(* The machines start together, and stay together.                         *)
(***************************************************************************)
LEMMA WrittenStays ==
  ASSUME Written, UNCHANGED wvars
  PROVE  Written'
<1>1. uses' = uses /\ source' = source /\ types' = types
  BY DEF wvars
<1>2. Op' = Op /\ \A s, h : Heights(s, h)' <=> Heights(s, h)
  BY <1>1, Frame
<1>3. PICK s, h : s = source /\ Heights(s, h) /\ h[Len(s)] = Height(types)
  BY DEF Written
<1>4. Heights(s, h)' /\ source' = s
  BY <1>1, <1>2, <1>3
<1>5. Heights(source, h)'
  BY ONLY <1>4 DEF Heights
<1>6. (h[Len(source)] = Height(types))'
  BY ONLY <1>1, <1>3 DEF Height
<1>7. LabelsOnce(source)'
  BY <1>1 DEF Written, LabelsOnce
<1>8. uses' \in Repertoires /\ (types' = Dead \/ types' \in Seq(Types)) /\ source' \in Seq(Op')
  BY <1>1, <1>2 DEF Written
<1> QED BY <1>5, <1>6, <1>7, <1>8 DEF Written

LEMMA TwinsSame ==
  ASSUME NEW x, NEW y, Twins(x, y)
  PROVE  [x EXCEPT !.pc = 0] = [y EXCEPT !.pc = 0]
<1>1. ASSUME NEW z \in Machine
      PROVE  [z EXCEPT !.pc = 0] = [status |-> z.status, pc |-> 0, stack |-> z.stack,
                                    locals |-> z.locals, cell |-> z.cell]
  BY DEF Machine
<1> QED BY <1>1 DEF Twins

LEMMA CompileKeeps == RepertoiresAssumption /\ Invariant /\ Compile => Invariant'
<1> SUFFICES ASSUME RepertoiresAssumption, Invariant, Compile PROVE Invariant'
  OBVIOUS
<1>1. /\ source \in Seq(Op) /\ LabelsOnce(source) /\ uses \in Repertoires
      /\ uses' = uses /\ source' = source /\ types' = types
      /\ code' = Assemble(Merging(source)) /\ plain' = Assemble(source)
  BY DEF Invariant, Written, Compile, wvars, Merging, Stripped
<1>2. Written'
  BY WrittenStays DEF Invariant, Compile
<1>3. PICK s : s = source
  OBVIOUS
<1>4. Whole(s)
  <2>1. Complete
    BY DEF Compile
  <2>2. /\ source # <<>> /\ Last(source).k = "Return"
        /\ \A l \in LiveLabels(source) : \E i \in DOMAIN source : IsLabel(source[i]) /\ source[i].label = l
    BY ONLY <2>1 DEF Complete, Emitted
  <2>3. DOMAIN source = 1..Len(source)
    BY <1>1
  <2> QED BY ONLY <1>3, <2>2, <2>3 DEF Whole
<1>5. PICK h : Heights(s, h)
  BY <1>3 DEF Invariant, Written
<1>6. PICK args \in [1..Len(uses.args) -> uses.values], locals \in [DOMAIN uses.locals -> uses.values],
           cell \in Tried(uses.type) :
         machine' = Entering(args, locals, cell) /\ twin' = Entering(args, locals, cell)
  BY DEF Compile
<1>7. PICK x : x = Entering(args, locals, cell)
  OBVIOUS
<1>8. /\ args \in Seq(Nat) /\ Len(args) = Len(uses.args) /\ locals \in [DOMAIN uses.locals -> Nat]
      /\ cell \in Nat
  <2>1. uses.values \in SUBSET Nat /\ uses.args \in Seq(Types)
    BY <1>1, UsesTyped
  <2>2. Len(uses.args) \in Nat
    BY <2>1
  <2>3. args \in [1..Len(uses.args) -> Nat]
    BY <2>1
  <2>4. args \in Seq(Nat) /\ Len(args) = Len(uses.args)
    BY <2>2, <2>3
  <2>5. locals \in [DOMAIN uses.locals -> Nat] /\ cell \in Nat
    BY <2>1 DEF Tried
  <2> QED BY <2>4, <2>5
<1>9. x \in Machine /\ x.status = "running" /\ x.pc = 0 /\ Len(x.stack) = Len(uses.args)
  BY <1>7, <1>8 DEF Entering, Machine
<1>10. At(s, h, x, x)
  <2>1. /\ 0 \in 0..Len(s) /\ 0 # Len(s) /\ 0 \notin Proper(s) /\ ~Leads(s, 0)
    BY <1>1, <1>3, <1>4 DEF Whole, Proper, Leads
  <2>2. CodePlace(s, 0) = 0 /\ PlainPlace(s, 0) = 0
    BY <1>1, <1>3, <2>1, PlaceTyped
  <2>3. h[0] = Len(uses.args) /\ h[0] >= 0
    <3>1. uses.args \in Seq(Types)
      BY <1>1, UsesTyped
    <3>2. Len(uses.args) \in Nat
      BY <3>1
    <3> QED BY <1>5, <3>2 DEF Heights
  <2>4. x.pc = CodePlace(s, 0) /\ x.pc = PlainPlace(s, 0) /\ Len(x.stack) = h[0]
    BY <1>9, <2>2, <2>3
  <2> QED BY <1>1, <1>3, <1>4, <1>5, <2>1, <2>3, <2>4, Onwards
<1>11. code' # <<>>
  <2>1. PICK j \in Proper(s) : Leads(s, j)
    BY <1>10 DEF At
  <2>2. j \in 1..Len(s)
    BY <1>1, <1>3 DEF Proper
  <2>3. CodePlace(s, j) \in 1..Len(Assemble(Merging(s)))
    BY <1>1, <1>3, <2>1, <2>2, OpsAt
  <2> QED BY <1>1, <1>3, <2>3
<1>12. Twins(x, x)' /\ Heights(s, h)'
  <2>1. Twins(x, x)
    BY <1>9 DEF Twins
  <2> QED BY <1>1, <1>5, <2>1, Frame
<1>13. Same'
  BY <1>6 DEF Same
<1>14. Together'
  <2>1. machine' = x /\ twin' = x /\ source' = s
    BY <1>1, <1>3, <1>6, <1>7
  <2>2. (Twins(machine, twin) /\ Heights(source, h))'
    BY ONLY <1>12, <2>1 DEF Twins, Heights
  <2>3. Whole(source)' /\ At(source, h, machine, twin)'
    BY ONLY <1>4, <1>10, <2>1 DEF Whole, At
  <2>4. (code = Assemble(Merging(source)) /\ code # <<>> /\ plain = Assemble(source))'
    BY <1>1, <1>11
  <2> QED BY <2>2, <2>3, <2>4 DEF Together
<1> QED BY <1>2, <1>13, <1>14 DEF Invariant

LEMMA StepKeeps == RepertoiresAssumption /\ Invariant /\ Step => Invariant'
<1> SUFFICES ASSUME RepertoiresAssumption, Invariant, Step PROVE Invariant'
  OBVIOUS
<1>1. /\ source \in Seq(Op) /\ LabelsOnce(source) /\ machine.status = "running"
      /\ uses' = uses /\ source' = source /\ types' = types /\ code' = code /\ plain' = plain
  BY DEF Invariant, Written, Step
<1>2. /\ code = Assemble(Merging(source)) /\ code # <<>> /\ plain = Assemble(source)
      /\ Whole(source) /\ Twins(machine, twin)
  BY <1>1 DEF Invariant, Together
<1>3. Written'
  BY <1>1, WrittenStays DEF Invariant, wvars
<1>4. PICK h : Heights(source, h) /\ At(source, h, machine, twin)
  BY <1>1 DEF Invariant, Together
<1>5. PICK i \in Proper(source) :
        /\ Leads(source, i) /\ machine.pc = CodePlace(source, i - 1)
        /\ twin.pc = PlainPlace(source, i - 1) /\ Len(machine.stack) = h[i - 1]
  BY <1>4 DEF At
<1>6. PICK x, y, s : x = machine' /\ y = twin' /\ s = source
  OBVIOUS
<1>7. /\ x = Execute(code, machine)
      /\ y = IF Width(code[machine.pc + 1]) = 1 THEN Execute(plain, twin)
             ELSE Execute(plain, Execute(plain, twin))
  BY <1>6 DEF Step
<1>8. Twins(x, y) /\ (x.status = "running" => At(source, h, x, y))
  BY <1>1, <1>2, <1>4, <1>5, <1>7, StepArrives
<1>9. Twins(x, y)' /\ Heights(s, h)'
  BY <1>1, <1>4, <1>6, <1>8, Frame
<1>10. Same'
  <2>1. [x EXCEPT !.pc = 0] = [y EXCEPT !.pc = 0]
    BY <1>8, TwinsSame
  <2> QED BY ONLY <1>6, <2>1 DEF Same
<1>11. Together'
  <2>1. machine' = x /\ twin' = y /\ source' = s
    BY <1>1, <1>6
  <2>2. (Twins(machine, twin) /\ Heights(source, h))'
    BY ONLY <1>9, <2>1 DEF Twins, Heights
  <2>3. Whole(source)' /\ (machine'.status = "running" => At(source, h, machine, twin)')
    BY ONLY <1>2, <1>6, <1>8, <2>1 DEF Whole, At
  <2>4. (code = Assemble(Merging(source)) /\ code # <<>> /\ plain = Assemble(source))'
    BY <1>1, <1>2
  <2> QED BY <2>2, <2>3, <2>4 DEF Together
<1> QED BY <1>3, <1>10, <1>11 DEF Invariant

LEMMA StutterKeeps == Invariant /\ UNCHANGED vars => Invariant'
<1> SUFFICES ASSUME Invariant, UNCHANGED vars PROVE Invariant'
  OBVIOUS
<1>1. /\ uses' = uses /\ source' = source /\ types' = types /\ code' = code /\ plain' = plain
      /\ machine' = machine /\ twin' = twin
  BY DEF vars
<1>2. Written' /\ Same'
  BY <1>1, WrittenStays DEF Invariant, wvars, Same
<1>3. Together'
  <2> SUFFICES ASSUME machine'.status = "running" PROVE Together'
    BY DEF Together
  <2>1. PICK h, s, x, y : /\ s = source /\ x = machine /\ y = twin
                          /\ Heights(s, h) /\ At(s, h, x, y) /\ Twins(x, y)
    BY <1>1 DEF Invariant, Together
  <2>2. Heights(s, h)' /\ Twins(x, y)'
    BY <1>1, <2>1, Frame
  <2>3. machine' = x /\ twin' = y /\ source' = s
    BY <1>1, <2>1
  <2>4. (Heights(source, h) /\ At(source, h, machine, twin) /\ Twins(machine, twin))'
    BY ONLY <2>1, <2>2, <2>3 DEF Heights, At, Twins
  <2>5. (/\ code = Assemble(Merging(source)) /\ code # <<>> /\ plain = Assemble(source)
         /\ Whole(source))'
    BY <1>1 DEF Invariant, Together, Whole
  <2> QED BY <2>4, <2>5 DEF Together
<1> QED BY <1>2, <1>3 DEF Invariant

LEMMA InitInvariant == RepertoiresAssumption /\ Init => Invariant
<1> SUFFICES ASSUME RepertoiresAssumption, Init PROVE Invariant
  OBVIOUS
<1>1. uses \in Repertoires /\ source = <<>> /\ types = uses.args /\ types \in Seq(Types)
  BY UsesTyped DEF Init
<1>2. machine = twin /\ machine.status # "running"
  BY DEF Init, Nowhere
<1>3. source \in Seq(Op) /\ Len(source) = 0 /\ LabelsOnce(source)
  BY <1>1 DEF LabelsOnce
<1> DEFINE h == [i \in 0..0 |-> Len(uses.args)]
<1>4. Len(uses.args) \in Nat /\ Height(types) = Len(uses.args)
  BY <1>1, NeverDead
<1>5. Heights(source, h) /\ h[Len(source)] = Height(types)
  BY <1>3, <1>4 DEF Heights
<1> HIDE DEF h
<1>6. Written
  BY <1>1, <1>3, <1>5 DEF Written
<1> QED BY <1>2, <1>6 DEF Invariant, Same, Together

LEMMA NextInvariant == RepertoiresAssumption /\ Invariant /\ [Next]_vars => Invariant'
  BY EmitLocalKeeps, EmitCompareKeeps, EmitAccessKeeps, EmitJumpKeeps, EmitLabelKeeps,
     EmitReturnKeeps, CompileKeeps, StepKeeps, StutterKeeps DEF Next

LEMMA InvariantMeans == Invariant => FusionKeepsMeaning
<1> SUFFICES ASSUME Invariant PROVE FusionKeepsMeaning
  OBVIOUS
<1>1. Same
  BY DEF Invariant
<1>2. ASSUME machine.status = "running" PROVE twin.pc = Start(machine.pc)
  <2>1. /\ source \in Seq(Op) /\ code = Assemble(Merging(source))
        /\ \E h : At(source, h, machine, twin)
    BY <1>2 DEF Invariant, Written, Together
  <2>2. PICK i \in Proper(source) :
          /\ Leads(source, i) /\ machine.pc = CodePlace(source, i - 1)
          /\ twin.pc = PlainPlace(source, i - 1)
    BY <2>1 DEF At
  <2> QED BY <2>1, <2>2, StartAt
<1> QED BY <1>1, <1>2 DEF FusionKeepsMeaning, Same

(***************************************************************************)
(* Fusion changes no body's meaning, whatever its length, its labels and   *)
(* its jumps, and the width of an integer: after every op the machine that *)
(* runs the fused code and the one that runs the plain ops agree           *)
(* (fuse_ops, strip_dead_labels, assemble, and run()'s fused arms).        *)
(***************************************************************************)
THEOREM FusionIsFaithful == Spec => []FusionKeepsMeaning
<1>1. Init => Invariant
  BY RepertoiresAssumption, InitInvariant
<1>2. Invariant /\ [Next]_vars => Invariant'
  BY RepertoiresAssumption, NextInvariant
<1> QED BY <1>1, <1>2, InvariantMeans, PTL DEF Spec
=============================================================================
