---------------------------- MODULE WasiIOProofs ----------------------------
(***************************************************************************)
(* The bytes that WASI preview 1 moves, for any memory, any vectors, files *)
(* and directories, and any answers of the resources: what the guest was   *)
(* told is what happened.                                                  *)
(***************************************************************************)
EXTENDS WasiIO, SequenceTheorems, WellFoundedInduction, TLAPS

(***************************************************************************)
(* Induction over the numbers up to n, by its set.                         *)
(***************************************************************************)
LEMMA Least ==
  ASSUME NEW T, T \subseteq Nat, T # {}
  PROVE  \E n \in T : \A m \in T : n <= m
<1>1. PICK n \in T : \A m \in T : ~ (<<m, n>> \in OpToRel(<, Nat))
  BY NatLessThanWellFounded, WFMin, Zenon
<1>2. \A m \in T : ~ (m < n)
  BY <1>1 DEF OpToRel
<1> QED BY <1>2

LEMMA UpTo ==
  ASSUME NEW n \in Nat, NEW T, 0 \in T, \A i \in 0..(n - 1) : i \in T => i + 1 \in T
  PROVE  \A i \in 0..n : i \in T
<1> SUFFICES ASSUME NEW i \in 0..n, i \notin T PROVE FALSE
  OBVIOUS
<1> DEFINE B == {j \in 0..n : j \notin T}
<1>0. B \subseteq Nat /\ B # {}
  OBVIOUS
<1>1. PICK j \in B : \A k \in B : j <= k
  <2> HIDE DEF B
  <2> QED BY <1>0, Least
<1>2. j # 0 /\ j - 1 \in 0..(n - 1) /\ j - 1 \notin B
  BY <1>1
<1>3. j - 1 \in T
  BY <1>2
<1>4. (j - 1) + 1 \in T
  BY <1>2, <1>3
<1> QED BY <1>4, <1>2

----------------------------------------------------------------------------
(***************************************************************************)
(* Sequences laid end to end.                                              *)
(***************************************************************************)
\* f[i] is the first i of seqs, laid end to end.
Laid(f, seqs) == f[0] = <<>> /\ \A i \in 1..Len(seqs) : f[i] = f[i - 1] \o seqs[i]

LEMMA LaidExists ==
  ASSUME NEW E, NEW seqs \in Seq(Seq(E))
  PROVE  \E f \in [0..Len(seqs) -> Seq(E)] : Laid(f, seqs)
<1> DEFINE Upto(f, k) == f[0] = <<>> /\ \A i \in 1..k : f[i] = f[i - 1] \o seqs[i]
           T == {k \in 0..Len(seqs) : \E f \in [0..k -> Seq(E)] : Upto(f, k)}
<1>1. 0 \in T
  <2> DEFINE g == [i \in 0..0 |-> <<>>]
  <2>1. <<>> \in Seq(E) /\ 0 \in 0..Len(seqs)
    OBVIOUS
  <2>2. g \in [0..0 -> Seq(E)]
    BY <2>1
  <2>3. Upto(g, 0)
    OBVIOUS
  <2> HIDE DEF g, Upto
  <2> QED BY <2>1, <2>2, <2>3
<1>2. ASSUME NEW k \in 0..(Len(seqs) - 1), k \in T PROVE k + 1 \in T
  <2>1. PICK f \in [0..k -> Seq(E)] : Upto(f, k)
    BY <1>2
  <2> DEFINE g == [i \in 0..(k + 1) |-> IF i = k + 1 THEN f[k] \o seqs[k + 1] ELSE f[i]]
  <2>2. f[k] \in Seq(E) /\ seqs[k + 1] \in Seq(E)
    OBVIOUS
  <2>3. f[k] \o seqs[k + 1] \in Seq(E)
    BY ONLY <2>2, ConcatProperties
  <2>4. g \in [0..(k + 1) -> Seq(E)]
    BY <2>3
  <2>5. g[0] = <<>>
    BY <2>1
  <2>6. ASSUME NEW i \in 1..(k + 1) PROVE g[i] = g[i - 1] \o seqs[i]
    <3>1. i - 1 \in 0..k /\ g[i - 1] = f[i - 1]
      OBVIOUS
    <3>2. CASE i = k + 1
      <4>1. g[i] = f[k] \o seqs[k + 1] /\ i - 1 = k
        BY <3>2
      <4> HIDE DEF g
      <4> QED BY <3>1, <3>2, <4>1
    <3>3. CASE i # k + 1
      <4>1. i \in 1..k /\ g[i] = f[i]
        BY <3>3
      <4>2. f[i] = f[i - 1] \o seqs[i]
        BY <2>1, <4>1
      <4> HIDE DEF g
      <4> QED BY <3>1, <4>1, <4>2
    <3> QED BY <3>2, <3>3
  <2>7. Upto(g, k + 1)
    <3> HIDE DEF g
    <3> QED BY <2>5, <2>6
  <2>8. k + 1 \in 0..Len(seqs)
    OBVIOUS
  <2> HIDE DEF g, Upto
  <2> QED BY <2>4, <2>7, <2>8
<1> HIDE DEF T
<1>3. Len(seqs) \in Nat /\ Len(seqs) \in 0..Len(seqs)
  OBVIOUS
<1>4. Len(seqs) \in T
  BY <1>1, <1>2, <1>3, UpTo
<1> QED BY <1>4 DEF T, Laid

LEMMA FlattenOf ==
  ASSUME NEW E, NEW seqs \in Seq(Seq(E))
  PROVE  \E f \in [0..Len(seqs) -> Seq(E)] : Laid(f, seqs) /\ FlattenSeq(seqs) = f[Len(seqs)]
<1> DEFINE n == Len(seqs)
           Eq(c) == c = [i \in 1..n |-> IF i = 1 THEN seqs[i] ELSE c[i - 1] \o seqs[i]]
           c == CHOOSE c : Eq(c)
<1>0. n \in Nat
  OBVIOUS
<1>1. CASE n = 0
  <2>1. PICK f \in [0..n -> Seq(E)] : Laid(f, seqs)
    BY LaidExists
  <2>2. FlattenSeq(seqs) = seqs /\ seqs = <<>>
    BY <1>1 DEF FlattenSeq
  <2> QED BY <2>1, <2>2, <1>1 DEF Laid
<1>2. CASE n # 0
  <2>1. PICK f \in [0..n -> Seq(E)] : Laid(f, seqs)
    BY LaidExists
  <2>2. Eq([i \in 1..n |-> f[i]])
    <3>1. \A i \in 1..n : f[i] = IF i = 1 THEN seqs[i] ELSE [j \in 1..n |-> f[j]][i - 1] \o seqs[i]
      <4> SUFFICES ASSUME NEW i \in 1..n PROVE f[i] = IF i = 1 THEN seqs[i] ELSE [j \in 1..n |-> f[j]][i - 1] \o seqs[i]
        OBVIOUS
      <4>1. CASE i = 1
        <5>1. 1 \in 1..Len(seqs) /\ seqs[1] \in Seq(E) /\ 1 - 1 = 0
          BY <4>1
        <5>2. f[1] = <<>> \o seqs[1]
          BY <2>1, <5>1 DEF Laid
        <5> QED BY <5>1, <5>2, <4>1, ConcatEmptySeq
      <4>2. CASE i # 1
        <5>1. i - 1 \in 1..n
          BY <4>2
        <5>2. f[i] = f[i - 1] \o seqs[i]
          BY <2>1 DEF Laid
        <5> QED BY <5>1, <5>2, <4>2
      <4> QED BY <4>1, <4>2
    <3> QED BY <3>1
  <2>3. Eq(c)
    <3> HIDE DEF Eq
    <3> QED BY <2>2
  <2>4. FlattenSeq(seqs) = c[n]
    BY <1>2 DEF FlattenSeq
  <2> HIDE DEF c
  <2> DEFINE g == [i \in 0..n |-> IF i = 0 THEN <<>> ELSE c[i]]
             T == {i \in 0..n : g[i] \in Seq(E)}
  <2>5. ASSUME NEW i \in 1..n PROVE g[i] = g[i - 1] \o seqs[i]
    <3>1. c[i] = IF i = 1 THEN seqs[i] ELSE c[i - 1] \o seqs[i]
      BY <2>3
    <3>2. seqs[i] \in Seq(E)
      OBVIOUS
    <3>3. <<>> \o seqs[i] = seqs[i]
      BY <3>2, ConcatEmptySeq
    <3>4. CASE i = 1
      <4>1. g[i] = c[i] /\ g[i - 1] = <<>>
        BY <3>4
      <4> HIDE DEF g
      <4> QED BY <3>1, <3>3, <3>4, <4>1
    <3>5. CASE i # 1
      <4>1. g[i] = c[i] /\ g[i - 1] = c[i - 1]
        BY <3>5
      <4> HIDE DEF g
      <4> QED BY <3>1, <3>5, <4>1
    <3> QED BY <3>4, <3>5
  <2>6. g[0] = <<>> /\ DOMAIN g = 0..n
    OBVIOUS
  <2> HIDE DEF g
  <2>7. 0 \in T
    BY <2>6
  <2>8. ASSUME NEW i \in 0..(n - 1), i \in T PROVE i + 1 \in T
    <3>1. i + 1 \in 1..n /\ (i + 1) - 1 = i /\ i + 1 \in 0..n
      OBVIOUS
    <3>2. g[i + 1] = g[i] \o seqs[i + 1]
      BY <2>5, <3>1
    <3>3. g[i] \in Seq(E) /\ seqs[i + 1] \in Seq(E)
      BY <2>8, <3>1
    <3>4. g[i] \o seqs[i + 1] \in Seq(E)
      BY ONLY <3>3, ConcatProperties
    <3> QED BY <3>1, <3>2, <3>4
  <2> HIDE DEF T
  <2>9. \A i \in 0..n : i \in T
    BY <1>0, <2>7, <2>8, UpTo
  <2>10. g \in [0..n -> Seq(E)]
    <3>1. g = [i \in 0..n |-> g[i]]
      BY DEF g
    <3> QED BY <3>1, <2>9 DEF T
  <2>11. g[n] = c[n]
    BY <1>0, <1>2 DEF g
  <2> QED BY <2>4, <2>5, <2>6, <2>10, <2>11 DEF Laid
<1> QED BY <1>1, <1>2
\* s is the beginning of t.
Begins(s, t) == Len(s) <= Len(t) /\ \A k \in 1..Len(s) : s[k] = t[k]

LEMMA BeginsItself ==
  ASSUME NEW E, NEW s \in Seq(E)
  PROVE  Begins(s, s)
BY DEF Begins

LEMMA BeginsThrough ==
  ASSUME NEW E, NEW s \in Seq(E), NEW t \in Seq(E), NEW u \in Seq(E), Begins(s, t), Begins(t, u)
  PROVE  Begins(s, u)
<1>1. Len(s) \in Nat /\ Len(t) \in Nat /\ Len(u) \in Nat
  OBVIOUS
<1>2. Len(s) <= Len(u)
  BY <1>1 DEF Begins
<1>3. ASSUME NEW k \in 1..Len(s) PROVE s[k] = u[k]
  BY <1>1 DEF Begins
<1> QED BY <1>2, <1>3 DEF Begins

LEMMA BeginsMore ==
  ASSUME NEW E, NEW s \in Seq(E), NEW t \in Seq(E)
  PROVE  Begins(s, s \o t)
BY ConcatProperties DEF Begins

\* Two that begin alike go on alike.
LEMMA BeginsBoth ==
  ASSUME NEW E, NEW s \in Seq(E), NEW t \in Seq(E), NEW u \in Seq(E), Begins(t, u)
  PROVE  Begins(s \o t, s \o u)
<1>1. Len(s) \in Nat /\ Len(t) \in Nat /\ Len(u) \in Nat /\ Len(t) <= Len(u)
  BY DEF Begins
<1>2. /\ Len(s \o t) = Len(s) + Len(t) /\ Len(s \o u) = Len(s) + Len(u)
      /\ \A i \in 1..(Len(s) + Len(t)) : (s \o t)[i] = IF i <= Len(s) THEN s[i] ELSE t[i - Len(s)]
      /\ \A i \in 1..(Len(s) + Len(u)) : (s \o u)[i] = IF i <= Len(s) THEN s[i] ELSE u[i - Len(s)]
  BY ConcatProperties
<1>3. ASSUME NEW k \in 1..(Len(s) + Len(t)) PROVE (s \o t)[k] = (s \o u)[k]
  <2>1. k \in 1..(Len(s) + Len(u))
    BY <1>1
  <2>2. CASE k <= Len(s)
    BY <1>2, <2>1, <2>2
  <2>3. CASE ~ (k <= Len(s))
    <3>1. k - Len(s) \in 1..Len(t)
      BY <1>1, <2>3
    <3>2. t[k - Len(s)] = u[k - Len(s)]
      BY <3>1 DEF Begins
    <3> QED BY <1>2, <2>1, <2>3, <3>2
  <2> QED BY <2>2, <2>3
<1> QED BY <1>1, <1>2, <1>3 DEF Begins

LEMMA LaidGrows ==
  ASSUME NEW E, NEW seqs \in Seq(Seq(E)), NEW f \in [0..Len(seqs) -> Seq(E)], Laid(f, seqs),
         NEW m \in 0..Len(seqs), NEW l \in m..Len(seqs)
  PROVE  Begins(f[m], f[l])
<1> DEFINE n == Len(seqs)
           T == {i \in 0..n : i >= m => Begins(f[m], f[i])}
<1>1. n \in Nat /\ 0 \in 0..n /\ l \in 0..n
  OBVIOUS
<1>2. 0 \in T
  BY <1>1, BeginsItself
<1>3. ASSUME NEW i \in 0..(n - 1), i \in T PROVE i + 1 \in T
  <2>1. i + 1 \in 1..n /\ (i + 1) - 1 = i /\ i + 1 \in 0..n /\ i \in 0..n
    OBVIOUS
  <2>2. f[i + 1] = f[i] \o seqs[i + 1]
    BY <2>1 DEF Laid
  <2>3. f[m] \in Seq(E) /\ f[i] \in Seq(E) /\ f[i + 1] \in Seq(E) /\ seqs[i + 1] \in Seq(E)
    <3>1. \A j \in 0..n : f[j] \in Seq(E)
      OBVIOUS
    <3>2. \A j \in 1..n : seqs[j] \in Seq(E)
      OBVIOUS
    <3> QED BY ONLY <2>1, <3>1, <3>2, m \in 0..n
  <2>4. Begins(f[i], f[i + 1])
    BY <2>2, <2>3, BeginsMore
  <2>5. CASE i >= m
    <3>1. Begins(f[m], f[i])
      BY <1>3, <2>5
    <3>2. Begins(f[m], f[i + 1])
      BY <2>3, <2>4, <3>1, BeginsThrough
    <3> QED BY <2>1, <3>2
  <2>6. CASE i + 1 = m
    <3>1. Begins(f[i + 1], f[i + 1])
      BY ONLY <2>3, BeginsItself
    <3>2. Begins(f[m], f[i + 1])
      BY ONLY <2>6, <3>1
    <3> QED BY <2>1, <3>2
  <2>7. CASE ~ (i + 1 >= m)
    BY <2>1, <2>7
  <2> QED BY <2>5, <2>6, <2>7
<1>4. \A i \in 0..n : i \in T
  <2> HIDE DEF T, n
  <2> QED BY <1>1, <1>2, <1>3, UpTo
<1>5. l \in T /\ l >= m
  BY <1>1, <1>4
<1> QED BY <1>5

LEMMA LaidAgree ==
  ASSUME NEW E, NEW s \in Seq(Seq(E)), NEW t \in Seq(Seq(E)),
         NEW f, NEW g, Laid(f, s), Laid(g, t),
         NEW m \in Nat, m <= Len(s), m <= Len(t), \A i \in 1..m : s[i] = t[i]
  PROVE  f[m] = g[m]
<1> DEFINE T == {i \in 0..m : f[i] = g[i]}
<1>1. 0 \in T
  BY DEF Laid
<1>2. ASSUME NEW i \in 0..(m - 1), i \in T PROVE i + 1 \in T
  <2>1. i + 1 \in 1..m /\ (i + 1) - 1 = i /\ i + 1 \in 0..m /\ i + 1 \in 1..Len(s) /\ i + 1 \in 1..Len(t)
    OBVIOUS
  <2>2. f[i + 1] = f[i] \o s[i + 1] /\ g[i + 1] = g[i] \o t[i + 1]
    BY <2>1 DEF Laid
  <2>3. f[i] = g[i] /\ s[i + 1] = t[i + 1]
    BY <1>2, <2>1
  <2> QED BY <2>1, <2>2, <2>3
<1>3. m \in T
  <2>1. m \in 0..m
    OBVIOUS
  <2> HIDE DEF T
  <2> QED BY <1>1, <1>2, <2>1, UpTo
<1> QED BY <1>3

LEMMA LaidLengths ==
  ASSUME NEW E, NEW seqs \in Seq(Seq(E)), NEW f \in [0..Len(seqs) -> Seq(E)], Laid(f, seqs),
         NEW k \in 1..Len(seqs)
  PROVE  /\ Len(f[k]) = Len(f[k - 1]) + Len(seqs[k])
         /\ Len(f[k]) <= Len(f[Len(seqs)])
<1>1. k - 1 \in 0..Len(seqs) /\ k \in 0..Len(seqs) /\ Len(seqs) \in 0..Len(seqs) /\ Len(seqs) \in k..Len(seqs)
  OBVIOUS
<1>2. Begins(f[k], f[Len(seqs)])
  BY <1>1, LaidGrows
<1>3. Len(f[k - 1] \o seqs[k]) = Len(f[k - 1]) + Len(seqs[k])
  BY <1>1, ConcatProperties
<1> QED BY <1>2, <1>3 DEF Laid, Begins

\* Each element of a sequence that is laid is found behind the sequences before it.
LEMMA LaidHolds ==
  ASSUME NEW E, NEW seqs \in Seq(Seq(E)), NEW f \in [0..Len(seqs) -> Seq(E)], Laid(f, seqs),
         NEW k \in 1..Len(seqs), NEW q \in 1..Len(seqs[k])
  PROVE  f[Len(seqs)][Len(f[k - 1]) + q] = seqs[k][q]
<1>1. k - 1 \in 0..Len(seqs) /\ k \in 0..Len(seqs) /\ Len(seqs) \in 0..Len(seqs) /\ Len(seqs) \in k..Len(seqs)
  OBVIOUS
<1>2. PICK s \in Seq(E) : s = f[k - 1]
  BY <1>1
<1>3. PICK t \in Seq(E) : t = seqs[k]
  OBVIOUS
<1>4. PICK u \in Seq(E) : u = f[Len(seqs)]
  BY <1>1
<1>5. f[k] = s \o t
  BY <1>2, <1>3 DEF Laid
<1>6. Begins(s \o t, u)
  <2>1. Begins(f[k], f[Len(seqs)])
    BY <1>1, LaidGrows
  <2> QED BY <1>4, <1>5, <2>1
<1>7. Len(s \o t) = Len(s) + Len(t) /\ Len(s) \in Nat /\ Len(t) \in Nat
  BY ConcatProperties
<1>8. Len(s) + q \in 1..(Len(s) + Len(t)) /\ ~ (Len(s) + q <= Len(s)) /\ (Len(s) + q) - Len(s) = q
  BY <1>3, <1>7
<1>9. (s \o t)[Len(s) + q] = t[q]
  BY <1>8, ConcatProperties
<1>10. u[Len(s) + q] = t[q]
  BY <1>6, <1>7, <1>8, <1>9 DEF Begins
<1> QED BY <1>2, <1>3, <1>4, <1>10

\* And each place belongs to one of the sequences.
LEMMA LaidFrom ==
  ASSUME NEW E, NEW seqs \in Seq(Seq(E)), NEW f \in [0..Len(seqs) -> Seq(E)], Laid(f, seqs),
         NEW p \in 1..Len(f[Len(seqs)])
  PROVE  \E k \in 1..Len(seqs) : p - Len(f[k - 1]) \in 1..Len(seqs[k])
<1> DEFINE n == Len(seqs)
           T == {i \in 0..n : p <= Len(f[i])}
<1>1. n \in Nat /\ n \in 0..n /\ p \in Nat /\ p >= 1
  OBVIOUS
<1>2. T # {} /\ T \subseteq Nat
  BY <1>1
<1>3. PICK k \in T : \A i \in T : k <= i
  <2> HIDE DEF T
  <2> QED BY <1>2, Least
<1>4. k \in 0..n /\ p <= Len(f[k])
  OBVIOUS
<1>5. k # 0
  BY <1>1, <1>4 DEF Laid
<1>6. k \in 1..n /\ k - 1 \in 0..n /\ k - 1 \notin T
  BY <1>3, <1>4, <1>5
<1>7. ~ (p <= Len(f[k - 1]))
  BY <1>6
<1>8. Len(f[k]) = Len(f[k - 1]) + Len(seqs[k])
  BY <1>6, LaidLengths
<1>9. PICK a \in Nat : a = Len(f[k - 1])
  BY <1>6
<1>10. PICK b \in Nat : b = Len(seqs[k])
  BY <1>6
<1>11. p - a \in 1..b
  <2>1. p <= a + b /\ ~ (p <= a)
    BY <1>4, <1>7, <1>8, <1>9, <1>10
  <2> QED BY <1>1, <2>1
<1> QED BY <1>6, <1>9, <1>10, <1>11

LEMMA FlattenTyped ==
  ASSUME NEW E, NEW seqs \in Seq(Seq(E))
  PROVE  FlattenSeq(seqs) \in Seq(E)
<1>1. PICK f \in [0..Len(seqs) -> Seq(E)] : FlattenSeq(seqs) = f[Len(seqs)]
  BY FlattenOf
<1>2. Len(seqs) \in 0..Len(seqs)
  OBVIOUS
<1> QED BY <1>1, <1>2

\* The same sequences and after them the beginning of the next.
LEMMA FlattenBegins ==
  ASSUME NEW E, NEW s \in Seq(Seq(E)), NEW t \in Seq(Seq(E)), Len(s) <= Len(t),
         \A i \in 1..(Len(s) - 1) : s[i] = t[i],
         Len(s) # 0 => Begins(s[Len(s)], t[Len(s)])
  PROVE  Begins(FlattenSeq(s), FlattenSeq(t))
<1> DEFINE m == Len(s)
<1>1. PICK f \in [0..Len(s) -> Seq(E)] : Laid(f, s) /\ FlattenSeq(s) = f[Len(s)]
  BY FlattenOf
<1>2. PICK g \in [0..Len(t) -> Seq(E)] : Laid(g, t) /\ FlattenSeq(t) = g[Len(t)]
  BY FlattenOf
<1>3. m \in Nat /\ m \in 0..Len(s) /\ m \in 0..Len(t) /\ Len(t) \in 0..Len(t) /\ Len(t) \in Nat
  OBVIOUS
<1>4. Begins(g[m], g[Len(t)])
  <2>1. Len(t) \in m..Len(t)
    BY <1>3
  <2> QED BY <1>2, <1>3, <2>1, LaidGrows
<1>5. g[m] \in Seq(E) /\ g[Len(t)] \in Seq(E) /\ f[m] \in Seq(E)
  BY <1>3
<1>6. Begins(f[m], g[m])
  <2>1. CASE m = 0
    BY <1>1, <1>2, <1>5, <2>1, BeginsItself DEF Laid
  <2>2. CASE m # 0
    <3>1. m - 1 \in Nat /\ m - 1 <= Len(s) /\ m - 1 <= Len(t) /\ m \in 1..Len(s) /\ m \in 1..Len(t)
          /\ m - 1 \in 0..Len(s)
      BY <1>3, <2>2
    <3>2. f[m - 1] = g[m - 1]
      <4>1. \A i \in 1..(m - 1) : s[i] = t[i]
        OBVIOUS
      <4>2. Laid(f, s) /\ Laid(g, t)
        BY <1>1, <1>2
      <4> DEFINE p == m - 1
      <4>3. p \in Nat /\ p <= Len(s) /\ p <= Len(t) /\ \A i \in 1..p : s[i] = t[i]
        BY <3>1, <4>1
      <4> HIDE DEF p
      <4>4. f[p] = g[p]
        BY ONLY <4>2, <4>3, LaidAgree, s \in Seq(Seq(E)), t \in Seq(Seq(E))
      <4> QED BY <4>4 DEF p
    <3>3. f[m] = f[m - 1] \o s[m] /\ g[m] = g[m - 1] \o t[m]
      <4>1. \A i \in 1..Len(s) : f[i] = f[i - 1] \o s[i]
        BY ONLY <1>1 DEF Laid
      <4>2. \A i \in 1..Len(t) : g[i] = g[i - 1] \o t[i]
        BY ONLY <1>2 DEF Laid
      <4> QED BY ONLY <4>1, <4>2, <3>1
    <3>4. f[m - 1] \in Seq(E) /\ s[m] \in Seq(E) /\ t[m] \in Seq(E)
      <4>1. \A j \in 0..Len(s) : f[j] \in Seq(E)
        OBVIOUS
      <4>2. \A j \in 1..Len(s) : s[j] \in Seq(E)
        OBVIOUS
      <4>3. \A j \in 1..Len(t) : t[j] \in Seq(E)
        OBVIOUS
      <4> QED BY ONLY <3>1, <4>1, <4>2, <4>3
    <3>41. Begins(s[m], t[m])
      BY <2>2
    <3>5. Begins(f[m - 1] \o s[m], f[m - 1] \o t[m])
      BY ONLY <3>4, <3>41, BeginsBoth
    <3> QED BY <3>2, <3>3, <3>5
  <2> QED BY <2>1, <2>2
<1>7. Begins(f[m], g[Len(t)])
  BY ONLY <1>4, <1>5, <1>6, BeginsThrough
<1> QED BY <1>1, <1>2, <1>7
----------------------------------------------------------------------------
(***************************************************************************)
(* Vectors.                                                                *)
(***************************************************************************)
Vec == [ptr : Nat, len : Nat]
Usable == {v \in Vec : Nonempty(v) /\ InMemory(v.ptr, v.len)}
InSize == 0..(Size - 1)

LEMMA MinIn ==
  ASSUME NEW S, S \subseteq Nat, S # {}
  PROVE  Min(S) \in S /\ \A m \in S : Min(S) <= m
<1>1. \E n \in S : \A m \in S : n <= m
  BY Least
<1> QED BY <1>1 DEF Min

\* decode_iovecs lets no vector through that is not in memory or empty.
LEMMA DecodedInMemory ==
  ASSUME NEW list \in Seq(Vec), decode_iovecs(list) = "SUCCESS", NEW i \in DOMAIN list, Nonempty(list[i])
  PROVE  InMemory(list[i].ptr, list[i].len)
<1> DEFINE bad(j) == ~InMemory(list[j].ptr, list[j].len) /\ list[j].len # 0
           over(j) == Capacity(SubSeq(list, 1, j)) > Max32
           flags == [j \in DOMAIN list |-> bad(j) \/ over(j)]
           I == {j \in 1..Len(flags) : flags[j]}
           first == IF I # {} THEN Min(I) ELSE 0
<1>1. (IF first = 0 THEN "SUCCESS" ELSE IF over(first) THEN "OVERFLOW" ELSE "FAULT") = "SUCCESS"
  BY DEF decode_iovecs, SelectInSeq
<1>2. first = 0
  BY <1>1
<1>3. Len(flags) = Len(list) /\ Len(list) \in Nat /\ DOMAIN list = 1..Len(list)
  OBVIOUS
<1>4. I \subseteq Nat /\ 0 \notin I
  BY <1>3
<1>5. I = {}
  <2> HIDE DEF I
  <2> QED BY <1>2, <1>4, MinIn
<1>6. ~ bad(i)
  BY <1>3, <1>5
<1> QED BY <1>6 DEF Nonempty

LEMMA BuffersUsable ==
  ASSUME NEW list \in VecLists, decode_iovecs(list) = "SUCCESS"
  PROVE  Buffers(list) \in Seq(Usable)
<1> DEFINE one(i) == IF Nonempty(list[i]) THEN <<list[i]>> ELSE <<>>
<1>1. list \in Seq(Vec)
  BY IOAssumption DEF Vec
<1>2. ASSUME NEW i \in DOMAIN list PROVE one(i) \in Seq(Usable)
  <2>1. list[i] \in Vec
    BY <1>1
  <2>2. CASE Nonempty(list[i])
    BY <1>1, <2>1, <2>2, DecodedInMemory DEF Usable
  <2>3. CASE ~Nonempty(list[i])
    BY <2>3
  <2> QED BY <2>2, <2>3
<1>3. [i \in DOMAIN list |-> one(i)] \in Seq(Seq(Usable))
  <2>1. DOMAIN list = 1..Len(list) /\ Len(list) \in Nat
    BY <1>1
  <2> HIDE DEF one
  <2> QED BY <1>2, <2>1
<1> QED BY <1>3, FlattenTyped DEF Buffers

LEMMA AddressesOf ==
  ASSUME NEW v \in Usable
  PROVE  /\ Addresses(v) \in Seq(InSize) /\ Len(Addresses(v)) = v.len /\ v.len \in Nat \ {0}
         /\ \A i \in 1..v.len : Addresses(v)[i] = v.ptr + i - 1
<1>1. PICK p \in Nat : p = v.ptr
  BY DEF Usable, Vec
<1>2. PICK n \in Nat \ {0} : n = v.len
  BY DEF Usable, Vec, Nonempty
<1>3. PICK s \in Nat : s = Size
  BY IOAssumption
<1>4. p + n <= s
  BY <1>1, <1>2, <1>3 DEF Usable, InMemory
<1>5. \A i \in 1..n : p + i - 1 \in 0..(s - 1)
  BY <1>4
<1>6. [i \in 1..n |-> p + i - 1] \in Seq(0..(s - 1)) /\ Len([i \in 1..n |-> p + i - 1]) = n
  BY <1>5
<1>7. Addresses(v) = [i \in 1..n |-> p + i - 1]
  BY <1>1, <1>2 DEF Addresses
<1> QED BY <1>2, <1>1, <1>3, <1>6, <1>7 DEF InSize

LEMMA CellsTyped ==
  ASSUME NEW b \in Seq(Usable)
  PROVE  /\ [i \in DOMAIN b |-> Addresses(b[i])] \in Seq(Seq(InSize))
         /\ Cells(b) \in Seq(InSize)
<1>1. DOMAIN b = 1..Len(b) /\ Len(b) \in Nat
  OBVIOUS
<1>2. \A i \in DOMAIN b : Addresses(b[i]) \in Seq(InSize)
  BY AddressesOf
<1>3. [i \in DOMAIN b |-> Addresses(b[i])] \in Seq(Seq(InSize))
  BY <1>1, <1>2
<1> QED BY <1>3, FlattenTyped DEF Cells

----------------------------------------------------------------------------
(***************************************************************************)
(* What is moved, and what the guest is told.                              *)
(***************************************************************************)
LEMMA AnswerTo ==
  ASSUME NEW b \in Seq(Usable), NEW as \in AnswersTo(b), NEW i \in DOMAIN b
  PROVE  /\ as[i].n \in 0..(b[i].len + 1)
         /\ ~Refused(b[i], as[i]) => as[i].n \in 0..b[i].len
<1>1. as[i] \in Answers(b[i])
  BY DEF AnswersTo
<1>2. PICK c \in Nat : c = b[i].len
  BY DEF Usable, Vec
<1>3. as[i] \in [n : 0..(c + 1), error : {"none"}] \/ as[i] \in [n : {0}, error : Failures]
  BY <1>1, <1>2 DEF Answers
<1>4. as[i].n \in 0..(c + 1)
  <2>1. 0 \in 0..(c + 1)
    OBVIOUS
  <2> QED BY <1>3, <2>1
<1>5. PICK k \in 0..(c + 1) : k = as[i].n
  BY <1>4
<1>6. ASSUME ~Refused(b[i], as[i]) PROVE k \in 0..c
  <2>1. ~ (k > c)
    BY <1>2, <1>5, <1>6 DEF Refused
  <2> QED BY <2>1
<1> QED BY <1>2, <1>4, <1>5, <1>6

\* The loop goes on only behind full buffers.
LEMMA StopWhere ==
  ASSUME NEW b \in Seq(Usable), NEW as \in AnswersTo(b)
  PROVE  /\ Stop(b, as) \in 0..Len(b)
         /\ b # <<>> => Stop(b, as) # 0
         /\ \A i \in 1..(Stop(b, as) - 1) : ~Refused(b[i], as[i]) /\ as[i].n = b[i].len
<1> DEFINE ends == {i \in DOMAIN b : Refused(b[i], as[i]) \/ as[i].n < b[i].len}
           s == Stop(b, as)
<1>1. DOMAIN b = 1..Len(b) /\ Len(b) \in Nat
  OBVIOUS
<1>2. s \in 0..Len(b) /\ (b # <<>> => s # 0) /\ \A i \in 1..(s - 1) : i \in DOMAIN b /\ i \notin ends
  <2>1. CASE ends = {}
    <3>1. s = Len(b)
      BY <2>1 DEF Stop
    <3>2. b # <<>> => Len(b) # 0
      OBVIOUS
    <3> HIDE DEF s, ends
    <3> QED BY <1>1, <2>1, <3>1, <3>2
  <2>2. CASE ends # {}
    <3>1. ends \subseteq Nat /\ ends \subseteq 1..Len(b)
      <4>1. ends \subseteq DOMAIN b
        OBVIOUS
      <4>2. 1..Len(b) \subseteq Nat
        BY <1>1
      <4> HIDE DEF ends
      <4> QED BY <1>1, <4>1, <4>2
    <3>2. s = CHOOSE i \in ends : \A j \in ends : i <= j
      BY <2>2 DEF Stop
    <3>3. \E i \in ends : \A j \in ends : i <= j
      <4> HIDE DEF ends
      <4> QED BY <2>2, <3>1, Least
    <3>4. s \in ends /\ \A j \in ends : s <= j
      <4> HIDE DEF s, ends
      <4> QED BY <3>2, <3>3
    <3> HIDE DEF s, ends
    <3> QED BY <1>1, <3>1, <3>4
  <2> QED BY <2>1, <2>2
<1>3. ASSUME NEW i \in 1..(s - 1) PROVE ~Refused(b[i], as[i]) /\ as[i].n = b[i].len
  <2>1. i \in DOMAIN b /\ i \notin ends
    BY <1>2
  <2>2. ~Refused(b[i], as[i]) /\ ~(as[i].n < b[i].len)
    BY <2>1
  <2>3. as[i].n \in 0..b[i].len
    BY <2>1, <2>2, AnswerTo
  <2>4. PICK n \in Nat : n = b[i].len
    BY <2>1 DEF Usable, Vec
  <2>5. PICK k \in 0..n : k = as[i].n
    BY <2>3, <2>4
  <2>6. ~(k < n)
    BY <2>2, <2>4, <2>5
  <2>7. k = n
    BY <2>6
  <2> QED BY <2>2, <2>4, <2>5, <2>7
<1> QED BY <1>2, <1>3
LEMMA PartOfBuffer ==
  ASSUME NEW v \in Usable, NEW n \in 0..v.len
  PROVE  /\ SubSeq(Addresses(v), 1, n) \in Seq(InSize)
         /\ Begins(SubSeq(Addresses(v), 1, n), Addresses(v))
         /\ n = v.len => SubSeq(Addresses(v), 1, n) = Addresses(v)
<1>1. Addresses(v) \in Seq(InSize) /\ Len(Addresses(v)) = v.len /\ v.len \in Nat
  BY AddressesOf
<1>2. PICK a \in Seq(InSize) : a = Addresses(v)
  BY <1>1
<1>3. n \in 0..Len(a)
  BY <1>1, <1>2
<1>4. SubSeq(a, 1, n) \in Seq(InSize) /\ Len(SubSeq(a, 1, n)) = n /\ \A i \in 1..n : SubSeq(a, 1, n)[i] = a[i]
  BY <1>3
<1>5. Begins(SubSeq(a, 1, n), a)
  BY <1>3, <1>4 DEF Begins
<1>6. SubSeq(a, 1, Len(a)) = a
  BY SubSeqFull
<1> QED BY <1>1, <1>2, <1>4, <1>5, <1>6

\* The addresses moved are the first of those the vectors name.
LEMMA MovedBegins ==
  ASSUME NEW b \in Seq(Usable), NEW as \in AnswersTo(b)
  PROVE  Moved(b, as) \in Seq(InSize) /\ Begins(Moved(b, as), Cells(b))
<1> DEFINE part(i) == IF Refused(b[i], as[i]) THEN <<>> ELSE SubSeq(Addresses(b[i]), 1, as[i].n)
           s == [i \in 1..Stop(b, as) |-> part(i)]
           t == [i \in DOMAIN b |-> Addresses(b[i])]
<1>1. PICK m : m = Stop(b, as)
  OBVIOUS
<1>2. m \in 0..Len(b) /\ Len(b) \in Nat /\ DOMAIN b = 1..Len(b)
  <2>1. m \in 0..Len(b)
    BY <1>1, StopWhere
  <2> QED BY <2>1
<1>21. \A i \in 1..(m - 1) : ~Refused(b[i], as[i]) /\ as[i].n = b[i].len
  BY <1>1, StopWhere
<1>3. ASSUME NEW i \in DOMAIN b
      PROVE  /\ part(i) \in Seq(InSize) /\ Begins(part(i), Addresses(b[i]))
             /\ ~Refused(b[i], as[i]) /\ as[i].n = b[i].len => part(i) = Addresses(b[i])
  <2>1. b[i] \in Usable
    OBVIOUS
  <2>2. CASE Refused(b[i], as[i])
    <3>1. part(i) = <<>>
      BY <2>2
    <3>2. Begins(<<>>, Addresses(b[i]))
      <4>1. Len(Addresses(b[i])) \in Nat
        BY <2>1, AddressesOf
      <4> QED BY <4>1 DEF Begins
    <3> QED BY <2>2, <3>1, <3>2
  <2>3. CASE ~Refused(b[i], as[i])
    <3>1. as[i].n \in 0..b[i].len
      BY <2>3, AnswerTo
    <3>2. part(i) = SubSeq(Addresses(b[i]), 1, as[i].n)
      BY <2>3
    <3> HIDE DEF part
    <3> QED BY <2>1, <3>1, <3>2, PartOfBuffer
  <2> QED BY <2>2, <2>3
<1> HIDE DEF part
<1>4. t \in Seq(Seq(InSize)) /\ Len(t) = Len(b) /\ \A i \in 1..Len(b) : t[i] = Addresses(b[i])
  <2>1. t \in Seq(Seq(InSize))
    BY CellsTyped
  <2>2. t = [i \in 1..Len(b) |-> Addresses(b[i])]
    BY <1>2
  <2> HIDE DEF t
  <2> QED BY <1>2, <2>1, <2>2
<1>5. s \in Seq(Seq(InSize)) /\ Len(s) = m /\ \A i \in 1..m : s[i] = part(i)
  <2>1. \A i \in 1..m : part(i) \in Seq(InSize)
    <3>1. \A i \in 1..m : i \in DOMAIN b
      BY <1>2
    <3> QED BY <1>3, <3>1
  <2>2. s = [i \in 1..m |-> part(i)]
    BY <1>1
  <2>3. m \in Nat
    BY <1>2
  <2> HIDE DEF s
  <2> QED BY <2>1, <2>2, <2>3
<1> HIDE DEF s, t
<1>6. \A i \in 1..(Len(s) - 1) : s[i] = t[i]
  <2> SUFFICES ASSUME NEW i \in 1..(m - 1) PROVE s[i] = t[i]
    BY <1>5
  <2>1. i \in DOMAIN b /\ i \in 1..m /\ i \in 1..Len(b)
    BY <1>2
  <2>2. part(i) = Addresses(b[i])
    BY <1>21, <1>3, <2>1
  <2> QED BY <1>4, <1>5, <2>1, <2>2
<1>7. Len(s) # 0 => Begins(s[Len(s)], t[Len(s)])
  <2> SUFFICES ASSUME m # 0 PROVE Begins(s[m], t[m])
    BY <1>5
  <2>1. m \in DOMAIN b /\ m \in 1..m /\ m \in 1..Len(b)
    BY <1>2
  <2> QED BY <1>3, <1>4, <1>5, <2>1
<1>8. Len(s) <= Len(t)
  <2>1. Len(s) = m /\ Len(t) = Len(b)
    BY <1>4, <1>5
  <2> QED BY <1>2, <2>1
<1>9. Begins(FlattenSeq(s), FlattenSeq(t))
  <2>1. s \in Seq(Seq(InSize)) /\ t \in Seq(Seq(InSize))
    BY <1>4, <1>5
  <2> QED BY ONLY <2>1, <1>6, <1>7, <1>8, FlattenBegins
<1>10. FlattenSeq(s) \in Seq(InSize)
  BY <1>5, FlattenTyped
<1> QED BY <1>9, <1>10 DEF s, t, part, Moved, Cells

\* What the guest is told is what was moved, errors and short transfers included.
LEMMA ToldIsMoved ==
  ASSUME NEW b \in Seq(Usable), NEW as \in AnswersTo(b)
  PROVE  Told(b, as) = Moved(b, as)
<1>1. PICK moved \in Seq(InSize) : moved = Moved(b, as)
  BY MovedBegins
<1>2. PICK cells \in Seq(InSize) : cells = Cells(b)
  BY CellsTyped
<1>3. Begins(moved, cells)
  BY <1>1, <1>2, MovedBegins
<1>4. PICK n : n = Reported(b, as)
  OBVIOUS
<1>5. n = Len(moved)
  <2>1. CASE Fails(b, as)
    BY <1>1, <1>4, <2>1 DEF Reported, Fails
  <2>2. CASE ~Fails(b, as)
    BY <1>1, <1>4, <2>2 DEF Reported
  <2> QED BY <2>1, <2>2
<1>6. n \in 0..Len(cells) /\ Len(cells) \in Nat
  BY <1>3, <1>5 DEF Begins
<1>7. Smaller(n, Len(cells)) = n
  BY <1>6 DEF Smaller
<1>8. Told(b, as) = SubSeq(cells, 1, n)
  BY <1>2, <1>4, <1>7 DEF Told, Capacity
<1>9. SubSeq(cells, 1, n) \in Seq(InSize) /\ Len(SubSeq(cells, 1, n)) = n
      /\ \A i \in 1..n : SubSeq(cells, 1, n)[i] = cells[i]
  BY <1>6
<1>10. \A i \in 1..n : cells[i] = moved[i]
  BY <1>3, <1>5 DEF Begins
<1>11. SubSeq(cells, 1, n) = moved
  BY <1>5, <1>9, <1>10, SeqEqual
<1> QED BY <1>1, <1>8, <1>11

----------------------------------------------------------------------------
(***************************************************************************)
(* The guest's memory.                                                     *)
(***************************************************************************)
LEMMA MaxOfOne == \A k \in Nat : Max({k}) = k
BY DEF Max

\* A byte stored at an address that occurs once is found there.
LEMMA StoredAt ==
  ASSUME NEW mem, NEW E, NEW cells \in Seq(E), NEW bytes, NEW k \in 1..Len(cells),
         cells[k] \in DOMAIN mem, \A j \in 1..Len(cells) : cells[j] = cells[k] => j = k
  PROVE  Stored(mem, cells, bytes)[cells[k]] = bytes[k]
<1> DEFINE c == cells[k]
           at == SelectLastInSeq(cells, LAMBDA x : x = c)
<1>1. {i \in 1..Len(cells) : cells[i] = c} = {k}
  OBVIOUS
<1>2. at = IF {k} # {} THEN Max({k}) ELSE 0
  BY <1>1 DEF SelectLastInSeq
<1>3. at = k /\ k # 0
  BY <1>2, MaxOfOne
<1>4. Stored(mem, cells, bytes)[c] = IF at = 0 THEN mem[c] ELSE bytes[at]
  BY DEF Stored
<1> HIDE DEF at
<1> QED BY <1>3, <1>4

LEMMA StoredElsewhere ==
  ASSUME NEW mem, NEW E, NEW cells \in Seq(E), NEW bytes, NEW c \in DOMAIN mem,
         \A j \in 1..Len(cells) : cells[j] # c
  PROVE  Stored(mem, cells, bytes)[c] = mem[c]
<1> DEFINE at == SelectLastInSeq(cells, LAMBDA x : x = c)
<1>1. {i \in 1..Len(cells) : cells[i] = c} = {}
  OBVIOUS
<1>2. at = 0
  BY <1>1 DEF SelectLastInSeq
<1>3. Stored(mem, cells, bytes)[c] = IF at = 0 THEN mem[c] ELSE bytes[at]
  BY DEF Stored
<1> HIDE DEF at
<1> QED BY <1>2, <1>3
----------------------------------------------------------------------------
(***************************************************************************)
(* Streams and positions.                                                  *)
(***************************************************************************)
\* A guest whose vectors overlap overwrites what it has just read.
VectorsApart ==
  \A list \in VecLists : decode_iovecs(list) = "SUCCESS" => IsInjective(Cells(Buffers(list)))

LEMMA CellsApart ==
  ASSUME VectorsApart, NEW list \in VecLists, decode_iovecs(list) = "SUCCESS",
         NEW j \in 1..Len(Cells(Buffers(list))), NEW k \in 1..Len(Cells(Buffers(list))),
         Cells(Buffers(list))[j] = Cells(Buffers(list))[k]
  PROVE  j = k
<1>1. Cells(Buffers(list)) \in Seq(InSize)
  BY BuffersUsable, CellsTyped
<1>2. PICK c \in Seq(InSize) : c = Cells(Buffers(list))
  BY <1>1
<1>3. IsInjective(c)
  BY <1>2 DEF VectorsApart
<1>4. j \in DOMAIN c /\ k \in DOMAIN c /\ c[j] = c[k]
  BY <1>2
<1> QED BY <1>3, <1>4 DEF IsInjective

\* What is moved, as a sequence of addresses that are all different.
LEMMA MovedCells ==
  ASSUME VectorsApart, NEW list \in VecLists, decode_iovecs(list) = "SUCCESS",
         NEW as \in AnswersTo(Buffers(list))
  PROVE  LET cells == Moved(Buffers(list), as) IN
         /\ cells \in Seq(InSize) /\ Told(Buffers(list), as) = cells
         /\ Len(cells) <= Len(Cells(Buffers(list)))
         /\ \A k \in 1..Len(cells) : cells[k] = Cells(Buffers(list))[k]
         /\ \A j, k \in 1..Len(cells) : cells[j] = cells[k] => j = k
<1>1. PICK b : b = Buffers(list)
  OBVIOUS
<1>2. b \in Seq(Usable) /\ as \in AnswersTo(b)
  BY <1>1, BuffersUsable
<1>3. PICK cells \in Seq(InSize) : cells = Moved(b, as)
  BY <1>2, MovedBegins
<1>4. Told(b, as) = cells /\ Begins(cells, Cells(b))
  BY <1>2, <1>3, ToldIsMoved, MovedBegins
<1>5. PICK all \in Seq(InSize) : all = Cells(b)
  BY <1>2, CellsTyped
<1>6. Len(cells) <= Len(all) /\ \A k \in 1..Len(cells) : cells[k] = all[k]
  BY <1>4, <1>5 DEF Begins
<1>7. ASSUME NEW j \in 1..Len(cells), NEW k \in 1..Len(cells), cells[j] = cells[k] PROVE j = k
  <2>1. j \in 1..Len(all) /\ k \in 1..Len(all) /\ all[j] = all[k]
    BY <1>6, <1>7
  <2> QED BY <1>1, <1>5, <2>1, CellsApart
<1> QED BY <1>1, <1>3, <1>4, <1>5, <1>6, <1>7

Counting(n) == [k \in 1..n |-> k]

LEMMA CountingOn ==
  ASSUME NEW n \in Nat, NEW m \in Nat
  PROVE  Counting(n) \o [k \in 1..m |-> n + k] = Counting(n + m)
<1>1. Counting(n) \in Seq(Nat) /\ Len(Counting(n)) = n /\ \A k \in 1..n : Counting(n)[k] = k
  BY DEF Counting
<1>2. Counting(n + m) \in Seq(Nat) /\ Len(Counting(n + m)) = n + m
      /\ \A k \in 1..(n + m) : Counting(n + m)[k] = k
  BY DEF Counting
<1>3. PICK t : t = [k \in 1..m |-> n + k]
  OBVIOUS
<1>4. t \in Seq(Nat) /\ Len(t) = m /\ \A k \in 1..m : t[k] = n + k
  BY <1>3
<1>5. PICK s \in Seq(Nat) : s = Counting(n)
  BY <1>1
<1>6. s \o t \in Seq(Nat) /\ Len(s \o t) = n + m
  <2>1. t \in Seq(Nat) /\ Len(t) = m /\ Len(s) = n
    BY <1>1, <1>4, <1>5
  <2> QED BY <2>1, ConcatProperties
<1>7. ASSUME NEW k \in 1..(n + m) PROVE (s \o t)[k] = k
  <2>1. (s \o t)[k] = IF k <= n THEN s[k] ELSE t[k - n]
    BY <1>1, <1>4, <1>5, ConcatProperties
  <2>2. CASE k <= n
    BY <1>1, <1>5, <2>1, <2>2
  <2>3. CASE ~ (k <= n)
    <3>1. k - n \in 1..m /\ n + (k - n) = k
      BY <2>3
    <3> QED BY <1>4, <2>1, <2>3, <3>1
  <2> QED BY <2>2, <2>3
<1>8. s \o t = Counting(n + m)
  BY <1>2, <1>6, <1>7, SeqEqual
<1> QED BY <1>3, <1>5, <1>8

\* The inductive invariant of the streams and the file.
StreamInv ==
  /\ position \in Nat /\ sent \in Nat
  /\ file = [k \in 1..FileSize |-> file[k]]
  /\ ReadsLossless /\ WritesExact

LEMMA FdReadKeeps ==
  ASSUME VectorsApart, StreamInv, fd_read
  PROVE  StreamInv'
<1>1. PICK list \in VecLists :
        /\ decode_iovecs(list) = "SUCCESS"
        /\ \E as \in AnswersTo(Buffers(list)) :
             LET cells == Moved(Buffers(list), as)
             IN  /\ position' = position + Len(cells)
                 /\ memory' = Stored(Cleared, cells, [k \in DOMAIN cells |-> position + k])
                 /\ got' = got \o [k \in DOMAIN Told(Buffers(list), as) |-> memory'[Told(Buffers(list), as)[k]]]
        /\ UNCHANGED <<output, sent, file, shadow, others>>
  BY DEF fd_read
<1>2. PICK as \in AnswersTo(Buffers(list)) :
        LET cells == Moved(Buffers(list), as)
        IN  /\ position' = position + Len(cells)
            /\ memory' = Stored(Cleared, cells, [k \in DOMAIN cells |-> position + k])
            /\ got' = got \o [k \in DOMAIN Told(Buffers(list), as) |-> memory'[Told(Buffers(list), as)[k]]]
  BY <1>1
<1>3. PICK cells : cells = Moved(Buffers(list), as)
  OBVIOUS
<1>4. /\ cells \in Seq(InSize) /\ Told(Buffers(list), as) = cells
      /\ \A j, k \in 1..Len(cells) : cells[j] = cells[k] => j = k
  BY <1>1, <1>3, MovedCells
<1>5. PICK m \in Nat : m = Len(cells)
  BY <1>4
<1>6. DOMAIN cells = 1..m
  BY <1>4, <1>5
<1>7. PICK bytes : bytes = [k \in 1..m |-> position + k]
  OBVIOUS
<1>8. memory' = Stored(Cleared, cells, bytes)
  BY <1>2, <1>3, <1>6, <1>7
<1>9. DOMAIN Cleared = InSize
  BY DEF Cleared, InSize
<1>10. ASSUME NEW k \in 1..m PROVE memory'[cells[k]] = position + k
  <2>1. cells[k] \in DOMAIN Cleared /\ k \in 1..Len(cells)
    BY <1>4, <1>5, <1>9
  <2>2. \A j \in 1..Len(cells) : cells[j] = cells[k] => j = k
    BY <1>4, <2>1
  <2>3. Stored(Cleared, cells, bytes)[cells[k]] = bytes[k]
    BY <1>4, <2>1, <2>2, StoredAt
  <2> QED BY <1>7, <1>8, <2>3
<1>11. got' = got \o [k \in 1..m |-> position + k]
  BY ZenonT(60), <1>2, <1>4, <1>6, <1>10
<1>12. got' = Counting(position') /\ position' \in Nat
  <2>1. PICK n \in Nat : n = position
    BY DEF StreamInv
  <2>2. got = Counting(n) /\ position' = n + m
    BY <1>2, <1>3, <1>5, <2>1 DEF StreamInv, ReadsLossless, Counting
  <2>3. Counting(n) \o [k \in 1..m |-> n + k] = Counting(n + m)
    BY CountingOn
  <2>4. got' = Counting(n) \o [k \in 1..m |-> n + k]
    BY <1>11, <2>1, <2>2
  <2>5. n + m \in Nat
    OBVIOUS
  <2> QED BY <2>2, <2>3, <2>4, <2>5
<1> QED BY <1>1, <1>12 DEF StreamInv, ReadsLossless, WritesExact, Counting
LEMMA CountedIn ==
  ASSUME NEW n \in Nat, NEW E, NEW cells \in Seq(E)
  PROVE  \A k \in 1..Len(cells) : [j \in DOMAIN cells |-> n + j][k] = n + k
<1>1. DOMAIN cells = 1..Len(cells)
  OBVIOUS
<1> QED BY <1>1

\* The guest's bytes are where it put them.
LEMMA PreparedAt ==
  ASSUME VectorsApart, NEW list \in VecLists, decode_iovecs(list) = "SUCCESS",
         NEW k \in 1..Len(Cells(Buffers(list))), sent \in Nat
  PROVE  Prepared(Buffers(list))[Cells(Buffers(list))[k]] = sent + k
<1>1. PICK c : c = Cells(Buffers(list))
  OBVIOUS
<1>2. c \in Seq(InSize)
  BY <1>1, BuffersUsable, CellsTyped
<1>3. \A j \in 1..Len(c) : c[j] = c[k] => j = k
  BY <1>1, CellsApart
<1>4. c[k] \in DOMAIN Cleared /\ k \in 1..Len(c)
  <2>1. k \in 1..Len(c)
    BY <1>1
  <2>2. c[k] \in InSize
    BY <1>2, <2>1
  <2> QED BY <2>1, <2>2 DEF Cleared, InSize
<1>0. PICK n \in Nat : n = sent
  OBVIOUS
<1>5. PICK bytes : bytes = [j \in DOMAIN c |-> n + j]
  OBVIOUS
<1>6. Stored(Cleared, c, bytes)[c[k]] = bytes[k]
  BY <1>2, <1>3, <1>4, StoredAt
<1>7. bytes[k] = n + k
  BY <1>2, <1>4, <1>5, CountedIn
<1> QED BY <1>0, <1>1, <1>5, <1>6, <1>7 DEF Prepared

LEMMA FdWriteKeeps ==
  ASSUME VectorsApart, StreamInv, fd_write
  PROVE  StreamInv'
<1>1. PICK list \in VecLists :
        /\ decode_iovecs(list) = "SUCCESS"
        /\ memory' = Prepared(Buffers(list))
        /\ \E as \in AnswersTo(Buffers(list)) :
             /\ output' = output \o [k \in DOMAIN Moved(Buffers(list), as) |->
                                       memory'[Moved(Buffers(list), as)[k]]]
             /\ sent' = sent + Len(Told(Buffers(list), as))
        /\ UNCHANGED <<position, got, file, shadow, others>>
  BY DEF fd_write
<1>2. PICK as \in AnswersTo(Buffers(list)) :
        /\ output' = output \o [k \in DOMAIN Moved(Buffers(list), as) |->
                                  memory'[Moved(Buffers(list), as)[k]]]
        /\ sent' = sent + Len(Told(Buffers(list), as))
  BY <1>1
<1>3. PICK cells : cells = Moved(Buffers(list), as)
  OBVIOUS
<1>4. /\ cells \in Seq(InSize) /\ Told(Buffers(list), as) = cells
      /\ Len(cells) <= Len(Cells(Buffers(list)))
      /\ \A k \in 1..Len(cells) : cells[k] = Cells(Buffers(list))[k]
  BY <1>1, <1>3, MovedCells
<1>5. PICK m \in Nat : m = Len(cells)
  BY <1>4
<1>6. DOMAIN cells = 1..m
  BY <1>4, <1>5
<1>7. PICK n \in Nat : n = sent /\ output = Counting(n)
  BY DEF StreamInv, WritesExact, Counting
<1>8. ASSUME NEW k \in 1..m PROVE memory'[cells[k]] = n + k
  <2>1. Len(Cells(Buffers(list))) \in Nat
    BY <1>1, BuffersUsable, CellsTyped
  <2>2. k \in 1..Len(Cells(Buffers(list))) /\ cells[k] = Cells(Buffers(list))[k]
    BY <1>4, <1>5, <2>1
  <2> QED BY <1>1, <1>7, <2>2, PreparedAt
<1>9. output' = output \o [k \in 1..m |-> n + k]
  BY <1>2, <1>3, <1>6, <1>8
<1>10. Counting(n) \o [k \in 1..m |-> n + k] = Counting(n + m)
  BY CountingOn
<1>11. output' = Counting(sent') /\ sent' \in Nat
  <2>1. sent' = n + m
    BY <1>2, <1>4, <1>5, <1>7
  <2>2. output' = Counting(n + m)
    BY <1>7, <1>9, <1>10
  <2>3. n + m \in Nat
    OBVIOUS
  <2> QED BY <2>1, <2>2, <2>3
<1> QED BY <1>1, <1>11 DEF StreamInv, ReadsLossless, WritesExact, Counting

LEMMA FdPreadKeeps ==
  ASSUME VectorsApart, StreamInv, fd_pread
  PROVE  StreamInv'
<1>1. PICK list \in VecLists, offset \in Offsets :
        /\ decode_iovecs(list) = "SUCCESS"
        /\ \E as \in AnswersTo(Buffers(list)) :
             LET cells == Moved(Buffers(list), as)
                 told == Told(Buffers(list), as)
             IN  /\ Len(cells) # 0 => offset + Len(cells) <= FileSize
                 /\ memory' = Stored(Cleared, cells, [k \in DOMAIN cells |-> file[offset + k]])
                 /\ shadow' = [k \in DOMAIN shadow |->
                                 IF k \in (offset + 1)..(offset + Len(told))
                                 THEN memory'[told[k - offset]] ELSE shadow[k]]
        /\ UNCHANGED <<position, got, output, sent, file, others>>
  BY DEF fd_pread
<1>2. PICK as \in AnswersTo(Buffers(list)) :
        LET cells == Moved(Buffers(list), as)
            told == Told(Buffers(list), as)
        IN  /\ memory' = Stored(Cleared, cells, [k \in DOMAIN cells |-> file[offset + k]])
            /\ shadow' = [k \in DOMAIN shadow |->
                            IF k \in (offset + 1)..(offset + Len(told))
                            THEN memory'[told[k - offset]] ELSE shadow[k]]
  BY <1>1
<1>3. PICK cells : cells = Moved(Buffers(list), as)
  OBVIOUS
<1>4. /\ cells \in Seq(InSize) /\ Told(Buffers(list), as) = cells
      /\ \A j, k \in 1..Len(cells) : cells[j] = cells[k] => j = k
  BY <1>1, <1>3, MovedCells
<1>5. PICK bytes : bytes = [k \in DOMAIN cells |-> file[offset + k]]
  OBVIOUS
<1>6. /\ memory' = Stored(Cleared, cells, bytes)
      /\ shadow' = [k \in DOMAIN shadow |->
                      IF k \in (offset + 1)..(offset + Len(cells))
                      THEN memory'[cells[k - offset]] ELSE shadow[k]]
  BY <1>2, <1>3, <1>4, <1>5
<1>7. offset \in Nat /\ Len(cells) \in Nat /\ DOMAIN cells = 1..Len(cells)
  BY <1>4, IOAssumption
<1>8. ASSUME NEW k \in 1..FileSize, k \in (offset + 1)..(offset + Len(cells))
      PROVE  memory'[cells[k - offset]] = file[k]
  <2>1. PICK j \in 1..Len(cells) : j = k - offset /\ offset + j = k
    <3>1. PICK q \in Nat : q = offset
      BY <1>7
    <3>2. PICK m \in Nat : m = Len(cells)
      BY <1>7
    <3>3. k \in (q + 1)..(q + m)
      BY <1>8, <3>1, <3>2
    <3>4. k - q \in 1..m /\ q + (k - q) = k
      BY ONLY <3>3, q \in Nat, m \in Nat
    <3> QED BY <3>1, <3>2, <3>4
  <2>2. cells[j] \in DOMAIN Cleared /\ \A i \in 1..Len(cells) : cells[i] = cells[j] => i = j
    <3>1. cells[j] \in InSize
      BY <1>4
    <3>2. \A i \in 1..Len(cells) : cells[i] = cells[j] => i = j
      BY <1>4
    <3> QED BY <3>1, <3>2 DEF Cleared, InSize
  <2>3. Stored(Cleared, cells, bytes)[cells[j]] = bytes[j]
    BY <1>4, <2>2, StoredAt
  <2>4. bytes[j] = file[k]
    BY <1>5, <1>7, <2>1
  <2> QED BY <1>6, <2>1, <2>3, <2>4
<1>9. shadow = file /\ DOMAIN file = 1..FileSize /\ file = [k \in 1..FileSize |-> file[k]]
  BY DEF StreamInv, ReadsLossless
<1>10. shadow' = [k \in 1..FileSize |-> file[k]]
  BY <1>6, <1>8, <1>9
<1>11. shadow' = file'
  BY <1>1, <1>9, <1>10
<1> QED BY <1>1, <1>11 DEF StreamInv, ReadsLossless, WritesExact

LEMMA FdPwriteKeeps ==
  ASSUME VectorsApart, StreamInv, fd_pwrite
  PROVE  StreamInv'
<1>1. PICK list \in VecLists, offset \in Offsets :
        /\ decode_iovecs(list) = "SUCCESS"
        /\ \E as \in AnswersTo(Buffers(list)) :
             LET cells == Moved(Buffers(list), as)
                 told == Told(Buffers(list), as)
             IN  /\ file' = [k \in DOMAIN file |->
                               IF k \in (offset + 1)..(offset + Len(cells))
                               THEN memory'[cells[k - offset]] ELSE file[k]]
                 /\ shadow' = [k \in DOMAIN shadow |->
                                 IF k \in (offset + 1)..(offset + Len(told))
                                 THEN memory'[told[k - offset]] ELSE shadow[k]]
        /\ UNCHANGED <<position, got, output, sent, others>>
  BY DEF fd_pwrite
<1>2. PICK as \in AnswersTo(Buffers(list)) :
        LET cells == Moved(Buffers(list), as)
            told == Told(Buffers(list), as)
        IN  /\ file' = [k \in DOMAIN file |->
                          IF k \in (offset + 1)..(offset + Len(cells))
                          THEN memory'[cells[k - offset]] ELSE file[k]]
            /\ shadow' = [k \in DOMAIN shadow |->
                            IF k \in (offset + 1)..(offset + Len(told))
                            THEN memory'[told[k - offset]] ELSE shadow[k]]
  BY <1>1
<1>3. Told(Buffers(list), as) = Moved(Buffers(list), as)
  BY <1>1, MovedCells
<1>4. shadow = file /\ DOMAIN file = 1..FileSize
  BY DEF StreamInv, ReadsLossless
<1>5. shadow' = file' /\ DOMAIN file' = 1..FileSize
  BY <1>2, <1>3, <1>4
<1>6. file' = [k \in 1..FileSize |-> file'[k]]
  BY <1>2, <1>4
<1> QED BY <1>1, <1>5, <1>6 DEF StreamInv, ReadsLossless, WritesExact

LEMMA StreamInvInductive ==
  ASSUME VectorsApart, StreamInv, [Next]_vars
  PROVE  StreamInv'
<1>1. CASE UNCHANGED <<position, got, output, sent, file, shadow>>
  BY <1>1 DEF StreamInv, ReadsLossless, WritesExact
<1>2. CASE fd_read
  BY <1>2, FdReadKeeps
<1>3. CASE fd_write
  BY <1>3, FdWriteKeeps
<1>4. CASE fd_pread
  BY <1>4, FdPreadKeeps
<1>5. CASE fd_pwrite
  BY <1>5, FdPwriteKeeps
<1>6. CASE BadVectors \/ OffsetOverflows \/ ReaddirFails \/ ListRefused \/ UNCHANGED vars
  BY <1>1, <1>6 DEF BadVectors, OffsetOverflows, ReaddirFails, ListRefused, vars
<1>7. CASE fd_readdir \/ Rewind \/ args_get
  BY <1>1, <1>7 DEF fd_readdir, Rewind, args_get
<1> QED BY <1>2, <1>3, <1>4, <1>5, <1>6, <1>7 DEF Next

LEMMA StreamInvInitial ==
  ASSUME Init
  PROVE  StreamInv
<1>1. got = <<>> /\ position = 0 /\ output = <<>> /\ sent = 0
  BY DEF Init
<1>2. [k \in 1..0 |-> k] = <<>>
  OBVIOUS
<1>3. file = [k \in 1..FileSize |-> k] /\ shadow = file
  BY DEF Init
<1>4. file = [k \in 1..FileSize |-> file[k]]
  BY <1>3
<1> QED BY <1>1, <1>2, <1>3, <1>4 DEF StreamInv, ReadsLossless, WritesExact

\* Over short reads, errors and retries a guest whose vectors do not overlap gets each
\* byte the resource gave up, once and in order, and a positional read shows it the file
\* (fd_read, fd_pread: read_resource_vectored).
THEOREM ReadingIsLossless == ASSUME VectorsApart PROVE Spec => []ReadsLossless
<1>1. StreamInv => ReadsLossless
  BY DEF StreamInv
<1> QED BY <1>1, StreamInvInitial, StreamInvInductive, PTL DEF Spec

\* Over short writes, errors and retries the output is given exactly the bytes the guest was
\* told are written, once and in order (fd_write: write_resource_vectored).
THEOREM WritingIsExact == ASSUME VectorsApart PROVE Spec => []WritesExact
<1>1. StreamInv => WritesExact
  BY DEF StreamInv
<1> QED BY <1>1, StreamInvInitial, StreamInvInductive, PTL DEF Spec
----------------------------------------------------------------------------
(***************************************************************************)
(* Directories.                                                            *)
(***************************************************************************)
Entries == Len(Names)
EntryByte == [entry : Nat, byte : Nat]
EntrySize(i) == HeaderLen + Names[i]

LEMMA NamesTyped ==
  Entries \in Nat /\ \A i \in 1..Entries : EntrySize(i) \in Nat \ {0}
<1>1. Names \in Seq(Nat) /\ HeaderLen \in Nat \ {0}
  BY IOAssumption
<1>2. ASSUME NEW i \in 1..Entries PROVE EntrySize(i) \in Nat \ {0}
  <2>1. PICK n \in Nat : n = Names[i]
    BY <1>1 DEF Entries
  <2>2. PICK h \in Nat \ {0} : h = HeaderLen
    BY <1>1
  <2>3. h + n \in Nat \ {0}
    OBVIOUS
  <2> QED BY <2>1, <2>2, <2>3 DEF EntrySize
<1> QED BY <1>1, <1>2 DEF Entries

LEMMA EntryBytesOf ==
  ASSUME NEW i \in 1..Entries
  PROVE  /\ EntryBytes(i) \in Seq(EntryByte) /\ Len(EntryBytes(i)) = EntrySize(i)
         /\ \A k \in 1..EntrySize(i) : EntryBytes(i)[k] = [entry |-> i, byte |-> k]
<1>1. PICK z \in Nat \ {0} : z = EntrySize(i)
  BY NamesTyped
<1>2. i \in Nat
  BY NamesTyped
<1>3. EntryBytes(i) = [k \in 1..z |-> [entry |-> i, byte |-> k]]
  BY <1>1 DEF EntryBytes, EntrySize
<1>4. \A k \in 1..z : [entry |-> i, byte |-> k] \in EntryByte
  BY <1>2 DEF EntryByte
<1> QED BY <1>1, <1>3, <1>4

\* Where the entries after cookie end in the stream of them: f[k] is the first k.
Streams(f, cookie) ==
  /\ f \in [0..(Entries - cookie) -> Seq(EntryByte)]
  /\ StreamFrom(cookie) = f[Entries - cookie]
  /\ Len(f[0]) = 0
  /\ \A k \in 1..(Entries - cookie) :
       /\ Len(f[k]) = Len(f[k - 1]) + EntrySize(cookie + k)
       /\ Len(f[k]) <= Len(f[Entries - cookie])
       /\ \A q \in 1..EntrySize(cookie + k) :
            f[Entries - cookie][Len(f[k - 1]) + q] = [entry |-> cookie + k, byte |-> q]
  /\ \A p \in 1..Len(f[Entries - cookie]) :
       \E k \in 1..(Entries - cookie) : p - Len(f[k - 1]) \in 1..EntrySize(cookie + k)
  /\ \A l \in 0..(Entries - cookie) : \A k \in 0..l : Len(f[k]) <= Len(f[l])

LEMMA StreamsFrom ==
  ASSUME NEW cookie \in 0..Entries
  PROVE  \E f : Streams(f, cookie)
<1> DEFINE n == Entries - cookie
           part(k) == EntryBytes(cookie + k)
           seqs == [k \in 1..n |-> part(k)]
<1>1. n \in Nat /\ \A k \in 1..n : cookie + k \in 1..Entries
  BY NamesTyped
<1>2. \A k \in 1..n : /\ EntryBytes(cookie + k) \in Seq(EntryByte)
                      /\ Len(EntryBytes(cookie + k)) = EntrySize(cookie + k)
  BY <1>1, EntryBytesOf
<1>3. seqs \in Seq(Seq(EntryByte)) /\ Len(seqs) = n /\ \A k \in 1..n : seqs[k] = EntryBytes(cookie + k)
  <2>1. \A k \in 1..n : part(k) \in Seq(EntryByte)
    BY <1>2
  <2>2. seqs = [k \in 1..n |-> part(k)] /\ n \in Nat
    BY <1>1
  <2>3. \A k \in 1..n : part(k) = EntryBytes(cookie + k)
    OBVIOUS
  <2> HIDE DEF n, part, seqs
  <2>4. seqs \in [1..n -> Seq(EntryByte)]
    BY <2>1, <2>2
  <2>5. seqs \in Seq(Seq(EntryByte)) /\ Len(seqs) = n
    BY <2>2, <2>4
  <2>6. \A k \in 1..n : seqs[k] = part(k)
    BY <2>2
  <2> QED BY <2>3, <2>5, <2>6
<1>4. StreamFrom(cookie) = FlattenSeq(seqs)
  BY DEF StreamFrom, Entries
<1> HIDE DEF seqs
<1>5. PICK f \in [0..Len(seqs) -> Seq(EntryByte)] : Laid(f, seqs) /\ FlattenSeq(seqs) = f[Len(seqs)]
  BY <1>3, FlattenOf
<1> HIDE DEF n
<1>6. f \in [0..n -> Seq(EntryByte)] /\ StreamFrom(cookie) = f[n] /\ f[0] = <<>>
  BY <1>3, <1>4, <1>5 DEF Laid
<1>7. ASSUME NEW k \in 1..n
      PROVE  /\ Len(f[k]) = Len(f[k - 1]) + EntrySize(cookie + k)
             /\ Len(f[k]) <= Len(f[n])
             /\ \A q \in 1..EntrySize(cookie + k) :
                  f[n][Len(f[k - 1]) + q] = [entry |-> cookie + k, byte |-> q]
  <2>1. k \in 1..Len(seqs) /\ seqs[k] = EntryBytes(cookie + k) /\ Len(seqs[k]) = EntrySize(cookie + k)
    BY <1>2, <1>3
  <2>2. /\ Len(f[k]) = Len(f[k - 1]) + Len(seqs[k])
        /\ Len(f[k]) <= Len(f[Len(seqs)])
        /\ \A q \in 1..Len(seqs[k]) : f[Len(seqs)][Len(f[k - 1]) + q] = seqs[k][q]
    <3>1. seqs \in Seq(Seq(EntryByte)) /\ f \in [0..Len(seqs) -> Seq(EntryByte)] /\ Laid(f, seqs)
      BY <1>3, <1>5
    <3>2. PICK s : s = seqs
      OBVIOUS
    <3>3. PICK E : E = EntryByte
      OBVIOUS
    <3>4. s \in Seq(Seq(E)) /\ f \in [0..Len(s) -> Seq(E)] /\ Laid(f, s) /\ k \in 1..Len(s)
      BY <2>1, <3>1, <3>2, <3>3
    <3>5. Len(f[k]) = Len(f[k - 1]) + Len(s[k]) /\ Len(f[k]) <= Len(f[Len(s)])
      BY ONLY <3>4, LaidLengths
    <3>6. ASSUME NEW q \in 1..Len(s[k]) PROVE f[Len(s)][Len(f[k - 1]) + q] = s[k][q]
      <4>1. q \in 1..Len(s[k])
        OBVIOUS
      <4> QED BY ONLY ZenonT(60), <3>4, <4>1, LaidHolds
    <3> QED BY <3>2, <3>5, <3>6
  <2>3. \A q \in 1..EntrySize(cookie + k) : seqs[k][q] = [entry |-> cookie + k, byte |-> q]
    BY <1>1, <2>1, EntryBytesOf
  <2> QED BY <1>3, <2>1, <2>2, <2>3
<1>8. ASSUME NEW p \in 1..Len(f[n])
      PROVE  \E k \in 1..n : p - Len(f[k - 1]) \in 1..EntrySize(cookie + k)
  <2>1. PICK k \in 1..Len(seqs) : p - Len(f[k - 1]) \in 1..Len(seqs[k])
    BY <1>3, <1>5, LaidFrom
  <2>2. k \in 1..n /\ Len(seqs[k]) = EntrySize(cookie + k)
    BY <1>2, <1>3, <2>1
  <2> QED BY <2>1, <2>2
<1>9. ASSUME NEW l \in 0..n, NEW k \in 0..l PROVE Len(f[k]) <= Len(f[l])
  <2>1. k \in 0..Len(seqs) /\ l \in k..Len(seqs)
    BY <1>1, <1>3
  <2>2. Begins(f[k], f[l])
    BY <1>3, <1>5, <2>1, LaidGrows
  <2> QED BY <2>2 DEF Begins
<1>10. Len(f[0]) = 0
  BY <1>6
<1> QED BY <1>6, <1>7, <1>8, <1>9, <1>10 DEF Streams, n

\* The entries whole in a page are those whose end is in it.
LEMMA WholeAre ==
  ASSUME NEW cookie \in 0..Entries, NEW f, Streams(f, cookie), NEW len \in Nat
  PROVE  /\ WholeIn(Page(cookie, len)) =
              {cookie + k : k \in {j \in 1..(Entries - cookie) : Len(f[j]) <= len}}
         /\ Len(Page(cookie, len)) = Smaller(len, Len(f[Entries - cookie]))
<1>1. PICK n \in Nat : n = Entries - cookie
  BY NamesTyped
<1>2. PICK s \in Seq(EntryByte) : s = f[n] /\ s = StreamFrom(cookie)
  BY <1>1 DEF Streams
<1>3. PICK l \in Nat : l = Smaller(len, Len(s))
  BY <1>2 DEF Smaller
<1>4. l <= len /\ l <= Len(s) /\ (l = len \/ l = Len(s))
  BY <1>2, <1>3 DEF Smaller
<1>5. PICK page : page = SubSeq(s, 1, l)
  OBVIOUS
<1>6. page \in Seq(EntryByte) /\ Len(page) = l /\ \A p \in 1..l : page[p] = s[p]
  BY <1>4, <1>5
<1>7. page = Page(cookie, len)
  BY <1>2, <1>3, <1>5 DEF Page
<1>8. ASSUME NEW i \in WholeIn(page)
      PROVE  \E k \in 1..n : i = cookie + k /\ Len(f[k]) <= len
  <2>1. PICK p \in 1..l : page[p].entry = i /\ page[p].byte = EntrySize(i)
    BY <1>6 DEF WholeIn, EntrySize
  <2>2. p \in 1..Len(s)
    BY <1>4
  <2>3. PICK k \in 1..n : p - Len(f[k - 1]) \in 1..EntrySize(cookie + k)
    BY <1>1, <1>2, <2>2 DEF Streams
  <2>4. PICK a \in Nat : a = Len(f[k - 1])
    <3>1. k - 1 \in 0..n
      OBVIOUS
    <3> QED BY <1>1, <3>1 DEF Streams
  <2>5. PICK q \in 1..EntrySize(cookie + k) : q = p - a
    BY <2>3, <2>4
  <2>6. s[a + q] = [entry |-> cookie + k, byte |-> q]
    BY <1>1, <1>2, <2>4, <2>5, ZenonT(60) DEF Streams
  <2>7. cookie + k \in 1..Entries
    BY <1>1, NamesTyped
  <2>8. PICK z \in Nat : z = EntrySize(cookie + k)
    BY <2>7, NamesTyped
  <2>9. a + q = p
    BY <2>5, <2>8
  <2>10. i = cookie + k /\ q = z
    BY <1>6, <2>1, <2>6, <2>8, <2>9
  <2>11. Len(f[k]) = a + z
    BY <1>1, <2>4, <2>8 DEF Streams
  <2>12. Len(f[k]) = p
    BY <2>9, <2>10, <2>11
  <2>13. p <= len
    BY <1>4
  <2> QED BY <2>10, <2>12, <2>13
<1>9. ASSUME NEW k \in 1..n, Len(f[k]) <= len
      PROVE  cookie + k \in WholeIn(page)
  <2>1. cookie + k \in 1..Entries
    BY <1>1, NamesTyped
  <2>2. PICK z \in Nat \ {0} : z = EntrySize(cookie + k)
    BY <2>1, NamesTyped
  <2>3. PICK a \in Nat : a = Len(f[k - 1])
    <3>1. k - 1 \in 0..n
      OBVIOUS
    <3> QED BY <1>1, <3>1 DEF Streams
  <2>4. Len(f[k]) = a + z /\ Len(f[k]) <= Len(s)
    BY <1>1, <1>2, <2>2, <2>3 DEF Streams
  <2>5. s[a + z] = [entry |-> cookie + k, byte |-> z]
    <3>1. z \in 1..EntrySize(cookie + k)
      BY <2>2
    <3> QED BY <1>1, <1>2, <2>3, <3>1 DEF Streams
  <2>6. a + z \in 1..l
    BY <1>4, <1>9, <2>4
  <2>7. a + z \in DOMAIN page /\ page[a + z].entry = cookie + k /\ page[a + z].byte = EntrySize(cookie + k)
    BY <1>6, <2>2, <2>5, <2>6
  <2> QED BY <2>1, <2>7 DEF WholeIn, EntrySize, Entries
<1>10. WholeIn(page) = {cookie + k : k \in {j \in 1..n : Len(f[j]) <= len}}
  BY <1>8, <1>9
<1>11. Len(page) = Smaller(len, Len(f[n]))
  BY <1>2, <1>3, <1>6
<1> QED BY <1>1, <1>7, <1>10, <1>11
LEMMA Greatest ==
  ASSUME NEW n \in Nat, NEW K, K \subseteq 0..n, K # {}
  PROVE  \E m \in K : \A j \in K : j <= m
<1> DEFINE T == {x \in 0..n : n - x \in K}
<1>1. T \subseteq Nat /\ T # {}
  <2>1. PICK j \in K : TRUE
    OBVIOUS
  <2>2. j \in 0..n
    BY <2>1
  <2>3. n - j \in 0..n /\ n - (n - j) = j
    BY <2>2
  <2>4. n - j \in T
    BY <2>1, <2>3
  <2>5. T \subseteq Nat
    OBVIOUS
  <2> HIDE DEF T
  <2> QED BY <2>4, <2>5
<1>2. PICK x \in T : \A y \in T : x <= y
  <2> HIDE DEF T
  <2> QED BY <1>1, Least
<1>3. ASSUME NEW j \in K PROVE j <= n - x
  <2>1. j \in 0..n
    OBVIOUS
  <2>2. n - j \in 0..n /\ n - (n - j) = j
    BY <2>1
  <2>3. n - j \in T
    BY <2>2
  <2> QED BY <1>2, <2>1, <2>3
<1>4. n - x \in K
  BY <1>2
<1> QED BY <1>3, <1>4

\* The m numbers after c, one after the other.
After(c, m) == [k \in 1..m |-> c + k]

LEMMA AfterOneMore ==
  ASSUME NEW c \in Nat, NEW m \in Nat
  PROVE  After(c, m) \o <<c + (m + 1)>> = After(c, m + 1)
<1>1. PICK s : s = After(c, m)
  OBVIOUS
<1>2. s \in Seq(Nat) /\ Len(s) = m /\ \A k \in 1..m : s[k] = c + k
  BY <1>1 DEF After
<1>3. PICK x \in Nat : x = c + (m + 1)
  OBVIOUS
<1>4. PICK t : t = s \o <<x>>
  OBVIOUS
<1>5. t \in Seq(Nat) /\ Len(t) = m + 1 /\ (\A k \in 1..m : t[k] = s[k]) /\ t[m + 1] = x
  BY <1>2, <1>4, SMTT(30), ZenonT(30)
<1>6. \A k \in 1..(m + 1) : t[k] = c + k
  BY <1>2, <1>3, <1>5
<1>7. t = [k \in 1..(m + 1) |-> c + k]
  BY <1>5, <1>6
<1> QED BY <1>1, <1>3, <1>4, <1>7 DEF After

LEMMA AfterTyped ==
  ASSUME NEW c \in Nat, NEW m \in Nat
  PROVE  After(c, m) \in Seq(Nat) /\ After(c, m) \o <<>> = After(c, m)
<1>1. After(c, m) \in Seq(Nat)
  BY DEF After
<1> QED BY <1>1, ConcatEmptySeq

\* In the order of the directory, the entries after c up to c + m are just those.
LEMMA InOrderOf ==
  ASSUME NEW c \in 0..Entries, NEW m \in 0..(Entries - c),
         NEW S, \A i \in 1..Entries : i \in S <=> (c < i /\ i <= c + m)
  PROVE  InOrder(S) = After(c, m)
<1> DEFINE part(i) == IF i \in S THEN <<i>> ELSE <<>>
           size(i) == IF i <= c THEN 0 ELSE IF i <= c + m THEN i - c ELSE m
           seqs == [i \in 1..Entries |-> part(i)]
<1>1. Entries \in Nat /\ c \in Nat /\ m \in Nat /\ c + m <= Entries
  BY NamesTyped
<1>2. InOrder(S) = FlattenSeq(seqs)
  BY DEF InOrder, Entries
<1>3. \A i \in 1..Entries : part(i) \in Seq(Nat)
  OBVIOUS
<1>4. seqs = [i \in 1..Entries |-> part(i)]
  OBVIOUS
<1>5. \A i \in 1..Entries : part(i) = IF i \in S THEN <<i>> ELSE <<>>
  OBVIOUS
<1> HIDE DEF part, seqs
<1>6. seqs \in Seq(Seq(Nat)) /\ Len(seqs) = Entries /\ \A i \in 1..Entries : seqs[i] = part(i)
  BY <1>1, <1>3, <1>4
<1>7. PICK f \in [0..Len(seqs) -> Seq(Nat)] : Laid(f, seqs) /\ FlattenSeq(seqs) = f[Len(seqs)]
  BY <1>6, FlattenOf
<1> DEFINE T == {i \in 0..Entries : f[i] = After(c, size(i))}
<1>8. 0 \in T
  <2>1. After(c, 0) = <<>>
    BY DEF After
  <2>2. f[0] = <<>> /\ size(0) = 0 /\ 0 \in 0..Entries
    BY <1>1, <1>7 DEF Laid
  <2> HIDE DEF size
  <2> QED BY <2>1, <2>2
<1>9. ASSUME NEW i \in 0..(Entries - 1), i \in T PROVE i + 1 \in T
  <2>1. i \in Nat /\ i + 1 \in 1..Entries /\ i + 1 \in 0..Entries /\ (i + 1) - 1 = i
    BY <1>1
  <2>2. f[i + 1] = f[i] \o part(i + 1)
    BY <1>6, <1>7, <2>1 DEF Laid
  <2>3. f[i] = After(c, size(i))
    BY <1>9
  <2>4. CASE i + 1 <= c
    <3>1. i + 1 \notin S /\ size(i) = 0 /\ size(i + 1) = 0
      BY <1>1, <2>1, <2>4
    <3>2. part(i + 1) = <<>>
      BY <1>5, <2>1, <3>1
    <3> HIDE DEF size
    <3>3. After(c, 0) \o <<>> = After(c, 0)
      BY <1>1, AfterTyped
    <3>4. f[i + 1] = After(c, size(i + 1))
      BY <2>2, <2>3, <3>1, <3>2, <3>3
    <3> QED BY <2>1, <3>4
  <2>5. CASE c < i + 1 /\ i + 1 <= c + m
    <3>1. i + 1 \in S /\ size(i) = i - c /\ size(i + 1) = (i - c) + 1 /\ i - c \in Nat /\ i + 1 = c + ((i - c) + 1)
      BY <1>1, <2>1, <2>5
    <3>2. part(i + 1) = <<i + 1>>
      BY <1>5, <2>1, <3>1
    <3> HIDE DEF size
    <3>3. f[i + 1] = After(c, size(i + 1))
      <4>1. PICK l \in Nat : l = i - c
        BY <3>1
      <4>2. f[i + 1] = After(c, l) \o <<c + (l + 1)>>
        BY <2>2, <2>3, <3>1, <3>2, <4>1
      <4> QED BY <1>1, <3>1, <4>1, <4>2, AfterOneMore
    <3> QED BY <2>1, <3>3
  <2>6. CASE c + m < i + 1
    <3>1. i + 1 \notin S /\ size(i) = m /\ size(i + 1) = m
      BY <1>1, <2>1, <2>6
    <3>2. part(i + 1) = <<>>
      BY <1>5, <2>1, <3>1
    <3> HIDE DEF size
    <3>3. f[i + 1] = After(c, size(i + 1))
      BY <1>1, <2>2, <2>3, <3>1, <3>2, AfterTyped
    <3> QED BY <2>1, <3>3
  <2> QED BY <1>1, <2>1, <2>4, <2>5, <2>6
<1>10. \A i \in 0..Entries : i \in T
  <2> HIDE DEF T
  <2> QED BY <1>1, <1>8, <1>9, UpTo
<1>11. f[Entries] = After(c, size(Entries)) /\ size(Entries) = m
  BY <1>1, <1>10
<1> QED BY <1>2, <1>6, <1>7, <1>11
\* The inductive invariant of a guest's reading of the directory.
ListedTo(c, d) ==
  c \in 0..Entries /\ listing = [cookie |-> c, entries |-> Counting(c), done |-> d] /\ (d => c = Entries)
DirectoryInv == \E c \in 0..Entries, d \in BOOLEAN : ListedTo(c, d)

LEMMA AfterCounting ==
  ASSUME NEW c \in Nat, NEW m \in Nat
  PROVE  Counting(c) \o After(c, m) = Counting(c + m)
BY CountingOn DEF After

LEMMA FdReaddirKeeps ==
  ASSUME DirectoryInv, fd_readdir
  PROVE  DirectoryInv'
<1>1. PICK c \in 0..Entries, d \in BOOLEAN : ListedTo(c, d)
  BY DEF DirectoryInv
<1>2. PICK len \in BufLens :
        listing' =
          [cookie |-> IF WholeIn(Page(listing.cookie, len)) = {} THEN listing.cookie
                      ELSE CHOOSE i \in WholeIn(Page(listing.cookie, len)) :
                             \A j \in WholeIn(Page(listing.cookie, len)) : j <= i,
           entries |-> listing.entries \o InOrder(WholeIn(Page(listing.cookie, len))),
           done |-> Len(Page(listing.cookie, len)) < len]
  BY DEF fd_readdir
<1>3. listing.cookie = c /\ listing.entries = Counting(c)
  BY <1>1 DEF ListedTo
<1>4. len \in Nat
  BY IOAssumption
<1>5. PICK n \in Nat : n = Entries - c
  BY NamesTyped
<1>6. c \in Nat /\ Entries \in Nat /\ Entries = c + n
  BY <1>5, NamesTyped
<1>7. PICK f : Streams(f, c)
  BY StreamsFrom
<1>8. PICK page : page = Page(c, len)
  OBVIOUS
<1>9. PICK whole : whole = WholeIn(page)
  OBVIOUS
<1>10. /\ whole = {c + k : k \in {j \in 1..n : Len(f[j]) <= len}}
       /\ Len(page) = Smaller(len, Len(f[n]))
  BY ZenonT(60), <1>4, <1>5, <1>7, <1>8, <1>9, WholeAre
<1>11. /\ f \in [0..n -> Seq(EntryByte)] /\ Len(f[0]) = 0
       /\ \A l \in 0..n : \A k \in 0..l : Len(f[k]) <= Len(f[l])
  BY <1>5, <1>7 DEF Streams
<1> DEFINE K == {j \in 0..n : Len(f[j]) <= len}
<1>12. PICK m \in K : \A j \in K : j <= m
  <2>1. 0 \in K /\ K \subseteq 0..n
    BY <1>4, <1>11
  <2> HIDE DEF K
  <2> QED BY <2>1, Greatest
<1>13. m \in 0..n /\ Len(f[m]) <= len /\ m \in Nat
  OBVIOUS
<1>14. \A j \in 0..n : Len(f[j]) \in Nat
  BY <1>11
<1>15. ASSUME NEW j \in 1..n PROVE Len(f[j]) <= len <=> j <= m
  <2>1. Len(f[j]) <= len => j <= m
    BY <1>12
  <2>2. ASSUME j <= m PROVE Len(f[j]) <= len
    <3>1. j \in 0..m
      BY <2>2
    <3>2. Len(f[j]) <= Len(f[m])
      BY <1>11, <1>13, <3>1
    <3>3. Len(f[j]) \in Nat /\ Len(f[m]) \in Nat
      BY <1>13, <1>14
    <3> QED BY <1>4, <1>13, <3>2, <3>3
  <2> QED BY <2>1, <2>2
<1> HIDE DEF K
<1>16. {j \in 1..n : Len(f[j]) <= len} = 1..m
  <2>1. \A j \in 1..n : j \in 1..m <=> Len(f[j]) <= len
    BY <1>13, <1>15
  <2>2. 1..m \subseteq 1..n
    BY <1>13
  <2> QED BY ONLY <2>1, <2>2
<1>17. whole = {c + k : k \in 1..m}
  BY <1>10, <1>16
<1>18. \A i \in Nat : i \in whole <=> (c < i /\ i <= c + m)
  <2> SUFFICES ASSUME NEW i \in Nat PROVE i \in whole <=> (c < i /\ i <= c + m)
    OBVIOUS
  <2>1. i \in whole => (c < i /\ i <= c + m)
    BY <1>6, <1>13, <1>17
  <2>2. ASSUME c < i, i <= c + m PROVE i \in whole
    <3>1. i - c \in 1..m /\ c + (i - c) = i
      BY <1>6, <1>13, <2>2
    <3> QED BY <1>17, <3>1
  <2> QED BY <2>1, <2>2
<1>19. InOrder(whole) = After(c, m)
  <2>1. m \in 0..(Entries - c) /\ \A i \in 1..Entries : i \in whole <=> (c < i /\ i <= c + m)
    BY <1>5, <1>13, <1>18
  <2> QED BY ONLY <2>1, c \in 0..Entries, InOrderOf
<1>20. (IF whole = {} THEN c ELSE CHOOSE i \in whole : \A j \in whole : j <= i) = c + m
  <2>1. CASE m = 0
    <3>1. whole = {}
      BY <1>17, <2>1
    <3> QED BY <1>6, <2>1, <3>1
  <2>2. CASE m # 0
    <3>1. whole \subseteq Nat
      BY <1>6, <1>17
    <3>2. c + m \in Nat
      BY <1>6, <1>13
    <3>3. c + m \in whole /\ \A j \in whole : j <= c + m
      BY <1>6, <1>13, <1>18, <2>2, <3>1, <3>2
    <3>4. \A i \in whole : (\A j \in whole : j <= i) => i = c + m
      BY <1>18, <3>1, <3>2, <3>3
    <3>5. (CHOOSE i \in whole : \A j \in whole : j <= i) = c + m
      BY <3>3, <3>4
    <3> QED BY <3>3, <3>5
  <2> QED BY <2>1, <2>2
<1>21. PICK e \in BOOLEAN : e = (Len(page) < len)
  <2>1. PICK x \in Nat : x = Len(page)
    BY <1>4, <1>5, <1>10, <1>14 DEF Smaller
  <2>2. (x < len) \in BOOLEAN
    BY <1>4
  <2> QED BY ONLY <2>1, <2>2, Zenon
<1>22. ASSUME e PROVE c + m = Entries
  <2>1. PICK s \in Nat : s = Len(f[n])
    BY <1>14, <1>5
  <2>2. Len(page) < len
    BY <1>21, <1>22
  <2>3. Len(page) = IF len < s THEN len ELSE s
    BY <1>10, <2>1 DEF Smaller
  <2>4. s <= len
    BY <1>4, <2>1, <2>2, <2>3
  <2>5. n \in K
    BY <1>5, <2>1, <2>4 DEF K
  <2>6. n <= m
    BY <1>12, <2>5
  <2> QED BY <1>5, <1>6, <1>13, <2>6
<1>23. Counting(c) \o After(c, m) = Counting(c + m)
  BY <1>6, <1>13, AfterCounting
<1>24. listing' = [cookie |-> c + m, entries |-> Counting(c + m), done |-> e]
  BY <1>2, <1>3, <1>8, <1>9, <1>19, <1>20, <1>21, <1>23
<1>25. c + m \in 0..Entries
  BY <1>5, <1>6, <1>13
<1>26. ListedTo(c + m, e)'
  BY <1>22, <1>24, <1>25 DEF ListedTo, Entries
<1> QED BY <1>25, <1>26 DEF DirectoryInv, Entries

LEMMA DirectoryInvInductive == DirectoryInv /\ [Next]_vars => DirectoryInv'
<1> SUFFICES ASSUME DirectoryInv, [Next]_vars PROVE DirectoryInv'
  OBVIOUS
<1>1. CASE UNCHANGED listing
  BY <1>1 DEF DirectoryInv, ListedTo, Entries
<1>2. CASE fd_readdir
  BY <1>2, FdReaddirKeeps
<1>3. CASE Rewind
  <2>1. listing' = [cookie |-> 0, entries |-> <<>>, done |-> FALSE]
    BY <1>3 DEF Rewind
  <2>2. Counting(0) = <<>> /\ 0 \in 0..Entries
    BY NamesTyped DEF Counting
  <2>3. ListedTo(0, FALSE)'
    BY <2>1, <2>2 DEF ListedTo, Entries
  <2> QED BY <2>2, <2>3 DEF DirectoryInv, Entries
<1>4. UNCHANGED listing \/ fd_readdir \/ Rewind
  BY DEF Next, vars, BadVectors, fd_read, fd_write, OffsetOverflows, fd_pread, fd_pwrite,
         ReaddirFails, args_get, ListRefused, others
<1> QED BY <1>1, <1>2, <1>3, <1>4

LEMMA DirectoryInvInitial == Init => DirectoryInv
<1> SUFFICES ASSUME Init PROVE DirectoryInv
  OBVIOUS
<1>1. Counting(0) = <<>> /\ 0 \in 0..Entries
  BY NamesTyped DEF Counting
<1>2. ListedTo(0, FALSE)
  BY <1>1 DEF Init, ListedTo
<1> QED BY <1>1, <1>2 DEF DirectoryInv

\* Whatever the sizes of its buffers, and wherever they cut a header or a name, a guest that
\* goes on from the last entry it found whole lists each entry once, in order, and stops only
\* when it has them all (fd_readdir: the cookie and the full buffer).
THEOREM DirectoryIsComplete == Spec => []DirectoryComplete
<1>1. DirectoryInv => DirectoryComplete
  <2> SUFFICES ASSUME NEW c \in 0..Entries, NEW d \in BOOLEAN, ListedTo(c, d) PROVE DirectoryComplete
    BY DEF DirectoryInv
  <2>1. listing.cookie = c /\ listing.entries = Counting(c) /\ listing.done = d /\ (d => c = Entries)
    BY DEF ListedTo
  <2> QED BY <2>1 DEF DirectoryComplete, Counting, Entries
<1> QED BY <1>1, DirectoryInvInitial, DirectoryInvInductive, PTL DEF Spec
----------------------------------------------------------------------------
(***************************************************************************)
(* Lists of strings.                                                       *)
(***************************************************************************)
WithNul(list) == [i \in 1..Len(list) |-> Append(list[i], 0)]

LEMMA WithNulTyped ==
  ASSUME NEW list \in Seq(Seq(Nat))
  PROVE  /\ WithNul(list) \in Seq(Seq(Nat)) /\ Len(WithNul(list)) = Len(list)
         /\ \A i \in 1..Len(list) :
              /\ WithNul(list)[i] = Append(list[i], 0)
              /\ WithNul(list)[i] \in Seq(Nat) /\ Len(WithNul(list)[i]) = Len(list[i]) + 1
<1>1. ASSUME NEW i \in 1..Len(list)
      PROVE  Append(list[i], 0) \in Seq(Nat) /\ Len(Append(list[i], 0)) = Len(list[i]) + 1
  <2>1. PICK s \in Seq(Nat) : s = list[i]
    OBVIOUS
  <2>2. Append(s, 0) \in Seq(Nat) /\ Len(Append(s, 0)) = Len(s) + 1
    OBVIOUS
  <2> QED BY <2>1, <2>2
<1> DEFINE part(i) == Append(list[i], 0)
<1>2. PICK n \in Nat : n = Len(list)
  OBVIOUS
<1>3. PICK w : w = WithNul(list)
  OBVIOUS
<1>4. w = [i \in 1..n |-> part(i)]
  BY <1>2, <1>3 DEF WithNul
<1>5. \A i \in 1..n : part(i) \in Seq(Nat) /\ Len(part(i)) = Len(list[i]) + 1 /\ part(i) = Append(list[i], 0)
  BY <1>1, <1>2
<1> HIDE DEF part
<1>6. w \in [1..n -> Seq(Nat)]
  BY <1>4, <1>5
<1>7. w \in Seq(Seq(Nat)) /\ Len(w) = n
  BY ONLY <1>6, n \in Nat
<1>8. \A i \in 1..n : w[i] = part(i)
  BY <1>4
<1> QED BY <1>2, <1>3, <1>5, <1>7, <1>8

LEMMA TerminatedIs ==
  ASSUME NEW list \in Seq(Seq(Nat))
  PROVE  Terminated(list) = FlattenSeq(WithNul(list))
<1>1. DOMAIN list = 1..Len(list)
  OBVIOUS
<1> QED BY <1>1 DEF Terminated, WithNul

LEMMA LaidAgreeInNat ==
  ASSUME NEW u \in Seq(Seq(Nat)), NEW v \in Seq(Seq(Nat)), NEW f, NEW g, Laid(g, u), Laid(f, v),
         NEW m \in Nat, m <= Len(u), m <= Len(v), \A i \in 1..m : u[i] = v[i]
  PROVE  g[m] = f[m]
BY LaidAgree

LEMMA TerminatedBefore ==
  ASSUME NEW list \in Seq(Seq(Nat)), NEW f, Laid(f, WithNul(list)), NEW i \in 1..Len(list)
  PROVE  Terminated(SubSeq(list, 1, i - 1)) = f[i - 1]
<1>1. PICK s : s = SubSeq(list, 1, i - 1)
  OBVIOUS
<1>2. s \in Seq(Seq(Nat)) /\ Len(s) = i - 1 /\ i - 1 \in Nat /\ i - 1 <= Len(list)
  BY <1>1
<1>3. \A j \in 1..(i - 1) : s[j] = list[j] /\ j \in 1..Len(list) /\ j \in 1..Len(s)
  BY <1>1, <1>2
<1>4. WithNul(s) \in Seq(Seq(Nat)) /\ Len(WithNul(s)) = i - 1
  BY <1>2, WithNulTyped
<1>5. WithNul(list) \in Seq(Seq(Nat)) /\ Len(WithNul(list)) = Len(list)
  BY WithNulTyped
<1>6. \A j \in 1..(i - 1) : WithNul(s)[j] = WithNul(list)[j]
  <2> SUFFICES ASSUME NEW j \in 1..(i - 1) PROVE WithNul(s)[j] = WithNul(list)[j]
    OBVIOUS
  <2>1. WithNul(s)[j] = Append(s[j], 0)
    BY <1>2, <1>3, WithNulTyped
  <2>2. WithNul(list)[j] = Append(list[j], 0)
    BY <1>3, WithNulTyped
  <2> QED BY <1>3, <2>1, <2>2
<1>7. PICK g \in [0..Len(WithNul(s)) -> Seq(Nat)] :
        Laid(g, WithNul(s)) /\ FlattenSeq(WithNul(s)) = g[Len(WithNul(s))]
  BY <1>4, FlattenOf
<1>8. PICK m \in Nat : m = i - 1
  BY <1>2
<1>9. g[m] = f[m]
  <2>1. PICK u : u = WithNul(s)
    OBVIOUS
  <2>2. PICK v : v = WithNul(list)
    OBVIOUS
  <2>3. u \in Seq(Seq(Nat)) /\ v \in Seq(Seq(Nat)) /\ Laid(f, v)
    BY <1>4, <1>5, <2>1, <2>2
  <2>4. m <= Len(u) /\ m <= Len(v) /\ \A j \in 1..m : u[j] = v[j]
    BY <1>2, <1>4, <1>5, <1>6, <1>8, <2>1, <2>2
  <2>5. PICK h : h = g
    OBVIOUS
  <2>6. Laid(h, u)
    BY <1>7, <2>1, <2>5
  <2>7. h[m] = f[m]
    BY ONLY LaidAgreeInNat, <2>3, <2>4, <2>6, m \in Nat
  <2> QED BY <2>5, <2>7
<1>10. Terminated(s) = g[m]
  BY <1>2, <1>4, <1>7, <1>8, TerminatedIs
<1> QED BY <1>1, <1>8, <1>9, <1>10

LEMMA SameLengths ==
  ASSUME NEW s \in Seq(Seq(Nat)), NEW f \in [0..Len(s) -> Seq(Nat)], Laid(f, s),
         NEW t \in Seq(Seq(Nat)), NEW g \in [0..Len(t) -> Seq(Nat)], Laid(g, t),
         Len(s) = Len(t), \A i \in 1..Len(s) : Len(s[i]) = Len(t[i])
  PROVE  \A i \in 0..Len(s) : Len(f[i]) = Len(g[i])
<1> DEFINE T == {i \in 0..Len(s) : Len(f[i]) = Len(g[i])}
<1>1. 0 \in T
  BY DEF Laid
<1>2. ASSUME NEW i \in 0..(Len(s) - 1), i \in T PROVE i + 1 \in T
  <2>1. i + 1 \in 1..Len(s) /\ i + 1 \in 1..Len(t) /\ (i + 1) - 1 = i /\ i + 1 \in 0..Len(s)
    OBVIOUS
  <2>2. Len(f[i + 1]) = Len(f[i]) + Len(s[i + 1])
    BY <2>1, LaidLengths
  <2>3. Len(g[i + 1]) = Len(g[i]) + Len(t[i + 1])
    BY <2>1, LaidLengths
  <2>4. Len(f[i]) = Len(g[i])
    BY <1>2
  <2> QED BY <2>1, <2>2, <2>3, <2>4
<1>3. \A i \in 0..Len(s) : i \in T
  <2>1. Len(s) \in Nat
    OBVIOUS
  <2> HIDE DEF T
  <2> QED BY <1>1, <1>2, <2>1, UpTo
<1> QED BY <1>3

\* Cells that go on from each other, laid end to end, go on from the first.
LEMMA CellsGoOn ==
  ASSUME NEW t \in Seq(Seq(Nat)), NEW g \in [0..Len(t) -> Seq(Nat)], Laid(g, t), NEW b \in Nat,
         \A k \in 1..Len(t) : \A q \in 1..Len(t[k]) : t[k][q] = b + Len(g[k - 1]) + q - 1
  PROVE  \A p \in 1..Len(g[Len(t)]) : g[Len(t)][p] = b + p - 1
<1> SUFFICES ASSUME NEW p \in 1..Len(g[Len(t)]) PROVE g[Len(t)][p] = b + p - 1
  OBVIOUS
<1>1. PICK k \in 1..Len(t) : p - Len(g[k - 1]) \in 1..Len(t[k])
  BY LaidFrom
<1>2. PICK a \in Nat : a = Len(g[k - 1])
  <2>1. k - 1 \in 0..Len(t)
    OBVIOUS
  <2>2. PICK s \in Seq(Nat) : s = g[k - 1]
    BY <2>1
  <2>3. Len(s) \in Nat
    OBVIOUS
  <2> QED BY ONLY <2>2, <2>3
<1>3. PICK q \in 1..Len(t[k]) : q = p - a
  BY <1>1, <1>2
<1>4. q \in Nat /\ p \in Nat /\ a + q = p
  BY <1>3
<1>5. g[Len(t)][Len(g[k - 1]) + q] = t[k][q]
  BY ONLY ZenonT(60), t \in Seq(Seq(Nat)), g \in [0..Len(t) -> Seq(Nat)], Laid(g, t), k \in 1..Len(t),
          q \in 1..Len(t[k]), LaidHolds
<1>6. t[k][q] = b + a + q - 1
  BY <1>2
<1>7. g[Len(t)][p] = b + a + q - 1
  BY <1>2, <1>4, <1>5, <1>6
<1> QED BY <1>4, <1>7
CellsOf(list, buffer, i) == [k \in 1..(Len(list[i]) + 1) |-> StringAt(list, buffer, i) + k - 1]

LEMMA StringAtIs ==
  ASSUME NEW list \in Seq(Seq(Nat)), NEW buffer \in Nat, NEW f \in [0..Len(list) -> Seq(Nat)],
         Laid(f, WithNul(list)), NEW i \in 1..Len(list)
  PROVE  StringAt(list, buffer, i) = buffer + Len(f[i - 1]) /\ StringAt(list, buffer, i) \in Nat
<1>1. Terminated(SubSeq(list, 1, i - 1)) = f[i - 1]
  <2>1. PICK h : h = f
    OBVIOUS
  <2>2. Laid(h, WithNul(list))
    BY <2>1
  <2>3. Terminated(SubSeq(list, 1, i - 1)) = h[i - 1]
    BY ONLY <2>2, list \in Seq(Seq(Nat)), i \in 1..Len(list), TerminatedBefore
  <2> QED BY <2>1, <2>3
<1>2. i - 1 \in 0..Len(list)
  OBVIOUS
<1>3. PICK s \in Seq(Nat) : s = f[i - 1]
  BY <1>2
<1>4. Len(s) \in Nat
  OBVIOUS
<1>5. StringAt(list, buffer, i) = buffer + Len(s)
  BY <1>1, <1>3 DEF StringAt, string_list_buffer_len
<1> QED BY <1>3, <1>4, <1>5

\* The cells of a list's strings go on from the buffer's first.
LEMMA CellsOfList ==
  ASSUME NEW list \in Seq(Seq(Nat)), NEW buffer \in Nat, NEW f \in [0..Len(list) -> Seq(Nat)],
         Laid(f, WithNul(list))
  PROVE  FlattenSeq([i \in 1..Len(list) |-> CellsOf(list, buffer, i)])
           = [p \in 1..Len(f[Len(list)]) |-> buffer + p - 1]
<1>1. PICK n \in Nat : n = Len(list)
  OBVIOUS
<1> DEFINE part(i) == CellsOf(list, buffer, i)
           t == [i \in 1..n |-> part(i)]
<1>2. ASSUME NEW i \in 1..n
      PROVE  /\ part(i) \in Seq(Nat) /\ Len(part(i)) = Len(list[i]) + 1
             /\ \A k \in 1..(Len(list[i]) + 1) : part(i)[k] = buffer + Len(f[i - 1]) + k - 1
  <2>1. PICK a \in Nat : a = StringAt(list, buffer, i) /\ a = buffer + Len(f[i - 1])
    BY <1>1, StringAtIs
  <2>2. PICK z \in Nat : z = Len(list[i])
    <3>1. list[i] \in Seq(Nat)
      BY <1>1
    <3> QED BY <3>1
  <2>3. part(i) = [k \in 1..(z + 1) |-> a + k - 1]
    BY <2>1, <2>2 DEF CellsOf
  <2> HIDE DEF part
  <2>4. part(i) \in Seq(Nat) /\ Len(part(i)) = z + 1 /\ \A k \in 1..(z + 1) : part(i)[k] = a + k - 1
    BY <2>3
  <2> QED BY <2>1, <2>2, <2>4
<1>3. t = [i \in 1..n |-> part(i)]
  OBVIOUS
<1> HIDE DEF part, t
<1>4. t \in Seq(Seq(Nat)) /\ Len(t) = n /\ \A i \in 1..n : t[i] = part(i)
  <2>1. \A i \in 1..n : part(i) \in Seq(Nat)
    BY <1>2
  <2>2. t \in [1..n -> Seq(Nat)]
    BY <1>3, <2>1
  <2>3. t \in Seq(Seq(Nat)) /\ Len(t) = n
    BY ONLY <2>2, n \in Nat
  <2> QED BY <1>3, <2>3
<1>5. PICK g \in [0..Len(t) -> Seq(Nat)] : Laid(g, t) /\ FlattenSeq(t) = g[Len(t)]
  BY <1>4, FlattenOf
<1>6. PICK w : w = WithNul(list)
  OBVIOUS
<1>7. /\ w \in Seq(Seq(Nat)) /\ Len(w) = n
      /\ \A i \in 1..n : Len(w[i]) = Len(list[i]) + 1
  BY <1>1, <1>6, WithNulTyped
<1>8. \A i \in 0..n : Len(f[i]) = Len(g[i])
  <2>1. \A i \in 1..Len(w) : Len(w[i]) = Len(t[i])
    BY <1>2, <1>4, <1>7
  <2>2. f \in [0..Len(w) -> Seq(Nat)] /\ Laid(f, w) /\ Len(w) = Len(t)
    BY <1>1, <1>4, <1>6, <1>7
  <2>3. PICK h : h = f
    OBVIOUS
  <2>4. PICK e : e = g
    OBVIOUS
  <2>5. w \in Seq(Seq(Nat)) /\ t \in Seq(Seq(Nat))
    BY <1>4, <1>7
  <2>6. h \in [0..Len(w) -> Seq(Nat)] /\ e \in [0..Len(t) -> Seq(Nat)]
    BY <2>2, <2>3, <2>4
  <2>7. Laid(h, w) /\ Laid(e, t) /\ Len(w) = Len(t)
    BY <1>5, <2>2, <2>3, <2>4
  <2>8. \A i \in 0..Len(w) : Len(h[i]) = Len(e[i])
    BY ONLY <2>1, <2>5, <2>6, <2>7, SameLengths
  <2> QED BY <1>7, <2>3, <2>4, <2>8
<1>9. \A k \in 1..Len(t) : \A q \in 1..Len(t[k]) : t[k][q] = buffer + Len(g[k - 1]) + q - 1
  <2> SUFFICES ASSUME NEW k \in 1..Len(t), NEW q \in 1..Len(t[k])
               PROVE  t[k][q] = buffer + Len(g[k - 1]) + q - 1
    OBVIOUS
  <2>1. k \in 1..n /\ k - 1 \in 0..n
    BY <1>4
  <2>2. t[k] = part(k) /\ Len(part(k)) = Len(list[k]) + 1
    BY <1>2, <1>4, <2>1
  <2>3. part(k)[q] = buffer + Len(f[k - 1]) + q - 1
    BY <1>2, <2>1, <2>2
  <2> QED BY <1>8, <2>1, <2>2, <2>3
<1>10. \A p \in 1..Len(g[Len(t)]) : g[Len(t)][p] = buffer + p - 1
  BY ONLY <1>4, <1>5, <1>9, buffer \in Nat, g \in [0..Len(t) -> Seq(Nat)], CellsGoOn
<1>11. PICK s \in Seq(Nat) : s = g[n]
  <2>1. n \in 0..n
    OBVIOUS
  <2> QED BY <1>4, <1>5, <2>1
<1>12. Len(s) = Len(f[n]) /\ Len(s) \in Nat /\ FlattenSeq(t) = s
  BY <1>4, <1>5, <1>8, <1>11
<1>13. \A p \in 1..Len(s) : s[p] = buffer + p - 1
  BY <1>4, <1>10, <1>11
<1>14. s = [p \in 1..Len(s) |-> buffer + p - 1]
  BY ONLY <1>13, s \in Seq(Nat)
<1> QED BY <1>1, <1>3, <1>12, <1>14 DEF part

\* Where the table's pointers are.
LEMMA TableFits ==
  ASSUME NEW n \in Nat, NEW P \in Nat \ {0}, NEW i \in 1..n
  PROVE  /\ (i - 1) * P \in Nat /\ (i - 1) * P + P <= n * P
         /\ \A j \in 1..n : (i - 1) * P = (j - 1) * P => i = j
<1>1. PICK a \in Nat : a = i - 1
  OBVIOUS
<1>2. PICK d \in Nat : n = a + 1 + d
  <2>1. n - i \in Nat /\ n = a + 1 + (n - i)
    BY <1>1
  <2> QED BY <2>1
<1>3. n * P = a * P + P + d * P
  BY <1>2
<1>4. a * P \in Nat /\ d * P \in Nat /\ P \in Nat
  OBVIOUS
<1>5. (i - 1) * P + P <= n * P
  BY <1>1, <1>3, <1>4
<1>6. ASSUME NEW j \in 1..n, (i - 1) * P = (j - 1) * P PROVE i = j
  <2>1. PICK b \in Nat : b = j - 1
    OBVIOUS
  <2>2. a * P = b * P
    BY <1>1, <1>6, <2>1
  <2>3. a = b
    BY ONLY <2>2, a \in Nat, b \in Nat, P \in Nat \ {0}
  <2> QED BY <1>1, <2>1, <2>3
<1> QED BY <1>1, <1>4, <1>5, <1>6

Holds(mem, at, s) == \A k \in 1..Len(s) : mem[at + k - 1] = s[k]

\* A string that is followed by its NUL is read back.
LEMMA ReadBack ==
  ASSUME NEW mem, NEW N \in Nat, DOMAIN mem = 0..(N - 1), NEW s \in Seq(Nat \ {0}), NEW ptr \in Nat,
         ptr + Len(s) < N, mem[ptr + Len(s)] = 0, Holds(mem, ptr, s)
  PROVE  ReadString(mem, ptr) = s
<1>1. PICK z \in Nat : z = Len(s)
  OBVIOUS
<1> DEFINE ends == {c \in DOMAIN mem : c >= ptr /\ mem[c] = 0}
           end == CHOOSE c \in ends : \A d \in ends : c <= d
<1>2. ptr + z \in ends
  BY <1>1
<1>3. ASSUME NEW c \in ends PROVE ptr + z <= c
  <2>1. c \in Nat /\ c >= ptr /\ mem[c] = 0
    OBVIOUS
  <2>2. ASSUME c < ptr + z PROVE FALSE
    <3>1. PICK k \in 1..z : k = c - ptr + 1
      BY <2>1, <2>2
    <3>2. ptr + k - 1 = c
      BY <2>1, <3>1
    <3>3. mem[c] = s[k] /\ s[k] \in Nat \ {0}
      BY <1>1, <3>2 DEF Holds
    <3> QED BY <2>1, <3>3
  <2> QED BY <2>1, <2>2
<1>4. end = ptr + z
  <2>1. \A c \in ends : c \in Nat
    OBVIOUS
  <2> HIDE DEF ends
  <2>2. \A c \in ends : (\A d \in ends : c <= d) => c = ptr + z
    BY <1>2, <1>3, <2>1
  <2> QED BY <1>2, <1>3, <2>2
<1>5. ReadString(mem, ptr) = [k \in 1..(end - ptr) |-> mem[ptr + k - 1]]
  BY <1>2 DEF ReadString
<1> HIDE DEF end
<1>6. end - ptr = z
  BY <1>4
<1>7. ReadString(mem, ptr) = [k \in 1..z |-> s[k]]
  BY <1>1, <1>5, <1>6 DEF Holds
<1>8. s = [k \in 1..z |-> s[k]]
  BY <1>1
<1> QED BY <1>7, <1>8
LEMMA Placed ==
  ASSUME NEW w \in Seq(Seq(Nat)), NEW f \in [0..Len(w) -> Seq(Nat)], Laid(f, w), NEW i \in 1..Len(w)
  PROVE  \E a \in Nat : /\ a = Len(f[i - 1]) /\ a + Len(w[i]) <= Len(f[Len(w)])
                        /\ \A q \in 1..Len(w[i]) : f[Len(w)][a + q] = w[i][q]
<1>1. PICK a \in Nat : a = Len(f[i - 1])
  <2>1. i - 1 \in 0..Len(w)
    OBVIOUS
  <2>2. PICK s \in Seq(Nat) : s = f[i - 1]
    BY <2>1
  <2>3. Len(s) \in Nat
    OBVIOUS
  <2> QED BY ONLY <2>2, <2>3
<1>2. Len(f[i]) = Len(f[i - 1]) + Len(w[i]) /\ Len(f[i]) <= Len(f[Len(w)])
  BY LaidLengths
<1>3. \A q \in 1..Len(w[i]) : f[Len(w)][Len(f[i - 1]) + q] = w[i][q]
  BY ZenonT(60), LaidHolds
<1> QED BY <1>1, <1>2, <1>3

TableCells(cells, n, table, P) ==
  cells \in Seq(Nat) /\ Len(cells) = n /\ \A j \in 1..n : cells[j] = table + (j - 1) * P
BufferCells(cells, L, buffer) ==
  cells \in Seq(Nat) /\ Len(cells) = L /\ \A p \in 1..L : cells[p] = buffer + p - 1
Points(mem, table, P, ptrs) == \A j \in 1..Len(ptrs) : mem[table + (j - 1) * P] = ptrs[j]

\* A table of n pointers of P bytes and a buffer of L, apart and in the memory, are written.
ListWritten(n, L, P, table, buffer, ptrs, bytes, mem) ==
  /\ ptrs \in Seq(Nat) /\ bytes \in Seq(Nat) /\ Len(ptrs) = n /\ Len(bytes) = L
  /\ Apart(table, n * P, buffer, L) /\ InMemory(table, n * P) /\ InMemory(buffer, L)
  /\ \E tcells, bcells :
       /\ TableCells(tcells, n, table, P) /\ BufferCells(bcells, L, buffer)
       /\ mem = Stored(Stored(Cleared, tcells, ptrs), bcells, bytes)

\* What args_get leaves in the memory: behind each pointer its string and a NUL.
LEMMA ListStored ==
  ASSUME NEW n \in Nat, NEW L \in Nat, NEW P \in Nat \ {0}, NEW table \in Nat, NEW buffer \in Nat,
         NEW ptrs, NEW bytes, NEW mem, ListWritten(n, L, P, table, buffer, ptrs, bytes, mem)
  PROVE  DOMAIN mem = 0..(Size - 1) /\ Holds(mem, buffer, bytes) /\ Points(mem, table, P, ptrs)
<1>1. PICK tcells, bcells :
        /\ TableCells(tcells, n, table, P) /\ BufferCells(bcells, L, buffer)
        /\ mem = Stored(Stored(Cleared, tcells, ptrs), bcells, bytes)
  BY DEF ListWritten
<1>2. PICK wt : wt = Stored(Cleared, tcells, ptrs)
  OBVIOUS
<1>3. ptrs \in Seq(Nat) /\ bytes \in Seq(Nat) /\ Len(ptrs) = n /\ Len(bytes) = L
  BY DEF ListWritten
<1>4. PICK M \in Nat : M = n * P
  OBVIOUS
<1>5. Apart(table, M, buffer, L) /\ InMemory(table, M) /\ InMemory(buffer, L)
  BY <1>4 DEF ListWritten
<1>6. PICK N \in Nat : N = Size /\ N # 0
  BY IOAssumption
<1> DEFINE cell(i) == table + (i - 1) * P
<1>7. ASSUME NEW i \in 1..n
      PROVE  /\ cell(i) \in 0..(N - 1) /\ cell(i) + P <= table + M /\ cell(i) >= table
             /\ \A j \in 1..n : cell(i) = cell(j) => i = j
  <2>1. PICK x \in Nat : x = (i - 1) * P
    BY TableFits
  <2>2. x + P <= M
    BY <1>4, <2>1, TableFits
  <2>3. table + M <= N
    BY <1>6, <1>5 DEF InMemory
  <2>4. table + x \in 0..(N - 1) /\ (table + x) + P <= table + M /\ table + x >= table
    BY ONLY <2>2, <2>3, x \in Nat, table \in Nat, M \in Nat, N \in Nat, P \in Nat \ {0}
  <2>5. ASSUME NEW j \in 1..n, cell(i) = cell(j) PROVE i = j
    <3>1. PICK y \in Nat : y = (j - 1) * P
      BY TableFits
    <3>2. table + x = table + y
      BY <2>1, <2>5, <3>1
    <3>3. x = y
      BY ONLY <3>2, x \in Nat, y \in Nat, table \in Nat
    <3> QED BY <2>1, <3>1, <3>3, TableFits
  <2> QED BY <1>2, <2>1, <2>4, <2>5
<1>8. tcells \in Seq(Nat) /\ Len(tcells) = n /\ \A i \in 1..n : tcells[i] = cell(i)
  BY <1>1 DEF TableCells
<1>9. bcells \in Seq(Nat) /\ Len(bcells) = L /\ \A p \in 1..L : bcells[p] = buffer + p - 1
  BY <1>1 DEF BufferCells
<1>10. DOMAIN Cleared = 0..(N - 1) /\ DOMAIN wt = DOMAIN Cleared /\ mem = Stored(wt, bcells, bytes)
      /\ DOMAIN mem = DOMAIN wt
  BY <1>1, <1>6, <1>2 DEF Stored, Cleared
<1> HIDE DEF cell
<1>11. ASSUME NEW i \in 1..n PROVE wt[cell(i)] = ptrs[i]
  <2>1. tcells[i] = cell(i) /\ cell(i) \in DOMAIN Cleared
    BY <1>7, <1>8, <1>10
  <2>2. \A j \in 1..Len(tcells) : tcells[j] = tcells[i] => j = i
    BY <1>7, <1>8
  <2>3. tcells \in Seq(Nat) /\ i \in 1..Len(tcells) /\ tcells[i] \in DOMAIN Cleared
    BY <1>8, <2>1
  <2>4. Stored(Cleared, tcells, ptrs)[tcells[i]] = ptrs[i]
    BY ONLY <2>2, <2>3, StoredAt
  <2> QED BY <1>2, <2>1, <2>4
<1>12. ASSUME NEW p \in 1..L PROVE mem[buffer + p - 1] = bytes[p]
  <2>1. bcells[p] = buffer + p - 1 /\ buffer + p - 1 \in 0..(N - 1)
    BY <1>6, <1>9, <1>5 DEF InMemory
  <2>2. \A j \in 1..Len(bcells) : bcells[j] = bcells[p] => j = p
    BY <1>9
  <2>3. bcells \in Seq(Nat) /\ p \in 1..Len(bcells) /\ bcells[p] \in DOMAIN wt
    BY <1>9, <1>10, <2>1
  <2>4. Stored(wt, bcells, bytes)[bcells[p]] = bytes[p]
    BY ONLY <2>2, <2>3, StoredAt
  <2> QED BY <1>10, <2>1, <2>4
<1>13. ASSUME NEW i \in 1..n PROVE mem[cell(i)] = ptrs[i]
  <2>1. PICK x \in Nat : x = cell(i)
    BY <1>6, <1>7
  <2>2. x + P <= table + M /\ x >= table /\ x \in 0..(N - 1)
    BY <1>7, <2>1
  <2>3. table + M <= buffer \/ buffer + L <= table
    BY <1>5 DEF Apart
  <2>4. \A j \in 1..Len(bcells) : bcells[j] # x
    <3> SUFFICES ASSUME NEW j \in 1..L PROVE buffer + j - 1 # x
      BY <1>9
    <3> QED BY ONLY <2>2, <2>3, j \in 1..L, x \in Nat, table \in Nat, M \in Nat, buffer \in Nat,
                    L \in Nat, P \in Nat \ {0}
  <2>5. bcells \in Seq(Nat) /\ x \in DOMAIN wt
    BY <1>9, <1>10, <2>2
  <2>6. Stored(wt, bcells, bytes)[x] = wt[x]
    BY ONLY <2>4, <2>5, StoredElsewhere
  <2> QED BY <1>10, <1>11, <2>1, <2>6
<1>14. \A i \in 1..n : mem[table + (i - 1) * P] = ptrs[i]
  BY <1>13 DEF cell
<1>15. Holds(mem, buffer, bytes)
  BY <1>12, <1>3 DEF Holds
<1>16. Points(mem, table, P, ptrs)
  BY <1>14, <1>3 DEF Points
<1> QED BY <1>6, <1>10, <1>15, <1>16
LEMMA ArgsGetReads ==
  ASSUME NEW table \in Nat, NEW buffer \in Nat, NEW n \in Nat, n = Len(Strings),
         Apart(table, n * PointerLen, buffer, string_list_buffer_len(Strings)),
         InMemory(table, n * PointerLen), InMemory(buffer, string_list_buffer_len(Strings)),
         NEW mem, mem = string_list_get(Strings, table, buffer), NEW i \in 1..n
  PROVE  ReadString(mem, mem[table + (i - 1) * PointerLen]) = Strings[i]
<1>1. Strings \in Seq(Seq(Nat \ {0})) /\ Strings \in Seq(Seq(Nat)) /\ DOMAIN Strings = 1..n
  <2>1. Strings \in Seq(Seq(Nat \ {0}))
    BY IOAssumption
  <2>2. Strings \in [1..n -> Seq(Nat \ {0})]
    BY <2>1
  <2>3. \A j \in 1..n : Strings[j] \in Seq(Nat)
    <3> SUFFICES ASSUME NEW j \in 1..n PROVE Strings[j] \in Seq(Nat)
      OBVIOUS
    <3>1. PICK s \in Seq(Nat \ {0}) : s = Strings[j]
      BY <2>2
    <3>2. s \in Seq(Nat)
      OBVIOUS
    <3> QED BY <3>1, <3>2
  <2>4. Strings \in [1..n -> Seq(Nat)]
    BY <2>2, <2>3
  <2>5. Strings \in Seq(Seq(Nat))
    BY ONLY <2>4, n \in Nat
  <2> QED BY <2>1, <2>2, <2>5
<1>2. PICK w : w = WithNul(Strings)
  OBVIOUS
<1>3. /\ w \in Seq(Seq(Nat)) /\ Len(w) = n
      /\ \A j \in 1..n : w[j] = Append(Strings[j], 0) /\ Len(w[j]) = Len(Strings[j]) + 1
  BY <1>1, <1>2, WithNulTyped
<1>4. PICK f \in [0..n -> Seq(Nat)] : Laid(f, w) /\ FlattenSeq(w) = f[n]
  <2>1. \E f \in [0..Len(w) -> Seq(Nat)] : Laid(f, w) /\ FlattenSeq(w) = f[Len(w)]
    BY <1>3, FlattenOf
  <2> QED BY <1>3, <2>1
<1>5. PICK bytes \in Seq(Nat) : bytes = f[n] /\ bytes = Terminated(Strings)
  <2>1. f[n] \in Seq(Nat)
    BY <1>4
  <2> QED BY <1>1, <1>2, <1>4, <2>1, TerminatedIs
<1>6. PICK L \in Nat : L = Len(bytes) /\ L = string_list_buffer_len(Strings)
  <2>1. Len(bytes) \in Nat
    OBVIOUS
  <2> QED BY <1>5, <2>1 DEF string_list_buffer_len
<1>7. \A j \in 1..n : StringAt(Strings, buffer, j) = buffer + Len(f[j - 1]) /\ StringAt(Strings, buffer, j) \in Nat
  <2>1. PICK h : h = f
    OBVIOUS
  <2>2. h \in [0..Len(Strings) -> Seq(Nat)] /\ Laid(h, WithNul(Strings)) /\ Strings \in Seq(Seq(Nat))
    BY <1>1, <1>2, <1>4, <2>1
  <2>3. \A j \in 1..Len(Strings) : StringAt(Strings, buffer, j) = buffer + Len(h[j - 1])
                                     /\ StringAt(Strings, buffer, j) \in Nat
    BY ONLY <2>2, buffer \in Nat, StringAtIs
  <2> QED BY <2>1, <2>3
<1>8. FlattenSeq([j \in 1..n |-> CellsOf(Strings, buffer, j)]) = [p \in 1..L |-> buffer + p - 1]
  <2>1. PICK h : h = f
    OBVIOUS
  <2>2. h \in [0..Len(Strings) -> Seq(Nat)] /\ Laid(h, WithNul(Strings)) /\ Strings \in Seq(Seq(Nat))
    BY <1>1, <1>2, <1>4, <2>1
  <2>3. FlattenSeq([j \in 1..Len(Strings) |-> CellsOf(Strings, buffer, j)])
          = [p \in 1..Len(h[Len(Strings)]) |-> buffer + p - 1]
    BY ONLY <2>2, buffer \in Nat, CellsOfList
  <2> QED BY <1>5, <1>6, <2>1, <2>3
<1>9. PICK ptrs : ptrs = [j \in 1..n |-> StringAt(Strings, buffer, j)]
  OBVIOUS
<1>10. ptrs \in Seq(Nat) /\ Len(ptrs) = n /\ \A j \in 1..n : ptrs[j] = StringAt(Strings, buffer, j)
  <2>1. \A j \in 1..n : StringAt(Strings, buffer, j) \in Nat
    BY <1>7
  <2>2. ptrs \in [1..n -> Nat]
    BY <1>9, <2>1
  <2>3. ptrs \in Seq(Nat) /\ Len(ptrs) = n
    BY ONLY <2>2, n \in Nat
  <2> QED BY <1>9, <2>3
<1>11. mem = Stored(Stored(Cleared, [j \in 1..n |-> table + (j - 1) * PointerLen], ptrs),
                    [p \in 1..L |-> buffer + p - 1], bytes)
  BY <1>1, <1>5, <1>8, <1>9 DEF string_list_get, CellsOf
<1>12. PICK P \in Nat \ {0} : P = PointerLen
  BY IOAssumption
<1>13. PICK tcells : tcells = [j \in 1..n |-> table + (j - 1) * P]
  OBVIOUS
<1>14. PICK bcells : bcells = [p \in 1..L |-> buffer + p - 1]
  OBVIOUS
<1>15. TableCells(tcells, n, table, P)
  <2>1. \A j \in 1..n : table + (j - 1) * P \in Nat
    <3> SUFFICES ASSUME NEW j \in 1..n PROVE table + (j - 1) * P \in Nat
      OBVIOUS
    <3>1. PICK x \in Nat : x = (j - 1) * P
      BY TableFits
    <3>2. table + x \in Nat
      BY ONLY table \in Nat, x \in Nat
    <3> QED BY ONLY <3>1, <3>2
  <2>2. tcells \in [1..n -> Nat]
    BY <1>13, <2>1
  <2>3. tcells \in Seq(Nat) /\ Len(tcells) = n
    BY ONLY <2>2, n \in Nat
  <2> QED BY <1>13, <2>3 DEF TableCells
<1>16. BufferCells(bcells, L, buffer)
  <2>1. \A p \in 1..L : buffer + p - 1 \in Nat
    OBVIOUS
  <2>2. bcells \in [1..L -> Nat]
    BY <1>14, <2>1
  <2>3. bcells \in Seq(Nat) /\ Len(bcells) = L
    BY ONLY <2>2, L \in Nat
  <2> QED BY <1>14, <2>3 DEF BufferCells
<1>17. /\ DOMAIN mem = 0..(Size - 1)
       /\ \A p \in 1..L : mem[buffer + p - 1] = bytes[p]
       /\ \A j \in 1..n : mem[table + (j - 1) * PointerLen] = ptrs[j]
  <2>1. Apart(table, n * P, buffer, L) /\ InMemory(table, n * P) /\ InMemory(buffer, L)
    BY <1>6, <1>12
  <2>2. mem = Stored(Stored(Cleared, tcells, ptrs), bcells, bytes)
    BY <1>11, <1>12, <1>13, <1>14
  <2>3. ListWritten(n, L, P, table, buffer, ptrs, bytes, mem)
    BY <1>6, <1>10, <1>15, <1>16, <2>1, <2>2 DEF ListWritten
  <2>4. DOMAIN mem = 0..(Size - 1) /\ Holds(mem, buffer, bytes) /\ Points(mem, table, P, ptrs)
    BY ONLY <2>3, n \in Nat, L \in Nat, P \in Nat \ {0}, table \in Nat, buffer \in Nat, ListStored
  <2> QED BY <1>6, <1>10, <1>12, <2>4 DEF Holds, Points
<1>18. PICK a \in Nat : /\ a = Len(f[i - 1]) /\ a + Len(w[i]) <= Len(f[n])
                        /\ \A q \in 1..Len(w[i]) : f[n][a + q] = w[i][q]
  <2>1. PICK h : h = f
    OBVIOUS
  <2>2. w \in Seq(Seq(Nat)) /\ h \in [0..Len(w) -> Seq(Nat)] /\ Laid(h, w) /\ i \in 1..Len(w)
    BY <1>3, <1>4, <2>1
  <2>3. \E a \in Nat : /\ a = Len(h[i - 1]) /\ a + Len(w[i]) <= Len(h[Len(w)])
                       /\ \A q \in 1..Len(w[i]) : h[Len(w)][a + q] = w[i][q]
    BY ONLY <2>2, Placed, SMTT(30), ZenonT(30)
  <2> QED BY <1>3, <2>1, <2>3
<1>19. PICK s \in Seq(Nat \ {0}) : s = Strings[i]
  BY <1>1
<1>20. PICK z \in Nat : z = Len(s)
  OBVIOUS
<1>21. PICK t \in Seq(Nat) : t = w[i]
  BY <1>3
<1>22. /\ Len(t) = z + 1 /\ t[z + 1] = 0
       /\ \A k \in 1..z : t[k] = s[k]
  <2>1. t = Append(s, 0)
    BY <1>3, <1>19, <1>21
  <2>2. s \in Seq(Nat)
    OBVIOUS
  <2>3. Len(Append(s, 0)) = Len(s) + 1 /\ Append(s, 0)[Len(s) + 1] = 0
        /\ \A k \in 1..Len(s) : Append(s, 0)[k] = s[k]
    BY ONLY <2>2
  <2> QED BY <1>20, <2>1, <2>3
<1>23. a + z + 1 <= L /\ \A q \in 1..(z + 1) : bytes[a + q] = t[q]
  <2>1. a + Len(t) <= L /\ \A q \in 1..Len(t) : bytes[a + q] = t[q]
    BY <1>5, <1>6, <1>18, <1>21
  <2> QED BY <1>22, <2>1
<1>24. PICK ptr \in Nat : ptr = buffer + a
  OBVIOUS
<1>25. mem[table + (i - 1) * PointerLen] = ptr
  BY <1>7, <1>10, <1>17, <1>18, <1>24
<1>26. ASSUME NEW q \in 1..(z + 1) PROVE mem[ptr + q - 1] = t[q]
  <2>1. a + q \in 1..L /\ buffer + (a + q) - 1 = ptr + q - 1
    BY ONLY <1>23, <1>24, q \in 1..(z + 1), a \in Nat, z \in Nat, L \in Nat, buffer \in Nat
  <2>2. mem[buffer + (a + q) - 1] = bytes[a + q]
    BY <1>17, <2>1
  <2> QED BY <1>23, <2>1, <2>2
<1>27. PICK N \in Nat : N = Size
  BY IOAssumption
<1>28. ptr + z < N
  <2>1. buffer + L <= N
    BY <1>6, <1>27 DEF InMemory
  <2> QED BY ONLY <2>1, <1>23, <1>24, a \in Nat, z \in Nat, L \in Nat, buffer \in Nat, N \in Nat
<1>29. mem[ptr + z] = 0
  <2>1. z + 1 \in 1..(z + 1) /\ ptr + (z + 1) - 1 = ptr + z
    OBVIOUS
  <2> QED BY <1>22, <1>26, <2>1
<1>30. \A k \in 1..z : mem[ptr + k - 1] = s[k]
  <2> SUFFICES ASSUME NEW k \in 1..z PROVE mem[ptr + k - 1] = s[k]
    OBVIOUS
  <2>1. k \in 1..(z + 1)
    OBVIOUS
  <2> QED BY <1>22, <1>26, <2>1
<1>31. ReadString(mem, ptr) = s
  <2>1. DOMAIN mem = 0..(N - 1)
    BY <1>17, <1>27
  <2>2. ptr + Len(s) < N /\ mem[ptr + Len(s)] = 0 /\ Holds(mem, ptr, s)
    BY <1>20, <1>28, <1>29, <1>30 DEF Holds
  <2> QED BY ONLY <2>1, <2>2, N \in Nat, s \in Seq(Nat \ {0}), ptr \in Nat, ReadBack
<1> QED BY <1>19, <1>25, <1>31

LEMMA ArgsGetKeeps ==
  ASSUME args_get
  PROVE  strings' = Strings
<1>1. PICK table \in Pointers, buffer \in Pointers :
        /\ Apart(table, Len(Strings) * PointerLen, buffer, string_list_buffer_len(Strings))
        /\ InMemory(table, Len(Strings) * PointerLen) /\ InMemory(buffer, string_list_buffer_len(Strings))
        /\ memory' = string_list_get(Strings, table, buffer)
        /\ strings' = [i \in DOMAIN Strings |-> ReadString(memory', memory'[table + (i - 1) * PointerLen])]
  BY DEF args_get
<1>2. table \in Nat /\ buffer \in Nat
  BY IOAssumption
<1>3. PICK n \in Nat : n = Len(Strings)
  BY IOAssumption
<1>4. PICK mem : mem = memory'
  OBVIOUS
<1>5. \A i \in 1..n : ReadString(mem, mem[table + (i - 1) * PointerLen]) = Strings[i]
  BY <1>1, <1>2, <1>3, <1>4, ArgsGetReads
<1>6. DOMAIN Strings = 1..n /\ Strings = [i \in 1..n |-> Strings[i]]
  BY <1>3, IOAssumption
<1>7. strings' = [i \in 1..n |-> ReadString(mem, mem[table + (i - 1) * PointerLen])]
  BY <1>1, <1>4, <1>6
<1> QED BY <1>5, <1>6, <1>7

\* Wherever the guest lays the table and the buffer, as long as they are apart and as large as
\* it was told, it finds behind each pointer its argument, whatever the arguments and the
\* pointers' size (args_get, environ_get: string_list_get, string_list_buffer_len).
THEOREM ListsAreRead == Spec => []ListsRead
<1>1. Init => ListsRead
  BY DEF Init, ListsRead
<1>2. ListsRead /\ [Next]_vars => ListsRead'
  <2> SUFFICES ASSUME ListsRead, [Next]_vars PROVE ListsRead'
    OBVIOUS
  <2>1. CASE UNCHANGED strings
    BY <2>1 DEF ListsRead
  <2>2. CASE args_get
    BY <2>2, ArgsGetKeeps DEF ListsRead
  <2>3. UNCHANGED strings \/ args_get
    BY DEF Next, vars, BadVectors, fd_read, fd_write, OffsetOverflows, fd_pread, fd_pwrite,
           fd_readdir, ReaddirFails, Rewind, ListRefused, others
  <2> QED BY <2>1, <2>2, <2>3
<1> QED BY <1>1, <1>2, PTL DEF Spec
=============================================================================
