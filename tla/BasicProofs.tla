----------------------------- MODULE BasicProofs -----------------------------
(***************************************************************************)
(* Lemmas for the proofs about the other modules: two principles of        *)
(* induction in the form of a least counterexample, and from them that     *)
(* recursive functions on intervals exist, where in FlattenSeq(seqs) the   *)
(* members of seqs are, and what the sum of a function's values over a     *)
(* finite set is.                                                          *)
(***************************************************************************)
EXTENDS Integers, FiniteSetTheorems, SequenceTheorems, SequencesExt, TLAPS

(* A set of natural numbers has a least element.                           *)
LEMMA LeastNatural ==
  ASSUME NEW T \in SUBSET Nat, T # {}
  PROVE  \E m \in T : \A k \in T : m <= k
<1>1. IsWellFoundedOn(OpToRel(<, Nat), Nat)
  BY NatLessThanWellFounded
<1>2. PICK m \in T : \A k \in T : ~(<<k, m>> \in OpToRel(<, Nat))
  BY <1>1, WFMin
<1>3. \A k \in T : ~(k < m)
  BY <1>2 DEF OpToRel
<1> QED
  BY <1>3

(* A set of subsets of a finite set has a member none of whose proper      *)
(* subsets is in it.                                                       *)
LEMMA MinimalSubset ==
  ASSUME NEW U, IsFiniteSet(U), NEW C \in SUBSET (SUBSET U), C # {}
  PROVE  \E s \in C : \A t \in SUBSET s : t # s => t \notin C
<1>1. IsWellFoundedOn(StrictSubsetOrdering(U), SUBSET U)
  BY FS_StrictSubsetOrderingWellFounded, FS_FiniteSubsetsOfFinite
<1>2. PICK s \in C : \A t \in C : ~(<<t, s>> \in StrictSubsetOrdering(U))
  BY <1>1, WFMin
<1>3. \A t \in SUBSET s : t # s /\ t \in C => FALSE
  BY <1>2 DEF StrictSubsetOrdering
<1> QED
  BY <1>3

-----------------------------------------------------------------------------
(* A recursive function on an interval exists, for a step with a type.     *)
Steps(a, F, m, g) == \A k \in 0..m : g[k] = IF k = 0 THEN a ELSE F[<<k, g[k - 1]>>]
Iteration(A, a, F, n) == CHOOSE g \in [0..n -> A] : Steps(a, F, n, g)

LEMMA Recursion ==
  ASSUME NEW A, NEW a \in A, NEW n \in Nat, NEW F \in [Nat \X A -> A]
  PROVE  /\ Iteration(A, a, F, n) \in [0..n -> A]
         /\ Steps(a, F, n, Iteration(A, a, F, n))
<1> USE DEF Steps
<1> DEFINE Is(m, g) == Steps(a, F, m, g)
           T == {m \in Nat : ~\E g \in [0..m -> A] : Is(m, g)}
<1>1. SUFFICES ASSUME T # {} PROVE FALSE
  <2>1. (\E g \in [0..n -> A] : Is(n, g)) => Is(n, Iteration(A, a, F, n)) /\ Iteration(A, a, F, n) \in [0..n -> A]
    <3> HIDE DEF Steps
    <3> QED BY Zenon DEF Iteration
  <2> QED BY <2>1
<1>2. PICK m \in T : \A k \in T : m <= k
  <2>1. T \in SUBSET Nat
    OBVIOUS
  <2> HIDE DEF T
  <2> QED BY <1>1, <2>1, LeastNatural
<1>3. m # 0
  <2> DEFINE g == [k \in 0..0 |-> a]
  <2>1. g \in [0..0 -> A] /\ Is(0, g)
    OBVIOUS
  <2>2. \E f \in [0..0 -> A] : Is(0, f)
    <3> HIDE DEF g
    <3> QED BY <2>1
  <2> HIDE DEF Is
  <2>3. 0 \notin T
    BY <2>2
  <2> HIDE DEF T
  <2> QED BY <2>3, <1>2
<1>4. m - 1 \in Nat /\ m - 1 \notin T /\ m \in Nat
  <2>1. m \in Nat
    BY <1>2
  <2> HIDE DEF T
  <2> QED BY <1>2, <1>3, <2>1
<1>5. PICK g \in [0..m - 1 -> A] : Is(m - 1, g)
  BY <1>4
<1> DEFINE h == [k \in 0..m |-> IF k = m THEN F[<<m, g[m - 1]>>] ELSE g[k]]
<1>6. m - 1 \in 0..m - 1 /\ g[m - 1] \in A /\ F[<<m, g[m - 1]>>] \in A
  BY <1>4
<1>7. h \in [0..m -> A]
  <2> SUFFICES ASSUME NEW k \in 0..m PROVE h[k] \in A
    OBVIOUS
  <2>1. k # m => k \in 0..m - 1
    BY <1>4
  <2> QED BY <1>6, <2>1
<1>8. \A k \in 0..m : h[k] = IF k = 0 THEN a ELSE F[<<k, h[k - 1]>>]
  <2> SUFFICES ASSUME NEW k \in 0..m
               PROVE  h[k] = IF k = 0 THEN a ELSE F[<<k, h[k - 1]>>]
    OBVIOUS
  <2>1. k # 0 => k - 1 \in 0..m - 1 /\ h[k - 1] = g[k - 1]
    BY <1>4
  <2>2. CASE k = m
    BY <1>3, <2>1, <2>2
  <2>3. CASE k # m
    <3>1. k \in 0..m - 1
      BY <1>4, <2>3
    <3>2. g[k] = IF k = 0 THEN a ELSE F[<<k, g[k - 1]>>]
      BY <1>5, <3>1
    <3>3. h[k] = g[k]
      BY <2>3
    <3> HIDE DEF h
    <3> QED BY <2>1, <3>2, <3>3
  <2> QED BY <2>2, <2>3
<1>9. Is(m, h)
  <2> HIDE DEF h
  <2> QED BY <1>8
<1> HIDE DEF h, Is
<1> QED
  BY <1>2, <1>7, <1>9

-----------------------------------------------------------------------------
(***************************************************************************)
(* FlattenSeq.                                                             *)
(***************************************************************************)
IsFlatten(seqs, f) ==
  f = [i \in 1..Len(seqs) |-> IF i = 1 THEN seqs[i] ELSE f[i - 1] \o seqs[i]]

LEMMA FlattenSeqIs ==
  ASSUME NEW seqs
  PROVE  FlattenSeq(seqs) = IF Len(seqs) = 0 THEN seqs
                            ELSE (CHOOSE f : IsFlatten(seqs, f))[Len(seqs)]
BY Zenon DEF FlattenSeq, IsFlatten

(* The first k members of seqs, put together.                              *)
IsJoined(seqs, h) ==
  /\ h[0] = <<>>
  /\ \A k \in 1..Len(seqs) : h[k] = h[k - 1] \o seqs[k]

LEMMA FlattenUnfold ==
  ASSUME NEW S, NEW seqs \in Seq(Seq(S))
  PROVE  \E h \in [0..Len(seqs) -> Seq(S)] :
           IsJoined(seqs, h) /\ FlattenSeq(seqs) = h[Len(seqs)]
<1> DEFINE n == Len(seqs)
           F == [p \in Nat \X Seq(S) |-> IF p[1] \in 1..n THEN p[2] \o seqs[p[1]] ELSE p[2]]
<1>1. n \in Nat /\ \A k \in 1..n : seqs[k] \in Seq(S)
  BY LenProperties
<1>2. F \in [Nat \X Seq(S) -> Seq(S)]
  <2> SUFFICES ASSUME NEW p \in Nat \X Seq(S) PROVE F[p] \in Seq(S)
    OBVIOUS
  <2>1. p[1] \in Nat /\ p[2] \in Seq(S)
    OBVIOUS
  <2>2. F[p] = IF p[1] \in 1..n THEN p[2] \o seqs[p[1]] ELSE p[2]
    OBVIOUS
  <2>3. CASE p[1] \in 1..n
    <3>1. seqs[p[1]] \in Seq(S)
      BY <1>1, <2>3
    <3> HIDE DEF F, n
    <3> QED BY <2>1, <2>2, <2>3, <3>1, ConcatProperties
  <2>4. CASE p[1] \notin 1..n
    BY <2>1, <2>2, <2>4
  <2> HIDE DEF F, n
  <2> QED BY <2>3, <2>4
<1>3. <<>> \in Seq(S)
  OBVIOUS
<1> DEFINE h == Iteration(Seq(S), <<>>, F, n)
<1>4. h \in [0..n -> Seq(S)] /\ Steps(<<>>, F, n, h)
  <2> HIDE DEF F, n
  <2> QED BY <1>1, <1>2, <1>3, Recursion
<1> HIDE DEF h
<1>5. IsJoined(seqs, h)
  <2>1. h[0] = <<>>
    <3>1. 0 \in 0..n
      BY <1>1
    <3> HIDE DEF F, n
    <3> QED BY <1>4, <3>1 DEF Steps
  <2>2. ASSUME NEW k \in 1..n PROVE h[k] = h[k - 1] \o seqs[k]
    <3>1. k - 1 \in 0..n /\ k \in 0..n /\ k \in Nat /\ k # 0
      BY <1>1
    <3>2. <<k, h[k - 1]>> \in Nat \X Seq(S)
      <4> HIDE DEF n
      <4> QED BY <1>4, <3>1
    <3>3. F[<<k, h[k - 1]>>] = h[k - 1] \o seqs[k]
      BY <3>2
    <3> HIDE DEF F, n
    <3> QED BY <1>4, <3>1, <3>3 DEF Steps
  <2> QED BY <2>1, <2>2 DEF IsJoined
<1>6. CASE n = 0
  <2>1. seqs = <<>>
    BY <1>6, EmptySeq
  <2> QED BY <1>4, <1>5, <1>6, <2>1, FlattenSeqIs DEF IsJoined
<1>7. CASE n # 0
  <2> DEFINE f == CHOOSE f : IsFlatten(seqs, f)
             g == [i \in 1..n |-> h[i]]
  <2>1. IsFlatten(seqs, g)
    <3>1. ASSUME NEW i \in 1..n
          PROVE  g[i] = IF i = 1 THEN seqs[i] ELSE g[i - 1] \o seqs[i]
      <4>1. h[i] = h[i - 1] \o seqs[i]
        BY <1>5 DEF IsJoined
      <4>2. CASE i = 1
        <5>1. h[i - 1] = <<>>
          BY <1>5, <4>2 DEF IsJoined
        <5>2. <<>> \o seqs[i] = seqs[i]
          BY <1>1, ConcatEmptySeq
        <5> QED BY <4>1, <4>2, <5>1, <5>2
      <4>3. CASE i # 1
        <5>1. i - 1 \in 1..n
          BY <1>1, <4>3
        <5> QED BY <4>1, <4>3, <5>1
      <4> QED BY <4>2, <4>3
    <3>2. g = [i \in 1..n |-> g[i]]
      OBVIOUS
    <3> HIDE DEF g
    <3> QED BY <3>1, <3>2 DEF IsFlatten
  <2>2. IsFlatten(seqs, f)
    <3>1. \E e : IsFlatten(seqs, e)
      BY <2>1
    <3> QED BY <3>1, Zenon
  <2>3. FlattenSeq(seqs) = f[n]
    BY <1>7, FlattenSeqIs
  <2> HIDE DEF f, g, n
  <2>4. \A i \in 1..n : f[i] = h[i]
    <3> DEFINE T == {i \in 1..n : f[i] # h[i]}
    <3>1. SUFFICES ASSUME T # {} PROVE FALSE
      OBVIOUS
    <3>2. PICK m \in T : \A k \in T : m <= k
      <4>1. T \in SUBSET Nat
        BY <1>1
      <4> HIDE DEF T
      <4> QED BY <3>1, <4>1, LeastNatural
    <3>3. m \in 1..n /\ f[m] # h[m] /\ m \in Nat
      BY <1>1, <3>2
    <3>4. f[m] = IF m = 1 THEN seqs[m] ELSE f[m - 1] \o seqs[m]
      BY <2>2, <3>3 DEF IsFlatten, n
    <3>5. h[m] = h[m - 1] \o seqs[m]
      BY <1>5, <3>3 DEF IsJoined, n
    <3>6. CASE m = 1
      <4>1. h[m - 1] = <<>>
        BY <1>5, <3>6 DEF IsJoined
      <4>2. <<>> \o seqs[m] = seqs[m]
        BY <1>1, <3>3, ConcatEmptySeq
      <4> QED BY <3>3, <3>4, <3>5, <3>6, <4>1, <4>2
    <3>7. CASE m # 1
      <4>1. m - 1 \in 1..n /\ m - 1 \notin T
        BY <1>1, <3>2, <3>3, <3>7
      <4>2. f[m - 1] = h[m - 1]
        BY <4>1
      <4> QED BY <3>3, <3>4, <3>5, <3>7, <4>2
    <3> QED BY <3>6, <3>7
  <2>5. n \in 1..n
    BY <1>1, <1>7
  <2> QED BY <1>4, <1>5, <2>3, <2>4, <2>5 DEF n
<1> QED
  BY <1>6, <1>7

(* The members of seqs follow each other in s: the i-th one begins after   *)
(* ends[i - 1].                                                            *)
InPlace(seqs, s, ends) ==
  /\ ends \in [0..Len(seqs) -> Nat]
  /\ ends[0] = 0 /\ Len(s) = ends[Len(seqs)]
  /\ \A i \in 1..Len(seqs) : ends[i] = ends[i - 1] + Len(seqs[i])
  /\ \A i, l \in 0..Len(seqs) : i <= l => ends[i] <= ends[l]
  /\ \A i \in 1..Len(seqs) : \A j \in 1..Len(seqs[i]) :
       ends[i - 1] + j \in 1..Len(s) /\ s[ends[i - 1] + j] = seqs[i][j]
  /\ \A k \in 1..Len(s) :
       \E i \in 1..Len(seqs) : \E j \in 1..Len(seqs[i]) : k = ends[i - 1] + j

LEMMA FlattenInPlace ==
  ASSUME NEW S, NEW seqs \in Seq(Seq(S))
  PROVE  /\ FlattenSeq(seqs) \in Seq(S)
         /\ \E ends : InPlace(seqs, FlattenSeq(seqs), ends)
<1> DEFINE n == Len(seqs)
<1>1. n \in Nat /\ \A k \in 1..n : seqs[k] \in Seq(S) /\ Len(seqs[k]) \in Nat
  <2>1. n \in Nat /\ \A k \in 1..n : seqs[k] \in Seq(S)
    BY LenProperties
  <2>2. \A s \in Seq(S) : Len(s) \in Nat
    BY LenProperties
  <2> HIDE DEF n
  <2> QED BY <2>1, <2>2
<1>2. PICK h \in [0..n -> Seq(S)] : IsJoined(seqs, h) /\ FlattenSeq(seqs) = h[n]
  BY FlattenUnfold
<1> DEFINE ends == [k \in 0..n |-> Len(h[k])]
           Good(m) == /\ \A i \in 0..m : ends[i] <= ends[m]
                      /\ \A i \in 1..m : \A j \in 1..Len(seqs[i]) :
                           ends[i - 1] + j \in 1..ends[m] /\ h[m][ends[i - 1] + j] = seqs[i][j]
                      /\ \A k \in 1..ends[m] :
                           \E i \in 1..m : \E j \in 1..Len(seqs[i]) : k = ends[i - 1] + j
           T == {m \in 0..n : ~Good(m)}
<1>3. /\ ends \in [0..n -> Nat]
      /\ \A k \in 0..n : ends[k] = Len(h[k]) /\ ends[k] \in Nat /\ h[k] \in Seq(S)
  <2>1. \A s \in Seq(S) : Len(s) \in Nat
    BY LenProperties
  <2> HIDE DEF n
  <2> QED BY <1>2, <2>1
<1>4. h[0] = <<>> /\ ends[0] = 0
  <2>1. 0 \in 0..n /\ Len(<<>>) = 0
    BY <1>1
  <2> HIDE DEF n
  <2> QED BY <1>2, <2>1 DEF IsJoined
<1> HIDE DEF ends
<1>5. ASSUME NEW m \in 1..n
      PROVE  /\ m - 1 \in 0..n /\ m \in 0..n
             /\ ends[m] = ends[m - 1] + Len(seqs[m])
             /\ \A i \in 1..ends[m] :
                  h[m][i] = IF i <= ends[m - 1] THEN h[m - 1][i] ELSE seqs[m][i - ends[m - 1]]
  <2>1. m - 1 \in 0..n /\ m \in 0..n
    BY <1>1
  <2>2. h[m] = h[m - 1] \o seqs[m]
    BY <1>2 DEF IsJoined
  <2>3. /\ h[m - 1] \in Seq(S) /\ seqs[m] \in Seq(S)
        /\ Len(h[m - 1]) = ends[m - 1] /\ Len(h[m]) = ends[m]
    BY <1>1, <1>3, <2>1
  <2> DEFINE a == h[m - 1]
             b == seqs[m]
  <2>4. /\ a \in Seq(S) /\ b \in Seq(S) /\ h[m] = a \o b
        /\ Len(a) = ends[m - 1] /\ Len(h[m]) = ends[m]
    BY <2>2, <2>3
  <2> HIDE DEF n, a, b
  <2>5. /\ Len(a \o b) = Len(a) + Len(b)
        /\ \A i \in 1..Len(a) + Len(b) :
             (a \o b)[i] = IF i <= Len(a) THEN a[i] ELSE b[i - Len(a)]
    BY <2>4, ConcatProperties
  <2>6. /\ ends[m] = ends[m - 1] + Len(b)
        /\ \A i \in 1..ends[m] :
             h[m][i] = IF i <= ends[m - 1] THEN a[i] ELSE b[i - ends[m - 1]]
    BY <2>4, <2>5
  <2> QED BY <2>1, <2>6 DEF a, b
<1>6. Good(0)
  <2>1. \A i \in 0..0 : i = 0
    OBVIOUS
  <2>2. 1..ends[0] = {}
    BY <1>4
  <2> QED BY <1>4, <2>1, <2>2
<1>7. ASSUME NEW m \in 1..n, Good(m - 1) PROVE Good(m)
  <2> DEFINE e == ends[m - 1]
             w == Len(seqs[m])
  <2>1. /\ e \in Nat /\ w \in Nat /\ ends[m] = e + w /\ m \in Nat
        /\ \A i \in 0..m : i \in 0..n /\ ends[i] \in Nat
        /\ \A i \in 0..m - 1 : ends[i] <= e
    <3>1. m \in 0..n /\ m - 1 \in 0..n /\ ends[m] = e + w /\ m \in Nat
      BY <1>1, <1>5
    <3>2. e \in Nat /\ w \in Nat
      BY <1>1, <1>3, <3>1
    <3>3. \A i \in 0..m : i \in 0..n
      BY <1>1
    <3>4. \A i \in 0..m - 1 : ends[i] <= e
      BY <1>7
    <3> HIDE DEF e, w, n
    <3> QED BY <1>3, <3>1, <3>2, <3>3, <3>4
  <2>2. ASSUME NEW i \in 0..m PROVE ends[i] <= ends[m]
    <3>1. i \in 0..m - 1 \/ i = m
      BY <2>1
    <3> QED BY <2>1, <3>1
  <2>3. ASSUME NEW i \in 1..m, NEW j \in 1..Len(seqs[i])
        PROVE  ends[i - 1] + j \in 1..ends[m] /\ h[m][ends[i - 1] + j] = seqs[i][j]
    <3>1. CASE i = m
      <4>1. /\ e + j \in 1..ends[m] /\ ~(e + j <= e) /\ (e + j) - e = j
        BY <2>1, <3>1
      <4> QED BY <1>5, <3>1, <4>1
    <3>2. CASE i # m
      <4>1. i \in 1..m - 1
        BY <2>1, <3>2
      <4>2. ends[i - 1] + j \in 1..e /\ h[m - 1][ends[i - 1] + j] = seqs[i][j]
        BY <1>7, <4>1
      <4>3. ends[i - 1] + j \in 1..ends[m] /\ ends[i - 1] + j <= e
        <5> HIDE DEF e, w
        <5> QED BY <2>1, <4>2
      <4> QED BY <1>5, <4>2, <4>3
    <3> QED BY <3>1, <3>2
  <2>4. ASSUME NEW k \in 1..ends[m]
        PROVE  \E i \in 1..m : \E j \in 1..Len(seqs[i]) : k = ends[i - 1] + j
    <3>1. CASE k <= e
      <4>1. k \in 1..e
        BY <2>1, <3>1
      <4>2. PICK i \in 1..m - 1 : \E j \in 1..Len(seqs[i]) : k = ends[i - 1] + j
        BY <1>7, <4>1
      <4>3. i \in 1..m
        BY <2>1
      <4> QED BY <4>2, <4>3
    <3>2. CASE ~(k <= e)
      <4>1. k - e \in 1..w /\ k = e + (k - e) /\ m \in 1..m
        BY <2>1, <3>2
      <4> QED BY <4>1
    <3> QED BY <3>1, <3>2
  <2> QED BY <2>2, <2>3, <2>4
<1>8. \A m \in 0..n : Good(m)
  <2>1. SUFFICES ASSUME T # {} PROVE FALSE
    OBVIOUS
  <2>2. PICK m \in T : \A k \in T : m <= k
    <3>1. T \in SUBSET Nat
      BY <1>1
    <3> HIDE DEF T
    <3> QED BY <2>1, <3>1, LeastNatural
  <2> HIDE DEF Good
  <2>3. m \in 0..n /\ ~Good(m) /\ m \in Nat
    BY <1>1, <2>2
  <2>4. m # 0
    BY <1>6, <2>3
  <2>5. m - 1 \in 0..n /\ m \in 1..n /\ m - 1 \notin T
    BY <1>1, <2>2, <2>3, <2>4
  <2>6. Good(m - 1)
    BY <2>5
  <2> QED BY <1>7, <2>3, <2>5, <2>6
<1>9. InPlace(seqs, h[n], ends)
  <2>1. n \in 0..n
    BY <1>1
  <2>2. Good(n) /\ Len(h[n]) = ends[n]
    BY <1>3, <1>8, <2>1
  <2>3. \A i, l \in 0..n : i <= l => ends[i] <= ends[l]
    <3> SUFFICES ASSUME NEW i \in 0..n, NEW l \in 0..n, i <= l PROVE ends[i] <= ends[l]
      OBVIOUS
    <3>1. i \in 0..l /\ Good(l)
      BY <1>8
    <3> QED BY <3>1
  <2>4. \A i \in 1..n : ends[i] = ends[i - 1] + Len(seqs[i])
    BY <1>5
  <2> QED BY <1>3, <1>4, <2>2, <2>3, <2>4 DEF InPlace
<1>10. n \in 0..n /\ h[n] \in Seq(S)
  <2>1. n \in 0..n
    BY <1>1
  <2> QED BY <1>2, <2>1
<1> HIDE DEF n
<1> QED
  BY <1>2, <1>9, <1>10

(* Members of an earlier one come before members of a later one.           *)
LEMMA InPlaceOrder ==
  ASSUME NEW S, NEW seqs \in Seq(Seq(S)), NEW s, NEW ends, InPlace(seqs, s, ends),
         NEW i \in 1..Len(seqs), NEW j \in 1..Len(seqs[i]),
         NEW l \in 1..Len(seqs), NEW k \in 1..Len(seqs[l])
  PROVE  /\ i < l => ends[i - 1] + j < ends[l - 1] + k
         /\ ends[i - 1] + j = ends[l - 1] + k => i = l /\ j = k
<1>1. /\ Len(seqs) \in Nat /\ Len(seqs[i]) \in Nat /\ Len(seqs[l]) \in Nat
      /\ i \in Int /\ l \in Int /\ j \in Int /\ k \in Int
  <2>1. \A a \in 1..Len(seqs) : seqs[a] \in Seq(S)
    BY LenProperties
  <2> QED BY <2>1, LenProperties
<1>2. /\ i - 1 \in 0..Len(seqs) /\ i \in 0..Len(seqs)
      /\ l - 1 \in 0..Len(seqs) /\ l \in 0..Len(seqs)
  BY <1>1
<1>3. /\ ends[i - 1] \in Nat /\ ends[i] \in Nat /\ ends[l - 1] \in Nat /\ ends[l] \in Nat
      /\ ends[i] = ends[i - 1] + Len(seqs[i]) /\ ends[l] = ends[l - 1] + Len(seqs[l])
      /\ i <= l - 1 => ends[i] <= ends[l - 1]
      /\ l <= i - 1 => ends[l] <= ends[i - 1]
  BY <1>2 DEF InPlace
<1> DEFINE a == ends[i - 1]
           b == ends[l - 1]
           u == Len(seqs[i])
           w == Len(seqs[l])
<1>4. /\ a \in Nat /\ b \in Nat /\ 1 <= j /\ j <= u /\ 1 <= k /\ k <= w
      /\ i < l => a + u <= b
      /\ l < i => b + w <= a
      /\ i = l => a = b
  <2>1. /\ a \in Nat /\ b \in Nat /\ u \in Nat /\ w \in Nat
        /\ ends[i] = a + u /\ ends[l] = b + w
    BY <1>1, <1>3
  <2>2. 1 <= j /\ j <= u /\ 1 <= k /\ k <= w
    BY <1>1
  <2>3. /\ i < l => i <= l - 1
        /\ l < i => l <= i - 1
    BY <1>1
  <2>4. i = l => a = b
    OBVIOUS
  <2>5. i <= l - 1 => ends[i] <= b
    BY <1>3
  <2>6. l <= i - 1 => ends[l] <= a
    BY <1>3
  <2> HIDE DEF a, b, u, w
  <2> QED BY <2>1, <2>2, <2>3, <2>4, <2>5, <2>6
<1> HIDE DEF a, b, u, w
<1>5. /\ i < l => a + j < b + k
      /\ a + j = b + k => i = l /\ j = k
  <2>1. u \in Nat /\ w \in Nat
    BY <1>1 DEF u, w
  <2> QED BY <1>1, <1>4, <2>1
<1> QED
  BY <1>5 DEF a, b

(* If all members but one are empty, that one is the result.               *)
LEMMA FlattenOne ==
  ASSUME NEW S, NEW seqs \in Seq(Seq(S)), NEW i \in 1..Len(seqs),
         \A l \in 1..Len(seqs) : l # i => seqs[l] = <<>>
  PROVE  FlattenSeq(seqs) = seqs[i]
<1> DEFINE s == FlattenSeq(seqs)
<1>1. s \in Seq(S) /\ seqs[i] \in Seq(S) /\ Len(s) \in Nat /\ Len(seqs[i]) \in Nat
      /\ Len(seqs) \in Nat /\ i - 1 \in 0..Len(seqs) /\ i \in 0..Len(seqs)
  <2>1. Len(seqs) \in Nat /\ seqs[i] \in Seq(S)
    BY LenProperties
  <2>2. s \in Seq(S)
    BY FlattenInPlace
  <2> HIDE DEF s
  <2> QED BY <2>1, <2>2, LenProperties
<1>2. PICK ends : InPlace(seqs, s, ends)
  BY FlattenInPlace
<1> HIDE DEF s
<1>3. ends[i - 1] \in Nat /\ ends[i - 1] <= ends[Len(seqs)] /\ Len(s) = ends[Len(seqs)]
      /\ ends[i] = ends[i - 1] + Len(seqs[i]) /\ ends[i] <= Len(s)
  <2>1. /\ Len(seqs) \in 0..Len(seqs) /\ i - 1 <= Len(seqs) /\ i <= Len(seqs)
        /\ i - 1 \in 0..Len(seqs) /\ i \in 0..Len(seqs)
    BY <1>1
  <2>2. /\ ends \in [0..Len(seqs) -> Nat] /\ Len(s) = ends[Len(seqs)]
        /\ ends[i] = ends[i - 1] + Len(seqs[i])
        /\ \A l, m \in 0..Len(seqs) : l <= m => ends[l] <= ends[m]
    BY <1>2 DEF InPlace
  <2> QED BY <2>1, <2>2
<1>4. ASSUME NEW k \in 1..Len(s) PROVE \E j \in 1..Len(seqs[i]) : k = ends[i - 1] + j
  <2>1. PICK l \in 1..Len(seqs) : \E j \in 1..Len(seqs[l]) : k = ends[l - 1] + j
    BY <1>2 DEF InPlace
  <2>2. l = i
    <3>1. Len(<<>>) = 0 /\ 1..0 = {}
      OBVIOUS
    <3> QED BY <2>1, <3>1
  <2> QED BY <2>1, <2>2
<1>5. ends[i - 1] = 0
  <2> SUFFICES ASSUME ends[i - 1] # 0 PROVE FALSE
    OBVIOUS
  <2>1. 1 \in 1..Len(s) /\ 1 <= ends[i - 1]
    BY <1>1, <1>3
  <2>2. PICK j \in 1..Len(seqs[i]) : 1 = ends[i - 1] + j
    BY <1>4, <2>1
  <2> QED BY <1>1, <1>3, <2>1, <2>2
<1>6. Len(s) = Len(seqs[i])
  <2>1. CASE Len(s) = 0
    BY <1>1, <1>3, <1>5, <2>1
  <2>2. CASE Len(s) # 0
    <3>1. Len(s) \in 1..Len(s)
      BY <1>1, <2>2
    <3>2. PICK j \in 1..Len(seqs[i]) : Len(s) = ends[i - 1] + j
      BY <1>4, <3>1
    <3> QED BY <1>1, <1>3, <1>5, <3>2
  <2> QED BY <2>1, <2>2
<1>7. \A j \in 1..Len(s) : s[j] = seqs[i][j]
  <2> SUFFICES ASSUME NEW j \in 1..Len(s) PROVE s[j] = seqs[i][j]
    OBVIOUS
  <2>1. j \in 1..Len(seqs[i]) /\ ends[i - 1] + j = j
    BY <1>1, <1>5, <1>6
  <2>2. s[ends[i - 1] + j] = seqs[i][j]
    BY <1>2, <2>1 DEF InPlace
  <2> QED BY <2>1, <2>2
<1>8. s = seqs[i]
  BY <1>1, <1>6, <1>7, SeqEqual
<1> QED
  BY <1>8 DEF s

-----------------------------------------------------------------------------
(* The function of all subsets of S that SumFunctionOnSet chooses.         *)
Pick(s) == CHOOSE x \in s : TRUE
Added(f, s, g) == IF s = {} THEN 0 ELSE f[Pick(s)] + g[s \ {Pick(s)}]
IsSum(f, S, g) == g = [s \in SUBSET S |-> Added(f, s, g)]

LEMMA SumIs ==
  ASSUME NEW f, NEW S
  PROVE  SumFunctionOnSet(f, S) = (CHOOSE g : IsSum(f, S, g))[S]
BY Zenon DEF SumFunctionOnSet, FoldFunctionOnSet, MapThenFoldSet, IsSum, Added, Pick

(* Two such functions agree on the finite sets both are defined on.        *)
LEMMA SumsAgree ==
  ASSUME NEW f, NEW S, NEW T, NEW g, NEW h, IsSum(f, S, g), IsSum(f, T, h),
         NEW U, IsFiniteSet(U), U \subseteq S, U \subseteq T
  PROVE  g[U] = h[U]
<1> DEFINE C == {u \in SUBSET U : g[u] # h[u]}
<1>1. SUFFICES ASSUME C # {} PROVE FALSE
  OBVIOUS
<1>2. PICK s \in C : \A t \in SUBSET s : t # s => t \notin C
  <2>1. C \in SUBSET (SUBSET U)
    OBVIOUS
  <2> HIDE DEF C
  <2> QED BY <2>1, <1>1, MinimalSubset
<1>3. g[s] = Added(f, s, g) /\ h[s] = Added(f, s, h)
  BY DEF IsSum
<1>4. s # {}
  BY <1>3 DEF Added
<1>5. Pick(s) \in s
  BY <1>4 DEF Pick
<1>6. s \ {Pick(s)} \notin C
  BY <1>2, <1>5
<1>7. g[s \ {Pick(s)}] = h[s \ {Pick(s)}]
  BY <1>6
<1> QED
  BY <1>3, <1>4, <1>7 DEF Added

Chosen(f, u) == CHOOSE g : IsSum(f, u, g)

(* For a finite set there is one.                                          *)
LEMMA SumExists ==
  ASSUME NEW f, NEW S, IsFiniteSet(S)
  PROVE  IsSum(f, S, Chosen(f, S))
<1> DEFINE C == {u \in SUBSET S : ~ \E g : IsSum(f, u, g)}
<1>1. SUFFICES ASSUME C # {} PROVE FALSE
  BY DEF Chosen
<1>2. PICK s \in C : \A t \in SUBSET s : t # s => t \notin C
  <2>1. C \in SUBSET (SUBSET S)
    OBVIOUS
  <2> HIDE DEF C
  <2> QED BY <2>1, <1>1, MinimalSubset
<1>3. \A t \in SUBSET s : t # s => IsSum(f, t, Chosen(f, t))
  <2>1. SUFFICES ASSUME NEW t \in SUBSET s, t # s PROVE IsSum(f, t, Chosen(f, t))
    OBVIOUS
  <2>2. \E g : IsSum(f, t, g)
    BY <1>2, <2>1
  <2> QED BY <2>2 DEF Chosen
<1> DEFINE Rest(u) == u \ {Pick(u)}
           g == [u \in SUBSET s |->
                   IF u = {} THEN 0 ELSE f[Pick(u)] + Chosen(f, Rest(u))[Rest(u)]]
<1>4. \A u \in SUBSET s : u # {} => Rest(u) \in SUBSET s /\ Rest(u) # s /\ Rest(u) # u
                                     /\ Rest(u) \subseteq u
  BY DEF Pick
<1>5. ASSUME NEW v \in SUBSET s, v # s
      PROVE  g[v] = Chosen(f, v)[v]
  <2>1. Chosen(f, v)[v] = Added(f, v, Chosen(f, v))
    BY <1>3, <1>5 DEF IsSum
  <2>2. CASE v = {}
    BY <2>1, <2>2 DEF Added
  <2>3. CASE v # {}
    <3>1. IsFiniteSet(Rest(v))
      BY FS_Subset, <1>2
    <3>2. Rest(v) \in SUBSET s /\ Rest(v) # s /\ Rest(v) \subseteq v
      BY <1>4, <2>3
    <3> HIDE DEF Rest
    <3>3. IsSum(f, v, Chosen(f, v)) /\ IsSum(f, Rest(v), Chosen(f, Rest(v)))
      BY <1>3, <1>5, <3>2
    <3>4. Chosen(f, v)[Rest(v)] = Chosen(f, Rest(v))[Rest(v)]
      BY <3>1, <3>2, <3>3, SumsAgree
    <3>5. Chosen(f, v)[v] = f[Pick(v)] + Chosen(f, v)[Rest(v)]
      BY <2>1, <2>3 DEF Added, Rest
    <3>6. g[v] = f[Pick(v)] + Chosen(f, Rest(v))[Rest(v)]
      BY <2>3
    <3> QED BY <3>4, <3>5, <3>6
  <2> QED BY <2>2, <2>3
<1>6. \A u \in SUBSET s : g[u] = Added(f, u, g)
  <2>1. SUFFICES ASSUME NEW u \in SUBSET s, u # {}
                 PROVE  g[u] = Added(f, u, g)
    BY DEF Added
  <2>2. g[Rest(u)] = Chosen(f, Rest(u))[Rest(u)]
    <3>1. Rest(u) \in SUBSET s /\ Rest(u) # s
      BY <1>4, <2>1
    <3> HIDE DEF Rest, g
    <3> QED BY <3>1, <1>5
  <2>3. g[u] = f[Pick(u)] + Chosen(f, Rest(u))[Rest(u)]
    BY <2>1
  <2>4. Added(f, u, g) = f[Pick(u)] + g[Rest(u)]
    <3> HIDE DEF g
    <3> QED BY <2>1 DEF Added
  <2> HIDE DEF g, Rest
  <2> QED BY <2>2, <2>3, <2>4
<1>7. IsSum(f, s, g)
  <2>1. g = [u \in SUBSET s |-> g[u]]
    OBVIOUS
  <2> HIDE DEF g
  <2> QED BY <1>6, <2>1 DEF IsSum
<1> QED
  <2> HIDE DEF g
  <2> QED BY <1>2, <1>7

(* The sum over the empty set, and over a set as the value at its picked   *)
(* element and the sum over the rest.                                      *)
LEMMA SumUnfold ==
  ASSUME NEW f, NEW S, IsFiniteSet(S)
  PROVE  SumFunctionOnSet(f, S) =
           IF S = {} THEN 0
           ELSE f[Pick(S)] + SumFunctionOnSet(f, S \ {Pick(S)})
<1> DEFINE R == S \ {Pick(S)}
<1>1. IsFiniteSet(R) /\ R \subseteq S
  BY FS_Subset
<1> HIDE DEF R
<1>2. SumFunctionOnSet(f, S) = Chosen(f, S)[S] /\ SumFunctionOnSet(f, R) = Chosen(f, R)[R]
  BY SumIs DEF Chosen
<1>3. IsSum(f, S, Chosen(f, S)) /\ IsSum(f, R, Chosen(f, R))
  BY SumExists, <1>1
<1>4. Chosen(f, S)[R] = Chosen(f, R)[R]
  BY <1>1, <1>3, SumsAgree
<1>5. Chosen(f, S)[S] = IF S = {} THEN 0 ELSE f[Pick(S)] + Chosen(f, S)[R]
  BY <1>3 DEF IsSum, Added, R
<1> QED
  BY <1>2, <1>4, <1>5 DEF R

LEMMA SumEmpty == \A f : SumFunctionOnSet(f, {}) = 0
BY SumUnfold, FS_EmptySet

(* The sum of integers is an integer.                                      *)
LEMMA SumInt ==
  ASSUME NEW f, NEW S, IsFiniteSet(S), \A x \in S : f[x] \in Int
  PROVE  SumFunctionOnSet(f, S) \in Int
<1> DEFINE C == {u \in SUBSET S : SumFunctionOnSet(f, u) \notin Int}
<1>1. SUFFICES ASSUME C # {} PROVE FALSE
  OBVIOUS
<1>2. PICK s \in C : \A t \in SUBSET s : t # s => t \notin C
  <2>1. C \in SUBSET (SUBSET S)
    OBVIOUS
  <2> HIDE DEF C
  <2> QED BY <2>1, <1>1, MinimalSubset
<1>3. IsFiniteSet(s)
  BY <1>2, FS_Subset
<1>4. s # {}
  BY SumEmpty
<1>5. Pick(s) \in s
  BY <1>4 DEF Pick
<1>6. SumFunctionOnSet(f, s \ {Pick(s)}) \in Int
  BY <1>2, <1>5
<1>7. SumFunctionOnSet(f, s) = f[Pick(s)] + SumFunctionOnSet(f, s \ {Pick(s)})
  BY <1>3, <1>4, SumUnfold
<1> QED
  BY <1>2, <1>5, <1>6, <1>7

(* The sum of zeros is zero.                                               *)
LEMMA SumZero ==
  ASSUME NEW f, NEW S, IsFiniteSet(S), \A x \in S : f[x] = 0
  PROVE  SumFunctionOnSet(f, S) = 0
<1> DEFINE C == {u \in SUBSET S : SumFunctionOnSet(f, u) # 0}
<1>1. SUFFICES ASSUME C # {} PROVE FALSE
  OBVIOUS
<1>2. PICK s \in C : \A t \in SUBSET s : t # s => t \notin C
  <2>1. C \in SUBSET (SUBSET S)
    OBVIOUS
  <2> HIDE DEF C
  <2> QED BY <2>1, <1>1, MinimalSubset
<1>3. IsFiniteSet(s)
  BY <1>2, FS_Subset
<1>4. s # {}
  BY SumEmpty
<1>5. Pick(s) \in s
  BY <1>4 DEF Pick
<1>6. SumFunctionOnSet(f, s \ {Pick(s)}) = 0
  BY <1>2, <1>5
<1>7. SumFunctionOnSet(f, s) = f[Pick(s)] + SumFunctionOnSet(f, s \ {Pick(s)})
  BY <1>3, <1>4, SumUnfold
<1> QED
  BY <1>2, <1>5, <1>6, <1>7

(* Functions with the same values have the same sum.                       *)
LEMMA SumSame ==
  ASSUME NEW f, NEW g, NEW S, IsFiniteSet(S), \A x \in S : f[x] = g[x]
  PROVE  SumFunctionOnSet(f, S) = SumFunctionOnSet(g, S)
<1> DEFINE C == {u \in SUBSET S : SumFunctionOnSet(f, u) # SumFunctionOnSet(g, u)}
<1>1. SUFFICES ASSUME C # {} PROVE FALSE
  OBVIOUS
<1>2. PICK s \in C : \A t \in SUBSET s : t # s => t \notin C
  <2>1. C \in SUBSET (SUBSET S)
    OBVIOUS
  <2> HIDE DEF C
  <2> QED BY <2>1, <1>1, MinimalSubset
<1>3. IsFiniteSet(s)
  BY <1>2, FS_Subset
<1>4. s # {}
  BY SumEmpty
<1>5. Pick(s) \in s
  BY <1>4 DEF Pick
<1>6. SumFunctionOnSet(f, s \ {Pick(s)}) = SumFunctionOnSet(g, s \ {Pick(s)})
  BY <1>2, <1>5
<1>7. /\ SumFunctionOnSet(f, s) = f[Pick(s)] + SumFunctionOnSet(f, s \ {Pick(s)})
      /\ SumFunctionOnSet(g, s) = g[Pick(s)] + SumFunctionOnSet(g, s \ {Pick(s)})
  BY <1>3, <1>4, SumUnfold
<1> QED
  BY <1>2, <1>5, <1>6, <1>7

(* Any element can be taken out of the set first.                          *)
LEMMA SumRemove ==
  ASSUME NEW f, NEW S, IsFiniteSet(S), \A x \in S : f[x] \in Int, NEW e \in S
  PROVE  SumFunctionOnSet(f, S) = f[e] + SumFunctionOnSet(f, S \ {e})
<1> DEFINE Ok(u) == \A x \in u : SumFunctionOnSet(f, u)
                                   = f[x] + SumFunctionOnSet(f, u \ {x})
           C == {u \in SUBSET S : ~ Ok(u)}
<1>1. SUFFICES ASSUME C # {} PROVE FALSE
  OBVIOUS
<1>2. PICK s \in C : \A t \in SUBSET s : t # s => t \notin C
  <2>1. C \in SUBSET (SUBSET S)
    OBVIOUS
  <2> HIDE DEF C
  <2> QED BY <2>1, <1>1, MinimalSubset
<1>3. PICK x \in s : SumFunctionOnSet(f, s) # f[x] + SumFunctionOnSet(f, s \ {x})
  BY <1>2
<1> DEFINE p == Pick(s)
<1>4. p \in s
  BY <1>3 DEF Pick
<1>5. s \in SUBSET S /\ \A t \in SUBSET s : t # s => Ok(t)
  BY <1>2
<1>6. \A t \in SUBSET s : IsFiniteSet(t) /\ SumFunctionOnSet(f, t) \in Int
  <2>1. SUFFICES ASSUME NEW t \in SUBSET s
                 PROVE  IsFiniteSet(t) /\ SumFunctionOnSet(f, t) \in Int
    OBVIOUS
  <2>2. IsFiniteSet(t) /\ \A y \in t : f[y] \in Int
    BY <1>5, FS_Subset
  <2> QED BY <2>2, SumInt
<1> HIDE DEF C, p
<1>7. SumFunctionOnSet(f, s) = f[p] + SumFunctionOnSet(f, s \ {p})
  BY <1>3, <1>6, SumUnfold DEF p
<1>8. p # x
  BY <1>3, <1>7
<1>9. SumFunctionOnSet(f, s \ {p}) = f[x] + SumFunctionOnSet(f, (s \ {p}) \ {x})
  BY <1>3, <1>4, <1>5, <1>8
<1>10. SumFunctionOnSet(f, s \ {x}) = f[p] + SumFunctionOnSet(f, (s \ {p}) \ {x})
  <2>1. (s \ {x}) \ {p} = (s \ {p}) \ {x}
    OBVIOUS
  <2> QED BY <1>3, <1>4, <1>5, <1>8, <2>1
<1>11. f[x] \in Int /\ f[p] \in Int /\ SumFunctionOnSet(f, (s \ {p}) \ {x}) \in Int
  BY <1>3, <1>4, <1>5, <1>6
<1> DEFINE a == SumFunctionOnSet(f, s)
           b == SumFunctionOnSet(f, s \ {p})
           c == SumFunctionOnSet(f, s \ {x})
           d == SumFunctionOnSet(f, (s \ {p}) \ {x})
<1>12. a # f[x] + c /\ a = f[p] + b /\ b = f[x] + d /\ c = f[p] + d /\ d \in Int
  BY <1>3, <1>7, <1>9, <1>10, <1>11
<1> HIDE DEF a, b, c, d
<1> QED
  BY <1>11, <1>12

(* Adding d to one value adds d to the sum.                                *)
LEMMA SumChange ==
  ASSUME NEW S, IsFiniteSet(S), NEW f, NEW g, NEW e \in S, NEW d \in Int,
         \A x \in S : f[x] \in Int,
         \A x \in S : g[x] = IF x = e THEN f[x] + d ELSE f[x]
  PROVE  SumFunctionOnSet(g, S) = SumFunctionOnSet(f, S) + d
<1> DEFINE R == S \ {e}
<1>1. IsFiniteSet(R) /\ R \subseteq S /\ \A x \in R : f[x] = g[x]
  BY FS_Subset
<1>2. g[e] = f[e] + d /\ f[e] \in Int /\ \A x \in S : f[x] \in Int /\ g[x] \in Int
  OBVIOUS
<1>3. SumFunctionOnSet(f, S) = f[e] + SumFunctionOnSet(f, R)
  BY <1>2, SumRemove
<1>4. SumFunctionOnSet(g, S) = g[e] + SumFunctionOnSet(g, R)
  BY <1>2, SumRemove
<1> HIDE DEF R
<1>5. SumFunctionOnSet(f, R) = SumFunctionOnSet(g, R)
  BY <1>1, SumSame
<1>6. SumFunctionOnSet(f, R) \in Int
  BY <1>1, <1>2, SumInt
<1> QED
  BY <1>2, <1>3, <1>4, <1>5, <1>6

(* A sum of natural numbers is one, and no smaller than any of them.       *)
LEMMA SumNat ==
  ASSUME NEW f, NEW S, IsFiniteSet(S), \A x \in S : f[x] \in Nat
  PROVE  /\ SumFunctionOnSet(f, S) \in Nat
         /\ \A x \in S : f[x] <= SumFunctionOnSet(f, S)
<1> DEFINE C == {u \in SUBSET S : SumFunctionOnSet(f, u) \notin Nat}
<1>1. C = {}
  <2>1. SUFFICES ASSUME C # {} PROVE FALSE
    OBVIOUS
  <2>2. PICK s \in C : \A t \in SUBSET s : t # s => t \notin C
    <3>1. C \in SUBSET (SUBSET S)
      OBVIOUS
    <3> HIDE DEF C
    <3> QED BY <3>1, <2>1, MinimalSubset
  <2>3. IsFiniteSet(s)
    BY <2>2, FS_Subset
  <2>4. s # {}
    BY SumEmpty
  <2>5. Pick(s) \in s
    BY <2>4 DEF Pick
  <2>6. SumFunctionOnSet(f, s \ {Pick(s)}) \in Nat
    BY <2>2, <2>5
  <2>7. SumFunctionOnSet(f, s) = f[Pick(s)] + SumFunctionOnSet(f, s \ {Pick(s)})
    BY <2>3, <2>4, SumUnfold
  <2>8. f[Pick(s)] \in Nat
    BY <2>2, <2>5
  <2> QED BY <2>2, <2>6, <2>7, <2>8
<1>2. SumFunctionOnSet(f, S) \in Nat
  BY <1>1
<1>3. ASSUME NEW x \in S PROVE f[x] <= SumFunctionOnSet(f, S)
  <2>1. SumFunctionOnSet(f, S) = f[x] + SumFunctionOnSet(f, S \ {x})
    BY SumRemove
  <2>2. SumFunctionOnSet(f, S \ {x}) \in Nat
    BY <1>1
  <2>3. f[x] \in Nat
    OBVIOUS
  <2> HIDE DEF C
  <2> QED BY <2>1, <2>2, <2>3
<1> QED
  BY <1>2, <1>3
=============================================================================
