---------------------------- MODULE SequenceFacts ----------------------------
(* Facts about sequences, sets of positions and sums that the proofs of    *)
(* several components need. They rest on the well-foundedness of inclusion *)
(* on finite sets, from which induction on numbers follows.                *)
EXTENDS Sequencing, SequencesExt, FiniteSetTheorems, SequenceTheorems, TLAPS

(* A set of numbers that is not empty has a least element: the intervals   *)
(* from 0 are ordered by inclusion, which is well-founded on finite sets.  *)
LEMMA LeastElement ==
  ASSUME NEW T \in SUBSET Nat, T # {}
  PROVE  \E n \in T : \A m \in T : n <= m
<1> DEFINE R == StrictSubsetOrdering(Nat)
           U == {0 .. n : n \in T}
<1>1. IsWellFoundedOn(R, FiniteSubsetsOf(Nat))
  BY FS_StrictSubsetOrderingWellFounded
<1>2. U \subseteq FiniteSubsetsOf(Nat)
  <2> SUFFICES ASSUME NEW n \in T PROVE 0 .. n \in FiniteSubsetsOf(Nat)
    OBVIOUS
  <2>1. n \in Nat /\ 0 .. n \subseteq Nat
    OBVIOUS
  <2>2. IsFiniteSet(0 .. n)
    BY <2>1, FS_Interval
  <2> QED BY <2>1, <2>2 DEF FiniteSubsetsOf
<1>3. \A x, y \in T : x < y => << 0 .. x, 0 .. y >> \in R
  <2> SUFFICES ASSUME NEW x \in T, NEW y \in T, x < y PROVE << 0 .. x, 0 .. y >> \in R
    OBVIOUS
  <2>1. y \in 0 .. y /\ y \notin 0 .. x
    OBVIOUS
  <2> QED BY <2>1 DEF StrictSubsetOrdering
<1>4. U # {}
  OBVIOUS
<1> HIDE DEF R
<1>5. PICK s \in U : \A t \in U : ~ (<< t, s >> \in R)
  <2> HIDE DEF U
  <2> QED BY <1>1, <1>2, <1>4, WFMin
<1>6. PICK n \in T : s = 0 .. n
  OBVIOUS
<1>7. ASSUME NEW m \in T PROVE n <= m
  <2>1. << 0 .. m, 0 .. n >> \notin R
    BY <1>5, <1>6
  <2> QED BY <1>3, <2>1
<1> QED BY <1>7

(* Induction on numbers, as a fact about sets, which any prover can        *)
(* instantiate.                                                            *)
LEMMA Induction ==
  ASSUME NEW P, 0 \in P, \A n \in Nat : n \in P => n + 1 \in P
  PROVE  Nat \subseteq P
<1> SUFFICES ASSUME Nat \ P # {} PROVE FALSE
  OBVIOUS
<1>1. PICK n \in Nat \ P : \A m \in Nat \ P : n <= m
  BY LeastElement
<1>2. n # 0 /\ n - 1 \in Nat
  BY <1>1
<1>3. n - 1 \in P
  BY <1>1, <1>2
<1> QED BY <1>1, <1>2, <1>3

(* f, of values in X, starts with b and takes step F[i, _] to its i-th.      *)
Steps(n, X)              == [(1 .. n) \X X -> X]
RunsFrom(f, n, X, b, F) ==
  f \in [0 .. n -> X] /\ f[0] = b /\ \A i \in 1 .. n : f[i] = F[<< i, f[i - 1] >>]

(* A function defined by recursion on its argument exists.                 *)
LEMMA RecursionExists ==
  ASSUME NEW X, NEW b \in X, NEW n \in Nat, NEW F \in Steps(n, X)
  PROVE  \E f : RunsFrom(f, n, X, b, F)
<1> USE DEF Steps, RunsFrom
<1> DEFINE Good(m) == \E f \in [0 .. m -> X] :
                        f[0] = b /\ \A i \in 1 .. m : f[i] = F[<< i, f[i - 1] >>]
           P == {m \in Nat : m <= n => Good(m)}
<1>1. Good(0)
  <2> DEFINE f == [i \in 0 .. 0 |-> b]
  <2>1. f \in [0 .. 0 -> X] /\ f[0] = b
    OBVIOUS
  <2> HIDE DEF f
  <2> QED BY <2>1
<1>2. ASSUME NEW m \in Nat, m \in P PROVE m + 1 \in P
  <2> SUFFICES ASSUME m + 1 <= n PROVE Good(m + 1)
    OBVIOUS
  <2>1. PICK f \in [0 .. m -> X] :
          f[0] = b /\ \A i \in 1 .. m : f[i] = F[<< i, f[i - 1] >>]
    BY <1>2
  <2> DEFINE g == [i \in 0 .. m + 1 |-> IF i = m + 1 THEN F[<< i, f[m] >>] ELSE f[i]]
  <2>2. F[<< m + 1, f[m] >>] \in X
    <3>1. m + 1 \in 1 .. n /\ f[m] \in X
      OBVIOUS
    <3> QED BY <3>1
  <2>3. /\ g \in [0 .. m + 1 -> X] /\ g[0] = f[0] /\ g[m + 1] = F[<< m + 1, f[m] >>]
        /\ \A i \in 0 .. m : g[i] = f[i]
    BY <2>2
  <2> HIDE DEF g
  <2>4. ASSUME NEW i \in 1 .. m + 1 PROVE g[i] = F[<< i, g[i - 1] >>]
    <3>1. CASE i = m + 1
      <4>1. i - 1 = m /\ m \in 0 .. m
        BY <3>1
      <4>2. g[m] = f[m]
        BY <2>3, <4>1
      <4> QED BY <2>3, <3>1, <4>1, <4>2
    <3>2. CASE i # m + 1
      <4>1. i \in 1 .. m /\ i - 1 \in 0 .. m /\ i \in 0 .. m
        BY <3>2
      <4> QED BY <2>1, <2>3, <4>1
    <3> QED BY <3>1, <3>2
  <2> QED BY <2>1, <2>3, <2>4
<1>3. Nat \subseteq P
  <2>1. 0 \in P
    BY <1>1
  <2> HIDE DEF P
  <2> QED BY <1>2, <2>1, Induction
<1> QED BY <1>3
-----------------------------------------------------------------------------
(* The number of elements of P up to i.                                    *)
Rank(P, i) == Cardinality({j \in P : j <= i})

(* Ranks are between 1 and the number of elements, and increase.           *)
LEMMA RankFacts ==
  ASSUME NEW P \in SUBSET Nat, IsFiniteSet(P)
  PROVE  /\ \A i \in P : Rank(P, i) \in 1 .. Cardinality(P)
         /\ \A i, j \in P : i < j => Rank(P, i) < Rank(P, j)
<1>1. ASSUME NEW i \in P
      PROVE  /\ Rank(P, i) \in 1 .. Cardinality(P) /\ IsFiniteSet({j \in P : j <= i})
             /\ Rank(P, i) \in Nat
  <2> DEFINE B == {j \in P : j <= i}
  <2>1. B \in SUBSET P /\ i \in B
    OBVIOUS
  <2>2. IsFiniteSet(B) /\ Cardinality(B) <= Cardinality(P)
    BY <2>1, FS_Subset
  <2>3. Cardinality(B) \in Nat /\ Cardinality(P) \in Nat /\ Cardinality(B) # 0
    BY <2>1, <2>2, FS_CardinalityType, FS_EmptySet
  <2> QED BY <2>2, <2>3 DEF Rank
<1>2. ASSUME NEW i \in P, NEW j \in P, i < j
      PROVE  Rank(P, i) < Rank(P, j)
  <2> DEFINE A == {l \in P : l <= i}
             B == {l \in P : l <= j}
  <2>1. A \in SUBSET B /\ A # B
    <3>1. j \in B /\ j \notin A
      BY <1>2
    <3>2. i \in Nat /\ j \in Nat /\ \A l \in P : l \in Nat
      OBVIOUS
    <3>3. \A l \in P : l <= i => l <= j
      BY <1>2, <3>2
    <3>4. A \subseteq B
      BY <3>3
    <3> QED BY <3>1, <3>4
  <2>2. IsFiniteSet(B)
    BY <1>1
  <2> HIDE DEF A, B
  <2>3. Cardinality(A) <= Cardinality(B) /\ Cardinality(A) # Cardinality(B)
    BY <2>1, <2>2, FS_Subset
  <2>4. Rank(P, i) = Cardinality(A) /\ Rank(P, j) = Cardinality(B)
    BY DEF Rank, A, B
  <2>5. Rank(P, i) \in Nat /\ Rank(P, j) \in Nat
    BY <1>1
  <2> QED BY <2>3, <2>4, <2>5
<1> QED BY <1>1, <1>2

(* The k-th smallest is the element whose rank is k.                       *)
LEMMA NthFacts ==
  ASSUME NEW P \in SUBSET Nat, IsFiniteSet(P)
  PROVE  /\ Cardinality(P) \in Nat
         /\ \A k \in 1 .. Cardinality(P) : Nth(P, k) \in P /\ Rank(P, Nth(P, k)) = k
         /\ \A i \in P : Rank(P, i) \in 1 .. Cardinality(P) /\ Nth(P, Rank(P, i)) = i
         /\ \A k, l \in 1 .. Cardinality(P) : k < l => Nth(P, k) < Nth(P, l)
<1> DEFINE n == Cardinality(P)
           r == [i \in P |-> Rank(P, i)]
<1>1. n \in Nat
  BY FS_CardinalityType
<1>2. \A i \in P : Rank(P, i) \in 1 .. n
  BY RankFacts
<1>3. ASSUME NEW i \in P, NEW j \in P, Rank(P, i) = Rank(P, j) PROVE i = j
  <2>1. ~ i < j /\ ~ j < i
    BY <1>1, <1>2, <1>3, RankFacts
  <2> QED BY <2>1
<1>4. r \in Injection(P, 1 .. n)
  BY <1>2, <1>3 DEF Injection, IsInjective
<1>5. IsFiniteSet(1 .. n) /\ Cardinality(1 .. n) = n
  BY <1>1, FS_Interval
<1>6. r \in Surjection(P, 1 .. n)
  <2> HIDE DEF r
  <2> QED BY <1>4, <1>5, FS_Injection
<1>7. ASSUME NEW k \in 1 .. n PROVE Nth(P, k) \in P /\ Rank(P, Nth(P, k)) = k
  <2>1. \E i \in P : Rank(P, i) = k
    BY <1>6 DEF Surjection
  <2> QED BY <2>1 DEF Nth, Rank
<1>8. ASSUME NEW i \in P PROVE Nth(P, Rank(P, i)) = i
  BY <1>2, <1>3, <1>7
<1>9. ASSUME NEW k \in 1 .. n, NEW l \in 1 .. n, k < l PROVE Nth(P, k) < Nth(P, l)
  <2>1. Nth(P, k) \in P /\ Nth(P, l) \in P /\ Rank(P, Nth(P, k)) = k /\ Rank(P, Nth(P, l)) = l
    BY <1>7
  <2>2. Nth(P, k) \in Nat /\ Nth(P, l) \in Nat
    BY <2>1
  <2>3. Nth(P, l) < Nth(P, k) => l < k
    BY <2>1, RankFacts
  <2>4. Nth(P, l) # Nth(P, k)
    BY <1>9, <2>1
  <2> QED BY <1>1, <1>9, <2>2, <2>3, <2>4
<1> QED BY <1>1, <1>2, <1>7, <1>8, <1>9

(* Whatever lists the elements of P in increasing order is its listing.    *)
LEMMA InOrderUnique ==
  ASSUME NEW n \in Nat, NEW P \in SUBSET Nat, NEW f \in [1 .. n -> P],
         \A k, l \in 1 .. n : k < l => f[k] < f[l],
         \A i \in P : \E k \in 1 .. n : f[k] = i
  PROVE  IsFiniteSet(P) /\ Cardinality(P) = n /\ \A k \in 1 .. n : Nth(P, k) = f[k]
<1>1. ASSUME NEW k \in 1 .. n, NEW l \in 1 .. n, f[k] <= f[l] PROVE k <= l
  <2>1. f[k] \in Nat /\ f[l] \in Nat
    OBVIOUS
  <2> QED BY <1>1, <2>1
<1>2. ASSUME NEW k \in 0 .. n, NEW Q \in SUBSET P, \A i \in Q : \E l \in 1 .. k : f[l] = i,
             \A l \in 1 .. k : f[l] \in Q
      PROVE  IsFiniteSet(Q) /\ Cardinality(Q) = k
  <2> DEFINE g == [l \in 1 .. k |-> f[l]]
  <2>1. g \in Bijection(1 .. k, Q)
    <3>1. g \in [1 .. k -> Q]
      BY <1>2
    <3>2. \A l, m \in 1 .. k : g[l] = g[m] => l = m
      <4> SUFFICES ASSUME NEW l \in 1 .. k, NEW m \in 1 .. k, f[l] = f[m] PROVE l = m
        OBVIOUS
      <4>1. l \in 1 .. n /\ m \in 1 .. n
        OBVIOUS
      <4>2. f[l] \in Nat /\ f[m] \in Nat
        BY <4>1
      <4>3. l <= m /\ m <= l
        BY <1>1, <4>1, <4>2
      <4> QED BY <4>1, <4>3
    <3>3. \A i \in Q : \E l \in 1 .. k : g[l] = i
      BY <1>2
    <3> QED BY <3>1, <3>2, <3>3 DEF Bijection, Injection, Surjection, IsInjective
  <2>2. ExistsBijection(1 .. k, Q) /\ k \in Nat
    BY <2>1 DEF ExistsBijection
  <2> QED BY <2>2, FS_CountingElements, FS_NatBijection
<1>3. IsFiniteSet(P) /\ Cardinality(P) = n
  <2>1. n \in 0 .. n /\ P \in SUBSET P /\ \A l \in 1 .. n : f[l] \in P
    OBVIOUS
  <2> QED BY <1>2, <2>1
<1>4. ASSUME NEW k \in 1 .. n PROVE Rank(P, f[k]) = k
  <2> DEFINE Q == {j \in P : j <= f[k]}
  <2>1. \A i \in Q : \E l \in 1 .. k : f[l] = i
    BY <1>1
  <2>2. ASSUME NEW l \in 1 .. k PROVE f[l] \in Q
    <3>0. l \in 1 .. n
      OBVIOUS
    <3>1. l \in 1 .. n /\ f[l] \in P /\ f[l] \in Nat /\ f[k] \in Nat
      BY <3>0
    <3>2. CASE l = k
      BY <3>1, <3>2
    <3>3. CASE l < k
      BY <3>1, <3>3
    <3> QED BY <3>2, <3>3
  <2>3. k \in 0 .. n /\ Q \in SUBSET P
    OBVIOUS
  <2> HIDE DEF Q
  <2>4. Cardinality(Q) = k
    BY <1>2, <2>1, <2>2, <2>3
  <2> QED BY <2>4 DEF Rank, Q
<1>5. ASSUME NEW k \in 1 .. n PROVE Nth(P, k) = f[k]
  <2>1. f[k] \in P /\ Nth(P, Rank(P, f[k])) = f[k]
    BY <1>3, NthFacts
  <2> QED BY <1>4, <2>1
<1> QED BY <1>3, <1>5

(* What is picked of a sequence is a sequence of what it has there.        *)
LEMMA PickedFacts ==
  ASSUME NEW X, NEW s \in Seq(X), NEW P \in SUBSET (1 .. Len(s))
  PROVE  /\ IsFiniteSet(P) /\ Cardinality(P) \in 0 .. Len(s)
         /\ Picked(s, P) \in Seq(X) /\ Len(Picked(s, P)) = Cardinality(P)
         /\ \A k \in 1 .. Cardinality(P) :
              /\ Nth(P, k) \in P /\ Rank(P, Nth(P, k)) = k
              /\ Picked(s, P)[k] = s[Nth(P, k)]
         /\ \A i \in P : /\ Rank(P, i) \in 1 .. Cardinality(P)
                         /\ Nth(P, Rank(P, i)) = i /\ Picked(s, P)[Rank(P, i)] = s[i]
<1>1. Len(s) \in Nat /\ \A i \in 1 .. Len(s) : s[i] \in X
  BY LenProperties, ElementOfSeq
<1>2. IsFiniteSet(1 .. Len(s)) /\ Cardinality(1 .. Len(s)) = Len(s)
  <2> DEFINE m == Len(s)
  <2> HIDE DEF m
  <2>1. m \in Nat => IsFiniteSet(1 .. m) /\ Cardinality(1 .. m) = m
    BY FS_Interval
  <2> QED BY <1>1, <2>1 DEF m
<1>3. IsFiniteSet(P) /\ Cardinality(P) \in 0 .. Len(s) /\ P \in SUBSET Nat
  <2>1. IsFiniteSet(P) /\ Cardinality(P) <= Len(s)
    BY <1>2, FS_Subset
  <2> QED BY <1>1, <2>1, FS_CardinalityType
<1>4. /\ \A k \in 1 .. Cardinality(P) : Nth(P, k) \in P /\ Rank(P, Nth(P, k)) = k
      /\ \A i \in P : Rank(P, i) \in 1 .. Cardinality(P) /\ Nth(P, Rank(P, i)) = i
  BY <1>3, NthFacts
<1>5. \A k \in 1 .. Cardinality(P) : Picked(s, P)[k] = s[Nth(P, k)]
  BY DEF Picked
<1>6. Picked(s, P) \in [1 .. Cardinality(P) -> X]
  BY <1>1, <1>4 DEF Picked
<1>7. Picked(s, P) \in Seq(X) /\ Len(Picked(s, P)) = Cardinality(P)
  BY <1>3, <1>6, SeqDef, LenProperties
<1> QED BY <1>3, <1>4, <1>5, <1>7

(* What a sequence has, and how often.                                     *)
Distinct(s) == \A i, j \in DOMAIN s : s[i] = s[j] => i = j

(* The elements of a sequence are no more than its length, and as many if  *)
(* it has no duplicates.                                                   *)
LEMMA ToSetFacts ==
  ASSUME NEW X, NEW s \in Seq(X)
  PROVE  /\ ToSet(s) = {s[i] : i \in 1 .. Len(s)} /\ ToSet(s) \subseteq X
         /\ IsFiniteSet(ToSet(s)) /\ Cardinality(ToSet(s)) <= Len(s)
         /\ Distinct(s) => Cardinality(ToSet(s)) = Len(s)
<1> DEFINE n == Len(s)
           T == ToSet(s)
<1>1. n \in Nat /\ s \in [1 .. n -> X] /\ DOMAIN s = 1 .. n
  BY LenProperties
<1>2. T = {s[i] : i \in 1 .. n} /\ T \subseteq X
  BY <1>1 DEF ToSet
<1> HIDE DEF n, T
<1>3. IsFiniteSet(1 .. n) /\ Cardinality(1 .. n) = n
  BY <1>1, FS_Interval
<1>4. s \in Surjection(1 .. n, T)
  BY <1>1, <1>2 DEF Surjection
<1>5. /\ IsFiniteSet(T) /\ Cardinality(T) <= n
      /\ Cardinality(T) = n <=> s \in Injection(1 .. n, T)
  BY <1>3, <1>4, FS_Surjection
<1>6. Distinct(s) => s \in Injection(1 .. n, T)
  BY <1>1, <1>2 DEF Distinct, Injection, IsInjective
<1> QED BY <1>2, <1>5, <1>6 DEF n, T

(* The listing of a finite set has each of its elements once.              *)
LEMMA ListingFacts ==
  ASSUME NEW S, IsFiniteSet(S)
  PROVE  /\ SetToSeq(S) \in Seq(S) /\ Len(SetToSeq(S)) = Cardinality(S)
         /\ Distinct(SetToSeq(S)) /\ ToSet(SetToSeq(S)) = S
<1> DEFINE n == Cardinality(S)
           f == SetToSeq(S)
<1>1. n \in Nat /\ ExistsBijection(1 .. n, S)
  BY FS_CardinalityType
<1>2. f \in [1 .. n -> S] /\ IsInjective(f)
  <2>1. \E g \in [1 .. n -> S] : IsInjective(g)
    BY <1>1 DEF ExistsBijection, Bijection, Injection
  <2> QED BY <2>1 DEF SetToSeq
<1> HIDE DEF n, f
<1>3. f \in Injection(1 .. n, S)
  BY <1>2 DEF Injection
<1>4. IsFiniteSet(1 .. n) /\ Cardinality(1 .. n) = n
  BY <1>1, FS_Interval
<1>5. f \in Surjection(1 .. n, S)
  BY <1>3, <1>4, FS_Injection DEF n
<1>6. f \in Seq(S) /\ Len(f) = n /\ DOMAIN f = 1 .. n
  BY <1>1, <1>2, SeqDef, LenProperties
<1>7. Distinct(f)
  BY <1>2, <1>6 DEF Distinct, IsInjective
<1>8. ToSet(f) = S
  <2>1. \A x \in S : \E i \in 1 .. n : f[i] = x
    BY <1>5 DEF Surjection
  <2> QED BY <1>2, <1>6, <2>1 DEF ToSet
<1> QED BY <1>6, <1>7, <1>8 DEF n, f

(* The elements of what is picked, and that it has no duplicates of its    *)
(* own.                                                                    *)
LEMMA PickedDistinct ==
  ASSUME NEW X, NEW s \in Seq(X), NEW P \in SUBSET (1 .. Len(s))
  PROVE  /\ ToSet(Picked(s, P)) = {s[i] : i \in P}
         /\ Distinct(s) => Distinct(Picked(s, P))
<1> DEFINE n == Cardinality(P)
           p == Picked(s, P)
<1>1. /\ n \in Nat /\ p \in Seq(X) /\ DOMAIN p = 1 .. n /\ DOMAIN s = 1 .. Len(s)
      /\ \A k \in 1 .. n : Nth(P, k) \in P /\ Rank(P, Nth(P, k)) = k /\ p[k] = s[Nth(P, k)]
      /\ \A i \in P : Rank(P, i) \in 1 .. n /\ p[Rank(P, i)] = s[i]
  <2>1. n \in 0 .. Len(s) /\ p \in Seq(X) /\ Len(p) = n /\ Len(s) \in Nat
    BY PickedFacts, LenProperties
  <2>2. DOMAIN p = 1 .. Len(p) /\ DOMAIN s = 1 .. Len(s)
    BY <2>1, LenProperties
  <2> HIDE DEF n, p
  <2>3. n \in Nat /\ DOMAIN p = 1 .. n
    BY <2>1, <2>2
  <2> USE DEF n, p
  <2> QED BY <2>1, <2>2, <2>3, PickedFacts
<1> HIDE DEF n, p
<1>2. ToSet(p) = {s[i] : i \in P}
  <2>1. ASSUME NEW k \in 1 .. n PROVE p[k] \in {s[i] : i \in P}
    BY <1>1
  <2>2. ASSUME NEW i \in P PROVE \E k \in 1 .. n : s[i] = p[k]
    BY <1>1
  <2>3. ToSet(p) = {p[k] : k \in 1 .. n}
    BY <1>1 DEF ToSet
  <2> QED BY <2>1, <2>2, <2>3
<1>3. ASSUME Distinct(s), NEW k \in 1 .. n, NEW l \in 1 .. n, p[k] = p[l] PROVE k = l
  <2>1. Nth(P, k) \in DOMAIN s /\ Nth(P, l) \in DOMAIN s /\ s[Nth(P, k)] = s[Nth(P, l)]
    BY <1>1, <1>3
  <2>2. Nth(P, k) = Nth(P, l)
    BY <1>3, <2>1 DEF Distinct
  <2> QED BY <1>1, <2>2
<1>4. Distinct(s) => Distinct(p)
  BY <1>1, <1>3 DEF Distinct
<1> QED BY <1>2, <1>4 DEF p

(* The elements of a concatenation are those of its parts.                 *)
LEMMA ToSetConcat ==
  ASSUME NEW X, NEW s \in Seq(X), NEW t \in Seq(X)
  PROVE  ToSet(s \o t) = ToSet(s) \cup ToSet(t)
<1> DEFINE m == Len(s)
           n == Len(t)
           c == s \o t
<1>1. /\ m \in Nat /\ n \in Nat /\ DOMAIN s = 1 .. m /\ DOMAIN t = 1 .. n
      /\ c \in Seq(X) /\ Len(c) = m + n
      /\ \A i \in 1 .. m + n : c[i] = IF i <= m THEN s[i] ELSE t[i - m]
  BY LenProperties, ConcatProperties
<1>2. DOMAIN c = 1 .. m + n
  BY <1>1, LenProperties
<1> HIDE DEF m, n, c
<1>3. ASSUME NEW i \in 1 .. m + n PROVE c[i] \in ToSet(s) \cup ToSet(t)
  <2>1. CASE i <= m
    <3>1. i \in 1 .. m
      BY <1>1, <2>1
    <3> QED BY <1>1, <2>1, <3>1 DEF ToSet
  <2>2. CASE ~ i <= m
    <3>1. i - m \in 1 .. n
      BY <1>1, <2>2
    <3> QED BY <1>1, <2>2, <3>1 DEF ToSet
  <2> QED BY <2>1, <2>2
<1>4. ASSUME NEW i \in 1 .. m PROVE s[i] \in ToSet(c)
  <2>1. i \in 1 .. m + n /\ i <= m
    BY <1>1
  <2> QED BY <1>1, <1>2, <2>1 DEF ToSet
<1>5. ASSUME NEW i \in 1 .. n PROVE t[i] \in ToSet(c)
  <2>1. m + i \in 1 .. m + n /\ ~ m + i <= m /\ (m + i) - m = i
    BY <1>1
  <2>2. c[m + i] = t[i]
    BY <1>1, <2>1
  <2> QED BY <1>2, <2>1, <2>2 DEF ToSet
<1>6. ToSet(c) \subseteq ToSet(s) \cup ToSet(t)
  BY <1>2, <1>3 DEF ToSet
<1>7. ToSet(s) \subseteq ToSet(c) /\ ToSet(t) \subseteq ToSet(c)
  BY <1>1, <1>4, <1>5 DEF ToSet
<1> QED BY <1>6, <1>7 DEF c

(* The elements of a sequence are its first one and those of its tail.     *)
LEMMA ToSetTail ==
  ASSUME NEW X, NEW s \in Seq(X), s # << >>
  PROVE  ToSet(s) = {Head(s)} \cup ToSet(Tail(s))
<1> DEFINE n == Len(s)
           l == Tail(s)
<1>1. n \in Nat /\ n # 0 /\ DOMAIN s = 1 .. n
  BY LenProperties, EmptySeq
<1>2. l \in Seq(X) /\ Len(l) = n - 1 /\ \A i \in 1 .. n - 1 : l[i] = s[i + 1]
  BY HeadTailProperties
<1>3. DOMAIN l = 1 .. n - 1
  BY <1>2, LenProperties
<1>4. Head(s) = s[1]
  OBVIOUS
<1> HIDE DEF n, l
<1>5. ASSUME NEW i \in 1 .. n PROVE s[i] \in {s[1]} \cup ToSet(l)
  <2>1. CASE i = 1
    BY <2>1
  <2>2. CASE i # 1
    <3>1. i - 1 \in 1 .. n - 1 /\ (i - 1) + 1 = i
      BY <1>1, <2>2
    <3>2. l[i - 1] = s[i]
      BY <1>2, <3>1
    <3> QED BY <1>3, <3>1, <3>2 DEF ToSet
  <2> QED BY <2>1, <2>2
<1>6. ASSUME NEW i \in 1 .. n - 1 PROVE l[i] \in ToSet(s)
  <2>1. i + 1 \in 1 .. n
    BY <1>1
  <2> QED BY <1>1, <1>2, <2>1 DEF ToSet
<1>7. 1 \in 1 .. n
  BY <1>1
<1>8. ToSet(s) \subseteq {s[1]} \cup ToSet(l)
  BY <1>1, <1>5 DEF ToSet
<1>9. s[1] \in ToSet(s) /\ ToSet(l) \subseteq ToSet(s)
  BY <1>1, <1>3, <1>6, <1>7 DEF ToSet
<1> QED BY <1>4, <1>8, <1>9 DEF l

-----------------------------------------------------------------------------
(* What is left of a sequence when some of its elements are left out.      *)
LEMMA OmittingFacts ==
  ASSUME NEW X, NEW s \in Seq(X), NEW D
  PROVE  /\ Omitting(s, D) \in Seq(X) /\ Len(Omitting(s, D)) <= Len(s)
         /\ ToSet(Omitting(s, D)) = ToSet(s) \ D
         /\ Distinct(s) => Distinct(Omitting(s, D))
<1> DEFINE P == {i \in DOMAIN s : s[i] \notin D}
<1>1. DOMAIN s = 1 .. Len(s) /\ Len(s) \in Nat
  BY LenProperties
<1>2. P \in SUBSET (1 .. Len(s)) /\ {s[i] : i \in P} = ToSet(s) \ D
  BY <1>1 DEF ToSet
<1>3. Omitting(s, D) = Picked(s, P)
  BY DEF Omitting
<1> HIDE DEF P
<1>4. /\ Picked(s, P) \in Seq(X) /\ Len(Picked(s, P)) = Cardinality(P)
      /\ Cardinality(P) \in 0 .. Len(s)
  BY <1>2, PickedFacts
<1>5. ToSet(Picked(s, P)) = {s[i] : i \in P} /\ (Distinct(s) => Distinct(Picked(s, P)))
  BY <1>2, PickedDistinct
<1> QED BY <1>1, <1>2, <1>3, <1>4, <1>5

(* A concatenation is left what its parts are left.                        *)
LEMMA OmittingConcat ==
  ASSUME NEW X, NEW s \in Seq(X), NEW t \in Seq(X), NEW D
  PROVE  Omitting(s \o t, D) = Omitting(s, D) \o Omitting(t, D)
<1> DEFINE m == Len(s)
           n == Len(t)
           c == s \o t
           P == {i \in DOMAIN s : s[i] \notin D}
           Q == {i \in DOMAIN t : t[i] \notin D}
           R == {i \in DOMAIN c : c[i] \notin D}
           p == Cardinality(P)
           q == Cardinality(Q)
           f == [k \in 1 .. p + q |-> IF k <= p THEN Nth(P, k) ELSE m + Nth(Q, k - p)]
<1>1. /\ m \in Nat /\ n \in Nat /\ DOMAIN s = 1 .. m /\ DOMAIN t = 1 .. n
      /\ c \in Seq(X) /\ Len(c) = m + n /\ DOMAIN c = 1 .. Len(c)
      /\ \A i \in 1 .. m + n : c[i] = IF i <= m THEN s[i] ELSE t[i - m]
  BY LenProperties, ConcatProperties
<1>2. DOMAIN c = 1 .. m + n
  <2> HIDE DEF m, n, c
  <2> QED BY <1>1
<1> HIDE DEF c
<1>3. /\ P \in SUBSET (1 .. m) /\ Q \in SUBSET (1 .. n) /\ R \in SUBSET (1 .. m + n)
      /\ P \in SUBSET Nat /\ Q \in SUBSET Nat /\ R \in SUBSET Nat
  BY <1>1, <1>2
<1>4. ASSUME NEW i \in 1 .. m + n PROVE i \in R <=> IF i <= m THEN i \in P ELSE i - m \in Q
  <2> HIDE DEF m, n
  <2>1. CASE i <= m
    <3>1. i \in 1 .. m
      BY <1>1, <2>1
    <3> QED BY <1>1, <1>2, <2>1, <3>1
  <2>2. CASE ~ i <= m
    <3>1. i - m \in 1 .. n
      BY <1>1, <2>2
    <3> QED BY <1>1, <1>2, <2>2, <3>1
  <2> QED BY <2>1, <2>2
<1>5. /\ IsFiniteSet(P) /\ p \in Nat /\ Picked(s, P) \in Seq(X) /\ Len(Picked(s, P)) = p
      /\ \A k \in 1 .. p : Nth(P, k) \in P /\ Picked(s, P)[k] = s[Nth(P, k)]
      /\ \A i \in P : Rank(P, i) \in 1 .. p /\ Nth(P, Rank(P, i)) = i
  <2>1. P \in SUBSET (1 .. Len(s))
    BY <1>3
  <2> HIDE DEF P
  <2>2. Cardinality(P) \in Nat
    BY <1>1, <2>1, PickedFacts
  <2> QED BY <2>1, <2>2, PickedFacts
<1>6. /\ IsFiniteSet(Q) /\ q \in Nat /\ Picked(t, Q) \in Seq(X) /\ Len(Picked(t, Q)) = q
      /\ \A k \in 1 .. q : Nth(Q, k) \in Q /\ Picked(t, Q)[k] = t[Nth(Q, k)]
      /\ \A i \in Q : Rank(Q, i) \in 1 .. q /\ Nth(Q, Rank(Q, i)) = i
  <2>1. Q \in SUBSET (1 .. Len(t))
    BY <1>3
  <2> HIDE DEF Q
  <2>2. Cardinality(Q) \in Nat
    BY <1>1, <2>1, PickedFacts
  <2> QED BY <2>1, <2>2, PickedFacts
<1>7. /\ \A k, l \in 1 .. p : k < l => Nth(P, k) < Nth(P, l)
      /\ \A k, l \in 1 .. q : k < l => Nth(Q, k) < Nth(Q, l)
  <2> HIDE DEF P, Q
  <2> QED BY <1>3, <1>5, <1>6, NthFacts
<1> HIDE DEF P, Q, R, p, q, m, n
<1>8. ASSUME NEW k \in 1 .. p + q
      PROVE  /\ k <= p => k \in 1 .. p /\ f[k] = Nth(P, k) /\ f[k] \in R /\ f[k] \in 1 .. m
             /\ ~ k <= p => /\ k - p \in 1 .. q /\ f[k] = m + Nth(Q, k - p) /\ f[k] \in R
                            /\ Nth(Q, k - p) \in 1 .. n
  <2>1. CASE k <= p
    <3>1. k \in 1 .. p /\ f[k] = Nth(P, k)
      BY <1>5, <2>1
    <3>2. f[k] \in P /\ f[k] \in 1 .. m
      BY <1>3, <1>5, <3>1
    <3>3. f[k] \in 1 .. m + n /\ f[k] <= m
      BY <1>1, <3>2
    <3> QED BY <1>4, <2>1, <3>1, <3>2, <3>3
  <2>2. CASE ~ k <= p
    <3> DEFINE l == k - p
    <3>1. l \in 1 .. q /\ f[k] = m + Nth(Q, l)
      BY <1>5, <1>6, <2>2
    <3> HIDE DEF l
    <3>2. Nth(Q, l) \in Q /\ Nth(Q, l) \in 1 .. n
      BY <1>3, <1>6, <3>1
    <3>3. f[k] \in 1 .. m + n /\ ~ f[k] <= m /\ f[k] - m = Nth(Q, l)
      BY <1>1, <3>1, <3>2
    <3>4. f[k] \in R
      BY <1>4, <3>2, <3>3
    <3> QED BY <2>2, <3>1, <3>2, <3>4 DEF l
  <2> QED BY <2>1, <2>2
<1>9. f \in [1 .. p + q -> R]
  BY <1>8
<1>10. ASSUME NEW k \in 1 .. p + q, NEW l \in 1 .. p + q, k < l PROVE f[k] < f[l]
  <2> HIDE DEF f
  <2>1. CASE l <= p
    <3>1. k <= p
      BY <1>5, <1>10, <2>1
    <3> QED BY <1>7, <1>8, <1>10, <2>1, <3>1
  <2>2. CASE k <= p /\ ~ l <= p
    <3>1. f[k] \in 1 .. m /\ f[l] = m + Nth(Q, l - p) /\ Nth(Q, l - p) \in 1 .. n
      BY <1>8, <2>2
    <3> QED BY <1>1, <3>1
  <2>3. CASE ~ k <= p
    <3>1. ~ l <= p /\ k - p < l - p
      BY <1>5, <1>10, <2>3
    <3>2. /\ f[k] = m + Nth(Q, k - p) /\ Nth(Q, k - p) \in 1 .. n /\ k - p \in 1 .. q
          /\ f[l] = m + Nth(Q, l - p) /\ Nth(Q, l - p) \in 1 .. n /\ l - p \in 1 .. q
      BY <1>8, <2>3, <3>1
    <3>3. Nth(Q, k - p) < Nth(Q, l - p)
      BY <1>7, <3>1, <3>2
    <3> QED BY <1>1, <3>2, <3>3
  <2> QED BY <2>1, <2>2, <2>3
<1>11. ASSUME NEW i \in R PROVE \E k \in 1 .. p + q : f[k] = i
  <2>1. i \in 1 .. m + n
    BY <1>3
  <2>2. CASE i <= m
    <3> DEFINE k == Rank(P, i)
    <3>1. i \in P
      BY <1>4, <2>1, <2>2
    <3>2. k \in 1 .. p /\ Nth(P, k) = i
      BY <1>5, <3>1
    <3> HIDE DEF k
    <3>3. k \in 1 .. p + q /\ k <= p
      BY <1>5, <1>6, <3>2
    <3> QED BY <3>2, <3>3
  <2>3. CASE ~ i <= m
    <3> DEFINE k == Rank(Q, i - m)
    <3>1. i - m \in Q
      BY <1>4, <2>1, <2>3
    <3>2. k \in 1 .. q /\ Nth(Q, k) = i - m
      BY <1>6, <3>1
    <3> HIDE DEF k
    <3>3. p + k \in 1 .. p + q /\ ~ p + k <= p /\ (p + k) - p = k
      BY <1>5, <1>6, <3>2
    <3>4. f[p + k] = m + (i - m)
      BY <3>2, <3>3
    <3>5. m + (i - m) = i
      BY <1>1, <2>1
    <3> QED BY <3>3, <3>4, <3>5
  <2> QED BY <2>2, <2>3
<1>12. p + q \in Nat /\ R \in SUBSET Nat
  BY <1>3, <1>5, <1>6
<1> DEFINE z == p + q
<1>13. Cardinality(R) = z /\ \A k \in 1 .. z : Nth(R, k) = f[k]
  <2>1. /\ z \in Nat /\ f \in [1 .. z -> R] /\ \A k, l \in 1 .. z : k < l => f[k] < f[l]
        /\ \A i \in R : \E k \in 1 .. z : f[k] = i
    BY <1>9, <1>10, <1>11, <1>12
  <2> HIDE DEF z, f
  <2> QED BY <1>12, <2>1, InOrderUnique
<1> DEFINE a == Picked(s, P)
           b == Picked(t, Q)
<1>14. /\ a \o b \in Seq(X) /\ Len(a \o b) = z
       /\ \A k \in 1 .. z : (a \o b)[k] = IF k <= p THEN a[k] ELSE b[k - p]
  <2>1. a \in Seq(X) /\ b \in Seq(X) /\ Len(a) = p /\ Len(b) = q
    BY <1>5, <1>6
  <2> HIDE DEF a, b
  <2> QED BY <2>1, ConcatProperties
<1>15. a \o b = [k \in 1 .. z |-> (a \o b)[k]]
  <2> DEFINE d == a \o b
  <2>1. d \in Seq(X) /\ Len(d) = z
    BY <1>14
  <2> HIDE DEF d, z
  <2>2. d \in [1 .. z -> X]
    BY <2>1, LenProperties
  <2>3. d = [k \in 1 .. z |-> d[k]]
    BY <2>2
  <2> QED BY <2>3 DEF d
<1>16. ASSUME NEW k \in 1 .. z PROVE c[Nth(R, k)] = (a \o b)[k]
  <2> HIDE DEF f
  <2>1. CASE k <= p
    <3>1. k \in 1 .. p /\ Nth(R, k) = Nth(P, k) /\ Nth(P, k) \in 1 .. m
      BY <1>8, <1>13, <2>1
    <3>2. Nth(P, k) \in 1 .. m + n /\ Nth(P, k) <= m
      BY <1>1, <3>1
    <3>3. c[Nth(R, k)] = s[Nth(P, k)]
      BY <1>1, <3>1, <3>2
    <3> QED BY <1>5, <1>14, <2>1, <3>1, <3>3
  <2>2. CASE ~ k <= p
    <3> DEFINE l == k - p
               j == Nth(Q, l)
    <3>1. l \in 1 .. q /\ Nth(R, k) = m + j /\ j \in 1 .. n
      BY <1>8, <1>13, <2>2
    <3> HIDE DEF j
    <3>2. m + j \in 1 .. m + n /\ ~ m + j <= m /\ (m + j) - m = j
      BY <1>1, <3>1
    <3>3. c[m + j] = t[j]
      BY <1>1, <3>2
    <3>4. b[l] = t[j]
      BY <1>6, <3>1 DEF j
    <3> QED BY <1>14, <2>2, <3>1, <3>3, <3>4
  <2> QED BY <2>1, <2>2
<1>17. Picked(c, R) = [k \in 1 .. z |-> c[Nth(R, k)]]
  BY <1>13 DEF Picked
<1>18. Picked(c, R) = a \o b
  <2> HIDE DEF a, b, z
  <2> QED BY <1>15, <1>16, <1>17
<1> QED BY <1>18 DEF Omitting, P, Q, R, c
(* Nothing is left out of a sequence that has nothing to leave out.        *)
LEMMA OmittingNone ==
  ASSUME NEW X, NEW s \in Seq(X), NEW D, ToSet(s) \cap D = {}
  PROVE  Omitting(s, D) = s
<1> DEFINE n == Len(s)
           P == {i \in DOMAIN s : s[i] \notin D}
           f == [k \in 1 .. n |-> k]
<1>1. n \in Nat /\ DOMAIN s = 1 .. n /\ s \in [1 .. n -> X]
  BY LenProperties
<1>2. P = 1 .. n
  BY <1>1 DEF ToSet
<1> HIDE DEF n, P
<1>3. f \in [1 .. n -> P] /\ \A k \in 1 .. n : f[k] = k
  BY <1>2
<1>4. \A k, l \in 1 .. n : k < l => f[k] < f[l]
  BY <1>3
<1>5. \A i \in P : \E k \in 1 .. n : f[k] = i
  BY <1>2, <1>3
<1> HIDE DEF f
<1>6. P \in SUBSET Nat
  BY <1>1, <1>2
<1>7. Cardinality(P) = n /\ \A k \in 1 .. n : Nth(P, k) = f[k]
  BY <1>1, <1>3, <1>4, <1>5, <1>6, InOrderUnique
<1>8. Picked(s, P) = [k \in 1 .. n |-> s[k]]
  BY <1>3, <1>7 DEF Picked
<1>9. s = [k \in 1 .. n |-> s[k]]
  BY <1>1
<1> QED BY <1>8, <1>9 DEF Omitting, P

(* The same of one element more.                                           *)
LEMMA OmittingAppend ==
  ASSUME NEW X, NEW s \in Seq(X), NEW e \in X, NEW D
  PROVE  Omitting(Append(s, e), D) = IF e \in D THEN Omitting(s, D) ELSE Append(Omitting(s, D), e)
<1> DEFINE t == << e >>
<1>1. t \in Seq(X) /\ Len(t) = 1 /\ t[1] = e /\ DOMAIN t = {1}
  OBVIOUS
<1>2. Append(s, e) = s \o t
  BY AppendIsConcat
<1>3. Omitting(Append(s, e), D) = Omitting(s, D) \o Omitting(t, D)
  <2> HIDE DEF t
  <2>1. Omitting(s \o t, D) = Omitting(s, D) \o Omitting(t, D)
    BY <1>1, OmittingConcat
  <2> QED BY <1>2, <2>1
<1>4. Omitting(s, D) \in Seq(X) /\ Omitting(t, D) \in Seq(X)
  BY <1>1, OmittingFacts
<1>5. CASE e \in D
  <2>1. {i \in DOMAIN t : t[i] \notin D} = {}
    BY <1>1, <1>5
  <2>2. Cardinality({}) = 0
    BY FS_EmptySet
  <2>3. Omitting(t, D) = [k \in 1 .. 0 |-> t[Nth({}, k)]]
    BY <2>1, <2>2 DEF Omitting, Picked
  <2>4. Omitting(t, D) = << >>
    BY <2>3
  <2> QED BY <1>3, <1>4, <1>5, <2>4, ConcatEmptySeq
<1>6. CASE e \notin D
  <2>1. ToSet(t) \cap D = {}
    BY <1>1, <1>6 DEF ToSet
  <2>2. Omitting(t, D) = t
    BY <1>1, <2>1, OmittingNone
  <2>3. Omitting(s, D) \o << e >> = Append(Omitting(s, D), e)
    BY <1>4, AppendIsConcat
  <2> QED BY <1>3, <1>6, <2>2, <2>3
<1> QED BY <1>5, <1>6

(* What is left out twice is left out once.                                *)
LEMMA OmittingTwice ==
  ASSUME NEW X, NEW s \in Seq(X), NEW D
  PROVE  Omitting(Omitting(s, D), D) = Omitting(s, D)
<1>1. Omitting(s, D) \in Seq(X) /\ ToSet(Omitting(s, D)) \cap D = {}
  BY OmittingFacts
<1> QED BY <1>1, OmittingNone

(* Nothing is left of nothing.                                             *)
LEMMA OmittingEmpty ==
  ASSUME NEW D
  PROVE  Omitting(<< >>, D) = << >>
<1>1. << >> \in Seq({}) /\ ToSet(<< >>) \cap D = {}
  BY DEF ToSet
<1> QED BY <1>1, OmittingNone

(* What FlattenSeq() goes through.                                         *)
Flat(s) == CHOOSE flatten : flatten = [i \in 1 .. Len(s) |->
             IF i = 1 THEN s[i] ELSE flatten[i - 1] \o s[i]]

(* FlattenSeq() goes through the concatenations of the first sequences.    *)
LEMMA FlatExists ==
  ASSUME NEW X, NEW s \in Seq(Seq(X))
  PROVE  Flat(s) = [i \in 1 .. Len(s) |-> IF i = 1 THEN s[i] ELSE Flat(s)[i - 1] \o s[i]]
<1> DEFINE n == Len(s)
           Y == Seq(X)
           F == [p \in (1 .. n) \X Y |-> p[2] \o s[p[1]]]
<1>1. n \in Nat /\ \A i \in 1 .. n : s[i] \in Seq(X)
  BY LenProperties, ElementOfSeq
<1>2. << >> \in Y
  BY EmptySeq
<1>3. F \in Steps(n, Y) /\ \A i \in 1 .. n, a \in Y : F[<< i, a >>] = a \o s[i]
  <2> HIDE DEF n
  <2>1. ASSUME NEW p \in (1 .. n) \X Y PROVE p[2] \o s[p[1]] \in Y
    <3>1. p[2] \in Seq(X) /\ p[1] \in 1 .. n
      OBVIOUS
    <3>2. s[p[1]] \in Seq(X)
      BY <1>1, <3>1
    <3> QED BY <3>1, <3>2, ConcatProperties
  <2> HIDE DEF Y
  <2> QED BY <2>1 DEF Steps
<1> DEFINE b == << >>
<1>4. \E h : RunsFrom(h, n, Y, b, F)
  <2>1. b \in Y
    BY <1>2
  <2> HIDE DEF n, Y, F, b
  <2> QED BY <1>1, <1>3, <2>1, RecursionExists, Zenon
<1>5. PICK h \in [0 .. n -> Y] : h[0] = b /\ \A i \in 1 .. n : h[i] = F[<< i, h[i - 1] >>]
  BY <1>4 DEF RunsFrom
<1> HIDE DEF n, F
<1>6. ASSUME NEW i \in 1 .. n
      PROVE  /\ h[i] = h[i - 1] \o s[i]
             /\ i = 1 => h[i] = s[i]
  <2>1. i - 1 \in 0 .. n
    BY <1>1
  <2>2. h[i - 1] \in Y
    BY <1>5, <2>1
  <2>3. h[i] = h[i - 1] \o s[i]
    BY <1>3, <1>5, <2>2
  <2>4. i = 1 => h[i] = s[i]
    <3> SUFFICES ASSUME i = 1 PROVE h[1] = s[1]
      OBVIOUS
    <3>1. h[1] = h[1 - 1] \o s[1] /\ s[1] \in Seq(X)
      BY <1>1, <2>3
    <3>2. h[1 - 1] = << >>
      BY <1>5
    <3> QED BY <3>1, <3>2, ConcatEmptySeq
  <2> QED BY <2>3, <2>4
<1> DEFINE g == [i \in 1 .. n |-> h[i]]
<1>7. g = [i \in 1 .. n |-> IF i = 1 THEN s[i] ELSE g[i - 1] \o s[i]]
  <2>1. ASSUME NEW i \in 1 .. n PROVE h[i] = IF i = 1 THEN s[i] ELSE g[i - 1] \o s[i]
    <3>1. CASE i = 1
      BY <1>6, <3>1
    <3>2. CASE i # 1
      <4>1. i - 1 \in 1 .. n
        BY <1>1, <3>2
      <4>2. g[i - 1] = h[i - 1]
        BY <4>1
      <4> QED BY <1>6, <3>2, <4>2
    <3> QED BY <3>1, <3>2
  <2> QED BY <2>1
<1> HIDE DEF g
<1>8. \E flatten : flatten = [i \in 1 .. n |-> IF i = 1 THEN s[i] ELSE flatten[i - 1] \o s[i]]
  BY <1>7
<1> QED BY <1>8 DEF Flat, n

(* What FlattenSeq() is, one sequence at a time.                           *)
LEMMA FlattenFacts ==
  ASSUME NEW X
  PROVE  /\ FlattenSeq(<< >>) = << >>
         /\ \A s \in Seq(Seq(X)), t \in Seq(X) : FlattenSeq(Append(s, t)) = FlattenSeq(s) \o t
         /\ \A s \in Seq(Seq(X)) : FlattenSeq(s) \in Seq(X)
<1>1. FlattenSeq(<< >>) = << >>
  BY DEF FlattenSeq
<1>2. ASSUME NEW s \in Seq(Seq(X)), s # << >>
      PROVE  FlattenSeq(s) = Flat(s)[Len(s)] /\ Len(s) \in Nat /\ Len(s) # 0
  <2>1. Len(s) \in Nat /\ Len(s) # 0
    BY <1>2, LenProperties, EmptySeq
  <2> QED BY <2>1 DEF FlattenSeq, Flat
<1>3. ASSUME NEW s \in Seq(Seq(X)), NEW t \in Seq(X)
      PROVE  FlattenSeq(Append(s, t)) = FlattenSeq(s) \o t
  <2> DEFINE n == Len(s)
             u == Append(s, t)
             g == Flat(s)
             h == Flat(u)
  <2>1. /\ n \in Nat /\ u \in Seq(Seq(X)) /\ Len(u) = n + 1 /\ u # << >>
        /\ \A i \in 1 .. n : u[i] = s[i]
        /\ u[n + 1] = t
    BY LenProperties, AppendProperties
  <2>2. g = [i \in 1 .. n |-> IF i = 1 THEN s[i] ELSE g[i - 1] \o s[i]]
    BY FlatExists
  <2> HIDE DEF u
  <2>3. h = [i \in 1 .. Len(u) |-> IF i = 1 THEN u[i] ELSE h[i - 1] \o u[i]]
    BY <2>1, FlatExists
  <2>4. FlattenSeq(u) = h[Len(u)]
    BY <1>2, <2>1
  <2>5. n # 0 => FlattenSeq(s) = g[n]
    <3> SUFFICES ASSUME n # 0 PROVE FlattenSeq(s) = g[n]
      OBVIOUS
    <3>1. s # << >>
      OBVIOUS
    <3> QED BY <1>2, <3>1
  <2>6. n = 0 => FlattenSeq(s) = << >>
    BY <1>1, EmptySeq
  <2> HIDE DEF g, h, n
  <2>7. h = [i \in 1 .. n + 1 |-> IF i = 1 THEN u[i] ELSE h[i - 1] \o u[i]]
    BY <2>1, <2>3
  <2> DEFINE P == {i \in Nat : i + 1 <= n => h[i + 1] = g[i + 1]}
  <2>8. 0 \in P
    <3> SUFFICES ASSUME 1 <= n PROVE h[1] = g[1]
      OBVIOUS
    <3>1. 1 \in 1 .. n /\ 1 \in 1 .. n + 1
      BY <2>1
    <3>2. h[1] = u[1] /\ g[1] = s[1]
      BY <2>2, <2>7, <3>1
    <3> QED BY <2>1, <3>1, <3>2
  <2>9. ASSUME NEW i \in Nat, i \in P PROVE i + 1 \in P
    <3> DEFINE j == i + 2
    <3> SUFFICES ASSUME j <= n PROVE h[j] = g[j]
      OBVIOUS
    <3>1. j \in 1 .. n /\ j \in 1 .. n + 1 /\ j # 1 /\ j - 1 = i + 1
      BY <2>1
    <3>2. h[i + 1] = g[i + 1]
      BY <2>1, <2>9
    <3> HIDE DEF j
    <3>3. h[j] = h[j - 1] \o u[j] /\ g[j] = g[j - 1] \o s[j] /\ u[j] = s[j]
      BY <2>1, <2>2, <2>7, <3>1
    <3> QED BY <3>1, <3>2, <3>3
  <2> HIDE DEF P
  <2>10. Nat \subseteq P
    BY <2>8, <2>9, Induction
  <2>11. CASE n = 0
    <3>1. 1 \in 1 .. n + 1
      BY <2>11
    <3>2. h[1] = u[1] /\ u[1] = t
      BY <2>1, <2>7, <2>11, <3>1
    <3>3. << >> \o t = t
      BY ConcatEmptySeq
    <3>4. h[Len(u)] = t
      BY <2>1, <2>11, <3>2
    <3> QED BY <2>4, <2>6, <2>11, <3>3, <3>4 DEF u
  <2>12. CASE n # 0
    <3>1. n - 1 \in Nat /\ (n - 1) + 1 = n /\ (n + 1) - 1 = n /\ n + 1 # 1 /\ n + 1 \in 1 .. n + 1
      BY <2>1, <2>12
    <3>2. h[n] = g[n]
      <4>1. n - 1 \in P
        BY <2>10, <3>1
      <4>2. (n - 1) + 1 <= n
        BY <2>1
      <4>3. h[(n - 1) + 1] = g[(n - 1) + 1]
        BY <4>1, <4>2 DEF P
      <4> QED BY <3>1, <4>3
    <3>3. h[n + 1] = h[(n + 1) - 1] \o u[n + 1]
      BY <2>7, <3>1
    <3> QED BY <2>1, <2>4, <2>5, <2>12, <3>1, <3>2, <3>3 DEF u
  <2> QED BY <2>11, <2>12
<1>4. ASSUME NEW s \in Seq(Seq(X)) PROVE FlattenSeq(s) \in Seq(X)
  <2> DEFINE P == {n \in Nat : \A r \in Seq(Seq(X)) : Len(r) = n => FlattenSeq(r) \in Seq(X)}
  <2>1. 0 \in P
    <3> SUFFICES ASSUME NEW r \in Seq(Seq(X)), Len(r) = 0 PROVE FlattenSeq(r) \in Seq(X)
      OBVIOUS
    <3>1. r = << >>
      OBVIOUS
    <3> QED BY <1>1, <3>1, EmptySeq
  <2>2. ASSUME NEW n \in Nat, n \in P PROVE n + 1 \in P
    <3> SUFFICES ASSUME NEW r \in Seq(Seq(X)), Len(r) = n + 1 PROVE FlattenSeq(r) \in Seq(X)
      OBVIOUS
    <3>1. PICK q \in Seq(Seq(X)), t \in Seq(X) : r = Append(q, t) /\ Len(q) = n
      <4>1. r # << >>
        OBVIOUS
      <4>2. PICK q \in Seq(Seq(X)), t \in Seq(X) : r = Append(q, t)
        BY <4>1, SequenceEmptyOrAppend
      <4>3. Len(r) = Len(q) + 1 /\ Len(q) \in Nat
        BY <4>2, AppendProperties, LenProperties
      <4>4. Len(q) = n
        BY <4>3
      <4> QED BY <4>2, <4>4
    <3>2. FlattenSeq(q) \in Seq(X)
      BY <2>2, <3>1
    <3>3. FlattenSeq(r) = FlattenSeq(q) \o t
      BY <1>3, <3>1
    <3> QED BY <3>2, <3>3, ConcatProperties
  <2> HIDE DEF P
  <2>3. Nat \subseteq P
    BY <2>1, <2>2, Induction
  <2>4. Len(s) \in P
    BY <2>3, LenProperties
  <2> QED BY <2>4 DEF P
<1> QED BY <1>1, <1>3, <1>4
-----------------------------------------------------------------------------
(* The sums of the first numbers of a sequence.                            *)
Sums(f, n) == CHOOSE sum : sum = [i \in 0 .. n |-> IF i = 0 THEN 0 ELSE sum[i - 1] + f[i]]

(* The first sums of a sequence satisfy their recursion.                   *)
LEMMA SumsExist ==
  ASSUME NEW m \in Nat, NEW f, \A i \in 1 .. m : f[i] \in Int
  PROVE  /\ Sums(f, m) \in [0 .. m -> Int] /\ Sums(f, m)[0] = 0
         /\ \A i \in 1 .. m : Sums(f, m)[i] = Sums(f, m)[i - 1] + f[i]
<1> DEFINE F == [p \in (1 .. m) \X Int |-> p[2] + f[p[1]]]
           g == Sums(f, m)
<1>1. F \in [(1 .. m) \X Int -> Int]
  OBVIOUS
<1>2. PICK h \in [0 .. m -> Int] : h[0] = 0 /\ \A i \in 1 .. m : h[i] = F[<< i, h[i - 1] >>]
  <2>1. 0 \in Int /\ F \in Steps(m, Int)
    BY <1>1 DEF Steps
  <2> HIDE DEF F
  <2>2. \E h : RunsFrom(h, m, Int, 0, F)
    BY <2>1, RecursionExists, Zenon
  <2> QED BY <2>2 DEF RunsFrom
<1>3. \A i \in 1 .. m : h[i] = h[i - 1] + f[i]
  <2> SUFFICES ASSUME NEW i \in 1 .. m PROVE h[i] = h[i - 1] + f[i]
    OBVIOUS
  <2>1. h[i - 1] \in Int
    OBVIOUS
  <2>2. F[<< i, h[i - 1] >>] = h[i - 1] + f[i]
    BY <2>1
  <2> QED BY <1>2, <2>2
<1>4. h = [i \in 0 .. m |-> IF i = 0 THEN 0 ELSE h[i - 1] + f[i]]
  <2>1. h = [i \in 0 .. m |-> h[i]]
    OBVIOUS
  <2>2. \A i \in 0 .. m : h[i] = IF i = 0 THEN 0 ELSE h[i - 1] + f[i]
    <3> HIDE DEF F
    <3> QED BY <1>2, <1>3
  <2> QED BY <2>1, <2>2
<1>5. g = [i \in 0 .. m |-> IF i = 0 THEN 0 ELSE g[i - 1] + f[i]]
  BY <1>4 DEF Sums
<1> HIDE DEF g, F
<1>6. g[0] = 0 /\ \A i \in 1 .. m : g[i] = g[i - 1] + f[i]
  <2>1. 0 \in 0 .. m
    OBVIOUS
  <2>2. ASSUME NEW i \in 1 .. m PROVE g[i] = g[i - 1] + f[i]
    <3>1. i \in 0 .. m /\ i # 0
      OBVIOUS
    <3> QED BY <1>5, <3>1
  <2> QED BY <1>5, <2>1, <2>2
<1>7. \A i \in Nat : i <= m => g[i] \in Int
  <2> DEFINE P == {i \in Nat : i <= m => g[i] \in Int}
  <2>1. 0 \in P
    BY <1>6
  <2>2. ASSUME NEW i \in Nat, i \in P PROVE i + 1 \in P
    <3> SUFFICES ASSUME i + 1 <= m PROVE g[i + 1] \in Int
      OBVIOUS
    <3>1. i + 1 \in 1 .. m /\ (i + 1) - 1 = i /\ g[i] \in Int
      BY <2>2
    <3>2. g[i + 1] = g[i] + f[i + 1]
      BY <1>6, <3>1
    <3> QED BY <3>1, <3>2
  <2> HIDE DEF P
  <2>3. Nat \subseteq P
    BY <2>1, <2>2, Induction
  <2> QED BY <2>3 DEF P
<1>8. g \in [0 .. m -> Int]
  BY <1>5, <1>7
<1> QED BY <1>6, <1>8 DEF g

(* What sums are: nothing of nothing, and one number more at each step.    *)
LEMMA TotalFacts ==
  ASSUME NEW m \in Nat, NEW f, \A i \in 1 .. m : f[i] \in Int
  PROVE  /\ Total(f, 0) = 0
         /\ \A n \in 0 .. m : Total(f, n) \in Int
         /\ \A n \in 1 .. m : Total(f, n) = Total(f, n - 1) + f[n]
<1>1. ASSUME NEW n \in 0 .. m
      PROVE  /\ Sums(f, n) \in [0 .. n -> Int] /\ Sums(f, n)[0] = 0
             /\ \A i \in 1 .. n : Sums(f, n)[i] = Sums(f, n)[i - 1] + f[i]
             /\ Total(f, n) = Sums(f, n)[n]
  <2>1. n \in Nat /\ \A i \in 1 .. n : f[i] \in Int
    OBVIOUS
  <2>2. Total(f, n) = Sums(f, n)[n]
    BY DEF Total, Sums
  <2> QED BY <2>1, <2>2, SumsExist
<1>2. ASSUME NEW n \in 1 .. m PROVE Sums(f, n)[n - 1] = Sums(f, n - 1)[n - 1]
  <2> DEFINE g == Sums(f, n)
             h == Sums(f, n - 1)
             P == {i \in Nat : i <= n - 1 => g[i] = h[i]}
  <2>1. n \in 0 .. m /\ n - 1 \in 0 .. m
    OBVIOUS
  <2>2. /\ g[0] = 0 /\ h[0] = 0 /\ \A i \in 1 .. n : g[i] = g[i - 1] + f[i]
        /\ \A i \in 1 .. n - 1 : h[i] = h[i - 1] + f[i]
    BY <1>1, <2>1
  <2> HIDE DEF g, h
  <2>3. 0 \in P
    BY <2>2
  <2>4. ASSUME NEW i \in Nat, i \in P PROVE i + 1 \in P
    <3> SUFFICES ASSUME i + 1 <= n - 1 PROVE g[i + 1] = h[i + 1]
      OBVIOUS
    <3>1. i + 1 \in 1 .. n /\ i + 1 \in 1 .. n - 1 /\ (i + 1) - 1 = i /\ g[i] = h[i]
      BY <2>4
    <3> QED BY <2>2, <3>1
  <2> HIDE DEF P
  <2>5. Nat \subseteq P
    BY <2>3, <2>4, Induction
  <2>6. n - 1 \in Nat /\ n - 1 \in P
    BY <2>5
  <2> QED BY <2>6 DEF P, g, h
<1>3. Total(f, 0) = 0
  <2>1. 0 \in 0 .. m
    OBVIOUS
  <2> QED BY <1>1, <2>1
<1>4. ASSUME NEW n \in 0 .. m PROVE Total(f, n) \in Int
  <2>1. n \in 0 .. n
    OBVIOUS
  <2> QED BY <1>1, <2>1
<1>5. ASSUME NEW n \in 1 .. m PROVE Total(f, n) = Total(f, n - 1) + f[n]
  <2>1. n \in 0 .. m /\ n - 1 \in 0 .. m /\ n \in 1 .. n
    OBVIOUS
  <2>2. Total(f, n) = Sums(f, n)[n] /\ Sums(f, n)[n] = Sums(f, n)[n - 1] + f[n]
    BY <1>1, <2>1
  <2>3. Total(f, n - 1) = Sums(f, n - 1)[n - 1]
    BY <1>1, <2>1
  <2> QED BY <1>2, <2>2, <2>3
<1> QED BY <1>3, <1>4, <1>5

(* Sums of equal numbers are equal, and a sum goes on where another ends.  *)
LEMMA TotalSame ==
  ASSUME NEW m \in Nat, NEW f, NEW g, \A i \in 1 .. m : f[i] \in Int /\ g[i] = f[i]
  PROVE  Total(g, m) = Total(f, m)
<1> DEFINE P == {n \in Nat : n <= m => Total(g, n) = Total(f, n)}
<1>1. /\ Total(f, 0) = 0 /\ Total(g, 0) = 0
      /\ \A n \in 1 .. m : Total(f, n) = Total(f, n - 1) + f[n] /\ Total(g, n) = Total(g, n - 1) + g[n]
  <2>1. \A i \in 1 .. m : g[i] \in Int
    OBVIOUS
  <2> QED BY <2>1, TotalFacts
<1>2. 0 \in P
  BY <1>1
<1>3. ASSUME NEW n \in Nat, n \in P PROVE n + 1 \in P
  <2> SUFFICES ASSUME n + 1 <= m PROVE Total(g, n + 1) = Total(f, n + 1)
    OBVIOUS
  <2>1. n + 1 \in 1 .. m /\ (n + 1) - 1 = n /\ Total(g, n) = Total(f, n)
    BY <1>3
  <2> QED BY <1>1, <2>1
<1> HIDE DEF P
<1>4. Nat \subseteq P
  BY <1>2, <1>3, Induction
<1>5. m \in P
  BY <1>4
<1> QED BY <1>5 DEF P

(* The sum of a concatenation is the sum of the sums.                      *)
LEMMA TotalConcat ==
  ASSUME NEW s \in Seq(Int), NEW t \in Seq(Int)
  PROVE  Total(s \o t, Len(s \o t)) = Total(s, Len(s)) + Total(t, Len(t))
<1> DEFINE m == Len(s)
           k == Len(t)
           c == s \o t
           P == {n \in Nat : n <= k => Total(c, m + n) = Total(s, m) + Total(t, n)}
<1>1. /\ m \in Nat /\ k \in Nat /\ Len(c) = m + k
      /\ \A i \in 1 .. m : s[i] \in Int
      /\ \A i \in 1 .. k : t[i] \in Int
      /\ \A i \in 1 .. m + k : c[i] = IF i <= m THEN s[i] ELSE t[i - m]
  BY LenProperties, ElementOfSeq, ConcatProperties
<1> HIDE DEF m, k, c
<1>2. \A i \in 1 .. m + k : c[i] \in Int
  <2> SUFFICES ASSUME NEW i \in 1 .. m + k PROVE c[i] \in Int
    OBVIOUS
  <2>1. CASE i <= m
    <3>1. i \in 1 .. m
      BY <1>1, <2>1
    <3> QED BY <1>1, <2>1, <3>1
  <2>2. CASE ~ i <= m
    <3>1. i - m \in 1 .. k
      BY <1>1, <2>2
    <3> QED BY <1>1, <2>2, <3>1
  <2> QED BY <2>1, <2>2
<1>3. m + k \in Nat /\ \A i \in 1 .. m : i \in 1 .. m + k /\ c[i] = s[i]
  BY <1>1
<1>4. Total(c, m) = Total(s, m)
  BY <1>1, <1>3, TotalSame
<1>5. /\ Total(t, 0) = 0 /\ Total(s, m) \in Int
      /\ \A n \in 0 .. k : Total(t, n) \in Int
      /\ \A n \in 1 .. k : Total(t, n) = Total(t, n - 1) + t[n]
      /\ \A n \in 1 .. m + k : Total(c, n) = Total(c, n - 1) + c[n]
  <2>1. \A n \in 0 .. m : Total(s, n) \in Int
    BY <1>1, TotalFacts
  <2>2. m \in 0 .. m
    BY <1>1
  <2> QED BY <1>1, <1>2, <1>3, <2>1, <2>2, TotalFacts
<1>6. 0 \in P
  BY <1>1, <1>4, <1>5
<1>7. ASSUME NEW n \in Nat, n \in P PROVE n + 1 \in P
  <2> SUFFICES ASSUME n + 1 <= k PROVE Total(c, m + (n + 1)) = Total(s, m) + Total(t, n + 1)
    OBVIOUS
  <2>1. /\ n + 1 \in 1 .. k /\ (n + 1) - 1 = n /\ m + n + 1 \in 1 .. m + k
        /\ (m + n + 1) - 1 = m + n /\ ~ (m + n + 1 <= m) /\ (m + n + 1) - m = n + 1
        /\ n \in 0 .. k
    BY <1>1
  <2>2. Total(c, m + n) = Total(s, m) + Total(t, n)
    BY <1>7, <2>1
  <2>3. c[m + n + 1] = t[n + 1]
    BY <1>1, <2>1
  <2>4. Total(c, m + n + 1) = Total(c, m + n) + t[n + 1]
    BY <1>5, <2>1, <2>3
  <2>5. Total(t, n + 1) = Total(t, n) + t[n + 1]
    BY <1>5, <2>1
  <2>6. t[n + 1] \in Int /\ Total(t, n) \in Int /\ m + (n + 1) = m + n + 1
    BY <1>1, <1>5, <2>1
  <2> QED BY <1>5, <2>2, <2>4, <2>5, <2>6
<1> HIDE DEF P
<1>8. Nat \subseteq P
  BY <1>6, <1>7, Induction
<1>9. k \in P
  BY <1>1, <1>8
<1>10. Total(c, m + k) = Total(s, m) + Total(t, k)
  BY <1>1, <1>9 DEF P
<1> QED BY <1>1, <1>10 DEF m, k, c

(* The sum of equal numbers is their product.                              *)
LEMMA TotalConstant ==
  ASSUME NEW m \in Int, NEW n \in Nat
  PROVE  Total([k \in 1 .. n |-> m], n) = n * m
<1> DEFINE f == [k \in 1 .. n |-> m]
           P == {i \in Nat : i <= n => Total(f, i) = i * m}
<1>1. \A i \in 1 .. n : f[i] = m
  OBVIOUS
<1> HIDE DEF f
<1>2. /\ Total(f, 0) = 0 /\ \A i \in 0 .. n : Total(f, i) \in Int
      /\ \A i \in 1 .. n : Total(f, i) = Total(f, i - 1) + f[i]
  BY <1>1, TotalFacts
<1>3. 0 \in P
  BY <1>2
<1>4. ASSUME NEW i \in Nat, i \in P PROVE i + 1 \in P
  <2> SUFFICES ASSUME i + 1 <= n PROVE Total(f, i + 1) = (i + 1) * m
    OBVIOUS
  <2>1. i + 1 \in 1 .. n /\ (i + 1) - 1 = i /\ Total(f, i) = i * m
    BY <1>4
  <2>2. Total(f, i + 1) = i * m + m
    BY <1>1, <1>2, <2>1
  <2> QED BY <2>2
<1> HIDE DEF P
<1>5. Nat \subseteq P
  BY <1>3, <1>4, Induction
<1>6. n \in P
  BY <1>5
<1> QED BY <1>6 DEF P, f

(* The sum of a sequence that got one more number.                         *)
LEMMA TotalAppend ==
  ASSUME NEW s \in Seq(Int), NEW e \in Int
  PROVE  Total(Append(s, e), Len(Append(s, e))) = Total(s, Len(s)) + e
<1> DEFINE t == << e >>
<1>1. t \in Seq(Int) /\ Len(t) = 1 /\ t[1] = e
  OBVIOUS
<1>2. Append(s, e) = s \o t
  BY AppendIsConcat
<1> HIDE DEF t
<1>3. Total(t, 1) = e
  <2>1. /\ 1 \in Nat /\ 1 \in 1 .. 1 /\ 1 - 1 = 0
        /\ \A i \in 1 .. 1 : t[i] \in Int
    BY <1>1
  <2>2. Total(t, 0) = 0 /\ Total(t, 1) = Total(t, 1 - 1) + t[1]
    BY <2>1, TotalFacts
  <2> QED BY <1>1, <2>1, <2>2
<1> QED BY <1>1, <1>2, <1>3, TotalConcat

(* Min() of numbers is their least.                                        *)
LEMMA LeastOf ==
  ASSUME NEW T \in SUBSET Nat, T # {}
  PROVE  Min(T) \in T /\ \A t \in T : Min(T) <= t
BY LeastElement DEF Min

(* Max() of bounded numbers is their greatest.                             *)
LEMMA GreatestOf ==
  ASSUME NEW n \in Nat, NEW T \in SUBSET (0 .. n), T # {}
  PROVE  Max(T) \in T /\ \A t \in T : t <= Max(T)
<1> DEFINE D == {n - t : t \in T}
<1>1. D \in SUBSET Nat /\ D # {}
  <2>1. PICK t \in T : TRUE
    OBVIOUS
  <2>2. n - t \in D
    BY <2>1
  <2> QED BY <2>2
<1>2. PICK d \in D : \A e \in D : d <= e
  BY <1>1, LeastElement
<1>3. PICK t \in T : d = n - t
  OBVIOUS
<1>4. \A u \in T : u <= t
  BY <1>2, <1>3
<1> QED BY <1>4 DEF Max

(* Places next to each other have ranks next to each other.                *)
LEMMA RankInterval ==
  ASSUME NEW P \in SUBSET Nat, IsFiniteSet(P), NEW a \in P, NEW b \in P, a <= b, a .. b \subseteq P
  PROVE  Rank(P, b) = Rank(P, a) + (b - a)
<1> DEFINE A == {j \in P : j <= a}
           B == {j \in P : j <= b}
           C == a + 1 .. b
<1>0. a \in Nat /\ b \in Nat /\ C \subseteq P
  OBVIOUS
<1>1. B = A \cup C /\ A \cap C = {}
  <2>1. ASSUME NEW j \in P PROVE j \in Nat /\ (j <= b <=> j <= a \/ j \in C)
    BY <1>0
  <2>2. ASSUME NEW j \in C PROVE ~ j <= a
    BY <1>0
  <2> QED BY <1>0, <2>1, <2>2
<1>2. A \in SUBSET P /\ IsFiniteSet(A) /\ Cardinality(A) \in Nat
  BY FS_Subset, FS_CardinalityType
<1>3. IsFiniteSet(C) /\ Cardinality(C) = b - a
  <2>1. a + 1 \in Int /\ b \in Int
    BY <1>0
  <2>2. (IF a + 1 > b THEN 0 ELSE b - (a + 1) + 1) = b - a
    BY <1>0
  <2>3. IsFiniteSet(C) /\ Cardinality(C) = IF a + 1 > b THEN 0 ELSE b - (a + 1) + 1
    BY <2>1, FS_Interval, Zenon
  <2> QED BY <2>2, <2>3
<1>4. A \cap C = {} => Cardinality(A \cup C) = Cardinality(A) + Cardinality(C)
  <2> HIDE DEF A, C
  <2>1. Cardinality(A \cup C) = Cardinality(A) + Cardinality(C) - Cardinality(A \cap C)
    BY <1>2, <1>3, FS_Union
  <2>2. Cardinality({}) = 0
    BY FS_EmptySet
  <2>3. Cardinality(C) \in Nat
    BY <1>3, FS_CardinalityType
  <2> DEFINE u == Cardinality(A)
             v == Cardinality(C)
  <2> HIDE DEF u, v
  <2>4. u \in Nat /\ v \in Nat => u + v - 0 = u + v
    OBVIOUS
  <2> QED BY <1>2, <2>1, <2>2, <2>3, <2>4 DEF u, v
<1> QED BY <1>1, <1>3, <1>4 DEF Rank

(* A row of places 1 .. n is cut before each place of P: its m-th piece.   *)
Piece(P, n, m) == Nth(P, m) .. (IF m = Cardinality(P) THEN n ELSE Nth(P, m + 1) - 1)

(* Every place of the row is in one piece and in no other, and the pieces  *)
(* follow each other.                                                      *)
LEMMA PieceOf ==
  ASSUME NEW n \in Nat, NEW P \in SUBSET (1 .. n), n # 0 => 1 \in P
  PROVE  /\ IsFiniteSet(P) /\ P \in SUBSET Nat /\ Cardinality(P) \in Nat
         /\ \A k \in 1 .. n : \E m \in 1 .. Cardinality(P) :
              \A l \in 1 .. Cardinality(P) : k \in Piece(P, n, l) <=> l = m
         /\ \A k, l \in 1 .. Cardinality(P) : k < l => \A i \in Piece(P, n, k) : i < Nth(P, l)
<1> DEFINE c == Cardinality(P)
<1>1. IsFiniteSet(P) /\ P \in SUBSET Nat
  <2>1. IsFiniteSet(1 .. n)
    BY FS_Interval
  <2>2. 1 .. n \subseteq Nat
    OBVIOUS
  <2> QED BY <2>1, <2>2, FS_Subset, Zenon
<1>2. /\ c \in Nat
      /\ \A k \in 1 .. c : Nth(P, k) \in P
      /\ \A i \in P : Rank(P, i) \in 1 .. c /\ Nth(P, Rank(P, i)) = i
      /\ \A k, l \in 1 .. c : k < l => Nth(P, k) < Nth(P, l)
  BY <1>1, NthFacts
<1> HIDE DEF c
<1>0. \A k \in 1 .. c : Nth(P, k) \in 1 .. n
  BY <1>2
<1>3. ASSUME NEW k \in 1 .. c, NEW l \in 1 .. c, k < l, NEW i \in Piece(P, n, k)
      PROVE  i < Nth(P, l)
  <2>1. k # c /\ k + 1 \in 1 .. c
    BY <1>2, <1>3
  <2>2. Nth(P, k + 1) <= Nth(P, l)
    BY <1>0, <1>2, <1>3, <2>1
  <2> QED BY <1>0, <1>3, <2>1, <2>2 DEF Piece, c
<1>4. ASSUME NEW k \in 1 .. n
      PROVE  \E m \in 1 .. c : \A l \in 1 .. c : k \in Piece(P, n, l) <=> l = m
  <2> DEFINE M == {m \in 1 .. c : m = c \/ k < Nth(P, m + 1)}
  <2>1. 1 \in P /\ 1 \in 1 .. c /\ Nth(P, 1) = 1
    <3>1. 1 \in P /\ Rank(P, 1) \in 1 .. c /\ Nth(P, Rank(P, 1)) = 1
      BY <1>2
    <3>2. ~ 1 < Rank(P, 1)
      <4> SUFFICES ASSUME 1 < Rank(P, 1) PROVE FALSE
        OBVIOUS
      <4>1. 1 \in 1 .. c
        BY <1>2, <3>1
      <4>2. Nth(P, 1) < 1
        BY <1>2, <3>1, <4>1
      <4> QED BY <1>0, <4>1, <4>2
    <3> QED BY <1>2, <3>1, <3>2
  <2>2. M \in SUBSET Nat /\ M # {}
    BY <1>2, <2>1
  <2>3. PICK m \in M : \A l \in M : m <= l
    BY <2>2, LeastElement
  <2>4. m \in 1 .. c /\ (m = c \/ (k < Nth(P, m + 1) /\ m + 1 \in 1 .. c))
    BY <1>2, <2>3
  <2>5. Nth(P, m) <= k
    <3>1. CASE m = 1
      BY <2>1, <3>1
    <3>2. CASE m # 1
      <4>1. m - 1 \in 1 .. c /\ m - 1 \notin M
        BY <1>2, <2>3, <2>4, <3>2
      <4>2. m - 1 # c /\ (m - 1) + 1 = m /\ ~ k < Nth(P, m)
        BY <2>4, <4>1
      <4> QED BY <1>0, <2>4, <4>2
    <3> QED BY <3>1, <3>2
  <2>6. k \in Piece(P, n, m)
    <3>1. Nth(P, m) \in 1 .. n
      BY <1>0, <2>4
    <3>2. CASE m = c
      BY <2>5, <3>1, <3>2 DEF Piece, c
    <3>3. CASE m # c
      <4>1. k < Nth(P, m + 1) /\ Nth(P, m + 1) \in 1 .. n
        BY <1>0, <2>4, <3>3
      <4> QED BY <2>5, <3>1, <3>3, <4>1 DEF Piece, c
    <3> QED BY <3>2, <3>3
  <2>7. ASSUME NEW l \in 1 .. c, k \in Piece(P, n, l)
        PROVE  l = m
    <3>1. Nth(P, l) <= k /\ Nth(P, m) <= k
      <4>1. Nth(P, l) \in 1 .. n
        BY <1>0
      <4> QED BY <2>5, <2>7, <4>1 DEF Piece
    <3>2. ~ l < m
      BY <1>0, <1>3, <2>4, <2>7, <3>1
    <3>3. ~ m < l
      BY <1>0, <1>3, <2>4, <2>6, <3>1
    <3> QED BY <2>4, <3>2, <3>3
  <2> QED BY <2>4, <2>6, <2>7
<1> QED BY <1>1, <1>2, <1>3, <1>4 DEF c

(* Pieces are short where their starts lie close.                          *)
LEMMA ShortPieces ==
  ASSUME NEW n \in Nat, NEW P \in SUBSET (1 .. n), NEW m \in Nat \ {0},
         \A p \in P : p + m <= n => \E q \in P : p < q /\ q <= p + m,
         NEW k \in 1 .. Cardinality(P)
  PROVE  LET to == IF k = Cardinality(P) THEN n ELSE Nth(P, k + 1) - 1 IN
         Nth(P, k) \in 1 .. n /\ to \in Nth(P, k) .. n /\ to - Nth(P, k) < m
<1> DEFINE c == Cardinality(P)
           p == Nth(P, k)
<1>1. IsFiniteSet(P) /\ P \in SUBSET Nat
  <2>1. IsFiniteSet(1 .. n)
    BY FS_Interval
  <2>2. 1 .. n \subseteq Nat
    OBVIOUS
  <2> QED BY <2>1, <2>2, FS_Subset, Zenon
<1>2. /\ c \in Nat
      /\ \A l \in 1 .. c : Nth(P, l) \in P
      /\ \A i \in P : Rank(P, i) \in 1 .. c /\ Nth(P, Rank(P, i)) = i
      /\ \A j, l \in 1 .. c : j < l => Nth(P, j) < Nth(P, l)
  BY <1>1, NthFacts
<1>3. k \in 1 .. c
  OBVIOUS
<1> HIDE DEF c
<1>4. p \in P /\ p \in 1 .. n
  BY <1>2, <1>3
<1>5. ASSUME NEW q \in P, p < q
      PROVE  k # c /\ Nth(P, k + 1) <= q
  <2>1. Rank(P, q) \in 1 .. c /\ Nth(P, Rank(P, q)) = q /\ q \in 1 .. n
    BY <1>2
  <2>2. ~ Rank(P, q) < k /\ Rank(P, q) # k
    <3>1. Rank(P, q) < k => q < p
      BY <1>2, <1>3, <2>1
    <3> QED BY <1>4, <1>5, <2>1, <3>1
  <2>3. k < Rank(P, q) /\ k + 1 \in 1 .. c /\ k # c
    BY <1>2, <1>3, <2>1, <2>2
  <2>4. k + 1 < Rank(P, q) => Nth(P, k + 1) < q
    BY <1>2, <2>1, <2>3
  <2>5. Nth(P, k + 1) \in 1 .. n
    BY <1>2, <2>3
  <2> QED BY <1>2, <1>3, <2>1, <2>3, <2>4, <2>5
<1> HIDE DEF p
<1>6. CASE k = c
  <2>1. ~ p + m <= n
    BY <1>4, <1>5, <1>6
  <2> QED BY <1>4, <1>6, <2>1 DEF c, p
<1>7. CASE k # c
  <2> DEFINE r == Nth(P, k + 1)
  <2>1. k + 1 \in 1 .. c
    BY <1>2, <1>3, <1>7
  <2>2. r \in 1 .. n /\ p < r
    <3>1. r \in 1 .. n
      BY <1>2, <2>1
    <3>2. k < k + 1
      OBVIOUS
    <3>3. Nth(P, k) < Nth(P, k + 1)
      BY <1>2, <1>3, <2>1, <3>2, Zenon
    <3> QED BY <3>1, <3>3 DEF p
  <2>3. p + m <= n => r <= p + m
    <3> SUFFICES ASSUME p + m <= n PROVE r <= p + m
      OBVIOUS
    <3>1. PICK q \in P : p < q /\ q <= p + m
      BY <1>4
    <3>2. r <= q /\ q \in 1 .. n
      BY <1>5, <3>1
    <3> QED BY <1>4, <2>2, <3>1, <3>2
  <2> HIDE DEF r
  <2>4. r - 1 \in p .. n /\ (r - 1) - p < m
    BY <1>4, <2>2, <2>3
  <2> QED BY <1>4, <1>7, <2>4 DEF c, p, r
<1> QED BY <1>6, <1>7

(* Sums of natural numbers are natural numbers.                            *)
LEMMA SumOfLengths ==
  ASSUME NEW m \in Nat, NEW f, \A i \in 1 .. m : f[i] \in Nat
  PROVE  \A n \in 0 .. m : Total(f, n) \in Nat
<1> DEFINE P == {n \in Nat : n <= m => Total(f, n) \in Nat}
<1>1. /\ Total(f, 0) = 0
      /\ \A n \in 1 .. m : Total(f, n) = Total(f, n - 1) + f[n]
  <2>1. \A i \in 1 .. m : f[i] \in Int
    OBVIOUS
  <2> QED BY <2>1, TotalFacts
<1>2. 0 \in P
  BY <1>1
<1>3. ASSUME NEW n \in Nat, n \in P PROVE n + 1 \in P
  <2> SUFFICES ASSUME n + 1 <= m PROVE Total(f, n + 1) \in Nat
    OBVIOUS
  <2>1. n + 1 \in 1 .. m /\ (n + 1) - 1 = n /\ Total(f, n) \in Nat
    BY <1>3
  <2>2. Total(f, n + 1) = Total(f, n) + f[n + 1]
    BY <1>1, <2>1
  <2>3. f[n + 1] \in Nat
    BY <2>1
  <2> QED BY <2>1, <2>2, <2>3
<1> HIDE DEF P
<1>4. Nat \subseteq P
  BY <1>2, <1>3, Induction
<1> QED BY <1>4 DEF P

(* The union of what a sequence has at its places.                         *)
LEMMA UnionOf ==
  ASSUME NEW X, NEW s \in Seq(X)
  PROVE  UNION {s[i] : i \in DOMAIN s} = UNION ToSet(s)
BY DEF ToSet

(* A multiple of m comes m after a multiple of m.                          *)
LEMMA NextMultiple ==
  ASSUME NEW m \in Nat \ {0}, NEW a \in Nat, a % m = 0
  PROVE  (a + m) % m = 0 /\ 0 % m = 0
<1>1. 0 % m = 0
  OBVIOUS
<1> DEFINE b == a + m
           q == a \div m
           r == b \div m
<1>2. q \in Int /\ a = m * q + (a % m) /\ a % m \in Int
  OBVIOUS
<1>3. b \in Nat
  OBVIOUS
<1> HIDE DEF b
<1>4. r \in Int /\ b = m * r + (b % m) /\ b % m \in 0 .. m - 1
  BY <1>3
<1> HIDE DEF q, r
<1>5. b = m * (q + 1)
  BY <1>2 DEF b
<1>6. m * (q + 1) - m * r = m * (q + 1 - r)
  BY <1>2, <1>4
<1>7. q + 1 - r \in Int
  BY <1>2, <1>4
<1> DEFINE d == q + 1 - r
<1> HIDE DEF d
<1>8. d \in Int /\ m * d = b % m /\ b % m \in 0 .. m - 1
  BY <1>4, <1>5, <1>6, <1>7 DEF d
<1>9. d = 0
  <2>1. d >= 1 => m * d >= m
    BY <1>8
  <2>2. d <= -1 => m * d <= -m
    BY <1>8
  <2> QED BY <1>8, <2>1, <2>2
<1>10. b % m = 0
  BY <1>8, <1>9
<1> QED BY <1>1, <1>10 DEF b
=============================================================================
