------------------------------- MODULE Lemmas -------------------------------
(***************************************************************************)
(* The lemmas that the proofs share.                                       *)
(*                                                                         *)
(* Induction and recursion over the data of the models, stated for sets    *)
(* and functions: the property of the library's induction theorems is an   *)
(* operator, for which no prover finds an instance, here it is the set of  *)
(* the values that have it. And what the folds over sequences, by which    *)
(* the models follow the loops of the code, come to.                       *)
(*                                                                         *)
(* Then what the operators of Fractions do: Euclid's algorithm finds the   *)
(* greatest common divisor, so that the sums, the products and the         *)
(* quotients that are computed by it are the exact ones, and fractions in  *)
(* lowest terms are equal if they are the same number.  With that the laws *)
(* of arithmetic hold for them, and those of sums.                         *)
(***************************************************************************)
EXTENDS Fractions, FiniteSetTheorems, FunctionTheorems, SequenceTheorems, SequencesExt, TLAPS

-----------------------------------------------------------------------------
(* Induction.                                                              *)

(* A set of numbers has a least one.                                       *)
LEMMA LeastNumber ==
  ASSUME NEW S \in SUBSET Nat, S # {}
  PROVE  \E m \in S : \A k \in S : m <= k
<1> DEFINE T == { 1..m : m \in S }
<1>1. T # {} /\ T \subseteq FiniteSubsetsOf(Nat)
  <2>1. ASSUME NEW m \in S PROVE IsFiniteSet(1..m) /\ 1..m \in SUBSET Nat
    BY FS_Interval
  <2> QED
    BY <2>1 DEF FiniteSubsetsOf
<1>2. IsWellFoundedOn(StrictSubsetOrdering(Nat), FiniteSubsetsOf(Nat))
  BY FS_StrictSubsetOrderingWellFounded
<1> HIDE DEF T
<1>3. PICK x \in T : \A y \in T : <<y, x>> \notin StrictSubsetOrdering(Nat)
  BY <1>1, <1>2, WFMin
<1>4. PICK m \in S : x = 1..m
  BY DEF T
<1>5. ASSUME NEW k \in S, k < m PROVE FALSE
  <2>1. 1..k \in SUBSET Nat /\ 1..m \in SUBSET Nat /\ 1..k \subseteq 1..m /\ m \in 1..m /\ m \notin 1..k
    BY <1>5
  <2>2. 1..k # 1..m
    BY <2>1
  <2>3. <<1..k, 1..m>> \in StrictSubsetOrdering(Nat)
    BY <2>1, <2>2 DEF StrictSubsetOrdering
  <2>4. 1..k \in T
    BY DEF T
  <2> QED
    BY <2>3, <2>4, <1>3, <1>4
<1> QED
  BY <1>5

(* The numbers are in every set that has 0 and with a number the next.     *)
LEMMA SetInduction ==
  ASSUME NEW S, 0 \in S, \A k \in Nat : k \in S => k + 1 \in S
  PROVE  Nat \subseteq S
<1> SUFFICES ASSUME Nat \ S # {} PROVE FALSE
  OBVIOUS
<1>1. PICK m \in Nat \ S : \A k \in Nat \ S : m <= k
  BY LeastNumber
<1>2. m # 0 /\ m - 1 \in Nat /\ m - 1 \in S
  BY <1>1
<1> QED
  BY <1>1, <1>2

(* The same up to a bound.                                                 *)
LEMMA IntervalInduction ==
  ASSUME NEW m \in Nat, NEW S, 0 \in S, \A k \in 0..(m - 1) : k \in S => k + 1 \in S
  PROVE  0..m \subseteq S
<1> DEFINE T == { k \in Nat : k \in S \/ k > m }
<1>1. 0 \in T
  OBVIOUS
<1>2. ASSUME NEW k \in Nat, k \in T PROVE k + 1 \in T
  BY <1>2
<1> HIDE DEF T
<1>3. Nat \subseteq T
  BY <1>1, <1>2, SetInduction
<1> QED
  BY <1>3 DEF T

(* The last of some places.                                                *)
LEMMA MaxOfPlaces ==
  ASSUME NEW m \in Nat, NEW s \in SUBSET (1..m), s # {}
  PROVE  /\ Max(s) \in s /\ \A y \in s : Max(s) >= y
<1> DEFINE T == { k \in 0..m : \A y \in s : y <= k }
<1>1. T \in SUBSET Nat /\ m \in T
  OBVIOUS
<1>2. PICK k \in T : \A j \in T : k <= j
  <2> HIDE DEF T
  <2> QED
    BY <1>1, LeastNumber
<1>3. k \in s
  <2> SUFFICES ASSUME k \notin s PROVE FALSE
    OBVIOUS
  <2>1. PICK y \in s : y <= k
    BY <1>2
  <2>2. k >= 1 /\ \A z \in s : z <= k - 1
    BY <1>2, <2>1
  <2>3. k - 1 \in T
    BY <2>2
  <2> QED
    BY <1>2, <2>3
<1>4. \E x \in s : \A y \in s : x >= y
  BY <1>2, <1>3
<1> QED
  BY <1>4 DEF Max

LEMMA LastPlace ==
  ASSUME NEW k \in Nat
  PROVE  Max(1..(k + 1)) = k + 1 /\ 1..(k + 1) # {} /\ (1..(k + 1)) \ {k + 1} = 1..k
<1>1. 1..(k + 1) \in SUBSET (1..(k + 1)) /\ 1..(k + 1) # {} /\ k + 1 \in 1..(k + 1) /\ k + 1 \in Nat
  OBVIOUS
<1>2. Max(1..(k + 1)) \in 1..(k + 1) /\ \A y \in 1..(k + 1) : Max(1..(k + 1)) >= y
  BY <1>1, MaxOfPlaces
<1>3. Max(1..(k + 1)) = k + 1
  BY <1>1, <1>2
<1>4. (1..(k + 1)) \ {k + 1} = 1..k
  OBVIOUS
<1> QED
  BY <1>1, <1>3, <1>4

(* The recursion of a fold over the places of a sequence: step takes what  *)
(* the places before a place come to, and the place.                       *)
Solves(it, k, base, step) ==
  \A s \in SUBSET (1..k) : it[s] = IF s = {} THEN base ELSE step[it[s \ {Max(s)}], Max(s)]

LEMMA NoPlaces ==
  ASSUME NEW X, NEW base \in X, NEW step
  PROVE  \E it \in [SUBSET (1..0) -> X] : Solves(it, 0, base, step)
<1> DEFINE it == [s \in SUBSET (1..0) |-> base]
<1>1. 1..0 = {}
  OBVIOUS
<1>2. it \in [SUBSET (1..0) -> X] /\ \A s \in SUBSET (1..0) : s = {} /\ it[s] = base
  BY <1>1
<1> HIDE DEF it
<1> QED
  BY <1>2 DEF Solves

LEMMA MaxIsNewPlace ==
  ASSUME NEW k \in Nat, NEW s \in SUBSET (1..(k + 1)), k + 1 \in s
  PROVE  /\ Max(s) = k + 1 /\ s # {}
         /\ s \ {k + 1} \in SUBSET (1..k) /\ s \ {k + 1} \in SUBSET (1..(k + 1))
<1>1. s # {} /\ k + 1 \in Nat
  OBVIOUS
<1>2. Max(s) \in s /\ \A y \in s : Max(s) >= y
  BY <1>1, MaxOfPlaces
<1>3. Max(s) \in 1..(k + 1) /\ Max(s) >= k + 1
  BY <1>2
<1>4. Max(s) = k + 1
  BY <1>3
<1>5. s \ {k + 1} \subseteq 1..k
  OBVIOUS
<1> QED
  BY <1>1, <1>4, <1>5

LEMMA FoldExists ==
  ASSUME NEW m \in Nat, NEW X, NEW base \in X, NEW step \in [X \X (1..m) -> X]
  PROVE  \E it \in [SUBSET (1..m) -> X] : Solves(it, m, base, step)
<1> DEFINE S == { k \in 0..m : \E it \in [SUBSET (1..k) -> X] : Solves(it, k, base, step) }
<1>1. 0 \in S
  <2>1. \E it \in [SUBSET (1..0) -> X] : Solves(it, 0, base, step)
    BY NoPlaces, Zenon
  <2>2. 0 \in 0..m
    OBVIOUS
  <2> QED
    BY <2>1, <2>2, Zenon
<1>2. ASSUME NEW k \in 0..(m - 1), k \in S PROVE k + 1 \in S
  <2>1. PICK it \in [SUBSET (1..k) -> X] : Solves(it, k, base, step)
    BY <1>2
  <2> DEFINE next == [s \in SUBSET (1..(k + 1)) |->
                        IF k + 1 \in s THEN step[it[s \ {k + 1}], k + 1] ELSE it[s]]
  <2>2. ASSUME NEW s \in SUBSET (1..(k + 1)), k + 1 \in s
        PROVE  /\ Max(s) = k + 1 /\ s # {} /\ s \ {k + 1} \in SUBSET (1..k)
               /\ it[s \ {k + 1}] \in X /\ next[s] \in X
               /\ next[s] = step[next[s \ {Max(s)}], Max(s)]
    <3>1. k \in Nat /\ k + 1 \in 1..m
      OBVIOUS
    <3>2. Max(s) = k + 1 /\ s # {}
      BY <2>2, <3>1, MaxIsNewPlace
    <3>3. s \ {k + 1} \in SUBSET (1..k) /\ s \ {k + 1} \in SUBSET (1..(k + 1)) /\ k + 1 \in 1..m
      BY <2>2, <3>1, MaxIsNewPlace
    <3>4. it[s \ {k + 1}] \in X
      BY <2>1, <3>3
    <3>5. step[it[s \ {k + 1}], k + 1] \in X
      BY <3>3, <3>4
    <3>6. next[s] = step[it[s \ {k + 1}], k + 1] /\ next[s \ {k + 1}] = it[s \ {k + 1}]
      BY <2>2, <3>3
    <3> QED
      BY <2>2, <3>2, <3>3, <3>4, <3>5, <3>6
  <2>3. ASSUME NEW s \in SUBSET (1..(k + 1)), k + 1 \notin s
        PROVE  /\ s \in SUBSET (1..k) /\ next[s] = it[s] /\ it[s] \in X
               /\ s # {} => next[s \ {Max(s)}] = it[s \ {Max(s)}]
    <3>1. s \in SUBSET (1..k)
      BY <2>3
    <3>2. s \ {Max(s)} \in SUBSET (1..(k + 1)) /\ k + 1 \notin s \ {Max(s)}
      BY <2>3
    <3> QED
      BY <2>1, <2>3, <3>1, <3>2
  <2>4. next \in [SUBSET (1..(k + 1)) -> X]
    <3> SUFFICES ASSUME NEW s \in SUBSET (1..(k + 1)) PROVE next[s] \in X
      BY DEF next
    <3> HIDE DEF next
    <3> QED
      BY <2>2, <2>3
  <2>5. Solves(next, k + 1, base, step)
    <3> SUFFICES ASSUME NEW s \in SUBSET (1..(k + 1))
                 PROVE  next[s] = IF s = {} THEN base ELSE step[next[s \ {Max(s)}], Max(s)]
      BY DEF Solves
    <3> HIDE DEF next
    <3>1. CASE k + 1 \in s
      BY <2>2, <3>1
    <3>2. CASE k + 1 \notin s
      <4>1. it[s] = IF s = {} THEN base ELSE step[it[s \ {Max(s)}], Max(s)]
        BY <2>1, <2>3, <3>2 DEF Solves
      <4> QED
        BY <2>3, <3>2, <4>1
    <3> QED
      BY <3>1, <3>2
  <2> HIDE DEF next
  <2>6. k + 1 \in 0..m
    OBVIOUS
  <2> QED
    BY <2>4, <2>5, <2>6
<1> HIDE DEF S
<1>3. m \in S
  BY <1>1, <1>2, IntervalInduction
<1> QED
  BY <1>3 DEF S

(* The sequences of the elements of a set are of all of them.              *)
LEMMA SequenceOfAll ==
  ASSUME NEW S, IsFiniteSet(S), NEW f \in SetToSeqs(S)
  PROVE  ToSet(f) = S
<1> DEFINE D == 1..Cardinality(S)
<1>1. Cardinality(S) \in Nat
  BY FS_CardinalityType
<1>2. IsFiniteSet(D) /\ Cardinality(D) = Cardinality(S)
  BY <1>1, FS_Interval
<1>3. f \in [D -> S] /\ \A i, j \in D : i # j => f[i] # f[j]
  BY DEF SetToSeqs
<1> HIDE DEF D
<1>4. f \in Injection(D, S)
  BY <1>3, Fun_IsInj
<1>5. f \in Surjection(D, S)
  BY <1>2, <1>4, FS_Injection
<1>6. \A t \in S : \E s \in D : f[s] = t
  BY <1>5, Fun_SurjectionProperties
<1> QED
  BY <1>3, <1>6 DEF ToSet

(* The sequence of a set is of all of its elements.                        *)
LEMMA SetAsSequence ==
  ASSUME NEW S, IsFiniteSet(S)
  PROVE  /\ SetToSeq(S) \in [1..Cardinality(S) -> S] /\ SetToSeq(S) \in Seq(S)
         /\ ToSet(SetToSeq(S)) = S /\ IsInjective(SetToSeq(S))
<1> DEFINE D == 1..Cardinality(S)
           f == SetToSeq(S)
<1>1. Cardinality(S) \in Nat /\ ExistsBijection(D, S)
  BY FS_CardinalityType
<1>2. PICK g \in Bijection(D, S) : TRUE
  BY <1>1 DEF ExistsBijection
<1>3. g \in [D -> S] /\ IsInjective(g)
  <2>1. g \in [D -> S] /\ \A x, y \in D : g[x] = g[y] => x = y
    BY Fun_BijectionProperties
  <2> QED
    BY <2>1 DEF IsInjective
<1>4. f \in [D -> S] /\ IsInjective(f)
  BY <1>3 DEF SetToSeq
<1>5. IsFiniteSet(D) /\ Cardinality(D) = Cardinality(S)
  BY <1>1, FS_Interval
<1> HIDE DEF f, D
<1>6. f \in Injection(D, S)
  BY <1>4, Fun_IsInj DEF IsInjective
<1>7. f \in Surjection(D, S)
  BY <1>5, <1>6, FS_Injection
<1>8. \A t \in S : \E s \in D : f[s] = t
  BY <1>7, Fun_SurjectionProperties
<1>9. ToSet(f) = S
  BY <1>4, <1>8 DEF ToSet
<1>10. f \in Seq(S)
  BY <1>1, <1>4 DEF D
<1> QED
  BY <1>4, <1>9, <1>10 DEF f, D

(* The ranks of some places are the numbers up to their number, each once. *)
UpTo(P, i) == { j \in P : j <= i }

LEMMA Ranks ==
  ASSUME NEW m \in Nat, NEW P \in SUBSET (1..m)
  PROVE  /\ IsFiniteSet(P) /\ Cardinality(P) \in Nat
         /\ \A i \in P : Cardinality(UpTo(P, i)) \in 1..Cardinality(P)
         /\ \A i, j \in P : Cardinality(UpTo(P, i)) = Cardinality(UpTo(P, j)) => i = j
         /\ \A n \in 1..Cardinality(P) : \E i \in P : Cardinality(UpTo(P, i)) = n
<1> DEFINE c == Cardinality(P)
           D == 1..c
           f == [i \in P |-> Cardinality(UpTo(P, i))]
<1>1. IsFiniteSet(P) /\ c \in Nat
  <2>1. IsFiniteSet(1..m)
    BY FS_Interval
  <2> QED
    BY <2>1, FS_Subset, FS_CardinalityType
<1>2. ASSUME NEW i \in P
      PROVE  /\ UpTo(P, i) \in SUBSET P /\ IsFiniteSet(UpTo(P, i))
             /\ Cardinality(UpTo(P, i)) \in Nat /\ Cardinality(UpTo(P, i)) <= c /\ Cardinality(UpTo(P, i)) # 0
  <2>1. UpTo(P, i) \in SUBSET P /\ i \in UpTo(P, i)
    BY DEF UpTo
  <2>2. IsFiniteSet(UpTo(P, i)) /\ Cardinality(UpTo(P, i)) <= c
    BY <1>1, <2>1, FS_Subset
  <2>3. Cardinality(UpTo(P, i)) \in Nat
    BY <2>2, FS_CardinalityType
  <2>4. Cardinality(UpTo(P, i)) # 0
    BY <2>1, <2>2, FS_EmptySet
  <2> QED
    BY <2>1, <2>2, <2>3, <2>4
<1>3. ASSUME NEW i \in P, NEW j \in P, i < j PROVE Cardinality(UpTo(P, i)) # Cardinality(UpTo(P, j))
  <2>1. \A x \in P : (x <= i => x <= j) /\ j <= j /\ ~(j <= i)
    <3>1. i \in Nat /\ j \in Nat /\ \A x \in P : x \in Nat
      OBVIOUS
    <3> QED
      BY <1>3, <3>1
  <2>2. UpTo(P, i) \in SUBSET UpTo(P, j) /\ j \in UpTo(P, j) /\ j \notin UpTo(P, i)
    BY <2>1 DEF UpTo
  <2> QED
    BY <1>2, <2>2, FS_Subset
<1>4. \A i, j \in P : Cardinality(UpTo(P, i)) = Cardinality(UpTo(P, j)) => i = j
  <2>1. \A i, j \in P : i < j \/ j < i \/ i = j
    OBVIOUS
  <2> QED
    BY <1>3, <2>1
<1>5. \A i \in P : Cardinality(UpTo(P, i)) \in D
  <2>1. \A x \in Nat : x <= c /\ x # 0 => x \in D
    BY <1>1
  <2> QED
    BY <1>2, <2>1
<1>6. f \in [P -> D] /\ \A i \in P : f[i] = Cardinality(UpTo(P, i))
  BY <1>5
<1>7. IsFiniteSet(D) /\ Cardinality(D) = c
  BY <1>1, FS_Interval
<1> HIDE DEF f, D
<1>8. f \in Injection(P, D)
  BY <1>4, <1>6, Fun_IsInj
<1>9. f \in Surjection(P, D)
  BY <1>7, <1>8, FS_Injection
<1>10. \A n \in D : \E i \in P : f[i] = n
  BY <1>9, Fun_SurjectionProperties
<1> QED
  BY <1>1, <1>4, <1>5, <1>6, <1>10 DEF D

(* The sequences of a sequence, one after the other.                       *)
LEMMA ConcatOfAll ==
  ASSUME NEW X, NEW s \in Seq(X), NEW t \in Seq(X)
  PROVE  s \o t \in Seq(X) /\ ToSet(s \o t) = ToSet(s) \union ToSet(t)
<1>1. /\ s \o t \in Seq(X) /\ Len(s \o t) = Len(s) + Len(t)
      /\ \A i \in 1..(Len(s) + Len(t)) : (s \o t)[i] = IF i <= Len(s) THEN s[i] ELSE t[i - Len(s)]
  BY ConcatProperties
<1>2. Len(s) \in Nat /\ Len(t) \in Nat /\ DOMAIN s = 1..Len(s) /\ DOMAIN t = 1..Len(t)
      /\ DOMAIN (s \o t) = 1..(Len(s) + Len(t))
  BY <1>1, LenProperties
<1> DEFINE u == s \o t
<1> HIDE DEF u
<1>3. ASSUME NEW i \in DOMAIN s PROVE s[i] \in ToSet(u)
  <2>1. i \in 1..(Len(s) + Len(t)) /\ i <= Len(s)
    BY <1>2
  <2> QED
    BY <1>1, <1>2, <2>1 DEF ToSet, u
<1>4. ASSUME NEW i \in DOMAIN t PROVE t[i] \in ToSet(u)
  <2>1. Len(s) + i \in 1..(Len(s) + Len(t)) /\ ~(Len(s) + i <= Len(s)) /\ (Len(s) + i) - Len(s) = i
    BY <1>2
  <2>2. u[Len(s) + i] = t[i]
    BY <1>1, <2>1 DEF u
  <2> QED
    BY <1>2, <2>1, <2>2 DEF ToSet, u
<1>5. ASSUME NEW i \in DOMAIN u PROVE u[i] \in ToSet(s) \union ToSet(t)
  <2>1. CASE i <= Len(s)
    <3>1. i \in DOMAIN s /\ u[i] = s[i]
      BY <1>1, <1>2, <2>1 DEF u
    <3> QED
      BY <3>1 DEF ToSet
  <2>2. CASE ~(i <= Len(s))
    <3>1. i - Len(s) \in DOMAIN t /\ u[i] = t[i - Len(s)]
      BY <1>1, <1>2, <2>2 DEF u
    <3> QED
      BY <3>1 DEF ToSet
  <2> QED
    BY <2>1, <2>2
<1>6. ToSet(s) \subseteq ToSet(u) /\ ToSet(t) \subseteq ToSet(u) /\ ToSet(u) \subseteq ToSet(s) \union ToSet(t)
  BY <1>3, <1>4, <1>5 DEF ToSet
<1> QED
  BY <1>1, <1>6 DEF u

(* What a recursion along a sequence comes to at a place.                  *)
Concats(f, seqs, m) == f = [i \in 1..m |-> IF i = 1 THEN seqs[i] ELSE f[i - 1] \o seqs[i]]

LEMMA ConcatsExist ==
  ASSUME NEW X, NEW seqs \in Seq(Seq(X))
  PROVE  \E f : Concats(f, seqs, Len(seqs))
<1> DEFINE m == Len(seqs)
           Y == Seq(X)
           base == << >>
           step == [z \in Y \X (1..m) |-> z[1] \o seqs[z[2]]]
<1>1. m \in Nat /\ DOMAIN seqs = 1..m /\ \A i \in 1..m : seqs[i] \in Seq(X)
  BY ElementOfSeq, LenProperties
<1>2. base \in Y
  OBVIOUS
<1>3. \A y \in Y, i \in 1..m : step[y, i] = y \o seqs[i] /\ y \o seqs[i] \in Y
  BY <1>1, ConcatProperties
<1>4. step \in [Y \X (1..m) -> Y]
  <2>1. ASSUME NEW z \in Y \X (1..m) PROVE z[1] \o seqs[z[2]] \in Y
    BY <1>1, ConcatProperties
  <2> QED
    BY <2>1
<1>5. \A i \in 1..m : base \o seqs[i] = seqs[i]
  BY <1>1, ConcatEmptySeq
<1> HIDE DEF m, Y, base, step
<1>6. PICK it \in [SUBSET (1..m) -> Y] : Solves(it, m, base, step)
  BY <1>1, <1>2, <1>4, FoldExists
<1> DEFINE f == [i \in 1..m |-> it[1..i]]
<1>7. ASSUME NEW i \in 1..m PROVE it[1..i] = IF i = 1 THEN seqs[i] ELSE it[1..(i - 1)] \o seqs[i]
  <2>1. i - 1 \in Nat /\ (i - 1) + 1 = i /\ 1..i \in SUBSET (1..m) /\ 1..(i - 1) \in SUBSET (1..m)
    BY <1>1
  <2>2. Max(1..i) = i /\ 1..i # {} /\ (1..i) \ {i} = 1..(i - 1)
    BY <2>1, LastPlace
  <2>3. it[1..i] = step[it[1..(i - 1)], i] /\ it[1..(i - 1)] \in Y
    BY <1>6, <2>1, <2>2 DEF Solves
  <2>4. it[1..i] = it[1..(i - 1)] \o seqs[i]
    BY <1>3, <2>3
  <2>5. ASSUME i = 1 PROVE it[1..(i - 1)] = base
    <3>1. 1..(i - 1) = {} /\ {} \in SUBSET (1..m)
      BY <2>5
    <3> QED
      BY <1>6, <3>1 DEF Solves
  <2> QED
    BY <1>5, <2>4, <2>5
<1>8. f = [i \in 1..m |-> IF i = 1 THEN seqs[i] ELSE f[i - 1] \o seqs[i]]
  <2>1. \A i \in 1..m : f[i] = it[1..i] /\ (i # 1 => f[i - 1] = it[1..(i - 1)])
    <3>1. \A i \in 1..m : i # 1 => i - 1 \in 1..m
      BY <1>1
    <3> QED
      BY <3>1
  <2>2. DOMAIN f = 1..m /\ f = [i \in 1..m |-> f[i]]
    OBVIOUS
  <2> HIDE DEF f
  <2>3. ASSUME NEW i \in 1..m PROVE f[i] = IF i = 1 THEN seqs[i] ELSE f[i - 1] \o seqs[i]
    <3>1. CASE i = 1
      BY <1>7, <2>1, <3>1
    <3>2. CASE i # 1
      BY <1>7, <2>1, <3>2
    <3> QED
      BY <3>1, <3>2
  <2>4. [i \in 1..m |-> f[i]] = [i \in 1..m |-> IF i = 1 THEN seqs[i] ELSE f[i - 1] \o seqs[i]]
    BY <2>3
  <2> QED
    BY <2>2, <2>4
<1> HIDE DEF f
<1> QED
  BY <1>8 DEF Concats, m

LEMMA FlattenIsConcat ==
  ASSUME NEW seqs, Len(seqs) # 0
  PROVE  FlattenSeq(seqs) = (CHOOSE f : Concats(f, seqs, Len(seqs)))[Len(seqs)]
BY DEF FlattenSeq, Concats

(* The flattened sequence is of all elements.                              *)
LEMMA FlattenOfAll ==
  ASSUME NEW X, NEW seqs \in Seq(Seq(X))
  PROVE  /\ FlattenSeq(seqs) \in Seq(X)
         /\ ToSet(FlattenSeq(seqs)) = UNION { ToSet(seqs[i]) : i \in DOMAIN seqs }
<1> DEFINE m == Len(seqs)
           f == CHOOSE g : Concats(g, seqs, m)
           Upto(j) == UNION { ToSet(seqs[i]) : i \in 1..j }
           S == { j \in 0..m : j = 0 \/ (f[j] \in Seq(X) /\ ToSet(f[j]) = Upto(j)) }
<1>1. m \in Nat /\ DOMAIN seqs = 1..m /\ \A i \in 1..m : seqs[i] \in Seq(X)
  BY ElementOfSeq, LenProperties
<1>2. Concats(f, seqs, m)
  BY ConcatsExist
<1>3. \A i \in 1..m : f[i] = IF i = 1 THEN seqs[i] ELSE f[i - 1] \o seqs[i]
  <2> HIDE DEF f
  <2> QED
    BY <1>2 DEF Concats
<1> HIDE DEF m, f
<1>4. ASSUME NEW j \in 0..(m - 1), j \in S PROVE j + 1 \in S
  <2>1. j + 1 \in 1..m /\ j + 1 \in 0..m /\ (j + 1) - 1 = j /\ (j + 1 = 1 <=> j = 0) /\ j \in Nat
    BY <1>1
  <2>2. f[j + 1] = IF j = 0 THEN seqs[j + 1] ELSE f[j] \o seqs[j + 1]
    BY <1>3, <2>1
  <2>3. seqs[j + 1] \in Seq(X)
    BY <1>1, <2>1
  <2>4. 1..(j + 1) = (1..j) \union {j + 1}
    BY <2>1
  <2>5. Upto(j + 1) = Upto(j) \union ToSet(seqs[j + 1])
    BY <2>4
  <2>6. CASE j = 0
    <3>1. 1..0 = {}
      OBVIOUS
    <3>2. Upto(j) = {}
      BY <2>6, <3>1
    <3>3. f[j + 1] \in Seq(X) /\ ToSet(f[j + 1]) = Upto(j + 1)
      BY <2>2, <2>3, <2>5, <2>6, <3>2
    <3> QED
      BY <2>1, <3>3
  <2>7. CASE j # 0
    <3>1. f[j] \in Seq(X) /\ ToSet(f[j]) = Upto(j)
      BY <1>4, <2>7
    <3>2. f[j] \o seqs[j + 1] \in Seq(X)
          /\ ToSet(f[j] \o seqs[j + 1]) = ToSet(f[j]) \union ToSet(seqs[j + 1])
      BY <2>3, <3>1, ConcatOfAll
    <3>3. f[j + 1] \in Seq(X) /\ ToSet(f[j + 1]) = Upto(j + 1)
      <4> HIDE DEF Upto
      <4> QED
        BY <2>2, <2>5, <2>7, <3>1, <3>2
    <3> QED
      BY <2>1, <3>3
  <2> QED
    BY <2>6, <2>7
<1>5. 0 \in S
  BY <1>1
<1>6. m \in S
  <2> HIDE DEF S
  <2>1. 0..m \subseteq S
    BY <1>1, <1>4, <1>5, IntervalInduction
  <2> QED
    BY <1>1, <2>1
<1>7. CASE m = 0
  <2>1. seqs = << >>
    BY <1>7, EmptySeq DEF m
  <2>2. FlattenSeq(seqs) = << >> /\ DOMAIN seqs = {}
    BY <1>1, <1>7, <2>1 DEF FlattenSeq, m
  <2>3. ToSet(<< >>) = {}
    BY DEF ToSet
  <2> QED
    BY <2>2, <2>3
<1>8. CASE m # 0
  <2>1. FlattenSeq(seqs) = f[m]
    BY <1>8, FlattenIsConcat DEF f, m
  <2> QED
    BY <1>1, <1>6, <1>8, <2>1
<1> QED
  BY <1>7, <1>8

-----------------------------------------------------------------------------
-----------------------------------------------------------------------------
(* Whole numbers.                                                          *)
LEMMA Cancel ==
  ASSUME NEW a \in Int, NEW b \in Int, NEW k \in Int, k # 0, k * a = k * b
  PROVE  a = b
<1>1. k * (a - b) = 0
  OBVIOUS
<1> QED
  BY <1>1

LEMMA CancelLess ==
  ASSUME NEW a \in Int, NEW b \in Int, NEW k \in Int, k > 0
  PROVE  k * a < k * b <=> a < b
<1>1. ASSUME a < b PROVE k * a < k * b
  <2>1. k * (b - a) > 0
    BY <1>1
  <2> QED
    BY <2>1
<1>2. ASSUME b <= a PROVE k * b <= k * a
  <2>1. k * (a - b) >= 0
    BY <1>2
  <2> QED
    BY <2>1
<1> QED
  BY <1>1, <1>2

LEMMA Quotient ==
  ASSUME NEW a \in Int, NEW b \in Nat \ {0}
  PROVE  a \div b \in Int /\ a % b \in 0 .. (b - 1) /\ a = b * (a \div b) + (a % b)
OBVIOUS

LEMMA ExactQuotient ==
  ASSUME NEW k \in Int, NEW b \in Nat \ {0}
  PROVE  (b * k) \div b = k
<1> DEFINE n == b * k
           q == n \div b
           r == n % b
<1>1. n \in Int /\ q \in Int /\ r \in 0 .. (b - 1) /\ n = b * q + r
  <2>1. n \in Int
    OBVIOUS
  <2> HIDE DEF n
  <2> QED
    BY <2>1, Quotient
<1>2. b * (k - q) = r
  BY <1>1
<1> HIDE DEF n, q, r
<1>3. k - q < 1
  <2> SUFFICES ASSUME k - q >= 1 PROVE FALSE
    BY <1>1
  <2>1. b * (k - q) >= b * 1
    <3>1. b * ((k - q) - 1) >= 0
      BY <1>1
    <3> QED
      BY <1>1, <3>1
  <2> QED
    BY <1>1, <1>2, <2>1
<1>4. k - q > -1
  <2> SUFFICES ASSUME k - q <= -1 PROVE FALSE
    BY <1>1
  <2>1. b * (k - q) <= b * (-1)
    <3>1. b * ((k - q) + 1) <= 0
      BY <1>1
    <3> QED
      BY <1>1, <3>1
  <2> QED
    BY <1>1, <1>2, <2>1
<1> QED
  BY <1>1, <1>3, <1>4 DEF q, n

Divides(d, n) == \E k \in Int : n = d * k

CommonDivisors(a, b) == { d \in Nat : Divides(d, a) /\ Divides(d, b) }

LEMMA DividesSum ==
  ASSUME NEW d \in Int, NEW a \in Int, NEW b \in Int, NEW q \in Int, NEW c \in Int,
         c = a + b * q, Divides(d, a), Divides(d, b)
  PROVE  Divides(d, c)
<1>1. PICK i \in Int, j \in Int : a = d * i /\ b = d * j
  BY DEF Divides
<1>2. d * i + (d * j) * q = d * (i + j * q)
  OBVIOUS
<1>3. i + j * q \in Int
  OBVIOUS
<1> QED
  BY <1>1, <1>2, <1>3 DEF Divides

LEMMA SameDivisors ==
  ASSUME NEW a \in Nat, NEW b \in Nat \ {0}
  PROVE  CommonDivisors(a, b) = CommonDivisors(b, a % b)
<1> DEFINE q == a \div b
           r == a % b
<1>1. q \in Int /\ r \in Nat /\ a = b * q + r
  BY Quotient
<1> HIDE DEF q, r
<1>2. ASSUME NEW d \in Nat, Divides(d, a), Divides(d, b) PROVE Divides(d, r)
  <2>1. r = a + b * (-q) /\ -q \in Int /\ b \in Int /\ d \in Int /\ a \in Int /\ r \in Int
    BY <1>1
  <2> QED
    BY <1>1, <1>2, <2>1, DividesSum
<1>3. ASSUME NEW d \in Nat, Divides(d, r), Divides(d, b) PROVE Divides(d, a)
  <2>1. a = r + b * q /\ b \in Int /\ d \in Int /\ a \in Int /\ r \in Int
    BY <1>1
  <2> QED
    BY <1>1, <1>3, <2>1, DividesSum
<1> QED
  BY <1>1, <1>2, <1>3 DEF CommonDivisors, r

(* What the recursion comes to, without recursion.                         *)
GreatestOf(S) == CHOOSE m \in S : \A d \in S : d <= m

Greatest(a, b) == IF a = 0 /\ b = 0 THEN 0 ELSE GreatestOf(CommonDivisors(a, b))

LEMMA GreatestOfZero ==
  ASSUME NEW a \in Nat
  PROVE  Greatest(a, 0) = a
<1>1. CASE a = 0
  BY <1>1 DEF Greatest
<1>2. CASE a # 0
  <2>1. a \in CommonDivisors(a, 0)
    <3>1. a = a * 1 /\ 0 = a * 0
      OBVIOUS
    <3> QED
      BY <3>1 DEF CommonDivisors, Divides
  <2>2. \A d \in CommonDivisors(a, 0) : d \in Nat /\ d <= a
    <3> SUFFICES ASSUME NEW d \in Nat, NEW k \in Int, a = d * k PROVE d <= a
      BY DEF CommonDivisors, Divides
    <3>1. k >= 1
      <4> SUFFICES ASSUME k <= 0 PROVE FALSE
        OBVIOUS
      <4>1. d * k <= 0
        <5>1. d * (-k) >= 0
          OBVIOUS
        <5> QED
          BY <5>1
      <4> QED
        BY <1>2, <4>1
    <3>2. d * (k - 1) >= 0
      BY <3>1
    <3> QED
      BY <3>2
  <2>3. \A m \in CommonDivisors(a, 0) : (\A d \in CommonDivisors(a, 0) : d <= m) <=> m = a
    BY <2>1, <2>2
  <2> QED
    BY <1>2, <2>1, <2>3 DEF Greatest, GreatestOf
<1> QED
  BY <1>1, <1>2

GcdOn(f) == f = [p \in Nat \X Nat |-> IF p[2] = 0 THEN p[1] ELSE f[<< p[2], p[1] % p[2] >>]]

LEMMA GcdIsChosen == gcd = CHOOSE f : GcdOn(f)
BY DEF gcd, GcdOn

LEMMA GcdRecurs ==
  ASSUME NEW a \in Nat, NEW b \in Nat
  PROVE  Gcd(a, b) = IF b = 0 THEN a ELSE Gcd(b, a % b)
<1> DEFINE f == [p \in Nat \X Nat |-> Greatest(p[1], p[2])]
<1>1. \A x, y \in Nat : f[x, y] = Greatest(x, y)
  OBVIOUS
<1>2. ASSUME NEW x \in Nat, NEW y \in Nat
      PROVE  Greatest(x, y) = IF y = 0 THEN x ELSE f[y, x % y]
  <2>1. CASE y = 0
    BY <2>1, GreatestOfZero
  <2>2. CASE y # 0
    <3>1. PICK r \in Nat : r = x % y
      <4>1. x % y \in 0 .. (y - 1)
        BY <2>2
      <4> QED
        BY <4>1
    <3>2. CommonDivisors(x, y) = CommonDivisors(y, r)
      BY <2>2, <3>1, SameDivisors
    <3>3. Greatest(x, y) = Greatest(y, r)
      BY <2>2, <3>2 DEF Greatest
    <3>4. f[y, r] = Greatest(y, r)
      BY <1>1
    <3> HIDE DEF f
    <3> QED
      BY <2>2, <3>1, <3>3, <3>4
  <2> QED
    BY <2>1, <2>2
<1> DEFINE next == [p \in Nat \X Nat |-> IF p[2] = 0 THEN p[1] ELSE f[<< p[2], p[1] % p[2] >>]]
<1>3. f = next
  <2>1. ASSUME NEW p \in Nat \X Nat PROVE f[p] = next[p]
    <3>1. PICK x \in Nat, y \in Nat : p = << x, y >>
      OBVIOUS
    <3>2. f[p] = Greatest(x, y) /\ next[p] = IF y = 0 THEN x ELSE f[y, x % y]
      <4> HIDE DEF f
      <4> QED
        BY <1>1, <3>1
    <3> QED
      BY <1>2, <3>2
  <2>2. f = [p \in Nat \X Nat |-> f[p]] /\ next = [p \in Nat \X Nat |-> next[p]]
    OBVIOUS
  <2> HIDE DEF f, next
  <2> QED
    BY <2>1, <2>2
<1>4. GcdOn(f)
  BY <1>3 DEF GcdOn
<1>5. GcdOn(gcd)
  BY <1>4, GcdIsChosen
<1>6. gcd = [p \in Nat \X Nat |-> IF p[2] = 0 THEN p[1] ELSE gcd[<< p[2], p[1] % p[2] >>]]
  BY <1>5 DEF GcdOn
<1>7. << a, b >> \in Nat \X Nat /\ << a, b >>[1] = a /\ << a, b >>[2] = b
  OBVIOUS
<1> QED
  BY <1>6, <1>7 DEF Gcd

(* What gcd gives: a common divisor, and a sum of multiples of the two.    *)
IsGcd(g, a, b) ==
  /\ g \in Nat /\ Divides(g, a) /\ Divides(g, b)
  /\ \E u, v \in Int : g = u * a + v * b
  /\ a # 0 \/ b # 0 => g # 0

LEMMA GcdOfRemainder ==
  ASSUME NEW a \in Nat, NEW b \in Nat \ {0}, NEW g, IsGcd(g, b, a % b)
  PROVE  IsGcd(g, a, b)
<1> DEFINE q == a \div b
           r == a % b
<1>1. q \in Int /\ r \in Int /\ a = b * q + r
  <2>1. a \in Int
    OBVIOUS
  <2>2. a \div b \in Int /\ a % b \in 0 .. (b - 1) /\ a = b * (a \div b) + (a % b)
    BY <2>1, Quotient, Zenon
  <2> HIDE DEF q, r
  <2>3. q \in Int /\ r \in 0 .. (b - 1) /\ a = b * q + r
    BY <2>2, Zenon DEF q, r
  <2> QED
    BY <2>3
<1>2. IsGcd(g, b, r)
  OBVIOUS
<1> HIDE DEF q, r
<1>3. g \in Nat /\ Divides(g, r) /\ Divides(g, b) /\ g # 0
  BY <1>2 DEF IsGcd
<1>4. a = r + b * q
  BY <1>1
<1>5. Divides(g, a)
  <2>1. g \in Int /\ a \in Int /\ b \in Int
    BY <1>3
  <2> QED
    BY <1>1, <1>3, <1>4, <2>1, DividesSum
<1>6. PICK u \in Int, v \in Int : g = u * b + v * r
  BY <1>2 DEF IsGcd
<1>7. u * b + v * (a - b * q) = v * a + (u - v * q) * b
  <2>1. b \in Int /\ a \in Int
    OBVIOUS
  <2> QED
    BY <1>1, <2>1
<1>8. r = a - b * q /\ u - v * q \in Int
  BY <1>1
<1>9. g = v * a + (u - v * q) * b
  BY <1>6, <1>7, <1>8
<1> QED
  BY <1>3, <1>5, <1>8, <1>9 DEF IsGcd

LEMMA GcdIsGcd ==
  ASSUME NEW a \in Nat, NEW b \in Nat
  PROVE  IsGcd(Gcd(a, b), a, b)
<1> DEFINE S == { n \in Nat : \A y \in 0 .. n : \A x \in Nat : IsGcd(Gcd(x, y), x, y) }
<1>1. 0 \in S
  <2> SUFFICES ASSUME NEW x \in Nat PROVE IsGcd(Gcd(x, 0), x, 0)
    OBVIOUS
  <2>1. Gcd(x, 0) = x
    BY GcdRecurs
  <2>2. Divides(x, x) /\ Divides(x, 0)
    <3>1. x = x * 1 /\ 0 = x * 0 /\ 1 \in Int /\ 0 \in Int
      OBVIOUS
    <3> QED
      BY <3>1 DEF Divides
  <2>3. \E u, v \in Int : x = u * x + v * 0
    <3>1. x = 1 * x + 0 * 0 /\ 1 \in Int /\ 0 \in Int
      OBVIOUS
    <3> QED
      BY <3>1
  <2> QED
    BY <2>1, <2>2, <2>3 DEF IsGcd
<1>2. ASSUME NEW n \in Nat, n \in S PROVE n + 1 \in S
  <2> SUFFICES ASSUME NEW y \in 0 .. (n + 1), NEW x \in Nat PROVE IsGcd(Gcd(x, y), x, y)
    OBVIOUS
  <2>1. CASE y \in 0 .. n
    BY <1>2, <2>1
  <2>2. CASE y = n + 1
    <3> DEFINE r == x % y
    <3>1. y \in Nat \ {0} /\ r \in 0 .. n
      BY <2>2
    <3> HIDE DEF r
    <3>2. IsGcd(Gcd(y, r), y, r)
      BY <1>2, <3>1
    <3>3. Gcd(x, y) = Gcd(y, r)
      BY <3>1, GcdRecurs DEF r
    <3> QED
      BY <3>1, <3>2, <3>3, GcdOfRemainder DEF r
  <2> QED
    BY <2>1, <2>2
<1> HIDE DEF S
<1>3. b \in S
  BY <1>1, <1>2, SetInduction
<1> QED
  BY <1>3 DEF S

(* A common divisor of a fraction, and what is left of the two when it is  *)
(* taken out.                                                              *)
TakenOut(g, n, d) ==
  /\ g \in Nat \ {0} /\ n \div g \in Int /\ d \div g \in Nat \ {0}
  /\ n = g * (n \div g) /\ d = g * (d \div g)

Bezout(n, d) == \E u, v \in Int : u * n + v * d = 1

LEMMA GcdTakesOut ==
  ASSUME NEW n \in Int, NEW d \in Nat \ {0}
  PROVE  /\ TakenOut(AbsGcd(n, d), n, d)
         /\ Bezout(n \div AbsGcd(n, d), d \div AbsGcd(n, d))
<1> DEFINE m == IF n < 0 THEN -n ELSE n
           g == AbsGcd(n, d)
<1>1. m \in Nat /\ (n = m \/ n = -m)
  OBVIOUS
<1>2. IsGcd(g, m, d)
  BY <1>1, GcdIsGcd DEF AbsGcd
<1> HIDE DEF g
<1>3. PICK i \in Int, j \in Int, u \in Int, v \in Int : m = g * i /\ d = g * j /\ g = u * m + v * d
  BY <1>2 DEF IsGcd, Divides
<1>4. g \in Nat \ {0}
  BY <1>2 DEF IsGcd
<1>5. PICK k \in Int, w \in Int : n = g * k /\ g = w * n + v * d
  <2>1. CASE n = m
    BY <1>3, <2>1
  <2>2. CASE n = -m
    <3>1. n = g * (-i) /\ g = (-u) * n + v * d /\ -i \in Int /\ -u \in Int
      BY <1>1, <1>3, <1>4, <2>2
    <3> QED
      BY <3>1
  <2> QED
    BY <1>1, <2>1, <2>2
<1> HIDE DEF m
<1>6. n \div g = k /\ d \div g = j
  BY <1>3, <1>4, <1>5, ExactQuotient
<1>7. j > 0
  <2> SUFFICES ASSUME j <= 0 PROVE FALSE
    OBVIOUS
  <2>1. g * (-j) >= 0
    BY <1>4
  <2> QED
    BY <1>3, <1>4, <2>1
<1>8. w * k + v * j = 1
  <2>1. g \in Int /\ g # 0
    BY <1>4
  <2>2. w * (g * k) + v * (g * j) = g * (w * k + v * j)
    BY <2>1
  <2>3. g * 1 = g * (w * k + v * j)
    BY <1>3, <1>5, <2>1, <2>2
  <2>4. w * k + v * j \in Int /\ 1 \in Int
    OBVIOUS
  <2> QED
    BY <2>1, <2>3, <2>4, Cancel
<1> QED
  <2>1. TakenOut(g, n, d)
    BY <1>3, <1>4, <1>5, <1>6, <1>7 DEF TakenOut
  <2>2. Bezout(n \div g, d \div g)
    BY <1>6, <1>8 DEF Bezout
  <2> QED
    BY <2>1, <2>2 DEF g

-----------------------------------------------------------------------------
(* Fractions.  What x stands for is n/d.                                   *)
Equals(x, n, d) == x \in Fraction /\ n \in Int /\ d \in Nat \ {0} /\ x[1] * d = n * x[2]

LEMMA ProductIsOne ==
  ASSUME NEW a \in Nat, NEW b \in Int, a * b = 1
  PROVE  a = 1 /\ b = 1
<1>1. a # 0
  BY a * b = 1
<1>2. b >= 1
  <2> SUFFICES ASSUME b <= 0 PROVE FALSE
    OBVIOUS
  <2>1. a * (-b) >= 0
    OBVIOUS
  <2> QED
    BY <2>1
<1>3. (a - 1) * (b - 1) >= 0
  BY <1>1, <1>2
<1>4. (a - 1) * (b - 1) = a * b - a - b + 1
  OBVIOUS
<1> QED
  BY <1>1, <1>2, <1>3, <1>4

LEMMA LowestMeans ==
  ASSUME NEW x \in Fraction
  PROVE  Lowest(x) <=> Bezout(x[1], x[2])
<1>1. PICK n \in Int, d \in Nat \ {0} : x = << n, d >>
  BY DEF Fraction
<1> DEFINE g == AbsGcd(n, d)
<1>2. TakenOut(g, n, d) /\ Bezout(n \div g, d \div g)
  BY GcdTakesOut
<1> HIDE DEF g
<1>3. PICK k \in Int, j \in Int : k = n \div g /\ j = d \div g
  BY <1>2 DEF TakenOut
<1>4. g \in Nat \ {0} /\ n = g * k /\ d = g * j
  BY <1>2, <1>3 DEF TakenOut
<1>5. ASSUME g = 1 PROVE Bezout(n, d)
  BY <1>2, <1>3, <1>4, <1>5
<1>6. ASSUME NEW u \in Int, NEW v \in Int, u * n + v * d = 1 PROVE g = 1
  <2>1. u * (g * k) + v * (g * j) = g * (u * k + v * j)
    BY <1>4
  <2>2. g * (u * k + v * j) = 1 /\ u * k + v * j \in Int
    BY <1>4, <1>6, <2>1
  <2> QED
    BY <1>4, <2>2, ProductIsOne
<1>7. Lowest(x) <=> g = 1
  BY <1>1 DEF Lowest, g
<1>8. Bezout(x[1], x[2]) <=> Bezout(n, d)
  BY <1>1
<1> QED
  BY <1>5, <1>6, <1>7, <1>8 DEF Bezout

(* One number has one fraction in lowest terms.                            *)
LEMMA LowestDivides ==
  ASSUME NEW n \in Int, NEW d \in Int, NEW m \in Int, NEW e \in Int, Bezout(n, d), n * e = m * d
  PROVE  Divides(d, e)
<1>1. PICK u \in Int, v \in Int : u * n + v * d = 1
  BY DEF Bezout
<1>2. (u * n + v * d) * e = u * (n * e) + d * (v * e)
  OBVIOUS
<1>3. u * (m * d) + d * (v * e) = d * (u * m + v * e)
  OBVIOUS
<1>4. e = d * (u * m + v * e) /\ u * m + v * e \in Int
  BY <1>1, <1>2, <1>3
<1> QED
  BY <1>4 DEF Divides

LEMMA OneLowest ==
  ASSUME NEW x, NEW y, Lowest(x), Lowest(y), x[1] * y[2] = y[1] * x[2]
  PROVE  x = y
<1>1. x \in Fraction /\ y \in Fraction
  BY DEF Lowest
<1>2. PICK n \in Int, d \in Nat \ {0} : x = << n, d >>
  BY <1>1 DEF Fraction
<1>3. PICK m \in Int, e \in Nat \ {0} : y = << m, e >>
  BY <1>1 DEF Fraction
<1>4. Bezout(n, d) /\ Bezout(m, e)
  <2>1. Bezout(x[1], x[2]) /\ Bezout(y[1], y[2])
    BY <1>1, LowestMeans
  <2> QED
    BY <1>2, <1>3, <2>1
<1>5. n * e = m * d
  BY <1>2, <1>3
<1>6. Divides(d, e) /\ Divides(e, d)
  <2>1. n * e = m * d /\ m * d = n * e /\ d \in Int /\ e \in Int
    BY <1>5
  <2>2. Divides(d, e)
    BY <1>4, <2>1, LowestDivides
  <2>3. Divides(e, d)
    BY <1>4, <2>1, LowestDivides
  <2> QED
    BY <2>2, <2>3
<1>7. PICK j \in Int, k \in Int : e = d * j /\ d = e * k
  BY <1>6 DEF Divides
<1>8. j * k = 1
  <2>1. d \in Int /\ d # 0
    OBVIOUS
  <2>2. (d * j) * k = d * (j * k)
    BY <2>1
  <2>3. d * 1 = d * (j * k)
    BY <1>7, <2>1, <2>2
  <2>4. j * k \in Int /\ 1 \in Int
    OBVIOUS
  <2> QED
    BY <2>1, <2>3, <2>4, Cancel
<1>9. j > 0
  <2> SUFFICES ASSUME j <= 0 PROVE FALSE
    OBVIOUS
  <2>1. d * (-j) >= 0
    OBVIOUS
  <2> QED
    BY <1>7, <2>1
<1>10. j = 1
  BY <1>8, <1>9, ProductIsOne
<1>11. d = e
  BY <1>7, <1>10
<1>12. n = m
  <2>1. d \in Int /\ d # 0 /\ d * n = d * m
    BY <1>5, <1>11
  <2> QED
    BY <2>1, Cancel
<1> QED
  BY <1>2, <1>3, <1>11, <1>12

(* A fraction is what it stands for.                                       *)
LEMMA FractionEquals ==
  ASSUME NEW x \in Fraction
  PROVE  /\ x[1] \in Int /\ x[2] \in Nat \ {0} /\ x = << x[1], x[2] >>
         /\ Equals(x, x[1], x[2])
BY DEF Equals, Fraction

(* Fractions of the same number are the same.                              *)
LEMMA SameNumber ==
  ASSUME NEW x, NEW y, Lowest(x), Lowest(y), NEW n, NEW d, NEW m, NEW e,
         Equals(x, n, d), Equals(y, m, e), n * e = m * d
  PROVE  x = y
<1>1. PICK a \in Int, b \in Int, p \in Int, q \in Int : x[1] = a /\ x[2] = b /\ y[1] = p /\ y[2] = q
  BY FractionEquals DEF Equals
<1>2. n \in Int /\ m \in Int /\ d \in Int /\ d # 0 /\ e \in Int /\ e # 0 /\ a * d = n * b /\ p * e = m * q
  BY <1>1 DEF Equals
<1>3. (d * e) * (a * q) = (d * e) * (p * b)
  <2>1. (d * e) * (a * q) = (a * d) * (e * q) /\ (n * b) * (e * q) = (n * e) * (b * q)
    BY <1>2
  <2>2. (d * e) * (p * b) = (p * e) * (d * b) /\ (m * q) * (d * b) = (m * d) * (b * q)
    BY <1>2
  <2> QED
    BY <1>2, <2>1, <2>2
<1>4. d * e \in Int /\ d * e # 0 /\ a * q \in Int /\ p * b \in Int
  BY <1>2
<1>5. a * q = p * b
  BY <1>3, <1>4, Cancel
<1> QED
  BY <1>1, <1>5, OneLowest

LEMMA ReducedEquals ==
  ASSUME NEW n \in Int, NEW d \in Nat \ {0}
  PROVE  Equals(reduced[n, d], n, d) /\ Lowest(reduced[n, d])
<1> DEFINE g == AbsGcd(n, d)
           z == << n \div g, d \div g >>
<1>1. TakenOut(g, n, d) /\ Bezout(n \div g, d \div g)
  BY GcdTakesOut
<1>2. reduced[n, d] = z
  <2>1. << n, d >> \in Fraction /\ << n, d >>[1] = n /\ << n, d >>[2] = d
    BY DEF Fraction
  <2> QED
    BY <2>1 DEF reduced
<1> HIDE DEF g
<1>3. PICK k \in Int, j \in Nat \ {0} : k = n \div g /\ j = d \div g
  BY <1>1 DEF TakenOut
<1>4. g \in Nat \ {0} /\ n = g * k /\ d = g * j /\ z = << k, j >>
  BY <1>1, <1>3 DEF TakenOut
<1>5. k * d = n * j
  <2>1. k * (g * j) = (g * k) * j
    BY <1>4
  <2> QED
    BY <1>4, <2>1
<1>6. z \in Fraction /\ z[1] = k /\ z[2] = j
  BY <1>4 DEF Fraction
<1> HIDE DEF z
<1>7. Equals(z, n, d)
  BY <1>5, <1>6 DEF Equals
<1>8. Lowest(z)
  BY <1>1, <1>3, <1>6, LowestMeans
<1> QED
  BY <1>2, <1>7, <1>8

(* The operators, for whatever numbers a fraction stands for.              *)
LEMMA PlusEquals ==
  ASSUME NEW x, NEW y, NEW n, NEW d, NEW m, NEW e, Equals(x, n, d), Equals(y, m, e)
  PROVE  Equals(plus[x, y], n * e + m * d, d * e) /\ Lowest(plus[x, y])
<1>1. x \in Fraction /\ y \in Fraction /\ n \in Int /\ m \in Int /\ d \in Nat \ {0} /\ e \in Nat \ {0}
  BY DEF Equals
<1>2. PICK a \in Int, b \in Nat \ {0} : x = << a, b >>
  BY <1>1 DEF Fraction
<1>3. PICK p \in Int, q \in Nat \ {0} : y = << p, q >>
  BY <1>1 DEF Fraction
<1>4. a * d = n * b /\ p * e = m * q
  BY <1>2, <1>3 DEF Equals
<1> DEFINE g == Gcd(b, q)
<1>5. g = AbsGcd(b, q)
  BY DEF AbsGcd
<1>6. TakenOut(g, b, q)
  BY <1>5, GcdTakesOut
<1>7. plus[x, y] = reduced[a * (q \div g) + p * (b \div g), b * (q \div g)]
  BY <1>1, <1>2, <1>3 DEF plus
<1> HIDE DEF g
<1>8. PICK j \in Int, k \in Nat \ {0} : j = b \div g /\ k = q \div g
  BY <1>6 DEF TakenOut
<1>9. g \in Nat \ {0} /\ b = g * j /\ q = g * k
  BY <1>6, <1>8 DEF TakenOut
<1> DEFINE s == a * k + p * j
           t == b * k
           z == plus[x, y]
<1>10. s \in Int /\ t \in Nat \ {0}
  BY <1>8
<1>11. Equals(z, s, t) /\ Lowest(z)
  <2>1. z = reduced[s, t]
    BY <1>7, <1>8
  <2> HIDE DEF s, t, z
  <2> QED
    BY <1>10, <2>1, ReducedEquals
<1>12. PICK c \in Int, f \in Nat \ {0} : z[1] = c /\ z[2] = f /\ z \in Fraction
  <2> HIDE DEF z
  <2> QED
    BY <1>11, FractionEquals DEF Equals
<1>13. c * (b * k) = (a * k + p * j) * f
  <2> HIDE DEF z
  <2> QED
    BY <1>11, <1>12 DEF Equals
<1>14. (b * k) * (c * (d * e)) = (b * k) * ((n * e + m * d) * f)
  <2>1. (b * k) * (c * (d * e)) = (c * (b * k)) * (d * e)
    BY <1>1
  <2>2. ((a * k + p * j) * f) * (d * e) = (a * d) * (k * (f * e)) + (p * e) * (j * (f * d))
    BY <1>1
  <2>3. q * j = b * k
    <3>1. (g * k) * j = (g * j) * k
      BY <1>9
    <3> QED
      BY <1>9, <3>1
  <2>4. (n * b) * (k * (f * e)) = (b * k) * ((n * e) * f)
    BY <1>1
  <2>5. (m * q) * (j * (f * d)) = (q * j) * ((m * d) * f)
    BY <1>1
  <2>6. (b * k) * ((n * e) * f) + (b * k) * ((m * d) * f) = (b * k) * ((n * e + m * d) * f)
    BY <1>1
  <2> QED
    BY <1>4, <1>13, <2>1, <2>2, <2>3, <2>4, <2>5, <2>6
<1>15. c * (d * e) = (n * e + m * d) * f
  <2>1. b * k \in Int /\ b * k # 0 /\ c * (d * e) \in Int /\ (n * e + m * d) * f \in Int
    BY <1>1
  <2> QED
    BY <1>14, <2>1, Cancel
<1>16. n * e + m * d \in Int /\ d * e \in Nat \ {0}
  BY <1>1
<1> HIDE DEF z
<1> QED
  BY <1>11, <1>12, <1>15, <1>16 DEF Equals, z

LEMMA BezoutProduct ==
  ASSUME NEW n \in Int, NEW m \in Int, NEW d \in Int, Bezout(n, d), Bezout(m, d)
  PROVE  Bezout(n * m, d)
<1>1. PICK u \in Int, v \in Int : u * n + v * d = 1
  BY DEF Bezout
<1>2. PICK w \in Int, t \in Int : w * m + t * d = 1
  BY DEF Bezout
<1>3. (u * n + v * d) * (w * m + t * d)
        = (u * w) * (n * m) + (u * n * t + v * (w * m) + v * d * t) * d
  OBVIOUS
<1>4. (u * w) * (n * m) + (u * n * t + v * (w * m) + v * d * t) * d = 1
  BY <1>1, <1>2, <1>3
<1>5. u * w \in Int /\ u * n * t + v * (w * m) + v * d * t \in Int
  OBVIOUS
<1> QED
  BY <1>4, <1>5 DEF Bezout

LEMMA BezoutTurned ==
  ASSUME NEW n \in Int, NEW d \in Int, Bezout(n, d)
  PROVE  Bezout(d, n) /\ Bezout(-n, d)
<1>1. PICK u \in Int, v \in Int : u * n + v * d = 1
  BY DEF Bezout
<1>2. v * d + u * n = 1 /\ (-u) * (-n) + v * d = 1 /\ -u \in Int
  BY <1>1
<1> QED
  BY <1>2 DEF Bezout

LEMMA BezoutOfParts ==
  ASSUME NEW n \in Int, NEW d \in Int, NEW g \in Int, NEW h \in Int, Bezout(g * n, h * d)
  PROVE  Bezout(n, d)
<1>1. PICK u \in Int, v \in Int : u * (g * n) + v * (h * d) = 1
  BY DEF Bezout
<1>2. (u * g) * n + (v * h) * d = u * (g * n) + v * (h * d) /\ u * g \in Int /\ v * h \in Int
  OBVIOUS
<1> QED
  BY <1>1, <1>2 DEF Bezout

LEMMA TimesEquals ==
  ASSUME NEW x, NEW y, NEW n, NEW d, NEW m, NEW e, Equals(x, n, d), Equals(y, m, e)
  PROVE  /\ Equals(times[x, y], n * m, d * e)
         /\ Lowest(x) /\ Lowest(y) => Lowest(times[x, y])
<1>1. x \in Fraction /\ y \in Fraction /\ n \in Int /\ m \in Int /\ d \in Nat \ {0} /\ e \in Nat \ {0}
  BY DEF Equals
<1>2. PICK a \in Int, b \in Nat \ {0} : x = << a, b >>
  BY <1>1 DEF Fraction
<1>3. PICK p \in Int, q \in Nat \ {0} : y = << p, q >>
  BY <1>1 DEF Fraction
<1>4. a * d = n * b /\ p * e = m * q
  BY <1>2, <1>3 DEF Equals
<1> DEFINE g == AbsGcd(a, q)
           h == AbsGcd(p, b)
           z == times[x, y]
<1>5. /\ TakenOut(g, a, q) /\ Bezout(a \div g, q \div g)
      /\ TakenOut(h, p, b) /\ Bezout(p \div h, b \div h)
  BY GcdTakesOut
<1>6. z = << (a \div g) * (p \div h), (b \div h) * (q \div g) >>
  BY <1>1, <1>2, <1>3 DEF times
<1> HIDE DEF g, h, z
<1>7. PICK i \in Int, j \in Nat \ {0}, k \in Int, l \in Nat \ {0} :
        i = a \div g /\ j = q \div g /\ k = p \div h /\ l = b \div h
  BY <1>5 DEF TakenOut
<1>8. g \in Nat \ {0} /\ h \in Nat \ {0} /\ a = g * i /\ q = g * j /\ p = h * k /\ b = h * l
  BY <1>5, <1>7 DEF TakenOut
<1>9. z = << i * k, l * j >> /\ Bezout(i, j) /\ Bezout(k, l)
  BY <1>5, <1>6, <1>7
<1>10. (g * h) * ((i * k) * (d * e)) = (g * h) * ((n * m) * (l * j))
  <2>1. (g * h) * ((i * k) * (d * e)) = ((g * i) * d) * ((h * k) * e)
    BY <1>1, <1>8
  <2>2. (n * (h * l)) * (m * (g * j)) = (g * h) * ((n * m) * (l * j))
    BY <1>1, <1>8
  <2> QED
    BY <1>4, <1>8, <2>1, <2>2
<1>11. (i * k) * (d * e) = (n * m) * (l * j)
  <2>1. g * h \in Int /\ g * h # 0 /\ (i * k) * (d * e) \in Int /\ (n * m) * (l * j) \in Int
    BY <1>1, <1>8
  <2> QED
    BY <1>10, <2>1, Cancel
<1>12. i * k \in Int /\ l * j \in Nat \ {0} /\ n * m \in Int /\ d * e \in Nat \ {0}
  BY <1>1
<1>13. z \in Fraction /\ z[1] = i * k /\ z[2] = l * j
  BY <1>9, <1>12 DEF Fraction
<1>14. Equals(z, n * m, d * e)
  BY <1>11, <1>12, <1>13 DEF Equals
<1>15. ASSUME Lowest(x), Lowest(y) PROVE Lowest(z)
  <2>1. Bezout(a, b) /\ Bezout(p, q)
    <3>1. Bezout(x[1], x[2]) /\ Bezout(y[1], y[2])
      BY <1>1, <1>15, LowestMeans
    <3> QED
      BY <1>2, <1>3, <3>1
  <2>2. Bezout(i, l) /\ Bezout(k, j)
    <3>1. Bezout(g * i, h * l) /\ Bezout(h * k, g * j)
      BY <1>8, <2>1
    <3>2. g \in Int /\ h \in Int /\ i \in Int /\ j \in Int /\ k \in Int /\ l \in Int
      BY <1>8
    <3>3. Bezout(i, l)
      BY <3>1, <3>2, BezoutOfParts, Zenon
    <3>4. Bezout(k, j)
      BY <3>1, <3>2, BezoutOfParts, Zenon
    <3> QED
      BY <3>3, <3>4
  <2>3. Bezout(i * k, l) /\ Bezout(i * k, j)
    BY <1>9, <2>2, BezoutProduct
  <2>4. Bezout(l, i * k) /\ Bezout(j, i * k)
    BY <1>12, <2>3, BezoutTurned
  <2>5. Bezout(l * j, i * k)
    BY <1>12, <2>4, BezoutProduct
  <2>6. Bezout(i * k, l * j)
    BY <1>12, <2>5, BezoutTurned
  <2> QED
    BY <1>13, <2>6, LowestMeans
<1> QED
  BY <1>14, <1>15 DEF z

LEMMA LessEquals ==
  ASSUME NEW x, NEW y, NEW n, NEW d, NEW m, NEW e, Equals(x, n, d), Equals(y, m, e)
  PROVE  Less(x, y) <=> n * e < m * d
<1>1. x \in Fraction /\ y \in Fraction /\ n \in Int /\ m \in Int /\ d \in Nat \ {0} /\ e \in Nat \ {0}
  BY DEF Equals
<1>2. PICK a \in Int, b \in Nat \ {0} : x = << a, b >>
  BY <1>1 DEF Fraction
<1>3. PICK p \in Int, q \in Nat \ {0} : y = << p, q >>
  BY <1>1 DEF Fraction
<1>4. a * d = n * b /\ p * e = m * q
  BY <1>2, <1>3 DEF Equals
<1> DEFINE g == Gcd(b, q)
<1>5. g = AbsGcd(b, q)
  BY DEF AbsGcd
<1>6. TakenOut(g, b, q)
  BY <1>5, GcdTakesOut
<1>7. Less(x, y) <=> a * (q \div g) < p * (b \div g)
  BY <1>2, <1>3 DEF Less
<1> HIDE DEF g
<1>8. PICK j \in Int, k \in Int : j = b \div g /\ k = q \div g
  BY <1>6 DEF TakenOut
<1>9. g \in Nat \ {0} /\ b = g * j /\ q = g * k
  BY <1>6, <1>8 DEF TakenOut
<1>10. Less(x, y) <=> a * k < p * j
  BY <1>7, <1>8
<1>11. a * k < p * j <=> (g * (d * e)) * (a * k) < (g * (d * e)) * (p * j)
  <2>1. g * (d * e) \in Int /\ g * (d * e) > 0 /\ a * k \in Int /\ p * j \in Int
    BY <1>1, <1>9
  <2> QED
    BY <2>1, CancelLess
<1>12. n * e < m * d <=> (b * q) * (n * e) < (b * q) * (m * d)
  <2>1. b * q \in Int /\ b * q > 0 /\ n * e \in Int /\ m * d \in Int
    BY <1>1
  <2> QED
    BY <2>1, CancelLess
<1>13. (g * (d * e)) * (a * k) = (b * q) * (n * e)
  <2>1. (g * (d * e)) * (a * k) = (g * k) * ((a * d) * e)
    BY <1>1, <1>9
  <2>2. q * ((n * b) * e) = (b * q) * (n * e)
    BY <1>1
  <2> QED
    BY <1>4, <1>9, <2>1, <2>2
<1>14. (g * (d * e)) * (p * j) = (b * q) * (m * d)
  <2>1. (g * (d * e)) * (p * j) = (g * j) * ((p * e) * d)
    BY <1>1, <1>9
  <2>2. b * ((m * q) * d) = (b * q) * (m * d)
    BY <1>1
  <2> QED
    BY <1>4, <1>9, <2>1, <2>2
<1> QED
  BY <1>10, <1>11, <1>12, <1>13, <1>14

LEMMA MinusEquals ==
  ASSUME NEW x, NEW n, NEW d, Equals(x, n, d)
  PROVE  Equals(Minus(x), -n, d) /\ (Lowest(x) => Lowest(Minus(x)))
<1>1. x \in Fraction /\ n \in Int /\ d \in Nat \ {0}
  BY DEF Equals
<1>2. PICK a \in Int, b \in Nat \ {0} : x = << a, b >>
  BY <1>1 DEF Fraction
<1>3. Minus(x) = << -a, b >> /\ << -a, b >> \in Fraction
  BY <1>2 DEF Minus, Fraction
<1>4. (-a) * d = (-n) * b
  <2>1. a * d = n * b
    BY <1>2 DEF Equals
  <2>2. (-a) * d = -(a * d) /\ (-n) * b = -(n * b)
    BY <1>1
  <2> QED
    BY <2>1, <2>2
<1>5. ASSUME Lowest(x) PROVE Lowest(Minus(x))
  <2>1. Bezout(a, b)
    <3>1. Bezout(x[1], x[2])
      BY <1>1, <1>5, LowestMeans
    <3> QED
      BY <1>2, <3>1
  <2>2. Bezout(-a, b)
    BY <2>1, BezoutTurned
  <2> QED
    BY <1>3, <2>2, LowestMeans
<1> QED
  BY <1>1, <1>3, <1>4, <1>5 DEF Equals

LEMMA WholeEquals ==
  ASSUME NEW k \in Int
  PROVE  Equals(<< k, 1 >>, k, 1) /\ Lowest(<< k, 1 >>)
<1>1. << k, 1 >> \in Fraction
  BY DEF Fraction
<1>2. Bezout(k, 1)
  <2>1. 0 * k + 1 * 1 = 1 /\ 0 \in Int /\ 1 \in Int
    OBVIOUS
  <2> QED
    BY <2>1 DEF Bezout
<1> QED
  BY <1>1, <1>2, LowestMeans DEF Equals

LEMMA DividedByEquals ==
  ASSUME NEW x, NEW y, NEW n, NEW d, NEW m, NEW e, Equals(x, n, d), Equals(y, m, e)
  PROVE  /\ m > 0 => Equals(DividedBy(x, y), n * e, d * m)
         /\ m < 0 => Equals(DividedBy(x, y), n * (-e), d * (-m))
         /\ m # 0 /\ Lowest(x) /\ Lowest(y) => Lowest(DividedBy(x, y))
<1>1. y \in Fraction /\ n \in Int /\ m \in Int /\ d \in Nat \ {0} /\ e \in Nat \ {0}
  BY DEF Equals
<1>2. PICK p \in Int, q \in Nat \ {0} : y = << p, q >>
  BY <1>1 DEF Fraction
<1>3. p * e = m * q
  BY <1>2 DEF Equals
<1>4. (p > 0 <=> m > 0) /\ (p < 0 <=> m < 0)
  <2>1. (e * 0 < e * p <=> 0 < p) /\ (e * p < e * 0 <=> p < 0)
    BY <1>1, CancelLess
  <2>2. (q * 0 < q * m <=> 0 < m) /\ (q * m < q * 0 <=> m < 0)
    BY <1>1, CancelLess
  <2>3. e * 0 = 0 /\ q * 0 = 0 /\ e * p = q * m
    BY <1>1, <1>3
  <2> QED
    BY <1>1, <2>1, <2>2, <2>3
<1>5. Lowest(y) => Bezout(p, q)
  BY <1>1, <1>2, LowestMeans
<1>6. CASE p > 0
  <2> DEFINE r == << q, p >>
  <2>1. DividedBy(x, y) = times[x, r] /\ r \in Fraction /\ r[1] = q /\ r[2] = p
    BY <1>2, <1>6 DEF DividedBy, Over, Fraction
  <2> HIDE DEF r
  <2>2. q * m = e * p /\ m \in Nat \ {0} /\ e \in Int
    BY <1>1, <1>3, <1>4, <1>6
  <2>3. Equals(r, e, m)
    BY <2>1, <2>2 DEF Equals
  <2>4. Lowest(y) => Lowest(r)
    <3> SUFFICES ASSUME Lowest(y) PROVE Lowest(r)
      OBVIOUS
    <3>1. Bezout(q, p)
      BY <1>2, <1>5, BezoutTurned
    <3>2. Bezout(r[1], r[2])
      BY <2>1, <3>1
    <3> QED
      BY <2>1, <3>2, LowestMeans
  <2>5. /\ Equals(times[x, r], n * e, d * m)
        /\ Lowest(x) /\ Lowest(r) => Lowest(times[x, r])
    BY <2>3, TimesEquals
  <2>6. ~(m < 0)
    BY <1>4, <1>6
  <2> QED
    BY <2>1, <2>4, <2>5, <2>6
<1>7. CASE p < 0
  <2> DEFINE r == << -q, -p >>
  <2>1. DividedBy(x, y) = times[x, r] /\ r \in Fraction /\ r[1] = -q /\ r[2] = -p
    <3>1. ~(y[1] > 0) /\ y[1] = p /\ y[2] = q
      BY <1>2, <1>7
    <3>2. DividedBy(x, y) = times[x, r]
      BY <3>1 DEF DividedBy
    <3>3. -q \in Int /\ -p \in Nat \ {0}
      BY <1>2, <1>7
    <3> QED
      BY <3>2, <3>3 DEF Fraction
  <2> HIDE DEF r
  <2>2. (-q) * (-m) = (-e) * (-p) /\ -m \in Nat \ {0} /\ -e \in Int
    <3>1. (-q) * (-m) = m * q /\ (-e) * (-p) = p * e
      BY <1>1
    <3> QED
      BY <1>1, <1>3, <1>4, <1>7, <3>1
  <2>3. Equals(r, -e, -m)
    BY <2>1, <2>2 DEF Equals
  <2>4. Lowest(y) => Lowest(r)
    <3>1. Bezout(p, q) => Bezout(-q, -p)
      <4> SUFFICES ASSUME Bezout(p, q) PROVE Bezout(-q, -p)
        OBVIOUS
      <4>1. Bezout(-p, q) /\ -p \in Int /\ q \in Int
        BY BezoutTurned
      <4>2. Bezout(q, -p)
        BY <4>1, BezoutTurned
      <4> QED
        BY <4>1, <4>2, BezoutTurned
    <3>2. Bezout(-q, -p) => Bezout(r[1], r[2])
      BY <2>1
    <3> QED
      BY <1>5, <2>1, <3>1, <3>2, LowestMeans
  <2>5. /\ Equals(times[x, r], n * (-e), d * (-m))
        /\ Lowest(x) /\ Lowest(r) => Lowest(times[x, r])
    BY <2>3, TimesEquals
  <2>6. ~(m > 0)
    BY <1>4, <1>7
  <2> QED
    BY <2>1, <2>4, <2>5, <2>6
<1>8. CASE p = 0
  BY <1>1, <1>4, <1>8
<1> QED
  BY <1>2, <1>6, <1>7, <1>8

(* The order of fractions is the order of what they stand for.             *)
LEMMA LessMeans ==
  ASSUME NEW x \in Fraction, NEW y \in Fraction
  PROVE  Less(x, y) <=> x[1] * y[2] < y[1] * x[2]
<1>1. Equals(x, x[1], x[2]) /\ Equals(y, y[1], y[2])
  BY FractionEquals
<1> QED
  BY <1>1, LessEquals

LEMMA LessIsStrict ==
  ASSUME NEW x \in Fraction, NEW y \in Fraction
  PROVE  ~Less(x, x) /\ (Less(x, y) => ~Less(y, x))
<1>1. PICK a \in Int, b \in Nat \ {0} : x = << a, b >>
  BY DEF Fraction
<1>2. PICK c \in Int, d \in Nat \ {0} : y = << c, d >>
  BY DEF Fraction
<1>3. (Less(x, x) <=> a * b < a * b) /\ (Less(x, y) <=> a * d < c * b) /\ (Less(y, x) <=> c * b < a * d)
  BY <1>1, <1>2, LessMeans
<1>4. a * b \in Int /\ a * d \in Int /\ c * b \in Int
  OBVIOUS
<1> QED
  BY <1>3, <1>4

LEMMA Transitive ==
  ASSUME NEW a \in Int, NEW b \in Int, NEW c \in Int, NEW d \in Int, NEW e \in Int, NEW f \in Int,
         b > 0, d > 0, f > 0, a * d <= c * b, c * f <= e * d
  PROVE  a * f <= e * b
<1>1. b * (e * d) < b * (c * f) <=> e * d < c * f
  <2>1. e * d \in Int /\ c * f \in Int
    OBVIOUS
  <2> QED
    BY <2>1, CancelLess
<1>2. f * (c * b) < f * (a * d) <=> c * b < a * d
  <2>1. c * b \in Int /\ a * d \in Int
    OBVIOUS
  <2> QED
    BY <2>1, CancelLess
<1>3. d * (e * b) < d * (a * f) <=> e * b < a * f
  <2>1. e * b \in Int /\ a * f \in Int
    OBVIOUS
  <2> QED
    BY <2>1, CancelLess
<1>4. b * (c * f) = f * (c * b) /\ d * (e * b) = b * (e * d) /\ d * (a * f) = f * (a * d)
  OBVIOUS
<1>5. a * d \in Int /\ c * b \in Int /\ c * f \in Int /\ e * d \in Int /\ a * f \in Int /\ e * b \in Int
      /\ b * (c * f) \in Int /\ b * (e * d) \in Int /\ f * (a * d) \in Int
  OBVIOUS
<1> QED
  BY <1>1, <1>2, <1>3, <1>4, <1>5

LEMMA NotLessTransitive ==
  ASSUME NEW x \in Fraction, NEW y \in Fraction, NEW z \in Fraction, ~Less(y, x), ~Less(z, y)
  PROVE  ~Less(z, x)
<1>1. PICK a \in Int, b \in Nat \ {0} : x = << a, b >>
  BY DEF Fraction
<1>2. PICK c \in Int, d \in Nat \ {0} : y = << c, d >>
  BY DEF Fraction
<1>3. PICK e \in Int, f \in Nat \ {0} : z = << e, f >>
  BY DEF Fraction
<1>4. (Less(y, x) <=> c * b < a * d) /\ (Less(z, y) <=> e * d < c * f) /\ (Less(z, x) <=> e * b < a * f)
  BY <1>1, <1>2, <1>3, LessMeans
<1>5. a * d \in Int /\ c * b \in Int /\ c * f \in Int /\ e * d \in Int /\ a * f \in Int /\ e * b \in Int
  OBVIOUS
<1>6. a * d <= c * b /\ c * f <= e * d
  BY <1>4, <1>5
<1>7. a * f <= e * b
  <2>1. b > 0 /\ d > 0 /\ f > 0 /\ b \in Int /\ d \in Int /\ f \in Int
    OBVIOUS
  <2> QED
    BY <1>6, <2>1, Transitive
<1> QED
  BY <1>4, <1>5, <1>7

LEMMA InFraction ==
  ASSUME NEW x \in Fraction, NEW y \in Fraction
  PROVE  /\ plus[x, y] \in Fraction /\ times[x, y] \in Fraction /\ Minus(x) \in Fraction
         /\ Lowest(plus[x, y])
         /\ Lowest(x) /\ Lowest(y) => Lowest(times[x, y])
         /\ Lowest(x) => Lowest(Minus(x))
<1>1. Equals(x, x[1], x[2]) /\ Equals(y, y[1], y[2])
  BY FractionEquals
<1> QED
  BY <1>1, PlusEquals, TimesEquals, MinusEquals DEF Equals

(* Multiplication with what is not negative keeps the order.               *)
LEMMA TimesKeepsOrder ==
  ASSUME NEW x \in Fraction, NEW y \in Fraction, NEW k \in Fraction, ~Less(y, x), k[1] >= 0
  PROVE  ~Less(times[y, k], times[x, k]) /\ ~Less(times[k, y], times[k, x])
<1>1. PICK a \in Int, b \in Nat \ {0} : x = << a, b >>
  BY DEF Fraction
<1>2. PICK c \in Int, d \in Nat \ {0} : y = << c, d >>
  BY DEF Fraction
<1>3. PICK e \in Int, f \in Nat \ {0} : k = << e, f >> /\ e >= 0
  BY DEF Fraction
<1>4. Equals(x, a, b) /\ Equals(y, c, d) /\ Equals(k, e, f)
  BY <1>1, <1>2, <1>3 DEF Equals
<1>5. /\ Equals(times[x, k], a * e, b * f) /\ Equals(times[y, k], c * e, d * f)
      /\ Equals(times[k, x], e * a, f * b) /\ Equals(times[k, y], e * c, f * d)
  BY <1>4, TimesEquals
<1>6. /\ Less(times[y, k], times[x, k]) <=> (c * e) * (b * f) < (a * e) * (d * f)
      /\ Less(times[k, y], times[k, x]) <=> (e * c) * (f * b) < (e * a) * (f * d)
  BY <1>5, LessEquals
<1>7. a * d <= c * b
  <2>1. ~(c * b < a * d) /\ a * d \in Int /\ c * b \in Int
    BY <1>1, <1>2, LessMeans
  <2> QED
    BY <2>1
<1>8. (e * f) * (a * d) <= (e * f) * (c * b)
  <2>1. e * f >= 0 /\ e * f \in Int
    BY <1>3
  <2>2. a * d \in Int /\ c * b \in Int
    OBVIOUS
  <2>3. CASE e * f = 0
    BY <2>2, <2>3
  <2>4. CASE e * f > 0
    <3>1. (e * f) * (c * b) < (e * f) * (a * d) <=> c * b < a * d
      BY <2>1, <2>2, <2>4, CancelLess
    <3>2. (e * f) * (c * b) \in Int /\ (e * f) * (a * d) \in Int
      BY <2>1, <2>2
    <3> QED
      BY <1>7, <2>2, <3>1, <3>2
  <2> QED
    BY <2>1, <2>3, <2>4
<1>9. /\ (c * e) * (b * f) = (e * f) * (c * b) /\ (a * e) * (d * f) = (e * f) * (a * d)
      /\ (e * c) * (f * b) = (e * f) * (c * b) /\ (e * a) * (f * d) = (e * f) * (a * d)
  BY <1>3
<1>10. (e * f) * (c * b) \in Int /\ (e * f) * (a * d) \in Int
  BY <1>3
<1>11. ~((c * e) * (b * f) < (a * e) * (d * f))
  BY <1>8, <1>9, <1>10
<1>12. ~((e * c) * (f * b) < (e * a) * (f * d))
  BY <1>8, <1>9, <1>10
<1> QED
  BY <1>6, <1>11, <1>12

LEMMA Turned ==
  ASSUME NEW x \in Fraction, NEW y \in Fraction
  PROVE  ~Less(times[x, y], times[y, x])
<1>1. PICK a \in Int, b \in Nat \ {0} : x = << a, b >>
  BY DEF Fraction
<1>2. PICK c \in Int, d \in Nat \ {0} : y = << c, d >>
  BY DEF Fraction
<1>3. Equals(x, a, b) /\ Equals(y, c, d)
  BY <1>1, <1>2 DEF Equals
<1>4. Equals(times[x, y], a * c, b * d) /\ Equals(times[y, x], c * a, d * b)
  BY <1>3, TimesEquals
<1>5. Less(times[x, y], times[y, x]) <=> (a * c) * (d * b) < (c * a) * (b * d)
  BY <1>4, LessEquals
<1>6. ~((a * c) * (d * b) < (c * a) * (b * d))
  OBVIOUS
<1> QED
  BY <1>5, <1>6

LEMMA ByOne ==
  ASSUME NEW x \in Fraction
  PROVE  ~Less(times[x, One], x) /\ ~Less(x, times[x, One])
<1>1. PICK a \in Int, b \in Nat \ {0} : x = << a, b >>
  BY DEF Fraction
<1>2. Equals(x, a, b) /\ Equals(One, 1, 1)
  BY <1>1 DEF Equals, One, Fraction
<1>3. Equals(times[x, One], a * 1, b * 1)
  BY <1>2, TimesEquals
<1>4. /\ Less(times[x, One], x) <=> (a * 1) * b < a * (b * 1)
      /\ Less(x, times[x, One]) <=> a * (b * 1) < (a * 1) * b
  BY <1>2, <1>3, LessEquals
<1>5. ~((a * 1) * b < a * (b * 1)) /\ ~(a * (b * 1) < (a * 1) * b)
  OBVIOUS
<1> QED
  BY <1>4, <1>5

LEMMA NotNegative ==
  ASSUME NEW x \in Fraction
  PROVE  x[1] >= 0 <=> ~Less(x, Zero)
<1>1. PICK a \in Int, b \in Nat \ {0} : x = << a, b >>
  BY DEF Fraction
<1>2. Zero \in Fraction /\ Zero[1] = 0 /\ Zero[2] = 1
  BY DEF Zero, Fraction
<1>3. Less(x, Zero) <=> a * 1 < 0 * b
  BY <1>1, <1>2, LessMeans
<1> QED
  BY <1>1, <1>3

LEMMA TimesMonotone ==
  ASSUME NEW x \in Fraction, NEW y \in Fraction, NEW k \in Fraction, NEW l \in Fraction,
         ~Less(y, x), ~Less(l, k), x[1] >= 0, k[1] >= 0
  PROVE  ~Less(times[y, l], times[k, x])
<1>1. Zero \in Fraction
  BY DEF Zero, Fraction
<1>2. y[1] >= 0
  <2>1. ~Less(x, Zero)
    BY NotNegative
  <2>2. ~Less(y, Zero)
    BY <1>1, <2>1, NotLessTransitive
  <2> QED
    BY <2>2, NotNegative
<1>3. ~Less(times[k, y], times[k, x])
  BY TimesKeepsOrder
<1>4. ~Less(times[y, k], times[k, y])
  BY Turned
<1>5. ~Less(times[y, l], times[y, k])
  BY <1>2, TimesKeepsOrder
<1>6. times[k, x] \in Fraction /\ times[k, y] \in Fraction /\ times[y, k] \in Fraction /\ times[y, l] \in Fraction
  BY InFraction
<1>7. ~Less(times[y, k], times[k, x])
  BY <1>3, <1>4, <1>6, NotLessTransitive
<1> QED
  BY <1>5, <1>6, <1>7, NotLessTransitive

-----------------------------------------------------------------------------
(* The laws of arithmetic, for fractions in lowest terms.                  *)
LEMMA ConstantsLowest ==
  /\ Lowest(Zero) /\ Equals(Zero, 0, 1) /\ Lowest(One) /\ Equals(One, 1, 1)
  /\ Zero \in Fraction /\ One \in Fraction
<1>1. Zero = << 0, 1 >> /\ One = << 1, 1 >>
  BY DEF Zero, One
<1>2. Zero \in Fraction /\ One \in Fraction
  BY <1>1 DEF Fraction
<1> QED
  BY <1>1, <1>2, WholeEquals

LEMMA PlusCommutes ==
  ASSUME NEW x \in Fraction, NEW y \in Fraction
  PROVE  plus[x, y] = plus[y, x]
<1>1. PICK a \in Int, b \in Nat \ {0} : a = x[1] /\ b = x[2]
  BY FractionEquals
<1>2. PICK c \in Int, d \in Nat \ {0} : c = y[1] /\ d = y[2]
  BY FractionEquals
<1>3. Equals(x, a, b) /\ Equals(y, c, d)
  BY <1>1, <1>2, FractionEquals
<1>4. Equals(plus[x, y], a * d + c * b, b * d) /\ Equals(plus[y, x], c * b + a * d, d * b)
      /\ Lowest(plus[x, y]) /\ Lowest(plus[y, x])
  BY <1>3, PlusEquals
<1>5. (a * d + c * b) * (d * b) = (c * b + a * d) * (b * d)
  OBVIOUS
<1> QED
  BY <1>4, <1>5, SameNumber

LEMMA TimesCommutes ==
  ASSUME NEW x \in Fraction, NEW y \in Fraction, Lowest(x), Lowest(y)
  PROVE  times[x, y] = times[y, x]
<1>1. PICK a \in Int, b \in Nat \ {0} : a = x[1] /\ b = x[2]
  BY FractionEquals
<1>2. PICK c \in Int, d \in Nat \ {0} : c = y[1] /\ d = y[2]
  BY FractionEquals
<1>3. Equals(x, a, b) /\ Equals(y, c, d)
  BY <1>1, <1>2, FractionEquals
<1>4. Equals(times[x, y], a * c, b * d) /\ Equals(times[y, x], c * a, d * b)
      /\ Lowest(times[x, y]) /\ Lowest(times[y, x])
  BY <1>3, TimesEquals
<1>5. (a * c) * (d * b) = (c * a) * (b * d)
  OBVIOUS
<1> QED
  BY <1>4, <1>5, SameNumber

LEMMA TimesAssociates ==
  ASSUME NEW x \in Fraction, NEW y \in Fraction, NEW z \in Fraction, Lowest(x), Lowest(y), Lowest(z)
  PROVE  times[times[x, y], z] = times[x, times[y, z]]
<1>1. PICK a \in Int, b \in Nat \ {0} : a = x[1] /\ b = x[2]
  BY FractionEquals
<1>2. PICK c \in Int, d \in Nat \ {0} : c = y[1] /\ d = y[2]
  BY FractionEquals
<1>3. PICK e \in Int, f \in Nat \ {0} : e = z[1] /\ f = z[2]
  BY FractionEquals
<1>4. Equals(x, a, b) /\ Equals(y, c, d) /\ Equals(z, e, f)
  BY <1>1, <1>2, <1>3, FractionEquals
<1>5. Equals(times[x, y], a * c, b * d) /\ Equals(times[y, z], c * e, d * f)
      /\ Lowest(times[x, y]) /\ Lowest(times[y, z])
  BY <1>4, TimesEquals
<1>6. Equals(times[times[x, y], z], (a * c) * e, (b * d) * f) /\ Lowest(times[times[x, y], z])
  BY <1>4, <1>5, TimesEquals
<1>7. Equals(times[x, times[y, z]], a * (c * e), b * (d * f)) /\ Lowest(times[x, times[y, z]])
  BY <1>4, <1>5, TimesEquals
<1>8. ((a * c) * e) * (b * (d * f)) = (a * (c * e)) * ((b * d) * f)
  OBVIOUS
<1> QED
  BY <1>6, <1>7, <1>8, SameNumber

LEMMA PlusAssociates ==
  ASSUME NEW x \in Fraction, NEW y \in Fraction, NEW z \in Fraction
  PROVE  plus[plus[x, y], z] = plus[x, plus[y, z]]
<1>1. PICK a \in Int, b \in Nat \ {0} : a = x[1] /\ b = x[2]
  BY FractionEquals
<1>2. PICK c \in Int, d \in Nat \ {0} : c = y[1] /\ d = y[2]
  BY FractionEquals
<1>3. PICK e \in Int, f \in Nat \ {0} : e = z[1] /\ f = z[2]
  BY FractionEquals
<1>4. Equals(x, a, b) /\ Equals(y, c, d) /\ Equals(z, e, f)
  BY <1>1, <1>2, <1>3, FractionEquals
<1>5. Equals(plus[x, y], a * d + c * b, b * d) /\ Equals(plus[y, z], c * f + e * d, d * f)
  BY <1>4, PlusEquals
<1>6. Equals(plus[plus[x, y], z], (a * d + c * b) * f + e * (b * d), (b * d) * f) /\ Lowest(plus[plus[x, y], z])
  BY <1>4, <1>5, PlusEquals
<1>7. Equals(plus[x, plus[y, z]], a * (d * f) + (c * f + e * d) * b, b * (d * f)) /\ Lowest(plus[x, plus[y, z]])
  BY <1>4, <1>5, PlusEquals
<1>8. ((a * d + c * b) * f + e * (b * d)) * (b * (d * f)) = (a * (d * f) + (c * f + e * d) * b) * ((b * d) * f)
  OBVIOUS
<1> QED
  BY <1>6, <1>7, <1>8, SameNumber

LEMMA Distributes ==
  ASSUME NEW x \in Fraction, NEW y \in Fraction, NEW z \in Fraction, Lowest(z)
  PROVE  times[plus[x, y], z] = plus[times[x, z], times[y, z]]
<1>1. PICK a \in Int, b \in Nat \ {0} : a = x[1] /\ b = x[2]
  BY FractionEquals
<1>2. PICK c \in Int, d \in Nat \ {0} : c = y[1] /\ d = y[2]
  BY FractionEquals
<1>3. PICK e \in Int, f \in Nat \ {0} : e = z[1] /\ f = z[2]
  BY FractionEquals
<1>4. Equals(x, a, b) /\ Equals(y, c, d) /\ Equals(z, e, f)
  BY <1>1, <1>2, <1>3, FractionEquals
<1>5. Equals(plus[x, y], a * d + c * b, b * d) /\ Lowest(plus[x, y])
      /\ Equals(times[x, z], a * e, b * f) /\ Equals(times[y, z], c * e, d * f)
  BY <1>4, PlusEquals, TimesEquals
<1>6. Equals(times[plus[x, y], z], (a * d + c * b) * e, (b * d) * f) /\ Lowest(times[plus[x, y], z])
  BY <1>4, <1>5, TimesEquals
<1>7. Equals(plus[times[x, z], times[y, z]], (a * e) * (d * f) + (c * e) * (b * f), (b * f) * (d * f))
      /\ Lowest(plus[times[x, z], times[y, z]])
  BY <1>5, PlusEquals
<1>8. ((a * d + c * b) * e) * ((b * f) * (d * f)) = ((a * e) * (d * f) + (c * e) * (b * f)) * ((b * d) * f)
  OBVIOUS
<1> QED
  BY <1>6, <1>7, <1>8, SameNumber

LEMMA OneIsNeutral ==
  ASSUME NEW x \in Fraction, Lowest(x)
  PROVE  times[x, One] = x
<1>1. PICK a \in Int, b \in Nat \ {0} : a = x[1] /\ b = x[2]
  BY FractionEquals
<1>2. Equals(x, a, b)
  BY <1>1, FractionEquals
<1>3. Equals(times[x, One], a * 1, b * 1) /\ Lowest(times[x, One])
  BY <1>2, ConstantsLowest, TimesEquals
<1>4. (a * 1) * b = a * (b * 1)
  OBVIOUS
<1> QED
  BY <1>2, <1>3, <1>4, SameNumber

LEMMA ZeroIsNeutral ==
  ASSUME NEW x \in Fraction, Lowest(x)
  PROVE  plus[x, Zero] = x /\ times[x, Zero] = Zero
<1>1. PICK a \in Int, b \in Nat \ {0} : a = x[1] /\ b = x[2]
  BY FractionEquals
<1>2. Equals(x, a, b)
  BY <1>1, FractionEquals
<1>3. Equals(plus[x, Zero], a * 1 + 0 * b, b * 1) /\ Lowest(plus[x, Zero])
  BY <1>2, ConstantsLowest, PlusEquals
<1>4. Equals(times[x, Zero], a * 0, b * 1) /\ Lowest(times[x, Zero])
  BY <1>2, ConstantsLowest, TimesEquals
<1>5. (a * 1 + 0 * b) * b = a * (b * 1) /\ (a * 0) * 1 = 0 * (b * 1)
  OBVIOUS
<1>6. plus[x, Zero] = x
  BY <1>2, <1>3, <1>5, SameNumber
<1>7. times[x, Zero] = Zero
  BY <1>4, <1>5, ConstantsLowest, SameNumber
<1> QED
  BY <1>6, <1>7

LEMMA Cancels ==
  ASSUME NEW x \in Fraction, Lowest(x)
  PROVE  plus[x, Minus(x)] = Zero
<1>1. PICK a \in Int, b \in Nat \ {0} : a = x[1] /\ b = x[2]
  BY FractionEquals
<1>2. Equals(x, a, b)
  BY <1>1, FractionEquals
<1>3. Equals(Minus(x), -a, b)
  BY <1>2, MinusEquals
<1>4. Equals(plus[x, Minus(x)], a * b + (-a) * b, b * b) /\ Lowest(plus[x, Minus(x)])
  BY <1>2, <1>3, PlusEquals
<1>5. (a * b + (-a) * b) * 1 = 0 * (b * b)
  OBVIOUS
<1> QED
  BY <1>4, <1>5, ConstantsLowest, SameNumber

LEMMA ZeroMeans ==
  ASSUME NEW x \in Fraction, Lowest(x), x[1] = 0
  PROVE  x = Zero
<1>1. Equals(x, 0, 1)
  BY FractionEquals DEF Equals
<1>2. 0 * 1 = 0 * 1
  OBVIOUS
<1> QED
  BY <1>1, <1>2, ConstantsLowest, SameNumber

LEMMA DividesBack ==
  ASSUME NEW x \in Fraction, NEW y \in Fraction, Lowest(x), Lowest(y), y # Zero
  PROVE  /\ DividedBy(x, y) \in Fraction /\ Lowest(DividedBy(x, y))
         /\ times[DividedBy(x, y), y] = x
<1>1. PICK a \in Int, b \in Nat \ {0} : a = x[1] /\ b = x[2]
  BY FractionEquals
<1>2. PICK c \in Int, d \in Nat \ {0} : c = y[1] /\ d = y[2]
  BY FractionEquals
<1>3. Equals(x, a, b) /\ Equals(y, c, d) /\ c # 0
  BY <1>1, <1>2, FractionEquals, ZeroMeans
<1> DEFINE q == DividedBy(x, y)
<1>4. /\ c > 0 => Equals(q, a * d, b * c)
      /\ c < 0 => Equals(q, a * (-d), b * (-c))
      /\ Lowest(q)
  BY <1>3, DividedByEquals
<1> HIDE DEF q
<1>5. q \in Fraction
  BY <1>3, <1>4 DEF Equals
<1>6. CASE c > 0
  <2>1. Equals(times[q, y], (a * d) * c, (b * c) * d) /\ Lowest(times[q, y])
    BY <1>3, <1>4, <1>6, TimesEquals
  <2>2. ((a * d) * c) * b = a * ((b * c) * d)
    OBVIOUS
  <2>3. times[q, y] = x
    BY <1>3, <2>1, <2>2, SameNumber
  <2> QED
    BY <1>4, <1>5, <2>3 DEF q
<1>7. CASE c < 0
  <2>1. Equals(times[q, y], (a * (-d)) * c, (b * (-c)) * d) /\ Lowest(times[q, y])
    BY <1>3, <1>4, <1>7, TimesEquals
  <2>2. ((a * (-d)) * c) * b = a * ((b * (-c)) * d)
    OBVIOUS
  <2>3. times[q, y] = x
    BY <1>3, <2>1, <2>2, SameNumber
  <2> QED
    BY <1>4, <1>5, <2>3 DEF q
<1>8. c > 0 \/ c < 0
  BY <1>3
<1> QED
  BY <1>6, <1>7, <1>8

(* A product is zero only if one of its factors is.                        *)
LEMMA ProductNotZero ==
  ASSUME NEW x \in Fraction, NEW y \in Fraction, Lowest(x), Lowest(y), x # Zero, y # Zero
  PROVE  times[x, y] # Zero
<1>1. PICK a \in Int, b \in Nat \ {0} : a = x[1] /\ b = x[2]
  BY FractionEquals
<1>2. PICK c \in Int, d \in Nat \ {0} : c = y[1] /\ d = y[2]
  BY FractionEquals
<1>3. Equals(x, a, b) /\ Equals(y, c, d) /\ a # 0 /\ c # 0
  BY <1>1, <1>2, FractionEquals, ZeroMeans
<1>4. Equals(times[x, y], a * c, b * d)
  BY <1>3, TimesEquals
<1>5. SUFFICES ASSUME times[x, y] = Zero PROVE FALSE
  OBVIOUS
<1>6. 0 * (b * d) = (a * c) * 1
  <2>1. Zero[1] = 0 /\ Zero[2] = 1
    BY DEF Zero
  <2> QED
    BY <1>4, <1>5, <2>1 DEF Equals
<1>7. a * c # 0
  BY <1>3
<1> QED
  BY <1>6, <1>7

Positive(x) == x \in Fraction /\ x[1] > 0

LEMMA PositiveMeans ==
  ASSUME NEW x \in Fraction
  PROVE  Positive(x) <=> Less(Zero, x)
<1>1. PICK a \in Int, b \in Nat \ {0} : x = << a, b >>
  BY DEF Fraction
<1>2. Zero \in Fraction /\ Zero[1] = 0 /\ Zero[2] = 1
  BY DEF Zero, Fraction
<1>3. Less(Zero, x) <=> 0 * b < a * 1
  BY <1>1, <1>2, LessMeans
<1> QED
  BY <1>1, <1>3 DEF Positive

LEMMA PositiveOf ==
  ASSUME NEW x, NEW n, NEW d, Equals(x, n, d)
  PROVE  (x[1] > 0 <=> n > 0) /\ (x[1] >= 0 <=> n >= 0)
<1>1. x \in Fraction /\ n \in Int /\ d \in Nat \ {0} /\ x[1] * d = n * x[2]
  BY DEF Equals
<1>2. PICK a \in Int, b \in Nat \ {0} : a = x[1] /\ b = x[2] /\ a * d = n * b
  BY <1>1, FractionEquals
<1>3. (a > 0 => a * d > 0) /\ (a = 0 => a * d = 0) /\ (a < 0 => a * d < 0)
  BY <1>1
<1>4. (n > 0 => n * b > 0) /\ (n = 0 => n * b = 0) /\ (n < 0 => n * b < 0)
  BY <1>1
<1> QED
  BY <1>1, <1>2, <1>3, <1>4

LEMMA PositiveResults ==
  ASSUME NEW x, NEW y, Positive(x), Positive(y)
  PROVE  /\ Positive(times[x, y]) /\ Positive(plus[x, y])
         /\ Positive(DividedBy(x, y))
<1>1. PICK a \in Int, b \in Nat \ {0} : a = x[1] /\ b = x[2] /\ a > 0
  BY FractionEquals DEF Positive
<1>2. PICK c \in Int, d \in Nat \ {0} : c = y[1] /\ d = y[2] /\ c > 0
  BY FractionEquals DEF Positive
<1>3. Equals(x, a, b) /\ Equals(y, c, d)
  BY <1>1, <1>2, FractionEquals DEF Positive
<1>4. Equals(times[x, y], a * c, b * d) /\ Equals(plus[x, y], a * d + c * b, b * d)
      /\ Equals(DividedBy(x, y), a * d, b * c)
  BY <1>2, <1>3, TimesEquals, PlusEquals, DividedByEquals
<1>5. a * c > 0 /\ a * d > 0 /\ a * d + c * b > 0
  <2>1. a * c > 0 /\ a * d > 0 /\ c * b > 0
    BY <1>1, <1>2
  <2> QED
    BY <2>1
<1>6. times[x, y][1] > 0 /\ plus[x, y][1] > 0 /\ DividedBy(x, y)[1] > 0
  BY <1>4, <1>5, PositiveOf
<1>7. times[x, y] \in Fraction /\ plus[x, y] \in Fraction /\ DividedBy(x, y) \in Fraction
  BY <1>4 DEF Equals
<1> QED
  BY <1>6, <1>7 DEF Positive

LEMMA LessThenNotLess ==
  ASSUME NEW x \in Fraction, NEW y \in Fraction, NEW z \in Fraction
  PROVE  /\ Less(x, y) /\ ~Less(z, y) => Less(x, z)
         /\ ~Less(y, x) /\ Less(y, z) => Less(x, z)
         /\ Less(x, y) /\ Less(y, z) => Less(x, z)
<1>1. ASSUME Less(x, y), ~Less(z, y) PROVE Less(x, z)
  <2> SUFFICES ASSUME ~Less(x, z) PROVE FALSE
    OBVIOUS
  <2>1. ~Less(x, y)
    BY <1>1, NotLessTransitive
  <2> QED
    BY <1>1, <2>1
<1>2. ASSUME ~Less(y, x), Less(y, z) PROVE Less(x, z)
  <2> SUFFICES ASSUME ~Less(x, z) PROVE FALSE
    OBVIOUS
  <2>1. ~Less(y, z)
    BY <1>2, NotLessTransitive
  <2> QED
    BY <1>2, <2>1
<1>3. Less(y, z) => ~Less(z, y)
  BY LessIsStrict
<1> QED
  BY <1>1, <1>2, <1>3

LEMMA TimesGrows ==
  ASSUME NEW x \in Fraction, NEW r \in Fraction, x[1] > 0, Less(One, r)
  PROVE  Less(x, times[x, r])
<1>1. PICK a \in Int, b \in Nat \ {0} : x = << a, b >> /\ a > 0
  BY DEF Fraction
<1>2. PICK c \in Int, d \in Nat \ {0} : r = << c, d >>
  BY DEF Fraction
<1>3. d < c
  <2>1. Less(One, r) <=> 1 * d < c * 1
    BY <1>2, ConstantsLowest, LessMeans DEF One
  <2> QED
    BY <2>1
<1>4. Equals(x, a, b) /\ Equals(r, c, d)
  BY <1>1, <1>2 DEF Equals
<1>5. Equals(times[x, r], a * c, b * d)
  BY <1>4, TimesEquals
<1>6. Less(x, times[x, r]) <=> a * (b * d) < (a * c) * b
  BY <1>4, <1>5, LessEquals
<1>7. (a * b) * d < (a * b) * c
  <2>1. a * b \in Int /\ a * b > 0
    BY <1>1
  <2> QED
    BY <1>3, <2>1, CancelLess
<1>8. a * (b * d) = (a * b) * d /\ (a * c) * b = (a * b) * c
  OBVIOUS
<1> QED
  BY <1>6, <1>7, <1>8

-----------------------------------------------------------------------------
-----------------------------------------------------------------------------
LEMMA NextIndex ==
  ASSUME NEW m \in Nat, NEW k \in 0 .. (m - 1)
  PROVE  k + 1 \in 1 .. m /\ k + 1 \in 0 .. m /\ k \in 0 .. m /\ (k + 1) - 1 = k
OBVIOUS

LEMMA FirstPlace ==
  ASSUME NEW m \in Nat
  PROVE  0 \in 0 .. m /\ m \in 0 .. m
OBVIOUS

(* Recursion over the places of a row: what the places up to one come to.  *)
Recurs(s, m, base, step) == s[0] = base /\ \A k \in 1 .. m : s[k] = step[s[k - 1], k]

LEMMA Recursion ==
  ASSUME NEW m \in Nat, NEW X, NEW base \in X, NEW step \in [X \X (1 .. m) -> X]
  PROVE  \E s \in [0 .. m -> X] : Recurs(s, m, base, step)
<1> DEFINE Upto(s, j) == s[0] = base /\ \A k \in 1 .. j : s[k] = step[s[k - 1], k]
           S == { j \in 0 .. m : \E s \in [0 .. m -> X] : Upto(s, j) }
<1>1. 0 \in S
  <2>1. PICK s : s = [k \in 0 .. m |-> base]
    OBVIOUS
  <2>2. s \in [0 .. m -> X] /\ 0 \in 0 .. m /\ s[0] = base /\ 1 .. 0 = {}
    BY <2>1
  <2> QED
    BY <2>2
<1>2. ASSUME NEW j \in 0 .. (m - 1), j \in S PROVE j + 1 \in S
  <2>1. PICK s \in [0 .. m -> X] : Upto(s, j)
    BY <1>2
  <2> DEFINE t == [s EXCEPT ![j + 1] = step[s[j], j + 1]]
  <2>2. j + 1 \in 0 .. m /\ j + 1 \in 1 .. m /\ j \in 0 .. m /\ s[j] \in X
    OBVIOUS
  <2>3. step[s[j], j + 1] \in X
    BY <2>2
  <2>4. t \in [0 .. m -> X] /\ t[j + 1] = step[s[j], j + 1]
        /\ \A k \in 0 .. m : k # j + 1 => t[k] = s[k]
    BY <2>2, <2>3
  <2> HIDE DEF t
  <2>5. ASSUME NEW k \in 1 .. (j + 1) PROVE t[k] = step[t[k - 1], k]
    <3>1. CASE k = j + 1
      <4>1. k - 1 = j /\ j # j + 1
        BY <3>1
      <4>2. t[k - 1] = s[j]
        BY <2>2, <2>4, <4>1
      <4> QED
        BY <2>4, <3>1, <4>2
    <3>2. CASE k # j + 1
      <4>1. k \in 1 .. j /\ k - 1 \in 0 .. m /\ k \in 0 .. m /\ k - 1 # j + 1
        BY <2>2, <3>2
      <4>2. t[k] = s[k] /\ t[k - 1] = s[k - 1] /\ s[k] = step[s[k - 1], k]
        BY <2>1, <2>4, <3>2, <4>1
      <4> QED
        BY <4>2
    <3> QED
      BY <3>1, <3>2
  <2>6. 0 \in 0 .. m /\ 0 # j + 1
    OBVIOUS
  <2>7. t[0] = base
    BY <2>1, <2>4, <2>6
  <2>8. Upto(t, j + 1)
    BY <2>5, <2>7
  <2> HIDE DEF Upto
  <2> QED
    BY <2>2, <2>4, <2>8
<1> HIDE DEF S
<1>3. m \in S
  <2>1. 0 .. m \subseteq S
    BY <1>1, <1>2, IntervalInduction
  <2> QED
    BY <2>1, FirstPlace
<1>4. PICK s \in [0 .. m -> X] : Upto(s, m)
  BY <1>3 DEF S
<1> QED
  BY <1>4 DEF Recurs, Upto

-----------------------------------------------------------------------------
(* Sums.                                                                   *)
Numbers == { x \in Fraction : Lowest(x) }

(* s has the sums of the first values of a row.                            *)
SumsOf(s, row) == s = [k \in 0 .. Len(row) |-> IF k = 0 THEN Zero ELSE plus[s[k - 1], row[k]]]

LEMMA SumIsChosen ==
  ASSUME NEW row
  PROVE  VecSum(row) = (CHOOSE s : SumsOf(s, row))[Len(row)]
BY DEF VecSum, SumsOf

LEMMA ZeroNumber == Zero \in Numbers /\ One \in Numbers
BY ConstantsLowest DEF Numbers

(* plus as an operator, as Times is.                                       *)
Add(x, y) == plus[x, y]

LEMMA AddNumber ==
  ASSUME NEW x \in Numbers, NEW y \in Numbers
  PROVE  Add(x, y) \in Numbers
BY InFraction DEF Add, Numbers

LEMMA PlusNumber ==
  ASSUME NEW x \in Numbers, NEW y \in Numbers
  PROVE  /\ plus[x, y] \in Numbers /\ Add(x, y) \in Numbers /\ Times(x, y) \in Numbers
         /\ Minus(x) \in Numbers
BY InFraction DEF Add, Times, Numbers

LEMMA RowOf ==
  ASSUME NEW m \in Nat, NEW X, NEW row \in [1 .. m -> X]
  PROVE  row \in Seq(X) /\ Len(row) = m /\ DOMAIN row = 1 .. m
OBVIOUS

(* The same, place by place.                                               *)
SumsUp(s, row, m) == s[0] = Zero /\ \A k \in 1 .. m : s[k] = Add(s[k - 1], row[k])

LEMMA SumHas ==
  ASSUME NEW m \in Nat, NEW row \in [1 .. m -> Numbers]
  PROVE  \E s \in [0 .. m -> Numbers] : SumsUp(s, row, m) /\ VecSum(row) = s[m]
<1> DEFINE step == [z \in Numbers \X (1 .. m) |-> plus[z[1], row[z[2]]]]
<1>1. Len(row) = m
  BY RowOf
<1>2. \A x \in Numbers, k \in 1 .. m : step[x, k] = plus[x, row[k]] /\ plus[x, row[k]] \in Numbers
  BY PlusNumber
<1>3. step \in [Numbers \X (1 .. m) -> Numbers]
  BY PlusNumber
<1> HIDE DEF step
<1>4. PICK s \in [0 .. m -> Numbers] : Recurs(s, m, Zero, step)
  BY <1>3, ZeroNumber, Recursion
<1> DEFINE next == [k \in 0 .. m |-> IF k = 0 THEN Zero ELSE plus[s[k - 1], row[k]]]
<1>5. ASSUME NEW k \in 0 .. m PROVE s[k] = next[k]
  <2>1. CASE k = 0
    BY <1>4, <2>1 DEF Recurs
  <2>2. CASE k # 0
    <3>1. k \in 1 .. m /\ k - 1 \in 0 .. m
      BY <2>2
    <3>2. s[k] = step[s[k - 1], k] /\ s[k - 1] \in Numbers
      BY <1>4, <2>2, <3>1 DEF Recurs
    <3> QED
      BY <1>2, <2>2, <3>1, <3>2
  <2> QED
    BY <2>1, <2>2
<1>6. s = [k \in 0 .. m |-> s[k]] /\ next = [k \in 0 .. m |-> next[k]]
  OBVIOUS
<1>7. s = next
  <2> HIDE DEF next
  <2> QED
    BY <1>5, <1>6
<1>8. SumsOf(s, row)
  BY <1>1, <1>7 DEF SumsOf
<1>9. PICK f : f = (CHOOSE s_ : SumsOf(s_, row))
  OBVIOUS
<1>10. SumsOf(f, row)
  BY <1>8, <1>9
<1>11. f = [k \in 0 .. m |-> IF k = 0 THEN Zero ELSE plus[f[k - 1], row[k]]]
  BY <1>1, <1>10 DEF SumsOf
<1> HIDE DEF next
<1>12. f[0] = Zero /\ \A k \in 1 .. m : f[k] = plus[f[k - 1], row[k]]
  <2>1. ASSUME NEW k \in 0 .. m PROVE f[k] = IF k = 0 THEN Zero ELSE plus[f[k - 1], row[k]]
    BY <1>11
  <2>2. 0 \in 0 .. m /\ \A k \in 1 .. m : k \in 0 .. m /\ k # 0
    OBVIOUS
  <2> QED
    BY <2>1, <2>2
<1> DEFINE T == { k \in 0 .. m : f[k] \in Numbers }
<1>13. 0 \in T
  <2>1. 0 \in 0 .. m
    OBVIOUS
  <2> QED
    BY <1>12, <2>1, ZeroNumber
<1>14. ASSUME NEW k \in 0 .. (m - 1), k \in T PROVE k + 1 \in T
  <2>1. k + 1 \in 1 .. m /\ k + 1 \in 0 .. m /\ (k + 1) - 1 = k
    OBVIOUS
  <2>2. f[k] \in Numbers /\ row[k + 1] \in Numbers
    BY <1>14, <2>1
  <2>3. f[k + 1] = plus[f[k], row[k + 1]]
    BY <1>12, <2>1
  <2>4. plus[f[k], row[k + 1]] \in Numbers
    BY <2>2, PlusNumber
  <2> QED
    BY <2>1, <2>3, <2>4
<1> HIDE DEF T
<1>15. 0 .. m \subseteq T
  BY <1>13, <1>14, IntervalInduction
<1>16. f \in [0 .. m -> Numbers]
  BY <1>11, <1>15 DEF T
<1>17. VecSum(row) = f[m]
  BY <1>1, <1>9, SumIsChosen
<1> QED
  BY <1>12, <1>16, <1>17 DEF SumsUp, Add

LEMMA PlusNotNegative ==
  ASSUME NEW x \in Fraction, NEW y \in Fraction, x[1] >= 0, y[1] >= 0
  PROVE  plus[x, y][1] >= 0 /\ times[x, y][1] >= 0
<1>1. PICK a \in Nat, b \in Nat \ {0} : a = x[1] /\ b = x[2]
  BY FractionEquals
<1>2. PICK p \in Nat, q \in Nat \ {0} : p = y[1] /\ q = y[2]
  BY FractionEquals
<1>3. Equals(x, a, b) /\ Equals(y, p, q)
  BY <1>1, <1>2, FractionEquals
<1>4. Equals(plus[x, y], a * q + p * b, b * q) /\ Equals(times[x, y], a * p, b * q)
  BY <1>3, PlusEquals, TimesEquals
<1>5. PICK k \in Nat, l \in Nat, h \in Nat \ {0} : k = a * q + p * b /\ l = a * p /\ h = b * q
  <2>1. a * q \in Nat /\ p * b \in Nat /\ a * p \in Nat /\ b * q \in Nat \ {0}
    OBVIOUS
  <2> QED
    BY <2>1
<1>6. ASSUME NEW z, NEW j \in Nat, Equals(z, j, h) PROVE z[1] >= 0
  <2>1. PICK n \in Int, d \in Nat \ {0} : n = z[1] /\ d = z[2]
    BY <1>6, FractionEquals DEF Equals
  <2>2. n * h = j * d
    BY <1>6, <2>1 DEF Equals
  <2>3. j * d >= 0
    OBVIOUS
  <2>4. n >= 0
    <3> SUFFICES ASSUME n < 0 PROVE FALSE
      OBVIOUS
    <3>1. n * h < 0
      OBVIOUS
    <3> QED
      BY <2>2, <2>3, <3>1
  <2> QED
    BY <2>1, <2>4
<1> QED
  BY <1>4, <1>5, <1>6

LEMMA SumNumber ==
  ASSUME NEW m \in Nat, NEW row \in [1 .. m -> Numbers]
  PROVE  VecSum(row) \in Numbers
<1>1. PICK s \in [0 .. m -> Numbers] : VecSum(row) = s[m]
  BY SumHas
<1> QED
  BY <1>1

(* The laws once more, for numbers.                                        *)
LEMMA PlusTurns ==
  ASSUME NEW x \in Numbers, NEW y \in Numbers
  PROVE  Add(x, y) = Add(y, x)
BY PlusCommutes DEF Add, Times, Numbers

LEMMA TimesTurns ==
  ASSUME NEW x \in Numbers, NEW y \in Numbers
  PROVE  Times(x, y) = Times(y, x)
BY TimesCommutes DEF Add, Times, Numbers

LEMMA PlusRegroups ==
  ASSUME NEW x \in Numbers, NEW y \in Numbers, NEW z \in Numbers
  PROVE  Add(Add(x, y), z) = Add(x, Add(y, z))
BY PlusAssociates DEF Add, Times, Numbers

LEMMA TimesRegroups ==
  ASSUME NEW x \in Numbers, NEW y \in Numbers, NEW z \in Numbers
  PROVE  Times(Times(x, y), z) = Times(x, Times(y, z))
BY TimesAssociates DEF Add, Times, Numbers

LEMMA Spreads ==
  ASSUME NEW x \in Numbers, NEW y \in Numbers, NEW z \in Numbers
  PROVE  Times(Add(x, y), z) = Add(Times(x, z), Times(y, z))
BY Distributes DEF Add, Times, Numbers

LEMMA Neutral ==
  ASSUME NEW x \in Numbers
  PROVE  /\ Add(x, Zero) = x /\ Add(Zero, x) = x /\ Times(x, Zero) = Zero /\ Times(Zero, x) = Zero
         /\ Times(x, One) = x /\ Add(x, Minus(x)) = Zero
<1>1. x \in Fraction /\ Lowest(x) /\ Zero \in Numbers
  BY ZeroNumber DEF Numbers
<1>2. Add(Zero, x) = Add(x, Zero) /\ Times(Zero, x) = Times(x, Zero)
  BY <1>1, PlusTurns, TimesTurns
<1> QED
  BY <1>1, <1>2, ZeroIsNeutral, OneIsNeutral, Cancels DEF Add, Times

LEMMA Exchanged ==
  ASSUME NEW x \in Numbers, NEW y \in Numbers, NEW z \in Numbers, NEW v \in Numbers
  PROVE  Add(Add(x, y), Add(z, v)) = Add(Add(x, z), Add(y, v))
BY AddNumber, PlusTurns, PlusRegroups

(* Sums of rows that belong together are found place by place.             *)
AddsUp(both, a, b, m) == \A k \in 1 .. m : both[k] = Add(a[k], b[k])
IsScaled(scaled, a, x, m) == \A k \in 1 .. m : scaled[k] = Times(a[k], x)
OnlyAt(a, p, m) == \A k \in 1 .. m : k # p => a[k] = Zero
OnlyOf(a, f, r, m) == \A k \in 1 .. m : (\A i \in 1 .. r : f[i] # k) => a[k] = Zero
EachOnce(f, r) == \A i, j \in 1 .. r : f[i] = f[j] => i = j
Selects(b, a, f, r) == \A i \in 1 .. r : b[i] = a[f[i]]
NoneNegative(a, m) == \A k \in 1 .. m : a[k][1] >= 0

LEMMA SumOfPlus ==
  ASSUME NEW m \in Nat, NEW a \in [1 .. m -> Numbers], NEW b \in [1 .. m -> Numbers],
         NEW both \in [1 .. m -> Numbers], AddsUp(both, a, b, m)
  PROVE  VecSum(both) = Add(VecSum(a), VecSum(b))
<1>1. PICK s \in [0 .. m -> Numbers] : SumsUp(s, a, m) /\ VecSum(a) = s[m]
  BY SumHas
<1>2. PICK t \in [0 .. m -> Numbers] : SumsUp(t, b, m) /\ VecSum(b) = t[m]
  BY SumHas
<1>3. PICK r \in [0 .. m -> Numbers] : SumsUp(r, both, m) /\ VecSum(both) = r[m]
  BY SumHas
<1> DEFINE S == { k \in 0 .. m : r[k] = Add(s[k], t[k]) }
<1>4. 0 \in S
  <2>1. 0 \in 0 .. m /\ Add(Zero, Zero) = Zero
    BY FirstPlace, ZeroNumber, Neutral
  <2> QED
    BY <1>1, <1>2, <1>3, <2>1 DEF SumsUp
<1>5. ASSUME NEW k \in 0 .. (m - 1), k \in S PROVE k + 1 \in S
  <2>1. k + 1 \in 1 .. m /\ k + 1 \in 0 .. m /\ k \in 0 .. m /\ (k + 1) - 1 = k
    BY NextIndex
  <2>2. r[k + 1] = Add(r[k], both[k + 1]) /\ s[k + 1] = Add(s[k], a[k + 1]) /\ t[k + 1] = Add(t[k], b[k + 1])
    BY <1>1, <1>2, <1>3, <2>1 DEF SumsUp
  <2>3. r[k] = Add(s[k], t[k]) /\ both[k + 1] = Add(a[k + 1], b[k + 1])
    BY <1>5, <2>1 DEF AddsUp
  <2>4. s[k] \in Numbers /\ t[k] \in Numbers /\ a[k + 1] \in Numbers /\ b[k + 1] \in Numbers
    BY <2>1
  <2>5. Add(Add(s[k], t[k]), Add(a[k + 1], b[k + 1])) = Add(Add(s[k], a[k + 1]), Add(t[k], b[k + 1]))
    <3>1. PICK x \in Numbers, y \in Numbers, z \in Numbers, v \in Numbers :
            x = s[k] /\ y = t[k] /\ z = a[k + 1] /\ v = b[k + 1]
      BY <2>4
    <3>2. Add(Add(x, y), Add(z, v)) = Add(Add(x, z), Add(y, v))
      BY Exchanged
    <3> QED
      BY <3>1, <3>2
  <2>6. r[k + 1] = Add(s[k + 1], t[k + 1])
    BY <2>2, <2>3, <2>5
  <2> QED
    BY <2>1, <2>6
<1> HIDE DEF S
<1>6. m \in S
  <2>1. 0 .. m \subseteq S
    BY <1>4, <1>5, IntervalInduction
  <2> QED
    BY <2>1, FirstPlace
<1> QED
  BY <1>1, <1>2, <1>3, <1>6 DEF S

LEMMA SumOfTimes ==
  ASSUME NEW m \in Nat, NEW a \in [1 .. m -> Numbers], NEW x \in Numbers,
         NEW scaled \in [1 .. m -> Numbers], IsScaled(scaled, a, x, m)
  PROVE  VecSum(scaled) = Times(VecSum(a), x)
<1>1. PICK s \in [0 .. m -> Numbers] : SumsUp(s, a, m) /\ VecSum(a) = s[m]
  BY SumHas
<1>2. PICK r \in [0 .. m -> Numbers] : SumsUp(r, scaled, m) /\ VecSum(scaled) = r[m]
  BY SumHas
<1> DEFINE S == { k \in 0 .. m : r[k] = Times(s[k], x) }
<1>3. 0 \in S
  <2>1. 0 \in 0 .. m /\ Times(Zero, x) = Zero
    BY FirstPlace, Neutral
  <2> QED
    BY <1>1, <1>2, <2>1 DEF SumsUp
<1>4. ASSUME NEW k \in 0 .. (m - 1), k \in S PROVE k + 1 \in S
  <2>1. k + 1 \in 1 .. m /\ k + 1 \in 0 .. m /\ k \in 0 .. m /\ (k + 1) - 1 = k
    BY NextIndex
  <2>2. r[k + 1] = Add(r[k], scaled[k + 1]) /\ s[k + 1] = Add(s[k], a[k + 1])
    BY <1>1, <1>2, <2>1 DEF SumsUp
  <2>3. r[k] = Times(s[k], x) /\ scaled[k + 1] = Times(a[k + 1], x)
    BY <1>4, <2>1 DEF IsScaled
  <2>4. s[k] \in Numbers /\ a[k + 1] \in Numbers
    BY <2>1
  <2>5. Times(Add(s[k], a[k + 1]), x) = Add(Times(s[k], x), Times(a[k + 1], x))
    BY <2>4, Spreads
  <2>6. r[k + 1] = Times(s[k + 1], x)
    BY <2>2, <2>3, <2>5
  <2> QED
    BY <2>1, <2>6
<1> HIDE DEF S
<1>5. m \in S
  <2>1. 0 .. m \subseteq S
    BY <1>3, <1>4, IntervalInduction
  <2> QED
    BY <2>1, FirstPlace
<1> QED
  BY <1>1, <1>2, <1>5 DEF S

LEMMA SumOfZeros ==
  ASSUME NEW m \in Nat, NEW a \in [1 .. m -> Numbers], \A k \in 1 .. m : a[k] = Zero
  PROVE  VecSum(a) = Zero
<1>1. IsScaled(a, a, Zero, m)
  <2>1. ASSUME NEW x \in Numbers PROVE Times(x, Zero) = Zero
    BY Neutral
  <2> QED
    BY <2>1 DEF IsScaled
<1>2. VecSum(a) = Times(VecSum(a), Zero)
  BY <1>1, SumOfTimes, ZeroNumber
<1>3. PICK x \in Numbers : x = VecSum(a)
  BY SumNumber
<1>4. Times(x, Zero) = Zero
  BY Neutral
<1> QED
  BY <1>2, <1>3, <1>4

(* A row with one value.                                                   *)
LEMMA SumOfOne ==
  ASSUME NEW m \in Nat, NEW a \in [1 .. m -> Numbers], NEW p \in 1 .. m, OnlyAt(a, p, m)
  PROVE  VecSum(a) = a[p]
<1>1. PICK s \in [0 .. m -> Numbers] : SumsUp(s, a, m) /\ VecSum(a) = s[m]
  BY SumHas
<1> DEFINE S == { k \in 0 .. m : s[k] = IF k < p THEN Zero ELSE a[p] }
<1>2. 0 \in S
  <2>1. 0 \in 0 .. m /\ 0 < p
    BY FirstPlace
  <2> QED
    BY <1>1, <2>1 DEF SumsUp
<1>3. ASSUME NEW k \in 0 .. (m - 1), k \in S PROVE k + 1 \in S
  <2>1. k + 1 \in 1 .. m /\ k + 1 \in 0 .. m /\ k \in 0 .. m /\ (k + 1) - 1 = k
    BY NextIndex
  <2>2. s[k + 1] = Add(s[k], a[k + 1]) /\ s[k] = IF k < p THEN Zero ELSE a[p]
    BY <1>1, <1>3, <2>1 DEF SumsUp
  <2>3. CASE k + 1 = p
    <3>1. k < p /\ ~(k + 1 < p)
      BY <2>3
    <3>2. s[k + 1] = a[p]
      <4>1. Add(Zero, a[p]) = a[p]
        BY Neutral
      <4> QED
        BY <2>2, <2>3, <3>1, <4>1
    <3> QED
      BY <2>1, <3>1, <3>2
  <2>4. CASE k + 1 # p
    <3>1. a[k + 1] = Zero
      BY <2>1, <2>4 DEF OnlyAt
    <3>2. s[k + 1] = s[k]
      <4>1. s[k] \in Numbers
        BY <2>1
      <4>2. Add(s[k], Zero) = s[k]
        BY <4>1, Neutral
      <4> QED
        BY <2>2, <3>1, <4>2
    <3>3. k < p <=> k + 1 < p
      BY <2>4
    <3> QED
      BY <2>1, <2>2, <3>2, <3>3
  <2> QED
    BY <2>3, <2>4
<1> HIDE DEF S
<1>4. m \in S
  <2>1. 0 .. m \subseteq S
    BY <1>2, <1>3, IntervalInduction
  <2> QED
    BY <2>1, FirstPlace
<1>5. s[m] = a[p]
  <2>1. ~(m < p)
    OBVIOUS
  <2> QED
    BY <1>4, <2>1 DEF S
<1> QED
  BY <1>1, <1>5

(* A row of some of the values is as good as all, if the others are zero.  *)
LEMMA SumOfSome ==
  ASSUME NEW m \in Nat, NEW a \in [1 .. m -> Numbers], NEW r \in Nat, NEW f \in [1 .. r -> 1 .. m],
         EachOnce(f, r), OnlyOf(a, f, r, m), NEW b \in [1 .. r -> Numbers], Selects(b, a, f, r)
  PROVE  VecSum(b) = VecSum(a)
<1>1. PICK s \in [0 .. r -> Numbers] : SumsUp(s, b, r) /\ VecSum(b) = s[r]
  BY SumHas
<1> DEFINE part == [j \in 0 .. r |-> [k \in 1 .. m |-> IF \E i \in 1 .. j : f[i] = k THEN a[k] ELSE Zero]]
           S == { j \in 0 .. r : VecSum(part[j]) = s[j] }
<1>2. ASSUME NEW j \in 0 .. r
      PROVE  /\ part[j] \in [1 .. m -> Numbers]
             /\ \A k \in 1 .. m : part[j][k] = IF \E i \in 1 .. j : f[i] = k THEN a[k] ELSE Zero
  BY ZeroNumber
<1> HIDE DEF part
<1>3. 0 \in S
  <2>1. 0 \in 0 .. r /\ 1 .. 0 = {}
    BY FirstPlace
  <2>2. PICK none \in [1 .. m -> Numbers] : none = part[0]
    BY <1>2, <2>1
  <2>3. \A k \in 1 .. m : none[k] = Zero
    BY <1>2, <2>1, <2>2
  <2>4. VecSum(none) = Zero
    BY <2>3, SumOfZeros
  <2> QED
    BY <1>1, <2>1, <2>2, <2>4 DEF SumsUp
<1>4. ASSUME NEW j \in 0 .. (r - 1), j \in S PROVE j + 1 \in S
  <2>1. j + 1 \in 1 .. r /\ j + 1 \in 0 .. r /\ j \in 0 .. r /\ (j + 1) - 1 = j
    BY NextIndex
  <2>2. f[j + 1] \in 1 .. m
    BY <2>1
  <2> DEFINE one == [k \in 1 .. m |-> IF k = f[j + 1] THEN a[k] ELSE Zero]
  <2>3. one \in [1 .. m -> Numbers] /\ \A k \in 1 .. m : one[k] = IF k = f[j + 1] THEN a[k] ELSE Zero
    BY ZeroNumber
  <2> HIDE DEF one
  <2>4. VecSum(one) = b[j + 1]
    <3>1. PICK p \in 1 .. m : p = f[j + 1]
      BY <2>2
    <3>2. OnlyAt(one, p, m)
      BY <2>3, <3>1 DEF OnlyAt
    <3>3. VecSum(one) = one[p]
      BY <2>3, <3>2, SumOfOne
    <3>4. one[p] = a[p] /\ b[j + 1] = a[p]
      BY <2>1, <2>3, <3>1 DEF Selects
    <3> QED
      BY <3>3, <3>4
  <2>5. ASSUME NEW k \in 1 .. m PROVE part[j + 1][k] = Add(part[j][k], one[k])
    <3>1. part[j][k] = IF \E i \in 1 .. j : f[i] = k THEN a[k] ELSE Zero
      BY <1>2, <2>1
    <3>2. part[j + 1][k] = IF \E i \in 1 .. (j + 1) : f[i] = k THEN a[k] ELSE Zero
      BY <1>2, <2>1
    <3>3. Add(a[k], Zero) = a[k] /\ Add(Zero, a[k]) = a[k] /\ Add(Zero, Zero) = Zero
      BY Neutral, ZeroNumber
    <3>4. \A i \in 1 .. (j + 1) : i = j + 1 \/ i \in 1 .. j
      OBVIOUS
    <3>5. CASE k = f[j + 1]
      <4>1. ~ \E i \in 1 .. j : f[i] = k
        <5> SUFFICES ASSUME NEW i \in 1 .. j, f[i] = k PROVE FALSE
          OBVIOUS
        <5>1. i \in 1 .. r /\ i # j + 1
          OBVIOUS
        <5> QED
          BY <2>1, <3>5, <5>1 DEF EachOnce
      <4>2. j + 1 \in 1 .. (j + 1)
        OBVIOUS
      <4> QED
        BY <2>3, <3>1, <3>2, <3>3, <3>5, <4>1, <4>2
    <3>6. CASE k # f[j + 1]
      <4>1. (\E i \in 1 .. (j + 1) : f[i] = k) <=> (\E i \in 1 .. j : f[i] = k)
        <5>1. \A i \in 1 .. j : i \in 1 .. (j + 1)
          OBVIOUS
        <5> QED
          BY <3>4, <3>6, <5>1
      <4> QED
        BY <2>3, <3>1, <3>2, <3>3, <3>6, <4>1
    <3> QED
      BY <3>5, <3>6
  <2>6. VecSum(part[j + 1]) = Add(VecSum(part[j]), VecSum(one))
    <3>1. PICK before \in [1 .. m -> Numbers], after \in [1 .. m -> Numbers] :
            before = part[j] /\ after = part[j + 1]
      BY <1>2, <2>1
    <3>2. AddsUp(after, before, one, m)
      BY <2>5, <3>1 DEF AddsUp
    <3>3. VecSum(after) = Add(VecSum(before), VecSum(one))
      BY <2>3, <3>2, SumOfPlus
    <3> QED
      BY <3>1, <3>3
  <2>7. VecSum(part[j]) = s[j] /\ s[j + 1] = Add(s[j], b[j + 1])
    BY <1>1, <1>4, <2>1 DEF SumsUp
  <2> QED
    BY <2>1, <2>4, <2>6, <2>7
<1> HIDE DEF S
<1>5. r \in S
  <2>1. 0 .. r \subseteq S
    BY <1>3, <1>4, IntervalInduction
  <2> QED
    BY <2>1, FirstPlace
<1>6. VecSum(part[r]) = s[r]
  BY <1>5 DEF S
<1>7. r \in 0 .. r
  BY FirstPlace
<1>8. ASSUME NEW k \in 1 .. m PROVE part[r][k] = a[k]
  BY <1>2, <1>7 DEF OnlyOf
<1>9. part[r] = a
  BY <1>2, <1>7, <1>8
<1> QED
  BY <1>1, <1>6, <1>9

LEMMA SumNotNegative ==
  ASSUME NEW m \in Nat, NEW a \in [1 .. m -> Numbers], NoneNegative(a, m)
  PROVE  VecSum(a)[1] >= 0
<1>1. PICK s \in [0 .. m -> Numbers] : SumsUp(s, a, m) /\ VecSum(a) = s[m]
  BY SumHas
<1> DEFINE S == { k \in 0 .. m : s[k][1] >= 0 }
<1>2. 0 \in S
  <2>1. Zero[1] >= 0 /\ 0 \in 0 .. m
    BY FirstPlace DEF Zero
  <2> QED
    BY <1>1, <2>1 DEF SumsUp
<1>3. ASSUME NEW k \in 0 .. (m - 1), k \in S PROVE k + 1 \in S
  <2>1. k + 1 \in 1 .. m /\ k + 1 \in 0 .. m /\ k \in 0 .. m /\ (k + 1) - 1 = k
    BY NextIndex
  <2>2. s[k + 1] = Add(s[k], a[k + 1]) /\ s[k][1] >= 0 /\ a[k + 1][1] >= 0
    BY <1>1, <1>3, <2>1 DEF SumsUp, NoneNegative
  <2>3. s[k] \in Fraction /\ a[k + 1] \in Fraction
    BY <2>1 DEF Numbers
  <2>4. Add(s[k], a[k + 1])[1] >= 0
    BY <2>2, <2>3, PlusNotNegative DEF Add
  <2> QED
    BY <2>1, <2>2, <2>4
<1> HIDE DEF S
<1>4. m \in S
  <2>1. 0 .. m \subseteq S
    BY <1>2, <1>3, IntervalInduction
  <2> QED
    BY <2>1, FirstPlace
<1> QED
  BY <1>1, <1>4 DEF S

-----------------------------------------------------------------------------
(***************************************************************************)
(* Numbers over a common denominator, where they are compared, and signs.  *)
(***************************************************************************)
(* A fraction's number over a common denominator: what is linear in such   *)
(* numbers is linear in their numerators.                                  *)
LEMMA Rescaled ==
  ASSUME NEW x, NEW n, NEW d, Equals(x, n, d), NEW k \in Nat \ {0}
  PROVE  Equals(x, n * k, d * k)
<1>1. PICK a \in Int, b \in Nat \ {0} : a = x[1] /\ b = x[2]
  BY FractionEquals DEF Equals
<1>2. x \in Fraction /\ n \in Int /\ d \in Nat \ {0} /\ a * d = n * b
  BY <1>1 DEF Equals
<1>3. n * k \in Int /\ d * k \in Nat \ {0}
  BY <1>2
<1>4. a * (d * k) = (n * k) * b
  <2>1. a * (d * k) = (a * d) * k /\ (n * k) * b = (n * b) * k
    BY <1>1, <1>2
  <2> QED
    BY <1>2, <2>1
<1> QED
  BY <1>1, <1>2, <1>3, <1>4 DEF Equals

LEMMA OverTwo ==
  ASSUME NEW x \in Numbers, NEW y \in Numbers
  PROVE  \E d \in Nat \ {0}, n \in Int, m \in Int : Equals(x, n, d) /\ Equals(y, m, d)
<1>1. PICK a \in Int, b \in Nat \ {0}, p \in Int, q \in Nat \ {0} : Equals(x, a, b) /\ Equals(y, p, q)
  BY FractionEquals DEF Numbers
<1>2. Equals(x, a * q, b * q) /\ Equals(y, p * b, q * b) /\ q * b = b * q
  BY <1>1, Rescaled
<1>3. b * q \in Nat \ {0} /\ a * q \in Int /\ p * b \in Int
  BY <1>1
<1> QED
  BY <1>2, <1>3

LEMMA OverThree ==
  ASSUME NEW x \in Numbers, NEW y \in Numbers, NEW z \in Numbers
  PROVE  \E d \in Nat \ {0}, n \in Int, m \in Int, k \in Int : Equals(x, n, d) /\ Equals(y, m, d) /\ Equals(z, k, d)
<1>1. PICK d \in Nat \ {0}, n \in Int, m \in Int : Equals(x, n, d) /\ Equals(y, m, d)
  BY OverTwo
<1>2. PICK k \in Int, e \in Nat \ {0} : Equals(z, k, e)
  BY FractionEquals DEF Numbers
<1>3. Equals(x, n * e, d * e) /\ Equals(y, m * e, d * e) /\ Equals(z, k * d, e * d) /\ e * d = d * e
  BY <1>1, <1>2, Rescaled
<1>4. d * e \in Nat \ {0} /\ n * e \in Int /\ m * e \in Int /\ k * d \in Int
  BY <1>1, <1>2
<1> QED
  BY <1>3, <1>4

LEMMA OverFour ==
  ASSUME NEW x \in Numbers, NEW y \in Numbers, NEW z \in Numbers, NEW v \in Numbers
  PROVE  \E d \in Nat \ {0}, n \in Int, m \in Int, k \in Int, l \in Int :
           Equals(x, n, d) /\ Equals(y, m, d) /\ Equals(z, k, d) /\ Equals(v, l, d)
<1>1. PICK d \in Nat \ {0}, n \in Int, m \in Int, k \in Int : Equals(x, n, d) /\ Equals(y, m, d) /\ Equals(z, k, d)
  BY OverThree
<1>2. PICK l \in Int, e \in Nat \ {0} : Equals(v, l, e)
  BY FractionEquals DEF Numbers
<1>3. Equals(x, n * e, d * e) /\ Equals(y, m * e, d * e) /\ Equals(z, k * e, d * e) /\ Equals(v, l * d, e * d) /\ e * d = d * e
  BY <1>1, <1>2, Rescaled
<1>4. d * e \in Nat \ {0} /\ n * e \in Int /\ m * e \in Int /\ k * e \in Int /\ l * d \in Int
  BY <1>1, <1>2
<1> QED
  BY <1>3, <1>4

LEMMA OrderOfParts ==
  ASSUME NEW x \in Numbers, NEW y \in Numbers, NEW d \in Nat \ {0}, NEW n \in Int, NEW m \in Int,
         Equals(x, n, d), Equals(y, m, d)
  PROVE  (Less(x, y) <=> n < m) /\ (x = y <=> n = m)
<1>1. Less(x, y) <=> n * d < m * d
  BY LessEquals
<1>2. (n * d < m * d) <=> (n < m)
  <2>1. n < m => n * d < m * d
    OBVIOUS
  <2>2. m <= n => m * d <= n * d
    OBVIOUS
  <2> QED
    BY <2>1, <2>2
<1>3. n = m => x = y
  BY SameNumber DEF Numbers
<1>4. x = y => n = m
  <2> SUFFICES ASSUME x = y PROVE n = m
    OBVIOUS
  <2>1. ~Less(x, y) /\ ~Less(y, x)
    BY LessIsStrict DEF Numbers
  <2>2. Less(y, x) <=> m * d < n * d
    BY LessEquals
  <2>3. m < n => m * d < n * d
    OBVIOUS
  <2> QED
    BY <1>1, <1>2, <2>1, <2>2, <2>3
<1> QED
  BY <1>1, <1>2, <1>3, <1>4

LEMMA PartsOfPlus ==
  ASSUME NEW x, NEW y, NEW d \in Nat \ {0}, NEW n \in Int, NEW m \in Int,
         Equals(x, n, d), Equals(y, m, d)
  PROVE  plus[x, y] \in Numbers /\ Equals(plus[x, y], n + m, d)
<1>1. plus[x, y] \in Numbers /\ Equals(plus[x, y], n * d + m * d, d * d)
  <2>1. Equals(plus[x, y], n * d + m * d, d * d) /\ Lowest(plus[x, y])
    BY PlusEquals
  <2> QED
    BY <2>1 DEF Numbers, Lowest
<1>2. PICK a \in Int, b \in Nat \ {0} : a = plus[x, y][1] /\ b = plus[x, y][2]
  BY <1>1, FractionEquals DEF Equals
<1>3. a * (d * d) = (n * d + m * d) * b
  BY <1>1, <1>2 DEF Equals
<1>4. a * d = (n + m) * b
  <2> DEFINE k == a * d - (n + m) * b
  <2>1. k \in Int /\ k * d = a * (d * d) - (n * d + m * d) * b
    OBVIOUS
  <2>2. k = 0 => a * d = (n + m) * b
    OBVIOUS
  <2>3. k * d = 0
    BY <1>3, <2>1
  <2> HIDE DEF k
  <2>4. (k > 0 => k * d > 0) /\ (k < 0 => k * d < 0)
    BY <2>1
  <2> QED
    BY <2>1, <2>2, <2>3, <2>4
<1>5. n + m \in Int
  OBVIOUS
<1> QED
  BY <1>1, <1>2, <1>4, <1>5 DEF Equals

(* The order of numbers.                                                   *)
LEMMA OrderOf ==
  ASSUME NEW x \in Numbers, NEW y \in Numbers
  PROVE  /\ ~Less(x, x) /\ (Less(x, y) => ~Less(y, x))
         /\ Less(x, y) \/ x = y \/ Less(y, x)
         /\ \A z \in Numbers : Less(x, y) /\ Less(y, z) => Less(x, z)
<1>1. PICK d \in Nat \ {0}, n \in Int, m \in Int : Equals(x, n, d) /\ Equals(y, m, d)
  BY OverTwo
<1>2. (Less(x, y) <=> n < m) /\ (Less(y, x) <=> m < n) /\ (x = y <=> n = m) /\ ~Less(x, x)
  BY <1>1, OrderOfParts
<1> QED
  BY <1>1, <1>2, LessThenNotLess DEF Numbers

LEMMA ZeroPart == ASSUME NEW d \in Nat \ {0} PROVE Zero \in Numbers /\ Equals(Zero, 0, d)
<1>1. Zero \in Numbers /\ Zero \in Fraction /\ Zero[1] = 0 /\ Zero[2] = 1
  BY ZeroNumber DEF Zero, Fraction
<1> QED
  BY <1>1 DEF Equals

(* The sign of a number, and of a product.                                 *)
LEMMA SignOfNumber ==
  ASSUME NEW x \in Numbers, NEW n, NEW d, Equals(x, n, d)
  PROVE  (Less(x, Zero) <=> n < 0) /\ (Less(Zero, x) <=> n > 0) /\ (x = Zero <=> n = 0)
<1>1. n \in Int /\ d \in Nat \ {0}
  BY DEF Equals
<1>2. Zero \in Numbers /\ Equals(Zero, 0, d)
  BY <1>1, ZeroPart
<1> QED
  BY <1>1, <1>2, OrderOfParts

LEMMA SignOfProduct ==
  ASSUME NEW x \in Numbers, NEW y \in Numbers
  PROVE  /\ Times(x, y) \in Numbers
         /\ Less(Times(x, y), Zero) <=> \/ Less(x, Zero) /\ Less(Zero, y)
                                        \/ Less(Zero, x) /\ Less(y, Zero)
         /\ Less(Zero, Times(x, y)) <=> \/ Less(x, Zero) /\ Less(y, Zero)
                                        \/ Less(Zero, x) /\ Less(Zero, y)
<1>1. PICK a \in Int, b \in Nat \ {0}, p \in Int, q \in Nat \ {0} : Equals(x, a, b) /\ Equals(y, p, q)
  BY FractionEquals DEF Numbers
<1>2. Times(x, y) \in Numbers /\ Equals(Times(x, y), a * p, b * q)
  BY <1>1, TimesEquals, PlusNumber DEF Times
<1>3. /\ (Less(x, Zero) <=> a < 0) /\ (Less(Zero, x) <=> a > 0) /\ (Less(y, Zero) <=> p < 0) /\ (Less(Zero, y) <=> p > 0)
      /\ (Less(Times(x, y), Zero) <=> a * p < 0) /\ (Less(Zero, Times(x, y)) <=> a * p > 0)
  BY <1>1, <1>2, SignOfNumber
<1>4. /\ a > 0 /\ p > 0 => a * p > 0
      /\ a > 0 /\ p < 0 => a * p < 0
      /\ a < 0 /\ p > 0 => a * p < 0
      /\ a < 0 /\ p < 0 => a * p > 0
      /\ a = 0 \/ p = 0 => a * p = 0
  BY <1>1
<1> QED
  BY <1>1, <1>2, <1>3, <1>4

(* A part of a number is between it and zero.                              *)
LEMMA PartIsInside ==
  ASSUME NEW q \in Numbers, Less(Zero, q), Less(q, One), NEW x \in Numbers
  PROVE  /\ Times(q, x) \in Numbers
         /\ Less(Zero, x) => Less(Zero, Times(q, x)) /\ Less(Times(q, x), x)
         /\ Less(x, Zero) => Less(x, Times(q, x)) /\ Less(Times(q, x), Zero)
<1>1. PICK d \in Nat \ {0}, n \in Int, m \in Int : Equals(q, n, d) /\ Equals(One, m, d)
  BY OverTwo, ZeroNumber
<1>2. PICK a \in Int, b \in Nat \ {0} : Equals(x, a, b)
  BY FractionEquals DEF Numbers
<1>3. 0 < n /\ n < d
  <2>1. 0 < n /\ n < m
    BY <1>1, ZeroNumber, OrderOfParts, SignOfNumber
  <2>2. One[1] = 1 /\ One[2] = 1
    BY DEF One
  <2> QED
    BY <1>1, <2>1, <2>2 DEF Equals
<1>4. Times(q, x) \in Numbers /\ Equals(Times(q, x), n * a, d * b)
  BY <1>1, <1>2, TimesEquals, PlusNumber DEF Times
<1>5. Equals(x, a * d, b * d) /\ b * d = d * b /\ d * b \in Nat \ {0} /\ a * d \in Int /\ n * a \in Int
  BY <1>1, <1>2, Rescaled
<1>6. (Less(x, Times(q, x)) <=> a * d < n * a) /\ (Less(Times(q, x), x) <=> n * a < a * d)
  BY <1>4, <1>5, OrderOfParts
<1>7. /\ (Less(Zero, x) <=> a > 0) /\ (Less(x, Zero) <=> a < 0)
      /\ (Less(Zero, Times(q, x)) <=> n * a > 0) /\ (Less(Times(q, x), Zero) <=> n * a < 0)
  BY <1>2, <1>4, SignOfNumber
<1>8. (a > 0 => n * a > 0 /\ n * a < a * d) /\ (a < 0 => n * a < 0 /\ a * d < n * a)
  <2>1. PICK r \in Int : r = d - n /\ r > 0
    BY <1>3
  <2>2. a * d - n * a = a * r
    BY <1>2, <2>1
  <2>3. (a > 0 => a * r > 0 /\ n * a > 0) /\ (a < 0 => a * r < 0 /\ n * a < 0)
    BY <1>2, <1>3, <2>1
  <2>4. a * r \in Int /\ n * a \in Int /\ a * d \in Int
    BY <1>1, <1>2, <2>1
  <2> QED
    BY <2>2, <2>3, <2>4
<1> QED
  BY <1>4, <1>6, <1>7, <1>8

(* The parts of a product.                                                 *)
LEMMA ProductParts ==
  ASSUME NEW x \in Numbers, NEW y \in Numbers, NEW p \in Int, NEW q \in Nat \ {0}, NEW k \in Int, NEW d \in Nat \ {0},
         Equals(x, p, q), Equals(y, k, d)
  PROVE  /\ Times(x, y) \in Numbers /\ Equals(Times(x, y), p * k, q * d)
         /\ p * k \in Int /\ q * d \in Nat \ {0}
<1>1. p * k \in Int /\ q * d \in Nat \ {0}
  OBVIOUS
<1>2. Times(x, y) \in Numbers /\ Equals(Times(x, y), p * k, q * d)
  BY TimesEquals, PlusNumber DEF Times
<1> QED
  BY <1>1, <1>2

-----------------------------------------------------------------------------
(* Powers, products and sums of sums.                                      *)

LEMMA TimesNumber ==
  ASSUME NEW x \in Numbers, NEW y \in Numbers
  PROVE  Times(x, y) \in Numbers
BY PlusNumber

LEMMA TimesFunction == \A x, y \in Numbers : times[x, y] \in Numbers
BY PlusNumber DEF Times

(* s has the products of the first values of a row.                        *)
ProductsOf(s, row) == s = [k \in 0 .. Len(row) |-> IF k = 0 THEN One ELSE times[s[k - 1], row[k]]]

LEMMA ProductIsChosen ==
  ASSUME NEW row
  PROVE  Product(row) = (CHOOSE s : ProductsOf(s, row))[Len(row)]
BY DEF Product, ProductsOf

Multiplies(s, row, m) == s[0] = One /\ \A k \in 1 .. m : s[k] = Times(s[k - 1], row[k])

LEMMA ProductHas ==
  ASSUME NEW m \in Nat, NEW row \in [1 .. m -> Numbers]
  PROVE  \E s \in [0 .. m -> Numbers] : Multiplies(s, row, m) /\ Product(row) = s[m]
<1> DEFINE step == [z \in Numbers \X (1 .. m) |-> times[z[1], row[z[2]]]]
<1>1. Len(row) = m
  BY RowOf
<1>2. \A x \in Numbers, k \in 1 .. m : step[x, k] = times[x, row[k]] /\ times[x, row[k]] \in Numbers
  BY TimesFunction
<1>3. step \in [Numbers \X (1 .. m) -> Numbers]
  BY TimesFunction
<1> HIDE DEF step
<1>4. PICK s \in [0 .. m -> Numbers] : Recurs(s, m, One, step)
  BY <1>3, ZeroNumber, Recursion
<1> DEFINE next == [k \in 0 .. m |-> IF k = 0 THEN One ELSE times[s[k - 1], row[k]]]
<1>5. ASSUME NEW k \in 0 .. m PROVE s[k] = next[k]
  <2>1. CASE k = 0
    BY <1>4, <2>1 DEF Recurs
  <2>2. CASE k # 0
    <3>1. k \in 1 .. m /\ k - 1 \in 0 .. m
      BY <2>2
    <3>2. s[k] = step[s[k - 1], k] /\ s[k - 1] \in Numbers
      BY <1>4, <2>2, <3>1 DEF Recurs
    <3> QED
      BY <1>2, <2>2, <3>1, <3>2
  <2> QED
    BY <2>1, <2>2
<1>6. s = [k \in 0 .. m |-> s[k]] /\ next = [k \in 0 .. m |-> next[k]]
  OBVIOUS
<1>7. s = next
  <2> HIDE DEF next
  <2> QED
    BY <1>5, <1>6
<1>8. ProductsOf(s, row)
  BY <1>1, <1>7 DEF ProductsOf
<1>9. PICK f : f = (CHOOSE s_ : ProductsOf(s_, row))
  OBVIOUS
<1>10. ProductsOf(f, row)
  BY <1>8, <1>9
<1>11. f = [k \in 0 .. m |-> IF k = 0 THEN One ELSE times[f[k - 1], row[k]]]
  BY <1>1, <1>10 DEF ProductsOf
<1> HIDE DEF next
<1>12. f[0] = One /\ \A k \in 1 .. m : f[k] = times[f[k - 1], row[k]]
  <2>1. ASSUME NEW k \in 0 .. m PROVE f[k] = IF k = 0 THEN One ELSE times[f[k - 1], row[k]]
    BY <1>11
  <2>2. 0 \in 0 .. m /\ \A k \in 1 .. m : k \in 0 .. m /\ k # 0
    OBVIOUS
  <2> QED
    BY <2>1, <2>2
<1> DEFINE T == { k \in 0 .. m : f[k] \in Numbers }
<1>13. 0 \in T
  <2>1. 0 \in 0 .. m
    OBVIOUS
  <2> QED
    BY <1>12, <2>1, ZeroNumber
<1>14. ASSUME NEW k \in 0 .. (m - 1), k \in T PROVE k + 1 \in T
  <2>1. k + 1 \in 1 .. m /\ k + 1 \in 0 .. m /\ (k + 1) - 1 = k
    OBVIOUS
  <2>2. f[k] \in Numbers /\ row[k + 1] \in Numbers
    BY <1>14, <2>1
  <2>3. f[k + 1] = times[f[k], row[k + 1]]
    BY <1>12, <2>1
  <2>4. times[f[k], row[k + 1]] \in Numbers
    BY <2>2, TimesFunction
  <2> QED
    BY <2>1, <2>3, <2>4
<1> HIDE DEF T
<1>15. 0 .. m \subseteq T
  BY <1>13, <1>14, IntervalInduction
<1>16. f \in [0 .. m -> Numbers]
  BY <1>11, <1>15 DEF T
<1>17. Product(row) = f[m]
  BY <1>1, <1>9, ProductIsChosen
<1> QED
  BY <1>12, <1>16, <1>17 DEF Multiplies, Times

(* And the sums of integers.                                               *)
IntSumsOf(s, row) == s = [k \in 0 .. Len(row) |-> IF k = 0 THEN 0 ELSE s[k - 1] + row[k]]

LEMMA IntSumIsChosen ==
  ASSUME NEW row
  PROVE  IntSum(row) = (CHOOSE s : IntSumsOf(s, row))[Len(row)]
BY DEF IntSum, IntSumsOf

AddsInts(s, row, m) == s[0] = 0 /\ \A k \in 1 .. m : s[k] = s[k - 1] + row[k]

LEMMA IntSumHas ==
  ASSUME NEW m \in Nat, NEW row \in [1 .. m -> Int]
  PROVE  \E s \in [0 .. m -> Int] : AddsInts(s, row, m) /\ IntSum(row) = s[m]
<1> DEFINE step == [z \in Int \X (1 .. m) |-> z[1] + row[z[2]]]
<1>1. Len(row) = m
  BY RowOf
<1>2. ASSUME NEW x \in Int, NEW k \in 1 .. m PROVE step[x, k] = x + row[k] /\ x + row[k] \in Int
  <2>1. << x, k >> \in Int \X (1 .. m) /\ << x, k >>[1] = x /\ << x, k >>[2] = k
    OBVIOUS
  <2>2. step[<< x, k >>] = << x, k >>[1] + row[<< x, k >>[2]]
    BY <2>1, Zenon
  <2>3. x + row[k] \in Int
    OBVIOUS
  <2> QED
    BY <2>1, <2>2, <2>3, Zenon
<1>3. step \in [Int \X (1 .. m) -> Int]
  <2>1. \A z \in Int \X (1 .. m) : z[1] + row[z[2]] \in Int
    OBVIOUS
  <2> QED
    BY <2>1, Zenon
<1> HIDE DEF step
<1>4. PICK s \in [0 .. m -> Int] : Recurs(s, m, 0, step)
  <2>1. 0 \in Int
    OBVIOUS
  <2> QED
    BY <1>3, <2>1, Recursion
<1> DEFINE next == [k \in 0 .. m |-> IF k = 0 THEN 0 ELSE s[k - 1] + row[k]]
<1>5. ASSUME NEW k \in 0 .. m PROVE s[k] = next[k]
  <2>1. CASE k = 0
    BY <1>4, <2>1 DEF Recurs
  <2>2. CASE k # 0
    <3>1. k \in 1 .. m /\ k - 1 \in 0 .. m
      BY <2>2
    <3>2. s[k] = step[s[k - 1], k] /\ s[k - 1] \in Int
      BY <1>4, <2>2, <3>1 DEF Recurs
    <3> QED
      BY <1>2, <2>2, <3>1, <3>2
  <2> QED
    BY <2>1, <2>2
<1>6. s = [k \in 0 .. m |-> s[k]] /\ next = [k \in 0 .. m |-> next[k]]
  OBVIOUS
<1>7. s = next
  <2> HIDE DEF next
  <2> QED
    BY <1>5, <1>6
<1>8. IntSumsOf(s, row)
  BY <1>1, <1>7 DEF IntSumsOf
<1>9. PICK f : f = (CHOOSE s_ : IntSumsOf(s_, row))
  OBVIOUS
<1>10. IntSumsOf(f, row)
  BY <1>8, <1>9
<1>11. f = [k \in 0 .. m |-> IF k = 0 THEN 0 ELSE f[k - 1] + row[k]]
  BY <1>1, <1>10 DEF IntSumsOf
<1> HIDE DEF next
<1>12. f[0] = 0 /\ \A k \in 1 .. m : f[k] = f[k - 1] + row[k]
  <2>1. ASSUME NEW k \in 0 .. m PROVE f[k] = IF k = 0 THEN 0 ELSE f[k - 1] + row[k]
    BY <1>11
  <2>2. 0 \in 0 .. m /\ \A k \in 1 .. m : k \in 0 .. m /\ k # 0
    OBVIOUS
  <2> QED
    BY <2>1, <2>2
<1> DEFINE T == { k \in 0 .. m : f[k] \in Int }
<1>13. 0 \in T
  <2>1. 0 \in 0 .. m
    OBVIOUS
  <2> QED
    BY <1>12, <2>1
<1>14. ASSUME NEW k \in 0 .. (m - 1), k \in T PROVE k + 1 \in T
  <2>1. k + 1 \in 1 .. m /\ k + 1 \in 0 .. m /\ (k + 1) - 1 = k
    OBVIOUS
  <2>2. f[k] \in Int /\ row[k + 1] \in Int
    BY <1>14, <2>1
  <2>3. f[k + 1] = f[k] + row[k + 1]
    BY <1>12, <2>1
  <2>4. f[k] + row[k + 1] \in Int
    BY <2>2
  <2> QED
    BY <2>1, <2>3, <2>4
<1> HIDE DEF T
<1>15. 0 .. m \subseteq T
  BY <1>13, <1>14, IntervalInduction
<1>16. f \in [0 .. m -> Int]
  BY <1>11, <1>15 DEF T
<1>17. IntSum(row) = f[m]
  BY <1>1, <1>9, IntSumIsChosen
<1> QED
  BY <1>12, <1>16, <1>17 DEF AddsInts

(* A row with one more value.                                              *)
LEMMA SumLonger ==
  ASSUME NEW m \in Nat, NEW row \in [1 .. m + 1 -> Numbers],
         NEW first \in [1 .. m -> Numbers], \A k \in 1 .. m : first[k] = row[k]
  PROVE  VecSum(row) = Add(VecSum(first), row[m + 1]) /\ VecSum(first) \in Numbers /\ row[m + 1] \in Numbers
<1>1. m + 1 \in Nat
  OBVIOUS
<1>2. PICK s \in [0 .. m + 1 -> Numbers] : SumsUp(s, row, m + 1) /\ VecSum(row) = s[m + 1]
  BY <1>1, SumHas
<1>3. PICK r \in [0 .. m -> Numbers] : SumsUp(r, first, m) /\ VecSum(first) = r[m]
  BY SumHas
<1> DEFINE S == { k \in 0 .. m : s[k] = r[k] }
<1>4. 0 \in S
  BY <1>2, <1>3, FirstPlace DEF SumsUp
<1>5. ASSUME NEW k \in 0 .. (m - 1), k \in S PROVE k + 1 \in S
  <2>1. k + 1 \in 1 .. m /\ k + 1 \in 1 .. m + 1 /\ k + 1 \in 0 .. m /\ (k + 1) - 1 = k
    OBVIOUS
  <2>2. s[k + 1] = Add(s[k], row[k + 1]) /\ r[k + 1] = Add(r[k], first[k + 1])
    BY <1>2, <1>3, <2>1 DEF SumsUp
  <2> QED
    BY <1>5, <2>1, <2>2
<1> HIDE DEF S
<1>6. m \in S
  <2>1. 0 .. m \subseteq S
    BY <1>4, <1>5, IntervalInduction
  <2> QED
    BY <2>1, FirstPlace
<1>7. m + 1 \in 1 .. m + 1 /\ (m + 1) - 1 = m /\ m \in 0 .. m
  OBVIOUS
<1>8. s[m + 1] = Add(s[m], row[m + 1])
  BY <1>2, <1>7 DEF SumsUp
<1>9. s[m] = r[m]
  BY <1>6 DEF S
<1> QED
  BY <1>2, <1>3, <1>7, <1>8, <1>9

LEMMA SumEmpty ==
  ASSUME NEW row \in [1 .. 0 -> Numbers]
  PROVE  VecSum(row) = Zero
<1>1. \E s \in [0 .. 0 -> Numbers] : SumsUp(s, row, 0) /\ VecSum(row) = s[0]
  BY SumHas
<1> QED
  BY <1>1 DEF SumsUp

LEMMA ProductLonger ==
  ASSUME NEW m \in Nat, NEW row \in [1 .. m + 1 -> Numbers],
         NEW first \in [1 .. m -> Numbers], \A k \in 1 .. m : first[k] = row[k]
  PROVE  Product(row) = Times(Product(first), row[m + 1]) /\ Product(first) \in Numbers
           /\ row[m + 1] \in Numbers
<1>1. m + 1 \in Nat
  OBVIOUS
<1>2. PICK s \in [0 .. m + 1 -> Numbers] : Multiplies(s, row, m + 1) /\ Product(row) = s[m + 1]
  BY <1>1, ProductHas
<1>3. PICK r \in [0 .. m -> Numbers] : Multiplies(r, first, m) /\ Product(first) = r[m]
  BY ProductHas
<1> DEFINE S == { k \in 0 .. m : s[k] = r[k] }
<1>4. 0 \in S
  BY <1>2, <1>3, FirstPlace DEF Multiplies
<1>5. ASSUME NEW k \in 0 .. (m - 1), k \in S PROVE k + 1 \in S
  <2>1. k + 1 \in 1 .. m /\ k + 1 \in 1 .. m + 1 /\ k + 1 \in 0 .. m /\ (k + 1) - 1 = k
    OBVIOUS
  <2>2. s[k + 1] = Times(s[k], row[k + 1]) /\ r[k + 1] = Times(r[k], first[k + 1])
    BY <1>2, <1>3, <2>1 DEF Multiplies
  <2> QED
    BY <1>5, <2>1, <2>2
<1> HIDE DEF S
<1>6. m \in S
  <2>1. 0 .. m \subseteq S
    BY <1>4, <1>5, IntervalInduction
  <2> QED
    BY <2>1, FirstPlace
<1>7. m + 1 \in 1 .. m + 1 /\ (m + 1) - 1 = m /\ m \in 0 .. m
  OBVIOUS
<1>8. s[m + 1] = Times(s[m], row[m + 1])
  BY <1>2, <1>7 DEF Multiplies
<1>9. s[m] = r[m]
  BY <1>6 DEF S
<1> QED
  BY <1>2, <1>3, <1>7, <1>8, <1>9

LEMMA ProductEmpty ==
  ASSUME NEW row \in [1 .. 0 -> Numbers]
  PROVE  Product(row) = One
<1>1. \E s \in [0 .. 0 -> Numbers] : Multiplies(s, row, 0) /\ Product(row) = s[0]
  BY ProductHas
<1> QED
  BY <1>1 DEF Multiplies

LEMMA IntSumLonger ==
  ASSUME NEW m \in Nat, NEW row \in [1 .. m + 1 -> Int],
         NEW first \in [1 .. m -> Int], \A k \in 1 .. m : first[k] = row[k]
  PROVE  IntSum(row) = IntSum(first) + row[m + 1] /\ IntSum(first) \in Int /\ row[m + 1] \in Int
<1>1. m + 1 \in Nat
  OBVIOUS
<1>2. PICK s \in [0 .. m + 1 -> Int] : AddsInts(s, row, m + 1) /\ IntSum(row) = s[m + 1]
  BY <1>1, IntSumHas
<1>3. PICK r \in [0 .. m -> Int] : AddsInts(r, first, m) /\ IntSum(first) = r[m]
  BY IntSumHas
<1> DEFINE S == { k \in 0 .. m : s[k] = r[k] }
<1>4. 0 \in S
  BY <1>2, <1>3, FirstPlace DEF AddsInts
<1>5. ASSUME NEW k \in 0 .. (m - 1), k \in S PROVE k + 1 \in S
  <2>1. k + 1 \in 1 .. m /\ k + 1 \in 1 .. m + 1 /\ k + 1 \in 0 .. m /\ (k + 1) - 1 = k
    OBVIOUS
  <2>2. s[k + 1] = s[k] + row[k + 1] /\ r[k + 1] = r[k] + first[k + 1]
    BY <1>2, <1>3, <2>1 DEF AddsInts
  <2> QED
    BY <1>5, <2>1, <2>2
<1> HIDE DEF S
<1>6. m \in S
  <2>1. 0 .. m \subseteq S
    BY <1>4, <1>5, IntervalInduction
  <2> QED
    BY <2>1, FirstPlace
<1>7. m + 1 \in 1 .. m + 1 /\ (m + 1) - 1 = m /\ m \in 0 .. m
  OBVIOUS
<1>8. s[m + 1] = s[m] + row[m + 1]
  BY <1>2, <1>7 DEF AddsInts
<1>9. s[m] = r[m]
  BY <1>6 DEF S
<1> QED
  BY <1>2, <1>3, <1>7, <1>8, <1>9

LEMMA IntSumEmpty ==
  ASSUME NEW row \in [1 .. 0 -> Int]
  PROVE  IntSum(row) = 0
<1>1. \E s \in [0 .. 0 -> Int] : AddsInts(s, row, 0) /\ IntSum(row) = s[0]
  BY IntSumHas
<1> QED
  BY <1>1 DEF AddsInts

(* Two rows, one behind the other.                                         *)
LEMMA SumOfTwo ==
  ASSUME NEW m \in Nat, NEW l \in Nat, NEW a \in [1 .. m + l -> Numbers],
         NEW b \in [1 .. m -> Numbers], \A k \in 1 .. m : b[k] = a[k],
         NEW c \in [1 .. l -> Numbers], \A k \in 1 .. l : c[k] = a[m + k]
  PROVE  VecSum(a) = Add(VecSum(b), VecSum(c))
<1>1. m + l \in Nat
  OBVIOUS
<1>2. PICK s \in [0 .. m + l -> Numbers] : SumsUp(s, a, m + l) /\ VecSum(a) = s[m + l]
  BY <1>1, SumHas
<1>3. PICK r \in [0 .. m -> Numbers] : SumsUp(r, b, m) /\ VecSum(b) = r[m]
  BY SumHas
<1>4. PICK q \in [0 .. l -> Numbers] : SumsUp(q, c, l) /\ VecSum(c) = q[l]
  BY SumHas
<1> DEFINE S == { k \in 0 .. m : s[k] = r[k] }
<1>5. 0 \in S
  BY <1>2, <1>3, FirstPlace DEF SumsUp
<1>6. ASSUME NEW k \in 0 .. (m - 1), k \in S PROVE k + 1 \in S
  <2>1. k + 1 \in 1 .. m /\ k + 1 \in 1 .. m + l /\ k + 1 \in 0 .. m /\ (k + 1) - 1 = k
    OBVIOUS
  <2>2. s[k + 1] = Add(s[k], a[k + 1]) /\ r[k + 1] = Add(r[k], b[k + 1])
    BY <1>2, <1>3, <2>1 DEF SumsUp
  <2> QED
    BY <1>6, <2>1, <2>2
<1> HIDE DEF S
<1>7. s[m] = r[m]
  <2>1. 0 .. m \subseteq S
    BY <1>5, <1>6, IntervalInduction
  <2> QED
    BY <2>1, FirstPlace DEF S
<1> DEFINE U == { k \in 0 .. l : s[m + k] = Add(r[m], q[k]) }
<1>8. r[m] \in Numbers /\ \A k \in 0 .. l : q[k] \in Numbers
  BY FirstPlace
<1>9. 0 \in U
  <2>1. m + 0 = m /\ q[0] = Zero /\ Add(r[m], Zero) = r[m]
    BY <1>4, <1>8, Neutral DEF SumsUp
  <2> QED
    BY <1>7, <2>1, FirstPlace
<1>10. ASSUME NEW k \in 0 .. (l - 1), k \in U PROVE k + 1 \in U
  <2>1. k + 1 \in 1 .. l /\ k + 1 \in 0 .. l /\ k \in 0 .. l /\ (k + 1) - 1 = k
        /\ m + (k + 1) \in 1 .. m + l /\ (m + (k + 1)) - 1 = m + k
    OBVIOUS
  <2>2. s[m + (k + 1)] = Add(s[m + k], a[m + (k + 1)]) /\ q[k + 1] = Add(q[k], c[k + 1])
    BY <1>2, <1>4, <2>1 DEF SumsUp
  <2>3. c[k + 1] = a[m + (k + 1)] /\ c[k + 1] \in Numbers /\ q[k] \in Numbers
    BY <2>1
  <2>4. s[m + k] = Add(r[m], q[k])
    BY <1>10
  <2>5. Add(Add(r[m], q[k]), c[k + 1]) = Add(r[m], Add(q[k], c[k + 1]))
    BY <1>8, <2>3, PlusRegroups
  <2>6. s[m + (k + 1)] = Add(r[m], q[k + 1])
    BY <2>2, <2>3, <2>4, <2>5
  <2> QED
    BY <2>1, <2>6
<1> HIDE DEF U
<1>11. s[m + l] = Add(r[m], q[l])
  <2>1. 0 .. l \subseteq U
    BY <1>9, <1>10, IntervalInduction
  <2> QED
    BY <2>1, FirstPlace DEF U
<1> QED
  BY <1>2, <1>3, <1>4, <1>11

(* Place j of block p, when a row is cut into blocks of l.                 *)
LEMMA BlockPlace ==
  ASSUME NEW n \in Nat, NEW l \in Nat, NEW p \in 1 .. n, NEW j \in 1 .. l
  PROVE  /\ n * l \in Nat /\ (p - 1) * l + j \in 1 .. n * l
         /\ ((((p - 1) * l + j) - 1) \div l) + 1 = p
         /\ ((((p - 1) * l + j) - 1) % l) + 1 = j
<1>1. PICK q \in Nat : q = p - 1
  OBVIOUS
<1>2. PICK k \in Nat : k = q * l
  OBVIOUS
<1>3. PICK e \in Nat : n = (q + 1) + e
  <2>1. n - (q + 1) \in Nat /\ n = (q + 1) + (n - (q + 1))
    BY <1>1
  <2> QED
    BY <2>1
<1>4. PICK z \in Nat : z = e * l
  OBVIOUS
<1>5. n * l = (k + l) + z
  <2>1. ((q + 1) + e) * l = (q * l + l) + e * l
    OBVIOUS
  <2> QED
    BY <1>2, <1>3, <1>4, <2>1
<1>6. (p - 1) * l + j = k + j
  BY <1>1, <1>2
<1>7. n * l \in Nat /\ k + j \in 1 .. n * l
  BY <1>5
<1>8. l \in Nat \ {0} /\ j - 1 \in 0 .. (l - 1)
  OBVIOUS
<1>9. (k + j) - 1 = l * q + (j - 1)
  <2>1. q * l = l * q
    OBVIOUS
  <2> QED
    BY <1>2, <2>1
<1>10. PICK a \in Int, b \in 0 .. (l - 1) : a = ((k + j) - 1) \div l /\ b = ((k + j) - 1) % l
              /\ (k + j) - 1 = l * a + b
  <2>1. (k + j) - 1 \in Int
    OBVIOUS
  <2> QED
    BY <1>8, <2>1, Quotient
<1>11. a = q /\ b = j - 1
  <2>1. l * (a - q) = (j - 1) - b
    <3>1. l * (a - q) = l * a - l * q
      OBVIOUS
    <3> QED
      BY <1>9, <1>10, <3>1
  <2>2. ~(a - q >= 1)
    <3>1. SUFFICES ASSUME a - q >= 1 PROVE FALSE
      OBVIOUS
    <3>2. PICK h \in Nat : a - q = h + 1
      BY <3>1
    <3>3. l * (h + 1) = l * h + l /\ l * h \in Nat
      OBVIOUS
    <3> QED
      BY <1>8, <2>1, <3>2, <3>3
  <2>3. ~(a - q <= -1)
    <3>1. SUFFICES ASSUME a - q <= -1 PROVE FALSE
      OBVIOUS
    <3>2. PICK h \in Nat : a - q = -(h + 1)
      <4>1. -(a - q) - 1 \in Nat /\ a - q = -((-(a - q) - 1) + 1)
        BY <3>1
      <4> QED
        BY <4>1
    <3>3. l * (-(h + 1)) = -(l * h) - l /\ l * h \in Nat
      OBVIOUS
    <3> QED
      BY <1>8, <2>1, <3>2, <3>3
  <2>4. a - q = 0
    BY <2>2, <2>3
  <2>5. l * 0 = 0
    OBVIOUS
  <2> QED
    BY <2>1, <2>4, <2>5
<1> QED
  BY <1>1, <1>6, <1>7, <1>10, <1>11

(* Each place is in a block.                                               *)
LEMMA PlaceInBlocks ==
  ASSUME NEW n \in Nat, NEW l \in Nat, NEW m \in 1 .. n * l
  PROVE  /\ ((m - 1) \div l) + 1 \in 1 .. n /\ ((m - 1) % l) + 1 \in 1 .. l
         /\ m = (((m - 1) \div l) + 1 - 1) * l + (((m - 1) % l) + 1)
<1>1. l # 0
  <2>1. n * 0 = 0
    OBVIOUS
  <2> QED
    BY <2>1
<1>2. PICK a \in Int, b \in 0 .. (l - 1) : a = (m - 1) \div l /\ b = (m - 1) % l /\ m - 1 = l * a + b
  <2>1. m - 1 \in Int /\ l \in Nat \ {0}
    BY <1>1
  <2> QED
    BY <2>1, Quotient
<1>3. ~(a < 0)
  <2>1. SUFFICES ASSUME a < 0 PROVE FALSE
    OBVIOUS
  <2>2. PICK h \in Nat : a = -(h + 1)
    <3>1. -a - 1 \in Nat /\ a = -((-a - 1) + 1)
      BY <2>1
    <3> QED
      BY <3>1
  <2>3. l * (-(h + 1)) = -(l * h) - l /\ l * h \in Nat
    OBVIOUS
  <2> QED
    BY <1>2, <2>2, <2>3
<1>4. a < n
  <2>1. SUFFICES ASSUME a >= n PROVE FALSE
    OBVIOUS
  <2>2. PICK h \in Nat : a = n + h
    <3>1. a - n \in Nat /\ a = n + (a - n)
      BY <2>1
    <3> QED
      BY <3>1
  <2>3. l * (n + h) = n * l + l * h /\ l * h \in Nat /\ n * l \in Nat
    OBVIOUS
  <2> QED
    BY <1>2, <2>2, <2>3
<1>5. a + 1 \in 1 .. n /\ b + 1 \in 1 .. l /\ (a + 1) - 1 = a /\ a * l = l * a
  BY <1>2, <1>3, <1>4
<1>6. m = l * a + (b + 1)
  BY <1>2
<1> QED
  BY <1>2, <1>5, <1>6

(* b has the sums of the blocks of a.                                      *)
BlockSums(b, a, n, l) ==
  \A p \in 1 .. n : \E c \in [1 .. l -> Numbers] :
    b[p] = VecSum(c) /\ \A j \in 1 .. l : c[j] = a[(p - 1) * l + j]

(* The sums of the blocks have the sum of the row.                         *)
LEMMA SumOfBlocks ==
  ASSUME NEW n \in Nat, NEW l \in Nat, NEW a \in [1 .. n * l -> Numbers],
         NEW b \in [1 .. n -> Numbers], BlockSums(b, a, n, l)
  PROVE  VecSum(a) = VecSum(b)
<1> DEFINE Same(k) == \A v \in [1 .. k * l -> Numbers], w \in [1 .. k -> Numbers] : BlockSums(w, v, k, l)
             => VecSum(v) = VecSum(w)
           S == { k \in Nat : Same(k) }
<1>1. 0 \in S
  <2>1. 0 * l = 0
    OBVIOUS
  <2>2. \A v \in [1 .. 0 -> Numbers] : VecSum(v) = Zero
    BY SumEmpty
  <2> QED
    BY <2>1, <2>2
<1>2. ASSUME NEW k \in Nat, k \in S PROVE k + 1 \in S
  <2>1. Same(k)
    BY <1>2
  <2> HIDE DEF S
  <2>2. ASSUME NEW v \in [1 .. (k + 1) * l -> Numbers],
               NEW w \in [1 .. k + 1 -> Numbers], BlockSums(w, v, k + 1, l)
        PROVE  VecSum(v) = VecSum(w)
    <3>1. PICK m \in Nat : m = k * l
      OBVIOUS
    <3>2. (k + 1) * l = m + l
      BY <3>1
    <3>3. PICK x : x = [i \in 1 .. m |-> v[i]]
      OBVIOUS
    <3>4. x \in [1 .. m -> Numbers] /\ \A i \in 1 .. m : x[i] = v[i]
      BY <3>2, <3>3
    <3>5. PICK y : y = [i \in 1 .. k |-> w[i]]
      OBVIOUS
    <3>6. y \in [1 .. k -> Numbers] /\ \A i \in 1 .. k : y[i] = w[i]
      BY <3>5
    <3>7. BlockSums(y, x, k, l)
      <4> SUFFICES ASSUME NEW p \in 1 .. k
                   PROVE \E c \in [1 .. l -> Numbers] : y[p] = VecSum(c)
                           /\ \A j \in 1 .. l : c[j] = x[(p - 1) * l + j]
        BY DEF BlockSums
      <4>1. p \in 1 .. k + 1
        OBVIOUS
      <4>2. PICK c \in [1 .. l -> Numbers] : w[p] = VecSum(c) /\ \A j \in 1 .. l : c[j] = v[(p - 1) * l + j]
        BY <2>2, <4>1 DEF BlockSums
      <4>3. ASSUME NEW j \in 1 .. l PROVE c[j] = x[(p - 1) * l + j]
        <5>1. (p - 1) * l + j \in 1 .. m
          BY <3>1, BlockPlace
        <5> QED
          BY <3>4, <4>2, <5>1
      <4> QED
        BY <3>6, <4>2, <4>3
    <3>8. VecSum(x) = VecSum(y)
      BY <2>1, <3>1, <3>4, <3>6, <3>7
    <3>9. k + 1 \in 1 .. k + 1 /\ (k + 1) - 1 = k
      OBVIOUS
    <3>10. PICK c \in [1 .. l -> Numbers] : w[k + 1] = VecSum(c) /\ \A j \in 1 .. l : c[j] = v[m + j]
      <4>1. PICK e \in [1 .. l -> Numbers] : w[k + 1] = VecSum(e)
                   /\ \A j \in 1 .. l : e[j] = v[((k + 1) - 1) * l + j]
        BY <2>2, <3>9 DEF BlockSums
      <4> QED
        BY <3>1, <3>9, <4>1
    <3>11. VecSum(v) = Add(VecSum(x), VecSum(c))
      <4>1. v \in [1 .. m + l -> Numbers]
        BY <3>2
      <4> QED
        BY <4>1, <3>4, <3>10, SumOfTwo
    <3>12. VecSum(w) = Add(VecSum(y), w[k + 1])
      BY <3>6, SumLonger
    <3> QED
      BY <3>8, <3>10, <3>11, <3>12
  <2> QED
    BY <2>2 DEF S
<1> HIDE DEF S
<1>3. n \in S
  BY <1>1, <1>2, SetInduction
<1> QED
  BY <1>3 DEF S

(* The sums of the rows of a, and of its columns.                          *)
RowSums(r, a, n) == \A p \in 1 .. n : r[p] = VecSum(a[p])
ColumnSums(c, a, n, m) ==
  \A j \in 1 .. m : \E col \in [1 .. n -> Numbers] : c[j] = VecSum(col) /\ \A p \in 1 .. n : col[p] = a[p][j]

(* The rows of the table a come to r, and its columns to c.                *)
Crossed(r, c, a, n, m) ==
  /\ a \in [1 .. n -> [1 .. m -> Numbers]] /\ r \in [1 .. n -> Numbers] /\ c \in [1 .. m -> Numbers]
  /\ RowSums(r, a, n) /\ ColumnSums(c, a, n, m)

(* Rows and columns have the same sum.                                     *)
LEMMA SumOfSums ==
  ASSUME NEW n \in Nat, NEW m \in Nat, NEW a, NEW r, NEW c, Crossed(r, c, a, n, m)
  PROVE  VecSum(r) = VecSum(c)
<1>0. /\ a \in [1 .. n -> [1 .. m -> Numbers]] /\ r \in [1 .. n -> Numbers] /\ c \in [1 .. m -> Numbers]
      /\ RowSums(r, a, n) /\ ColumnSums(c, a, n, m)
  BY DEF Crossed
<1> DEFINE Same(k) == \A b \in [1 .. k -> [1 .. m -> Numbers]], u \in [1 .. k -> Numbers], v \in [1 .. m -> Numbers] :
                        RowSums(u, b, k) /\ ColumnSums(v, b, k, m) => VecSum(u) = VecSum(v)
           S == { k \in Nat : Same(k) }
<1>1. 0 \in S
  <2> SUFFICES ASSUME NEW b, NEW u \in [1 .. 0 -> Numbers],
                      NEW v \in [1 .. m -> Numbers], ColumnSums(v, b, 0, m)
               PROVE  VecSum(u) = VecSum(v)
    OBVIOUS
  <2>1. \A x \in [1 .. 0 -> Numbers] : VecSum(x) = Zero
    BY SumEmpty
  <2>2. \A j \in 1 .. m : v[j] = Zero
    BY <2>1 DEF ColumnSums
  <2> QED
    BY <2>1, <2>2, SumOfZeros
<1>2. ASSUME NEW k \in Nat, k \in S PROVE k + 1 \in S
  <2>1. Same(k)
    BY <1>2
  <2> HIDE DEF S
  <2>2. ASSUME NEW b \in [1 .. k + 1 -> [1 .. m -> Numbers]], NEW u \in [1 .. k + 1 -> Numbers],
               NEW v \in [1 .. m -> Numbers],
               RowSums(u, b, k + 1), ColumnSums(v, b, k + 1, m)
        PROVE  VecSum(u) = VecSum(v)
    <3>1. k + 1 \in 1 .. k + 1 /\ \A p \in 1 .. k : p \in 1 .. k + 1
      OBVIOUS
    <3>2. PICK d : d = [p \in 1 .. k |-> b[p]]
      OBVIOUS
    <3>3. d \in [1 .. k -> [1 .. m -> Numbers]] /\ \A p \in 1 .. k : d[p] = b[p]
      BY <3>1, <3>2
    <3>4. PICK x : x = [p \in 1 .. k |-> u[p]]
      OBVIOUS
    <3>5. x \in [1 .. k -> Numbers] /\ (\A p \in 1 .. k : x[p] = u[p]) /\ RowSums(x, d, k)
      BY <2>2, <3>1, <3>3, <3>4 DEF RowSums
    <3> DEFINE Col(j) == [p \in 1 .. k |-> d[p][j]]
    <3>6. PICK y : y = [j \in 1 .. m |-> VecSum(Col(j))]
      OBVIOUS
    <3>7. ASSUME NEW j \in 1 .. m
          PROVE  Col(j) \in [1 .. k -> Numbers] /\ (\A p \in 1 .. k : Col(j)[p] = d[p][j])
                   /\ VecSum(Col(j)) \in Numbers
                 /\ y[j] = VecSum(Col(j))
      <4>1. Col(j) \in [1 .. k -> Numbers] /\ (\A p \in 1 .. k : Col(j)[p] = d[p][j])
        BY <3>3
      <4>2. y[j] = VecSum(Col(j))
        BY <3>6
      <4> HIDE DEF Col
      <4> QED
        BY <4>1, <4>2, SumNumber
    <3> HIDE DEF Col
    <3>8. y \in [1 .. m -> Numbers] /\ ColumnSums(y, d, k, m)
      BY <3>6, <3>7 DEF ColumnSums
    <3>9. VecSum(x) = VecSum(y)
      BY <2>1, <3>3, <3>5, <3>8
    <3>10. PICK last : last = b[k + 1]
      OBVIOUS
    <3>11. last \in [1 .. m -> Numbers]
      BY <3>1, <3>10
    <3>12. AddsUp(v, y, last, m)
      <4> SUFFICES ASSUME NEW j \in 1 .. m PROVE v[j] = Add(y[j], last[j])
        BY DEF AddsUp
      <4>1. PICK col \in [1 .. k + 1 -> Numbers] : v[j] = VecSum(col) /\ \A p \in 1 .. k + 1 : col[p] = b[p][j]
        BY <2>2 DEF ColumnSums
      <4>2. \A p \in 1 .. k : Col(j)[p] = col[p]
        BY <3>1, <3>3, <3>7, <4>1
      <4>3. VecSum(col) = Add(VecSum(Col(j)), col[k + 1])
        BY <3>7, <4>2, SumLonger
      <4> QED
        BY <3>1, <3>7, <3>10, <4>1, <4>3
    <3>13. VecSum(v) = Add(VecSum(y), VecSum(last))
      BY <3>8, <3>11, <3>12, SumOfPlus
    <3>14. VecSum(u) = Add(VecSum(x), u[k + 1])
      BY <3>5, SumLonger
    <3>15. u[k + 1] = VecSum(last)
      BY <2>2, <3>1, <3>10 DEF RowSums
    <3> QED
      BY <3>9, <3>13, <3>14, <3>15
  <2>3. Same(k + 1)
    BY <2>2
  <2> HIDE DEF Same
  <2> QED
    BY <2>3 DEF S
<1> HIDE DEF S
<1>3. n \in S
  BY <1>1, <1>2, SetInduction
<1> QED
  BY <1>0, <1>3 DEF S

-----------------------------------------------------------------------------
(* Exponentials.                                                           *)

PowerOn(f) == f = [n \in Nat |-> IF n = 0 THEN 1 ELSE 2 * f[n - 1]]

LEMMA PowerIsChosen == power = CHOOSE f : PowerOn(f)
BY DEF power, PowerOn

(* s has the first powers.                                                 *)
Doubles(s, m) == s[0] = 1 /\ \A k \in 1 .. m : s[k] = 2 * s[k - 1]

LEMMA DoublesExist ==
  ASSUME NEW m \in Nat
  PROVE  \E s \in [0 .. m -> Nat] : Doubles(s, m)
<1> DEFINE step == [z \in Nat \X (1 .. m) |-> 2 * z[1]]
<1>1. ASSUME NEW x \in Nat, NEW k \in 1 .. m PROVE step[x, k] = 2 * x
  <2>1. << x, k >> \in Nat \X (1 .. m) /\ << x, k >>[1] = x
    OBVIOUS
  <2>2. step[<< x, k >>] = 2 * << x, k >>[1]
    BY <2>1, Zenon
  <2> QED
    BY <2>1, <2>2, Zenon
<1>2. step \in [Nat \X (1 .. m) -> Nat]
  <2>1. \A z \in Nat \X (1 .. m) : 2 * z[1] \in Nat
    OBVIOUS
  <2> QED
    BY <2>1, Zenon
<1> HIDE DEF step
<1>3. PICK s \in [0 .. m -> Nat] : Recurs(s, m, 1, step)
  <2>1. 1 \in Nat
    OBVIOUS
  <2> QED
    BY <1>2, <2>1, Recursion
<1>4. \A k \in 1 .. m : s[k - 1] \in Nat
  OBVIOUS
<1> QED
  BY <1>1, <1>3, <1>4 DEF Recurs, Doubles

LEMMA DoublesAgree ==
  ASSUME NEW m \in Nat, NEW n \in Nat, NEW s, NEW r, Doubles(s, m), Doubles(r, n), NEW k \in Nat, k <= m, k <= n
  PROVE  s[k] = r[k]
<1> DEFINE S == { j \in Nat : j <= m /\ j <= n => s[j] = r[j] }
<1>1. 0 \in S
  BY DEF Doubles
<1>2. ASSUME NEW j \in Nat, j \in S PROVE j + 1 \in S
  <2> SUFFICES ASSUME j + 1 <= m, j + 1 <= n PROVE s[j + 1] = r[j + 1]
    OBVIOUS
  <2>1. j + 1 \in 1 .. m /\ j + 1 \in 1 .. n /\ (j + 1) - 1 = j /\ j <= m /\ j <= n
    OBVIOUS
  <2>2. s[j + 1] = 2 * s[j] /\ r[j + 1] = 2 * r[j]
    BY <2>1 DEF Doubles
  <2> QED
    BY <1>2, <2>1, <2>2
<1> HIDE DEF S
<1>3. k \in S
  BY <1>1, <1>2, SetInduction
<1> QED
  BY <1>3 DEF S

LEMMA PowerDoubles ==
  /\ power[0] = 1
  /\ \A n \in Nat : power[n] \in Nat \ {0} /\ power[n + 1] = 2 * power[n]
<1> DEFINE Upto(n) == CHOOSE s \in [0 .. n -> Nat] : Doubles(s, n)
           f == [n \in Nat |-> Upto(n)[n]]
<1>1. ASSUME NEW n \in Nat PROVE Upto(n) \in [0 .. n -> Nat] /\ Doubles(Upto(n), n)
  BY DoublesExist
<1>2. \A n \in Nat : f[n] = Upto(n)[n]
  OBVIOUS
<1> HIDE DEF Upto
<1>3. f[0] = 1
  <2>1. 0 \in Nat
    OBVIOUS
  <2> QED
    BY <1>1, <1>2, <2>1 DEF Doubles
<1>4. ASSUME NEW n \in Nat PROVE f[n + 1] = 2 * f[n]
  <2>1. n + 1 \in Nat /\ n + 1 \in 1 .. n + 1 /\ (n + 1) - 1 = n /\ n <= n + 1 /\ n <= n
    OBVIOUS
  <2>2. Doubles(Upto(n), n) /\ Doubles(Upto(n + 1), n + 1)
    BY <1>1, <2>1
  <2>3. Upto(n + 1)[n + 1] = 2 * Upto(n + 1)[n]
    BY <2>1, <2>2 DEF Doubles
  <2>4. Upto(n + 1)[n] = Upto(n)[n]
    BY <2>1, <2>2, DoublesAgree
  <2> QED
    BY <1>2, <2>1, <2>3, <2>4
<1> DEFINE next == [n \in Nat |-> IF n = 0 THEN 1 ELSE 2 * f[n - 1]]
<1> HIDE DEF f
<1>5. ASSUME NEW n \in Nat PROVE f[n] = next[n]
  <2>1. CASE n = 0
    BY <1>3, <2>1
  <2>2. CASE n # 0
    <3>1. PICK j \in Nat : j = n - 1
      BY <2>2
    <3>2. n = j + 1
      BY <3>1
    <3>3. next[n] = 2 * f[n - 1]
      BY <2>2
    <3> HIDE DEF next
    <3> QED
      BY <1>4, <3>1, <3>2, <3>3
  <2> QED
    BY <2>1, <2>2
<1>6. f = [n \in Nat |-> f[n]] /\ next = [n \in Nat |-> next[n]]
  BY DEF f
<1>7. f = next
  <2> HIDE DEF next
  <2> QED
    BY <1>5, <1>6
<1>8. PowerOn(f)
  BY <1>7 DEF PowerOn
<1> HIDE DEF next
<1>9. PowerOn(power)
  BY <1>8, PowerIsChosen
<1>10. power = [n \in Nat |-> IF n = 0 THEN 1 ELSE 2 * power[n - 1]]
  BY <1>9 DEF PowerOn
<1>11. \A n \in Nat : power[n] = IF n = 0 THEN 1 ELSE 2 * power[n - 1]
  BY <1>10
<1>12. power[0] = 1
  BY <1>11
<1>13. ASSUME NEW n \in Nat PROVE power[n + 1] = 2 * power[n]
  <2>1. n + 1 \in Nat /\ n + 1 # 0 /\ (n + 1) - 1 = n
    OBVIOUS
  <2> QED
    BY <1>11, <2>1
<1> DEFINE S == { n \in Nat : power[n] \in Nat \ {0} }
<1>14. 0 \in S
  BY <1>12
<1>15. ASSUME NEW n \in Nat, n \in S PROVE n + 1 \in S
  <2>1. power[n + 1] = 2 * power[n] /\ power[n] \in Nat \ {0}
    BY <1>13, <1>15
  <2> QED
    BY <2>1
<1> HIDE DEF S
<1>16. Nat \subseteq S
  BY <1>14, <1>15, SetInduction
<1> QED
  BY <1>12, <1>13, <1>16 DEF S

Two == << 2, 1 >>

LEMMA TwoNumber == Two \in Numbers /\ Equals(Two, 2, 1)
<1>1. 2 \in Int
  OBVIOUS
<1> QED
  BY <1>1, WholeEquals DEF Two, Numbers, Equals

LEMMA ExpNumber ==
  ASSUME NEW n \in Int
  PROVE  /\ Exp(n) \in Numbers /\ Positive(Exp(n))
         /\ n >= 0 => Equals(Exp(n), power[n], 1)
         /\ n <= 0 => Equals(Exp(n), 1, power[-n])
<1>1. CASE n >= 0
  <2>1. PICK p \in Nat \ {0} : p = power[n]
    BY <1>1, PowerDoubles
  <2>2. Exp(n) = << p, 1 >>
    BY <1>1, <2>1 DEF Exp
  <2>3. Equals(Exp(n), p, 1) /\ Lowest(Exp(n))
    BY <2>2, WholeEquals
  <2>4. n <= 0 => p = 1 /\ power[-n] = 1
    <3>1. n <= 0 => n = 0 /\ -n = 0
      BY <1>1
    <3> QED
      BY <2>1, <3>1, PowerDoubles
  <2> QED
    BY <2>1, <2>2, <2>3, <2>4 DEF Numbers, Positive, Fraction, Equals
<1>2. CASE n < 0
  <2>1. PICK m \in Nat : m = -n
    BY <1>2
  <2>2. PICK p \in Nat \ {0} : p = power[m]
    BY PowerDoubles
  <2>3. Exp(n) = << 1, p >>
    BY <1>2, <2>1, <2>2 DEF Exp
  <2>4. << 1, p >> \in Fraction /\ << 1, p >>[1] = 1 /\ << 1, p >>[2] = p
    BY DEF Fraction
  <2>5. Bezout(1, p)
    <3>1. 1 * 1 + 0 * p = 1 /\ 1 \in Int /\ 0 \in Int
      OBVIOUS
    <3> QED
      BY <3>1 DEF Bezout
  <2>6. Lowest(<< 1, p >>)
    BY <2>4, <2>5, LowestMeans
  <2>7. Equals(<< 1, p >>, 1, p)
    BY <2>4 DEF Equals
  <2> QED
    BY <1>2, <2>1, <2>2, <2>3, <2>4, <2>6, <2>7 DEF Numbers, Positive
<1> QED
  BY <1>1, <1>2

LEMMA ExpDoubles ==
  ASSUME NEW n \in Int
  PROVE  Exp(n + 1) = Times(Two, Exp(n))
<1>1. n + 1 \in Int /\ Exp(n) \in Numbers /\ Exp(n + 1) \in Numbers
  BY ExpNumber
<1>2. Times(Two, Exp(n)) \in Numbers
  BY <1>1, TwoNumber, PlusNumber
<1>3. CASE n >= 0
  <2>1. PICK p \in Nat \ {0} : p = power[n] /\ power[n + 1] = 2 * p
    BY <1>3, PowerDoubles
  <2>2. Equals(Exp(n), p, 1) /\ Equals(Exp(n + 1), 2 * p, 1)
    BY <1>1, <1>3, <2>1, ExpNumber
  <2>3. Equals(Times(Two, Exp(n)), 2 * p, 1 * 1)
    BY <2>2, TwoNumber, TimesEquals DEF Times
  <2>4. (2 * p) * (1 * 1) = (2 * p) * 1
    OBVIOUS
  <2> QED
    BY <1>1, <1>2, <2>2, <2>3, <2>4, SameNumber DEF Numbers
<1>4. CASE n < 0
  <2>1. PICK m \in Nat : m = -(n + 1)
    BY <1>4
  <2>2. -n = m + 1
    BY <2>1
  <2>3. PICK p \in Nat \ {0} : p = power[m] /\ power[m + 1] = 2 * p
    BY PowerDoubles
  <2>4. Equals(Exp(n), 1, 2 * p) /\ Equals(Exp(n + 1), 1, p)
    <3>1. n <= 0 /\ n + 1 <= 0
      BY <1>4
    <3> QED
      BY <1>1, <2>1, <2>2, <2>3, <3>1, ExpNumber
  <2>5. Equals(Times(Two, Exp(n)), 2 * 1, 1 * (2 * p))
    BY <2>4, TwoNumber, TimesEquals DEF Times
  <2>6. 1 * (1 * (2 * p)) = (2 * 1) * p
    OBVIOUS
  <2> QED
    BY <1>1, <1>2, <2>4, <2>5, <2>6, SameNumber DEF Numbers
<1> QED
  BY <1>3, <1>4

(* A factor that is not zero is taken out.                                 *)
LEMMA TimesCancels ==
  ASSUME NEW c \in Numbers, c # Zero, NEW x \in Numbers, NEW y \in Numbers, Times(c, x) = Times(c, y)
  PROVE  x = y
<1>1. PICK d \in Nat \ {0}, n \in Int, m \in Int : Equals(x, n, d) /\ Equals(y, m, d)
  BY OverTwo
<1>2. PICK p \in Int, q \in Nat \ {0} : Equals(c, p, q)
  BY FractionEquals DEF Numbers
<1>3. /\ Times(c, x) \in Numbers /\ Equals(Times(c, x), p * n, q * d)
      /\ Times(c, y) \in Numbers /\ Equals(Times(c, y), p * m, q * d)
      /\ p * n \in Int /\ p * m \in Int /\ q * d \in Nat \ {0}
  BY <1>1, <1>2, ProductParts
<1>4. PICK D \in Nat \ {0}, P \in Int, M \in Int : D = q * d /\ P = p * n /\ M = p * m
  BY <1>3
<1>5. P = M
  BY <1>3, <1>4, OrderOfParts
<1>6. p # 0
  BY <1>2, SignOfNumber
<1>7. n = m
  BY <1>4, <1>5, <1>6, Cancel
<1> QED
  BY <1>1, <1>7, OrderOfParts

LEMMA PositiveTogether ==
  ASSUME NEW x \in Numbers, NEW y \in Numbers, Positive(x), Positive(y)
  PROVE  x # Zero /\ Positive(Add(x, y)) /\ Positive(Times(x, y))
<1>1. ~Positive(Zero)
  BY DEF Positive, Zero
<1> QED
  BY <1>1, PositiveResults DEF Add, Times

(* The exponential of a sum is the product.                                *)
LEMMA ExpSum ==
  ASSUME NEW a \in Int, NEW b \in Int
  PROVE  Exp(a + b) = Times(Exp(a), Exp(b))
<1>1. \A n \in Int : Exp(n) \in Numbers /\ Exp(n + 1) = Times(Two, Exp(n))
  BY ExpNumber, ExpDoubles
<1>2. Two \in Numbers /\ Two # Zero
  BY TwoNumber DEF Two, Zero
<1>3. Exp(0) = One
  BY PowerDoubles DEF Exp, One
<1>4. \A x \in Numbers, y \in Numbers : Times(x, Times(Two, y)) = Times(Two, Times(x, y))
  <2> SUFFICES ASSUME NEW x \in Numbers, NEW y \in Numbers
               PROVE Times(x, Times(Two, y)) = Times(Two, Times(x, y))
    OBVIOUS
  <2>1. Times(x, Times(Two, y)) = Times(Times(x, Two), y) /\ Times(Times(Two, x), y) = Times(Two, Times(x, y))
    BY <1>2, TimesRegroups
  <2>2. Times(x, Two) = Times(Two, x)
    BY <1>2, TimesTurns
  <2> QED
    BY <2>1, <2>2
<1> DEFINE S == { k \in Nat : Exp(a + k) = Times(Exp(a), Exp(k)) }
           U == { k \in Nat : Exp(a - k) = Times(Exp(a), Exp(0 - k)) }
<1>5. Times(Exp(a), One) = Exp(a)
  BY <1>1, Neutral
<1>6. 0 \in S /\ 0 \in U
  <2>1. a + 0 = a /\ a - 0 = a /\ 0 - 0 = 0
    OBVIOUS
  <2> QED
    BY <1>3, <1>5, <2>1
<1>7. ASSUME NEW k \in Nat, k \in S PROVE k + 1 \in S
  <2>1. a + k \in Int /\ a + (k + 1) = (a + k) + 1
    OBVIOUS
  <2>2. Exp(a + k) = Times(Exp(a), Exp(k))
    BY <1>7
  <2>3. Exp((a + k) + 1) = Times(Two, Exp(a + k)) /\ Exp(k + 1) = Times(Two, Exp(k))
    BY <1>1, <2>1
  <2>4. Times(Exp(a), Times(Two, Exp(k))) = Times(Two, Times(Exp(a), Exp(k)))
    BY <1>1, <1>4
  <2>5. Exp(a + (k + 1)) = Times(Exp(a), Exp(k + 1))
    BY <2>1, <2>2, <2>3, <2>4
  <2> QED
    BY <2>5
<1>8. ASSUME NEW k \in Nat, k \in U PROVE k + 1 \in U
  <2>1. PICK n \in Int, m \in Int : n = a - (k + 1) /\ m = 0 - (k + 1)
    OBVIOUS
  <2>2. a - k = n + 1 /\ 0 - k = m + 1
    BY <2>1
  <2>3. Exp(n + 1) = Times(Exp(a), Exp(m + 1))
    BY <1>8, <2>2
  <2>4. Exp(n + 1) = Times(Two, Exp(n)) /\ Exp(m + 1) = Times(Two, Exp(m))
    BY <1>1
  <2>5. Times(Exp(a), Times(Two, Exp(m))) = Times(Two, Times(Exp(a), Exp(m)))
    BY <1>1, <1>4
  <2>6. Exp(n) \in Numbers /\ Times(Exp(a), Exp(m)) \in Numbers
    BY <1>1, PlusNumber
  <2>7. Exp(n) = Times(Exp(a), Exp(m))
    BY <1>2, <2>3, <2>4, <2>5, <2>6, TimesCancels
  <2> QED
    BY <2>1, <2>7
<1>9. Nat \subseteq S /\ Nat \subseteq U
  <2> HIDE DEF S, U
  <2> QED
    BY <1>6, <1>7, <1>8, SetInduction
<1>10. CASE b >= 0
  BY <1>9, <1>10
<1>11. CASE b < 0
  <2>1. PICK k \in Nat : k = -b
    BY <1>11
  <2>2. a - k = a + b /\ 0 - k = b
    BY <2>1
  <2>3. k \in U
    BY <1>9
  <2> QED
    BY <2>2, <2>3
<1> QED
  BY <1>10, <1>11

(* What Over gives for a positive divisor.                                 *)
LEMMA OverPositive ==
  ASSUME NEW x \in Numbers, NEW y \in Numbers, Positive(y)
  PROVE  /\ Over(x, y) \in Numbers /\ Times(Over(x, y), y) = x
         /\ Positive(x) => Positive(Over(x, y))
<1>1. Over(x, y) = DividedBy(x, y)
  BY DEF Positive, DividedBy
<1>2. y # Zero
  BY DEF Positive, Zero
<1>3. /\ DividedBy(x, y) \in Fraction /\ Lowest(DividedBy(x, y))
      /\ times[DividedBy(x, y), y] = x
  BY <1>2, DividesBack DEF Numbers
<1>4. Positive(x) => Positive(DividedBy(x, y))
  BY PositiveResults
<1> QED
  BY <1>1, <1>3, <1>4 DEF Numbers, Times

LEMMA OverIs ==
  ASSUME NEW x \in Numbers, NEW y \in Numbers, Positive(y), NEW z \in Numbers, Times(z, y) = x
  PROVE  Over(x, y) = z
<1>1. Over(x, y) \in Numbers /\ Times(Over(x, y), y) = x
  BY OverPositive
<1>2. y # Zero
  BY DEF Positive, Zero
<1>3. Times(y, Over(x, y)) = Times(y, z)
  BY <1>1, TimesTurns
<1> QED
  BY <1>1, <1>2, <1>3, TimesCancels

(* A sum of positive numbers is positive.                                  *)
LEMMA SumPositive ==
  ASSUME NEW m \in Nat \ {0}, NEW a \in [1 .. m -> Numbers], \A k \in 1 .. m : Positive(a[k])
  PROVE  VecSum(a) \in Numbers /\ Positive(VecSum(a))
<1> DEFINE S == { k \in Nat : \A b \in [1 .. k + 1 -> Numbers] : (\A i \in 1 .. k + 1 : Positive(b[i]))
             => Positive(VecSum(b)) }
<1>1. 0 \in S
  <2> SUFFICES ASSUME NEW b \in [1 .. 1 -> Numbers], \A i \in 1 .. 1 : Positive(b[i]) PROVE Positive(VecSum(b))
    OBVIOUS
  <2>1. 1 \in 1 .. 1 /\ OnlyAt(b, 1, 1)
    BY DEF OnlyAt
  <2>2. VecSum(b) = b[1]
    BY <2>1, SumOfOne
  <2> QED
    BY <2>1, <2>2
<1>2. ASSUME NEW k \in Nat, k \in S PROVE k + 1 \in S
  <2> SUFFICES ASSUME NEW b \in [1 .. (k + 1) + 1 -> Numbers],
                      \A i \in 1 .. (k + 1) + 1 : Positive(b[i])
               PROVE  Positive(VecSum(b))
    OBVIOUS
  <2>1. PICK c : c = [i \in 1 .. k + 1 |-> b[i]]
    OBVIOUS
  <2>2. c \in [1 .. k + 1 -> Numbers] /\ (\A i \in 1 .. k + 1 : c[i] = b[i])
          /\ \A i \in 1 .. k + 1 : Positive(c[i])
    BY <2>1
  <2>3. Positive(VecSum(c))
    BY <1>2, <2>2
  <2>4. k + 1 \in Nat /\ (k + 1) + 1 \in 1 .. (k + 1) + 1
    OBVIOUS
  <2>5. VecSum(b) = Add(VecSum(c), b[(k + 1) + 1]) /\ VecSum(c) \in Numbers /\ b[(k + 1) + 1] \in Numbers
    BY <2>2, <2>4, SumLonger
  <2> QED
    BY <2>3, <2>4, <2>5, PositiveTogether
<1> HIDE DEF S
<1>3. PICK k \in Nat : m = k + 1
  <2>1. m - 1 \in Nat /\ m = (m - 1) + 1
    OBVIOUS
  <2> QED
    BY <2>1
<1>4. k \in S
  BY <1>1, <1>2, SetInduction
<1> QED
  BY <1>3, <1>4, SumNumber DEF S
==============================================================================
