----------------------------- MODULE LearnProofs -----------------------------
(***************************************************************************)
(* Proofs about learning.  A training that was killed and resumed, any     *)
(* number of times, is where one that was never killed is, for memories,   *)
(* periods and numbers of iterations of any size, and any commands         *)
(* (Learn); the step a line search accepts is one it was asked for, for    *)
(* every objective (LineSearch); stochastic gradient descent computes what *)
(* the plain method would and returns the best it met (Sgd).               *)
(***************************************************************************)
EXTENDS Learn, LineSearch, Sgd, Lemmas, Integers, SequenceTheorems, TLAPS

-----------------------------------------------------------------------------
(* Places in a ring of m                                                   *)

LEMMA Remainder ==
  ASSUME NEW m \in Nat, m > 0, NEW a \in Nat
  PROVE  \E d \in Int, r \in 0..(m - 1) : r = a % m /\ a = m * d + r
<1> DEFINE d == a \div m
           r == a % m
<1>1. d \in Int /\ r \in 0..(m - 1) /\ a = m * d + r
  OBVIOUS
<1>2. r = a % m
  OBVIOUS
<1> HIDE DEF d, r
<1> QED
  BY <1>1, <1>2

LEMMA RemainderIs ==
  ASSUME NEW m \in Nat \ {0}, NEW q \in Int, NEW r \in 0..(m - 1), m * q + r \in Nat
  PROVE  (m * q + r) % m = r
<1> DEFINE a == m * q + r
<1>1. PICK d \in Int, s \in 0..(m - 1) : s = a % m /\ a = m * d + s
  <2> HIDE DEF a
  <2>1. a \in Nat
    BY DEF a
  <2> QED
    BY <2>1, Remainder, m > 0
<1>2. m * (d - q) = r - s
  <2>1. m * q + r = m * d + s
    BY <1>1
  <2>2. m * (d - q) = m * d - m * q /\ m * d \in Int /\ m * q \in Int
    OBVIOUS
  <2>3. ASSUME NEW x \in Int, NEW y \in Int, NEW z \in Int, x + r = y + s, z = y - x PROVE z = r - s
    BY <2>3
  <2>4. m * (d - q) \in Int
    BY <2>2
  <2> QED
    BY <2>1, <2>2, <2>3, <2>4
<1>3. r - s < m /\ r - s > -m
  BY <1>1
<1>4. d - q = 0
  <2>1. CASE d - q >= 1
    BY <2>1, <1>1, <1>2, <1>3
  <2>2. CASE d - q <= -1
    BY <2>2, <1>1, <1>2, <1>3
  <2> QED
    BY <2>1, <2>2, <1>1
<1> QED
  BY <1>4, <1>2, <1>1

LEMMA SmallRemainder ==
  ASSUME NEW m \in Nat \ {0}, NEW r \in 0..(m - 1)
  PROVE  r % m = r
<1>1. m * 0 + r = r /\ r \in Nat
  OBVIOUS
<1> QED
  BY <1>1, RemainderIs

LEMMA RoundRemainder ==
  ASSUME NEW m \in Nat \ {0}, NEW r \in 0..(m - 1)
  PROVE  (r + m) % m = r
<1>1. m * 1 + r = r + m /\ r + m \in Nat
  OBVIOUS
<1> QED
  BY <1>1, RemainderIs

(* The place i before end, which the loops over the corrections compute    *)
(* with a detour upwards.                                                  *)
LEMMA Before ==
  ASSUME NEW m \in Nat \ {0}, NEW end \in 0..(m - 1), NEW i \in 1..m
  PROVE  (end + m - i) % m = IF i <= end THEN end - i ELSE end + m - i
<1>1. CASE i <= end
  <2>1. end - i \in 0..(m - 1) /\ (end - i) + m = end + m - i
    BY <1>1
  <2> QED
    BY <1>1, <2>1, RoundRemainder
<1>2. CASE ~(i <= end)
  <2>1. end + m - i \in 0..(m - 1)
    BY <1>2
  <2> QED
    BY <1>2, <2>1, SmallRemainder
<1> QED
  BY <1>1, <1>2

(* After a correction was put at end: what was i before is i + 1 before.   *)
LEMMA Moved ==
  ASSUME NEW m \in Nat \ {0}, NEW end \in 0..(m - 1)
  PROVE  /\ (end + 1) % m \in 0..(m - 1)
         /\ (((end + 1) % m) + m - 1) % m = end
         /\ \A i \in 2..m : /\ (((end + 1) % m) + m - i) % m = (end + m - (i - 1)) % m
                            /\ (end + m - (i - 1)) % m \in 0..(m - 1)
                            /\ (end + m - (i - 1)) % m # end
<1> DEFINE next == (end + 1) % m
<1>1. next = IF end + 1 = m THEN 0 ELSE end + 1
  <2>1. CASE end + 1 = m
    BY <2>1, RoundRemainder, 0 + m = end + 1, 0 \in 0..(m - 1)
  <2>2. CASE end + 1 # m
    BY <2>2, SmallRemainder, end + 1 \in 0..(m - 1)
  <2> QED
    BY <2>1, <2>2
<1>2. next \in 0..(m - 1)
  BY <1>1
<1>3. (next + m - 1) % m = end
  BY <1>1, <1>2, Before, 1 \in 1..m
<1>4. ASSUME NEW i \in 2..m
      PROVE  /\ (next + m - i) % m = (end + m - (i - 1)) % m
             /\ (end + m - (i - 1)) % m \in 0..(m - 1)
             /\ (end + m - (i - 1)) % m # end
  <2>1. (next + m - i) % m = IF i <= next THEN next - i ELSE next + m - i
    BY <1>2, Before, i \in 1..m
  <2>2. (end + m - (i - 1)) % m = IF i - 1 <= end THEN end - (i - 1) ELSE end + m - (i - 1)
    BY Before, i - 1 \in 1..m
  <2> QED
    BY <1>1, <2>1, <2>2
<1> QED
  BY <1>2, <1>3, <1>4

(* Within a round, two numbers have different places.                      *)
LEMMA Apart ==
  ASSUME NEW m \in Nat \ {0}, NEW a \in Nat, NEW i \in 1..(m - 1), i <= a
  PROVE  (a - i) % m # a % m
<1>1. PICK d \in Int, r \in 0..(m - 1) : r = a % m /\ a = m * d + r
  BY Remainder, m > 0
<1>2. a - i \in Nat
  OBVIOUS
<1>3. PICK e \in Int, s \in 0..(m - 1) : s = (a - i) % m /\ a - i = m * e + s
  BY <1>2, Remainder, m > 0
<1>4. SUFFICES ASSUME r = s PROVE FALSE
  BY <1>1, <1>3
<1>5. m * (d - e) = i
  BY <1>1, <1>3, <1>4
<1>6. CASE d - e >= 1
  BY <1>5, <1>6
<1>7. CASE d - e <= 0
  BY <1>5, <1>7
<1> QED
  BY <1>5, <1>6, <1>7

-----------------------------------------------------------------------------
(* One of the latest, when there is one more: either the first, or one that *)
(* was already there.                                                      *)
LEMMA OneMore ==
  ASSUME NEW m \in Nat \ {0}, NEW k \in Nat, NEW i \in 1 .. Smaller(m, k + 1)
  PROVE  /\ i \in 1 .. m /\ i <= k + 1
         /\ i # 1 => /\ i \in 2 .. m
                    /\ i - 1 \in 1 .. Smaller(m, k) /\ i - 1 \in 1 .. (m - 1) /\ i - 1 <= k
                    /\ k - (i - 1) \in Nat /\ k - (i - 1) = k + 1 - i
<1>1. i \in 1 .. m /\ i <= k + 1
  BY DEF Smaller
<1>2. CASE i # 1
  BY <1>1, <1>2 DEF Smaller
<1> QED
  BY <1>1, <1>2

(* What a training on D has at the top of iteration s.k, unless disturbed  *)

Ring(s, D) ==
  /\ s.lm = [p \in 0 .. Memory - 1 |-> s.lm[p]]
  /\ \A i \in 1 .. Smaller(Memory, s.k - 1) :
       s.lm[(s.end + Memory - i) % Memory] = Correction(D, s.k - i)

Losses(s, D) ==
  /\ s.pf = [p \in 0 .. Past - 1 |-> s.pf[p]]
  /\ \A i \in 1 .. Smaller(Past, s.k) :
       s.pf[(s.k - i) % Past] = At(Walk(D, s.k - i), D)

Point(s, D) ==
  /\ s.k \in Nat \ {0} /\ s.end \in 0 .. Memory - 1
  /\ s.x = Walk(D, s.k - 1)
  /\ s.fx = At(s.x, D) /\ s.g = s.fx
  /\ s.d = Direction(D, s.k)
  /\ s.step = IF s.k = 1 THEN "1 / norm of d" ELSE "1"

Sound(s, D) == Point(s, D) /\ Ring(s, D) /\ Losses(s, D)

(* It has not come to its end before.                                      *)
Going(s, D) ==
  /\ Sound(s, D)
  /\ s.k <= MaxIterations /\ \A j \in 1 .. s.k - 1 : ~EndsAt(j)

(* The loop of lbfgs() is running.                                         *)
Running == lb \in {"loop", "checkpoint", "write", "move"}

(* While the loop runs, until its first report best_w is zero, and then it  *)
(* is the point.                                                           *)
RunIsSound ==
  Running =>
    /\ fate.converges # 0 /\ trainset \in origin
    /\ OfOneTraining => Going(st, trainset) /\ best_w = IF reported THEN st.x ELSE Zeros

(* So it is with what a checkpoint holds, whichever training it is of.     *)
CheckpointIsSound ==
  checkpoint # NONE =>
    /\ fate.converges # 0 /\ checkpoint.origin # {}
    /\ \A D \in SUBSET Groups : checkpoint.origin = {D} => Going(checkpoint.state, D)

ResultIsLearned ==
  lb = "returned" /\ OfOneTraining => best_w = IF reported THEN Learned(trainset) ELSE Zeros

(* The inductive invariant.                                                *)
Resumable ==
  /\ RunIsSound /\ CheckpointIsSound /\ ResultIsLearned
  /\ lb = "move" => temp = File

LEMMA FirstIsSound == ASSUME NEW D PROVE Sound(FirstState(D), D)
<1> DEFINE s == FirstState(D)
<1>1. /\ s.k = 1 /\ s.end = 0 /\ s.step = "1 / norm of d" /\ s.x = Zeros /\ s.fx = At(Zeros, D)
      /\ s.g = s.fx /\ s.d = [g |-> At(Zeros, D), pairs |-> <<>>]
      /\ s.lm = [i \in 0 .. Memory - 1 |-> NONE]
      /\ s.pf = [i \in 0 .. Past - 1 |-> IF i = 0 THEN At(Zeros, D) ELSE NONE]
  BY DEF FirstState
<1> HIDE DEF s
<1>2. Walk(D, 0) = Zeros
  BY DEF Walk
<1>k. s.k = 1
  BY <1>1
<1>3. Smaller(Memory, 0) = 0 /\ Smaller(Past, 1) = 1 /\ s.k - 1 = 0 /\ 1 - 1 = 0
  <2>1. Smaller(Memory, 0) = 0 /\ Smaller(Past, 1) = 1
    BY LbfgsAssumption DEF Smaller
  <2> QED
    BY <1>k, <2>1
<1>4. Direction(D, 1) = [g |-> At(Zeros, D), pairs |-> <<>>]
  <2>1. [i \in 1 .. 0 |-> Correction(D, 1 - i)] = <<>>
    OBVIOUS
  <2> QED
    BY <1>2, <1>3, <2>1 DEF Direction
<1>5. Point(s, D)
  <2>1. 1 - 1 = 0 /\ 1 \in Nat \ {0} /\ 0 \in 0 .. Memory - 1
    BY LbfgsAssumption
  <2> QED
    BY <1>1, <1>2, <1>4, <2>1 DEF Point
<1>6. Ring(s, D)
  <2>1. s.lm = [p \in 0 .. Memory - 1 |-> s.lm[p]]
    BY <1>1
  <2>2. Smaller(Memory, s.k - 1) = 0
    BY <1>3
  <2>3. 1 .. Smaller(Memory, s.k - 1) = {}
    BY <2>2
  <2> QED
    BY <2>1, <2>3 DEF Ring
<1>7. Losses(s, D)
  <2>1. 0 % Past = 0 /\ 0 \in 0 .. Past - 1
    BY SmallRemainder, LbfgsAssumption, 0 \in 0 .. Past - 1
  <2>2. s.pf = [p \in 0 .. Past - 1 |-> s.pf[p]]
    BY <1>1
  <2>3. s.pf[0] = At(Walk(D, 0), D)
    BY <1>1, <1>2, <2>1
  <2>4. ASSUME NEW i \in 1 .. Smaller(Past, s.k) PROVE i = 1 /\ s.k - i = 0
    <3>1. Smaller(Past, s.k) = 1
      BY <1>1, <1>3
    <3>2. i \in 1 .. 1
      BY <3>1
    <3> QED
      BY <1>k, <3>2
  <2> QED
    BY <2>1, <2>2, <2>3, <2>4 DEF Losses
<1> QED
  BY <1>5, <1>6, <1>7 DEF Sound, s

(* An iteration keeps it: the new correction takes the place of the one    *)
(* that is a round old, and each other one is one further back.            *)
LEMMA NextRing ==
  ASSUME Sound(st, trainset)
  PROVE  LET x == Walk(trainset, st.k)
         IN  /\ Ring(NextState(x), trainset)
             /\ NextState(x).end \in 0 .. Memory - 1
             /\ NextState(x).d = Direction(trainset, st.k + 1)
<1> DEFINE D == trainset
           x == Walk(D, st.k)
           s == NextState(x)
           end == (st.end + 1) % Memory
           lm == [st.lm EXCEPT ![st.end] = [s |-> <<st.x, x>>, y |-> <<st.g, At(x, D)>>]]
<1>1. /\ s.k = st.k + 1 /\ s.end = end /\ s.lm = lm
      /\ s.d = [g |-> At(x, D), pairs |-> [i \in 1 .. Smaller(Memory, st.k) |-> lm[(end + Memory - i) % Memory]]]
  BY DEF NextState
<1> HIDE DEF s
<1>2. /\ st.k \in Nat \ {0} /\ st.end \in 0 .. Memory - 1 /\ Memory \in Nat \ {0}
      /\ st.x = Walk(D, st.k - 1) /\ st.g = At(st.x, D)
  BY LbfgsAssumption DEF Sound, Point
<1>0. st.lm = [p \in 0 .. Memory - 1 |-> st.lm[p]]
  BY DEF Sound, Ring
<1>k. st.k - 1 \in Nat /\ st.k - 1 + 1 = st.k /\ st.k \in Nat
  BY <1>2
<1>m. /\ (end + Memory - 1) % Memory = st.end
      /\ \A i \in 2 .. Memory :
           LET before == (st.end + Memory - (i - 1)) % Memory
           IN  (end + Memory - i) % Memory = before /\ before \in 0 .. Memory - 1 /\ before # st.end
  BY <1>2, Moved, ZenonT(60)
<1>3. lm[st.end] = Correction(D, st.k)
  <2>1. lm[st.end] = [s |-> <<st.x, x>>, y |-> <<st.g, At(x, D)>>]
    BY <1>0, <1>2
  <2> QED
    BY <1>2, <2>1 DEF Correction
<1>4. ASSUME NEW i \in 1 .. Smaller(Memory, st.k)
      PROVE  lm[(end + Memory - i) % Memory] = Correction(D, (st.k + 1) - i)
  <2>0. /\ i \in 1 .. Memory
        /\ i # 1 => /\ i \in 2 .. Memory
                   /\ i - 1 \in 1 .. Smaller(Memory, st.k - 1)
                   /\ st.k - 1 - (i - 1) = st.k - 1 + 1 - i
    BY <1>2, <1>k, OneMore
  <2>1. CASE i = 1
    <3>1. (end + Memory - 1) % Memory = st.end
      BY <1>m
    <3>2. (st.k + 1) - 1 = st.k
      BY <1>2
    <3> QED
      BY <2>1, <3>1, <3>2, <1>3
  <2>2. CASE i # 1
    <3> DEFINE j == i - 1
               p == (st.end + Memory - j) % Memory
    <3>1. i \in 2 .. Memory /\ i \in Nat
      BY <2>0, <2>2
    <3>2. (end + Memory - i) % Memory = p /\ p \in 0 .. Memory - 1 /\ p # st.end
      BY <1>m, <3>1, Zenon
    <3>3. j \in 1 .. Smaller(Memory, st.k - 1) /\ st.k - j = (st.k + 1) - i
      <4>1. j \in 1 .. Smaller(Memory, st.k - 1)
        BY <2>0, <2>2
      <4>2. st.k - j = (st.k + 1) - i
        BY <1>k, <3>1
      <4> QED
        BY <4>1, <4>2
    <3>4. st.lm[p] = Correction(D, st.k - j)
      BY <3>3 DEF Sound, Ring
    <3> HIDE DEF p, j
    <3>5. lm[p] = st.lm[p]
      BY <1>0, <3>2
    <3> QED
      BY <3>2, <3>3, <3>4, <3>5
  <2> QED
    BY <2>1, <2>2
<1>5. (st.k + 1) - 1 = st.k /\ s.k - 1 = st.k
  BY <1>1, <1>2
<1>6. Ring(s, D)
  <2>1. lm = [p \in 0 .. Memory - 1 |-> lm[p]]
    BY <1>0
  <2> HIDE DEF lm, end
  <2>2. ASSUME NEW i \in 1 .. Smaller(Memory, s.k - 1)
        PROVE  s.lm[(s.end + Memory - i) % Memory] = Correction(D, s.k - i)
    <3>1. lm[(end + Memory - i) % Memory] = Correction(D, (st.k + 1) - i)
      BY <1>4, <1>5
    <3>2. s.lm = lm /\ s.end = end /\ s.k = st.k + 1
      BY <1>1
    <3> QED
      BY <1>2, <3>1, <3>2
  <2>3. s.lm = [p \in 0 .. Memory - 1 |-> s.lm[p]]
    BY <1>1, <2>1, Zenon
  <2> QED
    BY <2>2, <2>3, Zenon DEF Ring
<1>7. s.end \in 0 .. Memory - 1
  <2>1. (st.end + 1) % Memory \in 0 .. Memory - 1
    BY <1>2, Moved
  <2> QED
    BY <1>1, <2>1
<1>8. s.d = Direction(D, st.k + 1)
  <2>1. [i \in 1 .. Smaller(Memory, st.k) |-> lm[(end + Memory - i) % Memory]]
        = [i \in 1 .. Smaller(Memory, (st.k + 1) - 1) |-> Correction(D, (st.k + 1) - i)]
    <3> HIDE DEF lm, end
    <3> QED
      BY <1>4, <1>5
  <2> HIDE DEF lm, end
  <2> QED
    <3>1. Direction(D, st.k + 1) =
            [g |-> At(Walk(D, (st.k + 1) - 1), D),
             pairs |-> [i \in 1 .. Smaller(Memory, (st.k + 1) - 1) |-> Correction(D, (st.k + 1) - i)]]
      BY DEF Direction
    <3>2. Walk(D, (st.k + 1) - 1) = x
      BY <1>5
    <3>3. At(Walk(D, (st.k + 1) - 1), D) = At(x, D)
      BY <3>2
    <3>4. s.d = [g |-> At(x, D), pairs |-> [i \in 1 .. Smaller(Memory, st.k) |-> lm[(end + Memory - i) % Memory]]]
      BY <1>1
    <3> QED
      BY <2>1, <3>1, <3>3, <3>4, Zenon
<1> QED
  BY <1>6, <1>7, <1>8 DEF s

LEMMA NextLosses ==
  ASSUME Sound(st, trainset)
  PROVE  Losses(NextState(Walk(trainset, st.k)), trainset)
<1> DEFINE D == trainset
           x == Walk(D, st.k)
           s == NextState(x)
           q == st.k % Past
<1>1. s.k = st.k + 1 /\ s.pf = [st.pf EXCEPT ![q] = At(x, D)]
  BY DEF NextState
<1> HIDE DEF s
<1>2. st.k \in Nat /\ Past \in Nat \ {0}
  BY LbfgsAssumption DEF Sound, Point
<1>0. st.pf = [p \in 0 .. Past - 1 |-> st.pf[p]]
  BY DEF Sound, Losses
<1>3. q \in 0 .. Past - 1
  BY <1>2, Remainder, Past > 0
<1> HIDE DEF q
<1>4. ASSUME NEW i \in 1 .. Smaller(Past, st.k + 1)
      PROVE  s.pf[((st.k + 1) - i) % Past] = At(Walk(D, (st.k + 1) - i), D)
  <2>0. i # 1 => /\ i - 1 \in 1 .. Smaller(Past, st.k) /\ i - 1 \in 1 .. (Past - 1) /\ i - 1 <= st.k
                 /\ st.k - (i - 1) \in Nat /\ st.k - (i - 1) = (st.k + 1) - i
    BY <1>2, OneMore
  <2>1. CASE i = 1
    <3>1. (st.k + 1) - i = st.k
      BY <2>1, <1>2
    <3>2. s.pf[q] = At(x, D)
      BY <1>0, <1>1, <1>3
    <3> QED
      BY <3>1, <3>2 DEF q
  <2>2. CASE i # 1
    <3> DEFINE j == i - 1
               p == (st.k - j) % Past
    <3>1. j \in 1 .. (Past - 1) /\ j <= st.k /\ st.k - j = (st.k + 1) - i /\ st.k - j \in Nat
      BY <2>0, <2>2
    <3>2. p # q
      BY <1>2, <3>1, Apart DEF q
    <3>3. p \in 0 .. Past - 1
      BY <1>2, <3>1, Remainder, Past > 0
    <3>4. j \in 1 .. Smaller(Past, st.k)
      BY <2>0, <2>2
    <3>5. st.pf[p] = At(Walk(D, st.k - j), D)
      BY <3>4 DEF Sound, Losses
    <3> HIDE DEF p, j
    <3>6. s.pf[p] = st.pf[p]
      BY <1>0, <1>1, <3>2, <3>3
    <3> QED
      BY <3>1, <3>5, <3>6 DEF p
  <2> QED
    BY <2>1, <2>2
<1>5. s.pf = [p \in 0 .. Past - 1 |-> s.pf[p]]
  BY <1>0, <1>1
<1>6. Losses(s, D)
  <2>1. \A i \in 1 .. Smaller(Past, s.k) : s.pf[(s.k - i) % Past] = At(Walk(D, s.k - i), D)
    <3>1. s.k = st.k + 1 /\ s.k \in Nat
      BY <1>1, <1>2
    <3>2. ASSUME NEW i \in 1 .. Smaller(Past, s.k)
          PROVE  s.pf[(s.k - i) % Past] = At(Walk(D, s.k - i), D)
      <4>1. i \in 1 .. Smaller(Past, st.k + 1)
        BY <3>1
      <4>2. s.k - i = (st.k + 1) - i
        <5>1. i \in Int
          BY <1>2, <3>1 DEF Smaller
        <5> QED
          BY <1>2, <3>1, <5>1
      <4>3. s.pf[((st.k + 1) - i) % Past] = At(Walk(D, (st.k + 1) - i), D)
        BY <4>1, <1>4
      <4> QED
        BY <4>2, <4>3
    <3> QED
      BY <3>2
  <2> QED
    BY <1>5, <2>1, Zenon DEF Losses
<1> QED
  BY <1>6 DEF s

LEMMA NextIsSound ==
  ASSUME Sound(st, trainset)
  PROVE  Sound(NextState(Walk(trainset, st.k)), trainset)
<1> DEFINE D == trainset
           x == Walk(D, st.k)
           s == NextState(x)
<1>1. s.k = st.k + 1 /\ s.x = x /\ s.fx = At(x, D) /\ s.g = At(x, D) /\ s.step = "1"
  BY DEF NextState
<1>2. s.end \in 0 .. Memory - 1 /\ s.d = Direction(D, st.k + 1) /\ Ring(s, D)
  BY NextRing
<1>3. Losses(s, D)
  BY NextLosses
<1> HIDE DEF s
<1>4. st.k \in Nat \ {0}
  BY DEF Sound, Point
<1>5. Point(s, D)
  BY <1>1, <1>2, <1>4 DEF Point
<1> QED
  BY <1>2, <1>3, <1>5 DEF Sound, s

LEMMA SoundIsUndisturbed == Sound(st, trainset) => Undisturbed
  BY DEF Sound, Point, Undisturbed

-----------------------------------------------------------------------------
(* Types                                                                   *)

LEMMA WalkType == ASSUME NEW D \in SUBSET Groups, NEW k \in Nat PROVE Walk(D, k) \in Points
  BY DEF Walk, Zeros, Points

LEMMA AtType == ASSUME NEW x \in Points, NEW D \in SUBSET Groups PROVE At(x, D) \in Values
  BY DEF At, Values

LEMMA ZerosType == Zeros \in Points
  BY DEF Zeros, Points

LEMMA FirstType == ASSUME NEW D \in SUBSET Groups PROVE FirstState(D) \in States
<1> DEFINE val == At(Zeros, D)
           lm == [i \in 0 .. Memory - 1 |-> NONE]
           past == [i \in 0 .. Past - 1 |-> IF i = 0 THEN val ELSE NONE]
<1>1. val \in Values /\ Zeros \in Points
  BY AtType, ZerosType
<1>2. <<>> \in Seq(Corrections \cup {NONE})
  OBVIOUS
<1>3. 0 \in 0 .. Memory - 1
  BY LbfgsAssumption
<1>4. lm \in [0 .. Memory - 1 -> Corrections \cup {NONE}]
  OBVIOUS
<1>5. past \in [0 .. Past - 1 -> Values \cup {NONE}]
  BY <1>1
<1> HIDE DEF val, lm, past
<1>6. [k |-> 1, end |-> 0, step |-> "1 / norm of d", x |-> Zeros, fx |-> val, g |-> val,
       d |-> [g |-> val, pairs |-> <<>>], lm |-> lm, pf |-> past] \in States
  BY <1>1, <1>2, <1>3, <1>4, <1>5 DEF States
<1> QED
  BY <1>6 DEF FirstState, val, lm, past

(* An iteration that goes on from any state to any point.                  *)
LEMMA NextType ==
  ASSUME st \in States, trainset \in SUBSET Groups, NEW x \in Points
  PROVE  NextState(x) \in States
<1> DEFINE new == At(x, trainset)
           end == (st.end + 1) % Memory
           correction == [s |-> <<st.x, x>>, y |-> <<st.g, new>>]
           lm == [st.lm EXCEPT ![st.end] = correction]
           pairs == [i \in 1 .. Smaller(Memory, st.k) |-> lm[(end + Memory - i) % Memory]]
           past == [st.pf EXCEPT ![st.k % Past] = new]
<1>1. /\ st.k \in Nat \ {0} /\ st.end \in 0 .. Memory - 1 /\ st.x \in Points /\ st.g \in Values
      /\ st.lm \in [0 .. Memory - 1 -> Corrections \cup {NONE}]
      /\ st.pf \in [0 .. Past - 1 -> Values \cup {NONE}]
  BY DEF States
<1>2. new \in Values
  BY AtType
<1>3. correction \in Corrections
  BY <1>1, <1>2 DEF Corrections
<1>4. end \in 0 .. Memory - 1 /\ \A i \in 1 .. Memory : (end + Memory - i) % Memory \in 0 .. Memory - 1
  <2>1. end \in 0 .. Memory - 1
    BY <1>1, Moved, LbfgsAssumption
  <2>2. ASSUME NEW i \in 1 .. Memory PROVE (end + Memory - i) % Memory \in 0 .. Memory - 1
    <3> HIDE DEF end
    <3>1. end + Memory - i \in Nat
      BY <2>1, LbfgsAssumption
    <3> QED
      BY <3>1, Remainder, LbfgsAssumption, Memory \in Nat, Memory > 0
  <2> QED
    BY <2>1, <2>2
<1>5. lm \in [0 .. Memory - 1 -> Corrections \cup {NONE}]
  <2> HIDE DEF correction
  <2> QED
    BY <1>1, <1>3
<1>6. past \in [0 .. Past - 1 -> Values \cup {NONE}]
  <2> HIDE DEF new
  <2> QED
    BY <1>1, <1>2
<1>7. Smaller(Memory, st.k) \in Nat /\ Smaller(Memory, st.k) <= Memory
  BY <1>1, LbfgsAssumption DEF Smaller
<1>8. pairs \in Seq(Corrections \cup {NONE})
  <2> HIDE DEF lm, end
  <2>1. ASSUME NEW i \in 1 .. Smaller(Memory, st.k)
        PROVE  lm[(end + Memory - i) % Memory] \in Corrections \cup {NONE}
    <3>1. i \in 1 .. Memory
      BY <1>7, LbfgsAssumption
    <3> QED
      BY <1>4, <1>5, <3>1
  <2>2. pairs \in [1 .. Smaller(Memory, st.k) -> Corrections \cup {NONE}]
    BY <2>1
  <2> QED
    BY <1>7, <2>2, SeqDef
<1>9. st.k + 1 \in Nat \ {0}
  BY <1>1
<1> HIDE DEF new, end, lm, pairs, past
<1>10. [k |-> st.k + 1, end |-> end, step |-> "1", x |-> x, fx |-> new, g |-> new,
        d |-> [g |-> new, pairs |-> pairs], lm |-> lm, pf |-> past] \in States
  BY <1>2, <1>4, <1>5, <1>6, <1>8, <1>9 DEF States
<1> QED
  BY <1>10 DEF NextState, new, end, lm, pairs, past, correction

LEMMA SearchType ==
  ASSUME st \in States, trainset \in SUBSET Groups, NEW x \in LineSearch \ {FAILED}
  PROVE  x \in Points
<1>1. Walk(trainset, st.k) \in Points
  BY WalkType DEF States
<1>2. Stray \in Points
  BY DEF States, Points, Stray
<1> QED
  BY <1>1, <1>2 DEF LineSearch

LEMMA InitTypes == LearnInit => LearnTypeOK
  BY ZerosType DEF LearnInit, LbfgsInit, LearnTypeOK

LEMMA BeginTypes ==
  ASSUME LearnTypeOK, NEW D \in SUBSET Groups, Begin(D)
  PROVE  /\ fate' \in Fates /\ trainset' \subseteq Groups /\ origin' \subseteq SUBSET Groups
         /\ lb' \in {"loop", "returned"} /\ st' \in States
         /\ best_w' \in Points /\ reported' \in BOOLEAN
<1>1. CASE checkpoint = NONE
  BY <1>1, FirstType, ZerosType DEF Begin, LearnTypeOK
<1>2. CASE checkpoint # NONE
  <2>1. checkpoint.state \in States /\ checkpoint.origin \subseteq SUBSET Groups
    BY <1>2 DEF LearnTypeOK, Files
  <2> QED
    BY <1>2, <2>1, ZerosType DEF Begin, Restored, LearnTypeOK
<1> QED
  BY <1>1, <1>2

LEMMA StepTypes ==
  ASSUME LearnTypeOK, LbfgsStep
  PROVE  /\ fate' \in Fates /\ trainset' \subseteq Groups /\ origin' \subseteq SUBSET Groups
         /\ lb' \in {"loop", "checkpoint", "write", "move", "returned"} /\ st' \in States
         /\ best_w' \in Points /\ reported' \in BOOLEAN
         /\ temp' \in Files \cup {NONE, CUT} /\ checkpoint' \in Files \cup {NONE}
         /\ lb' = "move" => temp' \in Files
<1> USE DEF LearnTypeOK
<1>1. CASE IterationFails
  BY <1>1 DEF IterationFails
<1>2. CASE IterationEnds
  BY <1>2, SearchType DEF IterationEnds, Report
<1>3. CASE IterationGoesOn
  BY <1>3, SearchType, NextType DEF IterationGoesOn, Report
<1>4. CASE OpenTemp
  BY <1>4 DEF OpenTemp
<1>5. CASE WriteTemp
  <2>1. File \in Files
    BY <1>5 DEF WriteTemp, File, Files
  <2> QED
    BY <1>5, <2>1 DEF WriteTemp
<1>6. CASE MoveTemp
  BY <1>6 DEF MoveTemp
<1> QED
  BY <1>1, <1>2, <1>3, <1>4, <1>5, <1>6 DEF LbfgsStep

LEMMA NextTypes == LearnTypeOK /\ [LearnNext]_commandVars => LearnTypeOK'
<1> SUFFICES ASSUME LearnTypeOK, [LearnNext]_commandVars PROVE LearnTypeOK'
  OBVIOUS
<1>1. CASE LearnCommand
  BY <1>1 DEF LearnCommand, LearnTypeOK, lbfgsVars
<1>2. CASE Train
  <2>1. command.data \ {holdout} \in SUBSET Groups
    BY <1>2, LearnAssumption DEF Train, LearnTypeOK
  <2>2. Begin(command.data \ {holdout})
    BY <1>2 DEF Train
  <2>3. UNCHANGED <<temp, checkpoint, command>> /\ pc = "train" /\ pc' = "lbfgs"
    BY <1>2 DEF Train, Begin
  <2> QED
    BY <2>1, <2>2, <2>3, BeginTypes DEF LearnTypeOK
<1>3. CASE Iterate
  <2>1. LbfgsStep /\ UNCHANGED <<pc, command>> /\ pc = "lbfgs"
    BY <1>3 DEF Iterate
  <2> QED
    BY <2>1, StepTypes DEF LearnTypeOK
<1>4. CASE OpenModel
  BY <1>4 DEF OpenModel, LearnTypeOK, lbfgsVars
<1>5. CASE CloseModel \/ NextFold \/ LastFold \/ Killed
  <2>1. /\ UNCHANGED <<fate, temp, checkpoint>>
        /\ best_w' = Zeros /\ lb' = "idle" /\ reported' = FALSE /\ origin' = {} /\ trainset' = {}
    BY <1>5 DEF CloseModel, NextFold, LastFold, Killed, LbfgsReleased, LbfgsKilled, Forget
  <2>2. pc' = "shell" \/ (pc = "lbfgs" /\ pc' = "train" /\ command' = command)
    BY <1>5 DEF CloseModel, NextFold, LastFold, Killed
  <2> QED
    BY <2>1, <2>2, ZerosType DEF LearnTypeOK
<1>6. CASE Finished \/ UNCHANGED commandVars
  BY <1>6 DEF Finished, commandVars, lbfgsVars, learnVars, LearnTypeOK
<1> QED
  BY <1>1, <1>2, <1>3, <1>4, <1>5, <1>6 DEF LearnNext

(* The state of a training, its files and the command are of their types;  *)
(* in particular a checkpoint that is there is whole.                      *)
THEOREM LearnTyped == LearnSpec => []LearnTypeOK
  BY InitTypes, NextTypes, PTL DEF LearnSpec

-----------------------------------------------------------------------------
(* A search that is not disturbed finds the next point of the walk         *)

LEMMA OnTheWalk ==
  ASSUME NEW D \in SUBSET Groups, NEW k \in Nat
  PROVE  OnWalk(Walk(D, k), D) /\ Walk(D, k).k = k /\ Walk(D, k) # FAILED
<1>1. Walk(D, k).k = k
  BY DEF Walk, Zeros
<1>2. k # STRAY /\ Walk(D, k) \in Points
  BY LbfgsAssumption, WalkType
<1> QED
  BY <1>1, <1>2, LbfgsAssumption DEF OnWalk

LEMMA UndisturbedSearch ==
  ASSUME LearnTypeOK, lb # "idle", Sound(st, trainset)
  PROVE  /\ FAILED \in LineSearch => st.k = fate.fails
         /\ \A x \in LineSearch \ {FAILED} : x = Walk(trainset, st.k) /\ st.k # fate.fails
<1>1. Undisturbed
  BY SoundIsUndisturbed
<1>2. Walk(trainset, st.k) # FAILED
  BY OnTheWalk DEF LearnTypeOK, States
<1> QED
  BY <1>1, <1>2 DEF LineSearch

(* There the tests have one outcome each, and it is what EndsAt says.      *)
LEMMA UndisturbedTests ==
  ASSUME LearnTypeOK, lb # "idle", Sound(st, trainset), st.k <= MaxIterations
  PROVE  LET x == Walk(trainset, st.k)
         IN  /\ ConvergenceTest(x) = {st.k = fate.converges}
             /\ StoppingTest(x) =
                  {st.k >= Past /\ (InverseDelta * fate.loss[st.k - Past]) < (InverseDelta + 1) * fate.loss[st.k]}
<1> DEFINE D == trainset
           x == Walk(D, st.k)
<1>1. D \in SUBSET Groups /\ st.k \in Nat /\ Past \in Nat \ {0}
  BY LbfgsAssumption DEF LearnTypeOK, States
<1>2. OnWalk(x, D) /\ x.k = st.k
  BY <1>1, OnTheWalk
<1>3. ConvergenceTest(x) = {st.k = fate.converges}
  BY <1>2 DEF ConvergenceTest
<1>4. CASE st.k < Past
  <2> HIDE DEF x
  <2>1. StoppingTest(x) = {FALSE}
    BY <1>4 DEF StoppingTest
  <2>2. ~(st.k >= Past)
    BY <1>1, <1>4
  <2> QED
    BY <1>3, <2>1, <2>2, Zenon DEF x
<1>5. CASE ~(st.k < Past)
  <2> DEFINE j == st.k - Past
             past == At(Walk(D, j), D)
  <2>1. j \in Nat /\ Past \in 1 .. Smaller(Past, st.k) /\ Past * 1 + j = st.k /\ st.k >= Past
    BY <1>1, <1>5 DEF Smaller
  <2>2. j % Past = st.k % Past
    <3>1. PICK d \in Int, r \in 0 .. (Past - 1) : r = j % Past /\ j = Past * d + r
      BY <1>1, <2>1, Remainder, Past > 0
    <3>2. Past * (d + 1) + r = st.k
      <4>1. Past * (d + 1) = Past * d + Past /\ Past * d \in Int
        BY <1>1
      <4>2. j = st.k - Past
        OBVIOUS
      <4> HIDE DEF j
      <4> QED
        BY <1>1, <2>1, <3>1, <4>1, <4>2
    <3>3. (Past * (d + 1) + r) % Past = r
      BY <1>1, <3>2, RemainderIs, d + 1 \in Int
    <3> QED
      BY <3>1, <3>2, <3>3
  <2>3. st.pf[st.k % Past] = past
    <3>1. st.pf[j % Past] = past
      BY <2>1 DEF Sound, Losses
    <3> QED
      BY <2>2, <3>1
  <2>4. OnWalk(Walk(D, j), D) /\ Walk(D, j).k = j /\ Walk(D, j) \in Points
    BY <1>1, <2>1, OnTheWalk, WalkType
  <2>5. past.x = Walk(D, j) /\ past.on = D /\ past # NONE
    <3>1. past \in Values
      BY <1>1, <2>4, AtType
    <3> QED
      BY <3>1, LbfgsAssumption DEF At
  <2>6. HasLoss(past) /\ past.x.k = j
    BY <2>4, <2>5 DEF HasLoss
  <2> HIDE DEF past, x
  <2>7. StoppingTest(x) = {(InverseDelta * fate.loss[past.x.k]) < (InverseDelta + 1) * fate.loss[x.k]}
    BY <1>2, <1>5, <2>3, <2>6 DEF StoppingTest
  <2>8. StoppingTest(x) = {(InverseDelta * fate.loss[j]) < (InverseDelta + 1) * fate.loss[st.k]}
    BY <1>2, <2>6, <2>7
  <2> QED
    BY <1>3, <2>1, <2>8 DEF x
<1> QED
  BY <1>3, <1>4, <1>5

LEMMA GoingInRange ==
  ASSUME NEW s, NEW D, Going(s, D)
  PROVE  s.k \in 1 .. MaxIterations /\ s.k \in Nat /\ MaxIterations \in Nat
<1>1. s.k \in Nat \ {0} /\ s.k <= MaxIterations
  BY DEF Going, Sound, Point
<1>2. MaxIterations \in Nat
  BY LbfgsAssumption
<1> QED
  BY <1>1, <1>2

(* Where an undisturbed training ends is the first iteration it ends at.   *)
LEMMA EndOfTheWalk ==
  ASSUME NEW D, NEW k \in 1 .. MaxIterations, EndsAt(k), \A j \in 1 .. k - 1 : ~EndsAt(j),
         fate.converges # 0
  PROVE  Learned(D) = Walk(D, IF k = fate.fails THEN k - 1 ELSE k)
<1> DEFINE S == { j \in 1 .. MaxIterations : EndsAt(j) }
           last == First(S)
<1>1. MaxIterations \in Nat
  BY LbfgsAssumption
<1>2. k \in S
  OBVIOUS
<1>3. ASSUME NEW j \in S PROVE j \in 1 .. MaxIterations /\ EndsAt(j)
  BY <1>3
<1>4. ASSUME NEW j \in S PROVE k <= j
  <2>1. j \in 1 .. MaxIterations /\ ~(j \in 1 .. k - 1)
    BY <1>3
  <2> QED
    BY <2>1, <1>1
<1> HIDE DEF S
<1>5. last \in S /\ \A j \in S : last <= j
  BY <1>2, <1>4 DEF First
<1>6. last <= k /\ k <= last /\ last \in Nat
  <2>1. last <= k
    BY <1>2, <1>5
  <2>2. k <= last
    BY <1>4, <1>5
  <2>3. last \in 1 .. MaxIterations
    BY <1>3, <1>5
  <2> QED
    BY <1>1, <2>1, <2>2, <2>3
<1>7. last = k
  BY <1>1, <1>6
<1> QED
  BY <1>7 DEF Learned, S

-----------------------------------------------------------------------------
(* Each step keeps Resumable                                               *)

LEMMA InitResumable == LearnInit => Resumable
  BY DEF LearnInit, LbfgsInit, Resumable, RunIsSound, CheckpointIsSound, ResultIsLearned, Running

(* A checkpoint that is not replaced.                                      *)
LEMMA CheckpointKept ==
  ASSUME CheckpointIsSound, UNCHANGED <<fate, checkpoint>>
  PROVE  CheckpointIsSound'
  BY DEF CheckpointIsSound, Going, EndsAt

LEMMA BeginResumable ==
  ASSUME LearnTypeOK, Resumable, NEW D \in SUBSET Groups, Begin(D)
  PROVE  Resumable'
<1>1. /\ trainset' = D /\ best_w' = Zeros /\ reported' = FALSE /\ UNCHANGED <<fate, temp, checkpoint>>
      /\ lb' \in {"loop", "returned"}
  BY DEF Begin
<1>2. CheckpointIsSound'
  BY <1>1, CheckpointKept DEF Resumable
<1>3. ResultIsLearned' /\ (lb = "move" => temp = File)'
  BY <1>1 DEF ResultIsLearned
<1>4. CASE checkpoint = NONE /\ fate.converges = 0
  <2>1. lb' = "returned"
    BY <1>4 DEF Begin
  <2> QED
    BY <1>2, <1>3, <2>1 DEF Resumable, RunIsSound, Running
<1>5. CASE checkpoint = NONE /\ fate.converges # 0
  <2>1. st' = FirstState(D) /\ origin' = {D}
    BY <1>5 DEF Begin
  <2>2. Sound(st', trainset')
    BY <1>1, <2>1, FirstIsSound
  <2>3. st'.k = 1
    BY <2>1 DEF FirstState
  <2>4. Going(st, trainset)'
    <3>1. st'.k <= MaxIterations /\ 1 .. (st'.k - 1) = {}
      BY <2>3, LbfgsAssumption
    <3> QED
      BY <2>2, <3>1 DEF Going
  <2> QED
    BY <1>1, <1>2, <1>3, <1>5, <2>1, <2>4 DEF Resumable, RunIsSound
<1>6. CASE checkpoint # NONE
  <2>1. st' = checkpoint.state /\ origin' = {D} \cup checkpoint.origin
    BY <1>6 DEF Begin, Restored
  <2>2. ASSUME OfOneTraining' PROVE Going(st, trainset)'
    <3>1. checkpoint.origin = {D}
      BY <1>1, <1>6, <2>1, <2>2 DEF OfOneTraining, Resumable, CheckpointIsSound
    <3>2. Going(checkpoint.state, D)
      BY <1>6, <3>1 DEF Resumable, CheckpointIsSound
    <3> QED
      BY <1>1, <2>1, <3>2 DEF Going, EndsAt
  <2>3. fate'.converges # 0
    BY <1>1, <1>6 DEF Resumable, CheckpointIsSound
  <2> QED
    BY <1>1, <1>2, <1>3, <2>1, <2>2, <2>3 DEF Resumable, RunIsSound
<1> QED
  BY <1>4, <1>5, <1>6

LEMMA FailsResumable ==
  ASSUME LearnTypeOK, Resumable, IterationFails
  PROVE  Resumable'
<1>1. /\ lb = "loop" /\ FAILED \in LineSearch /\ lb' = "returned"
      /\ UNCHANGED <<fate, trainset, st, best_w, temp, checkpoint, reported, origin>>
  BY DEF IterationFails
<1>2. CheckpointIsSound' /\ RunIsSound' /\ (lb = "move" => temp = File)'
  BY <1>1, CheckpointKept DEF Resumable, RunIsSound, Running
<1>3. ASSUME OfOneTraining PROVE best_w = IF reported THEN Learned(trainset) ELSE Zeros
  <2>1. Going(st, trainset) /\ best_w = (IF reported THEN st.x ELSE Zeros) /\ fate.converges # 0
    BY <1>1, <1>3 DEF Resumable, RunIsSound, Running
  <2>2. st.k = fate.fails
    BY <1>1, <2>1, UndisturbedSearch DEF Going
  <2>3. st.k \in 1 .. MaxIterations /\ EndsAt(st.k)
    BY <2>1, <2>2, GoingInRange DEF EndsAt
  <2>4. Learned(trainset) = Walk(trainset, st.k - 1)
    BY <2>1, <2>2, <2>3, EndOfTheWalk DEF Going
  <2>5. st.x = Walk(trainset, st.k - 1)
    BY <2>1 DEF Going, Sound, Point
  <2> QED
    BY <2>1, <2>4, <2>5
<1>4. ResultIsLearned'
  BY <1>1, <1>3 DEF ResultIsLearned, OfOneTraining, Learned, EndsAt
<1> QED
  BY <1>2, <1>4 DEF Resumable

LEMMA EndsResumable ==
  ASSUME LearnTypeOK, Resumable, IterationEnds
  PROVE  Resumable'
<1>1. /\ lb = "loop" /\ lb' = "returned"
      /\ UNCHANGED <<fate, trainset, st, temp, checkpoint, origin>>
  BY DEF IterationEnds
<1>2. CheckpointIsSound' /\ RunIsSound' /\ (lb = "move" => temp = File)'
  BY <1>1, CheckpointKept DEF Resumable, RunIsSound, Running
<1>3. PICK x \in LineSearch \ {FAILED} :
        /\ TRUE \in ConvergenceTest(x) \cup StoppingTest(x) \/ MaxIterations < st.k + 1
        /\ best_w' = x /\ reported' = TRUE
  BY DEF IterationEnds, Report
<1>4. ASSUME OfOneTraining PROVE x = Learned(trainset)
  <2>1. Going(st, trainset) /\ Sound(st, trainset) /\ fate.converges # 0
    BY <1>1, <1>4 DEF Resumable, RunIsSound, Running, Going
  <2>2. x = Walk(trainset, st.k) /\ st.k # fate.fails
    BY <1>1, <2>1, UndisturbedSearch
  <2>3. st.k \in 1 .. MaxIterations /\ MaxIterations \in Nat
    BY <2>1, GoingInRange
  <2>4. /\ ConvergenceTest(x) = {st.k = fate.converges}
        /\ StoppingTest(x) =
             {st.k >= Past /\ (InverseDelta * fate.loss[st.k - Past]) < (InverseDelta + 1) * fate.loss[st.k]}
    BY <1>1, <2>1, <2>2, UndisturbedTests DEF Going
  <2>5. EndsAt(st.k)
    <3>1. CASE TRUE \in ConvergenceTest(x)
      BY <2>4, <3>1 DEF EndsAt
    <3>2. CASE TRUE \in StoppingTest(x)
      BY <2>4, <3>2, Zenon DEF EndsAt
    <3>3. CASE MaxIterations < st.k + 1
      <4>1. st.k = MaxIterations
        BY <2>3, <3>3
      <4> QED
        BY <4>1 DEF EndsAt
    <3> QED
      BY <1>3, <3>1, <3>2, <3>3
  <2>6. Learned(trainset) = Walk(trainset, st.k)
    BY <2>1, <2>2, <2>3, <2>5, EndOfTheWalk DEF Going
  <2> QED
    BY <2>2, <2>6
<1>5. ResultIsLearned'
  BY <1>1, <1>3, <1>4 DEF ResultIsLearned, OfOneTraining, Learned, EndsAt
<1> QED
  BY <1>2, <1>5 DEF Resumable

LEMMA GoesOnResumable ==
  ASSUME LearnTypeOK, Resumable, IterationGoesOn
  PROVE  Resumable'
<1>1. /\ lb = "loop" /\ lb' \in {"checkpoint", "loop"} /\ MaxIterations >= st.k + 1
      /\ UNCHANGED <<fate, trainset, temp, checkpoint, origin>>
  BY DEF IterationGoesOn
<1>2. CheckpointIsSound' /\ ResultIsLearned' /\ (lb = "move" => temp = File)'
  BY <1>1, CheckpointKept DEF Resumable, ResultIsLearned
<1>3. PICK x \in LineSearch \ {FAILED} :
        /\ FALSE \in ConvergenceTest(x) /\ FALSE \in StoppingTest(x)
        /\ best_w' = x /\ reported' = TRUE /\ st' = NextState(x)
  BY DEF IterationGoesOn, Report
<1>4. fate'.converges # 0 /\ trainset' \in origin'
  BY <1>1 DEF Resumable, RunIsSound, Running
<1>5. ASSUME OfOneTraining PROVE Going(st, trainset)' /\ best_w' = st'.x
  <2>1. Going(st, trainset) /\ Sound(st, trainset)
    BY <1>1, <1>5 DEF Resumable, RunIsSound, Running, Going
  <2>2. x = Walk(trainset, st.k) /\ st.k # fate.fails
    BY <1>1, <2>1, UndisturbedSearch
  <2>3. st.k \in 1 .. MaxIterations /\ MaxIterations \in Nat /\ st.k < MaxIterations
    <3>1. st.k \in 1 .. MaxIterations /\ st.k \in Nat /\ MaxIterations \in Nat
      BY <2>1, GoingInRange
    <3> QED
      BY <1>1, <3>1
  <2>4. /\ ConvergenceTest(x) = {st.k = fate.converges}
        /\ StoppingTest(x) =
             {st.k >= Past /\ (InverseDelta * fate.loss[st.k - Past]) < (InverseDelta + 1) * fate.loss[st.k]}
    BY <1>1, <2>1, <2>2, UndisturbedTests DEF Going
  <2>5. ~EndsAt(st.k)
    <3>1. st.k # fate.converges
      BY <1>3, <2>4
    <3>2. ~(st.k >= Past /\ (InverseDelta * fate.loss[st.k - Past]) < (InverseDelta + 1) * fate.loss[st.k])
      BY <1>3, <2>4, Zenon
    <3>3. st.k # MaxIterations
      BY <2>3
    <3> QED
      BY <2>2, <3>1, <3>2, <3>3, Zenon DEF EndsAt
  <2>6. Sound(st', trainset')
    BY <1>1, <1>3, <2>1, <2>2, NextIsSound
  <2>7. st'.k = st.k + 1 /\ st'.x = x
    BY <1>3 DEF NextState
  <2>8. \A j \in 1 .. st'.k - 1 : ~EndsAt(j)
    <3>1. ASSUME NEW j \in 1 .. st'.k - 1 PROVE j \in 1 .. st.k - 1 \/ j = st.k
      BY <2>3, <2>7
    <3> QED
      BY <2>1, <2>5, <3>1 DEF Going
  <2>9. st'.k <= MaxIterations
    BY <1>1, <2>7, <2>3
  <2>10. Going(st, trainset)'
    BY <1>1, <2>6, <2>8, <2>9 DEF Going, EndsAt
  <2> QED
    BY <1>3, <2>7, <2>10
<1>6. RunIsSound'
  BY <1>1, <1>3, <1>4, <1>5 DEF RunIsSound, OfOneTraining
<1> QED
  BY <1>2, <1>6 DEF Resumable

LEMMA FileResumable ==
  ASSUME Resumable, OpenTemp \/ WriteTemp \/ MoveTemp
  PROVE  Resumable'
<1>1. /\ UNCHANGED <<fate, trainset, st, best_w, reported, origin>> /\ Running /\ Running'
      /\ lb' # "returned"
  BY DEF OpenTemp, WriteTemp, MoveTemp, Running
<1>2. RunIsSound'
  BY <1>1 DEF Resumable, RunIsSound, OfOneTraining, Going, EndsAt
<1>3. CheckpointIsSound'
  <2>1. CASE UNCHANGED checkpoint
    BY <1>1, <2>1, CheckpointKept DEF Resumable
  <2>2. CASE MoveTemp
    <3>1. checkpoint' = [state |-> st, origin |-> origin]
      BY <2>2 DEF MoveTemp, Resumable, File
    <3>2. fate'.converges # 0 /\ trainset \in origin
      BY <1>1 DEF Resumable, RunIsSound
    <3>3. ASSUME NEW D \in SUBSET Groups, origin = {D} PROVE Going(st, D)
      BY <1>1, <3>2, <3>3 DEF Resumable, RunIsSound, OfOneTraining
    <3> QED
      BY <1>1, <3>1, <3>2, <3>3 DEF CheckpointIsSound, Going, EndsAt
  <2> QED
    BY <2>1, <2>2 DEF OpenTemp, WriteTemp
<1>4. ResultIsLearned'
  BY <1>1 DEF ResultIsLearned
<1>5. (lb = "move" => temp = File)'
  BY DEF OpenTemp, WriteTemp, MoveTemp, File
<1> QED
  BY <1>2, <1>3, <1>4, <1>5 DEF Resumable

(* A command that ends or is killed leaves the checkpoint.                 *)
LEMMA ForgetResumable ==
  ASSUME Resumable, Forget, UNCHANGED <<fate, temp, checkpoint>>
  PROVE  Resumable'
  BY CheckpointKept DEF Forget, Resumable, RunIsSound, ResultIsLearned, Running

LEMMA NextResumable == LearnTypeOK /\ Resumable /\ [LearnNext]_commandVars => Resumable'
<1> SUFFICES ASSUME LearnTypeOK, Resumable, [LearnNext]_commandVars PROVE Resumable'
  OBVIOUS
<1>1. CASE UNCHANGED lbfgsVars
  <2>1. UNCHANGED <<fate, trainset, st, best_w, lb, temp, checkpoint, reported, origin>>
    BY <1>1 DEF lbfgsVars
  <2>2. CheckpointIsSound'
    BY <2>1, CheckpointKept DEF Resumable
  <2>3. RunIsSound'
    BY <2>1 DEF Resumable, RunIsSound, Running, OfOneTraining, Going, EndsAt
  <2>4. ResultIsLearned' /\ (lb = "move" => temp = File)'
    BY <2>1 DEF Resumable, ResultIsLearned, OfOneTraining, Learned, EndsAt, File
  <2> QED
    BY <2>2, <2>3, <2>4 DEF Resumable
<1>2. CASE Train
  <2>1. command.data \ {holdout} \in SUBSET Groups
    BY <1>2, LearnAssumption DEF Train, LearnTypeOK
  <2> QED
    BY <1>2, <2>1, BeginResumable DEF Train
<1>3. CASE Iterate
  BY <1>3, FailsResumable, EndsResumable, GoesOnResumable, FileResumable DEF Iterate, LbfgsStep
<1>4. CASE CloseModel \/ NextFold \/ LastFold \/ Killed
  BY <1>4, ForgetResumable DEF CloseModel, NextFold, LastFold, Killed, LbfgsReleased, LbfgsKilled
<1>5. CASE LearnCommand \/ OpenModel \/ Finished \/ UNCHANGED commandVars
  BY <1>1, <1>5 DEF LearnCommand, OpenModel, Finished, commandVars
<1> QED
  BY <1>2, <1>3, <1>4, <1>5 DEF LearnNext

LEMMA AlwaysResumable == LearnSpec => [](LearnTypeOK /\ Resumable)
  BY InitTypes, NextTypes, InitResumable, NextResumable, PTL DEF LearnSpec

-----------------------------------------------------------------------------
(* The results                                                             *)

(* At the top of each iteration the loop has the point, the direction, the *)
(* corrections and the losses of a training on the same groups that was    *)
(* never killed: what lbfgs() saves, where and when, is enough, for every  *)
(* number of corrections, period and distance of checkpoints.              *)
THEOREM StateIsKept == LearnSpec => []StateIsOfItsIterations
<1>1. Resumable => StateIsOfItsIterations
  <2> SUFFICES ASSUME Resumable, lb = "loop", OfOneTraining
               PROVE  Sound(st, trainset) => StateIsOfItsIterations
    BY DEF StateIsOfItsIterations, Resumable, RunIsSound, Running, Going
  <2> QED
    BY SoundIsUndisturbed DEF StateIsOfItsIterations, Sound, Ring, Losses
<1> QED
  BY <1>1, AlwaysResumable, PTL

(* A training that is killed and given again, however often, returns what  *)
(* it would have learned at once, or zeros when it came to no report; and  *)
(* no kill leaves a checkpoint that is not whole.                          *)
THEOREM LearnsTheSame == LearnSpec => []InterruptedLearnsTheSame
<1>1. LearnTypeOK /\ Resumable => InterruptedLearnsTheSame
  BY LbfgsAssumption DEF LearnTypeOK, Resumable, ResultIsLearned, InterruptedLearnsTheSame
<1> QED
  BY <1>1, AlwaysResumable, PTL

-----------------------------------------------------------------------------
(***************************************************************************)
(* The line search of liblbfgs                                             *)
(***************************************************************************)

Interval == [x : Fraction, fx : Fraction, dx : Fraction, y : Fraction, fy : Fraction, dy : Fraction, brackt : BOOLEAN]

Valued(e) == e.f \in Fraction /\ e.dg \in Fraction

SearchTypeOK ==
  /\ search \in SearchOptions /\ dginit \in Fraction
  /\ stp \in Fraction /\ Valued(value) /\ count \in Nat /\ iv \in Interval

(* Where the step may be while the search goes on.                          *)
StepInReach ==
  /\ ~Less(Zero, dginit) /\ count < search.max_linesearch
  /\ search.linesearch # "morethuente" =>
       NotAbove(Times(Dec, search.min_step), stp) /\ NotAbove(stp, Times(Inc, search.max_step))

SearchInv ==
  /\ SearchTypeOK
  /\ state = "search" => StepInReach
  /\ StepKeepsItsConditions

(* What the options of a search are.                                       *)
LEMMA OptionsAreFractions ==
  ASSUME NEW o \in SearchOptions
  PROVE  /\ o.linesearch \in Searches /\ o.max_linesearch \in Nat \ {0}
         /\ o.min_step \in Fraction /\ o.max_step \in Fraction /\ o.ftol \in Fraction
         /\ o.wolfe \in Fraction /\ o.gtol \in Fraction /\ o.xtol \in Fraction
         /\ Less(Zero, o.min_step) /\ ~Less(One, o.min_step) /\ ~Less(o.max_step, One)
         /\ ~Less(o.ftol, Zero) /\ Less(o.ftol, o.wolfe)
BY SearchAssumption DEF Lowest

LEMMA Constants ==
  Zero \in Fraction /\ One \in Fraction /\ Dec \in Fraction /\ Inc \in Fraction /\ Ratio \in Fraction
  /\ Dec # Zero /\ Inc # Zero
<1>1. Ratio \in Fraction
  BY SearchAssumption DEF Lowest
<1> QED
  BY <1>1 DEF Zero, One, Dec, Inc, Fraction

(* The arithmetic of the search stays among fractions.                     *)
LEMMA OperatorsInFraction ==
  ASSUME NEW x \in Fraction, NEW y \in Fraction
  PROVE  /\ Plus(x, y) \in Fraction /\ Times(x, y) \in Fraction /\ Sub(x, y) \in Fraction
         /\ Abs(x) \in Fraction /\ Lower(x, y) \in Fraction /\ Upper(x, y) \in Fraction
<1>1. Minus(y) \in Fraction /\ Minus(x) \in Fraction
  BY InFraction
<1>2. plus[x, Minus(y)] \in Fraction
  BY <1>1, InFraction
<1> QED
  BY <1>1, <1>2, InFraction DEF Plus, Times, Sub, Abs, Lower, Upper

LEMMA BetweenInFraction ==
  ASSUME NEW x \in Fraction, NEW y \in Fraction
  PROVE  Between(x, y) \subseteq Fraction
<1>1. Sub(y, x) \in Fraction
  BY OperatorsInFraction
<1>2. ASSUME NEW q \in {<< 1, 8 >>, << 7, 8 >>} PROVE Plus(x, Times(q, Sub(y, x))) \in Fraction
  <2>1. q \in Fraction
    BY DEF Fraction
  <2>2. Times(q, Sub(y, x)) \in Fraction
    BY <1>1, <2>1, OperatorsInFraction
  <2> QED
    BY <2>2, OperatorsInFraction
<1> QED
  BY <1>2 DEF Between

(* update_trial_interval: its interval and its next trial are fractions.   *)
LEMMA NewTrialsInFraction ==
  ASSUME NEW i \in Interval, NEW tr \in Fraction, NEW e, NEW tmin \in Fraction, NEW tmax \in Fraction,
         NEW dsign, NEW r \in NewTrials(i, tr, e, tmin, tmax, dsign)
  PROVE  r \in Fraction
<1> DEFINE ahead == IF Less(i.x, tr) THEN tmax ELSE tmin
<1>1. i.x \in Fraction /\ i.y \in Fraction /\ ahead \in Fraction
  BY DEF Interval
<1>2. Between(i.x, tr) \subseteq Fraction /\ Between(tr, ahead) \subseteq Fraction /\ Between(tr, i.y) \subseteq Fraction
  BY <1>1, BetweenInFraction
<1>3. r \in Between(i.x, tr) \/ r \in Between(tr, ahead) \/ r \in {tmin, tmax, tr} \/ r \in Between(tr, i.y)
  BY DEF NewTrials
<1> QED
  BY <1>1, <1>2, <1>3

LEMMA NewIntervalTyped ==
  ASSUME NEW i \in Interval, NEW tr \in Fraction, NEW e, Valued(e), NEW dsign \in BOOLEAN
  PROVE  NewInterval(i, tr, e, dsign) \in Interval
BY DEF NewInterval, Interval, Valued, Less

LEMMA SafeguardedInFraction ==
  ASSUME NEW i \in Interval, NEW newt \in Fraction, NEW tmin \in Fraction, NEW tmax \in Fraction, NEW bound
  PROVE  Safeguarded(newt, i, tmin, tmax, bound) \in Fraction
<1>1. Upper(Lower(newt, tmax), tmin) \in Fraction
  BY OperatorsInFraction
<1>2. i.x \in Fraction /\ i.y \in Fraction
  BY DEF Interval
<1>3. Plus(i.x, Times(Ratio, Sub(i.y, i.x))) \in Fraction
  BY <1>2, Constants, OperatorsInFraction
<1> QED
  BY <1>1, <1>2, <1>3, OperatorsInFraction DEF Safeguarded

TypedTrial(r) == r.iv \in Interval /\ r.t \in Fraction

LEMMA TrialIntervalsTyped ==
  ASSUME NEW i \in Interval, NEW tr \in Fraction, NEW e, Valued(e), NEW tmin \in Fraction, NEW tmax \in Fraction,
         NEW r \in TrialIntervals(i, tr, e, tmin, tmax)
  PROVE  TypedTrial(r)
<1> DEFINE dsign == i.dx # Zero /\ Less(Times(e.dg, i.dx), Zero)
           bound == Less(i.fx, e.f) \/ (~dsign /\ Less(Abs(e.dg), Abs(i.dx)))
           new   == NewInterval(i, tr, e, dsign)
           back  == ~Less(i.fx, e.f) /\ bound /\ TurnsBack(i, tr, e)
<1>1. new \in Interval
  BY NewIntervalTyped
<1>2. \/ \E why \in {1, 2, 3} : r = [uinfo |-> why, iv |-> i, t |-> tr, back |-> FALSE]
      \/ \E newt \in NewTrials(i, tr, e, tmin, tmax, dsign) :
           r = [uinfo |-> 0, iv |-> new, t |-> Safeguarded(newt, new, tmin, tmax, bound), back |-> back]
  BY DEF TrialIntervals
<1> HIDE DEF dsign, bound, new, back
<1>3. ASSUME NEW why, r = [uinfo |-> why, iv |-> i, t |-> tr, back |-> FALSE] PROVE TypedTrial(r)
  BY <1>3 DEF TypedTrial
<1>4. ASSUME NEW newt \in NewTrials(i, tr, e, tmin, tmax, dsign),
             r = [uinfo |-> 0, iv |-> new, t |-> Safeguarded(newt, new, tmin, tmax, bound), back |-> back]
      PROVE  TypedTrial(r)
  <2>1. newt \in Fraction
    BY NewTrialsInFraction
  <2>2. Safeguarded(newt, new, tmin, tmax, bound) \in Fraction
    BY <1>1, <2>1, SafeguardedInFraction
  <2> QED
    BY <1>1, <1>4, <2>2 DEF TypedTrial
<1> QED
  BY <1>2, <1>3, <1>4

LEMMA TiltTyped ==
  ASSUME NEW i \in Interval, NEW by \in Fraction
  PROVE  Tilt(i, by) \in Interval
<1>1. i.x \in Fraction /\ i.fx \in Fraction /\ i.dx \in Fraction /\ i.y \in Fraction /\ i.fy \in Fraction /\ i.dy \in Fraction
  BY DEF Interval
<1>2. Times(i.x, by) \in Fraction /\ Times(i.y, by) \in Fraction
  BY <1>1, OperatorsInFraction
<1>3. Sub(i.fx, Times(i.x, by)) \in Fraction /\ Sub(i.fy, Times(i.y, by)) \in Fraction
      /\ Sub(i.dx, by) \in Fraction /\ Sub(i.dy, by) \in Fraction
  BY <1>1, <1>2, OperatorsInFraction
<1> QED
  BY <1>3 DEF Tilt, Interval

LEMMA SafeValues ==
  ASSUME SearchTypeOK, NEW s, NEW e \in ValuesAt(s)
  PROVE  Valued(e)
<1>1. \A x \in Evaluations : x.f \in Fraction /\ x.dg \in Fraction
  BY SearchAssumption DEF Lowest
<1> QED
  BY <1>1 DEF SearchTypeOK, ValuesAt, Valued, Interval

(* What is computed from the state of a search.                            *)
LEMMA Derived ==
  ASSUME SearchTypeOK
  PROVE  /\ dgtest \in Fraction /\ \A s \in Fraction : Test(s) \in Fraction /\ Clip(s) \in Fraction
         /\ stmin \in Fraction /\ stmax \in Fraction /\ TrialStep \in Fraction
         /\ iv.x \in Fraction /\ iv.y \in Fraction
<1>1. search \in SearchOptions /\ dginit \in Fraction /\ stp \in Fraction
      /\ iv.x \in Fraction /\ iv.y \in Fraction
  BY DEF SearchTypeOK, Interval
<1>2. search.min_step \in Fraction /\ search.max_step \in Fraction /\ search.ftol \in Fraction
  BY <1>1, OptionsAreFractions
<1>3. dgtest \in Fraction
  BY <1>1, <1>2, OperatorsInFraction DEF dgtest
<1>4. \A s \in Fraction : Test(s) \in Fraction
  BY <1>3, OperatorsInFraction DEF Test
<1>5. \A s \in Fraction : Clip(s) \in Fraction
  BY <1>2, OperatorsInFraction DEF Clip
<1>6. stmin \in Fraction
  BY <1>1, OperatorsInFraction DEF stmin
<1>7. stmax \in Fraction
  <2>1. << 4, 1 >> \in Fraction
    BY DEF Fraction
  <2>2. Sub(stp, iv.x) \in Fraction
    BY <1>1, OperatorsInFraction
  <2>3. Times(<< 4, 1 >>, Sub(stp, iv.x)) \in Fraction
    BY <2>1, <2>2, OperatorsInFraction
  <2>4. Plus(stp, Times(<< 4, 1 >>, Sub(stp, iv.x))) \in Fraction
    BY <1>1, <2>3, OperatorsInFraction
  <2> QED
    BY <1>1, <2>4, OperatorsInFraction DEF stmax
<1>8. TrialStep \in Fraction
  BY <1>1, <1>5 DEF TrialStep
<1> QED
  BY <1>1, <1>3, <1>4, <1>5, <1>6, <1>7, <1>8

(* The next interval and trial of More and Thuente, first stage or not.    *)
LEMMA IntervalsTyped ==
  ASSUME SearchTypeOK, NEW first, NEW s \in Fraction, NEW e, Valued(e), NEW r \in Intervals(first, s, e)
  PROVE  TypedTrial(r)
<1>1. iv \in Interval /\ stmin \in Fraction /\ stmax \in Fraction /\ dgtest \in Fraction /\ Test(s) \in Fraction
      /\ e.f \in Fraction /\ e.dg \in Fraction
  BY Derived DEF SearchTypeOK, Valued
<1> DEFINE tilted == [f |-> Sub(e.f, Test(s)), dg |-> Sub(e.dg, dgtest)]
<1>2. CASE r \in TrialIntervals(iv, s, e, stmin, stmax)
  BY <1>1, <1>2, TrialIntervalsTyped
<1>3. ASSUME NEW q \in TrialIntervals(Tilt(iv, dgtest), s, tilted, stmin, stmax),
             r = [q EXCEPT !.iv = Tilt(@, Minus(dgtest))]
      PROVE  TypedTrial(r)
  <2>1. Valued(tilted) /\ Tilt(iv, dgtest) \in Interval
    BY <1>1, OperatorsInFraction, TiltTyped DEF Valued
  <2>2. TypedTrial(q)
    BY <1>1, <2>1, TrialIntervalsTyped
  <2>3. Minus(dgtest) \in Fraction
    BY <1>1, InFraction
  <2>4. Tilt(q.iv, Minus(dgtest)) \in Interval
    BY <2>2, <2>3, TiltTyped DEF TypedTrial
  <2>5. \E why, back : q = [uinfo |-> why, iv |-> q.iv, t |-> q.t, back |-> back]
    BY DEF TrialIntervals
  <2> QED
    BY <1>3, <2>2, <2>4, <2>5 DEF TypedTrial
<1> QED
  BY <1>2, <1>3 DEF Intervals

LEMMA HalvedInFraction ==
  ASSUME NEW i \in Interval, NEW tr \in Fraction
  PROVE  Halved(i, tr) \in Fraction
<1>1. i.x \in Fraction /\ i.y \in Fraction
  BY DEF Interval
<1>2. Plus(i.x, Times(Dec, Sub(i.y, i.x))) \in Fraction
  BY <1>1, Constants, OperatorsInFraction
<1> QED
  BY <1>2 DEF Halved

(* A number between t and -t is not larger than t.                         *)
LEMMA AbsWithin ==
  ASSUME NEW x \in Fraction, NEW tr \in Fraction, ~Less(x, tr), ~Less(Minus(tr), x)
  PROVE  NotAbove(Abs(x), Abs(tr))
<1>1. PICK a \in Int, b \in Nat \ {0} : x = << a, b >>
  BY DEF Fraction
<1>2. PICK c \in Int, d \in Nat \ {0} : tr = << c, d >>
  BY DEF Fraction
<1>3. Minus(tr) = << -c, d >> /\ Minus(tr) \in Fraction /\ Minus(x) = << -a, b >> /\ Minus(x) \in Fraction
  BY <1>1, <1>2, InFraction DEF Minus
<1>4. ~(a * d < c * b) /\ ~((-c) * b < a * d)
  BY <1>1, <1>2, <1>3, LessMeans
<1>5. (-c) * b = -(c * b) /\ (-a) * d = -(a * d) /\ c * b \in Int /\ a * d \in Int
  OBVIOUS
<1>6. /\ Abs(x) = IF a < 0 THEN Minus(x) ELSE x
      /\ Abs(tr) = IF c < 0 THEN Minus(tr) ELSE tr
  BY <1>1, <1>2 DEF Abs
<1>7. c <= 0
  <2>1. c * b <= 0
    BY <1>4, <1>5
  <2>2. c > 0 => c * b > 0
    OBVIOUS
  <2> QED
    BY <2>1, <2>2
<1>8. /\ Less(Minus(tr), Minus(x)) <=> (-c) * b < (-a) * d
      /\ Less(Minus(tr), x) <=> (-c) * b < a * d
      /\ Less(tr, Minus(x)) <=> c * b < (-a) * d
      /\ Less(tr, x) <=> c * b < a * d
  BY <1>1, <1>2, <1>3, LessMeans
<1>9. c = 0 => c * b = 0
  OBVIOUS
<1> QED
  BY <1>4, <1>5, <1>6, <1>7, <1>8, <1>9 DEF NotAbove

(* A product with -x is at most the size of one with x.                    *)
LEMMA AbsOfProduct ==
  ASSUME NEW g \in Fraction, NEW x \in Fraction
  PROVE  ~Less(Abs(Times(g, x)), Times(g, Minus(x)))
<1> DEFINE tr == Times(g, x)
           u == Times(g, Minus(x))
<1>1. Minus(x) \in Fraction /\ tr \in Fraction /\ u \in Fraction /\ Minus(tr) \in Fraction
  BY InFraction DEF Times
<1>2. PICK a \in Int, b \in Nat \ {0} : g = << a, b >>
  BY DEF Fraction
<1>3. PICK c \in Int, d \in Nat \ {0} : x = << c, d >>
  BY DEF Fraction
<1>4. Equals(g, a, b) /\ Equals(x, c, d)
  BY <1>2, <1>3 DEF Equals
<1>5. Equals(Minus(x), -c, d)
  BY <1>4, MinusEquals
<1>6. Equals(tr, a * c, b * d) /\ Equals(u, a * (-c), b * d)
  BY <1>4, <1>5, TimesEquals DEF Times
<1>7. Equals(Minus(tr), -(a * c), b * d)
  BY <1>6, MinusEquals
<1> HIDE DEF tr, u
<1>8. PICK m \in Int, n \in Nat \ {0} : m = a * c /\ n = b * d
  OBVIOUS
<1>9. a * (-c) = -m
  BY <1>8
<1>10. /\ Less(tr, u) <=> m * n < (-m) * n
       /\ Less(Minus(tr), u) <=> (-m) * n < (-m) * n
  BY <1>6, <1>7, <1>8, <1>9, LessEquals
<1>11. (-m) * n = -(m * n) /\ m * n \in Int
  BY <1>8
<1>12. tr[1] * n = m * tr[2] /\ tr[1] \in Int /\ tr[2] \in Int /\ tr[2] > 0
  BY <1>1, <1>6, <1>8, FractionEquals DEF Equals
<1>13. tr[1] >= 0 => m >= 0
  <2> SUFFICES ASSUME tr[1] >= 0, m < 0 PROVE FALSE
    BY <1>8
  <2>1. \A p \in Int, q \in Int, k \in Int : p >= 0 /\ n > 0 /\ k > 0 /\ m < 0 => p * n # m * k
    <3> TAKE p \in Int, q \in Int, k \in Int
    <3> SUFFICES ASSUME p >= 0, n > 0, k > 0, m < 0 PROVE p * n # m * k
      OBVIOUS
    <3>1. p * n >= 0 /\ m * k < 0
      BY <1>8
    <3> QED
      BY <1>8, <3>1
  <2> QED
    BY <1>8, <1>12, <2>1
<1>14. m >= 0 => m * n >= 0
  BY <1>8
<1>15. Abs(tr) = IF tr[1] < 0 THEN Minus(tr) ELSE tr
  BY DEF Abs
<1>16. ~Less(Abs(tr), u)
  BY <1>10, <1>11, <1>12, <1>13, <1>14, <1>15
<1> QED
  BY <1>16 DEF tr, u

(* A clipped step is within the least and the largest one.                 *)
LEMMA ClipWithin ==
  ASSUME SearchTypeOK, NEW s \in Fraction
  PROVE  NotAbove(search.min_step, Clip(s)) /\ NotAbove(Clip(s), search.max_step)
<1>1. search.min_step \in Fraction /\ search.max_step \in Fraction
      /\ ~Less(One, search.min_step) /\ ~Less(search.max_step, One)
  BY OptionsAreFractions DEF SearchTypeOK
<1>2. ~Less(search.max_step, search.min_step)
  BY <1>1, Constants, NotLessTransitive
<1> DEFINE u == Upper(s, search.min_step)
<1>3. u \in Fraction
  BY <1>1, OperatorsInFraction
<1>4. ~Less(u, search.min_step)
  BY <1>1, LessIsStrict DEF Upper
<1>5. Clip(s) = Lower(u, search.max_step)
  BY DEF Clip
<1> HIDE DEF u
<1> QED
  BY <1>1, <1>2, <1>3, <1>4, <1>5, LessIsStrict DEF Lower, NotAbove

(* Of a bracketed interval, the best step is one of the two ends.          *)
LEMMA AtTheLowest ==
  ASSUME SearchTypeOK, iv.brackt
  PROVE  AtAnEnd(iv.x)
<1>1. iv.x \in Fraction /\ iv.y \in Fraction
  BY DEF SearchTypeOK, Interval
<1>2. ~Less(iv.x, iv.x) /\ (Less(iv.y, iv.x) => ~Less(iv.x, iv.y))
  BY <1>1, LessIsStrict
<1> QED
  BY <1>2 DEF AtAnEnd, NotAbove, stmin, stmax, Lower, Upper

(* A step within the limits is within half the least and 2.1 of the        *)
(* largest.                                                                *)
LEMMA FoundInside ==
  ASSUME SearchTypeOK, NEW s \in Fraction, NotAbove(search.min_step, s), NotAbove(s, search.max_step)
  PROVE  /\ NotAbove(Times(Dec, search.min_step), s)
         /\ NotAbove(s, Times(Inc, search.max_step))
<1>1. search.min_step \in Fraction /\ search.max_step \in Fraction /\ Less(Zero, search.min_step)
  BY OptionsAreFractions DEF SearchTypeOK
<1>2. /\ ~Less(One, Dec) /\ ~Less(Inc, One) /\ Dec[1] >= 0 /\ One[1] >= 0
  <2>1. Dec[1] = 1 /\ Dec[2] = 2 /\ One[1] = 1 /\ One[2] = 1 /\ Inc[1] = 21 /\ Inc[2] = 10
    BY DEF Dec, Inc, One
  <2> QED
    BY <2>1, Constants, LessMeans
<1>3. search.min_step[1] >= 0
  BY <1>1, Constants, LessIsStrict, NotNegative
<1>4. s[1] >= 0
  <2>1. ~Less(search.min_step, Zero) /\ ~Less(s, search.min_step)
    BY <1>1, <1>3, NotNegative DEF NotAbove
  <2>2. ~Less(s, Zero)
    BY <1>1, <2>1, Constants, NotLessTransitive
  <2> QED
    BY <2>2, NotNegative
<1>5. ~Less(times[s, One], times[Dec, search.min_step])
  BY <1>1, <1>2, <1>3, Constants, TimesMonotone DEF NotAbove
<1>6. ~Less(times[Inc, search.max_step], times[s, One])
  BY <1>1, <1>2, <1>4, Constants, TimesMonotone DEF NotAbove
<1>7. ~Less(times[s, One], s) /\ ~Less(s, times[s, One])
  BY ByOne
<1>8. times[s, One] \in Fraction /\ times[Dec, search.min_step] \in Fraction /\ times[Inc, search.max_step] \in Fraction
  BY <1>1, Constants, InFraction
<1>9. ~Less(s, times[Dec, search.min_step])
  BY <1>5, <1>7, <1>8, NotLessTransitive
<1>10. ~Less(times[Inc, search.max_step], s)
  BY <1>6, <1>7, <1>8, NotLessTransitive
<1> QED
  BY <1>9, <1>10 DEF NotAbove, Times

(* So is a step within the limits that backtracking changed once more.     *)
LEMMA WidthChanges ==
  ASSUME SearchTypeOK, ~Less(stp, search.min_step), ~Less(search.max_step, stp),
         NEW k, k \in {Dec, Inc}
  PROVE  /\ NotAbove(Times(Dec, search.min_step), Times(stp, k))
         /\ NotAbove(Times(stp, k), Times(Inc, search.max_step))
<1>1. search.min_step \in Fraction /\ search.max_step \in Fraction /\ Less(Zero, search.min_step) /\ stp \in Fraction
  BY OptionsAreFractions DEF SearchTypeOK
<1>2. ~Less(k, Dec) /\ ~Less(Inc, k) /\ Dec[1] >= 0 /\ k[1] >= 0 /\ k \in Fraction
  <2>1. Dec[1] = 1 /\ Dec[2] = 2 /\ Inc[1] = 21 /\ Inc[2] = 10
    BY DEF Dec, Inc
  <2>2. ~Less(Dec, Dec) /\ ~Less(Inc, Inc) /\ ~Less(Inc, Dec)
    BY <2>1, Constants, LessMeans
  <2> QED
    BY <2>1, <2>2, Constants
<1>3. search.min_step[1] >= 0
  BY <1>1, Constants, LessIsStrict, NotNegative
<1>4. stp[1] >= 0
  <2>1. ~Less(search.min_step, Zero)
    BY <1>1, <1>3, NotNegative
  <2>2. ~Less(stp, Zero)
    BY <1>1, <2>1, Constants, NotLessTransitive
  <2> QED
    BY <1>1, <2>2, NotNegative
<1>5. ~Less(times[stp, k], times[Dec, search.min_step])
  BY <1>1, <1>2, <1>3, Constants, TimesMonotone
<1>6. ~Less(times[Inc, search.max_step], times[stp, k])
  BY <1>1, <1>2, <1>4, Constants, TimesMonotone
<1> QED
  BY <1>5, <1>6 DEF NotAbove, Times

(* The invariant, at the start and in every step.                          *)
LEMMA SearchBegins == SearchInit => SearchInv
<1> SUFFICES ASSUME SearchInit PROVE SearchInv
  OBVIOUS
<1>1. SearchTypeOK
  <2>1. Slopes \subseteq Fraction
    BY SearchAssumption DEF Lowest
  <2> QED
    BY <2>1, Constants DEF SearchInit, SearchTypeOK, Valued, Interval
<1>2. count = 0 /\ stp = One /\ state # "found"
  BY DEF SearchInit
<1>3. 0 < search.max_linesearch /\ NotAbove(search.min_step, One) /\ NotAbove(One, search.max_step)
  BY <1>1, OptionsAreFractions DEF SearchTypeOK, NotAbove
<1>4. NotAbove(Times(Dec, search.min_step), stp) /\ NotAbove(stp, Times(Inc, search.max_step))
  BY <1>1, <1>2, <1>3, Constants, FoundInside
<1>5. state = "search" => ~Less(Zero, dginit)
  BY DEF SearchInit
<1>6. count <= search.max_linesearch /\ count < search.max_linesearch
  BY <1>1, <1>2, OptionsAreFractions DEF SearchTypeOK
<1>7. state = "search" => StepInReach
  BY <1>4, <1>5, <1>6 DEF StepInReach
<1>8. StepKeepsItsConditions
  BY <1>2, <1>6 DEF StepKeepsItsConditions
<1> QED
  BY <1>1, <1>7, <1>8 DEF SearchInv

LEMMA BacktrackTyped ==
  ASSUME SearchInv, Backtrack
  PROVE  SearchTypeOK'
<1>1. SearchTypeOK
  BY DEF SearchInv
<1>2. PICK e \in ValuesAt(stp) : /\ value' = e /\ stp' = IF state' = "search" THEN Times(stp, Width(e)) ELSE stp
  BY DEF Backtrack
<1>3. Valued(e)
  BY <1>1, SafeValues
<1>4. Width(e) \in Fraction
  <2>1. Width(e) \in {Dec, Inc, Zero}
    BY DEF Width, Searches
  <2> QED
    BY <2>1, Constants
<1>5. stp' \in Fraction
  BY <1>1, <1>2, <1>4, OperatorsInFraction DEF SearchTypeOK
<1>6. Valued(value')
  BY <1>2, <1>3
<1>7. count' \in Nat /\ UNCHANGED <<search, dginit, iv>>
  BY <1>1 DEF Backtrack, SearchTypeOK
<1> QED
  BY <1>1, <1>5, <1>6, <1>7 DEF SearchTypeOK, Valued

LEMMA BacktrackKeeps ==
  ASSUME SearchInv, Backtrack
  PROVE  SearchInv'
<1>1. SearchTypeOK /\ StepInReach
  BY DEF SearchInv, Backtrack
<1>2. PICK e \in ValuesAt(stp) :
       /\ value' = e
       /\ state' = IF Width(e) = Zero THEN "found"
                   ELSE IF Less(stp, search.min_step) THEN "MINIMUMSTEP"
                   ELSE IF Less(search.max_step, stp) THEN "MAXIMUMSTEP"
                   ELSE IF search.max_linesearch <= count + 1 THEN "MAXIMUMLINESEARCH"
                   ELSE "search"
       /\ stp' = IF state' = "search" THEN Times(stp, Width(e)) ELSE stp
  BY DEF Backtrack
<1>3. Valued(e) /\ stp \in Fraction /\ search \in SearchOptions /\ dginit \in Fraction
  BY <1>1, SafeValues DEF SearchTypeOK
<1>4. search.linesearch \in Searches /\ search.wolfe \in Fraction /\ search.max_linesearch \in Nat
  BY <1>3, OptionsAreFractions
<1>5. UNCHANGED <<search, dginit>> /\ count' = count + 1 /\ search.linesearch # "morethuente" /\ count \in Nat
  BY <1>1 DEF Backtrack, SearchTypeOK
<1>6. SearchTypeOK'
  BY BacktrackTyped
<1>7. (count <= search.max_linesearch)'
  BY <1>1, <1>4, <1>5 DEF StepInReach
<1>8. CASE state' = "search"
  <2>1. Width(e) # Zero /\ ~Less(stp, search.min_step) /\ ~Less(search.max_step, stp) /\ count + 1 < search.max_linesearch
        /\ stp' = Times(stp, Width(e))
    BY <1>2, <1>4, <1>5, <1>8
  <2>2. Width(e) \in {Dec, Inc}
    BY <2>1 DEF Width, Searches
  <2>3. NotAbove(Times(Dec, search.min_step), stp') /\ NotAbove(stp', Times(Inc, search.max_step))
    BY <1>1, <2>1, <2>2, WidthChanges
  <2>4. StepInReach'
    BY <1>1, <1>5, <2>1, <2>3 DEF StepInReach
  <2>5. StepKeepsItsConditions'
    BY <1>8, <1>7 DEF StepKeepsItsConditions
  <2> QED
    BY <1>6, <2>4, <2>5 DEF SearchInv
<1>9. CASE state' # "search" /\ state' # "found"
  <2>1. StepKeepsItsConditions'
    BY <1>9, <1>7 DEF StepKeepsItsConditions
  <2> QED
    BY <1>6, <1>9, <2>1 DEF SearchInv
<1>10. CASE state' = "found"
  <2>1. Width(e) = Zero /\ stp' = stp /\ value' = e
    BY <1>2, <1>10
  <2>2. NotAbove(e.f, Test(stp))
    BY <2>1, Constants DEF Width, NotAbove
  <2>3. search.linesearch # "armijo" => NotAbove(Times(search.wolfe, dginit), e.dg)
    BY <1>4, <2>1, <2>2, Constants DEF Width, NotAbove
  <2>4. search.linesearch = "strong wolfe" => NotAbove(Abs(e.dg), Abs(Times(search.wolfe, dginit)))
    <3> SUFFICES ASSUME search.linesearch = "strong wolfe"
                 PROVE  NotAbove(Abs(e.dg), Abs(Times(search.wolfe, dginit)))
      OBVIOUS
    <3>1. ~Less(e.dg, Times(search.wolfe, dginit))
      BY <2>3 DEF NotAbove
    <3>2. ~Less(Minus(Times(search.wolfe, dginit)), e.dg)
      BY <2>1, <2>2, <3>1, Constants DEF Width, NotAbove
    <3>3. Times(search.wolfe, dginit) \in Fraction /\ e.dg \in Fraction
      BY <1>3, <1>4, OperatorsInFraction DEF Valued
    <3> QED
      BY <3>1, <3>2, <3>3, AbsWithin
  <2>5. Test(stp)' = Test(stp)
    BY <1>5, <2>1 DEF Test, dgtest
  <2>6. search.linesearch # "morethuente" /\ search' = search /\ dginit' = dginit
    BY <1>5
  <2>7. NotAbove(Times(Dec, search.min_step), stp) /\ NotAbove(stp, Times(Inc, search.max_step))
    BY <1>1, <2>6 DEF StepInReach
  <2>8. StepKeepsItsConditions'
    BY <1>7, <2>1, <2>2, <2>3, <2>4, <2>5, <2>6, <2>7, Zenon DEF StepKeepsItsConditions
  <2> QED
    BY <1>6, <1>10, <2>8 DEF SearchInv
<1> QED
  BY <1>8, <1>9, <1>10

(* What a trial comes to, whatever else the search keeps of it.             *)
Tried(s, e) ==
  /\ s = TrialStep /\ e \in ValuesAt(s) /\ value' = e /\ state' = Verdict(s, e)
  /\ \/ state' # "search" /\ stp' = s /\ iv' = iv
     \/ /\ state' = "search"
        /\ \E first \in BOOLEAN : \E r \in Intervals(first, s, e) :
             iv' = r.iv /\ stp' \in {r.t, Halved(r.iv, r.t)}

LEMMA MoreThuenteTries ==
  ASSUME MoreThuente
  PROVE  \E s, e : Tried(s, e)
<1>1. PICK s \in { TrialStep } : \E e \in ValuesAt(s) :
       LET verdict == Verdict(s, e)
           first == stage1 /\ ~(NotAbove(e.f, Test(s))
                                /\ NotAbove(Times(Lower(search.ftol, search.gtol), dginit), e.dg))
       IN  /\ value' = e /\ state' = verdict
           /\ IF verdict # "search"
              THEN stp' = s /\ UNCHANGED <<iv, stage1, uinfo, width, widths, astray>>
              ELSE /\ stage1' = first
                   /\ \E r \in Intervals(first, s, e) :
                        /\ uinfo' = r.uinfo /\ iv' = r.iv
                        /\ astray' = (r.back /\ ~(r.iv.brackt /\ Wide(r.iv)))
                        /\ IF r.iv.brackt
                           THEN /\ stp' = Halved(r.iv, r.t)
                                /\ width' = << Abs(Sub(r.iv.y, r.iv.x)), width[1] >>
                                /\ widths' = Append(widths, Abs(Sub(r.iv.y, r.iv.x)))
                           ELSE stp' = r.t /\ UNCHANGED <<width, widths>>
  BY DEF MoreThuente
<1>2. PICK e \in ValuesAt(s) :
       LET verdict == Verdict(s, e)
           first == stage1 /\ ~(NotAbove(e.f, Test(s))
                                /\ NotAbove(Times(Lower(search.ftol, search.gtol), dginit), e.dg))
       IN  /\ value' = e /\ state' = verdict
           /\ IF verdict # "search"
              THEN stp' = s /\ UNCHANGED <<iv, stage1, uinfo, width, widths, astray>>
              ELSE /\ stage1' = first
                   /\ \E r \in Intervals(first, s, e) :
                        /\ uinfo' = r.uinfo /\ iv' = r.iv
                        /\ astray' = (r.back /\ ~(r.iv.brackt /\ Wide(r.iv)))
                        /\ IF r.iv.brackt
                           THEN /\ stp' = Halved(r.iv, r.t)
                                /\ width' = << Abs(Sub(r.iv.y, r.iv.x)), width[1] >>
                                /\ widths' = Append(widths, Abs(Sub(r.iv.y, r.iv.x)))
                           ELSE stp' = r.t /\ UNCHANGED <<width, widths>>
  BY <1>1
<1> DEFINE first == stage1 /\ ~(NotAbove(e.f, Test(s))
                                /\ NotAbove(Times(Lower(search.ftol, search.gtol), dginit), e.dg))
<1>3. s = TrialStep /\ value' = e /\ state' = Verdict(s, e)
  BY <1>2
<1>4. CASE state' # "search"
  BY <1>2, <1>3, <1>4 DEF Tried
<1>5. CASE state' = "search"
  <2>1. first \in BOOLEAN
    BY DEF NotAbove
  <2>2. PICK r \in Intervals(first, s, e) : iv' = r.iv /\ stp' \in {r.t, Halved(r.iv, r.t)}
    BY <1>2, <1>3, <1>5
  <2> QED
    BY <1>3, <1>5, <2>1, <2>2 DEF Tried
<1> QED
  BY <1>4, <1>5

(* A step of More and Thuente keeps the invariant.                         *)
LEMMA MoreThuenteKeeps ==
  ASSUME SearchInv, MoreThuente
  PROVE  SearchInv'
<1>1. SearchTypeOK /\ StepInReach
  BY DEF SearchInv, MoreThuente
<1>2. PICK s, e : Tried(s, e)
  BY MoreThuenteTries
<1>3. s \in Fraction /\ Valued(e) /\ search \in SearchOptions /\ dginit \in Fraction
  BY <1>1, <1>2, Derived, SafeValues DEF Tried, SearchTypeOK
<1>4. search.max_linesearch \in Nat /\ search.gtol \in Fraction
  BY <1>3, OptionsAreFractions
<1>5. UNCHANGED <<search, dginit>> /\ count' = count + 1 /\ search.linesearch = "morethuente" /\ count \in Nat
  BY <1>1 DEF MoreThuente, SearchTypeOK
<1>6. iv' \in Interval /\ stp' \in Fraction
  <2>1. CASE state' # "search"
    BY <1>1, <1>2, <1>3, <2>1 DEF Tried, SearchTypeOK
  <2>2. CASE state' = "search"
    <3>1. PICK first \in BOOLEAN : \E r \in Intervals(first, s, e) :
                 iv' = r.iv /\ stp' \in {r.t, Halved(r.iv, r.t)}
      BY <1>2, <2>2 DEF Tried
    <3>2. PICK r \in Intervals(first, s, e) : iv' = r.iv /\ stp' \in {r.t, Halved(r.iv, r.t)}
      BY <3>1
    <3>3. TypedTrial(r)
      BY <1>1, <1>3, IntervalsTyped
    <3>4. Halved(r.iv, r.t) \in Fraction
      BY <3>3, HalvedInFraction DEF TypedTrial
    <3> QED
      BY <3>2, <3>3, <3>4 DEF TypedTrial
  <2> QED
    BY <2>1, <2>2
<1>7. SearchTypeOK'
  BY <1>1, <1>2, <1>3, <1>5, <1>6 DEF SearchTypeOK, Valued, Tried
<1>8. (count <= search.max_linesearch)' /\ (state' = "search" => (count < search.max_linesearch)')
  <2>1. state' = "search" => ~(search.max_linesearch <= count + 1)
    BY <1>2 DEF Tried, Verdict
  <2> QED
    BY <1>1, <1>4, <1>5, <2>1 DEF StepInReach
<1>9. state' = "search" => StepInReach'
  BY <1>1, <1>5, <1>8 DEF StepInReach
<1>10. CASE state' # "found"
  <2>1. StepKeepsItsConditions'
    BY <1>8, <1>10 DEF StepKeepsItsConditions
  <2> QED
    BY <1>7, <1>9, <2>1 DEF SearchInv
<1>11. CASE state' = "found"
  <2>1. stp' = s /\ value' = e /\ Verdict(s, e) = "found"
    BY <1>2, <1>11 DEF Tried
  <2>2. ~(iv.brackt /\ AtAnEnd(s)) /\ NotAbove(e.f, Test(s)) /\ NotAbove(Abs(e.dg), Times(search.gtol, Minus(dginit)))
    BY <2>1 DEF Verdict
  <2>3. s = Clip(stp)
    BY <1>1, <1>2, <2>2, AtTheLowest DEF Tried, TrialStep
  <2>4. NotAbove(search.min_step, s) /\ NotAbove(s, search.max_step)
    BY <1>1, <2>3, ClipWithin DEF SearchTypeOK
  <2>5. NotAbove(Times(Dec, search.min_step), s) /\ NotAbove(s, Times(Inc, search.max_step))
    BY <1>1, <1>3, <2>4, FoundInside
  <2>6. NotAbove(Abs(e.dg), Abs(Times(search.gtol, dginit)))
    <3>1. Minus(dginit) \in Fraction /\ Times(search.gtol, dginit) \in Fraction /\ e.dg \in Fraction
      BY <1>3, <1>4, InFraction, OperatorsInFraction DEF Valued
    <3>2. Times(search.gtol, Minus(dginit)) \in Fraction /\ Abs(Times(search.gtol, dginit)) \in Fraction /\ Abs(e.dg) \in Fraction
      BY <1>4, <3>1, OperatorsInFraction
    <3>3. ~Less(Abs(Times(search.gtol, dginit)), Times(search.gtol, Minus(dginit)))
      BY <1>3, <1>4, AbsOfProduct
    <3> QED
      BY <2>2, <3>2, <3>3, NotLessTransitive DEF NotAbove
  <2>7. Test(stp)' = Test(s)
    BY <1>5, <2>1 DEF Test, dgtest
  <2>8. search.linesearch = "morethuente" /\ search' = search /\ dginit' = dginit
    BY <1>5
  <2>9. search.linesearch # "wolfe" /\ search.linesearch # "strong wolfe"
    BY <1>5
  <2>10. StepKeepsItsConditions'
    BY <1>8, <2>1, <2>2, <2>4, <2>5, <2>6, <2>7, <2>8, <2>9, Zenon DEF StepKeepsItsConditions
  <2> QED
    BY <1>7, <1>9, <2>10 DEF SearchInv
<1> QED
  BY <1>10, <1>11

LEMMA SearchKeeps ==
  ASSUME SearchInv, [SearchNext]_searchVars
  PROVE  SearchInv'
<1>1. CASE Backtrack
  BY <1>1, BacktrackKeeps
<1>2. CASE MoreThuente
  BY <1>2, MoreThuenteKeeps
<1>3. CASE UNCHANGED searchVars
  BY <1>3 DEF SearchInv, SearchTypeOK, StepInReach, StepKeepsItsConditions, searchVars, Valued, Test, dgtest
<1> QED
  BY <1>1, <1>2, <1>3 DEF SearchNext

(* The line search of liblbfgs never makes more trials than                *)
(* max_linesearch, and a step it accepts satisfies the conditions of the   *)
(* search it was asked for: it decreases the objective enough, its slope   *)
(* is as small as that search demands, and it lies within the limits, half *)
(* of min_step and 2.1 of max_step for backtracking, whatever objective is *)
(* searched.                                                               *)
THEOREM StepKeepsConditions == SearchSpec => []StepKeepsItsConditions
<1>1. SearchInit => SearchInv
  BY SearchBegins
<1>2. SearchInv /\ [SearchNext]_searchVars => SearchInv'
  BY SearchKeeps
<1>3. SearchInv => StepKeepsItsConditions
  BY DEF SearchInv
<1> QED
  BY <1>1, <1>2, <1>3, PTL DEF SearchSpec

-----------------------------------------------------------------------------
(***************************************************************************)
(* The interval in which the line search holds the minimum                 *)
(***************************************************************************)

LEMMA PartsOf ==
  ASSUME NEW x \in Numbers, NEW y \in Numbers, NEW d \in Nat \ {0}, NEW n \in Int, NEW m \in Int,
         Equals(x, n, d), Equals(y, m, d)
  PROVE  /\ Plus(x, y) \in Numbers /\ Equals(Plus(x, y), n + m, d)
         /\ Sub(x, y) \in Numbers /\ Equals(Sub(x, y), n - m, d)
         /\ Abs(x) \in Numbers /\ Equals(Abs(x), IF n < 0 THEN -n ELSE n, d)
         /\ Minus(x) \in Numbers /\ Equals(Minus(x), -n, d)
<1>1. ASSUME NEW z \in Numbers, NEW p, NEW q, Equals(z, p, q) PROVE Equals(Minus(z), -p, q) /\ Minus(z) \in Numbers
  BY <1>1, MinusEquals, PlusNumber DEF Numbers
<1>2. ASSUME NEW z \in Numbers, NEW p \in Int, Equals(z, p, d) PROVE plus[x, z] \in Numbers /\ Equals(plus[x, z], n + p, d)
  BY <1>2, PartsOfPlus
<1>3. Equals(Minus(y), -m, d) /\ Minus(y) \in Numbers /\ Equals(Minus(x), -n, d) /\ Minus(x) \in Numbers
  BY <1>1
<1>4. Equals(Plus(x, y), n + m, d) /\ Plus(x, y) \in Numbers
  BY <1>2 DEF Plus
<1>5. Equals(Sub(x, y), n - m, d) /\ Sub(x, y) \in Numbers
  <2>1. -m \in Int /\ n + (-m) = n - m
    OBVIOUS
  <2> QED
    BY <1>2, <1>3, <2>1 DEF Sub
<1>6. x[1] < 0 <=> n < 0
  <2>1. x[1] >= 0 <=> n >= 0
    BY PositiveOf
  <2>2. x[1] \in Int
    BY FractionEquals DEF Numbers
  <2> QED
    BY <2>1, <2>2
<1>7. Abs(x) \in Numbers /\ Equals(Abs(x), IF n < 0 THEN -n ELSE n, d)
  BY <1>3, <1>6 DEF Abs
<1> QED
  BY <1>3, <1>4, <1>5, <1>7

LEMMA SignOfDifference ==
  ASSUME NEW x \in Numbers, NEW y \in Numbers
  PROVE  Sub(y, x) \in Numbers /\ (Less(Zero, Sub(y, x)) <=> Less(x, y)) /\ (Less(Sub(y, x), Zero) <=> Less(y, x))
<1>1. PICK d \in Nat \ {0}, n \in Int, m \in Int : Equals(x, n, d) /\ Equals(y, m, d)
  BY OverTwo
<1>2. Sub(y, x) \in Numbers /\ Equals(Sub(y, x), m - n, d) /\ m - n \in Int
  BY <1>1, PartsOf
<1>3. Zero \in Numbers /\ Equals(Zero, 0, d)
  BY ZeroPart
<1>4. (Less(Zero, Sub(y, x)) <=> 0 < m - n) /\ (Less(Sub(y, x), Zero) <=> m - n < 0)
  BY <1>2, <1>3, OrderOfParts
<1>5. (Less(x, y) <=> n < m) /\ (Less(y, x) <=> m < n)
  BY <1>1, OrderOfParts
<1> QED
  BY <1>2, <1>4, <1>5

(* Strictly between two points.                                             *)
Inside(z, x, y) == (Less(x, z) /\ Less(z, y)) \/ (Less(y, z) /\ Less(z, x))

LEMMA InsideOf ==
  ASSUME NEW q \in Numbers, Less(Zero, q), Less(q, One), NEW x \in Numbers, NEW y \in Numbers, x # y,
         NEW z, z = Plus(x, Times(q, Sub(y, x)))
  PROVE  z \in Numbers /\ Inside(z, x, y)
<1> DEFINE c == Sub(y, x)
           p == Times(q, c)
<1>1. c \in Numbers /\ (Less(Zero, c) <=> Less(x, y)) /\ (Less(c, Zero) <=> Less(y, x))
  BY SignOfDifference
<1>2. p \in Numbers /\ (Less(Zero, c) => Less(Zero, p) /\ Less(p, c)) /\ (Less(c, Zero) => Less(c, p) /\ Less(p, Zero))
  BY <1>1, PartIsInside
<1>3. PICK e \in Nat \ {0}, n \in Int, m \in Int, k \in Int : Equals(x, n, e) /\ Equals(y, m, e) /\ Equals(p, k, e)
  BY <1>2, OverThree
<1>4. c \in Numbers /\ Equals(c, m - n, e) /\ m - n \in Int
  BY <1>3, PartsOf
<1>5. z \in Numbers /\ Equals(z, n + k, e) /\ n + k \in Int
  BY <1>2, <1>3, PartsOf
<1>6. /\ (Less(x, z) <=> n < n + k) /\ (Less(z, y) <=> n + k < m) /\ (Less(y, z) <=> m < n + k) /\ (Less(z, x) <=> n + k < n)
      /\ (Less(x, y) <=> n < m) /\ (Less(y, x) <=> m < n) /\ (x = y <=> n = m)
  BY <1>3, <1>5, OrderOfParts
<1>7. (Less(p, c) <=> k < m - n) /\ (Less(c, p) <=> m - n < k) /\ (Less(Zero, p) <=> k > 0) /\ (Less(p, Zero) <=> k < 0)
  BY <1>2, <1>3, <1>4, OrderOfParts, SignOfNumber
<1> QED
  BY <1>1, <1>2, <1>3, <1>5, <1>6, <1>7 DEF Inside

(* How far two points are apart.                                            *)
Span(x, y) == Abs(Sub(y, x))

LEMMA SpanParts ==
  ASSUME NEW x \in Numbers, NEW y \in Numbers, NEW d \in Nat \ {0}, NEW n \in Int, NEW m \in Int,
         Equals(x, n, d), Equals(y, m, d)
  PROVE  Span(x, y) \in Numbers /\ Equals(Span(x, y), IF n < m THEN m - n ELSE n - m, d)
<1>1. Sub(y, x) \in Numbers /\ Equals(Sub(y, x), m - n, d) /\ m - n \in Int
  BY PartsOf
<1>2. Span(x, y) \in Numbers /\ Equals(Span(x, y), IF m - n < 0 THEN -(m - n) ELSE m - n, d)
  BY <1>1, PartsOf DEF Span
<1>3. (IF m - n < 0 THEN -(m - n) ELSE m - n) = (IF n < m THEN m - n ELSE n - m)
  OBVIOUS
<1> QED
  BY <1>2, <1>3

(* A point inside is nearer to both ends than they are to each other.       *)
LEMMA SpanInside ==
  ASSUME NEW x \in Numbers, NEW y \in Numbers, NEW z \in Numbers, Inside(z, x, y)
  PROVE  /\ Span(x, y) \in Numbers /\ Span(z, x) \in Numbers /\ Span(z, y) \in Numbers
         /\ Span(x, z) = Span(z, x) /\ Span(y, z) = Span(z, y)
         /\ Less(Span(z, x), Span(x, y)) /\ Less(Span(z, y), Span(x, y))
         /\ Less(Zero, Span(x, y))
<1>1. PICK d \in Nat \ {0}, n \in Int, m \in Int, k \in Int : Equals(x, n, d) /\ Equals(y, m, d) /\ Equals(z, k, d)
  BY OverThree
<1> DEFINE Apart2(a, b) == IF a < b THEN b - a ELSE a - b
<1>2. /\ Span(x, y) \in Numbers /\ Equals(Span(x, y), Apart2(n, m), d)
      /\ Span(z, x) \in Numbers /\ Equals(Span(z, x), Apart2(k, n), d)
      /\ Span(z, y) \in Numbers /\ Equals(Span(z, y), Apart2(k, m), d)
      /\ Span(x, z) \in Numbers /\ Equals(Span(x, z), Apart2(n, k), d)
      /\ Span(y, z) \in Numbers /\ Equals(Span(y, z), Apart2(m, k), d)
  BY <1>1, SpanParts
<1>3. (n < k /\ k < m) \/ (m < k /\ k < n)
  BY <1>1, OrderOfParts DEF Inside
<1>4. /\ Apart2(n, k) = Apart2(k, n) /\ Apart2(m, k) = Apart2(k, m) /\ Apart2(k, n) < Apart2(n, m)
      /\ Apart2(k, m) < Apart2(n, m) /\ Apart2(n, m) > 0
      /\ Apart2(n, k) \in Int /\ Apart2(k, n) \in Int /\ Apart2(m, k) \in Int /\ Apart2(k, m) \in Int /\ Apart2(n, m) \in Int
  BY <1>1, <1>3
<1> HIDE DEF Apart2
<1> QED
  BY <1>1, <1>2, <1>4, OrderOfParts, SignOfNumber

(* The middle, and what is beyond it.                                       *)
LEMMA HalfIs ==
  ASSUME NEW x \in Numbers
  PROVE  Times(Dec, x) \in Numbers /\ Plus(Times(Dec, x), Times(Dec, x)) = x
<1>1. Dec \in Numbers /\ Equals(Dec, 1, 2)
  <2>1. Dec \in Fraction /\ Dec[1] = 1 /\ Dec[2] = 2
    BY DEF Dec, Fraction
  <2>2. 1 * 1 + 0 * 2 = 1
    OBVIOUS
  <2>3. Bezout(1, 2)
    BY <2>2 DEF Bezout
  <2>4. Lowest(Dec)
    BY <2>1, <2>3, LowestMeans
  <2> QED
    BY <2>1, <2>4 DEF Numbers, Equals
<1>2. PICK a \in Int, b \in Nat \ {0} : Equals(x, a, b)
  BY FractionEquals DEF Numbers
<1>3. Times(Dec, x) \in Numbers /\ Equals(Times(Dec, x), 1 * a, 2 * b)
  BY <1>1, <1>2, TimesEquals, PlusNumber DEF Times
<1>4. 1 * a = a /\ 2 * b \in Nat \ {0}
  BY <1>2
<1>5. Plus(Times(Dec, x), Times(Dec, x)) \in Numbers /\ Equals(Plus(Times(Dec, x), Times(Dec, x)), a + a, 2 * b)
  BY <1>2, <1>3, <1>4, PartsOf
<1>6. Equals(x, a * 2, b * 2) /\ a * 2 = a + a /\ b * 2 = 2 * b /\ a + a \in Int
  <2>1. a * 2 = a + a /\ b * 2 = 2 * b /\ a + a \in Int /\ 2 \in Nat \ {0}
    BY <1>2
  <2> QED
    BY <1>2, <2>1, Rescaled
<1> QED
  BY <1>3, <1>4, <1>5, <1>6, OrderOfParts

LEMMA NearerBeyond ==
  ASSUME NEW s \in Numbers, NEW r \in Numbers, NEW y \in Numbers, ~Less(s, r), Less(s, y)
  PROVE  ~Less(Span(r, y), Span(s, y))
<1>1. PICK d \in Nat \ {0}, n \in Int, m \in Int, k \in Int : Equals(s, n, d) /\ Equals(r, m, d) /\ Equals(y, k, d)
  BY OverThree
<1>2. m <= n /\ n < k
  BY <1>1, OrderOfParts
<1>3. (IF n < k THEN k - n ELSE n - k) = k - n /\ (IF m < k THEN k - m ELSE m - k) = k - m
      /\ k - n \in Int /\ k - m \in Int /\ k - n <= k - m
  BY <1>1, <1>2
<1>4. Span(s, y) \in Numbers /\ Equals(Span(s, y), k - n, d) /\ Span(r, y) \in Numbers /\ Equals(Span(r, y), k - m, d)
  BY <1>1, <1>3, SpanParts
<1>5. ~(k - m < k - n)
  BY <1>3
<1> QED
  BY <1>3, <1>4, <1>5, OrderOfParts

LEMMA MiddleOf ==
  ASSUME NEW x \in Numbers, NEW y \in Numbers, x # y, NEW mid, mid = Plus(x, Times(Dec, Sub(y, x)))
  PROVE  /\ mid \in Numbers /\ Inside(mid, x, y)
         /\ Span(mid, x) = Times(Dec, Span(x, y)) /\ Span(mid, y) = Times(Dec, Span(x, y))
         /\ \A s \in Numbers :
              /\ ~Less(s, mid) /\ Less(s, y) => ~Less(Times(Dec, Span(x, y)), Span(s, y))
              /\ ~Less(s, mid) /\ Less(s, x) => ~Less(Times(Dec, Span(x, y)), Span(s, x))
<1>1. PICK c \in Numbers, w \in Numbers : c = Sub(y, x) /\ w = Span(x, y)
  <2>1. PICK d \in Nat \ {0}, n \in Int, m \in Int : Equals(x, n, d) /\ Equals(y, m, d)
    BY OverTwo
  <2> QED
    BY <2>1, SignOfDifference, SpanParts
<1>2. PICK p \in Numbers, h \in Numbers : p = Times(Dec, c) /\ Plus(p, p) = c /\ h = Times(Dec, w) /\ Plus(h, h) = w
  BY <1>1, HalfIs
<1>3. PICK e \in Nat \ {0}, n \in Int, m \in Int, k \in Int, u \in Int :
        Equals(x, n, e) /\ Equals(y, m, e) /\ Equals(p, k, e) /\ Equals(h, u, e)
  BY <1>2, OverFour
<1>4. k + k = m - n /\ k + k \in Int /\ m - n \in Int
  <2>1. Equals(c, m - n, e) /\ m - n \in Int
    BY <1>1, <1>3, PartsOf
  <2>2. Equals(c, k + k, e) /\ k + k \in Int
    BY <1>2, <1>3, PartsOf
  <2> QED
    BY <1>1, <2>1, <2>2, OrderOfParts
<1>5. mid \in Numbers /\ Equals(mid, n + k, e) /\ n + k \in Int
  <2>1. Plus(x, p) \in Numbers /\ Equals(Plus(x, p), n + k, e)
    BY <1>3, PartsOf
  <2>2. mid = Plus(x, p) /\ n + k \in Int
    BY <1>1, <1>2
  <2> QED
    BY <2>1, <2>2
<1>6. n # m
  BY <1>3, OrderOfParts
<1>7. Inside(mid, x, y)
  <2>1. (n < n + k /\ n + k < m) \/ (m < n + k /\ n + k < n)
    BY <1>3, <1>4, <1>6
  <2> QED
    BY <1>3, <1>5, <2>1, OrderOfParts DEF Inside
<1>8. u = IF k < 0 THEN -k ELSE k
  <2>1. PICK a \in Int : a = IF n < m THEN m - n ELSE n - m
    <3>1. (IF n < m THEN m - n ELSE n - m) \in Int
      BY <1>3
    <3> QED
      BY <3>1
  <2>2. Equals(w, a, e)
    BY <1>1, <1>3, <2>1, SpanParts
  <2>3. Equals(w, u + u, e) /\ u + u \in Int
    <3>1. Equals(Plus(h, h), u + u, e)
      BY <1>3, PartsOf
    <3> QED
      BY <1>2, <3>1
  <2>4. u + u = a
    BY <1>1, <2>2, <2>3, OrderOfParts
  <2> QED
    BY <1>3, <1>4, <2>1, <2>4
<1>9. Span(mid, x) = h /\ Span(mid, y) = h
  <2>1. /\ (IF n + k < n THEN n - (n + k) ELSE (n + k) - n) = u
        /\ (IF n + k < m THEN m - (n + k) ELSE (n + k) - m) = u
    BY <1>3, <1>4, <1>8
  <2>2. Span(mid, x) \in Numbers /\ Equals(Span(mid, x), u, e) /\ Span(mid, y) \in Numbers /\ Equals(Span(mid, y), u, e)
    BY <1>3, <1>5, <2>1, SpanParts
  <2> QED
    BY <1>2, <1>3, <2>2, OrderOfParts
<1>10. ASSUME NEW s \in Numbers, ~Less(s, mid)
       PROVE  (Less(s, y) => ~Less(h, Span(s, y))) /\ (Less(s, x) => ~Less(h, Span(s, x)))
  BY <1>5, <1>9, <1>10, NearerBeyond
<1> QED
  BY <1>1, <1>2, <1>5, <1>7, <1>9, <1>10

(* update_trial_interval, by what of an interval matters for where it is.   *)
Numbered(i) == i \in Interval /\ {i.x, i.fx, i.dx, i.y, i.fy, i.dy} \subseteq Numbers

(* The derivative dx at x says that the objective falls towards y.          *)
FallsTo(dx, x, y) == (Less(dx, Zero) /\ Less(x, y)) \/ (Less(Zero, dx) /\ Less(y, x))

LEMMA FallsMeans ==
  ASSUME NEW dx \in Numbers, NEW x \in Numbers, NEW y \in Numbers
  PROVE  Less(Times(dx, Sub(y, x)), Zero) <=> FallsTo(dx, x, y)
BY SignOfDifference, SignOfProduct DEF FallsTo

Turns(i, e) == i.dx # Zero /\ Less(Times(e.dg, i.dx), Zero)

LEMMA TurnsMeans ==
  ASSUME NEW i, Numbered(i), NEW e, e.dg \in Numbers
  PROVE  Turns(i, e) <=> (Less(e.dg, Zero) /\ Less(Zero, i.dx)) \/ (Less(Zero, e.dg) /\ Less(i.dx, Zero))
<1>1. i.dx \in Numbers /\ (i.dx = Zero => ~Less(i.dx, Zero) /\ ~Less(Zero, i.dx))
  BY ZeroNumber, OrderOf DEF Numbered
<1> QED
  BY <1>1, SignOfProduct DEF Turns

(* Where the trial may be, and the limits of the next one.                  *)
Ahead(i, tr, tmin, tmax) ==
  /\ {tr, tmin, tmax} \subseteq Numbers
  /\ IF i.brackt
     THEN FallsTo(i.dx, i.x, i.y) /\ Inside(tr, i.x, i.y) /\ tmin = Lower(i.x, i.y) /\ tmax = Upper(i.x, i.y)
     ELSE Less(i.dx, Zero) /\ Less(i.x, tr) /\ tmin = i.x /\ Less(tr, tmax)

(* The cases a, b and c of the new interval.                                *)
Renewed(n, i, tr, e, dsign) ==
  /\ Numbered(n)
  /\ Less(i.fx, e.f) => n.x = i.x /\ n.fx = i.fx /\ n.dx = i.dx /\ n.y = tr /\ n.brackt
  /\ ~Less(i.fx, e.f) => n.x = tr /\ n.fx = e.f /\ n.dx = e.dg
  /\ ~Less(i.fx, e.f) /\ dsign => n.y = i.x /\ n.brackt
  /\ ~Less(i.fx, e.f) /\ ~dsign => n.y = i.y /\ n.brackt = i.brackt

LEMMA NewIntervalIs ==
  ASSUME NEW i, Numbered(i), NEW tr \in Numbers, NEW e, Valued(e), e.f \in Numbers, e.dg \in Numbers,
         NEW dsign \in BOOLEAN
  PROVE  Renewed(NewInterval(i, tr, e, dsign), i, tr, e, dsign)
<1>7. PICK n : n = NewInterval(i, tr, e, dsign)
  OBVIOUS
<1>1. i \in Interval /\ i.x \in Numbers /\ i.fx \in Numbers /\ i.dx \in Numbers /\ i.y \in Numbers /\ tr \in Fraction
      /\ i.fy \in Numbers /\ i.dy \in Numbers
  BY DEF Numbered, Numbers
<1>2. n \in Interval
  BY <1>1, <1>7, NewIntervalTyped
<1> USE DEF Renewed
<1>3. ASSUME Less(i.fx, e.f) PROVE Renewed(n, i, tr, e, dsign)
  <2>1. n = [i EXCEPT !.y = tr, !.fy = e.f, !.dy = e.dg, !.brackt = TRUE]
    BY <1>3, <1>7 DEF NewInterval
  <2>2. n.x = i.x /\ n.fx = i.fx /\ n.dx = i.dx /\ n.y = tr /\ n.brackt /\ n.fy = e.f /\ n.dy = e.dg
    BY <1>1, <2>1 DEF Interval
  <2> QED
    BY <1>1, <1>2, <1>3, <2>2 DEF Numbered
<1>4. ASSUME ~Less(i.fx, e.f) /\ dsign PROVE Renewed(n, i, tr, e, dsign)
  <2>1. n = [x |-> tr, fx |-> e.f, dx |-> e.dg, y |-> i.x, fy |-> i.fx, dy |-> i.dx, brackt |-> TRUE]
    BY <1>4, <1>7 DEF NewInterval
  <2>2. n.x = tr /\ n.fx = e.f /\ n.dx = e.dg /\ n.y = i.x /\ n.brackt /\ n.fy = i.fx /\ n.dy = i.dx
    BY <2>1
  <2> QED
    BY <1>1, <1>2, <1>4, <2>2 DEF Numbered
<1>5. ASSUME ~Less(i.fx, e.f) /\ ~dsign PROVE Renewed(n, i, tr, e, dsign)
  <2>1. n = [i EXCEPT !.x = tr, !.fx = e.f, !.dx = e.dg]
    BY <1>5, <1>7 DEF NewInterval
  <2>2. n.x = tr /\ n.fx = e.f /\ n.dx = e.dg /\ n.y = i.y /\ n.brackt = i.brackt /\ n.fy = i.fy /\ n.dy = i.dy
    BY <1>1, <2>1 DEF Interval
  <2> QED
    BY <1>1, <1>2, <1>5, <2>2 DEF Numbered
<1>6. Renewed(n, i, tr, e, dsign)
  BY <1>3, <1>4, <1>5
<1> QED
  BY <1>6, <1>7

(* At or beyond the end x, where the objective does not fall.               *)
Returned(n, u) == (Less(n.x, n.y) /\ Less(u, n.x)) \/ (Less(n.y, n.x) /\ Less(n.x, u))

(* Both minimizers of an interpolation, and the point a third from y.       *)
LEMMA RatiosAre ==
  /\ << 1, 8 >> \in Numbers /\ Less(Zero, << 1, 8 >>) /\ Less(<< 1, 8 >>, One)
  /\ << 7, 8 >> \in Numbers /\ Less(Zero, << 7, 8 >>) /\ Less(<< 7, 8 >>, One)
  /\ Dec \in Numbers /\ Less(Zero, Dec) /\ Less(Dec, One) /\ Less(Dec, Ratio)
  /\ Ratio \in Numbers /\ Less(Zero, Ratio) /\ Less(Ratio, One)
<1>1. 1 * 1 + 0 * 8 = 1 /\ (-1) * 7 + 1 * 8 = 1 /\ 1 * 1 + 0 * 2 = 1 /\ -1 \in Int
  OBVIOUS
<1>2. Bezout(1, 8) /\ Bezout(7, 8) /\ Bezout(1, 2)
  BY <1>1 DEF Bezout
<1>3. << 1, 8 >> \in Fraction /\ << 7, 8 >> \in Fraction /\ << 1, 2 >> \in Fraction
  BY DEF Fraction
<1>4. << 1, 8 >>[1] = 1 /\ << 1, 8 >>[2] = 8 /\ << 7, 8 >>[1] = 7 /\ << 7, 8 >>[2] = 8 /\ << 1, 2 >>[1] = 1 /\ << 1, 2 >>[2] = 2
  OBVIOUS
<1>5. << 1, 8 >> \in Numbers /\ << 7, 8 >> \in Numbers /\ << 1, 2 >> \in Numbers
  BY <1>2, <1>3, <1>4, LowestMeans DEF Numbers
<1>6. Zero \in Fraction /\ One \in Fraction /\ Zero[1] = 0 /\ Zero[2] = 1 /\ One[1] = 1 /\ One[2] = 1
  BY ConstantsLowest DEF Zero, One
<1>7. /\ Less(Zero, << 1, 8 >>) /\ Less(<< 1, 8 >>, One) /\ Less(Zero, << 7, 8 >>) /\ Less(<< 7, 8 >>, One)
      /\ Less(Zero, << 1, 2 >>) /\ Less(<< 1, 2 >>, One)
  BY <1>3, <1>4, <1>6, LessMeans
<1>8. Ratio \in Numbers /\ Less(<< 1, 2 >>, Ratio) /\ Less(Ratio, One)
  BY SearchAssumption DEF Numbers, Lowest
<1>9. Less(Zero, Ratio)
  BY <1>5, <1>7, <1>8, ZeroNumber, OrderOf
<1> QED
  BY <1>5, <1>7, <1>8, <1>9 DEF Dec

LEMMA BetweenInside ==
  ASSUME NEW x \in Numbers, NEW y \in Numbers, x # y, NEW r \in Between(x, y)
  PROVE  r \in Numbers /\ Inside(r, x, y)
<1>1. PICK q \in {<< 1, 8 >>, << 7, 8 >>} : r = Plus(x, Times(q, Sub(y, x)))
  BY DEF Between
<1>2. q \in Numbers /\ Less(Zero, q) /\ Less(q, One)
  BY RatiosAre
<1> QED
  BY <1>1, <1>2, InsideOf

(* Clipping keeps what is within the limits.                                *)
LEMMA ClippedIsKept ==
  ASSUME NEW r \in Numbers, NEW low \in Numbers, NEW high \in Numbers, ~Less(r, low), ~Less(high, r)
  PROVE  Upper(Lower(r, high), low) = r
<1>1. Lower(r, high) = r
  BY DEF Lower
<1>2. Upper(r, low) = r
  <2>1. Less(low, r) \/ low = r
    BY OrderOf
  <2> QED
    BY <2>1, OrderOf DEF Upper
<1> QED
  BY <1>1, <1>2

Guarded(u, newt, n, bound) ==
  /\ ~n.brackt => u = newt
  /\ n.brackt => u = newt \/ (u \in Numbers /\ Inside(u, n.x, n.y))
  /\ n.brackt /\ bound /\ newt = n.y => u \in Numbers /\ Inside(u, n.x, n.y)
  /\ n.brackt /\ Returned(n, newt) => u = newt

LEMMA SafeguardedIs ==
  ASSUME NEW n, Numbered(n), n.brackt => n.x # n.y, NEW newt \in Numbers, NEW tmin \in Numbers, NEW tmax \in Numbers,
         ~Less(newt, tmin), ~Less(tmax, newt), NEW bound \in BOOLEAN
  PROVE  Guarded(Safeguarded(newt, n, tmin, tmax, bound), newt, n, bound)
<1>6. PICK u : u = Safeguarded(newt, n, tmin, tmax, bound)
  OBVIOUS
<1>1. PICK mq : mq = Plus(n.x, Times(Ratio, Sub(n.y, n.x)))
  OBVIOUS
<1>2. n.x \in Numbers /\ n.y \in Numbers /\ n.brackt \in BOOLEAN
  BY DEF Numbered, Interval
<1>3. n.brackt => mq \in Numbers /\ Inside(mq, n.x, n.y)
  BY <1>1, <1>2, RatiosAre, InsideOf
<1>4. u = IF ~(n.brackt /\ bound) THEN newt ELSE IF Less(n.x, n.y) THEN Lower(newt, mq) ELSE Upper(newt, mq)
  BY <1>1, <1>6, ClippedIsKept DEF Safeguarded
<1>5. n.brackt /\ bound /\ newt = n.y => u = mq
  <2> SUFFICES ASSUME n.brackt, bound, newt = n.y PROVE u = mq
    OBVIOUS
  <2>1. CASE Less(n.x, n.y)
    <3>1. Less(mq, n.y)
      BY <1>2, <1>3, <2>1, OrderOf DEF Inside
    <3> QED
      BY <1>4, <2>1, <3>1 DEF Lower
  <2>2. CASE ~Less(n.x, n.y)
    <3>1. Less(n.y, mq)
      BY <1>2, <1>3, <2>2, OrderOf DEF Inside
    <3> QED
      BY <1>4, <2>2, <3>1 DEF Upper
  <2> QED
    BY <2>1, <2>2
<1>7. n.brackt /\ Returned(n, newt) => u = newt
  BY <1>2, <1>3, <1>4, OrderOf DEF Returned, Inside, Lower, Upper
<1> QED
  BY <1>3, <1>4, <1>5, <1>6, <1>7 DEF Lower, Upper, Guarded

(* What the next trial is inside of, unless the search turns back.          *)
Behind(n, tr, u, back) ==
  /\ u \in Numbers
  /\ n.brackt => /\ FallsTo(n.dx, n.x, n.y)
                 /\ IF back THEN n.x = tr /\ Returned(n, u) ELSE Inside(u, n.x, n.y)
  /\ ~n.brackt => ~back /\ Less(n.dx, Zero) /\ Less(tr, u)

(* Where the minimum is not brackt, the slope is half as steep at least.    *)
Steep(i, e) == ~i.brackt /\ ~Less(i.fx, e.f) => ~Less(Times(<< 2, 1 >>, Abs(e.dg)), Abs(i.dx))

LEMMA TrialBehind ==
  ASSUME NEW i, Numbered(i), NEW e, Valued(e), e.f \in Numbers, e.dg \in Numbers,
         NEW tr, NEW tmin, NEW tmax, Ahead(i, tr, tmin, tmax), ~Less(i.fx, e.f) => e.dg # Zero,
         Steep(i, e),
         NEW dsign \in BOOLEAN, dsign = Turns(i, e), NEW bound \in BOOLEAN,
         bound = (Less(i.fx, e.f) \/ (~dsign /\ Less(Abs(e.dg), Abs(i.dx)))),
         NEW n, n = NewInterval(i, tr, e, dsign), NEW newt \in NewTrials(i, tr, e, tmin, tmax, dsign),
         NEW u, u = Safeguarded(newt, n, tmin, tmax, bound),
         NEW back, back = (~Less(i.fx, e.f) /\ bound /\ TurnsBack(i, tr, e))
  PROVE  Behind(n, tr, u, back)
<1>1. /\ i.x \in Numbers /\ i.y \in Numbers /\ i.dx \in Numbers /\ i.fx \in Numbers /\ i.brackt \in BOOLEAN
      /\ tr \in Numbers /\ tmin \in Numbers /\ tmax \in Numbers
  BY DEF Numbered, Interval, Ahead
<1>2. Numbered(n) /\ Renewed(n, i, tr, e, dsign)
  <2>1. Renewed(n, i, tr, e, dsign)
    BY <1>1, NewIntervalIs
  <2> QED
    BY <2>1 DEF Renewed
<1> USE DEF Renewed
<1>9. ASSUME newt \in Numbers, ~Less(newt, tmin), ~Less(tmax, newt), n.brackt => n.x # n.y
      PROVE  Guarded(u, newt, n, bound)
  BY <1>1, <1>2, <1>9, SafeguardedIs
<1>3. dsign <=> (Less(e.dg, Zero) /\ Less(Zero, i.dx)) \/ (Less(Zero, e.dg) /\ Less(i.dx, Zero))
  BY TurnsMeans
(* The trial lies where the objective falls from x.                         *)
<1>4. FallsTo(i.dx, i.x, tr) /\ i.x # tr /\ ~Less(tr, tmin) /\ ~Less(i.x, tmin) /\ ~Less(tmax, tr) /\ ~Less(tmax, i.x)
  <2>1. CASE i.brackt
    <3>1. FallsTo(i.dx, i.x, i.y) /\ Inside(tr, i.x, i.y) /\ tmin = Lower(i.x, i.y) /\ tmax = Upper(i.x, i.y)
      BY <2>1 DEF Ahead
    <3>2. CASE Less(i.dx, Zero) /\ Less(i.x, i.y)
      <4>1. Less(i.x, tr) /\ Less(tr, i.y) /\ tmin = i.x /\ tmax = i.y
        BY <1>1, <3>1, <3>2, OrderOf DEF Inside, Lower, Upper
      <4> QED
        BY <1>1, <3>2, <4>1, OrderOf DEF FallsTo
    <3>3. CASE Less(Zero, i.dx) /\ Less(i.y, i.x)
      <4>1. Less(tr, i.x) /\ Less(i.y, tr) /\ tmin = i.y /\ tmax = i.x
        BY <1>1, <3>1, <3>3, OrderOf DEF Inside, Lower, Upper
      <4> QED
        BY <1>1, <3>3, <4>1, OrderOf DEF FallsTo
    <3> QED
      BY <3>1, <3>2, <3>3 DEF FallsTo
  <2>2. CASE ~i.brackt
    <3>1. Less(i.dx, Zero) /\ Less(i.x, tr) /\ tmin = i.x /\ Less(tr, tmax)
      BY <2>2 DEF Ahead
    <3> QED
      BY <1>1, <3>1, OrderOf DEF FallsTo
  <2> QED
    BY <2>1, <2>2
<1>5. ASSUME NEW r \in Numbers, Inside(r, i.x, tr) PROVE ~Less(r, tmin) /\ ~Less(tmax, r)
  BY <1>1, <1>4, <1>5, OrderOf DEF Inside
<1>6. CASE Less(i.fx, e.f)
  <2>1. newt \in Between(i.x, tr)
    BY <1>6 DEF NewTrials
  <2>2. newt \in Numbers /\ Inside(newt, i.x, tr)
    BY <1>1, <1>4, <2>1, BetweenInside
  <2>3. u \in Numbers /\ Inside(u, n.x, n.y)
    BY <1>1, <1>2, <1>4, <1>5, <1>6, <1>9, <2>2 DEF Guarded
  <2>4. ~back
    BY <1>6
  <2> QED
    BY <1>2, <1>4, <1>6, <2>3, <2>4 DEF Behind
<1>7. CASE ~Less(i.fx, e.f) /\ dsign
  <2>1. newt \in Between(i.x, tr)
    BY <1>7 DEF NewTrials
  <2>2. newt \in Numbers /\ Inside(newt, i.x, tr) /\ Inside(newt, tr, i.x)
    BY <1>1, <1>4, <2>1, BetweenInside DEF Inside
  <2>3. u \in Numbers /\ Inside(u, n.x, n.y)
    BY <1>1, <1>2, <1>4, <1>5, <1>7, <1>9, <2>2 DEF Guarded
  <2>4. FallsTo(n.dx, n.x, n.y)
    <3>1. FallsTo(e.dg, tr, i.x)
      BY <1>1, <1>3, <1>4, <1>7, ZeroNumber, OrderOf DEF FallsTo
    <3> QED
      BY <1>2, <1>7, <3>1
  <2>5. ~back
    BY <1>7
  <2> QED
    BY <1>2, <1>7, <2>3, <2>4, <2>5 DEF Behind
<1>8. CASE ~Less(i.fx, e.f) /\ ~dsign
  <2> DEFINE ahead == IF Less(i.x, tr) THEN tmax ELSE tmin
             behind == IF Less(i.x, tr) THEN tmin ELSE tmax
  <2>1. /\ back => newt = behind
        /\ ~back => \/ bound /\ newt \in Between(tr, ahead) \cup {ahead}
                    \/ newt \in IF i.brackt THEN Between(tr, i.y) ELSE {ahead}
    BY <1>8 DEF NewTrials
  <2>2. (Less(i.dx, Zero) => Less(e.dg, Zero)) /\ (Less(Zero, i.dx) => Less(Zero, e.dg))
    BY <1>1, <1>3, <1>8, ZeroNumber, OrderOf
  <2>3. CASE i.brackt
    <3>1. FallsTo(i.dx, i.x, i.y) /\ Inside(tr, i.x, i.y) /\ tmin = Lower(i.x, i.y) /\ tmax = Upper(i.x, i.y)
      BY <2>3 DEF Ahead
    <3>2. /\ ahead = i.y /\ behind = i.x /\ FallsTo(e.dg, tr, i.y) /\ tr # i.y /\ ~Less(i.y, tmin) /\ ~Less(tmax, i.y)
          /\ (Less(tr, i.y) /\ Less(i.x, tr)) \/ (Less(i.y, tr) /\ Less(tr, i.x))
      <4>1. CASE Less(i.dx, Zero) /\ Less(i.x, i.y)
        <5>1. Less(i.x, tr) /\ Less(tr, i.y) /\ tmin = i.x /\ tmax = i.y
          BY <1>1, <3>1, <4>1, OrderOf DEF Inside, Lower, Upper
        <5> QED
          BY <1>1, <2>2, <4>1, <5>1, OrderOf DEF FallsTo
      <4>2. CASE Less(Zero, i.dx) /\ Less(i.y, i.x)
        <5>1. Less(tr, i.x) /\ Less(i.y, tr) /\ tmin = i.y /\ tmax = i.x
          BY <1>1, <3>1, <4>2, OrderOf DEF Inside, Lower, Upper
        <5> QED
          BY <1>1, <2>2, <4>2, <5>1, OrderOf DEF FallsTo
      <4> QED
        BY <3>1, <4>1, <4>2 DEF FallsTo
    <3> HIDE DEF ahead, behind
    <3>3. n.brackt /\ n.x = tr /\ n.y = i.y /\ n.dx = e.dg
      BY <1>2, <1>8, <2>3
    <3>4. CASE newt \in Between(tr, i.y) /\ ~back
      <4>1. newt \in Numbers /\ Inside(newt, tr, i.y)
        BY <1>1, <3>2, <3>4, BetweenInside
      <4>2. ~Less(newt, tmin) /\ ~Less(tmax, newt)
        BY <1>1, <1>4, <3>2, <4>1, OrderOf DEF Inside
      <4>3. u \in Numbers /\ Inside(u, n.x, n.y)
        BY <1>1, <1>2, <3>2, <3>3, <1>9, <4>1, <4>2 DEF Guarded
      <4> QED
        BY <3>2, <3>3, <3>4, <4>3 DEF Behind
    <3>5. CASE newt = i.y /\ newt \notin Between(tr, i.y) /\ ~back
      <4>1. bound
        BY <1>8, <2>1, <2>3, <3>5
      <4>2. u \in Numbers /\ Inside(u, n.x, n.y)
        BY <1>1, <1>2, <3>2, <3>3, <1>9, <3>5, <4>1 DEF Guarded
      <4> QED
        BY <3>2, <3>3, <3>5, <4>2 DEF Behind
    <3>6. CASE back
      <4>1. newt = i.x
        BY <2>1, <3>2, <3>6
      <4>2. Returned(n, newt)
        BY <3>2, <3>3, <4>1 DEF Returned
      <4>3. u = newt /\ newt \in Numbers
        BY <1>1, <1>4, <1>9, <3>2, <3>3, <4>1, <4>2 DEF Guarded
      <4> QED
        BY <3>2, <3>3, <3>6, <4>2, <4>3 DEF Behind
    <3> QED
      BY <2>1, <2>3, <3>2, <3>4, <3>5, <3>6
  <2>4. CASE ~i.brackt
    <3>1. Less(i.dx, Zero) /\ Less(i.x, tr) /\ tmin = i.x /\ Less(tr, tmax)
      BY <2>4 DEF Ahead
    <3>6. ~back
      BY <1>8, <2>4 DEF Steep, TurnsBack
    <3>2. newt \in Between(tr, tmax) \cup {tmax}
      BY <2>1, <2>4, <3>1, <3>6
    <3>3. newt \in Numbers /\ Less(tr, newt) /\ ~Less(tmax, newt)
      <4>1. CASE newt = tmax
        BY <1>1, <3>1, <4>1, OrderOf
      <4>2. CASE newt \in Between(tr, tmax)
        <5>1. tr # tmax
          BY <1>1, <3>1, OrderOf
        <5>2. newt \in Numbers /\ Inside(newt, tr, tmax)
          BY <1>1, <4>2, <5>1, BetweenInside
        <5> QED
          BY <1>1, <3>1, <5>2, OrderOf DEF Inside
      <4> QED
        BY <3>2, <4>1, <4>2
    <3>4. ~Less(newt, tmin)
      BY <1>1, <3>1, <3>3, OrderOf
    <3>5. ~n.brackt /\ u = newt
      BY <1>1, <1>2, <1>8, <2>4, <1>9, <3>3, <3>4 DEF Guarded
    <3> QED
      BY <1>2, <1>8, <2>2, <3>1, <3>3, <3>5, <3>6 DEF Behind
  <2> QED
    BY <1>1, <2>3, <2>4
<1> QED
  BY <1>6, <1>7, <1>8

(* update_trial_interval refuses nothing and keeps what the minimum is in.  *)
TrialMoved(r, i, tr, e) ==
  /\ r.uinfo = 0 /\ Renewed(r.iv, i, tr, e, Turns(i, e)) /\ Behind(r.iv, tr, r.t, r.back)
  /\ r.back => ~Less(i.fx, e.f)

LEMMA TrialIntervalsAre ==
  ASSUME NEW i, Numbered(i), NEW e, Valued(e), e.f \in Numbers, e.dg \in Numbers,
         NEW tr, NEW tmin, NEW tmax, Ahead(i, tr, tmin, tmax), ~Less(i.fx, e.f) => e.dg # Zero,
         Steep(i, e),
         NEW r \in TrialIntervals(i, tr, e, tmin, tmax)
  PROVE  TrialMoved(r, i, tr, e)
<1> DEFINE dsign == i.dx # Zero /\ Less(Times(e.dg, i.dx), Zero)
           bound == Less(i.fx, e.f) \/ (~dsign /\ Less(Abs(e.dg), Abs(i.dx)))
           new   == NewInterval(i, tr, e, dsign)
           back  == ~Less(i.fx, e.f) /\ bound /\ TurnsBack(i, tr, e)
<1>1. /\ i.x \in Numbers /\ i.y \in Numbers /\ i.dx \in Numbers /\ i.fx \in Numbers /\ i.brackt \in BOOLEAN
      /\ tr \in Numbers /\ tmin \in Numbers /\ tmax \in Numbers
  BY DEF Numbered, Interval, Ahead
<1>2. i.brackt => ~(NotAbove(tr, Lower(i.x, i.y)) \/ NotAbove(Upper(i.x, i.y), tr)) /\ ~Less(tmax, tmin)
                  /\ FallsTo(i.dx, i.x, tr)
  <2> SUFFICES ASSUME i.brackt
               PROVE  ~(NotAbove(tr, Lower(i.x, i.y)) \/ NotAbove(Upper(i.x, i.y), tr)) /\ ~Less(tmax, tmin)
                      /\ FallsTo(i.dx, i.x, tr)
    OBVIOUS
  <2>1. FallsTo(i.dx, i.x, i.y) /\ Inside(tr, i.x, i.y) /\ tmin = Lower(i.x, i.y) /\ tmax = Upper(i.x, i.y)
    BY DEF Ahead
  <2>2. CASE Less(i.dx, Zero) /\ Less(i.x, i.y)
    <3>1. Less(i.x, tr) /\ Less(tr, i.y) /\ tmin = i.x /\ tmax = i.y
      BY <1>1, <2>1, <2>2, OrderOf DEF Inside, Lower, Upper
    <3> QED
      BY <1>1, <2>1, <2>2, <3>1, OrderOf DEF FallsTo, NotAbove
  <2>3. CASE Less(Zero, i.dx) /\ Less(i.y, i.x)
    <3>1. Less(tr, i.x) /\ Less(i.y, tr) /\ tmin = i.y /\ tmax = i.x
      BY <1>1, <2>1, <2>3, OrderOf DEF Inside, Lower, Upper
    <3> QED
      BY <1>1, <2>1, <2>3, <3>1, OrderOf DEF FallsTo, NotAbove
  <2> QED
    BY <2>1, <2>2, <2>3 DEF FallsTo
<1>3. i.brackt => ~~Less(Times(i.dx, Sub(tr, i.x)), Zero)
  BY <1>1, <1>2, FallsMeans
<1>4. \E newt \in NewTrials(i, tr, e, tmin, tmax, dsign) :
        r = [uinfo |-> 0, iv |-> new, t |-> Safeguarded(newt, new, tmin, tmax, bound), back |-> back]
  BY <1>2, <1>3 DEF TrialIntervals
<1>5. PICK newt \in NewTrials(i, tr, e, tmin, tmax, dsign) :
        r = [uinfo |-> 0, iv |-> new, t |-> Safeguarded(newt, new, tmin, tmax, bound), back |-> back]
  BY <1>4
<1>6. dsign = Turns(i, e) /\ dsign \in BOOLEAN /\ bound \in BOOLEAN
      /\ bound = (Less(i.fx, e.f) \/ (~dsign /\ Less(Abs(e.dg), Abs(i.dx))))
  BY DEF Turns, Less
<1>7. r.uinfo = 0 /\ r.iv = new /\ r.t = Safeguarded(newt, new, tmin, tmax, bound) /\ r.back = back
  BY <1>5
<1>8. new = NewInterval(i, tr, e, dsign) /\ back = (~Less(i.fx, e.f) /\ bound /\ TurnsBack(i, tr, e))
  OBVIOUS
<1> HIDE DEF dsign, bound, new, back
<1>9. Behind(new, tr, r.t, r.back)
  BY <1>6, <1>7, <1>8, TrialBehind
<1>10. Renewed(new, i, tr, e, dsign)
  BY <1>1, <1>6, <1>8, NewIntervalIs
<1>11. r.back => ~Less(i.fx, e.f)
  BY <1>7, <1>8
<1> QED
  BY <1>6, <1>7, <1>9, <1>10, <1>11 DEF TrialMoved

(* Where the ends of the interval are.                                      *)
WithinSteps ==
  /\ \A p \in {iv.x, iv.y} : ~Less(search.max_step, p) /\ (p = Zero \/ ~Less(p, search.min_step))
  /\ iv.x = Zero => iv.fx = Zero

Positioned == Numbered(iv) /\ stp \in Numbers /\ ~Less(Zero, iv.fx) /\ WithinSteps

(* The search goes down: the next trial is where the objective falls unless *)
(* the search turned back, and the lowest step is low enough, in the second *)
(* stage at every step of the interval.                                     *)
Falling ==
  /\ uinfo = 0
  /\ IF iv.brackt THEN /\ FallsTo(iv.dx, iv.x, iv.y)
                       /\ IF astray THEN AtAnEnd(Clip(stp)) ELSE Inside(stp, iv.x, iv.y)
     ELSE /\ ~astray /\ stage1 /\ Less(iv.dx, Zero) /\ ~Less(iv.dx, dginit) /\ Less(iv.x, stp)
          /\ Less(iv.x, search.max_step) /\ ~Less(stp, search.min_step)
  /\ IF stage1 THEN ~Less(Test(iv.x), iv.fx) /\ Less(iv.dx, dgtest)
     ELSE iv.brackt /\ ~Less(Test(Upper(iv.x, iv.y)), iv.fx)

Middle(i) == Plus(i.x, Times(Dec, Sub(i.y, i.x)))

(* The last widths, of which the last but two is less than the third before *)
(* it unless the middle is tried next.                                      *)
Shrinking ==
  IF ~iv.brackt THEN widths = << >>
  ELSE LET n == Len(widths)
       IN  /\ n > 0 /\ widths[n] = Span(iv.x, iv.y) /\ width[1] = widths[n]
           /\ n >= 2 => width[2] = widths[n - 1] /\ ~Less(widths[n - 1], widths[n])
           /\ n >= 3 => /\ ~Less(widths[n - 2], widths[n - 1])
                        /\ \/ Less(widths[n], Times(Ratio, widths[n - 2]))
                           \/ stp = Middle(iv)

Shortened ==
  \A n \in DOMAIN widths :
    n + 3 \in DOMAIN widths => NotAbove(widths[n + 3], Times(Ratio, widths[n]))

IntervalInv ==
  /\ dginit \in Numbers /\ widths \in Seq(Numbers) /\ Shortened
  /\ state = "search" /\ search.linesearch = "morethuente" =>
       Positioned /\ Falling /\ Shrinking

LEMMA TimesRises ==
  ASSUME NEW q \in Numbers, NEW x \in Numbers, NEW y \in Numbers, ~Less(y, x)
  PROVE  /\ Times(q, x) \in Numbers /\ Times(q, y) \in Numbers
         /\ ~Less(q, Zero) => ~Less(Times(q, y), Times(q, x))
         /\ ~Less(Zero, q) => ~Less(Times(q, x), Times(q, y))
<1>1. PICK d \in Nat \ {0}, n \in Int, m \in Int : Equals(x, n, d) /\ Equals(y, m, d)
  BY OverTwo
<1>2. PICK a \in Int, b \in Nat \ {0} : Equals(q, a, b)
  BY FractionEquals DEF Numbers
<1>3. /\ Times(q, x) \in Numbers /\ Equals(Times(q, x), a * n, b * d)
      /\ Times(q, y) \in Numbers /\ Equals(Times(q, y), a * m, b * d)
  BY <1>1, <1>2, TimesEquals, PlusNumber DEF Times
<1>4. a * n \in Int /\ a * m \in Int /\ b * d \in Nat \ {0}
  BY <1>1, <1>2
<1>5. n <= m /\ (~Less(q, Zero) => a >= 0) /\ (~Less(Zero, q) => a <= 0)
  BY <1>1, <1>2, OrderOfParts, SignOfNumber
<1>6. (a >= 0 => a * n <= a * m) /\ (a <= 0 => a * m <= a * n)
  <2>1. PICK k \in Nat : m = n + k
    <3>1. m - n \in Nat /\ m = n + (m - n)
      BY <1>5
    <3> QED
      BY <3>1
  <2>2. a * m = a * n + a * k
    BY <2>1
  <2>3. (a >= 0 => a * k >= 0) /\ (a <= 0 => a * k <= 0)
    BY <2>1
  <2> QED
    BY <1>4, <2>1, <2>2, <2>3
<1> QED
  BY <1>3, <1>4, <1>5, <1>6, OrderOfParts

(* In the first factor too.                                                 *)
LEMMA TimesRisesFirst ==
  ASSUME NEW q \in Numbers, NEW x \in Numbers, NEW y \in Numbers, ~Less(y, x)
  PROVE  /\ Times(x, q) \in Numbers /\ Times(y, q) \in Numbers
         /\ ~Less(q, Zero) => ~Less(Times(y, q), Times(x, q))
         /\ ~Less(Zero, q) => ~Less(Times(x, q), Times(y, q))
<1>1. Times(x, q) = Times(q, x) /\ Times(y, q) = Times(q, y)
  BY TimesTurns DEF Times
<1> QED
  BY <1>1, TimesRises

LEMMA MinusTimes ==
  ASSUME NEW x \in Numbers, NEW g \in Numbers
  PROVE  Minus(g) \in Numbers /\ Times(x, Minus(g)) = Minus(Times(x, g)) /\ Times(x, g) \in Numbers
<1>1. PICK p \in Int, q \in Nat \ {0}, k \in Int, d \in Nat \ {0} : Equals(x, p, q) /\ Equals(g, k, d)
  BY FractionEquals DEF Numbers
<1>2. Minus(g) \in Numbers /\ Equals(Minus(g), -k, d) /\ -k \in Int
  BY <1>1, PartsOf
<1>3. Times(x, g) \in Numbers /\ Equals(Times(x, g), p * k, q * d) /\ p * k \in Int /\ q * d \in Nat \ {0}
  BY <1>1, ProductParts
<1>4. Times(x, Minus(g)) \in Numbers /\ Equals(Times(x, Minus(g)), p * (-k), q * d) /\ p * (-k) \in Int
  BY <1>1, <1>2, ProductParts
<1>5. Minus(Times(x, g)) \in Numbers /\ Equals(Minus(Times(x, g)), -(p * k), q * d) /\ -(p * k) \in Int
  BY <1>3, PartsOf
<1>6. p * (-k) = -(p * k)
  BY <1>1
<1> QED
  BY <1>2, <1>3, <1>4, <1>5, <1>6, OrderOfParts

LEMMA BackAgain ==
  ASSUME NEW a \in Numbers, NEW b \in Numbers
  PROVE  Sub(a, b) \in Numbers /\ Sub(Sub(a, b), Minus(b)) = a
<1>1. PICK d \in Nat \ {0}, n \in Int, m \in Int : Equals(a, n, d) /\ Equals(b, m, d)
  BY OverTwo
<1>2. PICK c \in Numbers, h \in Numbers : c = Sub(a, b) /\ h = Minus(b) /\ Equals(c, n - m, d) /\ Equals(h, -m, d)
  BY <1>1, PartsOf
<1>3. n - m \in Int /\ -m \in Int /\ (n - m) - (-m) = n /\ (n - m) - (-m) \in Int
  BY <1>1
<1>4. Sub(c, h) \in Numbers /\ Equals(Sub(c, h), (n - m) - (-m), d)
  BY <1>2, <1>3, PartsOf
<1>5. Sub(c, h) = a
  BY <1>1, <1>3, <1>4, OrderOfParts
<1> QED
  BY <1>2, <1>5

(* A derivative of 0 or between dgtest and 0 is flat enough.                *)
LEMMA FlatEnough ==
  ASSUME NEW f \in Numbers, NEW g \in Numbers, NEW D \in Numbers, NEW dg \in Numbers,
         ~Less(g, f), ~Less(Zero, D), ~Less(dg, Times(f, D)), ~Less(Zero, dg)
  PROVE  ~Less(Times(g, Minus(D)), Abs(dg))
<1>1. PICK d \in Nat \ {0}, n \in Int, m \in Int : Equals(dg, n, d) /\ Equals(D, m, d)
  BY OverTwo
<1>2. PICK b \in Nat \ {0}, a \in Int, p \in Int : Equals(f, a, b) /\ Equals(g, p, b)
  BY OverTwo
<1>3. Minus(D) \in Numbers /\ Equals(Minus(D), -m, d) /\ -m \in Int
  BY <1>1, PartsOf
<1>4. Times(f, D) \in Numbers /\ Equals(Times(f, D), a * m, b * d) /\ a * m \in Int /\ b * d \in Nat \ {0}
  BY <1>1, <1>2, ProductParts
<1>5. Times(g, Minus(D)) \in Numbers /\ Equals(Times(g, Minus(D)), p * (-m), b * d) /\ p * (-m) \in Int
  BY <1>2, <1>3, ProductParts
<1>6. n <= 0 /\ m <= 0 /\ a <= p
  BY <1>1, <1>2, SignOfNumber, OrderOfParts
<1>7. Abs(dg) \in Numbers /\ Equals(Abs(dg), -n, d)
  <2>1. (IF n < 0 THEN -n ELSE n) = -n
    BY <1>6
  <2> QED
    BY <1>1, <2>1, PartsOf
<1>8. Equals(Abs(dg), (-n) * b, d * b) /\ Equals(dg, n * b, d * b) /\ d * b = b * d /\ n * b \in Int /\ (-n) * b \in Int
  <2>1. Equals(Abs(dg), (-n) * b, d * b)
    BY <1>2, <1>7, Rescaled
  <2>2. Equals(dg, n * b, d * b)
    BY <1>1, <1>2, Rescaled
  <2>3. d * b = b * d /\ n * b \in Int /\ (-n) * b \in Int
    BY <1>1, <1>2
  <2> QED
    BY <2>1, <2>2, <2>3
<1>9. a * m <= n * b
  BY <1>4, <1>8, OrderOfParts
<1>10. (-n) * b <= p * (-m)
  <2>1. (-n) * b = -(n * b)
    OBVIOUS
  <2>2. PICK h \in Nat : p = a + h
    <3>1. p - a \in Nat /\ p = a + (p - a)
      BY <1>6
    <3> QED
      BY <3>1
  <2>3. p * (-m) = -(a * m) + h * (-m)
    BY <2>2
  <2>4. h * (-m) >= 0
    BY <1>6
  <2>5. h * (-m) \in Int /\ -(a * m) \in Int /\ -(n * b) \in Int
    BY <1>4, <1>8
  <2> QED
    BY <1>4, <1>8, <1>9, <2>1, <2>3, <2>4, <2>5
<1> QED
  BY <1>5, <1>7, <1>8, <1>10, OrderOfParts

(* A multiple of a number.                                                  *)
LEMMA Multiple ==
  ASSUME NEW k \in Nat \ {0}, NEW x \in Numbers
  PROVE  /\ << k, 1 >> \in Numbers /\ Times(<< k, 1 >>, x) \in Numbers
         /\ \A p \in Int, q \in Nat \ {0} : Equals(x, p, q) => Equals(Times(<< k, 1 >>, x), k * p, q)
         /\ ~Less(x, Zero) => ~Less(Times(<< k, 1 >>, x), x)
<1>1. 0 * k + 1 * 1 = 1 /\ 0 \in Int /\ 1 \in Int /\ k \in Int
  OBVIOUS
<1>2. Bezout(k, 1)
  BY <1>1 DEF Bezout
<1>3. << k, 1 >> \in Fraction /\ << k, 1 >>[1] = k /\ << k, 1 >>[2] = 1
  BY DEF Fraction
<1>4. << k, 1 >> \in Numbers
  BY <1>2, <1>3, LowestMeans DEF Numbers
<1>5. Equals(<< k, 1 >>, k, 1)
  BY <1>3 DEF Equals
<1>6. PICK y : y = Times(<< k, 1 >>, x)
  OBVIOUS
<1>7. ASSUME NEW p \in Int, NEW q \in Nat \ {0}, Equals(x, p, q)
      PROVE  y \in Numbers /\ Equals(y, k * p, q)
  <2>1. y \in Numbers /\ Equals(y, k * p, 1 * q)
    BY <1>1, <1>4, <1>5, <1>6, <1>7, ProductParts
  <2>2. 1 * q = q
    OBVIOUS
  <2> QED
    BY <2>1, <2>2
<1>8. PICK p \in Int, q \in Nat \ {0} : Equals(x, p, q)
  BY FractionEquals DEF Numbers
<1>9. ~Less(x, Zero) => ~Less(y, x)
  <2> SUFFICES ASSUME ~Less(x, Zero) PROVE ~Less(y, x)
    OBVIOUS
  <2>1. p >= 0
    BY <1>8, SignOfNumber
  <2>2. PICK h \in Nat : k = 1 + h
    <3>1. k - 1 \in Nat /\ k = 1 + (k - 1)
      OBVIOUS
    <3> QED
      BY <3>1
  <2>3. k * p = p + h * p /\ h * p >= 0 /\ h * p \in Int /\ k * p \in Int
    BY <2>1, <2>2
  <2> QED
    BY <1>7, <1>8, <2>3, OrderOfParts
<1> QED
  BY <1>4, <1>6, <1>7, <1>8, <1>9

LEMMA OptionsAreNumbers ==
  ASSUME NEW o \in SearchOptions
  PROVE  /\ {o.min_step, o.max_step, o.ftol, o.gtol} \subseteq Numbers
         /\ Less(Zero, o.min_step) /\ ~Less(o.max_step, o.min_step) /\ ~Less(o.ftol, Zero) /\ ~Less(o.gtol, o.ftol)
         /\ ~Less(o.gtol, Dec)
<1>1. {o.min_step, o.max_step, o.ftol, o.gtol} \subseteq Numbers
  BY SearchAssumption DEF Numbers, Lowest
<1>2. Less(Zero, o.min_step) /\ ~Less(One, o.min_step) /\ ~Less(o.max_step, One) /\ ~Less(o.ftol, Zero)
      /\ ~Less(o.gtol, Times(<< 6, 1 >>, o.ftol)) /\ ~Less(o.gtol, Dec)
  BY SearchAssumption DEF Dec
<1>3. ~Less(o.gtol, o.ftol)
  <2>1. Times(<< 6, 1 >>, o.ftol) \in Numbers /\ ~Less(Times(<< 6, 1 >>, o.ftol), o.ftol)
    BY <1>1, <1>2, Multiple
  <2> QED
    BY <1>1, <1>2, <2>1, OrderOf
<1> QED
  BY <1>1, <1>2, <1>3, ZeroNumber, OrderOf

(* A direction that does not go up.                                         *)
Descending == search \in SearchOptions /\ dginit \in Numbers /\ ~Less(Zero, dginit)

LEMMA TestFalls ==
  ASSUME Descending
  PROVE  /\ dgtest \in Numbers /\ ~Less(Zero, dgtest)
         /\ \A s \in Numbers : Test(s) \in Numbers /\ (~Less(s, Zero) => ~Less(Zero, Test(s)))
         /\ \A s \in Numbers, u \in Numbers : ~Less(u, s) => ~Less(Test(s), Test(u))
         /\ Test(Zero) = Zero
<1>1. search.ftol \in Numbers /\ ~Less(search.ftol, Zero) /\ dginit \in Numbers /\ ~Less(Zero, dginit)
  BY OptionsAreNumbers DEF Descending
<1>2. ASSUME NEW x \in Numbers PROVE Times(x, Zero) = Zero /\ Times(Zero, x) = Zero
  <2>1. PICK p \in Int, q \in Nat \ {0} : Equals(x, p, q)
    BY FractionEquals DEF Numbers
  <2>2. Zero \in Numbers /\ Equals(Zero, 0, 1)
    BY ZeroPart
  <2>3. /\ Times(x, Zero) \in Numbers /\ Equals(Times(x, Zero), p * 0, q * 1)
        /\ Times(Zero, x) \in Numbers /\ Equals(Times(Zero, x), 0 * p, 1 * q)
    BY <2>1, <2>2, ProductParts
  <2>4. p * 0 = 0 /\ 0 * p = 0
    BY <2>1
  <2> QED
    BY <2>2, <2>3, <2>4, SignOfNumber
<1>3. dgtest \in Numbers /\ ~Less(Zero, dgtest)
  <2>1. ~Less(Times(search.ftol, Zero), Times(search.ftol, dginit)) /\ Times(search.ftol, dginit) \in Numbers
    BY <1>1, ZeroNumber, TimesRises
  <2> QED
    BY <1>1, <1>2, <2>1 DEF dgtest
<1>4. ASSUME NEW s \in Numbers, NEW u \in Numbers, ~Less(u, s) PROVE ~Less(Test(s), Test(u)) /\ Test(s) \in Numbers
  BY <1>3, <1>4, TimesRisesFirst DEF Test
<1>5. Test(Zero) = Zero
  BY <1>2, <1>3 DEF Test
<1>6. ASSUME NEW s \in Numbers PROVE Test(s) \in Numbers /\ (~Less(s, Zero) => ~Less(Zero, Test(s)))
  <2>1. Test(s) \in Numbers
    BY <1>4, OrderOf
  <2> QED
    BY <1>4, <1>5, <2>1, ZeroNumber
<1> QED
  BY <1>3, <1>4, <1>5, <1>6

(* Why the search goes on.                                                  *)
GoingOn(s, e) ==
  /\ iv.brackt => ~AtAnEnd(s) /\ uinfo = 0
  /\ s = search.max_step => Less(Test(s), e.f) \/ Less(dgtest, e.dg)
  /\ s = search.min_step => ~Less(Test(s), e.f) /\ Less(e.dg, dgtest)
  /\ ~Less(Test(s), e.f) => Less(Times(search.gtol, Minus(dginit)), Abs(e.dg))

LEMMA VerdictMeans ==
  ASSUME NEW s, NEW e, Verdict(s, e) = "search"
  PROVE  GoingOn(s, e)
BY DEF Verdict, GoingOn, NotAbove

(* The derivative at a step that is low enough is not flat.                 *)
LEMMA NotFlat ==
  ASSUME Descending, NEW s, NEW e, e.dg \in Numbers, GoingOn(s, e), ~Less(Test(s), e.f), ~Less(e.dg, dgtest)
  PROVE  Less(Zero, e.dg)
<1>1. search.ftol \in Numbers /\ search.gtol \in Numbers /\ ~Less(search.gtol, search.ftol)
  BY OptionsAreNumbers DEF Descending
<1>2. Less(Times(search.gtol, Minus(dginit)), Abs(e.dg))
  BY DEF GoingOn
<1> QED
  BY <1>1, <1>2, FlatEnough DEF Descending, dgtest

LEMMA ClipIs ==
  ASSUME search \in SearchOptions, NEW s \in Numbers
  PROVE  /\ Clip(s) \in Numbers /\ ~Less(Clip(s), search.min_step) /\ ~Less(search.max_step, Clip(s))
         /\ Clip(s) = IF Less(s, search.min_step) THEN search.min_step
                      ELSE IF Less(search.max_step, s) THEN search.max_step ELSE s
<1>1. search.min_step \in Numbers /\ search.max_step \in Numbers /\ ~Less(search.max_step, search.min_step)
  BY OptionsAreNumbers
<1>2. Clip(s) = Lower(Upper(s, search.min_step), search.max_step)
  BY DEF Clip
<1>3. Upper(s, search.min_step) = IF Less(s, search.min_step) THEN search.min_step ELSE s
  BY DEF Upper
<1>4. Clip(s) = IF Less(s, search.min_step) THEN search.min_step
                ELSE IF Less(search.max_step, s) THEN search.max_step ELSE s
  BY <1>1, <1>2, <1>3 DEF Lower
<1> QED
  BY <1>1, <1>4, OrderOf

LEMMA InsideEnds ==
  ASSUME NEW x \in Numbers, NEW y \in Numbers, NEW s \in Numbers
  PROVE  Less(Lower(x, y), s) /\ Less(s, Upper(x, y)) <=> Inside(s, x, y)
BY OrderOf DEF Inside, Lower, Upper

LEMMA TrialIs ==
  ASSUME SearchTypeOK, Descending, Positioned, NEW s, s = TrialStep, NEW e \in ValuesAt(s), GoingOn(s, e)
  PROVE  /\ s = Clip(stp) /\ s \in Numbers /\ ~Less(s, search.min_step) /\ ~Less(search.max_step, s)
         /\ iv.brackt => Inside(s, iv.x, iv.y)
         /\ Valued(e) /\ e.f \in Numbers /\ e.dg \in Numbers /\ ~Less(e.dg, dginit)
<1>1. s = Clip(stp)
  BY AtTheLowest DEF TrialStep, GoingOn
<1>2. s \in Numbers /\ ~Less(s, search.min_step) /\ ~Less(search.max_step, s)
  BY <1>1, ClipIs DEF Positioned, Descending
<1>3. iv.x \in Numbers /\ iv.y \in Numbers /\ {iv.fx, iv.fy, iv.dx, iv.dy} \subseteq Numbers
  BY DEF Positioned, Numbered
<1>4. iv.brackt => Inside(s, iv.x, iv.y)
  BY <1>2, <1>3, InsideEnds DEF GoingOn, AtAnEnd, NotAbove, stmin, stmax
<1>5. Valued(e)
  BY SafeValues
<1>6. e.f \in Numbers /\ e.dg \in Numbers
  <2>1. CASE e \in Evaluations
    BY <2>1, SearchAssumption DEF Numbers, Lowest
  <2>2. CASE e = [f |-> iv.fx, dg |-> iv.dx] \/ e = [f |-> iv.fy, dg |-> iv.dy]
    BY <1>3, <2>2
  <2> QED
    BY <2>1, <2>2 DEF ValuesAt
<1>7. ~Less(e.dg, dginit)
  BY DEF ValuesAt, NotAbove
<1> QED
  BY <1>1, <1>2, <1>4, <1>5, <1>6, <1>7

(* A trial at s with the values e, after which the search goes on.          *)
StaysFirst(s, e) == stage1 /\ ~(~Less(Test(s), e.f) /\ ~Less(e.dg, dgtest))

Trying(s, e) ==
  /\ SearchTypeOK /\ Descending /\ Positioned
  /\ s = TrialStep /\ e \in ValuesAt(s) /\ GoingOn(s, e)

LEMMA FourNumber == << 4, 1 >> \in Numbers /\ Less(Zero, << 4, 1 >>)
<1>1. << 4, 1 >> \in Numbers
  BY ZeroNumber, Multiple
<1>2. Equals(<< 4, 1 >>, 4, 1)
  BY DEF Equals, Fraction
<1> QED
  BY <1>1, <1>2, SignOfNumber

(* Before the minimum is brackt, the next trial may be five times as far.   *)
LEMMA LimitBeyond ==
  ASSUME NEW x \in Numbers, NEW u \in Numbers, ~Less(u, x), NEW far, far = Plus(u, Times(<< 4, 1 >>, Sub(u, x)))
  PROVE  far \in Numbers /\ ~Less(far, u) /\ (Less(x, u) => Less(u, far))
<1>1. PICK c \in Numbers : c = Sub(u, x) /\ ~Less(c, Zero) /\ (Less(x, u) => Less(Zero, c))
  BY SignOfDifference
<1>2. PICK p \in Numbers : p = Times(<< 4, 1 >>, c) /\ ~Less(p, Zero) /\ (Less(Zero, c) => Less(Zero, p))
  BY <1>1, FourNumber, SignOfProduct, ZeroNumber, OrderOf
<1>3. PICK d \in Nat \ {0}, n \in Int, m \in Int : Equals(u, n, d) /\ Equals(p, m, d)
  BY <1>2, OverTwo
<1>4. far \in Numbers /\ Equals(far, n + m, d) /\ n + m \in Int
  <2>1. Plus(u, p) \in Numbers /\ Equals(Plus(u, p), n + m, d)
    BY <1>3, PartsOf
  <2> QED
    BY <1>1, <1>2, <2>1
<1>5. (Less(p, Zero) <=> m < 0) /\ (Less(Zero, p) <=> m > 0)
  BY <1>2, <1>3, SignOfNumber
<1>6. (Less(far, u) <=> n + m < n) /\ (Less(u, far) <=> n < n + m)
  BY <1>3, <1>4, OrderOfParts
<1> QED
  BY <1>1, <1>2, <1>3, <1>4, <1>5, <1>6

(* A slope that is not flat enough is half as steep as any between the      *)
(* first one and 0.                                                         *)
LEMMA HalfAsSteep ==
  ASSUME NEW g \in Numbers, ~Less(g, Dec), NEW D \in Numbers, ~Less(Zero, D), NEW dx \in Numbers,
         ~Less(dx, D), Less(dx, Zero), NEW dg \in Numbers, Less(Times(g, Minus(D)), Abs(dg))
  PROVE  ~Less(Times(<< 2, 1 >>, Abs(dg)), Abs(dx))
<1>1. Dec \in Numbers
  BY RatiosAre
<1>2. PICK d \in Nat \ {0}, n \in Int, m \in Int : Equals(D, n, d) /\ Equals(dx, m, d)
  BY OverTwo
<1>3. n <= m /\ n <= 0 /\ m < 0
  BY <1>2, OrderOfParts, SignOfNumber
<1>4. PICK u \in Numbers, w \in Numbers, a \in Numbers : u = Minus(D) /\ w = Abs(dx) /\ a = Abs(dg) /\ ~Less(u, Zero) /\ ~Less(u, w)
  <2>1. Minus(D) \in Numbers /\ Equals(Minus(D), -n, d) /\ -n \in Int
    BY <1>2, PartsOf
  <2>2. (IF m < 0 THEN -m ELSE m) = -m /\ -m \in Int
    BY <1>3
  <2>3. Abs(dx) \in Numbers /\ Equals(Abs(dx), -m, d)
    BY <1>2, <2>2, PartsOf
  <2>4. PICK p \in Int, q \in Nat \ {0} : Equals(dg, p, q)
    BY FractionEquals DEF Numbers
  <2>5. Abs(dg) \in Numbers
    BY <2>4, PartsOf
  <2>6. ~(-n < 0) /\ ~(-n < -m)
    BY <1>3
  <2> QED
    BY <2>1, <2>2, <2>3, <2>5, <2>6, OrderOfParts, SignOfNumber
<1>5. PICK h \in Numbers : h = Times(Dec, u) /\ Plus(h, h) = u
  BY <1>4, HalfIs
<1>6. Times(g, u) \in Numbers /\ ~Less(Times(g, u), h)
  BY <1>1, <1>4, <1>5, TimesRisesFirst
<1>7. Less(h, a)
  BY <1>4, <1>5, <1>6, OrderOf
<1>8. PICK b \in Nat \ {0}, i \in Int, j \in Int, k \in Int : Equals(h, i, b) /\ Equals(a, j, b) /\ Equals(w, k, b)
  BY <1>4, <1>5, OverThree
<1>9. Equals(u, i + i, b) /\ i + i \in Int
  <2>1. Equals(Plus(h, h), i + i, b)
    BY <1>8, PartsOf
  <2> QED
    BY <1>5, <2>1
<1>10. Times(<< 2, 1 >>, a) \in Numbers /\ Equals(Times(<< 2, 1 >>, a), 2 * j, b) /\ 2 * j \in Int
  BY <1>4, <1>8, Multiple
<1>11. i < j /\ ~(i + i < k)
  BY <1>4, <1>5, <1>7, <1>8, <1>9, OrderOfParts
<1>12. ~(2 * j < k)
  BY <1>11
<1> QED
  BY <1>4, <1>8, <1>10, <1>12, OrderOfParts

LEMMA FallingAhead ==
  ASSUME NEW s, NEW e, Trying(s, e), Falling
  PROVE  /\ Ahead(iv, s, stmin, stmax)
         /\ stage1 => Less(iv.dx, Zero) /\ Less(iv.x, s)
         /\ ~Less(iv.fx, e.f) /\ ~(StaysFirst(s, e) /\ Less(Test(s), e.f)) => e.dg # Zero
         /\ ~(StaysFirst(s, e) /\ Less(Test(s), e.f)) => Steep(iv, e)
<1>1. /\ SearchTypeOK /\ Descending /\ Positioned /\ s = TrialStep /\ e \in ValuesAt(s) /\ GoingOn(s, e)
      /\ iv.x \in Numbers /\ iv.y \in Numbers /\ iv.dx \in Numbers /\ iv.fx \in Numbers /\ stp \in Numbers
      /\ iv.brackt \in BOOLEAN /\ search \in SearchOptions
  BY DEF Trying, Positioned, Numbered, Descending, Interval
<1>2. /\ s = Clip(stp) /\ s \in Numbers /\ (iv.brackt => Inside(s, iv.x, iv.y)) /\ e.f \in Numbers /\ e.dg \in Numbers
  BY <1>1, TrialIs
<1>3. dgtest \in Numbers /\ ~Less(Zero, dgtest)
  BY <1>1, TestFalls
<1>4. Ahead(iv, s, stmin, stmax)
  <2>1. CASE iv.brackt
    <3>1. stmin = Lower(iv.x, iv.y) /\ stmax = Upper(iv.x, iv.y)
      BY <2>1 DEF stmin, stmax
    <3>2. stmin \in Numbers /\ stmax \in Numbers
      BY <1>1, <3>1 DEF Lower, Upper
    <3> QED
      BY <1>2, <2>1, <3>1, <3>2 DEF Ahead, Falling
  <2>2. CASE ~iv.brackt
    <3>1. /\ Less(iv.dx, Zero) /\ Less(iv.x, stp) /\ Less(iv.x, search.max_step) /\ ~Less(stp, search.min_step)
          /\ stmin = iv.x /\ stmax = Plus(stp, Times(<< 4, 1 >>, Sub(stp, iv.x)))
      BY <2>2 DEF Falling, stmin, stmax
    <3>2. ~Less(stp, iv.x)
      BY <1>1, <3>1, OrderOf
    <3>3. stmax \in Numbers /\ Less(stp, stmax)
      BY <1>1, <3>1, <3>2, LimitBeyond
    <3>4. search.max_step \in Numbers
      BY <1>1, OptionsAreNumbers
    <3>5. s = IF Less(search.max_step, stp) THEN search.max_step ELSE stp
      BY <1>1, <1>2, <3>1, ClipIs
    <3>6. Less(iv.x, s) /\ Less(s, stmax)
      BY <1>1, <3>1, <3>3, <3>4, <3>5, OrderOf
    <3> QED
      BY <1>1, <1>2, <2>2, <3>1, <3>3, <3>6 DEF Ahead
  <2> QED
    BY <1>1, <2>1, <2>2
<1>5. ASSUME stage1 PROVE Less(iv.dx, Zero) /\ Less(iv.x, s)
  <2>1. Less(iv.dx, Zero)
    BY <1>1, <1>3, <1>5, ZeroNumber, OrderOf DEF Falling
  <2>2. CASE iv.brackt
    <3>1. FallsTo(iv.dx, iv.x, iv.y) /\ Inside(s, iv.x, iv.y)
      BY <1>2, <2>2 DEF Falling
    <3>2. Less(iv.x, iv.y)
      BY <1>1, <2>1, <3>1, ZeroNumber, OrderOf DEF FallsTo
    <3> QED
      BY <1>1, <1>2, <2>1, <3>1, <3>2, OrderOf DEF Inside
  <2>3. CASE ~iv.brackt
    BY <1>4, <2>1, <2>3 DEF Ahead
  <2> QED
    BY <1>1, <2>2, <2>3
<1>6. ASSUME ~Less(iv.fx, e.f), ~(StaysFirst(s, e) /\ Less(Test(s), e.f)), e.dg = Zero PROVE FALSE
  <2>1. ~Less(e.dg, dgtest)
    BY <1>3, <1>6
  <2>2. Less(Test(s), e.f)
    <3> SUFFICES ASSUME ~Less(Test(s), e.f) PROVE FALSE
      OBVIOUS
    <3>1. Less(Zero, e.dg)
      BY <1>1, <1>2, <2>1, NotFlat
    <3> QED
      BY <1>6, <3>1, ZeroNumber, OrderOf
  <2>3. ~stage1
    BY <1>6, <2>2 DEF StaysFirst
  <2>4. iv.brackt /\ ~Less(Test(Upper(iv.x, iv.y)), iv.fx) /\ Inside(s, iv.x, iv.y)
    BY <1>2, <2>3 DEF Falling
  <2>5. PICK u \in Numbers : u = Upper(iv.x, iv.y) /\ Less(s, u)
    BY <1>1, <1>2, <2>4, InsideEnds DEF Upper
  <2>6. ~Less(u, s)
    BY <1>2, <2>5, OrderOf
  <2>7. ~Less(Test(s), Test(u)) /\ Test(s) \in Numbers /\ Test(u) \in Numbers
    BY <1>1, <1>2, <2>6, TestFalls
  <2> QED
    BY <1>1, <1>2, <1>6, <2>2, <2>4, <2>5, <2>7, OrderOf
<1>7. ASSUME ~(StaysFirst(s, e) /\ Less(Test(s), e.f)), ~iv.brackt
      PROVE  ~Less(Times(<< 2, 1 >>, Abs(e.dg)), Abs(iv.dx))
  <2>1. stage1 /\ Less(iv.dx, Zero) /\ ~Less(iv.dx, dginit)
    BY <1>7 DEF Falling
  <2>2. ~Less(Test(s), e.f)
    BY <1>7, <2>1 DEF StaysFirst
  <2>3. Less(Times(search.gtol, Minus(dginit)), Abs(e.dg))
    BY <1>1, <2>2 DEF GoingOn
  <2>4. search.gtol \in Numbers /\ ~Less(search.gtol, Dec) /\ dginit \in Numbers /\ ~Less(Zero, dginit)
    BY <1>1, OptionsAreNumbers DEF Descending
  <2> QED
    BY <1>1, <1>2, <2>1, <2>3, <2>4, HalfAsSteep
<1> QED
  BY <1>4, <1>5, <1>6, <1>7 DEF Steep

(* The new interval n after a trial at s: either sty is s, or stx is.       *)
Outcome(n, s, e, first) ==
  IF Less(iv.fx, e.f) \/ (first /\ Less(Test(s), e.f))
  THEN n.x = iv.x /\ n.fx = iv.fx /\ n.dx = iv.dx /\ n.y = s /\ n.brackt
  ELSE /\ n.x = s /\ n.fx = e.f /\ n.dx = e.dg
       /\ IF Turns(iv, e) THEN n.y = iv.x /\ n.brackt ELSE n.y = iv.y /\ n.brackt = iv.brackt

MovedOn(r, s, e, first) ==
  r.uinfo = 0 /\ Numbered(r.iv) /\ Behind(r.iv, s, r.t, r.back) /\ Outcome(r.iv, s, e, first)

(* The function less a line has the same interval.                          *)
TiltedLike(n, i, by) ==
  /\ Numbered(n) /\ n.x = i.x /\ n.y = i.y /\ n.brackt = i.brackt
  /\ n.fx = Sub(i.fx, Times(i.x, by)) /\ n.dx = Sub(i.dx, by)

LEMMA TiltIs ==
  ASSUME NEW i, Numbered(i), NEW by \in Numbers
  PROVE  TiltedLike(Tilt(i, by), i, by)
<1> DEFINE n == Tilt(i, by)
<1>1. i \in Interval /\ i.x \in Numbers /\ i.y \in Numbers /\ i.fx \in Numbers /\ i.fy \in Numbers
      /\ i.dx \in Numbers /\ i.dy \in Numbers
  BY DEF Numbered
<1>2. Times(i.x, by) \in Numbers /\ Times(i.y, by) \in Numbers
  BY <1>1, MinusTimes
<1>3. Sub(i.fx, Times(i.x, by)) \in Numbers /\ Sub(i.fy, Times(i.y, by)) \in Numbers
      /\ Sub(i.dx, by) \in Numbers /\ Sub(i.dy, by) \in Numbers
  BY <1>1, <1>2, BackAgain
<1>4. /\ n.x = i.x /\ n.y = i.y /\ n.brackt = i.brackt
      /\ n.fx = Sub(i.fx, Times(i.x, by)) /\ n.dx = Sub(i.dx, by)
      /\ n.fy = Sub(i.fy, Times(i.y, by)) /\ n.dy = Sub(i.dy, by)
  BY <1>1 DEF Tilt, Interval
<1>5. n \in Interval
  BY <1>1, TiltTyped DEF Numbers
<1> HIDE DEF n
<1>6. TiltedLike(n, i, by)
  BY <1>1, <1>3, <1>4, <1>5 DEF Numbered, TiltedLike
<1> QED
  BY <1>6 DEF n

LEMMA TiltedBack ==
  ASSUME NEW i, TiltedLike(i, iv, dgtest), NEW n, Numbered(n), n.x = i.x, n.fx = i.fx, n.dx = i.dx,
         NEW m, m = Tilt(n, Minus(dgtest)), Numbered(iv), dgtest \in Numbers
  PROVE  Numbered(m) /\ m.x = iv.x /\ m.y = n.y /\ m.fx = iv.fx /\ m.dx = iv.dx /\ m.brackt = n.brackt
<1>1. iv.x \in Numbers /\ iv.fx \in Numbers /\ iv.dx \in Numbers
  BY DEF Numbered
<1>2. PICK b \in Numbers : b = Times(iv.x, dgtest) /\ Times(iv.x, Minus(dgtest)) = Minus(b)
  BY <1>1, MinusTimes
<1>3. Minus(dgtest) \in Numbers
  BY <1>1, MinusTimes
<1>6. TiltedLike(m, n, Minus(dgtest))
  BY <1>3, TiltIs
<1>4. /\ Numbered(m) /\ m.x = n.x /\ m.y = n.y /\ m.brackt = n.brackt
      /\ m.fx = Sub(n.fx, Times(n.x, Minus(dgtest))) /\ m.dx = Sub(n.dx, Minus(dgtest))
  BY <1>6 DEF TiltedLike
<1>5. m.fx = Sub(Sub(iv.fx, b), Minus(b)) /\ m.dx = Sub(Sub(iv.dx, dgtest), Minus(dgtest)) /\ m.x = iv.x
  BY <1>2, <1>4 DEF TiltedLike
<1> QED
  BY <1>1, <1>4, <1>5, BackAgain

LEMMA FallingTilted ==
  ASSUME NEW s, NEW e, Trying(s, e), Falling, StaysFirst(s, e), Less(Test(s), e.f), ~Less(iv.fx, e.f),
         NEW tilted, tilted = [f |-> Sub(e.f, Test(s)), dg |-> Sub(e.dg, dgtest)],
         NEW q \in TrialIntervals(Tilt(iv, dgtest), s, tilted, stmin, stmax),
         NEW r, r.uinfo = q.uinfo, r.iv = Tilt(q.iv, Minus(dgtest)), r.t = q.t, r.back = q.back
  PROVE  MovedOn(r, s, e, TRUE)
<1>1. /\ SearchTypeOK /\ Descending /\ Positioned /\ s = TrialStep /\ e \in ValuesAt(s) /\ GoingOn(s, e)
      /\ iv.x \in Numbers /\ iv.y \in Numbers /\ iv.dx \in Numbers /\ iv.fx \in Numbers /\ Numbered(iv)
      /\ iv.brackt \in BOOLEAN
  BY DEF Trying, Positioned, Numbered, Interval
<1>2. s \in Numbers /\ e.f \in Numbers /\ e.dg \in Numbers
  BY <1>1, TrialIs
<1>3. dgtest \in Numbers /\ ~Less(Zero, dgtest) /\ Test(s) \in Numbers /\ Test(iv.x) \in Numbers
  BY <1>1, <1>2, TestFalls
<1>4. PICK i : i = Tilt(iv, dgtest)
  OBVIOUS
<1>5. TiltedLike(i, iv, dgtest)
  BY <1>1, <1>3, <1>4, TiltIs
<1>6. i.x = iv.x /\ i.y = iv.y /\ i.brackt = iv.brackt /\ Numbered(i) /\ i.fx = Sub(iv.fx, Test(iv.x)) /\ i.dx = Sub(iv.dx, dgtest)
  BY <1>5 DEF TiltedLike, Test
<1>7. stage1 /\ ~Less(Test(iv.x), iv.fx) /\ Less(iv.dx, dgtest) /\ Less(iv.dx, Zero) /\ Less(iv.x, s) /\ Ahead(iv, s, stmin, stmax)
  BY FallingAhead DEF StaysFirst, Falling
<1>8. tilted.f \in Numbers /\ tilted.dg \in Numbers /\ Less(Zero, tilted.f) /\ Valued(tilted)
  <2>1. Sub(e.f, Test(s)) \in Numbers /\ Sub(e.dg, dgtest) \in Numbers /\ Less(Zero, Sub(e.f, Test(s)))
    BY <1>2, <1>3, SignOfDifference
  <2> QED
    BY <2>1 DEF Valued, Numbers
<1>9. ~Less(Zero, i.fx) /\ Less(i.dx, Zero) /\ i.fx \in Numbers
  BY <1>1, <1>3, <1>6, <1>7, SignOfDifference
<1>10. Less(i.fx, tilted.f)
  BY <1>8, <1>9, ZeroNumber, OrderOf
<1>11. Ahead(i, s, stmin, stmax)
  <2>1. iv.brackt => FallsTo(i.dx, iv.x, iv.y)
    <3>1. iv.brackt => FallsTo(iv.dx, iv.x, iv.y)
      BY <1>7 DEF Ahead
    <3> QED
      BY <1>1, <1>7, <1>9, <3>1, ZeroNumber, OrderOf DEF FallsTo
  <2> QED
    BY <1>6, <1>7, <1>9, <2>1 DEF Ahead
<1>16. Steep(i, tilted)
  BY <1>10 DEF Steep
<1>12. TrialMoved(q, i, s, tilted)
  BY <1>4, <1>6, <1>8, <1>10, <1>11, <1>16, TrialIntervalsAre
<1>13. /\ q.uinfo = 0 /\ Numbered(q.iv) /\ q.iv.x = i.x /\ q.iv.fx = i.fx /\ q.iv.dx = i.dx /\ q.iv.y = s /\ q.iv.brackt
       /\ q.t \in Numbers /\ Inside(q.t, q.iv.x, q.iv.y) /\ ~q.back
  BY <1>10, <1>12 DEF TrialMoved, Renewed, Behind
<1>14. Numbered(r.iv) /\ r.iv.x = iv.x /\ r.iv.y = s /\ r.iv.fx = iv.fx /\ r.iv.dx = iv.dx /\ r.iv.brackt
  BY <1>1, <1>3, <1>5, <1>13, TiltedBack
<1>15. Behind(r.iv, s, r.t, r.back)
  BY <1>6, <1>7, <1>13, <1>14 DEF Behind, FallsTo
<1> QED
  BY <1>13, <1>14, <1>15 DEF MovedOn, Outcome

LEMMA FallingMoves ==
  ASSUME NEW s, NEW e, Trying(s, e), Falling, NEW first, first = StaysFirst(s, e), NEW r \in Intervals(first, s, e)
  PROVE  MovedOn(r, s, e, first)
<1>1. /\ SearchTypeOK /\ Descending /\ Positioned /\ s = TrialStep /\ e \in ValuesAt(s) /\ GoingOn(s, e)
      /\ Numbered(iv)
  BY DEF Trying, Positioned
<1>2. Valued(e) /\ s \in Numbers /\ e.f \in Numbers /\ e.dg \in Numbers
  BY <1>1, TrialIs
<1>3. CASE first /\ Less(Test(s), e.f) /\ ~Less(iv.fx, e.f)
  <2>1. PICK tilted : tilted = [f |-> Sub(e.f, Test(s)), dg |-> Sub(e.dg, dgtest)]
    OBVIOUS
  <2>2. PICK q \in TrialIntervals(Tilt(iv, dgtest), s, tilted, stmin, stmax) : r = [q EXCEPT !.iv = Tilt(@, Minus(dgtest))]
    BY <1>3, <2>1 DEF Intervals, NotAbove
  <2>3. \E why, i, u, back : q = [uinfo |-> why, iv |-> i, t |-> u, back |-> back]
    BY DEF TrialIntervals
  <2>4. r.uinfo = q.uinfo /\ r.iv = Tilt(q.iv, Minus(dgtest)) /\ r.t = q.t /\ r.back = q.back
    BY <2>2, <2>3
  <2>5. MovedOn(r, s, e, TRUE)
    BY <1>3, <2>1, <2>4, FallingTilted
  <2> QED
    BY <1>3, <2>5 DEF MovedOn, Outcome
<1>4. CASE ~(first /\ Less(Test(s), e.f) /\ ~Less(iv.fx, e.f))
  <2>1. r \in TrialIntervals(iv, s, e, stmin, stmax)
    BY <1>4 DEF Intervals, NotAbove
  <2>2. Ahead(iv, s, stmin, stmax) /\ (~Less(iv.fx, e.f) => e.dg # Zero) /\ Steep(iv, e)
    <3>1. CASE Less(iv.fx, e.f)
      BY <3>1, FallingAhead DEF Steep
    <3>2. CASE ~(StaysFirst(s, e) /\ Less(Test(s), e.f))
      BY <3>2, FallingAhead
    <3> QED
      BY <1>4, <3>1, <3>2
  <2>3. TrialMoved(r, iv, s, e)
    BY <1>1, <1>2, <2>1, <2>2, TrialIntervalsAre
  <2>4. Numbered(r.iv) /\ r.uinfo = 0 /\ Behind(r.iv, s, r.t, r.back)
    BY <2>3 DEF TrialMoved, Renewed
  <2>5. Outcome(r.iv, s, e, first)
    BY <1>4, <2>3 DEF TrialMoved, Renewed, Outcome
  <2> QED
    BY <2>4, <2>5 DEF MovedOn
<1> QED
  BY <1>3, <1>4

(* The search stays among numbers.                                          *)
LEMMA PointNumber ==
  ASSUME NEW q \in Numbers, NEW x \in Numbers, NEW y \in Numbers
  PROVE  Plus(x, Times(q, Sub(y, x))) \in Numbers
<1>1. PICK c \in Numbers : c = Sub(y, x)
  BY BackAgain
<1>2. PICK p \in Numbers : p = Times(q, c)
  BY PlusNumber
<1>3. Plus(x, p) \in Numbers
  BY PlusNumber DEF Plus
<1> QED
  BY <1>1, <1>2, <1>3

LEMMA HalvedNumber ==
  ASSUME NEW i, Numbered(i), NEW u \in Numbers
  PROVE  Halved(i, u) \in Numbers
<1>1. i.x \in Numbers /\ i.y \in Numbers
  BY DEF Numbered
<1>2. Plus(i.x, Times(Dec, Sub(i.y, i.x))) \in Numbers
  BY <1>1, RatiosAre, PointNumber
<1> QED
  BY <1>2 DEF Halved

(* The lowest step stays or is the trial.                                   *)
Placed(n, s, e) ==
  /\ {n.x, n.y} \subseteq {iv.x, iv.y, s}
  /\ (n.x = iv.x /\ n.fx = iv.fx) \/ (n.x = s /\ n.fx = e.f /\ ~Less(iv.fx, e.f))

(* A trial after which the search goes on.                                  *)
Goes(s, e, r) ==
  /\ s = TrialStep /\ e \in ValuesAt(s) /\ Verdict(s, e) = "search"
  /\ r \in Intervals(StaysFirst(s, e), s, e)
  /\ stage1' = StaysFirst(s, e) /\ uinfo' = r.uinfo /\ iv' = r.iv /\ UNCHANGED <<search, dginit>>
  /\ astray' = (r.back /\ ~(r.iv.brackt /\ Wide(r.iv)))
  /\ IF r.iv.brackt
     THEN /\ stp' = Halved(r.iv, r.t)
          /\ width' = << Span(r.iv.x, r.iv.y), width[1] >>
          /\ widths' = Append(widths, Span(r.iv.x, r.iv.y))
     ELSE stp' = r.t /\ UNCHANGED <<width, widths>>

LEMMA SearchGoes ==
  ASSUME MoreThuente, state' = "search", search \in SearchOptions
  PROVE  \E s, e, r : Goes(s, e, r)
<1>1. Lower(search.ftol, search.gtol) = search.ftol
  BY OptionsAreNumbers DEF Lower
<1>2. PICK s \in { TrialStep } : \E e \in ValuesAt(s) :
       LET verdict == Verdict(s, e)
           first == stage1 /\ ~(NotAbove(e.f, Test(s))
                                /\ NotAbove(Times(Lower(search.ftol, search.gtol), dginit), e.dg))
       IN  /\ value' = e /\ state' = verdict
           /\ IF verdict # "search"
              THEN stp' = s /\ UNCHANGED <<iv, stage1, uinfo, width, widths, astray>>
              ELSE /\ stage1' = first
                   /\ \E r \in Intervals(first, s, e) :
                        /\ uinfo' = r.uinfo /\ iv' = r.iv
                        /\ astray' = (r.back /\ ~(r.iv.brackt /\ Wide(r.iv)))
                        /\ IF r.iv.brackt
                           THEN /\ stp' = Halved(r.iv, r.t)
                                /\ width' = << Abs(Sub(r.iv.y, r.iv.x)), width[1] >>
                                /\ widths' = Append(widths, Abs(Sub(r.iv.y, r.iv.x)))
                           ELSE stp' = r.t /\ UNCHANGED <<width, widths>>
  BY DEF MoreThuente
<1>3. PICK e \in ValuesAt(s) :
       LET verdict == Verdict(s, e)
           first == stage1 /\ ~(NotAbove(e.f, Test(s))
                                /\ NotAbove(Times(Lower(search.ftol, search.gtol), dginit), e.dg))
       IN  /\ value' = e /\ state' = verdict
           /\ IF verdict # "search"
              THEN stp' = s /\ UNCHANGED <<iv, stage1, uinfo, width, widths, astray>>
              ELSE /\ stage1' = first
                   /\ \E r \in Intervals(first, s, e) :
                        /\ uinfo' = r.uinfo /\ iv' = r.iv
                        /\ astray' = (r.back /\ ~(r.iv.brackt /\ Wide(r.iv)))
                        /\ IF r.iv.brackt
                           THEN /\ stp' = Halved(r.iv, r.t)
                                /\ width' = << Abs(Sub(r.iv.y, r.iv.x)), width[1] >>
                                /\ widths' = Append(widths, Abs(Sub(r.iv.y, r.iv.x)))
                           ELSE stp' = r.t /\ UNCHANGED <<width, widths>>
  BY <1>2
<1>4. (stage1 /\ ~(NotAbove(e.f, Test(s)) /\ NotAbove(Times(Lower(search.ftol, search.gtol), dginit), e.dg)))
      = StaysFirst(s, e)
  BY <1>1 DEF StaysFirst, NotAbove, dgtest
<1>5. /\ Verdict(s, e) = "search" /\ stage1' = StaysFirst(s, e)
      /\ \E r \in Intervals(StaysFirst(s, e), s, e) :
           /\ uinfo' = r.uinfo /\ iv' = r.iv
           /\ astray' = (r.back /\ ~(r.iv.brackt /\ Wide(r.iv)))
           /\ IF r.iv.brackt
              THEN /\ stp' = Halved(r.iv, r.t)
                   /\ width' = << Abs(Sub(r.iv.y, r.iv.x)), width[1] >>
                   /\ widths' = Append(widths, Abs(Sub(r.iv.y, r.iv.x)))
              ELSE stp' = r.t /\ UNCHANGED <<width, widths>>
  BY <1>3, <1>4
<1>6. PICK r \in Intervals(StaysFirst(s, e), s, e) :
        /\ uinfo' = r.uinfo /\ iv' = r.iv
        /\ astray' = (r.back /\ ~(r.iv.brackt /\ Wide(r.iv)))
        /\ IF r.iv.brackt
           THEN /\ stp' = Halved(r.iv, r.t)
                /\ width' = << Abs(Sub(r.iv.y, r.iv.x)), width[1] >>
                /\ widths' = Append(widths, Abs(Sub(r.iv.y, r.iv.x)))
           ELSE stp' = r.t /\ UNCHANGED <<width, widths>>
  BY <1>5
<1>7. UNCHANGED <<search, dginit>> /\ s = TrialStep
  BY DEF MoreThuente
<1>8. Goes(s, e, r)
  BY <1>5, <1>6, <1>7 DEF Goes, Span
<1> QED
  BY <1>8

LEMMA OutcomePlaces ==
  ASSUME NEW n, NEW s, NEW e, NEW first, Outcome(n, s, e, first)
  PROVE  Placed(n, s, e)
BY DEF Outcome, Placed

LEMMA StaysPositioned ==
  ASSUME NEW s, NEW e, NEW r, Trying(s, e), Goes(s, e, r), Numbered(r.iv), r.t \in Numbers, Placed(r.iv, s, e)
  PROVE  Positioned'
<1>1. /\ SearchTypeOK /\ Descending /\ Positioned /\ s = TrialStep /\ e \in ValuesAt(s) /\ GoingOn(s, e)
      /\ Numbered(iv) /\ iv.fx \in Numbers /\ ~Less(Zero, iv.fx) /\ WithinSteps /\ search \in SearchOptions
  BY DEF Trying, Positioned, Numbered, Descending
<1>2. s \in Numbers /\ ~Less(s, search.min_step) /\ ~Less(search.max_step, s) /\ e.f \in Numbers
  BY <1>1, TrialIs
<1>3. iv' = r.iv /\ search' = search
  BY DEF Goes
<1>4. stp' \in Numbers
  BY HalvedNumber DEF Goes
<1>5. ~Less(Zero, r.iv.fx)
  BY <1>1, <1>2, ZeroNumber, OrderOf DEF Placed
<1>6. s # Zero
  BY <1>1, <1>2, OptionsAreNumbers, ZeroNumber, OrderOf
<1>7. \A p \in {r.iv.x, r.iv.y} : ~Less(search.max_step, p) /\ (p = Zero \/ ~Less(p, search.min_step))
  BY <1>1, <1>2 DEF Placed, WithinSteps
<1>8. r.iv.x = Zero => r.iv.fx = Zero
  BY <1>1, <1>6 DEF Placed, WithinSteps
<1>9. WithinSteps'
  BY <1>3, <1>7, <1>8 DEF WithinSteps
<1>10. Numbered(iv') /\ ~Less(Zero, iv'.fx)
  BY <1>3, <1>5
<1> QED
  BY <1>4, <1>9, <1>10 DEF Positioned, Numbered

(* The next trial, halved or not.                                           *)
LEMMA NextTrialInside ==
  ASSUME NEW s, NEW e, NEW r, Goes(s, e, r), Numbered(r.iv), r.iv.brackt, FallsTo(r.iv.dx, r.iv.x, r.iv.y),
         r.t \in Numbers, Inside(r.t, r.iv.x, r.iv.y)
  PROVE  Inside(stp', r.iv.x, r.iv.y)
<1>1. r.iv.x \in Numbers /\ r.iv.y \in Numbers /\ r.iv.x # r.iv.y
  <2>1. r.iv.x \in Numbers /\ r.iv.y \in Numbers
    BY DEF Numbered
  <2> QED
    BY <2>1, OrderOf DEF FallsTo
<1>2. Inside(Middle(r.iv), r.iv.x, r.iv.y)
  BY <1>1, MiddleOf DEF Middle
<1>3. stp' = Halved(r.iv, r.t)
  BY DEF Goes
<1>4. stp' = Middle(r.iv) \/ stp' = r.t
  BY <1>3 DEF Halved, Middle
<1> QED
  BY <1>2, <1>4

(* Back at or beyond the lowest step: the search ends with the next trial.  *)
LEMMA TurnedBack ==
  ASSUME search \in SearchOptions, NEW n, Numbered(n), n.brackt, ~Less(n.x, search.min_step),
         ~Less(search.max_step, n.x), NEW u \in Numbers, Returned(n, u)
  PROVE  NotAbove(Clip(u), Lower(n.x, n.y)) \/ NotAbove(Upper(n.x, n.y), Clip(u))
<1>1. search.min_step \in Numbers /\ search.max_step \in Numbers /\ n.x \in Numbers /\ n.y \in Numbers
  BY OptionsAreNumbers DEF Numbered
<1>2. Clip(u) \in Numbers
      /\ Clip(u) = IF Less(u, search.min_step) THEN search.min_step
                   ELSE IF Less(search.max_step, u) THEN search.max_step ELSE u
  BY ClipIs
<1>3. CASE Less(n.x, n.y) /\ Less(u, n.x)
  <2>1. Lower(n.x, n.y) = n.x
    BY <1>1, <1>3, OrderOf DEF Lower
  <2>2. ~Less(n.x, Clip(u))
    BY <1>1, <1>2, <1>3, OrderOf
  <2> QED
    BY <2>1, <2>2 DEF NotAbove
<1>4. CASE Less(n.y, n.x) /\ Less(n.x, u)
  <2>1. Upper(n.x, n.y) = n.x
    BY <1>1, <1>4, OrderOf DEF Upper
  <2>2. ~Less(Clip(u), n.x)
    BY <1>1, <1>2, <1>4, OrderOf
  <2> QED
    BY <2>1, <2>2 DEF NotAbove
<1> QED
  BY <1>3, <1>4 DEF Returned

LEMMA FallingStays ==
  ASSUME NEW s, NEW e, NEW r, Trying(s, e), Goes(s, e, r), Falling
  PROVE  Falling' /\ Positioned' /\ Outcome(r.iv, s, e, StaysFirst(s, e)) /\ Numbered(r.iv)
<1>1. /\ SearchTypeOK /\ Descending /\ Positioned /\ s = TrialStep /\ e \in ValuesAt(s) /\ GoingOn(s, e)
      /\ Numbered(iv) /\ {iv.x, iv.y, iv.fx, iv.dx, stp} \subseteq Numbers /\ search \in SearchOptions
      /\ iv.brackt \in BOOLEAN
  BY DEF Trying, Positioned, Numbered, Descending, Interval
<1>2. /\ s \in Numbers /\ ~Less(s, search.min_step) /\ ~Less(search.max_step, s)
      /\ (iv.brackt => Inside(s, iv.x, iv.y)) /\ e.f \in Numbers /\ e.dg \in Numbers
  BY <1>1, TrialIs
<1>3. dgtest \in Numbers /\ ~Less(Zero, dgtest) /\ Test(s) \in Numbers
  BY <1>1, <1>2, TestFalls
<1>4. PICK n, first : n = r.iv /\ first = StaysFirst(s, e)
  OBVIOUS
<1>5. MovedOn(r, s, e, first)
  <2>1. r \in Intervals(first, s, e)
    BY <1>4 DEF Goes
  <2> QED
    BY <1>4, <2>1, FallingMoves
<1>6. r.uinfo = 0 /\ Numbered(n) /\ Behind(n, s, r.t, r.back) /\ Outcome(n, s, e, first) /\ r.t \in Numbers
  BY <1>4, <1>5 DEF MovedOn, Behind
<1>7. Placed(n, s, e)
  BY <1>6, OutcomePlaces
<1>8. Positioned'
  BY <1>4, <1>6, <1>7, StaysPositioned
<1>9. {n.x, n.y, n.fx, n.dx} \subseteq Numbers /\ search.min_step \in Numbers /\ search.max_step \in Numbers
  BY <1>1, <1>6, OptionsAreNumbers DEF Numbered
<1>10. stage1 => Less(iv.dx, Zero) /\ Less(iv.x, s) /\ ~Less(Test(iv.x), iv.fx) /\ Less(iv.dx, dgtest)
  BY FallingAhead DEF Falling
<1>11. ~stage1 => iv.brackt /\ ~Less(Test(Upper(iv.x, iv.y)), iv.fx)
  BY DEF Falling
<1>18. astray' = (r.back /\ ~(n.brackt /\ Wide(n)))
  BY <1>4 DEF Goes
<1>12. IF n.brackt
       THEN /\ FallsTo(n.dx, n.x, n.y)
            /\ IF astray' THEN NotAbove(Clip(stp'), Lower(n.x, n.y)) \/ NotAbove(Upper(n.x, n.y), Clip(stp'))
               ELSE Inside(stp', n.x, n.y)
       ELSE /\ ~astray' /\ first /\ Less(n.dx, Zero) /\ ~Less(n.dx, dginit) /\ Less(n.x, stp')
            /\ Less(n.x, search.max_step) /\ ~Less(stp', search.min_step)
  <2>1. CASE n.brackt
    <3>1. FallsTo(n.dx, n.x, n.y) /\ stp' = Halved(n, r.t)
      BY <1>4, <1>6, <2>1 DEF Behind, Goes
    <3>2. CASE ~r.back
      <4>1. Inside(stp', n.x, n.y)
        BY <1>4, <1>6, <2>1, <3>2, NextTrialInside DEF Behind
      <4> QED
        BY <1>18, <2>1, <3>1, <3>2, <4>1
    <3>3. CASE r.back /\ Wide(n)
      <4>1. stp' = Middle(n) /\ ~astray'
        BY <1>18, <2>1, <3>1, <3>3 DEF Halved, Middle
      <4>2. n.x # n.y
        BY <1>9, <3>1, OrderOf DEF FallsTo
      <4>3. Inside(stp', n.x, n.y)
        BY <1>9, <4>1, <4>2, MiddleOf DEF Middle
      <4> QED
        BY <2>1, <3>1, <4>1, <4>3
    <3>4. CASE r.back /\ ~Wide(n)
      <4>1. stp' = r.t /\ astray'
        BY <1>18, <3>1, <3>4 DEF Halved
      <4>2. n.x = s /\ Returned(n, r.t)
        BY <1>6, <2>1, <3>4 DEF Behind
      <4>3. NotAbove(Clip(stp'), Lower(n.x, n.y)) \/ NotAbove(Upper(n.x, n.y), Clip(stp'))
        BY <1>1, <1>2, <1>6, <2>1, <4>1, <4>2, TurnedBack
      <4> QED
        BY <2>1, <3>1, <4>1, <4>3
    <3> QED
      BY <3>2, <3>3, <3>4
  <2>2. CASE ~n.brackt
    <3>1. ~iv.brackt /\ n.x = s /\ n.dx = e.dg /\ ~(first /\ Less(Test(s), e.f))
      BY <1>6, <2>2 DEF Outcome
    <3>2. Less(e.dg, Zero) /\ Less(s, stp') /\ stp' \in Numbers /\ ~r.back
      BY <1>4, <1>6, <2>2, <3>1 DEF Behind, Goes
    <3>3. stage1
      BY <1>11, <3>1
    <3>4. first
      <4> SUFFICES ASSUME ~first PROVE FALSE
        BY <1>4 DEF StaysFirst
      <4>1. ~Less(Test(s), e.f) /\ ~Less(e.dg, dgtest)
        BY <1>4, <3>3 DEF StaysFirst
      <4>2. Less(Zero, e.dg)
        BY <1>1, <1>2, <4>1, NotFlat
      <4> QED
        BY <1>2, <3>2, <4>2, ZeroNumber, OrderOf
    <3>5. ~Less(Test(s), e.f) /\ Less(e.dg, dgtest)
      BY <1>4, <3>1, <3>3, <3>4 DEF StaysFirst
    <3>6. s # search.max_step
      BY <1>1, <1>2, <1>3, <3>5, OrderOf DEF GoingOn
    <3>7. Less(s, search.max_step) /\ ~Less(stp', search.min_step)
      BY <1>2, <1>9, <3>2, <3>6, OrderOf
    <3>8. ~Less(e.dg, dginit)
      BY <1>1, TrialIs
    <3> QED
      BY <1>18, <2>2, <3>1, <3>2, <3>4, <3>7, <3>8
  <2> QED
    BY <2>1, <2>2
<1>13. first => ~Less(Test(n.x), n.fx) /\ Less(n.dx, dgtest)
  <2> SUFFICES ASSUME first PROVE ~Less(Test(n.x), n.fx) /\ Less(n.dx, dgtest)
    OBVIOUS
  <2>1. stage1
    BY <1>4 DEF StaysFirst
  <2>2. CASE Less(iv.fx, e.f) \/ Less(Test(s), e.f)
    BY <1>6, <1>10, <2>1, <2>2 DEF Outcome
  <2>3. CASE ~(Less(iv.fx, e.f) \/ Less(Test(s), e.f))
    <3>1. Less(e.dg, dgtest)
      BY <1>4, <2>1, <2>3 DEF StaysFirst
    <3> QED
      BY <1>6, <2>3, <3>1 DEF Outcome
  <2> QED
    BY <2>2, <2>3
<1>14. ~first => n.brackt /\ ~Less(Test(Upper(n.x, n.y)), n.fx)
  <2> SUFFICES ASSUME ~first PROVE n.brackt /\ ~Less(Test(Upper(n.x, n.y)), n.fx)
    BY <1>4 DEF StaysFirst
  <2>1. CASE stage1
    <3>1. ~Less(Test(s), e.f) /\ ~Less(e.dg, dgtest)
      BY <1>4, <2>1 DEF StaysFirst
    <3>2. Less(Zero, e.dg)
      BY <1>1, <1>2, <3>1, NotFlat
    <3>3. Turns(iv, e)
      BY <1>1, <1>2, <1>10, <2>1, <3>2, TurnsMeans
    <3>4. Upper(iv.x, s) = s /\ Upper(s, iv.x) = s
      BY <1>1, <1>2, <1>10, <2>1, OrderOf DEF Upper
    <3>5. CASE Less(iv.fx, e.f)
      <4>1. n.x = iv.x /\ n.fx = iv.fx /\ n.y = s /\ n.brackt
        BY <1>6, <3>5 DEF Outcome
      <4>2. ~Less(Test(s), iv.fx)
        BY <1>1, <1>2, <1>3, <3>1, <3>5, OrderOf
      <4> QED
        BY <3>4, <4>1, <4>2
    <3>6. CASE ~Less(iv.fx, e.f)
      <4>1. n.x = s /\ n.fx = e.f /\ n.y = iv.x /\ n.brackt
        BY <1>6, <3>3, <3>6 DEF Outcome
      <4> QED
        BY <3>1, <3>4, <4>1
    <3> QED
      BY <3>5, <3>6
  <2>2. CASE ~stage1
    <3>1. iv.brackt /\ ~Less(Test(Upper(iv.x, iv.y)), iv.fx) /\ Inside(s, iv.x, iv.y)
      BY <1>2, <1>11, <2>2
    <3>2. n.brackt
      BY <1>6, <3>1 DEF Outcome
    <3>3. PICK u \in Numbers, v \in Numbers : u = Upper(iv.x, iv.y) /\ v = Upper(n.x, n.y)
      BY <1>1, <1>9 DEF Upper
    <3>4. ~Less(u, v)
      <4>1. {n.x, n.y} \subseteq {iv.x, iv.y, s}
        BY <1>7 DEF Placed
      <4>2. ~Less(u, iv.x) /\ ~Less(u, iv.y) /\ ~Less(u, s)
        BY <1>1, <1>2, <3>1, <3>3, OrderOf DEF Upper, Inside
      <4>3. v \in {iv.x, iv.y, s}
        BY <3>3, <4>1 DEF Upper
      <4> QED
        BY <4>2, <4>3
    <3>5. ~Less(Test(v), Test(u)) /\ Test(v) \in Numbers /\ Test(u) \in Numbers
      BY <1>1, <3>3, <3>4, TestFalls
    <3>6. ~Less(iv.fx, n.fx)
      BY <1>1, <1>2, <1>9, <1>7, OrderOf DEF Placed
    <3>7. ~Less(Test(u), iv.fx)
      BY <3>1, <3>3
    <3>8. ~Less(Test(v), n.fx)
      BY <1>1, <1>9, <3>5, <3>6, <3>7, OrderOf
    <3> QED
      BY <3>2, <3>3, <3>8
  <2> QED
    BY <2>1, <2>2
<1>15. iv' = n /\ stage1' = first /\ uinfo' = 0 /\ search' = search /\ dginit' = dginit
  BY <1>4, <1>6 DEF Goes
<1>16. dgtest' = dgtest /\ Test(iv.x)' = Test(n.x) /\ Test(Upper(iv.x, iv.y))' = Test(Upper(n.x, n.y))
  BY <1>15 DEF dgtest, Test
<1>19. n.brackt => (AtAnEnd(Clip(stp))' <=> NotAbove(Clip(stp'), Lower(n.x, n.y)) \/ NotAbove(Upper(n.x, n.y), Clip(stp')))
  BY <1>15 DEF AtAnEnd, stmin, stmax, Clip
<1>17. Falling'
  BY <1>12, <1>13, <1>14, <1>15, <1>16, <1>19 DEF Falling
<1> QED
  BY <1>4, <1>6, <1>8, <1>17

LEMMA SpanTurns ==
  ASSUME NEW x \in Numbers, NEW y \in Numbers
  PROVE  Span(x, y) = Span(y, x) /\ Span(x, y) \in Numbers
<1>1. PICK d \in Nat \ {0}, n \in Int, m \in Int : Equals(x, n, d) /\ Equals(y, m, d)
  BY OverTwo
<1>2. (IF n < m THEN m - n ELSE n - m) = (IF m < n THEN n - m ELSE m - n) /\ (IF n < m THEN m - n ELSE n - m) \in Int
  OBVIOUS
<1>3. PICK k \in Int : k = IF n < m THEN m - n ELSE n - m
  BY <1>2
<1>4. Span(x, y) \in Numbers /\ Equals(Span(x, y), k, d)
  BY <1>1, <1>3, SpanParts
<1>5. Span(y, x) \in Numbers /\ Equals(Span(y, x), k, d)
  BY <1>1, <1>2, <1>3, SpanParts
<1> QED
  BY <1>4, <1>5, OrderOfParts

(* From its middle on an interval is at least halved, though min_step may   *)
(* be beyond the middle: where the search goes on from min_step, it is low  *)
(* enough and falls on.                                                     *)
LEMMA HalfAtLeast ==
  ASSUME NEW s, NEW e, Trying(s, e), Falling, iv.brackt, stp = Middle(iv),
         NEW n, Numbered(n), Outcome(n, s, e, StaysFirst(s, e))
  PROVE  ~Less(Times(Dec, Span(iv.x, iv.y)), Span(n.x, n.y))
<1>1. /\ SearchTypeOK /\ Descending /\ Positioned /\ s = TrialStep /\ e \in ValuesAt(s) /\ GoingOn(s, e)
      /\ Numbered(iv) /\ {iv.x, iv.y, iv.fx, iv.dx, stp} \subseteq Numbers /\ search \in SearchOptions /\ WithinSteps
  BY DEF Trying, Positioned, Numbered, Descending
<1>2. /\ s \in Numbers /\ ~Less(s, search.min_step) /\ s = Clip(stp) /\ Inside(s, iv.x, iv.y)
      /\ e.f \in Numbers /\ e.dg \in Numbers
  BY <1>1, TrialIs
<1>3. search.min_step \in Numbers /\ search.max_step \in Numbers /\ FallsTo(iv.dx, iv.x, iv.y)
  BY <1>1, OptionsAreNumbers DEF Falling
<1>4. iv.x # iv.y
  BY <1>1, <1>3, OrderOf DEF FallsTo
<1>5. PICK h : h = Times(Dec, Span(iv.x, iv.y))
  OBVIOUS
<1>6. /\ Inside(stp, iv.x, iv.y) /\ Span(stp, iv.x) = h /\ Span(stp, iv.y) = h
      /\ \A u \in Numbers : /\ ~Less(u, stp) /\ Less(u, iv.y) => ~Less(h, Span(u, iv.y))
                            /\ ~Less(u, stp) /\ Less(u, iv.x) => ~Less(h, Span(u, iv.x))
  BY <1>1, <1>4, <1>5, MiddleOf DEF Middle
<1>7. Span(iv.x, s) = Span(s, iv.x)
  BY <1>1, <1>2, SpanTurns
<1>8. (n.x = iv.x /\ n.y = s) \/ (n.x = s /\ n.y = iv.x) \/ (n.x = s /\ n.y = iv.y)
  BY DEF Outcome
<1>9. CASE s = stp
  <2>1. Span(n.x, n.y) = h
    BY <1>6, <1>7, <1>8, <1>9
  <2>2. h \in Numbers
    BY <1>1, <1>6, SpanInside
  <2> QED
    BY <1>5, <2>1, <2>2, OrderOf
<1>10. CASE s # stp
  <2>1. ~Less(search.max_step, stp)
    BY <1>1, <1>3, <1>6, OrderOf DEF Inside, WithinSteps
  <2>2. Less(stp, search.min_step) /\ s = search.min_step
    BY <1>1, <1>2, <1>10, <2>1, ClipIs
  <2>3. ~Less(s, stp) /\ Less(stp, s)
    BY <1>1, <1>2, <2>2, OrderOf
  <2>4. ~Less(Test(s), e.f) /\ Less(e.dg, dgtest)
    BY <1>1, <2>2 DEF GoingOn
  <2>5. Less(e.dg, Zero) /\ ~Less(Zero, e.dg)
    <3>1. dgtest \in Numbers /\ ~Less(Zero, dgtest)
      BY <1>1, TestFalls
    <3> QED
      BY <1>2, <2>4, <3>1, ZeroNumber, OrderOf
  <2>6. CASE Less(iv.x, iv.y) /\ Less(iv.dx, Zero)
    <3>1. Less(iv.x, s) /\ Less(s, iv.y) /\ Less(iv.x, stp)
      BY <1>1, <1>2, <1>6, <2>6, OrderOf DEF Inside
    <3>2. iv.x = Zero /\ iv.fx = Zero
      BY <1>1, <1>3, <2>2, <3>1, OrderOf DEF WithinSteps
    <3>3. ~Less(iv.fx, e.f)
      <4>1. ~Less(s, Zero)
        BY <1>1, <1>2, <3>1, <3>2, OrderOf
      <4>2. Test(s) \in Numbers /\ ~Less(Zero, Test(s))
        BY <1>1, <1>2, <4>1, TestFalls
      <4> QED
        BY <1>2, <2>4, <3>2, <4>2, ZeroNumber, OrderOf
    <3>4. ~Turns(iv, e)
      BY <1>1, <1>2, <2>5, <2>6, TurnsMeans, ZeroNumber, OrderOf
    <3>5. n.x = s /\ n.y = iv.y
      BY <2>4, <3>3, <3>4 DEF Outcome
    <3> QED
      BY <1>2, <1>5, <1>6, <2>3, <3>1, <3>5
  <2>7. CASE Less(iv.y, iv.x) /\ Less(Zero, iv.dx)
    <3>1. Less(s, iv.x)
      BY <1>1, <1>2, <2>7, OrderOf DEF Inside
    <3>2. Turns(iv, e)
      BY <1>1, <1>2, <2>5, <2>7, TurnsMeans
    <3>3. (n.x = iv.x /\ n.y = s) \/ (n.x = s /\ n.y = iv.x)
      BY <3>2 DEF Outcome
    <3> QED
      BY <1>2, <1>5, <1>6, <1>7, <2>3, <3>1, <3>3
  <2> QED
    BY <1>3, <2>6, <2>7 DEF FallsTo
<1> QED
  BY <1>9, <1>10

(* The interval gets shorter.                                               *)
LEMMA NewWidth ==
  ASSUME NEW s, NEW e, Trying(s, e), Falling, iv.brackt,
         NEW n, Numbered(n), Outcome(n, s, e, StaysFirst(s, e))
  PROVE  /\ n.brackt /\ Span(n.x, n.y) \in Numbers /\ Span(iv.x, iv.y) \in Numbers
         /\ Less(Span(n.x, n.y), Span(iv.x, iv.y)) /\ Less(Zero, Span(iv.x, iv.y))
<1>1. SearchTypeOK /\ Descending /\ Positioned /\ s = TrialStep /\ e \in ValuesAt(s) /\ GoingOn(s, e)
      /\ iv.x \in Numbers /\ iv.y \in Numbers
  BY DEF Trying, Positioned, Numbered
<1>2. s \in Numbers /\ Inside(s, iv.x, iv.y)
  BY <1>1, TrialIs
<1>3. (n.x = iv.x /\ n.y = s) \/ (n.x = s /\ n.y = iv.x) \/ (n.x = s /\ n.y = iv.y)
  BY DEF Outcome
<1>4. n.brackt
  BY DEF Outcome
<1> QED
  BY <1>1, <1>2, <1>3, <1>4, SpanInside

LEMMA ShrinkingStays ==
  ASSUME NEW s, NEW e, NEW r, Trying(s, e), Goes(s, e, r), Falling, Shrinking, widths \in Seq(Numbers), Shortened,
         Numbered(r.iv), Outcome(r.iv, s, e, StaysFirst(s, e))
  PROVE  Shrinking' /\ widths' \in Seq(Numbers) /\ Shortened'
<1>1. PICK n, w : n = r.iv /\ w = Span(n.x, n.y)
  OBVIOUS
<1>2. iv' = n /\ iv.x \in Numbers /\ iv.y \in Numbers /\ iv.brackt \in BOOLEAN
  BY <1>1 DEF Goes, Trying, Positioned, Numbered, Interval
<1>3. CASE ~n.brackt
  <2>1. ~iv.brackt /\ widths' = widths
    BY <1>1, <1>3 DEF Outcome, Goes
  <2> QED
    BY <1>2, <1>3, <2>1 DEF Shrinking, Shortened
<1>4. CASE n.brackt
  <2>1. stp' = Halved(n, r.t) /\ width' = << w, width[1] >> /\ widths' = Append(widths, w)
    BY <1>1, <1>4 DEF Goes
  <2>2. width'[1] = w /\ width'[2] = width[1]
    BY <2>1
  <2>3. w \in Numbers
    <3>1. n.x \in Numbers /\ n.y \in Numbers
      BY <1>1 DEF Numbered
    <3>2. PICK d \in Nat \ {0}, p \in Int, q \in Int : Equals(n.x, p, d) /\ Equals(n.y, q, d)
      BY <3>1, OverTwo
    <3> QED
      BY <1>1, <3>1, <3>2, SpanParts
  <2>4. widths' \in Seq(Numbers) /\ Len(widths') = Len(widths) + 1 /\ widths'[Len(widths) + 1] = w
        /\ Len(widths) \in Nat /\ \A k \in 1 .. Len(widths) : widths'[k] = widths[k] /\ widths[k] \in Numbers
    BY <2>1, <2>3
  <2>5. DOMAIN widths = 1 .. Len(widths) /\ DOMAIN widths' = 1 .. Len(widths) + 1
    BY <2>4
  <2>6. CASE ~iv.brackt
    <3>1. Len(widths) = 0
      BY <2>6 DEF Shrinking
    <3>2. Len(widths') = 1 /\ widths'[1] = w
      BY <2>4, <3>1
    <3>3. Shrinking'
      BY <1>1, <1>2, <1>4, <2>2, <3>2 DEF Shrinking
    <3>4. Shortened'
      BY <2>5, <3>1 DEF Shortened
    <3> QED
      BY <2>4, <3>3, <3>4
  <2>7. CASE iv.brackt
    <3>1. PICK N \in Nat : N = Len(widths)
      BY <2>4
    <3>2. /\ N > 0 /\ widths[N] = Span(iv.x, iv.y) /\ width[1] = widths[N]
          /\ N >= 2 => width[2] = widths[N - 1] /\ ~Less(widths[N - 1], widths[N])
          /\ N >= 3 => /\ ~Less(widths[N - 2], widths[N - 1])
                       /\ \/ Less(widths[N], Times(Ratio, widths[N - 2]))
                          \/ stp = Middle(iv)
      BY <2>7, <3>1 DEF Shrinking
    <3>3. w \in Numbers /\ widths[N] \in Numbers /\ Less(w, widths[N]) /\ Less(Zero, widths[N])
      BY <1>1, <2>7, <3>2, NewWidth
    <3>4. ~Less(widths[N], w)
      BY <3>3, OrderOf
    <3>5. N >= 2 => Less(w, Times(Ratio, widths[N - 1])) \/ stp' = Middle(n)
      <4> SUFFICES ASSUME N >= 2 PROVE Less(w, Times(Ratio, widths[N - 1])) \/ stp' = Middle(n)
        OBVIOUS
      <4>1. width[2] = widths[N - 1]
        BY <3>2
      <4>2. stp' = IF NotAbove(Times(Ratio, widths[N - 1]), w) THEN Middle(n) ELSE r.t
        BY <1>1, <2>1, <4>1 DEF Halved, Wide, Middle, Span
      <4> QED
        BY <4>2 DEF NotAbove
    <3>6. PICK M \in Nat : M = N + 1
      OBVIOUS
    <3>7. /\ widths'[M] = w /\ widths'[M - 1] = widths[N] /\ Len(widths') = M
          /\ M >= 3 => widths'[M - 2] = widths[N - 1]
      <4>1. M - 1 = N /\ N \in 1 .. N /\ (M >= 3 => M - 2 = N - 1 /\ N - 1 \in 1 .. N)
        BY <3>2, <3>6
      <4> QED
        BY <2>4, <3>1, <3>6, <4>1
    <3>8. /\ M > 0 /\ widths'[M] = Span(n.x, n.y) /\ width'[1] = widths'[M]
          /\ M >= 2 => width'[2] = widths'[M - 1] /\ ~Less(widths'[M - 1], widths'[M])
          /\ M >= 3 => /\ ~Less(widths'[M - 2], widths'[M - 1])
                       /\ \/ Less(widths'[M], Times(Ratio, widths'[M - 2]))
                          \/ stp' = Middle(n)
      <4>1. M >= 3 => N >= 2
        BY <3>6
      <4>2. M > 0
        BY <3>6
      <4> QED
        BY <1>1, <2>2, <3>2, <3>4, <3>5, <3>7, <4>1, <4>2
    <3>9. Shrinking'
      BY <1>2, <1>4, <3>7, <3>8 DEF Shrinking, Middle, Span
    <3>10. N >= 3 => NotAbove(w, Times(Ratio, widths[N - 2]))
      <4> SUFFICES ASSUME N >= 3 PROVE NotAbove(w, Times(Ratio, widths[N - 2]))
        OBVIOUS
      <4>1. N - 2 \in 1 .. Len(widths) /\ N - 1 \in 1 .. Len(widths)
        BY <3>1
      <4>2. PICK a \in Numbers, b \in Numbers : a = widths[N - 2] /\ b = widths[N - 1]
        BY <2>4, <4>1
      <4>3. ~Less(a, b) /\ ~Less(b, widths[N])
        BY <3>2, <4>2
      <4>4. ~Less(a, widths[N]) /\ ~Less(widths[N], Zero)
        BY <3>3, <4>2, <4>3, ZeroNumber, OrderOf
      <4>5. Ratio \in Numbers /\ Dec \in Numbers /\ ~Less(Ratio, Dec) /\ ~Less(Ratio, Zero)
        BY RatiosAre, ZeroNumber, OrderOf
      <4>6. Times(Ratio, widths[N]) \in Numbers /\ Times(Ratio, a) \in Numbers /\ ~Less(Times(Ratio, a), Times(Ratio, widths[N]))
        BY <3>3, <4>4, <4>5, TimesRises
      <4>7. CASE Less(widths[N], Times(Ratio, a))
        BY <3>3, <4>2, <4>6, <4>7, OrderOf DEF NotAbove
      <4>8. CASE stp = Middle(iv)
        <5>1. ~Less(Times(Dec, widths[N]), w)
          BY <1>1, <2>7, <3>2, <4>8, HalfAtLeast
        <5>2. Times(Dec, widths[N]) \in Numbers /\ ~Less(Times(Ratio, widths[N]), Times(Dec, widths[N]))
          BY <3>3, <4>4, <4>5, TimesRisesFirst
        <5>3. ~Less(Times(Ratio, widths[N]), w)
          BY <3>3, <4>6, <5>1, <5>2, OrderOf
        <5>4. ~Less(Times(Ratio, a), w)
          BY <3>3, <4>6, <5>3, OrderOf
        <5> QED
          BY <4>2, <5>4 DEF NotAbove
      <4> QED
        BY <3>2, <4>2, <4>7, <4>8
    <3>11. Shortened'
      <4> SUFFICES ASSUME NEW k \in DOMAIN widths', k + 3 \in DOMAIN widths'
                   PROVE  NotAbove(widths'[k + 3], Times(Ratio, widths'[k]))
        BY DEF Shortened
      <4>1. k \in 1 .. N /\ k + 3 \in 1 .. N + 1 /\ k \in 1 .. Len(widths)
        BY <2>5, <3>1
      <4>2. CASE k + 3 = N + 1
        <5>1. k = N - 2 /\ N >= 3 /\ widths'[k + 3] = w /\ widths'[k] = widths[k]
          BY <2>4, <3>1, <4>1, <4>2
        <5> QED
          BY <3>10, <5>1
      <4>3. CASE k + 3 # N + 1
        <5>1. k + 3 \in 1 .. Len(widths) /\ k \in 1 .. Len(widths)
          BY <3>1, <4>1, <4>3
        <5>2. NotAbove(widths[k + 3], Times(Ratio, widths[k]))
          BY <2>5, <5>1 DEF Shortened
        <5> QED
          BY <2>4, <5>1, <5>2
      <4> QED
        BY <4>2, <4>3
    <3> QED
      BY <2>4, <3>9, <3>11
  <2> QED
    BY <1>2, <2>6, <2>7
<1> QED
  BY <1>3, <1>4

LEMMA IntervalBegins == SearchInit => IntervalInv
<1> SUFFICES ASSUME SearchInit PROVE IntervalInv
  OBVIOUS
<1>1. /\ search \in SearchOptions /\ dginit \in Slopes /\ stp = One /\ widths = << >>
      /\ iv = [x |-> Zero, fx |-> Zero, dx |-> dginit, y |-> Zero, fy |-> Zero, dy |-> dginit, brackt |-> FALSE]
      /\ stage1 = TRUE /\ uinfo = 0 /\ astray = FALSE
      /\ state = IF Less(Zero, dginit) THEN "INCREASEGRADIENT" ELSE "search"
  BY DEF SearchInit
<1>2. dginit \in Numbers /\ dginit \in Fraction /\ dginit # Zero
  BY <1>1, SearchAssumption DEF Numbers, Lowest
<1>3. Zero \in Numbers /\ One \in Numbers /\ Zero \in Fraction /\ Less(Zero, One) /\ ~Less(Zero, Zero)
  <2>1. Zero \in Numbers /\ One \in Numbers /\ Zero \in Fraction
    BY ZeroNumber DEF Numbers
  <2>2. Equals(One, 1, 1)
    BY DEF Equals, One, Fraction
  <2> QED
    BY <2>1, <2>2, SignOfNumber, OrderOf
<1>4. /\ search.min_step \in Numbers /\ search.max_step \in Numbers /\ search.ftol \in Numbers
      /\ ~Less(One, search.min_step) /\ ~Less(search.max_step, One)
      /\ ~Less(search.ftol, Zero) /\ Less(search.ftol, One)
  <2>1. /\ ~Less(One, search.min_step) /\ ~Less(search.max_step, One) /\ Less(search.ftol, search.wolfe)
        /\ Less(search.wolfe, One) /\ ~Less(search.ftol, Zero) /\ search.wolfe \in Numbers
    BY <1>1, SearchAssumption DEF Numbers, Lowest
  <2>2. {search.min_step, search.max_step, search.ftol} \subseteq Numbers
    BY <1>1, OptionsAreNumbers
  <2> QED
    BY <1>3, <2>1, <2>2, OrderOf
<1>5. widths \in Seq(Numbers) /\ Shortened
  BY <1>1 DEF Shortened
<1>6. ASSUME state = "search" PROVE Positioned /\ Falling /\ Shrinking
  <2>1. ~Less(Zero, dginit)
    BY <1>1, <1>6
  <2>2. /\ iv.x = Zero /\ iv.fx = Zero /\ iv.dx = dginit /\ iv.y = Zero /\ iv.fy = Zero /\ iv.dy = dginit /\ iv.brackt = FALSE
        /\ iv \in Interval
    BY <1>1, <1>2, <1>3 DEF Interval
  <2>3. ~Less(search.max_step, Zero)
    BY <1>3, <1>4, OrderOf
  <2>4. Positioned
    BY <1>1, <1>2, <1>3, <2>2, <2>3 DEF Positioned, Numbered, WithinSteps
  <2>5. Less(dginit, Zero) /\ ~Less(dginit, dginit)
    BY <1>2, <1>3, <2>1, OrderOf
  <2>6. Descending
    BY <1>1, <1>2, <2>1 DEF Descending
  <2>7. Test(Zero) = Zero
    BY <2>6, TestFalls
  <2>8. Less(dginit, dgtest)
    <3>1. CASE Less(Zero, search.ftol)
      BY <1>2, <1>4, <2>5, <3>1, PartIsInside DEF dgtest
    <3>2. CASE search.ftol = Zero
      <4>1. PICK p \in Int, q \in Nat \ {0} : Equals(dginit, p, q)
        BY <1>2, FractionEquals DEF Numbers
      <4>2. Equals(Zero, 0, 1)
        BY ZeroPart
      <4>3. dgtest \in Numbers /\ Equals(dgtest, 0 * p, 1 * q)
        BY <1>2, <1>3, <3>2, <4>1, <4>2, ProductParts DEF dgtest
      <4>4. 0 * p = 0
        BY <4>1
      <4>5. dgtest = Zero
        BY <4>3, <4>4, SignOfNumber
      <4> QED
        BY <2>5, <4>5
    <3> QED
      BY <1>3, <1>4, <3>1, <3>2, OrderOf
  <2>9. Less(Zero, search.max_step)
    BY <1>3, <1>4, OrderOf
  <2>10. Falling
    BY <1>1, <1>3, <1>4, <2>2, <2>5, <2>7, <2>8, <2>9 DEF Falling
  <2>11. Shrinking
    BY <1>1, <2>2 DEF Shrinking
  <2> QED
    BY <2>4, <2>10, <2>11
<1> QED
  BY <1>2, <1>5, <1>6 DEF IntervalInv

LEMMA IntervalStays ==
  ASSUME SearchInv, IntervalInv, [SearchNext]_searchVars
  PROVE  IntervalInv'
<1>1. SearchTypeOK /\ dginit \in Numbers /\ widths \in Seq(Numbers) /\ Shortened /\ search \in SearchOptions
  BY DEF SearchInv, IntervalInv, SearchTypeOK
<1>2. CASE Backtrack
  <2>1. search.linesearch # "morethuente" /\ UNCHANGED <<search, dginit, widths>>
    BY <1>2 DEF Backtrack
  <2>2. Shortened'
    BY <1>1, <2>1 DEF Shortened
  <2> QED
    BY <1>1, <2>1, <2>2 DEF IntervalInv
<1>3. CASE MoreThuente /\ state' # "search"
  <2>1. UNCHANGED <<search, dginit>>
    BY <1>3 DEF MoreThuente
  <2>2. UNCHANGED widths
    BY <1>3 DEF MoreThuente
  <2>3. Shortened'
    BY <1>1, <2>2 DEF Shortened
  <2> QED
    BY <1>1, <1>3, <2>1, <2>2, <2>3 DEF IntervalInv
<1>4. CASE MoreThuente /\ state' = "search"
  <2>1. PICK s, e, r : Goes(s, e, r)
    BY <1>1, <1>4, SearchGoes
  <2>2. state = "search" /\ search.linesearch = "morethuente"
    BY <1>4 DEF MoreThuente
  <2>3. Positioned /\ Falling /\ Shrinking /\ Descending
    BY <1>1, <2>2 DEF IntervalInv, SearchInv, StepInReach, Descending
  <2>4. Trying(s, e)
    <3>1. s = TrialStep /\ e \in ValuesAt(s) /\ Verdict(s, e) = "search"
      BY <2>1 DEF Goes
    <3>2. GoingOn(s, e)
      BY <3>1, VerdictMeans
    <3> QED
      BY <1>1, <2>3, <3>1, <3>2 DEF Trying
  <2>5. dginit' \in Numbers
    BY <1>1, <2>1 DEF Goes
  <2>6. Falling' /\ Positioned' /\ Outcome(r.iv, s, e, StaysFirst(s, e)) /\ Numbered(r.iv)
    BY <2>1, <2>3, <2>4, FallingStays
  <2>7. Shrinking' /\ widths' \in Seq(Numbers) /\ Shortened'
    BY <1>1, <2>1, <2>3, <2>4, <2>6, ShrinkingStays
  <2> QED
    BY <2>5, <2>6, <2>7 DEF IntervalInv
<1>5. CASE UNCHANGED searchVars
  BY <1>1, <1>5 DEF searchVars, IntervalInv, Shortened, Positioned, Numbered, WithinSteps, Falling, Shrinking,
     Test, dgtest, Middle, AtAnEnd, Clip, stmin, stmax
<1> QED
  BY <1>2, <1>3, <1>4, <1>5 DEF SearchNext

LEMMA HoldsTheMinimum ==
  ASSUME SearchInv, IntervalInv
  PROVE  IntervalHoldsTheMinimum
<1>1. Shortened /\ dginit \in Numbers
  BY DEF IntervalInv
<1>2. ASSUME state = "search", search.linesearch = "morethuente"
      PROVE  /\ uinfo = 0
             /\ NotAbove(iv.fx, Zero)
             /\ stage1 => NotAbove(iv.fx, Test(iv.x)) /\ NotAbove(iv.dx, dgtest)
             /\ iv.brackt => Less(Times(iv.dx, Sub(iv.y, iv.x)), Zero)
             /\ iv.brackt /\ ~astray => Less(stmin, stp) /\ Less(stp, stmax)
             /\ astray => /\ iv.brackt /\ TrialStep = iv.x
                          /\ \A e \in ValuesAt(TrialStep) : Verdict(TrialStep, e) = "ROUNDING_ERROR"
  <2>1. Positioned /\ Falling /\ SearchTypeOK
    BY <1>2 DEF IntervalInv, SearchInv
  <2>2. iv.x \in Numbers /\ iv.y \in Numbers /\ iv.dx \in Numbers /\ stp \in Numbers /\ ~Less(Zero, iv.fx)
    BY <2>1 DEF Positioned, Numbered
  <2>3. uinfo = 0 /\ NotAbove(iv.fx, Zero)
    BY <2>1, <2>2 DEF Falling, NotAbove
  <2>4. stage1 => NotAbove(iv.fx, Test(iv.x)) /\ NotAbove(iv.dx, dgtest)
    <3>1. Descending
      BY <1>1, <1>2 DEF SearchInv, SearchTypeOK, StepInReach, Descending
    <3>2. dgtest \in Numbers
      BY <3>1, TestFalls
    <3> QED
      BY <2>1, <2>2, <3>2, OrderOf DEF Falling, NotAbove
  <2>5. iv.brackt => Less(Times(iv.dx, Sub(iv.y, iv.x)), Zero)
    BY <2>1, <2>2, FallsMeans DEF Falling
  <2>6. iv.brackt /\ ~astray => Less(stmin, stp) /\ Less(stp, stmax)
    BY <2>1, <2>2, InsideEnds DEF Falling, stmin, stmax
  <2>7. ASSUME astray
        PROVE  /\ iv.brackt /\ TrialStep = iv.x
               /\ \A e \in ValuesAt(TrialStep) : Verdict(TrialStep, e) = "ROUNDING_ERROR"
    <3>1. iv.brackt /\ AtAnEnd(Clip(stp))
      BY <2>1, <2>7 DEF Falling
    <3>2. TrialStep = iv.x
      BY <3>1 DEF TrialStep
    <3>3. AtAnEnd(iv.x)
      BY <2>1, <3>1, AtTheLowest
    <3>4. \A e : Verdict(iv.x, e) = "ROUNDING_ERROR"
      BY <3>1, <3>3 DEF Verdict
    <3> QED
      BY <3>1, <3>2, <3>4
  <2> QED
    BY <2>3, <2>4, <2>5, <2>6, <2>7
<1> QED
  BY <1>1, <1>2 DEF IntervalHoldsTheMinimum, Shortened

(* The interval of More and Thuente, for all options, slopes and values: it *)
(* holds a minimum, the next trial is inside of it, and where the cubic     *)
(* turns back instead the search ends.                                      *)
THEOREM MinimumIsHeld == SearchSpec => []IntervalHoldsTheMinimum
<1>1. SearchInit => SearchInv /\ IntervalInv
  BY SearchBegins, IntervalBegins
<1>2. SearchInv /\ IntervalInv /\ [SearchNext]_searchVars => (SearchInv /\ IntervalInv)'
  <2> SUFFICES ASSUME SearchInv, IntervalInv, [SearchNext]_searchVars PROVE SearchInv' /\ IntervalInv'
    OBVIOUS
  <2>1. SearchInv'
    BY SearchKeeps
  <2>2. IntervalInv'
    BY IntervalStays
  <2> QED
    BY <2>1, <2>2
<1>3. SearchInv /\ IntervalInv => IntervalHoldsTheMinimum
  BY HoldsTheMinimum
<1> QED
  BY <1>1, <1>2, <1>3, PTL DEF SearchSpec

-----------------------------------------------------------------------------
(***************************************************************************)
(* Stochastic gradient descent                                             *)
(***************************************************************************)

Rates == { x \in Fraction : Lowest(x) /\ x[1] > 0 }
Loss == Fraction \cup {INFINITE}

(* What the options of a training are; those that are rates are positive.  *)
LEMMA OptionsOfSgd ==
  ASSUME NEW o \in SgdOptions
  PROVE  /\ o.instances \in Nat \ {0} /\ o.max_iterations \in Nat \ {0} /\ o.period \in Nat \ {0}
         /\ o.calibration_samples \in Nat \ {0}
         /\ o.c2 \in Rates /\ o.calibration_eta \in Rates /\ o.calibration_rate \in Rates
         /\ Less(One, o.calibration_rate)
<1>1. Lowest(o.c2) /\ Lowest(o.calibration_eta) /\ Lowest(o.calibration_rate)
      /\ Less(Zero, o.c2) /\ Less(Zero, o.calibration_eta) /\ Less(One, o.calibration_rate)
  BY SgdAssumption
<1>2. o.c2 \in Fraction /\ o.calibration_eta \in Fraction /\ o.calibration_rate \in Fraction
  BY <1>1 DEF Lowest
<1>3. Positive(o.c2) /\ Positive(o.calibration_eta)
  BY <1>1, <1>2, PositiveMeans
<1>4. Positive(o.calibration_rate)
  <2>1. ~Less(One, Zero) /\ ~Less(o.calibration_rate, One)
    <3>2. ~Less(One, Zero)
      BY ConstantsLowest, NotNegative DEF One
    <3> QED
      BY <1>1, <1>2, <3>2, ConstantsLowest, LessIsStrict
  <2>2. ~Less(o.calibration_rate, Zero)
    BY <1>2, <2>1, ConstantsLowest, NotLessTransitive
  <2>3. ~Less(Zero, o.calibration_rate) => ~Less(Zero, One)
    BY <1>2, <2>1, ConstantsLowest, NotLessTransitive
  <2>4. Less(Zero, One)
    BY ConstantsLowest, PositiveMeans DEF Positive, One
  <2> QED
    BY <1>2, <2>3, <2>4, PositiveMeans
<1> QED
  BY <1>1, <1>2, <1>3, <1>4, SgdAssumption DEF Rates, Positive

(* Rates and what is computed from them.                                   *)
LEMMA RatesResults ==
  ASSUME NEW x \in Rates, NEW y \in Rates
  PROVE  Times(x, y) \in Rates /\ plus[x, y] \in Rates /\ DividedBy(x, y) \in Rates /\ x # Zero
<1>1. x \in Fraction /\ y \in Fraction /\ Lowest(x) /\ Lowest(y) /\ Positive(x) /\ Positive(y)
  BY DEF Rates, Positive
<1>2. x # Zero /\ y # Zero
  BY <1>1 DEF Positive, Zero
<1>3. Positive(times[x, y]) /\ Positive(plus[x, y]) /\ Positive(DividedBy(x, y))
  BY <1>1, PositiveResults
<1>4. Lowest(times[x, y]) /\ Lowest(plus[x, y]) /\ Lowest(DividedBy(x, y))
  BY <1>1, <1>2, InFraction, DividesBack
<1> QED
  BY <1>2, <1>3, <1>4 DEF Rates, Positive, Times

LEMMA WholeRates ==
  ASSUME NEW k \in Nat \ {0}
  PROVE  << k, 1 >> \in Rates
<1>1. Lowest(<< k, 1 >>) /\ << k, 1 >> \in Fraction /\ << k, 1 >>[1] = k
  BY WholeEquals DEF Equals
<1> QED
  BY <1>1 DEF Rates

LEMMA OneIsRate == One \in Rates /\ << 2, 1 >> \in Rates
<1>1. 1 \in Nat \ {0} /\ 2 \in Nat \ {0}
  OBVIOUS
<1>2. << 1, 1 >> \in Rates /\ << 2, 1 >> \in Rates
  BY <1>1, WholeRates
<1> QED
  BY <1>2 DEF One

(* lambda, t0 and eta are positive.                                        *)
LEMMA LambdaPositive ==
  ASSUME sgd \in SgdOptions
  PROVE  lambda \in Rates
<1>1. sgd.c2 \in Rates /\ sgd.instances \in Nat \ {0}
  BY OptionsOfSgd
<1>2. << 2, 1 >> \in Rates /\ << sgd.instances, 1 >> \in Rates /\ Times(<< 2, 1 >>, sgd.c2) \in Rates
  BY <1>1, WholeRates, OneIsRate, RatesResults
<1> QED
  BY <1>2, RatesResults DEF lambda, LambdaOf

LEMMA StartPositive ==
  ASSUME sgd \in SgdOptions, NEW eta \in Rates
  PROVE  Start(eta) \in Rates
<1>1. Times(lambda, eta) \in Rates /\ One \in Rates
  BY LambdaPositive, RatesResults, OneIsRate
<1> QED
  BY <1>1, RatesResults DEF Start

LEMMA EtaPositive ==
  ASSUME sgd \in SgdOptions, t0 \in Rates, NEW k \in Nat
  PROVE  Eta(k) \in Rates
<1>1. plus[t0, << k, 1 >>] \in Rates
  <2>1. CASE k = 0
    <3>1. << k, 1 >> = Zero
      BY <2>1 DEF Zero
    <3> QED
      BY <3>1, ZeroIsNeutral DEF Rates
  <2>2. CASE k # 0
    BY <2>2, WholeRates, RatesResults
  <2> QED
    BY <2>1, <2>2
<1>2. Times(lambda, plus[t0, << k, 1 >>]) \in Rates /\ One \in Rates
  BY <1>1, LambdaPositive, RatesResults, OneIsRate
<1> QED
  BY <1>2, RatesResults DEF Eta

LEMMA ShrinkIsNumber ==
  ASSUME sgd \in SgdOptions, t0 \in Rates, NEW k \in Nat
  PROVE  Shrink(k) \in Numbers
<1>1. Times(Eta(k), lambda) \in Fraction
  BY EtaPositive, LambdaPositive, RatesResults DEF Rates
<1>2. Minus(Times(Eta(k), lambda)) \in Fraction
  BY <1>1, InFraction
<1> QED
  BY <1>2, ConstantsLowest, InFraction DEF Shrink, Numbers

(* One update of the weights and of their factor, and of the plain ones.    *)
Updates(u, d, s, h, g, e, v) == e = Times(d, s) /\ v = plus[u, Times(DividedBy(h, e), g)]
Descends(u, d, s, h, g, e, v) ==
  /\ e \in Numbers /\ e # Zero /\ v \in Numbers
  /\ Times(v, e) = plus[Times(s, Times(u, d)), Times(h, g)]

LEMMA UpdateIsPlain ==
  ASSUME NEW u \in Numbers, NEW d \in Numbers, NEW s \in Numbers, NEW h \in Numbers, NEW g \in Numbers,
         d # Zero, s # Zero,
         NEW e, NEW v, Updates(u, d, s, h, g, e, v)
  PROVE  Descends(u, d, s, h, g, e, v)
<1>1. e = Times(d, s) /\ v = plus[u, Times(DividedBy(h, e), g)]
  BY DEF Updates
<1> DEFINE q == DividedBy(h, e)
<1>2. e \in Numbers /\ e # Zero
  BY <1>1, InFraction, ProductNotZero DEF Numbers, Times
<1>3. q \in Numbers /\ times[q, e] = h
  BY <1>2, DividesBack DEF Numbers
<1>4. times[q, g] \in Numbers /\ v \in Numbers
  BY <1>3, <1>1, InFraction DEF Numbers, Times
<1>5. times[g, times[q, e]] = times[times[g, q], e]
  <2> HIDE DEF q
  <2>1. q \in Fraction /\ e \in Fraction /\ g \in Fraction /\ Lowest(q) /\ Lowest(e) /\ Lowest(g)
    BY <1>2, <1>3 DEF Numbers
  <2> QED
    BY <2>1, TimesAssociates
<1>6. times[v, e] = plus[times[u, e], times[times[q, g], e]]
  <2>1. v = plus[u, times[q, g]]
    BY <1>1 DEF Times
  <2> DEFINE p == times[q, g]
  <2>2. u \in Fraction /\ p \in Fraction /\ e \in Fraction /\ Lowest(e)
    BY <1>2, <1>4 DEF Numbers
  <2> HIDE DEF p
  <2>3. times[plus[u, p], e] = plus[times[u, e], times[p, e]]
    BY <2>2, Distributes
  <2> QED
    BY <2>1, <2>3 DEF p
<1>7. times[u, e] = times[s, times[u, d]]
  <2>1. times[u, times[d, s]] = times[times[u, d], s]
    BY TimesAssociates DEF Numbers
  <2>2. times[u, d] \in Numbers
    BY InFraction DEF Numbers
  <2> QED
    BY <1>1, <2>1, <2>2, TimesCommutes DEF Numbers, Times
<1>8. times[times[q, g], e] = times[h, g]
  <2>1. times[q, g] = times[g, q]
    BY <1>3, TimesCommutes DEF Numbers
  <2>2. times[times[g, q], e] = times[g, times[q, e]]
    BY <1>5
  <2>3. times[g, h] = times[h, g]
    BY TimesCommutes DEF Numbers
  <2> QED
    BY <1>3, <2>1, <2>2, <2>3
<1> QED
  BY <1>2, <1>4, <1>6, <1>7, <1>8 DEF Times, Descends

TrialRecord ==
  [trials : Nat, num : Int, dec : BOOLEAN, eta : Rates, best_eta : Rates, best_loss : Loss, init_loss : Loss]

SgdTypeOK ==
  /\ sgd \in SgdOptions /\ trial \in TrialRecord /\ loss \in Loss /\ sum \in Loss
  /\ stage \in {"start", "calibrate", "l2sgd", "tried", "returned", "overflow", "nan"}

(* What a call of l2sgd keeps of the weights.                               *)
FactorKept ==
  /\ t0 \in Rates /\ t \in Nat /\ item \in Nat \ {0}
  /\ run \in [N : Nat \ {0}, num_epochs : Nat, calibration : BOOLEAN]
  /\ weight \in Numbers /\ decay \in Numbers /\ plain \in Numbers /\ decay # Zero
  /\ Times(weight, decay) = plain /\ (item = 1 => decay = One)
  /\ best \in [w : Numbers, loss : Loss]

SgdInv == SgdTypeOK /\ (stage = "l2sgd" => FactorKept)

(* The steps of a training keep types and the factor of the weights.       *)
LEMMA ConstantNumbers ==
  Zero \in Numbers /\ One \in Numbers /\ One # Zero /\ Zero \in Loss /\ Times(Zero, One) = Zero
<1>1. Zero \in Numbers /\ One \in Numbers
  BY ConstantsLowest DEF Numbers
<1>2. One # Zero
  BY DEF One, Zero
<1>3. times[Zero, One] = Zero
  BY <1>1, OneIsNeutral DEF Numbers
<1> QED
  BY <1>1, <1>2, <1>3 DEF Loss, Numbers, Times

LEMMA CallKeeps ==
  ASSUME NEW k \in Nat \ {0}, NEW m \in Nat, NEW b \in BOOLEAN, NEW r \in Rates, Call(k, m, b, r)
  PROVE  FactorKept' /\ loss' \in Loss /\ sum' \in Loss
BY ConstantNumbers DEF Call, FactorKept, Loss

LEMMA SampleIsCount ==
  ASSUME sgd \in SgdOptions
  PROVE  Sample \in Nat \ {0}
BY OptionsOfSgd DEF Sample, AtMost

LEMMA AddLossIsLoss ==
  ASSUME NEW x \in Loss, NEW y \in Loss
  PROVE  AddLoss(x, y) \in Loss
BY InFraction DEF Loss, AddLoss, Finite

LEMMA SgdBegins == SgdInit => SgdInv
<1> SUFFICES ASSUME SgdInit PROVE SgdInv
  OBVIOUS
<1>1. sgd \in SgdOptions
  BY DEF SgdInit
<1>2. sgd.calibration_eta \in Rates /\ sgd.calibration_candidates \in Int
  BY <1>1, OptionsOfSgd, SgdAssumption
<1>3. trial \in TrialRecord
  BY <1>2, ConstantNumbers DEF SgdInit, TrialRecord, Loss
<1> QED
  BY <1>1, <1>3, ConstantNumbers DEF SgdInit, SgdInv, SgdTypeOK

LEMMA CalibrateKeeps ==
  ASSUME SgdInv, Calibrate
  PROVE  SgdInv'
<1>1. SgdTypeOK
  BY DEF SgdInv
<1>2. PICK x \in Outcomes : Finite(x.loss) /\ trial' = [trial EXCEPT !.init_loss = << Sample * x.loss, 1 >>]
  BY DEF Calibrate
<1>3. x.loss \in Nat /\ Sample \in Nat
  BY <1>1, <1>2, SampleIsCount, SgdAssumption DEF Finite, SgdTypeOK
<1>4. << Sample * x.loss, 1 >> \in Loss
  <2>1. Sample * x.loss \in Int
    BY <1>3
  <2> QED
    BY <2>1 DEF Loss, Fraction
<1>5. trial' \in TrialRecord
  BY <1>1, <1>2, <1>4 DEF SgdTypeOK, TrialRecord
<1> QED
  BY <1>1, <1>5 DEF SgdInv, SgdTypeOK, Calibrate

LEMMA TrialKeeps ==
  ASSUME SgdInv, Trial
  PROVE  SgdInv'
<1>1. SgdTypeOK
  BY DEF SgdInv
<1>2. trial.eta \in Rates /\ sgd \in SgdOptions
  BY <1>1 DEF SgdTypeOK, TrialRecord
<1>3. Call(Sample, 1, TRUE, Start(trial.eta)) /\ stage' = "l2sgd" /\ UNCHANGED <<sgd, trial>>
  BY DEF Trial
<1>4. FactorKept' /\ loss' \in Loss /\ sum' \in Loss
  <2>1. Sample \in Nat \ {0} /\ Start(trial.eta) \in Rates /\ 1 \in Nat
    BY <1>2, SampleIsCount, StartPositive
  <2> QED
    BY <1>3, <2>1, CallKeeps
<1> QED
  BY <1>1, <1>3, <1>4 DEF SgdInv, SgdTypeOK

LEMMA DescendKeeps ==
  ASSUME SgdInv, Descend
  PROVE  SgdInv'
<1>1. SgdTypeOK
  BY DEF SgdInv
<1>2. trial.best_eta \in Rates /\ sgd \in SgdOptions
  BY <1>1 DEF SgdTypeOK, TrialRecord
<1>3. Call(sgd.instances, sgd.max_iterations, FALSE, Start(trial.best_eta)) /\ stage' = "l2sgd" /\ UNCHANGED <<sgd, trial>>
  BY DEF Descend
<1>4. FactorKept' /\ loss' \in Loss /\ sum' \in Loss
  <2>1. sgd.instances \in Nat \ {0} /\ Start(trial.best_eta) \in Rates /\ sgd.max_iterations \in Nat
    BY <1>2, OptionsOfSgd, StartPositive
  <2> QED
    BY <1>3, <2>1, CallKeeps
<1> QED
  BY <1>1, <1>3, <1>4 DEF SgdInv, SgdTypeOK

LEMMA JudgedTyped ==
  ASSUME SgdTypeOK, NEW ok \in BOOLEAN
  PROVE  Judged(trial, ok) \in TrialRecord
<1>1. sgd.calibration_rate \in Rates /\ sgd.calibration_eta \in Rates /\ sgd.calibration_candidates \in Int
  BY OptionsOfSgd, SgdAssumption DEF SgdTypeOK
<1>2. trial.eta \in Rates /\ trial.best_eta \in Rates /\ trial.best_loss \in Loss /\ sum \in Loss
      /\ trial.trials \in Nat /\ trial.num \in Int /\ trial.dec \in BOOLEAN
  BY DEF SgdTypeOK, TrialRecord
<1>3. /\ Times(trial.eta, sgd.calibration_rate) \in Rates
      /\ DividedBy(trial.eta, sgd.calibration_rate) \in Rates
      /\ DividedBy(sgd.calibration_eta, sgd.calibration_rate) \in Rates
  BY <1>1, <1>2, RatesResults
<1> DEFINE num == IF ok THEN trial.num - 1 ELSE trial.num
           up  == ~trial.dec /\ ok /\ num > 0
<1>4. num \in Int /\ up \in BOOLEAN /\ trial.trials + 1 \in Nat
  BY <1>2
<1> HIDE DEF num
<1>5. (IF up \/ trial.dec THEN num ELSE sgd.calibration_candidates) \in Int
  BY <1>1, <1>4
<1>6. (IF up THEN Times(trial.eta, sgd.calibration_rate)
       ELSE DividedBy(IF trial.dec THEN trial.eta ELSE sgd.calibration_eta, sgd.calibration_rate)) \in Rates
  BY <1>3
<1>7. (IF LessLoss(sum, trial.best_loss) THEN trial.eta ELSE trial.best_eta) \in Rates
      /\ (IF LessLoss(sum, trial.best_loss) THEN sum ELSE trial.best_loss) \in Loss
  BY <1>2
<1> HIDE DEF up
<1>8. Judged(trial, ok) =
  [trial EXCEPT
         !.trials = @ + 1,
         !.num = IF up \/ trial.dec THEN num ELSE sgd.calibration_candidates,
         !.dec = ~up,
         !.eta = IF up THEN Times(@, sgd.calibration_rate)
                 ELSE DividedBy(IF trial.dec THEN @ ELSE sgd.calibration_eta, sgd.calibration_rate),
         !.best_eta = IF LessLoss(sum, trial.best_loss) THEN trial.eta ELSE @,
         !.best_loss = IF LessLoss(sum, trial.best_loss) THEN sum ELSE @]
  BY DEF Judged, up, num
<1> QED
  BY <1>2, <1>4, <1>5, <1>6, <1>7, <1>8 DEF TrialRecord, SgdTypeOK

LEMMA TrialEndsKeeps ==
  ASSUME SgdInv, TrialEnds
  PROVE  SgdInv'
<1>1. SgdTypeOK
  BY DEF SgdInv
<1>2. LessLoss(sum, trial.init_loss) \in BOOLEAN
  BY DEF LessLoss, Finite, Less
<1>3. trial' \in TrialRecord
  BY <1>1, <1>2, JudgedTyped DEF TrialEnds
<1> QED
  BY <1>1, <1>3 DEF SgdInv, SgdTypeOK, TrialEnds

LEMMA InstanceKeeps ==
  ASSUME SgdInv, SgdInstance
  PROVE  SgdInv'
<1>1. SgdTypeOK /\ FactorKept /\ stage' = stage /\ stage = "l2sgd" /\ Shrink(t) # Zero
  BY DEF SgdInv, SgdInstance
<1>2. PICK x \in Outcomes :
       /\ decay' = Times(decay, Shrink(t))
       /\ weight' = Updated(weight, decay', x)
       /\ loss' = (IF Finite(x.loss) THEN << x.loss, 1 >> ELSE INFINITE)
       /\ sum' = AddLoss(sum, loss')
       /\ plain' = plus[Times(Shrink(t), plain), Times(Eta(t), << x.gradient, 1 >>)]
  BY DEF SgdInstance
<1>3. x.gradient \in Int /\ (x.loss = INFINITE \/ x.loss \in Nat)
  BY SgdAssumption
<1>4. loss' \in Loss /\ sum' \in Loss
  <2>1. Finite(x.loss) => << x.loss, 1 >> \in Loss
    BY <1>3 DEF Finite, Loss, Fraction
  <2>2. loss' \in Loss
    BY <1>2, <2>1 DEF Loss
  <2> QED
    BY <1>1, <1>2, <2>2, AddLossIsLoss DEF SgdTypeOK
<1>5. << x.gradient, 1 >> \in Numbers
  BY <1>3, WholeEquals DEF Numbers, Equals
<1>6. Eta(t) \in Numbers /\ Shrink(t) \in Numbers
  BY <1>1, EtaPositive, ShrinkIsNumber DEF SgdTypeOK, FactorKept, Rates, Numbers
<1>7. /\ decay' \in Numbers /\ decay' # Zero /\ weight' \in Numbers
      /\ Times(weight', decay') = plus[Times(Shrink(t), Times(weight, decay)), Times(Eta(t), << x.gradient, 1 >>)]
  <2> DEFINE e == Times(decay, Shrink(t))
             g == << x.gradient, 1 >>
             v == plus[weight, Times(DividedBy(Eta(t), e), g)]
  <2>1. weight \in Numbers /\ decay \in Numbers /\ decay # Zero
    BY <1>1 DEF FactorKept
  <2>2. /\ e \in Numbers /\ e # Zero /\ v \in Numbers
        /\ Times(v, e) = plus[Times(Shrink(t), Times(weight, decay)), Times(Eta(t), g)]
    <3>1. g \in Numbers /\ e = Times(decay, Shrink(t)) /\ v = plus[weight, Times(DividedBy(Eta(t), e), g)]
      BY <1>5 DEF g
    <3> DEFINE s == Shrink(t)
               h == Eta(t)
    <3>2. s \in Numbers /\ h \in Numbers /\ s # Zero /\ Updates(weight, decay, s, h, g, e, v)
      BY <1>1, <1>6, <3>1 DEF Updates
    <3> HIDE DEF g, e, v, s, h
    <3>3. Descends(weight, decay, s, h, g, e, v)
      BY <2>1, <3>1, <3>2, UpdateIsPlain
    <3> QED
      BY <3>3 DEF s, h, Descends
  <2>3. decay' = e /\ weight' = v
    BY <1>2 DEF Updated
  <2> QED
    BY <2>2, <2>3
<1>8. Times(weight', decay') = plain' /\ plain' \in Numbers
  <2>1. Times(Shrink(t), plain) \in Fraction /\ Times(Eta(t), << x.gradient, 1 >>) \in Fraction
    BY <1>1, <1>5, <1>6, InFraction DEF FactorKept, Numbers, Times
  <2>2. plain' \in Numbers
    BY <1>2, <2>1, InFraction DEF Numbers
  <2> QED
    BY <1>1, <1>2, <1>7, <2>2 DEF FactorKept
<1>9. t' \in Nat /\ item' \in Nat \ {0} /\ item' # 1 /\ UNCHANGED <<t0, run, sgd, trial, best>>
  <2>1. t' = t + 1 /\ item' = item + 1 /\ UNCHANGED <<t0, run, sgd, trial, best>>
    BY DEF SgdInstance
  <2>2. t \in Nat /\ item \in Nat \ {0}
    BY <1>1 DEF FactorKept
  <2> QED
    BY <2>1, <2>2
<1>10. FactorKept'
  BY <1>1, <1>7, <1>8, <1>9 DEF FactorKept
<1> QED
  BY <1>1, <1>4, <1>9, <1>10 DEF SgdInv, SgdTypeOK

(* The sum of an epoch, with the penalty of its weights.                   *)
LEMMA PenaltyIsLoss ==
  ASSUME SgdTypeOK, FactorKept, NEW v \in Fraction
  PROVE  Penalty(v) \in Loss
<1>1. lambda \in Fraction
  BY LambdaPositive DEF SgdTypeOK, Rates
<1>2. << run.N, 2 >> \in Fraction
  BY DEF FactorKept, Fraction
<1>3. Times(<< run.N, 2 >>, lambda) \in Fraction /\ Times(v, v) \in Fraction
  BY <1>1, <1>2, InFraction DEF Times
<1> QED
  BY <1>3, InFraction DEF Times, Loss, Penalty

(* The end of an epoch.                                                     *)
Ended(v, total) ==
  LET kept == Kept(v, total)
      ends == Stalled(total) \/ sgdEpoch = run.num_epochs
  IN  /\ epochs' = Append(epochs, [loss |-> total, w |-> plain])
      /\ IF run.calibration
         THEN /\ weight' = v /\ sum' = total /\ stage' = "tried"
              /\ UNCHANGED <<best, pf>>
         ELSE /\ best' = kept
              /\ pf' = [pf EXCEPT ![(sgdEpoch - 1) % sgd.period] = total]
              /\ weight' = IF ends THEN kept.w ELSE v
              /\ sum' = IF ends THEN kept.loss ELSE Zero
              /\ stage' = IF ends THEN "returned" ELSE "l2sgd"

LEMMA EpochIsEnded ==
  ASSUME SgdInv, SgdEpochEnds
  PROVE  \E total \in Loss : Ended(plain, total)
<1>1. SgdTypeOK /\ FactorKept
  BY DEF SgdInv, SgdEpochEnds
<1>2. Ended(Times(weight, decay), AddLoss(sum, Penalty(Times(weight, decay))))
  BY DEF SgdEpochEnds, Ended
<1>3. Times(weight, decay) = plain /\ plain \in Fraction
  BY <1>1 DEF FactorKept, Numbers
<1>4. Penalty(plain) \in Loss
  BY <1>1, <1>3, PenaltyIsLoss
<1>5. AddLoss(sum, Penalty(plain)) \in Loss
  BY <1>1, <1>4, AddLossIsLoss DEF SgdTypeOK
<1> QED
  BY <1>2, <1>3, <1>5

(* The ends of an epoch and of a call keep the invariant, as every step.   *)
LEMMA KeptTyped ==
  ASSUME best \in [w : Numbers, loss : Loss], NEW v \in Numbers, NEW total \in Loss
  PROVE  Kept(v, total) \in [w : Numbers, loss : Loss]
BY DEF Kept

LEMMA EpochEndsKeeps ==
  ASSUME SgdInv, SgdEpochEnds
  PROVE  SgdInv'
<1>1. SgdTypeOK /\ FactorKept
  BY DEF SgdInv, SgdEpochEnds
<1>2. PICK total \in Loss : Ended(plain, total)
  BY EpochIsEnded
<1>3. plain \in Numbers /\ best \in [w : Numbers, loss : Loss]
  BY <1>1 DEF FactorKept
<1> DEFINE kept == Kept(plain, total)
           ends == Stalled(total) \/ sgdEpoch = run.num_epochs
<1>4. kept \in [w : Numbers, loss : Loss]
  BY <1>3, KeptTyped
<1>5. /\ decay' = One /\ item' = 1
      /\ UNCHANGED <<sgd, trial, t0, t, run, loss, plain, trials>>
  BY DEF SgdEpochEnds
<1>6. CASE run.calibration
  <2>1. sum' = total /\ stage' = "tried"
    BY <1>2, <1>6 DEF Ended
  <2> QED
    BY <1>1, <1>5, <2>1 DEF SgdInv, SgdTypeOK
<1>7. CASE ~run.calibration
  <2>1. /\ best' = kept /\ weight' = (IF ends THEN kept.w ELSE plain)
        /\ sum' = (IF ends THEN kept.loss ELSE Zero)
        /\ stage' = IF ends THEN "returned" ELSE "l2sgd"
    BY <1>2, <1>7 DEF Ended
  <2> HIDE DEF kept, ends
  <2>2. sum' \in Loss /\ kept.loss \in Loss
    BY <1>4, <2>1, ConstantNumbers
  <2>3. CASE ends
    BY <1>1, <1>5, <2>1, <2>2, <2>3 DEF SgdInv, SgdTypeOK
  <2>4. CASE ~ends
    <3>1. weight' = plain /\ stage' = "l2sgd"
      BY <2>1, <2>4
    <3>2. Times(weight', decay') = plain'
      BY <1>3, <1>5, <3>1, OneIsNeutral DEF Numbers, Times
    <3>3. FactorKept'
      BY <1>1, <1>3, <1>4, <1>5, <2>1, <3>1, <3>2, ConstantNumbers DEF FactorKept
    <3> QED
      BY <1>1, <1>5, <2>2, <3>1, <3>3 DEF SgdInv, SgdTypeOK
  <2> QED
    BY <2>3, <2>4
<1> QED
  BY <1>6, <1>7

LEMMA StopsKeep ==
  ASSUME SgdInv, FactorVanishes \/ SgdOverflow
  PROVE  SgdInv'
<1>1. SgdTypeOK /\ FactorKept
  BY DEF SgdInv, FactorVanishes, SgdOverflow
<1>2. run.calibration \in BOOLEAN /\ INFINITE \in Loss
  BY <1>1 DEF FactorKept, Loss
<1>3. CASE FactorVanishes
  BY <1>1, <1>2, <1>3 DEF SgdInv, SgdTypeOK, FactorVanishes
<1>4. CASE SgdOverflow
  BY <1>1, <1>2, <1>4 DEF SgdInv, SgdTypeOK, SgdOverflow
<1> QED
  BY <1>3, <1>4

LEMMA SgdKeeps == SgdInv /\ [SgdNext]_sgdVars => SgdInv'
<1> SUFFICES ASSUME SgdInv, [SgdNext]_sgdVars PROVE SgdInv'
  OBVIOUS
<1>1. CASE Calibrate
  BY <1>1, CalibrateKeeps
<1>2. CASE Trial
  BY <1>2, TrialKeeps
<1>3. CASE TrialEnds
  BY <1>3, TrialEndsKeeps
<1>4. CASE Descend
  BY <1>4, DescendKeeps
<1>5. CASE SgdInstance
  BY <1>5, InstanceKeeps
<1>6. CASE FactorVanishes \/ SgdOverflow
  BY <1>6, StopsKeep
<1>7. CASE SgdEpochEnds
  BY <1>7, EpochEndsKeeps
<1>8. CASE UNCHANGED sgdVars
  BY <1>8 DEF SgdInv, SgdTypeOK, FactorKept, sgdVars
<1> QED
  BY <1>1, <1>2, <1>3, <1>4, <1>5, <1>6, <1>7, <1>8 DEF SgdNext

(* The weights that l2sgd keeps apart from their decay are the weights     *)
(* plain gradient descent would have: multiplied by the factor at any      *)
(* moment between two instances they are equal to them, exactly, and the   *)
(* factor is never zero.                                                   *)
THEOREM FactorExact == SgdSpec => []FactorIsExact
<1>1. SgdInv => FactorIsExact
  BY DEF SgdInv, FactorKept, FactorIsExact
<1> QED
  BY <1>1, SgdBegins, SgdKeeps, PTL DEF SgdSpec

(***************************************************************************)
(* The rates that are tried: f[1] is the first one, f[n] the next; they     *)
(* grow until f[m] and then shrink from below f[1].                         *)
(***************************************************************************)
Ladder(f, n, m, rate) ==
  /\ n \in Nat \ {0} /\ m \in 1..n /\ f \in [1..n -> Rates]
  /\ \A k \in 1..(m - 1) : f[k + 1] = Times(f[k], rate)
  /\ \A k \in (m + 1)..n : \E i \in 1..(k - 1) : f[i] = Times(f[k], rate)
  /\ \A i, j \in 1..n : i < j /\ j <= m => Less(f[i], f[j])
  /\ \A i, j \in 1..n : i < j /\ m < j => Less(f[j], f[i])

Extends(g, f, n) == g \in [1..(n + 1) -> Rates] /\ \A k \in 1..n : g[k] = f[k]

(* One more rate above the last, and one more below the lowest.            *)
LEMMA LadderUp ==
  ASSUME NEW f, NEW n, NEW rate \in Rates, Less(One, rate), Ladder(f, n, n, rate),
         NEW g, Extends(g, f, n), g[n + 1] = Times(f[n], rate)
  PROVE  Ladder(g, n + 1, n + 1, rate)
<1>1. n \in Nat \ {0} /\ f \in [1..n -> Rates]
  BY DEF Ladder
<1>2. \A i \in 1..(n + 1) : i \in 1..n \/ i = n + 1
  BY <1>1
<1>3. Less(f[n], g[n + 1])
  <2>1. f[n] \in Rates
    BY <1>1
  <2> QED
    BY <2>1, TimesGrows DEF Rates, Times
<1>4. ASSUME NEW i \in 1..n PROVE Less(g[i], g[n + 1])
  <2>1. g[i] = f[i] /\ f[i] \in Fraction /\ f[n] \in Fraction /\ g[n + 1] \in Fraction
    BY <1>1 DEF Extends, Rates
  <2>2. CASE i = n
    BY <1>3, <2>1, <2>2
  <2>3. CASE i < n
    <3>1. Less(f[i], f[n])
      BY <1>1, <2>3 DEF Ladder
    <3> QED
      BY <1>3, <2>1, <3>1, LessThenNotLess
  <2> QED
    BY <1>1, <2>2, <2>3
<1>5. ASSUME NEW i \in 1..(n + 1), NEW j \in 1..(n + 1), i < j PROVE Less(g[i], g[j])
  <2>1. CASE j = n + 1
    BY <1>1, <1>4, <1>5, <2>1
  <2>2. CASE j \in 1..n
    <3>1. i \in 1..n /\ j <= n
      BY <1>1, <1>5, <2>2
    <3> QED
      BY <1>5, <2>2, <3>1 DEF Ladder, Extends
  <2> QED
    BY <1>2, <2>1, <2>2
<1>6. ASSUME NEW k \in 1..n PROVE g[k + 1] = Times(g[k], rate)
  <2>1. CASE k = n
    BY <1>1, <2>1 DEF Extends
  <2>2. CASE k # n
    <3>1. k \in 1..(n - 1) /\ k + 1 \in 1..n
      BY <1>1, <2>2
    <3> QED
      BY <3>1 DEF Ladder, Extends
  <2> QED
    BY <2>1, <2>2
<1>7. (n + 1) - 1 = n /\ ((n + 1) + 1)..(n + 1) = {} /\ n + 1 \in Nat \ {0} /\ n + 1 \in 1..(n + 1)
      /\ \A j \in 1..(n + 1) : ~(n + 1 < j)
  BY <1>1
<1> QED
  BY <1>5, <1>6, <1>7 DEF Ladder, Extends

LEMMA LadderDown ==
  ASSUME NEW f, NEW n, NEW m, NEW rate \in Rates, Less(One, rate), Ladder(f, n, m, rate),
         NEW b \in 1..n, \A i \in 1..n : ~Less(f[i], f[b]),
         NEW g, Extends(g, f, n), g[n + 1] = DividedBy(f[b], rate)
  PROVE  Ladder(g, n + 1, m, rate)
<1>1. n \in Nat \ {0} /\ m \in 1..n /\ f \in [1..n -> Rates]
  BY DEF Ladder
<1>2. \A i \in 1..(n + 1) : i \in 1..n \/ i = n + 1
  BY <1>1
<1>3. Times(g[n + 1], rate) = f[b] /\ g[n + 1] \in Rates
  <2>1. f[b] \in Rates
    BY <1>1
  <2>2. rate # Zero /\ DividedBy(f[b], rate) \in Rates
    BY <2>1, RatesResults
  <2> QED
    BY <2>1, <2>2, DividesBack DEF Rates, Times
<1>4. Less(g[n + 1], f[b])
  BY <1>3, TimesGrows DEF Rates, Times
<1>5. ASSUME NEW i \in 1..n PROVE Less(g[n + 1], g[i])
  <2>1. g[i] = f[i] /\ f[i] \in Fraction /\ f[b] \in Fraction /\ g[n + 1] \in Fraction
    BY <1>1, <1>3 DEF Extends, Rates
  <2> QED
    BY <1>4, <2>1, LessThenNotLess
<1>6. ASSUME NEW i \in 1..(n + 1), NEW j \in 1..(n + 1), i < j, j <= m PROVE Less(g[i], g[j])
  <2>1. i \in 1..n /\ j \in 1..n
    BY <1>1, <1>6
  <2> QED
    BY <1>6, <2>1 DEF Ladder, Extends
<1>7. ASSUME NEW i \in 1..(n + 1), NEW j \in 1..(n + 1), i < j, m < j PROVE Less(g[j], g[i])
  <2>1. CASE j = n + 1
    BY <1>1, <1>5, <1>7, <2>1
  <2>2. CASE j \in 1..n
    <3>1. i \in 1..n
      BY <1>1, <1>7, <2>2
    <3> QED
      BY <1>7, <2>2, <3>1 DEF Ladder, Extends
  <2> QED
    BY <1>2, <2>1, <2>2
<1>8. ASSUME NEW k \in 1..(m - 1) PROVE g[k + 1] = Times(g[k], rate)
  <2>1. k \in 1..n /\ k + 1 \in 1..n
    BY <1>1
  <2> QED
    BY <2>1 DEF Ladder, Extends
<1>9. ASSUME NEW k \in (m + 1)..(n + 1) PROVE \E i \in 1..(k - 1) : g[i] = Times(g[k], rate)
  <2>1. CASE k = n + 1
    <3>1. b \in 1..(k - 1)
      BY <1>1, <2>1
    <3> QED
      BY <1>3, <2>1, <3>1 DEF Extends
  <2>2. CASE k # n + 1
    <3>1. k \in (m + 1)..n /\ k \in 1..n /\ 1..(k - 1) \subseteq 1..n
      BY <1>1, <2>2
    <3>2. PICK i \in 1..(k - 1) : f[i] = Times(f[k], rate)
      BY <3>1 DEF Ladder
    <3> QED
      BY <3>1, <3>2 DEF Extends
  <2> QED
    BY <2>1, <2>2
<1>10. n + 1 \in Nat \ {0} /\ m \in 1..(n + 1)
  BY <1>1
<1> QED
  BY <1>6, <1>7, <1>8, <1>9, <1>10 DEF Ladder, Extends

(* What the property says of the rates that were tried.                     *)
LEMMA LadderMeans ==
  ASSUME NEW f, NEW n, NEW m, NEW rate \in Rates, Ladder(f, n, m, rate),
         NEW k \in 1..(n - 1), NEW j \in 1..(n - 1)
  PROVE  /\ k # j => f[k] # f[j]
         /\ Less(f[k], f[j]) => \E i \in 1..(n - 1) : f[i] = Times(f[k], rate)
<1>1. n \in Nat \ {0} /\ m \in 1..n /\ f \in [1..n -> Rates] /\ k \in 1..n /\ j \in 1..n
  BY DEF Ladder
<1>2. ASSUME NEW p \in 1..n, NEW q \in 1..n, p < q PROVE Less(f[p], f[q]) \/ Less(f[q], f[p])
  <2>1. q <= m \/ m < q
    BY <1>1
  <2> QED
    BY <1>2, <2>1 DEF Ladder
<1>3. k # j => f[k] # f[j]
  <2>1. k # j => Less(f[k], f[j]) \/ Less(f[j], f[k])
    <3>1. k # j => k < j \/ j < k
      OBVIOUS
    <3> QED
      BY <1>1, <1>2, <3>1
  <2>2. f[k] \in Fraction /\ f[j] \in Fraction
    BY <1>1 DEF Rates
  <2> QED
    BY <2>1, <2>2, LessIsStrict
<1>4. ASSUME Less(f[k], f[j]) PROVE \E i \in 1..(n - 1) : f[i] = Times(f[k], rate)
  <2>1. k # j /\ ~Less(f[j], f[k])
    BY <1>1, <1>4, LessIsStrict DEF Rates
  <2>2. CASE k < m
    <3>1. CASE k + 1 <= n - 1
      <4>1. k \in 1..(m - 1) /\ k + 1 \in 1..(n - 1)
        BY <1>1, <2>2, <3>1
      <4> QED
        BY <4>1 DEF Ladder
    <3>2. CASE ~(k + 1 <= n - 1)
      <4>1. j < k /\ k <= m
        BY <1>1, <2>1, <2>2, <3>2
      <4> QED
        BY <1>1, <2>1, <4>1 DEF Ladder
    <3> QED
      BY <3>1, <3>2
  <2>3. CASE k = m
    <3>1. (j < k /\ k <= m) \/ (k < j /\ m < j)
      BY <1>1, <2>1, <2>3
    <3> QED
      BY <1>1, <1>4, <2>1, <3>1 DEF Ladder
  <2>4. CASE k > m
    <3>1. k \in (m + 1)..n /\ 1..(k - 1) \subseteq 1..(n - 1)
      BY <1>1, <2>4
    <3> QED
      BY <3>1 DEF Ladder
  <2> QED
    BY <1>1, <2>2, <2>3, <2>4
<1> QED
  BY <1>3, <1>4

(* trials is what was tried on a ladder, and trial.eta comes next.          *)
OnLadder ==
  /\ trials \in Seq([eta : Rates, loss : Loss])
  /\ \E f, m : /\ Ladder(f, Len(trials) + 1, m, sgd.calibration_rate)
               /\ f[1] = sgd.calibration_eta
               /\ \A k \in 1..Len(trials) : trials[k].eta = f[k]
               /\ trial.eta = f[Len(trials) + 1]
               /\ trial.dec <=> m <= Len(trials)

BestRate ==
  /\ \A k \in DOMAIN trials : ~LessLoss(trials[k].loss, trial.best_loss)
  /\ \/ \E k \in DOMAIN trials : trials[k] = [eta |-> trial.best_eta, loss |-> trial.best_loss]
     \/ trial.best_eta = sgd.calibration_eta /\ ~Finite(trial.best_loss)

TrialsKept == OnLadder /\ BestRate

(* No rate is tried yet.                                                   *)
LEMMA TrialsBegin == SgdInit => TrialsKept
<1> SUFFICES ASSUME SgdInit PROVE TrialsKept
  OBVIOUS
<1>1. sgd \in SgdOptions /\ trials = << >> /\ Len(trials) = 0 /\ trial.eta = sgd.calibration_eta
      /\ trial.best_eta = sgd.calibration_eta /\ trial.best_loss = INFINITE /\ trial.dec = FALSE
  BY DEF SgdInit
<1>2. sgd.calibration_eta \in Rates
  BY <1>1, OptionsOfSgd
<1> DEFINE f == [k \in 1..1 |-> sgd.calibration_eta]
<1>3. Ladder(f, 1, 1, sgd.calibration_rate)
  <2>1. 1..(1 - 1) = {} /\ (1 + 1)..1 = {} /\ 1 \in Nat \ {0} /\ 1 \in 1..1
        /\ \A i, j \in 1..1 : ~(i < j)
    OBVIOUS
  <2> QED
    BY <1>2, <2>1 DEF Ladder
<1>4. f[1] = sgd.calibration_eta
  OBVIOUS
<1>5. OnLadder
  <2>1. Len(trials) + 1 = 1 /\ 1..Len(trials) = {} /\ ~(1 <= Len(trials))
    BY <1>1
  <2>2. trials \in Seq([eta : Rates, loss : Loss])
    BY <1>1
  <2> HIDE DEF f
  <2> QED
    BY <1>1, <1>3, <1>4, <2>1, <2>2 DEF OnLadder
<1>6. BestRate
  BY <1>1 DEF BestRate, Finite
<1> QED
  BY <1>5, <1>6 DEF TrialsKept

(* Where the next rate is found.                                            *)
LEMMA NextRate ==
  ASSUME SgdTypeOK, NEW ok \in BOOLEAN
  PROVE  \/ /\ ~trial.dec /\ Judged(trial, ok).dec = FALSE
            /\ Judged(trial, ok).eta = Times(trial.eta, sgd.calibration_rate)
         \/ /\ ~trial.dec /\ Judged(trial, ok).dec = TRUE
            /\ Judged(trial, ok).eta = DividedBy(sgd.calibration_eta, sgd.calibration_rate)
         \/ /\ trial.dec /\ Judged(trial, ok).dec = TRUE
            /\ Judged(trial, ok).eta = DividedBy(trial.eta, sgd.calibration_rate)
<1> DEFINE up == ~trial.dec /\ ok /\ (IF ok THEN trial.num - 1 ELSE trial.num) > 0
<1>1. trial \in TrialRecord /\ up \in BOOLEAN
  BY DEF SgdTypeOK
<1>2. /\ Judged(trial, ok).dec = ~up
      /\ Judged(trial, ok).eta = IF up THEN Times(trial.eta, sgd.calibration_rate)
           ELSE DividedBy(IF trial.dec THEN trial.eta ELSE sgd.calibration_eta, sgd.calibration_rate)
  BY <1>1 DEF Judged, TrialRecord
<1>3. up => ~trial.dec
  OBVIOUS
<1> HIDE DEF up
<1> QED
  BY <1>1, <1>2, <1>3

(* A trial that ends leaves a ladder, and the next rate on it.             *)
LEMMA TrialClimbs ==
  ASSUME SgdInv, OnLadder, TrialEnds
  PROVE  OnLadder'
<1>1. SgdTypeOK /\ sgd \in SgdOptions /\ trial \in TrialRecord /\ sum \in Loss
  BY DEF SgdInv, SgdTypeOK
<1> DEFINE rate == sgd.calibration_rate
           n == Len(trials) + 1
           next == trial'.eta
<1>2. PICK ok \in BOOLEAN : trial' = Judged(trial, ok)
  BY DEF TrialEnds, LessLoss, Finite, Less
<1>3. trials' = Append(trials, [eta |-> trial.eta, loss |-> sum]) /\ sgd' = sgd
  BY DEF TrialEnds
<1>4. trials \in Seq([eta : Rates, loss : Loss])
  BY DEF OnLadder
<1>5. rate \in Rates /\ Less(One, rate) /\ sgd.calibration_eta \in Rates /\ trial.eta \in Rates /\ next \in Rates
  <2>1. trial' \in TrialRecord
    BY <1>1, <1>2, JudgedTyped
  <2> QED
    BY <1>1, <2>1, OptionsOfSgd DEF TrialRecord
<1>6. PICK f, m : /\ Ladder(f, n, m, rate)
                  /\ f[1] = sgd.calibration_eta
                  /\ \A k \in 1..Len(trials) : trials[k].eta = f[k]
                  /\ trial.eta = f[n]
                  /\ trial.dec <=> m <= Len(trials)
  BY DEF OnLadder
<1>7. Len(trials) \in Nat /\ n \in Nat \ {0} /\ m \in 1..n /\ f \in [1..n -> Rates] /\ n \in 1..n /\ 1 \in 1..n
  BY <1>4, <1>6 DEF Ladder
<1> DEFINE g == [k \in 1..(n + 1) |-> IF k <= n THEN f[k] ELSE next]
<1>8. Extends(g, f, n) /\ g[n + 1] = next
  BY <1>5, <1>7 DEF Extends
<1>9. trials' \in Seq([eta : Rates, loss : Loss]) /\ Len(trials') = n
      /\ \A k \in 1..n : trials'[k].eta = g[k]
  <2>1. [eta |-> trial.eta, loss |-> sum] \in [eta : Rates, loss : Loss]
    BY <1>1, <1>5
  <2>2. trials' \in Seq([eta : Rates, loss : Loss]) /\ Len(trials') = n
        /\ \A k \in 1..n : trials'[k] = IF k = n THEN [eta |-> trial.eta, loss |-> sum] ELSE trials[k]
    BY <1>3, <1>4, <2>1
  <2>3. ASSUME NEW k \in 1..n PROVE trials'[k].eta = g[k]
    <3>1. g[k] = f[k]
      BY <1>8 DEF Extends
    <3>2. CASE k = n
      BY <1>6, <2>2, <3>1, <3>2
    <3>3. CASE k # n
      <4>1. k \in 1..Len(trials)
        BY <1>7, <3>3
      <4> QED
        BY <1>6, <2>2, <3>1, <3>3, <4>1
    <3> QED
      BY <3>2, <3>3
  <2> QED
    BY <2>2, <2>3
<1>10. g[1] = sgd'.calibration_eta
  BY <1>3, <1>6, <1>7, <1>8 DEF Extends
<1> HIDE DEF g, n
<1>11. ASSUME NEW p, Ladder(g, n + 1, p, rate), trial'.dec <=> p <= n PROVE OnLadder'
  <2>1. sgd'.calibration_rate = rate /\ g[n + 1] = trial'.eta
    BY <1>3, <1>8
  <2> QED
    BY <1>9, <1>10, <1>11, <2>1 DEF OnLadder
<1>12. CASE ~trial.dec
  <2>1. m = n
    BY <1>6, <1>7, <1>12 DEF n
  <2>2. CASE trial'.dec = FALSE
    <3>1. next = Times(f[n], rate)
      BY <1>1, <1>2, <1>6, <1>12, <2>2, NextRate
    <3>2. Ladder(g, n + 1, n + 1, rate)
      BY <1>5, <1>6, <1>8, <2>1, <3>1, LadderUp
    <3>3. ~(n + 1 <= n)
      BY <1>7
    <3> QED
      BY <1>11, <2>2, <3>2, <3>3
  <2>3. CASE trial'.dec = TRUE
    <3>1. next = DividedBy(f[1], rate)
      BY <1>1, <1>2, <1>6, <1>12, <2>3, NextRate
    <3>2. ASSUME NEW i \in 1..n PROVE ~Less(f[i], f[1])
      <4>1. f[i] \in Fraction /\ f[1] \in Fraction
        BY <1>7 DEF Rates
      <4>2. i = 1 \/ Less(f[1], f[i])
        <5>1. i # 1 => 1 < i /\ i <= m
          BY <1>7, <2>1
        <5> QED
          BY <1>6, <1>7, <5>1 DEF Ladder
      <4> QED
        BY <4>1, <4>2, LessIsStrict
    <3>3. Ladder(g, n + 1, n, rate)
      BY <1>5, <1>6, <1>7, <1>8, <2>1, <3>1, <3>2, LadderDown
    <3>4. n <= n
      BY <1>7
    <3> QED
      BY <1>11, <2>3, <3>3, <3>4
  <2> QED
    BY <1>1, <1>2, <2>2, <2>3, NextRate
<1>13. CASE trial.dec
  <2>1. m < n
    BY <1>6, <1>7, <1>13 DEF n
  <2>2. trial'.dec = TRUE /\ next = DividedBy(f[n], rate)
    BY <1>1, <1>2, <1>6, <1>13, NextRate
  <2>3. ASSUME NEW i \in 1..n PROVE ~Less(f[i], f[n])
    <3>1. f[i] \in Fraction /\ f[n] \in Fraction
      BY <1>7 DEF Rates
    <3>2. i = n \/ Less(f[n], f[i])
      <4>1. i # n => i < n /\ m < n
        BY <1>7, <2>1
      <4> QED
        BY <1>6, <1>7, <4>1 DEF Ladder
    <3> QED
      BY <3>1, <3>2, LessIsStrict
  <2>4. Ladder(g, n + 1, m, rate)
    BY <1>5, <1>6, <1>7, <1>8, <2>2, <2>3, LadderDown
  <2>5. m <= n
    BY <1>7, <2>1
  <2> QED
    BY <1>11, <2>2, <2>4, <2>5
<1> QED
  BY <1>12, <1>13

(* An element of a sequence.                                               *)
LEMMA ElementOf ==
  ASSUME NEW S, NEW s \in Seq(S), NEW k \in 1..Len(s)
  PROVE  s[k] \in S
OBVIOUS

(* Losses are ordered, one that is infinite after all others.              *)
LEMMA LessLossOrder ==
  ASSUME NEW x \in Loss, NEW y \in Loss, NEW z \in Loss
  PROVE  /\ ~LessLoss(x, x)
         /\ LessLoss(x, y) => ~LessLoss(y, x)
         /\ ~LessLoss(x, y) /\ LessLoss(z, y) => ~LessLoss(x, z)
<1>1. Finite(x) => x \in Fraction
  BY DEF Loss, Finite
<1>2. Finite(y) => y \in Fraction
  BY DEF Loss, Finite
<1>3. Finite(z) => z \in Fraction
  BY DEF Loss, Finite
<1>4. ~LessLoss(x, x) /\ (LessLoss(x, y) => ~LessLoss(y, x))
  BY <1>1, <1>2, LessIsStrict DEF LessLoss
<1>5. ASSUME ~LessLoss(x, y), LessLoss(z, y), LessLoss(x, z) PROVE FALSE
  <2>1. Finite(x) /\ Finite(z) /\ Less(x, z)
    BY <1>5 DEF LessLoss
  <2>2. Finite(y) /\ ~Less(x, y) /\ Less(z, y)
    BY <1>5, <2>1 DEF LessLoss
  <2> QED
    BY <1>1, <1>2, <1>3, <2>1, <2>2, LessThenNotLess
<1> QED
  BY <1>4, <1>5

(* The rate that is kept was the best tried.                               *)
LEMMA TrialIsBest ==
  ASSUME SgdInv, TrialsKept, TrialEnds
  PROVE  BestRate'
<1>1. SgdTypeOK /\ trial \in TrialRecord /\ sum \in Loss /\ trials \in Seq([eta : Rates, loss : Loss]) /\ BestRate
  BY DEF SgdInv, SgdTypeOK, TrialsKept, OnLadder
<1>2. PICK ok \in BOOLEAN : trial' = Judged(trial, ok)
  BY DEF TrialEnds, LessLoss, Finite, Less
<1>3. trials' = Append(trials, [eta |-> trial.eta, loss |-> sum]) /\ sgd' = sgd
  BY DEF TrialEnds
<1>4. /\ trial'.best_eta = (IF LessLoss(sum, trial.best_loss) THEN trial.eta ELSE trial.best_eta)
      /\ trial'.best_loss = (IF LessLoss(sum, trial.best_loss) THEN sum ELSE trial.best_loss)
  BY <1>1, <1>2 DEF Judged, TrialRecord
<1> DEFINE n == Len(trials)
           latest == [eta |-> trial.eta, loss |-> sum]
<1>5. latest \in [eta : Rates, loss : Loss]
  BY <1>1 DEF TrialRecord
<1>6. /\ n \in Nat /\ DOMAIN trials = 1..n /\ DOMAIN trials' = 1..(n + 1)
      /\ trials'[n + 1] = latest /\ \A k \in 1..n : trials'[k] = trials[k] /\ k \in 1..(n + 1)
      /\ \A k \in 1..(n + 1) : k \in 1..n \/ k = n + 1
  BY <1>1, <1>3, <1>5
<1>7. \A k \in 1..n : trials[k].loss \in Loss /\ ~LessLoss(trials[k].loss, trial.best_loss)
  <2>1. ASSUME NEW k \in 1..n PROVE trials[k] \in [eta : Rates, loss : Loss]
    BY <1>1, ElementOf
  <2>2. ASSUME NEW k \in 1..n PROVE ~LessLoss(trials[k].loss, trial.best_loss)
    BY <1>1, <1>6 DEF BestRate
  <2> QED
    BY <2>1, <2>2
<1>8. trial.best_loss \in Loss /\ n + 1 \in 1..(n + 1)
  BY <1>1, <1>6 DEF TrialRecord
<1>9. latest.loss = sum /\ latest.eta = trial.eta
  OBVIOUS
<1> HIDE DEF n, latest
<1>10. CASE LessLoss(sum, trial.best_loss)
  <2>1. trial'.best_eta = trial.eta /\ trial'.best_loss = sum
    BY <1>4, <1>10
  <2>2. ASSUME NEW k \in 1..(n + 1) PROVE ~LessLoss(trials'[k].loss, sum)
    <3>1. CASE k = n + 1
      BY <1>1, <1>6, <1>9, <3>1, LessLossOrder
    <3>2. CASE k \in 1..n
      BY <1>1, <1>6, <1>7, <1>8, <1>10, <3>2, LessLossOrder
    <3> QED
      BY <1>6, <3>1, <3>2
  <2>3. trials'[n + 1] = [eta |-> trial'.best_eta, loss |-> trial'.best_loss]
    BY <1>6, <2>1 DEF latest
  <2> QED
    BY <1>6, <1>8, <2>1, <2>2, <2>3 DEF BestRate
<1>11. CASE ~LessLoss(sum, trial.best_loss)
  <2>1. trial'.best_eta = trial.best_eta /\ trial'.best_loss = trial.best_loss
    BY <1>4, <1>11
  <2>2. ASSUME NEW k \in 1..(n + 1) PROVE ~LessLoss(trials'[k].loss, trial.best_loss)
    BY <1>6, <1>7, <1>9, <1>11
  <2>3. \/ \E k \in 1..(n + 1) : trials'[k] = [eta |-> trial.best_eta, loss |-> trial.best_loss]
        \/ trial.best_eta = sgd.calibration_eta /\ ~Finite(trial.best_loss)
    BY <1>1, <1>6 DEF BestRate
  <2> QED
    BY <1>3, <1>6, <2>1, <2>2, <2>3 DEF BestRate
<1> QED
  BY <1>10, <1>11

(***************************************************************************)
(* Epochs                                                                   *)
(***************************************************************************)
FiniteOf(done) == { e \in DOMAIN done : Finite(done[e].loss) }

(* v and x are the weights and the loss of the first of the best epochs.    *)
BestOf(done, v, x) ==
  \/ FiniteOf(done) = {} /\ v = Zero /\ ~Finite(x)
  \/ \E e \in FiniteOf(done) :
       /\ v = done[e].w /\ x = done[e].loss
       /\ \A k \in FiniteOf(done) : ~Less(done[k].loss, done[e].loss)
       /\ \A k \in FiniteOf(done) : k < e => Less(done[e].loss, done[k].loss)

Epochs == Seq([loss : Loss, w : Numbers])

(* One epoch more, and what is kept of it.                                 *)
LEMMA KeptIsBest ==
  ASSUME NEW done \in Epochs, NEW b \in [w : Numbers, loss : Loss], BestOf(done, b.w, b.loss),
         NEW v \in Numbers, NEW x \in Loss, NEW kept, kept = IF LessLoss(x, b.loss) THEN [w |-> v, loss |-> x] ELSE b
  PROVE  BestOf(Append(done, [loss |-> x, w |-> v]), kept.w, kept.loss)
<1> DEFINE n == Len(done)
           more == Append(done, [loss |-> x, w |-> v])
<1>1. /\ n \in Nat /\ DOMAIN done = 1..n /\ DOMAIN more = 1..(n + 1)
      /\ more[n + 1].loss = x /\ more[n + 1].w = v /\ \A k \in 1..n : more[k] = done[k]
      /\ n + 1 \in 1..(n + 1)
      /\ \A k \in 1..(n + 1) : (k \in 1..n /\ k < n + 1 /\ ~(n + 1 < k)) \/ k = n + 1
  BY DEF Epochs
<1>2. \A k \in 1..n : done[k].loss \in Loss
  <2>1. ASSUME NEW k \in 1..n PROVE done[k] \in [loss : Loss, w : Numbers]
    BY ElementOf DEF Epochs
  <2> QED
    BY <2>1
<1>3. \A k \in FiniteOf(more) : k \in FiniteOf(done) \/ k = n + 1
  BY <1>1 DEF FiniteOf
<1>4. \A k \in FiniteOf(done) : k \in FiniteOf(more) /\ more[k] = done[k] /\ k \in 1..n /\ done[k].loss \in Fraction
  BY <1>1, <1>2 DEF FiniteOf, Finite, Loss
<1> HIDE DEF more, n
<1>5. CASE LessLoss(x, b.loss)
  <2>1. kept.w = v /\ kept.loss = x /\ Finite(x) /\ x \in Fraction
    BY <1>5 DEF LessLoss, Finite, Loss
  <2>2. n + 1 \in FiniteOf(more)
    BY <1>1, <2>1 DEF FiniteOf
  <2>3. ASSUME NEW k \in FiniteOf(done) PROVE Less(x, done[k].loss)
    <3>1. PICK e \in FiniteOf(done) : b.loss = done[e].loss /\ ~Less(done[k].loss, done[e].loss)
      BY DEF BestOf
    <3>2. Less(x, b.loss)
      BY <1>5, <3>1 DEF LessLoss, FiniteOf
    <3> QED
      BY <1>4, <2>1, <3>1, <3>2, LessThenNotLess
  <2>4. \A k \in FiniteOf(more) : ~Less(more[k].loss, x)
    BY <1>1, <1>3, <1>4, <2>1, <2>3, LessIsStrict
  <2>5. \A k \in FiniteOf(more) : k < n + 1 => Less(x, more[k].loss)
    BY <1>1, <1>3, <1>4, <2>3
  <2> QED
    BY <1>1, <2>1, <2>2, <2>4, <2>5 DEF BestOf, more
<1>6. CASE ~LessLoss(x, b.loss)
  <2>1. kept = b
    BY <1>6
  <2>2. CASE FiniteOf(done) = {} /\ b.w = Zero /\ ~Finite(b.loss)
    <3>1. ~Finite(x)
      BY <1>6, <2>2 DEF LessLoss
    <3>2. FiniteOf(more) = {}
      BY <1>1, <1>3, <2>2, <3>1 DEF FiniteOf
    <3> QED
      BY <2>1, <2>2, <3>2 DEF BestOf, more
  <2>3. ASSUME NEW e \in FiniteOf(done), b.w = done[e].w, b.loss = done[e].loss,
               \A k \in FiniteOf(done) : ~Less(done[k].loss, done[e].loss),
               \A k \in FiniteOf(done) : k < e => Less(done[e].loss, done[k].loss)
        PROVE  BestOf(more, b.w, b.loss)
    <3>1. e \in FiniteOf(more) /\ more[e] = done[e] /\ e \in 1..n /\ Finite(b.loss)
      BY <1>4, <2>3 DEF FiniteOf
    <3>2. n + 1 \in FiniteOf(more) => ~Less(more[n + 1].loss, b.loss)
      BY <1>1, <1>6, <3>1 DEF FiniteOf, LessLoss
    <3>3. \A k \in FiniteOf(more) : ~Less(more[k].loss, more[e].loss)
      BY <1>3, <1>4, <2>3, <3>1, <3>2
    <3>4. \A k \in FiniteOf(more) : k < e => Less(more[e].loss, more[k].loss)
      BY <1>1, <1>3, <1>4, <2>3, <3>1
    <3> QED
      BY <2>3, <3>1, <3>3, <3>4 DEF BestOf
  <2> QED
    BY <2>1, <2>2, <2>3 DEF BestOf, more
<1> QED
  BY <1>5, <1>6
(* Places that are less than a round apart are different.                  *)
LEMMA RoundsOfPlaces ==
  ASSUME NEW m \in Nat \ {0}, NEW a \in Nat
  PROVE  /\ a % m \in 0..(m - 1)
         /\ (a + m) % m = a % m
         /\ \A d \in 1..(m - 1) : (a + d) % m # a % m
<1>1. PICK q \in Int, r \in 0..(m - 1) : r = a % m /\ a = m * q + r
  BY Remainder
<1>2. PICK p \in Int : p = q + 1
  OBVIOUS
<1>3. m * p = m * q + m /\ m * q \in Int /\ m * p \in Int
  <2>1. m * (q + 1) = m * q + m
    OBVIOUS
  <2> QED
    BY <1>2, <2>1
<1>4. (a + m) % m = r
  <2>1. a + m = m * p + r /\ m * p + r \in Nat
    BY <1>1, <1>3
  <2>2. (m * p + r) % m = r
    BY <1>1, <2>1, RemainderIs
  <2> QED
    BY <2>1, <2>2
<1>5. ASSUME NEW d \in 1..(m - 1) PROVE (a + d) % m # r
  <2>1. CASE r + d < m
    <3>1. a + d = m * q + (r + d) /\ m * q + (r + d) \in Nat /\ r + d \in 0..(m - 1)
      BY <1>1, <1>3, <2>1
    <3>2. (m * q + (r + d)) % m = r + d
      BY <1>1, <3>1, RemainderIs
    <3> QED
      BY <1>1, <3>1, <3>2
  <2>2. CASE r + d >= m
    <3> DEFINE s == (r + d) - m
    <3>1. s \in 0..(m - 1) /\ s # r
      BY <1>1, <2>2
    <3>2. a + d = m * p + s /\ m * p + s \in Nat
      BY <1>1, <1>3, <2>2
    <3> HIDE DEF s
    <3>3. (m * p + s) % m = s
      BY <3>1, <3>2, RemainderIs
    <3> QED
      BY <3>1, <3>2, <3>3
  <2> QED
    BY <1>1, <2>1, <2>2
<1> QED
  BY <1>1, <1>4, <1>5

(* The losses of the last epochs.                                           *)
PastOf(done, past, period) ==
  /\ past \in [0..(period - 1) -> Loss]
  /\ \A e \in 1..Len(done) : Len(done) < e + period => past[(e - 1) % period] = done[e].loss

LEMMA PastGoesOn ==
  ASSUME NEW done \in Epochs, NEW period \in Nat \ {0}, NEW past, PastOf(done, past, period),
         NEW v \in Numbers, NEW x \in Loss
  PROVE  PastOf(Append(done, [loss |-> x, w |-> v]), [past EXCEPT ![Len(done) % period] = x], period)
<1> DEFINE n == Len(done)
           more == Append(done, [loss |-> x, w |-> v])
           new == [past EXCEPT ![n % period] = x]
<1>1. n \in Nat /\ Len(more) = n + 1 /\ more[n + 1].loss = x /\ \A k \in 1..n : more[k] = done[k]
  BY DEF Epochs
<1>2. n % period \in 0..(period - 1)
  BY <1>1, RoundsOfPlaces
<1>3. new \in [0..(period - 1) -> Loss] /\ new[n % period] = x
      /\ \A k \in 0..(period - 1) : k # n % period => new[k] = past[k]
  BY <1>2 DEF PastOf
<1> HIDE DEF new, more, n
<1>4. ASSUME NEW e \in 1..(n + 1), n + 1 < e + period PROVE new[(e - 1) % period] = more[e].loss
  <2>1. CASE e = n + 1
    <3>1. e - 1 = n
      BY <1>1, <2>1
    <3> QED
      BY <1>1, <1>3, <2>1, <3>1
  <2>2. CASE e # n + 1
    <3>1. e \in 1..n /\ e - 1 \in Nat /\ n - (e - 1) \in 1..(period - 1) /\ (e - 1) + (n - (e - 1)) = n /\ n < e + period
      BY <1>1, <1>4, <2>2
    <3>2. n % period # (e - 1) % period /\ (e - 1) % period \in 0..(period - 1)
      BY <3>1, RoundsOfPlaces
    <3>3. past[(e - 1) % period] = done[e].loss
      BY <3>1 DEF PastOf, n
    <3> QED
      BY <1>1, <1>3, <3>1, <3>2, <3>3
  <2> QED
    BY <2>1, <2>2
<1>5. PastOf(more, new, period)
  BY <1>1, <1>3, <1>4 DEF PastOf
<1> QED
  BY <1>5 DEF new, more, n

EpochsKept ==
  /\ epochs \in Epochs /\ sgdEpoch = Len(epochs) + 1 /\ (run.calibration => epochs = << >>)
  /\ BestOf(epochs, best.w, best.loss) /\ PastOf(epochs, pf, sgd.period)

BestInv ==
  /\ TrialsKept
  /\ stage = "l2sgd" => EpochsKept
  /\ stage = "returned" => BestOf(epochs, weight, sum)

(* The epochs that are kept, at the start of a call and when one ends.     *)
LEMMA CallStartsEpochs ==
  ASSUME sgd \in SgdOptions, NEW k, NEW m, NEW b, NEW r, Call(k, m, b, r), sgd' = sgd
  PROVE  EpochsKept'
<1>1. epochs' = << >> /\ Len(epochs') = 0 /\ epochs' \in Epochs
  BY DEF Call, Epochs
<1>2. sgdEpoch' = Len(epochs') + 1
  BY <1>1 DEF Call
<1>3. FiniteOf(epochs') = {}
  BY <1>1 DEF FiniteOf
<1>4. BestOf(epochs', best'.w, best'.loss)
  BY <1>3 DEF BestOf, Call, Finite
<1>5. PastOf(epochs', pf', sgd.period)
  BY <1>1, ConstantNumbers DEF PastOf, Call
<1> QED
  BY <1>1, <1>2, <1>4, <1>5 DEF EpochsKept

(* An epoch that ends is kept among the epochs before it.                  *)
LEMMA EpochIsKept ==
  ASSUME SgdInv, BestInv, SgdEpochEnds
  PROVE  BestInv'
<1>1. SgdTypeOK /\ FactorKept /\ EpochsKept
  BY DEF SgdInv, SgdEpochEnds, BestInv
<1>2. PICK total \in Loss : Ended(plain, total)
  BY EpochIsEnded
<1>3. plain \in Numbers /\ best \in [w : Numbers, loss : Loss] /\ sgd \in SgdOptions
  BY <1>1 DEF FactorKept, SgdTypeOK
<1>4. UNCHANGED <<sgd, trial, trials, run>> /\ sgdEpoch' = sgdEpoch + 1
  BY DEF SgdEpochEnds
<1>5. TrialsKept'
  BY <1>4 DEF BestInv, TrialsKept, OnLadder, BestRate
<1>6. CASE run.calibration
  <2>1. stage' = "tried"
    BY <1>2, <1>6 DEF Ended
  <2> QED
    BY <1>5, <2>1 DEF BestInv
<1>7. CASE ~run.calibration
  <2> DEFINE kept == Kept(plain, total)
             ends == Stalled(total) \/ sgdEpoch = run.num_epochs
  <2>1. /\ epochs' = Append(epochs, [loss |-> total, w |-> plain])
        /\ best' = kept /\ weight' = (IF ends THEN kept.w ELSE plain)
        /\ pf' = [pf EXCEPT ![(sgdEpoch - 1) % sgd.period] = total]
        /\ sum' = (IF ends THEN kept.loss ELSE Zero)
        /\ stage' = IF ends THEN "returned" ELSE "l2sgd"
    BY <1>2, <1>7 DEF Ended
  <2>2. kept = IF LessLoss(total, best.loss) THEN [w |-> plain, loss |-> total] ELSE best
    BY DEF Kept
  <2> HIDE DEF kept, ends
  <2>3. epochs \in Epochs /\ BestOf(epochs, best.w, best.loss) /\ PastOf(epochs, pf, sgd.period)
        /\ sgdEpoch - 1 = Len(epochs) /\ sgdEpoch = Len(epochs) + 1 /\ sgd.period \in Nat \ {0}
    BY <1>1, <1>3, OptionsOfSgd DEF EpochsKept, Epochs
  <2>4. BestOf(epochs', kept.w, kept.loss)
    BY <1>3, <2>1, <2>2, <2>3, KeptIsBest
  <2>5. PastOf(epochs', pf', sgd.period)
    BY <1>3, <2>1, <2>3, PastGoesOn
  <2>6. epochs' \in Epochs /\ sgdEpoch' = Len(epochs') + 1
    <3>1. [loss |-> total, w |-> plain] \in [loss : Loss, w : Numbers]
      BY <1>3
    <3> QED
      BY <1>4, <2>1, <2>3, <3>1 DEF Epochs
  <2>7. EpochsKept'
    BY <1>4, <1>7, <2>1, <2>4, <2>5, <2>6 DEF EpochsKept
  <2>8. stage' = "returned" => BestOf(epochs', weight', sum')
    BY <2>1, <2>4
  <2> QED
    BY <1>5, <2>7, <2>8 DEF BestInv
<1> QED
  BY <1>6, <1>7

(* Every step keeps the best rate and the best epoch.                      *)
LEMMA BestStaysKept == SgdInv /\ BestInv /\ [SgdNext]_sgdVars => BestInv'
<1> SUFFICES ASSUME SgdInv, BestInv, [SgdNext]_sgdVars PROVE BestInv'
  OBVIOUS
<1>1. SgdTypeOK /\ sgd \in SgdOptions /\ trial \in TrialRecord /\ TrialsKept
  BY DEF SgdInv, SgdTypeOK, BestInv
<1>2. CASE Calibrate
  <2>1. PICK x : trial' = [trial EXCEPT !.init_loss = x]
    BY <1>2 DEF Calibrate
  <2>2. trial'.eta = trial.eta /\ trial'.dec = trial.dec /\ trial'.best_eta = trial.best_eta
        /\ trial'.best_loss = trial.best_loss
    BY <1>1, <2>1 DEF TrialRecord
  <2>3. UNCHANGED <<sgd, trials>> /\ stage' = "calibrate"
    BY <1>2 DEF Calibrate
  <2>4. TrialsKept'
    BY <1>1, <2>2, <2>3 DEF TrialsKept, OnLadder, BestRate
  <2> QED
    BY <2>3, <2>4 DEF BestInv
<1>3. ASSUME UNCHANGED <<sgd, trial, trials>> PROVE TrialsKept'
  BY <1>1, <1>3 DEF TrialsKept, OnLadder, BestRate
<1>4. CASE Trial
  <2>1. EpochsKept'
    BY <1>1, <1>4, CallStartsEpochs DEF Trial
  <2> QED
    BY <1>3, <1>4, <2>1 DEF BestInv, Trial
<1>5. CASE Descend
  <2>1. EpochsKept'
    BY <1>1, <1>5, CallStartsEpochs DEF Descend
  <2> QED
    BY <1>3, <1>5, <2>1 DEF BestInv, Descend
<1>6. CASE TrialEnds
  <2>1. TrialsKept'
    BY <1>1, <1>6, TrialClimbs, TrialIsBest DEF TrialsKept
  <2> QED
    BY <1>6, <2>1 DEF BestInv, TrialEnds
<1>7. CASE SgdInstance
  <2>1. EpochsKept'
    BY <1>7 DEF SgdInstance, BestInv, EpochsKept
  <2> QED
    BY <1>3, <1>7, <2>1 DEF BestInv, SgdInstance
<1>8. CASE FactorVanishes \/ SgdOverflow
  <2>1. stage' \notin {"l2sgd", "returned"} /\ UNCHANGED <<sgd, trial, trials>>
    BY <1>8 DEF FactorVanishes, SgdOverflow
  <2> QED
    BY <1>3, <2>1 DEF BestInv
<1>9. CASE SgdEpochEnds
  BY <1>9, EpochIsKept
<1>10. CASE UNCHANGED sgdVars
  <2>1. EpochsKept <=> EpochsKept'
    BY <1>10 DEF EpochsKept, sgdVars
  <2> QED
    BY <1>3, <1>10, <2>1 DEF BestInv, sgdVars
<1> QED
  BY <1>2, <1>4, <1>5, <1>6, <1>7, <1>8, <1>9, <1>10 DEF SgdNext

(* What the property says follows.                                         *)
LEMMA BestIsMeant == SgdInv /\ BestInv => BestIsKept
<1> SUFFICES ASSUME SgdInv, BestInv PROVE BestIsKept
  OBVIOUS
<1>1. sgd \in SgdOptions /\ OnLadder /\ BestRate /\ trials \in Seq([eta : Rates, loss : Loss])
  BY DEF SgdInv, SgdTypeOK, BestInv, TrialsKept, OnLadder
<1>2. stage = "returned" =>
       \/ FiniteEpochs = {} /\ weight = Zero /\ ~Finite(sum)
       \/ \E e \in FiniteEpochs :
            /\ weight = epochs[e].w /\ sum = epochs[e].loss
            /\ \A k \in FiniteEpochs : ~Less(epochs[k].loss, epochs[e].loss)
            /\ \A k \in FiniteEpochs : k < e => Less(epochs[e].loss, epochs[k].loss)
  BY DEF BestInv, BestOf, FiniteEpochs, FiniteOf
<1>3. ASSUME stage = "l2sgd", sgd.period < sgdEpoch
      PROVE  pf[(sgdEpoch - 1) % sgd.period] = epochs[sgdEpoch - sgd.period].loss
  <2>1. EpochsKept /\ sgd.period \in Nat \ {0}
    BY <1>1, <1>3, OptionsOfSgd DEF BestInv
  <2>2. Len(epochs) \in Nat /\ sgdEpoch = Len(epochs) + 1 /\ PastOf(epochs, pf, sgd.period)
    BY <2>1 DEF EpochsKept, Epochs
  <2> DEFINE e == sgdEpoch - sgd.period
  <2>3. e \in 1..Len(epochs) /\ Len(epochs) < e + sgd.period /\ e - 1 \in Nat /\ (e - 1) + sgd.period = sgdEpoch - 1
    BY <1>3, <2>1, <2>2
  <2> HIDE DEF e
  <2>4. (sgdEpoch - 1) % sgd.period = (e - 1) % sgd.period
    <3>1. ((e - 1) + sgd.period) % sgd.period = (e - 1) % sgd.period
      BY <2>1, <2>3, RoundsOfPlaces
    <3> QED
      BY <2>3, <3>1
  <2>5. pf[(e - 1) % sgd.period] = epochs[e].loss
    BY <2>2, <2>3 DEF PastOf
  <2> QED
    BY <2>4, <2>5 DEF e
<1>4. ASSUME NEW k \in DOMAIN trials, NEW m \in DOMAIN trials
      PROVE  /\ k # m => trials[k].eta # trials[m].eta
             /\ Less(trials[k].eta, trials[m].eta) =>
                  \E i \in DOMAIN trials : trials[i].eta = Times(trials[k].eta, sgd.calibration_rate)
  <2> DEFINE n == Len(trials) + 1
  <2>1. PICK f, top : /\ Ladder(f, n, top, sgd.calibration_rate)
                      /\ \A i \in 1..Len(trials) : trials[i].eta = f[i]
    BY <1>1 DEF OnLadder
  <2>2. DOMAIN trials = 1..Len(trials) /\ n - 1 = Len(trials) /\ Len(trials) \in Nat
    BY <1>1
  <2>3. sgd.calibration_rate \in Rates /\ k \in 1..(n - 1) /\ m \in 1..(n - 1)
    BY <1>1, <2>2, OptionsOfSgd
  <2> HIDE DEF n
  <2>4. /\ k # m => f[k] # f[m]
        /\ Less(f[k], f[m]) => \E i \in 1..(n - 1) : f[i] = Times(f[k], sgd.calibration_rate)
    BY <2>1, <2>3, LadderMeans
  <2> QED
    BY <2>1, <2>2, <2>3, <2>4
<1>5. stage = "calibrate" =>
       /\ \A k \in DOMAIN trials : ~LessLoss(trials[k].loss, trial.best_loss)
       /\ \/ \E k \in DOMAIN trials : trials[k] = [eta |-> trial.best_eta, loss |-> trial.best_loss]
          \/ trial.best_eta = sgd.calibration_eta /\ ~Finite(trial.best_loss)
  BY <1>1 DEF BestRate
<1> QED
  BY <1>2, <1>3, <1>4, <1>5 DEF BestIsKept

(* The calibration of l2sgd tries no rate twice, leaves with the best rate *)
(* it tried, and the training returns the weights and the loss of the      *)
(* first of its best epochs, whatever the losses are.                      *)
THEOREM BestKept == SgdSpec => []BestIsKept
<1>1. SgdInit => SgdInv /\ BestInv
  <2>1. SgdInit => stage = "start"
    BY DEF SgdInit
  <2> QED
    BY <2>1, SgdBegins, TrialsBegin DEF BestInv
<1>2. SgdInv /\ BestInv /\ [SgdNext]_sgdVars => (SgdInv /\ BestInv)'
  BY SgdKeeps, BestStaysKept
<1>3. SgdInv /\ BestInv => BestIsKept
  BY BestIsMeant
<1> QED
  BY <1>1, <1>2, <1>3, PTL DEF SgdSpec
=============================================================================
