----------------------------- MODULE OnlineProofs -----------------------------
(***************************************************************************)
(* Proofs about OnlineTrainers, for any data, features and settings: the    *)
(* weights that are returned are the mean of all there were, since ws has   *)
(* each change with the number of vectors before it, and an update leaves   *)
(* of the loss of its instance what the algorithm promises, since the       *)
(* features that the callbacks collect are the difference of the two paths, *)
(* each counted once, and its score moves by tau times its square.          *)
(***************************************************************************)
EXTENDS OnlineTrainers, Lemmas

-----------------------------------------------------------------------------
(* The features on a path.                                                  *)
Pairs == Fids \X Int
PartOf(hit, k) == IF hit[1] = k THEN hit[2] ELSE 0

HitsOn(s, hits, k) == s = [h \in 0 .. Len(hits) |->
                             IF h = 0 THEN 0 ELSE s[h - 1] + (IF hits[h][1] = k THEN hits[h][2] ELSE 0)]

LEMMA HitsAreChosen ==
  ASSUME NEW hits, NEW k
  PROVE  SumOfHits(hits, k) = (CHOOSE s : HitsOn(s, hits, k))[Len(hits)]
BY DEF SumOfHits, HitsOn

(* The same, place by place.                                                *)
HitsUp(s, hits, k) == s[0] = 0 /\ \A h \in 1 .. Len(hits) : s[h] = s[h - 1] + PartOf(hits[h], k)

LEMMA PartIsWhole ==
  ASSUME NEW hits \in Seq(Pairs), NEW h \in 1 .. Len(hits), NEW k
  PROVE  PartOf(hits[h], k) \in Int
<1>1. hits[h] \in Pairs
  OBVIOUS
<1>2. hits[h][2] \in Int
  BY <1>1 DEF Pairs
<1> QED
  BY <1>2 DEF PartOf

LEMMA HitsHave ==
  ASSUME NEW hits \in Seq(Pairs), NEW k
  PROVE  \E s \in [0 .. Len(hits) -> Int] : HitsUp(s, hits, k) /\ SumOfHits(hits, k) = s[Len(hits)]
<1> DEFINE m == Len(hits)
           part == [h \in 1 .. m |-> PartOf(hits[h], k)]
           step == [z \in Int \X (1 .. m) |-> z[1] + part[z[2]]]
<1>1. m \in Nat
  OBVIOUS
<1>2. part \in [1 .. m -> Int] /\ \A h \in 1 .. m : part[h] = PartOf(hits[h], k)
  BY PartIsWhole
<1> HIDE DEF part
<1>3. /\ step \in [Int \X (1 .. m) -> Int]
      /\ \A x \in Int, h \in 1 .. m : step[x, h] = x + part[h]
  <2>1. ASSUME NEW x \in Int, NEW h \in 1 .. m PROVE x + part[h] \in Int /\ step[x, h] = x + part[h]
    <3>1. part[h] \in Int
      BY <1>2
    <3>2. x + part[h] \in Int
      BY <3>1
    <3>3. PICK z : z = << x, h >>
      OBVIOUS
    <3>4. z \in Int \X (1 .. m) /\ z[1] = x /\ z[2] = h
      BY <3>3
    <3>5. step[z] = z[1] + part[z[2]]
      BY <3>4
    <3> HIDE DEF step
    <3> QED
      BY <3>2, <3>3, <3>4, <3>5
  <2>2. \A z \in Int \X (1 .. m) : z[1] \in Int /\ z[2] \in 1 .. m
    OBVIOUS
  <2>3. \A z \in Int \X (1 .. m) : z[1] + part[z[2]] \in Int
    BY <2>1, <2>2
  <2> QED
    BY <2>1, <2>3
<1> HIDE DEF step, m
<1>4. PICK s \in [0 .. m -> Int] : Recurs(s, m, 0, step)
  <2>1. PICK X, base : base \in X /\ X = Int /\ base = 0
    OBVIOUS
  <2>2. step \in [X \X (1 .. m) -> X]
    BY <1>3, <2>1
  <2>3. \E s \in [0 .. m -> X] : Recurs(s, m, base, step)
    BY <1>1, <2>1, <2>2, Recursion
  <2> QED
    BY <2>1, <2>3
<1> DEFINE next == [h \in 0 .. m |->
                      IF h = 0 THEN 0 ELSE s[h - 1] + (IF hits[h][1] = k THEN hits[h][2] ELSE 0)]
<1>5. ASSUME NEW h \in 0 .. m PROVE s[h] = next[h]
  <2>1. CASE h = 0
    BY <1>4, <2>1 DEF Recurs
  <2>2. CASE h # 0
    <3>1. h \in 1 .. m /\ h - 1 \in 0 .. m
      BY <1>1, <2>2
    <3>2. s[h] = step[s[h - 1], h] /\ s[h - 1] \in Int
      BY <1>4, <3>1 DEF Recurs
    <3>3. s[h] = s[h - 1] + PartOf(hits[h], k)
      BY <1>2, <1>3, <3>1, <3>2
    <3> QED
      BY <2>2, <3>3 DEF PartOf
  <2> QED
    BY <2>1, <2>2
<1>6. s = [h \in 0 .. m |-> s[h]] /\ next = [h \in 0 .. m |-> next[h]]
  OBVIOUS
<1>7. s = next
  <2> HIDE DEF next
  <2> QED
    BY <1>5, <1>6
<1>8. HitsOn(s, hits, k)
  BY <1>7 DEF HitsOn, m
<1>9. PICK f : f = (CHOOSE r : HitsOn(r, hits, k))
  OBVIOUS
<1>10. HitsOn(f, hits, k)
  BY <1>8, <1>9
<1>11. f = [h \in 0 .. m |-> IF h = 0 THEN 0 ELSE f[h - 1] + (IF hits[h][1] = k THEN hits[h][2] ELSE 0)]
  BY <1>10 DEF HitsOn, m
<1> HIDE DEF next
<1>12. f[0] = 0 /\ \A h \in 1 .. m : f[h] = f[h - 1] + PartOf(hits[h], k)
  <2>1. ASSUME NEW h \in 0 .. m
        PROVE  f[h] = IF h = 0 THEN 0 ELSE f[h - 1] + (IF hits[h][1] = k THEN hits[h][2] ELSE 0)
    BY <1>11
  <2>2. 0 \in 0 .. m /\ \A h \in 1 .. m : h \in 0 .. m /\ h # 0
    BY <1>1
  <2> QED
    BY <2>1, <2>2 DEF PartOf
<1> DEFINE T == { h \in 0 .. m : f[h] \in Int }
<1>13. 0 \in T
  BY <1>1, <1>12
<1>14. ASSUME NEW h \in 0 .. (m - 1), h \in T PROVE h + 1 \in T
  <2>1. h + 1 \in 1 .. m /\ h + 1 \in 0 .. m /\ (h + 1) - 1 = h
    BY <1>1
  <2>2. f[h] \in Int /\ PartOf(hits[h + 1], k) \in Int
    BY <1>14, <2>1, PartIsWhole DEF m
  <2>3. f[h + 1] = f[h] + PartOf(hits[h + 1], k)
    BY <1>12, <2>1
  <2> QED
    BY <2>1, <2>2, <2>3
<1> HIDE DEF T
<1>15. 0 .. m \subseteq T
  BY <1>1, <1>13, <1>14, IntervalInduction
<1>16. f \in [0 .. m -> Int]
  BY <1>11, <1>15 DEF T
<1>17. SumOfHits(hits, k) = f[m]
  BY <1>9, HitsAreChosen DEF m
<1> QED
  BY <1>12, <1>16, <1>17 DEF HitsUp, m

LEMMA HitsAreWhole ==
  ASSUME NEW hits \in Seq(Pairs), NEW k
  PROVE  SumOfHits(hits, k) \in Int
<1>1. PICK s \in [0 .. Len(hits) -> Int] : SumOfHits(hits, k) = s[Len(hits)]
  BY HitsHave
<1>2. Len(hits) \in 0 .. Len(hits)
  OBVIOUS
<1> QED
  BY <1>1, <1>2

(* A feature that is not hit.                                               *)
LEMMA NoHits ==
  ASSUME NEW hits \in Seq(Pairs), NEW k, \A h \in 1 .. Len(hits) : hits[h][1] # k
  PROVE  SumOfHits(hits, k) = 0
<1> DEFINE m == Len(hits)
<1>1. PICK s \in [0 .. m -> Int] : HitsUp(s, hits, k) /\ SumOfHits(hits, k) = s[m]
  BY HitsHave
<1> DEFINE S == { h \in 0 .. m : s[h] = 0 }
<1>2. m \in Nat
  OBVIOUS
<1>3. \A h \in 1 .. m : s[h] = s[h - 1] + 0
  BY <1>1 DEF HitsUp, PartOf
<1>4. s[0] = 0
  BY <1>1 DEF HitsUp
<1> HIDE DEF m
<1>5. 0 \in S
  BY <1>2, <1>4
<1>6. ASSUME NEW h \in 0 .. (m - 1), h \in S PROVE h + 1 \in S
  <2>1. h + 1 \in 1 .. m /\ h + 1 \in 0 .. m /\ h \in 0 .. m /\ (h + 1) - 1 = h
    BY <1>2, NextIndex
  <2> QED
    BY <1>3, <1>6, <2>1
<1> HIDE DEF S
<1>7. 0 .. m \subseteq S
  BY <1>2, <1>5, <1>6, IntervalInduction
<1>8. s[m] = 0
  BY <1>2, <1>7, FirstPlace DEF S
<1> QED
  BY <1>1, <1>8

(* Hits of one row and of another with the opposite sign.                   *)
Opposite(hits) == [h \in DOMAIN hits |-> << hits[h][1], -hits[h][2] >>]

LEMMA OppositePairs ==
  ASSUME NEW hits \in Seq(Pairs)
  PROVE  /\ Opposite(hits) \in Seq(Pairs) /\ Len(Opposite(hits)) = Len(hits)
         /\ \A h \in 1 .. Len(hits) : /\ Opposite(hits)[h] = << hits[h][1], -hits[h][2] >>
                                      /\ hits[h][1] \in Fids /\ hits[h][2] \in Int
<1>1. DOMAIN hits = 1 .. Len(hits) /\ Len(hits) \in Nat
  OBVIOUS
<1>2. ASSUME NEW h \in 1 .. Len(hits) PROVE hits[h][1] \in Fids /\ hits[h][2] \in Int
  <2>1. hits[h] \in Pairs
    OBVIOUS
  <2> QED
    BY <2>1 DEF Pairs
<1>3. \A h \in 1 .. Len(hits) : << hits[h][1], -hits[h][2] >> \in Pairs
  BY <1>2 DEF Pairs
<1>4. Opposite(hits) \in [1 .. Len(hits) -> Pairs]
  BY <1>1, <1>3 DEF Opposite
<1>5. \A h \in 1 .. Len(hits) : Opposite(hits)[h] = << hits[h][1], -hits[h][2] >>
  BY <1>1 DEF Opposite
<1>6. Opposite(hits) \in Seq(Pairs) /\ Len(Opposite(hits)) = Len(hits)
  BY <1>1, <1>4, RowOf
<1> QED
  BY <1>2, <1>5, <1>6

LEMMA HitsOfOpposite ==
  ASSUME NEW hits \in Seq(Pairs), NEW k
  PROVE  SumOfHits(Opposite(hits), k) = -SumOfHits(hits, k)
<1> DEFINE m == Len(hits)
<1>1. PICK back : back = Opposite(hits)
  OBVIOUS
<1>2. /\ back \in Seq(Pairs) /\ Len(back) = m /\ m \in Nat
      /\ \A h \in 1 .. m : /\ back[h] = << hits[h][1], -hits[h][2] >>
                           /\ hits[h][1] \in Fids /\ hits[h][2] \in Int
  BY <1>1, OppositePairs
<1>3. PICK s \in [0 .. m -> Int] : HitsUp(s, hits, k) /\ SumOfHits(hits, k) = s[m]
  BY HitsHave
<1>4. PICK t \in [0 .. m -> Int] : HitsUp(t, back, k) /\ SumOfHits(back, k) = t[m]
  BY <1>2, HitsHave
<1> DEFINE S == { h \in 0 .. m : t[h] = -s[h] }
<1>5. s[0] = 0 /\ t[0] = 0
  BY <1>3, <1>4 DEF HitsUp
<1>6. \A h \in 1 .. m : s[h] = s[h - 1] + PartOf(hits[h], k) /\ t[h] = t[h - 1] + PartOf(back[h], k)
  BY <1>2, <1>3, <1>4 DEF HitsUp
<1>7. \A h \in 1 .. m : PartOf(hits[h], k) \in Int /\ PartOf(back[h], k) = -PartOf(hits[h], k)
  BY <1>2 DEF PartOf
<1> HIDE DEF m
<1>8. 0 \in S
  BY <1>2, <1>5, FirstPlace
<1>9. ASSUME NEW h \in 0 .. (m - 1), h \in S PROVE h + 1 \in S
  <2>1. h + 1 \in 1 .. m /\ h + 1 \in 0 .. m /\ h \in 0 .. m /\ (h + 1) - 1 = h
    BY <1>2, NextIndex
  <2>2. s[h] \in Int /\ t[h] = -s[h]
    BY <1>9, <2>1
  <2>3. s[h + 1] = s[h] + PartOf(hits[h + 1], k) /\ t[h + 1] = t[h] + PartOf(back[h + 1], k)
    BY <1>6, <2>1
  <2>4. PartOf(hits[h + 1], k) \in Int /\ PartOf(back[h + 1], k) = -PartOf(hits[h + 1], k)
    BY <1>7, <2>1
  <2>5. t[h + 1] = -s[h + 1]
    BY <2>2, <2>3, <2>4
  <2> QED
    BY <2>1, <2>5
<1> HIDE DEF S
<1>10. 0 .. m \subseteq S
  BY <1>2, <1>8, <1>9, IntervalInduction
<1>11. t[m] = -s[m]
  BY <1>2, <1>10, FirstPlace DEF S
<1> QED
  BY <1>1, <1>3, <1>4, <1>11

LEMMA HitsOfBoth ==
  ASSUME NEW right \in Seq(Pairs), NEW wrong \in Seq(Pairs), NEW k
  PROVE  /\ right \o wrong \in Seq(Pairs)
         /\ SumOfHits(right \o wrong, k) = SumOfHits(right, k) + SumOfHits(wrong, k)
<1> DEFINE m == Len(right)
           l == Len(wrong)
<1>1. PICK both : both = right \o wrong
  OBVIOUS
<1>2. m \in Nat /\ l \in Nat
  OBVIOUS
<1>3. /\ both \in Seq(Pairs) /\ Len(both) = m + l
      /\ \A h \in 1 .. (m + l) : both[h] = IF h <= m THEN right[h] ELSE wrong[h - m]
  BY <1>1, ConcatProperties
<1>4. PICK s \in [0 .. m -> Int] : HitsUp(s, right, k) /\ SumOfHits(right, k) = s[m]
  BY HitsHave
<1>5. PICK t \in [0 .. l -> Int] : HitsUp(t, wrong, k) /\ SumOfHits(wrong, k) = t[l]
  BY HitsHave
<1>6. PICK r \in [0 .. (m + l) -> Int] : HitsUp(r, both, k) /\ SumOfHits(both, k) = r[m + l]
  BY <1>3, HitsHave
<1> DEFINE S == { h \in 0 .. m : r[h] = s[h] }
           T == { h \in 0 .. l : r[m + h] = s[m] + t[h] }
<1>7. s[0] = 0 /\ t[0] = 0 /\ r[0] = 0
  BY <1>4, <1>5, <1>6 DEF HitsUp
<1>8. /\ \A h \in 1 .. m : s[h] = s[h - 1] + PartOf(right[h], k)
      /\ \A h \in 1 .. l : t[h] = t[h - 1] + PartOf(wrong[h], k)
      /\ \A h \in 1 .. (m + l) : r[h] = r[h - 1] + PartOf(both[h], k)
  BY <1>3, <1>4, <1>5, <1>6 DEF HitsUp
<1>9. \A h \in 1 .. l : PartOf(wrong[h], k) \in Int
  BY PartIsWhole
<1> HIDE DEF m, l
<1>10. 0 \in S
  BY <1>2, <1>7, FirstPlace
<1>11. ASSUME NEW h \in 0 .. (m - 1), h \in S PROVE h + 1 \in S
  <2>1. h + 1 \in 1 .. m /\ h + 1 \in 0 .. m /\ h \in 0 .. m /\ (h + 1) - 1 = h
    BY <1>2, NextIndex
  <2>2. h + 1 \in 1 .. (m + l) /\ h + 1 <= m
    BY <1>2, <2>1
  <2>3. both[h + 1] = right[h + 1] /\ r[h] = s[h]
    BY <1>3, <1>11, <2>2
  <2>4. r[h + 1] = r[h] + PartOf(both[h + 1], k) /\ s[h + 1] = s[h] + PartOf(right[h + 1], k)
    BY <1>8, <2>1, <2>2
  <2> QED
    BY <2>1, <2>3, <2>4
<1> HIDE DEF S
<1>12. 0 .. m \subseteq S
  BY <1>2, <1>10, <1>11, IntervalInduction
<1>13. r[m] = s[m] /\ s[m] \in Int
  BY <1>2, <1>12, FirstPlace DEF S
<1>14. 0 \in T
  BY <1>2, <1>7, <1>13, FirstPlace
<1>15. ASSUME NEW h \in 0 .. (l - 1), h \in T PROVE h + 1 \in T
  <2>1. h + 1 \in 1 .. l /\ h + 1 \in 0 .. l /\ h \in 0 .. l /\ (h + 1) - 1 = h
    BY <1>2, NextIndex
  <2>2. PICK j \in 1 .. (m + l) : j = m + (h + 1) /\ j - 1 = m + h /\ j - m = h + 1 /\ ~(j <= m)
    BY <1>2, <2>1
  <2>3. both[j] = wrong[h + 1]
    BY <1>3, <2>2
  <2>4. r[j] = r[m + h] + PartOf(wrong[h + 1], k)
    BY <1>8, <2>2, <2>3
  <2>5. t[h + 1] = t[h] + PartOf(wrong[h + 1], k)
    BY <1>8, <2>1
  <2>6. t[h] \in Int /\ PartOf(wrong[h + 1], k) \in Int /\ r[m + h] = s[m] + t[h]
    BY <1>9, <1>15, <2>1
  <2>7. r[m + (h + 1)] = s[m] + t[h + 1]
    BY <1>13, <2>2, <2>4, <2>5, <2>6, SMTT(30)
  <2> QED
    BY <2>1, <2>7
<1> HIDE DEF T
<1>16. 0 .. l \subseteq T
  BY <1>2, <1>14, <1>15, IntervalInduction
<1>17. r[m + l] = s[m] + t[l]
  BY <1>2, <1>16, FirstPlace DEF T
<1> QED
  BY <1>1, <1>3, <1>4, <1>5, <1>6, <1>17

(* What features_on_path calls func with.                                   *)
LEMMA FidsOf ==
  ASSUME NEW type, NEW src, NEW dst
  PROVE  Fid(type, src, dst) \in Seq(Fids)
<1>1. K \in Nat
  BY CrfFeaturesAssumption DEF K
<1>2. IsFiniteSet(Fids)
  BY <1>1, FS_Interval DEF Fids
<1> DEFINE S == { k \in Fids : Features[k] = [type |-> type, src |-> src, dst |-> dst] }
<1>3. IsFiniteSet(S)
  BY <1>2, FS_Subset
<1>4. SetToSeq(S) \in Seq(S)
  BY <1>3, SetAsSequence
<1>5. S \subseteq Fids
  OBVIOUS
<1> HIDE DEF S
<1>6. SetToSeq(S) \in Seq(Fids)
  BY <1>4, <1>5
<1> QED
  BY <1>6 DEF Fid, S

LEMMA HitsArePairs ==
  ASSUME NEW type, NEW src, NEW dst, NEW value \in Int
  PROVE  Hits(type, src, dst, value) \in Seq(Pairs)
<1>1. PICK fids \in Seq(Fids) : fids = Fid(type, src, dst)
  BY FidsOf
<1>2. DOMAIN fids = 1 .. Len(fids) /\ Len(fids) \in Nat
  OBVIOUS
<1>3. \A r \in 1 .. Len(fids) : << fids[r], value >> \in Pairs
  BY DEF Pairs
<1>4. [r \in DOMAIN fids |-> << fids[r], value >>] \in [1 .. Len(fids) -> Pairs]
  BY <1>2, <1>3
<1>5. PICK row : row = [r \in DOMAIN fids |-> << fids[r], value >>]
  OBVIOUS
<1>6. row \in Seq(Pairs)
  BY <1>2, <1>4, <1>5, RowOf
<1> QED
  BY <1>1, <1>5, <1>6 DEF Hits

PathsOf(in) == [DOMAIN in.labels -> LabelIds]

LEMMA PathPairs ==
  ASSUME NEW in, InstanceLike(in), NEW path \in PathsOf(in)
  PROVE  FeaturesOnPath(in, path) \in Seq(Pairs)
<1> DEFINE m == Len(in.labels)
<1>1. /\ in.items \in Seq(Seq([aid : 1 .. A, value : Int])) /\ in.labels \in Seq(1 .. L)
      /\ Len(in.items) = m /\ m \in Nat
  BY DEF InstanceLike
<1>2. DOMAIN in.labels = 1 .. m /\ DOMAIN in.items = 1 .. m /\ DOMAIN path = 1 .. m
  BY <1>1 DEF PathsOf
<1>3. ASSUME NEW t \in 1 .. m PROVE HitsOf(in, path, t) \in Seq(Pairs)
  <2>1. PICK item \in Seq([aid : 1 .. A, value : Int]) : item = in.items[t]
    BY <1>1, <1>2
  <2>2. DOMAIN item = 1 .. Len(item) /\ Len(item) \in Nat
    OBVIOUS
  <2>3. ASSUME NEW i \in 1 .. Len(item)
        PROVE  Hits("state", item[i].aid, path[t], item[i].value) \in Seq(Pairs)
    <3>1. item[i] \in [aid : 1 .. A, value : Int]
      BY ElementOfSeq
    <3>2. item[i].value \in Int
      BY <3>1
    <3> QED
      BY <3>2, HitsArePairs
  <2>4. PICK rows : rows = [i \in DOMAIN item |-> Hits("state", item[i].aid, path[t], item[i].value)]
    OBVIOUS
  <2>5. rows \in [1 .. Len(item) -> Seq(Pairs)]
    BY <2>2, <2>3, <2>4
  <2>6. rows \in Seq(Seq(Pairs))
    BY <2>2, <2>5, RowOf
  <2>7. FlattenSeq(rows) \in Seq(Pairs)
    BY <2>6, FlattenOfAll
  <2>8. PICK more : more = IF t = 1 THEN << >> ELSE Hits("trans", path[t - 1], path[t], 1)
    OBVIOUS
  <2>9. more \in Seq(Pairs)
    <3>1. 1 \in Int /\ << >> \in Seq(Pairs)
      OBVIOUS
    <3>2. Hits("trans", path[t - 1], path[t], 1) \in Seq(Pairs)
      BY <3>1, HitsArePairs
    <3> QED
      BY <2>8, <3>1, <3>2
  <2>10. FlattenSeq(rows) \o more \in Seq(Pairs)
    BY <2>7, <2>9, ConcatProperties
  <2> QED
    BY <2>1, <2>4, <2>8, <2>10 DEF HitsOf
<1>4. PICK rows : rows = [t \in DOMAIN path |-> HitsOf(in, path, t)]
  OBVIOUS
<1>5. rows \in [1 .. m -> Seq(Pairs)]
  BY <1>2, <1>3, <1>4
<1>6. rows \in Seq(Seq(Pairs))
  BY <1>1, <1>5, RowOf
<1>7. FlattenSeq(rows) \in Seq(Pairs)
  BY <1>6, FlattenOfAll
<1> QED
  BY <1>4, <1>7 DEF FeaturesOnPath

LEMMA FidsFinite == K \in Nat /\ Fids = 1 .. K /\ Len(Features) = K
BY CrfFeaturesAssumption DEF K, Fids

LEMMA LabelsArePath ==
  ASSUME NEW in, InstanceLike(in)
  PROVE  in.labels \in PathsOf(in) /\ DOMAIN in.labels = 1 .. Len(in.labels) /\ Len(in.labels) \in Nat \ {0}
<1>1. PICK s, X : s = in.labels /\ X = 1 .. L
  OBVIOUS
<1>2. s \in Seq(X) /\ Len(s) > 0
  BY <1>1 DEF InstanceLike
<1>3. s \in [1 .. Len(s) -> X] /\ DOMAIN s = 1 .. Len(s) /\ Len(s) \in Nat
  BY <1>2
<1> QED
  BY <1>1, <1>2, <1>3 DEF PathsOf, LabelIds

LEMMA VectorIsWhole ==
  ASSUME NEW in, InstanceLike(in), NEW path \in PathsOf(in)
  PROVE  /\ FeatureVector(in, path) \in [Fids -> Int]
         /\ \A k \in Fids : FeatureVector(in, path)[k] = SumOfHits(FeaturesOnPath(in, path), k)
<1>1. PICK hits \in Seq(Pairs) : hits = FeaturesOnPath(in, path)
  BY PathPairs
<1>2. \A k \in Fids : SumOfHits(hits, k) \in Int
  BY HitsAreWhole
<1>3. FeatureVector(in, path) = [k \in Fids |-> SumOfHits(hits, k)]
  BY <1>1 DEF FeatureVector
<1> QED
  BY <1>1, <1>2, <1>3

LEMMA DifferenceIsWhole ==
  ASSUME NEW in, InstanceLike(in), NEW path \in PathsOf(in)
  PROVE  /\ Difference(in, path) \in [Fids -> Int]
         /\ \A k \in Fids : Difference(in, path)[k] = FeatureVector(in, in.labels)[k] - FeatureVector(in, path)[k]
<1>1. PICK right \in [Fids -> Int], wrong \in [Fids -> Int] :
        right = FeatureVector(in, in.labels) /\ wrong = FeatureVector(in, path)
  BY VectorIsWhole, LabelsArePath
<1>2. Difference(in, path) = [k \in Fids |-> right[k] - wrong[k]]
  BY <1>1 DEF Difference
<1> QED
  BY <1>1, <1>2

(* What the callbacks collect is the difference of the two paths.           *)
LEMMA CollectedIsDifference ==
  ASSUME NEW in, InstanceLike(in), NEW path \in PathsOf(in)
  PROVE  /\ Collected(in, path) \in Seq(Pairs)
         /\ \A k \in Fids : SumOfHits(Collected(in, path), k) = Difference(in, path)[k]
<1>1. PICK right \in Seq(Pairs), wrong \in Seq(Pairs) :
        right = FeaturesOnPath(in, in.labels) /\ wrong = FeaturesOnPath(in, path)
  BY PathPairs, LabelsArePath
<1>2. PICK back \in Seq(Pairs) : back = Opposite(wrong)
  BY OppositePairs
<1>3. Collected(in, path) = right \o back
  BY <1>1, <1>2 DEF Collected, Opposite
<1>4. ASSUME NEW k \in Fids PROVE SumOfHits(right \o back, k) = Difference(in, path)[k]
  <2>1. SumOfHits(right \o back, k) = SumOfHits(right, k) + SumOfHits(back, k)
    BY HitsOfBoth
  <2>2. SumOfHits(back, k) = -SumOfHits(wrong, k)
    BY <1>2, HitsOfOpposite
  <2>3. SumOfHits(right, k) \in Int /\ SumOfHits(wrong, k) \in Int
    BY HitsAreWhole
  <2>4. Difference(in, path)[k] = SumOfHits(right, k) - SumOfHits(wrong, k)
    BY <1>1, VectorIsWhole, DifferenceIsWhole, LabelsArePath
  <2> QED
    BY <2>1, <2>2, <2>3, <2>4
<1>5. right \o back \in Seq(Pairs)
  BY HitsOfBoth
<1> QED
  BY <1>3, <1>4, <1>5

-----------------------------------------------------------------------------
(* delta_t.                                                                 *)
KeptOn(s, fids) == s = [i \in 0 .. Len(fids) |->
                          IF i = 0 THEN << >>
                          ELSE IF fids[i] \in ToSet(s[i - 1]) THEN s[i - 1] ELSE Append(s[i - 1], fids[i])]

LEMMA CollapsedIsChosen ==
  ASSUME NEW fids
  PROVE  Collapsed(fids) = (CHOOSE s : KeptOn(s, fids))[Len(fids)]
BY DEF Collapsed, KeptOn

(* One more of them.                                                        *)
OneMore(s, x) == IF x \in ToSet(s) THEN s ELSE Append(s, x)

LEMMA OneMoreOf ==
  ASSUME NEW s \in Seq(Fids), NEW x \in Fids
  PROVE  /\ OneMore(s, x) \in Seq(Fids) /\ ToSet(OneMore(s, x)) = ToSet(s) \union {x}
         /\ EachOnce(s, Len(s)) => EachOnce(OneMore(s, x), Len(OneMore(s, x)))
<1>1. CASE x \in ToSet(s)
  BY <1>1 DEF OneMore
<1>2. CASE x \notin ToSet(s)
  <2>1. PICK t : t = Append(s, x)
    OBVIOUS
  <2>2. /\ t \in Seq(Fids) /\ Len(t) = Len(s) + 1 /\ t[Len(s) + 1] = x
        /\ \A i \in 1 .. Len(s) : t[i] = s[i]
    BY <2>1, AppendProperties
  <2>3. Len(s) \in Nat /\ DOMAIN s = 1 .. Len(s) /\ DOMAIN t = 1 .. (Len(s) + 1)
    BY <2>2
  <2>4. OneMore(s, x) = t
    BY <1>2, <2>1 DEF OneMore
  <2>5. \A i \in 1 .. (Len(s) + 1) : i \in 1 .. Len(s) \/ i = Len(s) + 1
    BY <2>3
  <2>6. 1 .. Len(s) \subseteq 1 .. (Len(s) + 1) /\ Len(s) + 1 \in 1 .. (Len(s) + 1)
    BY <2>3
  <2>7. ToSet(t) = ToSet(s) \union {x}
    BY <2>2, <2>3, <2>5, <2>6 DEF ToSet
  <2>8. ASSUME EachOnce(s, Len(s)), NEW i \in 1 .. (Len(s) + 1), NEW j \in 1 .. (Len(s) + 1), t[i] = t[j]
        PROVE  i = j
    <3>1. \A r \in 1 .. Len(s) : s[r] # x
      BY <1>2, <2>3 DEF ToSet
    <3>2. CASE i = Len(s) + 1 /\ j # Len(s) + 1
      BY <2>2, <2>5, <2>8, <3>1, <3>2
    <3>3. CASE j = Len(s) + 1 /\ i # Len(s) + 1
      BY <2>2, <2>5, <2>8, <3>1, <3>3
    <3>4. CASE i # Len(s) + 1 /\ j # Len(s) + 1
      BY <2>2, <2>5, <2>8, <3>4 DEF EachOnce
    <3> QED
      BY <3>2, <3>3, <3>4
  <2> QED
    BY <2>2, <2>4, <2>7, <2>8 DEF EachOnce
<1> QED
  BY <1>1, <1>2

LEMMA CollapsedOf ==
  ASSUME NEW fids \in Seq(Fids)
  PROVE  /\ Collapsed(fids) \in Seq(Fids) /\ ToSet(Collapsed(fids)) = ToSet(fids)
         /\ EachOnce(Collapsed(fids), Len(Collapsed(fids)))
<1> DEFINE m == Len(fids)
           X == Seq(Fids)
           step == [z \in X \X (1 .. m) |-> OneMore(z[1], fids[z[2]])]
<1>1. m \in Nat /\ << >> \in X /\ DOMAIN fids = 1 .. m /\ \A i \in 1 .. m : fids[i] \in Fids
  OBVIOUS
<1>2. ASSUME NEW s \in X, NEW i \in 1 .. m PROVE OneMore(s, fids[i]) \in X /\ step[s, i] = OneMore(s, fids[i])
  <2>1. fids[i] \in Fids
    BY <1>1
  <2>2. OneMore(s, fids[i]) \in X
    BY <2>1, OneMoreOf
  <2> QED
    BY <2>2
<1>3. step \in [X \X (1 .. m) -> X]
  <2>1. \A z \in X \X (1 .. m) : z[1] \in X /\ z[2] \in 1 .. m
    OBVIOUS
  <2>2. \A z \in X \X (1 .. m) : OneMore(z[1], fids[z[2]]) \in X
    BY <1>2, <2>1
  <2> QED
    BY <2>2
<1> HIDE DEF step, m, X
<1>4. PICK s \in [0 .. m -> X] : Recurs(s, m, << >>, step)
  <2>1. PICK base : base \in X /\ base = << >>
    BY <1>1
  <2>2. \E s \in [0 .. m -> X] : Recurs(s, m, base, step)
    BY <1>1, <1>3, <2>1, Recursion
  <2> QED
    BY <2>1, <2>2
<1> DEFINE next(r) == [i \in 0 .. m |-> IF i = 0 THEN << >>
                         ELSE IF fids[i] \in ToSet(r[i - 1]) THEN r[i - 1] ELSE Append(r[i - 1], fids[i])]
<1>5. ASSUME NEW i \in 0 .. m PROVE s[i] = next(s)[i]
  <2>1. CASE i = 0
    BY <1>4, <2>1 DEF Recurs
  <2>2. CASE i # 0
    <3>1. i \in 1 .. m /\ i - 1 \in 0 .. m
      BY <1>1, <2>2
    <3>2. s[i] = step[s[i - 1], i] /\ s[i - 1] \in X
      BY <1>4, <3>1 DEF Recurs
    <3>3. s[i] = OneMore(s[i - 1], fids[i])
      BY <1>2, <3>1, <3>2
    <3> QED
      BY <2>2, <3>3 DEF OneMore
  <2> QED
    BY <2>1, <2>2
<1>6. s = [i \in 0 .. m |-> s[i]] /\ next(s) = [i \in 0 .. m |-> next(s)[i]]
  OBVIOUS
<1>7. s = next(s)
  <2> HIDE DEF next
  <2> QED
    BY <1>5, <1>6
<1>8. KeptOn(s, fids)
  BY <1>7 DEF KeptOn, m
<1>9. PICK f : f = (CHOOSE r : KeptOn(r, fids))
  OBVIOUS
<1>10. KeptOn(f, fids)
  BY <1>8, <1>9
<1>11. f = next(f)
  BY <1>10 DEF KeptOn, m
<1>12. f[0] = << >> /\ \A i \in 1 .. m : f[i] = OneMore(f[i - 1], fids[i])
  <2>1. ASSUME NEW i \in 0 .. m
        PROVE  f[i] = IF i = 0 THEN << >>
                      ELSE IF fids[i] \in ToSet(f[i - 1]) THEN f[i - 1] ELSE Append(f[i - 1], fids[i])
    BY <1>11
  <2>2. 0 \in 0 .. m /\ \A i \in 1 .. m : i \in 0 .. m /\ i # 0
    BY <1>1
  <2> QED
    BY <2>1, <2>2 DEF OneMore
<1> HIDE DEF next
<1> DEFINE Upto(i) == { fids[j] : j \in 1 .. i }
           T == { i \in 0 .. m : f[i] \in X /\ ToSet(f[i]) = Upto(i) /\ EachOnce(f[i], Len(f[i])) }
<1>13. 0 \in T
  <2>1. << >> \in X /\ ToSet(<< >>) = {} /\ EachOnce(<< >>, Len(<< >>)) /\ Upto(0) = {}
    BY <1>1 DEF ToSet, EachOnce
  <2> HIDE DEF Upto
  <2> QED
    BY <1>1, <1>12, <2>1, FirstPlace
<1>14. ASSUME NEW i \in 0 .. (m - 1), i \in T PROVE i + 1 \in T
  <2>1. i + 1 \in 1 .. m /\ i + 1 \in 0 .. m /\ i \in 0 .. m /\ (i + 1) - 1 = i
    BY <1>1, NextIndex
  <2>2. f[i + 1] = OneMore(f[i], fids[i + 1]) /\ fids[i + 1] \in Fids
    BY <1>1, <1>12, <2>1
  <2>3. Upto(i + 1) = Upto(i) \union {fids[i + 1]}
    <3>1. \A j \in 1 .. (i + 1) : j \in 1 .. i \/ j = i + 1
      OBVIOUS
    <3>2. 1 .. i \subseteq 1 .. (i + 1) /\ i + 1 \in 1 .. (i + 1)
      OBVIOUS
    <3> QED
      BY <3>1, <3>2
  <2> HIDE DEF Upto
  <2>4. f[i] \in Seq(Fids) /\ ToSet(f[i]) = Upto(i) /\ EachOnce(f[i], Len(f[i]))
    BY <1>14 DEF X
  <2>5. PICK r \in Seq(Fids), x \in Fids : r = f[i] /\ x = fids[i + 1]
    BY <2>2, <2>4
  <2>6. /\ OneMore(r, x) \in Seq(Fids) /\ ToSet(OneMore(r, x)) = ToSet(r) \union {x}
        /\ EachOnce(OneMore(r, x), Len(OneMore(r, x)))
    BY <2>4, <2>5, OneMoreOf
  <2> QED
    BY <2>1, <2>2, <2>3, <2>4, <2>5, <2>6 DEF X
<1> HIDE DEF T
<1>15. 0 .. m \subseteq T
  BY <1>1, <1>13, <1>14, IntervalInduction
<1>16. m \in T
  BY <1>1, <1>15, FirstPlace
<1>17. Collapsed(fids) = f[m]
  BY <1>9, CollapsedIsChosen DEF m
<1>18. ToSet(fids) = Upto(m)
  BY <1>1 DEF ToSet
<1> HIDE DEF Upto
<1> QED
  BY <1>16, <1>17, <1>18 DEF T, X

(* The indices are in it once, and the others have no delta.                *)
GoodDelta(d) ==
  /\ d.actives \in Seq(Fids) /\ EachOnce(d.actives, Len(d.actives))
  /\ d.delta \in [Fids -> Int]
  /\ \A k \in Fids : (\A i \in 1 .. Len(d.actives) : d.actives[i] # k) => d.delta[k] = 0

(* A delta has nothing of the one before it.                                *)
LEMMA DeltaOf ==
  ASSUME GoodDelta(dc), NEW hits \in Seq(Pairs)
  PROVE  GoodDelta(Delta(hits)) /\ \A k \in Fids : Delta(hits).delta[k] = SumOfHits(hits, k)
<1>1. PICK fids : fids = [h \in DOMAIN hits |-> hits[h][1]]
  OBVIOUS
<1>2. DOMAIN hits = 1 .. Len(hits) /\ Len(hits) \in Nat /\ \A h \in 1 .. Len(hits) : hits[h][1] \in Fids
  BY OppositePairs
<1>3. fids \in [1 .. Len(hits) -> Fids] /\ \A h \in 1 .. Len(hits) : fids[h] = hits[h][1]
  BY <1>1, <1>2
<1>4. fids \in Seq(Fids) /\ Len(fids) = Len(hits) /\ DOMAIN fids = 1 .. Len(hits)
  BY <1>2, <1>3, RowOf
<1>5. PICK actives : actives = Collapsed(fids)
  OBVIOUS
<1>6. actives \in Seq(Fids) /\ ToSet(actives) = ToSet(fids) /\ EachOnce(actives, Len(actives))
  BY <1>4, <1>5, CollapsedOf
<1>7. ASSUME NEW k \in Fids
      PROVE  (IF \E r \in DOMAIN dc.actives : dc.actives[r] = k THEN 0 ELSE dc.delta[k]) = 0
  <2>1. DOMAIN dc.actives = 1 .. Len(dc.actives)
    BY DEF GoodDelta
  <2> QED
    BY <2>1 DEF GoodDelta
<1>8. PICK delta : delta = [k \in Fids |-> (IF \E r \in DOMAIN dc.actives : dc.actives[r] = k THEN 0 ELSE dc.delta[k])
                                           + SumOfHits(hits, k)]
  OBVIOUS
<1>9. ASSUME NEW k \in Fids PROVE delta[k] = SumOfHits(hits, k) /\ SumOfHits(hits, k) \in Int
  <2>1. SumOfHits(hits, k) \in Int
    BY HitsAreWhole
  <2>2. delta[k] = (IF \E r \in DOMAIN dc.actives : dc.actives[r] = k THEN 0 ELSE dc.delta[k]) + SumOfHits(hits, k)
    BY <1>8
  <2>3. delta[k] = 0 + SumOfHits(hits, k)
    BY <1>7, <2>2
  <2> QED
    BY <2>1, <2>3
<1>10. delta \in [Fids -> Int]
  <2>1. DOMAIN delta = Fids /\ delta = [k \in Fids |-> delta[k]]
    BY <1>8
  <2> QED
    BY <1>9, <2>1
<1>11. ASSUME NEW k \in Fids, \A i \in 1 .. Len(actives) : actives[i] # k
       PROVE  delta[k] = 0
  <2>1. DOMAIN actives = 1 .. Len(actives)
    BY <1>6
  <2>2. k \notin ToSet(fids)
    BY <1>6, <1>11, <2>1 DEF ToSet
  <2>3. \A h \in 1 .. Len(hits) : hits[h][1] # k
    BY <1>3, <1>4, <2>2 DEF ToSet
  <2>4. SumOfHits(hits, k) = 0
    BY <2>3, NoHits
  <2> QED
    BY <1>9, <2>4
<1>12. Delta(hits) = [actives |-> actives, delta |-> delta]
  BY <1>1, <1>5, <1>8 DEF Delta
<1>13. PICK d : d = Delta(hits)
  OBVIOUS
<1>14. d.actives = actives /\ d.delta = delta
  BY <1>12, <1>13
<1>15. GoodDelta(d)
  BY <1>6, <1>10, <1>11, <1>14 DEF GoodDelta
<1> QED
  BY <1>9, <1>13, <1>14, <1>15

(* A sum over the active features is one over all features, if the others   *)
(* have nothing.                                                            *)
LEMMA ActiveIsAll ==
  ASSUME NEW d, GoodDelta(d), NEW value \in [Fids -> Numbers],
         \A k \in Fids : (\A i \in 1 .. Len(d.actives) : d.actives[i] # k) => value[k] = Zero
  PROVE  Active(d, value) = VecSum(value)
<1>1. PICK f, r : f = d.actives /\ r = Len(f)
  OBVIOUS
<1>2. f \in Seq(Fids) /\ r \in Nat /\ DOMAIN f = 1 .. r /\ EachOnce(f, r)
  BY <1>1 DEF GoodDelta
<1>3. f \in [1 .. r -> Fids]
  BY <1>1, <1>2
<1>4. PICK b : b = [i \in DOMAIN f |-> value[f[i]]]
  OBVIOUS
<1>5. b \in [1 .. r -> Numbers] /\ \A i \in 1 .. r : b[i] = value[f[i]]
  BY <1>2, <1>3, <1>4
<1>6. Selects(b, value, f, r)
  BY <1>5 DEF Selects
<1>7. OnlyOf(value, f, r, K)
  BY <1>1, FidsFinite DEF OnlyOf
<1>8. VecSum(b) = VecSum(value)
  BY <1>2, <1>3, <1>5, <1>6, <1>7, FidsFinite, SumOfSome
<1> QED
  BY <1>1, <1>4, <1>8 DEF Active

LEMMA WholeNumber ==
  ASSUME NEW k \in Int
  PROVE  Whole(k) \in Numbers /\ Whole(0) = Zero /\ Whole(1) = One
BY WholeEquals DEF Whole, Numbers, Equals, Zero, One

LEMMA AddedIsPlus ==
  ASSUME NEW d, GoodDelta(d), NEW vector \in [Fids -> Numbers], NEW tau \in Numbers
  PROVE  /\ Added(vector, d, tau) \in [Fids -> Numbers]
         /\ \A k \in Fids : Added(vector, d, tau)[k] = Add(vector[k], Times(tau, Whole(d.delta[k])))
<1>1. \A k \in Fids : d.delta[k] \in Int
  BY DEF GoodDelta
<1>2. \A k \in Fids : Times(tau, Whole(d.delta[k])) \in Numbers
  BY <1>1, WholeNumber, PlusNumber
<1>3. ASSUME NEW k \in Fids
      PROVE  Active(d, [m \in Fids |-> IF m = k THEN Times(tau, Whole(d.delta[k])) ELSE Zero])
               = Times(tau, Whole(d.delta[k]))
  <2>1. PICK value : value = [m \in Fids |-> IF m = k THEN Times(tau, Whole(d.delta[k])) ELSE Zero]
    OBVIOUS
  <2>2. value \in [Fids -> Numbers] /\ \A m \in Fids : m # k => value[m] = Zero
    BY <1>2, <2>1, ZeroNumber
  <2>3. value[k] = Times(tau, Whole(d.delta[k]))
    BY <2>1
  <2>4. ASSUME NEW m \in Fids, \A i \in 1 .. Len(d.actives) : d.actives[i] # m
        PROVE  value[m] = Zero
    <3>1. CASE m = k
      <4>1. d.delta[k] = 0
        BY <2>4, <3>1 DEF GoodDelta
      <4>2. Times(tau, Whole(0)) = Zero
        BY WholeNumber, Neutral
      <4> QED
        BY <2>3, <3>1, <4>1, <4>2
    <3> QED
      BY <2>2, <3>1
  <2>5. Active(d, value) = VecSum(value)
    BY <2>2, <2>4, ActiveIsAll
  <2>6. OnlyAt(value, k, K) /\ value \in [1 .. K -> Numbers] /\ k \in 1 .. K
    BY <2>2, FidsFinite DEF OnlyAt
  <2>7. VecSum(value) = value[k]
    BY <2>6, FidsFinite, SumOfOne
  <2> QED
    BY <2>1, <2>3, <2>5, <2>7
<1>4. \A k \in Fids : Added(vector, d, tau)[k] = Add(vector[k], Times(tau, Whole(d.delta[k])))
  BY <1>3 DEF Added, Add
<1>5. \A k \in Fids : Add(vector[k], Times(tau, Whole(d.delta[k]))) \in Numbers
  BY <1>2, AddNumber
<1>6. PICK sum : sum = Added(vector, d, tau)
  OBVIOUS
<1>7. DOMAIN sum = Fids /\ sum = [k \in Fids |-> sum[k]]
  BY <1>6 DEF Added
<1> QED
  BY <1>4, <1>5, <1>6, <1>7

-----------------------------------------------------------------------------
(* Arithmetic.                                                              *)
LEMMA WholeResults ==
  ASSUME NEW a \in Int, NEW b \in Int
  PROVE  /\ Whole(a + b) = Add(Whole(a), Whole(b)) /\ Whole(a * b) = Times(Whole(a), Whole(b))
         /\ Whole(a) \in Numbers /\ Whole(b) \in Numbers
<1>1. /\ Equals(Whole(a), a, 1) /\ Equals(Whole(b), b, 1) /\ Whole(a) \in Numbers /\ Whole(b) \in Numbers
      /\ Lowest(Whole(a)) /\ Lowest(Whole(b))
  BY WholeEquals DEF Whole, Numbers, Equals
<1>2. PICK p \in Int, s \in Int : p = a * b /\ s = a + b
  OBVIOUS
<1>3. Equals(Whole(p), p, 1) /\ Equals(Whole(s), s, 1) /\ Lowest(Whole(p)) /\ Lowest(Whole(s))
  BY WholeEquals DEF Whole
<1>4. Equals(plus[Whole(a), Whole(b)], a * 1 + b * 1, 1 * 1) /\ Lowest(plus[Whole(a), Whole(b)])
  BY <1>1, PlusEquals
<1>5. Equals(times[Whole(a), Whole(b)], a * b, 1 * 1) /\ Lowest(times[Whole(a), Whole(b)])
  BY <1>1, TimesEquals
<1>6. a * 1 + b * 1 = s /\ 1 * 1 = 1
  BY <1>2
<1>7. Equals(plus[Whole(a), Whole(b)], s, 1)
  BY <1>4, <1>6
<1>8. Equals(times[Whole(a), Whole(b)], p, 1)
  BY <1>2, <1>5, <1>6
<1>9. Whole(s) = plus[Whole(a), Whole(b)]
  BY <1>3, <1>4, <1>7, SameNumber
<1>10. Whole(p) = times[Whole(a), Whole(b)]
  BY <1>3, <1>5, <1>8, SameNumber
<1> QED
  BY <1>1, <1>2, <1>9, <1>10 DEF Add, Times

LEMMA MinusNumber ==
  ASSUME NEW x \in Numbers
  PROVE  Minus(x) \in Numbers /\ Add(x, Minus(x)) = Zero /\ Add(Minus(x), x) = Zero
BY PlusNumber, PlusTurns, Neutral

LEMMA Moves ==
  ASSUME NEW x \in Numbers, NEW y \in Numbers
  PROVE  Add(Add(x, y), Minus(y)) = x
<1>1. Add(Add(x, y), Minus(y)) = Add(x, Add(y, Minus(y)))
  BY MinusNumber, PlusRegroups
<1> QED
  BY <1>1, MinusNumber, Neutral

LEMMA OnlyMinus ==
  ASSUME NEW x \in Numbers, NEW y \in Numbers, Add(x, y) = Zero
  PROVE  y = Minus(x)
<1>1. Add(y, x) = Zero
  BY PlusTurns
<1>2. Add(Add(y, x), Minus(x)) = y
  BY Moves
<1>3. Add(Zero, Minus(x)) = Minus(x)
  BY MinusNumber, Neutral
<1> QED
  BY <1>1, <1>2, <1>3

LEMMA MinusResults ==
  ASSUME NEW x \in Numbers, NEW y \in Numbers
  PROVE  /\ Minus(Add(x, y)) = Add(Minus(x), Minus(y)) /\ Minus(Minus(x)) = x
         /\ Minus(Times(x, y)) = Times(Minus(x), y) /\ Minus(Zero) = Zero
<1>1. Minus(x) \in Numbers /\ Minus(y) \in Numbers /\ Add(x, y) \in Numbers /\ Times(x, y) \in Numbers
  BY MinusNumber, AddNumber, TimesNumber
<1>2. Add(Minus(x), Minus(y)) \in Numbers /\ Times(Minus(x), y) \in Numbers
  BY <1>1, AddNumber, TimesNumber
<1>3. Add(Add(x, y), Add(Minus(x), Minus(y))) = Add(Add(x, Minus(x)), Add(y, Minus(y)))
  BY <1>1, Exchanged
<1>4. Add(Add(x, y), Add(Minus(x), Minus(y))) = Zero
  BY <1>3, MinusNumber, ZeroNumber, Neutral
<1>5. Add(Times(x, y), Times(Minus(x), y)) = Times(Add(x, Minus(x)), y)
  BY <1>1, Spreads
<1>6. Add(Times(x, y), Times(Minus(x), y)) = Zero
  BY <1>5, MinusNumber, Neutral
<1>7. Add(Minus(x), x) = Zero /\ Add(Zero, Zero) = Zero
  BY MinusNumber, ZeroNumber, Neutral
<1> QED
  BY <1>1, <1>2, <1>4, <1>6, <1>7, ZeroNumber, OnlyMinus

(* One vector of weights more in the sum, whatever is added to it.          *)
LEMMA OneVectorMore ==
  ASSUME NEW x \in Numbers, NEW y \in Numbers, NEW z \in Numbers, NEW d \in Numbers
  PROVE  Add(Add(Times(x, z), Minus(y)), Add(x, d))
           = Add(Times(Add(x, d), Add(z, One)), Minus(Add(y, Times(d, z))))
<1> DEFINE v == Add(x, d)
           xz == Times(x, z)
           dz == Times(d, z)
<1>1. v \in Numbers /\ xz \in Numbers /\ dz \in Numbers /\ Minus(y) \in Numbers /\ Minus(dz) \in Numbers
  BY AddNumber, TimesNumber, MinusNumber
<1>2. Times(v, z) = Add(xz, dz)
  BY Spreads
<1>3. Times(v, Add(z, One)) = Add(Times(v, z), v)
  <2>1. Add(z, One) \in Numbers /\ Times(One, v) = v
    BY <1>1, ZeroNumber, AddNumber, TimesTurns, Neutral
  <2>2. Times(Add(z, One), v) = Add(Times(z, v), Times(One, v))
    BY <1>1, ZeroNumber, Spreads
  <2> HIDE DEF v
  <2> QED
    BY <1>1, <2>1, <2>2, TimesTurns
<1>4. Minus(Add(y, dz)) = Add(Minus(y), Minus(dz))
  BY <1>1, MinusResults
<1> HIDE DEF xz, dz, v
<1>5. Add(Add(Add(xz, dz), v), Add(Minus(y), Minus(dz))) = Add(Add(xz, Minus(y)), v)
  <2>1. Add(Add(Add(xz, dz), v), Add(Minus(dz), Minus(y))) = Add(Add(Add(xz, dz), Minus(dz)), Add(v, Minus(y)))
    <3>1. PICK sum \in Numbers, a \in Numbers, b \in Numbers : sum = Add(xz, dz) /\ a = Minus(dz) /\ b = Minus(y)
      BY <1>1, AddNumber
    <3>2. Add(Add(sum, v), Add(a, b)) = Add(Add(sum, a), Add(v, b))
      BY <1>1, Exchanged
    <3> QED
      BY <3>1, <3>2
  <2>2. Add(Add(xz, dz), Minus(dz)) = xz
    BY <1>1, Moves
  <2>3. Add(Minus(dz), Minus(y)) = Add(Minus(y), Minus(dz)) /\ Add(v, Minus(y)) = Add(Minus(y), v)
    BY <1>1, PlusTurns
  <2>4. Add(xz, Add(Minus(y), v)) = Add(Add(xz, Minus(y)), v)
    BY <1>1, PlusRegroups
  <2> QED
    BY <2>1, <2>2, <2>3, <2>4
<1>6. Add(Add(xz, Minus(y)), v) = Add(Times(v, Add(z, One)), Minus(Add(y, dz)))
  BY <1>2, <1>3, <1>4, <1>5
<1> QED
  BY <1>6 DEF v, xz, dz

Share(m) == << 1, m >>

LEMMA ShareOf ==
  ASSUME NEW m \in Nat \ {0}
  PROVE  Share(m) \in Numbers /\ Times(Whole(m), Share(m)) = One
<1>1. Share(m) \in Fraction /\ Share(m)[1] = 1 /\ Share(m)[2] = m
  BY DEF Fraction, Share
<1>2. Bezout(1, m)
  <2>1. 1 * 1 + 0 * m = 1
    OBVIOUS
  <2> QED
    BY <2>1 DEF Bezout
<1>3. Lowest(Share(m))
  BY <1>1, <1>2, LowestMeans
<1>4. Equals(Share(m), 1, m) /\ Equals(Whole(m), m, 1) /\ Lowest(Whole(m))
  BY <1>1, FractionEquals, WholeEquals DEF Whole
<1>5. Equals(times[Whole(m), Share(m)], m * 1, 1 * m) /\ Lowest(times[Whole(m), Share(m)])
  BY <1>3, <1>4, TimesEquals
<1>6. (m * 1) * 1 = 1 * (1 * m)
  OBVIOUS
<1>7. times[Whole(m), Share(m)] = One
  BY <1>5, <1>6, ConstantsLowest, SameNumber
<1> QED
  BY <1>1, <1>3, <1>7 DEF Numbers, Times

(* The mean of the sum.                                                     *)
LEMMA MeanOf ==
  ASSUME NEW x \in Numbers, NEW y \in Numbers, NEW m \in Nat \ {0}
  PROVE  Times(Add(Times(x, Whole(m)), Minus(y)), Share(m)) = Add(x, Minus(Times(y, Share(m))))
<1>1. PICK z \in Numbers, s \in Numbers : z = Whole(m) /\ s = Share(m) /\ Times(z, s) = One
  BY ShareOf, WholeNumber
<1>2. Times(x, z) \in Numbers /\ Minus(y) \in Numbers
  BY TimesNumber, MinusNumber
<1>3. Times(Add(Times(x, z), Minus(y)), s) = Add(Times(Times(x, z), s), Times(Minus(y), s))
  BY <1>2, Spreads
<1>4. Times(Times(x, z), s) = Times(x, Times(z, s))
  BY TimesRegroups
<1>5. Times(x, One) = x
  BY Neutral
<1>6. Times(Minus(y), s) = Minus(Times(y, s))
  BY MinusResults
<1> QED
  BY <1>1, <1>3, <1>4, <1>5, <1>6

-----------------------------------------------------------------------------
(* Scores.                                                                  *)
DotRow(weights, vector) == [k \in Fids |-> Times(weights[k], Whole(vector[k]))]

LEMMA DotIsSum ==
  ASSUME NEW weights \in [Fids -> Numbers], NEW vector \in [Fids -> Int]
  PROVE  /\ DotRow(weights, vector) \in [1 .. K -> Numbers] /\ Dot(weights, vector) \in Numbers
         /\ Dot(weights, vector) = VecSum(DotRow(weights, vector))
         /\ \A k \in 1 .. K : DotRow(weights, vector)[k] = Times(weights[k], Whole(vector[k]))
<1>1. \A k \in Fids : Times(weights[k], Whole(vector[k])) \in Numbers
  BY WholeNumber, TimesNumber
<1>2. PICK row : row = DotRow(weights, vector)
  OBVIOUS
<1>3. row \in [1 .. K -> Numbers] /\ \A k \in 1 .. K : row[k] = Times(weights[k], Whole(vector[k]))
  BY <1>1, <1>2, FidsFinite DEF DotRow
<1>4. VecSum(row) \in Numbers
  BY <1>3, FidsFinite, SumNumber
<1> QED
  BY <1>2, <1>3, <1>4 DEF Dot, DotRow

LEMMA DotOfDifference ==
  ASSUME NEW weights \in [Fids -> Numbers], NEW right \in [Fids -> Int], NEW wrong \in [Fids -> Int],
         NEW diff \in [Fids -> Int], \A k \in Fids : diff[k] = right[k] - wrong[k]
  PROVE  Dot(weights, diff) = Add(Dot(weights, right), Minus(Dot(weights, wrong)))
<1>1. PICK d \in [1 .. K -> Numbers], r \in [1 .. K -> Numbers], x \in [1 .. K -> Numbers] :
        d = DotRow(weights, diff) /\ r = DotRow(weights, right) /\ x = DotRow(weights, wrong)
  BY DotIsSum
<1>2. ASSUME NEW k \in 1 .. K PROVE r[k] = Add(d[k], x[k])
  <2>1. PICK y \in Numbers, a \in Int, b \in Int : y = weights[k] /\ a = diff[k] /\ b = wrong[k]
    BY FidsFinite
  <2>2. right[k] = a + b
    <3>1. diff[k] = right[k] - wrong[k] /\ right[k] \in Int
      BY FidsFinite
    <3> QED
      BY <2>1, <3>1
  <2>3. r[k] = Times(y, Whole(a + b)) /\ d[k] = Times(y, Whole(a)) /\ x[k] = Times(y, Whole(b))
    BY <1>1, <2>1, <2>2, DotIsSum
  <2>4. Whole(a + b) = Add(Whole(a), Whole(b)) /\ Whole(a) \in Numbers /\ Whole(b) \in Numbers
    BY WholeResults
  <2>5. Times(Add(Whole(a), Whole(b)), y) = Add(Times(Whole(a), y), Times(Whole(b), y))
    BY <2>4, Spreads
  <2> QED
    BY <2>3, <2>4, <2>5, AddNumber, TimesTurns
<1>3. AddsUp(r, d, x, K)
  BY <1>2 DEF AddsUp
<1>4. VecSum(r) = Add(VecSum(d), VecSum(x))
  <2>1. K \in Nat
    BY FidsFinite
  <2> QED
    BY <1>3, <2>1, SumOfPlus
<1>5. Dot(weights, right) = Add(Dot(weights, diff), Dot(weights, wrong))
  BY <1>1, <1>4, DotIsSum
<1>6. PICK sum \in Numbers, a \in Numbers, b \in Numbers :
        sum = Dot(weights, right) /\ a = Dot(weights, diff) /\ b = Dot(weights, wrong)
  BY DotIsSum
<1>7. Add(Add(a, b), Minus(b)) = a
  BY Moves
<1> QED
  BY <1>5, <1>6, <1>7

(* What an update by part does to a score.                                  *)
AddedTo(before, after, part, tau) == \A k \in Fids : after[k] = Add(before[k], Times(tau, part[k]))

LEMMA DotOfMoved ==
  ASSUME NEW before \in [Fids -> Numbers], NEW after \in [Fids -> Numbers], NEW part \in [Fids -> Numbers],
         NEW tau \in Numbers, AddedTo(before, after, part, tau),
         NEW vector \in [Fids -> Int]
  PROVE  Dot(after, vector) = Add(Dot(before, vector), Times(tau, Dot(part, vector)))
<1>1. PICK a \in [1 .. K -> Numbers], b \in [1 .. K -> Numbers], p \in [1 .. K -> Numbers] :
        a = DotRow(after, vector) /\ b = DotRow(before, vector) /\ p = DotRow(part, vector)
  BY DotIsSum
<1>2. PICK s : s = [k \in 1 .. K |-> Times(p[k], tau)]
  OBVIOUS
<1>3. s \in [1 .. K -> Numbers] /\ IsScaled(s, p, tau, K)
  BY <1>2, TimesNumber DEF IsScaled
<1>4. ASSUME NEW k \in 1 .. K PROVE a[k] = Add(b[k], s[k])
  <2>1. PICK x \in Numbers, y \in Numbers, v \in Numbers : x = before[k] /\ y = part[k] /\ v = Whole(vector[k])
    BY FidsFinite, WholeNumber
  <2>2. a[k] = Times(Add(x, Times(tau, y)), v) /\ b[k] = Times(x, v) /\ s[k] = Times(Times(y, v), tau)
    <3>1. k \in Fids /\ after[k] = Add(x, Times(tau, y))
      BY <2>1, FidsFinite DEF AddedTo
    <3>2. a[k] = Times(after[k], Whole(vector[k])) /\ b[k] = Times(before[k], Whole(vector[k]))
          /\ p[k] = Times(part[k], Whole(vector[k]))
      BY <1>1, DotIsSum
    <3>3. s[k] = Times(p[k], tau)
      BY <1>2
    <3> QED
      BY <2>1, <3>1, <3>2, <3>3
  <2>3. Times(Add(x, Times(tau, y)), v) = Add(Times(x, v), Times(Times(tau, y), v))
    BY TimesNumber, Spreads
  <2>4. Times(Times(tau, y), v) = Times(tau, Times(y, v)) /\ Times(tau, Times(y, v)) = Times(Times(y, v), tau)
    BY TimesNumber, TimesRegroups, TimesTurns
  <2> QED
    BY <2>2, <2>3, <2>4
<1>5. AddsUp(a, b, s, K)
  BY <1>4 DEF AddsUp
<1>6. VecSum(a) = Add(VecSum(b), VecSum(s)) /\ VecSum(s) = Times(VecSum(p), tau)
  <2>1. K \in Nat
    BY FidsFinite
  <2>2. VecSum(a) = Add(VecSum(b), VecSum(s))
    BY <1>3, <1>5, <2>1, SumOfPlus
  <2>3. VecSum(s) = Times(VecSum(p), tau)
    BY <1>3, <2>1, SumOfTimes
  <2> QED
    BY <2>2, <2>3
<1>7. VecSum(a) = Dot(after, vector) /\ VecSum(b) = Dot(before, vector) /\ VecSum(p) = Dot(part, vector)
  BY <1>1, DotIsSum
<1> QED
  BY <1>6, <1>7, DotIsSum, TimesTurns

-----------------------------------------------------------------------------
(* The order of the instances.                                              *)
Order == [1 .. N -> 1 .. N]

LEMMA InstancesCounted == N \in Nat /\ DOMAIN Trainset = 1 .. N
BY CrfFeaturesAssumption DEF N

SwappedOn(s, p, picks) ==
  s = [i \in 0 .. N |-> IF i = 0 THEN p
                        ELSE [s[i - 1] EXCEPT ![i] = s[i - 1][picks[i]], ![picks[i]] = s[i - 1][i]]]

LEMMA ShuffledIsChosen ==
  ASSUME NEW p, NEW picks
  PROVE  Shuffled(p, picks) = (CHOOSE s : SwappedOn(s, p, picks))[N]
BY DEF Shuffled, SwappedOn

Exchange(p, i, j) == [p EXCEPT ![i] = p[j], ![j] = p[i]]

LEMMA ExchangeOf ==
  ASSUME NEW p \in Order, NEW i \in 1 .. N, NEW j \in 1 .. N
  PROVE  Exchange(p, i, j) \in Order
BY DEF Exchange, Order

LEMMA ShuffledIsOrder ==
  ASSUME NEW p \in Order, NEW picks \in Order
  PROVE  Shuffled(p, picks) \in Order
<1> DEFINE step == [z \in Order \X (1 .. N) |-> Exchange(z[1], z[2], picks[z[2]])]
<1>1. N \in Nat /\ \A i \in 1 .. N : picks[i] \in 1 .. N
  BY InstancesCounted DEF Order
<1>2. ASSUME NEW s \in Order, NEW i \in 1 .. N
      PROVE  Exchange(s, i, picks[i]) \in Order /\ step[s, i] = Exchange(s, i, picks[i])
  <2>1. Exchange(s, i, picks[i]) \in Order
    BY <1>1, ExchangeOf
  <2> QED
    BY <2>1
<1>3. step \in [Order \X (1 .. N) -> Order]
  <2>1. \A z \in Order \X (1 .. N) : z[1] \in Order /\ z[2] \in 1 .. N
    OBVIOUS
  <2>2. \A z \in Order \X (1 .. N) : Exchange(z[1], z[2], picks[z[2]]) \in Order
    BY <1>2, <2>1
  <2> QED
    BY <2>2
<1> HIDE DEF step
<1>4. PICK s \in [0 .. N -> Order] : Recurs(s, N, p, step)
  BY <1>1, <1>3, Recursion
<1> DEFINE next(r) == [i \in 0 .. N |-> IF i = 0 THEN p
                         ELSE [r[i - 1] EXCEPT ![i] = r[i - 1][picks[i]], ![picks[i]] = r[i - 1][i]]]
<1>5. ASSUME NEW i \in 0 .. N PROVE s[i] = next(s)[i]
  <2>1. CASE i = 0
    BY <1>4, <2>1 DEF Recurs
  <2>2. CASE i # 0
    <3>1. i \in 1 .. N /\ i - 1 \in 0 .. N
      BY <1>1, <2>2
    <3>2. s[i] = step[s[i - 1], i] /\ s[i - 1] \in Order
      BY <1>4, <3>1 DEF Recurs
    <3>3. s[i] = Exchange(s[i - 1], i, picks[i])
      BY <1>2, <3>1, <3>2
    <3> QED
      BY <2>2, <3>3 DEF Exchange
  <2> QED
    BY <2>1, <2>2
<1>6. s = [i \in 0 .. N |-> s[i]] /\ next(s) = [i \in 0 .. N |-> next(s)[i]]
  OBVIOUS
<1>7. s = next(s)
  <2> HIDE DEF next
  <2> QED
    BY <1>5, <1>6
<1>8. SwappedOn(s, p, picks)
  BY <1>7 DEF SwappedOn
<1>9. PICK f : f = (CHOOSE r : SwappedOn(r, p, picks))
  OBVIOUS
<1>10. SwappedOn(f, p, picks)
  BY <1>8, <1>9
<1>11. f = next(f)
  BY <1>10 DEF SwappedOn
<1>12. f[0] = p /\ \A i \in 1 .. N : f[i] = Exchange(f[i - 1], i, picks[i])
  <2>1. ASSUME NEW i \in 0 .. N
        PROVE  f[i] = IF i = 0 THEN p
                      ELSE [f[i - 1] EXCEPT ![i] = f[i - 1][picks[i]], ![picks[i]] = f[i - 1][i]]
    BY <1>11
  <2>2. 0 \in 0 .. N /\ \A i \in 1 .. N : i \in 0 .. N /\ i # 0
    BY <1>1
  <2> QED
    BY <2>1, <2>2 DEF Exchange
<1> HIDE DEF next
<1> DEFINE T == { i \in 0 .. N : f[i] \in Order }
<1>13. 0 \in T
  BY <1>1, <1>12, FirstPlace
<1>14. ASSUME NEW i \in 0 .. (N - 1), i \in T PROVE i + 1 \in T
  <2>1. i + 1 \in 1 .. N /\ i + 1 \in 0 .. N /\ i \in 0 .. N /\ (i + 1) - 1 = i
    BY <1>1, NextIndex
  <2>2. f[i + 1] = Exchange(f[i], i + 1, picks[i + 1]) /\ f[i] \in Order
    BY <1>12, <1>14, <2>1
  <2> QED
    BY <1>2, <2>1, <2>2
<1> HIDE DEF T
<1>15. 0 .. N \subseteq T
  BY <1>1, <1>13, <1>14, IntervalInduction
<1>16. N \in T
  BY <1>1, <1>15, FirstPlace
<1> QED
  BY <1>9, <1>16, ShuffledIsChosen DEF T

-----------------------------------------------------------------------------
(* Quotients.                                                               *)
LEMMA DividedNumber ==
  ASSUME NEW x \in Numbers, NEW y \in Numbers, y # Zero
  PROVE  DividedBy(x, y) \in Numbers /\ Times(DividedBy(x, y), y) = x
BY DividesBack DEF Numbers, Times

LEMMA PositiveNumber ==
  ASSUME NEW x \in Numbers, Positive(x)
  PROVE  x # Zero
BY DEF Positive, Zero

LEMMA PositiveQuotient ==
  ASSUME NEW x \in Numbers, NEW y \in Numbers, Positive(x), Positive(y)
  PROVE  /\ DividedBy(x, y) \in Numbers /\ Positive(DividedBy(x, y)) /\ Times(DividedBy(x, y), y) = x
         /\ Positive(Add(x, y)) /\ Positive(Times(x, y))
BY PositiveResults, PositiveNumber, DividedNumber DEF Add, Times

(* Nothing negative is added to something positive.                         *)
LEMMA MorePositive ==
  ASSUME NEW x \in Numbers, NEW y \in Numbers, Positive(x), y[1] >= 0
  PROVE  Positive(Add(x, y)) /\ Positive(Add(y, x))
<1>1. Add(x, y) = Add(y, x) /\ Add(x, y) \in Numbers
  BY PlusTurns, AddNumber
<1>2. x \in Fraction /\ y \in Fraction
  BY DEF Numbers
<1>3. Equals(x, x[1], x[2]) /\ Equals(y, y[1], y[2]) /\ x[2] \in Nat \ {0} /\ y[2] \in Nat \ {0} /\ x[1] \in Int /\ y[1] \in Int
  BY <1>2, FractionEquals
<1>4. PICK s, e : s = x[1] * y[2] + y[1] * x[2] /\ e = x[2] * y[2]
  OBVIOUS
<1>5. Equals(Add(x, y), s, e)
  BY <1>3, <1>4, PlusEquals DEF Add
<1>6. s > 0
  <2>1. PICK a \in Int, b \in Nat \ {0}, g \in Int, h \in Nat \ {0} : a = x[1] /\ b = x[2] /\ g = y[1] /\ h = y[2] /\ a > 0 /\ g >= 0
    BY <1>3 DEF Positive
  <2>2. a * h > 0 /\ g * b >= 0 /\ a * h \in Int /\ g * b \in Int
    BY <2>1
  <2> QED
    BY <1>4, <2>1, <2>2
<1>7. Add(x, y)[1] > 0
  BY <1>5, <1>6, PositiveOf
<1> QED
  BY <1>1, <1>7 DEF Positive, Numbers

-----------------------------------------------------------------------------
(* An update.                                                               *)
Vectors == [Fids -> Numbers]

OnlineTyped ==
  /\ opt \in OnlineOptions /\ at \in {"epoch", "instance", "nan", "returned"}
  /\ perm \in Order /\ n \in Nat \ {0}
  /\ w \in Vectors /\ ws \in Vectors /\ total \in Vectors
  /\ c \in Nat \ {0}
  /\ cov \in Vectors /\ \A k \in Fids : Positive(cov[k])
  /\ GoodDelta(dc)
  /\ evidence \in [Fids -> Int]

LEMMA OptionsAre ==
  ASSUME opt \in OnlineOptions
  PROVE  /\ opt.algorithm \in {"averaged_perceptron", "passive_aggressive", "arow"} /\ opt.type \in {0, 1, 2}
         /\ opt.c \in Numbers /\ opt.variance \in Numbers /\ opt.gamma \in Numbers
         /\ Positive(opt.c) /\ Positive(opt.variance) /\ Positive(opt.gamma)
<1>1. /\ opt.algorithm \in {"averaged_perceptron", "passive_aggressive", "arow"} /\ opt.type \in {0, 1, 2}
      /\ Lowest(opt.c) /\ Lowest(opt.variance) /\ Lowest(opt.gamma)
      /\ Less(Zero, opt.c) /\ Less(Zero, opt.variance) /\ Less(Zero, opt.gamma)
  BY OnlineAssumption
<1>2. opt.c \in Fraction /\ opt.variance \in Fraction /\ opt.gamma \in Fraction
  BY <1>1 DEF Lowest
<1> QED
  BY <1>1, <1>2, PositiveMeans DEF Numbers

LEMMA InstanceIs ==
  ASSUME OnlineTyped, n <= N
  PROVE  /\ InstanceLike(Instance) /\ \E m \in DOMAIN Trainset : Instance = Trainset[m]
<1>1. n \in 1 .. N /\ perm \in Order
  BY InstancesCounted DEF OnlineTyped
<1>2. perm[n] \in DOMAIN Trainset
  BY <1>1, InstancesCounted DEF Order
<1> QED
  BY <1>2, CrfFeaturesAssumption DEF Instance

LEMMA DiffIs ==
  ASSUME OnlineTyped, n <= N, NEW path \in PathsOf(Instance)
  PROVE  /\ Diff(Instance.labels, path) \in Nat
         /\ SquareRoot[Diff(Instance.labels, path)] \in Numbers
         /\ SquareRoot[Diff(Instance.labels, path)][1] >= 0
<1>1. PICK m \in DOMAIN Trainset : Instance = Trainset[m]
  BY InstanceIs
<1>2. PICK in, l : in = Instance /\ l = Len(in.labels)
  OBVIOUS
<1>3. InstanceLike(in)
  BY <1>2, InstanceIs
<1>4. DOMAIN in.labels = 1 .. l /\ l \in Nat
  BY <1>2, <1>3, LabelsArePath
<1>5. Len(in.items) = l
  BY <1>2, <1>3 DEF InstanceLike
<1> DEFINE S == { t \in 1 .. l : in.labels[t] # path[t] }
<1>6. IsFiniteSet(1 .. l) /\ Cardinality(1 .. l) = l
  BY <1>4, FS_Interval
<1>7. Cardinality(S) \in Nat /\ Cardinality(S) <= l
  <2>1. IsFiniteSet(S) /\ Cardinality(S) <= Cardinality(1 .. l)
    BY <1>6, FS_Subset
  <2>2. Cardinality(S) \in Nat
    BY <2>1, FS_CardinalityType
  <2> QED
    BY <1>6, <2>1, <2>2
<1>8. Diff(in.labels, path) = Cardinality(S)
  BY <1>4 DEF Diff
<1> HIDE DEF S
<1>9. PICK d \in Nat : d = Diff(in.labels, path) /\ d \in 0 .. l
  BY <1>4, <1>7, <1>8
<1>10. d \in DOMAIN SquareRoot
  BY <1>1, <1>2, <1>5, <1>9, OnlineAssumption
<1>11. Lowest(SquareRoot[d]) /\ ~Less(SquareRoot[d], Zero)
  BY <1>10, OnlineAssumption
<1>12. SquareRoot[d] \in Fraction
  BY <1>11 DEF Lowest
<1>13. SquareRoot[d] \in Numbers /\ SquareRoot[d][1] >= 0
  BY <1>11, <1>12, NotNegative DEF Numbers
<1> QED
  BY <1>2, <1>9, <1>13

(* What an update should leave, and what it finds.                          *)
LossOf(weights, diff, needed) == Add(needed, Minus(Dot(weights, diff)))

Squares(diff) == [k \in Fids |-> Whole(diff[k] * diff[k])]

LEMMA ErrIs ==
  ASSUME OnlineTyped, n <= N, NEW path \in PathsOf(Instance), NEW needed \in Numbers
  PROVE  /\ Add(Err(path), needed) = LossOf(w, Difference(Instance, path), needed)
         /\ Err(path) \in Numbers /\ Add(Err(path), needed) \in Numbers
<1>1. PICK in, right, wrong, diff : /\ in = Instance /\ right = FeatureVector(in, in.labels)
                                    /\ wrong = FeatureVector(in, path) /\ diff = Difference(in, path)
  OBVIOUS
<1>2. InstanceLike(in) /\ path \in PathsOf(in) /\ w \in [Fids -> Numbers]
  BY <1>1, InstanceIs DEF OnlineTyped, Vectors
<1>3. right \in [Fids -> Int] /\ wrong \in [Fids -> Int] /\ diff \in [Fids -> Int]
  BY <1>1, <1>2, LabelsArePath, VectorIsWhole, DifferenceIsWhole
<1>4. \A k \in Fids : diff[k] = right[k] - wrong[k]
  BY <1>1, <1>2, DifferenceIsWhole
<1>5. Dot(w, diff) = Add(Dot(w, right), Minus(Dot(w, wrong)))
  BY <1>2, <1>3, <1>4, DotOfDifference
<1>6. PICK x \in Numbers, y \in Numbers : x = Dot(w, right) /\ y = Dot(w, wrong)
  BY <1>2, <1>3, DotIsSum
<1>7. Err(path) = Add(y, Minus(x))
  BY <1>1, <1>6 DEF Err, PathScore, Add
<1>8. Minus(x) \in Numbers /\ Minus(y) \in Numbers
  BY MinusNumber
<1>9. Add(y, Minus(x)) \in Numbers /\ Minus(Add(x, Minus(y))) = Add(y, Minus(x))
  <2>1. Minus(Add(x, Minus(y))) = Add(Minus(x), Minus(Minus(y))) /\ Minus(Minus(y)) = y
    BY <1>8, MinusResults
  <2> QED
    BY <1>8, <2>1, PlusTurns, AddNumber
<1>10. Add(Err(path), needed) = Add(needed, Minus(Dot(w, diff))) /\ Add(Err(path), needed) \in Numbers
  BY <1>5, <1>6, <1>7, <1>9, PlusTurns, AddNumber
<1> QED
  BY <1>1, <1>7, <1>9, <1>10 DEF LossOf

LEMMA SquaresAre ==
  ASSUME NEW diff \in [Fids -> Int]
  PROVE  /\ Squares(diff) \in Vectors /\ NoneNegative(Squares(diff), K)
         /\ VecSum(Squares(diff)) \in Numbers /\ VecSum(Squares(diff))[1] >= 0
         /\ \A k \in Fids : diff[k] = 0 => Squares(diff)[k] = Zero
<1>1. PICK row : row = Squares(diff)
  OBVIOUS
<1>2. ASSUME NEW k \in Fids
      PROVE  row[k] \in Numbers /\ row[k][1] >= 0 /\ (diff[k] = 0 => row[k] = Zero)
  <2>1. PICK d \in Int, q \in Int : d = diff[k] /\ q = d * d /\ q >= 0
    <3>1. diff[k] \in Int
      OBVIOUS
    <3>2. diff[k] * diff[k] \in Int /\ diff[k] * diff[k] >= 0
      BY <3>1
    <3> QED
      BY <3>1, <3>2
  <2>2. row[k] = Whole(q)
    BY <1>1, <2>1 DEF Squares
  <2>3. d = 0 => q = 0
    BY <2>1
  <2> QED
    BY <2>1, <2>2, <2>3, WholeNumber DEF Whole
<1>3. row \in [1 .. K -> Numbers] /\ row \in Vectors
  <2>1. DOMAIN row = Fids /\ row = [k \in Fids |-> row[k]]
    BY <1>1 DEF Squares
  <2> QED
    BY <1>2, <2>1, FidsFinite DEF Vectors
<1>4. NoneNegative(row, K)
  BY <1>2, FidsFinite DEF NoneNegative
<1>5. VecSum(row) \in Numbers /\ VecSum(row)[1] >= 0
  BY <1>3, <1>4, FidsFinite, SumNumber, SumNotNegative
<1> QED
  BY <1>1, <1>2, <1>3, <1>4, <1>5

(* The difference that an update is about, in the code's form.              *)
LEMMA DeltaIsDifference ==
  ASSUME OnlineTyped, n <= N, NEW path \in PathsOf(Instance), NEW d, d = Delta(Collected(Instance, path))
  PROVE  /\ GoodDelta(d) /\ d.delta = Difference(Instance, path)
         /\ Norm2(d) = VecSum(Squares(Difference(Instance, path)))
<1>1. PICK diff, hits : diff = Difference(Instance, path) /\ hits = Collected(Instance, path)
  OBVIOUS
<1>2. InstanceLike(Instance) /\ GoodDelta(dc)
  BY InstanceIs DEF OnlineTyped
<1>3. hits \in Seq(Pairs) /\ \A k \in Fids : SumOfHits(hits, k) = diff[k]
  BY <1>1, <1>2, CollectedIsDifference
<1>4. diff \in [Fids -> Int]
  BY <1>1, <1>2, DifferenceIsWhole
<1>5. GoodDelta(d) /\ \A k \in Fids : d.delta[k] = diff[k]
  BY <1>1, <1>2, <1>3, DeltaOf
<1>6. d.delta = diff
  <2>1. d.delta \in [Fids -> Int]
    BY <1>5 DEF GoodDelta
  <2> QED
    BY <1>4, <1>5, <2>1
<1>7. Squares(diff) \in [Fids -> Numbers] /\ \A k \in Fids : diff[k] = 0 => Squares(diff)[k] = Zero
  BY <1>4, SquaresAre DEF Vectors
<1>8. \A k \in Fids : (\A i \in 1 .. Len(d.actives) : d.actives[i] # k) => Squares(diff)[k] = Zero
  BY <1>5, <1>6, <1>7 DEF GoodDelta
<1>9. Active(d, Squares(diff)) = VecSum(Squares(diff))
  BY <1>5, <1>7, <1>8, ActiveIsAll
<1>10. Norm2(d) = Active(d, Squares(diff))
  BY <1>6 DEF Norm2, Squares
<1> QED
  BY <1>1, <1>5, <1>6, <1>9, <1>10

LEMMA SameFactor ==
  ASSUME NEW a \in Numbers, NEW b \in Numbers, NEW y \in Numbers, y # Zero, Times(a, y) = Times(b, y)
  PROVE  a = b
<1>1. PICK d \in Numbers : d = Add(b, Minus(a))
  BY MinusNumber, AddNumber
<1>2. Times(d, y) = Zero
  <2>1. Minus(a) \in Numbers /\ Times(a, y) \in Numbers
    BY MinusNumber, TimesNumber
  <2>2. Times(d, y) = Add(Times(b, y), Times(Minus(a), y))
    BY <1>1, <2>1, Spreads
  <2>3. Times(Minus(a), y) = Minus(Times(a, y))
    BY MinusResults
  <2> QED
    BY <2>1, <2>2, <2>3, MinusNumber
<1>3. d = Zero
  BY <1>2, ProductNotZero DEF Numbers, Times
<1>4. Add(b, Minus(a)) = Zero /\ Minus(a) \in Numbers
  BY <1>1, <1>3, MinusNumber
<1>5. Minus(b) = Minus(a)
  BY <1>4, OnlyMinus
<1> QED
  BY <1>5, MinusResults

LEMMA OnlyQuotient ==
  ASSUME NEW q \in Numbers, NEW x \in Numbers, NEW y \in Numbers, y # Zero, Times(q, y) = x
  PROVE  q = DividedBy(x, y)
BY DividedNumber, SameFactor

LEMMA InverseTwice ==
  ASSUME NEW y \in Numbers, Positive(y)
  PROVE  DividedBy(One, DividedBy(One, y)) = y
<1>1. Positive(One)
  BY ConstantsLowest DEF Positive, One
<1>2. PICK r \in Numbers : r = DividedBy(One, y) /\ Positive(r) /\ Times(r, y) = One
  BY <1>1, ZeroNumber, PositiveQuotient
<1>3. r # Zero /\ Times(y, r) = One
  BY <1>2, PositiveNumber, TimesTurns
<1> QED
  BY <1>2, <1>3, ZeroNumber, OnlyQuotient

LEMMA QuotientOfSum ==
  ASSUME NEW x \in Numbers, NEW z \in Numbers, NEW y \in Numbers, y # Zero
  PROVE  DividedBy(Add(x, z), y) = Add(DividedBy(x, y), DividedBy(z, y))
<1>1. PICK q \in Numbers, r \in Numbers : /\ q = DividedBy(x, y) /\ r = DividedBy(z, y)
                                          /\ Times(q, y) = x /\ Times(r, y) = z
  BY DividedNumber
<1>2. Times(Add(q, r), y) = Add(x, z) /\ Add(q, r) \in Numbers /\ Add(x, z) \in Numbers
  BY <1>1, Spreads, AddNumber
<1> QED
  BY <1>1, <1>2, OnlyQuotient

LEMMA QuotientOfZero ==
  ASSUME NEW y \in Numbers, y # Zero
  PROVE  DividedBy(Zero, y) = Zero
<1>1. Times(Zero, y) = Zero
  BY Neutral
<1> QED
  BY <1>1, ZeroNumber, OnlyQuotient

(* tau0, tau1 and tau2, by what they come to.                               *)
Slack == DividedBy(Share(2), opt.c)

LEMMA SlackIs ==
  ASSUME opt \in OnlineOptions
  PROVE  Slack \in Numbers /\ Positive(Slack) /\ Times(Slack, opt.c) = Share(2)
<1>1. Share(2) \in Numbers /\ Positive(Share(2))
  BY ShareOf DEF Positive, Share, Numbers
<1> QED
  BY <1>1, OptionsAre, PositiveQuotient DEF Slack

LEMMA TauIs ==
  ASSUME opt \in OnlineOptions, NEW cost \in Numbers, NEW norm2 \in Numbers, norm2[1] >= 0,
         opt.type = 0 => norm2 # Zero
  PROVE  /\ Tau(cost, norm2) \in Numbers
         /\ opt.type = 0 => Times(Tau(cost, norm2), norm2) = cost
         /\ opt.type = 1 => Tau(cost, norm2) = IF norm2 = Zero THEN opt.c ELSE Least(opt.c, DividedBy(cost, norm2))
         /\ opt.type = 2 => Times(Tau(cost, norm2), Add(norm2, Slack)) = cost
<1>1. opt.type \in {0, 1, 2} /\ opt.c \in Numbers /\ Slack \in Numbers /\ Positive(Slack)
  BY OptionsAre, SlackIs
<1>2. CASE opt.type = 0
  <2>1. Tau(cost, norm2) = DividedBy(cost, norm2)
    BY <1>2 DEF Tau
  <2> QED
    BY <1>2, <2>1, DividedNumber
<1>3. CASE opt.type = 1
  <2>1. Tau(cost, norm2) = IF norm2 = Zero THEN opt.c ELSE Least(opt.c, DividedBy(cost, norm2))
    BY <1>3 DEF Tau
  <2>2. norm2 # Zero => DividedBy(cost, norm2) \in Numbers
    BY DividedNumber
  <2> QED
    BY <1>1, <1>3, <2>1, <2>2 DEF Least
<1>4. CASE opt.type = 2
  <2>1. Tau(cost, norm2) = DividedBy(cost, Add(norm2, Slack))
    BY <1>4 DEF Tau, Add, Slack, Share
  <2>2. Add(norm2, Slack) \in Numbers /\ Add(norm2, Slack) # Zero
    BY <1>1, AddNumber, MorePositive, PositiveNumber
  <2> QED
    BY <1>4, <2>1, <2>2, DividedNumber
<1> QED
  BY <1>1, <1>2, <1>3, <1>4

(* w moves by change, and ws by change with the number of vectors before.   *)
MovedBy(change) ==
  /\ change \in Vectors /\ w' \in Vectors /\ ws' \in Vectors
  /\ \A k \in Fids : w'[k] = Add(w[k], change[k]) /\ ws'[k] = Add(ws[k], Times(change[k], Whole(c)))

LEMMA PerceptronDoes ==
  ASSUME OnlineTyped, n <= N, NEW path \in PathsOf(Instance), PerceptronUpdate(path)
  PROVE  cov' = cov /\ dc' = dc /\ \E change \in Vectors : MovedBy(change)
<1>1. PICK hits : hits = Collected(Instance, path)
  OBVIOUS
<1>2. InstanceLike(Instance) /\ w \in Vectors /\ ws \in Vectors /\ c \in Int
  BY InstanceIs DEF OnlineTyped
<1>3. hits \in Seq(Pairs)
  BY <1>1, <1>2, CollectedIsDifference
<1>4. ASSUME NEW k \in Fids
      PROVE  /\ Whole(SumOfHits(hits, k)) \in Numbers
             /\ Whole(c * SumOfHits(hits, k)) = Times(Whole(SumOfHits(hits, k)), Whole(c))
             /\ Whole(c * SumOfHits(hits, k)) \in Numbers
  <2>1. SumOfHits(hits, k) \in Int /\ c \in Int /\ c * SumOfHits(hits, k) = SumOfHits(hits, k) * c
    <3>1. SumOfHits(hits, k) \in Int
      BY <1>3, HitsAreWhole
    <3> QED
      BY <1>2, <3>1
  <2>2. Whole(SumOfHits(hits, k) * c) = Times(Whole(SumOfHits(hits, k)), Whole(c))
    BY <2>1, WholeResults
  <2> QED
    BY <2>1, <2>2, WholeNumber, TimesNumber
<1>5. PICK change \in Vectors : \A k \in Fids : change[k] = Whole(SumOfHits(hits, k))
  <2>1. [k \in Fids |-> Whole(SumOfHits(hits, k))] \in Vectors
    BY <1>4 DEF Vectors
  <2> QED
    BY <2>1
<1>6. /\ w' = [k \in Fids |-> Add(w[k], Whole(SumOfHits(hits, k)))]
      /\ ws' = [k \in Fids |-> Add(ws[k], Whole(c * SumOfHits(hits, k)))]
  BY <1>1 DEF PerceptronUpdate, Add
<1>7. \A k \in Fids : w[k] \in Numbers /\ ws[k] \in Numbers
  BY <1>2 DEF Vectors
<1>8. w' \in Vectors /\ ws' \in Vectors
  BY <1>4, <1>6, <1>7, AddNumber DEF Vectors
<1>9. MovedBy(change)
  BY <1>4, <1>5, <1>6, <1>8 DEF MovedBy
<1> QED
  BY <1>9 DEF PerceptronUpdate

LEMMA NeededIs ==
  ASSUME OnlineTyped, n <= N, NEW path \in PathsOf(Instance)
  PROVE  Needed(path) \in Numbers /\ Needed(path)[1] >= 0 /\ Whole(Diff(Instance.labels, path)) \in Numbers
<1>1. One \in Numbers /\ One[1] >= 0
  BY ZeroNumber DEF One
<1>2. Diff(Instance.labels, path) \in Int
  BY DiffIs
<1> QED
  BY <1>1, <1>2, DiffIs, WholeNumber DEF Needed

LEMMA PassiveAggressiveDoes ==
  ASSUME OnlineTyped, n <= N, NEW path \in PathsOf(Instance), PassiveAggressiveUpdate(path),
         NEW diff, diff = Difference(Instance, path), NEW cost, cost = LossOf(w, diff, Needed(path))
  PROVE  /\ cov' = cov /\ GoodDelta(dc') /\ cost \in Numbers /\ diff \in [Fids -> Int]
         /\ opt.type = 0 => VecSum(Squares(diff)) # Zero
         /\ Tau(cost, VecSum(Squares(diff))) \in Numbers
         /\ \E change \in Vectors :
              /\ MovedBy(change)
              /\ \A k \in Fids : change[k] = Times(Tau(cost, VecSum(Squares(diff))), Whole(diff[k]))
<1>1. PICK d : d = Delta(Collected(Instance, path))
  OBVIOUS
<1>2. PICK norm2 : norm2 = VecSum(Squares(diff))
  OBVIOUS
<1>3. GoodDelta(d) /\ d.delta = diff /\ Norm2(d) = norm2
  BY <1>1, <1>2, DeltaIsDifference
<1>4. Needed(path) \in Numbers
  BY NeededIs
<1>5. Add(Err(path), Needed(path)) = cost /\ cost \in Numbers
  BY <1>4, ErrIs
<1>6. diff \in [Fids -> Int]
  BY <1>3 DEF GoodDelta
<1>7. norm2 \in Numbers /\ norm2[1] >= 0
  BY <1>2, <1>6, SquaresAre
<1>8. PICK tau : tau = Tau(cost, norm2)
  OBVIOUS
<1>9. /\ opt.type = 0 => norm2 # Zero
      /\ dc' = d /\ cov' = cov
      /\ w' = Added(w, d, tau)
      /\ ws' = Added(ws, d, Times(tau, Whole(c)))
  BY <1>1, <1>3, <1>5, <1>8 DEF PassiveAggressiveUpdate, Add
<1>10. w \in Vectors /\ ws \in Vectors /\ c \in Int /\ opt \in OnlineOptions
  BY DEF OnlineTyped
<1>11. tau \in Numbers
  BY <1>5, <1>7, <1>8, <1>9, <1>10, TauIs
<1>12. Whole(c) \in Numbers /\ Times(tau, Whole(c)) \in Numbers
  BY <1>10, <1>11, WholeNumber, TimesNumber
<1>13. w' \in Vectors /\ \A k \in Fids : w'[k] = Add(w[k], Times(tau, Whole(diff[k])))
  BY <1>3, <1>9, <1>10, <1>11, AddedIsPlus DEF Vectors
<1>14. ws' \in Vectors /\ \A k \in Fids : ws'[k] = Add(ws[k], Times(Times(tau, Whole(c)), Whole(diff[k])))
  <2>1. PICK x \in Numbers : x = Times(tau, Whole(c))
    BY <1>12
  <2>2. /\ Added(ws, d, x) \in [Fids -> Numbers]
        /\ \A k \in Fids : Added(ws, d, x)[k] = Add(ws[k], Times(x, Whole(d.delta[k])))
    BY <1>3, <1>10, AddedIsPlus DEF Vectors
  <2> QED
    BY <1>3, <1>9, <2>1, <2>2 DEF Vectors
<1>15. ASSUME NEW k \in Fids
       PROVE  /\ Times(Times(tau, Whole(c)), Whole(diff[k])) = Times(Times(tau, Whole(diff[k])), Whole(c))
              /\ Times(tau, Whole(diff[k])) \in Numbers
  <2>1. PICK x \in Numbers, y \in Numbers : x = Whole(c) /\ y = Whole(diff[k])
    BY <1>6, <1>12, WholeNumber
  <2>2. Times(Times(tau, x), y) = Times(tau, Times(x, y)) /\ Times(Times(tau, y), x) = Times(tau, Times(y, x))
    BY <1>11, TimesRegroups
  <2> QED
    BY <1>11, <2>1, <2>2, TimesTurns, TimesNumber
<1>16. PICK change \in Vectors : \A k \in Fids : change[k] = Times(tau, Whole(diff[k]))
  <2>1. [k \in Fids |-> Times(tau, Whole(diff[k]))] \in Vectors
    BY <1>15 DEF Vectors
  <2> QED
    BY <2>1
<1>17. MovedBy(change)
  BY <1>13, <1>14, <1>15, <1>16 DEF MovedBy
<1> QED
  BY <1>2, <1>3, <1>5, <1>6, <1>8, <1>9, <1>11, <1>16, <1>17

LEMMA QuotientNotNegative ==
  ASSUME NEW x \in Numbers, NEW y \in Numbers, Positive(y), x[1] >= 0
  PROVE  DividedBy(x, y) \in Numbers /\ DividedBy(x, y)[1] >= 0
<1>1. PICK a \in Int, b \in Nat \ {0}, p \in Int, q \in Nat \ {0} :
        Equals(x, a, b) /\ Equals(y, p, q) /\ a = x[1] /\ p = y[1]
  BY FractionEquals DEF Numbers
<1>2. a >= 0 /\ p > 0 /\ a * q >= 0
  <2>1. a >= 0 /\ p > 0
    BY <1>1 DEF Positive
  <2> QED
    BY <2>1
<1>3. Equals(DividedBy(x, y), a * q, b * p)
  BY <1>1, <1>2, DividedByEquals
<1>4. DividedBy(x, y)[1] >= 0
  BY <1>2, <1>3, PositiveOf
<1> QED
  BY <1>4, PositiveNumber, DividedNumber

(* AROW: the spread is the part of the squares that is still uncertain.     *)
Spread(variances, diff) == [k \in Fids |-> Times(variances[k], Whole(diff[k] * diff[k]))]

LEMMA SpreadIs ==
  ASSUME NEW variances \in Vectors, \A k \in Fids : Positive(variances[k]), NEW diff \in [Fids -> Int]
  PROVE  /\ Spread(variances, diff) \in Vectors
         /\ \A k \in Fids : /\ Spread(variances, diff)[k] = Times(variances[k], Squares(diff)[k])
                            /\ diff[k] = 0 => Spread(variances, diff)[k] = Zero
         /\ VecSum(Spread(variances, diff)) \in Numbers /\ VecSum(Spread(variances, diff))[1] >= 0
<1>1. PICK row, squares : row = Spread(variances, diff) /\ squares = Squares(diff)
  OBVIOUS
<1>2. /\ squares \in Vectors /\ NoneNegative(squares, K)
      /\ \A k \in Fids : diff[k] = 0 => squares[k] = Zero
  BY <1>1, SquaresAre
<1>3. ASSUME NEW k \in Fids
      PROVE  /\ row[k] = Times(variances[k], squares[k]) /\ row[k] \in Numbers /\ row[k][1] >= 0
             /\ diff[k] = 0 => row[k] = Zero
  <2>1. PICK x \in Numbers, y \in Numbers : x = variances[k] /\ y = squares[k]
    BY <1>2 DEF Vectors
  <2>2. x[1] >= 0 /\ y[1] >= 0 /\ x \in Fraction /\ y \in Fraction
    <3>1. y[1] >= 0
      BY <1>2, <2>1, FidsFinite DEF NoneNegative
    <3>2. x \in Fraction /\ x[1] > 0
      BY <2>1 DEF Positive
    <3>3. x[1] \in Int
      BY <3>2, FractionEquals
    <3> QED
      BY <3>1, <3>2, <3>3 DEF Numbers
  <2>3. row[k] = Times(x, y)
    BY <1>1, <2>1 DEF Spread, Squares
  <2>4. Times(x, y)[1] >= 0 /\ Times(x, y) \in Numbers
    BY <2>2, PlusNotNegative, TimesNumber DEF Times
  <2>5. Times(x, Zero) = Zero
    BY Neutral
  <2> QED
    BY <1>2, <2>1, <2>3, <2>4, <2>5
<1>4. row \in [1 .. K -> Numbers] /\ row \in Vectors /\ NoneNegative(row, K)
  <2>1. DOMAIN row = Fids /\ row = [k \in Fids |-> row[k]]
    BY <1>1 DEF Spread
  <2> QED
    BY <1>3, <2>1, FidsFinite DEF Vectors, NoneNegative
<1>5. VecSum(row) \in Numbers /\ VecSum(row)[1] >= 0
  BY <1>4, FidsFinite, SumNumber, SumNotNegative
<1> QED
  BY <1>1, <1>3, <1>4, <1>5

LEMMA ArowDoes ==
  ASSUME OnlineTyped, n <= N, NEW path \in PathsOf(Instance), ArowUpdate(path),
         NEW diff, diff = Difference(Instance, path),
         NEW cost, cost = LossOf(w, diff, Whole(Diff(Instance.labels, path))),
         NEW frac, frac = Add(opt.gamma, VecSum(Spread(cov, diff)))
  PROVE  /\ ws' = ws /\ GoodDelta(dc') /\ cost \in Numbers /\ diff \in [Fids -> Int]
         /\ frac \in Numbers /\ Positive(frac)
         /\ w' \in Vectors
         /\ \A k \in Fids : w'[k] = Add(w[k], Times(DividedBy(cost, frac), Times(cov[k], Whole(diff[k]))))
         /\ cov' \in Vectors
         /\ \A k \in Fids :
              /\ Positive(cov'[k])
              /\ DividedBy(One, cov'[k]) = Add(DividedBy(One, cov[k]), DividedBy(Squares(diff)[k], opt.gamma))
<1> DEFINE Prod(d) == [k \in Fids |-> Whole(d.delta[k] * d.delta[k])]
           Alpha(d) == DividedBy(plus[Err(path), Whole(Diff(Instance.labels, path))],
                                 plus[opt.gamma, Active(d, [k \in Fids |-> Times(Prod(d)[k], cov[k])])])
           ActivesOf(d) == { d.actives[r] : r \in DOMAIN d.actives }
<1>1. PICK d \in { Delta(Collected(Instance, path)) } :
        /\ dc' = d
        /\ w' = [k \in Fids |-> IF k \in ActivesOf(d)
                                THEN plus[w[k], Times(Times(Alpha(d), cov[k]), Whole(d.delta[k]))] ELSE w[k]]
        /\ cov' = [k \in Fids |->
                     IF k \in ActivesOf(d)
                     THEN DividedBy(One, plus[DividedBy(One, cov[k]), DividedBy(Prod(d)[k], opt.gamma)])
                     ELSE cov[k]]
        /\ ws' = ws
  BY DEF ArowUpdate
<1>2. GoodDelta(d) /\ d.delta = diff
  BY <1>1, DeltaIsDifference
<1>3. Whole(Diff(Instance.labels, path)) \in Numbers
  BY NeededIs
<1>4. Add(Err(path), Whole(Diff(Instance.labels, path))) = cost /\ cost \in Numbers
  BY <1>3, ErrIs
<1>5. diff \in [Fids -> Int]
  BY <1>2 DEF GoodDelta
<1>6. /\ w \in Vectors /\ cov \in Vectors /\ opt \in OnlineOptions
      /\ \A k \in Fids : Positive(cov[k]) /\ w[k] \in Numbers /\ cov[k] \in Numbers
  BY DEF OnlineTyped, Vectors
<1>7. PICK squares : squares = Squares(diff)
  OBVIOUS
<1>8. squares \in Vectors /\ NoneNegative(squares, K) /\ \A k \in Fids : diff[k] = 0 => squares[k] = Zero
  BY <1>5, <1>7, SquaresAre
<1>9. PICK spread : spread = Spread(cov, diff)
  OBVIOUS
<1>10. /\ spread \in Vectors /\ VecSum(spread) \in Numbers /\ VecSum(spread)[1] >= 0
       /\ \A k \in Fids : /\ spread[k] = Times(cov[k], squares[k])
                          /\ diff[k] = 0 => spread[k] = Zero
  BY <1>5, <1>6, <1>7, <1>9, SpreadIs
<1>11. \A k \in Fids : (\A i \in 1 .. Len(d.actives) : d.actives[i] # k) => diff[k] = 0
  BY <1>2 DEF GoodDelta
<1>12. Active(d, spread) = VecSum(spread)
  BY <1>2, <1>10, <1>11, ActiveIsAll DEF Vectors
<1>13. spread = [k \in Fids |-> Times(Whole(d.delta[k] * d.delta[k]), cov[k])]
  <2>1. \A k \in Fids : Times(Whole(d.delta[k] * d.delta[k]), cov[k]) = spread[k]
    <3>1. ASSUME NEW k \in Fids PROVE Times(Whole(d.delta[k] * d.delta[k]), cov[k]) = spread[k]
      <4>1. PICK x \in Numbers, y \in Numbers : x = cov[k] /\ y = squares[k]
        BY <1>6, <1>8 DEF Vectors
      <4>2. Whole(d.delta[k] * d.delta[k]) = y
        BY <1>2, <1>7, <4>1 DEF Squares
      <4> QED
        BY <1>10, <4>1, <4>2, TimesTurns
    <3> QED
      BY <3>1
  <2>2. spread = [k \in Fids |-> spread[k]]
    BY <1>10 DEF Vectors
  <2> QED
    BY <2>1, <2>2
<1>14. opt.gamma \in Numbers /\ Positive(opt.gamma) /\ opt.gamma # Zero
  BY <1>6, OptionsAre, PositiveNumber
<1>15. frac \in Numbers /\ Positive(frac) /\ frac # Zero
  <2>1. PICK s \in Numbers, g \in Numbers : s = VecSum(spread) /\ g = opt.gamma /\ s[1] >= 0 /\ Positive(g)
    BY <1>10, <1>14
  <2>2. Add(g, s) \in Numbers /\ Positive(Add(g, s))
    BY <2>1, AddNumber, MorePositive
  <2> QED
    BY <1>9, <2>1, <2>2, PositiveNumber
<1>16. PICK alpha : alpha = DividedBy(cost, frac)
  OBVIOUS
<1>17. alpha \in Numbers
  BY <1>4, <1>15, <1>16, DividedNumber
<1> DEFINE Actives == ActivesOf(d)
<1>18. /\ dc' = d /\ ws' = ws
       /\ w' = [k \in Fids |-> IF k \in Actives
                               THEN Add(w[k], Times(Times(alpha, cov[k]), Whole(d.delta[k]))) ELSE w[k]]
       /\ cov' = [k \in Fids |->
                    IF k \in Actives
                    THEN DividedBy(One, Add(DividedBy(One, cov[k]), DividedBy(squares[k], opt.gamma)))
                    ELSE cov[k]]
  <2>2. squares = Prod(d)
    BY <1>2, <1>7 DEF Squares
  <2>3. [k \in Fids |-> Times(squares[k], cov[k])] = spread
    BY <1>13, <2>2
  <2>4. plus[opt.gamma, Active(d, [k \in Fids |-> Times(squares[k], cov[k])])] = frac
    BY <1>9, <1>12, <2>3 DEF Add
  <2>5. plus[Err(path), Whole(Diff(Instance.labels, path))] = cost
    BY <1>4 DEF Add
  <2>6. Alpha(d) = alpha
    BY <1>16, <2>2, <2>4, <2>5
  <2> HIDE DEF Prod, Alpha
  <2> QED
    BY <1>1, <2>2, <2>6 DEF Add
<1>19. \A k \in Fids : k \notin Actives => diff[k] = 0
  <2>1. DOMAIN d.actives = 1 .. Len(d.actives)
    BY <1>2 DEF GoodDelta
  <2> QED
    BY <1>11, <2>1
<1> HIDE DEF Actives, ActivesOf
<1>20. ASSUME NEW k \in Fids
       PROVE  /\ w'[k] = Add(w[k], Times(alpha, Times(cov[k], Whole(diff[k])))) /\ w'[k] \in Numbers
              /\ cov'[k] \in Numbers /\ Positive(cov'[k])
              /\ DividedBy(One, cov'[k]) = Add(DividedBy(One, cov[k]), DividedBy(squares[k], opt.gamma))
  <2>1. PICK x \in Numbers, v \in Numbers, y \in Numbers, s \in Numbers, g \in Numbers :
          x = w[k] /\ v = cov[k] /\ y = Whole(diff[k]) /\ s = squares[k] /\ g = opt.gamma
    BY <1>5, <1>6, <1>8, <1>14, WholeNumber DEF Vectors
  <2>2. Positive(v) /\ Positive(g) /\ g # Zero /\ s[1] >= 0
    BY <1>6, <1>8, <1>14, <2>1, FidsFinite DEF NoneNegative
  <2>3. One \in Numbers /\ Positive(One)
    BY ZeroNumber, ConstantsLowest DEF Positive, One
  <2>4. PICK i \in Numbers, q \in Numbers : i = DividedBy(One, v) /\ Positive(i) /\ q = DividedBy(s, g)
    BY <2>2, <2>3, PositiveQuotient, DividedNumber
  <2>5. q[1] >= 0
    BY <2>1, <2>2, <2>4, QuotientNotNegative
  <2>6. PICK sum \in Numbers : sum = Add(i, q) /\ Positive(sum)
    BY <2>4, <2>5, AddNumber, MorePositive
  <2>7. CASE k \in Actives
    <3>1. w'[k] = Add(x, Times(Times(alpha, v), y)) /\ cov'[k] = DividedBy(One, sum)
      BY <1>2, <1>18, <2>1, <2>4, <2>6, <2>7
    <3>2. Times(Times(alpha, v), y) = Times(alpha, Times(v, y)) /\ Times(Times(alpha, v), y) \in Numbers
      BY <1>17, TimesRegroups, TimesNumber
    <3>3. DividedBy(One, sum) \in Numbers /\ Positive(DividedBy(One, sum)) /\ DividedBy(One, DividedBy(One, sum)) = sum
      BY <2>3, <2>6, PositiveQuotient, InverseTwice
    <3> QED
      BY <2>1, <2>4, <2>6, <3>1, <3>2, <3>3, AddNumber
  <2>8. CASE k \notin Actives
    <3>1. w'[k] = x /\ cov'[k] = v /\ diff[k] = 0
      BY <1>18, <1>19, <2>1, <2>8
    <3>2. s = Zero /\ y = Zero
      BY <1>8, <2>1, <3>1, WholeNumber
    <3>3. Times(v, y) = Zero /\ Times(alpha, Zero) = Zero /\ Add(x, Zero) = x
      BY <1>17, <3>2, Neutral
    <3>4. q = Zero /\ Add(i, Zero) = i
      BY <2>2, <2>4, <3>2, QuotientOfZero, Neutral
    <3> QED
      BY <2>1, <2>2, <2>4, <3>1, <3>2, <3>3, <3>4
  <2> QED
    BY <2>7, <2>8
<1>21. w' \in Vectors /\ cov' \in Vectors
  <2>1. w' = [k \in Fids |-> w'[k]] /\ cov' = [k \in Fids |-> cov'[k]]
    BY <1>18
  <2> QED
    BY <1>20, <2>1 DEF Vectors
<1> QED
  BY <1>2, <1>4, <1>5, <1>7, <1>15, <1>16, <1>18, <1>20, <1>21

-----------------------------------------------------------------------------
(* What an update leaves of the loss of its instance.                       *)
LEMMA LeftOf ==
  ASSUME NEW needed \in Numbers, NEW score \in Numbers, NEW more \in Numbers
  PROVE  Add(needed, Minus(Add(score, more))) = Add(Add(needed, Minus(score)), Minus(more))
<1>1. Minus(score) \in Numbers /\ Minus(more) \in Numbers
  BY MinusNumber
<1>2. Minus(Add(score, more)) = Add(Minus(score), Minus(more))
  BY MinusResults
<1> QED
  BY <1>1, <1>2, PlusRegroups

(* The two vectors are one: the square, or the spread.                      *)
LEMMA DotOfParts ==
  ASSUME NEW diff \in [Fids -> Int], NEW factor \in Vectors, NEW part \in Vectors, NEW square \in Vectors,
         \A k \in Fids : /\ part[k] = Times(factor[k], Whole(diff[k]))
                         /\ square[k] = Times(factor[k], Whole(diff[k] * diff[k]))
  PROVE  Dot(part, diff) = VecSum(square)
<1>1. PICK row : row = DotRow(part, diff)
  OBVIOUS
<1>2. row \in [1 .. K -> Numbers] /\ \A k \in 1 .. K : row[k] = Times(part[k], Whole(diff[k]))
  BY <1>1, DotIsSum DEF Vectors
<1>3. ASSUME NEW k \in 1 .. K PROVE row[k] = square[k]
  <2>1. PICK f \in Numbers, d \in Int : f = factor[k] /\ d = diff[k] /\ k \in Fids
    BY FidsFinite DEF Vectors
  <2>2. Whole(d * d) = Times(Whole(d), Whole(d)) /\ Whole(d) \in Numbers
    BY WholeResults
  <2>3. Times(Times(f, Whole(d)), Whole(d)) = Times(f, Times(Whole(d), Whole(d)))
    BY <2>2, TimesRegroups
  <2>4. row[k] = Times(Times(f, Whole(d)), Whole(d)) /\ square[k] = Times(f, Whole(d * d))
    BY <1>2, <2>1
  <2> QED
    BY <2>2, <2>3, <2>4
<1>4. row = [k \in 1 .. K |-> row[k]] /\ square = [k \in 1 .. K |-> square[k]]
  BY <1>2, FidsFinite DEF Vectors
<1>5. row = square
  BY <1>3, <1>4
<1> QED
  BY <1>1, <1>5, DotIsSum DEF Vectors

LEMMA LossMoves ==
  ASSUME NEW before \in Vectors, NEW after \in Vectors, NEW part \in Vectors, NEW tau \in Numbers,
         \A k \in Fids : after[k] = Add(before[k], Times(tau, part[k])),
         NEW diff \in [Fids -> Int], NEW needed \in Numbers, NEW square \in Numbers, square = Dot(part, diff)
  PROVE  /\ LossOf(after, diff, needed) = Add(LossOf(before, diff, needed), Minus(Times(tau, square)))
         /\ LossOf(before, diff, needed) \in Numbers
<1>1. Dot(after, diff) = Add(Dot(before, diff), Times(tau, square))
  <2>1. before \in [Fids -> Numbers] /\ after \in [Fids -> Numbers] /\ part \in [Fids -> Numbers]
    BY DEF Vectors
  <2>2. AddedTo(before, after, part, tau)
    BY DEF AddedTo
  <2>3. Dot(after, diff) = Add(Dot(before, diff), Times(tau, Dot(part, diff)))
    BY <2>1, <2>2, DotOfMoved
  <2> QED
    BY <2>3
<1>2. PICK score \in Numbers, more \in Numbers : score = Dot(before, diff) /\ more = Times(tau, square)
  BY DotIsSum, TimesNumber DEF Vectors
<1>3. Add(needed, Minus(Add(score, more))) = Add(Add(needed, Minus(score)), Minus(more))
  BY LeftOf
<1>4. Add(needed, Minus(score)) \in Numbers
  BY MinusNumber, AddNumber
<1> QED
  BY <1>1, <1>2, <1>3, <1>4 DEF LossOf

LEMMA ApartBy ==
  ASSUME NEW x \in Numbers, NEW y \in Numbers
  PROVE  Less(x, y) <=> Add(y, Minus(x))[1] > 0
<1>1. PICK a \in Int, b \in Nat \ {0}, p \in Int, q \in Nat \ {0} : Equals(x, a, b) /\ Equals(y, p, q)
  BY FractionEquals DEF Numbers
<1>2. Equals(Minus(x), -a, b)
  BY <1>1, MinusEquals
<1>3. Equals(Add(y, Minus(x)), p * b + (-a) * q, q * b)
  BY <1>1, <1>2, PlusEquals DEF Add
<1>4. Add(y, Minus(x))[1] > 0 <=> p * b + (-a) * q > 0
  BY <1>3, PositiveOf
<1>5. Less(x, y) <=> a * q < p * b
  BY <1>1, LessEquals
<1>6. (-a) * q = -(a * q) /\ a * q \in Int /\ p * b \in Int
  BY <1>1
<1> QED
  BY <1>4, <1>5, <1>6

(* What is left if the step is the quotient.                                *)
LEMMA NothingLeft ==
  ASSUME NEW cost \in Numbers
  PROVE  Add(cost, Minus(cost)) = Zero
BY MinusNumber

LEMMA QuotientLeft ==
  ASSUME NEW q \in Numbers, NEW x \in Numbers, NEW y \in Numbers
  PROVE  Add(Times(q, y), Minus(Times(x, y))) = Times(Add(q, Minus(x)), y)
<1>1. Minus(x) \in Numbers /\ Minus(Times(x, y)) = Times(Minus(x), y)
  BY MinusNumber, MinusResults
<1> QED
  BY <1>1, Spreads

LEMMA SignOfTimes ==
  ASSUME NEW x \in Numbers, NEW y \in Numbers, y[1] >= 0
  PROVE  /\ x[1] > 0 => Times(x, y)[1] >= 0
         /\ x[1] <= 0 => Times(x, y)[1] <= 0
<1>1. PICK a \in Int, b \in Nat \ {0}, p \in Int, q \in Nat \ {0} :
        Equals(x, a, b) /\ Equals(y, p, q) /\ a = x[1] /\ p = y[1]
  BY FractionEquals DEF Numbers
<1>2. Equals(Times(x, y), a * p, b * q)
  BY <1>1, TimesEquals DEF Times
<1>3. (Times(x, y)[1] > 0 <=> a * p > 0) /\ (Times(x, y)[1] >= 0 <=> a * p >= 0)
  BY <1>2, PositiveOf
<1>4. p >= 0 /\ (a > 0 => a * p >= 0) /\ (a <= 0 => a * p <= 0)
  <2>1. p >= 0
    BY <1>1
  <2> QED
    BY <2>1
<1>5. Times(x, y)[1] \in Int
  BY TimesNumber, FractionEquals DEF Numbers
<1> QED
  BY <1>1, <1>3, <1>4, <1>5

LEMMA SignMeans ==
  ASSUME NEW x \in Numbers
  PROVE  /\ x[1] \in Int /\ (Less(x, Zero) <=> x[1] < 0) /\ (x[1] = 0 => x = Zero)
<1>1. x \in Fraction /\ Lowest(x) /\ x[1] \in Int
  BY FractionEquals DEF Numbers
<1>2. x[1] >= 0 <=> ~Less(x, Zero)
  BY <1>1, NotNegative
<1> QED
  BY <1>1, <1>2, ZeroMeans

(* PA-I.                                                                    *)
LEMMA LeftOfBounded ==
  ASSUME NEW cost \in Numbers, NEW norm2 \in Numbers, NEW bound \in Numbers, NEW tau \in Numbers,
         NEW rest, norm2[1] >= 0, cost[1] >= 0, rest = Add(cost, Minus(Times(bound, norm2))),
         tau = IF norm2 = Zero THEN bound ELSE Least(bound, DividedBy(cost, norm2))
  PROVE  Add(cost, Minus(Times(tau, norm2))) = IF Less(rest, Zero) THEN Zero ELSE rest
<1>1. rest \in Numbers /\ Times(bound, norm2) \in Numbers
  BY TimesNumber, MinusNumber, AddNumber
<1>2. CASE norm2 = Zero
  <2>1. Times(bound, norm2) = Zero /\ Minus(Zero) = Zero /\ Add(cost, Zero) = cost
    BY <1>2, Neutral, ZeroNumber, MinusResults
  <2>2. rest = cost /\ ~Less(cost, Zero)
    BY <2>1, SignMeans
  <2> QED
    BY <1>2, <2>1, <2>2
<1>3. CASE norm2 # Zero
  <2>1. PICK q \in Numbers : q = DividedBy(cost, norm2) /\ Times(q, norm2) = cost
    BY <1>3, DividedNumber
  <2>2. PICK d \in Numbers : d = Add(q, Minus(bound)) /\ rest = Times(d, norm2)
    BY <2>1, QuotientLeft, MinusNumber, AddNumber
  <2>3. Less(bound, q) <=> d[1] > 0
    BY <2>2, ApartBy
  <2>4. d[1] \in Int /\ rest[1] \in Int
    BY <1>1, SignMeans
  <2>5. CASE Less(bound, q)
    <3>1. tau = bound
      BY <1>3, <2>1, <2>5 DEF Least
    <3>2. rest[1] >= 0
      BY <2>2, <2>3, <2>5, SignOfTimes
    <3>3. ~Less(rest, Zero)
      BY <1>1, <2>4, <3>2, SignMeans
    <3> QED
      BY <3>1, <3>3
  <2>6. CASE ~Less(bound, q)
    <3>1. tau = q
      BY <1>3, <2>1, <2>6 DEF Least
    <3>2. Add(cost, Minus(Times(tau, norm2))) = Zero
      BY <2>1, <3>1, NothingLeft
    <3>3. rest[1] <= 0
      <4>1. d[1] <= 0
        BY <2>3, <2>4, <2>6
      <4> QED
        BY <2>2, <4>1, SignOfTimes
    <3>4. Less(rest, Zero) \/ rest = Zero
      BY <1>1, <2>4, <3>3, SignMeans
    <3> QED
      BY <3>2, <3>4
  <2> QED
    BY <2>5, <2>6
<1> QED
  BY <1>2, <1>3

(* PA-II and AROW: a step that is the quotient by more than the square.     *)
LEMMA LeftOfShared ==
  ASSUME NEW cost \in Numbers, NEW square \in Numbers, NEW slack \in Numbers, NEW tau \in Numbers,
         Times(tau, Add(square, slack)) = cost
  PROVE  Add(cost, Minus(Times(tau, square))) = Times(tau, slack)
<1>1. PICK a \in Numbers, b \in Numbers : a = Times(tau, square) /\ b = Times(tau, slack)
  BY TimesNumber
<1>2. cost = Add(b, a)
  <2>1. Times(Add(square, slack), tau) = Add(Times(square, tau), Times(slack, tau))
    BY Spreads
  <2>2. /\ Times(tau, Add(square, slack)) = Times(Add(square, slack), tau)
        /\ a = Times(square, tau) /\ b = Times(slack, tau)
    BY <1>1, AddNumber, TimesTurns
  <2>3. cost = Add(a, b)
    BY <2>1, <2>2
  <2> QED
    BY <2>3, PlusTurns
<1> QED
  BY <1>1, <1>2, Moves

LEMMA LeftOfSlack ==
  ASSUME opt \in OnlineOptions, NEW cost \in Numbers, NEW norm2 \in Numbers, norm2[1] >= 0,
         NEW tau \in Numbers, Times(tau, Add(norm2, Slack)) = cost
  PROVE  Add(cost, Minus(Times(tau, norm2)))
           = DividedBy(cost, Add(One, Times(Whole(2), Times(opt.c, norm2))))
<1>1. PICK h \in Numbers, b \in Numbers, two \in Numbers, half \in Numbers :
        h = Slack /\ b = opt.c /\ two = Whole(2) /\ half = Share(2) /\ Times(h, b) = half /\ Times(two, half) = One
  BY SlackIs, OptionsAre, WholeNumber, ShareOf
<1>2. PICK m \in Numbers, e \in Numbers : m = Times(two, Times(b, norm2)) /\ e = Add(One, m)
  BY TimesNumber, AddNumber, ZeroNumber
<1>3. Times(h, m) = norm2
  <2>1. PICK bn \in Numbers : bn = Times(b, norm2)
    BY TimesNumber
  <2>2. Times(h, Times(two, bn)) = Times(Times(two, bn), h) /\ Times(Times(two, bn), h) = Times(two, Times(bn, h))
    BY TimesNumber, TimesTurns, TimesRegroups
  <2>3. Times(bn, h) = Times(h, bn) /\ Times(h, Times(b, norm2)) = Times(Times(h, b), norm2)
    BY TimesTurns, TimesRegroups
  <2>4. Times(two, Times(half, norm2)) = Times(Times(two, half), norm2)
    BY TimesRegroups
  <2>5. Times(One, norm2) = norm2
    BY ZeroNumber, TimesTurns, Neutral
  <2> QED
    BY <1>1, <1>2, <2>1, <2>2, <2>3, <2>4, <2>5
<1>4. Times(h, e) = Add(norm2, h)
  <2>1. Times(Add(One, m), h) = Add(Times(One, h), Times(m, h))
    BY ZeroNumber, Spreads
  <2>2. Times(One, h) = h /\ Times(m, h) = Times(h, m) /\ Times(h, e) = Times(e, h)
    BY ZeroNumber, TimesTurns, Neutral
  <2>3. Add(h, norm2) = Add(norm2, h)
    BY PlusTurns
  <2> QED
    BY <1>2, <1>3, <2>1, <2>2, <2>3
<1>5. Add(cost, Minus(Times(tau, norm2))) = Times(tau, h)
  BY <1>1, LeftOfShared
<1>6. Times(tau, h) \in Numbers /\ Times(Times(tau, h), e) = cost
  BY <1>1, <1>4, TimesNumber, TimesRegroups
<1>7. e # Zero
  <2>1. m[1] >= 0
    <3>1. Positive(b) /\ Positive(two)
      BY <1>1, OptionsAre DEF Positive, Whole, Numbers
    <3>2. Times(b, norm2) \in Numbers /\ Times(b, norm2)[1] >= 0
      BY <3>1, SignOfTimes, TimesNumber DEF Positive
    <3> QED
      BY <1>2, <3>1, <3>2, SignOfTimes DEF Positive
  <2>2. Positive(One)
    BY ConstantsLowest DEF Positive, One
  <2> QED
    BY <1>2, <2>1, <2>2, ZeroNumber, MorePositive, PositiveNumber
<1>8. Times(tau, h) = DividedBy(cost, e)
  BY <1>6, <1>7, OnlyQuotient
<1> QED
  BY <1>1, <1>2, <1>5, <1>8

LEMMA LeftOfArow ==
  ASSUME NEW cost \in Numbers, NEW spread \in Numbers, NEW gamma \in Numbers,
         NEW frac \in Numbers, frac = Add(gamma, spread), frac # Zero
  PROVE  Add(cost, Minus(Times(DividedBy(cost, frac), spread))) = Times(cost, DividedBy(gamma, frac))
<1>1. PICK alpha \in Numbers, r \in Numbers :
        /\ alpha = DividedBy(cost, frac) /\ Times(alpha, frac) = cost
        /\ r = DividedBy(gamma, frac) /\ Times(r, frac) = gamma
  BY DividedNumber
<1>2. Add(spread, gamma) = frac
  BY PlusTurns
<1>3. Add(cost, Minus(Times(alpha, spread))) = Times(alpha, gamma)
  BY <1>1, <1>2, LeftOfShared
<1>4. Times(alpha, gamma) = Times(cost, r)
  <2>1. Times(alpha, Times(frac, r)) = Times(Times(alpha, frac), r) /\ Times(frac, r) = Times(r, frac)
    BY TimesRegroups, TimesTurns
  <2> QED
    BY <1>1, <2>1
<1> QED
  BY <1>1, <1>3, <1>4

-----------------------------------------------------------------------------
(* Reached, for the two algorithms with a margin.                           *)
Update(inst, path, weights, variances, after) ==
  [inst |-> inst, path |-> path, w |-> weights, cov |-> variances, after |-> after]

LeftBy(cost, norm2) ==
  CASE opt.type = 1 -> LET rest == Add(cost, Minus(Times(opt.c, norm2))) IN IF Less(rest, Zero) THEN Zero ELSE rest
    [] opt.type = 2 -> DividedBy(cost, Add(One, Times(Whole(2), Times(opt.c, norm2))))
    [] OTHER        -> Zero

LEMMA ReachedByPassiveAggressive ==
  ASSUME NEW inst, NEW path, NEW weights, NEW variances, NEW after, NEW diff, diff = Difference(inst, path),
         opt.algorithm # "arow", NEW needed,
         needed = IF opt.error_sensitive THEN SquareRoot[Diff(inst.labels, path)] ELSE One
  PROVE  Reached(Update(inst, path, weights, variances, after)) <=>
           LossOf(after, diff, needed) = LeftBy(LossOf(weights, diff, needed), VecSum(Squares(diff)))
<1>1. PICK u : u = Update(inst, path, weights, variances, after)
  OBVIOUS
<1>2. u.inst = inst /\ u.path = path /\ u.w = weights /\ u.cov = variances /\ u.after = after
  BY <1>1 DEF Update
<1>3. PICK norm2 : norm2 = VecSum(Squares(diff))
  OBVIOUS
<1>4. norm2 = VecSum([k \in Fids |-> Whole(diff[k] * diff[k])])
  BY <1>3 DEF Squares
<1>5. PICK cost, rest : cost = LossOf(weights, diff, needed) /\ rest = Add(cost, Minus(Times(opt.c, norm2)))
  OBVIOUS
<1>6. PICK now : now = LossOf(after, diff, needed)
  OBVIOUS
<1>7. /\ now = plus[needed, Minus(Dot(after, diff))] /\ cost = plus[needed, Minus(Dot(weights, diff))]
       /\ rest = plus[cost, Minus(Times(opt.c, norm2))]
  BY <1>5, <1>6 DEF LossOf, Add
<1>8. PICK share, part : /\ share = plus[One, Times(Whole(2), Times(opt.c, norm2))]
                          /\ part = DividedBy(opt.gamma, plus[opt.gamma, VecSum(Spread(variances, diff))])
  OBVIOUS
<1>9. Reached(u) <=>
         now = CASE opt.algorithm = "arow" -> Times(cost, part)
                 [] opt.algorithm # "arow" /\ opt.type = 1 -> IF Less(rest, Zero) THEN Zero ELSE rest
                 [] opt.algorithm # "arow" /\ opt.type = 2 -> DividedBy(cost, share)
                 [] OTHER -> Zero
  <2>1. needed = IF opt.algorithm = "arow" THEN Whole(Diff(u.inst.labels, u.path))
                 ELSE IF opt.error_sensitive THEN SquareRoot[Diff(u.inst.labels, u.path)] ELSE One
    BY <1>2
  <2> QED
    BY <1>2, <1>4, <1>7, <1>8, <2>1 DEF Reached, Margin, Spread
<1>10. CASE opt.type = 1
  <2>1. Reached(u) <=> now = IF Less(rest, Zero) THEN Zero ELSE rest
    BY <1>10, <1>9
  <2>2. LeftBy(cost, norm2) = IF Less(rest, Zero) THEN Zero ELSE rest
    BY <1>5, <1>10 DEF LeftBy
  <2> QED
    BY <1>1, <1>3, <1>5, <1>6, <2>1, <2>2
<1>11. CASE opt.type = 2
  <2>1. LeftBy(cost, norm2) = DividedBy(cost, Add(One, Times(Whole(2), Times(opt.c, norm2))))
    BY <1>11 DEF LeftBy
  <2>2. Reached(u) <=> now = DividedBy(cost, share)
    BY <1>11, <1>9
  <2>3. share = Add(One, Times(Whole(2), Times(opt.c, norm2)))
    BY <1>8 DEF Add
  <2> QED
    BY <1>1, <1>3, <1>5, <1>6, <2>1, <2>2, <2>3
<1>12. CASE opt.type # 1 /\ opt.type # 2
  <2>1. LeftBy(cost, norm2) = Zero
    BY <1>12 DEF LeftBy
  <2>2. Reached(u) <=> now = Zero
    BY <1>12, <1>9
  <2> QED
    BY <1>1, <1>3, <1>5, <1>6, <2>1, <2>2
<1> QED
  BY <1>10, <1>11, <1>12

LEMMA ReachedByArow ==
  ASSUME NEW inst, NEW path, NEW weights, NEW variances, NEW after, NEW diff, diff = Difference(inst, path),
         opt.algorithm = "arow", NEW needed, needed = Whole(Diff(inst.labels, path)),
         NEW frac, frac = Add(opt.gamma, VecSum(Spread(variances, diff)))
  PROVE  Reached(Update(inst, path, weights, variances, after)) <=>
           LossOf(after, diff, needed) = Times(LossOf(weights, diff, needed), DividedBy(opt.gamma, frac))
<1>1. PICK u : u = Update(inst, path, weights, variances, after)
  OBVIOUS
<1>2. u.inst = inst /\ u.path = path /\ u.w = weights /\ u.cov = variances /\ u.after = after
  BY <1>1 DEF Update
<1> QED
  BY <1>1, <1>2 DEF Reached, LossOf, Spread, Margin, Add

LEMMA LeftByPassiveAggressive ==
  ASSUME opt \in OnlineOptions, NEW cost \in Numbers, cost[1] >= 0, NEW norm2 \in Numbers, norm2[1] >= 0,
         opt.type = 0 => norm2 # Zero
  PROVE  Add(cost, Minus(Times(Tau(cost, norm2), norm2))) = LeftBy(cost, norm2)
<1>1. PICK tau \in Numbers :
        /\ tau = Tau(cost, norm2)
        /\ opt.type = 0 => Times(tau, norm2) = cost
        /\ opt.type = 1 => tau = IF norm2 = Zero THEN opt.c ELSE Least(opt.c, DividedBy(cost, norm2))
        /\ opt.type = 2 => Times(tau, Add(norm2, Slack)) = cost
  BY TauIs
<1>2. opt.type \in {0, 1, 2} /\ opt.c \in Numbers
  BY OptionsAre
<1>3. CASE opt.type = 0
  <2>1. LeftBy(cost, norm2) = Zero
    BY <1>3 DEF LeftBy
  <2> QED
    BY <1>1, <1>3, <2>1, NothingLeft
<1>4. CASE opt.type = 1
  <2>1. PICK rest : rest = Add(cost, Minus(Times(opt.c, norm2)))
    OBVIOUS
  <2>2. LeftBy(cost, norm2) = IF Less(rest, Zero) THEN Zero ELSE rest
    BY <1>4, <2>1 DEF LeftBy
  <2>3. Add(cost, Minus(Times(tau, norm2))) = IF Less(rest, Zero) THEN Zero ELSE rest
    BY <1>1, <1>2, <1>4, <2>1, LeftOfBounded
  <2> QED
    BY <1>1, <2>2, <2>3
<1>5. CASE opt.type = 2
  <2>1. LeftBy(cost, norm2) = DividedBy(cost, Add(One, Times(Whole(2), Times(opt.c, norm2))))
    BY <1>5 DEF LeftBy
  <2> QED
    BY <1>1, <1>5, <2>1, LeftOfSlack
<1> QED
  BY <1>2, <1>3, <1>4, <1>5

LEMMA BestIsAhead ==
  ASSUME OnlineTyped, n <= N, NEW path \in BestPaths(w, Instance)
  PROVE  /\ path \in PathsOf(Instance)
         /\ ~Less(PathScore(w, Instance, path), PathScore(w, Instance, Instance.labels))
<1>1. PICK in, paths : in = Instance /\ paths = PathsOf(in)
  OBVIOUS
<1>2. in.labels \in paths
  BY <1>1, InstanceIs, LabelsArePath
<1>3. PICK score : score = [p \in paths |-> PathScore(w, in, p)]
  OBVIOUS
<1>4. BestPaths(w, in) = { best \in paths : \A p \in paths : ~Less(score[best], score[p]) }
  BY <1>1, <1>3 DEF BestPaths, PathsOf
<1>5. path \in paths /\ ~Less(score[path], score[in.labels])
  BY <1>1, <1>2, <1>4
<1> QED
  BY <1>1, <1>2, <1>3, <1>5

(* The loss of a best path is not negative.                                 *)
LEMMA CostIs ==
  ASSUME OnlineTyped, n <= N, NEW path \in BestPaths(w, Instance), NEW needed \in Numbers, needed[1] >= 0
  PROVE  LossOf(w, Difference(Instance, path), needed)[1] >= 0
<1>1. path \in PathsOf(Instance)
  BY BestIsAhead
<1>2. LossOf(w, Difference(Instance, path), needed) = Add(Err(path), needed) /\ Err(path) \in Numbers
  BY <1>1, ErrIs
<1>3. PICK x \in Numbers, y \in Numbers :
        x = PathScore(w, Instance, path) /\ y = PathScore(w, Instance, Instance.labels)
  <2>1. InstanceLike(Instance) /\ w \in [Fids -> Numbers]
    BY InstanceIs DEF OnlineTyped, Vectors
  <2>2. /\ FeatureVector(Instance, path) \in [Fids -> Int]
        /\ FeatureVector(Instance, Instance.labels) \in [Fids -> Int]
    BY <1>1, <2>1, VectorIsWhole, LabelsArePath
  <2>3. /\ Dot(w, FeatureVector(Instance, path)) \in Numbers
        /\ Dot(w, FeatureVector(Instance, Instance.labels)) \in Numbers
    BY <2>1, <2>2, DotIsSum
  <2> QED
    BY <2>3 DEF PathScore
<1>4. ~Less(x, y) /\ Err(path) = Add(x, Minus(y))
  BY <1>3, BestIsAhead DEF Err, Add
<1>5. Add(x, Minus(y))[1] >= 0
  <2>1. PICK d \in Numbers : d = Add(x, Minus(y))
    BY MinusNumber, AddNumber
  <2>2. PICK e \in Numbers : e = Add(y, Minus(x)) /\ ~(e[1] > 0)
    BY <1>4, ApartBy, MinusNumber, AddNumber
  <2>3. d = Minus(e)
    <3>1. Minus(e) = Add(Minus(y), Minus(Minus(x))) /\ Minus(Minus(x)) = x /\ Minus(y) \in Numbers
      BY <2>2, MinusNumber, MinusResults
    <3> QED
      BY <2>1, <3>1, PlusTurns
  <2>4. e[1] \in Int /\ d[1] = -e[1]
    BY <2>3, SignMeans DEF Minus
  <2> QED
    BY <2>1, <2>2, <2>4
<1>6. PICK e \in Numbers : e = Err(path) /\ e[1] >= 0
  BY <1>2, <1>4, <1>5
<1>7. Add(e, needed)[1] >= 0
  BY <1>6, PlusNotNegative DEF Numbers, Add
<1> QED
  BY <1>2, <1>6, <1>7

LEMMA PassiveAggressiveReaches ==
  ASSUME OnlineTyped, n <= N, NEW path \in BestPaths(w, Instance), PassiveAggressiveUpdate(path),
         opt.algorithm = "passive_aggressive"
  PROVE  Reached(Update(Instance, path, w, cov, w'))
<1>1. PICK diff, needed, cost, norm2 :
        /\ diff = Difference(Instance, path) /\ needed = Needed(path)
        /\ cost = LossOf(w, diff, needed) /\ norm2 = VecSum(Squares(diff))
  OBVIOUS
<1>2. path \in PathsOf(Instance)
  BY BestIsAhead
<1>3. /\ cost \in Numbers /\ diff \in [Fids -> Int]
      /\ opt.type = 0 => norm2 # Zero
      /\ Tau(cost, norm2) \in Numbers
      /\ \E change \in Vectors :
           MovedBy(change) /\ \A k \in Fids : change[k] = Times(Tau(cost, norm2), Whole(diff[k]))
  BY <1>1, <1>2, PassiveAggressiveDoes
<1>4. PICK tau \in Numbers : tau = Tau(cost, norm2)
  BY <1>3
<1>5. w \in Vectors /\ w' \in Vectors /\ opt \in OnlineOptions
  BY <1>3 DEF OnlineTyped, MovedBy
<1>6. \A k \in Fids : w'[k] = Add(w[k], Times(tau, Whole(diff[k])))
  BY <1>3, <1>4 DEF MovedBy
<1>7. norm2 \in Numbers /\ norm2[1] >= 0
  BY <1>1, <1>3, SquaresAre
<1>8. needed \in Numbers /\ needed[1] >= 0 /\ cost[1] >= 0
  BY <1>1, <1>2, NeededIs, CostIs
<1>9. PICK part \in Vectors : \A k \in Fids : part[k] = Whole(diff[k])
  <2>1. \A k \in Fids : Whole(diff[k]) \in Numbers
    BY <1>3, WholeNumber
  <2>2. [k \in Fids |-> Whole(diff[k])] \in Vectors
    BY <2>1 DEF Vectors
  <2> QED
    BY <2>2
<1>10. Dot(part, diff) = norm2
  <2>1. PICK factor : factor = [k \in Fids |-> One]
    OBVIOUS
  <2>2. factor \in Vectors
    BY <2>1, ZeroNumber DEF Vectors
  <2>3. PICK square \in Vectors : square = Squares(diff)
    BY <1>3, SquaresAre
  <2>4. ASSUME NEW k \in Fids
        PROVE  /\ part[k] = Times(factor[k], Whole(diff[k]))
               /\ square[k] = Times(factor[k], Whole(diff[k] * diff[k]))
    <3>1. PICK d \in Int, q \in Int : d = diff[k] /\ q = d * d
      BY <1>3
    <3>2. /\ Whole(d) \in Numbers /\ Times(One, Whole(d)) = Whole(d)
          /\ Whole(q) \in Numbers /\ Times(One, Whole(q)) = Whole(q)
      BY WholeNumber, ZeroNumber, TimesTurns, Neutral
    <3> QED
      BY <1>9, <2>1, <2>3, <3>1, <3>2 DEF Squares
  <2>5. Dot(part, diff) = VecSum(square)
    BY <1>3, <2>2, <2>4, DotOfParts
  <2> QED
    BY <1>1, <2>3, <2>5
<1>11. LossOf(w', diff, needed) = Add(cost, Minus(Times(tau, norm2)))
  <2>1. PICK after : after = w'
    OBVIOUS
  <2>2. after \in Vectors /\ \A k \in Fids : after[k] = Add(w[k], Times(tau, part[k]))
    BY <1>5, <1>6, <1>9, <2>1
  <2>3. LossOf(after, diff, needed) = Add(LossOf(w, diff, needed), Minus(Times(tau, norm2)))
    BY <1>3, <1>5, <1>7, <1>8, <1>10, <2>2, LossMoves
  <2> QED
    BY <1>1, <2>1, <2>3
<1>12. Add(cost, Minus(Times(tau, norm2))) = LeftBy(cost, norm2)
  BY <1>3, <1>4, <1>5, <1>7, <1>8, LeftByPassiveAggressive
<1>13. needed = IF opt.error_sensitive THEN SquareRoot[Diff(Instance.labels, path)] ELSE One
  BY <1>1 DEF Needed
<1> QED
  BY <1>1, <1>11, <1>12, <1>13, ReachedByPassiveAggressive

LEMMA ArowReaches ==
  ASSUME OnlineTyped, n <= N, NEW path \in PathsOf(Instance), ArowUpdate(path), opt.algorithm = "arow"
  PROVE  Reached(Update(Instance, path, w, cov, w'))
<1>1. PICK diff, needed, cost, spread, frac :
        /\ diff = Difference(Instance, path) /\ needed = Whole(Diff(Instance.labels, path))
        /\ cost = LossOf(w, diff, needed)
        /\ spread = VecSum(Spread(cov, diff)) /\ frac = Add(opt.gamma, spread)
  OBVIOUS
<1>2. /\ cost \in Numbers /\ diff \in [Fids -> Int] /\ frac \in Numbers /\ Positive(frac) /\ w' \in Vectors
      /\ \A k \in Fids : w'[k] = Add(w[k], Times(DividedBy(cost, frac), Times(cov[k], Whole(diff[k]))))
  BY <1>1, ArowDoes
<1>3. w \in Vectors /\ cov \in Vectors /\ opt \in OnlineOptions /\ \A k \in Fids : Positive(cov[k])
  BY DEF OnlineTyped
<1>4. frac # Zero /\ opt.gamma \in Numbers
  BY <1>2, <1>3, PositiveNumber, OptionsAre
<1>5. PICK tau \in Numbers : tau = DividedBy(cost, frac)
  BY <1>2, <1>4, DividedNumber
<1>6. PICK square \in Vectors : square = Spread(cov, diff) /\ spread = VecSum(square) /\ spread \in Numbers
  BY <1>1, <1>2, <1>3, SpreadIs
<1>7. needed \in Numbers
  BY <1>1, NeededIs
<1>8. PICK part \in Vectors : \A k \in Fids : part[k] = Times(cov[k], Whole(diff[k]))
  <2>1. ASSUME NEW k \in Fids PROVE Times(cov[k], Whole(diff[k])) \in Numbers
    <3>1. PICK x \in Numbers, y \in Numbers : x = cov[k] /\ y = Whole(diff[k])
      BY <1>2, <1>3, WholeNumber DEF Vectors
    <3> QED
      BY <3>1, TimesNumber
  <2>2. [k \in Fids |-> Times(cov[k], Whole(diff[k]))] \in Vectors
    BY <2>1 DEF Vectors
  <2> QED
    BY <2>2
<1>9. spread = Dot(part, diff)
  <2>1. \A k \in Fids : square[k] = Times(cov[k], Whole(diff[k] * diff[k]))
    BY <1>6 DEF Spread
  <2> QED
    BY <1>2, <1>3, <1>6, <1>8, <2>1, DotOfParts
<1>10. LossOf(w', diff, needed) = Add(cost, Minus(Times(tau, spread)))
  <2>1. PICK after : after = w'
    OBVIOUS
  <2>2. after \in Vectors /\ \A k \in Fids : after[k] = Add(w[k], Times(tau, part[k]))
    BY <1>2, <1>5, <1>8, <2>1
  <2>3. LossOf(after, diff, needed) = Add(LossOf(w, diff, needed), Minus(Times(tau, spread)))
    BY <1>2, <1>3, <1>6, <1>7, <1>9, <2>2, LossMoves
  <2> QED
    BY <1>1, <2>1, <2>3
<1>11. Add(cost, Minus(Times(tau, spread))) = Times(cost, DividedBy(opt.gamma, frac))
  BY <1>1, <1>2, <1>4, <1>5, <1>6, LeftOfArow
<1> QED
  BY <1>1, <1>10, <1>11, ReachedByArow

-----------------------------------------------------------------------------
(* The inductive invariant.                                                 *)

(* ws has each change with the number of vectors before it.                 *)
SumIsKept == Averages => \A k \in Fids : total[k] = Add(Times(w[k], Whole(c)), Minus(ws[k]))

EpochIsKept == at \in {"epoch", "returned"} => wa = EpochWeights

MarginIsKept == last # << >> /\ opt.algorithm # "averaged_perceptron" => Reached(last)

PrecisionIsKept ==
  opt.algorithm = "arow" =>
    \A k \in Fids : DividedBy(One, cov[k]) =
      Add(DividedBy(One, opt.variance), DividedBy(Whole(evidence[k]), opt.gamma))

OnlineInv == OnlineTyped /\ SumIsKept /\ EpochIsKept /\ MarginIsKept /\ PrecisionIsKept

LEMMA ZeroVectorIs ==
  ZeroVector \in Vectors /\ \A k \in Fids : ZeroVector[k] = Zero
BY ZeroNumber DEF ZeroVector, Vectors

LEMMA OnlineInitInv ==
  ASSUME OnlineInit
  PROVE  OnlineInv
<1>1. opt \in OnlineOptions /\ c = 1 /\ w = ZeroVector /\ ws = ZeroVector /\ wa = ZeroVector /\ total = ZeroVector
  BY DEF OnlineInit
<1>2. opt.variance \in Numbers /\ Positive(opt.variance) /\ opt.gamma \in Numbers /\ opt.gamma # Zero
  BY <1>1, OptionsAre, PositiveNumber
<1>3. cov \in Vectors /\ \A k \in Fids : cov[k] = opt.variance
  BY <1>2 DEF OnlineInit, Vectors
<1>4. Whole(1) = One /\ Times(Zero, One) = Zero /\ Minus(Zero) = Zero /\ Add(Zero, Zero) = Zero /\ << 1, 1 >> = One
  BY WholeNumber, ZeroNumber, Neutral, MinusResults DEF One
<1>5. OnlineTyped
  <2>1. perm \in Order /\ n \in Nat \ {0} /\ at \in {"epoch", "instance", "nan", "returned"}
    <3>1. perm = [i \in 1 .. N |-> i] /\ n = 1 /\ at = "epoch"
      BY DEF OnlineInit
    <3> QED
      BY <3>1 DEF Order
  <2>2. GoodDelta(dc)
    <3>1. dc.actives = << >> /\ dc.delta = [k \in Fids |-> 0]
      BY DEF OnlineInit
    <3> QED
      BY <3>1 DEF GoodDelta, EachOnce
  <2>3. evidence \in [Fids -> Int]
    BY DEF OnlineInit
  <2>4. \A k \in Fids : Positive(cov[k])
    BY <1>2, <1>3
  <2>5. c \in Nat \ {0}
    BY <1>1
  <2> QED
    BY <1>1, <1>3, <2>1, <2>2, <2>3, <2>4, <2>5, ZeroVectorIs DEF OnlineTyped
<1>6. SumIsKept
  BY <1>1, <1>4, ZeroVectorIs DEF SumIsKept
<1>7. EpochIsKept
  <2>1. ASSUME Averages PROVE EpochWeights = ZeroVector
    <3>1. EpochWeights = [k \in Fids |-> Add(w[k], Minus(Times(ws[k], << 1, c >>)))]
      BY <2>1 DEF EpochWeights, Add
    <3>2. \A k \in Fids : Add(w[k], Minus(Times(ws[k], << 1, c >>))) = Zero
      BY <1>1, <1>4, ZeroVectorIs
    <3> QED
      BY <3>1, <3>2 DEF ZeroVector
  <2> QED
    BY <1>1, <2>1 DEF EpochIsKept, EpochWeights
<1>8. MarginIsKept
  BY DEF OnlineInit, MarginIsKept
<1>9. PrecisionIsKept
  <2>1. ASSUME NEW k \in Fids
        PROVE  DividedBy(One, cov[k]) = Add(DividedBy(One, opt.variance), DividedBy(Whole(evidence[k]), opt.gamma))
    <3>1. Whole(evidence[k]) = Zero
      BY WholeNumber DEF OnlineInit
    <3>2. DividedBy(Zero, opt.gamma) = Zero
      BY <1>2, QuotientOfZero
    <3>3. PICK i \in Numbers : i = DividedBy(One, opt.variance)
      BY <1>2, ZeroNumber, PositiveNumber, DividedNumber
    <3>4. Add(i, Zero) = i
      BY Neutral
    <3> QED
      BY <1>3, <3>1, <3>2, <3>3, <3>4
  <2> QED
    BY <2>1 DEF PrecisionIsKept
<1> QED
  BY <1>5, <1>6, <1>7, <1>8, <1>9 DEF OnlineInv

LEMMA StartEpochKeeps ==
  ASSUME OnlineInv, StartEpoch
  PROVE  OnlineInv'
<1>1. perm' \in Order
  <2>1. PICK picks \in [1 .. N -> 1 .. N] : perm' = Shuffled(perm, picks)
    BY DEF StartEpoch
  <2> QED
    BY <2>1, ShuffledIsOrder DEF OnlineInv, OnlineTyped, Order
<1>2. n' = 1 /\ at' = "instance" /\ UNCHANGED <<opt, w, ws, wa, c, cov, dc, total, evidence, last>>
  BY DEF StartEpoch
<1>3. OnlineTyped'
  BY <1>1, <1>2 DEF OnlineInv, OnlineTyped, Vectors, GoodDelta, EachOnce
<1>4. SumIsKept' /\ EpochIsKept'
  BY <1>2 DEF OnlineInv, SumIsKept, EpochIsKept, Averages
<1>5. MarginIsKept' /\ PrecisionIsKept'
  BY <1>2 DEF OnlineInv, MarginIsKept, PrecisionIsKept, Reached
<1> QED
  BY <1>3, <1>4, <1>5 DEF OnlineInv

LEMMA NotANumberKeeps ==
  ASSUME OnlineInv, NotANumber
  PROVE  OnlineInv'
<1>1. at' = "nan" /\ UNCHANGED <<opt, perm, n, w, ws, wa, c, cov, dc, total, evidence, last>>
  BY DEF NotANumber
<1>2. OnlineTyped'
  BY <1>1 DEF OnlineInv, OnlineTyped, Vectors, GoodDelta, EachOnce, Order
<1>3. SumIsKept' /\ EpochIsKept'
  BY <1>1 DEF OnlineInv, SumIsKept, EpochIsKept, Averages
<1>4. MarginIsKept' /\ PrecisionIsKept'
  BY <1>1 DEF OnlineInv, MarginIsKept, PrecisionIsKept, Reached
<1> QED
  BY <1>2, <1>3, <1>4 DEF OnlineInv

LEMMA EndEpochKeeps ==
  ASSUME OnlineInv, EndEpoch
  PROVE  OnlineInv'
<1>1. /\ wa' = EpochWeights /\ at' \in {"returned", "epoch"}
      /\ UNCHANGED <<opt, perm, n, w, ws, c, cov, dc, total, evidence, last>>
  BY DEF EndEpoch
<1>2. OnlineTyped'
  BY <1>1 DEF OnlineInv, OnlineTyped, Vectors, GoodDelta, EachOnce, Order
<1>3. SumIsKept' /\ EpochIsKept'
  BY <1>1 DEF OnlineInv, SumIsKept, EpochIsKept, EpochWeights, Averages
<1>4. MarginIsKept' /\ PrecisionIsKept'
  BY <1>1 DEF OnlineInv, MarginIsKept, PrecisionIsKept, Reached
<1> QED
  BY <1>2, <1>3, <1>4 DEF OnlineInv

LEMMA TotalGrows ==
  ASSUME NEW x \in Numbers, NEW y \in Numbers, NEW z \in Numbers, NEW d \in Numbers,
         NEW sum, sum = Add(Times(x, z), Minus(y)), NEW more, more = Add(z, One)
  PROVE  Add(sum, Add(x, d)) = Add(Times(Add(x, d), more), Minus(Add(y, Times(d, z))))
BY OneVectorMore

(* One vector more in the sum.                                              *)
LEMMA SumStaysKept ==
  ASSUME OnlineTyped, SumIsKept, NEW change \in Vectors, MovedBy(change),
         Counted, c' = c + 1, opt' = opt
  PROVE  SumIsKept' /\ total' \in Vectors
<1>1. /\ w \in Vectors /\ ws \in Vectors /\ total \in Vectors /\ c \in Nat \ {0}
      /\ w' \in Vectors
  BY DEF OnlineTyped, MovedBy
<1>2. total' = [k \in Fids |-> Add(total[k], w'[k])]
  BY DEF Add, Counted
<1>3. total' \in Vectors
  <2>1. \A k \in Fids : Add(total[k], w'[k]) \in Numbers
    BY <1>1, AddNumber DEF Vectors
  <2> QED
    BY <1>2, <2>1 DEF Vectors
<1>4. Whole(c + 1) = Add(Whole(c), One) /\ Whole(c) \in Numbers
  <2>1. c \in Int
    BY <1>1
  <2>2. PICK m \in Int, one \in Int : m = c /\ one = 1
    BY <2>1
  <2>3. Whole(m + one) = Add(Whole(m), Whole(one)) /\ Whole(m) \in Numbers
    BY WholeResults
  <2>4. Whole(1) = One
    BY WholeNumber
  <2> QED
    BY <2>3, <2>4, <2>2
<1>5. ASSUME Averages, NEW k \in Fids
      PROVE  total'[k] = Add(Times(w'[k], Whole(c')), Minus(ws'[k]))
  <2>1. PICK x \in Numbers, y \in Numbers, d \in Numbers, z \in Numbers :
          x = w[k] /\ y = ws[k] /\ d = change[k] /\ z = Whole(c)
    BY <1>1, <1>4 DEF Vectors
  <2>2. w'[k] = Add(x, d) /\ ws'[k] = Add(y, Times(d, z))
    BY <2>1 DEF MovedBy
  <2>3. total[k] = Add(Times(x, z), Minus(y))
    BY <1>5, <2>1 DEF SumIsKept
  <2>4. PICK sum, more : sum = Add(Times(x, z), Minus(y)) /\ more = Add(z, One)
    OBVIOUS
  <2>5. Whole(c') = more /\ total[k] = sum
    BY <1>4, <2>1, <2>3, <2>4
  <2>6. Add(sum, Add(x, d)) = Add(Times(Add(x, d), more), Minus(Add(y, Times(d, z))))
    BY <2>4, TotalGrows
  <2>7. total'[k] = Add(total[k], w'[k])
    BY <1>2
  <2> QED
    BY <2>2, <2>5, <2>6, <2>7
<1>6. Averages' = Averages
  BY DEF Averages
<1> QED
  BY <1>3, <1>5, <1>6 DEF SumIsKept

LEMMA RightlyLabelledKeeps ==
  ASSUME OnlineInv, TrainOnInstance, RightlyLabelled
  PROVE  OnlineInv'
<1>1. OnlineTyped /\ SumIsKept
  BY DEF OnlineInv
<1>2. /\ UNCHANGED <<opt, w, ws, wa, cov, dc, evidence, last>> /\ UNCHANGED <<at, perm>>
      /\ at = "instance" /\ n' = n + 1 /\ c' = c + 1 /\ Counted
  BY DEF TrainOnInstance, RightlyLabelled
<1>3. MovedBy(ZeroVector)
  <2>1. w \in Vectors /\ ws \in Vectors /\ c \in Int
    BY <1>1 DEF OnlineTyped
  <2>2. ASSUME NEW k \in Fids
        PROVE  w[k] = Add(w[k], ZeroVector[k]) /\ ws[k] = Add(ws[k], Times(ZeroVector[k], Whole(c)))
    <3>1. PICK x \in Numbers, y \in Numbers, z \in Numbers : x = w[k] /\ y = ws[k] /\ z = Whole(c)
      BY <2>1, WholeNumber DEF Vectors
    <3>2. Times(Zero, z) = Zero /\ Add(x, Zero) = x /\ Add(y, Zero) = y
      BY Neutral
    <3> QED
      BY <3>1, <3>2, ZeroVectorIs
  <2> QED
    BY <1>2, <2>1, <2>2, ZeroVectorIs DEF MovedBy
<1>4. SumIsKept' /\ total' \in Vectors
  BY <1>1, <1>2, <1>3, ZeroVectorIs, SumStaysKept
<1>5. OnlineTyped'
  <2>1. n' \in Nat \ {0} /\ c' \in Nat \ {0}
    <3>1. n \in Nat \ {0} /\ c \in Nat \ {0}
      BY <1>1 DEF OnlineTyped
    <3>2. n + 1 \in Nat \ {0} /\ c + 1 \in Nat \ {0}
      BY <3>1
    <3> QED
      BY <1>2, <3>2
  <2> QED
    BY <1>1, <1>2, <1>4, <2>1 DEF OnlineTyped, Vectors, GoodDelta, EachOnce, Order
<1>6. EpochIsKept'
  BY <1>2 DEF EpochIsKept
<1>7. MarginIsKept' /\ PrecisionIsKept'
  BY <1>2 DEF OnlineInv, MarginIsKept, PrecisionIsKept, Reached
<1> QED
  BY <1>4, <1>5, <1>6, <1>7 DEF OnlineInv

(* The evidence for the precision of a feature.                             *)
LEMMA PrecisionStaysKept ==
  ASSUME OnlineTyped, PrecisionIsKept, n <= N, NEW path \in PathsOf(Instance), ArowUpdate(path),
         opt' = opt, opt.algorithm = "arow",
         \A k \in Fids : evidence'[k] = evidence[k] + Difference(Instance, path)[k] * Difference(Instance, path)[k]
  PROVE  PrecisionIsKept'
<1>1. PICK diff, squares : diff = Difference(Instance, path) /\ squares = Squares(diff)
  OBVIOUS
<1>2. PICK cost, frac : /\ cost = LossOf(w, diff, Whole(Diff(Instance.labels, path)))
                        /\ frac = Add(opt.gamma, VecSum(Spread(cov, diff)))
  OBVIOUS
<1>3. /\ diff \in [Fids -> Int]
      /\ \A k \in Fids : DividedBy(One, cov'[k]) = Add(DividedBy(One, cov[k]), DividedBy(squares[k], opt.gamma))
  BY <1>1, <1>2, ArowDoes
<1>4. /\ cov \in Vectors /\ evidence \in [Fids -> Int] /\ opt \in OnlineOptions
      /\ \A k \in Fids : Positive(cov[k])
  BY DEF OnlineTyped
<1>5. PICK g \in Numbers, v \in Numbers : g = opt.gamma /\ g # Zero /\ v = opt.variance /\ v # Zero
  BY <1>4, OptionsAre, PositiveNumber
<1>6. ASSUME NEW k \in Fids
      PROVE  DividedBy(One, cov'[k]) = Add(DividedBy(One, v), DividedBy(Whole(evidence'[k]), g))
  <2>1. PICK e \in Int, d \in Int, s \in Int : e = evidence[k] /\ d = diff[k] /\ s = d * d
    BY <1>3, <1>4
  <2>2. evidence'[k] = e + s
    BY <1>1, <2>1
  <2>3. squares[k] = Whole(s)
    BY <1>1, <2>1 DEF Squares
  <2>4. PICK x \in Numbers, y \in Numbers : x = Whole(e) /\ y = Whole(s) /\ Whole(e + s) = Add(x, y)
    BY WholeResults
  <2>5. PICK i \in Numbers, q \in Numbers, r \in Numbers :
          i = DividedBy(One, v) /\ q = DividedBy(x, g) /\ r = DividedBy(y, g)
    BY <1>5, ZeroNumber, DividedNumber
  <2>6. DividedBy(One, cov[k]) = Add(i, q)
    BY <1>5, <2>1, <2>4, <2>5 DEF PrecisionIsKept
  <2>7. DividedBy(Add(x, y), g) = Add(q, r)
    BY <1>5, <2>5, QuotientOfSum
  <2>8. Add(Add(i, q), r) = Add(i, Add(q, r))
    BY PlusRegroups
  <2> QED
    BY <1>3, <1>5, <2>2, <2>3, <2>4, <2>5, <2>6, <2>7, <2>8
<1> QED
  BY <1>5, <1>6 DEF PrecisionIsKept

LEMMA WronglyLabelledKeeps ==
  ASSUME OnlineInv, TrainOnInstance, WronglyLabelled
  PROVE  OnlineInv'
<1>1. OnlineTyped /\ SumIsKept /\ PrecisionIsKept
  BY DEF OnlineInv
<1>2. PICK path \in BestPaths(w, Instance) :
        /\ \/ opt.algorithm = "averaged_perceptron" /\ PerceptronUpdate(path)
           \/ opt.algorithm = "passive_aggressive" /\ PassiveAggressiveUpdate(path)
           \/ opt.algorithm = "arow" /\ ArowUpdate(path)
        /\ Remember(path) /\ c' = c + 1 /\ Counted /\ UNCHANGED <<opt, wa>>
  BY DEF WronglyLabelled
<1>3. /\ UNCHANGED <<opt, at, perm>> /\ at = "instance" /\ n <= N /\ n' = n + 1 /\ c' = c + 1
      /\ Counted
  BY <1>2 DEF TrainOnInstance
<1>4. path \in PathsOf(Instance)
  BY <1>1, <1>2, <1>3, BestIsAhead
<1>5. PICK diff : diff = Difference(Instance, path)
  OBVIOUS
<1>6. diff \in [Fids -> Int]
  BY <1>1, <1>3, <1>4, <1>5, InstanceIs, DifferenceIsWhole
<1>7. /\ last' = Update(Instance, path, w, cov, w')
      /\ evidence' = [k \in Fids |-> evidence[k] + diff[k] * diff[k]]
  BY <1>2, <1>5 DEF Remember, Update
<1>8. evidence' \in [Fids -> Int] /\ \A k \in Fids : evidence'[k] = evidence[k] + diff[k] * diff[k]
  <2>1. \A k \in Fids : evidence[k] + diff[k] * diff[k] \in Int
    <3>1. ASSUME NEW k \in Fids PROVE evidence[k] + diff[k] * diff[k] \in Int
      <4>1. evidence[k] \in Int /\ diff[k] \in Int
        BY <1>1, <1>6 DEF OnlineTyped
      <4> QED
        BY <4>1
    <3> QED
      BY <3>1
  <2> QED
    BY <1>7, <2>1
<1>9. n' \in Nat \ {0} /\ c' \in Nat \ {0}
  <2>1. n \in Nat \ {0} /\ c \in Nat \ {0}
    BY <1>1 DEF OnlineTyped
  <2>2. n + 1 \in Nat \ {0} /\ c + 1 \in Nat \ {0}
    BY <2>1
  <2> QED
    BY <1>3, <2>2
<1>10. EpochIsKept'
  BY <1>3 DEF EpochIsKept
<1>11. ASSUME Reached(Update(Instance, path, w, cov, w')) PROVE MarginIsKept'
  <2>1. PICK u : u = Update(Instance, path, w, cov, w')
    OBVIOUS
  <2>2. Reached(u) => Reached(last)'
    BY <1>3, <1>7, <2>1 DEF Reached
  <2> QED
    BY <1>11, <2>1, <2>2 DEF MarginIsKept
<1>12. CASE opt.algorithm = "averaged_perceptron"
  <2>1. PerceptronUpdate(path)
    BY <1>2, <1>12
  <2>2. PICK change \in Vectors : cov' = cov /\ dc' = dc /\ MovedBy(change)
    BY <1>1, <1>3, <1>4, <2>1, PerceptronDoes
  <2>3. SumIsKept' /\ total' \in Vectors
    BY <1>1, <1>3, <2>2, SumStaysKept
  <2>4. OnlineTyped'
    BY <1>1, <1>3, <1>8, <1>9, <2>2, <2>3 DEF OnlineTyped, Vectors, GoodDelta, EachOnce, Order, MovedBy
  <2>5. MarginIsKept' /\ PrecisionIsKept'
    BY <1>3, <1>12 DEF MarginIsKept, PrecisionIsKept
  <2> QED
    BY <1>10, <2>3, <2>4, <2>5 DEF OnlineInv
<1>13. CASE opt.algorithm = "passive_aggressive"
  <2>1. PassiveAggressiveUpdate(path)
    BY <1>2, <1>13
  <2>2. PICK cost : cost = LossOf(w, diff, Needed(path))
    OBVIOUS
  <2>3. PICK change \in Vectors : cov' = cov /\ GoodDelta(dc') /\ MovedBy(change)
    BY <1>1, <1>3, <1>4, <1>5, <2>1, <2>2, PassiveAggressiveDoes
  <2>4. SumIsKept' /\ total' \in Vectors
    BY <1>1, <1>3, <2>3, SumStaysKept
  <2>5. OnlineTyped'
    BY <1>1, <1>3, <1>8, <1>9, <2>3, <2>4 DEF OnlineTyped, Vectors, GoodDelta, EachOnce, Order, MovedBy
  <2>6. MarginIsKept'
    BY <1>1, <1>2, <1>3, <1>11, <1>13, <2>1, PassiveAggressiveReaches
  <2>7. PrecisionIsKept'
    BY <1>3, <1>13 DEF PrecisionIsKept
  <2> QED
    BY <1>10, <2>4, <2>5, <2>6, <2>7 DEF OnlineInv
<1>14. CASE opt.algorithm = "arow"
  <2>1. ArowUpdate(path)
    BY <1>2, <1>14
  <2>2. PICK cost, frac : /\ cost = LossOf(w, diff, Whole(Diff(Instance.labels, path)))
                          /\ frac = Add(opt.gamma, VecSum(Spread(cov, diff)))
    OBVIOUS
  <2>3. ws' = ws /\ GoodDelta(dc') /\ w' \in Vectors /\ cov' \in Vectors /\ \A k \in Fids : Positive(cov'[k])
    BY <1>1, <1>3, <1>4, <1>5, <2>1, <2>2, ArowDoes
  <2>4. total' \in Vectors
    <3>1. total \in Vectors
      BY <1>1 DEF OnlineTyped
    <3>2. \A k \in Fids : Add(total[k], w'[k]) \in Numbers
      BY <2>3, <3>1, AddNumber DEF Vectors
    <3> QED
      BY <1>3, <3>2 DEF Vectors, Add, Counted
  <2>5. OnlineTyped'
    BY <1>1, <1>3, <1>8, <1>9, <2>3, <2>4 DEF OnlineTyped, Vectors, GoodDelta, EachOnce, Order
  <2>6. SumIsKept'
    BY <1>3, <1>14 DEF SumIsKept, Averages
  <2>7. MarginIsKept'
    BY <1>1, <1>3, <1>4, <1>11, <1>14, <2>1, ArowReaches
  <2>8. PrecisionIsKept'
    BY <1>1, <1>3, <1>4, <1>5, <1>8, <1>14, <2>1, PrecisionStaysKept
  <2> QED
    BY <1>10, <2>5, <2>6, <2>7, <2>8 DEF OnlineInv
<1> QED
  BY <1>2, <1>12, <1>13, <1>14

LEMMA OnlineNextKeeps ==
  ASSUME OnlineInv, [OnlineNext]_onlineVars
  PROVE  OnlineInv'
<1>1. CASE TrainOnInstance
  BY <1>1, RightlyLabelledKeeps, WronglyLabelledKeeps DEF TrainOnInstance
<1>2. CASE UNCHANGED onlineVars
  <2>1. UNCHANGED <<opt, at, perm, n, w, ws, wa, c, cov, dc, total, evidence, last>>
    BY <1>2 DEF onlineVars
  <2>2. OnlineTyped'
    BY <2>1 DEF OnlineInv, OnlineTyped, Vectors, GoodDelta, EachOnce, Order
  <2>3. SumIsKept' /\ EpochIsKept'
    BY <2>1 DEF OnlineInv, SumIsKept, EpochIsKept, EpochWeights, Averages
  <2>4. MarginIsKept' /\ PrecisionIsKept'
    BY <2>1 DEF OnlineInv, MarginIsKept, PrecisionIsKept, Reached
  <2> QED
    BY <2>2, <2>3, <2>4 DEF OnlineInv
<1> QED
  BY <1>1, <1>2, StartEpochKeeps, NotANumberKeeps, EndEpochKeeps DEF OnlineNext

(* The averaged weights are the mean of all vectors there were, and those   *)
(* without averaging the last: AverageIsMean, which a run checks, follows   *)
(* from the sum that ws keeps.                                              *)
LEMMA MeanIsKept ==
  ASSUME OnlineInv
  PROVE  AverageIsMean
<1>1. /\ w \in Vectors /\ ws \in Vectors /\ total \in Vectors /\ c \in Nat \ {0}
      /\ SumIsKept /\ EpochIsKept
  BY DEF OnlineInv, OnlineTyped
<1>2. ASSUME Averages PROVE EpochWeights = [k \in Fids |-> Times(total[k], << 1, c >>)]
  <2>1. ASSUME NEW k \in Fids
        PROVE  Times(total[k], << 1, c >>) = plus[w[k], Minus(Times(ws[k], << 1, c >>))]
    <3>1. PICK x \in Numbers, y \in Numbers : x = w[k] /\ y = ws[k]
      BY <1>1 DEF Vectors
    <3>2. total[k] = Add(Times(x, Whole(c)), Minus(y))
      BY <1>1, <1>2, <3>1 DEF SumIsKept
    <3>3. Times(Add(Times(x, Whole(c)), Minus(y)), Share(c)) = Add(x, Minus(Times(y, Share(c))))
      BY <1>1, MeanOf
    <3> QED
      BY <3>1, <3>2, <3>3 DEF Share, Add
  <2> QED
    BY <1>2, <2>1 DEF EpochWeights
<1>3. ~Averages => EpochWeights = w
  BY DEF EpochWeights
<1> QED
  BY <1>1, <1>2, <1>3 DEF AverageIsMean, EpochIsKept

LEMMA OnlineInvariant == OnlineSpec => []OnlineInv
<1>1. OnlineInit => OnlineInv
  BY OnlineInitInv
<1>2. OnlineInv /\ [OnlineNext]_onlineVars => OnlineInv'
  BY OnlineNextKeeps
<1> QED
  BY <1>1, <1>2, PTL DEF OnlineSpec

(* What the averaged perceptron and passive aggressive with averaging       *)
(* evaluate and return is the mean of all vectors of weights there were,    *)
(* for any data, features, settings and number of epochs.                   *)
THEOREM AveragesAreMeans == OnlineSpec => []AverageIsMean
BY OnlineInvariant, MeanIsKept, PTL

(* After an update the correct path is ahead of the wrong one by what the   *)
(* algorithm promises, and the precision of a feature is what the evidence  *)
(* for it adds up to.                                                       *)
THEOREM MarginsAreReached == OnlineSpec => []UpdatesReachTheMargin
<1>1. ASSUME OnlineInv PROVE UpdatesReachTheMargin
  BY <1>1 DEF OnlineInv, MarginIsKept, PrecisionIsKept, UpdatesReachTheMargin, Add
<1> QED
  BY <1>1, OnlineInvariant, PTL
==============================================================================
