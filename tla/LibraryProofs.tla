---------------------------- MODULE LibraryProofs ----------------------------
(***************************************************************************)
(* Theorems about what a user of the crfsuite library holds: the sequence  *)
(* of the Python binding is a list, for elements, lengths and indices of   *)
(* any number; its objects have one owner each, which deletes them once,   *)
(* for objects and proxies of any number; training is given what was       *)
(* appended and set, for sequences, algorithms and texts of any kind; and  *)
(* the tagger tells the best label sequence and the true probabilities,    *)
(* for models and items of any kind and number.                            *)
(***************************************************************************)
EXTENDS PySequence, PyObjects, TrainerApi, TaggerApi, Lemmas, TLAPS

SequenceSpec == SequenceInit /\ [][SequenceNext]_sequenceVars

-----------------------------------------------------------------------------
(* Splices of sequences.                                                   *)

(* Two sequences after each other, by their places.                        *)
Behind(S, a, b, c) ==
  /\ c \in Seq(S)
  /\ Len(c) = Len(a) + Len(b)
  /\ \A k \in 1..Len(a) : c[k] = a[k]
  /\ \A k \in 1..Len(b) : c[k + Len(a)] = b[k]

LEMMA Joined ==
  ASSUME NEW S, NEW a \in Seq(S), NEW b \in Seq(S)
  PROVE  Behind(S, a, b, a \o b)
<1>1. Len(a) \in Nat /\ Len(b) \in Nat
  BY LenProperties
<1>2. /\ a \o b \in Seq(S) /\ Len(a \o b) = Len(a) + Len(b)
      /\ \A i \in 1..(Len(a) + Len(b)) : (a \o b)[i] = IF i <= Len(a) THEN a[i] ELSE b[i - Len(a)]
  BY ConcatProperties
<1>3. ASSUME NEW k \in 1..Len(b) PROVE (a \o b)[k + Len(a)] = b[k]
  <2>1. k + Len(a) \in 1..(Len(a) + Len(b)) /\ ~(k + Len(a) <= Len(a)) /\ (k + Len(a)) - Len(a) = k
    BY <1>1
  <2> QED
    BY <1>2, <2>1
<1>4. ASSUME NEW k \in 1..Len(a) PROVE (a \o b)[k] = a[k]
  BY <1>1, <1>2
<1> QED
  BY <1>2, <1>3, <1>4 DEF Behind

LEMMA Part ==
  ASSUME NEW S, NEW s \in Seq(S), NEW p \in 0..Len(s), NEW q \in p..Len(s)
  PROVE  /\ SubSeq(s, p + 1, q) \in Seq(S)
         /\ Len(SubSeq(s, p + 1, q)) = q - p
         /\ \A k \in 1..(q - p) : SubSeq(s, p + 1, q)[k] = s[k + p]
<1>1. \A i \in 1..Len(s) : s[i] \in S
  BY ElementOfSeq
<1>2. Len(s) \in Nat
  BY LenProperties
<1>3. p + 1 \in Int /\ q \in Int /\ \A i \in (p + 1)..q : s[i] \in S
  BY <1>1, <1>2
<1>4. /\ SubSeq(s, p + 1, q) \in Seq(S)
      /\ Len(SubSeq(s, p + 1, q)) = IF p + 1 <= q THEN q - (p + 1) + 1 ELSE 0
      /\ \A i \in 1..(q - (p + 1) + 1) : SubSeq(s, p + 1, q)[i] = s[p + 1 + i - 1]
  BY <1>3, SubSeqProperties
<1>5. q - (p + 1) + 1 = q - p /\ \A k \in 1..(q - p) : p + 1 + k - 1 = k + p
  BY <1>2
<1> QED
  BY <1>2, <1>4, <1>5

(* r is s without the places from p to q, and with v behind the place p.   *)
Cut(S, s, p, q, r) ==
  /\ r \in Seq(S)
  /\ Len(r) = Len(s) - (q - p)
  /\ \A k \in 1..p : r[k] = s[k]
  /\ \A k \in (q + 1)..Len(s) : r[k - (q - p)] = s[k]

More(S, s, p, v, r) ==
  /\ r \in Seq(S)
  /\ Len(r) = Len(s) + Len(v)
  /\ \A k \in 1..p : r[k] = s[k]
  /\ \A k \in 1..Len(v) : r[k + p] = v[k]
  /\ \A k \in (p + 1)..Len(s) : r[k + Len(v)] = s[k]

LEMMA ErasedPlaces ==
  ASSUME NEW S, NEW s \in Seq(S), NEW p \in 0..Len(s), NEW q \in p..Len(s)
  PROVE  Cut(S, s, p, q, Erased(s, p, q))
<1> DEFINE a == SubSeq(s, 0 + 1, p)  b == SubSeq(s, q + 1, Len(s))
<1>1. Len(s) \in Nat /\ 0 \in 0..Len(s) /\ p \in 0..Len(s) /\ q \in 0..Len(s) /\ Len(s) \in q..Len(s)
  BY LenProperties
<1>2. a \in Seq(S) /\ Len(a) = p - 0 /\ \A k \in 1..(p - 0) : a[k] = s[k + 0]
  BY <1>1, Part
<1>3. b \in Seq(S) /\ Len(b) = Len(s) - q /\ \A k \in 1..(Len(s) - q) : b[k] = s[k + q]
  BY <1>1, Part
<1>4. Erased(s, p, q) = a \o b
  BY DEF Erased
<1> HIDE DEF a, b
<1>5. /\ a \o b \in Seq(S) /\ Len(a \o b) = Len(a) + Len(b)
      /\ \A k \in 1..Len(a) : (a \o b)[k] = a[k]
      /\ \A k \in 1..Len(b) : (a \o b)[k + Len(a)] = b[k]
  <2>1. Behind(S, a, b, a \o b)
    BY <1>2, <1>3, Joined
  <2> QED
    BY <2>1 DEF Behind
<1>6. Len(a) = p /\ Len(a) + Len(b) = Len(s) - (q - p)
  BY <1>1, <1>2, <1>3
<1>7. ASSUME NEW k \in 1..p PROVE (a \o b)[k] = s[k]
  BY <1>1, <1>2, <1>5, <1>6
<1>8. ASSUME NEW k \in (q + 1)..Len(s) PROVE (a \o b)[k - (q - p)] = s[k]
  <2>1. k - q \in 1..Len(b) /\ k - q \in 1..(Len(s) - q) /\ (k - q) + Len(a) = k - (q - p) /\ (k - q) + q = k
    BY <1>1, <1>3, <1>6
  <2>2. (a \o b)[(k - q) + Len(a)] = b[k - q] /\ b[k - q] = s[(k - q) + q]
    BY <1>3, <1>5, <2>1
  <2> QED
    BY <2>1, <2>2
<1> QED
  BY <1>4, <1>5, <1>6, <1>7, <1>8 DEF Cut

LEMMA SplicedPlaces ==
  ASSUME NEW S, NEW s \in Seq(S), NEW p \in 0..Len(s), NEW v \in Seq(S)
  PROVE  More(S, s, p, v, Spliced(s, p, v))
<1> DEFINE a == SubSeq(s, 0 + 1, p)  b == SubSeq(s, p + 1, Len(s))  c == a \o v
<1>1. Len(s) \in Nat /\ Len(v) \in Nat /\ 0 \in 0..Len(s) /\ Len(s) \in p..Len(s)
  BY LenProperties
<1>2. a \in Seq(S) /\ Len(a) = p - 0 /\ \A k \in 1..(p - 0) : a[k] = s[k + 0]
  BY <1>1, Part
<1>3. b \in Seq(S) /\ Len(b) = Len(s) - p /\ \A k \in 1..(Len(s) - p) : b[k] = s[k + p]
  BY <1>1, Part
<1>4. Spliced(s, p, v) = c \o b
  BY DEF Spliced
<1> HIDE DEF a, b
<1>5. /\ c \in Seq(S) /\ Len(c) = Len(a) + Len(v)
      /\ \A k \in 1..Len(a) : c[k] = a[k]
      /\ \A k \in 1..Len(v) : c[k + Len(a)] = v[k]
  <2>1. Behind(S, a, v, a \o v)
    BY <1>2, Joined
  <2> QED
    BY <2>1 DEF Behind
<1> HIDE DEF c
<1>6. /\ c \o b \in Seq(S) /\ Len(c \o b) = Len(c) + Len(b)
      /\ \A k \in 1..Len(c) : (c \o b)[k] = c[k]
      /\ \A k \in 1..Len(b) : (c \o b)[k + Len(c)] = b[k]
  <2>1. Behind(S, c, b, c \o b)
    BY <1>3, <1>5, Joined
  <2> QED
    BY <2>1 DEF Behind
<1>7. Len(a) = p /\ Len(c) = p + Len(v) /\ Len(c) + Len(b) = Len(s) + Len(v)
  BY <1>1, <1>2, <1>3, <1>5
<1>8. ASSUME NEW k \in 1..p PROVE (c \o b)[k] = s[k]
  <2>1. k \in 1..Len(a) /\ k \in 1..Len(c) /\ k + 0 = k /\ k \in 1..(p - 0)
    BY <1>1, <1>7
  <2> QED
    BY <1>2, <1>5, <1>6, <2>1
<1>9. ASSUME NEW k \in 1..Len(v) PROVE (c \o b)[k + p] = v[k]
  <2>1. k + p \in 1..Len(c) /\ k + p = k + Len(a)
    BY <1>1, <1>7
  <2> QED
    BY <1>5, <1>6, <2>1
<1>10. ASSUME NEW k \in (p + 1)..Len(s) PROVE (c \o b)[k + Len(v)] = s[k]
  <2>1. /\ k - p \in 1..Len(b) /\ k - p \in 1..(Len(s) - p)
        /\ (k - p) + Len(c) = k + Len(v) /\ (k - p) + p = k
    BY <1>1, <1>3, <1>7
  <2>2. (c \o b)[(k - p) + Len(c)] = b[k - p] /\ b[k - p] = s[(k - p) + p]
    BY <1>3, <1>6, <2>1
  <2> QED
    BY <2>1, <2>2
<1> QED
  BY <1>4, <1>6, <1>7, <1>8, <1>9, <1>10 DEF More

LEMMA NothingErased ==
  ASSUME NEW S, NEW s \in Seq(S), NEW p \in 0..Len(s)
  PROVE  Erased(s, p, p) = s
<1> DEFINE r == Erased(s, p, p)
<1>1. Len(s) \in Nat /\ p \in p..Len(s)
  BY LenProperties
<1>2. Cut(S, s, p, p, r)
  BY <1>1, ErasedPlaces
<1> HIDE DEF r
<1>3. r \in Seq(S) /\ Len(r) = Len(s)
  BY <1>1, <1>2 DEF Cut
<1>4. ASSUME NEW k \in 1..Len(s) PROVE r[k] = s[k]
  <2>1. CASE k <= p
    BY <2>1, <1>1, <1>2 DEF Cut
  <2>2. CASE k > p
    <3>1. k \in (p + 1)..Len(s) /\ k - (p - p) = k
      BY <2>2, <1>1
    <3> QED
      BY <3>1, <1>2 DEF Cut
  <2> QED
    BY <2>1, <2>2, <1>1
<1>5. r = s
  BY <1>3, <1>4, SeqEqual
<1> QED
  BY <1>5 DEF r

LEMMA NothingSpliced ==
  ASSUME NEW S, NEW s \in Seq(S), NEW p \in 0..Len(s)
  PROVE  Spliced(s, p, << >>) = s
<1> DEFINE r == Spliced(s, p, << >>)  v == << >>
<1>1. Len(s) \in Nat /\ v \in Seq(S) /\ Len(v) = 0
  BY LenProperties, EmptySeq
<1>2. More(S, s, p, v, r)
  BY <1>1, SplicedPlaces
<1> HIDE DEF r, v
<1>3. r \in Seq(S) /\ Len(r) = Len(s)
  BY <1>1, <1>2 DEF More
<1>4. ASSUME NEW k \in 1..Len(s) PROVE r[k] = s[k]
  <2>1. CASE k <= p
    BY <2>1, <1>1, <1>2 DEF More
  <2>2. CASE k > p
    <3>1. k \in (p + 1)..Len(s) /\ k + Len(v) = k
      BY <2>2, <1>1
    <3> QED
      BY <3>1, <1>2 DEF More
  <2> QED
    BY <2>1, <2>2, <1>1
<1>5. r = s
  BY <1>3, <1>4, SeqEqual
<1> QED
  BY <1>5 DEF r, v

(* setslice, which copies as many as fit over the old ones and inserts the *)
(* rest, does as a list: the old ones go, and the new ones are inserted.   *)
LEMMA CopiedAndSpliced ==
  ASSUME NEW S, NEW s \in Seq(S), NEW p \in 0..Len(s), NEW q \in p..Len(s), NEW v \in Seq(S), q - p <= Len(v)
  PROVE  Spliced(Copied(s, p, q - p, v), q, SubSeq(v, q - p + 1, Len(v))) = Spliced(Erased(s, p, q), p, v)
<1> DEFINE c == Copied(s, p, q - p, v)  w == SubSeq(v, q - p + 1, Len(v))  e == Erased(s, p, q)
           x == Spliced(c, q, w)  y == Spliced(e, p, v)
<1>1. Len(s) \in Nat /\ Len(v) \in Nat /\ DOMAIN s = 1..Len(s) /\ q - p \in 0..Len(v) /\ Len(v) \in (q - p)..Len(v)
  BY LenProperties
<1>2. w \in Seq(S) /\ Len(w) = Len(v) - (q - p) /\ \A k \in 1..(Len(v) - (q - p)) : w[k] = v[k + (q - p)]
  BY <1>1, Part
<1>3. Cut(S, s, p, q, e)
  BY ErasedPlaces
<1>4. /\ c = [k \in 1..Len(s) |-> c[k]]
      /\ \A k \in 1..Len(s) : c[k] = IF k \in p + 1 .. p + (q - p) THEN v[k - p] ELSE s[k]
  BY <1>1 DEF Copied
<1> HIDE DEF c, w, e
<1>5. ASSUME NEW k \in 1..Len(s) PROVE c[k] \in S
  <2>1. CASE k \in p + 1 .. p + (q - p)
    <3>1. k - p \in 1..Len(v)
      BY <2>1, <1>1
    <3> QED
      BY <2>1, <3>1, <1>4, ElementOfSeq
  <2>2. CASE k \notin p + 1 .. p + (q - p)
    BY <2>2, <1>4, ElementOfSeq
  <2> QED
    BY <2>1, <2>2
<1>6. c \in [1..Len(s) -> S]
  BY <1>4, <1>5
<1>7. c \in Seq(S) /\ Len(c) = Len(s)
  BY <1>1, <1>6, LenProperties
<1>8. More(S, c, q, w, x)
  <2>1. q \in 0..Len(c)
    BY <1>1, <1>7
  <2> QED
    BY <1>2, <1>7, <2>1, SplicedPlaces
<1>9. e \in Seq(S) /\ Len(e) = Len(s) - (q - p) /\ p \in 0..Len(e)
  BY <1>1, <1>3 DEF Cut
<1>10. More(S, e, p, v, y)
  BY <1>9, SplicedPlaces
<1> HIDE DEF x, y
<1>11. x \in Seq(S) /\ y \in Seq(S) /\ Len(x) = Len(s) + (Len(v) - (q - p)) /\ Len(y) = Len(x)
  BY <1>1, <1>2, <1>7, <1>8, <1>9, <1>10 DEF More
<1>12. ASSUME NEW k \in 1..Len(x) PROVE x[k] = y[k]
  <2>1. CASE k <= p
    <3>1. k \in 1..p /\ k \in 1..q /\ k \in 1..Len(s) /\ k \notin p + 1 .. p + (q - p)
      BY <2>1, <1>1
    <3>2. x[k] = c[k] /\ y[k] = e[k] /\ e[k] = s[k]
      BY <3>1, <1>3, <1>8, <1>10 DEF More, Cut
    <3> QED
      BY <3>1, <3>2, <1>4
  <2>2. CASE k > p /\ k <= q
    <3>1. k \in 1..q /\ k \in 1..Len(s) /\ k \in p + 1 .. p + (q - p) /\ k - p \in 1..Len(v) /\ (k - p) + p = k
      BY <2>2, <1>1
    <3>2. x[k] = c[k] /\ y[(k - p) + p] = v[k - p] /\ c[k] = v[k - p]
      BY <3>1, <1>4, <1>8, <1>10 DEF More
    <3> QED
      BY <3>1, <3>2
  <2>3. CASE k > q /\ k <= p + Len(v)
    <3>1. /\ k - q \in 1..Len(w) /\ k - q \in 1..(Len(v) - (q - p)) /\ (k - q) + q = k
          /\ k - p \in 1..Len(v) /\ (k - p) + p = k /\ (k - q) + (q - p) = k - p
      BY <2>3, <1>1, <1>2
    <3>2. x[(k - q) + q] = w[k - q] /\ w[k - q] = v[(k - q) + (q - p)] /\ y[(k - p) + p] = v[k - p]
      BY <3>1, <1>2, <1>8, <1>10 DEF More
    <3> QED
      BY <3>1, <3>2
  <2>4. CASE k > p + Len(v)
    <3> DEFINE j == k - Len(w)  i == k - Len(v)
    <3>1. /\ j \in (q + 1)..Len(s) /\ j \in (q + 1)..Len(c) /\ j + Len(w) = k /\ j \in 1..Len(s)
          /\ j \notin p + 1 .. p + (q - p)
          /\ i \in (p + 1)..Len(e) /\ i + Len(v) = k /\ i = j - (q - p)
      BY <2>4, <1>1, <1>2, <1>7, <1>9, <1>11, SMTT(30)
    <3> HIDE DEF i, j
    <3>2. x[j + Len(w)] = c[j] /\ y[i + Len(v)] = e[i] /\ c[j] = s[j]
      BY <3>1, <1>4, <1>8, <1>10 DEF More
    <3>3. e[j - (q - p)] = s[j]
      BY <3>1, <1>3 DEF Cut
    <3> QED
      BY <3>1, <3>2, <3>3
  <2> QED
    BY <2>1, <2>2, <2>3, <2>4, <1>1, <1>11
<1>13. x = y
  BY <1>11, <1>12, SeqEqual
<1> QED
  BY <1>13 DEF c, w, e, x, y

-----------------------------------------------------------------------------
(* Slices.                                                                 *)

(* check_index and slice_index wrap a number once, and a list clamps it.   *)
LEMMA Wrapped ==
  ASSUME NEW n \in Nat, NEW i \in Int, NEW insert \in BOOLEAN
  PROVE  /\ Clamped(i, n) \in 0..n
         /\ CheckIndex(i, n, insert) = IF i \in -n .. n - 1 \/ (insert /\ i = n) THEN Clamped(i, n) ELSE OutOfRange
         /\ SliceIndex(i, n) = IF i >= -n THEN Clamped(i, n) ELSE OutOfRange
         /\ OutOfRange \notin 0..n
  BY DEF Clamped, CheckIndex, SliceIndex, OutOfRange

LEMMA WrappedTo ==
  ASSUME NEW n \in Nat, NEW i \in Int, NEW insert \in BOOLEAN
  PROVE  CheckIndex(i, n, insert) \in 0..n \cup {OutOfRange} /\ SliceIndex(i, n) \in 0..n \cup {OutOfRange}
  BY DEF CheckIndex, SliceIndex

LEMMA SlicesAreRead ==
  ASSUME NEW S, NEW s \in Seq(S), NEW i \in Int, NEW j \in Int
  PROVE  Agree(GetSlice(s, i, j), (i \in -Len(s) .. Len(s) /\ j >= -Len(s)) /\ i < Len(s), ListSlice(s, i, j))
<1> DEFINE n == Len(s)  ii == CheckIndex(i, n, FALSE)  jj == SliceIndex(j, n)
           inside == (i \in -n .. n /\ j >= -n) /\ i < n
           r == GetSlice(s, i, j)
<1>1. n \in Nat
  BY LenProperties
<1>2. r = IF OutOfRange \in {ii, jj} THEN IndexError ELSE Gives(SubSeq(s, ii + 1, jj), n)
  BY DEF GetSlice
<1> HIDE DEF n, ii, jj, r
<1>3. /\ ~inside => OutOfRange \in {ii, jj}
      /\ inside => ii = Clamped(i, n) /\ jj = Clamped(j, n) /\ OutOfRange \notin {ii, jj}
  <2>1. /\ Clamped(i, n) \in 0..n /\ Clamped(j, n) \in 0..n /\ OutOfRange \notin 0..n
        /\ ii = IF i \in -n .. n - 1 \/ (FALSE /\ i = n) THEN Clamped(i, n) ELSE OutOfRange
        /\ jj = IF j >= -n THEN Clamped(j, n) ELSE OutOfRange
    BY <1>1, Wrapped DEF ii, jj
  <2> HIDE DEF OutOfRange
  <2> QED
    BY <2>1, <1>1
<1>4. CASE inside
  <2>1. r = Gives(SubSeq(s, Clamped(i, n) + 1, Clamped(j, n)), n)
    BY <1>2, <1>3, <1>4
  <2>2. r.raises = FALSE /\ r.elements = ListSlice(s, i, j)
    BY <2>1 DEF Gives, ListSlice, n
  <2> QED
    BY <2>2, <1>4 DEF Agree, r, n
<1>5. CASE ~inside
  <2>1. r.raises = TRUE
    BY <1>2, <1>3, <1>5 DEF IndexError
  <2> QED
    BY <2>1, <1>5 DEF Agree, r, n
<1> QED
  BY <1>4, <1>5

(* What delslice and setslice leave.                                       *)
LEMMA SlicesAreDeleted ==
  ASSUME NEW S, NEW s \in Seq(S), NEW i \in Int, NEW j \in Int
  PROVE  Agree(DelSlice(s, i, j), i \in -Len(s) .. Len(s) /\ j >= -Len(s), ListWith(s, i, j, << >>))
<1> DEFINE n == Len(s)  ii == CheckIndex(i, n, TRUE)  jj == SliceIndex(j, n)
           inside == i \in -n .. n /\ j >= -n
           r == DelSlice(s, i, j)  p == Clamped(i, n)  q == Clamped(j, n)
<1>1. n \in Nat /\ p \in 0..n /\ q \in 0..n
  BY LenProperties, Wrapped
<1>2. r = IF OutOfRange \in {ii, jj} THEN IndexError
          ELSE IF jj > ii THEN Gives(Erased(s, ii, jj), ii) ELSE Gives(s, n)
  BY DEF DelSlice
<1>0. ListWith(s, i, j, << >>) = Spliced(Erased(s, p, IF q < p THEN p ELSE q), p, << >>)
  BY DEF ListWith
<1> HIDE DEF n, ii, jj, r, p, q
<1>3. /\ ~inside => OutOfRange \in {ii, jj}
      /\ inside => ii = p /\ jj = q /\ OutOfRange \notin {ii, jj}
  <2>1. /\ OutOfRange \notin 0..n
        /\ ii = IF i \in -n .. n - 1 \/ (TRUE /\ i = n) THEN p ELSE OutOfRange
        /\ jj = IF j >= -n THEN q ELSE OutOfRange
    BY <1>1, Wrapped DEF ii, jj, p, q
  <2> HIDE DEF OutOfRange
  <2> QED
    BY <2>1, <1>1
<1>4. CASE inside
  <2>1. ASSUME q > p PROVE r.raises = FALSE /\ r.elements = ListWith(s, i, j, << >>)
    <3> DEFINE e == Erased(s, p, q)
    <3>1. p \in 0..Len(s) /\ q \in p..Len(s)
      BY <1>1, <2>1 DEF n
    <3>2. Cut(S, s, p, q, e)
      BY <3>1, ErasedPlaces
    <3>3. r = Gives(e, p) /\ ListWith(s, i, j, << >>) = Spliced(e, p, << >>)
      BY <1>0, <1>1, <1>2, <1>3, <1>4, <2>1
    <3> HIDE DEF e
    <3>4. e \in Seq(S) /\ p \in 0..Len(e)
      BY <3>1, <3>2, <1>1 DEF Cut, n
    <3>5. Spliced(e, p, << >>) = e
      BY <3>4, NothingSpliced
    <3> QED
      BY <3>3, <3>5 DEF Gives
  <2>2. ASSUME ~(q > p) PROVE r.raises = FALSE /\ r.elements = ListWith(s, i, j, << >>)
    <3>1. r = Gives(s, n) /\ ListWith(s, i, j, << >>) = Spliced(Erased(s, p, p), p, << >>)
      BY <1>0, <1>1, <1>2, <1>3, <1>4, <2>2
    <3>2. Erased(s, p, p) = s /\ Spliced(s, p, << >>) = s
      BY <1>1, NothingErased, NothingSpliced DEF n
    <3> QED
      BY <3>1, <3>2 DEF Gives
  <2> QED
    BY <2>1, <2>2, <1>4 DEF Agree, r, n
<1>5. CASE ~inside
  <2>1. r.raises = TRUE
    BY <1>2, <1>3, <1>5 DEF IndexError
  <2> QED
    BY <2>1, <1>5 DEF Agree, r, n
<1> QED
  BY <1>4, <1>5

LEMMA SlicesAreSet ==
  ASSUME NEW S, NEW s \in Seq(S), NEW i \in Int, NEW j \in Int, NEW v \in Seq(S)
  PROVE  Agree(SetSlice(s, i, j, v), i \in -Len(s) .. Len(s) /\ j >= -Len(s), ListWith(s, i, j, v))
<1> DEFINE n == Len(s)  ii == CheckIndex(i, n, TRUE)  j2 == SliceIndex(j, n)
           jj == IF j2 < ii THEN ii ELSE j2
           inside == i \in -n .. n /\ j >= -n
           r == SetSlice(s, i, j, v)  p == Clamped(i, n)  q == Clamped(j, n)  m == IF q < p THEN p ELSE q
<1>1. n \in Nat /\ p \in 0..n /\ q \in 0..n /\ m \in p..n /\ Len(v) \in Nat
  <2>1. n \in Nat /\ Len(v) \in Nat
    BY LenProperties
  <2> HIDE DEF n
  <2>2. p \in 0..n /\ q \in 0..n
    BY <2>1, Wrapped
  <2> HIDE DEF p, q
  <2> QED
    BY <2>1, <2>2
<1>2. r = IF OutOfRange \in {ii, j2} THEN IndexError
          ELSE IF jj - ii <= Len(v)
               THEN Gives(Spliced(Copied(s, ii, jj - ii, v), jj, SubSeq(v, jj - ii + 1, Len(v))), jj)
               ELSE Gives(Spliced(Erased(s, ii, jj), ii, v), ii)
  BY DEF SetSlice
<1>0. ListWith(s, i, j, v) = Spliced(Erased(s, p, m), p, v)
  BY DEF ListWith
<1> HIDE DEF n, ii, j2, r, p, q
<1>3. /\ ~inside => OutOfRange \in {ii, j2}
      /\ inside => ii = p /\ jj = m /\ OutOfRange \notin {ii, j2}
  <2>1. /\ OutOfRange \notin 0..n
        /\ ii = IF i \in -n .. n - 1 \/ (TRUE /\ i = n) THEN p ELSE OutOfRange
        /\ j2 = IF j >= -n THEN q ELSE OutOfRange
    BY <1>1, Wrapped DEF ii, j2, p, q
  <2> HIDE DEF OutOfRange, jj, m, inside
  <2>2. ~inside => OutOfRange \in {ii, j2}
    BY <2>1, <1>1 DEF inside
  <2>3. inside => ii = p /\ j2 = q /\ OutOfRange \notin {ii, j2}
    BY <2>1, <1>1 DEF inside
  <2>4. ii = p /\ j2 = q => jj = m
    BY DEF jj, m
  <2> QED
    BY <2>2, <2>3, <2>4
<1> HIDE DEF m, jj
<1>4. CASE inside
  <2>1. p \in 0..Len(s) /\ m \in p..Len(s)
    BY <1>1 DEF n
  <2>2. ASSUME m - p <= Len(v)
        PROVE  Spliced(Copied(s, p, m - p, v), m, SubSeq(v, m - p + 1, Len(v))) = Spliced(Erased(s, p, m), p, v)
    BY <2>1, <2>2, CopiedAndSpliced
  <2>3. r.raises = FALSE /\ r.elements = ListWith(s, i, j, v)
    BY <1>0, <1>2, <1>3, <1>4, <2>2 DEF Gives
  <2> QED
    BY <2>3, <1>4 DEF Agree, r, n
<1>5. CASE ~inside
  <2>1. r.raises = TRUE
    BY <1>2, <1>3, <1>5 DEF IndexError
  <2> QED
    BY <2>1, <1>5 DEF Agree, r, n
<1> QED
  BY <1>4, <1>5

-----------------------------------------------------------------------------
(* A list is in the vector, with room for it, and an iterator that no      *)
(* change has made invalid is within.                                      *)
Iterators(n) == [kind : {"none", "closed", "open", "backward"}, at : 0..n]

SequenceTyped ==
  /\ vec \in Seq(Elements) /\ room \in Nat /\ Len(vec) <= room
  /\ cursors \in [Slots -> Iterators(Len(vec))]

(* What a change gives, unless it raises, is a list.                       *)
FitsIn(r) == ~r.raises => r.elements \in Seq(Elements) /\ r.from \in 0..Len(r.elements)

LEMMA GivesFits ==
  ASSUME NEW e \in Seq(Elements), NEW p \in 0..Len(e)
  PROVE  FitsIn(Gives(e, p))
BY DEF FitsIn, Gives

LEMMA ErrorFits == FitsIn(IndexError)
BY DEF FitsIn, IndexError

LEMMA ErasedFits ==
  ASSUME NEW s \in Seq(Elements), NEW p \in 0..Len(s), NEW q \in p..Len(s)
  PROVE  Erased(s, p, q) \in Seq(Elements) /\ p \in 0..Len(Erased(s, p, q)) /\ FitsIn(Gives(Erased(s, p, q), p))
<1> DEFINE e == Erased(s, p, q)
<1>1. Cut(Elements, s, p, q, e)
  BY ErasedPlaces
<1> HIDE DEF e
<1>2. Len(s) \in Nat
  BY LenProperties
<1>3. e \in Seq(Elements) /\ p \in 0..Len(e)
  BY <1>1, <1>2 DEF Cut
<1>4. FitsIn(Gives(e, p))
  BY <1>3, GivesFits
<1> QED
  BY <1>3, <1>4 DEF e

LEMMA SplicedFits ==
  ASSUME NEW s \in Seq(Elements), NEW p \in 0..Len(s), NEW v \in Seq(Elements), NEW k \in 0..Len(s)
  PROVE  Spliced(s, p, v) \in Seq(Elements) /\ k \in 0..Len(Spliced(s, p, v)) /\ FitsIn(Gives(Spliced(s, p, v), k))
<1> DEFINE e == Spliced(s, p, v)
<1>1. More(Elements, s, p, v, e)
  BY SplicedPlaces
<1> HIDE DEF e
<1>2. Len(s) \in Nat /\ Len(v) \in Nat
  BY LenProperties
<1>3. e \in Seq(Elements) /\ k \in 0..Len(e)
  BY <1>1, <1>2 DEF More
<1>4. FitsIn(Gives(e, k))
  BY <1>3, GivesFits
<1> QED
  BY <1>3, <1>4 DEF e

LEMMA DelSliceFits ==
  ASSUME NEW s \in Seq(Elements), NEW i \in Int, NEW j \in Int
  PROVE  FitsIn(DelSlice(s, i, j))
<1> DEFINE n == Len(s)  ii == CheckIndex(i, n, TRUE)  jj == SliceIndex(j, n)
<1>1. n \in Nat
  BY LenProperties
<1>2. DelSlice(s, i, j) = IF OutOfRange \in {ii, jj} THEN IndexError
        ELSE IF jj > ii THEN Gives(Erased(s, ii, jj), ii) ELSE Gives(s, n)
  BY DEF DelSlice
<1> HIDE DEF n
<1>3. ii \in 0..n \cup {OutOfRange} /\ jj \in 0..n \cup {OutOfRange}
  BY <1>1, WrappedTo
<1> USE DEF n
<1> HIDE DEF ii, jj
<1>4. CASE OutOfRange \in {ii, jj}
  BY <1>2, <1>4, ErrorFits
<1>5. CASE OutOfRange \notin {ii, jj} /\ jj > ii
  <2>1. ii \in 0..Len(s) /\ jj \in ii..Len(s)
    BY <1>1, <1>3, <1>5
  <2> QED
    BY <1>2, <1>5, <2>1, ErasedFits
<1>6. CASE OutOfRange \notin {ii, jj} /\ ~(jj > ii)
  BY <1>1, <1>2, <1>6, GivesFits
<1> QED
  BY <1>4, <1>5, <1>6

LEMMA SetSliceFits ==
  ASSUME NEW s \in Seq(Elements), NEW i \in Int, NEW j \in Int, NEW v \in Seq(Elements)
  PROVE  FitsIn(SetSlice(s, i, j, v))
<1> DEFINE n == Len(s)  ii == CheckIndex(i, n, TRUE)  j2 == SliceIndex(j, n)
           jj == IF j2 < ii THEN ii ELSE j2
<1>1. n \in Nat /\ Len(v) \in Nat
  BY LenProperties
<1>2. SetSlice(s, i, j, v) =
        IF OutOfRange \in {ii, j2} THEN IndexError
        ELSE IF jj - ii <= Len(v)
             THEN Gives(Spliced(Copied(s, ii, jj - ii, v), jj, SubSeq(v, jj - ii + 1, Len(v))), jj)
             ELSE Gives(Spliced(Erased(s, ii, jj), ii, v), ii)
  BY DEF SetSlice
<1> HIDE DEF n
<1>3. ii \in 0..n \cup {OutOfRange} /\ j2 \in 0..n \cup {OutOfRange}
  BY <1>1, WrappedTo
<1> USE DEF n
<1> HIDE DEF ii, j2
<1>4. CASE OutOfRange \in {ii, j2}
  BY <1>2, <1>4, ErrorFits
<1>5. CASE OutOfRange \notin {ii, j2}
  <2>1. ii \in 0..Len(s) /\ jj \in ii..Len(s)
    BY <1>1, <1>3, <1>5
  <2> HIDE DEF jj
  <2> DEFINE e == Erased(s, ii, jj)
  <2>2. Cut(Elements, s, ii, jj, e)
    BY <2>1, ErasedPlaces
  <2> HIDE DEF e
  <2>3. e \in Seq(Elements) /\ ii \in 0..Len(e) /\ Len(e) = n - (jj - ii)
    BY <2>1, <2>2, <1>1 DEF Cut
  <2> DEFINE f == Spliced(e, ii, v)
  <2>4. More(Elements, e, ii, v, f)
    BY <2>3, SplicedPlaces
  <2> HIDE DEF f
  <2>5. f \in Seq(Elements) /\ Len(f) = (n - (jj - ii)) + Len(v)
    BY <2>3, <2>4 DEF More
  <2>6. CASE jj - ii <= Len(v)
    <3>1. Spliced(Copied(s, ii, jj - ii, v), jj, SubSeq(v, jj - ii + 1, Len(v))) = f
      BY <2>1, <2>6, CopiedAndSpliced DEF e, f
    <3>2. jj \in 0..Len(f)
      BY <2>1, <2>5, <2>6, <1>1
    <3> QED
      BY <1>2, <1>5, <2>5, <2>6, <3>1, <3>2, GivesFits
  <2>7. CASE ~(jj - ii <= Len(v))
    <3>1. ii \in 0..Len(f)
      BY <2>1, <2>5, <2>7, <1>1
    <3> QED
      BY <1>2, <1>5, <2>5, <2>7, <3>1, GivesFits DEF e, f
  <2> QED
    BY <2>6, <2>7
<1> QED
  BY <1>4, <1>5

LEMMA BoundsAreNumbers ==
  ASSUME NEW c \in Slices, NEW n \in Nat
  PROVE  StartOf(c, n) \in Int /\ StopOf(c, n) \in Int
<1>1. \A b \in Int \cup {Absent}, a \in Int : Bound(b, a, n) \in Int
  BY DEF Bound
<1>2. c.start \in Int \cup {Absent} /\ c.stop \in Int \cup {Absent}
  BY PySequenceAssumption
<1>3. (IF c.step < 0 THEN n - 1 ELSE 0) \in Int /\ (IF c.step < 0 THEN -1 ELSE n) \in Int
  OBVIOUS
<1> DEFINE a == IF c.step < 0 THEN n - 1 ELSE 0  z == IF c.step < 0 THEN -1 ELSE n
<1>4. StartOf(c, n) = Bound(c.start, a, n) /\ StopOf(c, n) = Bound(c.stop, z, n)
  BY DEF StartOf, StopOf
<1>5. a \in Int /\ z \in Int
  BY <1>3
<1> HIDE DEF a, z
<1> QED
  BY <1>1, <1>2, <1>4, <1>5

LEMMA SetItemFits ==
  ASSUME NEW s \in Seq(Elements), NEW i \in Int, NEW x \in Elements
  PROVE  FitsIn(SetItem(s, i, x)) /\ FitsIn(DelItem(s, i))
<1> DEFINE n == Len(s)  p == ItemAt(s, i)
<1>1. n \in Nat
  BY LenProperties
<1>2. p \in 0..(n - 1) \cup {OutOfRange}
  BY <1>1 DEF ItemAt, CheckIndex, OutOfRange
<1>3. /\ SetItem(s, i, x) = IF p = OutOfRange THEN IndexError ELSE Gives([s EXCEPT ![p + 1] = x], n)
      /\ DelItem(s, i) = IF p = OutOfRange THEN IndexError ELSE Gives(Erased(s, p, p + 1), p)
  BY DEF SetItem, DelItem, NoItem
<1> HIDE DEF p
<1>4. CASE p = OutOfRange
  BY <1>3, <1>4, ErrorFits
<1>5. CASE p # OutOfRange
  <2>1. p \in 0..Len(s) /\ p + 1 \in p..Len(s) /\ p + 1 \in 1..Len(s)
    BY <1>1, <1>2, <1>5
  <2> DEFINE e == [s EXCEPT ![p + 1] = x]
  <2>2. e \in Seq(Elements) /\ Len(e) = Len(s)
    BY <2>1, ExceptSeq
  <2> HIDE DEF e
  <2>3. n \in 0..Len(e)
    BY <2>2, <1>1
  <2>4. FitsIn(Gives(e, n))
    BY <2>2, <2>3, GivesFits
  <2>5. FitsIn(Gives(Erased(s, p, p + 1), p))
    BY <2>1, ErasedFits
  <2> QED
    BY <1>3, <1>5, <2>4, <2>5 DEF e
<1> QED
  BY <1>4, <1>5

LEMMA UnmovedTyped ==
  ASSUME SequenceTyped, Unmoved
  PROVE  SequenceTyped'
BY DEF SequenceTyped, Unmoved, Iterators

LEMMA KeepTyped ==
  ASSUME SequenceTyped, NEW s \in Slots, NEW c \in Iterators(Len(vec)), Keep(s, c)
  PROVE  SequenceTyped'
BY DEF SequenceTyped, Keep, Iterators

LEMMA RefilledTyped ==
  ASSUME NEW e \in Seq(Elements), NEW capacity \in Nat, Len(e) <= capacity, Refilled(e, capacity)
  PROVE  SequenceTyped'
<1>1. Len(e) \in Nat
  BY LenProperties
<1>2. NoCursor \in Iterators(Len(e))
  BY <1>1 DEF NoCursor, Iterators
<1>3. vec' = e /\ room' = capacity /\ cursors' = [s \in Slots |-> NoCursor]
  BY DEF Refilled
<1>4. cursors' \in [Slots -> Iterators(Len(e))]
  BY <1>2, <1>3
<1> QED
  BY <1>3, <1>4 DEF SequenceTyped, Iterators

(* The vector moves when it grows beyond its room; an iterator that stays  *)
(* is before the change, or the length is what it was.                     *)
LEMMA BecomeTyped ==
  ASSUME SequenceTyped, NEW e \in Seq(Elements), NEW p \in 0..Len(e), NEW new,
         \A s \in DOMAIN new : new[s] \in Iterators(Len(e)), Become(e, p, new)
  PROVE  SequenceTyped'
<1>1. Len(e) \in Nat /\ Len(vec) \in Nat /\ room \in Nat /\ Len(vec) <= room
  BY LenProperties DEF SequenceTyped
<1>2. vec' = e /\ room' \in Nat /\ Len(e) <= room'
  <2>1. room' = IF Len(e) <= room THEN room ELSE IF Len(e) > 2 * Len(vec) THEN Len(e) ELSE 2 * Len(vec)
    BY DEF Become
  <2>2. vec' = e
    BY DEF Become
  <2> QED
    BY <1>1, <2>1, <2>2
<1> DEFINE Stays(s) == Len(e) = Len(vec) \/ (Len(e) <= room /\ cursors[s].kind # "closed" /\ cursors[s].at < p)
<1>3. cursors' = [s \in Slots |-> IF s \in DOMAIN new THEN new[s] ELSE IF Stays(s) THEN cursors[s] ELSE NoCursor]
  BY DEF Become
<1>4. ASSUME NEW s \in Slots, Stays(s) PROVE cursors[s] \in Iterators(Len(e))
  <2>1. cursors[s] \in Iterators(Len(vec))
    BY DEF SequenceTyped
  <2>2. CASE Len(e) = Len(vec)
    BY <2>1, <2>2
  <2>3. CASE cursors[s].at < p
    BY <2>1, <2>3, <1>1 DEF Iterators
  <2> QED
    BY <1>4, <2>2, <2>3
<1>5. NoCursor \in Iterators(Len(e))
  BY <1>1 DEF NoCursor, Iterators
<1> HIDE DEF Stays
<1>6. cursors' \in [Slots -> Iterators(Len(e))]
  BY <1>3, <1>4, <1>5
<1> QED
  BY <1>2, <1>6 DEF SequenceTyped, Iterators

LEMMA DoneTyped ==
  ASSUME SequenceTyped, NEW r, FitsIn(r), Done(r)
  PROVE  SequenceTyped'
<1>1. CASE r.raises /\ Raise("IndexError")
  BY <1>1, UnmovedTyped DEF Raise
<1>2. CASE ~r.raises /\ Become(r.elements, r.from, << >>)
  <2>1. r.elements \in Seq(Elements) /\ r.from \in 0..Len(r.elements)
    BY <1>2 DEF FitsIn
  <2> DEFINE new == << >>  e == r.elements  p == r.from
  <2>2. DOMAIN new = {}
    OBVIOUS
  <2>3. e \in Seq(Elements) /\ p \in 0..Len(e) /\ Become(e, p, new)
    BY <1>2, <2>1
  <2> HIDE DEF new, e, p
  <2> QED
    BY <2>2, <2>3, BecomeTyped
<1> QED
  BY <1>1, <1>2 DEF Done

LEMMA LookedTyped ==
  ASSUME SequenceTyped, NEW r, Looked(r)
  PROVE  SequenceTyped'
BY UnmovedTyped DEF Looked

LEMMA BecomeAtTyped ==
  ASSUME SequenceTyped, NEW e \in Seq(Elements), NEW p \in 0..Len(e), NEW s \in Slots, BecomeAt(e, p, s)
  PROVE  SequenceTyped'
<1> DEFINE new == [t \in {s} |-> Open(p)]
<1>1. \A t \in DOMAIN new : new[t] \in Iterators(Len(e))
  BY DEF Open, Iterators
<1>2. Become(e, p, new)
  BY DEF BecomeAt
<1> HIDE DEF new
<1> QED
  BY <1>1, <1>2, BecomeTyped

LEMMA MoveTyped ==
  ASSUME SequenceTyped, NEW s \in Slots, NEW c \in Iterators(Len(vec)), NEW n \in Int,
         NEW stopped \in Iterators(Len(vec)), MoveTo(s, c, n, stopped)
  PROVE  SequenceTyped'
<1> DEFINE m == Moved(c, n)
<1>1. CASE Within(m)
  <2>1. m \in Iterators(Len(vec))
    BY <1>1 DEF Moved, Iterators, Within
  <2>2. Keep(s, m)
    BY <1>1 DEF MoveTo
  <2> HIDE DEF m
  <2> QED
    BY <2>1, <2>2, KeepTyped
<1>2. CASE ~Within(m)
  <2>1. cursors' = [cursors EXCEPT ![s] = stopped] /\ UNCHANGED <<vec, room>>
    BY <1>2 DEF MoveTo
  <2> QED
    BY <2>1 DEF SequenceTyped, Iterators
<1> QED
  BY <1>1, <1>2

LEMMA AdvanceTyped ==
  ASSUME SequenceTyped, NEW s \in Slots, NEW n \in Int, Advance(s, n)
  PROVE  SequenceTyped'
<1> DEFINE stopped == Closed(IF n > 0 THEN Len(vec) ELSE 0)
<1>1. Len(vec) \in Nat /\ cursors[s] \in Iterators(Len(vec))
  BY LenProperties DEF SequenceTyped
<1>2. stopped \in Iterators(Len(vec))
  BY <1>1 DEF Closed, Iterators
<1>3. MoveTo(s, cursors[s], n, stopped)
  BY DEF Advance
<1> HIDE DEF stopped
<1> QED
  BY <1>1, <1>2, <1>3, MoveTyped

LEMMA RaiseTyped ==
  ASSUME SequenceTyped, NEW e, Raise(e)
  PROVE  SequenceTyped'
BY UnmovedTyped DEF Raise

LEMMA SubscriptsTyped ==
  ASSUME SequenceTyped,
         \/ \E i, j \in Indices : SeqGetSlice(i, j) \/ SeqDelSlice(i, j)
         \/ SeqSetSliceCall \/ SeqGetItemCall \/ SeqSetItemCall \/ SeqDelItemCall
  PROVE  SequenceTyped'
<1>1. vec \in Seq(Elements) /\ Len(vec) \in Nat /\ Indices \subseteq Int /\ Arguments \subseteq Seq(Elements)
  BY LenProperties, PySequenceAssumption DEF SequenceTyped
<1>2. << >> \in Seq(Elements)
  BY EmptySeq
<1>3. \A c \in Slices : StartOf(c, Len(vec)) \in Int /\ StopOf(c, Len(vec)) \in Int
  BY <1>1, BoundsAreNumbers
<1>4. ASSUME NEW i \in Int, NEW j \in Int PROVE FitsIn(DelSlice(vec, i, j))
  BY <1>1, DelSliceFits
<1>5. ASSUME NEW i \in Int, NEW j \in Int, NEW v \in Seq(Elements) PROVE FitsIn(SetSlice(vec, i, j, v))
  BY <1>1, SetSliceFits
<1>6. CASE \E i, j \in Indices : SeqGetSlice(i, j) \/ SeqDelSlice(i, j)
  <2>1. PICK i \in Indices, j \in Indices : SeqGetSlice(i, j) \/ SeqDelSlice(i, j)
    BY <1>6
  <2>2. CASE SeqGetSlice(i, j)
    BY <2>2, LookedTyped DEF SeqGetSlice
  <2>3. CASE SeqDelSlice(i, j)
    <3>1. FitsIn(DelSlice(vec, i, j)) /\ Done(DelSlice(vec, i, j))
      BY <1>1, <1>4, <2>3 DEF SeqDelSlice
    <3> QED
      BY <3>1, DoneTyped
  <2> QED
    BY <2>1, <2>2, <2>3
<1>7. CASE SeqSetSliceCall
  <2>1. ASSUME NEW i \in Indices, NEW j \in Indices, NEW v \in Seq(Elements), Done(SetSlice(vec, i, j, v))
        PROVE  SequenceTyped'
    <3>1. FitsIn(SetSlice(vec, i, j, v))
      BY <1>1, <1>5
    <3> QED
      BY <2>1, <3>1, DoneTyped
  <2> QED
    BY <1>1, <1>2, <1>7, <2>1, RaiseTyped DEF SeqSetSliceCall, SeqUnsetSlice, SeqSetSlice, Unmatched
<1>8. CASE SeqGetItemCall
  BY <1>8, LookedTyped, RaiseTyped DEF SeqGetItemCall, SeqGetItem, SeqGetItemSlice, Unmatched
<1>9. CASE SeqSetItemCall
  <2>1. ASSUME NEW i \in Indices, NEW x \in Elements, SeqSetItem(i, x) PROVE SequenceTyped'
    <3>1. FitsIn(SetItem(vec, i, x)) /\ Done(SetItem(vec, i, x))
      BY <1>1, <2>1, SetItemFits DEF SeqSetItem
    <3> QED
      BY <3>1, DoneTyped
  <2>2. ASSUME NEW c \in Slices, SeqUnsetItemSlice(c) PROVE SequenceTyped'
    <3>1. FitsIn(DelItemSlice(vec, c)) /\ Done(DelItemSlice(vec, c))
      BY <1>3, <1>4, <2>2 DEF SeqUnsetItemSlice, DelItemSlice
    <3> QED
      BY <3>1, DoneTyped
  <2>3. ASSUME NEW c \in Slices, NEW v \in Arguments, SeqSetItemSlice(c, v) PROVE SequenceTyped'
    <3>1. FitsIn(SetItemSlice(vec, c, v)) /\ Done(SetItemSlice(vec, c, v))
      BY <1>1, <1>3, <1>5, <2>3 DEF SeqSetItemSlice, SetItemSlice
    <3> QED
      BY <3>1, DoneTyped
  <2> QED
    BY <1>9, <2>1, <2>2, <2>3, RaiseTyped DEF SeqSetItemCall, Unmatched
<1>10. CASE SeqDelItemCall
  <2>1. ASSUME NEW i \in Indices, SeqDelItem(i) PROVE SequenceTyped'
    <3>1. FitsIn(DelItem(vec, i)) /\ Done(DelItem(vec, i))
      BY <1>1, <2>1, SetItemFits, PySequenceAssumption DEF SeqDelItem
    <3> QED
      BY <3>1, DoneTyped
  <2>2. ASSUME NEW c \in Slices, SeqDelItemSlice(c) PROVE SequenceTyped'
    <3>1. FitsIn(DelItemSlice(vec, c)) /\ Done(DelItemSlice(vec, c))
      BY <1>3, <1>4, <2>2 DEF SeqDelItemSlice, DelItemSlice
    <3> QED
      BY <3>1, DoneTyped
  <2> QED
    BY <1>10, <2>1, <2>2, RaiseTyped DEF SeqDelItemCall, Unmatched
<1> QED
  BY <1>6, <1>7, <1>8, <1>9, <1>10

LEMMA CopiesAreLists ==
  ASSUME NEW n \in Nat, NEW x \in Elements
  PROVE  Copies(n, x) \in Seq(Elements) /\ Len(Copies(n, x)) = n
<1>1. Copies(n, x) \in [1..n -> Elements]
  BY DEF Copies
<1> QED
  BY <1>1, LenProperties

LEMMA ResizeTyped ==
  ASSUME SequenceTyped, NEW n \in Nat, NEW x \in Elements, SeqResize(n, x)
  PROVE  SequenceTyped'
<1> DEFINE r == IF n <= Len(vec) THEN Gives(SubSeq(vec, 1, n), n)
                ELSE Gives(vec \o Copies(n - Len(vec), x), Len(vec))
<1>1. vec \in Seq(Elements) /\ Len(vec) \in Nat
  BY LenProperties DEF SequenceTyped
<1>2. CASE n <= Len(vec)
  <2> DEFINE e == SubSeq(vec, 0 + 1, n)
  <2>1. 0 \in 0..Len(vec) /\ n \in 0..Len(vec)
    BY <1>1, <1>2
  <2>2. e \in Seq(Elements) /\ Len(e) = n - 0
    BY <1>1, <2>1, Part
  <2>3. r = Gives(e, n)
    BY <1>2
  <2> HIDE DEF e
  <2>4. n \in 0..Len(e)
    BY <2>2
  <2> HIDE DEF r
  <2> QED
    BY <2>2, <2>3, <2>4, GivesFits, DoneTyped DEF SeqResize, r
<1>3. CASE ~(n <= Len(vec))
  <2> DEFINE c == Copies(n - Len(vec), x)  e == vec \o c
  <2>1. n - Len(vec) \in Nat
    BY <1>1, <1>3
  <2>2. c \in Seq(Elements) /\ Len(c) = n - Len(vec)
    BY <2>1, CopiesAreLists
  <2>3. r = Gives(e, Len(vec))
    BY <1>3
  <2> HIDE DEF c
  <2>4. Behind(Elements, vec, c, e)
    BY <1>1, <2>2, Joined
  <2> HIDE DEF e
  <2>5. e \in Seq(Elements) /\ Len(vec) \in 0..Len(e)
    BY <1>1, <2>1, <2>2, <2>4 DEF Behind
  <2> QED
    BY <2>3, <2>5, GivesFits, DoneTyped DEF SeqResize
<1> QED
  BY <1>2, <1>3

LEMMA AppendTyped ==
  ASSUME SequenceTyped, NEW x \in Elements, SeqAppend(x) \/ SeqPushBack(x)
  PROVE  SequenceTyped'
<1> DEFINE e == Append(vec, x)
<1>1. vec \in Seq(Elements) /\ Len(vec) \in Nat
  BY LenProperties DEF SequenceTyped
<1>2. e \in Seq(Elements) /\ Len(e) = Len(vec) + 1
  BY <1>1, AppendProperties
<1>3. Done(Gives(e, Len(vec)))
  BY DEF SeqAppend, SeqPushBack
<1> HIDE DEF e
<1>4. Len(vec) \in 0..Len(e)
  BY <1>1, <1>2
<1> QED
  BY <1>2, <1>3, <1>4, GivesFits, DoneTyped

LEMMA PoppedTyped ==
  ASSUME SequenceTyped, SeqPop \/ SeqPopBack
  PROVE  SequenceTyped'
<1>1. vec \in Seq(Elements) /\ Len(vec) \in Nat /\ (vec # << >> => Len(vec) # 0)
  BY LenProperties, EmptySeq DEF SequenceTyped
<1>2. FitsIn(Popped(vec))
  <2>1. CASE vec = << >>
    BY <2>1, ErrorFits DEF Popped
  <2>2. CASE vec # << >>
    <3> DEFINE m == Len(vec) - 1  e == SubSeq(vec, 0 + 1, m)
    <3>1. 0 \in 0..Len(vec) /\ m \in 0..Len(vec) /\ m \in Nat
      BY <1>1, <2>2
    <3>2. e \in Seq(Elements) /\ Len(e) = m - 0
      BY <1>1, <3>1, Part
    <3>3. Popped(vec) = Gives(e, m)
      BY <2>2 DEF Popped, Front
    <3> HIDE DEF e, m
    <3>4. m \in 0..Len(e)
      BY <3>1, <3>2
    <3> QED
      BY <3>2, <3>3, <3>4, GivesFits
  <2> QED
    BY <2>1, <2>2
<1>3. Done(Popped(vec))
  BY DEF SeqPop, SeqPopBack
<1> QED
  BY <1>2, <1>3, DoneTyped

LEMMA WholeSequenceTyped ==
  ASSUME SequenceTyped,
         \/ SeqNewCall \/ SeqResizeCall
         \/ SeqFront \/ SeqBack \/ SeqClear
         \/ \E n \in Counts : SeqReserve(n) \/ \E x \in Elements : SeqAssign(n, x)
         \/ \E v \in Arguments : SeqSwap(v)
  PROVE  SequenceTyped'
<1>1. vec \in Seq(Elements) /\ Len(vec) \in Nat /\ Counts \subseteq Nat /\ Arguments \subseteq Seq(Elements) /\ NewElement \in Elements
  BY LenProperties, PySequenceAssumption DEF SequenceTyped, Counts
<1>2. << >> \in Seq(Elements) /\ Len(<< >>) = 0
  BY EmptySeq
<1>3. ASSUME NEW v \in Seq(Elements), Refilled(v, Len(v)) PROVE SequenceTyped'
  <2>1. Len(v) \in Nat /\ Len(v) <= Len(v)
    BY LenProperties
  <2> QED
    BY <1>3, <2>1, RefilledTyped
<1>4. ASSUME NEW n \in Nat, NEW x \in Elements, NEW c \in Nat, n <= c, Refilled(Copies(n, x), c) PROVE SequenceTyped'
  <2>1. Copies(n, x) \in Seq(Elements) /\ Len(Copies(n, x)) <= c
    BY <1>4, CopiesAreLists
  <2> QED
    BY <1>4, <2>1, RefilledTyped
<1>5. CASE SeqNewCall
  <2>1. CASE SeqNew
    <3>1. Refilled(<< >>, Len(<< >>))
      BY <1>2, <2>1 DEF SeqNew
    <3> QED
      BY <1>2, <1>3, <3>1
  <2>2. ASSUME NEW n \in Nat, NEW x \in Elements, Refilled(Copies(n, x), n) PROVE SequenceTyped'
    BY <1>4, <2>2
  <2> QED
    BY <1>1, <1>3, <1>5, <2>1, <2>2, RaiseTyped DEF SeqNewCall, SeqNewCopy, SeqNewDefault, SeqNewFilled, Unmatched
<1>6. CASE SeqResizeCall
  BY <1>1, <1>6, ResizeTyped, RaiseTyped DEF SeqResizeCall, SeqResizeDefault, Unmatched
<1>7. CASE SeqFront \/ SeqBack
  BY <1>7, LookedTyped DEF SeqFront, SeqBack
<1>8. CASE SeqClear
  <2> DEFINE e == << >>
  <2>1. e \in Seq(Elements) /\ 0 \in 0..Len(e) /\ Done(Gives(e, 0))
    BY <1>2, <1>8 DEF SeqClear
  <2> HIDE DEF e
  <2> QED
    BY <2>1, GivesFits, DoneTyped
<1>9. ASSUME NEW n \in Counts, SeqReserve(n) PROVE SequenceTyped'
  <2>1. NoCursor \in Iterators(Len(vec))
    BY <1>1 DEF NoCursor, Iterators
  <2>2. CASE n <= room
    BY <1>9, <2>2 DEF SeqReserve, SequenceTyped, Iterators
  <2>3. CASE ~(n <= room)
    <3>1. vec' = vec /\ room' = n /\ cursors' = [s \in Slots |-> NoCursor]
      BY <1>9, <2>3 DEF SeqReserve
    <3>2. n \in Nat /\ Len(vec) <= n
      BY <1>1, <2>3 DEF SequenceTyped
    <3>3. cursors' \in [Slots -> Iterators(Len(vec))]
      BY <2>1, <3>1
    <3> QED
      BY <1>1, <3>1, <3>2, <3>3 DEF SequenceTyped
  <2> QED
    BY <2>2, <2>3
<1>10. ASSUME NEW n \in Counts, NEW x \in Elements, SeqAssign(n, x) PROVE SequenceTyped'
  <2> DEFINE c == IF n <= room THEN room ELSE n
  <2>1. n \in Nat /\ c \in Nat /\ n <= c
    BY <1>1 DEF SequenceTyped
  <2>2. Refilled(Copies(n, x), c)
    BY <1>10 DEF SeqAssign
  <2> HIDE DEF c
  <2> QED
    BY <1>4, <2>1, <2>2
<1>11. ASSUME NEW v \in Arguments, SeqSwap(v) PROVE SequenceTyped'
  BY <1>1, <1>3, <1>11 DEF SeqSwap
<1> QED
  BY <1>5, <1>6, <1>7, <1>8, <1>9, <1>10, <1>11

LEMMA EraseInsertTyped ==
  ASSUME SequenceTyped, SeqEraseCall \/ SeqInsertCall
  PROVE  SequenceTyped'
<1>1. vec \in Seq(Elements) /\ Len(vec) \in Nat /\ Counts \subseteq Nat
  BY LenProperties DEF SequenceTyped, Counts
<1>2. \A s \in Slots : cursors[s].at \in 0..Len(vec)
  BY DEF SequenceTyped, Iterators
<1>3. ASSUME NEW s \in Slots, NEW p \in 0..Len(vec), NEW q \in p..Len(vec), BecomeAt(Erased(vec, p, q), p, s)
      PROVE  SequenceTyped'
  <2>1. Erased(vec, p, q) \in Seq(Elements) /\ p \in 0..Len(Erased(vec, p, q))
    BY <1>1, ErasedFits
  <2> QED
    BY <1>3, <2>1, BecomeAtTyped
<1>4. ASSUME NEW s \in Slots, SeqErase(s) PROVE SequenceTyped'
  <2> DEFINE p == cursors[s].at
  <2>1. p \in 0..Len(vec) /\ p + 1 \in p..Len(vec)
    BY <1>1, <1>2, <1>4 DEF SeqErase
  <2>2. BecomeAt(Erased(vec, p, p + 1), p, s)
    BY <1>4 DEF SeqErase
  <2> HIDE DEF p
  <2> QED
    BY <1>3, <2>1, <2>2
<1>5. ASSUME NEW s \in Slots, NEW t \in Slots, SeqEraseRange(s, t) PROVE SequenceTyped'
  <2> DEFINE p == cursors[s].at  q == cursors[t].at
  <2>1. p \in 0..Len(vec) /\ q \in p..Len(vec)
    BY <1>1, <1>2, <1>5 DEF SeqEraseRange
  <2>2. BecomeAt(Erased(vec, p, q), p, s)
    BY <1>5 DEF SeqEraseRange
  <2> HIDE DEF p, q
  <2> QED
    BY <1>3, <2>1, <2>2
<1>6. ASSUME NEW s \in Slots, NEW x \in Elements, SeqInsert(s, x) PROVE SequenceTyped'
  <2> DEFINE p == cursors[s].at  v == << x >>
  <2>1. p \in 0..Len(vec) /\ v \in Seq(Elements)
    BY <1>2
  <2>2. BecomeAt(Spliced(vec, p, v), p, s)
    BY <1>6 DEF SeqInsert
  <2> HIDE DEF p, v
  <2>3. Spliced(vec, p, v) \in Seq(Elements) /\ p \in 0..Len(Spliced(vec, p, v))
    BY <1>1, <2>1, SplicedFits
  <2> QED
    BY <2>2, <2>3, BecomeAtTyped
<1>7. ASSUME NEW s \in Slots, NEW x \in Elements, NEW n \in Nat, SeqInsertFilled(s, n, x) PROVE SequenceTyped'
  <2> DEFINE p == cursors[s].at  v == Copies(n, x)
  <2>1. p \in 0..Len(vec) /\ v \in Seq(Elements)
    BY <1>2, CopiesAreLists
  <2>2. Done(Gives(Spliced(vec, p, v), p))
    BY <1>7 DEF SeqInsertFilled
  <2> HIDE DEF p, v
  <2>3. FitsIn(Gives(Spliced(vec, p, v), p))
    BY <1>1, <2>1, SplicedFits
  <2> QED
    BY <2>2, <2>3, DoneTyped
<1>8. CASE SeqEraseCall
  BY <1>4, <1>5, <1>8, RaiseTyped DEF SeqEraseCall, Unmatched
<1>9. CASE SeqInsertCall
  BY <1>1, <1>6, <1>7, <1>9, RaiseTyped DEF SeqInsertCall, Unmatched
<1> QED
  BY <1>8, <1>9

LEMMA IteratorsTyped ==
  ASSUME SequenceTyped, NEW s \in Slots,
         \/ SeqIterator(s) \/ SeqBegin(s) \/ SeqEnd(s) \/ SeqRbegin(s) \/ SeqRend(s)
         \/ ItValue(s) \/ ItNext(s) \/ ItPrevious(s)
  PROVE  SequenceTyped'
<1>1. Len(vec) \in Nat /\ cursors[s] \in Iterators(Len(vec))
  BY LenProperties DEF SequenceTyped
<1>2. ASSUME NEW p \in 0..Len(vec)
      PROVE  Closed(p) \in Iterators(Len(vec)) /\ Open(p) \in Iterators(Len(vec)) /\ Reversed(p) \in Iterators(Len(vec))
  BY DEF Closed, Open, Reversed, Iterators
<1>3. 0 \in 0..Len(vec) /\ Len(vec) \in 0..Len(vec)
  BY <1>1
<1>4. CASE SeqIterator(s) \/ SeqBegin(s) \/ SeqEnd(s) \/ SeqRbegin(s) \/ SeqRend(s)
  BY <1>2, <1>3, <1>4, KeepTyped DEF SeqIterator, SeqBegin, SeqEnd, SeqRbegin, SeqRend
<1>5. CASE ItValue(s)
  BY <1>5, UnmovedTyped, RaiseTyped DEF ItValue
<1>6. CASE ItNext(s)
  <2>1. CASE Pointee(cursors[s]) \in DOMAIN vec
    <3> DEFINE m == Moved(cursors[s], 1)
    <3>1. DOMAIN vec = 1..Len(vec)
      BY LenProperties DEF SequenceTyped
    <3>2. m \in Iterators(Len(vec))
      BY <1>1, <2>1, <3>1 DEF Moved, Iterators, Pointee
    <3>3. Keep(s, m)
      BY <1>6, <2>1 DEF ItNext
    <3> HIDE DEF m
    <3> QED
      BY <3>2, <3>3, KeepTyped
  <2>2. CASE Pointee(cursors[s]) \notin DOMAIN vec
    BY <1>6, <2>2, RaiseTyped DEF ItNext
  <2> QED
    BY <2>1, <2>2
<1>7. CASE ItPrevious(s)
  <2> DEFINE m == Moved(cursors[s], -1)
  <2>1. CASE Within(m)
    <3>1. m \in Iterators(Len(vec))
      BY <1>1, <2>1 DEF Moved, Iterators, Within
    <3>2. Keep(s, m)
      BY <1>7, <2>1 DEF ItPrevious
    <3> HIDE DEF m
    <3> QED
      BY <3>1, <3>2, KeepTyped
  <2>2. CASE ~Within(m)
    BY <1>7, <2>2, RaiseTyped DEF ItPrevious
  <2> QED
    BY <2>1, <2>2
<1> QED
  BY <1>4, <1>5, <1>6, <1>7

LEMMA MovesTyped ==
  ASSUME SequenceTyped,
         \/ \E s \in Slots, n \in Indices : ItAdvance(s, n) \/ ItIadd(s, n) \/ ItIsub(s, n)
         \/ \E s, t \in Slots : \/ ItCopy(s, t) \/ ItDistance(s, t) \/ ItEqual(s, t) \/ ItEq(s, t) \/ ItNe(s, t)
                                \/ \E n \in Indices : ItAdd(s, t, n)
         \/ ItIncrCall \/ ItDecrCall \/ ItSubCall
  PROVE  SequenceTyped'
<1>1. Indices \subseteq Int /\ Counts \subseteq Int /\ \A n \in Int : -n \in Int
  BY PySequenceAssumption DEF Counts
<1>2. \A s \in Slots : cursors[s] \in Iterators(Len(vec))
  BY DEF SequenceTyped
<1>3. ASSUME NEW s \in Slots, NEW n \in Int, Advance(s, n) \/ Advance(s, -n) PROVE SequenceTyped'
  BY <1>1, <1>3, AdvanceTyped
<1>4. ASSUME NEW s \in Slots, NEW t \in Slots, NEW n \in Int,
             MoveTo(t, cursors[s], n, cursors[t]) \/ MoveTo(t, cursors[s], -n, cursors[t])
      PROVE  SequenceTyped'
  BY <1>1, <1>2, <1>4, MoveTyped
<1>5. ASSUME NEW s \in Slots, NEW t \in Slots, NEW b, CompareIterators(s, t, b) PROVE SequenceTyped'
  BY <1>5, UnmovedTyped, RaiseTyped DEF CompareIterators
<1>6. CASE \E s \in Slots, n \in Indices : ItAdvance(s, n) \/ ItIadd(s, n) \/ ItIsub(s, n)
  BY <1>1, <1>3, <1>6 DEF ItAdvance, ItIadd, ItIsub
<1>7. ASSUME NEW s \in Slots, NEW t \in Slots,
             ItCopy(s, t) \/ ItDistance(s, t) \/ ItEqual(s, t) \/ ItEq(s, t) \/ ItNe(s, t)
      PROVE  SequenceTyped'
  BY <1>2, <1>5, <1>7, KeepTyped DEF ItCopy, ItDistance, ItEqual, ItEq, ItNe
<1>8. ASSUME NEW s \in Slots, NEW t \in Slots, NEW n \in Indices, ItAdd(s, t, n) PROVE SequenceTyped'
  BY <1>1, <1>4, <1>8 DEF ItAdd
<1>9. CASE ItIncrCall \/ ItDecrCall
  <2>1. 1 \in Int
    OBVIOUS
  <2> QED
    BY <1>1, <1>3, <1>9, <2>1, RaiseTyped DEF ItIncrCall, ItDecrCall, ItIncr, ItIncrOne, ItDecr, ItDecrOne, Unmatched
<1>10. CASE ItSubCall
  BY <1>1, <1>4, <1>5, <1>10, RaiseTyped DEF ItSubCall, ItDifference, ItSub
<1> QED
  BY <1>6, <1>7, <1>8, <1>9, <1>10

LEMMA SequenceStays ==
  ASSUME SequenceTyped, [SequenceNext]_sequenceVars
  PROVE  SequenceTyped'
<1>1. CASE UNCHANGED sequenceVars
  BY <1>1 DEF sequenceVars, SequenceTyped, Iterators
<1>2. CASE SequenceNext
  <2>1. CASE \/ \E i, j \in Indices : SeqGetSlice(i, j) \/ SeqDelSlice(i, j)
             \/ SeqSetSliceCall \/ SeqGetItemCall \/ SeqSetItemCall \/ SeqDelItemCall
    BY <2>1, SubscriptsTyped
  <2>2. CASE \/ SeqNewCall \/ SeqResizeCall
             \/ SeqFront \/ SeqBack \/ SeqClear
             \/ \E n \in Counts : SeqReserve(n) \/ \E x \in Elements : SeqAssign(n, x)
             \/ \E v \in Arguments : SeqSwap(v)
    BY <2>2, WholeSequenceTyped
  <2>3. CASE SeqEraseCall \/ SeqInsertCall
    BY <2>3, EraseInsertTyped
  <2>4. CASE \E x \in Elements : SeqAppend(x) \/ SeqPushBack(x)
    BY <2>4, AppendTyped
  <2>5. CASE SeqPop \/ SeqPopBack
    BY <2>5, PoppedTyped
  <2>6. CASE \E s \in Slots : \/ SeqIterator(s) \/ SeqBegin(s) \/ SeqEnd(s) \/ SeqRbegin(s) \/ SeqRend(s)
                              \/ ItValue(s) \/ ItNext(s) \/ ItPrevious(s)
    BY <2>6, IteratorsTyped
  <2>7. CASE \/ \E s \in Slots, n \in Indices : ItAdvance(s, n) \/ ItIadd(s, n) \/ ItIsub(s, n)
             \/ \E s, t \in Slots : \/ ItCopy(s, t) \/ ItDistance(s, t) \/ ItEqual(s, t) \/ ItEq(s, t) \/ ItNe(s, t)
                                    \/ \E n \in Indices : ItAdd(s, t, n)
             \/ ItIncrCall \/ ItDecrCall \/ ItSubCall
    BY <2>7, MovesTyped
  <2> QED
    BY <1>2, <2>1, <2>2, <2>3, <2>4, <2>5, <2>6, <2>7, Zenon DEF SequenceNext
<1> QED
  BY <1>1, <1>2

(* The vector of the binding holds elements and has room for them, and     *)
(* each iterator that the last changes left valid is inside, whatever is   *)
(* called and in which order.                                              *)
THEOREM SequencesTyped == SequenceSpec => []SequenceTyped
<1>1. SequenceInit => SequenceTyped
  <2> SUFFICES ASSUME SequenceInit PROVE SequenceTyped
    OBVIOUS
  <2>1. vec \in Seq(Elements) /\ Len(vec) = 0 /\ room = 0
    BY EmptySeq DEF SequenceInit
  <2>2. NoCursor \in Iterators(Len(vec))
    BY <2>1 DEF NoCursor, Iterators
  <2>3. cursors = [s \in Slots |-> NoCursor]
    BY DEF SequenceInit
  <2>4. cursors \in [Slots -> Iterators(Len(vec))]
    BY <2>2, <2>3
  <2> QED
    BY <2>1, <2>4 DEF SequenceTyped
<1> QED
  BY <1>1, SequenceStays, PTL DEF SequenceSpec

(* A sequence of the binding is read, written and cut by slices as a list  *)
(* is, and the distance of two iterators is where the one leads to the     *)
(* other: SequenceActsAsList, for any elements, lengths and numbers.       *)
THEOREM SequencesAreLists == SequenceSpec => []SequenceActsAsList
<1>1. ASSUME SequenceTyped PROVE SequenceActsAsList
  <2>1. vec \in Seq(Elements) /\ Len(vec) <= room /\ Indices \subseteq Int /\ Arguments \subseteq Seq(Elements)
    BY <1>1, PySequenceAssumption DEF SequenceTyped
  <2>2. ASSUME NEW i \in Indices, NEW j \in Indices
        PROVE  Agree(GetSlice(vec, i, j), (i \in -Len(vec) .. Len(vec) /\ j >= -Len(vec)) /\ i < Len(vec), ListSlice(vec, i, j))
    BY <2>1, SlicesAreRead
  <2>3. ASSUME NEW i \in Indices, NEW j \in Indices
        PROVE  Agree(DelSlice(vec, i, j), i \in -Len(vec) .. Len(vec) /\ j >= -Len(vec), ListWith(vec, i, j, << >>))
    BY <2>1, SlicesAreDeleted
  <2>4. ASSUME NEW i \in Indices, NEW j \in Indices, NEW v \in Arguments
        PROVE  Agree(SetSlice(vec, i, j, v), i \in -Len(vec) .. Len(vec) /\ j >= -Len(vec), ListWith(vec, i, j, v))
    BY <2>1, SlicesAreSet
  <2>5. ASSUME NEW s \in Slots, NEW t \in Slots
        PROVE  /\ Within(cursors[s])
               /\ SameSort(s, t) => Moved(cursors[s], Distance(cursors[s], cursors[t])).at = cursors[t].at
    <3>1. cursors[s] \in Iterators(Len(vec)) /\ cursors[t] \in Iterators(Len(vec))
      BY <1>1 DEF SequenceTyped
    <3>2. Within(cursors[s])
      BY <3>1 DEF Within, Iterators
    <3>3. cursors[s].at \in Int /\ cursors[t].at \in Int
      BY <3>1 DEF Iterators
    <3>4. ASSUME SameSort(s, t)
          PROVE  Moved(cursors[s], Distance(cursors[s], cursors[t])).at = cursors[t].at
      <4>1. ASSUME NEW d
            PROVE  Moved(cursors[s], d).at = IF cursors[s].kind = "backward" THEN cursors[s].at - d ELSE cursors[s].at + d
        BY <3>1 DEF Moved, Iterators
      <4> DEFINE d == Distance(cursors[s], cursors[t])
      <4>2. d = IF cursors[s].kind = "backward" THEN cursors[s].at - cursors[t].at ELSE cursors[t].at - cursors[s].at
        BY DEF Distance
      <4> HIDE DEF d
      <4>3. d \in Int
        BY <3>3, <4>2
      <4> QED
        BY <3>3, <4>1, <4>2 DEF d
    <3> QED
      BY <3>2, <3>4
  <2> QED
    BY <2>1, <2>2, <2>3, <2>4, <2>5 DEF SequenceActsAsList
<1> QED
  BY <1>1, SequencesTyped, PTL

-----------------------------------------------------------------------------
(* Objects and their proxies.                                              *)

ObjectRecords ==
  [kind : {"none", "bare", "iterator"} \cup Classes, keeps : Nat, deleted : Nat, lost : BOOLEAN, reowned : BOOLEAN]

ProxyRecords == [obj : Nat, own : BOOLEAN, held : BOOLEAN, stuck : BOOLEAN, next : Nat]

Live(pr) == {p \in Proxies : pr[p].obj # 0}
OwnersOf(pr, o) == {p \in Live(pr) : pr[p].obj = o /\ pr[p].own}

(* An object, of its owners: there is one, and it is not deleted while it  *)
(* has one, but for an iterator that += gave a second; without one it is   *)
(* deleted or lost; and what an iterator keeps owns its sequence.          *)
OwnedOnce(ob, pr, o) ==
  ~ob[o].reowned =>
    /\ ob[o].deleted <= 1
    /\ \A p \in OwnersOf(pr, o) : ob[o].deleted = 0 /\ \A q \in OwnersOf(pr, o) : p = q

Accounted(ob, pr, o) == ob[o].kind # "none" /\ ob[o].deleted = 0 => ob[o].lost \/ OwnersOf(pr, o) # {}

Kept(ob, pr, o) ==
  ob[o].kind = "iterator" /\ ob[o].deleted = 0 /\ ob[o].keeps # Nobody =>
    ob[o].keeps \in Live(pr) /\ ob[pr[ob[o].keeps].obj].kind = "sequence"

ObjectSound(ob, pr, o) ==
  OwnedOnce(ob, pr, o) /\ Accounted(ob, pr, o) /\ Kept(ob, pr, o) /\ (ob[o].reowned => ob[o].kind = "iterator")

(* A proxy points to an object that was made; to a sequence, as its owner. *)
ProxySound(ob, pr, p) ==
  /\ pr[p].obj \in 1..MaxObjects /\ ob[pr[p].obj].kind # "none"
  /\ ob[pr[p].obj].kind = "sequence" => pr[p].own

(* The objects are made one after the other.                               *)
MadeInTurn(ob) == \E m \in 0..MaxObjects : \A o \in 1..MaxObjects : ob[o].kind # "none" <=> o <= m

HeapSound(ob, pr) ==
  /\ ob \in [1..MaxObjects -> ObjectRecords] /\ pr \in [Proxies -> ProxyRecords]
  /\ MadeInTurn(ob)
  /\ \A p \in Live(pr) : ProxySound(ob, pr, p)
  /\ \A o \in 1..MaxObjects : ObjectSound(ob, pr, o)

(* Of the proxies only what they point to and whether they own it counts.  *)
LEMMA SameOwners ==
  ASSUME NEW ob, NEW pr, HeapSound(ob, pr), NEW qr \in [Proxies -> ProxyRecords],
         \A p \in Proxies : qr[p].obj = pr[p].obj /\ qr[p].own = pr[p].own
  PROVE  HeapSound(ob, qr)
<1>1. Live(qr) = Live(pr)
  BY DEF Live
<1>2. \A o \in 1..MaxObjects : OwnersOf(qr, o) = OwnersOf(pr, o)
  BY <1>1 DEF OwnersOf, Live
<1>3. \A p \in Live(qr) : ProxySound(ob, qr, p)
  BY <1>1 DEF HeapSound, ProxySound, Live
<1>4. ASSUME NEW o \in 1..MaxObjects PROVE ObjectSound(ob, qr, o)
  <2>1. ObjectSound(ob, pr, o)
    BY DEF HeapSound
  <2>2. OwnedOnce(ob, qr, o) /\ Accounted(ob, qr, o)
    BY <1>2, <2>1 DEF ObjectSound, OwnedOnce, Accounted
  <2>3. Kept(ob, qr, o)
    BY <1>1, <2>1 DEF ObjectSound, Kept, Live
  <2> QED
    BY <2>1, <2>2, <2>3 DEF ObjectSound
<1> QED
  BY <1>3, <1>4 DEF HeapSound

(* A history that an object was lost excuses more.                         *)
LEMMA MarkedLost ==
  ASSUME NEW ob, NEW pr, HeapSound(ob, pr), NEW o \in 1..MaxObjects
  PROVE  HeapSound([ob EXCEPT ![o].lost = TRUE], pr)
<1> DEFINE nb == [ob EXCEPT ![o].lost = TRUE]
<1>1. ob \in [1..MaxObjects -> ObjectRecords]
  BY DEF HeapSound
<1>2. nb \in [1..MaxObjects -> ObjectRecords]
  BY <1>1 DEF ObjectRecords
<1>3. ASSUME NEW x \in 1..MaxObjects
      PROVE  /\ nb[x].kind = ob[x].kind /\ nb[x].keeps = ob[x].keeps /\ nb[x].deleted = ob[x].deleted
             /\ nb[x].reowned = ob[x].reowned /\ (ob[x].lost => nb[x].lost)
  BY <1>1 DEF ObjectRecords
<1> HIDE DEF nb
<1>4. MadeInTurn(nb)
  BY <1>3 DEF HeapSound, MadeInTurn
<1>5. \A p \in Live(pr) : ProxySound(nb, pr, p)
  BY <1>3 DEF HeapSound, ProxySound
<1>6. ASSUME NEW x \in 1..MaxObjects PROVE ObjectSound(nb, pr, x)
  <2>1. ObjectSound(ob, pr, x)
    BY DEF HeapSound
  <2>2. OwnedOnce(nb, pr, x)
    BY <1>3, <2>1 DEF ObjectSound, OwnedOnce
  <2>3. Accounted(nb, pr, x)
    BY <1>3, <2>1 DEF ObjectSound, Accounted
  <2>4. Kept(nb, pr, x)
    <3>1. \A p \in Live(pr) : pr[p].obj \in 1..MaxObjects
      BY DEF HeapSound, ProxySound
    <3> QED
      BY <1>3, <2>1, <3>1 DEF ObjectSound, Kept
  <2> QED
    BY <1>3, <2>1, <2>2, <2>3, <2>4 DEF ObjectSound
<1> QED
  BY <1>2, <1>4, <1>5, <1>6 DEF HeapSound, nb

LEMMA NoProxyIsOne == NoProxy \in ProxyRecords /\ NoProxy.obj = 0
BY DEF NoProxy, ProxyRecords, Nobody

(* A proxy goes that owns nothing, or something lost, and is not kept.     *)
LEMMA Forgotten ==
  ASSUME NEW ob, NEW pr, HeapSound(ob, pr), NEW p \in Live(pr), pr[p].own => ob[pr[p].obj].lost,
         \A o \in 1..MaxObjects : ob[o].kind # "none" /\ ob[o].deleted = 0 => ob[o].keeps # p
  PROVE  HeapSound(ob, [pr EXCEPT ![p] = NoProxy])
<1> DEFINE qr == [pr EXCEPT ![p] = NoProxy]
<1>1. pr \in [Proxies -> ProxyRecords] /\ p \in Proxies
  BY DEF HeapSound, Live
<1>2. qr \in [Proxies -> ProxyRecords]
  BY <1>1, NoProxyIsOne
<1>3. \A q \in Proxies : qr[q] = IF q = p THEN NoProxy ELSE pr[q]
  BY <1>1
<1> HIDE DEF qr
<1>4. Live(qr) = Live(pr) \ {p}
  BY <1>3, NoProxyIsOne DEF Live
<1>5. \A o \in 1..MaxObjects : OwnersOf(qr, o) = OwnersOf(pr, o) \ {p}
  BY <1>3, <1>4 DEF OwnersOf, Live
<1>6. \A q \in Live(qr) : ProxySound(ob, qr, q)
  BY <1>3, <1>4 DEF HeapSound, ProxySound, Live
<1>7. ASSUME NEW o \in 1..MaxObjects PROVE ObjectSound(ob, qr, o)
  <2>1. ObjectSound(ob, pr, o)
    BY DEF HeapSound
  <2>2. OwnedOnce(ob, qr, o)
    BY <1>5, <2>1 DEF ObjectSound, OwnedOnce
  <2>3. Accounted(ob, qr, o)
    BY <1>5, <2>1 DEF ObjectSound, Accounted, OwnersOf
  <2>4. Kept(ob, qr, o)
    <3> SUFFICES ASSUME ob[o].kind = "iterator", ob[o].deleted = 0, ob[o].keeps # Nobody
                 PROVE  ob[o].keeps \in Live(qr) /\ ob[qr[ob[o].keeps].obj].kind = "sequence"
      BY DEF Kept
    <3>1. ob[o].keeps \in Live(pr) /\ ob[pr[ob[o].keeps].obj].kind = "sequence"
      BY <2>1 DEF ObjectSound, Kept
    <3>2. ob[o].keeps # p
      OBVIOUS
    <3>3. ob[o].keeps \in Proxies /\ qr[ob[o].keeps] = pr[ob[o].keeps]
      BY <1>3, <3>1, <3>2 DEF Live
    <3> QED
      BY <1>4, <3>1, <3>2, <3>3
  <2> QED
    BY <2>1, <2>2, <2>3, <2>4 DEF ObjectSound
<1> QED
  BY <1>2, <1>6, <1>7 DEF HeapSound, qr

(* An owner goes, and its object with it.                                  *)
LEMMA GoneTogether ==
  ASSUME NEW ob, NEW pr, HeapSound(ob, pr), NEW p \in Live(pr), pr[p].own,
         \A o \in 1..MaxObjects : ob[o].kind # "none" /\ ob[o].deleted = 0 => ob[o].keeps # p
  PROVE  HeapSound([ob EXCEPT ![pr[p].obj].deleted = @ + 1], [pr EXCEPT ![p] = NoProxy])
<1> DEFINE qr == [pr EXCEPT ![p] = NoProxy]
           d == pr[p].obj
           nb == [ob EXCEPT ![d].deleted = @ + 1]
<1>1. pr \in [Proxies -> ProxyRecords] /\ p \in Proxies /\ ob \in [1..MaxObjects -> ObjectRecords] /\ d \in 1..MaxObjects
  BY DEF HeapSound, Live, ProxySound
<1>2. qr \in [Proxies -> ProxyRecords]
  BY <1>1, NoProxyIsOne
<1>3. \A q \in Proxies : qr[q] = IF q = p THEN NoProxy ELSE pr[q]
  BY <1>1
<1> HIDE DEF qr, d
<1>4. nb \in [1..MaxObjects -> ObjectRecords]
  BY <1>1 DEF ObjectRecords
<1>5. ASSUME NEW x \in 1..MaxObjects
      PROVE  /\ nb[x].kind = ob[x].kind /\ nb[x].keeps = ob[x].keeps /\ nb[x].lost = ob[x].lost
             /\ nb[x].reowned = ob[x].reowned
             /\ nb[x].deleted = IF x = d THEN ob[x].deleted + 1 ELSE ob[x].deleted
             /\ ob[x].deleted \in Nat
  BY <1>1 DEF ObjectRecords
<1> HIDE DEF nb
<1>6. Live(qr) = Live(pr) \ {p}
  BY <1>3, NoProxyIsOne DEF Live
<1>7. \A o \in 1..MaxObjects : OwnersOf(qr, o) = OwnersOf(pr, o) \ {p}
  BY <1>3, <1>6 DEF OwnersOf, Live
<1>8. MadeInTurn(nb)
  BY <1>5 DEF HeapSound, MadeInTurn
<1>9. \A q \in Live(qr) : ProxySound(nb, qr, q)
  <2> SUFFICES ASSUME NEW q \in Live(qr) PROVE ProxySound(nb, qr, q)
    OBVIOUS
  <2>1. q \in Live(pr) /\ qr[q] = pr[q] /\ ProxySound(ob, pr, q)
    BY <1>3, <1>6 DEF HeapSound, Live
  <2> QED
    BY <1>5, <2>1 DEF ProxySound
<1>10. ASSUME NEW o \in 1..MaxObjects PROVE ObjectSound(nb, qr, o)
  <2>1. ObjectSound(ob, pr, o)
    BY DEF HeapSound
  <2>2. OwnedOnce(nb, qr, o)
    <3>1. CASE o = d
      <4> SUFFICES ASSUME ~ob[o].reowned PROVE nb[o].deleted <= 1 /\ OwnersOf(qr, o) = {}
        BY <1>5 DEF OwnedOnce
      <4>1. p \in OwnersOf(pr, o)
        BY <3>1 DEF OwnersOf, d
      <4>2. ob[o].deleted = 0 /\ \A q \in OwnersOf(pr, o) : p = q
        BY <2>1, <4>1 DEF ObjectSound, OwnedOnce
      <4> QED
        BY <1>5, <1>7, <3>1, <4>2
    <3>2. CASE o # d
      BY <1>5, <1>7, <2>1, <3>2 DEF ObjectSound, OwnedOnce
    <3> QED
      BY <3>1, <3>2
  <2>3. Accounted(nb, qr, o)
    <3>1. CASE o = d
      BY <1>5, <3>1 DEF Accounted
    <3>2. CASE o # d
      <4>1. p \notin OwnersOf(pr, o)
        BY <3>2 DEF OwnersOf, d
      <4> QED
        BY <1>5, <1>7, <2>1, <3>2, <4>1 DEF ObjectSound, Accounted
    <3> QED
      BY <3>1, <3>2
  <2>4. Kept(nb, qr, o)
    <3> SUFFICES ASSUME nb[o].kind = "iterator", nb[o].deleted = 0, nb[o].keeps # Nobody
                 PROVE  nb[o].keeps \in Live(qr) /\ nb[qr[nb[o].keeps].obj].kind = "sequence"
      BY DEF Kept
    <3>0. ob[o].kind = "iterator" /\ ob[o].deleted = 0 /\ ob[o].keeps # Nobody
      BY <1>5
    <3>1. ob[o].keeps \in Live(pr) /\ ob[pr[ob[o].keeps].obj].kind = "sequence"
      BY <2>1, <3>0 DEF ObjectSound, Kept
    <3>2. ob[o].keeps # p
      BY <3>0
    <3>3. ob[o].keeps \in Proxies /\ qr[ob[o].keeps] = pr[ob[o].keeps] /\ pr[ob[o].keeps].obj \in 1..MaxObjects
      BY <1>3, <3>1, <3>2 DEF Live, HeapSound, ProxySound
    <3> QED
      BY <1>5, <1>6, <3>1, <3>2, <3>3
  <2> QED
    BY <1>5, <2>1, <2>2, <2>3, <2>4 DEF ObjectSound
<1> QED
  BY <1>2, <1>4, <1>8, <1>9, <1>10 DEF HeapSound, qr, nb, d

(* The place of the object that is made next.                              *)
NewPlace(ob, n) == n \in 1..MaxObjects /\ \A o \in 1..MaxObjects : ob[o].kind # "none" <=> o < n

LEMMA NextPlace ==
  ASSUME NEW ob, NEW n, MadeInTurn(ob), n \in 1..MaxObjects,
         n = Cardinality({o \in 1..MaxObjects : ob[o].kind # "none"}) + 1
  PROVE  NewPlace(ob, n)
<1>1. PICK m \in 0..MaxObjects : \A o \in 1..MaxObjects : ob[o].kind # "none" <=> o <= m
  BY DEF MadeInTurn
<1>2. MaxObjects \in Nat
  BY PyObjectsAssumption
<1>3. {o \in 1..MaxObjects : ob[o].kind # "none"} = 1..m
  BY <1>1, <1>2
<1>4. Cardinality(1..m) = m
  BY FS_Interval
<1>5. n = m + 1
  BY <1>3, <1>4
<1>6. m \in Int
  BY <1>2
<1>7. \A o \in 1..MaxObjects : o <= m <=> o < n
  BY <1>2, <1>5, <1>6
<1>8. \A o \in 1..MaxObjects : ob[o].kind # "none" <=> o < n
  BY <1>1, <1>7
<1> QED
  BY <1>8 DEF NewPlace

(* What an iterator may be given to keep.                                  *)
MayKeep(ob, pr, k) == k = Nobody \/ (k \in Live(pr) /\ ob[pr[k].obj].kind = "sequence")

NewKinds == Classes \cup {"iterator", "bare"}

LEMMA NewRecord ==
  ASSUME NEW kind \in NewKinds, NEW k \in Nat, NEW lost \in BOOLEAN
  PROVE  [NoObject EXCEPT !.kind = kind, !.keeps = k, !.lost = lost] \in ObjectRecords
BY DEF NoObject, ObjectRecords, NewKinds, Nobody

(* An object is made, and lost or owned by a new proxy.                    *)
LEMMA MadeSound ==
  ASSUME NEW ob, NEW pr, HeapSound(ob, pr), NEW n, NewPlace(ob, n),
         NEW x \in ObjectRecords, x.kind \in NewKinds, x.deleted = 0, ~x.reowned, MayKeep(ob, pr, x.keeps),
         NEW qr \in [Proxies -> ProxyRecords], NEW f, f \notin Live(pr),
         \A p \in Proxies \ {f} : qr[p].obj = pr[p].obj /\ qr[p].own = pr[p].own,
         \/ x.lost /\ f \notin Live(qr)
         \/ f \in Proxies /\ qr[f].obj = n /\ qr[f].own
  PROVE  HeapSound([ob EXCEPT ![n] = x], qr)
<1> DEFINE nb == [ob EXCEPT ![n] = x]
<1>1. ob \in [1..MaxObjects -> ObjectRecords] /\ n \in 1..MaxObjects /\ MaxObjects \in Nat /\ n # 0
  BY PyObjectsAssumption DEF HeapSound, NewPlace
<1>2. nb \in [1..MaxObjects -> ObjectRecords] /\ \A o \in 1..MaxObjects : nb[o] = IF o = n THEN x ELSE ob[o]
  BY <1>1
<1> HIDE DEF nb
<1>3. MadeInTurn(nb)
  <2>1. \A o \in 1..MaxObjects : nb[o].kind # "none" <=> o <= n
    BY <1>1, <1>2 DEF NewPlace, NewKinds, Classes
  <2>2. n \in 0..MaxObjects
    BY <1>1
  <2> QED
    BY <2>1, <2>2, Zenon DEF MadeInTurn
<1>4. \A p \in Live(pr) : p \in Live(qr) /\ p # f /\ qr[p].obj = pr[p].obj /\ qr[p].own = pr[p].own
  BY DEF Live
<1>5. \A p \in Live(qr) : p \in Live(pr) \/ (p = f /\ f \in Proxies /\ qr[f].obj = n /\ qr[f].own)
  BY DEF Live
<1>6. \A p \in Live(pr) : ProxySound(ob, pr, p) /\ pr[p].obj # n
  BY <1>1 DEF HeapSound, ProxySound, NewPlace
<1>7. \A p \in Live(qr) : ProxySound(nb, qr, p)
  <2> SUFFICES ASSUME NEW p \in Live(qr) PROVE ProxySound(nb, qr, p)
    OBVIOUS
  <2>1. CASE p \in Live(pr)
    BY <1>2, <1>4, <1>6, <2>1 DEF ProxySound
  <2>2. CASE p = f /\ qr[f].obj = n /\ qr[f].own
    BY <1>1, <1>2, <2>2 DEF ProxySound, NewKinds, Classes
  <2> QED
    BY <1>5, <2>1, <2>2
<1>8. ASSUME NEW o \in 1..MaxObjects, o # n PROVE ObjectSound(nb, qr, o)
  <2>1. ObjectSound(ob, pr, o) /\ nb[o] = ob[o]
    BY <1>2, <1>8 DEF HeapSound
  <2>2. OwnersOf(qr, o) = OwnersOf(pr, o)
    BY <1>4, <1>5, <1>8 DEF OwnersOf
  <2>3. OwnedOnce(nb, qr, o) /\ Accounted(nb, qr, o)
    BY <2>1, <2>2 DEF ObjectSound, OwnedOnce, Accounted
  <2>4. Kept(nb, qr, o)
    <3> SUFFICES ASSUME ob[o].kind = "iterator", ob[o].deleted = 0, ob[o].keeps # Nobody
                 PROVE  ob[o].keeps \in Live(qr) /\ nb[qr[ob[o].keeps].obj].kind = "sequence"
      BY <2>1 DEF Kept
    <3>1. ob[o].keeps \in Live(pr) /\ ob[pr[ob[o].keeps].obj].kind = "sequence"
      BY <2>1 DEF ObjectSound, Kept
    <3> QED
      BY <1>2, <1>4, <1>6, <3>1 DEF ProxySound
  <2> QED
    BY <2>1, <2>3, <2>4 DEF ObjectSound
<1>9. ObjectSound(nb, qr, n)
  <2>1. nb[n] = x
    BY <1>1, <1>2
  <2>2. OwnersOf(qr, n) \subseteq {f} /\ (f \in Proxies /\ qr[f].obj = n /\ qr[f].own => f \in OwnersOf(qr, n))
    <3>1. ASSUME NEW p \in OwnersOf(qr, n) PROVE p = f
      BY <1>4, <1>5, <1>6, <3>1 DEF OwnersOf
    <3>2. ASSUME f \in Proxies, qr[f].obj = n, qr[f].own PROVE f \in OwnersOf(qr, n)
      BY <1>1, <3>2 DEF OwnersOf, Live
    <3> QED
      BY <3>1, <3>2
  <2>3. OwnedOnce(nb, qr, n)
    BY <2>1, <2>2 DEF OwnedOnce
  <2>4. Accounted(nb, qr, n)
    BY <2>1, <2>2 DEF Accounted
  <2>5. Kept(nb, qr, n)
    <3> SUFFICES ASSUME x.keeps # Nobody
                 PROVE  x.keeps \in Live(qr) /\ nb[qr[x.keeps].obj].kind = "sequence"
      BY <2>1 DEF Kept
    <3>1. x.keeps \in Live(pr) /\ ob[pr[x.keeps].obj].kind = "sequence"
      BY DEF MayKeep
    <3> QED
      BY <1>2, <1>4, <1>6, <3>1 DEF ProxySound
  <2> QED
    BY <2>1, <2>3, <2>4, <2>5 DEF ObjectSound
<1> QED
  BY <1>2, <1>3, <1>7, <1>8, <1>9 DEF HeapSound, nb

(* Another proxy that does not own, or one that owns no longer.            *)
LEMMA WithoutOwning ==
  ASSUME NEW ob, NEW pr, HeapSound(ob, pr), NEW qr \in [Proxies -> ProxyRecords], NEW f \in Proxies,
         \A p \in Proxies \ {f} : qr[p].obj = pr[p].obj /\ qr[p].own = pr[p].own,
         pr[f].obj \in {0, qr[f].obj}, ~qr[f].own,
         qr[f].obj \in 1..MaxObjects, ob[qr[f].obj].kind \notin {"none", "sequence"},
         f \in Live(pr) => ob[qr[f].obj].lost
  PROVE  HeapSound(ob, qr)
<1>0. MaxObjects \in Nat /\ qr[f].obj # 0
  BY PyObjectsAssumption
<1>1. Live(qr) = Live(pr) \cup {f}
  BY <1>0 DEF Live
<1>2. \A p \in Live(qr) : ProxySound(ob, qr, p)
  <2> SUFFICES ASSUME NEW p \in Live(qr) PROVE ProxySound(ob, qr, p)
    OBVIOUS
  <2>1. CASE p = f
    BY <2>1 DEF ProxySound
  <2>2. CASE p # f
    BY <1>1, <2>2 DEF HeapSound, ProxySound, Live
  <2> QED
    BY <2>1, <2>2
<1>3. ASSUME NEW o \in 1..MaxObjects PROVE ObjectSound(ob, qr, o)
  <2>1. ObjectSound(ob, pr, o)
    BY DEF HeapSound
  <2>2. OwnersOf(qr, o) = OwnersOf(pr, o) \ {f}
    <3>1. ASSUME NEW p PROVE p \in OwnersOf(qr, o) <=> p \in OwnersOf(pr, o) \ {f}
      BY <1>1 DEF OwnersOf, Live
    <3> QED
      BY <3>1
  <2>3. OwnedOnce(ob, qr, o)
    BY <2>1, <2>2 DEF ObjectSound, OwnedOnce
  <2>4. Accounted(ob, qr, o)
    <3>1. CASE f \in OwnersOf(pr, o)
      BY <3>1 DEF Accounted, OwnersOf, Live
    <3>2. CASE f \notin OwnersOf(pr, o)
      BY <2>1, <2>2, <3>2 DEF ObjectSound, Accounted
    <3> QED
      BY <3>1, <3>2
  <2>5. Kept(ob, qr, o)
    <3> SUFFICES ASSUME ob[o].kind = "iterator", ob[o].deleted = 0, ob[o].keeps # Nobody
                 PROVE  ob[o].keeps \in Live(qr) /\ ob[qr[ob[o].keeps].obj].kind = "sequence"
      BY DEF Kept
    <3>1. ob[o].keeps \in Live(pr) /\ ob[pr[ob[o].keeps].obj].kind = "sequence"
      BY <2>1 DEF ObjectSound, Kept
    <3>2. pr[ob[o].keeps].obj = qr[ob[o].keeps].obj
      BY <3>1 DEF Live
    <3> QED
      BY <1>1, <3>1, <3>2
  <2> QED
    BY <2>1, <2>3, <2>4, <2>5 DEF ObjectSound
<1> QED
  BY <1>2, <1>3 DEF HeapSound

ReownSet(x, n, b) == [x EXCEPT ![n].reowned = @ \/ b]

(* += : a proxy gives an iterator up, and another owns it.                 *)

HandsOver(ob, pr, qr, p, f, beside) ==
  /\ qr \in [Proxies -> ProxyRecords] /\ f \in Proxies /\ p \in Live(pr) /\ f \notin Live(pr)
  /\ \A q \in Proxies \ {p, f} : qr[q].obj = pr[q].obj /\ qr[q].own = pr[q].own
  /\ qr[p].obj = pr[p].obj /\ ~qr[p].own /\ qr[f].obj = pr[p].obj /\ qr[f].own
  /\ ob[pr[p].obj].kind = "iterator" /\ ob[pr[p].obj].deleted = 0
  /\ beside \in BOOLEAN /\ (beside <=> \E q \in Live(pr) \ {p} : pr[q].obj = pr[p].obj /\ pr[q].own)

LEMMA HandedOver ==
  ASSUME NEW ob, NEW pr, NEW qr, NEW f, NEW p, NEW beside, HeapSound(ob, pr), HandsOver(ob, pr, qr, p, f, beside)
  PROVE  HeapSound(ReownSet(ob, pr[p].obj, beside), qr)
<1> DEFINE d == pr[p].obj
           nb == ReownSet(ob, d, beside)
<1>0. /\ qr \in [Proxies -> ProxyRecords] /\ f \in Proxies /\ p \in Live(pr) /\ f \notin Live(pr)
      /\ \A q \in Proxies \ {p, f} : qr[q].obj = pr[q].obj /\ qr[q].own = pr[q].own
      /\ qr[p].obj = pr[p].obj /\ ~qr[p].own /\ qr[f].obj = pr[p].obj /\ qr[f].own
      /\ ob[pr[p].obj].kind = "iterator" /\ ob[pr[p].obj].deleted = 0
      /\ beside \in BOOLEAN /\ (beside <=> \E q \in Live(pr) \ {p} : pr[q].obj = pr[p].obj /\ pr[q].own)
  BY DEF HandsOver
<1> USE <1>0
<1>1. /\ pr \in [Proxies -> ProxyRecords] /\ p \in Proxies /\ ob \in [1..MaxObjects -> ObjectRecords]
      /\ d \in 1..MaxObjects /\ d # 0
  BY PyObjectsAssumption DEF HeapSound, Live, ProxySound
<1> HIDE DEF d
<1>2. nb \in [1..MaxObjects -> ObjectRecords]
  BY <1>1 DEF ObjectRecords, ReownSet
<1>3. ASSUME NEW x \in 1..MaxObjects
      PROVE  /\ nb[x].kind = ob[x].kind /\ nb[x].keeps = ob[x].keeps /\ nb[x].lost = ob[x].lost
             /\ nb[x].deleted = ob[x].deleted
             /\ nb[x].reowned = IF x = d THEN ob[x].reowned \/ beside ELSE ob[x].reowned
  BY <1>1 DEF ObjectRecords, ReownSet
<1> HIDE DEF nb
<1>4. Live(qr) = Live(pr) \cup {f} /\ p # f
  BY <1>1 DEF Live, d
<1>5. MadeInTurn(nb)
  <2>1. PICK m \in 0..MaxObjects : \A o \in 1..MaxObjects : ob[o].kind # "none" <=> o <= m
    BY Zenon DEF HeapSound, MadeInTurn
  <2>2. \A o \in 1..MaxObjects : nb[o].kind # "none" <=> o <= m
    BY <1>3, <2>1
  <2> QED
    BY <2>2, Zenon DEF MadeInTurn
<1>6. \A q \in Live(pr) : qr[q].obj = pr[q].obj /\ q # f /\ pr[q].obj \in 1..MaxObjects /\ ProxySound(ob, pr, q)
  BY DEF Live, HeapSound, ProxySound
<1>7. \A q \in Live(qr) : ProxySound(nb, qr, q)
  <2> SUFFICES ASSUME NEW q \in Live(qr) PROVE ProxySound(nb, qr, q)
    OBVIOUS
  <2>1. CASE q = f \/ q = p
    BY <1>1, <1>3, <2>1 DEF ProxySound, d
  <2>2. CASE q # f /\ q # p
    <3>1. q \in Live(pr) /\ q \in Proxies /\ qr[q].obj = pr[q].obj /\ qr[q].own = pr[q].own
      BY <1>4, <2>2 DEF Live
    <3> QED
      BY <1>3, <1>6, <3>1 DEF ProxySound
  <2> QED
    BY <2>1, <2>2
<1>8. ASSUME NEW o \in 1..MaxObjects, o # d PROVE OwnersOf(qr, o) = OwnersOf(pr, o)
  <2>1. ASSUME NEW q PROVE q \in OwnersOf(qr, o) <=> q \in OwnersOf(pr, o)
    BY <1>4, <1>8 DEF OwnersOf, Live, d
  <2> QED
    BY <2>1
<1>9. f \in OwnersOf(qr, d) /\ (~beside => OwnersOf(qr, d) = {f})
  <2>1. f \in OwnersOf(qr, d)
    BY <1>4 DEF OwnersOf, d
  <2>2. ASSUME ~beside, NEW q \in OwnersOf(qr, d), q # f PROVE FALSE
    <3>1. q \in Live(pr) /\ q # p /\ q \in Proxies /\ qr[q].own /\ qr[q].obj = d
      BY <1>4, <2>2 DEF OwnersOf, Live
    <3>2. pr[q].own /\ pr[q].obj = d
      BY <2>2, <3>1
    <3> QED
      BY <2>2, <3>1, <3>2 DEF d
  <2> QED
    BY <2>1, <2>2
<1>10. ASSUME NEW o \in 1..MaxObjects PROVE ObjectSound(nb, qr, o)
  <2>1. ObjectSound(ob, pr, o)
    BY DEF HeapSound
  <2>2. OwnedOnce(nb, qr, o) /\ Accounted(nb, qr, o)
    <3>1. CASE o = d
      <4>1. nb[o].deleted = 0
        BY <1>3, <3>1 DEF d
      <4>2. ~nb[o].reowned => OwnersOf(qr, o) = {f}
        BY <1>3, <1>9, <3>1
      <4> QED
        BY <1>9, <3>1, <4>1, <4>2 DEF OwnedOnce, Accounted
    <3>2. CASE o # d
      BY <1>3, <1>8, <2>1, <3>2 DEF ObjectSound, OwnedOnce, Accounted
    <3> QED
      BY <3>1, <3>2
  <2>3. Kept(nb, qr, o)
    <3> SUFFICES ASSUME ob[o].kind = "iterator", ob[o].deleted = 0, ob[o].keeps # Nobody
                 PROVE  ob[o].keeps \in Live(qr) /\ nb[qr[ob[o].keeps].obj].kind = "sequence"
      BY <1>3 DEF Kept
    <3>1. ob[o].keeps \in Live(pr) /\ ob[pr[ob[o].keeps].obj].kind = "sequence"
      BY <2>1 DEF ObjectSound, Kept
    <3> QED
      BY <1>3, <1>4, <1>6, <3>1
  <2>4. nb[o].reowned => nb[o].kind = "iterator"
    BY <1>3, <2>1 DEF ObjectSound, d
  <2> QED
    BY <2>2, <2>3, <2>4 DEF ObjectSound
<1> QED
  BY <1>2, <1>5, <1>7, <1>10 DEF HeapSound, nb, d

Heaps == [objects : [1..MaxObjects -> ObjectRecords], proxies : [Proxies -> ProxyRecords]]
SoundHeaps == {h \in Heaps : HeapSound(h.objects, h.proxies)}

LEMMA OfSoundParts ==
  ASSUME NEW ob, NEW pr, HeapSound(ob, pr)
  PROVE  [objects |-> ob, proxies |-> pr] \in SoundHeaps
BY DEF SoundHeaps, Heaps, HeapSound

LEMMA SoundParts ==
  ASSUME NEW h \in SoundHeaps
  PROVE  /\ HeapSound(h.objects, h.proxies) /\ h = [objects |-> h.objects, proxies |-> h.proxies]
         /\ DOMAIN h.objects = 1..MaxObjects
         /\ Alive(h) = Live(h.proxies)
BY DEF SoundHeaps, Heaps, Alive, Live

LEMMA DeallocatedSound ==
  ASSUME NEW h \in SoundHeaps, NEW p \in Unreferenced(h)
  PROVE  Deallocated(h, p) \in SoundHeaps
<1> DEFINE ob == h.objects
           pr == h.proxies
           d == pr[p].obj
           qr == [pr EXCEPT ![p] = NoProxy]
<1>1. HeapSound(ob, pr) /\ h = [objects |-> ob, proxies |-> pr] /\ DOMAIN ob = 1..MaxObjects /\ p \in Live(pr)
  BY SoundParts DEF Unreferenced
<1>2. \A o \in 1..MaxObjects : ob[o].kind # "none" /\ ob[o].deleted = 0 => ob[o].keeps # p
  BY <1>1 DEF Unreferenced, Existing, Exists
<1>3. d \in 1..MaxObjects
  BY <1>1 DEF HeapSound, ProxySound
<1>4. [h EXCEPT !.proxies[p] = NoProxy] = [objects |-> ob, proxies |-> qr]
  BY <1>1
<1>5. CASE ~pr[p].own
  <2>1. HeapSound(ob, qr)
    BY <1>1, <1>2, <1>5, Forgotten
  <2>2. Deallocated(h, p) = [objects |-> ob, proxies |-> qr]
    BY <1>4, <1>5 DEF Deallocated
  <2> QED
    BY <2>1, <2>2, OfSoundParts
<1>6. CASE pr[p].own /\ Destroyed(ob[d].kind)
  <2> DEFINE nb == [ob EXCEPT ![d].deleted = @ + 1]
  <2>1. HeapSound(nb, qr)
    BY <1>1, <1>2, <1>6, GoneTogether
  <2>2. Deallocated(h, p) = [[h EXCEPT !.proxies[p] = NoProxy] EXCEPT !.objects[d].deleted = @ + 1]
    BY <1>6 DEF Deallocated
  <2>3. [[objects |-> ob, proxies |-> qr] EXCEPT !.objects[d].deleted = @ + 1] = [objects |-> nb, proxies |-> qr]
    BY SMTT(30)
  <2>4. Deallocated(h, p) = [objects |-> nb, proxies |-> qr]
    BY <1>4, <2>2, <2>3
  <2> HIDE DEF nb, qr
  <2> QED
    BY <2>1, <2>4, OfSoundParts
<1>7. CASE pr[p].own /\ ~Destroyed(ob[d].kind)
  <2> DEFINE nb == [ob EXCEPT ![d].lost = TRUE]
  <2>1. HeapSound(nb, pr)
    BY <1>1, <1>3, MarkedLost
  <2>2. /\ nb[d].lost
        /\ \A o \in 1..MaxObjects : nb[o].kind = ob[o].kind /\ nb[o].deleted = ob[o].deleted /\ nb[o].keeps = ob[o].keeps
    BY <1>1, <1>3 DEF HeapSound, ObjectRecords
  <2>3. \A o \in 1..MaxObjects : nb[o].kind # "none" /\ nb[o].deleted = 0 => nb[o].keeps # p
    BY <1>2, <2>2
  <2>4. Deallocated(h, p) = [[h EXCEPT !.proxies[p] = NoProxy] EXCEPT !.objects[d].lost = TRUE]
    BY <1>7 DEF Deallocated
  <2>5. [[objects |-> ob, proxies |-> qr] EXCEPT !.objects[d].lost = TRUE] = [objects |-> nb, proxies |-> qr]
    OBVIOUS
  <2>6. Deallocated(h, p) = [objects |-> nb, proxies |-> qr]
    BY <1>4, <2>4, <2>5
  <2> HIDE DEF nb
  <2>7. HeapSound(nb, qr)
    BY <1>1, <2>1, <2>2, <2>3, Forgotten
  <2> HIDE DEF qr
  <2> QED
    BY <2>6, <2>7, OfSoundParts
<1> QED
  BY <1>5, <1>6, <1>7

LEMMA LeastOf ==
  ASSUME NEW S \in SUBSET Nat, S # {}
  PROVE  Min(S) \in S
BY LeastNumber DEF Min

LEMMA OneDeallocated ==
  ASSUME NEW h \in SoundHeaps
  PROVE  DeallocateOne(h) \in SoundHeaps
<1>1. CASE Unreferenced(h) = {}
  BY <1>1 DEF DeallocateOne
<1>2. CASE Unreferenced(h) # {}
  <2>1. Unreferenced(h) \in SUBSET Nat
    BY PyObjectsAssumption DEF Unreferenced, Alive, Proxies
  <2>2. Min(Unreferenced(h)) \in Unreferenced(h)
    BY <1>2, <2>1, LeastOf
  <2> QED
    BY <1>2, <2>2, DeallocatedSound DEF DeallocateOne
<1> QED
  BY <1>1, <1>2

(* Any number of proxies deallocated one after the other.                  *)
After(f, h) == f = [n \in 0..MaxProxies |-> IF n = 0 THEN h ELSE DeallocateOne(f[n - 1])]

LEMMA AfterExists ==
  ASSUME NEW h \in SoundHeaps
  PROVE  \E f : After(f, h)
<1> DEFINE step == [z \in SoundHeaps \X (1..MaxProxies) |-> DeallocateOne(z[1])]
<1>1. MaxProxies \in Nat
  BY PyObjectsAssumption
<1>2. step \in [SoundHeaps \X (1..MaxProxies) -> SoundHeaps]
  BY OneDeallocated
<1>3. \A x \in SoundHeaps, i \in 1..MaxProxies : step[x, i] = DeallocateOne(x)
  OBVIOUS
<1> HIDE DEF step
<1>4. PICK it \in [SUBSET (1..MaxProxies) -> SoundHeaps] : Solves(it, MaxProxies, h, step)
  BY <1>1, <1>2, FoldExists
<1> DEFINE f == [n \in 0..MaxProxies |-> it[1..n]]
<1>5. \A n \in 0..MaxProxies : f[n] = it[1..n]
  OBVIOUS
<1>6. f = [n \in 0..MaxProxies |-> f[n]]
  OBVIOUS
<1> HIDE DEF f
<1>7. ASSUME NEW n \in 0..MaxProxies PROVE f[n] = IF n = 0 THEN h ELSE DeallocateOne(f[n - 1])
  <2>1. CASE n = 0
    <3>1. 1..n = {} /\ 1..n \in SUBSET (1..MaxProxies)
      BY <2>1
    <3> QED
      BY <1>4, <1>5, <2>1, <3>1 DEF Solves
  <2>2. CASE n # 0
    <3>1. n - 1 \in Nat /\ n - 1 \in 0..MaxProxies /\ n \in 1..MaxProxies /\ (n - 1) + 1 = n
      BY <1>1, <2>2
    <3>2. 1..n \in SUBSET (1..MaxProxies) /\ 1..(n - 1) \in SUBSET (1..MaxProxies)
      BY <1>1, <3>1
    <3>3. Max(1..n) = n /\ 1..n # {} /\ (1..n) \ {n} = 1..(n - 1)
      BY <3>1, LastPlace
    <3>4. it[1..n] = step[it[1..(n - 1)], n]
      BY <1>4, <3>2, <3>3 DEF Solves
    <3>5. it[1..(n - 1)] \in SoundHeaps
      BY <1>4, <3>2
    <3> QED
      BY <1>3, <1>5, <2>2, <3>1, <3>4, <3>5
  <2> QED
    BY <2>1, <2>2
<1>8. After(f, h)
  BY <1>6, <1>7 DEF After
<1> QED
  BY <1>8

LEMMA CollectedSound ==
  ASSUME NEW h \in SoundHeaps
  PROVE  Collected(h) \in SoundHeaps
<1> DEFINE after == CHOOSE f : After(f, h)
<1>1. After(after, h)
  BY AfterExists
<1>2. Collected(h) = after[MaxProxies]
  BY Zenon DEF Collected, After
<1> HIDE DEF after
<1>3. MaxProxies \in Nat
  BY PyObjectsAssumption
<1> DEFINE S == {n \in 0..MaxProxies : after[n] \in SoundHeaps}
<1>4. 0 \in S
  BY <1>1, <1>3 DEF After
<1>5. ASSUME NEW n \in 0..(MaxProxies - 1), n \in S PROVE n + 1 \in S
  <2>1. n + 1 \in 0..MaxProxies /\ n + 1 # 0 /\ (n + 1) - 1 = n
    BY <1>3
  <2>2. after[n + 1] = DeallocateOne(after[n])
    BY <1>1, <2>1 DEF After
  <2> QED
    BY <1>5, <2>1, <2>2, OneDeallocated
<1> HIDE DEF S
<1>6. 0..MaxProxies \subseteq S
  BY <1>3, <1>4, <1>5, IntervalInduction
<1> QED
  BY <1>2, <1>3, <1>6 DEF S

(* The proxies with another one.                                           *)
FreeOf(pr) == Min(Proxies \ Live(pr))
NewProxy(o, own) == [obj |-> o, own |-> own, held |-> TRUE, stuck |-> FALSE, next |-> Nobody]
WithAnother(pr, o, own) == [pr EXCEPT ![FreeOf(pr)] = NewProxy(o, own)]

LEMMA PointingParts ==
  ASSUME NEW ob, NEW pr, NEW o, NEW own \in BOOLEAN
  PROVE  Pointing([objects |-> ob, proxies |-> pr], o, own) = [objects |-> ob, proxies |-> WithAnother(pr, o, own)]
<1> DEFINE h == [objects |-> ob, proxies |-> pr]
<1>1. FreeProxy(h) = FreeOf(pr)
  BY DEF FreeProxy, FreeOf, Alive, Live
<1>2. Pointing(h, o, own) = [h EXCEPT !.proxies[FreeOf(pr)] = NewProxy(o, own)]
  BY <1>1 DEF Pointing, NewProxy
<1> QED
  BY <1>2 DEF WithAnother

(* What a director keeps is no matter of the invariant.                    *)
LEMMA KeepsAnother ==
  ASSUME NEW ob, NEW pr, HeapSound(ob, pr), NEW o \in 1..MaxObjects, ob[o].kind # "iterator", NEW k \in Nat
  PROVE  HeapSound([ob EXCEPT ![o].keeps = k], pr)
<1> DEFINE nb == [ob EXCEPT ![o].keeps = k]
<1>1. ob \in [1..MaxObjects -> ObjectRecords]
  BY DEF HeapSound
<1>2. nb \in [1..MaxObjects -> ObjectRecords]
  BY <1>1 DEF ObjectRecords
<1>3. ASSUME NEW x \in 1..MaxObjects
      PROVE  /\ nb[x].kind = ob[x].kind /\ nb[x].lost = ob[x].lost /\ nb[x].deleted = ob[x].deleted
             /\ nb[x].reowned = ob[x].reowned /\ (ob[x].kind = "iterator" => nb[x].keeps = ob[x].keeps)
  BY <1>1 DEF ObjectRecords
<1> HIDE DEF nb
<1>4. MadeInTurn(nb)
  BY <1>3 DEF HeapSound, MadeInTurn
<1>5. \A p \in Live(pr) : ProxySound(nb, pr, p)
  BY <1>3 DEF HeapSound, ProxySound
<1>6. ASSUME NEW x \in 1..MaxObjects PROVE ObjectSound(nb, pr, x)
  <2>1. ObjectSound(ob, pr, x)
    BY DEF HeapSound
  <2>2. OwnedOnce(nb, pr, x)
    BY <1>3, <2>1 DEF ObjectSound, OwnedOnce
  <2>3. Accounted(nb, pr, x)
    BY <1>3, <2>1 DEF ObjectSound, Accounted
  <2>4. Kept(nb, pr, x)
    <3>1. \A p \in Live(pr) : pr[p].obj \in 1..MaxObjects
      BY DEF HeapSound, ProxySound
    <3> QED
      BY <1>3, <2>1, <3>1 DEF ObjectSound, Kept
  <2> QED
    BY <1>3, <2>1, <2>2, <2>3, <2>4 DEF ObjectSound
<1> QED
  BY <1>2, <1>4, <1>5, <1>6 DEF HeapSound, nb

(* There is a free proxy, and a place for another object.                  *)
Room(pr) == pr \in [Proxies -> ProxyRecords] /\ Live(pr) # Proxies

Another(pr, qr, o, own) ==
  /\ FreeOf(pr) \in Proxies /\ FreeOf(pr) \notin Live(pr) /\ qr \in [Proxies -> ProxyRecords]
  /\ qr[FreeOf(pr)].obj = o /\ qr[FreeOf(pr)].own = own
  /\ \A p \in Proxies \ {FreeOf(pr)} : qr[p] = pr[p]

LEMMA FreeOne ==
  ASSUME NEW pr, Room(pr), NEW o \in Nat, NEW own \in BOOLEAN
  PROVE  Another(pr, WithAnother(pr, o, own), o, own)
<1>0. pr \in [Proxies -> ProxyRecords] /\ Live(pr) # Proxies
  BY DEF Room
<1>1. Proxies \ Live(pr) \in SUBSET Nat /\ Proxies \ Live(pr) # {}
  BY <1>0, PyObjectsAssumption DEF Proxies, Live
<1>2. FreeOf(pr) \in Proxies \ Live(pr)
  BY <1>1, LeastOf DEF FreeOf
<1>3. NewProxy(o, own) \in ProxyRecords /\ NewProxy(o, own).obj = o /\ NewProxy(o, own).own = own
  BY DEF NewProxy, ProxyRecords, Nobody
<1> QED
  BY <1>0, <1>2, <1>3 DEF WithAnother, Another

LEMMA PlaceOfNew ==
  ASSUME NEW h \in SoundHeaps, NewObject(h) <= MaxObjects
  PROVE  NewPlace(h.objects, NewObject(h))
<1> DEFINE U == {o \in 1..MaxObjects : h.objects[o].kind # "none"}
           n == NewObject(h)
<1>1. DOMAIN h.objects = 1..MaxObjects /\ MadeInTurn(h.objects) /\ MaxObjects \in Nat
  BY SoundParts, PyObjectsAssumption DEF HeapSound
<1>2. n = Cardinality(U) + 1
  BY <1>1 DEF NewObject
<1>3. Cardinality(U) \in Nat
  <2>1. IsFiniteSet(1..MaxObjects) /\ U \subseteq 1..MaxObjects
    BY <1>1, FS_Interval
  <2> HIDE DEF U
  <2> QED
    BY <2>1, FS_Subset, FS_CardinalityType
<1>4. n \in 1..MaxObjects
  <2> HIDE DEF U
  <2> QED
    BY <1>1, <1>2, <1>3
<1> HIDE DEF n
<1> QED
  BY <1>1, <1>2, <1>4, NextPlace DEF n

(* An object is made and returned to the program, which owns it.           *)
LEMMA ReturnedSound ==
  ASSUME NEW h \in SoundHeaps, NewObject(h) <= MaxObjects, Alive(h) # Proxies,
         NEW kind \in NewKinds, NEW k \in Nat, MayKeep(h.objects, h.proxies, k)
  PROVE  Pointing(Made(h, kind, k), NewObject(h), TRUE) \in SoundHeaps
<1> DEFINE ob == h.objects
           pr == h.proxies
           n == NewObject(h)
           x == [NoObject EXCEPT !.kind = kind, !.keeps = k]
           nb == [ob EXCEPT ![n] = x]
           qr == WithAnother(pr, n, TRUE)
<1>1. /\ HeapSound(ob, pr) /\ h = [objects |-> ob, proxies |-> pr] /\ Alive(h) = Live(pr)
      /\ pr \in [Proxies -> ProxyRecords]
  BY SoundParts DEF HeapSound
<1>2. NewPlace(ob, n) /\ n \in Nat
  BY PlaceOfNew DEF NewPlace
<1>3. Made(h, kind, k) = [objects |-> nb, proxies |-> pr]
  BY <1>1 DEF Made
<1>4. x \in ObjectRecords /\ x.kind = kind /\ x.keeps = k /\ x.deleted = 0 /\ ~x.reowned
  BY DEF NoObject, ObjectRecords, NewKinds
<1>0. MayKeep(ob, pr, x.keeps)
  BY <1>4
<1> HIDE DEF x, n, ob, pr
<1>5. Pointing(Made(h, kind, k), n, TRUE) = [objects |-> nb, proxies |-> qr]
  <2> HIDE DEF nb
  <2> QED
    BY <1>3, PointingParts, Zenon
<1>6. /\ FreeOf(pr) \in Proxies /\ FreeOf(pr) \notin Live(pr) /\ qr \in [Proxies -> ProxyRecords]
      /\ qr[FreeOf(pr)].obj = n /\ qr[FreeOf(pr)].own = TRUE /\ \A p \in Proxies \ {FreeOf(pr)} : qr[p] = pr[p]
  <2>1. Room(pr) /\ TRUE \in BOOLEAN
    BY <1>1 DEF Room
  <2>2. Another(pr, qr, n, TRUE)
    BY <1>2, <2>1, FreeOne, Zenon
  <2> HIDE DEF qr
  <2> QED
    BY <2>2 DEF Another
<1> HIDE DEF qr
<1>9. \A p \in Proxies \ {FreeOf(pr)} : qr[p].obj = pr[p].obj /\ qr[p].own = pr[p].own
  BY <1>6
<1>8. ASSUME NEW f \in Proxies, f = FreeOf(pr) PROVE HeapSound(nb, qr)
  <2>1. f \notin Live(pr) /\ qr[f].obj = n /\ qr[f].own
    BY <1>6, <1>8
  <2>2. \A p \in Proxies \ {f} : qr[p].obj = pr[p].obj /\ qr[p].own = pr[p].own
    BY <1>8, <1>9
  <2> QED
    BY <1>0, <1>1, <1>2, <1>4, <1>6, <2>1, <2>2, MadeSound
<1> HIDE DEF nb
<1> QED
  BY <1>5, <1>6, <1>8, OfSoundParts DEF n

LEMMA InVainSound ==
  ASSUME NEW h \in SoundHeaps, NewObject(h) <= MaxObjects,
         NEW kind \in NewKinds, NEW k \in Nat, MayKeep(h.objects, h.proxies, k)
  PROVE  MadeInVain(h, kind, k) \in SoundHeaps
<1> DEFINE ob == h.objects
           pr == h.proxies
           n == NewObject(h)
           x == [NoObject EXCEPT !.kind = kind, !.keeps = k, !.lost = TRUE]
           nb == [ob EXCEPT ![n] = x]
<1>1. HeapSound(ob, pr) /\ h = [objects |-> ob, proxies |-> pr] /\ pr \in [Proxies -> ProxyRecords]
  BY SoundParts DEF HeapSound
<1>2. NewPlace(ob, n)
  BY PlaceOfNew
<1>3. MadeInVain(h, kind, k) = [objects |-> nb, proxies |-> pr]
  BY <1>1 DEF MadeInVain
<1>4. x \in ObjectRecords /\ x.kind = kind /\ x.keeps = k /\ x.deleted = 0 /\ ~x.reowned /\ x.lost
  BY DEF NoObject, ObjectRecords, NewKinds
<1>5. 0 \notin Live(pr)
  BY DEF Live, Proxies
<1> HIDE DEF x, n
<1>6. HeapSound(nb, pr)
  BY <1>1, <1>2, <1>4, <1>5, MadeSound
<1> HIDE DEF nb
<1> QED
  BY <1>3, <1>6, OfSoundParts

(* Another proxy of an object, which it does not own.                      *)
LEMMA PointedSound ==
  ASSUME NEW h \in SoundHeaps, Alive(h) # Proxies, NEW o \in 1..MaxObjects,
         h.objects[o].kind \notin {"none", "sequence"}
  PROVE  Pointing(h, o, FALSE) \in SoundHeaps
<1> DEFINE ob == h.objects
           pr == h.proxies
           qr == WithAnother(pr, o, FALSE)
<1>1. HeapSound(ob, pr) /\ h = [objects |-> ob, proxies |-> pr] /\ Room(pr)
  BY SoundParts DEF HeapSound, Room
<1>2. ob[o].kind \notin {"none", "sequence"}
  OBVIOUS
<1> HIDE DEF ob, pr
<1>3. Pointing(h, o, FALSE) = [objects |-> ob, proxies |-> qr]
  BY <1>1, PointingParts, Zenon
<1>4. Another(pr, qr, o, FALSE)
  <2>1. FALSE \in BOOLEAN /\ o \in Nat
    OBVIOUS
  <2> QED
    BY <1>1, <2>1, FreeOne, Zenon
<1> HIDE DEF qr
<1>5. ASSUME NEW f \in Proxies, f = FreeOf(pr) PROVE HeapSound(ob, qr)
  <2>1. f \notin Live(pr) /\ qr \in [Proxies -> ProxyRecords] /\ qr[f].obj = o /\ ~qr[f].own
    BY <1>4, <1>5 DEF Another
  <2>2. \A p \in Proxies \ {f} : qr[p].obj = pr[p].obj /\ qr[p].own = pr[p].own
    BY <1>4, <1>5 DEF Another
  <2>3. pr[f].obj \in {0, qr[f].obj}
    BY <2>1 DEF Live
  <2>4. qr[f].obj \in 1..MaxObjects /\ ob[qr[f].obj].kind \notin {"none", "sequence"}
    BY <1>2, <2>1
  <2> QED
    BY <1>1, <2>1, <2>2, <2>3, <2>4, WithoutOwning
<1>6. FreeOf(pr) \in Proxies
  BY <1>4 DEF Another
<1>7. HeapSound(ob, qr)
  BY <1>5, <1>6
<1> QED
  BY <1>3, <1>7, OfSoundParts

(* What a step does to a part of the heap.                                 *)
OwnReset(x, n) == [x EXCEPT ![n].own = FALSE]
OnOwnReset(h, n) == [h EXCEPT !.proxies[n].own = FALSE]

LEMMA OwnResetParts ==
  ASSUME NEW ob, NEW pr, NEW h, h = [objects |-> ob, proxies |-> pr], NEW n
  PROVE  OnOwnReset(h, n) = [objects |-> ob, proxies |-> OwnReset(pr, n)]
<1> DEFINE new == OwnReset(pr, n)
<1>1. OnOwnReset(h, n) = [h EXCEPT !.proxies = OwnReset(h.proxies, n)]
  BY DEF OnOwnReset, OwnReset
<1>2. OnOwnReset(h, n) = [h EXCEPT !.proxies = new]
  BY <1>1
<1> HIDE DEF new
<1>3. [h EXCEPT !.proxies = new] = [objects |-> ob, proxies |-> new]
  OBVIOUS
<1>4. OnOwnReset(h, n) = [objects |-> ob, proxies |-> new]
  BY <1>2, <1>3, Zenon
<1> QED
  BY <1>4 DEF new

HeldSet(x, n, held) == [x EXCEPT ![n].held = held]
OnHeldSet(h, n, held) == [h EXCEPT !.proxies[n].held = held]

LEMMA HeldSetParts ==
  ASSUME NEW ob, NEW pr, NEW h, h = [objects |-> ob, proxies |-> pr], NEW n, NEW held \in BOOLEAN
  PROVE  OnHeldSet(h, n, held) = [objects |-> ob, proxies |-> HeldSet(pr, n, held)]
<1> DEFINE new == HeldSet(pr, n, held)
<1>1. OnHeldSet(h, n, held) = [h EXCEPT !.proxies = HeldSet(h.proxies, n, held)]
  BY DEF OnHeldSet, HeldSet
<1>2. OnHeldSet(h, n, held) = [h EXCEPT !.proxies = new]
  BY <1>1
<1> HIDE DEF new
<1>3. [h EXCEPT !.proxies = new] = [objects |-> ob, proxies |-> new]
  OBVIOUS
<1>4. OnHeldSet(h, n, held) = [objects |-> ob, proxies |-> new]
  BY <1>2, <1>3, Zenon
<1> QED
  BY <1>4 DEF new

StuckSet(x, n) == [x EXCEPT ![n].stuck = TRUE]
OnStuckSet(h, n) == [h EXCEPT !.proxies[n].stuck = TRUE]

LEMMA StuckSetParts ==
  ASSUME NEW ob, NEW pr, NEW h, h = [objects |-> ob, proxies |-> pr], NEW n
  PROVE  OnStuckSet(h, n) = [objects |-> ob, proxies |-> StuckSet(pr, n)]
<1> DEFINE new == StuckSet(pr, n)
<1>1. OnStuckSet(h, n) = [h EXCEPT !.proxies = StuckSet(h.proxies, n)]
  BY DEF OnStuckSet, StuckSet
<1>2. OnStuckSet(h, n) = [h EXCEPT !.proxies = new]
  BY <1>1
<1> HIDE DEF new
<1>3. [h EXCEPT !.proxies = new] = [objects |-> ob, proxies |-> new]
  OBVIOUS
<1>4. OnStuckSet(h, n) = [objects |-> ob, proxies |-> new]
  BY <1>2, <1>3, Zenon
<1> QED
  BY <1>4 DEF new

LostSet(x, n) == [x EXCEPT ![n].lost = TRUE]
OnLostSet(h, n) == [h EXCEPT !.objects[n].lost = TRUE]

LEMMA LostSetParts ==
  ASSUME NEW ob, NEW pr, NEW h, h = [objects |-> ob, proxies |-> pr], NEW n
  PROVE  OnLostSet(h, n) = [objects |-> LostSet(ob, n), proxies |-> pr]
<1> DEFINE new == LostSet(ob, n)
<1>1. OnLostSet(h, n) = [h EXCEPT !.objects = LostSet(h.objects, n)]
  BY DEF OnLostSet, LostSet
<1>2. OnLostSet(h, n) = [h EXCEPT !.objects = new]
  BY <1>1
<1> HIDE DEF new
<1>3. [h EXCEPT !.objects = new] = [objects |-> new, proxies |-> pr]
  OBVIOUS
<1>4. OnLostSet(h, n) = [objects |-> new, proxies |-> pr]
  BY <1>2, <1>3, Zenon
<1> QED
  BY <1>4 DEF new

OnReownSet(h, n, b) == [h EXCEPT !.objects[n].reowned = @ \/ b]

LEMMA ReownSetParts ==
  ASSUME NEW ob, NEW pr, NEW h, h = [objects |-> ob, proxies |-> pr], NEW n, NEW b \in BOOLEAN
  PROVE  OnReownSet(h, n, b) = [objects |-> ReownSet(ob, n, b), proxies |-> pr]
<1> DEFINE new == ReownSet(ob, n, b)
<1>1. OnReownSet(h, n, b) = [h EXCEPT !.objects = ReownSet(h.objects, n, b)]
  BY DEF OnReownSet, ReownSet
<1>2. OnReownSet(h, n, b) = [h EXCEPT !.objects = new]
  BY <1>1
<1> HIDE DEF new
<1>3. [h EXCEPT !.objects = new] = [objects |-> new, proxies |-> pr]
  OBVIOUS
<1>4. OnReownSet(h, n, b) = [objects |-> new, proxies |-> pr]
  BY <1>2, <1>3, Zenon
<1> QED
  BY <1>4 DEF new

KeepsSet(x, n, k) == [x EXCEPT ![n].keeps = k]
OnKeepsSet(h, n, k) == [h EXCEPT !.objects[n].keeps = k]

LEMMA KeepsSetParts ==
  ASSUME NEW ob, NEW pr, NEW h, h = [objects |-> ob, proxies |-> pr], NEW n, NEW k
  PROVE  OnKeepsSet(h, n, k) = [objects |-> KeepsSet(ob, n, k), proxies |-> pr]
<1> DEFINE new == KeepsSet(ob, n, k)
<1>1. OnKeepsSet(h, n, k) = [h EXCEPT !.objects = KeepsSet(h.objects, n, k)]
  BY DEF OnKeepsSet, KeepsSet
<1>2. OnKeepsSet(h, n, k) = [h EXCEPT !.objects = new]
  BY <1>1
<1> HIDE DEF new
<1>3. [h EXCEPT !.objects = new] = [objects |-> new, proxies |-> pr]
  OBVIOUS
<1>4. OnKeepsSet(h, n, k) = [objects |-> new, proxies |-> pr]
  BY <1>2, <1>3, Zenon
<1> QED
  BY <1>4 DEF new

(* Marks of a proxy that are no matter of the invariant.                   *)
LEMMA MarkedSound ==
  ASSUME NEW h \in SoundHeaps, NEW n, NEW q \in Nat, NEW held \in BOOLEAN
  PROVE  /\ OnHeldSet(h, n, held) \in SoundHeaps
         /\ OnStuckSet(h, n) \in SoundHeaps
         /\ [h EXCEPT !.proxies[n].next = q] \in SoundHeaps
<1>1. PICK ob, pr : h = [objects |-> ob, proxies |-> pr] /\ HeapSound(ob, pr)
  BY SoundParts, Zenon
<1>2. pr \in [Proxies -> ProxyRecords]
  BY <1>1 DEF HeapSound
<1>3. ASSUME NEW qr, qr \in [Proxies -> ProxyRecords],
             \A p \in Proxies : qr[p].obj = pr[p].obj /\ qr[p].own = pr[p].own
      PROVE  [objects |-> ob, proxies |-> qr] \in SoundHeaps
  BY <1>1, <1>3, SameOwners, OfSoundParts
<1>4. OnHeldSet(h, n, held) \in SoundHeaps
  <2> DEFINE qr == HeldSet(pr, n, held)
  <2>1. OnHeldSet(h, n, held) = [objects |-> ob, proxies |-> qr]
    BY <1>1, HeldSetParts
  <2>2. qr \in [Proxies -> ProxyRecords] /\ \A p \in Proxies : qr[p].obj = pr[p].obj /\ qr[p].own = pr[p].own
    BY <1>2 DEF ProxyRecords, HeldSet
  <2> HIDE DEF qr
  <2>3. [objects |-> ob, proxies |-> qr] \in SoundHeaps
    BY <1>3, <2>2
  <2> QED
    BY <2>1, <2>3
<1>5. OnStuckSet(h, n) \in SoundHeaps
  <2> DEFINE qr == StuckSet(pr, n)
  <2>1. OnStuckSet(h, n) = [objects |-> ob, proxies |-> qr]
    BY <1>1, StuckSetParts
  <2>2. qr \in [Proxies -> ProxyRecords] /\ \A p \in Proxies : qr[p].obj = pr[p].obj /\ qr[p].own = pr[p].own
    BY <1>2 DEF ProxyRecords, StuckSet
  <2> HIDE DEF qr
  <2>3. [objects |-> ob, proxies |-> qr] \in SoundHeaps
    BY <1>3, <2>2
  <2> QED
    BY <2>1, <2>3
<1>6. [h EXCEPT !.proxies[n].next = q] \in SoundHeaps
  <2> DEFINE qr == [pr EXCEPT ![n].next = q]
  <2>1. [h EXCEPT !.proxies[n].next = q] = [objects |-> ob, proxies |-> qr]
    BY <1>1
  <2>2. qr \in [Proxies -> ProxyRecords] /\ \A p \in Proxies : qr[p].obj = pr[p].obj /\ qr[p].own = pr[p].own
    BY <1>2 DEF ProxyRecords
  <2> HIDE DEF qr
  <2>3. [objects |-> ob, proxies |-> qr] \in SoundHeaps
    BY <1>3, <2>2
  <2> QED
    BY <2>1, <2>3
<1> QED
  BY <1>4, <1>5, <1>6

(* A proxy gives its object up, and nothing owns it.                       *)
GivenUp(h, p) == OnLostSet(Disowned(h, p), h.proxies[p].obj)

LEMMA GivenUpSound ==
  ASSUME NEW h \in SoundHeaps, NEW p \in Alive(h), Kind(h, p) # "sequence"
  PROVE  /\ GivenUp(h, p) \in SoundHeaps
         /\ GivenUp(h, p).objects[h.proxies[p].obj].kind = Kind(h, p)
         /\ h.proxies[p].obj \in 1..MaxObjects /\ p \in Proxies
<1>0. PICK ob, pr : h = [objects |-> ob, proxies |-> pr] /\ HeapSound(ob, pr) /\ Alive(h) = Live(pr)
  BY SoundParts, Zenon
<1> DEFINE d == pr[p].obj
           nb == LostSet(ob, d)
           qr == OwnReset(pr, p)
<1>1. /\ HeapSound(ob, pr) /\ h = [objects |-> ob, proxies |-> pr] /\ p \in Live(pr)
      /\ pr \in [Proxies -> ProxyRecords] /\ ob \in [1..MaxObjects -> ObjectRecords] /\ p \in Proxies
  BY <1>0 DEF HeapSound, Live
<1>2. d \in 1..MaxObjects /\ ob[d].kind \notin {"none", "sequence"}
  BY <1>1 DEF HeapSound, ProxySound, Kind
<1>5. nb[d].lost /\ nb[d].kind = ob[d].kind
  BY <1>1, <1>2 DEF ObjectRecords, LostSet
<1>6. /\ qr \in [Proxies -> ProxyRecords] /\ qr[p].obj = d /\ ~qr[p].own
      /\ \A q \in Proxies \ {p} : qr[q].obj = pr[q].obj /\ qr[q].own = pr[q].own
  BY <1>1 DEF ProxyRecords, OwnReset
<1>7. HeapSound(nb, pr)
  BY <1>1, <1>2, MarkedLost DEF LostSet
<1>9. h.proxies[p].obj = d /\ Kind(h, p) = ob[d].kind
  BY <1>0 DEF Kind
<1>10. pr[p].obj = d
  OBVIOUS
<1> HIDE DEF d
<1>3. Disowned(h, p) = [objects |-> ob, proxies |-> qr]
  BY <1>1, OwnResetParts DEF Disowned, OnOwnReset
<1>4. GivenUp(h, p) = [objects |-> nb, proxies |-> qr]
  <2> HIDE DEF qr
  <2>1. OnLostSet(Disowned(h, p), d) = [objects |-> nb, proxies |-> qr]
    BY <1>3, LostSetParts
  <2> QED
    BY <1>9, <2>1 DEF GivenUp
<1> HIDE DEF qr, nb
<1>8. HeapSound(nb, qr)
  <2>1. pr[p].obj \in {0, qr[p].obj} /\ nb[qr[p].obj].kind \notin {"none", "sequence"} /\ nb[qr[p].obj].lost
    BY <1>2, <1>5, <1>6, <1>10
  <2>2. qr[p].obj \in 1..MaxObjects
    BY <1>2, <1>6
  <2> QED
    BY <1>1, <1>6, <1>7, <2>1, <2>2, WithoutOwning
<1>11. GivenUp(h, p) \in SoundHeaps
  BY <1>4, <1>8, OfSoundParts, Zenon
<1> QED
  BY <1>1, <1>2, <1>4, <1>5, <1>9, <1>11

(* += : the proxy gives the iterator to another one.                       *)
Beside(h, p) == \E q \in Alive(h) \ {p} : h.proxies[q].obj = h.proxies[p].obj /\ h.proxies[q].own

GivenOn(h, p, held) ==
  Pointing(OnHeldSet(OnReownSet(Disowned(h, p), h.proxies[p].obj, Beside(h, p)), p, held), h.proxies[p].obj, TRUE)

LEMMA GivenOnSound ==
  ASSUME NEW h \in SoundHeaps, NEW p \in Alive(h), Alive(h) # Proxies, NEW held \in BOOLEAN,
         Kind(h, p) = "iterator", Exists(h, h.proxies[p].obj)
  PROVE  GivenOn(h, p, held) \in SoundHeaps
<1>0. PICK ob, pr : h = [objects |-> ob, proxies |-> pr] /\ HeapSound(ob, pr) /\ Alive(h) = Live(pr)
  BY SoundParts, Zenon
<1> DEFINE d == pr[p].obj
           beside == Beside(h, p)
           nb == ReownSet(ob, d, beside)
           or == OwnReset(pr, p)
           hr == HeldSet(or, p, held)
           qr == WithAnother(hr, d, TRUE)
<1>1. /\ HeapSound(ob, pr) /\ h = [objects |-> ob, proxies |-> pr] /\ p \in Live(pr) /\ Live(pr) # Proxies
      /\ pr \in [Proxies -> ProxyRecords] /\ ob \in [1..MaxObjects -> ObjectRecords] /\ p \in Proxies
  BY <1>0 DEF HeapSound, Live
<1>2. d \in 1..MaxObjects /\ d \in Nat /\ ob[d].kind = "iterator" /\ ob[d].deleted = 0
  BY <1>1 DEF HeapSound, ProxySound, Kind, Exists
<1>3. h.proxies[p].obj = d /\ pr[p].obj = d
  BY <1>0
<1>4. beside \in BOOLEAN /\ (beside <=> \E q \in Live(pr) \ {p} : pr[q].obj = d /\ pr[q].own)
  BY <1>0 DEF Beside
<1>5. /\ hr \in [Proxies -> ProxyRecords] /\ hr[p].obj = d /\ ~hr[p].own
      /\ \A q \in Proxies \ {p} : hr[q] = pr[q]
  <2>1. /\ or \in [Proxies -> ProxyRecords] /\ or[p].obj = d /\ ~or[p].own
        /\ \A q \in Proxies \ {p} : or[q] = pr[q]
    BY <1>1 DEF ProxyRecords, OwnReset
  <2> HIDE DEF or
  <2> QED
    BY <1>1, <2>1, ZenonT(60) DEF ProxyRecords, HeldSet
<1> HIDE DEF d, beside
<1>6. Disowned(h, p) = [objects |-> ob, proxies |-> or]
  BY <1>1, OwnResetParts DEF Disowned, OnOwnReset
<1> HIDE DEF or
<1>7. OnReownSet(Disowned(h, p), d, beside) = [objects |-> nb, proxies |-> or]
  BY <1>4, <1>6, ReownSetParts
<1> HIDE DEF nb
<1>8. OnHeldSet(OnReownSet(Disowned(h, p), d, beside), p, held) = [objects |-> nb, proxies |-> hr]
  BY <1>7, HeldSetParts
<1> HIDE DEF hr
<1>9. Pointing(OnHeldSet(OnReownSet(Disowned(h, p), d, beside), p, held), d, TRUE) = [objects |-> nb, proxies |-> qr]
  <2>1. TRUE \in BOOLEAN
    OBVIOUS
  <2> QED
    BY <1>8, <2>1, PointingParts, ZenonT(60)
<1>10. GivenOn(h, p, held) = [objects |-> nb, proxies |-> qr]
  BY <1>3, <1>9 DEF GivenOn, beside
<1>11. Live(hr) = Live(pr)
  BY <1>3, <1>5 DEF Live
<1>12. Another(hr, qr, d, TRUE)
  <2>1. TRUE \in BOOLEAN /\ Room(hr)
    BY <1>1, <1>5, <1>11 DEF Room
  <2> QED
    BY <1>2, <2>1, FreeOne, Zenon
<1> HIDE DEF qr
<1>13. ASSUME NEW f \in Proxies, f = FreeOf(hr) PROVE HeapSound(nb, qr)
  <2>1. f \notin Live(pr) /\ qr \in [Proxies -> ProxyRecords] /\ qr[f].obj = d /\ qr[f].own /\ p # f
    BY <1>1, <1>11, <1>12, <1>13 DEF Another
  <2>2. \A q \in Proxies \ {p, f} : qr[q].obj = pr[q].obj /\ qr[q].own = pr[q].own
    BY <1>5, <1>12, <1>13 DEF Another
  <2>3. qr[p].obj = d /\ ~qr[p].own
    BY <1>1, <1>5, <1>12, <1>13, <2>1 DEF Another
  <2>4. HeapSound(ReownSet(ob, pr[p].obj, beside), qr)
    <3>1. HandsOver(ob, pr, qr, p, f, beside)
      BY <1>1, <1>2, <1>3, <1>4, <2>1, <2>2, <2>3 DEF HandsOver
    <3> QED
      BY <1>1, <3>1, HandedOver, Zenon
  <2> QED
    BY <2>4, <1>3 DEF nb
<1>14. FreeOf(hr) \in Proxies
  BY <1>12 DEF Another
<1>15. HeapSound(nb, qr)
  BY <1>13, <1>14
<1> QED
  BY <1>10, <1>15, OfSoundParts

LEMMA KeptSound ==
  ASSUME NEW h \in SoundHeaps, NEW o \in 1..MaxObjects, h.objects[o].kind # "iterator", NEW k \in Nat
  PROVE  OnKeepsSet(h, o, k) \in SoundHeaps
<1>1. PICK ob, pr : h = [objects |-> ob, proxies |-> pr] /\ HeapSound(ob, pr)
  BY SoundParts, Zenon
<1>2. OnKeepsSet(h, o, k) = [objects |-> KeepsSet(ob, o, k), proxies |-> pr]
  BY <1>1, KeepsSetParts
<1>3. HeapSound(KeepsSet(ob, o, k), pr)
  BY <1>1, KeepsAnother DEF KeepsSet
<1> QED
  BY <1>2, <1>3, OfSoundParts

(* Of a conversion what stays is the vectors of the bad lists.             *)
LEMMA DisjointSizes ==
  ASSUME NEW S, NEW U, IsFiniteSet(S), IsFiniteSet(U), S \cap U = {}
  PROVE  /\ IsFiniteSet(S \cup U) /\ Cardinality(S \cup U) = Cardinality(S) + Cardinality(U)
         /\ Cardinality(S) \in Nat /\ Cardinality(U) \in Nat
<1>1. Cardinality(S) \in Nat /\ Cardinality(U) \in Nat /\ Cardinality({}) = 0
  BY FS_CardinalityType, FS_EmptySet
<1>2. IsFiniteSet(S \cup U) /\ Cardinality(S \cup U) = Cardinality(S) + Cardinality(U) - Cardinality(S \cap U)
  BY FS_Union
<1>3. Cardinality(S \cap U) = 0
  BY <1>1
<1>4. \A s, t, r \in Nat : r = 0 => s + t - r = s + t
  OBVIOUS
<1> QED
  BY <1>1, <1>2, <1>3, <1>4

LEMMA LeftIsBad ==
  ASSUME NEW n \in Nat, NEW args, DOMAIN args = 1..n
  PROVE  /\ Cardinality({k \in DOMAIN args : args[k] = "bad list"}) \in Nat
         /\ (Cardinality(NewVectors(args)) + Cardinality(NewStrings(args))) - Deleted(args)
              = Cardinality({k \in DOMAIN args : args[k] = "bad list"})
<1> DEFINE D == DOMAIN args
           L == {k \in D : args[k] = "list"}
           B == {k \in D : args[k] = "bad list"}
           U == {k \in D : args[k] = "text"}
<1>1. IsFiniteSet(D)
  BY FS_Interval
<1>2. L \subseteq D /\ B \subseteq D /\ U \subseteq D /\ L \cap B = {} /\ L \cap U = {}
  OBVIOUS
<1>3. NewVectors(args) = L \cup B /\ NewStrings(args) = U /\ {k \in D : args[k] \in {"list", "text"}} = L \cup U
  BY DEF NewVectors, NewStrings
<1> HIDE DEF L, B, U, D
<1>4. IsFiniteSet(L) /\ IsFiniteSet(B) /\ IsFiniteSet(U)
  BY <1>1, <1>2, FS_Subset
<1>5. /\ Cardinality(L \cup B) = Cardinality(L) + Cardinality(B) /\ Cardinality(L \cup U) = Cardinality(L) + Cardinality(U)
      /\ Cardinality(L) \in Nat /\ Cardinality(B) \in Nat /\ Cardinality(U) \in Nat
  BY <1>2, <1>4, DisjointSizes
<1>6. /\ Cardinality(NewVectors(args)) = Cardinality(L) + Cardinality(B) /\ Cardinality(NewStrings(args)) = Cardinality(U)
      /\ Deleted(args) = Cardinality(L) + Cardinality(U)
  BY <1>3, <1>5 DEF Deleted, D
<1>7. \A l, b, t \in Nat : (l + b) + t - (l + t) = b
  OBVIOUS
<1>8. (Cardinality(NewVectors(args)) + Cardinality(NewStrings(args))) - Deleted(args) = Cardinality(B)
  BY <1>5, <1>6, <1>7
<1> QED
  BY <1>5, <1>8 DEF B, D

LEMMA ConversionsLeave ==
  ASSUME NEW parameters \in Signatures, NEW c \in Conversions[parameters]
  PROVE  c.left = c.bad /\ c.bad \in Nat
<1>1. PICK n \in Nat : DOMAIN parameters = 1..n
  <2>1. \/ parameters = << >>
        \/ \E x : parameters = <<x>>
        \/ \E x, y : parameters = <<x, y>>
        \/ \E x, y, z : parameters = <<x, y, z>>
    BY DEF Signatures
  <2>2. /\ DOMAIN << >> = 1..0
        /\ \A x : DOMAIN <<x>> = 1..1
        /\ \A x, y : DOMAIN <<x, y>> = 1..2
        /\ \A x, y, z : DOMAIN <<x, y, z>> = 1..3
    OBVIOUS
  <2> QED
    BY <2>1, <2>2
<1>2. PICK all : DOMAIN all = 1..n /\ c = Accepted(all)
  BY <1>1 DEF Conversions
<1> DEFINE args == UpToBad(all)
<1>3. PICK m \in Nat : DOMAIN args = 1..m
  <2> DEFINE failing == {k \in DOMAIN all : ~Good(all[k])}
  <2>1. CASE failing = {}
    BY <1>2, <2>1 DEF UpToBad
  <2>2. CASE failing # {}
    <3>1. failing \in SUBSET Nat
      BY <1>2
    <3>2. Min(failing) \in Nat
      BY <2>2, <3>1, LeastOf
    <3>3. args = SubSeq(all, 1, Min(failing))
      BY <2>2 DEF UpToBad
    <3>4. DOMAIN args = 1..Min(failing)
      <4> HIDE DEF failing
      <4> QED
        BY <3>2, <3>3 DEF SubSeq
    <3> QED
      BY <3>2, <3>4
  <2> QED
    BY <2>1, <2>2
<1>4. /\ c.left = (Cardinality(NewVectors(args)) + Cardinality(NewStrings(args))) - Deleted(args)
      /\ c.bad = Cardinality({k \in DOMAIN args : args[k] = "bad list"})
  BY <1>2 DEF Accepted
<1> HIDE DEF args
<1> QED
  BY <1>3, <1>4, LeftIsBad

(* The invariant: all objects and proxies are sound.                       *)
OwnershipInv ==
  heap \in SoundHeaps /\ temporaries \in Nat /\ badLists \in Nat /\ temporaries = badLists

LEMMA CallSound ==
  ASSUME OwnershipInv, NEW parameters \in Signatures, NEW after \in SoundHeaps, Call(parameters, after)
  PROVE  OwnershipInv'
<1>1. PICK c \in Conversions[parameters] :
           /\ temporaries' = temporaries + c.left
           /\ badLists' = badLists + c.bad
           /\ heap' = IF c.good THEN after ELSE heap
  BY DEF Call
<1>2. c.left = c.bad /\ c.bad \in Nat
  BY ConversionsLeave
<1>3. heap' \in SoundHeaps
  BY <1>1 DEF OwnershipInv
<1> QED
  BY <1>1, <1>2, <1>3 DEF OwnershipInv

LEMMA BecomesSound ==
  ASSUME OwnershipInv, NEW h \in SoundHeaps, HeapBecomes(h)
  PROVE  OwnershipInv'
BY CollectedSound DEF HeapBecomes, OwnershipInv

LEMMA InitSound ==
  ASSUME ObjectsInit
  PROVE  OwnershipInv
<1> DEFINE ob == [o \in 1..MaxObjects |-> NoObject]
           pr == [p \in Proxies |-> NoProxy]
<1>1. NoObject \in ObjectRecords /\ NoObject.kind = "none" /\ ~NoObject.reowned /\ NoObject.deleted = 0
  BY DEF NoObject, ObjectRecords, Nobody
<1>2. /\ ob \in [1..MaxObjects -> ObjectRecords] /\ pr \in [Proxies -> ProxyRecords]
      /\ \A o \in 1..MaxObjects : ob[o] = NoObject
      /\ \A p \in Proxies : pr[p] = NoProxy
  BY <1>1, NoProxyIsOne
<1> HIDE DEF ob, pr
<1>3. MadeInTurn(ob)
  <2>1. \A o \in 1..MaxObjects : ob[o].kind # "none" <=> o <= 0
    BY <1>1, <1>2
  <2>2. 0 \in 0..MaxObjects
    BY PyObjectsAssumption
  <2> QED
    BY <2>1, <2>2, Zenon DEF MadeInTurn
<1>4. Live(pr) = {}
  BY <1>2, NoProxyIsOne DEF Live
<1>5. \A o \in 1..MaxObjects : ObjectSound(ob, pr, o)
  BY <1>1, <1>2, <1>4 DEF ObjectSound, OwnedOnce, Accounted, Kept, OwnersOf
<1>6. HeapSound(ob, pr)
  BY <1>2, <1>3, <1>4, <1>5 DEF HeapSound
<1>7. heap = [objects |-> ob, proxies |-> pr]
  BY DEF ObjectsInit, ob, pr
<1>8. heap \in SoundHeaps
  BY <1>6, <1>7, OfSoundParts
<1> QED
  BY <1>8 DEF ObjectsInit, OwnershipInv

LEMMA SoundOwnership ==
  ASSUME OwnershipInv
  PROVE  OwnershipIsSound
<1> DEFINE ob == heap.objects
           pr == heap.proxies
<1>1. HeapSound(ob, pr) /\ DOMAIN heap.objects = 1..MaxObjects /\ Alive(heap) = Live(pr)
  BY SoundParts DEF OwnershipInv
<1>2. \A o : Owners(o) = OwnersOf(pr, o)
  BY <1>1 DEF Owners, OwnersOf
<1>3. ASSUME NEW o \in 1..MaxObjects, ~ob[o].reowned
      PROVE  Cardinality(Owners(o)) <= 1 /\ ob[o].deleted <= 1 /\ (ob[o].deleted > 0 => Owners(o) = {})
  <2>1. OwnedOnce(ob, pr, o) /\ ob[o].deleted \in Nat
    BY <1>1 DEF HeapSound, ObjectSound, ObjectRecords
  <2>2. CASE Owners(o) = {}
    <3>1. Cardinality(Owners(o)) = 0
      BY <2>2, FS_EmptySet
    <3> QED
      BY <1>3, <2>1, <2>2, <3>1 DEF OwnedOnce
  <2>3. CASE Owners(o) # {}
    <3>1. PICK p \in OwnersOf(pr, o) : TRUE
      BY <1>2, <2>3
    <3>2. ob[o].deleted = 0 /\ Owners(o) = {p}
      BY <1>2, <1>3, <2>1, <3>1 DEF OwnedOnce
    <3>3. Cardinality({p}) = 1
      BY FS_Singleton
    <3> QED
      BY <3>2, <3>3
  <2> QED
    BY <2>2, <2>3
<1>4. ASSUME NEW o \in 1..MaxObjects, Exists(heap, o) PROVE ob[o].lost \/ Owners(o) # {}
  BY <1>1, <1>2, <1>4 DEF HeapSound, ObjectSound, Accounted, Exists
<1>5. ASSUME NEW o \in 1..MaxObjects, ob[o].kind = "iterator", Exists(heap, o), ob[o].keeps # Nobody
      PROVE  ob[o].keeps \in Alive(heap) /\ Exists(heap, pr[ob[o].keeps].obj)
  <2> DEFINE k == ob[o].keeps
             s == pr[k].obj
  <2>1. k \in Live(pr) /\ ob[s].kind = "sequence"
    BY <1>1, <1>5 DEF HeapSound, ObjectSound, Kept, Exists
  <2>2. s \in 1..MaxObjects /\ pr[k].own
    BY <1>1, <2>1 DEF HeapSound, ProxySound
  <2>3. ObjectSound(ob, pr, s) /\ k \in OwnersOf(pr, s)
    BY <1>1, <2>1, <2>2, SMTT(30) DEF HeapSound, OwnersOf
  <2>4. ob[s].deleted = 0
    BY <2>1, <2>3 DEF ObjectSound, OwnedOnce
  <2> QED
    BY <1>1, <2>1, <2>4 DEF Exists
<1>6. temporaries = badLists
  BY DEF OwnershipInv
<1> QED
  BY <1>1, <1>3, <1>4, <1>5, <1>6 DEF OwnershipIsSound

-----------------------------------------------------------------------------
(* The steps.                                                              *)
LEMMA ReturnsSound ==
  ASSUME OwnershipInv, NEW kind \in NewKinds, NEW k \in Nat, MayKeep(heap.objects, heap.proxies, k),
         Returns(kind, k, TRUE)
  PROVE  OwnershipInv'
<1>1. Pointing(Made(heap, kind, k), NewObject(heap), TRUE) \in SoundHeaps
  BY ReturnedSound DEF OwnershipInv, Returns, CanMake, CanPoint
<1>2. HeapBecomes(Pointing(Made(heap, kind, k), NewObject(heap), TRUE))
  BY DEF Returns
<1> QED
  BY <1>1, <1>2, BecomesSound

LEMMA MayKeepNobody == ASSUME NEW ob, NEW pr PROVE MayKeep(ob, pr, Nobody) /\ Nobody \in Nat
BY DEF MayKeep, Nobody

(* A proxy that the program has.                                           *)
LEMMA OfHeld ==
  ASSUME OwnershipInv, NEW kinds, NEW p \in HeldOf(kinds)
  PROVE  /\ p \in Alive(heap) /\ p \in Proxies /\ p \in Nat /\ Kind(heap, p) \in kinds
         /\ Exists(heap, heap.proxies[p].obj) /\ heap.proxies[p].obj \in 1..MaxObjects
         /\ Alive(heap) = Live(heap.proxies) /\ Kind(heap, p) = heap.objects[heap.proxies[p].obj].kind
<1>1. HeapSound(heap.objects, heap.proxies) /\ Alive(heap) = Live(heap.proxies)
  BY SoundParts DEF OwnershipInv
<1>2. p \in Alive(heap) /\ Kind(heap, p) \in kinds /\ Exists(heap, heap.proxies[p].obj)
  BY DEF HeldOf
<1>3. p \in Proxies /\ p \in Nat
  BY <1>2, PyObjectsAssumption DEF Alive, Proxies
<1>4. heap.proxies[p].obj \in 1..MaxObjects
  BY <1>1, <1>2 DEF HeapSound, ProxySound
<1> QED
  BY <1>1, <1>2, <1>3, <1>4 DEF Kind

LEMMA MayKeepOfIterator ==
  ASSUME OwnershipInv, NEW p \in HeldOf({"iterator"})
  PROVE  Keeps(p) \in Nat /\ MayKeep(heap.objects, heap.proxies, Keeps(p))
<1> DEFINE o == heap.proxies[p].obj
<1>1. o \in 1..MaxObjects /\ heap.objects[o].kind = "iterator" /\ Exists(heap, o)
  BY OfHeld
<1>2. HeapSound(heap.objects, heap.proxies)
  BY SoundParts DEF OwnershipInv
<1>3. Kept(heap.objects, heap.proxies, o) /\ heap.objects[o] \in ObjectRecords
  BY <1>1, <1>2 DEF HeapSound, ObjectSound
<1>4. Keeps(p) = heap.objects[o].keeps
  BY DEF Keeps
<1> HIDE DEF o
<1> QED
  BY <1>1, <1>3, <1>4 DEF Kept, MayKeep, Exists, ObjectRecords

LEMMA NewSound ==
  ASSUME OwnershipInv, NEW kind \in Classes, PyNew(kind)
  PROVE  OwnershipInv'
<1>1. kind \in NewKinds
  BY DEF NewKinds
<1> QED
  BY <1>1, MayKeepNobody, ReturnsSound DEF PyNew

LEMMA InitAgainSound ==
  ASSUME OwnershipInv, NEW p \in Proxies, PyInitAgain(p)
  PROVE  OwnershipInv'
<1> DEFINE q == FreeProxy(heap)
           h == Pointing(Made(heap, Kind(heap, p), Nobody), NewObject(heap), TRUE)
           n == heap.proxies[p].next
           h1 == [h EXCEPT !.proxies[p].next = q]
           h2 == OnHeldSet(h1, q, FALSE)
           h3 == OnStuckSet(h2, n)
<1>1. p \in HeldOf(Classes) /\ CanMake /\ CanPoint
  BY DEF PyInitAgain
<1>2. Kind(heap, p) \in NewKinds
  BY <1>1, OfHeld DEF NewKinds
<1>3. h \in SoundHeaps
  BY <1>1, <1>2, MayKeepNobody, ReturnedSound DEF OwnershipInv, CanMake, CanPoint
<1>4. q \in Nat
  <2>1. Proxies \ Alive(heap) \in SUBSET Nat /\ Proxies \ Alive(heap) # {}
    BY <1>1, PyObjectsAssumption DEF Proxies, Alive, CanPoint
  <2> QED
    BY <2>1, LeastOf DEF FreeProxy
<1>5. HeapBecomes(h2) \/ HeapBecomes(h3)
  <2>1. [h EXCEPT !.proxies[p].next = q, !.proxies[q].held = FALSE] = h2
    BY DEF OnHeldSet
  <2>2. [h2 EXCEPT !.proxies[n].stuck = TRUE] = h3
    BY DEF OnStuckSet
  <2>3. HeapBecomes(IF n = Nobody THEN [h EXCEPT !.proxies[p].next = q, !.proxies[q].held = FALSE]
                    ELSE [[h EXCEPT !.proxies[p].next = q, !.proxies[q].held = FALSE] EXCEPT !.proxies[n].stuck = TRUE])
    BY DEF PyInitAgain
  <2> HIDE DEF h3, h2, n, q, h, h1
  <2>4. HeapBecomes(IF n = Nobody THEN h2 ELSE [h2 EXCEPT !.proxies[n].stuck = TRUE])
    BY <2>1, <2>3
  <2>5. HeapBecomes(IF n = Nobody THEN h2 ELSE h3)
    BY <2>2, <2>4
  <2> QED
    BY <2>5
<1> HIDE DEF h, q, n
<1>6. h1 \in SoundHeaps
  BY <1>3, <1>4, MarkedSound
<1> HIDE DEF h1
<1>7. h2 \in SoundHeaps
  BY <1>6, MarkedSound
<1> HIDE DEF h2
<1>8. h3 \in SoundHeaps
  BY <1>7, MarkedSound
<1> HIDE DEF h3
<1> QED
  BY <1>5, <1>7, <1>8, BecomesSound

LEMMA DropSound ==
  ASSUME OwnershipInv, NEW p \in Proxies, PyDrop(p)
  PROVE  OwnershipInv'
<1>1. HeapBecomes(OnHeldSet(heap, p, FALSE))
  BY DEF PyDrop, OnHeldSet
<1>2. OnHeldSet(heap, p, FALSE) \in SoundHeaps
  BY MarkedSound DEF OwnershipInv
<1> QED
  BY <1>1, <1>2, BecomesSound

LEMMA DisownSound ==
  ASSUME OwnershipInv, NEW p \in Proxies, PyDisown(p)
  PROVE  OwnershipInv'
<1> DEFINE o == heap.proxies[p].obj
           h == GivenUp(heap, p)
<1>1. p \in HeldOf({"trainer", "director"})
  BY DEF PyDisown
<1>2. p \in Alive(heap) /\ p \in Nat /\ Kind(heap, p) \in {"trainer", "director"}
  BY <1>1, OfHeld
<1>3. h \in SoundHeaps /\ h.objects[o].kind = Kind(heap, p) /\ o \in 1..MaxObjects
  BY <1>2, GivenUpSound DEF OwnershipInv
<1>4. HeapBecomes(h) \/ HeapBecomes(OnKeepsSet(h, o, p))
  BY DEF PyDisown, GivenUp, OnLostSet, OnKeepsSet
<1> HIDE DEF h, o
<1>5. OnKeepsSet(h, o, p) \in SoundHeaps
  BY <1>2, <1>3, KeptSound
<1> QED
  BY <1>3, <1>4, <1>5, BecomesSound

LEMMA StepSound ==
  ASSUME OwnershipInv, NEW p \in Proxies, PyStep(p)
  PROVE  OwnershipInv'
<1> DEFINE o == heap.proxies[p].obj
<1>1. p \in HeldOf({"iterator"}) /\ Alive(heap) # Proxies /\ HeapBecomes(Pointing(heap, o, FALSE))
  BY DEF PyStep, CanPoint
<1>2. o \in 1..MaxObjects /\ heap.objects[o].kind = "iterator"
  BY <1>1, OfHeld
<1> HIDE DEF o
<1>3. Pointing(heap, o, FALSE) \in SoundHeaps
  BY <1>1, <1>2, PointedSound DEF OwnershipInv
<1> QED
  BY <1>1, <1>3, BecomesSound

LEMMA StepInPlaceSound ==
  ASSUME OwnershipInv, NEW p \in Proxies, NEW rebound \in BOOLEAN, PyStepInPlace(p, rebound)
  PROVE  OwnershipInv'
<1>1. p \in HeldOf({"iterator"}) /\ Alive(heap) # Proxies
  BY DEF PyStepInPlace, CanPoint
<1>2. HeapBecomes(GivenOn(heap, p, ~rebound))
  BY DEF PyStepInPlace, GivenOn, OnHeldSet, OnReownSet, Beside
<1>3. p \in Alive(heap) /\ Kind(heap, p) = "iterator" /\ Exists(heap, heap.proxies[p].obj)
  BY <1>1, OfHeld
<1>4. GivenOn(heap, p, ~rebound) \in SoundHeaps
  BY <1>1, <1>3, GivenOnSound DEF OwnershipInv
<1> QED
  BY <1>2, <1>4, BecomesSound

LEMMA StepInPlaceRaisesSound ==
  ASSUME OwnershipInv, NEW p \in Proxies, PyStepInPlaceRaises(p)
  PROVE  OwnershipInv'
<1>1. p \in HeldOf({"iterator"})
  BY DEF PyStepInPlaceRaises
<1>2. HeapBecomes(GivenUp(heap, p))
  BY DEF PyStepInPlaceRaises, GivenUp, OnLostSet
<1>3. p \in Alive(heap) /\ Kind(heap, p) = "iterator"
  BY <1>1, OfHeld
<1>4. GivenUp(heap, p) \in SoundHeaps
  BY <1>3, GivenUpSound DEF OwnershipInv
<1> QED
  BY <1>2, <1>4, BecomesSound

LEMMA PlusSound ==
  ASSUME OwnershipInv, NEW p \in Proxies, PyPlus(p)
  PROVE  OwnershipInv'
<1>1. p \in HeldOf({"iterator"})
  BY DEF PyPlus
<1>2. Keeps(p) \in Nat /\ MayKeep(heap.objects, heap.proxies, Keeps(p)) /\ "iterator" \in NewKinds
  BY <1>1, MayKeepOfIterator DEF NewKinds
<1>3. CASE Returns("iterator", Keeps(p), TRUE)
  BY <1>2, <1>3, ReturnsSound
<1>4. CASE CanMake /\ HeapBecomes(MadeInVain(heap, "iterator", Keeps(p)))
  <2>1. MadeInVain(heap, "iterator", Keeps(p)) \in SoundHeaps
    BY <1>2, <1>4, InVainSound DEF OwnershipInv, CanMake
  <2> QED
    BY <1>4, <2>1, BecomesSound
<1> QED
  BY <1>3, <1>4 DEF PyPlus

LEMMA GetItemSliceSound ==
  ASSUME OwnershipInv, NEW p \in Proxies, PyGetItemSlice(p)
  PROVE  OwnershipInv'
<1> DEFINE n == NewObject(heap)
           h == MadeInVain(heap, "bare", Nobody)
<1>1. n <= MaxObjects /\ Alive(heap) # Proxies /\ HeapBecomes(Pointing(h, n, FALSE))
  BY DEF PyGetItemSlice, CanMake, CanPoint
<1>2. h \in SoundHeaps
  <2>1. "bare" \in NewKinds
    BY DEF NewKinds
  <2> QED
    BY <1>1, <2>1, MayKeepNobody, InVainSound DEF OwnershipInv
<1>3. n \in 1..MaxObjects
  BY <1>1, PlaceOfNew DEF OwnershipInv, NewPlace
<1>4. Alive(h) = Alive(heap) /\ h.objects[n].kind = "bare"
  <2>1. DOMAIN heap.objects = 1..MaxObjects /\ heap = [objects |-> heap.objects, proxies |-> heap.proxies]
    BY SoundParts DEF OwnershipInv
  <2>2. h.proxies = heap.proxies /\ h.objects = [heap.objects EXCEPT ![n] = [NoObject EXCEPT !.kind = "bare", !.keeps = Nobody, !.lost = TRUE]]
    BY <2>1 DEF MadeInVain
  <2> HIDE DEF h, n
  <2>3. h.objects[n].kind = "bare"
    BY <1>3, <2>1, <2>2 DEF NoObject
  <2> QED
    BY <2>2, <2>3 DEF Alive
<1> HIDE DEF h, n
<1>5. Pointing(h, n, FALSE) \in SoundHeaps
  BY <1>1, <1>2, <1>3, <1>4, PointedSound
<1> QED
  BY <1>1, <1>5, BecomesSound

LEMMA IteratorsSound ==
  ASSUME OwnershipInv, NEW p \in Proxies,
         PyIterator(p) \/ PyBegin(p) \/ PyCopy(p) \/ PyGetSlice(p) \/ PyGetAllocator(p)
  PROVE  OwnershipInv'
<1>1. "iterator" \in NewKinds /\ "bare" \in NewKinds
  BY DEF NewKinds
<1>2. CASE PyIterator(p)
  <2>1. p \in HeldOf({"sequence"}) /\ Returns("iterator", p, TRUE)
    BY <1>2 DEF PyIterator
  <2>2. p \in Nat /\ MayKeep(heap.objects, heap.proxies, p)
    BY <2>1, OfHeld DEF MayKeep
  <2> QED
    BY <1>1, <2>1, <2>2, ReturnsSound
<1>3. CASE PyBegin(p)
  BY <1>1, <1>3, MayKeepNobody, ReturnsSound DEF PyBegin
<1>4. CASE PyCopy(p)
  BY <1>1, <1>4, MayKeepOfIterator, ReturnsSound DEF PyCopy
<1>5. CASE PyGetSlice(p) \/ PyGetAllocator(p)
  BY <1>1, <1>5, MayKeepNobody, ReturnsSound DEF PyGetSlice, PyGetAllocator
<1> QED
  BY <1>2, <1>3, <1>4, <1>5

LEMMA MethodSound ==
  ASSUME OwnershipInv, NEW parameters \in Signatures, Method(parameters)
  PROVE  OwnershipInv'
BY CallSound DEF Method, OwnershipInv

LEMMA NewAttributeSound ==
  ASSUME OwnershipInv, NEW parameters \in Signatures, NewAttribute(parameters)
  PROVE  OwnershipInv'
<1> DEFINE h == Pointing(Made(heap, "attribute", Nobody), NewObject(heap), TRUE)
<1>1. "attribute" \in NewKinds
  BY DEF NewKinds, Classes
<1>2. h \in SoundHeaps
  BY <1>1, MayKeepNobody, ReturnedSound DEF OwnershipInv, NewAttribute, CanMake, CanPoint
<1>3. Call(parameters, h)
  BY DEF NewAttribute
<1> HIDE DEF h
<1> QED
  BY <1>2, <1>3, CallSound

LEMMA ObjectsStepSound ==
  ASSUME OwnershipInv, [ObjectsNext]_objectVars
  PROVE  OwnershipInv'
<1>1. CASE UNCHANGED objectVars
  BY <1>1 DEF objectVars, OwnershipInv
<1>2. ASSUME NEW kind \in Classes, PyNew(kind) PROVE OwnershipInv'
  BY <1>2, NewSound
<1>3. ASSUME NEW p \in Proxies, PyInitAgain(p) \/ PyDrop(p) \/ PyDisown(p) PROVE OwnershipInv'
  BY <1>3, InitAgainSound, DropSound, DisownSound
<1>4. ASSUME NEW p \in Proxies, PyIterator(p) \/ PyBegin(p) \/ PyCopy(p) \/ PyGetSlice(p) \/ PyGetAllocator(p)
      PROVE  OwnershipInv'
  BY <1>4, IteratorsSound
<1>5. ASSUME NEW p \in Proxies, PyStepInPlace(p, TRUE) \/ PyStepInPlace(p, FALSE) PROVE OwnershipInv'
  <2>1. TRUE \in BOOLEAN /\ FALSE \in BOOLEAN
    OBVIOUS
  <2> QED
    BY <1>5, <2>1, StepInPlaceSound, Zenon
<1>6. ASSUME NEW p \in Proxies, PyStep(p) \/ PyStepInPlaceRaises(p) \/ PyPlus(p) \/ PyGetItemSlice(p) PROVE OwnershipInv'
  BY <1>6, StepSound, StepInPlaceRaisesSound, PlusSound, GetItemSliceSound
<1>7. ASSUME NEW parameters \in Signatures, NewAttribute(parameters) PROVE OwnershipInv'
  BY <1>7, NewAttributeSound
<1>8. ASSUME NEW parameters \in Signatures, Method(parameters) PROVE OwnershipInv'
  BY <1>8, MethodSound
<1>9. /\ << >> \in Signatures /\ << "string" >> \in Signatures /\ << "double" >> \in Signatures /\ << "items" >> \in Signatures
      /\ << "strings" >> \in Signatures /\ << "string", "string" >> \in Signatures /\ << "string", "int" >> \in Signatures
      /\ << "string", "double" >> \in Signatures /\ << "items", "strings", "int" >> \in Signatures
  BY DEF Signatures
<1>10. CASE PyNewAnyAttribute
  BY <1>7, <1>9, <1>10 DEF PyNewAnyAttribute, PyNewAttribute, PyNewAttributeNamed, PyNewAttributeWithValue
<1>11. CASE \/ PyTrainerClear \/ PyTrainerAppend \/ PyTrainerSelect \/ PyTrainerTrain \/ PyTrainerParams
            \/ PyTrainerSet \/ PyTrainerGet \/ PyTrainerHelp \/ PyTrainerMessage
  BY <1>8, <1>9, <1>11
  DEF PyTrainerClear, PyTrainerAppend, PyTrainerSelect, PyTrainerTrain, PyTrainerParams, PyTrainerSet, PyTrainerGet,
      PyTrainerHelp, PyTrainerMessage, TrainerMethod
<1>12. CASE PyAttributeAttrSet \/ PyAttributeAttrGet \/ PyAttributeValueSet \/ PyAttributeValueGet
  BY <1>8, <1>9, <1>12
  DEF PyAttributeAttrSet, PyAttributeAttrGet, PyAttributeValueSet, PyAttributeValueGet, AttributeMethod
<1>13. CASE \/ PyTaggerOpen \/ PyTaggerClose \/ PyTaggerLabels \/ PyTaggerTag \/ PyTaggerSet
            \/ PyTaggerViterbi \/ PyTaggerProbability \/ PyTaggerMarginal
  BY <1>8, <1>9, <1>13
  DEF PyTaggerOpen, PyTaggerClose, PyTaggerLabels, PyTaggerTag, PyTaggerSet, PyTaggerViterbi, PyTaggerProbability,
      PyTaggerMarginal
<1> QED
  BY <1>1, <1>2, <1>3, <1>4, <1>5, <1>6, <1>10, <1>11, <1>12, <1>13 DEF ObjectsNext

ObjectsSpec == ObjectsInit /\ [][ObjectsNext]_objectVars

(* Whatever a program does with the proxies, the invariant holds, for any  *)
(* number of objects, proxies and bad lists.                               *)
THEOREM ObjectsTyped == ObjectsSpec => []OwnershipInv
<1>1. ObjectsInit => OwnershipInv
  BY InitSound
<1>2. OwnershipInv /\ [ObjectsNext]_objectVars => OwnershipInv'
  BY ObjectsStepSound
<1> QED
  BY <1>1, <1>2, PTL DEF ObjectsSpec

(* No object has two owners or is deleted twice, but an iterator of which  *)
(* += was called on a second proxy; none is forgotten, but those that were *)
(* disowned, have no destructor, or went with a StopIteration; an iterator *)
(* never outlives the sequence that it was given to keep; and of the       *)
(* temporaries of the calls only the vectors of bad lists stay.            *)
THEOREM ObjectsOwned == ObjectsSpec => []OwnershipIsSound
<1>1. OwnershipInv => OwnershipIsSound
  BY SoundOwnership
<1> QED
  BY <1>1, ObjectsTyped, PTL

-----------------------------------------------------------------------------
(* The trainer: TrainerApi.                                                *)

(* What the items say of their attributes.                                 *)
AttributeStrings == { c[1] : c \in Contents }

(* A quark for strings of a set: by its id it has each string it numbered. *)
QuarkSound(q, S) ==
  /\ q = [num |-> q.num, max |-> q.max, string_to_id |-> q.string_to_id, id_to_string |-> q.id_to_string]
  /\ q.num \in Int /\ q.max \in Nat /\ q.num <= q.max
  /\ DOMAIN q.string_to_id \subseteq S
  /\ q.string_to_id \in [DOMAIN q.string_to_id -> Nat]
  /\ q.id_to_string \in [0 .. (q.max - 1) -> S \cup {NoString}]
  /\ \A s \in DOMAIN q.string_to_id :
       q.string_to_id[s] < q.num /\ q.id_to_string[q.string_to_id[s]] = s

(* What it numbered keeps its id.                                          *)
Extends(q, r) ==
  \A s \in DOMAIN q.string_to_id :
    s \in DOMAIN r.string_to_id /\ r.string_to_id[s] = q.string_to_id[s]

(* The strings of a sequence have been numbered.                           *)
KnownStrings(sequence, as, ls) ==
  /\ \A t \in DOMAIN sequence.items : \A c \in DOMAIN sequence.items[t] :
       sequence.items[t][c][1] \in DOMAIN as.string_to_id
  /\ \A t \in DOMAIN sequence.labels : sequence.labels[t] \in DOMAIN ls.string_to_id

DataSound ==
  /\ QuarkSound(attrs, AttributeStrings) /\ QuarkSound(labels, LabelNames)
  /\ attrs = NoQuark \/ attrs.num >= 0
  /\ labels = NoQuark \/ labels.num >= 0
  /\ appended \in Seq(Sequences)
  /\ data.instances = [n \in DOMAIN appended |-> Numbered(appended[n], attrs, labels)]
  /\ \A n \in DOMAIN appended : KnownStrings(appended[n], attrs, labels)

(* The parameters that an algorithm declared, the first of each name with  *)
(* what was last asked for.                                                *)
Settled(declared) ==
  [k \in DOMAIN declared |->
     [name |-> declared[k].name, type |-> declared[k].type,
      value |-> IF FindParam(declared, declared[k].name) = k /\ declared[k].name \in DOMAIN asked
                THEN Converted(declared[k].type, asked[declared[k].name]) ELSE declared[k].value]]

ParametersSound ==
  /\ \A n \in DOMAIN asked : asked[n] \in Texts
  /\ \/ tr = NoTrainer
     \/ /\ tr.algorithm \in DOMAIN Declared
        /\ tr = [algorithm |-> tr.algorithm, params |-> Settled(Declared[tr.algorithm])]

TrainerInv == DataSound /\ ParametersSound

-----------------------------------------------------------------------------
(* Quarks.                                                                 *)
LEMMA NewQuarkSound ==
  ASSUME NEW S
  PROVE  QuarkSound(NewQuark, S) /\ QuarkSound(NoQuark, S) /\ NewQuark.num = 0 /\ NewQuark # NoQuark
<1> DEFINE e == [s \in {} |-> 0]
           f == [n \in {} |-> NoString]
<1>1. e \in [{} -> Nat] /\ DOMAIN e = {}
  OBVIOUS
<1>2. 0 .. (0 - 1) = {} /\ f \in [{} -> S \cup {NoString}]
  OBVIOUS
<1>3. /\ NewQuark = [num |-> 0, max |-> 0, string_to_id |-> e, id_to_string |-> f]
      /\ NoQuark = [num |-> -1, max |-> 0, string_to_id |-> e, id_to_string |-> f]
  BY DEF NewQuark, NoQuark
<1> HIDE DEF e, f
<1> QED
  BY <1>1, <1>2, <1>3 DEF QuarkSound

(* The array of a quark that is full grows, and keeps what it has.         *)
LEMMA GrownSound ==
  ASSUME NEW S, NEW q, QuarkSound(q, S), q.num >= 0
  PROVE  /\ QuarkSound(Grown(q), S) /\ Grown(q).num = q.num /\ Grown(q).string_to_id = q.string_to_id
         /\ Grown(q).num < Grown(q).max
<1>1. CASE q.num < q.max
  BY <1>1 DEF Grown
<1>2. CASE ~(q.num < q.max)
  <2> DEFINE max == (q.max + 1) * 2
             wider == [n \in 0 .. max - 1 |-> IF n < q.max THEN q.id_to_string[n] ELSE NoString]
  <2>1. Grown(q) = [num |-> q.num, max |-> max, string_to_id |-> q.string_to_id, id_to_string |-> wider]
    BY <1>2 DEF Grown, QuarkSound
  <2>2. q.num \in Int /\ q.max \in Nat /\ q.num <= q.max /\ max \in Nat /\ q.max < max
    BY DEF QuarkSound
  <2>3. q.id_to_string \in [0 .. (q.max - 1) -> S \cup {NoString}]
    BY DEF QuarkSound
  <2>4. wider \in [0 .. (max - 1) -> S \cup {NoString}]
    <3> SUFFICES ASSUME NEW n \in 0 .. (max - 1), n < q.max PROVE q.id_to_string[n] \in S \cup {NoString}
      OBVIOUS
    <3> QED
      BY <2>2, <2>3
  <2>5. \A s \in DOMAIN q.string_to_id :
           q.string_to_id[s] < q.num /\ wider[q.string_to_id[s]] = s
    <3> SUFFICES ASSUME NEW s \in DOMAIN q.string_to_id
                 PROVE  q.string_to_id[s] < q.num /\ wider[q.string_to_id[s]] = s
      OBVIOUS
    <3>1. q.string_to_id[s] \in Nat /\ q.string_to_id[s] < q.num /\ q.id_to_string[q.string_to_id[s]] = s
      BY DEF QuarkSound
    <3> QED
      BY <2>2, <3>1
  <2>6. DOMAIN q.string_to_id \subseteq S /\ q.string_to_id \in [DOMAIN q.string_to_id -> Nat]
    BY DEF QuarkSound
  <2> HIDE DEF max, wider
  <2> QED
    BY <2>1, <2>2, <2>4, <2>5, <2>6 DEF QuarkSound
<1> QED
  BY <1>1, <1>2

(* A string that is asked for has an id from then on, and the ids that     *)
(* were given stay.                                                        *)
LEMMA QuarkGetSound ==
  ASSUME NEW S, NEW q, QuarkSound(q, S), q.num >= 0, NEW str \in S
  PROVE  LET r == QuarkGet(q, str)
         IN  QuarkSound(r, S) /\ r.num >= 0 /\ Extends(q, r) /\ str \in DOMAIN r.string_to_id
<1>1. CASE str \in DOMAIN q.string_to_id
  BY <1>1 DEF QuarkGet, Extends
<1>2. CASE str \notin DOMAIN q.string_to_id
  <2> DEFINE g == Grown(q)
             D == DOMAIN q.string_to_id
             ids == [s \in D \cup {str} |-> IF s = str THEN g.num ELSE g.string_to_id[s]]
             strings == [g.id_to_string EXCEPT ![g.num] = str]
             r == [num |-> g.num + 1, max |-> g.max, string_to_id |-> ids, id_to_string |-> strings]
  <2>1. /\ QuarkSound(g, S) /\ g.num = q.num /\ g.string_to_id = q.string_to_id /\ g.num < g.max
    BY GrownSound
  <2>2. QuarkGet(q, str) = r
    BY <1>2, <2>1 DEF QuarkGet, QuarkSound
  <2>3. g.num \in Nat /\ g.max \in Nat /\ g.num + 1 <= g.max
    BY <2>1 DEF QuarkSound
  <2>4. D \cup {str} \subseteq S
    BY <2>1 DEF QuarkSound
  <2>5. /\ \A s \in D : g.string_to_id[s] \in Nat /\ g.string_to_id[s] < g.num
                        /\ g.id_to_string[g.string_to_id[s]] = s
        /\ g.id_to_string \in [0 .. (g.max - 1) -> S \cup {NoString}]
    BY <2>1 DEF QuarkSound
  <2> HIDE DEF g
  <2>6. ids \in [D \cup {str} -> Nat] /\ DOMAIN ids = D \cup {str}
    BY <2>3, <2>5
  <2>7. strings \in [0 .. (g.max - 1) -> S \cup {NoString}]
    BY <2>3, <2>5
  <2>8. \A s \in D \cup {str} : ids[s] < g.num + 1 /\ strings[ids[s]] = s
    <3> SUFFICES ASSUME NEW s \in D \cup {str} PROVE ids[s] < g.num + 1 /\ strings[ids[s]] = s
      OBVIOUS
    <3>1. CASE s = str
      BY <2>3, <2>5, <3>1
    <3>2. CASE s # str
      <4>1. s \in D /\ ids[s] = g.string_to_id[s]
        BY <3>2
      <4>2. ids[s] # g.num /\ ids[s] \in 0 .. (g.max - 1)
        BY <2>3, <2>5, <4>1
      <4> QED
        BY <2>3, <2>5, <4>1, <4>2
    <3> QED
      BY <3>1, <3>2
  <2>9. \A s \in D : s \in D \cup {str} /\ ids[s] = q.string_to_id[s]
    BY <1>2, <2>1
  <2> HIDE DEF ids, strings
  <2>10. r.num = g.num + 1 /\ r.max = g.max /\ r.string_to_id = ids /\ r.id_to_string = strings
    OBVIOUS
  <2>11. QuarkSound(r, S)
    BY <2>3, <2>4, <2>6, <2>7, <2>8 DEF QuarkSound
  <2>12. Extends(q, r) /\ str \in DOMAIN r.string_to_id
    BY <2>6, <2>9 DEF Extends
  <2> HIDE DEF r
  <2> QED
    BY <2>2, <2>3, <2>10, <2>11, <2>12
<1> QED
  BY <1>1, <1>2

Quarks(S) ==
  { q \in [num : Nat, max : Nat, string_to_id : UNION { [D -> Nat] : D \in SUBSET S },
           id_to_string : UNION { [D -> S \cup {NoString}] : D \in SUBSET Nat }] : QuarkSound(q, S) }

(* The sound quarks, as a set.                                             *)
LEMMA QuarksAreSound ==
  ASSUME NEW S, NEW q
  PROVE  q \in Quarks(S) <=> QuarkSound(q, S) /\ q.num >= 0
<1>1. ASSUME QuarkSound(q, S), q.num >= 0 PROVE q \in Quarks(S)
  <2>1. q = [num |-> q.num, max |-> q.max, string_to_id |-> q.string_to_id, id_to_string |-> q.id_to_string]
    BY <1>1 DEF QuarkSound
  <2>2. q.num \in Nat /\ q.max \in Nat
    BY <1>1 DEF QuarkSound
  <2>3. q.string_to_id \in UNION { [D -> Nat] : D \in SUBSET S }
    BY <1>1 DEF QuarkSound
  <2>4. q.id_to_string \in UNION { [D -> S \cup {NoString}] : D \in SUBSET Nat }
    <3>1. 0 .. (q.max - 1) \in SUBSET Nat
      BY <2>2
    <3>2. q.id_to_string \in [0 .. (q.max - 1) -> S \cup {NoString}]
      BY <1>1 DEF QuarkSound
    <3> QED
      BY <3>1, <3>2
  <2> DEFINE I == UNION { [D -> Nat] : D \in SUBSET S }
             J == UNION { [D -> S \cup {NoString}] : D \in SUBSET Nat }
  <2> HIDE DEF I, J
  <2>5. q \in [num : Nat, max : Nat, string_to_id : I, id_to_string : J]
    BY <2>1, <2>2, <2>3, <2>4 DEF I, J
  <2> QED
    BY <1>1, <2>5 DEF Quarks, I, J
<1>2. ASSUME q \in Quarks(S) PROVE QuarkSound(q, S) /\ q.num >= 0
  <2> DEFINE I == UNION { [D -> Nat] : D \in SUBSET S }
             J == UNION { [D -> S \cup {NoString}] : D \in SUBSET Nat }
  <2>1. q \in [num : Nat, max : Nat, string_to_id : I, id_to_string : J] /\ QuarkSound(q, S)
    BY <1>2 DEF Quarks
  <2> HIDE DEF I, J
  <2> QED
    BY <2>1
<1> QED
  BY <1>1, <1>2

(* Strings asked for one after the other.                                  *)
Asks(it, q, strings) ==
  it = [s \in SUBSET (DOMAIN strings) |->
          IF s = {} THEN q ELSE QuarkGet(it[s \ {Max(s)}], strings[Max(s)])]

LEMMA AskingIsAFold ==
  ASSUME NEW q, NEW strings
  PROVE  AskedFor(q, strings) = (CHOOSE it : Asks(it, q, strings))[DOMAIN strings]
BY DEF AskedFor, FoldLeft, MapThenFoldSet, Asks

(* There is such a function of the strings asked for so far.               *)
LEMMA AskingEnds ==
  ASSUME NEW S, NEW q \in Quarks(S), NEW strings \in Seq(S)
  PROVE  Asks(CHOOSE it : Asks(it, q, strings), q, strings)
<1> DEFINE m == Len(strings)
           X == Quarks(S)
           step == [z \in X \X (1..m) |-> QuarkGet(z[1], strings[z[2]])]
<1>1. m \in Nat /\ DOMAIN strings = 1..m /\ \A i \in 1..m : strings[i] \in S
  BY ElementOfSeq, LenProperties
<1>2. \A r \in X, i \in 1..m : QuarkGet(r, strings[i]) \in X
  BY <1>1, QuarksAreSound, QuarkGetSound
<1> HIDE DEF m, X
<1>3. step \in [X \X (1..m) -> X] /\ \A r \in X, i \in 1..m : step[r, i] = QuarkGet(r, strings[i])
  BY <1>2
<1> HIDE DEF step
<1>4. q \in X
  BY DEF X
<1>5. PICK it \in [SUBSET (1..m) -> X] : Solves(it, m, q, step)
  BY <1>1, <1>3, <1>4, FoldExists
<1>6. ASSUME NEW s \in SUBSET (1..m)
      PROVE  it[s] = IF s = {} THEN q ELSE QuarkGet(it[s \ {Max(s)}], strings[Max(s)])
  <2>1. CASE s = {}
    BY <1>5, <2>1 DEF Solves
  <2>2. CASE s # {}
    <3>1. Max(s) \in 1..m /\ s \ {Max(s)} \in SUBSET (1..m)
      BY <1>1, <2>2, MaxOfPlaces
    <3>2. it[s] = step[it[s \ {Max(s)}], Max(s)] /\ it[s \ {Max(s)}] \in X
      BY <1>5, <2>2, <3>1 DEF Solves
    <3> QED
      BY <1>3, <2>2, <3>1, <3>2
  <2> QED
    BY <2>1, <2>2
<1>7. it = [s \in SUBSET (1..m) |-> it[s]]
  BY <1>5
<1>8. it = [s \in SUBSET (1..m) |-> IF s = {} THEN q ELSE QuarkGet(it[s \ {Max(s)}], strings[Max(s)])]
  BY <1>6, <1>7
<1>9. Asks(it, q, strings)
  BY <1>1, <1>8 DEF Asks
<1> QED
  BY <1>9

(* All of them are known then, and no id has changed.                      *)
LEMMA AskedForSound ==
  ASSUME NEW S, NEW q, QuarkSound(q, S), q.num >= 0, NEW strings \in Seq(S)
  PROVE  LET r == AskedFor(q, strings)
         IN  QuarkSound(r, S) /\ r.num >= 0 /\ Extends(q, r) /\ ToSet(strings) \subseteq DOMAIN r.string_to_id
<1> DEFINE m == Len(strings)
           it == CHOOSE f : Asks(f, q, strings)
           AskedSoFar(k) == /\ QuarkSound(it[1..k], S) /\ it[1..k].num >= 0 /\ Extends(q, it[1..k])
                            /\ \A i \in 1..k : strings[i] \in DOMAIN it[1..k].string_to_id
           U == { k \in 0..m : AskedSoFar(k) }
<1>1. m \in Nat /\ DOMAIN strings = 1..m /\ \A i \in 1..m : strings[i] \in S
  BY ElementOfSeq, LenProperties
<1>2. Asks(it, q, strings)
  BY AskingEnds, QuarksAreSound
<1>3. AskedFor(q, strings) = it[1..m]
  BY <1>1, AskingIsAFold
<1>4. it[1..0] = q
  <2>1. 1..0 = {} /\ {} \in SUBSET (DOMAIN strings)
    OBVIOUS
  <2> HIDE DEF it
  <2> QED
    BY <1>2, <2>1 DEF Asks
<1>5. ASSUME NEW k \in 0..(m - 1)
      PROVE  it[1..(k + 1)] = QuarkGet(it[1..k], strings[k + 1])
  <2>1. k \in Nat /\ 1..(k + 1) \in SUBSET (DOMAIN strings)
    BY <1>1
  <2>2. Max(1..(k + 1)) = k + 1 /\ 1..(k + 1) # {} /\ (1..(k + 1)) \ {k + 1} = 1..k
    BY <2>1, LastPlace
  <2> HIDE DEF it
  <2> QED
    BY <1>2, <2>1, <2>2 DEF Asks
<1> HIDE DEF it, m
<1>6. 0 \in U
  <2>1. Extends(q, q)
    BY DEF Extends
  <2> QED
    BY <1>1, <1>4, <2>1
<1>7. ASSUME NEW k \in 0..(m - 1), k \in U PROVE k + 1 \in U
  <2> DEFINE p == it[1..k]
             r == it[1..(k + 1)]
  <2>1. QuarkSound(p, S) /\ p.num >= 0 /\ Extends(q, p) /\ \A i \in 1..k : strings[i] \in DOMAIN p.string_to_id
    BY <1>7
  <2>2. k + 1 \in 1..m /\ strings[k + 1] \in S /\ r = QuarkGet(p, strings[k + 1])
    BY <1>1, <1>5
  <2> HIDE DEF p, r
  <2>3. QuarkSound(r, S) /\ r.num >= 0 /\ Extends(p, r) /\ strings[k + 1] \in DOMAIN r.string_to_id
    BY <2>1, <2>2, QuarkGetSound
  <2>4. Extends(q, r)
    BY <2>1, <2>3 DEF Extends
  <2>5. \A i \in 1..(k + 1) : strings[i] \in DOMAIN r.string_to_id
    <3>1. \A i \in 1..(k + 1) : i \in 1..k \/ i = k + 1
      OBVIOUS
    <3> QED
      BY <2>1, <2>3, <3>1 DEF Extends
  <2>6. k + 1 \in 0..m
    BY <1>1
  <2> QED
    BY <2>3, <2>4, <2>5, <2>6 DEF r
<1> HIDE DEF U
<1>8. m \in U
  BY <1>1, <1>6, <1>7, IntervalInduction
<1>9. AskedSoFar(m)
  BY <1>8 DEF U
<1> QED
  BY <1>1, <1>3, <1>9 DEF ToSet
-----------------------------------------------------------------------------
(* The data set.                                                           *)
LEMMA SequenceParts ==
  ASSUME NEW s \in Sequences
  PROVE  /\ s.items \in Seq(Seq(Contents)) /\ s.labels \in Seq(LabelNames) /\ s.group \in Groups
         /\ s = [items |-> s.items, labels |-> s.labels, group |-> s.group]
<1> DEFINE I == Seq(Seq(Contents))
           L == Seq(LabelNames)
<1>1. s \in [items : I, labels : L, group : Groups]
  BY TrainerAssumption
<1> HIDE DEF I, L
<1>2. /\ s.items \in I /\ s.labels \in L /\ s.group \in Groups
      /\ s = [items |-> s.items, labels |-> s.labels, group |-> s.group]
  BY <1>1
<1> QED
  BY <1>2 DEF I, L

(* The attributes of the items are all in one list.                        *)
LEMMA AttributesOfItems ==
  ASSUME NEW items \in Seq(Seq(Contents))
  PROVE  /\ Attributes(items) \in Seq(AttributeStrings)
         /\ \A t \in DOMAIN items : \A c \in DOMAIN items[t] : items[t][c][1] \in ToSet(Attributes(items))
<1> DEFINE rows == [t \in DOMAIN items |-> [c \in DOMAIN items[t] |-> items[t][c][1]]]
<1>1. Len(items) \in Nat /\ DOMAIN items = 1..Len(items)
      /\ \A t \in DOMAIN items : items[t] \in Seq(Contents)
  BY ElementOfSeq, LenProperties
<1>2. ASSUME NEW t \in DOMAIN items
      PROVE  [c \in DOMAIN items[t] |-> items[t][c][1]] \in Seq(AttributeStrings)
  <2>1. items[t] \in Seq(Contents)
    BY <1>1
  <2>2. Len(items[t]) \in Nat /\ DOMAIN items[t] = 1..Len(items[t])
    BY <2>1, LenProperties
  <2>3. \A c \in DOMAIN items[t] : items[t][c][1] \in AttributeStrings
    <3>1. \A c \in DOMAIN items[t] : items[t][c] \in Contents
      BY <2>1, <2>2, ElementOfSeq
    <3> QED
      BY <3>1 DEF AttributeStrings
  <2> QED
    BY <2>2, <2>3
<1>3. rows \in Seq(Seq(AttributeStrings))
  <2> DEFINE Y == Seq(AttributeStrings)
  <2>1. \A t \in DOMAIN items : rows[t] \in Y
    BY <1>2
  <2> HIDE DEF Y
  <2>2. rows = [t \in 1..Len(items) |-> rows[t]]
    BY <1>1
  <2> HIDE DEF rows
  <2>3. rows \in Seq(Y)
    BY <1>1, <2>1, <2>2
  <2> QED
    BY <2>3 DEF Y
<1>4. Attributes(items) = FlattenSeq(rows)
  BY DEF Attributes
<1>5. /\ FlattenSeq(rows) \in Seq(AttributeStrings)
      /\ ToSet(FlattenSeq(rows)) = UNION { ToSet(rows[t]) : t \in DOMAIN rows }
  <2> HIDE DEF rows
  <2> QED
    BY <1>3, FlattenOfAll
<1>6. ASSUME NEW t \in DOMAIN items, NEW c \in DOMAIN items[t]
      PROVE  items[t][c][1] \in ToSet(rows[t]) /\ t \in DOMAIN rows
  BY DEF ToSet
<1> HIDE DEF rows
<1> QED
  BY <1>4, <1>5, <1>6

(* Ids that do not change leave what was numbered as it is.                *)
LEMMA NumberedStays ==
  ASSUME NEW s, NEW as, NEW ls, NEW ar, NEW lr,
         KnownStrings(s, as, ls), Extends(as, ar), Extends(ls, lr)
  PROVE  KnownStrings(s, ar, lr) /\ Numbered(s, ar, lr) = Numbered(s, as, ls)
<1>1. KnownStrings(s, ar, lr)
  BY DEF KnownStrings, Extends
<1>2. \A t \in DOMAIN s.items : \A c \in DOMAIN s.items[t] :
         QuarkToId(ar, s.items[t][c][1]) = QuarkToId(as, s.items[t][c][1])
  BY DEF KnownStrings, Extends, QuarkToId
<1>3. \A t \in DOMAIN s.labels : QuarkToId(lr, s.labels[t]) = QuarkToId(ls, s.labels[t])
  BY DEF KnownStrings, Extends, QuarkToId
<1>4. \A t \in DOMAIN s.items :
         [c \in DOMAIN s.items[t] |-> [aid |-> QuarkToId(ar, s.items[t][c][1]), value |-> s.items[t][c][2]]]
           = [c \in DOMAIN s.items[t] |-> [aid |-> QuarkToId(as, s.items[t][c][1]), value |-> s.items[t][c][2]]]
  BY <1>2
<1>5. [t \in DOMAIN s.items |-> [c \in DOMAIN s.items[t] |->
          [aid |-> QuarkToId(ar, s.items[t][c][1]), value |-> s.items[t][c][2]]]]
        = [t \in DOMAIN s.items |-> [c \in DOMAIN s.items[t] |->
          [aid |-> QuarkToId(as, s.items[t][c][1]), value |-> s.items[t][c][2]]]]
  BY <1>4
<1>6. [t \in DOMAIN s.labels |-> QuarkToId(lr, s.labels[t])] = [t \in DOMAIN s.labels |-> QuarkToId(ls, s.labels[t])]
  BY <1>3
<1> QED
  BY <1>1, <1>5, <1>6 DEF Numbered

(* A quark that is made when there is none.                                *)
LEMMA CreatedSound ==
  ASSUME NEW S, NEW q, QuarkSound(q, S), q = NoQuark \/ q.num >= 0
  PROVE  QuarkSound(Created(q), S) /\ Created(q).num >= 0 /\ Extends(q, Created(q))
<1>1. QuarkSound(NewQuark, S) /\ NewQuark.num = 0
  BY NewQuarkSound
<1>2. \A r : Extends(NoQuark, r) /\ Extends(q, q)
  <2>1. DOMAIN [s \in {} |-> 0] = {}
    OBVIOUS
  <2>2. DOMAIN NoQuark.string_to_id = {}
    <3> DEFINE e == [s \in {} |-> 0]
    <3>1. NoQuark.string_to_id = e
      <4> HIDE DEF e
      <4> QED
        BY DEF NoQuark, NewQuark, e
    <3> QED
      BY <2>1, <3>1
  <2> QED
    BY <2>2 DEF Extends
<1> QED
  BY <1>1, <1>2 DEF Created

(* With the quarks that answered for its strings, an instance is read as   *)
(* the sequence that was appended.                                         *)
LEMMA ReadsBack ==
  ASSUME NEW s \in Sequences, KnownStrings(s, attrs, labels),
         QuarkSound(attrs, AttributeStrings), QuarkSound(labels, LabelNames)
  PROVE  /\ Read(Numbered(s, attrs, labels)) = s
         /\ \A t \in DOMAIN s.labels : QuarkToId(labels, s.labels[t]) \in 0 .. labels.num - 1
<1>1. \A str \in DOMAIN attrs.string_to_id : QuarkToString(attrs, QuarkToId(attrs, str)) = str
  BY DEF QuarkSound, QuarkToString, QuarkToId
<1>2. \A str \in DOMAIN labels.string_to_id :
         /\ QuarkToString(labels, QuarkToId(labels, str)) = str
         /\ QuarkToId(labels, str) \in 0 .. labels.num - 1
  BY DEF QuarkSound, QuarkToString, QuarkToId
<1> DEFINE items == [t \in DOMAIN s.items |-> [c \in DOMAIN s.items[t] |->
                       [aid |-> QuarkToId(attrs, s.items[t][c][1]), value |-> s.items[t][c][2]]]]
           ids == [t \in DOMAIN s.labels |-> QuarkToId(labels, s.labels[t])]
           n == Numbered(s, attrs, labels)
<1>3. n.items = items /\ n.labels = ids /\ n.group = s.group
  BY DEF Numbered
<1>4. /\ Len(s.items) \in Nat /\ DOMAIN s.items = 1..Len(s.items)
      /\ s.items = [t \in DOMAIN s.items |-> s.items[t]]
      /\ s.labels = [t \in DOMAIN s.labels |-> s.labels[t]]
      /\ \A t \in DOMAIN s.items : s.items[t] \in Seq(Contents)
  BY SequenceParts, LenProperties, ElementOfSeq
<1>5. ASSUME NEW t \in DOMAIN s.items
      PROVE  [c \in DOMAIN items[t] |-> << QuarkToString(attrs, items[t][c].aid), items[t][c].value >>] = s.items[t]
  <2>1. s.items[t] \in Seq(Contents)
    BY <1>4
  <2>2. s.items[t] = [c \in DOMAIN s.items[t] |-> s.items[t][c]]
    BY <2>1, LenProperties, SMTT(30)
  <2>3. ASSUME NEW c \in DOMAIN s.items[t]
        PROVE  << QuarkToString(attrs, items[t][c].aid), items[t][c].value >> = s.items[t][c]
    <3>1. s.items[t][c] \in Contents
      BY <2>1, LenProperties, ElementOfSeq
    <3>2. s.items[t][c] = << s.items[t][c][1], s.items[t][c][2] >>
      BY <3>1, TrainerAssumption
    <3>3. QuarkToString(attrs, QuarkToId(attrs, s.items[t][c][1])) = s.items[t][c][1]
      BY <1>1 DEF KnownStrings
    <3>4. items[t][c].aid = QuarkToId(attrs, s.items[t][c][1]) /\ items[t][c].value = s.items[t][c][2]
      OBVIOUS
    <3> QED
      BY <3>2, <3>3, <3>4
  <2>4. DOMAIN items[t] = DOMAIN s.items[t]
    OBVIOUS
  <2> HIDE DEF items
  <2> QED
    BY <2>2, <2>3, <2>4
<1>6. [t \in DOMAIN n.items |-> [c \in DOMAIN n.items[t] |->
          << QuarkToString(attrs, n.items[t][c].aid), n.items[t][c].value >>]] = s.items
  <2>1. DOMAIN items = DOMAIN s.items
    OBVIOUS
  <2> HIDE DEF items, n
  <2>2. [t \in DOMAIN n.items |-> [c \in DOMAIN n.items[t] |->
          << QuarkToString(attrs, n.items[t][c].aid), n.items[t][c].value >>]]
          = [t \in DOMAIN s.items |-> s.items[t]]
    BY <1>3, <1>5, <2>1
  <2> QED
    BY <1>4, <2>2
<1>7. [t \in DOMAIN n.labels |-> QuarkToString(labels, n.labels[t])] = s.labels
  <2>1. \A t \in DOMAIN s.labels : QuarkToString(labels, ids[t]) = s.labels[t]
    BY <1>2 DEF KnownStrings
  <2>2. DOMAIN ids = DOMAIN s.labels
    OBVIOUS
  <2> HIDE DEF ids
  <2> QED
    BY <1>3, <1>4, <2>1, <2>2
<1>8. \A t \in DOMAIN s.labels : QuarkToId(labels, s.labels[t]) \in 0 .. labels.num - 1
  BY <1>2, SMTT(30) DEF KnownStrings
<1> HIDE DEF n
<1>9. Read(n) = [items |-> s.items, labels |-> s.labels, group |-> s.group]
  BY <1>3, <1>6, <1>7 DEF Read
<1> QED
  BY <1>8, <1>9, SequenceParts DEF n

(* What is appended is read back, and so is what was appended before.      *)
LEMMA AppendSound ==
  ASSUME DataSound, NEW s \in Sequences, TrainerAppend(s)
  PROVE  DataSound'
<1> DEFINE asked1 == Created(attrs)
           asked2 == Created(labels)
           A == Attributes(s.items)
<1>1. A \in Seq(AttributeStrings) /\ s.labels \in Seq(LabelNames)
      /\ \A t \in DOMAIN s.items : \A c \in DOMAIN s.items[t] : s.items[t][c][1] \in ToSet(A)
  BY SequenceParts, AttributesOfItems
<1>2. /\ QuarkSound(asked1, AttributeStrings) /\ asked1.num >= 0 /\ Extends(attrs, asked1)
      /\ QuarkSound(asked2, LabelNames) /\ asked2.num >= 0 /\ Extends(labels, asked2)
  BY CreatedSound DEF DataSound
<1>3. attrs' = AskedFor(asked1, A) /\ labels' = AskedFor(asked2, s.labels)
  BY DEF TrainerAppend
<1> HIDE DEF asked1, asked2, A
<1>4. /\ QuarkSound(attrs', AttributeStrings) /\ attrs'.num >= 0 /\ Extends(asked1, attrs')
      /\ ToSet(A) \subseteq DOMAIN attrs'.string_to_id
  BY <1>1, <1>2, <1>3, AskedForSound
<1>5. /\ QuarkSound(labels', LabelNames) /\ labels'.num >= 0 /\ Extends(asked2, labels')
      /\ ToSet(s.labels) \subseteq DOMAIN labels'.string_to_id
  BY <1>1, <1>2, <1>3, AskedForSound
<1>6. Extends(attrs, attrs') /\ Extends(labels, labels')
  BY <1>2, <1>4, <1>5 DEF Extends
<1>7. KnownStrings(s, attrs', labels')
  BY <1>1, <1>4, <1>5 DEF KnownStrings, ToSet
<1>8. /\ appended \in Seq(Sequences) /\ Len(appended) \in Nat /\ DOMAIN appended = 1..Len(appended)
      /\ \A n \in DOMAIN appended : appended[n] \in Sequences
      /\ data.instances = [n \in DOMAIN appended |-> Numbered(appended[n], attrs, labels)]
  BY ElementOfSeq, LenProperties DEF DataSound
<1>9. \A n \in DOMAIN appended :
         /\ KnownStrings(appended[n], attrs', labels')
         /\ Numbered(appended[n], attrs', labels') = Numbered(appended[n], attrs, labels)
  BY <1>6, NumberedStays DEF DataSound
<1>10. data.instances = [n \in DOMAIN appended |-> Numbered(appended[n], attrs', labels')]
  BY <1>8, <1>9
<1>11. Len(s.items) = Len(s.labels) /\ data' = DataAppend(data, Numbered(s, attrs', labels'))
       /\ appended' = IF s.items = << >> THEN appended ELSE Append(appended, s)
  BY DEF TrainerAppend
<1>12. CASE s.items = << >>
  <2>1. Numbered(s, attrs', labels').items = << >>
    <3>1. DOMAIN s.items = {}
      BY <1>12
    <3> QED
      BY <1>12, <3>1 DEF Numbered
  <2>2. data' = data /\ appended' = appended
    BY <1>11, <1>12, <2>1 DEF DataAppend
  <2> QED
    BY <1>4, <1>5, <1>8, <1>9, <1>10, <2>2 DEF DataSound
<1>13. CASE s.items # << >>
  <2> DEFINE n == Numbered(s, attrs', labels')
  <2>1. n.items # << >>
    <3>1. s.items \in Seq(Seq(Contents)) /\ s.items # << >>
      BY <1>13, SequenceParts
    <3>2. Len(s.items) \in Nat /\ DOMAIN s.items = 1..Len(s.items) /\ Len(s.items) # 0
      BY <3>1, LenProperties, EmptySeq
    <3>3. DOMAIN n.items = DOMAIN s.items
      BY DEF Numbered
    <3> QED
      BY <3>2, <3>3
  <2>2. data'.instances = Append(data.instances, n) /\ appended' = Append(appended, s)
    BY <1>11, <1>13, <2>1 DEF DataAppend
  <2> HIDE DEF n
  <2>3. /\ appended' \in Seq(Sequences) /\ DOMAIN appended' = 1..(Len(appended) + 1)
        /\ \A k \in 1..Len(appended) : appended'[k] = appended[k]
        /\ appended'[Len(appended) + 1] = s
    BY <1>8, <2>2, AppendProperties
  <2>4. data'.instances = [k \in 1..(Len(appended) + 1) |-> Numbered(appended'[k], attrs', labels')]
    <3> DEFINE N == { Numbered(x, attrs', labels') : x \in Sequences }
               given == data.instances
    <3>1. given \in Seq(N) /\ Len(given) = Len(appended) /\ n \in N
      BY <1>8, <1>10 DEF n
    <3>2. /\ Append(given, n) = [k \in 1..(Len(appended) + 1) |-> Append(given, n)[k]]
          /\ \A k \in 1..Len(appended) : Append(given, n)[k] = given[k]
          /\ Append(given, n)[Len(appended) + 1] = n
      <4> HIDE DEF N, given
      <4>1. /\ Append(given, n) \in Seq(N) /\ Len(Append(given, n)) = Len(given) + 1
            /\ \A k \in 1..Len(given) : Append(given, n)[k] = given[k]
            /\ Append(given, n)[Len(given) + 1] = n
        BY <3>1, AppendProperties
      <4> DEFINE grown == Append(given, n)
      <4>2. grown = [k \in 1..Len(grown) |-> grown[k]]
        <5>1. grown \in Seq(N)
          BY <4>1
        <5> HIDE DEF grown
        <5> QED
          BY <5>1, LenProperties
      <4> QED
        BY <3>1, <4>1, <4>2
    <3>3. \A k \in 1..Len(appended) : given[k] = Numbered(appended'[k], attrs', labels')
      BY <1>8, <1>10, <2>3
    <3>4. \A k \in 1..(Len(appended) + 1) : k \in 1..Len(appended) \/ k = Len(appended) + 1
      BY <1>8
    <3>5. \A k \in 1..(Len(appended) + 1) : Append(given, n)[k] = Numbered(appended'[k], attrs', labels')
      BY <2>3, <3>2, <3>3, <3>4 DEF n
    <3> HIDE DEF given
    <3>6. [k \in 1..(Len(appended) + 1) |-> Append(given, n)[k]]
            = [k \in 1..(Len(appended) + 1) |-> Numbered(appended'[k], attrs', labels')]
      BY <3>5
    <3> QED
      BY <2>2, <3>2, <3>6 DEF given
  <2>5. \A k \in 1..(Len(appended) + 1) : KnownStrings(appended'[k], attrs', labels')
    <3>1. \A k \in 1..(Len(appended) + 1) : k \in 1..Len(appended) \/ k = Len(appended) + 1
      BY <1>8
    <3> QED
      BY <1>7, <1>8, <1>9, <2>3, <3>1
  <2> QED
    BY <1>4, <1>5, <2>3, <2>4, <2>5 DEF DataSound
<1> QED
  BY <1>12, <1>13

(* No call spoils the data set.                                            *)
LEMMA DataKept == DataSound /\ [TrainerNext]_trainerVars => DataSound'
<1> SUFFICES ASSUME DataSound, [TrainerNext]_trainerVars PROVE DataSound'
  OBVIOUS
<1>1. ASSUME NEW s \in Sequences, TrainerAppend(s) PROVE DataSound'
  BY <1>1, AppendSound
<1>2. ASSUME NEW s \in Sequences, TrainerAppendThrows(s) PROVE DataSound'
  <2>1. attrs' = Created(attrs) /\ labels' = Created(labels) /\ data' = data /\ appended' = appended
    BY <1>2 DEF TrainerAppendThrows
  <2>2. /\ QuarkSound(attrs', AttributeStrings) /\ attrs'.num >= 0 /\ Extends(attrs, attrs')
        /\ QuarkSound(labels', LabelNames) /\ labels'.num >= 0 /\ Extends(labels, labels')
    BY <2>1, CreatedSound DEF DataSound
  <2>3. \A n \in DOMAIN appended :
           /\ KnownStrings(appended[n], attrs', labels')
           /\ Numbered(appended[n], attrs', labels') = Numbered(appended[n], attrs, labels)
    BY <2>2, NumberedStays DEF DataSound
  <2>4. data.instances = [n \in DOMAIN appended |-> Numbered(appended[n], attrs, labels)] /\ appended \in Seq(Sequences)
    BY DEF DataSound
  <2>5. data'.instances = [n \in DOMAIN appended' |-> Numbered(appended'[n], attrs', labels')]
    BY <2>1, <2>3, <2>4
  <2> QED
    BY <2>1, <2>2, <2>3, <2>4, <2>5 DEF DataSound
<1>3. ASSUME TrainerClear PROVE DataSound'
  <2>1. attrs' = NoQuark /\ labels' = NoQuark /\ data'.instances = << >> /\ appended' = << >>
    BY <1>3 DEF TrainerClear, NoData
  <2>2. DOMAIN << >> = {} /\ << >> \in Seq(Sequences) /\ << >> = [n \in {} |-> Numbered(<< >>[n], NoQuark, NoQuark)]
    OBVIOUS
  <2>3. QuarkSound(NoQuark, AttributeStrings) /\ QuarkSound(NoQuark, LabelNames)
    BY NewQuarkSound
  <2> QED
    BY <2>1, <2>2, <2>3 DEF DataSound
<1>4. ASSUME UNCHANGED dataVars PROVE DataSound'
  BY <1>4 DEF dataVars, DataSound
<1> QED
  BY <1>1, <1>2, <1>3, <1>4 DEF TrainerNext, trainerVars, TrainerSelect, TrainerSet, TrainerGet, TrainerThrows,
                               TrainerParams, TrainerTrain
-----------------------------------------------------------------------------
(* The parameters.                                                         *)
LEMMA FoundFirst ==
  ASSUME NEW params, Len(params) \in Nat, NEW name
  PROVE  /\ FindParam(params, name) \in 0..Len(params)
         /\ FindParam(params, name) # 0 =>
              /\ params[FindParam(params, name)].name = name
              /\ \A i \in 1..Len(params) : params[i].name = name => FindParam(params, name) <= i
         /\ FindParam(params, name) = 0 => \A i \in 1..Len(params) : params[i].name # name
<1> DEFINE I == { i \in 1..Len(params) : params[i].name = name }
<1>1. FindParam(params, name) = IF I # {} THEN Min(I) ELSE 0
  BY DEF FindParam, SelectInSeq
<1>2. I # {} => Min(I) \in I /\ \A i \in I : Min(I) <= i
  <2>1. I \in SUBSET Nat
    OBVIOUS
  <2> HIDE DEF I
  <2> QED
    BY <2>1, LeastNumber DEF Min
<1>3. CASE I = {}
  BY <1>1, <1>3
<1>4. CASE I # {}
  <2>1. FindParam(params, name) \in I /\ \A i \in I : FindParam(params, name) <= i
    BY <1>1, <1>2, <1>4
  <2>2. FindParam(params, name) \in 1..Len(params) /\ params[FindParam(params, name)].name = name
    BY <2>1
  <2>3. \A i \in 1..Len(params) : params[i].name = name => FindParam(params, name) <= i
    BY <2>1
  <2> QED
    BY <2>2, <2>3
<1> QED
  BY <1>3, <1>4

LEMMA FoundAlike ==
  ASSUME NEW params, NEW others, Len(params) \in Nat, Len(others) = Len(params),
         \A i \in 1..Len(params) : others[i].name = params[i].name, NEW name
  PROVE  FindParam(others, name) = FindParam(params, name)
<1> DEFINE I == { i \in 1..Len(params) : params[i].name = name }
           J == { i \in 1..Len(others) : others[i].name = name }
<1>1. I = J
  OBVIOUS
<1> QED
  BY <1>1 DEF FindParam, SelectInSeq

(* Parameters added one after the other.                                   *)
Declare(params, declared, i) == ParamsAdd(params, declared[i].name, declared[i].type, declared[i].value)

Declares(it, declared) ==
  it = [s \in SUBSET (DOMAIN declared) |->
          IF s = {} THEN << >> ELSE Declare(it[s \ {Max(s)}], declared, Max(s))]

LEMMA DeclaringIsAFold ==
  ASSUME NEW a
  PROVE  NewParams(a) = (CHOOSE it : Declares(it, Declared[a]))[DOMAIN Declared[a]]
BY DEF NewParams, FoldLeft, MapThenFoldSet, Declares, Declare

AsDeclared(declared, m) ==
  [k \in 1..m |-> [name |-> declared[k].name, type |-> declared[k].type, value |-> declared[k].value]]

LEMMA DeclaredOneMore ==
  ASSUME NEW declared, NEW m \in Nat
  PROVE  Declare(AsDeclared(declared, m), declared, m + 1) = AsDeclared(declared, m + 1)
<1> DEFINE par(k) == [name |-> declared[k].name, type |-> declared[k].type, value |-> declared[k].value]
           P == { par(k) : k \in 1..(m + 1) }
           s == AsDeclared(declared, m)
           p == par(m + 1)
           t == AsDeclared(declared, m + 1)
<1>1. s \in Seq(P) /\ Len(s) = m /\ p \in P /\ \A k \in 1..m : s[k] = par(k)
  <2>1. m + 1 \in 1..(m + 1) /\ \A k \in 1..m : k \in 1..(m + 1)
    OBVIOUS
  <2>2. s = [k \in 1..m |-> par(k)]
    BY DEF AsDeclared
  <2>3. \A k \in 1..m : par(k) \in P
    BY <2>1
  <2>4. p \in P
    BY <2>1
  <2> HIDE DEF P, par
  <2> QED
    BY <2>2, <2>3, <2>4
<1>2. t = [k \in 1..(m + 1) |-> par(k)]
  BY DEF AsDeclared
<1> HIDE DEF P, par, s, t, p
<1>3. /\ Append(s, p) \in Seq(P) /\ Len(Append(s, p)) = m + 1
      /\ \A k \in 1..m : Append(s, p)[k] = s[k]
      /\ Append(s, p)[m + 1] = p
  BY <1>1, AppendProperties
<1> DEFINE grown == Append(s, p)
<1>4. grown = [k \in 1..(m + 1) |-> grown[k]]
  <2>1. grown \in Seq(P) /\ Len(grown) = m + 1
    BY <1>3
  <2> HIDE DEF grown
  <2> QED
    BY <2>1, LenProperties
<1>5. \A k \in 1..(m + 1) : grown[k] = par(k)
  <2>1. \A k \in 1..(m + 1) : k \in 1..m \/ k = m + 1
    OBVIOUS
  <2> QED
    BY <1>1, <1>3, <2>1 DEF p
<1> HIDE DEF grown
<1>6. grown = t
  BY <1>2, <1>4, <1>5
<1> QED
  BY <1>6 DEF grown, Declare, ParamsAdd, s, p, t, par

LEMMA DeclaringEnds ==
  ASSUME NEW declared, Len(declared) \in Nat, DOMAIN declared = 1..Len(declared)
  PROVE  Declares(CHOOSE it : Declares(it, declared), declared)
<1> DEFINE m == Len(declared)
           par(i) == [name |-> declared[i].name, type |-> declared[i].type, value |-> declared[i].value]
           P == { par(i) : i \in 1..m }
           X == Seq(P)
           step == [z \in X \X (1..m) |-> Declare(z[1], declared, z[2])]
<1>1. \A x \in X, i \in 1..m : Declare(x, declared, i) \in X
  <2> SUFFICES ASSUME NEW x \in X, NEW i \in 1..m PROVE Declare(x, declared, i) \in X
    OBVIOUS
  <2>1. par(i) \in P
    OBVIOUS
  <2>2. Declare(x, declared, i) = Append(x, par(i))
    BY DEF Declare, ParamsAdd
  <2> HIDE DEF par, P
  <2> QED
    BY <2>1, <2>2, AppendProperties
<1>2. << >> \in X
  OBVIOUS
<1>3. m \in Nat /\ DOMAIN declared = 1..m
  OBVIOUS
<1> HIDE DEF m, X
<1>4. step \in [X \X (1..m) -> X] /\ \A x \in X, i \in 1..m : step[x, i] = Declare(x, declared, i)
  BY <1>1
<1> HIDE DEF step
<1>5. PICK it \in [SUBSET (1..m) -> X] : Solves(it, m, << >>, step)
  BY <1>2, <1>3, <1>4, FoldExists
<1>6. ASSUME NEW s \in SUBSET (1..m)
      PROVE  it[s] = IF s = {} THEN << >> ELSE Declare(it[s \ {Max(s)}], declared, Max(s))
  <2>1. CASE s = {}
    BY <1>5, <2>1 DEF Solves
  <2>2. CASE s # {}
    <3>1. Max(s) \in 1..m /\ s \ {Max(s)} \in SUBSET (1..m)
      BY <1>3, <2>2, MaxOfPlaces
    <3>2. it[s] = step[it[s \ {Max(s)}], Max(s)] /\ it[s \ {Max(s)}] \in X
      BY <1>5, <2>2, <3>1 DEF Solves
    <3> QED
      BY <1>4, <2>2, <3>1, <3>2
  <2> QED
    BY <2>1, <2>2
<1>7. it = [s \in SUBSET (1..m) |-> it[s]]
  BY <1>5
<1>8. it = [s \in SUBSET (1..m) |-> IF s = {} THEN << >> ELSE Declare(it[s \ {Max(s)}], declared, Max(s))]
  BY <1>6, <1>7
<1>9. Declares(it, declared)
  BY <1>3, <1>8 DEF Declares
<1> QED
  BY <1>9

LEMMA NewAreDeclared ==
  ASSUME NEW a \in DOMAIN Declared
  PROVE  NewParams(a) = AsDeclared(Declared[a], Len(Declared[a]))
<1> DEFINE D == Declared[a]
           m == Len(D)
           it == CHOOSE f : Declares(f, D)
           U == { k \in 0..m : it[1..k] = AsDeclared(D, k) }
<1>1. m \in Nat /\ DOMAIN D = 1..m
  BY TrainerAssumption
<1>2. Declares(it, D)
  BY <1>1, DeclaringEnds
<1>3. NewParams(a) = it[1..m]
  BY <1>1, DeclaringIsAFold
<1> HIDE DEF it, D, m
<1>4. 0 \in U
  <2>1. 1..0 = {} /\ {} \in SUBSET (DOMAIN D)
    OBVIOUS
  <2>2. it[1..0] = << >>
    BY <1>2, <2>1 DEF Declares
  <2>3. AsDeclared(D, 0) = << >>
    BY <2>1 DEF AsDeclared
  <2> QED
    BY <1>1, <2>2, <2>3
<1>5. ASSUME NEW k \in 0..(m - 1), k \in U PROVE k + 1 \in U
  <2>1. k \in Nat /\ 1..(k + 1) \in SUBSET (DOMAIN D) /\ k + 1 \in 0..m
    BY <1>1
  <2>2. Max(1..(k + 1)) = k + 1 /\ 1..(k + 1) # {} /\ (1..(k + 1)) \ {k + 1} = 1..k
    BY <2>1, LastPlace
  <2>3. it[1..(k + 1)] = Declare(it[1..k], D, k + 1)
    BY <1>2, <2>1, <2>2 DEF Declares
  <2>4. it[1..k] = AsDeclared(D, k)
    BY <1>5
  <2>5. it[1..(k + 1)] = AsDeclared(D, k + 1)
    BY <2>1, <2>3, <2>4, DeclaredOneMore
  <2> QED
    BY <2>1, <2>5
<1> HIDE DEF U
<1>6. m \in U
  <2>1. 0..m \subseteq U
    BY <1>1, <1>4, <1>5, IntervalInduction
  <2> QED
    BY <1>1, <2>1
<1> QED
  BY <1>3, <1>6 DEF U, D, m

(* Set changes the parameter of the name, and no other.                    *)
LEMMA SelectSettles ==
  ASSUME NEW a \in DOMAIN Declared, TrainerSelect(a)
  PROVE  ParametersSound'
<1>1. tr' = [algorithm |-> a, params |-> NewParams(a)] /\ asked' = [n \in {} |-> 0]
  BY DEF TrainerSelect
<1>2. DOMAIN asked' = {}
  BY <1>1
<1>3. NewParams(a) = Settled(Declared[a])'
  <2>1. DOMAIN Declared[a] = 1..Len(Declared[a])
    BY TrainerAssumption
  <2> QED
    BY <1>2, <2>1, NewAreDeclared DEF AsDeclared, Settled
<1>4. tr'.algorithm = a /\ tr'.params = NewParams(a)
  BY <1>1
<1> QED
  BY <1>1, <1>2, <1>3, <1>4 DEF ParametersSound

LEMMA SettledFinds ==
  ASSUME NEW a \in DOMAIN Declared, NEW name
  PROVE  FindParam(Settled(Declared[a]), name) = FindParam(Declared[a], name)
<1> DEFINE D == Declared[a]
           S == Settled(D)
<1>1. Len(D) \in Nat /\ DOMAIN D = 1..Len(D)
  BY TrainerAssumption
<1> HIDE DEF D
<1>2. DOMAIN S = 1..Len(D) /\ \A i \in 1..Len(D) : S[i].name = D[i].name
  BY <1>1 DEF Settled
<1>3. Len(S) = Len(D)
  <2> HIDE DEF S
  <2> QED
    BY <1>1, <1>2
<1> HIDE DEF S
<1>4. FindParam(S, name) = FindParam(D, name)
  BY <1>1, <1>2, <1>3, FoundAlike
<1> QED
  BY <1>4 DEF S, D

LEMMA SettledAgain ==
  ASSUME NEW a \in DOMAIN Declared, NEW name, NEW text, NEW i, i = FindParam(Declared[a], name), i # 0,
         asked' = [n \in DOMAIN asked \cup {name} |-> IF n = name THEN text ELSE asked[n]]
  PROVE  [Settled(Declared[a]) EXCEPT ![i].value = Converted(Settled(Declared[a])[i].type, text)]
           = Settled(Declared[a])'
<1> DEFINE D == Declared[a]
           S == Settled(D)
           next == Settled(D)'
           value == Converted(S[i].type, text)
<1>1. Len(D) \in Nat /\ DOMAIN D = 1..Len(D)
  BY TrainerAssumption
<1>2. i \in 1..Len(D) /\ D[i].name = name /\ \A k \in 1..Len(D) : D[k].name = name => i <= k
  BY <1>1, FoundFirst
<1>3. DOMAIN S = 1..Len(D) /\ DOMAIN next = 1..Len(D) /\ next = [k \in 1..Len(D) |-> next[k]]
  BY <1>1 DEF Settled
<1>4. ASSUME NEW k \in 1..Len(D), k # i PROVE S[k] = next[k]
  <2>1. FindParam(D, D[k].name) = k => D[k].name # name
    BY <1>1, <1>2, <1>4, FoundFirst
  <2>2. FindParam(D, D[k].name) = k =>
          /\ D[k].name \in DOMAIN asked <=> D[k].name \in DOMAIN asked'
          /\ D[k].name \in DOMAIN asked => asked'[D[k].name] = asked[D[k].name]
    BY <2>1
  <2> DEFINE was == IF FindParam(D, D[k].name) = k /\ D[k].name \in DOMAIN asked
                    THEN Converted(D[k].type, asked[D[k].name]) ELSE D[k].value
             is == IF FindParam(D, D[k].name) = k /\ D[k].name \in DOMAIN asked'
                   THEN Converted(D[k].type, asked'[D[k].name]) ELSE D[k].value
  <2>3. was = is
    BY <2>2
  <2>4. /\ S[k] = [name |-> D[k].name, type |-> D[k].type, value |-> was]
        /\ next[k] = [name |-> D[k].name, type |-> D[k].type, value |-> is]
    BY <1>1 DEF Settled
  <2> HIDE DEF was, is, S, next
  <2> QED
    BY <2>3, <2>4
<1>5. [S[i] EXCEPT !.value = value] = next[i]
  <2>1. FindParam(D, D[i].name) = i /\ D[i].name \in DOMAIN asked' /\ asked'[D[i].name] = text
    BY <1>2
  <2>2. S[i].type = D[i].type
    BY <1>1, <1>2 DEF Settled
  <2>3. next[i] = [name |-> D[i].name, type |-> D[i].type, value |-> value]
    BY <1>1, <1>2, <2>1, <2>2 DEF Settled
  <2>4. \E v : S[i] = [name |-> D[i].name, type |-> D[i].type, value |-> v]
    BY <1>1, <1>2 DEF Settled
  <2> HIDE DEF S, D, next, value
  <2> QED
    BY <2>3, <2>4
<1>6. [S EXCEPT ![i].value = value] = next
  <2> HIDE DEF S, D, next, value
  <2> QED
    BY <1>2, <1>3, <1>4, <1>5
<1> QED
  BY <1>6

(* Setting a parameter leaves the others as they were.                     *)
LEMMA SetSettles ==
  ASSUME ParametersSound, NEW name, NEW text \in Texts, TrainerSet(name, text)
  PROVE  ParametersSound'
<1>1. tr # NoTrainer /\ tr.algorithm \in DOMAIN Declared
      /\ tr = [algorithm |-> tr.algorithm, params |-> Settled(Declared[tr.algorithm])]
  BY DEF ParametersSound, TrainerSet
<1>2. PICK a \in DOMAIN Declared : a = tr.algorithm
  BY <1>1
<1> DEFINE S == Settled(Declared[a])
           i == FindParam(Declared[a], name)
           value == Converted(S[i].type, text)
           next == Settled(Declared[a])'
<1>3. tr = [algorithm |-> a, params |-> S] /\ tr.params = S
  <2> HIDE DEF S
  <2>1. tr = [algorithm |-> a, params |-> S]
    BY <1>1, <1>2 DEF S
  <2> QED
    BY <2>1
<1>4. FindParam(tr.params, name) = i
  BY <1>3, SettledFinds
<1>5. i # 0
  BY <1>4 DEF TrainerSet, Has
<1>6. asked' = [n \in DOMAIN asked \cup {name} |-> IF n = name THEN text ELSE asked[n]]
  BY DEF TrainerSet
<1>7. [S EXCEPT ![i].value = value] = next
  BY <1>5, <1>6, SettledAgain
<1>8. tr' = [algorithm |-> a, params |-> next]
  <2>1. tr' = [tr EXCEPT !.params = ParamsSet(tr.params, name, text)]
    BY DEF TrainerSet
  <2>2. ParamsSet(tr.params, name, text) = [S EXCEPT ![i].value = value]
    BY <1>3, <1>4 DEF ParamsSet
  <2> HIDE DEF S, i, value, next
  <2> QED
    BY <1>3, <1>7, <2>1, <2>2
<1>9. \A n \in DOMAIN asked' : asked'[n] \in Texts
  BY <1>6 DEF ParametersSound
<1>10. ASSUME tr'.algorithm = a PROVE Settled(Declared[tr.algorithm])' = next
  BY <1>10 DEF Settled
<1>11. tr'.algorithm = a
  <2> HIDE DEF next
  <2> QED
    BY <1>8
<1>12. tr' = [algorithm |-> tr'.algorithm, params |-> Settled(Declared[tr.algorithm])']
  BY <1>8, <1>10, <1>11
<1> QED
  BY <1>9, <1>11, <1>12 DEF ParametersSound

(* No call spoils the parameters.                                          *)
LEMMA ParametersKept == ParametersSound /\ [TrainerNext]_trainerVars => ParametersSound'
<1> SUFFICES ASSUME ParametersSound, [TrainerNext]_trainerVars PROVE ParametersSound'
  OBVIOUS
<1>1. ASSUME NEW a, TrainerSelect(a) PROVE ParametersSound'
  <2>1. CASE a \in DOMAIN Declared
    BY <1>1, <2>1, SelectSettles
  <2>2. CASE a \notin DOMAIN Declared
    <3>1. tr' = NoTrainer /\ DOMAIN asked' = {}
      BY <1>1, <2>2 DEF TrainerSelect
    <3> QED
      BY <3>1 DEF ParametersSound
  <2> QED
    BY <2>1, <2>2
<1>2. ASSUME NEW name, NEW text \in Texts, TrainerSet(name, text) PROVE ParametersSound'
  BY <1>2, SetSettles
<1>3. ASSUME UNCHANGED trVars PROVE ParametersSound'
  BY <1>3 DEF trVars, ParametersSound, Settled
<1> QED
  BY <1>1, <1>2, <1>3 DEF TrainerNext, trainerVars, TrainerAppend, TrainerAppendThrows, TrainerClear, TrainerGet,
                          TrainerThrows, TrainerParams, TrainerTrain

(* What a parameter of a name holds is what it should.                     *)
LEMMA SettledAsExpected ==
  ASSUME ParametersSound, tr # NoTrainer, NEW name
  PROVE  /\ tr.algorithm \in DOMAIN Declared
         /\ FindParam(tr.params, name) = FindParam(Declared[tr.algorithm], name)
         /\ FindParam(tr.params, name) # 0 =>
              /\ tr.params[FindParam(tr.params, name)].type
                   = Declared[tr.algorithm][FindParam(Declared[tr.algorithm], name)].type
              /\ tr.params[FindParam(tr.params, name)].value = Expected(name)
<1>1. tr.algorithm \in DOMAIN Declared
      /\ tr = [algorithm |-> tr.algorithm, params |-> Settled(Declared[tr.algorithm])]
  BY DEF ParametersSound
<1> DEFINE D == Declared[tr.algorithm]
           S == Settled(D)
           i == FindParam(D, name)
<1>2. tr.params = S
  <2> HIDE DEF S
  <2>1. tr = [algorithm |-> tr.algorithm, params |-> S]
    BY <1>1 DEF S
  <2> QED
    BY <2>1
<1>3. FindParam(tr.params, name) = i
  BY <1>1, <1>2, SettledFinds
<1>4. Len(D) \in Nat /\ DOMAIN D = 1..Len(D)
  BY <1>1, TrainerAssumption
<1>5. ASSUME i # 0
      PROVE  S[i].type = D[i].type /\ S[i].value = Expected(name)
  <2>1. i \in 1..Len(D) /\ D[i].name = name
    BY <1>4, <1>5, FoundFirst
  <2>2. FindParam(D, D[i].name) = i
    BY <2>1
  <2>3. S[i] = [name |-> D[i].name, type |-> D[i].type,
                value |-> IF name \in DOMAIN asked THEN Converted(D[i].type, asked[name]) ELSE D[i].value]
    BY <1>4, <2>1, <2>2 DEF Settled
  <2>4. Expected(name) = IF name \in DOMAIN asked THEN Converted(D[i].type, asked[name]) ELSE D[i].value
    BY DEF Expected
  <2> HIDE DEF S, D, i
  <2> QED
    BY <2>3, <2>4
<1> QED
  BY <1>1, <1>2, <1>3, <1>5

(* The parts of TrainsAsAsked, of a reply.                                 *)
DataReads == [n \in DOMAIN data.instances |-> Read(data.instances[n])] = appended

Trained(r) ==
  /\ \A n \in DOMAIN r.options : r.options[n] = Expected(n)
  /\ ReadsAs(r.trainset, { n \in DOMAIN appended : appended[n].group # r.holdout })
  /\ ReadsAs(r.testset, { n \in DOMAIN appended : appended[n].group = r.holdout })
  /\ \A n \in DOMAIN appended : \A t \in DOMAIN appended[n].labels :
       QuarkToId(labels, appended[n].labels[t]) \in 0 .. r.num_labels - 1

Shown(r) ==
  LET par == tr.params[FindParam(tr.params, r.name)]
      shown == Converted(par.type, r.text)
  IN  IF par.type = "float"
      THEN 2 * (shown - Expected(r.name)) \in -(Whole \div 10) .. Whole \div 10
      ELSE shown = Expected(r.name)

Answers(r) == (r.call = "train" => Trained(r)) /\ (r.call = "get" => Shown(r))
AnswersTrue == Answers(reply)

LEMMA PartsOfTrainsAsAsked == TrainsAsAsked <=> DataReads /\ AnswersTrue
BY Zenon DEF TrainsAsAsked, DataReads, AnswersTrue, Answers, Trained, Shown

(* A call that leaves the data and the trainer alone.                      *)
LEMMA AnswerKept ==
  ASSUME NEW r, Answers(r), reply' = r, UNCHANGED <<dataVars, trVars>>
  PROVE  AnswersTrue'
<1>1. /\ attrs' = attrs /\ labels' = labels /\ appended' = appended
      /\ tr' = tr /\ asked' = asked
  BY DEF dataVars, trVars
<1>2. \A n : Expected(n)' = Expected(n)
  BY <1>1 DEF Expected
<1>3. \A d, P : ReadsAs(d, P)' <=> ReadsAs(d, P)
  <2>1. \A x : Read(x)' = Read(x)
    BY <1>1 DEF Read
  <2> QED
    BY <1>1, <2>1 DEF ReadsAs
<1>4. Trained(r) => Trained(r)'
  BY <1>1, <1>2, <1>3, Zenon DEF Trained
<1>5. Shown(r) => Shown(r)'
  BY <1>1, <1>2, Zenon DEF Shown
<1>6. Answers(r)'
  BY <1>4, <1>5, Zenon DEF Answers
<1> QED
  BY <1>6, Zenon DEF AnswersTrue, Answers, Trained, Shown

(* Each instance is read as what was appended.                             *)
LEMMA ReadEach ==
  ASSUME DataSound
  PROVE  /\ Len(appended) \in Nat /\ DOMAIN appended = 1..Len(appended)
         /\ DOMAIN data.instances = DOMAIN appended
         /\ \A n \in DOMAIN appended :
              /\ appended[n] \in Sequences
              /\ Read(data.instances[n]) = appended[n] /\ data.instances[n].group = appended[n].group
              /\ \A t \in DOMAIN appended[n].labels : QuarkToId(labels, appended[n].labels[t]) \in 0 .. labels.num - 1
<1>1. /\ Len(appended) \in Nat /\ DOMAIN appended = 1..Len(appended)
      /\ \A n \in DOMAIN appended : appended[n] \in Sequences
  BY ElementOfSeq, LenProperties DEF DataSound
<1>2. /\ DOMAIN data.instances = DOMAIN appended
      /\ \A n \in DOMAIN appended : data.instances[n] = Numbered(appended[n], attrs, labels)
  BY DEF DataSound
<1>3. \A n \in DOMAIN appended : data.instances[n].group = appended[n].group
  <2>1. ASSUME NEW s PROVE Numbered(s, attrs, labels).group = s.group
    <3>1. \E items, ids : Numbered(s, attrs, labels) = [items |-> items, labels |-> ids, group |-> s.group]
      BY Zenon DEF Numbered
    <3> QED
      BY <3>1
  <2> QED
    BY <1>2, <2>1
<1>4. \A n \in DOMAIN appended :
         /\ Read(Numbered(appended[n], attrs, labels)) = appended[n]
         /\ \A t \in DOMAIN appended[n].labels : QuarkToId(labels, appended[n].labels[t]) \in 0 .. labels.num - 1
  BY <1>1, ReadsBack DEF DataSound
<1> QED
  BY <1>1, <1>2, <1>3, <1>4

(* So the data set is.                                                     *)
LEMMA SoundDataReads == DataSound => DataReads
<1> SUFFICES ASSUME DataSound PROVE DataReads
  OBVIOUS
<1>1. appended = [n \in DOMAIN appended |-> appended[n]]
  BY LenProperties DEF DataSound
<1>2. [n \in DOMAIN data.instances |-> Read(data.instances[n])] = [n \in DOMAIN appended |-> appended[n]]
  BY ReadEach
<1> QED
  BY <1>1, <1>2 DEF DataReads

(* And what training or testing gets of it.                                *)
LEMMA DatasetReads ==
  ASSUME DataSound, NEW P \in SUBSET (DOMAIN appended)
  PROVE  ReadsAs(InstancesAt(P), P)
<1> DEFINE c == Cardinality(P)
           chosen == InstancesAt(P)
<1>1. Len(appended) \in Nat /\ P \in SUBSET (1..Len(appended))
  BY ReadEach
<1>2. \A i \in P : P \cap 1 .. i = UpTo(P, i)
  BY <1>1 DEF UpTo
<1>3. /\ c \in Nat
      /\ \A i \in P : Cardinality(P \cap 1 .. i) \in 1..c
      /\ \A i, j \in P : Cardinality(P \cap 1 .. i) = Cardinality(P \cap 1 .. j) => i = j
  <2>1. /\ c \in Nat
        /\ \A i \in P : Cardinality(UpTo(P, i)) \in 1..c
        /\ \A i, j \in P : Cardinality(UpTo(P, i)) = Cardinality(UpTo(P, j)) => i = j
    BY <1>1, Ranks
  <2> QED
    BY <1>2, <2>1
<1>4. \A i \in P : (CHOOSE j \in P : Cardinality(P \cap 1 .. j) = Cardinality(P \cap 1 .. i)) = i
  BY <1>3
<1>5. chosen = [k \in 1..c |-> data.instances[CHOOSE j \in P : Cardinality(P \cap 1 .. j) = k]]
  BY DEF InstancesAt
<1> HIDE DEF c, chosen
<1>6. Len(chosen) = c
  BY <1>3, <1>5
<1>7. \A i \in P : chosen[Cardinality(P \cap 1 .. i)] = data.instances[i]
  BY <1>3, <1>4, <1>5
<1>8. \A i \in P : Read(data.instances[i]) = appended[i]
  BY ReadEach
<1> QED
  BY <1>6, <1>7, <1>8 DEF ReadsAs, c, chosen

(* Training gets what was appended and set.                                *)
LEMMA TrainReplies ==
  ASSUME DataSound, ParametersSound, NEW holdout \in Groups \cup {-1}, TrainerTrain(holdout)
  PROVE  AnswersTrue'
<1> DEFINE testset == IF holdout = -1 THEN << >> ELSE TestsetOf(holdout)
           r == [call |-> "train", holdout |-> holdout, options |-> OptionsRead,
                 trainset |-> TrainsetOf(holdout), testset |-> testset,
                 num_labels |-> labels.num, num_attributes |-> attrs.num]
           U == { n \in DOMAIN appended : appended[n].group # holdout }
           H == { n \in DOMAIN appended : appended[n].group = holdout }
<1>1. reply' = r /\ UNCHANGED <<dataVars, trVars>>
  BY DEF TrainerTrain
<1>2. TrainsetOf(holdout) = InstancesAt(U) /\ TestsetOf(holdout) = InstancesAt(H)
  <2>1. /\ { i \in DOMAIN data.instances : data.instances[i].group # holdout } = U
        /\ { i \in DOMAIN data.instances : data.instances[i].group = holdout } = H
    BY ReadEach
  <2> QED
    BY <2>1 DEF TrainsetOf, TestsetOf
<1>3. ReadsAs(TrainsetOf(holdout), U)
  BY <1>2, DatasetReads
<1>4. ReadsAs(testset, H)
  <2>1. CASE holdout = -1
    <3>1. \A n \in DOMAIN appended : appended[n].group # -1
      <4>1. \A n \in DOMAIN appended : appended[n].group \in Groups
        BY ReadEach, SequenceParts
      <4> QED
        BY <4>1, TrainerAssumption
    <3>2. H = {}
      BY <2>1, <3>1
    <3> HIDE DEF H
    <3>3. Cardinality(H) = 0 /\ Len(<< >>) = 0
      BY <3>2, FS_EmptySet
    <3> QED
      BY <2>1, <3>2, <3>3 DEF ReadsAs
  <2>2. CASE holdout # -1
    BY <1>2, <2>2, DatasetReads
  <2> QED
    BY <2>1, <2>2
<1>5. ASSUME NEW n \in DOMAIN OptionsRead PROVE OptionsRead[n] = Expected(n)
  <2> DEFINE D == Declared[tr.algorithm]
             i == FindParam(D, n)
  <2>1. tr # NoTrainer
    BY DEF TrainerTrain
  <2>2. /\ tr.algorithm \in DOMAIN Declared /\ FindParam(tr.params, n) = i
        /\ i # 0 => tr.params[i].type = D[i].type /\ tr.params[i].value = Expected(n)
    BY <2>1, SettledAsExpected
  <2>3. Len(D) \in Nat /\ DOMAIN D = 1..Len(D)
    BY <2>2, TrainerAssumption
  <2>4. \E k \in DOMAIN D : D[k].name = n
    BY DEF OptionsRead
  <2>5. i # 0
    BY <2>3, <2>4, FoundFirst
  <2>6. OptionsRead[n] = ParamsGetTyped(tr.params, n, D[i].type, D[i].value)
    BY DEF OptionsRead
  <2> HIDE DEF D, i
  <2> QED
    BY <2>2, <2>5, <2>6 DEF ParamsGetTyped
<1>6. \A n \in DOMAIN appended : \A t \in DOMAIN appended[n].labels :
         QuarkToId(labels, appended[n].labels[t]) \in 0 .. labels.num - 1
  BY ReadEach
<1>7. Trained(r)
  <2> DEFINE options == OptionsRead
             trainset == TrainsetOf(holdout)
  <2> HIDE DEF options, trainset, testset
  <2>1. /\ r.options = options /\ r.trainset = trainset /\ r.testset = testset /\ r.holdout = holdout
        /\ r.num_labels = labels.num
    BY DEF options, trainset
  <2> HIDE DEF r
  <2> QED
    BY <1>3, <1>4, <1>5, <1>6, <2>1 DEF Trained, options, trainset
<1>8. r.call = "train"
  OBVIOUS
<1> HIDE DEF r
<1>9. Answers(r)
  BY <1>7, <1>8 DEF Answers
<1>10. AnswersTrue'
  BY <1>1, <1>9, AnswerKept
<1> QED
  BY <1>10

(* What is got of a parameter, is what it should be.                       *)
LEMMA GetReplies ==
  ASSUME DataSound, ParametersSound, NEW name, TrainerGet(name)
  PROVE  AnswersTrue'
<1> DEFINE i == FindParam(tr.params, name)
           par == tr.params[i]
           D == Declared[tr.algorithm]
           text == Printed(par.type, par.value)
           r == [call |-> "get", name |-> name, text |-> text]
<1>1. reply' = r /\ UNCHANGED <<dataVars, trVars>>
  BY DEF TrainerGet, ParamsGet
<1>2. tr # NoTrainer /\ i # 0
  BY DEF TrainerGet, Has
<1>3. /\ tr.algorithm \in DOMAIN Declared /\ i = FindParam(D, name)
      /\ par.type = D[i].type /\ par.value = Expected(name)
  BY <1>2, SettledAsExpected
<1>4. i \in 1..Len(D) /\ DOMAIN D = 1..Len(D)
  BY <1>2, <1>3, TrainerAssumption, FoundFirst
<1>5. /\ D[i].type \in {"int", "float", "string"} /\ (D[i].type = "float" => D[i].value \in Int)
  BY <1>3, <1>4, TrainerAssumption
<1>6. par.type = "float" => Expected(name) \in Int
  <2> SUFFICES ASSUME par.type = "float" PROVE Expected(name) \in Int
    OBVIOUS
  <2>1. CASE name \in DOMAIN asked
    <3>1. Expected(name) = asked[name].float /\ asked[name] \in Texts
      BY <1>3, <2>1 DEF Expected, Converted, ParametersSound
    <3> QED
      BY <3>1, TrainerAssumption
  <2>2. CASE name \notin DOMAIN asked
    BY <1>3, <1>5, <2>2 DEF Expected
  <2> QED
    BY <2>1, <2>2
<1>7. Shown(r)
  <2> DEFINE shown == Converted(par.type, text)
  <2>1. r.name = name /\ r.text = text
    OBVIOUS
  <2>2. CASE par.type = "int"
    <3>1. shown = par.value
      BY <2>2 DEF Converted, Printed
    <3> HIDE DEF r, text, par
    <3> QED
      BY <1>3, <2>1, <2>2, <3>1 DEF Shown, par
  <2>3. CASE par.type = "string"
    <3>1. shown = par.value
      BY <2>3 DEF Converted, Printed
    <3> HIDE DEF r, text, par
    <3> QED
      BY <1>3, <2>1, <2>3, <3>1 DEF Shown, par
  <2>4. CASE par.type = "float"
    <3>1. par.value \in Int
      BY <1>3, <1>6, <2>4
    <3>2. shown = ((par.value + 5) \div 10) * 10
      <4>1. Whole \div 10 = 10 /\ 10 \div 2 = 5
        BY DEF Whole
      <4>2. text = [int |-> ((par.value + 5) \div 10) \div 10, float |-> ((par.value + 5) \div 10) * 10]
        BY <2>4, <4>1, Zenon DEF Printed
      <4> HIDE DEF text
      <4> QED
        BY <2>4, <4>2 DEF Converted
    <3>3. \A v \in Int : 2 * (((v + 5) \div 10) * 10 - v) \in -10 .. 10
      OBVIOUS
    <3>4. Whole \div 10 = 10
      BY DEF Whole
    <3>5. 2 * (shown - Expected(name)) \in -10 .. 10
      BY <1>3, <3>1, <3>2, <3>3
    <3> HIDE DEF r, text, par
    <3> QED
      BY <1>3, <2>1, <2>4, <3>4, <3>5 DEF Shown, par
  <2> QED
    BY <1>3, <1>5, <2>2, <2>3, <2>4
<1>8. r.call = "get"
  OBVIOUS
<1> HIDE DEF r
<1>9. Answers(r)
  BY <1>7, <1>8 DEF Answers
<1>10. AnswersTrue'
  BY <1>1, <1>9, AnswerKept
<1> QED
  BY <1>10

(* No call gives a false answer.                                           *)
LEMMA AnswersKept == DataSound /\ ParametersSound /\ AnswersTrue /\ [TrainerNext]_trainerVars => AnswersTrue'
<1> SUFFICES ASSUME DataSound, ParametersSound, AnswersTrue, [TrainerNext]_trainerVars PROVE AnswersTrue'
  OBVIOUS
<1>1. ASSUME NEW h \in Groups \cup {-1}, TrainerTrain(h) PROVE AnswersTrue'
  BY <1>1, TrainReplies
<1>2. ASSUME NEW n \in Names, TrainerGet(n) PROVE AnswersTrue'
  BY <1>2, GetReplies
<1>3. ASSUME UNCHANGED trainerVars PROVE AnswersTrue'
  <2>1. Answers(reply) /\ reply' = reply /\ UNCHANGED <<dataVars, trVars>>
    BY <1>3 DEF AnswersTrue, trainerVars
  <2> QED
    BY <2>1, AnswerKept
<1>4. ASSUME reply'.call # "train", reply'.call # "get" PROVE AnswersTrue'
  BY <1>4 DEF AnswersTrue, Answers
<1>5. ASSUME NEW s \in Sequences, TrainerAppend(s) \/ TrainerAppendThrows(s) PROVE AnswersTrue'
  BY <1>4, <1>5 DEF TrainerAppend, TrainerAppendThrows
<1>6. ASSUME TrainerClear PROVE AnswersTrue'
  BY <1>4, <1>6 DEF TrainerClear
<1>7. ASSUME NEW a \in DOMAIN Declared \cup {"unknown"}, TrainerSelect(a) PROVE AnswersTrue'
  BY <1>4, <1>7 DEF TrainerSelect
<1>8. ASSUME NEW n \in Names, NEW text \in Texts, TrainerSet(n, text) PROVE AnswersTrue'
  BY <1>4, <1>8 DEF TrainerSet
<1>9. ASSUME NEW n \in Names, TrainerThrows(n) PROVE AnswersTrue'
  BY <1>4, <1>9 DEF TrainerThrows
<1>10. ASSUME TrainerParams PROVE AnswersTrue'
  BY <1>4, <1>10 DEF TrainerParams
<1> QED
  BY <1>1, <1>2, <1>3, <1>5, <1>6, <1>7, <1>8, <1>9, <1>10 DEF TrainerNext

(* The trainer begins without data and parameters.                         *)
LEMMA TrainerBegins == TrainerInit => TrainerInv /\ AnswersTrue
<1> SUFFICES ASSUME TrainerInit PROVE TrainerInv /\ AnswersTrue
  OBVIOUS
<1>1. /\ attrs = NoQuark /\ labels = NoQuark /\ data = NoData /\ tr = NoTrainer
      /\ appended = << >> /\ asked = [n \in {} |-> 0] /\ reply = [call |-> "none"]
  BY DEF TrainerInit
<1>2. QuarkSound(attrs, AttributeStrings) /\ QuarkSound(labels, LabelNames)
  BY <1>1, NewQuarkSound
<1>3. data.instances = << >>
  BY <1>1 DEF NoData
<1>4. << >> \in Seq(Sequences) /\ DOMAIN << >> = {}
  OBVIOUS
<1>5. data.instances = [n \in DOMAIN appended |-> Numbered(appended[n], attrs, labels)]
  BY <1>1, <1>3, <1>4
<1>6. DataSound
  BY <1>1, <1>2, <1>4, <1>5 DEF DataSound
<1>7. ParametersSound
  <2>1. DOMAIN asked = {}
    BY <1>1
  <2> QED
    BY <1>1, <2>1 DEF ParametersSound
<1>8. AnswersTrue
  BY <1>1 DEF AnswersTrue, Answers
<1> QED
  BY <1>6, <1>7, <1>8 DEF TrainerInv

(* Whatever was appended, cleared, selected and set, and in what order,    *)
(* training is given what was appended, as it was, and every option as it  *)
(* was last set.                                                           *)
THEOREM TrainedAsAsked == TrainerSpec => []TrainsAsAsked
<1>1. TrainerInit => TrainerInv /\ AnswersTrue
  BY TrainerBegins
<1>2. TrainerInv /\ AnswersTrue /\ [TrainerNext]_trainerVars => TrainerInv' /\ AnswersTrue'
  BY DataKept, ParametersKept, AnswersKept DEF TrainerInv
<1>3. TrainerInv /\ AnswersTrue => TrainsAsAsked
  BY SoundDataReads, PartsOfTrainsAsAsked DEF TrainerInv
<1> QED
  BY <1>1, <1>2, <1>3, PTL DEF TrainerSpec

-----------------------------------------------------------------------------
(* Sums over the paths of a lattice: from item to item, and normalized.    *)

(* Rows of n numbers, and squares.                                         *)
RowsOf(n) == [1 .. n -> Numbers]
Square(n) == [1 .. n -> RowsOf(n)]

(* One item further: to is reached from from, by the edges et and the states*)
(* es; and back.                                                           *)
Reaches(to, from, et, es, n) ==
  \A j \in 1 .. n : \E col \in RowsOf(n) :
    to[j] = Times(VecSum(col), es[j]) /\ \A i \in 1 .. n : col[i] = Times(from[i], et[i][j])

ComesBack(back, next, et, es, c, n) ==
  \A i \in 1 .. n : \E row \in RowsOf(n) :
    back[i] = Times(c, VecSum(row)) /\ \A j \in 1 .. n : row[j] = Times(et[i][j], Times(next[j], es[j]))

LEMMA TimesExchanged ==
  ASSUME NEW x \in Numbers, NEW y \in Numbers, NEW z \in Numbers
  PROVE  /\ Times(Times(x, y), z) = Times(Times(x, z), y)
         /\ Times(x, Times(y, z)) = Times(Times(x, z), y)
         /\ Times(x, Times(y, z)) = Times(y, Times(x, z))
<1>1. Times(Times(x, y), z) = Times(x, Times(y, z)) /\ Times(Times(x, z), y) = Times(x, Times(z, y))
      /\ Times(Times(y, x), z) = Times(y, Times(x, z))
  BY TimesRegroups
<1>2. Times(y, z) = Times(z, y) /\ Times(x, y) = Times(y, x)
  BY TimesTurns
<1> QED
  BY <1>1, <1>2

(* Forward times backward, label by label.                                 *)
Paired(u, f, b, n) == \A j \in 1 .. n : u[j] = Times(f[j], b[j])

(* What reaches the items before weighs as much as what comes back to      *)
(* them.                                                                   *)
LEMMA Meets ==
  ASSUME NEW n \in Nat, NEW from \in RowsOf(n), NEW next \in RowsOf(n), NEW to \in RowsOf(n),
         NEW back \in RowsOf(n),
         NEW et \in Square(n), NEW es \in RowsOf(n), NEW c \in Numbers,
         Reaches(to, from, et, es, n), ComesBack(back, next, et, es, c, n),
         NEW u \in RowsOf(n), Paired(u, from, back, n), NEW v \in RowsOf(n), Paired(v, to, next, n)
  PROVE  VecSum(u) = Times(VecSum(v), c)
<1>0. (\A i \in 1 .. n : u[i] = Times(from[i], back[i])) /\ \A j \in 1 .. n : v[j] = Times(to[j], next[j])
  BY DEF Paired
<1> DEFINE G(i, j) == Times(Times(from[i], et[i][j]), Times(next[j], es[j]))
<1>1. PICK g : g = [i \in 1 .. n |-> [j \in 1 .. n |-> G(i, j)]]
  OBVIOUS
<1>2. ASSUME NEW i \in 1 .. n, NEW j \in 1 .. n
      PROVE  /\ from[i] \in Numbers /\ et[i][j] \in Numbers /\ next[j] \in Numbers /\ es[j] \in Numbers
             /\ Times(from[i], et[i][j]) \in Numbers /\ Times(next[j], es[j]) \in Numbers /\ G(i, j) \in Numbers
  <2>1. from[i] \in Numbers /\ et[i][j] \in Numbers /\ next[j] \in Numbers /\ es[j] \in Numbers
    BY DEF RowsOf, Square
  <2>2. Times(from[i], et[i][j]) \in Numbers /\ Times(next[j], es[j]) \in Numbers
    BY <2>1, TimesNumber
  <2> QED
    BY <2>1, <2>2, TimesNumber
<1>3. \A i, j \in 1 .. n : g[i][j] = G(i, j)
  BY <1>1
<1> HIDE DEF G
<1>4. g \in [1 .. n -> [1 .. n -> Numbers]]
  BY <1>1, <1>2
<1>5. PICK r : r = [i \in 1 .. n |-> VecSum(g[i])]
  OBVIOUS
<1>6. r \in [1 .. n -> Numbers] /\ RowSums(r, g, n)
  <2>1. \A i \in 1 .. n : r[i] = VecSum(g[i]) /\ g[i] \in [1 .. n -> Numbers]
    BY <1>4, <1>5
  <2>2. \A i \in 1 .. n : VecSum(g[i]) \in Numbers
    BY <2>1, SumNumber
  <2> QED
    BY <1>5, <2>1, <2>2 DEF RowSums
<1>7. ASSUME NEW i \in 1 .. n PROVE u[i] = Times(r[i], c)
  <2>1. PICK row \in RowsOf(n) : back[i] = Times(c, VecSum(row))
               /\ \A j \in 1 .. n : row[j] = Times(et[i][j], Times(next[j], es[j]))
    BY DEF ComesBack
  <2>2. g[i] \in [1 .. n -> Numbers] /\ row \in [1 .. n -> Numbers] /\ from[i] \in Numbers
    BY <1>4, <2>1 DEF RowsOf, Square
  <2>3. IsScaled(g[i], row, from[i], n)
    <3> SUFFICES ASSUME NEW j \in 1 .. n PROVE g[i][j] = Times(row[j], from[i])
      BY DEF IsScaled
    <3>1. PICK a \in Numbers, b \in Numbers, d \in Numbers : a = from[i] /\ b = et[i][j]
                 /\ d = Times(next[j], es[j])
      BY <1>2
    <3>2. g[i][j] = Times(Times(a, b), d)
      BY <1>3, <3>1 DEF G
    <3>3. row[j] = Times(b, d)
      BY <2>1, <3>1
    <3>4. Times(b, d) \in Numbers
      BY TimesNumber
    <3>5. Times(Times(a, b), d) = Times(a, Times(b, d)) /\ Times(a, Times(b, d)) = Times(Times(b, d), a)
      BY <3>4, TimesRegroups, TimesTurns
    <3> QED
      BY <3>1, <3>2, <3>3, <3>5
  <2>4. VecSum(g[i]) = Times(VecSum(row), from[i]) /\ VecSum(row) \in Numbers
    BY <2>2, <2>3, SumOfTimes, SumNumber
  <2>5. PICK a \in Numbers, s \in Numbers : a = from[i] /\ s = VecSum(row)
    BY <2>2, <2>4
  <2>6. u[i] = Times(a, Times(c, s)) /\ r[i] = Times(s, a)
    BY <1>0, <1>6, <2>1, <2>4, <2>5 DEF RowSums
  <2>7. Times(a, Times(c, s)) = Times(Times(a, s), c) /\ Times(a, s) = Times(s, a)
    BY TimesExchanged, TimesTurns
  <2> QED
    BY <2>6, <2>7
<1>8. VecSum(u) = Times(VecSum(r), c)
  <2>1. u \in [1 .. n -> Numbers] /\ IsScaled(u, r, c, n)
    BY <1>7 DEF RowsOf, Square, IsScaled
  <2> QED
    BY <1>6, <2>1, SumOfTimes
<1>9. ColumnSums(v, g, n, n)
  <2> SUFFICES ASSUME NEW j \in 1 .. n
               PROVE \E col \in [1 .. n -> Numbers] : v[j] = VecSum(col) /\ \A i \in 1 .. n : col[i] = g[i][j]
    BY DEF ColumnSums
  <2>1. PICK col \in RowsOf(n) : to[j] = Times(VecSum(col), es[j])
               /\ \A i \in 1 .. n : col[i] = Times(from[i], et[i][j])
    BY DEF Reaches
  <2>2. PICK b \in Numbers, d \in Numbers, e \in Numbers : b = next[j] /\ d = es[j] /\ e = Times(b, d)
    BY TimesNumber DEF RowsOf, Square
  <2>3. PICK h : h = [i \in 1 .. n |-> g[i][j]]
    OBVIOUS
  <2>4. h \in [1 .. n -> Numbers] /\ \A i \in 1 .. n : h[i] = g[i][j]
    BY <1>4, <2>3
  <2>5. col \in [1 .. n -> Numbers]
    BY DEF RowsOf, Square
  <2>6. IsScaled(h, col, e, n)
    BY <1>3, <2>1, <2>2, <2>4 DEF IsScaled, G
  <2>7. VecSum(h) = Times(VecSum(col), e) /\ VecSum(col) \in Numbers
    BY <2>4, <2>5, <2>6, SumOfTimes, SumNumber
  <2>8. PICK s \in Numbers : s = VecSum(col)
    BY <2>7
  <2>9. v[j] = Times(Times(s, d), b)
    BY <1>0, <2>1, <2>2, <2>8
  <2>10. Times(s, Times(b, d)) = Times(Times(s, d), b)
    BY TimesExchanged
  <2> QED
    BY <2>2, <2>4, <2>7, <2>8, <2>9, <2>10
<1>10. VecSum(r) = VecSum(v)
  <2>1. v \in [1 .. n -> Numbers] /\ r \in [1 .. n -> Numbers] /\ RowSums(r, g, n)
    BY <1>6 DEF RowsOf, Square
  <2>2. Crossed(r, v, g, n, n)
    BY <1>4, <1>9, <2>1 DEF Crossed
  <2> QED
    BY <2>2, SumOfSums
<1> QED
  BY <1>8, <1>10

(* A factor of the row goes on to the next.                                *)
LEMMA ScaledReaches ==
  ASSUME NEW n \in Nat, NEW from \in RowsOf(n), NEW to \in RowsOf(n), NEW other \in RowsOf(n),
         NEW c \in Numbers,
         NEW et \in Square(n), NEW es \in RowsOf(n), NEW scaled \in RowsOf(n),
         IsScaled(scaled, from, c, n), Reaches(to, from, et, es, n), Reaches(other, scaled, et, es, n)
  PROVE  IsScaled(other, to, c, n)
<1>0. \A i \in 1 .. n : scaled[i] = Times(from[i], c)
  BY DEF IsScaled
<1> SUFFICES ASSUME NEW j \in 1 .. n PROVE other[j] = Times(to[j], c)
  BY DEF IsScaled
<1>1. PICK a \in RowsOf(n) : to[j] = Times(VecSum(a), es[j])
             /\ \A i \in 1 .. n : a[i] = Times(from[i], et[i][j])
  BY DEF Reaches
<1>2. PICK b \in RowsOf(n) : other[j] = Times(VecSum(b), es[j])
             /\ \A i \in 1 .. n : b[i] = Times(scaled[i], et[i][j])
  BY DEF Reaches
<1>3. IsScaled(b, a, c, n)
  <2> SUFFICES ASSUME NEW i \in 1 .. n PROVE b[i] = Times(a[i], c)
    BY DEF IsScaled
  <2>1. PICK f \in Numbers, e \in Numbers : f = from[i] /\ e = et[i][j]
    BY DEF RowsOf, Square
  <2>2. a[i] = Times(f, e) /\ b[i] = Times(Times(f, c), e)
    BY <1>0, <1>1, <1>2, <2>1
  <2> QED
    BY <2>2, TimesExchanged
<1>4. a \in [1 .. n -> Numbers] /\ b \in [1 .. n -> Numbers] /\ es[j] \in Numbers
  BY DEF RowsOf, Square
<1>5. PICK s \in Numbers, e \in Numbers : s = VecSum(a) /\ e = es[j]
  BY <1>4, SumNumber
<1>6. VecSum(b) = Times(s, c)
  BY <1>3, <1>4, <1>5, SumOfTimes
<1>7. other[j] = Times(Times(s, c), e) /\ to[j] = Times(s, e)
  BY <1>1, <1>2, <1>5, <1>6
<1> QED
  BY <1>7, TimesExchanged

LEMMA OverByInverse ==
  ASSUME NEW x \in Numbers, NEW y \in Numbers, Positive(y), NEW z \in Numbers, Times(y, z) = One
  PROVE  Over(x, y) = Times(x, z)
<1>1. Times(x, z) \in Numbers
  BY TimesNumber
<1>2. Times(Times(x, z), y) = Times(x, Times(y, z))
  BY TimesExchanged
<1>3. Times(x, One) = x
  BY Neutral
<1> QED
  BY <1>1, <1>2, <1>3, OverIs

(* A row divided by its sum.                                               *)
Normal(to, c, raw, n) ==
  /\ c = Over(One, VecSum(raw))
  /\ \A j \in 1 .. n : to[j] = Over(raw[j], VecSum(raw))

PositiveRow(row, n) == \A i \in 1 .. n : Positive(row[i])

(* Normalizing multiplies by a positive factor.                            *)
LEMMA NormalScales ==
  ASSUME NEW n \in Nat \ {0}, NEW raw \in RowsOf(n), PositiveRow(raw, n), NEW to, NEW c, Normal(to, c, raw, n)
  PROVE  /\ c \in Numbers /\ Positive(c) /\ Times(VecSum(raw), c) = One
         /\ \A j \in 1 .. n : to[j] = Times(raw[j], c)
<1>1. VecSum(raw) \in Numbers /\ Positive(VecSum(raw))
  BY SumPositive DEF RowsOf, Square, PositiveRow
<1>2. PICK s \in Numbers : s = VecSum(raw) /\ Positive(s)
  BY <1>1
<1>3. One \in Numbers /\ Positive(One)
  BY ZeroNumber DEF Positive, One, Fraction
<1>4. c \in Numbers /\ Times(c, s) = One /\ Positive(c)
  BY <1>2, <1>3, OverPositive DEF Normal
<1>5. Times(s, c) = One
  BY <1>4, TimesTurns
<1>6. \A j \in 1 .. n : raw[j] \in Numbers
  BY DEF RowsOf, Square
<1>7. \A j \in 1 .. n : Over(raw[j], s) = Times(raw[j], c)
  BY <1>2, <1>4, <1>5, <1>6, OverByInverse
<1> QED
  BY <1>2, <1>4, <1>5, <1>7 DEF Normal

(* Positive rows reach positive rows.                                      *)
LEMMA ReachesPositive ==
  ASSUME NEW n \in Nat \ {0}, NEW from \in RowsOf(n), PositiveRow(from, n),
         NEW et \in Square(n), \A i \in 1 .. n : PositiveRow(et[i], n),
         NEW es \in RowsOf(n), PositiveRow(es, n),
         NEW to, Reaches(to, from, et, es, n)
  PROVE  \A j \in 1 .. n : to[j] \in Numbers /\ Positive(to[j])
<1> SUFFICES ASSUME NEW j \in 1 .. n PROVE to[j] \in Numbers /\ Positive(to[j])
  OBVIOUS
<1>1. PICK a \in RowsOf(n) : to[j] = Times(VecSum(a), es[j])
             /\ \A i \in 1 .. n : a[i] = Times(from[i], et[i][j])
  BY DEF Reaches
<1>2. \A i \in 1 .. n : from[i] \in Numbers /\ et[i][j] \in Numbers /\ Positive(from[i]) /\ Positive(et[i][j])
  BY DEF RowsOf, Square, PositiveRow
<1>3. \A i \in 1 .. n : Positive(a[i])
  BY <1>1, <1>2, PositiveTogether
<1>4. VecSum(a) \in Numbers /\ Positive(VecSum(a))
  BY <1>3, SumPositive DEF RowsOf, Square
<1>5. es[j] \in Numbers /\ Positive(es[j])
  BY DEF RowsOf, Square, PositiveRow
<1> QED
  BY <1>1, <1>4, <1>5, PositiveTogether, TimesNumber

(* The sums over all paths to an item, z, and what crf1dc_alpha_score keeps*)
(* of them: rows a that are normalized by factors c; p are their products. *)
Lattice(m, n, et, es) ==
  /\ m \in Nat \ {0} /\ n \in Nat \ {0}
  /\ et \in Square(n) /\ \A i \in 1 .. n : PositiveRow(et[i], n)
  /\ es \in [1 .. m -> RowsOf(n)] /\ \A t \in 1 .. m : PositiveRow(es[t], n)

Reached(z, m, n, et, es) ==
  /\ z \in [1 .. m -> RowsOf(n)]
  /\ \A j \in 1 .. n : z[1][j] = es[1][j]
  /\ \A t \in 1 .. (m - 1) : Reaches(z[t + 1], z[t], et, es[t + 1], n)

KeptOn(a, c, m, n, et, es) ==
  /\ a \in [1 .. m -> RowsOf(n)] /\ c \in [1 .. m -> Numbers]
  /\ \E raw \in [1 .. m -> RowsOf(n)] :
       /\ \A j \in 1 .. n : raw[1][j] = es[1][j]
       /\ \A t \in 1 .. (m - 1) : Reaches(raw[t + 1], a[t], et, es[t + 1], n)
       /\ \A t \in 1 .. m : Normal(a[t], c[t], raw[t], n)

KeepsOn(a, c, p, z, m, n) ==
  \A t \in 1 .. m :
    /\ \A j \in 1 .. n : a[t][j] = Times(z[t][j], p[t]) /\ Positive(z[t][j])
    /\ Positive(c[t]) /\ Positive(p[t]) /\ Times(VecSum(z[t]), p[t]) = One

(* The rows that are kept are the sums, times the factors so far; so       *)
(* nothing of what is divided by is zero.                                  *)
LEMMA ForwardKeeps ==
  ASSUME NEW m, NEW n, NEW et, NEW es, Lattice(m, n, et, es), NEW z, Reached(z, m, n, et, es),
         NEW a, NEW c, KeptOn(a, c, m, n, et, es), NEW p \in [0 .. m -> Numbers], Multiplies(p, c, m)
  PROVE  KeepsOn(a, c, p, z, m, n)
<1>1. m \in Nat \ {0} /\ n \in Nat \ {0} /\ et \in Square(n) /\ es \in [1 .. m -> RowsOf(n)]
      /\ (\A i \in 1 .. n : PositiveRow(et[i], n)) /\ \A t \in 1 .. m : PositiveRow(es[t], n)
  BY DEF Lattice
<1>2. PICK raw \in [1 .. m -> RowsOf(n)] :
       /\ \A j \in 1 .. n : raw[1][j] = es[1][j]
       /\ \A t \in 1 .. (m - 1) : Reaches(raw[t + 1], a[t], et, es[t + 1], n)
       /\ \A t \in 1 .. m : Normal(a[t], c[t], raw[t], n)
  BY DEF KeptOn
<1>3. a \in [1 .. m -> RowsOf(n)] /\ c \in [1 .. m -> Numbers]
  BY DEF KeptOn
<1>4. z \in [1 .. m -> RowsOf(n)]
  BY DEF Reached
<1> DEFINE Right(t) == /\ \A j \in 1 .. n : a[t][j] = Times(z[t][j], p[t]) /\ Positive(z[t][j])
                      /\ Positive(c[t]) /\ Positive(p[t]) /\ Times(VecSum(z[t]), p[t]) = One
<1>5. ASSUME NEW t \in 1 .. m, Positive(p[t - 1]),
             \A j \in 1 .. n : Positive(z[t][j]) /\ raw[t][j] = Times(z[t][j], p[t - 1])
      PROVE  Right(t)
  <2>1. t - 1 \in 0 .. m
    BY <1>1
  <2>2. PICK q \in Numbers, row \in RowsOf(n), w \in RowsOf(n), d \in Numbers :
          q = p[t - 1] /\ row = raw[t] /\ w = z[t] /\ d = c[t]
    BY <1>3, <1>4, <2>1
  <2>3. \A j \in 1 .. n : w[j] \in Numbers /\ Positive(w[j]) /\ row[j] = Times(w[j], q)
    BY <1>5, <2>2 DEF RowsOf, Square
  <2>4. PositiveRow(row, n)
    BY <1>5, <2>2, <2>3, PositiveTogether DEF PositiveRow
  <2>5. Normal(a[t], d, row, n)
    BY <1>2, <2>2
  <2>6. Positive(d) /\ Times(VecSum(row), d) = One /\ \A j \in 1 .. n : a[t][j] = Times(row[j], d)
    BY <1>1, <2>4, <2>5, NormalScales
  <2>7. p[t] = Times(q, d)
    BY <2>2 DEF Multiplies
  <2>8. \A j \in 1 .. n : a[t][j] = Times(w[j], Times(q, d))
    BY <2>3, <2>6, TimesRegroups
  <2>9. w \in [1 .. n -> Numbers] /\ row \in [1 .. n -> Numbers] /\ IsScaled(row, w, q, n)
    BY <2>3 DEF RowsOf, Square, IsScaled
  <2>10. VecSum(row) = Times(VecSum(w), q) /\ VecSum(w) \in Numbers
    BY <1>1, <2>9, SumOfTimes, SumNumber
  <2>11. Times(VecSum(w), Times(q, d)) = One
    BY <2>6, <2>10, TimesRegroups
  <2>12. Positive(Times(q, d))
    BY <1>5, <2>2, <2>6, PositiveTogether
  <2> QED
    BY <2>2, <2>3, <2>6, <2>7, <2>8, <2>11, <2>12
<1> DEFINE S == { k \in 0 .. m : k \in 1 .. m => Right(k) }
<1>6. p[0] = One /\ Positive(One)
  BY DEF Multiplies, Positive, One, Fraction
<1>7. 0 \in S
  BY <1>1, FirstPlace
<1>8. ASSUME NEW k \in 0 .. (m - 1), k \in S PROVE k + 1 \in S
  <2>1. k + 1 \in 1 .. m /\ k + 1 \in 0 .. m /\ (k + 1) - 1 = k
    BY <1>1
  <2>2. CASE k = 0
    <3>1. 1 \in 1 .. m /\ k + 1 = 1
      BY <2>1, <2>2
    <3>2. \A j \in 1 .. n : es[1][j] \in Numbers /\ Positive(es[1][j])
      BY <1>1, <3>1 DEF RowsOf, Square, PositiveRow
    <3>3. \A j \in 1 .. n : Times(es[1][j], One) = es[1][j]
      BY <3>2, Neutral
    <3>4. \A j \in 1 .. n : Positive(z[1][j]) /\ raw[1][j] = Times(z[1][j], p[0])
      BY <1>2, <1>6, <3>2, <3>3 DEF Reached
    <3>5. Right(1)
      <4> HIDE DEF Right
      <4>1. 1 - 1 = 0
        OBVIOUS
      <4> QED
        BY <1>5, <1>6, <3>1, <3>4, <4>1
    <3> HIDE DEF Right
    <3> QED
      BY <2>1, <3>1, <3>5
  <2>3. CASE k # 0
    <3>1. k \in 1 .. m /\ k \in 1 .. (m - 1)
      BY <1>1, <2>3
    <3>2. Right(k)
      BY <1>8, <3>1
    <3>3. PICK w \in RowsOf(n), w1 \in RowsOf(n), r1 \in RowsOf(n), b \in RowsOf(n), e \in RowsOf(n), q \in Numbers :
            w = z[k] /\ w1 = z[k + 1] /\ r1 = raw[k + 1] /\ b = a[k] /\ e = es[k + 1] /\ q = p[k]
      BY <1>1, <1>3, <1>4, <2>1, <3>1
    <3>4. Reaches(w1, w, et, e, n) /\ Reaches(r1, b, et, e, n)
      BY <1>2, <3>1, <3>3 DEF Reached
    <3>5. \A j \in 1 .. n : b[j] = Times(w[j], q) /\ Positive(w[j])
      BY <3>2, <3>3
    <3>6. \A j \in 1 .. n : r1[j] = Times(w1[j], q)
      <4> HIDE DEF Right
      <4>1. n \in Nat /\ et \in Square(n)
        BY <1>1
      <4>2. IsScaled(b, w, q, n)
        BY <3>5 DEF IsScaled
      <4>3. IsScaled(r1, w1, q, n)
        BY <3>4, <4>1, <4>2, ScaledReaches
      <4> QED
        BY <4>3 DEF IsScaled
    <3>7. PositiveRow(w, n) /\ PositiveRow(e, n)
      BY <1>1, <2>1, <3>3, <3>5 DEF PositiveRow
    <3>8. \A j \in 1 .. n : Positive(w1[j])
      BY <1>1, <3>4, <3>7, ReachesPositive
    <3>9. Positive(p[k])
      BY <3>2
    <3>10. Right(k + 1)
      <4> HIDE DEF Right
      <4> QED
        BY <1>5, <2>1, <3>3, <3>6, <3>8, <3>9
    <3> HIDE DEF Right
    <3> QED
      BY <2>1, <3>10
  <2> QED
    BY <2>2, <2>3
<1> HIDE DEF S
<1>9. 0 .. m \subseteq S
  BY <1>1, <1>7, <1>8, IntervalInduction
<1> HIDE DEF Right
<1>10. \A t \in 1 .. m : t \in 0 .. m
  OBVIOUS
<1>11. \A t \in 1 .. m : Right(t)
  BY <1>9, <1>10 DEF S
<1> QED
  BY <1>11 DEF Right, KeepsOn

-----------------------------------------------------------------------------
(* Forward and backward meet at each item.                                 *)

(* What crf1dc_beta_score keeps, from the last item back.                  *)
KeptBack(b, c, m, n, et, es) ==
  /\ b \in [1 .. m -> RowsOf(n)]
  /\ \A i \in 1 .. n : b[m][i] = c[m]
  /\ \A t \in 1 .. (m - 1) : ComesBack(b[t], b[t + 1], et, es[t + 1], c[t], n)

(* The premises of Meets, under one name.                                  *)
Crosses(to, from, back, next, et, es, c, n, u, v) ==
  /\ n \in Nat /\ from \in RowsOf(n) /\ next \in RowsOf(n) /\ to \in RowsOf(n) /\ back \in RowsOf(n)
  /\ et \in Square(n) /\ es \in RowsOf(n) /\ c \in Numbers /\ u \in RowsOf(n) /\ v \in RowsOf(n)
  /\ Reaches(to, from, et, es, n) /\ ComesBack(back, next, et, es, c, n)
  /\ Paired(u, from, back, n) /\ Paired(v, to, next, n)

(* Meets, times the factors of the items before.                           *)
LEMMA MeetsBefore ==
  ASSUME NEW to, NEW from, NEW back, NEW next, NEW et, NEW es, NEW c, NEW n, NEW u, NEW v,
         Crosses(to, from, back, next, et, es, c, n, u, v), NEW q \in Numbers
  PROVE  Times(q, VecSum(u)) = Times(Times(q, c), VecSum(v))
<1>0. /\ n \in Nat /\ from \in RowsOf(n) /\ next \in RowsOf(n) /\ to \in RowsOf(n) /\ back \in RowsOf(n)
      /\ et \in Square(n) /\ es \in RowsOf(n) /\ c \in Numbers /\ u \in RowsOf(n) /\ v \in RowsOf(n)
      /\ Reaches(to, from, et, es, n) /\ ComesBack(back, next, et, es, c, n)
      /\ Paired(u, from, back, n) /\ Paired(v, to, next, n)
  BY DEF Crosses
<1>1. VecSum(u) = Times(VecSum(v), c)
  BY <1>0, Meets
<1>2. v \in [1 .. n -> Numbers]
  BY <1>0 DEF RowsOf
<1>3. VecSum(v) \in Numbers
  BY <1>0, <1>2, SumNumber
<1>4. PICK s \in Numbers, d \in Numbers : s = VecSum(v) /\ d = c
  BY <1>0, <1>3
<1> QED
  BY <1>1, <1>4, TimesExchanged

(* From item x on, r is reached.                                           *)
Onwards(r, x, m, n, et, es) == \A t \in x .. (m - 1) : Reaches(r[t + 1], r[t], et, es[t + 1], n)

(* From item x on, forward and backward give the same sum at each item, up *)
(* to the factors.                                                         *)
LEMMA BackwardMeets ==
  ASSUME NEW m \in Nat \ {0}, NEW n \in Nat, NEW et \in Square(n), NEW es \in [1 .. m -> RowsOf(n)],
         NEW c \in [1 .. m -> Numbers], NEW b, KeptBack(b, c, m, n, et, es),
         NEW p \in [0 .. m -> Numbers], Multiplies(p, c, m),
         NEW x \in 1 .. m, NEW r \in [1 .. m -> RowsOf(n)],
         Onwards(r, x, m, n, et, es),
         NEW u \in RowsOf(n), Paired(u, r[x], b[x], n)
  PROVE  Times(p[x - 1], VecSum(u)) = Times(p[m], VecSum(r[m])) /\ VecSum(r[m]) \in Numbers
<1>1. b \in [1 .. m -> RowsOf(n)]
  BY DEF KeptBack
<1> DEFINE U(t) == [j \in 1 .. n |-> Times(r[t][j], b[t][j])]
<1>2. ASSUME NEW t \in 1 .. m
      PROVE  U(t) \in RowsOf(n) /\ Paired(U(t), r[t], b[t], n) /\ VecSum(U(t)) \in Numbers
  <2>1. \A j \in 1 .. n : r[t][j] \in Numbers /\ b[t][j] \in Numbers
    BY <1>1 DEF RowsOf, Square
  <2>2. \A j \in 1 .. n : Times(r[t][j], b[t][j]) \in Numbers
    BY <2>1, TimesNumber
  <2>3. U(t) \in [1 .. n -> Numbers]
    BY <2>2
  <2>4. \A j \in 1 .. n : U(t)[j] = Times(r[t][j], b[t][j])
    OBVIOUS
  <2> HIDE DEF U
  <2> QED
    BY <2>3, <2>4, SumNumber DEF RowsOf, Square, Paired
<1>3. U(x) = u
  BY DEF RowsOf, Square, Paired
<1> HIDE DEF U
<1> DEFINE D(t) == Times(p[t - 1], VecSum(U(t)))
<1>4. ASSUME NEW t \in x .. (m - 1) PROVE D(t + 1) = D(t)
  <2>1. t \in 1 .. m /\ t + 1 \in 1 .. m /\ t - 1 \in 0 .. m /\ t \in 0 .. m /\ t \in 1 .. (m - 1)
          /\ (t + 1) - 1 = t
    OBVIOUS
  <2>2. PICK f \in RowsOf(n), g \in RowsOf(n), h \in RowsOf(n), k \in RowsOf(n), e \in RowsOf(n), d \in Numbers :
          f = r[t] /\ g = r[t + 1] /\ h = b[t] /\ k = b[t + 1] /\ e = es[t + 1] /\ d = c[t]
    BY <1>1, <2>1
  <2>3. PICK v \in RowsOf(n), w \in RowsOf(n) : v = U(t) /\ w = U(t + 1)
    BY <1>2, <2>1
  <2>4. Paired(v, f, h, n) /\ Paired(w, g, k, n)
    BY <1>2, <2>1, <2>2, <2>3
  <2>5. Reaches(g, f, et, e, n)
    BY <2>2 DEF Onwards
  <2>6. ComesBack(h, k, et, e, d, n)
    BY <2>1, <2>2 DEF KeptBack
  <2>7. PICK q \in Numbers : q = p[t - 1]
    BY <2>1
  <2>8. Times(q, VecSum(v)) = Times(Times(q, d), VecSum(w))
    <3>1. Crosses(g, f, h, k, et, e, d, n, v, w)
      BY <2>4, <2>5, <2>6 DEF Crosses
    <3> QED
      BY <3>1, MeetsBefore
  <2>9. p[t] = Times(q, d)
    BY <2>1, <2>2, <2>7 DEF Multiplies
  <2> QED
    BY <2>1, <2>3, <2>7, <2>8, <2>9
<1> HIDE DEF D
<1> DEFINE S == { k \in 0 .. (m - x) : D(x + k) = D(x) }
<1>5. m - x \in Nat /\ 0 \in S
  <2>1. m - x \in Nat /\ x + 0 = x
    OBVIOUS
  <2> QED
    BY <2>1
<1>6. ASSUME NEW k \in 0 .. ((m - x) - 1), k \in S PROVE k + 1 \in S
  <2>1. x + k \in x .. (m - 1) /\ k + 1 \in 0 .. (m - x) /\ x + (k + 1) = (x + k) + 1
    OBVIOUS
  <2>2. D((x + k) + 1) = D(x + k)
    BY <1>4, <2>1
  <2> QED
    BY <1>6, <2>1, <2>2
<1>7. 0 .. (m - x) \subseteq S
  <2> HIDE DEF S
  <2> QED
    BY <1>5, <1>6, IntervalInduction
<1>8. D(m) = D(x)
  <2>1. m - x \in 0 .. (m - x) /\ x + (m - x) = m
    OBVIOUS
  <2>2. m - x \in S
    BY <1>7, <2>1
  <2>3. D(x + (m - x)) = D(x)
    BY <2>2
  <2> QED
    BY <2>1, <2>3
<1>9. m \in 1 .. m /\ m - 1 \in 0 .. m /\ m \in 0 .. m /\ x - 1 \in 0 .. m
  OBVIOUS
<1>10. PICK w \in RowsOf(n), v \in RowsOf(n), d \in Numbers, q \in Numbers : w = r[m] /\ v = U(m)
              /\ d = c[m] /\ q = p[m - 1]
  BY <1>2, <1>9
<1>11. w \in [1 .. n -> Numbers] /\ v \in [1 .. n -> Numbers]
  BY DEF RowsOf, Square
<1>12. IsScaled(v, w, d, n)
  BY <1>2, <1>9, <1>10 DEF IsScaled, KeptBack, Paired
<1>13. VecSum(v) = Times(VecSum(w), d) /\ VecSum(w) \in Numbers
  BY <1>11, <1>12, SumOfTimes, SumNumber
<1>14. p[m] = Times(q, d)
  BY <1>9, <1>10 DEF Multiplies
<1>15. PICK s \in Numbers : s = VecSum(w)
  BY <1>13
<1>16. D(m) = Times(q, Times(s, d)) /\ Times(p[m], s) = Times(Times(q, d), s)
  BY <1>10, <1>13, <1>14, <1>15 DEF D
<1>17. Times(q, Times(s, d)) = Times(Times(q, d), s)
  BY TimesExchanged
<1>18. D(x) = Times(p[x - 1], VecSum(u))
  BY <1>3 DEF D
<1> QED
  BY <1>8, <1>10, <1>13, <1>15, <1>16, <1>17, <1>18

(* The sums over the paths in a row, of w, e their last labels, weighted by*)
(* what comes behind.                                                      *)
SumsAgree(w, e, k, z, n) ==
  \A f \in RowsOf(n), u \in RowsOf(k), v \in RowsOf(n) :
    (\A p \in 1 .. k : u[p] = Times(w[p], f[e[p]])) /\ Paired(v, z, f, n)
      => VecSum(u) = VecSum(v)

(* Each of the paths of w with each label behind it.                       *)
Prolongs(w1, e1, w, e, k, n, et, es) ==
  \A p \in 1 .. k : \A j \in 1 .. n :
    w1[(p - 1) * n + j] = Times(w[p], Times(et[e[p]][j], es[j])) /\ e1[(p - 1) * n + j] = j

(* The paths of one item more sum to what is reached there.                *)
LEMMA SumsProlonged ==
  ASSUME NEW n \in Nat, NEW k \in Nat, NEW w \in RowsOf(k), NEW e \in [1 .. k -> 1 .. n],
         NEW w1 \in RowsOf(k * n), NEW e1,
         NEW et \in Square(n), NEW es \in RowsOf(n), NEW z \in RowsOf(n), NEW z1 \in RowsOf(n),
         Reaches(z1, z, et, es, n), Prolongs(w1, e1, w, e, k, n, et, es), SumsAgree(w, e, k, z, n)
  PROVE  SumsAgree(w1, e1, k * n, z1, n)
<1> SUFFICES ASSUME NEW f \in RowsOf(n), NEW u \in RowsOf(k * n), NEW v \in RowsOf(n),
                    \A p \in 1 .. k * n : u[p] = Times(w1[p], f[e1[p]]), Paired(v, z1, f, n)
             PROVE  VecSum(u) = VecSum(v)
  BY DEF SumsAgree
<1> DEFINE H(i) == [j \in 1 .. n |-> Times(et[i][j], Times(f[j], es[j]))]
<1>1. ASSUME NEW i \in 1 .. n
      PROVE  H(i) \in [1 .. n -> Numbers] /\ \A j \in 1 .. n : H(i)[j] = Times(et[i][j], Times(f[j], es[j]))
  <2>1. \A j \in 1 .. n : et[i][j] \in Numbers /\ f[j] \in Numbers /\ es[j] \in Numbers
    BY DEF RowsOf, Square
  <2>2. \A j \in 1 .. n : Times(f[j], es[j]) \in Numbers
    BY <2>1, TimesNumber
  <2>3. \A j \in 1 .. n : Times(et[i][j], Times(f[j], es[j])) \in Numbers
    BY <2>1, <2>2, TimesNumber
  <2> QED
    BY <2>3
<1> HIDE DEF H
<1>2. PICK g : g = [i \in 1 .. n |-> VecSum(H(i))]
  OBVIOUS
<1>3. \A i \in 1 .. n : VecSum(H(i)) \in Numbers
  BY <1>1, SumNumber
<1>4. g \in RowsOf(n) /\ \A i \in 1 .. n : g[i] = VecSum(H(i))
  BY <1>2, <1>3 DEF RowsOf, Square
<1>5. One \in Numbers
  BY ZeroNumber
<1>6. ComesBack(g, f, et, es, One, n)
  <2> SUFFICES ASSUME NEW i \in 1 .. n
               PROVE  \E row \in RowsOf(n) : g[i] = Times(One, VecSum(row))
                        /\ \A j \in 1 .. n : row[j] = Times(et[i][j], Times(f[j], es[j]))
    BY DEF ComesBack
  <2>1. PICK s \in Numbers : s = VecSum(H(i))
    BY <1>3
  <2>2. Times(One, s) = s
    BY <1>5, Neutral, TimesTurns
  <2>3. H(i) \in RowsOf(n)
    BY <1>1 DEF RowsOf, Square
  <2> QED
    BY <1>1, <1>4, <2>1, <2>2, <2>3
<1>7. PICK uu : uu = [i \in 1 .. n |-> Times(z[i], g[i])]
  OBVIOUS
<1>8. uu \in RowsOf(n) /\ Paired(uu, z, g, n)
  <2>1. \A i \in 1 .. n : z[i] \in Numbers /\ g[i] \in Numbers
    BY <1>4 DEF RowsOf, Square
  <2>2. \A i \in 1 .. n : Times(z[i], g[i]) \in Numbers
    BY <2>1, TimesNumber
  <2> QED
    BY <1>7, <2>2 DEF RowsOf, Square, Paired
<1>9. VecSum(uu) = Times(VecSum(v), One)
  BY <1>4, <1>5, <1>6, <1>8, Meets, SMTT(30)
<1>10. VecSum(uu) = VecSum(v)
  <2>1. v \in [1 .. n -> Numbers]
    BY DEF RowsOf, Square
  <2>2. VecSum(v) \in Numbers
    BY <2>1, SumNumber
  <2> QED
    BY <1>9, <2>2, Neutral
<1>11. PICK bb : bb = [p \in 1 .. k |-> Times(w[p], g[e[p]])]
  OBVIOUS
<1>12. bb \in RowsOf(k) /\ \A p \in 1 .. k : bb[p] = Times(w[p], g[e[p]])
  <2>1. \A p \in 1 .. k : w[p] \in Numbers /\ g[e[p]] \in Numbers
    BY <1>4 DEF RowsOf, Square
  <2>2. \A p \in 1 .. k : Times(w[p], g[e[p]]) \in Numbers
    BY <2>1, TimesNumber
  <2> QED
    BY <1>11, <2>2 DEF RowsOf, Square
<1>13. VecSum(bb) = VecSum(uu)
  BY <1>4, <1>8, <1>12 DEF SumsAgree
<1>14. k * n \in Nat
  OBVIOUS
<1>15. BlockSums(bb, u, k, n)
  <2> SUFFICES ASSUME NEW p \in 1 .. k
               PROVE  \E c \in [1 .. n -> Numbers] : bb[p] = VecSum(c)
                        /\ \A j \in 1 .. n : c[j] = u[(p - 1) * n + j]
    BY DEF BlockSums
  <2>1. \A j \in 1 .. n : (p - 1) * n + j \in 1 .. k * n
    BY BlockPlace
  <2>2. PICK c : c = [j \in 1 .. n |-> u[(p - 1) * n + j]]
    OBVIOUS
  <2>3. c \in [1 .. n -> Numbers] /\ \A j \in 1 .. n : c[j] = u[(p - 1) * n + j]
    BY <2>1, <2>2 DEF RowsOf, Square
  <2>4. PICK i \in 1 .. n, a \in Numbers : i = e[p] /\ a = w[p]
    BY DEF RowsOf, Square
  <2>5. IsScaled(c, H(i), a, n)
    <3> SUFFICES ASSUME NEW j \in 1 .. n PROVE c[j] = Times(H(i)[j], a)
      BY DEF IsScaled
    <3>1. PICK q \in Numbers, s \in Numbers, y \in Numbers : q = et[i][j] /\ s = es[j] /\ y = f[j]
      BY DEF RowsOf, Square
    <3>2. H(i)[j] = Times(q, Times(y, s))
      BY <1>1, <3>1
    <3>3. c[j] = Times(w1[(p - 1) * n + j], f[e1[(p - 1) * n + j]])
      BY <2>1, <2>3
    <3>4. c[j] = Times(Times(a, Times(q, s)), y)
      BY <2>4, <3>1, <3>3 DEF Prolongs
    <3>5. Times(q, s) \in Numbers /\ Times(y, s) \in Numbers /\ Times(Times(q, s), y) \in Numbers
      BY TimesNumber
    <3>6. Times(Times(a, Times(q, s)), y) = Times(a, Times(Times(q, s), y))
      BY <3>5, TimesRegroups
    <3>7. Times(Times(q, s), y) = Times(q, Times(y, s))
      BY TimesRegroups, TimesTurns
    <3>8. Times(a, Times(Times(q, s), y)) = Times(Times(Times(q, s), y), a)
      BY <3>5, TimesTurns
    <3> QED
      BY <3>2, <3>4, <3>6, <3>7, <3>8
  <2>6. H(i) \in [1 .. n -> Numbers]
    BY <1>1
  <2>7. VecSum(c) = Times(VecSum(H(i)), a) /\ VecSum(H(i)) \in Numbers
    BY <2>3, <2>5, <2>6, SumOfTimes, SumNumber
  <2>8. bb[p] = Times(a, VecSum(H(i)))
    BY <1>4, <1>12, <2>4
  <2>9. Times(a, VecSum(H(i))) = Times(VecSum(H(i)), a)
    BY <2>7, TimesTurns
  <2> QED
    BY <2>3, <2>7, <2>8, <2>9
<1>16. VecSum(u) = VecSum(bb)
  <2>1. u \in [1 .. k * n -> Numbers] /\ bb \in [1 .. k -> Numbers]
    BY <1>12 DEF RowsOf, Square
  <2> QED
    BY <1>15, <2>1, SumOfBlocks, ZenonT(60)
<1> QED
  BY <1>10, <1>13, <1>16

-----------------------------------------------------------------------------
(* Recursion along the items.                                              *)

(* Recursion from the first of the places on, and from the last one back.  *)
Steps(s, m, first, step) == s[1] = first /\ \A k \in 1 .. (m - 1) : s[k + 1] = step[s[k], k + 1]
StepsBack(s, m, last, step) == s[m] = last /\ \A k \in 1 .. (m - 1) : s[k] = step[s[k + 1], k]

(* Both have solutions.                                                    *)
LEMMA Onward ==
  ASSUME NEW m \in Nat \ {0}, NEW X, NEW first \in X, NEW step \in [X \X (1 .. m) -> X]
  PROVE  \E s \in [1 .. m -> X] : Steps(s, m, first, step)
<1> DEFINE Go(x, k) == IF k = 1 THEN first ELSE step[x, k]
<1>1. \A x \in X, k \in 1 .. m : Go(x, k) \in X
  OBVIOUS
<1> HIDE DEF Go
<1> DEFINE go == [q \in X \X (1 .. m) |-> Go(q[1], q[2])]
<1>2. go \in [X \X (1 .. m) -> X]
  BY <1>1
<1>3. ASSUME NEW x \in X, NEW k \in 1 .. m PROVE go[x, k] = Go(x, k)
  <2>1. << x, k >> \in X \X (1 .. m) /\ << x, k >>[1] = x /\ << x, k >>[2] = k
    OBVIOUS
  <2> QED
    BY <2>1, Zenon
<1> HIDE DEF go
<1>4. PICK r \in [0 .. m -> X] : Recurs(r, m, first, go)
  BY <1>2, Recursion
<1>5. \A k \in 1 .. m : r[k] = Go(r[k - 1], k)
  <2> SUFFICES ASSUME NEW k \in 1 .. m PROVE r[k] = Go(r[k - 1], k)
    OBVIOUS
  <2>1. k - 1 \in 0 .. m
    OBVIOUS
  <2>2. r[k] = go[r[k - 1], k]
    BY <1>4 DEF Recurs
  <2>3. r[k - 1] \in X
    BY <2>1
  <2> QED
    BY <1>3, <2>2, <2>3
<1>6. PICK s : s = [k \in 1 .. m |-> r[k]]
  OBVIOUS
<1>7. s \in [1 .. m -> X] /\ \A k \in 1 .. m : s[k] = r[k]
  BY <1>6
<1>8. s[1] = first
  <2>1. 1 \in 1 .. m
    OBVIOUS
  <2> QED
    BY <1>5, <1>7, <2>1 DEF Go
<1>9. ASSUME NEW k \in 1 .. (m - 1) PROVE s[k + 1] = step[s[k], k + 1]
  <2>1. k \in 1 .. m /\ k + 1 \in 1 .. m /\ (k + 1) - 1 = k /\ k + 1 # 1
    OBVIOUS
  <2>2. r[k + 1] = Go(r[k], k + 1)
    BY <1>5, <2>1
  <2> QED
    BY <1>7, <2>1, <2>2 DEF Go
<1> QED
  BY <1>7, <1>8, <1>9 DEF Steps

LEMMA Backward ==
  ASSUME NEW m \in Nat \ {0}, NEW X, NEW last \in X, NEW step \in [X \X (1 .. m) -> X]
  PROVE  \E s \in [1 .. m -> X] : StepsBack(s, m, last, step)
<1> DEFINE Go(x, k) == step[x, (m + 1) - k]
<1>1. \A x \in X, k \in 1 .. m : Go(x, k) \in X
  <2> SUFFICES ASSUME NEW x \in X, NEW k \in 1 .. m PROVE step[x, (m + 1) - k] \in X
    OBVIOUS
  <2>1. (m + 1) - k \in 1 .. m
    OBVIOUS
  <2> QED
    BY <2>1
<1> HIDE DEF Go
<1> DEFINE go == [q \in X \X (1 .. m) |-> Go(q[1], q[2])]
<1>2. go \in [X \X (1 .. m) -> X]
  BY <1>1
<1>3. ASSUME NEW x \in X, NEW k \in 1 .. m PROVE go[x, k] = Go(x, k)
  <2>1. << x, k >> \in X \X (1 .. m) /\ << x, k >>[1] = x /\ << x, k >>[2] = k
    OBVIOUS
  <2> QED
    BY <2>1, Zenon
<1> HIDE DEF go
<1>4. PICK r \in [1 .. m -> X] : r[1] = last /\ \A k \in 1 .. (m - 1) : r[k + 1] = go[r[k], k + 1]
  <2>1. \E r \in [1 .. m -> X] : Steps(r, m, last, go)
    BY <1>2, Onward
  <2> QED
    BY <2>1 DEF Steps
<1>5. PICK s : s = [k \in 1 .. m |-> r[(m + 1) - k]]
  OBVIOUS
<1>6. s \in [1 .. m -> X] /\ \A k \in 1 .. m : s[k] = r[(m + 1) - k]
  <2>1. \A k \in 1 .. m : (m + 1) - k \in 1 .. m
    OBVIOUS
  <2> QED
    BY <1>5, <2>1
<1>7. s[m] = last
  <2>1. m \in 1 .. m /\ (m + 1) - m = 1
    OBVIOUS
  <2> QED
    BY <1>4, <1>6, <2>1
<1>8. ASSUME NEW k \in 1 .. (m - 1) PROVE s[k] = step[s[k + 1], k]
  <2>1. PICK l \in 1 .. (m - 1) : l = m - k
    OBVIOUS
  <2>2. k \in 1 .. m /\ k + 1 \in 1 .. m /\ l + 1 \in 1 .. m /\ l \in 1 .. m
        /\ (m + 1) - k = l + 1 /\ (m + 1) - (k + 1) = l /\ (m + 1) - (l + 1) = k
    BY <2>1
  <2>3. s[k] = r[l + 1] /\ s[k + 1] = r[l] /\ r[l] \in X
    BY <1>6, <2>2
  <2>4. r[l + 1] = Go(r[l], l + 1)
    BY <1>3, <1>4, <2>1, <2>2
  <2> QED
    BY <2>2, <2>3, <2>4 DEF Go
<1> QED
  BY <1>6, <1>7, <1>8 DEF StepsBack

LEMMA ReachedExists ==
  ASSUME NEW m \in Nat \ {0}, NEW n \in Nat, NEW et \in Square(n), NEW es \in [1 .. m -> RowsOf(n)]
  PROVE  \E z : Reached(z, m, n, et, es)
<1> DEFINE C(x, j) == [i \in 1 .. n |-> Times(x[i], et[i][j])]
           Go(x, k) == [j \in 1 .. n |-> Times(VecSum(C(x, j)), es[k][j])]
<1>1. ASSUME NEW x \in RowsOf(n), NEW j \in 1 .. n
      PROVE  C(x, j) \in RowsOf(n) /\ (\A i \in 1 .. n : C(x, j)[i] = Times(x[i], et[i][j]))
               /\ VecSum(C(x, j)) \in Numbers
  <2>1. \A i \in 1 .. n : x[i] \in Numbers /\ et[i][j] \in Numbers
    BY DEF RowsOf, Square
  <2>2. \A i \in 1 .. n : Times(x[i], et[i][j]) \in Numbers
    BY <2>1, TimesNumber
  <2>3. C(x, j) \in [1 .. n -> Numbers] /\ \A i \in 1 .. n : C(x, j)[i] = Times(x[i], et[i][j])
    BY <2>2
  <2> HIDE DEF C
  <2> QED
    BY <2>3, SumNumber DEF RowsOf
<1> HIDE DEF C
<1>2. ASSUME NEW x \in RowsOf(n), NEW k \in 1 .. m
      PROVE  Go(x, k) \in RowsOf(n) /\ Reaches(Go(x, k), x, et, es[k], n)
  <2>1. \A j \in 1 .. n : VecSum(C(x, j)) \in Numbers /\ es[k][j] \in Numbers
    BY <1>1 DEF RowsOf
  <2>2. \A j \in 1 .. n : Times(VecSum(C(x, j)), es[k][j]) \in Numbers
    BY <2>1, TimesNumber
  <2>3. Go(x, k) \in RowsOf(n) /\ \A j \in 1 .. n : Go(x, k)[j] = Times(VecSum(C(x, j)), es[k][j])
    BY <2>2 DEF RowsOf
  <2> HIDE DEF Go
  <2> QED
    BY <1>1, <2>3 DEF Reaches
<1> HIDE DEF Go
<1> DEFINE step == [q \in RowsOf(n) \X (1 .. m) |-> Go(q[1], q[2])]
<1>3. step \in [RowsOf(n) \X (1 .. m) -> RowsOf(n)]
  BY <1>2
<1>4. ASSUME NEW x \in RowsOf(n), NEW k \in 1 .. m PROVE step[x, k] = Go(x, k)
  <2>1. << x, k >> \in RowsOf(n) \X (1 .. m) /\ << x, k >>[1] = x /\ << x, k >>[2] = k
    OBVIOUS
  <2> QED
    BY <2>1, Zenon
<1> HIDE DEF step
<1>5. es[1] \in RowsOf(n)
  OBVIOUS
<1>6. PICK z \in [1 .. m -> RowsOf(n)] : z[1] = es[1] /\ \A k \in 1 .. (m - 1) : z[k + 1] = step[z[k], k + 1]
  <2>1. \E z \in [1 .. m -> RowsOf(n)] : Steps(z, m, es[1], step)
    BY <1>3, <1>5, Onward
  <2> QED
    BY <2>1 DEF Steps
<1>7. ASSUME NEW t \in 1 .. (m - 1) PROVE Reaches(z[t + 1], z[t], et, es[t + 1], n)
  <2>1. t \in 1 .. m /\ t + 1 \in 1 .. m
    OBVIOUS
  <2>2. z[t] \in RowsOf(n)
    BY <2>1
  <2>3. z[t + 1] = Go(z[t], t + 1)
    BY <1>4, <1>6, <2>1, <2>2
  <2> QED
    BY <1>2, <2>1, <2>2, <2>3
<1>8. Reached(z, m, n, et, es)
  BY <1>6, <1>7 DEF Reached
<1> QED
  BY <1>8

(* What reaches an item is the same until the states of an item differ.    *)
Shares(z, r, es, fs, n) ==
  \A j \in 1 .. n : \E s \in Numbers : z[j] = Times(s, es[j]) /\ r[j] = Times(s, fs[j])

LEMMA ReachedShare ==
  ASSUME NEW m \in Nat \ {0}, NEW n \in Nat, NEW et \in Square(n), NEW es \in [1 .. m -> RowsOf(n)],
         NEW fs \in [1 .. m -> RowsOf(n)],
         NEW z, Reached(z, m, n, et, es), NEW r, Reached(r, m, n, et, fs),
         NEW x \in 1 .. m, \A t \in 1 .. (x - 1) : fs[t] = es[t]
  PROVE  Shares(z[x], r[x], es[x], fs[x], n)
<1>1. z \in [1 .. m -> RowsOf(n)] /\ r \in [1 .. m -> RowsOf(n)]
  BY DEF Reached
<1> DEFINE Right(t) == Shares(z[t], r[t], es[t], fs[t], n)
           S == { k \in 0 .. (x - 1) : Right(k + 1) }
<1>2. Right(1)
  <2> SUFFICES ASSUME NEW j \in 1 .. n
               PROVE \E s \in Numbers : z[1][j] = Times(s, es[1][j]) /\ r[1][j] = Times(s, fs[1][j])
    BY DEF Shares
  <2>1. PICK a \in Numbers, b \in Numbers : a = es[1][j] /\ b = fs[1][j]
    <3>1. 1 \in 1 .. m
      OBVIOUS
    <3>2. es[1] \in RowsOf(n) /\ fs[1] \in RowsOf(n)
      BY <3>1
    <3>3. es[1][j] \in Numbers /\ fs[1][j] \in Numbers
      BY <3>2 DEF RowsOf
    <3> QED
      BY <3>3
  <2>2. One \in Numbers
    BY ZeroNumber
  <2>3. Times(One, a) = a /\ Times(One, b) = b
    BY <2>2, Neutral, TimesTurns
  <2>4. z[1][j] = es[1][j] /\ r[1][j] = fs[1][j]
    BY DEF Reached
  <2> QED
    BY <2>1, <2>2, <2>3, <2>4
<1>3. ASSUME NEW k \in 0 .. ((x - 1) - 1), Right(k + 1) PROVE Right((k + 1) + 1)
  <2>1. PICK t \in 1 .. (m - 1) : t = k + 1
    OBVIOUS
  <2>2. t \in 1 .. m /\ t + 1 \in 1 .. m /\ t \in 1 .. (x - 1)
    BY <2>1
  <2>3. PICK f \in RowsOf(n), g \in RowsOf(n) : f = z[t] /\ g = r[t]
    BY <1>1, <2>2
  <2>4. Shares(f, g, es[t], fs[t], n) /\ fs[t] = es[t]
    BY <1>3, <2>1, <2>2, <2>3
  <2>5. \A i \in 1 .. n : f[i] = g[i]
    BY <2>4 DEF Shares
  <2>6. Reaches(z[t + 1], f, et, es[t + 1], n) /\ Reaches(r[t + 1], g, et, fs[t + 1], n)
    BY <2>3 DEF Reached
  <2>7. Shares(z[t + 1], r[t + 1], es[t + 1], fs[t + 1], n)
    <3> SUFFICES ASSUME NEW j \in 1 .. n
                 PROVE \E s \in Numbers : z[t + 1][j] = Times(s, es[t + 1][j])
                         /\ r[t + 1][j] = Times(s, fs[t + 1][j])
      BY DEF Shares
    <3>1. PICK a \in RowsOf(n) : z[t + 1][j] = Times(VecSum(a), es[t + 1][j])
                 /\ \A i \in 1 .. n : a[i] = Times(f[i], et[i][j])
      BY <2>6 DEF Reaches
    <3>2. PICK b \in RowsOf(n) : r[t + 1][j] = Times(VecSum(b), fs[t + 1][j])
                 /\ \A i \in 1 .. n : b[i] = Times(g[i], et[i][j])
      BY <2>6 DEF Reaches
    <3>3. a = b
      <4>1. \A i \in 1 .. n : a[i] = b[i]
        BY <2>5, <3>1, <3>2
      <4> QED
        BY <4>1 DEF RowsOf
    <3>4. a \in [1 .. n -> Numbers]
      BY DEF RowsOf
    <3>5. VecSum(a) \in Numbers
      BY <3>4, SumNumber
    <3> QED
      BY <3>1, <3>2, <3>3, <3>5
  <2> QED
    BY <2>1, <2>7
<1> HIDE DEF Right
<1>4. x - 1 \in Nat /\ 0 \in S
  <2>1. 0 \in 0 .. (x - 1) /\ 0 + 1 = 1
    OBVIOUS
  <2>2. Right(0 + 1)
    BY <1>2, <2>1
  <2> QED
    BY <2>1, <2>2
<1>5. ASSUME NEW k \in 0 .. ((x - 1) - 1), k \in S PROVE k + 1 \in S
  <2>1. k + 1 \in 0 .. (x - 1)
    OBVIOUS
  <2> QED
    BY <1>3, <1>5, <2>1
<1>6. 0 .. (x - 1) \subseteq S
  <2> HIDE DEF S
  <2> QED
    BY <1>4, <1>5, IntervalInduction
<1>7. x - 1 \in 0 .. (x - 1) /\ (x - 1) + 1 = x
  OBVIOUS
<1>8. Right((x - 1) + 1)
  BY <1>6, <1>7
<1>9. Right(x)
  BY <1>7, <1>8
<1> QED
  BY <1>9 DEF Right

-----------------------------------------------------------------------------
(* Marginals.                                                              *)

(* The states fs are es but for an item x, where only the label l is left. *)
Only(fs, es, x, l, m, n) ==
  \A t \in 1 .. m : \A j \in 1 .. n : fs[t][j] = IF t = x /\ j # l THEN Zero ELSE es[t][j]

(* Then only the label l of x is reached, as before.                       *)
LEMMA OnlyReached ==
  ASSUME NEW m \in Nat \ {0}, NEW n \in Nat, NEW et \in Square(n), NEW es \in [1 .. m -> RowsOf(n)],
         NEW fs \in [1 .. m -> RowsOf(n)],
         NEW x \in 1 .. m, NEW l \in 1 .. n, Only(fs, es, x, l, m, n),
         NEW z, Reached(z, m, n, et, es), NEW r, Reached(r, m, n, et, fs)
  PROVE  /\ r[x][l] = z[x][l] /\ \A j \in 1 .. n : j # l => r[x][j] = Zero
         /\ Onwards(r, x, m, n, et, es)
<1>1. ASSUME NEW t \in 1 .. m, t # x PROVE fs[t] = es[t]
  <2>1. \A j \in 1 .. n : fs[t][j] = es[t][j]
    BY <1>1 DEF Only
  <2>2. fs[t] \in RowsOf(n) /\ es[t] \in RowsOf(n)
    OBVIOUS
  <2> QED
    BY <2>1, <2>2 DEF RowsOf
<1>2. \A t \in 1 .. (x - 1) : fs[t] = es[t]
  <2>1. \A t \in 1 .. (x - 1) : t \in 1 .. m /\ t # x
    OBVIOUS
  <2> QED
    BY <1>1, <2>1
<1>3. Shares(z[x], r[x], es[x], fs[x], n)
  BY <1>2, ReachedShare
<1>4. r[x][l] = z[x][l]
  BY <1>3 DEF Shares, Only
<1>5. ASSUME NEW j \in 1 .. n, j # l PROVE r[x][j] = Zero
  <2>1. PICK s \in Numbers : r[x][j] = Times(s, fs[x][j])
    BY <1>3 DEF Shares
  <2>2. fs[x][j] = Zero
    BY <1>5 DEF Only
  <2> QED
    BY <2>1, <2>2, Neutral
<1>6. Onwards(r, x, m, n, et, es)
  <2> SUFFICES ASSUME NEW t \in x .. (m - 1) PROVE Reaches(r[t + 1], r[t], et, es[t + 1], n)
    BY DEF Onwards
  <2>1. t \in 1 .. (m - 1) /\ t + 1 \in 1 .. m /\ t + 1 # x
    OBVIOUS
  <2>2. fs[t + 1] = es[t + 1]
    BY <1>1, <2>1
  <2>3. Reaches(r[t + 1], r[t], et, fs[t + 1], n)
    BY <2>1 DEF Reached
  <2> QED
    BY <2>2, <2>3
<1> QED
  BY <1>4, <1>5, <1>6

(* What crf1dc_alpha_score and crf1dc_beta_score leave.                    *)
Left(a, b, c, p, m, n, et, es) ==
  /\ Lattice(m, n, et, es) /\ KeptOn(a, c, m, n, et, es) /\ KeptBack(b, c, m, n, et, es)
  /\ p \in [0 .. m -> Numbers] /\ Multiplies(p, c, m)

(* lognorm is the logarithm of the sum over all paths.                     *)
LEMMA NormMeets ==
  ASSUME NEW a, NEW b, NEW c, NEW p, NEW m, NEW n, NEW et, NEW es, Left(a, b, c, p, m, n, et, es),
         NEW z, Reached(z, m, n, et, es)
  PROVE  /\ Over(One, p[m]) = VecSum(z[m]) /\ VecSum(z[m]) \in Numbers /\ Positive(VecSum(z[m]))
         /\ p[m] \in Numbers /\ Positive(p[m]) /\ Times(VecSum(z[m]), p[m]) = One
<1>1. Lattice(m, n, et, es) /\ KeptOn(a, c, m, n, et, es) /\ p \in [0 .. m -> Numbers] /\ Multiplies(p, c, m)
  BY DEF Left
<1>2. m \in Nat \ {0} /\ n \in Nat \ {0} /\ m \in 1 .. m /\ m \in 0 .. m
  BY <1>1 DEF Lattice
<1>3. KeepsOn(a, c, p, z, m, n)
  BY <1>1, ForwardKeeps
<1>4. (\A j \in 1 .. n : Positive(z[m][j])) /\ Positive(p[m]) /\ Times(VecSum(z[m]), p[m]) = One
  BY <1>2, <1>3 DEF KeepsOn
<1>5. PICK w : w = z[m]
  OBVIOUS
<1>6. w \in [1 .. n -> Numbers]
  BY <1>2, <1>5 DEF Reached, RowsOf
<1>7. VecSum(w) \in Numbers /\ Positive(VecSum(w))
  <2>1. \A j \in 1 .. n : Positive(w[j])
    BY <1>4, <1>5
  <2> QED
    BY <1>2, <1>6, <2>1, SumPositive
<1>8. PICK s \in Numbers, q \in Numbers : s = VecSum(w) /\ q = p[m]
  BY <1>1, <1>2, <1>7
<1>9. One \in Numbers
  BY ZeroNumber
<1>10. Over(One, q) = s
  BY <1>4, <1>5, <1>8, <1>9, OverIs
<1> QED
  BY <1>4, <1>5, <1>7, <1>8, <1>10

(* And the marginal of a label that of the paths through it.               *)
LEMMA MarginalMeets ==
  ASSUME NEW a, NEW b, NEW c, NEW p, NEW m, NEW n, NEW et, NEW es, Left(a, b, c, p, m, n, et, es),
         NEW z, Reached(z, m, n, et, es), NEW x \in 1 .. m, NEW l \in 1 .. n,
         NEW fs \in [1 .. m -> RowsOf(n)], Only(fs, es, x, l, m, n), NEW r, Reached(r, m, n, et, fs)
  PROVE  /\ Over(Times(a[x][l], b[x][l]), c[x]) = Over(VecSum(r[m]), VecSum(z[m]))
         /\ Over(Times(a[x][l], b[x][l]), c[x]) \in Numbers
<1>1. /\ Lattice(m, n, et, es) /\ KeptOn(a, c, m, n, et, es) /\ KeptBack(b, c, m, n, et, es)
      /\ p \in [0 .. m -> Numbers] /\ Multiplies(p, c, m)
  BY DEF Left
<1>2. m \in Nat \ {0} /\ n \in Nat /\ et \in Square(n) /\ es \in [1 .. m -> RowsOf(n)]
  BY <1>1 DEF Lattice, Square
<1>3. a[x][l] = Times(z[x][l], p[x]) /\ Positive(c[x])
  <2>1. KeepsOn(a, c, p, z, m, n)
    BY <1>1, ForwardKeeps
  <2> QED
    BY <2>1 DEF KeepsOn
<1>4. r[x][l] = z[x][l] /\ (\A j \in 1 .. n : j # l => r[x][j] = Zero) /\ Onwards(r, x, m, n, et, es)
  BY <1>2, OnlyReached
<1>5. r \in [1 .. m -> RowsOf(n)] /\ z \in [1 .. m -> RowsOf(n)] /\ b \in [1 .. m -> RowsOf(n)]
        /\ c \in [1 .. m -> Numbers]
  BY <1>1 DEF Reached, KeptOn, KeptBack
<1>6. PICK Z \in Numbers, B \in Numbers, C \in Numbers, P \in Numbers : Z = z[x][l] /\ B = b[x][l]
             /\ C = c[x] /\ P = p[x - 1]
  <2>1. z[x] \in RowsOf(n) /\ b[x] \in RowsOf(n) /\ c[x] \in Numbers /\ x - 1 \in 0 .. m
    BY <1>2, <1>5
  <2>2. z[x][l] \in Numbers /\ b[x][l] \in Numbers /\ p[x - 1] \in Numbers
    BY <1>1, <2>1 DEF RowsOf
  <2> QED
    BY <2>1, <2>2
<1>7. PICK u : u = [j \in 1 .. n |-> Times(r[x][j], b[x][j])]
  OBVIOUS
<1>8. u \in RowsOf(n) /\ Paired(u, r[x], b[x], n)
  <2>1. \A j \in 1 .. n : r[x][j] \in Numbers /\ b[x][j] \in Numbers
    BY <1>5 DEF RowsOf
  <2>2. \A j \in 1 .. n : Times(r[x][j], b[x][j]) \in Numbers
    BY <2>1, TimesNumber
  <2> QED
    BY <1>7, <2>2 DEF RowsOf, Paired
<1>9. VecSum(u) = Times(Z, B)
  <2>1. \A j \in 1 .. n : b[x][j] \in Numbers
    BY <1>5 DEF RowsOf
  <2>2. OnlyAt(u, l, n)
    BY <1>4, <1>8, <2>1, Neutral DEF Paired, OnlyAt
  <2>3. u[l] = Times(Z, B)
    BY <1>4, <1>6, <1>8 DEF Paired
  <2>4. u \in [1 .. n -> Numbers]
    BY <1>8 DEF RowsOf
  <2> QED
    BY <1>2, <2>2, <2>3, <2>4, SumOfOne
<1>10. Times(P, VecSum(u)) = Times(p[m], VecSum(r[m])) /\ VecSum(r[m]) \in Numbers
  <2>1. Times(p[x - 1], VecSum(u)) = Times(p[m], VecSum(r[m])) /\ VecSum(r[m]) \in Numbers
    BY <1>1, <1>2, <1>4, <1>5, <1>8, BackwardMeets
  <2> QED
    BY <1>6, <2>1
<1>11. p[x] = Times(P, C)
  BY <1>1, <1>6 DEF Multiplies
<1>12. PICK V \in Numbers, R \in Numbers, Q \in Numbers : V = VecSum(z[m]) /\ R = VecSum(r[m]) /\ Q = p[m]
  BY <1>10, NormMeets
<1>13. Positive(V) /\ Times(V, Q) = One
  BY <1>12, NormMeets
<1>14. Over(R, V) = Times(R, Q)
  BY <1>13, OverByInverse
<1>15. PICK A \in Numbers, K \in Numbers : A = Times(Z, Times(P, C)) /\ K = Times(P, Times(Z, B))
  <2>1. Times(P, C) \in Numbers /\ Times(Z, B) \in Numbers
    BY TimesNumber
  <2> QED
    BY <2>1, TimesNumber
<1>16. Times(K, C) = Times(A, B)
  <2>1. Times(P, C) \in Numbers /\ Times(P, Z) \in Numbers
    BY TimesNumber
  <2>2. K = Times(Times(P, Z), B) /\ A = Times(Times(P, Z), C)
    <3>1. Times(P, Times(Z, B)) = Times(Times(P, Z), B)
      BY TimesRegroups
    <3>2. Times(Z, Times(P, C)) = Times(P, Times(Z, C)) /\ Times(P, Times(Z, C)) = Times(Times(P, Z), C)
      BY TimesExchanged, TimesRegroups
    <3> QED
      BY <1>15, <3>1, <3>2
  <2> QED
    BY <2>1, <2>2, TimesExchanged
<1>17. Times(A, B) \in Numbers /\ Times(R, Q) \in Numbers
  BY TimesNumber
<1>18. Over(Times(A, B), C) = K
  BY <1>3, <1>6, <1>16, <1>17, OverIs
<1>19. K = Times(R, Q)
  <2>1. Times(Q, R) = Times(R, Q)
    BY TimesTurns
  <2> QED
    BY <1>9, <1>10, <1>12, <1>15, <2>1
<1> QED
  BY <1>3, <1>6, <1>11, <1>12, <1>14, <1>15, <1>17, <1>18, <1>19

-----------------------------------------------------------------------------
(* Paths in a row.                                                         *)

(* Rows of paths of 1, 2, ..., m items: w their weights, e their last      *)
(* labels, s how many they are.                                            *)
Enumerates(w, e, s, m, n, et, es) ==
  /\ s \in [1 .. m -> Nat] /\ s[1] = n
  /\ \A k \in 1 .. m : w[k] \in RowsOf(s[k]) /\ e[k] \in [1 .. s[k] -> 1 .. n]
  /\ \A j \in 1 .. n : w[1][j] = es[1][j] /\ e[1][j] = j
  /\ \A k \in 1 .. (m - 1) :
       s[k + 1] = s[k] * n /\ Prolongs(w[k + 1], e[k + 1], w[k], e[k], s[k], n, et, es[k + 1])

(* The sum over the paths in a row is what is reached.                     *)
LEMMA PathSums ==
  ASSUME NEW m \in Nat \ {0}, NEW n \in Nat, NEW et \in Square(n), NEW es \in [1 .. m -> RowsOf(n)],
         NEW z, Reached(z, m, n, et, es), NEW w, NEW e, NEW s, Enumerates(w, e, s, m, n, et, es)
  PROVE  VecSum(w[m]) = VecSum(z[m])
<1>1. z \in [1 .. m -> RowsOf(n)]
  BY DEF Reached
<1>2. \A k \in 1 .. m : s[k] \in Nat /\ w[k] \in RowsOf(s[k]) /\ e[k] \in [1 .. s[k] -> 1 .. n]
  BY DEF Enumerates
<1> DEFINE Right(k) == SumsAgree(w[k], e[k], s[k], z[k], n)
           S == { k \in 0 .. m : k \in 1 .. m => Right(k) }
<1>3. Right(1)
  <2>1. 1 \in 1 .. m /\ s[1] = n
    BY DEF Enumerates
  <2>2. PICK a \in RowsOf(n), y \in RowsOf(n), f1 \in [1 .. n -> 1 .. n] : a = w[1] /\ y = z[1] /\ f1 = e[1]
    BY <1>1, <1>2, <2>1
  <2>3. \A j \in 1 .. n : a[j] = y[j] /\ f1[j] = j
    BY <2>1, <2>2 DEF Reached, Enumerates
  <2>4. SumsAgree(a, f1, n, y, n)
    <3> SUFFICES ASSUME NEW f \in RowsOf(n), NEW u \in RowsOf(n), NEW v \in RowsOf(n),
                        \A p \in 1 .. n : u[p] = Times(a[p], f[f1[p]]), Paired(v, y, f, n)
                 PROVE  VecSum(u) = VecSum(v)
      BY DEF SumsAgree
    <3>1. \A p \in 1 .. n : u[p] = v[p]
      BY <2>3 DEF Paired
    <3>2. u = v
      BY <3>1 DEF RowsOf
    <3> QED
      BY <3>2
  <2> QED
    BY <2>1, <2>2, <2>4
<1>4. ASSUME NEW k \in 1 .. (m - 1), Right(k) PROVE Right(k + 1)
  <2>1. k \in 1 .. m /\ k + 1 \in 1 .. m
    OBVIOUS
  <2>2. PICK l \in Nat : l = s[k] /\ s[k + 1] = l * n
    BY <1>2, <2>1 DEF Enumerates
  <2>3. PICK a \in RowsOf(l), a1 \in RowsOf(l * n), g \in [1 .. l -> 1 .. n], g1 \in [1 .. l * n -> 1 .. n],
             y \in RowsOf(n), y1 \in RowsOf(n), h \in RowsOf(n) :
          a = w[k] /\ a1 = w[k + 1] /\ g = e[k] /\ g1 = e[k + 1] /\ y = z[k] /\ y1 = z[k + 1] /\ h = es[k + 1]
    <3>1. w[k] \in RowsOf(l) /\ w[k + 1] \in RowsOf(l * n) /\ e[k] \in [1 .. l -> 1 .. n]
            /\ e[k + 1] \in [1 .. l * n -> 1 .. n]
      BY <1>2, <2>1, <2>2
    <3>2. z[k] \in RowsOf(n) /\ z[k + 1] \in RowsOf(n) /\ es[k + 1] \in RowsOf(n)
      BY <1>1, <2>1
    <3> QED
      BY <3>1, <3>2, Zenon
  <2>4. Prolongs(a1, g1, a, g, l, n, et, h)
    BY <2>2, <2>3 DEF Enumerates
  <2>5. Reaches(y1, y, et, h, n)
    BY <2>3 DEF Reached
  <2>6. SumsAgree(a, g, l, y, n)
    BY <1>4, <2>2, <2>3
  <2>7. SumsAgree(a1, g1, l * n, y1, n)
    BY <2>4, <2>5, <2>6, SumsProlonged
  <2> QED
    BY <2>2, <2>3, <2>7
<1> HIDE DEF Right
<1>5. 0 \in S
  OBVIOUS
<1>6. ASSUME NEW k \in 0 .. (m - 1), k \in S PROVE k + 1 \in S
  <2>1. k + 1 \in 0 .. m
    OBVIOUS
  <2>2. CASE k = 0
    BY <1>3, <2>1, <2>2
  <2>3. CASE k # 0
    <3>1. k \in 1 .. m /\ k \in 1 .. (m - 1)
      BY <2>3
    <3> QED
      BY <1>4, <1>6, <2>1, <3>1
  <2> QED
    BY <2>2, <2>3
<1>7. 0 .. m \subseteq S
  <2> HIDE DEF S
  <2> QED
    BY <1>5, <1>6, IntervalInduction
<1>8. m \in 1 .. m /\ m \in 0 .. m
  OBVIOUS
<1>9. SumsAgree(w[m], e[m], s[m], z[m], n)
  BY <1>7, <1>8 DEF Right
<1>0. PICK l \in Nat : l = s[m]
  BY <1>2, <1>8
<1>10. PICK a \in RowsOf(l), g \in [1 .. l -> 1 .. n], y \in RowsOf(n) : a = w[m] /\ g = e[m] /\ y = z[m]
  <2>1. w[m] \in RowsOf(l) /\ e[m] \in [1 .. l -> 1 .. n] /\ z[m] \in RowsOf(n)
    BY <1>0, <1>1, <1>2, <1>8
  <2> QED
    BY <2>1, Zenon
<1>11. PICK f : f = [j \in 1 .. n |-> One]
  OBVIOUS
<1>12. f \in RowsOf(n) /\ \A j \in 1 .. n : f[j] = One
  BY <1>11, ZeroNumber DEF RowsOf
<1>13. \A p \in 1 .. l : a[p] = Times(a[p], f[g[p]])
  BY <1>12, Neutral DEF RowsOf
<1>14. Paired(y, y, f, n)
  BY <1>12, Neutral DEF RowsOf, Paired
<1>15. SumsAgree(a, g, l, y, n)
  BY <1>0, <1>9, <1>10
<1>16. VecSum(a) = VecSum(y)
  BY <1>12, <1>13, <1>14, <1>15 DEF SumsAgree
<1> QED
  BY <1>10, <1>16

-----------------------------------------------------------------------------
(* The best path.                                                          *)

(* The first of the greatest.                                              *)
FirstGreatest(i, score, n) ==
  i \in 1 .. n /\ \A k \in 1 .. n : score[k] < score[i] \/ (score[k] = score[i] /\ i <= k)

LEMMA FirstGreatestExists ==
  ASSUME NEW n \in Nat \ {0}, NEW score \in [1 .. n -> Int]
  PROVE  \E i \in 1 .. n : FirstGreatest(i, score, n)
<1> DEFINE Right(m) == m \in 1 .. n => \E i \in 1 .. m : FirstGreatest(i, score, m)
           S == { m \in 0 .. n : Right(m) }
<1>1. 0 \in S
  OBVIOUS
<1>2. ASSUME NEW m \in 0 .. (n - 1), m \in S PROVE m + 1 \in S
  <2>1. m + 1 \in 1 .. n /\ m + 1 \in 0 .. n /\ m \in Nat /\ \A k \in 1 .. (m + 1) : k \in 1 .. m \/ k = m + 1
    OBVIOUS
  <2>2. CASE m = 0
    <3>1. FirstGreatest(1, score, 1)
      BY DEF FirstGreatest
    <3> QED
      BY <2>1, <2>2, <3>1
  <2>3. CASE m # 0
    <3>1. m \in 1 .. n
      BY <2>3
    <3>2. PICK i \in 1 .. m : FirstGreatest(i, score, m)
      BY <1>2, <3>1
    <3>3. \A k \in 1 .. m : score[k] < score[i] \/ (score[k] = score[i] /\ i <= k)
      BY <3>2 DEF FirstGreatest
    <3>4. score[i] \in Int /\ score[m + 1] \in Int /\ (\A k \in 1 .. m : score[k] \in Int)
      BY <2>1, <3>1
    <3>5. CASE score[m + 1] <= score[i]
      <4>1. i \in 1 .. (m + 1) /\ i <= m + 1
        BY <3>1
      <4>2. FirstGreatest(i, score, m + 1)
        BY <2>1, <3>3, <3>4, <3>5, <4>1 DEF FirstGreatest
      <4> QED
        BY <2>1, <4>1, <4>2
    <3>6. CASE score[i] < score[m + 1]
      <4>1. m + 1 \in 1 .. (m + 1)
        BY <3>1
      <4>2. \A k \in 1 .. m : score[k] < score[m + 1]
        BY <3>3, <3>4, <3>6
      <4>3. FirstGreatest(m + 1, score, m + 1)
        BY <2>1, <4>1, <4>2 DEF FirstGreatest
      <4> QED
        BY <2>1, <4>1, <4>3
    <3> QED
      BY <3>4, <3>5, <3>6
  <2> QED
    BY <2>2, <2>3
<1>3. 0 .. n \subseteq S
  <2> HIDE DEF S
  <2> QED
    BY <1>1, <1>2, IntervalInduction
<1>4. n \in 0 .. n /\ n \in 1 .. n
  OBVIOUS
<1> QED
  BY <1>3, <1>4

(* The rows of crf1dc_viterbi: for each label the best score of a path that*)
(* ends there, and where it comes from.                                    *)
Best(b, m, n, ts, st) ==
  /\ \A k \in 1 .. m : \A j \in 1 .. n : b[k][j].score \in Int
  /\ \A j \in 1 .. n : b[1][j].score = st[1][j]
  /\ \A k \in 1 .. (m - 1) : \A j \in 1 .. n :
       /\ b[k + 1][j].back \in 1 .. n
       /\ b[k + 1][j].score = b[k][b[k + 1][j].back].score + ts[b[k + 1][j].back][j] + st[k + 1][j]
       /\ \A i \in 1 .. n : b[k][i].score + ts[i][j] + st[k + 1][j] <= b[k + 1][j].score

(* What the items of a path add to its score.                              *)
Adds(row, q, m, ts, st) ==
  /\ row[1] = st[1][q[1]]
  /\ \A k \in 1 .. (m - 1) : row[k + 1] = st[k + 1][q[k + 1]] + ts[q[k]][q[k + 1]]

(* q goes back where b says.                                               *)
Traced(q, b, m) == \A k \in 1 .. (m - 1) : q[k] = b[k + 1][q[k + 1]].back

(* The score of q is at most that of its last label.                       *)
NotBetter(row, q, b, m) ==
  /\ IntSum(row) \in Int /\ IntSum(row) <= b[m][q[m]].score
  /\ Traced(q, b, m) => IntSum(row) = b[m][q[m]].score

(* No path is better than what its last label has; one that is traced back *)
(* is as good.                                                             *)
LEMMA NoneBetter ==
  ASSUME NEW m \in Nat \ {0}, NEW n \in Nat, NEW ts \in [1 .. n -> [1 .. n -> Int]],
         NEW st \in [1 .. m -> [1 .. n -> Int]],
         NEW b, Best(b, m, n, ts, st), NEW q \in [1 .. m -> 1 .. n],
         NEW row \in [1 .. m -> Int], Adds(row, q, m, ts, st)
  PROVE  NotBetter(row, q, b, m)
<1>1. PICK y \in [0 .. m -> Int] : AddsInts(y, row, m) /\ IntSum(row) = y[m]
  BY IntSumHas
<1> DEFINE Right(k) == y[k] <= b[k][q[k]].score /\ (Traced(q, b, m) => y[k] = b[k][q[k]].score)
           S == { k \in 0 .. m : k \in 1 .. m => Right(k) }
<1>2. Right(1)
  <2>1. 1 \in 1 .. m /\ 1 - 1 = 0 /\ q[1] \in 1 .. n
    OBVIOUS
  <2>2. PICK j \in 1 .. n : j = q[1]
    BY <2>1
  <2>3. st[1][j] \in Int
    BY <2>1
  <2>4. PICK D \in Int : D = st[1][j]
    BY <2>3
  <2>5. row[1] = D /\ b[1][j].score = D
    BY <2>2, <2>4 DEF Adds, Best
  <2>6. y[0] = 0 /\ y[1] = y[0] + row[1]
    BY <1>1, <2>1 DEF AddsInts
  <2>7. y[1] = D
    BY <2>5, <2>6
  <2> QED
    BY <2>2, <2>5, <2>7
<1>3. ASSUME NEW k \in 1 .. (m - 1), Right(k) PROVE Right(k + 1)
  <2>1. k \in 1 .. m /\ k + 1 \in 1 .. m /\ k \in 0 .. m /\ (k + 1) - 1 = k /\ k + 1 # 1
    OBVIOUS
  <2>2. PICK i \in 1 .. n, j \in 1 .. n : i = q[k] /\ j = q[k + 1]
    BY <2>1
  <2>3. PICK B \in Int, C \in Int, A \in Int, D \in Int : B = b[k][i].score /\ C = b[k + 1][j].score
               /\ A = ts[i][j] /\ D = st[k + 1][j]
    <3>1. b[k][i].score \in Int /\ b[k + 1][j].score \in Int
      BY <2>1 DEF Best
    <3>2. ts[i][j] \in Int /\ st[k + 1][j] \in Int
      BY <2>1
    <3> QED
      BY <3>1, <3>2
  <2>4. PICK Y \in Int, Z \in Int : Y = y[k] /\ Z = y[k + 1]
    <3>1. y[k] \in Int /\ y[k + 1] \in Int
      <4>1. k + 1 \in 0 .. m
        OBVIOUS
      <4> QED
        BY <2>1, <4>1
    <3> QED
      BY <3>1
  <2>5. row[k + 1] = D + A
    BY <2>1, <2>2, <2>3 DEF Adds
  <2>6. Z = Y + (D + A)
    BY <1>1, <2>1, <2>4, <2>5 DEF AddsInts
  <2>7. Y <= B /\ (Traced(q, b, m) => Y = B)
    BY <1>3, <2>2, <2>3, <2>4
  <2>8. B + A + D <= C
    BY <2>3 DEF Best
  <2>9. Traced(q, b, m) => C = B + A + D
    <3>1. SUFFICES ASSUME Traced(q, b, m) PROVE C = B + A + D
      OBVIOUS
    <3>2. i = b[k + 1][j].back
      BY <2>2, <3>1 DEF Traced
    <3> QED
      BY <2>3, <3>2 DEF Best
  <2>10. Z <= C /\ (Traced(q, b, m) => Z = C)
    BY <2>6, <2>7, <2>8, <2>9
  <2> QED
    BY <2>2, <2>3, <2>4, <2>10
<1> HIDE DEF Right
<1>4. 0 \in S
  OBVIOUS
<1>5. ASSUME NEW k \in 0 .. (m - 1), k \in S PROVE k + 1 \in S
  <2>1. k + 1 \in 0 .. m
    OBVIOUS
  <2>2. CASE k = 0
    BY <1>2, <2>1, <2>2
  <2>3. CASE k # 0
    <3>1. k \in 1 .. m /\ k \in 1 .. (m - 1)
      BY <2>3
    <3> QED
      BY <1>3, <1>5, <2>1, <3>1
  <2> QED
    BY <2>2, <2>3
<1>6. 0 .. m \subseteq S
  <2> HIDE DEF S
  <2> QED
    BY <1>4, <1>5, IntervalInduction
<1>7. m \in 1 .. m /\ m \in 0 .. m
  OBVIOUS
<1>8. Right(m)
  BY <1>6, <1>7
<1>9. y[m] \in Int
  BY <1>7
<1> QED
  BY <1>1, <1>8, <1>9 DEF Right, NotBetter

-----------------------------------------------------------------------------
(* The tagger: models, items and labels.                                   *)

(* Row leaves a row as it is.                                              *)
LEMMA RowIs ==
  ASSUME NEW m \in Nat, NEW X, NEW row \in [1 .. m -> X]
  PROVE  Row(row) = row
<1>1. row \in Seq(X) /\ Len(row) = m
  BY RowOf
<1> QED
  BY <1>1 DEF Row

(* What is in a model file.                                                *)
LEMMA ModelTyped ==
  ASSUME model \in ModelFiles
  PROVE  /\ NumLabels \in Nat /\ Labels = 1 .. NumLabels /\ NumLabels = Len(model.labels)
              /\ DOMAIN model.labels = Labels
         /\ \A i \in Labels : \A j \in Labels : model.trans[i][j] \in Int
         /\ model.state \in [DOMAIN model.attrs -> [Labels -> Int]]
         /\ model.attrs \in Seq(ToSet(model.attrs)) /\ model.labels \in Seq(ToSet(model.labels))
         /\ \A i, j \in Labels : model.labels[i] = model.labels[j] => i = j
<1>1. /\ model.labels \in Seq(ToSet(model.labels)) /\ model.attrs \in Seq(ToSet(model.attrs))
      /\ \A i, j \in DOMAIN model.labels : model.labels[i] = model.labels[j] => i = j
      /\ Len(model.trans) = Len(model.labels)
      /\ model.trans \in [DOMAIN model.labels -> [DOMAIN model.labels -> Int]]
      /\ model.state \in [DOMAIN model.attrs -> [DOMAIN model.labels -> Int]]
  BY TaggerApiAssumption
<1>2. NumLabels = Len(model.labels) /\ Labels = 1 .. NumLabels
  BY <1>1 DEF NumLabels, Labels
<1>3. Len(model.labels) \in Nat /\ DOMAIN model.labels = 1 .. Len(model.labels)
  BY <1>1
<1>4. DOMAIN model.labels = Labels /\ NumLabels \in Nat
  BY <1>2, <1>3
<1>5. model.state \in [DOMAIN model.attrs -> [Labels -> Int]] /\ model.trans \in [Labels -> [Labels -> Int]]
      /\ \A i, j \in Labels : model.labels[i] = model.labels[j] => i = j
  BY <1>1, <1>4, Zenon
<1>6. \A i \in Labels : \A j \in Labels : model.trans[i][j] \in Int
  BY <1>5
<1> QED
  BY <1>1, <1>2, <1>4, <1>5, <1>6

(* The attributes of items.                                                *)
ItemContents == [aid : DOMAIN model.attrs, value : Int]

LEMMA ItemScoreTyped ==
  ASSUME model \in ModelFiles, NEW item \in Seq(ItemContents)
  PROVE  ItemScore(item) \in [Labels -> Int]
<1> SUFFICES ASSUME NEW l \in Labels
             PROVE  IntSum([c \in DOMAIN item |-> model.state[item[c].aid][l] * item[c].value]) \in Int
  BY DEF ItemScore
<1>1. PICK m \in Nat : m = Len(item) /\ DOMAIN item = 1 .. m
  OBVIOUS
<1>2. ASSUME NEW c \in 1 .. m PROVE model.state[item[c].aid][l] * item[c].value \in Int
  <2>1. item[c] \in ItemContents
    BY <1>1
  <2>2. item[c].aid \in DOMAIN model.attrs /\ item[c].value \in Int
    BY <2>1 DEF ItemContents
  <2>3. model.state[item[c].aid][l] \in Int
    BY <2>2, ModelTyped
  <2>4. PICK x \in Int, y \in Int : x = model.state[item[c].aid][l] /\ y = item[c].value
    BY <2>2, <2>3
  <2> QED
    BY <2>4
<1>3. PICK row : row = [c \in DOMAIN item |-> model.state[item[c].aid][l] * item[c].value]
  OBVIOUS
<1>4. row \in [1 .. m -> Int]
  BY <1>1, <1>2, <1>3
<1>5. IntSum(row) \in Int
  <2>1. PICK s \in [0 .. m -> Int] : IntSum(row) = s[m]
    BY <1>4, IntSumHas
  <2> QED
    BY <2>1
<1> QED
  BY <1>3, <1>5

(* The place of a string in a row.                                         *)
LEMMA IdInRow ==
  ASSUME NEW X, NEW strings \in Seq(X), NEW s
  PROVE  /\ IdIn(strings, s) # 0 => IdIn(strings, s) \in 1 .. Len(strings) /\ strings[IdIn(strings, s)] = s
         /\ IdIn(strings, s) = 0 => \A i \in 1 .. Len(strings) : strings[i] # s
<1> DEFINE I == { i \in 1 .. Len(strings) : strings[i] = s }
<1>1. IdIn(strings, s) = IF I # {} THEN Min(I) ELSE 0
  BY DEF IdIn, SelectInSeq
<1>2. CASE I = {}
  BY <1>1, <1>2
<1>3. CASE I # {}
  <2>1. I \in SUBSET Nat
    OBVIOUS
  <2>2. Min(I) = CHOOSE x \in I : \A y \in I : x <= y
    BY DEF Min
  <2> HIDE DEF I
  <2>3. \E m \in I : \A k \in I : m <= k
    BY <1>3, <2>1, LeastNumber
  <2>4. Min(I) \in I
    BY <2>2, <2>3
  <2>5. IdIn(strings, s) \in I
    BY <1>1, <1>3, <2>4
  <2> USE DEF I
  <2> QED
    BY <2>5
<1> QED
  BY <1>2, <1>3

(* The loop of Tagger::set over the attributes of one item.                *)
AddedTo(item, c) ==
  IF IdIn(model.attrs, c[1]) = 0 THEN item ELSE Append(item, [aid |-> IdIn(model.attrs, c[1]), value |-> c[2]])

LEMMA ItemsAreFolds ==
  ASSUME NEW xseq
  PROVE  Items2Instance(xseq) =
           [t \in DOMAIN xseq |->
              (CHOOSE it : it = [s \in SUBSET (DOMAIN xseq[t]) |->
                 IF s = {} THEN << >> ELSE AddedTo(it[s \ {Max(s)}], xseq[t][Max(s)])])[DOMAIN xseq[t]]]
BY DEF Items2Instance, FoldLeft, MapThenFoldSet, AddedTo

LEMMA FoldedItem ==
  ASSUME model \in ModelFiles, NEW C, NEW row \in Seq(C), \A c \in DOMAIN row : row[c][2] \in Int
  PROVE  (CHOOSE it : it = [s \in SUBSET (DOMAIN row) |->
            IF s = {} THEN << >> ELSE AddedTo(it[s \ {Max(s)}], row[Max(s)])])[DOMAIN row] \in Seq(ItemContents)
<1> DEFINE m == Len(row)
           X == Seq(ItemContents)
           step == [p \in X \X (1 .. m) |-> AddedTo(p[1], row[p[2]])]
           it == CHOOSE it : it = [s \in SUBSET (DOMAIN row) |->
                   IF s = {} THEN << >> ELSE AddedTo(it[s \ {Max(s)}], row[Max(s)])]
           S == { x \in 0 .. m : it[1 .. x] \in X }
<1>1. m \in Nat /\ DOMAIN row = 1 .. m
  OBVIOUS
<1>2. ASSUME NEW item \in X, NEW x \in 1 .. m PROVE AddedTo(item, row[x]) \in X
  <2>1. CASE IdIn(model.attrs, row[x][1]) = 0
    BY <2>1 DEF AddedTo
  <2>2. CASE IdIn(model.attrs, row[x][1]) # 0
    <3>1. PICK a : a = IdIn(model.attrs, row[x][1])
      OBVIOUS
    <3>2. model.attrs \in Seq(ToSet(model.attrs))
      BY ModelTyped
    <3>3. a \in 1 .. Len(model.attrs)
      BY <2>2, <3>1, <3>2, IdInRow
    <3>4. a \in DOMAIN model.attrs
      BY <3>2, <3>3
    <3>5. row[x][2] \in Int
      BY <1>1
    <3>6. [aid |-> a, value |-> row[x][2]] \in ItemContents
      BY <3>4, <3>5 DEF ItemContents
    <3>7. Append(item, [aid |-> a, value |-> row[x][2]]) \in X
      BY <3>6
    <3> QED
      BY <2>2, <3>1, <3>7 DEF AddedTo
  <2> QED
    BY <2>1, <2>2
<1>3. it = [s \in SUBSET (1 .. m) |-> IF s = {} THEN << >> ELSE AddedTo(it[s \ {Max(s)}], row[Max(s)])]
  <2>1. step \in [X \X (1 .. m) -> X]
    <3> HIDE DEF X, m
    <3> QED
      BY <1>2
  <2>2. << >> \in X
    OBVIOUS
  <2>3. PICK f \in [SUBSET (1 .. m) -> X] : Solves(f, m, << >>, step)
    <3> HIDE DEF X, step, m
    <3> QED
      BY <1>1, <2>1, <2>2, FoldExists
  <2>4. ASSUME NEW s \in SUBSET (1 .. m), s # {}
        PROVE  f[s] = AddedTo(f[s \ {Max(s)}], row[Max(s)])
    <3>1. Max(s) \in 1 .. m
      BY <1>1, <2>4, MaxOfPlaces
    <3>2. f[s \ {Max(s)}] \in X
      OBVIOUS
    <3>3. f[s] = step[f[s \ {Max(s)}], Max(s)]
      BY <2>3, <2>4 DEF Solves
    <3> HIDE DEF X
    <3> QED
      BY <3>1, <3>2, <3>3
  <2>5. f[{}] = << >>
    BY <2>3 DEF Solves
  <2>6. \E g : g = [s \in SUBSET (DOMAIN row) |-> IF s = {} THEN << >> ELSE AddedTo(g[s \ {Max(s)}], row[Max(s)])]
    BY <1>1, <2>4, <2>5
  <2> QED
    BY <1>1, <2>6
<1> HIDE DEF it
<1>4. 0 \in S
  <2>1. 1 .. 0 = {} /\ 0 \in 0 .. m
    BY <1>1
  <2>2. it[{}] = << >>
    BY <1>3
  <2>3. << >> \in X
    OBVIOUS
  <2> HIDE DEF X, m
  <2>4. it[1 .. 0] \in X
    BY <2>1, <2>2, <2>3
  <2> QED
    BY <2>1, <2>4
<1>5. ASSUME NEW x \in 0 .. (m - 1), x \in S PROVE x + 1 \in S
  <2>1. x \in Nat /\ 1 .. (x + 1) \in SUBSET (1 .. m) /\ x + 1 \in 1 .. m /\ x + 1 \in 0 .. m
    BY <1>1
  <2>2. Max(1 .. (x + 1)) = x + 1 /\ 1 .. (x + 1) # {} /\ (1 .. (x + 1)) \ {x + 1} = 1 .. x
    BY <2>1, LastPlace
  <2>3. it[1 .. (x + 1)] = AddedTo(it[1 .. x], row[x + 1])
    BY <1>3, <2>1, <2>2
  <2>4. it[1 .. x] \in X
    BY <1>5
  <2>5. AddedTo(it[1 .. x], row[x + 1]) \in X
    BY <1>2, <2>1, <2>4
  <2> QED
    BY <2>1, <2>3, <2>5
<1> HIDE DEF S
<1>6. 0 .. m \subseteq S
  BY <1>1, <1>4, <1>5, IntervalInduction
<1>7. it[1 .. m] \in X
  BY <1>1, <1>6 DEF S
<1> QED
  BY <1>1, <1>7 DEF it

(* What set() is given becomes items of the model.                         *)
LEMMA InstanceTyped ==
  ASSUME model \in ModelFiles, NEW xseq \in ItemRows
  PROVE  Items2Instance(xseq) \in Seq(Seq(ItemContents)) /\ Len(Items2Instance(xseq)) = Len(xseq)
<1>1. xseq \in Seq(ToSet(xseq))
      /\ \A t \in DOMAIN xseq : xseq[t] \in Seq(ToSet(xseq[t]))
           /\ \A c \in DOMAIN xseq[t] : xseq[t][c][2] \in Int
  BY TaggerApiAssumption
<1>2. PICK inst : inst = Items2Instance(xseq)
  OBVIOUS
<1>3. PICK m \in Nat : m = Len(xseq) /\ DOMAIN xseq = 1 .. m
  BY <1>1
<1>4. DOMAIN inst = 1 .. m /\ inst = [t \in 1 .. m |-> inst[t]]
  BY <1>2, <1>3, ItemsAreFolds
<1>5. ASSUME NEW t \in 1 .. m PROVE inst[t] \in Seq(ItemContents)
  <2>1. inst[t] = (CHOOSE it : it = [s \in SUBSET (DOMAIN xseq[t]) |->
                 IF s = {} THEN << >> ELSE AddedTo(it[s \ {Max(s)}], xseq[t][Max(s)])])[DOMAIN xseq[t]]
    BY <1>2, <1>3, ItemsAreFolds
  <2>2. xseq[t] \in Seq(ToSet(xseq[t])) /\ \A c \in DOMAIN xseq[t] : xseq[t][c][2] \in Int
    BY <1>1, <1>3
  <2> QED
    BY <2>1, <2>2, FoldedItem
<1>6. inst \in [1 .. m -> Seq(ItemContents)]
  BY <1>4, <1>5
<1> QED
  BY <1>2, <1>3, <1>6, RowOf

-----------------------------------------------------------------------------
(* Forward-backward.                                                       *)

(* Items are set, and there are labels for them.                           *)
Ready ==
  /\ model \in ModelFiles /\ instance \in Seq(Seq(ItemContents)) /\ numItems = Len(instance)
       /\ numItems # 0 /\ NumLabels # 0
  /\ \A t \in Items : state[t] = ItemScore(instance[t])

Edges == [i \in Labels |-> [j \in Labels |-> ExpTrans(i, j)]]
States == [t \in Items |-> [l \in Labels |-> ExpState(t, l)]]

LEMMA ReadyIs ==
  ASSUME Ready
  PROVE  /\ T \in Nat \ {0} /\ Items = 1 .. T /\ NumLabels \in Nat \ {0} /\ Labels = 1 .. NumLabels
         /\ T = Len(instance) /\ DOMAIN instance = Items /\ \A t \in Items : instance[t] \in Seq(ItemContents)
<1>1. NumLabels \in Nat /\ NumLabels # 0 /\ Labels = 1 .. NumLabels
  BY ModelTyped DEF Ready
<1>2. Len(instance) \in Nat /\ DOMAIN instance = 1 .. Len(instance)
  BY DEF Ready
<1>3. T = Len(instance) /\ Items = 1 .. T /\ T # 0
  BY DEF Ready, T, Items
<1>4. \A t \in 1 .. Len(instance) : instance[t] \in Seq(ItemContents)
  BY DEF Ready
<1> QED
  BY <1>1, <1>2, <1>3, <1>4

LEMMA ScoresTyped ==
  ASSUME Ready
  PROVE  /\ \A t \in Items : \A l \in Labels : state[t][l] \in Int /\ ExpState(t, l) \in Numbers
              /\ Positive(ExpState(t, l))
         /\ \A i \in Labels : \A j \in Labels : ExpTrans(i, j) \in Numbers /\ Positive(ExpTrans(i, j))
<1>1. ASSUME NEW t \in Items, NEW l \in Labels
      PROVE  state[t][l] \in Int /\ ExpState(t, l) \in Numbers /\ Positive(ExpState(t, l))
  <2>1. instance[t] \in Seq(ItemContents)
    BY ReadyIs
  <2>2. ItemScore(instance[t]) \in [Labels -> Int]
    BY <2>1, ItemScoreTyped DEF Ready
  <2>3. state[t][l] \in Int
    BY <2>2 DEF Ready
  <2> QED
    BY <2>3, ExpNumber DEF ExpState
<1>2. ASSUME NEW i \in Labels, NEW j \in Labels PROVE ExpTrans(i, j) \in Numbers /\ Positive(ExpTrans(i, j))
  <2>1. model.trans[i][j] \in Int
    BY ModelTyped DEF Ready
  <2> QED
    BY <2>1, ExpNumber DEF ExpTrans
<1> QED
  BY <1>1, <1>2

(* Exponentials are positive: forward-backward has a lattice to work on.   *)
LEMMA LatticeIs ==
  ASSUME Ready
  PROVE  Lattice(T, NumLabels, Edges, States)
<1>1. T \in Nat \ {0} /\ Items = 1 .. T /\ NumLabels \in Nat \ {0} /\ Labels = 1 .. NumLabels
  BY ReadyIs
<1>2. \A i \in Labels : \A j \in Labels : Edges[i][j] = ExpTrans(i, j)
  BY DEF Edges
<1>3. Edges \in [1 .. NumLabels -> [1 .. NumLabels -> Numbers]]
  BY <1>1, ScoresTyped DEF Edges
<1>4. \A i \in 1 .. NumLabels : PositiveRow(Edges[i], NumLabels)
  BY <1>1, <1>2, ScoresTyped DEF PositiveRow
<1>5. \A t \in Items : \A l \in Labels : States[t][l] = ExpState(t, l)
  BY DEF States
<1>6. States \in [1 .. T -> [1 .. NumLabels -> Numbers]]
  BY <1>1, ScoresTyped DEF States
<1>7. \A t \in 1 .. T : PositiveRow(States[t], NumLabels)
  BY <1>1, <1>5, ScoresTyped DEF PositiveRow
<1> QED
  BY <1>1, <1>3, <1>4, <1>6, <1>7 DEF Lattice, Square, RowsOf

LEMMA RowScores ==
  ASSUME NEW n \in Nat, NEW row \in RowsOf(n)
  PROVE  row \in Scores /\ Len(row) = n /\ Row(row) = row
<1>1. row \in [1 .. n -> Numbers] /\ Numbers \subseteq Fraction
  BY DEF RowsOf, Numbers
<1>2. row \in [1 .. n -> Fraction]
  BY <1>1
<1>3. row \in Seq(Fraction) /\ Len(row) = n
  BY <1>2, RowOf
<1> QED
  BY <1>1, <1>3, RowIs DEF Scores

(* crf1dc_alpha_score for one item.                                        *)
LEMMA NormalizedIs ==
  ASSUME Ready, NEW raw \in RowsOf(NumLabels), PositiveRow(raw, NumLabels)
  PROVE  /\ normalized[raw].row \in RowsOf(NumLabels) /\ normalized[raw].scale \in Numbers
         /\ normalized[raw] = [row |-> normalized[raw].row, scale |-> normalized[raw].scale]
         /\ PositiveRow(normalized[raw].row, NumLabels)
         /\ Normal(normalized[raw].row, normalized[raw].scale, raw, NumLabels)
<1>1. NumLabels \in Nat \ {0} /\ Labels = 1 .. NumLabels
  BY ReadyIs
<1>2. raw \in Scores
  BY <1>1, RowScores
<1>3. normalized[raw] = [row |-> Row([j \in Labels |-> Over(raw[j], VecSum(raw))]), scale |-> Over(One, VecSum(raw))]
  BY <1>2 DEF normalized
<1>4. PICK to : to = [j \in Labels |-> Over(raw[j], VecSum(raw))]
  OBVIOUS
<1>5. \A j \in 1 .. NumLabels : raw[j] \in Numbers /\ Positive(raw[j])
  BY DEF RowsOf, PositiveRow
<1>6. VecSum(raw) \in Numbers /\ Positive(VecSum(raw))
  BY <1>1, <1>5, SumPositive DEF RowsOf
<1>7. \A j \in 1 .. NumLabels : Over(raw[j], VecSum(raw)) \in Numbers /\ Positive(Over(raw[j], VecSum(raw)))
  BY <1>5, <1>6, OverPositive
<1>8. to \in RowsOf(NumLabels) /\ \A j \in 1 .. NumLabels : to[j] = Over(raw[j], VecSum(raw))
  BY <1>1, <1>4, <1>7 DEF RowsOf
<1>9. Row(to) = to
  BY <1>1, <1>8, RowScores
<1>10. One \in Numbers
  BY ZeroNumber
<1>11. Over(One, VecSum(raw)) \in Numbers
  BY <1>6, <1>10, OverPositive
<1>12. normalized[raw] = [row |-> to, scale |-> Over(One, VecSum(raw))]
  BY <1>3, <1>4, <1>9
<1>13. normalized[raw].row = to /\ normalized[raw].scale = Over(One, VecSum(raw))
  BY <1>12
<1>14. PositiveRow(to, NumLabels) /\ Normal(to, Over(One, VecSum(raw)), raw, NumLabels)
  BY <1>7, <1>8 DEF PositiveRow, Normal
<1> QED
  BY <1>8, <1>11, <1>12, <1>13, <1>14

LEMMA AlphaRowIs ==
  ASSUME Ready, NEW prev \in RowsOf(NumLabels), NEW t \in Items
  PROVE  /\ AlphaRow(t)[prev] \in RowsOf(NumLabels)
         /\ Reaches(AlphaRow(t)[prev], prev, Edges, States[t], NumLabels)
         /\ PositiveRow(prev, NumLabels) => PositiveRow(AlphaRow(t)[prev], NumLabels)
<1>1. T \in Nat \ {0} /\ Items = 1 .. T /\ NumLabels \in Nat \ {0} /\ Labels = 1 .. NumLabels
  BY ReadyIs
<1>2. prev \in Scores /\ t \in Nat
  BY <1>1, RowScores
<1> DEFINE C(j) == [i \in Labels |-> Times(prev[i], ExpTrans(i, j))]
<1>3. AlphaRow(t)[prev] = Row([j \in Labels |-> Times(VecSum(C(j)), ExpState(t, j))])
  BY <1>2, Zenon DEF AlphaRow
<1>4. ASSUME NEW j \in Labels
      PROVE  C(j) \in RowsOf(NumLabels) /\ (\A i \in Labels : C(j)[i] = Times(prev[i], Edges[i][j]))
               /\ VecSum(C(j)) \in Numbers
  <2>1. \A i \in Labels : prev[i] \in Numbers /\ ExpTrans(i, j) \in Numbers /\ Edges[i][j] = ExpTrans(i, j)
    BY <1>1, ScoresTyped DEF RowsOf, Edges
  <2>2. \A i \in Labels : Times(prev[i], ExpTrans(i, j)) \in Numbers
    BY <2>1, TimesNumber
  <2>3. C(j) \in [1 .. NumLabels -> Numbers] /\ \A i \in Labels : C(j)[i] = Times(prev[i], Edges[i][j])
    BY <1>1, <2>1, <2>2
  <2> HIDE DEF C
  <2> QED
    BY <1>1, <2>3, SumNumber DEF RowsOf
<1> HIDE DEF C
<1>5. PICK to : to = [j \in Labels |-> Times(VecSum(C(j)), ExpState(t, j))]
  OBVIOUS
<1>6. \A j \in Labels : Times(VecSum(C(j)), ExpState(t, j)) \in Numbers
  BY <1>4, ScoresTyped, TimesNumber
<1>7. to \in RowsOf(NumLabels) /\ \A j \in Labels : to[j] = Times(VecSum(C(j)), States[t][j])
  BY <1>1, <1>5, <1>6 DEF RowsOf, States
<1>8. Reaches(to, prev, Edges, States[t], NumLabels)
  BY <1>1, <1>4, <1>7 DEF Reaches
<1>9. AlphaRow(t)[prev] = to
  BY <1>1, <1>3, <1>5, <1>7, RowScores
<1>10. ASSUME PositiveRow(prev, NumLabels) PROVE PositiveRow(to, NumLabels)
  <2>1. /\ Edges \in Square(NumLabels) /\ \A i \in 1 .. NumLabels : PositiveRow(Edges[i], NumLabels)
        /\ States[t] \in RowsOf(NumLabels) /\ PositiveRow(States[t], NumLabels)
    BY <1>1, LatticeIs DEF Lattice, Square
  <2>2. \A j \in 1 .. NumLabels : to[j] \in Numbers /\ Positive(to[j])
    BY <1>1, <1>8, <1>10, <2>1, ReachesPositive
  <2> QED
    BY <2>2 DEF PositiveRow
<1> QED
  BY <1>7, <1>8, <1>9, <1>10

(* The row that is normalized for item t, after the item before has left   *)
(* prev; and what forward has to solve.                                    *)
RawRow(t, prev) == IF t = 1 THEN Row([j \in Labels |-> ExpState(1, j)]) ELSE AlphaRow(t)[prev]
FwdOf(f) == f = [t \in Items |-> normalized[RawRow(t, f[t - 1].row)]]
Kinds == { r \in [row : RowsOf(NumLabels), scale : Numbers] : PositiveRow(r.row, NumLabels) }

LEMMA ForwardChosen == Forward = Row(CHOOSE f : FwdOf(f))
BY DEF Forward, FwdOf, RawRow

LEMMA RawRowIs ==
  ASSUME Ready, NEW t \in Items, NEW prev, t # 1 => prev \in RowsOf(NumLabels) /\ PositiveRow(prev, NumLabels)
  PROVE  /\ RawRow(t, prev) \in RowsOf(NumLabels) /\ PositiveRow(RawRow(t, prev), NumLabels)
         /\ t = 1 => \A j \in Labels : RawRow(t, prev)[j] = States[1][j]
         /\ t # 1 => Reaches(RawRow(t, prev), prev, Edges, States[t], NumLabels)
<1>1. T \in Nat \ {0} /\ Items = 1 .. T /\ NumLabels \in Nat \ {0} /\ Labels = 1 .. NumLabels
  BY ReadyIs
<1>2. CASE t = 1
  <2>1. PICK row : row = [j \in Labels |-> ExpState(1, j)]
    OBVIOUS
  <2>2. 1 \in Items
    BY <1>2
  <2>3. row \in RowsOf(NumLabels) /\ PositiveRow(row, NumLabels) /\ \A j \in Labels : row[j] = States[1][j]
    BY <1>1, <2>1, <2>2, ScoresTyped DEF RowsOf, PositiveRow, States
  <2>4. Row(row) = row
    BY <1>1, <2>3, RowScores
  <2>5. RawRow(t, prev) = row
    BY <1>2, <2>1, <2>4 DEF RawRow
  <2> QED
    BY <1>2, <2>3, <2>5
<1>3. CASE t # 1
  <2>1. RawRow(t, prev) = AlphaRow(t)[prev]
    BY <1>3 DEF RawRow
  <2> QED
    BY <1>3, <2>1, AlphaRowIs
<1> QED
  BY <1>2, <1>3

LEMMA KindOf ==
  ASSUME Ready, NEW raw \in RowsOf(NumLabels), PositiveRow(raw, NumLabels)
  PROVE  normalized[raw] \in Kinds
<1>1. /\ normalized[raw].row \in RowsOf(NumLabels) /\ normalized[raw].scale \in Numbers
      /\ normalized[raw] = [row |-> normalized[raw].row, scale |-> normalized[raw].scale]
      /\ PositiveRow(normalized[raw].row, NumLabels)
  BY NormalizedIs
<1>2. PICK x \in RowsOf(NumLabels), y \in Numbers : x = normalized[raw].row /\ y = normalized[raw].scale
  BY <1>1
<1>3. [row |-> x, scale |-> y] \in [row : RowsOf(NumLabels), scale : Numbers]
  OBVIOUS
<1> QED
  BY <1>1, <1>2, <1>3 DEF Kinds

LEMMA ForwardExists ==
  ASSUME Ready
  PROVE  \E f : FwdOf(f)
<1> DEFINE step == [q \in Kinds \X (1 .. T) |-> normalized[RawRow(q[2], q[1].row)]]
           first == normalized[RawRow(1, << >>)]
<1>1. T \in Nat \ {0} /\ Items = 1 .. T /\ 1 \in Items
  BY ReadyIs
<1>2. \A r \in Kinds : r.row \in RowsOf(NumLabels) /\ PositiveRow(r.row, NumLabels)
  BY DEF Kinds
<1>3. first \in Kinds
  <2>1. RawRow(1, << >>) \in RowsOf(NumLabels) /\ PositiveRow(RawRow(1, << >>), NumLabels)
    BY <1>1, RawRowIs
  <2> QED
    BY <2>1, KindOf
<1>4. ASSUME NEW r \in Kinds, NEW t \in 1 .. T PROVE normalized[RawRow(t, r.row)] \in Kinds
  <2>1. t \in Items /\ r.row \in RowsOf(NumLabels) /\ PositiveRow(r.row, NumLabels)
    BY <1>1, <1>2
  <2>2. RawRow(t, r.row) \in RowsOf(NumLabels) /\ PositiveRow(RawRow(t, r.row), NumLabels)
    BY <2>1, RawRowIs
  <2> QED
    BY <2>2, KindOf
<1>5. step \in [Kinds \X (1 .. T) -> Kinds]
  BY <1>4
<1>6. ASSUME NEW r \in Kinds, NEW t \in 1 .. T PROVE step[r, t] = normalized[RawRow(t, r.row)]
  <2>1. << r, t >> \in Kinds \X (1 .. T) /\ << r, t >>[1] = r /\ << r, t >>[2] = t
    OBVIOUS
  <2> QED
    BY <2>1, Zenon
<1> HIDE DEF step, first
<1>7. PICK s \in [1 .. T -> Kinds] : Steps(s, T, first, step)
  BY <1>1, <1>3, <1>5, Onward
<1>8. ASSUME NEW t \in Items PROVE s[t] = normalized[RawRow(t, s[t - 1].row)]
  <2>1. CASE t = 1
    <3>1. RawRow(t, s[t - 1].row) = RawRow(1, << >>)
      BY <2>1 DEF RawRow
    <3> QED
      BY <1>7, <2>1, <3>1 DEF Steps, first
  <2>2. CASE t # 1
    <3>1. t - 1 \in 1 .. (T - 1) /\ (t - 1) + 1 = t /\ t \in 1 .. T /\ t - 1 \in 1 .. T
      BY <1>1, <2>2
    <3>2. s[t] = step[s[t - 1], t]
      BY <1>7, <3>1 DEF Steps
    <3>3. s[t - 1] \in Kinds
      BY <3>1
    <3> QED
      BY <1>6, <3>1, <3>2, <3>3
  <2> QED
    BY <2>1, <2>2
<1>9. s = [t \in Items |-> s[t]]
  BY <1>1
<1>10. s = [t \in Items |-> normalized[RawRow(t, s[t - 1].row)]]
  BY <1>8, <1>9, Zenon
<1> QED
  BY <1>10 DEF FwdOf

(* Forward solves what KeptOn asks for.                                    *)
LEMMA ForwardIs ==
  ASSUME Ready
  PROVE  /\ Forward \in [1 .. T -> Kinds]
         /\ KeptOn([t \in Items |-> Forward[t].row], [t \in Items |-> Forward[t].scale], T, NumLabels, Edges, States)
<1>1. T \in Nat \ {0} /\ Items = 1 .. T /\ 1 \in Items /\ NumLabels \in Nat \ {0} /\ Labels = 1 .. NumLabels
  BY ReadyIs
<1>2. PICK f : f = CHOOSE g : FwdOf(g)
  OBVIOUS
<1>3. FwdOf(f)
  BY <1>2, ForwardExists
<1>4. DOMAIN f = Items /\ \A t \in Items : f[t] = normalized[RawRow(t, f[t - 1].row)]
  BY <1>3 DEF FwdOf
<1> DEFINE Right(t) == f[t] \in Kinds
           S == { k \in 0 .. T : k \in 1 .. T => Right(k) }
<1>5. 0 \in S
  BY <1>1
<1>6. \A r \in Kinds : r.row \in RowsOf(NumLabels) /\ r.scale \in Numbers /\ PositiveRow(r.row, NumLabels)
  BY DEF Kinds
<1>7. ASSUME NEW k \in 0 .. (T - 1), k \in S PROVE k + 1 \in S
  <2>1. k + 1 \in Items /\ k + 1 \in 0 .. T /\ (k + 1) - 1 = k /\ (k + 1 # 1 => k \in 1 .. T)
    BY <1>1
  <2>2. k + 1 # 1 => f[k].row \in RowsOf(NumLabels) /\ PositiveRow(f[k].row, NumLabels)
    BY <1>6, <1>7, <2>1
  <2>3. RawRow(k + 1, f[k].row) \in RowsOf(NumLabels) /\ PositiveRow(RawRow(k + 1, f[k].row), NumLabels)
    BY <2>1, <2>2, RawRowIs
  <2>4. normalized[RawRow(k + 1, f[k].row)] \in Kinds
    BY <2>3, KindOf
  <2> QED
    BY <1>4, <2>1, <2>4
<1>8. 0 .. T \subseteq S
  <2> HIDE DEF S
  <2> QED
    BY <1>1, <1>5, <1>7, IntervalInduction
<1>9. \A t \in Items : f[t] \in Kinds
  BY <1>1, <1>8
<1> HIDE DEF S
<1>10. f \in [1 .. T -> Kinds]
  <2>1. f = [t \in Items |-> f[t]]
    BY <1>3 DEF FwdOf
  <2> QED
    BY <1>1, <1>9, <2>1
<1>11. Forward = f
  BY <1>1, <1>2, <1>10, ForwardChosen, RowIs
<1>12. PICK a, c : a = [t \in Items |-> f[t].row] /\ c = [t \in Items |-> f[t].scale]
  OBVIOUS
<1>13. a \in [1 .. T -> RowsOf(NumLabels)] /\ c \in [1 .. T -> Numbers]
         /\ \A t \in Items : a[t] = f[t].row /\ c[t] = f[t].scale
  BY <1>1, <1>6, <1>9, <1>12
<1>14. PICK raw : raw = [t \in Items |-> RawRow(t, f[t - 1].row)]
  OBVIOUS
<1>15. ASSUME NEW t \in Items
       PROVE  /\ raw[t] \in RowsOf(NumLabels) /\ PositiveRow(raw[t], NumLabels)
              /\ t = 1 => \A j \in Labels : raw[t][j] = States[1][j]
              /\ t # 1 => Reaches(raw[t], a[t - 1], Edges, States[t], NumLabels)
              /\ Normal(a[t], c[t], raw[t], NumLabels)
  <2>1. t # 1 => t - 1 \in Items
    BY <1>1
  <2>2. t # 1 => f[t - 1].row \in RowsOf(NumLabels) /\ PositiveRow(f[t - 1].row, NumLabels)
    BY <1>6, <1>9, <2>1
  <2>3. raw[t] = RawRow(t, f[t - 1].row)
    BY <1>14
  <2>4. /\ raw[t] \in RowsOf(NumLabels) /\ PositiveRow(raw[t], NumLabels)
        /\ t = 1 => \A j \in Labels : raw[t][j] = States[1][j]
        /\ t # 1 => Reaches(raw[t], f[t - 1].row, Edges, States[t], NumLabels)
    BY <2>2, <2>3, RawRowIs
  <2>5. Normal(normalized[raw[t]].row, normalized[raw[t]].scale, raw[t], NumLabels)
    BY <2>4, NormalizedIs
  <2>6. f[t] = normalized[raw[t]]
    BY <1>4, <2>3
  <2> QED
    BY <1>13, <2>1, <2>4, <2>5, <2>6
<1>16. KeptOn(a, c, T, NumLabels, Edges, States)
  <2>1. raw \in [1 .. T -> RowsOf(NumLabels)]
    BY <1>1, <1>14, <1>15
  <2>2. \A j \in 1 .. NumLabels : raw[1][j] = States[1][j]
    BY <1>1, <1>15
  <2>3. ASSUME NEW t \in 1 .. (T - 1) PROVE Reaches(raw[t + 1], a[t], Edges, States[t + 1], NumLabels)
    <3>1. t + 1 \in Items /\ t + 1 # 1 /\ (t + 1) - 1 = t
      BY <1>1
    <3> QED
      BY <1>15, <3>1
  <2>4. \A t \in 1 .. T : Normal(a[t], c[t], raw[t], NumLabels)
    BY <1>1, <1>15
  <2> QED
    BY <1>13, <2>1, <2>2, <2>3, <2>4 DEF KeptOn
<1> QED
  BY <1>10, <1>11, <1>12, <1>16

(* The row of item t, when the item behind it has next.                    *)
ReturnRow(t, factor, next) ==
  IF t = T THEN Row([i \in Labels |-> factor[T]]) ELSE BetaRow(t, factor[t])[next]
BackOf(g, factor) == g = [t \in Items |-> ReturnRow(t, factor, g[t + 1])]

LEMMA BackwardChosen ==
  ASSUME NEW factor \in Scores
  PROVE  backward[factor] = Row(CHOOSE g : BackOf(g, factor))
BY Zenon DEF backward, BackOf, ReturnRow

LEMMA BetaRowIs ==
  ASSUME Ready, NEW next \in RowsOf(NumLabels), NEW t \in Items, t # T, NEW c \in Numbers
  PROVE  /\ BetaRow(t, c)[next] \in RowsOf(NumLabels)
         /\ ComesBack(BetaRow(t, c)[next], next, Edges, States[t + 1], c, NumLabels)
<1>1. T \in Nat \ {0} /\ Items = 1 .. T /\ NumLabels \in Nat \ {0} /\ Labels = 1 .. NumLabels
  BY ReadyIs
<1>2. next \in Scores /\ t \in Nat /\ t + 1 \in Items
  BY <1>1, RowScores
<1> DEFINE C(i) == [j \in Labels |-> Times(ExpTrans(i, j), Times(next[j], ExpState(t + 1, j)))]
<1>3. BetaRow(t, c)[next] = Row([i \in Labels |-> Times(c, VecSum(C(i)))])
  BY <1>2, Zenon DEF BetaRow
<1>4. ASSUME NEW i \in Labels
      PROVE  C(i) \in RowsOf(NumLabels)
             /\ (\A j \in Labels : C(i)[j] = Times(Edges[i][j], Times(next[j], States[t + 1][j])))
                  /\ VecSum(C(i)) \in Numbers
  <2>1. \A j \in Labels : /\ next[j] \in Numbers /\ ExpTrans(i, j) \in Numbers /\ Edges[i][j] = ExpTrans(i, j)
                          /\ ExpState(t + 1, j) \in Numbers /\ States[t + 1][j] = ExpState(t + 1, j)
    BY <1>1, <1>2, ScoresTyped DEF RowsOf, Edges, States
  <2>2. \A j \in Labels : Times(ExpTrans(i, j), Times(next[j], ExpState(t + 1, j))) \in Numbers
    BY <2>1, TimesNumber
  <2>3. C(i) \in [1 .. NumLabels -> Numbers]
          /\ \A j \in Labels : C(i)[j] = Times(Edges[i][j], Times(next[j], States[t + 1][j]))
    BY <1>1, <2>1, <2>2
  <2> HIDE DEF C
  <2> QED
    BY <1>1, <2>3, SumNumber DEF RowsOf
<1> HIDE DEF C
<1>5. PICK back : back = [i \in Labels |-> Times(c, VecSum(C(i)))]
  OBVIOUS
<1>6. \A i \in Labels : Times(c, VecSum(C(i))) \in Numbers
  BY <1>4, TimesNumber
<1>7. back \in RowsOf(NumLabels) /\ \A i \in Labels : back[i] = Times(c, VecSum(C(i)))
  BY <1>1, <1>5, <1>6 DEF RowsOf
<1>8. ComesBack(back, next, Edges, States[t + 1], c, NumLabels)
  BY <1>1, <1>4, <1>7 DEF ComesBack
<1>9. BetaRow(t, c)[next] = back
  BY <1>1, <1>3, <1>5, <1>7, RowScores
<1> QED
  BY <1>7, <1>8, <1>9

LEMMA ReturnRowIs ==
  ASSUME Ready, NEW factor \in [1 .. T -> Numbers], NEW t \in Items,
         NEW next, t # T => next \in RowsOf(NumLabels)
  PROVE  /\ ReturnRow(t, factor, next) \in RowsOf(NumLabels)
         /\ t = T => \A i \in Labels : ReturnRow(t, factor, next)[i] = factor[T]
         /\ t # T => ComesBack(ReturnRow(t, factor, next), next, Edges, States[t + 1], factor[t], NumLabels)
<1>1. T \in Nat \ {0} /\ Items = 1 .. T /\ NumLabels \in Nat \ {0} /\ Labels = 1 .. NumLabels
  BY ReadyIs
<1>2. factor[t] \in Numbers /\ factor[T] \in Numbers
  BY <1>1
<1>3. CASE t = T
  <2>1. PICK row : row = [i \in Labels |-> factor[T]]
    OBVIOUS
  <2>2. row \in RowsOf(NumLabels) /\ \A i \in Labels : row[i] = factor[T]
    BY <1>1, <1>2, <2>1 DEF RowsOf
  <2>3. Row(row) = row
    BY <1>1, <2>2, RowScores
  <2>4. ReturnRow(t, factor, next) = row
    BY <1>3, <2>1, <2>3 DEF ReturnRow
  <2> QED
    BY <1>3, <2>2, <2>4
<1>4. CASE t # T
  <2>1. ReturnRow(t, factor, next) = BetaRow(t, factor[t])[next]
    BY <1>4 DEF ReturnRow
  <2> QED
    BY <1>2, <1>4, <2>1, BetaRowIs
<1> QED
  BY <1>3, <1>4

LEMMA BackwardExists ==
  ASSUME Ready, NEW factor \in [1 .. T -> Numbers]
  PROVE  \E g : BackOf(g, factor)
<1> DEFINE X == RowsOf(NumLabels)
           step == [q \in X \X (1 .. T) |-> ReturnRow(q[2], factor, q[1])]
           last == ReturnRow(T, factor, << >>)
<1>1. T \in Nat \ {0} /\ Items = 1 .. T /\ T \in Items
  BY ReadyIs
<1>2. last \in X
  BY <1>1, ReturnRowIs
<1>3. ASSUME NEW r \in X, NEW t \in 1 .. T PROVE ReturnRow(t, factor, r) \in X
  BY <1>1, ReturnRowIs
<1>4. step \in [X \X (1 .. T) -> X]
  BY <1>3
<1>5. ASSUME NEW r \in X, NEW t \in 1 .. T PROVE step[r, t] = ReturnRow(t, factor, r)
  <2>1. << r, t >> \in X \X (1 .. T) /\ << r, t >>[1] = r /\ << r, t >>[2] = t
    OBVIOUS
  <2> QED
    BY <2>1, Zenon
<1> HIDE DEF step, last, X
<1>6. PICK s \in [1 .. T -> X] : StepsBack(s, T, last, step)
  BY <1>1, <1>2, <1>4, Backward
<1>7. ASSUME NEW t \in Items PROVE s[t] = ReturnRow(t, factor, s[t + 1])
  <2>1. CASE t = T
    <3>1. ReturnRow(t, factor, s[t + 1]) = ReturnRow(T, factor, << >>)
      BY <2>1 DEF ReturnRow
    <3> QED
      BY <1>6, <2>1, <3>1 DEF StepsBack, last
  <2>2. CASE t # T
    <3>1. t \in 1 .. (T - 1) /\ t \in 1 .. T /\ t + 1 \in 1 .. T
      BY <1>1, <2>2
    <3>2. s[t] = step[s[t + 1], t]
      BY <1>6, <3>1 DEF StepsBack
    <3>3. s[t + 1] \in X
      BY <3>1
    <3> QED
      BY <1>5, <3>1, <3>2, <3>3
  <2> QED
    BY <2>1, <2>2
<1>8. s = [t \in Items |-> s[t]]
  BY <1>1
<1>9. s = [t \in Items |-> ReturnRow(t, factor, s[t + 1])]
  BY <1>7, <1>8, Zenon
<1> QED
  BY <1>9 DEF BackOf

(* And backward what KeptBack asks for.                                    *)
LEMMA BackwardIs ==
  ASSUME Ready, NEW factor \in [1 .. T -> Numbers]
  PROVE  KeptBack(backward[factor], factor, T, NumLabels, Edges, States)
<1>1. T \in Nat \ {0} /\ Items = 1 .. T /\ T \in Items /\ NumLabels \in Nat \ {0} /\ Labels = 1 .. NumLabels
  BY ReadyIs
<1>2. PICK g : g = CHOOSE h : BackOf(h, factor)
  OBVIOUS
<1>3. BackOf(g, factor)
  BY <1>2, BackwardExists
<1>4. g = [t \in Items |-> g[t]] /\ \A t \in Items : g[t] = ReturnRow(t, factor, g[t + 1])
  BY <1>3 DEF BackOf
<1> DEFINE Right(t) == g[t] \in RowsOf(NumLabels)
           S == { k \in 0 .. T : k # T => Right(T - k) }
<1>5. 0 \in S
  <2>0. g[T] = ReturnRow(T, factor, g[T + 1])
    BY <1>1, <1>4
  <2>1. g[T] \in RowsOf(NumLabels)
    BY <1>1, <2>0, ReturnRowIs
  <2> QED
    BY <1>1, <2>1
<1>6. ASSUME NEW k \in 0 .. (T - 1), k \in S PROVE k + 1 \in S
  <2>1. CASE k + 1 = T
    BY <1>1, <2>1
  <2>2. CASE k + 1 # T
    <3>1. T - (k + 1) \in Items /\ k + 1 \in 0 .. T /\ (T - (k + 1)) + 1 = T - k /\ T - (k + 1) # T /\ k # T
      BY <1>1, <2>2
    <3>2. g[T - k] \in RowsOf(NumLabels)
      BY <1>6, <3>1
    <3>3. PICK t \in Items : t = T - (k + 1) /\ t + 1 = T - k /\ t # T
      BY <3>1
    <3>4. g[t + 1] \in RowsOf(NumLabels)
      BY <3>2, <3>3
    <3>5. ReturnRow(t, factor, g[t + 1]) \in RowsOf(NumLabels)
      BY <3>3, <3>4, ReturnRowIs
    <3>6. g[t] \in RowsOf(NumLabels)
      BY <1>4, <3>5
    <3> QED
      BY <3>1, <3>3, <3>6
  <2> QED
    BY <2>1, <2>2
<1>7. 0 .. T \subseteq S
  <2> HIDE DEF S
  <2> QED
    BY <1>1, <1>5, <1>6, IntervalInduction
<1>8. \A t \in Items : g[t] \in RowsOf(NumLabels)
  <2> SUFFICES ASSUME NEW t \in Items PROVE g[t] \in RowsOf(NumLabels)
    OBVIOUS
  <2>1. T - t \in 0 .. T /\ T - t # T /\ T - (T - t) = t
    BY <1>1
  <2> QED
    BY <1>7, <2>1
<1> HIDE DEF S
<1>9. g \in [1 .. T -> RowsOf(NumLabels)]
  BY <1>1, <1>4, <1>8
<1>10. factor \in Scores
  BY <1>1, RowScores DEF RowsOf
<1>11. backward[factor] = g
  BY <1>1, <1>2, <1>9, <1>10, BackwardChosen, RowIs
<1>12. \A i \in 1 .. NumLabels : g[T][i] = factor[T]
  <2>1. \A i \in Labels : ReturnRow(T, factor, g[T + 1])[i] = factor[T]
    BY <1>1, ReturnRowIs
  <2> QED
    BY <1>1, <1>4, <2>1
<1>13. ASSUME NEW t \in 1 .. (T - 1) PROVE ComesBack(g[t], g[t + 1], Edges, States[t + 1], factor[t], NumLabels)
  <2>1. t \in Items /\ t # T /\ t + 1 \in Items
    BY <1>1
  <2>2. g[t + 1] \in RowsOf(NumLabels)
    BY <1>8, <2>1
  <2>3. ComesBack(ReturnRow(t, factor, g[t + 1]), g[t + 1], Edges, States[t + 1], factor[t], NumLabels)
    BY <2>1, <2>2, ReturnRowIs
  <2> QED
    BY <1>4, <2>1, <2>3
<1> QED
  BY <1>9, <1>11, <1>12, <1>13 DEF KeptBack

(* A buffer with a place for each of the items.                            *)
Buffer(b) == (\E X : b \in Seq(X)) /\ Len(b) >= T

LEMMA OverwrittenIs ==
  ASSUME T \in Nat, NEW b, Buffer(b), NEW rows
  PROVE  /\ Buffer(Overwritten(b, rows))
         /\ \A t \in Items : Overwritten(b, rows)[t] = rows[t]
<1>1. PICK X : b \in Seq(X)
  BY DEF Buffer
<1>2. PICK m \in Nat : m = Len(b) /\ DOMAIN b = 1 .. m /\ m >= T /\ \A t \in 1 .. m : b[t] \in X
  BY <1>1 DEF Buffer
<1> DEFINE Y == X \cup { rows[t] : t \in Items }
<1>3. PICK f : f = [t \in DOMAIN b |-> IF t \in Items THEN rows[t] ELSE b[t]]
  OBVIOUS
<1>4. \A t \in 1 .. m : (IF t \in Items THEN rows[t] ELSE b[t]) \in Y
  BY <1>2
<1> HIDE DEF Y
<1>5. f \in [1 .. m -> Y] /\ \A t \in 1 .. m : t \in Items => f[t] = rows[t]
  BY <1>2, <1>3, <1>4
<1>6. Overwritten(b, rows) = f
  BY <1>3, <1>5, RowIs DEF Overwritten
<1>7. f \in Seq(Y) /\ Len(f) = m
  BY <1>5, RowOf
<1>8. \A t \in Items : t \in 1 .. m
  BY <1>2 DEF Items
<1> QED
  BY <1>2, <1>5, <1>6, <1>7, <1>8 DEF Buffer

(* What forward-backward has left in the buffers of ctx; dirty: viterbi has*)
(* overwritten alpha.                                                      *)
Holds(ctx, dirty, a, b, c, p) ==
  /\ Left(a, b, c, p, T, NumLabels, Edges, States)
  /\ ctx.norm = Over(One, p[T])
  /\ \A t \in Items : ctx.beta[t] = b[t] /\ ctx.scale[t] = c[t] /\ (~dirty => ctx.alpha[t] = a[t])

Ran(ctx, dirty) == \E a, b, c, p : Holds(ctx, dirty, a, b, c, p)

Buffers(ctx) == Buffer(ctx.alpha) /\ Buffer(ctx.beta) /\ Buffer(ctx.scale)

(* set_level runs both when it has to.                                     *)
LEMMA AtLevelRan ==
  ASSUME Ready, level # "alphabeta", Buffer(alpha), Buffer(beta), Buffer(scale)
  PROVE  Ran(AtLevel, FALSE) /\ Buffers(AtLevel)
<1>1. T \in Nat \ {0} /\ Items = 1 .. T /\ T \in Items /\ NumLabels \in Nat \ {0} /\ Labels = 1 .. NumLabels
  BY ReadyIs
<1>2. PICK fwd : fwd = Forward
  OBVIOUS
<1>3. PICK a : a = [t \in Items |-> fwd[t].row]
  OBVIOUS
<1>4. PICK c : c = [t \in Items |-> fwd[t].scale]
  OBVIOUS
<1>5. KeptOn(a, c, T, NumLabels, Edges, States)
  BY <1>2, <1>3, <1>4, ForwardIs
<1>6. c \in [1 .. T -> Numbers]
  BY <1>5 DEF KeptOn
<1>7. Row(c) = c
  BY <1>1, <1>6, RowIs
<1>8. PICK b : b = backward[c]
  OBVIOUS
<1>9. KeptBack(b, c, T, NumLabels, Edges, States)
  BY <1>6, <1>8, BackwardIs
<1>10. PICK p \in [0 .. T -> Numbers] : Multiplies(p, c, T) /\ Product(c) = p[T]
  BY <1>1, <1>6, ProductHas
<1>11. Left(a, b, c, p, T, NumLabels, Edges, States)
  BY <1>5, <1>9, <1>10, LatticeIs DEF Left
<1>12. AtLevel = [alpha |-> Overwritten(alpha, a), beta |-> Overwritten(beta, b), scale |-> Overwritten(scale, c),
                  norm |-> Over(One, p[T])]
  BY <1>2, <1>3, <1>4, <1>7, <1>8, <1>10 DEF AtLevel, Partition
<1>13. PICK x, y, z : x = Overwritten(alpha, a) /\ y = Overwritten(beta, b) /\ z = Overwritten(scale, c)
  OBVIOUS
<1>14. /\ Buffer(x) /\ Buffer(y) /\ Buffer(z)
       /\ \A t \in Items : x[t] = a[t] /\ y[t] = b[t] /\ z[t] = c[t]
  BY <1>1, <1>13, OverwrittenIs
<1>15. AtLevel = [alpha |-> x, beta |-> y, scale |-> z, norm |-> Over(One, p[T])]
  BY <1>12, <1>13
<1>16. AtLevel.alpha = x /\ AtLevel.beta = y /\ AtLevel.scale = z /\ AtLevel.norm = Over(One, p[T])
  BY <1>15
<1>17. PICK ctx : ctx = AtLevel
  OBVIOUS
<1>18. /\ ctx.norm = Over(One, p[T]) /\ Buffer(ctx.alpha) /\ Buffer(ctx.beta) /\ Buffer(ctx.scale)
       /\ \A t \in Items : ctx.beta[t] = b[t] /\ ctx.scale[t] = c[t] /\ (~FALSE => ctx.alpha[t] = a[t])
  BY <1>14, <1>16, <1>17
<1>19. Ran(ctx, FALSE)
  <2>1. Holds(ctx, FALSE, a, b, c, p)
    BY <1>11, <1>18 DEF Holds
  <2> QED
    BY <2>1 DEF Ran
<1>20. Buffers(ctx)
  BY <1>18 DEF Buffers
<1> QED
  BY <1>17, <1>19, <1>20

-----------------------------------------------------------------------------
(* The label sequences, in a row.                                          *)

(* Paths with each label behind them, in a row.                            *)
LEMMA LongerIs ==
  ASSUME NumLabels \in Nat, NEW Y, Y \subseteq Seq(Labels),
         NEW Z, \A y \in Y : \A j \in Labels : Append(y, j) \in Z,
         NEW ps \in Seq(Y)
  PROVE  /\ longer[ps] \in Seq(Z) /\ Len(longer[ps]) = Len(ps) * NumLabels
         /\ \A p \in 1 .. Len(ps) : \A j \in Labels :
              (p - 1) * NumLabels + j \in 1 .. Len(ps) * NumLabels
                /\ longer[ps][(p - 1) * NumLabels + j] = Append(ps[p], j)
<1>1. Labels = 1 .. NumLabels /\ Labels \subseteq Nat
  BY DEF Labels
<1>2. Seq(Labels) \subseteq Seq(Nat)
  <2> SUFFICES ASSUME NEW x \in Seq(Labels) PROVE x \in Seq(Nat)
    OBVIOUS
  <2>1. \A t \in 1 .. Len(x) : x[t] \in Nat
    BY <1>1
  <2> QED
    BY <2>1
<1>3. PICK k \in Nat : k = Len(ps)
  OBVIOUS
<1>4. \A p \in 1 .. k : ps[p] \in Y /\ ps[p] \in Seq(Nat)
  BY <1>2, <1>3
<1>5. ps \in Seq(Seq(Nat))
  <2>1. ps \in [1 .. k -> Seq(Nat)]
    BY <1>3, <1>4
  <2> QED
    BY <2>1, RowOf
<1> DEFINE E(n) == Append(ps[((n - 1) \div NumLabels) + 1], ((n - 1) % NumLabels) + 1)
<1>6. longer[ps] = Row([n \in 1 .. k * NumLabels |-> E(n)])
  BY <1>3, <1>5 DEF longer
<1>7. ASSUME NEW n \in 1 .. k * NumLabels PROVE E(n) \in Z
  <2>1. ((n - 1) \div NumLabels) + 1 \in 1 .. k /\ ((n - 1) % NumLabels) + 1 \in 1 .. NumLabels
    BY PlaceInBlocks
  <2>2. PICK p \in 1 .. k, j \in 1 .. NumLabels : p = ((n - 1) \div NumLabels) + 1
               /\ j = ((n - 1) % NumLabels) + 1
    BY <2>1
  <2>3. ps[p] \in Y
    BY <1>4
  <2> QED
    BY <1>1, <2>2, <2>3
<1>8. ASSUME NEW p \in 1 .. k, NEW j \in Labels
      PROVE  (p - 1) * NumLabels + j \in 1 .. k * NumLabels /\ E((p - 1) * NumLabels + j) = Append(ps[p], j)
  <2>1. /\ (p - 1) * NumLabels + j \in 1 .. k * NumLabels
        /\ ((((p - 1) * NumLabels + j) - 1) \div NumLabels) + 1 = p
        /\ ((((p - 1) * NumLabels + j) - 1) % NumLabels) + 1 = j
    <3>0. PICK n \in Nat, m \in Nat : n = NumLabels /\ m = k
      OBVIOUS
    <3>1. PICK i \in 1 .. n : i = j
      BY <1>1, <3>0
    <3>2. PICK q \in 1 .. m : q = p
      BY <3>0
    <3>3. /\ (q - 1) * n + i \in 1 .. m * n
          /\ ((((q - 1) * n + i) - 1) \div n) + 1 = q
          /\ ((((q - 1) * n + i) - 1) % n) + 1 = i
      BY BlockPlace
    <3> QED
      BY <3>0, <3>1, <3>2, <3>3
  <2> QED
    BY <2>1
<1> HIDE DEF E
<1>9. PICK m : m = k * NumLabels
  OBVIOUS
<1>10. m \in Nat
  BY <1>3, <1>9
<1>11. PICK f : f = [n \in 1 .. m |-> E(n)]
  OBVIOUS
<1>12. f \in [1 .. m -> Z]
  BY <1>7, <1>9, <1>11
<1>13. longer[ps] = f
  BY <1>6, <1>9, <1>10, <1>11, <1>12, RowIs
<1>14. f \in Seq(Z) /\ Len(f) = m
  BY <1>10, <1>12, RowOf
<1>15. ASSUME NEW p \in 1 .. k, NEW j \in Labels
       PROVE  (p - 1) * NumLabels + j \in 1 .. m /\ f[(p - 1) * NumLabels + j] = Append(ps[p], j)
  BY <1>8, <1>9, <1>11
<1> QED
  BY <1>3, <1>9, <1>13, <1>14, <1>15

LEMMA AppendIs ==
  ASSUME NEW X, NEW k \in Nat, NEW y \in [1 .. k -> X], NEW j \in X
  PROVE  /\ y \in Seq(X) /\ Append(y, j) \in [1 .. k + 1 -> X]
         /\ Append(y, j)[k + 1] = j /\ \A t \in 1 .. k : Append(y, j)[t] = y[t]
<1>1. y \in Seq(X) /\ Len(y) = k
  BY RowOf
<1>2. Append(y, j) \in Seq(X) /\ Len(Append(y, j)) = k + 1
  BY <1>1
<1>3. PICK z, m : z = Append(y, j) /\ m = k + 1
  OBVIOUS
<1>4. Append(y, j) \in [1 .. k + 1 -> X]
  <2>1. z \in Seq(X) /\ Len(z) = m
    BY <1>2, <1>3
  <2>2. z \in [1 .. m -> X]
    BY <2>1
  <2> QED
    BY <1>3, <2>2
<1>5. \A t \in 1 .. k : Append(y, j)[t] = y[t]
  BY <1>1
<1>6. Append(y, j)[k + 1] = j
  BY <1>1
<1> QED
  BY <1>1, <1>4, <1>5, <1>6

(* y is the path with label j behind it.                                   *)
LabelBehind(y, path, j, k) ==
  y \in [1 .. k + 1 -> Labels] /\ y[k + 1] = j /\ \A t \in 1 .. k : y[t] = path[t]

LEMMA AppendsLabel ==
  ASSUME NEW k \in Nat, NEW path \in [1 .. k -> Labels], NEW j \in Labels
  PROVE  LabelBehind(Append(path, j), path, j, k)
<1>1. PICK X : X = Labels
  OBVIOUS
<1>2. path \in [1 .. k -> X] /\ j \in X
  BY <1>1
<1>3. /\ Append(path, j) \in [1 .. k + 1 -> X]
      /\ Append(path, j)[k + 1] = j /\ \A t \in 1 .. k : Append(path, j)[t] = path[t]
  BY <1>2, AppendIs
<1> QED
  BY <1>1, <1>3 DEF LabelBehind

(* The rows of paths of 0, 1, ..., T labels.                               *)
RowsFrom(f) == f = [n \in 0 .. Len(instance) |-> IF n = 0 THEN << << >> >> ELSE longer[f[n - 1]]]

LEMMA PathRowChosen == PathRow = (CHOOSE f : RowsFrom(f))[Len(instance)]
BY DEF PathRow, RowsFrom

(* How the rows of paths grow.                                             *)
Listed(f) ==
  /\ f[0] = << << >> >>
  /\ \A k \in 0 .. T : f[k] \in Seq([1 .. k -> Labels])
  /\ \A k \in 0 .. (T - 1) :
       /\ Len(f[k + 1]) = Len(f[k]) * NumLabels
       /\ \A p \in 1 .. Len(f[k]) : \A j \in Labels :
            /\ (p - 1) * NumLabels + j \in 1 .. Len(f[k]) * NumLabels
            /\ f[k + 1][(p - 1) * NumLabels + j] = Append(f[k][p], j)

LEMMA LongerLists ==
  ASSUME NumLabels \in Nat, NEW k \in Nat, NEW ps \in Seq([1 .. k -> Labels])
  PROVE  /\ longer[ps] \in Seq([1 .. k + 1 -> Labels]) /\ Len(longer[ps]) = Len(ps) * NumLabels
         /\ \A p \in 1 .. Len(ps) : \A j \in Labels :
              (p - 1) * NumLabels + j \in 1 .. Len(ps) * NumLabels
                /\ longer[ps][(p - 1) * NumLabels + j] = Append(ps[p], j)
<1> DEFINE Y == [1 .. k -> Labels]
           Z == [1 .. k + 1 -> Labels]
<1>0. ASSUME NEW y \in Y PROVE y \in Seq(Labels)
  BY RowOf
<1>00. ASSUME NEW y \in Y, NEW j \in Labels PROVE Append(y, j) \in Z
  <2>1. PICK z \in [1 .. k -> Labels] : z = y
    OBVIOUS
  <2>2. Append(z, j) \in [1 .. k + 1 -> Labels]
    BY AppendIs
  <2> QED
    BY <2>1, <2>2
<1>1. Y \subseteq Seq(Labels) /\ \A y \in Y : \A j \in Labels : Append(y, j) \in Z
  BY <1>0, <1>00
<1> HIDE DEF Y, Z
<1>2. ps \in Seq(Y)
  BY DEF Y
<1>3. /\ longer[ps] \in Seq(Z) /\ Len(longer[ps]) = Len(ps) * NumLabels
      /\ \A p \in 1 .. Len(ps) : \A j \in Labels :
           (p - 1) * NumLabels + j \in 1 .. Len(ps) * NumLabels
             /\ longer[ps][(p - 1) * NumLabels + j] = Append(ps[p], j)
  BY <1>1, <1>2, LongerIs
<1> QED
  BY <1>3 DEF Z

LEMMA RowsExist ==
  ASSUME NumLabels \in Nat, T \in Nat, T = Len(instance)
  PROVE  \E f : RowsFrom(f)
<1> DEFINE X == Seq(Seq(Labels))
           step == [q \in X \X (1 .. T) |-> longer[q[1]]]
           base == << << >> >>
<1>1. base \in X
  OBVIOUS
<1>2. \A x \in X : longer[x] \in X
  <2> SUFFICES ASSUME NEW x \in X PROVE longer[x] \in X
    OBVIOUS
  <2>1. PICK Y : Y = Seq(Labels)
    OBVIOUS
  <2>2. Y \subseteq Seq(Labels) /\ (\A y \in Y : \A j \in Labels : Append(y, j) \in Y) /\ x \in Seq(Y)
    BY <2>1
  <2>3. longer[x] \in Seq(Y)
    BY <2>2, LongerIs
  <2> QED
    BY <2>1, <2>3
<1> HIDE DEF X, base
<1>3. step \in [X \X (1 .. T) -> X]
  BY <1>2
<1>4. ASSUME NEW x \in X, NEW t \in 1 .. T PROVE step[x, t] = longer[x]
  <2>1. << x, t >> \in X \X (1 .. T) /\ << x, t >>[1] = x
    OBVIOUS
  <2> QED
    BY <2>1, Zenon
<1> HIDE DEF step
<1>5. PICK s \in [0 .. T -> X] : Recurs(s, T, base, step)
  BY <1>1, <1>3, Recursion
<1>6. ASSUME NEW n \in 0 .. T PROVE s[n] = IF n = 0 THEN base ELSE longer[s[n - 1]]
  <2>1. CASE n = 0
    BY <1>5, <2>1 DEF Recurs
  <2>2. CASE n # 0
    <3>1. n \in 1 .. T /\ n - 1 \in 0 .. T
      BY <2>2
    <3>2. s[n] = step[s[n - 1], n] /\ s[n - 1] \in X
      BY <1>5, <2>2, <3>1 DEF Recurs
    <3> QED
      BY <1>4, <2>2, <3>1, <3>2
  <2> QED
    BY <2>1, <2>2
<1>7. s = [n \in 0 .. T |-> s[n]]
  OBVIOUS
<1>8. s = [n \in 0 .. T |-> IF n = 0 THEN base ELSE longer[s[n - 1]]]
  BY <1>6, <1>7, Zenon
<1> QED
  BY <1>8 DEF RowsFrom, base

LEMMA PathRowIs ==
  ASSUME NumLabels \in Nat, T \in Nat, T = Len(instance)
  PROVE  \E f : Listed(f) /\ PathRow = f[T]
<1>1. PICK f : f = CHOOSE g : RowsFrom(g)
  OBVIOUS
<1>2. RowsFrom(f)
  BY <1>1, RowsExist
<1>3. \A n \in 0 .. T : f[n] = IF n = 0 THEN << << >> >> ELSE longer[f[n - 1]]
  BY <1>2 DEF RowsFrom
<1>4. f[0] = << << >> >>
  BY <1>3
<1> DEFINE S == { k \in 0 .. T : f[k] \in Seq([1 .. k -> Labels]) }
<1>5. 0 \in S
  <2>1. << >> \in [1 .. 0 -> Labels]
    OBVIOUS
  <2>2. << << >> >> \in Seq([1 .. 0 -> Labels])
    BY <2>1
  <2>3. f[0] \in Seq([1 .. 0 -> Labels])
    BY <1>4, <2>2
  <2>4. 0 \in 0 .. T
    OBVIOUS
  <2> QED
    BY <2>3, <2>4, Zenon
<1>6. ASSUME NEW k \in 0 .. (T - 1) PROVE f[k + 1] = longer[f[k]] /\ k + 1 \in 0 .. T /\ k \in Nat
  <2>1. k + 1 \in 0 .. T /\ k + 1 # 0 /\ (k + 1) - 1 = k
    OBVIOUS
  <2> QED
    BY <1>3, <2>1
<1>7. ASSUME NEW k \in 0 .. (T - 1), k \in S PROVE k + 1 \in S
  <2>1. k \in Nat /\ f[k] \in Seq([1 .. k -> Labels])
    BY <1>7
  <2>2. longer[f[k]] \in Seq([1 .. k + 1 -> Labels])
    BY <2>1, LongerLists
  <2> QED
    BY <1>6, <2>2
<1> HIDE DEF S
<1>8. 0 .. T \subseteq S
  BY <1>5, <1>7, IntervalInduction
<1>9. \A k \in 0 .. T : f[k] \in Seq([1 .. k -> Labels])
  BY <1>8 DEF S
<1>10. ASSUME NEW k \in 0 .. (T - 1)
       PROVE  /\ Len(f[k + 1]) = Len(f[k]) * NumLabels
              /\ \A p \in 1 .. Len(f[k]) : \A j \in Labels :
                   /\ (p - 1) * NumLabels + j \in 1 .. Len(f[k]) * NumLabels
                   /\ f[k + 1][(p - 1) * NumLabels + j] = Append(f[k][p], j)
  <2>1. k \in 0 .. T /\ k \in Nat /\ f[k + 1] = longer[f[k]]
    BY <1>6
  <2>2. f[k] \in Seq([1 .. k -> Labels])
    BY <1>9, <2>1
  <2>3. PICK ps \in Seq([1 .. k -> Labels]) : ps = f[k]
    BY <2>2
  <2>4. /\ Len(longer[ps]) = Len(ps) * NumLabels
        /\ \A p \in 1 .. Len(ps) : \A j \in Labels :
             (p - 1) * NumLabels + j \in 1 .. Len(ps) * NumLabels
               /\ longer[ps][(p - 1) * NumLabels + j] = Append(ps[p], j)
    BY <2>1, LongerLists
  <2> QED
    BY <2>1, <2>3, <2>4
<1>11. Listed(f)
  BY <1>4, <1>9, <1>10 DEF Listed
<1> QED
  BY <1>1, <1>11, PathRowChosen

(* What a label adds to the score of a path.                               *)
Gain(path, t) ==
  ItemScore(instance[t])[path[t]] + (IF t = 1 THEN 0 ELSE model.trans[path[t - 1]][path[t]])
Gains(path) == [t \in DOMAIN path |-> Gain(path, t)]

LEMMA ScoreIsSum == ASSUME NEW path PROVE ScoreOf(instance, path) = IntSum(Gains(path))
BY DEF ScoreOf, Gains, Gain

LEMMA GainsTyped ==
  ASSUME Ready, NEW k \in 0 .. T, NEW path \in [1 .. k -> Labels]
  PROVE  /\ Gains(path) \in [1 .. k -> Int] /\ ScoreOf(instance, path) \in Int
         /\ \A t \in 1 .. k : /\ Gains(path)[t] = state[t][path[t]] + (IF t = 1 THEN 0 ELSE model.trans[path[t - 1]][path[t]])
                              /\ state[t][path[t]] \in Int
<1>1. T \in Nat \ {0} /\ Items = 1 .. T
  BY ReadyIs
<1>2. ASSUME NEW t \in 1 .. k
      PROVE  /\ Gain(path, t) \in Int /\ state[t][path[t]] \in Int
             /\ Gain(path, t) = state[t][path[t]] + (IF t = 1 THEN 0 ELSE model.trans[path[t - 1]][path[t]])
  <2>1. t \in Items /\ path[t] \in Labels
    BY <1>1
  <2>2. state[t][path[t]] \in Int /\ state[t] = ItemScore(instance[t])
    BY <2>1, ScoresTyped DEF Ready
  <2>3. (IF t = 1 THEN 0 ELSE model.trans[path[t - 1]][path[t]]) \in Int
    <3>1. CASE t = 1
      BY <3>1
    <3>2. CASE t # 1
      <4>1. t - 1 \in 1 .. k
        BY <3>2
      <4>2. path[t - 1] \in Labels
        BY <4>1
      <4>3. model.trans[path[t - 1]][path[t]] \in Int
        BY <2>1, <4>2, ModelTyped DEF Ready
      <4> QED
        BY <3>2, <4>3
    <3> QED
      BY <3>1, <3>2
  <2>4. PICK a \in Int, b \in Int : a = state[t][path[t]]
               /\ b = IF t = 1 THEN 0 ELSE model.trans[path[t - 1]][path[t]]
    BY <2>2, <2>3
  <2>5. Gain(path, t) = a + b
    BY <2>2, <2>4 DEF Gain
  <2> QED
    BY <2>4, <2>5
<1>3. PICK m \in Nat : m = k
  BY <1>1
<1>4. Gains(path) \in [1 .. k -> Int] /\ \A t \in 1 .. k : Gains(path)[t] = Gain(path, t)
  BY <1>2 DEF Gains
<1>5. IntSum(Gains(path)) \in Int
  <2>1. PICK row \in [1 .. m -> Int] : row = Gains(path)
    BY <1>3, <1>4
  <2>2. PICK s \in [0 .. m -> Int] : IntSum(row) = s[m]
    BY <1>3, IntSumHas
  <2> QED
    BY <1>3, <2>1, <2>2
<1> QED
  BY <1>2, <1>4, <1>5, ScoreIsSum

(* A label more adds its weights to the score of a path.                   *)
LEMMA ScoreLonger ==
  ASSUME Ready, NEW k \in 0 .. (T - 1), NEW path \in [1 .. k -> Labels], NEW j \in Labels
  PROVE  /\ ScoreOf(instance, Append(path, j))
              = ScoreOf(instance, path) + (state[k + 1][j] + (IF k = 0 THEN 0 ELSE model.trans[path[k]][j]))
         /\ k = 0 => ScoreOf(instance, path) = 0
<1>1. T \in Nat \ {0} /\ Items = 1 .. T /\ k \in Nat /\ k \in 0 .. T /\ k + 1 \in 0 .. T /\ k + 1 \in Items
  BY ReadyIs
<1>2. PICK longerPath : longerPath = Append(path, j)
  OBVIOUS
<1>3. longerPath \in [1 .. k + 1 -> Labels] /\ longerPath[k + 1] = j
        /\ \A t \in 1 .. k : longerPath[t] = path[t]
  <2>1. k \in Nat
    BY <1>1
  <2>2. LabelBehind(Append(path, j), path, j, k)
    BY <2>1, AppendsLabel
  <2> QED
    BY <1>2, <2>2 DEF LabelBehind
<1>4. PICK row, first : row = Gains(longerPath) /\ first = Gains(path)
  OBVIOUS
<1>5. row \in [1 .. k + 1 -> Int]
      /\ \A t \in 1 .. k + 1 :
           row[t] = state[t][longerPath[t]] + (IF t = 1 THEN 0 ELSE model.trans[longerPath[t - 1]][longerPath[t]])
  BY <1>1, <1>3, <1>4, GainsTyped
<1>6. first \in [1 .. k -> Int]
      /\ \A t \in 1 .. k :
           first[t] = state[t][path[t]] + (IF t = 1 THEN 0 ELSE model.trans[path[t - 1]][path[t]])
  BY <1>1, <1>4, GainsTyped, ZenonT(60)
<1>7. ASSUME NEW t \in 1 .. k PROVE first[t] = row[t]
  <2>1. t \in 1 .. k + 1 /\ (t # 1 => t - 1 \in 1 .. k)
    BY <1>1
  <2>2. longerPath[t] = path[t] /\ (t # 1 => longerPath[t - 1] = path[t - 1])
    BY <1>3, <2>1
  <2>3. (IF t = 1 THEN 0 ELSE model.trans[longerPath[t - 1]][longerPath[t]])
          = IF t = 1 THEN 0 ELSE model.trans[path[t - 1]][path[t]]
    BY <2>2
  <2>4. row[t] = state[t][path[t]] + (IF t = 1 THEN 0 ELSE model.trans[longerPath[t - 1]][longerPath[t]])
    BY <1>5, <2>1, <2>2
  <2>5. first[t] = state[t][path[t]] + (IF t = 1 THEN 0 ELSE model.trans[path[t - 1]][path[t]])
    BY <1>6
  <2> QED
    BY <2>3, <2>4, <2>5
<1>8. IntSum(row) = IntSum(first) + row[k + 1]
  BY <1>1, <1>5, <1>6, <1>7, IntSumLonger
<1>9. row[k + 1] = state[k + 1][j] + (IF k = 0 THEN 0 ELSE model.trans[path[k]][j])
  <2>1. k + 1 \in 1 .. k + 1 /\ (k + 1) - 1 = k /\ (k = 0 <=> k + 1 = 1) /\ (k # 0 => k \in 1 .. k)
    BY <1>1
  <2>2. PICK i : i = k + 1
    OBVIOUS
  <2>3. row[i] = state[i][longerPath[i]] + (IF i = 1 THEN 0 ELSE model.trans[longerPath[i - 1]][longerPath[i]])
    BY <1>5, <2>1, <2>2
  <2>4. longerPath[i] = j /\ i - 1 = k /\ (k = 0 <=> i = 1) /\ (k # 0 => longerPath[k] = path[k])
    BY <1>3, <2>1, <2>2
  <2>5. row[i] = state[i][j] + (IF k = 0 THEN 0 ELSE model.trans[path[k]][j])
    BY <2>3, <2>4
  <2> QED
    BY <2>2, <2>5
<1>10. ScoreOf(instance, longerPath) = IntSum(row) /\ ScoreOf(instance, path) = IntSum(first)
  BY <1>4, ScoreIsSum
<1>11. k = 0 => IntSum(first) = 0
  BY <1>6, IntSumEmpty
<1> QED
  BY <1>2, <1>8, <1>9, <1>10, <1>11

(* Weights and states when only label l is left for item x; none for x = 0.*)
MaskWeight(path, x, l) == IF x \in DOMAIN path /\ path[x] # l THEN Zero ELSE Exp(ScoreOf(instance, path))
MaskStates(x, l) == [t \in Items |-> [j \in Labels |-> IF t = x /\ j # l THEN Zero ELSE ExpState(t, j)]]

LEMMA MaskIs ==
  ASSUME Ready, NEW x, NEW l
  PROVE  /\ MaskStates(x, l) \in [1 .. T -> RowsOf(NumLabels)]
         /\ \A t \in Items : \A j \in Labels :
              MaskStates(x, l)[t][j] = IF t = x /\ j # l THEN Zero ELSE ExpState(t, j)
         /\ \A k \in 0 .. T : \A path \in [1 .. k -> Labels] : MaskWeight(path, x, l) \in Numbers
<1>1. T \in Nat \ {0} /\ Items = 1 .. T /\ NumLabels \in Nat \ {0} /\ Labels = 1 .. NumLabels
        /\ Zero \in Numbers
  BY ReadyIs, ZeroNumber
<1>2. \A t \in Items : \A j \in Labels : (IF t = x /\ j # l THEN Zero ELSE ExpState(t, j)) \in Numbers
  BY <1>1, ScoresTyped
<1>3. MaskStates(x, l) \in [1 .. T -> [1 .. NumLabels -> Numbers]]
  BY <1>1, <1>2 DEF MaskStates
<1>4. \A k \in 0 .. T : \A path \in [1 .. k -> Labels] : Exp(ScoreOf(instance, path)) \in Numbers
  BY GainsTyped, ExpNumber
<1> QED
  BY <1>1, <1>3, <1>4 DEF MaskStates, MaskWeight, RowsOf

(* A path with one more label has as weight the product.                   *)
MaskGrows(y, path, j, k, x, l) ==
  /\ k = 0 => MaskWeight(y, x, l) = MaskStates(x, l)[1][j]
  /\ k # 0 => MaskWeight(y, x, l)
                = Times(MaskWeight(path, x, l), Times(Edges[path[k]][j], MaskStates(x, l)[k + 1][j]))

(* And multiplies the weight by their exponentials.                        *)
LEMMA MaskLonger ==
  ASSUME Ready, NEW x, NEW l, NEW k \in 0 .. (T - 1), NEW path \in [1 .. k -> Labels], NEW j \in Labels
  PROVE  MaskGrows(Append(path, j), path, j, k, x, l)
<1>1. T \in Nat \ {0} /\ Items = 1 .. T /\ k \in Nat /\ k \in 0 .. T /\ k + 1 \in 0 .. T /\ k + 1 \in Items
  BY ReadyIs
<1>2. PICK y : y = Append(path, j)
  OBVIOUS
<1>3. y \in [1 .. k + 1 -> Labels] /\ y[k + 1] = j /\ \A t \in 1 .. k : y[t] = path[t]
  <2>1. k \in Nat
    BY <1>1
  <2>2. LabelBehind(Append(path, j), path, j, k)
    BY <2>1, AppendsLabel
  <2> QED
    BY <1>2, <2>2 DEF LabelBehind
<1>4. PICK a \in Int, b \in Int : a = ScoreOf(instance, path) /\ b = state[k + 1][j]
  BY <1>1, GainsTyped, ScoresTyped
<1>5. ExpState(k + 1, j) = Exp(b)
  BY <1>4 DEF ExpState
<1>6. MaskStates(x, l)[k + 1][j] = IF k + 1 = x /\ j # l THEN Zero ELSE Exp(b)
  BY <1>1, <1>5, MaskIs
<1>7. DOMAIN y = 1 .. k + 1 /\ DOMAIN path = 1 .. k
  BY <1>3
<1>8. CASE k = 0
  <2>1. ScoreOf(instance, y) = b
    <3>1. /\ ScoreOf(instance, Append(path, j))
               = ScoreOf(instance, path) + (state[k + 1][j] + (IF k = 0 THEN 0 ELSE model.trans[path[k]][j]))
          /\ k = 0 => ScoreOf(instance, path) = 0
      BY ScoreLonger
    <3>2. ScoreOf(instance, path) = 0 /\ (IF k = 0 THEN 0 ELSE model.trans[path[k]][j]) = 0
      BY <1>8, <3>1
    <3>3. ScoreOf(instance, y) = 0 + (b + 0)
      BY <1>2, <1>4, <3>1, <3>2
    <3> QED
      BY <3>3
  <2>2. x \in DOMAIN y <=> x = 1
    BY <1>7, <1>8
  <2>3. y[1] = j /\ k + 1 = 1
    BY <1>3, <1>8
  <2>4. MaskWeight(y, x, l) = IF x = 1 /\ j # l THEN Zero ELSE Exp(b)
    BY <2>1, <2>2, <2>3 DEF MaskWeight
  <2> QED
    BY <1>2, <1>6, <1>8, <2>3, <2>4 DEF MaskGrows
<1>9. CASE k # 0
  <2>1. k \in 1 .. k /\ path[k] \in Labels
    BY <1>1, <1>9
  <2>2. PICK c \in Int : c = model.trans[path[k]][j]
    BY <2>1, ModelTyped DEF Ready
  <2>3. ScoreOf(instance, y) = a + (b + c)
    BY <1>2, <1>4, <1>9, <2>2, ScoreLonger
  <2>4. ScoreOf(instance, y) = a + (c + b) /\ c + b \in Int
    BY <2>3
  <2>5. Exp(ScoreOf(instance, y)) = Times(Exp(a), Exp(c + b)) /\ Exp(c + b) = Times(Exp(c), Exp(b))
    BY <2>4, ExpSum
  <2>6. Edges[path[k]][j] = Exp(c)
    BY <2>1, <2>2 DEF Edges, ExpTrans
  <2>7. Exp(a) \in Numbers /\ Exp(b) \in Numbers /\ Exp(c) \in Numbers /\ Zero \in Numbers
    BY ExpNumber, ZeroNumber
  <2>8. Times(Exp(c), Exp(b)) \in Numbers /\ Times(Exp(c), Zero) = Zero /\ Times(Exp(a), Zero) = Zero
    BY <2>7, TimesNumber, Neutral
  <2>9. Times(Zero, Times(Exp(c), Exp(b))) = Zero /\ Times(Zero, Zero) = Zero
    BY <2>7, <2>8, Neutral
  <2>10. CASE x \in 1 .. k
    <3>1. x # k + 1 /\ x \in 1 .. k + 1 /\ y[x] = path[x]
      BY <1>1, <1>3, <2>10
    <3>2. MaskWeight(y, x, l) = IF path[x] # l THEN Zero ELSE Exp(ScoreOf(instance, y))
      BY <1>7, <3>1 DEF MaskWeight
    <3>3. MaskWeight(path, x, l) = IF path[x] # l THEN Zero ELSE Exp(a)
      BY <1>4, <1>7, <2>10 DEF MaskWeight
    <3>4. MaskStates(x, l)[k + 1][j] = Exp(b)
      BY <1>6, <3>1
    <3> QED
      BY <1>2, <1>9, <2>5, <2>6, <2>9, <3>2, <3>3, <3>4 DEF MaskGrows
  <2>11. CASE x \notin 1 .. k
    <3>1. x \in 1 .. k + 1 <=> x = k + 1
      BY <1>1, <2>11
    <3>2. MaskWeight(y, x, l) = IF x = k + 1 /\ j # l THEN Zero ELSE Exp(ScoreOf(instance, y))
      BY <1>3, <1>7, <3>1 DEF MaskWeight
    <3>3. MaskWeight(path, x, l) = Exp(a)
      BY <1>4, <1>7, <2>11 DEF MaskWeight
    <3> QED
      BY <1>2, <1>6, <1>9, <2>5, <2>6, <2>8, <3>2, <3>3 DEF MaskGrows
  <2> QED
    BY <2>10, <2>11
<1> QED
  BY <1>8, <1>9

(* The weights of the paths in a row.                                      *)
Masked(ps, x, l) == [p \in 1 .. Len(ps) |-> MaskWeight(ps[p], x, l)]
Lasts(ps, k) == [p \in 1 .. Len(ps) |-> ps[p][k]]

LEMMA PathsIn ==
  ASSUME Ready, NEW f, Listed(f), NEW k \in 0 .. T
  PROVE  /\ Len(f[k]) \in Nat /\ DOMAIN f[k] = 1 .. Len(f[k])
              /\ \A p \in 1 .. Len(f[k]) : f[k][p] \in [1 .. k -> Labels]
<1>1. PICK Y : Y = [1 .. k -> Labels]
  OBVIOUS
<1>2. f[k] \in Seq(Y)
  BY <1>1 DEF Listed
<1>3. Len(f[k]) \in Nat /\ DOMAIN f[k] = 1 .. Len(f[k]) /\ \A p \in 1 .. Len(f[k]) : f[k][p] \in Y
  BY <1>2
<1> QED
  BY <1>1, <1>3

MaskedRow(ps, k, x, l) ==
  /\ Masked(ps, x, l) \in RowsOf(Len(ps))
  /\ \A p \in 1 .. Len(ps) : Masked(ps, x, l)[p] = MaskWeight(ps[p], x, l) /\ Lasts(ps, k)[p] = ps[p][k]
  /\ k # 0 => Lasts(ps, k) \in [1 .. Len(ps) -> 1 .. NumLabels]

LEMMA MaskedIs ==
  ASSUME Ready, NEW x, NEW l, NEW f, Listed(f), NEW k \in 0 .. T
  PROVE  MaskedRow(f[k], k, x, l)
<1>1. /\ Len(f[k]) \in Nat /\ \A p \in 1 .. Len(f[k]) : f[k][p] \in [1 .. k -> Labels]
  BY PathsIn
<1>2. PICK m, ps : m \in Nat /\ m = Len(f[k]) /\ ps = f[k]
  BY <1>1
<1>3. \A p \in 1 .. m : MaskWeight(ps[p], x, l) \in Numbers
  BY <1>1, <1>2, MaskIs
<1>4. Masked(ps, x, l) \in RowsOf(m) /\ \A p \in 1 .. m : Masked(ps, x, l)[p] = MaskWeight(ps[p], x, l)
  BY <1>2, <1>3 DEF Masked, RowsOf
<1>5. \A p \in 1 .. m : Lasts(ps, k)[p] = ps[p][k]
  BY <1>2 DEF Lasts
<1>6. ASSUME k # 0 PROVE Lasts(ps, k) \in [1 .. m -> 1 .. NumLabels]
  <2>1. k \in 1 .. k
    BY <1>6, ReadyIs
  <2>2. \A p \in 1 .. m : ps[p][k] \in 1 .. NumLabels
    BY <1>1, <1>2, <2>1, ReadyIs
  <2> QED
    BY <1>2, <2>2 DEF Lasts
<1> QED
  BY <1>2, <1>4, <1>5, <1>6 DEF MaskedRow

LEMMA ProlongsIs ==
  ASSUME Ready, NEW x, NEW l, NEW f, Listed(f), NEW k \in 1 .. (T - 1)
  PROVE  Prolongs(Masked(f[k + 1], x, l), Lasts(f[k + 1], k + 1), Masked(f[k], x, l), Lasts(f[k], k), Len(f[k]), NumLabels,
                  Edges, MaskStates(x, l)[k + 1])
<1>1. /\ T \in Nat \ {0} /\ NumLabels \in Nat \ {0} /\ Labels = 1 .. NumLabels
      /\ k \in 0 .. (T - 1) /\ k # 0 /\ k \in 0 .. T /\ k + 1 \in 0 .. T /\ k \in 1 .. k /\ k \in Nat
  BY ReadyIs
<1> SUFFICES ASSUME NEW p \in 1 .. Len(f[k]), NEW j \in 1 .. NumLabels
             PROVE  /\ Masked(f[k + 1], x, l)[(p - 1) * NumLabels + j]
                         = Times(Masked(f[k], x, l)[p], Times(Edges[Lasts(f[k], k)[p]][j], MaskStates(x, l)[k + 1][j]))
                    /\ Lasts(f[k + 1], k + 1)[(p - 1) * NumLabels + j] = j
  BY DEF Prolongs
<1>2. PICK n : n = (p - 1) * NumLabels + j
  OBVIOUS
<1>3. n \in 1 .. Len(f[k + 1]) /\ f[k + 1][n] = Append(f[k][p], j)
  BY <1>1, <1>2 DEF Listed
<1>4. PICK path \in [1 .. k -> Labels] : path = f[k][p]
  BY <1>1, PathsIn
<1>5. LabelBehind(Append(path, j), path, j, k)
  BY <1>1, <1>4, AppendsLabel
<1>6. Append(path, j)[k + 1] = j
  BY <1>5 DEF LabelBehind
<1>7. MaskWeight(Append(path, j), x, l)
        = Times(MaskWeight(path, x, l), Times(Edges[path[k]][j], MaskStates(x, l)[k + 1][j]))
  <2>1. MaskGrows(Append(path, j), path, j, k, x, l)
    BY <1>1, MaskLonger
  <2> QED
    BY <1>1, <2>1 DEF MaskGrows
<1>8. Masked(f[k], x, l)[p] = MaskWeight(path, x, l) /\ Lasts(f[k], k)[p] = path[k]
  <2>1. MaskedRow(f[k], k, x, l)
    BY <1>1, MaskedIs
  <2> QED
    BY <1>4, <2>1 DEF MaskedRow
<1>9. Masked(f[k + 1], x, l)[n] = MaskWeight(f[k + 1][n], x, l)
        /\ Lasts(f[k + 1], k + 1)[n] = f[k + 1][n][k + 1]
  <2>1. MaskedRow(f[k + 1], k + 1, x, l)
    BY <1>1, MaskedIs
  <2> QED
    BY <1>3, <2>1 DEF MaskedRow
<1> QED
  BY <1>2, <1>3, <1>4, <1>6, <1>7, <1>8, <1>9

(* The paths of one item.                                                  *)
StartsWith(ps, x, l) ==
  /\ Len(ps) = NumLabels
  /\ \A j \in 1 .. NumLabels : Masked(ps, x, l)[j] = MaskStates(x, l)[1][j] /\ Lasts(ps, 1)[j] = j

LEMMA FirstPaths ==
  ASSUME Ready, NEW x, NEW l, NEW f, Listed(f)
  PROVE  StartsWith(f[1], x, l)
<1>1. /\ T \in Nat \ {0} /\ NumLabels \in Nat \ {0} /\ Labels = 1 .. NumLabels
      /\ 0 \in 0 .. (T - 1) /\ 0 \in 0 .. T /\ 1 \in 0 .. T
  BY ReadyIs
<1>2. f[0] = << << >> >> /\ Len(f[0]) = 1 /\ f[0][1] = << >>
  BY DEF Listed
<1>3. /\ Len(f[1]) = 1 * NumLabels
      /\ \A p \in 1 .. 1 : \A j \in Labels : f[1][(p - 1) * NumLabels + j] = Append(f[0][p], j)
  <2>1. PICK k : k = 0 /\ k \in 0 .. (T - 1) /\ k + 1 = 1
    BY <1>1
  <2>2. /\ Len(f[k + 1]) = Len(f[k]) * NumLabels
        /\ \A p \in 1 .. Len(f[k]) : \A j \in Labels : f[k + 1][(p - 1) * NumLabels + j] = Append(f[k][p], j)
    BY <2>1 DEF Listed
  <2> QED
    BY <1>2, <2>1, <2>2
<1>4. Len(f[1]) = NumLabels
  BY <1>1, <1>3
<1>5. ASSUME NEW j \in 1 .. NumLabels
      PROVE  Masked(f[1], x, l)[j] = MaskStates(x, l)[1][j] /\ Lasts(f[1], 1)[j] = j
  <2>1. 1 \in 1 .. 1 /\ (1 - 1) * NumLabels + j = j
    BY <1>1
  <2>2. f[1][j] = Append(<< >>, j)
    <3>1. f[1][(1 - 1) * NumLabels + j] = Append(f[0][1], j)
      BY <1>1, <1>3, <2>1
    <3> QED
      BY <1>2, <2>1, <3>1
  <2>0. << >> \in [1 .. 0 -> Labels]
    OBVIOUS
  <2>3. PICK path : path = << >> /\ path \in [1 .. 0 -> Labels]
    BY <2>0
  <2>4. LabelBehind(Append(path, j), path, j, 0)
    BY <1>1, <2>3, AppendsLabel
  <2>5. Append(path, j)[0 + 1] = j
    BY <2>4 DEF LabelBehind
  <2>6. MaskWeight(Append(path, j), x, l) = MaskStates(x, l)[1][j]
    <3>1. PICK k : k = 0 /\ k \in 0 .. (T - 1) /\ path \in [1 .. k -> Labels]
      BY <1>1, <2>3
    <3>2. MaskGrows(Append(path, j), path, j, k, x, l)
      BY <1>1, <3>1, MaskLonger
    <3> QED
      BY <3>1, <3>2 DEF MaskGrows
  <2>7. Masked(f[1], x, l)[j] = MaskWeight(f[1][j], x, l) /\ Lasts(f[1], 1)[j] = f[1][j][1]
    <3>1. MaskedRow(f[1], 1, x, l)
      BY <1>1, MaskedIs
    <3> QED
      BY <1>4, <3>1 DEF MaskedRow
  <2> QED
    BY <2>2, <2>3, <2>5, <2>6, <2>7
<1> QED
  BY <1>4, <1>5 DEF StartsWith

(* The rows of PathRow list the paths of 1, 2, ..., T items.               *)
LEMMA Enumerated ==
  ASSUME Ready, NEW x, NEW l, NEW f, Listed(f)
  PROVE  \E w, e, s : /\ Enumerates(w, e, s, T, NumLabels, Edges, MaskStates(x, l))
                      /\ w[T] = Masked(f[T], x, l)
<1>1. T \in Nat \ {0} /\ NumLabels \in Nat \ {0} /\ 1 \in 1 .. T /\ T \in 1 .. T
  BY ReadyIs
<1>2. PICK w : w = [k \in 1 .. T |-> Masked(f[k], x, l)]
  OBVIOUS
<1>3. PICK e : e = [k \in 1 .. T |-> Lasts(f[k], k)]
  OBVIOUS
<1>4. PICK s : s = [k \in 1 .. T |-> Len(f[k])]
  OBVIOUS
<1>5. \A k \in 1 .. T : w[k] = Masked(f[k], x, l) /\ e[k] = Lasts(f[k], k) /\ s[k] = Len(f[k])
  BY <1>2, <1>3, <1>4
<1>6. ASSUME NEW k \in 1 .. T
      PROVE  s[k] \in Nat /\ w[k] \in RowsOf(s[k]) /\ e[k] \in [1 .. s[k] -> 1 .. NumLabels]
  <2>1. k \in 0 .. T /\ k # 0
    BY <1>1
  <2>2. MaskedRow(f[k], k, x, l) /\ Len(f[k]) \in Nat
    BY <2>1, PathsIn, MaskedIs
  <2> QED
    BY <1>5, <2>1, <2>2 DEF MaskedRow
<1>7. s \in [1 .. T -> Nat]
  BY <1>4, <1>5, <1>6
<1>8. s[1] = NumLabels /\ \A j \in 1 .. NumLabels : w[1][j] = MaskStates(x, l)[1][j] /\ e[1][j] = j
  <2>1. StartsWith(f[1], x, l)
    BY FirstPaths
  <2> QED
    BY <1>1, <1>5, <2>1 DEF StartsWith
<1>9. ASSUME NEW k \in 1 .. (T - 1)
      PROVE  /\ s[k + 1] = s[k] * NumLabels
             /\ Prolongs(w[k + 1], e[k + 1], w[k], e[k], s[k], NumLabels, Edges, MaskStates(x, l)[k + 1])
  <2>1. k \in 1 .. T /\ k + 1 \in 1 .. T /\ k \in 0 .. (T - 1)
    BY <1>1
  <2>2. Len(f[k + 1]) = Len(f[k]) * NumLabels
    BY <2>1 DEF Listed
  <2> QED
    BY <1>5, <2>1, <2>2, ProlongsIs
<1>10. Enumerates(w, e, s, T, NumLabels, Edges, MaskStates(x, l))
  BY <1>6, <1>7, <1>8, <1>9 DEF Enumerates
<1> QED
  BY <1>1, <1>5, <1>10

LEMMA MaskedSum ==
  ASSUME Ready, NEW x, NEW l, NEW f, Listed(f), NEW z, Reached(z, T, NumLabels, Edges, MaskStates(x, l))
  PROVE  VecSum(Masked(f[T], x, l)) = VecSum(z[T])
<1>1. T \in Nat \ {0} /\ NumLabels \in Nat
  BY ReadyIs
<1>2. PICK w, e, s : Enumerates(w, e, s, T, NumLabels, Edges, MaskStates(x, l)) /\ w[T] = Masked(f[T], x, l)
  BY Enumerated
<1>3. Edges \in Square(NumLabels)
  BY LatticeIs DEF Lattice
<1>4. PICK es \in [1 .. T -> RowsOf(NumLabels)] : es = MaskStates(x, l)
  BY MaskIs
<1>5. VecSum(w[T]) = VecSum(z[T])
  BY <1>1, <1>2, <1>3, <1>4, PathSums
<1> QED
  BY <1>2, <1>5

-----------------------------------------------------------------------------
(* What forward-backward has to do with label sequences.                   *)

LEMMA Unmasked ==
  ASSUME Ready
  PROVE  MaskStates(0, 0) = States
<1>1. 0 \notin Items
  BY ReadyIs
<1>2. \A t \in Items : \A j \in Labels : (IF t = 0 /\ j # 0 THEN Zero ELSE ExpState(t, j)) = ExpState(t, j)
  BY <1>1
<1> QED
  BY <1>2 DEF MaskStates, States

LEMMA WeightsAre ==
  ASSUME Ready, NEW f, Listed(f)
  PROVE  /\ Weights(f[T]) = Masked(f[T], 0, 0)
         /\ \A p \in 1 .. Len(f[T]) : Weights(f[T])[p] = Exp(ScoreOf(instance, f[T][p]))
<1>1. T \in Nat \ {0} /\ T \in 0 .. T
  BY ReadyIs
<1>2. Len(f[T]) \in Nat /\ DOMAIN f[T] = 1 .. Len(f[T])
        /\ \A p \in 1 .. Len(f[T]) : f[T][p] \in [1 .. T -> Labels]
  BY <1>1, PathsIn
<1>3. PICK m, ps : m \in Nat /\ m = Len(f[T]) /\ ps = f[T]
  BY <1>2
<1>4. ASSUME NEW p \in 1 .. m PROVE MaskWeight(ps[p], 0, 0) = Exp(ScoreOf(instance, ps[p]))
  <2>1. DOMAIN ps[p] = 1 .. T
    BY <1>2, <1>3
  <2>2. 0 \notin DOMAIN ps[p]
    BY <1>1, <2>1
  <2> QED
    BY <2>2 DEF MaskWeight
<1>5. PICK row : row = Masked(ps, 0, 0)
  OBVIOUS
<1>6. row \in RowsOf(m) /\ \A p \in 1 .. m : row[p] = MaskWeight(ps[p], 0, 0)
  <2>1. MaskedRow(f[T], T, 0, 0)
    BY <1>1, MaskedIs
  <2> QED
    BY <1>3, <1>5, <2>1 DEF MaskedRow
<1>7. row = [p \in 1 .. m |-> Exp(ScoreOf(instance, ps[p]))]
  <2>1. row = [p \in 1 .. m |-> row[p]]
    BY <1>6 DEF RowsOf
  <2>2. \A p \in 1 .. m : row[p] = Exp(ScoreOf(instance, ps[p]))
    BY <1>4, <1>6
  <2> QED
    BY <2>1, <2>2, Zenon
<1>8. Weights(ps) = Row([p \in 1 .. m |-> Exp(ScoreOf(instance, ps[p]))])
  BY <1>2, <1>3 DEF Weights
<1>9. Row(row) = row
  BY <1>3, <1>6, RowScores
<1>10. Weights(ps) = row
  BY <1>7, <1>8, <1>9
<1> QED
  BY <1>3, <1>4, <1>5, <1>6, <1>10

(* lognorm after forward-backward, whether viterbi has run since or not.   *)
LEMMA NormIs ==
  ASSUME Ready, NEW ctx, NEW dirty, Ran(ctx, dirty)
  PROVE  ctx.norm = VecSum(Weights(PathRow))
<1>1. T \in Nat \ {0} /\ NumLabels \in Nat \ {0} /\ T = Len(instance)
  BY ReadyIs
<1>2. PICK f : Listed(f) /\ PathRow = f[T]
  BY <1>1, PathRowIs
<1>3. PICK a, b, c, p : Holds(ctx, dirty, a, b, c, p)
  BY DEF Ran
<1>4. Left(a, b, c, p, T, NumLabels, Edges, States) /\ ctx.norm = Over(One, p[T])
  BY <1>3 DEF Holds
<1>5. Edges \in Square(NumLabels) /\ States \in [1 .. T -> RowsOf(NumLabels)]
  BY LatticeIs DEF Lattice
<1>6. PICK et \in Square(NumLabels), es \in [1 .. T -> RowsOf(NumLabels)] : et = Edges /\ es = States
  BY <1>5
<1>7. \E z : Reached(z, T, NumLabels, et, es)
  BY <1>1, ReachedExists
<1>8. PICK z : Reached(z, T, NumLabels, Edges, States)
  BY <1>6, <1>7
<1>9. Over(One, p[T]) = VecSum(z[T])
  BY <1>4, <1>8, NormMeets
<1>10. Reached(z, T, NumLabels, Edges, MaskStates(0, 0))
  BY <1>8, Unmasked
<1>11. VecSum(Masked(f[T], 0, 0)) = VecSum(z[T])
  BY <1>2, <1>10, MaskedSum
<1> QED
  BY <1>2, <1>4, <1>9, <1>11, WeightsAre

(* A marginal, when viterbi has not run since.                             *)
LEMMA MarginalIs ==
  ASSUME Ready, NEW ctx, Ran(ctx, FALSE), NEW t \in Items, NEW l \in Labels
  PROVE  MarginalPath(ctx, << l >>, t) = Share(PathRow, Weights(PathRow), << l >>, t)
<1>1. T \in Nat \ {0} /\ Items = 1 .. T /\ NumLabels \in Nat \ {0} /\ Labels = 1 .. NumLabels
        /\ T = Len(instance) /\ T \in 0 .. T
  BY ReadyIs
<1>2. PICK f : Listed(f) /\ PathRow = f[T]
  BY <1>1, PathRowIs
<1>3. PICK a, b, c, p : Holds(ctx, FALSE, a, b, c, p)
  BY DEF Ran
<1>4. /\ Left(a, b, c, p, T, NumLabels, Edges, States)
      /\ ctx.beta[t] = b[t] /\ ctx.scale[t] = c[t] /\ ctx.alpha[t] = a[t]
  BY <1>3 DEF Holds
<1>5. Edges \in Square(NumLabels) /\ States \in [1 .. T -> RowsOf(NumLabels)]
  BY LatticeIs DEF Lattice
<1>6. PICK et \in Square(NumLabels), es \in [1 .. T -> RowsOf(NumLabels)], fs \in [1 .. T -> RowsOf(NumLabels)] :
        et = Edges /\ es = States /\ fs = MaskStates(t, l)
  BY <1>5, MaskIs
<1>7. (\E z : Reached(z, T, NumLabels, et, es)) /\ \E r : Reached(r, T, NumLabels, et, fs)
  BY <1>1, ReachedExists
<1>8. PICK z : Reached(z, T, NumLabels, et, es)
  BY <1>7
<1>9. PICK r : Reached(r, T, NumLabels, et, fs)
  BY <1>7
<1>10. Only(fs, es, t, l, T, NumLabels)
  <2>1. \A x \in Items : \A j \in Labels :
          MaskStates(t, l)[x][j] = (IF x = t /\ j # l THEN Zero ELSE ExpState(x, j))
            /\ States[x][j] = ExpState(x, j)
    BY MaskIs DEF States
  <2> QED
    BY <1>1, <1>6, <2>1 DEF Only
<1>11. Over(Times(a[t][l], b[t][l]), c[t]) = Over(VecSum(r[T]), VecSum(z[T]))
         /\ Over(Times(a[t][l], b[t][l]), c[t]) \in Numbers
  <2>1. t \in 1 .. T /\ l \in 1 .. NumLabels /\ Left(a, b, c, p, T, NumLabels, et, es)
    BY <1>1, <1>4, <1>6
  <2> QED
    BY <1>8, <1>9, <1>10, <2>1, MarginalMeets
<1>12. VecSum(Masked(f[T], t, l)) = VecSum(r[T])
  BY <1>2, <1>6, <1>9, MaskedSum
<1>13. VecSum(Masked(f[T], 0, 0)) = VecSum(z[T])
  <2>1. Reached(z, T, NumLabels, Edges, MaskStates(0, 0))
    BY <1>6, <1>8, Unmasked
  <2> QED
    BY <1>2, <2>1, MaskedSum
<1>14. MarginalPath(ctx, << l >>, t) = Over(VecSum(r[T]), VecSum(z[T]))
  <2>1. Len(<< l >>) = 1 /\ << l >>[1] = l /\ t + 1 - 1 = t /\ 1 - 1 = 0
    BY <1>1
  <2>2. PICK edge : edge = [k \in 1 .. Len(<< l >>) - 1 |->
                 Times(Times(ExpTrans(<< l >>[k], << l >>[k + 1]), ExpState(t + k, << l >>[k + 1])),
                       ctx.scale[t + k - 1])]
    OBVIOUS
  <2>3. edge \in [1 .. 0 -> Numbers]
    BY <2>1, <2>2
  <2>4. Product(edge) = One
    BY <2>3, ProductEmpty
  <2>5. MarginalPath(ctx, << l >>, t) = Times(Over(Times(ctx.alpha[t][l], ctx.beta[t][l]), ctx.scale[t]), Product(edge))
    BY <2>1, <2>2 DEF MarginalPath
  <2>6. MarginalPath(ctx, << l >>, t) = Times(Over(Times(a[t][l], b[t][l]), c[t]), One)
    BY <1>4, <2>4, <2>5
  <2>7. Times(Over(Times(a[t][l], b[t][l]), c[t]), One) = Over(Times(a[t][l], b[t][l]), c[t])
    BY <1>11, Neutral
  <2> QED
    BY <1>11, <2>6, <2>7
<1>15. PICK m, ps, w : m \in Nat /\ m = Len(f[T]) /\ ps = f[T] /\ w = Weights(f[T])
  BY <1>1, <1>2, PathsIn
<1>16. DOMAIN ps = 1 .. m /\ \A q \in 1 .. m : ps[q] \in [1 .. T -> Labels]
         /\ w[q] = Exp(ScoreOf(instance, ps[q]))
  <2>1. DOMAIN ps = 1 .. m /\ \A q \in 1 .. m : ps[q] \in [1 .. T -> Labels]
    BY <1>1, <1>2, <1>15, PathsIn
  <2>2. \A q \in 1 .. m : w[q] = Exp(ScoreOf(instance, ps[q]))
    BY <1>2, <1>15, WeightsAre
  <2> QED
    BY <2>1, <2>2
<1>17. PICK row : row = [q \in 1 .. m |-> IF \A k \in DOMAIN << l >> :
              ps[q][t + k - 1] = << l >>[k] THEN w[q] ELSE Zero]
  OBVIOUS
<1>18. ASSUME NEW q \in 1 .. m
       PROVE  (IF \A k \in DOMAIN << l >> :
                ps[q][t + k - 1] = << l >>[k] THEN w[q] ELSE Zero) = MaskWeight(ps[q], t, l)
  <2>1. DOMAIN << l >> = {1} /\ << l >>[1] = l /\ t + 1 - 1 = t
    BY <1>1
  <2>2. (\A k \in DOMAIN << l >> : ps[q][t + k - 1] = << l >>[k]) <=> ps[q][t] = l
    BY <2>1
  <2>3. t \in DOMAIN ps[q]
    BY <1>1, <1>16
  <2> QED
    BY <1>16, <2>2, <2>3 DEF MaskWeight
<1>19. row = Masked(ps, t, l)
  <2>1. Masked(ps, t, l) = [q \in 1 .. m |-> MaskWeight(ps[q], t, l)]
    BY <1>15 DEF Masked
  <2> QED
    BY <1>17, <1>18, <2>1
<1>20. Share(ps, w, << l >>, t) = Over(VecSum(row), VecSum(w))
  BY <1>16, <1>17 DEF Share
<1>21. VecSum(w) = VecSum(z[T]) /\ VecSum(row) = VecSum(r[T])
  BY <1>2, <1>12, <1>13, <1>15, <1>19, WeightsAre
<1> QED
  BY <1>2, <1>14, <1>15, <1>20, <1>21

(* The score of a path in the context is that of the instance.             *)
LEMMA PathScoreIs ==
  ASSUME Ready, NEW path \in [1 .. T -> Labels]
  PROVE  PathScore(path) = ScoreOf(instance, path)
<1>1. T \in Nat \ {0} /\ Items = 1 .. T /\ T \in 0 .. T
  BY ReadyIs
<1>2. /\ Gains(path) \in [1 .. T -> Int]
      /\ \A t \in 1 .. T :
           Gains(path)[t] = state[t][path[t]] + (IF t = 1 THEN 0 ELSE model.trans[path[t - 1]][path[t]])
  BY <1>1, GainsTyped
<1>3. PICK row : row = Gains(path)
  OBVIOUS
<1>4. row = [t \in Items |-> row[t]]
  BY <1>1, <1>2, <1>3
<1>5. \A t \in Items : row[t] = state[t][path[t]] + (IF t = 1 THEN 0 ELSE model.trans[path[t - 1]][path[t]])
  BY <1>1, <1>2, <1>3
<1>6. row = [t \in Items |-> state[t][path[t]] + (IF t = 1 THEN 0 ELSE model.trans[path[t - 1]][path[t]])]
  BY <1>4, <1>5, Zenon
<1>7. PathScore(path) = IntSum(row)
  BY <1>6, Zenon DEF PathScore
<1> QED
  BY <1>3, <1>7, ScoreIsSum

(* The labels of a sequence by their places in the model.                  *)
LEMMA IdsAre ==
  ASSUME Ready, NEW yseq, yseq \in Seq(ToSet(yseq)), Fits(yseq)
  PROVE  /\ IdsOf(yseq) \in [1 .. T -> Labels]
         /\ IdsOf(yseq) = [t \in Items |-> IdIn(model.labels, yseq[t])]
<1>1. T \in Nat \ {0} /\ Items = 1 .. T /\ NumLabels \in Nat \ {0} /\ Labels = 1 .. NumLabels
  BY ReadyIs
<1>2. DOMAIN yseq = Items
  BY <1>1 DEF Fits
<1>3. model.labels \in Seq(ToSet(model.labels)) /\ NumLabels = Len(model.labels)
  BY ModelTyped DEF Ready
<1>4. \A t \in Items : IdIn(model.labels, yseq[t]) \in Labels
  BY <1>1, <1>2, <1>3, IdInRow DEF Fits
<1>5. PICK f : f = [t \in Items |-> IdIn(model.labels, yseq[t])]
  OBVIOUS
<1>6. f \in [1 .. T -> Labels]
  BY <1>1, <1>4, <1>5
<1>7. Row(f) = f
  BY <1>1, <1>6, RowIs
<1> QED
  BY <1>2, <1>5, <1>6, <1>7 DEF IdsOf

(* The strings of a path are read back as the path: no label occurs twice  *)
(* in a model.                                                             *)
LEMMA NamedAgain ==
  ASSUME Ready, NEW path \in [1 .. T -> Labels]
  PROVE  IdsOf(Named(path)) = path
<1>1. T \in Nat \ {0} /\ Items = 1 .. T /\ NumLabels \in Nat \ {0} /\ Labels = 1 .. NumLabels
  BY ReadyIs
<1>2. /\ model.labels \in Seq(ToSet(model.labels)) /\ NumLabels = Len(model.labels)
      /\ \A i, j \in Labels : model.labels[i] = model.labels[j] => i = j
  BY ModelTyped DEF Ready
<1>3. PICK yseq : yseq = Named(path)
  OBVIOUS
<1>4. DOMAIN yseq = 1 .. T /\ \A t \in 1 .. T : yseq[t] = model.labels[path[t]]
  BY <1>3 DEF Named
<1>5. ASSUME NEW t \in 1 .. T PROVE IdIn(model.labels, yseq[t]) = path[t]
  <2>1. path[t] \in Labels /\ path[t] \in 1 .. Len(model.labels)
    BY <1>1, <1>2
  <2>2. PICK i, s : i = path[t] /\ s = yseq[t]
    OBVIOUS
  <2>3. model.labels[i] = s /\ i \in 1 .. Len(model.labels) /\ i \in Labels
    BY <1>4, <2>1, <2>2
  <2>4. PICK X, strings : X = ToSet(model.labels) /\ strings = model.labels /\ strings \in Seq(X)
    BY <1>2
  <2>5. /\ IdIn(strings, s) # 0 => IdIn(strings, s) \in 1 .. Len(strings) /\ strings[IdIn(strings, s)] = s
        /\ IdIn(strings, s) = 0 => \A k \in 1 .. Len(strings) : strings[k] # s
    BY <2>4, IdInRow
  <2>6. IdIn(strings, s) \in Labels /\ model.labels[IdIn(strings, s)] = s
    BY <1>1, <1>2, <2>3, <2>4, <2>5
  <2>7. IdIn(strings, s) = i
    BY <1>2, <2>3, <2>6
  <2> QED
    BY <2>2, <2>4, <2>7
<1>6. path = [t \in 1 .. T |-> path[t]]
  OBVIOUS
<1>7. path = [t \in DOMAIN yseq |-> IdIn(model.labels, yseq[t])]
  BY <1>4, <1>5, <1>6, Zenon
<1>8. Row(path) = path
  BY <1>1, RowIs
<1>9. IdsOf(yseq) = Row(path)
  BY <1>7, Zenon DEF IdsOf
<1> QED
  BY <1>3, <1>8, <1>9

-----------------------------------------------------------------------------
(* Viterbi.                                                                *)

LEMMA FirstMaxIs ==
  ASSUME Ready, NEW score \in [1 .. NumLabels -> Int]
  PROVE  FirstMax(score) \in Labels /\ \A k \in Labels : score[k] <= score[FirstMax(score)]
<1>1. NumLabels \in Nat \ {0} /\ Labels = 1 .. NumLabels
  BY ReadyIs
<1>2. PICK n, s : n = NumLabels /\ s = score /\ n \in Nat \ {0} /\ s \in [1 .. n -> Int]
  BY <1>1
<1>3. \E i \in 1 .. n : FirstGreatest(i, s, n)
  BY <1>2, FirstGreatestExists
<1>4. PICK i \in Labels : \A k \in Labels : score[k] < score[i] \/ (score[k] = score[i] /\ i <= k)
  BY <1>1, <1>2, <1>3 DEF FirstGreatest
<1>5. FirstMax(score) \in Labels
      /\ \A k \in Labels :
           score[k] < score[FirstMax(score)] \/ (score[k] = score[FirstMax(score)] /\ FirstMax(score) <= k)
  BY <1>4, Zenon DEF FirstMax
<1>6. \A k \in Labels : score[k] \in Int
  BY <1>1
<1> QED
  BY <1>5, <1>6

(* Rows of crf1dc_viterbi.                                                 *)
Cells == [1 .. NumLabels -> [score : Int, back : Nat]]

(* What bestRow leaves for item t, the item before having prev.            *)
Improves(row, prev, t) ==
  \A j \in Labels :
    /\ row[j].back \in Labels
    /\ row[j].score = prev[row[j].back].score + model.trans[row[j].back][j] + state[t][j]
    /\ \A i \in Labels : prev[i].score + model.trans[i][j] + state[t][j] <= row[j].score

LEMMA BestRowIs ==
  ASSUME Ready, NEW t \in Items, NEW prev \in Cells
  PROVE  BestRow(t)[prev] \in Cells /\ Improves(BestRow(t)[prev], prev, t)
<1>1. NumLabels \in Nat \ {0} /\ Labels = 1 .. NumLabels
  BY ReadyIs
<1>2. prev \in BestScores
  BY <1>1, RowOf DEF Cells, BestScores
<1> DEFINE S(j) == [i \in Labels |-> prev[i].score + model.trans[i][j]]
           B(j) == [score |-> S(j)[FirstMax(S(j))] + state[t][j], back |-> FirstMax(S(j))]
<1>3. ASSUME NEW j \in Labels
      PROVE  /\ S(j) \in [1 .. NumLabels -> Int] /\ Row(S(j)) = S(j)
             /\ \A i \in Labels : S(j)[i] = prev[i].score + model.trans[i][j] /\ S(j)[i] \in Int
  <2>1. \A i \in Labels : prev[i].score \in Int /\ model.trans[i][j] \in Int
    BY <1>1, ModelTyped DEF Ready, Cells
  <2>2. \A i \in Labels : prev[i].score + model.trans[i][j] \in Int
    BY <2>1
  <2>3. PICK s : s = S(j)
    OBVIOUS
  <2>4. s \in [1 .. NumLabels -> Int] /\ \A i \in Labels : s[i] = prev[i].score + model.trans[i][j]
          /\ s[i] \in Int
    BY <1>1, <2>2, <2>3
  <2>5. Row(s) = s
    BY <1>1, <2>4, RowIs
  <2> QED
    BY <2>3, <2>4, <2>5
<1>4. BestRow(t)[prev] = Row([j \in Labels |->
         [score |-> Row(S(j))[FirstMax(Row(S(j)))] + state[t][j], back |-> FirstMax(Row(S(j)))]])
  BY <1>2, Zenon DEF BestRow
<1>5. \A j \in Labels :
        [score |-> Row(S(j))[FirstMax(Row(S(j)))] + state[t][j], back |-> FirstMax(Row(S(j)))] = B(j)
  <2> HIDE DEF S
  <2> QED
    BY <1>3
<1> HIDE DEF S
<1>6. BestRow(t)[prev] = Row([j \in Labels |-> B(j)])
  <2> HIDE DEF B
  <2> QED
    BY <1>4, <1>5
<1>7. ASSUME NEW j \in Labels
      PROVE  /\ B(j) \in [score : Int, back : Nat] /\ B(j).back \in Labels
             /\ B(j).score = prev[B(j).back].score + model.trans[B(j).back][j] + state[t][j]
             /\ \A i \in Labels : prev[i].score + model.trans[i][j] + state[t][j] <= B(j).score
  <2>1. PICK s \in [1 .. NumLabels -> Int] : s = S(j)
    BY <1>3
  <2>2. PICK k : k = FirstMax(s)
    OBVIOUS
  <2>3. k \in Labels /\ \A i \in Labels : s[i] <= s[k]
    BY <2>2, FirstMaxIs
  <2>4. \A i \in Labels : s[i] = prev[i].score + model.trans[i][j] /\ s[i] \in Int
    BY <1>3, <2>1
  <2>5. PICK d \in Int : d = state[t][j]
    BY ScoresTyped
  <2>6. B(j) = [score |-> s[k] + d, back |-> k]
    BY <2>1, <2>2, <2>5
  <2>7. s[k] + d \in Int /\ k \in Nat
    BY <1>1, <2>3, <2>4
  <2>8. B(j).score = s[k] + d /\ B(j).back = k /\ B(j) \in [score : Int, back : Nat]
    BY <2>6, <2>7
  <2>9. s[k] + d = prev[k].score + model.trans[k][j] + d /\ \A i \in Labels : s[i] + d <= s[k] + d
    BY <2>3, <2>4
  <2> HIDE DEF B
  <2>10. \A i \in Labels : prev[i].score + model.trans[i][j] + d <= s[k] + d
    BY <2>4, <2>9
  <2> QED
    BY <2>3, <2>5, <2>8, <2>9, <2>10
<1> HIDE DEF B
<1>8. PICK row : row = [j \in Labels |-> B(j)]
  OBVIOUS
<1>9. row \in [1 .. NumLabels -> [score : Int, back : Nat]] /\ \A j \in Labels : row[j] = B(j)
  BY <1>1, <1>7, <1>8
<1>10. BestRow(t)[prev] = row
  BY <1>1, <1>6, <1>8, <1>9, RowIs
<1>11. Improves(row, prev, t)
  BY <1>7, <1>9 DEF Improves
<1> QED
  BY <1>9, <1>10, <1>11 DEF Cells

(* The row of the first item, and of the others.                           *)
FirstCells == Row([j \in Labels |-> [score |-> state[1][j], back |-> 0]])
BestStep(t, prev) == IF t = 1 THEN FirstCells ELSE BestRow(t)[prev]
BestFrom(b) == b = [t \in Items |-> BestStep(t, b[t - 1])]

LEMMA RowsChosen == ViterbiRows = Row(CHOOSE b : BestFrom(b))
BY DEF ViterbiRows, BestFrom, BestStep, FirstCells

LEMMA FirstCellsAre ==
  ASSUME Ready
  PROVE  FirstCells \in Cells /\ \A j \in Labels : FirstCells[j].score = state[1][j]
<1>1. T \in Nat \ {0} /\ Items = 1 .. T /\ NumLabels \in Nat \ {0} /\ Labels = 1 .. NumLabels /\ 1 \in Items
  BY ReadyIs
<1>2. PICK row : row = [j \in Labels |-> [score |-> state[1][j], back |-> 0]]
  OBVIOUS
<1>3. \A j \in Labels : state[1][j] \in Int
  BY <1>1, ScoresTyped
<1>4. row \in [1 .. NumLabels -> [score : Int, back : Nat]] /\ \A j \in Labels : row[j].score = state[1][j]
  BY <1>1, <1>2, <1>3
<1>5. FirstCells = row
  BY <1>1, <1>2, <1>4, RowIs DEF FirstCells
<1> QED
  BY <1>4, <1>5 DEF Cells

LEMMA BestExists ==
  ASSUME Ready
  PROVE  \E b : BestFrom(b)
<1> DEFINE step == [q \in Cells \X (1 .. T) |-> BestStep(q[2], q[1])]
<1>1. T \in Nat \ {0} /\ Items = 1 .. T /\ 1 \in Items
  BY ReadyIs
<1>2. FirstCells \in Cells
  BY FirstCellsAre
<1>3. ASSUME NEW r \in Cells, NEW t \in 1 .. T PROVE BestStep(t, r) \in Cells
  BY <1>1, <1>2, BestRowIs DEF BestStep
<1>4. step \in [Cells \X (1 .. T) -> Cells]
  BY <1>3
<1>5. ASSUME NEW r \in Cells, NEW t \in 1 .. T PROVE step[r, t] = BestStep(t, r)
  <2>1. << r, t >> \in Cells \X (1 .. T) /\ << r, t >>[1] = r /\ << r, t >>[2] = t
    OBVIOUS
  <2> QED
    BY <2>1, Zenon
<1> HIDE DEF step
<1>6. PICK s \in [1 .. T -> Cells] : Steps(s, T, FirstCells, step)
  BY <1>1, <1>2, <1>4, Onward
<1>7. ASSUME NEW t \in Items PROVE s[t] = BestStep(t, s[t - 1])
  <2>1. CASE t = 1
    BY <1>6, <2>1 DEF Steps, BestStep
  <2>2. CASE t # 1
    <3>1. t - 1 \in 1 .. (T - 1) /\ (t - 1) + 1 = t /\ t \in 1 .. T /\ t - 1 \in 1 .. T
      BY <1>1, <2>2
    <3>2. s[t] = step[s[t - 1], t]
      BY <1>6, <3>1 DEF Steps
    <3> QED
      BY <1>5, <3>1, <3>2
  <2> QED
    BY <2>1, <2>2
<1>8. s = [t \in Items |-> s[t]]
  BY <1>1
<1>9. s = [t \in Items |-> BestStep(t, s[t - 1])]
  BY <1>7, <1>8, Zenon
<1> QED
  BY <1>9 DEF BestFrom

LEMMA ViterbiRowsAre ==
  ASSUME Ready
  PROVE  /\ ViterbiRows \in [1 .. T -> Cells]
         /\ \A j \in Labels : ViterbiRows[1][j].score = state[1][j]
         /\ \A t \in 1 .. (T - 1) : Improves(ViterbiRows[t + 1], ViterbiRows[t], t + 1)
<1>1. T \in Nat \ {0} /\ Items = 1 .. T /\ 1 \in Items
  BY ReadyIs
<1>2. PICK b : b = CHOOSE c : BestFrom(c)
  OBVIOUS
<1>3. BestFrom(b)
  BY <1>2, BestExists
<1>4. b = [t \in Items |-> b[t]] /\ \A t \in Items : b[t] = BestStep(t, b[t - 1])
  BY <1>3 DEF BestFrom
<1> DEFINE S == { k \in 0 .. T : k \in 1 .. T => b[k] \in Cells }
<1>5. 0 \in S
  BY <1>1
<1>6. ASSUME NEW k \in 0 .. (T - 1), k \in S
      PROVE  k + 1 \in S
  <2>1. k + 1 \in Items /\ k + 1 \in 0 .. T /\ (k + 1) - 1 = k /\ (k + 1 # 1 => k \in 1 .. T)
    BY <1>1
  <2>2. b[k + 1] = BestStep(k + 1, b[k])
    BY <1>4, <2>1
  <2>3. BestStep(k + 1, b[k]) \in Cells
    BY <1>6, <2>1, FirstCellsAre, BestRowIs DEF BestStep
  <2> QED
    BY <2>1, <2>2, <2>3
<1>7. 0 .. T \subseteq S
  <2> HIDE DEF S
  <2> QED
    BY <1>1, <1>5, <1>6, IntervalInduction
<1>8. \A t \in Items : b[t] \in Cells
  BY <1>1, <1>7
<1> HIDE DEF S
<1>9. b \in [1 .. T -> Cells]
  BY <1>1, <1>4, <1>8
<1>10. ViterbiRows = b
  BY <1>1, <1>2, <1>9, RowsChosen, RowIs
<1>11. \A j \in Labels : b[1][j].score = state[1][j]
  BY <1>1, <1>4, FirstCellsAre DEF BestStep
<1>12. ASSUME NEW t \in 1 .. (T - 1) PROVE Improves(b[t + 1], b[t], t + 1)
  <2>1. t \in Items /\ t + 1 \in Items /\ t + 1 # 1 /\ (t + 1) - 1 = t
    BY <1>1
  <2>2. PICK prev \in Cells, u \in Items : prev = b[t] /\ u = t + 1
    BY <1>8, <2>1
  <2>3. b[u] = BestRow(u)[prev]
    BY <1>4, <2>1, <2>2 DEF BestStep
  <2>4. Improves(BestRow(u)[prev], prev, u)
    BY BestRowIs
  <2> QED
    BY <2>2, <2>3, <2>4
<1> QED
  BY <1>9, <1>10, <1>11, <1>12

(* The path, traced back from the best last label.                         *)
TraceStep(t, best, next) == IF t = T THEN FirstMax(LastScores(best)) ELSE best[t + 1][next].back
TraceOf(q, best) == q = [t \in Items |-> TraceStep(t, best, q[t + 1])]

LEMMA PathChosen == ViterbiPath = Row(CHOOSE q : TraceOf(q, ViterbiRows))
BY DEF ViterbiPath, TraceOf, TraceStep

LEMMA LastIs ==
  ASSUME Ready
  PROVE  /\ FirstMax(LastScores(ViterbiRows)) \in Labels
         /\ \A j \in Labels : ViterbiRows[T][j].score <= ViterbiRows[T][FirstMax(LastScores(ViterbiRows))].score
<1>1. T \in Nat \ {0} /\ T \in 1 .. T /\ NumLabels \in Nat \ {0} /\ Labels = 1 .. NumLabels
  BY ReadyIs
<1>2. PICK row \in Cells : row = ViterbiRows[T]
  BY <1>1, ViterbiRowsAre
<1>3. \A j \in Labels : row[j].score \in Int
  BY <1>1 DEF Cells
<1>4. PICK last : last = LastScores(ViterbiRows)
  OBVIOUS
<1>5. last \in [1 .. NumLabels -> Int] /\ \A j \in Labels : last[j] = row[j].score
  BY <1>1, <1>2, <1>3, <1>4 DEF LastScores
<1>6. FirstMax(last) \in Labels /\ \A j \in Labels : last[j] <= last[FirstMax(last)]
  BY <1>5, FirstMaxIs
<1> QED
  BY <1>2, <1>4, <1>5, <1>6

LEMMA TraceStepIs ==
  ASSUME Ready, NEW t \in Items, NEW next, t # T => next \in Labels
  PROVE  TraceStep(t, ViterbiRows, next) \in Labels
<1>1. CASE t = T
  BY <1>1, LastIs DEF TraceStep
<1>2. CASE t # T
  <2>1. t \in 1 .. (T - 1)
    BY <1>2, ReadyIs
  <2>2. Improves(ViterbiRows[t + 1], ViterbiRows[t], t + 1)
    BY <2>1, ViterbiRowsAre
  <2> QED
    BY <1>2, <2>2 DEF Improves, TraceStep
<1> QED
  BY <1>1, <1>2

LEMMA TraceExists ==
  ASSUME Ready
  PROVE  \E q : TraceOf(q, ViterbiRows)
<1> DEFINE step == [z \in Labels \X (1 .. T) |-> TraceStep(z[2], ViterbiRows, z[1])]
           last == TraceStep(T, ViterbiRows, 0)
<1>1. T \in Nat \ {0} /\ Items = 1 .. T /\ T \in Items
  BY ReadyIs
<1>2. last \in Labels
  BY <1>1, TraceStepIs
<1>3. ASSUME NEW r \in Labels, NEW t \in 1 .. T PROVE TraceStep(t, ViterbiRows, r) \in Labels
  BY <1>1, TraceStepIs
<1>4. step \in [Labels \X (1 .. T) -> Labels]
  BY <1>3
<1>5. ASSUME NEW r \in Labels, NEW t \in 1 .. T PROVE step[r, t] = TraceStep(t, ViterbiRows, r)
  <2>1. << r, t >> \in Labels \X (1 .. T) /\ << r, t >>[1] = r /\ << r, t >>[2] = t
    OBVIOUS
  <2> QED
    BY <2>1, Zenon
<1> HIDE DEF step, last
<1>6. PICK s \in [1 .. T -> Labels] : StepsBack(s, T, last, step)
  BY <1>1, <1>2, <1>4, Backward
<1>7. ASSUME NEW t \in Items PROVE s[t] = TraceStep(t, ViterbiRows, s[t + 1])
  <2>1. CASE t = T
    <3>1. TraceStep(t, ViterbiRows, s[t + 1]) = TraceStep(T, ViterbiRows, 0)
      BY <2>1 DEF TraceStep
    <3> QED
      BY <1>6, <2>1, <3>1 DEF StepsBack, last
  <2>2. CASE t # T
    <3>1. t \in 1 .. (T - 1) /\ t \in 1 .. T /\ t + 1 \in 1 .. T
      BY <1>1, <2>2
    <3>2. s[t] = step[s[t + 1], t]
      BY <1>6, <3>1 DEF StepsBack
    <3>3. s[t + 1] \in Labels
      BY <3>1
    <3> QED
      BY <1>5, <3>1, <3>2, <3>3
  <2> QED
    BY <2>1, <2>2
<1>8. s = [t \in Items |-> s[t]]
  BY <1>1
<1>9. s = [t \in Items |-> TraceStep(t, ViterbiRows, s[t + 1])]
  BY <1>7, <1>8, Zenon
<1> QED
  BY <1>9 DEF TraceOf

LEMMA ViterbiPathIs ==
  ASSUME Ready
  PROVE  /\ ViterbiPath \in [1 .. T -> Labels]
         /\ ViterbiPath[T] = FirstMax(LastScores(ViterbiRows))
         /\ Traced(ViterbiPath, ViterbiRows, T)
<1>1. T \in Nat \ {0} /\ Items = 1 .. T /\ T \in Items
  BY ReadyIs
<1>2. PICK g : g = CHOOSE q : TraceOf(q, ViterbiRows)
  OBVIOUS
<1>3. TraceOf(g, ViterbiRows)
  BY <1>2, TraceExists
<1>4. g = [t \in Items |-> g[t]] /\ \A t \in Items : g[t] = TraceStep(t, ViterbiRows, g[t + 1])
  BY <1>3 DEF TraceOf
<1> DEFINE S == { k \in 0 .. T : k # T => g[T - k] \in Labels }
<1>5. 0 \in S
  <2>1. g[T] \in Labels
    BY <1>1, <1>4, TraceStepIs
  <2> QED
    BY <1>1, <2>1
<1>6. ASSUME NEW k \in 0 .. (T - 1), k \in S PROVE k + 1 \in S
  <2>1. CASE k + 1 = T
    BY <1>1, <2>1
  <2>2. CASE k + 1 # T
    <3>1. T - (k + 1) \in Items /\ k + 1 \in 0 .. T /\ (T - (k + 1)) + 1 = T - k /\ T - (k + 1) # T /\ k # T
      BY <1>1, <2>2
    <3>2. g[T - k] \in Labels
      BY <1>6, <3>1
    <3>3. PICK t \in Items : t = T - (k + 1) /\ t + 1 = T - k /\ t # T
      BY <3>1
    <3>4. g[t + 1] \in Labels
      BY <3>2, <3>3
    <3>5. TraceStep(t, ViterbiRows, g[t + 1]) \in Labels
      BY <3>3, <3>4, TraceStepIs
    <3>6. g[t] \in Labels
      BY <1>4, <3>5
    <3> QED
      BY <3>1, <3>3, <3>6
  <2> QED
    BY <2>1, <2>2
<1>7. 0 .. T \subseteq S
  <2> HIDE DEF S
  <2> QED
    BY <1>1, <1>5, <1>6, IntervalInduction
<1>8. \A t \in Items : g[t] \in Labels
  <2> SUFFICES ASSUME NEW t \in Items PROVE g[t] \in Labels
    OBVIOUS
  <2>1. T - t \in 0 .. T /\ T - t # T /\ T - (T - t) = t
    BY <1>1
  <2> QED
    BY <1>7, <2>1
<1> HIDE DEF S
<1>9. g \in [1 .. T -> Labels]
  BY <1>1, <1>4, <1>8
<1>10. ViterbiPath = g
  BY <1>1, <1>2, <1>9, PathChosen, RowIs
<1>11. g[T] = FirstMax(LastScores(ViterbiRows))
  BY <1>1, <1>4 DEF TraceStep
<1>12. ASSUME NEW t \in 1 .. (T - 1) PROVE g[t] = ViterbiRows[t + 1][g[t + 1]].back
  <2>1. t \in Items /\ t # T
    BY <1>1
  <2> QED
    BY <1>4, <2>1 DEF TraceStep
<1> QED
  BY <1>9, <1>10, <1>11, <1>12 DEF Traced

(* The scores as squares.                                                  *)
TransScores == [i \in Labels |-> [j \in Labels |-> model.trans[i][j]]]
ItemScores == [t \in Items |-> [j \in Labels |-> state[t][j]]]

LEMMA ScoreRows ==
  ASSUME Ready
  PROVE  /\ TransScores \in [1 .. NumLabels -> [1 .. NumLabels -> Int]]
         /\ ItemScores \in [1 .. T -> [1 .. NumLabels -> Int]]
         /\ \A i \in Labels : \A j \in Labels : TransScores[i][j] = model.trans[i][j]
         /\ \A t \in Items : \A j \in Labels : ItemScores[t][j] = state[t][j]
<1>1. Items = 1 .. T /\ Labels = 1 .. NumLabels
  BY ReadyIs
<1>2. \A i \in Labels : \A j \in Labels : model.trans[i][j] \in Int
  BY ModelTyped DEF Ready
<1>3. \A t \in Items : \A j \in Labels : state[t][j] \in Int
  BY ScoresTyped
<1> QED
  BY <1>1, <1>2, <1>3 DEF TransScores, ItemScores

LEMMA BestRows ==
  ASSUME Ready
  PROVE  Best(ViterbiRows, T, NumLabels, TransScores, ItemScores)
<1>1. T \in Nat \ {0} /\ Items = 1 .. T /\ Labels = 1 .. NumLabels /\ 1 \in Items
  BY ReadyIs
<1>2. PICK b, ts, st : b = ViterbiRows /\ ts = TransScores /\ st = ItemScores
  OBVIOUS
<1>3. /\ b \in [1 .. T -> Cells]
      /\ \A j \in Labels : b[1][j].score = state[1][j]
      /\ \A t \in 1 .. (T - 1) : Improves(b[t + 1], b[t], t + 1)
  BY <1>2, ViterbiRowsAre
<1>4. /\ \A i \in Labels : \A j \in Labels : ts[i][j] = model.trans[i][j]
      /\ \A t \in Items : \A j \in Labels : st[t][j] = state[t][j]
  BY <1>2, ScoreRows
<1>5. \A k \in 1 .. T : \A j \in 1 .. NumLabels : b[k][j].score \in Int
  BY <1>1, <1>3 DEF Cells
<1>6. \A j \in 1 .. NumLabels : b[1][j].score = st[1][j]
  BY <1>1, <1>3, <1>4
<1>7. ASSUME NEW k \in 1 .. (T - 1), NEW j \in 1 .. NumLabels
      PROVE  /\ b[k + 1][j].back \in 1 .. NumLabels
             /\ b[k + 1][j].score = b[k][b[k + 1][j].back].score + ts[b[k + 1][j].back][j] + st[k + 1][j]
             /\ \A i \in 1 .. NumLabels : b[k][i].score + ts[i][j] + st[k + 1][j] <= b[k + 1][j].score
  <2>1. k + 1 \in Items /\ j \in Labels
    BY <1>1
  <2>2. PICK row, prev, u : row = b[k + 1] /\ prev = b[k] /\ u = k + 1
    OBVIOUS
  <2>3. Improves(row, prev, u)
    BY <1>3, <2>2
  <2>4. PICK i : i = row[j].back
    OBVIOUS
  <2>5. /\ i \in Labels /\ row[j].score = prev[i].score + model.trans[i][j] + state[u][j]
        /\ \A l \in Labels : prev[l].score + model.trans[l][j] + state[u][j] <= row[j].score
    BY <2>1, <2>3, <2>4 DEF Improves
  <2>6. st[u][j] = state[u][j] /\ \A l \in Labels : ts[l][j] = model.trans[l][j]
    BY <1>4, <2>1, <2>2
  <2>7. /\ row[j].score = prev[i].score + ts[i][j] + st[u][j]
        /\ \A l \in Labels : prev[l].score + ts[l][j] + st[u][j] <= row[j].score
    BY <2>5, <2>6
  <2> QED
    BY <1>1, <2>2, <2>4, <2>5, <2>7
<1>8. Best(b, T, NumLabels, ts, st)
  BY <1>5, <1>6, <1>7 DEF Best
<1> QED
  BY <1>2, <1>8

LEMMA GainsAdd ==
  ASSUME Ready, NEW path \in [1 .. T -> Labels]
  PROVE  Adds(Gains(path), path, T, TransScores, ItemScores)
<1>1. T \in Nat \ {0} /\ Items = 1 .. T /\ Labels = 1 .. NumLabels /\ 1 \in Items /\ T \in 0 .. T
  BY ReadyIs
<1>2. PICK row, ts, st : row = Gains(path) /\ ts = TransScores /\ st = ItemScores
  OBVIOUS
<1>3. \A t \in 1 .. T : /\ row[t] = state[t][path[t]] + (IF t = 1 THEN 0 ELSE model.trans[path[t - 1]][path[t]])
                        /\ state[t][path[t]] \in Int /\ path[t] \in Labels
  <2>1. \A t \in 1 .. T : /\ Gains(path)[t] = state[t][path[t]] + (IF t = 1 THEN 0 ELSE model.trans[path[t - 1]][path[t]])
                          /\ state[t][path[t]] \in Int
    BY <1>1, GainsTyped
  <2> QED
    BY <1>2, <2>1
<1>4. /\ \A i \in Labels : \A j \in Labels : ts[i][j] = model.trans[i][j]
      /\ \A t \in Items : \A j \in Labels : st[t][j] = state[t][j]
  BY <1>2, ScoreRows
<1>5. row[1] = st[1][path[1]]
  <2>1. row[1] = state[1][path[1]] + 0 /\ state[1][path[1]] \in Int
    BY <1>1, <1>3
  <2> QED
    BY <1>1, <1>3, <1>4, <2>1
<1>6. ASSUME NEW k \in 1 .. (T - 1) PROVE row[k + 1] = st[k + 1][path[k + 1]] + ts[path[k]][path[k + 1]]
  <2>1. k \in Items /\ k + 1 \in Items /\ k + 1 # 1 /\ (k + 1) - 1 = k
    BY <1>1
  <2>2. PICK u : u = k + 1
    OBVIOUS
  <2>3. row[u] = state[u][path[u]] + model.trans[path[u - 1]][path[u]] /\ u - 1 = k
    BY <1>1, <1>3, <2>1, <2>2
  <2>4. st[u][path[u]] = state[u][path[u]] /\ ts[path[k]][path[u]] = model.trans[path[k]][path[u]]
    BY <1>1, <1>3, <1>4, <2>1, <2>2
  <2> QED
    BY <2>2, <2>3, <2>4
<1>7. Adds(row, path, T, ts, st)
  BY <1>5, <1>6 DEF Adds
<1> QED
  BY <1>2, <1>7

LEMMA ScoreBound ==
  ASSUME Ready, NEW path \in [1 .. T -> Labels]
  PROVE  /\ ScoreOf(instance, path) \in Int /\ ScoreOf(instance, path) <= ViterbiRows[T][path[T]].score
         /\ Traced(path, ViterbiRows, T) => ScoreOf(instance, path) = ViterbiRows[T][path[T]].score
<1>1. T \in Nat \ {0} /\ NumLabels \in Nat /\ Labels = 1 .. NumLabels /\ T \in 0 .. T
  BY ReadyIs
<1>2. PICK m, n, ts, st, b, q, row :
        m = T /\ n = NumLabels /\ ts = TransScores /\ st = ItemScores /\ b = ViterbiRows /\ q = path
          /\ row = Gains(path)
  OBVIOUS
<1>3. /\ m \in Nat \ {0} /\ n \in Nat /\ ts \in [1 .. n -> [1 .. n -> Int]]
           /\ st \in [1 .. m -> [1 .. n -> Int]]
      /\ Best(b, m, n, ts, st) /\ q \in [1 .. m -> 1 .. n]
  BY <1>1, <1>2, ScoreRows, BestRows
<1>4. row \in [1 .. m -> Int] /\ Adds(row, q, m, ts, st)
  BY <1>1, <1>2, GainsTyped, GainsAdd
<1>5. NotBetter(row, q, b, m)
  BY <1>3, <1>4, NoneBetter
<1>6. ScoreOf(instance, path) = IntSum(row)
  BY <1>2, ScoreIsSum
<1> QED
  BY <1>2, <1>5, <1>6 DEF NotBetter

(* viterbi finds a path that none is better than.                          *)
LEMMA ViterbiAnswer ==
  ASSUME Ready
  PROVE  /\ ViterbiPath \in [1 .. T -> Labels]
         /\ \A path \in Paths(instance) : ScoreOf(instance, path) <= ScoreOf(instance, ViterbiPath)
<1>1. T \in Nat \ {0} /\ DOMAIN instance = 1 .. T /\ T \in 1 .. T /\ Labels = 1 .. NumLabels
  BY ReadyIs
<1>2. PICK q : q = ViterbiPath
  OBVIOUS
<1>3. q \in [1 .. T -> Labels] /\ q[T] = FirstMax(LastScores(ViterbiRows)) /\ Traced(q, ViterbiRows, T)
  BY <1>2, ViterbiPathIs
<1>4. ScoreOf(instance, q) = ViterbiRows[T][q[T]].score /\ ScoreOf(instance, q) \in Int
  BY <1>3, ScoreBound
<1>5. ASSUME NEW path \in Paths(instance) PROVE ScoreOf(instance, path) <= ScoreOf(instance, q)
  <2>1. path \in [1 .. T -> Labels]
    BY <1>1 DEF Paths
  <2>2. path[T] \in Labels
    BY <1>1, <2>1
  <2>3. ScoreOf(instance, path) \in Int /\ ScoreOf(instance, path) <= ViterbiRows[T][path[T]].score
    BY <2>1, ScoreBound
  <2>4. ViterbiRows[T][path[T]].score <= ViterbiRows[T][q[T]].score
    BY <1>3, <2>2, LastIs
  <2>5. PICK row \in Cells : row = ViterbiRows[T]
    BY <1>1, ViterbiRowsAre
  <2>6. row[path[T]].score \in Int
    BY <1>1, <2>2, <2>5 DEF Cells
  <2> QED
    BY <1>4, <2>3, <2>4, <2>5, <2>6
<1> QED
  BY <1>2, <1>3, <1>5

-----------------------------------------------------------------------------
(* The calls of the tagger.                                                *)

(* The buffers of the context.                                             *)
Now == [alpha |-> alpha, beta |-> beta, scale |-> scale, norm |-> norm]

(* What the calls between open and close can rely on: the items are those  *)
(* of the model, with a place in each buffer and their scores in state,    *)
(* and a level that says alpha and beta are there is right, up to an alpha *)
(* that viterbi has overwritten. TaggerAnswersAreTrue alone is not         *)
(* inductive: the answers come from these buffers.                         *)
Usable ==
  /\ model \in ModelFiles /\ instance \in Seq(Seq(ItemContents)) /\ numItems = Len(instance)
  /\ Buffer(state) /\ Buffer(alpha) /\ Buffer(beta) /\ Buffer(scale)
  /\ \A t \in Items : state[t] = ItemScore(instance[t])
  /\ level = "alphabeta" => numItems # 0 /\ NumLabels # 0 /\ Ran(Now, overwritten)

TaggerInv == (opened => Usable) /\ TaggerAnswersAreTrue

LEMMA ContextKept ==
  ASSUME model' = model, numItems' = numItems, state' = state
  PROVE  /\ T' = T /\ NumLabels' = NumLabels /\ Labels' = Labels /\ Items' = Items
         /\ Edges' = Edges /\ States' = States /\ ItemContents' = ItemContents
<1>1. T' = T /\ NumLabels' = NumLabels
  BY DEF T, NumLabels
<1>2. Labels' = Labels /\ Items' = Items
  BY <1>1 DEF Labels, Items
<1>3. Edges' = Edges
  BY <1>2 DEF Edges, ExpTrans
<1>4. States' = States
  BY <1>2 DEF States, ExpState
<1>5. ItemContents' = ItemContents
  BY DEF ItemContents
<1> QED
  BY <1>1, <1>2, <1>3, <1>4, <1>5

LEMMA ItemScoreKept ==
  ASSUME NEW item, model' = model
  PROVE  ItemScore(item)' = ItemScore(item)
BY DEF ItemScore, Labels, NumLabels

LEMMA RanKept ==
  ASSUME model' = model, numItems' = numItems, state' = state,
         NEW ctx, NEW dirty, Ran(ctx, dirty), dirty => overwritten',
         norm' = ctx.norm, \A t \in Items : beta'[t] = ctx.beta[t] /\ scale'[t] = ctx.scale[t],
         ~overwritten' => \A t \in Items : alpha'[t] = ctx.alpha[t]
  PROVE  Ran(Now, overwritten)'
<1>1. PICK a, b, c, p : Holds(ctx, dirty, a, b, c, p)
  BY DEF Ran
<1>2. /\ Left(a, b, c, p, T, NumLabels, Edges, States)
      /\ ctx.norm = Over(One, p[T])
      /\ \A t \in Items : ctx.beta[t] = b[t] /\ ctx.scale[t] = c[t] /\ (~dirty => ctx.alpha[t] = a[t])
  BY <1>1 DEF Holds
<1>3. T' = T /\ NumLabels' = NumLabels /\ Items' = Items /\ Edges' = Edges /\ States' = States
  BY ContextKept
<1>4. Left(a, b, c, p, T', NumLabels', Edges', States')
  BY <1>2, <1>3
<1>5. norm' = Over(One, p[T'])
  BY <1>2, <1>3
<1>6. \A t \in Items' : beta'[t] = b[t] /\ scale'[t] = c[t] /\ (~overwritten' => alpha'[t] = a[t])
  BY <1>2, <1>3
<1>7. Now'.alpha = alpha' /\ Now'.beta = beta' /\ Now'.scale = scale' /\ Now'.norm = norm'
  BY DEF Now
<1>8. Holds(Now, overwritten, a, b, c, p)'
  BY <1>4, <1>5, <1>6, <1>7 DEF Holds
<1> QED
  BY <1>8 DEF Ran

(* Forward-backward, as set_level has left it.                             *)
LEMMA AtLevelIs ==
  ASSUME Ready, Usable
  PROVE  /\ \E dirty : Ran(AtLevel, dirty) /\ (dirty => overwritten)
         /\ Buffers(AtLevel)
<1>1. CASE level = "alphabeta"
  <2>1. Ran(Now, overwritten)
    BY <1>1 DEF Usable
  <2>2. AtLevel = Now
    BY <1>1 DEF AtLevel, Now
  <2>3. Buffers(Now)
    BY DEF Usable, Buffers, Now
  <2> QED
    BY <2>1, <2>2, <2>3
<1>2. CASE level # "alphabeta"
  <2>1. Ran(AtLevel, FALSE) /\ Buffers(AtLevel)
    BY <1>2, AtLevelRan DEF Usable
  <2> QED
    BY <2>1
<1> QED
  BY <1>1, <1>2

(* What SetLevel leaves can be used.                                       *)
LEMMA SetLevelUsable ==
  ASSUME Ready, Usable, SetLevel(AtLevel), overwritten' = overwritten
  PROVE  Usable'
<1>1. PICK ctx : ctx = AtLevel
  OBVIOUS
<1>2. PICK dirty : Ran(ctx, dirty) /\ (dirty => overwritten)
  BY <1>1, AtLevelIs
<1>3. Buffers(ctx)
  BY <1>1, AtLevelIs
<1>4. /\ alpha' = ctx.alpha /\ beta' = ctx.beta /\ scale' = ctx.scale /\ norm' = ctx.norm
      /\ model' = model /\ numItems' = numItems /\ state' = state /\ instance' = instance
  BY <1>1 DEF SetLevel
<1>5. Ran(Now, overwritten)'
  BY <1>2, <1>4, RanKept
<1>6. T' = T /\ NumLabels' = NumLabels /\ Items' = Items /\ ItemContents' = ItemContents
  BY <1>4, ContextKept
<1>7. Buffer(state)' /\ Buffer(alpha)' /\ Buffer(beta)' /\ Buffer(scale)'
  BY <1>3, <1>4, <1>6 DEF Usable, Buffer, Buffers
<1>8. model' \in ModelFiles /\ instance' \in Seq(Seq(ItemContents')) /\ numItems' = Len(instance')
  BY <1>4, <1>6 DEF Usable
<1>9. numItems' # 0 /\ NumLabels' # 0
  BY <1>4, <1>6 DEF Ready
<1>10. \A t \in Items' : state'[t] = ItemScore(instance[t])'
  <2> SUFFICES ASSUME NEW t \in Items PROVE state'[t] = ItemScore(instance[t])'
    BY <1>6
  <2>1. state[t] = ItemScore(instance[t])
    BY DEF Usable
  <2>2. ItemScore(instance[t])' = ItemScore(instance[t])
    BY <1>4, ItemScoreKept
  <2> QED
    BY <1>4, <2>1, <2>2
<1> QED
  BY <1>5, <1>7, <1>8, <1>9, <1>10 DEF Usable

(* A new tagger has no items.                                              *)
LEMMA NewTaggerUsable ==
  ASSUME NEW m \in ModelFiles, ModelCreate(m)
  PROVE  Usable'
<1>1. /\ model' = m /\ level' = "none" /\ numItems' = 0 /\ instance' = << >>
      /\ state' = << >> /\ alpha' = << >> /\ beta' = << >> /\ scale' = << >>
  BY DEF ModelCreate, NewTagger
<1>2. T' = 0 /\ Items' = {}
  BY <1>1 DEF T, Items
<1>3. << >> \in Seq({}) /\ Len(<< >>) = 0
  OBVIOUS
<1>4. Buffer(state)' /\ Buffer(alpha)' /\ Buffer(beta)' /\ Buffer(scale)'
  BY <1>1, <1>2, <1>3 DEF Buffer
<1>5. instance' \in Seq(Seq(ItemContents'))
  BY <1>1
<1> QED
  BY <1>1, <1>2, <1>3, <1>4, <1>5 DEF Usable

(* Buffers are long enough after crf1dc_set_num_items.                     *)
LEMMA ResizedIs ==
  ASSUME NEW b, Buffer(b), NEW n \in Nat, NEW zero
  PROVE  \E X : Resized(b, n, zero) \in Seq(X) /\ Len(Resized(b, n, zero)) >= n
<1>1. PICK X : b \in Seq(X)
  BY DEF Buffer
<1>2. CASE Len(b) < n
  <2>1. PICK row : row = [t \in 1 .. n |-> zero]
    OBVIOUS
  <2>2. row \in [1 .. n -> {zero}]
    BY <2>1
  <2>3. Row(row) = row /\ row \in Seq({zero}) /\ Len(row) = n
    BY <2>2, RowIs, RowOf
  <2>4. Resized(b, n, zero) = row
    BY <1>2, <2>1, <2>3 DEF Resized
  <2> QED
    BY <2>3, <2>4
<1>3. CASE ~(Len(b) < n)
  <2>1. Resized(b, n, zero) = b /\ Len(b) \in Nat
    BY <1>1, <1>3 DEF Resized
  <2> QED
    BY <1>1, <1>3, <2>1
<1> QED
  BY <1>2, <1>3

LEMMA StateRowsAre ==
  ASSUME NEW X, NEW old \in Seq(X), NEW Y, NEW inst \in Seq(Y), Len(old) >= Len(inst)
  PROVE  /\ \E Z : StateRows(old, inst) \in Seq(Z)
         /\ Len(StateRows(old, inst)) >= Len(inst)
         /\ \A t \in 1 .. Len(inst) : StateRows(old, inst)[t] = ItemScore(inst[t])
<1>1. PICK m, n : m = Len(old) /\ n = Len(inst)
  OBVIOUS
<1>2. m \in Nat /\ n \in Nat /\ m >= n /\ DOMAIN old = 1 .. m /\ \A t \in 1 .. m : old[t] \in X
  BY <1>1
<1> DEFINE Z == X \cup { ItemScore(inst[t]) : t \in 1 .. n }
<1>3. PICK f : f = StateRows(old, inst)
  OBVIOUS
<1>4. f = [t \in 1 .. m |-> IF t <= n THEN ItemScore(inst[t]) ELSE old[t]]
  BY <1>1, <1>2, <1>3 DEF StateRows
<1>5. \A t \in 1 .. m : (IF t <= n THEN ItemScore(inst[t]) ELSE old[t]) \in Z
  BY <1>2
<1> HIDE DEF Z
<1>6. f \in [1 .. m -> Z]
  BY <1>4, <1>5
<1>7. f \in Seq(Z) /\ Len(f) = m
  BY <1>2, <1>6, RowOf
<1>8. \A t \in 1 .. n : f[t] = ItemScore(inst[t])
  BY <1>2, <1>4
<1> QED
  BY <1>1, <1>2, <1>3, <1>7, <1>8

(* set() scores the items that it is given.                                *)
LEMMA SetUsable ==
  ASSUME Usable, NEW xseq \in ItemRows, TaggerSet(Items2Instance(xseq))
  PROVE  Usable'
<1>1. PICK inst : inst = Items2Instance(xseq)
  OBVIOUS
<1>2. inst \in Seq(Seq(ItemContents))
  BY <1>1, InstanceTyped DEF Usable
<1>3. PICK n \in Nat : n = Len(inst)
  BY <1>2
<1>4. /\ numItems' = n /\ instance' = inst /\ model' = model /\ level' = "set"
      /\ state' = StateRows(Resized(state, n, [l \in Labels |-> 0]), inst)
      /\ alpha' = Resized(alpha, n, [l \in Labels |-> Zero])
      /\ beta' = Resized(beta, n, [l \in Labels |-> Zero])
      /\ scale' = Resized(scale, n, Zero)
  BY <1>1, <1>3 DEF TaggerSet, SetContext
<1>5. T' = n /\ Items' = 1 .. n
  BY <1>4 DEF T, Items
<1>6. Buffer(state) /\ Buffer(alpha) /\ Buffer(beta) /\ Buffer(scale)
  BY DEF Usable
<1>7. Buffer(alpha)' /\ Buffer(beta)' /\ Buffer(scale)'
  BY <1>4, <1>5, <1>6, ResizedIs DEF Buffer
<1>8. PICK old : old = Resized(state, n, [l \in Labels |-> 0])
  OBVIOUS
<1>9. PICK X : old \in Seq(X) /\ Len(old) >= n
  BY <1>6, <1>8, ResizedIs
<1>10. /\ \E Z : state' \in Seq(Z)
       /\ Len(state') >= n
       /\ \A t \in 1 .. n : state'[t] = ItemScore(inst[t])
  BY <1>2, <1>3, <1>4, <1>8, <1>9, StateRowsAre
<1>11. Buffer(state)'
  BY <1>5, <1>10 DEF Buffer
<1>12. \A t \in Items' : state'[t] = ItemScore(instance[t])'
  <2> SUFFICES ASSUME NEW t \in 1 .. n PROVE state'[t] = ItemScore(instance[t])'
    BY <1>5
  <2>1. ItemScore(inst[t])' = ItemScore(inst[t])
    BY <1>4, ItemScoreKept
  <2>2. ItemScore(instance[t])' = ItemScore(inst[t])'
    BY <1>4
  <2> QED
    BY <1>10, <2>1, <2>2
<1>13. ItemContents' = ItemContents
  BY <1>4 DEF ItemContents
<1>14. model' \in ModelFiles
  BY <1>4 DEF Usable
<1> QED
  BY <1>2, <1>3, <1>4, <1>7, <1>11, <1>12, <1>13, <1>14 DEF Usable

(* viterbi() overwrites alpha and no more.                                 *)
LEMMA ViterbiUsable ==
  ASSUME Usable, TaggerViterbi, overwritten' = (overwritten \/ level = "alphabeta")
  PROVE  Usable'
<1>1. /\ model' = model /\ level' = level /\ numItems' = numItems /\ state' = state /\ beta' = beta
      /\ scale' = scale /\ norm' = norm /\ instance' = instance
  BY DEF TaggerViterbi
<1>2. PICK rows : alpha' = Overwritten(alpha, rows)
  BY DEF TaggerViterbi
<1>3. T' = T /\ NumLabels' = NumLabels /\ Items' = Items /\ ItemContents' = ItemContents
  BY <1>1, ContextKept
<1>4. T \in Nat
  BY DEF Usable, T
<1>5. Buffer(alpha') /\ Buffer(state) /\ Buffer(beta) /\ Buffer(scale)
  BY <1>2, <1>4, OverwrittenIs DEF Usable
<1>6. Buffer(alpha)' /\ Buffer(state)' /\ Buffer(beta)' /\ Buffer(scale)'
  BY <1>1, <1>3, <1>5 DEF Buffer
<1>7. ASSUME level' = "alphabeta" PROVE numItems' # 0 /\ NumLabels' # 0 /\ Ran(Now, overwritten)'
  <2>1. numItems # 0 /\ NumLabels # 0 /\ Ran(Now, overwritten)
    BY <1>1, <1>7 DEF Usable
  <2>2. overwritten'
    BY <1>1, <1>7
  <2>3. PICK ctx, dirty : ctx = Now /\ dirty = overwritten
    OBVIOUS
  <2>4. ctx.beta = beta /\ ctx.scale = scale /\ ctx.norm = norm
    BY <2>3 DEF Now
  <2>5. Ran(Now, overwritten)'
    BY <1>1, <2>1, <2>2, <2>3, <2>4, RanKept
  <2> QED
    BY <1>1, <1>3, <2>1, <2>5
<1>8. \A t \in Items' : state'[t] = ItemScore(instance[t])'
  <2> SUFFICES ASSUME NEW t \in Items PROVE state'[t] = ItemScore(instance[t])'
    BY <1>3
  <2>1. state[t] = ItemScore(instance[t])
    BY DEF Usable
  <2>2. ItemScore(instance[t])' = ItemScore(instance[t])
    BY <1>1, ItemScoreKept
  <2> QED
    BY <1>1, <2>1, <2>2
<1>9. model' \in ModelFiles /\ instance' \in Seq(Seq(ItemContents')) /\ numItems' = Len(instance')
  BY <1>1, <1>3 DEF Usable
<1> QED
  BY <1>6, <1>7, <1>8, <1>9 DEF Usable

(* Nothing that says what the answers mean changes.                        *)
LEMMA UsableKept ==
  ASSUME Usable, UNCHANGED << crfVars, overwritten >>
  PROVE  Usable'
<1>1. /\ model' = model /\ level' = level /\ numItems' = numItems /\ state' = state /\ alpha' = alpha
      /\ beta' = beta /\ scale' = scale /\ norm' = norm /\ instance' = instance /\ overwritten' = overwritten
  BY DEF crfVars
<1>2. T' = T /\ NumLabels' = NumLabels /\ Items' = Items /\ ItemContents' = ItemContents
  BY <1>1, ContextKept
<1>3. Buffer(alpha) /\ Buffer(state) /\ Buffer(beta) /\ Buffer(scale)
  BY DEF Usable
<1>4. Buffer(alpha)' /\ Buffer(state)' /\ Buffer(beta)' /\ Buffer(scale)'
  BY <1>1, <1>2, <1>3 DEF Buffer
<1>5. ASSUME level' = "alphabeta" PROVE numItems' # 0 /\ NumLabels' # 0 /\ Ran(Now, overwritten)'
  <2>1. numItems # 0 /\ NumLabels # 0 /\ Ran(Now, overwritten)
    BY <1>1, <1>5 DEF Usable
  <2>2. PICK ctx, dirty : ctx = Now /\ dirty = overwritten
    OBVIOUS
  <2>3. ctx.alpha = alpha /\ ctx.beta = beta /\ ctx.scale = scale /\ ctx.norm = norm
    BY <2>2 DEF Now
  <2>4. Ran(Now, overwritten)'
    BY <1>1, <2>1, <2>2, <2>3, RanKept
  <2> QED
    BY <1>1, <1>2, <2>1, <2>4
<1>6. \A t \in Items' : state'[t] = ItemScore(instance[t])'
  <2> SUFFICES ASSUME NEW t \in Items PROVE state'[t] = ItemScore(instance[t])'
    BY <1>2
  <2>1. state[t] = ItemScore(instance[t])
    BY DEF Usable
  <2>2. ItemScore(instance[t])' = ItemScore(instance[t])
    BY <1>1, ItemScoreKept
  <2> QED
    BY <1>1, <2>1, <2>2
<1>7. model' \in ModelFiles /\ instance' \in Seq(Seq(ItemContents')) /\ numItems' = Len(instance')
  BY <1>1, <1>2 DEF Usable
<1> QED
  BY <1>4, <1>5, <1>6, <1>7 DEF Usable

(* What the answers mean depends on the model and the items only.          *)
LEMMA ProbabilityKept ==
  ASSUME NEW yseq, model' = model, instance' = instance
  PROVE  ProbabilityOf(yseq)' = ProbabilityOf(yseq)
BY DEF ProbabilityOf, ScoreOf, PathRow, Weights, IdsOf, longer, ItemScore, Labels, NumLabels

LEMMA MarginalKept ==
  ASSUME NEW y, NEW t, model' = model, instance' = instance
  PROVE  MarginalOf(y, t)' = MarginalOf(y, t)
BY DEF MarginalOf, Share, ScoreOf, PathRow, Weights, longer, ItemScore, Labels, NumLabels

LEMMA ScoresKept ==
  ASSUME model' = model, instance' = instance
  PROVE  /\ \A path : ScoreOf(instance, path)' = ScoreOf(instance, path)
         /\ Paths(instance)' = Paths(instance)
         /\ \A yseq : IdsOf(yseq)' = IdsOf(yseq)
BY DEF Paths, ScoreOf, ItemScore, Labels, NumLabels, IdsOf

-----------------------------------------------------------------------------
(* The answers.                                                            *)

(* An instance with items, and labels to choose from.                      *)
LEMMA ReadyOf ==
  ASSUME Usable, T > 0, NumLabels # 0
  PROVE  Ready
BY DEF Usable, Ready, T

(* Other calls have nothing to answer.                                     *)
LEMMA Untold ==
  ASSUME told'.call \notin {"viterbi", "probability", "marginal"}
  PROVE  TaggerAnswersAreTrue'
BY DEF TaggerAnswersAreTrue

LEMMA LabelKnown ==
  ASSUME Usable, NEW y, IdIn(model.labels, y) # 0
  PROVE  IdIn(model.labels, y) \in Labels /\ NumLabels # 0
<1>1. /\ model.labels \in Seq(ToSet(model.labels)) /\ NumLabels = Len(model.labels)
      /\ Labels = 1 .. NumLabels /\ NumLabels \in Nat
  BY ModelTyped DEF Usable
<1>2. IdIn(model.labels, y) \in 1 .. Len(model.labels)
  BY <1>1, IdInRow
<1> QED
  BY <1>1, <1>2

(* Each call keeps the invariant.                                          *)
LEMMA InitAnswers == ASSUME TaggerInit PROVE TaggerInv
BY DEF TaggerInit, TaggerInv, TaggerAnswersAreTrue

LEMMA OpenAnswers == ASSUME NEW m \in ModelFiles, TaggerOpen(m) PROVE TaggerInv'
<1>1. Usable'
  BY NewTaggerUsable DEF TaggerOpen
<1>2. TaggerAnswersAreTrue'
  BY Untold DEF TaggerOpen
<1> QED
  BY <1>1, <1>2 DEF TaggerInv

LEMMA CloseAnswers == ASSUME TaggerClose PROVE TaggerInv'
<1>1. ~opened'
  BY DEF TaggerClose, ModelRelease
<1>2. told'.call \in {"close", "open"}
  BY DEF TaggerClose
<1>3. TaggerAnswersAreTrue'
  BY <1>2, Untold
<1> QED
  BY <1>1, <1>3 DEF TaggerInv

LEMMA SetAnswers == ASSUME TaggerInv, NEW xseq \in ItemRows, TaggerSetItems(xseq) PROVE TaggerInv'
<1>1. Usable /\ TaggerSet(Items2Instance(xseq))
  BY DEF TaggerInv, TaggerSetItems
<1>2. Usable'
  BY <1>1, SetUsable
<1>3. TaggerAnswersAreTrue'
  BY Untold DEF TaggerSetItems
<1> QED
  BY <1>2, <1>3 DEF TaggerInv

(* A model without labels has no paths.                                    *)
LEMMA NoPaths ==
  ASSUME Usable, T > 0, NumLabels = 0
  PROVE  Paths(instance) = {}
<1>1. Labels = {}
  BY DEF Labels
<1>2. 1 \in DOMAIN instance
  BY DEF Usable, T
<1> QED
  BY <1>1, <1>2 DEF Paths

LEMMA FindAnswers == ASSUME TaggerInv, TaggerFind PROVE TaggerInv'
<1>1. Usable /\ T \in Nat
  BY DEF TaggerInv, TaggerFind, Usable, T
<1>2. CASE T = 0
  <2>1. UNCHANGED << crfVars, overwritten >> /\ told'.call = "empty"
    BY <1>2 DEF TaggerFind
  <2> QED
    BY <1>1, <2>1, UsableKept, Untold DEF TaggerInv
<1>3. CASE T # 0
  <2>1. /\ TaggerViterbi /\ told' = [call |-> "viterbi", labels |-> Named(ViterbiPath)]
        /\ overwritten' = (overwritten \/ level = "alphabeta")
    BY <1>3 DEF TaggerFind
  <2>2. Usable'
    BY <1>1, <2>1, ViterbiUsable
  <2>3. told'.call = "viterbi" /\ told'.labels = Named(ViterbiPath)
    BY <2>1
  <2>4. model' = model /\ instance' = instance
    BY <2>1 DEF TaggerViterbi
  <2>5. \A path \in Paths(instance) : ScoreOf(instance, path) <= ScoreOf(instance, IdsOf(Named(ViterbiPath)))
    <3>1. CASE NumLabels = 0
      BY <1>1, <1>3, <3>1, NoPaths
    <3>2. CASE NumLabels # 0
      <4>1. Ready
        BY <1>1, <1>3, <3>2, ReadyOf
      <4>2. IdsOf(Named(ViterbiPath)) = ViterbiPath
        BY <4>1, ViterbiAnswer, NamedAgain
      <4> QED
        BY <4>1, <4>2, ViterbiAnswer
    <3> QED
      BY <3>1, <3>2
  <2>6. PICK q : q = Named(ViterbiPath)
    OBVIOUS
  <2>7. \A path \in Paths(instance)' : ScoreOf(instance, path)' <= ScoreOf(instance, IdsOf(told.labels))'
    <3>1. IdsOf(told.labels)' = IdsOf(q)
      <4>1. IdsOf(q)' = IdsOf(q)
        BY <2>4, ScoresKept
      <4>2. IdsOf(told.labels)' = IdsOf(q)'
        BY <2>3, <2>6
      <4> QED
        BY <4>1, <4>2
    <3>2. PICK ids : ids = IdsOf(q)
      OBVIOUS
    <3>3. ScoreOf(instance, IdsOf(told.labels))' = ScoreOf(instance, ids)'
      BY <3>1, <3>2
    <3>4. ScoreOf(instance, ids)' = ScoreOf(instance, ids)
      BY <2>4, ScoresKept
    <3>5. SUFFICES ASSUME NEW path \in Paths(instance)'
                   PROVE  ScoreOf(instance, path)' <= ScoreOf(instance, IdsOf(told.labels))'
      OBVIOUS
    <3>6. path \in Paths(instance) /\ ScoreOf(instance, path)' = ScoreOf(instance, path)
      BY <2>4, ScoresKept
    <3> QED
      BY <2>5, <2>6, <3>2, <3>3, <3>4, <3>6
  <2>8. TaggerAnswersAreTrue'
    BY <2>3, <2>7 DEF TaggerAnswersAreTrue
  <2> QED
    BY <2>2, <2>8 DEF TaggerInv
<1> QED
  BY <1>2, <1>3

LEMMA ProbabilityAnswers == ASSUME TaggerInv, NEW yseq \in LabelRows, TaggerProbability(yseq) PROVE TaggerInv'
<1>1. Usable /\ T > 0 /\ Fits(yseq)
  BY DEF TaggerInv, TaggerProbability
<1>2. T \in Nat /\ 1 \in DOMAIN yseq /\ yseq \in Seq(ToSet(yseq))
  BY <1>1, TaggerApiAssumption DEF Usable, T, Fits
<1>3. NumLabels # 0
  BY <1>1, <1>2, LabelKnown DEF Fits
<1>4. Ready
  BY <1>1, <1>3, ReadyOf
<1>5. PICK ctx : ctx = AtLevel
  OBVIOUS
<1>6. PICK dirty : Ran(ctx, dirty)
  BY <1>1, <1>4, <1>5, AtLevelIs
<1>7. PICK ids : ids = [t \in Items |-> IdIn(model.labels, yseq[t])]
  OBVIOUS
<1>8. /\ SetLevel(ctx) /\ overwritten' = overwritten
      /\ told' = [call |-> "probability", labels |-> yseq, p |-> Over(Exp(PathScore(ids)), ctx.norm)]
  BY <1>5, <1>7 DEF TaggerProbability
<1>9. Usable'
  BY <1>1, <1>4, <1>5, <1>8, SetLevelUsable
<1>10. ids \in [1 .. T -> Labels] /\ IdsOf(yseq) = ids
  BY <1>1, <1>2, <1>4, <1>7, IdsAre
<1>11. PathScore(ids) = ScoreOf(instance, ids)
  BY <1>4, <1>10, PathScoreIs
<1>12. ctx.norm = VecSum(Weights(PathRow))
  BY <1>4, <1>6, NormIs
<1>13. Over(Exp(PathScore(ids)), ctx.norm) = ProbabilityOf(yseq)
  BY <1>10, <1>11, <1>12 DEF ProbabilityOf
<1>14. told'.call = "probability" /\ told'.labels = yseq /\ told'.p = ProbabilityOf(yseq)
  BY <1>8, <1>13
<1>15. ProbabilityOf(yseq)' = ProbabilityOf(yseq)
  <2>1. model' = model /\ instance' = instance
    BY <1>8 DEF SetLevel
  <2> QED
    BY <2>1, ProbabilityKept
<1>16. ProbabilityOf(told.labels)' = ProbabilityOf(yseq)'
  BY <1>14
<1>17. TaggerAnswersAreTrue'
  BY <1>14, <1>15, <1>16 DEF TaggerAnswersAreTrue
<1> QED
  BY <1>9, <1>17 DEF TaggerInv

LEMMA MarginalAnswers == ASSUME TaggerInv, NEW y, NEW t \in Items, TaggerMarginal(y, t) PROVE TaggerInv'
<1>1. Usable /\ IdIn(model.labels, y) # 0
  BY DEF TaggerInv, TaggerMarginal
<1>2. T \in Nat /\ T > 0
  BY <1>1 DEF Usable, T, Items
<1>3. IdIn(model.labels, y) \in Labels /\ NumLabels # 0
  BY <1>1, LabelKnown
<1>4. Ready
  BY <1>1, <1>2, <1>3, ReadyOf
<1>5. PICK ctx, l : ctx = AtLevel /\ l = IdIn(model.labels, y)
  OBVIOUS
<1>6. PICK dirty : Ran(ctx, dirty) /\ (dirty => overwritten)
  BY <1>1, <1>4, <1>5, AtLevelIs
<1>7. /\ SetLevel(ctx) /\ overwritten' = overwritten
      /\ told' = [call |-> "marginal", label |-> y, t |-> t, p |-> MarginalPath(ctx, << l >>, t)]
  BY <1>5 DEF TaggerMarginal
<1>8. Usable'
  BY <1>1, <1>4, <1>5, <1>7, SetLevelUsable
<1>9. told'.call = "marginal" /\ told'.label = y /\ told'.t = t /\ told'.p = MarginalPath(ctx, << l >>, t)
  BY <1>7
<1>10. ASSUME ~overwritten PROVE MarginalPath(ctx, << l >>, t) = MarginalOf(y, t)
  <2>0. ~dirty
    BY <1>6, <1>10
  <2>1. Ran(ctx, FALSE)
    <3>1. PICK a, b, c, p : Holds(ctx, dirty, a, b, c, p)
      BY <1>6 DEF Ran
    <3>2. Holds(ctx, FALSE, a, b, c, p)
      BY <2>0, <3>1 DEF Holds
    <3> QED
      BY <3>2 DEF Ran
  <2>2. MarginalPath(ctx, << l >>, t) = Share(PathRow, Weights(PathRow), << l >>, t)
    BY <1>3, <1>4, <1>5, <2>1, MarginalIs
  <2> QED
    BY <1>5, <2>2 DEF MarginalOf
<1>11. MarginalOf(y, t)' = MarginalOf(y, t)
  <2>1. model' = model /\ instance' = instance
    BY <1>7 DEF SetLevel
  <2> QED
    BY <2>1, MarginalKept
<1>12. MarginalOf(told.label, told.t)' = MarginalOf(y, t)'
  BY <1>9
<1>13. TaggerAnswersAreTrue'
  BY <1>7, <1>9, <1>10, <1>11, <1>12 DEF TaggerAnswersAreTrue
<1> QED
  BY <1>8, <1>13 DEF TaggerInv

LEMMA ThrowsAnswers == ASSUME TaggerInv, TaggerThrows PROVE TaggerInv'
<1>1. UNCHANGED << crfVars, overwritten >> /\ opened' = opened /\ told'.call = "throw"
  BY DEF TaggerThrows
<1> QED
  BY <1>1, UsableKept, Untold DEF TaggerInv

LEMMA LabelsAnswers == ASSUME TaggerInv, TaggerLabels PROVE TaggerInv'
<1>1. UNCHANGED << crfVars, overwritten >> /\ opened' = opened /\ told'.call = "labels"
  BY DEF TaggerLabels
<1> QED
  BY <1>1, UsableKept, Untold DEF TaggerInv

LEMMA StutterAnswers == ASSUME TaggerInv, UNCHANGED taggerVars PROVE TaggerInv'
<1>1. /\ UNCHANGED << crfVars, overwritten >> /\ opened' = opened /\ told' = told
      /\ model' = model /\ instance' = instance
  BY DEF taggerVars, crfVars
<1>2. (opened => Usable)'
  BY <1>1, UsableKept DEF TaggerInv
<1>3. PICK was : was = told
  OBVIOUS
<1>4. was.call = "viterbi" => 
        \A path \in Paths(instance) : ScoreOf(instance, path) <= ScoreOf(instance, IdsOf(was.labels))
  BY <1>3 DEF TaggerInv, TaggerAnswersAreTrue
<1>5. /\ was.call = "probability" => was.p = ProbabilityOf(was.labels)
      /\ was.call = "marginal" /\ ~overwritten => was.p = MarginalOf(was.label, was.t)
  BY <1>3 DEF TaggerInv, TaggerAnswersAreTrue
<1>6. /\ ProbabilityOf(was.labels)' = ProbabilityOf(was.labels)
      /\ MarginalOf(was.label, was.t)' = MarginalOf(was.label, was.t)
  BY <1>1, <1>3, ProbabilityKept, MarginalKept
<1>7. TaggerAnswersAreTrue'
  BY <1>1, <1>3, <1>4, <1>5, <1>6, ScoresKept DEF TaggerAnswersAreTrue
<1> QED
  BY <1>2, <1>7 DEF TaggerInv

(* Whatever was called before and in what order, for any models, items and *)
(* label sequences of any number and length: no label sequence is more     *)
(* probable than what viterbi() returns, probability() is the exact share  *)
(* of the labels given among all label sequences, and marginal() that of   *)
(* the label, unless viterbi() has come between forward-backward and it.   *)
THEOREM AnswersAreTrue == TaggerSpec => []TaggerAnswersAreTrue
<1>1. TaggerInit => TaggerInv
  BY InitAnswers
<1>2. TaggerInv /\ [TaggerNext]_taggerVars => TaggerInv'
  BY OpenAnswers, CloseAnswers, SetAnswers, FindAnswers, ProbabilityAnswers, MarginalAnswers, ThrowsAnswers,
     LabelsAnswers, StutterAnswers DEF TaggerNext
<1>3. TaggerInv => TaggerAnswersAreTrue
  BY DEF TaggerInv
<1> QED
  BY <1>1, <1>2, <1>3, PTL DEF TaggerSpec
=============================================================================
