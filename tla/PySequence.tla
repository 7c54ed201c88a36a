----------------------------- MODULE PySequence ------------------------------
(***************************************************************************)
(* The class ItemSequence of the Python binding, a std::vector that should  *)
(* look like a list, and its iterators (export_wrap.cpp; Item and           *)
(* StringList are instances of the same templates).  Positions count from   *)
(* 0, as there.  Calls that are undefined in C++ are not made: front() and  *)
(* pop_back() of an empty sequence, a sequence given to its own setslice,   *)
(* and the use of iterators that a change has made invalid, which is never  *)
(* tested.                                                                  *)
(***************************************************************************)
EXTENDS SequencesExt, Integers

CONSTANTS
  Elements,     (* what a sequence holds; copied in and out                  *)
  NewElement,   (* the one that resize(n) and ItemSequence(n) fill with      *)
  Absent,       (* Python's None as a bound of a slice                       *)
  Arguments,    (* sequences of elements that calls are given                *)
  Indices,      (* the numbers that calls are given                          *)
  Slices,       (* the slice objects, records of start, stop and step        *)
  MaxLength     (* bound: how long a sequence may become                     *)

ASSUME PySequenceAssumption ==
  /\ MaxLength \in Nat /\ NewElement \in Elements /\ Indices \subseteq Int
  /\ Arguments \subseteq Seq(Elements)
  /\ \A c \in Slices : {c.start, c.stop} \subseteq Int \cup {Absent}

VARIABLES
  vec, room,    (* the elements and the capacity of the vector               *)
  cursors,      (* two iterators that the program holds, or NoCursor: at is  *)
                (* the position current                                      *)
  raised        (* the exception of the last call, or "none"                 *)

sequenceVars == <<vec, room, cursors, raised>>

Slots == {1, 2}
NoCursor == [kind |-> "none", at |-> 0]
Closed(p)  == [kind |-> "closed", at |-> p]    (* SwigPyIteratorClosed_T     *)
Open(p)    == [kind |-> "open", at |-> p]      (* SwigPyIteratorOpen_T       *)
Reversed(p) == [kind |-> "backward", at |-> p]   (* the same, std::reverse_iterator *)

SequenceInit ==
  vec = << >> /\ room = 0 /\ cursors = [s \in Slots |-> NoCursor] /\ raised = "none"

(***************************************************************************)
(* Positions and slices                                                     *)
(***************************************************************************)
OutOfRange == -1

(* swig::check_index *)
CheckIndex(i, size, insert) ==
  IF i < 0 THEN IF -i <= size THEN i + size ELSE OutOfRange
  ELSE IF i < size \/ (insert /\ i = size) THEN i ELSE OutOfRange

(* Mutant: the beginning is out of range from the end.                      *)
SliceIndexStrict(i, size) ==
  IF i < 0 THEN IF -i < size THEN i + size ELSE OutOfRange
  ELSE IF i < size THEN i ELSE size

(* swig::slice_index *)
SliceIndex(i, size) ==
  IF i < 0 THEN IF -i <= size THEN i + size ELSE OutOfRange
  ELSE IF i < size THEN i ELSE size

(* What a call gives: elements, and the position from which iterators are   *)
(* invalid.                                                                 *)
Gives(elements, p) == [raises |-> FALSE, elements |-> elements, from |-> p]
IndexError == [raises |-> TRUE, elements |-> << >>, from |-> 0]

Spliced(s, p, v) == SubSeq(s, 1, p) \o v \o SubSeq(s, p + 1, Len(s))
Erased(s, p, q)  == SubSeq(s, 1, p) \o SubSeq(s, q + 1, Len(s))
Copied(s, p, n, v) == [k \in DOMAIN s |-> IF k \in p + 1 .. p + n THEN v[k - p] ELSE s[k]]

(* swig::getslice *)
GetSlice(s, i, j) ==
  LET ii == CheckIndex(i, Len(s), FALSE)
      jj == SliceIndex(j, Len(s))
  IN  IF OutOfRange \in {ii, jj} THEN IndexError ELSE Gives(SubSeq(s, ii + 1, jj), Len(s))

(* swig::setslice: as many as fit are copied over the old ones, the rest is *)
(* inserted; otherwise the old ones are erased first.                       *)
SetSlice(s, i, j, v) ==
  LET ii == CheckIndex(i, Len(s), TRUE)
      j2 == SliceIndex(j, Len(s))
      jj == IF j2 < ii THEN ii ELSE j2
      n  == jj - ii
  IN  IF OutOfRange \in {ii, j2} THEN IndexError
      ELSE IF n <= Len(v)
           THEN Gives(Spliced(Copied(s, ii, n, v), jj, SubSeq(v, n + 1, Len(v))), jj)
           ELSE Gives(Spliced(Erased(s, ii, jj), ii, v), ii)

(* swig::delslice *)
DelSlice(s, i, j) ==
  LET ii == CheckIndex(i, Len(s), TRUE)
      jj == SliceIndex(j, Len(s))
  IN  IF OutOfRange \in {ii, jj} THEN IndexError
      ELSE IF jj > ii THEN Gives(Erased(s, ii, jj), ii) ELSE Gives(s, Len(s))

(* PySlice_GetIndices of CPython, whose result, an error for bounds beyond  *)
(* the end, nobody looks at.  The step decides only what absent bounds are. *)
Bound(b, absent, n) == IF b = Absent THEN absent ELSE IF b < 0 THEN b + n ELSE b
StartOf(slice, n) == Bound(slice.start, IF slice.step < 0 THEN n - 1 ELSE 0, n)
StopOf(slice, n)  == Bound(slice.stop, IF slice.step < 0 THEN -1 ELSE n, n)

GetItemSlice(s, slice)    == GetSlice(s, StartOf(slice, Len(s)), StopOf(slice, Len(s)))
SetItemSlice(s, slice, v) == SetSlice(s, StartOf(slice, Len(s)), StopOf(slice, Len(s)), v)
DelItemSlice(s, slice)    == DelSlice(s, StartOf(slice, Len(s)), StopOf(slice, Len(s)))

(***************************************************************************)
(* Calls that change the sequence                                           *)
(***************************************************************************)
(* The vector takes these elements.  Iterators at the position p or behind  *)
(* it are invalid, and the end of the closed ones always is; all of them    *)
(* are when the vector moves to a larger place.  New iterators are those that *)
(* the call returns.                                                        *)
Become(elements, p, new) ==
  /\ Len(elements) <= MaxLength
  /\ vec' = elements
  /\ room' = IF Len(elements) <= room THEN room
             ELSE IF Len(elements) > 2 * Len(vec) THEN Len(elements) ELSE 2 * Len(vec)
  /\ cursors' = [s \in Slots |->
       IF s \in DOMAIN new THEN new[s]
       ELSE IF \/ Len(elements) = Len(vec)
               \/ Len(elements) <= room /\ cursors[s].kind # "closed" /\ cursors[s].at < p
       THEN cursors[s] ELSE NoCursor]
  /\ raised' = "none"

Unmoved == UNCHANGED <<vec, room, cursors>>

Raise(exception) == raised' = exception /\ Unmoved

(* A wrapper that catches std::out_of_range.                                *)
Done(r) ==
  \/ r.raises /\ Raise("IndexError")
  \/ ~r.raises /\ Become(r.elements, r.from, << >>)

(* The same for a call that only reads.                                     *)
Looked(r) == raised' = (IF r.raises THEN "IndexError" ELSE "none") /\ Unmoved

SeqGetSlice(i, j)    == Looked(GetSlice(vec, i, j))
SeqSetSlice(i, j, v) == Done(SetSlice(vec, i, j, v))
SeqUnsetSlice(i, j)  == Done(SetSlice(vec, i, j, << >>))   (* setslice without a value *)
SeqDelSlice(i, j)    == Done(DelSlice(vec, i, j))

(* Subscripts that are slice objects.                                       *)
SeqGetItemSlice(slice)    == Looked(GetItemSlice(vec, slice))
SeqSetItemSlice(slice, v) == Done(SetItemSlice(vec, slice, v))
SeqUnsetItemSlice(slice)  == Done(DelItemSlice(vec, slice))
SeqDelItemSlice(slice)    == Done(DelItemSlice(vec, slice))

(* Subscripts that are numbers: swig::getpos and cgetpos.                   *)
ItemAt(s, i) == CheckIndex(i, Len(s), FALSE)
NoItem(s, i) == ItemAt(s, i) = OutOfRange

GetItem(s, i) ==
  LET p == ItemAt(s, i) IN IF NoItem(s, i) THEN IndexError ELSE Gives(<< s[p + 1] >>, Len(s))
SetItem(s, i, x) ==
  LET p == ItemAt(s, i) IN IF NoItem(s, i) THEN IndexError ELSE Gives([s EXCEPT ![p + 1] = x], Len(s))
DelItem(s, i) ==
  LET p == ItemAt(s, i) IN IF NoItem(s, i) THEN IndexError ELSE Gives(Erased(s, p, p + 1), p)

SeqGetItem(i)    == Looked(GetItem(vec, i))
SeqSetItem(i, x) == Done(SetItem(vec, i, x))
SeqDelItem(i)    == Done(DelItem(vec, i))

SeqAppend(x)   == Done(Gives(Append(vec, x), Len(vec)))
SeqPushBack(x) == Done(Gives(Append(vec, x), Len(vec)))

(* The check that back() and pop_back() lack.                               *)
Popped(s) == IF s = << >> THEN IndexError ELSE Gives(Front(s), Len(s) - 1)

SeqFront   == vec # << >> /\ Looked(Gives(<< Head(vec) >>, Len(vec)))
SeqBack    == vec # << >> /\ Looked(Gives(<< Last(vec) >>, Len(vec)))
SeqPop     == Done(Popped(vec))
SeqPopBack == vec # << >> /\ Done(Popped(vec))

SeqClear == Done(Gives(<< >>, 0))

Copies(n, x) == [k \in 1 .. n |-> x]

SeqResize(n, x) ==
  Done(IF n <= Len(vec) THEN Gives(SubSeq(vec, 1, n), n)
       ELSE Gives(vec \o Copies(n - Len(vec), x), Len(vec)))

SeqResizeDefault(n) == SeqResize(n, NewElement)

(* Whatever they were at, iterators are invalid.                            *)
Refilled(elements, capacity) ==
  /\ Len(elements) <= MaxLength
  /\ vec' = elements /\ room' = capacity
  /\ cursors' = [s \in Slots |-> NoCursor] /\ raised' = "none"

SeqAssign(n, x) == Refilled(Copies(n, x), IF n <= room THEN room ELSE n)

(* The program goes on with a new sequence, empty, a copy or filled.        *)
SeqNew             == Refilled(<< >>, 0)
SeqNewCopy(v)      == Refilled(v, Len(v))
SeqNewDefault(n)   == Refilled(Copies(n, NewElement), n)
SeqNewFilled(n, x) == Refilled(Copies(n, x), n)

(* The iterators go with their elements to the other sequence.              *)
SeqSwap(v) == Refilled(v, Len(v))

SeqReserve(n) ==
  /\ n <= MaxLength /\ raised' = "none" /\ UNCHANGED vec
  /\ IF n <= room THEN UNCHANGED <<room, cursors>>
     ELSE room' = n /\ cursors' = [s \in Slots |-> NoCursor]

(***************************************************************************)
(* Iterators.  Those of begin(), end(), erase() and insert() are open: only *)
(* the program knows where they may go.                                     *)
(***************************************************************************)
Keep(s, c) == cursors' = [cursors EXCEPT ![s] = c] /\ raised' = "none" /\ UNCHANGED <<vec, room>>

SeqIterator(s) == Keep(s, Closed(0))
SeqBegin(s)    == Keep(s, Open(0))
SeqEnd(s)      == Keep(s, Open(Len(vec)))
SeqRbegin(s)   == Keep(s, Reversed(Len(vec)))
SeqRend(s)     == Keep(s, Reversed(0))

Held(s) == cursors[s].kind # "none"

(* The dynamic_cast to the iterators of the vector, which refuses reverse   *)
(* ones.                                                                    *)
Position(s) == cursors[s].kind \in {"closed", "open"}

(* The elements change and slot s takes the iterator that the call returns. *)
BecomeAt(elements, p, s) ==
  Become(elements, p, [t \in {s} |-> Open(p)])

SeqErase(s) ==
  LET p == cursors[s].at
  IN  Position(s) /\ p < Len(vec) /\ BecomeAt(Erased(vec, p, p + 1), p, s)

(* From the one iterator to the other.                                      *)
SeqEraseRange(s, t) ==
  LET p == cursors[s].at  q == cursors[t].at
  IN  Position(s) /\ Position(t) /\ p <= q /\ BecomeAt(Erased(vec, p, q), p, s)

SeqInsert(s, x) ==
  LET p == cursors[s].at IN Position(s) /\ BecomeAt(Spliced(vec, p, << x >>), p, s)

SeqInsertFilled(s, n, x) ==
  LET p == cursors[s].at IN Position(s) /\ Done(Gives(Spliced(vec, p, Copies(n, x)), p))

(* Where n steps lead.                                                      *)
Moved(c, n) == [c EXCEPT !.at = IF c.kind = "backward" THEN @ - n ELSE @ + n]

Within(c) == c.at \in 0 .. Len(vec)

(* An iterator moved by n goes into slot s.  The program does not move an   *)
(* open one beyond the elements; a closed one stops there.                  *)
MoveTo(s, c, n, stopped) ==
  /\ Within(Moved(c, n)) \/ c.kind = "closed"
  /\ IF Within(Moved(c, n)) THEN Keep(s, Moved(c, n))
     ELSE /\ cursors' = [cursors EXCEPT ![s] = stopped]
          /\ raised' = "StopIteration" /\ UNCHANGED <<vec, room>>

Advance(s, n) ==
  /\ Held(s)
  /\ MoveTo(s, cursors[s], n, Closed(IF n > 0 THEN Len(vec) ELSE 0))

ItIncr(s, n)    == Advance(s, n)
ItIncrOne(s)    == Advance(s, 1)
ItDecr(s, n)    == Advance(s, -n)
ItDecrOne(s)    == Advance(s, -1)
ItAdvance(s, n) == Advance(s, n)
ItIadd(s, n)    == Advance(s, n)
ItIsub(s, n)    == Advance(s, -n)

(* The copy takes the place of the other iterator; past the end it is lost. *)
ItCopy(s, t)   == Held(s) /\ Keep(t, cursors[s])
ItAdd(s, t, n) == Held(s) /\ MoveTo(t, cursors[s], n, cursors[t])
ItSub(s, t, n) == Held(s) /\ MoveTo(t, cursors[s], -n, cursors[t])

(* Which element, counted from 1; 0 or more than there are if none.         *)
Pointee(c) == IF c.kind = "backward" THEN c.at ELSE c.at + 1

ItValue(s) ==
  /\ Held(s)
  /\ IF Pointee(cursors[s]) \in DOMAIN vec THEN raised' = "none" /\ Unmoved
     ELSE cursors[s].kind = "closed" /\ Raise("StopIteration")

(* value() comes before the step, and after the step back.                  *)
ItNext(s) ==
  /\ Held(s)
  /\ IF Pointee(cursors[s]) \in DOMAIN vec THEN Keep(s, Moved(cursors[s], 1))
     ELSE cursors[s].kind = "closed" /\ Raise("StopIteration")

ItPrevious(s) ==
  /\ Held(s)
  /\ IF Within(Moved(cursors[s], -1)) THEN Keep(s, Moved(cursors[s], -1))
     ELSE cursors[s].kind = "closed" /\ Raise("StopIteration")

Distance(c, d) == IF c.kind = "backward" THEN c.at - d.at ELSE d.at - c.at

(* The dynamic_cast to iterators of the same sort.                          *)
SameSort(s, t) == (cursors[s].kind = "backward") = (cursors[t].kind = "backward")

(* The exception std::invalid_argument is caught by distance() and equal(), *)
(* and by none of the operators: it ends the interpreter.                   *)
CompareIterators(s, t, caught) ==
  /\ Held(s) /\ Held(t)
  /\ IF SameSort(s, t) THEN raised' = "none" /\ Unmoved
     ELSE Raise(IF caught THEN "RuntimeError" ELSE "terminated")

ItDistance(s, t)   == CompareIterators(s, t, TRUE)
ItEqual(s, t)      == CompareIterators(s, t, TRUE)
ItEq(s, t)         == CompareIterators(s, t, FALSE)
ItNe(s, t)         == CompareIterators(s, t, FALSE)
ItDifference(s, t) == CompareIterators(s, t, FALSE)

(***************************************************************************)
(* The calls.  An overloaded function that no form of the arguments suits   *)
(* raises NotImplementedError.                                              *)
(***************************************************************************)
Unmatched == Raise("NotImplementedError")

SeqSetSliceCall ==
  \/ \E i, j \in Indices : SeqUnsetSlice(i, j) \/ \E v \in Arguments : SeqSetSlice(i, j, v)
  \/ Unmatched

SeqGetItemCall ==
  (\E i \in Indices : SeqGetItem(i)) \/ (\E c \in Slices : SeqGetItemSlice(c)) \/ Unmatched

SeqSetItemCall ==
  \/ \E i \in Indices, x \in Elements : SeqSetItem(i, x)
  \/ \E c \in Slices : SeqUnsetItemSlice(c) \/ \E v \in Arguments : SeqSetItemSlice(c, v)
  \/ Unmatched

SeqDelItemCall ==
  (\E i \in Indices : SeqDelItem(i)) \/ (\E c \in Slices : SeqDelItemSlice(c)) \/ Unmatched

Counts == Indices \cap Nat

SeqNewCall ==
  \/ SeqNew \/ \E v \in Arguments : SeqNewCopy(v)
  \/ \E n \in Counts : SeqNewDefault(n) \/ \E x \in Elements : SeqNewFilled(n, x)
  \/ Unmatched

SeqResizeCall ==
  \/ \E n \in Counts : SeqResizeDefault(n) \/ \E x \in Elements : SeqResize(n, x)
  \/ Unmatched

SeqEraseCall ==
  \/ \E s \in Slots : SeqErase(s) \/ \E t \in Slots : SeqEraseRange(s, t)
  \/ Unmatched

SeqInsertCall ==
  \/ \E s \in Slots, x \in Elements : SeqInsert(s, x) \/ \E n \in Counts : SeqInsertFilled(s, n, x)
  \/ Unmatched

ItIncrCall == (\E s \in Slots : ItIncrOne(s) \/ \E n \in Counts : ItIncr(s, n)) \/ Unmatched
ItDecrCall == (\E s \in Slots : ItDecrOne(s) \/ \E n \in Counts : ItDecr(s, n)) \/ Unmatched

(* Python makes a TypeError of NotImplemented.                              *)
ItSubCall ==
  \/ \E s, t \in Slots : ItDifference(s, t) \/ \E n \in Indices : ItSub(s, t, n)
  \/ Raise("TypeError")

SequenceNext ==
  /\ raised # "terminated"
  /\ \/ \E i, j \in Indices : SeqGetSlice(i, j) \/ SeqDelSlice(i, j)
     \/ SeqSetSliceCall \/ SeqGetItemCall \/ SeqSetItemCall \/ SeqDelItemCall
     \/ SeqNewCall \/ SeqResizeCall \/ SeqEraseCall \/ SeqInsertCall
     \/ \E x \in Elements : SeqAppend(x) \/ SeqPushBack(x)
     \/ SeqFront \/ SeqBack \/ SeqPop \/ SeqPopBack \/ SeqClear
     \/ \E n \in Counts : SeqReserve(n) \/ \E x \in Elements : SeqAssign(n, x)
     \/ \E v \in Arguments : SeqSwap(v)
     \/ \E s \in Slots : \/ SeqIterator(s) \/ SeqBegin(s) \/ SeqEnd(s) \/ SeqRbegin(s) \/ SeqRend(s)
                         \/ ItValue(s) \/ ItNext(s) \/ ItPrevious(s)
     \/ \E s \in Slots, n \in Indices :
          ItAdvance(s, n) \/ ItIadd(s, n) \/ ItIsub(s, n)
     \/ \E s, t \in Slots : \/ ItCopy(s, t) \/ ItDistance(s, t) \/ ItEqual(s, t) \/ ItEq(s, t) \/ ItNe(s, t)
                            \/ \E n \in Indices : ItAdd(s, t, n)
     \/ ItIncrCall \/ ItDecrCall \/ ItSubCall

(***************************************************************************)
(* Properties                                                               *)
(***************************************************************************)
(* What the slices of a Python list are: bounds before the beginning and    *)
(* beyond the end mean the beginning and the end.                           *)
Clamped(i, n) == LET p == IF i < 0 THEN i + n ELSE i IN IF p < 0 THEN 0 ELSE IF p > n THEN n ELSE p

ListSlice(s, i, j) == SubSeq(s, Clamped(i, Len(s)) + 1, Clamped(j, Len(s)))

ListWith(s, i, j, v) ==
  LET p == Clamped(i, Len(s))  q == Clamped(j, Len(s)) IN Spliced(Erased(s, p, IF q < p THEN p ELSE q), p, v)

Agree(r, within, elements) == r.raises = ~within /\ (within => r.elements = elements)

(* Slices read and written like those of a list, with IndexError exactly    *)
(* for a lower bound before the beginning, behind the end or, when reading, *)
(* at the end, and for an upper bound before the beginning.  An iterator    *)
(* that no change has made invalid is inside, and distance() says how far   *)
(* the other one is.                                                        *)
SequenceActsAsList ==
  LET n == Len(vec)
  IN  /\ n <= room
      /\ \A i, j \in Indices :
           LET inside == i \in -n .. n /\ j >= -n
           IN  /\ Agree(GetSlice(vec, i, j), inside /\ i < n, ListSlice(vec, i, j))
               /\ Agree(DelSlice(vec, i, j), inside, ListWith(vec, i, j, << >>))
               /\ \A v \in Arguments : Agree(SetSlice(vec, i, j, v), inside, ListWith(vec, i, j, v))
      /\ \A s, t \in Slots :
           Held(s) /\ Held(t) =>
             /\ Within(cursors[s])
             /\ SameSort(s, t) => Moved(cursors[s], Distance(cursors[s], cursors[t])).at = cursors[t].at
==============================================================================
