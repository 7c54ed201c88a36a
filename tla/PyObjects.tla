------------------------------ MODULE PyObjects ------------------------------
(***************************************************************************)
(* Who deletes what the Python binding makes (export_wrap.cpp).  A proxy is *)
(* the Python object that points to one of C++ and may own it; a proxy that *)
(* nothing refers to dies at once, and its object with it if it owns it.    *)
(* The program never takes an ownership with acquire().  What the methods   *)
(* do to the objects is in PySequence, TrainerApi and TaggerApi.            *)
(***************************************************************************)
EXTENDS Integers, FiniteSetsExt, SequencesExt

CONSTANTS
  MaxObjects,   (* bound: objects that are ever made                         *)
  MaxProxies,   (* bound: proxies alive at a time                            *)
  MaxBadLists   (* bound: calls with a list that cannot be converted         *)

ASSUME PyObjectsAssumption == {MaxObjects, MaxProxies, MaxBadLists} \subseteq Nat

VARIABLES
  heap,         (* the objects and the proxies                               *)
  temporaries,  (* objects made for arguments and not deleted                *)
  badLists      (* history: calls with a list that could not be converted    *)

objectVars == <<heap, temporaries, badLists>>

Nobody == 0
Proxies == 1 .. MaxProxies

(* keeps is the proxy whose count the object has raised.  History: lost, it *)
(* had no owner at some time; reowned, a proxy became an owner beside       *)
(* another.                                                                 *)
NoObject == [kind |-> "none", keeps |-> Nobody, deleted |-> 0, lost |-> FALSE, reowned |-> FALSE]

(* held: the program refers to it; stuck: so does nothing, but its count    *)
(* never falls.                                                             *)
NoProxy == [obj |-> 0, own |-> FALSE, held |-> FALSE, stuck |-> FALSE, next |-> Nobody]

ObjectsInit ==
  /\ heap = [objects |-> [o \in 1 .. MaxObjects |-> NoObject], proxies |-> [p \in Proxies |-> NoProxy]]
  /\ temporaries = 0 /\ badLists = 0

Alive(h) == {p \in Proxies : h.proxies[p].obj # 0}
Exists(h, o) == h.objects[o].kind # "none" /\ h.objects[o].deleted = 0
Existing(h)  == {o \in DOMAIN h.objects : Exists(h, o)}
Kind(h, p) == h.objects[h.proxies[p].obj].kind

(* Those that Python has yet to deallocate.                                 *)
Unreferenced(h) ==
  {p \in Alive(h) : /\ ~h.proxies[p].held /\ ~h.proxies[p].stuck
                    /\ \A o \in Existing(h) : h.objects[o].keeps # p
                    /\ \A q \in Alive(h) : h.proxies[q].next # p}

(* The types with a destructor: a slice of a sequence and an allocator are  *)
(* of types that have none, not even a class.                               *)
Destroyed(kind) == kind # "bare"

(* SwigPyObject_dealloc: what it cannot delete is reported as a memory      *)
(* leak.                                                                    *)
Deallocated(h, p) ==
  LET o == h.proxies[p].obj
      freed == [h EXCEPT !.proxies[p] = NoProxy]
  IN  IF ~h.proxies[p].own THEN freed
      ELSE IF Destroyed(h.objects[o].kind) THEN [freed EXCEPT !.objects[o].deleted = @ + 1]
      ELSE [freed EXCEPT !.objects[o].lost = TRUE]

(* One after the other, each of which can only leave fewer proxies.         *)
DeallocateOne(h) == IF Unreferenced(h) = {} THEN h ELSE Deallocated(h, Min(Unreferenced(h)))

Collected(h) ==
  LET after[n \in 0 .. MaxProxies] == IF n = 0 THEN h ELSE DeallocateOne(after[n - 1])
  IN  after[MaxProxies]

(* SWIG_NewPointerObj: another proxy, which the program holds.              *)
FreeProxy(h) == Min(Proxies \ Alive(h))

Pointing(h, o, own) ==
  [h EXCEPT !.proxies[FreeProxy(h)] =
     [obj |-> o, own |-> own, held |-> TRUE, stuck |-> FALSE, next |-> Nobody]]

(* The object that is made next.                                            *)
NewObject(h) == Cardinality({o \in DOMAIN h.objects : h.objects[o].kind # "none"}) + 1

Made(h, kind, keeps) ==
  [h EXCEPT !.objects[NewObject(h)] = [NoObject EXCEPT !.kind = kind, !.keeps = keeps]]

(* An object that is made and loses its only pointer at once.               *)
MadeInVain(h, kind, keeps) ==
  [h EXCEPT !.objects[NewObject(h)] = [NoObject EXCEPT !.kind = kind, !.keeps = keeps, !.lost = TRUE]]

CanMake  == NewObject(heap) <= MaxObjects
CanPoint == Alive(heap) # Proxies

HeapBecomes(h) == heap' = Collected(h) /\ UNCHANGED <<temporaries, badLists>>

Returns(kind, keeps, own) ==
  /\ CanMake /\ CanPoint
  /\ HeapBecomes(Pointing(Made(heap, kind, keeps), NewObject(heap), own))

(* The proxies of existing objects that the program has.                    *)
HeldOf(kinds) ==
  {p \in Alive(heap) : heap.proxies[p].held /\ Exists(heap, heap.proxies[p].obj) /\ Kind(heap, p) \in kinds}

(* Mutant: the pointer is taken without the ownership.                      *)
PointerOnly(h, p) == h

(* What SWIG_POINTER_DISOWN does.                                           *)
Disowned(h, p) == [h EXCEPT !.proxies[p].own = FALSE]

(***************************************************************************)
(* Making and dropping                                                      *)
(***************************************************************************)
Classes == {"sequence", "trainer", "director", "attribute"}

(* An attribute has its constructors below.                                 *)
PyNew(kind) == Returns(kind, Nobody, TRUE)

(* __init__ of an instance that has an object already: SwigPyObject_append  *)
(* sets next, and does not release the one it overwrites.                   *)
PyInitAgain(p) ==
  LET q == FreeProxy(heap)
      h == Pointing(Made(heap, Kind(heap, p), Nobody), NewObject(heap), TRUE)
      n == heap.proxies[p].next
      appended == [h EXCEPT !.proxies[p].next = q, !.proxies[q].held = FALSE]
  IN  /\ p \in HeldOf(Classes) /\ CanMake /\ CanPoint
      /\ HeapBecomes(IF n = Nobody THEN appended ELSE [appended EXCEPT !.proxies[n].stuck = TRUE])

PyDrop(p) == p \in Alive(heap) /\ heap.proxies[p].held
             /\ HeapBecomes([heap EXCEPT !.proxies[p].held = FALSE])

(* Trainer.__disown__(): the library is to delete it.  A director refers to *)
(* its instance from then on.                                               *)
PyDisown(p) ==
  LET o == heap.proxies[p].obj
      h == [Disowned(heap, p) EXCEPT !.objects[o].lost = TRUE]
  IN  /\ p \in HeldOf({"trainer", "director"})
      /\ HeapBecomes(IF Kind(heap, p) = "director" THEN [h EXCEPT !.objects[o].keeps = p] ELSE h)

(***************************************************************************)
(* Iterators and slices                                                     *)
(***************************************************************************)
(* iterator() gives the iterator its container to keep; begin() and the     *)
(* others do not.                                                           *)
PyIterator(p) == p \in HeldOf({"sequence"}) /\ Returns("iterator", p, TRUE)
PyBegin(p)    == p \in HeldOf({"sequence"}) /\ Returns("iterator", Nobody, TRUE)

Keeps(p) == heap.objects[heap.proxies[p].obj].keeps

PyCopy(p) == p \in HeldOf({"iterator"}) /\ Returns("iterator", Keeps(p), TRUE)

(* incr(), decr() and advance() return the iterator itself: another proxy.  *)
PyStep(p) ==
  /\ p \in HeldOf({"iterator"}) /\ CanPoint
  /\ HeapBecomes(Pointing(heap, heap.proxies[p].obj, FALSE))

(* it += n: the proxy gives the ownership to the one that is returned, with *)
(* which the program goes on (rebound) or not; a StopIteration or a number  *)
(* that is none comes after the one and before the other.                   *)
PyStepInPlace(p, rebound) ==
  LET o == heap.proxies[p].obj
      beside == \E q \in Alive(heap) \ {p} : heap.proxies[q].obj = o /\ heap.proxies[q].own
      h == [Disowned(heap, p) EXCEPT !.objects[o].reowned = @ \/ beside]
  IN  /\ p \in HeldOf({"iterator"}) /\ CanPoint
      /\ HeapBecomes(Pointing([h EXCEPT !.proxies[p].held = ~rebound], o, TRUE))

PyStepInPlaceRaises(p) ==
  /\ p \in HeldOf({"iterator"}) /\ heap.proxies[p].own
  /\ HeapBecomes([Disowned(heap, p) EXCEPT !.objects[heap.proxies[p].obj].lost = TRUE])

(* it + n: the copy that cannot go there is not deleted.                    *)
PyPlus(p) ==
  /\ p \in HeldOf({"iterator"})
  /\ \/ Returns("iterator", Keeps(p), TRUE)
     \/ CanMake /\ HeapBecomes(MadeInVain(heap, "iterator", Keeps(p)))

(* x[i:j] by __getslice__, and by __getitem__, which does not give the      *)
(* ownership.                                                               *)
PyGetSlice(p) == p \in HeldOf({"sequence"}) /\ Returns("bare", Nobody, TRUE)

PyGetItemSlice(p) ==
  /\ p \in HeldOf({"sequence"}) /\ CanMake /\ CanPoint
  /\ HeapBecomes(Pointing(MadeInVain(heap, "bare", Nobody), NewObject(heap), FALSE))

PyGetAllocator(p) == p \in HeldOf({"sequence"}) /\ Returns("bare", Nobody, TRUE)

(***************************************************************************)
(* The arguments of a method                                                *)
(***************************************************************************)
Signatures ==
  { << >>, << "string" >>, << "double" >>, << "items" >>, << "strings" >>, << "string", "string" >>,
    << "string", "int" >>, << "string", "double" >>, << "items", "strings", "int" >> }

(* What Python programs give for a parameter.  A bad list has an element of *)
(* another type; wrong is None and all else that is refused.                *)
Forms(parameter) ==
  CASE parameter \in {"items", "strings"} -> {"proxy", "list", "bad list", "wrong"}
    [] parameter = "string" -> {"text", "wrong"}
    [] parameter \in {"int", "double"} -> {"number", "wrong"}

(* swig::asptr: a native list becomes a new vector, and one that is found   *)
(* bad on the way leaves its vector behind.                                 *)
NewVectors(args) == {k \in DOMAIN args : args[k] \in {"list", "bad list"}}

(* SWIG_AsPtr_std_string                                                    *)
NewStrings(args) == {k \in DOMAIN args : args[k] = "text"}

(* The null pointer that None becomes is refused as a reference.            *)
Good(form) == form \in {"proxy", "list", "text", "number"}

(* Mutant: what was converted before the argument that fails stays.         *)
DeletedOnReturn(args) ==
  IF \A k \in DOMAIN args : Good(args[k]) THEN Cardinality({k \in DOMAIN args : args[k] \in {"list", "text"}})
  ELSE 0

(* The temporaries whose result has the mark SWIG_NEWOBJ, on the return and *)
(* on the failing path alike.                                               *)
Deleted(args) == Cardinality({k \in DOMAIN args : args[k] \in {"list", "text"}})

(* A method converts its arguments one by one, up to one it cannot convert. *)
UpToBad(args) ==
  LET failing == {k \in DOMAIN args : ~Good(args[k])}
  IN  IF failing = {} THEN args ELSE SubSeq(args, 1, Min(failing))

(* left: temporaries made and not deleted.                                  *)
Accepted(all) ==
  LET args == UpToBad(all)
      made == Cardinality(NewVectors(args)) + Cardinality(NewStrings(args))
  IN  [good |-> \A k \in DOMAIN args : Good(args[k]),
       bad  |-> Cardinality({k \in DOMAIN args : args[k] = "bad list"}),
       left |-> made - Deleted(args)]

(* What can happen to the arguments for these parameters; a function that   *)
(* TLC evaluates once.                                                      *)
Conversions ==
  [parameters \in Signatures |->
     {Accepted(all) : all \in {a \in [DOMAIN parameters -> UNION {Forms(x) : x \in ToSet(parameters)}] :
                                  \A k \in DOMAIN a : a[k] \in Forms(parameters[k])}}]

(* The heap becomes after when all are good.                                *)
Call(parameters, after) ==
  \E c \in Conversions[parameters] :
    /\ badLists + c.bad <= MaxBadLists
    /\ temporaries' = temporaries + c.left
    /\ badLists' = badLists + c.bad
    /\ heap' = IF c.good THEN after ELSE heap

Method(parameters) == Call(parameters, heap)

TrainerMethod(parameters) == HeldOf({"trainer", "director"}) # {} /\ Method(parameters)

PyTrainerClear   == TrainerMethod(<< >>)
PyTrainerAppend  == TrainerMethod(<< "items", "strings", "int" >>)
PyTrainerSelect  == TrainerMethod(<< "string", "string" >>)
PyTrainerTrain   == TrainerMethod(<< "string", "int" >>)
PyTrainerParams  == TrainerMethod(<< >>)
PyTrainerSet     == TrainerMethod(<< "string", "string" >>)
PyTrainerGet     == TrainerMethod(<< "string" >>)
PyTrainerHelp    == TrainerMethod(<< "string" >>)
PyTrainerMessage == TrainerMethod(<< "string" >>)

(* Attributes.  The dispatcher of new_Attribute looks at the arguments,     *)
(* converting none; the ones that fit no overload it refuses.               *)
AttributeMethod(parameters) == HeldOf({"attribute"}) # {} /\ Method(parameters)

PyAttributeAttrSet  == AttributeMethod(<< "string" >>)
PyAttributeAttrGet  == AttributeMethod(<< >>)
PyAttributeValueSet == AttributeMethod(<< "double" >>)
PyAttributeValueGet == AttributeMethod(<< >>)

NewAttribute(parameters) ==
  /\ CanMake /\ CanPoint
  /\ Call(parameters, Pointing(Made(heap, "attribute", Nobody), NewObject(heap), TRUE))

PyNewAttribute          == NewAttribute(<< >>)
PyNewAttributeNamed     == NewAttribute(<< "string" >>)
PyNewAttributeWithValue == NewAttribute(<< "string", "double" >>)

PyNewAnyAttribute == PyNewAttribute \/ PyNewAttributeNamed \/ PyNewAttributeWithValue

PyTaggerOpen        == Method(<< "string" >>)
PyTaggerClose       == Method(<< >>)
PyTaggerLabels      == Method(<< >>)
PyTaggerTag         == Method(<< "items" >>)
PyTaggerSet         == Method(<< "items" >>)
PyTaggerViterbi     == Method(<< >>)
PyTaggerProbability == Method(<< "strings" >>)
PyTaggerMarginal    == Method(<< "string", "int" >>)

ObjectsNext ==
  \/ \E kind \in Classes \ {"attribute"} : PyNew(kind)
  \/ \E p \in Proxies : \/ PyInitAgain(p) \/ PyDrop(p) \/ PyDisown(p)
                        \/ PyIterator(p) \/ PyBegin(p) \/ PyCopy(p) \/ PyStep(p)
                        \/ PyStepInPlace(p, TRUE) \/ PyStepInPlace(p, FALSE) \/ PyStepInPlaceRaises(p)
                        \/ PyPlus(p) \/ PyGetSlice(p) \/ PyGetItemSlice(p) \/ PyGetAllocator(p)
  \/ PyTrainerClear \/ PyTrainerAppend \/ PyTrainerSelect \/ PyTrainerTrain \/ PyTrainerParams
  \/ PyTrainerSet \/ PyTrainerGet \/ PyTrainerHelp \/ PyTrainerMessage
  \/ PyNewAnyAttribute
  \/ PyAttributeAttrSet \/ PyAttributeAttrGet \/ PyAttributeValueSet \/ PyAttributeValueGet
  \/ PyTaggerOpen \/ PyTaggerClose \/ PyTaggerLabels \/ PyTaggerTag \/ PyTaggerSet
  \/ PyTaggerViterbi \/ PyTaggerProbability \/ PyTaggerMarginal

(***************************************************************************)
(* Properties                                                               *)
(***************************************************************************)
Owners(o) == {p \in Alive(heap) : heap.proxies[p].obj = o /\ heap.proxies[p].own}

(* An object has at most one owner and is deleted once, unless += was       *)
(* called on a second proxy of an iterator that another one owns; one that  *)
(* exists without an owner was disowned, is bare, or is an iterator that    *)
(* a StopIteration has lost; an iterator that iterator() has given the      *)
(* container has a container that exists; and all temporaries are deleted,  *)
(* but the vectors of bad lists.                                            *)
OwnershipIsSound ==
  /\ \A o \in DOMAIN heap.objects :
       LET object == heap.objects[o]
       IN  /\ ~object.reowned => Cardinality(Owners(o)) <= 1 /\ object.deleted <= 1
           /\ ~object.reowned /\ object.deleted > 0 => Owners(o) = {}
           /\ Exists(heap, o) => object.lost \/ Owners(o) # {}
           /\ object.kind = "iterator" /\ Exists(heap, o) /\ object.keeps # Nobody =>
                object.keeps \in Alive(heap) /\ Exists(heap, heap.proxies[object.keeps].obj)
  /\ temporaries = badLists
==============================================================================
