--------------------------- MODULE AnalyzersProofs ---------------------------
(***************************************************************************)
(* Proofs about extractFeat.  Graphlets: both graphs of a function are its *)
(* flow, and from size 4 on the enumeration finds each connected set of    *)
(* blocks once, for every flow graph.  Idioms: the written form loses      *)
(* nothing, for fields of any width.  FeatureAnalyzer: no interleaving of  *)
(* its threads loses a function or lets the two files disagree.            *)
(***************************************************************************)
EXTENDS Graphlets, IdiomFormat, FeatureAnalyzer, Lemmas, FiniteSetTheorems, SequenceTheorems, TLAPS

(* The flow of a function, as the graph has it.                            *)
Inside(c) == { e \in c.edges : e.compound /\ e.src \in 1..c.blocks /\ e.trg \in 1..c.blocks }

(* What func_to_graph has looked at before block b.                        *)
Met(c, b) == { e \in c.edges : e.compound /\ (e.src \in 1..(b - 1) \/ e.trg \in 1..(b - 1)) }

(* A sequence of the elements of a set, each once.                         *)
Lists(E, s, S) == s \in Seq(E) /\ ToSet(s) = S /\ IsFiniteSet(S) /\ Len(s) = Cardinality(S)

GraphBuilt ==
  /\ cfg \in Cfgs /\ size \in Sizes /\ kind \in Kinds
  /\ pc \in {"link", "loop", "enumerate", "made", "done"}
  /\ bit \in 1..(cfg.blocks + 1) /\ seen = 1..(bit - 1)
  /\ IF pc = "link" THEN idx = bit ELSE bit = cfg.blocks + 1
  /\ doneEdges = Met(cfg, bit)
  /\ Lists(cfg.edges, links, Met(cfg, bit) \intersect Inside(cfg))

(* What is counted at a node, of the flow alone.                           *)
From(c, n) == { e.src : e \in { d \in Inside(c) : d.trg = n } } \ {n}
To(c, n) == { e.trg : e \in { d \in Inside(c) : d.src = n } } \ {n}
Pairs(s, n) == { {x[1], x[2], n} : x \in { y \in s \X s : y[1] < y[2] } }
Across(c, n) == SetToSeq({ y \in From(c, n) \X To(c, n) : y[1] # y[2] })

Triples(c, n) ==
  SetToSeq(Pairs(From(c, n), n)) \o SetToSeq(Pairs(To(c, n), n))
    \o [i \in DOMAIN Across(c, n) |-> {Across(c, n)[i][1], Across(c, n)[i][2], n}]

CountedAt(c, z, n) ==
  IF z = 1 THEN <<{n}>> ELSE IF z = 2 THEN SetToSeq({ {a, n} : a \in To(c, n) }) ELSE Triples(c, n)

NumberOf(s, x) == Cardinality({ i \in DOMAIN s : s[i] = x })
CountedTo(c, z, m) == UNION { { <<n, s>> : s \in ToSet(CountedAt(c, z, n)) } : n \in 1..m }
Tally(c, z, m) == [x \in CountedTo(c, z, m) |-> NumberOf(CountedAt(c, z, x[1]), x[2])]

-----------------------------------------------------------------------------
Linking(c, a, b) == \E e \in c.edges : e.compound /\ {e.src, e.trg} = {a, b}
OnePiece(c, s) ==
  \A part \in SUBSET s : part # {} /\ part # s => \E a \in part, b \in s \ part : Linking(c, a, b)
Targets(c, z) == { u \in SUBSET (1..c.blocks) : Cardinality(u) = z /\ OnePiece(c, u) }

Around(c, s) == { e.src : e \in { d \in Inside(c) : d.trg \in s } }
                \union { e.trg : e \in { d \in Inside(c) : d.src \in s } }

(* What the activations below place j have taken in, and have chosen.      *)
Taken(st, j) == { st[i].chosen : i \in { k \in 1..(j - 1) : st[k].at = "included" } }
Chosen(st, j) == { st[i].chosen : i \in { k \in 1..(j - 1) : st[k].at # "call" } }

(* The targets with all of one set and none of another.                    *)
Between(c, z, in, out) == { u \in Targets(c, z) : in \subseteq u /\ u \intersect out = {} }

(* What the activation at place j has still to record.                     *)
PendingAt(c, z, st, j) ==
  LET out == Chosen(st, j) \ Taken(st, j)
  IN IF st[j].at = "call" THEN Between(c, z, Taken(st, j), out)
     ELSE IF st[j].at = "excluded" THEN Between(c, z, Taken(st, j) \union {st[j].chosen}, out)
     ELSE {}

Pending(c, z, st) == UNION { PendingAt(c, z, st, j) : j \in DOMAIN st }

Frame(c) == [at : {"call"}, neighbors : SUBSET (1..c.blocks)]
            \union [at : {"excluded"}, neighbors : SUBSET (1..c.blocks), chosen : 1..c.blocks]
            \union [at : {"included"}, chosen : 1..c.blocks]

FrameSound(c, st, j) ==
  /\ st[j].at = "call" => j = Len(st)
  /\ OnePiece(c, Taken(st, j))
  /\ st[j].at # "included" => st[j].neighbors = Around(c, Taken(st, j))
  /\ st[j].at # "call" => st[j].chosen \notin Chosen(st, j)
  /\ st[j].at = "excluded" => Taken(st, j) = {} \/ st[j].chosen \in Around(c, Taken(st, j))

Bagged(S) == SetToBag({ <<0, u>> : u \in S })

(* The sets that the activations share are given by their stack.           *)
StackSound(c, st, taken, left) ==
  /\ st \in Seq(Frame(c)) /\ \A j \in DOMAIN st : FrameSound(c, st, j)
  /\ taken = Taken(st, Len(st) + 1) /\ left = 1..c.blocks \ Chosen(st, Len(st) + 1)

Enumerating ==
  /\ size > 3 /\ cfg.blocks <= MaxNodes
  /\ StackSound(cfg, stack, cur, notConsidered)
  /\ recorded[kind] = Bagged(Targets(cfg, size) \ Pending(cfg, size, stack))

Wanted(c, z) ==
  IF z <= 3 THEN Tally(c, z, c.blocks)
  ELSE IF c.blocks <= MaxNodes THEN Bagged(Targets(c, z)) ELSE EmptyBag

InOrder ==
  /\ recorded = [t \in Kinds |-> recorded[t]]
  /\ pc = "link" => recorded[kind] = EmptyBag
  /\ pc = "loop" => size <= 3 /\ idx \in 1..(cfg.blocks + 1) /\ recorded[kind] = Tally(cfg, size, idx - 1)
  /\ pc = "enumerate" => Enumerating
  /\ pc \in {"made", "done"} => recorded[kind] = Wanted(cfg, size)
  /\ kind = "B" => recorded["G"] = Wanted(cfg, size)
  /\ kind = "G" => recorded["B"] = EmptyBag
  /\ pc = "done" => kind = "B"

GraphletInv == GraphBuilt /\ InOrder

-----------------------------------------------------------------------------
LEMMA FiniteBlocks ==
  ASSUME NEW c \in Cfgs
  PROVE  c.blocks \in Nat /\ IsFiniteSet(1..c.blocks)
<1>1. c.blocks \in Nat
  BY GraphletsAssumption DEF GraphletsAssumption
<1> QED
  BY <1>1, FS_Interval

LEMMA MetSoFar ==
  ASSUME NEW c \in Cfgs, NEW b \in 1..c.blocks
  PROVE  Met(c, b + 1) = Met(c, b) \union { e \in c.edges : e.compound /\ (e.src = b \/ e.trg = b) }
<1>1. b \in Nat /\ 1..((b + 1) - 1) = 1..(b - 1) \union {b}
  BY GraphletsAssumption DEF GraphletsAssumption
<1> QED
  BY <1>1 DEF Met

LEMMA FiniteFlow ==
  ASSUME NEW c \in Cfgs, NEW S \in SUBSET c.edges
  PROVE  IsFiniteSet(S) /\ Cardinality(S) \in Nat
BY FS_Subset, FS_CardinalityType, GraphletsAssumption DEF GraphletsAssumption

(* Sequences of two sets with nothing in common, one after the other, are  *)
(* of their union, each element once.                                      *)
LEMMA Joined ==
  ASSUME NEW E, NEW s, NEW S, Lists(E, s, S), NEW T \in SUBSET E, IsFiniteSet(T), S \intersect T = {}
  PROVE  Lists(E, s \o SetToSeq(T), S \union T)
<1> DEFINE t == SetToSeq(T)
<1>0. s \in Seq(E) /\ IsFiniteSet(S) /\ ToSet(s) = S /\ Len(s) = Cardinality(S)
  BY DEF Lists
<1>1. t \in Seq(T) /\ ToSet(t) = T /\ t \in [1..Cardinality(T) -> T]
  BY SetAsSequence
<1>2. Cardinality(S) \in Nat /\ Cardinality(T) \in Nat /\ Cardinality({}) = 0
  BY <1>0, FS_CardinalityType, FS_EmptySet
<1> HIDE DEF t
<1>3. t \in Seq(E) /\ Len(t) = Cardinality(T)
  BY <1>1, <1>2, LenProperties
<1>4. s \o t \in Seq(E) /\ Len(s \o t) = Len(s) + Len(t)
      /\ \A i \in 1..(Len(s) + Len(t)) : (s \o t)[i] = IF i <= Len(s) THEN s[i] ELSE t[i - Len(s)]
  BY <1>0, <1>3, ConcatProperties
<1>5. IsFiniteSet(S \union T) /\ Cardinality(S \union T) = Cardinality(S) + Cardinality(T)
  <2>1. IsFiniteSet(S \union T)
        /\ Cardinality(S \union T) = Cardinality(S) + Cardinality(T) - Cardinality(S \intersect T)
    BY <1>0, FS_Union
  <2>2. Cardinality(S \intersect T) = 0
    BY <1>2
  <2> HIDE DEF t
  <2> QED
    BY <1>2, <2>1, <2>2
<1>6. ToSet(s \o t) = S \union T
  <2>1. DOMAIN s = 1..Len(s) /\ DOMAIN t = 1..Len(t) /\ DOMAIN (s \o t) = 1..(Len(s) + Len(t))
        /\ Len(s) \in Nat /\ Len(t) \in Nat
    BY <1>0, <1>3, <1>4, LenProperties
  <2>2. ToSet(s \o t) \subseteq S \union T
    <3> SUFFICES ASSUME NEW i \in 1..(Len(s) + Len(t)) PROVE (s \o t)[i] \in S \union T
      BY <2>1 DEF ToSet
    <3>1. CASE i <= Len(s)
      BY <1>0, <1>4, <2>1, <3>1 DEF ToSet
    <3>2. CASE ~(i <= Len(s))
      <4>1. i - Len(s) \in 1..Len(t)
        BY <2>1, <3>2
      <4> QED
        BY <1>1, <1>4, <2>1, <3>2, <4>1 DEF ToSet
    <3> QED
      BY <3>1, <3>2
  <2>3. S \subseteq ToSet(s \o t)
    <3> SUFFICES ASSUME NEW i \in 1..Len(s) PROVE s[i] \in ToSet(s \o t)
      BY <1>0, <2>1 DEF ToSet
    <3>1. i \in 1..(Len(s) + Len(t)) /\ i <= Len(s)
      BY <2>1
    <3> QED
      BY <1>4, <2>1, <3>1 DEF ToSet
  <2>4. T \subseteq ToSet(s \o t)
    <3> SUFFICES ASSUME NEW i \in 1..Len(t) PROVE t[i] \in ToSet(s \o t)
      BY <1>1, <2>1 DEF ToSet
    <3>1. i + Len(s) \in 1..(Len(s) + Len(t)) /\ ~(i + Len(s) <= Len(s)) /\ (i + Len(s)) - Len(s) = i
      BY <2>1
    <3> QED
      BY <1>4, <2>1, <3>1 DEF ToSet
  <2> QED
    BY <2>2, <2>3, <2>4
<1> QED
  BY <1>0, <1>3, <1>4, <1>5, <1>6 DEF t, Lists

(* A block is linked to the other ends of its edges, each of which is met  *)
(* for the first time.                                                     *)
LEMMA BlockLinked ==
  ASSUME NEW c \in Cfgs, NEW b \in 1..c.blocks, NEW l, Lists(c.edges, l, Met(c, b) \intersect Inside(c)),
         NEW S, S = { e \in c.edges : e.compound /\ e.trg = b } \ Met(c, b),
         NEW T, T = { e \in c.edges : e.compound /\ e.src = b } \ (Met(c, b) \union S)
  PROVE  Lists(c.edges, (l \o SetToSeq(S \intersect Inside(c))) \o SetToSeq(T \intersect Inside(c)),
               Met(c, b + 1) \intersect Inside(c))
<1> DEFINE M == Met(c, b) \intersect Inside(c)
           U == S \intersect Inside(c)
           V == T \intersect Inside(c)
<1>1. M \in SUBSET c.edges /\ U \in SUBSET c.edges /\ V \in SUBSET c.edges
      /\ M \intersect U = {} /\ (M \union U) \intersect V = {}
  BY DEF Met
<1>2. (M \union U) \union V = Met(c, b + 1) \intersect Inside(c)
  BY MetSoFar
<1>3. IsFiniteSet(U) /\ IsFiniteSet(V)
  BY <1>1, FiniteFlow
<1> HIDE DEF M, U, V
<1>4. Lists(c.edges, l \o SetToSeq(U), M \union U)
  BY <1>1, <1>3, Joined DEF M
<1>5. Lists(c.edges, (l \o SetToSeq(U)) \o SetToSeq(V), (M \union U) \union V)
  BY <1>1, <1>3, <1>4, Joined
<1> QED
  BY <1>2, <1>5 DEF U, V

LEMMA NothingMet ==
  ASSUME NEW c \in Cfgs
  PROVE  Met(c, 1) = {} /\ Lists(c.edges, <<>>, Met(c, 1) \intersect Inside(c))
<1>1. Met(c, 1) = {}
  BY DEF Met
<1>2. ToSet(<<>>) = {} /\ IsFiniteSet({}) /\ Cardinality({}) = 0 /\ Len(<<>>) = 0 /\ <<>> \in Seq(c.edges)
  BY FS_EmptySet, EmptySeq DEF ToSet
<1>3. Met(c, 1) \intersect Inside(c) = {}
  BY <1>1
<1> HIDE DEF Lists
<1> QED
  BY <1>1, <1>2, <1>3 DEF Lists

LEMMA GraphStarts ==
  ASSUME GraphletInit
  PROVE  GraphBuilt
<1>1. cfg.blocks \in Nat /\ 1 \in 1..(cfg.blocks + 1) /\ 1..(1 - 1) = {}
  BY GraphletsAssumption DEF GraphletsAssumption, GraphletInit
<1>2. cfg \in Cfgs /\ Met(cfg, 1) = {} /\ Lists(cfg.edges, <<>>, Met(cfg, 1) \intersect Inside(cfg))
  BY NothingMet DEF GraphletInit
<1> QED
  BY <1>1, <1>2 DEF GraphletInit, GraphBuilt, Kinds

LEMMA LinkKeepsGraph ==
  ASSUME GraphBuilt, LinkBlock
  PROVE  GraphBuilt'
<1> DEFINE S == { e \in cfg.edges : e.compound /\ e.trg = bit } \ doneEdges
           T == { e \in cfg.edges : e.compound /\ e.src = bit } \ (doneEdges \union S)
<1>1. /\ cfg \in Cfgs /\ cfg.blocks \in Nat /\ bit \in 1..cfg.blocks /\ bit \notin seen /\ idx = bit
      /\ cfg' = cfg /\ bit' = bit + 1 /\ seen' = 1..bit /\ idx' = bit + 1 /\ pc = "link" /\ pc' = pc
      /\ size' = size /\ kind' = kind
  <2>1. cfg.blocks \in Nat
    BY GraphletsAssumption DEF GraphletsAssumption, GraphBuilt
  <2>2. bit \in 1..cfg.blocks /\ idx = bit /\ seen = 1..(bit - 1) /\ pc = "link"
    BY DEF GraphBuilt, LinkBlock, NextBlock, Blocks
  <2>3. bit \notin seen /\ seen \union {bit} = 1..bit
    BY <2>1, <2>2
  <2> QED
    BY <2>1, <2>2, <2>3 DEF GraphBuilt, LinkBlock, NextBlock
<1>2. links' = links \o Linked(S, T) /\ doneEdges' = doneEdges \union S \union T
  BY <1>1 DEF LinkBlock
<1>3. \A e \in cfg.edges : e.trg = idx => [e EXCEPT !.trg = idx] = e
  BY <1>1, GraphletsAssumption DEF GraphletsAssumption
<1>4. \A e \in cfg.edges : e.src = idx => [e EXCEPT !.src = idx] = e
  BY <1>1, GraphletsAssumption DEF GraphletsAssumption
<1>5. { [e EXCEPT !.trg = idx] : e \in { d \in S : InFunction(d) } } = S \intersect Inside(cfg)
  BY <1>1, <1>3 DEF InFunction, Inside, Blocks
<1>6. { [e EXCEPT !.src = idx] : e \in { d \in T : InFunction(d) } } = T \intersect Inside(cfg)
  BY <1>1, <1>4 DEF InFunction, Inside, Blocks
<1>7. /\ S = { e \in cfg.edges : e.compound /\ e.trg = bit } \ Met(cfg, bit)
      /\ T = { e \in cfg.edges : e.compound /\ e.src = bit } \ (Met(cfg, bit) \union S)
  BY DEF GraphBuilt
<1>8. doneEdges \union S \union T = Met(cfg, bit + 1)
  BY <1>1, <1>7, MetSoFar DEF GraphBuilt
<1>9. links' = links \o (SetToSeq(S \intersect Inside(cfg)) \o SetToSeq(T \intersect Inside(cfg)))
  BY <1>2, <1>5, <1>6 DEF Linked
<1> HIDE DEF S, T
<1>10. Lists(cfg.edges, (links \o SetToSeq(S \intersect Inside(cfg))) \o SetToSeq(T \intersect Inside(cfg)),
             Met(cfg, bit + 1) \intersect Inside(cfg))
  BY <1>1, <1>7, BlockLinked DEF GraphBuilt
<1>11. links' = (links \o SetToSeq(S \intersect Inside(cfg))) \o SetToSeq(T \intersect Inside(cfg))
  <2> DEFINE E == cfg.edges
             u == S \intersect Inside(cfg)
             v == T \intersect Inside(cfg)
  <2>1. links \in Seq(E) /\ u \in SUBSET E /\ v \in SUBSET E /\ IsFiniteSet(u) /\ IsFiniteSet(v)
    BY <1>1, FiniteFlow DEF GraphBuilt, Lists, Inside
  <2>2. links' = links \o (SetToSeq(u) \o SetToSeq(v))
    BY <1>9
  <2> HIDE DEF E, u, v
  <2>3. SetToSeq(u) \in Seq(E) /\ SetToSeq(v) \in Seq(E)
    BY <2>1, SetAsSequence
  <2>4. links \o (SetToSeq(u) \o SetToSeq(v)) = (links \o SetToSeq(u)) \o SetToSeq(v)
    BY <2>1, <2>3
  <2> QED
    BY <2>2, <2>4 DEF u, v
<1>12. bit + 1 \in 1..(cfg.blocks + 1) /\ 1..bit = 1..((bit + 1) - 1)
  BY <1>1
<1> QED
  BY <1>1, <1>2, <1>8, <1>10, <1>11, <1>12 DEF GraphBuilt

(* The other steps leave the graph as it is, or start the second one.      *)
LEMMA GraphKept ==
  ASSUME GraphBuilt, [GraphletNext]_graphletVars
  PROVE  GraphBuilt'
<1>1. CASE LinkBlock
  BY <1>1, LinkKeepsGraph
<1>2. CASE SelectAlgorithm
  <2>1. bit = cfg.blocks + 1
    <3>1. cfg.blocks \in Nat
      BY GraphletsAssumption DEF GraphletsAssumption, GraphBuilt
    <3> QED
      BY <1>2, <3>1 DEF SelectAlgorithm, GraphBuilt
  <2> QED
    BY <1>2, <2>1 DEF SelectAlgorithm, GraphBuilt, graphVars
<1>3. CASE NodeOfOne \/ NodeOfTwo \/ NodeOfThree
  BY <1>3 DEF NodeOfOne, NodeOfTwo, NodeOfThree, AtNode, NextNode, graphVars, GraphBuilt
<1>4. CASE LoopEnd
  BY <1>4 DEF LoopEnd, graphVars, GraphBuilt
<1>5. CASE EnumRecord \/ EnumPrune \/ EnumExclude \/ EnumInclude \/ EnumPutBack
  BY <1>5 DEF EnumRecord, EnumPrune, EnumExclude, EnumInclude, EnumPutBack, EnumUnchanged, graphVars, GraphBuilt
<1>6. CASE EnumEnd
  BY <1>6 DEF EnumEnd, EnumUnchanged, graphVars, GraphBuilt
<1>7. CASE SecondGraph
  <2>1. cfg \in Cfgs /\ cfg.blocks \in Nat /\ 1 \in 1..(cfg.blocks + 1) /\ 1..(1 - 1) = {}
    BY GraphletsAssumption DEF GraphletsAssumption, GraphBuilt
  <2>2. Met(cfg, 1) = {} /\ Lists(cfg.edges, <<>>, Met(cfg, 1) \intersect Inside(cfg))
    BY <2>1, NothingMet
  <2> QED
    BY <1>7, <2>1, <2>2 DEF SecondGraph, GraphBuilt, Kinds
<1>8. CASE Represent
  BY <1>8 DEF Represent, graphVars, GraphBuilt
<1>9. CASE GraphletDone \/ UNCHANGED graphletVars
  BY <1>9 DEF GraphletDone, graphletVars, graphVars, GraphBuilt
<1> QED
  BY <1>1, <1>2, <1>3, <1>4, <1>5, <1>6, <1>7, <1>8, <1>9 DEF GraphletNext

(* The edges of the graph, when it is built.                               *)
LEMMA GraphIsFlow ==
  ASSUME GraphBuilt, pc # "link"
  PROVE  /\ cfg \in Cfgs /\ cfg.blocks \in Nat /\ Lists(cfg.edges, links, Inside(cfg))
<1>1. cfg \in Cfgs /\ cfg.blocks \in Nat /\ bit = cfg.blocks + 1
  BY GraphletsAssumption DEF GraphletsAssumption, GraphBuilt
<1>2. Met(cfg, bit) \intersect Inside(cfg) = Inside(cfg)
  BY <1>1 DEF Met, Inside
<1> QED
  BY <1>1, <1>2 DEF GraphBuilt

(* An edge inside the function is met twice, at its source and at its      *)
(* target, and linked once, by done_edges; a self loop is met twice at one *)
(* block.                                                                  *)
THEOREM LinkedOnce == GraphletSpec => []EachEdgeLinkedOnce
<1>1. GraphletInit => GraphBuilt
  BY GraphStarts
<1>2. GraphBuilt /\ [GraphletNext]_graphletVars => GraphBuilt'
  BY GraphKept
<1>3. GraphBuilt => EachEdgeLinkedOnce
  <2> SUFFICES ASSUME GraphBuilt, pc # "link" PROVE EachEdgeLinkedOnce
    BY DEF EachEdgeLinkedOnce
  <2>1. Lists(cfg.edges, links, Inside(cfg))
    BY GraphIsFlow
  <2>2. { e \in cfg.edges : e.compound /\ InFunction(e) } = Inside(cfg)
    BY DEF InFunction, Inside, Blocks
  <2> QED
    BY <2>1, <2>2 DEF EachEdgeLinkedOnce, Lists
<1> QED
  BY <1>1, <1>2, <1>3, PTL DEF GraphletSpec

-----------------------------------------------------------------------------
(* What an activation has to record depends on those below it only.        *)
LEMMA SameBelow ==
  ASSUME NEW st, NEW tt, NEW j \in Nat \ {0}, \A i \in 1..(j - 1) : st[i] = tt[i]
  PROVE  Taken(st, j) = Taken(tt, j) /\ Chosen(st, j) = Chosen(tt, j)
<1>1. Taken(st, j) = Taken(tt, j)
  BY DEF Taken
<1>2. Chosen(st, j) = Chosen(tt, j)
  BY DEF Chosen
<1> QED
  BY <1>1, <1>2

LEMMA SameFrame ==
  ASSUME NEW c, NEW z, NEW st, NEW tt, NEW j \in Nat \ {0}, \A i \in 1..j : st[i] = tt[i]
  PROVE  /\ PendingAt(c, z, st, j) = PendingAt(c, z, tt, j)
         /\ tt[j].at # "call" /\ FrameSound(c, st, j) => FrameSound(c, tt, j)
<1>1. Taken(st, j) = Taken(tt, j) /\ Chosen(st, j) = Chosen(tt, j)
  BY SameBelow
<1>2. st[j] = tt[j]
  OBVIOUS
<1> QED
  BY <1>1, <1>2 DEF PendingAt, FrameSound

LEMMA NextPlace ==
  ASSUME NEW st, NEW j \in Nat \ {0}
  PROVE  /\ st[j].at = "call" => Taken(st, j + 1) = Taken(st, j) /\ Chosen(st, j + 1) = Chosen(st, j)
         /\ st[j].at = "excluded" =>
              Taken(st, j + 1) = Taken(st, j) /\ Chosen(st, j + 1) = Chosen(st, j) \union {st[j].chosen}
         /\ st[j].at = "included" =>
              /\ Taken(st, j + 1) = Taken(st, j) \union {st[j].chosen}
              /\ Chosen(st, j + 1) = Chosen(st, j) \union {st[j].chosen}
<1>1. 1..((j + 1) - 1) = 1..(j - 1) \union {j}
  OBVIOUS
<1>2. Taken(st, j + 1) = Taken(st, j) \union (IF st[j].at = "included" THEN {st[j].chosen} ELSE {})
  BY <1>1 DEF Taken
<1>3. Chosen(st, j + 1) = Chosen(st, j) \union (IF st[j].at = "call" THEN {} ELSE {st[j].chosen})
  BY <1>1 DEF Chosen
<1> QED
  BY <1>2, <1>3

(* The innermost activation returns.                                       *)
InnermostOver(c, z, st, n, tt) ==
  /\ n \in Nat \ {0} /\ tt \in Seq(Frame(c)) /\ Len(tt) = n - 1
  /\ \A i \in 1..(n - 1) : tt[i] = st[i] /\ st[i].at # "call" /\ FrameSound(c, tt, i)
  /\ st[n] \in Frame(c) /\ FrameSound(c, st, n)
  /\ Taken(tt, n) = Taken(st, n) /\ Chosen(tt, n) = Chosen(st, n)
  /\ Pending(c, z, st) = Pending(c, z, tt) \union PendingAt(c, z, st, n)

LEMMA Popped ==
  ASSUME NEW c, NEW z, NEW st, NEW taken, NEW left, StackSound(c, st, taken, left), st # <<>>
  PROVE  InnermostOver(c, z, st, Len(st), SubSeq(st, 1, Len(st) - 1))
<1> DEFINE n == Len(st)
           tt == SubSeq(st, 1, n - 1)
<1>1. st \in Seq(Frame(c)) /\ \A i \in DOMAIN st : FrameSound(c, st, i)
  BY DEF StackSound
<1>2. n \in Nat \ {0} /\ DOMAIN st = 1..n /\ \A i \in 1..n : st[i] \in Frame(c)
  BY <1>1, EmptySeq, LenProperties
<1>3. tt \in Seq(Frame(c)) /\ Len(tt) = n - 1 /\ \A i \in 1..(n - 1) : tt[i] = st[i]
  BY <1>1, <1>2
<1> HIDE DEF n, tt
<1>4. DOMAIN tt = 1..(n - 1)
  BY <1>3, LenProperties
<1>5. \A i \in 1..(n - 1) : st[i].at # "call" /\ i \in Nat \ {0} /\ i \in 1..n
  BY <1>1, <1>2 DEF FrameSound
<1>6. ASSUME NEW i \in 1..(n - 1)
      PROVE  FrameSound(c, tt, i) /\ PendingAt(c, z, tt, i) = PendingAt(c, z, st, i)
  <2>1. \A k \in 1..i : st[k] = tt[k]
    BY <1>2, <1>3
  <2>2. FrameSound(c, st, i) /\ tt[i].at # "call" /\ i \in Nat \ {0}
    BY <1>1, <1>2, <1>3, <1>5
  <2> QED
    BY <2>1, <2>2, SameFrame
<1>7. Taken(tt, n) = Taken(st, n) /\ Chosen(tt, n) = Chosen(st, n)
  BY <1>2, <1>3, SameBelow
<1>8. Pending(c, z, st) = Pending(c, z, tt) \union PendingAt(c, z, st, n)
  <2>1. 1..n = 1..(n - 1) \union {n}
    BY <1>2
  <2> QED
    BY <2>1, <1>2, <1>4, <1>6 DEF Pending
<1>9. st[n] \in Frame(c) /\ FrameSound(c, st, n)
  BY <1>1, <1>2
<1> HIDE DEF Pending
<1>10. InnermostOver(c, z, st, n, tt)
  BY <1>2, <1>3, <1>5, <1>6, <1>7, <1>8, <1>9 DEF InnermostOver
<1> QED
  BY <1>10 DEF n, tt

(* The innermost activation calls.                                         *)
CalledOver(c, z, st, n, below, f, g, tt) ==
  /\ n \in Nat \ {0} /\ tt \in Seq(Frame(c)) /\ Len(tt) = n + 1
  /\ \A i \in 1..(n - 1) : FrameSound(c, tt, i)
  /\ st[n] \in Frame(c) /\ FrameSound(c, st, n) /\ tt[n] = f /\ tt[n + 1] = g
  /\ Taken(tt, n) = Taken(st, n) /\ Chosen(tt, n) = Chosen(st, n)
  /\ Pending(c, z, st) = Pending(c, z, below) \union PendingAt(c, z, st, n)
  /\ Pending(c, z, tt) = (Pending(c, z, below) \union PendingAt(c, z, tt, n)) \union PendingAt(c, z, tt, n + 1)

LEMMA Pushed ==
  ASSUME NEW c, NEW z, NEW st, NEW n, NEW below, InnermostOver(c, z, st, n, below),
         NEW f \in Frame(c), NEW g \in Frame(c), f.at # "call", NEW tt, tt = Append(Append(below, f), g)
  PROVE  CalledOver(c, z, st, n, below, f, g, tt)
<1>1. /\ n \in Nat \ {0} /\ below \in Seq(Frame(c)) /\ Len(below) = n - 1
      /\ \A i \in 1..(n - 1) : below[i] = st[i] /\ st[i].at # "call" /\ FrameSound(c, below, i)
      /\ st[n] \in Frame(c) /\ FrameSound(c, st, n)
      /\ Taken(below, n) = Taken(st, n) /\ Chosen(below, n) = Chosen(st, n)
  BY DEF InnermostOver
<1>2. \A i \in 1..(n - 1) : below[i].at # "call"
  BY <1>1
<1>3. /\ tt \in Seq(Frame(c)) /\ Len(tt) = n + 1 /\ tt[n] = f /\ tt[n + 1] = g
      /\ \A i \in 1..(n - 1) : tt[i] = below[i]
  <2> DEFINE mid == Append(below, f)
  <2>1. mid \in Seq(Frame(c)) /\ Len(mid) = n /\ mid[n] = f /\ \A i \in 1..(n - 1) : mid[i] = below[i]
    BY <1>1, AppendProperties
  <2> HIDE DEF mid
  <2>2. tt = Append(mid, g)
    BY DEF mid
  <2>3. /\ Append(mid, g) \in Seq(Frame(c)) /\ Len(Append(mid, g)) = n + 1 /\ Append(mid, g)[n + 1] = g
        /\ \A i \in 1..n : Append(mid, g)[i] = mid[i]
    BY <1>1, <2>1, AppendProperties
  <2>4. \A i \in 1..(n - 1) : i \in 1..n
    BY <1>1
  <2>5. n \in 1..n
    BY <1>1
  <2>6. tt \in Seq(Frame(c)) /\ Len(tt) = n + 1 /\ tt[n + 1] = g /\ \A i \in 1..n : tt[i] = mid[i]
    BY <2>2, <2>3
  <2> QED
    BY <2>1, <2>4, <2>5, <2>6
<1>4. ASSUME NEW i \in 1..(n - 1)
      PROVE  FrameSound(c, tt, i) /\ PendingAt(c, z, tt, i) = PendingAt(c, z, below, i)
  <2>1. \A k \in 1..i : below[k] = tt[k]
    BY <1>1, <1>3
  <2>2. FrameSound(c, below, i) /\ tt[i].at # "call" /\ i \in Nat \ {0}
    BY <1>1, <1>2, <1>3
  <2> QED
    BY <2>1, <2>2, SameFrame
<1>5. Taken(tt, n) = Taken(st, n) /\ Chosen(tt, n) = Chosen(st, n)
  <2>1. n \in Nat \ {0} /\ \A i \in 1..(n - 1) : tt[i] = below[i]
    BY <1>1, <1>3
  <2>2. Taken(tt, n) = Taken(below, n) /\ Chosen(tt, n) = Chosen(below, n)
    BY <2>1, SameBelow
  <2> QED
    BY <1>1, <2>2
<1>6. Pending(c, z, tt) = (Pending(c, z, below) \union PendingAt(c, z, tt, n)) \union PendingAt(c, z, tt, n + 1)
  <2>1. DOMAIN below = 1..(n - 1) /\ DOMAIN tt = 1..(n + 1) /\ 1..(n + 1) = (1..(n - 1) \union {n}) \union {n + 1}
    BY <1>1, <1>3, LenProperties
  <2>2. \A i \in 1..(n - 1) : PendingAt(c, z, tt, i) = PendingAt(c, z, below, i)
    BY <1>4
  <2> QED
    BY <2>1, <2>2 DEF Pending
<1>7. Pending(c, z, st) = Pending(c, z, below) \union PendingAt(c, z, st, n)
  BY DEF InnermostOver
<1> HIDE DEF Pending
<1> QED
  BY <1>1, <1>3, <1>4, <1>5, <1>6, <1>7 DEF CalledOver

LEMMA TakenIsChosen ==
  ASSUME NEW st, NEW j
  PROVE  Taken(st, j) \subseteq Chosen(st, j)
BY DEF Taken, Chosen

(* An activation that has nothing more to do.                              *)
LEMMA ReturnSound ==
  ASSUME NEW c, NEW z, NEW st, NEW taken, NEW left, StackSound(c, st, taken, left),
         NEW n, n = Len(st), NEW below, InnermostOver(c, z, st, n, below), st[n].at \in {"call", "included"}
  PROVE  /\ st[n].at = "call" => StackSound(c, below, taken, left)
         /\ st[n].at = "included" => StackSound(c, below, taken \ {st[n].chosen}, left \union {st[n].chosen})
<1>2. n \in Nat \ {0} /\ taken = Taken(st, n + 1) /\ left = 1..c.blocks \ Chosen(st, n + 1)
  BY DEF StackSound, InnermostOver
<1>3. /\ st[n].at = "call" => taken = Taken(st, n) /\ left = 1..c.blocks \ Chosen(st, n)
      /\ st[n].at = "included" =>
           taken = Taken(st, n) \union {st[n].chosen} /\ left = 1..c.blocks \ (Chosen(st, n) \union {st[n].chosen})
  BY <1>2, NextPlace
<1>4. /\ below \in Seq(Frame(c)) /\ \A j \in DOMAIN below : FrameSound(c, below, j)
      /\ Len(below) + 1 = n /\ Taken(below, n) = Taken(st, n) /\ Chosen(below, n) = Chosen(st, n)
  BY LenProperties DEF InnermostOver
<1>5. st[n].at = "included" => st[n].chosen \in 1..c.blocks /\ st[n].chosen \notin Chosen(st, n)
  BY DEF InnermostOver, FrameSound, Frame
<1>6. Taken(st, n) \subseteq Chosen(st, n)
  BY TakenIsChosen
<1>7. st[n].at = "included" =>
        taken \ {st[n].chosen} = Taken(st, n) /\ left \union {st[n].chosen} = 1..c.blocks \ Chosen(st, n)
  BY <1>3, <1>5, <1>6
<1>8. st[n].at = "call" => taken = Taken(st, n) /\ left = 1..c.blocks \ Chosen(st, n)
  BY <1>3
<1> QED
  BY <1>4, <1>7, <1>8 DEF StackSound

(* What the innermost activation has been given, by what it is at.         *)
LEMMA InnermostSets ==
  ASSUME NEW c, NEW st, NEW taken, NEW left, StackSound(c, st, taken, left),
         NEW n \in Nat \ {0}, n = Len(st)
  PROVE  /\ st[n].at = "call" => taken = Taken(st, n) /\ left = 1..c.blocks \ Chosen(st, n)
         /\ st[n].at = "excluded" => taken = Taken(st, n) /\ left = 1..c.blocks \ (Chosen(st, n) \union {st[n].chosen})
<1>1. taken = Taken(st, n + 1) /\ left = 1..c.blocks \ Chosen(st, n + 1)
  BY DEF StackSound
<1> QED
  BY <1>1, NextPlace

(* Both frames of a call are sound, if the sets passed on are.             *)
LEMMA CallSound ==
  ASSUME NEW c, NEW z, NEW st, NEW n, NEW below, NEW f, NEW g, NEW tt, CalledOver(c, z, st, n, below, f, g, tt),
         FrameSound(c, tt, n), FrameSound(c, tt, n + 1), g.at = "call",
         NEW taken, taken = Taken(tt, n + 1), NEW left, left = 1..c.blocks \ Chosen(tt, n + 1)
  PROVE  StackSound(c, tt, taken, left)
<1>1. n + 1 \in Nat \ {0} /\ tt[n + 1].at = "call" /\ tt \in Seq(Frame(c)) /\ Len(tt) = n + 1
  BY DEF CalledOver
<1>2. Taken(tt, (n + 1) + 1) = taken /\ Chosen(tt, (n + 1) + 1) = Chosen(tt, n + 1)
  <2> DEFINE m == n + 1
  <2>1. m \in Nat \ {0} /\ tt[m].at = "call" /\ Taken(tt, m) = taken /\ Chosen(tt, n + 1) = Chosen(tt, m)
    BY <1>1
  <2> HIDE DEF m
  <2>2. Taken(tt, m + 1) = taken /\ Chosen(tt, m + 1) = Chosen(tt, m)
    BY <2>1, NextPlace
  <2> QED
    BY <2>1, <2>2 DEF m
<1>3. \A j \in DOMAIN tt : FrameSound(c, tt, j)
  <2>1. DOMAIN tt = 1..(n + 1) /\ n \in Nat /\ \A i \in 1..(n - 1) : FrameSound(c, tt, i)
    BY <1>1, LenProperties DEF CalledOver
  <2>2. \A j \in 1..(n + 1) : j \in 1..(n - 1) \/ j = n \/ j = n + 1
    BY <2>1
  <2> QED
    BY <2>1, <2>2
<1> QED
  BY <1>1, <1>2, <1>3 DEF StackSound

(* The sets that an activation was to record are those without the block   *)
(* it has chosen and those with it.                                        *)
Excludes(st, n, taken, left, v, f, g) ==
  /\ n = Len(st) /\ st[n].at = "call" /\ v \in left /\ (taken = {} \/ v \in st[n].neighbors)
  /\ f.at = "excluded" /\ f.neighbors = st[n].neighbors /\ f.chosen = v
  /\ g.at = "call" /\ g.neighbors = st[n].neighbors

LEMMA ExcludeSound ==
  ASSUME NEW c, NEW z, NEW st, NEW taken, NEW left, StackSound(c, st, taken, left),
         NEW n, NEW below, NEW f, NEW g, NEW tt, CalledOver(c, z, st, n, below, f, g, tt),
         NEW v, Excludes(st, n, taken, left, v, f, g)
  PROVE  StackSound(c, tt, taken, left \ {v}) /\ Pending(c, z, tt) = Pending(c, z, st)
<1>0. /\ n = Len(st) /\ st[n].at = "call" /\ v \in left /\ (taken = {} \/ v \in st[n].neighbors)
      /\ f.at = "excluded" /\ f.neighbors = st[n].neighbors /\ f.chosen = v
      /\ g.at = "call" /\ g.neighbors = st[n].neighbors
  BY DEF Excludes
<1> USE <1>0
<1>1. /\ n \in Nat \ {0} /\ FrameSound(c, st, n) /\ tt[n] = f /\ tt[n + 1] = g /\ Len(tt) = n + 1
      /\ Taken(tt, n) = Taken(st, n) /\ Chosen(tt, n) = Chosen(st, n)
  BY DEF CalledOver
<1>2. taken = Taken(st, n) /\ left = 1..c.blocks \ Chosen(st, n)
  BY <1>1, InnermostSets
<1>3. Taken(tt, n + 1) = taken /\ Chosen(tt, n + 1) = Chosen(st, n) \union {v}
  BY <1>1, <1>2, NextPlace
<1>4. FrameSound(c, tt, n)
  BY <1>1, <1>2 DEF FrameSound
<1>5. FrameSound(c, tt, n + 1)
  BY <1>1, <1>2, <1>3 DEF FrameSound
<1>6. StackSound(c, tt, taken, left \ {v})
  <2>1. taken = Taken(tt, n + 1) /\ left \ {v} = 1..c.blocks \ Chosen(tt, n + 1)
    BY <1>2, <1>3
  <2> QED
    BY <2>1, <1>4, <1>5, CallSound
<1>7. PendingAt(c, z, tt, n) \union PendingAt(c, z, tt, n + 1) = PendingAt(c, z, st, n)
  <2> DEFINE out == Chosen(st, n) \ taken
  <2>1. PendingAt(c, z, st, n) = Between(c, z, taken, out)
    BY <1>2 DEF PendingAt
  <2>2. PendingAt(c, z, tt, n) = Between(c, z, taken \union {v}, out)
    BY <1>1, <1>2 DEF PendingAt
  <2>3. (Chosen(st, n) \union {v}) \ taken = out \union {v}
    BY <1>2, TakenIsChosen
  <2>4. PendingAt(c, z, tt, n + 1) = Between(c, z, taken, out \union {v})
    BY <1>1, <1>3, <2>3 DEF PendingAt
  <2> QED
    BY <2>1, <2>2, <2>4 DEF Between
<1> QED
  <2>1. /\ Pending(c, z, st) = Pending(c, z, below) \union PendingAt(c, z, st, n)
        /\ Pending(c, z, tt) = (Pending(c, z, below) \union PendingAt(c, z, tt, n)) \union PendingAt(c, z, tt, n + 1)
    BY DEF CalledOver
  <2> HIDE DEF Pending
  <2> QED
    BY <2>1, <1>6, <1>7

(* A connected set and a block next to it are connected.                   *)
LEMMA Grows ==
  ASSUME NEW c, NEW s, OnePiece(c, s), NEW v, v \notin s, s = {} \/ v \in Around(c, s)
  PROVE  OnePiece(c, s \union {v})
<1> SUFFICES ASSUME NEW part \in SUBSET (s \union {v}), part # {}, part # s \union {v}
             PROVE  \E a \in part, b \in (s \union {v}) \ part : Linking(c, a, b)
  BY DEF OnePiece
<1>1. \A a, b : Linking(c, a, b) <=> Linking(c, b, a)
  BY DEF Linking
<1>2. s # {}
  OBVIOUS
<1>3. PICK u \in s : Linking(c, v, u)
  <2>1. PICK e \in Inside(c) : (e.src = v /\ e.trg \in s) \/ (e.trg = v /\ e.src \in s)
    BY <1>2 DEF Around
  <2> QED
    BY <2>1 DEF Linking, Inside
<1>4. CASE part \intersect s = {}
  BY <1>3, <1>4
<1>5. CASE part \intersect s = s
  BY <1>1, <1>3, <1>5
<1>6. CASE part \intersect s # {} /\ part \intersect s # s
  <2>1. PICK a \in part \intersect s, b \in s \ (part \intersect s) : Linking(c, a, b)
    BY <1>6 DEF OnePiece
  <2> QED
    BY <2>1
<1> QED
  BY <1>4, <1>5, <1>6

Includes(c, st, n, v, f, g) ==
  /\ n = Len(st) /\ st[n].at = "excluded" /\ v = st[n].chosen /\ f.at = "included" /\ f.chosen = v
  /\ g.at = "call" /\ g.neighbors = st[n].neighbors \union Around(c, {v})

LEMMA IncludeSound ==
  ASSUME NEW c, NEW z, NEW st, NEW taken, NEW left, StackSound(c, st, taken, left),
         NEW n, NEW below, NEW f, NEW g, NEW tt, CalledOver(c, z, st, n, below, f, g, tt),
         NEW v, Includes(c, st, n, v, f, g)
  PROVE  StackSound(c, tt, taken \union {v}, left) /\ Pending(c, z, tt) = Pending(c, z, st)
<1>0. /\ n = Len(st) /\ st[n].at = "excluded" /\ v = st[n].chosen /\ f.at = "included" /\ f.chosen = v
      /\ g.at = "call" /\ g.neighbors = st[n].neighbors \union Around(c, {v})
  BY DEF Includes
<1> USE <1>0
<1>1. /\ n \in Nat \ {0} /\ FrameSound(c, st, n) /\ tt[n] = f /\ tt[n + 1] = g /\ Len(tt) = n + 1
      /\ Taken(tt, n) = Taken(st, n) /\ Chosen(tt, n) = Chosen(st, n)
  BY DEF CalledOver
<1>2. taken = Taken(st, n) /\ left = 1..c.blocks \ (Chosen(st, n) \union {v})
  BY <1>1, InnermostSets
<1>3. Taken(tt, n + 1) = taken \union {v} /\ Chosen(tt, n + 1) = Chosen(st, n) \union {v}
  <2>1. tt[n].at = "included" /\ tt[n].chosen = v
    BY <1>1
  <2>2. Taken(tt, n + 1) = Taken(tt, n) \union {tt[n].chosen} /\ Chosen(tt, n + 1) = Chosen(tt, n) \union {tt[n].chosen}
    BY <2>1, <1>1, NextPlace
  <2> QED
    BY <1>1, <1>2, <2>1, <2>2
<1>4. /\ OnePiece(c, taken) /\ v \notin Chosen(st, n) /\ st[n].neighbors = Around(c, taken)
      /\ taken = {} \/ v \in Around(c, taken)
  BY <1>1, <1>2 DEF FrameSound
<1>5. taken \subseteq Chosen(st, n)
  BY <1>2, TakenIsChosen
<1>6. OnePiece(c, taken \union {v})
  BY <1>4, <1>5, Grows
<1>7. Around(c, taken \union {v}) = Around(c, taken) \union Around(c, {v})
  BY DEF Around
<1>8. FrameSound(c, tt, n)
  BY <1>1, <1>2, <1>4 DEF FrameSound
<1>9. FrameSound(c, tt, n + 1)
  BY <1>1, <1>3, <1>4, <1>6, <1>7 DEF FrameSound
<1>10. StackSound(c, tt, taken \union {v}, left)
  <2>1. taken \union {v} = Taken(tt, n + 1) /\ left = 1..c.blocks \ Chosen(tt, n + 1)
    BY <1>2, <1>3
  <2> QED
    BY <2>1, <1>8, <1>9, CallSound
<1>11. PendingAt(c, z, tt, n) \union PendingAt(c, z, tt, n + 1) = PendingAt(c, z, st, n)
  <2>1. PendingAt(c, z, st, n) = Between(c, z, taken \union {v}, Chosen(st, n) \ taken)
    BY <1>2 DEF PendingAt
  <2>2. PendingAt(c, z, tt, n) = {}
    BY <1>1 DEF PendingAt
  <2>3. (Chosen(st, n) \union {v}) \ (taken \union {v}) = Chosen(st, n) \ taken
    BY <1>4
  <2>4. PendingAt(c, z, tt, n + 1) = Between(c, z, taken \union {v}, Chosen(st, n) \ taken)
    BY <1>1, <1>3, <2>3 DEF PendingAt
  <2> QED
    BY <2>1, <2>2, <2>4
<1> QED
  <2>1. /\ Pending(c, z, st) = Pending(c, z, below) \union PendingAt(c, z, st, n)
        /\ Pending(c, z, tt) = (Pending(c, z, below) \union PendingAt(c, z, tt, n)) \union PendingAt(c, z, tt, n + 1)
    BY DEF CalledOver
  <2> HIDE DEF Pending
  <2> QED
    BY <2>1, <1>10, <1>11

(* Nothing is to be recorded by an activation that has too few blocks      *)
(* left, or none next to those taken in.                                   *)
LEMMA PruneSound ==
  ASSUME NEW c \in Cfgs, NEW z \in Nat, z > 0, NEW st, NEW n, FrameSound(c, st, n), st[n].at = "call",
         NEW taken, taken = Taken(st, n), NEW left, left = 1..c.blocks \ Chosen(st, n),
         taken \subseteq 1..c.blocks, Cardinality(taken) # z,
         \/ Cardinality(taken) + Cardinality(left) < z
         \/ (IF taken = {} THEN left ELSE left \intersect st[n].neighbors) = {}
  PROVE  PendingAt(c, z, st, n) = {}
<1> DEFINE out == Chosen(st, n) \ taken
<1> SUFFICES ASSUME NEW u \in Between(c, z, taken, out) PROVE FALSE
  BY DEF PendingAt
<1>1. u \in SUBSET (1..c.blocks) /\ Cardinality(u) = z /\ OnePiece(c, u) /\ taken \subseteq u /\ u \subseteq taken \union left
  BY DEF Between, Targets
<1>2. IsFiniteSet(1..c.blocks) /\ IsFiniteSet(taken) /\ IsFiniteSet(left)
  <2>2. IsFiniteSet(1..c.blocks)
    BY FiniteBlocks
  <2> QED
    BY <2>2, FS_Subset
<1>3. CASE Cardinality(taken) + Cardinality(left) < z
  <2>1. /\ IsFiniteSet(taken \union left)
        /\ Cardinality(taken \union left) = Cardinality(taken) + Cardinality(left) - Cardinality(taken \intersect left)
    BY <1>2, FS_Union
  <2>2. Cardinality(u) <= Cardinality(taken \union left)
    BY <1>1, <2>1, FS_Subset
  <2>3. /\ Cardinality(taken) \in Nat /\ Cardinality(left) \in Nat /\ Cardinality(taken \union left) \in Nat
        /\ Cardinality(taken \intersect left) \in Nat
    BY <1>2, <2>1, FS_CardinalityType, FS_Intersection
  <2> QED
    BY <1>1, <1>3, <2>1, <2>2, <2>3
<1>4. CASE (IF taken = {} THEN left ELSE left \intersect st[n].neighbors) = {}
  <2>1. CASE taken = {}
    <3>1. u = {}
      BY <1>1, <1>4, <2>1
    <3> QED
      BY <1>1, <3>1, FS_EmptySet
  <2>2. CASE taken # {}
    <3>1. taken # u
      BY <1>1
    <3>2. PICK a \in taken, b \in u \ taken : Linking(c, a, b)
      BY <1>1, <2>2, <3>1 DEF OnePiece
    <3>3. b \in Around(c, taken)
      <4>1. PICK e \in c.edges : e.compound /\ {e.src, e.trg} = {a, b}
        BY <3>2 DEF Linking
      <4>2. (e.src = a /\ e.trg = b) \/ (e.src = b /\ e.trg = a)
        BY <3>2, <4>1
      <4>3. e \in Inside(c)
        BY <1>1, <3>2, <4>1, <4>2 DEF Inside
      <4> QED
        BY <3>2, <4>2, <4>3 DEF Around
    <3> QED
      BY <1>1, <1>4, <2>2, <3>2, <3>3 DEF FrameSound
  <2> QED
    BY <2>1, <2>2
<1> QED
  BY <1>3, <1>4

-----------------------------------------------------------------------------
(* A bag and the subgraphs found at a node, as the fold of Record adds     *)
(* them to it: the first m of them.                                        *)
AddOne(bag, a, subs, i) == bag (+) SetToBag({<<a, subs[i]>>})
PlacesOf(a, subs, m, x) == { i \in 1..m : <<a, subs[i]>> = x }
WithFirst(bag, a, subs, m) ==
  [x \in DOMAIN bag \union { <<a, subs[i]>> : i \in 1..m } |-> Copies(bag, x) + Cardinality(PlacesOf(a, subs, m, x))]

LEMMA PlacesFinite ==
  ASSUME NEW a, NEW subs, NEW m \in Nat, NEW x
  PROVE  IsFiniteSet(PlacesOf(a, subs, m, x)) /\ Cardinality(PlacesOf(a, subs, m, x)) \in Nat
<1>1. IsFiniteSet(1..m)
  BY FS_Interval
<1>2. PlacesOf(a, subs, m, x) \subseteq 1..m
  BY DEF PlacesOf
<1> QED
  BY <1>1, <1>2, FS_Subset, FS_CardinalityType

LEMMA OnePlaceMore ==
  ASSUME NEW a, NEW subs, NEW m \in Nat, NEW x
  PROVE  Cardinality(PlacesOf(a, subs, m + 1, x)) =
           Cardinality(PlacesOf(a, subs, m, x)) + (IF <<a, subs[m + 1]>> = x THEN 1 ELSE 0)
<1>1. IsFiniteSet(PlacesOf(a, subs, m, x)) /\ Cardinality(PlacesOf(a, subs, m, x)) \in Nat
  BY PlacesFinite
<1>2. 1..(m + 1) = 1..m \union {m + 1} /\ m + 1 \notin 1..m
  OBVIOUS
<1>3. CASE <<a, subs[m + 1]>> = x
  <2>1. PlacesOf(a, subs, m + 1, x) = PlacesOf(a, subs, m, x) \union {m + 1} /\ m + 1 \notin PlacesOf(a, subs, m, x)
    BY <1>2, <1>3 DEF PlacesOf
  <2> QED
    BY <1>1, <1>3, <2>1, FS_AddElement
<1>4. CASE <<a, subs[m + 1]>> # x
  <2>1. PlacesOf(a, subs, m + 1, x) = PlacesOf(a, subs, m, x)
    BY <1>2, <1>4 DEF PlacesOf
  <2> QED
    BY <1>1, <1>4, <2>1
<1> QED
  BY <1>3, <1>4

LEMMA OneMore ==
  ASSUME NEW D, NEW bag \in [D -> Nat], NEW a, NEW subs, NEW m \in Nat
  PROVE  AddOne(WithFirst(bag, a, subs, m), a, subs, m + 1) = WithFirst(bag, a, subs, m + 1)
<1> DEFINE p == <<a, subs[m + 1]>>
           W == WithFirst(bag, a, subs, m)
           V == WithFirst(bag, a, subs, m + 1)
           K == D \union { <<a, subs[i]>> : i \in 1..m }
<1>1. DOMAIN W = K /\ DOMAIN V = K \union {p}
  <2>1. 1..(m + 1) = 1..m \union {m + 1}
    OBVIOUS
  <2>2. { <<a, subs[i]>> : i \in 1..(m + 1) } = { <<a, subs[i]>> : i \in 1..m } \union {p}
    BY <2>1
  <2> QED
    BY <2>2 DEF WithFirst
<1>2. \A x \in K : W[x] = Copies(bag, x) + Cardinality(PlacesOf(a, subs, m, x))
  BY DEF WithFirst
<1>3. \A x \in K \union {p} : V[x] = Copies(bag, x) + Cardinality(PlacesOf(a, subs, m + 1, x))
  BY <1>1 DEF WithFirst
<1>4. \A x : Copies(bag, x) \in Nat
  BY DEF Copies
<1>5. ASSUME NEW x, x \notin K PROVE Copies(bag, x) = 0 /\ Cardinality(PlacesOf(a, subs, m, x)) = 0
  <2>1. PlacesOf(a, subs, m, x) = {}
    BY <1>5 DEF PlacesOf
  <2>2. x \notin DOMAIN bag
    BY <1>5
  <2> QED
    BY <2>1, <2>2, FS_EmptySet DEF Copies
<1> HIDE DEF W, V, K, p
<1>6. AddOne(W, a, subs, m + 1) =
        [x \in K \union {p} |-> (IF x \in K THEN W[x] ELSE 0) + (IF x = p THEN 1 ELSE 0)]
  <2>1. SetToBag({p}) = [x \in {p} |-> 1] /\ DOMAIN SetToBag({p}) = {p}
    BY DEF SetToBag
  <2>2. W (+) SetToBag({p}) = [x \in K \union {p} |-> (IF x \in K THEN W[x] ELSE 0) + (IF x = p THEN 1 ELSE 0)]
    BY <1>1, <2>1 DEF (+)
  <2> QED
    BY <2>2 DEF AddOne, p
<1>7. ASSUME NEW x \in K \union {p}
      PROVE  V[x] = (IF x \in K THEN W[x] ELSE 0) + (IF x = p THEN 1 ELSE 0)
  <2>1. Cardinality(PlacesOf(a, subs, m + 1, x)) = Cardinality(PlacesOf(a, subs, m, x)) + (IF p = x THEN 1 ELSE 0)
    BY OnePlaceMore DEF p
  <2>2. Cardinality(PlacesOf(a, subs, m, x)) \in Nat /\ Copies(bag, x) \in Nat
    BY PlacesFinite, <1>4
  <2>3. V[x] = Copies(bag, x) + Cardinality(PlacesOf(a, subs, m + 1, x))
    BY <1>3
  <2>4. CASE x \in K
    BY <1>2, <2>1, <2>2, <2>3, <2>4
  <2>5. CASE x \notin K
    BY <1>5, <2>1, <2>2, <2>3, <2>5
  <2> QED
    BY <2>4, <2>5
<1>8. V = [x \in K \union {p} |-> V[x]]
  BY <1>1 DEF V, WithFirst
<1> QED
  BY <1>6, <1>7, <1>8 DEF W, V

FoldedInto(bag, a, subs) == FoldLeft(LAMBDA b, s : b (+) SetToBag({<<a, s>>}), bag, subs)

LEMMA FoldedIsRecursion ==
  ASSUME NEW bag, NEW a, NEW subs
  PROVE  FoldedInto(bag, a, subs) =
           (CHOOSE it : it = [s \in SUBSET (DOMAIN subs) |->
              IF s = {} THEN bag ELSE AddOne(it[s \ {Max(s)}], a, subs, Max(s))])[DOMAIN subs]
  BY DEF FoldedInto, FoldLeft, MapThenFoldSet, AddOne

LEMMA RecordIsFold ==
  ASSUME NEW a, NEW subs, Record(a, subs)
  PROVE  recorded' = [recorded EXCEPT ![kind] = FoldedInto(recorded[kind], a, subs)]
  BY DEF Record, FoldedInto, FoldLeft, MapThenFoldSet

LEMMA FoldedIsCount ==
  ASSUME NEW D, NEW bag \in [D -> Nat], NEW a, NEW S, NEW subs \in Seq(S)
  PROVE  FoldedInto(bag, a, subs) = WithFirst(bag, a, subs, Len(subs))
<1> DEFINE m == Len(subs)
           K == D \union { <<a, s>> : s \in S }
           X == UNION { [d -> Nat] : d \in SUBSET K }
           step == [p \in X \X (1..m) |-> AddOne(p[1], a, subs, p[2])]
           it == CHOOSE it : it = [s \in SUBSET (DOMAIN subs) |->
                   IF s = {} THEN bag ELSE AddOne(it[s \ {Max(s)}], a, subs, Max(s))]
           G == { x \in 0..m : it[1..x] = WithFirst(bag, a, subs, x) }
<1>1. m \in Nat /\ DOMAIN subs = 1..m /\ \A x \in 1..m : subs[x] \in S
  BY LenProperties
<1>2. it = [s \in SUBSET (1..m) |-> IF s = {} THEN bag ELSE AddOne(it[s \ {Max(s)}], a, subs, Max(s))]
  <2>1. step \in [X \X (1..m) -> X]
    <3>1. ASSUME NEW b \in X, NEW x \in 1..m
          PROVE  AddOne(b, a, subs, x) \in X
      <4>1. PICK d \in SUBSET K : b \in [d -> Nat]
        OBVIOUS
      <4> DEFINE p == <<a, subs[x]>>
                 more == [y \in d \union {p} |-> (IF y \in d THEN b[y] ELSE 0) + (IF y \in {p} THEN 1 ELSE 0)]
      <4>2. SetToBag({p}) = [y \in {p} |-> 1] /\ DOMAIN SetToBag({p}) = {p}
        BY DEF SetToBag
      <4>3. b (+) SetToBag({p}) = more
        BY <4>1, <4>2 DEF (+)
      <4>4. d \union {p} \in SUBSET K
        BY <1>1
      <4>5. more \in [d \union {p} -> Nat]
        BY <4>1
      <4> HIDE DEF more
      <4> QED
        BY <4>3, <4>4, <4>5 DEF AddOne
    <3> HIDE DEF X
    <3> QED
      BY <1>1, <3>1
  <2>2. bag \in X
    OBVIOUS
  <2>3. PICK f \in [SUBSET (1..m) -> X] : Solves(f, m, bag, step)
    <3> HIDE DEF X, step, m
    <3> QED
      BY <1>1, <2>1, <2>2, FoldExists
  <2>4. ASSUME NEW s \in SUBSET (1..m), s # {}
        PROVE  f[s] = AddOne(f[s \ {Max(s)}], a, subs, Max(s))
    <3>1. Max(s) \in 1..m
      BY <1>1, <2>4, MaxOfPlaces
    <3>2. f[s \ {Max(s)}] \in X
      OBVIOUS
    <3>3. f[s] = step[f[s \ {Max(s)}], Max(s)]
      BY <2>3, <2>4 DEF Solves
    <3> HIDE DEF X
    <3> QED
      BY <3>1, <3>2, <3>3
  <2>5. f[{}] = bag
    BY <2>3 DEF Solves
  <2>6. \E g : g = [s \in SUBSET (DOMAIN subs) |->
              IF s = {} THEN bag ELSE AddOne(g[s \ {Max(s)}], a, subs, Max(s))]
    BY <1>1, <2>4, <2>5
  <2> QED
    BY <1>1, <2>6
<1> HIDE DEF it, m
<1>3. 0 \in G
  <2>1. 1..0 = {} /\ 0 \in 0..m
    BY <1>1
  <2>2. \A x : Cardinality(PlacesOf(a, subs, 0, x)) = 0
    BY <2>1, FS_EmptySet DEF PlacesOf
  <2>3. WithFirst(bag, a, subs, 0) = bag
    <3>1. WithFirst(bag, a, subs, 0) = [x \in D |-> Copies(bag, x) + 0]
      BY <2>1, <2>2 DEF WithFirst
    <3> QED
      BY <3>1 DEF Copies
  <2>4. it[{}] = bag
    BY <1>2
  <2> QED
    BY <2>1, <2>3, <2>4
<1>4. ASSUME NEW x \in 0..(m - 1), x \in G PROVE x + 1 \in G
  <2>1. x \in Nat /\ 1..(x + 1) \in SUBSET (1..m) /\ x + 1 \in 1..m /\ x + 1 \in 0..m
    BY <1>1
  <2>2. Max(1..(x + 1)) = x + 1 /\ 1..(x + 1) # {} /\ (1..(x + 1)) \ {x + 1} = 1..x
    BY <2>1, LastPlace
  <2>3. it[1..(x + 1)] = AddOne(it[1..x], a, subs, x + 1)
    BY <1>2, <2>1, <2>2
  <2>4. it[1..x] = WithFirst(bag, a, subs, x)
    BY <1>4
  <2>5. AddOne(WithFirst(bag, a, subs, x), a, subs, x + 1) = WithFirst(bag, a, subs, x + 1)
    BY <2>1, OneMore
  <2> QED
    BY <2>1, <2>3, <2>4, <2>5
<1> HIDE DEF G
<1>5. 0..m \subseteq G
  BY <1>1, <1>3, <1>4, IntervalInduction
<1>6. it[1..m] = WithFirst(bag, a, subs, m)
  BY <1>1, <1>5 DEF G
<1>7. FoldedInto(bag, a, subs) = it[1..m]
  BY <1>1, FoldedIsRecursion DEF it
<1> QED
  BY <1>6, <1>7 DEF m

LEMMA FoundOneMore ==
  ASSUME NEW F, NEW u, u \notin F
  PROVE  FoldedInto(Bagged(F), 0, <<u>>) = Bagged(F \union {u})
<1> DEFINE D == { <<0, s>> : s \in F }
<1>1. Bagged(F) \in [D -> Nat] /\ Bagged(F) = [x \in D |-> 1]
  BY DEF Bagged, SetToBag
<1>2. <<u>> \in Seq({u}) /\ Len(<<u>>) = 1 /\ <<u>>[1] = u
  OBVIOUS
<1>3. FoldedInto(Bagged(F), 0, <<u>>) = WithFirst(Bagged(F), 0, <<u>>, 1)
  BY <1>1, <1>2, FoldedIsCount
<1>4. { <<0, <<u>>[i]>> : i \in 1..1 } = {<<0, u>>} /\ 1..1 = {1}
  BY <1>2
<1>5. \A x : PlacesOf(0, <<u>>, 1, x) = IF x = <<0, u>> THEN {1} ELSE {}
  BY <1>2, <1>4 DEF PlacesOf
<1>6. \A x : Cardinality(PlacesOf(0, <<u>>, 1, x)) = IF x = <<0, u>> THEN 1 ELSE 0
  BY <1>5, FS_Singleton, FS_EmptySet
<1>7. \A x : Copies(Bagged(F), x) = IF x \in D THEN 1 ELSE 0
  BY <1>1 DEF Copies
<1>8. <<0, u>> \notin D
  OBVIOUS
<1>9. WithFirst(Bagged(F), 0, <<u>>, 1) = [x \in D \union {<<0, u>>} |-> 1]
  <2>1. DOMAIN Bagged(F) \union { <<0, <<u>>[i]>> : i \in 1..1 } = D \union {<<0, u>>}
    BY <1>1, <1>4
  <2>2. \A x \in D \union {<<0, u>>} : Copies(Bagged(F), x) + Cardinality(PlacesOf(0, <<u>>, 1, x)) = 1
    <3> HIDE DEF D
    <3> SUFFICES ASSUME NEW x \in D \union {<<0, u>>}
                 PROVE  Copies(Bagged(F), x) + Cardinality(PlacesOf(0, <<u>>, 1, x)) = 1
      OBVIOUS
    <3>1. CASE x \in D
      <4>1. Copies(Bagged(F), x) = 1 /\ Cardinality(PlacesOf(0, <<u>>, 1, x)) = 0
        BY <1>6, <1>7, <1>8, <3>1
      <4> QED
        BY <4>1
    <3>2. CASE x = <<0, u>>
      <4>1. Copies(Bagged(F), x) = 0 /\ Cardinality(PlacesOf(0, <<u>>, 1, x)) = 1
        BY <1>6, <1>7, <1>8, <3>2
      <4> QED
        BY <4>1
    <3> QED
      BY <3>1, <3>2
  <2> HIDE DEF D
  <2> QED
    BY <2>1, <2>2 DEF WithFirst
<1>10. D \union {<<0, u>>} = { <<0, s>> : s \in F \union {u} }
  OBVIOUS
<1> HIDE DEF D
<1> QED
  BY <1>3, <1>9, <1>10 DEF Bagged, SetToBag

LEMMA NumberOfFinite ==
  ASSUME NEW S, NEW s \in Seq(S), NEW x
  PROVE  NumberOf(s, x) \in Nat /\ (NumberOf(s, x) = 0 <=> x \notin ToSet(s))
<1>1. IsFiniteSet(DOMAIN s)
  BY LenProperties, FS_Interval
<1>2. IsFiniteSet({ i \in DOMAIN s : s[i] = x })
  BY <1>1, FS_Subset
<1> QED
  BY <1>2, FS_CardinalityType, FS_EmptySet DEF NumberOf, ToSet

(* A node more is counted.                                                 *)
LEMMA NodeCounted ==
  ASSUME NEW c, NEW z, NEW S, NEW n \in Nat \ {0}, \A k \in 1..n : CountedAt(c, z, k) \in Seq(S)
  PROVE  FoldedInto(Tally(c, z, n - 1), n, CountedAt(c, z, n)) = Tally(c, z, n)
<1> DEFINE subs == CountedAt(c, z, n)
           D == CountedTo(c, z, n - 1)
           T == Tally(c, z, n - 1)
           m == Len(subs)
<1>1. subs \in Seq(S) /\ DOMAIN subs = 1..m /\ m \in Nat /\ n \in 1..n /\ 1..n = 1..(n - 1) \union {n}
      /\ \A k \in 1..(n - 1) : k # n /\ CountedAt(c, z, k) \in Seq(S)
  BY LenProperties
<1>2. T \in [D -> Nat] /\ T = [x \in D |-> NumberOf(CountedAt(c, z, x[1]), x[2])]
  <2>1. ASSUME NEW x \in D PROVE NumberOf(CountedAt(c, z, x[1]), x[2]) \in Nat
    <3>1. x[1] \in 1..(n - 1)
      BY DEF CountedTo
    <3> QED
      BY <1>1, <3>1, NumberOfFinite
  <2> QED
    BY <2>1 DEF Tally
<1>3. CountedTo(c, z, n) = D \union { <<n, subs[i]>> : i \in 1..m }
  <2>1. CountedTo(c, z, n) = CountedTo(c, z, n - 1) \union { <<n, s>> : s \in ToSet(CountedAt(c, z, n)) }
    <3> HIDE DEF subs, D, T, m
    <3>1. 1..n = 1..(n - 1) \union {n}
      BY <1>1
    <3> QED
      BY <3>1 DEF CountedTo
  <2>2. { <<n, s>> : s \in ToSet(subs) } = { <<n, subs[i]>> : i \in 1..m }
    <3> HIDE DEF subs, D, T, m
    <3> QED
      BY <1>1 DEF ToSet
  <2> QED
    BY <2>1, <2>2
<1>4. \A x \in D : x[1] # n
  BY <1>1 DEF CountedTo
<1>5. \A i \in 1..m : <<n, subs[i]>> \notin D
  BY <1>4
<1> HIDE DEF T, D, subs, m
<1>6. FoldedInto(T, n, subs) = WithFirst(T, n, subs, m)
  BY <1>1, <1>2, FoldedIsCount DEF m
<1>7. ASSUME NEW x \in D \union { <<n, subs[i]>> : i \in 1..m }
      PROVE  Copies(T, x) + Cardinality(PlacesOf(n, subs, m, x)) = NumberOf(CountedAt(c, z, x[1]), x[2])
  <2>1. CASE x \in D
    <3>1. PlacesOf(n, subs, m, x) = {}
      BY <1>5, <2>1 DEF PlacesOf
    <3>2. Copies(T, x) = NumberOf(CountedAt(c, z, x[1]), x[2]) /\ Copies(T, x) \in Nat
      BY <1>2, <2>1 DEF Copies
    <3>3. Cardinality(PlacesOf(n, subs, m, x)) = 0
      BY <3>1, FS_EmptySet
    <3> QED
      BY <3>2, <3>3
  <2>2. CASE \E i \in 1..m : x = <<n, subs[i]>>
    <3>1. x[1] = n /\ x = <<n, x[2]>> /\ x \notin D
      <4>1. PICK i \in 1..m : x = <<n, subs[i]>>
        BY <2>2
      <4>2. x[1] = n /\ x[2] = subs[i]
        BY <4>1
      <4>3. x \notin D
        BY <1>5, <4>1
      <4> QED
        BY <4>1, <4>2, <4>3
    <3>2. PlacesOf(n, subs, m, x) = { i \in DOMAIN subs : subs[i] = x[2] }
      BY <1>1, <3>1 DEF PlacesOf
    <3>3. Cardinality(PlacesOf(n, subs, m, x)) = NumberOf(subs, x[2])
      BY <3>2 DEF NumberOf
    <3>4. NumberOf(subs, x[2]) \in Nat
      BY <1>1, NumberOfFinite
    <3>5. Copies(T, x) = 0
      BY <1>2, <3>1 DEF Copies
    <3>6. CountedAt(c, z, x[1]) = subs
      BY <3>1 DEF subs
    <3> QED
      BY <3>3, <3>4, <3>5, <3>6
  <2> QED
    BY <2>1, <2>2
<1>8. WithFirst(T, n, subs, m) = Tally(c, z, n)
  BY <1>2, <1>3, <1>7 DEF WithFirst, Tally
<1> QED
  BY <1>6, <1>8 DEF T, subs

LEMMA EndsFinite ==
  ASSUME NEW c \in Cfgs, NEW n
  PROVE  /\ From(c, n) \in SUBSET (1..c.blocks) /\ IsFiniteSet(From(c, n)) /\ n \notin From(c, n)
         /\ To(c, n) \in SUBSET (1..c.blocks) /\ IsFiniteSet(To(c, n)) /\ n \notin To(c, n)
<1>1. c.blocks \in Nat /\ IsFiniteSet(1..c.blocks)
  BY FiniteBlocks
<1>2. From(c, n) \in SUBSET (1..c.blocks) /\ To(c, n) \in SUBSET (1..c.blocks) /\ n \notin From(c, n) /\ n \notin To(c, n)
  BY DEF From, To, Inside
<1> QED
  BY <1>1, <1>2, FS_Subset

LEMMA PairsFinite ==
  ASSUME NEW s, IsFiniteSet(s), s \subseteq Nat, NEW n \in Nat
  PROVE  Pairs(s, n) \in SUBSET SUBSET Nat /\ IsFiniteSet(Pairs(s, n))
<1>1. IsFiniteSet(SUBSET (s \union {n}))
  BY FS_AddElement, FS_SUBSET
<1>2. Pairs(s, n) \subseteq SUBSET (s \union {n})
  BY DEF Pairs
<1> QED
  BY <1>1, <1>2, FS_Subset

LEMMA SequenceInto ==
  ASSUME NEW U, NEW V, NEW s \in Seq(U), U \subseteq V
  PROVE  s \in Seq(V)
OBVIOUS

(* What is counted at a node is a sequence of sets of blocks.              *)
LEMMA CountedAtNode ==
  ASSUME NEW c \in Cfgs, NEW z, NEW n \in Nat
  PROVE  CountedAt(c, z, n) \in Seq(SUBSET Nat)
<1>1. /\ From(c, n) \in SUBSET (1..c.blocks) /\ IsFiniteSet(From(c, n))
      /\ To(c, n) \in SUBSET (1..c.blocks) /\ IsFiniteSet(To(c, n))
      /\ From(c, n) \subseteq Nat /\ To(c, n) \subseteq Nat
  BY EndsFinite
<1>2. <<{n}>> \in Seq(SUBSET Nat)
  OBVIOUS
<1>3. SetToSeq({ {a, n} : a \in To(c, n) }) \in Seq(SUBSET Nat)
  <2> DEFINE U == { {a, n} : a \in To(c, n) }
  <2>1. U \subseteq SUBSET (To(c, n) \union {n}) /\ U \subseteq SUBSET Nat
    BY <1>1
  <2>2. IsFiniteSet(SUBSET (To(c, n) \union {n}))
    BY <1>1, FS_AddElement, FS_SUBSET
  <2>3. IsFiniteSet(U)
    BY <2>1, <2>2, FS_Subset
  <2> HIDE DEF U
  <2>4. SetToSeq(U) \in Seq(U)
    BY <2>3, SetAsSequence
  <2>5. SetToSeq(U) \in Seq(SUBSET Nat)
    BY <2>1, <2>4, SequenceInto
  <2> QED
    BY <2>5 DEF U
<1>4. Triples(c, n) \in Seq(SUBSET Nat)
  <2> DEFINE P == Pairs(From(c, n), n)
             Q == Pairs(To(c, n), n)
             Y == { y \in From(c, n) \X To(c, n) : y[1] # y[2] }
             g == Across(c, n)
             h == [i \in DOMAIN g |-> {g[i][1], g[i][2], n}]
  <2>1. P \in SUBSET SUBSET Nat /\ IsFiniteSet(P) /\ Q \in SUBSET SUBSET Nat /\ IsFiniteSet(Q)
    BY <1>1, PairsFinite
  <2>2. IsFiniteSet(Y)
    <3>1. IsFiniteSet(From(c, n) \X To(c, n))
      BY <1>1, FS_Product
    <3> QED
      BY <3>1, FS_Subset
  <2>3. Y \subseteq Nat \X Nat /\ g = SetToSeq(Y)
    BY <1>1 DEF Across
  <2> HIDE DEF P, Q, Y, g
  <2>4. SetToSeq(P) \in Seq(SUBSET Nat) /\ SetToSeq(Q) \in Seq(SUBSET Nat)
    <3>1. SetToSeq(P) \in Seq(P) /\ SetToSeq(Q) \in Seq(Q)
      BY <2>1, SetAsSequence
    <3> QED
      BY <2>1, <3>1, SequenceInto
  <2>5. g \in Seq(Nat \X Nat)
    <3>1. g \in Seq(Y)
      BY <2>2, <2>3, SetAsSequence
    <3> QED
      BY <2>3, <3>1, SequenceInto
  <2>6. h \in Seq(SUBSET Nat)
    <3>1. DOMAIN g = 1..Len(g) /\ Len(g) \in Nat /\ \A i \in 1..Len(g) : g[i] \in Nat \X Nat
      BY <2>5, LenProperties
    <3>2. \A i \in 1..Len(g) : {g[i][1], g[i][2], n} \in SUBSET Nat
      BY <3>1
    <3> QED
      BY <3>1, <3>2
  <2> HIDE DEF h
  <2>7. (SetToSeq(P) \o SetToSeq(Q)) \o h \in Seq(SUBSET Nat)
    BY <2>4, <2>6
  <2> QED
    BY <2>7 DEF Triples, P, Q, h, g
<1> QED
  BY <1>2, <1>3, <1>4 DEF CountedAt

LEMMA EndsInFlow ==
  ASSUME GraphBuilt, pc # "link", NEW n
  PROVE  /\ Srcs(n) = From(cfg, n) /\ Trgs(n) = To(cfg, n)
         /\ { links[i].src : i \in { j \in DOMAIN links : links[j].trg = n } }
            \union { links[i].trg : i \in { j \in DOMAIN links : links[j].src = n } } = Around(cfg, {n})
<1>1. ToSet(links) = Inside(cfg)
  BY GraphIsFlow DEF Lists
<1>2. { links[i].src : i \in { j \in DOMAIN links : links[j].trg = n } } = { e.src : e \in { d \in Inside(cfg) : d.trg = n } }
  BY <1>1 DEF ToSet
<1>3. { links[i].trg : i \in { j \in DOMAIN links : links[j].src = n } } = { e.trg : e \in { d \in Inside(cfg) : d.src = n } }
  BY <1>1 DEF ToSet
<1> QED
  BY <1>2, <1>3 DEF Srcs, Trgs, From, To, Around

-----------------------------------------------------------------------------
LEMMA NothingCounted ==
  ASSUME NEW c, NEW z
  PROVE  Tally(c, z, 0) = EmptyBag /\ Bagged({}) = EmptyBag
<1>1. 1..0 = {}
  OBVIOUS
<1>2. CountedTo(c, z, 0) = {} /\ { <<0, u>> : u \in {} } = {}
  BY <1>1 DEF CountedTo
<1>3. Tally(c, z, 0) = [x \in {} |-> 1]
  BY <1>2 DEF Tally
<1> QED
  BY <1>2, <1>3 DEF EmptyBag, SetToBag, Bagged

(* The first activation has every target to record.                        *)
LEMMA StartSound ==
  ASSUME NEW c \in Cfgs, NEW z, NEW st, st = <<[at |-> "call", neighbors |-> {}]>>
  PROVE  StackSound(c, st, {}, 1..c.blocks) /\ Pending(c, z, st) = Targets(c, z)
<1>1. /\ DOMAIN st = {1} /\ Len(st) = 1 /\ st[1].at = "call" /\ st[1].neighbors = {} /\ st[1] \in Frame(c)
      /\ st \in Seq(Frame(c))
  <2> DEFINE f == [at |-> "call", neighbors |-> {}]
  <2>1. f \in Frame(c) /\ f.at = "call" /\ f.neighbors = {}
    BY DEF Frame
  <2> HIDE DEF f
  <2>2. st = <<f>>
    BY DEF f
  <2> QED
    BY <2>1, <2>2
<1>2. 1..(1 - 1) = {}
  OBVIOUS
<1>3. Taken(st, 1) = {} /\ Chosen(st, 1) = {}
  BY <1>2 DEF Taken, Chosen
<1>4. Taken(st, 1 + 1) = {} /\ Chosen(st, 1 + 1) = {}
  BY <1>1, <1>3, NextPlace
<1>5. OnePiece(c, {}) /\ Around(c, {}) = {}
  BY DEF OnePiece, Around
<1>6. FrameSound(c, st, 1)
  BY <1>1, <1>3, <1>5 DEF FrameSound
<1>7. StackSound(c, st, {}, 1..c.blocks)
  <2>1. Len(st) + 1 = 1 + 1
    BY <1>1
  <2> QED
    BY <2>1, <1>1, <1>4, <1>6 DEF StackSound
<1>8. Pending(c, z, st) = PendingAt(c, z, st, 1)
  BY <1>1 DEF Pending
<1>9. PendingAt(c, z, st, 1) = Targets(c, z)
  BY <1>1, <1>3 DEF PendingAt, Between
<1> QED
  BY <1>7, <1>8, <1>9

LEMMA SelectKeepsOrder ==
  ASSUME GraphBuilt, InOrder, SelectAlgorithm
  PROVE  InOrder'
<1>1. /\ pc = "link" /\ recorded[kind] = EmptyBag /\ recorded' = recorded /\ cfg' = cfg /\ size' = size /\ kind' = kind
      /\ cfg \in Cfgs /\ cfg.blocks \in Nat /\ size \in Nat /\ MaxNodes \in Nat /\ kind \in Kinds
  BY GraphletsAssumption DEF GraphletsAssumption, InOrder, SelectAlgorithm, GraphBuilt
<1>2. CASE size <= 3 /\ pc' = "loop" /\ idx' = 1
  <2>1. 1 \in 1..(cfg.blocks + 1) /\ Tally(cfg, size, 1 - 1) = EmptyBag
    BY <1>1, NothingCounted
  <2> QED
    BY <1>1, <1>2, <2>1 DEF InOrder
<1>3. CASE size > 3 /\ cfg.blocks > MaxNodes /\ pc' = "made"
  <2>1. Wanted(cfg, size) = EmptyBag
    BY <1>1, <1>3 DEF Wanted
  <2> QED
    BY <1>1, <1>3, <2>1 DEF InOrder
<1>4. CASE /\ size > 3 /\ cfg.blocks <= MaxNodes /\ pc' = "enumerate"
           /\ notConsidered' = Blocks /\ cur' = {} /\ stack' = <<[at |-> "call", neighbors |-> {}]>>
  <2>1. StackSound(cfg, stack', {}, 1..cfg.blocks) /\ Pending(cfg, size, stack') = Targets(cfg, size)
    BY <1>1, <1>4, StartSound
  <2>2. Bagged(Targets(cfg, size) \ Pending(cfg, size, stack')) = EmptyBag
    BY <2>1, NothingCounted
  <2>3. Enumerating'
    BY <1>1, <1>4, <2>1, <2>2 DEF Enumerating, Blocks
  <2> QED
    BY <1>1, <1>4, <2>3 DEF InOrder
<1> QED
  BY <1>2, <1>3, <1>4 DEF SelectAlgorithm

LEMMA NodeKeepsOrder ==
  ASSUME GraphBuilt, InOrder, NodeOfOne \/ NodeOfTwo \/ NodeOfThree
  PROVE  InOrder'
<1>1. /\ pc = "loop" /\ pc' = pc /\ idx \in 1..cfg.blocks /\ idx' = idx + 1 /\ cfg' = cfg /\ size' = size /\ kind' = kind
      /\ cfg \in Cfgs /\ kind \in Kinds /\ size <= 3 /\ recorded[kind] = Tally(cfg, size, idx - 1)
      /\ recorded = [t \in Kinds |-> recorded[t]]
  BY DEF InOrder, NodeOfOne, NodeOfTwo, NodeOfThree, AtNode, NextNode, Blocks, GraphBuilt
<1>2. cfg.blocks \in Nat /\ idx \in Nat \ {0} /\ idx + 1 \in 1..(cfg.blocks + 1) /\ (idx + 1) - 1 = idx
  BY <1>1, GraphletsAssumption DEF GraphletsAssumption
<1>3. Srcs(idx) = From(cfg, idx) /\ Trgs(idx) = To(cfg, idx)
  BY <1>1, EndsInFlow
<1>4. Record(idx, CountedAt(cfg, size, idx))
  <2>1. CASE NodeOfOne
    BY <2>1 DEF NodeOfOne, CountedAt
  <2>2. CASE NodeOfTwo
    BY <2>2, <1>3 DEF NodeOfTwo, CountedAt
  <2>3. CASE NodeOfThree
    BY <2>3, <1>3 DEF NodeOfThree, CountedAt, Triples, Pairs, Across
  <2> QED
    BY <2>1, <2>2, <2>3
<1>5. recorded' = [recorded EXCEPT ![kind] = FoldedInto(recorded[kind], idx, CountedAt(cfg, size, idx))]
  BY <1>4, RecordIsFold
<1>6. FoldedInto(Tally(cfg, size, idx - 1), idx, CountedAt(cfg, size, idx)) = Tally(cfg, size, idx)
  <2>1. \A k \in 1..idx : CountedAt(cfg, size, k) \in Seq(SUBSET Nat)
    BY <1>1, <1>2, CountedAtNode
  <2> QED
    BY <1>2, <2>1, NodeCounted
<1>7. /\ recorded' = [t \in Kinds |-> recorded'[t]] /\ recorded'[kind] = Tally(cfg, size, idx)
      /\ \A t \in Kinds \ {kind} : recorded'[t] = recorded[t]
  BY <1>1, <1>5, <1>6
<1>8. kind = "B" => recorded'["G"] = Wanted(cfg, size)
  BY <1>1, <1>7 DEF InOrder, Kinds
<1>9. kind = "G" => recorded'["B"] = EmptyBag
  BY <1>1, <1>7 DEF InOrder, Kinds
<1> QED
  BY <1>1, <1>2, <1>7, <1>8, <1>9 DEF InOrder

(* A set that is complete is what its activation has to record, and no     *)
(* other one does.                                                         *)
LEMMA CompleteSet ==
  ASSUME NEW c \in Cfgs, NEW z, NEW st, NEW n, NEW below, InnermostOver(c, z, st, n, below), st[n].at = "call",
         NEW taken, taken = Taken(st, n), taken \subseteq 1..c.blocks, Cardinality(taken) = z
  PROVE  /\ taken \in Targets(c, z) /\ PendingAt(c, z, st, n) = {taken}
         /\ taken \notin Pending(c, z, below)
<1>1. /\ n \in Nat \ {0} /\ FrameSound(c, st, n) /\ below \in Seq(Frame(c)) /\ Len(below) = n - 1
      /\ \A i \in 1..(n - 1) : below[i] = st[i] /\ st[i].at # "call" /\ FrameSound(c, below, i)
      /\ Taken(below, n) = taken
  BY DEF InnermostOver
<1>2. taken \in Targets(c, z)
  BY <1>1 DEF FrameSound, Targets
<1>3. PendingAt(c, z, st, n) = {taken}
  <2> DEFINE out == Chosen(st, n) \ taken
  <2>1. PendingAt(c, z, st, n) = Between(c, z, taken, out)
    BY DEF PendingAt
  <2>2. taken \in Between(c, z, taken, out)
    BY <1>2 DEF Between
  <2>3. ASSUME NEW u \in Between(c, z, taken, out) PROVE u = taken
    <3>1. u \in SUBSET (1..c.blocks) /\ Cardinality(u) = z /\ taken \subseteq u
      BY DEF Between, Targets
    <3>2. IsFiniteSet(u)
      <4>1. IsFiniteSet(1..c.blocks)
        BY FiniteBlocks
      <4> QED
        BY <3>1, <4>1, FS_Subset
    <3>3. Cardinality(u) = Cardinality(taken) /\ taken \in SUBSET u
      BY <3>1
    <3> QED
      BY <3>2, <3>3, FS_Subset
  <2> HIDE DEF out
  <2> QED
    BY <2>1, <2>2, <2>3
<1>4. ASSUME NEW j \in 1..(n - 1) PROVE taken \notin PendingAt(c, z, below, j)
  <2>1. j \in Nat \ {0} /\ j \in 1..(n - 1) /\ below[j].at # "call" /\ FrameSound(c, below, j)
    BY <1>1
  <2>2. CASE below[j].at = "excluded"
    <3>1. below[j].chosen \notin taken
      <4> SUFFICES ASSUME NEW i \in 1..(n - 1), below[i].at = "included", below[i].chosen = below[j].chosen PROVE FALSE
        BY <1>1 DEF Taken
      <4>1. i # j /\ i \in Nat /\ FrameSound(c, below, i) /\ below[i].at # "call"
        BY <1>1, <2>2
      <4>2. CASE i < j
        <5>1. i \in 1..(j - 1)
          BY <2>1, <4>1, <4>2
        <5>2. below[i].chosen \in Chosen(below, j)
          BY <4>1, <5>1 DEF Chosen
        <5> QED
          BY <2>1, <5>2 DEF FrameSound
      <4>3. CASE j < i
        <5>1. j \in 1..(i - 1)
          BY <2>1, <4>1, <4>3
        <5>2. below[j].chosen \in Chosen(below, i)
          BY <2>1, <5>1 DEF Chosen
        <5> QED
          BY <4>1, <5>2 DEF FrameSound
      <4> QED
        BY <2>1, <4>1, <4>2, <4>3
    <3>2. \A u \in PendingAt(c, z, below, j) : below[j].chosen \in u
      BY <2>2 DEF PendingAt, Between
    <3> QED
      BY <3>1, <3>2
  <2>3. CASE below[j].at # "excluded"
    BY <2>1, <2>3 DEF PendingAt
  <2> QED
    BY <2>2, <2>3
<1>5. taken \notin Pending(c, z, below)
  <2>1. DOMAIN below = 1..(n - 1)
    BY <1>1, LenProperties
  <2> QED
    BY <1>4, <2>1 DEF Pending
<1> QED
  BY <1>2, <1>3, <1>5

(* What the sets are while the targets are enumerated.                     *)
LEMMA InTheMiddle ==
  ASSUME GraphBuilt, InOrder, pc = "enumerate", stack # <<>>
  PROVE  /\ cfg \in Cfgs /\ size \in Nat /\ size > 0 /\ cfg.blocks <= MaxNodes /\ size > 3 /\ kind \in Kinds
         /\ StackSound(cfg, stack, cur, notConsidered)
         /\ InnermostOver(cfg, size, stack, Len(stack), Return)
         /\ Len(stack) \in Nat \ {0} /\ Top = stack[Len(stack)] /\ Top \in Frame(cfg)
         /\ Pending(cfg, size, stack) = Pending(cfg, size, Return) \union PendingAt(cfg, size, stack, Len(stack))
         /\ recorded[kind] = Bagged(Targets(cfg, size) \ Pending(cfg, size, stack))
         /\ recorded = [t \in Kinds |-> recorded[t]]
         /\ Top.at = "call" => cur = Taken(stack, Len(stack)) /\ notConsidered = 1..cfg.blocks \ Chosen(stack, Len(stack))
<1>1. /\ cfg \in Cfgs /\ size \in Nat /\ size > 0 /\ cfg.blocks <= MaxNodes /\ size > 3 /\ kind \in Kinds
      /\ StackSound(cfg, stack, cur, notConsidered)
      /\ recorded[kind] = Bagged(Targets(cfg, size) \ Pending(cfg, size, stack))
      /\ recorded = [t \in Kinds |-> recorded[t]]
  BY GraphletsAssumption DEF GraphletsAssumption, InOrder, Enumerating, GraphBuilt
<1>2. InnermostOver(cfg, size, stack, Len(stack), Return)
  BY <1>1, Popped DEF Return
<1>3. /\ Len(stack) \in Nat \ {0} /\ Top = stack[Len(stack)] /\ Top \in Frame(cfg)
      /\ Pending(cfg, size, stack) = Pending(cfg, size, Return) \union PendingAt(cfg, size, stack, Len(stack))
  BY <1>2 DEF InnermostOver, Top
<1>4. Top.at = "call" => cur = Taken(stack, Len(stack)) /\ notConsidered = 1..cfg.blocks \ Chosen(stack, Len(stack))
  BY <1>1, <1>3, InnermostSets
<1> QED
  BY <1>1, <1>2, <1>3, <1>4

LEMMA TakenAreBlocks ==
  ASSUME NEW c, NEW st, NEW taken, NEW left, StackSound(c, st, taken, left)
  PROVE  taken \subseteq 1..c.blocks
<1>1. st \in Seq(Frame(c)) /\ taken = Taken(st, Len(st) + 1) /\ Len(st) \in Nat /\ \A i \in 1..Len(st) : st[i] \in Frame(c)
  BY LenProperties DEF StackSound
<1>2. (Len(st) + 1) - 1 = Len(st)
  BY <1>1
<1>3. \A i \in 1..Len(st) : st[i].at = "included" => st[i].chosen \in 1..c.blocks
  BY <1>1 DEF Frame
<1> QED
  BY <1>1, <1>2, <1>3 DEF Taken

LEMMA EnumerationKept ==
  ASSUME GraphBuilt, InOrder, pc = "enumerate", pc' = pc, EnumUnchanged,
         StackSound(cfg, stack', cur', notConsidered'),
         recorded' = [t \in Kinds |-> recorded'[t]], \A t \in Kinds \ {kind} : recorded'[t] = recorded[t],
         recorded'[kind] = Bagged(Targets(cfg, size) \ Pending(cfg, size, stack'))
  PROVE  InOrder'
<1>1. cfg' = cfg /\ size' = size /\ kind' = kind /\ size > 3 /\ cfg.blocks <= MaxNodes /\ kind \in Kinds
  BY DEF EnumUnchanged, InOrder, Enumerating, GraphBuilt
<1>2. Enumerating'
  BY <1>1 DEF Enumerating
<1>3. kind = "B" => recorded'["G"] = Wanted(cfg, size)
  BY <1>1 DEF InOrder, Kinds
<1>4. kind = "G" => recorded'["B"] = EmptyBag
  BY <1>1 DEF InOrder, Kinds
<1> QED
  BY <1>1, <1>2, <1>3, <1>4 DEF InOrder

LEMMA EnumRecordKeepsOrder ==
  ASSUME GraphBuilt, InOrder, EnumRecord
  PROVE  InOrder'
<1> DEFINE n == Len(stack)
           T == Targets(cfg, size)
<1>1. /\ pc = "enumerate" /\ stack # <<>> /\ Top.at = "call" /\ Cardinality(cur) = size /\ Record(0, <<cur>>)
      /\ stack' = Return /\ pc' = pc /\ cur' = cur /\ notConsidered' = notConsidered /\ EnumUnchanged
  BY DEF EnumRecord
<1>2. /\ cfg \in Cfgs /\ kind \in Kinds /\ StackSound(cfg, stack, cur, notConsidered)
      /\ InnermostOver(cfg, size, stack, n, Return) /\ stack[n].at = "call"
      /\ Pending(cfg, size, stack) = Pending(cfg, size, Return) \union PendingAt(cfg, size, stack, n)
      /\ recorded[kind] = Bagged(T \ Pending(cfg, size, stack))
      /\ recorded = [t \in Kinds |-> recorded[t]] /\ cur = Taken(stack, n)
  BY <1>1, InTheMiddle
<1>3. /\ cur \in T /\ PendingAt(cfg, size, stack, n) = {cur} /\ cur \notin Pending(cfg, size, Return)
  <2>1. cur \subseteq 1..cfg.blocks
    BY <1>2, TakenAreBlocks
  <2> HIDE DEF n
  <2> QED
    BY <1>1, <1>2, <2>1, CompleteSet
<1>4. StackSound(cfg, Return, cur, notConsidered)
  BY <1>2, ReturnSound
<1> HIDE DEF n, T
<1>5. (T \ Pending(cfg, size, stack)) \union {cur} = T \ Pending(cfg, size, Return)
  <2> HIDE DEF Pending
  <2> QED
    BY <1>2, <1>3
<1>6. recorded' = [recorded EXCEPT ![kind] = FoldedInto(recorded[kind], 0, <<cur>>)]
  BY <1>1, RecordIsFold
<1>7. FoldedInto(recorded[kind], 0, <<cur>>) = Bagged(T \ Pending(cfg, size, Return))
  <2> DEFINE F == T \ Pending(cfg, size, stack)
  <2>1. cur \notin F
    BY <1>2, <1>3
  <2>2. F \union {cur} = T \ Pending(cfg, size, Return) /\ recorded[kind] = Bagged(F)
    BY <1>2, <1>5
  <2> HIDE DEF F
  <2>3. FoldedInto(Bagged(F), 0, <<cur>>) = Bagged(F \union {cur})
    BY <2>1, FoundOneMore
  <2> QED
    BY <2>2, <2>3
<1>8. /\ recorded' = [t \in Kinds |-> recorded'[t]] /\ \A t \in Kinds \ {kind} : recorded'[t] = recorded[t]
      /\ recorded'[kind] = Bagged(T \ Pending(cfg, size, Return))
  BY <1>2, <1>6, <1>7
<1>9. StackSound(cfg, stack', cur', notConsidered') /\ recorded'[kind] = Bagged(T \ Pending(cfg, size, stack'))
  BY <1>1, <1>4, <1>8
<1> QED
  BY <1>1, <1>8, <1>9, EnumerationKept DEF T

LEMMA EnumPruneKeepsOrder ==
  ASSUME GraphBuilt, InOrder, EnumPrune
  PROVE  InOrder'
<1> DEFINE n == Len(stack)
<1>1. /\ pc = "enumerate" /\ stack # <<>> /\ Top.at = "call" /\ Cardinality(cur) # size
      /\ Cardinality(cur) + Cardinality(notConsidered) < size \/ Candidates = {}
      /\ stack' = Return /\ pc' = pc /\ cur' = cur /\ notConsidered' = notConsidered /\ EnumUnchanged
      /\ recorded' = recorded
  BY DEF EnumPrune
<1>2. /\ cfg \in Cfgs /\ size \in Nat /\ size > 0 /\ StackSound(cfg, stack, cur, notConsidered)
      /\ InnermostOver(cfg, size, stack, n, Return) /\ Top = stack[n]
      /\ Pending(cfg, size, stack) = Pending(cfg, size, Return) \union PendingAt(cfg, size, stack, n)
      /\ recorded[kind] = Bagged(Targets(cfg, size) \ Pending(cfg, size, stack))
      /\ recorded = [t \in Kinds |-> recorded[t]]
      /\ cur = Taken(stack, n) /\ notConsidered = 1..cfg.blocks \ Chosen(stack, n)
  BY <1>1, InTheMiddle
<1>3. StackSound(cfg, Return, cur, notConsidered)
  BY <1>1, <1>2, ReturnSound
<1>4. PendingAt(cfg, size, stack, n) = {}
  <2>1. cur \subseteq 1..cfg.blocks /\ FrameSound(cfg, stack, n)
    BY <1>2, TakenAreBlocks DEF InnermostOver
  <2>2. Candidates = (IF cur = {} THEN notConsidered ELSE notConsidered \intersect stack[n].neighbors)
    BY <1>2 DEF Candidates
  <2> HIDE DEF n
  <2> QED
    BY <1>1, <1>2, <2>1, <2>2, PruneSound
<1>5. Pending(cfg, size, stack') = Pending(cfg, size, stack)
  <2> HIDE DEF Pending
  <2> QED
    BY <1>1, <1>2, <1>4
<1> HIDE DEF n
<1> QED
  BY <1>1, <1>2, <1>3, <1>5, EnumerationKept

LEMMA CandidatesAreLeft ==
  ASSUME StackSound(cfg, stack, cur, notConsidered), Candidates # {}
  PROVE  /\ (CHOOSE x \in Candidates : \A y \in Candidates : x <= y) \in Candidates
         /\ Candidates \subseteq notConsidered /\ notConsidered \subseteq 1..cfg.blocks
         /\ cur = {} \/ Candidates \subseteq Top.neighbors
<1>1. Candidates \subseteq notConsidered /\ notConsidered \subseteq 1..cfg.blocks
      /\ (cur = {} \/ Candidates \subseteq Top.neighbors)
  BY DEF Candidates, StackSound
<1>2. Candidates \in SUBSET Nat
  BY <1>1
<1>3. \E x \in Candidates : \A y \in Candidates : x <= y
  BY <1>2, LeastNumber
<1> QED
  BY <1>1, <1>3

LEMMA EnumExcludeKeepsOrder ==
  ASSUME GraphBuilt, InOrder, EnumExclude
  PROVE  InOrder'
<1> DEFINE n == Len(stack)
           v == CHOOSE x \in Candidates : \A y \in Candidates : x <= y
           f == [at |-> "excluded", neighbors |-> Top.neighbors, chosen |-> v]
           g == [at |-> "call", neighbors |-> Top.neighbors]
<1>1. /\ pc = "enumerate" /\ stack # <<>> /\ Top.at = "call" /\ Candidates # {}
      /\ pc' = pc /\ cur' = cur /\ notConsidered' = notConsidered \ {v} /\ EnumUnchanged
      /\ recorded' = recorded /\ stack' = Append(Append(Return, f), g)
  BY DEF EnumExclude, Below
<1>2. /\ cfg \in Cfgs /\ StackSound(cfg, stack, cur, notConsidered)
      /\ InnermostOver(cfg, size, stack, n, Return) /\ Top = stack[n] /\ Top \in Frame(cfg)
      /\ recorded[kind] = Bagged(Targets(cfg, size) \ Pending(cfg, size, stack))
      /\ recorded = [t \in Kinds |-> recorded[t]]
  BY <1>1, InTheMiddle
<1>3. v \in notConsidered /\ v \in 1..cfg.blocks /\ (cur = {} \/ v \in stack[n].neighbors)
  <2> HIDE DEF v, n
  <2> QED
    BY <1>1, <1>2, CandidatesAreLeft DEF v
<1>4. /\ f \in Frame(cfg) /\ f.at = "excluded" /\ f.neighbors = stack[n].neighbors /\ f.chosen = v
      /\ g \in Frame(cfg) /\ g.at = "call" /\ g.neighbors = stack[n].neighbors
  <2>1. stack[n].neighbors \in SUBSET (1..cfg.blocks)
    BY <1>1, <1>2 DEF Frame
  <2> HIDE DEF v, n
  <2> QED
    BY <1>2, <1>3, <2>1 DEF Frame
<1> HIDE DEF f, g, v
<1>5. CalledOver(cfg, size, stack, n, Return, f, g, stack')
  <2> HIDE DEF n
  <2>1. f.at # "call"
    BY <1>4
  <2> QED
    BY <1>1, <1>2, <1>4, <2>1, Pushed
<1>6. StackSound(cfg, stack', cur, notConsidered \ {v})
      /\ Pending(cfg, size, stack') = Pending(cfg, size, stack)
  <2>1. Excludes(stack, n, cur, notConsidered, v, f, g)
    BY <1>1, <1>2, <1>3, <1>4 DEF Excludes
  <2> HIDE DEF n
  <2> QED
    BY <1>2, <1>5, <2>1, ExcludeSound
<1> HIDE DEF n
<1> QED
  BY <1>1, <1>2, <1>6, EnumerationKept

LEMMA EnumIncludeKeepsOrder ==
  ASSUME GraphBuilt, InOrder, EnumInclude
  PROVE  InOrder'
<1> DEFINE n == Len(stack)
           v == Top.chosen
           more == Top.neighbors \union Around(cfg, {v})
           f == [at |-> "included", chosen |-> v]
           g == [at |-> "call", neighbors |-> more]
<1>1. /\ pc = "enumerate" /\ stack # <<>> /\ Top.at = "excluded"
      /\ pc' = pc /\ cur' = cur \union {v} /\ notConsidered' = notConsidered /\ EnumUnchanged
      /\ recorded' = recorded
  BY DEF EnumInclude
<1>2. stack' = Append(Append(Return, f), g)
  <2>1. { links[i].src : i \in { j \in DOMAIN links : links[j].trg = v } }
          \union { links[i].trg : i \in { j \in DOMAIN links : links[j].src = v } } = Around(cfg, {v})
    BY <1>1, EndsInFlow
  <2> QED
    BY <2>1 DEF EnumInclude, Below
<1>3. /\ cfg \in Cfgs /\ StackSound(cfg, stack, cur, notConsidered)
      /\ InnermostOver(cfg, size, stack, n, Return) /\ Top = stack[n] /\ Top \in Frame(cfg)
      /\ recorded[kind] = Bagged(Targets(cfg, size) \ Pending(cfg, size, stack))
      /\ recorded = [t \in Kinds |-> recorded[t]]
  BY <1>1, InTheMiddle
<1>4. /\ f \in Frame(cfg) /\ f.at = "included" /\ f.chosen = v
      /\ g \in Frame(cfg) /\ g.at = "call" /\ g.neighbors = more
  <2>1. Top.neighbors \in SUBSET (1..cfg.blocks) /\ v \in 1..cfg.blocks
    BY <1>1, <1>3 DEF Frame
  <2>2. Around(cfg, {v}) \subseteq 1..cfg.blocks
    BY DEF Around, Inside
  <2>3. more \in SUBSET (1..cfg.blocks)
    BY <2>1, <2>2
  <2> HIDE DEF v, n, more
  <2> QED
    BY <2>1, <2>3 DEF Frame
<1>5. v = stack[n].chosen /\ more = stack[n].neighbors \union Around(cfg, {v}) /\ stack[n].at = "excluded"
  BY <1>1, <1>3
<1> HIDE DEF f, g, v, more
<1>6. CalledOver(cfg, size, stack, n, Return, f, g, stack')
  <2> HIDE DEF n
  <2>1. f.at # "call"
    BY <1>4
  <2> QED
    BY <1>2, <1>3, <1>4, <2>1, Pushed
<1>7. StackSound(cfg, stack', cur \union {v}, notConsidered)
      /\ Pending(cfg, size, stack') = Pending(cfg, size, stack)
  <2>1. Includes(cfg, stack, n, v, f, g)
    BY <1>4, <1>5 DEF Includes
  <2> HIDE DEF n
  <2> QED
    BY <1>3, <1>6, <2>1, IncludeSound
<1> HIDE DEF n
<1> QED
  BY <1>1, <1>3, <1>7, EnumerationKept

LEMMA EnumPutBackKeepsOrder ==
  ASSUME GraphBuilt, InOrder, EnumPutBack
  PROVE  InOrder'
<1> DEFINE n == Len(stack)
<1>1. /\ pc = "enumerate" /\ stack # <<>> /\ Top.at = "included" /\ stack' = Return /\ pc' = pc
      /\ cur' = cur \ {Top.chosen} /\ notConsidered' = notConsidered \union {Top.chosen} /\ EnumUnchanged
      /\ recorded' = recorded
  BY DEF EnumPutBack
<1>2. /\ StackSound(cfg, stack, cur, notConsidered)
      /\ InnermostOver(cfg, size, stack, n, Return) /\ Top = stack[n]
      /\ Pending(cfg, size, stack) = Pending(cfg, size, Return) \union PendingAt(cfg, size, stack, n)
      /\ recorded[kind] = Bagged(Targets(cfg, size) \ Pending(cfg, size, stack))
      /\ recorded = [t \in Kinds |-> recorded[t]]
  BY <1>1, InTheMiddle
<1>3. StackSound(cfg, Return, cur \ {Top.chosen}, notConsidered \union {Top.chosen})
  BY <1>1, <1>2, ReturnSound
<1>4. PendingAt(cfg, size, stack, n) = {}
  BY <1>1, <1>2 DEF PendingAt
<1>5. Pending(cfg, size, stack') = Pending(cfg, size, stack)
  <2> HIDE DEF Pending
  <2> QED
    BY <1>1, <1>2, <1>4
<1> HIDE DEF n
<1> QED
  BY <1>1, <1>2, <1>3, <1>5, EnumerationKept

(* The other steps: what was counted is complete, or is not touched.       *)
LEMMA EndKeepsOrder ==
  ASSUME GraphBuilt, InOrder, LoopEnd \/ EnumEnd
  PROVE  InOrder'
<1>1. /\ cfg' = cfg /\ size' = size /\ kind' = kind /\ recorded' = recorded /\ pc' = "made"
      /\ cfg \in Cfgs /\ cfg.blocks \in Nat /\ kind \in Kinds
  BY GraphletsAssumption DEF GraphletsAssumption, LoopEnd, EnumEnd, EnumUnchanged, GraphBuilt
<1>2. recorded[kind] = Wanted(cfg, size)
  <2>1. CASE LoopEnd
    <3>1. size <= 3 /\ idx = cfg.blocks + 1 /\ recorded[kind] = Tally(cfg, size, idx - 1)
      BY <1>1, <2>1 DEF LoopEnd, InOrder
    <3>2. idx - 1 = cfg.blocks
      BY <1>1, <3>1
    <3> QED
      BY <3>1, <3>2 DEF Wanted
  <2>2. CASE EnumEnd
    <3>1. size > 3 /\ cfg.blocks <= MaxNodes /\ stack = <<>>
          /\ recorded[kind] = Bagged(Targets(cfg, size) \ Pending(cfg, size, stack))
      BY <2>2 DEF EnumEnd, InOrder, Enumerating
    <3>2. Pending(cfg, size, stack) = {}
      BY <3>1 DEF Pending
    <3>3. Targets(cfg, size) \ Pending(cfg, size, stack) = Targets(cfg, size)
      BY <3>2
    <3>4. ~(size <= 3)
      BY <3>1, GraphletsAssumption DEF GraphletsAssumption, GraphBuilt
    <3> QED
      BY <3>1, <3>3, <3>4 DEF Wanted
  <2> QED
    BY <2>1, <2>2
<1> QED
  BY <1>1, <1>2 DEF InOrder

LEMMA SecondKeepsOrder ==
  ASSUME GraphBuilt, InOrder, SecondGraph
  PROVE  InOrder'
BY DEF InOrder, SecondGraph, Kinds

LEMMA OthersKeepOrder ==
  ASSUME GraphBuilt, InOrder, LinkBlock \/ Represent \/ GraphletDone \/ UNCHANGED graphletVars
  PROVE  InOrder'
<1>1. CASE LinkBlock
  BY <1>1 DEF InOrder, LinkBlock, NextBlock
<1>2. CASE Represent
  BY <1>2 DEF InOrder, Represent
<1>3. CASE GraphletDone \/ UNCHANGED graphletVars
  <2>1. UNCHANGED <<cfg, size, kind, pc, idx, notConsidered, cur, stack, recorded>>
    BY <1>3 DEF GraphletDone, graphletVars, enumVars
  <2> QED
    BY <2>1 DEF InOrder, Enumerating
<1> QED
  BY <1>1, <1>2, <1>3

LEMMA OrderStarts ==
  ASSUME GraphletInit
  PROVE  InOrder
BY DEF InOrder, GraphletInit, Kinds

LEMMA OrderKept ==
  ASSUME GraphletInv, [GraphletNext]_graphletVars
  PROVE  InOrder'
<1>1. GraphBuilt /\ InOrder
  BY DEF GraphletInv
<1>2. CASE SelectAlgorithm
  BY <1>1, <1>2, SelectKeepsOrder
<1>3. CASE NodeOfOne \/ NodeOfTwo \/ NodeOfThree
  BY <1>1, <1>3, NodeKeepsOrder
<1>4. CASE LoopEnd \/ EnumEnd
  BY <1>1, <1>4, EndKeepsOrder
<1>5. CASE EnumRecord
  BY <1>1, <1>5, EnumRecordKeepsOrder
<1>6. CASE EnumPrune
  BY <1>1, <1>6, EnumPruneKeepsOrder
<1>7. CASE EnumExclude
  BY <1>1, <1>7, EnumExcludeKeepsOrder
<1>8. CASE EnumInclude
  BY <1>1, <1>8, EnumIncludeKeepsOrder
<1>9. CASE EnumPutBack
  BY <1>1, <1>9, EnumPutBackKeepsOrder
<1>10. CASE SecondGraph
  BY <1>1, <1>10, SecondKeepsOrder
<1>11. CASE LinkBlock \/ Represent \/ GraphletDone \/ UNCHANGED graphletVars
  BY <1>1, <1>11, OthersKeepOrder
<1> QED
  BY <1>2, <1>3, <1>4, <1>5, <1>6, <1>7, <1>8, <1>9, <1>10, <1>11 DEF GraphletNext

(* What is recorded, at every point: at an end of the loop over the nodes, *)
(* what the nodes before it have; while the sets are enumerated, all but   *)
(* those that some activation has still to record.                         *)
THEOREM RecordedInOrder == GraphletSpec => []GraphletInv
<1>1. GraphletInit => GraphletInv
  BY GraphStarts, OrderStarts DEF GraphletInv
<1>2. GraphletInv /\ [GraphletNext]_graphletVars => GraphletInv'
  BY GraphKept, OrderKept DEF GraphletInv
<1> QED
  BY <1>1, <1>2, PTL DEF GraphletSpec

(* The graph is built in full for both kinds, so that the instruction      *)
(* graphlets and the branch graphlets are of the same subgraphs.           *)
THEOREM SameInBothKinds == GraphletSpec => []SameSubgraphsInBothKinds
<1>1. GraphletInv => SameSubgraphsInBothKinds
  BY DEF GraphletInv, InOrder, SameSubgraphsInBothKinds
<1> QED
  BY <1>1, RecordedInOrder, PTL

-----------------------------------------------------------------------------
(* How often something occurs in sequences.                                *)
LEMMA PlacesFound ==
  ASSUME NEW X, NEW s \in Seq(X), NEW x
  PROVE  LET P == { i \in DOMAIN s : s[i] = x } IN IsFiniteSet(P) /\ Cardinality(P) \in Nat /\ P \subseteq 1..Len(s)
<1>1. IsFiniteSet(1..Len(s)) /\ DOMAIN s = 1..Len(s)
  BY LenProperties, FS_Interval
<1> QED
  BY <1>1, FS_Subset, FS_CardinalityType

LEMMA OccursInBoth ==
  ASSUME NEW X, NEW s \in Seq(X), NEW t \in Seq(X), NEW x
  PROVE  NumberOf(s \o t, x) = NumberOf(s, x) + NumberOf(t, x)
<1> DEFINE m == Len(s)
           k == Len(t)
           P == { i \in DOMAIN s : s[i] = x }
           Q == { i \in DOMAIN t : t[i] = x }
           R == { i \in (m + 1)..(m + k) : t[i - m] = x }
           f == [i \in Q |-> i + m]
<1>1. m \in Nat /\ k \in Nat /\ DOMAIN s = 1..m /\ DOMAIN t = 1..k /\ DOMAIN (s \o t) = 1..(m + k)
      /\ \A i \in 1..(m + k) : (s \o t)[i] = IF i <= m THEN s[i] ELSE t[i - m]
  BY LenProperties, ConcatProperties
<1>2. IsFiniteSet(P) /\ Cardinality(P) \in Nat /\ IsFiniteSet(Q) /\ Cardinality(Q) \in Nat
  BY PlacesFound
<1>3. { i \in DOMAIN (s \o t) : (s \o t)[i] = x } = P \union R
  <2> DEFINE u == s \o t
  <2>1. DOMAIN u = 1..(m + k) /\ \A i \in 1..m : u[i] = s[i]
    BY <1>1
  <2>2. \A i \in (m + 1)..(m + k) : u[i] = t[i - m]
    BY <1>1
  <2>3. 1..(m + k) = 1..m \union (m + 1)..(m + k)
    BY <1>1
  <2> HIDE DEF u, m, k
  <2> QED
    BY <1>1, <2>1, <2>2, <2>3 DEF u
<1>4. P \intersect R = {}
  BY <1>1
<1>5. IsFiniteSet(R) /\ Cardinality(R) = Cardinality(Q)
  <2> HIDE DEF m, k
  <2>1. \A i \in Q : i + m \in R
    BY <1>1
  <2>2. \A i, j \in Q : i + m = j + m => i = j
    BY <1>1
  <2>3. \A r \in R : r - m \in Q /\ (r - m) + m = r
    BY <1>1
  <2> HIDE DEF Q, R
  <2>4. f \in [Q -> R] /\ (\A i, j \in Q : f[i] = f[j] => i = j) /\ (\A r \in R : \E i \in Q : f[i] = r)
    BY <2>1, <2>2, <2>3
  <2> HIDE DEF f
  <2>5. f \in Bijection(Q, R)
    BY <2>4, Fun_IsBij
  <2> QED
    BY <1>2, <2>5, FS_Bijection DEF ExistsBijection
<1> HIDE DEF P, Q, R
<1>6. Cardinality(P \union R) = Cardinality(P) + Cardinality(R)
  <2>1. Cardinality(P \union R) = Cardinality(P) + Cardinality(R) - Cardinality(P \intersect R)
    BY <1>2, <1>5, FS_Union
  <2>2. Cardinality(P \intersect R) = 0
    BY <1>4, FS_EmptySet
  <2> QED
    BY <1>2, <1>5, <2>1, <2>2
<1> QED
  BY <1>3, <1>5, <1>6 DEF NumberOf, P, Q

LEMMA OccursOnce ==
  ASSUME NEW S, IsFiniteSet(S), NEW x
  PROVE  NumberOf(SetToSeq(S), x) = IF x \in S THEN 1 ELSE 0
<1> DEFINE s == SetToSeq(S)
<1>1. ToSet(s) = S /\ \A i, j \in DOMAIN s : s[i] = s[j] => i = j
  <2>1. ToSet(s) = S /\ IsInjective(s)
    BY SetAsSequence
  <2> QED
    BY <2>1 DEF IsInjective
<1> HIDE DEF s
<1>2. CASE x \in S
  <2>1. PICK i \in DOMAIN s : s[i] = x
    BY <1>1, <1>2 DEF ToSet
  <2>2. { j \in DOMAIN s : s[j] = x } = {i}
    BY <1>1, <2>1
  <2> QED
    BY <1>2, <2>2, FS_Singleton DEF NumberOf, s
<1>3. CASE x \notin S
  <2>1. { j \in DOMAIN s : s[j] = x } = {}
    BY <1>1, <1>3 DEF ToSet
  <2> QED
    BY <1>3, <2>1, FS_EmptySet DEF NumberOf, s
<1> QED
  BY <1>2, <1>3

(* Three different blocks.                                                 *)
Three(a, b, n) == a # b /\ a # n /\ b # n

LEMMA ThreeBlocks ==
  ASSUME NEW a, NEW b, NEW n
  PROVE  Cardinality({n, a, b}) = 3 <=> Three(a, b, n)
<1>1. IsFiniteSet({n}) /\ Cardinality({n}) = 1
  BY FS_Singleton
<1>2. /\ IsFiniteSet({n} \union {a})
      /\ Cardinality({n} \union {a}) = IF a \in {n} THEN Cardinality({n}) ELSE Cardinality({n}) + 1
  BY <1>1, FS_AddElement
<1>3. Cardinality(({n} \union {a}) \union {b})
        = IF b \in {n} \union {a} THEN Cardinality({n} \union {a}) ELSE Cardinality({n} \union {a}) + 1
  BY <1>2, FS_AddElement
<1>4. {n, a, b} = ({n} \union {a}) \union {b}
  OBVIOUS
<1>5. a \in {n} <=> a = n
  OBVIOUS
<1>6. b \in {n} \union {a} <=> b = n \/ b = a
  OBVIOUS
<1>7. CASE a = n
  <2>1. Cardinality({n} \union {a}) = 1
    BY <1>1, <1>2, <1>5, <1>7
  <2>2. Cardinality({n, a, b}) \in {1, 2}
    BY <1>3, <1>4, <2>1
  <2> QED
    BY <1>7, <2>2 DEF Three
<1>8. CASE a # n
  <2>1. Cardinality({n} \union {a}) = 2
    BY <1>1, <1>2, <1>5, <1>8
  <2>2. Cardinality({n, a, b}) = IF b = n \/ b = a THEN 2 ELSE 3
    BY <1>3, <1>4, <1>6, <2>1
  <2> QED
    BY <1>8, <2>2 DEF Three
<1> QED
  BY <1>7, <1>8

LEMMA InPairs ==
  ASSUME NEW s, s \subseteq Nat, NEW n, n \notin s, NEW a \in Nat, NEW b \in Nat, Three(a, b, n)
  PROVE  {a, b, n} \in Pairs(s, n) <=> a \in s /\ b \in s
<1>1. ASSUME a \in s, b \in s PROVE {a, b, n} \in Pairs(s, n)
  <2>1. a < b \/ b < a
    BY DEF Three
  <2>2. CASE a < b
    <3>1. <<a, b>> \in { y \in s \X s : y[1] < y[2] }
      BY <1>1, <2>2
    <3> QED
      BY <3>1 DEF Pairs
  <2>3. CASE b < a
    <3>1. <<b, a>> \in { y \in s \X s : y[1] < y[2] }
      BY <1>1, <2>3
    <3>2. {<<b, a>>[1], <<b, a>>[2], n} = {a, b, n}
      OBVIOUS
    <3>3. {<<b, a>>[1], <<b, a>>[2], n} \in Pairs(s, n)
      BY <3>1 DEF Pairs
    <3> QED
      BY <3>2, <3>3
  <2> QED
    BY <2>1, <2>2, <2>3
<1>2. ASSUME {a, b, n} \in Pairs(s, n) PROVE a \in s /\ b \in s
  <2>1. PICK x \in s \X s : {a, b, n} = {x[1], x[2], n}
    BY <1>2 DEF Pairs
  <2>2. a \in {x[1], x[2], n} /\ b \in {x[1], x[2], n}
    BY <2>1
  <2> QED
    BY <2>2 DEF Three
<1> QED
  BY <1>1, <1>2

LEMMA OccursAcross ==
  ASSUME NEW c \in Cfgs, NEW n \in Nat, NEW a \in Nat, NEW b \in Nat, Three(a, b, n)
  PROVE  NumberOf([i \in DOMAIN Across(c, n) |-> {Across(c, n)[i][1], Across(c, n)[i][2], n}], {a, b, n})
           = (IF a \in From(c, n) /\ b \in To(c, n) THEN 1 ELSE 0) + (IF b \in From(c, n) /\ a \in To(c, n) THEN 1 ELSE 0)
<1> DEFINE Y == { y \in From(c, n) \X To(c, n) : y[1] # y[2] }
           g == Across(c, n)
           h == [i \in DOMAIN g |-> {g[i][1], g[i][2], n}]
           P == { i \in DOMAIN g : g[i] = <<a, b>> }
           Q == { i \in DOMAIN g : g[i] = <<b, a>> }
<1>1. /\ IsFiniteSet(From(c, n)) /\ IsFiniteSet(To(c, n)) /\ n \notin From(c, n) /\ n \notin To(c, n)
  BY EndsFinite
<1>2. IsFiniteSet(Y) /\ g = SetToSeq(Y)
  <2>1. IsFiniteSet(From(c, n) \X To(c, n))
    BY <1>1, FS_Product
  <2> QED
    BY <2>1, FS_Subset DEF Across
<1>3. g \in Seq(Y) /\ \A i \in DOMAIN g : g[i] \in Y
  <2>1. g \in Seq(Y)
    BY <1>2, SetAsSequence
  <2> HIDE DEF g, Y
  <2> QED
    BY <2>1, LenProperties
<1>4. /\ NumberOf(g, <<a, b>>) = (IF <<a, b>> \in Y THEN 1 ELSE 0)
      /\ NumberOf(g, <<b, a>>) = (IF <<b, a>> \in Y THEN 1 ELSE 0)
  BY <1>2, OccursOnce
<1>5. /\ <<a, b>> \in Y <=> a \in From(c, n) /\ b \in To(c, n)
      /\ <<b, a>> \in Y <=> b \in From(c, n) /\ a \in To(c, n)
  BY DEF Three
<1>6. IsFiniteSet(P) /\ IsFiniteSet(Q) /\ Cardinality(P) \in Nat /\ Cardinality(Q) \in Nat
  <2> HIDE DEF g, Y
  <2> QED
    BY <1>3, PlacesFound
<1>7. P \intersect Q = {}
  <2>1. <<a, b>> # <<b, a>>
    BY DEF Three
  <2> QED
    BY <2>1
<1>8. { i \in DOMAIN h : h[i] = {a, b, n} } = P \union Q
  <2>1. ASSUME NEW y \in Y PROVE {y[1], y[2], n} = {a, b, n} <=> y = <<a, b>> \/ y = <<b, a>>
    <3>1. y = <<y[1], y[2]>> /\ y[1] # y[2] /\ y[1] # n /\ y[2] # n
      BY <1>1
    <3>2. ASSUME {y[1], y[2], n} = {a, b, n} PROVE y = <<a, b>> \/ y = <<b, a>>
      <4>1. y[1] \in {a, b, n} /\ y[2] \in {a, b, n}
        BY <3>2
      <4>2. (y[1] = a /\ y[2] = b) \/ (y[1] = b /\ y[2] = a)
        BY <3>1, <4>1
      <4> QED
        BY <3>1, <4>2
    <3>3. ASSUME y = <<a, b>> PROVE {y[1], y[2], n} = {a, b, n}
      BY <3>3
    <3>4. ASSUME y = <<b, a>> PROVE {y[1], y[2], n} = {a, b, n}
      <4>1. y[1] = b /\ y[2] = a
        BY <3>4
      <4> QED
        BY <4>1
    <3> QED
      BY <3>2, <3>3, <3>4
  <2> HIDE DEF Y, g
  <2>2. DOMAIN h = DOMAIN g /\ \A i \in DOMAIN g : h[i] = {g[i][1], g[i][2], n}
    OBVIOUS
  <2> HIDE DEF h
  <2> QED
    BY <1>3, <2>1, <2>2
<1> HIDE DEF P, Q, Y
<1>9. Cardinality(P \union Q) = Cardinality(P) + Cardinality(Q)
  <2>1. Cardinality(P \union Q) = Cardinality(P) + Cardinality(Q) - Cardinality(P \intersect Q)
    BY <1>6, FS_Union
  <2>2. Cardinality(P \intersect Q) = 0
    BY <1>7, FS_EmptySet
  <2> QED
    BY <1>6, <2>1, <2>2
<1>10. NumberOf(h, {a, b, n}) = Cardinality(P) + Cardinality(Q)
  <2> HIDE DEF h, g
  <2> QED
    BY <1>8, <1>9 DEF NumberOf
<1>11. Cardinality(P) = NumberOf(g, <<a, b>>) /\ Cardinality(Q) = NumberOf(g, <<b, a>>)
  BY DEF NumberOf, P, Q
<1> HIDE DEF h, g
<1>12. NumberOf(h, {a, b, n})
         = (IF a \in From(c, n) /\ b \in To(c, n) THEN 1 ELSE 0) + (IF b \in From(c, n) /\ a \in To(c, n) THEN 1 ELSE 0)
  BY <1>4, <1>5, <1>10, <1>11
<1> QED
  BY <1>12 DEF h, g

(* A flow between two blocks, as the ends of a node have it.               *)
LEMMA FlowsAreEnds ==
  ASSUME cfg \in Cfgs, NEW n \in Blocks, NEW a \in Blocks, a # n
  PROVE  /\ Flows(a, n) = IF a \in From(cfg, n) THEN 1 ELSE 0
         /\ Flows(n, a) = IF a \in To(cfg, n) THEN 1 ELSE 0
<1>1. (\E e \in cfg.edges : e.compound /\ e.src = a /\ e.trg = n) <=> a \in From(cfg, n)
  BY DEF From, Inside, Blocks
<1>2. (\E e \in cfg.edges : e.compound /\ e.src = n /\ e.trg = a) <=> a \in To(cfg, n)
  BY DEF To, Inside, Blocks
<1> QED
  BY <1>1, <1>2 DEF Flows

(* What is counted at n of a triple: pairs of sources, pairs of targets    *)
(* and a source with a target, in both orders, are the choices of a        *)
(* direction for each of the other two blocks.                             *)
LEMMA TripleCounted ==
  ASSUME cfg \in Cfgs, NEW n \in Blocks, NEW a \in Blocks, NEW b \in Blocks, Three(a, b, n)
  PROVE  NumberOf(Triples(cfg, n), {a, b, n}) = Ways(n, a) * Ways(n, b)
<1> DEFINE P == Pairs(From(cfg, n), n)
           Q == Pairs(To(cfg, n), n)
           h == [i \in DOMAIN Across(cfg, n) |-> {Across(cfg, n)[i][1], Across(cfg, n)[i][2], n}]
           x == {a, b, n}
           fa == a \in From(cfg, n)
           fb == b \in From(cfg, n)
           ta == a \in To(cfg, n)
           tb == b \in To(cfg, n)
<1>1. /\ IsFiniteSet(From(cfg, n)) /\ n \notin From(cfg, n) /\ From(cfg, n) \subseteq Nat
      /\ IsFiniteSet(To(cfg, n)) /\ n \notin To(cfg, n) /\ To(cfg, n) \subseteq Nat
      /\ n \in Nat /\ a \in Nat /\ b \in Nat
  BY EndsFinite DEF Blocks
<1>2. IsFiniteSet(P) /\ IsFiniteSet(Q) /\ P \in SUBSET SUBSET Nat /\ Q \in SUBSET SUBSET Nat
  BY <1>1, PairsFinite
<1>3. /\ NumberOf(SetToSeq(P), x) = IF fa /\ fb THEN 1 ELSE 0
      /\ NumberOf(SetToSeq(Q), x) = IF ta /\ tb THEN 1 ELSE 0
  <2>1. (x \in P <=> fa /\ fb) /\ (x \in Q <=> ta /\ tb)
    BY <1>1, InPairs
  <2> HIDE DEF P, Q, x, fa, fb, ta, tb
  <2>2. /\ NumberOf(SetToSeq(P), x) = IF x \in P THEN 1 ELSE 0
        /\ NumberOf(SetToSeq(Q), x) = IF x \in Q THEN 1 ELSE 0
    BY <1>2, OccursOnce
  <2> QED
    BY <2>1, <2>2
<1>4. NumberOf(h, x) = (IF fa /\ tb THEN 1 ELSE 0) + (IF fb /\ ta THEN 1 ELSE 0)
  BY <1>1, OccursAcross
<1>5. h \in Seq(SUBSET Nat)
  <2> DEFINE Y == { y \in From(cfg, n) \X To(cfg, n) : y[1] # y[2] }
             g == Across(cfg, n)
  <2>1. IsFiniteSet(Y)
    <3>1. IsFiniteSet(From(cfg, n) \X To(cfg, n))
      BY <1>1, FS_Product
    <3> QED
      BY <3>1, FS_Subset
  <2>2. Y \subseteq Nat \X Nat /\ g = SetToSeq(Y)
    BY <1>1 DEF Across
  <2> HIDE DEF Y, g
  <2>3. g \in Seq(Y)
    BY <2>1, <2>2, SetAsSequence
  <2>4. DOMAIN g = 1..Len(g) /\ Len(g) \in Nat /\ \A i \in 1..Len(g) : g[i] \in Nat \X Nat
    BY <2>2, <2>3, LenProperties
  <2>5. \A i \in 1..Len(g) : {g[i][1], g[i][2], n} \in SUBSET Nat
    BY <1>1, <2>4
  <2>6. [i \in DOMAIN g |-> {g[i][1], g[i][2], n}] \in Seq(SUBSET Nat)
    BY <2>4, <2>5
  <2> QED
    BY <2>6 DEF g
<1>6. SetToSeq(P) \in Seq(SUBSET Nat) /\ SetToSeq(Q) \in Seq(SUBSET Nat)
  <2> HIDE DEF P, Q
  <2>1. SetToSeq(P) \in Seq(P) /\ SetToSeq(Q) \in Seq(Q)
    BY <1>2, SetAsSequence
  <2> QED
    BY <1>2, <2>1, SequenceInto
<1>7. Triples(cfg, n) = (SetToSeq(P) \o SetToSeq(Q)) \o h
  BY DEF Triples
<1>8. /\ Ways(n, a) = (IF fa THEN 1 ELSE 0) + (IF ta THEN 1 ELSE 0)
      /\ Ways(n, b) = (IF fb THEN 1 ELSE 0) + (IF tb THEN 1 ELSE 0)
  BY FlowsAreEnds DEF Ways, Three
<1> HIDE DEF P, Q, h, x, fa, fb, ta, tb
<1>9. NumberOf(Triples(cfg, n), x) = (NumberOf(SetToSeq(P), x) + NumberOf(SetToSeq(Q), x)) + NumberOf(h, x)
  <2>1. NumberOf(SetToSeq(P) \o SetToSeq(Q), x) = NumberOf(SetToSeq(P), x) + NumberOf(SetToSeq(Q), x)
    BY <1>6, OccursInBoth
  <2>2. SetToSeq(P) \o SetToSeq(Q) \in Seq(SUBSET Nat)
    BY <1>6, ConcatProperties
  <2>3. NumberOf((SetToSeq(P) \o SetToSeq(Q)) \o h, x) = NumberOf(SetToSeq(P) \o SetToSeq(Q), x) + NumberOf(h, x)
    BY <1>5, <2>2, OccursInBoth
  <2> QED
    BY <1>7, <2>1, <2>3
<1>10. NumberOf(Triples(cfg, n), x)
         = ((IF fa /\ fb THEN 1 ELSE 0) + (IF ta /\ tb THEN 1 ELSE 0))
           + ((IF fa /\ tb THEN 1 ELSE 0) + (IF fb /\ ta THEN 1 ELSE 0))
  BY <1>3, <1>4, <1>9
<1>11. ((IF fa THEN 1 ELSE 0) + (IF ta THEN 1 ELSE 0)) * ((IF fb THEN 1 ELSE 0) + (IF tb THEN 1 ELSE 0))
         = ((IF fa /\ fb THEN 1 ELSE 0) + (IF ta /\ tb THEN 1 ELSE 0))
           + ((IF fa /\ tb THEN 1 ELSE 0) + (IF fb /\ ta THEN 1 ELSE 0))
  <2>1. CASE fa /\ fb
    BY <2>1
  <2>2. CASE fa /\ ~fb
    BY <2>2
  <2>3. CASE ~fa /\ fb
    BY <2>3
  <2>4. CASE ~fa /\ ~fb
    BY <2>4
  <2> QED
    BY <2>1, <2>2, <2>3, <2>4
<1>12. NumberOf(Triples(cfg, n), x) = Ways(n, a) * Ways(n, b)
  BY <1>8, <1>10, <1>11
<1> QED
  BY <1>12 DEF x

(* No set of fewer than three blocks is counted at size 3.                 *)
LEMMA TriplesOnly ==
  ASSUME NEW c \in Cfgs, NEW n \in Nat, NEW s \in ToSet(Triples(c, n))
  PROVE  Cardinality(s) = 3
<1> DEFINE P == Pairs(From(c, n), n)
           Q == Pairs(To(c, n), n)
           g == Across(c, n)
           Y == { y \in From(c, n) \X To(c, n) : y[1] # y[2] }
           h == [i \in DOMAIN g |-> {g[i][1], g[i][2], n}]
<1>1. /\ IsFiniteSet(From(c, n)) /\ n \notin From(c, n) /\ From(c, n) \subseteq Nat
      /\ IsFiniteSet(To(c, n)) /\ n \notin To(c, n) /\ To(c, n) \subseteq Nat
  BY EndsFinite
<1>2. IsFiniteSet(P) /\ IsFiniteSet(Q) /\ P \in SUBSET SUBSET Nat /\ Q \in SUBSET SUBSET Nat
  BY <1>1, PairsFinite
<1>3. IsFiniteSet(Y) /\ Y \subseteq Nat \X Nat /\ g = SetToSeq(Y)
  <2>1. IsFiniteSet(From(c, n) \X To(c, n))
    BY <1>1, FS_Product
  <2> QED
    BY <1>1, <2>1, FS_Subset DEF Across
<1>4. g \in Seq(Y) /\ \A i \in DOMAIN g : g[i] \in Y
  <2> HIDE DEF Y, g
  <2>1. g \in Seq(Y)
    BY <1>3, SetAsSequence
  <2> QED
    BY <2>1, LenProperties
<1>5. ASSUME NEW t \in SUBSET Nat, NEW u \in Pairs(t, n), n \notin t PROVE Cardinality(u) = 3
  <2>1. PICK y \in t \X t : y[1] < y[2] /\ u = {y[1], y[2], n}
    BY DEF Pairs
  <2>2. y[1] \in t /\ y[2] \in t /\ y[1] # y[2]
    <3>1. y[1] \in Nat /\ y[2] \in Nat /\ y[1] < y[2]
      BY <2>1
    <3>2. \A i, j \in Nat : i < j => i # j
      OBVIOUS
    <3> HIDE DEF P, Q, g, Y, h
    <3> QED
      BY <2>1, <3>1, <3>2
  <2>3. Three(y[1], y[2], n) /\ u = {n, y[1], y[2]}
    BY <1>5, <2>1, <2>2 DEF Three
  <2> QED
    BY <2>3, ThreeBlocks
<1>6. ASSUME NEW y \in Y PROVE Cardinality({y[1], y[2], n}) = 3
  <2>1. Three(y[1], y[2], n) /\ {y[1], y[2], n} = {n, y[1], y[2]}
    BY <1>1 DEF Three
  <2> QED
    BY <2>1, ThreeBlocks
<1>7. h \in Seq({ {y[1], y[2], n} : y \in Y }) /\ ToSet(h) \subseteq { {y[1], y[2], n} : y \in Y }
  <2> HIDE DEF Y, g
  <2>1. DOMAIN g = 1..Len(g) /\ Len(g) \in Nat
    BY <1>4, LenProperties
  <2> QED
    BY <1>4, <2>1 DEF ToSet
<1>8. ToSet(Triples(c, n)) = (P \union Q) \union ToSet(h)
  <2> DEFINE Z == (P \union Q) \union { {y[1], y[2], n} : y \in Y }
  <2>1. SetToSeq(P) \in Seq(P) /\ SetToSeq(Q) \in Seq(Q) /\ ToSet(SetToSeq(P)) = P /\ ToSet(SetToSeq(Q)) = Q
    BY <1>2, SetAsSequence
  <2> HIDE DEF h, P, Q, Y, g
  <2>2. SetToSeq(P) \in Seq(Z) /\ SetToSeq(Q) \in Seq(Z) /\ h \in Seq(Z)
    BY <1>7, <2>1, SequenceInto
  <2> HIDE DEF Z
  <2>3. SetToSeq(P) \o SetToSeq(Q) \in Seq(Z) /\ ToSet(SetToSeq(P) \o SetToSeq(Q)) = P \union Q
    BY <2>1, <2>2, ConcatOfAll
  <2> DEFINE v == SetToSeq(P) \o SetToSeq(Q)
  <2> HIDE DEF v
  <2>4. v \in Seq(Z) /\ ToSet(v) = P \union Q
    BY <2>3 DEF v
  <2>5. ToSet(v \o h) = ToSet(v) \union ToSet(h)
    BY <2>2, <2>4, ConcatOfAll
  <2> QED
    BY <2>4, <2>5 DEF Triples, P, Q, h, g, v
<1>9. s \in P \/ s \in Q \/ s \in { {y[1], y[2], n} : y \in Y }
  <2> HIDE DEF h, P, Q, Y
  <2> QED
    BY <1>7, <1>8
<1>10. s \in P \/ s \in Q => Cardinality(s) = 3
  BY <1>1, <1>5
<1>11. s \in { {y[1], y[2], n} : y \in Y } => Cardinality(s) = 3
  <2> HIDE DEF Y
  <2> QED
    BY <1>6
<1> QED
  BY <1>9, <1>10, <1>11

LEMMA TallyOfTriples ==
  ASSUME cfg \in Cfgs, NEW bag, bag = Tally(cfg, 3, cfg.blocks)
  PROVE  /\ \A x \in BagToSet(bag) : Cardinality(x[2]) = 3
         /\ \A n, a, b \in Blocks : Cardinality({n, a, b}) = 3 =>
              Copies(bag, <<n, {a, b, n}>>) = Ways(n, a) * Ways(n, b)
<1> DEFINE D == CountedTo(cfg, 3, cfg.blocks)
<1>1. \A n : CountedAt(cfg, 3, n) = Triples(cfg, n)
  BY DEF CountedAt
<1>2. DOMAIN bag = D /\ BagToSet(bag) = D /\ \A x \in D : bag[x] = NumberOf(Triples(cfg, x[1]), x[2])
  BY <1>1 DEF Tally, BagToSet
<1>3. D = UNION { { <<n, s>> : s \in ToSet(Triples(cfg, n)) } : n \in Blocks }
  BY <1>1 DEF CountedTo, Blocks
<1> HIDE DEF D
<1>4. ASSUME NEW x \in D PROVE Cardinality(x[2]) = 3
  <2>1. PICK n \in Blocks : \E s \in ToSet(Triples(cfg, n)) : x = <<n, s>>
    BY <1>3
  <2>2. PICK s \in ToSet(Triples(cfg, n)) : x = <<n, s>>
    BY <2>1
  <2>3. Cardinality(s) = 3 /\ x[2] = s
    <3>1. n \in Nat
      BY DEF Blocks
    <3> QED
      BY <2>2, <3>1, TriplesOnly
  <2> QED
    BY <2>3
<1>5. ASSUME NEW n \in Blocks, NEW a \in Blocks, NEW b \in Blocks, Cardinality({n, a, b}) = 3
      PROVE  Copies(bag, <<n, {a, b, n}>>) = Ways(n, a) * Ways(n, b)
  <2> DEFINE u == {a, b, n}
             p == <<n, u>>
  <2>1. NumberOf(Triples(cfg, n), u) = Ways(n, a) * Ways(n, b)
    <3>1. Three(a, b, n)
      BY <1>5, ThreeBlocks
    <3> QED
      BY <3>1, TripleCounted
  <2>2. Triples(cfg, n) \in Seq(SUBSET Nat)
    <3>1. CountedAt(cfg, 3, n) \in Seq(SUBSET Nat)
      BY CountedAtNode DEF Blocks
    <3> QED
      BY <1>1, <3>1
  <2>3. NumberOf(Triples(cfg, n), u) = 0 <=> u \notin ToSet(Triples(cfg, n))
    <3> HIDE DEF u
    <3> QED
      BY <2>2, NumberOfFinite
  <2> HIDE DEF u
  <2>4. p \in D <=> u \in ToSet(Triples(cfg, n))
    BY <1>3
  <2>5. p[1] = n /\ p[2] = u
    OBVIOUS
  <2> HIDE DEF p
  <2>6. Copies(bag, p) = NumberOf(Triples(cfg, n), u)
    BY <1>2, <2>3, <2>4, <2>5 DEF Copies
  <2> QED
    BY <2>1, <2>6 DEF p, u
<1> QED
  BY <1>2, <1>4, <1>5

(* From size 4 on the enumeration records each connected set of blocks     *)
(* once, in whatever order it takes the blocks in and leaves them out; at  *)
(* size 3 a triple is counted at n for each choice of the directions of    *)
(* its other two blocks.                                                   *)
THEOREM ConnectedSetsCounted == GraphletSpec => []SubgraphsCounted
<1>1. GraphletInv => SubgraphsCounted
  <2> SUFFICES ASSUME GraphletInv, pc = "done", NEW t \in Kinds
               PROVE  /\ size > 3 /\ cfg.blocks <= MaxNodes =>
                           recorded[t] = SetToBag({ <<0, s>> : s \in
                             { u \in SUBSET Blocks : Cardinality(u) = size /\ Connected(u) } })
                      /\ size = 3 =>
                           /\ \A x \in BagToSet(recorded[t]) : Cardinality(x[2]) = 3
                           /\ \A n, a, b \in Blocks : Cardinality({n, a, b}) = 3 =>
                                Copies(recorded[t], <<n, {a, b, n}>>) = Ways(n, a) * Ways(n, b)
    BY DEF SubgraphsCounted
  <2>1. cfg \in Cfgs /\ size \in Nat /\ recorded[t] = Wanted(cfg, size)
    BY GraphletsAssumption DEF GraphletsAssumption, GraphletInv, GraphBuilt, InOrder, Kinds
  <2>2. ASSUME size > 3, cfg.blocks <= MaxNodes
        PROVE  recorded[t] = SetToBag({ <<0, s>> : s \in
                 { u \in SUBSET Blocks : Cardinality(u) = size /\ Connected(u) } })
    <3>1. ~(size <= 3)
      BY <2>1, <2>2
    <3>2. recorded[t] = Bagged(Targets(cfg, size))
      BY <2>1, <2>2, <3>1 DEF Wanted
    <3>3. \A u : Connected(u) <=> OnePiece(cfg, u)
      BY DEF Connected, OnePiece, Adjacent, Linking
    <3>4. Targets(cfg, size) = { u \in SUBSET Blocks : Cardinality(u) = size /\ Connected(u) }
      BY <3>3 DEF Targets, Blocks
    <3> QED
      BY <3>2, <3>4 DEF Bagged
  <2>3. ASSUME size = 3
        PROVE  /\ \A x \in BagToSet(recorded[t]) : Cardinality(x[2]) = 3
               /\ \A n, a, b \in Blocks : Cardinality({n, a, b}) = 3 =>
                    Copies(recorded[t], <<n, {a, b, n}>>) = Ways(n, a) * Ways(n, b)
    <3>1. recorded[t] = Tally(cfg, 3, cfg.blocks)
      BY <2>1, <2>3 DEF Wanted
    <3> QED
      BY <2>1, <3>1, TallyOfTriples
  <2> QED
    BY <2>2, <2>3
<1> QED
  BY <1>1, RecordedInOrder, PTL
-----------------------------------------------------------------------------
(* Division with remainder is unique.                                      *)
LEMMA DivMod ==
  ASSUME NEW b \in Nat, b > 0, NEW x \in Nat, NEW r \in 0..(b - 1)
  PROVE  (x * b + r) % b = r /\ (x * b + r) \div b = x
<1> DEFINE n == x * b + r
           d == n \div b
           m == n % b
<1>1. n \in Nat
  OBVIOUS
<1>2. d \in Int /\ m \in 0..(b - 1) /\ n = b * d + m
  BY <1>1
<1>3. b * (d - x) = r - m
  BY <1>2
<1>4. r - m < b /\ r - m > -b
  BY <1>2
<1>5. d - x = 0
  <2>1. CASE d - x >= 1
    BY <2>1, <1>2, <1>3, <1>4
  <2>2. CASE d - x <= -1
    BY <2>2, <1>2, <1>3, <1>4
  <2> QED
    BY <2>1, <2>2, <1>2
<1> QED
  BY <1>5, <1>3, <1>2

Packed(b, e, x, y) == e * (b * b) + x * b + y

(* The fields of a packed term, and of one whose last fields are shifted   *)
(* out.                                                                    *)
LEMMA Fields ==
  ASSUME NEW b \in Nat, b > 0, NEW e \in 0..(b - 1), NEW x \in 0..(b - 1), NEW y \in 0..(b - 1)
  PROVE  /\ Packed(b, e, x, y) % b = y
         /\ Packed(b, e, x, y) \div b = e * b + x
         /\ (Packed(b, e, x, y) \div b) % b = x
         /\ Packed(b, e, x, y) \div (b * b) = e
<1>1. e * (b * b) + x * b + y = (e * b + x) * b + y
  OBVIOUS
<1>2. e * b + x \in Nat
  OBVIOUS
<1>3. ((e * b + x) * b + y) % b = y /\ ((e * b + x) * b + y) \div b = e * b + x
  BY <1>2, DivMod
<1>4. (e * b + x) % b = x
  BY DivMod
<1>5. x * b + y \in 0..(b * b - 1)
  <2>1. x * b + y <= (b - 1) * b + (b - 1)
    <3>1. x * b <= (b - 1) * b
      OBVIOUS
    <3> QED
      BY <3>1
  <2>2. x * b + y \in Nat
    OBVIOUS
  <2>3. (b - 1) * b + (b - 1) = b * b - 1
    OBVIOUS
  <2> QED
    BY <2>1, <2>2, <2>3
<1>6. b * b \in Nat /\ b * b > 0
  OBVIOUS
<1>7. (e * (b * b) + (x * b + y)) \div (b * b) = e
  BY <1>5, <1>6, DivMod
<1>8. e * (b * b) + x * b + y = e * (b * b) + (x * b + y)
  OBVIOUS
<1> QED
  BY <1>1, <1>3, <1>4, <1>7, <1>8 DEF Packed

(* A number below b * b has no third field.                                *)
LEMMA NoThirdField ==
  ASSUME NEW b \in Nat, b > 1, NEW e \in 0..(b - 1), NEW x \in 0..(b - 1)
  PROVE  ((e * b + x) \div (b * b)) % b = 0
<1>1. e * b + x \in 0..(b * b - 1)
  <2>1. e * b <= (b - 1) * b /\ e * b + x \in Nat
    OBVIOUS
  <2> QED
    BY <2>1
<1>2. b * b \in Nat /\ b * b > 0
  OBVIOUS
<1>3. (0 * (b * b) + (e * b + x)) \div (b * b) = 0
  BY <1>1, <1>2, DivMod
<1>4. 0 * (b * b) + (e * b + x) = e * b + x
  OBVIOUS
<1>5. 0 % b = 0
  BY DivMod, 0 * b + 0 = 0
<1> QED
  BY <1>3, <1>4, <1>5

(* Whatever format shifted out of a term, reading it back shifts in: the   *)
(* entry id tells how much, because it is never zero.                      *)
THEOREM TermReadsBack ==
  ASSUME NEW t \in Term, t.entry_id # 0
  PROVE  ParseTerm(FormatTerm(t)) = t
<1> DEFINE e == t.entry_id
           x == t.arg1
           y == t.arg2
           i == Packed(Base, e, x, y)
           j == e * Base + x
<1>1. /\ Base \in Nat /\ Base > 1 /\ Base > 0 /\ Base - 1 \in 0..(Base - 1)
      /\ e \in 1..(Base - 1) /\ e \in 0..(Base - 1) /\ x \in 0..(Base - 1) /\ y \in 0..(Base - 1)
  BY IdiomFormatAssumption DEF Term
<1>2. t = [entry_id |-> e, arg1 |-> x, arg2 |-> y]
  BY DEF Term
<1> HIDE DEF e, x, y
<1>3. /\ i % Base = y /\ i \div Base = j /\ (i \div Base) % Base = x
      /\ i \div (Base * Base) = e
  BY <1>1, Fields
<1>4. j % Base = x /\ j \div Base = e
  BY <1>1, DivMod
<1>5. e % Base = e
  BY <1>1, DivMod, 0 * Base + e = e
<1>6. (j \div (Base * Base)) % Base = 0
  BY <1>1, NoThirdField
<1>7. (e \div (Base * Base)) % Base = 0
  BY <1>1, NoThirdField, 0 * Base + e = e
<1>8. FormatTerm(t) = ShiftOut(ShiftOut(i))
  BY <1>2 DEF FormatTerm, to_int, Packed
<1>9. y = Base - 1 => j * Base + NOARG = i
  BY <1>1 DEF NOARG, Packed
<1>10. x = Base - 1 => e * Base + NOARG = j
  BY <1>1 DEF NOARG
<1> HIDE DEF i, j
<1>11. ShiftIn(i) = i
  BY <1>1, <1>3, <1>5 DEF ShiftIn
<1>12. from_int(i) = t
  BY <1>2, <1>3, <1>5 DEF from_int
<1>13. CASE y # Base - 1
  <2>1. FormatTerm(t) = i
    BY <1>8, <1>13, <1>3 DEF ShiftOut, NOARG
  <2> QED
    BY <2>1, <1>11, <1>12 DEF ParseTerm
<1>14. CASE y = Base - 1 /\ x # Base - 1
  <2>1. FormatTerm(t) = j
    BY <1>8, <1>14, <1>3, <1>4 DEF ShiftOut, NOARG
  <2>2. ShiftIn(j) = i
    BY <1>6, <1>9, <1>14 DEF ShiftIn
  <2> QED
    BY <2>1, <2>2, <1>11, <1>12 DEF ParseTerm
<1>15. CASE y = Base - 1 /\ x = Base - 1
  <2>1. FormatTerm(t) = e
    BY <1>8, <1>15, <1>3, <1>4 DEF ShiftOut, NOARG
  <2>2. ShiftIn(e) = j
    BY <1>7, <1>10, <1>15 DEF ShiftIn
  <2>3. ShiftIn(j) = i
    BY <1>6, <1>9, <1>15 DEF ShiftIn
  <2> QED
    BY <2>1, <2>2, <2>3, <1>12 DEF ParseTerm
<1> QED
  BY <1>13, <1>14, <1>15

(* Two idioms with the same string are the same: the counts of different   *)
(* features are never added up under one line of .featlist.                *)
THEOREM StringsAreCanonical ==
  ASSUME NEW s \in Seq(Term), NEW r \in Seq(Term),
         \A k \in DOMAIN s : s[k].entry_id # 0,
         \A k \in DOMAIN r : r[k].entry_id # 0,
         Format(s) = Format(r)
  PROVE  s = r
<1>1. DOMAIN s = DOMAIN r /\ Len(s) = Len(r)
  <2>1. DOMAIN Format(s) = DOMAIN s /\ DOMAIN Format(r) = DOMAIN r
    BY DEF Format
  <2>2. /\ DOMAIN s = 1..Len(s) /\ Len(s) \in Nat
        /\ DOMAIN r = 1..Len(r) /\ Len(r) \in Nat
    OBVIOUS
  <2>3. Len(s) <= Len(r)
    <3>1. Len(s) = 0 \/ Len(s) \in 1..Len(r)
      BY <2>1, <2>2
    <3> QED
      BY <3>1, <2>2
  <2>4. Len(r) <= Len(s)
    <3>1. Len(r) = 0 \/ Len(r) \in 1..Len(s)
      BY <2>1, <2>2
    <3> QED
      BY <3>1, <2>2
  <2>5. Len(s) = Len(r)
    <3>1. Len(s) \in Int /\ Len(r) \in Int
      OBVIOUS
    <3>2. \A m, n \in Int : m <= n /\ n <= m => m = n
      OBVIOUS
    <3> QED
      BY <2>3, <2>4, <3>1, <3>2, Zenon
  <2>6. DOMAIN s = DOMAIN r
    BY <2>1, Zenon
  <2> QED
    BY <2>5, <2>6, Zenon
<1>2. ASSUME NEW k \in DOMAIN s
      PROVE  s[k] = r[k]
  <2>1. s[k] \in Term /\ r[k] \in Term
    BY <1>1
  <2>2. FormatTerm(s[k]) = FormatTerm(r[k])
    <3>1. Format(s)[k] = FormatTerm(s[k]) /\ Format(r)[k] = FormatTerm(r[k])
      BY <1>1 DEF Format
    <3> QED
      BY <3>1
  <2>3. ParseTerm(FormatTerm(s[k])) = s[k] /\ ParseTerm(FormatTerm(r[k])) = r[k]
    BY <1>1, <2>1, TermReadsBack
  <2> QED
    BY <2>2, <2>3
<1> QED
  BY <1>1, <1>2

-----------------------------------------------------------------------------
(***************************************************************************)
(* FeatureAnalyzer: the threads, for any set of functions, any team of     *)
(* workers and any features.                                               *)
(***************************************************************************)
USE DEF t1
-----------------------------------------------------------------------------
(* The state is always of its type: in particular the consumer never takes *)
(* the front of an empty queue, and only text functions get into it.       *)
(* TypeOK is inductive with Points: a thread has a record in hand exactly  *)
(* where its code uses one, and the threads are at compatible points of    *)
(* their code, as the spawns, the joins, the barrier and finish order them.*)
Points ==
  /\ \A w \in Workers : worker[w] = "push" <=> idt[w] # NULL
  /\ consumer = "print" <=> item # NULL
  /\ item # NULL => todo \subseteq DOMAIN FeatPair[item]
  /\ consumer = "unborn" <=> main = "spawn_t1"
  /\ consumer = "exited" => done
  /\ done <=> main \in {"finish_notify", "join_t1", "exited"}
  /\ main \in {"spawn_t1", "spawn_t2"} => producer = "unborn"
  /\ main \in {"finish", "finish_notify", "join_t1", "exited"} => producer = "exited"
  /\ producer \in {"unborn", "collect"} =>
       next = 1 /\ enqueued = <<>> /\ (\A w \in Workers : worker[w] = "outside")
  /\ producer \in {"parallel", "exited"} => \A w \in Workers : worker[w] # "outside"
  /\ \A w \in Workers : worker[w] = "barrier" => next > Len(fvec)
  /\ producer = "exited" => \A w \in Workers : worker[w] = "barrier"

LEMMA InitType == Init => TypeOK /\ Points
<1> SUFFICES ASSUME Init PROVE TypeOK /\ Points
  OBVIOUS
<1>1. Points
  BY DEF Init, Points, QueueInit
<1>2. /\ featureIndex \in [DOMAIN featureIndex -> Nat \ {0}]
      /\ DOMAIN featureIndex \subseteq Features
  BY DEF Init
<1>3. /\ worker \in [Workers -> {"outside", "claim", "push", "notify", "barrier"}]
      /\ idt \in [Workers -> TextFunctions \union {NULL}]
  BY DEF Init
<1>4. /\ q \in Seq(TextFunctions) /\ fvec \in Seq(TextFunctions) /\ enqueued \in Seq(TextFunctions)
      /\ instances \in Seq(InstanceLine)
  BY DEF Init, QueueInit
<1>5. /\ item \in TextFunctions \union {NULL} /\ next \in Nat \ {0}
      /\ main \in {"spawn_t1", "spawn_t2", "join_t2", "finish", "finish_notify", "join_t1", "exited"}
      /\ producer \in {"unborn", "collect", "parallel", "exited"}
      /\ consumer \in {"unborn", "dequeue", "print", "exited"}
  BY DEF Init
<1>6. /\ done \in BOOLEAN /\ waiters \subseteq {t1}
      /\ todo \subseteq Features /\ line \subseteq (Nat \X Nat) /\ featlist \subseteq (Nat \X Features)
  BY Zenon DEF Init, QueueInit
<1> QED
  BY <1>1, <1>2, <1>3, <1>4, <1>5, <1>6, Zenon DEF TypeOK

LEMMA SortedIsSeq == SortedByBlocks \subseteq Seq(TextFunctions)
<1>1. IsFiniteSet(TextFunctions)
  BY FeatureAnalyzerAssumption, FS_Subset DEF TextFunctions
<1>2. Cardinality(TextFunctions) \in Nat
  BY <1>1, FS_CardinalityType
<1>3. SortedByBlocks \subseteq [1..Cardinality(TextFunctions) -> TextFunctions]
  BY DEF SortedByBlocks
<1> QED
  BY <1>2, <1>3, SeqDef

LEMMA NextType == TypeOK /\ Points /\ [Next]_vars => TypeOK' /\ Points'
<1> SUFFICES ASSUME TypeOK, Points, [Next]_vars PROVE TypeOK' /\ Points'
  OBVIOUS
<1>0. NULL \notin TextFunctions
  BY FeatureAnalyzerAssumption DEF TextFunctions
<1> USE <1>0 DEF TypeOK, Points
<1>1. CASE MainStep
  <2> USE DEF queueVars, loopVars, outputVars
  <2>1. CASE SpawnConsumer \/ SpawnProducer \/ JoinProducer
    BY <2>1 DEF SpawnConsumer, SpawnProducer, JoinProducer
  <2>2. CASE FinishSetDone \/ FinishNotify
    BY <2>2 DEF FinishSetDone, FinishNotify, SetDone, NotifyAll
  <2>3. CASE JoinConsumerAndPrintFeatureList
    BY <2>3 DEF JoinConsumerAndPrintFeatureList
  <2> QED
    BY <1>1, <2>1, <2>2, <2>3 DEF MainStep
<1>2. CASE ProducerStep
  <2>1. CASE Collect
    <3>3. fvec' \in Seq(TextFunctions)
      BY <2>1, SortedIsSeq DEF Collect
    <3> QED
      BY <2>1, <3>3 DEF Collect, queueVars, outputVars
  <2>2. CASE Barrier
    BY <2>2 DEF Barrier, queueVars, loopVars, outputVars
  <2> QED
    BY <1>2, <2>1, <2>2 DEF ProducerStep
<1>3. ASSUME NEW w \in Workers, WorkerStep(w) PROVE TypeOK' /\ Points'
  <2> USE DEF queueVars, loopVars, outputVars
  <2>1. CASE Claim(w)
    BY <2>1 DEF Claim
  <2>2. CASE EnqueuePush(w)
    BY <2>2 DEF EnqueuePush, Push
  <2>3. CASE EnqueueNotify(w)
    BY <2>3 DEF EnqueueNotify, NotifyAll
  <2>4. CASE NoneLeft(w)
    BY <2>4 DEF NoneLeft
  <2> QED
    BY <1>3, <2>1, <2>2, <2>3, <2>4 DEF WorkerStep
<1>4. CASE ConsumerStep
  <2> USE DEF queueVars, loopVars, outputVars
  <2>1. CASE ConsumerWaits \/ ConsumerStops
    BY <2>1 DEF ConsumerWaits, ConsumerStops, DequeueWait, DequeueNull
  <2>2. CASE ConsumerTakes
    <3>1. Head(q) \in TextFunctions /\ Tail(q) \in Seq(TextFunctions)
      BY <2>2 DEF ConsumerTakes, DequeueItem
    <3>2. DOMAIN FeatPair[Head(q)] \subseteq Features
      BY <3>1, FeatureAnalyzerAssumption DEF TextFunctions
    <3> QED
      BY <2>2, <3>1, <3>2 DEF ConsumerTakes, DequeueItem
  <2>3. ASSUME NEW feat \in Features, PrintPair(feat) PROVE TypeOK' /\ Points'
    <3>1. Cardinality(DOMAIN featureIndex) + 1 \in Nat \ {0}
      BY FeatureAnalyzerAssumption, FS_Subset, FS_CardinalityType
    <3>2. /\ featureIndex' \in [DOMAIN featureIndex' -> Nat \ {0}]
          /\ DOMAIN featureIndex' = DOMAIN featureIndex \union {feat}
      BY <2>3, <3>1 DEF PrintPair, GetFeatureIndex
    <3>3. FeatPair[item][feat] \in Nat
      <4>1. item \in Functions /\ feat \in DOMAIN FeatPair[item]
        BY <2>3 DEF PrintPair, TextFunctions
      <4> QED
        BY <4>1, FeatureAnalyzerAssumption
    <3>4. line' \subseteq (Nat \X Nat)
      BY <2>3, <3>2, <3>3 DEF PrintPair
    <3> QED
      BY <2>3, <3>2, <3>4 DEF PrintPair
  <2>4. CASE EndLine
    <3>1. [addr |-> item, pairs |-> line] \in InstanceLine
      BY <2>4 DEF EndLine, InstanceLine
    <3> QED
      BY <2>4, <3>1 DEF EndLine
  <2> QED
    BY <1>4, <2>1, <2>2, <2>3, <2>4 DEF ConsumerStep
<1>5. CASE ConsumerWakesSpuriously
  BY <1>5 DEF ConsumerWakesSpuriously, SpuriousWakeup, loopVars, outputVars
<1>6. CASE UNCHANGED vars
  BY <1>6 DEF vars, queueVars, loopVars, outputVars
<1> QED
  BY <1>1, <1>2, <1>3, <1>4, <1>5, <1>6 DEF Next, Exited

LEMMA TypedAlways == Spec => [](TypeOK /\ Points)
  BY InitType, NextType, PTL DEF Spec

THEOREM TypeCorrect == Spec => []TypeOK
  BY TypedAlways, PTL
-----------------------------------------------------------------------------
(* No wakeup of the consumer is lost, whatever the number of workers whose *)
(* notify_all runs without the lock: NoLostWakeup is inductive over the    *)
(* typed states.                                                           *)
LEMMA InitWakeup == Init => NoLostWakeup
  BY DEF Init, QueueInit, NoLostWakeup

LEMMA NextWakeup == TypeOK /\ Points /\ NoLostWakeup /\ [Next]_vars => NoLostWakeup'
<1> SUFFICES ASSUME TypeOK, Points, NoLostWakeup, [Next]_vars PROVE NoLostWakeup'
  OBVIOUS
<1> USE DEF NoLostWakeup
<1>1. CASE MainStep
  BY <1>1 DEF MainStep, SpawnConsumer, SpawnProducer, JoinProducer, FinishSetDone, FinishNotify,
     JoinConsumerAndPrintFeatureList, SetDone, NotifyAll, queueVars
<1>2. CASE ProducerStep
  <2>1. CASE Collect
    BY <2>1 DEF Collect, queueVars, TypeOK, Points
  <2>2. CASE Barrier
    BY <2>2 DEF Barrier, queueVars
  <2> QED
    BY <1>2, <2>1, <2>2 DEF ProducerStep
<1>3. ASSUME NEW w \in Workers, WorkerStep(w) PROVE NoLostWakeup'
  <2>1. CASE Claim(w) \/ NoneLeft(w)
    BY <2>1 DEF Claim, NoneLeft, queueVars, TypeOK
  <2>2. CASE EnqueuePush(w)
    (* The worker that pushes is the one that is about to notify.          *)
    BY <2>2 DEF EnqueuePush, Push, TypeOK
  <2>3. CASE EnqueueNotify(w)
    BY <2>3 DEF EnqueueNotify, NotifyAll
  <2> QED
    BY <1>3, <2>1, <2>2, <2>3 DEF WorkerStep
<1>4. CASE ConsumerStep
  <2>1. CASE ConsumerWaits
    (* The consumer starts to wait in a state with nothing to wait for.    *)
    BY <2>1 DEF ConsumerWaits, DequeueWait
  <2>2. CASE ConsumerTakes \/ ConsumerStops
    BY <2>2 DEF ConsumerTakes, ConsumerStops, DequeueItem, DequeueNull, queueVars
  <2>3. CASE EndLine \/ \E feat \in Features : PrintPair(feat)
    BY <2>3 DEF EndLine, PrintPair, queueVars
  <2> QED
    BY <1>4, <2>1, <2>2, <2>3 DEF ConsumerStep
<1>5. CASE ConsumerWakesSpuriously
  BY <1>5 DEF ConsumerWakesSpuriously, SpuriousWakeup
<1>6. CASE UNCHANGED vars
  BY <1>6 DEF vars, queueVars
<1> QED
  BY <1>1, <1>2, <1>3, <1>4, <1>5, <1>6 DEF Next, Exited

THEOREM WakeupNotLost == Spec => []NoLostWakeup
  BY TypedAlways, InitWakeup, NextWakeup, PTL DEF Spec
-----------------------------------------------------------------------------
(* Where the records are. Collected: fvec holds every text function once.  *)
(* Handed: what the loop has handed out is in one worker's hand or was     *)
(* enqueued once. Fifo: what was enqueued is, in this order, in the file,  *)
(* in the consumer's hand and in the queue.                                *)
Collected ==
  producer \in {"parallel", "exited"} =>
    /\ \A i, j \in 1..Len(fvec) : fvec[i] = fvec[j] => i = j
    /\ \A f \in TextFunctions : \E i \in 1..Len(fvec) : fvec[i] = f

InPrefix(f, s, n) == \E i \in 1..Len(s) : i < n /\ s[i] = f
InHand(f, h)      == \E w \in Workers : h[w] = f
InSeq(f, s)       == \E k \in 1..Len(s) : s[k] = f

Handed ==
  /\ \A w \in Workers : idt[w] # NULL => InPrefix(idt[w], fvec, next) /\ ~InSeq(idt[w], enqueued)
  /\ \A v, w \in Workers : idt[v] = idt[w] /\ idt[v] # NULL => v = w
  /\ \A k \in 1..Len(enqueued) : InPrefix(enqueued[k], fvec, next)
  /\ \A k, l \in 1..Len(enqueued) : enqueued[k] = enqueued[l] => k = l
  /\ \A i \in 1..Len(fvec) : i < next => InHand(fvec[i], idt) \/ InSeq(fvec[i], enqueued)

Hand == IF item = NULL THEN 0 ELSE 1

Fifo ==
  /\ Len(enqueued) = Len(instances) + Hand + Len(q)
  /\ \A i \in 1..Len(instances) : instances[i].addr = enqueued[i]
  /\ item # NULL => item = enqueued[Len(instances) + 1]
  /\ \A i \in 1..Len(q) : q[i] = enqueued[Len(instances) + Hand + i]

(* The steps that move records: the others leave the loop's state and what *)
(* was enqueued, or the records on their way to the file, as they are.     *)
LEMMA LoopSteps ==
  ASSUME Points, [Next]_vars
  PROVE  \/ Collect
         \/ \E w \in Workers : Claim(w) \/ EnqueuePush(w)
         \/ /\ UNCHANGED <<loopVars, enqueued>>
            /\ producer' \in {"parallel", "exited"} <=> producer \in {"parallel", "exited"}
<1> USE DEF Points, loopVars
<1>1. CASE MainStep
  BY <1>1 DEF MainStep, SpawnConsumer, SpawnProducer, JoinProducer, FinishSetDone, FinishNotify,
     JoinConsumerAndPrintFeatureList
<1>2. CASE ProducerStep
  BY <1>2 DEF ProducerStep, Barrier
<1>3. CASE \E w \in Workers : WorkerStep(w)
  BY <1>3 DEF WorkerStep, EnqueueNotify, NoneLeft
<1>4. CASE ConsumerStep \/ ConsumerWakesSpuriously
  BY <1>4 DEF ConsumerStep, ConsumerWaits, ConsumerTakes, ConsumerStops, PrintPair, EndLine,
     ConsumerWakesSpuriously
<1>5. CASE UNCHANGED vars
  BY <1>5 DEF vars
<1> QED
  BY <1>1, <1>2, <1>3, <1>4, <1>5 DEF Next, Exited

LEMMA RecordSteps ==
  ASSUME [Next]_vars
  PROVE  \/ \E w \in Workers : EnqueuePush(w)
         \/ ConsumerTakes \/ EndLine
         \/ UNCHANGED <<q, item, instances, enqueued>>
<1> USE DEF queueVars, outputVars
<1>1. CASE MainStep
  BY <1>1 DEF MainStep, SpawnConsumer, SpawnProducer, JoinProducer, FinishSetDone, FinishNotify,
     JoinConsumerAndPrintFeatureList, SetDone, NotifyAll
<1>2. CASE ProducerStep
  BY <1>2 DEF ProducerStep, Collect, Barrier
<1>3. CASE \E w \in Workers : WorkerStep(w)
  BY <1>3 DEF WorkerStep, Claim, EnqueueNotify, NoneLeft, NotifyAll
<1>4. CASE ConsumerStep \/ ConsumerWakesSpuriously
  BY <1>4 DEF ConsumerStep, ConsumerWaits, ConsumerStops, PrintPair, DequeueWait, DequeueNull,
     ConsumerWakesSpuriously, SpuriousWakeup
<1>5. CASE UNCHANGED vars
  BY <1>5 DEF vars
<1> QED
  BY <1>1, <1>2, <1>3, <1>4, <1>5 DEF Next, Exited

LEMMA NextCollected == TypeOK /\ Points /\ Collected /\ [Next]_vars => Collected'
<1> SUFFICES ASSUME TypeOK, Points, Collected, [Next]_vars PROVE Collected'
  OBVIOUS
<1>1. CASE Collect
  <2>1. IsFiniteSet(TextFunctions)
    BY FeatureAnalyzerAssumption, FS_Subset DEF TextFunctions
  <2> DEFINE n == Cardinality(TextFunctions)
  <2>2. n \in Nat
    BY <2>1, FS_CardinalityType
  <2>3. /\ fvec' \in [1..n -> TextFunctions]
        /\ \A f \in TextFunctions : \E i \in DOMAIN fvec' : fvec'[i] = f
        /\ \A i, j \in DOMAIN fvec' : i < j => fvec'[i] # fvec'[j]
    BY <1>1 DEF Collect, SortedByBlocks
  <2>4. Len(fvec') = n
    BY <2>2, <2>3
  <2> HIDE DEF n
  <2>5. DOMAIN fvec' = 1..Len(fvec')
    BY <2>3, <2>4
  <2>6. \A i, j \in 1..Len(fvec') : fvec'[i] = fvec'[j] => i = j
    BY <2>3, <2>5, <2>2, <2>4
  <2> QED
    BY <2>3, <2>5, <2>6 DEF Collected
<1>2. CASE \E w \in Workers : Claim(w) \/ EnqueuePush(w)
  BY <1>2 DEF Claim, EnqueuePush, Collected
<1>3. CASE /\ UNCHANGED <<loopVars, enqueued>>
           /\ producer' \in {"parallel", "exited"} <=> producer \in {"parallel", "exited"}
  BY <1>3 DEF Collected, loopVars
<1> QED
  BY <1>1, <1>2, <1>3, LoopSteps

LEMMA NextHanded == TypeOK /\ Points /\ Collected /\ Handed /\ [Next]_vars => Handed'
<1> SUFFICES ASSUME TypeOK, Points, Collected, Handed, [Next]_vars PROVE Handed'
  OBVIOUS
<1>1. CASE Collect
  <2>1. /\ next' = 1 /\ enqueued' = <<>> /\ idt' = idt
        /\ \A w \in Workers : idt'[w] = NULL
    BY <1>1 DEF Collect, Points, TypeOK
  <2> QED
    BY <2>1 DEF Handed, InPrefix, InHand, InSeq
<1>2. ASSUME NEW w \in Workers, Claim(w) PROVE Handed'
  <2>1. /\ next \in 1..Len(fvec) /\ fvec' = fvec /\ next' = next + 1 /\ enqueued' = enqueued
        /\ idt[w] = NULL /\ idt' = [idt EXCEPT ![w] = fvec[next]]
    BY <1>2 DEF Claim, Points, TypeOK
  <2>2. \A i, j \in 1..Len(fvec) : fvec[i] = fvec[j] => i = j
    BY <1>2 DEF Claim, Collected, Points, TypeOK
  <2>3. ~InPrefix(fvec[next], fvec, next)
    BY <2>1, <2>2 DEF InPrefix
  <2>4. \A f : InPrefix(f, fvec', next') <=> InPrefix(f, fvec, next) \/ f = fvec[next]
    BY <2>1 DEF InPrefix, TypeOK
  <2>5. ~InSeq(fvec[next], enqueued) /\ \A v \in Workers : idt[v] # fvec[next] \/ idt[v] = NULL
    BY <2>3 DEF Handed, InSeq
  <2>6. \A f : InSeq(f, enqueued') <=> InSeq(f, enqueued)
    BY <2>1 DEF InSeq
  <2>7. idt'[w] = fvec[next] /\ \A v \in Workers \ {w} : idt'[v] = idt[v]
    BY <2>1 DEF TypeOK
  <2>8. \A v \in Workers : idt'[v] # NULL => InPrefix(idt'[v], fvec', next') /\ ~InSeq(idt'[v], enqueued')
    BY <2>4, <2>5, <2>6, <2>7 DEF Handed
  <2>9. \A u, v \in Workers : idt'[u] = idt'[v] /\ idt'[u] # NULL => u = v
    BY <2>5, <2>7 DEF Handed
  <2>10. \A k \in 1..Len(enqueued') : InPrefix(enqueued'[k], fvec', next')
    BY <2>1, <2>4 DEF Handed
  <2>11. \A i \in 1..Len(fvec') : i < next' => InHand(fvec'[i], idt') \/ InSeq(fvec'[i], enqueued')
    <3> SUFFICES ASSUME NEW i \in 1..Len(fvec), i < next + 1
                 PROVE  InHand(fvec[i], idt') \/ InSeq(fvec[i], enqueued')
      BY <2>1
    <3>1. CASE i = next
      BY <3>1, <2>7 DEF InHand
    <3>2. CASE i < next
      <4>1. CASE InSeq(fvec[i], enqueued)
        BY <4>1, <2>6
      <4>2. CASE InHand(fvec[i], idt)
        <5>1. fvec[i] # NULL
          BY FeatureAnalyzerAssumption DEF TypeOK, TextFunctions
        <5> QED
          BY <4>2, <5>1, <2>1, <2>7 DEF InHand
      <4> QED
        BY <3>2, <4>1, <4>2 DEF Handed
    <3> QED
      BY <3>1, <3>2, <2>1
  <2> QED
    BY <2>1, <2>8, <2>9, <2>10, <2>11 DEF Handed
<1>3. ASSUME NEW w \in Workers, EnqueuePush(w) PROVE Handed'
  <2>1. /\ fvec' = fvec /\ next' = next /\ enqueued' = Append(enqueued, idt[w])
        /\ idt[w] \in TextFunctions /\ idt' = [idt EXCEPT ![w] = NULL]
        /\ idt[w] # NULL
    BY <1>3 DEF EnqueuePush, Points, TypeOK
  <2>2. /\ Len(enqueued') = Len(enqueued) + 1 /\ enqueued'[Len(enqueued) + 1] = idt[w]
        /\ \A k \in 1..Len(enqueued) : enqueued'[k] = enqueued[k]
        /\ Len(enqueued) \in Nat
    BY <2>1 DEF TypeOK
  <2>3. idt'[w] = NULL /\ \A v \in Workers \ {w} : idt'[v] = idt[v]
    BY <2>1 DEF TypeOK
  <2>4. \A f : InPrefix(f, fvec', next') <=> InPrefix(f, fvec, next)
    BY <2>1 DEF InPrefix
  <2>5. \A f : InSeq(f, enqueued') <=> InSeq(f, enqueued) \/ f = idt[w]
    BY <2>2 DEF InSeq
  <2>6. \A v \in Workers : idt'[v] # NULL => InPrefix(idt'[v], fvec', next') /\ ~InSeq(idt'[v], enqueued')
    BY <2>1, <2>3, <2>4, <2>5 DEF Handed
  <2>7. \A u, v \in Workers : idt'[u] = idt'[v] /\ idt'[u] # NULL => u = v
    BY <2>3 DEF Handed
  <2>8. \A k \in 1..Len(enqueued') : InPrefix(enqueued'[k], fvec', next')
    BY <2>1, <2>2, <2>4 DEF Handed
  <2>9. \A k, l \in 1..Len(enqueued') : enqueued'[k] = enqueued'[l] => k = l
    <3>1. \A k \in 1..Len(enqueued) : enqueued[k] # idt[w]
      BY <2>1 DEF Handed, InSeq
    <3> QED
      BY <3>1, <2>2 DEF Handed
  <2>10. \A i \in 1..Len(fvec') : i < next' => InHand(fvec'[i], idt') \/ InSeq(fvec'[i], enqueued')
    BY <2>1, <2>3, <2>5 DEF Handed, InHand
  <2> QED
    BY <2>6, <2>7, <2>8, <2>9, <2>10 DEF Handed
<1>4. CASE UNCHANGED <<loopVars, enqueued>>
  BY <1>4 DEF Handed, InPrefix, InHand, InSeq, loopVars
<1> QED
  BY <1>1, <1>2, <1>3, <1>4, LoopSteps

LEMMA NextFifo == TypeOK /\ Points /\ Fifo /\ [Next]_vars => Fifo'
<1> SUFFICES ASSUME TypeOK, Points, Fifo, [Next]_vars PROVE Fifo'
  OBVIOUS
<1> USE DEF Fifo
<1>0. /\ Len(enqueued) \in Nat /\ Len(instances) \in Nat /\ Len(q) \in Nat
      /\ NULL \notin TextFunctions /\ Hand \in {0, 1} /\ (item # NULL => Hand = 1)
  BY FeatureAnalyzerAssumption DEF TypeOK, TextFunctions, Hand
<1>1. ASSUME NEW w \in Workers, EnqueuePush(w) PROVE Fifo'
  <2>1. /\ enqueued' = Append(enqueued, idt[w]) /\ q' = Append(q, idt[w])
        /\ instances' = instances /\ item' = item /\ Hand' = Hand /\ idt[w] \in TextFunctions
    BY <1>1 DEF EnqueuePush, Push, outputVars, Points, TypeOK, Hand
  <2>2. /\ Len(enqueued') = Len(enqueued) + 1 /\ enqueued'[Len(enqueued) + 1] = idt[w]
        /\ \A k \in 1..Len(enqueued) : enqueued'[k] = enqueued[k]
    BY <2>1 DEF TypeOK
  <2>3. /\ Len(q') = Len(q) + 1 /\ q'[Len(q) + 1] = idt[w]
        /\ \A k \in 1..Len(q) : q'[k] = q[k]
    BY <2>1 DEF TypeOK
  <2>4. Len(enqueued') = Len(instances') + Hand' + Len(q')
    BY <1>0, <2>1, <2>2, <2>3
  <2>5. \A i \in 1..Len(instances') : instances'[i].addr = enqueued'[i]
    BY <1>0, <2>1, <2>2
  <2>6. item' # NULL => item' = enqueued'[Len(instances') + 1]
    BY <1>0, <2>1, <2>2
  <2>7. ASSUME NEW i \in 1..Len(q')
        PROVE  q'[i] = enqueued'[Len(instances') + Hand' + i]
    <3>1. CASE i = Len(q) + 1
      <4>1. Len(instances') + Hand' + i = Len(enqueued) + 1
        BY <3>1, <1>0, <2>1
      <4> QED
        BY <3>1, <4>1, <2>2, <2>3
    <3>2. CASE i # Len(q) + 1
      <4>1. i \in 1..Len(q) /\ Len(instances') + Hand' + i \in 1..Len(enqueued)
        BY <3>2, <1>0, <2>1, <2>3
      <4> QED
        BY <4>1, <2>1, <2>2, <2>3
    <3> QED
      BY <3>1, <3>2
  <2> QED
    BY <2>4, <2>5, <2>6, <2>7
<1>2. CASE ConsumerTakes
  (* The front leaves the queue: it becomes the record in hand.            *)
  <2>1. /\ q # <<>> /\ q' = Tail(q) /\ item' = Head(q) /\ item = NULL
        /\ instances' = instances /\ enqueued' = enqueued
    BY <1>2 DEF ConsumerTakes, DequeueItem, Points
  <2>2. /\ Len(q) >= 1 /\ Len(q') = Len(q) - 1 /\ item' = q[1] /\ item' # NULL
        /\ \A k \in 1..Len(q') : q'[k] = q[k + 1]
        /\ Hand = 0 /\ Hand' = 1
    BY <2>1, <1>0 DEF TypeOK, Hand
  <2>3. \A i \in 1..Len(q') : q'[i] = enqueued'[Len(instances') + Hand' + i]
    BY <1>0, <2>1, <2>2
  <2> QED
    BY <1>0, <2>1, <2>2, <2>3
<1>3. CASE EndLine
  (* The record in hand becomes the last line.                             *)
  <2>1. /\ q' = q /\ item' = NULL /\ item # NULL /\ enqueued' = enqueued
        /\ instances' = Append(instances, [addr |-> item, pairs |-> line])
    BY <1>3 DEF EndLine, Points, queueVars
  <2>2. /\ Len(instances') = Len(instances) + 1 /\ instances'[Len(instances) + 1].addr = item
        /\ \A k \in 1..Len(instances) : instances'[k] = instances[k]
        /\ Hand = 1 /\ Hand' = 0
    BY <2>1, <1>0 DEF TypeOK, Hand
  <2> QED
    BY <1>0, <2>1, <2>2
<1>4. CASE UNCHANGED <<q, item, instances, enqueued>>
  BY <1>4 DEF Hand
<1> QED
  BY <1>1, <1>2, <1>3, <1>4, RecordSteps

Records == TypeOK /\ Points /\ Collected /\ Handed /\ Fifo

LEMMA RecordsInvariant == Spec => []Records
<1>1. Init => Records
  <2>1. Init => Collected /\ Handed /\ Fifo
    BY DEF Init, QueueInit, Collected, Handed, InPrefix, InHand, InSeq, Fifo, Hand
  <2> QED
    BY <2>1, InitType DEF Records
<1>2. Records /\ [Next]_vars => Records'
  BY NextType, NextCollected, NextHanded, NextFifo DEF Records
<1> QED
  BY <1>1, <1>2, PTL DEF Spec

LEMMA SentOnce ==
  ASSUME Records, NEW f \in TextFunctions
  PROVE  /\ ~InSeq(f, enqueued) => /\ \A i \in DOMAIN q : q[i] # f
                                  /\ item # f
                                  /\ \A i \in DOMAIN instances : instances[i].addr # f
         /\ ~InPrefix(f, fvec, next) => ~InSeq(f, enqueued) /\ ~InHand(f, idt)
         /\ InHand(f, idt) => ~InSeq(f, enqueued)
<1> USE DEF Records
<1>0. /\ Len(enqueued) \in Nat /\ Len(instances) \in Nat /\ Len(q) \in Nat /\ Hand \in {0, 1}
      /\ f # NULL /\ (item # NULL => Hand = 1)
      /\ DOMAIN q = 1..Len(q) /\ DOMAIN instances = 1..Len(instances)
  BY FeatureAnalyzerAssumption DEF TypeOK, TextFunctions, Hand
<1>1. ASSUME ~InSeq(f, enqueued)
      PROVE  /\ \A i \in DOMAIN q : q[i] # f
             /\ item # f
             /\ \A i \in DOMAIN instances : instances[i].addr # f
  <2>1. \A k \in 1..Len(enqueued) : enqueued[k] # f
    BY <1>1 DEF InSeq
  <2>2. \A i \in 1..Len(q) : Len(instances) + Hand + i \in 1..Len(enqueued)
    BY <1>0 DEF Fifo
  <2>3. item # NULL => Len(instances) + 1 \in 1..Len(enqueued)
    BY <1>0 DEF Fifo
  <2>4. \A i \in 1..Len(instances) : i \in 1..Len(enqueued)
    BY <1>0 DEF Fifo
  <2> QED
    BY <1>0, <2>1, <2>2, <2>3, <2>4 DEF Fifo
<1>2. ~InPrefix(f, fvec, next) => ~InSeq(f, enqueued) /\ ~InHand(f, idt)
  BY <1>0 DEF Handed, InSeq, InHand
<1>3. InHand(f, idt) => ~InSeq(f, enqueued)
  BY <1>0 DEF Handed, InHand
<1> QED
  BY <1>1, <1>2, <1>3

(* Every text function's record is in exactly one place.                   *)
THEOREM RecordsAreNeitherLostNorDuplicated == Spec => []OneRecordPerFunction
<1>1. Records => OneRecordPerFunction
  <2> SUFFICES ASSUME Records, producer \in {"parallel", "exited"}, NEW f \in Functions
               PROVE  Holders(f) = IF f \in TextFunctions THEN 1 ELSE 0
    BY DEF OneRecordPerFunction
  <2> USE DEF Records
  <2> DEFINE A == { i \in DOMAIN fvec : i >= next /\ fvec[i] = f }
             B == { w \in Workers : idt[w] = f }
             C == { i \in DOMAIN q : q[i] = f }
             D == IF item = f THEN 1 ELSE 0
             E == { i \in DOMAIN instances : instances[i].addr = f }
  <2>0. /\ Len(enqueued) \in Nat /\ Len(instances) \in Nat /\ Len(q) \in Nat /\ Hand \in {0, 1}
        /\ f # NULL /\ (item # NULL <=> Hand = 1)
        /\ DOMAIN q = 1..Len(q) /\ DOMAIN instances = 1..Len(instances)
        /\ DOMAIN fvec = 1..Len(fvec) /\ Len(fvec) \in Nat /\ next \in Nat
    BY FeatureAnalyzerAssumption DEF TypeOK, Hand
  <2>1. Holders(f) = Cardinality(A) + Cardinality(B) + Cardinality(C) + D + Cardinality(E)
    BY DEF Holders
  <2>2. CASE f \notin TextFunctions
    <3>0. /\ \A i \in DOMAIN fvec : fvec[i] \in TextFunctions
          /\ \A i \in DOMAIN q : q[i] \in TextFunctions
          /\ \A i \in DOMAIN instances : instances[i].addr \in TextFunctions
          /\ \A w \in Workers : idt[w] \in TextFunctions \union {NULL}
          /\ item \in TextFunctions \union {NULL}
      <4>1. \A i \in DOMAIN fvec : fvec[i] \in TextFunctions
        BY DEF TypeOK
      <4>2. \A i \in DOMAIN q : q[i] \in TextFunctions
        BY DEF TypeOK
      <4>3. \A i \in DOMAIN instances : instances[i] \in InstanceLine
        BY DEF TypeOK
      <4>4. \A i \in DOMAIN instances : instances[i].addr \in TextFunctions
        BY <4>3 DEF InstanceLine
      <4> QED
        BY <4>1, <4>2, <4>4 DEF TypeOK
    <3>1. /\ A = {} /\ B = {} /\ C = {} /\ E = {}
          /\ D = 0
      BY <2>0, <2>2, <3>0
    <3> HIDE DEF A, B, C, D, E
    <3>2. Cardinality(A) = 0 /\ Cardinality(B) = 0 /\ Cardinality(C) = 0 /\ Cardinality(E) = 0
      BY <3>1, FS_EmptySet
    <3> QED
      BY <2>1, <2>2, <3>1, <3>2
  <2>3. CASE f \in TextFunctions /\ ~InPrefix(f, fvec, next)
    (* Not handed out yet.                                                 *)
    <3>1. PICK i \in 1..Len(fvec) : fvec[i] = f
      BY <2>3 DEF Collected
    <3>2. A = {i}
      BY <2>0, <2>3, <3>1 DEF InPrefix, Collected
    <3>3. ~InSeq(f, enqueued) /\ ~InHand(f, idt)
      BY <2>3, SentOnce
    <3>4. /\ B = {} /\ C = {} /\ E = {}
          /\ D = 0
      BY <2>3, <3>3, SentOnce DEF InHand
    <3> HIDE DEF A, B, C, D, E
    <3>5. Cardinality(A) = 1
      BY <3>2, FS_Singleton
    <3>6. Cardinality(B) = 0 /\ Cardinality(C) = 0 /\ Cardinality(E) = 0
      BY <3>4, FS_EmptySet
    <3> QED
      BY <2>1, <2>3, <3>4, <3>5, <3>6
  <2>4. CASE f \in TextFunctions /\ InPrefix(f, fvec, next)
    <3>1. PICK i \in 1..Len(fvec) : i < next /\ fvec[i] = f
      BY <2>4 DEF InPrefix
    <3>2. A = {}
      BY <2>0, <3>1 DEF Collected
    <3>3. Cardinality(A) = 0
      BY <3>2, FS_EmptySet
    <3>4. CASE InHand(f, idt)
      (* In one worker's hand.                                             *)
      <4>1. PICK w \in Workers : idt[w] = f
        BY <3>4 DEF InHand
      <4>2. B = {w}
        BY <2>0, <4>1 DEF Handed
      <4>3. ~InSeq(f, enqueued)
        BY <2>4, <3>4, SentOnce
      <4>4. /\ C = {} /\ E = {}
            /\ D = 0
        BY <2>4, <4>3, SentOnce
      <4> HIDE DEF A, B, C, D, E
      <4>5. Cardinality(B) = 1
        BY <4>2, FS_Singleton
      <4>6. Cardinality(C) = 0 /\ Cardinality(E) = 0
        BY <4>4, FS_EmptySet
      <4> QED
        BY <2>1, <2>4, <3>3, <4>4, <4>5, <4>6
    <3>5. CASE ~InHand(f, idt)
      (* Enqueued, as number k: a line, the record in hand or in the queue.*)
      <4>1. PICK k \in 1..Len(enqueued) : enqueued[k] = f
        BY <3>1, <3>5 DEF Handed, InSeq
      <4>2. \A l \in 1..Len(enqueued) : enqueued[l] = f => l = k
        BY <4>1 DEF Handed
      <4>3. /\ \A l \in E : l = k
            /\ \A l \in C : Len(instances) + Hand + l = k
            /\ item = f => k = Len(instances) + 1
        <5>1. \A l \in 1..Len(instances) : l \in 1..Len(enqueued) /\ enqueued[l] = instances[l].addr
          BY <2>0 DEF Fifo
        <5>2. \A l \in 1..Len(q) : /\ Len(instances) + Hand + l \in 1..Len(enqueued)
                                   /\ enqueued[Len(instances) + Hand + l] = q[l]
          BY <2>0 DEF Fifo
        <5>3. item = f => /\ Len(instances) + 1 \in 1..Len(enqueued)
                          /\ enqueued[Len(instances) + 1] = f
          BY <2>0 DEF Fifo
        <5> QED
          BY <2>0, <4>2, <5>1, <5>2, <5>3
      <4>4. Len(enqueued) = Len(instances) + Hand + Len(q)
        BY DEF Fifo
      <4>5. B = {}
        BY <3>5 DEF InHand
      <4>6. Cardinality(B) = 0
        BY <4>5, FS_EmptySet
      <4>7. CASE k \in 1..Len(instances)
        <5>1. E = {k} /\ C = {} /\ D = 0
          BY <2>0, <4>1, <4>3, <4>7 DEF Fifo
        <5> HIDE DEF A, B, C, D, E
        <5>2. Cardinality(E) = 1
          BY <5>1, FS_Singleton
        <5>3. Cardinality(C) = 0
          BY <5>1, FS_EmptySet
        <5> QED
          BY <5>1, <5>2, <5>3, <2>1, <2>4, <3>3, <4>6
      <4>8. CASE Hand = 1 /\ k = Len(instances) + 1
        <5>1. D = 1 /\ E = {} /\ C = {}
          BY <2>0, <4>1, <4>3, <4>8 DEF Fifo
        <5> HIDE DEF A, B, C, D, E
        <5> QED
          BY <5>1, <2>1, <2>4, <3>3, <4>6, FS_EmptySet
      <4>9. CASE k > Len(instances) + Hand
        <5> DEFINE j == k - Len(instances) - Hand
        <5>1. j \in 1..Len(q) /\ Len(instances) + Hand + j = k
          BY <2>0, <4>4, <4>9
        <5>2. C = {j} /\ E = {} /\ D = 0
          BY <2>0, <4>1, <4>3, <4>9, <5>1 DEF Fifo
        <5> HIDE DEF A, B, C, D, E, j
        <5>3. Cardinality(C) = 1
          BY <5>2, FS_Singleton
        <5>4. Cardinality(E) = 0
          BY <5>2, FS_EmptySet
        <5> QED
          BY <5>2, <5>3, <5>4, <2>1, <2>4, <3>3, <4>6
      <4> QED
        BY <2>0, <4>4, <4>7, <4>8, <4>9
    <3> QED
      BY <3>4, <3>5
  <2> QED
    BY <2>2, <2>3, <2>4
<1> QED
  BY <1>1, RecordsInvariant, PTL
-----------------------------------------------------------------------------
(* The extraction implements the stream. Five actions are visible in it:   *)
(* the push, the end of a line, the setting of done and the consumer's     *)
(* return.                                                                 *)
LEMMA StreamSteps ==
  ASSUME Points, [Next]_vars
  PROVE  \/ \E w \in Workers : EnqueuePush(w)
         \/ EndLine \/ FinishSetDone \/ ConsumerStops
         \/ /\ UNCHANGED <<enqueued, instances, done>>
            /\ consumer' = "exited" <=> consumer = "exited"
<1> USE DEF queueVars, outputVars
<1>1. CASE MainStep
  BY <1>1 DEF MainStep, SpawnConsumer, SpawnProducer, JoinProducer, FinishNotify,
     JoinConsumerAndPrintFeatureList, NotifyAll, Points
<1>2. CASE ProducerStep
  BY <1>2 DEF ProducerStep, Collect, Barrier
<1>3. CASE \E w \in Workers : WorkerStep(w)
  BY <1>3 DEF WorkerStep, Claim, EnqueueNotify, NoneLeft, NotifyAll
<1>4. CASE ConsumerStep \/ ConsumerWakesSpuriously
  BY <1>4 DEF ConsumerStep, ConsumerWaits, ConsumerTakes, PrintPair, DequeueWait, DequeueItem,
     ConsumerWakesSpuriously, SpuriousWakeup
<1>5. CASE UNCHANGED vars
  BY <1>5 DEF vars
<1> QED
  BY <1>1, <1>2, <1>3, <1>4, <1>5 DEF Next, Exited

WrittenSeqIsTheAddresses ==
  /\ WrittenSeq \in Seq(TextFunctions)
  /\ Len(WrittenSeq) = Len(instances)
  /\ \A i \in 1..Len(instances) : WrittenSeq[i] = instances[i].addr

LEMMA WrittenType == TypeOK => WrittenSeqIsTheAddresses
<1> SUFFICES ASSUME TypeOK PROVE WrittenSeqIsTheAddresses
  OBVIOUS
<1> USE DEF WrittenSeqIsTheAddresses
<1>1. Len(instances) \in Nat /\ \A i \in 1..Len(instances) : instances[i] \in InstanceLine
  BY DEF TypeOK
<1>2. WrittenSeq = [i \in 1..Len(instances) |-> instances[i].addr]
  BY DEF WrittenSeq, TypeOK
<1>3. WrittenSeq \in [1..Len(instances) -> TextFunctions]
  BY <1>1, <1>2 DEF InstanceLine
<1> QED
  BY <1>1, <1>2, <1>3, SeqDef

THEOREM AnalyzerImplementsStream == Spec => ImplementsStream
<1>1. Init => Stream!StreamInit
  BY DEF Init, QueueInit, Stream!StreamInit, WrittenSeq, Phase
<1>2. Records /\ Records' /\ [Next]_vars => [Stream!StreamNext]_(Stream!streamVars)
  <2> SUFFICES ASSUME Records, Records', [Next]_vars
               PROVE  [Stream!StreamNext]_(Stream!streamVars)
    OBVIOUS
  <2> USE DEF Records
  <2>0. /\ Len(enqueued) \in Nat /\ Len(instances) \in Nat /\ Len(WrittenSeq) = Len(instances)
        /\ NULL \notin TextFunctions
    BY FeatureAnalyzerAssumption, WrittenType, SMTT(30) DEF TypeOK, TextFunctions, WrittenSeqIsTheAddresses
  <2>1. ASSUME NEW w \in Workers, EnqueuePush(w) PROVE Stream!Send(idt[w])
    <3>1. ~done /\ Phase = "open" /\ Phase' = Phase
      BY <2>1 DEF EnqueuePush, Push, Points, Phase
    <3>2. idt[w] \notin Stream!SentSet
      <4>1. idt[w] # NULL
        BY <2>1 DEF EnqueuePush, Points
      <4>2. \A k \in 1..Len(enqueued) : enqueued[k] # idt[w]
        BY <4>1 DEF Handed, InSeq
      <4>3. DOMAIN enqueued = 1..Len(enqueued)
        BY DEF TypeOK
      <4> QED
        BY <4>2, <4>3 DEF Stream!SentSet
    <3>3. WrittenSeq' = WrittenSeq /\ enqueued' = Append(enqueued, idt[w])
      BY <2>1 DEF EnqueuePush, outputVars, WrittenSeq
    <3> QED
      BY <3>1, <3>2, <3>3 DEF Stream!Send
  <2>2. CASE EndLine
    <3>1. item # NULL /\ item = enqueued[Len(WrittenSeq) + 1] /\ Len(WrittenSeq) < Len(enqueued)
      BY <2>0, <2>2 DEF EndLine, Points, Fifo, Hand, TypeOK
    <3>2. Phase # "ended" /\ Phase' = Phase /\ enqueued' = enqueued
      BY <2>2 DEF EndLine, queueVars, Phase
    <3>3. WrittenSeq' = Append(WrittenSeq, item)
      <4>1. instances' = Append(instances, [addr |-> item, pairs |-> line])
        BY <2>2 DEF EndLine
      <4>2. /\ Len(instances') = Len(instances) + 1 /\ instances'[Len(instances) + 1].addr = item
            /\ \A i \in 1..Len(instances) : instances'[i] = instances[i]
        BY <2>0, <4>1 DEF TypeOK
      <4>3. /\ WrittenSeq' \in Seq(TextFunctions) /\ Len(WrittenSeq') = Len(instances')
            /\ \A i \in 1..Len(instances') : WrittenSeq'[i] = instances'[i].addr
        <5>1. TypeOK' => WrittenSeqIsTheAddresses'
          BY WrittenType, PTL
        <5> QED
          BY <5>1 DEF WrittenSeqIsTheAddresses
      <4>4. item \in TextFunctions
        BY <3>1 DEF TypeOK
      <4> DEFINE a == Append(WrittenSeq, item)
      <4>5. /\ a \in Seq(TextFunctions) /\ Len(a) = Len(WrittenSeq) + 1 /\ a[Len(WrittenSeq) + 1] = item
            /\ \A i \in 1..Len(WrittenSeq) : a[i] = WrittenSeq[i]
        BY <4>4, WrittenType, AppendProperties DEF WrittenSeqIsTheAddresses
      <4> HIDE DEF a
      <4>6. Len(a) = Len(WrittenSeq') /\ \A i \in 1..Len(a) : a[i] = WrittenSeq'[i]
        BY <2>0, <4>2, <4>3, <4>5, WrittenType DEF WrittenSeqIsTheAddresses
      <4>7. a = WrittenSeq'
        BY <4>3, <4>5, <4>6, SeqEqual
      <4> QED
        BY <4>7 DEF a
    <3> QED
      BY <3>1, <3>2, <3>3 DEF Stream!Write, Stream!StreamNext
  <2>3. CASE FinishSetDone
    (* Every worker is at the barrier: nothing is left to be sent.         *)
    <3>1. /\ ~done /\ producer = "exited" /\ consumer # "exited"
          /\ \A w \in Workers : idt[w] = NULL
          /\ next > Len(fvec)
      BY <2>3, FeatureAnalyzerAssumption DEF FinishSetDone, Points
    <3>2. ASSUME NEW f \in TextFunctions PROVE f \in Stream!SentSet
      <4>1. PICK i \in 1..Len(fvec) : fvec[i] = f
        BY <3>1 DEF Collected
      <4>2. i < next
        BY <3>1, <4>1 DEF TypeOK
      <4>3. InSeq(f, enqueued)
        BY <2>0, <3>1, <4>1, <4>2 DEF Handed, InHand
      <4> QED
        BY <4>3 DEF InSeq, Stream!SentSet, TypeOK
    <3>3. Stream!SentSet \subseteq TextFunctions
      BY DEF Stream!SentSet, TypeOK
    <3>4. Phase = "open" /\ Phase' = "closed" /\ UNCHANGED <<enqueued, WrittenSeq>>
      BY <2>3, <3>1 DEF FinishSetDone, SetDone, outputVars, WrittenSeq, Phase
    <3> QED
      BY <3>2, <3>3, <3>4 DEF Stream!Close, Stream!StreamNext
  <2>4. CASE ConsumerStops
    <3>1. Phase = "closed" /\ Phase' = "ended" /\ UNCHANGED <<enqueued, WrittenSeq>>
      BY <2>4 DEF ConsumerStops, DequeueNull, queueVars, outputVars, WrittenSeq, Phase
    <3> QED
      BY <3>1 DEF Stream!End, Stream!StreamNext
  <2>5. CASE /\ UNCHANGED <<enqueued, instances, done>>
             /\ consumer' = "exited" <=> consumer = "exited"
    BY <2>5 DEF Stream!streamVars, WrittenSeq, Phase
  <2>6. \A w \in Workers : EnqueuePush(w) => idt[w] \in TextFunctions
    BY DEF EnqueuePush, Points, TypeOK
  <2> QED
    BY <2>1, <2>2, <2>3, <2>4, <2>5, <2>6, StreamSteps DEF Stream!StreamNext
<1> QED
  BY <1>1, <1>2, RecordsInvariant, PTL DEF Spec, ImplementsStream, Stream!StreamSpec
-----------------------------------------------------------------------------
(* The feature indices: at most one feature per index, the indices up to   *)
(* the number of features seen.                                            *)
Indexed ==
  /\ \A g, h \in DOMAIN featureIndex : featureIndex[g] = featureIndex[h] => g = h
  /\ \A g \in DOMAIN featureIndex : featureIndex[g] <= Cardinality(DOMAIN featureIndex)

(* The steps that touch the features: the others leave them as they are.   *)
LEMMA FeatureSteps ==
  ASSUME [Next]_vars
  PROVE  \/ \E feat \in Features : PrintPair(feat)
         \/ ConsumerTakes \/ EndLine \/ JoinConsumerAndPrintFeatureList
         \/ /\ UNCHANGED <<outputVars, featlist>>
            /\ main' = "exited" <=> main = "exited"
            /\ consumer = "exited" => consumer' = "exited" \/ main = "spawn_t1"
<1> USE DEF queueVars, outputVars
<1>1. CASE MainStep
  BY <1>1 DEF MainStep, SpawnConsumer, SpawnProducer, JoinProducer, FinishSetDone, FinishNotify
<1>2. CASE ProducerStep
  BY <1>2 DEF ProducerStep, Collect, Barrier
<1>3. CASE \E w \in Workers : WorkerStep(w)
  BY <1>3 DEF WorkerStep, Claim, EnqueuePush, EnqueueNotify, NoneLeft
<1>4. CASE ConsumerStep \/ ConsumerWakesSpuriously
  BY <1>4 DEF ConsumerStep, ConsumerWaits, ConsumerStops, DequeueNull, ConsumerWakesSpuriously
<1>5. CASE UNCHANGED vars
  BY <1>5 DEF vars
<1> QED
  BY <1>1, <1>2, <1>3, <1>4, <1>5 DEF Next, Exited

(* What GetFeatureIndex does to the map.                                   *)
LEMMA OneMoreFeature ==
  ASSUME TypeOK, Indexed, NEW feat \in Features, PrintPair(feat)
  PROVE  /\ DOMAIN featureIndex' = DOMAIN featureIndex \union {feat}
         /\ \A g \in DOMAIN featureIndex : featureIndex'[g] = featureIndex[g]
         /\ Indexed'
<1> DEFINE n == Cardinality(DOMAIN featureIndex)
<1>1. IsFiniteSet(DOMAIN featureIndex) /\ n \in Nat
  BY FeatureAnalyzerAssumption, FS_Subset, FS_CardinalityType DEF TypeOK
<1>2. CASE feat \in DOMAIN featureIndex
  <2>1. featureIndex' = featureIndex /\ DOMAIN featureIndex \union {feat} = DOMAIN featureIndex
    BY <1>2 DEF PrintPair, GetFeatureIndex
  <2> QED
    BY <2>1 DEF Indexed
<1>3. CASE feat \notin DOMAIN featureIndex
  <2>1. featureIndex' = [f \in DOMAIN featureIndex \union {feat} |->
                           IF f = feat THEN n + 1 ELSE featureIndex[f]]
    BY <1>3 DEF PrintPair, GetFeatureIndex
  <2>2. /\ DOMAIN featureIndex' = DOMAIN featureIndex \union {feat} /\ featureIndex'[feat] = n + 1
        /\ \A g \in DOMAIN featureIndex : featureIndex'[g] = featureIndex[g]
    BY <1>3, <2>1
  <2>3. Cardinality(DOMAIN featureIndex') = n + 1
    BY <1>1, <1>3, <2>2, FS_AddElement
  <2>4. \A g \in DOMAIN featureIndex : featureIndex[g] \in Nat /\ featureIndex[g] <= n
    BY DEF TypeOK, Indexed
  <2> HIDE DEF n
  <2>5. \A g \in DOMAIN featureIndex' : featureIndex'[g] <= Cardinality(DOMAIN featureIndex')
    BY <1>1, <2>2, <2>3, <2>4
  <2>6. \A g, h \in DOMAIN featureIndex' : featureIndex'[g] = featureIndex'[h] => g = h
    BY <1>1, <2>2, <2>4 DEF Indexed
  <2> QED
    BY <2>2, <2>5, <2>6 DEF Indexed
<1> QED
  BY <1>2, <1>3

LEMMA IndexedInvariant == Spec => []Indexed
<1>1. Init => Indexed
  BY DEF Init, Indexed
<1>2. TypeOK /\ Indexed /\ [Next]_vars => Indexed'
  <2> SUFFICES ASSUME TypeOK, Indexed, [Next]_vars PROVE Indexed'
    OBVIOUS
  <2>1. CASE \E feat \in Features : PrintPair(feat)
    BY <2>1, OneMoreFeature
  <2>2. CASE UNCHANGED featureIndex
    BY <2>2 DEF Indexed
  <2> QED
    BY <2>1, <2>2, FeatureSteps
       DEF ConsumerTakes, EndLine, JoinConsumerAndPrintFeatureList, outputVars
<1> QED
  BY <1>1, <1>2, TypeCorrect, PTL DEF Spec

(* No printed index comes to mean another feature, however many features   *)
(* the records bring.                                                      *)
THEOREM IndicesAreStable == Spec => IndexNeverReassigned
<1> DEFINE A == /\ \A g \in DOMAIN featureIndex :
                     g \in DOMAIN featureIndex' /\ featureIndex'[g] = featureIndex[g]
                /\ \A g, h \in DOMAIN featureIndex' :
                     featureIndex'[g] = featureIndex'[h] => g = h
<1>1. TypeOK /\ Indexed /\ [Next]_vars => [A]_featureIndex
  <2> SUFFICES ASSUME TypeOK, Indexed, [Next]_vars PROVE [A]_featureIndex
    OBVIOUS
  <2>1. CASE \E feat \in Features : PrintPair(feat)
    BY <2>1, OneMoreFeature DEF Indexed
  <2>2. CASE UNCHANGED featureIndex
    BY <2>2
  <2> QED
    BY <2>1, <2>2, FeatureSteps
       DEF ConsumerTakes, EndLine, JoinConsumerAndPrintFeatureList, outputVars
<1> QED
  BY <1>1, IndexedInvariant, TypeCorrect, PTL DEF Spec, IndexNeverReassigned
-----------------------------------------------------------------------------
(* The lines and the feature list. Lines: with the indices given out so    *)
(* far, a finished line holds its function's pairs and the line being      *)
(* printed those that were printed; the list, once printed, is final.      *)
PairsOf(f, S, index) == { <<index[g], FeatPair[f][g]>> : g \in S }
FeaturesOf(f) == DOMAIN FeatPair[f]

LineHolds(f, S, pairs, index) == S \subseteq DOMAIN index /\ pairs = PairsOf(f, S, index)

Lines ==
  /\ \A i \in 1..Len(instances) :
       LineHolds(instances[i].addr, FeaturesOf(instances[i].addr), instances[i].pairs, featureIndex)
  /\ item # NULL => /\ todo \subseteq FeaturesOf(item)
                    /\ LineHolds(item, FeaturesOf(item) \ todo, line, featureIndex)
  /\ main = "exited" => /\ consumer = "exited"
                        /\ featlist = { <<featureIndex[f], f>> : f \in DOMAIN featureIndex }

(* A line keeps its meaning when the map grows.                            *)
LEMMA LineKeeps ==
  ASSUME NEW f, NEW S, NEW pairs, NEW index, NEW index2, LineHolds(f, S, pairs, index),
         DOMAIN index \subseteq DOMAIN index2, \A g \in DOMAIN index : index2[g] = index[g]
  PROVE  LineHolds(f, S, pairs, index2)
<1>1. S \subseteq DOMAIN index2 /\ \A g \in S : index2[g] = index[g]
  BY DEF LineHolds
<1>2. PairsOf(f, S, index2) = PairsOf(f, S, index)
  BY <1>1 DEF PairsOf
<1> QED
  BY <1>1, <1>2 DEF LineHolds

LEMMA NextLines == TypeOK /\ Points /\ Indexed /\ Lines /\ [Next]_vars => Lines'
<1> SUFFICES ASSUME TypeOK, Points, Indexed, Lines, [Next]_vars PROVE Lines'
  OBVIOUS
<1>1. ASSUME NEW feat \in Features, PrintPair(feat) PROVE Lines'
  <2>1. /\ item' = item /\ item # NULL /\ feat \in todo /\ todo' = todo \ {feat}
        /\ instances' = instances /\ main' = main /\ consumer' = consumer
        /\ consumer = "print"
        /\ line' = line \union {<<featureIndex'[feat], FeatPair[item][feat]>>}
    BY <1>1 DEF PrintPair, Points
  <2>2. /\ DOMAIN featureIndex' = DOMAIN featureIndex \union {feat}
        /\ \A g \in DOMAIN featureIndex : featureIndex'[g] = featureIndex[g]
    BY <1>1, OneMoreFeature
  <2>3. \A i \in 1..Len(instances') :
          LineHolds(instances'[i].addr, FeaturesOf(instances'[i].addr), instances'[i].pairs, featureIndex')
    BY <2>1, <2>2, LineKeeps DEF Lines
  <2> DEFINE S == FeaturesOf(item) \ todo
             T == FeaturesOf(item) \ (todo \ {feat})
  <2>4. LineHolds(item, S, line, featureIndex')
    BY <2>1, <2>2, LineKeeps DEF Lines
  <2>5. T = S \union {feat} /\ todo' \subseteq FeaturesOf(item)
    BY <2>1 DEF Lines
  <2>6. LineHolds(item, T, line', featureIndex')
    BY <2>1, <2>2, <2>4, <2>5 DEF LineHolds, PairsOf
  <2> QED
    BY <2>1, <2>3, <2>5, <2>6 DEF Lines
<1>2. CASE ConsumerTakes
  <2>1. /\ item' = Head(q) /\ todo' = FeaturesOf(Head(q)) /\ line' = {}
        /\ instances' = instances /\ featureIndex' = featureIndex /\ main' = main
        /\ featlist' = featlist /\ consumer = "dequeue"
    BY <1>2 DEF ConsumerTakes, FeaturesOf
  <2>2. LineHolds(item', FeaturesOf(item') \ todo', line', featureIndex')
    BY <2>1 DEF LineHolds, PairsOf
  <2> QED
    BY <2>1, <2>2 DEF Lines
<1>3. CASE EndLine
  <2>1. /\ item # NULL /\ item' = NULL /\ featureIndex' = featureIndex /\ main' = main
        /\ consumer = "print" /\ featlist' = featlist /\ todo = {}
        /\ instances' = Append(instances, [addr |-> item, pairs |-> line])
    BY <1>3 DEF EndLine, Points
  <2>2. /\ Len(instances') = Len(instances) + 1
        /\ instances'[Len(instances) + 1] = [addr |-> item, pairs |-> line]
        /\ \A i \in 1..Len(instances) : instances'[i] = instances[i]
        /\ Len(instances) \in Nat
    BY <2>1 DEF TypeOK
  <2>3. LineHolds(item, FeaturesOf(item), line, featureIndex)
    BY <2>1 DEF Lines
  <2> QED
    BY <2>1, <2>2, <2>3 DEF Lines
<1>4. CASE JoinConsumerAndPrintFeatureList
  BY <1>4 DEF JoinConsumerAndPrintFeatureList, Lines, outputVars
<1>5. CASE /\ UNCHANGED <<outputVars, featlist>>
           /\ main' = "exited" <=> main = "exited"
           /\ consumer = "exited" => consumer' = "exited" \/ main = "spawn_t1"
  BY <1>5 DEF Lines, outputVars
<1> QED
  BY <1>1, <1>2, <1>3, <1>4, <1>5, FeatureSteps

(* Read back with the final list, a line gives its function's features.    *)
LEMMA DecodeInverts ==
  ASSUME NEW f, NEW pairs, NEW index,
         LineHolds(f, FeaturesOf(f), pairs, index),
         \A g, h \in DOMAIN index : index[g] = index[h] => g = h
  PROVE  Decode({ <<index[g], g>> : g \in DOMAIN index }, pairs)
           = { <<g, FeatPair[f][g]>> : g \in FeaturesOf(f) }
<1> DEFINE L == { <<index[g], g>> : g \in DOMAIN index }
           R == { <<g, FeatPair[f][g]>> : g \in FeaturesOf(f) }
<1>1. ASSUME NEW x \in Decode(L, pairs) PROVE x \in R
  <2>1. PICK y \in L \X pairs : y[1][1] = y[2][1] /\ x = <<y[1][2], y[2][2]>>
    BY DEF Decode
  <2>2. PICK g \in DOMAIN index : y[1] = <<index[g], g>>
    BY <2>1
  <2>3. PICK h \in FeaturesOf(f) : y[2] = <<index[h], FeatPair[f][h]>>
    BY <2>1 DEF LineHolds, PairsOf
  <2>4. g = h
    BY <2>1, <2>2, <2>3 DEF LineHolds
  <2> QED
    BY <2>1, <2>2, <2>3, <2>4
<1>2. ASSUME NEW x \in R PROVE x \in Decode(L, pairs)
  <2>1. PICK g \in FeaturesOf(f) : x = <<g, FeatPair[f][g]>>
    OBVIOUS
  <2> DEFINE y == << <<index[g], g>>, <<index[g], FeatPair[f][g]>> >>
  <2>2. y \in L \X pairs
    BY DEF LineHolds, PairsOf
  <2>3. y[1][1] = y[2][1] /\ x = <<y[1][2], y[2][2]>>
    BY <2>1
  <2> HIDE DEF y
  <2> QED
    BY <2>2, <2>3 DEF Decode
<1> QED
  BY <1>1, <1>2

(* The two files of an extraction agree, for any records.                  *)
THEOREM FilesAgree == Spec => []LinesDecode
<1>1. Init => Lines
  BY DEF Init, Lines
<1>2. Spec => []Lines
  BY <1>1, NextLines, TypedAlways, IndexedInvariant, PTL DEF Spec
<1>3. TypeOK /\ Indexed /\ Lines => LinesDecode
  <2> SUFFICES ASSUME TypeOK, Indexed, Lines, main = "exited", NEW i \in DOMAIN instances
               PROVE  LET fp == FeatPair[instances[i].addr] IN
                      Decode(featlist, instances[i].pairs) = { <<g, fp[g]>> : g \in DOMAIN fp }
    BY DEF LinesDecode
  <2> DEFINE f == instances[i].addr
             pairs == instances[i].pairs
  <2>1. LineHolds(f, FeaturesOf(f), pairs, featureIndex)
    BY DEF Lines, TypeOK
  <2>2. featlist = { <<featureIndex[g], g>> : g \in DOMAIN featureIndex }
    BY DEF Lines
  <2> HIDE DEF pairs, f
  <2>3. Decode(featlist, pairs) = { <<g, FeatPair[f][g]>> : g \in FeaturesOf(f) }
    BY <2>1, <2>2, DecodeInverts DEF Indexed
  <2> QED
    BY <2>3 DEF f, pairs, FeaturesOf
<1> QED
  BY <1>2, <1>3, TypeCorrect, IndexedInvariant, PTL
==============================================================================
