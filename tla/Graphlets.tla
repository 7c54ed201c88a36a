------------------------------ MODULE Graphlets ------------------------------
(***************************************************************************)
(* The graphlet features of one function: GraphletAnalyzer.cpp and         *)
(* supergraph.cpp. A graph with a node per block is built twice, coloured  *)
(* by instructions (kind G) and by the last branch (kind B), and connected *)
(* subgraphs of `size' nodes are counted by their shape.                   *)
(*                                                                         *)
(* The nodes are numbered by the order of their addresses in memory, which *)
(* is the order of a set<snode*>. Edge lists are taken in an unspecified   *)
(* order; nothing but the contents of the graph may depend on it.          *)
(***************************************************************************)
EXTENDS GraphletFormat, Bags

CONSTANTS
  Cfgs,        (* the functions: [blocks |-> their number, edges |-> a set  *)
               (* of [src, trg, type, compound]]; an end that is not in     *)
               (* 1..blocks is a block of another function                  *)
  Sizes,       (* the feature sizes asked for                              *)
  EdgeTypes,   (* the EdgeTypeEnum values of intraprocedural edges         *)
  Insns,       (* Insns[b]: the opcodes in block b                         *)
  LastInsn,    (* LastInsn[b]: the opcode of its last instruction          *)
  MaxNodes     (* 5000: larger graphs are not enumerated                   *)

ASSUME GraphletsAssumption ==
  /\ \A c \in Cfgs : /\ c.blocks \in Nat /\ IsFiniteSet(c.edges)
                      /\ c.edges \subseteq [src : Nat, trg : Nat, type : EdgeTypes, compound : BOOLEAN]
  /\ Sizes \subseteq Nat \ {0} /\ MaxNodes \in Nat

VARIABLES
  cfg, size,       (* the function and featSize                            *)
  kind,            (* "G" or "B": the graph ProduceAFunction is at         *)
  pc,              (* where it is                                          *)
  bit, idx,        (* the block the loop is at; its node, or the node      *)
  seen,            (* the map visited: the blocks already linked           *)
  doneEdges,       (* func_to_graph's done_edges                           *)
  links,           (* graph::edges_                                        *)
  notConsidered, cur,  (* the two sets enumerate_subgraphs passes on       *)
  stack,           (* its activations, the innermost last                  *)
  counts,          (* counts[k]: c1 and c2, the counts of graphlets        *)
  featPair,        (* the record's counts by feature string                *)
  recorded         (* history: recorded[k], the bag of <<n, nodes>>        *)

graphVars == <<seen, doneEdges, links>>
enumVars  == <<notConsidered, cur, stack>>
graphletVars == <<cfg, size, kind, pc, bit, idx, graphVars, enumVars, counts, featPair, recorded>>

Blocks == 1..cfg.blocks

GraphletInit ==
  /\ cfg \in Cfgs /\ size \in Sizes
  /\ kind = "G" /\ pc = "link" /\ bit = 1 /\ idx = 1
  /\ seen = {} /\ doneEdges = {} /\ links = <<>>
  /\ notConsidered = {} /\ cur = {} /\ stack = <<>>
  /\ counts = [t \in Kinds |-> <<>>] /\ featPair = <<>> /\ recorded = [t \in Kinds |-> EmptyBag]
-----------------------------------------------------------------------------
(* func_to_graph: a block's compound edges from its sources, then to its   *)
(* targets, are linked unless the other end has linked them already.       *)
InFunction(e) == e.src \in Blocks /\ e.trg \in Blocks

Linked(sources, targets) ==
  SetToSeq({ [e EXCEPT !.trg = idx] : e \in { d \in sources : InFunction(d) } })
  \o SetToSeq({ [e EXCEPT !.src = idx] : e \in { d \in targets : InFunction(d) } })

(* A block seen before would be passed over, and idx left behind; the      *)
(* blocks of a function are distinct and visited starts empty.             *)
NextBlock ==
  /\ pc = "link" /\ bit \in Blocks
  /\ bit' = bit + 1 /\ seen' = seen \union {bit}
  /\ idx' = IF bit \in seen THEN idx ELSE idx + 1
  /\ UNCHANGED <<cfg, size, kind, pc, enumVars, counts, featPair, recorded>>

(* Mutant: done_edges is not looked at.                                    *)
LinkBlockTwice ==
  /\ NextBlock
  /\ LET sources == { e \in cfg.edges : e.compound /\ e.trg = bit }
         targets == { e \in cfg.edges : e.compound /\ e.src = bit }
     IN IF bit \in seen THEN UNCHANGED <<links, doneEdges>> ELSE
        /\ links' = links \o Linked(sources, targets)
        /\ doneEdges' = doneEdges \union sources \union targets

LinkBlock ==
  /\ NextBlock
  /\ LET sources == { e \in cfg.edges : e.compound /\ e.trg = bit } \ doneEdges
         targets == { e \in cfg.edges : e.compound /\ e.src = bit } \ (doneEdges \union sources)
     IN IF bit \in seen THEN UNCHANGED <<links, doneEdges>> ELSE
        /\ links' = links \o Linked(sources, targets)
        /\ doneEdges' = doneEdges \union sources \union targets
-----------------------------------------------------------------------------
(* edge_sets and graphlet: a node's edges within the subgraph by type, and *)
(* the multiset of such nodes.                                             *)
Types(is) ==
  [j \in 1..Cardinality(is) |->
     CHOOSE t \in EdgeTypes : /\ Cardinality({ i \in is : links[i].type < t }) < j
                              /\ Cardinality({ i \in is : links[i].type <= t }) >= j]

Color(t, a) == IF t = "G" THEN InsnsColor(Insns[a]) ELSE BranchColor(LastInsn[a])

EdgeSets(t, a, nodes) ==
  LET into == { i \in DOMAIN links : links[i].trg = a }
      from == { i \in DOMAIN links : links[i].src = a }
  IN [ins   |-> Types({ i \in into : links[i].src \in nodes \ {a} }),
      outs  |-> Types({ i \in from : links[i].trg \in nodes \ {a} }),
      selfs |-> Types(into \intersect from),
      color |-> Color(t, a)]

Graphlet(t, nodes) == FoldLeft(LAMBDA g, a : AddNode(g, EdgeSets(t, a, nodes)), <<>>, SetToSeq(nodes))

Srcs(a) == { links[i].src : i \in { j \in DOMAIN links : links[j].trg = a } } \ {a}
Trgs(a) == { links[i].trg : i \in { j \in DOMAIN links : links[j].src = a } } \ {a}

(* counts[g] in a std::map ordered by GraphletLess.                        *)
KeyOf(c, g) == { h \in DOMAIN c : ~GraphletLess(h, g) /\ ~GraphletLess(g, h) }

Increment(c, g) ==
  IF KeyOf(c, g) = {} THEN (g :> 1) @@ c
  ELSE [h \in DOMAIN c |-> IF h \in KeyOf(c, g) THEN c[h] + 1 ELSE c[h]]

(* counts[g] += 1 for each of a sequence of subgraphs found at a.          *)
Record(a, subgraphs) ==
  /\ counts' = [counts EXCEPT ![kind] = FoldLeft(LAMBDA c, s : Increment(c, Graphlet(kind, s)), @, subgraphs)]
  /\ recorded' = [recorded EXCEPT ![kind] = FoldLeft(LAMBDA b, s : b (+) SetToBag({<<a, s>>}), @, subgraphs)]
  /\ UNCHANGED featPair
-----------------------------------------------------------------------------
(* mkgraphlets_new: which algorithm the size selects.                      *)
SelectAlgorithm ==
  /\ pc = "link" /\ bit > cfg.blocks
  /\ \/ size <= 3 /\ pc' = "loop" /\ idx' = 1 /\ UNCHANGED enumVars
     \/ size > 3 /\ cfg.blocks > MaxNodes /\ pc' = "made" /\ UNCHANGED <<idx, enumVars>>
     \/ /\ size > 3 /\ cfg.blocks <= MaxNodes /\ pc' = "enumerate"
        /\ notConsidered' = Blocks /\ cur' = {}
        /\ stack' = <<[at |-> "call", neighbors |-> {}]>>
        /\ UNCHANGED idx
  /\ UNCHANGED <<cfg, size, kind, bit, graphVars, counts, featPair, recorded>>

AtNode == pc = "loop" /\ idx \in Blocks
NextNode == idx' = idx + 1 /\ UNCHANGED <<cfg, size, kind, pc, bit, graphVars, enumVars>>

NodeOfOne == AtNode /\ size = 1 /\ Record(idx, <<{idx}>>) /\ NextNode

NodeOfTwo ==
  AtNode /\ size = 2 /\ Record(idx, SetToSeq({ {a, idx} : a \in Trgs(idx) })) /\ NextNode

(* Mutant: the third loop does not skip a neighbour paired with itself.    *)
NodeOfThreeWithoutSkip ==
  /\ AtNode /\ size = 3
  /\ LET twoOf(s) == { {x[1], x[2], idx} : x \in { y \in s \X s : y[1] < y[2] } }
         across == SetToSeq(Srcs(idx) \X Trgs(idx))
     IN Record(idx, SetToSeq(twoOf(Srcs(idx))) \o SetToSeq(twoOf(Trgs(idx)))
                      \o [i \in DOMAIN across |-> {across[i][1], across[i][2], idx}])
  /\ NextNode

(* mkgraphlets: pairs of sources, pairs of targets, then a source with a   *)
(* target.                                                                 *)
NodeOfThree ==
  /\ AtNode /\ size = 3
  /\ LET twoOf(s) == { {x[1], x[2], idx} : x \in { y \in s \X s : y[1] < y[2] } }
         across == SetToSeq({ y \in Srcs(idx) \X Trgs(idx) : y[1] # y[2] })
     IN Record(idx, SetToSeq(twoOf(Srcs(idx))) \o SetToSeq(twoOf(Trgs(idx)))
                      \o [i \in DOMAIN across |-> {across[i][1], across[i][2], idx}])
  /\ NextNode

LoopEnd ==
  /\ pc = "loop" /\ idx > cfg.blocks /\ pc' = "made"
  /\ UNCHANGED <<cfg, size, kind, bit, idx, graphVars, enumVars, counts, featPair, recorded>>
-----------------------------------------------------------------------------
(* enumerate_subgraphs, an activation at a time: the first node in order   *)
(* that is next to the current ones is left out, then taken in, and put    *)
(* back. The sets notConsidered and cur are shared by all activations.     *)
Top == stack[Len(stack)]
Return == SubSeq(stack, 1, Len(stack) - 1)
Below(frame, callee) == Append(Append(Return, frame), callee)

Candidates == IF cur = {} THEN notConsidered ELSE notConsidered \intersect Top.neighbors

EnumUnchanged == UNCHANGED <<cfg, size, kind, bit, idx, graphVars>>

EnumRecord ==
  /\ pc = "enumerate" /\ stack # <<>> /\ Top.at = "call" /\ Cardinality(cur) = size
  /\ Record(0, <<cur>>) /\ stack' = Return
  /\ UNCHANGED <<pc, notConsidered, cur>> /\ EnumUnchanged

EnumPrune ==
  /\ pc = "enumerate" /\ stack # <<>> /\ Top.at = "call" /\ Cardinality(cur) # size
  /\ Cardinality(cur) + Cardinality(notConsidered) < size \/ Candidates = {}
  /\ stack' = Return
  /\ UNCHANGED <<pc, notConsidered, cur, counts, featPair, recorded>> /\ EnumUnchanged

EnumExclude ==
  /\ pc = "enumerate" /\ stack # <<>> /\ Top.at = "call" /\ Cardinality(cur) # size
  /\ Cardinality(cur) + Cardinality(notConsidered) >= size /\ Candidates # {}
  /\ LET chosen == CHOOSE x \in Candidates : \A y \in Candidates : x <= y
     IN /\ notConsidered' = notConsidered \ {chosen}
        /\ stack' = Below([at |-> "excluded", neighbors |-> Top.neighbors, chosen |-> chosen],
                          [at |-> "call", neighbors |-> Top.neighbors])
  /\ UNCHANGED <<pc, cur, counts, featPair, recorded>> /\ EnumUnchanged

EnumInclude ==
  /\ pc = "enumerate" /\ stack # <<>> /\ Top.at = "excluded"
  /\ cur' = cur \union {Top.chosen}
  /\ LET n == Top.chosen
         ends == { links[i].src : i \in { j \in DOMAIN links : links[j].trg = n } }
                 \union { links[i].trg : i \in { j \in DOMAIN links : links[j].src = n } }
     IN stack' = Below([at |-> "included", chosen |-> n],
                       [at |-> "call", neighbors |-> Top.neighbors \union ends])
  /\ UNCHANGED <<pc, notConsidered, counts, featPair, recorded>> /\ EnumUnchanged

(* Mutant: the chosen node is not put back.                                *)
EnumPutBackForgotten ==
  /\ pc = "enumerate" /\ stack # <<>> /\ Top.at = "included"
  /\ cur' = cur \ {Top.chosen}
  /\ stack' = Return
  /\ UNCHANGED <<pc, notConsidered, counts, featPair, recorded>> /\ EnumUnchanged

EnumPutBack ==
  /\ pc = "enumerate" /\ stack # <<>> /\ Top.at = "included"
  /\ cur' = cur \ {Top.chosen} /\ notConsidered' = notConsidered \union {Top.chosen}
  /\ stack' = Return
  /\ UNCHANGED <<pc, counts, featPair, recorded>> /\ EnumUnchanged

EnumEnd ==
  /\ pc = "enumerate" /\ stack = <<>> /\ pc' = "made"
  /\ UNCHANGED <<notConsidered, cur, stack, counts, featPair, recorded>> /\ EnumUnchanged
-----------------------------------------------------------------------------
(* ProduceAFunction: the graph is deleted and the other one built.         *)
(* Mutant: visited.clear() is missing.                                     *)
SecondGraphWithoutClear ==
  /\ pc = "made" /\ kind = "G"
  /\ kind' = "B" /\ pc' = "link" /\ bit' = 1 /\ idx' = 1
  /\ doneEdges' = {} /\ links' = <<>>
  /\ UNCHANGED <<cfg, size, seen, enumVars, counts, featPair, recorded>>

SecondGraph ==
  /\ pc = "made" /\ kind = "G"
  /\ kind' = "B" /\ pc' = "link" /\ bit' = 1 /\ idx' = 1
  /\ seen' = {} /\ doneEdges' = {} /\ links' = <<>>
  /\ UNCHANGED <<cfg, size, enumVars, counts, featPair, recorded>>

(* featPair[f] += count, for both maps.                                    *)
Represent ==
  /\ pc = "made" /\ kind = "B" /\ pc' = "done"
  /\ LET entries == UNION { { <<t, g>> : g \in DOMAIN counts[t] } : t \in Kinds }
         strings == { Feature(e[1], e[2]) : e \in entries }
     IN featPair' = [f \in strings |->
          FoldLeft(LAMBDA n, e : n + counts[e[1]][e[2]], 0, SetToSeq({ e \in entries : Feature(e[1], e[2]) = f }))]
  /\ UNCHANGED <<cfg, size, kind, bit, idx, graphVars, enumVars, counts, recorded>>

(* The record is enqueued: ProduceAFunction does nothing more.             *)
GraphletDone == pc = "done" /\ UNCHANGED graphletVars

GraphletNext == \/ LinkBlock \/ SelectAlgorithm
        \/ NodeOfOne \/ NodeOfTwo \/ NodeOfThree \/ LoopEnd
        \/ EnumRecord \/ EnumPrune \/ EnumExclude \/ EnumInclude \/ EnumPutBack \/ EnumEnd
        \/ SecondGraph \/ Represent \/ GraphletDone

GraphletSpec == GraphletInit /\ [][GraphletNext]_graphletVars
-----------------------------------------------------------------------------
(* The graph is the flow of the function: each edge inside it is linked    *)
(* once, though it is met from its source's block, from its target's, or   *)
(* (a self loop) twice from the same; edges that leave it are not.         *)
EachEdgeLinkedOnce ==
  pc \in {"loop", "enumerate", "made"} =>
    /\ Len(links) = Cardinality({ e \in cfg.edges : e.compound /\ InFunction(e) })
    /\ ToSet(links) = { e \in cfg.edges : e.compound /\ InFunction(e) }

Adjacent(a, b) == \E e \in cfg.edges : e.compound /\ {e.src, e.trg} = {a, b}

Connected(s) ==
  \A part \in SUBSET s : part # {} /\ part # s => \E a \in part, b \in s \ part : Adjacent(a, b)

Flows(a, b) == IF \E e \in cfg.edges : e.compound /\ e.src = a /\ e.trg = b THEN 1 ELSE 0
Ways(n, a) == Flows(a, n) + Flows(n, a)
Copies(bag, x) == IF x \in DOMAIN bag THEN bag[x] ELSE 0

(* From size 4 on, each connected set of `size' blocks is counted once, by *)
(* whichever order of inclusions and exclusions it is reached.  At size 3 a *)
(* triple is counted at n for each of the ways in which its two other       *)
(* blocks flow into n and out of it: once for each choice of a direction    *)
(* for one and for the other, whatever the order of the blocks; no pair is. *)
SubgraphsCounted ==
  pc = "done" =>
    \A t \in Kinds :
      /\ size > 3 /\ cfg.blocks <= MaxNodes =>
           recorded[t] = SetToBag({ <<0, s>> : s \in { u \in SUBSET Blocks : Cardinality(u) = size /\ Connected(u) } })
      /\ size = 3 =>
           /\ \A x \in BagToSet(recorded[t]) : Cardinality(x[2]) = 3
           /\ \A n, a, b \in Blocks : Cardinality({n, a, b}) = 3 =>
                Copies(recorded[t], <<n, {a, b, n}>>) = Ways(n, a) * Ways(n, b)

(* The instruction graphlets and the branch graphlets of a function are    *)
(* those of the same subgraphs: both graphs were built in full.            *)
SameSubgraphsInBothKinds == pc = "done" => recorded["G"] = recorded["B"]

(* What a block looks like within a subgraph: its edges by type, its color. *)
LooksOf(a, nodes, t) ==
  LET inside == { e \in cfg.edges : e.compound /\ e.src \in nodes /\ e.trg \in nodes }
      count(es) == [type \in EdgeTypes |-> Cardinality({ e \in es : e.type = type })]
  IN <<count({ e \in inside : e.trg = a /\ e.src # a }), count({ e \in inside : e.src = a /\ e.trg # a }),
       count({ e \in inside : e.src = a /\ e.trg = a }),
       IF t = "G" THEN { Lookup(op) : op \in Insns[a] } \ {NOCOLOR} ELSE BranchColor(LastInsn[a])>>

SameLooks(s, u, t) ==
  /\ Cardinality(s) = Cardinality(u)
  /\ \A a \in s : Cardinality({ b \in s : LooksOf(b, s, t) = LooksOf(a, s, t) })
                    = Cardinality({ b \in u : LooksOf(b, u, t) = LooksOf(a, s, t) })

(* The record has for each subgraph the number of those found that look    *)
(* the same: neither the order of the maps nor the strings merge or split  *)
(* graphlets, none is lost, and an instruction graphlet is never counted   *)
(* with a branch graphlet.  The keys of each map are totally ordered, so   *)
(* that each look-up finds its own.                                        *)
CountedByLooks ==
  /\ \A t \in Kinds : \A g, h \in DOMAIN counts[t] : g # h => (GraphletLess(g, h) <=> ~GraphletLess(h, g))
  /\ pc = "done" =>
    \A t \in Kinds : \A x \in BagToSet(recorded[t]) :
      featPair[Feature(t, Graphlet(t, x[2]))] =
        BagCardinality([y \in { z \in BagToSet(recorded[t]) : SameLooks(x[2], z[2], t) } |-> recorded[t][y]])

(* data/features.txt, the list of the default model: edge types are        *)
(* written in decimal, as in G_/4//1152_4///4.                             *)
DecimalEdgeset(types) ==
  LET unique == SetToSortSeq(ToSet(types), <)
      times(t) == Cardinality({ i \in DOMAIN types : types[i] = t })
      item(t) == Decimal(t) \o IF times(t) > 1 THEN TimesSign \o Decimal(times(t)) ELSE <<>>
  IN IF unique = <<>> THEN <<>> ELSE Join([i \in DOMAIN unique |-> item(unique[i])], Dot)

StringsOfDefaultModel ==
  \A t \in Kinds : \A g \in DOMAIN counts[t] :
    Compact(g) = Join([i \in DOMAIN g |->
      Join(<<DecimalEdgeset(g[i].ins), DecimalEdgeset(g[i].outs), DecimalEdgeset(g[i].selfs), Decimal(g[i].color)>>, Slash)],
      Underscore)
=============================================================================
