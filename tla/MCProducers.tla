----------------------------- MODULE MCProducers -----------------------------
(* Graphlets on all flow graphs of up to three blocks, on all acyclic ones *)
(* of five (for the connected sets only the pairs that are linked matter), *)
(* and on some with parallel edges and edges to other functions.  Idioms   *)
(* on all functions of one or two blocks and three instructions at most,   *)
(* and on some of five.                                                    *)
EXTENDS Graphlets, Idioms

(***************************************************************************)
(* What a producer thread of extractFeat does with a function: one call of *)
(* ProduceAFunction, by the analyzer that it was made for.  The state of   *)
(* the other analyzer stays as it is.                                      *)
(***************************************************************************)
VARIABLE analyzer   (* the feature type extractFeat was started with       *)

vars == <<analyzer, graphletVars, idiomVars>>

(* Of the functions for the analyzer that does not run one is as good as   *)
(* another.                                                                *)
AnyOf(S) == CHOOSE s \in S : TRUE

Init ==
  /\ analyzer \in {"graphlet", "idiom"}
  /\ analyzer # "graphlet" => cfg = AnyOf(Cfgs) /\ size = AnyOf(Sizes)
  /\ analyzer # "idiom" => code = AnyOf(Codes) /\ idiomSize = AnyOf(IdiomSizes)
  /\ GraphletInit /\ IdiomInit

Next ==
  /\ UNCHANGED analyzer
  /\ \/ analyzer = "graphlet" /\ GraphletNext /\ UNCHANGED idiomVars
     \/ analyzer = "idiom" /\ IdiomNext /\ UNCHANGED graphletVars

Spec == Init /\ [][Next]_vars

-----------------------------------------------------------------------------

(* COND_TAKEN and FALLTHROUGH.                                             *)
taken == 1
fallthrough == 5

Edge(a, b, t, c) == [src |-> a, trg |-> b, type |-> t, compound |-> c]
Flow(n, pairs) == [blocks |-> n, edges |-> { Edge(x[1], x[2], taken, TRUE) : x \in pairs }]

SmallFlows == UNION { { Flow(n, p) : p \in SUBSET ((1..n) \X (1..n)) } : n \in 1..3 }

(* The unordered pairs of five blocks but three that are linked.           *)
Linked3 == {<<1, 2>>, <<2, 3>>, <<3, 5>>}
Rest == { x \in (1..5) \X (1..5) : x[1] < x[2] } \ Linked3
WideFlows == { Flow(5, p \union Linked3) : p \in SUBSET Rest }
             \union { Flow(6, { <<i, i + 1>> : i \in 1..5 }) }

(* Two edges between the same blocks, a call, an edge from outside.        *)
MixedFlows ==
  { [blocks |-> 3, edges |-> { Edge(1, 2, taken, TRUE), Edge(1, 2, fallthrough, TRUE),
                               Edge(2, 3, fallthrough, TRUE), Edge(3, 1, taken, FALSE) } \union more] :
    more \in SUBSET { Edge(7, 2, taken, TRUE), Edge(3, 3, fallthrough, TRUE), Edge(2, 1, taken, TRUE),
                      Edge(3, 8, fallthrough, TRUE) } }

MCCfgs == SmallFlows \union WideFlows \union MixedFlows

(* Blocks 1 and 3 look alike to the instruction coloring; block 2's color  *)
(* is 16, which as a string comes before theirs, 4.                        *)
MCColorMap == (1 :> 2) @@ (2 :> 4) @@ (3 :> 15) @@ (4 :> 2)
MCBranchMap == (4 :> 20)
MCInsns == <<{1}, {2, 3}, {1}, {2, 4}, {1, 4}, {9}>>
MCLastInsn == <<1, 2, 1, 4, 4, 9>>

(* Two blocks and an edge.                                                 *)
OneEdge == { Flow(2, {<<1, 2>>}) }

-----------------------------------------------------------------------------
Reg(r) == [memory |-> FALSE, regs |-> {r}]
Imm == [memory |-> FALSE, regs |-> {}]
Mem == [memory |-> TRUE, regs |-> {}]

(* Register 35 has bits above the field's; opcode 4 is the illegal entry's, *)
(* 6 is nop, with an operand.                                              *)
MCIdiomInsns == { [op |-> 2, operands |-> <<Reg(35), Mem, Imm>>, len |-> 2],
           [op |-> 2, operands |-> <<Imm, [memory |-> FALSE, regs |-> {1, 2}]>>, len |-> 1],
           [op |-> 4, operands |-> <<Imm>>, len |-> 1],
           [op |-> 6, operands |-> <<Mem>>, len |-> 1] }

(* The instructions of s laid out from 0, the first n of them one block.   *)
Layout(s, n) ==
  LET l == Len(s)
      start[i \in 1..(l + 1)] == IF i = 1 THEN 0 ELSE start[i - 1] + s[i - 1].len
      at(i) == start[i]
  IN [insn |-> [a \in { at(i) : i \in 1..l } |-> s[CHOOSE i \in 1..l : at(i) = a]],
      blocks |-> IF n = l THEN <<[start |-> 0, end |-> at(l + 1)]>>
                 ELSE <<[start |-> 0, end |-> at(n + 1)], [start |-> at(n + 1), end |-> at(l + 1)]>>]

MCCodes ==
  UNION { { Layout(s, n) : s \in [1..l -> MCIdiomInsns], n \in 1..l } : l \in 1..3 }
  \union { Layout(s, n) : s \in { t \in [1..5 -> MCIdiomInsns] : t[1] = t[3] /\ t[2] = t[4] }, n \in {2, 4} }
=============================================================================
