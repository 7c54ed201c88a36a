---------------------------- MODULE GraphletFormat ----------------------------
(***************************************************************************)
(* The colors of blocks, the order of graphlets, by which the maps of      *)
(* ProduceAFunction tell them apart, and their strings, by which .featlist *)
(* and the model do: graphlet.h, graphlet.cpp and colors.cpp. Strings are  *)
(* sequences of character codes, because what a number becomes in them is  *)
(* the point here. An edge set is the sorted sequence of its types.        *)
(***************************************************************************)
EXTENDS Naturals, Sequences, FiniteSets, SequencesExt, TLC

CONSTANTS
  ColorMap,     (* colors.cpp's colormap: opcode to insn_color             *)
  BranchMap,    (* its branchmap: opcode to branch_color                   *)
  NOCOLOR,      (* the last insn_color                                     *)
  NOBRANCH      (* the last branch_color                                   *)

ASSUME GraphletFormatAssumption ==
  /\ NOCOLOR \in 0..15 /\ \A op \in DOMAIN ColorMap : ColorMap[op] \in 0..NOCOLOR
  /\ NOBRANCH \in Nat /\ \A op \in DOMAIN BranchMap : BranchMap[op] \in 0..(NOBRANCH - 1)

Kinds == {"G", "B"}

(* node_insns_color: a bit for each class of instructions in the block,    *)
(* those of no class left out.                                             *)
Lookup(op) == IF op \in DOMAIN ColorMap THEN ColorMap[op] ELSE NOCOLOR

InsnsColor(insns) ==
  LET classes == { Lookup(op) : op \in insns } \ {NOCOLOR}
      upTo[c \in 0..NOCOLOR] == (IF c \in classes THEN 2 ^ c ELSE 0) + (IF c = 0 THEN 0 ELSE upTo[c - 1])
  IN upTo[NOCOLOR]

(* node_branch_color: that of the block's last instruction.                *)
BranchColor(insn) == IF insn \in DOMAIN BranchMap THEN BranchMap[insn] ELSE NOBRANCH

(* Characters.                                                             *)
Decimal(n) ==
  LET width == CHOOSE k \in 1..5 : n < 10 ^ k /\ (k = 1 \/ n >= 10 ^ (k - 1))
  IN [i \in 1..width |-> 48 + ((n \div 10 ^ (width - i)) % 10)]
Dot == <<46>>
Slash == <<47>>
Underscore == <<95>>
TimesSign == <<120>>
Prefix == [G |-> <<71>> \o Underscore, B |-> <<66>> \o Underscore]

Join(strings, separator) ==
  FoldLeft(LAMBDA s, next : s \o separator \o next, Head(strings), Tail(strings))
-----------------------------------------------------------------------------
(* The lexicographic orders of numbers and of characters.                  *)
LexLess(s, t) ==
  \E i \in 1..(Len(s) + 1) :
    /\ i <= Len(t) /\ \A j \in 1..(i - 1) : s[j] = t[j]
    /\ i = Len(s) + 1 \/ s[i] < t[i]

EdgesetLess(a, b) == Len(a) < Len(b) \/ (Len(a) = Len(b) /\ LexLess(a, b))

(* node::operator<: the strings of the colors, then the edge sets.         *)
NodeLess(m, n) ==
  IF m.color # n.color THEN LexLess(Decimal(m.color), Decimal(n.color))
  ELSE IF m.ins # n.ins THEN EdgesetLess(m.ins, n.ins)
  ELSE IF m.outs # n.outs THEN EdgesetLess(m.outs, n.outs)
  ELSE EdgesetLess(m.selfs, n.selfs)

(* graphlet::operator<, a graphlet being the sequence of its nodes, in the *)
(* order of their multiset.                                                *)
GraphletLess(g, h) ==
  IF Len(g) # Len(h) THEN Len(g) < Len(h)
  ELSE \E i \in DOMAIN g :
         NodeLess(g[i], h[i]) /\ \A j \in 1..(i - 1) : ~NodeLess(g[j], h[j]) /\ ~NodeLess(h[j], g[j])

(* Nodes added to a multiset<node>: equivalent ones stay in the order they *)
(* are added in.                                                           *)
AddNode(g, n) ==
  LET before == { i \in DOMAIN g : ~NodeLess(n, g[i]) }
  IN InsertAt(g, Cardinality(before) + 1, n)
-----------------------------------------------------------------------------
(* edgeset::compact: an int is appended to a std::string as the character  *)
(* of that code.                                                           *)
Char(type) == <<type>>

(* Mutant: how often a type occurs is not written.                         *)
CompactEdgesetOnce(types) ==
  LET unique == SetToSortSeq(ToSet(types), <)
  IN IF unique = <<>> THEN <<>> ELSE Join([i \in DOMAIN unique |-> Char(unique[i])], Dot)

CompactEdgeset(types) ==
  LET unique == SetToSortSeq(ToSet(types), <)
      times(t) == Cardinality({ i \in DOMAIN types : types[i] = t })
      item(t) == Char(t) \o IF times(t) > 1 THEN TimesSign \o Decimal(times(t)) ELSE <<>>
  IN IF unique = <<>> THEN <<>> ELSE Join([i \in DOMAIN unique |-> item(unique[i])], Dot)

CompactNode(n) ==
  Join(<<CompactEdgeset(n.ins), CompactEdgeset(n.outs), CompactEdgeset(n.selfs), Decimal(n.color)>>, Slash)

Compact(g) == Join([i \in DOMAIN g |-> CompactNode(g[i])], Underscore)

Feature(kind, g) == Prefix[kind] \o Compact(g)
=============================================================================
