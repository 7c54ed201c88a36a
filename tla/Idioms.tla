------------------------------- MODULE Idioms --------------------------------
(***************************************************************************)
(* The idiom features of one function: FeatureVector::eval, the lookup     *)
(* tree of lookup.cpp and IdiomAnalyzer::ProduceAFunction. One step per    *)
(* instruction at which an idiom may start; the recursion below it is an   *)
(* operator.                                                               *)
(***************************************************************************)
EXTENDS IdiomFormat, Bags, SequencesExt, TLC

CONSTANTS
  Codes,   (* the functions: [insn |-> the instructions by address (op,    *)
           (* operands and len), blocks |-> a sequence of [start, end]]    *)
  IdiomSizes   (* the feature sizes                                        *)

ASSUME IdiomsAssumption ==
  /\ IdiomSizes \subseteq Nat \ {0}
  /\ \A c \in Codes : \A b \in ToSet(c.blocks) : b.start <= b.end

VARIABLES
  code, idiomSize,  (* the function and featSize                           *)
  block, addr,  (* the loops of eval: the block, the next instruction      *)
  lookup,       (* the Lookup: the features at the tree's nodes (a node is *)
                (* the path of terms to it), _term_map, and the stack      *)
  feats,        (* FeatureVector::_feats                                   *)
  idiomCounts   (* the record's counts by formatted feature                *)

idiomVars == <<code, idiomSize, block, addr, lookup, feats, idiomCounts>>

IdiomInit ==
  /\ code \in Codes /\ idiomSize \in IdiomSizes
  /\ block = 1 /\ addr = code.blocks[1].start
  /\ lookup = [feature |-> <<>>, terms |-> <<>>, stack |-> <<>>]
  /\ feats = <<>> /\ idiomCounts = EmptyBag

(* cur->next(term), and the feature a new node gets from the stack.        *)
Visit(l, next) == [l EXCEPT !.feature = IF next \in DOMAIN @ THEN @ ELSE (next :> l.stack) @@ @]

Push(l, t) == [l EXCEPT !.stack = Append(@, t)]

(* Mutant: stack.pop_back() is missing.                                    *)
PopNothing(l) == l

Pop(l) == [l EXCEPT !.stack = SubSeq(@, 1, Len(@) - 1)]

(* lookup_idiom below node cur: s is [l |-> the Lookup, feats |-> _feats]. *)
(* The term at a is taken as it is, then as the wildcard; only the first   *)
(* is a feature, and neither goes on after an illegal instruction, past    *)
(* the block or past the code.                                             *)
RECURSIVE LookupIdiom(_, _, _, _, _)
LookupIdiom(s, a, end, cur, depth) ==
  IF depth >= idiomSize \/ a \notin DOMAIN code.insn \/ a >= end THEN s
  ELSE LET known == IF a \in DOMAIN s.l.terms THEN s.l
                    ELSE [s.l EXCEPT !.terms = (a :> IdiomTerm(code.insn[a])) @@ @]
           ct == known.terms[a]
           below(l, fs, next) ==
             IF ct.entry_id = ILLEGAL THEN [l |-> l, feats |-> fs]
             ELSE LookupIdiom([l |-> l, feats |-> fs], a + code.insn[a].len, end, next, depth + 1)
           exact == Visit(Push(known, ct), Append(cur, ct))
           found == IF depth + 1 = idiomSize THEN Append(s.feats, exact.feature[Append(cur, ct)]) ELSE s.feats
           s1 == below(exact, found, Append(cur, ct))
           wild == Visit(Push(Pop(s1.l), WILDCARD_IDIOM), Append(cur, WILDCARD_IDIOM))
           s2 == below(wild, s1.feats, Append(cur, WILDCARD_IDIOM))
       IN [s2 EXCEPT !.l = Pop(@)]

(* Mutant: an idiom may go on past the end of its block.                   *)
LookupInsnPastBlock ==
  /\ block <= Len(code.blocks) /\ addr < code.blocks[block].end
  /\ LET s == LookupIdiom([l |-> lookup, feats |-> feats], addr, code.blocks[Len(code.blocks)].end, <<>>, 0)
     IN lookup' = s.l /\ feats' = s.feats
  /\ addr' = addr + code.insn[addr].len
  /\ UNCHANGED <<code, idiomSize, block, idiomCounts>>

(* The body of eval's inner loop.                                          *)
LookupInsn ==
  /\ block <= Len(code.blocks) /\ addr < code.blocks[block].end
  /\ LET s == LookupIdiom([l |-> lookup, feats |-> feats], addr, code.blocks[block].end, <<>>, 0)
     IN lookup' = s.l /\ feats' = s.feats
  /\ addr' = addr + code.insn[addr].len
  /\ UNCHANGED <<code, idiomSize, block, idiomCounts>>

EvalNextBlock ==
  /\ block <= Len(code.blocks) /\ addr >= code.blocks[block].end
  /\ block' = block + 1
  /\ addr' = IF block < Len(code.blocks) THEN code.blocks[block + 1].start ELSE addr
  /\ UNCHANGED <<code, idiomSize, lookup, feats, idiomCounts>>

(* ProduceAFunction: the iterator over _feats, which eval sets to the      *)
(* first feature if there is one.                                          *)
CountFeatures ==
  /\ block = Len(code.blocks) + 1
  /\ idiomCounts' = [f \in { Format(feats[i]) : i \in DOMAIN feats } |->
                    Cardinality({ i \in DOMAIN feats : Format(feats[i]) = f })]
  /\ block' = block + 1
  /\ UNCHANGED <<code, idiomSize, addr, lookup, feats>>

IdiomDone == block = Len(code.blocks) + 2 /\ UNCHANGED idiomVars

IdiomNext == LookupInsn \/ EvalNextBlock \/ CountFeatures \/ IdiomDone

-----------------------------------------------------------------------------
(* The tree is shared by all instructions of the function and the stack by *)
(* all activations: still the feature at a node, made once and counted     *)
(* ever after, is the idiom that the path to the node spells.              *)
FeatureNamesItsPath == \A p \in DOMAIN lookup.feature : lookup.feature[p] = p

(* The instructions of block b from which featSize instructions are in b,  *)
(* with only the last perhaps illegal.                                     *)
InsnsOf(b) ==
  LET here == { a \in DOMAIN code.insn : b.start <= a /\ a < b.end }
  IN [i \in 1..Cardinality(here) |-> CHOOSE a \in here : Cardinality({ x \in here : x <= a }) = i]

Windows(b) ==
  { i \in 1..Len(InsnsOf(b)) :
      /\ i + idiomSize - 1 <= Len(InsnsOf(b))
      /\ \A j \in i..(i + idiomSize - 2) : IdiomTerm(code.insn[InsnsOf(b)[j]]).entry_id # ILLEGAL }

Occurrences ==
  UNION { UNION { { <<b, i, mask>> : mask \in SUBSET (1..(idiomSize - 1)) } : i \in Windows(code.blocks[b]) } :
          b \in DOMAIN code.blocks }

IdiomOf(o) ==
  [j \in 1..idiomSize |-> IF j \in o[3] THEN WILDCARD_IDIOM
                     ELSE IdiomTerm(code.insn[InsnsOf(code.blocks[o[1]])[o[2] + j - 1]])]

(* The counts of the function's record are the occurrences of each idiom:  *)
(* each run of featSize instructions within a block, under every choice of *)
(* wildcards but for its last place; no two idioms share a string.         *)
CountsAreOccurrences ==
  block = Len(code.blocks) + 2 =>
    /\ BagCardinality(idiomCounts) = Cardinality(Occurrences)
    /\ \A o \in Occurrences :
         CopiesIn(Format(IdiomOf(o)), idiomCounts) = Cardinality({ p \in Occurrences : IdiomOf(p) = IdiomOf(o) })
=============================================================================
