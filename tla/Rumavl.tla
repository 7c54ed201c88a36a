-------------------------------- MODULE Rumavl --------------------------------
(***************************************************************************)
(* RumAVL, the threaded AVL tree of crfsuite: lib/crf/src/rumavl.c.  The    *)
(* dictionaries (quark.c) and the feature set (crf1d_feature.c) are kept in *)
(* such trees; features are numbered in the order in which they are walked. *)
(*                                                                          *)
(* A node is known by its record and a record by its place in the order of  *)
(* the comparison function.  A location is what the code has as a           *)
(* RUMAVL_NODE **: the root, or the link ln of a node.                      *)
(***************************************************************************)
EXTENDS Integers, Sequences, SequencesExt

CONSTANT NumRecords

Records == 1 .. NumRecords
NULL == 0

VARIABLES
  tree,     (* RUMAVL: root, and link, thread and balance of the nodes      *)
  last      (* the last call: its name, its record and what it returned     *)

treeVars == <<tree, last>>

LEFT == 0
RIGHT == 1
DESC == -1                     (* RUMAVL_DESC *)
ASC == 1                       (* RUMAVL_ASC  *)
LinkNo(dir) == (dir + 1) \div 2
OtherLink(ln) == 1 - ln

Links == Records \X {LEFT, RIGHT}
Root == <<NULL, LEFT>>
At(t, loc) == IF loc = Root THEN t.root ELSE t.link[loc]
Put(t, loc, n) == IF loc = Root THEN [t EXCEPT !.root = n] ELSE [t EXCEPT !.link[loc] = n]

(* rec_cmp *)
Compare(a, b) == IF a < b THEN DESC ELSE IF a > b THEN ASC ELSE 0
Sign(i) == Compare(i, 0)

(* A node that was never allocated, or is freed.                            *)
EmptyTree ==
  [root |-> NULL, link |-> [l \in Links |-> NULL], thread |-> [l \in Links |-> 0],
   balance |-> [n \in Records |-> 0]]

TreeInit == tree = EmptyTree /\ last = << "new", {}, "OK" >>

(***************************************************************************)
(* Walking                                                                  *)
(***************************************************************************)
RECURSIVE Edge(_, _, _), Descent(_, _, _), WalkFrom(_, _, _, _)

(* The last node from n on along links ln that are not threads.             *)
Edge(t, n, ln) == IF t.thread[<<n, ln>>] = 0 THEN Edge(t, t.link[<<n, ln>>], ln) ELSE n

(* seq_next *)
SeqNext(t, n, dir) ==
  LET ln == LinkNo(dir)
  IN  CASE t.thread[<<n, ln>>] = 2 -> NULL
        [] t.thread[<<n, ln>>] = 1 -> t.link[<<n, ln>>]
        [] OTHER -> Edge(t, t.link[<<n, ln>>], OtherLink(ln))

(* rumavl_node_next: from NULL, the first node in the direction.            *)
NodeNext(t, n, dir) ==
  IF n # NULL THEN SeqNext(t, n, dir)
  ELSE IF t.root = NULL THEN NULL ELSE Edge(t, t.root, OtherLink(LinkNo(dir)))

(* The loop of rumavl_foreach, and of rumavl_destroy; it is cut when it has *)
(* met more nodes than there can be.                                        *)
WalkFrom(t, n, dir, walked) ==
  LET next == NodeNext(t, n, dir)
  IN  IF next = NULL \/ Len(walked) > NumRecords THEN walked
      ELSE WalkFrom(t, next, dir, Append(walked, next))
Walk(t, dir) == WalkFrom(t, NULL, dir, <<>>)

(* The way down to a record, as pushed on the stack: locations, and the     *)
(* direction taken from the node there; 0 when it is the record's.          *)
Descent(t, r, loc) ==
  LET n   == At(t, loc)
      dir == Compare(r, n)
      ln  == LinkNo(dir)
  IN  << [at |-> loc, dir |-> dir] >>
      \o (IF dir = 0 \/ t.thread[<<n, ln>>] > 0 THEN <<>> ELSE Descent(t, r, <<n, ln>>))

(* rumavl_node_find and rumavl_find                                         *)
Finds(t, r) == t.root # NULL /\ Last(Descent(t, r, Root)).dir = 0

(***************************************************************************)
(* Balancing                                                                *)
(***************************************************************************)
(* Mutant: the factor of the old root forgets that of the new one.          *)
LoweredByOne(a, b, dir) == a + dir

(* tmp->balance in rotate: the old root, a, below the new one, b.           *)
Lowered(a, b, dir) == IF Sign(b) = -dir THEN a - b + dir ELSE a + dir

(* The balance of the new root in rotate.                                   *)
Raised(a, b, dir) ==
  CASE Sign(a) # -dir -> b + dir + Lowered(a, b, dir)
    [] Sign(a) = -dir /\ Sign(b) = -dir /\ Lowered(a, b, dir) * dir > 0 ->
         Lowered(a, b, dir) + b + dir
    [] OTHER -> b + dir

(* The change of height that rotate returns.                                *)
HeightChange(a, b, dir) ==
  IF a * dir < 0 /\ b * dir >= 0 THEN 0
  ELSE IF a * dir < -1 THEN -1 ELSE IF a * dir = -1 THEN 0 ELSE 1

(* rotate: the node below loc on the side opposite of dir becomes its root. *)
Rotate(t, loc, dir) ==
  LET ln    == OtherLink(LinkNo(dir))
      old   == At(t, loc)
      new   == t.link[<<old, ln>>]
      inner == <<new, OtherLink(ln)>>
      a     == t.balance[old]
      b     == t.balance[new]
      moved == IF t.thread[inner] > 0
               THEN [t EXCEPT !.thread[<<old, ln>>] = 1]
               ELSE [t EXCEPT !.link[<<old, ln>>] = t.link[inner], !.thread[<<old, ln>>] = 0]
  IN  IF t.thread[<<old, ln>>] > 0 THEN [tree |-> t, diff |-> 0]
      ELSE [tree |-> [Put(moved, loc, new) EXCEPT
                        !.link[inner] = old, !.thread[inner] = 0,
                        !.balance[old] = Lowered(a, b, dir), !.balance[new] = Raised(a, b, dir)],
            diff |-> HeightChange(a, b, dir)]

(* balance: when the inner grandchild is the heaviest, the child is rotated *)
(* the other way first.                                                     *)
Balance(t, loc, dir) ==
  LET node  == At(t, loc)
      ln    == OtherLink(LinkNo(dir))
      child == t.link[<<node, ln>>]
      first == IF t.balance[child] = dir /\ t.thread[<<child, OtherLink(ln)>>] = 0
               THEN Rotate(t, <<node, ln>>, -dir) ELSE [tree |-> t, diff |-> 0]
      second == Rotate(first.tree, loc, dir)
  IN  IF t.thread[<<node, ln>>] > 0 THEN [tree |-> t, diff |-> 0]
      ELSE [tree |-> second.tree, diff |-> first.diff + second.diff]

RECURSIVE Settled(_, _, _), StackUpdate(_, _, _)

(* The two inner loops of stack_update.                                     *)
Settled(t, loc, diff) ==
  LET b == t.balance[At(t, loc)]
  IN  IF b \in -1 .. 1 THEN [tree |-> t, diff |-> diff]
      ELSE LET done == Balance(t, loc, -Sign(b)) IN Settled(done.tree, loc, diff + done.diff)

(* How far the height of a node changes when its subtree in direction dir   *)
(* changes by diff and its balance factor from ob to nb.                    *)
NewDiff(diff, dir, ob, nb) ==
  LET NotBeyond(b) == IF dir * b < 0 THEN 0 ELSE b
  IN  IF diff < 0 THEN IF dir * ob > 0 THEN dir * (NotBeyond(nb) - ob) ELSE 0
      ELSE IF dir * nb > 0 THEN dir * (nb - NotBeyond(ob)) ELSE 0

(* stack_update: from the deepest location of the stack up, until the       *)
(* height no longer changes.                                                *)
StackUpdate(t, stack, diff) ==
  IF stack = <<>> \/ diff = 0 THEN t
  ELSE LET top  == Last(stack)
           n    == At(t, top.at)
           ob   == t.balance[n]
           nb   == ob + diff * top.dir
           done == Settled([t EXCEPT !.balance[n] = nb], top.at, NewDiff(diff, top.dir, ob, nb))
       IN  StackUpdate(done.tree, Front(stack), done.diff)

(***************************************************************************)
(* Setting and inserting                                                    *)
(***************************************************************************)
(* A new leaf below the last node of the descent: it takes the thread over  *)
(* and, at the edge of the tree, the thread that comes back.                *)
Linked(t, r, leafOf) ==
  LET n  == At(t, leafOf.at)
      ln == LinkNo(leafOf.dir)
      leaf == [t EXCEPT !.link[<<r, ln>>] = t.link[<<n, ln>>],
                        !.thread[<<r, ln>>] = t.thread[<<n, ln>>]]
      back == IF leaf.thread[<<r, ln>>] = 2
              THEN [leaf EXCEPT !.link[<<leaf.link[<<r, ln>>], OtherLink(ln)>>] = r] ELSE leaf
  IN  [back EXCEPT !.link[<<r, OtherLink(ln)>>] = n, !.thread[<<r, OtherLink(ln)>>] = 1,
                   !.link[<<n, ln>>] = r, !.thread[<<n, ln>>] = 0]

(* rumavl_set without the overwriting of a record by an equal one.          *)
WithRecord(t, r) ==
  IF t.root = NULL
  THEN [t EXCEPT !.root = r,
                 !.link[<<r, LEFT>>] = r, !.link[<<r, RIGHT>>] = r,
                 !.thread[<<r, LEFT>>] = 2, !.thread[<<r, RIGHT>>] = 2]
  ELSE LET stack == Descent(t, r, Root)
       IN  IF Last(stack).dir = 0 THEN t ELSE StackUpdate(Linked(t, r, Last(stack)), stack, 1)

Set(r) ==
  /\ last' = << "set", {r}, "OK" >>
  /\ tree' = WithRecord(tree, r)

(* rumavl_insert: for the call, the overwrite callback is insert_cb.        *)
Insert(r) ==
  \/ Finds(tree, r) /\ last' = << "insert", {r}, "EXIST" >> /\ tree' = tree
  \/ ~Finds(tree, r) /\ last' = << "insert", {r}, "OK" >> /\ tree' = WithRecord(tree, r)

(***************************************************************************)
(* Deleting                                                                 *)
(***************************************************************************)
(* A leaf: its parent takes its outer thread over.                          *)
WithoutLeaf(t, d, stack) ==
  IF stack = <<>> THEN [t EXCEPT !.root = NULL]
  ELSE LET ln     == LinkNo(Last(stack).dir)
           parent == At(t, Last(stack).at)
           taken  == [t EXCEPT !.link[<<parent, ln>>] = t.link[<<d, ln>>],
                               !.thread[<<parent, ln>>] = t.thread[<<d, ln>>]]
       IN  IF taken.thread[<<parent, ln>>] = 2
           THEN [taken EXCEPT !.link[<<t.link[<<d, ln>>], OtherLink(ln)>>] = parent]
           ELSE taken

(* A node with a child on the side of the link side only: the child takes   *)
(* its place, and the child's last node on the other side its thread.       *)
WithoutHalf(t, d, at, side) ==
  LET other  == OtherLink(side)
      pruned == Put(t, at, t.link[<<d, side>>])
      end    == Edge(pruned, t.link[<<d, side>>], other)
      taken  == [pruned EXCEPT !.link[<<end, other>>] = t.link[<<d, other>>],
                               !.thread[<<end, other>>] = t.thread[<<d, other>>]]
  IN  IF taken.thread[<<end, other>>] = 2
      THEN [taken EXCEPT !.link[<<t.link[<<d, other>>], side>>] = end]
      ELSE taken

RECURSIVE Spine(_, _, _)
(* The locations along links ln from loc to the last node.                  *)
Spine(t, loc, ln) ==
  LET n == At(t, loc)
  IN  << loc >> \o (IF t.thread[<<n, ln>>] = 0 THEN Spine(t, <<n, ln>>, ln) ELSE <<>>)

(* Mutant: the only child of rep goes with it.                              *)
UnlinkedWithChild(t, rep, loc) == [t EXCEPT !.thread[loc] = 1]

(* rep is taken out at its parent's link loc: its only child moves up, or   *)
(* the link to it becomes a thread.                                         *)
Unlinked(t, rep, loc) ==
  LET outer == <<rep, OtherLink(loc[2])>>
  IN  IF t.thread[outer] = 0 THEN [t EXCEPT !.link[loc] = t.link[outer]]
      ELSE [t EXCEPT !.thread[loc] = 1]

(* A node with two children: the innermost node of the heavier side, rep,   *)
(* is unlinked and takes its place.  stack holds the nodes to update after; *)
(* where the code pushes the link of d that is to be rep's, it corrects the *)
(* location in the stack.                                                   *)
Replaced(t, d, at, stack) ==
  LET outdir == IF t.balance[d] > 0 THEN ASC ELSE DESC
      dir    == -outdir
      outln  == LinkNo(outdir)
      ln     == LinkNo(dir)
      spine  == Spine(t, <<d, outln>>, ln)
      rep    == At(t, Last(spine))
      direct == Len(spine) = 1
      unlinked == IF direct THEN t ELSE Unlinked(t, rep, Last(spine))
      sides  == IF direct THEN {ln} ELSE {LEFT, RIGHT}
      inherited ==
        [unlinked EXCEPT
           !.link = [l \in Links |-> IF l[1] = rep /\ l[2] \in sides
                                     THEN unlinked.link[<<d, l[2]>>] ELSE @[l]],
           !.thread = [l \in Links |-> IF l[1] = rep /\ l[2] \in sides
                                       THEN unlinked.thread[<<d, l[2]>>] ELSE @[l]],
           !.balance[rep] = unlinked.balance[d]]
      placed == Put(inherited, at, rep)
      along  == [k \in 1 .. Len(spine) - 1 |->
                   [at |-> IF k = 1 THEN <<rep, outln>> ELSE spine[k], dir |-> dir]]
  IN  [tree  |-> [placed EXCEPT !.link[<<SeqNext(placed, rep, dir), outln>>] = rep],
       stack |-> stack \o << [at |-> at, dir |-> outdir] >> \o along]

(* rumavl_delete of a record that is in the tree; nodes that are not        *)
(* reachable any more are freed.                                            *)
WithoutRecord(t, d) ==
  LET way   == Descent(t, d, Root)
      at    == Last(way).at
      stack == Front(way)
      HasThread(ln) == t.thread[<<d, ln>>] > 0
      Pruned(pruned) == [tree |-> pruned, stack |-> stack]
      cut == CASE HasThread(LEFT) /\ HasThread(RIGHT)  -> Pruned(WithoutLeaf(t, d, stack))
               [] HasThread(LEFT) /\ ~HasThread(RIGHT) -> Pruned(WithoutHalf(t, d, at, RIGHT))
               [] ~HasThread(LEFT) /\ HasThread(RIGHT) -> Pruned(WithoutHalf(t, d, at, LEFT))
               [] OTHER -> Replaced(t, d, at, stack)
      done == StackUpdate(cut.tree, cut.stack, -1)
  IN  [done EXCEPT !.link[<<d, LEFT>>] = NULL, !.link[<<d, RIGHT>>] = NULL,
                   !.thread[<<d, LEFT>>] = 0, !.thread[<<d, RIGHT>>] = 0, !.balance[d] = 0]

Delete(r) ==
  \/ Finds(tree, r) /\ last' = << "delete", {r}, "OK" >> /\ tree' = WithoutRecord(tree, r)
  \/ ~Finds(tree, r) /\ last' = << "delete", {r}, "NOENT" >> /\ tree' = tree

(***************************************************************************)
(* The other calls                                                          *)
(***************************************************************************)
(* node_new or stack_push fails; nothing of the tree has been changed then  *)
(* (the delete callback may have been called already).                      *)
NoMemory == last' = << "any", {}, "NOMEM" >> /\ tree' = tree

(* rumavl_destroy frees the nodes of the walk.                              *)
Destroy ==
  /\ LET freed == ToSet(Walk(tree, ASC))
     IN  tree' = [root |-> NULL,
                  link |-> [l \in Links |-> IF l[1] \in freed THEN NULL ELSE tree.link[l]],
                  thread |-> [l \in Links |-> IF l[1] \in freed THEN 0 ELSE tree.thread[l]],
                  balance |-> [n \in Records |-> IF n \in freed THEN 0 ELSE tree.balance[n]]]
  /\ last' = << "destroy", {}, "OK" >>

TreeNext ==
  \/ \E r \in Records : Set(r) \/ Insert(r) \/ Delete(r)
  \/ NoMemory
  \/ Destroy

(***************************************************************************)
(* Properties                                                               *)
(***************************************************************************)
RECURSIVE Subtree(_, _)
(* Height and records of the tree below a location, and whether it is a     *)
(* search tree whose balance factors are its differences of height, within  *)
(* -1 .. 1; "legal" is judged from below, so that a height means something. *)
Subtree(t, n) ==
  LET Side(ln) == IF t.thread[<<n, ln>>] = 0 THEN Subtree(t, t.link[<<n, ln>>])
                  ELSE [height |-> 0, nodes |-> {}, legal |-> TRUE]
      left == Side(LEFT)
      right == Side(RIGHT)
  IN  [height |-> 1 + (IF left.height < right.height THEN right.height ELSE left.height),
       nodes |-> left.nodes \cup {n} \cup right.nodes,
       legal |-> /\ left.legal /\ right.legal
                 /\ \A m \in left.nodes : m < n
                 /\ \A m \in right.nodes : n < m
                 /\ t.balance[n] = right.height - left.height
                 /\ t.balance[n] \in -1 .. 1]

(* The neighbour of n among the records; at the edge, the record at the     *)
(* opposite edge.                                                           *)
ThreadsTo(nodes, n, ln) ==
  LET beyond == { m \in nodes : IF ln = LEFT THEN m < n ELSE n < m }
      Nearest(S) == CHOOSE m \in S : \A k \in S : IF ln = LEFT THEN k <= m ELSE m <= k
  IN  IF beyond = {} THEN << Nearest(nodes), 2 >> ELSE << Nearest(beyond), 1 >>

RECURSIVE FoundBelow(_, _, _)
(* The records of S, whose descents all come to node n, that are found.     *)
FoundBelow(t, n, S) ==
  LET Beyond(ln) == { r \in S : Compare(r, n) = IF ln = LEFT THEN DESC ELSE ASC }
      Side(ln) == IF Beyond(ln) = {} \/ t.thread[<<n, ln>>] > 0 THEN {}
                  ELSE FoundBelow(t, t.link[<<n, ln>>], Beyond(ln))
  IN  (S \cap {n}) \cup Side(LEFT) \cup Side(RIGHT)

(* The records that rumavl_find finds.                                      *)
Found == IF tree.root = NULL THEN {} ELSE FoundBelow(tree, tree.root, Records)

(* Whatever was set and deleted, the tree is an AVL tree, and each thread   *)
(* leads to the neighbour in the order, at the edges to the opposite edge   *)
(* with the mark 2: rotations, replacements and stack_update keep the       *)
(* balance factors exact.  So a walk, by which crf1df_generate numbers the  *)
(* features, meets exactly the records that are found, in their order or in *)
(* the opposite one.                                                        *)
TreeIsThreadedAvl ==
  /\ tree.root # NULL =>
       LET all == Subtree(tree, tree.root)
       IN  /\ all.legal
           /\ \A l \in Links :
                l[1] \in all.nodes /\ tree.thread[l] > 0 =>
                  << tree.link[l], tree.thread[l] >> = ThreadsTo(all.nodes, l[1], l[2])
  /\ LET up == Walk(tree, ASC)
     IN  /\ ToSet(up) = Found
         /\ \A k \in 1 .. Len(up) - 1 : up[k] < up[k + 1]
         /\ Walk(tree, DESC) = Reverse(up)

RecordsFound == INSTANCE RecordSet WITH contents <- Found

(* Callers see a set of records: no call loses or revives another record,   *)
(* whichever rotations it makes, a call without memory changes nothing, and *)
(* each returns what rumavl.h says.                                         *)
ImplementsRecordSet == RecordsFound!Spec
==============================================================================
