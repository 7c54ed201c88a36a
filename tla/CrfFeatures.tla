----------------------------- MODULE CrfFeatures -----------------------------
(***************************************************************************)
(* What the trainers of crfsuite know of their data: the features, by their *)
(* index, the instances, and which features are on a path of labels         *)
(* (crf1de_features_on_path of crf1d_encode.c).                             *)
(*                                                                          *)
(* A feature is [type, src, dst]: an attribute and a label, or two labels.  *)
(* An instance is [items, labels]; an item is a row of contents, each with  *)
(* the id and the value of an attribute.  Ids are the code's plus one.      *)
(***************************************************************************)
EXTENDS Fractions, FiniteSets, SequencesExt

CONSTANTS
  L,              (* num_labels                                              *)
  A,              (* num_attributes                                          *)
  Features,       (* features: those that crf1df_generate made of Trainset    *)
  Trainset,       (* the instances of the training set                        *)
  Testset         (* those of the holdout set                                 *)

InstanceLike(inst) ==
  /\ inst.items \in Seq(Seq([aid : 1 .. A, value : Int])) /\ inst.labels \in Seq(1 .. L)
  /\ Len(inst.items) = Len(inst.labels) /\ Len(inst.items) > 0

ASSUME CrfFeaturesAssumption ==
  /\ L \in Nat \ {0} /\ A \in Nat
  /\ Features \in Seq(ToSet(Features)) /\ Trainset \in Seq(ToSet(Trainset))
  /\ \A k \in DOMAIN Features : Features[k].dst \in 1 .. L
  /\ \A k, m \in DOMAIN Features : Features[k] = Features[m] => k = m
  /\ \A n \in DOMAIN Trainset : InstanceLike(Trainset[n])
  /\ \A n \in DOMAIN Testset : InstanceLike(Testset[n])

LabelIds == 1 .. L
K == Len(Features)
Fids == 1 .. K

(* The feature of a type with that source and that label, in a row of at    *)
(* most one: the loop over ATTRIBUTE(a) or TRANSITION(i) and the test of    *)
(* dst.                                                                     *)
Fid(type, src, dst) == SetToSeq({ k \in Fids : Features[k] = [type |-> type, src |-> src, dst |-> dst] })

Hits(type, src, dst, value) ==
  LET fids == Fid(type, src, dst) IN [r \in DOMAIN fids |-> << fids[r], value >>]

(* The pairs << feature, value >> of item t on a path.                      *)
HitsOf(inst, path, t) ==
  FlattenSeq([c \in DOMAIN inst.items[t] |->
                Hits("state", inst.items[t][c].aid, path[t], inst.items[t][c].value)])
  \o IF t = 1 THEN << >> ELSE Hits("trans", path[t - 1], path[t], 1)

(* crf1de_features_on_path: what func is called with, in that order.        *)
FeaturesOnPath(inst, path) == FlattenSeq([t \in DOMAIN path |-> HitsOf(inst, path, t)])

(* The values of a feature among the pairs, summed up as they come.         *)
SumOfHits(hits, k) ==
  LET sum[h \in 0 .. Len(hits)] ==
        IF h = 0 THEN 0 ELSE sum[h - 1] + (IF hits[h][1] = k THEN hits[h][2] ELSE 0)
  IN  sum[Len(hits)]

(* F(x, y): how often each feature is on the path.                          *)
FeatureVector(inst, path) ==
  LET hits == FeaturesOnPath(inst, path) IN [k \in Fids |-> SumOfHits(hits, k)]

(* The freq of a feature, summed up by featureset_add over the training set. *)
Freq(k) ==
  FoldFunction(+, 0, [n \in DOMAIN Trainset |-> FeatureVector(Trainset[n], Trainset[n].labels)[k]])

(* The labels that differ.                                                  *)
Diff(x, y) == Cardinality({ t \in DOMAIN x : x[t] # y[t] })
==============================================================================
