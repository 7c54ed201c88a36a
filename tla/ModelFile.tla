------------------------------- MODULE ModelFile -------------------------------
(***************************************************************************)
(* From training data to the tables of the tagger: the dictionaries that    *)
(* frontend/reader.c fills (quark.c), the features of crf1d_feature.c, the  *)
(* file that crf1de_save_model writes through crf1d_model.c, and what       *)
(* crf1d_tag.c reads back from it.                                          *)
(*                                                                          *)
(* On the way an attribute is known by its string, by its number in the     *)
(* training dictionary (quark) and, once features of weight zero are        *)
(* pruned, by another number in the file; a feature by its index in         *)
(* training and another one in the file.  Numbers are the code's plus one.  *)
(*                                                                          *)
(* A training is a record: lines, the filled lines of its data as           *)
(* << label, contents >> and its empty ones as << >>; minfreq,              *)
(* possible_states and possible_transitions, its options; and the weights   *)
(* it ends with, state[attribute][label] and trans[label][label], of those  *)
(* features that are generated.                                             *)
(***************************************************************************)
EXTENDS Cqdb, Functions

CONSTANT NONE   (* no value                                                 *)

Filled(lines, k) == k \in DOMAIN lines /\ lines[k] # << >>

(* An attribute without a value counts 1.                                   *)
ValueOf(content) == IF content[2] = NONE THEN 1 ELSE content[2]

(***************************************************************************)
(* Dictionaries                                                             *)
(***************************************************************************)
(* quark_get of each string in turn: a new one takes the next id.           *)
Quark(strs) == FoldLeft(LAMBDA q, s : IF Contains(q, s) THEN q ELSE Append(q, s), << >>, strs)

(* read_data: labels->get and attrs->get.                                   *)
TrainingLabels(lines) ==
  Quark(FlattenSeq([k \in DOMAIN lines |-> IF Filled(lines, k) THEN << lines[k][1] >> ELSE << >>]))
TrainingAttrs(lines) ==
  Quark(FlattenSeq([k \in DOMAIN lines |->
          IF Filled(lines, k) THEN [c \in DOMAIN lines[k][2] |-> lines[k][2][c][1]] ELSE << >>]))

(***************************************************************************)
(* Features                                                                 *)
(***************************************************************************)
(* The sum of the values of attribute a on items of label l.                *)
StateFreq(lines, a, l) ==
  FoldFunction(+, 0, [k \in DOMAIN lines |->
    IF Filled(lines, k) /\ lines[k][1] = l
    THEN FoldFunction(+, 0, [c \in DOMAIN lines[k][2] |->
           IF lines[k][2][c][1] = a THEN ValueOf(lines[k][2][c]) ELSE 0])
    ELSE 0])

(* How often label m follows label l within an instance.                    *)
TransFreq(lines, l, m) ==
  Len(SelectSeq([k \in DOMAIN lines |-> k],
        LAMBDA k : /\ Filled(lines, k) /\ Filled(lines, k + 1)
                   /\ lines[k][1] = l /\ lines[k + 1][1] = m))

(* crf1df_generate: the features met, and with possible_states or           *)
(* possible_transitions all others, in the order of featureset_comp; those  *)
(* below minfreq are left out.                                              *)
Generated(training) ==
  LET lines  == training.lines
      labels == TrainingLabels(lines)
      attrs  == TrainingAttrs(lines)
      Met(a, l) == \E k \in DOMAIN lines : Filled(lines, k) /\ lines[k][1] = l /\
                     \E c \in DOMAIN lines[k][2] : lines[k][2][c][1] = a
      states == FlattenSeq([a \in DOMAIN attrs |-> [l \in DOMAIN labels |->
                  [type |-> "state", src |-> a, dst |-> l,
                   freq |-> StateFreq(lines, attrs[a], labels[l]),
                   met  |-> training.possible_states \/ Met(attrs[a], labels[l])]]])
      trans  == FlattenSeq([i \in DOMAIN labels |-> [j \in DOMAIN labels |->
                  [type |-> "trans", src |-> i, dst |-> j,
                   freq |-> TransFreq(lines, labels[i], labels[j]),
                   met  |-> \/ training.possible_transitions
                            \/ TransFreq(lines, labels[i], labels[j]) > 0]]])
  IN  SelectSeq(states \o trans, LAMBDA f : f.met /\ training.minfreq <= f.freq)

(* crf1df_init_references: the features of a source, in their order.        *)
References(features, type, src) ==
  SelectSeq([k \in DOMAIN features |-> k],
            LAMBDA k : features[k].type = type /\ features[k].src = src)

(***************************************************************************)
(* Saving and opening                                                       *)
(***************************************************************************)
(* crf1dmw_put_feature.                                                     *)
FeatureRecord(f, weight, amap) ==
  [type |-> f.type, dst |-> f.dst, weight |-> weight,
   src  |-> IF f.type = "state" THEN amap[f.src] ELSE f.src]

(* crf1dmw_put_labelref and crf1dmw_put_attrref: the references to features *)
(* that are in the file.                                                    *)
Mapped(fmap, fids) == SelectSeq([r \in DOMAIN fids |-> fmap[fids[r]]], LAMBDA f : f # 0)

(* The weight of feature f, as training left it.                            *)
Weight(training, f) ==
  LET labels == TrainingLabels(training.lines)
      attrs  == TrainingAttrs(training.lines)
  IN  IF f.type = "state" THEN training.state[attrs[f.src]][labels[f.dst]]
                          ELSE training.trans[labels[f.src]][labels[f.dst]]

(* crf1de_save_model: features of weight zero are pruned,                   *)
Active(training, features) == SelectSeq(features, LAMBDA f : Weight(training, f) # 0)

(* and attributes are numbered anew in the order met.                       *)
ActiveAttrs(active) ==
  Quark(FlattenSeq([k \in DOMAIN active |->
          IF active[k].type = "state" THEN << active[k].src >> ELSE << >>]))

(* The file: fmap takes a feature, and amap an attribute, to its number     *)
(* there or to 0.                                                           *)
Saved(training, features, active) ==
  LET labels  == TrainingLabels(training.lines)
      attrs   == TrainingAttrs(training.lines)
      sources == ActiveAttrs(active)
      fmap == [k \in DOMAIN features |-> SelectInSeq(active, LAMBDA f : f = features[k])]
      amap == [a \in DOMAIN attrs |-> SelectInSeq(sources, LAMBDA b : b = a)]
      kept == SelectSeq([a \in DOMAIN attrs |-> a], LAMBDA a : amap[a] # 0)
  IN  [features  |-> [k \in DOMAIN active |->
                        FeatureRecord(active[k], Weight(training, active[k]), amap)],
       labels    |-> Database([l \in DOMAIN labels |-> [str |-> labels[l], id |-> l]]),
       attrs     |-> Database([n \in DOMAIN kept |-> [str |-> attrs[kept[n]], id |-> amap[kept[n]]]]),
       labelrefs |-> [l \in DOMAIN labels |-> Mapped(fmap, References(features, "trans", l))],
       attrrefs  |-> [b \in DOMAIN sources |-> Mapped(fmap, References(features, "state", sources[b]))]]

(* The scores behind a list of references: those of each label that one of  *)
(* its features points to.                                                  *)
Referred(dat, fids) ==
  [l \in DOMAIN dat.labelrefs |->
     FoldFunction(+, 0, [r \in DOMAIN fids |->
       IF dat.features[fids[r]].dst = l THEN dat.features[fids[r]].weight ELSE 0])]

(* crf1dm_new, and the weights as crf1dt_state_score and                    *)
(* crf1dt_transition_score find them.                                       *)
Opened(dat) ==
  [labels |-> dat.labels, attrs |-> dat.attrs,
   state  |-> [a \in DOMAIN dat.attrrefs |-> Referred(dat, dat.attrrefs[a])],
   trans  |-> [i \in DOMAIN dat.labelrefs |-> Referred(dat, dat.labelrefs[i])]]
==============================================================================
