------------------------------ MODULE TaggerApi ------------------------------
(***************************************************************************)
(* The class Tagger of crfsuite.hpp, by which programs and the bindings     *)
(* label sequences, over crf1d_tag.c and the context of Crf1d.  Its calls   *)
(* come in any order; tag() is set() followed by viterbi().                 *)
(***************************************************************************)
EXTENDS Crf1d, SequencesExt

CONSTANTS
  ModelFiles,   (* the readable model files: trans, state, labels and attrs, *)
                (* the last two as rows of strings                           *)
  ItemRows,     (* the item sequences given: items are rows of               *)
                (* << attribute, value >>                                    *)
  LabelRows,    (* the label sequences of which the probability is asked     *)
  MaxTaggerCalls  (* bound: how many calls of open, close and set            *)

ASSUME TaggerApiAssumption ==
  /\ \A m \in ModelFiles :
       /\ m.labels \in Seq(ToSet(m.labels)) /\ m.attrs \in Seq(ToSet(m.attrs))
       /\ \A i, j \in DOMAIN m.labels : m.labels[i] = m.labels[j] => i = j
       /\ Len(m.trans) = Len(m.labels)
       /\ m.trans \in [DOMAIN m.labels -> [DOMAIN m.labels -> Int]]
       /\ m.state \in [DOMAIN m.attrs -> [DOMAIN m.labels -> Int]]
  /\ \A xseq \in ItemRows :
       /\ xseq \in Seq(ToSet(xseq))
       /\ \A t \in DOMAIN xseq :
            xseq[t] \in Seq(ToSet(xseq[t])) /\ \A c \in DOMAIN xseq[t] : xseq[t][c][2] \in Int
  /\ \A yseq \in LabelRows : yseq \in Seq(ToSet(yseq))
  /\ MaxTaggerCalls \in Nat

VARIABLES
  opened,       (* model # NULL and tagger # NULL                            *)
  told,         (* the last call and what it returned                        *)
  overwritten,  (* history: viterbi() has run on this item sequence when     *)
                (* forward-backward had                                      *)
  taggerCalls   (* counter for the bound                                     *)

taggerVars == <<crfVars, opened, told, overwritten, taggerCalls>>

NoModel == [trans |-> << >>, state |-> << >>, labels |-> << >>, attrs |-> << >>]

TaggerInit ==
  /\ CrfInit(NoModel) /\ opened = FALSE
  /\ told = [call |-> "none"] /\ overwritten = FALSE /\ taggerCalls = 0

Counted == taggerCalls < MaxTaggerCalls /\ taggerCalls' = taggerCalls + 1

(* CrfInit for the next state.                                              *)
NewTagger(m) ==
  /\ model' = m
  /\ level' = "none" /\ numItems' = 0
  /\ state' = << >> /\ alpha' = << >> /\ beta' = << >> /\ scale' = << >>
  /\ norm' = One
  /\ instance' = << >>
  /\ overwritten' = FALSE

(* crf1m_model_create: the file opened, with its tagger and dictionaries.   *)
ModelCreate(m) == NewTagger(m) /\ opened' = TRUE

(* model_release by its only owner: the tagger with its context and the     *)
(* file's contents go.                                                      *)
ModelRelease == NewTagger(NoModel) /\ opened' = FALSE

(* Tagger::open; what was open is released first.                           *)
TaggerOpen(m) ==
  /\ Counted
  /\ ModelCreate(m)
  /\ told' = [call |-> "open", returned |-> TRUE]

(* Tagger::close, and an open that finds no model file.                     *)
TaggerClose ==
  /\ Counted
  /\ ModelRelease
  /\ told' \in { [call |-> "close"], [call |-> "open", returned |-> FALSE] }

IdIn(strings, s) == SelectInSeq(strings, LAMBDA x : x = s)   (* 0: not there *)

(* The loop of Tagger::set: attributes that the model does not know are     *)
(* left out.                                                                *)
Items2Instance(xseq) ==
  [t \in DOMAIN xseq |->
     FoldLeft(LAMBDA item, c : IF IdIn(model.attrs, c[1]) = 0 THEN item
                               ELSE Append(item, [aid |-> IdIn(model.attrs, c[1]), value |-> c[2]]),
              << >>, xseq[t])]

(* Tagger::set *)
TaggerSetItems(xseq) ==
  /\ Counted /\ opened
  /\ \E inst \in {Items2Instance(xseq)} : TaggerSet(inst)
  /\ told' = [call |-> "set"] /\ overwritten' = FALSE
  /\ UNCHANGED opened

Named(path) == [t \in DOMAIN path |-> model.labels[path[t]]]

(* Tagger::viterbi; without items an empty list is returned.                *)
TaggerFind ==
  /\ opened
  /\ IF T = 0 THEN told' = [call |-> "empty"] /\ UNCHANGED <<crfVars, overwritten>>
     ELSE /\ TaggerViterbi
          /\ told' = [call |-> "viterbi", labels |-> Named(ViterbiPath)]
          /\ overwritten' = (overwritten \/ level = "alphabeta")
  /\ UNCHANGED <<opened, taggerCalls>>

(* The labels of a sequence, all of them known, one for each item.          *)
Fits(yseq) == Len(yseq) = T /\ \A t \in DOMAIN yseq : IdIn(model.labels, yseq[t]) # 0

(* crf1dc_score: state and trans are not written by any of the algorithms.  *)
PathScore(path) ==
  IntSum([t \in Items |->
    state[t][path[t]] + (IF t = 1 THEN 0 ELSE model.trans[path[t - 1]][path[t]])])

(* Tagger::probability: score and lognorm.                                  *)
TaggerProbability(yseq) ==
  /\ opened /\ T > 0 /\ Fits(yseq)
  /\ \E ctx \in {AtLevel} :
       /\ SetLevel(ctx)
       /\ told' = [call |-> "probability", labels |-> yseq,
                   p |-> Over(Exp(PathScore([t \in Items |-> IdIn(model.labels, yseq[t])])), ctx.norm)]
  /\ UNCHANGED <<opened, overwritten, taggerCalls>>

(* Tagger::marginal *)
TaggerMarginal(y, t) ==
  /\ opened /\ t \in Items /\ IdIn(model.labels, y) # 0
  /\ \E ctx \in {AtLevel} :
       /\ SetLevel(ctx)
       /\ told' = [call |-> "marginal", label |-> y, t |-> t,
                   p |-> MarginalPath(ctx, << IdIn(model.labels, y) >>, t)]
  /\ UNCHANGED <<opened, overwritten, taggerCalls>>

(* Calls that throw: nothing is open, or labels do not fit.  Those without  *)
(* items return 0 before they look at the labels.                           *)
TaggerThrows ==
  /\ \/ ~opened
     \/ T > 0 /\ \E yseq \in LabelRows : ~Fits(yseq)
  /\ told' = [call |-> "throw"]
  /\ UNCHANGED <<crfVars, opened, overwritten, taggerCalls>>

(* Tagger::labels *)
TaggerLabels ==
  /\ opened
  /\ told' = [call |-> "labels", labels |-> [l \in Labels |-> model.labels[l]]]
  /\ UNCHANGED <<crfVars, opened, overwritten, taggerCalls>>

LabelStrings == UNION { ToSet(m.labels) : m \in ModelFiles }

TaggerNext ==
  \/ \E m \in ModelFiles : TaggerOpen(m)
  \/ TaggerClose
  \/ \E xseq \in ItemRows : TaggerSetItems(xseq)
  \/ TaggerFind
  \/ \E yseq \in LabelRows : TaggerProbability(yseq)
  \/ \E y \in LabelStrings : \E t \in Items : TaggerMarginal(y, t)
  \/ TaggerThrows
  \/ TaggerLabels

TaggerSpec == TaggerInit /\ [][TaggerNext]_taggerVars

(***************************************************************************)
(* Properties                                                               *)
(***************************************************************************)
IdsOf(yseq) == Row([t \in DOMAIN yseq |-> IdIn(model.labels, yseq[t])])

ProbabilityOf(yseq) ==
  Over(Exp(ScoreOf(instance, IdsOf(yseq))), VecSum(Weights(PathRow)))

MarginalOf(y, t) ==
  LET paths == PathRow IN Share(paths, Weights(paths), << IdIn(model.labels, y) >>, t)

(* Whatever was called before: viterbi() returns a most probable label      *)
(* sequence of the item sequence last set, probability() the probability    *)
(* of the labels given, and marginal() that of the label, unless viterbi()  *)
(* has come between forward-backward and it.                                *)
TaggerAnswersAreTrue ==
  /\ told.call = "viterbi" =>
       \A path \in Paths(instance) : ScoreOf(instance, path) <= ScoreOf(instance, IdsOf(told.labels))
  /\ told.call = "probability" => told.p = ProbabilityOf(told.labels)
  /\ told.call = "marginal" /\ ~overwritten => told.p = MarginalOf(told.label, told.t)
==============================================================================
