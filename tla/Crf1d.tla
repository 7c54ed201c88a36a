-------------------------------- MODULE Crf1d --------------------------------
(***************************************************************************)
(* The tagger of a linear-chain CRF: crfsuite-0.12/lib/crf/src/crf1d_tag.c  *)
(* and the context it works on, crf1d_context.c.                            *)
(*                                                                          *)
(* The context is one set of buffers for all instances.  Viterbi and        *)
(* forward-backward both write alpha_score, and level says whether          *)
(* forward-backward has already run on the instance that is set.            *)
(*                                                                          *)
(* Scores are integers and exponentials are to base 2, so that every        *)
(* probability is an exact fraction: what the properties compare are        *)
(* formulas, not the rounding of floatval_t.  Exponentials are positive, so *)
(* the case sum == 0 of crf1dc_alpha_score (underflow) does not occur.      *)
(***************************************************************************)
EXTENDS Fractions, Sequences, FiniteSets

VARIABLES
  model,       (* the opened model: the weights state[attribute][label] of  *)
               (* its state features and trans[label][label] of its         *)
               (* transition features                                       *)
  level,       (* crf1dt->level                                             *)
  numItems,    (* ctx->num_items                                            *)
  state,       (* ctx->state: a row of scores per item; cap_items rows      *)
  alpha,       (* ctx->alpha_score: cap_items rows of fractions             *)
  beta,        (* ctx->beta_score                                           *)
  scale,       (* ctx->scale_factor                                         *)
  norm,        (* exp(ctx->log_norm)                                        *)
  instance     (* history: the instance last set                            *)

crfVars == <<model, level, numItems, state, alpha, beta, scale, norm, instance>>

(* The code's ids 0 .. L-1 are 1 .. L here.                                 *)
NumLabels == Len(model.trans)
Labels == 1 .. NumLabels

T == numItems
Items == 1 .. T

(* crf1dt_new and crf1dc_new with T = 0: no buffers, level LEVEL_NONE.      *)
CrfInit(opened) ==
  /\ model = opened
  /\ level = "none" /\ numItems = 0
  /\ state = <<>> /\ alpha = <<>> /\ beta = <<>> /\ scale = <<>>
  /\ norm = One
  /\ instance = <<>>

(***************************************************************************)
(* Setting an instance                                                      *)
(***************************************************************************)
(* crf1dt_state_score for one item: each attribute adds its weight times    *)
(* its value to the labels it has a feature for.                            *)
ItemScore(item) ==
  [l \in Labels |->
     IntSum([c \in DOMAIN item |-> model.state[item[c].aid][l] * item[c].value])]

(* crf1dc_set_num_items: buffers that are too short are replaced by zeroed  *)
(* ones, longer ones keep what earlier instances left in them.              *)
Resized(buffer, n, zero) == IF Len(buffer) < n THEN Row([t \in 1 .. n |-> zero]) ELSE buffer

(* crf1dc_reset(RF_STATE) and crf1dt_state_score: the first rows are zeroed *)
(* and the scores of the items added to them.                               *)
StateRows(old, inst) ==
  [t \in DOMAIN old |-> IF t <= Len(inst) THEN ItemScore(inst[t]) ELSE old[t]]

SetContext(inst) ==
  LET n == Len(inst)
  IN  /\ numItems' = n
      /\ state' = StateRows(Resized(state, n, [l \in Labels |-> 0]), inst)
      /\ alpha' = Resized(alpha, n, [l \in Labels |-> Zero])
      /\ beta'  = Resized(beta, n, [l \in Labels |-> Zero])
      /\ scale' = Resized(scale, n, Zero)
      /\ norm' = One
      /\ instance' = inst
      /\ UNCHANGED model

(* Mutant: the level stays that of the last instance.                       *)
TaggerSetKeepsLevel(inst) ==
  SetContext(inst) /\ level' = IF level = "none" THEN "set" ELSE level

(* tagger_set                                                               *)
TaggerSet(inst) == SetContext(inst) /\ level' = "set"

(***************************************************************************)
(* Forward-backward                                                         *)
(***************************************************************************)
ExpState(t, l) == Exp(state[t][l])         (* crf1dc_exp_state              *)
ExpTrans(i, j) == Exp(model.trans[i][j])   (* crf1dc_exp_transition         *)

(* The steps below are functions of the row before, so that TLC evaluates   *)
(* that row once.                                                           *)
Scores == Seq(Fraction)

(* A row divided by its sum; the scale factor is the inverse of that sum.   *)
normalized[raw \in Scores] ==
  [row |-> Row([j \in Labels |-> Over(raw[j], VecSum(raw))]), scale |-> Over(One, VecSum(raw))]

(* alpha[t][j] = state[t][j] * \sum_{i} alpha[t-1][i] * trans[i][j]         *)
AlphaRow(t) ==
  [prev \in Scores |->
     Row([j \in Labels |->
            Times(VecSum([i \in Labels |-> Times(prev[i], ExpTrans(i, j))]), ExpState(t, j))])]

(* crf1dc_alpha_score                                                       *)
Forward ==
  LET fwd[t \in Items] ==
        normalized[IF t = 1 THEN Row([j \in Labels |-> ExpState(1, j)])
                            ELSE AlphaRow(t)[fwd[t - 1].row]]
  IN  Row(fwd)

(* beta[t][i] from the row of the item behind, which is multiplied by that  *)
(* item's states first.                                                     *)
BetaRow(t, factor) ==
  [next \in Scores |->
     Row([i \in Labels |->
            Times(factor, VecSum([j \in Labels |->
                                 Times(ExpTrans(i, j), Times(next[j], ExpState(t + 1, j)))]))])]

(* crf1dc_beta_score, from the last item back.                              *)
backward[factor \in Scores] ==
  LET bwd[t \in Items] ==
        IF t = T THEN Row([i \in Labels |-> factor[T]]) ELSE BetaRow(t, factor[t])[bwd[t + 1]]
  IN  Row(bwd)

(* The first T rows of a buffer are written.                                *)
Overwritten(buffer, rows) == Row([t \in DOMAIN buffer |-> IF t \in Items THEN rows[t] ELSE buffer[t]])

(* norm = 1. / (C[0] * C[1] ... * C[T-1])                                   *)
Partition(factor) == Over(One, Product(factor))

(* The buffers forward-backward has written, unless level says that it ran. *)
AtLevel ==
  IF level = "alphabeta" THEN [alpha |-> alpha, beta |-> beta, scale |-> scale, norm |-> norm]
  ELSE LET fwd    == Forward
           factor == Row([t \in Items |-> fwd[t].scale])
       IN  [alpha |-> Overwritten(alpha, [t \in Items |-> fwd[t].row]),
            beta  |-> Overwritten(beta, backward[factor]),
            scale |-> Overwritten(scale, factor),
            norm  |-> Partition(factor)]

(* crf1dt_set_level(LEVEL_ALPHABETA), which tagger_lognorm,                 *)
(* tagger_marginal_point and tagger_marginal_path call first; ctx are the   *)
(* buffers it leaves.                                                       *)
SetLevel(ctx) ==
  /\ alpha' = ctx.alpha /\ beta' = ctx.beta /\ scale' = ctx.scale /\ norm' = ctx.norm
  /\ level' = "alphabeta"
  /\ UNCHANGED <<model, numItems, state, instance>>

(* crf1dc_marginal_path(path, begin, end) for the labels path of the items  *)
(* begin, begin + 1, ..., in the context ctx; crf1dc_marginal_point is the  *)
(* path of one item.                                                        *)
MarginalPath(ctx, path, begin) ==
  LET end  == begin + Len(path) - 1
      ends == Over(Times(ctx.alpha[begin][path[1]], ctx.beta[end][path[Len(path)]]),
                   ctx.scale[begin])
      edge == [k \in 1 .. Len(path) - 1 |->
                 Times(Times(ExpTrans(path[k], path[k + 1]), ExpState(begin + k, path[k + 1])),
                       ctx.scale[begin + k - 1])]
  IN  Times(ends, Product(edge))

(***************************************************************************)
(* Viterbi                                                                  *)
(***************************************************************************)
(* max_score < score: the first of the greatest.                            *)
FirstMax(score) ==
  CHOOSE i \in Labels : \A k \in Labels : score[k] < score[i] \/ (score[k] = score[i] /\ i <= k)

BestScores == Seq([score : Int, back : Nat])

(* One item further: for each label the best score of a path that ends      *)
(* there, and the backward edge of that path.                               *)
BestRow(t) ==
  [prev \in BestScores |->
     Row([j \in Labels |->
            LET sums == Row([i \in Labels |-> prev[i].score + model.trans[i][j]])
            IN  [score |-> sums[FirstMax(sums)] + state[t][j], back |-> FirstMax(sums)]])]

(* crf1dc_viterbi, up to the last item.                                     *)
ViterbiRows ==
  LET best[t \in Items] ==
        IF t = 1 THEN Row([j \in Labels |-> [score |-> state[1][j], back |-> 0]])
                 ELSE BestRow(t)[best[t - 1]]
  IN  Row(best)

LastScores(best) == [j \in Labels |-> best[T][j].score]

(* The labels array: the backward edges traced from the best last label.    *)
ViterbiPath ==
  LET best == ViterbiRows
      path[t \in Items] == IF t = T THEN FirstMax(LastScores(best)) ELSE best[t + 1][path[t + 1]].back
  IN  Row(path)

ViterbiScore == LET best == ViterbiRows IN LastScores(best)[FirstMax(LastScores(best))]

(* tagger_viterbi: the scores are left in alpha_score, and the level is not *)
(* touched.                                                                 *)
TaggerViterbi ==
  /\ LET best == ViterbiRows
     IN  alpha' = Overwritten(alpha, [t \in Items |-> [j \in Labels |-> << best[t][j].score, 1 >>]])
  /\ UNCHANGED <<model, level, numItems, state, beta, scale, norm, instance>>

(***************************************************************************)
(* What the answers mean                                                    *)
(***************************************************************************)
Paths(inst) == [DOMAIN inst -> Labels]

(* The score of a label sequence for an instance, from the weights of the   *)
(* model.                                                                   *)
ScoreOf(inst, path) ==
  IntSum([t \in DOMAIN path |->
    ItemScore(inst[t])[path[t]] + (IF t = 1 THEN 0 ELSE model.trans[path[t - 1]][path[t]])])

(* Label sequences in a row, each of them with each label behind it.        *)
longer[paths \in Seq(Seq(Nat))] ==
  Row([n \in 1 .. Len(paths) * NumLabels |->
         Append(paths[((n - 1) \div NumLabels) + 1], ((n - 1) % NumLabels) + 1)])

(* The label sequences for the instance that is set, in a row, and their    *)
(* weights.                                                                 *)
PathRow ==
  LET rows[n \in 0 .. Len(instance)] == IF n = 0 THEN << << >> >> ELSE longer[rows[n - 1]]
  IN  rows[Len(instance)]

Weights(paths) == Row([n \in DOMAIN paths |-> Exp(ScoreOf(instance, paths[n]))])

(* The share of the paths with the labels labels from item begin on.        *)
Share(paths, weights, labels, begin) ==
  Over(VecSum([n \in DOMAIN paths |->
              IF \A k \in DOMAIN labels : paths[n][begin + k - 1] = labels[k]
              THEN weights[n] ELSE Zero]),
       VecSum(weights))
==============================================================================
