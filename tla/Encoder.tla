------------------------------- MODULE Encoder -------------------------------
(***************************************************************************)
(* The encoder through which every training algorithm sees the data:        *)
(* crf1d_encode.c, and crf1dc_marginals, crf1dc_score and crf1dc_reset of   *)
(* crf1d_context.c.                                                         *)
(*                                                                          *)
(* What is asked of the encoder is computed in stages, and level says which *)
(* of them are done for the weights and the instance that are set.  All     *)
(* stages work on one context, whose buffers are shared by all instances,   *)
(* by Viterbi and forward-backward, and by the functions for one instance   *)
(* and the one for the whole data set, which leaves level alone.  With      *)
(* holdout.c, which after each iteration labels the data held out.          *)
(*                                                                          *)
(* Scores are integers and exponentials are to base 2, as in Crf1d.         *)
(***************************************************************************)
EXTENDS CrfFeatures, Evaluation

CONSTANTS
  WeightVectors,  (* the vectors of weights that a trainer may come to       *)
  Scales,         (* the factors of set_weights                              *)
  MaxCalls        (* bound: how often weights, an instance or the whole data  *)
                  (* are set                                                 *)

ASSUME EncoderAssumption ==
  /\ \A w \in WeightVectors : DOMAIN w = Fids /\ \A k \in Fids : w[k] \in Int
  /\ Scales \subseteq Int /\ MaxCalls \in Nat

VARIABLES
  w, weightScale, (* self->w and self->scale                                 *)
  inst,           (* self->inst                                              *)
  encLevel,          (* self->level                                             *)
  ctx,            (* the context: num_items, trans, state, exp_trans and     *)
                  (* exp_state (as the scores whose exponentials they hold), *)
                  (* alpha_score, beta_score, scale_factor, exp(log_norm),   *)
                  (* mexp_state and mexp_trans                               *)
  claimed,        (* the level that the comments of the functions state      *)
  calls,          (* how many calls there were                               *)
  answer          (* the last function called, with what it was given        *)
                  (* and what it returned                                    *)

encoderVars == <<w, weightScale, inst, encLevel, ctx, claimed, calls, answer>>

LEVEL_NONE      == 0
LEVEL_WEIGHT    == 1
LEVEL_INSTANCE  == 2
LEVEL_ALPHABETA == 3
LEVEL_MARGINAL  == 4

(* Forward-backward and Viterbi, on the context c: the first works on the   *)
(* exponentials in its buffers, the second on the scores.                   *)
ForwardBackward(c) == INSTANCE Crf1d WITH
  model <- [trans |-> c.exp_trans], state <- c.exp_state, numItems <- c.num_items,
  level <- encLevel, alpha <- c.alpha, beta <- c.beta, scale <- c.scale, norm <- c.norm,
  instance <- inst

Search(c) == INSTANCE Crf1d WITH
  model <- [trans |-> c.trans], state <- c.state, numItems <- c.num_items,
  level <- encLevel, alpha <- c.alpha, beta <- c.beta, scale <- c.scale, norm <- c.norm,
  instance <- inst

Rows(n, value) == [t \in 1 .. n |-> [l \in LabelIds |-> value]]

(* encoder_initialize and crf1de_set_data: a context for the longest        *)
(* instance of the training set.                                            *)
Longest == CHOOSE n \in { Len(Trainset[i].items) : i \in DOMAIN Trainset } :
             \A i \in DOMAIN Trainset : Len(Trainset[i].items) <= n

EncoderInit ==
  /\ w = [k \in Fids |-> 0] /\ weightScale = 0 /\ inst = [items |-> << >>, labels |-> << >>]
  /\ encLevel = LEVEL_NONE /\ claimed = LEVEL_NONE /\ calls = 0
  /\ ctx = [num_items |-> 0, trans |-> Rows(L, 0), exp_trans |-> Rows(L, 0),
            state |-> Rows(Longest, 0), exp_state |-> Rows(Longest, 0),
            alpha |-> Rows(Longest, Zero), beta |-> Rows(Longest, Zero),
            scale |-> [t \in 1 .. Longest |-> Zero], norm |-> One,
            mexp_state |-> Rows(Longest, Zero), mexp_trans |-> Rows(L, Zero)]
  /\ answer = [call |-> "none"]

(***************************************************************************)
(* The stages                                                               *)
(***************************************************************************)
(* crf1de_transition_score_scaled, on a matrix that is zero.                *)
TransScores(weights, factor) ==
  [i \in LabelIds |-> [j \in LabelIds |->
     LET fids == Fid("trans", i, j) IN IF fids = << >> THEN 0 ELSE weights[fids[1]] * factor]]

(* crf1de_state_score_scaled, on rows that are zero.                        *)
ItemScores(item, weights, factor) ==
  [l \in LabelIds |->
     FoldFunction(+, 0, [c \in DOMAIN item |->
       LET fids == Fid("state", item[c].aid, l)
       IN  IF fids = << >> THEN 0 ELSE weights[fids[1]] * item[c].value * factor])]

(* Mutant: the expectations of the last instance stay.                      *)
ResetKeepsTransitions(c) ==
  [c EXCEPT !.mexp_state = [t \in DOMAIN @ |-> [l \in LabelIds |-> IF t <= c.num_items THEN Zero ELSE @[t][l]]],
            !.norm = One]

(* crf1dc_reset, for the part that it does whatever its flag.               *)
Reset(c) ==
  [c EXCEPT !.mexp_state = [t \in DOMAIN @ |-> [l \in LabelIds |-> IF t <= c.num_items THEN Zero ELSE @[t][l]]],
            !.mexp_trans = Rows(L, Zero),
            !.norm = One]

WithWeights(c, weights, factor) == [Reset(c) EXCEPT !.trans = TransScores(weights, factor)]

(* crf1dc_set_num_items: a context that is too short is made anew.          *)
SetNumItems(c, n) ==
  IF n <= Len(c.state) THEN [c EXCEPT !.num_items = n]
  ELSE [c EXCEPT !.num_items = n, !.state = Rows(n, 0), !.exp_state = Rows(n, 0),
                 !.alpha = Rows(n, Zero), !.beta = Rows(n, Zero),
                 !.scale = [t \in 1 .. n |-> Zero], !.mexp_state = Rows(n, Zero)]

WithInstance(c, in, weights, factor) ==
  LET n == Len(in.items)
  IN  [Reset(SetNumItems(c, n)) EXCEPT
         !.state = [t \in DOMAIN @ |-> IF t <= n THEN ItemScores(in.items[t], weights, factor) ELSE @[t]]]

(* crf1dc_exp_state, for the items that are set, and crf1dc_exp_transition. *)
WithExpState(c) == [c EXCEPT !.exp_state = [t \in DOMAIN @ |-> IF t <= c.num_items THEN c.state[t] ELSE @[t]]]
WithExpTransition(c) == [c EXCEPT !.exp_trans = c.trans]

(* crf1dc_alpha_score and crf1dc_beta_score.                                *)
AlphaBeta(c) ==
  LET fwd    == ForwardBackward(c)!Forward
      factor == Row([t \in 1 .. c.num_items |-> fwd[t].scale])
      Over1(old, new) == Row([t \in DOMAIN old |-> IF t <= c.num_items THEN new[t] ELSE old[t]])
  IN  [c EXCEPT !.alpha = Over1(@, [t \in DOMAIN factor |-> fwd[t].row]),
                !.scale = Over1(@, factor),
                !.norm  = ForwardBackward(c)!Partition(factor),
                !.beta  = Over1(@, ForwardBackward(c)!backward[factor])]

(* fwd'[t][i] * edge[i][j] * state[t+1][j] * bwd'[t+1][j]                   *)
EdgeProbability(c, t, i, j) ==
  Times(Times(c.alpha[t][i], Exp(c.exp_trans[i][j])), Times(Exp(c.exp_state[t + 1][j]), c.beta[t + 1][j]))

(* crf1dc_marginals: the expectations of transitions are added to what is   *)
(* there.                                                                   *)
Marginals(c) ==
  [c EXCEPT
     !.mexp_state = Row([t \in DOMAIN @ |->
        IF t > c.num_items THEN @[t]
        ELSE Row([l \in LabelIds |-> Over(Times(c.alpha[t][l], c.beta[t][l]), c.scale[t])])]),
     !.mexp_trans = Row([i \in LabelIds |-> Row([j \in LabelIds |->
        plus[@[i][j], VecSum([t \in 1 .. c.num_items - 1 |-> EdgeProbability(c, t, i, j)])]])])]

(* set_level: the stages that are missing up to target.                     *)
EncoderSetLevel(target) ==
  /\ \E c \in { IF LEVEL_ALPHABETA <= target /\ encLevel < LEVEL_ALPHABETA
                THEN AlphaBeta(WithExpState(WithExpTransition(ctx))) ELSE ctx } :
       ctx' = IF LEVEL_MARGINAL <= target /\ encLevel < LEVEL_MARGINAL THEN Marginals(c) ELSE c
  /\ encLevel' = target

(***************************************************************************)
(* The functions of encoder_t                                               *)
(***************************************************************************)
(* encoder_set_weights                                                      *)
SetWeights(weights, factor) ==
  /\ calls < MaxCalls /\ calls' = calls + 1
  /\ w' = weights /\ weightScale' = factor
  /\ ctx' = WithWeights(ctx, weights, factor)
  /\ encLevel' = LEVEL_WEIGHT /\ claimed' = LEVEL_WEIGHT
  /\ answer' = [call |-> "set_weights"]
  /\ UNCHANGED inst

(* Mutant: a level that was reached stays.                                  *)
SetInstanceKeepsLevel(in) ==
  /\ claimed >= LEVEL_WEIGHT
  /\ calls < MaxCalls /\ calls' = calls + 1
  /\ inst' = in
  /\ ctx' = WithInstance(ctx, in, w, weightScale)
  /\ encLevel' = (IF encLevel < LEVEL_INSTANCE THEN LEVEL_INSTANCE ELSE encLevel) /\ claimed' = LEVEL_INSTANCE
  /\ answer' = [call |-> "set_instance"]
  /\ UNCHANGED <<w, weightScale>>

(* encoder_set_instance                                                     *)
SetInstance(in) ==
  /\ claimed >= LEVEL_WEIGHT
  /\ calls < MaxCalls /\ calls' = calls + 1
  /\ inst' = in
  /\ ctx' = WithInstance(ctx, in, w, weightScale)
  /\ encLevel' = LEVEL_INSTANCE /\ claimed' = LEVEL_INSTANCE
  /\ answer' = [call |-> "set_instance"]
  /\ UNCHANGED <<w, weightScale>>

(* crf1dc_score, of the items and labels that are set.                      *)
ScoreOnContext(c, path) ==
  FoldFunction(+, 0, [t \in 1 .. c.num_items |->
    c.state[t][path[t]] + (IF t = 1 THEN 0 ELSE c.trans[path[t - 1]][path[t]])])

(* encoder_score, of the labels of the instance.                            *)
Score ==
  /\ claimed >= LEVEL_INSTANCE
  /\ answer' = [call |-> "score", path |-> inst.labels, score |-> ScoreOnContext(ctx, inst.labels)]
  /\ UNCHANGED <<w, weightScale, inst, encLevel, ctx, claimed, calls>>

(* crf1dc_viterbi overwrites alpha_score.                                   *)
AfterViterbi(c) ==
  LET best == Search(c)!ViterbiRows
  IN  [c EXCEPT !.alpha = Row([t \in DOMAIN @ |->
         IF t <= c.num_items THEN [l \in LabelIds |-> << best[t][l].score, 1 >>] ELSE @[t]])]

(* encoder_viterbi, which has not changed the level when it returns.        *)
Viterbi ==
  /\ claimed = LEVEL_INSTANCE
  /\ ctx' = AfterViterbi(ctx)
  /\ answer' = [call |-> "viterbi", path |-> Search(ctx)!ViterbiPath, score |-> Search(ctx)!ViterbiScore]
  /\ UNCHANGED <<w, weightScale, inst, encLevel, claimed, calls>>

(* encoder_partition_factor.  Behind objective_and_gradients it would take  *)
(* the level back, and the next gradient would count its transitions twice. *)
PartitionFactor ==
  /\ claimed \in {LEVEL_INSTANCE, LEVEL_ALPHABETA}
  /\ EncoderSetLevel(LEVEL_ALPHABETA) /\ claimed' = LEVEL_ALPHABETA
  /\ answer' = [call |-> "partition_factor", norm |-> ctx'.norm]
  /\ UNCHANGED <<w, weightScale, inst, calls>>

(* crf1de_observation_expectation with scale = 1                            *)
Observation(in) == FeatureVector(in, in.labels)

(* crf1de_model_expectation with scale = 1                                  *)
ModelExpectation(c, in) ==
  [k \in Fids |->
     IF Features[k].type = "trans" THEN c.mexp_trans[Features[k].src][Features[k].dst]
     ELSE VecSum([t \in DOMAIN in.items |->
            VecSum([i \in DOMAIN in.items[t] |->
               IF in.items[t][i].aid = Features[k].src
               THEN Times(c.mexp_state[t][Features[k].dst], << in.items[t][i].value, 1 >>)
               ELSE Zero])])]

(* exp(-f) for an instance: the exponential of its score, normalized.       *)
Likelihood(c, in) == Over(Exp(ScoreOnContext(c, in.labels)), c.norm)

(* encoder_objective_and_gradients: f, and what is added to g for gain 1.   *)
ObjectiveAndGradients ==
  /\ claimed >= LEVEL_INSTANCE
  /\ EncoderSetLevel(LEVEL_MARGINAL) /\ claimed' = LEVEL_MARGINAL
  /\ \E e \in { ModelExpectation(ctx', inst) } :
       answer' = [call |-> "objective_and_gradients", likelihood |-> Likelihood(ctx', inst),
                  g |-> Row([k \in Fids |-> plus[<< Observation(inst)[k], 1 >>, Minus(e[k])]])]
  /\ UNCHANGED <<w, weightScale, inst, calls>>

Contexts ==
  [num_items : Nat, trans : Seq(Seq(Int)), exp_trans : Seq(Seq(Int)), state : Seq(Seq(Int)),
   exp_state : Seq(Seq(Int)), alpha : Seq(Seq(Fraction)), beta : Seq(Seq(Fraction)),
   scale : Seq(Fraction), norm : Fraction, mexp_state : Seq(Seq(Fraction)),
   mexp_trans : Seq(Seq(Fraction))]

Sums == [likelihood : Fraction, g : Seq(Fraction)]

(* exp(logl) and g, with instance n added from its context.                 *)
added[sums \in Sums, c \in Contexts, n \in DOMAIN Trainset] ==
  LET e == Row(ModelExpectation(c, Trainset[n]))
  IN  [likelihood |-> Times(sums.likelihood, Likelihood(c, Trainset[n])),
       g |-> Row([k \in Fids |-> plus[sums.g[k], e[k]]])]

(* encoder_objective_and_gradients_batch: what it returns, and the context  *)
(* it leaves.                                                               *)
Batch(weights) ==
  LET Start == WithExpTransition(WithWeights(ctx, weights, 1))
      context[n \in 0 .. Len(Trainset)] ==
        IF n = 0 THEN Start
        ELSE Marginals(AlphaBeta(WithExpState(WithInstance(context[n - 1], Trainset[n], weights, 1))))
      result[n \in 0 .. Len(Trainset)] ==
        IF n = 0 THEN [likelihood |-> One, g |-> [k \in Fids |-> << -Freq(k), 1 >>]]
        ELSE added[result[n - 1], context[n], n]
  IN  result[Len(Trainset)] @@ [c |-> context[Len(Trainset)]]

(* The level keeps what it was before; whoever goes on has to set weights.  *)
ObjectiveAndGradientsBatch(weights) ==
  /\ calls < MaxCalls /\ calls' = calls + 1
  /\ \E b \in { Batch(weights) } :
       /\ ctx' = b.c
       /\ answer' = [call |-> "objective_and_gradients_batch", weights |-> weights,
                     likelihood |-> b.likelihood, g |-> b.g]
  /\ claimed' = LEVEL_NONE
  /\ UNCHANGED <<w, weightScale, inst, encLevel>>

(* The loop of holdout_evaluation, on context c: the instances held out are *)
(* set and labelled one by one.                                             *)
Labelled(c, weights) ==
  LET at[n \in 0 .. Len(Testset)] ==
        IF n = 0 THEN [c |-> c, eval |-> EvaluationInit(L)]
        ELSE LET set == WithInstance(at[n - 1].c, Testset[n], weights, 1)
             IN  [c |-> AfterViterbi(set),
                  eval |-> Accumulated(at[n - 1].eval, Testset[n].labels, Search(set)!ViterbiPath)]
  IN  at[Len(Testset)]

(* holdout_evaluation, with set_weights                                     *)
HoldoutEvaluation(weights) ==
  /\ Testset # << >>
  /\ calls < MaxCalls /\ calls' = calls + 1
  /\ w' = weights /\ weightScale' = 1 /\ inst' = Last(Testset)
  /\ \E r \in { Labelled(WithWeights(ctx, weights, 1), weights) } :
       /\ ctx' = r.c
       /\ answer' = [call |-> "holdout_evaluation", weights |-> weights, eval |-> r.eval]
  /\ encLevel' = LEVEL_INSTANCE /\ claimed' = LEVEL_INSTANCE

EncoderNext ==
  \/ \E weights \in WeightVectors :
       \/ \E factor \in Scales : SetWeights(weights, factor)
       \/ ObjectiveAndGradientsBatch(weights)
       \/ HoldoutEvaluation(weights)
  \/ \E n \in DOMAIN Trainset : SetInstance(Trainset[n])
  \/ \E n \in DOMAIN Testset : SetInstance(Testset[n])
  \/ Score
  \/ Viterbi
  \/ PartitionFactor
  \/ ObjectiveAndGradients

(***************************************************************************)
(* Properties                                                               *)
(***************************************************************************)
(* The same model as the tagger would see it.                               *)
Reference(weights, factor, in) == INSTANCE Crf1d WITH
  model <- [trans |-> TransScores(weights, factor),
            state |-> [a \in 1 .. A |-> ItemScores(<< [aid |-> a, value |-> 1] >>, weights, factor)]],
  instance <- in.items, numItems <- Len(in.items), level <- LEVEL_NONE,
  state <- << >>, alpha <- << >>, beta <- << >>, scale <- << >>, norm <- One

(* The expected count of each feature: over all paths, with their           *)
(* probabilities.                                                           *)
ExpectedCounts(weights, factor, in) ==
  LET paths == Reference(weights, factor, in)!PathRow
      probs == Reference(weights, factor, in)!Weights(paths)
      counts == Row([n \in DOMAIN paths |-> Row(FeatureVector(in, paths[n]))])
  IN  [k \in Fids |-> Over(VecSum([n \in DOMAIN paths |-> Times(probs[n], << counts[n][k], 1 >>)]), VecSum(probs))]

Probability(weights, factor, in) ==
  LET paths == Reference(weights, factor, in)!PathRow
  IN  Over(Exp(Reference(weights, factor, in)!ScoreOf(in.items, in.labels)),
           VecSum(Reference(weights, factor, in)!Weights(paths)))

(* The best label sequences.                                                *)
BestPaths(weights, in) ==
  LET ScoreOf(path) == Reference(weights, 1, in)!ScoreOf(in.items, path)
      paths == [DOMAIN in.labels -> LabelIds]
  IN  { best \in paths : \A path \in paths : ScoreOf(path) <= ScoreOf(best) }

(* What score, viterbi and partition_factor return is about the weights and *)
(* the instance last set, whatever was computed in between: the score of a  *)
(* path, a best one, and all their exponentials summed up.  The objective   *)
(* is the probability of the labels, and the gradient of a feature its      *)
(* observed less its expected count; for the whole training set the product *)
(* of the probabilities, and the sum of the counts, with the other sign.    *)
(* The holdout evaluation counts how best sequences of the instances held   *)
(* out agree with their labels.                                             *)
EncoderAnswersAreTrue ==
  LET ScoreOf(path) == Reference(w, weightScale, inst)!ScoreOf(inst.items, path)
  IN
  /\ answer.call = "score" => answer.score = ScoreOf(answer.path)
  /\ answer.call = "viterbi" =>
       /\ answer.score = ScoreOf(answer.path)
       /\ \A path \in [DOMAIN inst.labels -> LabelIds] : ScoreOf(path) <= answer.score
  /\ answer.call = "partition_factor" =>
       LET R == Reference(w, weightScale, inst)!PathRow
       IN  answer.norm = VecSum(Reference(w, weightScale, inst)!Weights(R))
  /\ answer.call = "objective_and_gradients" =>
       LET expected == ExpectedCounts(w, weightScale, inst)
       IN  /\ answer.likelihood = Probability(w, weightScale, inst)
           /\ \A k \in Fids : plus[answer.g[k], expected[k]] = << Observation(inst)[k], 1 >>
  /\ answer.call = "objective_and_gradients_batch" =>
       LET expected == [n \in DOMAIN Trainset |-> ExpectedCounts(answer.weights, 1, Trainset[n])]
       IN  /\ answer.likelihood =
                Product([n \in DOMAIN Trainset |-> Probability(answer.weights, 1, Trainset[n])])
           /\ \A k \in Fids :
                answer.g[k] = plus[VecSum([n \in DOMAIN Trainset |-> expected[n][k]]), << -Freq(k), 1 >>]
  /\ answer.call = "holdout_evaluation" =>
       \E best \in [DOMAIN Testset -> UNION { BestPaths(answer.weights, Testset[n]) : n \in DOMAIN Testset }] :
         /\ \A n \in DOMAIN Testset : best[n] \in BestPaths(answer.weights, Testset[n])
         /\ \A l \in LabelIds :
              LET Places(Test(_, _)) ==
                    FoldFunction(+, 0, [n \in DOMAIN Testset |->
                      Cardinality({ t \in DOMAIN Testset[n].labels : Test(Testset[n].labels[t], best[n][t]) })])
              IN  answer.eval.tbl[l] =
                    [correct     |-> Places(LAMBDA y, z : y = l /\ z = l),
                     model       |-> Places(LAMBDA y, z : z = l),
                     observation |-> Places(LAMBDA y, z : y = l)]
         /\ answer.eval.inst_total_correct =
              Cardinality({ n \in DOMAIN Testset : best[n] = Testset[n].labels })
==============================================================================
