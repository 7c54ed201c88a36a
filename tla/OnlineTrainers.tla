---------------------------- MODULE OnlineTrainers ----------------------------
(***************************************************************************)
(* The training algorithms of crfsuite that change the weights after each   *)
(* instance that is labelled wrongly: train_averaged_perceptron.c,          *)
(* train_passive_aggressive.c and train_arow.c.                             *)
(*                                                                          *)
(* They need no probabilities, so weights are exact fractions.  The best    *)
(* path is any of the best ones: which of them Viterbi finds is a matter of *)
(* Crf1d.  An update of several features is one step; no one else runs.     *)
(***************************************************************************)
EXTENDS CrfFeatures

CONSTANTS
  OnlineOptions,  (* the settings that are tried: algorithm, max_iterations,  *)
                  (* epsilon, and, where they apply, type, c,                *)
                  (* error_sensitive, averaging, variance and gamma          *)
  SquareRoot      (* sqrt of the numbers of wrong labels, as fractions       *)

ASSUME OnlineAssumption ==
  /\ \A o \in OnlineOptions :
       /\ o.algorithm \in {"averaged_perceptron", "passive_aggressive", "arow"}
       /\ o.max_iterations \in Nat \ {0} /\ o.type \in {0, 1, 2}
       /\ {o.error_sensitive, o.averaging} \subseteq BOOLEAN
       /\ Lowest(o.c) /\ Lowest(o.variance) /\ Lowest(o.gamma)
       /\ Less(Zero, o.c) /\ Less(Zero, o.variance) /\ Less(Zero, o.gamma)
  /\ \A n \in DOMAIN Trainset : 0 .. Len(Trainset[n].items) \subseteq DOMAIN SquareRoot
  /\ \A wrong \in DOMAIN SquareRoot : Lowest(SquareRoot[wrong]) /\ ~Less(SquareRoot[wrong], Zero)

VARIABLES
  opt,            (* the options of this training                            *)
  at,             (* where it is                                             *)
  epoch,          (* i: epochs done                                          *)
  perm, n,        (* trainset->perm, and the instance that comes next        *)
  w,              (* w, and the mean of AROW                                 *)
  ws,             (* the sum behind the average                              *)
  wa,             (* what the epoch came to                                  *)
  c,              (* c or u: vectors of weights so far                       *)
  cov,            (* the variances of AROW                                   *)
  dc,             (* delta_t: actives and delta                              *)
  encoder,        (* the weights that the encoder was given last             *)
  sumLoss,        (* the loss of this epoch                                  *)
  total,          (* history: the sum of all vectors of weights so far       *)
  evidence,       (* history: the squared differences of each feature        *)
  last            (* history: the last update                                *)

onlineVars == <<opt, at, epoch, perm, n, w, ws, wa, c, cov, dc, encoder, sumLoss, total, evidence, last>>

N == Len(Trainset)
ZeroVector == [k \in Fids |-> Zero]
Whole(x) == << x, 1 >>

OnlineInit ==
  /\ opt \in OnlineOptions
  /\ at = "epoch" /\ epoch = 0 /\ perm = [i \in 1 .. N |-> i] /\ n = 1
  /\ w = ZeroVector /\ ws = ZeroVector /\ wa = ZeroVector
  /\ c = 1
  /\ cov = [k \in Fids |-> opt.variance]
  /\ dc = [actives |-> << >>, delta |-> [k \in Fids |-> 0]]
  /\ encoder = ZeroVector /\ sumLoss = Zero
  /\ total = ZeroVector /\ evidence = [k \in Fids |-> 0] /\ last = << >>

(***************************************************************************)
(* An epoch begins                                                          *)
(***************************************************************************)
(* dataset_shuffle: instance i is exchanged with any one, for each i.       *)
Shuffled(p, picks) ==
  LET swapped[i \in 0 .. N] ==
        IF i = 0 THEN p
        ELSE [swapped[i - 1] EXCEPT ![i] = swapped[i - 1][picks[i]], ![picks[i]] = swapped[i - 1][i]]
  IN  swapped[N]

StartEpoch ==
  /\ at = "epoch" /\ epoch < opt.max_iterations
  /\ \E picks \in [1 .. N -> 1 .. N] : perm' = Shuffled(perm, picks)
  /\ n' = 1 /\ sumLoss' = Zero /\ at' = "instance"
  /\ UNCHANGED <<opt, epoch, w, ws, wa, c, cov, dc, encoder, total, evidence, last>>

(***************************************************************************)
(* An instance                                                              *)
(***************************************************************************)
Instance == Trainset[perm[n]]

Dot(weights, vector) == VecSum([k \in Fids |-> Times(weights[k], Whole(vector[k]))])

PathScore(weights, in, path) == Dot(weights, FeatureVector(in, path))

(* gm->viterbi: a path of the best score for the weights of the encoder.    *)
BestPaths(weights, in) ==
  LET paths == [DOMAIN in.labels -> LabelIds]
      score == [path \in paths |-> PathScore(weights, in, path)]
  IN  { best \in paths : \A path \in paths : ~Less(score[best], score[path]) }

(* F(x, y) - F(x, y'), for the property.                                    *)
Difference(in, path) ==
  LET right == FeatureVector(in, in.labels)
      wrong == FeatureVector(in, path)
  IN  [k \in Fids |-> right[k] - wrong[k]]

(* The callbacks of features_on_path on the two paths, the correct one with *)
(* coefficient 1 and the other with -1.                                     *)
Collected(in, path) ==
  LET right == FeaturesOnPath(in, in.labels)
      wrong == FeaturesOnPath(in, path)
  IN  right \o [h \in DOMAIN wrong |-> << wrong[h][1], -wrong[h][2] >>]

(* delta_finalize: each index once; those that are used are those kept.     *)
Collapsed(fids) ==
  LET kept[i \in 0 .. Len(fids)] ==
        IF i = 0 THEN << >>
        ELSE IF fids[i] \in ToSet(kept[i - 1]) THEN kept[i - 1] ELSE Append(kept[i - 1], fids[i])
  IN  kept[Len(fids)]

(* Mutant: delta_reset is left out.                                         *)
DeltaNotReset(hits) ==
  [actives |-> Collapsed([h \in DOMAIN hits |-> hits[h][1]]),
   delta   |-> [k \in Fids |-> dc.delta[k] + SumOfHits(hits, k)]]

(* delta_reset, which clears what the last update was about, delta_collect  *)
(* and delta_finalize.                                                      *)
Delta(hits) ==
  [actives |-> Collapsed([h \in DOMAIN hits |-> hits[h][1]]),
   delta   |-> [k \in Fids |->
                  (IF \E r \in DOMAIN dc.actives : dc.actives[r] = k THEN 0 ELSE dc.delta[k])
                  + SumOfHits(hits, k)]]

(* A sum over the active features.                                          *)
Active(d, value) == VecSum([r \in DOMAIN d.actives |-> value[d.actives[r]]])

(* delta_norm2                                                              *)
Norm2(d) == Active(d, [k \in Fids |-> Whole(d.delta[k] * d.delta[k])])

(* delta_add                                                                *)
Added(vector, d, tau) ==
  [k \in Fids |-> plus[vector[k], Active(d, [m \in Fids |->
                     IF m = k THEN Times(tau, Whole(d.delta[k])) ELSE Zero])]]

Remember(path) ==
  /\ last' = [inst |-> Instance, path |-> path, w |-> w, cov |-> cov, after |-> w']
  /\ evidence' = [k \in Fids |-> evidence[k] + Difference(Instance, path)[k] * Difference(Instance, path)[k]]

(* The weights of one more vector.                                          *)
Counted == total' = [k \in Fids |-> plus[total[k], w'[k]]]

(* Mutant: only the instances that change the weights are counted.          *)
RightlyLabelledUncounted ==
  /\ Instance.labels \in BestPaths(w, Instance)
  /\ UNCHANGED <<opt, w, ws, wa, c, cov, dc, sumLoss, evidence, last>>
  /\ Counted

(* diff is 0.                                                               *)
RightlyLabelled ==
  /\ Instance.labels \in BestPaths(w, Instance)
  /\ c' = c + 1
  /\ UNCHANGED <<opt, w, ws, wa, cov, dc, sumLoss, evidence, last>>
  /\ Counted

(* update_weights for each feature on the two paths.                        *)
PerceptronUpdate(path) ==
  LET hits == Collected(Instance, path)
  IN  /\ w'  = [k \in Fids |-> plus[w[k], Whole(SumOfHits(hits, k))]]
      /\ ws' = [k \in Fids |-> plus[ws[k], Whole(c * SumOfHits(hits, k))]]
      /\ sumLoss' = plus[sumLoss, reduced[Diff(Instance.labels, path), Len(path)]]
      /\ UNCHANGED <<cov, dc>>

(* sv - sc                                                                  *)
Err(path) == plus[PathScore(w, Instance, path), Minus(PathScore(w, Instance, Instance.labels))]

(* cost_sensitive and cost_insensitive                                      *)
Needed(path) ==
  IF opt.error_sensitive THEN SquareRoot[Diff(Instance.labels, path)] ELSE One

Least(x, y) == IF Less(x, y) THEN x ELSE y

(* tau0, tau1 and tau2.  cost / 0 is infinite: c is less, but tau0 has no   *)
(* other bound.                                                             *)
Tau(cost, norm2) ==
  CASE opt.type = 1 -> IF norm2 = Zero THEN opt.c ELSE Least(opt.c, DividedBy(cost, norm2))
    [] opt.type = 2 -> DividedBy(cost, plus[norm2, DividedBy(<< 1, 2 >>, opt.c)])
    [] OTHER        -> DividedBy(cost, norm2)

PassiveAggressiveUpdate(path) ==
  \E d \in { Delta(Collected(Instance, path)) } :
    LET cost == plus[Err(path), Needed(path)]
        tau  == Tau(cost, Norm2(d))
    IN  /\ opt.type = 0 => Norm2(d) # Zero
        /\ dc' = d
        /\ w'  = Added(w, d, tau)
        /\ ws' = Added(ws, d, Times(tau, Whole(c)))
        /\ sumLoss' = plus[sumLoss, cost]
        /\ UNCHANGED cov

(* mean += alpha * cov * delta; cov = 1 / (1 / cov + prod / gamma)          *)
ArowUpdate(path) ==
  \E d \in { Delta(Collected(Instance, path)) } :
    LET cost  == plus[Err(path), Whole(Diff(Instance.labels, path))]
        prod  == [k \in Fids |-> Whole(d.delta[k] * d.delta[k])]
        frac  == plus[opt.gamma, Active(d, [k \in Fids |-> Times(prod[k], cov[k])])]
        alpha == DividedBy(cost, frac)
        Actives == { d.actives[r] : r \in DOMAIN d.actives }
    IN  /\ dc' = d
        /\ w' = [k \in Fids |-> IF k \in Actives
                                THEN plus[w[k], Times(Times(alpha, cov[k]), Whole(d.delta[k]))] ELSE w[k]]
        /\ cov' = [k \in Fids |-> IF k \in Actives
                                  THEN DividedBy(One, plus[DividedBy(One, cov[k]), DividedBy(prod[k], opt.gamma)])
                                  ELSE cov[k]]
        /\ sumLoss' = plus[sumLoss, cost]
        /\ UNCHANGED ws

WronglyLabelled ==
  \E path \in BestPaths(w, Instance) \ { Instance.labels } :
    /\ \/ opt.algorithm = "averaged_perceptron" /\ PerceptronUpdate(path)
       \/ opt.algorithm = "passive_aggressive" /\ PassiveAggressiveUpdate(path)
       \/ opt.algorithm = "arow" /\ ArowUpdate(path)
    /\ Remember(path)
    /\ c' = c + 1 /\ Counted
    /\ UNCHANGED <<opt, wa>>

(* gm->set_weights(w) and the body of the loop.                             *)
TrainOnInstance ==
  /\ at = "instance" /\ n <= N
  /\ encoder' = w
  /\ RightlyLabelled \/ WronglyLabelled
  /\ n' = n + 1
  /\ UNCHANGED <<at, epoch, perm>>

(* The two paths have the same features: tau0 divides by zero, and every    *)
(* weight on them is no number from here on.                                *)
NotANumber ==
  /\ at = "instance" /\ n <= N
  /\ opt.algorithm = "passive_aggressive" /\ opt.type = 0
  /\ \E path \in BestPaths(w, Instance) \ { Instance.labels } :
       Difference(Instance, path) = [k \in Fids |-> 0]
  /\ at' = "nan"
  /\ UNCHANGED <<opt, epoch, perm, n, w, ws, wa, c, cov, dc, encoder, sumLoss, total, evidence, last>>

(***************************************************************************)
(* An epoch ends                                                            *)
(***************************************************************************)
Averages == opt.algorithm = "averaged_perceptron" \/ (opt.algorithm = "passive_aggressive" /\ opt.averaging)

(* wa = w - ws / c, for the algorithms that average.                        *)
EpochWeights ==
  IF Averages THEN [k \in Fids |-> plus[w[k], Minus(Times(ws[k], << 1, c >>))]] ELSE w

(* The convergence test; arow stops at epsilon, too.                        *)
Converged ==
  LET mean == Times(sumLoss, << 1, N >>)
  IN  Less(mean, opt.epsilon) \/ (opt.algorithm = "arow" /\ mean = opt.epsilon)

(* The holdout evaluation leaves the weights it was called with in the      *)
(* encoder.                                                                 *)
EndEpoch ==
  /\ at = "instance" /\ n > N
  /\ wa' = EpochWeights
  /\ encoder' = IF Testset = << >> THEN encoder ELSE wa'
  /\ epoch' = epoch + 1
  /\ at' = IF Converged \/ epoch' = opt.max_iterations THEN "returned" ELSE "epoch"
  /\ UNCHANGED <<opt, perm, n, w, ws, c, cov, dc, sumLoss, total, evidence, last>>

OnlineNext == StartEpoch \/ TrainOnInstance \/ NotANumber \/ EndEpoch

OnlineSpec == OnlineInit /\ [][OnlineNext]_onlineVars

(***************************************************************************)
(* Properties                                                               *)
(***************************************************************************)
(* What is evaluated after an epoch, and returned after the last one, is    *)
(* the mean of all vectors of weights there were since the first, which is  *)
(* zero: ws has each change with the number of vectors that were before it. *)
(* Without averaging it is the last vector.                                 *)
AverageIsMean ==
  at \in {"epoch", "returned"} =>
    IF Averages THEN wa = [k \in Fids |-> Times(total[k], << 1, c >>)] ELSE wa = w

Margin(weights, u) == Dot(weights, Difference(u.inst, u.path))

(* What update u has left of the loss of its instance is what it should.    *)
Reached(u) ==
  LET diff   == Difference(u.inst, u.path)
      norm2  == VecSum([k \in Fids |-> Whole(diff[k] * diff[k])])
      wrong  == Diff(u.inst.labels, u.path)
      spread == VecSum([k \in Fids |-> Times(u.cov[k], Whole(diff[k] * diff[k]))])
      needed == IF opt.algorithm = "arow" THEN Whole(wrong)
                ELSE IF opt.error_sensitive THEN SquareRoot[wrong] ELSE One
      Loss(weights) == plus[needed, Minus(Margin(weights, u))]
      left   == CASE opt.algorithm = "arow" ->
                       Times(Loss(u.w), DividedBy(opt.gamma, plus[opt.gamma, spread]))
                  [] opt.algorithm # "arow" /\ opt.type = 1 ->
                       LET rest == plus[Loss(u.w), Minus(Times(opt.c, norm2))]
                       IN  IF Less(rest, Zero) THEN Zero ELSE rest
                  [] opt.algorithm # "arow" /\ opt.type = 2 ->
                       DividedBy(Loss(u.w), plus[One, Times(Whole(2), Times(opt.c, norm2))])
                  [] OTHER -> Zero
  IN  Loss(u.after) = left

(* After an update the correct path is ahead of the other one by what is    *)
(* asked for: PA reaches the margin, PA-I does as far as c allows, PA-II    *)
(* and AROW leave the share of the loss that their slack does; a feature's  *)
(* precision grows with the evidence for it, from all updates.              *)
UpdatesReachTheMargin ==
  /\ last # << >> /\ opt.algorithm # "averaged_perceptron" => Reached(last)
  /\ opt.algorithm = "arow" =>
       \A k \in Fids : DividedBy(One, cov[k]) =
         plus[DividedBy(One, opt.variance), DividedBy(Whole(evidence[k]), opt.gamma)]
==============================================================================
