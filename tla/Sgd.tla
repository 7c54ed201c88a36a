---------------------------------- MODULE Sgd ----------------------------------
(***************************************************************************)
(* Stochastic gradient descent with L2 regularization: train_l2sgd.c.       *)
(*                                                                          *)
(* Instead of shrinking all weights for each instance the code keeps a      *)
(* factor, decay, by which the weights it stores are to be multiplied, and  *)
(* multiplies them at the end of an epoch.  It first tries some learning    *)
(* rates on a sample (calibration) and then runs epochs with the best one.  *)
(*                                                                          *)
(* The gradient and the loss of an instance are any of Outcomes: they are   *)
(* the matter of Encoder.  Numbers are exact fractions; a loss may also be  *)
(* no finite number, INFINITE.  Weights have one component.                 *)
(***************************************************************************)
EXTENDS Fractions

CONSTANTS
  SgdOptions,     (* the settings that are tried: instances (N), c2,          *)
                  (* max_iterations, period, delta, and calibration_eta,     *)
                  (* calibration_rate, calibration_samples,                  *)
                  (* calibration_candidates, calibration_max_trials          *)
  Outcomes,       (* [loss, gradient] of an instance                         *)
  INFINITE        (* a loss that is no finite number                         *)

(* lambda = 2 * c2 / N                                                      *)
LambdaOf(o) == DividedBy(Times(<< 2, 1 >>, o.c2), << o.instances, 1 >>)

ASSUME SgdAssumption ==
  /\ \A o \in SgdOptions :
       /\ o.instances \in Nat \ {0} /\ o.max_iterations \in Nat \ {0} /\ o.period \in Nat \ {0}
       /\ o.calibration_samples \in Nat \ {0} /\ o.calibration_candidates \in Nat
       /\ Lowest(o.c2) /\ Lowest(o.calibration_eta) /\ Lowest(o.calibration_rate)
       /\ Less(Zero, o.c2) /\ Less(Zero, o.calibration_eta) /\ Less(One, o.calibration_rate)
  /\ \A x \in Outcomes : x.gradient \in Int /\ (x.loss = INFINITE \/ x.loss \in Nat)

VARIABLES
  sgd,            (* the options                                             *)
  stage,          (* where it is                                             *)
  trial,          (* calibration: what l2sgd_calibration keeps               *)
  t0, t,          (* t0 and the number of updates since                      *)
  run,            (* this call of l2sgd: N, num_epochs, calibration          *)
  weight, decay,  (* w and decay                                             *)
  sgdEpoch, item, (* epoch and i                                             *)
  loss, sum,      (* loss of the last instance, sum_loss                     *)
  best,           (* best_w and best_sum_loss                                *)
  pf,             (* the losses of the last epochs                           *)
  plain,          (* history: the weight without the factor                  *)
  epochs,         (* history: sum and weight of each epoch of this call      *)
  trials          (* history: eta and loss of each trial                     *)

sgdVars == <<sgd, stage, trial, t0, t, run, weight, decay, sgdEpoch, item, loss, sum, best, pf,
             plain, epochs, trials>>

lambda == LambdaOf(sgd)

AtMost(a, b) == IF a <= b THEN a ELSE b

(* A comparison or a sum with a loss that is not finite.                    *)
Finite(x) == x # INFINITE
LessLoss(x, y) == Finite(x) /\ (~Finite(y) \/ Less(x, y))
AddLoss(x, y) == IF Finite(x) /\ Finite(y) THEN plus[x, y] ELSE INFINITE

(* 1 / (lambda * eta)                                                       *)
Start(eta) == DividedBy(One, Times(lambda, eta))

(* Each call of l2sgd sets the weights to zero and begins with t = 0.       *)
Call(N, epochLimit, calibration, start) ==
  /\ run' = [N |-> N, num_epochs |-> epochLimit, calibration |-> calibration]
  /\ t0' = start /\ t' = 0
  /\ weight' = Zero /\ decay' = One /\ plain' = Zero
  /\ sgdEpoch' = 1 /\ item' = 1 /\ loss' = Zero /\ sum' = Zero
  /\ best' = [w |-> Zero, loss |-> INFINITE] /\ pf' = [i \in 0 .. sgd.period - 1 |-> Zero]
  /\ epochs' = << >>

SgdInit ==
  /\ sgd \in SgdOptions
  /\ stage = "start"
  /\ trial = [trials |-> 1, num |-> sgd.calibration_candidates, dec |-> FALSE,
              eta |-> sgd.calibration_eta, best_eta |-> sgd.calibration_eta, best_loss |-> INFINITE,
              init_loss |-> Zero]
  /\ t0 = Zero /\ t = 0 /\ run = << >> /\ weight = Zero /\ decay = One
  /\ sgdEpoch = 1 /\ item = 1 /\ loss = Zero /\ sum = Zero
  /\ best = [w |-> Zero, loss |-> INFINITE] /\ pf = << >>
  /\ plain = Zero /\ epochs = << >> /\ trials = << >>

(***************************************************************************)
(* l2sgd                                                                    *)
(***************************************************************************)
(* eta and gain = eta / decay, with the factor already shrunk.  At          *)
(* t0 + t = 1 the factor would become 0.                                    *)
Eta(k) == DividedBy(One, Times(lambda, plus[t0, << k, 1 >>]))
Shrink(k) == plus[One, Minus(Times(Eta(k), lambda))]

(* Mutant: the gain is not divided by the factor.                           *)
UpdatedWithoutFactor(w, d, x) == plus[w, Times(Eta(t), << x.gradient, 1 >>)]

(* objective_and_gradients adds gain times the gradient to w.               *)
Updated(w, d, x) == plus[w, Times(DividedBy(Eta(t), d), << x.gradient, 1 >>)]

SgdInstance ==
  /\ stage = "l2sgd" /\ item <= run.N
  /\ Shrink(t) # Zero
  /\ \E x \in Outcomes :
       /\ decay' = Times(decay, Shrink(t))
       /\ weight' = Updated(weight, decay', x)
       /\ loss' = (IF Finite(x.loss) THEN << x.loss, 1 >> ELSE INFINITE)
       /\ sum' = AddLoss(sum, loss')
       /\ plain' = plus[Times(Shrink(t), plain), Times(Eta(t), << x.gradient, 1 >>)]
  /\ t' = t + 1 /\ item' = item + 1
  /\ UNCHANGED <<sgd, stage, trial, t0, run, sgdEpoch, best, pf, epochs, trials>>

(* The factor is 0, the gain infinite, and so is what comes of it.          *)
FactorVanishes ==
  /\ stage = "l2sgd" /\ item <= run.N
  /\ Shrink(t) = Zero
  /\ stage' = IF run.calibration THEN "tried" ELSE "nan"
  /\ sum' = INFINITE
  /\ UNCHANGED <<sgd, trial, t0, t, run, weight, decay, sgdEpoch, item, loss, best, pf, plain, epochs, trials>>

(* The loss of the last instance is not finite: the weights are left as     *)
(* they are, without the factor, and the best ones are lost.                *)
SgdOverflow ==
  /\ stage = "l2sgd" /\ item > run.N /\ ~Finite(loss)
  /\ stage' = IF run.calibration THEN "tried" ELSE "overflow"
  /\ sum' = loss
  /\ UNCHANGED <<sgd, trial, t0, t, run, weight, decay, sgdEpoch, item, loss, best, pf, plain, epochs, trials>>

(* 0.5 * lambda * norm2 * N                                                 *)
Penalty(w) == Times(Times(<< run.N, 2 >>, lambda), Times(w, w))

(* The improvement over the epoch of period epochs ago is less than delta.  *)
(* Losses that are not finite give a ratio that is no number, or infinite.  *)
Stalled(total) ==
  LET past == pf[(sgdEpoch - 1) % sgd.period]
  IN  /\ sgd.period < sgdEpoch /\ Finite(past) /\ Finite(total)
      /\ Less(DividedBy(plus[past, Minus(total)], total), sgd.delta)

(* Mutant: the weights are not copied.                                      *)
KeptLossOnly(w, total) ==
  IF LessLoss(total, best.loss) THEN [best EXCEPT !.loss = total] ELSE best

(* best_w and best_sum_loss                                                 *)
Kept(w, total) == IF LessLoss(total, best.loss) THEN [w |-> w, loss |-> total] ELSE best

(* The weights are multiplied by the factor; what follows depends on the    *)
(* call.  The last epoch ends with the best weights.                        *)
SgdEpochEnds ==
  /\ stage = "l2sgd" /\ item > run.N /\ Finite(loss)
  /\ \E w \in { Times(weight, decay) } : \E total \in { AddLoss(sum, Penalty(w)) } :
       LET kept == Kept(w, total)
           ends == Stalled(total) \/ sgdEpoch = run.num_epochs
       IN  /\ epochs' = Append(epochs, [loss |-> total, w |-> plain])
           /\ IF run.calibration
              THEN /\ weight' = w /\ sum' = total /\ stage' = "tried"
                   /\ UNCHANGED <<best, pf>>
              ELSE /\ best' = kept
                   /\ pf' = [pf EXCEPT ![(sgdEpoch - 1) % sgd.period] = total]
                   /\ weight' = IF ends THEN kept.w ELSE w
                   /\ sum' = IF ends THEN kept.loss ELSE Zero
                   /\ stage' = IF ends THEN "returned" ELSE "l2sgd"
  /\ decay' = One
  /\ sgdEpoch' = sgdEpoch + 1 /\ item' = 1
  /\ UNCHANGED <<sgd, trial, t0, t, run, loss, plain, trials>>

(***************************************************************************)
(* Calibration                                                              *)
(***************************************************************************)
Sample == AtMost(sgd.instances, sgd.calibration_samples)

(* l2sgd_calibration computes the loss of weights zero on the sample, one   *)
(* of the outcomes an instance may have there, and starts the first trial.  *)
Calibrate ==
  /\ stage = "start"
  /\ \E x \in Outcomes :
       /\ Finite(x.loss)
       /\ trial' = [trial EXCEPT !.init_loss = << Sample * x.loss, 1 >>]
  /\ stage' = "calibrate"
  /\ UNCHANGED <<sgd, t0, t, run, weight, decay, sgdEpoch, item, loss, sum, best, pf, plain, epochs, trials>>

(* while (num > 0 || !dec)                                                  *)
GoesOn == (trial.num > 0 \/ ~trial.dec) /\ (trial.trials = 1 \/ trial.trials < sgd.calibration_max_trials)

Trial ==
  /\ stage = "calibrate" /\ GoesOn
  /\ Call(Sample, 1, TRUE, Start(trial.eta))
  /\ stage' = "l2sgd"
  /\ UNCHANGED <<sgd, trial, trials>>

(* Rates grow from the first one as long as they lower the loss, and then   *)
(* shrink from below it, until enough candidates have.                      *)
Judged(tr, ok) ==
  LET num == IF ok THEN tr.num - 1 ELSE tr.num
      up  == ~tr.dec /\ ok /\ num > 0
  IN  [tr EXCEPT
         !.trials = @ + 1,
         !.num = IF up \/ tr.dec THEN num ELSE sgd.calibration_candidates,
         !.dec = ~up,
         !.eta = IF up THEN Times(@, sgd.calibration_rate)
                 ELSE DividedBy(IF tr.dec THEN @ ELSE sgd.calibration_eta, sgd.calibration_rate),
         !.best_eta = IF LessLoss(sum, tr.best_loss) THEN tr.eta ELSE @,
         !.best_loss = IF LessLoss(sum, tr.best_loss) THEN sum ELSE @]

TrialEnds ==
  /\ stage = "tried"
  /\ trial' = Judged(trial, LessLoss(sum, trial.init_loss))
  /\ trials' = Append(trials, [eta |-> trial.eta, loss |-> sum])
  /\ stage' = "calibrate"
  /\ UNCHANGED <<sgd, t0, t, run, weight, decay, sgdEpoch, item, loss, sum, best, pf, plain, epochs>>

(* crfsuite_train_l2sgd goes on with the rate that was best.                *)
Descend ==
  /\ stage = "calibrate" /\ ~GoesOn
  /\ Call(sgd.instances, sgd.max_iterations, FALSE, Start(trial.best_eta))
  /\ stage' = "l2sgd"
  /\ UNCHANGED <<sgd, trial, trials>>

SgdNext ==
  \/ Calibrate \/ Trial \/ TrialEnds \/ Descend
  \/ SgdInstance \/ FactorVanishes \/ SgdOverflow \/ SgdEpochEnds

SgdSpec == SgdInit /\ [][SgdNext]_sgdVars

(***************************************************************************)
(* Properties                                                               *)
(***************************************************************************)
(* The weights that the encoder sees, those stored times the factor, are    *)
(* those of plain descent: w := (1 - eta * lambda) w + eta * gradient, with *)
(* eta = 1 / (lambda * (t0 + t)), also across the ends of epochs; and an    *)
(* epoch is judged by them.                                                 *)
FactorIsExact ==
  stage = "l2sgd" => Times(weight, decay) = plain /\ (item = 1 => decay = One)

FiniteEpochs == { e \in DOMAIN epochs : Finite(epochs[e].loss) }

(* What is returned are the weights and the loss of the first epoch with    *)
(* the least finite loss; zeros if there is none.  The losses the stopping  *)
(* test looks back at are those of period epochs ago.  Descent starts with  *)
(* the rate whose trial had the least loss, the first one if none was       *)
(* finite; no rate is tried twice, and those that were are a range around   *)
(* the first one.                                                           *)
BestIsKept ==
  /\ stage = "returned" =>
       \/ FiniteEpochs = {} /\ weight = Zero /\ ~Finite(sum)
       \/ \E e \in FiniteEpochs :
            /\ weight = epochs[e].w /\ sum = epochs[e].loss
            /\ \A k \in FiniteEpochs : ~Less(epochs[k].loss, epochs[e].loss)
            /\ \A k \in FiniteEpochs : k < e => Less(epochs[e].loss, epochs[k].loss)
  /\ stage = "l2sgd" /\ sgd.period < sgdEpoch =>
       pf[(sgdEpoch - 1) % sgd.period] = epochs[sgdEpoch - sgd.period].loss
  /\ stage = "calibrate" =>
       /\ \A k \in DOMAIN trials : ~LessLoss(trials[k].loss, trial.best_loss)
       /\ \/ \E k \in DOMAIN trials : trials[k] = [eta |-> trial.best_eta, loss |-> trial.best_loss]
          \/ trial.best_eta = sgd.calibration_eta /\ ~Finite(trial.best_loss)
  /\ \A k, m \in DOMAIN trials :
       /\ k # m => trials[k].eta # trials[m].eta
       /\ Less(trials[k].eta, trials[m].eta) =>
            \/ trials[m].eta = Times(trials[k].eta, sgd.calibration_rate)
            \/ \E i \in DOMAIN trials : trials[i].eta = Times(trials[k].eta, sgd.calibration_rate)
==============================================================================
