------------------------------ MODULE MCTrainers ------------------------------
(* Two instances for descent, three for the others; each algorithm with     *)
(* settings for all of its branches.                                        *)
EXTENDS MCLearn, OnlineTrainers, Sgd, LineSearch, Orthantwise

(***************************************************************************)
(* Training of a model: the commands of crfsuite learn, whose lbfgs() is    *)
(* in Lbfgs, or one run of a training algorithm in detail                   *)
(* (crfsuite_train_train of crfsuite_train.c); of lbfgs() these are the     *)
(* searches that its loop calls.  What belongs to the parts that were not   *)
(* chosen stays as it is.                                                   *)
(***************************************************************************)
VARIABLE algorithm   (* tr->algorithm, "lbfgs" without and with L1, or       *)
                     (* "commands"                                           *)

vars == <<algorithm, onlineVars, sgdVars, searchVars, owlVars, commandVars>>

(* Of the settings of an algorithm that does not run one is as good as      *)
(* another.                                                                 *)
AnyOf(S) == CHOOSE s \in S : TRUE

Init ==
  /\ algorithm \in {"commands", "online", "l2sgd", "lbfgs", "lbfgs with L1"}
  /\ algorithm # "commands" => fate = AnyOf(Fates)
  /\ algorithm # "online" => opt = AnyOf(OnlineOptions)
  /\ algorithm # "l2sgd" => sgd = AnyOf(SgdOptions)
  /\ algorithm # "lbfgs" => search = AnyOf(SearchOptions) /\ dginit = AnyOf(Slopes)
  /\ algorithm # "lbfgs with L1" => problem = AnyOf(Problems) /\ step = AnyOf(Steps)
  /\ OnlineInit /\ SgdInit /\ SearchInit /\ OwlInit /\ LearnInit

Next ==
  /\ UNCHANGED algorithm
  /\ \/ algorithm = "commands" /\ LearnNext /\ UNCHANGED <<onlineVars, sgdVars, searchVars, owlVars>>
     \/ algorithm = "online" /\ OnlineNext /\ UNCHANGED <<sgdVars, searchVars, owlVars, commandVars>>
     \/ algorithm = "l2sgd" /\ SgdNext /\ UNCHANGED <<onlineVars, searchVars, owlVars, commandVars>>
     \/ algorithm = "lbfgs" /\ SearchNext /\ UNCHANGED <<onlineVars, sgdVars, owlVars, commandVars>>
     \/ /\ algorithm = "lbfgs with L1" /\ OwlNext
        /\ UNCHANGED <<onlineVars, sgdVars, searchVars, commandVars>>

Spec == Init /\ [][Next]_vars

-----------------------------------------------------------------------------

MCFeatures ==
  << [type |-> "state", src |-> 1, dst |-> 1], [type |-> "state", src |-> 1, dst |-> 2],
     [type |-> "state", src |-> 2, dst |-> 2], [type |-> "trans", src |-> 1, dst |-> 2] >>

Content(a, v) == [aid |-> a, value |-> v]

MCTrainset ==
  << [items |-> << << Content(1, 1), Content(1, 1) >>, << Content(1, 1), Content(2, 1) >> >>, labels |-> << 1, 2 >>],
     [items |-> << << Content(2, 1) >> >>, labels |-> << 1 >>],
     [items |-> << << >> >>, labels |-> << 2 >>] >>

MCTestset == << [items |-> << << Content(2, 1) >> >>, labels |-> << 2 >>] >>

Online(name, limit, epsilon, type, sensitive, averaging) ==
  [algorithm |-> name, max_iterations |-> limit, epsilon |-> epsilon,
   type |-> type, c |-> << 1, 2 >>, error_sensitive |-> sensitive, averaging |-> averaging,
   variance |-> One, gamma |-> << 2, 1 >>]

MCOnlineOptions ==
  { Online("averaged_perceptron", 2, << 1, 4 >>, 0, FALSE, TRUE) } \cup
  { Online("passive_aggressive", 2, << 1, 4 >>, type, type = 1, type # 2) : type \in {0, 1, 2} } \cup
  { Online("arow", 2, Zero, 0, FALSE, FALSE) }

MCSquareRoot == [wrong \in 0 .. 2 |-> IF wrong = 2 THEN << 7, 5 >> ELSE << wrong, 1 >>]

Descent(eta, period, candidates, limit) ==
  [instances |-> 2, c2 |-> One, max_iterations |-> limit, period |-> period, delta |-> << 1, 10 >>,
   calibration_eta |-> eta, calibration_rate |-> << 2, 1 >>, calibration_samples |-> 1,
   calibration_candidates |-> candidates, calibration_max_trials |-> 4]

MCSgdOptions == { Descent(<< 1, 3 >>, 2, 2, 3), Descent(<< 1, 2 >>, 1, 1, 3) }

MCOutcomes ==
  { [loss |-> 1, gradient |-> 1], [loss |-> 4, gradient |-> -1], [loss |-> INFINITE, gradient |-> 1] }

Searching(kind, limit) ==
  [linesearch |-> kind, max_linesearch |-> limit, min_step |-> << 1, 8 >>, max_step |-> << 8, 1 >>,
   ftol |-> << 1, 16 >>, wolfe |-> << 1, 2 >>, gtol |-> << 1, 2 >>, xtol |-> << 1, 10 >>]

MCSearchOptions ==
  { Searching("morethuente", 6) } \cup { Searching(kind, 5) : kind \in {"armijo", "wolfe", "strong wolfe"} }
MCSlopes == { One, << -4, 1 >> }
MCEvaluations ==
  { [f |-> f, dg |-> dg] : f \in { << -6, 1 >>, << -2, 1 >>, << -1, 8 >>, One },
                           dg \in { << -4, 1 >>, << -3, 1 >>, << -1, 1 >>, << 3, 1 >> } }
MCRatio == << 2, 3 >>

MCProblems ==
  { [a |-> 2, m |-> 1, b |-> << 4, 1 >>, c |-> 1], [a |-> 2, m |-> -1, b |-> << 1, -6 >>, c |-> 2],
    [a |-> 3, m |-> 0, b |-> << 2, -2 >>, c |-> 2] }
MCRawDirections == { << << i, 1 >>, << j, 1 >> >> : i, j \in -2 .. 2 }
MCSteps == { << 1, 4 >>, << 3, 1 >> }
MCFTol == << 1, 8 >>
MCMinStep == << 1, 4 >>
==============================================================================
