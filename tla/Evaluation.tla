------------------------------ MODULE Evaluation ------------------------------
(***************************************************************************)
(* How well labels agree with the references: crfsuite_evaluation_t of      *)
(* crfsuite.c, which crfsuite tag -t and the training with a holdout group  *)
(* report.  Labels are 1 .. n for a model of n labels, n + 1 is unknown.    *)
(*                                                                          *)
(* A row of the table has a place for unknown labels, which stays empty:    *)
(* the counting of a sequence ends at the first of them.                    *)
(***************************************************************************)
EXTENDS Fractions, FiniteSets

LOCAL NoCounts == [correct |-> 0, model |-> 0, observation |-> 0]

(* crfsuite_evaluation_init                                                 *)
EvaluationInit(n) ==
  [num_labels |-> n, tbl |-> [l \in 1 .. n + 1 |-> NoCounts],
   item_total_num |-> 0, inst_total_correct |-> 0, inst_total_num |-> 0]

(* Mutant: the labels behind an unknown one are counted.                    *)
CountedSkipsUnknown(eval, reference, prediction) ==
  { t \in DOMAIN reference : reference[t] <= eval.num_labels /\ prediction[t] <= eval.num_labels }

(* The places up to the first unknown label.                                *)
CountedPlaces(eval, reference, prediction) ==
  { t \in DOMAIN reference :
      \A k \in 1 .. t : reference[k] <= eval.num_labels /\ prediction[k] <= eval.num_labels }

(* crfsuite_evaluation_accmulate: a sequence with an unknown label is not   *)
(* counted as one.                                                          *)
Accumulated(eval, reference, prediction) ==
  LET places == CountedPlaces(eval, reference, prediction)
      right  == { t \in places : reference[t] = prediction[t] }
      whole  == places = DOMAIN reference
  IN  [eval EXCEPT
         !.tbl = [l \in DOMAIN @ |->
                    [correct     |-> @[l].correct + Cardinality({ t \in right : reference[t] = l }),
                     model       |-> @[l].model + Cardinality({ t \in places : prediction[t] = l }),
                     observation |-> @[l].observation + Cardinality({ t \in places : reference[t] = l })]],
         !.item_total_num     = @ + Cardinality(places),
         !.inst_total_correct = @ + (IF whole /\ right = places THEN 1 ELSE 0),
         !.inst_total_num     = @ + (IF whole THEN 1 ELSE 0)]

(* A quotient of counts; 0 of 0 is 0.                                       *)
Ratio(part, whole) == IF whole = 0 THEN Zero ELSE Over(<< part, 1 >>, << whole, 1 >>)

Mean(p, r) ==
  IF plus[p, r] = Zero THEN Zero ELSE Over(Times(<< 2, 1 >>, Times(p, r)), plus[p, r])

(* The figures of a label that the references have.                         *)
Precision(row) == Ratio(row.correct, row.model)
Recall(row)    == Ratio(row.correct, row.observation)
FMeasure(row)  == Mean(Precision(row), Recall(row))

(* crfsuite_evaluation_finalize: labels that the references do not have     *)
(* have no figures, and count in the averages as zeros.                     *)
Finalized(eval) ==
  LET observed == { l \in DOMAIN eval.tbl : eval.tbl[l].observation > 0 }
      Macro(figure(_)) ==
        Over(VecSum([l \in 1 .. eval.num_labels |-> IF l \in observed THEN figure(eval.tbl[l]) ELSE Zero]),
             << eval.num_labels, 1 >>)
      correct == FoldFunction(+, 0, [l \in observed |-> eval.tbl[l].correct])
  IN  [macro |-> << Macro(Precision), Macro(Recall), Macro(FMeasure) >>,
       item_accuracy |-> Ratio(correct, eval.item_total_num),
       inst_accuracy |-> Ratio(eval.inst_total_correct, eval.inst_total_num)]

(* crfsuite_evaluation_output: the rows of all known labels, with figures   *)
(* where there are some, and the totals.                                    *)
Performance(eval, names) ==
  [rows |-> [l \in 1 .. eval.num_labels |->
               LET row == eval.tbl[l]
               IN  [label |-> names[l], counts |-> row,
                    figures |-> IF row.observation = 0 THEN << >>
                                ELSE << Precision(row), Recall(row), FMeasure(row) >>]],
   totals |-> Finalized(eval)]
=============================================================================
