------------------------------ MODULE MCTagging ------------------------------
(* Labels whose ids are not in the order of their numbers; models with a    *)
(* tie between labels, a negative transition weight, weights of zero and    *)
(* features that are too rare; strings whose hashes or places collide, also *)
(* with those of unknown ones; files with chains of different lengths,      *)
(* empty lines around them, an unknown attribute and an unknown label. *)
EXTENDS Tagging

CONSTANTS a1, a2, a3

(* Labels 2 and 3 have the same hash, which starts at the last of the six   *)
(* places, and label 1 starts where label 3 ends up; so does the unknown    *)
(* label 0.  a1 and a2 share a table; the unknown a3 has the hash of a1.    *)
MCHash == [text \in 0 .. 3 \cup {a1, a2, a3, NONE} |->
             CASE text \in {0, 2, 3} -> 10 [] text = 1 -> 0
               [] text \in {a1, a3} -> 7 [] text = a2 -> 15 [] text = NONE -> 1]

(* Label 1 is never met with a1, and 3 only once before 1.                  *)
MCLines ==
  LET l2 == << 2, << << a1, NONE >>, << a1, 2 >> >> >>
      l3 == << 3, << << a2, 2 >>, << a1, 2 >> >> >>
      l1 == << 1, << << a2, NONE >>, << a2, NONE >> >> >>
  IN  << l2, l2, l2, << >>, l3, l3, l3, l1 >>

MCTrainings ==
  { [lines |-> MCLines,
     minfreq |-> IF all THEN 0 ELSE 2,
     possible_states |-> all, possible_transitions |-> all,
     state |-> [a \in {a1, a2} |-> IF a = a1 THEN s ELSE << 0, 0, 1 >>],
     trans |-> << << 0, 0, 0 >>, << 0, IF all THEN 0 ELSE 2, 0 >>, << 1, 0, -1 >> >>] :
      s \in { << 0, 1, 0 >>, << 0, 0, 0 >>, << 1, -1, 1 >> }, all \in BOOLEAN }

MCDataFiles ==
  LET l0 == << 0, << >> >>
      l1 == << 2, << << a1, NONE >> >> >>
      l2 == << 1, << << a3, 1 >>, << a2, 2 >> >> >>
  IN  { << >>, << << >> >>, << l0, l1 >>, << l2, l1, l2 >>, << l1, << >>, l2 >>,
        << l2, l2, << >>, << >>, l1, << >> >>, << << >>, l1, << >>, l2, l0 >>,
        << l1, l2, << >>, l2, << >>, l1, l1 >> }

Plain == [evaluate |-> TRUE, probability |-> FALSE, marginal |-> FALSE, reference |-> FALSE,
          quiet |-> FALSE, rank |-> 0]

MCOptions ==
  { Plain,
    [Plain EXCEPT !.probability = TRUE, !.marginal = TRUE, !.evaluate = FALSE],
    [Plain EXCEPT !.marginal = TRUE, !.reference = TRUE],
    [Plain EXCEPT !.rank = 2],
    [Plain EXCEPT !.quiet = TRUE] }
==============================================================================
