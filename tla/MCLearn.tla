------------------------------- MODULE MCLearn -------------------------------
(* Two groups of instances: learning from both, from the first alone, with  *)
(* the second held out, and cross validation.                               *)
EXTENDS Learn

MCCommands ==
  { [data |-> {1, 2}, cross |-> FALSE, holdout |-> 0],
    [data |-> {1},    cross |-> FALSE, holdout |-> 0],
    [data |-> {1, 2}, cross |-> FALSE, holdout |-> 2],
    [data |-> {1, 2}, cross |-> TRUE,  holdout |-> 0] }

(* Losses that keep falling by more than delta, that stop falling after the *)
(* third iteration, and that stop falling after the fourth.                 *)
Falling  == [k \in 0 .. MaxIterations |-> 100 - 10 * k]
Flat(n)  == [k \in 0 .. MaxIterations |-> IF k < n THEN 100 - 10 * k ELSE 100 - 10 * n]

MCFates ==
  { [loss |-> Falling, converges |-> c, fails |-> f] : c \in {0, 7, 100}, f \in {3, 6, 100} }
  \cup { [loss |-> Flat(n), converges |-> 100, fails |-> 100] : n \in {3, 4, 5} }
==============================================================================
