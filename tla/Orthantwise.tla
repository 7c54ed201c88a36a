------------------------------ MODULE Orthantwise ------------------------------
(***************************************************************************)
(* lbfgs() with L1 regularization (OWL-QN): the pseudo-gradient, the         *)
(* constrained direction and line_search_backtracking_owlqn of               *)
(* liblbfgs-1.10/lib/lbfgs.c, also when it goes on from a checkpoint.        *)
(*                                                                          *)
(* The smooth part of the objective is a quadratic function of two weights;  *)
(* every weight is penalized, as crfsuite has it.  The direction is any that *)
(* descends: the products with the corrections have that effect, for the     *)
(* matrix they stand for is positive definite.  Numbers are exact fractions. *)
(***************************************************************************)
EXTENDS Fractions

CONSTANTS
  Problems,          (* [a, m, b, c]: the smooth part is a/2 (x1^2 + x2^2) +  *)
                     (* m x1 x2 - b1 x1 - b2 x2, and c is orthantwise_c       *)
  RawDirections,     (* what the direction may be before it is constrained    *)
  Steps,             (* 1 / |d|, the step of the first iteration              *)
  FTol,              (* ftol                                                  *)
  MinStep,           (* min_step                                              *)
  MaxTrials,         (* max_linesearch                                        *)
  LastIteration,     (* max_iterations                                        *)
  MaxResumes         (* bound: how often it is killed and given again         *)

Weights == 1 .. 2

ASSUME OrthantwiseAssumption ==
  /\ \A p \in Problems :
       /\ p.a \in Nat \ {0} /\ p.m \in Int /\ p.m * p.m < p.a * p.a
       /\ p.b \in [Weights -> Int] /\ p.c \in Nat \ {0}
  /\ \A raw \in RawDirections : raw \in [Weights -> Fraction] /\ \A i \in Weights : Lowest(raw[i])
  /\ \A s \in Steps : Lowest(s) /\ Less(Zero, s)
  /\ Lowest(FTol) /\ ~Less(FTol, Zero)
  /\ MaxTrials \in Nat \ {0} /\ LastIteration \in Nat \ {0} /\ MaxResumes \in Nat

VARIABLES
  problem,
  owl,             (* where lbfgs() is                                        *)
  x, xp,           (* the point, and that of the iteration before              *)
  fx, finit,       (* the objective with the L1 norm, and at xp                *)
  pg, gp,          (* the pseudo-gradient, and at xp                           *)
  d, step,         (* the direction and the step                               *)
  wp,              (* the orthant                                              *)
  tried, k,        (* count and the iteration                                  *)
  resumes

owlVars == <<problem, owl, x, xp, fx, finit, pg, gp, d, step, wp, tried, k, resumes>>

Int2F(n) == << n, 1 >>
Plus2(p, q) == plus[p, q]
Origin == [i \in Weights |-> Zero]
Magnitude(p) == IF p[1] < 0 THEN Minus(p) ELSE p
Inner(u, v) == Plus2(Times(u[1], v[1]), Times(u[2], v[2]))
Other(i) == 3 - i

(* proc_evaluate                                                            *)
Smooth(pr, at) ==
  LET squares == Plus2(Times(at[1], at[1]), Times(at[2], at[2]))
  IN  Plus2(Plus2(Times(<< pr.a, 2 >>, squares), Times(Int2F(pr.m), Times(at[1], at[2]))),
            Minus(Inner([i \in Weights |-> Int2F(pr.b[i])], at)))
Gradient(pr, at) ==
  [i \in Weights |-> Plus2(Plus2(Times(Int2F(pr.a), at[i]), Times(Int2F(pr.m), at[Other(i)])),
                           Int2F(-pr.b[i]))]

(* owlqn_x1norm                                                             *)
X1Norm(at) == Plus2(Magnitude(at[1]), Magnitude(at[2]))

Objective(pr, at) == Plus2(Smooth(pr, at), Times(Int2F(pr.c), X1Norm(at)))

(* Mutant: at 0 the left derivative is taken whenever the right one does    *)
(* not descend.                                                             *)
PseudoGradientLeft(pr, at) ==
  LET g == Gradient(pr, at)
      c == Int2F(pr.c)
  IN  [i \in Weights |->
         CASE Less(at[i], Zero) \/ (at[i] = Zero /\ ~Less(g[i], Minus(c))) -> Plus2(g[i], Minus(c))
           [] OTHER -> Plus2(g[i], c)]

(* owlqn_pseudo_gradient                                                    *)
PseudoGradient(pr, at) ==
  LET g == Gradient(pr, at)
      c == Int2F(pr.c)
  IN  [i \in Weights |->
         CASE Less(at[i], Zero) \/ (at[i] = Zero /\ Less(c, g[i])) -> Plus2(g[i], Minus(c))
           [] Less(Zero, at[i]) \/ (at[i] = Zero /\ Less(g[i], Minus(c))) -> Plus2(g[i], c)
           [] OTHER -> Zero]

(* From zeros.  A gradient of 0 stands for one of at most epsilon.           *)
OwlInit ==
  /\ problem \in Problems
  /\ x = Origin /\ xp = Origin
  /\ fx = Objective(problem, x) /\ finit = fx
  /\ pg = PseudoGradient(problem, x) /\ gp = Origin
  /\ d = [i \in Weights |-> Minus(pg[i])]
  /\ step \in Steps
  /\ wp = Origin /\ tried = 0 /\ k = 1 /\ resumes = 0
  /\ owl = IF pg = Origin THEN "converged" ELSE "loop"

(* The orthant for the new point.                                           *)
StartSearch ==
  /\ owl = "loop"
  /\ xp' = x /\ gp' = pg /\ finit' = fx
  /\ wp' = [i \in Weights |-> IF x[i] = Zero THEN Minus(pg[i]) ELSE x[i]]
  /\ tried' = 0 /\ owl' = "search"
  /\ UNCHANGED <<problem, x, fx, pg, d, step, k, resumes>>

(* Mutant: the new point is not projected.                                  *)
Unprojected(at) == at

(* owlqn_project                                                            *)
Projected(at) == [i \in Weights |-> IF Less(Zero, Times(at[i], wp[i])) THEN at[i] ELSE Zero]

(* A trial.  After a failed one lbfgs() returns with x as it was, but not fx. *)
TryStep ==
  /\ owl = "search"
  /\ \E to \in { Projected([i \in Weights |-> Plus2(xp[i], Times(step, d[i]))]) } :
       LET test == Inner([i \in Weights |-> Plus2(to[i], Minus(xp[i]))], gp)
           accepted == ~Less(Plus2(finit, Times(FTol, test)), fx')
           fails == ~accepted /\ (Less(step, MinStep) \/ MaxTrials <= tried + 1)
       IN  /\ fx' = Objective(problem, to)
           /\ x' = IF fails THEN xp ELSE to
           /\ pg' = IF accepted \/ fails THEN PseudoGradient(problem, to) ELSE pg
           /\ step' = IF accepted \/ fails THEN step ELSE Times(step, << 1, 2 >>)
           /\ owl' = CASE fails -> "failed"
                       [] accepted /\ pg' = Origin -> "converged"
                       [] accepted /\ pg' # Origin -> IF k = LastIteration THEN "maximum" ELSE "direction"
                       [] OTHER -> "search"
  /\ tried' = tried + 1
  /\ UNCHANGED <<problem, xp, finit, gp, d, wp, k, resumes>>

(* The direction stays in the orthant where the pseudo-gradient descends.   *)
Constrained(raw, g) == [i \in Weights |-> IF Less(Times(raw[i], g[i]), Zero) THEN raw[i] ELSE Zero]

NewDirection ==
  /\ owl = "direction"
  /\ \E raw \in RawDirections : Less(Inner(raw, pg), Zero) /\ d' = Constrained(raw, pg)
  /\ step' = One /\ k' = k + 1 /\ owl' = "loop"
  /\ UNCHANGED <<problem, x, xp, fx, finit, pg, gp, wp, tried, resumes>>

(* Killed after a checkpoint, and given again: x, fx, d, step and w (wp)    *)
(* are read, and pg is what vecalloc has made it: zeros.                    *)
Resume ==
  /\ owl = "loop" /\ k > 1 /\ resumes < MaxResumes
  /\ resumes' = resumes + 1
  /\ pg' = Origin /\ xp' = Origin /\ gp' = Origin /\ finit' = Zero
  /\ UNCHANGED <<problem, owl, x, fx, d, step, wp, tried, k>>

OwlNext == StartSearch \/ TryStep \/ NewDirection \/ Resume

OwlSpec == OwlInit /\ [][OwlNext]_owlVars

(***************************************************************************)
(* Properties                                                               *)
(***************************************************************************)
(* An iteration does not make the objective greater, whose value fx is with *)
(* the penalty of all weights, and none of its trials takes a weight across *)
(* 0, where the objective has a kink: also after a checkpoint, when nothing *)
(* is known of the pseudo-gradient.                                         *)
OrthantwiseDescent ==
  /\ owl # "failed" => fx = Objective(problem, x)
  /\ owl \in {"direction", "converged", "maximum"} => ~Less(finit, fx)
  /\ owl # "loop" => \A i \in Weights : ~Less(Times(x[i], xp[i]), Zero)
  /\ owl = "search" => \A i \in Weights :
       xp[i] = Zero /\ x[i] # Zero => Less(Times(x[i], gp[i]), Zero)

(* Displacements of a weight.  Where the pseudo-gradient is not 0, the       *)
(* smallest of them have the objective fall: they take a weight at most to 0, *)
(* and the pseudo-gradient is a multiple of their size times a.              *)
Near == { << n, 4 >> : n \in -8 .. 8 } \cup { << n, problem.a * x[1][2] * x[2][2] >> : n \in {-1, 1} }

(* Only a minimum has no pseudo-gradient: training does not end elsewhere   *)
(* on account of the kinks, and it does not go on at the minimum.           *)
ConvergedIsMinimum ==
  owl \in {"converged", "direction"} =>
    (owl = "converged" <=>
       \A i, j \in Near : ~Less(Objective(problem, [x EXCEPT ![1] = Plus2(@, i), ![2] = Plus2(@, j)]),
                                Objective(problem, x)))
==============================================================================
