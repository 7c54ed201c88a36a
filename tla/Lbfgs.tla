-------------------------------- MODULE Lbfgs --------------------------------
(***************************************************************************)
(* The optimizer of crfsuite learn: lbfgs() of liblbfgs-1.10/lib/lbfgs.c,   *)
(* which in this repository keeps a checkpoint of its loop in the working   *)
(* directory and resumes from it, and the callbacks and the result of       *)
(* crfsuite-0.12/lib/crf/src/train_lbfgs.c.                                 *)
(*                                                                          *)
(* Numbers are represented by what they were computed from.  A training     *)
(* that is not disturbed goes through a fixed sequence of points, for the   *)
(* arithmetic is deterministic; Walk(D, k) is the point that iteration k    *)
(* finds in a training on the groups D of instances.  A line search that    *)
(* starts from anything else ends at a stray point, or fails.  Options are  *)
(* those of the training scripts: no L1 regularization, so no pg.           *)
(***************************************************************************)
EXTENDS Naturals, Sequences, FiniteSets

CONSTANTS
  Groups,         (* the groups of instances of the training files           *)
  Memory,         (* num_memories, m: how many corrections are kept; 6       *)
  Past,           (* period: how far back the stopping test looks; 10        *)
  Every,          (* a checkpoint is written every so many iterations; 10    *)
  MaxIterations,  (* max_iterations; 1500                                    *)
  InverseDelta,   (* 1 / delta of the stopping test; 100000                  *)
  Fates,          (* what the undisturbed training may come to: the loss at  *)
                  (* the points 0, 1, ..., the iteration that converges and  *)
                  (* the one whose line search fails, if any                 *)
  STRAY,          (* the number of a point on no walk                        *)
  FAILED,         (* what a line search that fails returns for a point      *)
  NONE, CUT       (* no file, or nothing yet; a file that is not whole       *)

(* Points, values of the objective at them, corrections, states of the      *)
(* loop, and checkpoints.                                                   *)
Points == [k : Nat \cup {STRAY}, from : SUBSET Groups]
Values == [x : Points, on : SUBSET Groups]
Corrections == [s : Points \X Points, y : Values \X Values]
States ==
  [k : Nat \ {0}, end : 0 .. Memory - 1, step : {"1 / norm of d", "1"}, x : Points, fx : Values, g : Values,
   d : [g : Values, pairs : Seq(Corrections \cup {NONE})],
   lm : [0 .. Memory - 1 -> Corrections \cup {NONE}],
   pf : [0 .. Past - 1 -> Values \cup {NONE}]]
Files == [state : States, origin : SUBSET SUBSET Groups]

ASSUME LbfgsAssumption ==
  /\ Memory \in Nat \ {0} /\ Past \in Nat \ {0} /\ Every \in Nat \ {0, 1}
  /\ MaxIterations \in Nat \ {0} /\ InverseDelta \in Nat \ {0}
  /\ Fates \subseteq [loss : [0 .. MaxIterations -> Nat], converges : Nat, fails : Nat]
  /\ STRAY \notin Nat /\ FAILED \notin Points /\ NONE \notin Values /\ CUT \notin Files \cup {NONE}

VARIABLES
  fate,          (* what training comes to                                   *)
  trainset,      (* the groups of the running training                       *)
  st,            (* the variables of lbfgs() that live through its loop      *)
  best_w,        (* lbfgsi.best_w                                            *)
  lb,            (* where lbfgs() is                                         *)
  temp,          (* lbfgs_tmp.data                                           *)
  checkpoint,    (* lbfgs_checkpoint.data                                    *)
  reported,      (* history: proc_progress was called in this training       *)
  origin         (* history: the training sets that st was computed with     *)

lbfgsVars == <<fate, trainset, st, best_w, lb, temp, checkpoint, reported, origin>>

Zeros == [k |-> 0, from |-> {}]
Walk(D, k) == IF k = 0 THEN Zeros ELSE [k |-> k, from |-> D]

(* The value of the objective on D at x, and its gradient.                  *)
At(x, D) == [x |-> x, on |-> D]

(* The correction of iteration k of an undisturbed training, and the        *)
(* direction it has for iteration k: the gradient and the corrections it is *)
(* multiplied by, the latest first.                                         *)
Correction(D, k) ==
  [s |-> <<Walk(D, k - 1), Walk(D, k)>>, y |-> <<At(Walk(D, k - 1), D), At(Walk(D, k), D)>>]

Smaller(a, b) == IF a <= b THEN a ELSE b

Direction(D, k) ==
  [g |-> At(Walk(D, k - 1), D), pairs |-> [i \in 1 .. Smaller(Memory, k - 1) |-> Correction(D, k - i)]]

LbfgsInit ==
  /\ fate \in Fates
  /\ trainset = {} /\ st = NONE /\ best_w = Zeros /\ lb = "idle"
  /\ temp = NONE /\ checkpoint = NONE
  /\ reported = FALSE /\ origin = {}

(***************************************************************************)
(* Before the loop                                                          *)
(***************************************************************************)
FirstState(D) ==
  LET value == At(Zeros, D)
  IN  [k |-> 1, end |-> 0, step |-> "1 / norm of d", x |-> Zeros, fx |-> value, g |-> value,
       d  |-> [g |-> value, pairs |-> <<>>],
       lm |-> [i \in 0 .. Memory - 1 |-> NONE],
       pf |-> [i \in 0 .. Past - 1 |-> IF i = 0 THEN value ELSE NONE]]

(* Whatever the file holds is taken for the state of this training.         *)
(* Mutant: end is not read.                                                 *)
RestoredWithoutEnd(file) == [file.state EXCEPT !.end = 0]

Restored(file) == file.state

(* crfsuite_train_lbfgs allocates w and best_w, both zero, and calls        *)
(* lbfgs(), which resumes whatever checkpoint is in the directory; only     *)
(* without one does it look at w and test whether it is a minimum.          *)
Begin(D) ==
  /\ lb = "idle"
  /\ trainset' = D /\ best_w' = Zeros /\ reported' = FALSE
  /\ \/ /\ checkpoint = NONE
        /\ st' = FirstState(D) /\ origin' = {D}
        /\ lb' = IF fate.converges = 0 THEN "returned" ELSE "loop"
     \/ /\ checkpoint # NONE
        /\ st' = Restored(checkpoint) /\ origin' = {D} \cup checkpoint.origin
        /\ lb' = "loop"
  /\ UNCHANGED <<fate, temp, checkpoint>>

(***************************************************************************)
(* An iteration                                                             *)
(***************************************************************************)
OnWalk(x, D) == x.k # STRAY /\ x = Walk(D, x.k)
HasLoss(v) == v # NONE /\ OnWalk(v.x, v.on)

(* The line search starts from the point, its value and gradient, the       *)
(* direction and the step of iteration k.                                   *)
Undisturbed ==
  /\ st.x = Walk(trainset, st.k - 1)
  /\ st.fx = At(st.x, trainset) /\ st.g = st.fx
  /\ st.d = Direction(trainset, st.k)
  /\ st.step = IF st.k = 1 THEN "1 / norm of d" ELSE "1"

Stray == [k |-> STRAY, from |-> st.x.from \cup trainset]

LineSearch ==
  IF Undisturbed
  THEN IF st.k = fate.fails THEN {FAILED} ELSE {Walk(trainset, st.k)}
  ELSE {FAILED, Stray}

(* |g| / max(1, |x|) <= epsilon at x: the outcomes it may have.             *)
ConvergenceTest(x) ==
  IF OnWalk(x, trainset) THEN {x.k = fate.converges} ELSE BOOLEAN

(* (f(past_x) - f(x)) / f(x) < delta, for iterations k >= past.             *)
StoppingTest(x) ==
  LET past == st.pf[st.k % Past]
  IN  IF st.k < Past THEN {FALSE}
      ELSE IF HasLoss(past) /\ OnWalk(x, trainset)
      THEN {(InverseDelta * fate.loss[past.x.k]) < (InverseDelta + 1) * fate.loss[x.k]}
      ELSE BOOLEAN

(* The corrections, the direction and the step for iteration k + 1.         *)
NextState(x) ==
  LET new == At(x, trainset)
      end == (st.end + 1) % Memory
      lm  == [st.lm EXCEPT ![st.end] = [s |-> <<st.x, x>>, y |-> <<st.g, new>>]]
  IN  [k |-> st.k + 1, end |-> end, step |-> "1", x |-> x, fx |-> new, g |-> new,
       d  |-> [g |-> new,
               pairs |-> [i \in 1 .. Smaller(Memory, st.k) |-> lm[(end + Memory - i) % Memory]]],
       lm |-> lm,
       pf |-> [st.pf EXCEPT ![st.k % Past] = new]]

CheckpointDue(k) == k % Every = 1 /\ k > 1

(* Mutant: the point before the step is kept.                               *)
ReportBefore(x) == best_w' = st.x /\ reported' = TRUE

(* lbfgs_progress                                                           *)
Report(x) == best_w' = x /\ reported' = TRUE

IterationFails ==
  /\ lb = "loop" /\ FAILED \in LineSearch
  /\ lb' = "returned"
  /\ UNCHANGED <<fate, trainset, st, best_w, temp, checkpoint, reported, origin>>

(* The loop is left after the report: converged, stopped or at the last     *)
(* iteration.                                                               *)
IterationEnds ==
  /\ lb = "loop"
  /\ \E x \in LineSearch \ {FAILED} :
       /\ TRUE \in ConvergenceTest(x) \cup StoppingTest(x) \/ MaxIterations < st.k + 1
       /\ Report(x)
  /\ lb' = "returned"
  /\ UNCHANGED <<fate, trainset, st, temp, checkpoint, origin>>

IterationGoesOn ==
  /\ lb = "loop" /\ MaxIterations >= st.k + 1
  /\ \E x \in LineSearch \ {FAILED} :
       /\ FALSE \in ConvergenceTest(x) /\ FALSE \in StoppingTest(x)
       /\ Report(x)
       /\ st' = NextState(x)
  /\ lb' = IF CheckpointDue(st.k + 1) THEN "checkpoint" ELSE "loop"
  /\ UNCHANGED <<fate, trainset, temp, checkpoint, origin>>

(***************************************************************************)
(* The checkpoint                                                           *)
(***************************************************************************)
File == [state |-> st, origin |-> origin]

OpenTemp ==
  /\ lb = "checkpoint" /\ temp' = CUT /\ lb' = "write"
  /\ UNCHANGED <<fate, trainset, st, best_w, checkpoint, reported, origin>>

WriteTemp ==
  /\ lb = "write" /\ temp' = File /\ lb' = "move"
  /\ UNCHANGED <<fate, trainset, st, best_w, checkpoint, reported, origin>>

(* system("mv -f lbfgs_tmp.data lbfgs_checkpoint.data")                     *)
MoveTemp ==
  /\ lb = "move" /\ checkpoint' = temp /\ temp' = NONE /\ lb' = "loop"
  /\ UNCHANGED <<fate, trainset, st, best_w, reported, origin>>

LbfgsStep == IterationFails \/ IterationEnds \/ IterationGoesOn \/ OpenTemp \/ WriteTemp \/ MoveTemp

(***************************************************************************)
(* The process is killed: what it has in memory is lost.                    *)
(***************************************************************************)
Forget == st' = NONE /\ best_w' = Zeros /\ lb' = "idle" /\ reported' = FALSE /\ origin' = {} /\ trainset' = {}

LbfgsKilled == Forget /\ UNCHANGED <<fate, temp, checkpoint>>

(* crfsuite_train_lbfgs has returned best_w, and its memory is freed.       *)
LbfgsReleased == lb = "returned" /\ Forget /\ UNCHANGED <<fate, temp, checkpoint>>
==============================================================================
