-------------------------------- MODULE Learn --------------------------------
(***************************************************************************)
(* crfsuite learn in one working directory: frontend/learn.c, which trains  *)
(* once or, with -x, once for each group of instances held out, and         *)
(* crfsuite_train_train of crfsuite_train.c.  The user gives one command    *)
(* after another, as TrainModel.py does for each feature list; a command    *)
(* may be killed anywhere and given again.                                  *)
(***************************************************************************)
EXTENDS Lbfgs

CONSTANTS
  Commands,      (* the commands: the groups of its data, -x, and the group  *)
                 (* of -e, 0 without                                         *)
  MaxCommands,   (* bound: how many commands are given                       *)
  MaxKills       (* bound: how many of them are killed                       *)

ASSUME LearnAssumption ==
  /\ Groups \subseteq Nat \ {0}
  /\ Commands \subseteq [data : SUBSET Groups, cross : BOOLEAN, holdout : Groups \cup {0}]
  /\ \A c \in Commands : c.cross => Cardinality(c.data) > 1
  /\ MaxCommands \in Nat /\ MaxKills \in Nat

VARIABLES
  pc,            (* where the command is                                     *)
  command,       (* the command that runs                                    *)
  holdout,       (* the group held out of this training, 0 for none          *)
  model,         (* the file of -m: its weights                              *)
  given, kills,
  scored         (* history: the weights of the last holdout_evaluation      *)

learnVars == <<pc, command, holdout, model, given, kills, scored>>
commandVars == <<lbfgsVars, learnVars>>

LearnInit ==
  /\ LbfgsInit
  /\ pc = "shell" /\ command = NONE /\ holdout = 0 /\ model = NONE
  /\ given = 0 /\ kills = 0 /\ scored = NONE

First(S) == CHOOSE i \in S : \A j \in S : i <= j
Later == { i \in command.data : holdout < i }

(* The command reads its data; with -x it holds out the first group first.  *)
LearnCommand ==
  /\ pc = "shell" /\ given < MaxCommands
  /\ given' = given + 1
  /\ command' \in Commands
  /\ holdout' = IF command'.cross THEN First(command'.data) ELSE command'.holdout
  /\ pc' = "train"
  /\ UNCHANGED <<lbfgsVars, model, kills, scored>>

(* dataset_init_trainset and the call of crfsuite_train_lbfgs.              *)
Train ==
  /\ pc = "train" /\ Begin(command.data \ {holdout})
  /\ pc' = "lbfgs" /\ scored' = NONE
  /\ UNCHANGED <<command, holdout, model, given, kills>>

(* Each iteration that is reported evaluates its weights on the test set.   *)
Iterate ==
  /\ pc = "lbfgs" /\ LbfgsStep
  /\ scored' = IF reported' /\ best_w' # best_w /\ holdout # 0 THEN [w |-> best_w', on |-> holdout] ELSE scored
  /\ UNCHANGED <<pc, command, holdout, model, given, kills>>

(* crf1de_save_model opens the file for writing, and its header is written  *)
(* last.  Nothing is saved with -x.                                         *)
OpenModel ==
  /\ pc = "lbfgs" /\ lb = "returned" /\ ~command.cross
  /\ model' = CUT /\ pc' = "save"
  /\ UNCHANGED <<lbfgsVars, command, holdout, given, kills, scored>>

CloseModel ==
  /\ pc = "save" /\ model' = best_w /\ LbfgsReleased
  /\ pc' = "shell" /\ command' = NONE /\ holdout' = 0 /\ scored' = NONE
  /\ UNCHANGED <<given, kills>>

NextFold ==
  /\ pc = "lbfgs" /\ command.cross /\ Later # {} /\ LbfgsReleased
  /\ holdout' = First(Later) /\ pc' = "train"
  /\ UNCHANGED <<command, model, given, kills, scored>>

LastFold ==
  /\ pc = "lbfgs" /\ command.cross /\ Later = {} /\ LbfgsReleased
  /\ pc' = "shell" /\ command' = NONE /\ holdout' = 0 /\ scored' = NONE
  /\ UNCHANGED <<model, given, kills>>

Killed ==
  /\ pc # "shell" /\ kills < MaxKills /\ LbfgsKilled
  /\ pc' = "shell" /\ command' = NONE /\ holdout' = 0 /\ scored' = NONE /\ kills' = kills + 1
  /\ UNCHANGED <<model, given>>

(* No more commands.                                                        *)
Finished == pc = "shell" /\ given = MaxCommands /\ UNCHANGED commandVars

LearnNext ==
  \/ LearnCommand \/ Train \/ Iterate \/ OpenModel \/ CloseModel \/ NextFold \/ LastFold
  \/ Killed \/ Finished

LearnSpec == LearnInit /\ [][LearnNext]_commandVars

(* The type invariant: while lbfgs() runs there is a state, and a           *)
(* checkpoint is always whole.                                              *)
LearnTypeOK ==
  /\ fate \in Fates /\ trainset \subseteq Groups /\ origin \subseteq SUBSET Groups
  /\ lb \in {"idle", "loop", "checkpoint", "write", "move", "returned"}
  /\ lb # "idle" => st \in States
  /\ best_w \in Points /\ reported \in BOOLEAN
  /\ temp \in Files \cup {NONE, CUT} /\ checkpoint \in Files \cup {NONE}
  /\ lb = "move" => temp \in Files
  /\ pc \in {"shell", "train", "lbfgs", "save"}
  /\ pc # "shell" => command \in Commands

(***************************************************************************)
(* Properties                                                               *)
(***************************************************************************)
(* All that a training resumed was written by trainings on the same groups. *)
OfOneTraining == origin = {trainset}

(* At the top of the loop of iteration k a training has what one that was   *)
(* never killed has there, however often it was killed and resumed: the     *)
(* point, the latest corrections in their slots of the ring, the direction  *)
(* they give and the values the stopping test is going to look back at.     *)
StateIsOfItsIterations ==
  lb = "loop" /\ OfOneTraining =>
    /\ Undisturbed
    /\ \A i \in 1 .. Smaller(Memory, st.k - 1) :
         st.lm[(st.end + Memory - i) % Memory] = Correction(trainset, st.k - i)
    /\ \A i \in 1 .. Smaller(Past, st.k) :
         st.pf[(st.k - i) % Past] = At(Walk(trainset, st.k - i), trainset)

(* The iterations that an undisturbed training ends with, and the weights   *)
(* it learns.                                                               *)
EndsAt(k) ==
  \/ k = fate.fails \/ k = fate.converges \/ k = MaxIterations
  \/ k >= Past /\ (InverseDelta * fate.loss[k - Past]) < (InverseDelta + 1) * fate.loss[k]

Learned(D) ==
  IF fate.converges = 0 THEN Zeros
  ELSE LET last == First({ k \in 1 .. MaxIterations : EndsAt(k) })
       IN  Walk(D, IF last = fate.fails THEN last - 1 ELSE last)

(* A training that was killed and is given again returns the weights it     *)
(* would have learned; or zeros, when it came to no report after it         *)
(* resumed: best_w is not in the checkpoint.  A checkpoint that is there is *)
(* a whole one, whenever the training that wrote it was killed.             *)
InterruptedLearnsTheSame ==
  /\ checkpoint # CUT
  /\ lb = "returned" /\ OfOneTraining =>
       best_w = IF reported THEN Learned(trainset) ELSE Zeros

(* learn.c:202-205: -e uses the M-th data for holdout evaluation and the    *)
(* rest for training, -x repeats holdout evaluations.  The weights that are *)
(* evaluated on a group do not come from it.                                *)
HoldoutIsUnseen == scored # NONE => scored.on \notin scored.w.from
==============================================================================
