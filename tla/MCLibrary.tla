------------------------------ MODULE MCLibrary ------------------------------
(* Seven records are the least with which a deleted node is replaced by one *)
(* that is not its child, and the way to it is balanced.  For the encoder,  *)
(* an instance of one item, one of two, the longest of the training set,    *)
(* and a longer one that is held out; an item has an attribute twice, one   *)
(* none.  For the classes, sequences with strings in common, an empty one,  *)
(* an item without attributes, an unknown attribute and unknown labels.     *)
EXTENDS Rumavl, TrainerApi, TaggerApi, Encoder, ModelWriter, PySequence, PyObjects

(***************************************************************************)
(* The parts of the crfsuite library that are driven by calls in any order, *)
(* one at a time: a tree (rumavl.c), the classes Trainer and Tagger of the  *)
(* C++ interface, the encoder that the training algorithms drive, the       *)
(* writer of a model file, and of the Python binding a sequence with its    *)
(* iterators, and the objects and their proxies.  The parts share no state; *)
(* subject is the one whose callers are looked at.                          *)
(***************************************************************************)
CONSTANT Subjects

VARIABLE subject

vars == <<subject, treeVars, trainerVars, taggerVars, encoderVars, writerVars, sequenceVars, objectVars>>

Init ==
  /\ subject \in Subjects
  /\ TreeInit /\ TrainerInit /\ TaggerInit /\ EncoderInit
  /\ WriterInit /\ SequenceInit /\ ObjectsInit

Next ==
  /\ UNCHANGED subject
  /\ \/ /\ subject = "tree" /\ TreeNext
        /\ UNCHANGED <<trainerVars, taggerVars, encoderVars, writerVars, sequenceVars, objectVars>>
     \/ /\ subject = "trainer" /\ TrainerNext
        /\ UNCHANGED <<treeVars, taggerVars, encoderVars, writerVars, sequenceVars, objectVars>>
     \/ /\ subject = "tagger" /\ TaggerNext
        /\ UNCHANGED <<treeVars, trainerVars, encoderVars, writerVars, sequenceVars, objectVars>>
     \/ /\ subject = "encoder" /\ EncoderNext
        /\ UNCHANGED <<treeVars, trainerVars, taggerVars, writerVars, sequenceVars, objectVars>>
     \/ /\ subject = "model file" /\ WriterNext
        /\ UNCHANGED <<treeVars, trainerVars, taggerVars, encoderVars, sequenceVars, objectVars>>
     \/ /\ subject = "sequence" /\ SequenceNext
        /\ UNCHANGED <<treeVars, trainerVars, taggerVars, encoderVars, writerVars, objectVars>>
     \/ /\ subject = "objects" /\ ObjectsNext
        /\ UNCHANGED <<treeVars, trainerVars, taggerVars, encoderVars, writerVars, sequenceVars>>

Spec == Init /\ [][Next]_vars

-----------------------------------------------------------------------------

CONSTANTS a1, a2, a3, x, y, z

(* The encoder.                                                             *)
MCFeatures ==
  << [type |-> "state", src |-> 1, dst |-> 1], [type |-> "state", src |-> 1, dst |-> 2],
     [type |-> "state", src |-> 2, dst |-> 2], [type |-> "trans", src |-> 1, dst |-> 2],
     [type |-> "trans", src |-> 2, dst |-> 2], [type |-> "trans", src |-> 2, dst |-> 1] >>

Content(a, v) == [aid |-> a, value |-> v]

MCTrainset ==
  << [items |-> << << Content(1, 1), Content(2, 2) >>, << Content(1, 1), Content(1, 1) >> >>, labels |-> << 1, 2 >>],
     [items |-> << << Content(2, 1) >> >>, labels |-> << 2 >>] >>

MCTestset ==
  << [items |-> << << >>, << Content(2, 1) >>, << Content(1, 1) >> >>, labels |-> << 2, 2, 1 >>],
     [items |-> << << Content(1, 1) >> >>, labels |-> << 1 >>] >>

MCWeightVectors == { << 1, 0, -1, 1, 0, 1 >>, << -1, 0, 1, 0, 1, -1 >> }
MCScales == { 1, 2 }

(* The class Trainer.                                                       *)
MCSequences ==
  { [items |-> << << << a1, 1 >>, << a2, 2 >> >>, << << a1, 1 >> >> >>, labels |-> << x, y >>, group |-> 0],
    [items |-> << << << a3, 1 >>, << a2, 1 >> >> >>, labels |-> << y >>, group |-> 1],
    [items |-> << >>, labels |-> << >>, group |-> 0],
    [items |-> << << >> >>, labels |-> << x, x >>, group |-> 0] }

MCDeclared ==
  [lbfgs |-> << [name |-> "feature.minfreq", type |-> "float", value |-> 0],
                [name |-> "linesearch", type |-> "string", value |-> [int |-> 0, float |-> 0]] >>,
   arow  |-> << [name |-> "feature.minfreq", type |-> "float", value |-> 0],
                [name |-> "max_iterations", type |-> "int", value |-> 10] >>]

MCNames == {"feature.minfreq", "linesearch", "max_iterations"}

(* "2", "1.57" and a word.                                                  *)
MCTexts == { [int |-> 2, float |-> 200], [int |-> 1, float |-> 157], [int |-> 0, float |-> 0] }

(* The class Tagger.                                                        *)
MCModelFiles ==
  { [trans |-> << << 0, 1 >>, << -1, 0 >> >>, state |-> << << 1, 0 >>, << 0, 2 >> >>,
     labels |-> << x, y >>, attrs |-> << a1, a2 >>],
    [trans |-> << << 0 >> >>, state |-> << << 1 >> >>, labels |-> << y >>, attrs |-> << a2 >>] }

MCItemRows ==
  { << >>, << << << a2, 1 >>, << a3, 1 >> >> >>,
    << << << a1, 1 >> >>, << << a2, 1 >> >>, << << a1, 1 >>, << a1, 1 >> >> >> }

MCLabelRows == { << y >>, << x, y, x >>, << y, y, y >>, << z, y, y >> }

(* The writer: x and y have one hash, a1 another in their table, and a2 is  *)
(* alone in its table; a model without attributes; sizes that are no        *)
(* multiples of four.                                                       *)
MCStringSize == [s \in {x, y, a1, a2, a3} |-> CASE s = x -> 2 [] s = y -> 3 [] s = a1 -> 4 [] OTHER -> 5]
MCHash == [s \in {x, y, a1, a2, a3} |-> CASE s \in {x, y, a3} -> 4 [] s = a1 -> 2 [] s = a2 -> 1]

Feature(type, src, dst) == [type |-> type, src |-> src, dst |-> dst]

MCSavedModels ==
  { [features |-> << Feature("state", 1, 2), Feature("state", 2, 1), Feature("state", 2, 2), Feature("trans", 2, 1) >>,
     labels |-> << y, x >>, attrs |-> << a2, a1 >>,
     labelrefs |-> << << >>, << 4 >> >>, attrrefs |-> << << 1 >>, << 2, 3 >> >>],
    [features |-> << Feature("trans", 1, 1) >>, labels |-> << x >>, attrs |-> << >>,
     labelrefs |-> << << 1 >> >>, attrrefs |-> << >>] }

(* The Python binding.                                                      *)
MCArguments == { << >>, << y >>, << x, y >> }
MCIndices == -2 .. 3
MCSlices == { [start |-> a, stop |-> b, step |-> c] : a \in {Absent, 1}, b \in {Absent, -1}, c \in {1, -1} }
==============================================================================
