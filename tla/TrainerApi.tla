------------------------------ MODULE TrainerApi ------------------------------
(***************************************************************************)
(* The class Trainer of crfsuite.hpp, by which programs and the bindings    *)
(* train: it collects a data set (crfsuite_data_t of crfsuite.c, with a     *)
(* dictionary for attributes and one for labels), and holds a trainer       *)
(* (crfsuite_train.c) with its parameters (params.c).  Calls come in any     *)
(* order.                                                                   *)
(***************************************************************************)
EXTENDS Integers, Functions, FiniteSets, SequencesExt

CONSTANTS
  NoString,     (* NULL, and what is in a place of the array not written    *)
  Sequences,    (* what may be appended: items, each a row of << attribute,  *)
                (* value >>, labels, and the group                           *)
  Declared,     (* the algorithms that there are, and the parameters that    *)
                (* each declares: a sequence of [name, type, value]          *)
  Names,        (* names given to set and get, those of no parameter too     *)
  Texts,        (* the values given to set                                   *)
  MaxDataCalls, (* bound: how many calls of append and clear                 *)
  MaxSettings   (* bound: how many calls of select and set                   *)

(* The groups, the attributes with their values, and the labels in them.    *)
Groups == { s.group : s \in Sequences }
Contents == UNION { UNION { ToSet(s.items[t]) : t \in DOMAIN s.items } : s \in Sequences }
LabelNames == UNION { ToSet(s.labels) : s \in Sequences }

(* A group has another number than what holds nothing out; a parameter has  *)
(* one of the three types, and what atof makes of a text is a number.       *)
ASSUME TrainerAssumption ==
  /\ Sequences \subseteq [items : Seq(Seq(Contents)), labels : Seq(LabelNames), group : Groups]
  /\ \A c \in Contents : c = << c[1], c[2] >>
  /\ -1 \notin Groups
  /\ \A a \in DOMAIN Declared :
       /\ Len(Declared[a]) \in Nat /\ DOMAIN Declared[a] = 1 .. Len(Declared[a])
       /\ \A k \in DOMAIN Declared[a] : /\ Declared[a][k].type \in {"int", "float", "string"}
                                        /\ Declared[a][k].type = "float" => Declared[a][k].value \in Int
  /\ \A text \in Texts : text.float \in Int

(***************************************************************************)
(* Dictionaries, which number strings in the order in which they are first  *)
(* asked for: quark.c and dictionary.c.  A quark holds each string twice:   *)
(* in a tree, by the string, and in an array that grows, by the id.  The    *)
(* tree is a function here, which is what Rumavl shows of it.  Ids begin    *)
(* with 0, as in the code.                                                  *)
(***************************************************************************)
(* quark_new *)
NewQuark ==
  [num |-> 0, max |-> 0, string_to_id |-> [s \in {} |-> 0], id_to_string |-> [n \in {} |-> NoString]]

(* Mutant: the strings are not copied to the greater array.                 *)
GrownEmpty(q) ==
  IF q.num < q.max THEN q
  ELSE LET max == (q.max + 1) * 2
       IN  [q EXCEPT !.max = max, !.id_to_string = [n \in 0 .. max - 1 |-> NoString]]

(* The realloc in quark_get.                                                *)
Grown(q) ==
  IF q.num < q.max THEN q
  ELSE LET max == (q.max + 1) * 2
       IN  [q EXCEPT !.max = max,
                     !.id_to_string = [n \in 0 .. max - 1 |-> IF n < q.max THEN @[n] ELSE NoString]]

(* quark_get: the quark behind the call; the id is then quark_to_id's.      *)
QuarkGet(q, str) ==
  IF str \in DOMAIN q.string_to_id THEN q
  ELSE LET g == Grown(q)
       IN  [g EXCEPT !.id_to_string[g.num] = str,
                     !.string_to_id = [s \in DOMAIN @ \cup {str} |-> IF s = str THEN g.num ELSE @[s]],
                     !.num = @ + 1]

(* quark_to_id and dictionary_to_id                                         *)
QuarkToId(q, str) == IF str \in DOMAIN q.string_to_id THEN q.string_to_id[str] ELSE -1

(* quark_to_string and dictionary_to_string                                 *)
QuarkToString(q, id) == IF id < q.num THEN q.id_to_string[id] ELSE NoString

VARIABLES
  attrs, labels,  (* data->attrs and data->labels: quarks, or NoQuark        *)
  data,           (* num_instances, cap_instances and instances              *)
  tr,             (* the parameters of tr, and its algorithm; NoTrainer      *)
  reply,          (* what the last call returned or did                      *)
  appended,       (* history: the sequences appended since the last clear    *)
  asked,          (* history: the texts set since the last select, by name   *)
  dataCalls, settings   (* counters for the bounds                           *)

dataVars == <<attrs, labels, data, appended, dataCalls>>
trVars == <<tr, asked, settings>>
trainerVars == <<dataVars, trVars, reply>>

NoQuark == [NewQuark EXCEPT !.num = -1]
NoTrainer == [algorithm |-> "NULL", params |-> << >>]
NoData == [num |-> 0, cap |-> 0, instances |-> << >>]

TrainerInit ==
  /\ attrs = NoQuark /\ labels = NoQuark /\ data = NoData
  /\ tr = NoTrainer
  /\ reply = [call |-> "none"]
  /\ appended = << >> /\ asked = [n \in {} |-> 0]
  /\ dataCalls = 0 /\ settings = 0

(***************************************************************************)
(* The data set                                                             *)
(***************************************************************************)
(* Trainer::init *)
Created(q) == IF q = NoQuark THEN NewQuark ELSE q

(* A dictionary that has been asked for each of these strings in turn.      *)
AskedFor(q, strings) == FoldLeft(QuarkGet, q, strings)

Attributes(items) == FlattenSeq([t \in DOMAIN items |-> [c \in DOMAIN items[t] |-> items[t][c][1]]])

(* The loop of Trainer::append: ids in the place of strings.                *)
Numbered(sequence, as, ls) ==
  [items |-> [t \in DOMAIN sequence.items |-> [c \in DOMAIN sequence.items[t] |->
                [aid |-> QuarkToId(as, sequence.items[t][c][1]), value |-> sequence.items[t][c][2]]]],
   labels |-> [t \in DOMAIN sequence.labels |-> QuarkToId(ls, sequence.labels[t])],
   group |-> sequence.group]

(* crfsuite_data_append: a copy of an instance that is not empty.           *)
DataAppend(d, instance) ==
  IF instance.items = << >> THEN d
  ELSE [num |-> d.num + 1, cap |-> IF d.cap <= d.num THEN (d.cap + 1) * 2 ELSE d.cap,
        instances |-> Append(d.instances, instance)]

TrainerAppend(sequence) ==
  /\ dataCalls < MaxDataCalls /\ dataCalls' = dataCalls + 1
  /\ Len(sequence.items) = Len(sequence.labels)
  /\ attrs' = AskedFor(Created(attrs), Attributes(sequence.items))
  /\ labels' = AskedFor(Created(labels), sequence.labels)
  /\ data' = DataAppend(data, Numbered(sequence, attrs', labels'))
  /\ appended' = IF sequence.items = << >> THEN appended ELSE Append(appended, sequence)
  /\ reply' = [call |-> "append"]
  /\ UNCHANGED trVars

(* std::invalid_argument; the dictionaries have been made.                  *)
TrainerAppendThrows(sequence) ==
  /\ dataCalls < MaxDataCalls /\ dataCalls' = dataCalls + 1
  /\ Len(sequence.items) # Len(sequence.labels)
  /\ attrs' = Created(attrs) /\ labels' = Created(labels)
  /\ reply' = [call |-> "throw"]
  /\ UNCHANGED <<data, appended, trVars>>

(* The dictionaries are released, and the data set is begun anew.           *)
TrainerClear ==
  /\ dataCalls < MaxDataCalls /\ dataCalls' = dataCalls + 1
  /\ attrs' = NoQuark /\ labels' = NoQuark /\ data' = NoData
  /\ appended' = << >>
  /\ reply' = [call |-> "clear"]
  /\ UNCHANGED trVars

(***************************************************************************)
(* The parameters of a trainer: lib/crf/src/params.c and the macros of      *)
(* params.h, by which an algorithm declares them and later reads them.      *)
(*                                                                          *)
(* A text is known by what atoi and atof make of it: [int, float], where    *)
(* float counts in units of 1/Whole.  "%f" prints to a tenth here (to six   *)
(* digits in the code), which is Whole / 10 of them.                        *)
(***************************************************************************)
Whole == 100

(* params_add_int, _float and _string: the list gets longer; a name that is *)
(* there already is not looked for.                                         *)
ParamsAdd(params, name, type, value) ==
  Append(params, [name |-> name, type |-> type, value |-> value])

(* find_param: the index of the first of that name, or 0.                   *)
FindParam(params, name) == SelectInSeq(params, LAMBDA par : par.name = name)

(* params_set: what a parameter of that type takes of a text.               *)
Converted(type, text) ==
  CASE type = "int" -> text.int
    [] type = "float" -> text.float
    [] type = "string" -> text

ParamsSet(params, name, text) ==
  LET i == FindParam(params, name)
  IN  [params EXCEPT ![i].value = Converted(params[i].type, text)]

(* params_get: "%d", "%f", or the string.                                   *)
Printed(type, value) ==
  LET Tenth == Whole \div 10
      tenths == (value + Tenth \div 2) \div Tenth
  IN  CASE type = "int" -> [int |-> value, float |-> value * Whole]
        [] type = "float" -> [int |-> tenths \div 10, float |-> tenths * Tenth]
        [] type = "string" -> value

ParamsGet(params, name) ==
  LET par == params[FindParam(params, name)] IN Printed(par.type, par.value)

(* params_get_int, _float and _string, when the macros read: the first of   *)
(* that name, if it has the type.                                           *)
ParamsGetTyped(params, name, type, otherwise) ==
  LET i == FindParam(params, name)
  IN  IF i # 0 /\ params[i].type = type THEN params[i].value ELSE otherwise

(***************************************************************************)
(* The trainer                                                              *)
(***************************************************************************)
(* Mutant: the parameters of the last trainer are kept where they have the  *)
(* name.                                                                    *)
NewParamsKept(algorithm) ==
  [k \in DOMAIN Declared[algorithm] |->
     LET par == Declared[algorithm][k] i == FindParam(tr.params, par.name)
     IN  IF i # 0 THEN tr.params[i] ELSE par]

(* crfsuite_train_new: the encoder's parameters and the algorithm's are     *)
(* added with their default values.                                         *)
NewParams(algorithm) ==
  FoldLeft(LAMBDA params, par : ParamsAdd(params, par.name, par.type, par.value),
           << >>, Declared[algorithm])

(* Trainer::select with crf1de_create_instance: the old trainer is released *)
(* first, whether or not there is such an algorithm.                        *)
TrainerSelect(algorithm) ==
  /\ settings < MaxSettings /\ settings' = settings + 1
  /\ tr' = IF algorithm \in DOMAIN Declared
           THEN [algorithm |-> algorithm, params |-> NewParams(algorithm)] ELSE NoTrainer
  /\ asked' = [n \in {} |-> 0]
  /\ reply' = [call |-> "select", returned |-> algorithm \in DOMAIN Declared]
  /\ UNCHANGED dataVars

Has(name) == FindParam(tr.params, name) # 0

(* Trainer::set; that a trainer is selected is not tested.                  *)
TrainerSet(name, text) ==
  /\ settings < MaxSettings /\ settings' = settings + 1
  /\ tr # NoTrainer /\ Has(name)
  /\ tr' = [tr EXCEPT !.params = ParamsSet(@, name, text)]
  /\ asked' = [n \in DOMAIN asked \cup {name} |-> IF n = name THEN text ELSE asked[n]]
  /\ reply' = [call |-> "set"]
  /\ UNCHANGED dataVars

TrainerGet(name) ==
  /\ tr # NoTrainer /\ Has(name)
  /\ reply' = [call |-> "get", name |-> name, text |-> ParamsGet(tr.params, name)]
  /\ UNCHANGED <<dataVars, trVars>>

(* Trainer::set and get throw, as no parameter has the name.                *)
TrainerThrows(name) ==
  /\ tr # NoTrainer /\ ~Has(name)
  /\ reply' = [call |-> "throw"]
  /\ UNCHANGED <<dataVars, trVars>>

(* Trainer::params *)
TrainerParams ==
  /\ tr # NoTrainer
  /\ reply' = [call |-> "params", names |-> [k \in DOMAIN tr.params |-> tr.params[k].name]]
  /\ UNCHANGED <<dataVars, trVars>>

(***************************************************************************)
(* Training                                                                 *)
(***************************************************************************)
(* dataset_get, after perm was filled with these places in their order.     *)
InstancesAt(P) ==
  LET perm == [k \in 1 .. Cardinality(P) |-> CHOOSE i \in P : Cardinality(P \cap 1 .. i) = k]
  IN  [k \in DOMAIN perm |-> data.instances[perm[k]]]

(* dataset_init_trainset and dataset_init_testset                           *)
TrainsetOf(holdout) == InstancesAt({ i \in DOMAIN data.instances : data.instances[i].group # holdout })
TestsetOf(holdout)  == InstancesAt({ i \in DOMAIN data.instances : data.instances[i].group = holdout })

(* The options as exchange_options reads them into variables.               *)
OptionsRead ==
  [n \in { Declared[tr.algorithm][k].name : k \in DOMAIN Declared[tr.algorithm] } |->
     LET par == Declared[tr.algorithm][FindParam(Declared[tr.algorithm], n)]
     IN  ParamsGetTyped(tr.params, n, par.type, par.value)]

(* Trainer::train and crfsuite_train_train: what the algorithm is given.    *)
(* -1 holds nothing out.                                                    *)
TrainerTrain(holdout) ==
  /\ tr # NoTrainer /\ data.num > 0
  /\ reply' = [call |-> "train", holdout |-> holdout, options |-> OptionsRead,
                trainset |-> TrainsetOf(holdout),
                testset |-> IF holdout = -1 THEN << >> ELSE TestsetOf(holdout),
                num_labels |-> labels.num, num_attributes |-> attrs.num]
  /\ UNCHANGED <<dataVars, trVars>>

TrainerNext ==
  \/ \E s \in Sequences : TrainerAppend(s) \/ TrainerAppendThrows(s)
  \/ TrainerClear
  \/ \E a \in DOMAIN Declared \cup {"unknown"} : TrainerSelect(a)
  \/ \E n \in Names : TrainerGet(n) \/ TrainerThrows(n) \/ \E text \in Texts : TrainerSet(n, text)
  \/ TrainerParams
  \/ \E holdout \in Groups \cup {-1} : TrainerTrain(holdout)

TrainerSpec == TrainerInit /\ [][TrainerNext]_trainerVars

(***************************************************************************)
(* Properties                                                               *)
(***************************************************************************)
(* A sequence with the strings that the dictionaries have for its ids.      *)
Read(instance) ==
  [items |-> [t \in DOMAIN instance.items |-> [c \in DOMAIN instance.items[t] |->
                << QuarkToString(attrs, instance.items[t][c].aid), instance.items[t][c].value >>]],
   labels |-> [t \in DOMAIN instance.labels |-> QuarkToString(labels, instance.labels[t])],
   group |-> instance.group]

(* What a parameter should hold: what was last asked for since the          *)
(* algorithm was selected, or its default.                                  *)
Expected(name) ==
  LET par == Declared[tr.algorithm][FindParam(Declared[tr.algorithm], name)]
  IN  IF name \in DOMAIN asked THEN Converted(par.type, asked[name]) ELSE par.value

(* A data set, read, is what was appended at some places, in that order.    *)
ReadsAs(dataset, P) ==
  /\ Len(dataset) = Cardinality(P)
  /\ \A n \in P : Read(dataset[Cardinality(P \cap 1 .. n)]) = appended[n]

(* The data set, read through its dictionaries, is what was appended and    *)
(* not empty, in that order: ids keep their meaning while the dictionaries  *)
(* grow, and clear leaves no id behind that means something else.           *)
(* Training gets the sequences that were appended, less those of the group  *)
(* held out, with which it is tested, and every option as it was set; get   *)
(* shows the options to the digits that it prints.                          *)
TrainsAsAsked ==
  /\ [n \in DOMAIN data.instances |-> Read(data.instances[n])] = appended
  /\ reply.call = "train" =>
       /\ \A n \in DOMAIN reply.options : reply.options[n] = Expected(n)
       /\ ReadsAs(reply.trainset, { n \in DOMAIN appended : appended[n].group # reply.holdout })
       /\ ReadsAs(reply.testset, { n \in DOMAIN appended : appended[n].group = reply.holdout })
       /\ \A n \in DOMAIN appended : \A t \in DOMAIN appended[n].labels :
            QuarkToId(labels, appended[n].labels[t]) \in 0 .. reply.num_labels - 1
  /\ reply.call = "get" =>
       LET par == tr.params[FindParam(tr.params, reply.name)]
           shown == Converted(par.type, reply.text)
       IN  IF par.type = "float"
           THEN 2 * (shown - Expected(reply.name)) \in -(Whole \div 10) .. Whole \div 10
           ELSE shown = Expected(reply.name)
==============================================================================
