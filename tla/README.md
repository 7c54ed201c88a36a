# Formal models of Toolchain-origin

TLA+ models of the program in `src/`, model-checked with TLC on small instances
and, for the threads of the feature extraction, the files of Origin.py and of the
training scripts, the enumeration of graphlets, the written form of idioms, the
checkpoint of training and the sequences and proxies of the Python binding, proved
with TLAPS for every value of the constants. Every definition that
stands for code is listed with its source lines in `PROJECT.json` ("map"), and
every hazard that the properties are aimed at is listed there with its line
("hazards").

1. The system and its components
2. The modules and how they correspond to the code
3. Runs, bounds and what they show
4. Fairness
5. Proofs
6. Disagreements between code and documentation
7. Assumptions
8. Not modelled
9. Plan

## 1. The system

Toolchain-origin attributes each function of a binary to a toolchain (compiler
family and optimisation level). It is a set of sequential processes, and one
multi-threaded one, that talk to each other only through files in a working
directory and through command lines:

    identify:  Origin.py --(fork)--> extractFeat        .range, .instances, .featlist
               Origin.py <--(read)-- features.txt, toolchain-index.txt
               Origin.py --(write)-> .data --(fork)--> crfsuite tag  --> labels on stdout
    train:     FeatGen.py --(fork)--> extractFeat       .instances, .featlist per binary
               GenDataFiles.py                          data files, toolchain-index.txt, feature list
               FS.py                                    features.txt
               TrainModel.py --(fork)--> crfsuite learn --> model.dat
               crfsuite learn --(calls)--> liblbfgs     lbfgs_checkpoint.data

Nothing locks these files and no process checks how another one ended, so most
of what can go wrong between them is a file that is half written, that is older
than it looks, whose lines are in another order or whose numbers belong to
another list. Inside of crfsuite and liblbfgs, which the repository contains in
changed copies, it is state that outlives a call: buffers shared by instances and
by algorithms, averages and factors kept lazily, trees and files with links that
must agree.

### Components

| component | code | state it keeps | operations | hard behaviours | what makes it correct |
|---|---|---|---|---|---|
| Feature queue | `function-features/FeatureQueue.*` | queue, flag `done`, mutex, condition variable | `enqueue`, `dequeue`, `finish` | `notify_all` outside of the lock, spurious wakeups, `finish` with records queued | no record twice, no lost wakeup, the consumer ends |
| Feature analyzer | `FeatureAnalyzer.*` | function vector, OpenMP loop, `featureIndex`, two output files | `Analyze`, `Produce`, `Consume`, `GetFeatureIndex`, `PrintFeatureList` | a team, a producer and a consumer interleaved; indices given out while lines are written | each text function has one record; both files agree |
| extractFeat | `extractFeat.cpp` | none | `main`, `PrintCodeRange` | dies between its files | as Origin.py needs it |
| Origin.py | `script/Origin.py` | cached files of earlier runs, `addrList`, the data file | `Execute`, `GetEndAddress`, `AddFeatures`, `GenerateCRFData`, `Predict`, `PrintPrediction` | children that die, kills, stale caches, labels known by position only | a marked extraction is whole; a label meets its address |
| Graphlet analyzer | `GraphletAnalyzer.cpp`, `supergraph.*` | graph, `done_edges`, `visited`, enumeration sets | `func_to_graph`, `mkgraphlets`, `enumerate_subgraphs`, `ProduceAFunction` | sets passed by reference through a recursion; a map shared by two graphs | each connected set of blocks is counted once |
| Block colors and graphlet strings | `colors.*`, `graphlet.*` | keys of maps and multisets | orders, `compact`, `toString` | a hand-written order; the string is the only link to a model | equal strings just for equal looks |
| Idiom analyzer | `IdiomAnalyzer.cpp`, `feature.*`, `lookup.cpp`, `idiom.cpp` | lookup tree, path stack, cache of features | `eval`, `lookup`, `format`, `IdiomTerm` | a tree with wildcards walked from each instruction; packed fields | counts are occurrences; a string reads back |
| FeatGen.py | `script/FeatGen.py` | the output directory | one extraction per binary and size | a child dies | names are unique |
| GenDataFiles.py | `script/GenDataFiles.py` | indices of features and toolchains | three passes over all files | replaced one file at a time | labels and features keep their meaning |
| FS.py, TrainModel.py | `script/` | feature list, training data | select, renumber, write chains | renumbering, short rankings | trained vectors are those of identification |
| CRF model file | `crf1d_feature.c`, `crf1d_model.c`, `quark.c`, `dictionary.c`, `cqdb.c` | dictionaries, features, hash tables, a seekable stream | `quark_get`, `crf1df_generate`, `cqdb_*`, `crf1dmw_*`, `crf1dm_*` | three numberings of attributes and two of features; hash collisions; offsets and headers written behind what they describe; kills | the tagger sees the weights that were learned; a cut file is no other model |
| CRF tagger | `crf1d_tag.c`, `crf1d_context.c` | one context for all instances, `level` | set, viterbi, score, lognorm, marginals | buffers shared between instances and between algorithms | best path, true marginals |
| CRF encoder | `crf1d_encode.c`, `crf1d_context.c`, `holdout.c` | the same context, `level`, scaled weights | set weights and instance, score, viterbi, partition factor, objective and gradients of an instance and of all, holdout | which of the stages is still good when weights or instance changed | answers are those of the weights and the instance last set |
| crfsuite tag | `frontend/tag.c`, `iwa.c`, `crfsuite.c` | token state, current instance, the evaluation | the reader's loop, `output_result`, counting | end of file, empty lines, unknown strings and labels | one label per line, in order; figures of what was printed |
| crfsuite learn | `frontend/learn.c`, `crfsuite_train.c`, `train_lbfgs.c` | data set, folds, `best_w`, model file | learn, holdout, cross validation | kills | an interrupted training learns the same |
| liblbfgs | `lbfgs.c` | memory ring, ring of past losses, checkpoint file; interval of a search; pseudo-gradient | the loop, saving and resuming a checkpoint, four line searches, OWL-QN | a checkpoint met by another training; an interval kept in five variables | a state belongs to its iteration; a step keeps its conditions |
| Online trainers | `train_averaged_perceptron.c`, `train_passive_aggressive.c`, `train_arow.c`, `train_l2sgd.c` | weights, lazy sums, a factor, the best epoch | an update, an epoch, calibration | averages corrected at the end; weights stored divided by a decaying factor | the average is the mean; descent is plain descent |
| Parameters and trees | `params.c`, `rumavl.c` | a list; a threaded AVL tree | set, get; set, insert, delete, walk | a deletion that rebalances up to the root | a set of records, whatever the shape |
| C++ and Python interfaces | `crfsuite.hpp`, `export_wrap.cpp` | data, dictionaries, trainer, model and tagger; vectors, iterators, ownership flags | methods in any order | a method that throws half way; slices as iterators; objects deleted by their proxies | training gets what was appended; one owner per object |

The rest (unused analyzer code, the learned data, build files, examples) is listed
in `PROJECT.json` as not modelled, with the reason; section 8 sums it up.

## 2. Modules

| module | extends or instantiates | stands for |
|---|---|---|
| `FeatureQueue` | | the queue: one action per critical section, per `notify_all` and per return from `cv.wait` |
| `FeatureStream` | | abstract: records are sent in some order, a prefix of it is written, then the stream is closed |
| `FeatureAnalyzer` | `FeatureQueue` | one extraction with its threads; implements `FeatureStream` (refinement mapping `Stream`) |
| `OriginRun` | | runs of Origin.py over one directory, with extractFeat as a child process |
| `OriginRunProofs` | `OriginRun`, `Lemmas`, TLAPS | its theorems |
| `Lemmas` | `Fractions`, TLAPS | lemmas for the proofs: induction and recursion over numbers, sets and sequences; arithmetic and order of fractions, also over a common denominator; their sums, also by blocks and by rows and columns, products and powers |
| `GraphletFormat`, `Graphlets` | | colors, orders and strings of graphlets; the graph of a function and the enumeration of its graphlets |
| `IdiomFormat`, `Idioms` | | an instruction as a term, packed and as a string; idiom features of a function |
| `AnalyzersProofs` | `FeatureAnalyzer`, `Graphlets`, `IdiomFormat`, `Lemmas`, TLAPS | their theorems |
| `MCProducers` | `Graphlets`, `Idioms` | composition: one call of `ProduceAFunction` by either analyzer |
| `Training` | | FeatGen.py, GenDataFiles.py, FS.py and TrainModel.py in sequence |
| `TrainingProofs` | `Training`, `Lemmas`, TLAPS | its theorems |
| `Fractions` | | exact fractions in the place of `floatval_t` |
| `Cqdb`, `ModelFile` | | the constant database with open addressing and backward links; features, pruning and renumbering, the file's content and its reading |
| `ModelWriter` | `Cqdb` | the file as a stream of cells: seeks, chunk headers, a buffer, a kill |
| `Evaluation` | `Fractions` | counts of correct labels and what is computed from them |
| `Crf1d` | `Fractions` | the tagger and its context |
| `Tagging` | `Crf1d`, `ModelFile`, `Evaluation` | composition: `crfsuite tag` on a model file and a data file |
| `CrfFeatures` | `Fractions` | which features are on a path: the trainers' view of the data |
| `Encoder` | `CrfFeatures`, `Evaluation`, `Crf1d` (three instances) | the encoder below all training algorithms, with holdout.c |
| `Lbfgs`, `Learn` | | the optimizer with its checkpoint; commands of `crfsuite learn` in one directory |
| `LineSearch`, `Orthantwise` | `Fractions` | the line searches; the L1 form of `lbfgs()` |
| `OnlineTrainers`, `Sgd` | `CrfFeatures`, `Fractions` | perceptron, passive aggressive and AROW; stochastic gradient descent |
| `LearnProofs` | `Learn`, `LineSearch`, `Sgd`, `Lemmas`, TLAPS | their theorems |
| `OrthantwiseProofs` | `Orthantwise`, `Lemmas`, TLAPS | its theorems |
| `OnlineProofs` | `OnlineTrainers`, `Lemmas`, TLAPS | its theorems |
| `MCTrainers` | `Learn`, `LineSearch`, `Orthantwise`, `OnlineTrainers`, `Sgd` | composition: what `crfsuite_train_train` may call |
| `RecordSet` | | abstract: a set of records and the code that each call returns |
| `Rumavl` | | the threaded AVL tree; implements `RecordSet` (`RecordsFound`) |
| `TrainerApi`, `TaggerApi` | ; `Crf1d` | the class Trainer of crfsuite.hpp with quarks, dictionaries and the parameters of params.c; the class Tagger |
| `PySequence`, `PyObjects` | | a sequence of the Python binding and its iterators; proxies and ownership |
| `LibraryProofs` | `PySequence`, `PyObjects`, `TrainerApi`, `TaggerApi`, `Lemmas`, TLAPS | their theorems |
| `MCLibrary` | `Rumavl`, `TrainerApi`, `TaggerApi`, `Encoder`, `ModelWriter`, `PySequence`, `PyObjects` | composition: what a user of the library may call |
| other `MC...` | | constants for TLC, which the three above hold, too |

Where a constant of one module is a result of another, the interface is the file
or the call between the two: `OriginRun` and `Training` take from the extraction
what `FeatureStream` promises (the lines of some functions in some order, then
the list); `Tagging` takes the lines that Origin.py writes and checks what
Origin.py relies on (`LabelsInOrder`), and `OriginRun` takes any labelling by
position; `Sgd` takes any gradient, which is the matter of `Encoder`;
`TrainerApi` takes the tree of a quark as a function, which is what `Rumavl` shows of it;
`OnlineTrainers` takes any best path, which `Crf1d` finds one of.

`MCProducers`, `MCTrainers` and `MCLibrary` put parts side by side that share no state:
a variable (`analyzer`, `algorithm`, `subject`) says which one runs, as the
command line does, and the others stay as they are. `FeatureAnalyzer`,
`Tagging`, `Encoder` and `Learn` compose parts that do interact.

### FeatureQueue, FeatureAnalyzer, FeatureStream

The main thread in `Analyze` (variable `main`), the producer thread (`producer`),
the workers of its OpenMP loop (`worker`, `idt`, the shared loop counter `next`)
and the consumer (`consumer`, `item`, `todo`, `line`) are one program counter
each. An action is one critical section or one access to shared state:

| action | code |
|---|---|
| `SpawnConsumer`, `SpawnProducer`, `JoinProducer`, `FinishSetDone`, `FinishNotify`, `JoinConsumerAndPrintFeatureList` | `FeatureAnalyzer::Analyze` |
| `Collect`, `Claim`, `EnqueuePush`, `EnqueueNotify`, `NoneLeft`, `Barrier` | `Produce`, with `FeatureQueue::enqueue` in two steps |
| `ConsumerWaits`, `ConsumerTakes`, `ConsumerStops` | the three outcomes of `dequeue` |
| `PrintPair`, `EndLine` | the loop of `Consume`, with `GetFeatureIndex` |
| `SpuriousWakeup` | `cv.wait` |

`std::sort` with `FuncSort` is any order by descending number of blocks; the
unordered map of a record is printed in any order. `enqueued` is a history
variable, the sent sequence of `FeatureStream`.

### OriginRun

`files` (`.range`, `.instances`, `.featlist`) outlive a run; `pc`, `k` (the
current extraction), `child`, `addrList`, `data` and `endAddr` belong to a run. A
child writes line by line and may die between any two steps; the script may be
killed anywhere, its child with it. `CUT` is a file that ends inside a line,
`BLANK` an empty `.range`. The labels are any function from the lines of the
data, by position. Origin.py looks neither at the exit status of crfsuite nor at the
number of its labels: `PredictAndPrint` takes those of any first part of the lines,
the last one perhaps cut in its digits (`Parsed`, with `CutTo`), and prints their segments
as `PrintPrediction` does; `PredictFails` is a crfsuite of which nothing can be read.
`printed` records what was printed for the properties.

### GraphletFormat, Graphlets, IdiomFormat, Idioms

Blocks are numbered by the address of their node, the order in which `set<snode*>`
iterates. Building (`LinkBlock`, one edge list at a time in any order) and
enumerating (`EnumInclude`, `EnumPutBack`, ... with an explicit stack for the
recursion of `enumerate_subgraphs`, its by-reference sets being state) are
steps; keys are compared by the orders of `graphlet.cpp`, and strings are
sequences of character codes because one finding is about a character.

A term's fields are `Base` values wide (2^16 in the code). One step per
instruction at which an idiom may start (`FeatureVector::eval`); below it, the
recursion of `Lookup<IdiomFeature>::lookup_idiom` with its stack of terms.
Instructions are records of an opcode, operands and a length, as `IdiomTerm`
sees them.

### Training

The files of FeatGen.py, GenDataFiles.py, FS.py and TrainModel.py are variables,
and their passes, including the exceptions they catch and those they do not,
are actions. A script may be killed and is then given again; a second round
starts over with another file list. An extraction ends (`ExtractEnds`) with a line
for each function, or without those whose records the queue has lost; or it dies
(`ExtractDies`) and leaves of its last line what the scripts can still read: of
`.instances` a function without features, with fewer, or with a shorter address or count
(`CutLines`), of `.featlist` a shorter list whose last string is any other, since
`line[:-1]` takes the last character whether or not it is a line break (`CutLists`), or
what no script can read (`CUT`). A feature goes through four numberings:
that of its extraction, the global one, that of the selected features, and the
one of Origin.py.

### Cqdb, ModelFile, Crf1d, Evaluation, Tagging

`Tagging` is one sequential process. Its initial state is a training
(`trained`), which `Generated`, `Active` and `Saved` turn into a model file the
way `crf1df_generate` and `crf1de_save_model` do, and which `Opened` turns into
the tagger's tables the way `crf1dm_new`, `crf1dt_state_score` and
`crf1dt_transition_score` do. Strings are looked up in the two databases of the
file by hash. `iwa_read` is one action per token; `output_result` one action
per printed line. `LabelsInOrder` compares what is printed with the weights by
the *strings* of attributes and labels, so it crosses all numberings at once.
`Crf1d` keeps the buffers of earlier instances, as `crf1dc_set_num_items` does,
and lets Viterbi overwrite `alpha_score`. `Evaluation` is the record
`crfsuite_evaluation_t` with its three functions; a table row has a place for
each label and one for unknown labels.

### ModelWriter

A file is a set of cells, each with a position, a size and a value. A call of the
writer puts operations (`Write`, `Seek`) in `todo`; `DoWrite` and `DoSeek` carry
them out one by one on the stream, whose buffer (`pending`) reaches the file
(`disk`) on a seek or when it is closed; `WriterKilled` may come anywhere, with any
first part of the buffer written. `CellAt`, `HeadersOf`, `ReadChunk`, `ReadFeatures` and `WhatIsRead` are the
readers (`crf1dm_new`, `cqdb_reader`, `crf1dm_get_*`), run on whatever is there. Of a
file that is shorter than a header `crf1dm_new` reads memory into which nothing was
read: `HeadersOf` is then the set `Leftovers`, and `WhatMayBeRead` has what is read by each.

### CrfFeatures, Encoder

A context of `Crf1d` is a record here (`ctx`), with its buffers; `encLevel` (the code's `level`) says which
of the stages weights, instance, alpha-beta and marginals have been done, and
`EncoderSetLevel` does the missing ones. `SetWeights`, `SetInstance`, `Score`,
`Viterbi`, `PartitionFactor`, `ObjectiveAndGradients`,
`ObjectiveAndGradientsBatch` and `HoldoutEvaluation` come in any order. The
batch leaves the level alone although it uses the context, as the code does.

### Lbfgs, Learn

The arithmetic of a training is deterministic, so a point of an undisturbed
training is represented by the data it was computed from and its iteration
(`Walk(D, k)`); a line search from anything else ends in a stray point. What the
model keeps exactly is control: the ring of `m` correction pairs, the ring `pf`
of past losses, `end`, `bound` and `k`, the order of the tests, what is written
to the checkpoint and in which order it is read back, the temporary file and
the `mv`, the callbacks that keep `best_w`, holdout and cross validation.

### LineSearch, Orthantwise, OnlineTrainers, Sgd

These compute with exact fractions. `LineSearch` has one action per trial of
`line_search_backtracking` (`Backtrack`; three conditions) and of
`line_search_morethuente` (`MoreThuente`, with `update_trial_interval` as
`TrialIntervals`); the objective at a step is any pair of `Evaluations` above the
first tangent. Where the minimizer of an interpolation lies, `NewTrials` takes any of a few
points; where the code takes an end of the interval instead, it takes that end:
`CubicTurnsBack` is when CUBIC_MINIMIZER2 returns the end behind the trial, by the sign of
`theta` and not by the direction of the search, and `TurnsBack` when the comparison with the
secant leaves it so. `astray` is a history variable: the next trial is such an end.
`Orthantwise` has a quadratic objective of two weights and the actions
`StartSearch`, `TryStep`, `NewDirection` and `Resume` (what a checkpoint brings
back, which does not include the pseudo-gradient). `OnlineTrainers` has one
action per instance, with the three updates; `total` is a history variable, the
sum of all weight vectors. `Sgd` has one action per instance, per end of an epoch
and per trial of the calibration; `plain` is the history of plain descent.

### Rumavl, RecordSet

A tree is a record of `root` and, for each node and side, `link`, `thread` and
`balance`; a location is what the code has as `RUMAVL_NODE **`. `Set`, `Insert`,
`Delete`, `Destroy` and a call without memory are the actions; `WithRecord` and
`WithoutRecord` take the code's path with its stack, rotations (`Rotate`),
replacement (`Spine`, `Unlinked`) and `stack_update`. The refinement maps
`contents` to the records that `rumavl_find` finds.

### TrainerApi, TaggerApi

One action per method of the classes, its exceptions included
(`TrainerAppendThrows`, `TrainerThrows`, `TaggerThrows`). `appended` and
`asked` are histories of what the caller gave; `reply` and `told` hold what the last
call returned.

### PySequence, PyObjects

`PySequence` has the vector, its capacity (which decides whether an iterator stays
valid) and two iterators of either direction, with an action per wrapper in
`export_wrap.cpp` that changes one. Conversions of an index (`check_index`,
`slice_adjust`, clipping or wrapping of bounds) are operators of their own.
`PyObjects` has objects and the proxies that point to them, with the flag `own`;
an action per wrapper that makes, returns, disowns or deletes one.

## 3. Runs

Twelve runs; each asks one question of one part of the system. Passing runs fire
every action, and each of their properties has a mutant of the code
(`PROJECT.json`, "mutants") that TLC finds to break it.

**analyzer** (`MCFeatureAnalyzer.cfg`). All interleavings of two loop workers, the
producer, the main thread and the consumer on three text functions and a linkage
stub. Two functions have equal block counts (two sort orders), two share a
feature, one has none. Two workers and three records are enough for a worker to
overtake another, for the queue to be empty and to hold several records, and
for the consumer to wait at each point; more of them repeat these situations,
and the theorems of section 5 cover all numbers. `OneRecordPerFunction`,
`NoLostWakeup`, `LinesDecode`, `IndexNeverReassigned`, `ImplementsStream`
(refinement) and `AnalyzeReturns` (liveness).

**origin_run** (`MCOriginRun.cfg`). Two runs of Origin.py (`MaxRuns = 2`) on two
binaries whose paths end in the same name, with two extractions each; one has a
function without idioms, one a function without kept features. Two labels, 1 and 12,
of which the second may be cut to the first. Deaths of the
child, of crfsuite after each label, and kills of the script anywhere. Two runs are what it takes for a run to
meet files of an earlier one; a third meets no other kind of file.
`MarkerMeansInstances`: a `.featlist` that exists stands beside a complete
`.instances`. `WholeListsGiveExactVectors`: with no cut list, crfsuite is given
exactly what was found. `LabelsBelongToAddresses`: the i-th label that came out is that of
the i-th address, and the printed segments tile the functions that have one. When
crfsuite died, the functions behind them are in the range of the last segment and
not in its count; two functions are enough to lose one.

**producers** (`MCProducers.cfg`). For the graphlet analyzer all flow graphs of up to
three blocks, all graphs of five blocks in which 1-2-3-5 are linked (for the
enumeration only the linked pairs matter), a chain of six blocks, which exceeds
`MaxNodes = 5` (the guard of `ProduceAFunction`), and graphs with parallel edges,
self loops, calls and edges to other functions; sizes 1 to 4. Size 4 in five
blocks is the smallest case in which a set put back wrongly in the recursion is
met again. For the idiom analyzer all functions of up to three instructions (and
periodic ones of five) over four instructions, among them an illegal one, a
`nop` and one with a register wider than a field, in one or two blocks,
`Base = 16`, sizes 1 to 3; field widths beyond that are the theorems'.
`EachEdgeLinkedOnce`, `SubgraphsCounted`, `SameSubgraphsInBothKinds`,
`CountedByLooks`; `FeatureNamesItsPath`, `CountsAreOccurrences` (which also reads
each string back).

**training** (`MCTraining.cfg`). Two file lists over two binaries of the same name with
different toolchains, two rounds, one extraction that dies or loses records, kills,
`Keep = 2` of four feature strings, one of which is of no function and is what
another is cut to; an address, 16, that is cut to another one's digits. A second round
with another list is what exposes indices of the first.
`TrainedAsIdentified`: the vector a function is trained with is the one Origin.py
makes of it, of cut files too, which both read alike. `DataOfWholeExtractions`, which
excludes extractions that died or lost records (`WholeIn`): in the data of these there may be a feature
that no function has, or a function fewer. `ChainsAreBinaries` (with the label of each
chain's toolchain).

**tagging** (`MCTagging.cfg`). Three labels whose ids are not in the order of their
numbers; six trainings, with ties, negative and zero weights (pruned, so that
attributes change their number) and features too rare for `minfreq`, with and
without `possible_states` and `possible_transitions`; hashes that collide
between labels, between a known and an unknown string, and around the end of a
table; eight files with chains of up to three lines, empty lines in all places,
unknown labels and attributes, with and without a last line break; five sets of
output options. Three items are enough for a row that is neither first nor
last, and longer instances come before and after shorter ones.
`LabelsInOrder`, `RankedByProbability`, `EvaluationCountsWhatIsPrinted`,
`TagReturns` (liveness).

**learn** (`MCTrainers.cfg`). One algorithm at a time.
Commands: three out of four kinds over two groups of instances, two of them
killed anywhere; a checkpoint every second iteration (ten in the code), memory 3
(6), period 2 (10), up to 8 iterations; trainings that converge at once, later or never, whose
line search fails early, late or never, and whose loss stops falling at three
points. Both rings wrap around (`Memory` and `Past` are smaller than
`MaxIterations`) before and after a checkpoint: `StateIsOfItsIterations`,
`InterruptedLearnsTheSame`.
Line searches: an ascent and a steep descent, sixteen outcomes per trial (of which those
below the first tangent are left out), up to six trials, which is
enough for the three trials in which an interval must have shrunk, after the
minimum was bracketed, and for a cubic that turns back with the interval not yet to be halved:
`IntervalHoldsTheMinimum`, `StepKeepsItsConditions`.
L1: three objectives with minima on and off the kinks, 25 directions, four
iterations, a resumption: `OrthantwiseDescent`, `ConvergedIsMinimum`. A minimum is
compared with the points at 17 displacements of each weight, up to 2, and at one small
enough to be lower wherever the pseudo-gradient says that it descends.
Online: three instances (a repeated attribute, an item without attributes), two
epochs in all orders, all types and options: `AverageIsMean`,
`UpdatesReachTheMargin`. Two epochs are what averages and precisions need to
carry something over.
Descent: two instances, three epochs, one candidate or two, gradients of both
signs, losses that are not finite, a rate at which the factor vanishes:
`FactorIsExact`, `BestIsKept`.

**library** (`MCLibrary.cfg`). One part at a time, calls in any order.
Tree: all histories over seven records, the least with which a deleted node is
replaced by one that is not its child: `TreeIsThreadedAvl`, `ImplementsRecordSet`
(refinement). Trainer: four calls of append and clear, three of select and set
(two would not tell whether a parameter survives a select), two algorithms:
`TrainsAsAsked`. Tagger: four calls that change it, two models, sequences of
zero, one and three items: `TaggerAnswersAreTrue`. Encoder: three calls that set
something, two weight vectors, two scales, four instances of lengths 1 to 3:
`EncoderAnswersAreTrue`. Model file: a model with colliding labels and one without
attributes, killed anywhere; what is left in memory where a header is too short may be 0 or 1:
`FileIsTheModelOrEmpty`, which says nothing of a file to which nothing was written. Sequence: up to two
elements, indices from -2 to 3 (before, at, inside and behind both ends):
`SequenceActsAsList`. Objects: three objects, three proxies:
`OwnershipIsSound`; a double owner takes two proxies of one object and another
object.

**analyzer_loss**, **origin_chain**, **graphlet_default_model**,
**training_subdirectory** and **learn_holdout** each refute one statement of the
repository about itself, section 6.

## 4. Fairness

`analyzer`: weak fairness of each thread (`FairSpec`). They are operating system
threads, and a mutex is only held inside of one action, so a thread that can go
on does so eventually. No fairness is assumed of spurious wakeups. A waiting
consumer is not enabled: that it wakes up has to follow from the code.
`tagging`: weak fairness of the one sequential process. The other runs state no
liveness: kills and deaths there are free to happen at any time, and callers of
the library may stop.

## 5. Proofs

`tlapm` checks all of it.

`AnalyzersProofs` on `FeatureAnalyzer`, for any finite set of functions, any set of workers, any
features and counts. The properties are not inductive as they stand; the
invariant is built of

- `TypeOK /\ Points`: which program counters go together (for example: the
  consumer has left only if `done`, `finish` comes after the producer's end).
  `TypeCorrect` and, with it, `WakeupNotLost`: a consumer in the waiting set with
  something to do has a notification on its way. Without `Points`, a state with
  `done` set and no `notify_all` left would be possible.
- `Collected`, `Handed`, `Fifo`: the vector has each text function once; each
  enqueued record comes from a claimed place and no two from the same; queue,
  consumer and file together are a suffix, an element and a prefix of what was
  sent. Hence `RecordsAreNeitherLostNorDuplicated`, and `AnalyzerImplementsStream`
  by a step simulation under the refinement mapping `Stream`.
- `Indexed`, `Lines`: indices are 1 to the number of features seen, and each line
  written so far holds the indices of its function's features. Hence
  `IndicesAreStable` and `FilesAgree`, with the lemma `DecodeInverts`.

`OriginRunProofs`, for any binaries (also with names in common), extractions,
finite set of features and number of runs.

- `MarkerMeansInstances` alone is not inductive: that a child which comes to print
  its list has whole instances behind it is `ChildHasItsFiles`, which relates the
  child's place to its two files, and `TypeOK` says that there is a child just
  while the run waits for it. With `Inductive`, their conjunction: `FilesTyped`,
  `MarkersAreSound`, and `CacheStays`: once an extraction has a `.featlist`, its
  instances are never written again, and the list only by the child that is still
  printing it.
- `VectorsAreExact` needs to know of files what no type says: `Numbered`, the numbers
  on the lines of an extraction are places in the list that its child has or will
  print, each feature at one place. `Vectors` carries that to the run's lines: what
  `AddFeatures` has merged of an extraction agrees with every longer list
  (`AgreesWithLonger`, `NewLineAgrees`), so features that a later extraction numbers
  do not disturb the lines of an earlier one.
- `LabelsTile` is about the loop of `PrintPrediction`, a fold over the labels, of which
  there may be fewer than addresses (`ParsedLabels`). It
  is stated of every first part of them (`CountedOn`) and shown by induction on
  its length: the segments so far tile what is behind them, and a change of label
  closes one just where the next begins (`SegmentCloses`). What it says of a crfsuite that
  died is what is still true then: the last segment ends with the text section.

`TrainingProofs`, for any binaries, extractions, features, file lists and number of
rounds, kills and deaths. `TrainInv` says for each file which execution made it: beside a
`.featlist`, the `.instances` by the same execution hold what it found, and a list that was
closed is its index; of what a cut may have left it says the type and the number of lines
(`Extracted`, with `Earlier` for the order of executions, `CutListsAreLists`,
`CutLinesAreAsMany`); what `CountFeatures` has read is in the global
index (`Indexed`); a data file that `GenerateCRFData` has passed is made of the files
that are there now (`DataWritten`), although a second round may have another list
and leaves the files of the first behind; the selection is of that index
(`Selected`) and the chains of that data (`TrainedOn`). `ScriptsAgree` is its theorem.

- `ChainsOfTheirBinaries` follows with `ToolchainsIndexed`: the label of a chain is
  the place of its toolchain in toolchain-index.txt.
- `WholeExtractionsMakeData`: two passes over whole extractions number every feature
  that occurs (`NumbersNewFeatures`, an induction over the lines read), so that no
  pair is lost, and `set()` merges only what several extractions say alike
  (`CanonicalAssumption`). An extraction that lost records has fewer lines than functions
  and is no such extraction; that one with as many has a line of each is `LinesOfWhole`.
- `IdentifiedAsTrained`: FS.py renumbers by the global index and Origin.py by strings;
  `SelectionCommutes` shows that the two numberings meet, for they are injective on
  the strings that occur, whether a function has such a feature or a list was cut to it.

`AnalyzersProofs` on `Graphlets` and `IdiomFormat`, for every flow graph, `MaxNodes` and
size, and for every field width.

- `GraphBuilt`: the links made so far are those of the blocks looked at so far
  (`Met`), each once. `LinkedOnce` is the end of it. `doneEdges` is what makes it true:
  an edge inside the function is in the lists of two blocks.
- `InOrder` has what is recorded at each point of both walks. `EnumPutBack` and the
  others change sets that all activations of `enumerate_subgraphs` share, so no
  activation can be understood by itself: `StackSound` gives these sets by the stack of
  activations (what is taken in, what is left out), and `Pending` the connected sets
  that each activation has still to record. The invariant is that nothing else is
  missing from the record. The work is in `IncludeSound` and `ExcludeSound` (the sets with
  a block and those without share out what is pending), `PruneSound` (a set of
  blocks whose neighbours are all left out grows no more) and `Popped`.
- Up to size 3, where the code counts at each node instead, the record is the fold
  over what the nodes come to (`FoldedIsCount`, `CountedAtNode`), and `TripleCounted` counts the
  choices of directions, as `SubgraphsCounted` states them.
- Hence `ConnectedSetsCounted` and, since both graphs are the flow of the function,
  `SameInBothKinds`.
- Of idioms: a term that is shortened by its trailing NOARGs reads back as itself
  (`TermReadsBack`, under the assumption that no entry id is zero, which is what the
  code's table gives), so two idioms with one string are one idiom
  (`StringsAreCanonical`). The argument is arithmetic of `\div` and `%` (`DivMod`,
  `Fields`, `NoThirdField`).

`LibraryProofs`, for any elements, lengths, indices, numbers of objects and proxies,
sequences of items, algorithms and texts, models and label sequences.

- `SequencesAreLists`: the invariant `SequenceTyped` has the vector, its capacity and that an
  iterator which may still be used is in it or at an end, whatever moved the elements
  before. On it, each slice operation that the wrappers compose of `erase`, `insert`
  and copies is the splice of the list (`SlicesAreRead`, `SlicesAreDeleted`,
  `SlicesAreSet`, from `CopiedAndSpliced`), after bounds that are wrapped and clipped
  in two ways (`Wrapped`, `WrappedTo`).
- `ObjectsOwned`: what is at stake is that `tp_dealloc` of one proxy may delete an object
  and set others free in turn. `OwnershipInv` says of each object that at most one
  proxy owns it, that it is not deleted while one does, and that without an
  owner it is deleted or was given up (`OwnedOnce`, `Accounted`). That is not
  inductive: an iterator that `+=` gave a second owner (section 6) could be
  a sequence for all that it says, whence `reowned` only of iterators; and what an
  iterator keeps alive (`Kept`) has to be the owner of its sequence, which is
  `ProxySound`: a proxy of a sequence always owns it. `GoneTogether` is the step of a proxy
  that goes with what it kept, `CollectedSound` its repetition until nothing is left to
  collect. The temporaries of a call are those of lists that could not be
  converted (`LeftIsBad`).
- `TrainedAsAsked`: what was appended is stored as ids, and is compared with strings
  when it is read. `QuarkSound` says that the two halves of a quark agree,
  the tree and the array that grows; `AskedForSound` that a string which is asked for
  has an id from then on and that no id changes (`Extends`); so that
  `DataSound`, by which the instances are what was appended, numbered by the
  dictionaries of now, is kept while they grow (`NumberedStays`), and a clear
  that released the dictionaries alone would break it. `ParametersSound` says the
  same of parameters: the list is the declared one, with the value last asked for
  in the first of each name (`SelectSettles`, `SetSettles`), where both `set` and the
  macros look. The answers follow (`DatasetReads`, `TrainReplies`, `GetReplies`).
- `AnswersAreTrue`: `TaggerAnswersAreTrue` speaks of sums over all label sequences, of which
  there are `NumLabels` to the power `T`; the code has one row for each item. The invariant is
  `Usable`: the buffers have room for the items that are set, `state` has their scores
  whatever longer instance was there before, and if `level` says that forward-backward has
  run, the buffers hold what it leaves for these items (`Ran`), but for an alpha that
  `viterbi` may have overwritten. Three arguments carry it, each over any lattice of
  positive numbers. Forward: the row that is kept for an item is the sum over all paths to
  it, times the scale factors so far (`ForwardKeeps`), none of which is zero. Backward:
  at each item, what comes from before times what comes back gives the same sum,
  up to these factors (`Meets`, by exchanging rows and columns; `BackwardMeets`), so
  that the norm is the reciprocal of the last factors' product (`NormMeets`) and a marginal is
  the sum over a lattice in which the other labels of the item have weight zero
  (`OnlyReached`, `MarginalMeets`). Enumeration: the weights of the paths in a row, each with
  each label behind it, sum to what is reached (`SumsProlonged`, `PathSums`), where the
  weight is the exponential of the path's score (`ExpSum`, `MaskLonger`). Of `viterbi`,
  that no path has more than what its last label has, and the one that is traced back
  has as much (`NoneBetter`), in integers. The strings returned are read back as the path
  because no label occurs twice (`NamedAgain`). Each call then keeps `Usable`: a second `set`
  (`SetUsable`) by lowering `level`, and `viterbi` because it writes nothing but alpha
  (`ViterbiUsable`).

`LearnProofs` has three parts. Of `Learn`, for any groups of instances, commands,
kills, number of corrections `Memory`, period `Past`, distance of checkpoints `Every`
and number of iterations: `StateIsOfItsIterations` says what a state holds at the top of the loop, and is not
inductive: a training may begin with the state of a file. `Resumable` therefore
says the same of a running loop anywhere (`RunIsSound`), of the checkpoint and of
the temporary file that is about to replace it (`CheckpointIsSound`), and what a
training returned (`ResultIsLearned`). For a state it is `Going`: its point and
direction (`Point`), both of its rings (`Ring`, `Losses`) are those of an undisturbed
training, which has not ended before (`EndsAt`). The work is in the rings: an
iteration overwrites one place of each, and that every other place is then one
further back is arithmetic modulo `Memory` and `Past` (`Moved`, `Apart`, `NextRing`,
`NextLosses`). Hence `LearnTyped`, `StateIsKept` and `LearnsTheSame`. They assume, as
`Lbfgs` does, that the line search is a function of what it is given.

- Of `LineSearch`, for any limits, tolerances, objective and number of trials:
  `StepKeepsConditions`. A step that is accepted was tested, but not against all that
  is promised of it: backtracking compares a step with its limits after trying it, so
  that the invariant has where the next trial may be (`StepInReach`: within one
  change of the limits, `WidthChanges`, `FoundInside`), and More and Thuente's search
  may take the best step so far unclipped, which it then does not accept since a
  bracketed interval ends there (`AtTheLowest`).
  `MinimumIsHeld` is about More and Thuente's search: once the minimum is bracketed,
  the objective falls from the lowest step into the interval, each trial lies in it but
  for a cubic that turns back, and three trials make it shorter by a third. `IntervalInv`
  adds what the next trial relies on: the ends of the interval are steps within the limits
  (`Positioned`), the slope at the lowest one points to the other end and is, in the first stage,
  below the one demanded, also of the tilted function that is searched then (`Falling`,
  `FallingTilted`), and the last widths are those of the interval, the middle being next
  when they have not shrunk (`Shrinking`). `TrialIntervalsAre` is `update_trial_interval`: the
  trial replaces an end or both are renewed, and the next one is inside of the new interval
  or has turned back. What comes of a turn rests on two facts. After it is clipped, such a trial
  is at the lowest step or beyond it, so that, unless the interval is to be halved, the test for
  an unusual end takes stx, and the next verdict is the rounding error (`TurnedBack`). And the
  cubic does not turn before the minimum is bracketed: the comparison with the secant would
  need a slope not half as steep as the last, but a slope so flat, with gtol at least 1/2, is
  accepted (`HalfAsSteep`).
  `OrderOfParts` puts the numbers of a step
  over a common denominator, which is where their products are compared. That ftol is at most
  gtol is needed (`FlatEnough`): else a flat step that is low enough would be left unaccepted.
- Of `Sgd`, for any penalty, rates, number of instances and gradients: `FactorExact`.
  With the factor kept apart an update divides by it; `UpdateIsPlain` is that step,
  `FactorKept` the invariant, in which the factor is not zero: an instance that
  makes it so is an action of its own, `FactorVanishes`, after which the weights are
  no numbers. `BestKept` adds the order in which
  rates are tried, a `Ladder` that grows and then shrinks from below its start, on
  which no rate comes twice (`LadderUp`, `LadderDown`, `LadderMeans`), the best of the
  epochs so far (`BestOf`), and the ring of their losses (`PastOf`).

`OrthantwiseProofs`, for any convex quadratic of two weights with any penalty, any
directions, first steps, `ftol`, number of trials and iterations, and any number of
resumptions.

- `NothingAscends`: `OrthantwiseDescent` is not inductive. That an accepted trial is not
  higher is the test against `finit`, but only if the sum that is
  multiplied by `ftol` is not positive: `OwlInv` adds that the direction goes up along
  the pseudo-gradient in no weight (`Descends`), which `constrain_line_search_direction`
  (`Constrained`) sees to, and that the orthant is that of the point and of the
  pseudo-gradient before. `LandsWell` has of one weight what projection leaves of it. After a
  resumption the pseudo-gradient is all zeros, with which nothing is claimed of `d`
  but that it does not ascend along them: a weight at zero stays there.
- `EndsAtTheMinimum`: the pseudo-gradient is zero exactly at the minimum. One direction
  holds against every point, not only against those of `Near` (`NowhereLower`): the
  objective moves by the gradient's share, the penalty's and a quadratic form
  (`ValueMoves`), which is not negative since the problem is convex
  (`QuadraticNotNegative`), and at each weight the penalty makes up for
  the gradient (`NoMoveFalls`). For the other, a weight whose pseudo-gradient is not
  zero is lower at a displacement of one over `a` and the denominators of both weights
  (`LowerBeside`, `OneMoveFalls`): it does not cross a kink, and the slope, a whole number
  over them, outweighs the square. All of it is computed over one denominator
  (`ObjectiveParts`, `PseudoParts`), where the provers have integers to compare.

`OnlineProofs`, for any training set that `CrfFeatures` admits, any features, options
and orders of the instances. `OnlineInv` says besides types (`OnlineTyped`):

- `SumIsKept`: `ws` has of each change of a weight the change times the number of
  vectors before it, so that `w * c - ws` is the sum of the vectors so far. An instance
  that is labelled rightly moves `c` and nothing else, and adds `w` once more
  (`OneVectorMore`); one that is labelled wrongly is counted after its change.
  `AveragesAreMeans` is the quotient (`MeanOf`), at the end of each epoch (`EpochIsKept`).
- `MarginIsKept`: what the last update left of the loss of its instance.
  `MarginsAreReached` is not about one assignment: the update runs over features
  collected along two paths, with repetitions, into an array that is cleared by what
  was collected before. `DeltaOf` says that nothing is left there and
  `CollapsedOf` that each index is kept once, so that a sum over the features kept is
  one over all (`ActiveIsAll`), and what is collected is the difference of the features
  of the paths (`CollectedIsDifference`). Then the score moves by `tau` times a sum of
  squares (`DotOfMoved`, `LossMoves`), and each choice of `tau` (`TauIs`) leaves what it
  promises (`LeftOfBounded`, `LeftOfSlack`, `LeftOfArow`).
- `PrecisionIsKept`: AROW divides each variance by a sum; what comes of it is that the
  inverse of a variance grows by the square of what its feature counted in the update,
  over `gamma`. With it variances stay positive, without which the
  quotients would mean nothing.

Its root of the error count is a table, of which `OnlineAssumption` says that
it is not negative.

`Lemmas` has what these need of `Fractions`. The operators take out common
divisors before they multiply, as arithmetic on the prover's side does not: that
`gcd` is a common divisor and a sum of multiples of its arguments is shown by
induction (`GcdIsGcd`), and that a number has one fraction in lowest terms by
the latter (`LowestMeans`). `Equals(x, n, d)` says what number a fraction stands for,
whatever was taken out; of each operator it is shown what its result stands for
(`PlusEquals`, `TimesEquals`, `LessEquals`), and the laws of arithmetic follow
(`PlusAssociates`, `Distributes`, `DividesBack`, `TimesMonotone`), and those of sums over
finitely many features (`SumOfPlus`, `SumOfTimes`, `SumOfSome`).

Induction. The library's induction theorems have the property as an operator
parameter, for which no prover here finds an instance. `Lemmas` states what is
needed with sets in its place: a set of numbers that is not empty has a least one
(from the well-foundedness of the inclusion of finite sets), so the numbers lie in
every set that has 0 and with a number the next (`SetInduction`); a fold over a
sequence is a function on the lengths of its first parts (`FoldExists`), and what a fold
gives is then shown of all first parts at once. `Ranks`, `SetAsSequence` and
`FlattenOfAll` are about sets listed in an order and lists of lists.

Assumptions of the theorems are those of the modules, which TLC evaluates on every run:
`OriginRunAssumption`, `TrainingAssumption` (binaries in one directory have one
toolchain, a count is not zero, extractions are numbered, a list has a binary),
`CanonicalAssumption` (two extractions that find one feature in a function count it
alike; a feature's string begins with its kind and size, so in the program no two
extractions find the same one), `GraphletsAssumption` (edges are finite and between
numbered blocks), `PySequenceAssumption`, `PyObjectsAssumption`, `TrainerAssumption`
(no group has the number -1, by which nothing is held out; groups are numbers of files in
the program; the parameters have the types of params.h), `TaggerApiAssumption` (a model
has a weight for each pair of labels and for each attribute and label, and no label
twice, which the quarks of the training see to; weights and values are integers),
`SearchAssumption` and
`OrthantwiseAssumption` (section 7; numbers are in lowest terms, as `Fractions` makes them),
`CrfFeaturesAssumption` and `OnlineAssumption` (labels and features are numbered,
options are in lowest terms and in the ranges of the parameters),
`SgdAssumption` (c2 and the rates of calibration are positive, the factor between
rates is above 1, all of them in lowest terms), and those of `FeatureAnalyzer`,
`IdiomFormat` and `Lbfgs`.

Only model-checked, and why:

- `AnalyzeReturns` and `TagReturns`: liveness under fairness is out of the prover's
  reach.
- `FeatureNamesItsPath`, `CountsAreOccurrences`, `TreeIsThreadedAvl` and `ImplementsRecordSet`:
  `Idioms` and `Rumavl` recurse over trees with RECURSIVE operators, with which the
  prover has no SMT backend.
- `CountedByLooks`: a bag of the library (`CopiesIn`) of which the prover has
  no definition, and orders of strings.
- `FileIsTheModelOrEmpty` and the database below it: they select parts
  of sequences (`SelectSeq`), a recursion that the prover does not expand.
- `LabelsInOrder`, `RankedByProbability`, `EvaluationCountsWhatIsPrinted`,
  `EncoderAnswersAreTrue`: they compose the lattice of `AnswersAreTrue` with a file that is
  read token by token, with the scaled weights of a training and with its gradients;
  not tried yet.

## 6. Disagreements between code and documentation

| run | statement | what the code does |
|---|---|---|
| `analyzer_loss` | `README.md:5`: "each function is attributed to a single toolchain" | `dequeue` returns NULL once `done` is set, also with records queued (`FeatureQueue.cpp:17`); their functions are in no file and get no toolchain |
| `origin_chain` | `Origin.py:103`: "we need to group adjacent functions together" | the chain has the order of the `.instances` lines, which is by size and by which thread was first |
| `graphlet_default_model` | `README.md` on the default model in `data/` | edge types are appended as characters by `edgeset::compact` (`graphlet.h:110`) and stand in decimal in `data/features.txt`: no graphlet with an edge is ever matched |
| `training_subdirectory` | `README.md:56`: "it is OK to have subdirectory after the opt-level directory" | files are named by the last path component: one of two binaries is trained twice |
| `learn_holdout` | `learn.c:202-205` on `-e` and `-x` | `lbfgs()` resumes from whatever checkpoint is there: a fold starts from weights that have seen its holdout data |

Others that were met and have no run of their own. Where the models contain them, the
properties are stated around them, and say so.

Extraction and scripts:

- `mkgraphlets` records a pair of neighbours more than once, against the comment at
  `supergraph.cpp:254`; `SubgraphsCounted` states what is counted.
- `chainLen` in TrainModel.py is never increased, so a chain is never cut.
- GenDataFiles.py reads the feature list of an earlier extraction when a later one
  died before writing its own (`GenDataFiles.py:95`).
- Origin.py's cache is keyed by the last component of `--binpath`.
- Origin.py prints what a crfsuite that died has left of its labels, with its last segment
  stretched over the functions that have none.
- A `.featlist` cut inside its last string is read like any other, by all scripts: the string that is left
  is taken for a feature.

Training:

- `train_lbfgs.c:140` keeps `best_w` "in case L-BFGS terminates with an error", but it
  is not in the checkpoint: a training that resumes and fails before its first
  report saves zeros. `InterruptedLearnsTheSame` states this case.
- With L1 regularization the pseudo-gradient is not in the checkpoint either, and a
  resumed training computes it only after its first line search.
- CUBIC_MINIMIZER2 takes `xmax` or `xmin` by the sign of `theta` (`lbfgs.c:1217`), where
  the comment at `lbfgs.c:1355-1359` has an end of the interval in the direction of the
  minimizer: in case 3 the next trial may be the end behind, and the search ends with a
  rounding error at its best step although it has the minimum bracketed.
  `IntervalHoldsTheMinimum` states that case.
- `lbfgs.h` documents return codes of More and Thuente's search that cannot come
  while the minimum is bracketed: the fallback sets `stp = stx`, and the next test
  returns the rounding error before the width or the number of trials is tested.
  The test for an increasing gradient lets a slope of zero through; `fx` is not
  put back when a search fails; backtracking compares a step with its bounds only
  after trying it.
- In `train_l2sgd.c` the comment "We don't test the stopping criterion while period <
  epoch" says the opposite of the condition below it.
- A training with no instances dereferences the labels, which are NULL (the model
  guards with `data.num > 0`).
- `crf1de_save_model` writes a header also on its error exit. `labelrefs` has room for
  two labels more than there are; `header.num_features` is never set; the flag of
  a cqdb header is written as it was found in memory.
- `crf1dm_new` compares neither magic, type, version nor size with the file: what a
  killed writer leaves opens as a model without labels (`FileIsTheModelOrEmpty`
  states just that). Of a file shorter than a header it reads 48 bytes of a block of 16
  bytes and the file's size, into which nothing but the file was read: a file that is empty,
  as it is from `fopen` to the first flush, may open as anything. The property
  excludes that file, and says that every other one is as long as a header.
- `holdout.c` frees neither its path nor its evaluation, and does not use
  `max_length`.

Tagging:

- A marginal after `viterbi` after a marginal (library users only) reads Viterbi's
  scores as forward scores, since `level` is not touched (`crf1d_tag.c:208`,
  `crfsuite.h:466-469`). `TaggerAnswersAreTrue` has the exact case as `overwritten`.
- `iwa.c:221` says that `iwa_read` returns NULL at the end of a file; behind a last
  field without line break it returns empty fields for ever. `TagReturns` is
  about files with complete last lines, which the scripts write.
- `crfsuite_evaluation_accmulate` stops at the first label it does not know, and its
  callers ignore its result: items before it are counted, the instance is not.
  The row for unknown labels and the comment on excluding them are without
  effect. Macro averages divide by all labels of the model.

Parameters, trees and interfaces:

- `rumavl.c` keeps directions in a `char` in `balance()`, which has to be signed. A
  deletion calls the deletion callback before it may run out of memory (nothing
  registers one), and `node_destroy` does not free the record.
- No method of `Trainer` tests whether a trainer was selected before it calls it, and
  `params()` does not release what it holds.
- Slices of the Python binding ignore the step (`x[::-1]` is empty, `x[::2]` is all of
  it), wrap a bound before the beginning twice and raise IndexError for
  `x[len:]`; a slice assigned from its own sequence is undefined. Slices have no
  class and no owner; `incr` and the like return a second proxy which does not
  own, and `+=` makes that an owner beside the first. Comparing a forward with a
  reverse iterator ends the interpreter. A list that cannot be converted leaves
  its half-filled vector.

## 7. Assumptions

- A child of Origin.py that is still running when Origin.py is killed is killed
  with it. Partial lines in stdio buffers are shown as the cut file they leave.
- The user gives the training scripts in their documented order.
- A block has an instruction (Dyninst's parser makes no other).
- Numbers are exact fractions and exponentials have base 2: what is checked are the
  formulas, the scaling and which rows they are applied to, not rounding;
  underflow (`sum == 0` in `crf1dc_alpha_score`) does not occur. Square roots are a
  constant function; the 0.66 of the line search is 2/3; the minimizers of its
  interpolations are any of two points inside of the interval, and an end where the code takes
  one.
- The arithmetic of a training is deterministic, which single-threaded code is;
  in `Lbfgs` the line searches are a function of what they are given and there is
  no L1 regularization (the scripts train without it; `Orthantwise` has it).
  In `LineSearch`, gtol is at least 1/2 and 6 times ftol and 1 is between `min_step` and `max_step`, as
  with the defaults (0.9 and 1e-4), which crfsuite does not change. The first bound keeps a slope that
  has not halved from being tested further, the second keeps the minimizer of case 4's
  cubic between the trial and the end ahead. Values lie above the tangent at step 0, as
  those of the convex objective of crfsuite do; for others case 4's cubic may have its
  minimizer elsewhere. No slope is zero there, for `lbfgs()` ends on a zero gradient
  before it searches. In `Orthantwise` the smooth part is
  a convex quadratic, ftol is not negative and first steps are positive. OWL-QN's test of `max_step` is
  left out, for its step only shrinks.
- In `Sgd` a gradient is any of a few numbers, so the order of instances (a shuffle)
  does not matter there.
- A full disk, I/O errors and failing allocations are not modelled, but for the
  tree's.
- `hashlittle` is a constant function with collisions.
- Dyninst's parsing is the constants of the extraction modules. The tables from
  opcodes to classes (`colors.cpp`) are constants.
- A parameter's text is the integer and the number that `atoi` and `atof` make of it, the
  latter printed with one digit behind the point.
- A vector grows as libstdc++'s does: to the double, or to what is needed.
- An iterator is used only as the C++ standard allows, and no wrapper is called with
  None in the place of an object.

## 8. Not modelled

- `export_wrap.cpp` is generated (SWIG 2.0.4) and has each wrapper once per element
  type. `PySequence` stands for the instantiation for attributes; those for items
  and strings have the same text with other type names. Functions that only read
  (`__len__`, `empty`, `capacity`) are left out, as is the runtime's own type table.
- FS.py's ranking formula (any ranking), command line parsing and help texts,
  logging, `crfsuite dump`, the figures' formatting, `-g` with its shuffle.
- Escapes in a field of a data file: the scripts write none.
- Wide-character and Windows variants, the examples, build files, the learned data,
  and code that nothing calls: `graph::merge`, `KeepFeatures` of GenDataFiles.py,
  operand features, files outside of the Makefile.
- Checkpoints that are replaced by a cut file when the disk is full (`lbfgs.c:765`),
  see the assumptions.

## 9. Plan

What is left, in this order:

1. Theorems: the marginals of `Encoder` and `Tagging` from the lattice of
   `LibraryProofs`, the
   probing of `Cqdb` (every string that was put is found), and, with recursive functions
   in the place of operators, `CountsAreOccurrences` of `Idioms`.
2. Abstract specifications: "a directory of finished extractions" above
   `OriginRun`, "one training, uninterrupted" above `Learn`, for which `LearnProofs` has
   the invariant.
3. The rest of `feature.cpp` and `lookup.cpp`: the cache that assigns numbers to idioms
   and the operand classes.
4. The other element types of the Python binding, if they come to differ.
