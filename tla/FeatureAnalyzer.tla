--------------------------- MODULE FeatureAnalyzer ---------------------------
(***************************************************************************)
(* The feature extraction of one binary, one feature type and one size:    *)
(* FeatureAnalyzer::Analyze with its consumer thread t1 (Consume), its     *)
(* producer thread t2 (Produce) and the OpenMP team that runs Produce's    *)
(* parallel loop, composed with the queue between them.                    *)
(*                                                                         *)
(* A function record (InstanceDataType) is identified by its function.     *)
(* What ProduceAFunction computes for f is the constant FeatPair[f]: it    *)
(* reads only f and writes only the record, which its worker owns.         *)
(***************************************************************************)
EXTENDS FeatureQueue, FiniteSets

CONSTANTS
  Functions,   (* co->funcs(), the functions ParseAPI found                *)
  Linkage,     (* the ones in co->cs()->linkage() (PLT stubs)              *)
  NumBlocks,   (* NumBlocks[f]: f->num_blocks()                            *)
  FeatPair,    (* FeatPair[f]: the record's map from features to counts    *)
  Features,    (* the canonical feature strings                            *)
  Workers,     (* the threads of the OpenMP team                           *)
  NULL         (* no record in hand                                        *)

ASSUME FeatureAnalyzerAssumption ==
  /\ IsFiniteSet(Functions) /\ Linkage \subseteq Functions
  /\ NumBlocks \in [Functions -> Nat]
  /\ \A f \in Functions :
       FeatPair[f] \in [DOMAIN FeatPair[f] -> Nat] /\ DOMAIN FeatPair[f] \subseteq Features
  /\ IsFiniteSet(Features) /\ IsFiniteSet(Workers) /\ Workers # {}
  /\ NULL \notin Functions

VARIABLES
  main,         (* where Analyze is                                        *)
  producer,     (* where t2 is                                             *)
  worker,       (* where each thread of the team is in the loop body       *)
  consumer,     (* where t1 is                                             *)
  fvec,         (* the sorted vector of Produce                            *)
  next,         (* the next loop index that schedule(dynamic) hands out    *)
  idt,          (* each worker's idt                                       *)
  item,         (* the consumer's it                                       *)
  todo,         (* the pairs of it->featPair the consumer has not printed  *)
  line,         (* the index:count pairs of the line being printed         *)
  featureIndex, (* the map from features to local indices                  *)
  instances,    (* <out>.instances: the lines, in file order               *)
  featlist,     (* <out>.featlist: the pairs of PrintFeatureList           *)
  enqueued      (* history: the functions in the order of their push       *)

loopVars    == <<fvec, next, idt>>
outputVars  == <<item, todo, line, featureIndex, instances>>
vars == <<queueVars, main, producer, worker, consumer, loopVars, outputVars,
          featlist, enqueued>>

t1 == "t1"

(* InTextSection: the functions that are not linkage stubs.                *)
TextFunctions == Functions \ Linkage

(* What the loop over co->funcs() and sort(..., FuncSort()) can leave in   *)
(* fvec: every text function once, never a smaller one before a larger;    *)
(* the order of equal ones is unspecified.                                 *)
SortedByBlocks ==
  { s \in [1..Cardinality(TextFunctions) -> TextFunctions] :
      /\ \A f \in TextFunctions : \E i \in DOMAIN s : s[i] = f
      /\ \A i, j \in DOMAIN s : i < j => s[i] # s[j] /\ NumBlocks[s[i]] >= NumBlocks[s[j]] }

Init ==
  /\ QueueInit
  /\ main = "spawn_t1" /\ producer = "unborn" /\ consumer = "unborn"
  /\ worker = [w \in Workers |-> "outside"]
  /\ fvec = <<>> /\ next = 1 /\ idt = [w \in Workers |-> NULL]
  /\ item = NULL /\ todo = {} /\ line = {}
  /\ featureIndex = <<>> /\ instances = <<>> /\ featlist = {}
  /\ enqueued = <<>>
-----------------------------------------------------------------------------
(* Analyze: both threads are started, t2 is joined, the queue is finished, *)
(* t1 is joined and the feature list is printed.                           *)
SpawnConsumer ==
  /\ main = "spawn_t1" /\ main' = "spawn_t2"
  /\ consumer' = "dequeue"
  /\ UNCHANGED <<queueVars, producer, worker, loopVars, outputVars, featlist, enqueued>>

SpawnProducer ==
  /\ main = "spawn_t2" /\ main' = "join_t2"
  /\ producer' = "collect"
  /\ UNCHANGED <<queueVars, worker, consumer, loopVars, outputVars, featlist, enqueued>>

(* Mutant: finish() is called without t2.join() before it.                 *)
JoinProducerTooEarly ==
  /\ main = "join_t2" /\ main' = "finish"
  /\ UNCHANGED <<queueVars, producer, worker, consumer, loopVars, outputVars, featlist, enqueued>>

JoinProducer ==
  /\ main = "join_t2" /\ producer = "exited" /\ main' = "finish"
  /\ UNCHANGED <<queueVars, producer, worker, consumer, loopVars, outputVars, featlist, enqueued>>

FinishSetDone ==
  /\ main = "finish" /\ main' = "finish_notify"
  /\ SetDone
  /\ UNCHANGED <<producer, worker, consumer, loopVars, outputVars, featlist, enqueued>>

(* Mutant: finish() without its notify_all.                                *)
FinishWithoutNotify ==
  /\ main = "finish_notify" /\ main' = "join_t1"
  /\ UNCHANGED <<queueVars, producer, worker, consumer, loopVars, outputVars, featlist, enqueued>>

FinishNotify ==
  /\ main = "finish_notify" /\ main' = "join_t1"
  /\ NotifyAll
  /\ UNCHANGED <<producer, worker, consumer, loopVars, outputVars, featlist, enqueued>>

(* Mutant: the list is numbered from 0, the lines from 1.                  *)
PrintFeatureListFromZero ==
  /\ main = "join_t1" /\ consumer = "exited" /\ main' = "exited"
  /\ featlist' = { <<featureIndex[f] - 1, f>> : f \in DOMAIN featureIndex }
  /\ UNCHANGED <<queueVars, producer, worker, consumer, loopVars, outputVars, enqueued>>

JoinConsumerAndPrintFeatureList ==
  /\ main = "join_t1" /\ consumer = "exited" /\ main' = "exited"
  /\ featlist' = { <<featureIndex[f], f>> : f \in DOMAIN featureIndex }
  /\ UNCHANGED <<queueVars, producer, worker, consumer, loopVars, outputVars, enqueued>>
-----------------------------------------------------------------------------
(* Produce: collect and sort the functions, fork the team, run the loop,   *)
(* leave at the loop's implicit barrier.                                   *)
Collect ==
  /\ producer = "collect" /\ producer' = "parallel"
  /\ fvec' \in SortedByBlocks
  /\ worker' = [w \in Workers |-> "claim"]
  /\ UNCHANGED <<queueVars, main, consumer, next, idt, outputVars, featlist, enqueued>>

Claim(w) ==
  /\ worker[w] = "claim" /\ next <= Len(fvec)
  /\ idt' = [idt EXCEPT ![w] = fvec[next]]
  /\ next' = next + 1
  /\ worker' = [worker EXCEPT ![w] = "push"]
  /\ UNCHANGED <<queueVars, main, producer, consumer, fvec, outputVars, featlist, enqueued>>

EnqueuePush(w) ==
  /\ worker[w] = "push"
  /\ Push(idt[w])
  /\ enqueued' = Append(enqueued, idt[w])
  /\ idt' = [idt EXCEPT ![w] = NULL]
  /\ worker' = [worker EXCEPT ![w] = "notify"]
  /\ UNCHANGED <<main, producer, consumer, fvec, next, outputVars, featlist>>

(* Mutant: enqueue without its notify_all.                                 *)
EnqueueWithoutNotify(w) ==
  /\ worker[w] = "notify"
  /\ worker' = [worker EXCEPT ![w] = "claim"]
  /\ UNCHANGED <<queueVars, main, producer, consumer, loopVars, outputVars, featlist, enqueued>>

EnqueueNotify(w) ==
  /\ worker[w] = "notify"
  /\ NotifyAll
  /\ worker' = [worker EXCEPT ![w] = "claim"]
  /\ UNCHANGED <<main, producer, consumer, loopVars, outputVars, featlist, enqueued>>

NoneLeft(w) ==
  /\ worker[w] = "claim" /\ next > Len(fvec)
  /\ worker' = [worker EXCEPT ![w] = "barrier"]
  /\ UNCHANGED <<queueVars, main, producer, consumer, loopVars, outputVars, featlist, enqueued>>

Barrier ==
  /\ producer = "parallel" /\ \A w \in Workers : worker[w] = "barrier"
  /\ producer' = "exited"
  /\ UNCHANGED <<queueVars, main, worker, consumer, loopVars, outputVars, featlist, enqueued>>
-----------------------------------------------------------------------------
(* Consume: dequeue a record, print its pairs in the map's order (which is *)
(* unspecified), end the line, until dequeue returns NULL.                 *)
ConsumerWaits ==
  /\ consumer = "dequeue" /\ DequeueWait(t1)
  /\ UNCHANGED <<main, producer, worker, consumer, loopVars, outputVars, featlist, enqueued>>

ConsumerWakesSpuriously ==
  /\ SpuriousWakeup(t1)
  /\ UNCHANGED <<main, producer, worker, consumer, loopVars, outputVars, featlist, enqueued>>

ConsumerTakes ==
  /\ consumer = "dequeue" /\ DequeueItem(t1)
  /\ consumer' = "print"
  /\ item' = Head(q) /\ todo' = DOMAIN FeatPair[Head(q)] /\ line' = {}
  /\ UNCHANGED <<main, producer, worker, loopVars, featureIndex, instances, featlist, enqueued>>

ConsumerStops ==
  /\ consumer = "dequeue" /\ DequeueNull(t1)
  /\ consumer' = "exited"
  /\ UNCHANGED <<main, producer, worker, loopVars, outputVars, featlist, enqueued>>

(* Mutants: the test for a known feature is dropped; indices start at 0.   *)
GetFeatureIndexAlwaysNew(feat) ==
  [f \in DOMAIN featureIndex \union {feat} |->
     IF f = feat THEN Cardinality(DOMAIN featureIndex) + 1 ELSE featureIndex[f]]
GetFeatureIndexFromZero(feat) ==
  IF feat \in DOMAIN featureIndex
  THEN featureIndex
  ELSE [f \in DOMAIN featureIndex \union {feat} |->
          IF f = feat THEN Cardinality(DOMAIN featureIndex) ELSE featureIndex[f]]

(* GetFeatureIndex: the map after feat was looked up.                      *)
GetFeatureIndex(feat) ==
  IF feat \in DOMAIN featureIndex
  THEN featureIndex
  ELSE [f \in DOMAIN featureIndex \union {feat} |->
          IF f = feat THEN Cardinality(DOMAIN featureIndex) + 1 ELSE featureIndex[f]]

PrintPair(feat) ==
  /\ consumer = "print" /\ feat \in todo
  /\ todo' = todo \ {feat}
  /\ featureIndex' = GetFeatureIndex(feat)
  /\ line' = line \union {<<featureIndex'[feat], FeatPair[item][feat]>>}
  /\ UNCHANGED <<queueVars, main, producer, worker, consumer, loopVars, item, instances,
                 featlist, enqueued>>

EndLine ==
  /\ consumer = "print" /\ todo = {}
  /\ instances' = Append(instances, [addr |-> item, pairs |-> line])
  /\ item' = NULL /\ line' = {}
  /\ consumer' = "dequeue"
  /\ UNCHANGED <<queueVars, main, producer, worker, loopVars, todo, featureIndex, featlist,
                 enqueued>>
-----------------------------------------------------------------------------
(* The process ends when Analyze has returned: it then stutters.           *)
Exited == main = "exited" /\ UNCHANGED vars

MainStep == \/ SpawnConsumer \/ SpawnProducer \/ JoinProducer \/ FinishSetDone
            \/ FinishNotify \/ JoinConsumerAndPrintFeatureList
ProducerStep == Collect \/ Barrier
WorkerStep(w) == Claim(w) \/ EnqueuePush(w) \/ EnqueueNotify(w) \/ NoneLeft(w)
ConsumerStep == \/ ConsumerWaits \/ ConsumerTakes \/ ConsumerStops
                \/ (\E feat \in Features : PrintPair(feat)) \/ EndLine

Next == \/ MainStep \/ ProducerStep \/ (\E w \in Workers : WorkerStep(w))
        \/ ConsumerStep \/ ConsumerWakesSpuriously \/ Exited

Spec == Init /\ [][Next]_vars

(* Every thread keeps running while it can: the threads are the operating  *)
(* system's, and the mutex is only held inside the atomic actions.         *)
FairSpec ==
  /\ Spec
  /\ WF_vars(MainStep) /\ WF_vars(ProducerStep) /\ WF_vars(ConsumerStep)
  /\ \A w \in Workers : WF_vars(WorkerStep(w))
-----------------------------------------------------------------------------
(* A line of .instances.                                                   *)
InstanceLine == [addr : TextFunctions, pairs : SUBSET (Nat \X Nat)]

(* The type invariant.                                                     *)
TypeOK ==
  /\ q \in Seq(TextFunctions) /\ done \in BOOLEAN /\ waiters \subseteq {t1}
  /\ main \in {"spawn_t1", "spawn_t2", "join_t2", "finish", "finish_notify", "join_t1", "exited"}
  /\ producer \in {"unborn", "collect", "parallel", "exited"}
  /\ worker \in [Workers -> {"outside", "claim", "push", "notify", "barrier"}]
  /\ consumer \in {"unborn", "dequeue", "print", "exited"}
  /\ fvec \in Seq(TextFunctions) /\ next \in Nat \ {0}
  /\ idt \in [Workers -> TextFunctions \union {NULL}]
  /\ item \in TextFunctions \union {NULL}
  /\ todo \subseteq Features /\ line \subseteq (Nat \X Nat)
  /\ featureIndex \in [DOMAIN featureIndex -> Nat \ {0}] /\ DOMAIN featureIndex \subseteq Features
  /\ instances \in Seq(InstanceLine)
  /\ featlist \subseteq (Nat \X Features)
  /\ enqueued \in Seq(TextFunctions)

InQueue == { q[i] : i \in DOMAIN q }
Written == { instances[i].addr : i \in DOMAIN instances }
Unclaimed == { fvec[i] : i \in next..Len(fvec) }

(* How many of the places a record can be in hold f: the part of fvec not  *)
(* handed out, the workers' hands, the queue (per position), the           *)
(* consumer's hand, the file (per line).                                   *)
Holders(f) ==
  Cardinality({ i \in DOMAIN fvec : i >= next /\ fvec[i] = f })
  + Cardinality({ w \in Workers : idt[w] = f })
  + Cardinality({ i \in DOMAIN q : q[i] = f })
  + (IF item = f THEN 1 ELSE 0)
  + Cardinality({ i \in DOMAIN instances : instances[i].addr = f })

(* Once Produce has collected them, every text function is in exactly one  *)
(* place, and a linkage stub is in none: no record is handed to two        *)
(* threads, enqueued, freed or written twice, or dropped on its way        *)
(* between the loop, the queue, the consumer and the file.                 *)
OneRecordPerFunction ==
  producer \in {"parallel", "exited"} =>
    \A f \in Functions : Holders(f) = IF f \in TextFunctions THEN 1 ELSE 0

(* A consumer blocked in cv.wait while the queue is non-empty or finished  *)
(* is about to be notified: no wakeup is lost between the test of the loop *)
(* and the wait, though the notify_all calls run without the lock.         *)
NoLostWakeup ==
  (waiters # {} /\ (q # <<>> \/ done)) =>
    \/ \E w \in Workers : worker[w] = "notify"
    \/ main = "finish_notify"

(* The features and counts that a line stands for under a feature list:    *)
(* what GenDataFiles.py and Origin.py read back (localFeatIndex).          *)
Decode(list, pairs) ==
  { <<x[1][2], x[2][2]>> : x \in { y \in list \X pairs : y[1][1] = y[2][1] } }

(* The two files of an extraction agree: decoded with the feature list     *)
(* that is printed at the end, each line of .instances gives back exactly  *)
(* the features and counts of its function, though the indices were given  *)
(* out one by one while the lines were being printed.                      *)
LinesDecode ==
  main = "exited" =>
    \A i \in DOMAIN instances :
      LET fp == FeatPair[instances[i].addr] IN
      Decode(featlist, instances[i].pairs) = { <<g, fp[g]>> : g \in DOMAIN fp }

(* A number printed in a line never comes to mean another feature: an      *)
(* index, once given out, is not reassigned while later lines add          *)
(* features, and no two features share one.                                *)
IndexNeverReassigned ==
  [][ /\ \A g \in DOMAIN featureIndex :
           g \in DOMAIN featureIndex' /\ featureIndex'[g] = featureIndex[g]
      /\ \A g, h \in DOMAIN featureIndex' :
           featureIndex'[g] = featureIndex'[h] => g = h ]_featureIndex

(* The lines of .instances are in the order in which the records were      *)
(* enqueued, and the queue is closed after the last one: the extraction    *)
(* implements the stream.                                                  *)
WrittenSeq == [i \in DOMAIN instances |-> instances[i].addr]
Phase == CASE ~done -> "open"
           [] done /\ consumer # "exited" -> "closed"
           [] done /\ consumer = "exited" -> "ended"

Stream == INSTANCE FeatureStream WITH
            Wanted <- TextFunctions, sent <- enqueued, written <- WrittenSeq, phase <- Phase

ImplementsStream == Stream!StreamSpec

(* Analyze returns: no thread waits for ever, neither the consumer on the  *)
(* condition variable nor a join on a thread that never ends.              *)
AnalyzeReturns == <>(main = "exited")

(* README.md: every function is attributed to a toolchain; its features    *)
(* are to be in the files of each finished extraction.                     *)
EveryFunctionExtracted == main = "exited" => Written = TextFunctions
=============================================================================
