------------------------------ MODULE OriginRun ------------------------------
(***************************************************************************)
(* script/Origin.py: one run per binary over a working directory that      *)
(* outlives the runs. A run extracts the features that are not there yet   *)
(* with a child process (extractFeat) per feature type and size, reads the *)
(* files back, has crfsuite label the functions and prints the labels by   *)
(* segments. The child may die, and the run may be killed, at any point.   *)
(*                                                                         *)
(* The child is the feature extraction of FeatureAnalyzer, reduced to what *)
(* FeatureStream promises of it: it writes the lines of some functions, in *)
(* some order, and then the list of the features it gave an index.         *)
(***************************************************************************)
EXTENDS Naturals, Sequences, FiniteSets, SequencesExt

CONSTANTS
  Binaries,     (* the paths given to --binpath                            *)
  Name,         (* Name[b]: the last component of the path                 *)
  Extractions,  (* the feature types and sizes, in order: 1 is idiom 1     *)
  Text,         (* Text[b]: the addresses of the functions of b            *)
  Feat,         (* Feat[b][e][a]: the features of function a               *)
  Features,     (* the canonical feature strings                           *)
  Kept,         (* the ones in features.txt                                *)
  EndAddr,      (* EndAddr[b]: the end of the text section                 *)
  Labels,       (* the labels of toolchain-index.txt                       *)
  CutTo,        (* CutTo[l]: the labels that the digits of l begin with    *)
  CUT,          (* a line of a .featlist cut before its feature            *)
  BLANK,        (* the contents of an empty file                           *)
  NONE,         (* no file, nothing printed                                *)
  MaxRuns       (* bound: how often Origin.py is started                   *)

(* What a file holds; whole and of are history: whether it was closed, and *)
(* the binary it was made from.                                            *)
InstanceFile == [of : Binaries, whole : BOOLEAN, lines : Seq([addr : Nat, pairs : SUBSET (Nat \ {0})])]
FeatlistFile == [of : Binaries, whole : BOOLEAN, entries : Seq(Features \union {CUT})]

ASSUME OriginRunAssumption ==
  /\ Name \in [Binaries -> {Name[b] : b \in Binaries}]
  /\ Len(Extractions) \in Nat \ {0} /\ Kept \subseteq Features
  /\ \A b \in Binaries : Text[b] \in SUBSET Nat /\ EndAddr[b] \in Nat
  /\ \A b \in Binaries, e \in DOMAIN Extractions : Feat[b][e] \in [Text[b] -> SUBSET Features]
  /\ IsFiniteSet(Features) /\ MaxRuns \in Nat /\ CUT \notin Features
  /\ CutTo \in [Labels -> SUBSET Labels]
  /\ NONE \notin InstanceFile \union FeatlistFile

VARIABLES
  instances,    (* the .instances files, by name and extraction            *)
  featlist,     (* the .featlist files                                     *)
  range,        (* the .range files, by name                               *)
  pc,           (* where the run is                                        *)
  bin,          (* args.binpath                                            *)
  k,            (* the extraction the run is at                            *)
  child,        (* where the extractFeat of extraction k is                *)
  index,        (* the child's featureIndex: the features by index         *)
  addrList,     (* the addresses of idiom 1                                *)
  data,         (* the lines of the .data file                             *)
  endAddr,      (* the contents of the .range file                         *)
  printed,      (* what the last completed run printed                     *)
  runs          (* the number of runs started                              *)

files == <<instances, featlist, range>>
read  == <<addrList, data, endAddr>>
vars  == <<files, pc, bin, k, child, index, read, printed, runs>>

Names == { Name[b] : b \in Binaries }
NumExtractions == Len(Extractions)
n == Name[bin]

Init ==
  /\ instances = [m \in Names |-> [e \in 1..NumExtractions |-> NONE]]
  /\ featlist  = [m \in Names |-> [e \in 1..NumExtractions |-> NONE]]
  /\ range     = [m \in Names |-> NONE]
  /\ pc = "idle" /\ bin \in Binaries /\ k = 1 /\ child = "none" /\ index = <<>>
  /\ addrList = <<>> /\ data = <<>> /\ endAddr = NONE /\ printed = NONE /\ runs = 0

Start ==
  /\ pc = "idle" /\ runs < MaxRuns
  /\ pc' = "execute" /\ runs' = runs + 1
  /\ bin' \in Binaries /\ k' = 1 /\ child' = "none" /\ index' = <<>>
  /\ addrList' = <<>> /\ data' = <<>> /\ endAddr' = NONE
  /\ UNCHANGED <<files, printed>>

(* An exception ends the script.                                           *)
Abort == pc' = "idle" /\ UNCHANGED <<files, bin, k, child, index, read, printed, runs>>
-----------------------------------------------------------------------------
(* Execute: a .featlist of this name, type and size is taken for a         *)
(* finished extraction; else extractFeat is run and waited for, and its    *)
(* exit status is not looked at.                                           *)
ExecuteSkips ==
  /\ pc = "execute" /\ k <= NumExtractions /\ featlist[n][k] # NONE
  /\ k' = k + 1
  /\ UNCHANGED <<files, pc, bin, child, index, read, printed, runs>>

(* Mutant: the list is not looked for.                                     *)
ExecuteRunsAlways ==
  /\ pc = "execute" /\ k <= NumExtractions
  /\ pc' = "wait" /\ child' = "start" /\ index' = <<>>
  /\ UNCHANGED <<files, bin, k, read, printed, runs>>
ExecuteRuns ==
  /\ pc = "execute" /\ k <= NumExtractions /\ featlist[n][k] = NONE
  /\ pc' = "wait" /\ child' = "start" /\ index' = <<>>
  /\ UNCHANGED <<files, bin, k, read, printed, runs>>

ExecuteReturns == pc' = "execute" /\ k' = k + 1 /\ child' = "none"

AllExecuted ==
  /\ pc = "execute" /\ k > NumExtractions
  /\ pc' = "range"
  /\ UNCHANGED <<files, bin, k, child, index, read, printed, runs>>
-----------------------------------------------------------------------------
(* The child: Analyze opens .instances, whose lines Consume writes while   *)
(* it gives new features their index, and closes it; PrintFeatureList is   *)
(* called by Analyze and again by main.                                    *)
OpenInstances ==
  /\ child = "start" /\ child' = "lines"
  /\ instances' = [instances EXCEPT ![n][k] = [of |-> bin, lines |-> <<>>, whole |-> FALSE]]
  /\ UNCHANGED <<featlist, range, pc, bin, k, index, read, printed, runs>>

WrittenBy(file) == { file.lines[i].addr : i \in DOMAIN file.lines }

WriteLine(a) ==
  /\ child = "lines" /\ a \in Text[bin] \ WrittenBy(instances[n][k])
  /\ \E new \in SetToSeqs(Feat[bin][k][a] \ ToSet(index)) : index' = index \o new
  /\ instances' = [instances EXCEPT ![n][k].lines =
       Append(@, [addr |-> a, pairs |-> { i \in DOMAIN index' : index'[i] \in Feat[bin][k][a] }])]
  /\ UNCHANGED <<featlist, range, pc, bin, k, child, read, printed, runs>>

CloseInstances ==
  /\ child = "lines" /\ child' = "closed"
  /\ instances' = [instances EXCEPT ![n][k].whole = TRUE]
  /\ UNCHANGED <<featlist, range, pc, bin, k, index, read, printed, runs>>

(* Mutant: the list is printed before the instances are.                   *)
OpenFeatlistFirst ==
  /\ \/ child = "lines" /\ child' = "list"
     \/ child = "listed" /\ child' = "list again"
  /\ featlist' = [featlist EXCEPT ![n][k] = [of |-> bin, entries |-> <<>>, whole |-> FALSE]]
  /\ UNCHANGED <<instances, range, pc, bin, k, index, read, printed, runs>>

OpenFeatlist ==
  /\ \/ child = "closed" /\ child' = "list"
     \/ child = "listed" /\ child' = "list again"
  /\ featlist' = [featlist EXCEPT ![n][k] = [of |-> bin, entries |-> <<>>, whole |-> FALSE]]
  /\ UNCHANGED <<instances, range, pc, bin, k, index, read, printed, runs>>

(* A full stdio buffer goes to the file: the list up to somewhere, its     *)
(* last line perhaps cut, which may leave another feature or none.         *)
FlushFeatlist ==
  /\ child \in {"list", "list again"} /\ featlist[n][k].entries = <<>>
  /\ \E i \in DOMAIN index, last \in Features \union {CUT} :
       featlist' = [featlist EXCEPT ![n][k].entries = Append(SubSeq(index, 1, i - 1), last)]
  /\ UNCHANGED <<instances, range, pc, bin, k, child, index, read, printed, runs>>

CloseFeatlist ==
  /\ \/ child = "list" /\ child' = "listed" /\ UNCHANGED <<pc, k>>
     \/ child = "list again" /\ ExecuteReturns
  /\ featlist' = [featlist EXCEPT ![n][k] = [of |-> bin, entries |-> index, whole |-> TRUE]]
  /\ UNCHANGED <<instances, range, bin, index, read, printed, runs>>

(* extractFeat crashes or is killed: Origin.py goes on with the next one.  *)
ChildDies ==
  /\ child # "none" /\ ExecuteReturns
  /\ UNCHANGED <<files, bin, index, read, printed, runs>>
-----------------------------------------------------------------------------
(* GetEndAddress: a .range file of this name is read, else PrintCodeRange  *)
(* makes one; it is not there if extractFeat exits or dies before fopen,   *)
(* and empty if it dies after.                                             *)
ReadRange(file) == pc' = "generate" /\ endAddr' = file

RangeExists ==
  /\ pc = "range" /\ range[n] # NONE
  /\ ReadRange(range[n])
  /\ UNCHANGED <<files, bin, k, child, index, addrList, data, printed, runs>>

RangeOpened ==
  /\ pc = "range" /\ range[n] = NONE
  /\ range' = [range EXCEPT ![n] = BLANK] /\ pc' = "range open"
  /\ UNCHANGED <<instances, featlist, bin, k, child, index, read, printed, runs>>

RangeFails == pc = "range" /\ range[n] = NONE /\ Abort

RangeClosed ==
  /\ pc = "range open"
  /\ range' = [range EXCEPT ![n] = EndAddr[bin]]
  /\ ReadRange(EndAddr[bin])
  /\ UNCHANGED <<instances, featlist, bin, k, child, index, addrList, data, printed, runs>>

RangeDies ==
  /\ pc = "range open" /\ ReadRange(BLANK)
  /\ UNCHANGED <<files, bin, k, child, index, addrList, data, printed, runs>>
-----------------------------------------------------------------------------
(* GenerateCRFData: every extraction's two files are read (AddFeatures),   *)
(* then the addresses of idiom 1; a line of data per address.              *)
Decodable(e) ==
  /\ featlist[n][e] # NONE /\ instances[n][e] # NONE
  /\ CUT \notin ToSet(featlist[n][e].entries)
  /\ \A i \in DOMAIN instances[n][e].lines :
       instances[n][e].lines[i].pairs \subseteq DOMAIN featlist[n][e].entries

(* localFeatIndex and featureIndex applied to one line: its kept features. *)
KeptFeatures(e, l) == { featlist[n][e].entries[i] : i \in l.pairs } \intersect Kept

LinesOf(e) == ToSet(instances[n][e].lines)

(* Mutants: an address gets its entry with its first kept feature only;    *)
(* each extraction starts the entries of its addresses again.              *)
DataInstancesWithFeatures ==
  LET addrs == { l.addr : l \in UNION { { m \in LinesOf(e) : KeptFeatures(e, m) # {} } : e \in 1..NumExtractions } }
  IN [a \in addrs |->
        UNION UNION { { KeptFeatures(e, l) : l \in { m \in LinesOf(e) : m.addr = a } } : e \in 1..NumExtractions }]

DataInstancesStartedAgain ==
  LET addrs == { l.addr : l \in UNION { LinesOf(e) : e \in 1..NumExtractions } }
      last(a) == CHOOSE e \in 1..NumExtractions :
                   /\ a \in WrittenBy(instances[n][e])
                   /\ \A d \in (e + 1)..NumExtractions : a \notin WrittenBy(instances[n][d])
  IN [a \in addrs |-> UNION { KeptFeatures(last(a), l) : l \in { m \in LinesOf(last(a)) : m.addr = a } }]

DataInstances ==
  LET addrs == { l.addr : l \in UNION { LinesOf(e) : e \in 1..NumExtractions } }
  IN [a \in addrs |->
        UNION UNION { { KeptFeatures(e, l) : l \in { m \in LinesOf(e) : m.addr = a } } : e \in 1..NumExtractions }]

AllAddresses == [i \in DOMAIN instances[n][1].lines |-> instances[n][1].lines[i].addr]

(* The loop over the addresses of idiom 1.                                 *)
DataLines(addrs, instanceOf) ==
  FoldLeft(LAMBDA lines, a : IF a \in DOMAIN instanceOf
                             THEN Append(lines, [addr |-> a, feats |-> instanceOf[a]])
                             ELSE lines,
           <<>>, addrs)

GenerateCRFData ==
  /\ pc = "generate" /\ \A e \in 1..NumExtractions : Decodable(e)
  /\ data' = DataLines(AllAddresses, DataInstances)
  /\ addrList' = AllAddresses
  /\ pc' = "predict"
  /\ UNCHANGED <<files, bin, k, child, index, endAddr, printed, runs>>

(* A file is missing (IOError), an index is not in its list (KeyError) or  *)
(* a line has no feature (ValueError).                                     *)
GenerateFails == pc = "generate" /\ (\E e \in 1..NumExtractions : ~Decodable(e)) /\ Abort
-----------------------------------------------------------------------------
(* PrintPrediction's loop: a segment ends where the label changes.         *)
(* Mutant: at addrList[i] for addrList[i + 1].                             *)
SegmentsFromThisAddress(predict, addrs, end) ==
  LET l == Len(predict)
      step(s, i) ==
        IF predict[i] # predict[i + 1]
        THEN [segs |-> Append(s.segs, [label |-> predict[i], start |-> s.start,
                                       end |-> addrs[i], count |-> s.count]),
              start |-> addrs[i], count |-> s.count + 1]
        ELSE [s EXCEPT !.count = @ + 1]
      s == FoldLeft(step, [segs |-> <<>>, start |-> addrs[1], count |-> 1],
                    [i \in 1..(l - 1) |-> i])
  IN Append(s.segs, [label |-> predict[l], start |-> s.start, end |-> end, count |-> s.count])

Segments(predict, addrs, end) ==
  LET l == Len(predict)
      step(s, i) ==
        IF predict[i] # predict[i + 1]
        THEN [segs |-> Append(s.segs, [label |-> predict[i], start |-> s.start,
                                       end |-> addrs[i + 1], count |-> s.count]),
              start |-> addrs[i + 1], count |-> s.count + 1]
        ELSE [s EXCEPT !.count = @ + 1]
      s == FoldLeft(step, [segs |-> <<>>, start |-> addrs[1], count |-> 1],
                    [i \in 1..(l - 1) |-> i])
  IN Append(s.segs, [label |-> predict[l], start |-> s.start, end |-> end, count |-> s.count])

(* What ParseResults makes of the first l lines that crfsuite prints, the  *)
(* last of them perhaps cut in its digits.                                 *)
Parsed(tagged, l) ==
  { [tagged EXCEPT ![l] = last] : last \in {tagged[l]} \union CutTo[tagged[l]] }

(* Predict: crfsuite has a label for each line of data. Any labelling is   *)
(* possible; only the place of a label is of interest here. Neither its    *)
(* exit status nor the number of its labels is looked at: of a crfsuite    *)
(* that dies, those are printed that have left its buffer.                 *)
PredictAndPrint ==
  /\ pc = "predict" /\ data # <<>>
  /\ \E tagged \in [DOMAIN data -> Labels] : \E l \in DOMAIN data :
       \E predict \in Parsed(SubSeq(tagged, 1, l), l) :
         printed' = [bin |-> bin, addrs |-> addrList, data |-> data, tagged |-> tagged, labels |-> predict,
                     end |-> endAddr, segs |-> Segments(predict, addrList, endAddr),
                     files |-> [instances |-> instances[n], featlist |-> featlist[n]]]
  /\ pc' = "idle"
  /\ UNCHANGED <<files, bin, k, child, index, read, runs>>

(* There is nothing to label, or crfsuite fails before its first label has *)
(* left it (predict[l - 1], or addrList[0], raises IndexError), or dies in *)
(* the heading of the evaluation (int() raises ValueError).                *)
PredictFails == pc = "predict" /\ Abort

(* The run is killed, and its child with it.                               *)
Killed ==
  /\ pc # "idle" /\ pc' = "idle" /\ child' = "none"
  /\ UNCHANGED <<files, bin, k, index, read, printed, runs>>

(* No more runs.                                                           *)
Finished == pc = "idle" /\ runs = MaxRuns /\ UNCHANGED vars

ChildStep == \/ OpenInstances \/ (\E b \in Binaries : \E a \in Text[b] : WriteLine(a)) \/ CloseInstances
             \/ OpenFeatlist \/ FlushFeatlist \/ CloseFeatlist \/ ChildDies
RangeStep == RangeExists \/ RangeOpened \/ RangeFails \/ RangeClosed \/ RangeDies

Next == \/ Start \/ ExecuteSkips \/ ExecuteRuns \/ AllExecuted \/ ChildStep \/ RangeStep
        \/ GenerateCRFData \/ GenerateFails \/ PredictAndPrint \/ PredictFails
        \/ Killed \/ Finished

Spec == Init /\ [][Next]_vars
-----------------------------------------------------------------------------
(* The type invariant.                                                     *)
TypeOK ==
  /\ instances \in [Names -> [1..NumExtractions -> InstanceFile \union {NONE}]]
  /\ featlist \in [Names -> [1..NumExtractions -> FeatlistFile \union {NONE}]]
  /\ range \in [Names -> Nat \union {BLANK, NONE}]
  /\ pc \in {"idle", "execute", "wait", "range", "range open", "generate", "predict"}
  /\ bin \in Binaries /\ k \in 1..(NumExtractions + 1)
  /\ child \in {"none", "start", "lines", "closed", "list", "listed", "list again"}
  /\ (child # "none" <=> pc = "wait") /\ (pc = "wait" => k <= NumExtractions)
  /\ index \in Seq(Features) /\ addrList \in Seq(Nat)
  /\ endAddr \in Nat \union {BLANK, NONE} /\ runs \in 0..MaxRuns

(* The .featlist is the mark by which Execute knows a finished extraction: *)
(* wherever a child died or a run was killed, if it is there, all lines of *)
(* the .instances file beside it were written, from the same binary.       *)
MarkerMeansInstances ==
  \A m \in Names, e \in 1..NumExtractions :
    featlist[m][e] # NONE =>
      instances[m][e] # NONE /\ instances[m][e].whole /\ instances[m][e].of = featlist[m][e].of

(* Once an extraction has a .featlist, its .instances file is never        *)
(* written again, and its list only by the child that is printing it: what *)
(* one run has labelled by, the next one will.                             *)
CacheIsWrittenOnce ==
  [][ \A m \in Names, e \in 1..NumExtractions :
        featlist[m][e] # NONE =>
          /\ UNCHANGED instances[m][e]
          /\ \/ UNCHANGED featlist[m][e]
             \/ m = n /\ e = k /\ child \in {"list", "listed", "list again"} ]_vars

(* The features that extraction e of the files of a run has for address a. *)
ExtractedFeatures(f, e, a) ==
  IF a \in WrittenBy(f.instances[e]) THEN Feat[f.instances[e].of][e][a] \intersect Kept ELSE {}

(* What crfsuite is given for a function is what the extractions found,    *)
(* over all files, deaths and kills, if no list was cut short by one.      *)
WholeListsGiveExactVectors ==
  printed # NONE /\ (\A e \in 1..NumExtractions : printed.files.featlist[e].whole) =>
    \A i \in DOMAIN printed.data :
      printed.data[i].feats =
        UNION { ExtractedFeatures(printed.files, e, printed.data[i].addr) : e \in 1..NumExtractions }

(* The i-th label that crfsuite prints is the label of the i-th address:   *)
(* no function, not even one without features, is left out of the data.    *)
(* Of l labels that came out, l that of the last function unless crfsuite  *)
(* died, all but the last are the ones it gave; the last may be cut. The   *)
(* printed segments tile the first l functions: each starts where the one  *)
(* before it ends, neighbours differ, and by the counts (which run on from *)
(* segment to segment) each function lies in a segment of its label that   *)
(* starts at its run's first address. The last segment ends with the text  *)
(* section whatever l is: the count says where the labels ended, the range *)
(* does not.                                                               *)
LabelsBelongToAddresses ==
  printed # NONE =>
    LET s == printed.segs
        l == Len(printed.labels)
        first(j) == IF j = 1 THEN 1 ELSE s[j - 1].count + 1
    IN /\ l \in DOMAIN printed.addrs /\ Len(printed.tagged) = Len(printed.addrs)
       /\ \A i \in 1..(l - 1) : printed.labels[i] = printed.tagged[i]
       /\ printed.labels[l] \in {printed.tagged[l]} \union CutTo[printed.tagged[l]]
       /\ \A i \in DOMAIN printed.addrs : printed.data[i].addr = printed.addrs[i]
       /\ s[Len(s)].count = l /\ s[Len(s)].end = printed.end
       /\ \A j \in DOMAIN s :
            /\ first(j) <= s[j].count /\ s[j].start = printed.addrs[first(j)]
            /\ \A i \in first(j)..s[j].count : printed.labels[i] = s[j].label
       /\ \A j \in 1..(Len(s) - 1) : s[j].end = s[j + 1].start /\ s[j].label # s[j + 1].label

(* Origin.py: adjacent functions are grouped together to form the chain.   *)
ChainOfAdjacentFunctions ==
  printed # NONE => \A i, j \in DOMAIN printed.data : i < j => printed.data[i].addr < printed.data[j].addr
=============================================================================
