------------------------------- MODULE Training -------------------------------
(***************************************************************************)
(* The training scripts of script/: FeatGen.py extracts the features of    *)
(* the binaries of a file list, GenDataFiles.py indexes them over all      *)
(* binaries and writes a data file for each, FS.py selects features, and   *)
(* TrainModel.py writes what crfsuite learns from. A feature goes through  *)
(* four numberings on its way: of one extraction, of all data, of the      *)
(* selected ones, and Origin.py's when a binary is identified.             *)
(*                                                                         *)
(* The user runs the scripts in this order and runs one again that failed  *)
(* or was killed, or starts over with another file list.                   *)
(***************************************************************************)
EXTENDS Naturals, Sequences, FiniteSets, SequencesExt, TLC

CONSTANTS
  Binaries,     (* the paths that may be in a file list                    *)
  Dir,          (* Dir[b]: project, compiler, version and opt-level of b   *)
  Toolchain,    (* Toolchain[b]: the last three of them                    *)
  Name,         (* Name[b]: the last component of the path                 *)
  Extractions,  (* 1..n, the feature types and sizes; 1 is idiom 1         *)
  Text,         (* Text[b]: the addresses of the functions of b            *)
  CutTo,        (* CutTo[a]: the addresses that the digits of a begin with *)
  Feat,         (* Feat[b][e][a]: the features of function a, with counts  *)
  Features,     (* the canonical feature strings, and what is left of them *)
  FileLists,    (* the file lists, sequences of binaries                   *)
  Keep,         (* --keep of FS.py                                         *)
  CUT,          (* a line cut where the scripts cannot read it             *)
  NONE,         (* no file                                                 *)
  MaxRounds,    (* bound: how often FeatGen.py is started                  *)
  MaxDeaths     (* bound: how many extractions die or lose records         *)

ASSUME TrainingAssumption ==
  /\ \A b, c \in Binaries : Dir[b] = Dir[c] => Toolchain[b] = Toolchain[c]
  /\ \A b \in Binaries, e \in Extractions : DOMAIN Feat[b][e] = Text[b]
  /\ \A b \in Binaries, e \in Extractions : \A a \in Text[b] : \A f \in DOMAIN Feat[b][e][a] :
       f \in Features /\ Feat[b][e][a][f] \in Nat \ {0}
  /\ FileLists \subseteq Seq(Binaries) \ {<<>>}
  /\ Cardinality(Extractions) \in Nat \ {0} /\ Extractions = 1..Cardinality(Extractions)
  /\ IsFiniteSet(Features) /\ \A b \in Binaries : IsFiniteSet(Text[b])
  /\ Keep \in Nat /\ MaxRounds \in Nat /\ MaxDeaths \in Nat /\ CUT \notin Features

(* A canonical string is of one type and size ("G_" of a graphlet, the     *)
(* terms of an idiom); a size that is given twice is extracted twice.      *)
ASSUME CanonicalAssumption ==
  \A b \in Binaries, d, e \in Extractions : \A a \in Text[b] :
    \A f \in DOMAIN Feat[b][d][a] \intersect DOMAIN Feat[b][e][a] : Feat[b][d][a][f] = Feat[b][e][a][f]

VARIABLES
  extracted,    (* the .instances and .featlist files                      *)
  toolchains,   (* toolchain-index.txt                                     *)
  featList,     (* feat_list.txt                                           *)
  data,         (* the .data files, with the addresses of the .map files   *)
  features,     (* features.txt                                            *)
  train,        (* tmp.crf.train.txt: the lines of each chain              *)
  pc,           (* where the running script is                             *)
  filelist,     (* --filelist                                              *)
  at, k,        (* the running script's file and extraction                *)
  globalFeat,   (* GenDataFiles.py's featList, which numbers featIndex     *)
  done,         (* how many of the scripts completed in this round         *)
  rounds, deaths

files == <<extracted, toolchains, featList, data, features, train>>
vars  == <<files, pc, filelist, at, k, globalFeat, done, rounds, deaths>>

Path(b) == <<Dir[b], Name[b]>>
Paths == { Path(b) : b \in Binaries }
bin == filelist[at]
Here == extracted[Path(bin)]
NumExtractions == Cardinality(Extractions)

Init ==
  /\ extracted = [p \in Paths |-> [e \in Extractions |-> [instances |-> NONE, featlist |-> NONE]]]
  /\ toolchains = NONE /\ featList = NONE /\ data = [p \in Paths |-> NONE]
  /\ features = NONE /\ train = NONE
  /\ pc = "user" /\ filelist \in FileLists /\ at = 1 /\ k = 1 /\ globalFeat = <<>>
  /\ done = 0 /\ rounds = 0 /\ deaths = 0

(* A script begins, goes on to its next file, and returns to the user.     *)
Begin(label) == pc' = label /\ at' = 1 /\ k' = 1 /\ globalFeat' = <<>>
Goto(label) == pc' = label /\ at' = 1 /\ k' = 1
Complete(n) == pc' = "user" /\ done' = n /\ at' = 1 /\ k' = 1
NextExtraction == IF k < NumExtractions THEN at' = at /\ k' = k + 1 ELSE at' = at + 1 /\ k' = 1

StartFeatGen ==
  /\ pc = "user" /\ rounds < MaxRounds
  /\ rounds' = rounds + 1 /\ done' = 0 /\ filelist' \in FileLists /\ Begin("extract")
  /\ UNCHANGED <<files, deaths>>

StartNextScript ==
  /\ pc = "user" /\ done \in 1..3
  /\ Begin(CASE done = 1 -> "toolchains" [] done = 2 -> "select" [] done = 3 -> "train")
  /\ UNCHANGED <<files, filelist, done, rounds, deaths>>

(* The script is killed, or ends by an exception.                          *)
Killed ==
  /\ pc # "user" /\ pc' = "user"
  /\ UNCHANGED <<files, filelist, at, k, globalFeat, done, rounds, deaths>>
-----------------------------------------------------------------------------
(* Execute of FeatGen.py, which runs extractFeat on one binary for one     *)
(* type and size, whatever files there are: `addrs' are the functions in   *)
(* the order their lines are written, `index' the features in the order    *)
(* they are given an index, first come, first served.                      *)
FeaturesOf(addrs, n) == UNION { DOMAIN Feat[bin][k][addrs[i]] : i \in 1..n }

Indexings(addrs) ==
  { index \in SetToSeqs(FeaturesOf(addrs, Len(addrs))) :
      \A n \in DOMAIN addrs : \E m \in 0..Len(index) : { index[i] : i \in 1..m } = FeaturesOf(addrs, n) }

Line(a, index) ==
  [addr |-> a, pairs |-> [i \in { j \in DOMAIN index : index[j] \in DOMAIN Feat[bin][k][a] } |->
                            Feat[bin][k][a][index[i]]]]

Lines(addrs, index) == [i \in DOMAIN addrs |-> Line(addrs[i], index)]

(* Files are marked, for the properties, with the extraction they are by,  *)
(* and a list with whether it was closed.                                  *)
By == [bin |-> bin, round |-> rounds, at |-> at]
Instances(lines) == [by |-> By, lines |-> lines]
Featlist(entries, whole) == [by |-> By, entries |-> entries, whole |-> whole]

Write(f) == extracted' = [extracted EXCEPT ![Path(bin)][k] = f]

(* It ends with every record written, or with some lost in the queue.      *)
ExtractEnds ==
  /\ pc = "extract" /\ at <= Len(filelist)
  /\ \E some \in SUBSET Text[bin] : \E addrs \in SetToSeqs(some) : \E index \in Indexings(addrs) :
       /\ Write([instances |-> Instances(Lines(addrs, index)), featlist |-> Featlist(index, TRUE)])
       /\ \/ some = Text[bin] /\ UNCHANGED deaths
          \/ some # Text[bin] /\ deaths < MaxDeaths /\ deaths' = deaths + 1
  /\ NextExtraction
  /\ UNCHANGED <<toolchains, featList, data, features, train, pc, filelist, globalFeat, done, rounds>>

(* What a stdio buffer that did not get to the file leaves of the last     *)
(* line: of .instances the address up to some digit, or some pairs, one    *)
(* with its count up to some digit; of .featlist another string, for       *)
(* line[:-1] takes the last character. Either may be cut where it cannot   *)
(* be read.                                                                *)
CutLine(l) ==
  { [addr |-> a, pairs |-> <<>>] : a \in CutTo[l.addr] \union {CUT} } \union
  UNION { { [addr |-> l.addr, pairs |-> [i \in some |-> IF i = j THEN c ELSE l.pairs[i]]] : c \in 1..l.pairs[j] } :
          some \in SUBSET DOMAIN l.pairs, j \in DOMAIN l.pairs }

CutLines(lines) ==
  IF lines = <<>> THEN {} ELSE { [lines EXCEPT ![Len(lines)] = l] : l \in CutLine(Last(lines)) }

CutLists(index) ==
  {<<>>} \union { Append(SubSeq(index, 1, i - 1), last) : i \in DOMAIN index, last \in Features \union {CUT} }

(* It dies: before it opens .instances, before it opens .featlist, or with *)
(* the list open. FeatGen.py does not look at its exit status.             *)
ExtractDies ==
  /\ pc = "extract" /\ at <= Len(filelist) /\ deaths < MaxDeaths
  /\ \/ UNCHANGED extracted
     \/ \E some \in SUBSET Text[bin] : \E addrs \in SetToSeqs(some) : \E index \in Indexings(addrs) :
          \E lines \in {Lines(addrs, index)} \union CutLines(Lines(addrs, index)) :
            Write([instances |-> Instances(lines), featlist |-> Here[k].featlist])
     \/ \E some \in SUBSET Text[bin] : \E addrs \in SetToSeqs(some) : \E index \in Indexings(addrs) :
          \E entries \in CutLists(index) :
            Write([instances |-> Instances(Lines(addrs, index)), featlist |-> Featlist(entries, FALSE)])
  /\ deaths' = deaths + 1
  /\ NextExtraction
  /\ UNCHANGED <<toolchains, featList, data, features, train, pc, filelist, globalFeat, done, rounds>>

ExtractedAll ==
  /\ pc = "extract" /\ at > Len(filelist) /\ Complete(1)
  /\ UNCHANGED <<files, filelist, globalFeat, rounds, deaths>>
-----------------------------------------------------------------------------
(* Numbering by first appearance, of toolchains and of features.           *)
FirstAppearances(s) ==
  LET first == { i \in DOMAIN s : \A j \in 1..(i - 1) : s[j] # s[i] }
  IN [n \in 1..Cardinality(first) |->
        s[CHOOSE i \in first : Cardinality({ j \in first : j <= i }) = n]]

ToolchainIndexMap == FirstAppearances([i \in DOMAIN filelist |-> Toolchain[filelist[i]]])

(* Mutant: the file is written in another order.                           *)
BuildToolchainIndexMapByName ==
  /\ pc = "toolchains" /\ toolchains' = Reverse(ToolchainIndexMap) /\ Goto("count")
  /\ UNCHANGED <<extracted, featList, data, features, train, filelist, globalFeat, done, rounds, deaths>>

BuildToolchainIndexMap ==
  /\ pc = "toolchains" /\ toolchains' = ToolchainIndexMap /\ Goto("count")
  /\ UNCHANGED <<extracted, featList, data, features, train, filelist, globalFeat, done, rounds, deaths>>

(* A line that cannot be split, or an index that the list does not have,   *)
(* raises; a file that is missing is only reported here.                   *)
Missing(f) == f.featlist = NONE \/ f.instances = NONE

Decodable(f) ==
  /\ CUT \notin ToSet(f.featlist.entries)
  /\ \A i \in DOMAIN f.instances.lines :
       /\ f.instances.lines[i].addr # CUT
       /\ DOMAIN f.instances.lines[i].pairs \subseteq DOMAIN f.featlist.entries

(* CountFeatures for one file and size: new features get the next index    *)
(* (those of one line in any order: it is of no consequence).              *)
(* Mutant: only the first size is indexed.                                 *)
CountFeaturesOfFirstSize ==
  /\ pc = "count" /\ at <= Len(filelist)
  /\ \/ (Missing(Here[k]) \/ k > 1) /\ UNCHANGED globalFeat
     \/ /\ ~Missing(Here[k]) /\ Decodable(Here[k]) /\ k = 1
        /\ LET fresh(l) == { Here[k].featlist.entries[i] : i \in DOMAIN l.pairs }
           IN globalFeat' = FirstAppearances(globalFeat \o
                FlattenSeq([i \in DOMAIN Here[k].instances.lines |-> SetToSeq(fresh(Here[k].instances.lines[i]))]))
  /\ NextExtraction
  /\ UNCHANGED <<files, pc, filelist, done, rounds, deaths>>

CountFeatures ==
  /\ pc = "count" /\ at <= Len(filelist)
  /\ \/ Missing(Here[k]) /\ UNCHANGED globalFeat
     \/ /\ ~Missing(Here[k]) /\ Decodable(Here[k])
        /\ LET fresh(l) == { Here[k].featlist.entries[i] : i \in DOMAIN l.pairs }
           IN globalFeat' = FirstAppearances(globalFeat \o
                FlattenSeq([i \in DOMAIN Here[k].instances.lines |-> SetToSeq(fresh(Here[k].instances.lines[i]))]))
  /\ NextExtraction
  /\ UNCHANGED <<files, pc, filelist, done, rounds, deaths>>

BuildGlobalFeatureIndex ==
  /\ pc = "count" /\ at > Len(filelist) /\ featList' = globalFeat /\ Goto("data")
  /\ UNCHANGED <<extracted, toolchains, data, features, train, filelist, globalFeat, done, rounds, deaths>>

IndexIn(s, x) == CHOOSE i \in DOMAIN s : s[i] = x

(* What the files f of an extraction say of address a, by canonical        *)
(* feature: localFeatIndex applied to its line.                            *)
Decoded(f, a) ==
  UNION { { <<f.featlist.entries[i], l.pairs[i]>> : i \in DOMAIN l.pairs } :
          l \in { m \in ToSet(f.instances.lines) : m.addr = a } }

(* Equal features that are next to each other after the sort are written   *)
(* once, with the smallest count.                                          *)
Deduped(pairs) == { p \in pairs : \A q \in pairs : q[1] = p[1] => p[2] <= q[2] }

AllAddresses == [i \in DOMAIN Here[1].instances.lines |-> Here[1].instances.lines[i].addr]

(* AddFeatures for all sizes, then the line of each address of idiom 1.    *)
(* Mutant: the index of the extraction is kept.                            *)
DataLineLocal(a) ==
  LET pairs == UNION { { <<IndexIn(Here[e].featlist.entries, p[1]), p[2]>> : p \in Decoded(Here[e], a) } :
                       e \in Extractions }
  IN [addr |-> a, label |-> IndexIn(ToolchainIndexMap, Toolchain[bin]), pairs |-> Deduped(pairs)]

DataLine(a) ==
  LET pairs == UNION { { <<IndexIn(globalFeat, p[1]), p[2]>> : p \in { q \in Decoded(Here[e], a) : q[1] \in ToSet(globalFeat) } } :
                       e \in Extractions }
  IN [addr |-> a, label |-> IndexIn(ToolchainIndexMap, Toolchain[bin]), pairs |-> Deduped(pairs)]

GenerateCRFData ==
  /\ pc = "data" /\ at <= Len(filelist)
  /\ \A e \in Extractions : ~Missing(Here[e]) /\ Decodable(Here[e])
  /\ data' = [data EXCEPT ![Path(bin)] = [i \in DOMAIN AllAddresses |-> DataLine(AllAddresses[i])]]
  /\ at' = at + 1
  /\ UNCHANGED <<extracted, toolchains, featList, features, train, pc, filelist, k, globalFeat, done, rounds, deaths>>

GeneratedAll ==
  /\ pc = "data" /\ at > Len(filelist) /\ Complete(2)
  /\ UNCHANGED <<files, filelist, globalFeat, rounds, deaths>>
-----------------------------------------------------------------------------
DataLines == UNION { ToSet(data[Path(b)]) : b \in ToSet(filelist) }
Occurring == UNION { { p[1] : p \in l.pairs } : l \in DataLines }
Counts(f) == UNION { { p[2] : p \in { q \in l.pairs : q[1] = f } } : l \in DataLines }
LargestCount(f) == CHOOSE c \in Counts(f) : \A d \in Counts(f) : d <= c

(* ScaleFeatures of FS.py, on the same data files as KeepFeatures of       *)
(* TrainModel.py.                                                          *)
FeatureScale(f) == LargestCount(f)

(* FS.py: the mutual information of features and labels is abstracted to   *)
(* any ranking. It is a KeyError if a label has no feature at all, and an  *)
(* IndexError if there are fewer than Keep.                                *)
SelectFeatures ==
  /\ pc = "select"
  /\ \A l \in DataLines : \E m \in DataLines : m.label = l.label /\ m.pairs # {}
  /\ \E choose \in { s \in [1..Keep -> Occurring] : IsInjective(s) } :
       features' = [i \in 1..Keep |->
                     [index |-> choose[i], feat |-> featList[choose[i]], scale |-> FeatureScale(choose[i])]]
  /\ Complete(3)
  /\ UNCHANGED <<extracted, toolchains, featList, data, train, filelist, globalFeat, rounds, deaths>>
-----------------------------------------------------------------------------
(* {:.3f} of a quotient, in thousandths.                                   *)
Milli(count, scale) == (2000 * count + scale) \div (2 * scale)

(* TrainModel.py: KeepFeatures and GenerateCRFData.                        *)
TrainLine(l) ==
  LET kept == [i \in DOMAIN features |-> features[i].index]
  IN [addr |-> l.addr, label |-> l.label,
      pairs |-> { <<IndexIn(kept, p[1]), Milli(p[2], LargestCount(p[1]))>> : p \in { q \in l.pairs : q[1] \in ToSet(kept) } }]

Chain(b) == [i \in DOMAIN data[Path(b)] |-> TrainLine(data[Path(b)][i])]

(* Mutant: no empty line after a file.                                     *)
WriteTrainingDataInOneChain ==
  /\ pc = "train"
  /\ train' = <<FlattenSeq([i \in DOMAIN filelist |-> Chain(filelist[i])])>>
  /\ Complete(4)
  /\ UNCHANGED <<extracted, toolchains, featList, data, features, filelist, globalFeat, rounds, deaths>>

WriteTrainingData ==
  /\ pc = "train"
  /\ train' = [i \in DOMAIN filelist |-> Chain(filelist[i])]
  /\ Complete(4)
  /\ UNCHANGED <<extracted, toolchains, featList, data, features, filelist, globalFeat, rounds, deaths>>

(* No more rounds.                                                         *)
Finished == pc = "user" /\ rounds = MaxRounds /\ done \in {0, 4} /\ UNCHANGED vars

Next == \/ StartFeatGen \/ StartNextScript \/ Killed
        \/ ExtractEnds \/ ExtractDies \/ ExtractedAll
        \/ BuildToolchainIndexMap \/ CountFeatures \/ BuildGlobalFeatureIndex
        \/ GenerateCRFData \/ GeneratedAll \/ SelectFeatures \/ WriteTrainingData \/ Finished

Spec == Init /\ [][Next]_vars
-----------------------------------------------------------------------------
(* AddFeatures and LoadFeatureData of Origin.py, on the same files.        *)
OriginVector(p, a) ==
  LET strings == [i \in DOMAIN features |-> features[i].feat]
      pairs == UNION { { <<IndexIn(strings, q[1]), q[2]>> : q \in { r \in Decoded(extracted[p][e], a) : r[1] \in ToSet(strings) } } :
                       e \in Extractions }
  IN { <<q[1], Milli(q[2], features[q[1]].scale)>> : q \in Deduped(pairs) }
-----------------------------------------------------------------------------
Completed(n) == pc = "user" /\ done >= n

(* What crfsuite learns of a function is what it is asked about when the   *)
(* same binary is identified: TrainModel.py's vector, which has been       *)
(* through the global index, and Origin.py's, which has not, are equal,    *)
(* even if extractions died.                                               *)
TrainedAsIdentified ==
  Completed(4) =>
    \A i \in DOMAIN train : \A l \in ToSet(train[i]) : l.pairs = OriginVector(Path(filelist[i]), l.addr)

(* No feature is lost or mixed up between an extraction and the data file: *)
(* the two passes of GenDataFiles.py, of which the first skips what it     *)
(* cannot open and the second what has no index, see the same files. Not   *)
(* so of extractions that died or lost records: a list cut in a string is  *)
(* read like any other, with a feature that no function has.               *)
WholeIn(p) ==
  \A e \in Extractions :
    /\ extracted[p][e].featlist.whole
    /\ extracted[p][e].instances.by = extracted[p][e].featlist.by
    /\ Len(extracted[p][e].instances.lines) = Cardinality(Text[extracted[p][e].instances.by.bin])
    /\ extracted[p][e].instances.by = extracted[p][1].instances.by

DataOfWholeExtractions ==
  Completed(2) =>
    \A b \in ToSet(filelist) : WholeIn(Path(b)) =>
      LET of == extracted[Path(b)][1].instances.by.bin
      IN /\ { l.addr : l \in ToSet(data[Path(b)]) } = Text[of]
         /\ \A l \in ToSet(data[Path(b)]) :
              { <<featList[p[1]], p[2]>> : p \in l.pairs } =
                UNION { { <<f, Feat[of][e][l.addr][f]>> : f \in DOMAIN Feat[of][e][l.addr] } : e \in Extractions }

(* crfsuite learns from one chain per binary: the lines of its data file,  *)
(* in order, and no line of another one, each labelled by the index that    *)
(* toolchain-index.txt has for the toolchain in the binary's path, in       *)
(* whichever round the index was built.                                     *)
ChainsAreBinaries ==
  Completed(4) =>
    /\ Len(train) = Len(filelist)
    /\ \A i \in DOMAIN train :
         /\ [j \in DOMAIN train[i] |-> train[i][j].addr] =
              [j \in DOMAIN extracted[Path(filelist[i])][1].instances.lines |->
                 extracted[Path(filelist[i])][1].instances.lines[j].addr]
         /\ \A l \in ToSet(train[i]) : toolchains[l.label] = Toolchain[filelist[i]]

(* README.md: it is OK to have subdirectories after the opt-level          *)
(* directory.                                                              *)
ChainOfItsBinary ==
  Completed(4) =>
    \A i \in DOMAIN filelist : extracted[Path(filelist[i])][1].instances.by.bin = filelist[i]
=============================================================================
