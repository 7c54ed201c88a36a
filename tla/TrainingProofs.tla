---------------------------- MODULE TrainingProofs ----------------------------
(***************************************************************************)
(* Theorems about Training: the files that the scripts leave behind belong *)
(* together, whatever died or was killed on the way to them.               *)
(***************************************************************************)
EXTENDS Training, Lemmas, FiniteSetTheorems, SequenceTheorems, TLAPS

(* Where the scripts are, and the round they are in.                       *)
InSequence ==
  /\ pc \in {"user", "extract", "toolchains", "count", "data", "select", "train"}
  /\ done \in 0..4 /\ rounds \in Nat /\ at \in Nat \ {0} /\ k \in Extractions
  /\ filelist \in Seq(Binaries)
  /\ pc = "extract" => done = 0
  /\ pc \in {"toolchains", "count", "data"} => done = 1
  /\ pc = "select" => done = 2
  /\ pc = "train" => done = 3

(* The files are one for each path, extraction and kind.                   *)
Entry == Features \union {CUT}

FilesTyped ==
  /\ extracted = [p \in Paths |-> [e \in Extractions |-> extracted[p][e]]]
  /\ data = [p \in Paths |-> data[p]]
  /\ \A p \in Paths, e \in Extractions :
       extracted[p][e].featlist # NONE => extracted[p][e].featlist.entries \in Seq(Entry)

(* The execution of extractFeat that a file is by was before now.          *)
Earlier(by, e) ==
  /\ by.bin \in Binaries /\ by.round \in Nat /\ by.round <= rounds /\ by.at \in Nat
  /\ pc = "extract" /\ by.round = rounds => by.at < at \/ (by.at = at /\ e < k)

(* What an execution on b writes of function a, and the features that it   *)
(* gives an index.                                                         *)
FeaturesBy(b, e, addrs) == UNION { DOMAIN Feat[b][e][addrs[i]] : i \in DOMAIN addrs }

LineBy(b, e, a, index) ==
  [addr |-> a, pairs |-> [i \in { j \in DOMAIN index : index[j] \in DOMAIN Feat[b][e][a] } |->
                            Feat[b][e][a][index[i]]]]

(* The .instances of an extraction are by one execution, and whole if a    *)
(* .featlist by the same is there, which is its index unless it was cut.   *)
ByOneExecution(f, e) ==
  LET b == f.instances.by.bin
  IN \E some \in SUBSET Text[b] : \E addrs \in SetToSeqs(some) : \E index \in SetToSeqs(FeaturesBy(b, e, addrs)) :
       /\ DOMAIN f.instances.lines = DOMAIN addrs
       /\ f.featlist # NONE /\ f.featlist.by = f.instances.by =>
            /\ f.instances.lines = [i \in DOMAIN addrs |-> LineBy(b, e, addrs[i], index)]
            /\ f.featlist.whole => f.featlist.entries = index

SoundFiles(f, e) ==
  /\ f.featlist # NONE => Earlier(f.featlist.by, e)
  /\ f.instances # NONE => Earlier(f.instances.by, e) /\ ByOneExecution(f, e)

Extracted == \A p \in Paths, e \in Extractions : SoundFiles(extracted[p][e], e)

(* The features on the lines of an extraction, which CountFeatures         *)
(* numbers.                                                                *)
FeaturesIn(f) == UNION { { f.featlist.entries[i] : i \in DOMAIN l.pairs } : l \in ToSet(f.instances.lines) }

FilesOf(i) == extracted[Path(filelist[i])]

Indexed ==
  /\ globalFeat \in Seq(Entry)
  /\ pc = "data" => globalFeat = featList
  /\ pc = "count" =>
       \A i \in DOMAIN filelist, e \in Extractions :
         (i < at \/ (i = at /\ e < k)) /\ ~Missing(FilesOf(i)[e]) => FeaturesIn(FilesOf(i)[e]) \subseteq ToSet(globalFeat)
  /\ pc = "data" \/ done >= 2 =>
       \A i \in DOMAIN filelist, e \in Extractions :
         ~Missing(FilesOf(i)[e]) => FeaturesIn(FilesOf(i)[e]) \subseteq ToSet(featList)

(* What GenDataFiles.py writes of a binary, by its files f, the list of    *)
(* features and the label.                                                 *)
PairsFrom(f, list, a) ==
  UNION { { <<IndexIn(list, q[1]), q[2]>> : q \in { r \in Decoded(f[e], a) : r[1] \in ToSet(list) } } : e \in Extractions }

LineFrom(f, list, label, a) == [addr |-> a, label |-> label, pairs |-> Deduped(PairsFrom(f, list, a))]

LinesFrom(f, list, label) ==
  [j \in DOMAIN f[1].instances.lines |-> LineFrom(f, list, label, f[1].instances.lines[j].addr)]

Readable(f) == \A e \in Extractions : ~Missing(f[e]) /\ Decodable(f[e])

Label(i) == IndexIn(ToolchainIndexMap, Toolchain[filelist[i]])

DataOf(i) == Readable(FilesOf(i)) /\ data[Path(filelist[i])] = LinesFrom(FilesOf(i), featList, Label(i))

DataWritten == \A i \in DOMAIN filelist : (pc = "data" /\ i < at) \/ done >= 2 => DataOf(i)

ToolchainsIndexed == pc \in {"count", "data"} \/ done >= 2 => toolchains = ToolchainIndexMap

(* The features that FS.py selected, scaled by the data that is there.     *)
Selected ==
  done >= 3 =>
    \A i \in DOMAIN features :
      /\ features[i].index \in Occurring
      /\ features[i].feat = featList[features[i].index]
      /\ features[i].scale = LargestCount(features[i].index)

TrainedOn == done = 4 => train = [i \in DOMAIN filelist |-> Chain(filelist[i])]

TrainInv ==
  /\ InSequence /\ FilesTyped /\ Extracted /\ Indexed /\ ToolchainsIndexed
  /\ DataWritten /\ Selected /\ TrainedOn
-----------------------------------------------------------------------------
(* Constants and the running file.                                         *)
LEMMA ExtractionNumbers ==
  /\ NumExtractions \in Nat \ {0} /\ Extractions = 1..NumExtractions
  /\ 1 \in Extractions /\ \A e \in Extractions : e \in Nat /\ e >= 1 /\ e <= NumExtractions
BY TrainingAssumption DEF TrainingAssumption, NumExtractions

LEMMA ListedBinaries ==
  ASSUME InSequence
  PROVE  /\ Len(filelist) \in Nat /\ DOMAIN filelist = 1..Len(filelist)
         /\ \A i \in DOMAIN filelist : filelist[i] \in Binaries /\ Path(filelist[i]) \in Paths
         /\ at <= Len(filelist) => at \in DOMAIN filelist /\ bin \in Binaries /\ Path(bin) \in Paths
<1>1. filelist \in Seq(Binaries) /\ at \in Nat \ {0}
  BY DEF InSequence
<1>2. Len(filelist) \in Nat /\ DOMAIN filelist = 1..Len(filelist)
      /\ \A i \in 1..Len(filelist) : filelist[i] \in Binaries
  BY <1>1, ElementOfSeq, LenProperties
<1>3. \A b \in Binaries : Path(b) \in Paths
  BY DEF Paths
<1>4. at <= Len(filelist) => at \in DOMAIN filelist
  BY <1>1, <1>2
<1> QED
  BY <1>2, <1>3, <1>4 DEF bin

(* An execution of extractFeat, however it ends, is one step of FeatGen.py *)
(* that writes no other files.                                             *)
LEMMA ExecutionStep ==
  ASSUME ExtractEnds \/ ExtractDies
  PROVE  /\ pc = "extract" /\ at <= Len(filelist) /\ NextExtraction
         /\ UNCHANGED <<toolchains, featList, data, features, train, pc, filelist, globalFeat, done, rounds>>
<1>1. CASE ExtractEnds
  BY <1>1 DEF ExtractEnds
<1>2. CASE ExtractDies
  BY <1>2 DEF ExtractDies
<1> QED
  BY <1>1, <1>2

LEMMA SequenceInit == Init => InSequence
<1> SUFFICES ASSUME Init PROVE InSequence
  OBVIOUS
<1>1. filelist \in Seq(Binaries)
  BY TrainingAssumption DEF TrainingAssumption, Init
<1> QED
  BY <1>1, ExtractionNumbers DEF Init, InSequence

LEMMA SequenceKept == InSequence /\ [Next]_vars => InSequence'
<1> SUFFICES ASSUME InSequence, [Next]_vars PROVE InSequence'
  OBVIOUS
<1> USE ExtractionNumbers DEF InSequence
<1>1. CASE StartFeatGen
  <2>1. filelist' \in Seq(Binaries)
    BY <1>1, TrainingAssumption DEF TrainingAssumption, StartFeatGen
  <2> QED
    BY <1>1, <2>1 DEF StartFeatGen, Begin
<1>2. CASE StartNextScript
  BY <1>2 DEF StartNextScript, Begin
<1>3. CASE Killed
  BY <1>3 DEF Killed
<1>4. CASE ExtractEnds \/ ExtractDies \/ CountFeatures
  <2>1. NextExtraction /\ UNCHANGED <<pc, filelist, done, rounds>>
    BY <1>4, ExecutionStep DEF CountFeatures
  <2>2. at' \in Nat \ {0} /\ k' \in Extractions
    BY <2>1 DEF NextExtraction
  <2> QED
    BY <2>1, <2>2
<1>5. CASE ExtractedAll \/ GeneratedAll \/ SelectFeatures \/ WriteTrainingData
  BY <1>5 DEF ExtractedAll, GeneratedAll, SelectFeatures, WriteTrainingData, Complete
<1>6. CASE BuildToolchainIndexMap \/ BuildGlobalFeatureIndex
  BY <1>6 DEF BuildToolchainIndexMap, BuildGlobalFeatureIndex, Goto
<1>7. CASE GenerateCRFData
  BY <1>7 DEF GenerateCRFData
<1>8. CASE Finished \/ UNCHANGED vars
  BY <1>8 DEF Finished, vars
<1> QED
  BY <1>1, <1>2, <1>3, <1>4, <1>5, <1>6, <1>7, <1>8 DEF Next

(* After GenDataFiles.py none of its files changes until the next round,   *)
(* and each script writes its own only.                                    *)
LEMMA LateSteps ==
  ASSUME InSequence, [Next]_vars, done' >= 2
  PROVE  /\ UNCHANGED <<extracted, toolchains, featList, data, filelist>>
         /\ done >= 2 \/ GeneratedAll
         /\ done' >= 3 => (done >= 3 /\ UNCHANGED features) \/ SelectFeatures
         /\ done' = 4 => (done = 4 /\ UNCHANGED <<features, train>>) \/ WriteTrainingData
         /\ pc' # "data"
<1> USE DEF InSequence, files
<1>1. CASE StartFeatGen
  BY <1>1 DEF StartFeatGen
<1>2. CASE StartNextScript
  BY <1>2 DEF StartNextScript, Begin
<1>3. CASE Killed
  BY <1>3 DEF Killed
<1>4. CASE ExtractEnds \/ ExtractDies \/ CountFeatures \/ GenerateCRFData
  BY <1>4, ExecutionStep DEF CountFeatures, GenerateCRFData
<1>5. CASE ExtractedAll \/ GeneratedAll
  BY <1>5 DEF ExtractedAll, GeneratedAll, Complete
<1>6. CASE SelectFeatures \/ WriteTrainingData
  BY <1>6 DEF SelectFeatures, WriteTrainingData, Complete
<1>7. CASE BuildToolchainIndexMap \/ BuildGlobalFeatureIndex
  BY <1>7 DEF BuildToolchainIndexMap, BuildGlobalFeatureIndex, Goto
<1>8. CASE Finished \/ UNCHANGED vars
  BY <1>8 DEF Finished, vars
<1> QED
  BY <1>1, <1>2, <1>3, <1>4, <1>5, <1>6, <1>7, <1>8 DEF Next
-----------------------------------------------------------------------------
(* An execution of extractFeat, whole or not, writes files that belong      *)
(* together, or leaves those that are there.                               *)
Written(g) ==
  /\ g.instances.by = By /\ ByOneExecution(g, k)
  /\ g.featlist = Here[k].featlist \/ (g.featlist.by = By /\ g.featlist.entries \in Seq(Entry))

LEMMA AddressesInOrder ==
  ASSUME NEW S, IsFiniteSet(S), NEW s \in SetToSeqs(S)
  PROVE  /\ s \in Seq(S) /\ Len(s) = Cardinality(S) /\ Len(s) \in Nat /\ DOMAIN s = 1..Len(s)
         /\ \A i, j \in DOMAIN s : i # j => s[i] # s[j]
<1>1. Cardinality(S) \in Nat
  BY FS_CardinalityType
<1>2. s \in [1..Cardinality(S) -> S] /\ \A i, j \in 1..Cardinality(S) : i # j => s[i] # s[j]
  BY DEF SetToSeqs
<1> QED
  BY <1>1, <1>2

LEMMA IndexedFeatures ==
  ASSUME NEW b \in Binaries, NEW e \in Extractions, NEW some \in SUBSET Text[b], NEW addrs \in SetToSeqs(some)
  PROVE  /\ IsFiniteSet(some) /\ addrs \in Seq(some) /\ DOMAIN addrs = 1..Len(addrs)
         /\ FeaturesBy(b, e, addrs) \subseteq Features /\ IsFiniteSet(FeaturesBy(b, e, addrs))
<1>1. IsFiniteSet(some)
  BY TrainingAssumption, FS_Subset DEF TrainingAssumption
<1>2. addrs \in Seq(some) /\ DOMAIN addrs = 1..Len(addrs) /\ \A i \in DOMAIN addrs : addrs[i] \in Text[b]
  BY <1>1, AddressesInOrder, ElementOfSeq
<1>3. FeaturesBy(b, e, addrs) \subseteq Features
  BY <1>2, TrainingAssumption DEF TrainingAssumption, FeaturesBy
<1>4. IsFiniteSet(Features)
  BY TrainingAssumption DEF TrainingAssumption
<1> QED
  BY <1>1, <1>2, <1>3, <1>4, FS_Subset

LEMMA RunningExtraction ==
  ASSUME InSequence, at <= Len(filelist), NEW some \in SUBSET Text[bin], NEW addrs \in SetToSeqs(some),
         NEW index \in Indexings(addrs)
  PROVE  /\ bin \in Binaries /\ index \in SetToSeqs(FeaturesBy(bin, k, addrs)) /\ index \in Seq(Features)
         /\ Lines(addrs, index) = [i \in DOMAIN addrs |-> LineBy(bin, k, addrs[i], index)]
         /\ DOMAIN Lines(addrs, index) = DOMAIN addrs /\ DOMAIN addrs = 1..Len(addrs) /\ Len(addrs) \in Nat
<1>1. bin \in Binaries /\ k \in Extractions
  BY ListedBinaries DEF InSequence
<1>2. DOMAIN addrs = 1..Len(addrs) /\ FeaturesBy(bin, k, addrs) \subseteq Features
      /\ IsFiniteSet(FeaturesBy(bin, k, addrs))
  BY <1>1, IndexedFeatures
<1>3. FeaturesOf(addrs, Len(addrs)) = FeaturesBy(bin, k, addrs)
  BY <1>2 DEF FeaturesOf, FeaturesBy
<1>4. index \in SetToSeqs(FeaturesBy(bin, k, addrs))
  BY <1>3 DEF Indexings
<1>5. index \in Seq(FeaturesBy(bin, k, addrs))
  BY <1>2, <1>4, AddressesInOrder
<1>6. index \in Seq(Features)
  BY <1>2, <1>5
<1>7. Len(addrs) \in Nat
  BY <1>1, IndexedFeatures, LenProperties
<1> QED
  BY <1>1, <1>2, <1>4, <1>6, <1>7 DEF Lines, Line, LineBy

(* What a cut leaves of a list is a list, and of the lines as many.        *)
LEMMA CutListsAreLists ==
  ASSUME NEW index \in Seq(Features), NEW entries \in CutLists(index)
  PROVE  entries \in Seq(Entry)
<1>1. DOMAIN index = 1..Len(index) /\ Len(index) \in Nat
  BY LenProperties
<1>2. CASE entries = <<>>
  BY <1>2
<1>3. ASSUME NEW i \in DOMAIN index, NEW last \in Features \union {CUT},
             entries = Append(SubSeq(index, 1, i - 1), last)
      PROVE  entries \in Seq(Entry)
  <2> DEFINE s == SubSeq(index, 1, i - 1)
  <2>1. s \in Seq(Features)
    BY <1>1, SubSeqProperties
  <2>2. s \in Seq(Entry) /\ last \in Entry
    BY <2>1 DEF Entry
  <2> HIDE DEF s
  <2>3. Append(s, last) \in Seq(Entry)
    BY <2>2, AppendProperties
  <2> QED
    BY <1>3, <2>3 DEF s
<1> QED
  BY <1>2, <1>3 DEF CutLists

LEMMA CutLinesAreAsMany ==
  ASSUME NEW lines, NEW cut \in CutLines(lines)
  PROVE  DOMAIN cut = DOMAIN lines
BY DEF CutLines

LEMMA ExecutionIsSound ==
  ASSUME InSequence, Extracted, ExtractEnds \/ ExtractDies
  PROVE  \/ UNCHANGED extracted
         \/ \E g : Written(g) /\ extracted' = [extracted EXCEPT ![Path(bin)][k] = g]
<1>1. pc = "extract" /\ at <= Len(filelist)
  BY ExecutionStep
<1>2. bin \in Binaries /\ Path(bin) \in Paths /\ k \in Extractions /\ By.bin = bin
  BY <1>1, ListedBinaries DEF InSequence, By
<1>3. Features \subseteq Entry
  BY DEF Entry
<1>4. ASSUME NEW some \in SUBSET Text[bin], NEW addrs \in SetToSeqs(some), NEW index \in Indexings(addrs),
             NEW whole, NEW entries \in Seq(Entry), whole => entries = index,
             Write([instances |-> Instances(Lines(addrs, index)), featlist |-> Featlist(entries, whole)])
      PROVE  \E g : Written(g) /\ extracted' = [extracted EXCEPT ![Path(bin)][k] = g]
  <2> DEFINE g == [instances |-> Instances(Lines(addrs, index)), featlist |-> Featlist(entries, whole)]
  <2>1. /\ index \in SetToSeqs(FeaturesBy(bin, k, addrs))
        /\ Lines(addrs, index) = [i \in DOMAIN addrs |-> LineBy(bin, k, addrs[i], index)]
        /\ DOMAIN Lines(addrs, index) = DOMAIN addrs
    BY <1>1, RunningExtraction
  <2>2. g.featlist.by = By /\ g.featlist.entries = entries /\ g.featlist.whole = whole
        /\ g.instances.by = By /\ g.instances.lines = Lines(addrs, index)
    BY DEF Featlist, Instances
  <2>3. Write(g)
    BY <1>4
  <2> HIDE DEF g
  <2>4. ByOneExecution(g, k)
    BY <1>2, <1>4, <2>1, <2>2 DEF ByOneExecution
  <2>5. Written(g)
    BY <1>4, <2>2, <2>4 DEF Written
  <2> QED
    BY <2>3, <2>5 DEF Write
<1>5. ASSUME NEW some \in SUBSET Text[bin], NEW addrs \in SetToSeqs(some), NEW index \in Indexings(addrs),
             NEW lines \in {Lines(addrs, index)} \union CutLines(Lines(addrs, index)),
             Write([instances |-> Instances(lines), featlist |-> Here[k].featlist])
      PROVE  \E g : Written(g) /\ extracted' = [extracted EXCEPT ![Path(bin)][k] = g]
  <2> DEFINE g == [instances |-> Instances(lines), featlist |-> Here[k].featlist]
  <2>1. /\ index \in SetToSeqs(FeaturesBy(bin, k, addrs))
        /\ DOMAIN Lines(addrs, index) = DOMAIN addrs
    BY <1>1, RunningExtraction
  <2>2. DOMAIN lines = DOMAIN addrs
    BY <2>1, CutLinesAreAsMany
  <2>3. g.featlist = Here[k].featlist /\ g.instances.by = By /\ g.instances.lines = lines
    BY DEF Instances
  <2>4. Write(g)
    BY <1>5
  <2> HIDE DEF g
  <2>5. g.featlist # NONE => g.featlist.by # By
    <3>1. g.featlist # NONE => Earlier(g.featlist.by, k)
      BY <1>2, <2>3 DEF Extracted, SoundFiles, Here
    <3>2. at \in Nat /\ k \in Nat /\ By.round = rounds /\ By.at = at
      BY <1>2, ExtractionNumbers DEF InSequence, By
    <3> QED
      BY <1>1, <3>1, <3>2 DEF Earlier
  <2>6. ByOneExecution(g, k)
    BY <1>2, <2>1, <2>2, <2>3, <2>5 DEF ByOneExecution
  <2>7. Written(g)
    BY <2>3, <2>6 DEF Written
  <2> QED
    BY <2>4, <2>7 DEF Write
<1>6. CASE ExtractEnds
  <2>1. PICK some \in SUBSET Text[bin] : \E addrs \in SetToSeqs(some) : \E index \in Indexings(addrs) :
          Write([instances |-> Instances(Lines(addrs, index)), featlist |-> Featlist(index, TRUE)])
    BY <1>6 DEF ExtractEnds
  <2>2. PICK addrs \in SetToSeqs(some) : \E index \in Indexings(addrs) :
          Write([instances |-> Instances(Lines(addrs, index)), featlist |-> Featlist(index, TRUE)])
    BY <2>1
  <2>3. PICK index \in Indexings(addrs) :
          Write([instances |-> Instances(Lines(addrs, index)), featlist |-> Featlist(index, TRUE)])
    BY <2>2
  <2>4. index \in Seq(Entry)
    BY <1>1, <1>3, RunningExtraction
  <2> QED
    BY <1>4, <2>3, <2>4
<1>7. CASE ExtractDies
  <2>1. ASSUME NEW some \in SUBSET Text[bin], NEW addrs \in SetToSeqs(some), NEW index \in Indexings(addrs),
               NEW entries \in CutLists(index),
               Write([instances |-> Instances(Lines(addrs, index)), featlist |-> Featlist(entries, FALSE)])
        PROVE  \E g : Written(g) /\ extracted' = [extracted EXCEPT ![Path(bin)][k] = g]
    <3>1. entries \in Seq(Entry)
      BY <1>1, RunningExtraction, CutListsAreLists
    <3> QED
      BY <1>4, <2>1, <3>1
  <2> QED
    BY <1>5, <1>7, <2>1 DEF ExtractDies
<1> QED
  BY <1>6, <1>7

(* Which files the other scripts write.                                    *)
LEMMA OnlyExecutionsExtract ==
  ASSUME [Next]_vars
  PROVE  UNCHANGED extracted \/ ExtractEnds \/ ExtractDies
BY DEF Next, vars, files, StartFeatGen, StartNextScript, Killed, ExtractedAll, BuildToolchainIndexMap, CountFeatures,
       BuildGlobalFeatureIndex, GenerateCRFData, GeneratedAll, SelectFeatures, WriteTrainingData, Finished

LEMMA OnlyGenerateCRFDataWritesData ==
  ASSUME [Next]_vars
  PROVE  UNCHANGED data \/ GenerateCRFData
BY ExecutionStep DEF Next, vars, files, StartFeatGen, StartNextScript, Killed, ExtractedAll,
       BuildToolchainIndexMap, CountFeatures, BuildGlobalFeatureIndex, GenerateCRFData, GeneratedAll, SelectFeatures,
       WriteTrainingData, Finished

(* The files after an execution.                                           *)
LEMMA ExtractedAfter ==
  ASSUME InSequence, FilesTyped, ExtractEnds \/ ExtractDies,
         NEW g, extracted' = [extracted EXCEPT ![Path(bin)][k] = g]
  PROVE  /\ extracted' = [p \in Paths |-> [e \in Extractions |-> extracted'[p][e]]]
         /\ \A p \in Paths, e \in Extractions :
              extracted'[p][e] = IF p = Path(bin) /\ e = k THEN g ELSE extracted[p][e]
<1>1. Path(bin) \in Paths /\ k \in Extractions
  BY ListedBinaries, ExecutionStep DEF InSequence
<1> DEFINE old == extracted
           q == Path(bin)
<1>2. old = [p \in Paths |-> [e \in Extractions |-> old[p][e]]]
  BY DEF FilesTyped
<1> HIDE DEF old, q
<1>3. extracted' = [old EXCEPT ![q] = [old[q] EXCEPT ![k] = g]] /\ q \in Paths
  BY <1>1 DEF old, q
<1>4. DOMAIN old = Paths /\ \A p \in Paths : old[p] = [e \in Extractions |-> old[p][e]]
  BY <1>2
<1>5. \A p \in Paths : DOMAIN old[p] = Extractions
  BY <1>4
<1>6. \A p \in Paths : extracted'[p] = IF p = q THEN [old[q] EXCEPT ![k] = g] ELSE old[p]
  BY <1>3, <1>4
<1>7. [old[q] EXCEPT ![k] = g] = [e \in Extractions |-> IF e = k THEN g ELSE old[q][e]]
  BY <1>3, <1>5
<1>8. \A p \in Paths, e \in Extractions : extracted'[p][e] = IF p = q /\ e = k THEN g ELSE old[p][e]
  <2> SUFFICES ASSUME NEW p \in Paths, NEW e \in Extractions
               PROVE  extracted'[p][e] = IF p = q /\ e = k THEN g ELSE old[p][e]
    OBVIOUS
  <2>1. CASE p = q
    <3>1. extracted'[p] = [x \in Extractions |-> IF x = k THEN g ELSE old[q][x]]
      BY <1>6, <1>7, <2>1
    <3> QED
      BY <2>1, <3>1
  <2>2. CASE p # q
    <3>1. extracted'[p][e] = old[p][e]
      BY <1>6, <2>2
    <3>2. ~(p = q /\ e = k)
      BY <2>2
    <3> QED
      BY <3>1, <3>2, Zenon
  <2> QED
    BY <2>1, <2>2
<1>9. \A p \in Paths : extracted'[p] = [e \in Extractions |-> extracted'[p][e]]
  <2> SUFFICES ASSUME NEW p \in Paths PROVE extracted'[p] = [e \in Extractions |-> extracted'[p][e]]
    OBVIOUS
  <2>1. CASE p = q
    <3>1. extracted'[p] = [x \in Extractions |-> IF x = k THEN g ELSE old[q][x]]
      BY <1>6, <1>7, <2>1
    <3> QED
      BY <3>1
  <2>2. CASE p # q
    <3>1. extracted'[p] = old[p]
      BY <1>6, <2>2
    <3> QED
      BY <1>4, <3>1
  <2> QED
    BY <2>1, <2>2
<1>10. extracted' = [p \in Paths |-> extracted'[p]]
  BY <1>3, <1>4
<1>11. extracted' = [p \in Paths |-> [e \in Extractions |-> extracted'[p][e]]]
  BY <1>9, <1>10
<1> QED
  BY <1>8, <1>11 DEF old, q

LEMMA FilesTypedKept == InSequence /\ FilesTyped /\ Extracted /\ [Next]_vars => FilesTyped'
<1> SUFFICES ASSUME InSequence, FilesTyped, Extracted, [Next]_vars PROVE FilesTyped'
  OBVIOUS
<1>1. data' = [p \in Paths |-> data'[p]]
  <2>1. CASE GenerateCRFData
    <3>1. data = [p \in Paths |-> data[p]]
      BY DEF FilesTyped
    <3>2. PICK d : data' = [data EXCEPT ![Path(bin)] = d]
      BY <2>1 DEF GenerateCRFData
    <3> QED
      BY <3>1, <3>2
  <2>2. CASE UNCHANGED data
    BY <2>2 DEF FilesTyped
  <2> QED
    BY <2>1, <2>2, OnlyGenerateCRFDataWritesData
<1>2. CASE UNCHANGED extracted
  BY <1>1, <1>2 DEF FilesTyped
<1>3. ASSUME ExtractEnds \/ ExtractDies, NEW g, Written(g), extracted' = [extracted EXCEPT ![Path(bin)][k] = g]
      PROVE  FilesTyped'
  <2>1. /\ extracted' = [p \in Paths |-> [e \in Extractions |-> extracted'[p][e]]]
        /\ \A p \in Paths, e \in Extractions :
             extracted'[p][e] = IF p = Path(bin) /\ e = k THEN g ELSE extracted[p][e]
    BY <1>3, ExtractedAfter
  <2>2. Path(bin) \in Paths /\ k \in Extractions
    BY <1>3, ListedBinaries, ExecutionStep DEF InSequence
  <2>3. g.featlist # NONE => g.featlist.entries \in Seq(Entry)
    BY <1>3, <2>2 DEF Written, FilesTyped, Here
  <2>4. \A p \in Paths, e \in Extractions :
          extracted'[p][e].featlist # NONE => extracted'[p][e].featlist.entries \in Seq(Entry)
    BY <2>1, <2>3 DEF FilesTyped
  <2> QED
    BY <1>1, <2>1, <2>4 DEF FilesTyped
<1> QED
  BY <1>2, <1>3, ExecutionIsSound, OnlyExecutionsExtract

(* What was before now stays so.                                           *)
LEMMA EarlierKept ==
  ASSUME InSequence, [Next]_vars, NEW by, NEW e \in Extractions, Earlier(by, e)
  PROVE  Earlier(by, e)'
<1> USE DEF Earlier, InSequence
<1>1. e \in Nat /\ k \in Nat /\ NumExtractions \in Nat
  BY ExtractionNumbers
<1>2. CASE StartFeatGen
  BY <1>2 DEF StartFeatGen
<1>3. CASE ExtractEnds \/ ExtractDies
  BY <1>1, <1>3, ExecutionStep DEF NextExtraction
<1>4. CASE StartNextScript
  BY <1>4 DEF StartNextScript, Begin
<1>5. CASE ExtractedAll \/ GeneratedAll \/ SelectFeatures \/ WriteTrainingData \/ Killed
  BY <1>5 DEF ExtractedAll, GeneratedAll, SelectFeatures, WriteTrainingData, Complete, Killed
<1>6. CASE BuildToolchainIndexMap \/ BuildGlobalFeatureIndex
  BY <1>6 DEF BuildToolchainIndexMap, BuildGlobalFeatureIndex, Goto
<1>7. CASE CountFeatures \/ GenerateCRFData
  BY <1>7 DEF CountFeatures, GenerateCRFData
<1>8. CASE Finished \/ UNCHANGED vars
  BY <1>8 DEF Finished, vars
<1> QED
  BY <1>2, <1>3, <1>4, <1>5, <1>6, <1>7, <1>8 DEF Next

LEMMA SoundFilesKept ==
  ASSUME InSequence, [Next]_vars, NEW e \in Extractions, NEW f, SoundFiles(f, e)
  PROVE  SoundFiles(f, e)'
<1>1. ASSUME NEW by, Earlier(by, e) PROVE Earlier(by, e)'
  BY <1>1, EarlierKept
<1>2. (f.featlist # NONE => Earlier(f.featlist.by, e)') /\ (f.instances # NONE => Earlier(f.instances.by, e)')
  BY <1>1 DEF SoundFiles
<1> QED
  BY <1>2 DEF SoundFiles, ByOneExecution

LEMMA WrittenIsSound ==
  ASSUME InSequence, Extracted, ExtractEnds \/ ExtractDies, NEW g, Written(g), NEW e, e = k
  PROVE  SoundFiles(g, e)'
<1>1. /\ pc = "extract" /\ rounds' = rounds
      /\ (at' = at /\ k' = k + 1) \/ at' = at + 1
  BY ExecutionStep DEF NextExtraction
<1>2. /\ at \in Nat /\ k \in Nat /\ rounds \in Nat /\ bin \in Binaries
      /\ Path(bin) \in Paths /\ e \in Extractions
  BY ListedBinaries, ExtractionNumbers, ExecutionStep DEF InSequence
<1>3. \A by : by = By \/ Earlier(by, e) => Earlier(by, e)'
  <2> SUFFICES ASSUME NEW by, by = By \/ Earlier(by, e) PROVE Earlier(by, e)'
    OBVIOUS
  <2>1. CASE by = By
    <3>1. by.bin \in Binaries /\ by.round = rounds /\ by.at = at
      BY <1>2, <2>1 DEF By
    <3> QED
      BY <1>1, <1>2, <3>1 DEF Earlier
  <2>2. CASE Earlier(by, e)
    BY <1>1, <1>2, <2>2 DEF Earlier
  <2> QED
    BY <2>1, <2>2
<1>4. /\ Here[k].featlist # NONE => Earlier(Here[k].featlist.by, e)
      /\ g.instances.by = By /\ (g.featlist = Here[k].featlist \/ g.featlist.by = By)
      /\ ByOneExecution(g, e)
  BY <1>2 DEF Written, Extracted, SoundFiles, Here
<1>5. Earlier(g.instances.by, e)' /\ (g.featlist # NONE => Earlier(g.featlist.by, e)')
  <2> DEFINE x == g.instances.by
             y == g.featlist.by
  <2>1. x = By /\ (g.featlist # NONE => (y = By \/ Earlier(y, e)))
    BY <1>4
  <2> HIDE DEF x, y
  <2>2. Earlier(x, e)' /\ (g.featlist # NONE => Earlier(y, e)')
    BY <1>3, <2>1
  <2> QED
    BY <2>2 DEF x, y
<1> QED
  BY <1>4, <1>5 DEF SoundFiles, ByOneExecution

LEMMA ExtractedKept == InSequence /\ FilesTyped /\ Extracted /\ [Next]_vars => Extracted'
<1> SUFFICES ASSUME InSequence, FilesTyped, Extracted, [Next]_vars, NEW p \in Paths, NEW e \in Extractions
             PROVE  SoundFiles(extracted[p][e], e)'
  BY DEF Extracted
<1>0. PICK f : f = extracted'[p][e]
  OBVIOUS
<1>1. ASSUME f = extracted[p][e] PROVE SoundFiles(f, e)'
  BY <1>1, SoundFilesKept DEF Extracted
<1>2. ASSUME ExtractEnds \/ ExtractDies, NEW g, Written(g), extracted' = [extracted EXCEPT ![Path(bin)][k] = g]
      PROVE  SoundFiles(f, e)'
  <2>1. f = IF p = Path(bin) /\ e = k THEN g ELSE extracted[p][e]
    BY <1>0, <1>2, ExtractedAfter
  <2>2. CASE p = Path(bin) /\ e = k
    <3>1. f = g /\ e = k
      BY <2>1, <2>2
    <3>2. Written(f)
      BY <1>2, <3>1
    <3> QED
      BY <1>2, <3>1, <3>2, WrittenIsSound
  <2>3. CASE ~(p = Path(bin) /\ e = k)
    BY <1>1, <2>1, <2>3
  <2> QED
    BY <2>2, <2>3
<1>3. ASSUME UNCHANGED extracted PROVE SoundFiles(f, e)'
  BY <1>0, <1>1, <1>3
<1>4. SoundFiles(f, e)'
  BY <1>2, <1>3, ExecutionIsSound, OnlyExecutionsExtract, SMTT(30)
<1> QED
  BY <1>0, <1>4, ZenonT(60) DEF SoundFiles, Earlier
-----------------------------------------------------------------------------
(* The places at which a value appears first, and the numbering by them.   *)
FirstPlaces(s) == { i \in DOMAIN s : \A j \in 1..(i - 1) : s[j] # s[i] }

LEMMA FirstAppearancesOfAll ==
  ASSUME NEW X, NEW s \in Seq(X)
  PROVE  FirstAppearances(s) \in Seq(X) /\ ToSet(FirstAppearances(s)) = ToSet(s)
<1> DEFINE P == FirstPlaces(s)
           m == Len(s)
           c == Cardinality(P)
           place(n) == CHOOSE i \in P : Cardinality(UpTo(P, i)) = n
           t == FirstAppearances(s)
<1>1. m \in Nat /\ DOMAIN s = 1..m /\ \A i \in 1..m : s[i] \in X
  BY ElementOfSeq, LenProperties
<1>2. P \in SUBSET (1..m)
  BY <1>1 DEF FirstPlaces
<1>3. t = [n \in 1..c |-> s[place(n)]]
  BY DEF FirstAppearances, FirstPlaces, UpTo
<1>4. \A i \in 1..m : s[i] \in { s[j] : j \in P }
  <2> SUFFICES ASSUME NEW i \in 1..m PROVE \E j \in P : s[j] = s[i]
    OBVIOUS
  <2> DEFINE T == { j \in 1..m : s[j] = s[i] }
  <2>1. T \in SUBSET Nat /\ T # {}
    BY <1>1
  <2>2. PICK j \in T : \A x \in T : j <= x
    <3> HIDE DEF T
    <3> QED
      BY <2>1, LeastNumber
  <2>3. \A x \in 1..(j - 1) : x \in 1..m /\ ~(j <= x)
    BY <1>1
  <2>4. \A x \in 1..(j - 1) : s[x] # s[j]
    BY <2>2, <2>3
  <2> QED
    BY <1>1, <2>4 DEF FirstPlaces
<1> HIDE DEF P, m, t
<1>5. /\ c \in Nat /\ \A i \in P : Cardinality(UpTo(P, i)) \in 1..c
      /\ \A i, j \in P : Cardinality(UpTo(P, i)) = Cardinality(UpTo(P, j)) => i = j
      /\ \A n \in 1..c : \E i \in P : Cardinality(UpTo(P, i)) = n
  BY <1>1, <1>2, Ranks
<1>6. \A n \in 1..c : place(n) \in P /\ Cardinality(UpTo(P, place(n))) = n
  BY <1>5
<1>7. \A i \in P : place(Cardinality(UpTo(P, i))) = i
  BY <1>5, <1>6
<1> HIDE DEF c, place
<1>8. \A n \in 1..c : place(n) \in 1..m /\ s[place(n)] \in X
  BY <1>1, <1>2, <1>6
<1>9. t \in Seq(X) /\ DOMAIN t = 1..c
  BY <1>3, <1>5, <1>8
<1>10. \A n \in 1..c : t[n] \in ToSet(s)
  BY <1>1, <1>3, <1>8 DEF ToSet
<1>11. \A i \in P : s[i] \in ToSet(t)
  <2> SUFFICES ASSUME NEW i \in P PROVE \E n \in 1..c : t[n] = s[i]
    BY <1>9 DEF ToSet
  <2> DEFINE n == Cardinality(UpTo(P, i))
  <2>1. n \in 1..c /\ place(n) = i
    BY <1>5, <1>7 DEF c
  <2> HIDE DEF n
  <2> QED
    BY <1>3, <2>1
<1>12. ToSet(t) \subseteq ToSet(s)
  BY <1>9, <1>10 DEF ToSet
<1>13. ToSet(s) \subseteq ToSet(t)
  BY <1>1, <1>4, <1>11 DEF ToSet
<1> QED
  BY <1>9, <1>12, <1>13 DEF t

(* The first pass of GenDataFiles.py numbers what is on the lines of a     *)
(* file, and keeps what it has numbered.                                   *)
FeaturesOfLine(f, i) == { f.featlist.entries[j] : j \in DOMAIN f.instances.lines[i].pairs }

LEMMA FeaturesInLines ==
  ASSUME NEW f
  PROVE  FeaturesIn(f) = UNION { FeaturesOfLine(f, i) : i \in DOMAIN f.instances.lines }
BY SMTT(30) DEF FeaturesIn, FeaturesOfLine, ToSet

LEMMA SequencesOfLines ==
  ASSUME NEW p \in Paths, NEW e \in Extractions, NEW f, f = extracted[p][e],
         FilesTyped, Extracted, ~Missing(f), Decodable(f)
  PROVE  /\ \E n \in Nat : DOMAIN f.instances.lines = 1..n
         /\ \A i \in DOMAIN f.instances.lines : FeaturesOfLine(f, i) \subseteq Entry /\ IsFiniteSet(FeaturesOfLine(f, i))
<1>1. ByOneExecution(f, e) /\ f.instances.by.bin \in Binaries /\ f.featlist.entries \in Seq(Entry)
  BY DEF FilesTyped, Extracted, SoundFiles, Earlier, Missing
<1>2. PICK some \in SUBSET Text[f.instances.by.bin] :
        \E addrs \in SetToSeqs(some) : DOMAIN f.instances.lines = DOMAIN addrs
  BY <1>1 DEF ByOneExecution
<1>3. PICK addrs \in SetToSeqs(some) : DOMAIN f.instances.lines = DOMAIN addrs
  BY <1>2
<1>4. DOMAIN addrs = 1..Len(addrs) /\ Len(addrs) \in Nat
  BY <1>1, IndexedFeatures, LenProperties
<1>5. \A i \in DOMAIN f.instances.lines : FeaturesOfLine(f, i) \subseteq Entry
  <2>1. \A j \in DOMAIN f.featlist.entries : f.featlist.entries[j] \in Entry
    BY <1>1
  <2> QED
    BY <2>1 DEF Decodable, FeaturesOfLine
<1>6. IsFiniteSet(Entry)
  BY TrainingAssumption, FS_AddElement DEF TrainingAssumption, Entry
<1> QED
  BY <1>3, <1>4, <1>5, <1>6, FS_Subset

LEMMA NumbersNewFeatures ==
  ASSUME InSequence, FilesTyped, Extracted, globalFeat \in Seq(Entry), CountFeatures
  PROVE  /\ globalFeat' \in Seq(Entry) /\ ToSet(globalFeat) \subseteq ToSet(globalFeat')
         /\ ~Missing(Here[k]) => FeaturesIn(Here[k]) \subseteq ToSet(globalFeat')
<1>1. CASE Missing(Here[k]) /\ UNCHANGED globalFeat
  BY <1>1
<1>2. CASE ~Missing(Here[k])
  <2> DEFINE f == Here[k]
             D == DOMAIN f.instances.lines
             seqs == [i \in D |-> SetToSeq(FeaturesOfLine(f, i))]
             flat == FlattenSeq(seqs)
  <2>1. ~Missing(f) /\ Decodable(f) /\ globalFeat' = FirstAppearances(globalFeat \o flat)
    BY <1>2 DEF CountFeatures, FeaturesOfLine
  <2>2. Path(bin) \in Paths /\ k \in Extractions /\ f = extracted[Path(bin)][k]
    BY ListedBinaries DEF InSequence, CountFeatures, Here
  <2> HIDE DEF f
  <2>3. PICK n \in Nat : D = 1..n
    BY <2>1, <2>2, SequencesOfLines
  <2>4. \A i \in D : FeaturesOfLine(f, i) \subseteq Entry /\ IsFiniteSet(FeaturesOfLine(f, i))
    BY <2>1, <2>2, SequencesOfLines
  <2>5. ASSUME NEW i \in D
        PROVE  /\ SetToSeq(FeaturesOfLine(f, i)) \in Seq(Entry)
               /\ ToSet(SetToSeq(FeaturesOfLine(f, i))) = FeaturesOfLine(f, i)
    <3>1. /\ SetToSeq(FeaturesOfLine(f, i)) \in Seq(FeaturesOfLine(f, i))
          /\ ToSet(SetToSeq(FeaturesOfLine(f, i))) = FeaturesOfLine(f, i)
      BY <2>4, SetAsSequence
    <3> QED
      BY <2>4, <3>1
  <2>6. seqs \in Seq(Seq(Entry)) /\ DOMAIN seqs = D
    BY <2>3, <2>5
  <2>7. \A i \in D : ToSet(seqs[i]) = FeaturesOfLine(f, i)
    BY <2>5
  <2> HIDE DEF seqs, flat
  <2>8. flat \in Seq(Entry) /\ ToSet(flat) = UNION { ToSet(seqs[i]) : i \in DOMAIN seqs }
    BY <2>6, FlattenOfAll DEF flat
  <2>9. FeaturesIn(f) \subseteq ToSet(flat)
    <3>1. \A i \in D : FeaturesOfLine(f, i) \subseteq ToSet(flat)
      BY <2>6, <2>7, <2>8
    <3> QED
      BY <3>1, FeaturesInLines
  <2>10. globalFeat \o flat \in Seq(Entry) /\ ToSet(globalFeat \o flat) = ToSet(globalFeat) \union ToSet(flat)
    BY <2>8, ConcatOfAll
  <2>11. globalFeat' \in Seq(Entry) /\ ToSet(globalFeat') = ToSet(globalFeat) \union ToSet(flat)
    BY <2>1, <2>10, FirstAppearancesOfAll
  <2> QED
    BY <2>9, <2>11 DEF f
<1> QED
  BY <1>1, <1>2 DEF CountFeatures

LEMMA IndexedKept == InSequence /\ FilesTyped /\ Extracted /\ Indexed /\ [Next]_vars => Indexed'
<1> SUFFICES ASSUME InSequence, FilesTyped, Extracted, Indexed, [Next]_vars PROVE Indexed'
  OBVIOUS
<1> USE DEF FilesOf, Path, FeaturesIn, Missing
<1>1. << >> \in Seq(Entry)
  OBVIOUS
<1>2. CASE StartFeatGen
  BY <1>1, <1>2 DEF StartFeatGen, Begin, Indexed
<1>3. CASE StartNextScript
  <2>1. globalFeat' = << >> /\ pc' \in {"toolchains", "select", "train"} /\ UNCHANGED <<files, filelist, done>>
    BY <1>3 DEF StartNextScript, Begin
  <2> HIDE DEF FeaturesIn, Missing
  <2>2. filelist' = filelist /\ featList' = featList /\ extracted' = extracted
    BY <2>1 DEF files
  <2>3. globalFeat' \in Seq(Entry) /\ pc' # "data" /\ pc' # "count" /\ done' = done
    BY <1>1, <2>1
  <2>4. done >= 2 => \A i \in DOMAIN filelist, e \in Extractions :
                       ~Missing(FilesOf(i)[e]) => FeaturesIn(FilesOf(i)[e]) \subseteq ToSet(featList)
    BY DEF Indexed
  <2> QED
    BY <2>2, <2>3, <2>4 DEF Indexed
<1>4. CASE Killed
  BY <1>4 DEF Killed, Indexed, files
<1>5. CASE ExtractEnds \/ ExtractDies
  <2>1. pc' = "extract" /\ done' = 0 /\ UNCHANGED globalFeat
    BY <1>5, ExecutionStep DEF InSequence
  <2> QED
    BY <2>1 DEF Indexed
<1>6. CASE BuildToolchainIndexMap
  <2>1. /\ pc' = "count" /\ at' = 1 /\ k' = 1 /\ done' = 1 /\ UNCHANGED <<globalFeat, filelist>>
    BY <1>6 DEF BuildToolchainIndexMap, Goto, InSequence
  <2>2. \A i \in DOMAIN filelist, e \in Extractions : ~(i < at' \/ (i = at' /\ e < k'))
    BY <2>1, ListedBinaries, ExtractionNumbers
  <2> QED
    BY <2>1, <2>2 DEF Indexed
<1>7. CASE CountFeatures
  <2>1. /\ globalFeat' \in Seq(Entry) /\ ToSet(globalFeat) \subseteq ToSet(globalFeat')
        /\ ~Missing(Here[k]) => FeaturesIn(Here[k]) \subseteq ToSet(globalFeat')
    BY <1>7, NumbersNewFeatures DEF Indexed
  <2>2. pc = "count" /\ pc' = "count" /\ done' = 1 /\ at <= Len(filelist) /\ UNCHANGED <<files, filelist>>
    BY <1>7 DEF CountFeatures, InSequence
  <2>3. at \in DOMAIN filelist /\ k \in Extractions /\ Here[k] = FilesOf(at)[k]
    BY <2>2, ListedBinaries DEF InSequence, Here, bin
  <2>4. ASSUME NEW i \in DOMAIN filelist, NEW e \in Extractions, i < at' \/ (i = at' /\ e < k')
        PROVE  i < at \/ (i = at /\ e < k) \/ (i = at /\ e = k)
    <3>1. i \in Nat /\ e \in Nat /\ e <= NumExtractions /\ at \in Nat /\ k \in Nat /\ NumExtractions \in Nat
      BY ListedBinaries, ExtractionNumbers DEF InSequence
    <3>2. (k < NumExtractions /\ at' = at /\ k' = k + 1) \/ (~(k < NumExtractions) /\ at' = at + 1 /\ k' = 1)
      BY <1>7 DEF CountFeatures, NextExtraction
    <3>3. k <= NumExtractions /\ e >= 1
      BY ExtractionNumbers, SMTT(30) DEF InSequence
    <3> QED
      BY <2>4, <3>1, <3>2, <3>3
  <2>5. ASSUME NEW i \in DOMAIN filelist, NEW e \in Extractions, ~Missing(FilesOf(i)[e]),
               i < at' \/ (i = at' /\ e < k')
        PROVE  FeaturesIn(FilesOf(i)[e]) \subseteq ToSet(globalFeat')
    <3> USE <2>1, <2>2, <2>3
    <3>1. CASE i < at \/ (i = at /\ e < k)
      <4>1. FeaturesIn(FilesOf(i)[e]) \subseteq ToSet(globalFeat)
        BY <2>5, <3>1 DEF Indexed
      <4> HIDE DEF FilesOf, Path, FeaturesIn, Missing
      <4> QED
        BY <4>1
    <3>2. CASE i = at /\ e = k
      <4> HIDE DEF FilesOf, Path, FeaturesIn, Missing
      <4> QED
        BY <2>5, <3>2
    <3> QED
      BY <2>4, <2>5, <3>1, <3>2
  <2>6. \A i \in DOMAIN filelist', e \in Extractions :
          (i < at' \/ (i = at' /\ e < k')) /\ ~Missing(FilesOf(i)[e])' =>
            FeaturesIn(FilesOf(i)[e])' \subseteq ToSet(globalFeat')
    <3>1. \A i \in DOMAIN filelist, e \in Extractions : UNCHANGED FilesOf(i)[e]
      BY <2>2 DEF files
    <3> QED
      BY <2>2, <2>5, <3>1
  <2>7. pc' # "data" /\ ~(done' >= 2) /\ (globalFeat \in Seq(Entry))'
    BY <2>1, <2>2, SMTT(30)
  <2> HIDE DEF FilesOf, Path, FeaturesIn, Missing
  <2> QED
    BY <2>6, <2>7 DEF Indexed
<1>8. CASE BuildGlobalFeatureIndex
  <2>1. /\ pc = "count" /\ pc' = "data" /\ featList' = globalFeat /\ at > Len(filelist)
        /\ UNCHANGED <<extracted, filelist, globalFeat>>
    BY <1>8 DEF BuildGlobalFeatureIndex, Goto
  <2>2. \A i \in DOMAIN filelist : i < at
    BY <2>1, ListedBinaries DEF InSequence
  <2> QED
    BY <2>1, <2>2 DEF Indexed
<1>9. CASE GenerateCRFData
  BY <1>9 DEF GenerateCRFData, Indexed
<1>10. CASE ExtractedAll
  BY <1>10 DEF ExtractedAll, Complete, Indexed
<1>11. CASE GeneratedAll
  BY <1>11 DEF GeneratedAll, Complete, Indexed, files
<1>12. CASE SelectFeatures
  BY <1>12 DEF SelectFeatures, Complete, Indexed, InSequence
<1>13. CASE WriteTrainingData
  BY <1>13, SMTT(30) DEF WriteTrainingData, Complete, Indexed, InSequence
<1>14. CASE Finished \/ UNCHANGED vars
  <2>1. UNCHANGED <<extracted, featList, pc, filelist, at, k, globalFeat, done>>
    BY <1>14 DEF Finished, vars, files
  <2>2. \A i, e : UNCHANGED <<Missing(FilesOf(i)[e]), FeaturesIn(FilesOf(i)[e])>>
    BY <2>1
  <2> HIDE DEF FilesOf, Path, FeaturesIn, Missing
  <2> QED
    BY <2>1, <2>2 DEF Indexed
<1> QED
  BY <1>2, <1>3, <1>4, <1>5, <1>6, <1>7, <1>8, <1>9, <1>10, <1>11, <1>12, <1>13, <1>14 DEF Next

LEMMA ToolchainsIndexedKept == InSequence /\ ToolchainsIndexed /\ [Next]_vars => ToolchainsIndexed'
<1> SUFFICES ASSUME InSequence, ToolchainsIndexed, [Next]_vars, pc' \in {"count", "data"} \/ done' >= 2
             PROVE  toolchains' = ToolchainIndexMap'
  BY DEF ToolchainsIndexed
<1>1. CASE done' >= 2
  <2>1. UNCHANGED <<toolchains, filelist>> /\ (done >= 2 \/ pc = "data")
    BY <1>1, LateSteps DEF GeneratedAll
  <2> QED
    BY <2>1 DEF ToolchainsIndexed, ToolchainIndexMap
<1>2. CASE pc' \in {"count", "data"}
  <2>1. BuildToolchainIndexMap \/ (pc \in {"count", "data"} /\ UNCHANGED <<toolchains, filelist>>)
    BY <1>2, ExecutionStep DEF Next, vars, files, StartFeatGen, StartNextScript, Killed, ExtractedAll, CountFeatures,
                BuildGlobalFeatureIndex, GenerateCRFData, GeneratedAll, SelectFeatures,
                WriteTrainingData, Finished, Begin, Goto, Complete
  <2> QED
    BY <2>1 DEF ToolchainsIndexed, ToolchainIndexMap, BuildToolchainIndexMap
<1> QED
  BY <1>1, <1>2
-----------------------------------------------------------------------------
(* The data files, as long as they are written and after.                  *)
LEMMA DataSteps ==
  ASSUME InSequence, [Next]_vars, pc' = "data"
  PROVE  /\ UNCHANGED <<extracted, filelist>> /\ done' = 1
         /\ BuildGlobalFeatureIndex \/ GenerateCRFData \/ UNCHANGED vars
<1>1. BuildGlobalFeatureIndex \/ GenerateCRFData \/ UNCHANGED vars
  BY ExecutionStep DEF Next, vars, files, StartFeatGen, StartNextScript, Killed, ExtractedAll, CountFeatures,
         BuildToolchainIndexMap, GeneratedAll, SelectFeatures,
         WriteTrainingData, Finished, Begin, Goto, Complete
<1>2. CASE BuildGlobalFeatureIndex
  BY <1>2 DEF BuildGlobalFeatureIndex, Goto, InSequence
<1>3. CASE GenerateCRFData
  BY <1>3 DEF GenerateCRFData, InSequence
<1>4. CASE UNCHANGED vars
  BY <1>4 DEF vars, files, InSequence
<1> QED
  BY <1>1, <1>2, <1>3, <1>4

LEMMA DataOfUnchanged ==
  ASSUME UNCHANGED <<extracted, filelist, featList, data>>, NEW i, DataOf(i)
  PROVE  DataOf(i)'
BY DEF DataOf, FilesOf, Label, ToolchainIndexMap, Path

(* One more file is written; another of the list may have the same name    *)
(* and is of the same toolchain then.                                      *)
LEMMA DataOfOneMore ==
  ASSUME InSequence, FilesTyped, Indexed, GenerateCRFData, NEW i \in DOMAIN filelist, i = at \/ DataOf(i)
  PROVE  DataOf(i)'
<1> DEFINE d == [j \in DOMAIN AllAddresses |-> DataLine(AllAddresses[j])]
           p == Path(filelist[i])
<1>1. /\ UNCHANGED <<extracted, filelist, featList>> /\ data' = [data EXCEPT ![Path(bin)] = d]
      /\ at <= Len(filelist) /\ pc = "data" /\ featList = globalFeat
      /\ \A e \in Extractions : ~Missing(Here[e]) /\ Decodable(Here[e])
  BY DEF GenerateCRFData, Indexed
<1>2. at \in DOMAIN filelist /\ bin = filelist[at] /\ Path(bin) \in Paths /\ p \in Paths /\ Here = FilesOf(at)
      /\ filelist[i] \in Binaries /\ bin \in Binaries
  BY <1>1, ListedBinaries DEF bin, Here, FilesOf
<1>3. d = LinesFrom(FilesOf(at), featList, Label(at))
  <2>1. DOMAIN AllAddresses = DOMAIN FilesOf(at)[1].instances.lines
        /\ \A j \in DOMAIN FilesOf(at)[1].instances.lines : AllAddresses[j] = FilesOf(at)[1].instances.lines[j].addr
    BY <1>2 DEF AllAddresses
  <2>2. \A a : DataLine(a) = LineFrom(FilesOf(at), featList, Label(at), a)
    BY <1>1, <1>2 DEF DataLine, LineFrom, PairsFrom, Label
  <2> QED
    BY <2>1, <2>2 DEF LinesFrom
<1> HIDE DEF d
<1>4. data'[p] = IF p = Path(bin) THEN d ELSE data[p]
  <2>1. data = [q \in Paths |-> data[q]]
    BY DEF FilesTyped
  <2> HIDE DEF p
  <2> QED
    BY <1>1, <1>2, <2>1
<1>5. CASE p = Path(bin)
  <2>1. FilesOf(i) = FilesOf(at)
    BY <1>2, <1>5 DEF FilesOf
  <2>2. Label(i) = Label(at)
    <3>1. Dir[filelist[i]] = Dir[bin]
      BY <1>5 DEF Path
    <3> QED
      BY <1>2, <3>1, TrainingAssumption DEF TrainingAssumption, Label
  <2>3. data'[p] = LinesFrom(FilesOf(i), featList, Label(i)) /\ Readable(FilesOf(i))
    BY <1>1, <1>2, <1>3, <1>4, <1>5, <2>1, <2>2 DEF Readable
  <2> QED
    BY <1>1, <2>3 DEF DataOf, FilesOf, Label, ToolchainIndexMap, Path
<1>6. CASE p # Path(bin)
  <2>1. DataOf(i) /\ data'[p] = data[p]
    BY <1>2, <1>4, <1>6
  <2> QED
    BY <1>1, <2>1 DEF DataOf, FilesOf, Label, ToolchainIndexMap, Path
<1> QED
  BY <1>5, <1>6

LEMMA DataWrittenKept ==
  InSequence /\ FilesTyped /\ Indexed /\ DataWritten /\ [Next]_vars => DataWritten'
<1> SUFFICES ASSUME InSequence, FilesTyped, Indexed, DataWritten, [Next]_vars,
                    NEW i \in DOMAIN filelist', (pc' = "data" /\ i < at') \/ done' >= 2
             PROVE  DataOf(i)'
  BY DEF DataWritten
<1>1. \A j \in DOMAIN filelist : (pc = "data" /\ j < at) \/ done >= 2 => DataOf(j)
  BY DEF DataWritten
<1>2. CASE done' >= 2
  <2>1. UNCHANGED <<extracted, filelist, featList, data>>
    BY <1>2, LateSteps
  <2>2. done >= 2 \/ (pc = "data" /\ i < at)
    <3>1. GeneratedAll => pc = "data" /\ i < at
      BY <2>1, ListedBinaries DEF GeneratedAll, InSequence
    <3> QED
      BY <1>2, <3>1, LateSteps
  <2>3. DataOf(i)
    BY <1>1, <2>1, <2>2
  <2> QED
    BY <2>1, <2>3, DataOfUnchanged
<1>3. CASE pc' = "data" /\ i < at' /\ ~(done' >= 2)
  <2>1. i \in DOMAIN filelist
    BY <1>3, DataSteps
  <2>2. CASE BuildGlobalFeatureIndex
    <3>1. at' = 1 /\ i >= 1
      BY <2>1, <2>2, ListedBinaries DEF BuildGlobalFeatureIndex, Goto
    <3> QED
      BY <1>3, <2>1, <3>1, ListedBinaries
  <2>3. CASE GenerateCRFData
    <3>1. i < at \/ i = at
      BY <1>3, <2>1, <2>3, ListedBinaries DEF GenerateCRFData, InSequence
    <3>2. i = at \/ DataOf(i)
      BY <1>1, <2>1, <2>3, <3>1 DEF GenerateCRFData
    <3> QED
      BY <2>1, <2>3, <3>2, DataOfOneMore
  <2>4. CASE UNCHANGED vars
    <3>1. UNCHANGED <<extracted, filelist, featList, data>> /\ pc = "data" /\ i < at
      BY <1>3, <2>4 DEF vars, files
    <3>2. DataOf(i)
      BY <1>1, <2>1, <3>1
    <3> QED
      BY <3>1, <3>2, DataOfUnchanged
  <2> QED
    BY <1>3, <2>2, <2>3, <2>4, DataSteps
<1> QED
  BY <1>2, <1>3
-----------------------------------------------------------------------------
(* The features selected, and the file that is trained on.                 *)
LEMMA CountsUnchanged ==
  ASSUME UNCHANGED <<data, filelist>>
  PROVE  UNCHANGED <<DataLines, Occurring>> /\ \A x : LargestCount(x)' = LargestCount(x)
<1>1. UNCHANGED DataLines
  BY DEF DataLines
<1>2. UNCHANGED Occurring
  BY <1>1 DEF Occurring
<1>3. \A x : Counts(x)' = Counts(x)
  BY <1>1 DEF Counts
<1> QED
  BY <1>1, <1>2, <1>3 DEF LargestCount

LEMMA SelectedKept == InSequence /\ Selected /\ [Next]_vars => Selected'
<1> SUFFICES ASSUME InSequence, Selected, [Next]_vars, done' >= 3, NEW i \in DOMAIN features',
                    NEW x, x = features'[i].index
             PROVE  /\ x \in Occurring'
                    /\ features'[i].feat = featList'[x]
                    /\ features'[i].scale = LargestCount(x)'
  BY DEF Selected
<1>1. /\ UNCHANGED <<featList, data, filelist>> /\ ((done >= 3 /\ UNCHANGED features) \/ SelectFeatures)
  <2>1. done' \in Nat /\ done' >= 2
    BY SequenceKept DEF InSequence
  <2> QED
    BY <2>1, LateSteps
<1>2. UNCHANGED Occurring /\ LargestCount(x)' = LargestCount(x)
  BY <1>1, CountsUnchanged
<1>3. CASE done >= 3 /\ UNCHANGED features
  BY <1>1, <1>2, <1>3 DEF Selected
<1>4. CASE SelectFeatures
  <2>1. PICK choose \in [1..Keep -> Occurring] :
          features' = [n \in 1..Keep |->
                        [index |-> choose[n], feat |-> featList[choose[n]], scale |-> FeatureScale(choose[n])]]
    BY <1>4 DEF SelectFeatures
  <2>2. i \in 1..Keep /\ features'[i] = [index |-> choose[i], feat |-> featList[choose[i]], scale |-> FeatureScale(choose[i])]
    BY <2>1
  <2>3. x = choose[i] /\ x \in Occurring /\ features'[i].feat = featList[x] /\ features'[i].scale = LargestCount(x)
    BY <2>1, <2>2 DEF FeatureScale
  <2> QED
    BY <1>1, <1>2, <2>3
<1> QED
  BY <1>1, <1>3, <1>4

LEMMA TrainedOnKept == InSequence /\ TrainedOn /\ [Next]_vars => TrainedOn'
<1> SUFFICES ASSUME InSequence, TrainedOn, [Next]_vars, done' = 4
             PROVE  train' = [i \in DOMAIN filelist |-> Chain(filelist[i])]'
  BY DEF TrainedOn
<1>1. /\ UNCHANGED <<data, filelist>>
      /\ (done = 4 /\ UNCHANGED <<features, train>>) \/ WriteTrainingData
  BY LateSteps
<1>2. UNCHANGED features /\ train' = [i \in DOMAIN filelist |-> Chain(filelist[i])]
  BY <1>1 DEF TrainedOn, WriteTrainingData
<1>3. \A x : LargestCount(x)' = LargestCount(x)
  BY <1>1, CountsUnchanged
<1>4. \A l : TrainLine(l)' = TrainLine(l)
  BY <1>2, <1>3 DEF TrainLine
<1>5. \A b : Chain(b)' = Chain(b)
  BY <1>1, <1>4 DEF Chain, Path
<1> QED
  BY <1>1, <1>2, <1>5

(* The inductive invariant.                                                *)
THEOREM ScriptsAgree == Spec => []TrainInv
<1>1. Init => TrainInv
  <2> SUFFICES ASSUME Init PROVE TrainInv
    OBVIOUS
  <2>1. FilesTyped /\ Extracted
    BY DEF Init, FilesTyped, Extracted, SoundFiles
  <2>2. Indexed /\ ToolchainsIndexed /\ DataWritten /\ Selected /\ TrainedOn
    BY DEF Init, Indexed, ToolchainsIndexed, DataWritten, Selected, TrainedOn
  <2> QED
    BY <2>1, <2>2, SequenceInit DEF TrainInv
<1>2. TrainInv /\ [Next]_vars => TrainInv'
  BY SequenceKept, FilesTypedKept, ExtractedKept, IndexedKept, ToolchainsIndexedKept, DataWrittenKept,
     SelectedKept, TrainedOnKept DEF TrainInv
<1> QED
  BY <1>1, <1>2, PTL DEF Spec
-----------------------------------------------------------------------------
(* The value of a list at the index of one of its values.                  *)
LEMMA IndexOfValue ==
  ASSUME NEW s, NEW x \in ToSet(s)
  PROVE  IndexIn(s, x) \in DOMAIN s /\ s[IndexIn(s, x)] = x
BY DEF ToSet, IndexIn

(* A binary's label is the index of its toolchain.                         *)
LEMMA LabelIsOfToolchain ==
  ASSUME InSequence, NEW i \in DOMAIN filelist
  PROVE  ToolchainIndexMap[Label(i)] = Toolchain[filelist[i]]
<1> DEFINE s == [j \in DOMAIN filelist |-> Toolchain[filelist[j]]]
           X == { Toolchain[b] : b \in Binaries }
<1>1. s \in Seq(X) /\ DOMAIN s = DOMAIN filelist
  BY ListedBinaries
<1>2. s[i] = Toolchain[filelist[i]] /\ ToolchainIndexMap = FirstAppearances(s)
  BY DEF ToolchainIndexMap
<1>3. Toolchain[filelist[i]] \in ToSet(s)
  BY <1>1, <1>2 DEF ToSet
<1> HIDE DEF s, X
<1>4. Toolchain[filelist[i]] \in ToSet(ToolchainIndexMap)
  BY <1>1, <1>2, <1>3, FirstAppearancesOfAll
<1> QED
  BY <1>4, IndexOfValue DEF Label

(* What is trained on, line by line.                                       *)
LEMMA TrainedLines ==
  ASSUME TrainInv, done = 4, NEW i \in DOMAIN filelist
  PROVE  LET lines == FilesOf(i)[1].instances.lines
         IN /\ Len(train) = Len(filelist) /\ DOMAIN train = DOMAIN filelist
            /\ DOMAIN train[i] = DOMAIN lines
            /\ \A j \in DOMAIN lines : train[i][j] = TrainLine(LineFrom(FilesOf(i), featList, Label(i), lines[j].addr))
<1> DEFINE lines == FilesOf(i)[1].instances.lines
<1>1. train = [n \in DOMAIN filelist |-> Chain(filelist[n])]
  BY DEF TrainInv, TrainedOn
<1>2. Len(filelist) \in Nat /\ DOMAIN filelist = 1..Len(filelist)
  BY ListedBinaries DEF TrainInv
<1>3. Len(train) = Len(filelist) /\ DOMAIN train = DOMAIN filelist
  BY <1>1, <1>2
<1>4. data[Path(filelist[i])] = LinesFrom(FilesOf(i), featList, Label(i))
  BY DEF TrainInv, DataWritten, DataOf
<1>5. train[i] = Chain(filelist[i])
  BY <1>1
<1>6. /\ DOMAIN LinesFrom(FilesOf(i), featList, Label(i)) = DOMAIN lines
      /\ \A j \in DOMAIN lines :
           LinesFrom(FilesOf(i), featList, Label(i))[j] = LineFrom(FilesOf(i), featList, Label(i), lines[j].addr)
  BY DEF LinesFrom
<1> HIDE DEF lines
<1>7. DOMAIN train[i] = DOMAIN lines
  BY <1>4, <1>5, <1>6 DEF Chain
<1>8. \A j \in DOMAIN lines : train[i][j] = TrainLine(LineFrom(FilesOf(i), featList, Label(i), lines[j].addr))
  BY <1>4, <1>5, <1>6 DEF Chain
<1> QED
  BY <1>3, <1>7, <1>8 DEF lines

(* Each chain that crfsuite learns from is one binary's functions in the   *)
(* order of its .instances file, labelled with its toolchain: FeatGen.py,  *)
(* GenDataFiles.py and TrainModel.py, for any file lists.                  *)
THEOREM ChainsOfTheirBinaries == Spec => []ChainsAreBinaries
<1>1. TrainInv => ChainsAreBinaries
  <2> SUFFICES ASSUME TrainInv, Completed(4) PROVE ChainsAreBinaries
    BY DEF ChainsAreBinaries
  <2>1. done = 4 /\ toolchains = ToolchainIndexMap /\ InSequence
    BY DEF Completed, TrainInv, InSequence, ToolchainsIndexed
  <2>2. Len(train) = Len(filelist) /\ DOMAIN train = DOMAIN filelist
    <3>1. TrainedOn /\ Len(filelist) \in Nat /\ DOMAIN filelist = 1..Len(filelist)
      BY <2>1, ListedBinaries DEF TrainInv
    <3> QED
      BY <2>1, <3>1 DEF TrainedOn
  <2>3. ASSUME NEW i \in DOMAIN train
        PROVE  /\ [j \in DOMAIN train[i] |-> train[i][j].addr] =
                    [j \in DOMAIN extracted[Path(filelist[i])][1].instances.lines |->
                       extracted[Path(filelist[i])][1].instances.lines[j].addr]
               /\ \A l \in ToSet(train[i]) : toolchains[l.label] = Toolchain[filelist[i]]
    <3> DEFINE lines == FilesOf(i)[1].instances.lines
    <3>1. i \in DOMAIN filelist
      BY <2>2
    <3>2. /\ DOMAIN train[i] = DOMAIN lines
          /\ \A j \in DOMAIN lines : train[i][j] = TrainLine(LineFrom(FilesOf(i), featList, Label(i), lines[j].addr))
      BY <2>1, <3>1, TrainedLines
    <3>3. lines = extracted[Path(filelist[i])][1].instances.lines
      BY DEF FilesOf
    <3> HIDE DEF lines
    <3>4. \A j \in DOMAIN lines : train[i][j].addr = lines[j].addr /\ train[i][j].label = Label(i)
      BY <3>2 DEF TrainLine, LineFrom
    <3>5. toolchains[Label(i)] = Toolchain[filelist[i]]
      BY <2>1, <3>1, LabelIsOfToolchain
    <3>6. \A l \in ToSet(train[i]) : toolchains[l.label] = Toolchain[filelist[i]]
      BY <3>2, <3>4, <3>5 DEF ToSet
    <3>7. [j \in DOMAIN train[i] |-> train[i][j].addr] = [j \in DOMAIN lines |-> lines[j].addr]
      BY <3>2, <3>4
    <3> QED
      BY <3>3, <3>6, <3>7
  <2> QED
    BY <2>2, <2>3 DEF ChainsAreBinaries
<1> QED
  BY <1>1, ScriptsAgree, PTL
-----------------------------------------------------------------------------
(* An index that occurs in the data is that of a feature of the list.      *)
LEMMA OccurringIndices ==
  ASSUME TrainInv, done >= 2, NEW x \in Occurring
  PROVE  \E s \in ToSet(featList) : x = IndexIn(featList, s)
<1>1. PICK l \in DataLines : \E p \in l.pairs : x = p[1]
  BY DEF Occurring
<1>2. PICK b \in ToSet(filelist) : l \in ToSet(data[Path(b)])
  BY <1>1 DEF DataLines
<1>3. PICK i \in DOMAIN filelist : b = filelist[i]
  BY <1>2 DEF ToSet
<1>4. data[Path(b)] = LinesFrom(FilesOf(i), featList, Label(i))
  BY <1>3 DEF TrainInv, DataWritten, DataOf
<1>5. PICK a : l = LineFrom(FilesOf(i), featList, Label(i), a)
  BY <1>2, <1>4 DEF LinesFrom, ToSet
<1>6. \E p \in PairsFrom(FilesOf(i), featList, a) : x = p[1]
  BY <1>1, <1>5 DEF LineFrom, Deduped
<1> QED
  BY <1>6 DEF PairsFrom

(* Selecting from the data and then dropping the duplicates is dropping    *)
(* the duplicates and then selecting.                                      *)
Renumbered(pairs, kept) ==
  { <<IndexIn(kept, p[1]), p[2]>> : p \in { q \in pairs : q[1] \in ToSet(kept) } }

LEMMA SelectionCommutes ==
  ASSUME NEW pairs, NEW kept
  PROVE  Deduped(Renumbered(pairs, kept)) = Renumbered(Deduped(pairs), kept)
<1>1. \A x, y \in ToSet(kept) : IndexIn(kept, x) = IndexIn(kept, y) => x = y
  BY IndexOfValue
<1>2. ASSUME NEW z \in Deduped(Renumbered(pairs, kept)) PROVE z \in Renumbered(Deduped(pairs), kept)
  <2>1. PICK p \in pairs : p[1] \in ToSet(kept) /\ z = <<IndexIn(kept, p[1]), p[2]>>
    BY <1>2 DEF Deduped, Renumbered
  <2>2. ASSUME NEW q \in pairs, q[1] = p[1] PROVE p[2] <= q[2]
    <3> DEFINE y == <<IndexIn(kept, q[1]), q[2]>>
    <3>1. y \in Renumbered(pairs, kept) /\ y[1] = z[1] /\ y[2] = q[2] /\ z[2] = p[2]
      BY <2>1, <2>2 DEF Renumbered
    <3> QED
      BY <1>2, <3>1 DEF Deduped
  <2>3. p \in Deduped(pairs)
    BY <2>2 DEF Deduped
  <2> QED
    BY <2>1, <2>3 DEF Renumbered
<1>3. ASSUME NEW z \in Renumbered(Deduped(pairs), kept) PROVE z \in Deduped(Renumbered(pairs, kept))
  <2>1. PICK p \in Deduped(pairs) : p[1] \in ToSet(kept) /\ z = <<IndexIn(kept, p[1]), p[2]>>
    BY <1>3 DEF Renumbered
  <2>2. p \in pairs /\ \A q \in pairs : q[1] = p[1] => p[2] <= q[2]
    BY <2>1 DEF Deduped
  <2>3. z \in Renumbered(pairs, kept)
    BY <2>1, <2>2 DEF Renumbered
  <2>4. ASSUME NEW y \in Renumbered(pairs, kept), y[1] = z[1] PROVE z[2] <= y[2]
    <3>1. PICK q \in pairs : q[1] \in ToSet(kept) /\ y = <<IndexIn(kept, q[1]), q[2]>>
      BY <2>4 DEF Renumbered
    <3>2. q[1] = p[1]
      BY <1>1, <2>1, <2>4, <3>1
    <3> QED
      BY <2>1, <2>2, <3>1, <3>2
  <2> QED
    BY <2>3, <2>4 DEF Deduped
<1> QED
  BY <1>2, <1>3

(* Origin.py numbers the strings of features.txt, TrainModel.py the        *)
(* indices beside them.                                                    *)
Kept == [i \in DOMAIN features |-> features[i].index]
Strings == [i \in DOMAIN features |-> features[i].feat]

LEMMA KeptStrings ==
  ASSUME TrainInv, done >= 3, NEW s
  PROVE  /\ s \in ToSet(Strings) <=> s \in ToSet(featList) /\ IndexIn(featList, s) \in ToSet(Kept)
         /\ s \in ToSet(featList) => IndexIn(Strings, s) = IndexIn(Kept, IndexIn(featList, s))
<1> USE DEF Kept, Strings
<1>1. ASSUME NEW i \in DOMAIN features
      PROVE  /\ Strings[i] \in ToSet(featList) /\ Kept[i] = IndexIn(featList, Strings[i])
             /\ Strings[i] = featList[Kept[i]]
  <2>1. features[i].index \in Occurring /\ features[i].feat = featList[features[i].index]
    BY DEF TrainInv, Selected
  <2>2. PICK t \in ToSet(featList) : features[i].index = IndexIn(featList, t)
    BY <2>1, OccurringIndices DEF TrainInv, InSequence
  <2>3. featList[features[i].index] = t
    BY <2>2, IndexOfValue
  <2> QED
    BY <2>1, <2>2, <2>3
<1>2. DOMAIN Strings = DOMAIN features /\ DOMAIN Kept = DOMAIN features
  OBVIOUS
<1> HIDE DEF Kept, Strings
<1>3. ASSUME s \in ToSet(featList), NEW i \in DOMAIN features
      PROVE  Strings[i] = s <=> Kept[i] = IndexIn(featList, s)
  <2>1. featList[IndexIn(featList, s)] = s
    BY <1>3, IndexOfValue
  <2> QED
    BY <1>1, <2>1
<1>4. s \in ToSet(Strings) <=> s \in ToSet(featList) /\ IndexIn(featList, s) \in ToSet(Kept)
  <2>1. ASSUME s \in ToSet(Strings) PROVE s \in ToSet(featList) /\ IndexIn(featList, s) \in ToSet(Kept)
    <3>1. PICK i \in DOMAIN features : Strings[i] = s
      BY <1>2, <2>1 DEF ToSet
    <3>2. Kept[i] \in ToSet(Kept)
      BY <1>2 DEF ToSet
    <3> QED
      BY <1>1, <3>1, <3>2
  <2>2. ASSUME s \in ToSet(featList), IndexIn(featList, s) \in ToSet(Kept) PROVE s \in ToSet(Strings)
    <3>1. PICK i \in DOMAIN features : Kept[i] = IndexIn(featList, s)
      BY <1>2, <2>2 DEF ToSet
    <3>2. Strings[i] = s
      BY <1>3, <2>2, <3>1
    <3> QED
      BY <1>2, <3>2 DEF ToSet
  <2> QED
    BY <2>1, <2>2
<1>5. s \in ToSet(featList) => IndexIn(Strings, s) = IndexIn(Kept, IndexIn(featList, s))
  BY <1>2, <1>3 DEF IndexIn
<1> QED
  BY <1>4, <1>5

(* The pairs of Origin.py are the selected ones of the data file.          *)
LEMMA SameSelection ==
  ASSUME TrainInv, done >= 3, NEW f, NEW a
  PROVE  PairsFrom(f, Strings, a) = Renumbered(PairsFrom(f, featList, a), Kept)
<1>1. ASSUME NEW z \in PairsFrom(f, Strings, a) PROVE z \in Renumbered(PairsFrom(f, featList, a), Kept)
  <2>1. PICK e \in Extractions :
          \E q \in Decoded(f[e], a) : q[1] \in ToSet(Strings) /\ z = <<IndexIn(Strings, q[1]), q[2]>>
    BY DEF PairsFrom
  <2>2. PICK q \in Decoded(f[e], a) : q[1] \in ToSet(Strings) /\ z = <<IndexIn(Strings, q[1]), q[2]>>
    BY <2>1
  <2> DEFINE s == q[1]
             p == <<IndexIn(featList, s), q[2]>>
  <2>3. /\ s \in ToSet(featList) /\ IndexIn(featList, s) \in ToSet(Kept)
        /\ IndexIn(Strings, s) = IndexIn(Kept, IndexIn(featList, s))
    BY <2>2, KeptStrings
  <2>4. p \in PairsFrom(f, featList, a)
    BY <2>3 DEF PairsFrom
  <2>5. p[1] \in ToSet(Kept) /\ z = <<IndexIn(Kept, p[1]), p[2]>>
    BY <2>2, <2>3
  <2> HIDE DEF p
  <2> QED
    BY <2>4, <2>5 DEF Renumbered
<1>2. ASSUME NEW z \in Renumbered(PairsFrom(f, featList, a), Kept) PROVE z \in PairsFrom(f, Strings, a)
  <2>1. PICK p \in PairsFrom(f, featList, a) : p[1] \in ToSet(Kept) /\ z = <<IndexIn(Kept, p[1]), p[2]>>
    BY DEF Renumbered
  <2>2. PICK e \in Extractions :
          \E q \in Decoded(f[e], a) : q[1] \in ToSet(featList) /\ p = <<IndexIn(featList, q[1]), q[2]>>
    BY DEF PairsFrom
  <2>3. PICK q \in Decoded(f[e], a) : q[1] \in ToSet(featList) /\ p = <<IndexIn(featList, q[1]), q[2]>>
    BY <2>2
  <2> DEFINE s == q[1]
  <2>4. s \in ToSet(featList) /\ IndexIn(featList, s) \in ToSet(Kept) /\ p[1] = IndexIn(featList, s) /\ p[2] = q[2]
    BY <2>1, <2>3
  <2>5. s \in ToSet(Strings) /\ IndexIn(Strings, s) = IndexIn(Kept, IndexIn(featList, s))
    BY <2>4, KeptStrings
  <2>6. z = <<IndexIn(Strings, s), q[2]>>
    BY <2>1, <2>4, <2>5
  <2> QED
    BY <2>5, <2>6 DEF PairsFrom
<1> QED
  BY <1>1, <1>2

(* A function that is identified is represented as it was when the model   *)
(* was trained: TrainModel.py's lines, through the global index, and       *)
(* Origin.py's vectors, through the strings, are equal.                    *)
THEOREM IdentifiedAsTrained == Spec => []TrainedAsIdentified
<1>1. TrainInv => TrainedAsIdentified
  <2> SUFFICES ASSUME TrainInv, Completed(4), NEW i \in DOMAIN train, NEW l \in ToSet(train[i])
               PROVE  l.pairs = OriginVector(Path(filelist[i]), l.addr)
    BY DEF TrainedAsIdentified
  <2>1. done = 4 /\ i \in DOMAIN filelist
    <3>1. done = 4 /\ train = [n \in DOMAIN filelist |-> Chain(filelist[n])]
      BY DEF Completed, TrainInv, InSequence, TrainedOn
    <3> QED
      BY <3>1
  <2> DEFINE f == FilesOf(i)
             lines == f[1].instances.lines
  <2>2. /\ DOMAIN train[i] = DOMAIN lines
        /\ \A j \in DOMAIN lines : train[i][j] = TrainLine(LineFrom(f, featList, Label(i), lines[j].addr))
    BY <2>1, TrainedLines
  <2>3. f = extracted[Path(filelist[i])]
    BY DEF FilesOf
  <2> HIDE DEF lines, f
  <2>4. PICK a : l = TrainLine(LineFrom(f, featList, Label(i), a))
    BY <2>2 DEF ToSet
  <2> DEFINE pairs == PairsFrom(f, featList, a)
  <2>5. l.addr = a /\ l.pairs = { <<IndexIn(Kept, p[1]), Milli(p[2], LargestCount(p[1]))>> :
                                  p \in { q \in Deduped(pairs) : q[1] \in ToSet(Kept) } }
    BY <2>4 DEF TrainLine, LineFrom, Kept
  <2>6. OriginVector(Path(filelist[i]), a) =
          { <<q[1], Milli(q[2], features[q[1]].scale)>> : q \in Deduped(PairsFrom(f, Strings, a)) }
    BY <2>3 DEF OriginVector, PairsFrom, Strings
  <2>7. Deduped(PairsFrom(f, Strings, a)) = Renumbered(Deduped(pairs), Kept)
    BY <2>1, SameSelection, SelectionCommutes
  <2> HIDE DEF pairs
  <2>8. ASSUME NEW x \in ToSet(Kept)
        PROVE  features[IndexIn(Kept, x)].scale = LargestCount(x)
    <3>1. IndexIn(Kept, x) \in DOMAIN Kept /\ Kept[IndexIn(Kept, x)] = x
      BY IndexOfValue
    <3>2. IndexIn(Kept, x) \in DOMAIN features /\ features[IndexIn(Kept, x)].index = x
      BY <3>1 DEF Kept
    <3> QED
      BY <2>1, <3>2 DEF TrainInv, Selected
  <2>9. { <<q[1], Milli(q[2], features[q[1]].scale)>> : q \in Renumbered(Deduped(pairs), Kept) } =
        { <<IndexIn(Kept, p[1]), Milli(p[2], LargestCount(p[1]))>> :
          p \in { q \in Deduped(pairs) : q[1] \in ToSet(Kept) } }
    <3> DEFINE S == { q \in Deduped(pairs) : q[1] \in ToSet(Kept) }
               left == { <<q[1], Milli(q[2], features[q[1]].scale)>> : q \in Renumbered(Deduped(pairs), Kept) }
               right == { <<IndexIn(Kept, p[1]), Milli(p[2], LargestCount(p[1]))>> : p \in S }
    <3>1. Renumbered(Deduped(pairs), Kept) = { <<IndexIn(Kept, p[1]), p[2]>> : p \in S }
      BY DEF Renumbered
    <3>2. ASSUME NEW p \in S
          PROVE  LET q == <<IndexIn(Kept, p[1]), p[2]>>
                 IN <<q[1], Milli(q[2], features[q[1]].scale)>> = <<IndexIn(Kept, p[1]), Milli(p[2], LargestCount(p[1]))>>
      BY <2>8
    <3> HIDE DEF S
    <3>3. ASSUME NEW z \in left PROVE z \in right
      <4>1. PICK q \in Renumbered(Deduped(pairs), Kept) : z = <<q[1], Milli(q[2], features[q[1]].scale)>>
        OBVIOUS
      <4>2. PICK p \in S : q = <<IndexIn(Kept, p[1]), p[2]>>
        BY <3>1
      <4> QED
        BY <3>2, <4>1, <4>2
    <3>4. ASSUME NEW z \in right PROVE z \in left
      <4>1. PICK p \in S : z = <<IndexIn(Kept, p[1]), Milli(p[2], LargestCount(p[1]))>>
        OBVIOUS
      <4>2. PICK q \in Renumbered(Deduped(pairs), Kept) : q = <<IndexIn(Kept, p[1]), p[2]>>
        BY <3>1
      <4>3. z = <<q[1], Milli(q[2], features[q[1]].scale)>>
        BY <3>2, <4>1, <4>2
      <4> QED
        BY <4>3
    <3> HIDE DEF left, right
    <3>5. left = right
      BY <3>3, <3>4
    <3> QED
      BY <3>5 DEF left, right, S
  <2> QED
    BY <2>5, <2>6, <2>7, <2>9
<1> QED
  BY <1>1, ScriptsAgree, PTL
-----------------------------------------------------------------------------
(* The files of an extraction that ended are those of the binary, line by  *)
(* line.                                                                   *)
OutputOf(g, b, e, addrs, index) ==
  /\ g.instances.lines = [i \in DOMAIN addrs |-> LineBy(b, e, addrs[i], index)]
  /\ g.featlist.entries = index

LEMMA WholeExtraction ==
  ASSUME NEW e \in Extractions, NEW g, SoundFiles(g, e), ~Missing(g), g.featlist.whole, g.instances.by = g.featlist.by,
         NEW b, b = g.instances.by.bin, Len(g.instances.lines) = Cardinality(Text[b])
  PROVE  /\ b \in Binaries
         /\ \E addrs \in SetToSeqs(Text[b]) : \E index \in SetToSeqs(FeaturesBy(b, e, addrs)) :
              OutputOf(g, b, e, addrs, index)
<1>1. b \in Binaries /\ ByOneExecution(g, e) /\ g.featlist # NONE
  BY DEF SoundFiles, Earlier, Missing
<1>2. PICK some \in SUBSET Text[b] :
        \E addrs \in SetToSeqs(some) : \E index \in SetToSeqs(FeaturesBy(b, e, addrs)) :
          OutputOf(g, b, e, addrs, index)
  BY <1>1 DEF ByOneExecution, OutputOf
<1>3. PICK addrs \in SetToSeqs(some) :
        \E index \in SetToSeqs(FeaturesBy(b, e, addrs)) : OutputOf(g, b, e, addrs, index)
  BY <1>2
<1>4. IsFiniteSet(some) /\ IsFiniteSet(Text[b])
  BY <1>1, IndexedFeatures, TrainingAssumption DEF TrainingAssumption
<1>5. Len(addrs) = Cardinality(some) /\ Len(addrs) \in Nat /\ DOMAIN addrs = 1..Len(addrs)
  BY <1>4, AddressesInOrder
<1>6. Len(g.instances.lines) = Len(addrs)
  BY <1>3, <1>5 DEF OutputOf
<1>7. some = Text[b]
  BY <1>4, <1>5, <1>6, FS_Subset
<1> QED
  BY <1>1, <1>3, <1>7

(* What they say of a function is what its features are.                   *)
FeaturesAt(b, e, a) == { <<x, Feat[b][e][a][x]>> : x \in DOMAIN Feat[b][e][a] }

LEMMA LinesOfWhole ==
  ASSUME NEW b \in Binaries, NEW e \in Extractions, NEW addrs \in SetToSeqs(Text[b]),
         NEW index \in SetToSeqs(FeaturesBy(b, e, addrs)), NEW g, OutputOf(g, b, e, addrs, index)
  PROVE  /\ { l.addr : l \in ToSet(g.instances.lines) } = Text[b]
         /\ \A a \in Text[b] : Decoded(g, a) = FeaturesAt(b, e, a)
<1>1. IsFiniteSet(Text[b]) /\ Text[b] \in SUBSET Text[b]
  BY TrainingAssumption DEF TrainingAssumption
<1>2. IsFiniteSet(FeaturesBy(b, e, addrs))
  BY <1>1, IndexedFeatures
<1>3. ToSet(addrs) = Text[b] /\ ToSet(index) = FeaturesBy(b, e, addrs)
  BY <1>1, <1>2, SequenceOfAll
<1>4. ToSet(g.instances.lines) = { LineBy(b, e, a, index) : a \in Text[b] }
  BY <1>3 DEF ToSet, OutputOf
<1>5. \A a : LineBy(b, e, a, index).addr = a
  BY DEF LineBy
<1>6. { l.addr : l \in ToSet(g.instances.lines) } = Text[b]
  <2> DEFINE S == { l.addr : l \in ToSet(g.instances.lines) }
  <2>1. S \subseteq Text[b]
    BY <1>4, <1>5
  <2>2. Text[b] \subseteq S
    BY <1>4, <1>5
  <2> QED
    BY <2>1, <2>2
<1>7. ASSUME NEW a \in Text[b] PROVE Decoded(g, a) = FeaturesAt(b, e, a)
  <2> DEFINE line == LineBy(b, e, a, index)
  <2>1. { m \in ToSet(g.instances.lines) : m.addr = a } = {line}
    BY <1>4, <1>5
  <2>2. Decoded(g, a) = { <<index[i], line.pairs[i]>> : i \in DOMAIN line.pairs }
    <3> DEFINE S == { m \in ToSet(g.instances.lines) : m.addr = a }
    <3>1. S = {line}
      BY <2>1
    <3>2. Decoded(g, a) = UNION { { <<index[i], l.pairs[i]>> : i \in DOMAIN l.pairs } : l \in S }
      BY DEF Decoded, OutputOf
    <3> HIDE DEF line, S
    <3> QED
      BY <3>1, <3>2
  <2>3. DOMAIN line.pairs = { j \in DOMAIN index : index[j] \in DOMAIN Feat[b][e][a] }
        /\ \A i \in DOMAIN line.pairs : line.pairs[i] = Feat[b][e][a][index[i]]
    BY DEF LineBy
  <2> HIDE DEF line
  <2>4. Decoded(g, a) \subseteq FeaturesAt(b, e, a)
    BY <2>2, <2>3 DEF FeaturesAt
  <2>5. ASSUME NEW x \in DOMAIN Feat[b][e][a] PROVE <<x, Feat[b][e][a][x]>> \in Decoded(g, a)
    <3>1. PICK n \in DOMAIN addrs : addrs[n] = a
      BY <1>3 DEF ToSet
    <3>2. x \in FeaturesBy(b, e, addrs)
      BY <3>1 DEF FeaturesBy
    <3>3. PICK j \in DOMAIN index : index[j] = x
      BY <1>3, <3>2 DEF ToSet
    <3>4. j \in DOMAIN line.pairs /\ line.pairs[j] = Feat[b][e][a][x]
      BY <2>3, <3>3
    <3> QED
      BY <2>2, <3>3, <3>4
  <2> QED
    BY <2>4, <2>5 DEF FeaturesAt
<1> QED
  BY <1>6, <1>7

(* What is decoded is on a line, so that it was numbered.                  *)
LEMMA DecodedIsOnALine ==
  ASSUME NEW g, NEW a, NEW q \in Decoded(g, a)
  PROVE  q[1] \in FeaturesIn(g)
<1>1. PICK l \in ToSet(g.instances.lines) : q \in { <<g.featlist.entries[i], l.pairs[i]>> : i \in DOMAIN l.pairs }
  BY DEF Decoded
<1>2. q[1] \in { g.featlist.entries[i] : i \in DOMAIN l.pairs }
  BY <1>1
<1> QED
  BY <1>2 DEF FeaturesIn

(* The features a line of a data file stands for, and those of a function. *)
Named(list, pairs) == { <<list[p[1]], p[2]>> : p \in pairs }
AllFeaturesAt(b, a) == UNION { FeaturesAt(b, e, a) : e \in Extractions }

(* The line of a function of a binary of which all extractions ended.      *)
LEMMA LineOfWhole ==
  ASSUME NEW b \in Binaries, NEW f, NEW list, NEW label, NEW a \in Text[b],
         \A e \in Extractions : Decoded(f[e], a) = FeaturesAt(b, e, a),
         \A e \in Extractions : FeaturesIn(f[e]) \subseteq ToSet(list)
  PROVE  Named(list, LineFrom(f, list, label, a).pairs) = AllFeaturesAt(b, a)
<1> DEFINE pairs == PairsFrom(f, list, a)
           all == UNION { FeaturesAt(b, e, a) : e \in Extractions }
<1>1. \A q \in all : q = <<q[1], q[2]>> /\ q[1] \in ToSet(list)
                     /\ list[IndexIn(list, q[1])] = q[1]
  <2> SUFFICES ASSUME NEW e \in Extractions, NEW q \in FeaturesAt(b, e, a)
               PROVE  q = <<q[1], q[2]>> /\ q[1] \in ToSet(list) /\ list[IndexIn(list, q[1])] = q[1]
    OBVIOUS
  <2>1. q[1] \in ToSet(list)
    BY DecodedIsOnALine
  <2> QED
    BY <2>1, IndexOfValue DEF FeaturesAt
<1>2. \A q, r \in all : q[1] = r[1] => q[2] <= r[2]
  <2> SUFFICES ASSUME NEW d \in Extractions, NEW e \in Extractions,
                      NEW q \in FeaturesAt(b, d, a), NEW r \in FeaturesAt(b, e, a), q[1] = r[1]
               PROVE  q[2] <= r[2]
    OBVIOUS
  <2>1. PICK x \in DOMAIN Feat[b][d][a] : q = <<x, Feat[b][d][a][x]>>
    BY DEF FeaturesAt
  <2>2. PICK y \in DOMAIN Feat[b][e][a] : r = <<y, Feat[b][e][a][y]>>
    BY DEF FeaturesAt
  <2>3. x = y /\ q[2] = Feat[b][d][a][x] /\ r[2] = Feat[b][e][a][x]
    BY <2>1, <2>2
  <2>4. Feat[b][d][a][x] = Feat[b][e][a][x]
    BY <2>1, <2>2, <2>3, CanonicalAssumption DEF CanonicalAssumption
  <2>5. Feat[b][d][a][x] \in Nat
    BY <2>1, TrainingAssumption DEF TrainingAssumption
  <2> QED
    BY <2>3, <2>4, <2>5
<1>3. pairs = { <<IndexIn(list, q[1]), q[2]>> : q \in all }
  BY <1>1 DEF PairsFrom
<1> HIDE DEF all, pairs
<1>4. \A p, r \in pairs : p[1] = r[1] => p[2] <= r[2]
  <2> SUFFICES ASSUME NEW p \in pairs, NEW r \in pairs, p[1] = r[1] PROVE p[2] <= r[2]
    OBVIOUS
  <2>1. PICK q \in all : p = <<IndexIn(list, q[1]), q[2]>>
    BY <1>3
  <2>2. PICK s \in all : r = <<IndexIn(list, s[1]), s[2]>>
    BY <1>3
  <2>3. q[1] = s[1]
    BY <1>1, <2>1, <2>2
  <2> QED
    BY <1>2, <2>1, <2>2, <2>3
<1>5. LineFrom(f, list, label, a).pairs = pairs
  <2>1. Deduped(pairs) = pairs
    BY <1>4 DEF Deduped
  <2> QED
    BY <2>1 DEF LineFrom, pairs
<1>6. \A q \in all : <<list[<<IndexIn(list, q[1]), q[2]>>[1]], <<IndexIn(list, q[1]), q[2]>>[2]>> = q
  BY <1>1
<1>7. { <<list[p[1]], p[2]>> : p \in pairs } = all
  <2>1. ASSUME NEW p \in pairs PROVE <<list[p[1]], p[2]>> \in all
    BY <1>3, <1>6
  <2>2. ASSUME NEW q \in all PROVE \E p \in pairs : <<list[p[1]], p[2]>> = q
    BY <1>3, <1>6
  <2> QED
    BY <2>1, <2>2
<1> QED
  BY <1>5, <1>7 DEF all, Named, AllFeaturesAt

(* Nothing is lost or mixed up between an extraction that ended and the    *)
(* data file: two passes of GenDataFiles.py over files of which each may   *)
(* be of another round, or of a binary with the same name.                 *)
THEOREM WholeExtractionsMakeData == Spec => []DataOfWholeExtractions
<1>1. TrainInv => DataOfWholeExtractions
  <2> SUFFICES ASSUME TrainInv, Completed(2), NEW n \in ToSet(filelist), WholeIn(Path(n))
               PROVE  LET of == extracted[Path(n)][1].instances.by.bin
                      IN /\ { l.addr : l \in ToSet(data[Path(n)]) } = Text[of]
                         /\ \A l \in ToSet(data[Path(n)]) :
                              { <<featList[p[1]], p[2]>> : p \in l.pairs } =
                                UNION { { <<f, Feat[of][e][l.addr][f]>> : f \in DOMAIN Feat[of][e][l.addr] } :
                                        e \in Extractions }
    BY DEF DataOfWholeExtractions
  <2>1. PICK i \in DOMAIN filelist : n = filelist[i]
    BY DEF ToSet
  <2> DEFINE f == FilesOf(i)
             lines == f[1].instances.lines
             b == extracted[Path(n)][1].instances.by.bin
  <2>2. f = extracted[Path(n)] /\ Path(n) \in Paths /\ done >= 2
    BY <2>1, ListedBinaries DEF FilesOf, Completed, TrainInv
  <2>3. Readable(f) /\ data[Path(n)] = LinesFrom(f, featList, Label(i))
    BY <2>1, <2>2 DEF TrainInv, DataWritten, DataOf
  <2>4. \A e \in Extractions : SoundFiles(f[e], e) /\ FeaturesIn(f[e]) \subseteq ToSet(featList)
    BY <2>2, <2>3 DEF TrainInv, Extracted, Indexed, Readable
  <2>5. \A e \in Extractions :
          /\ f[e].featlist.whole /\ f[e].instances.by = f[e].featlist.by /\ f[e].instances.by.bin = b
          /\ Len(f[e].instances.lines) = Cardinality(Text[b])
    BY <2>2 DEF WholeIn
  <2> HIDE DEF f, b
  <2>6. ASSUME NEW e \in Extractions
        PROVE  /\ b \in Binaries
               /\ { l.addr : l \in ToSet(f[e].instances.lines) } = Text[b]
               /\ \A a \in Text[b] : Decoded(f[e], a) = FeaturesAt(b, e, a)
    <3> DEFINE g == f[e]
    <3>1. SoundFiles(g, e) /\ ~Missing(g) /\ g.featlist.whole /\ g.instances.by = g.featlist.by
          /\ b = g.instances.by.bin /\ Len(g.instances.lines) = Cardinality(Text[b])
      BY <2>3, <2>4, <2>5 DEF Readable
    <3> HIDE DEF g
    <3>2. b \in Binaries
      BY <3>1, WholeExtraction
    <3>3. PICK addrs \in SetToSeqs(Text[b]) : \E index \in SetToSeqs(FeaturesBy(b, e, addrs)) :
             OutputOf(g, b, e, addrs, index)
      BY <3>1, WholeExtraction
    <3>4. PICK index \in SetToSeqs(FeaturesBy(b, e, addrs)) : OutputOf(g, b, e, addrs, index)
      BY <3>3
    <3>5. /\ { l.addr : l \in ToSet(g.instances.lines) } = Text[b]
          /\ \A a \in Text[b] : Decoded(g, a) = FeaturesAt(b, e, a)
      BY <3>2, <3>4, LinesOfWhole
    <3> QED
      BY <3>2, <3>5 DEF g
  <2>7. b \in Binaries /\ { l.addr : l \in ToSet(lines) } = Text[b]
    BY <2>6, ExtractionNumbers
  <2> HIDE DEF lines
  <2>8. /\ DOMAIN data[Path(n)] = DOMAIN lines
        /\ \A j \in DOMAIN lines : data[Path(n)][j] = LineFrom(f, featList, Label(i), lines[j].addr)
    BY <2>3 DEF LinesFrom, lines
  <2>9. ToSet(data[Path(n)]) = { LineFrom(f, featList, Label(i), l.addr) : l \in ToSet(lines) }
    BY <2>8 DEF ToSet
  <2>10. ToSet(data[Path(n)]) = { LineFrom(f, featList, Label(i), a) : a \in Text[b] }
    BY <2>7, <2>9
  <2>11. ASSUME NEW a \in Text[b]
         PROVE  /\ LineFrom(f, featList, Label(i), a).addr = a
                /\ { <<featList[p[1]], p[2]>> : p \in LineFrom(f, featList, Label(i), a).pairs } =
                     UNION { FeaturesAt(b, e, a) : e \in Extractions }
    <3>1. LineFrom(f, featList, Label(i), a).addr = a
      BY DEF LineFrom
    <3> DEFINE label == Label(i)
    <3> HIDE DEF label
    <3>2. /\ b \in Binaries
          /\ \A e \in Extractions : Decoded(f[e], a) = FeaturesAt(b, e, a)
          /\ \A e \in Extractions : FeaturesIn(f[e]) \subseteq ToSet(featList)
      BY <2>4, <2>6, <2>7
    <3>3. Named(featList, LineFrom(f, featList, label, a).pairs) = AllFeaturesAt(b, a)
      BY <3>2, LineOfWhole, Zenon
    <3> QED
      BY <3>1, <3>3 DEF label, Named, AllFeaturesAt
  <2>12. { l.addr : l \in ToSet(data[Path(n)]) } = Text[b]
    <3>1. { l.addr : l \in ToSet(data[Path(n)]) } \subseteq Text[b]
      BY <2>10, <2>11
    <3>2. Text[b] \subseteq { l.addr : l \in ToSet(data[Path(n)]) }
      BY <2>10, <2>11
    <3> QED
      BY <3>1, <3>2
  <2>13. \A l \in ToSet(data[Path(n)]) :
           { <<featList[p[1]], p[2]>> : p \in l.pairs } = UNION { FeaturesAt(b, e, l.addr) : e \in Extractions }
    BY <2>10, <2>11
  <2> QED
    BY <2>12, <2>13 DEF FeaturesAt, b
<1> QED
  BY <1>1, ScriptsAgree, PTL
===============================================================================
