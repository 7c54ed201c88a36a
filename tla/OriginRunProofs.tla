--------------------------- MODULE OriginRunProofs ---------------------------
(***************************************************************************)
(* Proofs about OriginRun, for any binaries, names, extractions and        *)
(* features and any number of runs.                                        *)
(***************************************************************************)
EXTENDS OriginRun, Lemmas, FiniteSetTheorems, SequenceTheorems, TLAPS

(* Where the child is, the files it writes are in the state its code has   *)
(* brought them to, and the list of this extraction is not there before    *)
(* the instances are whole.  (Execute's test of the list is what makes     *)
(* this true at the child's start.)                                        *)
ChildHasItsFiles ==
  /\ child \in {"start", "lines", "closed"} => featlist[n][k] = NONE
  /\ child = "lines" => instances[n][k] # NONE /\ instances[n][k].of = bin
  /\ child \in {"closed", "list", "listed", "list again"} =>
       instances[n][k] # NONE /\ instances[n][k].whole /\ instances[n][k].of = bin
  /\ child \in {"list", "listed", "list again"} => featlist[n][k] # NONE /\ featlist[n][k].of = bin

Inductive == TypeOK /\ MarkerMeansInstances /\ ChildHasItsFiles

LEMMA NameType == ASSUME NEW b \in Binaries PROVE Name[b] \in Names
  BY DEF Names

LEMMA ExtractionsType == NumExtractions \in Nat \ {0}
  BY OriginRunAssumption DEF NumExtractions

LEMMA PlaceType ==
  ASSUME NEW e \in 1..NumExtractions
  PROVE  /\ e \in 1..(NumExtractions + 1) /\ e <= NumExtractions
         /\ e + 1 \in 1..(NumExtractions + 1)
  BY ExtractionsType

LEMMA NoneIsNoFile == \A f \in InstanceFile \union FeatlistFile : f # NONE
  BY OriginRunAssumption

(* Each way to number new features is a sequence of them.                  *)
LEMMA NumberedType ==
  ASSUME NEW S \in SUBSET Features
  PROVE  SetToSeqs(S) \subseteq Seq(Features)
<1>1. IsFiniteSet(S)
  BY OriginRunAssumption, FS_Subset
<1>2. Cardinality(S) \in Nat
  BY <1>1, FS_CardinalityType
<1>3. ASSUME NEW f \in SetToSeqs(S) PROVE f \in [1..Cardinality(S) -> Features]
  BY DEF SetToSeqs
<1>4. ASSUME NEW f \in SetToSeqs(S) PROVE f \in Seq(Features)
  BY <1>2, <1>3, SeqDef
<1> QED
  BY <1>4

(* One file of a name and an extraction is replaced.                       *)
LEMMA Replaced ==
  ASSUME NEW Files, NEW F \in [Names -> [1..NumExtractions -> Files]],
         NEW m \in Names, NEW e \in 1..NumExtractions, NEW file \in Files
  PROVE  /\ [F EXCEPT ![m][e] = file] \in [Names -> [1..NumExtractions -> Files]]
         /\ [F EXCEPT ![m][e] = file][m][e] = file
         /\ \A m2 \in Names, e2 \in 1..NumExtractions :
              m2 # m \/ e2 # e => [F EXCEPT ![m][e] = file][m2][e2] = F[m2][e2]
  OBVIOUS

(* Where the run is.                                                       *)
LEMMA Here ==
  ASSUME TypeOK
  PROVE  /\ bin \in Binaries /\ n \in Names
         /\ child # "none" => k \in 1..NumExtractions
         /\ index \in Seq(Features)
         /\ instances \in [Names -> [1..NumExtractions -> InstanceFile \union {NONE}]]
         /\ featlist \in [Names -> [1..NumExtractions -> FeatlistFile \union {NONE}]]
<1>1. /\ bin \in Binaries
      /\ index \in Seq(Features)
      /\ instances \in [Names -> [1..NumExtractions -> InstanceFile \union {NONE}]]
      /\ featlist \in [Names -> [1..NumExtractions -> FeatlistFile \union {NONE}]]
  BY DEF TypeOK
<1>2. child # "none" => k \in 1..NumExtractions
  <2>1. child # "none" => k \in 1..(NumExtractions + 1) /\ k <= NumExtractions
    BY DEF TypeOK
  <2> QED
    BY <2>1, ExtractionsType
<1>3. n \in Names
  BY <1>1, NameType DEF n
<1> QED
  BY <1>1, <1>2, <1>3

LEMMA InitInductive == Init => Inductive
<1> SUFFICES ASSUME Init PROVE Inductive
  OBVIOUS
<1>1. TypeOK
  BY ExtractionsType, OriginRunAssumption DEF Init, TypeOK
<1>2. MarkerMeansInstances
  BY DEF Init, MarkerMeansInstances
<1>3. ChildHasItsFiles
  BY DEF Init, ChildHasItsFiles
<1> QED
  BY <1>1, <1>2, <1>3 DEF Inductive
-----------------------------------------------------------------------------
(* The child's steps.                                                      *)
(* The child goes on in its extraction, or is done with it.                *)
LEMMA PlaceAfterWriting ==
  ASSUME TypeOK, child # "none",
         \/ UNCHANGED <<pc, k>> /\ child' \in {"lines", "closed", "list", "listed", "list again"}
         \/ ExecuteReturns
  PROVE  /\ pc' \in {"execute", "wait"} /\ k' \in 1..(NumExtractions + 1)
         /\ child' \in {"none", "lines", "closed", "list", "listed", "list again"}
         /\ (child' # "none" <=> pc' = "wait") /\ (pc' = "wait" => k' <= NumExtractions)
<1>1. pc = "wait" /\ k \in 1..NumExtractions /\ NumExtractions \in Nat
  BY Here, ExtractionsType DEF TypeOK
<1>2. CASE UNCHANGED <<pc, k>> /\ child' \in {"lines", "closed", "list", "listed", "list again"}
  <2>1. pc' = "wait" /\ child' # "none"
    BY <1>1, <1>2
  <2>2. k' = k
    BY <1>2
  <2>3. k \in 1..(NumExtractions + 1) /\ k <= NumExtractions
    BY <1>1, PlaceType, Zenon
  <2>4. k' \in 1..(NumExtractions + 1) /\ k' <= NumExtractions
    BY <2>2, <2>3
  <2> QED
    BY <1>2, <2>1, <2>4, Zenon
<1>3. CASE ExecuteReturns
  BY <1>1, <1>3 DEF ExecuteReturns
<1> QED
  BY <1>2, <1>3

(* It replaces one of the two files.                                       *)
LEMMA TypeAfterWriting ==
  ASSUME TypeOK, child # "none",
         \/ UNCHANGED <<pc, k>> /\ child' \in {"lines", "closed", "list", "listed", "list again"}
         \/ ExecuteReturns,
         UNCHANGED <<range, bin, addrList, data, endAddr, printed, runs>>,
         index' \in Seq(Features),
         \/ UNCHANGED featlist /\ \E file \in InstanceFile : instances' = [instances EXCEPT ![n][k] = file]
         \/ UNCHANGED instances /\ \E file \in FeatlistFile : featlist' = [featlist EXCEPT ![n][k] = file]
  PROVE  TypeOK'
<1>1. /\ instances' \in [Names -> [1..NumExtractions -> InstanceFile \union {NONE}]]
      /\ featlist' \in [Names -> [1..NumExtractions -> FeatlistFile \union {NONE}]]
  <2>1. CASE UNCHANGED featlist /\ \E file \in InstanceFile : instances' = [instances EXCEPT ![n][k] = file]
    <3>1. PICK file \in InstanceFile : instances' = [instances EXCEPT ![n][k] = file]
      BY <2>1
    <3>2. instances' \in [Names -> [1..NumExtractions -> InstanceFile \union {NONE}]]
      BY <3>1, Here
    <3> QED
      BY <2>1, <3>2, Here
  <2>2. CASE UNCHANGED instances /\ \E file \in FeatlistFile : featlist' = [featlist EXCEPT ![n][k] = file]
    <3>1. PICK file \in FeatlistFile : featlist' = [featlist EXCEPT ![n][k] = file]
      BY <2>2
    <3>2. featlist' \in [Names -> [1..NumExtractions -> FeatlistFile \union {NONE}]]
      BY <3>1, Here
    <3> QED
      BY <2>2, <3>2, Here
  <2> QED
    BY <2>1, <2>2
<1>2. /\ pc' \in {"execute", "wait"} /\ k' \in 1..(NumExtractions + 1)
      /\ child' \in {"none", "lines", "closed", "list", "listed", "list again"}
      /\ (child' # "none" <=> pc' = "wait") /\ (pc' = "wait" => k' <= NumExtractions)
  BY PlaceAfterWriting
<1> QED
  BY <1>1, <1>2 DEF TypeOK
-----------------------------------------------------------------------------
(* The child's steps.  While it writes the instances there is no list that *)
(* could vouch for them.                                                   *)
LEMMA InstancesStep ==
  ASSUME Inductive, child \in {"start", "lines"},
         NEW file \in InstanceFile, file.of = bin,
         instances' = [instances EXCEPT ![n][k] = file],
         child' \in {"lines", "closed"}, child' = "closed" => file.whole,
         featlist' = featlist, bin' = bin, k' = k
  PROVE  MarkerMeansInstances' /\ ChildHasItsFiles'
<1>1. /\ n \in Names /\ k \in 1..NumExtractions /\ n' = n /\ featlist[n][k] = NONE
      /\ instances \in [Names -> [1..NumExtractions -> InstanceFile \union {NONE}]]
  BY Here DEF Inductive, ChildHasItsFiles, n
<1>2. /\ instances'[n][k] = file
      /\ \A m \in Names, e \in 1..NumExtractions :
           m # n \/ e # k => instances'[m][e] = instances[m][e]
  BY <1>1
<1>3. MarkerMeansInstances'
  BY <1>1, <1>2 DEF Inductive, MarkerMeansInstances
<1>4. ChildHasItsFiles'
  BY <1>1, <1>2, NoneIsNoFile DEF ChildHasItsFiles
<1> QED
  BY <1>3, <1>4

(* The list is opened, flushed or closed: another list of this binary, at  *)
(* a time when the instances are whole.                                    *)
LEMMA ListStep ==
  ASSUME Inductive, child \in {"closed", "list", "listed", "list again"},
         NEW file \in FeatlistFile, file.of = bin,
         featlist' = [featlist EXCEPT ![n][k] = file],
         \/ child' \in {"list", "listed", "list again"} /\ k' = k
         \/ child' = "none",
         instances' = instances, bin' = bin
  PROVE  MarkerMeansInstances' /\ ChildHasItsFiles'
<1>1. /\ n \in Names /\ k \in 1..NumExtractions /\ n' = n
      /\ instances[n][k] # NONE /\ instances[n][k].whole /\ instances[n][k].of = bin
      /\ featlist \in [Names -> [1..NumExtractions -> FeatlistFile \union {NONE}]]
  BY Here DEF Inductive, ChildHasItsFiles, n
<1>2. /\ featlist'[n][k] = file
      /\ \A m \in Names, e \in 1..NumExtractions :
           m # n \/ e # k => featlist'[m][e] = featlist[m][e]
  BY <1>1
<1>3. MarkerMeansInstances'
  <2> SUFFICES ASSUME NEW m \in Names, NEW e \in 1..NumExtractions, featlist'[m][e] # NONE
               PROVE  /\ instances[m][e] # NONE /\ instances[m][e].whole
                      /\ instances[m][e].of = featlist'[m][e].of
    BY DEF MarkerMeansInstances
  <2>1. CASE m = n /\ e = k
    BY <1>1, <1>2, <2>1
  <2>2. CASE m # n \/ e # k
    <3>1. featlist'[m][e] = featlist[m][e]
      BY <1>2, <2>2
    <3> QED
      BY <3>1 DEF Inductive, MarkerMeansInstances
  <2> QED
    BY <2>1, <2>2
<1>4. ChildHasItsFiles'
  BY <1>1, <1>2, NoneIsNoFile DEF ChildHasItsFiles
<1> QED
  BY <1>3, <1>4

LEMMA OpenInstancesStep == Inductive /\ OpenInstances => Inductive'
<1> SUFFICES ASSUME Inductive, OpenInstances PROVE Inductive'
  OBVIOUS
<1> DEFINE opened == [of |-> bin, lines |-> <<>>, whole |-> FALSE]
<1>1. bin \in Binaries /\ index \in Seq(Features)
  BY Here DEF Inductive
<1>2. opened \in InstanceFile /\ opened.of = bin
  BY <1>1 DEF InstanceFile
<1>3. instances' = [instances EXCEPT ![n][k] = opened]
  BY DEF OpenInstances
<1> HIDE DEF opened
<1>4. TypeOK'
  BY <1>1, <1>2, <1>3, TypeAfterWriting DEF Inductive, OpenInstances, read
<1>5. MarkerMeansInstances' /\ ChildHasItsFiles'
  BY <1>2, <1>3, InstancesStep DEF OpenInstances
<1> QED
  BY <1>4, <1>5 DEF Inductive

LEMMA WriteLineStep == ASSUME NEW a, Inductive, WriteLine(a) PROVE Inductive'
<1>1. /\ n \in Names /\ k \in 1..NumExtractions /\ bin \in Binaries /\ index \in Seq(Features)
      /\ child = "lines" /\ a \in Text[bin]
  BY Here DEF Inductive, WriteLine
<1>2. instances[n][k] \in InstanceFile /\ instances[n][k].of = bin
  <2>1. instances[n][k] # NONE /\ instances[n][k].of = bin
    BY <1>1 DEF Inductive, ChildHasItsFiles
  <2>2. instances[n][k] \in InstanceFile \union {NONE}
    BY <1>1, Here DEF Inductive
  <2> QED
    BY <2>1, <2>2
<1>3. index' \in Seq(Features)
  <2>1. PICK new \in SetToSeqs(Feat[bin][k][a] \ ToSet(index)) : index' = index \o new
    BY DEF WriteLine
  <2>2. Feat[bin][k][a] \in SUBSET Features
    <3>1. k \in DOMAIN Extractions
      BY <1>1, OriginRunAssumption, LenProperties DEF NumExtractions
    <3> QED
      BY <1>1, <3>1, OriginRunAssumption
  <2>3. new \in Seq(Features)
    BY <2>1, <2>2, NumberedType
  <2> QED
    BY <1>1, <2>1, <2>3, ConcatProperties
<1> DEFINE Line == [addr : Nat, pairs : SUBSET (Nat \ {0})]
           l == [addr |-> a, pairs |-> { i \in DOMAIN index' : index'[i] \in Feat[bin][k][a] }]
           written == [instances[n][k] EXCEPT !.lines = Append(@, l)]
<1>4. l \in Line
  <2>1. a \in Nat
    BY <1>1, OriginRunAssumption
  <2>2. DOMAIN index' \subseteq Nat \ {0}
    BY <1>3, LenProperties
  <2> QED
    BY <2>1, <2>2
<1> HIDE DEF l
<1>5. written \in InstanceFile /\ written.of = bin
  <2>1. instances[n][k].lines \in Seq(Line)
    BY <1>2 DEF InstanceFile
  <2>2. Append(instances[n][k].lines, l) \in Seq(Line)
    BY <2>1, <1>4, AppendProperties
  <2> HIDE DEF Line
  <2>3. InstanceFile = [of : Binaries, whole : BOOLEAN, lines : Seq(Line)]
    BY DEF InstanceFile, Line
  <2> QED
    BY <1>2, <2>2, <2>3
<1>6. instances' = [instances EXCEPT ![n][k] = written]
  BY DEF WriteLine, l
<1> HIDE DEF written
<1>7. TypeOK'
  BY <1>1, <1>3, <1>5, <1>6, TypeAfterWriting DEF Inductive, WriteLine, read
<1>8. MarkerMeansInstances' /\ ChildHasItsFiles'
  BY <1>1, <1>5, <1>6, InstancesStep DEF WriteLine
<1> QED
  BY <1>7, <1>8 DEF Inductive

LEMMA CloseInstancesStep == Inductive /\ CloseInstances => Inductive'
<1> SUFFICES ASSUME Inductive, CloseInstances PROVE Inductive'
  OBVIOUS
<1> DEFINE closed == [instances[n][k] EXCEPT !.whole = TRUE]
<1>1. n \in Names /\ k \in 1..NumExtractions /\ index \in Seq(Features) /\ child = "lines"
  BY Here DEF Inductive, CloseInstances
<1>2. instances[n][k] \in InstanceFile /\ instances[n][k].of = bin
  BY <1>1, Here DEF Inductive, ChildHasItsFiles
<1>3. closed \in InstanceFile /\ closed.of = bin /\ closed.whole
  BY <1>2 DEF InstanceFile
<1>4. instances' = [instances EXCEPT ![n][k] = closed]
  BY DEF CloseInstances
<1> HIDE DEF closed
<1>5. TypeOK'
  BY <1>1, <1>3, <1>4, TypeAfterWriting DEF Inductive, CloseInstances, read
<1>6. MarkerMeansInstances' /\ ChildHasItsFiles'
  BY <1>1, <1>3, <1>4, InstancesStep DEF CloseInstances
<1> QED
  BY <1>5, <1>6 DEF Inductive

LEMMA OpenFeatlistStep == Inductive /\ OpenFeatlist => Inductive'
<1> SUFFICES ASSUME Inductive, OpenFeatlist PROVE Inductive'
  OBVIOUS
<1> DEFINE opened == [of |-> bin, entries |-> <<>>, whole |-> FALSE]
<1>1. bin \in Binaries /\ index \in Seq(Features)
  BY Here DEF Inductive
<1>2. opened \in FeatlistFile /\ opened.of = bin
  BY <1>1 DEF FeatlistFile
<1>3. featlist' = [featlist EXCEPT ![n][k] = opened]
  BY DEF OpenFeatlist
<1> HIDE DEF opened
<1>4. TypeOK'
  BY <1>1, <1>2, <1>3, TypeAfterWriting DEF Inductive, OpenFeatlist, read
<1>5. MarkerMeansInstances' /\ ChildHasItsFiles'
  BY <1>2, <1>3, ListStep DEF OpenFeatlist
<1> QED
  BY <1>4, <1>5 DEF Inductive

LEMMA FlushFeatlistStep == Inductive /\ FlushFeatlist => Inductive'
<1> SUFFICES ASSUME Inductive, FlushFeatlist PROVE Inductive'
  OBVIOUS
<1>1. /\ n \in Names /\ k \in 1..NumExtractions /\ index \in Seq(Features)
      /\ featlist[n][k] # NONE /\ featlist[n][k].of = bin /\ child \in {"list", "list again"}
  BY Here DEF Inductive, ChildHasItsFiles, FlushFeatlist
<1>2. featlist[n][k] \in FeatlistFile
  BY <1>1, Here DEF Inductive
<1>3. PICK i \in DOMAIN index, last \in Features \union {CUT} :
        featlist' = [featlist EXCEPT ![n][k].entries = Append(SubSeq(index, 1, i - 1), last)]
  BY DEF FlushFeatlist
<1> DEFINE flushed == [featlist[n][k] EXCEPT !.entries = Append(SubSeq(index, 1, i - 1), last)]
<1>4. Append(SubSeq(index, 1, i - 1), last) \in Seq(Features \union {CUT})
  <2>1. /\ index \in [1..Len(index) -> Features \union {CUT}]
        /\ Len(index) \in Nat /\ i \in 1..Len(index)
    BY <1>1, LenProperties
  <2>2. index \in Seq(Features \union {CUT})
    BY <2>1, SeqDef
  <2>3. SubSeq(index, 1, i - 1) \in Seq(Features \union {CUT})
    BY <2>1, <2>2, SubSeqProperties
  <2> QED
    BY <2>3, AppendProperties
<1>5. flushed \in FeatlistFile /\ flushed.of = bin
  BY <1>1, <1>2, <1>4 DEF FeatlistFile
<1>6. featlist' = [featlist EXCEPT ![n][k] = flushed]
  BY <1>3
<1> HIDE DEF flushed
<1>7. TypeOK'
  BY <1>1, <1>5, <1>6, TypeAfterWriting DEF Inductive, FlushFeatlist, read
<1>8. MarkerMeansInstances' /\ ChildHasItsFiles'
  BY <1>1, <1>5, <1>6, ListStep DEF FlushFeatlist
<1> QED
  BY <1>7, <1>8 DEF Inductive

LEMMA CloseFeatlistStep == Inductive /\ CloseFeatlist => Inductive'
<1> SUFFICES ASSUME Inductive, CloseFeatlist PROVE Inductive'
  OBVIOUS
<1> DEFINE closed == [of |-> bin, entries |-> index, whole |-> TRUE]
<1>1. bin \in Binaries /\ index \in Seq(Features)
  BY Here DEF Inductive
<1>2. closed \in FeatlistFile /\ closed.of = bin
  BY <1>1 DEF FeatlistFile
<1>3. featlist' = [featlist EXCEPT ![n][k] = closed]
  BY DEF CloseFeatlist
<1> HIDE DEF closed
<1>4. TypeOK'
  BY <1>1, <1>2, <1>3, TypeAfterWriting DEF Inductive, CloseFeatlist, read
<1>5. MarkerMeansInstances' /\ ChildHasItsFiles'
  BY <1>2, <1>3, ListStep DEF CloseFeatlist, ExecuteReturns
<1> QED
  BY <1>4, <1>5 DEF Inductive
-----------------------------------------------------------------------------
(* The run's steps, and the deaths: they leave the two files alone, and    *)
(* the child has just started or is not there.                             *)
LEMMA OtherStep ==
  ASSUME Inductive, TypeOK', UNCHANGED <<instances, featlist>>,
         \/ child' = "none"
         \/ child' = "start" /\ featlist[n][k] = NONE /\ UNCHANGED <<bin, k>>
  PROVE  Inductive'
<1>1. MarkerMeansInstances'
  BY DEF Inductive, MarkerMeansInstances
<1>2. ChildHasItsFiles'
  BY DEF ChildHasItsFiles, n
<1> QED
  BY <1>1, <1>2 DEF Inductive

LEMMA RunStep ==
  Inductive /\ (Start \/ ExecuteSkips \/ ExecuteRuns \/ AllExecuted \/ ChildDies \/ Killed \/ Finished)
    => Inductive'
<1> SUFFICES ASSUME Inductive,
               Start \/ ExecuteSkips \/ ExecuteRuns \/ AllExecuted \/ ChildDies \/ Killed \/ Finished
             PROVE  Inductive'
  OBVIOUS
<1> USE ExtractionsType DEF Inductive, TypeOK, files, read
<1>1. CASE Start
  <2>1. TypeOK'
    BY <1>1, OriginRunAssumption DEF Start
  <2> QED
    BY <1>1, <2>1, OtherStep DEF Start
<1>2. CASE ExecuteSkips
  BY <1>2, OtherStep DEF ExecuteSkips
<1>3. CASE ExecuteRuns
  BY <1>3, OtherStep DEF ExecuteRuns
<1>4. CASE AllExecuted
  BY <1>4, OtherStep DEF AllExecuted
<1>5. CASE ChildDies
  <2>1. k \in 1..NumExtractions /\ k' = k + 1 /\ pc' = "execute" /\ child' = "none"
    BY <1>5, Here DEF ChildDies, ExecuteReturns
  <2>2. k' \in 1..(NumExtractions + 1)
    BY <2>1, PlaceType, Zenon
  <2>3. TypeOK'
    BY <1>5, <2>1, <2>2 DEF ChildDies
  <2> QED
    BY <1>5, <2>1, <2>3, OtherStep DEF ChildDies
<1>6. CASE Killed
  BY <1>6, OtherStep DEF Killed
<1>7. CASE Finished
  BY <1>7 DEF Finished, vars, MarkerMeansInstances, ChildHasItsFiles, n
<1> QED
  BY <1>1, <1>2, <1>3, <1>4, <1>5, <1>6, <1>7

LEMMA AddressesTyped ==
  ASSUME TypeOK, instances[n][1] # NONE
  PROVE  AllAddresses \in Seq(Nat)
<1> DEFINE lines == instances[n][1].lines
<1>1. instances[n][1] \in InstanceFile
  BY Here, ExtractionsType
<1>2. lines \in Seq([addr : Nat, pairs : SUBSET (Nat \ {0})])
  BY <1>1 DEF InstanceFile
<1>3. AllAddresses = [i \in DOMAIN lines |-> lines[i].addr]
  BY DEF AllAddresses
<1> HIDE DEF lines
<1>4. /\ Len(lines) \in Nat /\ DOMAIN lines = 1..Len(lines)
      /\ lines \in [1..Len(lines) -> [addr : Nat, pairs : SUBSET (Nat \ {0})]]
  BY <1>2, LenProperties
<1>5. \A i \in DOMAIN lines : lines[i].addr \in Nat
  BY <1>4
<1>6. AllAddresses \in [1..Len(lines) -> Nat]
  BY <1>3, <1>4, <1>5
<1> QED
  BY <1>4, <1>6, SeqDef

LEMMA GenerateTyped ==
  ASSUME TypeOK, GenerateCRFData
  PROVE  addrList' \in Seq(Nat)
<1>1. Decodable(1)
  BY ExtractionsType DEF GenerateCRFData
<1>2. instances[n][1] # NONE
  BY <1>1 DEF Decodable
<1>3. AllAddresses \in Seq(Nat)
  BY <1>2, AddressesTyped
<1> QED
  BY <1>3 DEF GenerateCRFData

LEMMA RangeAndPrintStep ==
  Inductive /\ (RangeStep \/ GenerateCRFData \/ GenerateFails \/ PredictAndPrint \/ PredictFails) => Inductive'
<1> SUFFICES ASSUME Inductive,
               RangeStep \/ GenerateCRFData \/ GenerateFails \/ PredictAndPrint \/ PredictFails
             PROVE  Inductive'
  OBVIOUS
<1> USE DEF Inductive, TypeOK, files, read
<1>1. n \in Names
  BY NameType DEF n
<1>2. CASE RangeExists
  BY <1>1, <1>2, OtherStep DEF RangeExists, ReadRange
<1>3. CASE RangeOpened
  BY <1>1, <1>3, OtherStep DEF RangeOpened
<1>4. CASE RangeFails
  BY <1>4, OtherStep DEF RangeFails, Abort
<1>5. CASE RangeClosed
  BY <1>1, <1>5, OtherStep, OriginRunAssumption DEF RangeClosed, ReadRange
<1>6. CASE RangeDies
  BY <1>6, OtherStep DEF RangeDies, ReadRange
<1>7. CASE GenerateCRFData
  <2>1. addrList' \in Seq(Nat)
    BY <1>7, GenerateTyped
  <2> QED
    BY <1>7, <2>1, OtherStep DEF GenerateCRFData
<1>8. CASE GenerateFails
  BY <1>8, OtherStep DEF GenerateFails, Abort
<1>9. CASE PredictAndPrint
  BY <1>9, OtherStep DEF PredictAndPrint
<1>10. CASE PredictFails
  BY <1>10, OtherStep DEF PredictFails, Abort
<1> QED
  BY <1>2, <1>3, <1>4, <1>5, <1>6, <1>7, <1>8, <1>9, <1>10 DEF RangeStep

LEMMA NextInductive == Inductive /\ [Next]_vars => Inductive'
<1> SUFFICES ASSUME Inductive, [Next]_vars PROVE Inductive'
  OBVIOUS
<1>1. CASE ChildStep
  BY <1>1, OpenInstancesStep, WriteLineStep, CloseInstancesStep, OpenFeatlistStep,
     FlushFeatlistStep, CloseFeatlistStep, RunStep DEF ChildStep
<1>2. CASE UNCHANGED vars
  BY <1>2 DEF vars, files, read, Inductive, TypeOK, MarkerMeansInstances, ChildHasItsFiles, n
<1>3. CASE Next /\ ~ChildStep
  BY <1>3, RunStep, RangeAndPrintStep DEF Next
<1> QED
  BY <1>1, <1>2, <1>3

LEMMA AlwaysInductive == Spec => []Inductive
  BY InitInductive, NextInductive, PTL DEF Spec

(* The files and the run are of their types: in particular, no list is     *)
(* read at an extraction behind the last, and a child is only there when   *)
(* the run waits for it.                                                   *)
THEOREM FilesTyped == Spec => []TypeOK
  BY AlwaysInductive, PTL DEF Inductive

(* For any binaries, even with names in common, any number of runs, and    *)
(* deaths and kills at any point: a .featlist that is there, whole or cut,  *)
(* is beside instances that are whole and from the same binary.            *)
THEOREM MarkersAreSound == Spec => []MarkerMeansInstances
  BY AlwaysInductive, PTL DEF Inductive
-----------------------------------------------------------------------------
(* What a step does to the files of a name and an extraction.  (The        *)
(* statement of CacheIsWrittenOnce for one pair of files.)                 *)
Written(m, e) ==
  featlist[m][e] # NONE =>
    /\ UNCHANGED instances[m][e]
    /\ \/ UNCHANGED featlist[m][e]
       \/ m = n /\ e = k /\ child \in {"list", "listed", "list again"}

LEMMA WrittenStep ==
  ASSUME Inductive, Next, NEW m \in Names, NEW e \in 1..NumExtractions
  PROVE  Written(m, e)
<1>1. CASE OpenInstances \/ (\E b \in Binaries : \E a \in Text[b] : WriteLine(a)) \/ CloseInstances
  <2>1. /\ featlist' = featlist /\ featlist[n][k] = NONE
        /\ instances \in [Names -> [1..NumExtractions -> InstanceFile \union {NONE}]]
    BY <1>1, Here DEF Inductive, ChildHasItsFiles, OpenInstances, WriteLine, CloseInstances
  <2>2. \E file : instances' = [instances EXCEPT ![n][k] = file]
    BY <1>1 DEF OpenInstances, WriteLine, CloseInstances
  <2>3. m # n \/ e # k => instances'[m][e] = instances[m][e]
    BY <2>1, <2>2
  <2> QED
    BY <2>1, <2>3 DEF Written
<1>2. CASE OpenFeatlist \/ FlushFeatlist \/ CloseFeatlist
  <2>1. /\ instances' = instances
        /\ child \in {"list", "listed", "list again"} \/ featlist[n][k] = NONE
        /\ featlist \in [Names -> [1..NumExtractions -> FeatlistFile \union {NONE}]]
    BY <1>2, Here DEF Inductive, ChildHasItsFiles, OpenFeatlist, FlushFeatlist, CloseFeatlist
  <2>2. \E file : featlist' = [featlist EXCEPT ![n][k] = file]
    BY <1>2 DEF OpenFeatlist, FlushFeatlist, CloseFeatlist
  <2>3. m # n \/ e # k => featlist'[m][e] = featlist[m][e]
    BY <2>1, <2>2
  <2> QED
    BY <2>1, <2>3 DEF Written
<1>3. CASE UNCHANGED <<instances, featlist>>
  BY <1>3 DEF Written
<1> QED
  BY <1>1, <1>2, <1>3
  DEF Next, ChildStep, RangeStep, Start, ExecuteSkips, ExecuteRuns, AllExecuted, ChildDies, RangeExists,
      RangeOpened, RangeFails, RangeClosed, RangeDies, GenerateCRFData, GenerateFails, PredictAndPrint,
      PredictFails, Killed, Finished, Abort, vars, files

(* What one run has labelled by, the next one will: once an extraction has *)
(* a .featlist its instances are never written again, and its list only by *)
(* the child that is still printing it.                                    *)
THEOREM CacheStays == Spec => CacheIsWrittenOnce
<1>1. Inductive /\ [Next]_vars =>
        [ \A m \in Names, e \in 1..NumExtractions :
            featlist[m][e] # NONE =>
              /\ UNCHANGED instances[m][e]
              /\ \/ UNCHANGED featlist[m][e]
                 \/ m = n /\ e = k /\ child \in {"list", "listed", "list again"} ]_vars
  BY WrittenStep DEF Written
<1> QED
  BY <1>1, AlwaysInductive, PTL DEF Spec, CacheIsWrittenOnce
-----------------------------------------------------------------------------
(* What the lines of a file say by a list of features: of which functions  *)
(* they are, and exactly the features of those.                            *)
LinesAgree(file, e, list) ==
  \A i \in DOMAIN file.lines :
    /\ file.lines[i].addr \in Text[file.of]
    /\ file.lines[i].pairs \subseteq DOMAIN list
    /\ { list[j] : j \in file.lines[i].pairs } = Feat[file.of][e][file.lines[i].addr]

(* The child's lines agree with the indices it has given, and a list it is *)
(* writing is not whole.                                                   *)
ChildNumbersItsFeatures ==
  /\ child \in {"lines", "closed", "list", "listed", "list again"} => LinesAgree(instances[n][k], k, index)
  /\ child \in {"list", "list again"} => ~featlist[n][k].whole

WholeListsNumberFeatures ==
  \A m \in Names, e \in 1..NumExtractions :
    featlist[m][e] # NONE /\ featlist[m][e].whole =>
      LinesAgree(instances[m][e], e, featlist[m][e].entries)

Numbered == ChildNumbersItsFeatures /\ WholeListsNumberFeatures

(* The lines that agree with a list agree with a longer one.               *)
LEMMA AgreesWithLonger ==
  ASSUME NEW file, NEW e, NEW list \in Seq(Features), NEW more \in Seq(Features),
         LinesAgree(file, e, list)
  PROVE  LinesAgree(file, e, list \o more)
<1>1. /\ DOMAIN list \subseteq DOMAIN (list \o more)
      /\ \A j \in DOMAIN list : (list \o more)[j] = list[j]
  <2>1. /\ Len(list) \in Nat /\ Len(more) \in Nat
        /\ DOMAIN list = 1..Len(list) /\ DOMAIN (list \o more) = 1..Len(list \o more)
        /\ Len(list \o more) = Len(list) + Len(more)
        /\ \A j \in 1..(Len(list) + Len(more)) :
             (list \o more)[j] = IF j <= Len(list) THEN list[j] ELSE more[j - Len(list)]
    BY LenProperties, ConcatProperties
  <2> QED
    BY <2>1
<1> SUFFICES ASSUME NEW i \in DOMAIN file.lines
             PROVE  /\ file.lines[i].addr \in Text[file.of]
                    /\ file.lines[i].pairs \subseteq DOMAIN (list \o more)
                    /\ { (list \o more)[j] : j \in file.lines[i].pairs } = Feat[file.of][e][file.lines[i].addr]
  BY DEF LinesAgree
<1>2. /\ file.lines[i].addr \in Text[file.of]
      /\ file.lines[i].pairs \subseteq DOMAIN list
      /\ { list[j] : j \in file.lines[i].pairs } = Feat[file.of][e][file.lines[i].addr]
  BY DEF LinesAgree
<1>3. { (list \o more)[j] : j \in file.lines[i].pairs } = { list[j] : j \in file.lines[i].pairs }
  BY <1>1, <1>2
<1> QED
  BY <1>1, <1>2, <1>3

(* A new line holds all features of its function: each had an index or is  *)
(* given one.                                                              *)
LEMMA NewLineAgrees ==
  ASSUME NEW a, Inductive, WriteLine(a)
  PROVE  /\ a \in Text[bin]
         /\ { index'[j] : j \in { i \in DOMAIN index' : index'[i] \in Feat[bin][k][a] } } = Feat[bin][k][a]
         /\ \E more \in Seq(Features) : index' = index \o more
<1> DEFINE fs == Feat[bin][k][a]
<1>1. bin \in Binaries /\ k \in 1..NumExtractions /\ index \in Seq(Features) /\ a \in Text[bin]
  BY Here DEF Inductive, WriteLine
<1>2. fs \in SUBSET Features
  <2>1. k \in DOMAIN Extractions
    BY <1>1, OriginRunAssumption, LenProperties DEF NumExtractions
  <2> QED
    BY <1>1, <2>1, OriginRunAssumption
<1>3. PICK more \in SetToSeqs(fs \ ToSet(index)) : index' = index \o more
  BY DEF WriteLine
<1> HIDE DEF fs
<1>4. more \in Seq(Features) /\ ToSet(more) = fs \ ToSet(index)
  <2>1. fs \ ToSet(index) \in SUBSET Features
    BY <1>2
  <2>2. IsFiniteSet(fs \ ToSet(index))
    BY <2>1, OriginRunAssumption, FS_Subset
  <2> QED
    BY <2>1, <2>2, NumberedType, SequenceOfAll
<1>5. \A f \in fs : \E j \in DOMAIN index' : index'[j] = f
  <2>1. /\ Len(index) \in Nat /\ Len(more) \in Nat
        /\ DOMAIN index = 1..Len(index) /\ DOMAIN more = 1..Len(more)
        /\ DOMAIN index' = 1..(Len(index) + Len(more))
        /\ \A j \in 1..(Len(index) + Len(more)) :
             index'[j] = IF j <= Len(index) THEN index[j] ELSE more[j - Len(index)]
    BY <1>1, <1>3, <1>4, LenProperties, ConcatProperties
  <2> SUFFICES ASSUME NEW f \in fs PROVE \E j \in DOMAIN index' : index'[j] = f
    OBVIOUS
  <2>2. CASE f \in ToSet(index)
    <3>1. PICK j \in 1..Len(index) : index[j] = f
      BY <2>1, <2>2 DEF ToSet
    <3>2. j \in 1..(Len(index) + Len(more)) /\ j <= Len(index)
      BY <2>1
    <3> QED
      BY <2>1, <3>1, <3>2
  <2>3. CASE f \notin ToSet(index)
    <3>1. PICK j \in 1..Len(more) : more[j] = f
      BY <1>4, <2>1, <2>3 DEF ToSet
    <3>2. /\ Len(index) + j \in 1..(Len(index) + Len(more))
          /\ ~(Len(index) + j <= Len(index)) /\ (Len(index) + j) - Len(index) = j
      BY <2>1
    <3> QED
      BY <2>1, <3>1, <3>2
  <2> QED
    BY <2>2, <2>3
<1>6. { index'[j] : j \in { i \in DOMAIN index' : index'[i] \in fs } } = fs
  BY <1>5
<1> QED
  BY <1>1, <1>3, <1>4, <1>6 DEF fs

(* Lines at an end of a file.                                              *)
LEMMA LineAdded ==
  ASSUME NEW file \in InstanceFile, NEW e, NEW list, LinesAgree(file, e, list),
         NEW l \in [addr : Nat, pairs : SUBSET (Nat \ {0})],
         l.addr \in Text[file.of], l.pairs \subseteq DOMAIN list,
         { list[j] : j \in l.pairs } = Feat[file.of][e][l.addr]
  PROVE  LinesAgree([file EXCEPT !.lines = Append(@, l)], e, list)
<1> DEFINE longer == [file EXCEPT !.lines = Append(@, l)]
<1>1. file.lines \in Seq([addr : Nat, pairs : SUBSET (Nat \ {0})])
  BY DEF InstanceFile
<1>2. longer.of = file.of /\ longer.lines = Append(file.lines, l)
  BY DEF InstanceFile
<1>3. /\ Len(file.lines) \in Nat /\ DOMAIN file.lines = 1..Len(file.lines)
      /\ DOMAIN longer.lines = 1..(Len(file.lines) + 1)
      /\ \A i \in 1..Len(file.lines) : longer.lines[i] = file.lines[i]
      /\ longer.lines[Len(file.lines) + 1] = l
  BY <1>1, <1>2, LenProperties, AppendProperties
<1> HIDE DEF longer
<1>4. ASSUME NEW i \in DOMAIN longer.lines
      PROVE  /\ longer.lines[i].addr \in Text[longer.of]
             /\ longer.lines[i].pairs \subseteq DOMAIN list
             /\ { list[j] : j \in longer.lines[i].pairs } = Feat[longer.of][e][longer.lines[i].addr]
  <2>1. CASE i = Len(file.lines) + 1
    BY <1>2, <1>3, <2>1
  <2>2. CASE i \in DOMAIN file.lines
    <3>1. longer.lines[i] = file.lines[i]
      BY <1>3, <2>2
    <3> QED
      BY <1>2, <2>2, <3>1 DEF LinesAgree
  <2>3. i = Len(file.lines) + 1 \/ i \in DOMAIN file.lines
    BY <1>3
  <2> QED
    BY <2>1, <2>2, <2>3
<1>5. LinesAgree(longer, e, list)
  BY <1>4 DEF LinesAgree
<1> QED
  BY <1>5 DEF longer

LEMMA InitNumbered == Init => Numbered
  BY DEF Init, Numbered, ChildNumbersItsFeatures, WholeListsNumberFeatures

(* The child writes the instances.                                         *)
LEMMA LinesStep ==
  ASSUME Inductive, Numbered, Next, child \in {"start", "lines"},
         NEW file \in InstanceFile,
         instances' = [instances EXCEPT ![n][k] = file],
         UNCHANGED <<featlist, bin, k>>, child' \in {"lines", "closed"},
         LinesAgree(file, k, index')
  PROVE  Numbered'
<1>1. /\ n \in Names /\ k \in 1..NumExtractions /\ n' = n
      /\ instances \in [Names -> [1..NumExtractions -> InstanceFile \union {NONE}]]
  BY Here DEF Inductive, n
<1>2. instances'[n][k] = file
  BY <1>1
<1>3. ChildNumbersItsFeatures'
  BY <1>1, <1>2 DEF ChildNumbersItsFeatures, LinesAgree
<1>4. WholeListsNumberFeatures'
  <2> SUFFICES ASSUME NEW m \in Names, NEW e \in 1..NumExtractions,
                      featlist[m][e] # NONE /\ featlist[m][e].whole
               PROVE  LinesAgree(instances'[m][e], e, featlist[m][e].entries)
    BY DEF WholeListsNumberFeatures
  <2>1. instances'[m][e] = instances[m][e]
    BY WrittenStep DEF Written
  <2>2. LinesAgree(instances[m][e], e, featlist[m][e].entries)
    BY DEF Numbered, WholeListsNumberFeatures
  <2> QED
    BY <2>1, <2>2
<1> QED
  BY <1>3, <1>4 DEF Numbered

(* It writes the list.                                                     *)
LEMMA ListNumberedStep ==
  ASSUME Inductive, Numbered, child \in {"closed", "list", "listed", "list again"},
         NEW file \in FeatlistFile,
         featlist' = [featlist EXCEPT ![n][k] = file],
         UNCHANGED <<instances, bin, index>>,
         \/ child' \in {"list", "list again"} /\ k' = k /\ ~file.whole
         \/ child' \in {"listed", "none"} /\ (child' = "listed" => k' = k) /\ file.entries = index
  PROVE  Numbered'
<1>1. /\ n \in Names /\ k \in 1..NumExtractions /\ n' = n
      /\ featlist \in [Names -> [1..NumExtractions -> FeatlistFile \union {NONE}]]
  BY Here DEF Inductive, n
<1>2. featlist'[n][k] = file
  BY <1>1
<1>3. LinesAgree(instances[n][k], k, index)
  BY DEF Numbered, ChildNumbersItsFeatures
<1>4. ChildNumbersItsFeatures'
  <2>1. CASE child' = "none"
    BY <2>1 DEF ChildNumbersItsFeatures
  <2>2. CASE child' # "none"
    <3>1. k' = k /\ instances'[n'][k'] = instances[n][k] /\ featlist'[n'][k'] = file
      BY <1>1, <1>2, <2>2
    <3>2. LinesAgree(instances[n][k], k, index)'
        BY <1>1, <1>3, <3>1
    <3> QED
      BY <3>1, <3>2 DEF ChildNumbersItsFeatures
  <2> QED
    BY <2>1, <2>2
<1>5. WholeListsNumberFeatures'
  <2> SUFFICES ASSUME NEW m \in Names, NEW e \in 1..NumExtractions,
                      featlist'[m][e] # NONE /\ featlist'[m][e].whole
               PROVE  LinesAgree(instances[m][e], e, featlist'[m][e].entries)
    BY DEF WholeListsNumberFeatures
  <2>1. CASE m = n /\ e = k
    BY <1>2, <1>3, <2>1
  <2>2. CASE m # n \/ e # k
    <3>1. featlist'[m][e] = featlist[m][e]
      BY <1>1, <2>2
    <3> QED
      BY <3>1 DEF Numbered, WholeListsNumberFeatures
  <2> QED
    BY <2>1, <2>2
<1> QED
  BY <1>4, <1>5 DEF Numbered

LEMMA WriteLineNumbered == ASSUME NEW a, Inductive, Numbered, Next, WriteLine(a) PROVE Numbered'
<1> DEFINE l == [addr |-> a, pairs |-> { i \in DOMAIN index' : index'[i] \in Feat[bin][k][a] }]
           file == instances[n][k]
           longer == [file EXCEPT !.lines = Append(@, l)]
<1>1. /\ bin \in Binaries /\ index \in Seq(Features) /\ child = "lines"
      /\ file \in InstanceFile /\ file.of = bin
  <2>1. instances[n][k] # NONE /\ instances[n][k].of = bin /\ child = "lines"
    BY DEF WriteLine, Inductive, ChildHasItsFiles
  <2>2. n \in Names /\ k \in 1..NumExtractions
    BY <2>1, Here DEF Inductive
  <2> QED
    BY <2>1, <2>2, Here DEF Inductive
<1>2. PICK more \in Seq(Features) : index' = index \o more
  BY NewLineAgrees
<1>3. LinesAgree(file, k, index')
  <2>1. LinesAgree(file, k, index)
    BY <1>1 DEF Numbered, ChildNumbersItsFeatures
  <2> QED
    BY <1>1, <1>2, <2>1, AgreesWithLonger
<1>4. /\ a \in Text[bin] /\ { index'[j] : j \in l.pairs } = Feat[bin][k][a]
      /\ l.pairs \subseteq DOMAIN index'
  BY NewLineAgrees
<1>5. l \in [addr : Nat, pairs : SUBSET (Nat \ {0})]
  <2>1. a \in Nat
    BY <1>1, <1>4, OriginRunAssumption
  <2>2. DOMAIN index' \subseteq Nat \ {0}
    BY <1>1, <1>2, ConcatProperties, LenProperties
  <2> QED
    BY <2>1, <2>2
<1>6. l.addr = a
  OBVIOUS
<1> HIDE DEF l, file
<1>7. LinesAgree(longer, k, index')
  BY <1>1, <1>3, <1>4, <1>5, <1>6, LineAdded
<1>8. longer \in InstanceFile
  <2> DEFINE Line == [addr : Nat, pairs : SUBSET (Nat \ {0})]
  <2>1. file.lines \in Seq(Line)
    BY <1>1 DEF InstanceFile
  <2>2. Append(file.lines, l) \in Seq(Line)
    BY <1>5, <2>1, AppendProperties
  <2> HIDE DEF Line
  <2>3. InstanceFile = [of : Binaries, whole : BOOLEAN, lines : Seq(Line)]
    BY DEF InstanceFile, Line
  <2> QED
    BY <1>1, <2>2, <2>3
<1>9. instances' = [instances EXCEPT ![n][k] = longer]
  BY DEF WriteLine, l, file
<1> HIDE DEF longer
<1> QED
  BY <1>1, <1>7, <1>8, <1>9, LinesStep DEF WriteLine

LEMMA NextNumbered == Inductive /\ Numbered /\ [Next]_vars => Numbered'
<1> SUFFICES ASSUME Inductive, Numbered, [Next]_vars PROVE Numbered'
  OBVIOUS
<1>1. CASE OpenInstances
  <2> DEFINE opened == [of |-> bin, lines |-> <<>>, whole |-> FALSE]
  <2>1. opened \in InstanceFile /\ LinesAgree(opened, k, index')
    BY Here DEF Inductive, InstanceFile, LinesAgree
  <2>2. instances' = [instances EXCEPT ![n][k] = opened]
    BY <1>1 DEF OpenInstances
  <2>3. Next
    BY <1>1 DEF Next, ChildStep
  <2> HIDE DEF opened
  <2> QED
    BY <1>1, <2>1, <2>2, <2>3, LinesStep DEF OpenInstances
<1>2. CASE \E b \in Binaries : \E a \in Text[b] : WriteLine(a)
  BY <1>2, WriteLineNumbered DEF Next, ChildStep
<1>3. CASE CloseInstances
  <2> DEFINE closed == [instances[n][k] EXCEPT !.whole = TRUE]
  <2>1. /\ child = "lines" /\ instances[n][k] \in InstanceFile
        /\ LinesAgree(instances[n][k], k, index)
    <3>1. child = "lines" /\ instances[n][k] # NONE
      BY <1>3 DEF CloseInstances, Inductive, ChildHasItsFiles
    <3>2. n \in Names /\ k \in 1..NumExtractions
      BY <3>1, Here DEF Inductive
    <3> QED
      BY <3>1, <3>2, Here DEF Inductive, Numbered, ChildNumbersItsFeatures
  <2>2. closed \in InstanceFile /\ closed.of = instances[n][k].of /\ closed.lines = instances[n][k].lines
    BY <2>1 DEF InstanceFile
  <2>3. instances' = [instances EXCEPT ![n][k] = closed] /\ index' = index
    BY <1>3 DEF CloseInstances
  <2>4. Next
    BY <1>3 DEF Next, ChildStep
  <2> HIDE DEF closed
  <2>5. LinesAgree(closed, k, index')
    <3>1. LinesAgree(closed, k, index)
      BY <2>1, <2>2 DEF LinesAgree
    <3> QED
      BY <2>3, <3>1
  <2> QED
    BY <1>3, <2>1, <2>2, <2>3, <2>4, <2>5, LinesStep DEF CloseInstances
<1>4. CASE OpenFeatlist
  <2> DEFINE opened == [of |-> bin, entries |-> <<>>, whole |-> FALSE]
  <2>1. opened \in FeatlistFile /\ ~opened.whole
    BY Here DEF Inductive, FeatlistFile
  <2>2. featlist' = [featlist EXCEPT ![n][k] = opened]
    BY <1>4 DEF OpenFeatlist
  <2> HIDE DEF opened
  <2> QED
    BY <1>4, <2>1, <2>2, ListNumberedStep DEF OpenFeatlist
<1>5. CASE FlushFeatlist
  <2>1. /\ n \in Names /\ k \in 1..NumExtractions /\ featlist[n][k] # NONE
        /\ child \in {"list", "list again"} /\ ~featlist[n][k].whole
    BY <1>5, Here DEF Inductive, ChildHasItsFiles, FlushFeatlist, Numbered, ChildNumbersItsFeatures
  <2>2. featlist[n][k] \in FeatlistFile
    BY <2>1, Here DEF Inductive
  <2>3. PICK i \in DOMAIN index, last \in Features \union {CUT} :
          featlist' = [featlist EXCEPT ![n][k].entries = Append(SubSeq(index, 1, i - 1), last)]
    BY <1>5 DEF FlushFeatlist
  <2> DEFINE flushed == [featlist[n][k] EXCEPT !.entries = Append(SubSeq(index, 1, i - 1), last)]
  <2>4. featlist' = [featlist EXCEPT ![n][k] = flushed] /\ ~flushed.whole
    BY <2>1, <2>2, <2>3 DEF FeatlistFile
  <2>5. flushed \in FeatlistFile
    <3>1. Inductive'
      BY NextInductive
    <3>2. n' = n /\ k' = k /\ child' = child
      BY <1>5 DEF FlushFeatlist, n
    <3>3. featlist'[n][k] # NONE
      BY <2>1, <3>1, <3>2 DEF Inductive, ChildHasItsFiles
    <3>4. featlist' \in [Names -> [1..NumExtractions -> FeatlistFile \union {NONE}]]
      BY <3>1 DEF Inductive, TypeOK
    <3>5. featlist'[n][k] \in FeatlistFile
      BY <2>1, <3>3, <3>4
    <3>6. featlist'[n][k] = flushed
      BY <2>1, <2>4, Here DEF Inductive
    <3> QED
      BY <3>5, <3>6
  <2> HIDE DEF flushed
  <2> QED
    BY <1>5, <2>1, <2>4, <2>5, ListNumberedStep DEF FlushFeatlist
<1>6. CASE CloseFeatlist
  <2> DEFINE closed == [of |-> bin, entries |-> index, whole |-> TRUE]
  <2>1. closed \in FeatlistFile /\ closed.entries = index
    <3>1. index \in Seq(Features \union {CUT})
      BY Here, SeqMonotonic DEF Inductive
    <3> QED
      BY <3>1, Here DEF Inductive, FeatlistFile
  <2>2. featlist' = [featlist EXCEPT ![n][k] = closed]
    BY <1>6 DEF CloseFeatlist
  <2> HIDE DEF closed
  <2> QED
    BY <1>6, <2>1, <2>2, ListNumberedStep DEF CloseFeatlist, ExecuteReturns
<1>7. CASE UNCHANGED <<instances, featlist>> /\ child' \in {"none", "start"}
  <2>1. ChildNumbersItsFeatures'
    BY <1>7 DEF ChildNumbersItsFeatures
  <2>2. WholeListsNumberFeatures'
    BY <1>7 DEF Numbered, WholeListsNumberFeatures, LinesAgree
  <2> QED
    BY <2>1, <2>2 DEF Numbered
<1>8. CASE UNCHANGED vars
  BY <1>8 DEF vars, files, Numbered, ChildNumbersItsFeatures, WholeListsNumberFeatures, n
<1> QED
  BY <1>1, <1>2, <1>3, <1>4, <1>5, <1>6, <1>7, <1>8
  DEF Next, ChildStep, RangeStep, Start, ExecuteSkips, ExecuteRuns, AllExecuted, ChildDies, RangeExists,
      RangeOpened, RangeFails, RangeClosed, RangeDies, GenerateCRFData, GenerateFails, PredictAndPrint,
      PredictFails, Killed, Finished, Abort, ExecuteReturns, ReadRange, files, Inductive, TypeOK

LEMMA AlwaysNumbered == Spec => []Numbered
  BY InitNumbered, NextNumbered, AlwaysInductive, PTL DEF Spec
-----------------------------------------------------------------------------
(* GenerateCRFData's loop: what it does at the place x of the addresses to *)
(* the lines so far, and the recursion its fold is.                        *)
LineAt(addrs, instanceOf, x) == [addr |-> addrs[x], feats |-> instanceOf[addrs[x]]]
LoopBody(lines, addrs, instanceOf, x) ==
  IF addrs[x] \in DOMAIN instanceOf THEN Append(lines, LineAt(addrs, instanceOf, x)) ELSE lines

LEMMA LoopIsAFold ==
  ASSUME NEW addrs, NEW instanceOf
  PROVE  DataLines(addrs, instanceOf) =
           (CHOOSE it : it = [s \in SUBSET (DOMAIN addrs) |->
              IF s = {} THEN <<>> ELSE LoopBody(it[s \ {Max(s)}], addrs, instanceOf, Max(s))])[DOMAIN addrs]
  BY DEF DataLines, FoldLeft, MapThenFoldSet, LoopBody, LineAt

(* If every address has an entry, every address has a line.                *)
LEMMA LineForEachAddress ==
  ASSUME NEW A, NEW addrs \in Seq(A), NEW instanceOf, A \subseteq DOMAIN instanceOf
  PROVE  DataLines(addrs, instanceOf) = [x \in 1..Len(addrs) |-> LineAt(addrs, instanceOf, x)]
<1> DEFINE m == Len(addrs)
           X == Seq({ [addr |-> a, feats |-> instanceOf[a]] : a \in A })
           step == [p \in X \X (1..m) |-> LoopBody(p[1], addrs, instanceOf, p[2])]
           it == CHOOSE it : it = [s \in SUBSET (DOMAIN addrs) |->
                   IF s = {} THEN <<>> ELSE LoopBody(it[s \ {Max(s)}], addrs, instanceOf, Max(s))]
           S == { x \in 0..m : it[1..x] = [y \in 1..x |-> LineAt(addrs, instanceOf, y)] }
<1>1. m \in Nat /\ DOMAIN addrs = 1..m /\ \A x \in 1..m : addrs[x] \in A /\ addrs[x] \in DOMAIN instanceOf
  BY LenProperties
<1>2. it = [s \in SUBSET (1..m) |->
              IF s = {} THEN <<>> ELSE LoopBody(it[s \ {Max(s)}], addrs, instanceOf, Max(s))]
  <2>1. step \in [X \X (1..m) -> X]
    <3>1. ASSUME NEW lines \in X, NEW x \in 1..m
          PROVE  Append(lines, LineAt(addrs, instanceOf, x)) \in X
      BY <1>1, AppendProperties DEF LineAt
    <3> HIDE DEF X
    <3> QED
      BY <1>1, <3>1 DEF LoopBody
  <2>2. <<>> \in X
    BY EmptySeq
  <2>3. PICK f \in [SUBSET (1..m) -> X] : Solves(f, m, <<>>, step)
    <3> HIDE DEF X, step, m
    <3> QED
      BY <1>1, <2>1, <2>2, FoldExists
  <2>4. ASSUME NEW s \in SUBSET (1..m), s # {}
        PROVE  f[s] = LoopBody(f[s \ {Max(s)}], addrs, instanceOf, Max(s))
    <3>1. Max(s) \in 1..m
      BY <1>1, <2>4, MaxOfPlaces
    <3>2. f[s \ {Max(s)}] \in X
      OBVIOUS
    <3>3. f[s] = step[f[s \ {Max(s)}], Max(s)]
      BY <2>3, <2>4 DEF Solves
    <3> HIDE DEF X
    <3> QED
      BY <3>1, <3>2, <3>3
  <2>5. f[{}] = <<>>
    BY <2>3 DEF Solves
  <2>6. \E g : g = [s \in SUBSET (DOMAIN addrs) |->
              IF s = {} THEN <<>> ELSE LoopBody(g[s \ {Max(s)}], addrs, instanceOf, Max(s))]
    BY <1>1, <2>4, <2>5
  <2> QED
    BY <1>1, <2>6
<1> HIDE DEF it, m
<1>3. 0 \in S
  <2>1. 1..0 = {} /\ 0 \in 0..m
    BY <1>1
  <2> QED
    BY <1>2, <2>1
<1>4. ASSUME NEW x \in 0..(m - 1), x \in S PROVE x + 1 \in S
  <2>1. x \in Nat /\ 1..(x + 1) \in SUBSET (1..m) /\ x + 1 \in 1..m /\ x + 1 \in 0..m
    BY <1>1
  <2>2. Max(1..(x + 1)) = x + 1 /\ 1..(x + 1) # {} /\ (1..(x + 1)) \ {x + 1} = 1..x
    BY <2>1, LastPlace
  <2>3. it[1..(x + 1)] = LoopBody(it[1..x], addrs, instanceOf, x + 1)
    BY <1>2, <2>1, <2>2
  <2>4. it[1..(x + 1)] = Append(it[1..x], LineAt(addrs, instanceOf, x + 1))
    BY <1>1, <2>1, <2>3 DEF LoopBody
  <2>5. Append([y \in 1..x |-> LineAt(addrs, instanceOf, y)], LineAt(addrs, instanceOf, x + 1))
          = [y \in 1..(x + 1) |-> LineAt(addrs, instanceOf, y)]
    BY <2>1
  <2> QED
    BY <1>4, <2>1, <2>4, <2>5
<1> HIDE DEF S
<1>5. 0..m \subseteq S
  BY <1>1, <1>3, <1>4, IntervalInduction
<1>6. it[1..m] = [x \in 1..m |-> LineAt(addrs, instanceOf, x)]
  BY <1>1, <1>5 DEF S
<1>7. DataLines(addrs, instanceOf) = it[1..m]
  BY <1>1, LoopIsAFold DEF it
<1> QED
  BY <1>6, <1>7 DEF m

(* The data agree with the files they were made from, if those agree with  *)
(* the extractions.                                                        *)
HasExactData(d, f) ==
  (\A e \in 1..NumExtractions : f.featlist[e].whole) =>
    \A i \in DOMAIN d : d[i].feats = UNION { ExtractedFeatures(f, e, d[i].addr) : e \in 1..NumExtractions }

DataIsExact ==
  pc = "predict" => HasExactData(data, [instances |-> instances[n], featlist |-> featlist[n]])

(* There is a line of data for each address.                               *)
DataOfAddresses ==
  pc = "predict" =>
    /\ data = [i \in 1..Len(addrList) |-> data[i]]
    /\ \A i \in 1..Len(addrList) : data[i].addr = addrList[i]

LEMMA FeaturesKept ==
  ASSUME Inductive, Numbered, NEW e \in 1..NumExtractions,
         featlist[n][e] # NONE, featlist[n][e].whole, NEW a
  PROVE  UNION { KeptFeatures(e, l) : l \in { m \in LinesOf(e) : m.addr = a } } =
           ExtractedFeatures([instances |-> instances[n], featlist |-> featlist[n]], e, a)
<1> DEFINE file == instances[n][e]
<1>1. LinesAgree(file, e, featlist[n][e].entries)
  BY Here DEF Inductive, Numbered, WholeListsNumberFeatures
<1>2. ASSUME NEW l \in LinesOf(e), l.addr = a
      PROVE  KeptFeatures(e, l) = Feat[file.of][e][a] \intersect Kept /\ a \in WrittenBy(file)
  <2>1. PICK i \in DOMAIN file.lines : l = file.lines[i]
    BY DEF LinesOf, ToSet
  <2>2. { featlist[n][e].entries[j] : j \in l.pairs } = Feat[file.of][e][a]
    BY <1>1, <1>2, <2>1 DEF LinesAgree
  <2> QED
    BY <1>2, <2>1, <2>2 DEF KeptFeatures, WrittenBy
<1>3. CASE a \in WrittenBy(file)
  <2>1. \E l \in LinesOf(e) : l.addr = a
    BY <1>3 DEF WrittenBy, LinesOf, ToSet
  <2>2. UNION { KeptFeatures(e, l) : l \in { m \in LinesOf(e) : m.addr = a } } = Feat[file.of][e][a] \intersect Kept
    BY <1>2, <2>1
  <2> QED
    BY <1>3, <2>2 DEF ExtractedFeatures
<1>4. CASE a \notin WrittenBy(file)
  <2>1. { m \in LinesOf(e) : m.addr = a } = {}
    BY <1>2, <1>4
  <2> QED
    BY <1>4, <2>1 DEF ExtractedFeatures
<1> QED
  BY <1>3, <1>4

LEMMA GeneratedStep ==
  ASSUME Inductive, Numbered, GenerateCRFData
  PROVE  DataIsExact' /\ DataOfAddresses'
<1> DEFINE addrs == AllAddresses
           inst == DataInstances
           D == { l.addr : l \in UNION { LinesOf(e) : e \in 1..NumExtractions } }
           f == [instances |-> instances[n], featlist |-> featlist[n]]
<1>1. /\ \A e \in 1..NumExtractions : featlist[n][e] # NONE /\ instances[n][e] # NONE
      /\ n' = n /\ UNCHANGED <<instances, featlist>>
      /\ addrList' = addrs /\ data' = DataLines(addrs, inst)
  BY DEF GenerateCRFData, Decodable, files, n
<1>2. /\ DOMAIN inst = D
      /\ \A a \in D : inst[a] =
           UNION UNION { { KeptFeatures(e, l) : l \in { m \in LinesOf(e) : m.addr = a } } : e \in 1..NumExtractions }
  BY DEF DataInstances
<1> HIDE DEF inst
<1>3. addrs \in Seq(Nat)
  BY <1>1, AddressesTyped, ExtractionsType DEF Inductive
<1>4. /\ Len(addrs) \in Nat /\ DOMAIN addrs = 1..Len(addrs)
      /\ \A x \in 1..Len(addrs) : addrs[x] \in D
  <2>1. Len(addrs) \in Nat /\ DOMAIN addrs = 1..Len(addrs)
    BY <1>3, LenProperties
  <2>2. ASSUME NEW x \in DOMAIN addrs PROVE addrs[x] \in D
    <3>1. x \in DOMAIN instances[n][1].lines /\ addrs[x] = instances[n][1].lines[x].addr
      BY DEF AllAddresses
    <3>2. instances[n][1].lines[x] \in LinesOf(1) /\ 1 \in 1..NumExtractions
      BY <3>1, ExtractionsType DEF LinesOf, ToSet
    <3> QED
      BY <3>1, <3>2
  <2> QED
    BY <2>1, <2>2
<1> HIDE DEF D, addrs
<1>5. addrs \in Seq(D)
  BY <1>3, <1>4, SeqDef, LenProperties
<1>6. data' = [x \in 1..Len(addrs) |-> LineAt(addrs, inst, x)]
  BY <1>1, <1>2, <1>5, LineForEachAddress
<1>7. DataOfAddresses'
  BY <1>1, <1>6 DEF DataOfAddresses, LineAt
<1>8. DataIsExact'
  <2> SUFFICES ASSUME \A e \in 1..NumExtractions : featlist[n][e].whole, NEW x \in 1..Len(addrs)
               PROVE  inst[addrs[x]] = UNION { ExtractedFeatures(f, e, addrs[x]) : e \in 1..NumExtractions }
    BY <1>1, <1>6 DEF DataIsExact, HasExactData, LineAt
  <2>1. \A e \in 1..NumExtractions :
          UNION { KeptFeatures(e, l) : l \in { m \in LinesOf(e) : m.addr = addrs[x] } } = ExtractedFeatures(f, e, addrs[x])
    BY <1>1, FeaturesKept
  <2>2. inst[addrs[x]] =
          UNION UNION { { KeptFeatures(e, l) : l \in { m \in LinesOf(e) : m.addr = addrs[x] } } : e \in 1..NumExtractions }
    BY <1>2, <1>4
  <2> HIDE DEF f
  <2>3. UNION UNION { { KeptFeatures(e, l) : l \in { m \in LinesOf(e) : m.addr = addrs[x] } } : e \in 1..NumExtractions }
          = UNION { UNION { KeptFeatures(e, l) : l \in { m \in LinesOf(e) : m.addr = addrs[x] } } : e \in 1..NumExtractions }
    OBVIOUS
  <2>4. { UNION { KeptFeatures(e, l) : l \in { m \in LinesOf(e) : m.addr = addrs[x] } } : e \in 1..NumExtractions }
          = { ExtractedFeatures(f, e, addrs[x]) : e \in 1..NumExtractions }
    BY <2>1
  <2> QED
    BY <2>2, <2>3, <2>4
<1> QED
  BY <1>7, <1>8

Vectors == DataIsExact /\ DataOfAddresses /\ WholeListsGiveExactVectors

LEMMA InitVectors == Init => Vectors
  BY DEF Init, Vectors, DataIsExact, DataOfAddresses, WholeListsGiveExactVectors

(* Only GenerateCRFData brings a run to Predict, only Predict prints.      *)
LEMMA OnlyPredict ==
  ASSUME Inductive, Next
  PROVE  /\ GenerateCRFData \/ pc' # "predict"
         /\ (pc = "predict" /\ PredictAndPrint) \/ printed' = printed
<1>1. CASE ChildStep
  <2>1. child # "none" /\ pc = "wait"
    BY <1>1 DEF Inductive, TypeOK, ChildStep, OpenInstances, WriteLine, CloseInstances, OpenFeatlist,
                FlushFeatlist, CloseFeatlist, ChildDies
  <2> QED
    BY <1>1, <2>1 DEF ChildStep, OpenInstances, WriteLine, CloseInstances, OpenFeatlist,
                FlushFeatlist, CloseFeatlist, ChildDies, ExecuteReturns
<1>2. CASE RangeStep
  BY <1>2 DEF RangeStep, RangeExists, RangeOpened, RangeFails, RangeClosed, RangeDies, Abort, ReadRange
<1> QED
  BY <1>1, <1>2 DEF Next, Start, ExecuteSkips, ExecuteRuns, AllExecuted, GenerateCRFData, GenerateFails,
     PredictAndPrint, PredictFails, Killed, Finished, Abort, vars

LEMMA NextVectors == Inductive /\ Numbered /\ Vectors /\ [Next]_vars => Vectors'
<1> SUFFICES ASSUME Inductive, Numbered, Vectors, [Next]_vars PROVE Vectors'
  OBVIOUS
<1>1. CASE UNCHANGED vars
  BY <1>1 DEF vars, files, read, Vectors, DataIsExact, DataOfAddresses, WholeListsGiveExactVectors, HasExactData, n
<1>2. CASE Next
  <2>1. DataIsExact' /\ DataOfAddresses'
    <3>1. CASE GenerateCRFData
      BY <3>1, GeneratedStep
    <3>2. CASE pc' # "predict"
      BY <3>2 DEF DataIsExact, DataOfAddresses
    <3> QED
      BY <1>2, <3>1, <3>2, OnlyPredict
  <2>2. WholeListsGiveExactVectors'
    <3>1. CASE pc = "predict" /\ PredictAndPrint
      <4>1. printed'.data = data /\ printed'.files = [instances |-> instances[n], featlist |-> featlist[n]]
        BY <3>1 DEF PredictAndPrint
      <4>2. HasExactData(printed'.data, printed'.files)
        BY <3>1, <4>1 DEF Vectors, DataIsExact
      <4> QED
        BY <4>2 DEF HasExactData, WholeListsGiveExactVectors
    <3>2. CASE printed' = printed
      BY <3>2 DEF Vectors, WholeListsGiveExactVectors
    <3> QED
      BY <1>2, <3>1, <3>2, OnlyPredict
  <2> QED
    BY <2>1, <2>2 DEF Vectors
<1> QED
  BY <1>1, <1>2

LEMMA AlwaysVectors == Spec => []Vectors
  BY InitVectors, NextVectors, AlwaysNumbered, AlwaysInductive, PTL DEF Spec

(* For any binaries and extractions, deaths of children and kills of runs: *)
(* if no list was cut short, crfsuite is given for each function exactly   *)
(* the kept features that the extractions found in it.                     *)
THEOREM VectorsAreExact == Spec => []WholeListsGiveExactVectors
  BY AlwaysVectors, PTL DEF Vectors
-----------------------------------------------------------------------------
(* PrintPrediction's loop. The first function of segment j.                *)
FirstOf(segs, j) == IF j = 1 THEN 1 ELSE segs[j - 1].count + 1

(* The segments before the one that is being counted.                      *)
Closed(segs, predict, addrs) ==
  /\ \A j \in 1..Len(segs) :
       /\ FirstOf(segs, j) <= segs[j].count /\ segs[j].start = addrs[FirstOf(segs, j)]
       /\ \A i \in FirstOf(segs, j)..segs[j].count : predict[i] = segs[j].label
  /\ \A j \in 1..(Len(segs) - 1) : segs[j].end = segs[j + 1].start /\ segs[j].label # segs[j + 1].label

(* The segment that is counted, up to place p.                             *)
Counted(segs, start, p, predict, addrs) ==
  LET first == FirstOf(segs, Len(segs) + 1)
  IN /\ first \in 1..p /\ start = addrs[first]
     /\ \A i \in first..p : predict[i] = predict[p]
     /\ segs # <<>> => segs[Len(segs)].end = start /\ segs[Len(segs)].label # predict[p]

Segment(end) == [label : Labels, start : Nat, end : Nat \union {end}, count : Nat]

LEMMA SegmentCloses ==
  ASSUME NEW end, NEW segs \in Seq(Segment(end)), NEW p \in Nat, NEW predict, NEW addrs, NEW start,
         Closed(segs, predict, addrs), Counted(segs, start, p, predict, addrs),
         NEW g \in Segment(end), g.label = predict[p], g.start = start, g.count = p
  PROVE  /\ Closed(Append(segs, g), predict, addrs)
         /\ Append(segs, g) \in Seq(Segment(end)) /\ Len(Append(segs, g)) = Len(segs) + 1
         /\ Append(segs, g)[Len(segs) + 1] = g
<1> DEFINE q == Len(segs)
           more == Append(segs, g)
<1>1. /\ q \in Nat /\ segs \in [1..q -> Segment(end)]
      /\ more \in Seq(Segment(end)) /\ Len(more) = q + 1
      /\ \A j \in 1..q : more[j] = segs[j]
      /\ more[q + 1] = g
      /\ segs # <<>> <=> q # 0
  BY LenProperties, AppendProperties, EmptySeq
<1> HIDE DEF q, more
<1>2. ASSUME NEW j \in 1..(q + 1)
      PROVE  FirstOf(more, j) = FirstOf(segs, j)
  <2>1. CASE j = 1
    BY <2>1 DEF FirstOf
  <2>2. CASE j # 1
    <3>1. j - 1 \in 1..q
      BY <1>1, <2>2
    <3> QED
      BY <1>1, <2>2, <3>1 DEF FirstOf
  <2> QED
    BY <2>1, <2>2
<1>3. ASSUME NEW j \in 1..(q + 1)
      PROVE  /\ FirstOf(more, j) <= more[j].count /\ more[j].start = addrs[FirstOf(more, j)]
             /\ \A i \in FirstOf(more, j)..more[j].count : predict[i] = more[j].label
  <2>1. CASE j = q + 1
    <3>1. /\ FirstOf(more, j) = FirstOf(segs, q + 1) /\ FirstOf(segs, q + 1) \in 1..p
          /\ start = addrs[FirstOf(segs, q + 1)]
          /\ \A i \in FirstOf(segs, q + 1)..p : predict[i] = predict[p]
      BY <1>2, <2>1 DEF Counted, q
    <3>2. more[j] = g
      BY <1>1, <2>1
    <3> QED
      BY <3>1, <3>2
  <2>2. CASE j \in 1..q
    <3>1. more[j] = segs[j] /\ FirstOf(more, j) = FirstOf(segs, j)
      BY <1>1, <1>2, <2>2
    <3> QED
      BY <2>2, <3>1 DEF Closed, q
  <2>3. j = q + 1 \/ j \in 1..q
    BY <1>1
  <2> QED
    BY <2>1, <2>2, <2>3
<1>4. ASSUME NEW j \in 1..q
      PROVE  more[j].end = more[j + 1].start /\ more[j].label # more[j + 1].label
  <2>1. CASE j = q
    <3>1. more[j] = segs[q] /\ more[j + 1] = g /\ segs # <<>>
      BY <1>1, <2>1
    <3> QED
      BY <3>1 DEF Counted, q
  <2>2. CASE j \in 1..(q - 1)
    <3>1. j + 1 \in 1..q
      BY <1>1, <2>2
    <3>2. more[j] = segs[j] /\ more[j + 1] = segs[j + 1]
      BY <1>1, <3>1
    <3> QED
      BY <2>2, <3>2 DEF Closed, q
  <2>3. j = q \/ j \in 1..(q - 1)
    BY <1>1
  <2> QED
    BY <2>1, <2>2, <2>3
<1>5. (q + 1) - 1 = q
  BY <1>1
<1>6. Closed(more, predict, addrs)
  BY <1>1, <1>3, <1>4, <1>5 DEF Closed
<1> QED
  BY <1>1, <1>6 DEF more, q

(* What the loop does at place i.                                          *)
CountBody(c, predict, addrs, i) ==
  IF predict[i] # predict[i + 1]
  THEN [segs |-> Append(c.segs, [label |-> predict[i], start |-> c.start,
                                 end |-> addrs[i + 1], count |-> c.count]),
        start |-> addrs[i + 1], count |-> c.count + 1]
  ELSE [c EXCEPT !.count = @ + 1]

LEMMA CountingIsAFold ==
  ASSUME NEW predict, NEW addrs, NEW end
  PROVE  LET l == Len(predict)
             it == CHOOSE it : it = [s \in SUBSET (DOMAIN [i \in 1..(l - 1) |-> i]) |->
                     IF s = {} THEN [segs |-> <<>>, start |-> addrs[1], count |-> 1]
                     ELSE CountBody(it[s \ {Max(s)}], predict, addrs, [i \in 1..(l - 1) |-> i][Max(s)])]
             c == it[DOMAIN [i \in 1..(l - 1) |-> i]]
         IN  Segments(predict, addrs, end) =
               Append(c.segs, [label |-> predict[l], start |-> c.start, end |-> end, count |-> c.count])
  BY DEF Segments, FoldLeft, MapThenFoldSet, CountBody

Count(end) == [segs : Seq(Segment(end)), start : Nat, count : Nat]

Counting(c, p, predict, addrs, end) ==
  /\ c \in Count(end) /\ c.count = p
  /\ Closed(c.segs, predict, addrs) /\ Counted(c.segs, c.start, p, predict, addrs)

LEMMA CountStarts ==
  ASSUME NEW end, NEW predict, NEW addrs, addrs[1] \in Nat
  PROVE  Counting([segs |-> <<>>, start |-> addrs[1], count |-> 1], 1, predict, addrs, end)
<1> DEFINE c == [segs |-> <<>>, start |-> addrs[1], count |-> 1]
<1>1. <<>> \in Seq(Segment(end)) /\ Len(<<>>) = 0
  BY EmptySeq
<1>2. c \in Count(end) /\ c.count = 1 /\ c.segs = <<>> /\ c.start = addrs[1]
  BY <1>1 DEF Count
<1>3. Closed(<<>>, predict, addrs)
  <2>1. 1..Len(<<>>) = {} /\ 1..(Len(<<>>) - 1) = {}
    BY <1>1
  <2> QED
    BY <2>1 DEF Closed
<1>4. Counted(<<>>, addrs[1], 1, predict, addrs)
  <2>1. FirstOf(<<>>, Len(<<>>) + 1) = 1 /\ 1 \in 1..1 /\ \A i \in 1..1 : i = 1
    BY <1>1 DEF FirstOf
  <2> QED
    BY <2>1 DEF Counted
<1> HIDE DEF c
<1>5. Counting(c, 1, predict, addrs, end)
  BY <1>2, <1>3, <1>4 DEF Counting
<1> QED
  BY <1>5 DEF c

LEMMA CountedOn ==
  ASSUME NEW end, NEW c \in Count(end)
  PROVE  LET d == [c EXCEPT !.count = @ + 1]
         IN  d \in Count(end) /\ d.count = c.count + 1 /\ d.segs = c.segs /\ d.start = c.start
<1> DEFINE Q == Seq(Segment(end))
<1>1. Count(end) = [segs : Q, start : Nat, count : Nat]
  BY DEF Count
<1> HIDE DEF Q
<1> QED
  BY <1>1

LEMMA CountGoesOn ==
  ASSUME NEW end, NEW l \in Nat, NEW predict \in [1..l -> Labels], NEW addrs, \A i \in 1..l : addrs[i] \in Nat,
         NEW p \in 1..(l - 1), NEW c, Counting(c, p, predict, addrs, end)
  PROVE  Counting(CountBody(c, predict, addrs, p), p + 1, predict, addrs, end)
<1>1. /\ p \in Nat /\ p \in 1..l /\ p + 1 \in 1..l
      /\ predict[p] \in Labels /\ addrs[p + 1] \in Nat
  <2>1. p \in Nat /\ p \in 1..l /\ p + 1 \in 1..l
    OBVIOUS
  <2> QED
    BY <2>1
<1>2. /\ c.segs \in Seq(Segment(end)) /\ c.start \in Nat /\ c.count = p
      /\ Closed(c.segs, predict, addrs) /\ Counted(c.segs, c.start, p, predict, addrs)
  BY DEF Counting, Count
<1>3. CASE predict[p] # predict[p + 1]
  <2> DEFINE g == [label |-> predict[p], start |-> c.start, end |-> addrs[p + 1], count |-> c.count]
             more == Append(c.segs, g)
             d == [segs |-> more, start |-> addrs[p + 1], count |-> c.count + 1]
  <2>1. g \in Segment(end) /\ g.label = predict[p] /\ g.start = c.start /\ g.count = p /\ g.end = addrs[p + 1]
    BY <1>1, <1>2 DEF Segment
  <2> HIDE DEF g
  <2>2. /\ Closed(more, predict, addrs) /\ more \in Seq(Segment(end))
        /\ Len(more) = Len(c.segs) + 1 /\ more[Len(c.segs) + 1] = g
    <3> DEFINE segs == c.segs
               start == c.start
    <3>1. /\ segs \in Seq(Segment(end)) /\ Closed(segs, predict, addrs)
          /\ Counted(segs, start, p, predict, addrs) /\ p \in Nat /\ g \in Segment(end)
          /\ g.label = predict[p] /\ g.start = start /\ g.count = p
      BY <1>1, <1>2, <2>1
    <3> HIDE DEF segs, start
    <3>2. /\ Closed(Append(segs, g), predict, addrs) /\ Append(segs, g) \in Seq(Segment(end))
          /\ Len(Append(segs, g)) = Len(segs) + 1 /\ Append(segs, g)[Len(segs) + 1] = g
      BY <3>1, SegmentCloses
    <3> QED
      BY <3>2 DEF segs, more
  <2>3. Len(more) \in Nat \ {0} /\ more[Len(more)] = g
    BY <1>2, <2>2, LenProperties
  <2> HIDE DEF more
  <2>4. FirstOf(more, Len(more) + 1) = p + 1
    BY <2>1, <2>3 DEF FirstOf
  <2>5. Counted(more, addrs[p + 1], p + 1, predict, addrs)
    <3>1. p + 1 \in 1..(p + 1) /\ \A i \in (p + 1)..(p + 1) : i = p + 1
      BY <1>1
    <3> QED
      BY <1>3, <2>1, <2>3, <2>4, <3>1 DEF Counted
  <2>6. d \in Count(end) /\ d.count = p + 1 /\ d.segs = more /\ d.start = addrs[p + 1]
    BY <1>1, <1>2, <2>2 DEF Count
  <2>7. CountBody(c, predict, addrs, p) = d
    BY <1>3 DEF CountBody, more, g
  <2> HIDE DEF d
  <2> QED
    BY <2>2, <2>5, <2>6, <2>7 DEF Counting
<1>4. CASE predict[p] = predict[p + 1]
  <2> DEFINE d == [c EXCEPT !.count = @ + 1]
             first == FirstOf(c.segs, Len(c.segs) + 1)
  <2>1. d \in Count(end) /\ d.count = p + 1 /\ d.segs = c.segs /\ d.start = c.start
    BY <1>2, CountedOn DEF Counting
  <2>2. /\ first \in 1..p /\ c.start = addrs[first]
        /\ \A i \in first..p : predict[i] = predict[p]
        /\ c.segs # <<>> => c.segs[Len(c.segs)].end = c.start /\ c.segs[Len(c.segs)].label # predict[p]
    BY <1>2 DEF Counted
  <2> HIDE DEF first
  <2>3. first \in 1..(p + 1)
    BY <1>1, <2>2
  <2>4. \A i \in first..(p + 1) : i \in first..p \/ i = p + 1
    BY <1>1, <2>2
  <2>5. \A i \in first..(p + 1) : predict[i] = predict[p + 1]
    BY <1>4, <2>2, <2>4
  <2>6. Counted(c.segs, c.start, p + 1, predict, addrs)
    BY <1>4, <2>2, <2>3, <2>5 DEF Counted, first
  <2>7. CountBody(c, predict, addrs, p) = d
    BY <1>4 DEF CountBody
  <2> HIDE DEF d
  <2> QED
    BY <1>2, <2>1, <2>6, <2>7 DEF Counting
<1> QED
  BY <1>3, <1>4

(* The segments of a labelling: they tile the places.                      *)
Tiles(s, predict, addrs, end) ==
  LET l == Len(predict)
  IN /\ s[Len(s)].count = l /\ s[Len(s)].end = end
     /\ Closed(s, predict, addrs) /\ Len(s) \in Nat /\ DOMAIN s = 1..Len(s)

LEMMA SegmentsTile ==
  ASSUME NEW end, NEW l \in Nat \ {0}, NEW predict \in [1..l -> Labels], NEW addrs, \A i \in 1..l : addrs[i] \in Nat
  PROVE  Tiles(Segments(predict, addrs, end), predict, addrs, end)
<1> DEFINE base == [segs |-> <<>>, start |-> addrs[1], count |-> 1]
           X == Count(end)
           m == l - 1
           step == [a \in X \X (1..m) |-> CountBody(a[1], predict, addrs, a[2])]
           it == CHOOSE it : it = [s \in SUBSET (DOMAIN [i \in 1..(Len(predict) - 1) |-> i]) |->
                     IF s = {} THEN [segs |-> <<>>, start |-> addrs[1], count |-> 1]
                     ELSE CountBody(it[s \ {Max(s)}], predict, addrs, [i \in 1..(Len(predict) - 1) |-> i][Max(s)])]
           S == { x \in 0..m : Counting(it[1..x], x + 1, predict, addrs, end) }
<1>1. /\ m \in Nat /\ 1..l # {} /\ 1 \in 1..l /\ l \in Nat /\ m + 1 = l
      /\ \A i \in 1..m : i \in 1..l /\ i + 1 \in 1..l
  OBVIOUS
<1>2. Len(predict) = l
  BY <1>1
<1>3. base \in X /\ addrs[1] \in Nat
  BY <1>1, EmptySeq DEF Count
<1>4. step \in [X \X (1..m) -> X]
  <2> SUFFICES ASSUME NEW c \in X, NEW i \in 1..m PROVE CountBody(c, predict, addrs, i) \in X
    <3> HIDE DEF X, m
    <3> QED
      OBVIOUS
  <2>1. /\ predict[i] \in Labels /\ addrs[i + 1] \in Nat
        /\ c.segs \in Seq(Segment(end)) /\ c.start \in Nat /\ c.count \in Nat
    BY <1>1 DEF Count
  <2>2. [label |-> predict[i], start |-> c.start, end |-> addrs[i + 1], count |-> c.count] \in Segment(end)
    BY <2>1 DEF Segment
  <2>3. Append(c.segs, [label |-> predict[i], start |-> c.start, end |-> addrs[i + 1], count |-> c.count])
          \in Seq(Segment(end))
    BY <2>1, <2>2, AppendProperties
  <2>4. [c EXCEPT !.count = @ + 1] \in Count(end)
    BY CountedOn
  <2>5. [segs |-> Append(c.segs, [label |-> predict[i], start |-> c.start, end |-> addrs[i + 1], count |-> c.count]),
         start |-> addrs[i + 1], count |-> c.count + 1] \in Count(end)
    BY <2>1, <2>3 DEF Count
  <2> QED
    BY <2>4, <2>5 DEF CountBody
<1>5. it = [s \in SUBSET (1..m) |-> IF s = {} THEN base ELSE CountBody(it[s \ {Max(s)}], predict, addrs, Max(s))]
  <2>1. PICK f \in [SUBSET (1..m) -> X] : Solves(f, m, base, step)
    <3> HIDE DEF X, step, m, base
    <3> QED
      BY <1>1, <1>3, <1>4, FoldExists
  <2>2. ASSUME NEW s \in SUBSET (1..m), s # {}
        PROVE  /\ Max(s) \in 1..m
               /\ f[s] = CountBody(f[s \ {Max(s)}], predict, addrs, Max(s))
    <3>1. Max(s) \in 1..m
      BY <1>1, <2>2, MaxOfPlaces
    <3>2. f[s \ {Max(s)}] \in X
      OBVIOUS
    <3>3. f[s] = step[f[s \ {Max(s)}], Max(s)]
      BY <2>1, <2>2 DEF Solves
    <3> HIDE DEF X, m
    <3> QED
      BY <3>1, <3>2, <3>3
  <2>3. f[{}] = base
    BY <2>1 DEF Solves
  <2>4. DOMAIN [i \in 1..(Len(predict) - 1) |-> i] = 1..m
    BY <1>2
  <2>5. f = [s \in SUBSET (DOMAIN [i \in 1..(Len(predict) - 1) |-> i]) |->
               IF s = {} THEN base
               ELSE CountBody(f[s \ {Max(s)}], predict, addrs, [i \in 1..(Len(predict) - 1) |-> i][Max(s)])]
    <3> HIDE DEF base, m, X
    <3> QED
      BY <1>2, <2>2, <2>3, <2>4
  <2>6. it = [s \in SUBSET (DOMAIN [i \in 1..(Len(predict) - 1) |-> i]) |->
               IF s = {} THEN base
               ELSE CountBody(it[s \ {Max(s)}], predict, addrs, [i \in 1..(Len(predict) - 1) |-> i][Max(s)])]
    BY <2>5
  <2>7. \A s \in SUBSET (1..m) : s # {} => [i \in 1..(Len(predict) - 1) |-> i][Max(s)] = Max(s)
    BY <1>2, <2>2
  <2> HIDE DEF it, base, m
  <2> QED
    BY <2>4, <2>6, <2>7
<1> HIDE DEF it, m, base
<1>6. 0 \in S
  <2>1. 1..0 = {} /\ 0 \in 0..m /\ 0 + 1 = 1
    BY <1>1
  <2>2. it[1..0] = base
    BY <1>5, <2>1
  <2> QED
    BY <1>3, <2>1, <2>2, CountStarts DEF base
<1>7. ASSUME NEW x \in 0..(m - 1), x \in S PROVE x + 1 \in S
  <2>1. x \in Nat /\ 1..(x + 1) \in SUBSET (1..m) /\ x + 1 \in 1..m /\ x + 1 \in 0..m /\ x + 1 \in 1..(l - 1)
    BY <1>1 DEF m
  <2>2. Max(1..(x + 1)) = x + 1 /\ 1..(x + 1) # {} /\ (1..(x + 1)) \ {x + 1} = 1..x
    BY <2>1, LastPlace
  <2>3. it[1..(x + 1)] = CountBody(it[1..x], predict, addrs, x + 1)
    BY <1>5, <2>1, <2>2
  <2>4. Counting(it[1..x], x + 1, predict, addrs, end)
    BY <1>7
  <2> DEFINE c == it[1..x]
             p == x + 1
  <2>5. Counting(c, p, predict, addrs, end) /\ p \in 1..(l - 1) /\ l \in Nat
    BY <1>1, <2>1, <2>4
  <2> HIDE DEF c, p
  <2>6. Counting(CountBody(c, predict, addrs, p), p + 1, predict, addrs, end)
    BY <2>5, CountGoesOn
  <2>7. Counting(it[1..(x + 1)], (x + 1) + 1, predict, addrs, end)
    BY <2>3, <2>6 DEF c, p
  <2> QED
    BY <2>1, <2>7
<1> HIDE DEF S
<1>8. 0..m \subseteq S
  BY <1>1, <1>6, <1>7, IntervalInduction
<1> DEFINE c == it[1..m]
           g == [label |-> predict[l], start |-> c.start, end |-> end, count |-> c.count]
<1>9. Counting(c, l, predict, addrs, end)
  BY <1>1, <1>8 DEF S
<1>10. Segments(predict, addrs, end) = Append(c.segs, g)
  <2>1. DOMAIN [i \in 1..(Len(predict) - 1) |-> i] = 1..m
    BY <1>2 DEF m
  <2> QED
    BY <1>2, <2>1, CountingIsAFold DEF it
<1> HIDE DEF c
<1>11. g \in Segment(end) /\ g.label = predict[l] /\ g.start = c.start /\ g.count = l /\ g.end = end
  BY <1>1, <1>9 DEF Counting, Count, Segment
<1> HIDE DEF g
<1>12. /\ Closed(Append(c.segs, g), predict, addrs)
       /\ Append(c.segs, g) \in Seq(Segment(end)) /\ Len(Append(c.segs, g)) = Len(c.segs) + 1
       /\ Append(c.segs, g)[Len(c.segs) + 1] = g
  <2>1. c.segs \in Seq(Segment(end)) /\ Closed(c.segs, predict, addrs) /\ Counted(c.segs, c.start, l, predict, addrs)
    BY <1>9 DEF Counting, Count
  <2> QED
    BY <1>1, <1>11, <2>1, SegmentCloses
<1> QED
  BY <1>2, <1>10, <1>11, <1>12, LenProperties DEF Tiles

(* What is parsed of a labelling of d functions: labels for the first l.   *)
LEMMA ParsedLabels ==
  ASSUME NEW d \in Nat, NEW tagged \in [1..d -> Labels], NEW l \in 1..d,
         NEW predict \in Parsed(SubSeq(tagged, 1, l), l)
  PROVE  /\ predict \in [1..l -> Labels]
         /\ \A i \in 1..(l - 1) : predict[i] = tagged[i]
         /\ predict[l] \in {tagged[l]} \union CutTo[tagged[l]]
<1> DEFINE first == SubSeq(tagged, 1, l)
<1>1. /\ l \in Nat \ {0} /\ l \in 1..l /\ 1..l \subseteq 1..d
      /\ \A i \in 1..(l - 1) : i \in 1..l /\ i # l
  OBVIOUS
<1>2. first = [i \in 1..l |-> tagged[i]]
  BY <1>1 DEF SubSeq
<1> HIDE DEF first
<1>3. first \in [1..l -> Labels] /\ \A i \in 1..l : first[i] = tagged[i]
  BY <1>1, <1>2
<1>4. PICK last \in {first[l]} \union CutTo[first[l]] : predict = [first EXCEPT ![l] = last]
  BY DEF Parsed, first
<1>5. tagged[l] \in Labels /\ first[l] = tagged[l]
  BY <1>1, <1>3
<1>6. last \in Labels /\ last \in {tagged[l]} \union CutTo[tagged[l]]
  BY <1>4, <1>5, OriginRunAssumption
<1> QED
  BY <1>1, <1>3, <1>4, <1>6

LEMMA PrintedTiles ==
  ASSUME Inductive, Vectors, pc = "predict", PredictAndPrint
  PROVE  LabelsBelongToAddresses'
<1> DEFINE d == Len(addrList)
<1>1. /\ d \in Nat /\ addrList \in [1..d -> Nat] /\ DOMAIN addrList = 1..d
      /\ data = [i \in 1..d |-> data[i]] /\ \A i \in 1..d : data[i].addr = addrList[i]
  BY LenProperties DEF Inductive, TypeOK, Vectors, DataOfAddresses
<1>2. DOMAIN data = 1..d
  BY <1>1
<1>3. PICK tagged \in [1..d -> Labels] : \E l \in 1..d : \E predict \in Parsed(SubSeq(tagged, 1, l), l) :
        printed' = [bin |-> bin, addrs |-> addrList, data |-> data, tagged |-> tagged, labels |-> predict,
                   end |-> endAddr, segs |-> Segments(predict, addrList, endAddr),
                   files |-> [instances |-> instances[n], featlist |-> featlist[n]]]
  BY <1>2 DEF PredictAndPrint
<1>4. PICK l \in 1..d : \E predict \in Parsed(SubSeq(tagged, 1, l), l) :
        printed' = [bin |-> bin, addrs |-> addrList, data |-> data, tagged |-> tagged, labels |-> predict,
                   end |-> endAddr, segs |-> Segments(predict, addrList, endAddr),
                   files |-> [instances |-> instances[n], featlist |-> featlist[n]]]
  BY <1>3
<1>5. PICK predict \in Parsed(SubSeq(tagged, 1, l), l) :
        printed' = [bin |-> bin, addrs |-> addrList, data |-> data, tagged |-> tagged, labels |-> predict,
                   end |-> endAddr, segs |-> Segments(predict, addrList, endAddr),
                   files |-> [instances |-> instances[n], featlist |-> featlist[n]]]
  BY <1>4
<1> HIDE DEF d
<1>6. /\ predict \in [1..l -> Labels] /\ \A i \in 1..(l - 1) : predict[i] = tagged[i]
      /\ predict[l] \in {tagged[l]} \union CutTo[tagged[l]]
  BY <1>1, ParsedLabels
<1>7. l \in Nat \ {0} /\ \A i \in 1..l : addrList[i] \in Nat
  BY <1>1
<1>8. Tiles(Segments(predict, addrList, endAddr), predict, addrList, endAddr)
  BY <1>6, <1>7, SegmentsTile
<1>9. /\ printed'.addrs = addrList /\ printed'.data = data /\ printed'.labels = predict
      /\ printed'.tagged = tagged
      /\ printed'.end = endAddr /\ printed'.segs = Segments(predict, addrList, endAddr)
  BY <1>5
<1> DEFINE s == Segments(predict, addrList, endAddr)
<1>10. Len(predict) = l /\ Len(tagged) = d
  BY <1>1, <1>6, <1>7
<1> HIDE DEF s
<1>11. /\ s[Len(s)].count = l /\ s[Len(s)].end = endAddr
       /\ \A j \in DOMAIN s :
            /\ FirstOf(s, j) <= s[j].count /\ s[j].start = addrList[FirstOf(s, j)]
            /\ \A i \in FirstOf(s, j)..s[j].count : predict[i] = s[j].label
       /\ \A j \in 1..(Len(s) - 1) : s[j].end = s[j + 1].start /\ s[j].label # s[j + 1].label
  BY <1>8, <1>10 DEF Tiles, Closed, s
<1>12. d = Len(addrList)
  BY DEF d
<1> QED
  BY <1>1, <1>6, <1>9, <1>10, <1>11, <1>12 DEF LabelsBelongToAddresses, FirstOf, s

(* For any labelling of any number of functions, and wherever its output   *)
(* is cut: there is a line of data for each function, the labels that came *)
(* out are those of the first functions, only the last perhaps another,    *)
(* and the printed segments tile these functions, each in one of its       *)
(* label; the last one ends with the text section all the same.            *)
THEOREM LabelsTile == Spec => []LabelsBelongToAddresses
<1>1. Init => LabelsBelongToAddresses
  BY DEF Init, LabelsBelongToAddresses
<1>2. Inductive /\ Vectors /\ LabelsBelongToAddresses /\ [Next]_vars => LabelsBelongToAddresses'
  <2> SUFFICES ASSUME Inductive, Vectors, LabelsBelongToAddresses, [Next]_vars
               PROVE  LabelsBelongToAddresses'
    OBVIOUS
  <2>1. CASE printed' = printed
    BY <2>1 DEF LabelsBelongToAddresses
  <2>2. CASE UNCHANGED vars
    BY <2>2 DEF vars, LabelsBelongToAddresses
  <2>3. CASE Next
    BY <2>1, <2>3, OnlyPredict, PrintedTiles
  <2> QED
    BY <2>2, <2>3
<1> QED
  BY <1>1, <1>2, AlwaysInductive, AlwaysVectors, PTL DEF Spec
=============================================================================
