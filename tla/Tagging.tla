------------------------------- MODULE Tagging -------------------------------
(***************************************************************************)
(* crfsuite tag: crfsuite-0.12/frontend/tag.c and the reader of its input,  *)
(* iwa.c.  Origin.py runs it as "crfsuite tag -t -m model.dat data" on the  *)
(* file it has just written and takes the printed labels by their position. *)
(*                                                                          *)
(* One sequential process.  The input is a sequence of symbols: a line      *)
(* break, a tab or a field; a field is its text and the value behind the    *)
(* colon.  The tokens of iwa_read are told apart by the type of the token   *)
(* before, and an instance ends with an empty line or with the file.        *)
(***************************************************************************)
EXTENDS Crf1d, ModelFile, Evaluation

CONSTANTS
  Trainings,   (* what model.dat may have been learned from, see ModelFile  *)
  DataFiles,   (* the contents of an input file: a sequence of lines, a     *)
               (* line is << >> or << label, << contents >> >>; labels are  *)
               (* numbers                                                   *)
  MaxNumber,   (* the ranking looks for the labels 0 .. MaxNumber; the      *)
               (* code's 999                                                *)
  Options      (* records of evaluate, probability, marginal, reference,    *)
               (* quiet and rank, as tag's command line sets them           *)

VARIABLES
  trained, (* how the model was learned                                     *)
  data,    (* the lines of the file                                         *)
  file,    (* its symbols                                                   *)
  opt,     (* tagger_option_t                                               *)
  pos,     (* next symbol of the file                                       *)
  type,    (* iwa->token.type                                               *)
  lid,     (* label of the current item; NoLabel before its first field     *)
  item,    (* contents of the current item                                  *)
  inst,    (* the instance: a sequence of [label, item]                     *)
  pc,      (* what tag() does next: "read" a token, "set", "viterbi",       *)
           (* "probability", "items" or, after the loop, "end"              *)
  i,       (* loop counter of output_result                                 *)
  output,  (* the labels found by Viterbi                                   *)
  score,   (* and their score                                               *)
  eval,    (* the evaluation, counted with -t                               *)
  out      (* the lines printed                                             *)

readVars  == <<trained, data, file, opt, pos, type, lid, item, inst>>
printVars == <<i, output, score, eval, out>>
vars == <<crfVars, readVars, printVars, pc>>

NoLabel == 0                (* lid == -1                                    *)
Unknown == NumLabels + 1    (* "#L stands for a unknown label"              *)

(***************************************************************************)
(* The input                                                                *)
(***************************************************************************)
Tab == [kind |-> "tab"]
NewLine == [kind |-> "newline"]
Field(text, value) == [kind |-> "field", text |-> text, value |-> value]

(* A line as Origin.py writes it: the label and, each behind a tab, the     *)
(* contents.                                                                *)
Written(line) ==
  IF line = << >> THEN << NewLine >>
  ELSE LET contents == line[2]
       IN  << Field(line[1], NONE) >>
           \o [k \in 1 .. 2 * Len(contents) |->
                 IF k % 2 = 1 THEN Tab ELSE Field(contents[k \div 2][1], contents[k \div 2][2])]
           \o << NewLine >>

(* The file of these lines; without its last line break when cut.           *)
FileOf(lines, cut) ==
  LET whole == FlattenSeq([k \in DOMAIN lines |-> Written(lines[k])])
  IN  IF cut THEN Front(whole) ELSE whole

Init ==
  /\ trained \in Trainings
  /\ \E features \in {Generated(trained)} :
       \E active \in {Active(trained, features)} :
         \E dat \in {Saved(trained, features, active)} : CrfInit(Opened(dat))
  /\ data \in DataFiles
  /\ \E cut \in (IF data = << >> THEN {FALSE} ELSE BOOLEAN) : file = FileOf(data, cut)
  /\ opt \in Options
  /\ pos = 1 /\ type = "none" /\ lid = NoLabel /\ item = << >> /\ inst = << >>
  /\ pc = "read" /\ i = 1 /\ output = << >> /\ score = 0
  /\ eval = EvaluationInit(NumLabels) /\ out = << >>

Kind(p) == IF p > Len(file) THEN "EOF" ELSE file[p].kind

(* The loop of iwa_read over tabs.                                          *)
AfterTabs == CHOOSE p \in pos .. Len(file) + 1 :
               Kind(p) # "tab" /\ \A k \in pos .. p - 1 : Kind(k) = "tab"

(***************************************************************************)
(* One token: iwa_read and its case in tag()                                *)
(***************************************************************************)
(* IWA_BOI: a line that is not empty begins; nothing is consumed.           *)
BeginItem ==
  /\ pc = "read" /\ type \in {"none", "EOI"}
  /\ Kind(pos) \in {"tab", "field"}
  /\ type' = "BOI"
  /\ lid' = NoLabel /\ item' = << >>
  /\ UNCHANGED <<crfVars, printVars, trained, data, file, opt, pos, inst, pc>>

(* labels->to_id; #L stands for an unknown label.                           *)
LabelOf(text) ==
  LET id == CqdbToId(model.labels, text) IN IF id = NotFound THEN Unknown ELSE id

(* IWA_ITEM: the first field of a line is its label; each further one is an *)
(* attribute, dropped when the model does not know it.  At the end of the   *)
(* file, with no line break behind the last field, an empty field is read   *)
(* and the position stays.                                                  *)
ReadField ==
  /\ pc = "read" /\ type \in {"BOI", "ITEM"}
  /\ Kind(AfterTabs) \in {"field", "EOF"}
  /\ LET token == IF Kind(AfterTabs) = "EOF" THEN Field(NONE, NONE) ELSE file[AfterTabs]
     IN  IF lid = NoLabel
         THEN lid' = LabelOf(token.text) /\ item' = item
         ELSE /\ lid' = lid
              /\ LET aid == CqdbToId(model.attrs, token.text)
                 IN  item' = IF aid = NotFound THEN item
                             ELSE Append(item, [aid |-> aid,
                                                value |-> ValueOf(<< token.text, token.value >>)])
  /\ pos' = IF Kind(AfterTabs) = "EOF" THEN AfterTabs ELSE AfterTabs + 1
  /\ type' = "ITEM"
  /\ UNCHANGED <<crfVars, printVars, trained, data, file, opt, inst, pc>>

(* IWA_EOI: the line break; the item is appended to the instance.           *)
EndItem ==
  /\ pc = "read" /\ type \in {"BOI", "ITEM"}
  /\ Kind(AfterTabs) = "newline"
  /\ pos' = AfterTabs + 1
  /\ type' = "EOI"
  /\ inst' = Append(inst, [label |-> lid, item |-> item])
  /\ UNCHANGED <<crfVars, printVars, trained, data, file, opt, lid, item, pc>>

(* IWA_NONE and IWA_EOF: the instance is tagged unless it is empty.         *)
TagInstance == pc' = IF inst = << >> THEN "read" ELSE "set"

(* IWA_NONE: an empty line.                                                 *)
EmptyLine ==
  /\ pc = "read" /\ type \in {"none", "EOI"}
  /\ Kind(pos) = "newline"
  /\ pos' = pos + 1
  /\ type' = "none"
  /\ TagInstance
  /\ UNCHANGED <<crfVars, printVars, trained, data, file, opt, lid, item, inst>>

(* Mutant: the end of the file is reported like an empty line.              *)
EndOfFileAsEmptyLine ==
  /\ pc = "read" /\ type \in {"none", "EOI"}
  /\ Kind(pos) = "EOF"
  /\ type' = "none"
  /\ TagInstance
  /\ UNCHANGED <<crfVars, printVars, trained, data, file, opt, pos, lid, item, inst>>

(* IWA_EOF: the end of the file, after a line.                              *)
EndOfFile ==
  /\ pc = "read" /\ type \in {"none", "EOI"}
  /\ Kind(pos) = "EOF"
  /\ type' = "EOF"
  /\ TagInstance
  /\ UNCHANGED <<crfVars, printVars, trained, data, file, opt, pos, lid, item, inst>>

(* to_string; an id beyond the labels has no string.                        *)
NameOf(l) == CqdbToString(model.labels, l, NONE)

(* iwa_read returns NULL; the performance is printed with -t.               *)
LoopEnd ==
  /\ pc = "read" /\ type = "EOF"
  /\ pc' = "end"
  /\ out' = IF opt.evaluate
            THEN LET names == [l \in 1 .. eval.num_labels |-> NameOf(l)]
                 IN  Append(out, [kind |-> "performance", performance |-> Performance(eval, names)])
            ELSE out
  /\ UNCHANGED <<crfVars, readVars, i, output, score, eval>>

(***************************************************************************)
(* Tagging an instance                                                      *)
(***************************************************************************)
SetInstance ==
  /\ pc = "set"
  /\ TaggerSet([t \in DOMAIN inst |-> inst[t].item])
  /\ pc' = "viterbi"
  /\ UNCHANGED <<readVars, printVars>>

Viterbi ==
  /\ pc = "viterbi"
  /\ TaggerViterbi
  /\ output' = ViterbiPath /\ score' = ViterbiScore
  /\ eval' = IF opt.evaluate THEN Accumulated(eval, [t \in DOMAIN inst |-> inst[t].label], output')
             ELSE eval
  /\ pc' = (IF opt.quiet THEN "finish" ELSE IF opt.probability THEN "probability" ELSE "items")
  /\ i' = 1
  /\ UNCHANGED <<readVars, out>>

(* The line "@probability": exp(score - lognorm).                           *)
OutputProbability ==
  /\ pc = "probability"
  /\ \E ctx \in {AtLevel} :
         /\ SetLevel(ctx)
         /\ out' = Append(out, [kind |-> "probability", probability |-> Over(Exp(score), ctx.norm)])
  /\ pc' = "items"
  /\ UNCHANGED <<readVars, i, output, score, eval>>

(* A line of the result: the reference label, the labels and, with -i, the  *)
(* probability of the label.                                                *)
Line(reference, labels, probability) ==
  [kind |-> "item", reference |-> reference, labels |-> labels, probability |-> probability]

OutputItem ==
  /\ pc = "items" /\ i <= Len(inst) /\ opt.rank = 0
  /\ LET reference == IF opt.reference THEN << NameOf(inst[i].label) >> ELSE << >>
         label     == << NameOf(output[i]) >>
     IN  IF opt.marginal
         THEN \E ctx \in {AtLevel} :
                  /\ SetLevel(ctx)
                  /\ out' = Append(out, Line(reference, label, << MarginalPath(ctx, << output[i] >>, i) >>))
         ELSE /\ out' = Append(out, Line(reference, label, << >>))
              /\ UNCHANGED crfVars
  /\ i' = i + 1
  /\ UNCHANGED <<readVars, output, score, eval, pc>>

(* Mutant: before the first of top that is not more probable.               *)
PlaceOfEqual(top, l, p) ==
  CHOOSE x \in 1 .. Len(top) + 1 :
    /\ x <= Len(top) => ~Less(p[l], p[top[x]])
    /\ \A y \in 1 .. x - 1 : Less(p[l], p[top[y]])

(* Place of label l: before the first of top that is less probable.         *)
Place(top, l, p) ==
  CHOOSE x \in 1 .. Len(top) + 1 :
    /\ x <= Len(top) => Less(p[top[x]], p[l])
    /\ \A y \in 1 .. x - 1 : ~Less(p[top[y]], p[l])

(* rank labels are kept.                                                    *)
Kept(top) == SubSeq(top, 1, IF Len(top) < opt.rank THEN Len(top) ELSE opt.rank)

inserted[top \in Seq(Labels), l \in Labels, p \in Scores] ==
  LET x == Place(top, l, p)
  IN  Kept(SubSeq(top, 1, x - 1) \o << l >> \o SubSeq(top, x, Len(top)))

(* The loop over the strings "0" to "999": labels in the order of their     *)
(* numbers.                                                                 *)
LabelsByName ==
  SelectSeq([k \in 1 .. MaxNumber + 1 |-> CqdbToId(model.labels, k - 1)],
            LAMBDA id : id # NotFound)

ranking[ids \in Seq(Labels), p \in Scores] ==
  LET top[k \in 0 .. Len(ids)] == IF k = 0 THEN << >> ELSE inserted[top[k - 1], ids[k], p]
  IN  top[Len(ids)]

(* With --rank: the reference label and the rank most probable labels.      *)
OutputRanking ==
  /\ pc = "items" /\ i <= Len(inst) /\ opt.rank > 0
  /\ \E ctx \in {AtLevel} :
       \E ids \in {ranking[LabelsByName, Row([l \in Labels |-> MarginalPath(ctx, << l >>, i)])]} :
         /\ SetLevel(ctx)
         /\ out' = Append(out, Line(<< NameOf(inst[i].label) >>,
                                    [k \in DOMAIN ids |-> NameOf(ids[k])], << >>))
  /\ i' = i + 1
  /\ UNCHANGED <<readVars, output, score, eval, pc>>

(* The empty line behind an instance.                                       *)
OutputEnd ==
  /\ pc = "items" /\ i > Len(inst)
  /\ out' = Append(out, [kind |-> "empty"])
  /\ pc' = "finish"
  /\ UNCHANGED <<crfVars, readVars, i, output, score, eval>>

(* Mutant: the instance is not emptied.                                     *)
FinishInstanceKept ==
  /\ pc = "finish"
  /\ pc' = "read"
  /\ UNCHANGED <<crfVars, readVars, printVars>>

(* crfsuite_instance_finish: the reader goes on with an empty instance.     *)
FinishInstance ==
  /\ pc = "finish"
  /\ inst' = << >>
  /\ pc' = "read"
  /\ UNCHANGED <<crfVars, printVars, trained, data, file, opt, pos, type, lid, item>>

Returned == pc = "end" /\ UNCHANGED vars

Next ==
  \/ BeginItem \/ ReadField \/ EndItem \/ EmptyLine \/ EndOfFile \/ LoopEnd
  \/ SetInstance \/ Viterbi \/ OutputProbability \/ OutputItem \/ OutputRanking
  \/ OutputEnd \/ FinishInstance
  \/ Returned

Spec == Init /\ [][Next]_vars
FairSpec == Spec /\ WF_vars(Next)

(***************************************************************************)
(* Properties                                                               *)
(***************************************************************************)
(* With --rank an item's line holds the rank most probable labels, the most *)
(* probable first and equally probable ones by their number.                *)
RankedByProbability ==
  pc = "items" /\ opt.rank > 0 /\ i > 1 =>
    LET paths   == PathRow
        weights == Weights(paths)
        prob    == Row([l \in Labels |-> Share(paths, weights, << l >>, i - 1)])
        name    == TrainingLabels(trained.lines)
        Before(k, l) == Less(prob[l], prob[k]) \/ (prob[l] = prob[k] /\ name[k] < name[l])
    IN  \E order \in [Labels -> Labels] :
          /\ \A k \in 1 .. NumLabels - 1 : Before(order[k], order[k + 1])
          /\ out[Len(out)].labels = [k \in 1 .. opt.rank |-> name[order[k]]]

(* What Origin.py makes of the output: ParseResults takes the lines before  *)
(* the performance that are not empty.                                      *)
Parsed == SelectSeq(out, LAMBDA line : line.kind = "item")

(* Lines from..to of the data are one instance: together, and as many as    *)
(* there are between two empty lines.                                       *)
IsChain(from, to) ==
  /\ from <= to
  /\ ~Filled(data, from - 1) /\ ~Filled(data, to + 1)
  /\ \A k \in from .. to : Filled(data, k)

(* The weights that training ended with, by the strings of attributes and   *)
(* labels; 0 where it has no feature.                                       *)
TrainedWeights ==
  LET labels   == TrainingLabels(trained.lines)
      attrs    == TrainingAttrs(trained.lines)
      features == Generated(trained)
      Has(kind, src, dst) ==
        \E k \in DOMAIN features : /\ features[k].type = kind
                                   /\ labels[features[k].dst] = dst
                                   /\ (IF kind = "state" THEN attrs ELSE labels)[features[k].src] = src
  IN  [state |-> [a \in ToSet(attrs) |-> [l \in ToSet(labels) |->
                    IF Has("state", a, l) THEN trained.state[a][l] ELSE 0]],
       trans |-> [l \in ToSet(labels) |-> [m \in ToSet(labels) |->
                    IF Has("trans", l, m) THEN trained.trans[l][m] ELSE 0]]]

(* Their score for these labels of these lines.                             *)
TrainedScore(weights, lines, labels) ==
  FoldFunction(+, 0, [t \in DOMAIN lines |->
    FoldFunction(+, IF t = 1 THEN 0 ELSE weights.trans[labels[t - 1]][labels[t]],
      [c \in DOMAIN lines[t][2] |->
         IF lines[t][2][c][1] \in DOMAIN weights.state
         THEN weights.state[lines[t][2][c][1]][labels[t]] * ValueOf(lines[t][2][c])
         ELSE 0])])

(* Origin.py's call prints one label for each line of the data in the order *)
(* of the lines, and the labels of the lines of a chain are a best sequence *)
(* for that chain alone under the weights that were learned: whatever their *)
(* way through the numberings of the model file.                            *)
LabelsInOrder ==
  pc = "end" /\ ~opt.quiet /\ ~opt.probability /\ opt.rank = 0 =>
    LET Position(k) == Cardinality({ j \in 1 .. k : data[j] # << >> })
        weights == TrainedWeights
    IN  /\ Len(Parsed) = Position(Len(data))
        /\ \A from, to \in DOMAIN data :
             IsChain(from, to) =>
               LET lines == SubSeq(data, from, to)
                   path  == [t \in DOMAIN lines |-> Parsed[Position(from) + t - 1].labels[1]]
               IN  \A p \in [DOMAIN lines -> DOMAIN weights.trans] :
                     TrainedScore(weights, lines, p) <= TrainedScore(weights, lines, path)

(* The lines of a chain that are counted for -t: those before its first one *)
(* with a label that the model does not know.                               *)
Evaluated(from, to, names) ==
  { k \in from .. to : \A j \in from .. k : data[j][1] \in names }

(* The performance that -t prints is that of the labels printed: of each    *)
(* label, how often it is right, printed and in the data, for the lines of  *)
(* each chain before the first unknown label; the items that are right; and *)
(* the chains that are, of those without an unknown label.  The averages    *)
(* are over all labels of the model.                                        *)
EvaluationCountsWhatIsPrinted ==
  pc = "end" /\ opt.evaluate /\ ~opt.quiet /\ opt.rank = 0 =>
    LET shown  == Last(out).performance
        names  == ToSet(TrainingLabels(trained.lines))
        chains == { c \in (DOMAIN data) \X (DOMAIN data) : IsChain(c[1], c[2]) }
        lines  == UNION { Evaluated(c[1], c[2], names) : c \in chains }
        known  == { c \in chains : Evaluated(c[1], c[2], names) = c[1] .. c[2] }
        Printed(k) == Parsed[Cardinality({ j \in 1 .. k : data[j] # << >> })].labels[1]
        right  == { k \in lines : Printed(k) = data[k][1] }
        Row1(name) == CHOOSE r \in ToSet(shown.rows) : r.label = name
        ShareOf(part, whole) == IF whole = 0 THEN Zero ELSE reduced[part, whole]
        Of(name) == Row1(name).figures
    IN  /\ { r.label : r \in ToSet(shown.rows) } = names
        /\ \A name \in names :
             LET printed == { k \in lines : Printed(k) = name }
                 given   == { k \in lines : data[k][1] = name }
                 both    == Cardinality(printed \cap given)
             IN  /\ Row1(name).counts = [correct |-> both, model |-> Cardinality(printed),
                                         observation |-> Cardinality(given)]
                 /\ IF given = {} THEN Of(name) = << >>
                    ELSE Of(name) = << ShareOf(both, Cardinality(printed)), ShareOf(both, Cardinality(given)),
                                       ShareOf(2 * both, Cardinality(printed) + Cardinality(given)) >>
        /\ shown.totals.item_accuracy = ShareOf(Cardinality(right), Cardinality(lines))
        /\ shown.totals.inst_accuracy =
             ShareOf(Cardinality({ c \in known : c[1] .. c[2] \subseteq right }), Cardinality(known))
        /\ \A n \in 1 .. 3 :
             Times(shown.totals.macro[n], << Cardinality(names), 1 >>) =
               VecSum([m \in DOMAIN shown.rows |-> IF shown.rows[m].figures = << >> THEN Zero
                                           ELSE shown.rows[m].figures[n]])

(* crfsuite tag comes to its end on a file whose last line is complete.     *)
TagReturns == (file = << >> \/ Last(file) = NewLine) ~> pc = "end"
==============================================================================
