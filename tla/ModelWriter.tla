----------------------------- MODULE ModelWriter -----------------------------
(***************************************************************************)
(* How a model file is written: crf1d_model.c and the writer of cqdb.c, as  *)
(* crf1de_save_model calls them, on a buffered stream; and what the readers *)
(* of the two find in a file that is left by a writer which may be killed   *)
(* at any time.                                                             *)
(*                                                                          *)
(* A file is a set of cells, [at, size, value]: what was written at a       *)
(* position and not written over since.  Bytes behind a seek that were      *)
(* never written are zeros.  What a model is made of is in ModelFile; here  *)
(* it has been renumbered, and ids are the code's plus one.                 *)
(***************************************************************************)
EXTENDS Cqdb, FiniteSets

CONSTANTS
  SavedModels,  (* the models: features in the order of their ids, labels    *)
                (* and attrs as rows of strings, labelrefs and attrrefs as   *)
                (* rows of rows of feature ids                               *)
  StringSize    (* [strings -> Nat]: the bytes of a string with its end      *)

ASSUME ModelWriterAssumption ==
  \A m \in SavedModels : /\ Len(m.labelrefs) = Len(m.labels) /\ Len(m.attrrefs) = Len(m.attrs)
                         /\ \A s \in ToSet(m.labels \o m.attrs) : StringSize[s] \in Nat

VARIABLES
  saving,   (* the model that is saved; before there is one, an empty one    *)
  disk,     (* the cells that have left the process                          *)
  pending,  (* the cells in the buffer of the stream, in the order written   *)
  filePos,  (* where the stream stands                                       *)
  todo,     (* the writes and seeks that the function called has yet to do   *)
  wpc,      (* what crf1de_save_model calls next                             *)
  writer    (* crf1dmw_t: state, the header, and the chunk that is written   *)

writerVars == <<saving, disk, pending, filePos, todo, wpc, writer>>

HEADER_SIZE  == 48
CHUNK_SIZE   == 12
FEATURE_SIZE == 20
OFFSET_REFS  == 24
OFFSET_DATA  == OFFSET_REFS + 8 * NumTables

NoOffsets == [features |-> 0, labels |-> 0, attrs |-> 0, labelrefs |-> 0, attrrefs |-> 0]

NoLabelsAtAll ==
  [features |-> << >>, labels |-> << >>, attrs |-> << >>, labelrefs |-> << >>, attrrefs |-> << >>]

WriterInit ==
  /\ saving = NoLabelsAtAll
  /\ disk = {} /\ pending = << >> /\ filePos = 0 /\ todo = << >>
  /\ wpc = "create"
  /\ writer = [state |-> "none", off |-> NoOffsets, num |-> [labels |-> 0, attrs |-> 0], chunk |-> << >>]

(***************************************************************************)
(* The stream                                                               *)
(***************************************************************************)
Write(value, size) == [op |-> "write", value |-> value, size |-> size]
Seek(to) == [op |-> "seek", to |-> to]

(* What is there after a cell was written.                                  *)
WithCell(cells, c) ==
  { d \in cells : d.at + d.size <= c.at \/ c.at + c.size <= d.at } \cup { c }

Flushed(cells, row) == FoldLeft(WithCell, cells, row)

(* fwrite *)
DoWrite ==
  /\ todo # << >> /\ Head(todo).op = "write"
  /\ pending' = Append(pending, [at |-> filePos, size |-> Head(todo).size, value |-> Head(todo).value])
  /\ filePos' = filePos + Head(todo).size
  /\ todo' = Tail(todo)
  /\ UNCHANGED <<saving, disk, wpc, writer>>

(* fseek; it writes the buffer out.                                         *)
DoSeek ==
  /\ todo # << >> /\ Head(todo).op = "seek"
  /\ disk' = Flushed(disk, pending) /\ pending' = << >>
  /\ filePos' = Head(todo).to
  /\ todo' = Tail(todo)
  /\ UNCHANGED <<saving, wpc, writer>>

(* A function of the writer: what it has the stream do, the writer it       *)
(* leaves, and what is called next.                                         *)
Does(ops, w, next) ==
  /\ todo = << >> /\ todo' = ops
  /\ writer' = w /\ wpc' = next
  /\ UNCHANGED <<saving, disk, pending, filePos>>

(***************************************************************************)
(* Features                                                                 *)
(***************************************************************************)
(* crf1mmw: the place of the header is skipped.                             *)
Create ==
  /\ wpc = "create" /\ todo = << >>
  /\ saving' \in SavedModels
  /\ todo' = << Seek(HEADER_SIZE) >> /\ wpc' = "open features"
  /\ UNCHANGED <<disk, pending, filePos, writer>>

OpenFeatures ==
  /\ wpc = "open features" /\ writer.state = "none"
  /\ Does(<< Seek(filePos + CHUNK_SIZE) >>,
          [writer EXCEPT !.state = "features", !.off.features = filePos, !.chunk = [num |-> 0]], "features")

PutFeature ==
  /\ wpc = "features" /\ writer.state = "features" /\ writer.chunk.num < Len(saving.features)
  /\ Does(<< Write([is |-> "feature", feature |-> saving.features[writer.chunk.num + 1]], FEATURE_SIZE) >>,
          [writer EXCEPT !.chunk.num = @ + 1], "features")

(* Mutant: the stream stays behind the chunk's header.                      *)
AtHeadWithoutReturn(begin, ops) == << Seek(begin) >> \o ops

(* Something is written at begin, and the stream returns to where it was.   *)
AtHead(begin, ops) == << Seek(begin) >> \o ops \o << Seek(filePos) >>

CloseFeatures ==
  /\ wpc = "features" /\ writer.chunk.num = Len(saving.features)
  /\ Does(AtHead(writer.off.features, << Write([is |-> "FEAT", num |-> writer.chunk.num], CHUNK_SIZE) >>),
          [writer EXCEPT !.state = "none", !.chunk = << >>], "open labels")

(***************************************************************************)
(* Labels and attributes: chunks of CQDB                                    *)
(***************************************************************************)
(* With cqdb_writer: the chunk's header and references to tables are        *)
(* skipped; cur is the offset of the next string in the chunk, strings are  *)
(* those put, each with its offset.                                         *)
OpenStrings(kind, num) ==
  /\ wpc = "open " \o kind /\ writer.state = "none"
  /\ Does(<< Seek(filePos + OFFSET_DATA) >>,
          [writer EXCEPT !.state = kind, !.off[kind] = filePos, !.num[kind] = num,
                         !.chunk = [cur |-> OFFSET_DATA, strings |-> << >>]], kind)

(* With cqdb_writer_put.                                                    *)
PutString(kind) ==
  LET chunk == writer.chunk
      n == Len(chunk.strings) + 1
      size == 8 + StringSize[saving[kind][n]]
  IN  /\ wpc = kind /\ writer.state = kind /\ n <= Len(saving[kind])
      /\ Does(<< Write([is |-> "string", str |-> saving[kind][n], id |-> n], size) >>,
              [writer EXCEPT !.chunk = [cur |-> chunk.cur + size,
                 strings |-> Append(chunk.strings, [hash |-> Hash[saving[kind][n]], offset |-> chunk.cur])]],
              kind)

(* The tables that are not empty, each with its number, in their order.     *)
TablesOf(strings) ==
  SelectSeq([t \in 1 .. NumTables |->
               [t |-> t - 1, table |-> Placed(SelectSeq(strings, LAMBDA b : b.hash % NumTables = t - 1))]],
            LAMBDA e : e.table # << >>)

(* The offset of the table that is the k-th to be written.                  *)
TableOffset(chunk, tables, k) ==
  FoldFunction(+, chunk.cur, [j \in 1 .. k - 1 |-> 8 * Len(tables[j].table)])

(* cqdb_writer_close: the tables, the array of backward links, and then at  *)
(* its head the chunk's header and the references to the tables.            *)
ClosedChunk(begin, chunk) ==
  LET tables == TablesOf(chunk.strings)
      Ref(t) == LET k == SelectInSeq(tables, LAMBDA e : e.t = t)
                IN  IF k = 0 THEN 0 ELSE TableOffset(chunk, tables, k)
      writes == [k \in DOMAIN tables |->
                   Write([is |-> "table", table |-> tables[k].table], 8 * Len(tables[k].table))]
      linksAt == filePos + FoldFunction(+, 0, [k \in DOMAIN tables |-> 8 * Len(tables[k].table)])
      links == IF chunk.strings = << >> THEN << >>
               ELSE << Write([is |-> "links", links |-> [n \in DOMAIN chunk.strings |-> chunk.strings[n].offset]],
                             4 * Len(chunk.strings)) >>
      end == linksAt + 4 * Len(chunk.strings)
  IN  writes \o links \o
      << Seek(begin),
         Write([is |-> "CQDB", size |-> end - begin,
                bwd_offset |-> IF chunk.strings = << >> THEN 0 ELSE linksAt - begin,
                refs |-> [t \in 0 .. NumTables - 1 |-> Ref(t)]], OFFSET_DATA),
         Seek(end) >>

CloseStrings(kind, next) ==
  /\ wpc = kind /\ writer.state = kind /\ Len(writer.chunk.strings) = Len(saving[kind])
  /\ Does(ClosedChunk(writer.off[kind], writer.chunk),
          [writer EXCEPT !.state = "none", !.chunk = << >>], next)

OpenLabels  == OpenStrings("labels", Len(saving.labels))
PutLabel    == PutString("labels")
CloseLabels == CloseStrings("labels", "open attrs")
OpenAttrs   == OpenStrings("attrs", Len(saving.attrs))
PutAttr     == PutString("attrs")
CloseAttrs  == CloseStrings("attrs", "open labelrefs")

(***************************************************************************)
(* References to features                                                   *)
(***************************************************************************)
Padding == (4 - (filePos % 4)) % 4

(* The chunk begins at a multiple of four; its header and num offsets are   *)
(* skipped.                                                                 *)
OpenRefs(kind, num) ==
  /\ wpc = "open " \o kind /\ writer.state = "none"
  /\ Does([k \in 1 .. Padding |-> Write([is |-> "zero"], 1)]
            \o << Seek(filePos + Padding + CHUNK_SIZE + 4 * num) >>,
          [writer EXCEPT !.state = kind, !.off[kind] = filePos + Padding,
                         !.chunk = [offsets |-> [n \in 1 .. num |-> 0], put |-> 0]], kind)

PutRefs(kind) ==
  LET n == writer.chunk.put + 1
  IN  /\ wpc = kind /\ writer.state = kind /\ n <= Len(saving[kind])
      /\ Does(<< Write([is |-> "refs", fids |-> saving[kind][n]], 4 + 4 * Len(saving[kind][n])) >>,
              [writer EXCEPT !.chunk.offsets[n] = filePos, !.chunk.put = n], kind)

CloseRefs(kind, next) ==
  LET offsets == writer.chunk.offsets
  IN  /\ wpc = kind /\ writer.state = kind /\ writer.chunk.put = Len(saving[kind])
      /\ Does(AtHead(writer.off[kind],
                << Write([is |-> kind, num |-> Len(offsets)], CHUNK_SIZE) >>
                \o [n \in DOMAIN offsets |-> Write([is |-> "offset", offset |-> offsets[n]], 4)]),
              [writer EXCEPT !.state = "none", !.chunk = << >>], next)

(* Room for two more labels is kept from the time when there were labels    *)
(* for the beginning and the end.                                           *)
OpenLabelRefs  == OpenRefs("labelrefs", Len(saving.labels) + 2)
PutLabelRef    == PutRefs("labelrefs")
CloseLabelRefs == CloseRefs("labelrefs", "open attrrefs")
OpenAttrRefs   == OpenRefs("attrrefs", Len(saving.attrs))
PutAttrRef     == PutRefs("attrrefs")
CloseAttrRefs  == CloseRefs("attrrefs", "close")

(***************************************************************************)
(* The end                                                                  *)
(***************************************************************************)
(* crf1dmw_close: the header is written last.                               *)
CloseFile ==
  /\ wpc = "close"
  /\ Does(<< Seek(0), Write([is |-> "header", off |-> writer.off, num |-> writer.num], HEADER_SIZE) >>,
          writer, "fclose")

(* fclose *)
CloseStream ==
  /\ wpc = "fclose" /\ todo = << >>
  /\ disk' = Flushed(disk, pending) /\ pending' = << >>
  /\ wpc' = "closed"
  /\ UNCHANGED <<saving, filePos, todo, writer>>

(* The process is killed: the first of what is in the buffer may have left  *)
(* it.                                                                      *)
WriterKilled ==
  /\ wpc \notin {"closed", "killed"}
  /\ \E n \in 0 .. Len(pending) : disk' = Flushed(disk, SubSeq(pending, 1, n))
  /\ pending' = << >> /\ todo' = << >> /\ wpc' = "killed"
  /\ UNCHANGED <<saving, filePos, writer>>

WriterNext ==
  \/ Create \/ OpenFeatures \/ PutFeature \/ CloseFeatures
  \/ OpenLabels \/ PutLabel \/ CloseLabels \/ OpenAttrs \/ PutAttr \/ CloseAttrs
  \/ OpenLabelRefs \/ PutLabelRef \/ CloseLabelRefs \/ OpenAttrRefs \/ PutAttrRef \/ CloseAttrRefs
  \/ CloseFile \/ CloseStream \/ DoWrite \/ DoSeek \/ WriterKilled

(***************************************************************************)
(* The readers                                                              *)
(***************************************************************************)
(* What begins at a position; otherwise the reader sees something else.     *)
CellAt(cells, p) ==
  IF \E c \in cells : c.at = p THEN (CHOOSE c \in cells : c.at = p).value ELSE [is |-> "other"]

FileSize(cells) == LET ends == { c.at + c.size : c \in cells } IN
                   IF ends = {} THEN 0 ELSE CHOOSE e \in ends : \A f \in ends : f <= e

(* Of what malloc returns and of what lies behind it, taken for a header:   *)
(* the numbers may be anything, and are tried up to LEFT_OVER.              *)
LEFT_OVER == 1

Leftovers ==
  { [off |-> NoOffsets, num |-> [labels |-> n, attrs |-> m]] : n \in 0 .. LEFT_OVER, m \in 0 .. LEFT_OVER }

(* The headers that crf1dm_new may see.  It looks at nothing of them but    *)
(* offsets and numbers, and reads HEADER_SIZE bytes whatever the size of    *)
(* the file: of a shorter one, memory that nothing was read into.           *)
HeadersOf(cells) ==
  IF FileSize(cells) < HEADER_SIZE THEN Leftovers
  ELSE IF CellAt(cells, 0).is = "header" THEN { CellAt(cells, 0) }
  ELSE { [off |-> NoOffsets, num |-> [labels |-> 0, attrs |-> 0]] }

(* Where no string is, the reader sees something else.                      *)
StringAt(cells, p) == IF CellAt(cells, p).is = "string" THEN CellAt(cells, p) ELSE [str |-> "other", id |-> 0]

(* cqdb_reader: NULL, which finds nothing, without its mark or when the     *)
(* chunk is cut.                                                            *)
ReadChunk(cells, begin) ==
  LET head == CellAt(cells, begin)
      Table(offset) == LET read == CellAt(cells, begin + offset)
                       IN  IF offset # 0 /\ read.is = "table" THEN read.table ELSE << >>
      Links(offset) == LET read == CellAt(cells, begin + offset)
                       IN  IF offset # 0 /\ read.is = "links" THEN read.links ELSE << >>
  IN  IF head.is # "CQDB" \/ FileSize(cells) - begin < head.size
      THEN [records |-> << >>, ht |-> [t \in 0 .. NumTables - 1 |-> << >>], bwd |-> << >>]
      ELSE [records |-> [o \in 0 .. FileSize(cells) |-> StringAt(cells, begin + o)],
            ht |-> [t \in 0 .. NumTables - 1 |-> Table(head.refs[t])],
            bwd |-> Links(head.bwd_offset)]

NoFeature == [type |-> "other", src |-> 0, dst |-> 0]

(* crf1dm_get_labelref and crf1dm_get_attrref, and crf1dm_get_feature for   *)
(* each of the features.                                                    *)
ReadFeatures(cells, header, kind, n) ==
  LET offset == CellAt(cells, header.off[kind] + CHUNK_SIZE + 4 * (n - 1))
      refs == IF offset.is = "offset" THEN CellAt(cells, offset.offset) ELSE offset
  IN  IF refs.is # "refs" THEN << NoFeature >>
      ELSE [k \in DOMAIN refs.fids |->
              LET read == CellAt(cells, header.off.features + CHUNK_SIZE + FEATURE_SIZE * (refs.fids[k] - 1))
              IN  IF read.is = "feature" THEN read.feature ELSE NoFeature]

KnownStrings == DOMAIN StringSize

(* All that the functions of crf1dm_t tell of the file by a header.         *)
WhatIsRead(cells, header) ==
  LET labels == ReadChunk(cells, header.off.labels)
      attrs  == ReadChunk(cells, header.off.attrs)
  IN  [labels    |-> [n \in 1 .. header.num.labels |-> CqdbToString(labels, n, "other")],
       attrs     |-> [n \in 1 .. header.num.attrs |-> CqdbToString(attrs, n, "other")],
       labelIds  |-> [s \in KnownStrings |-> CqdbToId(labels, s)],
       attrIds   |-> [s \in KnownStrings |-> CqdbToId(attrs, s)],
       labelrefs |-> [n \in 1 .. header.num.labels |-> ReadFeatures(cells, header, "labelrefs", n)],
       attrrefs  |-> [n \in 1 .. header.num.attrs |-> ReadFeatures(cells, header, "attrrefs", n)]]

WhatMayBeRead(cells) == { WhatIsRead(cells, header) : header \in HeadersOf(cells) }

(***************************************************************************)
(* Properties                                                               *)
(***************************************************************************)
WhatModelSays(m) ==
  LET IdsOfRow(row) == [s \in KnownStrings |-> IF Contains(row, s) THEN SelectInSeq(row, LAMBDA x : x = s)
                                               ELSE NotFound]
      Named(refs) == [n \in DOMAIN refs |-> [k \in DOMAIN refs[n] |-> m.features[refs[n][k]]]]
  IN  [labels |-> m.labels, attrs |-> m.attrs,
       labelIds |-> IdsOfRow(m.labels), attrIds |-> IdsOfRow(m.attrs),
       labelrefs |-> Named(m.labelrefs), attrrefs |-> Named(m.attrrefs)]

(* When the writer comes to its end, the file is read as the model that was *)
(* to be saved, although numbers, offsets and chunk headers are written     *)
(* behind what they are about.  Wherever it is killed after the first bytes *)
(* have left it, the file is read as the model or as one of no labels and   *)
(* attributes, never as another one, and is long enough for the header that *)
(* crf1dm_new reads without a look at the size.  A file that was only       *)
(* opened is not: nothing is said of what is read of it.                    *)
FileIsTheModelOrEmpty ==
  /\ wpc = "closed" => WhatMayBeRead(disk) = { WhatModelSays(saving) }
  /\ wpc = "killed" =>
       disk = {} \/ WhatMayBeRead(disk) \subseteq { WhatModelSays(saving), WhatModelSays(NoLabelsAtAll) }
==============================================================================
