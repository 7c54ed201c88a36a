--------------------------------- MODULE Cqdb ---------------------------------
(***************************************************************************)
(* The constant database in a model file: crfsuite-0.12/lib/cqdb/src/cqdb.c *)
(* It maps strings to ids through hash tables with open addressing, twice   *)
(* as large as their contents, and ids to strings through an array of       *)
(* backward links.                                                          *)
(*                                                                          *)
(* Ids are the code's plus one.  An offset into the chunk is the number of  *)
(* the record that stands there; 0 is no offset, as in the code.            *)
(***************************************************************************)
EXTENDS Integers, SequencesExt

CONSTANTS
  NumTables,   (* the code's 256                                            *)
  Hash         (* [strings -> Nat]: hashlittle                              *)

ASSUME TablesAssumption == NumTables \in Nat \ {0}

NotFound == -1   (* CQDB_ERROR_NOTFOUND                                     *)
Vacant == [hash |-> 0, offset |-> 0]

(* cqdb_writer_put of these [str, id] in turn: the bucket list of table t.  *)
Bucket(records, t) ==
  SelectSeq([k \in DOMAIN records |-> [hash |-> Hash[records[k].str], offset |-> k]],
            LAMBDA b : b.hash % NumTables = t)

(* The elements of a table of size n in the order they are probed.          *)
Probes(hash, n) == [d \in 1 .. n |-> (((hash \div NumTables) + d - 1) % n) + 1]

IndexOfVacant(table, probes) == SelectInSeq(probes, LAMBDA k : table[k].offset = 0)

(* cqdb_writer_close: the elements of a bucket list take the first vacant   *)
(* place, in their order.                                                   *)
Placed(bucket) ==
  LET n == 2 * Len(bucket)
      dst[j \in 0 .. Len(bucket)] ==
        IF j = 0 THEN [k \in 1 .. n |-> Vacant]
        ELSE LET probes == Probes(bucket[j].hash, n)
             IN  [dst[j - 1] EXCEPT ![probes[IndexOfVacant(dst[j - 1], probes)]] = bucket[j]]
  IN  dst[Len(bucket)]

(* The backward links: the last record put for an id.                       *)
Backward(records) ==
  LET size == FoldSeq(LAMBDA r, m : IF r.id > m THEN r.id ELSE m, 0, records)
  IN  [id \in 1 .. size |-> SelectLastInSeq(records, LAMBDA r : r.id = id)]

(* What cqdb_reader makes of the chunk that these puts leave.               *)
Database(records) ==
  [records |-> records,
   ht      |-> [t \in 0 .. NumTables - 1 |-> Placed(Bucket(records, t))],
   bwd     |-> Backward(records)]

(* cqdb_to_id: the search ends at a vacant element.                         *)
CqdbToId(db, str) ==
  LET table == db.ht[Hash[str] % NumTables]
      probes == Probes(Hash[str], Len(table))
      taken == SubSeq(probes, 1, IndexOfVacant(table, probes) - 1)
      found == SelectInSeq(taken, LAMBDA k :
                 table[k].hash = Hash[str] /\ db.records[table[k].offset].str = str)
  IN  IF table = << >> \/ found = 0 THEN NotFound
      ELSE db.records[table[taken[found]].offset].id

(* cqdb_to_string; none is its NULL.                                        *)
CqdbToString(db, id, none) ==
  IF id \in DOMAIN db.bwd /\ db.bwd[id] # 0 THEN db.records[db.bwd[id]].str ELSE none
==============================================================================
