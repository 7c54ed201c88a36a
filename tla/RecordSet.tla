------------------------------ MODULE RecordSet ------------------------------
(***************************************************************************)
(* What a tree of records promises its callers, whatever its shape: a set   *)
(* of records, and the code each call returns (rumavl.h).                   *)
(***************************************************************************)
CONSTANT Records

VARIABLES
  contents,   (* the records in the tree                                    *)
  last        (* the last call: its name, its record and what it returned   *)

Init == contents = {} /\ last = << "new", {}, "OK" >>

Set(r) == last' = << "set", {r}, "OK" >> /\ contents' = contents \cup {r}

Insert(r) ==
  \/ last' = << "insert", {r}, "OK" >> /\ r \notin contents /\ contents' = contents \cup {r}
  \/ last' = << "insert", {r}, "EXIST" >> /\ r \in contents /\ contents' = contents

Delete(r) ==
  \/ last' = << "delete", {r}, "OK" >> /\ r \in contents /\ contents' = contents \ {r}
  \/ last' = << "delete", {r}, "NOENT" >> /\ r \notin contents /\ contents' = contents

Destroy == last' = << "destroy", {}, "OK" >> /\ contents' = {}

(* A call that finds no memory has changed nothing.                         *)
NoMemory == last' = << "any", {}, "NOMEM" >> /\ contents' = contents

Next ==
  \/ \E r \in Records : Set(r) \/ Insert(r) \/ Delete(r)
  \/ Destroy
  \/ NoMemory

Spec == Init /\ [][Next]_<<contents, last>>
==============================================================================
