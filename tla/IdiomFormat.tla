----------------------------- MODULE IdiomFormat -----------------------------
(***************************************************************************)
(* An instruction as a term of an idiom, its packing into an integer and   *)
(* the shortened form that is written to .featlist: IdiomTerm and          *)
(* IdiomFeature::format of function-features/idiom.cpp and feature.h. The  *)
(* three fields are 16 bits wide there; Base is the number of values one   *)
(* of them has.                                                            *)
(***************************************************************************)
EXTENDS Integers, Sequences, FiniteSets

CONSTANTS
  Base,      (* 65536                                                      *)
  ILLEGAL,   (* e_No_Entry                                                 *)
  NOP,       (* e_nop                                                      *)
  WILD       (* the entry_id of WILDCARD_IDIOM, 0xaaaa                     *)

ASSUME IdiomFormatAssumption ==
  /\ Base \in Nat /\ Base > 8 /\ ILLEGAL \in 1..(Base - 1) /\ NOP \in Nat
  /\ WILD \in 1..(Base - 1)

NOARG == Base - 1
IMMARG == NOARG - 1
MEMARG == NOARG - 2
MULTIREG == NOARG - 3

Term == [entry_id : 0..(Base - 1), arg1 : 0..(Base - 1), arg2 : 0..(Base - 1)]

WILDCARD_IDIOM == [entry_id |-> WILD, arg1 |-> NOARG, arg2 |-> NOARG]

(* An operand is memory, one register, several or (none) an immediate; a   *)
(* register is its id, of which a field keeps the low bits.                *)
Arg(operand) ==
  IF operand.memory THEN MEMARG
  ELSE IF operand.regs = {} THEN IMMARG
  ELSE IF Cardinality(operand.regs) > 1 THEN MULTIREG
  ELSE (CHOOSE r \in operand.regs : TRUE) % Base

(* IdiomTerm(Function *, Address) on the instruction decoded there: its    *)
(* opcode and its first two operands.                                      *)
IdiomTerm(insn) ==
  LET entry == (insn.op + 1) % Base
      arg(i) == IF entry = ILLEGAL \/ Len(insn.operands) < i \/ insn.op = NOP
                THEN NOARG ELSE Arg(insn.operands[i])
  IN [entry_id |-> entry, arg1 |-> arg(1), arg2 |-> arg(2)]

to_int(t) == t.entry_id * (Base * Base) + t.arg1 * Base + t.arg2

from_int(i) ==
  [entry_id |-> (i \div (Base * Base)) % Base, arg1 |-> (i \div Base) % Base, arg2 |-> i % Base]

(* format: NOARGs are shifted out on the right, and back in by the         *)
(* constructor that reads a string.                                        *)
ShiftOut(i) == IF i % Base = NOARG THEN i \div Base ELSE i

ShiftIn(i) == IF (i \div (Base * Base)) % Base = 0 THEN i * Base + NOARG ELSE i

FormatTerm(t) == ShiftOut(ShiftOut(to_int(t)))
ParseTerm(i) == from_int(ShiftIn(ShiftIn(i)))

(* The canonical string of an idiom, its terms separated by underscores.   *)
Format(terms) == [i \in DOMAIN terms |-> FormatTerm(terms[i])]
Parse(string) == [i \in DOMAIN string |-> ParseTerm(string[i])]
=============================================================================
