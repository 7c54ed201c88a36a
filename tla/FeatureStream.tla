---------------------------- MODULE FeatureStream ----------------------------
(***************************************************************************)
(* What one feature extraction promises, without its threads: the records  *)
(* of a set of functions are sent in some order, a prefix of that order is *)
(* written to the .instances file, and the stream is closed once, when     *)
(* everything has been sent. It does NOT promise that what was sent is     *)
(* written: Close may come before the last writes, and End after them.     *)
(***************************************************************************)
EXTENDS Naturals, Sequences

CONSTANT Wanted      (* the functions whose features are to be extracted   *)

VARIABLES
  sent,              (* the functions in the order their records were sent *)
  written,           (* the functions in the order of the file's lines     *)
  phase              (* "open", "closed" or "ended"                        *)

streamVars == <<sent, written, phase>>

SentSet == { sent[i] : i \in DOMAIN sent }

StreamInit == sent = <<>> /\ written = <<>> /\ phase = "open"

Send(f) ==
  /\ phase = "open" /\ f \notin SentSet
  /\ sent' = Append(sent, f)
  /\ UNCHANGED <<written, phase>>

(* The next line is that of the record sent after the last one written.    *)
Write ==
  /\ phase # "ended" /\ Len(written) < Len(sent)
  /\ written' = Append(written, sent[Len(written) + 1])
  /\ UNCHANGED <<sent, phase>>

Close ==
  /\ phase = "open" /\ SentSet = Wanted
  /\ phase' = "closed"
  /\ UNCHANGED <<sent, written>>

End == phase = "closed" /\ phase' = "ended" /\ UNCHANGED <<sent, written>>

StreamNext == (\E f \in Wanted : Send(f)) \/ Write \/ Close \/ End

StreamSpec == StreamInit /\ [][StreamNext]_streamVars
=============================================================================
