---------------------------- MODULE MC_Walkers ----------------------------
(* The walks over damaged bytes, one call at a time: `call` is the one that    *)
(* runs, and the state of the others stays as it was.                          *)
EXTENDS RecordWalk, C13Walk, IdTable, InlineAnnotations, NumericLeaves

-----------------------------------------------------------------------------
(* Symbol records: module streams of up to 18 bytes, whole, cut and longer     *)
(* than sym_byte_size: bodies of up to 14 bytes, so of up to three records and *)
(* a ragged tail.                                                              *)

CONSTANTS StreamLengths, SymByteSizes

MCStreams ==
  [len : StreamLengths, sym_byte_size : SymByteSizes, signature : {"C13"}]
  \cup [len : {2, 12}, sym_byte_size : SymByteSizes, signature : {"other"}]

MCHeads ==
  [rec_len : {0, 1, 20}, kind : {"proc"}, short : {FALSE}]
  \cup [rec_len : {2}, kind : Kinds, short : {TRUE}]
  \cup [rec_len : {5}, kind : {"proc", "site", "unknown"}, short : {FALSE}]
  \cup [rec_len : {6}, kind : {"thunk", "site", "label"}, short : {TRUE, FALSE}]

-----------------------------------------------------------------------------
(* C13 line info: regions with room for two subsections and a tail, among them *)
(* a lines subsection with up to three blocks; block sizes that are true,      *)
(* zero, inside the entries and past the payload.                              *)

MCSubsections ==
  [kind : {"lines"}, length : {0, 5, 12, 36, 57}]
  \cup [kind : {"checksums"}, length : {5, 13, 40}]
  \cup [kind : {"ignored"}, length : {0, 13}]
  \cup [kind : {"other"}, length : {3, 100}]

MCChecksums == [name : {1}, checksum_size : {0, 20}]

MCBlocks ==
  [file : {0}, num_lines : {0, 1}, block_size : {0, 16, 24}]
  \cup [file : {8}, num_lines : {1, 9}, block_size : {100}]

-----------------------------------------------------------------------------
(* Ids: up to three records, any of which may be hash data, cut at every byte. *)

MCIdRecords == {[kind |-> "func", size |-> 10, nul |-> 8], [kind |-> "func", size |-> 7, nul |-> 5],
                [kind |-> "string", size |-> 6, nul |-> 5], [kind |-> "string", size |-> 5, nul |-> 0],
                [kind |-> "other", size |-> 6, nul |-> 5], [kind |-> "mfunc", size |-> -1, nul |-> 0]}

-----------------------------------------------------------------------------
(* Annotations: every sequence of up to four instructions.  The operand 17 is  *)
(* 1 in the low four bits, and 0 as a chunk is the way back to the body.       *)

-----------------------------------------------------------------------------
(* Constants: every leaf at both ends of its range, with and without a name,   *)
(* cut at every byte.  A byte has eight values, so that TLC's integers hold    *)
(* eight bytes.                                                                *)

MCEnds(leaf) ==
  LET top == Radix ^ leaf.width
  IN IF leaf.signed THEN {-(top \div 2), -1, top \div 2 - 1} ELSE {0, top \div 2, top - 1}

MCConstantsWritten ==
  [leaf : {"none"}, value : {0, LF_NUMERIC - 1}, name : {<<>>, <<5>>}]
  \cup UNION {[leaf : {l}, value : MCEnds(Leaves[l]), name : {<<5>>}] : l \in DOMAIN Leaves}

-----------------------------------------------------------------------------
VARIABLE call

RecordsIdle == stream = (CHOOSE s \in Streams : TRUE) /\ RecordsInit
LineInfoIdle == len = (CHOOSE r \in Regions : TRUE) /\ LineInfoInit
IdsIdle == recs = <<>> /\ region = 0 /\ left = 0 /\ IdsInit

\* Of the annotations and of the constants there is one beginning.
Init ==
    /\ AnnotationsInit /\ ConstantsInit
    /\ \/ call = "records" /\ LineInfoIdle /\ IdsIdle /\ RecordsInit
       \/ call = "lines" /\ RecordsIdle /\ IdsIdle /\ LineInfoInit
       \/ call = "ids" /\ RecordsIdle /\ LineInfoIdle /\ IdsInit
       \/ /\ call \in {"annotations", "constants"}
          /\ RecordsIdle /\ LineInfoIdle /\ IdsIdle

Next ==
    \/ /\ call = "records" /\ RecordsNext
       /\ UNCHANGED <<lineInfoVars, idVars, annotationVars, constantVars, call>>
    \/ /\ call = "lines" /\ LineInfoNext
       /\ UNCHANGED <<recordVars, idVars, annotationVars, constantVars, call>>
    \/ /\ call = "ids" /\ IdsNext
       /\ UNCHANGED <<recordVars, lineInfoVars, annotationVars, constantVars, call>>
    \/ /\ call = "annotations" /\ AnnotationsNext
       /\ UNCHANGED <<recordVars, lineInfoVars, idVars, constantVars, call>>
    \/ /\ call = "constants" /\ ConstantsNext
       /\ UNCHANGED <<recordVars, lineInfoVars, idVars, annotationVars, call>>

Spec ==
    Init /\ [][Next]_<<recordVars, lineInfoVars, idVars, annotationVars, constantVars, call>>
=============================================================================
