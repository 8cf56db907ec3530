------------------------------ MODULE MsfBlocks ------------------------------
(***************************************************************************)
(* The blocks of an MSF file, and what reading a list of them gives: the   *)
(* blocks, in the order of the list, cut to the size asked for; or a       *)
(* refusal that names the first block of the list that does not lie wholly *)
(* inside the file.  It is the read one block at a time that               *)
(* MsfFile._read_blocks (purepdb/msf.py) says its run-at-a-time read is    *)
(* equivalent to; MsfRead shows that it is, and the modules above read     *)
(* streams through this definition.                                        *)
(*                                                                         *)
(* Bytes are not modelled one by one: the bytes of a concatenation of      *)
(* whole blocks cut to a length are determined by the sequence of block    *)
(* indices and that length.                                                *)
(***************************************************************************)
EXTENDS Integers, Sequences

CONSTANTS
  BlockSize,   \* SuperBlock.block_size, in bytes
  FileLen      \* len(data), in bytes; not always a whole number of blocks

ASSUME BlockSizeAssumption == BlockSize \in Nat \ {0}
ASSUME FileLenAssumption == FileLen \in Nat

Returned(blocks, bytes) == [outcome |-> "bytes", blocks |-> blocks, len |-> bytes]
OutOfRange(b) == [outcome |-> "MsfError", block |-> b]

Least(a, b) == IF a < b THEN a ELSE b

\* _ceil_div: how many units of size b hold a bytes.
CeilDiv(a, b) == (a + b - 1) \div b

\* Block b lies inside the file.
InFile(b) == (b + 1) * BlockSize <= FileLen

\* Mutant: the last block of a read is not cut to the size asked for.
PerBlockUncut(indices, size) ==
  IF \A k \in DOMAIN indices : InFile(indices[k])
  THEN Returned(indices, Len(indices) * BlockSize)
  ELSE OutOfRange(indices[CHOOSE k \in DOMAIN indices : ~InFile(indices[k])])

\* The answer of the read that takes one block at a time.
PerBlock(indices, size) ==
  LET outside == {k \in DOMAIN indices : ~InFile(indices[k])} IN
  IF outside = {}
  THEN Returned(indices, Least(size, Len(indices) * BlockSize))
  ELSE OutOfRange(indices[CHOOSE k \in outside : \A j \in outside : k <= j])
=============================================================================
