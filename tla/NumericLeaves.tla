----------------------------- MODULE NumericLeaves -----------------------------
(***************************************************************************)
(* S_CONSTANT records (parse_numeric, parse_constant, extract_constants    *)
(* and the two counts that answer for what it drops, in                    *)
(* purepdb/codeview.py; the cursor of purepdb/reader.py).                  *)
(*                                                                         *)
(* A byte is a number below Radix, which is 256 in the program and may be  *)
(* any even number that leaves room for the leaf tags.  The records are    *)
(* those a compiler writes, cut at any byte; how it writes a value is      *)
(* Leaves, which is the format and not the program.                        *)
(***************************************************************************)
EXTENDS Integers, Sequences, FiniteSets, SequencesExt

CONSTANTS
  Radix,             \* the values of a byte
  ConstantsWritten,  \* what a compiler wrote: [leaf, value, name]
  MaxConstants       \* bound: records in the stream

ASSUME RadixAssumption == Radix \in Nat /\ Radix % 2 = 0 /\ Radix >= 6

LF_NUMERIC == (Radix * Radix) \div 2

\* The leaves of the format: how many bytes, and whether they carry a sign.
\* None of "real" and "string" is decoded, whatever their length.
Leaves == [
  char   |-> [tag |-> LF_NUMERIC,      width |-> 1, signed |-> TRUE],
  short  |-> [tag |-> LF_NUMERIC + 1,  width |-> 2, signed |-> TRUE],
  ushort |-> [tag |-> LF_NUMERIC + 2,  width |-> 2, signed |-> FALSE],
  long   |-> [tag |-> LF_NUMERIC + 3,  width |-> 4, signed |-> TRUE],
  ulong  |-> [tag |-> LF_NUMERIC + 4,  width |-> 4, signed |-> FALSE],
  real   |-> [tag |-> LF_NUMERIC + 5,  width |-> 4, signed |-> TRUE],
  quad   |-> [tag |-> LF_NUMERIC + 9,  width |-> 8, signed |-> TRUE],
  uquad  |-> [tag |-> LF_NUMERIC + 10, width |-> 8, signed |-> FALSE],
  string |-> [tag |-> LF_NUMERIC + 16, width |-> 3, signed |-> FALSE]]

Integral == DOMAIN Leaves \ {"real", "string"}

\* A value in n bytes, the least first, negative ones by their complement.
LittleEndian(value, n) ==
  [i \in 1..n |-> ((value % (Radix ^ n)) \div (Radix ^ (i - 1))) % Radix]

\* The payload a compiler writes: a type index, the value, the name and its NUL.
\* A value below LF_NUMERIC may stand for itself.  What aligns the next record
\* comes after.
Unpadded(w) ==
  <<0, 0, 0, 1>>
  \o (IF w.leaf = "none" THEN LittleEndian(w.value, 2)
      ELSE LittleEndian(Leaves[w.leaf].tag, 2) \o LittleEndian(w.value, Leaves[w.leaf].width))
  \o w.name \o <<0>>
Payload(w) == Unpadded(w) \o <<Radix - 1>>

VARIABLES
  records,     \* the records of the stream so far: [written, cut]
  listed,      \* extract_constants
  undecoded,   \* count_undecoded_constants
  malformed    \* count_malformed_records, of these records

constantVars == <<records, listed, undecoded, malformed>>

ConstantsInit == records = <<>> /\ listed = <<>> /\ undecoded = 0 /\ malformed = 0

-----------------------------------------------------------------------------
(* Reader: a position in a payload; a read past its end is EOFError.          *)

EOF == [kind |-> "EOFError"]
None == [kind |-> "None"]
Got(value, pos) == [kind |-> "value", value |-> value, pos |-> pos]

\* Struct.unpack_from of n bytes at pos, the sign taken from the top bit.
Unsigned(bytes) == FoldRight(LAMBDA byte, above : byte + Radix * above, bytes, 0)
Signed(bytes) ==
  LET n == Unsigned(bytes)
      size == Radix ^ Len(bytes)
  IN IF 2 * n >= size THEN n - size ELSE n

Unpack(data, pos, n, signed) ==
  IF pos + n > Len(data) THEN EOF
  ELSE LET bytes == SubSeq(data, pos + 1, pos + n)
       IN Got(IF signed THEN Signed(bytes) ELSE Unsigned(bytes), pos + n)

\* cstring(): up to the first NUL at or after pos.
CString(data, pos) ==
  LET nuls == {i \in pos + 1 .. Len(data) : data[i] = 0} IN
  IF nuls = {} THEN EOF
  ELSE LET end == CHOOSE i \in nuls : \A j \in nuls : i <= j
       IN Got(SubSeq(data, pos + 1, end - 1), end)

-----------------------------------------------------------------------------
(* The parsers.                                                              *)

LeafOf(tag) == Leaves[CHOOSE k \in Integral : Leaves[k].tag = tag]

\* The struct code of a leaf that is decoded: its width and its sign.
\* Mutant: "<h" written for "<H".
CodeSigned(tag) == [LeafOf(tag) EXCEPT !.signed = TRUE]
Code(tag) == LeafOf(tag)

Decoded == {Leaves[k].tag : k \in Integral}

ParseNumeric(data, pos) ==
  LET leaf == Unpack(data, pos, 2, FALSE) IN
  IF leaf = EOF \/ leaf.value < LF_NUMERIC THEN leaf
  ELSE IF leaf.value \notin Decoded THEN None
  ELSE Unpack(data, leaf.pos, Code(leaf.value).width, Code(leaf.value).signed)

TypeIndexSize == 4

ParseConstant(data) ==
  LET value == ParseNumeric(data, TypeIndexSize)
      name == CString(data, value.pos)
  IN IF Len(data) < TypeIndexSize \/ value = EOF THEN EOF
     ELSE IF value = None THEN None
     ELSE IF name = EOF THEN EOF
     ELSE Got([value |-> value.value, name |-> name.value], name.pos)

\* One record, met by the three walks; each of them goes on behind it.
ReadConstant ==
  /\ Len(records) < MaxConstants
  /\ \E w \in ConstantsWritten : \E cut \in 0..Len(Payload(w)) :
       LET constant == ParseConstant(SubSeq(Payload(w), 1, cut)) IN
       /\ records' = Append(records, [written |-> w, cut |-> cut])
       /\ \/ /\ constant = EOF
             /\ malformed' = malformed + 1 /\ UNCHANGED <<listed, undecoded>>
          \/ /\ constant = None
             /\ undecoded' = undecoded + 1 /\ UNCHANGED <<listed, malformed>>
          \/ /\ constant.kind = "value"
             /\ listed' = Append(listed, constant.value) /\ UNCHANGED <<undecoded, malformed>>

ConstantsNext == ReadConstant

-----------------------------------------------------------------------------
(* Properties.                                                               *)

Intact(r) == r.cut >= Len(Unpadded(r.written)) /\ r.written.leaf \in Integral \cup {"none"}
Undecodable(r) == r.written.leaf \notin Integral \cup {"none"} /\ r.cut >= TypeIndexSize + 2

\* The constants listed are the whole ones that have an integer leaf, in their
\* order, with the value and the name that were written: not a bit of the sign
\* or the width is lost at either end of any leaf's range, and a cut record is
\* never listed with what its bytes happen to say.
\* Every other record is in one of the two counts: "without this nothing would
\* say so" (codeview.py:990).
ConstantsAreAsWritten ==
  LET whole == SelectSeq(records, Intact) IN
  /\ listed = [i \in 1..Len(whole) |->
                 [value |-> whole[i].written.value, name |-> whole[i].written.name]]
  /\ undecoded = Len(SelectSeq(records, Undecodable))
  /\ Len(listed) + undecoded + malformed = Len(records)
=============================================================================
