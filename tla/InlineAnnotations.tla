-------------------------- MODULE InlineAnnotations --------------------------
(***************************************************************************)
(* parse_inline_site (purepdb/codeview.py): the walk over the annotations  *)
(* of one inline site, which yields the code the site covers.              *)
(*                                                                         *)
(* An instruction is an opcode and its operands, chosen when the walk      *)
(* reads it; an operand is a number, `undefined` (the encoding with no     *)
(* meaning) or `cut` (the payload ends inside it).                         *)
(***************************************************************************)
EXTENDS Integers, Sequences, FiniteSetsExt, StableSort

CONSTANTS
    Operands,           \* values operands take
    MaxInstructions     \* bound: instructions the walk reads

ASSUME OperandsAssumption == Operands \subseteq Nat
ASSUME MaxAssumption == MaxInstructions \in Nat

undefined == -1
cut == -2
Damage == {undefined, cut}

Moves == {"CODE_OFFSET", "CHANGE_CODE_OFFSET"}
Packs == {"CHANGE_CODE_OFFSET_AND_LINE_OFFSET"}
Fused == "CHANGE_CODE_LENGTH_AND_CODE_OFFSET"
Length == "CHANGE_CODE_LENGTH"
Base == "CHANGE_CODE_OFFSET_BASE"
Others == {"CHANGE_LINE_OFFSET"}        \* the opcodes about files, lines, columns
Opcodes == Moves \cup Packs \cup Others \cup {Fused, Length, Base}
Unreadable == {"INVALID", "past the last opcode", "undefined", "cut"}

Instructions ==
         {[op |-> op, first |-> 0, second |-> 0] : op \in Unreadable}
    \cup {[op |-> op, first |-> a, second |-> 0] :
              op \in Opcodes \ {Fused}, a \in Operands \cup Damage}
    \cup {[op |-> Fused, first |-> a, second |-> b] :
              a \in Operands, b \in Operands \cup Damage}
    \cup {[op |-> Fused, first |-> a, second |-> 0] : a \in Damage}

VARIABLES
    outcome,        \* "walking", "site" or "EOFError"
    code_offset,    \* the running offset in the current chunk
    chunk,          \* 0 for the procedure's own body
    ranges,         \* (offset, length) in the body
    separated,      \* (chunk, offset, length) elsewhere
    read            \* history: the instructions carried out

annotationVars == <<outcome, code_offset, chunk, ranges, separated, read>>

AnnotationsInit ==
    /\ outcome = "walking"
    /\ code_offset = 0 /\ chunk = 0
    /\ ranges = <<>> /\ separated = <<>>
    /\ read = <<>>

\* The payload does not hold the fixed fields of its kind.
ShortPayload ==
    /\ outcome = "walking" /\ read = <<>>
    /\ outcome' = "EOFError"
    /\ UNCHANGED <<code_offset, chunk, ranges, separated, read>>

Stop ==
    /\ outcome' = "site"
    /\ UNCHANGED <<code_offset, chunk, ranges, separated, read>>

EndOfPayload == outcome = "walking" /\ Stop

IsReadable(i) == /\ i.op \notin Unreadable
                 /\ i.first \notin Damage
                 /\ i.op = Fused => i.second \notin Damage

\* What comes after a damaged instruction cannot be split into instructions.
StopAtDamage ==
    /\ outcome = "walking"
    /\ \E i \in Instructions : ~IsReadable(i)
    /\ Stop

\* A range closed at `at`, in the body or in the current chunk.
Close(at, length) ==
    IF chunk = 0
    THEN /\ ranges' = Append(ranges, [offset |-> at, length |-> length])
         /\ UNCHANGED separated
    ELSE /\ separated' =
                Append(separated, [chunk |-> chunk, offset |-> at, length |-> length])
         /\ UNCHANGED ranges

\* Mutant: the fused length moves the cursor too, as it did until 0.6.0.
FusedMovesPast(i) ==
    /\ i.op = Fused
    /\ code_offset' = code_offset + i.second + i.first
    /\ Close(code_offset + i.second, i.first)
    /\ UNCHANGED chunk

\* The length fused with an offset leaves the cursor where the range began ...
CarryOutFused(i) ==
    /\ i.op = Fused
    /\ code_offset' = code_offset + i.second
    /\ Close(code_offset', i.first)
    /\ UNCHANGED chunk

\* ... and a length of its own leaves it where the range ended.
CarryOutLength(i) ==
    /\ i.op = Length
    /\ Close(code_offset, i.first)
    /\ code_offset' = code_offset + i.first
    /\ UNCHANGED chunk

CarryOutMove(i) ==
    /\ i.op \in Moves \cup Packs
    \* one operand packs both: the code delta is in the low four bits
    /\ code_offset' = code_offset + (IF i.op \in Packs THEN i.first % 16 ELSE i.first)
    /\ UNCHANGED <<chunk, ranges, separated>>

CarryOutBase(i) ==
    /\ i.op = Base
    /\ chunk' = i.first
    /\ code_offset' = 0
    /\ UNCHANGED <<ranges, separated>>

PassOver(i) ==
    /\ i.op \in Others
    /\ UNCHANGED <<code_offset, chunk, ranges, separated>>

CarryOut ==
    /\ outcome = "walking" /\ Len(read) < MaxInstructions
    /\ \E i \in Instructions :
        /\ IsReadable(i)
        /\ \/ CarryOutFused(i) \/ CarryOutLength(i) \/ CarryOutMove(i)
           \/ CarryOutBase(i) \/ PassOver(i)
        /\ read' = Append(read, i)
    /\ UNCHANGED outcome

AnnotationsNext == ShortPayload \/ EndOfPayload \/ StopAtDamage \/ CarryOut

AnnotationsSpec == AnnotationsInit /\ [][AnnotationsNext]_annotationVars

-----------------------------------------------------------------------------
(* Properties *)

(***************************************************************************)
(* What cvinfo.h says the instructions mean, without a cursor: the chunk   *)
(* of an instruction is set by the last base before it, and the range it   *)
(* closes starts at the sum of the deltas since that base and of the       *)
(* lengths that stood alone, "length of code, default next start".         *)
(***************************************************************************)
Delta(i) == CASE i.op = Fused   -> i.second
              [] i.op \in Moves -> i.first
              [] i.op \in Packs -> i.first % 16
              [] OTHER          -> 0
LoneLength(i) == IF i.op = Length THEN i.first ELSE 0

Total(f, m) ==
    LET sum[j \in 0..m] == IF j = 0 THEN 0 ELSE sum[j - 1] + f[j]
    IN  sum[m]

\* Of instruction p in a sequence of them.
BaseBefore(is, p) == Max({0} \cup {j \in 1..p : is[j].op = Base})
ChunkOf(is, p) == IF BaseBefore(is, p) = 0 THEN 0 ELSE is[BaseBefore(is, p)].first
NextStart(is, p) ==
    Total([j \in 1..p |-> IF j <= BaseBefore(is, p) THEN 0 ELSE Delta(is[j]) + LoneLength(is[j])], p)
StartOf(is, p) == NextStart(is, p) - LoneLength(is[p])

Closing(is) == {p \in DOMAIN is : is[p].op \in {Fused, Length}}
InBody(is) == {p \in Closing(is) : ChunkOf(is, p) = 0}

WrittenInBody(is) ==
    LET own == Ascending(InBody(is))
    IN  [j \in DOMAIN own |-> [offset |-> StartOf(is, own[j]), length |-> is[own[j]].first]]
WrittenInChunks(is) ==
    LET far == Ascending(Closing(is) \ InBody(is))
    IN  [j \in DOMAIN far |-> [chunk |-> ChunkOf(is, far[j]), offset |-> StartOf(is, far[j]),
                               length |-> is[far[j]].first]]

(***************************************************************************)
(* codeview.py:533-546: every range the walk reports, and no other, is the *)
(* one the instructions read so far describe -- in the body and in the     *)
(* chunks, in order, wherever the walk stops and for whatever reason.      *)
(***************************************************************************)
RangesAreWhatIsWritten ==
    ranges = WrittenInBody(read) /\ separated = WrittenInChunks(read)
=============================================================================
