------------------------------ MODULE ShapeSurvey ------------------------------
(***************************************************************************)
(* The corpus sweep of dev/survey_pdb_shapes.py: which streams a file's    *)
(* Optional Debug Header names, read block by block from the end of a DBI  *)
(* stream that is never parsed.  It is a second reader of the header that  *)
(* DbiStream.parse reads, and the two can disagree.                        *)
(*                                                                         *)
(* The stream is counted in words of two bytes, one to a slot.  Of the     *)
(* eleven slots there are the three the sweep looks at, in their order,    *)
(* and of the six substreams before the header the first and the last.     *)
(***************************************************************************)
EXTENDS Integers, Sequences, FiniteSets, FiniteSetsExt, Functions

CONSTANTS
    HeaderWords,    \* of the DBI header
    BlockWords,     \* of a block
    Sizes,          \* a substream's size field, signed
    StreamWords,    \* sizes of the DBI stream
    DeclaredWords,  \* the header's own size field, signed
    MaxFiles        \* bound: files in a sweep

ASSUME GeometryAssumption ==
    /\ HeaderWords \in Nat /\ BlockWords \in Nat \ {0} /\ MaxFiles \in Nat
    /\ Sizes \subseteq Int /\ DeclaredWords \subseteq Int /\ StreamWords \subseteq Nat

(***************************************************************************)
(* Slots 4, 5 and 10.  A slot may name no stream, an empty one, one too    *)
(* short for a single record, or one that holds some.                      *)
(***************************************************************************)
OmapFromSrc == 1
SectionHdr == 2
SectionHdrOrig == 3
Slots == 1..3
Streams == {"none", "empty", "scrap", "full"}

(***************************************************************************)
(* slots is what lies where the header belongs, in the stream or in the    *)
(* rest of its last block.                                                 *)
(***************************************************************************)
File == [magic : {"MSF", "foreign"}, stream : StreamWords,
         first : Sizes, last : Sizes, declared : DeclaredWords,
         slots : [Slots -> Streams]]

VARIABLES
    path,          \* the file at hand; no record before the first
    answer,        \* its shape, or that it was rejected
    shapes,        \* counter of shapes
    rejected,      \* files not read
    hits           \* files worth a shout

surveyVars == <<path, answer, shapes, rejected, hits>>

Wanted == "slot 10, no slot 5"
NoSlot5 == "no section headers"
Shapes == {Wanted, "ordinary BBT", "map, no slot 10", "slot 10, no map", NoSlot5, "ordinary"}

SurveyInit ==
    /\ path = <<>> /\ answer = "none"
    /\ shapes = [s \in Shapes |-> 0]
    /\ rejected = 0 /\ hits = 0

AtLeast0(n) == IF n > 0 THEN n ELSE 0
Blocks(f) == (f.stream + BlockWords - 1) \div BlockWords

\* Mutant: the EC substream is forgotten.
OptionalWithoutEc(f) == HeaderWords + AtLeast0(f.first)

\* Where shape_of() looks for the header.
Optional(f) == HeaderWords + AtLeast0(f.first) + AtLeast0(f.last)

\* _stream_range: the words lie in blocks the stream has.
RangeIsThere(f, start, length) == (start + length - 1) \div BlockWords < Blocks(f)

(***************************************************************************)
(* The words at a position are slots only where the header really is.      *)
(***************************************************************************)
SlotAt(f, at, i) ==
    IF at = HeaderWords + AtLeast0(f.first) + AtLeast0(f.last) THEN f.slots[i] ELSE "none"

Present(stream) == stream \in {"scrap", "full"}

ShapeOf(f) ==
    LET slot5 == Present(SlotAt(f, Optional(f), SectionHdr))
        slot10 == Present(SlotAt(f, Optional(f), SectionHdrOrig))
        entries == SlotAt(f, Optional(f), OmapFromSrc) = "full"
    IN  CASE slot10 /\ ~slot5 -> Wanted
          [] slot10 /\ slot5 /\ entries -> "ordinary BBT"
          [] ~slot10 /\ entries -> "map, no slot 10"
          [] slot10 /\ slot5 /\ ~entries -> "slot 10, no map"
          [] ~slot10 /\ ~entries /\ ~slot5 -> NoSlot5
          [] OTHER -> "ordinary"

\* What shape_of() reads without raising.
Surveyed(f) ==
    /\ f.magic = "MSF" /\ f.stream >= HeaderWords
    /\ RangeIsThere(f, Optional(f), Cardinality(Slots))

Read(f) ==
    /\ Surveyed(f)
    /\ answer' = ShapeOf(f)
    /\ shapes' = [shapes EXCEPT ![ShapeOf(f)] = @ + 1]
    /\ hits' = IF ShapeOf(f) \in {Wanted, NoSlot5} THEN hits + 1 ELSE hits
    /\ UNCHANGED rejected

Reject(f) ==
    /\ ~Surveyed(f)
    /\ answer' = "rejected" /\ rejected' = rejected + 1
    /\ UNCHANGED <<shapes, hits>>

Sweep(f) ==
    /\ path' = <<f>>
    /\ Read(f) \/ Reject(f)

SurveyNext == rejected + SumFunction(shapes) < MaxFiles /\ \E f \in File : Sweep(f)

SurveySpec == SurveyInit /\ [][SurveyNext]_surveyVars

-----------------------------------------------------------------------------
(* What the library makes of the same header (DbiStream.parse, dbg_stream  *)
(* and PDB._load_sections).                                                *)

LibraryReads(f) ==
    /\ f.magic = "MSF" /\ f.stream >= HeaderWords
    /\ f.first >= 0 /\ f.last >= 0 /\ f.declared >= 0

\* The slots of the header: those it declares, as far as the stream goes.
SlotsThere(f) == Min({f.declared, AtLeast0(f.stream - Optional(f))})

DbgStream(f, i) == IF i <= SlotsThere(f) THEN f.slots[i] ELSE "none"

HasTable(f, i) == DbgStream(f, i) = "full"

LibraryShape(f) ==
    CASE HasTable(f, SectionHdrOrig) /\ ~HasTable(f, SectionHdr) -> Wanted
      [] HasTable(f, SectionHdrOrig) /\ HasTable(f, SectionHdr) ->
            IF HasTable(f, OmapFromSrc) THEN "ordinary BBT" ELSE "slot 10, no map"
      [] ~HasTable(f, SectionHdrOrig) /\ HasTable(f, OmapFromSrc) -> "map, no slot 10"
      [] ~HasTable(f, SectionHdrOrig) /\ ~HasTable(f, OmapFromSrc) ->
            IF HasTable(f, SectionHdr) THEN "ordinary" ELSE NoSlot5

-----------------------------------------------------------------------------
(* Properties *)

Swept == path # <<>>

\* A header that holds all its slots, none of them naming a torn stream.
Whole(f) == /\ SlotsThere(f) >= Cardinality(Slots)
            /\ \A i \in Slots : f.slots[i] # "scrap"

(***************************************************************************)
(* The sweep's shortcut is no second opinion: a file whose header is whole *)
(* and which the library reads is never rejected, and is given the shape   *)
(* that the library's own section tables and address map have.             *)
(***************************************************************************)
AgreesWithTheLibrary ==
    Swept => LET f == path[1] IN LibraryReads(f) /\ Whole(f) => answer = LibraryShape(f)

(***************************************************************************)
(* survey_pdb_shapes.py:89, of shape_of(): "from the Optional Debug Header *)
(* alone".  Words outside the header, which it does not declare or the     *)
(* stream does not hold, say nothing of the shape.                         *)
(***************************************************************************)
ShapeIsOfTheHeader ==
    Swept => LET f == path[1] IN
        /\ LibraryReads(f) /\ answer # "rejected"
        /\ \A i \in Slots : f.slots[i] # "scrap"
        => answer = LibraryShape(f)
=============================================================================
