---------------------------- MODULE AddressSpace ----------------------------
(***************************************************************************)
(* How an open PDB turns a symbol's segment:offset into an RVA:            *)
(* PDB._load_sections chooses among four tables that may each be absent,   *)
(* empty or unreadable; PDB.to_rva answers from them; and PDB.lines()      *)
(* answers the same question a second way, from a base address it looks    *)
(* up once per segment (purepdb/pdb.py, sections.py, omap.py).             *)
(***************************************************************************)
EXTENDS Integers, Sequences, FiniteSets, ImageLayout, TLC

CONSTANTS
    Files,      \* the PDB files considered
    Segments,   \* segment numbers the symbols carry
    Offsets     \* offsets the symbols carry

(***************************************************************************)
(* A file is the image it describes and four streams: each is present and  *)
(* readable ("ok"), named by no debug-header slot ("none"), or a stream    *)
(* whose blocks are not in the file ("bad").                               *)
(***************************************************************************)
ASSUME NoneIsNoAddress == None \notin Int
ASSUME OffsetsAreNat == Offsets \subseteq Nat
ASSUME AlignIsPositive == Align \in Nat \ {0}
ASSUME TablesHoldAddresses ==
    \A f \in Files : f.headers.table \in Seq(Nat) /\ f.original.table \in Seq(Nat)

\* An entry of an OMAP stream, and one of the Section Map.
OmapEntry == [source : Nat, target : Nat]
MapEntry == [absolute : BOOLEAN, frame : Nat, length : Nat]

(***************************************************************************)
(* What the tools wrote: a table for every section of the image, in its    *)
(* order; the linker's addresses where the optimiser never ran, and        *)
(* otherwise those of the linked image beside the optimiser's own table,   *)
(* one of the two at least readable; and a Section Map whose segments,     *)
(* when there are any, have the lengths of the sections they number.       *)
(***************************************************************************)
TablesAreTheLinkers(f) ==
    LET image == f.image
        linked == LinkedAt(image.lengths)
    IN  /\ image.lengths \in Seq(Nat)
        /\ Len(f.headers.table) = Len(image.lengths)
        /\ ~IsOptimised(image) =>
               /\ f.headers.table = linked
               /\ f.original.state # "ok" /\ f.omap.state # "ok"
        /\ IsOptimised(image) =>
               /\ f.original.table = linked
               /\ f.omap.table \in Seq(OmapEntry)
               /\ {f.omap.table[i] : i \in DOMAIN f.omap.table} = OmapOf(image)
               /\ \/ f.original.state = "ok"
                  \/ f.omap.state = "ok"
               /\ DOMAIN image.moved \subseteq Nat
               /\ \A b \in DOMAIN image.moved : image.moved[b] \in Nat
               /\ \A s \in DOMAIN image.lengths :
                      \A o \in 0..(image.lengths[s] - 1) :
                          linked[s] + o \in DOMAIN image.moved

MapIsTheLinkers(f) ==
    LET segments == {i \in DOMAIN f.map : ~f.map[i].absolute}
    IN  /\ f.map \in Seq(MapEntry)
        /\ Cardinality(segments) \in {0, Len(f.image.lengths)}
        /\ \A i \in segments :
               f.map[i].frame \in DOMAIN f.image.lengths =>
                   f.map[i].length = f.image.lengths[f.map[i].frame]

ASSUME FilesAreWritten ==
    \A f \in Files : TablesAreTheLinkers(f) /\ MapIsTheLinkers(f)

VARIABLES
    file,       \* the file being read
    pc,         \* the next step of _load_sections, then "open" or "refused"
    sections,   \* self._sections: the addresses of a table, None without one
    original,   \* self._original_sections
    derived,    \* self._derived_sections
    cursor,     \* sections_from_map: the entry met next and where it would start
    omap,       \* self._omap: <<>> is both None and an empty table
    walk,       \* the lines() generator: its hoisted locals, None before it
    answer      \* the last address answered, and by what

addressVars == <<file, pc, sections, original, derived, cursor, omap, walk, answer>>
tables == <<sections, original, derived, omap>>

NoTable == <<>>         \* the None of a section table: no table has no section
Unasked == [by |-> "nobody"]
NotWalking == [on |-> FALSE]

AddressInit ==
    /\ file \in Files
    /\ pc = "headers"
    /\ sections = NoTable /\ original = NoTable /\ derived = NoTable
    /\ cursor = [entry |-> 1, at |-> 0]
    /\ omap = <<>>
    /\ walk = NotWalking
    /\ answer = Unasked

-----------------------------------------------------------------------------
(* PDB._load_sections *)

\* read_stream raises: open() closes the container and lets the error out.
RefuseStream(stream) ==
    /\ stream.state = "bad"
    /\ pc' = "refused"
    /\ UNCHANGED <<file, cursor, tables, walk, answer>>

\* _table_or_none: a stream holding no section is no table.
TableOrNone(stream) == IF stream.state = "ok" THEN stream.table ELSE NoTable

LoadHeaders ==
    /\ pc = "headers"
    /\ \/ RefuseStream(file.headers)
       \/ /\ file.headers.state # "bad"
          /\ sections' = TableOrNone(file.headers)
          /\ pc' = "original"
          /\ UNCHANGED <<file, cursor, original, derived, omap, walk, answer>>

LoadOriginal ==
    /\ pc = "original"
    /\ \/ RefuseStream(file.original)
       \/ /\ file.original.state # "bad"
          /\ original' = TableOrNone(file.original)
          /\ pc' = "rebuild"
          /\ UNCHANGED <<file, cursor, sections, derived, omap, walk, answer>>

\* sections_from_map gives up unless the segments, the absolute one apart, are
\* numbered 1..n: a table is resolved by position.
Positional ==
    \A i \in DOMAIN file.map :
        ~file.map[i].absolute =>
            file.map[i].frame = Cardinality({j \in 1..i : ~file.map[j].absolute})

BeginRebuild ==
    /\ pc = "rebuild"
    /\ pc' = IF sections = NoTable /\ original = NoTable /\ Positional
             THEN "laying" ELSE "omap"
    /\ cursor' = [entry |-> 1, at |-> Align]
    /\ UNCHANGED <<file, tables, walk, answer>>

CeilDiv(a, b) == (a + b - 1) \div b

\* Its loop: a segment starts at the cursor, the next at the alignment after it.
LaySegment ==
    /\ pc = "laying"
    /\ cursor.entry \in DOMAIN file.map
    /\ LET e == file.map[cursor.entry]
       IN  IF e.absolute
           THEN /\ cursor' = [cursor EXCEPT !.entry = @ + 1]
                /\ UNCHANGED derived
           ELSE /\ derived' = Append(derived, cursor.at)
                /\ cursor' = [entry |-> cursor.entry + 1,
                              at |-> cursor.at + CeilDiv(e.length, Align) * Align]
    /\ UNCHANGED <<file, pc, sections, original, omap, walk, answer>>

EndRebuild ==
    /\ pc = "laying"
    /\ cursor.entry \notin DOMAIN file.map
    /\ pc' = "omap"
    /\ UNCHANGED <<file, cursor, tables, walk, answer>>

\* Mutant: the table is taken in file order.
InFileOrder(table) == {table}

\* OmapTable.parse: the entries by source address, whatever the file's order.
InSourceOrder(table) ==
    LET places == DOMAIN table
        Sorts(p) == /\ \A i \in places : \E j \in places : p[j] = i
                    /\ \A i, j \in places :
                           i <= j => table[p[i]].source <= table[p[j]].source
    IN  {[i \in places |-> table[p[i]]] : p \in {q \in [places -> places] : Sorts(q)}}

LoadOmap ==
    /\ pc = "omap"
    /\ \/ RefuseStream(file.omap)
       \/ /\ file.omap.state # "bad"
          /\ omap' \in IF file.omap.state = "ok" THEN InSourceOrder(file.omap.table)
                       ELSE {<<>>}
          /\ pc' = "open"
          /\ UNCHANGED <<file, cursor, sections, original, derived, walk, answer>>

-----------------------------------------------------------------------------
(* Answering *)

\* _symbol_sections: the table symbol addresses are expressed against.
SymbolSections == CASE original # NoTable -> original
                    [] original = NoTable /\ sections # NoTable -> sections
                    [] OTHER -> derived

\* SectionTable.to_rva
TableRva(table, segment, offset) ==
    IF segment \in DOMAIN table THEN table[segment] + offset ELSE None

\* OmapTable.lookup: the last entry at or before rva, found by bisect_right.
Lookup(rva) ==
    LET i == Cardinality({j \in DOMAIN omap : omap[j].source <= rva})
    IN  IF i = 0 \/ omap[i].target = 0 THEN None
        ELSE omap[i].target + (rva - omap[i].source)

\* "table is self._original_sections": the map leads out of that space only.
MapApplies == omap # <<>> /\ original # NoTable

\* PDB.to_rva
RvaOf(segment, offset) ==
    LET rva == TableRva(SymbolSections, segment, offset)
    IN  IF rva = None \/ ~MapApplies THEN rva ELSE Lookup(rva)

ToRva(segment, offset) ==
    /\ pc = "open"
    /\ answer' = [by |-> "to_rva", segment |-> segment, offset |-> offset,
                  rva |-> RvaOf(segment, offset)]
    /\ UNCHANGED <<file, pc, cursor, tables, walk>>

\* Mutant: the base is hoisted whether or not a map applies.
BeginLinesHoisted ==
    /\ pc = "open"
    /\ ~walk.on
    /\ walk' = [on |-> TRUE, table |-> SymbolSections,
                perEntry |-> FALSE, bases |-> <<>>]
    /\ UNCHANGED <<file, pc, cursor, tables, answer>>

\* lines(): the lookups hoisted out of the loop over the entries.
BeginLines ==
    /\ pc = "open"
    /\ ~walk.on
    /\ walk' = [on |-> TRUE, table |-> SymbolSections,
                perEntry |-> MapApplies, bases |-> <<>>]
    /\ UNCHANGED <<file, pc, cursor, tables, answer>>

\* One entry of lines(); `bases` is its dict of the segments met so far.
LineRva(bases, segment, offset) ==
    LET base == bases[segment]
    IN  IF base = None THEN None ELSE base + offset

LineEntry(segment, offset) ==
    /\ pc = "open"
    /\ walk.on
    /\ \/ /\ walk.perEntry
          /\ answer' = [by |-> "lines", segment |-> segment, offset |-> offset,
                        rva |-> RvaOf(segment, offset)]
          /\ UNCHANGED walk
       \/ /\ ~walk.perEntry
          /\ LET bases == IF segment \in DOMAIN walk.bases THEN walk.bases
                          ELSE [s \in DOMAIN walk.bases \cup {segment} |->
                                  IF s = segment
                                  THEN TableRva(walk.table, segment, 0)
                                  ELSE walk.bases[s]]
             IN  /\ walk' = [walk EXCEPT !.bases = bases]
                 /\ answer' = [by |-> "lines", segment |-> segment,
                               offset |-> offset,
                               rva |-> LineRva(bases, segment, offset)]
    /\ UNCHANGED <<file, pc, cursor, tables>>

EndLines ==
    /\ walk.on
    /\ walk' = NotWalking
    /\ UNCHANGED <<file, pc, cursor, tables, answer>>

Ask == \E segment \in Segments, offset \in Offsets :
           ToRva(segment, offset) \/ LineEntry(segment, offset)

AddressNext == LoadHeaders \/ LoadOriginal \/ LoadOmap
        \/ BeginRebuild \/ LaySegment \/ EndRebuild
        \/ BeginLines \/ EndLines \/ Ask

AddressSpec == AddressInit /\ [][AddressNext]_addressVars

-----------------------------------------------------------------------------
(* Diagnostics.warnings, the sentences about addresses *)

HasHeaders == sections # NoTable
HasOriginal == original # NoTable
HasOmap == omap # <<>>

SectionWarnings ==
       {w \in {"reconstructed"} : ~HasHeaders /\ ~HasOriginal /\ derived # NoTable}
  \cup {w \in {"unresolvable"} : ~HasHeaders /\ ~HasOriginal /\ derived = NoTable}

MapWarnings ==
       {w \in {"map_not_applied"} : HasOmap /\ ~HasOriginal}
  \cup {w \in {"spaces_differ"} : HasOmap /\ HasOriginal /\ ~HasHeaders}
  \cup {w \in {"pre_optimisation"} : HasOriginal /\ ~HasOmap}

AddressWarnings == SectionWarnings \cup MapWarnings

-----------------------------------------------------------------------------
(* Properties *)

Asked == answer # Unasked
Known == Asked /\ answer.segment \in DOMAIN file.image.lengths
               /\ answer.offset < file.image.lengths[answer.segment]
Truth == TrueRva(file.image, answer.segment, answer.offset)

(***************************************************************************)
(* An address that is not where the byte is in the shipped image is never  *)
(* given without a sentence in Diagnostics.warnings that says the address  *)
(* space is the wrong one -- over every combination of missing, empty,     *)
(* unsorted and optimised tables.  This is the module docstring of omap.py *)
(* ("wrong numbers rather than missing ones") turned into a requirement.   *)
(***************************************************************************)
WrongAddressIsWarned ==
    Known /\ answer.rva # None /\ answer.rva # Truth
        => AddressWarnings \cap {"map_not_applied", "pre_optimisation"} # {}

(***************************************************************************)
(* No address is withheld without a sentence either: None for a byte that  *)
(* the shipped image holds means every rva of the file is None.            *)
(***************************************************************************)
MissingAddressIsWarned ==
    Known /\ answer.rva = None /\ Truth # None => "unresolvable" \in AddressWarnings

(***************************************************************************)
(* pdb.py:1363-1364, "The two paths answer the same number": what lines()  *)
(* yields for an entry, from bases it cached earlier in the walk, is what  *)
(* to_rva() answers for the entry's segment:offset.                        *)
(***************************************************************************)
LinesAgree == Asked => answer.rva = RvaOf(answer.segment, answer.offset)

(***************************************************************************)
(* Diagnostics says the addresses are a reconstruction exactly when some   *)
(* address is answered from a table the file does not hold.                *)
(***************************************************************************)
ReconstructionIsSaid ==
    pc = "open" /\ SymbolSections # NoTable =>
        (SymbolSections \notin {TableOrNone(file.original), TableOrNone(file.headers)}
            <=> "reconstructed" \in AddressWarnings)

(***************************************************************************)
(* The three together: an address that is wrong, missing or rebuilt never  *)
(* goes without its sentence.                                              *)
(***************************************************************************)
TroubleIsSaid == WrongAddressIsWarned /\ MissingAddressIsWarned /\ ReconstructionIsSaid
=============================================================================
