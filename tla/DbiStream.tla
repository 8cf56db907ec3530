------------------------------ MODULE DbiStream ------------------------------
(***************************************************************************)
(* DbiStream.parse (purepdb/dbi.py): seven substreams taken in order out   *)
(* of one stream, each as long as the header claims or as the stream       *)
(* allows, and the walk of the module list inside the first.               *)
(*                                                                         *)
(* A file has what its linker wrote and what its header now claims; the    *)
(* two differ when the header is damaged, and the stream is shorter than   *)
(* both when it was cut.  Offsets are bytes of the stream.                 *)
(***************************************************************************)
EXTENDS Integers, Sequences, FiniteSets

CONSTANTS
    Files,      \* the streams considered
    Stray,      \* record lengths found where no record was written
    None

Substreams == <<"ModuleInfo", "SectionContribution", "SectionMap", "SourceInfo",
                "TypeServerMap", "EC", "OptionalDebugHeader">>

HeaderSize == 64
ModuleFixed == 64           \* the least a module record can be read from
ContribVersion == 4
MapHeader == 4
MapEntry == 20
SlotSize == 2

(***************************************************************************)
(* len: bytes in the stream.  wrote, claimed: a size per substream.        *)
(* records: the module records written, each as its length before padding. *)
(* entry: bytes per contribution in the version written, 0 for a version   *)
(* the reader does not know.  count: the section map's entry count.        *)
(***************************************************************************)
ASSUME FilesAssumption ==
    \A f \in Files : /\ f.len \in Nat /\ f.count \in Nat /\ f.entry \in {0, 28, 32}
                     /\ f.wrote \in [1..7 -> Nat] /\ f.claimed \in [1..7 -> Int]
                     /\ f.records \in Seq(Nat)

ASSUME NoneIsNoPlace == None \notin Nat

Padded(n) == n + ((-n) % 4)

\* Where module records of these lengths lie, and where the last of them ends.
PlacesOf(records) ==
    LET at[i \in 1..Len(records) + 1] ==
            IF i = 1 THEN 0 ELSE at[i - 1] + Padded(records[i - 1])
    IN  at

(***************************************************************************)
(* What a linker writes: module records that have their fixed part and     *)
(* fill their substream, and every section-map entry that it counts.       *)
(***************************************************************************)
ASSUME WrittenAssumption ==
    \A f \in Files : /\ \A i \in DOMAIN f.records : f.records[i] >= ModuleFixed
                     /\ f.wrote[1] = PlacesOf(f.records)[Len(f.records) + 1]
                     /\ f.count = 0 \/ MapHeader + f.count * MapEntry <= f.wrote[3]

VARIABLES
    file,
    outcome,                \* "parsing", "parsed" or "raised"
    off,                    \* where the next substream starts
    slices,                 \* the substreams taken so far, [at, size]
    substream_overrun,
    pos,                    \* the module walk's cursor in its slice; None when not walking
    module_list,            \* the records read, [at, length]
    module_list_stopped_at,
    lists                   \* entries of the other lists that were read

parseVars == <<file, outcome, off, slices, substream_overrun, pos, module_list,
          module_list_stopped_at, lists>>

ParseInit ==
    /\ file \in Files
    /\ outcome = "parsing"
    /\ off = HeaderSize
    /\ slices = <<>>
    /\ substream_overrun = None
    /\ pos = None
    /\ module_list = <<>>
    /\ module_list_stopped_at = None
    /\ lists = [contributions |-> 0, map |-> 0, slots |-> 0]

Raise ==
    /\ outcome' = "raised"
    /\ UNCHANGED <<file, off, slices, substream_overrun, pos, module_list,
                   module_list_stopped_at, lists>>

ShorterThanHeader ==
    /\ outcome = "parsing"
    /\ file.len < HeaderSize
    /\ Raise

-----------------------------------------------------------------------------
(* _check_substream and the slice it bounds *)

Current == Len(slices) + 1
Claimed == file.claimed[Current]

\* Mutant: a negative size is taken like any other.
NegativeIsTaken == FALSE

IsNegative == Claimed < 0

Overruns == off + Claimed > file.len

Taken == IF Overruns THEN file.len - off ELSE Claimed

Take ==
    /\ slices' = Append(slices, [at |-> off, size |-> Taken])
    /\ off' = off + Taken
    /\ substream_overrun' =
           IF Overruns /\ substream_overrun = None THEN Current ELSE substream_overrun

Ready(i) == /\ outcome = "parsing" /\ file.len >= HeaderSize
            /\ pos = None /\ Current = i

NegativeSize ==
    /\ \E i \in 1..7 : Ready(i)
    /\ IsNegative
    /\ Raise

-----------------------------------------------------------------------------
(* _parse_module_list *)

BeginModules ==
    /\ Ready(1) /\ ~IsNegative
    /\ Take
    /\ pos' = 0
    /\ UNCHANGED <<file, outcome, module_list, module_list_stopped_at, lists>>

Walking == pos # None
Slice == slices[1].size

\* Where the linker put its records, counted from the start of the substream.
RecordAt == PlacesOf(file.records)

\* The lengths a record read at `pos` may have: past what was written, any.
Lengths ==
    LET here == {i \in DOMAIN file.records : RecordAt[i] = pos}
    IN  IF here = {} THEN Stray ELSE {file.records[i] : i \in here}

\* A record runs to its second NUL, and the next one is four-byte aligned.
ReadModule ==
    /\ Walking /\ Slice - pos >= ModuleFixed
    /\ \E length \in Lengths :
        IF pos + Padded(length) <= Slice
        THEN /\ module_list' = Append(module_list, [at |-> pos, length |-> length])
             /\ pos' = pos + Padded(length)
             /\ UNCHANGED module_list_stopped_at
        ELSE /\ module_list_stopped_at' = pos
             /\ pos' = None
             /\ UNCHANGED module_list
    /\ UNCHANGED <<file, outcome, off, slices, substream_overrun, lists>>

\* "while r.remaining() >= 64": fewer bytes than that end the walk quietly.
EndModules ==
    /\ Walking /\ Slice - pos < ModuleFixed
    /\ pos' = None
    /\ UNCHANGED <<file, outcome, off, slices, substream_overrun, module_list,
                   module_list_stopped_at, lists>>

-----------------------------------------------------------------------------
(* The lists of fixed-size entries *)

WroteAt(i) ==
    LET at[j \in 1..7] == IF j = 1 THEN HeaderSize ELSE at[j - 1] + file.wrote[j - 1]
    IN  at[i]

\* The bytes at `off` are the ones the linker wrote for this substream.
InPlace == off = WroteAt(Current)

\* _parse_section_contributions: whole entries of a version it knows, or none.
Contributions(size, entry) ==
    IF size < ContribVersion \/ entry = 0 \/ (size - ContribVersion) % entry # 0
    THEN 0
    ELSE (size - ContribVersion) \div entry

TakeContributions ==
    /\ Ready(2) /\ ~IsNegative
    /\ Take
    /\ \E entry \in IF InPlace THEN {file.entry} ELSE {0, 28, 32} :
           lists' = [lists EXCEPT !.contributions = Contributions(Taken, entry)]
    /\ UNCHANGED <<file, outcome, pos, module_list, module_list_stopped_at>>

\* Mutant: the count is believed.
MapEntriesCounted(size, count) == IF size < MapHeader THEN 0 ELSE count

\* parse_section_map: as many entries as are counted and as are there.
MapEntries(size, count) ==
    LET whole == (size - MapHeader) \div MapEntry
    IN  IF size < MapHeader THEN 0 ELSE IF count < whole THEN count ELSE whole

TakeSectionMap ==
    /\ Ready(3) /\ ~IsNegative
    /\ Take
    /\ \E count \in IF InPlace THEN {file.count} ELSE {0, 65535} :
           lists' = [lists EXCEPT !.map = MapEntries(Taken, count)]
    /\ UNCHANGED <<file, outcome, pos, module_list, module_list_stopped_at>>

\* SourceInfo, TypeServerMap and EC are stepped over.
StepOver ==
    /\ \E i \in 4..6 : Ready(i)
    /\ ~IsNegative
    /\ Take
    /\ UNCHANGED <<file, outcome, pos, module_list, module_list_stopped_at, lists>>

TakeDebugHeader ==
    /\ Ready(7) /\ ~IsNegative
    /\ Take
    /\ lists' = [lists EXCEPT !.slots = Taken \div SlotSize]
    /\ outcome' = "parsed"
    /\ UNCHANGED <<file, pos, module_list, module_list_stopped_at>>

ParseNext == ShorterThanHeader \/ NegativeSize \/ BeginModules \/ ReadModule \/ EndModules
        \/ TakeContributions \/ TakeSectionMap \/ StepOver \/ TakeDebugHeader

ParseSpec == ParseInit /\ [][ParseNext]_parseVars

-----------------------------------------------------------------------------
(* Properties *)

(***************************************************************************)
(* dbi.py:267-271: no substream ever "aliases the header or an earlier     *)
(* substream", whatever sizes the header claims, and none leaves the       *)
(* stream.                                                                 *)
(***************************************************************************)
SlicesDoNotAlias ==
    \A i \in DOMAIN slices :
        /\ slices[i].at >= HeaderSize
        /\ slices[i].at + slices[i].size <= file.len
        /\ \A j \in 1..i-1 : slices[j].at + slices[j].size <= slices[i].at

(***************************************************************************)
(* dbi.py:182-186: an overrun is the first substream that was cut.  It has *)
(* every byte the stream had left, those after it are empty, and without   *)
(* an overrun each substream is as long as the header claims.              *)
(***************************************************************************)
OverrunIsTheFirstCut ==
    \A i \in DOMAIN slices :
        IF substream_overrun = None \/ i < substream_overrun
        THEN slices[i].size = file.claimed[i]
        ELSE /\ slices[i].at + slices[i].size = file.len
             /\ slices[i].size < file.claimed[i] \/ i > substream_overrun
             /\ i > substream_overrun => slices[i].size = 0

Undamaged == \A i \in 1..7 : file.claimed[i] = file.wrote[i]
WholeIn(at, size) == at + size <= file.len

\* What was written before the stream was cut, list by list.
RecordsLeft ==
    {i \in DOMAIN file.records :
        WholeIn(HeaderSize + RecordAt[i], Padded(file.records[i]))}
MapLeft == {i \in 1..file.count : WholeIn(WroteAt(3) + MapHeader, i * MapEntry)}
SlotsLeft == {i \in 1..(file.wrote[7] \div SlotSize) : WholeIn(WroteAt(7), i * SlotSize)}

(***************************************************************************)
(* "What is there is real" (dbi.py:272): a stream cut at any byte yields   *)
(* every module, section-map entry and debug-header slot that is whole in  *)
(* what is left, and none that is not; and whatever it lost, the overrun   *)
(* says so.                                                                *)
(***************************************************************************)
CutYieldsWhatIsLeft ==
    outcome = "parsed" /\ Undamaged =>
        /\ Len(module_list) = Cardinality(RecordsLeft)
        /\ \A i \in DOMAIN module_list : /\ module_list[i].at = RecordAt[i]
                                     /\ module_list[i].length = file.records[i]
        /\ lists.map = Cardinality(MapLeft)
        /\ lists.slots = Cardinality(SlotsLeft)
        /\ lists.contributions # 0 => WholeIn(WroteAt(2), ContribVersion)
        /\ file.len < WroteAt(7) + file.wrote[7] => substream_overrun # None

(***************************************************************************)
(* Both: what was lost is told, and what is told is all that was lost.     *)
(***************************************************************************)
CutIsTold == OverrunIsTheFirstCut /\ CutYieldsWhatIsLeft

(***************************************************************************)
(* What dbi.py:178-180 says of module_list_stopped_at: "None when it       *)
(* consumed the whole substream".  Up to 63 bytes may be left unread.      *)
(***************************************************************************)
NoneMeansConsumed ==
    outcome = "parsed" /\ module_list_stopped_at = None =>
        IF module_list = <<>> THEN Slice = 0
        ELSE LET m == module_list[Len(module_list)] IN m.at + Padded(m.length) = Slice
=============================================================================
