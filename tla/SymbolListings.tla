---------------------------- MODULE SymbolListings ----------------------------
(***************************************************************************)
(* The listings that join several streams: PDB.data_symbols and            *)
(* thread_locals, which meet a symbol once in its module and again in the  *)
(* symbol records, and PDB.public_symbols, which orders the records of one *)
(* stream by the address map of another (purepdb/pdb.py).                  *)
(***************************************************************************)
EXTENDS Integers, Sequences, FiniteSets, SequencesExt, FiniteSetsExt, StableSort

CONSTANTS
    Symbols,      \* the data and thread-local records a stream may hold
    MaxModules,   \* bound: module streams
    MaxSymbols,   \* bound: records of a stream
    Publics       \* the symbol-record streams: the address each public has, in order

(***************************************************************************)
(* A record: its kind, what it says (name, segment and offset), the bytes  *)
(* of its payload and where they have a NUL.                               *)
(***************************************************************************)
ListKinds == {"gdata", "ldata", "thread"}
DataKinds == {"gdata", "ldata"}

ASSUME SymbolsAssumption ==
    /\ \A r \in Symbols : r.kind \in ListKinds /\ r.size \in Nat /\ r.nuls \subseteq Nat
    /\ MaxModules \in Nat /\ MaxSymbols \in Nat
    /\ \A p \in Publics : p \in Seq(Nat)

VARIABLES
    moduleRecords,      \* the records of each module stream
    symrecs,            \* those of the symbol-record stream; <<>> when there is none
    listing,            \* the kinds that are being listed
    stored,             \* the publics among them, as stored
    addrMap,            \* the publics stream: the records by address, or what is left
    stream, pos,        \* the record the walk is at
    kept, identities,   \* what it lists, and the identities it has listed
    listed              \* what public_symbols returns

symbolFile == <<moduleRecords, symrecs, listing, stored, addrMap>>
symbolVars == <<symbolFile, stream, pos, kept, identities, listed>>

Streams == UNION {[1..k -> Symbols] : k \in 0..MaxSymbols}

-----------------------------------------------------------------------------
(* The address map *)

\* As a linker writes it: record numbers, ascending by address.
MapOf(addresses) ==
    StableOrder(Len(addresses), {p \in (DOMAIN addresses) \X (DOMAIN addresses) :
                                    addresses[p[1]] < addresses[p[2]]})

\* Whole, without an entry, naming a record that is gone, or with its stream cut.
MapsLeft(addresses) ==
    LET map == MapOf(addresses)
    IN       {[cut |-> FALSE, map |-> map], [cut |-> TRUE, map |-> map],
              [cut |-> FALSE, map |-> <<Len(addresses) + 1>> \o map]}
        \cup {[cut |-> FALSE, map |-> RemoveAt(map, i)] : i \in DOMAIN map}

SymbolsInit ==
    /\ \E n \in 0..MaxModules : moduleRecords \in [1..n -> Streams]
    /\ symrecs \in Streams
    /\ listing \in {DataKinds, {"thread"}}
    /\ stored \in Publics
    /\ addrMap \in MapsLeft(stored)
    /\ stream = 1 /\ pos = 1
    /\ kept = <<>> /\ identities = {}
    /\ listed = <<>>

-----------------------------------------------------------------------------
(* data_symbols and thread_locals: every module, then the symbol records *)

\* _DATA_FIXED: type, offset, segment; the name and its NUL follow.
DataFixed == 10
Decodes(r) == r.size >= DataFixed /\ \E p \in r.nuls : DataFixed <= p /\ p < r.size

AfterAll == stream > Len(moduleRecords) + 1
Done == stream = Len(moduleRecords) + 3
StreamAt(s) == IF s <= Len(moduleRecords) THEN moduleRecords[s] ELSE symrecs
Current == StreamAt(stream)
AtRecord == ~AfterAll /\ pos <= Len(Current)
ThisRecord == Current[pos]

Identity(r) == <<r.ident, r.kind>>

\* Mutant: an identity is taken for listed before its record is read.
KeepBeforeParsing(r) ==
    IF r.kind \notin listing \/ Identity(r) \in identities
    THEN UNCHANGED <<kept, identities>>
    ELSE /\ identities' = identities \cup {Identity(r)}
         /\ IF Decodes(r) THEN kept' = Append(kept, Identity(r)) ELSE UNCHANGED kept

\* keep_new, on the records its extractor decodes.
Keep(r) ==
    IF r.kind \notin listing \/ ~Decodes(r) \/ Identity(r) \in identities
    THEN UNCHANGED <<kept, identities>>
    ELSE kept' = Append(kept, Identity(r)) /\ identities' = identities \cup {Identity(r)}

ReadRecord ==
    /\ AtRecord
    /\ Keep(ThisRecord)
    /\ pos' = pos + 1
    /\ UNCHANGED <<symbolFile, stream, listed>>

NextStream ==
    /\ ~AfterAll /\ ~AtRecord
    /\ stream' = stream + 1 /\ pos' = 1
    /\ UNCHANGED <<symbolFile, kept, identities, listed>>

-----------------------------------------------------------------------------
(* public_symbols *)

AsStored == [i \in DOMAIN stored |-> i]

\* PublicsStream.parse raises when the map runs past the end of its stream.
Ranked == IF addrMap.cut THEN <<>> ELSE addrMap.map

\* Mutant: records the map does not name go first.
CoversSome == Ranked # <<>>

Covers == Ranked # <<>> /\ DOMAIN stored \subseteq ToSet(Ranked)

RankInMap(i) == IF i \in ToSet(Ranked) THEN Max({k \in DOMAIN Ranked : Ranked[k] = i}) ELSE 0

StoredByRank ==
    StableOrder(Len(stored), {p \in (DOMAIN stored) \X (DOMAIN stored) :
                                 RankInMap(p[1]) < RankInMap(p[2])})

ListPublics ==
    /\ stream = Len(moduleRecords) + 2
    /\ listed' = IF Covers THEN StoredByRank ELSE AsStored
    /\ stream' = stream + 1
    /\ UNCHANGED <<symbolFile, pos, kept, identities>>

SymbolsNext == ReadRecord \/ NextStream \/ ListPublics

SymbolsSpec == SymbolsInit /\ [][SymbolsNext]_symbolVars

-----------------------------------------------------------------------------
(* Properties *)

\* The places of the records, in the order of the modules and then of the records.
Places == UNION {{s} \X DOMAIN StreamAt(s) : s \in 1..Len(moduleRecords) + 1}
At(a) == StreamAt(a[1])[a[2]]
Precedes(a, b) == a[1] < b[1] \/ (a[1] = b[1] /\ a[2] < b[2])

Listable == {a \in Places : At(a).kind \in listing /\ Decodes(At(a))}
Same(r, s) == r.ident = s.ident /\ r.kind = s.kind

\* The records that can be read and that say what none before them says.
FirstToSay ==
    {a \in Listable : \A b \in Listable : Precedes(b, a) => ~Same(At(b), At(a))}

(***************************************************************************)
(* pdb.py:1199-1212: every symbol "each once", in the order of the modules *)
(* and then of the records, and none collapsed into another: the listing   *)
(* is what is left of all the records in that order when each one that     *)
(* says what an earlier one said is struck out.  A record that could not   *)
(* be read hides no later one that says the same.                          *)
(***************************************************************************)
ListedOnceInOrder ==
    AfterAll =>
        LET first == FirstToSay
        IN  /\ Len(kept) = Cardinality(first)
            /\ \A a \in first :
                   kept[Cardinality({b \in first : ~Precedes(a, b)})] = Identity(At(a))

(***************************************************************************)
(* pdb.py:843-848: the address map "supplies the ordering; if it is        *)
(* missing or disagrees, stream order is used".  Whatever became of the    *)
(* map, all the publics are listed, each once, and either by address or as *)
(* stored: never some of them by one and some by the other.                *)
(***************************************************************************)
ByAddress(order) == \A i, j \in DOMAIN order : i < j => stored[order[i]] <= stored[order[j]]

PublicsAreInOneOrder ==
    Done =>
        /\ Len(listed) = Len(stored) /\ ToSet(listed) = DOMAIN stored
        /\ listed = AsStored \/ ByAddress(listed)
=============================================================================
