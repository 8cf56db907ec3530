---------------------------- MODULE FunctionListing ----------------------------
(***************************************************************************)
(* PDB.functions and PDB.public_symbols (purepdb/pdb.py): one walk over    *)
(* the module streams for procedures and thunks, the publics in the order  *)
(* of their address map, and the merge into a dictionary keyed by address  *)
(* that keeps the order in which the addresses were first seen.            *)
(*                                                                         *)
(* An address is <<segment, offset>>; names are numbers, compared like the *)
(* strings they stand for.                                                 *)
(***************************************************************************)
EXTENDS Integers, Sequences, FiniteSets, SequencesExt, StableSort

CONSTANTS
  ListedFiles   \* the PDBs that may be listed; see ListedFilesAssumption

Fits(f) ==
  /\ f.modules \in Seq([state : {"whole", "nil", "damaged"}, records : Seq(
       [kind : {"proc", "thunk"}, addr : Nat \X Nat, name : Nat, size : Nat, short : BOOLEAN])])
  /\ f.symrecords \in {"whole", "nil", "damaged"}
  /\ f.publics \in Seq([addr : Nat \X Nat, name : Nat, is_function : BOOLEAN,
                        record_offset : Nat, short : BOOLEAN])
  /\ f.publics_stream \in {"whole", "nil", "damaged"}
  /\ f.addr_map \in Seq(Nat)
  /\ f.sections \in Seq([base : Nat, executable : BOOLEAN])

ASSUME ListedFilesAssumption == \A f \in ListedFiles : Fits(f)

VARIABLES
  listed_file,
  code_publics,         \* the keyword argument of functions()
  phase,
  walked,               \* how many module streams have been walked
  procedures, thunks,   \* what that walk has collected
  publics,              \* public_symbols(), once it has been called
  todo,                 \* the claims of this phase that are not yet added
  seen                  \* the dictionary: functions in the order first seen

functionVars ==
  <<listed_file, code_publics, phase, walked, procedures, thunks, publics, todo, seen>>

FunctionsInit ==
  /\ listed_file \in ListedFiles /\ code_publics \in BOOLEAN
  /\ phase = "modules" /\ walked = 0
  /\ procedures = <<>> /\ thunks = <<>> /\ publics = <<>> /\ todo = <<>> /\ seen = <<>>

------------------------------------------------------------------------------

Claim(record, source, size) ==
  [addr |-> record.addr, name |-> record.name, source |-> source, size |-> size]

\* The records of a kind that a stream gives; a short one is skipped.
Extract(records, kind) ==
  FlattenSeq([i \in DOMAIN records |->
    IF records[i].kind = kind /\ ~records[i].short
    THEN <<Claim(records[i], kind, records[i].size)>> ELSE <<>>])

\* module_symbol_bytes: a stream that is_valid_stream refuses holds no records.
RecordsOf(module) == IF module.state = "whole" THEN module.records ELSE <<>>

Refuse ==
  /\ phase' = "refused"
  /\ UNCHANGED <<listed_file, code_publics, walked, procedures, thunks, publics, todo, seen>>

WalkModule ==
  /\ phase = "modules" /\ walked < Len(listed_file.modules)
  /\ LET module == listed_file.modules[walked + 1] IN
     IF module.state = "damaged" THEN Refuse
     ELSE /\ walked' = walked + 1
          /\ procedures' = procedures \o Extract(RecordsOf(module), "proc")
          /\ thunks' = thunks \o Extract(RecordsOf(module), "thunk")
          /\ UNCHANGED <<listed_file, code_publics, phase, publics, todo, seen>>

BeginProcs ==
  /\ phase = "modules" /\ walked = Len(listed_file.modules)
  /\ phase' = "procs" /\ todo' = procedures
  /\ UNCHANGED <<listed_file, code_publics, walked, procedures, thunks, publics, seen>>

------------------------------------------------------------------------------

AddrMap == IF listed_file.publics_stream = "whole" THEN listed_file.addr_map ELSE <<>>

\* rank[off]: a dictionary comprehension, in which the last of equal keys wins.
Rank(off) == CHOOSE i \in DOMAIN AddrMap :
               AddrMap[i] = off /\ \A j \in DOMAIN AddrMap : AddrMap[j] = off => j <= i

SortedByRank(pubs) ==
  LET before == {p \in (DOMAIN pubs) \X (DOMAIN pubs) :
                  Rank(pubs[p[1]].record_offset) < Rank(pubs[p[2]].record_offset)}
      order == StableOrder(Len(pubs), before)
  IN [i \in DOMAIN pubs |-> pubs[order[i]]]

\* extract_publics on the symbol-record stream.
ReadablePublics ==
  IF listed_file.symrecords = "whole"
  THEN FlattenSeq([i \in DOMAIN listed_file.publics |->
         IF listed_file.publics[i].short THEN <<>> ELSE <<listed_file.publics[i]>>])
  ELSE <<>>

PublicSymbols ==
  LET pubs == ReadablePublics
      covered == \A i \in DOMAIN pubs : pubs[i].record_offset \in Range(AddrMap)
  IN IF AddrMap # <<>> /\ covered THEN SortedByRank(pubs) ELSE pubs

IsExecutable(segment) ==
  segment \in DOMAIN listed_file.sections /\ listed_file.sections[segment].executable

IsCode(pub) == pub.is_function \/ (code_publics /\ IsExecutable(pub.addr[1]))

ClaimsOf(pubs) ==
  FlattenSeq([i \in DOMAIN pubs |->
    IF IsCode(pubs[i]) THEN <<Claim(pubs[i], "public", -1)>> ELSE <<>>])

BeginPublics ==
  /\ phase = "procs" /\ todo = <<>>
  /\ IF listed_file.symrecords = "damaged" THEN Refuse
     ELSE /\ phase' = "publics"
          /\ publics' = PublicSymbols
          /\ todo' = ClaimsOf(publics')
          /\ UNCHANGED <<listed_file, code_publics, walked, procedures, thunks, seen>>

BeginThunks ==
  /\ phase = "publics" /\ todo = <<>>
  /\ phase' = "thunks" /\ todo' = thunks
  /\ UNCHANGED <<listed_file, code_publics, walked, procedures, thunks, publics, seen>>

------------------------------------------------------------------------------

NewFunction(c) == [addr |-> c.addr, name |-> c.name, source |-> c.source,
                   code_size |-> c.size, aliases |-> <<>>]

\* Mutant: the last claim takes the name.
AddReplacing(c) ==
  LET at == {i \in DOMAIN seen : seen[i].addr = c.addr} IN
  IF at = {} THEN Append(seen, NewFunction(c))
  ELSE [i \in DOMAIN seen |-> IF i \in at /\ c.name # seen[i].name
          THEN [seen[i] EXCEPT !.name = c.name, !.aliases = Append(@, seen[i].name)]
          ELSE seen[i]]

\* add(key, name, make).
Add(c) ==
  LET at == {i \in DOMAIN seen : seen[i].addr = c.addr} IN
  IF at = {} THEN Append(seen, NewFunction(c))
  ELSE [i \in DOMAIN seen |->
          IF i \in at /\ c.name # seen[i].name /\ c.name \notin Range(seen[i].aliases)
          THEN [seen[i] EXCEPT !.aliases = Append(@, c.name)]
          ELSE seen[i]]

AddNext ==
  /\ todo # <<>>
  /\ seen' = Add(Head(todo))
  /\ todo' = Tail(todo)
  /\ UNCHANGED <<listed_file, code_publics, phase, walked, procedures, thunks, publics>>

------------------------------------------------------------------------------

NoRva == -1

Rva(addr) == IF addr[1] \in DOMAIN listed_file.sections
             THEN listed_file.sections[addr[1]].base + addr[2] ELSE NoRva

\* The key of the final sort.
Key(f) == <<IF Rva(f.addr) = NoRva THEN 1 ELSE 0,
            IF Rva(f.addr) = NoRva THEN 0 ELSE Rva(f.addr), f.name>>

KeyLess(a, b) == \E k \in DOMAIN a : a[k] < b[k] /\ \A l \in 1..(k - 1) : a[l] = b[l]

Sorted ==
  LET before == {p \in (DOMAIN seen) \X (DOMAIN seen) : KeyLess(Key(seen[p[1]]), Key(seen[p[2]]))}
      order == StableOrder(Len(seen), before)
  IN [i \in DOMAIN seen |-> seen[order[i]]]

Return ==
  /\ phase = "thunks" /\ todo = <<>>
  /\ phase' = "returned"
  /\ seen' = Sorted
  /\ UNCHANGED <<listed_file, code_publics, walked, procedures, thunks, publics, todo>>

FunctionsNext == WalkModule \/ BeginProcs \/ BeginPublics \/ BeginThunks \/ AddNext \/ Return

FunctionsSpec == FunctionsInit /\ [][FunctionsNext]_functionVars

------------------------------------------------------------------------------
(* Properties.                                                             *)

\* One function per address, and no name twice in it.
EachOnce ==
  /\ \A i, j \in DOMAIN seen : seen[i].addr = seen[j].addr => i = j
  /\ \A i \in DOMAIN seen : IsInjective(<<seen[i].name>> \o seen[i].aliases)

\* The listing ascends by address, and what has none comes after it all.
Ascends ==
  \A i, j \in DOMAIN seen : i < j =>
    \/ Rva(seen[j].addr) = NoRva
    \/ Rva(seen[i].addr) # NoRva /\ Rva(seen[i].addr) <= Rva(seen[j].addr)

\* Every claim of the file, in order of precedence.
AllClaims ==
  LET ofKind(kind) == FlattenSeq([m \in DOMAIN listed_file.modules |->
                        Extract(RecordsOf(listed_file.modules[m]), kind)])
  IN ofKind("proc") \o ClaimsOf(PublicSymbols) \o ofKind("thunk")

AllReadable ==
  /\ listed_file.symrecords # "damaged"
  /\ \A m \in DOMAIN listed_file.modules : listed_file.modules[m].state # "damaged"

Answer ==
  CASE phase = "returned" ->
         [outcome |-> "listing", each_once |-> EachOnce, in_order |-> Ascends,
          functions |-> {[seen[i] EXCEPT !.aliases = Range(@)] : i \in DOMAIN seen}]
    [] phase = "refused" -> [outcome |-> "MsfError"]
    [] OTHER -> [outcome |-> "none"]

Merge == INSTANCE FunctionListingSpec WITH
  claims <- AllClaims, readable <- AllReadable, answer <- Answer

\* pdb.py:1587-1667: the dictionary built claim by claim is the merge of all
\* claims at once, each address and each name in it once, by ascending address
\* with what has none at the end; a listing short of a stream is never returned.
ListingIsMerge == Merge!Spec
=============================================================================
