----------------------------- MODULE NamedStreams -----------------------------
(***************************************************************************)
(* The named stream map at the end of the PDB Info stream and the /names   *)
(* string table (parse_named_stream_map, _read_bit_vector and StringTable  *)
(* in purepdb/names.py; PDB.named_streams and PDB.string_table in          *)
(* purepdb/pdb.py).                                                        *)
(*                                                                         *)
(* A stream is what a linker wrote, or that with one field damaged, up to  *)
(* the byte where it was cut.  A character is a number and 0 is NUL; a     *)
(* word of a bit vector is the set of its bits.                            *)
(***************************************************************************)
EXTENDS Integers, Sequences, FiniteSets, SequencesExt

CONSTANTS
  Maps,      \* [names, ended, size, present, deleted, buckets]: what a stream holds
  Tables     \* [signature, version, names, ended]: what a /names stream holds

\* A bucket's name is a place in names, and 0 is a key outside the buffer.
ASSUME MapsAssumption ==
  \A m \in Maps :
    /\ m.names \in Seq(Seq(Nat \ {0})) /\ m.ended \in BOOLEAN /\ m.size \in Nat
    /\ \A i \in DOMAIN m.present : IsFiniteSet(m.present[i])
    /\ m.buckets \in Seq([name : 0..Len(m.names), stream : Nat])

\* The buffer: each name and its NUL, but for the last one that is not ended.
Buffer(m) ==
  LET all == FlattenSeq([k \in DOMAIN m.names |-> Append(m.names[k], 0)])
  IN IF m.ended \/ all = <<>> THEN all ELSE Front(all)
Offset(m, k) == Len(FlattenSeq([j \in 1 .. k - 1 |-> Append(m.names[j], 0)]))
Key(m, bucket) == IF bucket.name = 0 THEN Len(Buffer(m)) + 3 ELSE Offset(m, bucket.name)

WordSize == 4

VARIABLES
  map,        \* the map in the stream
  map_end,    \* where the stream ends, counted from NAMED_STREAM_MAP_OFFSET
  field,      \* what parse_named_stream_map reads next; "returned" at the end
  map_pos,    \* its position
  bits,       \* the present bits
  named,      \* the mapping so far: name -> stream
  table, table_end,  \* the /names stream and its length, once it is read
  got         \* StringTable.get of every name's offset and of one past the end

namesVars == <<map, map_end, field, map_pos, bits, named, table, table_end, got>>

HeaderLen == 3 * WordSize
VectorLen(words) == WordSize + WordSize * Len(words)
MapLen(m) ==
  WordSize + Len(Buffer(m)) + 2 * WordSize + VectorLen(m.present) + VectorLen(m.deleted)
    + 2 * WordSize * Len(m.buckets)

PresentBits(m) == FoldSeq(LAMBDA word, sum : sum + Cardinality(word), 0, m.present)

\* The counts agree with the buckets there are.
Counted(m) == PresentBits(m) = Len(m.buckets) /\ Len(m.buckets) <= m.size

\* Two words that are none of the map's may follow it.
NamesInit ==
  /\ map \in Maps
  /\ map_end \in 0 .. MapLen(map) + (IF Counted(map) THEN 2 * WordSize ELSE 0)
  /\ table = <<>> /\ table_end = 0
  /\ field = "strings" /\ map_pos = 0 /\ bits = 0 /\ named = <<>> /\ got = <<>>

-----------------------------------------------------------------------------
(* Strings.                                                                   *)

\* strings[offset:end] up to the next NUL, in a singleton; {} when the offset is
\* out of the buffer or no NUL follows.
StringAt(strings, offset) ==
  LET ends == {i \in offset + 1 .. Len(strings) : strings[i] = 0} IN
  IF ends = {} THEN {}
  ELSE {SubSeq(strings, offset + 1, (CHOOSE i \in ends : \A j \in ends : i <= j) - 1)}

-----------------------------------------------------------------------------
(* parse_named_stream_map: struct.error, and what the code finds out of        *)
(* proportion, give {}.                                                        *)

ReturnNothing ==
  /\ field' = "returned" /\ named' = <<>>
  /\ UNCHANGED <<map_pos, bits>>

\* The next n bytes are there; reading goes on behind them.
There(n) == map_pos + n <= map_end
GoOnBehind(n, next) == map_pos' = map_pos + n /\ field' = next

ReadStrings ==
  /\ field = "strings"
  /\ LET n == WordSize + Len(Buffer(map)) IN
     IF There(n) THEN GoOnBehind(n, "present") /\ UNCHANGED <<bits, named>>
     ELSE ReturnNothing

\* Size, capacity and the first _read_bit_vector.
ReadPresent ==
  /\ field = "present"
  /\ LET n == 2 * WordSize + VectorLen(map.present) IN
     IF There(n)
     THEN /\ GoOnBehind(n, "deleted")
          /\ bits' = PresentBits(map)
          /\ UNCHANGED named
     ELSE ReturnNothing

\* Mutant: the words of the deleted buckets are not stepped over.
DeletedLenOfCount == WordSize

DeletedLen == VectorLen(map.deleted)

ReadDeleted ==
  /\ field = "deleted"
  /\ IF There(DeletedLen) /\ bits <= map.size
     THEN GoOnBehind(DeletedLen, "buckets") /\ UNCHANGED <<bits, named>>
     ELSE ReturnNothing

BucketsAt == MapLen(map) - 2 * WordSize * Len(map.buckets)

\* The bucket that lies at map_pos, if one does: only a count that is wrong
\* leads to where none begins.
BucketHere ==
  LET i == (map_pos - BucketsAt) \div (2 * WordSize) + 1
  IN IF map_pos >= BucketsAt /\ (map_pos - BucketsAt) % (2 * WordSize) = 0 /\ i <= Len(map.buckets)
     THEN map.buckets[i] ELSE [name |-> 0, stream |-> 0]
NameHere == StringAt(Buffer(map), Key(map, BucketHere))

\* One bucket for each present bit; a key that names no string is passed by.
ReadBucket ==
  /\ field = "buckets" /\ bits > 0
  /\ IF There(2 * WordSize)
     THEN /\ GoOnBehind(2 * WordSize, "buckets")
          /\ bits' = bits - 1
          /\ named' = [s \in DOMAIN named \cup NameHere |->
                         IF s \in NameHere THEN BucketHere.stream
                         ELSE named[s]]
     ELSE ReturnNothing

ReturnNamed ==
  /\ field = "buckets" /\ bits = 0
  /\ field' = "returned"
  /\ UNCHANGED <<map_pos, bits, named>>

-----------------------------------------------------------------------------
(* StringTable.parse and get.                                                  *)

ParsedStrings(t, end) ==
  IF end >= HeaderLen /\ t.signature = "right" /\ t.version \in {1, 2}
     /\ end - HeaderLen >= Len(Buffer(t))
  THEN {Buffer(t)} ELSE {}

\* PDB.string_table: only a map that names streams leads to it.
ReadTable ==
  /\ field = "returned" /\ named # <<>> /\ table = <<>>
  /\ \E t \in Tables : \E end \in 0 .. HeaderLen + Len(Buffer(t)) :
       /\ table' = <<t>> /\ table_end' = end
       /\ got' = [k \in 1 .. Len(t.names) + 1 |->
                    UNION {StringAt(strings, Offset(t, k)) : strings \in ParsedStrings(t, end)}]
  /\ UNCHANGED <<map, map_end, map_pos, bits, named, field>>

ReadMap ==
  /\ ReadStrings \/ ReadPresent \/ ReadDeleted \/ ReadBucket \/ ReturnNamed
  /\ UNCHANGED <<map, map_end, table, table_end, got>>

NamesNext == ReadMap \/ ReadTable

-----------------------------------------------------------------------------
(* Properties.                                                                 *)

Ended(m, k) == k \in 1 .. Len(m.names) - (IF m.ended THEN 0 ELSE 1)

\* The names that lie in the buffer, each with the stream of its last bucket.
NamesOf(m) ==
  LET whole == {i \in DOMAIN m.buckets : Ended(m, m.buckets[i].name)}
      buckets(s) == {i \in whole : m.names[m.buckets[i].name] = s}
  IN [s \in {m.names[m.buckets[i].name] : i \in whole} |->
        m.buckets[CHOOSE i \in buckets(s) : \A j \in buckets(s) : j <= i].stream]

\* The map is all or nothing: a stream that holds it to the end gives every
\* name with its stream, and one that is cut anywhere before gives none, never
\* some of them; a key damaged by itself costs its own name only.
MapIsWholeOrEmpty ==
  field = "returned" =>
    named = IF map_end >= MapLen(map) /\ Counted(map) THEN NamesOf(map) ELSE <<>>

\* The string at the offset a linker gave a name is that name; a table of which
\* a byte is missing has none, and no string runs on behind the buffer.
StringsAreAsWritten ==
  \A i \in DOMAIN table :
    LET t == table[i]
        whole == /\ table_end = HeaderLen + Len(Buffer(t))
                 /\ t.signature = "right" /\ t.version \in {1, 2}
    IN \A k \in DOMAIN got :
         got[k] = IF whole /\ Ended(t, k) THEN {t.names[k]} ELSE {}

\* Both: what purepdb calls a stream or a file is what the linker called it.
NamesAreReadBack == MapIsWholeOrEmpty /\ StringsAreAsWritten
=============================================================================
