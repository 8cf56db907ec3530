------------------------------- MODULE IdTable -------------------------------
(***************************************************************************)
(* IdTable.parse (purepdb/ipi.py): the IPI stream, whose records are known *)
(* by their position and not by anything they say.  Nothing in it lets a   *)
(* reader find its place again, so a stream that was cut or damaged may    *)
(* lose names but must not move them.                                      *)
(***************************************************************************)
EXTENDS Integers, Sequences, FiniteSets

CONSTANTS
    IdRecords,    \* the IPI records: [kind, size of the payload, nul within it]
    MaxIds,       \* bound: records
    Begin         \* TypeIndexBegin

(***************************************************************************)
(* A NUL at 0 stands for none: no name can end where its record begins.  A *)
(* size of -1 is a length field below 2.                                   *)
(***************************************************************************)
IdKinds == {"func", "mfunc", "string", "other"}

ASSUME IdsAssumption ==
    /\ \A r \in IdRecords : r.kind \in IdKinds /\ r.size \in Nat \cup {-1} /\ r.nul \in Nat
    /\ MaxIds \in Nat /\ Begin \in Nat

VARIABLES
    recs,         \* the record region and, after `region` records, the hash data
    region,       \* how many of them TypeRecordBytes covers
    left,         \* the bytes of the stream after its header
    k, at, n,     \* the record the walk is at, its offset, its id
    names,        \* the records named so far: <<id, record>>
    done

idVars == <<recs, region, left, k, at, n, names, done>>

SizeOf(r) == 4 + (IF r.size < 0 THEN 0 ELSE r.size)

\* Where each record ends, and at 0 where the first begins.
RecordEnd ==
    LET end[i \in 0..Len(recs)] == IF i = 0 THEN 0 ELSE end[i - 1] + SizeOf(recs[i])
    IN  end

IdsInit ==
    /\ recs \in UNION {[1..len -> IdRecords] : len \in 0..MaxIds}
    /\ region \in 0..Len(recs)
    /\ left \in 0..RecordEnd[Len(recs)]
    /\ k = 1 /\ at = 0 /\ n = Begin
    /\ names = {}
    /\ done = FALSE

RegionEnd == LET claimed == RecordEnd[region] IN IF claimed < left THEN claimed ELSE left

ThisId == recs[k]
NamedKinds == {"func", "mfunc", "string"}
Skip(kind) == IF kind = "string" THEN 4 ELSE 8

Readable == k <= Len(recs) /\ RegionEnd - at >= 4 /\ ThisId.size >= 0 /\ RegionEnd - (at + 4) >= ThisId.size

\* A name starts after the ids and ends at a NUL of its own record.
HasName(r) ==
    /\ r.kind \in NamedKinds
    /\ Skip(r.kind) <= r.size
    /\ r.nul >= Skip(r.kind) /\ r.nul < r.size

\* Mutant: only the kinds that have names count.
ReadIdCountingNames ==
    /\ ~done /\ Readable
    /\ names' = IF HasName(ThisId) THEN names \cup {<<n, ThisId>>} ELSE names
    /\ n' = IF ThisId.kind \in NamedKinds THEN n + 1 ELSE n
    /\ k' = k + 1 /\ at' = at + 4 + ThisId.size
    /\ UNCHANGED <<recs, region, left, done>>

ReadId ==
    /\ ~done /\ Readable
    /\ names' = IF HasName(ThisId) THEN names \cup {<<n, ThisId>>} ELSE names
    /\ n' = n + 1
    /\ k' = k + 1 /\ at' = at + 4 + ThisId.size
    /\ UNCHANGED <<recs, region, left, done>>

ReadIdsEnd ==
    /\ ~done /\ ~Readable
    /\ done' = TRUE
    /\ UNCHANGED <<recs, region, left, k, at, n, names>>

IdsNext == ReadId \/ ReadIdsEnd

IdsSpec == IdsInit /\ [][IdsNext]_idVars

-----------------------------------------------------------------------------
(* Properties *)

(***************************************************************************)
(* ipi.py:74-75: "the n'th record is index_begin + n, whether or not it is *)
(* a kind we decode".  Every id that has a name has the one of the record  *)
(* at its own place, and nothing of the hash data after the records is     *)
(* taken for one, wherever the stream is cut.                              *)
(***************************************************************************)
NamesStayInPlace ==
    \A entry \in names :
        LET i == entry[1] - Begin + 1
        IN  i \in 1..region /\ entry[2] = recs[i]

(***************************************************************************)
(* A record that lies whole in what is left of the stream, before the      *)
(* first impossible length, has its name when the walk ends.               *)
(***************************************************************************)
Whole(i) ==
    /\ i <= region /\ RecordEnd[i] <= left
    /\ \A j \in 1..i : recs[j].size >= 0

WholeRecordsAreNamed ==
    done => \A i \in DOMAIN recs : Whole(i) /\ HasName(recs[i]) => <<Begin + i - 1, recs[i]>> \in names

\* Both: names neither move nor are lost before the damage.
NamesAreExact == NamesStayInPlace /\ WholeRecordsAreNamed
=============================================================================
