------------------------------ MODULE RecordWalk ------------------------------
(***************************************************************************)
(* A module's symbol records walked three times: by diagnose()'s survey,   *)
(* by the second walk that places its inline sites, and by a listing       *)
(* (PDB._module_symbols, diagnose and functions in purepdb/pdb.py;         *)
(* iter_records and survey_records in purepdb/codeview.py).                *)
(*                                                                         *)
(* A record is what its header claims and whether its payload is too short *)
(* for the parser of its kind.  Headers are chosen when an offset is first *)
(* read and stay as they are for the walks that follow.                    *)
(***************************************************************************)
EXTENDS Integers, Sequences, FiniteSets, SequencesExt

CONSTANTS
  Streams,   \* module streams: [len, sym_byte_size, signature]
  Heads      \* record headers: [rec_len, kind, short]

Kinds == {"proc", "thunk", "sepcode", "site", "label", "unknown"}
DispatchedKinds == Kinds \ {"unknown"}
InlineSiteKinds == {"site"}

ASSUME StreamsAssumption ==
  Streams \subseteq [len : Nat, sym_byte_size : Nat, signature : {"C13", "other"}]
ASSUME HeadsAssumption ==
  Heads \subseteq [rec_len : Nat, kind : Kinds, short : BOOLEAN]

\* The walks, in the order the calls are made; each sees every record of the
\* kinds it asks for, and parses some of them.
Walks == <<"survey", "sites", "functions">>
Wanted == [survey |-> Kinds, sites |-> InlineSiteKinds, functions |-> {"proc", "thunk"}]
Parsed == [survey |-> DispatchedKinds \ InlineSiteKinds, sites |-> InlineSiteKinds,
           functions |-> {"proc", "thunk"}]

VARIABLES
  stream,      \* the module stream
  heads,       \* byte offset -> the header read there
  walk,        \* which of Walks is under way; past the last when all are done
  cursor,      \* its position in the body
  yielded,     \* per walk: the offsets of the records it yielded, in order
  raised,      \* per walk: how many of them its parser raised on
  stopped,     \* per walk: where it stopped, or -1
  reports      \* per walk: the truncations it reported, if it was asked to

recordVars == <<stream, heads, walk, cursor, yielded, raised, stopped, reports>>

Walk == Walks[walk]
Empty(value) == [w \in Range(Walks) |-> value]

RecordsInit ==
  /\ stream \in Streams
  /\ heads = <<>>
  /\ walk = 1 /\ cursor = 0
  /\ yielded = Empty(<<>>) /\ raised = Empty(0)
  /\ stopped = Empty(-1) /\ reports = Empty(<<>>)

SignatureSize == 4

HasSymbols == stream.sym_byte_size > SignatureSize

\* _module_symbols: the signature is stripped, and the body ends where the
\* stream does if sym_byte_size claims more.
BodyLen ==
  LET end == IF stream.sym_byte_size < stream.len THEN stream.sym_byte_size ELSE stream.len IN
  IF ~HasSymbols THEN 0
  ELSE IF stream.len < SignatureSize THEN end
  ELSE IF stream.signature = "other" THEN 0
  ELSE end - SignatureSize

HeaderSize == 4

\* The walk ends at p, with the reports given; the next one begins.
EndWalk(p, report) ==
  /\ stopped' = [stopped EXCEPT ![Walk] = p]
  /\ reports' = [reports EXCEPT ![Walk] = IF Walk = "survey" THEN report ELSE <<>>]
  /\ walk' = walk + 1 /\ cursor' = 0
  /\ UNCHANGED <<stream, yielded, raised>>

Remaining == BodyLen - cursor

\* What is left when no header fits any more.
RaggedTail == IF Remaining > 0 THEN <<[offset |-> cursor, ragged_tail |-> TRUE]>> ELSE <<>>

EndOfBuffer ==
  /\ walk <= Len(Walks) /\ Remaining < HeaderSize
  /\ EndWalk(cursor, RaggedTail)
  /\ UNCHANGED heads

BadLength(head) == head.rec_len < 2 \/ Remaining - HeaderSize < head.rec_len - 2

StopAtRecord(head) ==
  /\ BadLength(head)
  /\ EndWalk(cursor, <<[offset |-> cursor, ragged_tail |-> FALSE]>>)

\* Mutant: a walk steps over the payload of the records it yields only.
AdvanceFiltered(head) ==
  cursor + HeaderSize + (IF head.kind \in Wanted[Walk] THEN head.rec_len - 2 ELSE 0)

\* The records follow each other by their length fields.
Advance(head) == cursor + HeaderSize + (head.rec_len - 2)

\* Mutant: the survey tries the parsers of inline sites too.
CountsTwice(head) == head.short /\ head.kind \in DispatchedKinds

\* The parser of the record's kind raises EOFError.
Raises(head) == head.short /\ head.kind \in Parsed[Walk]

VisitRecord(head) ==
  /\ ~BadLength(head)
  /\ IF head.kind \in Wanted[Walk]
     THEN /\ yielded' = [yielded EXCEPT ![Walk] = Append(@, cursor)]
          /\ raised' = [raised EXCEPT ![Walk] = @ + (IF Raises(head) THEN 1 ELSE 0)]
     ELSE UNCHANGED <<yielded, raised>>
  /\ cursor' = Advance(head)
  /\ UNCHANGED <<stream, walk, stopped, reports>>

\* The header at pos is the one read there before, or any.
ReadRecord ==
  /\ walk <= Len(Walks) /\ Remaining >= HeaderSize
  /\ \E head \in IF cursor \in DOMAIN heads THEN {heads[cursor]} ELSE Heads :
       /\ heads' = [p \in DOMAIN heads \cup {cursor} |-> IF p = cursor THEN head ELSE heads[p]]
       /\ StopAtRecord(head) \/ VisitRecord(head)

RecordsNext == EndOfBuffer \/ ReadRecord

RecordsSpec == RecordsInit /\ [][RecordsNext]_recordVars

------------------------------------------------------------------------------
(* Properties.                                                             *)

Done(w) == stopped[w] # -1

\* "The walk stays in sync and the truncation report is the same whatever the
\* filter" (codeview.py:684): the walks stop at the same byte, and a filtered
\* walk yields the survey's records of its kinds in their order, neither more
\* nor others.
FilterChangesNothing ==
  \A w \in Range(Walks) : Done(w) =>
    /\ stopped[w] = stopped["survey"]
    /\ Range(yielded[w]) = {p \in Range(yielded["survey"]) : heads[p].kind \in Wanted[w]}
    /\ \A i, j \in DOMAIN yielded[w] : i < j => yielded[w][i] < yielded[w][j]

\* The survey's records lie end to end from the first byte to where it
\* stopped, and it reports a truncation unless that is the last byte.
EveryByteAccounted ==
  Done("survey") =>
    LET offsets == Append(yielded["survey"], stopped["survey"])
        report == reports["survey"]
    IN /\ offsets[1] = 0
       /\ \A i \in 2..Len(offsets) :
            offsets[i] = offsets[i - 1] + 2 + heads[offsets[i - 1]].rec_len
       /\ report = <<>> <=> stopped["survey"] = BodyLen
       /\ report # <<>> => (report[1].ragged_tail <=> BodyLen - stopped["survey"] < HeaderSize)

\* Both: no walk sees less than lies in its body, or other than the others see.
EveryRecordSeen == FilterChangesNothing /\ EveryByteAccounted

\* A record that any listing drops because its payload is too short is counted
\* once in diagnose().malformed_records, although one walk counts the inline
\* sites and another all the rest.
EveryDropCounted ==
  Done("sites") =>
    raised["survey"] + raised["sites"] =
      Cardinality({p \in Range(yielded["survey"]) :
                     heads[p].short /\ heads[p].kind \in DispatchedKinds})

\* Diagnostics.truncations: an unreported truncation is the one thing
\* diagnose() exists to prevent (pdb.py:227).  _module_symbols takes the lesser
\* of sym_byte_size and the stream's length, so a stream cut between two
\* records is walked to its end and nothing is reported.
CutIsReported ==
  (Done("survey") /\ HasSymbols /\ stream.signature = "C13" /\ stream.len < stream.sym_byte_size)
    => reports["survey"] # <<>>
=============================================================================
