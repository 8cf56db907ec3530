--------------------------- MODULE Walkers_proofs ---------------------------
(***************************************************************************)
(* The walks over bytes that may be damaged, for streams of any length and *)
(* whatever the records in them claim.                                     *)
(*                                                                         *)
(* Symbol records: the survey finds records that lie end to end; the two   *)
(* walks after it go along the same records, because a header, once read,  *)
(* says the same again.  What a walk drops is what its parsers raise on.   *)
(*                                                                         *)
(* C13 line info: subsections follow each other, blocks stay inside theirs *)
(* and behind each other, so no byte is read as part of two of them.       *)
(*                                                                         *)
(* Ids: the offset of the walk is the sum of the sizes it has passed, so   *)
(* the records it has passed are counted by the id it has come to.         *)
(*                                                                         *)
(* The annotations of an inline site: cursor and chunk are what the        *)
(* instructions read come to, and each further one that closes a range     *)
(* adds that range behind those before it.                                 *)
(***************************************************************************)
EXTENDS RecordWalk, C13Walk, IdTable, InlineAnnotations, Lemmas, SequenceTheorems

-----------------------------------------------------------------------------
(* Symbol records                                                            *)

\* The walks, in the order they are made.
Names == {"survey", "sites", "functions"}
Turn == [survey |-> 1, sites |-> 2, functions |-> 3]

\* How far a walk has come.
Position(w) ==
  IF Turn[w] < walk THEN stopped[w] ELSE IF Turn[w] = walk THEN cursor ELSE 0

\* The survey's records, and where the one after each begins.
Seen == Range(yielded["survey"])
End == IF walk = 1 THEN cursor ELSE stopped["survey"]
NextOf(p) == p + 2 + heads[p].rec_len

WalkTypes ==
  /\ stream \in Streams
  /\ DOMAIN heads \subseteq Nat /\ \A p \in DOMAIN heads : heads[p] \in Heads
  /\ walk \in 1..4 /\ cursor \in 0..BodyLen
  /\ yielded \in [Names -> Seq(Nat)] /\ raised \in [Names -> Nat]
  /\ stopped \in [Names -> Int] /\ DOMAIN reports = Names
  /\ \A w \in Names : Done(w) <=> Turn[w] < walk

\* The survey's records lie end to end, and the header of each fits.
Spine ==
  /\ End \in 0..BodyLen /\ 0 \in Seen \cup {End}
  /\ Seen \subseteq DOMAIN heads /\ (walk = 1 => DOMAIN heads = Seen)
  /\ \A p \in Seen :
       /\ heads[p].rec_len >= 2 /\ NextOf(p) <= BodyLen
       /\ p < End /\ NextOf(p) \in Seen \cup {End}
       /\ \A q \in Seen \cup {End} : q <= p \/ NextOf(p) <= q

\* The survey leaves nothing out between two records.
RecordsInOrder ==
  LET offsets == Append(yielded["survey"], End)
  IN /\ offsets[1] = 0
     /\ \A i \in 2..Len(offsets) :
          offsets[i] = offsets[i - 1] + 2 + heads[offsets[i - 1]].rec_len

\* Where the survey stopped there is no record, whoever looks again.
NoRecordAt(p) ==
  \/ BodyLen - p < HeaderSize
  \/ p \in DOMAIN heads /\ (heads[p].rec_len < 2 \/ BodyLen - p - HeaderSize < heads[p].rec_len - 2)

\* The survey ended where no record is, and reported why.
Stopped ==
  walk > 1 => /\ NoRecordAt(End)
              /\ reports["survey"] = <<>> <=> End = BodyLen
              /\ reports["survey"] # <<>> =>
                   (reports["survey"][1].ragged_tail <=> BodyLen - End < HeaderSize)

\* Every walk goes along the survey's records.
InStep ==
  /\ walk <= 3 => cursor \in Seen \cup {End}
  /\ \A w \in Names : Turn[w] < walk => stopped[w] = End

\* So far a walk has yielded the survey's records of its kinds, and counted
\* those of them that its parsers raise on.
Yields(w) ==
  /\ \A p \in Nat : p \in Range(yielded[w]) <=>
       p \in Seen /\ p < Position(w) /\ heads[p].kind \in Wanted[w]
  /\ \A i, j \in DOMAIN yielded[w] : i < j => yielded[w][i] < yielded[w][j]
  /\ IsFiniteSet(Range(yielded[w]))
  /\ raised[w] = Cardinality({p \in Range(yielded[w]) : heads[p].short /\ heads[p].kind \in Parsed[w]})

\* The inductive invariant of the walks over one module stream.
RecordsInv ==
  WalkTypes /\ Spine /\ RecordsInOrder /\ Stopped /\ InStep /\ \A w \in Names : Yields(w)

-----------------------------------------------------------------------------

IsAscending(s) == \A i, j \in DOMAIN s : i < j => s[i] < s[j]

\* Appending a larger number to an ascending sequence.
LEMMA AppendOne ==
  ASSUME NEW s \in Seq(Nat), NEW c \in Nat, IsAscending(s), \A p \in Range(s) : p < c
  PROVE  /\ Append(s, c) \in Seq(Nat)
         /\ Range(Append(s, c)) = Range(s) \cup {c}
         /\ IsAscending(Append(s, c))
<1> DEFINE t == Append(s, c)
           m == Len(s)
<1>1. /\ m \in Nat /\ DOMAIN s = 1..m /\ t \in Seq(Nat) /\ DOMAIN t = 1..(m + 1)
      /\ t[m + 1] = c /\ \A i \in 1..m : t[i] = s[i]
  OBVIOUS
<1>s. \A i \in 1..m : s[i] \in Nat /\ s[i] < c
  BY <1>1 DEF Range
<1> HIDE DEF t, m
<1>2. \A i \in 1..(m + 1) : i \in 1..m \/ i = m + 1
  BY <1>1
<1>3. Range(t) = Range(s) \cup {c}
  <2>1. m + 1 \in 1..(m + 1) /\ 1..m \subseteq 1..(m + 1)
    BY <1>1
  <2> QED
    BY <1>1, <1>2, <2>1 DEF Range
<1>4. IsAscending(t)
  <2> SUFFICES ASSUME NEW i \in 1..(m + 1), NEW j \in 1..(m + 1), i < j PROVE t[i] < t[j]
    BY <1>1 DEF IsAscending
  <2>1. i \in 1..m
    BY <1>1, <1>2
  <2>2. CASE j \in 1..m
    BY <1>1, <2>1, <2>2 DEF IsAscending
  <2>3. CASE j = m + 1
    BY <1>1, <1>s, <2>1, <2>3
  <2> QED
    BY <1>2, <2>2, <2>3
<1> QED
  BY <1>1, <1>3, <1>4 DEF t

LEMMA TheWalks ==
  /\ Range(Walks) = Names /\ Len(Walks) = 3
  /\ \A w \in Names : Turn[w] \in 1..3
  /\ walk \in 1..3 => Walk \in Names /\ \A w \in Names : Turn[w] = walk <=> w = Walk
<1>1. Len(Walks) = 3 /\ DOMAIN Walks = 1..3
  BY DEF Walks
<1>2. Range(Walks) = Names
  BY <1>1 DEF Walks, Range, Names
<1>3. \A w \in Names : Turn[w] \in 1..3
  BY DEF Names, Turn
<1>4. ASSUME walk \in 1..3
      PROVE  Walk \in Names /\ \A w \in Names : Turn[w] = walk <=> w = Walk
  <2>1. walk = 1 \/ walk = 2 \/ walk = 3
    BY <1>4
  <2> QED
    BY <2>1 DEF Walk, Walks, Names, Turn
<1> QED
  BY <1>1, <1>2, <1>3, <1>4

LEMMA BodyIsNumber == ASSUME stream \in Streams PROVE BodyLen \in Nat
<1>1. stream.len \in Nat /\ stream.sym_byte_size \in Nat
  BY StreamsAssumption
<1> QED
  BY <1>1 DEF BodyLen, HasSymbols, SignatureSize

LEMMA HeadFields == ASSUME NEW h \in Heads PROVE h.rec_len \in Nat /\ h.kind \in Kinds
BY HeadsAssumption

\* What a walk reads at an offset stays what was read there.
HeadsGrow ==
  /\ DOMAIN heads \subseteq DOMAIN heads'
  /\ \A p \in DOMAIN heads : heads'[p] = heads[p]
  /\ \A p \in DOMAIN heads' : p \in Nat /\ heads'[p] \in Heads

\* Reading a header tells one more of the stream, and takes nothing back.
LEMMA ReadingKeepsHeads ==
  ASSUME RecordsInv, ReadRecord
  PROVE  /\ HeadsGrow /\ DOMAIN heads' = DOMAIN heads \cup {cursor}
         /\ walk \in 1..3 /\ BodyLen - cursor >= HeaderSize
         /\ StopAtRecord(heads'[cursor]) \/ VisitRecord(heads'[cursor])
<1>1. PICK head \in IF cursor \in DOMAIN heads THEN {heads[cursor]} ELSE Heads :
        /\ heads' = [p \in DOMAIN heads \cup {cursor} |-> IF p = cursor THEN head ELSE heads[p]]
        /\ StopAtRecord(head) \/ VisitRecord(head)
  BY DEF ReadRecord
<1>2. cursor \in Nat /\ head \in Heads /\ walk \in 1..3
  BY <1>1, BodyIsNumber, TheWalks DEF ReadRecord, RecordsInv, WalkTypes
<1>3. heads'[cursor] = head /\ DOMAIN heads' = DOMAIN heads \cup {cursor}
  BY <1>1
<1>4. \A p \in DOMAIN heads : heads'[p] = heads[p]
  BY <1>1
<1>5. HeadsGrow
  BY <1>1, <1>2, <1>3, <1>4 DEF HeadsGrow, RecordsInv, WalkTypes
<1> QED
  BY <1>1, <1>2, <1>3, <1>5 DEF ReadRecord, Remaining

-----------------------------------------------------------------------------

\* The records a walk has yielded keep their headers.
LEMMA YieldsSame ==
  ASSUME RecordsInv, HeadsGrow, NEW w \in Names,
         yielded'[w] = yielded[w], raised'[w] = raised[w], Seen' = Seen, Position(w)' = Position(w)
  PROVE  Yields(w)'
<1>1. Yields(w)
  BY DEF RecordsInv
<1>2. \A p \in Seen : heads'[p] = heads[p]
  BY DEF RecordsInv, Spine, HeadsGrow
<1>3. Range(yielded[w]) \subseteq Seen
  <2>1. yielded[w] \in Seq(Nat)
    BY DEF RecordsInv, WalkTypes
  <2>2. Range(yielded[w]) \subseteq Nat
    BY <2>1 DEF Range
  <2> QED
    BY <1>1, <2>2 DEF Yields
<1>4. (\A p \in Nat : p \in Range(yielded[w]) <=>
         p \in Seen /\ p < Position(w) /\ heads[p].kind \in Wanted[w])'
  BY <1>1, <1>2 DEF Yields
<1>5. {p \in Range(yielded[w]) : heads[p].short /\ heads[p].kind \in Parsed[w]} =
        {p \in Range(yielded'[w]) : heads'[p].short /\ heads'[p].kind \in Parsed[w]}
  BY <1>2, <1>3
<1> QED
  BY <1>1, <1>4, <1>5 DEF Yields

\* A walk ends where there is no record.
LEMMA EndKeeps ==
  ASSUME RecordsInv, HeadsGrow, walk \in 1..3, NEW report, EndWalk(cursor, report),
         NEW p, p = cursor, NoRecordAt(p)',
         report = <<>> <=> cursor = BodyLen,
         report # <<>> => (report[1].ragged_tail <=> BodyLen - cursor < HeaderSize)
  PROVE  RecordsInv'
<1>1. /\ walk' = walk + 1 /\ cursor' = 0 /\ UNCHANGED <<stream, yielded, raised>>
      /\ stopped' = [stopped EXCEPT ![Walk] = cursor]
      /\ Walk = "survey" => reports'["survey"] = report
      /\ Walk # "survey" => reports'["survey"] = reports["survey"]
      /\ DOMAIN reports' = Names
  BY DEF EndWalk, RecordsInv, WalkTypes, Names
<1>2. /\ Walk \in Names /\ \A w \in Names : Turn[w] = walk <=> w = Walk
      /\ \A w \in Names : Turn[w] \in 1..3
      /\ Walk = "survey" <=> walk = 1
  BY TheWalks DEF Names, Turn
<1>3. /\ stopped'[Walk] = cursor /\ \A w \in Names \ {Walk} : stopped'[w] = stopped[w]
      /\ stopped' \in [Names -> Int] /\ cursor \in Nat
  BY <1>1, <1>2, BodyIsNumber DEF RecordsInv, WalkTypes
<1>b. BodyLen' = BodyLen /\ BodyLen \in Nat /\ cursor \in 0..BodyLen
  BY <1>1, BodyIsNumber DEF BodyLen, HasSymbols, RecordsInv, WalkTypes
<1>h. \A q \in Seen : heads'[q] = heads[q] /\ NextOf(q)' = NextOf(q)
  BY DEF RecordsInv, Spine, HeadsGrow, NextOf
<1>4. Seen' = Seen
  BY <1>1 DEF Seen
<1>5. End' = End
  BY <1>1, <1>2, <1>3 DEF End, Names
<1>6. cursor = End
  <2>1. cursor \in Seen \cup {End}
    BY DEF RecordsInv, InStep
  <2>2. ASSUME cursor \in Seen PROVE FALSE
    <3>1. /\ cursor \in DOMAIN heads /\ heads[cursor].rec_len \in Nat
          /\ heads[cursor].rec_len >= 2 /\ cursor + 2 + heads[cursor].rec_len <= BodyLen
      BY <2>2, HeadFields DEF RecordsInv, Spine, WalkTypes, NextOf
    <3>2. heads'[p] = heads[p]
      BY <2>2, <1>h
    <3>3. /\ heads[p].rec_len \in Nat /\ heads[p].rec_len >= 2
          /\ p + 2 + heads[p].rec_len <= BodyLen /\ p \in Nat
      BY <3>1, <1>b
    <3>4. ~(BodyLen - p < 4) /\ ~(BodyLen - p - 4 < heads[p].rec_len - 2)
      BY <3>3, <1>b
    <3> QED
      BY <3>2, <3>3, <3>4, <1>b DEF NoRecordAt, HeaderSize
  <2> QED
    BY <2>1, <2>2
<1>7. WalkTypes'
  <2>1. \A w \in Names : stopped'[w] # -1 <=> Turn[w] < walk + 1
    <3> SUFFICES ASSUME NEW w \in Names PROVE stopped'[w] # -1 <=> Turn[w] < walk + 1
      OBVIOUS
    <3>1. stopped[w] # -1 <=> Turn[w] < walk
      BY DEF RecordsInv, WalkTypes, Done
    <3>2. Turn[w] \in 1..3 /\ (Turn[w] = walk <=> w = Walk)
      BY <1>2
    <3>3. w # Walk => stopped'[w] = stopped[w]
      BY <1>3
    <3>4. w = Walk => stopped'[w] \in Nat
      BY <1>3
    <3> QED
      BY <3>1, <3>2, <3>3, <3>4
  <2> QED
    BY <1>1, <1>3, <1>b, <2>1 DEF RecordsInv, WalkTypes, HeadsGrow, Done
<1>8. Spine'
  <2>1. Spine
    BY DEF RecordsInv
  <2>2. walk' # 1 /\ Seen \subseteq DOMAIN heads'
    BY <1>1, <2>1 DEF HeadsGrow, Spine
  <2> QED
    BY <1>b, <1>h, <1>4, <1>5, <2>1, <2>2 DEF Spine
<1>9. RecordsInOrder'
  <2> DEFINE offsets == Append(yielded["survey"], End)
             m == Len(yielded["survey"])
  <2>1. /\ yielded["survey"] \in Seq(Nat) /\ m \in Nat /\ Len(offsets) = m + 1
        /\ \A i \in 2..m + 1 : offsets[i - 1] = yielded["survey"][i - 1] /\ i - 1 \in 1..m
    BY DEF RecordsInv, WalkTypes, Names
  <2>2. \A i \in 2..m + 1 : offsets[i - 1] \in Seen
    BY <2>1 DEF Seen, Range
  <2> HIDE DEF offsets, m
  <2>3. /\ offsets[1] = 0
        /\ \A i \in 2..m + 1 : offsets[i] = offsets[i - 1] + 2 + heads'[offsets[i - 1]].rec_len
    BY <2>1, <2>2, <1>h DEF RecordsInv, RecordsInOrder, offsets
  <2>4. offsets' = offsets
    BY <1>1, <1>5 DEF offsets
  <2> QED
    BY <2>1, <2>3, <2>4 DEF RecordsInOrder, offsets
<1>10. Stopped'
  <2>1. NoRecordAt(End)'
    <3>1. End' = p
      BY <1>5, <1>6
    <3> QED
      BY <3>1 DEF NoRecordAt
  <2>2. /\ reports'["survey"] = <<>> <=> End = BodyLen
        /\ reports'["survey"] # <<>> =>
             (reports'["survey"][1].ragged_tail <=> BodyLen - End < HeaderSize)
    <3>1. CASE walk = 1
      BY <3>1, <1>1, <1>2, <1>6
    <3>2. CASE walk # 1
      BY <3>2, <1>1, <1>2 DEF RecordsInv, Stopped
    <3> QED
      BY <3>1, <3>2
  <2> QED
    BY <2>1, <2>2, <1>5, <1>b DEF Stopped
<1>11. InStep'
  <2>1. \A w \in Names : Turn[w] < walk + 1 => stopped'[w] = End
    BY <1>2, <1>3, <1>6 DEF RecordsInv, InStep
  <2> QED
    BY <1>1, <1>4, <1>5, <2>1 DEF RecordsInv, InStep, Spine
<1>12. ASSUME NEW w \in Names PROVE Yields(w)'
  <2>1. Turn[w] \in 1..3 /\ (Turn[w] = walk <=> w = Walk) /\ (w # Walk => stopped'[w] = stopped[w])
    BY <1>2, <1>3
  <2>2. Position(w)' = Position(w)
    BY <1>1, <1>3, <2>1 DEF Position
  <2> QED
    BY <1>1, <1>4, <2>2, YieldsSame
<1> QED
  BY <1>7, <1>8, <1>9, <1>10, <1>11, <1>12 DEF RecordsInv

LEMMA EndOfBufferKeeps == ASSUME RecordsInv, EndOfBuffer PROVE RecordsInv'
<1>1. /\ walk \in 1..3 /\ BodyLen - cursor < HeaderSize /\ EndWalk(cursor, RaggedTail)
      /\ heads' = heads /\ stream' = stream
  BY TheWalks DEF EndOfBuffer, Remaining, RecordsInv, WalkTypes, EndWalk
<1>2. HeadsGrow
  BY <1>1 DEF HeadsGrow, RecordsInv, WalkTypes
<1>4. cursor \in 0..BodyLen /\ BodyLen \in Nat /\ BodyLen' = BodyLen
  BY <1>1, BodyIsNumber DEF RecordsInv, WalkTypes, BodyLen, HasSymbols
<1> PICK p \in Nat : p = cursor
  BY <1>4
<1>3. NoRecordAt(p)'
  BY <1>1, <1>4 DEF NoRecordAt, HeaderSize
<1>5. /\ RaggedTail = <<>> <=> cursor = BodyLen
      /\ RaggedTail # <<>> => (RaggedTail[1].ragged_tail <=> BodyLen - cursor < HeaderSize)
  <2>1. cursor = BodyLen => RaggedTail = <<>>
    BY <1>4 DEF RaggedTail, Remaining
  <2>2. ASSUME cursor # BodyLen PROVE RaggedTail = <<[offset |-> cursor, ragged_tail |-> TRUE]>>
    <3>1. Remaining > 0
      BY <1>4, <2>2 DEF Remaining
    <3> QED
      BY <3>1 DEF RaggedTail
  <2>3. cursor # BodyLen => RaggedTail # <<>> /\ RaggedTail[1].ragged_tail
    BY <2>2
  <2> QED
    BY <1>1, <2>1, <2>3
<1> PICK report : report = RaggedTail
  OBVIOUS
<1>6. /\ EndWalk(cursor, report)
      /\ report = <<>> <=> cursor = BodyLen
      /\ report # <<>> => (report[1].ragged_tail <=> BodyLen - cursor < HeaderSize)
  BY <1>1, <1>5
<1> QED
  BY <1>1, <1>2, <1>3, <1>6, EndKeeps

\* A walk stops at a record with an impossible length.
LEMMA StopAtRecordKeeps ==
  ASSUME RecordsInv, ReadRecord, StopAtRecord(heads'[cursor]) PROVE RecordsInv'
<1> DEFINE report == <<[offset |-> cursor, ragged_tail |-> FALSE]>>
<1>1. /\ HeadsGrow /\ walk \in 1..3 /\ BodyLen - cursor >= HeaderSize
      /\ cursor \in DOMAIN heads'
  BY ReadingKeepsHeads
<1>2. EndWalk(cursor, report) /\ BadLength(heads'[cursor])
  BY DEF StopAtRecord
<1>3. BodyLen' = BodyLen /\ BodyLen \in Nat /\ cursor \in Nat
  BY <1>2, BodyIsNumber DEF BodyLen, HasSymbols, EndWalk, RecordsInv, WalkTypes
<1>5. /\ report = <<>> <=> cursor = BodyLen
      /\ report # <<>> => (report[1].ragged_tail <=> BodyLen - cursor < HeaderSize)
  <2>1. report # <<>> /\ ~report[1].ragged_tail
    OBVIOUS
  <2>2. ~(BodyLen - cursor < HeaderSize) /\ cursor # BodyLen
    BY <1>1, <1>3 DEF HeaderSize
  <2> QED
    BY <2>1, <2>2
<1> PICK p \in Nat : p = cursor
  BY <1>3
<1>4. NoRecordAt(p)'
  <2>1. heads'[p].rec_len < 2 \/ BodyLen - p - HeaderSize < heads'[p].rec_len - 2
    BY <1>2 DEF BadLength, Remaining
  <2> QED
    BY <1>1, <1>3, <2>1 DEF NoRecordAt
<1> HIDE DEF report
<1> QED
  BY <1>1, <1>2, <1>4, <1>5, EndKeeps

-----------------------------------------------------------------------------

\* A record that is visited lies inside the body, and the next after it.
LEMMA VisitedFits ==
  ASSUME RecordsInv, ReadRecord, VisitRecord(heads'[cursor])
  PROVE  /\ HeadsGrow /\ walk \in 1..3 /\ cursor \in DOMAIN heads' /\ cursor \in Nat
         /\ heads'[cursor].rec_len \in Nat /\ heads'[cursor].kind \in Kinds
         /\ heads'[cursor].rec_len >= 2
         /\ cursor' = cursor + 2 + heads'[cursor].rec_len /\ cursor' \in Nat
         /\ cursor < cursor' /\ cursor' <= BodyLen
         /\ BodyLen' = BodyLen /\ BodyLen \in Nat
<1>1. /\ HeadsGrow /\ walk \in 1..3 /\ BodyLen - cursor >= HeaderSize
      /\ cursor \in DOMAIN heads'
  BY ReadingKeepsHeads
<1>2. BodyLen' = BodyLen /\ BodyLen \in Nat /\ cursor \in Nat
  BY BodyIsNumber DEF VisitRecord, BodyLen, HasSymbols, RecordsInv, WalkTypes
<1>3. heads'[cursor].rec_len \in Nat /\ heads'[cursor].kind \in Kinds
  BY <1>1, HeadFields DEF HeadsGrow
<1>4. /\ ~(heads'[cursor].rec_len < 2)
      /\ ~(BodyLen - cursor - HeaderSize < heads'[cursor].rec_len - 2)
      /\ cursor' = cursor + HeaderSize + (heads'[cursor].rec_len - 2)
  BY DEF VisitRecord, BadLength, Remaining, Advance
<1> QED
  BY <1>1, <1>2, <1>3, <1>4 DEF HeaderSize

\* What is yielded next keeps a walk's account, if it is the next of the survey's.
LEMMA YieldKeeps ==
  ASSUME RecordsInv, ReadRecord, VisitRecord(heads'[cursor]), NEW w \in Names, w = Walk,
         Seen' = Seen \cup {cursor}, Position(w)' = cursor',
         \A p \in Seen : p <= cursor \/ cursor' <= p
  PROVE  Yields(w)'
<1> DEFINE head == heads'[cursor]
<1>1. /\ HeadsGrow /\ cursor \in Nat /\ cursor < cursor' /\ cursor' \in Nat
      /\ walk \in 1..3 /\ cursor \in DOMAIN heads' /\ head.kind \in Kinds
  BY VisitedFits
<1>2. Yields(w) /\ Position(w) = cursor
  BY <1>1, TheWalks DEF RecordsInv, Position
<1>3. yielded[w] \in Seq(Nat) /\ Range(yielded[w]) \subseteq Nat /\ raised[w] \in Nat
  <2>1. yielded[w] \in Seq(Nat) /\ raised[w] \in Nat
    BY DEF RecordsInv, WalkTypes
  <2> QED
    BY <2>1 DEF Range
<1>4. \A p \in Range(yielded[w]) : p < cursor /\ p \in Seen
  BY <1>2, <1>3 DEF Yields
<1>5. \A p \in Seen : p \in Nat /\ heads'[p] = heads[p]
  BY <1>1 DEF RecordsInv, WalkTypes, Spine, HeadsGrow
<1> DEFINE Dropped == {p \in Range(yielded[w]) : heads[p].short /\ heads[p].kind \in Parsed[w]}
<1>6. /\ IsFiniteSet(Dropped) /\ cursor \notin Dropped
      /\ Dropped = {p \in Range(yielded[w]) : heads'[p].short /\ heads'[p].kind \in Parsed[w]}
      /\ raised[w] = Cardinality(Dropped) /\ IsFiniteSet(Range(yielded[w]))
  <2>1. IsFiniteSet(Range(yielded[w])) /\ raised[w] = Cardinality(Dropped)
    BY <1>2 DEF Yields
  <2>2. IsFiniteSet(Dropped)
    BY <2>1, FS_Subset
  <2>3. cursor \notin Range(yielded[w])
    BY <1>1, <1>4
  <2> QED
    BY <2>1, <2>2, <2>3, <1>4, <1>5
<1>7. CASE head.kind \in Wanted[w]
  <2>1. /\ yielded' = [yielded EXCEPT ![w] = Append(@, cursor)]
        /\ raised' = [raised EXCEPT ![w] = @ + (IF Raises(head) THEN 1 ELSE 0)]
    BY <1>7 DEF VisitRecord
  <2>2. /\ yielded'[w] = Append(yielded[w], cursor)
        /\ raised'[w] = raised[w] + (IF Raises(head) THEN 1 ELSE 0)
    BY <2>1 DEF RecordsInv, WalkTypes
  <2>3. /\ Range(yielded'[w]) = Range(yielded[w]) \cup {cursor}
        /\ IsAscending(yielded'[w])
    <3>1. IsAscending(yielded[w]) /\ \A p \in Range(yielded[w]) : p < cursor
      BY <1>2, <1>4 DEF Yields, IsAscending
    <3> QED
      BY <2>2, <3>1, <1>1, <1>3, AppendOne
  <2>4. (\A p \in Nat : p \in Range(yielded[w]) <=>
           p \in Seen /\ p < Position(w) /\ heads[p].kind \in Wanted[w])'
    <3> SUFFICES ASSUME NEW p \in Nat
                 PROVE  p \in Range(yielded'[w]) <=>
                          p \in Seen' /\ p < cursor' /\ heads'[p].kind \in Wanted[w]
      OBVIOUS
    <3>1. CASE p = cursor
      BY <3>1, <2>3, <1>1, <1>7
    <3>2. CASE p # cursor
      <4>1. p \in Range(yielded[w]) <=>
              p \in Seen /\ p < cursor /\ heads[p].kind \in Wanted[w]
        BY <1>2 DEF Yields
      <4>2. p \in Seen => (p < cursor <=> p < cursor') /\ heads'[p] = heads[p]
        BY <3>2, <1>1, <1>5
      <4> QED
        BY <3>2, <4>1, <4>2, <2>3
    <3> QED
      BY <3>1, <3>2
  <2>5. IsFiniteSet(Range(yielded'[w]))
    BY <2>3, <1>6, FS_AddElement
  <2>6. raised'[w] =
          Cardinality({p \in Range(yielded'[w]) : heads'[p].short /\ heads'[p].kind \in Parsed[w]})
    <3> DEFINE Dropped2 == {p \in Range(yielded'[w]) :
                              heads'[p].short /\ heads'[p].kind \in Parsed[w]}
    <3>1. Raises(head) <=> head.short /\ head.kind \in Parsed[w]
      BY DEF Raises
    <3>2. CASE Raises(head)
      <4>1. Dropped2 = Dropped \cup {cursor}
        BY <3>1, <3>2, <2>3, <1>6
      <4>2. Cardinality(Dropped \cup {cursor}) = Cardinality(Dropped) + 1
        BY <1>6, FS_AddElement
      <4> QED
        BY <3>2, <4>1, <4>2, <2>2, <1>6
    <3>3. CASE ~Raises(head)
      <4>1. Dropped2 = Dropped
        BY <3>1, <3>3, <2>3, <1>6
      <4>2. raised'[w] = raised[w]
        BY <3>3, <2>2, <1>3
      <4> QED
        BY <4>1, <4>2, <1>6
    <3> QED
      BY <3>2, <3>3
  <2> QED
    BY <2>3, <2>4, <2>5, <2>6 DEF Yields, IsAscending
<1>8. CASE head.kind \notin Wanted[w]
  <2>1. yielded' = yielded /\ raised' = raised
    BY <1>8 DEF VisitRecord
  <2>2. (\A p \in Nat : p \in Range(yielded[w]) <=>
           p \in Seen /\ p < Position(w) /\ heads[p].kind \in Wanted[w])'
    <3> SUFFICES ASSUME NEW p \in Nat
                 PROVE  p \in Range(yielded[w]) <=>
                          p \in Seen' /\ p < cursor' /\ heads'[p].kind \in Wanted[w]
      BY <2>1
    <3>1. CASE p = cursor
      BY <3>1, <1>1, <1>4, <1>8
    <3>2. CASE p # cursor
      <4>1. p \in Range(yielded[w]) <=>
              p \in Seen /\ p < cursor /\ heads[p].kind \in Wanted[w]
        BY <1>2 DEF Yields
      <4>2. p \in Seen => (p < cursor <=> p < cursor') /\ heads'[p] = heads[p]
        BY <3>2, <1>1, <1>5
      <4> QED
        BY <3>2, <4>1, <4>2
    <3> QED
      BY <3>1, <3>2
  <2> QED
    BY <2>1, <2>2, <1>2, <1>6 DEF Yields
<1> QED
  BY <1>7, <1>8

\* The survey finds a record behind those it has found.
LEMMA SurveyKeeps ==
  ASSUME RecordsInv, ReadRecord, VisitRecord(heads'[cursor]), walk = 1
  PROVE  RecordsInv'
<1> DEFINE head == heads'[cursor]
           survey == yielded["survey"]
<1>1. /\ HeadsGrow /\ cursor \in DOMAIN heads' /\ cursor \in Nat
      /\ head.rec_len \in Nat /\ head.kind \in Kinds /\ head.rec_len >= 2
      /\ cursor' = cursor + 2 + head.rec_len /\ cursor' \in Nat
      /\ cursor < cursor' /\ cursor' <= BodyLen /\ BodyLen' = BodyLen /\ BodyLen \in Nat
  BY VisitedFits
<1>2. DOMAIN heads' = DOMAIN heads \cup {cursor}
  BY ReadingKeepsHeads
<1>3. Walk = "survey" /\ "survey" \in Names /\ Wanted["survey"] = Kinds
  BY TheWalks DEF Walk, Walks, Names, Wanted
<1>4. /\ yielded' = [yielded EXCEPT !["survey"] = Append(@, cursor)]
      /\ raised' = [raised EXCEPT !["survey"] = @ + (IF Raises(head) THEN 1 ELSE 0)]
      /\ UNCHANGED <<stream, walk, stopped, reports>>
  BY <1>1, <1>3 DEF VisitRecord
<1>5. survey \in Seq(Nat) /\ \A w \in Names : yielded[w] \in Seq(Nat) /\ raised[w] \in Nat
  BY <1>3 DEF RecordsInv, WalkTypes
<1>6. End = cursor /\ End' = cursor'
  BY <1>4 DEF End
<1>7. /\ Seen \subseteq Nat /\ IsAscending(survey)
      /\ \A p \in Seen : p < cursor
  BY <1>3, <1>6 DEF RecordsInv, WalkTypes, Spine, Yields, IsAscending
<1>8. yielded'["survey"] = Append(survey, cursor)
  BY <1>3, <1>4 DEF RecordsInv, WalkTypes
<1>9. Seen' = Seen \cup {cursor} /\ yielded'["survey"] \in Seq(Nat)
  BY <1>1, <1>5, <1>7, <1>8, AppendOne DEF Seen
<1>10. WalkTypes'
  <2>1. yielded' \in [Names -> Seq(Nat)]
    BY <1>1, <1>3, <1>4, <1>5 DEF RecordsInv, WalkTypes
  <2>2. raised' \in [Names -> Nat]
    BY <1>3, <1>4, <1>5 DEF RecordsInv, WalkTypes
  <2>3. cursor' \in 0..BodyLen
    BY <1>1
  <2> QED
    BY <1>1, <1>4, <2>1, <2>2, <2>3 DEF RecordsInv, WalkTypes, HeadsGrow, Done
<1>11. \A p \in Seen : heads'[p] = heads[p] /\ NextOf(p)' = NextOf(p)
  BY <1>1 DEF RecordsInv, Spine, HeadsGrow, NextOf
<1>13. Spine'
  <2>1. /\ Seen \subseteq DOMAIN heads /\ DOMAIN heads = Seen /\ 0 \in Seen \cup {cursor}
        /\ \A p \in Seen :
             /\ heads[p].rec_len >= 2 /\ NextOf(p) <= BodyLen
             /\ p < cursor /\ NextOf(p) \in Seen \cup {cursor}
             /\ \A q \in Seen \cup {cursor} : q <= p \/ NextOf(p) <= q
    BY <1>6 DEF RecordsInv, Spine
  <2>2. ASSUME NEW p \in Seen'
        PROVE  /\ heads'[p].rec_len >= 2 /\ p + 2 + heads'[p].rec_len <= BodyLen
               /\ p < cursor' /\ p + 2 + heads'[p].rec_len \in Seen' \cup {cursor'}
               /\ \A q \in Seen' \cup {cursor'} : q <= p \/ p + 2 + heads'[p].rec_len <= q
    <3>1. CASE p = cursor
      <4>1. ASSUME NEW q \in Seen' \cup {cursor'} PROVE q <= cursor \/ cursor' <= q
        <5>1. q \in Seen \/ q = cursor \/ q = cursor'
          BY <1>9
        <5>2. q \in Seen => q \in Nat /\ q < cursor
          BY <1>7
        <5> QED
          BY <5>1, <5>2, <1>1
      <4> QED
        BY <3>1, <4>1, <1>1
    <3>2. CASE p \in Seen
      <4>1. /\ heads'[p] = heads[p] /\ NextOf(p) = p + 2 + heads'[p].rec_len
            /\ p \in Nat /\ NextOf(p) <= cursor /\ p < cursor
        <5>1. NextOf(p) \in Seen \cup {cursor} /\ p < cursor
          BY <3>2, <2>1
        <5>2. NextOf(p) <= cursor /\ p \in Nat
          <6> DEFINE x == NextOf(p)
          <6>1. x \in Seen => x \in Nat /\ x < cursor
            BY <1>7
          <6> HIDE DEF x
          <6>2. x <= cursor
            BY <6>1, <5>1, <1>1 DEF x
          <6> QED
            BY <6>2, <3>2, <1>7 DEF x
        <5>3. heads'[p] = heads[p]
          BY <3>2, <1>11
        <5> QED
          BY <5>1, <5>2, <5>3 DEF NextOf
      <4>2. NextOf(p) \in Nat
        BY <3>2, <2>1, <1>1, <1>7
      <4>3. ASSUME NEW q \in Seen' \cup {cursor'} PROVE q <= p \/ NextOf(p) <= q
        BY <3>2, <4>1, <4>2, <2>1, <1>1, <1>9
      <4> QED
        BY <3>2, <4>1, <4>3, <2>1, <1>1, <1>9
    <3> QED
      BY <3>1, <3>2, <1>9
  <2> QED
    BY <2>1, <2>2, <1>1, <1>2, <1>6, <1>9 DEF Spine, NextOf
<1>14. RecordsInOrder'
  <2> DEFINE m == Len(survey)
             s == Append(survey, cursor)
             t == Append(s, cursor')
  <2>1. m \in Nat /\ s \in Seq(Nat) /\ Len(s) = m + 1 /\ Len(t) = m + 2
    BY <1>1, <1>5
  <2>2. /\ \A i \in 1..m + 1 : t[i] = s[i]
        /\ t[m + 2] = cursor' /\ s[m + 1] = cursor
    BY <1>1, <1>5, <2>1
  <2>3. \A i \in 1..m : s[i] \in Seen
    BY <1>5 DEF Seen, Range
  <2>4. s[1] = 0 /\ \A i \in 2..m + 1 : s[i] = s[i - 1] + 2 + heads[s[i - 1]].rec_len
    BY <1>6, <2>1 DEF RecordsInv, RecordsInOrder
  <2> HIDE DEF m, s, t
  <2>5. t[1] = 0
    BY <2>1, <2>2, <2>4
  <2>6. ASSUME NEW i \in 2..m + 2
        PROVE  t[i] = t[i - 1] + 2 + heads'[t[i - 1]].rec_len
    <3>1. i - 1 \in 1..m + 1 /\ (i \in 2..m + 1 \/ i = m + 2)
      BY <2>1
    <3>2. CASE i \in 2..m + 1
      <4>1. i - 1 \in 1..m /\ i \in 1..m + 1
        BY <3>2, <2>1
      <4>2. heads'[s[i - 1]] = heads[s[i - 1]]
        BY <4>1, <2>3, <1>11
      <4> QED
        BY <3>1, <3>2, <4>1, <4>2, <2>2, <2>4
    <3>3. CASE i = m + 2
      <4>1. i - 1 = m + 1
        BY <3>3, <2>1
      <4>2. t[i - 1] = cursor /\ t[i] = cursor'
        BY <3>1, <3>3, <4>1, <2>2
      <4> QED
        BY <4>2, <1>1
    <3> QED
      BY <3>1, <3>2, <3>3
  <2> QED
    BY <2>1, <2>5, <2>6, <1>6, <1>8 DEF RecordsInOrder, s, t, m
<1>15. Stopped' /\ InStep'
  <2>1. walk' = 1 /\ \A w \in Names : ~(Turn[w] < 1)
    BY <1>4, TheWalks
  <2> QED
    BY <2>1, <1>6 DEF Stopped, InStep
<1>16. ASSUME NEW w \in Names PROVE Yields(w)'
  <2>1. CASE w = "survey"
    <3>1. Position(w)' = cursor'
      BY <2>1, <1>4 DEF Position, Turn
    <3>2. ASSUME NEW q \in Seen PROVE q <= cursor \/ cursor' <= q
      <4>1. q \in Nat /\ q < cursor
        BY <1>7
      <4> QED
        BY <1>1, <4>1
    <3> QED
      BY <2>1, <3>1, <3>2, <1>3, <1>9, YieldKeeps
  <2>2. CASE w # "survey"
    <3>1. Turn[w] > 1 /\ Turn[w] \in Nat
      BY <2>2 DEF Names, Turn
    <3>2. Position(w) = 0 /\ Position(w)' = 0
      BY <3>1, <1>4 DEF Position
    <3>3. /\ \A p \in Nat : p \notin Range(yielded[w])
          /\ raised[w] = Cardinality({p \in Range(yielded[w]) :
                                        heads[p].short /\ heads[p].kind \in Parsed[w]})
      BY <3>2 DEF RecordsInv, Yields
    <3>4. Range(yielded[w]) = {}
      <4>1. Range(yielded[w]) \subseteq Nat
        BY <1>5 DEF Range
      <4> QED
        BY <4>1, <3>3
    <3>5. yielded'[w] = yielded[w] /\ raised'[w] = raised[w]
      BY <2>2, <1>4 DEF RecordsInv, WalkTypes
    <3>6. (\A p \in Nat : p \in Range(yielded[w]) <=>
             p \in Seen /\ p < Position(w) /\ heads[p].kind \in Wanted[w])'
      BY <3>2, <3>4, <3>5
    <3>7. raised'[w] = Cardinality({p \in Range(yielded'[w]) :
                                      heads'[p].short /\ heads'[p].kind \in Parsed[w]})
      <4>1. /\ {p \in Range(yielded[w]) : heads[p].short /\ heads[p].kind \in Parsed[w]} = {}
            /\ {p \in Range(yielded'[w]) : heads'[p].short /\ heads'[p].kind \in Parsed[w]} = {}
        BY <3>4, <3>5
      <4> QED
        BY <3>3, <3>5, <4>1
    <3>8. /\ IsFiniteSet(Range(yielded'[w]))
          /\ \A i, j \in DOMAIN yielded'[w] : i < j => yielded'[w][i] < yielded'[w][j]
      BY <3>5 DEF RecordsInv, Yields
    <3> QED
      BY <3>6, <3>7, <3>8 DEF Yields
  <2> QED
    BY <2>1, <2>2
<1> QED
  BY <1>10, <1>13, <1>14, <1>15, <1>16 DEF RecordsInv

\* A later walk goes on to the survey's next record.
LEMMA FollowerKeeps ==
  ASSUME RecordsInv, ReadRecord, VisitRecord(heads'[cursor]), walk # 1
  PROVE  RecordsInv'
<1> DEFINE head == heads'[cursor]
<1>1. /\ HeadsGrow /\ cursor \in DOMAIN heads' /\ cursor \in Nat /\ walk \in 1..3
      /\ head.rec_len \in Nat /\ head.kind \in Kinds /\ head.rec_len >= 2
      /\ cursor' = cursor + 2 + head.rec_len /\ cursor' \in Nat
      /\ cursor < cursor' /\ cursor' <= BodyLen /\ BodyLen' = BodyLen /\ BodyLen \in Nat
  BY VisitedFits
<1>2. UNCHANGED <<stream, walk, stopped, reports>> /\ End' = End
  BY DEF VisitRecord, End
<1>3. cursor \in Seen
  <2>1. cursor \in Seen \cup {End}
    BY <1>1 DEF RecordsInv, InStep
  <2>2. ASSUME cursor = End PROVE FALSE
    <3>1. BodyLen - cursor >= 4
      BY ReadingKeepsHeads DEF HeaderSize
    <3>2. /\ cursor \in DOMAIN heads
          /\ heads[cursor].rec_len < 2 \/ BodyLen - cursor - 4 < heads[cursor].rec_len - 2
      BY <1>1, <2>2, <3>1 DEF RecordsInv, Stopped, NoRecordAt, HeaderSize
    <3>3. heads[cursor] = head
      BY <1>1, <3>2 DEF HeadsGrow
    <3> QED
      BY <1>1, <3>1, <3>2, <3>3
  <2> QED
    BY <2>1, <2>2
<1>4. /\ Walk \in Names /\ Walk # "survey"
      /\ \A w \in Names : Turn[w] \in 1..3 /\ (Turn[w] = walk <=> w = Walk)
  BY <1>1, TheWalks DEF Names, Turn
<1>5. /\ \A w \in Names : yielded'[w] \in Seq(Nat) /\ raised'[w] \in Nat
      /\ \A w \in Names \ {Walk} : yielded'[w] = yielded[w] /\ raised'[w] = raised[w]
      /\ DOMAIN yielded' = Names /\ DOMAIN raised' = Names
      /\ yielded' \in [Names -> Seq(Nat)] /\ raised' \in [Names -> Nat]
  <2>1. /\ yielded[Walk] \in Seq(Nat) /\ raised[Walk] \in Nat
        /\ Append(yielded[Walk], cursor) \in Seq(Nat)
        /\ raised[Walk] + (IF Raises(head) THEN 1 ELSE 0) \in Nat
    BY <1>1, <1>4 DEF RecordsInv, WalkTypes
  <2>2. \/ /\ yielded' = [yielded EXCEPT ![Walk] = Append(@, cursor)]
           /\ raised' = [raised EXCEPT ![Walk] = @ + (IF Raises(head) THEN 1 ELSE 0)]
        \/ yielded' = yielded /\ raised' = raised
    BY DEF VisitRecord
  <2>3. yielded' \in [Names -> Seq(Nat)] /\ raised' \in [Names -> Nat]
    <3>1. yielded \in [Names -> Seq(Nat)] /\ raised \in [Names -> Nat]
      BY DEF RecordsInv, WalkTypes
    <3>2. yielded' \in [Names -> Seq(Nat)]
      BY <2>1, <2>2, <3>1
    <3>3. raised' \in [Names -> Nat]
      BY <2>1, <2>2, <3>1
    <3> QED
      BY <3>2, <3>3
  <2>4. \A w \in Names \ {Walk} : yielded'[w] = yielded[w] /\ raised'[w] = raised[w]
    BY <2>2 DEF RecordsInv, WalkTypes
  <2> QED
    BY <2>3, <2>4
<1>6. yielded'["survey"] = yielded["survey"] /\ Seen' = Seen
  BY <1>4, <1>5 DEF Seen, Names
<1>7. \A p \in Seen : heads'[p] = heads[p] /\ NextOf(p)' = NextOf(p)
  BY <1>1 DEF RecordsInv, Spine, HeadsGrow, NextOf
<1>8. cursor' = NextOf(cursor)
  BY <1>1, <1>3, <1>7 DEF NextOf
<1>9. WalkTypes'
  BY <1>1, <1>2, <1>5 DEF RecordsInv, WalkTypes, HeadsGrow, Done
<1>10. Spine'
  <2>1. Seen \subseteq DOMAIN heads'
    BY <1>1 DEF RecordsInv, Spine, HeadsGrow
  <2> QED
    BY <1>1, <1>2, <1>6, <1>7, <2>1 DEF RecordsInv, Spine
<1>11. RecordsInOrder'
  <2> DEFINE offsets == Append(yielded["survey"], End)
             m == Len(yielded["survey"])
  <2>1. /\ yielded["survey"] \in Seq(Nat) /\ m \in Nat /\ Len(offsets) = m + 1
        /\ \A i \in 2..m + 1 : offsets[i - 1] = yielded["survey"][i - 1] /\ i - 1 \in 1..m
    <3>1. yielded["survey"] \in Seq(Nat)
      BY DEF RecordsInv, WalkTypes, Names
    <3> QED
      BY <3>1
  <2>2. \A i \in 2..m + 1 : offsets[i - 1] \in Seen
    BY <2>1 DEF Seen, Range
  <2> HIDE DEF offsets, m
  <2>3. /\ offsets[1] = 0
        /\ \A i \in 2..m + 1 : offsets[i] = offsets[i - 1] + 2 + heads'[offsets[i - 1]].rec_len
    BY <2>1, <2>2, <1>7 DEF RecordsInv, RecordsInOrder, offsets
  <2>4. offsets' = offsets
    BY <1>2, <1>6 DEF offsets
  <2> QED
    BY <2>1, <2>3, <2>4 DEF RecordsInOrder, offsets
<1>12. Stopped'
  <2>1. NoRecordAt(End)'
    BY <1>1, <1>2 DEF RecordsInv, Stopped, NoRecordAt, HeadsGrow
  <2> QED
    BY <2>1, <1>1, <1>2 DEF RecordsInv, Stopped
<1>13. InStep'
  <2>1. cursor' \in Seen \cup {End}
    BY <1>3, <1>8 DEF RecordsInv, Spine
  <2> QED
    BY <2>1, <1>2, <1>6 DEF RecordsInv, InStep
<1>14. ASSUME NEW w \in Names PROVE Yields(w)'
  <2>1. CASE w = Walk
    <3>1. Position(w)' = cursor'
      BY <2>1, <1>2, <1>4 DEF Position
    <3>2. \A p \in Seen : p <= cursor \/ cursor' <= p
      <4> SUFFICES ASSUME NEW p \in Seen PROVE p <= cursor \/ cursor' <= p
        OBVIOUS
      <4>1. p <= cursor \/ NextOf(cursor) <= p
        BY <1>3 DEF RecordsInv, Spine
      <4> QED
        BY <4>1, <1>8
    <3>3. Seen' = Seen \cup {cursor}
      BY <1>3, <1>6
    <3> QED
      BY <2>1, <3>1, <3>2, <3>3, YieldKeeps
  <2>2. CASE w # Walk
    <3>1. Position(w)' = Position(w)
      BY <2>2, <1>2, <1>4 DEF Position
    <3>2. yielded'[w] = yielded[w] /\ raised'[w] = raised[w]
      BY <2>2, <1>5
    <3> QED
      BY <3>1, <3>2, <1>1, <1>6, YieldsSame
  <2> QED
    BY <2>1, <2>2
<1> QED
  BY <1>9, <1>10, <1>11, <1>12, <1>13, <1>14 DEF RecordsInv

-----------------------------------------------------------------------------

\* The invariant holds at first, and every step keeps it.
LEMMA RecordsInvInit == RecordsInit => RecordsInv
<1> SUFFICES ASSUME RecordsInit PROVE RecordsInv
  OBVIOUS
<1>1. /\ stream \in Streams /\ heads = <<>> /\ walk = 1 /\ cursor = 0
      /\ yielded = [w \in Names |-> <<>>] /\ raised = [w \in Names |-> 0]
      /\ stopped = [w \in Names |-> -1] /\ reports = [w \in Names |-> <<>>]
  BY TheWalks DEF RecordsInit, Empty
<1>2. DOMAIN heads = {} /\ BodyLen \in Nat
  BY <1>1, BodyIsNumber
<1>3. \A w \in Names : yielded[w] = <<>> /\ Range(yielded[w]) = {} /\ DOMAIN yielded[w] = {}
  BY <1>1 DEF Range
<1>4. Seen = {} /\ End = 0
  BY <1>1, <1>3 DEF Seen, End, Names
<1>5. WalkTypes
  BY <1>1, <1>2, TheWalks DEF WalkTypes, Done
<1>6. Spine
  BY <1>1, <1>2, <1>4 DEF Spine
<1>7. RecordsInOrder
  BY <1>1, <1>4 DEF RecordsInOrder, Names
<1>8. Stopped /\ InStep
  BY <1>1, <1>4, TheWalks DEF Stopped, InStep
<1>9. ASSUME NEW w \in Names PROVE Yields(w)
  <2>1. {p \in Range(yielded[w]) : heads[p].short /\ heads[p].kind \in Parsed[w]} = {}
    BY <1>3
  <2>2. IsFiniteSet({}) /\ Cardinality({}) = 0
    BY FS_EmptySet
  <2>3. raised[w] = 0
    BY <1>1
  <2> QED
    BY <1>3, <1>4, <2>1, <2>2, <2>3 DEF Yields
<1> QED
  BY <1>5, <1>6, <1>7, <1>8, <1>9 DEF RecordsInv

LEMMA RecordsInvNext == RecordsInv /\ [RecordsNext]_recordVars => RecordsInv'
<1> SUFFICES ASSUME RecordsInv, [RecordsNext]_recordVars PROVE RecordsInv'
  OBVIOUS
<1>1. CASE UNCHANGED recordVars
  <2>1. /\ UNCHANGED <<stream, heads, walk, cursor, yielded, raised, stopped, reports>>
        /\ BodyLen' = BodyLen /\ Seen' = Seen /\ End' = End
    BY <1>1 DEF recordVars, BodyLen, HasSymbols, Seen, End
  <2>2. WalkTypes'
    BY <2>1 DEF RecordsInv, WalkTypes, Done
  <2>3. Spine'
    BY <2>1 DEF RecordsInv, Spine, NextOf
  <2>4. RecordsInOrder'
    BY <2>1 DEF RecordsInv, RecordsInOrder
  <2>5. Stopped' /\ InStep'
    BY <2>1 DEF RecordsInv, Stopped, InStep, NoRecordAt
  <2>6. ASSUME NEW w \in Names PROVE Yields(w)'
    <3>1. HeadsGrow /\ Position(w)' = Position(w)
      BY <2>1 DEF HeadsGrow, Position, RecordsInv, WalkTypes
    <3> QED
      BY <2>1, <3>1, YieldsSame
  <2> QED
    BY <2>2, <2>3, <2>4, <2>5, <2>6 DEF RecordsInv
<1>2. CASE EndOfBuffer
  BY <1>2, EndOfBufferKeeps
<1>3. CASE ReadRecord
  <2>1. StopAtRecord(heads'[cursor]) \/ VisitRecord(heads'[cursor])
    BY <1>3, ReadingKeepsHeads
  <2> QED
    BY <1>3, <2>1, StopAtRecordKeeps, SurveyKeeps, FollowerKeeps
<1> QED
  BY <1>1, <1>2, <1>3 DEF RecordsNext

(***************************************************************************)
(* Whatever filter a walk has, it stops where the survey stopped and has   *)
(* yielded the survey's records of its kinds in their order; the survey's  *)
(* records lie end to end, and what lies behind them is reported.          *)
(***************************************************************************)
THEOREM WalksStayInSync == RecordsSpec => []EveryRecordSeen
<1>1. RecordsInv => EveryRecordSeen
  <2> SUFFICES ASSUME RecordsInv PROVE FilterChangesNothing /\ EveryByteAccounted
    BY DEF EveryRecordSeen
  <2>1. ASSUME NEW w \in Names, Done(w)
        PROVE  /\ stopped[w] = stopped["survey"]
               /\ Range(yielded[w]) =
                    {p \in Range(yielded["survey"]) : heads[p].kind \in Wanted[w]}
               /\ \A i, j \in DOMAIN yielded[w] : i < j => yielded[w][i] < yielded[w][j]
    <3>1. Turn[w] < walk /\ walk > 1
      <4>1. Turn[w] \in 1..3 /\ Turn[w] < walk /\ walk \in 1..4
        BY <2>1, TheWalks DEF RecordsInv, WalkTypes
      <4> QED
        BY <4>1
    <3>2. End = stopped["survey"] /\ stopped[w] = End /\ Position(w) = End
      BY <3>1 DEF End, Position, RecordsInv, InStep
    <3>3. /\ yielded[w] \in Seq(Nat) /\ Range(yielded[w]) \subseteq Nat /\ Seen \subseteq Nat
      <4>1. yielded[w] \in Seq(Nat)
        BY DEF RecordsInv, WalkTypes
      <4>2. Seen \subseteq Nat
        BY DEF RecordsInv, WalkTypes, Spine
      <4> QED
        BY <4>1, <4>2 DEF Range
    <3>4. \A p \in Nat : p \in Range(yielded[w]) <=>
            p \in Seen /\ p < End /\ heads[p].kind \in Wanted[w]
      BY <3>2 DEF RecordsInv, Yields
    <3>5. \A p \in Seen : p < End
      BY DEF RecordsInv, Spine
    <3>6. Range(yielded[w]) = {p \in Seen : heads[p].kind \in Wanted[w]}
      BY <3>3, <3>4, <3>5
    <3>7. \A i, j \in DOMAIN yielded[w] : i < j => yielded[w][i] < yielded[w][j]
      BY DEF RecordsInv, Yields
    <3> QED
      BY <3>2, <3>6, <3>7 DEF Seen
  <2>2. FilterChangesNothing
    BY <2>1, TheWalks DEF FilterChangesNothing
  <2>3. ASSUME Done("survey") PROVE End = stopped["survey"] /\ walk > 1
    BY <2>3 DEF RecordsInv, WalkTypes, Names, Turn, End
  <2>4. EveryByteAccounted
    BY <2>3 DEF RecordsInv, RecordsInOrder, Stopped, EveryByteAccounted
  <2> QED
    BY <2>2, <2>4
<1> QED
  BY <1>1, RecordsInvInit, RecordsInvNext, PTL DEF RecordsSpec

(***************************************************************************)
(* diagnose()'s malformed_records counts every record that a listing drops *)
(* once: the survey and the walk of the sites share the kinds out.         *)
(***************************************************************************)
THEOREM DropsAreCountedOnce == RecordsSpec => []EveryDropCounted
<1>1. RecordsInv => EveryDropCounted
  <2> SUFFICES ASSUME RecordsInv, Done("sites")
               PROVE  raised["survey"] + raised["sites"] =
                        Cardinality({p \in Seen : heads[p].short /\ heads[p].kind \in DispatchedKinds})
    BY DEF EveryDropCounted, Seen
  <2> DEFINE Dropped(w) == {p \in Range(yielded[w]) : heads[p].short /\ heads[p].kind \in Parsed[w]}
             All == {p \in Seen : heads[p].short /\ heads[p].kind \in DispatchedKinds}
  <2>1. /\ "survey" \in Names /\ "sites" \in Names /\ walk > 2
        /\ Parsed["survey"] = DispatchedKinds \ InlineSiteKinds /\ Parsed["sites"] = InlineSiteKinds
        /\ Wanted["sites"] = InlineSiteKinds /\ InlineSiteKinds \subseteq DispatchedKinds
    BY DEF RecordsInv, WalkTypes, Names, Turn, Parsed, Wanted, DispatchedKinds, InlineSiteKinds, Kinds
  <2>2. \A w \in {"survey", "sites"} : raised[w] = Cardinality(Dropped(w)) /\ IsFiniteSet(Dropped(w))
    <3> SUFFICES ASSUME NEW w \in {"survey", "sites"}
                 PROVE  raised[w] = Cardinality(Dropped(w)) /\ IsFiniteSet(Dropped(w))
      OBVIOUS
    <3>1. IsFiniteSet(Range(yielded[w])) /\ raised[w] = Cardinality(Dropped(w))
      BY <2>1 DEF RecordsInv, Yields
    <3> QED
      BY <3>1, FS_Subset
  <2>3. Range(yielded["sites"]) = {p \in Seen : heads[p].kind \in InlineSiteKinds}
    <3>1. Position("sites") = End
      BY <2>1 DEF Position, Turn, RecordsInv, InStep
    <3>2. \A p \in Nat : p \in Range(yielded["sites"]) <=>
            p \in Seen /\ p < End /\ heads[p].kind \in InlineSiteKinds
      BY <2>1, <3>1 DEF RecordsInv, Yields
    <3>3. /\ \A p \in Seen : p < End /\ p \in Nat
          /\ yielded["sites"] \in Seq(Nat)
      BY <2>1 DEF RecordsInv, WalkTypes, Spine
    <3>4. Range(yielded["sites"]) \subseteq Nat
      BY <3>3 DEF Range
    <3> QED
      BY <3>2, <3>3, <3>4
  <2>4. /\ Dropped("survey") = {p \in All : heads[p].kind \notin InlineSiteKinds}
        /\ Dropped("sites") = {p \in All : heads[p].kind \in InlineSiteKinds}
    BY <2>1, <2>3 DEF Seen
  <2>5. /\ All = Dropped("survey") \cup Dropped("sites")
        /\ Dropped("survey") \cap Dropped("sites") = {}
    BY <2>4
  <2> HIDE DEF Dropped, All
  <2>6. Cardinality(All) = Cardinality(Dropped("survey")) + Cardinality(Dropped("sites"))
    <3>1. Cardinality(Dropped("survey") \cap Dropped("sites")) = 0
      BY <2>5, FS_EmptySet
    <3>2. \A w \in {"survey", "sites"} : Cardinality(Dropped(w)) \in Nat
      BY <2>2, FS_CardinalityType
    <3>3. Cardinality(Dropped("survey") \cup Dropped("sites")) =
            Cardinality(Dropped("survey")) + Cardinality(Dropped("sites")) - 0
      BY <2>2, <3>1, FS_Union
    <3> QED
      BY <2>5, <3>2, <3>3
  <2> QED
    BY <2>2, <2>6 DEF All
<1> QED
  BY <1>1, RecordsInvInit, RecordsInvNext, PTL DEF RecordsSpec

-----------------------------------------------------------------------------
(* C13 line info                                                           *)

SubsectionsFound == [kind : {"lines", "checksums", "ignored", "other"}, at : Nat, length : Nat]
BlocksRead == [at : Nat, lines : Nat, columns : {"none", "some"}]

LineInfoTypeOK ==
  /\ phase \in {"subsections", "checksums", "lines", "done"}
  /\ pos \in Nat /\ sub \in Nat \ {0}
  /\ columns \in {"unread", "none", "some"}
  /\ subs \in Seq(SubsectionsFound)
  /\ blocks \in Seq(BlocksRead)

\* The subsections follow each other, the last one found behind the cursor.
SubsectionsApart ==
  /\ \A i, j \in 1..Len(subs) : i < j => subs[i].at + subs[i].length <= subs[j].at
  /\ phase = "subsections" => \A i \in 1..Len(subs) : subs[i].at + subs[i].length <= pos

\* Block b lies in subsection s, past the fragment header.
LiesIn(b, s) ==
  /\ s.kind = "lines"
  /\ s.at + FragmentHeader <= b.at
  /\ BlockEnd(b) <= s.at + s.length

\* A block read so far lies in a subsection no later than this one, and in
\* this one behind the cursor.
BehindTheCursor(b) ==
  \E g \in 1..Len(subs) :
    /\ LiesIn(b, subs[g])
    /\ phase = "lines" => g <= sub /\ (g = sub => BlockEnd(b) <= subs[g].at + pos)

\* Blocks lie in their subsections, each behind the one before.
BlocksApart ==
  /\ phase \in {"subsections", "checksums"} => blocks = <<>>
  /\ phase = "lines" => (IF columns = "unread" THEN pos = 0 ELSE pos >= FragmentHeader)
  /\ \A i \in 1..Len(blocks) : BehindTheCursor(blocks[i])
  /\ \A i, j \in 1..Len(blocks) : i < j => BlockEnd(blocks[i]) <= blocks[j].at

\* The inductive invariant of reading a C13 region.
LineInfoInv == LineInfoTypeOK /\ SubsectionsApart /\ BlocksApart

\* Alignment never goes back.
LEMMA AlignedIsPast ==
  ASSUME NEW p \in Nat
  PROVE  Aligned(p) \in Nat /\ p <= Aligned(p)
<1>1. (-p) % 4 \in 0..3
  BY Z3
<1> QED
  BY <1>1 DEF Aligned

\* Where a block ends is a number past its header.
LEMMA BlockLength ==
  ASSUME NEW b \in BlocksRead
  PROVE  BlockEnd(b) \in Nat /\ b.at + BlockHeader <= BlockEnd(b)
<1> DEFINE size == LineSize + IF b.columns = "some" THEN ColumnSize ELSE 0
<1>1. b.at \in Nat /\ b.lines \in Nat /\ size \in Nat
  BY DEF BlocksRead, LineSize, ColumnSize
<1>2. BlockEnd(b) = b.at + BlockHeader + b.lines * size
  BY DEF BlockEnd
<1> HIDE DEF size
<1>3. b.lines * size \in Nat
  BY <1>1
<1> QED
  BY <1>1, <1>2, <1>3 DEF BlockHeader

\* Blocks read before a later one of this subsection end before it.
LEMMA EarlierBlocksEnd ==
  ASSUME LineInfoInv, phase = "lines", sub <= Len(subs), NEW i \in 1..Len(blocks)
  PROVE  BlockEnd(blocks[i]) <= Here.at + pos
<1>1. PICK g \in 1..Len(subs) :
        /\ LiesIn(blocks[i], subs[g])
        /\ g <= sub /\ (g = sub => BlockEnd(blocks[i]) <= subs[g].at + pos)
  BY DEF LineInfoInv, BlocksApart, BehindTheCursor
<1>2. /\ subs[g] \in SubsectionsFound /\ subs[sub] \in SubsectionsFound /\ blocks[i] \in BlocksRead
      /\ sub \in 1..Len(subs) /\ pos \in Nat
  BY DEF LineInfoInv, LineInfoTypeOK
<1>3. /\ BlockEnd(blocks[i]) \in Nat /\ subs[g].at + subs[g].length \in Nat
      /\ subs[sub].at \in Nat
  <2>1. BlockEnd(blocks[i]) \in Nat
    BY <1>2, BlockLength
  <2>2. \A s \in SubsectionsFound : s.at \in Nat /\ s.at + s.length \in Nat
    BY DEF SubsectionsFound
  <2>3. subs[g].at + subs[g].length \in Nat /\ subs[sub].at \in Nat
    BY <1>2, <2>2, Zenon
  <2> QED
    BY <2>1, <2>3, Zenon
<1>4. CASE g = sub
  BY <1>1, <1>4 DEF Here
<1>5. CASE g # sub
  <2>1. g < sub
    BY <1>1, <1>2, <1>5
  <2>2. subs[g].at + subs[g].length <= subs[sub].at
    BY <1>2, <2>1 DEF LineInfoInv, SubsectionsApart
  <2>3. BlockEnd(blocks[i]) <= subs[g].at + subs[g].length
    BY <1>1 DEF LiesIn
  <2> QED
    BY <1>2, <1>3, <2>2, <2>3 DEF Here
<1> QED
  BY <1>4, <1>5

\* The invariant holds at first, and every action keeps it.
LEMMA LineInfoInvAtFirst == LineInfoInit => LineInfoInv
BY DEF LineInfoInit, LineInfoInv, LineInfoTypeOK, SubsectionsApart, BlocksApart

LEMMA ReadSubsectionKeepsIt ==
  ASSUME LineInfoInv, ReadSubsection
  PROVE  LineInfoInv'
<1> DEFINE start == pos + SubsectionHeader
<1>0. /\ LineInfoTypeOK /\ SubsectionsApart /\ blocks = <<>> /\ blocks' = blocks
      /\ phase = "subsections" /\ sub' = sub /\ columns' = columns
  BY DEF LineInfoInv, BlocksApart, ReadSubsection, EndSubsections
<1>1. PICK s \in Subsections :
        IF s.length > len - start THEN EndSubsections
        ELSE /\ subs' = IF s.kind = "ignored" THEN subs
                        ELSE Append(subs, [kind |-> s.kind, at |-> start, length |-> s.length])
             /\ pos' = EndOf(s, start)
             /\ phase' = phase
  BY DEF ReadSubsection
<1>2. CASE s.length > len - start
  BY <1>0, <1>1, <1>2
  DEF EndSubsections, LineInfoInv, LineInfoTypeOK, SubsectionsApart, BlocksApart
<1>3. CASE ~(s.length > len - start)
  <2> DEFINE new == [kind |-> s.kind, at |-> start, length |-> s.length]
  <2>1. new \in SubsectionsFound /\ new.at = start /\ new.length = s.length
    BY <1>0, SubsectionsAssumption DEF SubsectionsFound, LineInfoTypeOK, SubsectionHeader
  <2>2. pos' \in Nat /\ start + s.length <= pos' /\ pos <= start /\ start \in Nat /\ s.length \in Nat
    <3>1. pos \in Nat /\ start \in Nat /\ pos <= start /\ s.length \in Nat
      BY <1>0, SubsectionsAssumption DEF LineInfoTypeOK, SubsectionHeader
    <3>2. pos' = Aligned(start + s.length)
      BY <1>1, <1>3 DEF EndOf
    <3> HIDE DEF start
    <3> QED
      BY <3>1, <3>2, AlignedIsPast
  <2> HIDE DEF new, start
  <2>3. subs' = subs \/ subs' = Append(subs, new)
    BY <1>1, <1>3 DEF new
  <2>4. /\ subs \in Seq(SubsectionsFound)
        /\ \A i \in 1..Len(subs) : subs[i].at + subs[i].length <= pos /\ subs[i].at + subs[i].length \in Nat
    <3>1. subs \in Seq(SubsectionsFound)
      BY <1>0 DEF LineInfoTypeOK
    <3>2. \A i \in 1..Len(subs) : subs[i] \in SubsectionsFound
      BY <3>1
    <3>3. \A i \in 1..Len(subs) : subs[i].at + subs[i].length \in Nat
      BY <3>2 DEF SubsectionsFound
    <3> QED
      BY <1>0, <3>1, <3>3 DEF SubsectionsApart
  <2>5. CASE subs' = subs
    BY <1>0, <1>1, <1>3, <2>2, <2>4, <2>5
    DEF LineInfoInv, LineInfoTypeOK, SubsectionsApart, BlocksApart
  <2>6. CASE subs' = Append(subs, new)
    <3>1. /\ subs' \in Seq(SubsectionsFound) /\ Len(subs') = Len(subs) + 1
          /\ \A i \in 1..Len(subs) : subs'[i] = subs[i]
          /\ subs'[Len(subs) + 1] = new
      BY <2>1, <2>4, <2>6, AppendProperties
    <3>2. \A i \in 1..Len(subs') : i = Len(subs) + 1 \/ i \in 1..Len(subs)
      BY <2>4, <3>1
    <3>3. \A i \in 1..Len(subs') : subs'[i].at + subs'[i].length <= pos'
      <4>1. new.at + new.length <= pos'
        BY <2>1, <2>2
      <4>2. ASSUME NEW i \in 1..Len(subs)
            PROVE  subs'[i].at + subs'[i].length <= pos'
        <5>1. pos \in Nat /\ pos <= pos'
          BY <1>0, <2>2 DEF LineInfoTypeOK
        <5> QED
          BY <2>2, <2>4, <3>1, <5>1
      <4> QED
        BY <3>1, <3>2, <4>1, <4>2
    <3>4. ASSUME NEW i \in 1..Len(subs'), NEW j \in 1..Len(subs'), i < j
          PROVE  subs'[i].at + subs'[i].length <= subs'[j].at
      <4>1. i \in 1..Len(subs)
        BY <2>4, <3>1, <3>4
      <4>2. CASE j \in 1..Len(subs)
        BY <1>0, <3>1, <3>4, <4>1, <4>2 DEF SubsectionsApart
      <4>3. CASE j = Len(subs) + 1
        <5>1. subs[i].at + subs[i].length <= pos /\ subs[i].at + subs[i].length \in Nat
          BY <2>4, <4>1
        <5>2. pos \in Nat /\ subs'[j].at = start /\ subs'[i] = subs[i]
          BY <1>0, <2>1, <3>1, <4>1, <4>3 DEF LineInfoTypeOK
        <5> QED
          BY <2>2, <5>1, <5>2
      <4> QED
        BY <3>2, <4>2, <4>3
    <3> QED
      <4>1. LineInfoTypeOK'
        BY <1>0, <1>1, <1>3, <2>2, <3>1 DEF LineInfoTypeOK
      <4>2. SubsectionsApart'
        BY <3>3, <3>4 DEF SubsectionsApart
      <4>3. BlocksApart'
        BY <1>0, <1>1, <1>3 DEF BlocksApart
      <4> QED
        BY <4>1, <4>2, <4>3 DEF LineInfoInv
  <2> QED
    BY <2>3, <2>5, <2>6
<1> QED
  BY <1>2, <1>3

LEMMA EndOfRegionKeepsIt ==
  ASSUME LineInfoInv, EndOfRegion
  PROVE  LineInfoInv'
BY DEF LineInfoInv, LineInfoTypeOK, SubsectionsApart, BlocksApart, EndOfRegion, EndSubsections

\* A step that reads no block leaves the blocks read where they are, wherever
\* it moves the cursor on.
LEMMA MovingOnKeepsIt ==
  ASSUME LineInfoInv, phase # "subsections", LineInfoTypeOK', UNCHANGED <<subs, blocks>>,
         \/ phase' = phase /\ sub' = sub /\ pos' >= pos
         \/ phase' = phase /\ sub' = sub + 1
         \/ phase' # phase /\ phase' \in {"lines", "done"} /\ (phase' = "lines" => blocks = <<>>),
         phase' = "lines" => (IF columns' = "unread" THEN pos' = 0 ELSE pos' >= FragmentHeader)
  PROVE  LineInfoInv'
<1>1. SubsectionsApart'
  BY DEF LineInfoInv, SubsectionsApart, LineInfoTypeOK
<1>2. ASSUME NEW b \in BlocksRead, BehindTheCursor(b), b \in {blocks[i] : i \in 1..Len(blocks)}
      PROVE  BehindTheCursor(b)'
  <2>1. PICK g \in 1..Len(subs) :
          /\ LiesIn(b, subs[g])
          /\ phase = "lines" => g <= sub /\ (g = sub => BlockEnd(b) <= subs[g].at + pos)
    BY <1>2 DEF BehindTheCursor
  <2>2. subs[g].at \in Nat /\ BlockEnd(b) \in Nat /\ pos \in Nat /\ pos' \in Nat /\ sub \in Nat
    <3>1. subs \in Seq(SubsectionsFound) /\ pos \in Nat /\ pos' \in Nat /\ sub \in Nat
      BY DEF LineInfoInv, LineInfoTypeOK
    <3>2. subs[g] \in SubsectionsFound
      BY <3>1
    <3> QED
      BY <1>2, <3>1, <3>2, BlockLength DEF SubsectionsFound
  <2>3. phase' = "lines" => g <= sub' /\ (g = sub' => BlockEnd(b) <= subs[g].at + pos')
    BY <1>2, <2>1, <2>2
  <2> QED
    BY <2>1, <2>3 DEF BehindTheCursor, LiesIn, BlockEnd
<1>3. \A i \in 1..Len(blocks) : blocks[i] \in BlocksRead /\ BehindTheCursor(blocks[i])
  BY DEF LineInfoInv, LineInfoTypeOK, BlocksApart
<1> QED
  BY <1>1, <1>2, <1>3 DEF LineInfoInv, BlocksApart, BlockEnd

LEMMA TypesOfSub ==
  ASSUME LineInfoTypeOK, sub <= Len(subs)
  PROVE  /\ Here \in SubsectionsFound
         /\ Here.at \in Nat /\ Here.length \in Nat /\ sub \in 1..Len(subs)
<1>1. subs \in Seq(SubsectionsFound) /\ sub \in 1..Len(subs)
  BY DEF LineInfoTypeOK
<1>2. Here \in SubsectionsFound
  BY <1>1 DEF Here
<1> QED
  BY <1>1, <1>2 DEF SubsectionsFound

LEMMA ReadChecksumKeepsIt ==
  ASSUME LineInfoInv, ReadChecksum
  PROVE  LineInfoInv'
<1>1. PICK c \in Checksums : pos' = Aligned(pos + ChecksumHeader + c.checksum_size)
  BY DEF ReadChecksum
<1>2. c.checksum_size \in Nat
  BY ChecksumsAssumption
<1>3. pos \in Nat /\ LineInfoTypeOK
  BY DEF LineInfoInv, LineInfoTypeOK
<1> DEFINE p == pos + ChecksumHeader + c.checksum_size
<1>4. p \in Nat /\ pos <= p
  BY <1>2, <1>3 DEF ChecksumHeader
<1> HIDE DEF p
<1>5. pos' \in Nat /\ p <= pos'
  <2>1. pos' = Aligned(p)
    BY <1>1 DEF p
  <2> QED
    BY <1>4, <2>1, AlignedIsPast
<1>6. pos' >= pos
  BY <1>3, <1>4, <1>5
<1>7. phase = "checksums" /\ UNCHANGED <<phase, subs, sub, columns, blocks>>
  BY DEF ReadChecksum, At
<1> QED
  BY <1>3, <1>5, <1>6, <1>7, MovingOnKeepsIt DEF LineInfoTypeOK

LEMMA PassingOnKeepsIt ==
  ASSUME LineInfoInv, SkipSubsection \/ EndPhase \/ ReadChecksum \/ EndChecksums
  PROVE  LineInfoInv'
<1> USE DEF LineInfoInv, LineInfoTypeOK
<1>1. CASE SkipSubsection
  BY <1>1, MovingOnKeepsIt DEF SkipSubsection, NextSub
<1>2. CASE EndPhase
  BY <1>2, MovingOnKeepsIt DEF EndPhase, BlocksApart
<1>3. CASE ReadChecksum
  BY <1>3, ReadChecksumKeepsIt
<1>4. CASE EndChecksums
  BY <1>4, MovingOnKeepsIt DEF EndChecksums, NextSub, At
<1> QED
  BY <1>1, <1>2, <1>3, <1>4

LEMMA ReadFragmentHeaderKeepsIt ==
  ASSUME LineInfoInv, ReadFragmentHeader
  PROVE  LineInfoInv'
<1> USE DEF LineInfoInv, LineInfoTypeOK
<1>0. phase = "lines" /\ UNCHANGED <<phase, subs, blocks>>
  BY DEF ReadFragmentHeader, At
<1>1. CASE NextSub
  BY <1>0, <1>1, MovingOnKeepsIt DEF NextSub
<1>2. CASE columns' \in {"none", "some"} /\ pos' = FragmentHeader /\ sub' = sub
  <2>1. columns = "unread" /\ pos = 0 /\ pos' >= pos /\ pos' \in Nat
    BY <1>0, <1>2 DEF ReadFragmentHeader, BlocksApart, FragmentHeader
  <2>2. LineInfoTypeOK'
    BY <1>0, <1>2, <2>1
  <2>3. columns' # "unread" /\ phase # "subsections"
    BY <1>0, <1>2
  <2> HIDE DEF LineInfoInv, LineInfoTypeOK
  <2> QED
    BY <1>0, <1>2, <2>1, <2>2, <2>3, MovingOnKeepsIt
<1> QED
  BY <1>1, <1>2 DEF ReadFragmentHeader

LEMMA EndLinesKeepsIt ==
  ASSUME LineInfoInv, EndLines
  PROVE  LineInfoInv'
BY MovingOnKeepsIt DEF EndLines, NextSub, At, LineInfoInv, LineInfoTypeOK


\* What is read of a block is its header and its entries.
LEMMA NeedOfBlock ==
  ASSUME NEW b \in Blocks, columns \in {"none", "some"}
  PROVE  /\ Needed(b) \in Nat /\ Consumed(b) \in Nat
         /\ BlockHeader + Needed(b) <= Consumed(b)
         /\ \A start : LET new == [at |-> start, lines |-> b.num_lines, columns |-> columns] IN
              BlockEnd(new) = start + BlockHeader + Needed(b)
<1> DEFINE size == LineSize + IF columns = "some" THEN ColumnSize ELSE 0
<1>1. b.num_lines \in Nat /\ b.block_size \in Nat /\ size \in Nat
  BY BlocksAssumption DEF LineSize, ColumnSize
<1>2. Needed(b) = b.num_lines * size
  BY DEF Needed
<1>3. \A start : LET new == [at |-> start, lines |-> b.num_lines, columns |-> columns] IN
        BlockEnd(new) = start + BlockHeader + b.num_lines * size
  BY DEF BlockEnd
<1> HIDE DEF size
<1>4. Needed(b) \in Nat
  BY <1>1, <1>2
<1>5. Consumed(b) \in Nat /\ BlockHeader + Needed(b) <= Consumed(b)
  BY <1>1, <1>4 DEF Consumed, BlockHeader
<1> QED
  BY <1>2, <1>3, <1>4, <1>5

\* A block that fits its payload lies in its subsection.
LEMMA BlockFits ==
  ASSUME NEW start \in Nat, NEW p \in Nat, NEW length \in Nat, NEW needed \in Nat, NEW consumed \in Nat,
         p >= FragmentHeader, BlockHeader + needed <= consumed, needed <= length - (p + BlockHeader)
  PROVE  /\ start + p + BlockHeader + needed <= start + length
         /\ start + FragmentHeader <= start + p
         /\ start + p + BlockHeader + needed <= start + (p + consumed)
         /\ p + consumed >= p /\ p + consumed \in Nat
BY DEF FragmentHeader, BlockHeader

\* The new block lies behind those before it, and before the cursor.
LEMMA ReadBlockKeepsIt ==
  ASSUME LineInfoInv, ReadBlock
  PROVE  LineInfoInv'
<1>0. /\ LineInfoTypeOK /\ SubsectionsApart /\ BlocksApart
      /\ phase = "lines" /\ sub <= Len(subs) /\ Here.kind = "lines"
      /\ columns \in {"none", "some"} /\ pos >= FragmentHeader
      /\ phase' = phase /\ subs' = subs
  BY DEF LineInfoInv, LineInfoTypeOK, BlocksApart, ReadBlock, At
<1>1. PICK b \in Blocks :
        IF Needed(b) > PayloadEnd - (pos + BlockHeader)
        THEN NextSub /\ blocks' = blocks
        ELSE /\ blocks' = Append(blocks, [at |-> Here.at + pos, lines |-> b.num_lines,
                                          columns |-> columns])
             /\ pos' = pos + Consumed(b)
             /\ UNCHANGED <<sub, columns>>
  BY DEF ReadBlock
<1>2. CASE Needed(b) > PayloadEnd - (pos + BlockHeader)
  <2>1. NextSub /\ blocks' = blocks
    BY <1>1, <1>2
  <2> QED
    BY <1>0, <2>1, MovingOnKeepsIt DEF NextSub, LineInfoTypeOK
<1>3. CASE ~(Needed(b) > PayloadEnd - (pos + BlockHeader))
  <2> DEFINE new == [at |-> Here.at + pos, lines |-> b.num_lines, columns |-> columns]
  <2>1. blocks' = Append(blocks, new) /\ pos' = pos + Consumed(b) /\ UNCHANGED <<sub, columns>>
    BY <1>1, <1>3
  <2>2. /\ Here.at \in Nat /\ Here.length \in Nat /\ sub \in 1..Len(subs)
        /\ pos \in Nat /\ blocks \in Seq(BlocksRead)
    BY <1>0, TypesOfSub DEF LineInfoTypeOK
  <2>3. /\ Needed(b) \in Nat /\ Consumed(b) \in Nat /\ BlockHeader + Needed(b) <= Consumed(b)
        /\ BlockEnd(new) = Here.at + pos + BlockHeader + Needed(b)
    BY <1>0, NeedOfBlock
  <2>4. new \in BlocksRead /\ new.at = Here.at + pos
    BY <1>0, <2>2, BlocksAssumption DEF BlocksRead
  <2> HIDE DEF new
  <2>5. LiesIn(new, Here) /\ BlockEnd(new) <= Here.at + pos' /\ pos' >= pos /\ pos' \in Nat
    <3> DEFINE start == Here.at
               length == Here.length
               needed == Needed(b)
               consumed == Consumed(b)
    <3>0. /\ start \in Nat /\ length \in Nat /\ needed \in Nat /\ consumed \in Nat
          /\ pos \in Nat /\ pos >= FragmentHeader /\ BlockHeader + needed <= consumed
          /\ ~(needed > length - (pos + BlockHeader))
      BY <1>0, <1>3, <2>2, <2>3 DEF PayloadEnd
    <3>2. /\ Here.at + pos + BlockHeader + Needed(b) <= Here.at + Here.length
          /\ Here.at + FragmentHeader <= Here.at + pos
          /\ Here.at + pos + BlockHeader + Needed(b) <= Here.at + (pos + Consumed(b))
          /\ pos + Consumed(b) >= pos /\ pos + Consumed(b) \in Nat
      <4>1. /\ start + pos + BlockHeader + needed <= start + length
            /\ start + FragmentHeader <= start + pos
            /\ start + pos + BlockHeader + needed <= start + (pos + consumed)
            /\ pos + consumed >= pos /\ pos + consumed \in Nat
        <5> HIDE DEF start, length, needed, consumed
        <5>1. needed <= length - (pos + BlockHeader)
          BY <3>0 DEF BlockHeader
        <5> QED
          BY <3>0, <5>1, BlockFits
      <4> QED
        BY <4>1
    <3> QED
      BY <1>0, <2>1, <2>3, <2>4, <3>2 DEF LiesIn
  <2>6. /\ blocks' \in Seq(BlocksRead) /\ Len(blocks') = Len(blocks) + 1
        /\ \A i \in 1..Len(blocks) : blocks'[i] = blocks[i]
        /\ blocks'[Len(blocks) + 1] = new
        /\ \A i \in 1..Len(blocks') : i = Len(blocks) + 1 \/ i \in 1..Len(blocks)
    BY <2>1, <2>2, <2>4, AppendProperties
  <2>7. LineInfoTypeOK'
    BY <1>0, <2>1, <2>5, <2>6 DEF LineInfoTypeOK
  <2>8. ASSUME NEW i \in 1..Len(blocks')
        PROVE  BehindTheCursor(blocks[i])'
    <3>1. CASE i = Len(blocks) + 1
      <4>1. LiesIn(new, subs[sub]) /\ BlockEnd(new) <= subs[sub].at + pos'
        BY <2>5 DEF Here
      <4> QED
        BY <1>0, <2>1, <2>2, <2>6, <3>1, <4>1 DEF BehindTheCursor, LiesIn, BlockEnd
    <3>2. CASE i \in 1..Len(blocks)
      <4>1. PICK g \in 1..Len(subs) :
              /\ LiesIn(blocks[i], subs[g])
              /\ g <= sub /\ (g = sub => BlockEnd(blocks[i]) <= subs[g].at + pos)
        BY <1>0, <3>2 DEF BlocksApart, BehindTheCursor
      <4>2. BlockEnd(blocks[i]) \in Nat
        BY <2>2, <3>2, BlockLength
      <4>3. g = sub => BlockEnd(blocks[i]) <= subs[g].at + pos'
        BY <2>2, <2>5, <4>1, <4>2 DEF Here
      <4> QED
        BY <1>0, <2>1, <2>6, <3>2, <4>1, <4>3 DEF BehindTheCursor, LiesIn, BlockEnd
    <3> QED
      BY <2>6, <3>1, <3>2
  <2>9. ASSUME NEW i \in 1..Len(blocks'), NEW j \in 1..Len(blocks'), i < j
        PROVE  BlockEnd(blocks'[i]) <= blocks'[j].at
    <3>1. i \in 1..Len(blocks)
      BY <2>2, <2>6, <2>9
    <3>2. CASE j \in 1..Len(blocks)
      BY <1>0, <2>6, <2>9, <3>1, <3>2 DEF BlocksApart
    <3>3. CASE j = Len(blocks) + 1
      <4>1. BlockEnd(blocks[i]) <= Here.at + pos
        BY <1>0, <3>1, EarlierBlocksEnd
      <4> QED
        BY <2>4, <2>6, <3>1, <3>3, <4>1
    <3> QED
      BY <2>6, <3>2, <3>3
  <2>10. SubsectionsApart'
    BY <1>0 DEF SubsectionsApart
  <2>11. BlocksApart'
    <3>1. columns' # "unread" /\ pos' >= FragmentHeader
      BY <1>0, <2>1, <2>2, <2>5 DEF FragmentHeader
    <3>2. \A i, j \in 1..Len(blocks') : i < j => BlockEnd(blocks[i])' <= blocks'[j].at
      BY <2>9 DEF BlockEnd
    <3> QED
      BY <1>0, <2>8, <3>1, <3>2 DEF BlocksApart
  <2> QED
    BY <2>7, <2>10, <2>11 DEF LineInfoInv
<1> QED
  BY <1>2, <1>3

\* The inductive invariant of reading a region: every subsection lies behind
\* those before it, and every block behind the cursor in one of them.
THEOREM RegionIsReadInOrder == LineInfoSpec => []LineInfoInv
<1>1. ASSUME LineInfoInv, [LineInfoNext]_lineInfoVars
      PROVE  LineInfoInv'
  <2>1. CASE LineInfoNext
    BY <1>1, <2>1, ReadSubsectionKeepsIt, EndOfRegionKeepsIt, PassingOnKeepsIt,
       ReadFragmentHeaderKeepsIt, ReadBlockKeepsIt, EndLinesKeepsIt DEF LineInfoNext
  <2>2. CASE UNCHANGED lineInfoVars
    BY <1>1, <2>2 DEF lineInfoVars, LineInfoInv, LineInfoTypeOK, SubsectionsApart, BlocksApart,
       BehindTheCursor, LiesIn, BlockEnd
  <2> QED
    BY <1>1, <2>1, <2>2
<1> QED
  BY <1>1, LineInfoInvAtFirst, PTL DEF LineInfoSpec

\* No region, whatever its headers claim, makes the walk read a byte as part
\* of two blocks or of two subsections, or a block outside its subsection.
THEOREM EveryByteIsReadOnce == LineInfoSpec => []NoByteReadTwice
<1>1. ASSUME LineInfoInv
      PROVE  NoByteReadTwice
  <2>1. DOMAIN blocks = 1..Len(blocks) /\ DOMAIN subs = 1..Len(subs)
    BY <1>1 DEF LineInfoInv, LineInfoTypeOK
  <2>2. \A g \in 1..Len(subs) : subs[g] \in Range(subs)
    BY <2>1 DEF Range
  <2> QED
    BY <1>1, <2>1, <2>2
    DEF NoByteReadTwice, LineInfoInv, SubsectionsApart, BlocksApart, BehindTheCursor, LiesIn
<1> QED
  BY <1>1, RegionIsReadInOrder, PTL

-----------------------------------------------------------------------------
(* Ids                                                                     *)

\* The records the id table is read from.
IdRegion ==
    /\ recs \in Seq(IdRecords)
    /\ region \in 0..Len(recs)
    /\ left \in Nat

\* An id is the place of its record: the walk counts every record it passes.
IdsInPlace ==
    /\ k \in 1..(Len(recs) + 1)
    /\ n = Begin + k - 1
    /\ at = RecordEnd[k - 1] /\ at <= RegionEnd
    /\ \A j \in 1..(k - 1) : recs[j].size >= 0

\* So far every record with a name has it, under its own id.
NamesSoFar == names = {<<Begin + i - 1, recs[i]>> : i \in {j \in 1..(k - 1) : HasName(recs[j])}}

\* The walk ends where nothing can be read.
IdsFinished == done \in BOOLEAN /\ (done => ~Readable)

\* The inductive invariant of reading the id table.
IdsInv == IdRegion /\ IdsInPlace /\ NamesSoFar /\ IdsFinished

\* A record is never shorter than its header.
LEMMA IdSizes ==
  ASSUME IdRegion
  PROVE  \A i \in 1..Len(recs) :
           /\ recs[i].size \in Int /\ recs[i].size >= -1
           /\ SizeOf(recs[i]) \in Nat /\ SizeOf(recs[i]) >= 4
           /\ recs[i].size >= 0 => SizeOf(recs[i]) = 4 + recs[i].size
<1>1. \A r \in IdRecords : r.size \in Nat \cup {-1}
  BY IdsAssumption
<1>2. \A i \in 1..Len(recs) : recs[i] \in IdRecords
  BY DEF IdRegion
<1> QED
  BY <1>1, <1>2 DEF SizeOf

\* Where the records end: the sums of their sizes.
LEMMA IdEnds ==
  ASSUME IdRegion
  PROVE  /\ RecordEnd[0] = 0
         /\ \A i \in 0..Len(recs) : RecordEnd[i] \in Nat
         /\ \A i \in 1..Len(recs) : RecordEnd[i] = RecordEnd[i - 1] + SizeOf(recs[i])
         /\ \A i, j \in 0..Len(recs) : i <= j => RecordEnd[i] <= RecordEnd[j]
<1> DEFINE m == Len(recs)
           s == [i \in 1..m |-> SizeOf(recs[i])]
<1>1. m \in Nat /\ s \in [1..m -> Nat]
  BY IdSizes DEF IdRegion
<1>2. PICK F : Sums(F, s, m)
  BY <1>1, SumsExist
<1>3. F = [i \in 0..m |-> IF i = 0 THEN 0 ELSE F[i - 1] + SizeOf(recs[i])]
  <2>1. \A i \in 0..m : i # 0 => s[i] = SizeOf(recs[i])
    BY <1>1
  <2> HIDE DEF s
  <2> QED
    BY <1>2, <2>1 DEF Sums
<1>4. RecordEnd = [i \in 0..m |-> IF i = 0 THEN 0 ELSE RecordEnd[i - 1] + SizeOf(recs[i])]
  BY <1>3 DEF RecordEnd
<1>5. Sums(RecordEnd, s, m)
  <2>1. \A i \in 0..m : i # 0 => s[i] = SizeOf(recs[i])
    BY <1>1
  <2> HIDE DEF s
  <2> QED
    BY <1>4, <2>1 DEF Sums
<1>6. \A i \in 1..m : s[i] = SizeOf(recs[i])
  OBVIOUS
<1> HIDE DEF s
<1> QED
  BY <1>1, <1>5, <1>6, SumsGrow

\* The records the walk has passed are those of the region and no more.
LEMMA IdsInRegion ==
  ASSUME IdRegion, IdsInPlace
  PROVE  k - 1 <= region
<1> SUFFICES ASSUME k - 1 > region
             PROVE  FALSE
  BY DEF IdRegion, IdsInPlace
<1> DEFINE i == region + 1
<1>1. i \in 1..Len(recs) /\ i - 1 = region /\ i <= k - 1 /\ k - 1 \in 0..Len(recs)
  BY DEF IdRegion, IdsInPlace
<1>2. RecordEnd[i] = RecordEnd[region] + SizeOf(recs[i]) /\ SizeOf(recs[i]) >= 4 /\ SizeOf(recs[i]) \in Nat
  BY <1>1, IdEnds, IdSizes
<1>3. RecordEnd[i] <= RecordEnd[k - 1]
  BY <1>1, IdEnds
<1>4. RecordEnd[region] \in Nat
  BY IdEnds DEF IdRegion
<1>5. RecordEnd[k - 1] <= RecordEnd[region]
  <2>1. RegionEnd <= RecordEnd[region]
    BY <1>4 DEF RegionEnd, IdRegion
  <2>2. RecordEnd[k - 1] <= RegionEnd
    BY DEF IdsInPlace
  <2>3. RegionEnd \in Nat /\ RecordEnd[k - 1] \in Nat
    BY <1>1, <1>4, IdEnds DEF RegionEnd, IdRegion
  <2> QED
    BY <1>4, <2>1, <2>2, <2>3
<1> HIDE DEF i
<1>6. RecordEnd[k - 1] \in Nat
  BY <1>1, IdEnds
<1> QED
  BY <1>2, <1>3, <1>4, <1>5, <1>6

\* An id is the place of its record, and what has been named so far is exactly
\* what was passed and has a name.
THEOREM IdsInvHolds == IdsSpec => []IdsInv
<1>1. ASSUME IdsInit
      PROVE  IdsInv
  <2>1. IdRegion
    <3>1. recs \in Seq(IdRecords) /\ region \in 0..Len(recs)
      BY <1>1 DEF IdsInit
    <3>2. left \in 0..RecordEnd[Len(recs)]
      BY <1>1 DEF IdsInit
    <3> QED
      BY <3>1, <3>2 DEF IdRegion
  <2>2. RegionEnd \in Nat
    <3>1. RecordEnd[region] \in Nat /\ left \in Nat
      BY <2>1, IdEnds DEF IdRegion
    <3> QED
      BY <3>1 DEF RegionEnd
  <2>3. k = 1 /\ at = 0 /\ n = Begin /\ names = {} /\ ~done /\ Len(recs) \in Nat
    BY <1>1, <2>1 DEF IdsInit, IdRegion
  <2>4. IdsInPlace
    BY <2>1, <2>2, <2>3, IdEnds, IdsAssumption DEF IdsInPlace
  <2>5. NamesSoFar
    BY <2>3 DEF NamesSoFar
  <2>6. IdsFinished
    BY <1>1 DEF IdsInit, IdsFinished
  <2> QED
    BY <2>1, <2>4, <2>5, <2>6 DEF IdsInv
<1>2. ASSUME IdsInv, [IdsNext]_idVars
      PROVE  IdsInv'
  <2>1. CASE ReadId
    <3>1. recs' = recs /\ region' = region /\ left' = left /\ done' = done
      BY <2>1 DEF ReadId
    <3>2. RecordEnd' = RecordEnd
      BY <3>1 DEF RecordEnd
    <3>3. RegionEnd' = RegionEnd
      BY <3>1, <3>2 DEF RegionEnd
    <3>4. IdRegion /\ IdRegion'
      BY <1>2, <3>1 DEF IdsInv, IdRegion
    <3>5. k \in 1..Len(recs) /\ Len(recs) \in Nat
      BY <1>2, <2>1, <3>4 DEF IdsInv, IdsInPlace, ReadId, Readable, IdRegion
    <3>6. /\ RecordEnd[k] = RecordEnd[k - 1] + SizeOf(recs[k])
          /\ RecordEnd[k] \in Nat /\ RecordEnd[k - 1] \in Nat
      <4>1. k \in 0..Len(recs) /\ k - 1 \in 0..Len(recs)
        BY <3>5
      <4> QED
        BY <3>4, <3>5, <4>1, IdEnds
    <3>7. at = RecordEnd[k - 1] /\ n = Begin + k - 1 /\ recs[k].size \in Nat
          /\ SizeOf(recs[k]) = 4 + recs[k].size
      <4>1. recs[k].size >= 0
        BY <2>1 DEF ReadId, Readable, ThisId
      <4> QED
        BY <1>2, <3>4, <3>5, <4>1, IdSizes DEF IdsInv, IdsInPlace
    <3>8. RegionEnd \in Nat
      <4>1. RecordEnd[region] \in Nat /\ left \in Nat
        BY <3>4, IdEnds DEF IdRegion
      <4> QED
        BY <4>1 DEF RegionEnd
    <3>9. at' = RecordEnd[k] /\ RecordEnd[k] <= RegionEnd
      <4>1. at' = at + 4 + recs[k].size /\ RegionEnd - (at + 4) >= recs[k].size
        BY <2>1 DEF ReadId, Readable, ThisId
      <4> QED
        BY <3>6, <3>7, <3>8, <4>1
    <3>10. k' = k + 1 /\ n' = n + 1 /\ k' - 1 = k
      BY <2>1, <3>5 DEF ReadId
    <3>11. IdsInPlace'
      <4>1. k' \in 1..(Len(recs') + 1)
        BY <3>1, <3>5, <3>10
      <4>2. n' = Begin + k' - 1
        BY <3>5, <3>7, <3>10, IdsAssumption
      <4>3. at' = (RecordEnd')[k' - 1] /\ at' <= RegionEnd'
        BY <3>2, <3>3, <3>9, <3>10
      <4>4. \A j \in 1..(k' - 1) : recs'[j].size >= 0
        <5>1. \A j \in 1..(k - 1) : recs[j].size >= 0
          BY <1>2 DEF IdsInv, IdsInPlace
        <5>2. \A j \in 1..k : j = k \/ j \in 1..(k - 1)
          BY <3>5
        <5> QED
          BY <3>1, <3>7, <3>10, <5>1, <5>2
      <4> QED
        BY <4>1, <4>2, <4>3, <4>4 DEF IdsInPlace
    <3>12. NamesSoFar'
      <4> DEFINE Entry(i) == <<Begin + i - 1, recs[i]>>
                 Named == {j \in 1..(k - 1) : HasName(recs[j])}
                 NamedNow == {j \in 1..k : HasName(recs[j])}
      <4>1. names = {Entry(i) : i \in Named}
        BY <1>2 DEF IdsInv, NamesSoFar
      <4>2. names' = IF HasName(recs[k]) THEN names \cup {Entry(k)} ELSE names
        BY <2>1, <3>7 DEF ReadId, ThisId
      <4>3. NamedNow = IF HasName(recs[k]) THEN Named \cup {k} ELSE Named
        BY <3>5
      <4>4. names' = {Entry(i) : i \in NamedNow}
        <5> HIDE DEF Entry, Named, NamedNow
        <5> QED
          BY <4>1, <4>2, <4>3
      <4> QED
        BY <3>1, <3>10, <4>4 DEF NamesSoFar, HasName
    <3>13. IdsFinished'
      BY <1>2, <2>1, <3>1 DEF IdsInv, IdsFinished, ReadId
    <3> QED
      BY <3>4, <3>11, <3>12, <3>13 DEF IdsInv
  <2>2. CASE ReadIdsEnd
    <3>1. UNCHANGED <<recs, region, left, k, at, n, names>> /\ done' /\ ~Readable /\ done' \in BOOLEAN
      BY <2>2 DEF ReadIdsEnd
    <3>2. RecordEnd' = RecordEnd
      BY <3>1 DEF RecordEnd
    <3>3. RegionEnd' = RegionEnd
      BY <3>1, <3>2 DEF RegionEnd
    <3>4. IdRegion'
      BY <1>2, <3>1 DEF IdsInv, IdRegion
    <3>5. IdsInPlace'
      BY <1>2, <3>1, <3>2, <3>3 DEF IdsInv, IdsInPlace
    <3>6. NamesSoFar'
      BY <1>2, <3>1 DEF IdsInv, NamesSoFar, HasName
    <3>7. IdsFinished'
      BY <3>1, <3>3 DEF IdsFinished, Readable, ThisId
    <3> QED
      BY <3>4, <3>5, <3>6, <3>7 DEF IdsInv
  <2>3. CASE UNCHANGED idVars
    <3>1. UNCHANGED <<recs, region, left, k, at, n, names, done>>
      BY <2>3 DEF idVars
    <3>2. RecordEnd' = RecordEnd
      BY <3>1 DEF RecordEnd
    <3>3. RegionEnd' = RegionEnd
      BY <3>1, <3>2 DEF RegionEnd
    <3>4. IdRegion'
      BY <1>2, <3>1 DEF IdsInv, IdRegion
    <3>5. IdsInPlace'
      BY <1>2, <3>1, <3>2, <3>3 DEF IdsInv, IdsInPlace
    <3>6. NamesSoFar'
      BY <1>2, <3>1 DEF IdsInv, NamesSoFar, HasName
    <3>7. IdsFinished'
      BY <1>2, <3>1, <3>3 DEF IdsInv, IdsFinished, Readable, ThisId
    <3> QED
      BY <3>4, <3>5, <3>6, <3>7 DEF IdsInv
  <2> QED
    BY <1>2, <2>1, <2>2, <2>3 DEF IdsNext
<1> QED
  BY <1>1, <1>2, PTL DEF IdsSpec

\* IdTable.parse, whatever the records and wherever the stream is cut: names
\* neither move to another id nor are lost before the damage.
THEOREM NamesKeepTheirIds == IdsSpec => []NamesAreExact
<1>1. ASSUME IdsInv
      PROVE  NamesAreExact
  <2>1. IdRegion /\ IdsInPlace /\ k - 1 <= region
    BY <1>1, IdsInRegion DEF IdsInv
  <2>2. NamesStayInPlace
    <3> SUFFICES ASSUME NEW entry \in names
                 PROVE  LET i == entry[1] - Begin + 1 IN i \in 1..region /\ entry[2] = recs[i]
      BY DEF NamesStayInPlace
    <3>1. PICK i \in 1..(k - 1) : entry = <<Begin + i - 1, recs[i]>>
      BY <1>1 DEF IdsInv, NamesSoFar
    <3>2. entry[1] = Begin + i - 1 /\ entry[2] = recs[i]
      BY <3>1
    <3>3. entry[1] - Begin + 1 = i /\ i \in 1..region
      BY <2>1, <3>2, IdsAssumption DEF IdsInPlace, IdRegion
    <3> QED
      BY <3>2, <3>3
  <2>3. WholeRecordsAreNamed
    <3> SUFFICES ASSUME done, NEW i \in DOMAIN recs, Whole(i), HasName(recs[i])
                 PROVE  <<Begin + i - 1, recs[i]>> \in names
      BY DEF WholeRecordsAreNamed
    <3>1. i \in 1..Len(recs) /\ Len(recs) \in Nat
      BY <2>1 DEF IdRegion
    <3>2. CASE i <= k - 1
      <4>1. i \in {j \in 1..(k - 1) : HasName(recs[j])}
        BY <2>1, <3>1, <3>2 DEF IdsInPlace
      <4> QED
        BY <1>1, <4>1 DEF IdsInv, NamesSoFar
    <3>3. CASE k <= i
      <4>1. k \in 1..Len(recs) /\ k - 1 \in 0..Len(recs) /\ k \in 0..Len(recs)
            /\ i \in 0..Len(recs) /\ region \in 0..Len(recs) /\ i <= region
        BY <2>1, <3>1, <3>3 DEF IdsInPlace, IdRegion, Whole
      <4>2. recs[k].size >= 0 /\ recs[k].size \in Int
        BY <2>1, <3>1, <3>3, <4>1, IdSizes DEF Whole
      <4>3. RecordEnd[k] = at + 4 + recs[k].size /\ at \in Nat
        <5>1. RecordEnd[k] = RecordEnd[k - 1] + SizeOf(recs[k]) /\ RecordEnd[k - 1] \in Nat
          BY <2>1, <4>1, IdEnds
        <5>2. SizeOf(recs[k]) = 4 + recs[k].size
          BY <2>1, <4>1, <4>2, IdSizes
        <5>3. at = RecordEnd[k - 1]
          BY <2>1 DEF IdsInPlace
        <5> QED
          BY <4>2, <5>1, <5>2, <5>3
      <4>4. RecordEnd[k] <= RecordEnd[i] /\ RecordEnd[i] <= RecordEnd[region]
            /\ RecordEnd[k] \in Nat /\ RecordEnd[i] \in Nat /\ RecordEnd[region] \in Nat
        BY <2>1, <3>3, <4>1, IdEnds
      <4>5. RecordEnd[i] <= left /\ left \in Nat
        BY <2>1 DEF Whole, IdRegion
      <4>6. RecordEnd[k] <= RegionEnd /\ RegionEnd \in Nat
        BY <4>4, <4>5 DEF RegionEnd
      <4>7. Readable
        BY <2>1, <4>1, <4>2, <4>3, <4>6 DEF Readable, ThisId
      <4> QED
        BY <1>1, <4>7 DEF IdsInv, IdsFinished
    <3> QED
      BY <2>1, <3>1, <3>2, <3>3 DEF IdsInPlace
  <2> QED
    BY <2>2, <2>3 DEF NamesAreExact
<1> QED
  BY <1>1, IdsInvHolds, PTL

-----------------------------------------------------------------------------
(* The annotations of inline sites *)

\* A total is the last of some sums,
LEMMA TotalIsLast ==
  ASSUME NEW p \in Nat, NEW s \in [1..p -> Nat]
  PROVE  \E F : Sums(F, s, p) /\ Total(s, p) = F[p]
<1> DEFINE F == CHOOSE F : F = [j \in 0..p |-> IF j = 0 THEN 0 ELSE F[j - 1] + s[j]]
<1>1. \E G : G = [j \in 0..p |-> IF j = 0 THEN 0 ELSE G[j - 1] + s[j]]
  BY SumsExist DEF Sums
<1>2. F = [j \in 0..p |-> IF j = 0 THEN 0 ELSE F[j - 1] + s[j]]
  BY <1>1
<1>3. Total(s, p) = F[p]
  BY DEF Total
<1> HIDE DEF F
<1> QED
  BY <1>2, <1>3 DEF Sums

\* so one number more adds to it, and none to nothing.
LEMMA TotalOneMore ==
  ASSUME NEW p \in Nat, NEW s \in [1..(p + 1) -> Nat], NEW t \in [1..p -> Nat],
         \A j \in 1..p : s[j] = t[j]
  PROVE  /\ Total(t, p) \in Nat /\ Total(s, p + 1) = Total(t, p) + s[p + 1]
<1>1. PICK F : Sums(F, t, p) /\ Total(t, p) = F[p]
  BY TotalIsLast
<1>2. PICK G : Sums(G, s, p + 1) /\ Total(s, p + 1) = G[p + 1]
  <2>1. p + 1 \in Nat
    OBVIOUS
  <2> QED
    BY <2>1, TotalIsLast
<1>3. F[p] = G[p]
  <2>1. p + 1 \in Nat /\ p <= p + 1 /\ \A j \in 1..p : t[j] = s[j]
    OBVIOUS
  <2>2. p \in 0..p
    OBVIOUS
  <2> QED
    BY <1>1, <1>2, <2>1, <2>2, SumsAgree
<1>4. F[p] \in Nat
  <2>1. p \in 0..p
    OBVIOUS
  <2> QED
    BY <1>1, <2>1, SumsGrow
<1>5. G[p + 1] = G[p] + s[p + 1]
  <2>1. p + 1 \in 1..(p + 1) /\ (p + 1) - 1 = p /\ p + 1 \in Nat
    OBVIOUS
  <2>2. \A j \in 1..(p + 1) : G[j] = G[j - 1] + s[j]
    BY <1>2, <2>1, SumsGrow
  <2>3. G[p + 1] = G[(p + 1) - 1] + s[p + 1]
    BY <2>1, <2>2
  <2> QED
    BY <2>1, <2>3
<1> QED
  BY <1>1, <1>2, <1>3, <1>4, <1>5

\* Numbers that are all zero come to zero.
LEMMA TotalOfNothing ==
  ASSUME NEW p \in Nat, NEW s \in [1..p -> Nat], \A j \in 1..p : s[j] = 0
  PROVE  Total(s, p) = 0
<1>1. PICK F : Sums(F, s, p) /\ Total(s, p) = F[p]
  BY TotalIsLast
<1>2. F[0] = 0 /\ \A j \in 1..p : F[j] = F[j - 1] + s[j]
  BY <1>1, SumsGrow
<1> DEFINE S == {j \in Nat : j <= p => F[j] = 0}
<1>3. 0 \in S
  BY <1>2
<1>4. ASSUME NEW j \in Nat, j \in S PROVE j + 1 \in S
  <2> SUFFICES ASSUME j + 1 <= p PROVE F[j + 1] = 0
    OBVIOUS
  <2>1. F[j] = 0 /\ j + 1 \in 1..p /\ (j + 1) - 1 = j
    BY <1>4
  <2> QED
    BY <1>2, <2>1
<1> HIDE DEF S
<1>5. p \in S
  BY <1>3, <1>4, SetInduction
<1> QED
  BY <1>1, <1>5 DEF S

\* An instruction that is carried out.
CarriedOut == {i \in Instructions : IsReadable(i)}

\* What the opcodes and operands of one are: nothing in it is damaged.
LEMMA CarriedOutFits ==
  ASSUME NEW i \in CarriedOut
  PROVE  /\ i.op \in Opcodes /\ i.first \in Nat /\ (i.op = Fused => i.second \in Nat)
         /\ Delta(i) \in Nat /\ LoneLength(i) \in Nat
         /\ i.op = Base => Delta(i) = 0 /\ LoneLength(i) = 0
<1>1. i.op \in Opcodes /\ i.first \in Nat /\ (i.op = Fused => i.second \in Nat)
  <2>0. /\ i.op \notin Unreadable /\ i.first \notin Damage /\ (i.op = Fused => i.second \notin Damage)
        /\ i \in Instructions
    BY DEF CarriedOut, IsReadable
  <2>1. CASE \E op \in Unreadable : i = [op |-> op, first |-> 0, second |-> 0]
    BY <2>0, <2>1
  <2>2. CASE \E op \in Opcodes \ {Fused}, a \in Operands \cup Damage :
               i = [op |-> op, first |-> a, second |-> 0]
    BY <2>0, <2>2, OperandsAssumption
  <2>3. CASE \E a \in Operands, b \in Operands \cup Damage : i = [op |-> Fused, first |-> a, second |-> b]
    <3>1. Fused \in Opcodes
      BY DEF Opcodes
    <3> QED
      BY <2>0, <2>3, <3>1, OperandsAssumption
  <2>4. CASE \E a \in Damage : i = [op |-> Fused, first |-> a, second |-> 0]
    BY <2>0, <2>4
  <2> QED
    BY <2>0, <2>1, <2>2, <2>3, <2>4 DEF Instructions
<1>2. i.first % 16 \in Nat
  BY <1>1
<1>3. Delta(i) \in Nat /\ LoneLength(i) \in Nat
  BY <1>1, <1>2 DEF Delta, LoneLength, Opcodes, Moves, Packs, Fused, Length, Base, Others
<1>4. i.op = Base => Delta(i) = 0 /\ LoneLength(i) = 0
  BY DEF Delta, LoneLength, Moves, Packs, Fused, Length, Base
<1> QED
  BY <1>1, <1>3, <1>4

\* The last base at or before an instruction.
LEMMA BaseIsBefore ==
  ASSUME NEW is \in Seq(CarriedOut), NEW p \in 0..Len(is)
  PROVE  /\ BaseBefore(is, p) \in 0..p
         /\ BaseBefore(is, p) # 0 => is[BaseBefore(is, p)].op = Base
         /\ \A j \in 1..p : is[j].op = Base => j <= BaseBefore(is, p)
<1> DEFINE T == {0} \cup {j \in 1..p : is[j].op = Base}
<1>1. T \subseteq 0..p /\ T # {} /\ p \in Nat
  OBVIOUS
<1>2. Max(T) \in T /\ \A j \in T : j <= Max(T)
  <2> HIDE DEF T
  <2> QED
    BY <1>1, MaxIsGreatest
<1> QED
  BY <1>1, <1>2 DEF BaseBefore

\* What the next start is the total of.
Gains(is, p) ==
  [j \in 1..p |-> IF j <= BaseBefore(is, p) THEN 0 ELSE Delta(is[j]) + LoneLength(is[j])]

\* They are numbers, and so is what they come to.
LEMMA GainsAreNumbers ==
  ASSUME NEW is \in Seq(CarriedOut), NEW p \in 0..Len(is)
  PROVE  /\ Gains(is, p) \in [1..p -> Nat] /\ NextStart(is, p) = Total(Gains(is, p), p)
         /\ NextStart(is, p) \in Nat
<1>1. \A j \in 1..p : is[j] \in CarriedOut
  OBVIOUS
<1>2. \A j \in 1..p : Delta(is[j]) + LoneLength(is[j]) \in Nat
  BY <1>1, CarriedOutFits
<1>3. Gains(is, p) \in [1..p -> Nat]
  BY <1>2 DEF Gains
<1>4. NextStart(is, p) = Total(Gains(is, p), p)
  BY DEF NextStart, Gains
<1>5. PICK F : Sums(F, Gains(is, p), p) /\ Total(Gains(is, p), p) = F[p]
  BY <1>3, TotalIsLast
<1>6. F[p] \in Nat
  <2>1. p \in Nat /\ p \in 0..p
    OBVIOUS
  <2> QED
    BY <1>3, <1>5, <2>1, SumsGrow
<1> QED
  BY <1>3, <1>4, <1>5, <1>6

\* What is said of an instruction depends on those up to it only.
LEMMA PrefixSaysTheSame ==
  ASSUME NEW is \in Seq(CarriedOut), NEW i \in CarriedOut, NEW p \in 0..Len(is)
  PROVE  LET more == Append(is, i) IN
         /\ BaseBefore(more, p) = BaseBefore(is, p)
         /\ NextStart(more, p) = NextStart(is, p)
         /\ p > 0 => ChunkOf(more, p) = ChunkOf(is, p) /\ StartOf(more, p) = StartOf(is, p)
         /\ p = 0 => ChunkOf(more, p) = 0 /\ ChunkOf(is, p) = 0
<1> DEFINE more == Append(is, i)
<1>1. \A j \in 1..p : more[j] = is[j]
  OBVIOUS
<1> HIDE DEF more
<1>2. BaseBefore(more, p) = BaseBefore(is, p)
  <2>1. {j \in 1..p : more[j].op = Base} = {j \in 1..p : is[j].op = Base}
    BY <1>1
  <2> QED
    BY <2>1 DEF BaseBefore
<1>3. Gains(more, p) = Gains(is, p)
  BY <1>1, <1>2 DEF Gains
<1>4. NextStart(more, p) = NextStart(is, p)
  BY <1>3 DEF NextStart, Gains
<1>5. BaseBefore(is, p) \in 0..p
  BY BaseIsBefore
<1>6. ChunkOf(more, p) = ChunkOf(is, p)
  BY <1>1, <1>2, <1>5 DEF ChunkOf
<1>7. p > 0 => StartOf(more, p) = StartOf(is, p)
  BY <1>1, <1>4 DEF StartOf
<1>8. p = 0 => ChunkOf(is, p) = 0
  BY <1>5 DEF ChunkOf
<1> QED
  BY <1>2, <1>4, <1>6, <1>7, <1>8 DEF more

\* What is said of one more instruction: a base begins a chunk, any other goes on.
LEMMA OneMoreInstruction ==
  ASSUME NEW is \in Seq(CarriedOut), NEW i \in CarriedOut, NEW c, c = Len(is)
  PROVE  LET more == Append(is, i) IN
         /\ i.op = Base => ChunkOf(more, c + 1) = i.first /\ NextStart(more, c + 1) = 0
         /\ i.op # Base => /\ ChunkOf(more, c + 1) = ChunkOf(is, c)
                           /\ NextStart(more, c + 1) = NextStart(is, c) + (Delta(i) + LoneLength(i))
<1> DEFINE more == Append(is, i)
<1>1. /\ c \in Nat /\ more \in Seq(CarriedOut) /\ Len(more) = c + 1 /\ more[c + 1] = i
      /\ \A j \in 1..c : more[j] = is[j]
  OBVIOUS
<1> HIDE DEF more
<1>2. /\ c + 1 \in 0..Len(more) /\ c \in 0..Len(is) /\ c + 1 \in Nat
  BY <1>1
<1>3. /\ BaseBefore(more, c + 1) \in 0..(c + 1)
      /\ BaseBefore(more, c + 1) # 0 => more[BaseBefore(more, c + 1)].op = Base
      /\ \A j \in 1..(c + 1) : more[j].op = Base => j <= BaseBefore(more, c + 1)
  BY <1>1, <1>2, BaseIsBefore
<1>4. /\ BaseBefore(is, c) \in 0..c
      /\ BaseBefore(is, c) # 0 => is[BaseBefore(is, c)].op = Base
      /\ \A j \in 1..c : is[j].op = Base => j <= BaseBefore(is, c)
  BY <1>2, BaseIsBefore
<1>5. /\ Gains(more, c + 1) \in [1..(c + 1) -> Nat]
      /\ NextStart(more, c + 1) = Total(Gains(more, c + 1), c + 1)
  BY <1>1, <1>2, GainsAreNumbers
<1>6. /\ Gains(is, c) \in [1..c -> Nat] /\ NextStart(is, c) = Total(Gains(is, c), c)
  BY <1>2, GainsAreNumbers
<1>7. CASE i.op = Base
  <2>1. c + 1 \in 1..(c + 1)
    BY <1>1
  <2>2. BaseBefore(more, c + 1) = c + 1
    BY <1>1, <1>3, <1>7, <2>1
  <2>3. ChunkOf(more, c + 1) = i.first
    BY <1>1, <2>2 DEF ChunkOf
  <2>4. \A j \in 1..(c + 1) : Gains(more, c + 1)[j] = 0
    BY <1>1, <2>2 DEF Gains
  <2>5. NextStart(more, c + 1) = 0
    BY <1>2, <1>5, <2>4, TotalOfNothing
  <2> QED
    BY <1>7, <2>3, <2>5 DEF more
<1>8. CASE i.op # Base
  <2>1. BaseBefore(more, c + 1) = BaseBefore(is, c)
    <3> DEFINE b == BaseBefore(more, c + 1)
               d == BaseBefore(is, c)
    <3>1. b # c + 1
      BY <1>1, <1>3, <1>8
    <3>2. b \in 0..c /\ (b # 0 => is[b].op = Base)
      BY <1>1, <1>3, <3>1
    <3>3. d \in 0..c /\ (d # 0 => more[d].op = Base)
      BY <1>1, <1>4
    <3>4. b <= d
      BY <1>1, <1>4, <3>2
    <3>5. d <= b
      BY <1>1, <1>3, <3>3
    <3> HIDE DEF b, d
    <3> QED
      BY <1>1, <3>2, <3>3, <3>4, <3>5 DEF b, d
  <2>2. ChunkOf(more, c + 1) = ChunkOf(is, c)
    BY <1>1, <1>4, <2>1 DEF ChunkOf
  <2>3. \A j \in 1..c : Gains(more, c + 1)[j] = Gains(is, c)[j]
    BY <1>1, <2>1 DEF Gains
  <2>4. Gains(more, c + 1)[c + 1] = Delta(i) + LoneLength(i)
    BY <1>1, <1>4, <2>1 DEF Gains
  <2>5. Total(Gains(more, c + 1), c + 1) = Total(Gains(is, c), c) + Gains(more, c + 1)[c + 1]
    BY <1>1, <1>5, <1>6, <2>3, TotalOneMore
  <2> QED
    BY <1>5, <1>6, <1>8, <2>2, <2>4, <2>5 DEF more
<1> QED
  BY <1>7, <1>8

\* The ranges that instructions close, in the body and in chunks.
BodyRange(is, p) == [offset |-> StartOf(is, p), length |-> is[p].first]
ChunkRange(is, p) == [chunk |-> ChunkOf(is, p), offset |-> StartOf(is, p), length |-> is[p].first]
BodyRanges(is, s) == [j \in DOMAIN s |-> BodyRange(is, s[j])]
ChunkRanges(is, s) == [j \in DOMAIN s |-> ChunkRange(is, s[j])]

SameRanges(is, more, c) ==
    \A p \in 1..c : BodyRange(more, p) = BodyRange(is, p) /\ ChunkRange(more, p) = ChunkRange(is, p)

\* Those of some instructions, when there is one more.
LEMMA RangesOneMore ==
  ASSUME NEW is, NEW more, NEW c \in Nat, SameRanges(is, more, c),
         NEW s \in Seq(1..c)
  PROVE  /\ BodyRanges(more, s) = BodyRanges(is, s) /\ ChunkRanges(more, s) = ChunkRanges(is, s)
         /\ BodyRanges(more, Append(s, c + 1)) = Append(BodyRanges(is, s), BodyRange(more, c + 1))
         /\ ChunkRanges(more, Append(s, c + 1)) = Append(ChunkRanges(is, s), ChunkRange(more, c + 1))
<1> DEFINE f == [p \in 1..c |-> BodyRange(is, p)]
           g == [p \in 1..(c + 1) |-> BodyRange(more, p)]
           h == [p \in 1..c |-> ChunkRange(is, p)]
           e == [p \in 1..(c + 1) |-> ChunkRange(more, p)]
           t == Append(s, c + 1)
<1>1. /\ \A p \in 1..c : f[p] = g[p]
      /\ \A p \in 1..c : h[p] = e[p]
      /\ g[c + 1] = BodyRange(more, c + 1) /\ e[c + 1] = ChunkRange(more, c + 1)
  BY DEF SameRanges
<1>2. \A j \in DOMAIN s : s[j] \in 1..c /\ s[j] \in 1..(c + 1)
  OBVIOUS
<1>3. \A j \in DOMAIN t : t[j] \in 1..(c + 1)
  <2>1. DOMAIN t = 1..(Len(s) + 1) /\ t[Len(s) + 1] = c + 1 /\ Len(s) \in Nat
        /\ DOMAIN s = 1..Len(s) /\ \A j \in 1..Len(s) : t[j] = s[j]
    OBVIOUS
  <2> HIDE DEF t
  <2> QED
    BY <1>2, <2>1
<1> HIDE DEF t
<1>4. BodyRanges(is, s) = Mapped(f, s) /\ ChunkRanges(is, s) = Mapped(h, s)
  <2>1. \A j \in DOMAIN s : f[s[j]] = BodyRange(is, s[j]) /\ h[s[j]] = ChunkRange(is, s[j])
    BY <1>2
  <2> HIDE DEF f, h
  <2> QED
    BY <2>1, Zenon DEF BodyRanges, ChunkRanges, Mapped
<1>5. BodyRanges(more, s) = Mapped(g, s) /\ ChunkRanges(more, s) = Mapped(e, s)
  <2>1. \A j \in DOMAIN s : g[s[j]] = BodyRange(more, s[j]) /\ e[s[j]] = ChunkRange(more, s[j])
    BY <1>2
  <2> HIDE DEF g, e
  <2> QED
    BY <2>1, Zenon DEF BodyRanges, ChunkRanges, Mapped
<1>6. BodyRanges(more, t) = Mapped(g, t) /\ ChunkRanges(more, t) = Mapped(e, t)
  <2>1. \A j \in DOMAIN t : g[t[j]] = BodyRange(more, t[j]) /\ e[t[j]] = ChunkRange(more, t[j])
    BY <1>3
  <2> HIDE DEF g, e
  <2> QED
    BY <2>1, Zenon DEF BodyRanges, ChunkRanges, Mapped
<1> HIDE DEF f, g, h, e
<1>7. Mapped(g, t) = Append(Mapped(f, s), g[c + 1]) /\ Mapped(g, s) = Mapped(f, s)
  BY <1>1, MappedOneMore DEF t
<1>8. Mapped(e, t) = Append(Mapped(h, s), e[c + 1]) /\ Mapped(e, s) = Mapped(h, s)
  BY <1>1, MappedOneMore DEF t
<1> QED
  BY <1>1, <1>4, <1>5, <1>6, <1>7, <1>8 DEF t

\* What is written, with one more instruction.
LEMMA WrittenOneMore ==
  ASSUME NEW is \in Seq(CarriedOut), NEW i \in CarriedOut, NEW c, c = Len(is)
  PROVE  LET more == Append(is, i)
             closes == i.op \in {Fused, Length}
             here == ChunkOf(more, c + 1) = 0
         IN  /\ WrittenInBody(more) = IF closes /\ here
                                      THEN Append(WrittenInBody(is), BodyRange(more, c + 1))
                                      ELSE WrittenInBody(is)
             /\ WrittenInChunks(more) = IF closes /\ ~here
                                        THEN Append(WrittenInChunks(is), ChunkRange(more, c + 1))
                                        ELSE WrittenInChunks(is)
<1> DEFINE more == Append(is, i)
           closes == i.op \in {Fused, Length}
           here == ChunkOf(more, c + 1) = 0
           own == InBody(is)
           far == Closing(is) \ InBody(is)
<1>1. /\ c \in Nat /\ DOMAIN is = 1..c /\ DOMAIN more = 1..(c + 1) /\ more[c + 1] = i
      /\ \A j \in 1..c : more[j] = is[j]
  OBVIOUS
<1>2. \A p \in 1..c : ChunkOf(more, p) = ChunkOf(is, p) /\ StartOf(more, p) = StartOf(is, p)
  <2>1. SUFFICES ASSUME NEW p \in 1..c
                 PROVE  ChunkOf(more, p) = ChunkOf(is, p) /\ StartOf(more, p) = StartOf(is, p)
    OBVIOUS
  <2>2. p \in 0..Len(is) /\ p > 0
    BY <1>1
  <2> QED
    BY <2>2, PrefixSaysTheSame
<1> HIDE DEF more
<1>3. /\ Closing(more) = Closing(is) \cup {p \in {c + 1} : closes}
      /\ InBody(more) = InBody(is) \cup {p \in {c + 1} : closes /\ here}
      /\ own \subseteq 1..c /\ far \subseteq 1..c
  <2>1. \A p \in DOMAIN more : p \in 1..c \/ p = c + 1
    BY <1>1
  <2>2. \A p \in 1..c : p \in DOMAIN more
    BY <1>1
  <2>3. c + 1 \in DOMAIN more
    BY <1>1
  <2> QED
    BY <2>1, <2>2, <2>3, <1>1, <1>2 DEF Closing, InBody
<1>4. Closing(more) \ InBody(more) = far \cup {p \in {c + 1} : closes /\ ~here}
  <2>1. c + 1 \notin 1..c
    BY <1>1
  <2>2. Closing(is) \subseteq 1..c
    BY <1>1 DEF Closing
  <2> QED
    BY <1>3, <2>1, <2>2
<1> HIDE DEF closes, here
<1>5. SameRanges(is, more, c)
  BY <1>1, <1>2 DEF SameRanges, BodyRange, ChunkRange
<1>6. /\ Ascending(own) \in Seq(1..c)
      /\ Ascending(own \cup {c + 1}) = Append(Ascending(own), c + 1)
      /\ Ascending(far) \in Seq(1..c)
      /\ Ascending(far \cup {c + 1}) = Append(Ascending(far), c + 1)
  BY <1>1, <1>3, AscendingOneMore
<1>7. ASSUME NEW x
      PROVE  /\ WrittenInBody(x) = BodyRanges(x, Ascending(InBody(x)))
             /\ WrittenInChunks(x) = ChunkRanges(x, Ascending(Closing(x) \ InBody(x)))
  BY Zenon DEF WrittenInBody, WrittenInChunks, BodyRanges, ChunkRanges, BodyRange, ChunkRange
<1>8. \A s \in Seq(1..c) :
        /\ BodyRanges(more, s) = BodyRanges(is, s) /\ ChunkRanges(more, s) = ChunkRanges(is, s)
        /\ BodyRanges(more, Append(s, c + 1)) = Append(BodyRanges(is, s), BodyRange(more, c + 1))
        /\ ChunkRanges(more, Append(s, c + 1)) = Append(ChunkRanges(is, s), ChunkRange(more, c + 1))
  <2>1. SUFFICES ASSUME NEW s \in Seq(1..c)
                 PROVE  /\ BodyRanges(more, s) = BodyRanges(is, s) /\ ChunkRanges(more, s) = ChunkRanges(is, s)
                        /\ BodyRanges(more, Append(s, c + 1)) = Append(BodyRanges(is, s), BodyRange(more, c + 1))
                        /\ ChunkRanges(more, Append(s, c + 1)) = Append(ChunkRanges(is, s), ChunkRange(more, c + 1))
    OBVIOUS
  <2>2. c \in Nat
    BY <1>1
  <2> QED
    BY <2>2, <1>5, RangesOneMore
<1>9. WrittenInBody(more) = IF closes /\ here THEN Append(WrittenInBody(is), BodyRange(more, c + 1))
                            ELSE WrittenInBody(is)
  <2>1. CASE closes /\ here
    <3>1. InBody(more) = own \cup {c + 1}
      BY <1>3, <2>1
    <3>2. PICK s : s = Ascending(own)
      OBVIOUS
    <3>3. WrittenInBody(is) = BodyRanges(is, s)
      BY <1>7, <3>2
    <3>4. WrittenInBody(more) = BodyRanges(more, Append(s, c + 1))
      BY <1>7, <1>6, <3>1, <3>2
    <3>5. s \in Seq(1..c)
      BY <1>6, <3>2
    <3> QED
      BY <2>1, <3>3, <3>4, <3>5, <1>8
  <2>2. CASE ~(closes /\ here)
    <3>1. InBody(more) = own
      BY <1>3, <2>2
    <3>2. PICK s : s = Ascending(own)
      OBVIOUS
    <3>3. WrittenInBody(is) = BodyRanges(is, s) /\ WrittenInBody(more) = BodyRanges(more, s)
      BY <1>7, <3>1, <3>2
    <3>4. s \in Seq(1..c)
      BY <1>6, <3>2
    <3> QED
      BY <2>2, <3>3, <3>4, <1>8
  <2> QED
    BY <2>1, <2>2
<1>10. WrittenInChunks(more) = IF closes /\ ~here THEN Append(WrittenInChunks(is), ChunkRange(more, c + 1))
                               ELSE WrittenInChunks(is)
  <2>1. CASE closes /\ ~here
    <3>1. Closing(more) \ InBody(more) = far \cup {c + 1}
      BY <1>4, <2>1
    <3>2. PICK s : s = Ascending(far)
      OBVIOUS
    <3>3. WrittenInChunks(is) = ChunkRanges(is, s)
      BY <1>7, <3>2
    <3>4. WrittenInChunks(more) = ChunkRanges(more, Append(s, c + 1))
      BY <1>7, <1>6, <3>1, <3>2
    <3>5. s \in Seq(1..c)
      BY <1>6, <3>2
    <3> QED
      BY <2>1, <3>3, <3>4, <3>5, <1>8
  <2>2. CASE ~(closes /\ ~here)
    <3>1. Closing(more) \ InBody(more) = far
      BY <1>4, <2>2
    <3>2. PICK s : s = Ascending(far)
      OBVIOUS
    <3>3. WrittenInChunks(is) = ChunkRanges(is, s) /\ WrittenInChunks(more) = ChunkRanges(more, s)
      BY <1>7, <3>1, <3>2
    <3>4. s \in Seq(1..c)
      BY <1>6, <3>2
    <3> QED
      BY <2>2, <3>3, <3>4, <1>8
  <2> QED
    BY <2>1, <2>2
<1> QED
  BY <1>9, <1>10 DEF more, closes, here

-----------------------------------------------------------------------------
\* The cursor and the chunk are what the instructions so far come to.
AnnotationsInv ==
  /\ read \in Seq(CarriedOut)
  /\ chunk = ChunkOf(read, Len(read)) /\ chunk \in Nat
  /\ code_offset = NextStart(read, Len(read)) /\ code_offset \in Nat
  /\ RangesAreWhatIsWritten

\* At first nothing is read and nothing written.
LEMMA AnnotationsBegin ==
  ASSUME AnnotationsInit
  PROVE  AnnotationsInv
<1>1. read = <<>> /\ chunk = 0 /\ code_offset = 0 /\ ranges = <<>> /\ separated = <<>>
  BY DEF AnnotationsInit
<1>2. read \in Seq(CarriedOut) /\ Len(read) = 0 /\ DOMAIN read = {} /\ 0 \in 0..Len(read)
  BY <1>1
<1>3. BaseBefore(read, 0) \in 0..0
  BY <1>2, BaseIsBefore
<1>4. ChunkOf(read, 0) = 0
  BY <1>3 DEF ChunkOf
<1>5. NextStart(read, 0) = 0
  <2>1. Gains(read, 0) \in [1..0 -> Nat] /\ NextStart(read, 0) = Total(Gains(read, 0), 0)
    BY <1>2, GainsAreNumbers
  <2>2. \A j \in 1..0 : Gains(read, 0)[j] = 0
    OBVIOUS
  <2> QED
    BY <2>1, <2>2, TotalOfNothing
<1>6. Closing(read) = {} /\ InBody(read) = {}
  BY <1>2 DEF Closing, InBody
<1>7. DOMAIN Ascending({}) = {}
  <2>1. InOrder(Ascending({}), {})
    <3>1. {} \subseteq 1..0
      OBVIOUS
    <3> QED
      BY <3>1, AscendingIsInOrder
  <2>2. Ascending({}) \in [1..Cardinality({}) -> {}]
    BY <2>1 DEF InOrder
  <2>3. Cardinality({}) = 0
    BY FS_EmptySet
  <2> QED
    BY <2>2, <2>3
<1>8. WrittenInBody(read) = <<>> /\ WrittenInChunks(read) = <<>>
  <2>1. Closing(read) \ InBody(read) = {}
    BY <1>6
  <2> QED
    BY <1>6, <1>7, <2>1 DEF WrittenInBody, WrittenInChunks
<1> QED
  BY <1>1, <1>2, <1>4, <1>5, <1>8 DEF AnnotationsInv, RangesAreWhatIsWritten

\* One instruction more closes one range or none, and moves the cursor as it says.
LEMMA AnnotationsGoOn ==
  ASSUME AnnotationsInv, [AnnotationsNext]_annotationVars
  PROVE  AnnotationsInv'
<1>1. CASE UNCHANGED <<code_offset, chunk, ranges, separated, read>>
  BY <1>1 DEF AnnotationsInv, RangesAreWhatIsWritten
<1>2. CASE CarryOut
  <2>1. PICK i \in CarriedOut :
             /\ \/ CarryOutFused(i) \/ CarryOutLength(i) \/ CarryOutMove(i)
                \/ CarryOutBase(i) \/ PassOver(i)
             /\ read' = Append(read, i)
    BY <1>2 DEF CarryOut, CarriedOut
  <2>2. PICK is : is = read
    OBVIOUS
  <2>3. PICK c : c = Len(is)
    OBVIOUS
  <2> DEFINE more == Append(is, i)
             closes == i.op \in {Fused, Length}
             here == ChunkOf(more, c + 1) = 0
  <2>4. /\ is \in Seq(CarriedOut) /\ c \in Nat
        /\ chunk = ChunkOf(is, c) /\ chunk \in Nat
        /\ code_offset = NextStart(is, c) /\ code_offset \in Nat
        /\ ranges = WrittenInBody(is) /\ separated = WrittenInChunks(is)
    BY <2>2, <2>3 DEF AnnotationsInv, RangesAreWhatIsWritten
  <2>5. more \in Seq(CarriedOut) /\ Len(more) = c + 1 /\ more[c + 1] = i /\ read' = more
    BY <2>1, <2>2, <2>3, <2>4
  <2>6. /\ i.op = Base => ChunkOf(more, c + 1) = i.first /\ NextStart(more, c + 1) = 0
        /\ i.op # Base => /\ ChunkOf(more, c + 1) = ChunkOf(is, c)
                          /\ NextStart(more, c + 1) = NextStart(is, c) + (Delta(i) + LoneLength(i))
    BY <2>3, <2>4, OneMoreInstruction
  <2>7. /\ WrittenInBody(more) = IF closes /\ here
                                 THEN Append(WrittenInBody(is), BodyRange(more, c + 1))
                                 ELSE WrittenInBody(is)
        /\ WrittenInChunks(more) = IF closes /\ ~here
                                   THEN Append(WrittenInChunks(is), ChunkRange(more, c + 1))
                                   ELSE WrittenInChunks(is)
    BY <2>3, <2>4, WrittenOneMore
  <2> HIDE DEF more
  <2>8. /\ i.op \in Opcodes /\ i.first \in Nat /\ (i.op = Fused => i.second \in Nat)
        /\ Delta(i) \in Nat /\ LoneLength(i) \in Nat
    BY CarriedOutFits
  <2>9. /\ chunk' = ChunkOf(more, c + 1) /\ chunk' \in Nat
        /\ code_offset' = NextStart(more, c + 1) /\ code_offset' \in Nat
        /\ closes /\ here => /\ ranges' = Append(ranges, BodyRange(more, c + 1))
                             /\ separated' = separated
        /\ closes /\ ~here => /\ separated' = Append(separated, ChunkRange(more, c + 1))
                              /\ ranges' = ranges
        /\ ~closes => ranges' = ranges /\ separated' = separated
    <3>1. CASE CarryOutFused(i)
      <4>1. /\ i.op = Fused /\ code_offset' = code_offset + i.second /\ chunk' = chunk
            /\ Close(code_offset', i.first)
        BY <3>1 DEF CarryOutFused
      <4>2. Delta(i) = i.second /\ LoneLength(i) = 0 /\ i.op # Base /\ closes
        BY <4>1 DEF Delta, LoneLength, Moves, Packs, Fused, Length, Base
      <4>3. code_offset' = NextStart(more, c + 1) /\ chunk' = ChunkOf(more, c + 1)
        BY <4>1, <4>2, <2>4, <2>6, <2>8
      <4>4. StartOf(more, c + 1) = code_offset' /\ code_offset' \in Nat
        BY <4>1, <4>2, <4>3, <2>4, <2>5, <2>8 DEF StartOf
      <4>5. chunk = ChunkOf(more, c + 1)
        BY <4>1, <4>3
      <4> QED
        BY <4>1, <4>2, <4>3, <4>4, <4>5, <2>4, <2>5 DEF Close, BodyRange, ChunkRange
    <3>2. CASE CarryOutLength(i)
      <4>1. /\ i.op = Length /\ code_offset' = code_offset + i.first /\ chunk' = chunk
            /\ Close(code_offset, i.first)
        BY <3>2 DEF CarryOutLength
      <4>2. Delta(i) = 0 /\ LoneLength(i) = i.first /\ i.op # Base /\ closes
        BY <4>1 DEF Delta, LoneLength, Moves, Packs, Fused, Length, Base
      <4>3. code_offset' = NextStart(more, c + 1) /\ chunk' = ChunkOf(more, c + 1)
        BY <4>1, <4>2, <2>4, <2>6, <2>8
      <4>4. StartOf(more, c + 1) = code_offset /\ code_offset' \in Nat
        BY <4>1, <4>2, <4>3, <2>4, <2>5, <2>8 DEF StartOf
      <4>5. chunk = ChunkOf(more, c + 1)
        BY <4>1, <4>3
      <4> QED
        BY <4>1, <4>2, <4>3, <4>4, <4>5, <2>4, <2>5 DEF Close, BodyRange, ChunkRange
    <3>3. CASE CarryOutMove(i)
      <4>1. /\ i.op \in Moves \cup Packs /\ UNCHANGED <<chunk, ranges, separated>>
            /\ code_offset' = code_offset + (IF i.op \in Packs THEN i.first % 16 ELSE i.first)
        BY <3>3 DEF CarryOutMove
      <4>2. /\ Delta(i) = (IF i.op \in Packs THEN i.first % 16 ELSE i.first)
            /\ LoneLength(i) = 0 /\ i.op # Base /\ ~closes
        BY <4>1 DEF Delta, LoneLength, Moves, Packs, Fused, Length, Base
      <4> QED
        BY <4>1, <4>2, <2>4, <2>6, <2>8
    <3>4. CASE CarryOutBase(i)
      <4>1. /\ i.op = Base /\ UNCHANGED <<ranges, separated>> /\ chunk' = i.first /\ code_offset' = 0
        BY <3>4 DEF CarryOutBase
      <4>2. ~closes
        BY <4>1 DEF Fused, Length, Base
      <4> QED
        BY <4>1, <4>2, <2>6, <2>8
    <3>5. CASE PassOver(i)
      <4>1. i.op \in Others /\ UNCHANGED <<code_offset, chunk, ranges, separated>>
        BY <3>5 DEF PassOver
      <4>2. Delta(i) = 0 /\ LoneLength(i) = 0 /\ i.op # Base /\ ~closes
        BY <4>1 DEF Delta, LoneLength, Moves, Packs, Fused, Length, Base, Others
      <4> QED
        BY <4>1, <4>2, <2>4, <2>6
    <3> QED
      BY <2>1, <3>1, <3>2, <3>3, <3>4, <3>5
  <2>10. ranges' = WrittenInBody(more) /\ separated' = WrittenInChunks(more)
    BY <2>4, <2>7, <2>9
  <2>11. /\ ChunkOf(read, Len(read))' = ChunkOf(more, c + 1)
         /\ NextStart(read, Len(read))' = NextStart(more, c + 1)
         /\ WrittenInBody(read)' = WrittenInBody(more)
         /\ WrittenInChunks(read)' = WrittenInChunks(more)
    BY <2>5
  <2> QED
    BY <2>5, <2>9, <2>10, <2>11 DEF AnnotationsInv, RangesAreWhatIsWritten
<1> QED
  BY <1>1, <1>2 DEF AnnotationsNext, ShortPayload, EndOfPayload, StopAtDamage, Stop, annotationVars

(***************************************************************************)
(* Every range an inline site is reported to cover, in its procedure's     *)
(* body and in chunks elsewhere, is one its instructions describe: none is *)
(* left out, moved or added, whatever the compiler wrote and wherever the  *)
(* walk over it stops.                                                     *)
(***************************************************************************)
THEOREM RangesAreTheWrittenOnes == AnnotationsSpec => []RangesAreWhatIsWritten
<1>1. AnnotationsInit => AnnotationsInv
  BY AnnotationsBegin
<1>2. AnnotationsInv /\ [AnnotationsNext]_annotationVars => AnnotationsInv'
  BY AnnotationsGoOn
<1>3. AnnotationsInv => RangesAreWhatIsWritten
  BY DEF AnnotationsInv
<1> QED
  BY <1>1, <1>2, <1>3, PTL DEF AnnotationsSpec
=============================================================================
