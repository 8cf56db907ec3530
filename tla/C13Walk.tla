-------------------------------- MODULE C13Walk --------------------------------
(***************************************************************************)
(* The C13 line info of one module: iter_subsections, parse_file_checksums *)
(* and parse_lines (purepdb/c13.py), in the order in which PDB.lines and   *)
(* diagnose (purepdb/pdb.py) use them -- all subsections first, then every *)
(* file-checksum subsection, then every lines subsection.                  *)
(*                                                                         *)
(* Offsets are bytes of the region.  What a header says is chosen when it  *)
(* is read; no header is read twice.                                       *)
(***************************************************************************)
EXTENDS Integers, Sequences, FiniteSets, SequencesExt

CONSTANTS
  Regions,         \* lengths the region may have
  Subsections,     \* subsection headers: [kind, length]
  Checksums,       \* file-checksum entries: [name, checksum_size]
  Blocks           \* line blocks: [file, num_lines, block_size]

ASSUME RegionsAssumption == Regions \subseteq Nat
ASSUME SubsectionsAssumption ==
  Subsections \subseteq [kind : {"lines", "checksums", "ignored", "other"}, length : Nat]
ASSUME ChecksumsAssumption == Checksums \subseteq [name : Nat, checksum_size : 0..255]
ASSUME BlocksAssumption ==
  Blocks \subseteq [file : Nat, num_lines : Nat, block_size : Nat]

SubsectionHeader == 8
ChecksumHeader == 6
FragmentHeader == 12
BlockHeader == 12
LineSize == 8
ColumnSize == 4

VARIABLES
  len,          \* of the region
  phase,        \* "subsections", "checksums", "lines" or "done"
  pos,          \* where the loop of this phase reads next
  subs,         \* the subsections found: [kind, at, length]
  sub,          \* which of them this phase is at
  columns,      \* the fragment being read has column entries; "unread" before
  files,        \* entry offset -> /names offset, over all checksum subsections
  blocks,       \* history: the line blocks read, [at, size]
  lines,        \* the line entries: [at, file]
  truncations   \* the reports, as offset and level

lineInfoVars == <<len, phase, pos, subs, sub, columns, files, blocks, lines, truncations>>

LineInfoInit ==
  /\ len \in Regions
  /\ phase = "subsections" /\ pos = 0
  /\ subs = <<>> /\ sub = 1 /\ columns = "unread"
  /\ files = <<>> /\ blocks = <<>> /\ lines = <<>> /\ truncations = <<>>

Aligned(p) == p + ((-p) % 4)

Report(level, at) == truncations' = Append(truncations, [level |-> level, at |-> at])

\* any(data[p:]): some byte left over is not zero.  An empty rest has none.
SomethingLeft(p, end) == IF p < end THEN BOOLEAN ELSE {FALSE}

------------------------------------------------------------------------------
(* iter_subsections.                                                       *)

EndSubsections ==
  /\ phase' = "checksums" /\ pos' = 0
  /\ UNCHANGED <<len, subs, sub, columns, files, blocks, lines>>

EndOf(s, at) == Aligned(at + s.length)

ReadSubsection ==
  /\ phase = "subsections" /\ pos + SubsectionHeader <= len
  /\ \E s \in Subsections :
       LET at == pos + SubsectionHeader IN
       IF s.length > len - at
       THEN EndSubsections /\ Report("region", pos)
       ELSE /\ subs' = IF s.kind = "ignored" THEN subs
                       ELSE Append(subs, [kind |-> s.kind, at |-> at, length |-> s.length])
            /\ pos' = EndOf(s, at)
            /\ UNCHANGED <<len, phase, sub, columns, files, blocks, lines, truncations>>

EndOfRegion ==
  /\ phase = "subsections" /\ pos + SubsectionHeader > len
  /\ EndSubsections
  /\ \E something \in SomethingLeft(pos, len) :
       IF something THEN Report("region", pos) ELSE UNCHANGED truncations

------------------------------------------------------------------------------
(* The loops over the subsections.                                         *)

Here == subs[sub]
At(kind) == phase = kind /\ sub <= Len(subs) /\ Here.kind = kind

\* The payload's offsets count from the start of the payload.
PayloadEnd == Here.length

NextSub ==
  /\ sub' = sub + 1 /\ pos' = 0 /\ columns' = "unread"

SkipSubsection ==
  /\ phase \in {"checksums", "lines"}
  /\ sub <= Len(subs) /\ Here.kind # phase
  /\ NextSub
  /\ UNCHANGED <<len, phase, subs, files, blocks, lines, truncations>>

\* lines() passes a module without file checksums by; diagnose() does not.
EndPhase ==
  /\ sub > Len(subs)
  /\ \/ phase = "checksums" /\ phase' \in {"lines"} \cup (IF files = <<>> THEN {"done"} ELSE {})
     \/ phase = "lines" /\ phase' = "done"
  /\ sub' = 1 /\ pos' = 0 /\ columns' = "unread"
  /\ UNCHANGED <<len, subs, files, blocks, lines, truncations>>

\* One entry of parse_file_checksums; a later subsection's entry replaces an
\* earlier one at the same offset.
ReadChecksum ==
  /\ At("checksums") /\ pos + ChecksumHeader <= PayloadEnd
  /\ \E c \in Checksums :
       /\ files' = [o \in DOMAIN files \cup {pos} |-> IF o = pos THEN c.name ELSE files[o]]
       /\ pos' = Aligned(pos + ChecksumHeader + c.checksum_size)
  /\ UNCHANGED <<len, phase, subs, sub, columns, blocks, lines, truncations>>

EndChecksums ==
  /\ At("checksums") /\ pos + ChecksumHeader > PayloadEnd
  /\ NextSub
  /\ UNCHANGED <<len, phase, subs, files, blocks, lines, truncations>>

------------------------------------------------------------------------------
(* parse_lines.                                                            *)

ReadFragmentHeader ==
  /\ At("lines") /\ columns = "unread"
  /\ IF PayloadEnd < FragmentHeader
     THEN /\ NextSub
          /\ IF PayloadEnd > 0 THEN Report("lines", 0) ELSE UNCHANGED truncations
     ELSE /\ columns' \in {"none", "some"}
          /\ pos' = FragmentHeader
          /\ UNCHANGED <<sub, truncations>>
  /\ UNCHANGED <<len, phase, subs, files, blocks, lines>>

Needed(b) == b.num_lines * (LineSize + IF columns = "some" THEN ColumnSize ELSE 0)

\* Mutant: the block's own size is trusted unless it is zero.
BlockSizeUnlessZero(b) ==
  IF b.block_size = 0 THEN BlockHeader + Needed(b) ELSE b.block_size

\* The bytes consumed are the floor of what the block claims.
Consumed(b) ==
  IF b.block_size > BlockHeader + Needed(b) THEN b.block_size ELSE BlockHeader + Needed(b)

ReadBlock ==
  /\ At("lines") /\ columns # "unread" /\ pos + BlockHeader <= PayloadEnd
  /\ \E b \in Blocks :
       LET entriesAt == pos + BlockHeader IN
       IF Needed(b) > PayloadEnd - entriesAt
       THEN /\ Report("lines", pos) /\ NextSub
            /\ UNCHANGED <<blocks, lines>>
       ELSE /\ lines' = lines \o [i \in 1..b.num_lines |->
                          [at |-> Here.at + entriesAt + (i - 1) * LineSize, file |-> b.file]]
            /\ blocks' = Append(blocks, [at |-> Here.at + pos, lines |-> b.num_lines,
                                         columns |-> columns])
            /\ pos' = pos + Consumed(b)
            /\ UNCHANGED <<sub, columns, truncations>>
  /\ UNCHANGED <<len, phase, subs, files>>

EndLines ==
  /\ At("lines") /\ columns # "unread" /\ pos + BlockHeader > PayloadEnd
  /\ NextSub
  /\ \E something \in SomethingLeft(pos, PayloadEnd) :
       IF something THEN Report("lines", pos) ELSE UNCHANGED truncations
  /\ UNCHANGED <<len, phase, subs, files, blocks, lines>>

LineInfoNext ==
  \/ ReadSubsection \/ EndOfRegion \/ SkipSubsection \/ EndPhase
  \/ ReadChecksum \/ EndChecksums
  \/ ReadFragmentHeader \/ ReadBlock \/ EndLines

LineInfoSpec == LineInfoInit /\ [][LineInfoNext]_lineInfoVars

------------------------------------------------------------------------------
(* Properties.                                                             *)

BlockEnd(b) ==
  b.at + BlockHeader + b.lines * (LineSize + IF b.columns = "some" THEN ColumnSize ELSE 0)

\* Whatever BlockSize claims -- zero, or an offset into the block's own
\* entries -- no byte is read as part of two blocks, and each block lies in a
\* lines subsection, which lies in the region apart from all others: no line
\* is invented by reading entries as a header.
NoByteReadTwice ==
  /\ \A i, j \in DOMAIN blocks : i < j => BlockEnd(blocks[i]) <= blocks[j].at
  /\ \A i \in DOMAIN blocks : \E s \in Range(subs) :
       /\ s.kind = "lines"
       /\ s.at + FragmentHeader <= blocks[i].at
       /\ BlockEnd(blocks[i]) <= s.at + s.length
  /\ \A i, j \in DOMAIN subs : i < j => subs[i].at + subs[i].length <= subs[j].at

\* Diagnostics.c13_truncations: where a walk stopped short of consuming its
\* buffer (pdb.py:344).  A block that claims more than the payload holds
\* carries the cursor past its end: the loop stops with room for blocks it has
\* not read, and reports nothing.
LossIsReported ==
  (At("lines") /\ pos > PayloadEnd /\ blocks # <<>>) =>
     Here.at + PayloadEnd - BlockEnd(blocks[Len(blocks)]) < BlockHeader
=============================================================================
