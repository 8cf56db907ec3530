----------------------------- MODULE MsfDirectory -----------------------------
(***************************************************************************)
(* Opening an MSF container and reading its streams: SuperBlock.parse, and *)
(* MsfFile.__init__, _read_directory, _parse_directory and read_stream     *)
(* (purepdb/msf.py).                                                       *)
(*                                                                         *)
(* The file's words are chosen when they are first read and stay as they   *)
(* are: a block that two lists name holds the same words in both.  Which   *)
(* words block 0 holds is left free too, so the superblock's fields are    *)
(* not tied to them.                                                       *)
(***************************************************************************)
EXTENDS MsfBlocks, SequencesExt

CONSTANTS
  Words,        \* the values a 32-bit word of the file may hold
  Nil,          \* INVALID_STREAM_SIZE, the largest of them
  SuperBlocks   \* the superblocks a file may begin with

WordSize == 4
WordsPerBlock == BlockSize \div WordSize

ASSUME WordsAssumption == Words \subseteq Nat /\ Nil \in Words
ASSUME WholeWordsAssumption == BlockSize % WordSize = 0
ASSUME SuperBlocksAssumption ==
  SuperBlocks \subseteq
    [kind : {"msf7", "foreign", "bad magic", "bad block size", "short"},
     num_blocks : Nat, num_directory_bytes : Nat, block_map_addr : Nat]

VARIABLES
  super,          \* the superblock
  content,        \* word address -> word, for the words read so far
  phase,          \* how far the open has come
  dir_blocks,     \* dir_block_indices: the blocks of the stream directory
  d,              \* the directory: its whole words and its length in bytes
  off,            \* byte offset in the directory of the next field
  sizes,          \* the size words, as the directory lists them
  stream_sizes,   \* per stream: its length, or Nil
  stream_blocks,  \* per stream: its block list
  reply           \* what the last read_stream returned or raised

directoryVars == <<super, content, phase, dir_blocks, d, off, sizes,
          stream_sizes, stream_blocks, reply>>

NoReply == [outcome |-> "none", stream |-> -1]

DirectoryInit ==
  /\ super \in SuperBlocks
  /\ content = <<>>
  /\ phase = "superblock"
  /\ dir_blocks = <<>>
  /\ d = [words |-> <<>>, len |-> 0]
  /\ off = 0
  /\ sizes = <<>> /\ stream_sizes = <<>> /\ stream_blocks = <<>>
  /\ reply = NoReply

\* The words a read returned lie at these addresses, in this order.
WordAddresses(read) ==
  [k \in 1..(read.len \div WordSize) |->
     read.blocks[(k - 1) \div WordsPerBlock + 1] * WordsPerBlock
       + ((k - 1) % WordsPerBlock)]

\* The words at addrs take a value if they have none yet.
Reveal(addrs) ==
  \E new \in [Range(addrs) \ DOMAIN content -> Words] :
    content' = [a \in DOMAIN content \cup Range(addrs) |->
                  IF a \in DOMAIN content THEN content[a] ELSE new[a]]

Refuse(what) ==
  /\ phase' = what
  /\ UNCHANGED <<super, dir_blocks, d, off, sizes, stream_sizes, stream_blocks, reply>>

------------------------------------------------------------------------------

\* SuperBlock.parse, and the length check of MsfFile.__init__.
ParseSuperBlock ==
  /\ phase = "superblock"
  /\ Refuse(CASE super.kind = "foreign" -> "unsupported"
              [] super.kind \in {"bad magic", "bad block size", "short"} -> "refused"
              [] super.kind = "msf7" ->
                   IF FileLen < super.num_blocks * BlockSize THEN "refused" ELSE "map")
  /\ UNCHANGED content

DirBlocks == CeilDiv(super.num_directory_bytes, BlockSize)
MapBlocks == CeilDiv(DirBlocks * WordSize, BlockSize)

\* The block map lies in consecutive blocks from block_map_addr on.
BlockMap ==
  PerBlock([i \in 1..MapBlocks |-> super.block_map_addr + i - 1],
           DirBlocks * WordSize)

\* Neither out of range nor, as _read_directory also checks, short.
BlockMapIsWhole ==
  BlockMap.outcome = "bytes" /\ BlockMap.len >= DirBlocks * WordSize

ReadBlockMap ==
  /\ phase = "map"
  /\ \/ /\ BlockMapIsWhole
        /\ LET addrs == WordAddresses(BlockMap) IN
           /\ Reveal(addrs)
           /\ dir_blocks' = [k \in 1..DirBlocks |-> content'[addrs[k]]]
        /\ phase' = "directory"
        /\ UNCHANGED <<super, d, off, sizes, stream_sizes, stream_blocks, reply>>
     \/ /\ ~BlockMapIsWhole
        /\ Refuse("refused")
        /\ UNCHANGED content

Directory == PerBlock(dir_blocks, super.num_directory_bytes)

ReadDirectory ==
  /\ phase = "directory"
  /\ \/ /\ Directory.outcome = "bytes"
        /\ LET addrs == WordAddresses(Directory) IN
           /\ Reveal(addrs)
           /\ d' = [words |-> [k \in DOMAIN addrs |-> content'[addrs[k]]],
                    len |-> Directory.len]
        /\ phase' = "count"
        /\ UNCHANGED <<super, dir_blocks, off, sizes, stream_sizes, stream_blocks, reply>>
     \/ /\ Directory.outcome = "MsfError"
        /\ Refuse("refused")
        /\ UNCHANGED content

\* Mutant: one word more is taken to fit.
HoldsOneMore(n, at) == n <= (d.len - at) \div WordSize + 1

\* n words fit between byte offset at and the end of the directory.
Holds(n, at) == n <= (d.len - at) \div WordSize

\* Mutant: the count is read again as a first word.
UnpackEarly(n, at) ==
  [k \in 1..n |-> d.words[at \div WordSize + k - 1]]

\* struct.unpack_from(f"<{n}I", d, at).  A word past the end of the directory
\* is given as Nil: the code would raise struct.error, and NeverPastEnd says
\* that none is asked for.
Unpack(n, at) ==
  [k \in 1..n |-> IF at \div WordSize + k \in DOMAIN d.words
                  THEN d.words[at \div WordSize + k] ELSE Nil]

ReadStreamCount ==
  /\ phase = "count"
  /\ IF d.len >= WordSize /\ Holds(d.words[1], WordSize)
     THEN /\ sizes' = Unpack(d.words[1], WordSize)
          /\ off' = WordSize + WordSize * d.words[1]
          /\ phase' = "streams"
          /\ UNCHANGED <<super, dir_blocks, d, stream_sizes, stream_blocks, reply>>
     ELSE Refuse("refused")
  /\ UNCHANGED content

\* How many blocks a stream of that size has.
BlocksOf(size) == IF size = Nil THEN 0 ELSE CeilDiv(size, BlockSize)

NextSize == sizes[Len(stream_sizes) + 1]

AppendStream ==
  /\ stream_sizes' = Append(stream_sizes, NextSize)
  /\ stream_blocks' = Append(stream_blocks, Unpack(BlocksOf(NextSize), off))
  /\ off' = off + WordSize * BlocksOf(NextSize)
  /\ UNCHANGED <<super, phase, dir_blocks, d, sizes, reply>>

\* One turn of the loop over the sizes.
ReadStreamBlocks ==
  /\ phase = "streams"
  /\ Len(stream_sizes) < Len(sizes)
  /\ IF NextSize = Nil \/ Holds(BlocksOf(NextSize), off)
     THEN AppendStream
     ELSE Refuse("refused")
  /\ UNCHANGED content

\* sum(size for size in stream_sizes if size is not None)
Claimed(lengths) ==
  LET sum[i \in 0..Len(lengths)] ==
        IF i = 0 THEN 0
        ELSE sum[i - 1] + (IF lengths[i] = Nil THEN 0 ELSE lengths[i])
  IN sum[Len(lengths)]

Capacity == super.num_blocks * BlockSize

\* Mutant: each stream has to fit, not all of them together.
FinishCheckingEach ==
  /\ phase = "streams"
  /\ Len(stream_sizes) = Len(sizes)
  /\ Refuse(IF \E i \in DOMAIN stream_sizes : Claimed(<<stream_sizes[i]>>) > Capacity
            THEN "refused" ELSE "open")
  /\ UNCHANGED content

FinishDirectory ==
  /\ phase = "streams"
  /\ Len(stream_sizes) = Len(sizes)
  /\ Refuse(IF Claimed(stream_sizes) > Capacity THEN "refused" ELSE "open")
  /\ UNCHANGED content

\* read_stream(i), for indices on both sides of the range too.
ReadStream(i) ==
  /\ phase = "open"
  /\ reply' =
       IF i \notin 0..(Len(stream_sizes) - 1) THEN [outcome |-> "no such stream", stream |-> i]
       ELSE IF stream_sizes[i + 1] = Nil THEN [outcome |-> "nil stream", stream |-> i]
       ELSE [outcome |-> "read", stream |-> i,
             read |-> PerBlock(stream_blocks[i + 1], stream_sizes[i + 1])]
  /\ UNCHANGED <<super, content, phase, dir_blocks, d, off, sizes,
                 stream_sizes, stream_blocks>>

OpenStep ==
  \/ ParseSuperBlock \/ ReadBlockMap \/ ReadDirectory
  \/ ReadStreamCount \/ ReadStreamBlocks \/ FinishDirectory

DirectoryNext == OpenStep \/ \E i \in -1..Len(stream_sizes) : ReadStream(i)

DirectorySpec == DirectoryInit /\ [][DirectoryNext]_directoryVars

------------------------------------------------------------------------------
(***************************************************************************)
(* Properties                                                              *)
(***************************************************************************)

Phases == {"superblock", "map", "directory", "count", "streams",
           "open", "refused", "unsupported"}

DirectoryTypeOK ==
  /\ super \in SuperBlocks
  /\ phase \in Phases
  /\ dir_blocks \in Seq(Words)
  /\ d.words \in Seq(Words) /\ d.len \in Nat
  /\ Len(d.words) = d.len \div WordSize
  /\ off \in Nat
  /\ sizes \in Seq(Words) /\ stream_sizes \in Seq(Words)
  /\ stream_blocks \in Seq(Seq(Words))
  /\ \A a \in DOMAIN content : content[a] \in Words

\* Whatever counts and sizes the directory claims, what is unpacked from it
\* lies inside it: the checks before each unpack_from keep struct.error behind
\* the module's boundary.
NeverPastEnd ==
  phase \in {"streams", "open"} =>
    /\ WordSize * (1 + Len(sizes)) <= d.len
    /\ off <= d.len
    /\ off % WordSize = 0

\* An accepted list has as many blocks as its stream's size calls for, and a
\* nil stream has none: sizes and lists stay paired however many nil or empty
\* streams come between.
ListsFitSizes ==
  /\ Len(stream_blocks) = Len(stream_sizes)
  /\ \A i \in 1..Len(stream_sizes) :
       Len(stream_blocks[i]) =
         IF stream_sizes[i] = Nil THEN 0 ELSE CeilDiv(stream_sizes[i], BlockSize)

\* The directory parsed is the directory stored: writing the count, the sizes
\* and the lists one after the other gives back the words up to the cursor.
DirectoryRoundTrip ==
  phase \in {"streams", "open"} =>
    SubSeq(d.words, 1, off \div WordSize) =
      <<Len(sizes)>> \o sizes \o FlattenSeq(stream_blocks)

\* The buffers an opened container asks for are bounded by the file, whatever
\* its directory claims: streams that each fit are refused if together they
\* claim more than there is.
StreamsFit == phase = "open" => Claimed(stream_sizes) <= FileLen

\* A stream is read whole or refused: never short, never padded.
ReadsAreExact ==
  (reply.outcome = "read" /\ reply.read.outcome = "bytes") =>
    reply.read.len = stream_sizes[reply.stream + 1]

=============================================================================
