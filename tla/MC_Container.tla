----------------------------- MODULE MC_Container -----------------------------
(* A file of three blocks of three words, and a byte, read two ways: `call` is *)
(* the one that runs, and the state of the other stays as it was.              *)
EXTENDS MsfRead, MsfDirectory

-----------------------------------------------------------------------------
(* One read: every block list of up to five indices, two of them past the      *)
(* file, for sizes around the block borders.                                   *)

CONSTANTS MaxList, MaxBlock, Sizes

MCRequests == [indices : SeqOf(0..MaxBlock, MaxList), size : Sizes]

-----------------------------------------------------------------------------
(* Opening: directories of up to seven words in three blocks, or with a tail   *)
(* in a fourth, so that the block map itself runs over two blocks; word values *)
(* that serve as counts, as sizes of none, one and two blocks, and as indices  *)
(* inside and outside the file.  Two streams of 23 bytes are more than a file  *)
(* of three blocks has, and their directory is seven words long.               *)

CONSTANTS LongDirectories, ShortDirectories

MCSuperBlocks ==
  [kind : {"msf7"}, num_blocks : {3}, num_directory_bytes : LongDirectories,
   block_map_addr : {1}]
  \cup
  [kind : {"msf7"}, num_blocks : {1, 3, 4}, num_directory_bytes : ShortDirectories,
   block_map_addr : {2, 3}]
  \cup
  [kind : {"foreign", "bad magic", "bad block size", "short"}, num_blocks : {4},
   num_directory_bytes : {4}, block_map_addr : {1}]

-----------------------------------------------------------------------------
VARIABLE call

ReadIdle == request = [indices |-> <<>>, size |-> 0] /\ Init
OpenIdle == super = (CHOOSE s \in SuperBlocks : TRUE) /\ DirectoryInit

ContainerInit ==
  \/ call = "_read_blocks" /\ OpenIdle /\ Init
  \/ call = "MsfFile" /\ ReadIdle /\ DirectoryInit

ContainerNext ==
  \/ call = "_read_blocks" /\ Next /\ UNCHANGED <<directoryVars, call>>
  \/ call = "MsfFile" /\ DirectoryNext /\ UNCHANGED <<vars, call>>

ContainerSpec == ContainerInit /\ [][ContainerNext]_<<vars, directoryVars, call>>
=============================================================================
