------------------------------- MODULE MC_Sweep -------------------------------
(* The sweeps over the corpus and over shipped images, and the reading of what *)
(* llvm-pdbutil prints: `call` is the one that runs, and the state of the      *)
(* others stays as it was.                                                     *)
EXTENDS LlvmValidation, LlvmDump, OmapValidation

-----------------------------------------------------------------------------
(* The corpus: two files; an optional check with a dump of its own, then two   *)
(* required ones that share a dump.                                            *)

CONSTANTS f1, f2
MCFiles == {f1, f2}
MCChecks == <<"thunks", "contributions", "module attribution">>
MCArgs == [c \in {"thunks", "contributions", "module attribution"} |->
              IF c = "thunks" THEN "--symbols" ELSE "--section-contribs"]
MCOptional == {"thunks"}
Symmetry == Permutations(MCFiles)

-----------------------------------------------------------------------------
(* The dump: two modules of up to two blocks, of one to three entries each, or *)
(* three small ones; among them modules without a stream or a name.            *)

MCBlocks == [file : {0, 1}, entries : {1, 3}] \cup [file : {2}, entries : {0, 1}]
MCLists ==
  {<<>>} \cup {<<b>> : b \in MCBlocks} \cup {<<b, c>> : b, c \in {x \in MCBlocks : x.file < 2}}
MCModules ==
  [stream : {TRUE}, named : {TRUE}, blocks : MCLists]
  \cup [stream : {TRUE}, named : {FALSE}, blocks : {<<>>, <<[file |-> 1, entries |-> 2]>>}]
  \cup [stream : {FALSE}, named : {TRUE}, blocks : {<<>>}]
MCSmall == {m \in MCModules : m.blocks \in {<<>>, <<[file |-> 1, entries |-> 1]>>}}

MCLineTables ==
  {<<>>} \cup {<<m, n>> : m, n \in MCModules} \cup {<<l, m, n>> : l, m, n \in MCSmall}

-----------------------------------------------------------------------------
(* Shipped images: six addresses and one export, for every code, under one or  *)
(* two functions; and two images, of which one may be ntdll.                   *)

MCCodes ==
  {code \in [Addresses -> Instructions] :
     /\ \A a \in Addresses : code[a] = "back" => a = 2 /\ code[1] # "body"
     /\ code[LastAddress] = "body"}

MCAt == {[names |-> {n}, rva |-> r, raw |-> 0] : n \in {"f", "_f"}, r \in {0, 2, 4, Nowhere}}
MCFunctions ==
  {<<x>> : x \in MCAt} \cup {<<[names |-> {"_f"}, rva |-> 1, raw |-> 1], x>> : x \in MCAt}

MCOneImage ==
  [code : MCCodes, exports : [{"f"} -> {0, 1, 4}], functions : MCFunctions,
   identity : {TRUE}, ntdll : {FALSE}]

MCImages ==
  [code : {[a \in Addresses |-> "body"]}, exports : {<<>>, [n \in ExportNames |-> 2]},
   functions : {<<[names |-> {"f"}, rva |-> 2, raw |-> 2]>>,
                <<[names |-> {"_f", "g"}, rva |-> 3, raw |-> 1]>>},
   identity : BOOLEAN, ntdll : BOOLEAN]

MCImageLists == {<<>>} \cup {<<m>> : m \in MCOneImage} \cup {<<m, n>> : m, n \in MCImages}

-----------------------------------------------------------------------------
VARIABLE call

CorpusIdle ==
    /\ limit = 0 /\ allow = FALSE /\ require = FALSE /\ tool = FALSE /\ left = {}
    /\ Init
DumpIdle == in_file = <<>> /\ DumpInit
ImagesIdle == images = <<>> /\ OmapInit

SweepInit ==
    \/ call = "validate_against_llvm" /\ DumpIdle /\ ImagesIdle /\ Init
    \/ call = "check_lines" /\ CorpusIdle /\ ImagesIdle /\ DumpInit
    \/ call = "validate_omap" /\ CorpusIdle /\ DumpIdle /\ OmapInit

SweepNext ==
    \/ /\ call = "validate_against_llvm" /\ Next
       /\ UNCHANGED <<dumpVars, omapVars, call>>
    \/ /\ call = "check_lines" /\ DumpNext
       /\ UNCHANGED <<vars, omapVars, call>>
    \/ /\ call = "validate_omap" /\ OmapNext
       /\ UNCHANGED <<vars, dumpVars, call>>

SweepSpec == SweepInit /\ [][SweepNext]_<<vars, dumpVars, omapVars, call>>
=============================================================================
