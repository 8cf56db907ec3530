---------------------------- MODULE OmapValidation ----------------------------
(***************************************************************************)
(* The check of translated addresses against the exports of shipped images *)
(* (dev/validate_omap_against_windows.py): main() finds a PDB for each     *)
(* image, check() puts every export in a class, and the exit status says   *)
(* whether a map was seen to do nothing.                                   *)
(*                                                                         *)
(* An image is its code, an instruction to an address, and its exports; a  *)
(* PDB is what functions() gives for it: names, the address, and the       *)
(* address before translation.                                             *)
(***************************************************************************)
EXTENDS Integers, Sequences, FiniteSets, SequencesExt

CONSTANTS
    ImageLists,   \* what may lie under the directory: sequences of images
    LastAddress,  \* addresses are 0..LastAddress
    NEAR          \* how close is near

Addresses == 0..LastAddress
Nowhere == -1        \* None, for an address

\* "prologue" does nothing and what is at the next address follows; "jump" jumps
\* to the next address, "back" to the first.
Instructions == {"body", "prologue", "jump", "back"}
ExportNames == {"f", "g"}
Undecorated == [name \in {"_f", "f", "g"} |-> IF name = "_f" THEN "f" ELSE name]

ASSUME ImagesAssumption ==
  /\ LastAddress \in Nat /\ NEAR \in Nat
  /\ \A list \in ImageLists : list \in Seq(Range(list)) /\ \A k \in DOMAIN list :
    /\ list[k].code \in [Addresses -> Instructions]
    /\ DOMAIN list[k].exports \subseteq ExportNames /\ Range(list[k].exports) \subseteq Addresses
    /\ list[k].functions \in Seq([names : SUBSET DOMAIN Undecorated,
                                  rva : Addresses \cup {Nowhere}, raw : Addresses \cup {Nowhere}])
    /\ list[k].identity \in BOOLEAN /\ list[k].ntdll \in BOOLEAN

VARIABLES
    images,     \* the images, in their order
    image_no,   \* the one under way
    omap_pc,
    beside,     \* the PDB lies in --pdbs
    cached,     \* image -> what lies in the cache under its identity
    rows,       \* per compared image: [image, class, untranslated]
    omap_failures,
    omap_status

omapVars == <<images, image_no, omap_pc, beside, cached, rows, omap_failures, omap_status>>

OmapInit ==
    /\ images \in ImageLists
    /\ image_no = 1 /\ omap_pc = "image"
    /\ beside = FALSE
    /\ cached \in [DOMAIN images -> {"absent", "part", "whole"}]
    /\ rows = <<>> /\ omap_failures = {} /\ omap_status = "none"

Image == images[image_no]

-----------------------------------------------------------------------------
(* check()                                                                     *)

\* setdefault under the name and under its undecorated form, function by function.
Named(functions, key) ==
    {k \in DOMAIN functions : \E n \in functions[k].names : key \in {n, Undecorated[n]}}
First(functions, key) ==
    functions[CHOOSE k \in Named(functions, key) : \A j \in Named(functions, key) : k <= j]

MaxHops == 4

JumpTarget(at, op) == IF op = "jump" THEN at + 1 ELSE 0

\* Past the prologue that does nothing, if one is there.
Past(code, at) == IF at \in Addresses /\ code[at] = "prologue" THEN at + 1 ELSE at

\* follow_thunk from the address on, with so many hops left.
FollowThunk(code, rva) ==
    LET from[hops \in 0..MaxHops] ==
          [at \in Nat |->
             LET past == Past(code, at) IN
             IF hops = 0 THEN at
             ELSE IF past \notin Addresses THEN Nowhere
             ELSE IF code[past] \in {"jump", "back"} THEN from[hops - 1][JumpTarget(past, code[past])]
             ELSE IF hops < MaxHops THEN past ELSE Nowhere]
    IN from[MaxHops][rva]

NamedAt(functions) == {functions[k].rva : k \in DOMAIN functions} \ {Nowhere}

\* Mutant: an alias is looked for at the export, not behind its stub.
AliasAtExport(export, led) == {export}

\* Where purepdb may name the export's address under another name.
AliasAt(export, led) == {export, led}

Class(x, name) ==
    LET got == First(x.functions, name).rva
        export == x.exports[name]
        led == FollowThunk(x.code, export)
    IN IF got = export THEN "exact"
       ELSE IF led = got THEN "thunk"
       ELSE IF AliasAt(export, led) \cap NamedAt(x.functions) # {} THEN "alias"
       ELSE IF got # Nowhere /\ got - export \in -NEAR..NEAR THEN "near"
       ELSE "far"

\* The exports that have a name in the PDB.
Common(x) == {n \in DOMAIN x.exports : Named(x.functions, n) # {}}

Result(x) ==
    [image |-> image_no,
     class |-> [n \in Common(x) |-> Class(x, n)],
     untranslated |-> {n \in Common(x) : First(x.functions, n).raw = x.exports[n]}]

-----------------------------------------------------------------------------
(* main()                                                                      *)

NextImage ==
    /\ image_no' = image_no + 1 /\ omap_pc' = "image" /\ beside' = FALSE

Skipped == NextImage /\ UNCHANGED <<cached, rows, omap_failures, omap_status>>

NoIdentity == omap_pc = "image" /\ image_no <= Len(images) /\ ~Image.identity /\ Skipped

\* --pdbs, then the cache, then --fetch, then none.
FindPdb ==
    /\ omap_pc = "image" /\ image_no <= Len(images) /\ Image.identity
    /\ \/ /\ beside' = TRUE /\ omap_pc' = "check"
          /\ UNCHANGED <<image_no, cached, rows, omap_failures, omap_status>>
       \/ /\ cached[image_no] # "absent" /\ omap_pc' = "check"
          /\ UNCHANGED <<beside, image_no, cached, rows, omap_failures, omap_status>>
       \/ /\ cached[image_no] = "absent" /\ omap_pc' = "check"
          /\ cached' = [cached EXCEPT ![image_no] = "whole"]
          /\ UNCHANGED <<beside, image_no, rows, omap_failures, omap_status>>
       \/ cached[image_no] = "absent" /\ Skipped

\* The half of a file that a broken run left is refused, every time.
Readable == beside \/ cached[image_no] = "whole"

\* min_exact is the share of an ntdll that must be exact: here all of it, or none.
CheckPair ==
    /\ omap_pc = "check"
    /\ IF Readable /\ DOMAIN Image.exports # {}
       THEN LET result == Result(Image) IN
            /\ rows' = Append(rows, result)
            /\ \E min_exact \in {"none", "all"} :
                 omap_failures' = omap_failures
                   \cup (IF min_exact = "all" /\ Image.ntdll /\ Range(result.class) \ {"exact"} # {}
                         THEN {<<"rate", image_no>>} ELSE {})
                   \cup (IF result.untranslated # {} THEN {<<"untranslated", image_no>>} ELSE {})
       ELSE UNCHANGED <<rows, omap_failures>>
    /\ NextImage /\ UNCHANGED <<cached, omap_status>>

FinishImage ==
    /\ omap_pc = "image" /\ image_no > Len(images)
    /\ omap_pc' = "ended"
    /\ omap_status' = IF rows = <<>> \/ omap_failures # {} THEN "1" ELSE "0"
    /\ UNCHANGED <<image_no, beside, cached, rows, omap_failures>>

OmapNext == (NoIdentity \/ FindPdb \/ CheckPair \/ FinishImage) /\ UNCHANGED images

OmapSpec == OmapInit /\ [][OmapNext]_omapVars

-----------------------------------------------------------------------------
(* Properties                                                                  *)

\* Where the stubs from an address lead: the address, at most MaxHops jumps on,
\* at which none jumps any more.
JumpFrom(code, at) ==
    LET past == IF code[at] = "prologue" THEN at + 1 ELSE at
    IN IF past \in Addresses /\ code[past] \in {"jump", "back"}
       THEN {JumpTarget(past, code[past])} \cap Addresses ELSE {}
Landing(code, at) ==
    LET reached[k \in 0..MaxHops] ==
          IF k = 0 THEN {at} ELSE UNION {JumpFrom(code, a) : a \in reached[k - 1]}
    IN {a \in UNION {reached[k] : k \in 0..MaxHops} : JumpFrom(code, a) = {}}

\* The prologue that does nothing is there for a jump behind it, and jumps end.
OnlyStubs(x) ==
    \A a \in Addresses :
      /\ x.code[a] = "prologue" => JumpFrom(x.code, a) # {}
      /\ x.code[a] \in {"jump", "back"} => JumpFrom(x.code, a) # {} /\ Landing(x.code, a) # {}
Located(x) == \A k \in DOMAIN x.functions : x.functions[k].rva # Nowhere

Agrees == {"exact", "thunk", "alias"}

\* An export counts as agreement when, and only when, purepdb lists a function
\* where it points or where the stubs it points at lead: neither a pairing by
\* name nor the hops decide it.
AgreementIsEarned ==
    \A r \in Range(rows) :
      LET x == images[r.image] IN
      OnlyStubs(x) /\ Located(x) =>
        \A n \in DOMAIN r.class :
          r.class[n] \in Agrees <=>
            ({x.exports[n]} \cup Landing(x.code, x.exports[n])) \cap NamedAt(x.functions) # {}

\* "lands on purepdb's address in each case; that is what makes these a stub
\* rather than a disagreement" (validate_omap_against_windows.py:194).  An
\* export that is no stub has no landing, a name that is not located has no
\* address, and None equals None.
ThunkLandsOnAnAddress ==
    \A r \in Range(rows) : \A n \in DOMAIN r.class :
      r.class[n] = "thunk" => First(images[r.image].functions, n).rva # Nowhere

\* "Following the prologue-that-does-nothing and every short or near jump"
\* (validate_omap_against_windows.py:192): behind a jump, a prologue that no jump
\* follows is stepped over all the same, and the function begins before it.
LandsWhereTheFunctionBegins ==
    \A r \in Range(rows) :
      LET x == images[r.image] IN
      \A n \in DOMAIN r.class :
        Located(x) /\ Landing(x.code, x.exports[n]) \cap NamedAt(x.functions) # {}
          => r.class[n] \in Agrees
=============================================================================
