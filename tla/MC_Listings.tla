---------------------------- MODULE MC_Listings ----------------------------
(* What an open PDB gives: its listings, the addresses in them, and what it    *)
(* says of both; one call at a time: `call` is the one that runs, and the      *)
(* state of the others stays as it was.                                        *)
EXTENDS FunctionListing, SymbolListings, InlinePlacement, Diagnose, AddressSpace

-----------------------------------------------------------------------------
(* functions(): two modules, the first with up to three records and the second *)
(* with up to one; up to two publics under three address maps; names that      *)
(* agree and differ at an address, an address in code, one in data and one in  *)
(* no section.                                                                 *)

Code == <<1, 0>>
CodeToo == <<1, 4>>
Data == <<2, 0>>
Nowhere == <<3, 0>>

FnRec(k, a, n) == [kind |-> k, addr |-> a, name |-> n, size |-> n, short |-> FALSE]
ShortRec == [kind |-> "proc", addr |-> Code, name |-> 9, size |-> 9, short |-> TRUE]

MCRecords == {FnRec("proc", CodeToo, 1), FnRec("proc", Code, 2), FnRec("thunk", Code, 1),
              FnRec("proc", Nowhere, 3), FnRec("thunk", CodeToo, 3), ShortRec}

Pub(a, n, fn) == [addr |-> a, name |-> n, is_function |-> fn, short |-> FALSE]
FnPublics == {Pub(Code, 3, FALSE), Pub(CodeToo, 1, TRUE), Pub(Data, 2, FALSE),
              [Pub(Code, 9, TRUE) EXCEPT !.short = TRUE]}

AtOffsets(pubs) ==
  [i \in DOMAIN pubs |-> [addr |-> pubs[i].addr, name |-> pubs[i].name, short |-> pubs[i].short,
                          is_function |-> pubs[i].is_function, record_offset |-> 8 * i]]

FnFile(m1, m2, s, pubs, p, map) ==
  [modules |-> <<[state |-> m1[1], records |-> m1[2]], [state |-> m2[1], records |-> m2[2]]>>,
   symrecords |-> s, publics |-> AtOffsets(pubs), publics_stream |-> p, addr_map |-> map,
   sections |-> <<[base |-> 16, executable |-> TRUE], [base |-> 32, executable |-> FALSE]>>]

WholeFile(r1, r2, pubs, map) ==
  FnFile(<<"whole", r1>>, <<"whole", r2>>, "whole", pubs, "whole", map)

FnMaps == {<<>>, <<16, 8, 8>>, <<16>>}
OnePublic == <<Pub(Code, 3, FALSE)>>

EmptyFile == [modules |-> <<>>, symrecords |-> "nil", publics |-> <<>>,
              publics_stream |-> "nil", addr_map |-> <<>>, sections |-> <<>>]

MCFiles ==
  {EmptyFile}
  \cup
  {WholeFile(r1, r2, OnePublic, <<8>>) : r1 \in SeqOf(MCRecords, 3), r2 \in SeqOf(MCRecords, 1)}
  \cup
  {WholeFile(<<r1>>, <<>>, pubs, map) : r1 \in MCRecords, pubs \in SeqOf(FnPublics, 2),
                                        map \in FnMaps}
  \cup
  {FnFile(<<a, <<FnRec("proc", Code, 1)>>>>, <<b, <<FnRec("thunk", Code, 2)>>>>,
          s, <<Pub(Code, 3, TRUE), Pub(CodeToo, 1, FALSE)>>, p, <<16, 8>>) :
     a, b, s, p \in {"whole", "nil", "damaged"}}

-----------------------------------------------------------------------------
(* data_symbols(), thread_locals() and public_symbols(): two identities;       *)
(* payloads cut before, in and after the name; up to three publics.            *)

Symbol(kind, ident, size) == [kind |-> kind, ident |-> ident, size |-> size, nuls |-> {1, 11}]

MCSymbols ==
         {Symbol("gdata", i, 12) : i \in {"a", "b"}}
    \cup {Symbol("ldata", "a", 12), Symbol("thread", "a", 12)}
    \cup {Symbol("gdata", "a", n) : n \in {9, 11}}

MCPublics == {<<>>, <<3, 1>>, <<2, 3, 1>>}

-----------------------------------------------------------------------------
(* _inline_listing(): modules of up to eight records: procedures with their    *)
(* sites, the S_END of each, and the chunks after it; one record of a module   *)
(* may be damaged.                                                             *)

A == [segment |-> 1, base |-> 10]
B == [segment |-> 1, base |-> 20]
Cold == [segment |-> 1, base |-> 30]
Far == [segment |-> 2, base |-> 40]

Site(own, in) == [kind |-> "site", ok |-> TRUE, own |-> own, chunks |-> in]
Proc(addr, end) == [kind |-> "proc", ok |-> TRUE, addr |-> addr, end |-> end]
Chunk(parent, addr) == [kind |-> "sepcode", ok |-> TRUE, parent |-> parent, addr |-> addr]
EndRec == [kind |-> "end", ok |-> TRUE]

SomeSites == {Site(TRUE, {}), Site(FALSE, {1}), Site(TRUE, {1, 2}), Site(FALSE, {2, 3})}
Tails == {<<>>, <<Chunk(A, Cold)>>, <<Chunk(A, Far)>>, <<Chunk(B, Cold)>>,
          <<Chunk(A, Cold), Chunk(A, Far)>>, <<Chunk(B, Cold), Chunk(A, Far)>>}

OneProc == {<<Proc(A, 3), s, EndRec>> \o t : s \in SomeSites, t \in Tails}
TwoProcs == {<<Proc(A, 3), r, EndRec, Proc(B, 6), s, EndRec>> \o t :
                r, s \in SomeSites, t \in Tails}
StraySite == {<<Site(TRUE, {})>>}

WithDamage(m) == {[m EXCEPT ![i].ok = FALSE] : i \in {j \in DOMAIN m : m[j].kind # "end"}}
SoundBodies == OneProc \cup TwoProcs \cup StraySite
OneBody == SoundBodies \cup UNION {WithDamage(m) : m \in SoundBodies}

\* Two modules whose second could be read with what the first left behind.
ShortBodies == {m \in OneBody : Len(m) <= 4}

MCInlineFiles == {<<>>} \cup {<<m>> : m \in OneBody} \cup (ShortBodies \X ShortBodies)

-----------------------------------------------------------------------------
(* diagnose(): two modules, each with its own damage. *)

DiagRec(kind) == [kind |-> kind, ok |-> TRUE]
Bodies == {<<DiagRec("proc"), DiagRec("other")>>, <<DiagRec("thunk"), DiagRec("proc")>>,
           <<DiagRec("managed")>>}

WholeModule(recs) == [recs |-> recs, stream |-> TRUE, signature |-> TRUE,
                      reach |-> Len(recs), stop |-> "end"]

DamagedOf(d) ==
         {[d EXCEPT !.stream = FALSE], [d EXCEPT !.signature = FALSE]}
    \cup {[d EXCEPT !.recs[k].ok = FALSE] : k \in DOMAIN d.recs}
    \cup {[d EXCEPT !.reach = n, !.stop = s] : n \in 0..Len(d.recs) - 1, s \in Stops \ {"end"}}

MCModules == LET whole == {WholeModule(b) : b \in Bodies}
             IN  whole \cup UNION {DamagedOf(d) : d \in whole}

-----------------------------------------------------------------------------
(* Addresses: three images, and every way their four streams can be missing,   *)
(* empty, unreadable or out of order.                                          *)

\* Section lengths below, at and above the alignment.
Plain == {[lengths |-> <<3, 4, 5>>, shipped |-> <<4, 8, 12>>, moved |-> <<>>]}

\* Bytes 4..7 and 8..10: some swapped, one dropped, one section moved up.
Optimised ==
    {[lengths |-> <<4, 3>>, shipped |-> <<4, 12>>,
      moved |-> [b \in 4..10 |->
          CASE b = 4 -> 6 [] b = 5 -> 7 [] b = 6 -> 0 [] b = 7 -> 4
            [] b = 8 -> 14 [] b = 9 -> 12 [] b = 10 -> 13]],
     [lengths |-> <<5, 2>>, shipped |-> <<8, 16>>,
      moved |-> [b \in (4..8) \cup (12..13) |->
          CASE b \in 4..6 -> b + 5 [] b = 7 -> 0 [] b = 8 -> 8
            [] b \in 12..13 -> b + 4]]}

TableStreams(table) == {[state |-> s, table |-> table] : s \in {"none", "bad", "empty", "ok"}}
NoStream == [state |-> "none", table |-> <<>>]

SectionMapOf(lengths) ==
    [i \in DOMAIN lengths |-> [absolute |-> FALSE, frame |-> i, length |-> lengths[i]]]
SectionMaps(lengths) ==
    {<<>>,
     Append(SectionMapOf(lengths), [absolute |-> TRUE, frame |-> Len(lengths) + 1, length |-> 9]),
     \* a map that skips a frame number
     [SectionMapOf(lengths) EXCEPT ![Len(lengths)].frame = @ + 1]}

TableOf(image) == SetToSortSeq(OmapOf(image), LAMBDA a, b : a.source < b.source)

FilesOf(image) ==
    {f \in [image : {image}, headers : TableStreams(image.shipped), map : SectionMaps(image.lengths),
            original : IF IsOptimised(image) THEN TableStreams(LinkedAt(image.lengths))
                       ELSE {NoStream},
            omap : IF IsOptimised(image)
                   THEN TableStreams(TableOf(image))
                        \cup {[state |-> "ok", table |-> Reverse(TableOf(image))]}
                   ELSE {NoStream}] :
        \* an optimised image whose file says so nowhere cannot be told apart
        IsOptimised(image) => "ok" \in {f.original.state, f.omap.state}}

MCImageFiles == UNION {FilesOf(image) : image \in Plain \cup Optimised}

-----------------------------------------------------------------------------
VARIABLE call

FunctionsIdle == listed_file = EmptyFile /\ code_publics = TRUE /\ FunctionsInit
SymbolsIdle == /\ moduleRecords = <<>> /\ symrecs = <<>> /\ listing = {"thread"}
               /\ stored = <<>> /\ addrMap = [cut |-> FALSE, map |-> <<>>]
               /\ SymbolsInit
PlacementIdle == modules = <<>> /\ PlacementInit
DiagnoseIdle ==
    LET body == [m \in 1..NumModules |-> CHOOSE d \in Modules : TRUE]
    IN  /\ pdb = [modules |-> body, listed |-> 0, stopped |-> FALSE, stripped |-> FALSE,
                  symrec |-> CHOOSE r \in Symrecs(body) : ~r.valid]
        /\ DiagnoseInit
AddressIdle == file = (CHOOSE f \in Files : TRUE) /\ AddressInit

Init ==
    \/ /\ call = "functions"
       /\ SymbolsIdle /\ PlacementIdle /\ DiagnoseIdle /\ AddressIdle /\ FunctionsInit
    \/ /\ call = "symbols"
       /\ FunctionsIdle /\ PlacementIdle /\ DiagnoseIdle /\ AddressIdle /\ SymbolsInit
    \/ /\ call = "inline"
       /\ FunctionsIdle /\ SymbolsIdle /\ DiagnoseIdle /\ AddressIdle /\ PlacementInit
    \/ /\ call = "diagnose"
       /\ FunctionsIdle /\ SymbolsIdle /\ PlacementIdle /\ AddressIdle /\ DiagnoseInit
    \/ /\ call = "addresses"
       /\ FunctionsIdle /\ SymbolsIdle /\ PlacementIdle /\ DiagnoseIdle /\ AddressInit

Next ==
    \/ /\ call = "functions" /\ FunctionsNext
       /\ UNCHANGED <<symbolVars, placementVars, diagnoseVars, addressVars, call>>
    \/ /\ call = "symbols" /\ SymbolsNext
       /\ UNCHANGED <<functionVars, placementVars, diagnoseVars, addressVars, call>>
    \/ /\ call = "inline" /\ PlacementNext
       /\ UNCHANGED <<functionVars, symbolVars, diagnoseVars, addressVars, call>>
    \/ /\ call = "diagnose" /\ DiagnoseNext
       /\ UNCHANGED <<functionVars, symbolVars, placementVars, addressVars, call>>
    \/ /\ call = "addresses" /\ AddressNext
       /\ UNCHANGED <<functionVars, symbolVars, placementVars, diagnoseVars, call>>

Spec == Init /\ [][Next]_<<functionVars, symbolVars, placementVars, diagnoseVars, addressVars, call>>
=============================================================================
