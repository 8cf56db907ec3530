--------------------------- MODULE InlinePlacement ---------------------------
(***************************************************************************)
(* PDB._inline_listing (purepdb/pdb.py): each module's records are walked  *)
(* twice, first for procedures and separated code chunks, then for inline  *)
(* sites, and each site is placed in the procedure that encloses it.       *)
(* diagnose() runs the same placement to count what the listing lost.      *)
(*                                                                         *)
(* A record's place in the module is its position; the records are those   *)
(* iter_records yields, and a chunk's record stands for the S_END after it *)
(* too.                                                                    *)
(***************************************************************************)
EXTENDS Integers, Sequences, FiniteSets, FiniteSetsExt, SequencesExt, StableSort

CONSTANTS
    InlineFiles           \* the files considered, each its modules' records

(***************************************************************************)
(* A record: its kind; `ok`, its payload is long enough for that kind; and *)
(* what the kind carries -- the address of a procedure, with the position  *)
(* of the record that ends it (0: unset); the address of a chunk and of    *)
(* the procedure it belongs to; the ranges of a site, in the body (own)    *)
(* and in chunks.                                                          *)
(***************************************************************************)
InlineKinds == {"proc", "sepcode", "site", "end"}

ASSUME InlineFilesAssumption ==
    /\ \A f \in InlineFiles : f \in Seq(ToSet(f))
    /\ \A f \in InlineFiles : \A m \in ToSet(f) :
        /\ m \in Seq(ToSet(m))
        /\ \A i \in DOMAIN m :
            /\ m[i].kind \in InlineKinds /\ m[i].ok \in BOOLEAN
            /\ m[i].kind = "proc" => m[i].end \in 0..Len(m)
            /\ m[i].kind = "site" => m[i].own \in BOOLEAN /\ m[i].chunks \subseteq Nat

(***************************************************************************)
(* What a compiler writes.  A procedure goes up to its S_END and has no    *)
(* other in it, and no two stretches of its code are at one address.       *)
(***************************************************************************)
ASSUME ModulesAreWritten ==
    \A f \in InlineFiles : \A m \in ToSet(f) :
        /\ \A p \in DOMAIN m : m[p].kind = "proc" =>
            /\ m[p].end \in p+1..Len(m) /\ m[m[p].end].kind = "end"
            /\ \A i \in p+1..m[p].end-1 : m[i].kind \notin {"proc", "end"}
        /\ \A i, j \in {k \in DOMAIN m : m[k].kind = "sepcode"} :
            /\ m[i].addr # m[i].parent
            /\ m[i].parent = m[j].parent /\ m[i].addr = m[j].addr => i = j

VARIABLES
    modules,    \* the modules of the file
    mod,        \* the one being read
    pass,       \* "collect", "place" or, after the last module, "done"
    record_no,  \* the next record of this pass
    procs,      \* positions of this module's readable procedures
    chunks,     \* procedure address -> positions of its chunks, in order
    out,        \* the listing: [mod, site, parent, ranges] per segment
    placed,     \* the counts diagnose() takes from the same walk
    malformed

placementVars == <<modules, mod, pass, record_no, procs, chunks, out, placed, malformed>>

PlacementInit ==
    /\ modules \in InlineFiles
    /\ mod = 1 /\ record_no = 1
    /\ pass = IF modules = <<>> THEN "done" ELSE "collect"
    /\ procs = <<>> /\ chunks = <<>>
    /\ out = <<>> /\ placed = 0 /\ malformed = 0

Body == modules[mod]
Rec == Body[record_no]

Visiting(p) == pass = p /\ record_no <= Len(Body)

-----------------------------------------------------------------------------
(* _collect_procs_and_chunks *)

Addr(i) == Body[i].addr
ChunksOf(addr) == IF addr \in DOMAIN chunks THEN chunks[addr] ELSE <<>>

CollectProc ==
    /\ Visiting("collect") /\ Rec.kind = "proc"
    /\ procs' = IF Rec.ok THEN Append(procs, record_no) ELSE procs
    /\ record_no' = record_no + 1
    /\ UNCHANGED <<modules, mod, pass, chunks, out, placed, malformed>>

\* A chunk record too short to parse is skipped, and takes no number.
CollectChunk ==
    /\ Visiting("collect") /\ Rec.kind = "sepcode"
    /\ chunks' = IF Rec.ok
                 THEN [a \in DOMAIN chunks \cup {Rec.parent} |->
                          IF a = Rec.parent THEN Append(ChunksOf(a), record_no) ELSE chunks[a]]
                 ELSE chunks
    /\ record_no' = record_no + 1
    /\ UNCHANGED <<modules, mod, pass, procs, out, placed, malformed>>

CollectNothing ==
    /\ Visiting("collect") /\ Rec.kind \in {"site", "end"}
    /\ record_no' = record_no + 1
    /\ UNCHANGED <<modules, mod, pass, procs, chunks, out, placed, malformed>>

BeginPlacing ==
    /\ pass = "collect" /\ record_no > Len(Body)
    /\ pass' = "place" /\ record_no' = 1
    /\ UNCHANGED <<modules, mod, procs, chunks, out, placed, malformed>>

-----------------------------------------------------------------------------
(* _place_sites_from_stream and _place_one_site *)

\* bisect_right: the last procedure to start before the site, 0 without one.
Before(site) == Max({0} \cup {i \in ToSet(procs) : i <= site})

Encloses(p, site) ==
    /\ p # 0
    /\ Body[p].end # 0 => site < Body[p].end

\* Mutant: a chunk is numbered among the chunks of the module.
RangesOfAnyChunk(p, site) ==
    LET own == Ascending(UNION {ToSet(chunks[a]) : a \in DOMAIN chunks})
        numbers == Ascending(Body[site].chunks \cap DOMAIN own)
    IN  (IF Body[site].own THEN <<Addr(p)>> ELSE <<>>)
        \o [n \in DOMAIN numbers |-> Body[own[numbers[n]]].addr]

\* The ranges of a site as (segment, base) pairs, its body first.  A chunk the
\* module does not carry is passed by.
RangesOf(p, site) ==
    LET own == ChunksOf(Addr(p))
        numbers == Ascending(Body[site].chunks \cap DOMAIN own)
    IN  (IF Body[site].own THEN <<Addr(p)>> ELSE <<>>)
        \o [n \in DOMAIN numbers |-> Body[own[numbers[n]]].addr]

\* One entry per segment: by_segment is a dict, in the order of first use.
Entries(p, site) ==
    LET ranges == RangesOf(p, site)
        firsts == {k \in DOMAIN ranges :
                      \A j \in 1..k-1 : ranges[j].segment # ranges[k].segment}
        order == Ascending(firsts)
        alike(k) == Ascending({j \in DOMAIN ranges : ranges[j].segment = ranges[k].segment})
    IN  [n \in DOMAIN order |->
            [mod |-> mod, site |-> site, parent |-> p,
             ranges |-> [k \in DOMAIN alike(order[n]) |-> ranges[alike(order[n])[k]]]]]

\* Mutant: entries are counted, not the records they come from.
PlaceSiteCountingEntries ==
    /\ Visiting("place") /\ Rec.kind = "site" /\ Rec.ok
    /\ LET p == Before(record_no)
           entries == IF Encloses(p, record_no) THEN Entries(p, record_no) ELSE <<>>
       IN  /\ out' = out \o entries
           /\ placed' = placed + Len(entries)
    /\ record_no' = record_no + 1
    /\ UNCHANGED <<modules, mod, pass, procs, chunks, malformed>>

PlaceSite ==
    /\ Visiting("place") /\ Rec.kind = "site" /\ Rec.ok
    /\ LET p == Before(record_no)
           entries == IF Encloses(p, record_no) THEN Entries(p, record_no) ELSE <<>>
       IN  /\ out' = out \o entries
           /\ placed' = IF entries = <<>> THEN placed ELSE placed + 1
    /\ record_no' = record_no + 1
    /\ UNCHANGED <<modules, mod, pass, procs, chunks, malformed>>

SkipMalformedSite ==
    /\ Visiting("place") /\ Rec.kind = "site" /\ ~Rec.ok
    /\ malformed' = malformed + 1
    /\ record_no' = record_no + 1
    /\ UNCHANGED <<modules, mod, pass, procs, chunks, out, placed>>

PlaceNothing ==
    /\ Visiting("place") /\ Rec.kind # "site"
    /\ record_no' = record_no + 1
    /\ UNCHANGED <<modules, mod, pass, procs, chunks, out, placed, malformed>>

NextModule ==
    /\ pass = "place" /\ record_no > Len(Body)
    /\ IF mod = Len(modules) THEN pass' = "done" /\ UNCHANGED <<mod, record_no>>
       ELSE pass' = "collect" /\ mod' = mod + 1 /\ record_no' = 1
    /\ procs' = <<>> /\ chunks' = <<>>
    /\ UNCHANGED <<modules, out, placed, malformed>>

PlacementNext == CollectProc \/ CollectChunk \/ CollectNothing \/ BeginPlacing
        \/ PlaceSite \/ SkipMalformedSite \/ PlaceNothing \/ NextModule

PlacementSpec == PlacementInit /\ [][PlacementNext]_placementVars

-----------------------------------------------------------------------------
(* Properties *)

Sites(m) == {i \in DOMAIN modules[m] : modules[m][i].kind = "site"}
AllSites == UNION {{m} \X Sites(m) : m \in DOMAIN modules}
Inline_records == Cardinality(AllSites)

(***************************************************************************)
(* What encloses a site is known from the nesting of the records alone:    *)
(* the procedure whose S_END has not come yet, 0 outside of every one.     *)
(***************************************************************************)
Open(m, i) == {p \in 1..i-1 : /\ modules[m][p].kind = "proc"
                              /\ \A j \in p+1..i-1 : modules[m][j].kind # "end"}
Scope(m, i) == Max({0} \cup Open(m, i))

(***************************************************************************)
(* A site is listed under the procedure it is nested in, and under no      *)
(* other: not under the one before when its own cannot be read, and not    *)
(* under one of another module.                                            *)
(***************************************************************************)
SitesAreInScope ==
    \A k \in DOMAIN out :
        /\ out[k].parent = Scope(out[k].mod, out[k].site) /\ out[k].parent # 0
        /\ modules[out[k].mod][out[k].parent].ok

\* The chunks whose parent is the procedure, numbered as they stand in the stream.
Chunks(m, p) ==
    Ascending({i \in DOMAIN modules[m] : /\ modules[m][i].kind = "sepcode"
                                         /\ modules[m][i].parent = modules[m][p].addr})
TrueAddresses(m, i) ==
    LET p == Scope(m, i)  s == modules[m][i]  mine == Chunks(m, p)
    IN       {a \in {modules[m][p].addr} : s.own}
       \cup {modules[m][mine[c]].addr : c \in s.chunks \cap DOMAIN mine}

Intact(m) == \A i \in DOMAIN modules[m] : modules[m][i].ok

\* Where the listing has ranges of a site: the entry, and the place in it.
ListedAt(m, i) ==
    UNION {{k} \X DOMAIN out[k].ranges : k \in {l \in DOMAIN out : out[l].mod = m /\ out[l].site = i}}
RangeAt(x) == out[x[1]].ranges[x[2]]

(***************************************************************************)
(* In a module without damaged records every site is listed with each of   *)
(* its ranges once, at the address of its code, in one entry per segment   *)
(* -- although the chunks that give those addresses come after the sites.  *)
(***************************************************************************)
EveryRangeOnce ==
    pass = "done" =>
        \A m \in DOMAIN modules : Intact(m) => \A i \in Sites(m) :
            Scope(m, i) # 0 =>
                /\ {RangeAt(x) : x \in ListedAt(m, i)} = TrueAddresses(m, i)
                /\ \A x, y \in ListedAt(m, i) :
                    /\ RangeAt(x) = RangeAt(y) => x = y
                    /\ RangeAt(x).segment = RangeAt(y).segment <=> x[1] = y[1]

SitesAreInPlace == SitesAreInScope /\ EveryRangeOnce

(***************************************************************************)
(* Diagnostics.unplaced_inline_sites, records less malformed less placed,  *)
(* is the number of readable sites the listing does not mention.           *)
(***************************************************************************)
UnplacedIsTheGap ==
    pass = "done" =>
        Inline_records - malformed - placed =
            Cardinality({x \in AllSites :
                /\ modules[x[1]][x[2]].ok
                /\ \A k \in DOMAIN out : <<out[k].mod, out[k].site>> # x})

(***************************************************************************)
(* codeview.py:423-424: a chunk is numbered "in the order those records    *)
(* appear".  A record that cannot be read shifts the numbers after it, and *)
(* the sites in those chunks are listed at addresses that are not theirs.  *)
(***************************************************************************)
ChunksAreNumberedByRecord ==
    \A k \in DOMAIN out :
        ToSet(out[k].ranges) \subseteq TrueAddresses(out[k].mod, out[k].site)
=============================================================================
