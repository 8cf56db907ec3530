--------------------------- MODULE ContributionMap ---------------------------
(***************************************************************************)
(* ContributionMap (purepdb/dbi.py) and PDB.module_of: whose object file   *)
(* an address came from, by binary search over what the linker says each   *)
(* of them contributed.  Some contribute nothing and share the address of  *)
(* one that does, and the file need not have them in order.                *)
(***************************************************************************)
EXTENDS Integers, Sequences

CONSTANTS
    Entries,          \* contributions: [segment, offset, size, module]
    MaxEntries,       \* bound: contributions in a file
    Segments, Offsets \* the addresses asked for

ASSUME EntriesAssumption ==
    /\ Entries \subseteq [segment : Nat, offset : Nat, size : Nat, module : Nat]
    /\ MaxEntries \in Nat
    /\ Segments \subseteq Nat /\ Offsets \subseteq Nat

VARIABLES
    contributions,    \* as the substream has them
    modules,          \* len(dbi.modules)
    order,            \* _sorted: the numbers of those with a size, by address
    query,            \* the segment and offset asked for
    lo, hi,           \* bisect_right's bounds
    found,            \* the contribution find() returned, by number; 0 for None
    pc

vars == <<contributions, modules, order, query, lo, hi, found, pc>>

Init ==
    /\ \E n \in 0..MaxEntries : contributions \in [1..n -> Entries]
    /\ modules \in 0..2
    /\ order = <<>>
    /\ query = [segment |-> 0, offset |-> 0]
    /\ lo = 1 /\ hi = 1
    /\ found = 0
    /\ pc = "new"

Start(c) == [segment |-> contributions[c].segment, offset |-> contributions[c].offset]

Before(a, b) == a.segment < b.segment \/ (a.segment = b.segment /\ a.offset < b.offset)

Covers(c, q) ==
    /\ contributions[c].segment = q.segment
    /\ contributions[c].offset <= q.offset
    /\ q.offset < contributions[c].offset + contributions[c].size

\* Mutant: those that cover nothing stay in the index.
LiveAll == DOMAIN contributions

Live == {c \in DOMAIN contributions : contributions[c].size > 0}

\* The sort is stable: of two at one address the one the file has first.
ComesFirst(c, d) ==
    Before(Start(c), Start(d)) \/ (Start(c) = Start(d) /\ c < d)

Build ==
    /\ pc = "new"
    /\ \E n \in 0..Len(contributions) :
        /\ order' \in [1..n -> Live]
        /\ \A i, j \in 1..n : i < j => ComesFirst(order'[i], order'[j])
        /\ \A c \in Live : \E i \in 1..n : order'[i] = c
    /\ pc' = "ready"
    /\ UNCHANGED <<contributions, modules, query, lo, hi, found>>

Ask ==
    /\ pc \in {"ready", "answered"}
    /\ query' \in [segment : Segments, offset : Offsets]
    /\ lo' = 1 /\ hi' = Len(order) + 1
    /\ pc' = "search"
    /\ UNCHANGED <<contributions, modules, order, found>>

\* bisect_right's loop.
Probe ==
    /\ pc = "search" /\ lo < hi
    /\ LET mid == (lo + hi) \div 2
       IN  IF Before(query, Start(order[mid]))
           THEN hi' = mid /\ lo' = lo
           ELSE lo' = mid + 1 /\ hi' = hi
    /\ UNCHANGED <<contributions, modules, order, query, found, pc>>

Answer ==
    /\ pc = "search" /\ lo >= hi
    /\ found' = IF lo = 1 THEN 0
                ELSE IF Covers(order[lo - 1], query) THEN order[lo - 1] ELSE 0
    /\ pc' = "answered"
    /\ UNCHANGED <<contributions, modules, order, query, lo, hi>>

Next == Build \/ Ask \/ Probe \/ Answer

Spec == Init /\ [][Next]_vars

\* Mutant: the module's number is not held against the module list.
ModuleOfUnchecked == IF found = 0 THEN 0 ELSE contributions[found].module + 1

\* PDB.module_of: 0 for None; the record counts modules from 0.
ModuleOf ==
    IF found = 0 \/ contributions[found].module >= modules THEN 0
    ELSE contributions[found].module + 1

-----------------------------------------------------------------------------
(* Properties *)

TypeOK ==
    /\ contributions \in Seq(Entries)
    /\ modules \in Nat
    /\ order \in Seq(Live)
    /\ query \in [segment : Nat, offset : Nat]
    /\ lo \in Nat /\ hi \in Nat
    /\ found \in Live \cup {0}
    /\ pc \in {"new", "ready", "search", "answered"}

(***************************************************************************)
(* dbi.py:113-115, what a linker writes: "the ranges partition the image". *)
(* No two that overlap: the later to start would start inside the other.   *)
(***************************************************************************)
Disjoint ==
    \A c, d \in DOMAIN contributions :
        c # d /\ contributions[d].size > 0 => ~Covers(c, Start(d))

(***************************************************************************)
(* dbi.py:135-140, the search against what it is for: for contributions    *)
(* that do not overlap, in any order and with any number of empty ones     *)
(* among them, find() returns the one that covers the address and None     *)
(* only when none does -- and so module_of never names another's code.     *)
(***************************************************************************)
FindsTheOwner ==
    pc = "answered" /\ Disjoint =>
        \A c \in DOMAIN contributions : Covers(c, query) <=> found = c

(***************************************************************************)
(* A damaged substream may have contributions that overlap: an address is  *)
(* then still never given to a module that does not claim it, nor a module *)
(* the file does not have.                                                 *)
(***************************************************************************)
NeverTheWrongOwner ==
    pc = "answered" /\ ModuleOf # 0 =>
        /\ ModuleOf <= modules
        /\ \E c \in DOMAIN contributions :
            Covers(c, query) /\ contributions[c].module = ModuleOf - 1

\* Both: the owner where there is one, and never somebody else.
OwnerIsRight == FindsTheOwner /\ NeverTheWrongOwner
=============================================================================
