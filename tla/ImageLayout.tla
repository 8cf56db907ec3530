----------------------------- MODULE ImageLayout -----------------------------
(***************************************************************************)
(* What the tools that write an image do to its addresses, as              *)
(* purepdb/sections.py and purepdb/omap.py describe it: the linker lays    *)
(* the sections out at multiples of the section alignment, and Microsoft's *)
(* basic-block optimiser then moves code without rewriting the debug info. *)
(* Neither tool is in the repository; AddressSpace reads the tables they   *)
(* leave and is judged against the addresses computed here.                *)
(***************************************************************************)
EXTENDS Integers, Sequences, FiniteSets, SequencesExt

CONSTANTS
    Align,      \* the image's section alignment, in bytes
    None        \* Python's None

\* The linker's layout: one address per section, the first an alignment unit in.
LinkedAt(lengths) ==
    LET at[i \in 1..Len(lengths)] ==
            IF i = 1 THEN Align
            ELSE at[i - 1] + ((lengths[i - 1] + Align - 1) \div Align) * Align
    IN  [i \in 1..Len(lengths) |-> at[i]]

(***************************************************************************)
(* An image: the `lengths` of its sections; where they are `shipped`; and  *)
(* for an optimised image where each byte of the linked image `moved`, 0   *)
(* for a byte the optimiser dropped.                                       *)
(***************************************************************************)
IsOptimised(image) == image.moved # <<>>

\* Where a symbol's byte is in the shipped image, None when it is not there.
TrueRva(image, segment, offset) ==
    IF segment \notin DOMAIN image.lengths THEN None
    ELSE LET linked == LinkedAt(image.lengths)[segment] + offset
         IN  IF ~IsOptimised(image) THEN linked
             ELSE IF image.moved[linked] = 0 THEN None ELSE image.moved[linked]

\* Two neighbouring bytes move together: both dropped, or both moved alike.
Together(image, a) ==
    /\ {a - 1, a} \subseteq DOMAIN image.moved
    /\ IF image.moved[a] = 0 THEN image.moved[a - 1] = 0
       ELSE /\ image.moved[a - 1] # 0
            /\ image.moved[a] = image.moved[a - 1] + 1

\* The optimiser's entries: one wherever bytes stop moving together.
OmapOf(image) ==
    {[source |-> a, target |-> image.moved[a]] :
        a \in {b \in DOMAIN image.moved : ~Together(image, b)}}
=============================================================================
