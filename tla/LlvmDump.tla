------------------------------- MODULE LlvmDump -------------------------------
(***************************************************************************)
(* How the comparison reads the line tables that llvm-pdbutil prints       *)
(* (check_lines, module_start, module_names, modules_without_a_stream and  *)
(* the regular expressions they use, in dev/validate_against_llvm.py).     *)
(*                                                                         *)
(* What the tool prints for a file is Printed; it is not part of this      *)
(* program, and a version of it may print one line, or every module        *)
(* heading, in a form that is not known here, or fewer entries than it     *)
(* announces.  A line that matches no expression is "odd"; a heading that  *)
(* still begins like one is an "odd module".                               *)
(***************************************************************************)
EXTENDS Integers, Sequences, FiniteSets, SequencesExt

CONSTANTS
    LineTables     \* what files hold: a sequence of modules, see below

Unresolved == 0    \* a file name the tool could not resolve
SourceFiles == 1..2

\* A module has no debug stream, or the blocks of one; it has a name, or the tool
\* cannot resolve its index.
ASSUME LineTablesAssumption ==
  \A t \in LineTables : t \in Seq([stream : BOOLEAN, named : BOOLEAN,
    blocks : Seq([file : SourceFiles \cup {Unresolved}, entries : Nat])])

-----------------------------------------------------------------------------
(* What the tool prints: two entries on a line.                               *)

EntryLines(b) ==
    LET last == b.entries - 2 * (b.entries \div 2)
    IN [k \in 1 .. b.entries \div 2 |-> [is |-> "entries", from |-> 2 * k - 1, n |-> 2]]
       \o (IF last = 0 THEN <<>> ELSE <<[is |-> "entries", from |-> b.entries, n |-> 1]>>)

\* The number of a block is where its code lies.
BlockLines(b, number) ==
    <<IF b.file = Unresolved THEN [is |-> "unresolved"] ELSE [is |-> "file", file |-> b.file],
      [is |-> "block", segment |-> number, count |-> b.entries]>>
    \o EntryLines(b) \o <<[is |-> "blank"]>>

\* Under a module without a stream it prints the blocks of the last one again.
BlocksShown(modules, m) ==
    LET before == {j \in 1..m : modules[j].stream}
    IN IF before = {} THEN <<>> ELSE modules[CHOOSE j \in before : \A k \in before : k <= j].blocks

ModuleLines(modules, m) ==
    LET shown == BlocksShown(modules, m)
    IN <<[is |-> "module", index |-> m]>>
       \o FlattenSeq([k \in DOMAIN shown |-> BlockLines(shown[k], k)])

Printed(modules) ==
    <<[is |-> "banner"]>> \o FlattenSeq([m \in DOMAIN modules |-> ModuleLines(modules, m)])

\* The lines of one kind; one line in another form; every heading in another form.
Of(lines, kind) == {k \in DOMAIN lines : lines[k].is = kind}
Other(lines, k, form) == [lines EXCEPT ![k] = [is |-> form]]
OtherHeadings(lines, form) ==
    [k \in DOMAIN lines |-> IF k \in Of(lines, "module") THEN [is |-> form] ELSE lines[k]]

Changed(lines) ==
    {lines}
    \cup {Other(lines, k, "odd") : k \in DOMAIN lines \ (Of(lines, "banner") \cup Of(lines, "blank"))}
    \cup {Other(lines, k, "odd module") : k \in Of(lines, "module")}
    \cup {Other(lines, k, "blank") : k \in Of(lines, "entries")}
    \cup {OtherHeadings(lines, form) : form \in {"odd", "odd module"}}

-----------------------------------------------------------------------------

VARIABLES
    in_file,      \* the modules of the file
    text,         \* the dump, line by line
    lines_left,   \* its lines that are not read yet
    reading,      \* "dump", "compared" or "ParseError"
    module, heading, segment, expected, seen,   \* what was last announced
    theirs,       \* the entries to compare: [module, file, segment, entry]
    skipped       \* modules passed by

dumpVars == <<in_file, text, lines_left, reading, module, heading, segment, expected, seen, theirs, skipped>>

NoModule == -1
NoHeading == -1

DumpInit ==
    /\ in_file \in LineTables
    /\ \E lines \in {Printed(in_file)} : text \in Changed(lines)
    /\ lines_left = text
    /\ reading = "dump"
    /\ module = NoModule /\ heading = NoHeading /\ segment = 0 /\ expected = 0 /\ seen = 0
    /\ theirs = <<>> /\ skipped = 0

\* modules_without_a_stream and module_names, of `dump --modules`.
Streamless == {m \in DOMAIN in_file : ~in_file[m].stream}
NameOf(m) == IF in_file[m].named THEN m ELSE 0

ParseError == reading' = "ParseError" /\ UNCHANGED <<module, heading, segment, expected, seen, theirs, skipped>>

\* Mutant: only a block that lacks entries is incomplete if it has some.
CompleteIfAny == seen = 0 \/ expected = seen

\* check_block_is_complete()
BlockIsComplete == expected = seen

Line == Head(lines_left)
Reads(kinds) == reading = "dump" /\ lines_left # <<>> /\ Line.is \in kinds
NextLine == lines_left' = Tail(lines_left) /\ UNCHANGED <<in_file, text>>

ReadModule ==
    /\ Reads({"module"}) /\ NextLine
    /\ IF BlockIsComplete
       THEN /\ module' = Line.index /\ heading' = NoHeading
            /\ expected' = 0 /\ seen' = 0
            /\ skipped' = skipped + (IF Line.index \in Streamless THEN 1 ELSE 0)
            /\ UNCHANGED <<reading, segment, theirs>>
       ELSE ParseError

\* A heading that is none this script knows, whatever module it is under.
RefuseModule == Reads({"odd module"}) /\ NextLine /\ ParseError

PassBy ==
    /\ \/ Reads({"banner", "blank"})
       \/ /\ module \in Streamless \cup {NoModule}
          /\ Reads({"block", "file", "unresolved", "entries", "odd"})
    /\ NextLine
    /\ UNCHANGED <<reading, module, heading, segment, expected, seen, theirs, skipped>>

\* Lines that mean something: those of a module that has a stream.
Takes(kinds) == Reads(kinds) /\ module \notin Streamless \cup {NoModule} /\ NextLine

ReadBlock ==
    /\ Takes({"block"})
    /\ IF BlockIsComplete
       THEN /\ segment' = Line.segment /\ expected' = Line.count /\ seen' = 0
            /\ UNCHANGED <<reading, module, heading, theirs, skipped>>
       ELSE ParseError

ReadHeading ==
    /\ Takes({"file", "unresolved"})
    /\ heading' = IF Line.is = "file" THEN Line.file ELSE Unresolved
    /\ UNCHANGED <<reading, module, segment, expected, seen, theirs, skipped>>

ReadEntries ==
    /\ Takes({"entries"})
    /\ IF heading = NoHeading THEN ParseError
       ELSE /\ seen' = seen + Line.n
            /\ theirs' = theirs \o
                 (IF heading = Unresolved THEN <<>>
                  ELSE [k \in 1..Line.n |-> [module |-> NameOf(module), file |-> heading,
                                             segment |-> segment, entry |-> Line.from + k - 1]])
            /\ UNCHANGED <<reading, module, heading, segment, expected, skipped>>

RefuseLine == Takes({"odd"}) /\ ParseError

EndOfDump ==
    /\ reading = "dump" /\ lines_left = <<>>
    /\ reading' = IF BlockIsComplete THEN "compared" ELSE "ParseError"
    /\ UNCHANGED <<in_file, text, lines_left, module, heading, segment, expected, seen, theirs, skipped>>

DumpNext ==
    \/ ReadModule \/ RefuseModule \/ PassBy \/ ReadBlock \/ ReadHeading
    \/ ReadEntries \/ RefuseLine \/ EndOfDump

-----------------------------------------------------------------------------
(* Properties                                                                 *)

\* What the file holds, as the comparison wants it, but for some modules.
HeldBut(modules) ==
    FlattenSeq([m \in DOMAIN in_file |->
      IF m \in Streamless \cup modules THEN <<>>
      ELSE FlattenSeq([k \in DOMAIN in_file[m].blocks |->
             LET b == in_file[m].blocks[k] IN
             IF b.file = Unresolved THEN <<>>
             ELSE [e \in 1..b.entries |->
                    [module |-> NameOf(m), file |-> b.file, segment |-> k, entry |-> e]]])])

\* The modules whose heading does not even begin like one.
Unheaded ==
    {Printed(in_file)[k].index : k \in Of(Printed(in_file), "module") \cap Of(text, "odd")}

\* A dump is read for what the file holds, each entry under its own module, file
\* and block and none of those that are printed twice; or the check ends in a
\* ParseError.  A form that is not known never lets the entries behind it be
\* "attributed to that file -- which is a wrong answer rather than a parse
\* failure" (validate_against_llvm.py:611), nor to another module: only entries
\* behind a heading that does not begin like one may be passed by with it.
DumpReadsBack == reading = "compared" => theirs = HeldBut(Unheaded)

\* "A module heading, a section-contribution row or a line entry this script does
\* not recognise raises `ParseError` rather than being skipped"
\* (validate_against_llvm.py:72-74): what is compared is all that the file holds.
\* False: above the first module and under one without a stream no line is refused
\* but a heading that begins `Mod N |` (lines 651-660), and the entries behind any
\* other heading are passed by with it.
NothingIsSkipped == reading = "compared" => theirs = HeldBut({})
=============================================================================
