------------------------------ MODULE PdbSession ------------------------------
(***************************************************************************)
(* A PDB from open to close: PDB.open and MsfFile.open with their failure   *)
(* paths, close() and __del__, the answers a PDB keeps (string table, id   *)
(* table, the last stream of _cached_stream), and lines(), a generator     *)
(* that is suspended at every line while its caller goes on calling        *)
(* (purepdb/pdb.py, purepdb/msf.py).                                       *)
(*                                                                         *)
(* A stream is "whole"; or "alien", readable and nothing its reader        *)
(* recognises; or "nil", which is_valid_stream refuses; or "damaged", of   *)
(* which read_stream raises.  Its bytes are its name.                      *)
(***************************************************************************)
EXTENDS Integers, Sequences, FiniteSets, SequencesExt

CONSTANTS
  Files,       \* what may lie at the path; see FilesAssumption
  Modules,     \* how many modules DBI lists: 1..Modules, a stream each
  LinesEach,   \* how many lines the C13 region of a whole module has
  Listings     \* calls of lines() whose generators may be held at once

STREAM_PDB_INFO == 1
STREAM_IPI == 4
NamesStream == 5
SymStream(m) == NamesStream + m

Streams == {STREAM_PDB_INFO, STREAM_IPI} \cup NamesStream..SymStream(Modules)

ASSUME SizesAssumption == Modules \in Nat /\ LinesEach \in Nat \ {0}
ASSUME FilesAssumption ==
  Files \subseteq [is : {"missing", "empty", "unmappable", "not MSF", "not PDB", "PDB"},
                   named : BOOLEAN,   \* the named-stream map has /names
                   stream : [Streams -> {"whole", "alien", "nil", "damaged"}]]

VARIABLES
  file,          \* the file at the path
  copy,          \* open(copy=True): read the bytes, do not map
  pc,            \* how far open has come, or the PDB it returned
  handle,        \* a file handle on the path is open
  mapping,       \* the file is mapped
  owned,         \* an MsfFile holds the handle and the mapping
  closed,        \* MsfFile._closed
  string_table, id_table,   \* "unread", "none" or "table"
  cache,         \* [index, bytes] of _cached_stream
  listing,       \* per generator: [state, begun, module, line, out]
  told           \* history: the answers each call has given, refusals apart

session == <<file, copy, pc, handle, mapping, owned, closed>>
answers == <<string_table, id_table, cache, listing, told>>
vars == <<session, answers>>

None == -1   \* no stream

Calls == {<<"string_table", 0>>, <<"id_table", 0>>, <<"info", 0>>, <<"lines", 0>>}
           \cup {<<"resolve_proc_ref", m>> : m \in 1..Modules}

Init ==
  /\ file \in Files /\ copy \in BOOLEAN
  /\ pc = "called"
  /\ handle = FALSE /\ mapping = FALSE /\ owned = FALSE /\ closed = FALSE
  /\ string_table = "unread" /\ id_table = "unread"
  /\ cache = [index |-> None, bytes |-> None]
  /\ listing = [g \in Listings |->
       [state |-> "created", begun |-> "not yet", module |-> 0, line |-> 0, out |-> <<>>]]
  /\ told = [c \in Calls |-> {}]

------------------------------------------------------------------------------
(* Opening.                                                                *)

Fail == pc' = "failed"

OpenFile ==
  /\ pc = "called"
  /\ IF file.is = "missing" THEN Fail /\ UNCHANGED handle
     ELSE pc' = "opened" /\ handle' = TRUE
  /\ UNCHANGED <<file, copy, mapping, owned, closed, answers>>

\* with open(path): return cls(f.read()).  The handle is closed either way.
ReadCopy ==
  /\ pc = "opened" /\ copy
  /\ IF file.is \in {"not PDB", "PDB"} THEN pc' = "container" ELSE Fail
  /\ handle' = FALSE
  /\ UNCHANGED <<file, copy, mapping, owned, closed, answers>>

\* mmap.mmap, and the except clause that closes the handle.
MapFile ==
  /\ pc = "opened" /\ ~copy
  /\ IF file.is \in {"empty", "unmappable"}
     THEN Fail /\ handle' = FALSE /\ UNCHANGED mapping
     ELSE pc' = "mapped" /\ mapping' = TRUE /\ UNCHANGED handle
  /\ UNCHANGED <<file, copy, owned, closed, answers>>

\* Mutant: no except clause around cls(mapped).
ReadContainerUnguarded ==
  /\ pc = "mapped"
  /\ IF file.is = "not MSF" THEN Fail /\ UNCHANGED owned
     ELSE pc' = "container" /\ owned' = TRUE
  /\ UNCHANGED <<file, copy, closed, handle, mapping, answers>>

\* cls(mapped), and the except clause around it.
ReadContainer ==
  /\ pc = "mapped"
  /\ IF file.is = "not MSF"
     THEN Fail /\ handle' = FALSE /\ mapping' = FALSE /\ UNCHANGED owned
     ELSE pc' = "container" /\ owned' = TRUE /\ UNCHANGED <<handle, mapping>>
  /\ UNCHANGED <<file, copy, closed, answers>>

\* PDB.__init__.  When it raises, the container is nobody's: Delete closes it.
BuildPdb ==
  /\ pc = "container"
  /\ IF file.is = "not PDB" THEN Fail ELSE pc' = "open"
  /\ UNCHANGED <<file, copy, handle, mapping, owned, closed, answers>>

OpenStep == OpenFile \/ ReadCopy \/ MapFile \/ ReadContainer \/ BuildPdb

\* MsfFile.close: does nothing without a mapping of its own.
Close ==
  /\ owned' = FALSE
  /\ closed' = (closed \/ owned)
  /\ handle' = (handle /\ ~owned)
  /\ mapping' = (mapping /\ ~owned)

CallClose ==
  /\ pc = "open"
  /\ Close
  /\ UNCHANGED <<file, copy, pc, answers>>

\* The caller forgets the PDB; a suspended generator still refers to it.
Forget ==
  /\ pc = "open"
  /\ \A g \in Listings : listing[g].state # "suspended"
  /\ pc' = "forgotten"
  /\ UNCHANGED <<file, copy, handle, mapping, owned, closed, answers>>

\* Mutant: close() alone releases the file.
DeleteWithoutClose ==
  /\ pc \in {"failed", "forgotten"} /\ owned
  /\ UNCHANGED vars

\* __del__, once nothing refers to the container any more.
Delete ==
  /\ pc \in {"failed", "forgotten"} /\ owned
  /\ Close
  /\ UNCHANGED <<file, copy, pc, answers>>

------------------------------------------------------------------------------
(* Asking.                                                                 *)

IsValidStream(s) == file.stream[s] # "nil"
\* read_stream gives bytes: the container is open and its blocks are in range.
Readable(s) == ~closed /\ file.stream[s] \in {"whole", "alien"}

Tell(call, answer) == told' = [told EXCEPT ![call] = @ \cup {answer}]

Answer(call, answer) ==
  IF answer = "MsfError" THEN UNCHANGED told ELSE Tell(<<call, 0>>, answer)

\* The table of stream s as its reader parses it, or the refusal.
Parsed(s) ==
  IF ~IsValidStream(s) THEN "none"
  ELSE IF ~Readable(s) THEN "MsfError"
  ELSE IF file.stream[s] = "whole" THEN "table" ELSE "none"

\* named_streams: what cannot be read names nothing.
NamesStreamIsNamed ==
  /\ Readable(STREAM_PDB_INFO) /\ file.stream[STREAM_PDB_INFO] = "whole"
  /\ file.named

\* string_table, which asks for the stream only if it has not yet been told.
StringTable ==
  IF string_table # "unread" THEN string_table
  ELSE IF NamesStreamIsNamed THEN Parsed(NamesStream) ELSE "none"

\* Mutant: the string table is looked up each time it is asked for.
KeepNothing(kept, answer) == kept

\* A refusal leaves the kept answer as it was.
Keep(kept, answer) == IF answer = "MsfError" THEN kept ELSE answer

AskStringTable ==
  /\ pc = "open"
  /\ string_table' = Keep(string_table, StringTable)
  /\ Answer("string_table", StringTable)
  /\ UNCHANGED <<session, id_table, cache, listing>>

AskIdTable ==
  /\ pc = "open"
  /\ LET answer == IF id_table # "unread" THEN id_table ELSE Parsed(STREAM_IPI) IN
     /\ id_table' = Keep(id_table, answer)
     /\ Answer("id_table", answer)
  /\ UNCHANGED <<session, string_table, cache, listing>>

\* info(), which raises for a stream it cannot use and keeps nothing.
AskInfo ==
  /\ pc = "open"
  /\ Answer("info", IF Readable(STREAM_PDB_INFO) /\ file.stream[STREAM_PDB_INFO] = "whole"
                    THEN "header" ELSE "MsfError")
  /\ UNCHANGED <<session, string_table, id_table, cache, listing>>

\* Mutant: the index is recorded before the stream is read.
CachedIndexFirst(i) ==
  IF cache.index = i THEN cache
  ELSE [index |-> i, bytes |-> IF Readable(i) THEN i ELSE cache.bytes]

\* _cached_stream(i): a read that raises changes neither field.
CachedStream(i) ==
  IF cache.index # i /\ Readable(i) THEN [index |-> i, bytes |-> i] ELSE cache

\* resolve_proc_ref for a reference into module m.
ResolveProcRef(m) ==
  /\ pc = "open"
  /\ IF ~IsValidStream(SymStream(m))
     THEN Tell(<<"resolve_proc_ref", m>>, None) /\ UNCHANGED cache
     ELSE /\ cache' = CachedStream(SymStream(m))
          /\ IF cache'.index # SymStream(m) THEN UNCHANGED told
             ELSE Tell(<<"resolve_proc_ref", m>>,
                       IF cache'.bytes # None /\ file.stream[cache'.bytes] = "whole"
                       THEN cache'.bytes ELSE None)
  /\ UNCHANGED <<session, string_table, id_table, listing>>

------------------------------------------------------------------------------
(* lines().                                                                *)

\* module_c13_bytes(m) is empty, or has no file checksums.
HasNoLines(m) ==
  ~IsValidStream(SymStream(m)) \/ (Readable(SymStream(m)) /\ file.stream[SymStream(m)] = "alien")

\* Mutant: a module whose stream cannot be read is passed like one without lines.
NextReadable(m) ==
  CHOOSE n \in m..(Modules + 1) :
    LET hasNone(k) == HasNoLines(k) \/ ~Readable(SymStream(k)) IN
    (n <= Modules => ~hasNone(n)) /\ \A k \in m..(n - 1) : hasNone(k)

\* Where the loop over the modules comes to rest: at a module with lines, at a
\* read that raises, or at the end.
NextStop(m) ==
  CHOOSE n \in m..(Modules + 1) :
    (n <= Modules => ~HasNoLines(n)) /\ \A k \in m..(n - 1) : HasNoLines(k)

\* Generator g goes on to its next stop, from module m on.
Advance(g, m) ==
  LET stop == NextStop(m) IN
  IF stop = Modules + 1 THEN [g EXCEPT !.state = "ended"]
  ELSE IF ~Readable(SymStream(stop)) THEN [g EXCEPT !.state = "raised"]
  ELSE [g EXCEPT !.state = "suspended", !.module = stop, !.line = 1,
                 !.out = Append(@, <<stop, 1>>)]

Listed(g, after) ==
  /\ listing' = [listing EXCEPT ![g] = after]
  /\ IF after.state = "ended" THEN Tell(<<"lines", 0>>, after.out) ELSE UNCHANGED told

\* The first next(): string_table() runs now, and not when lines() is called.
BeginLines(g) ==
  /\ pc = "open" /\ listing[g].state = "created"
  /\ string_table' = Keep(string_table, StringTable)
  /\ LET begun == [listing[g] EXCEPT !.begun = IF closed THEN "after close" ELSE "before close"]
     IN Listed(g, CASE StringTable = "none" -> [begun EXCEPT !.state = "ended"]
                    [] StringTable = "MsfError" -> [begun EXCEPT !.state = "raised"]
                    [] StringTable = "table" -> Advance(begun, 1))
  /\ UNCHANGED <<session, id_table, cache>>

\* A line of the module's region, which was read when the module was entered.
NextLine(g) ==
  /\ listing[g].state = "suspended" /\ listing[g].line < LinesEach
  /\ listing' = [listing EXCEPT
       ![g].line = @ + 1,
       ![g].out = Append(@, <<listing[g].module, listing[g].line + 1>>)]
  /\ UNCHANGED <<session, string_table, id_table, cache, told>>

NextModule(g) ==
  /\ listing[g].state = "suspended" /\ listing[g].line = LinesEach
  /\ Listed(g, Advance(listing[g], listing[g].module + 1))
  /\ UNCHANGED <<session, string_table, id_table, cache>>

Ask ==
  \/ AskStringTable \/ AskIdTable \/ AskInfo
  \/ \E m \in 1..Modules : ResolveProcRef(m)
  \/ \E g \in Listings : BeginLines(g) \/ NextLine(g) \/ NextModule(g)

Next == OpenStep \/ CallClose \/ Forget \/ Delete \/ Ask

Spec == Init /\ [][Next]_vars

\* open() runs to its end once called; CPython deletes what nothing refers to.
FairSpec == Spec /\ WF_vars(OpenStep) /\ WF_vars(Delete)

------------------------------------------------------------------------------
(* Properties.                                                             *)

\* The handle and the mapping live and die together once the file is mapped,
\* and neither outlives close() or a failed MsfFile.open: on Windows a leaked
\* mapping is a file that cannot be replaced (README.md:30).
NothingLeaks ==
  /\ (pc = "failed" /\ ~owned) \/ closed => ~handle /\ ~mapping
  /\ pc \in {"container", "open", "failed", "forgotten"} =>
       handle = mapping /\ mapping = owned

\* What open mapped is released in the end, whether open failed in
\* PDB.__init__, which has no except clause of its own, or the caller never
\* called close().
Released == (pc \in {"failed", "forgotten"}) ~> (~handle /\ ~mapping)

\* However calls that raise and calls of other modules come between, the
\* stream _cached_stream remembers is the one it says it is.
CacheIsItsStream == cache.bytes = cache.index

\* A PDB that has answered never gives another answer: what a call gave before
\* close() it gives after, or it raises.  For the string table this rests on
\* its being kept; without that, it would be gone after close().
AnswersAgree == \A call \in Calls : Cardinality(told[call]) <= 1

LinesOf(m) ==
  IF file.stream[SymStream(m)] = "whole" THEN [k \in 1..LinesEach |-> <<m, k>>] ELSE <<>>

\* The lines of the modules up to m.
ListedTo(m) == FlattenSeq([i \in 1..m |-> LinesOf(i)])

AllLines == ListedTo(Modules)

HasNames == file.named /\ file.stream[STREAM_PDB_INFO] = "whole" /\ file.stream[NamesStream] = "whole"

Complete(g) == listing[g].out = IF HasNames THEN AllLines ELSE <<>>

\* A listing begun before close() that comes to its end has every line of
\* every module, in order: one cut by close() or by an unreadable module
\* raises instead of ending.
ListingsAreWhole ==
  \A g \in Listings :
    (listing[g].state = "ended" /\ listing[g].begun = "before close") => Complete(g)

\* The same without regard to close(): an empty listing means that the PDB has
\* no line info or no /names stream, as the comment on lines() says.  A listing
\* begun after close() ends empty too: named_streams() turns the refusal of the
\* closed container into "names nothing".
EmptyMeansNone == \A g \in Listings : listing[g].state = "ended" => Complete(g)
=============================================================================
