--------------------------- MODULE PdbSession_proofs ---------------------------
(***************************************************************************)
(* Proofs about PdbSession, for every set of files, every number of        *)
(* modules and lines, and any number of generators.                        *)
(***************************************************************************)
EXTENDS PdbSession, Lemmas, SequenceTheorems

Generators ==
  [state : {"created", "suspended", "ended", "raised"},
   begun : {"not yet", "before close", "after close"},
   module : Nat, line : Nat, out : Seq(Nat \X Nat)]

TypeOK ==
  /\ file \in Files
  /\ string_table \in {"unread", "none", "table"}
  /\ id_table \in {"unread", "none", "table"}
  /\ cache \in [index : Streams \cup {None}, bytes : Streams \cup {None}]
  /\ told = [c \in Calls |-> told[c]]
  /\ listing \in [Listings -> Generators]

\* Who holds what at each step of open, and that nothing is closed before
\* there is a container.
Holds ==
  /\ pc \in {"called", "opened", "mapped", "container", "open", "failed", "forgotten"}
  /\ pc = "called" => ~handle /\ ~mapping
  /\ pc = "opened" => handle /\ ~mapping
  /\ pc = "mapped" => handle /\ mapping
  /\ pc \in {"called", "opened", "mapped"} => ~owned /\ ~closed
  /\ pc \in {"container", "open", "failed", "forgotten"} =>
       (handle <=> owned) /\ (mapping <=> owned)
  /\ closed => ~owned
  /\ handle \in BOOLEAN /\ mapping \in BOOLEAN /\ owned \in BOOLEAN /\ closed \in BOOLEAN

\* What resolve_proc_ref finds of module m, if it finds out.
Referenced(m) ==
  IF file.stream[SymStream(m)] = "whole" THEN SymStream(m) ELSE None

\* One answer per call that it can have given: the one it keeps, or the one
\* that the file determines.
Kept ==
  /\ told[<<"string_table", 0>>] \subseteq {string_table} \ {"unread"}
  /\ told[<<"id_table", 0>>] \subseteq {id_table} \ {"unread"}
  /\ told[<<"info", 0>>] \subseteq {"header"}
  /\ \A m \in 1..Modules : told[<<"resolve_proc_ref", m>>] \subseteq {Referenced(m)}
  /\ cache.bytes = cache.index

\* A PDB knows the name table it has, unless it was first asked after close.
NamesAreKnown ==
  /\ string_table = "table" => HasNames
  /\ string_table = "none" /\ ~closed => ~HasNames

\* A suspended generator has listed all that comes before its line.
UpToItsLine(g) ==
  /\ g.module \in 1..Modules /\ g.line \in 1..LinesEach
  /\ file.stream[SymStream(g.module)] = "whole"
  /\ g.out = ListedTo(g.module - 1) \o [k \in 1..g.line |-> <<g.module, k>>]

GeneratorInv(g) ==
  /\ g.state = "created" => g.out = <<>>
  /\ g.state = "suspended" => string_table = "table" /\ UpToItsLine(g)
  /\ g.state = "ended" =>
       \/ string_table = "table" /\ g.out = AllLines
       \/ string_table = "none" /\ g.out = <<>> /\ (g.begun = "before close" => ~HasNames)

ListingsInv ==
  /\ \A g \in Listings : GeneratorInv(listing[g])
  /\ told[<<"lines", 0>>] \subseteq
       IF string_table = "table" THEN {AllLines} ELSE IF string_table = "none" THEN {<<>>} ELSE {}

SessionInv == TypeOK /\ Holds /\ Kept /\ NamesAreKnown /\ ListingsInv

-----------------------------------------------------------------------------
(* The lines of the modules.                                               *)

LEMMA StreamOfModule ==
  ASSUME NEW m \in 1..Modules
  PROVE  SymStream(m) \in Streams /\ SymStream(m) # None
BY SizesAssumption DEF SymStream, Streams, NamesStream, None

LEMMA StreamStates ==
  ASSUME TypeOK, NEW s \in Streams
  PROVE  file.stream[s] \in {"whole", "alien", "nil", "damaged"}
BY FilesAssumption DEF TypeOK

LEMMA LinesType ==
  ASSUME NEW m \in Nat
  PROVE  LinesOf(m) \in Seq(Nat \X Nat)
<1>1. [k \in 1..LinesEach |-> <<m, k>>] \in Seq(Nat \X Nat)
  BY SizesAssumption
<1>2. <<>> \in Seq(Nat \X Nat)
  OBVIOUS
<1> QED
  BY <1>1, <1>2 DEF LinesOf

\* One more stop is one more stretch of the listing.
LEMMA ListedToNext ==
  ASSUME NEW m \in 1..Modules
  PROVE  /\ ListedTo(m - 1) \in Seq(Nat \X Nat)
         /\ ListedTo(m) = ListedTo(m - 1) \o LinesOf(m)
<1> DEFINE X == Nat \X Nat
           s == [i \in 1..m |-> LinesOf(i)]
           t == [i \in 1..(m - 1) |-> s[i]]
<1>1. m \in Nat \ {0}
  BY SizesAssumption
<1>2. s \in [1..m -> Seq(X)]
  <2>1. ASSUME NEW i \in 1..m
        PROVE  LinesOf(i) \in Seq(X)
    BY <1>1, LinesType
  <2> HIDE DEF X
  <2> QED
    BY <2>1
<1>3. t = [i \in 1..(m - 1) |-> LinesOf(i)] /\ s[m] = LinesOf(m)
  BY <1>1
<1>4. FlattenSeq(t) \in Seq(X) /\ FlattenSeq(s) = FlattenSeq(t) \o s[m]
  <2> HIDE DEF X, s
  <2> QED
    BY <1>1, <1>2, FlattenOneMore
<1> QED
  BY <1>3, <1>4 DEF ListedTo

LEMMA NothingListedYet == ListedTo(0) = <<>>
<1> DEFINE t == [i \in 1..0 |-> LinesOf(i)]
<1>1. t = <<>>
  OBVIOUS
<1>2. Len(t) = 0
  BY <1>1
<1> HIDE DEF t
<1>3. FlattenSeq(t) = t
  BY <1>2 DEF FlattenSeq
<1> QED
  BY <1>1, <1>3 DEF ListedTo, t

\* Modules without lines add nothing to the listing.
LEMMA PassedModulesHaveNone ==
  ASSUME TypeOK, NEW m \in 1..(Modules + 1), NEW n \in m..(Modules + 1),
         \A k \in m..(n - 1) : HasNoLines(k)
  PROVE  ListedTo(n - 1) = ListedTo(m - 1)
<1> DEFINE S == {k \in Nat : m + k <= n => ListedTo(m + k - 1) = ListedTo(m - 1)}
<1>0. m \in Nat /\ n \in Nat /\ m >= 1
  BY SizesAssumption
<1>1. 0 \in S
  BY <1>0
<1>2. ASSUME NEW k \in Nat, k \in S
      PROVE  k + 1 \in S
  <2> SUFFICES ASSUME m + k + 1 <= n
               PROVE  ListedTo(m + (k + 1) - 1) = ListedTo(m - 1)
    BY <1>0
  <2> DEFINE j == m + k
  <2>1. /\ j \in m..(n - 1) /\ j \in 1..Modules /\ j \in Nat
        /\ m + (k + 1) - 1 = j /\ m + k - 1 = j - 1
    BY <1>0, SizesAssumption
  <2>2. ListedTo(j - 1) = ListedTo(m - 1)
    BY <1>0, <1>2, <2>1
  <2> HIDE DEF j
  <2>3. file.stream[SymStream(j)] # "whole"
    <3>1. HasNoLines(j)
      BY <2>1
    <3> QED
      BY <3>1 DEF HasNoLines, IsValidStream
  <2>4. LinesOf(j) = <<>>
    BY <2>3 DEF LinesOf
  <2>5. /\ ListedTo(j) = ListedTo(j - 1) \o <<>>
        /\ ListedTo(j - 1) \in Seq(Nat \X Nat)
    BY <2>1, <2>4, ListedToNext
  <2>6. ListedTo(j) = ListedTo(j - 1)
    BY <2>5
  <2> QED
    BY <2>1, <2>2, <2>6
<1> HIDE DEF S
<1>3. n - m \in S /\ m + (n - m) = n
  BY <1>0, <1>1, <1>2, SetInduction
<1> QED
  BY <1>0, <1>3 DEF S

LEMMA NextStopIsNext ==
  ASSUME TypeOK, NEW m \in 1..(Modules + 1)
  PROVE  /\ NextStop(m) \in m..(Modules + 1)
         /\ NextStop(m) <= Modules => ~HasNoLines(NextStop(m))
         /\ ListedTo(NextStop(m) - 1) = ListedTo(m - 1)
<1> DEFINE Stops(n) == (n <= Modules => ~HasNoLines(n)) /\ \A k \in m..(n - 1) : HasNoLines(k)
           T == {n \in m..(Modules + 1) : n <= Modules => ~HasNoLines(n)}
<1>0. m \in Nat /\ Modules \in Nat /\ m <= Modules + 1
  BY SizesAssumption
<1>1. Modules + 1 \in T /\ T \subseteq Nat
  BY <1>0
<1>2. PICK n \in T : \A y \in T : n <= y
  <2> HIDE DEF T
  <2> QED
    BY <1>1, LeastNumber
<1>3. \A k \in m..(n - 1) : HasNoLines(k)
  <2> SUFFICES ASSUME NEW k \in m..(n - 1), ~HasNoLines(k)
               PROVE  FALSE
    OBVIOUS
  <2>1. k \in T /\ k < n
    BY <1>0
  <2> QED
    BY <1>0, <1>2, <2>1
<1>4. n \in m..(Modules + 1) /\ Stops(n)
  BY <1>2, <1>3
<1>5. NextStop(m) = CHOOSE x \in m..(Modules + 1) : Stops(x)
  BY DEF NextStop
<1>6. NextStop(m) \in m..(Modules + 1) /\ Stops(NextStop(m))
  <2> HIDE DEF Stops
  <2> QED
    BY <1>4, <1>5
<1> QED
  BY <1>6, PassedModulesHaveNone

\* A generator that has listed the modules before m goes on to a line of a
\* whole module with all before it listed, or raises, or ends complete.
LEMMA AdvanceKeepsItsPlace ==
  ASSUME TypeOK, NEW m \in 1..(Modules + 1),
         NEW g \in Generators, g.out = ListedTo(m - 1)
  PROVE  LET a == Advance(g, m) IN
         /\ a \in Generators /\ a.begun = g.begun
         /\ a.state \in {"suspended", "ended", "raised"}
         /\ a.state = "suspended" => UpToItsLine(a)
         /\ a.state = "ended" => a.out = AllLines
<1> DEFINE stop == NextStop(m)
<1>1. /\ stop \in m..(Modules + 1)
      /\ stop <= Modules => ~HasNoLines(stop)
      /\ ListedTo(stop - 1) = g.out
  <2>1. ListedTo(stop - 1) = ListedTo(m - 1)
    BY NextStopIsNext
  <2>2. stop \in m..(Modules + 1)
    BY NextStopIsNext
  <2>3. stop <= Modules => ~HasNoLines(stop)
    BY NextStopIsNext
  <2> QED
    BY <2>1, <2>2, <2>3
<1>a. Advance(g, m) =
        IF stop = Modules + 1 THEN [g EXCEPT !.state = "ended"]
        ELSE IF ~Readable(SymStream(stop)) THEN [g EXCEPT !.state = "raised"]
        ELSE [g EXCEPT !.state = "suspended", !.module = stop, !.line = 1,
                       !.out = Append(@, <<stop, 1>>)]
  BY DEF Advance
<1> HIDE DEF stop
<1>0. Modules \in Nat /\ LinesEach \in Nat \ {0} /\ stop \in 1..(Modules + 1)
  BY <1>1, SizesAssumption
<1>2. CASE stop = Modules + 1
  <2>1. Advance(g, m) = [g EXCEPT !.state = "ended"]
    BY <1>a, <1>2
  <2>2. g.out = AllLines
    <3>1. stop - 1 = Modules
      BY <1>0, <1>2
    <3> QED
      BY <1>1, <3>1 DEF AllLines
  <2> QED
    BY <2>1, <2>2 DEF Generators
<1>3. CASE stop # Modules + 1 /\ ~Readable(SymStream(stop))
  <2>1. Advance(g, m) = [g EXCEPT !.state = "raised"]
    BY <1>a, <1>3
  <2> QED
    BY <2>1 DEF Generators
<1>4. CASE stop # Modules + 1 /\ Readable(SymStream(stop))
  <2> DEFINE e == <<stop, 1>>
             a == [g EXCEPT !.state = "suspended", !.module = stop, !.line = 1,
                            !.out = Append(@, e)]
  <2>1. Advance(g, m) = a
    BY <1>a, <1>4
  <2>2. stop \in 1..Modules /\ stop \in Nat /\ e \in Nat \X Nat
    BY <1>0, <1>4
  <2>3. file.stream[SymStream(stop)] = "whole"
    BY <1>1, <1>4, <2>2 DEF HasNoLines, IsValidStream, Readable
  <2>4. Append(g.out, e) = g.out \o [k \in 1..1 |-> <<stop, k>>]
    <3>0. \A k \in 1..1 : <<stop, k>> = e
      OBVIOUS
    <3>x. g.out \in Seq(Nat \X Nat)
      BY DEF Generators
    <3> HIDE DEF e
    <3>1. [k \in 1..1 |-> <<stop, k>>] = <<e>>
      BY <3>0
    <3>2. Append(g.out, e) = g.out \o <<e>>
      BY <2>2, <3>x, AppendIsConcat
    <3> QED
      BY <3>1, <3>2
  <2>5. Append(g.out, e) \in Seq(Nat \X Nat)
    <3>x. g.out \in Seq(Nat \X Nat)
      BY DEF Generators
    <3> HIDE DEF e
    <3> QED
      BY <2>2, <3>x, AppendProperties
  <2>6. /\ a \in Generators
        /\ a.state = "suspended" /\ a.module = stop /\ a.line = 1
        /\ a.out = Append(g.out, e) /\ a.begun = g.begun
    <3> HIDE DEF e
    <3> QED
      BY <2>2, <2>5 DEF Generators
  <2> HIDE DEF a, e
  <2>7. UpToItsLine(a)
    BY <1>0, <1>1, <2>2, <2>3, <2>4, <2>6 DEF UpToItsLine
  <2> QED
    BY <2>1, <2>6, <2>7
<1> QED
  BY <1>2, <1>3, <1>4

-----------------------------------------------------------------------------
(* What stays as it is from one state to the next.                         *)

LEMMA FileStays ==
  ASSUME file' = file
  PROVE  /\ AllLines' = AllLines /\ HasNames' = HasNames
         /\ \A m : Referenced(m)' = Referenced(m)
         /\ \A x : UpToItsLine(x)' = UpToItsLine(x)
<1>1. \A m : LinesOf(m)' = LinesOf(m)
  BY DEF LinesOf, SymStream, NamesStream
<1>2. \A m : ListedTo(m)' = ListedTo(m)
  BY <1>1 DEF ListedTo
<1>3. \A x : UpToItsLine(x)' = UpToItsLine(x)
  BY <1>2 DEF UpToItsLine, SymStream, NamesStream
<1>4. AllLines' = AllLines
  BY <1>2 DEF AllLines
<1>5. \A m : Referenced(m)' = Referenced(m)
  BY DEF Referenced, SymStream, NamesStream
<1> QED
  BY <1>3, <1>4, <1>5 DEF HasNames

\* The string table changes once, from "unread".
LEMMA GeneratorsStay ==
  ASSUME file' = file, string_table' = string_table \/ string_table = "unread"
  PROVE  \A x : GeneratorInv(x) => GeneratorInv(x)'
<1>1. string_table' = string_table \/ \A x : ~(GeneratorInv(x) /\ x.state \in {"suspended", "ended"})
  BY DEF GeneratorInv
<1> QED
  BY <1>1, FileStays DEF GeneratorInv

\* What is told is remembered with the rest.
LEMMA TellOne ==
  ASSUME told = [c \in Calls |-> told[c]], NEW call \in Calls, NEW answer, Tell(call, answer)
  PROVE  /\ told' = [c \in Calls |-> told'[c]]
         /\ told'[call] = told[call] \cup {answer}
         /\ \A c \in Calls : c # call => told'[c] = told[c]
BY DEF Tell

LEMMA CallsAre ==
  /\ {<<"string_table", 0>>, <<"id_table", 0>>, <<"info", 0>>, <<"lines", 0>>} \subseteq Calls
  /\ \A m \in 1..Modules : <<"resolve_proc_ref", m>> \in Calls
BY DEF Calls

LEMMA FixedStreams == STREAM_PDB_INFO \in Streams /\ STREAM_IPI \in Streams /\ NamesStream \in Streams
BY SizesAssumption DEF Streams, SymStream, NamesStream

LEMMA StringTableIsTrue ==
  ASSUME TypeOK, NamesAreKnown
  PROVE  /\ StringTable \in {"none", "table", "MsfError"}
         /\ string_table # "unread" => StringTable = string_table
         /\ StringTable = "table" => HasNames
         /\ StringTable = "none" /\ ~closed => ~HasNames
<1>1. CASE string_table # "unread"
  BY <1>1 DEF StringTable, TypeOK, NamesAreKnown
<1>2. CASE string_table = "unread"
  BY <1>2, FixedStreams, StreamStates
  DEF StringTable, NamesStreamIsNamed, Parsed, IsValidStream, Readable, HasNames
<1> QED
  BY <1>1, <1>2

\* The string table is kept when it is told, and known for as long as it is.
LEMMA StringTableIsKept ==
  ASSUME TypeOK, NamesAreKnown, file' = file, closed' = closed,
         string_table' = Keep(string_table, StringTable)
  PROVE  /\ string_table' \in {"unread", "none", "table"}
         /\ string_table' = string_table \/ string_table = "unread"
         /\ StringTable # "MsfError" => string_table' = StringTable
         /\ NamesAreKnown'
<1>1. HasNames' = HasNames
  BY FileStays
<1> QED
  BY <1>1, StringTableIsTrue DEF Keep, TypeOK, NamesAreKnown

-----------------------------------------------------------------------------
(* The invariant holds at first.                                           *)

\* The invariant holds at first, and every action keeps it.
LEMMA SessionInvAtFirst == Init => SessionInv
<1> SUFFICES ASSUME Init
             PROVE  SessionInv
  OBVIOUS
<1>1. TypeOK
  <2>1. <<>> \in Seq(Nat \X Nat)
    OBVIOUS
  <2>2. listing \in [Listings -> Generators]
    BY <2>1 DEF Init, Generators
  <2> QED
    BY <2>2 DEF Init, TypeOK
<1>2. Holds
  BY DEF Init, Holds
<1>3. Kept
  BY CallsAre DEF Init, Kept
<1>4. NamesAreKnown
  BY DEF Init, NamesAreKnown
<1>5. ListingsInv
  BY CallsAre DEF Init, ListingsInv, GeneratorInv
<1> QED
  BY <1>1, <1>2, <1>3, <1>4, <1>5 DEF SessionInv

-----------------------------------------------------------------------------
(* Opening and closing keep it.                                            *)

\* A step that answers nothing and reopens nothing keeps all but Holds.
LEMMA AnswersStay ==
  ASSUME SessionInv, file' = file, UNCHANGED answers, closed => closed'
  PROVE  TypeOK' /\ Kept' /\ NamesAreKnown' /\ ListingsInv'
<1> USE DEF SessionInv, answers
<1>1. TypeOK'
  BY DEF TypeOK
<1>2. Kept'
  BY FileStays DEF Kept
<1>3. NamesAreKnown'
  BY FileStays DEF NamesAreKnown
<1>4. ListingsInv'
  BY FileStays, GeneratorsStay DEF ListingsInv
<1> QED
  BY <1>1, <1>2, <1>3, <1>4

LEMMA OpeningKeepsIt ==
  ASSUME SessionInv, OpenStep \/ CallClose \/ Forget \/ Delete
  PROVE  SessionInv'
<1> USE DEF Holds
<1>h. Holds
  BY DEF SessionInv
<1>1. CASE OpenFile
  BY <1>1, <1>h, AnswersStay DEF OpenFile, Fail, SessionInv
<1>2. CASE ReadCopy
  BY <1>2, <1>h, AnswersStay DEF ReadCopy, Fail, SessionInv
<1>3. CASE MapFile
  BY <1>3, <1>h, AnswersStay DEF MapFile, Fail, SessionInv
<1>4. CASE ReadContainer
  BY <1>4, <1>h, AnswersStay DEF ReadContainer, Fail, SessionInv
<1>5. CASE BuildPdb
  BY <1>5, <1>h, AnswersStay DEF BuildPdb, Fail, SessionInv
<1>6. CASE CallClose
  BY <1>6, <1>h, AnswersStay DEF CallClose, Close, SessionInv
<1>7. CASE Forget
  BY <1>7, <1>h, AnswersStay DEF Forget, SessionInv
<1>8. CASE Delete
  BY <1>8, <1>h, AnswersStay DEF Delete, Close, SessionInv
<1> QED
  BY <1>1, <1>2, <1>3, <1>4, <1>5, <1>6, <1>7, <1>8 DEF OpenStep

-----------------------------------------------------------------------------
(* The calls that answer at once.                                          *)

LEMMA SessionStays ==
  ASSUME SessionInv, UNCHANGED session
  PROVE  Holds' /\ file' = file /\ closed' = closed
BY DEF SessionInv, session, Holds

LEMMA AskStringTableKeepsIt ==
  ASSUME SessionInv, AskStringTable
  PROVE  SessionInv'
<1> USE DEF SessionInv
<1> DEFINE call == <<"string_table", 0>>
<1>0. UNCHANGED <<session, id_table, cache, listing>>
  BY DEF AskStringTable
<1>1. Holds' /\ file' = file /\ closed' = closed
  BY <1>0, SessionStays
<1>2. /\ string_table' \in {"unread", "none", "table"}
      /\ string_table' = string_table \/ string_table = "unread"
      /\ StringTable # "MsfError" => string_table' = StringTable
      /\ NamesAreKnown'
  BY <1>1, StringTableIsKept DEF AskStringTable
<1>3. /\ told' = [c \in Calls |-> told'[c]]
      /\ \A c \in Calls : c # call => told'[c] = told[c]
      /\ told'[call] = told[call] \/ (StringTable # "MsfError" /\ told'[call] = told[call] \cup {StringTable})
  BY CallsAre, TellOne DEF AskStringTable, Answer, TypeOK
<1>4. TypeOK'
  BY <1>0, <1>1, <1>2, <1>3 DEF TypeOK
<1>5. Kept'
  <2>1. told'[call] \subseteq {string_table'} \ {"unread"}
    BY <1>2, <1>3, StringTableIsTrue DEF Kept
  <2> QED
    BY <1>0, <1>1, <1>3, <2>1, CallsAre, FileStays DEF Kept
<1>6. ListingsInv'
  <2>1. told'[<<"lines", 0>>] = told[<<"lines", 0>>]
    BY <1>3, CallsAre
  <2> QED
    BY <1>0, <1>1, <1>2, <2>1, FileStays, GeneratorsStay DEF ListingsInv
<1> QED
  BY <1>1, <1>2, <1>4, <1>5, <1>6

\* The calls that have nothing to do with the listings.
LEMMA OtherAnswersStay ==
  ASSUME SessionInv, UNCHANGED <<session, string_table, listing>>,
         told'[<<"lines", 0>>] = told[<<"lines", 0>>]
  PROVE  Holds' /\ NamesAreKnown' /\ ListingsInv'
<1>1. Holds' /\ file' = file /\ closed' = closed
  BY SessionStays
<1>2. NamesAreKnown'
  BY <1>1, FileStays DEF NamesAreKnown, SessionInv
<1>3. ListingsInv'
  BY <1>1, FileStays, GeneratorsStay DEF ListingsInv, SessionInv
<1> QED
  BY <1>1, <1>2, <1>3

LEMMA AskIdTableKeepsIt ==
  ASSUME SessionInv, AskIdTable
  PROVE  SessionInv'
<1> USE DEF SessionInv
<1> DEFINE call == <<"id_table", 0>>
           answer == IF id_table # "unread" THEN id_table ELSE Parsed(STREAM_IPI)
<1>0. UNCHANGED <<session, string_table, cache, listing>>
  BY DEF AskIdTable
<1>1. id_table' = Keep(id_table, answer) /\ Answer("id_table", answer)
  BY DEF AskIdTable
<1>2. answer \in {"none", "table", "MsfError"} /\ (id_table # "unread" => answer = id_table)
  BY FixedStreams, StreamStates DEF Parsed, TypeOK
<1> HIDE DEF answer
<1>3. /\ told' = [c \in Calls |-> told'[c]]
      /\ \A c \in Calls : c # call => told'[c] = told[c]
      /\ told'[call] = told[call] \/ (answer # "MsfError" /\ told'[call] = told[call] \cup {answer})
  BY <1>1, CallsAre, TellOne DEF Answer, TypeOK
<1>4. /\ id_table' \in {"unread", "none", "table"}
      /\ id_table' = id_table \/ id_table = "unread"
      /\ answer # "MsfError" => id_table' = answer
  BY <1>1, <1>2 DEF Keep, TypeOK
<1>5. Holds' /\ NamesAreKnown' /\ ListingsInv'
  BY <1>0, <1>3, CallsAre, OtherAnswersStay
<1>6. file' = file
  BY <1>0 DEF session
<1>7. TypeOK'
  BY <1>0, <1>3, <1>4, <1>6 DEF TypeOK
<1>8. Kept'
  <2>1. told'[call] \subseteq {id_table'} \ {"unread"}
    BY <1>2, <1>3, <1>4 DEF Kept
  <2> QED
    BY <1>0, <1>3, <1>6, <2>1, CallsAre, FileStays DEF Kept
<1> QED
  BY <1>5, <1>7, <1>8

LEMMA AskInfoKeepsIt ==
  ASSUME SessionInv, AskInfo
  PROVE  SessionInv'
<1> USE DEF SessionInv
<1> DEFINE call == <<"info", 0>>
<1>0. UNCHANGED <<session, string_table, id_table, cache, listing>>
  BY DEF AskInfo
<1>1. /\ told' = [c \in Calls |-> told'[c]]
      /\ \A c \in Calls : c # call => told'[c] = told[c]
      /\ told'[call] \subseteq told[call] \cup {"header"}
  BY CallsAre, TellOne DEF AskInfo, Answer, TypeOK
<1>2. Holds' /\ NamesAreKnown' /\ ListingsInv'
  BY <1>0, <1>1, CallsAre, OtherAnswersStay
<1>3. file' = file
  BY <1>0 DEF session
<1>4. TypeOK'
  BY <1>0, <1>1, <1>3 DEF TypeOK
<1>5. Kept'
  BY <1>0, <1>1, <1>3, CallsAre, FileStays DEF Kept
<1> QED
  BY <1>2, <1>4, <1>5

LEMMA ResolveProcRefKeepsIt ==
  ASSUME SessionInv, NEW m \in 1..Modules, ResolveProcRef(m)
  PROVE  SessionInv'
<1> USE DEF SessionInv
<1> DEFINE call == <<"resolve_proc_ref", m>>
<1>0. UNCHANGED <<session, string_table, id_table, listing>>
  BY DEF ResolveProcRef
<1>s. SymStream(m) \in Streams /\ SymStream(m) # None /\ call \in Calls
  BY StreamOfModule, CallsAre
<1>1. cache' \in [index : Streams \cup {None}, bytes : Streams \cup {None}] /\ cache'.bytes = cache'.index
  BY <1>s DEF ResolveProcRef, CachedStream, TypeOK, Kept
<1>2. told' = told \/ Tell(call, Referenced(m))
  <2>1. CASE ~IsValidStream(SymStream(m))
    BY <2>1 DEF ResolveProcRef, IsValidStream, Referenced
  <2>2. CASE IsValidStream(SymStream(m)) /\ cache'.index = SymStream(m)
    BY <1>1, <1>s, <2>2 DEF ResolveProcRef, Referenced
  <2>3. CASE IsValidStream(SymStream(m)) /\ cache'.index # SymStream(m)
    BY <2>3 DEF ResolveProcRef
  <2> QED
    BY <2>1, <2>2, <2>3
<1>3. /\ told' = [c \in Calls |-> told'[c]]
      /\ \A c \in Calls : c # call => told'[c] = told[c]
      /\ told'[call] \subseteq told[call] \cup {Referenced(m)}
  BY <1>2, <1>s, TellOne DEF TypeOK
<1>4. Holds' /\ NamesAreKnown' /\ ListingsInv'
  BY <1>0, <1>3, CallsAre, OtherAnswersStay
<1>5. file' = file
  BY <1>0 DEF session
<1>6. TypeOK'
  BY <1>0, <1>1, <1>3, <1>5 DEF TypeOK
<1>7. Kept'
  <2>1. \A n \in 1..Modules : told'[<<"resolve_proc_ref", n>>] \subseteq {Referenced(n)}
    BY <1>3, CallsAre DEF Kept
  <2> QED
    BY <1>0, <1>1, <1>3, <1>5, <2>1, CallsAre, FileStays DEF Kept
<1> QED
  BY <1>4, <1>6, <1>7

-----------------------------------------------------------------------------
(* lines().                                                                *)

\* Generator g comes to rest: what holds of it there holds of the listing.
LEMMA ListedKeepsIt ==
  ASSUME SessionInv, UNCHANGED <<session, id_table, cache>>,
         string_table' \in {"unread", "none", "table"},
         string_table' = string_table \/ string_table = "unread",
         NamesAreKnown',
         NEW g \in Listings, NEW after \in Generators, Listed(g, after),
         after.state # "created",
         after.state = "suspended" => string_table' = "table" /\ UpToItsLine(after),
         after.state = "ended" =>
           \/ string_table' = "table" /\ after.out = AllLines
           \/ string_table' = "none" /\ after.out = <<>>
              /\ (after.begun = "before close" => ~HasNames)
  PROVE  SessionInv'
<1> USE DEF SessionInv
<1> DEFINE call == <<"lines", 0>>
<1>1. Holds' /\ file' = file
  BY SessionStays
<1>2. /\ listing' \in [Listings -> Generators]
      /\ listing'[g] = after
      /\ \A h \in Listings : h # g => listing'[h] = listing[h]
  BY DEF Listed, TypeOK
<1>3. /\ told' = [c \in Calls |-> told'[c]]
      /\ \A c \in Calls : c # call => told'[c] = told[c]
      /\ told'[call] = told[call] \/ (after.state = "ended" /\ told'[call] = told[call] \cup {after.out})
  BY CallsAre, TellOne DEF Listed, TypeOK
<1>4. TypeOK'
  BY <1>1, <1>2, <1>3 DEF TypeOK
<1>5. Kept'
  BY <1>1, <1>3, CallsAre, FileStays DEF Kept
<1>6. ListingsInv'
  <2>0. /\ UpToItsLine(after)' = UpToItsLine(after)
        /\ AllLines' = AllLines /\ HasNames' = HasNames
    BY <1>1, FileStays
  <2>1. GeneratorInv(after)'
    BY <2>0 DEF GeneratorInv
  <2>2. \A h \in Listings : GeneratorInv(listing[h])'
    BY <1>1, <1>2, <2>1, GeneratorsStay DEF ListingsInv
  <2>3. told'[call] \subseteq
          IF string_table' = "table" THEN {AllLines}
          ELSE IF string_table' = "none" THEN {<<>>} ELSE {}
    BY <1>3 DEF ListingsInv
  <2> QED
    BY <2>0, <2>2, <2>3 DEF ListingsInv
<1> QED
  BY <1>1, <1>4, <1>5, <1>6

LEMMA BeginLinesKeepsIt ==
  ASSUME SessionInv, NEW g \in Listings, BeginLines(g)
  PROVE  SessionInv'
<1> DEFINE begun == [listing[g] EXCEPT !.begun = IF closed THEN "after close" ELSE "before close"]
           over(s) == [begun EXCEPT !.state = s]
<1>0. /\ UNCHANGED <<session, id_table, cache>>
      /\ string_table' = Keep(string_table, StringTable)
      /\ listing[g] \in Generators /\ listing[g].state = "created" /\ listing[g].out = <<>>
      /\ TypeOK /\ NamesAreKnown /\ closed \in BOOLEAN
  BY DEF BeginLines, SessionInv, TypeOK, ListingsInv, GeneratorInv, Holds
<1>1. /\ string_table' \in {"unread", "none", "table"}
      /\ string_table' = string_table \/ string_table = "unread"
      /\ StringTable # "MsfError" => string_table' = StringTable
      /\ NamesAreKnown'
  BY <1>0, StringTableIsKept DEF session
<1>2. /\ begun \in Generators /\ begun.out = <<>>
      /\ begun.begun = "before close" => ~closed
  BY <1>0 DEF Generators
<1>3. CASE StringTable = "none"
  <2>1. Listed(g, over("ended"))
    BY <1>3 DEF BeginLines
  <2>2. /\ over("ended") \in Generators /\ over("ended").state = "ended"
        /\ over("ended").out = <<>> /\ over("ended").begun = begun.begun
    BY <1>2 DEF Generators
  <2>3. begun.begun = "before close" => ~HasNames
    BY <1>0, <1>2, <1>3, StringTableIsTrue
  <2> HIDE DEF over, begun
  <2> QED
    BY <1>0, <1>1, <1>3, <2>1, <2>2, <2>3, ListedKeepsIt
<1>4. CASE StringTable = "MsfError"
  <2>1. Listed(g, over("raised"))
    BY <1>4 DEF BeginLines
  <2>2. over("raised") \in Generators /\ over("raised").state = "raised"
    BY <1>2 DEF Generators
  <2> HIDE DEF over, begun
  <2> QED
    BY <1>0, <1>1, <2>1, <2>2, ListedKeepsIt
<1>5. CASE StringTable = "table"
  <2>1. Listed(g, Advance(begun, 1))
    BY <1>5 DEF BeginLines
  <2>2. 1 \in 1..(Modules + 1) /\ begun.out = ListedTo(1 - 1)
    <3>1. 1 - 1 = 0 /\ 1 \in 1..(Modules + 1)
      BY SizesAssumption
    <3> HIDE DEF begun
    <3> QED
      BY <1>2, <3>1, NothingListedYet
  <2> HIDE DEF begun
  <2>3. /\ Advance(begun, 1) \in Generators
        /\ Advance(begun, 1).state \in {"suspended", "ended", "raised"}
        /\ Advance(begun, 1).state = "suspended" => UpToItsLine(Advance(begun, 1))
        /\ Advance(begun, 1).state = "ended" => Advance(begun, 1).out = AllLines
    BY <1>0, <1>2, <2>2, AdvanceKeepsItsPlace
  <2> QED
    BY <1>0, <1>1, <1>5, <2>1, <2>3, ListedKeepsIt
<1> QED
  BY <1>0, <1>3, <1>4, <1>5, StringTableIsTrue

LEMMA NextModuleKeepsIt ==
  ASSUME SessionInv, NEW g \in Listings, NextModule(g)
  PROVE  SessionInv'
<1> DEFINE m == listing[g].module
           after == Advance(listing[g], m + 1)
<1>0. /\ UNCHANGED <<session, id_table, cache>> /\ string_table' = string_table
      /\ listing[g] \in Generators /\ listing[g].state = "suspended" /\ listing[g].line = LinesEach
      /\ string_table = "table" /\ UpToItsLine(listing[g])
      /\ Listed(g, after)
      /\ TypeOK /\ NamesAreKnown
  BY DEF NextModule, SessionInv, TypeOK, ListingsInv, GeneratorInv
<1>1. m \in 1..Modules /\ m + 1 \in 1..(Modules + 1) /\ m + 1 - 1 = m
  <2>1. m \in 1..Modules
    BY <1>0 DEF UpToItsLine
  <2> HIDE DEF m
  <2> QED
    BY <2>1, SizesAssumption
<1>2. listing[g].out = ListedTo(m)
  <2>1. listing[g].out = ListedTo(m - 1) \o LinesOf(m)
    BY <1>0 DEF UpToItsLine, LinesOf
  <2> QED
    BY <1>1, <2>1, ListedToNext
<1> HIDE DEF m
<1>3. /\ after \in Generators /\ after.begun = listing[g].begun
      /\ after.state \in {"suspended", "ended", "raised"}
      /\ after.state = "suspended" => UpToItsLine(after)
      /\ after.state = "ended" => after.out = AllLines
  BY <1>0, <1>1, <1>2, AdvanceKeepsItsPlace
<1>4. NamesAreKnown'
  BY <1>0, FileStays DEF NamesAreKnown, session
<1> HIDE DEF after
<1> QED
  BY <1>0, <1>3, <1>4, ListedKeepsIt

LEMMA NextLineKeepsIt ==
  ASSUME SessionInv, NEW g \in Listings, NextLine(g)
  PROVE  SessionInv'
<1> DEFINE m == listing[g].module
           n == listing[g].line
           e == <<m, n + 1>>
           shown(k) == [i \in 1..k |-> <<m, i>>]
           after == [listing[g] EXCEPT !.line = n + 1, !.out = Append(@, e)]
<1>0. /\ UNCHANGED <<session, string_table, id_table, cache, told>>
      /\ listing[g] \in Generators /\ listing[g].state = "suspended" /\ n < LinesEach
      /\ string_table = "table" /\ UpToItsLine(listing[g])
      /\ listing' = [listing EXCEPT ![g] = after]
      /\ TypeOK /\ NamesAreKnown
  BY DEF NextLine, SessionInv, TypeOK, ListingsInv, GeneratorInv
<1>1. m \in 1..Modules /\ m \in Nat /\ n \in 1..LinesEach /\ n \in Nat
      /\ n + 1 \in 1..LinesEach /\ n + 1 \in Nat /\ e \in Nat \X Nat
  <2>1. m \in 1..Modules /\ n \in 1..LinesEach /\ n < LinesEach
    BY <1>0 DEF UpToItsLine
  <2> HIDE DEF m, n
  <2> QED
    BY <2>1, SizesAssumption
<1>2. /\ listing[g].out = ListedTo(m - 1) \o shown(n)
      /\ listing[g].out \in Seq(Nat \X Nat)
  BY <1>0 DEF UpToItsLine, Generators
<1>3. Append(listing[g].out, e) = ListedTo(m - 1) \o shown(n + 1)
  <2>1. ListedTo(m - 1) \in Seq(Nat \X Nat)
    BY <1>1, ListedToNext
  <2>2. shown(n) \in Seq(Nat \X Nat)
    BY <1>1
  <2>3. Append(shown(n), e) = shown(n + 1)
    BY <1>1
  <2> HIDE DEF shown, e, m, n
  <2>4. Append(ListedTo(m - 1) \o shown(n), e) = ListedTo(m - 1) \o Append(shown(n), e)
    <3> DEFINE X == Nat \X Nat
               s1 == ListedTo(m - 1)
               s2 == shown(n)
    <3>1. s1 \in Seq(X) /\ s2 \in Seq(X) /\ e \in X
      BY <1>1, <2>1, <2>2
    <3> HIDE DEF X, s1, s2
    <3>2. Append(s1 \o s2, e) = s1 \o Append(s2, e)
      BY <3>1
    <3> QED
      BY <3>2 DEF s1, s2
  <2> QED
    BY <1>2, <2>3, <2>4
<1>4. /\ after \in Generators /\ after.state = "suspended"
      /\ after.module = m /\ after.line = n + 1 /\ after.out = Append(listing[g].out, e)
  <2>1. Append(listing[g].out, e) \in Seq(Nat \X Nat)
    <3> HIDE DEF e
    <3> QED
      BY <1>1, <1>2, AppendProperties
  <2> HIDE DEF e, n
  <2> QED
    BY <1>0, <1>1, <2>1 DEF Generators
<1>5. UpToItsLine(after)
  <2> HIDE DEF after, e
  <2> QED
    BY <1>0, <1>1, <1>3, <1>4 DEF UpToItsLine
<1>6. Listed(g, after)
  <2> HIDE DEF after
  <2> QED
    BY <1>0, <1>4 DEF Listed
<1>7. NamesAreKnown'
  BY <1>0, FileStays DEF NamesAreKnown, session
<1> HIDE DEF after
<1> QED
  BY <1>0, <1>4, <1>5, <1>6, <1>7, ListedKeepsIt DEF TypeOK

-----------------------------------------------------------------------------
(* The theorems.                                                           *)

\* All of them together.
LEMMA SessionInvIsKept == SessionInv /\ [Next]_vars => SessionInv'
<1> SUFFICES ASSUME SessionInv, [Next]_vars
             PROVE  SessionInv'
  OBVIOUS
<1>1. CASE OpenStep \/ CallClose \/ Forget \/ Delete
  BY <1>1, OpeningKeepsIt
<1>2. CASE Ask
  BY <1>2, AskStringTableKeepsIt, AskIdTableKeepsIt, AskInfoKeepsIt, ResolveProcRefKeepsIt,
     BeginLinesKeepsIt, NextLineKeepsIt, NextModuleKeepsIt DEF Ask
<1>3. CASE UNCHANGED vars
  <2>1. UNCHANGED session /\ UNCHANGED answers
    BY <1>3 DEF vars
  <2>2. Holds' /\ file' = file /\ closed' = closed
    BY <2>1, SessionStays
  <2> QED
    BY <2>1, <2>2, AnswersStay DEF SessionInv
<1> QED
  BY <1>1, <1>2, <1>3 DEF Next

\* The inductive invariant: who holds the handle and the mapping at each step
\* of open, what every call can have answered, and where each generator is.
THEOREM SessionIsSafe == Spec => []SessionInv
<1> QED
  BY SessionInvAtFirst, SessionInvIsKept, PTL DEF Spec

\* Whichever step of open fails and whenever close() comes, no handle and no
\* mapping is left without an owner that closes it.
THEOREM NoHandleIsLeft == Spec => []NothingLeaks
<1>1. SessionInv => NothingLeaks
  BY DEF SessionInv, Holds, NothingLeaks
<1> QED
  BY <1>1, SessionIsSafe, PTL

\* _cached_stream holds the bytes of the stream it names, whatever reads
\* raised in between.
THEOREM CacheTellsTheTruth == Spec => []CacheIsItsStream
<1>1. SessionInv => CacheIsItsStream
  BY DEF SessionInv, Kept, CacheIsItsStream
<1> QED
  BY <1>1, SessionIsSafe, PTL

\* For any file and any number of generators, in whatever order calls and
\* close() come: a call that answers twice answers the same.
THEOREM NoAnswerIsTakenBack == Spec => []AnswersAgree
<1>1. ASSUME SessionInv
      PROVE  AnswersAgree
  <2>1. \A call \in Calls : \E x : told[call] \subseteq {x}
    BY <1>1 DEF SessionInv, Kept, ListingsInv, Calls
  <2>2. ASSUME NEW call \in Calls
        PROVE  Cardinality(told[call]) <= 1
    <3>1. PICK x : told[call] \subseteq {x}
      BY <2>1
    <3>2. told[call] = {} \/ told[call] = {x}
      BY <3>1
    <3> QED
      BY <3>2, FS_EmptySet, FS_Singleton
  <2> QED
    BY <2>2 DEF AnswersAgree
<1> QED
  BY <1>1, SessionIsSafe, PTL

\* A listing begun before close() that comes to its end is complete, for any
\* number of modules and lines and whatever other generators do meanwhile.
THEOREM NoListingIsCutShort == Spec => []ListingsAreWhole
<1>1. SessionInv => ListingsAreWhole
  BY DEF SessionInv, NamesAreKnown, ListingsInv, GeneratorInv, ListingsAreWhole, Complete
<1> QED
  BY <1>1, SessionIsSafe, PTL
=============================================================================
