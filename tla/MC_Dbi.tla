------------------------------- MODULE MC_Dbi -------------------------------
(* The DBI stream parsed, its section contributions searched, the corpus       *)
(* sweep's own reading of its debug header, and the names of streams and       *)
(* files, one call at a time: `call` is the one that runs, and the state of    *)
(* the others stays as it was.                                                 *)
EXTENDS ContributionMap, DbiStream, ShapeSurvey, NamedStreams

-----------------------------------------------------------------------------
(* module_of(): three contributions in any order, empty and overlapping ones   *)
(* among them.                                                                 *)

MCEntries == {[segment |-> s, offset |-> o, size |-> b, module |-> m] :
                s \in {1}, o \in {0, 2}, b \in 0..2, m \in {0, 2}}
             \cup {[segment |-> 2, offset |-> 1, size |-> b, module |-> 1] : b \in {1, 2}}

-----------------------------------------------------------------------------
(* DbiStream.parse: streams of two modules, cut at every byte; and the same    *)
(* streams whole, with one of the seven sizes in the header damaged.           *)

Records == {<<>>, <<66>>, <<66, 75>>}
Size(records) == IF records = <<>> THEN 0 ELSE IF Len(records) = 1 THEN 68 ELSE 68 + 76

WholeStream(records, entry) ==
    LET wrote == <<Size(records), 4 + 2 * entry, 4 + 2 * 20, 8, 0, 4, 22>>
    IN  [len |-> 64 + wrote[1] + wrote[2] + wrote[3] + 8 + 0 + 4 + 22,
         wrote |-> wrote, claimed |-> wrote, records |-> records,
         entry |-> entry, count |-> 2]

MCWhole == {WholeStream(r, e) : r \in Records, e \in {0, 28, 32}}
Cut(f) == {[f EXCEPT !.len = b] : b \in 0..f.len}
Wrong(b) == {-4, 0, b - 4, b + 4, b + 70, 9999}
Damaged(f) == UNION {{[f EXCEPT !.claimed[i] = b] : b \in Wrong(f.wrote[i])} : i \in 1..7}

MCFiles == UNION {Cut(f) \cup Damaged(f) : f \in MCWhole}

-----------------------------------------------------------------------------
(* The sweep: a header of two words before substreams of one or none, in       *)
(* blocks of four: the slots may end with the stream, short of it, or in the   *)
(* rest of a block.  One file: what is read of one has no effect on the next.  *)

MCSizes == {-1, 0, 1}
MCStreamWords == {0, 1, 2, 4, 5, 6, 7, 8}
MCDeclaredWords == {-1, 0, 2, 3}

-----------------------------------------------------------------------------
(* Names: maps of two names, the first of which may be empty, in up to two     *)
(* buckets and one or two words of bits, cut at every byte and followed by     *)
(* none, one or two words of something else; one bit more than there are       *)
(* buckets, a key outside, and a buffer whose last name has no end.            *)

MCVectors == {<<>>, <<{0}, {}>>, <<{0, 2}>>, <<{1}, {0}>>, <<{0, 1}, {3}>>}
MCBuckets ==
  {<<>>} \cup {<<b>> : b \in [name : 0..2, stream : {7}]}
  \cup {<<b, c>> : b \in [name : 0..2, stream : {7}], c \in [name : 0..2, stream : {8}]}

MCMaps ==
  {m \in [names : {<<<<1>>, <<2, 2>>>>, <<<<>>, <<1>>>>}, ended : BOOLEAN, size : {1, 2},
          present : MCVectors, deleted : {<<{0}>>}, buckets : MCBuckets] :
     /\ PresentBits(m) \in Len(m.buckets) .. Len(m.buckets) + 1
     /\ m.size = 2 \/ m.names[1] = <<>>}

MCTables ==
  [signature : {"right"}, version : {2}, names : {<<>>, <<<<1>>>>, <<<<1>>, <<2, 2>>>>},
   ended : BOOLEAN]
  \cup [signature : {"wrong", "right"}, version : {1, 3}, names : {<<<<1>>>>}, ended : {TRUE}]

-----------------------------------------------------------------------------
VARIABLE call

SearchIdle == contributions = <<>> /\ modules = 0 /\ Init
ParseIdle == file = (CHOOSE f \in Files : TRUE) /\ ParseInit
NamesIdle == map = (CHOOSE m \in Maps : TRUE) /\ map_end = 0 /\ NamesInit

DbiInit ==
    /\ SurveyInit
    /\ \/ call = "module_of" /\ ParseIdle /\ NamesIdle /\ Init
       \/ call = "parse" /\ SearchIdle /\ NamesIdle /\ ParseInit
       \/ call = "survey" /\ SearchIdle /\ ParseIdle /\ NamesIdle
       \/ call = "named_streams" /\ SearchIdle /\ ParseIdle /\ NamesInit

DbiNext ==
    \/ call = "module_of" /\ Next /\ UNCHANGED <<parseVars, surveyVars, namesVars, call>>
    \/ call = "parse" /\ ParseNext /\ UNCHANGED <<vars, surveyVars, namesVars, call>>
    \/ call = "survey" /\ SurveyNext /\ UNCHANGED <<vars, parseVars, namesVars, call>>
    \/ call = "named_streams" /\ NamesNext /\ UNCHANGED <<vars, parseVars, surveyVars, call>>

DbiSpec == DbiInit /\ [][DbiNext]_<<vars, parseVars, surveyVars, namesVars, call>>
=============================================================================
