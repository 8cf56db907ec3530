--------------------------- MODULE Reports_proofs ---------------------------
(***************************************************************************)
(* What is said of a file is what is so: the warnings of diagnose(), the   *)
(* verdict of the comparison with llvm-pdbutil, made from counters and     *)
(* flags kept along the way, and the agreement of addresses with exports;  *)
(* the listing of symbols, which has each of them once; and the listing of *)
(* functions, which is the merge of all that is claimed of an address.     *)
(***************************************************************************)
EXTENDS Diagnose, LlvmValidation, OmapValidation, SymbolListings, FunctionListing, Lemmas,
        FiniteSetTheorems, TLAPS

-----------------------------------------------------------------------------
(* The diagnosis *)

\* The file: what Modules allows, listed up to somewhere, with its symbol records.
PdbFits ==
    /\ pdb.modules \in [1..NumModules -> Modules]
    /\ pdb.listed \in 0..NumModules
    /\ pdb.stopped \in BOOLEAN /\ pdb.stripped \in BOOLEAN
    /\ pdb.symrec \in Symrecs(pdb.modules)

\* The ways a walk is cut short that diagnose() counts.
Truncations == {"abandoned", "ragged"}

\* The counters count, and the loop is inside the listed modules or just past them.
CountsAreNumbers ==
    /\ next_module \in 1..pdb.listed + 1
    /\ with_symbols \in Nat /\ proc_records \in Nat
    /\ malformed_records \in Nat /\ signatures \in Nat
    /\ truncations \in Seq(Truncations)

\* The modules the loop is done with.
Looked == 1..next_module - 1

\* What is wrong with a module that diagnose() has looked at has been counted.
TroubleIsCounted ==
    \A m \in Looked :
        LET d == pdb.modules[m]
        IN  /\ HasSymbols(d) /\ d.stream /\ ~d.signature => signatures # 0
            /\ HasBody(d) /\ Malformed(d) # {} => malformed_records # 0
            /\ HasBody(d) /\ d.stop = "abandoned" => "abandoned" \in ToSet(truncations)

\* A procedure that is read is counted.
ProcsAreCounted ==
    \A m \in Looked : HasBody(pdb.modules[m]) /\ Decoded(pdb.modules[m]) # {} => proc_records # 0

\* Of a sound file nothing has been counted against it.
NothingIsInvented ==
    Sound => signatures = 0 /\ malformed_records = 0 /\ truncations = <<>>

\* What the symbol-record stream gave, once it has been read.
SurveyIsDone ==
    /\ ~done => public_records = 0
    /\ done => /\ next_module > pdb.listed
               /\ ~pdb.symrec.valid => public_records = 0
               /\ pdb.symrec.valid =>
                    /\ refs = [r \in pdb.symrec.refs |-> Target(r)]
                    /\ pdb.symrec.abandoned => "abandoned" \in ToSet(truncations)
                    /\ Sound => public_records # 0

\* The inductive invariant of diagnose().
DiagnoseInv ==
    /\ PdbFits /\ CountsAreNumbers /\ TroubleIsCounted /\ ProcsAreCounted
    /\ NothingIsInvented /\ SurveyIsDone

\* A module, field by field.
LEMMA ModuleFits ==
  ASSUME NEW d \in Modules
  PROVE  /\ d.recs \in Seq([kind : Kinds, ok : BOOLEAN])
         /\ DOMAIN d.recs = 1..Len(d.recs) /\ Len(d.recs) \in Nat
         /\ d.reach \in 0..Len(d.recs) /\ d.stop \in Stops
         /\ d.stop = "end" => d.reach = Len(d.recs)
         /\ \A k \in DOMAIN d.recs : d.recs[k].kind \in Kinds
<1>1. d.recs \in Seq([kind : Kinds, ok : BOOLEAN])
  BY ModulesAssumption
<1>2. DOMAIN d.recs = 1..Len(d.recs) /\ Len(d.recs) \in Nat
  BY <1>1
<1>3. \A k \in DOMAIN d.recs : d.recs[k] \in [kind : Kinds, ok : BOOLEAN]
  <2> DEFINE X == [kind : Kinds, ok : BOOLEAN]
             q == d.recs
  <2>1. q \in Seq(X)
    BY <1>1
  <2> HIDE DEF X, q
  <2>2. \A k \in DOMAIN q : q[k] \in X
    BY <2>1
  <2> QED
    BY <2>2 DEF X, q
<1> QED
  BY <1>1, <1>2, <1>3, ModulesAssumption

\* Counting finds what is there.
LEMMA CountFinds ==
  ASSUME NEW S, NEW n \in Nat, S \subseteq 1..n
  PROVE  /\ Cardinality(S) \in Nat
         /\ Cardinality(S) = 0 <=> S = {}
<1>1. IsFiniteSet(1..n)
  BY FS_Interval
<1>2. IsFiniteSet(S)
  BY <1>1, FS_Subset
<1> QED
  BY <1>2, FS_CardinalityType, FS_EmptySet

\* The two counts of a module are zero only when there is nothing to count.
LEMMA RecordsCount ==
  ASSUME NEW d \in Modules
  PROVE  /\ Cardinality(Decoded(d)) \in Nat /\ (Cardinality(Decoded(d)) = 0 <=> Decoded(d) = {})
         /\ Cardinality(Malformed(d)) \in Nat /\ (Cardinality(Malformed(d)) = 0 <=> Malformed(d) = {})
<1>1. Decoded(d) \subseteq DOMAIN d.recs /\ Malformed(d) \subseteq DOMAIN d.recs
  BY DEF Decoded, Malformed, OfKind, Reached
<1>2. DOMAIN d.recs = 1..Len(d.recs) /\ Len(d.recs) \in Nat
  BY ModuleFits
<1> HIDE DEF Decoded, Malformed
<1> QED
  BY <1>1, <1>2, CountFinds

\* A symbol-record stream has the whole index, or was abandoned or is missing.
LEMMA SymrecFits ==
  ASSUME PdbFits
  PROVE  /\ pdb.symrec.publics \in {<<TRUE, TRUE>>, <<TRUE, FALSE>>, <<>>}
         /\ \/ pdb.symrec.refs = Index(pdb.modules)
            \/ pdb.symrec.refs = {} /\ (pdb.symrec.abandoned \/ ~pdb.symrec.valid)
         /\ ~pdb.symrec.valid => pdb.symrec.publics = <<>>
<1> DEFINE s == pdb.symrec
           index == Index(pdb.modules)
           whole == [valid |-> TRUE, refs |-> index,
                     publics |-> <<TRUE, TRUE>>, abandoned |-> FALSE]
<1>1. \/ s = whole
      \/ s = [whole EXCEPT !.publics = <<TRUE, FALSE>>]
      \/ s = [whole EXCEPT !.publics = <<>>]
      \/ s = [whole EXCEPT !.refs = {}, !.abandoned = TRUE]
      \/ s = [whole EXCEPT !.refs = {}, !.publics = <<>>, !.valid = FALSE]
  BY DEF PdbFits, Symrecs
<1> HIDE DEF s, index
<1>2. /\ s.publics \in {<<TRUE, TRUE>>, <<TRUE, FALSE>>, <<>>}
      /\ s.refs = index \/ (s.refs = {} /\ (s.abandoned = TRUE \/ s.valid = FALSE))
      /\ s.valid = TRUE \/ (s.valid = FALSE /\ s.publics = <<>>)
  <2>1. CASE s = whole
    BY <2>1
  <2>2. CASE s = [whole EXCEPT !.publics = <<TRUE, FALSE>>]
    BY <2>2
  <2>3. CASE s = [whole EXCEPT !.publics = <<>>]
    BY <2>3
  <2>4. CASE s = [whole EXCEPT !.refs = {}, !.abandoned = TRUE]
    BY <2>4
  <2>5. CASE s = [whole EXCEPT !.refs = {}, !.publics = <<>>, !.valid = FALSE]
    BY <2>5
  <2> QED
    BY <1>1, <2>1, <2>2, <2>3, <2>4, <2>5
<1> QED
  BY <1>2, Zenon DEF s, index

\* One truncation more is added to those already there.
LEMMA TruncationKept ==
  ASSUME NEW t \in Seq(Truncations), NEW x \in Truncations
  PROVE  /\ Append(t, x) \in Seq(Truncations)
         /\ x \in ToSet(Append(t, x)) /\ ToSet(t) \subseteq ToSet(Append(t, x))
<1> DEFINE u == Append(t, x)
<1>1. /\ u \in Seq(Truncations) /\ Len(u) = Len(t) + 1 /\ Len(t) \in Nat /\ u[Len(t) + 1] = x
      /\ \A i \in 1..Len(t) : u[i] = t[i]
  OBVIOUS
<1>2. DOMAIN u = 1..Len(t) + 1 /\ DOMAIN t = 1..Len(t)
  BY <1>1
<1> HIDE DEF u
<1>3. x \in ToSet(u)
  BY <1>1, <1>2 DEF ToSet
<1>4. ToSet(t) \subseteq ToSet(u)
  BY <1>1, <1>2 DEF ToSet
<1> QED
  BY <1>1, <1>3, <1>4 DEF u

\* The module the loop is at is one of the file's.
LEMMA HereFits ==
  ASSUME PdbFits, CountsAreNumbers, Looking
  PROVE  /\ Here \in Modules /\ Here = pdb.modules[next_module]
         /\ next_module \in 1..pdb.listed /\ next_module \in DOMAIN pdb.modules
BY ModulesAssumption DEF PdbFits, CountsAreNumbers, Looking, Here

\* The next module is looked at: what is said of the ones before, and of it.
LEMMA OneMoreLooked ==
  ASSUME next_module \in Nat, next_module' = next_module + 1
  PROVE  \A m \in Looked' : m \in Looked \/ m = next_module
BY DEF Looked

\* What is written in pdb stays what it is.
LEMMA PdbStays ==
  ASSUME pdb' = pdb
  PROVE  /\ PdbFits' <=> PdbFits
         /\ Sound' <=> Sound
         /\ \A r : Target(r)' = Target(r)
BY DEF PdbFits, Sound, Target

(***************************************************************************)
(* PDB.diagnose: whatever the modules and the symbol records are, at every *)
(* module what is wrong with those before it is in the counters the        *)
(* warnings are made of, and of a sound file nothing is.                   *)
(***************************************************************************)
THEOREM DiagnosisIsSafe == DiagnoseSpec => []DiagnoseInv
<1>1. DiagnoseInit => DiagnoseInv
  <2> SUFFICES ASSUME DiagnoseInit PROVE DiagnoseInv
    OBVIOUS
  <2>1. PdbFits
    BY DEF DiagnoseInit, PdbFits
  <2>2. CountsAreNumbers
    <3>1. /\ next_module = 1 /\ with_symbols = 0 /\ proc_records = 0
          /\ malformed_records = 0 /\ signatures = 0 /\ truncations = <<>>
      BY DEF DiagnoseInit
    <3>2. 1 \in 1..pdb.listed + 1
      BY <2>1, ModulesAssumption DEF PdbFits
    <3> QED
      BY <3>1, <3>2 DEF CountsAreNumbers
  <2>3. Looked = {}
    BY DEF DiagnoseInit, Looked
  <2> QED
    BY <2>1, <2>2, <2>3
       DEF DiagnoseInit, DiagnoseInv, TroubleIsCounted, ProcsAreCounted, NothingIsInvented, SurveyIsDone
<1>2. ASSUME DiagnoseInv, PassModule
      PROVE  DiagnoseInv'
  <2>1. /\ Looking /\ ~HasBody(Here) /\ CountSignature
        /\ next_module' = next_module + 1 /\ pdb' = pdb
        /\ UNCHANGED <<with_symbols, proc_records, malformed_records, truncations, refs,
                        public_records, done>>
    BY <1>2 DEF PassModule
  <2>2. /\ Here \in Modules /\ Here = pdb.modules[next_module]
        /\ next_module \in 1..pdb.listed /\ next_module \in DOMAIN pdb.modules
    BY <1>2, <2>1, HereFits DEF DiagnoseInv
  <2>3. signatures \in Nat /\ pdb.listed \in Nat /\ next_module \in Nat
    BY <1>2, ModulesAssumption DEF DiagnoseInv, CountsAreNumbers, PdbFits
  <2>4. /\ HasSymbols(Here) /\ Here.stream /\ ~Here.signature => signatures' = signatures + 1
        /\ Here.signature => signatures' = signatures
        /\ signatures' \in {signatures, signatures + 1}
    BY <2>1 DEF CountSignature
  <2>5. PdbFits' /\ (Sound' <=> Sound)
    BY <1>2, <2>1, PdbStays DEF DiagnoseInv
  <2>6. CountsAreNumbers'
    <3>1. signatures' \in Nat /\ next_module' \in 1..pdb.listed + 1
      BY <2>1, <2>2, <2>3, <2>4
    <3> QED
      BY <1>2, <2>1, <3>1 DEF DiagnoseInv, CountsAreNumbers
  <2>7. \A m \in Looked' : m \in Looked \/ m = next_module
    BY <2>1, <2>3, OneMoreLooked
  <2>8. TroubleIsCounted'
    <3> SUFFICES ASSUME NEW m \in Looked'
                 PROVE  LET d == pdb.modules[m]
                        IN  /\ HasSymbols(d) /\ d.stream /\ ~d.signature => signatures' # 0
                            /\ HasBody(d) /\ Malformed(d) # {} => malformed_records # 0
                            /\ HasBody(d) /\ d.stop = "abandoned" => "abandoned" \in ToSet(truncations)
      BY <2>1 DEF TroubleIsCounted
    <3>1. CASE m \in Looked
      <4>1. signatures # 0 => signatures' # 0
        BY <2>3, <2>4
      <4> QED
        BY <1>2, <3>1, <4>1 DEF DiagnoseInv, TroubleIsCounted
    <3>2. CASE m = next_module
      <4>1. signatures + 1 # 0
        BY <2>3
      <4> QED
        BY <2>1, <2>2, <2>4, <3>2, <4>1, Zenon
    <3> QED
      BY <2>7, <3>1, <3>2
  <2>9. ProcsAreCounted'
    <3> SUFFICES ASSUME NEW m \in Looked', HasBody(pdb.modules[m]), Decoded(pdb.modules[m]) # {}
                 PROVE  proc_records # 0
      BY <2>1 DEF ProcsAreCounted
    <3>1. m # next_module
      BY <2>1, <2>2
    <3> QED
      BY <1>2, <2>7, <3>1 DEF DiagnoseInv, ProcsAreCounted
  <2>10. NothingIsInvented'
    <3> SUFFICES ASSUME Sound
                 PROVE  signatures' = 0 /\ malformed_records = 0 /\ truncations = <<>>
      BY <2>1, <2>5 DEF NothingIsInvented
    <3>1. Here.signature
      BY <2>2 DEF Sound
    <3> QED
      BY <1>2, <2>4, <3>1 DEF DiagnoseInv, NothingIsInvented
  <2>11. SurveyIsDone'
    BY <1>2, <2>1 DEF DiagnoseInv, SurveyIsDone, Looking
  <2> QED
    BY <2>5, <2>6, <2>8, <2>9, <2>10, <2>11 DEF DiagnoseInv
<1>3. ASSUME DiagnoseInv, SurveyModule
      PROVE  DiagnoseInv'
  <2>1. /\ Looking /\ HasBody(Here)
        /\ with_symbols' = with_symbols + 1
        /\ proc_records' = proc_records + Cardinality(Decoded(Here))
        /\ malformed_records' = malformed_records + Cardinality(Malformed(Here))
        /\ truncations' = CASE Here.stop \in {"abandoned", "torn"} -> Append(truncations, "abandoned")
                           [] Here.stop = "ragged"               -> Append(truncations, "ragged")
                           [] OTHER                              -> truncations
        /\ next_module' = next_module + 1 /\ pdb' = pdb
        /\ UNCHANGED <<signatures, refs, public_records, done>>
    BY <1>3 DEF SurveyModule
  <2>2. /\ Here \in Modules /\ Here = pdb.modules[next_module]
        /\ next_module \in 1..pdb.listed /\ next_module \in DOMAIN pdb.modules
    BY <1>3, <2>1, HereFits DEF DiagnoseInv
  <2>3. /\ with_symbols \in Nat /\ proc_records \in Nat /\ malformed_records \in Nat
        /\ signatures \in Nat /\ truncations \in Seq(Truncations)
        /\ pdb.listed \in Nat /\ next_module \in Nat
    BY <1>3, ModulesAssumption DEF DiagnoseInv, CountsAreNumbers, PdbFits
  <2>4. /\ Cardinality(Decoded(Here)) \in Nat
        /\ Cardinality(Decoded(Here)) = 0 <=> Decoded(Here) = {}
        /\ Cardinality(Malformed(Here)) \in Nat
        /\ Cardinality(Malformed(Here)) = 0 <=> Malformed(Here) = {}
    BY <2>2, RecordsCount
  <2>5. /\ truncations' \in Seq(Truncations) /\ ToSet(truncations) \subseteq ToSet(truncations')
        /\ Here.stop = "abandoned" => "abandoned" \in ToSet(truncations')
        /\ Here.stop = "end" => truncations' = truncations
    <3>1. "abandoned" \in Truncations /\ "ragged" \in Truncations
      BY DEF Truncations
    <3> QED
      BY <2>1, <2>3, <3>1, TruncationKept
  <2>6. PdbFits' /\ (Sound' <=> Sound)
    BY <1>3, <2>1, PdbStays DEF DiagnoseInv
  <2>7. /\ proc_records' \in Nat /\ malformed_records' \in Nat
        /\ proc_records # 0 \/ Decoded(Here) # {} => proc_records' # 0
        /\ malformed_records # 0 \/ Malformed(Here) # {} => malformed_records' # 0
        /\ Malformed(Here) = {} => malformed_records' = malformed_records
    <3> DEFINE decoded == Cardinality(Decoded(Here))
               malformed == Cardinality(Malformed(Here))
    <3>1. proc_records' = proc_records + decoded /\ malformed_records' = malformed_records + malformed
      BY <2>1
    <3>2. decoded \in Nat /\ malformed \in Nat
      BY <2>4
    <3>3. (decoded = 0 <=> Decoded(Here) = {}) /\ (malformed = 0 <=> Malformed(Here) = {})
      BY <2>4
    <3> HIDE DEF decoded, malformed
    <3> QED
      BY <2>3, <3>1, <3>2, <3>3
  <2>8. CountsAreNumbers'
    <3>1. next_module' \in 1..pdb.listed + 1 /\ with_symbols' \in Nat
      BY <2>1, <2>2, <2>3
    <3> QED
      BY <2>1, <2>3, <2>5, <2>7, <3>1 DEF CountsAreNumbers
  <2>9. \A m \in Looked' : m \in Looked \/ m = next_module
    BY <2>1, <2>3, OneMoreLooked
  <2>10. TroubleIsCounted'
    <3> SUFFICES ASSUME NEW m \in Looked'
                 PROVE  LET d == pdb.modules[m]
                        IN  /\ HasSymbols(d) /\ d.stream /\ ~d.signature => signatures # 0
                            /\ HasBody(d) /\ Malformed(d) # {} => malformed_records' # 0
                            /\ HasBody(d) /\ d.stop = "abandoned" => "abandoned" \in ToSet(truncations')
      BY <2>1 DEF TroubleIsCounted
    <3>1. CASE m \in Looked
      BY <1>3, <2>5, <2>7, <3>1 DEF DiagnoseInv, TroubleIsCounted
    <3>2. CASE m = next_module
      <4>1. Here.signature
        BY <2>1 DEF HasBody
      <4> QED
        BY <2>2, <2>5, <2>7, <3>2, <4>1, Zenon
    <3> QED
      BY <2>9, <3>1, <3>2
  <2>11. ProcsAreCounted'
    <3> SUFFICES ASSUME NEW m \in Looked', HasBody(pdb.modules[m]), Decoded(pdb.modules[m]) # {}
                 PROVE  proc_records' # 0
      BY <2>1 DEF ProcsAreCounted
    <3> QED
      BY <1>3, <2>2, <2>7, <2>9 DEF DiagnoseInv, ProcsAreCounted
  <2>12. NothingIsInvented'
    <3> SUFFICES ASSUME Sound
                 PROVE  signatures = 0 /\ malformed_records' = 0 /\ truncations' = <<>>
      BY <2>1, <2>6 DEF NothingIsInvented
    <3>1. Here.stop = "end" /\ \A k \in DOMAIN Here.recs : Here.recs[k].ok
      BY <2>2 DEF Sound
    <3>2. Malformed(Here) = {}
      BY <3>1 DEF Malformed, Reached
    <3> QED
      BY <1>3, <2>5, <2>7, <3>1, <3>2 DEF DiagnoseInv, NothingIsInvented
  <2>13. SurveyIsDone'
    BY <1>3, <2>1 DEF DiagnoseInv, SurveyIsDone, Looking
  <2> QED
    BY <2>6, <2>8, <2>10, <2>11, <2>12, <2>13 DEF DiagnoseInv
<1>4. ASSUME DiagnoseInv, SurveySymbolRecords
      PROVE  DiagnoseInv'
  <2> DEFINE s == pdb.symrec
             good == {p \in DOMAIN s.publics : s.publics[p]}
             bad == {p \in DOMAIN s.publics : ~s.publics[p]}
  <2>1. /\ ~done /\ next_module > pdb.listed /\ done' = TRUE /\ pdb' = pdb
        /\ UNCHANGED <<next_module, with_symbols, proc_records, signatures>>
    BY <1>4 DEF SurveySymbolRecords
  <2>2. IF s.valid
        THEN /\ refs' = [r \in s.refs |-> Target(r)]
             /\ public_records' = Cardinality(good)
             /\ malformed_records' = malformed_records + Cardinality(bad)
             /\ truncations' = IF s.abandoned THEN Append(truncations, "abandoned") ELSE truncations
        ELSE UNCHANGED <<refs, public_records, malformed_records, truncations>>
    BY <1>4 DEF SurveySymbolRecords
  <2>3. /\ malformed_records \in Nat /\ truncations \in Seq(Truncations)
    BY <1>4 DEF DiagnoseInv, CountsAreNumbers
  <2>4. /\ Cardinality(good) \in Nat /\ (Cardinality(good) = 0 <=> good = {})
        /\ Cardinality(bad) \in Nat /\ (Cardinality(bad) = 0 <=> bad = {})
    <3>1. s.publics \in {<<TRUE, TRUE>>, <<TRUE, FALSE>>, <<>>}
      BY <1>4, SymrecFits DEF DiagnoseInv
    <3>2. DOMAIN s.publics \subseteq 1..2
      <4> HIDE DEF s
      <4>1. CASE s.publics = <<TRUE, TRUE>>
        BY <4>1
      <4>2. CASE s.publics = <<TRUE, FALSE>>
        BY <4>2
      <4>3. CASE s.publics = <<>>
        BY <4>3
      <4> QED
        BY <3>1, <4>1, <4>2, <4>3
    <3>3. good \subseteq 1..2 /\ bad \subseteq 1..2
      BY <3>2
    <3> HIDE DEF good, bad
    <3> QED
      BY <3>3, CountFinds
  <2>5. /\ malformed_records' \in Nat
        /\ malformed_records # 0 => malformed_records' # 0
        /\ bad = {} => malformed_records' = malformed_records
    <3> HIDE DEF good, bad
    <3> QED
      BY <2>2, <2>3, <2>4
  <2>6. /\ truncations' \in Seq(Truncations) /\ ToSet(truncations) \subseteq ToSet(truncations')
        /\ s.valid /\ s.abandoned => "abandoned" \in ToSet(truncations')
        /\ ~s.abandoned => truncations' = truncations
    <3>1. "abandoned" \in Truncations
      BY DEF Truncations
    <3> HIDE DEF good, bad
    <3> QED
      BY <2>2, <2>3, <3>1, TruncationKept
  <2>7. PdbFits' /\ (Sound' <=> Sound) /\ \A r : Target(r)' = Target(r)
    BY <1>4, <2>1, PdbStays DEF DiagnoseInv
  <2>8. CountsAreNumbers'
    BY <1>4, <2>1, <2>5, <2>6 DEF DiagnoseInv, CountsAreNumbers
  <2>9. Looked' = Looked
    BY <2>1 DEF Looked
  <2>10. TroubleIsCounted' /\ ProcsAreCounted'
    BY <1>4, <2>1, <2>5, <2>6, <2>9 DEF DiagnoseInv, TroubleIsCounted, ProcsAreCounted
  <2>11. NothingIsInvented'
    <3> SUFFICES ASSUME Sound
                 PROVE  signatures = 0 /\ malformed_records' = 0 /\ truncations' = <<>>
      BY <2>1, <2>7 DEF NothingIsInvented
    <3>1. ~s.abandoned /\ bad = {}
      BY DEF Sound
    <3> HIDE DEF bad, s
    <3> QED
      BY <1>4, <2>5, <2>6, <3>1 DEF DiagnoseInv, NothingIsInvented
  <2>12. SurveyIsDone'
    <3>1. Sound => s.valid /\ good # {}
      BY DEF Sound
    <3>2. ~s.valid => public_records' = 0
      BY <1>4, <2>1, <2>2 DEF DiagnoseInv, SurveyIsDone
    <3>3. s.valid => /\ refs' = [r \in s.refs |-> Target(r)]
                     /\ Sound => public_records' # 0
      <4> HIDE DEF good, bad
      <4> QED
        BY <2>2, <2>4, <3>1
    <3>4. [r \in s.refs |-> Target(r)] = [r \in s.refs |-> Target(r)']
      BY <2>7
    <3> HIDE DEF good, bad
    <3> QED
      BY <2>1, <2>6, <2>7, <3>2, <3>3, <3>4 DEF SurveyIsDone
  <2> QED
    BY <2>7, <2>8, <2>10, <2>11, <2>12 DEF DiagnoseInv
<1>5. ASSUME DiagnoseInv, UNCHANGED diagnoseVars
      PROVE  DiagnoseInv'
  <2>1. UNCHANGED <<pdb, next_module, with_symbols, proc_records, malformed_records, signatures,
                    truncations, refs, public_records, done>>
    BY <1>5 DEF diagnoseVars, counts
  <2>2. (PdbFits' <=> PdbFits) /\ (Sound' <=> Sound) /\ \A r : Target(r)' = Target(r)
    BY <2>1, PdbStays
  <2>3. CountsAreNumbers' /\ TroubleIsCounted' /\ ProcsAreCounted' /\ NothingIsInvented'
    BY <1>5, <2>1, <2>2
       DEF DiagnoseInv, CountsAreNumbers, TroubleIsCounted, ProcsAreCounted, NothingIsInvented, Looked
  <2>4. SurveyIsDone'
    BY <1>5, <2>1, <2>2 DEF DiagnoseInv, SurveyIsDone
  <2> QED
    BY <1>5, <2>2, <2>3, <2>4 DEF DiagnoseInv
<1> QED
  BY <1>1, <1>2, <1>3, <1>4, <1>5, PTL DEF DiagnoseSpec, DiagnoseNext

(***************************************************************************)
(* A procedure that module_procs() leaves out has a sentence, whatever is  *)
(* wrong with the file.                                                    *)
(***************************************************************************)
THEOREM EveryLossIsExplained == DiagnoseSpec => []LossIsExplained
<1>1. ASSUME DiagnoseInv
      PROVE  LossIsExplained
  <2> SUFFICES ASSUME done, ~Shortened, Written # Listed, Warnings = {}
               PROVE  FALSE
    BY DEF LossIsExplained
  <2>0. /\ pdb.modules \in [1..NumModules -> Modules] /\ NumModules \in Nat
        /\ pdb.listed \in 0..NumModules /\ next_module \in 1..pdb.listed + 1
    BY <1>1, ModulesAssumption DEF DiagnoseInv, PdbFits, CountsAreNumbers
  <2>a. \E m \in DOMAIN pdb.modules : \E k \in DOMAIN pdb.modules[m].recs :
          /\ pdb.modules[m].recs[k].kind = ProcKind
          /\ ~(m \in 1..pdb.listed /\ k \in Procs(pdb.modules[m]))
    <3>1. Listed \subseteq Written
      <4> SUFFICES ASSUME NEW m \in 1..pdb.listed, NEW k \in Procs(pdb.modules[m])
                   PROVE  <<m, k>> \in Written
        BY DEF Listed
      <4>1. m \in DOMAIN pdb.modules
        BY <2>0
      <4>2. k \in DOMAIN pdb.modules[m].recs /\ pdb.modules[m].recs[k].kind = ProcKind
        BY DEF Procs, OfKind, Reached
      <4> QED
        BY <4>1, <4>2 DEF Written
    <3>2. PICK w \in Written : w \notin Listed
      BY <3>1
    <3>3. PICK m \in DOMAIN pdb.modules : \E k \in DOMAIN pdb.modules[m].recs :
            w = <<m, k>> /\ pdb.modules[m].recs[k].kind = ProcKind
      BY <3>2 DEF Written
    <3>4. PICK k \in DOMAIN pdb.modules[m].recs :
            w = <<m, k>> /\ pdb.modules[m].recs[k].kind = ProcKind
      BY <3>3
    <3> QED
      BY <3>2, <3>4 DEF Listed
  <2>b. PICK m \in DOMAIN pdb.modules : \E k \in DOMAIN pdb.modules[m].recs :
          /\ pdb.modules[m].recs[k].kind = ProcKind
          /\ ~(m \in 1..pdb.listed /\ k \in Procs(pdb.modules[m]))
    BY <2>a
  <2>1. PICK k \in DOMAIN pdb.modules[m].recs :
          /\ pdb.modules[m].recs[k].kind = ProcKind
          /\ ~(m \in 1..pdb.listed /\ k \in Procs(pdb.modules[m]))
    BY <2>b
  <2> DEFINE d == pdb.modules[m]
             r == [module |-> m, rec |-> k]
  <2>2. /\ signatures = 0 /\ public_records # 0 /\ malformed_records = 0
        /\ "abandoned" \notin ToSet(truncations)
        /\ Unmatched = {}
    BY DEF Warnings, StreamWarnings, IndexWarnings, Says
  <2>3. pdb.symrec.valid /\ ~pdb.symrec.abandoned /\ next_module > pdb.listed
    BY <1>1, <2>2 DEF DiagnoseInv, SurveyIsDone
  <2>4. r \in pdb.symrec.refs
    <3>1. pdb.symrec.refs = Index(pdb.modules)
      BY <1>1, <2>3, SymrecFits DEF DiagnoseInv
    <3>2. pdb.modules[m].recs[k].kind # "other"
      BY <2>1 DEF ProcKind
    <3>3. r \in Index(pdb.modules)
      BY <2>1, <3>2 DEF Index
    <3> QED
      BY <3>1, <3>3
  <2>5. Target(r) \in Accounted
    <3>1. refs = [x \in pdb.symrec.refs |-> Target(x)]
      BY <1>1, <2>3 DEF DiagnoseInv, SurveyIsDone
    <3>2. refs[r] = Target(r) /\ r \in DOMAIN refs
      BY <2>4, <3>1
    <3> QED
      BY <2>2, <3>2 DEF Unmatched
  <2>6. d \in Modules /\ m \in 1..NumModules
    BY <2>0, <2>1
  <2>7. /\ DOMAIN d.recs = 1..Len(d.recs) /\ Len(d.recs) \in Nat
        /\ d.reach \in 0..Len(d.recs) /\ d.stop \in Stops \ {"short"}
        /\ d.stop = "end" => d.reach = Len(d.recs)
    BY <2>1, <2>6, ModuleFits DEF Shortened, Stops
  <2>8. r.module = m /\ r.rec = k
    OBVIOUS
  <2>9. "unresolvable" \notin Accounted
    BY DEF Accounted, ProcKind
  <2>10. /\ m <= pdb.listed /\ d.stream
         /\ ~(d.stop \in {"torn", "cut", "ragged"} /\ k > d.reach)
    <3> DEFINE unread == d.stop \in {"torn", "cut", "ragged"} /\ k > d.reach
    <3>1. ASSUME m > pdb.listed \/ ~d.stream \/ unread
          PROVE  Target(r) = "unresolvable"
      BY <2>8, <3>1 DEF Target
    <3>2. ~(m > pdb.listed) /\ d.stream /\ ~unread
      <4>1. d.stream \in BOOLEAN
        BY <2>6, ModulesAssumption
      <4> QED
        BY <2>5, <2>9, <3>1, <4>1
    <3> QED
      BY <2>0, <2>6, <3>2
  <2>11. m \in Looked /\ m \in 1..pdb.listed
    BY <2>0, <2>3, <2>6, <2>10 DEF Looked
  <2>12. HasSymbols(d) /\ d.signature
    BY <1>1, <2>2, <2>7, <2>10, <2>11 DEF DiagnoseInv, TroubleIsCounted, HasSymbols
  <2>13. HasBody(d)
    <3>1. ~IsEmpty(d)
      BY <2>1, <2>7, <2>10 DEF IsEmpty
    <3> QED
      BY <2>10, <2>12, <3>1 DEF HasBody
  <2>14. d.stop # "abandoned" /\ Malformed(d) = {}
    BY <1>1, <2>2, <2>11, <2>13 DEF DiagnoseInv, TroubleIsCounted
  <2>15. k <= d.reach
    BY <2>1, <2>7, <2>10, <2>14 DEF Stops
  <2>16. d.recs[k].ok
    BY <2>1, <2>13, <2>14, <2>15 DEF Malformed, Reached, Dispatched
  <2> QED
    BY <2>1, <2>11, <2>13, <2>15, <2>16 DEF Procs, OfKind, Reached
<1> QED
  BY <1>1, DiagnosisIsSafe, PTL

(***************************************************************************)
(* A file in which nothing is damaged or stripped gets no warning.         *)
(***************************************************************************)
THEOREM SoundFilesAreQuiet == DiagnoseSpec => []HealthyIsQuiet
<1>1. ASSUME DiagnoseInv
      PROVE  HealthyIsQuiet
  <2> SUFFICES ASSUME done, Sound, Written # {}
               PROVE  Warnings = {}
    BY DEF HealthyIsQuiet
  <2>0. /\ pdb.modules \in [1..NumModules -> Modules] /\ NumModules \in Nat
        /\ pdb.listed \in 0..NumModules /\ next_module \in 1..pdb.listed + 1
        /\ proc_records \in Nat /\ with_symbols \in Nat
    BY <1>1, ModulesAssumption DEF DiagnoseInv, PdbFits, CountsAreNumbers
  <2>1. /\ pdb.listed = Len(pdb.modules) /\ ~pdb.stopped /\ ~pdb.stripped
        /\ pdb.symrec.valid /\ ~pdb.symrec.abandoned
    BY DEF Sound
  <2>2. Len(pdb.modules) = NumModules /\ DOMAIN pdb.modules = 1..NumModules
    BY <2>0
  <2>3. ASSUME NEW m \in DOMAIN pdb.modules
        PROVE  LET d == pdb.modules[m]
               IN  /\ d \in Modules /\ d.stream /\ d.signature /\ d.stop = "end"
                   /\ \A k \in DOMAIN d.recs : d.recs[k].ok
    BY <2>0, <2>3 DEF Sound
  <2>4. proc_records # 0
    <3>a. PICK m \in DOMAIN pdb.modules : \E k \in DOMAIN pdb.modules[m].recs :
            pdb.modules[m].recs[k].kind = ProcKind
      BY DEF Written
    <3>1. PICK k \in DOMAIN pdb.modules[m].recs : pdb.modules[m].recs[k].kind = ProcKind
      BY <3>a
    <3> DEFINE d == pdb.modules[m]
    <3>2. d \in Modules /\ d.stream /\ d.signature /\ d.stop = "end" /\ d.recs[k].ok
      BY <2>3, <3>1
    <3>3. /\ DOMAIN d.recs = 1..Len(d.recs) /\ Len(d.recs) \in Nat /\ d.reach = Len(d.recs)
      BY <3>2, ModuleFits
    <3>4. HasBody(d)
      BY <3>1, <3>2, <3>3 DEF HasBody, HasSymbols, IsEmpty
    <3>5. k \in Decoded(d)
      BY <3>1, <3>2, <3>3, <3>4 DEF Decoded, OfKind, Reached
    <3>6. m \in Looked
      BY <1>1, <2>0, <2>1, <2>2, <3>1 DEF DiagnoseInv, SurveyIsDone, Looked
    <3> QED
      BY <1>1, <3>4, <3>5, <3>6 DEF DiagnoseInv, ProcsAreCounted
  <2>5. ProcWarnings = {}
    BY <2>1, <2>4 DEF ProcWarnings, Says
  <2>6. StreamWarnings = {}
    <3>1. signatures = 0 /\ malformed_records = 0 /\ truncations = <<>>
      BY <1>1 DEF DiagnoseInv, NothingIsInvented
    <3>2. ToSet(truncations) = {}
      BY <3>1 DEF ToSet
    <3>3. public_records # 0
      BY <1>1, <2>1 DEF DiagnoseInv, SurveyIsDone
    <3> QED
      BY <3>1, <3>2, <3>3 DEF StreamWarnings, Says
  <2>7. Unmatched = {}
    <3>1. refs = [x \in pdb.symrec.refs |-> Target(x)]
      BY <1>1, <2>1 DEF DiagnoseInv, SurveyIsDone
    <3> SUFFICES ASSUME NEW r \in pdb.symrec.refs
                 PROVE  Target(r) \in Accounted
      BY <3>1 DEF Unmatched
    <3>2. r \in Index(pdb.modules)
      BY <1>1, <2>1, SymrecFits DEF DiagnoseInv
    <3>a. PICK m \in DOMAIN pdb.modules : \E k \in DOMAIN pdb.modules[m].recs :
            r = [module |-> m, rec |-> k] /\ pdb.modules[m].recs[k].kind # "other"
      BY <3>2 DEF Index
    <3>3. PICK k \in DOMAIN pdb.modules[m].recs :
            r = [module |-> m, rec |-> k] /\ pdb.modules[m].recs[k].kind # "other"
      BY <3>a
    <3>4. pdb.modules[m].recs[k].kind \in Kinds
      <4>1. pdb.modules[m] \in Modules
        BY <2>3, <3>3
      <4> QED
        BY <3>3, <4>1, ModuleFits
    <3>5. pdb.modules[m].recs[k].kind \in Accounted
      BY <3>3, <3>4 DEF Kinds, Accounted, ProcKind
    <3>6. ~(m > pdb.listed)
      BY <2>0, <2>1, <2>2, <3>3
    <3>7. pdb.modules[m].stream /\ pdb.modules[m].stop = "end"
      BY <2>3, <3>3
    <3>8. r.module = m /\ r.rec = k
      BY <3>3
    <3> QED
      BY <3>5, <3>6, <3>7, <3>8 DEF Target
  <2>8. IndexWarnings = {}
    BY <2>1, <2>7 DEF IndexWarnings, Says
  <2> QED
    BY <2>5, <2>6, <2>8 DEF Warnings
<1> QED
  BY <1>1, DiagnosisIsSafe, PTL

-----------------------------------------------------------------------------
(* The comparison with llvm-pdbutil *)

\* What can come of a file.
Outcomes == {"none", "agreed", "failed", "unreadable"}
\* Where the sweep can be.
Steps == {"start", "files", "open", "preliminary", "checks", "over",
          "escaped declined", "escaped PdbError"}

\* The types of the variables the verdict depends on.
SweepTypeOK ==
    /\ limit \in -1..1 /\ allow \in BOOLEAN /\ tool \in BOOLEAN
    /\ left \subseteq Files /\ file \in Files
    /\ at \in Nat \ {0} /\ agree \in BOOLEAN
    /\ verified \subseteq Names
    /\ outcome \in [Files -> Outcomes]
    /\ results \in [Files -> [Names -> Results]]
    /\ pc \in Steps

\* A file is being compared, with a tool and a bound on what is printed.
Comparing == pc \in {"open", "preliminary", "checks"}
\* No file is opened without the tool, nor with a negative --max-diffs.
HasTool == pc = "files" \/ Comparing => tool /\ limit >= 0

\* No check has a result on the file.
Untouched(f) == \A c \in Names : results[f][c] = "not reached"

\* No file is met twice: what is left has no outcome and no result yet, nor has
\* the one being compared beyond the check it is at.
LeftAreFresh ==
    /\ \A f \in left : outcome[f] = "none" /\ Untouched(f)
    /\ pc = "start" => \A f \in Files : outcome[f] = "none" /\ Untouched(f)
    /\ Comparing => file \notin left /\ outcome[file] = "none"
    /\ pc \in {"open", "preliminary"} => Untouched(file)
    /\ pc = "checks" => \A i \in DOMAIN Checks : i >= at => results[file][Checks[i]] = "not reached"

\* ok is false once a check differed and only then.
AgreeIsTrue ==
    /\ pc \in {"open", "preliminary"} => agree
    /\ pc = "checks" => (agree <=> \A c \in Names : results[file][c] # "differ")

\* A file that is not being compared has the outcome its checks gave it.
OutcomesFit ==
    \A f \in Files :
        /\ outcome[f] = "agreed" => \A c \in Names : results[f][c] # "differ"
        /\ outcome[f] = "unreadable" => Untouched(f)
        /\ outcome[f] = "none" /\ (f = file => pc \in {"start", "files", "over"})
             => Untouched(f)

\* Nothing is verified that no file has a compared record for.
VerifiedCompared ==
    \A c \in verified : \E f \in Files : results[f][c] \in {"equal", "differ"}

\* "ok" is printed by main() alone, on its verdict.
OkIsTheVerdict == PrintedOk => Verdict = 0

\* The inductive invariant of the sweep.
SweepInv ==
    /\ SweepTypeOK /\ HasTool /\ LeftAreFresh /\ AgreeIsTrue /\ OutcomesFit
    /\ VerifiedCompared /\ AgreementIsNoFailure /\ OkIsTheVerdict

\* Whatever is printed of it, a difference is a difference.
LEMMA DifferencesAreDifferences ==
  ASSUME limit \in 0..1, NEW a \in Nat, NEW b \in Nat
  PROVE  Differences(a, b) = 0 <=> a + b = 0
<1>1. \A n \in Nat : Lines(n) \in Nat /\ (Lines(n) = 0 <=> n = 0)
  BY DEF Lines
<1> HIDE DEF Lines
<1>2. Lines(a) \in Nat /\ Lines(b) \in Nat /\ (Lines(a) = 0 <=> a = 0) /\ (Lines(b) = 0 <=> b = 0)
  BY <1>1
<1> QED
  BY <1>2 DEF Differences

\* The table of checks has places 1 to its length, and at least one.
LEMMA CheckPlaces == DOMAIN Checks = 1..Len(Checks) /\ Len(Checks) \in Nat /\ Len(Checks) >= 1
<1>1. Checks \in Seq(Names) /\ Checks # <<>>
  BY TableAssumption DEF Names
<1> QED
  BY <1>1

\* Every check has one place in the table.
LEMMA CheckNames ==
  /\ DOMAIN Checks = 1..Len(Checks) /\ Len(Checks) \in Nat /\ Len(Checks) >= 1
  /\ \A i \in DOMAIN Checks : Checks[i] \in Names
  /\ \A c \in Names : \E i \in DOMAIN Checks : Checks[i] = c
  /\ \A i, j \in DOMAIN Checks : Checks[i] = Checks[j] => i = j
  /\ 1 \in DOMAIN Checks /\ Checks[1] \in Names
<1>1. Checks \in Seq(Names) /\ Checks # <<>> /\ IsInjective(Checks)
  BY TableAssumption DEF Names
<1>2. Names = {Checks[i] : i \in DOMAIN Checks}
  BY DEF Names, ToSet
<1>3. DOMAIN Checks = 1..Len(Checks) /\ Len(Checks) \in Nat /\ Len(Checks) >= 1
  BY <1>1
<1> QED
  BY <1>1, <1>2, <1>3 DEF IsInjective

\* While no result is recorded, an untouched file stays one.
LEMMA ResultsStay ==
  ASSUME results' = results
  PROVE  \A f : Untouched(f)' <=> Untouched(f)
BY DEF Untouched

\* Giving the file at hand its outcome leaves the others theirs.
LEMMA OneOutcome ==
  ASSUME SweepTypeOK, NEW o \in Outcomes, FileIs(o)
  PROVE  /\ outcome' \in [Files -> Outcomes]
         /\ outcome'[file] = o
         /\ \A f \in Files : f # file => outcome'[f] = outcome[f]
BY DEF SweepTypeOK, FileIs

(***************************************************************************)
(* validate() and main(): a file is met once, its checks go in order, its  *)
(* outcome is what they found, a verified check compared a record, and no  *)
(* file is failed over checks that all agreed -- in every state of every   *)
(* sweep, the ones a traceback ends included.                              *)
(***************************************************************************)
THEOREM NoSweepIsFooled == Spec => []SweepInv
<1>1. Init => SweepInv
  <2> SUFFICES ASSUME Init PROVE SweepInv
    OBVIOUS
  <2>1. SweepTypeOK
    <3>1. /\ outcome \in [Files -> Outcomes]
          /\ results \in [Files -> [Names -> Results]]
      BY DEF Init, Outcomes, Results
    <3>2. /\ limit \in -1..1 /\ allow \in BOOLEAN /\ tool \in BOOLEAN
          /\ left \subseteq Files /\ file \in Files
          /\ at = 1 /\ agree = TRUE /\ verified = {} /\ pc = "start"
      BY DEF Init
    <3> QED
      BY <3>1, <3>2 DEF SweepTypeOK, Steps
  <2>2. \A f \in Files : outcome[f] = "none" /\ Untouched(f)
    BY DEF Init, Untouched
  <2>3. pc = "start" /\ verified = {} /\ left \subseteq Files
    BY DEF Init
  <2> QED
    BY <2>1, <2>2, <2>3
       DEF SweepInv, HasTool, LeftAreFresh, AgreeIsTrue, OutcomesFit, VerifiedCompared, Comparing,
           AgreementIsNoFailure, OkIsTheVerdict, PrintedOk
<1>2. SweepInv /\ [Next]_vars => SweepInv'
  <2> SUFFICES ASSUME SweepInv, [Next]_vars PROVE SweepInv'
    OBVIOUS
  <2>1. CASE Start
    <3>1. /\ UNCHANGED <<limit, allow, require, tool, left, file, cache, agree, at, verified, outcome, results>>
          /\ pc = "start"
      BY <2>1 DEF Start, options, perFile
    <3>2. \/ pc' = "over" /\ status' \in {1, 2}
          \/ pc' = "over" /\ ~tool
          \/ pc' = "files" /\ tool /\ limit >= 0
      <4>1. limit \in Int /\ tool \in BOOLEAN
        BY DEF SweepInv, SweepTypeOK
      <4> QED
        BY <2>1, <4>1 DEF Start, EndWith, GoTo
    <3>3. SweepTypeOK'
      BY <3>1, <3>2 DEF SweepInv, SweepTypeOK, Steps
    <3>4. HasTool'
      BY <3>1, <3>2 DEF HasTool, Comparing
    <3>5. LeftAreFresh'
      BY <3>1, <3>2 DEF SweepInv, LeftAreFresh, Comparing, Untouched
    <3>6. AgreeIsTrue' /\ OutcomesFit'
      <4>1. \A f \in Files : outcome[f] = "none" /\ Untouched(f)
        BY <3>1 DEF SweepInv, LeftAreFresh
      <4> QED
        BY <3>1, <3>2, <4>1 DEF AgreeIsTrue, OutcomesFit, Untouched
    <3>7. VerifiedCompared' /\ AgreementIsNoFailure'
      BY <3>1 DEF SweepInv, VerifiedCompared, AgreementIsNoFailure
    <3>8. OkIsTheVerdict'
      BY <3>1, <3>2 DEF OkIsTheVerdict, PrintedOk
    <3> QED
      BY <3>3, <3>4, <3>5, <3>6, <3>7, <3>8 DEF SweepInv
  <2>2. CASE NextFile
    <3>1. /\ UNCHANGED <<limit, allow, require, tool, verified, outcome, results, status>>
          /\ pc = "files" /\ pc' = "open" /\ agree' = TRUE /\ at' = 1
          /\ file' \in left /\ left' = left \ {file'}
      BY <2>2 DEF NextFile, options, GoTo
    <3>2. SweepTypeOK'
      BY <3>1 DEF SweepInv, SweepTypeOK, Steps
    <3>3. HasTool' /\ AgreeIsTrue' /\ OkIsTheVerdict'
      BY <3>1 DEF SweepInv, HasTool, AgreeIsTrue, Comparing, OkIsTheVerdict, PrintedOk
    <3>4. LeftAreFresh'
      BY <3>1 DEF SweepInv, LeftAreFresh, Comparing, Untouched
    <3>5. OutcomesFit'
      BY <3>1 DEF SweepInv, OutcomesFit, Comparing, Untouched
    <3>6. VerifiedCompared' /\ AgreementIsNoFailure'
      BY <3>1 DEF SweepInv, VerifiedCompared, AgreementIsNoFailure
    <3> QED
      BY <3>2, <3>3, <3>4, <3>5, <3>6 DEF SweepInv
  <2>3. CASE Open
    <3>1. /\ UNCHANGED <<limit, allow, require, tool, left, file, cache, agree, at, verified, results, status>>
          /\ pc = "open"
          /\ \/ FileIs("unreadable") /\ pc' = "files"
             \/ outcome' = outcome /\ pc' = "preliminary"
      BY <2>3 DEF Open, options, perFile, GoTo
    <3>2. HasTool' /\ AgreeIsTrue' /\ OkIsTheVerdict'
      BY <3>1 DEF SweepInv, HasTool, AgreeIsTrue, Comparing, OkIsTheVerdict, PrintedOk
    <3>3. VerifiedCompared' /\ \A f : Untouched(f)' <=> Untouched(f)
      BY <3>1, ResultsStay DEF SweepInv, VerifiedCompared
    <3>4. file \notin left /\ Untouched(file) /\ file \in Files
      BY <3>1 DEF SweepInv, SweepTypeOK, LeftAreFresh, Comparing
    <3>5. CASE FileIs("unreadable") /\ pc' = "files"
      <4>1. /\ outcome' \in [Files -> Outcomes] /\ outcome'[file] = "unreadable"
            /\ \A f \in Files : f # file => outcome'[f] = outcome[f]
        BY <3>5, OneOutcome DEF SweepInv, Outcomes
      <4>2. SweepTypeOK'
        BY <3>1, <3>5, <4>1 DEF SweepInv, SweepTypeOK, Steps
      <4>3. LeftAreFresh'
        BY <3>1, <3>3, <3>4, <3>5, <4>1 DEF SweepInv, SweepTypeOK, LeftAreFresh, Comparing
      <4>4. OutcomesFit'
        BY <3>1, <3>3, <3>4, <3>5, <4>1 DEF SweepInv, OutcomesFit
      <4>5. AgreementIsNoFailure'
        BY <3>1, <4>1 DEF SweepInv, AgreementIsNoFailure
      <4> QED
        BY <3>2, <3>3, <4>2, <4>3, <4>4, <4>5 DEF SweepInv
    <3>6. CASE outcome' = outcome /\ pc' = "preliminary"
      <4>1. SweepTypeOK' /\ AgreementIsNoFailure'
        BY <3>1, <3>6 DEF SweepInv, SweepTypeOK, Steps, AgreementIsNoFailure
      <4>2. LeftAreFresh'
        BY <3>1, <3>3, <3>6 DEF SweepInv, LeftAreFresh, Comparing
      <4>3. OutcomesFit'
        BY <3>1, <3>3, <3>6 DEF SweepInv, OutcomesFit
      <4> QED
        BY <3>2, <3>3, <4>1, <4>2, <4>3 DEF SweepInv
    <3> QED
      BY <3>1, <3>5, <3>6
  <2>4. CASE AskPreliminary
    <3>1. /\ UNCHANGED <<limit, allow, require, tool, left, file, agree, verified, results>>
          /\ pc = "preliminary"
          /\ \/ pc' = "escaped declined" /\ UNCHANGED <<at, outcome>>
             \/ FileIs("failed") /\ pc' = "files" /\ at' = at
             \/ outcome' = outcome /\ pc' = "preliminary" /\ at' = at + 1
             \/ outcome' = outcome /\ pc' = "checks" /\ at' = 1
      BY <2>4 DEF AskPreliminary, options, GoTo, Escape, Answers
    <3>2. HasTool' /\ OkIsTheVerdict'
      BY <3>1 DEF SweepInv, HasTool, Comparing, OkIsTheVerdict, PrintedOk
    <3>3. VerifiedCompared' /\ \A f : Untouched(f)' <=> Untouched(f)
      BY <3>1, ResultsStay DEF SweepInv, VerifiedCompared
    <3>4. file \notin left /\ Untouched(file) /\ file \in Files /\ agree
      BY <3>1 DEF SweepInv, SweepTypeOK, LeftAreFresh, AgreeIsTrue, Comparing
    <3>5. AgreeIsTrue'
      BY <3>1, <3>4 DEF AgreeIsTrue, Untouched
    <3>6. CASE FileIs("failed") /\ pc' = "files" /\ at' = at
      <4>1. /\ outcome' \in [Files -> Outcomes] /\ outcome'[file] = "failed"
            /\ \A f \in Files : f # file => outcome'[f] = outcome[f]
        BY <3>6, OneOutcome DEF SweepInv, Outcomes
      <4>2. SweepTypeOK'
        BY <3>1, <3>6, <4>1 DEF SweepInv, SweepTypeOK, Steps
      <4>3. LeftAreFresh'
        BY <3>1, <3>3, <3>4, <3>6, <4>1 DEF SweepInv, SweepTypeOK, LeftAreFresh, Comparing
      <4>4. OutcomesFit'
        BY <3>1, <3>3, <3>4, <3>6, <4>1 DEF SweepInv, OutcomesFit
      <4>5. results[file][Checks[1]] = "not reached" /\ Checks[1] \in Names
        BY <3>4, CheckNames DEF Untouched
      <4>6. AgreementIsNoFailure'
        BY <3>1, <4>1, <4>5 DEF SweepInv, AgreementIsNoFailure
      <4> QED
        BY <3>2, <3>3, <3>5, <4>2, <4>3, <4>4, <4>6 DEF SweepInv
    <3>7. CASE outcome' = outcome
      <4>1. SweepTypeOK' /\ AgreementIsNoFailure'
        <5>1. at' \in Nat \ {0}
          <6>1. at \in Nat \ {0}
            BY DEF SweepInv, SweepTypeOK
          <6>2. at' \in {at, at + 1, 1}
            BY <3>1, Zenon
          <6> QED
            BY <6>1, <6>2
        <5>2. pc' \in Steps
          BY <3>1 DEF Steps
        <5> QED
          BY <3>1, <3>7, <5>1, <5>2 DEF SweepInv, SweepTypeOK, AgreementIsNoFailure
      <4>2. \A i \in DOMAIN Checks : results[file][Checks[i]] = "not reached"
        BY <3>4, CheckNames DEF Untouched
      <4>3. LeftAreFresh'
        BY <3>1, <3>3, <3>4, <3>7, <4>2 DEF SweepInv, LeftAreFresh, Comparing
      <4>4. OutcomesFit'
        BY <3>1, <3>3, <3>4, <3>7 DEF SweepInv, OutcomesFit
      <4> QED
        BY <3>2, <3>3, <3>5, <4>1, <4>3, <4>4 DEF SweepInv
    <3> QED
      BY <3>1, <3>6, <3>7
  <2>5. CASE Check
    <3> DEFINE c == Checks[at]
    <3>1. /\ UNCHANGED <<limit, allow, require, tool, left, file>>
          /\ pc = "checks" /\ at \in DOMAIN Checks
          /\ at \in Nat \ {0} /\ c \in Names /\ results[file][c] = "not reached"
          /\ tool /\ limit \in 0..1
      <4>1. UNCHANGED <<limit, allow, require, tool, left, file>> /\ pc = "checks" /\ at <= Len(Checks)
        BY <2>5 DEF Check, options
      <4>2. at \in Nat \ {0} /\ limit \in -1..1
        BY DEF SweepInv, SweepTypeOK
      <4>3. at \in DOMAIN Checks
        BY <4>1, <4>2, CheckPlaces
      <4>4. c \in Names
        BY <4>3, CheckNames
      <4>5. results[file][c] = "not reached"
        <5>1. \A i \in DOMAIN Checks : i >= at => results[file][Checks[i]] = "not reached"
          BY <4>1 DEF SweepInv, LeftAreFresh
        <5>2. at >= at
          BY <4>2
        <5> QED
          BY <4>3, <5>1, <5>2
      <4>6. tool /\ limit >= 0
        BY <4>1 DEF SweepInv, HasTool, Comparing
      <4> HIDE DEF c
      <4>7. limit \in 0..1
        BY <4>2, <4>6
      <4> QED
        BY <4>1, <4>2, <4>3, <4>4, <4>5, <4>6, <4>7
    <3>2. \/ Skip
          \/ \E same, onlyOurs, onlyTheirs \in 0..MaxRecords : Compare(same, onlyOurs, onlyTheirs)
          \/ FileIs("failed") /\ GoTo("files") /\ UNCHANGED <<at, agree, verified, results>>
          \/ Escape("escaped PdbError") /\ UNCHANGED <<at, agree, verified, outcome, results>>
      BY <2>5 DEF Check, Answers
    <3>3. CASE FileIs("failed") /\ GoTo("files") /\ UNCHANGED <<at, agree, verified, results>>
      <4> HIDE DEF c
      <4>1. /\ outcome' \in [Files -> Outcomes] /\ outcome'[file] = "failed" /\ pc' = "files"
            /\ \A f \in Files : f # file => outcome'[f] = outcome[f]
        BY <3>3, OneOutcome DEF SweepInv, Outcomes, GoTo
      <4>2. SweepTypeOK'
        BY <3>1, <3>3, <4>1 DEF SweepInv, SweepTypeOK, Steps
      <4>3. HasTool' /\ OkIsTheVerdict' /\ AgreeIsTrue'
        BY <3>1, <4>1 DEF SweepInv, HasTool, Comparing, OkIsTheVerdict, PrintedOk, AgreeIsTrue
      <4>4. file \notin left /\ file \in Files /\ \A f : Untouched(f)' <=> Untouched(f)
        BY <3>1, <3>3, ResultsStay DEF SweepInv, SweepTypeOK, LeftAreFresh, Comparing
      <4>5. LeftAreFresh'
        BY <3>1, <4>1, <4>4 DEF SweepInv, SweepTypeOK, LeftAreFresh, Comparing
      <4>6. OutcomesFit'
        BY <3>1, <3>3, <4>1, <4>4 DEF SweepInv, OutcomesFit
      <4>7. AgreementIsNoFailure'
        BY <3>1, <3>3, <4>1 DEF SweepInv, AgreementIsNoFailure
      <4>8. VerifiedCompared'
        BY <3>3 DEF SweepInv, VerifiedCompared
      <4> QED
        BY <4>2, <4>3, <4>5, <4>6, <4>7, <4>8 DEF SweepInv
    <3>4. CASE Escape("escaped PdbError") /\ UNCHANGED <<at, agree, verified, outcome, results>>
      <4>1. pc' = "escaped PdbError"
        BY <3>4 DEF Escape
      <4> HIDE DEF c
      <4>2. \A f : Untouched(f)' <=> Untouched(f)
        BY <3>4, ResultsStay
      <4>3. SweepTypeOK' /\ AgreementIsNoFailure' /\ VerifiedCompared'
        BY <3>1, <3>4, <4>1
           DEF SweepInv, SweepTypeOK, Steps, AgreementIsNoFailure, VerifiedCompared
      <4>4. HasTool' /\ OkIsTheVerdict' /\ AgreeIsTrue'
        BY <3>1, <4>1 DEF HasTool, Comparing, OkIsTheVerdict, PrintedOk, AgreeIsTrue
      <4>5. LeftAreFresh' /\ OutcomesFit'
        BY <3>1, <3>4, <4>1, <4>2 DEF SweepInv, LeftAreFresh, OutcomesFit, Comparing
      <4> QED
        BY <4>3, <4>4, <4>5 DEF SweepInv
    <3>5. ASSUME NEW result \in Results, result # "not reached",
                 results' = [results EXCEPT ![file][c] = result],
                 pc' = "checks", at' = at + 1, outcome' = outcome,
                 agree' \in BOOLEAN, agree' <=> agree /\ result # "differ",
                 \/ verified' = verified
                 \/ verified' = verified \cup {c} /\ result \in {"equal", "differ"}
          PROVE  SweepInv'
      <4> HIDE DEF c
      <4>0. file \in Files /\ results \in [Files -> [Names -> Results]]
        BY DEF SweepInv, SweepTypeOK
      <4>1. /\ \A f \in Files : \A n \in Names : f # file \/ n # c => results'[f][n] = results[f][n]
            /\ results'[file][c] = result
        BY <3>1, <3>5, <4>0
      <4>2. SweepTypeOK'
        <5>1. results' \in [Files -> [Names -> Results]]
          BY <3>1, <3>5, <4>0
        <5> QED
          <6>1. verified' \subseteq Names /\ agree' \in BOOLEAN /\ at' \in Nat \ {0}
            <7>1. verified \subseteq Names /\ agree \in BOOLEAN /\ at \in Nat \ {0} /\ c \in Names
              BY <3>1 DEF SweepInv, SweepTypeOK
            <7>2. verified' \subseteq Names
              BY <3>5, <7>1
            <7>3. agree' \in BOOLEAN
              BY <3>5, <7>1
            <7>4. at' \in Nat \ {0}
              <8>1. at \in Nat \ {0} /\ at' = at + 1
                BY <3>5, <7>1, Zenon
              <8> QED
                BY <8>1
            <7> QED
              BY <7>2, <7>3, <7>4
          <6>2. pc' \in Steps /\ outcome' = outcome
            BY <3>5 DEF Steps
          <6> QED
            BY <3>1, <5>1, <6>1, <6>2 DEF SweepInv, SweepTypeOK
      <4>3. HasTool' /\ OkIsTheVerdict'
        BY <3>1, <3>5 DEF SweepInv, HasTool, Comparing, OkIsTheVerdict, PrintedOk
      <4>4. LeftAreFresh'
        <5>1. ASSUME NEW f \in left
              PROVE  Untouched(f)'
          <6>1. f # file /\ f \in Files /\ Untouched(f)
            BY <3>1 DEF SweepInv, SweepTypeOK, LeftAreFresh, Comparing
          <6> QED
            BY <4>1, <6>1 DEF Untouched
        <5>2. ASSUME NEW i \in DOMAIN Checks, i >= at + 1
              PROVE  results'[file][Checks[i]] = "not reached"
          <6>a. i \in Nat /\ at \in Nat /\ i >= at + 1
            <7>1. at \in Nat
              BY DEF SweepInv, SweepTypeOK
            <7>2. i \in DOMAIN Checks /\ i >= at + 1
              BY <5>2, Zenon
            <7> QED
              BY <7>1, <7>2, CheckPlaces
          <6>1. Checks[i] # c /\ Checks[i] \in Names
            <7>1. i # at
              BY <6>a
            <7> QED
              BY <3>1, <5>2, <7>1, CheckNames DEF c
          <6> QED
            <7>1. i >= at
              BY <6>a
            <7>2. results[file][Checks[i]] = "not reached"
              BY <3>1, <5>2, <7>1 DEF SweepInv, LeftAreFresh
            <7> QED
              BY <4>0, <4>1, <6>1, <7>2
        <5> QED
          BY <3>1, <3>5, <5>1, <5>2 DEF SweepInv, LeftAreFresh, Comparing
      <4>5. AgreeIsTrue'
        <5>1. agree <=> \A n \in Names : results[file][n] # "differ"
          BY <3>1 DEF SweepInv, AgreeIsTrue
        <5>2. (\A n \in Names : results'[file][n] # "differ")
                <=> result # "differ" /\ \A n \in Names : results[file][n] # "differ"
          BY <3>1, <4>0, <4>1
        <5>3. agree' <=> agree /\ result # "differ"
          BY <3>5
        <5> QED
          BY <3>1, <3>5, <5>1, <5>2, <5>3 DEF AgreeIsTrue
      <4>6. OutcomesFit' /\ AgreementIsNoFailure'
        <5>1. outcome[file] = "none"
          BY <3>1 DEF SweepInv, LeftAreFresh, Comparing
        <5>2. \A f \in Files : f # file => results'[f] = results[f]
          BY <3>5, <4>0
        <5> QED
          <6>1. \A f \in Files : f # file => (Untouched(f)' <=> Untouched(f))
            BY <5>2 DEF Untouched
          <6>2. OutcomesFit'
            BY <3>1, <3>5, <5>1, <5>2, <6>1 DEF SweepInv, OutcomesFit
          <6>3. AgreementIsNoFailure'
            BY <3>1, <3>5, <5>1, <5>2 DEF SweepInv, AgreementIsNoFailure
          <6> QED
            BY <6>2, <6>3
      <4>7. VerifiedCompared'
        <5> SUFFICES ASSUME NEW n \in verified'
                     PROVE  \E f \in Files : results'[f][n] \in {"equal", "differ"}
          BY DEF VerifiedCompared
        <5>1. CASE n = c /\ result \in {"equal", "differ"}
          BY <4>0, <4>1, <5>1
        <5>2. CASE n \in verified
          <6>1. PICK f \in Files : results[f][n] \in {"equal", "differ"}
            BY <5>2 DEF SweepInv, VerifiedCompared
          <6>2. n \in Names /\ (f # file \/ n # c)
            BY <3>1, <5>2, <6>1 DEF SweepInv, SweepTypeOK
          <6> QED
            BY <4>1, <6>1, <6>2
        <5> QED
          BY <3>5, <5>1, <5>2
      <4> QED
        BY <4>2, <4>3, <4>4, <4>5, <4>6, <4>7 DEF SweepInv
    <3>6. CASE Skip
      <4>1. /\ results' = [results EXCEPT ![file][c] = "skipped"]
            /\ pc' = "checks" /\ at' = at + 1 /\ UNCHANGED <<agree, verified, outcome>>
        BY <3>6 DEF Skip, Record, GoTo
      <4>2. agree \in BOOLEAN
        BY DEF SweepInv, SweepTypeOK
      <4>3. agree' \in BOOLEAN /\ (agree' <=> agree /\ "skipped" # "differ")
        BY <4>1, <4>2
      <4>4. "skipped" \in Results /\ "skipped" # "not reached"
        BY DEF Results
      <4> HIDE DEF c
      <4> QED
        BY <3>5, <4>1, <4>3, <4>4
    <3>7. ASSUME NEW same \in 0..MaxRecords, NEW onlyOurs \in 0..MaxRecords,
                 NEW onlyTheirs \in 0..MaxRecords, Compare(same, onlyOurs, onlyTheirs)
          PROVE  SweepInv'
      <4> DEFINE compared == IF same + onlyOurs > same + onlyTheirs
                             THEN same + onlyOurs ELSE same + onlyTheirs
                 result == IF compared = 0 THEN "nothing"
                           ELSE IF onlyOurs + onlyTheirs > 0 THEN "differ" ELSE "equal"
                 differs == onlyOurs + onlyTheirs > 0
      <4>1. /\ results' = [results EXCEPT ![file][c] = result]
            /\ pc' = "checks" /\ at' = at + 1 /\ outcome' = outcome
            /\ verified' = IF compared > 0 THEN verified \cup {c} ELSE verified
            /\ agree' = (agree /\ Differences(onlyOurs, onlyTheirs) = 0)
        BY <3>7 DEF Compare, Verify, Record, Agree, GoTo
      <4>2. same \in Nat /\ onlyOurs \in Nat /\ onlyTheirs \in Nat
        BY TableAssumption
      <4>3. Differences(onlyOurs, onlyTheirs) = 0 <=> ~differs
        <5>1. Differences(onlyOurs, onlyTheirs) = 0 <=> onlyOurs + onlyTheirs = 0
          BY <3>1, <4>2, DifferencesAreDifferences
        <5> QED
          BY <4>2, <5>1
      <4>4. /\ result \in Results /\ result # "not reached"
            /\ (result = "differ") <=> differs
            /\ compared > 0 => result \in {"equal", "differ"}
        BY <4>2 DEF Results
      <4>5. verified' = verified \/ (verified' = verified \cup {c} /\ result \in {"equal", "differ"})
        BY <4>1, <4>4
      <4>6. agree' <=> agree /\ result # "differ"
        BY <4>1, <4>3, <4>4
      <4>7. agree' \in BOOLEAN
        BY <4>1
      <4> HIDE DEF c, compared, result, differs
      <4> QED
        BY <3>5, <4>1, <4>4, <4>5, <4>6, <4>7
    <3> QED
      BY <3>2, <3>3, <3>4, <3>6, <3>7
  <2>6. CASE EndFile
    <3> DEFINE o == IF agree THEN "agreed" ELSE "failed"
    <3>1. /\ UNCHANGED <<limit, allow, require, tool, left, file, agree, at, verified, results, status>>
          /\ pc = "checks" /\ pc' = "files" /\ FileIs(o)
      BY <2>6 DEF EndFile, options, perFile, GoTo
    <3>2. agree <=> \A c \in Names : results[file][c] # "differ"
      BY <3>1 DEF SweepInv, AgreeIsTrue
    <3>3. /\ o \in {"agreed", "failed"}
          /\ o = "agreed" <=> \A c \in Names : results[file][c] # "differ"
      BY <3>2
    <3> HIDE DEF o
    <3>4. /\ outcome' \in [Files -> Outcomes] /\ outcome'[file] = o
          /\ \A f \in Files : f # file => outcome'[f] = outcome[f]
      BY <3>1, <3>3, OneOutcome DEF SweepInv, Outcomes
    <3>5. file \notin left /\ file \in Files /\ \A f : Untouched(f)' <=> Untouched(f)
      BY <3>1, ResultsStay DEF SweepInv, SweepTypeOK, LeftAreFresh, Comparing
    <3>6. SweepTypeOK'
      BY <3>1, <3>4 DEF SweepInv, SweepTypeOK, Steps
    <3>7. HasTool' /\ AgreeIsTrue' /\ OkIsTheVerdict'
      BY <3>1 DEF SweepInv, HasTool, AgreeIsTrue, Comparing, OkIsTheVerdict, PrintedOk
    <3>8. LeftAreFresh'
      BY <3>1, <3>4, <3>5 DEF SweepInv, SweepTypeOK, LeftAreFresh, Comparing
    <3>9. OutcomesFit'
      BY <3>1, <3>3, <3>4, <3>5 DEF SweepInv, OutcomesFit
    <3>10. VerifiedCompared'
      BY <3>1 DEF SweepInv, VerifiedCompared
    <3>11. AgreementIsNoFailure'
      BY <3>1, <3>3, <3>4 DEF SweepInv, AgreementIsNoFailure
    <3> QED
      BY <3>6, <3>7, <3>8, <3>9, <3>10, <3>11 DEF SweepInv
  <2>7. CASE Finish
    <3>1. /\ UNCHANGED <<limit, allow, require, tool, left, file, cache, agree, at, verified, outcome, results>>
          /\ pc = "files" /\ pc' = "over" /\ status' = Verdict
      BY <2>7 DEF Finish, options, perFile, EndWith
    <3>2. Verdict' = Verdict
      BY <3>1 DEF Verdict, Having, Swept
    <3>3. OkIsTheVerdict'
      BY <3>1, <3>2 DEF OkIsTheVerdict, PrintedOk
    <3>4. \A f : Untouched(f)' <=> Untouched(f)
      BY <3>1, ResultsStay
    <3>5. SweepTypeOK' /\ HasTool' /\ LeftAreFresh' /\ AgreeIsTrue'
      BY <3>1, <3>4 DEF SweepInv, SweepTypeOK, Steps, HasTool, LeftAreFresh, AgreeIsTrue, Comparing
    <3>6. OutcomesFit'
      BY <3>1, <3>4 DEF SweepInv, OutcomesFit
    <3>7. VerifiedCompared' /\ AgreementIsNoFailure'
      BY <3>1 DEF SweepInv, VerifiedCompared, AgreementIsNoFailure
    <3> QED
      BY <3>3, <3>5, <3>6, <3>7 DEF SweepInv
  <2>8. CASE UNCHANGED vars
    <3>1. UNCHANGED <<limit, allow, require, tool, left, file, cache, agree, at, verified, outcome,
                      results, pc, status>>
      BY <2>8 DEF vars, options, perFile
    <3>2. Verdict' = Verdict /\ \A f : Untouched(f)' <=> Untouched(f)
      BY <3>1, ResultsStay DEF Verdict, Having, Swept
    <3>3. SweepTypeOK' /\ HasTool' /\ LeftAreFresh' /\ AgreeIsTrue'
      BY <3>1, <3>2 DEF SweepInv, SweepTypeOK, HasTool, LeftAreFresh, AgreeIsTrue, Comparing
    <3>4. OutcomesFit'
      BY <3>1, <3>2 DEF SweepInv, OutcomesFit
    <3>5. VerifiedCompared' /\ AgreementIsNoFailure'
      BY <3>1 DEF SweepInv, VerifiedCompared, AgreementIsNoFailure
    <3>6. OkIsTheVerdict'
      BY <3>1, <3>2 DEF SweepInv, OkIsTheVerdict, PrintedOk
    <3> QED
      BY <3>3, <3>4, <3>5, <3>6 DEF SweepInv
  <2> QED
    BY <2>1, <2>2, <2>3, <2>4, <2>5, <2>6, <2>7, <2>8 DEF Next
<1> QED
  BY <1>1, <1>2, PTL DEF Spec

(***************************************************************************)
(* "ok" is printed only over a sweep in which every required check         *)
(* compared something and nothing differed, and a file is failed only over *)
(* a difference or a dump nobody could read; for every set of files, every *)
(* table of checks and every number of records.                            *)
(***************************************************************************)
THEOREM TheVerdictIsTrue == Spec => []VerdictIsTrue
<1>1. SweepInv => VerdictIsTrue
  <2> SUFFICES ASSUME SweepInv PROVE VerdictIsTrue
    OBVIOUS
  <2>1. ASSUME PrintedOk
        PROVE  /\ \A f \in Files : outcome[f] # "failed"
               /\ allow \/ \A f \in Files : outcome[f] # "unreadable"
               /\ Names \ Optional \subseteq verified
    BY <2>1 DEF SweepInv, OkIsTheVerdict, Verdict, Having
  <2>2. OkMeansCompared
    BY <2>1 DEF SweepInv, VerifiedCompared, OkMeansCompared
  <2>3. OkMeansAgreed
    <3> SUFFICES ASSUME PrintedOk, NEW f \in Files
                 PROVE  /\ \A c \in Names : results[f][c] # "differ"
                        /\ outcome[f] \in {"none", "agreed"} \/ (allow /\ outcome[f] = "unreadable")
      BY DEF OkMeansAgreed, Swept
    <3>1. outcome[f] \in Outcomes /\ pc = "over"
      BY DEF SweepInv, SweepTypeOK, PrintedOk
    <3>2. outcome[f] \in {"none", "agreed"} \/ (allow /\ outcome[f] = "unreadable")
      BY <2>1, <3>1 DEF Outcomes
    <3> QED
      BY <3>1, <3>2 DEF SweepInv, OutcomesFit, Comparing, Untouched
  <2> QED
    BY <2>2, <2>3 DEF VerdictIsTrue, OkIsEarned, SweepInv
<1> QED
  BY <1>1, NoSweepIsFooled, PTL

-----------------------------------------------------------------------------
(* Translated addresses: where the stubs lead *)

\* What follow_thunk gives with so many hops left, g being what it gives with one less.
OneHop(code, hops, g) ==
  [addr \in Nat |->
     LET past == Past(code, addr) IN
     IF hops = 0 THEN addr
     ELSE IF past \notin Addresses THEN Nowhere
     ELSE IF code[past] \in {"jump", "back"} THEN g[JumpTarget(past, code[past])]
     ELSE IF hops < MaxHops THEN past ELSE Nowhere]

\* F is what the loop gives, from no hop left to all of them.
Follows(F, code) == F = [hops \in 0..MaxHops |-> OneHop(code, hops, F[hops - 1])]

\* The loop of follow_thunk is such an F.
LEMMA FollowsExist == ASSUME NEW code PROVE \E F : Follows(F, code)
<1> DEFINE g0 == OneHop(code, 0, <<>>)
           g1 == OneHop(code, 1, g0)
           g2 == OneHop(code, 2, g1)
           g3 == OneHop(code, 3, g2)
           g4 == OneHop(code, 4, g3)
           F == [h \in 0..4 |-> IF h = 0 THEN g0 ELSE IF h = 1 THEN g1
                                ELSE IF h = 2 THEN g2 ELSE IF h = 3 THEN g3 ELSE g4]
<1>0. \A g : OneHop(code, 0, g) = g0
  BY DEF OneHop
<1>1. g1 = OneHop(code, 1, g0) /\ g2 = OneHop(code, 2, g1) /\ g3 = OneHop(code, 3, g2)
      /\ g4 = OneHop(code, 4, g3)
  OBVIOUS
<1> HIDE DEF g0, g1, g2, g3, g4
<1>2. F[0] = g0 /\ F[1] = g1 /\ F[2] = g2 /\ F[3] = g3 /\ F[4] = g4
  OBVIOUS
<1>3. F = [h \in 0..4 |-> F[h]]
  OBVIOUS
<1> HIDE DEF F
<1>4. ASSUME NEW h \in 0..4
      PROVE  F[h] = OneHop(code, h, F[h - 1])
  <2>0. h = 0 \/ h = 1 \/ h = 2 \/ h = 3 \/ h = 4
    OBVIOUS
  <2>1. CASE h = 0
    BY <2>1, <1>0, <1>2
  <2>2. CASE h = 1
    <3>1. h - 1 = 0
      BY <2>2
    <3> QED
      BY <2>2, <3>1, <1>1, <1>2, Zenon
  <2>3. CASE h = 2
    <3>1. h - 1 = 1
      BY <2>3
    <3> QED
      BY <2>3, <3>1, <1>1, <1>2, Zenon
  <2>4. CASE h = 3
    <3>1. h - 1 = 2
      BY <2>4
    <3> QED
      BY <2>4, <3>1, <1>1, <1>2, Zenon
  <2>5. CASE h = 4
    <3>1. h - 1 = 3
      BY <2>5
    <3> QED
      BY <2>5, <3>1, <1>1, <1>2, Zenon
  <2> QED
    BY <2>0, <2>1, <2>2, <2>3, <2>4, <2>5
<1>5. Follows(F, code)
  BY <1>3, <1>4 DEF Follows, MaxHops
<1> QED
  BY <1>5

\* The addresses reached from one, hop by hop.
Reaches(R, code, addr) ==
  R = [k \in 0..MaxHops |-> IF k = 0 THEN {addr} ELSE UNION {JumpFrom(code, a) : a \in R[k - 1]}]

\* There is such a sequence of sets.
LEMMA ReachesExist == ASSUME NEW code, NEW addr PROVE \E R : Reaches(R, code, addr)
<1> DEFINE On(s) == UNION {JumpFrom(code, a) : a \in s}
           r0 == {addr}
           r1 == On(r0)
           r2 == On(r1)
           r3 == On(r2)
           r4 == On(r3)
           R == [h \in 0..4 |-> IF h = 0 THEN r0 ELSE IF h = 1 THEN r1
                                ELSE IF h = 2 THEN r2 ELSE IF h = 3 THEN r3 ELSE r4]
<1>1. r1 = On(r0) /\ r2 = On(r1) /\ r3 = On(r2) /\ r4 = On(r3)
  OBVIOUS
<1> HIDE DEF r1, r2, r3, r4
<1>2. R[0] = r0 /\ R[1] = r1 /\ R[2] = r2 /\ R[3] = r3 /\ R[4] = r4
  OBVIOUS
<1>3. R = [h \in 0..4 |-> R[h]]
  OBVIOUS
<1> HIDE DEF R, On
<1>4. ASSUME NEW h \in 0..4
      PROVE  R[h] = IF h = 0 THEN {addr} ELSE On(R[h - 1])
  <2>0. h = 0 \/ h = 1 \/ h = 2 \/ h = 3 \/ h = 4
    OBVIOUS
  <2>1. CASE h = 0
    BY <2>1, <1>2
  <2>2. CASE h = 1
    <3>1. h - 1 = 0 /\ h # 0
      BY <2>2
    <3> QED
      BY <2>2, <3>1, <1>1, <1>2
  <2>3. CASE h = 2
    <3>1. h - 1 = 1 /\ h # 0
      BY <2>3
    <3> QED
      BY <2>3, <3>1, <1>1, <1>2
  <2>4. CASE h = 3
    <3>1. h - 1 = 2 /\ h # 0
      BY <2>4
    <3> QED
      BY <2>4, <3>1, <1>1, <1>2
  <2>5. CASE h = 4
    <3>1. h - 1 = 3 /\ h # 0
      BY <2>5
    <3> QED
      BY <2>5, <3>1, <1>1, <1>2
  <2> QED
    BY <2>0, <2>1, <2>2, <2>3, <2>4, <2>5
<1>5. Reaches(R, code, addr)
  BY <1>3, <1>4 DEF Reaches, MaxHops, On
<1> QED
  BY <1>5

\* Landing, by its hops.
LEMMA LandingByHops ==
  ASSUME NEW code, NEW addr
  PROVE  \E R : /\ Reaches(R, code, addr)
                /\ Landing(code, addr) =
                     {a \in UNION {R[k] : k \in 0..MaxHops} : JumpFrom(code, a) = {}}
<1> DEFINE R == CHOOSE r : Reaches(r, code, addr)
<1>1. Reaches(R, code, addr)
  BY ReachesExist
<1>2. Landing(code, addr) = {a \in UNION {R[k] : k \in 0..MaxHops} : JumpFrom(code, a) = {}}
  BY DEF Landing, Reaches
<1> QED
  BY <1>1, <1>2

\* follow_thunk, by its hops.
LEMMA FollowByHops ==
  ASSUME NEW code
  PROVE  \E F : Follows(F, code) /\ \A addr \in Nat : FollowThunk(code, addr) = F[MaxHops][addr]
<1> DEFINE F == CHOOSE f : Follows(f, code)
<1>1. Follows(F, code)
  BY FollowsExist
<1>2. ASSUME NEW addr \in Nat PROVE FollowThunk(code, addr) = F[MaxHops][addr]
  BY DEF FollowThunk, Follows, OneHop
<1> QED
  BY <1>1, <1>2

\* An instruction at every address.
CodeFits(code) == code \in [Addresses -> Instructions]

\* A code of stubs and bodies, as OnlyStubs has it.
StubCode(code) ==
  \A a \in Addresses :
    /\ code[a] = "prologue" => JumpFrom(code, a) # {}
    /\ code[a] \in {"jump", "back"} => JumpFrom(code, a) # {} /\ Landing(code, a) # {}

\* A stub leads to one address, and follow_thunk goes there.
LEMMA StubHop ==
  ASSUME NEW code, CodeFits(code), StubCode(code), NEW F, Follows(F, code),
         NEW a \in Addresses, JumpFrom(code, a) # {}
  PROVE  \E b \in Addresses :
           /\ JumpFrom(code, a) = {b}
           /\ \A h \in 1..MaxHops : F[h][a] = F[h - 1][b]
<1> DEFINE past == Past(code, a)
           b == JumpTarget(past, code[past])
<1>1. past \in Addresses /\ code[past] \in {"jump", "back"} /\ JumpFrom(code, a) = {b} \cap Addresses
  BY DEF JumpFrom, Past
<1>2. b \in Addresses /\ JumpFrom(code, a) = {b}
  BY <1>1
<1>3. a \in Nat
  BY ImagesAssumption DEF Addresses
<1>4. ASSUME NEW h \in 1..MaxHops
      PROVE  F[h][a] = F[h - 1][b]
  <2>1. h \in 0..MaxHops /\ h # 0
    BY DEF MaxHops
  <2>2. F[h] = OneHop(code, h, F[h - 1])
    BY <2>1 DEF Follows
  <2>3. OneHop(code, h, F[h - 1])[a] = F[h - 1][b]
    BY <1>1, <1>3, <2>1 DEF OneHop
  <2> QED
    BY <2>2, <2>3
<1> QED
  BY <1>2, <1>4

\* From the body of a function nothing is followed.
LEMMA BodyHop ==
  ASSUME NEW code, CodeFits(code), StubCode(code), NEW F, Follows(F, code),
         NEW a \in Addresses, JumpFrom(code, a) = {}
  PROVE  /\ \A h \in 1..MaxHops : F[h][a] = IF h < MaxHops THEN a ELSE Nowhere
         /\ F[0][a] = a
<1>1. code[a] \notin {"prologue", "jump", "back"}
  BY DEF StubCode
<1>2. Past(code, a) = a /\ a \in Nat
  BY <1>1, ImagesAssumption DEF Past, Addresses
<1>3. ASSUME NEW h \in 0..MaxHops
      PROVE  F[h][a] = IF h = 0 THEN a ELSE IF h < MaxHops THEN a ELSE Nowhere
  <2>1. F[h] = OneHop(code, h, F[h - 1])
    BY DEF Follows
  <2>2. OneHop(code, h, F[h - 1])[a] = IF h = 0 THEN a ELSE IF h < MaxHops THEN a ELSE Nowhere
    BY <1>1, <1>2 DEF OneHop
  <2> QED
    BY <2>1, <2>2
<1> QED
  BY <1>3 DEF MaxHops

\* After no hops there is no further to go.
LEMMA NoHopsLeft ==
  ASSUME NEW code, NEW F, Follows(F, code), NEW a \in Addresses
  PROVE  F[0][a] = a
<1>1. F[0] = OneHop(code, 0, F[0 - 1])
  BY DEF Follows, MaxHops
<1>2. a \in Nat
  BY ImagesAssumption DEF Addresses
<1> QED
  BY <1>1, <1>2 DEF OneHop

\* The prologue of a stub and the jump behind it lead to the same landing.
LEMMA StubsLand ==
  ASSUME NEW code, CodeFits(code), StubCode(code), NEW a \in Addresses, JumpFrom(code, a) # {}
  PROVE  Landing(code, a) # {}
<1> DEFINE p == Past(code, a)
<1>1. p \in Addresses /\ code[p] \in {"jump", "back"}
  BY DEF JumpFrom, Past
<1>2. Landing(code, p) # {} /\ JumpFrom(code, p) # {}
  BY <1>1 DEF StubCode
<1>3. JumpFrom(code, p) = JumpFrom(code, a)
  <2>1. Past(code, p) = p
    BY <1>1 DEF Past
  <2> HIDE DEF p
  <2>2. JumpFrom(code, p) = {JumpTarget(p, code[p])} \cap Addresses
    BY <1>1, <2>1 DEF JumpFrom
  <2>3. JumpFrom(code, a) = {JumpTarget(p, code[p])} \cap Addresses
    BY <1>1 DEF JumpFrom, p, Past
  <2> QED
    BY <2>2, <2>3
<1> HIDE DEF p
<1>4. PICK R : /\ Reaches(R, code, a)
               /\ Landing(code, a) = {c \in UNION {R[k] : k \in 0..MaxHops} : JumpFrom(code, c) = {}}
  BY LandingByHops
<1>5. PICK P : /\ Reaches(P, code, p)
               /\ Landing(code, p) = {c \in UNION {P[k] : k \in 0..MaxHops} : JumpFrom(code, c) = {}}
  BY LandingByHops
<1>6. /\ R[0] = {a} /\ P[0] = {p}
      /\ \A k \in 1..MaxHops : R[k] = UNION {JumpFrom(code, c) : c \in R[k - 1]}
      /\ \A k \in 1..MaxHops : P[k] = UNION {JumpFrom(code, c) : c \in P[k - 1]}
  BY <1>4, <1>5 DEF Reaches, MaxHops
<1>7. R[1] = P[1] /\ R[2] = P[2] /\ R[3] = P[3] /\ R[4] = P[4]
  <2>1. R[1] = UNION {JumpFrom(code, c) : c \in {a}} /\ P[1] = UNION {JumpFrom(code, c) : c \in {p}}
    BY <1>6 DEF MaxHops
  <2>2. R[1] = P[1]
    BY <2>1, <1>3
  <2>3. R[2] = UNION {JumpFrom(code, c) : c \in R[1]} /\ P[2] = UNION {JumpFrom(code, c) : c \in P[1]}
    BY <1>6 DEF MaxHops
  <2>4. R[2] = P[2]
    BY <2>2, <2>3
  <2>5. R[3] = UNION {JumpFrom(code, c) : c \in R[2]} /\ P[3] = UNION {JumpFrom(code, c) : c \in P[2]}
    BY <1>6 DEF MaxHops
  <2>6. R[3] = P[3]
    BY <2>4, <2>5
  <2>7. R[4] = UNION {JumpFrom(code, c) : c \in R[3]} /\ P[4] = UNION {JumpFrom(code, c) : c \in P[3]}
    BY <1>6 DEF MaxHops
  <2> QED
    BY <2>2, <2>4, <2>6, <2>7
<1>8. PICK c : c \in Landing(code, p)
  BY <1>2
<1>9. PICK k \in 0..MaxHops : c \in P[k] /\ JumpFrom(code, c) = {}
  BY <1>5, <1>8
<1>10. k # 0
  BY <1>2, <1>6, <1>9
<1>11. c \in R[k]
  <2>1. k = 1 \/ k = 2 \/ k = 3 \/ k = 4
    BY <1>10 DEF MaxHops
  <2> QED
    BY <2>1, <1>7, <1>9
<1> QED
  BY <1>4, <1>9, <1>11

\* One address is followed by those it jumps to.
LEMMA NextReached ==
  ASSUME NEW code, NEW R, NEW a, Reaches(R, code, a), NEW k \in 1..MaxHops, NEW c, R[k - 1] = {c}
  PROVE  R[k] = JumpFrom(code, c)
<1>1. R[k] = UNION {JumpFrom(code, d) : d \in {c}}
  BY DEF Reaches, MaxHops
<1> QED
  BY <1>1

\* And nothing is followed by nothing.
LEMMA NoneReached ==
  ASSUME NEW code, NEW R, NEW a, Reaches(R, code, a), NEW k \in 1..MaxHops, R[k - 1] = {}
  PROVE  R[k] = {}
<1>1. R[k] = UNION {JumpFrom(code, d) : d \in {}}
  BY DEF Reaches, MaxHops
<1> QED
  BY <1>1

\* The addresses reached from one that ends after so many hops.
LEMMA LandsOn ==
  ASSUME NEW code, NEW R, NEW a, Reaches(R, code, a),
         Landing(code, a) = {c \in UNION {R[k] : k \in 0..MaxHops} : JumpFrom(code, c) = {}},
         NEW n \in 0..MaxHops, NEW c, R[n] = {c}, JumpFrom(code, c) = {},
         \A k \in 0..MaxHops : k < n => \A e \in R[k] : JumpFrom(code, e) # {}
  PROVE  Landing(code, a) = {c}
<1> DEFINE Empty == {k \in Nat : n + 1 + k <= MaxHops => R[n + 1 + k] = {}}
<1>1. 0 \in Empty
  <2> SUFFICES ASSUME n + 1 <= MaxHops PROVE R[n + 1] = {}
    OBVIOUS
  <2>1. n + 1 \in 1..MaxHops /\ n + 1 - 1 = n
    BY DEF MaxHops
  <2>2. R[(n + 1) - 1] = {c}
    BY <2>1
  <2> QED
    BY <2>1, <2>2, NextReached
<1>2. ASSUME NEW k \in Nat, k \in Empty PROVE k + 1 \in Empty
  <2> SUFFICES ASSUME n + 1 + (k + 1) <= MaxHops PROVE R[n + 1 + (k + 1)] = {}
    OBVIOUS
  <2> DEFINE j == n + 1 + (k + 1)
  <2>1. j \in 1..MaxHops /\ j - 1 = n + 1 + k /\ n + 1 + k <= MaxHops
    BY DEF MaxHops
  <2>2. R[j - 1] = {}
    BY <1>2, <2>1
  <2> HIDE DEF j
  <2>3. R[j] = {}
    BY <2>1, <2>2, NoneReached
  <2> QED
    BY <2>3 DEF j
<1> HIDE DEF Empty
<1>3. Nat \subseteq Empty
  BY <1>1, <1>2, SetInduction
<1>4. ASSUME NEW k \in 0..MaxHops, k > n PROVE R[k] = {}
  <2>1. k - n - 1 \in Nat /\ n + 1 + (k - n - 1) = k /\ k <= MaxHops
    BY <1>4 DEF MaxHops
  <2>2. k - n - 1 \in Empty
    BY <2>1, <1>3
  <2> QED
    BY <2>1, <2>2 DEF Empty
<1>5. ASSUME NEW k \in 0..MaxHops, NEW e \in R[k], JumpFrom(code, e) = {}
      PROVE  e = c
  <2>1. k < n \/ k = n \/ k > n
    BY DEF MaxHops
  <2> QED
    BY <2>1, <1>4, <1>5
<1> QED
  BY <1>5

\* Where there is no stub, there is no landing but the address, and follow_thunk
\* gives nothing; where there is one, follow_thunk gives its landing.
LEMMA FollowThunkLands ==
  ASSUME NEW code, CodeFits(code), StubCode(code), NEW a \in Addresses
  PROVE  \/ JumpFrom(code, a) = {} /\ Landing(code, a) = {a} /\ FollowThunk(code, a) = Nowhere
         \/ Landing(code, a) = {FollowThunk(code, a)}
<1>1. PICK F : Follows(F, code) /\ \A addr \in Nat : FollowThunk(code, addr) = F[MaxHops][addr]
  BY FollowByHops
<1>2. PICK R : /\ Reaches(R, code, a)
               /\ Landing(code, a) = {c \in UNION {R[k] : k \in 0..MaxHops} : JumpFrom(code, c) = {}}
  BY LandingByHops
<1>3. FollowThunk(code, a) = F[4][a]
  BY <1>1, ImagesAssumption DEF Addresses, MaxHops
<1>4. R[0] = {a}
  BY <1>2 DEF Reaches, MaxHops
<1>5. /\ 0 \in 0..MaxHops /\ 1 \in 0..MaxHops /\ 2 \in 0..MaxHops /\ 3 \in 0..MaxHops /\ 4 \in 0..MaxHops
      /\ 1 \in 1..MaxHops /\ 2 \in 1..MaxHops /\ 3 \in 1..MaxHops /\ 4 \in 1..MaxHops
      /\ 1 - 1 = 0 /\ 2 - 1 = 1 /\ 3 - 1 = 2 /\ 4 - 1 = 3 /\ MaxHops = 4
  BY DEF MaxHops
<1>6. \A k \in 0..MaxHops : k = 0 \/ k = 1 \/ k = 2 \/ k = 3 \/ k = 4
  BY DEF MaxHops
<1>9. ASSUME NEW n \in 0..MaxHops, NEW c, R[n] = {c}, JumpFrom(code, c) = {},
             \A k \in 0..MaxHops : k < n => \A e \in R[k] : JumpFrom(code, e) # {}
      PROVE  Landing(code, a) = {c}
  BY <1>2, <1>9, LandsOn
<1>7. CASE JumpFrom(code, a) = {}
  <2>1. F[4][a] = Nowhere
    BY <1>1, <1>5, <1>7, BodyHop
  <2>2. \A k \in 0..MaxHops : k < 0 => \A e \in R[k] : JumpFrom(code, e) # {}
    BY DEF MaxHops
  <2>3. Landing(code, a) = {a}
    BY <1>4, <1>5, <1>7, <1>9, <2>2
  <2> QED
    BY <1>3, <1>7, <2>1, <2>3
<1>8. CASE JumpFrom(code, a) # {}
  <2>1. PICK b \in Addresses : JumpFrom(code, a) = {b} /\ \A h \in 1..MaxHops : F[h][a] = F[h - 1][b]
    BY <1>1, <1>8, StubHop
  <2>2. F[4][a] = F[3][b] /\ R[1] = {b}
    <3>1. R[1 - 1] = {a}
      BY <1>4
    <3>2. R[1] = JumpFrom(code, a)
      BY <1>2, <1>5, <3>1, NextReached
    <3>3. F[4][a] = F[4 - 1][b]
      BY <1>5, <2>1
    <3> QED
      BY <2>1, <3>2, <3>3
  <2>3. CASE JumpFrom(code, b) = {}
    <3>1. F[3][b] = b
      BY <1>1, <1>5, <2>3, BodyHop
    <3>2. \A k \in 0..MaxHops : k < 1 => \A e \in R[k] : JumpFrom(code, e) # {}
      BY <1>4, <1>8 DEF MaxHops
    <3>3. Landing(code, a) = {b}
      BY <1>5, <1>9, <2>2, <2>3, <3>2
    <3> QED
      BY <1>3, <2>2, <3>1, <3>3
  <2>4. CASE JumpFrom(code, b) # {}
    <3>1. PICK c \in Addresses : JumpFrom(code, b) = {c} /\ \A h \in 1..MaxHops : F[h][b] = F[h - 1][c]
      BY <1>1, <2>4, StubHop
    <3>2. F[3][b] = F[2][c] /\ R[2] = {c}
      <4>1. R[2 - 1] = {b}
        BY <2>2
      <4>2. R[2] = JumpFrom(code, b)
        BY <1>2, <1>5, <4>1, NextReached
      <4>3. F[3][b] = F[3 - 1][c]
        BY <1>5, <3>1
      <4> QED
        BY <3>1, <4>2, <4>3
    <3>3. CASE JumpFrom(code, c) = {}
      <4>1. F[2][c] = c
        BY <1>1, <1>5, <3>3, BodyHop
      <4>2. \A k \in 0..MaxHops : k < 2 => \A e \in R[k] : JumpFrom(code, e) # {}
        <5>1. \A k \in 0..MaxHops : k < 2 => k = 0 \/ k = 1
          BY DEF MaxHops
        <5> QED
          BY <1>4, <1>8, <2>2, <2>4, <5>1
      <4>3. Landing(code, a) = {c}
        BY <1>5, <1>9, <3>2, <3>3, <4>2
      <4> QED
        BY <1>3, <2>2, <3>2, <4>1, <4>3
    <3>4. CASE JumpFrom(code, c) # {}
      <4>1. PICK d \in Addresses : JumpFrom(code, c) = {d} /\ \A h \in 1..MaxHops : F[h][c] = F[h - 1][d]
        BY <1>1, <3>4, StubHop
      <4>2. F[2][c] = F[1][d] /\ R[3] = {d}
        <5>1. R[3 - 1] = {c}
          BY <3>2
        <5>2. R[3] = JumpFrom(code, c)
          BY <1>2, <1>5, <5>1, NextReached
        <5>3. F[2][c] = F[2 - 1][d]
          BY <1>5, <4>1
        <5> QED
          BY <4>1, <5>2, <5>3
      <4>3. CASE JumpFrom(code, d) = {}
        <5>1. F[1][d] = d
          BY <1>1, <1>5, <4>3, BodyHop
        <5>2. \A k \in 0..MaxHops : k < 3 => \A e \in R[k] : JumpFrom(code, e) # {}
          <6>1. \A k \in 0..MaxHops : k < 3 => k = 0 \/ k = 1 \/ k = 2
            BY DEF MaxHops
          <6> QED
            BY <1>4, <1>8, <2>2, <2>4, <3>2, <3>4, <6>1
        <5>3. Landing(code, a) = {d}
          BY <1>5, <1>9, <4>2, <4>3, <5>2
        <5> QED
          BY <1>3, <2>2, <3>2, <4>2, <5>1, <5>3
      <4>4. CASE JumpFrom(code, d) # {}
        <5>1. PICK e \in Addresses : JumpFrom(code, d) = {e} /\ \A h \in 1..MaxHops : F[h][d] = F[h - 1][e]
          BY <1>1, <4>4, StubHop
        <5>2. F[1][d] = F[0][e] /\ R[4] = {e}
          <6>1. R[4 - 1] = {d}
            BY <4>2
          <6>2. R[4] = JumpFrom(code, d)
            BY <1>2, <1>5, <6>1, NextReached
          <6>3. F[1][d] = F[1 - 1][e]
            BY <1>5, <5>1
          <6> QED
            BY <5>1, <6>2, <6>3
        <5>3. F[0][e] = e
          BY <1>1, NoHopsLeft
        <5>4. \A k \in 0..MaxHops : k < 4 => \A x \in R[k] : JumpFrom(code, x) # {}
          <6>1. \A k \in 0..MaxHops : k < 4 => k = 0 \/ k = 1 \/ k = 2 \/ k = 3
            BY DEF MaxHops
          <6> QED
            BY <1>4, <1>8, <2>2, <2>4, <3>2, <3>4, <4>2, <4>4, <6>1
        <5>5. JumpFrom(code, e) = {}
          <6>1. PICK y : y \in Landing(code, a)
            BY <1>8, StubsLand
          <6>2. PICK k \in 0..MaxHops : y \in R[k] /\ JumpFrom(code, y) = {}
            BY <1>2, <6>1
          <6>3. k = 4
            BY <5>4, <6>2 DEF MaxHops
          <6> QED
            BY <5>2, <6>2, <6>3
        <5>6. Landing(code, a) = {e}
          BY <1>5, <1>9, <5>2, <5>4, <5>5
        <5> QED
          BY <1>3, <2>2, <3>2, <4>2, <5>2, <5>3, <5>6
      <4> QED
        BY <4>3, <4>4
    <3> QED
      BY <3>3, <3>4
  <2> QED
    BY <2>3, <2>4
<1> QED
  BY <1>7, <1>8

\* The rows of the table are the results of their images.
OmapInv ==
  /\ images \in ImageLists
  /\ image_no \in Nat \ {0}
  /\ omap_pc = "check" => image_no \in DOMAIN images
  /\ \A r \in Range(rows) :
       /\ r.image \in DOMAIN images
       /\ r.class = [n \in Common(images[r.image]) |-> Class(images[r.image], n)]
  /\ rows \in Seq(Range(rows))

\* An image is a code, exports and functions.
LEMMA ImageFits ==
  ASSUME NEW list \in ImageLists, NEW k \in DOMAIN list
  PROVE  LET x == list[k]
         IN  /\ CodeFits(x.code)
             /\ \A n \in DOMAIN x.exports : x.exports[n] \in Addresses
             /\ DOMAIN x.functions = 1..Len(x.functions) /\ Len(x.functions) \in Nat
             /\ \A j \in DOMAIN x.functions : x.functions[j].rva \in Addresses \cup {Nowhere}
<1> DEFINE x == list[k]
           FF == [names : SUBSET DOMAIN Undecorated,
                  rva : Addresses \cup {Nowhere}, raw : Addresses \cup {Nowhere}]
<1>1. /\ x.code \in [Addresses -> Instructions] /\ Range(x.exports) \subseteq Addresses
      /\ x.functions \in Seq(FF)
  BY ImagesAssumption
<1>2. \A n \in DOMAIN x.exports : x.exports[n] \in Addresses
  BY <1>1 DEF Range
<1>3. DOMAIN x.functions = 1..Len(x.functions) /\ Len(x.functions) \in Nat
  BY <1>1
<1>4. \A j \in DOMAIN x.functions : x.functions[j].rva \in Addresses \cup {Nowhere}
  <2> DEFINE q == x.functions
  <2>1. q \in Seq(FF)
    BY <1>1
  <2>2. \A e \in FF : e.rva \in Addresses \cup {Nowhere}
    OBVIOUS
  <2> HIDE DEF q, FF
  <2>3. \A j \in DOMAIN q : q[j] \in FF
    BY <2>1
  <2> QED
    BY <2>2, <2>3 DEF q
<1> QED
  BY <1>1, <1>2, <1>3, <1>4 DEF CodeFits

\* The function first listed under a name is one of the functions.
LEMMA FirstIsListed ==
  ASSUME NEW functions, DOMAIN functions = 1..Len(functions), Len(functions) \in Nat,
         NEW key, Named(functions, key) # {}
  PROVE  \E k \in DOMAIN functions : First(functions, key) = functions[k]
<1> DEFINE S == Named(functions, key)
<1>1. S \subseteq DOMAIN functions /\ S \subseteq Nat
  BY DEF Named
<1> HIDE DEF S
<1>2. \E k \in S : \A j \in S : k <= j
  BY <1>1, LeastNumber DEF S
<1>3. (CHOOSE k \in S : \A j \in S : k <= j) \in S
  BY <1>2
<1> QED
  BY <1>1, <1>3 DEF First, S

\* What a class says of one export of one image.
LEMMA ClassIsEarned ==
  ASSUME NEW list \in ImageLists, NEW k \in DOMAIN list, OnlyStubs(list[k]), Located(list[k]),
         NEW n \in Common(list[k])
  PROVE  LET x == list[k]
         IN  Class(x, n) \in Agrees <=>
               ({x.exports[n]} \cup Landing(x.code, x.exports[n])) \cap NamedAt(x.functions) # {}
<1> DEFINE x == list[k]
           got == First(x.functions, n).rva
           export == x.exports[n]
           led == FollowThunk(x.code, export)
<1>1. /\ CodeFits(x.code) /\ StubCode(x.code) /\ export \in Addresses
      /\ Named(x.functions, n) # {}
  BY ImageFits DEF OnlyStubs, StubCode, Common
<1>2. got \in NamedAt(x.functions) /\ got # Nowhere /\ Nowhere \notin NamedAt(x.functions)
  <2>1. \E j \in DOMAIN x.functions : First(x.functions, n) = x.functions[j]
    BY <1>1, ImageFits, FirstIsListed
  <2> QED
    BY <2>1 DEF NamedAt, Located
<1>3. \/ Landing(x.code, export) = {export} /\ led = Nowhere
      \/ Landing(x.code, export) = {led}
  BY <1>1, FollowThunkLands
<1> DEFINE earned == ({export} \cup Landing(x.code, export)) \cap NamedAt(x.functions) # {}
<1>4. Class(x, n) = IF got = export THEN "exact"
                    ELSE IF led = got THEN "thunk"
                    ELSE IF {export, led} \cap NamedAt(x.functions) # {} THEN "alias"
                    ELSE IF got # Nowhere /\ got - export \in -NEAR..NEAR THEN "near"
                    ELSE "far"
  BY DEF Class, AliasAt
<1> HIDE DEF x, got, export, led
<1>5. Class(x, n) \in Agrees <=>
        got = export \/ led = got \/ {export, led} \cap NamedAt(x.functions) # {}
  BY <1>4 DEF Agrees
<1>6. earned <=> export \in NamedAt(x.functions) \/ led \in NamedAt(x.functions)
  BY <1>2, <1>3
<1>7. Class(x, n) \in Agrees <=> earned
  BY <1>2, <1>5, <1>6
<1> QED
  BY <1>7 DEF x, export

(***************************************************************************)
(* check() and main(): an export counts as agreement when, and only when,  *)
(* purepdb lists a function where it points or where its stubs lead.       *)
(***************************************************************************)
THEOREM AgreementIsNeverGiven == OmapSpec => []AgreementIsEarned
<1>1. OmapInit => OmapInv
  <2> SUFFICES ASSUME OmapInit PROVE OmapInv
    OBVIOUS
  <2>1. rows = <<>> /\ Range(rows) = {} /\ image_no = 1 /\ omap_pc = "image" /\ images \in ImageLists
    BY DEF OmapInit, Range
  <2>2. rows \in Seq(Range(rows))
    BY <2>1
  <2> QED
    BY <2>1, <2>2 DEF OmapInv
<1>2. OmapInv /\ [OmapNext]_omapVars => OmapInv'
  <2> SUFFICES ASSUME OmapInv, [OmapNext]_omapVars PROVE OmapInv'
    OBVIOUS
  <2>0. image_no \in Nat \ {0} /\ DOMAIN images = 1..Len(images) /\ Len(images) \in Nat
    BY ImagesAssumption DEF OmapInv
  <2>1. ASSUME UNCHANGED <<images, rows>>, image_no' \in {image_no, image_no + 1},
               omap_pc' = "check" => image_no' \in DOMAIN images
        PROVE  OmapInv'
    BY <2>0, <2>1 DEF OmapInv
  <2>2. CASE NoIdentity /\ UNCHANGED images
    <3>1. UNCHANGED <<images, rows>> /\ image_no' = image_no + 1 /\ omap_pc' = "image"
      BY <2>2 DEF NoIdentity, Skipped, NextImage
    <3> QED
      BY <2>1, <3>1
  <2>3. CASE FindPdb /\ UNCHANGED images
    <3>1. /\ UNCHANGED <<images, rows>> /\ image_no <= Len(images)
          /\ \/ image_no' = image_no
             \/ image_no' = image_no + 1 /\ omap_pc' = "image"
      BY <2>3 DEF FindPdb, Skipped, NextImage
    <3>2. image_no \in DOMAIN images
      BY <2>0, <3>1
    <3> QED
      BY <2>1, <3>1, <3>2
  <2>4. CASE CheckPair /\ UNCHANGED images
    <3>1. /\ UNCHANGED images /\ image_no' = image_no + 1 /\ omap_pc' = "image" /\ omap_pc = "check"
          /\ rows' = rows \/ rows' = Append(rows, Result(Image))
      BY <2>4 DEF CheckPair, NextImage
    <3>2. CASE rows' = rows
      BY <2>1, <3>1, <3>2
    <3>3. CASE rows' = Append(rows, Result(Image))
      <4> DEFINE one == Result(Image)
      <4>1. /\ one.image = image_no /\ image_no \in DOMAIN images
            /\ one.class = [n \in Common(images[image_no]) |-> Class(images[image_no], n)]
        BY <3>1 DEF Result, Image, OmapInv
      <4> HIDE DEF one
      <4>2. Range(rows') = Range(rows) \cup {one} /\ rows' \in Seq(Range(rows) \cup {one})
        <5>1. rows \in Seq(Range(rows))
          BY DEF OmapInv
        <5>2. /\ rows' \in Seq(Range(rows) \cup {one}) /\ Len(rows') = Len(rows) + 1 /\ Len(rows) \in Nat
              /\ rows'[Len(rows) + 1] = one /\ \A i \in 1..Len(rows) : rows'[i] = rows[i]
              /\ DOMAIN rows = 1..Len(rows)
          BY <3>3, <5>1 DEF one
        <5>3. DOMAIN rows' = 1..Len(rows) + 1
          BY <5>2
        <5> QED
          BY <5>2, <5>3 DEF Range
      <4>3. rows' \in Seq(Range(rows'))
        BY <4>2
      <4>4. \A r \in Range(rows') : /\ r.image \in DOMAIN images
                                    /\ r.class = [n \in Common(images[r.image]) |-> Class(images[r.image], n)]
        BY <4>1, <4>2 DEF OmapInv
      <4> QED
        BY <2>0, <3>1, <4>3, <4>4 DEF OmapInv
    <3> QED
      BY <3>1, <3>2, <3>3
  <2>5. CASE FinishImage /\ UNCHANGED images
    BY <2>1, <2>5 DEF FinishImage
  <2>6. CASE UNCHANGED omapVars
    BY <2>6 DEF omapVars, OmapInv
  <2> QED
    BY <2>2, <2>3, <2>4, <2>5, <2>6 DEF OmapNext
<1>3. OmapInv => AgreementIsEarned
  <2> SUFFICES ASSUME OmapInv, NEW r \in Range(rows), OnlyStubs(images[r.image]), Located(images[r.image]),
                      NEW n \in DOMAIN r.class
               PROVE  r.class[n] \in Agrees <=>
                        ({images[r.image].exports[n]} \cup Landing(images[r.image].code, images[r.image].exports[n]))
                          \cap NamedAt(images[r.image].functions) # {}
    BY DEF AgreementIsEarned
  <2>1. /\ r.image \in DOMAIN images /\ images \in ImageLists
        /\ n \in Common(images[r.image]) /\ r.class[n] = Class(images[r.image], n)
    BY DEF OmapInv
  <2> QED
    BY <2>1, ClassIsEarned
<1> QED
  BY <1>1, <1>2, <1>3, PTL DEF OmapSpec

-----------------------------------------------------------------------------
(* The listing of data and thread-local symbols *)

\* The place the walk is at; every record before it has been read.
Cursor == <<stream, pos>>

\* The places read that are the first to say what they say, and those up to one of them.
FirstsRead == {a \in FirstToSay : Precedes(a, Cursor)}
UpTo(a) == {b \in FirstsRead : ~Precedes(a, b)}

SymbolTypes ==
    /\ Len(moduleRecords) \in Nat
    /\ \A s \in 1..Len(moduleRecords) : moduleRecords[s] \in Seq(Symbols)
    /\ symrecs \in Seq(Symbols)
    /\ stream \in Nat /\ stream >= 1 /\ pos \in Nat /\ pos >= 1
    /\ kept \in Seq({Identity(r) : r \in Symbols})

\* The identities met are those of the records read, and one record has first said each.
KeptSoFar ==
    /\ identities = {Identity(At(a)) : a \in {b \in Listable : Precedes(b, Cursor)}}
    /\ IsFiniteSet(FirstsRead) /\ Len(kept) = Cardinality(FirstsRead)
    /\ \A a \in FirstsRead : kept[Cardinality(UpTo(a))] = Identity(At(a))

SymbolInv == SymbolTypes /\ KeptSoFar

\* A place is a stream and a record of it.
LEMMA PlacesAreInStreams ==
    ASSUME SymbolTypes, NEW a \in Places
    PROVE  /\ a = <<a[1], a[2]>> /\ a[1] \in 1..(Len(moduleRecords) + 1)
           /\ a[2] \in 1..Len(StreamAt(a[1])) /\ At(a) \in Symbols
<1>1. PICK s \in 1..(Len(moduleRecords) + 1) : a \in {s} \X DOMAIN StreamAt(s)
  BY DEF Places
<1>2. StreamAt(s) \in Seq(Symbols)
  <2>1. CASE s <= Len(moduleRecords)
    <3>1. s \in 1..Len(moduleRecords)
      BY <2>1 DEF SymbolTypes
    <3> QED BY <2>1, <3>1 DEF SymbolTypes, StreamAt
  <2>2. CASE ~(s <= Len(moduleRecords))
    BY <2>2 DEF SymbolTypes, StreamAt
  <2> QED BY <2>1, <2>2
<1>3. a = <<a[1], a[2]>> /\ a[1] = s /\ a[2] \in DOMAIN StreamAt(s)
  BY <1>1
<1>4. DOMAIN StreamAt(s) = 1..Len(StreamAt(s))
  BY <1>2
<1>5. StreamAt(s)[a[2]] \in Symbols
  BY <1>2, <1>3, <1>4
<1> QED BY <1>3, <1>4, <1>5 DEF At

\* Places come one after the other.
LEMMA BeforeIsAnOrder ==
    ASSUME SymbolTypes, NEW a \in Places, NEW b \in Places
    PROVE  /\ ~(Precedes(a, b) /\ Precedes(b, a))
           /\ Precedes(a, b) \/ Precedes(b, a) \/ a = b
           /\ ~Precedes(a, a)
<1>1. /\ a = <<a[1], a[2]>> /\ a[1] \in Nat /\ a[2] \in Nat
      /\ b = <<b[1], b[2]>> /\ b[1] \in Nat /\ b[2] \in Nat
  <2>1. /\ a = <<a[1], a[2]>> /\ a[1] \in 1..(Len(moduleRecords) + 1) /\ a[2] \in 1..Len(StreamAt(a[1]))
        /\ b = <<b[1], b[2]>> /\ b[1] \in 1..(Len(moduleRecords) + 1) /\ b[2] \in 1..Len(StreamAt(b[1]))
    BY PlacesAreInStreams
  <2> QED BY <2>1
<1>2. /\ ~(Precedes(a, b) /\ Precedes(b, a)) /\ ~Precedes(a, a)
  BY <1>1 DEF Precedes
<1>3. a[1] = b[1] /\ a[2] = b[2] => a = b
  BY <1>1
<1>4. Precedes(a, b) \/ Precedes(b, a) \/ (a[1] = b[1] /\ a[2] = b[2])
  BY <1>1 DEF Precedes
<1> QED BY <1>2, <1>3, <1>4

\* Nothing that the file holds changes.
LEMMA FileStays ==
    ASSUME symbolFile' = symbolFile
    PROVE  /\ Places' = Places /\ Listable' = Listable /\ FirstToSay' = FirstToSay
           /\ \A a : At(a)' = At(a)
BY DEF symbolFile, Places, Listable, FirstToSay, At, StreamAt

\* No place is before the first.
LEMMA NothingKeptAtFirst == ASSUME SymbolsInit PROVE SymbolInv
<1>1. PICK n \in 0..MaxModules : moduleRecords \in [1..n -> Streams]
  BY DEF SymbolsInit
<1>2. \A t \in Streams : t \in Seq(Symbols)
  BY DEF Streams
<1>3. Len(moduleRecords) = n
  BY <1>1, SymbolsAssumption
<1>4. SymbolTypes
  BY <1>1, <1>2, <1>3, SymbolsAssumption DEF SymbolsInit, SymbolTypes
<1>5. ASSUME NEW a \in Places PROVE ~Precedes(a, Cursor)
  <2>1. a[1] \in 1..(Len(moduleRecords) + 1) /\ a[2] \in 1..Len(StreamAt(a[1])) /\ Len(moduleRecords) \in Nat
    BY <1>4, PlacesAreInStreams DEF SymbolTypes
  <2>2. a[1] >= 1 /\ a[1] \in Int /\ a[2] >= 1 /\ a[2] \in Int
    BY <2>1
  <2> QED BY <2>2 DEF SymbolsInit, Cursor, Precedes
<1>6. FirstsRead = {} /\ {b \in Listable : Precedes(b, Cursor)} = {}
  BY <1>5 DEF FirstsRead, FirstToSay, Listable
<1>7. KeptSoFar
  BY <1>6, FS_EmptySet DEF KeptSoFar, SymbolsInit
<1> QED BY <1>4, <1>7 DEF SymbolInv

\* A step that reads nothing, or nothing that can be listed, leaves it all as it is.
LEMMA SameReadSameKept ==
    ASSUME SymbolInv, symbolFile' = symbolFile, UNCHANGED <<kept, identities>>,
           \A a \in Listable : Precedes(a, Cursor)' <=> Precedes(a, Cursor)
    PROVE  KeptSoFar'
<1>1. /\ Listable' = Listable /\ FirstToSay' = FirstToSay /\ \A a : At(a)' = At(a)
  BY FileStays
<1>2. FirstsRead' = FirstsRead
  <2>1. FirstToSay \subseteq Listable
    BY DEF FirstToSay
  <2> QED BY <1>1, <2>1 DEF FirstsRead
<1>3. {b \in Listable : Precedes(b, Cursor)}' = {b \in Listable : Precedes(b, Cursor)}
  BY <1>1
<1>4. \A a : UpTo(a)' = UpTo(a)
  BY <1>2 DEF UpTo
<1> QED BY <1>1, <1>2, <1>3, <1>4 DEF SymbolInv, KeptSoFar

\* No place lies between the end of a stream and the start of the next.
LEMMA NextStreamKeeps == ASSUME SymbolInv, NextStream PROVE SymbolInv'
<1>1. /\ ~AfterAll /\ ~AtRecord /\ stream' = stream + 1 /\ pos' = 1 /\ SymbolTypes
      /\ symbolFile' = symbolFile /\ UNCHANGED <<kept, identities>>
  BY DEF NextStream, SymbolInv
<1>2. /\ Len(moduleRecords) \in Nat /\ stream \in Nat /\ pos \in Nat /\ stream >= 1
      /\ stream <= Len(moduleRecords) + 1 /\ ~(pos <= Len(StreamAt(stream)))
  BY <1>1 DEF SymbolTypes, AfterAll, AtRecord, Current
<1>3. ASSUME NEW a \in Places
      PROVE  Precedes(a, Cursor)' <=> Precedes(a, Cursor)
  <2>1. /\ a[1] \in 1..(Len(moduleRecords) + 1) /\ a[2] \in 1..Len(StreamAt(a[1]))
    BY <1>1, PlacesAreInStreams
  <2>2. Precedes(a, Cursor)' <=> a[1] < stream + 1 \/ (a[1] = stream + 1 /\ a[2] < 1)
    BY <1>1 DEF Precedes, Cursor
  <2>3. Precedes(a, Cursor) <=> a[1] < stream \/ (a[1] = stream /\ a[2] < pos)
    BY DEF Precedes, Cursor
  <2>4. a[1] = stream => a[2] <= Len(StreamAt(stream)) /\ Len(StreamAt(stream)) \in Nat
    <3>1. ASSUME a[1] = stream PROVE a[2] \in 1..Len(StreamAt(stream))
      BY <2>1, <3>1
    <3>2. Len(StreamAt(stream)) \in Nat
      <4>1. StreamAt(stream) \in Seq(Symbols)
        <5>1. CASE stream <= Len(moduleRecords)
          <6>1. stream \in 1..Len(moduleRecords)
            BY <1>2, <5>1
          <6> QED BY <1>1, <5>1, <6>1 DEF SymbolTypes, StreamAt
        <5>2. CASE ~(stream <= Len(moduleRecords))
          BY <1>1, <5>2 DEF SymbolTypes, StreamAt
        <5> QED BY <5>1, <5>2
      <4> QED BY <4>1
    <3> QED BY <3>1, <3>2
  <2> QED BY <1>2, <2>1, <2>2, <2>3, <2>4
<1>4. KeptSoFar'
  <2>1. \A a \in Listable : Precedes(a, Cursor)' <=> Precedes(a, Cursor)
    BY <1>3 DEF Listable
  <2> QED BY <1>1, <2>1, SameReadSameKept
<1>5. SymbolTypes'
  BY <1>1 DEF SymbolTypes, symbolFile
<1> QED BY <1>4, <1>5 DEF SymbolInv

\* Reading the record at hand moves the walk past this one place and no other.
LEMMA ReadingPassesOnePlace ==
    ASSUME SymbolInv, ReadRecord
    PROVE  /\ Cursor \in Places /\ At(Cursor) = ThisRecord /\ ThisRecord \in Symbols
           /\ \A a \in Places : Precedes(a, Cursor)' <=> Precedes(a, Cursor) \/ a = Cursor
<1>1. /\ ~AfterAll /\ pos <= Len(StreamAt(stream)) /\ stream' = stream /\ pos' = pos + 1
      /\ SymbolTypes
  BY DEF ReadRecord, SymbolInv, AtRecord, Current
<1>2. /\ Len(moduleRecords) \in Nat /\ stream \in Nat /\ pos \in Nat /\ stream >= 1 /\ pos >= 1
      /\ stream \in 1..(Len(moduleRecords) + 1)
  BY <1>1 DEF SymbolTypes, AfterAll
<1>3. StreamAt(stream) \in Seq(Symbols)
  <2>1. CASE stream <= Len(moduleRecords)
    <3>1. stream \in 1..Len(moduleRecords)
      BY <1>2, <2>1
    <3> QED BY <1>1, <2>1, <3>1 DEF SymbolTypes, StreamAt
  <2>2. CASE ~(stream <= Len(moduleRecords))
    BY <1>1, <2>2 DEF SymbolTypes, StreamAt
  <2> QED BY <2>1, <2>2
<1>4. pos \in DOMAIN StreamAt(stream)
  BY <1>1, <1>2, <1>3
<1>5. Cursor \in Places
  BY <1>2, <1>4 DEF Cursor, Places
<1>6. At(Cursor) = ThisRecord /\ ThisRecord \in Symbols
  <2>1. At(Cursor) = ThisRecord
    BY DEF At, Cursor, ThisRecord, Current
  <2> QED BY <1>1, <1>5, <2>1, PlacesAreInStreams
<1>7. ASSUME NEW a \in Places PROVE Precedes(a, Cursor)' <=> Precedes(a, Cursor) \/ a = Cursor
  <2>1. a = <<a[1], a[2]>> /\ a[1] \in Nat /\ a[2] \in Nat
    <3>1. /\ a = <<a[1], a[2]>> /\ a[1] \in 1..(Len(moduleRecords) + 1)
          /\ a[2] \in 1..Len(StreamAt(a[1]))
      BY <1>1, PlacesAreInStreams
    <3> QED BY <3>1
  <2>2. Precedes(a, Cursor)' <=> a[1] < stream \/ (a[1] = stream /\ a[2] < pos + 1)
    BY <1>1 DEF Precedes, Cursor
  <2>3. Precedes(a, Cursor) <=> a[1] < stream \/ (a[1] = stream /\ a[2] < pos)
    BY DEF Precedes, Cursor
  <2>4. a = Cursor <=> a[1] = stream /\ a[2] = pos
    BY <2>1 DEF Cursor
  <2> QED BY <1>2, <2>1, <2>2, <2>3, <2>4
<1> QED BY <1>5, <1>6, <1>7

\* Two records say the same when their identities are equal.
LEMMA SameIsIdentity == \A r, t : Same(r, t) <=> Identity(r) = Identity(t)
BY DEF Same, Identity

\* A record that says something new is listed behind all that were.
LEMMA NewIsListedLast ==
    ASSUME SymbolInv, ReadRecord, Cursor \in Listable, Identity(ThisRecord) \notin identities
    PROVE  KeptSoFar'
<1>1. /\ symbolFile' = symbolFile /\ ThisRecord.kind \in listing /\ Decodes(ThisRecord)
      /\ Cursor \in Places /\ At(Cursor) = ThisRecord /\ ThisRecord \in Symbols
      /\ \A a \in Places : Precedes(a, Cursor)' <=> Precedes(a, Cursor) \/ a = Cursor
      /\ SymbolTypes /\ KeptSoFar
  BY ReadingPassesOnePlace DEF Listable, ReadRecord, SymbolInv
<1>2. /\ kept' = Append(kept, Identity(ThisRecord))
      /\ identities' = identities \cup {Identity(ThisRecord)}
  BY <1>1 DEF ReadRecord, Keep
<1>3. /\ Listable' = Listable /\ FirstToSay' = FirstToSay /\ \A a : At(a)' = At(a)
  BY <1>1, FileStays
<1>4. FirstToSay \subseteq Listable /\ Listable \subseteq Places
  BY DEF FirstToSay, Listable
<1>5. Cursor \in FirstToSay /\ ~Precedes(Cursor, Cursor)
  <2>1. ASSUME NEW b \in Listable, Precedes(b, Cursor) PROVE ~Same(At(b), At(Cursor))
    <3>1. Identity(At(b)) \in identities
      BY <1>1, <2>1 DEF KeptSoFar
    <3> QED BY <1>1, <3>1, SameIsIdentity
  <2>2. ~Precedes(Cursor, Cursor)
    BY <1>1, BeforeIsAnOrder
  <2> QED BY <2>1, <2>2 DEF FirstToSay
<1> DEFINE here == Cursor
           read == FirstsRead
<1>6. FirstsRead' = read \cup {here} /\ here \notin read
  BY <1>1, <1>3, <1>4, <1>5 DEF FirstsRead
<1>7. {b \in Listable : Precedes(b, Cursor)}' = {b \in Listable : Precedes(b, Cursor)} \cup {here}
  BY <1>1, <1>3, <1>4
<1>8. identities' = {Identity(At(a)) : a \in {b \in Listable : Precedes(b, Cursor)}}'
  BY <1>1, <1>2, <1>3, <1>7 DEF KeptSoFar
<1>9. /\ IsFiniteSet(read \cup {here}) /\ Cardinality(read \cup {here}) = Cardinality(read) + 1
      /\ Cardinality(read) \in Nat /\ IsFiniteSet(read)
  <2>1. IsFiniteSet(read)
    BY <1>1 DEF KeptSoFar
  <2> HIDE DEF read, here
  <2> QED BY <1>6, <2>1, FS_AddElement, FS_CardinalityType
<1>10. /\ Len(kept) = Cardinality(read) /\ Len(kept') = Len(kept) + 1
       /\ kept'[Len(kept) + 1] = Identity(ThisRecord)
       /\ \A k \in 1..Len(kept) : kept'[k] = kept[k]
  <2>1. Len(kept) = Cardinality(read)
    BY <1>1 DEF KeptSoFar
  <2>2. kept \in Seq({Identity(r) : r \in Symbols})
    BY <1>1 DEF SymbolTypes
  <2> DEFINE Identities == {Identity(r) : r \in Symbols}
  <2>3. Identity(ThisRecord) \in Identities
    BY <1>1
  <2> HIDE DEF Identities, read
  <2>4. kept \in Seq(Identities)
    BY <2>2 DEF Identities
  <2> QED BY <1>2, <2>1, <2>3, <2>4
<1>11. ASSUME NEW a \in read \cup {here}
       PROVE  kept'[Cardinality(UpTo(a)')] = Identity(At(a))
  <2>1. UpTo(a)' = {b \in read \cup {here} : ~Precedes(a, b)}
    BY <1>6 DEF UpTo, Precedes
  <2>2. CASE a = here
    <3>1. \A b \in read \cup {here} : ~Precedes(a, b)
      <4>1. ASSUME NEW b \in read PROVE ~Precedes(here, b)
        BY <1>1, <1>4, BeforeIsAnOrder DEF FirstsRead
      <4> QED BY <1>5, <2>2, <4>1
    <3>2. UpTo(a)' = read \cup {here}
      BY <2>1, <3>1
    <3> QED BY <1>1, <1>9, <1>10, <2>2, <3>2
  <2>3. CASE a \in read
    <3>1. Precedes(a, here) /\ UpTo(a)' = UpTo(a) /\ a \in UpTo(a) /\ UpTo(a) \subseteq read
      <4>1. Precedes(a, here) /\ ~Precedes(a, a)
        BY <1>1, <1>4, <2>3, BeforeIsAnOrder DEF FirstsRead
      <4> QED BY <2>1, <2>3, <4>1 DEF UpTo
    <3>2. Cardinality(UpTo(a)) \in 1..Len(kept)
      <4>1. /\ IsFiniteSet(UpTo(a)) /\ Cardinality(UpTo(a)) <= Cardinality(read)
            /\ Cardinality(UpTo(a)) \in Nat
        BY <1>9, <3>1, FS_Subset, FS_CardinalityType
      <4>2. Cardinality(UpTo(a)) # 0
        BY <3>1, <4>1, FS_EmptySet
      <4> QED BY <1>9, <1>10, <4>1, <4>2
    <3>3. kept[Cardinality(UpTo(a))] = Identity(At(a))
      BY <1>1, <2>3 DEF KeptSoFar
    <3> QED BY <1>10, <3>1, <3>2, <3>3
  <2> QED BY <2>2, <2>3
<1>12. Len(kept') = Cardinality(FirstsRead')
  BY <1>6, <1>9, <1>10
<1>13. \A a \in FirstsRead' : kept'[Cardinality(UpTo(a)')] = Identity(At(a)')
  BY <1>3, <1>6, <1>11
<1> QED BY <1>6, <1>8, <1>9, <1>12, <1>13 DEF KeptSoFar

\* One that repeats what was said changes nothing.
LEMMA RepeatIsPassedOver ==
    ASSUME SymbolInv, ReadRecord, Cursor \in Listable, Identity(ThisRecord) \in identities
    PROVE  KeptSoFar'
<1>1. /\ symbolFile' = symbolFile /\ UNCHANGED <<kept, identities>>
      /\ At(Cursor) = ThisRecord /\ Cursor \in Places
      /\ \A a \in Places : Precedes(a, Cursor)' <=> Precedes(a, Cursor) \/ a = Cursor
      /\ KeptSoFar
  BY ReadingPassesOnePlace DEF ReadRecord, Keep, SymbolInv
<1>2. /\ Listable' = Listable /\ FirstToSay' = FirstToSay /\ \A a : At(a)' = At(a)
  BY <1>1, FileStays
<1>3. FirstToSay \subseteq Listable /\ Listable \subseteq Places
  BY DEF FirstToSay, Listable
<1>4. PICK b \in Listable : Precedes(b, Cursor) /\ Identity(At(b)) = Identity(At(Cursor))
  BY <1>1 DEF KeptSoFar
<1>5. Cursor \notin FirstToSay
  BY <1>4, SameIsIdentity DEF FirstToSay
<1>6. FirstsRead' = FirstsRead
  BY <1>1, <1>2, <1>3, <1>5 DEF FirstsRead
<1>7. {b2 \in Listable : Precedes(b2, Cursor)}' = {b2 \in Listable : Precedes(b2, Cursor)} \cup {Cursor}
  BY <1>1, <1>2, <1>3
<1>8. identities' = {Identity(At(a)) : a \in {b2 \in Listable : Precedes(b2, Cursor)}}'
  BY <1>1, <1>2, <1>4, <1>7 DEF KeptSoFar
<1>9. \A a : UpTo(a)' = UpTo(a)
  BY <1>6 DEF UpTo
<1> QED BY <1>1, <1>2, <1>6, <1>8, <1>9 DEF KeptSoFar

\* A record is listed, passed over as a repeat, or is none to list.
LEMMA ReadRecordKeeps == ASSUME SymbolInv, ReadRecord PROVE SymbolInv'
<1>1. /\ symbolFile' = symbolFile /\ stream' = stream /\ pos' = pos + 1 /\ Keep(ThisRecord)
      /\ SymbolTypes /\ ThisRecord \in Symbols /\ At(Cursor) = ThisRecord /\ Cursor \in Places
      /\ \A a \in Places : Precedes(a, Cursor)' <=> Precedes(a, Cursor) \/ a = Cursor
  BY ReadingPassesOnePlace DEF ReadRecord, SymbolInv
<1>2. SymbolTypes'
  <2>1. kept' \in Seq({Identity(r) : r \in Symbols})
    <3> DEFINE Identities == {Identity(r) : r \in Symbols}
    <3>1. Identity(ThisRecord) \in Identities /\ kept \in Seq(Identities)
      BY <1>1 DEF SymbolTypes
    <3>2. kept' = kept \/ kept' = Append(kept, Identity(ThisRecord))
      BY <1>1 DEF Keep
    <3>3. kept' \in Seq(Identities)
      <4> HIDE DEF Identities
      <4> QED BY <3>1, <3>2
    <3> QED BY <3>3
  <2> QED BY <1>1, <2>1 DEF SymbolTypes, symbolFile
<1>3. KeptSoFar'
  <2>1. CASE Cursor \notin Listable
    <3>1. UNCHANGED <<kept, identities>>
      BY <1>1, <2>1 DEF Keep, Listable
    <3>2. \A a \in Listable : Precedes(a, Cursor)' <=> Precedes(a, Cursor)
      BY <1>1, <2>1 DEF Listable
    <3> QED BY <1>1, <3>1, <3>2, SameReadSameKept
  <2>2. CASE Cursor \in Listable /\ Identity(ThisRecord) \in identities
    BY <2>2, RepeatIsPassedOver
  <2>3. CASE Cursor \in Listable /\ Identity(ThisRecord) \notin identities
    BY <2>3, NewIsListedLast
  <2> QED BY <2>1, <2>2, <2>3
<1> QED BY <1>2, <1>3 DEF SymbolInv

\* When the publics are listed every place has been passed.
LEMMA ListPublicsKeeps == ASSUME SymbolInv, ListPublics PROVE SymbolInv'
<1>1. /\ stream = Len(moduleRecords) + 2 /\ stream' = stream + 1 /\ pos' = pos
      /\ symbolFile' = symbolFile /\ UNCHANGED <<kept, identities>> /\ SymbolTypes
  BY DEF ListPublics, SymbolInv
<1>2. SymbolTypes'
  BY <1>1 DEF SymbolTypes, symbolFile
<1>3. ASSUME NEW a \in Places PROVE Precedes(a, Cursor)' <=> Precedes(a, Cursor)
  <2>1. a[1] \in 1..(Len(moduleRecords) + 1) /\ Len(moduleRecords) \in Nat
    BY <1>1, PlacesAreInStreams DEF SymbolTypes
  <2> QED BY <1>1, <2>1 DEF Precedes, Cursor
<1>4. KeptSoFar'
  <2>1. \A a \in Listable : Precedes(a, Cursor)' <=> Precedes(a, Cursor)
    BY <1>3 DEF Listable
  <2> QED BY <1>1, <2>1, SameReadSameKept
<1> QED BY <1>2, <1>4 DEF SymbolInv

\* Once the walk is past the symbol records it has passed every place.
LEMMA AllArePassed == ASSUME SymbolInv PROVE ListedOnceInOrder
<1>1. ASSUME AfterAll PROVE FirstsRead = FirstToSay
  <2>1. ASSUME NEW a \in Places PROVE Precedes(a, Cursor)
    <3>1. /\ a[1] \in 1..(Len(moduleRecords) + 1) /\ Len(moduleRecords) \in Nat /\ stream \in Nat
      BY PlacesAreInStreams DEF SymbolInv, SymbolTypes
    <3> QED BY <1>1, <3>1 DEF Precedes, Cursor, AfterAll
  <2> QED BY <2>1 DEF FirstsRead, FirstToSay, Listable
<1> QED BY <1>1 DEF SymbolInv, KeptSoFar, UpTo, ListedOnceInOrder

(***************************************************************************)
(* data_symbols and thread_locals list every symbol that can be read once, *)
(* in the order of the modules and then of the records: what is listed is  *)
(* what each identity was first said by, whatever repeats it and whatever  *)
(* could not be read before it.                                            *)
(***************************************************************************)
THEOREM EachSymbolOnceInOrder == SymbolsSpec => []ListedOnceInOrder
<1>1. SymbolsInit => SymbolInv
  BY NothingKeptAtFirst
<1>2. SymbolInv /\ [SymbolsNext]_symbolVars => SymbolInv'
  <2> SUFFICES ASSUME SymbolInv, [SymbolsNext]_symbolVars PROVE SymbolInv'
    OBVIOUS
  <2>1. CASE ReadRecord
    BY <2>1, ReadRecordKeeps
  <2>2. CASE NextStream
    BY <2>2, NextStreamKeeps
  <2>3. CASE ListPublics
    BY <2>3, ListPublicsKeeps
  <2>4. CASE UNCHANGED symbolVars
    <3>1. symbolFile' = symbolFile /\ UNCHANGED <<kept, identities>> /\ stream' = stream /\ pos' = pos
      BY <2>4 DEF symbolVars
    <3>2. \A a \in Listable : Precedes(a, Cursor)' <=> Precedes(a, Cursor)
      BY <3>1 DEF Precedes, Cursor
    <3>3. KeptSoFar'
      BY <3>1, <3>2, SameReadSameKept
    <3>4. SymbolTypes'
      BY <3>1 DEF SymbolInv, SymbolTypes, symbolFile
    <3> QED BY <3>3, <3>4 DEF SymbolInv
  <2> QED BY <2>1, <2>2, <2>3, <2>4 DEF SymbolsNext
<1>3. SymbolInv => ListedOnceInOrder
  BY AllArePassed
<1> QED BY <1>1, <1>2, <1>3, PTL DEF SymbolsSpec

-----------------------------------------------------------------------------
(* The listing of publics *)

\* The address map names records of which the ones that are there ascend by
\* address.
RanksAscend ==
  /\ Ranked \in Seq(Nat)
  /\ \A a, b \in DOMAIN Ranked :
       a <= b /\ Ranked[a] \in DOMAIN stored /\ Ranked[b] \in DOMAIN stored =>
         stored[Ranked[a]] <= stored[Ranked[b]]

\* Whatever is left of the map a linker wrote, its order is the addresses'.
LEMMA MapsAscend ==
  ASSUME stored \in Publics, addrMap \in MapsLeft(stored)
  PROVE  RanksAscend
<1> DEFINE n == Len(stored)
           map == MapOf(stored)
<1>1. n \in Nat /\ DOMAIN stored = 1..n /\ stored \in [1..n -> Int] /\ stored \in [1..n -> Nat]
  BY SymbolsAssumption
<1>2. SortsBy(map, n, stored)
  BY <1>1, StableOrderByKey DEF MapOf
<1> HIDE DEF map
<1>3. map \in [1..n -> Nat] /\ map \in Seq(Nat) /\ Len(map) = n /\ DOMAIN map = 1..n
  <2>1. map \in [1..n -> 1..n]
    BY <1>2 DEF SortsBy
  <2>2. map \in [1..n -> Nat]
    BY <2>1, <1>1
  <2> QED
    BY <2>2, <1>1
<1>4. ASSUME NEW a \in 1..n, NEW b \in 1..n, a <= b PROVE stored[map[a]] <= stored[map[b]]
  <2>1. map[a] \in 1..n /\ stored[map[a]] \in Int
    BY <1>1, <1>2 DEF SortsBy
  <2>2. CASE a = b
    BY <2>1, <2>2
  <2>3. CASE a < b
    BY <2>3, <1>2 DEF SortsBy
  <2> QED
    BY <2>2, <2>3, <1>1, <1>4
<1>5. CASE addrMap.cut
  <2>1. Ranked = <<>>
    BY <1>5 DEF Ranked
  <2> QED
    BY <2>1 DEF RanksAscend
<1>6. CASE addrMap = [cut |-> FALSE, map |-> map]
  <2>1. Ranked = map
    BY <1>6 DEF Ranked
  <2> QED
    BY <2>1, <1>3, <1>4 DEF RanksAscend
<1>7. CASE addrMap = [cut |-> FALSE, map |-> <<n + 1>> \o map]
  <2>1. Ranked = <<n + 1>> \o map
    BY <1>7 DEF Ranked
  <2>2. /\ Ranked \in Seq(Nat) /\ DOMAIN Ranked = 1..(n + 1)
        /\ Ranked[1] = n + 1 /\ \A a \in 2..(n + 1) : Ranked[a] = map[a - 1]
    BY <2>1, <1>1, <1>3
  <2>3. ASSUME NEW a \in DOMAIN Ranked, NEW b \in DOMAIN Ranked, a <= b,
               Ranked[a] \in DOMAIN stored, Ranked[b] \in DOMAIN stored
        PROVE  stored[Ranked[a]] <= stored[Ranked[b]]
    <3>1. a # 1 /\ b # 1
      BY <2>2, <2>3, <1>1
    <3>2. a - 1 \in 1..n /\ b - 1 \in 1..n /\ a - 1 <= b - 1
      <4>1. a \in 1..(n + 1) /\ b \in 1..(n + 1) /\ n \in Nat
        BY <2>2, <1>1
      <4> QED
        BY <4>1, <3>1, <2>3
    <3>3. Ranked[a] = map[a - 1] /\ Ranked[b] = map[b - 1]
      BY <2>2, <3>1, <1>1
    <3> QED
      BY <3>2, <3>3, <1>4
  <2> QED
    BY <2>2, <2>3 DEF RanksAscend
<1>8. ASSUME NEW i \in DOMAIN map, addrMap = [cut |-> FALSE, map |-> RemoveAt(map, i)]
      PROVE  RanksAscend
  <2>1. Ranked = RemoveAt(map, i) /\ i \in 1..Len(map)
    BY <1>8, <1>3 DEF Ranked
  <2>2. /\ Ranked \in Seq(Nat) /\ DOMAIN Ranked = 1..(n - 1)
        /\ \A a \in 1..(n - 1) : Ranked[a] = map[IF a < i THEN a ELSE a + 1]
    <3>1. /\ RemoveAt(map, i) \in Seq(Nat) /\ Len(RemoveAt(map, i)) = n - 1
          /\ \A a \in 1..(n - 1) : RemoveAt(map, i)[a] = map[IF a < i THEN a ELSE a + 1]
      BY <2>1, <1>3, PlacesOfRemoved
    <3> QED
      BY <2>1, <3>1
  <2>3. ASSUME NEW a \in DOMAIN Ranked, NEW b \in DOMAIN Ranked, a <= b
        PROVE  stored[Ranked[a]] <= stored[Ranked[b]]
    <3> DEFINE p == IF a < i THEN a ELSE a + 1
               q == IF b < i THEN b ELSE b + 1
    <3>1. p \in 1..n /\ q \in 1..n /\ p <= q
      <4>1. a \in 1..(n - 1) /\ b \in 1..(n - 1) /\ i \in 1..n /\ n \in Nat
        BY <2>2, <1>1, <1>3
      <4> QED
        BY <4>1, <2>3
    <3>2. Ranked[a] = map[p] /\ Ranked[b] = map[q]
      BY <2>2
    <3> QED
      BY <3>1, <3>2, <1>4
  <2> QED
    BY <2>2, <2>3 DEF RanksAscend
<1>9. \/ addrMap.cut
      \/ addrMap = [cut |-> FALSE, map |-> map]
      \/ addrMap = [cut |-> FALSE, map |-> <<n + 1>> \o map]
      \/ \E i \in DOMAIN map : addrMap = [cut |-> FALSE, map |-> RemoveAt(map, i)]
  BY DEF MapsLeft, map
<1> QED
  BY <1>5, <1>6, <1>7, <1>8, <1>9

\* The rank of a record is a place of it in the map, if it has one.
LEMMA RanksArePlaces ==
  ASSUME RanksAscend, NEW i
  PROVE  /\ RankInMap(i) \in Nat
         /\ i \in ToSet(Ranked) => RankInMap(i) \in DOMAIN Ranked /\ Ranked[RankInMap(i)] = i
<1> DEFINE T == {k \in DOMAIN Ranked : Ranked[k] = i}
<1>1. CASE i \in ToSet(Ranked)
  <2>1. DOMAIN Ranked = 1..Len(Ranked) /\ Len(Ranked) \in Nat
    BY DEF RanksAscend
  <2>2. T # {} /\ T \subseteq 0..Len(Ranked)
    BY <1>1, <2>1 DEF ToSet
  <2>3. \E x \in T : \A y \in T : y <= x
    BY <2>1, <2>2, GreatestNumber
  <2>4. \E x \in T : \A y \in T : x >= y
    BY <2>1, <2>2, <2>3
  <2>5. Max(T) \in T
    BY <2>4 DEF Max
  <2>6. RankInMap(i) = Max(T)
    BY <1>1 DEF RankInMap
  <2> QED
    BY <2>1, <2>5, <2>6
<1>2. CASE i \notin ToSet(Ranked)
  BY <1>2 DEF RankInMap
<1> QED
  BY <1>1, <1>2

\* When the map covers all of them, the order of the ranks is that of the addresses.
LEMMA CoveredAreByAddress ==
  ASSUME stored \in Publics, RanksAscend, Covers
  PROVE  /\ Len(StoredByRank) = Len(stored) /\ ToSet(StoredByRank) = DOMAIN stored
         /\ ByAddress(StoredByRank)
<1> DEFINE n == Len(stored)
           rank == [i \in 1..n |-> RankInMap(i)]
           o == StoredByRank
<1>1. n \in Nat /\ DOMAIN stored = 1..n
  BY SymbolsAssumption
<1>2. rank \in [1..n -> Int]
  BY RanksArePlaces
<1>3. {p \in (1..n) \X (1..n) : RankInMap(p[1]) < RankInMap(p[2])}
        = {p \in (1..n) \X (1..n) : rank[p[1]] < rank[p[2]]}
  OBVIOUS
<1>4. o = StableOrder(n, {p \in (1..n) \X (1..n) : rank[p[1]] < rank[p[2]]})
  BY <1>1, <1>3 DEF StoredByRank
<1>r. \A i \in 1..n : rank[i] = RankInMap(i)
  OBVIOUS
<1> HIDE DEF rank, o
<1>5. SortsBy(o, n, rank)
  BY <1>1, <1>2, <1>4, StableOrderByKey
<1>6. o \in [1..n -> 1..n] /\ Len(o) = n /\ DOMAIN o = 1..n
  BY <1>5, <1>1 DEF SortsBy
<1>7. ToSet(o) = 1..n
  BY <1>5, <1>6 DEF SortsBy, ToSet
<1>8. ASSUME NEW i \in 1..n, NEW j \in 1..n, i < j PROVE stored[o[i]] <= stored[o[j]]
  <2>1. o[i] \in 1..n /\ o[j] \in 1..n /\ rank[o[i]] <= rank[o[j]]
    BY <1>5, <1>8 DEF SortsBy
  <2>2. o[i] \in ToSet(Ranked) /\ o[j] \in ToSet(Ranked)
    BY <2>1, <1>1 DEF Covers
  <2>3. /\ RankInMap(o[i]) \in DOMAIN Ranked /\ Ranked[RankInMap(o[i])] = o[i]
        /\ RankInMap(o[j]) \in DOMAIN Ranked /\ Ranked[RankInMap(o[j])] = o[j]
        /\ RankInMap(o[i]) <= RankInMap(o[j])
    BY <2>1, <2>2, <1>r, RanksArePlaces
  <2> QED
    BY <2>1, <2>3, <1>1 DEF RanksAscend
<1> QED
  BY <1>1, <1>6, <1>7, <1>8 DEF ByAddress, o

\* What an unsorted listing has: all of them, as they are stored.
LEMMA AsStoredHasAll ==
  ASSUME stored \in Publics
  PROVE  Len(AsStored) = Len(stored) /\ ToSet(AsStored) = DOMAIN stored
<1>1. DOMAIN stored = 1..Len(stored) /\ Len(stored) \in Nat
  BY SymbolsAssumption
<1> QED
  BY <1>1 DEF AsStored, ToSet

\* The publics and what is left of the map are one file's, and the listing made
\* of them is in one order.
PublicsInv ==
  /\ stored \in Publics /\ addrMap \in MapsLeft(stored)
  /\ Len(moduleRecords) \in Nat /\ stream \in 1..(Len(moduleRecords) + 3)
  /\ PublicsAreInOneOrder

(***************************************************************************)
(* pdb.py:842-861: public_symbols lists every public once, by ascending    *)
(* address when the publics stream has a map of them all, and as stored    *)
(* when its map is missing, cut or incomplete, never half one and half the *)
(* other; whatever the addresses and however many the publics.             *)
(***************************************************************************)
THEOREM PublicsKeepOneOrder == SymbolsSpec => []PublicsAreInOneOrder
<1>1. SymbolsInit => PublicsInv
  <2> SUFFICES ASSUME SymbolsInit PROVE PublicsInv
    OBVIOUS
  <2>1. PICK k \in 0..MaxModules : moduleRecords \in [1..k -> Streams]
    BY DEF SymbolsInit
  <2>2. Len(moduleRecords) = k /\ k \in Nat
    BY <2>1, SymbolsAssumption
  <2> QED
    BY <2>2 DEF SymbolsInit, PublicsInv, PublicsAreInOneOrder, Done
<1>2. PublicsInv /\ [SymbolsNext]_symbolVars => PublicsInv'
  <2> SUFFICES ASSUME PublicsInv, [SymbolsNext]_symbolVars PROVE PublicsInv'
    OBVIOUS
  <2>1. CASE ReadRecord \/ UNCHANGED symbolVars
    BY <2>1 DEF PublicsInv, PublicsAreInOneOrder, ByAddress, AsStored, Done, ReadRecord,
                symbolVars, symbolFile
  <2>2. CASE NextStream
    <3>1. /\ stream' = stream + 1 /\ stream' \in 1..(Len(moduleRecords) + 2)
          /\ UNCHANGED <<moduleRecords, stored, addrMap>> /\ Len(moduleRecords) \in Nat
      BY <2>2 DEF NextStream, AfterAll, PublicsInv, symbolFile
    <3> QED
      BY <3>1 DEF PublicsInv, PublicsAreInOneOrder, Done
  <2>3. CASE ListPublics
    <3>1. /\ stream' = Len(moduleRecords) + 3 /\ Len(moduleRecords) \in Nat
          /\ UNCHANGED <<moduleRecords, stored, addrMap>>
          /\ listed' = IF Covers THEN StoredByRank ELSE AsStored
          /\ stored \in Publics /\ addrMap \in MapsLeft(stored)
      BY <2>3 DEF ListPublics, PublicsInv, symbolFile
    <3>2. /\ Len(listed') = Len(stored) /\ ToSet(listed') = DOMAIN stored
          /\ listed' = AsStored \/ ByAddress(listed')
      BY <3>1, MapsAscend, CoveredAreByAddress, AsStoredHasAll
    <3>3. MapsLeft(stored)' = MapsLeft(stored) /\ AsStored' = AsStored
      BY <3>1 DEF AsStored
    <3>4. ByAddress(listed)' <=> ByAddress(listed')
      BY <3>1 DEF ByAddress
    <3>5. PublicsAreInOneOrder'
      BY <3>1, <3>2, <3>3, <3>4 DEF PublicsAreInOneOrder
    <3> QED
      BY <3>1, <3>5 DEF PublicsInv
  <2> QED
    BY <2>1, <2>2, <2>3 DEF SymbolsNext
<1>3. PublicsInv => PublicsAreInOneOrder
  BY DEF PublicsInv
<1> QED
  BY <1>1, <1>2, <1>3, PTL DEF SymbolsSpec

-----------------------------------------------------------------------------
(* The listing of functions *)

\* The claims to an address, and the functions made of them.
Sources == {"proc", "public", "thunk"}
ClaimRecords == [addr : Nat \X Nat, name : Nat, source : Sources, size : Int]
FunctionRecords ==
  [addr : Nat \X Nat, name : Nat, source : Sources, code_size : Int, aliases : Seq(Nat)]

\* A function is the merge of the claims to its address: its name, source and
\* size are the first one's, its aliases the other names, each once.
IsMerge(f, cs) ==
  /\ \E k \in DOMAIN cs :
       /\ cs[k].addr = f.addr
       /\ \A l \in DOMAIN cs : cs[l].addr = f.addr => k <= l
       /\ f.name = cs[k].name /\ f.source = cs[k].source /\ f.code_size = cs[k].size
  /\ \A a, b \in DOMAIN f.aliases : f.aliases[a] = f.aliases[b] => a = b
  /\ \A a \in DOMAIN f.aliases :
       /\ f.aliases[a] # f.name
       /\ \E k \in DOMAIN cs : cs[k].addr = f.addr /\ cs[k].name = f.aliases[a]
  /\ \A k \in DOMAIN cs : cs[k].addr = f.addr =>
       cs[k].name = f.name \/ \E a \in DOMAIN f.aliases : f.aliases[a] = cs[k].name

\* A dictionary is the merge of the claims: a function for each address that is
\* claimed, and for no other.
Merges(cs, fs) ==
  /\ \A i, j \in DOMAIN fs : fs[i].addr = fs[j].addr => i = j
  /\ \A k \in DOMAIN cs : \E i \in DOMAIN fs : fs[i].addr = cs[k].addr
  /\ \A i \in DOMAIN fs : IsMerge(fs[i], cs)

\* What appending one claim leaves as it was.
LEMMA OneClaimMore ==
  ASSUME NEW X, NEW cs \in Seq(X), NEW c \in X
  PROVE  /\ Append(cs, c) \in Seq(X)
         /\ DOMAIN cs = 1..Len(cs) /\ Len(cs) \in Nat
         /\ DOMAIN Append(cs, c) = 1..(Len(cs) + 1)
         /\ \A k \in 1..Len(cs) : k \in 1..(Len(cs) + 1) /\ Append(cs, c)[k] = cs[k]
         /\ \A k \in 1..(Len(cs) + 1) : k \in 1..Len(cs) \/ k = Len(cs) + 1
         /\ Len(cs) + 1 \in 1..(Len(cs) + 1) /\ Append(cs, c)[Len(cs) + 1] = c
OBVIOUS

\* A claim to another address, or one that says no new name, changes nothing.
LEMMA MergeOfTheSame ==
  ASSUME NEW cs \in Seq(ClaimRecords), NEW c \in ClaimRecords, NEW f \in FunctionRecords,
         IsMerge(f, cs),
         \/ c.addr # f.addr
         \/ c.name = f.name \/ \E a \in DOMAIN f.aliases : f.aliases[a] = c.name
  PROVE  IsMerge(f, Append(cs, c))
<1> DEFINE n == Len(cs)
           ds == Append(cs, c)
<1>1. /\ DOMAIN cs = 1..n /\ n \in Nat /\ DOMAIN ds = 1..(n + 1)
      /\ \A k \in 1..n : k \in 1..(n + 1) /\ ds[k] = cs[k]
      /\ \A k \in 1..(n + 1) : k \in 1..n \/ k = n + 1
      /\ n + 1 \in 1..(n + 1) /\ ds[n + 1] = c
  BY OneClaimMore
<1> HIDE DEF n, ds
<1>2. PICK k \in DOMAIN cs :
        /\ cs[k].addr = f.addr
        /\ \A l \in DOMAIN cs : cs[l].addr = f.addr => k <= l
        /\ f.name = cs[k].name /\ f.source = cs[k].source /\ f.code_size = cs[k].size
  BY DEF IsMerge
<1>3. /\ k \in DOMAIN ds /\ ds[k] = cs[k]
      /\ \A l \in DOMAIN ds : ds[l].addr = f.addr => k <= l
  <2>1. ASSUME NEW l \in DOMAIN ds, ds[l].addr = f.addr
        PROVE  k <= l
    <3>1. CASE l \in 1..n
      BY <3>1, <1>1, <1>2, <2>1
    <3>2. CASE l = n + 1
      BY <3>2, <1>1, <1>2
    <3> QED
      BY <3>1, <3>2, <1>1
  <2> QED
    BY <2>1, <1>1, <1>2
<1>4. ASSUME NEW a \in DOMAIN f.aliases
      PROVE  /\ f.aliases[a] # f.name
             /\ \E l \in DOMAIN ds : ds[l].addr = f.addr /\ ds[l].name = f.aliases[a]
  <2>1. PICK l \in DOMAIN cs : cs[l].addr = f.addr /\ cs[l].name = f.aliases[a]
    BY DEF IsMerge
  <2>2. l \in DOMAIN ds /\ ds[l] = cs[l]
    BY <1>1
  <2>3. f.aliases[a] # f.name
    BY DEF IsMerge
  <2> QED
    BY <2>1, <2>2, <2>3
<1>5. ASSUME NEW l \in DOMAIN ds, ds[l].addr = f.addr
      PROVE  ds[l].name = f.name \/ \E a \in DOMAIN f.aliases : f.aliases[a] = ds[l].name
  <2>1. CASE l \in 1..n
    <3>1. l \in DOMAIN cs /\ ds[l] = cs[l]
      BY <2>1, <1>1
    <3> QED
      BY <3>1, <1>5 DEF IsMerge
  <2>2. CASE l = n + 1
    BY <2>2, <1>1, <1>5
  <2> QED
    BY <2>1, <2>2, <1>1
<1>6. \A a, b \in DOMAIN f.aliases : f.aliases[a] = f.aliases[b] => a = b
  BY DEF IsMerge
<1>7. IsMerge(f, ds)
  BY <1>2, <1>3, <1>4, <1>5, <1>6 DEF IsMerge
<1> QED
  BY <1>7 DEF ds

\* A claim that says a new name makes one alias more.
LEMMA MergeOfAnAlias ==
  ASSUME NEW cs \in Seq(ClaimRecords), NEW c \in ClaimRecords, NEW f \in FunctionRecords,
         IsMerge(f, cs), c.addr = f.addr, c.name # f.name,
         \A a \in DOMAIN f.aliases : f.aliases[a] # c.name
  PROVE  /\ [f EXCEPT !.aliases = Append(@, c.name)] \in FunctionRecords
         /\ IsMerge([f EXCEPT !.aliases = Append(@, c.name)], Append(cs, c))
<1> DEFINE n == Len(cs)
           ds == Append(cs, c)
           m == Len(f.aliases)
           al == Append(f.aliases, c.name)
           g == [f EXCEPT !.aliases = Append(@, c.name)]
<1>1. /\ DOMAIN cs = 1..n /\ n \in Nat /\ DOMAIN ds = 1..(n + 1)
      /\ \A k \in 1..n : k \in 1..(n + 1) /\ ds[k] = cs[k]
      /\ \A k \in 1..(n + 1) : k \in 1..n \/ k = n + 1
      /\ n + 1 \in 1..(n + 1) /\ ds[n + 1] = c
  BY OneClaimMore
<1>t. f.aliases \in Seq(Nat) /\ c.name \in Nat
  BY DEF FunctionRecords, ClaimRecords
<1>2. /\ al \in Seq(Nat)
      /\ DOMAIN f.aliases = 1..m /\ m \in Nat /\ DOMAIN al = 1..(m + 1)
      /\ \A a \in 1..m : a \in 1..(m + 1) /\ al[a] = f.aliases[a]
      /\ \A a \in 1..(m + 1) : a \in 1..m \/ a = m + 1
      /\ m + 1 \in 1..(m + 1) /\ al[m + 1] = c.name
  BY <1>t, OneClaimMore
<1>3. /\ g.addr = f.addr /\ g.name = f.name /\ g.source = f.source /\ g.code_size = f.code_size
      /\ g.aliases = al /\ g \in FunctionRecords
  BY <1>2 DEF FunctionRecords
<1> HIDE DEF n, ds, m, al, g
<1>4. PICK k \in DOMAIN cs :
        /\ cs[k].addr = f.addr
        /\ \A l \in DOMAIN cs : cs[l].addr = f.addr => k <= l
        /\ f.name = cs[k].name /\ f.source = cs[k].source /\ f.code_size = cs[k].size
  BY DEF IsMerge
<1>5. /\ k \in DOMAIN ds /\ ds[k] = cs[k]
      /\ \A l \in DOMAIN ds : ds[l].addr = f.addr => k <= l
  <2>1. ASSUME NEW l \in DOMAIN ds, ds[l].addr = f.addr
        PROVE  k <= l
    <3>1. CASE l \in 1..n
      BY <3>1, <1>1, <1>4, <2>1
    <3>2. CASE l = n + 1
      BY <3>2, <1>1, <1>4
    <3> QED
      BY <3>1, <3>2, <1>1
  <2> QED
    BY <2>1, <1>1, <1>4
<1>6. ASSUME NEW a \in DOMAIN al
      PROVE  /\ al[a] # f.name
             /\ \E l \in DOMAIN ds : ds[l].addr = f.addr /\ ds[l].name = al[a]
  <2>1. CASE a \in 1..m
    <3>1. al[a] = f.aliases[a] /\ a \in DOMAIN f.aliases
      BY <2>1, <1>2
    <3>2. PICK l \in DOMAIN cs : cs[l].addr = f.addr /\ cs[l].name = f.aliases[a]
      BY <3>1 DEF IsMerge
    <3>3. l \in DOMAIN ds /\ ds[l] = cs[l]
      BY <1>1
    <3>4. f.aliases[a] # f.name
      BY <3>1 DEF IsMerge
    <3> QED
      BY <3>1, <3>2, <3>3, <3>4
  <2>2. CASE a = m + 1
    BY <2>2, <1>1, <1>2
  <2> QED
    BY <2>1, <2>2, <1>2
<1>7. ASSUME NEW l \in DOMAIN ds, ds[l].addr = f.addr
      PROVE  ds[l].name = f.name \/ \E a \in DOMAIN al : al[a] = ds[l].name
  <2>1. CASE l \in 1..n
    <3>1. l \in DOMAIN cs /\ ds[l] = cs[l]
      BY <2>1, <1>1
    <3>2. cs[l].name = f.name \/ \E a \in DOMAIN f.aliases : f.aliases[a] = cs[l].name
      BY <3>1, <1>7 DEF IsMerge
    <3> QED
      BY <3>1, <3>2, <1>2
  <2>2. CASE l = n + 1
    BY <2>2, <1>1, <1>2
  <2> QED
    BY <2>1, <2>2, <1>1
<1>8. ASSUME NEW a \in DOMAIN al, NEW b \in DOMAIN al, al[a] = al[b]
      PROVE  a = b
  <2>1. \A x, y \in DOMAIN f.aliases : f.aliases[x] = f.aliases[y] => x = y
    BY DEF IsMerge
  <2> QED
    BY <2>1, <1>2, <1>8
<1>9. IsMerge(g, ds)
  BY <1>3, <1>4, <1>5, <1>6, <1>7, <1>8 DEF IsMerge
<1> QED
  BY <1>3, <1>9 DEF ds, g

\* The first claim to an address makes a function.
LEMMA MergeOfAFirst ==
  ASSUME NEW cs \in Seq(ClaimRecords), NEW c \in ClaimRecords,
         \A k \in DOMAIN cs : cs[k].addr # c.addr
  PROVE  /\ NewFunction(c) \in FunctionRecords
         /\ NewFunction(c).addr = c.addr
         /\ IsMerge(NewFunction(c), Append(cs, c))
<1> DEFINE n == Len(cs)
           ds == Append(cs, c)
           g == NewFunction(c)
<1>1. /\ DOMAIN cs = 1..n /\ n \in Nat /\ DOMAIN ds = 1..(n + 1)
      /\ \A k \in 1..n : k \in 1..(n + 1) /\ ds[k] = cs[k]
      /\ \A k \in 1..(n + 1) : k \in 1..n \/ k = n + 1
      /\ n + 1 \in 1..(n + 1) /\ ds[n + 1] = c
  BY OneClaimMore
<1>2. /\ g.addr = c.addr /\ g.name = c.name /\ g.source = c.source /\ g.code_size = c.size
      /\ g.aliases = <<>> /\ DOMAIN <<>> = {} /\ g \in FunctionRecords
  BY DEF NewFunction, FunctionRecords, ClaimRecords
<1> HIDE DEF n, ds, g
<1>3. \A l \in DOMAIN ds : ds[l].addr = c.addr => l = n + 1
  BY <1>1
<1>4. IsMerge(g, ds)
  <2>1. \E k \in DOMAIN ds :
          /\ ds[k].addr = g.addr
          /\ \A l \in DOMAIN ds : ds[l].addr = g.addr => k <= l
          /\ g.name = ds[k].name /\ g.source = ds[k].source /\ g.code_size = ds[k].size
    <3>1. n + 1 \in DOMAIN ds /\ \A l \in DOMAIN ds : ds[l].addr = g.addr => n + 1 <= l
      BY <1>1, <1>2, <1>3
    <3> QED
      BY <3>1, <1>1, <1>2
  <2>2. \A k \in DOMAIN ds : ds[k].addr = g.addr => ds[k].name = g.name
    BY <1>1, <1>2, <1>3
  <2> QED
    BY <2>1, <2>2, <1>2 DEF IsMerge
<1> QED
  BY <1>2, <1>4 DEF ds, g

\* Add, of a dictionary that is an argument.
AddTo(fs, c) ==
  LET places == {i \in DOMAIN fs : fs[i].addr = c.addr} IN
  IF places = {} THEN Append(fs, NewFunction(c))
  ELSE [i \in DOMAIN fs |->
          IF i \in places /\ c.name # fs[i].name /\ c.name \notin Range(fs[i].aliases)
          THEN [fs[i] EXCEPT !.aliases = Append(@, c.name)]
          ELSE fs[i]]

\* Adding a claim to the merge of those before it gives the merge with it.
LEMMA AddMerges ==
  ASSUME NEW cs \in Seq(ClaimRecords), NEW c \in ClaimRecords,
         NEW fs \in Seq(FunctionRecords), Merges(cs, fs)
  PROVE  /\ AddTo(fs, c) \in Seq(FunctionRecords)
         /\ Merges(Append(cs, c), AddTo(fs, c))
<1> DEFINE n == Len(cs)
           ds == Append(cs, c)
           places == {i \in DOMAIN fs : fs[i].addr = c.addr}
<1>1. /\ DOMAIN cs = 1..n /\ n \in Nat /\ DOMAIN ds = 1..(n + 1)
      /\ \A k \in 1..n : k \in 1..(n + 1) /\ ds[k] = cs[k]
      /\ \A k \in 1..(n + 1) : k \in 1..n \/ k = n + 1
      /\ n + 1 \in 1..(n + 1) /\ ds[n + 1] = c
  BY OneClaimMore
<1>d. ds \in Seq(ClaimRecords)
  BY OneClaimMore
<1>m. /\ \A i, j \in DOMAIN fs : fs[i].addr = fs[j].addr => i = j
      /\ \A k \in DOMAIN cs : \E i \in DOMAIN fs : fs[i].addr = cs[k].addr
      /\ \A i \in DOMAIN fs : IsMerge(fs[i], cs) /\ fs[i] \in FunctionRecords
  BY DEF Merges
<1>2. CASE places = {}
  <2> DEFINE g == NewFunction(c)
             q == Len(fs)
             gs == Append(fs, g)
  <2>1. \A k \in DOMAIN cs : cs[k].addr # c.addr
    BY <1>2, <1>m
  <2>2. g \in FunctionRecords /\ g.addr = c.addr /\ IsMerge(g, ds)
    BY <2>1, MergeOfAFirst
  <2> HIDE DEF g, ds
  <2>3. /\ gs \in Seq(FunctionRecords)
        /\ DOMAIN fs = 1..q /\ q \in Nat /\ DOMAIN gs = 1..(q + 1)
        /\ \A k \in 1..q : k \in 1..(q + 1) /\ gs[k] = fs[k]
        /\ \A k \in 1..(q + 1) : k \in 1..q \/ k = q + 1
        /\ q + 1 \in 1..(q + 1) /\ gs[q + 1] = g
    BY <2>2, OneClaimMore
  <2> HIDE DEF gs, q
  <2>4. \A i \in 1..q : IsMerge(fs[i], ds)
    <3>1. ASSUME NEW i \in 1..q
          PROVE  IsMerge(fs[i], ds)
      <4>1. fs[i] \in FunctionRecords /\ IsMerge(fs[i], cs) /\ c.addr # fs[i].addr
        BY <2>3, <1>m, <1>2
      <4> QED
        BY <4>1, MergeOfTheSame DEF ds
    <3> QED
      BY <3>1
  <2>5. \A i \in 1..q : fs[i].addr # c.addr
    BY <1>2, <2>3
  <2>6. \A i, j \in DOMAIN gs : gs[i].addr = gs[j].addr => i = j
    BY <2>2, <2>3, <2>5, <1>m
  <2>7. \A k \in DOMAIN ds : \E i \in DOMAIN gs : gs[i].addr = ds[k].addr
    <3>1. ASSUME NEW k \in DOMAIN ds
          PROVE  \E i \in DOMAIN gs : gs[i].addr = ds[k].addr
      <4>1. CASE k \in 1..n
        <5>1. PICK i \in DOMAIN fs : fs[i].addr = cs[k].addr
          BY <4>1, <1>1, <1>m
        <5> QED
          BY <5>1, <4>1, <1>1, <2>3
      <4>2. CASE k = n + 1
        BY <4>2, <1>1, <2>2, <2>3
      <4> QED
        BY <4>1, <4>2, <1>1
    <3> QED
      BY <3>1
  <2>8. \A i \in DOMAIN gs : IsMerge(gs[i], ds)
    BY <2>2, <2>3, <2>4
  <2>9. Merges(ds, gs)
    BY <2>6, <2>7, <2>8 DEF Merges
  <2>10. AddTo(fs, c) = gs
    BY <1>2 DEF AddTo, gs, g
  <2> QED
    BY <2>3, <2>9, <2>10 DEF ds
<1>3. CASE places # {}
  <2> DEFINE Alias(i) == c.name # fs[i].name /\ c.name \notin Range(fs[i].aliases)
             gs == [i \in DOMAIN fs |-> IF i \in places /\ Alias(i)
                      THEN [fs[i] EXCEPT !.aliases = Append(@, c.name)] ELSE fs[i]]
  <2>1. ASSUME NEW i \in DOMAIN fs
        PROVE  gs[i] \in FunctionRecords /\ gs[i].addr = fs[i].addr /\ IsMerge(gs[i], ds)
    <3>1. fs[i] \in FunctionRecords /\ IsMerge(fs[i], cs)
      BY <1>m
    <3>2. CASE i \in places /\ Alias(i)
      <4> DEFINE g == [fs[i] EXCEPT !.aliases = Append(@, c.name)]
      <4>1. gs[i] = g
        BY <3>2
      <4>2. /\ c.addr = fs[i].addr /\ c.name # fs[i].name
            /\ \A a \in DOMAIN fs[i].aliases : fs[i].aliases[a] # c.name
        BY <3>2 DEF Range
      <4>3. g \in FunctionRecords /\ IsMerge(g, ds)
        BY <3>1, <4>2, MergeOfAnAlias
      <4>4. g.addr = fs[i].addr
        BY <3>1 DEF FunctionRecords
      <4> QED
        BY <4>1, <4>3, <4>4
    <3>3. CASE ~(i \in places /\ Alias(i))
      <4>1. gs[i] = fs[i]
        BY <3>3
      <4>2. \/ c.addr # fs[i].addr
            \/ c.name = fs[i].name \/ \E a \in DOMAIN fs[i].aliases : fs[i].aliases[a] = c.name
        BY <3>3 DEF Range
      <4>3. IsMerge(fs[i], ds)
        BY <3>1, <4>2, MergeOfTheSame
      <4> QED
        BY <4>1, <4>3, <3>1
    <3> QED
      BY <3>2, <3>3
  <2>2. AddTo(fs, c) = gs
    BY <1>3 DEF AddTo
  <2>3. DOMAIN gs = DOMAIN fs /\ gs = [i \in DOMAIN fs |-> gs[i]]
    OBVIOUS
  <2>p. PICK i0 \in DOMAIN fs : fs[i0].addr = c.addr
    BY <1>3
  <2> HIDE DEF gs, ds, places
  <2>4. gs \in Seq(FunctionRecords)
    <3>1. DOMAIN fs = 1..Len(fs) /\ Len(fs) \in Nat
      OBVIOUS
    <3> QED
      BY <3>1, <2>1, <2>3
  <2>5. \A i, j \in DOMAIN gs : gs[i].addr = gs[j].addr => i = j
    BY <2>1, <2>3, <1>m
  <2>6. \A k \in DOMAIN ds : \E i \in DOMAIN gs : gs[i].addr = ds[k].addr
    <3>1. ASSUME NEW k \in DOMAIN ds
          PROVE  \E i \in DOMAIN gs : gs[i].addr = ds[k].addr
      <4>1. CASE k \in 1..n
        <5>1. PICK i \in DOMAIN fs : fs[i].addr = cs[k].addr
          BY <4>1, <1>1, <1>m
        <5> QED
          BY <5>1, <4>1, <1>1, <2>1, <2>3
      <4>2. CASE k = n + 1
        BY <4>2, <1>1, <2>1, <2>3, <2>p
      <4> QED
        BY <4>1, <4>2, <1>1
    <3> QED
      BY <3>1
  <2>7. Merges(ds, gs)
    BY <2>1, <2>3, <2>5, <2>6 DEF Merges
  <2> QED
    BY <2>2, <2>4, <2>7 DEF ds
<1> QED
  BY <1>2, <1>3

\* The records of a module, the modules, the publics and the sections of a file.
SymbolRecords == [kind : {"proc", "thunk"}, addr : Nat \X Nat, name : Nat, size : Nat,
                  short : BOOLEAN]
ModuleRecords == [state : {"whole", "nil", "damaged"}, records : Seq(SymbolRecords)]
PublicRecords == [addr : Nat \X Nat, name : Nat, is_function : BOOLEAN,
                  record_offset : Nat, short : BOOLEAN]
SectionRecords == [base : Nat, executable : BOOLEAN]

\* What ListedFiles allows, of the file that is listed.
LEMMA FileFits ==
  ASSUME listed_file \in ListedFiles
  PROVE  /\ listed_file.modules \in Seq(ModuleRecords)
         /\ listed_file.publics \in Seq(PublicRecords)
         /\ listed_file.addr_map \in Seq(Nat)
         /\ listed_file.sections \in Seq(SectionRecords)
BY ListedFilesAssumption DEF Fits, SectionRecords, ModuleRecords, SymbolRecords, PublicRecords

\* The records of a kind are claims, of one module,
LEMMA ExtractGivesClaims ==
  ASSUME NEW records \in Seq(SymbolRecords), NEW kind \in {"proc", "thunk"}
  PROVE  Extract(records, kind) \in Seq(ClaimRecords)
<1> DEFINE s == [i \in DOMAIN records |->
                   IF records[i].kind = kind /\ ~records[i].short
                   THEN <<Claim(records[i], kind, records[i].size)>> ELSE <<>>]
<1>1. ASSUME NEW i \in DOMAIN records
      PROVE  s[i] \in Seq(ClaimRecords)
  <2>1. records[i] \in SymbolRecords
    BY <1>1
  <2>2. Claim(records[i], kind, records[i].size) \in ClaimRecords
    BY <2>1 DEF Claim, ClaimRecords, SymbolRecords, Sources
  <2> HIDE DEF ClaimRecords
  <2> QED
    BY <2>2
<1>2. DOMAIN records = 1..Len(records) /\ Len(records) \in Nat
  OBVIOUS
<1>3. s \in [1..Len(records) -> Seq(ClaimRecords)]
  BY <1>1, <1>2
<1> HIDE DEF s
<1>4. FlattenSeq(s) \in Seq(ClaimRecords)
  BY <1>2, <1>3, FlattenIsSeq
<1> QED
  BY <1>4 DEF Extract, s

\* of a module of the file, whatever its state,
LEMMA ModulesGiveClaims ==
  ASSUME listed_file \in ListedFiles, NEW m \in DOMAIN listed_file.modules,
         NEW kind \in {"proc", "thunk"}
  PROVE  Extract(RecordsOf(listed_file.modules[m]), kind) \in Seq(ClaimRecords)
<1>1. listed_file.modules[m] \in ModuleRecords
  BY FileFits
<1>2. RecordsOf(listed_file.modules[m]) \in Seq(SymbolRecords)
  <2>1. listed_file.modules[m].records \in Seq(SymbolRecords)
    BY <1>1 DEF ModuleRecords
  <2> QED
    BY <2>1 DEF RecordsOf
<1> QED
  BY <1>2, ExtractGivesClaims

\* The claims of a kind in the first n modules.
Extracts(n, kind) == FlattenSeq([m \in 1..n |-> Extract(RecordsOf(listed_file.modules[m]), kind)])

\* and of the modules up to one, which has what those before it have and its own.
LEMMA ExtractsAreClaims ==
  ASSUME listed_file \in ListedFiles, NEW kind \in {"proc", "thunk"},
         NEW n \in 0..Len(listed_file.modules)
  PROVE  /\ Extracts(n, kind) \in Seq(ClaimRecords)
         /\ Extracts(0, kind) = <<>>
         /\ n > 0 => Extracts(n, kind) =
              Extracts(n - 1, kind) \o Extract(RecordsOf(listed_file.modules[n]), kind)
<1> DEFINE s == [m \in 1..n |-> Extract(RecordsOf(listed_file.modules[m]), kind)]
<1>0. n \in Nat /\ 1..n \subseteq DOMAIN listed_file.modules
  BY FileFits
<1>1. s \in [1..n -> Seq(ClaimRecords)]
  BY <1>0, ModulesGiveClaims
<1>2. Extracts(0, kind) = <<>>
  <2> DEFINE t == [m \in 1..0 |-> Extract(RecordsOf(listed_file.modules[m]), kind)]
  <2>1. Len(t) = 0 /\ t = <<>>
    OBVIOUS
  <2> HIDE DEF t
  <2>2. FlattenSeq(t) = <<>>
    BY <2>1 DEF FlattenSeq
  <2> QED
    BY <2>2 DEF Extracts, t
<1>3. ASSUME n > 0
      PROVE  Extracts(n, kind) = Extracts(n - 1, kind) \o Extract(RecordsOf(listed_file.modules[n]), kind)
  <2> DEFINE t == [i \in 1..(n - 1) |-> s[i]]
             u == [m \in 1..(n - 1) |-> Extract(RecordsOf(listed_file.modules[m]), kind)]
  <2>1. t = u /\ s[n] = Extract(RecordsOf(listed_file.modules[n]), kind) /\ n \in Nat \ {0}
    BY <1>0, <1>3
  <2> HIDE DEF s
  <2>2. FlattenSeq(s) = FlattenSeq(t) \o s[n]
    BY <1>1, <2>1, FlattenOneMore
  <2> QED
    BY <2>1, <2>2 DEF Extracts, s
<1> HIDE DEF s
<1>4. FlattenSeq(s) \in Seq(ClaimRecords)
  BY <1>0, <1>1, FlattenIsSeq
<1> QED
  BY <1>2, <1>3, <1>4 DEF Extracts, s

\* The publics read are publics of the file,
LEMMA ReadableArePublics ==
  ASSUME listed_file \in ListedFiles
  PROVE  ReadablePublics \in Seq(PublicRecords)
<1> DEFINE s == [i \in DOMAIN listed_file.publics |->
                   IF listed_file.publics[i].short THEN <<>> ELSE <<listed_file.publics[i]>>]
<1>0. DOMAIN listed_file.publics = 1..Len(listed_file.publics) /\ Len(listed_file.publics) \in Nat
  BY FileFits
<1>1. ASSUME NEW i \in DOMAIN listed_file.publics
      PROVE  s[i] \in Seq(PublicRecords)
  <2>1. listed_file.publics[i] \in PublicRecords
    BY FileFits
  <2> QED
    BY <2>1
<1>2. s \in [1..Len(listed_file.publics) -> Seq(PublicRecords)]
  BY <1>0, <1>1
<1> HIDE DEF s
<1>3. FlattenSeq(s) \in Seq(PublicRecords)
  BY <1>0, <1>2, FlattenIsSeq
<1> QED
  BY <1>3 DEF ReadablePublics, s

\* The rank of what the address map has is the last place it has it at.
LEMMA RankIsAPlace ==
  ASSUME listed_file \in ListedFiles, NEW off, off \in Range(AddrMap)
  PROVE  Rank(off) \in Nat
<1> DEFINE T == {i \in DOMAIN AddrMap : AddrMap[i] = off}
<1>1. AddrMap \in Seq(Nat)
  BY FileFits DEF AddrMap
<1>2. T \subseteq 0..Len(AddrMap) /\ Len(AddrMap) \in Nat
  BY <1>1
<1>3. T # {}
  BY DEF Range
<1>4. \E x \in T : \A y \in T : y <= x
  <2> HIDE DEF T
  <2> QED
    BY <1>2, <1>3, GreatestNumber
<1>5. \E i \in DOMAIN AddrMap :
        AddrMap[i] = off /\ \A j \in DOMAIN AddrMap : AddrMap[j] = off => j <= i
  BY <1>4
<1>6. Rank(off) \in DOMAIN AddrMap
  BY <1>5 DEF Rank
<1> QED
  BY <1>1, <1>6

\* in whichever order they are listed.
LEMMA PublicSymbolsArePublics ==
  ASSUME listed_file \in ListedFiles
  PROVE  PublicSymbols \in Seq(PublicRecords)
<1> DEFINE pubs == ReadablePublics
           n == Len(pubs)
           before == {p \in (DOMAIN pubs) \X (DOMAIN pubs) :
                       Rank(pubs[p[1]].record_offset) < Rank(pubs[p[2]].record_offset)}
           order == StableOrder(n, before)
<1>1. pubs \in Seq(PublicRecords)
  BY ReadableArePublics
<1>2. DOMAIN pubs = 1..n /\ n \in Nat
  BY <1>1
<1>3. CASE \A i \in DOMAIN pubs : pubs[i].record_offset \in Range(AddrMap)
  <2> DEFINE r(i) == Rank(pubs[i].record_offset)
  <2>1. \A i \in 1..n : r(i) \in Nat
    BY <1>2, <1>3, RankIsAPlace
  <2>2. \A a, b \in 1..n : <<a, b>> \in before <=> r(a) < r(b)
    BY <1>2
  <2> HIDE DEF r, before, n
  <2>3. Compares(n, before)
    BY <2>1, <2>2 DEF Compares
  <2>4. order \in [1..n -> 1..n]
    <3>1. IsOrder(order, n, before)
      BY <1>2, <2>3, StableOrderSorts
    <3> QED
      BY <3>1 DEF IsOrder, StableOrders
  <2>5. [i \in DOMAIN pubs |-> pubs[order[i]]] \in Seq(PublicRecords)
    <3> HIDE DEF order, pubs
    <3>1. \A i \in 1..n : order[i] \in 1..n /\ pubs[order[i]] \in PublicRecords
      BY <1>1, <1>2, <2>4
    <3> QED
      BY <1>2, <3>1
  <2>6. SortedByRank(pubs) \in Seq(PublicRecords)
    BY <2>5 DEF SortedByRank, before, n
  <2> HIDE DEF pubs
  <2> QED
    BY <1>1, <2>6 DEF PublicSymbols, pubs
<1>4. CASE ~ \A i \in DOMAIN pubs : pubs[i].record_offset \in Range(AddrMap)
  BY <1>1, <1>4 DEF PublicSymbols
<1> QED
  BY <1>3, <1>4

\* The claims the publics make.
PublicClaims == ClaimsOf(PublicSymbols)

\* The publics of a file make claims.
LEMMA PublicsGiveClaims ==
  ASSUME listed_file \in ListedFiles
  PROVE  PublicClaims \in Seq(ClaimRecords)
<1> DEFINE pubs == PublicSymbols
           s == [i \in DOMAIN pubs |->
                   IF IsCode(pubs[i]) THEN <<Claim(pubs[i], "public", -1)>> ELSE <<>>]
<1>0. pubs \in Seq(PublicRecords)
  BY PublicSymbolsArePublics
<1> HIDE DEF pubs
<1>1. ASSUME NEW i \in DOMAIN pubs
      PROVE  s[i] \in Seq(ClaimRecords)
  <2>1. pubs[i] \in PublicRecords
    BY <1>0
  <2>2. Claim(pubs[i], "public", -1) \in ClaimRecords
    BY <2>1 DEF Claim, ClaimRecords, PublicRecords, Sources
  <2> HIDE DEF ClaimRecords
  <2> QED
    BY <2>2
<1>2. DOMAIN pubs = 1..Len(pubs) /\ Len(pubs) \in Nat
  BY <1>0
<1>3. s \in [1..Len(pubs) -> Seq(ClaimRecords)]
  BY <1>1, <1>2
<1> HIDE DEF s
<1>4. FlattenSeq(s) \in Seq(ClaimRecords)
  BY <1>2, <1>3, FlattenIsSeq
<1> QED
  BY <1>4 DEF PublicClaims, ClaimsOf, s, pubs

\* All the claims are those of the three phases, one after the other.
LEMMA AllClaimsAre ==
  ASSUME listed_file \in ListedFiles
  PROVE  /\ AllClaims = Extracts(Len(listed_file.modules), "proc") \o PublicClaims
                        \o Extracts(Len(listed_file.modules), "thunk")
         /\ AllClaims \in Seq(ClaimRecords)
<1>1. /\ DOMAIN listed_file.modules = 1..Len(listed_file.modules)
      /\ Len(listed_file.modules) \in 0..Len(listed_file.modules)
  BY FileFits
<1>2. AllClaims = Extracts(Len(listed_file.modules), "proc") \o PublicClaims
                  \o Extracts(Len(listed_file.modules), "thunk")
  BY <1>1 DEF AllClaims, Extracts, PublicClaims
<1>3. /\ Extracts(Len(listed_file.modules), "proc") \in Seq(ClaimRecords)
      /\ Extracts(Len(listed_file.modules), "thunk") \in Seq(ClaimRecords)
      /\ PublicClaims \in Seq(ClaimRecords)
  BY <1>1, ExtractsAreClaims, PublicsGiveClaims
<1> QED
  BY <1>2, <1>3

\* What a listing is made from stays what it is.
LEMMA ClaimsStay ==
  ASSUME UNCHANGED <<listed_file, code_publics>>
  PROVE  AllClaims' = AllClaims /\ AllReadable' = AllReadable
BY DEF AllClaims, AllReadable, Extract, RecordsOf, Claim, ClaimsOf, PublicSymbols, ReadablePublics,
       SortedByRank, Rank, AddrMap, IsCode, IsExecutable

\* KeyLess compares triples of integers as Python compares tuples.
LEMMA KeysCompare ==
  ASSUME NEW a1 \in Int, NEW a2 \in Int, NEW a3 \in Int,
         NEW b1 \in Int, NEW b2 \in Int, NEW b3 \in Int
  PROVE  KeyLess(<<a1, a2, a3>>, <<b1, b2, b3>>) <=>
           \/ a1 < b1
           \/ a1 = b1 /\ a2 < b2
           \/ a1 = b1 /\ a2 = b2 /\ a3 < b3
<1> DEFINE a == <<a1, a2, a3>>
           b == <<b1, b2, b3>>
           Before(k) == a[k] < b[k] /\ \A l \in 1..(k - 1) : a[l] = b[l]
<1>1. DOMAIN a = {1, 2, 3} /\ 1..(1 - 1) = {} /\ 1..(2 - 1) = {1} /\ 1..(3 - 1) = {1, 2}
  OBVIOUS
<1>2. a[1] = a1 /\ a[2] = a2 /\ a[3] = a3 /\ b[1] = b1 /\ b[2] = b2 /\ b[3] = b3
  OBVIOUS
<1> HIDE DEF a, b
<1>3. /\ Before(1) <=> a1 < b1
      /\ Before(2) <=> a1 = b1 /\ a2 < b2
      /\ Before(3) <=> a1 = b1 /\ a2 = b2 /\ a3 < b3
  BY <1>1, <1>2
<1>4. KeyLess(a, b) <=> Before(1) \/ Before(2) \/ Before(3)
  <2>1. KeyLess(a, b) <=> \E k \in DOMAIN a : Before(k)
    BY DEF KeyLess
  <2> HIDE DEF Before
  <2> QED
    BY <2>1, <1>1
<1> QED
  BY <1>3, <1>4 DEF a, b

\* The parts of a key, which are numbers.
NoRvaRank(f) == IF Rva(f.addr) = NoRva THEN 1 ELSE 0
RvaRank(f) == IF Rva(f.addr) = NoRva THEN 0 ELSE Rva(f.addr)

\* A key is a triple of numbers.
LEMMA KeysAreNumbers ==
  ASSUME listed_file \in ListedFiles, NEW f \in FunctionRecords
  PROVE  /\ Key(f) = <<NoRvaRank(f), RvaRank(f), f.name>>
         /\ NoRvaRank(f) \in Int /\ RvaRank(f) \in Int /\ f.name \in Int
         /\ Rva(f.addr) \in Int
<1>1. f.addr \in Nat \X Nat /\ f.name \in Int
  BY DEF FunctionRecords
<1>2. Rva(f.addr) \in Int
  <2>1. ASSUME NEW s \in DOMAIN listed_file.sections
        PROVE  listed_file.sections[s].base \in Nat
    <3>1. listed_file.sections[s] \in SectionRecords
      BY FileFits
    <3> QED
      BY <3>1 DEF SectionRecords
  <2> QED
    BY <1>1, <2>1 DEF Rva, NoRva
<1> QED
  BY <1>1, <1>2 DEF Key, NoRvaRank, RvaRank

\* The listing is the dictionary's functions in the order of a stable sort.
LEMMA SortedIsAnOrder ==
  ASSUME listed_file \in ListedFiles, seen \in Seq(FunctionRecords)
  PROVE  \E order \in [DOMAIN seen -> DOMAIN seen] :
           /\ Sorted = [i \in DOMAIN seen |-> seen[order[i]]]
           /\ \A k \in DOMAIN seen : \E i \in DOMAIN seen : order[i] = k
           /\ \A i, j \in DOMAIN seen : i < j =>
                order[i] # order[j] /\ ~KeyLess(Key(seen[order[j]]), Key(seen[order[i]]))
<1> DEFINE n == Len(seen)
           before == {p \in (DOMAIN seen) \X (DOMAIN seen) :
                       KeyLess(Key(seen[p[1]]), Key(seen[p[2]]))}
           order == StableOrder(n, before)
<1>1. DOMAIN seen = 1..n /\ n \in Nat /\ \A i \in 1..n : seen[i] \in FunctionRecords
  OBVIOUS
<1>2. \A a, b \in 1..n : <<a, b>> \in before <=> KeyLess(Key(seen[a]), Key(seen[b]))
  BY <1>1
<1> DEFINE K1(a) == NoRvaRank(seen[a])
           K2(a) == RvaRank(seen[a])
           K3(a) == seen[a].name
<1>3. ASSUME NEW a \in 1..n
      PROVE  /\ Key(seen[a]) = <<K1(a), K2(a), K3(a)>>
             /\ K1(a) \in Int /\ K2(a) \in Int /\ K3(a) \in Int
  BY <1>1, KeysAreNumbers
<1> HIDE DEF before, n, K1, K2, K3
<1>4. \A a, b \in 1..n : <<a, b>> \in before <=>
        \/ K1(a) < K1(b)
        \/ K1(a) = K1(b) /\ K2(a) < K2(b)
        \/ K1(a) = K1(b) /\ K2(a) = K2(b) /\ K3(a) < K3(b)
  <2>1. ASSUME NEW a \in 1..n, NEW b \in 1..n
        PROVE  KeyLess(<<K1(a), K2(a), K3(a)>>, <<K1(b), K2(b), K3(b)>>) <=>
                 \/ K1(a) < K1(b)
                 \/ K1(a) = K1(b) /\ K2(a) < K2(b)
                 \/ K1(a) = K1(b) /\ K2(a) = K2(b) /\ K3(a) < K3(b)
    BY <1>3, KeysCompare
  <2> QED
    BY <2>1, <1>2, <1>3
<1>5. Compares(n, before)
  <2>1. ASSUME NEW a \in 1..n, NEW b \in 1..n, <<a, b>> \in before, <<b, a>> \in before
        PROVE  FALSE
    BY <2>1, <1>3, <1>4
  <2>2. ASSUME NEW a \in 1..n, NEW b \in 1..n, NEW c \in 1..n, <<a, c>> \in before
        PROVE  <<a, b>> \in before \/ <<b, c>> \in before
    <3>1. /\ K1(a) \in Int /\ K2(a) \in Int /\ K3(a) \in Int
          /\ K1(b) \in Int /\ K2(b) \in Int /\ K3(b) \in Int
          /\ K1(c) \in Int /\ K2(c) \in Int /\ K3(c) \in Int
      BY <1>3
    <3>2. \/ K1(a) < K1(c)
          \/ K1(a) = K1(c) /\ K2(a) < K2(c)
          \/ K1(a) = K1(c) /\ K2(a) = K2(c) /\ K3(a) < K3(c)
      BY <2>2, <1>4
    <3>3. \/ K1(a) < K1(b)
          \/ K1(a) = K1(b) /\ K2(a) < K2(b)
          \/ K1(a) = K1(b) /\ K2(a) = K2(b) /\ K3(a) < K3(b)
          \/ K1(b) < K1(c)
          \/ K1(b) = K1(c) /\ K2(b) < K2(c)
          \/ K1(b) = K1(c) /\ K2(b) = K2(c) /\ K3(b) < K3(c)
      BY <3>1, <3>2
    <3> QED
      BY <3>3, <1>4
  <2> QED
    BY <2>1, <2>2 DEF Compares
<1>6. IsOrder(order, n, before)
  BY <1>1, <1>5, StableOrderSorts
<1>7. /\ order \in [1..n -> 1..n]
      /\ \A k \in 1..n : \E i \in 1..n : order[i] = k
      /\ \A i, j \in 1..n : i < j =>
           /\ <<order[j], order[i]>> \notin before
           /\ <<order[i], order[j]>> \in before \/ order[i] < order[j]
  BY <1>6 DEF IsOrder, StableOrders
<1>8. \A a \in 1..n : <<a, a>> \notin before
  BY <1>5 DEF Compares
<1>9. Sorted = [i \in DOMAIN seen |-> seen[order[i]]]
  BY DEF Sorted, before, n
<1> HIDE DEF order
<1>10. \A i, j \in 1..n : i < j =>
         order[i] # order[j] /\ ~KeyLess(Key(seen[order[j]]), Key(seen[order[i]]))
  <2>1. ASSUME NEW i \in 1..n, NEW j \in 1..n, i < j
        PROVE  order[i] # order[j] /\ ~KeyLess(Key(seen[order[j]]), Key(seen[order[i]]))
    <3>1. order[i] \in 1..n /\ order[j] \in 1..n
      BY <1>7
    <3>2. /\ <<order[j], order[i]>> \notin before
          /\ <<order[i], order[j]>> \in before \/ order[i] < order[j]
      BY <1>7, <2>1
    <3>3. order[i] # order[j]
      BY <3>1, <3>2, <1>8
    <3> QED
      BY <3>1, <3>2, <3>3, <1>2
  <2> QED
    BY <2>1
<1> QED
  BY <1>1, <1>7, <1>9, <1>10

\* The claims of the phases up to one.
ClaimsUpTo(ph) ==
  CASE ph = "procs" -> Extracts(Len(listed_file.modules), "proc")
    [] ph = "publics" -> Extracts(Len(listed_file.modules), "proc") \o PublicClaims
    [] OTHER -> AllClaims

\* The claims that have been added and those that are still to come make up
\* the claims of the phases begun so far, and the dictionary is the merge of
\* the former.
Progress(added) ==
  /\ added \in Seq(ClaimRecords)
  /\ added \o todo = ClaimsUpTo(phase)
  /\ Merges(added, seen)

FunctionsInv ==
  /\ listed_file \in ListedFiles /\ code_publics \in BOOLEAN
  /\ phase \in {"modules", "procs", "publics", "thunks", "returned", "refused"}
  /\ walked \in 0..Len(listed_file.modules)
  /\ \A m \in 1..walked : listed_file.modules[m].state # "damaged"
  /\ procedures = Extracts(walked, "proc") /\ thunks = Extracts(walked, "thunk")
  /\ phase \notin {"modules", "refused"} => walked = Len(listed_file.modules)
  /\ phase \in {"publics", "thunks"} => listed_file.symrecords # "damaged"
  /\ phase \in {"modules", "returned", "refused"} => todo = <<>>
  /\ phase = "modules" => seen = <<>>
  /\ phase \in {"procs", "publics", "thunks"} => \E added : Progress(added)
  /\ todo \in Seq(ClaimRecords) /\ seen \in Seq(FunctionRecords)

\* It holds before the first module is walked.
LEMMA FunctionsInvInit == FunctionsInit => FunctionsInv
<1> SUFFICES ASSUME FunctionsInit PROVE FunctionsInv
  OBVIOUS
<1>1. listed_file \in ListedFiles /\ listed_file.modules \in Seq(ModuleRecords)
  BY FileFits DEF FunctionsInit
<1>2. 0 \in 0..Len(listed_file.modules) /\ 1..0 = {}
  BY <1>1
<1>3. Extracts(0, "proc") = <<>> /\ Extracts(0, "thunk") = <<>>
  BY <1>1, <1>2, ExtractsAreClaims
<1>4. <<>> \in Seq(ClaimRecords) /\ <<>> \in Seq(FunctionRecords)
  OBVIOUS
<1> QED
  BY <1>1, <1>2, <1>3, <1>4 DEF FunctionsInit, FunctionsInv

\* The inductive invariant is kept, one step per action.
LEMMA WalkKeeps == FunctionsInv /\ WalkModule => FunctionsInv'
<1> SUFFICES ASSUME FunctionsInv, WalkModule PROVE FunctionsInv'
  OBVIOUS
<1> DEFINE n == walked + 1
           module == listed_file.modules[n]
<1>1. /\ listed_file \in ListedFiles /\ phase = "modules" /\ walked < Len(listed_file.modules)
      /\ walked \in 0..Len(listed_file.modules) /\ Len(listed_file.modules) \in Nat
      /\ todo = <<>> /\ seen = <<>>
  BY FileFits DEF FunctionsInv, WalkModule
<1>2. CASE module.state = "damaged"
  <2>1. /\ phase' = "refused"
        /\ UNCHANGED <<listed_file, code_publics, walked, procedures, thunks, publics, todo, seen>>
    BY <1>2 DEF WalkModule, Refuse
  <2>2. /\ Extracts(walked, "proc")' = Extracts(walked, "proc")
        /\ Extracts(walked, "thunk")' = Extracts(walked, "thunk")
    BY <2>1 DEF Extracts, RecordsOf, Extract, Claim
  <2> QED
    BY <1>1, <2>1, <2>2 DEF FunctionsInv
<1>3. CASE module.state # "damaged"
  <2>1. /\ walked' = n
        /\ procedures' = procedures \o Extract(RecordsOf(module), "proc")
        /\ thunks' = thunks \o Extract(RecordsOf(module), "thunk")
        /\ UNCHANGED <<listed_file, code_publics, phase, publics, todo, seen>>
    BY <1>3 DEF WalkModule
  <2>2. n \in 0..Len(listed_file.modules) /\ n > 0 /\ n - 1 = walked
    BY <1>1
  <2>3. /\ Extracts(n, "proc") = procedures \o Extract(RecordsOf(module), "proc")
        /\ Extracts(n, "thunk") = thunks \o Extract(RecordsOf(module), "thunk")
    BY <1>1, <2>2, ExtractsAreClaims DEF FunctionsInv
  <2>4. /\ Extracts(walked, "proc")' = Extracts(n, "proc")
        /\ Extracts(walked, "thunk")' = Extracts(n, "thunk")
    <3> HIDE DEF n, module
    <3>1. walked' = n /\ listed_file' = listed_file
      BY <2>1
    <3> QED
      BY <3>1 DEF Extracts, RecordsOf, Extract, Claim
  <2>5. \A m \in 1..n : listed_file.modules[m].state # "damaged"
    <3>1. \A m \in 1..n : m \in 1..walked \/ m = n
      BY <1>1
    <3> QED
      BY <3>1, <1>3 DEF FunctionsInv
  <2> HIDE DEF n
  <2> QED
    BY <1>1, <2>1, <2>2, <2>3, <2>4, <2>5 DEF FunctionsInv
<1> QED
  BY <1>2, <1>3

\* No claims have been added, and the dictionary is empty.
LEMMA NothingMerges == Merges(<<>>, <<>>)
BY DEF Merges

\* What FunctionsInv says of the walk and the listed file, which the steps after the
\* walk leave as it is.
Walked ==
  /\ listed_file \in ListedFiles /\ code_publics \in BOOLEAN
  /\ walked = Len(listed_file.modules)
  /\ walked \in 0..Len(listed_file.modules)
  /\ \A m \in 1..walked : listed_file.modules[m].state # "damaged"
  /\ procedures = Extracts(walked, "proc") /\ thunks = Extracts(walked, "thunk")

\* These stay while none of their variables changes.
LEMMA WalkedStays ==
  ASSUME UNCHANGED <<listed_file, code_publics, walked, procedures, thunks>>
  PROVE  /\ Walked' = Walked
         /\ ClaimsUpTo("procs")' = ClaimsUpTo("procs")
         /\ ClaimsUpTo("publics")' = ClaimsUpTo("publics")
         /\ ClaimsUpTo("thunks")' = ClaimsUpTo("thunks")
         /\ PublicClaims' = PublicClaims
<1>1. AllClaims' = AllClaims
  BY ClaimsStay
<1>2. \A n, kind : Extracts(n, kind)' = Extracts(n, kind)
  BY DEF Extracts, RecordsOf, Extract, Claim
<1>3. PublicClaims' = PublicClaims
  BY DEF PublicClaims, Claim, ClaimsOf, PublicSymbols, ReadablePublics,
         SortedByRank, Rank, AddrMap, IsCode, IsExecutable
<1>4. Walked' = Walked
  BY DEF Walked, Extracts, RecordsOf, Extract, Claim
<1>5. Extracts(Len(listed_file.modules), "proc")' = Extracts(Len(listed_file.modules), "proc")
  BY DEF Extracts, RecordsOf, Extract, Claim
<1> QED
  BY <1>1, <1>3, <1>4, <1>5 DEF ClaimsUpTo

\* The procedures of all modules are the claims of the first phase.
LEMMA BeginProcsKeeps == FunctionsInv /\ BeginProcs => FunctionsInv'
<1> SUFFICES ASSUME FunctionsInv, BeginProcs PROVE FunctionsInv'
  OBVIOUS
<1>1. /\ Walked /\ phase = "modules" /\ phase' = "procs"
      /\ todo' = procedures /\ seen = <<>> /\ seen' = <<>>
      /\ UNCHANGED <<listed_file, code_publics, walked, procedures, thunks, publics, seen>>
  BY DEF FunctionsInv, Walked, BeginProcs
<1>2. Walked' /\ ClaimsUpTo("procs")' = ClaimsUpTo("procs")
  BY <1>1, WalkedStays
<1>3. ClaimsUpTo("procs") = procedures /\ procedures \in Seq(ClaimRecords)
  BY <1>1, ExtractsAreClaims DEF ClaimsUpTo, Walked
<1>4. \E added : Progress(added)'
  <2>1. <<>> \in Seq(ClaimRecords) /\ <<>> \o procedures = procedures
    BY <1>3
  <2>2. (<<>> \o todo = ClaimsUpTo(phase))'
    BY <1>1, <1>2, <1>3, <2>1 DEF ClaimsUpTo
  <2>3. Progress(<<>>)'
    BY <1>1, <2>1, <2>2, NothingMerges DEF Progress
  <2> QED
    BY <2>3
<1>5. todo' \in Seq(ClaimRecords) /\ seen' \in Seq(FunctionRecords)
  BY <1>1, <1>3
<1> QED
  BY <1>1, <1>2, <1>4, <1>5 DEF FunctionsInv, Walked

\* After the walk, the claims of each phase are what has been collected for it.
LEMMA ClaimsUpToAre ==
  ASSUME Walked
  PROVE  /\ ClaimsUpTo("procs") = procedures /\ ClaimsUpTo("procs") \in Seq(ClaimRecords)
         /\ ClaimsUpTo("publics") = ClaimsUpTo("procs") \o PublicClaims
         /\ ClaimsUpTo("publics") \in Seq(ClaimRecords) /\ PublicClaims \in Seq(ClaimRecords)
         /\ ClaimsUpTo("thunks") = ClaimsUpTo("publics") \o thunks
         /\ ClaimsUpTo("thunks") = AllClaims
         /\ ClaimsUpTo("thunks") \in Seq(ClaimRecords) /\ thunks \in Seq(ClaimRecords)
<1>1. /\ procedures = Extracts(Len(listed_file.modules), "proc")
      /\ thunks = Extracts(Len(listed_file.modules), "thunk")
      /\ Len(listed_file.modules) \in 0..Len(listed_file.modules)
  BY DEF Walked
<1>2. procedures \in Seq(ClaimRecords) /\ thunks \in Seq(ClaimRecords)
  BY <1>1, ExtractsAreClaims DEF Walked
<1>3. PublicClaims \in Seq(ClaimRecords)
  BY PublicsGiveClaims DEF Walked
<1>4. AllClaims = procedures \o PublicClaims \o thunks /\ AllClaims \in Seq(ClaimRecords)
  BY <1>1, AllClaimsAre DEF Walked
<1>5. /\ ClaimsUpTo("procs") = procedures
      /\ ClaimsUpTo("publics") = procedures \o PublicClaims
      /\ ClaimsUpTo("thunks") = AllClaims
  BY <1>1 DEF ClaimsUpTo
<1>6. procedures \o PublicClaims \in Seq(ClaimRecords)
  BY <1>2, <1>3
<1> QED
  BY <1>2, <1>3, <1>4, <1>5, <1>6

\* The claims up to a phase are of the file alone.
LEMMA ClaimsUpToStay ==
  ASSUME UNCHANGED <<listed_file, code_publics, phase>>
  PROVE  ClaimsUpTo(phase)' = ClaimsUpTo(phase)
<1>1. AllClaims' = AllClaims
  BY ClaimsStay
<1>2. /\ Extracts(Len(listed_file.modules), "proc")' = Extracts(Len(listed_file.modules), "proc")
      /\ PublicClaims' = PublicClaims
  BY DEF Extracts, RecordsOf, Extract, PublicClaims, Claim, ClaimsOf, PublicSymbols,
         ReadablePublics, SortedByRank, Rank, AddrMap, IsCode, IsExecutable
<1> QED
  BY <1>1, <1>2 DEF ClaimsUpTo

\* The publics are claims after the procedures,
LEMMA BeginPublicsKeeps == FunctionsInv /\ BeginPublics => FunctionsInv'
<1> SUFFICES ASSUME FunctionsInv, BeginPublics PROVE FunctionsInv'
  OBVIOUS
<1>1. Walked /\ phase = "procs" /\ todo = <<>> /\ seen \in Seq(FunctionRecords)
  BY DEF FunctionsInv, Walked, BeginPublics
<1>2. CASE listed_file.symrecords = "damaged"
  <2>1. /\ phase' = "refused"
        /\ UNCHANGED <<listed_file, code_publics, walked, procedures, thunks, publics, todo, seen>>
    BY <1>2 DEF BeginPublics, Refuse
  <2>2. Walked'
    BY <1>1, <2>1, WalkedStays
  <2> QED
    BY <1>1, <2>1, <2>2 DEF FunctionsInv, Walked
<1>3. CASE listed_file.symrecords # "damaged"
  <2>1. /\ phase' = "publics" /\ publics' = PublicSymbols
        /\ todo' = ClaimsOf(publics')
        /\ UNCHANGED <<listed_file, code_publics, walked, procedures, thunks, seen>>
    BY <1>3 DEF BeginPublics
  <2>2. Walked' /\ ClaimsUpTo("publics")' = ClaimsUpTo("publics")
    BY <1>1, <2>1, WalkedStays
  <2>3. todo' = PublicClaims
    BY <2>1 DEF PublicClaims
  <2>4. PICK added : Progress(added)
    BY <1>1 DEF FunctionsInv
  <2>5. added \in Seq(ClaimRecords) /\ added \o <<>> = ClaimsUpTo("procs") /\ Merges(added, seen)
    BY <1>1, <2>4 DEF Progress
  <2>6. added \o PublicClaims = ClaimsUpTo("publics") /\ PublicClaims \in Seq(ClaimRecords)
    BY <1>1, <2>5, NextClaims, ClaimsUpToAre
  <2>7. ClaimsUpTo(phase)' = ClaimsUpTo("publics")'
    BY <2>1
  <2>8. Progress(added)'
    BY <2>1, <2>2, <2>3, <2>5, <2>6, <2>7 DEF Progress
  <2>9. \E d : Progress(d)'
    BY <2>8
  <2> QED
    BY <1>1, <1>3, <2>1, <2>2, <2>3, <2>6, <2>9 DEF FunctionsInv, Walked
<1> QED
  BY <1>2, <1>3

\* the thunks after the publics.
LEMMA BeginThunksKeeps == FunctionsInv /\ BeginThunks => FunctionsInv'
<1> SUFFICES ASSUME FunctionsInv, BeginThunks PROVE FunctionsInv'
  OBVIOUS
<1>1. /\ Walked /\ phase = "publics" /\ todo = <<>> /\ seen \in Seq(FunctionRecords)
      /\ listed_file.symrecords # "damaged"
  BY DEF FunctionsInv, Walked, BeginThunks
<1>2. /\ phase' = "thunks" /\ todo' = thunks
      /\ UNCHANGED <<listed_file, code_publics, walked, procedures, thunks, publics, seen>>
  BY DEF BeginThunks
<1>3. Walked' /\ ClaimsUpTo("thunks")' = ClaimsUpTo("thunks")
  BY <1>1, <1>2, WalkedStays
<1>4. PICK added : Progress(added)
  BY <1>1 DEF FunctionsInv
<1>5. added \in Seq(ClaimRecords) /\ added \o <<>> = ClaimsUpTo("publics") /\ Merges(added, seen)
  BY <1>1, <1>4 DEF Progress
<1>6. added \o thunks = ClaimsUpTo("thunks") /\ thunks \in Seq(ClaimRecords)
  BY <1>1, <1>5, NextClaims, ClaimsUpToAre
<1>7. ClaimsUpTo(phase)' = ClaimsUpTo("thunks")'
  BY <1>2
<1>8. Progress(added)'
  BY <1>2, <1>3, <1>5, <1>6, <1>7 DEF Progress
<1>9. \E d : Progress(d)'
  BY <1>8
<1> QED
  BY <1>1, <1>2, <1>3, <1>6, <1>9 DEF FunctionsInv, Walked

\* A claim added is a claim merged.
LEMMA AddNextKeeps == FunctionsInv /\ AddNext => FunctionsInv'
<1> SUFFICES ASSUME FunctionsInv, AddNext PROVE FunctionsInv'
  OBVIOUS
<1>1. /\ phase \in {"procs", "publics", "thunks"} /\ todo # <<>>
      /\ todo \in Seq(ClaimRecords) /\ seen \in Seq(FunctionRecords)
  BY DEF FunctionsInv, AddNext
<1>2. /\ Walked
      /\ phase \in {"publics", "thunks"} => listed_file.symrecords # "damaged"
  BY <1>1 DEF FunctionsInv, Walked
<1>3. /\ seen' = AddTo(seen, Head(todo)) /\ todo' = Tail(todo)
      /\ UNCHANGED <<listed_file, code_publics, phase, walked, procedures, thunks, publics>>
  BY DEF AddNext, Add, AddTo
<1>4. Walked' /\ ClaimsUpTo(phase)' = ClaimsUpTo(phase)
  <2>1. /\ Walked' /\ ClaimsUpTo("procs")' = ClaimsUpTo("procs")
        /\ ClaimsUpTo("publics")' = ClaimsUpTo("publics")
        /\ ClaimsUpTo("thunks")' = ClaimsUpTo("thunks")
    BY <1>2, <1>3, WalkedStays
  <2>2. ClaimsUpTo(phase)' = ClaimsUpTo(phase)
    BY <1>3, ClaimsUpToStay
  <2> QED
    BY <2>1, <2>2
<1>5. PICK added : Progress(added)
  BY <1>1 DEF FunctionsInv
<1>6. added \in Seq(ClaimRecords) /\ added \o todo = ClaimsUpTo(phase) /\ Merges(added, seen)
  BY <1>5 DEF Progress
<1>7. PICK next : next = Append(added, Head(todo))
  OBVIOUS
<1>8. /\ Head(todo) \in ClaimRecords /\ Tail(todo) \in Seq(ClaimRecords)
      /\ next \in Seq(ClaimRecords) /\ next \o Tail(todo) = ClaimsUpTo(phase)
  <2>1. /\ Head(todo) \in ClaimRecords /\ Tail(todo) \in Seq(ClaimRecords)
        /\ Append(added, Head(todo)) \in Seq(ClaimRecords)
        /\ Append(added, Head(todo)) \o Tail(todo) = added \o todo
    <3>1. added \in Seq(ClaimRecords) /\ todo \in Seq(ClaimRecords) /\ todo # <<>>
      BY <1>1, <1>6
    <3> QED
      BY <3>1, HeadToDone, Zenon
  <2> QED
    BY <1>6, <1>7, <2>1
<1>9. seen' \in Seq(FunctionRecords) /\ Merges(next, seen')
  BY <1>1, <1>3, <1>6, <1>7, <1>8, AddMerges
<1>10. Progress(next)'
  BY <1>3, <1>4, <1>8, <1>9 DEF Progress
<1>11. \E d : Progress(d)'
  BY <1>10
<1> QED
  BY <1>1, <1>2, <1>3, <1>4, <1>8, <1>9, <1>11 DEF FunctionsInv, Walked

\* Sorting does not unmerge.
LEMMA ReturnKeeps == FunctionsInv /\ Return => FunctionsInv'
<1> SUFFICES ASSUME FunctionsInv, Return PROVE FunctionsInv'
  OBVIOUS
<1>1. /\ Walked /\ phase = "thunks" /\ todo = <<>>
      /\ todo \in Seq(ClaimRecords) /\ seen \in Seq(FunctionRecords)
  BY DEF FunctionsInv, Walked, Return
<1>2. /\ phase' = "returned" /\ seen' = Sorted
      /\ UNCHANGED <<listed_file, code_publics, walked, procedures, thunks, publics, todo>>
  BY DEF Return
<1>3. Walked'
  BY <1>1, <1>2, WalkedStays
<1>4. seen' \in Seq(FunctionRecords)
  <2>1. PICK order \in [DOMAIN seen -> DOMAIN seen] :
          Sorted = [i \in DOMAIN seen |-> seen[order[i]]]
    BY <1>1, SortedIsAnOrder DEF Walked
  <2>2. DOMAIN seen = 1..Len(seen) /\ Len(seen) \in Nat
    BY <1>1
  <2>3. \A i \in DOMAIN seen : seen[order[i]] \in FunctionRecords
    BY <1>1, <2>1
  <2> QED
    BY <1>2, <2>1, <2>2, <2>3
<1> QED
  BY <1>1, <1>2, <1>3, <1>4 DEF FunctionsInv, Walked

\* Every step keeps the invariant.
LEMMA FunctionsInvNext == FunctionsInv /\ [FunctionsNext]_functionVars => FunctionsInv'
<1> SUFFICES ASSUME FunctionsInv, [FunctionsNext]_functionVars PROVE FunctionsInv'
  OBVIOUS
<1>1. CASE UNCHANGED functionVars
  <2>1. UNCHANGED <<listed_file, code_publics, phase, walked, procedures, thunks,
                    publics, todo, seen>>
    BY <1>1 DEF functionVars
  <2>2. ClaimsUpTo(phase)' = ClaimsUpTo(phase)
    BY <2>1, ClaimsUpToStay
  <2>3. /\ Extracts(walked, "proc")' = Extracts(walked, "proc")
        /\ Extracts(walked, "thunk")' = Extracts(walked, "thunk")
    BY <2>1 DEF Extracts, RecordsOf, Extract, Claim
  <2>4. \A d : Progress(d)' = Progress(d)
    BY <2>1, <2>2 DEF Progress
  <2> QED
    BY <2>1, <2>3, <2>4 DEF FunctionsInv
<1> QED
  BY <1>1, WalkKeeps, BeginProcsKeeps, BeginPublicsKeeps, BeginThunksKeeps, AddNextKeeps,
     ReturnKeeps DEF FunctionsNext

\* What the abstract listing says of an address that is claimed is what the
\* merge of all the claims has for it.
LEMMA MergedIsMerge ==
  ASSUME NEW f \in FunctionRecords, IsMerge(f, AllClaims), AllClaims \in Seq(ClaimRecords)
  PROVE  [f EXCEPT !.aliases = Range(@)] = Merge!Merged(f.addr)
<1> DEFINE cs == AllClaims
           here == {i \in DOMAIN cs : cs[i].addr = f.addr}
           least == CHOOSE i \in here : \A j \in here : i <= j
           g == [f EXCEPT !.aliases = Range(@)]
<1>1. PICK k \in DOMAIN cs :
        /\ cs[k].addr = f.addr
        /\ \A l \in DOMAIN cs : cs[l].addr = f.addr => k <= l
        /\ f.name = cs[k].name /\ f.source = cs[k].source /\ f.code_size = cs[k].size
  BY DEF IsMerge
<1>2. least = k
  <2>1. k \in here /\ \A j \in here : k <= j
    BY <1>1
  <2>2. DOMAIN cs \subseteq Nat
    OBVIOUS
  <2>3. \A i \in here : (\A j \in here : i <= j) => i = k
    BY <2>1, <2>2
  <2> HIDE DEF here
  <2> QED
    BY <2>1, <2>3
<1>3. Range(f.aliases) = {cs[i].name : i \in here} \ {cs[k].name}
  <2>1. ASSUME NEW x \in Range(f.aliases)
        PROVE  x \in {cs[i].name : i \in here} \ {cs[k].name}
    <3>1. PICK a \in DOMAIN f.aliases : f.aliases[a] = x
      BY DEF Range
    <3>2. /\ f.aliases[a] # f.name
          /\ \E l \in DOMAIN cs : cs[l].addr = f.addr /\ cs[l].name = f.aliases[a]
      BY <3>1 DEF IsMerge
    <3> QED
      BY <3>1, <3>2, <1>1
  <2>2. ASSUME NEW i \in here, cs[i].name # cs[k].name
        PROVE  cs[i].name \in Range(f.aliases)
    <3>1. \E a \in DOMAIN f.aliases : f.aliases[a] = cs[i].name
      BY <1>1, <2>2 DEF IsMerge
    <3> QED
      BY <3>1 DEF Range
  <2> QED
    BY <2>1, <2>2
<1>4. g = [addr |-> f.addr, name |-> f.name, source |-> f.source, code_size |-> f.code_size,
           aliases |-> Range(f.aliases)]
  <2>1. f = [addr |-> f.addr, name |-> f.name, source |-> f.source, code_size |-> f.code_size,
             aliases |-> f.aliases]
    BY DEF FunctionRecords
  <2> QED
    BY ONLY <2>1
<1>5. Merge!Merged(f.addr) =
        [addr |-> f.addr, name |-> cs[k].name, source |-> cs[k].source,
         code_size |-> cs[k].size, aliases |-> {cs[i].name : i \in here} \ {cs[k].name}]
  BY <1>2 DEF Merge!Merged
<1> QED
  BY <1>1, <1>3, <1>4, <1>5

\* Of a merge of all claims, in any order, the functions are those listed.
LEMMA FunctionsAreMerged ==
  ASSUME AllClaims \in Seq(ClaimRecords), NEW fs \in Seq(FunctionRecords), Merges(AllClaims, fs)
  PROVE  {[fs[i] EXCEPT !.aliases = Range(@)] : i \in DOMAIN fs}
           = {Merge!Merged(AllClaims[i].addr) : i \in DOMAIN AllClaims}
<1> DEFINE cs == AllClaims
<1>1. ASSUME NEW i \in DOMAIN fs
      PROVE  /\ [fs[i] EXCEPT !.aliases = Range(@)] = Merge!Merged(fs[i].addr)
             /\ \E k \in DOMAIN cs : cs[k].addr = fs[i].addr
  <2>1. fs[i] \in FunctionRecords /\ IsMerge(fs[i], cs)
    BY DEF Merges
  <2>2. [fs[i] EXCEPT !.aliases = Range(@)] = Merge!Merged(fs[i].addr)
    BY <2>1, MergedIsMerge
  <2> QED
    BY <2>1, <2>2 DEF IsMerge
<1>2. \A k \in DOMAIN cs : \E i \in DOMAIN fs : fs[i].addr = cs[k].addr
  BY DEF Merges
<1> DEFINE M(addr) == Merge!Merged(addr)
           F(i) == [fs[i] EXCEPT !.aliases = Range(@)]
<1>3. \A i \in DOMAIN fs : F(i) = M(fs[i].addr) /\ \E k \in DOMAIN cs : cs[k].addr = fs[i].addr
  BY <1>1
<1> HIDE DEF M, F, cs
<1>4. {F(i) : i \in DOMAIN fs} = {M(cs[i].addr) : i \in DOMAIN cs}
  BY <1>2, <1>3
<1> QED
  BY <1>4 DEF M, F, cs

Reorders(order, fs, gs) ==
  /\ order \in [DOMAIN fs -> DOMAIN fs]
  /\ \A k \in DOMAIN fs : \E i \in DOMAIN fs : order[i] = k
  /\ \A i, j \in DOMAIN fs : i < j => order[i] # order[j]
  /\ gs = [i \in DOMAIN fs |-> fs[order[i]]]

\* A dictionary stays the merge it is, whatever order its functions are put in.
LEMMA ReorderedMerges ==
  ASSUME NEW cs, NEW fs \in Seq(FunctionRecords), Merges(cs, fs),
         NEW order, NEW gs, Reorders(order, fs, gs)
  PROVE  Merges(cs, gs)
<1>1. DOMAIN gs = DOMAIN fs /\ \A i \in DOMAIN gs : gs[i] = fs[order[i]] /\ order[i] \in DOMAIN fs
  BY DEF Reorders
<1>2. DOMAIN fs \subseteq Nat
  OBVIOUS
<1>o. /\ \A k \in DOMAIN fs : \E i \in DOMAIN fs : order[i] = k
      /\ \A i, j \in DOMAIN fs : i < j => order[i] # order[j]
  BY DEF Reorders
<1>3. \A i, j \in DOMAIN gs : gs[i].addr = gs[j].addr => i = j
  <2>1. ASSUME NEW i \in DOMAIN gs, NEW j \in DOMAIN gs, gs[i].addr = gs[j].addr
        PROVE  i = j
    <3>0. /\ order[i] \in DOMAIN fs /\ order[j] \in DOMAIN fs
          /\ fs[order[i]].addr = fs[order[j]].addr
      BY <1>1, <2>1
    <3>1. order[i] = order[j]
      BY <3>0 DEF Merges
    <3>2. ~(i < j) /\ ~(j < i)
      BY <3>1, <1>1, <1>o
    <3> QED
      BY <3>2, <1>1, <1>2
  <2> QED
    BY <2>1
<1>4. \A k \in DOMAIN cs : \E i \in DOMAIN gs : gs[i].addr = cs[k].addr
  <2>1. ASSUME NEW k \in DOMAIN cs
        PROVE  \E i \in DOMAIN gs : gs[i].addr = cs[k].addr
    <3>1. PICK l \in DOMAIN fs : fs[l].addr = cs[k].addr
      BY DEF Merges
    <3>2. PICK i \in DOMAIN fs : order[i] = l
      BY <1>o
    <3> QED
      BY <3>1, <3>2, <1>1
  <2> QED
    BY <2>1
<1>5. \A i \in DOMAIN gs : IsMerge(gs[i], cs)
  BY <1>1 DEF Merges
<1> QED
  BY <1>3, <1>4, <1>5 DEF Merges

\* A merge has each address, and each name at an address, once.
LEMMA MergesAreOnce ==
  ASSUME Merges(AllClaims, seen), seen \in Seq(FunctionRecords)
  PROVE  EachOnce
<1>1. ASSUME NEW i \in DOMAIN seen
      PROVE  IsInjective(<<seen[i].name>> \o seen[i].aliases)
  <2> DEFINE al == seen[i].aliases
             names == <<seen[i].name>> \o al
  <2>1. seen[i] \in FunctionRecords /\ IsMerge(seen[i], AllClaims)
    BY DEF Merges
  <2>2. al \in Seq(Nat) /\ seen[i].name \in Nat
    BY <2>1 DEF FunctionRecords
  <2>3. /\ \A a, b \in DOMAIN al : al[a] = al[b] => a = b
        /\ \A a \in DOMAIN al : al[a] # seen[i].name
    BY <2>1 DEF IsMerge
  <2>4. /\ DOMAIN names = 1..(Len(al) + 1) /\ names[1] = seen[i].name
        /\ \A a \in 2..(Len(al) + 1) : names[a] = al[a - 1] /\ a - 1 \in DOMAIN al
        /\ Len(al) \in Nat
    BY <2>2
  <2> HIDE DEF names, al
  <2>5. ASSUME NEW a \in DOMAIN names, NEW b \in DOMAIN names, names[a] = names[b]
        PROVE  a = b
    <3>1. CASE a = 1 /\ b = 1
      BY <3>1
    <3>2. CASE a = 1 /\ b # 1
      BY <3>2, <2>3, <2>4, <2>5
    <3>3. CASE a # 1 /\ b = 1
      BY <3>3, <2>3, <2>4, <2>5
    <3>4. CASE a # 1 /\ b # 1
      <4>1. a - 1 = b - 1
        BY <3>4, <2>3, <2>4, <2>5
      <4> QED
        BY <4>1, <2>4
    <3> QED
      BY <3>1, <3>2, <3>3, <3>4
  <2>6. IsInjective(names)
    BY <2>5 DEF IsInjective
  <2> QED
    BY <2>6 DEF names, al
<1>2. \A i, j \in DOMAIN seen : seen[i].addr = seen[j].addr => i = j
  BY DEF Merges
<1> QED
  BY <1>1, <1>2 DEF EachOnce

\* Two keys in order are two addresses in order.
LEMMA KeysAscend ==
  ASSUME listed_file \in ListedFiles, NEW f \in FunctionRecords, NEW g \in FunctionRecords,
         ~KeyLess(Key(g), Key(f))
  PROVE  \/ Rva(g.addr) = NoRva
         \/ Rva(f.addr) # NoRva /\ Rva(f.addr) <= Rva(g.addr)
<1>1. /\ Key(f) = <<NoRvaRank(f), RvaRank(f), f.name>>
      /\ NoRvaRank(f) \in Int /\ RvaRank(f) \in Int /\ f.name \in Int /\ Rva(f.addr) \in Int
      /\ Key(g) = <<NoRvaRank(g), RvaRank(g), g.name>>
      /\ NoRvaRank(g) \in Int /\ RvaRank(g) \in Int /\ g.name \in Int /\ Rva(g.addr) \in Int
  BY KeysAreNumbers
<1>2. KeyLess(Key(g), Key(f)) <=>
        \/ NoRvaRank(g) < NoRvaRank(f)
        \/ NoRvaRank(g) = NoRvaRank(f) /\ RvaRank(g) < RvaRank(f)
        \/ NoRvaRank(g) = NoRvaRank(f) /\ RvaRank(g) = RvaRank(f) /\ g.name < f.name
  <2>0. /\ NoRvaRank(g) \in Int /\ RvaRank(g) \in Int /\ g.name \in Int
        /\ NoRvaRank(f) \in Int /\ RvaRank(f) \in Int /\ f.name \in Int
    BY <1>1
  <2>1. KeyLess(<<NoRvaRank(g), RvaRank(g), g.name>>, <<NoRvaRank(f), RvaRank(f), f.name>>) <=>
          \/ NoRvaRank(g) < NoRvaRank(f)
          \/ NoRvaRank(g) = NoRvaRank(f) /\ RvaRank(g) < RvaRank(f)
          \/ NoRvaRank(g) = NoRvaRank(f) /\ RvaRank(g) = RvaRank(f) /\ g.name < f.name
    BY <2>0, KeysCompare
  <2> QED
    BY <1>1, <2>1
<1>3. ~(NoRvaRank(g) < NoRvaRank(f)) /\ (NoRvaRank(g) = NoRvaRank(f) => ~(RvaRank(g) < RvaRank(f)))
  BY <1>2
<1> QED
  BY <1>1, <1>3 DEF NoRvaRank, RvaRank

\* The step that returns gives the listing the abstract one gives.
LEMMA ReturnLists == FunctionsInv /\ Return => Merge!List
<1> SUFFICES ASSUME FunctionsInv, Return PROVE Merge!List
  OBVIOUS
<1>1. /\ Walked /\ phase = "thunks" /\ todo = <<>> /\ listed_file.symrecords # "damaged"
      /\ todo \in Seq(ClaimRecords) /\ seen \in Seq(FunctionRecords)
  BY DEF FunctionsInv, Walked, Return
<1>2. /\ phase' = "returned" /\ seen' = Sorted
      /\ UNCHANGED <<listed_file, code_publics, walked, procedures, thunks, publics, todo>>
  BY DEF Return
<1>3. AllClaims' = AllClaims /\ AllReadable' = AllReadable
  BY <1>2, ClaimsStay
<1>4. AllClaims \in Seq(ClaimRecords) /\ Merges(AllClaims, seen)
  <2>1. PICK added : Progress(added)
    BY <1>1 DEF FunctionsInv
  <2>2. added \in Seq(ClaimRecords) /\ added \o <<>> = AllClaims /\ Merges(added, seen)
    BY <1>1, <2>1, ClaimsUpToAre DEF Progress
  <2>3. added = AllClaims
    <3>1. added \o <<>> = added
      BY <2>2
    <3> QED
      BY <2>2, <3>1
  <2> QED
    BY <2>2, <2>3
<1>5. AllReadable
  <2>1. DOMAIN listed_file.modules = 1..Len(listed_file.modules)
    BY <1>1, FileFits DEF Walked
  <2> QED
    BY <1>1, <2>1 DEF AllReadable, Walked
<1>6. PICK order \in [DOMAIN seen -> DOMAIN seen] :
        /\ Sorted = [i \in DOMAIN seen |-> seen[order[i]]]
        /\ \A k \in DOMAIN seen : \E i \in DOMAIN seen : order[i] = k
        /\ \A i, j \in DOMAIN seen : i < j =>
             order[i] # order[j] /\ ~KeyLess(Key(seen[order[j]]), Key(seen[order[i]]))
  BY <1>1, SortedIsAnOrder DEF Walked
<1>7. FunctionsInv'
  BY FunctionsInvNext DEF FunctionsNext
<1>8. seen' \in Seq(FunctionRecords) /\ Merges(AllClaims, seen')
  <2>1. Reorders(order, seen, seen')
    BY <1>2, <1>6 DEF Reorders
  <2>2. Merges(AllClaims, seen')
    BY <1>1, <1>4, <2>1, ReorderedMerges
  <2> QED
    BY <1>7, <2>2 DEF FunctionsInv
<1>9. EachOnce'
  <2>1. (Merges(AllClaims, seen) /\ seen \in Seq(FunctionRecords))' => EachOnce'
    BY MergesAreOnce, PTL
  <2> QED
    BY <1>3, <1>8, <2>1 DEF Merges, IsMerge
<1>10. Ascends'
  <2>1. ASSUME NEW i \in DOMAIN seen', NEW j \in DOMAIN seen', i < j
        PROVE  \/ Rva(seen'[j].addr) = NoRva
               \/ Rva(seen'[i].addr) # NoRva /\ Rva(seen'[i].addr) <= Rva(seen'[j].addr)
    <3>1. /\ i \in DOMAIN seen /\ j \in DOMAIN seen
          /\ seen'[i] = seen[order[i]] /\ seen'[j] = seen[order[j]]
      BY <1>2, <1>6
    <3>2. seen[order[i]] \in FunctionRecords /\ seen[order[j]] \in FunctionRecords
      <4>1. order[i] \in DOMAIN seen /\ order[j] \in DOMAIN seen
        BY <3>1
      <4> QED
        BY <1>1, <4>1
    <3>3. ~KeyLess(Key(seen[order[j]]), Key(seen[order[i]]))
      BY <1>6, <2>1, <3>1
    <3> QED
      BY <1>1, <3>1, <3>2, <3>3, KeysAscend DEF Walked
  <2>2. \A addr : Rva(addr)' = Rva(addr)
    BY <1>2 DEF Rva
  <2> QED
    BY <1>2, <2>1 DEF Ascends, Rva
<1>11. {[seen'[i] EXCEPT !.aliases = Range(@)] : i \in DOMAIN seen'}
         = {Merge!Merged(AllClaims[i].addr) : i \in DOMAIN AllClaims}
  BY <1>4, <1>8, FunctionsAreMerged
<1>12. Answer = Merge!NotYet
  BY <1>1 DEF Answer, Merge!NotYet
<1>13. Answer' = Merge!Listing
  <2>1. Answer' = [outcome |-> "listing", each_once |-> EachOnce', in_order |-> Ascends',
                   functions |-> {[seen'[i] EXCEPT !.aliases = Range(@)] : i \in DOMAIN seen'}]
    BY <1>2 DEF Answer
  <2>2. EachOnce' = TRUE /\ Ascends' = TRUE
    BY <1>9, <1>10 DEF EachOnce, Ascends
  <2> QED
    BY <2>1, <2>2, <1>11 DEF Merge!Listing
<1> QED
  BY <1>3, <1>5, <1>12, <1>13 DEF Merge!List

\* A step that refuses is the abstract refusal: some stream cannot be read.
LEMMA RefuseRefuses ==
  ASSUME FunctionsInv, phase \in {"modules", "procs"}, Refuse, ~AllReadable
  PROVE  Merge!List
<1>1. UNCHANGED <<listed_file, code_publics>> /\ phase' = "refused"
  BY DEF Refuse
<1>2. AllClaims' = AllClaims /\ AllReadable' = AllReadable
  BY <1>1, ClaimsStay
<1>3. Answer = Merge!NotYet /\ Answer' = Merge!Refused
  BY <1>1 DEF Answer, Merge!NotYet, Merge!Refused
<1> QED
  BY <1>2, <1>3 DEF Merge!List

mergeVars == <<AllClaims, AllReadable, Answer>>

\* Each step of the listing is the abstract step or one it does not see.
LEMMA StepsRefine == FunctionsInv /\ [FunctionsNext]_functionVars => [Merge!List]_mergeVars
<1> SUFFICES ASSUME FunctionsInv, [FunctionsNext]_functionVars
             PROVE  Merge!List \/ UNCHANGED mergeVars
  BY DEF mergeVars
<1>s. ASSUME UNCHANGED <<listed_file, code_publics>>, Answer' = Answer
      PROVE  UNCHANGED mergeVars
  BY <1>s, ClaimsStay DEF mergeVars
<1>1. CASE WalkModule
  <2> DEFINE module == listed_file.modules[walked + 1]
  <2>1. CASE module.state = "damaged"
    <3>1. walked + 1 \in DOMAIN listed_file.modules
      <4>1. /\ listed_file \in ListedFiles /\ walked \in 0..Len(listed_file.modules)
            /\ walked < Len(listed_file.modules)
        BY <1>1 DEF FunctionsInv, WalkModule
      <4>2. /\ DOMAIN listed_file.modules = 1..Len(listed_file.modules)
            /\ Len(listed_file.modules) \in Nat
        BY <4>1, FileFits
      <4> QED
        BY <4>1, <4>2
    <3>2. ~AllReadable
      BY <2>1, <3>1 DEF AllReadable
    <3> QED
      BY <1>1, <2>1, <3>2, RefuseRefuses DEF WalkModule
  <2>2. CASE module.state # "damaged"
    <3>1. UNCHANGED <<listed_file, code_publics, phase>> /\ phase = "modules"
      BY <1>1, <2>2 DEF WalkModule
    <3>2. Answer' = Answer
      BY <3>1 DEF Answer
    <3> QED
      BY <3>1, <3>2, <1>s
  <2> QED
    BY <2>1, <2>2
<1>2. CASE BeginProcs
  <2>1. UNCHANGED <<listed_file, code_publics>> /\ phase = "modules" /\ phase' = "procs"
    BY <1>2 DEF BeginProcs
  <2> QED
    BY <2>1, <1>s DEF Answer
<1>3. CASE BeginPublics
  <2>1. CASE listed_file.symrecords = "damaged"
    <3>1. ~AllReadable
      BY <2>1 DEF AllReadable
    <3> QED
      BY <1>3, <2>1, <3>1, RefuseRefuses DEF BeginPublics
  <2>2. CASE listed_file.symrecords # "damaged"
    <3>1. UNCHANGED <<listed_file, code_publics>> /\ phase = "procs" /\ phase' = "publics"
      BY <1>3, <2>2 DEF BeginPublics
    <3> QED
      BY <3>1, <1>s DEF Answer
  <2> QED
    BY <2>1, <2>2
<1>4. CASE BeginThunks
  <2>1. UNCHANGED <<listed_file, code_publics>> /\ phase = "publics" /\ phase' = "thunks"
    BY <1>4 DEF BeginThunks
  <2> QED
    BY <2>1, <1>s DEF Answer
<1>5. CASE AddNext
  <2>1. /\ UNCHANGED <<listed_file, code_publics, phase>>
        /\ phase \in {"procs", "publics", "thunks"}
    BY <1>5 DEF AddNext, FunctionsInv
  <2> QED
    BY <2>1, <1>s DEF Answer
<1>6. CASE Return
  BY <1>6, ReturnLists
<1>7. CASE UNCHANGED functionVars
  <2>1. UNCHANGED <<listed_file, code_publics, phase, seen>>
    BY <1>7 DEF functionVars
  <2>2. Answer' = Answer
    BY <2>1 DEF Answer, EachOnce, Ascends, Rva
  <2> QED
    BY <2>1, <2>2, <1>s
<1> QED
  BY <1>1, <1>2, <1>3, <1>4, <1>5, <1>6, <1>7 DEF FunctionsNext

\* pdb.py:1587-1667: functions() gives the merge of all the claims of a file --
\* each address and each name in it once, by ascending address -- or nothing,
\* when a stream it needs cannot be read; whatever the listed file, its modules, its
\* publics and their map.
THEOREM FunctionsListTheMerge == FunctionsSpec => ListingIsMerge
<1>1. FunctionsInit => Merge!Init
  BY DEF FunctionsInit, Merge!Init, Merge!NotYet, Answer
<1> QED
  BY <1>1, FunctionsInvInit, FunctionsInvNext, StepsRefine, PTL
     DEF FunctionsSpec, ListingIsMerge, Merge!Spec, mergeVars
=============================================================================
