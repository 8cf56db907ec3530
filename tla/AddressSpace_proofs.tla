------------------------- MODULE AddressSpace_proofs -------------------------
(***************************************************************************)
(* lines() and to_rva() give the same address for every file, every        *)
(* segment and every offset: what a walk hoists out of its loop stays what *)
(* to_rva() would look up.  And the address is the shipped one, or         *)
(* Diagnostics.warnings says that it need not be: the tables that were     *)
(* loaded, rebuilt or sorted are held against the layout they came from.   *)
(*                                                                         *)
(* An inline site is listed in the procedure it is nested in, each of its  *)
(* ranges at the address of its code, and the sites lost are counted.      *)
(***************************************************************************)
EXTENDS AddressSpace, InlinePlacement, Lemmas, SequenceTheorems, FiniteSetTheorems, TLAPS

\* Every table the reader may resolve against holds addresses.
TablesOK ==
    /\ file \in Files
    /\ sections \in Seq(Nat) /\ original \in Seq(Nat) /\ derived \in Seq(Nat)
    /\ cursor \in [entry : Nat, at : Nat]

\* Nothing is asked of a PDB that is not open, and a walk has it open.
OnlyOpen == walk.on \/ Asked => pc = "open"

\* What the walk hoisted is what a look-up would find now.
HoistedIsFresh ==
    walk.on => /\ walk.table = SymbolSections
               /\ walk.perEntry = MapApplies
               /\ \A s \in DOMAIN walk.bases :
                      walk.bases[s] = TableRva(SymbolSections, s, 0)

\* The inductive invariant behind LinesAgree.
IInv == TablesOK /\ OnlyOpen /\ HoistedIsFresh /\ LinesAgree

\* A sequence over a set has its places numbered from 1 and its elements in it.
LEMMA HoldsItsKind ==
    ASSUME NEW Kind, NEW s \in Seq(Kind)
    PROVE  DOMAIN s = 1..Len(s) /\ Len(s) \in Nat /\ \A i \in 1..Len(s) : s[i] \in Kind
OBVIOUS

\* A stream without a table is a table without sections.
LEMMA TableOrNoneIsTable ==
    ASSUME NEW stream, stream.table \in Seq(Nat)
    PROVE  TableOrNone(stream) \in Seq(Nat)
<1>1. CASE stream.state = "ok"
  BY <1>1 DEF TableOrNone
<1>2. CASE stream.state # "ok"
  BY <1>2 DEF TableOrNone, NoTable
<1> QED BY <1>1, <1>2

\* Whichever table is chosen, its entries are numbers: base + offset is defined.
LEMMA ChosenTable == TablesOK => SymbolSections \in Seq(Nat)
BY DEF TablesOK, SymbolSections, NoTable

\* The arithmetic of the hoisted base: looked up at 0, then offset.
LEMMA BasePlusOffset ==
    ASSUME NEW table \in Seq(Nat), NEW s, NEW offset \in Nat
    PROVE  TableRva(table, s, offset) =
               IF TableRva(table, s, 0) = None THEN None
               ELSE TableRva(table, s, 0) + offset
<1>1. CASE s \in DOMAIN table
  <2>1. table[s] \in Nat
    BY <1>1
  <2>2. table[s] + 0 = table[s] /\ table[s] # None
    BY <2>1, NoneIsNoAddress
  <2> QED BY <1>1, <2>1, <2>2 DEF TableRva
<1>2. CASE s \notin DOMAIN table
  BY <1>2 DEF TableRva
<1> QED BY <1>1, <1>2

\* Nothing is loaded, hoisted or answered at first.
LEMMA InitEstablishes == AddressInit => IInv
<1> SUFFICES ASSUME AddressInit PROVE IInv
  OBVIOUS
<1>1. TablesOK
  BY DEF AddressInit, TablesOK, NoTable
<1>2. OnlyOpen /\ HoistedIsFresh /\ LinesAgree
  BY DEF AddressInit, OnlyOpen, HoistedIsFresh, LinesAgree, NotWalking, Asked, Unasked
<1> QED BY <1>1, <1>2 DEF IInv

\* While the tables are still being read nothing has been hoisted or answered.
LEMMA LoadingIsQuiet ==
    ASSUME IInv, pc # "open", UNCHANGED <<walk, answer>>, TablesOK'
    PROVE  IInv'
<1>1. ~walk.on /\ ~Asked
  BY DEF IInv, OnlyOpen
<1>2. ~walk'.on /\ ~Asked'
  BY <1>1 DEF Asked
<1> QED BY <1>2 DEF IInv, OnlyOpen, HoistedIsFresh, LinesAgree

\* The steps of _load_sections keep the invariant.
LEMMA LoadingPreserves ==
    ASSUME IInv,
           \/ LoadHeaders \/ LoadOriginal \/ LoadOmap
           \/ BeginRebuild \/ LaySegment \/ EndRebuild
    PROVE  IInv'
<1> USE DEF IInv, TablesOK, tables
<1>1. CASE LoadHeaders
  <2>0. TableOrNone(file.headers) \in Seq(Nat)
    BY TablesHoldAddresses, TableOrNoneIsTable
  <2>1. TablesOK'
    BY <1>1, <2>0 DEF LoadHeaders, RefuseStream
  <2> QED BY <1>1, <2>1, LoadingIsQuiet DEF LoadHeaders, RefuseStream
<1>2. CASE LoadOriginal
  <2>0. TableOrNone(file.original) \in Seq(Nat)
    BY TablesHoldAddresses, TableOrNoneIsTable
  <2>1. TablesOK'
    BY <1>2, <2>0 DEF LoadOriginal, RefuseStream
  <2> QED BY <1>2, <2>1, LoadingIsQuiet DEF LoadOriginal, RefuseStream
<1>3. CASE LoadOmap
  <2>1. TablesOK'
    BY <1>3 DEF LoadOmap, RefuseStream
  <2> QED BY <1>3, <2>1, LoadingIsQuiet DEF LoadOmap, RefuseStream
<1>4. CASE BeginRebuild
  <2>1. TablesOK'
    BY <1>4, AlignIsPositive DEF BeginRebuild
  <2> QED BY <1>4, <2>1, LoadingIsQuiet DEF BeginRebuild
<1>5. CASE LaySegment
  <2> DEFINE e == file.map[cursor.entry]
  <2>1. e.length \in Nat
    <3>1. file.map \in Seq(MapEntry)
      BY FilesAreWritten DEF MapIsTheLinkers
    <3>2. e \in MapEntry
      BY <1>5, <3>1, HoldsItsKind DEF LaySegment
    <3> QED BY <3>2 DEF MapEntry
  <2>2. CeilDiv(e.length, Align) \in Nat
    BY <2>1, AlignIsPositive, CeilingHoldsAll DEF CeilDiv
  <2>3. CeilDiv(e.length, Align) * Align \in Nat
    <3> HIDE DEF e
    <3> DEFINE c == CeilDiv(e.length, Align)
    <3>1. c \in Nat
      BY <2>2
    <3> HIDE DEF c
    <3>2. c * Align \in Nat
      BY <3>1, AlignIsPositive
    <3> QED BY <3>2 DEF c
  <2>4. derived' \in Seq(Nat) /\ cursor' \in [entry : Nat, at : Nat]
    <3>1. /\ cursor.entry + 1 \in Nat
          /\ cursor.at + CeilDiv(e.length, Align) * Align \in Nat
      BY <2>3
    <3>2. CASE e.absolute
      <4>1. derived' = derived /\ cursor' = [cursor EXCEPT !.entry = @ + 1]
        BY <1>5, <3>2 DEF LaySegment
      <4> QED BY <3>1, <4>1
    <3>3. CASE ~e.absolute
      <4>1. /\ derived' = Append(derived, cursor.at)
            /\ cursor' = [entry |-> cursor.entry + 1,
                          at |-> cursor.at + CeilDiv(e.length, Align) * Align]
        BY <1>5, <3>3 DEF LaySegment
      <4>2. derived' \in Seq(Nat)
        BY <4>1
      <4> QED BY <3>1, <4>1, <4>2
    <3> QED BY <3>2, <3>3
  <2>5. TablesOK'
    BY <1>5, <2>4 DEF LaySegment
  <2> QED BY <1>5, <2>5, LoadingIsQuiet DEF LaySegment
<1>6. CASE EndRebuild
  <2>1. TablesOK'
    BY <1>6 DEF EndRebuild
  <2> QED BY <1>6, <2>1, LoadingIsQuiet DEF EndRebuild
<1> QED BY <1>1, <1>2, <1>3, <1>4, <1>5, <1>6

\* A question leaves the tables alone, and so what they answer.
LEMMA SameTablesSameAnswers ==
    ASSUME UNCHANGED tables
    PROVE  /\ SymbolSections' = SymbolSections
           /\ MapApplies' = MapApplies
           /\ \A s, o : /\ RvaOf(s, o)' = RvaOf(s, o)
                        /\ TableRva(SymbolSections, s, o)'
                               = TableRva(SymbolSections, s, o)
BY DEF tables, SymbolSections, MapApplies, RvaOf, TableRva, Lookup

\* An entry of lines() is answered as to_rva() would, and what it caches is fresh.
LEMMA EntryPreserves ==
    ASSUME IInv, NEW segment \in Segments, NEW offset \in Offsets,
           LineEntry(segment, offset)
    PROVE  IInv'
<1> USE DEF IInv
<1>1. UNCHANGED <<file, pc, cursor, tables>> /\ pc = "open" /\ walk.on
  BY DEF LineEntry
<1>2. TablesOK' /\ OnlyOpen'
  BY <1>1 DEF TablesOK, OnlyOpen, tables
<1>3. offset \in Nat /\ SymbolSections \in Seq(Nat)
  BY ChosenTable, OffsetsAreNat
<1>4. CASE walk.perEntry
  <2>1. HoistedIsFresh'
    BY <1>1, <1>4, SameTablesSameAnswers DEF LineEntry, HoistedIsFresh
  <2>2. LinesAgree'
    BY <1>1, <1>4, SameTablesSameAnswers DEF LineEntry, LinesAgree
  <2> QED BY <1>2, <2>1, <2>2
<1>5. CASE ~walk.perEntry
  <2> DEFINE bases == IF segment \in DOMAIN walk.bases THEN walk.bases
                      ELSE [s \in DOMAIN walk.bases \cup {segment} |->
                              IF s = segment
                              THEN TableRva(walk.table, segment, 0)
                              ELSE walk.bases[s]]
  <2>1. /\ walk' = [walk EXCEPT !.bases = bases]
        /\ answer'.segment = segment /\ answer'.offset = offset
        /\ answer'.rva = LineRva(bases, segment, offset)
    BY <1>5 DEF LineEntry
  <2>2. \A s \in DOMAIN bases : bases[s] = TableRva(SymbolSections, s, 0)
    BY <1>1 DEF HoistedIsFresh
  <2>3. segment \in DOMAIN bases
    OBVIOUS
  <2>4. ~MapApplies
    BY <1>1, <1>5 DEF HoistedIsFresh
  <2>5. LineRva(bases, segment, offset) = RvaOf(segment, offset)
    <3>1. LineRva(bases, segment, offset) = TableRva(SymbolSections, segment, offset)
      <4>1. LineRva(bases, segment, offset) =
              IF TableRva(SymbolSections, segment, 0) = None THEN None
              ELSE TableRva(SymbolSections, segment, 0) + offset
        BY <2>2, <2>3 DEF LineRva
      <4> QED BY <4>1, <1>3, BasePlusOffset
    <3> QED BY <2>4, <3>1 DEF RvaOf
  <2>6. LinesAgree'
    BY <1>1, <2>1, <2>5, SameTablesSameAnswers DEF LinesAgree
  <2>7. HoistedIsFresh'
    <3> HIDE DEF bases
    <3> QED BY <1>1, <2>1, <2>2, SameTablesSameAnswers DEF HoistedIsFresh
  <2> QED BY <1>2, <2>6, <2>7
<1> QED BY <1>4, <1>5

\* Every step keeps the invariant.
LEMMA NextPreserves == IInv /\ [AddressNext]_addressVars => IInv'
<1> SUFFICES ASSUME IInv, [AddressNext]_addressVars PROVE IInv'
  OBVIOUS
<1>1. CASE \/ LoadHeaders \/ LoadOriginal \/ LoadOmap
           \/ BeginRebuild \/ LaySegment \/ EndRebuild
  BY <1>1, LoadingPreserves
<1>2. CASE BeginLines
  <2>1. UNCHANGED <<file, pc, cursor, tables, answer>> /\ pc = "open"
    BY <1>2 DEF BeginLines
  <2>2. HoistedIsFresh'
    BY <1>2, <2>1, SameTablesSameAnswers DEF BeginLines, HoistedIsFresh
  <2>3. LinesAgree'
    BY <2>1, SameTablesSameAnswers DEF IInv, LinesAgree, Asked
  <2> QED BY <2>1, <2>2, <2>3 DEF IInv, TablesOK, OnlyOpen, tables
<1>3. CASE EndLines
  <2>1. UNCHANGED <<file, pc, cursor, tables, answer>> /\ ~walk'.on
    BY <1>3 DEF EndLines, NotWalking
  <2>2. LinesAgree'
    BY <2>1, SameTablesSameAnswers DEF IInv, LinesAgree, Asked
  <2> QED BY <2>1, <2>2 DEF IInv, TablesOK, OnlyOpen, HoistedIsFresh, Asked, tables
<1>4. ASSUME NEW segment \in Segments, NEW offset \in Offsets,
             ToRva(segment, offset)
      PROVE  IInv'
  <2>1. UNCHANGED <<file, pc, cursor, tables, walk>> /\ pc = "open"
    BY <1>4 DEF ToRva
  <2>2. HoistedIsFresh'
    BY <2>1, SameTablesSameAnswers DEF IInv, HoistedIsFresh
  <2>3. LinesAgree'
    BY <1>4, <2>1, SameTablesSameAnswers DEF ToRva, LinesAgree
  <2> QED BY <2>1, <2>2, <2>3 DEF IInv, TablesOK, OnlyOpen, tables
<1>5. ASSUME NEW segment \in Segments, NEW offset \in Offsets,
             LineEntry(segment, offset)
      PROVE  IInv'
  BY <1>5, EntryPreserves
<1>6. CASE UNCHANGED addressVars
  <2>1. UNCHANGED <<file, pc, cursor, tables, walk, answer>>
    BY <1>6 DEF addressVars, tables
  <2>2. LinesAgree'
    BY <2>1, SameTablesSameAnswers DEF IInv, LinesAgree, Asked
  <2>3. HoistedIsFresh'
    BY <2>1, SameTablesSameAnswers DEF IInv, HoistedIsFresh
  <2> QED BY <2>1, <2>2, <2>3 DEF IInv, TablesOK, OnlyOpen, Asked, tables
<1> QED BY <1>1, <1>2, <1>3, <1>4, <1>5, <1>6 DEF AddressNext, Ask

(***************************************************************************)
(* pdb.py:1363-1364, "The two paths answer the same number", for every     *)
(* file, alignment, segment and offset: an address lines() yields is the   *)
(* one to_rva() gives.                                                     *)
(***************************************************************************)
THEOREM TheTwoPathsAgree == AddressSpec => []LinesAgree
<1>1. IInv => LinesAgree
  BY DEF IInv
<1> QED BY <1>1, InitEstablishes, NextPreserves, PTL DEF AddressSpec

-----------------------------------------------------------------------------
(* The layout and the optimiser's table *)

\* What a section takes of the address space: whole alignment units.
Rounded(length) == CeilDiv(length, Align) * Align

\* Whole units are a number of bytes.
LEMMA RoundedIsNat == ASSUME NEW length \in Nat PROVE Rounded(length) \in Nat
<1> DEFINE c == CeilDiv(length, Align)
<1>1. c \in Nat
  BY AlignIsPositive, CeilingHoldsAll DEF CeilDiv
<1> HIDE DEF c
<1>2. c * Align \in Nat
  BY <1>1, AlignIsPositive
<1> QED BY <1>2 DEF c, Rounded

\* The linker's layout is what its recursion says: it is the sum of what the
\* sections before take.
LEMMA LinkedPlaces ==
    ASSUME NEW lengths \in Seq(Nat)
    PROVE  /\ LinkedAt(lengths) \in Seq(Nat)
           /\ Len(LinkedAt(lengths)) = Len(lengths)
           /\ Len(lengths) # 0 => LinkedAt(lengths)[1] = Align
           /\ \A i \in 2..Len(lengths) :
                  LinkedAt(lengths)[i] = LinkedAt(lengths)[i - 1] + Rounded(lengths[i - 1])
<1> DEFINE n == Len(lengths)
           taken == [i \in 1..n |-> IF i = 1 THEN Align ELSE Rounded(lengths[i - 1])]
           Places(g) == g = [i \in 1..n |-> IF i = 1 THEN Align
                                ELSE g[i - 1] + ((lengths[i - 1] + Align - 1) \div Align) * Align]
           at == CHOOSE g : Places(g)
<1>1. n \in Nat /\ lengths \in [1..n -> Nat]
  OBVIOUS
<1>2. LinkedAt(lengths) = [i \in 1..n |-> at[i]]
  BY DEF LinkedAt
<1> HIDE DEF n
<1>3. taken \in [1..n -> Nat]
  <2>1. ASSUME NEW i \in 1..n PROVE taken[i] \in Nat
    <3>1. CASE i = 1
      BY <3>1, AlignIsPositive
    <3>2. CASE i # 1
      <4>1. i - 1 \in 1..n
        BY <3>2, <1>1
      <4>2. Rounded(lengths[i - 1]) \in Nat
        BY <4>1, <1>1, RoundedIsNat
      <4> QED BY <3>2, <4>2
    <3> QED BY <3>1, <3>2
  <2> QED BY <2>1
<1>4. PICK F : Sums(F, taken, n)
  BY <1>1, <1>3, SumsExist
<1> DEFINE G == [i \in 1..n |-> F[i]]
<1>5. /\ F[0] = 0 /\ \A i \in 0..n : F[i] \in Nat
      /\ \A i \in 1..n : F[i] = F[i - 1] + taken[i]
  <2> HIDE DEF taken
  <2> QED BY <1>1, <1>3, <1>4, SumsGrow
<1>6. Places(G)
  <2>1. ASSUME NEW i \in 1..n
        PROVE  G[i] = IF i = 1 THEN Align ELSE G[i - 1] + Rounded(lengths[i - 1])
    <3>1. F[i] = F[i - 1] + taken[i] /\ F[i] \in Nat
      BY <1>1, <1>5
    <3>2. CASE i = 1
      <4>1. F[i] = 0 + Align
        BY <3>1, <3>2, <1>5
      <4> QED BY <3>2, <4>1, AlignIsPositive
    <3>3. CASE i # 1
      <4>1. i - 1 \in 1..n /\ taken[i] = Rounded(lengths[i - 1])
        BY <3>3, <1>1
      <4> QED BY <3>1, <3>3, <4>1
    <3> QED BY <3>2, <3>3
  <2> HIDE DEF G
  <2>2. G = [i \in 1..n |-> IF i = 1 THEN Align ELSE G[i - 1] + Rounded(lengths[i - 1])]
    <3>1. G = [i \in 1..n |-> G[i]]
      BY DEF G
    <3> QED BY <2>1, <3>1, Zenon
  <2> QED BY <2>2 DEF Rounded, CeilDiv
<1>7. Places(at)
  <2> HIDE DEF Places
  <2> QED BY <1>6
<1>8. \A i \in 1..n : at[i] = IF i = 1 THEN Align ELSE at[i - 1] + Rounded(lengths[i - 1])
  <2> HIDE DEF at
  <2>1. at = [i \in 1..n |-> IF i = 1 THEN Align ELSE at[i - 1] + Rounded(lengths[i - 1])]
    BY <1>7 DEF Rounded, CeilDiv
  <2> HIDE DEF Places
  <2> QED BY <2>1
<1> HIDE DEF at, Places, G
<1> DEFINE S == {k \in Nat : k + 1 \in 1..n => at[k + 1] \in Nat}
<1>9. 0 \in S
  BY <1>8, AlignIsPositive
<1>10. ASSUME NEW k \in Nat, k \in S PROVE k + 1 \in S
  <2> SUFFICES ASSUME k + 1 + 1 \in 1..n PROVE at[k + 1 + 1] \in Nat
    OBVIOUS
  <2> DEFINE m == k + 1
  <2>1. m \in 1..n /\ m + 1 \in 1..n /\ m + 1 # 1 /\ (m + 1) - 1 = m
    BY <1>1
  <2>2. at[m] \in Nat
    BY <2>1, <1>10
  <2>3. Rounded(lengths[m]) \in Nat
    BY <2>1, <1>1, RoundedIsNat
  <2> HIDE DEF m, taken
  <2>4. at[m + 1] = at[m] + Rounded(lengths[m])
    BY <2>1, <1>8
  <2> QED BY <2>2, <2>3, <2>4 DEF m
<1> HIDE DEF S
<1>11. Nat \subseteq S
  BY <1>9, <1>10, SetInduction
<1>12. \A i \in 1..n : at[i] \in Nat
  <2>1. \A i \in 1..n : i - 1 \in Nat /\ (i - 1) + 1 = i
    BY <1>1
  <2> QED BY <2>1, <1>11 DEF S
<1> HIDE DEF taken
<1>13. LinkedAt(lengths) \in [1..n -> Nat]
  BY <1>2, <1>12
<1>14. LinkedAt(lengths) \in Seq(Nat) /\ Len(LinkedAt(lengths)) = n
  BY <1>1, <1>13
<1>15. n # 0 => LinkedAt(lengths)[1] = Align
  <2>1. n # 0 => 1 \in 1..n
    BY <1>1
  <2> QED BY <1>2, <1>8, <2>1
<1>16. ASSUME NEW i \in 2..n
       PROVE  LinkedAt(lengths)[i] = LinkedAt(lengths)[i - 1] + Rounded(lengths[i - 1])
  <2>1. i \in 1..n /\ i - 1 \in 1..n /\ i # 1
    BY <1>1
  <2> QED BY <1>2, <1>8, <2>1
<1> QED BY <1>14, <1>15, <1>16 DEF n

\* From any byte of the linked image back to the entry it moved with.
LEMMA MovedWithItsEntry ==
    ASSUME NEW image, DOMAIN image.moved \subseteq Nat,
           \A b \in DOMAIN image.moved : image.moved[b] \in Nat,
           NEW r \in DOMAIN image.moved
    PROVE  \E s \in DOMAIN image.moved :
               /\ s <= r /\ ~Together(image, s)
               /\ \A b \in (s + 1)..r : Together(image, b)
               /\ image.moved[r] = IF image.moved[s] = 0 THEN 0
                                   ELSE image.moved[s] + (r - s)
<1> DEFINE M == DOMAIN image.moved
           m == image.moved
           T == {s \in Nat : s <= r /\ \A b \in (s + 1)..r : Together(image, b)}
<1>1. r \in T /\ T \subseteq Nat
  OBVIOUS
<1>2. PICK s \in T : \A t \in T : s <= t
  <2> HIDE DEF T
  <2> QED BY <1>1, LeastNumber
<1>3. s \in Nat /\ r \in Nat /\ s <= r /\ \A b \in (s + 1)..r : Together(image, b)
  BY <1>2
<1>4. s \in M
  <2>1. CASE s = r
    BY <2>1
  <2>2. CASE s # r
    <3>1. s + 1 \in (s + 1)..r /\ (s + 1) - 1 = s
      BY <1>3, <2>2
    <3> QED BY <1>3, <3>1 DEF Together
  <2> QED BY <2>1, <2>2
<1>5. ASSUME Together(image, s) PROVE FALSE
  <2>1. s - 1 \in M
    BY <1>5 DEF Together
  <2>2. s - 1 \in Nat /\ s - 1 <= r
    BY <1>3, <2>1
  <2>3. \A b \in ((s - 1) + 1)..r : b = s \/ b \in (s + 1)..r
    BY <1>3
  <2>4. s - 1 \in T
    BY <2>2, <2>3, <1>3, <1>5
  <2> HIDE DEF T
  <2> QED BY <2>4, <1>2, <1>3
<1> HIDE DEF T
<1> DEFINE Along(b) == m[b] = IF m[s] = 0 THEN 0 ELSE m[s] + (b - s)
           S == {k \in Nat : s + k <= r => s + k \in M /\ Along(s + k)}
<1>6. 0 \in S
  <2>1. s + 0 = s /\ s - s = 0 /\ m[s] \in Nat
    BY <1>3, <1>4
  <2>2. Along(s)
    BY <2>1
  <2> QED BY <2>1, <2>2, <1>4
<1>7. ASSUME NEW k \in Nat, k \in S PROVE k + 1 \in S
  <2> SUFFICES ASSUME s + (k + 1) <= r PROVE s + (k + 1) \in M /\ Along(s + (k + 1))
    OBVIOUS
  <2> DEFINE a == s + k
             b == s + (k + 1)
  <2>1. a \in Nat /\ b \in (s + 1)..r /\ b - 1 = a /\ a <= r /\ b - s = (a - s) + 1 /\ a - s = k
    BY <1>3
  <2>2. a \in M /\ Along(a)
    BY <1>7, <2>1
  <2> HIDE DEF a, b
  <2>3. Together(image, b)
    BY <1>3, <2>1
  <2>4. b \in M /\ IF m[b] = 0 THEN m[a] = 0 ELSE m[a] # 0 /\ m[b] = m[a] + 1
    BY <2>1, <2>3 DEF Together
  <2>5. m[s] \in Nat /\ m[a] \in Nat /\ m[b] \in Nat
    BY <1>4, <2>2, <2>4
  <2>6. Along(b)
    BY <2>1, <2>2, <2>4, <2>5
  <2> QED BY <2>4, <2>6 DEF b
<1> HIDE DEF S
<1>8. r - s \in S /\ s + (r - s) = r
  <2>1. Nat \subseteq S
    BY <1>6, <1>7, SetInduction
  <2> QED BY <2>1, <1>3
<1>9. Along(r)
  BY <1>8, <1>3 DEF S
<1> QED BY <1>3, <1>4, <1>5, <1>9

\* The table in source order has the same entries, by rising source.
LEMMA SortedTable ==
    ASSUME NEW table \in Seq(OmapEntry),
           NEW sorted \in InSourceOrder(table)
    PROVE  /\ sorted \in Seq(OmapEntry)
           /\ Len(sorted) = Len(table)
           /\ {sorted[i] : i \in DOMAIN sorted} = {table[i] : i \in DOMAIN table}
           /\ \A i, j \in DOMAIN sorted : i <= j => sorted[i].source <= sorted[j].source
<1> DEFINE D == DOMAIN table
<1>1. PICK p \in [D -> D] :
        /\ \A i \in D : \E j \in D : p[j] = i
        /\ \A i, j \in D : i <= j => table[p[i]].source <= table[p[j]].source
        /\ sorted = [i \in D |-> table[p[i]]]
  BY DEF InSourceOrder
<1>2. D = 1..Len(table) /\ Len(table) \in Nat
  OBVIOUS
<1>3. sorted \in [1..Len(table) -> OmapEntry]
  <2>1. \A i \in D : table[i] \in OmapEntry
    BY HoldsItsKind
  <2>2. \A i \in D : table[p[i]] \in OmapEntry
    BY <1>1, <2>1
  <2>3. sorted = [i \in D |-> table[p[i]]]
    BY <1>1
  <2> HIDE DEF D
  <2>4. sorted \in [D -> OmapEntry]
    BY <2>2, <2>3
  <2> QED BY <1>2, <2>4
<1>4. sorted \in Seq(OmapEntry) /\ Len(sorted) = Len(table) /\ DOMAIN sorted = D
  BY <1>2, <1>3
<1>5. {sorted[i] : i \in DOMAIN sorted} = {table[i] : i \in D}
  <2>1. \A i \in D : sorted[i] = table[p[i]] /\ p[i] \in D
    BY <1>1
  <2>2. \A i \in D : \E j \in D : p[j] = i
    BY <1>1
  <2>3. DOMAIN sorted = D
    BY <1>4
  <2> HIDE DEF D
  <2> QED BY <2>1, <2>2, <2>3
<1> QED BY <1>1, <1>4, <1>5
\* Looking a byte of the linked image up in the sorted table finds where the
\* optimiser moved it: the entries at or before it are a prefix, and the last of
\* them is the one it moved with.
LEMMA LookupFinds ==
    ASSUME NEW image, DOMAIN image.moved \subseteq Nat,
           \A b \in DOMAIN image.moved : image.moved[b] \in Nat,
           NEW table \in Seq(OmapEntry),
           {table[i] : i \in DOMAIN table} = OmapOf(image),
           omap \in InSourceOrder(table),
           NEW r \in DOMAIN image.moved
    PROVE  /\ omap # <<>>
           /\ Lookup(r) = IF image.moved[r] = 0 THEN None ELSE image.moved[r]
<1> DEFINE m == image.moved
           n == Len(omap)
           S == {j \in DOMAIN omap : omap[j].source <= r}
           c == Cardinality(S)
<1>1. /\ omap \in Seq(OmapEntry)
      /\ {omap[i] : i \in DOMAIN omap} = OmapOf(image)
      /\ \A i, j \in DOMAIN omap : i <= j => omap[i].source <= omap[j].source
  BY SortedTable
<1>2. n \in Nat /\ DOMAIN omap = 1..n /\ r \in Nat
  BY <1>1
<1>3. \A i \in 1..n : omap[i].source \in Nat /\ omap[i].target \in Nat
  <2>1. \A i \in 1..n : omap[i] \in OmapEntry
    BY <1>1, <1>2, HoldsItsKind
  <2> QED BY <2>1 DEF OmapEntry
<1>4. PICK s \in DOMAIN image.moved :
          /\ s <= r /\ ~Together(image, s)
          /\ \A b \in (s + 1)..r : Together(image, b)
          /\ m[r] = IF m[s] = 0 THEN 0 ELSE m[s] + (r - s)
  BY MovedWithItsEntry
<1>5. PICK k \in 1..n : omap[k] = [source |-> s, target |-> m[s]]
  <2>1. [source |-> s, target |-> m[s]] \in OmapOf(image)
    BY <1>4 DEF OmapOf
  <2> QED BY <1>1, <1>2, <2>1
<1>6. S = 1..c /\ c \in 0..n
  <2>1. S \in SUBSET (1..n)
    BY <1>2
  <2>2. ASSUME NEW j \in S, NEW i \in 1..n, i <= j PROVE i \in S
    <3>1. j \in 1..n /\ omap[j].source <= r /\ omap[i].source <= omap[j].source
      BY <1>1, <1>2, <2>2
    <3>2. omap[i].source <= r
      BY <3>1, <1>2, <1>3
    <3> QED BY <3>2, <1>2
  <2> HIDE DEF S, n
  <2>3. n \in Nat
    BY <1>2
  <2> QED BY <2>1, <2>2, <2>3, PrefixIsItsCount
<1>7. k \in S /\ k <= c /\ c \in 1..n /\ c \in S
  <2>1. k \in S
    BY <1>2, <1>4, <1>5
  <2> HIDE DEF S, c, n
  <2> QED BY <1>2, <1>6, <2>1
<1>8. PICK a \in DOMAIN image.moved :
          ~Together(image, a) /\ omap[c] = [source |-> a, target |-> m[a]]
  <2>1. omap[c] \in OmapOf(image)
    BY <1>1, <1>2, <1>7
  <2> HIDE DEF c
  <2> QED BY <2>1 DEF OmapOf
<1>9. a = s
  <2>1. omap[c].source = a /\ omap[k].source = s /\ a \in Nat /\ s \in Nat
    BY <1>5, <1>8
  <2>2. a <= r /\ s <= a
    <3>1. omap[c].source <= r
      BY <1>7
    <3>2. omap[k].source <= omap[c].source
      <4> HIDE DEF c, S, n
      <4> QED BY <1>1, <1>2, <1>7
    <3> QED BY <2>1, <3>1, <3>2
  <2>3. a \notin (s + 1)..r
    BY <1>4, <1>8
  <2> QED BY <1>2, <2>1, <2>2, <2>3
<1>10. Lookup(r) = IF m[s] = 0 THEN None ELSE m[s] + (r - s)
  <2>1. omap[c].source = s /\ omap[c].target = m[s] /\ c # 0
    BY <1>7, <1>8, <1>9
  <2> QED BY <2>1 DEF Lookup
<1>11. m[s] \in Nat /\ s \in Nat
  OBVIOUS
<1>12. omap # <<>>
  BY <1>2, <1>7
<1> HIDE DEF m
<1>13. Lookup(r) = IF m[r] = 0 THEN None ELSE m[r]
  BY <1>2, <1>4, <1>10, <1>11
<1> QED BY <1>12, <1>13 DEF m
-----------------------------------------------------------------------------
(* An open PDB is right or says so *)

\* What has been read so far is what the streams hold.
ReadSoFar ==
    /\ pc \in {"original", "rebuild", "laying", "omap", "open"} =>
           sections = TableOrNone(file.headers)
    /\ pc \in {"rebuild", "laying", "omap", "open"} =>
           original = TableOrNone(file.original)
    /\ pc = "open" =>
           omap \in IF file.omap.state = "ok" THEN InSourceOrder(file.omap.table)
                    ELSE {<<>>}

\* The map's entries up to k that are segments of the image.
SegmentsTo(map, k) == {j \in 1..k : ~map[j].absolute}

\* A rebuild under way has laid the segments it passed where the linker did.
LaidAsLinked ==
    LET n == Len(derived)
        lengths == file.image.lengths
    IN  /\ cursor.entry \in 1..(Len(file.map) + 1)
        /\ n = Cardinality(SegmentsTo(file.map, cursor.entry - 1))
        /\ n <= Len(lengths)
        /\ \A k \in 1..n : derived[k] = LinkedAt(lengths)[k]
        /\ cursor.at = IF n = 0 THEN Align
                       ELSE LinkedAt(lengths)[n] + Rounded(lengths[n])

\* No table is derived, a prefix of the layout, or in the end all of it or none.
RebuiltSoFar ==
    /\ pc \in {"headers", "original", "rebuild"} => derived = NoTable
    /\ pc = "laying" => Positional /\ LaidAsLinked
    /\ pc \in {"omap", "open"} => derived \in {NoTable, LinkedAt(file.image.lengths)}

\* The inductive invariant behind TroubleIsSaid, beside IInv.
LoadInv == ReadSoFar /\ RebuiltSoFar

\* One entry more is one segment more, unless it is the absolute one.
LEMMA SegmentsAreFinite ==
    ASSUME NEW map, NEW k \in Nat
    PROVE  /\ IsFiniteSet(SegmentsTo(map, k)) /\ Cardinality(SegmentsTo(map, k)) \in Nat
           /\ Cardinality(SegmentsTo(map, k)) <= Cardinality(SegmentsTo(map, k + 1))
           /\ ~map[k + 1].absolute =>
                  Cardinality(SegmentsTo(map, k + 1)) = Cardinality(SegmentsTo(map, k)) + 1
           /\ map[k + 1].absolute => SegmentsTo(map, k + 1) = SegmentsTo(map, k)
<1>0. \A j \in 1..(k + 1) : j \in 1..k \/ j = k + 1
  OBVIOUS
<1>1. IsFiniteSet(1..k) /\ SegmentsTo(map, k) \subseteq 1..k
  BY FS_Interval DEF SegmentsTo
<1>2. IsFiniteSet(SegmentsTo(map, k)) /\ Cardinality(SegmentsTo(map, k)) \in Nat
  BY <1>1, FS_Subset, FS_CardinalityType
<1>3. CASE map[k + 1].absolute
  <2>1. SegmentsTo(map, k + 1) = SegmentsTo(map, k)
    BY <1>0, <1>3 DEF SegmentsTo
  <2> QED BY <1>2, <1>3, <2>1
<1>4. CASE ~map[k + 1].absolute
  <2>1. SegmentsTo(map, k + 1) = SegmentsTo(map, k) \cup {k + 1} /\ k + 1 \notin SegmentsTo(map, k)
    BY <1>0, <1>4 DEF SegmentsTo
  <2>2. Cardinality(SegmentsTo(map, k + 1)) = Cardinality(SegmentsTo(map, k)) + 1
    BY <1>2, <2>1, FS_AddElement
  <2> QED BY <1>2, <1>4, <2>2
<1> QED BY <1>3, <1>4

\* The segments up to any entry are no more than the sections, if any are there.
LEMMA SegmentsAreSections ==
    ASSUME file \in Files, NEW k \in 0..Len(file.map)
    PROVE  /\ Cardinality(SegmentsTo(file.map, k)) <= Cardinality(SegmentsTo(file.map, Len(file.map)))
           /\ Cardinality(SegmentsTo(file.map, Len(file.map))) \in {0, Len(file.image.lengths)}
<1> DEFINE n == Len(file.map)
<1>1. /\ file.map \in Seq(MapEntry)
      /\ Cardinality({i \in DOMAIN file.map : ~file.map[i].absolute})
             \in {0, Len(file.image.lengths)}
  BY FilesAreWritten DEF MapIsTheLinkers
<1>2. n \in Nat /\ DOMAIN file.map = 1..n
  BY <1>1, HoldsItsKind
<1>3. SegmentsTo(file.map, n) = {i \in DOMAIN file.map : ~file.map[i].absolute}
  BY <1>2 DEF SegmentsTo
<1>4. SegmentsTo(file.map, k) \subseteq SegmentsTo(file.map, n) /\ IsFiniteSet(SegmentsTo(file.map, n))
  <2>1. \A j \in 1..k : j \in 1..n
    BY <1>2
  <2>2. IsFiniteSet(SegmentsTo(file.map, n))
    BY <1>2, SegmentsAreFinite
  <2> QED BY <2>1, <2>2 DEF SegmentsTo
<1>5. Cardinality(SegmentsTo(file.map, k)) <= Cardinality(SegmentsTo(file.map, n))
  BY <1>4, FS_Subset
<1> QED BY <1>1, <1>3, <1>5

\* What is known of the file in hand.
LEMMA FileTypes ==
    ASSUME file \in Files
    PROVE  /\ file.image.lengths \in Seq(Nat)
           /\ file.map \in Seq(MapEntry)
           /\ DOMAIN file.map = 1..Len(file.map) /\ Len(file.map) \in Nat
           /\ DOMAIN file.image.lengths = 1..Len(file.image.lengths)
           /\ Len(file.image.lengths) \in Nat
<1>1. /\ file.image.lengths \in Seq(Nat)
      /\ file.map \in Seq(MapEntry)
  BY FilesAreWritten DEF MapIsTheLinkers, TablesAreTheLinkers
<1> QED BY <1>1, HoldsItsKind

\* A segment is laid where the linker put its section: they have the same number,
\* hence the same length, and so does every one before.
LEMMA LaysNext ==
    ASSUME TablesOK, LoadInv, LaySegment
    PROVE  LaidAsLinked'
<1> DEFINE n == Len(derived)
           lengths == file.image.lengths
           at == LinkedAt(lengths)
           k == cursor.entry
           e == file.map[k]
<1>0. /\ file \in Files /\ file' = file /\ k \in Nat /\ cursor.at \in Nat
      /\ cursor \in [entry : Nat, at : Nat] /\ derived \in Seq(Nat)
  BY DEF TablesOK, LaySegment
<1>1. /\ lengths \in Seq(Nat) /\ Len(lengths) \in Nat
      /\ DOMAIN file.map = 1..Len(file.map) /\ Len(file.map) \in Nat
      /\ DOMAIN lengths = 1..Len(lengths)
  BY <1>0, FileTypes
<1>2. /\ k \in 1..Len(file.map) /\ Positional
      /\ n = Cardinality(SegmentsTo(file.map, k - 1)) /\ n <= Len(lengths)
      /\ \A i \in 1..n : derived[i] = at[i]
      /\ cursor.at = IF n = 0 THEN Align ELSE at[n] + Rounded(lengths[n])
  BY <1>1 DEF LaySegment, LoadInv, RebuiltSoFar, LaidAsLinked
<1>3. /\ k - 1 \in Nat /\ (k - 1) + 1 = k /\ k \in 0..Len(file.map)
      /\ (k + 1) - 1 = k /\ k + 1 \in 1..(Len(file.map) + 1) /\ n \in Nat
  <2>1. n \in Nat
    BY <1>0
  <2> HIDE DEF k, n
  <2> QED BY <1>1, <1>2, <2>1
<1>4. /\ ~e.absolute => Cardinality(SegmentsTo(file.map, k)) = n + 1
      /\ e.absolute => SegmentsTo(file.map, k) = SegmentsTo(file.map, k - 1)
  <2> HIDE DEF k, n
  <2>1. /\ ~file.map[(k - 1) + 1].absolute =>
               Cardinality(SegmentsTo(file.map, (k - 1) + 1))
                   = Cardinality(SegmentsTo(file.map, k - 1)) + 1
        /\ file.map[(k - 1) + 1].absolute =>
               SegmentsTo(file.map, (k - 1) + 1) = SegmentsTo(file.map, k - 1)
    BY <1>3, SegmentsAreFinite
  <2> QED BY <1>2, <1>3, <2>1 DEF e
<1>6. CASE e.absolute
  <2>1. derived' = derived /\ cursor' = [cursor EXCEPT !.entry = @ + 1]
    BY <1>6 DEF LaySegment
  <2>2. cursor'.entry = k + 1 /\ cursor'.at = cursor.at
    BY <1>0, <2>1
  <2>3. n = Cardinality(SegmentsTo(file.map, k))
    BY <1>2, <1>4, <1>6
  <2> HIDE DEF k, n, lengths, at
  <2>4. /\ Len(derived') = n /\ n = Cardinality(SegmentsTo(file'.map, cursor'.entry - 1))
        /\ cursor'.entry \in 1..(Len(file'.map) + 1)
    BY <1>0, <1>3, <2>1, <2>2, <2>3 DEF n
  <2> QED BY <1>0, <1>2, <2>1, <2>2, <2>4 DEF LaidAsLinked, lengths, at
<1>7. CASE ~e.absolute
  <2>1. /\ derived' = Append(derived, cursor.at)
        /\ cursor' = [entry |-> k + 1, at |-> cursor.at + Rounded(e.length)]
    BY <1>7 DEF LaySegment, Rounded
  <2>2. n + 1 <= Len(lengths)
    <3>1. /\ Cardinality(SegmentsTo(file.map, k)) <= Cardinality(SegmentsTo(file.map, Len(file.map)))
          /\ Cardinality(SegmentsTo(file.map, Len(file.map))) \in {0, Len(lengths)}
      <4> HIDE DEF k
      <4> QED BY <1>0, <1>3, SegmentsAreSections
    <3> HIDE DEF n, lengths, k
    <3> QED BY <3>1, <1>1, <1>3, <1>4, <1>7
  <2>3. e.length = lengths[n + 1]
    <3>1. e.frame = n + 1
      <4>1. e.frame = Cardinality(SegmentsTo(file.map, k))
        BY <1>1, <1>2, <1>7 DEF Positional, SegmentsTo
      <4> QED BY <4>1, <1>4, <1>7
    <3>2. n + 1 \in DOMAIN lengths
      BY <1>1, <1>3, <2>2
    <3>3. \A i \in DOMAIN file.map :
              ~file.map[i].absolute /\ file.map[i].frame \in DOMAIN file.image.lengths
                  => file.map[i].length = file.image.lengths[file.map[i].frame]
      BY <1>0, FilesAreWritten DEF MapIsTheLinkers
    <3> QED BY <1>1, <1>2, <1>7, <3>1, <3>2, <3>3
  <2>4. at[n + 1] = cursor.at
    <3>1. /\ Len(lengths) # 0 => at[1] = Align
          /\ \A i \in 2..Len(lengths) : at[i] = at[i - 1] + Rounded(lengths[i - 1])
      BY <1>1, LinkedPlaces
    <3> HIDE DEF n, at, lengths
    <3>2. CASE n = 0
      BY <3>1, <3>2, <1>1, <1>2, <2>2
    <3>3. CASE n # 0
      <4>1. n + 1 \in 2..Len(lengths) /\ (n + 1) - 1 = n
        BY <1>1, <1>3, <2>2, <3>3
      <4> QED BY <3>1, <3>3, <4>1, <1>2
    <3> QED BY <3>2, <3>3
  <2>5. Len(derived') = n + 1 /\ \A i \in 1..(n + 1) : derived'[i] = at[i]
    <3>1. Len(derived') = n + 1 /\ derived'[n + 1] = cursor.at /\ \A i \in 1..n : derived'[i] = derived[i]
      BY <1>0, <2>1
    <3>2. \A i \in 1..(n + 1) : i \in 1..n \/ i = n + 1
      BY <1>3
    <3> HIDE DEF n, at
    <3> QED BY <3>1, <3>2, <1>2, <2>4
  <2>6. cursor'.at = at[n + 1] + Rounded(lengths[n + 1]) /\ cursor'.entry = k + 1
    <3> HIDE DEF e, at, n, k, lengths
    <3> QED BY <2>1, <2>3, <2>4
  <2>7. Cardinality(SegmentsTo(file'.map, cursor'.entry - 1)) = n + 1
    <3> HIDE DEF e, at, n, k, lengths
    <3> QED BY <1>0, <1>3, <1>4, <1>7, <2>6
  <2>8. file'.image.lengths = lengths /\ LinkedAt(lengths)' = at
    BY <1>0
  <2>9. n + 1 # 0 /\ k + 1 \in 1..(Len(file'.map) + 1)
    BY <1>0, <1>3
  <2>10. LinkedAt(file'.image.lengths) = at
    BY <1>0
  <2> HIDE DEF e, at, n, k, lengths
  <2> QED BY <2>2, <2>5, <2>6, <2>7, <2>8, <2>9, <2>10 DEF LaidAsLinked
<1> QED BY <1>6, <1>7

\* Nothing has been read or rebuilt at first.
LEMMA LoadStarts == AddressInit => LoadInv
BY DEF AddressInit, LoadInv, ReadSoFar, RebuiltSoFar

\* A step of loading keeps what it has not to do with.
LEMMA LoadGoesOn ==
    ASSUME TablesOK, LoadInv, [AddressNext]_addressVars
    PROVE  LoadInv'
<1> USE DEF LoadInv
<1>1. CASE LoadHeaders
  BY <1>1 DEF LoadHeaders, RefuseStream, ReadSoFar, RebuiltSoFar, tables
<1>2. CASE LoadOriginal
  BY <1>2 DEF LoadOriginal, RefuseStream, ReadSoFar, RebuiltSoFar, tables
<1>3. CASE LoadOmap
  <2>1. CASE RefuseStream(file.omap)
    BY <1>3, <2>1 DEF LoadOmap, RefuseStream, ReadSoFar, RebuiltSoFar, tables
  <2>2. CASE ~RefuseStream(file.omap)
    <3>1. /\ pc = "omap" /\ pc' = "open"
          /\ omap' \in IF file.omap.state = "ok" THEN InSourceOrder(file.omap.table)
                        ELSE {<<>>}
          /\ UNCHANGED <<file, sections, original, derived>>
      BY <1>3, <2>2 DEF LoadOmap
    <3>2. ReadSoFar'
      <4>1. sections' = TableOrNone(file'.headers) /\ original' = TableOrNone(file'.original)
        BY <3>1 DEF ReadSoFar
      <4> QED BY <3>1, <4>1 DEF ReadSoFar
    <3>3. RebuiltSoFar'
      BY <3>1 DEF RebuiltSoFar
    <3> QED BY <3>2, <3>3
  <2> QED BY <2>1, <2>2
<1>4. CASE BeginRebuild
  <2>1. /\ pc = "rebuild" /\ UNCHANGED <<file, sections, original, derived, omap>>
        /\ pc' \in {"laying", "omap"} /\ derived = NoTable
        /\ pc' = "laying" => Positional
        /\ cursor' = [entry |-> 1, at |-> Align]
    BY <1>4 DEF BeginRebuild, tables, RebuiltSoFar
  <2>2. ReadSoFar'
    BY <2>1 DEF ReadSoFar
  <2>3. CASE pc' = "omap"
    BY <2>1, <2>2, <2>3 DEF RebuiltSoFar
  <2>4. CASE pc' = "laying"
    <3>1. Positional'
      BY <2>1, <2>4 DEF Positional
    <3>2. Len(derived') = 0 /\ cursor'.entry = 1 /\ cursor'.at = Align
      BY <2>1 DEF NoTable
    <3>3. SegmentsTo(file'.map, cursor'.entry - 1) = {}
      BY <3>2 DEF SegmentsTo
    <3>4. Cardinality(SegmentsTo(file'.map, cursor'.entry - 1)) = 0
      BY <3>3, FS_EmptySet
    <3>5. Len(file'.map) \in Nat /\ Len(file'.image.lengths) \in Nat
      BY <2>1, FileTypes DEF TablesOK
    <3>6. LaidAsLinked'
      BY <3>2, <3>4, <3>5 DEF LaidAsLinked
    <3> QED BY <2>2, <2>4, <3>1, <3>6 DEF RebuiltSoFar
  <2> QED BY <2>1, <2>3, <2>4
<1>5. CASE LaySegment
  <2>1. pc = "laying" /\ UNCHANGED <<file, pc, sections, original, omap>>
    BY <1>5 DEF LaySegment
  <2>2. LaidAsLinked'
    BY <1>5, LaysNext
  <2>3. Positional'
    BY <2>1 DEF Positional, RebuiltSoFar
  <2> QED BY <2>1, <2>2, <2>3 DEF ReadSoFar, RebuiltSoFar
<1>6. CASE EndRebuild
  <2> DEFINE n == Len(derived)
             lengths == file.image.lengths
  <2>1. /\ pc = "laying" /\ pc' = "omap" /\ cursor.entry \notin DOMAIN file.map
        /\ UNCHANGED <<file, sections, original, derived, omap>> /\ LaidAsLinked
    BY <1>6 DEF EndRebuild, tables, RebuiltSoFar
  <2>2. /\ DOMAIN file.map = 1..Len(file.map) /\ Len(file.map) \in Nat
        /\ lengths \in Seq(Nat) /\ Len(lengths) \in Nat
    BY FileTypes DEF TablesOK
  <2>3. cursor.entry - 1 = Len(file.map)
    BY <2>1, <2>2 DEF LaidAsLinked
  <2>4. n \in {0, Len(lengths)}
    <3>1. Len(file.map) \in 0..Len(file.map)
      BY <2>2
    <3>2. n = Cardinality(SegmentsTo(file.map, Len(file.map)))
      BY <2>1, <2>3 DEF LaidAsLinked
    <3> QED BY <3>1, <3>2, SegmentsAreSections DEF TablesOK
  <2>5. derived \in {NoTable, LinkedAt(lengths)}
    <3>1. derived \in Seq(Nat) /\ \A i \in 1..n : derived[i] = LinkedAt(lengths)[i]
      BY <2>1 DEF LaidAsLinked, TablesOK
    <3>2. CASE n = 0
      BY <3>1, <3>2 DEF NoTable
    <3>3. CASE n = Len(lengths)
      <4>1. LinkedAt(lengths) \in Seq(Nat) /\ Len(LinkedAt(lengths)) = n
        BY <2>2, <3>3, LinkedPlaces
      <4> DEFINE at == LinkedAt(lengths)
      <4> HIDE DEF at
      <4>2. at \in Seq(Nat) /\ Len(at) = n /\ \A i \in 1..n : derived[i] = at[i]
        BY <3>1, <4>1 DEF at
      <4>3. derived = at
        BY <3>1, <4>2
      <4> QED BY <4>3 DEF at
    <3> QED BY <2>4, <3>2, <3>3
  <2> QED BY <2>1, <2>5 DEF ReadSoFar, RebuiltSoFar
<1>7. CASE \/ BeginLines \/ EndLines \/ Ask \/ UNCHANGED addressVars
  <2>1. UNCHANGED <<file, pc, cursor, tables>>
    BY <1>7 DEF BeginLines, EndLines, Ask, ToRva, LineEntry, addressVars, tables
  <2>2. UNCHANGED <<file, pc, cursor, sections, original, derived, omap>>
    BY <2>1 DEF tables
  <2>3. Positional' = Positional /\ LaidAsLinked' = LaidAsLinked
    BY <2>2 DEF Positional, LaidAsLinked
  <2>4. RebuiltSoFar'
    BY <2>2, <2>3 DEF RebuiltSoFar
  <2>5. ReadSoFar'
    BY <2>2 DEF ReadSoFar
  <2> QED BY <2>4, <2>5
<1> QED BY <1>1, <1>2, <1>3, <1>4, <1>5, <1>6, <1>7 DEF AddressNext

\* What is asked for has an offset that is a number.
OffsetIsNat == Asked => answer.offset \in Nat

\* Every question has an offset out of Offsets.
LEMMA OffsetStaysNat == OffsetIsNat /\ [AddressNext]_addressVars => OffsetIsNat'
<1> SUFFICES ASSUME OffsetIsNat, [AddressNext]_addressVars PROVE OffsetIsNat'
  OBVIOUS
<1>1. CASE Ask
  <2>1. PICK segment \in Segments, offset \in Offsets :
            ToRva(segment, offset) \/ LineEntry(segment, offset)
    BY <1>1 DEF Ask
  <2>2. answer'.offset = offset
    BY <2>1 DEF ToRva, LineEntry
  <2> QED BY <2>2, OffsetsAreNat DEF OffsetIsNat
<1>2. CASE ~Ask
  <2>1. answer' = answer
    BY <1>2 DEF AddressNext, addressVars, LoadHeaders, LoadOriginal, LoadOmap, BeginRebuild, LaySegment,
           EndRebuild, BeginLines, EndLines, RefuseStream
  <2> QED BY <2>1 DEF OffsetIsNat, Asked
<1> QED BY <1>1, <1>2

\* An open PDB, asked for a byte that the image has: right, or said to be wrong.
LEMMA AnswerIsRightOrSaid ==
    ASSUME TablesOK, LoadInv, pc = "open",
           NEW segment \in DOMAIN file.image.lengths, NEW offset \in Nat,
           offset < file.image.lengths[segment]
    PROVE  LET rva == RvaOf(segment, offset)
               truth == TrueRva(file.image, segment, offset)
           IN  \/ rva = truth
               \/ rva = None /\ "unresolvable" \in AddressWarnings
               \/ rva # None /\ AddressWarnings \cap {"map_not_applied", "pre_optimisation"} # {}
<1> DEFINE image == file.image
           at == LinkedAt(image.lengths)
           linked == at[segment] + offset
           rva == RvaOf(segment, offset)
           truth == TrueRva(image, segment, offset)
<1>1. /\ image.lengths \in Seq(Nat) /\ DOMAIN image.lengths = 1..Len(image.lengths)
      /\ Len(image.lengths) \in Nat
  BY FileTypes DEF TablesOK
<1>2. at \in Seq(Nat) /\ Len(at) = Len(image.lengths)
  BY <1>1, LinkedPlaces
<1>3. segment \in DOMAIN at /\ at # NoTable /\ at[segment] \in Nat
  <2> HIDE DEF at, image
  <2>1. segment \in 1..Len(at)
    BY <1>1, <1>2 DEF image
  <2> QED BY <1>2, <2>1, HoldsItsKind DEF NoTable
<1>4. linked \in Nat /\ linked # None
  <2> HIDE DEF at
  <2> QED BY <1>3, NoneIsNoAddress
<1>5. /\ sections = TableOrNone(file.headers) /\ original = TableOrNone(file.original)
      /\ derived \in {NoTable, at}
      /\ omap \in IF file.omap.state = "ok" THEN InSourceOrder(file.omap.table)
                  ELSE {<<>>}
  BY DEF LoadInv, ReadSoFar, RebuiltSoFar
<1>6. TablesAreTheLinkers(file)
  BY FilesAreWritten DEF TablesOK
<1>7. TableRva(at, segment, offset) = linked
  BY <1>3 DEF TableRva
<1>8. sections # NoTable => segment \in DOMAIN sections /\ sections[segment] \in Nat
  <2> SUFFICES ASSUME sections # NoTable
               PROVE  segment \in DOMAIN sections /\ sections[segment] \in Nat
    OBVIOUS
  <2>1. sections = file.headers.table /\ sections \in Seq(Nat)
    BY <1>5 DEF TableOrNone, TablesOK
  <2>2. Len(sections) = Len(image.lengths)
    BY <1>6, <2>1 DEF TablesAreTheLinkers
  <2>3. segment \in 1..Len(sections)
    BY <1>1, <2>2
  <2> QED BY <2>1, <2>3, HoldsItsKind
<1>9. CASE ~IsOptimised(image)
  <2>1. truth = linked
    BY <1>9 DEF TrueRva
  <2>2. original = NoTable /\ sections \in {NoTable, at}
    BY <1>5, <1>6, <1>9 DEF TablesAreTheLinkers, TableOrNone
  <2>3. rva = TableRva(SymbolSections, segment, offset) /\ SymbolSections \in {NoTable, at}
    BY <1>5, <2>2 DEF RvaOf, MapApplies, SymbolSections
  <2>4. CASE SymbolSections = at
    BY <2>1, <2>3, <2>4, <1>7
  <2>5. CASE SymbolSections = NoTable
    <3>1. rva = None
      BY <2>3, <2>5 DEF TableRva, NoTable
    <3>2. sections = NoTable /\ derived = NoTable
      BY <2>2, <2>5 DEF SymbolSections
    <3>3. "unresolvable" \in AddressWarnings
      BY <2>2, <3>2 DEF AddressWarnings, SectionWarnings, HasHeaders, HasOriginal
    <3> QED BY <3>1, <3>3
  <2> QED BY <2>3, <2>4, <2>5
<1>10. CASE IsOptimised(image)
  <2>1. /\ file.original.table = at
        /\ file.omap.table \in Seq(OmapEntry)
        /\ {file.omap.table[i] : i \in DOMAIN file.omap.table} = OmapOf(image)
        /\ file.original.state = "ok" \/ file.omap.state = "ok"
        /\ DOMAIN image.moved \subseteq Nat
        /\ \A b \in DOMAIN image.moved : image.moved[b] \in Nat
        /\ linked \in DOMAIN image.moved
    <3>1. offset \in 0..(image.lengths[segment] - 1)
      BY <1>1
    <3> QED BY <1>6, <1>10, <3>1 DEF TablesAreTheLinkers
  <2>2. truth = IF image.moved[linked] = 0 THEN None ELSE image.moved[linked]
    BY <1>10 DEF TrueRva
  <2> HIDE DEF linked, truth, rva, image, at
  <2>3. file.omap.state = "ok" => omap # <<>> /\ Lookup(linked) = truth
    <3> SUFFICES ASSUME file.omap.state = "ok" PROVE omap # <<>> /\ Lookup(linked) = truth
      OBVIOUS
    <3>1. omap \in InSourceOrder(file.omap.table)
      BY <1>5
    <3> QED BY <2>1, <2>2, <3>1, LookupFinds
  <2>4. CASE file.original.state = "ok"
    <3>1. original = at /\ SymbolSections = at
      BY <1>3, <1>5, <2>1, <2>4 DEF TableOrNone, SymbolSections
    <3>2. CASE omap # <<>>
      <4>1. rva = Lookup(linked)
        BY <1>3, <1>4, <1>7, <3>1, <3>2 DEF RvaOf, MapApplies, rva
      <4>2. file.omap.state = "ok"
        BY <1>5, <3>2
      <4> QED BY <2>3, <4>1, <4>2 DEF truth, rva, image
    <3>3. CASE omap = <<>>
      <4>1. rva = linked
        BY <1>7, <3>1, <3>3 DEF RvaOf, MapApplies, rva
      <4>2. "pre_optimisation" \in AddressWarnings
        BY <1>3, <3>1, <3>3 DEF AddressWarnings, MapWarnings, HasOriginal, HasOmap
      <4> QED BY <1>4, <4>1, <4>2 DEF rva, linked
    <3> QED BY <3>2, <3>3
  <2>5. CASE file.original.state # "ok"
    <3>1. original = NoTable /\ omap # <<>>
      BY <1>5, <2>1, <2>3, <2>5 DEF TableOrNone
    <3>2. rva = TableRva(SymbolSections, segment, offset)
      BY <3>1 DEF RvaOf, MapApplies, rva
    <3>3. "map_not_applied" \in AddressWarnings
      BY <3>1 DEF AddressWarnings, MapWarnings, HasOmap, HasOriginal
    <3>4. CASE sections # NoTable
      <4>1. rva = sections[segment] + offset
        BY <1>8, <3>1, <3>2, <3>4 DEF SymbolSections, TableRva
      <4>2. rva # None
        BY <1>8, <3>4, <4>1, NoneIsNoAddress
      <4> QED BY <3>3, <4>2 DEF rva
    <3>5. CASE sections = NoTable /\ derived = at
      <4>1. rva = linked
        BY <1>7, <3>1, <3>2, <3>5 DEF SymbolSections
      <4> QED BY <1>4, <3>3, <4>1 DEF rva
    <3>6. CASE sections = NoTable /\ derived = NoTable
      <4>1. rva = None
        BY <3>1, <3>2, <3>6 DEF SymbolSections, TableRva, NoTable
      <4>2. "unresolvable" \in AddressWarnings
        BY <3>1, <3>6 DEF AddressWarnings, SectionWarnings, HasHeaders, HasOriginal
      <4> QED BY <4>1, <4>2 DEF rva
    <3> QED BY <1>5, <3>4, <3>5, <3>6
  <2> QED BY <2>4, <2>5
<1> QED BY <1>9, <1>10

\* The invariants give the three parts of TroubleIsSaid.
LEMMA WhatIsAskedIsSaid == IInv /\ LoadInv /\ OffsetIsNat => TroubleIsSaid
<1> SUFFICES ASSUME IInv, LoadInv, OffsetIsNat PROVE TroubleIsSaid
  OBVIOUS
<1>1. TablesOK
  BY DEF IInv
<1>2. ASSUME Known
      PROVE  \/ answer.rva = Truth
             \/ answer.rva = None /\ "unresolvable" \in AddressWarnings
             \/ answer.rva # None
                /\ AddressWarnings \cap {"map_not_applied", "pre_optimisation"} # {}
  <2>1. /\ pc = "open" /\ answer.segment \in DOMAIN file.image.lengths
        /\ answer.offset \in Nat /\ answer.offset < file.image.lengths[answer.segment]
        /\ answer.rva = RvaOf(answer.segment, answer.offset)
    BY <1>2 DEF Known, IInv, OnlyOpen, OffsetIsNat, LinesAgree
  <2> QED BY <1>1, <2>1, AnswerIsRightOrSaid DEF Truth
<1>3. WrongAddressIsWarned /\ MissingAddressIsWarned
  BY <1>2 DEF WrongAddressIsWarned, MissingAddressIsWarned
<1>4. ReconstructionIsSaid
  <2> SUFFICES ASSUME pc = "open", SymbolSections # NoTable
               PROVE  SymbolSections \notin {original, sections}
                          <=> "reconstructed" \in AddressWarnings
    BY DEF ReconstructionIsSaid, LoadInv, ReadSoFar
  <2>1. "reconstructed" \in AddressWarnings
            <=> sections = NoTable /\ original = NoTable /\ derived # NoTable
    BY DEF AddressWarnings, SectionWarnings, MapWarnings, HasHeaders, HasOriginal
  <2> QED BY <2>1 DEF SymbolSections
<1> QED BY <1>3, <1>4 DEF TroubleIsSaid

(***************************************************************************)
(* For every image, alignment, table and map of a file that the tools      *)
(* wrote, whichever of its streams are missing: to_rva() and lines() give  *)
(* the shipped address of a byte or None, or Diagnostics.warnings says     *)
(* what is wrong with the addresses.                                       *)
(***************************************************************************)
THEOREM NoWrongAddressGoesUnsaid == AddressSpec => []TroubleIsSaid
<1>1. AddressInit => IInv /\ LoadInv /\ OffsetIsNat
  BY InitEstablishes, LoadStarts DEF AddressInit, OffsetIsNat, Asked
<1>2. IInv /\ LoadInv /\ OffsetIsNat /\ [AddressNext]_addressVars
          => IInv' /\ LoadInv' /\ OffsetIsNat'
  BY NextPreserves, LoadGoesOn, OffsetStaysNat DEF IInv
<1> QED BY <1>1, <1>2, WhatIsAskedIsSaid, PTL DEF AddressSpec

-----------------------------------------------------------------------------
(* The placement of inline sites                                             *)

\* The modules of a file are a sequence, and so are the records of each.
LEMMA FilesAreModules ==
  ASSUME modules \in InlineFiles
  PROVE  /\ DOMAIN modules = 1..Len(modules) /\ Len(modules) \in Nat
         /\ modules # <<>> => Len(modules) > 0
         /\ \A m \in DOMAIN modules :
              DOMAIN modules[m] = 1..Len(modules[m]) /\ Len(modules[m]) \in Nat
<1>1. modules \in Seq(ToSet(modules))
  BY InlineFilesAssumption
<1>2. ASSUME NEW m \in DOMAIN modules
      PROVE  DOMAIN modules[m] = 1..Len(modules[m]) /\ Len(modules[m]) \in Nat
  <2>1. modules[m] \in ToSet(modules)
    BY DEF ToSet
  <2>2. modules[m] \in Seq(ToSet(modules[m]))
    BY <2>1, InlineFilesAssumption
  <2> QED
    BY <2>2
<1> QED
  BY <1>1, <1>2

\* What is known of each record of a module.
LEMMA RecordsFit ==
  ASSUME modules \in InlineFiles, NEW m \in DOMAIN modules, NEW i \in DOMAIN modules[m]
  PROVE  /\ modules[m][i].kind \in InlineKinds /\ modules[m][i].ok \in BOOLEAN
         /\ modules[m][i].kind = "site" =>
              modules[m][i].own \in BOOLEAN /\ modules[m][i].chunks \subseteq Nat
<1>1. modules[m] \in ToSet(modules)
  BY DEF ToSet
<1> QED
  BY <1>1, InlineFilesAssumption

\* A procedure goes up to the first S_END after it.
LEMMA ProceduresNest ==
  ASSUME modules \in InlineFiles, NEW m \in DOMAIN modules, NEW p \in DOMAIN modules[m],
         modules[m][p].kind = "proc"
  PROVE  /\ modules[m][p].end \in p+1..Len(modules[m])
         /\ modules[m][modules[m][p].end].kind = "end"
         /\ \A i \in p+1..modules[m][p].end-1 : modules[m][i].kind \notin {"proc", "end"}
<1>1. modules[m] \in ToSet(modules)
  BY DEF ToSet
<1> QED
  BY <1>1, ModulesAreWritten

\* The records that say where a procedure's code is: itself and its chunks.
CodeOf(m, p) ==
  {p} \cup {k \in DOMAIN modules[m] : modules[m][k].kind = "sepcode"
                                       /\ modules[m][k].parent = modules[m][p].addr}

\* No two of them say the same.
LEMMA AddressesDiffer ==
  ASSUME modules \in InlineFiles, NEW m \in DOMAIN modules, NEW p,
         NEW i \in CodeOf(m, p), NEW j \in CodeOf(m, p), modules[m][i].addr = modules[m][j].addr
  PROVE  i = j
<1>1. modules[m] \in ToSet(modules)
  BY DEF ToSet
<1>2. \A k, l \in {k \in DOMAIN modules[m] : modules[m][k].kind = "sepcode"} :
        /\ modules[m][k].addr # modules[m][k].parent
        /\ modules[m][k].parent = modules[m][l].parent /\ modules[m][k].addr = modules[m][l].addr => k = l
  BY <1>1, ModulesAreWritten
<1> QED
  BY <1>2 DEF CodeOf

-----------------------------------------------------------------------------
\* The readable procedures of a module, and a procedure's readable chunks up to a record.
ReadProcs(m) == {i \in DOMAIN modules[m] : modules[m][i].kind = "proc" /\ modules[m][i].ok}
ReadChunks(m, addr, k) ==
  {i \in DOMAIN modules[m] : /\ modules[m][i].kind = "sepcode" /\ modules[m][i].ok
                             /\ modules[m][i].parent = addr /\ i < k}

\* The procedures and the chunks before a record have been collected.
Collected(k) ==
  /\ procs \in Seq(Nat) /\ ToSet(procs) = {i \in ReadProcs(mod) : i < k}
  /\ \A p \in ReadProcs(mod) : InOrder(ChunksOf(Addr(p)), ReadChunks(mod, Addr(p), k))

\* Nothing has been collected at the beginning of a module.
LEMMA NothingCollected ==
  (/\ modules \in InlineFiles /\ mod \in DOMAIN modules
   /\ procs = <<>> /\ chunks = <<>>) => Collected(1)
<1> SUFFICES ASSUME modules \in InlineFiles, mod \in DOMAIN modules, procs = <<>>, chunks = <<>>
             PROVE  Collected(1)
  OBVIOUS
<1>1. DOMAIN modules[mod] = 1..Len(modules[mod]) /\ Len(modules[mod]) \in Nat
  BY FilesAreModules
<1>2. procs \in Seq(Nat) /\ ToSet(procs) = {i \in ReadProcs(mod) : i < 1}
  BY <1>1 DEF ToSet, ReadProcs
<1>3. ASSUME NEW p \in ReadProcs(mod)
      PROVE  InOrder(ChunksOf(Addr(p)), ReadChunks(mod, Addr(p), 1))
  <2>1. ReadChunks(mod, Addr(p), 1) = {}
    BY <1>1 DEF ReadChunks
  <2>2. ChunksOf(Addr(p)) = <<>>
    BY DEF ChunksOf
  <2>3. IsFiniteSet({}) /\ Cardinality({}) = 0
    BY FS_EmptySet
  <2>4. <<>> \in [1..0 -> {}] /\ 1..0 = {}
    OBVIOUS
  <2>5. InOrder(<<>>, {})
    BY <2>3, <2>4 DEF InOrder
  <2> QED
    BY <2>1, <2>2, <2>5
<1> QED
  BY <1>2, <1>3 DEF Collected

\* A record collected is one more.
LEMMA CollectingOne ==
  ASSUME modules \in InlineFiles, mod \in DOMAIN modules, NEW k, k = record_no,
         k \in DOMAIN Body, Collected(k),
         CollectProc \/ CollectChunk \/ CollectNothing
  PROVE  Collected(k + 1)'
<1>0. UNCHANGED <<modules, mod>>
  BY DEF CollectProc, CollectChunk, CollectNothing
<1>1. DOMAIN modules[mod] = 1..Len(modules[mod]) /\ Len(modules[mod]) \in Nat /\ k \in DOMAIN modules[mod]
  BY FilesAreModules DEF Body
<1>2. k \in Nat
  BY <1>1
<1>3. procs' \in Seq(Nat) /\ ToSet(procs') = {i \in ReadProcs(mod) : i < k + 1}
  <2>0. procs \in Seq(Nat) /\ ToSet(procs) = {i \in ReadProcs(mod) : i < k}
    BY DEF Collected
  <2>1. CASE k \in ReadProcs(mod)
    <3>1. procs' = Append(procs, k)
      BY <2>1 DEF CollectProc, CollectChunk, CollectNothing, ReadProcs, Rec, Body
    <3>2. Append(procs, k) \in Seq(Nat) /\ ToSet(Append(procs, k)) = ToSet(procs) \cup {k}
      BY <2>0, <1>2, AppendedSet
    <3>3. {i \in ReadProcs(mod) : i < k + 1} = {i \in ReadProcs(mod) : i < k} \cup {k}
      BY <2>1, <1>1 DEF ReadProcs
    <3> QED
      BY <3>1, <3>2, <3>3, <2>0
  <2>2. CASE k \notin ReadProcs(mod)
    <3>1. procs' = procs
      BY <2>2, <1>1 DEF CollectProc, CollectChunk, CollectNothing, ReadProcs, Rec, Body
    <3>3. {i \in ReadProcs(mod) : i < k + 1} = {i \in ReadProcs(mod) : i < k}
      BY <2>2, <1>1 DEF ReadProcs
    <3> QED
      BY <3>1, <3>3, <2>0
  <2> QED
    BY <2>1, <2>2
<1>4. ASSUME NEW p \in ReadProcs(mod)
      PROVE  InOrder(ChunksOf(Addr(p))', ReadChunks(mod, Addr(p), k + 1))
  <2> DEFINE a == Addr(p)
             R == ReadChunks(mod, a, k)
  <2>0. InOrder(ChunksOf(a), R)
    BY DEF Collected
  <2>a. a' = a
    BY <1>0 DEF Addr, Body
  <2>1. CASE k \in ReadChunks(mod, a, k + 1)
    <3>1. /\ CollectChunk /\ Rec.ok /\ Rec.parent = a
      BY <2>1 DEF CollectProc, CollectChunk, CollectNothing, ReadChunks, Rec, Body
    <3>2. chunks' = [b \in DOMAIN chunks \cup {a} |->
                       IF b = a THEN Append(ChunksOf(a), k) ELSE chunks[b]]
      BY <3>1 DEF CollectChunk
    <3>3. chunks'[a] = Append(ChunksOf(a), k) /\ a \in DOMAIN chunks'
      BY <3>2
    <3>4. ChunksOf(a)' = Append(ChunksOf(a), k)
      BY <3>3, <2>a DEF ChunksOf
    <3>5. R \subseteq Nat /\ \A y \in R : y < k
      BY <1>1 DEF ReadChunks
    <3>6. InOrder(Append(ChunksOf(a), k), R \cup {k})
      BY <2>0, <3>5, <1>2, OneMoreInOrder
    <3>7. ReadChunks(mod, a, k + 1) = R \cup {k}
      BY <2>1, <1>1 DEF ReadChunks
    <3> QED
      BY <3>4, <3>6, <3>7
  <2>2. CASE k \notin ReadChunks(mod, a, k + 1)
    <3>1. ReadChunks(mod, a, k + 1) = R
      BY <2>2, <1>1 DEF ReadChunks
    <3>2. ChunksOf(a)' = ChunksOf(a)
      <4>1. CASE chunks' = chunks
        BY <4>1, <2>a DEF ChunksOf
      <4>2. CASE chunks' # chunks
        <5>1. CollectChunk /\ Rec.ok /\ Rec.kind = "sepcode"
          BY <4>2 DEF CollectProc, CollectChunk, CollectNothing
        <5>2. Rec.parent # a
          BY <5>1, <2>2, <1>1 DEF ReadChunks, Rec, Body
        <5>3. chunks' = [b \in DOMAIN chunks \cup {Rec.parent} |->
                           IF b = Rec.parent THEN Append(ChunksOf(b), k) ELSE chunks[b]]
          BY <5>1 DEF CollectChunk
        <5>4. a \in DOMAIN chunks' <=> a \in DOMAIN chunks
          BY <5>2, <5>3
        <5>5. a \in DOMAIN chunks => chunks'[a] = chunks[a]
          BY <5>2, <5>3
        <5> QED
          BY <5>4, <5>5, <2>a DEF ChunksOf
      <4> QED
        BY <4>1, <4>2
    <3> QED
      BY <2>0, <3>1, <3>2
  <2> QED
    BY <2>1, <2>2
<1>5. ReadProcs(mod)' = ReadProcs(mod)
  BY <1>0 DEF ReadProcs
<1>6. ASSUME NEW p \in ReadProcs(mod)
      PROVE  InOrder(ChunksOf(Addr(p)), ReadChunks(mod, Addr(p), k + 1))'
  <2>1. ReadChunks(mod, Addr(p), k + 1)' = ReadChunks(mod, Addr(p), k + 1)
    BY <1>0 DEF ReadChunks, Addr, Body
  <2> QED
    BY <1>4, <2>1 DEF InOrder
<1> QED
  BY <1>0, <1>3, <1>5, <1>6 DEF Collected

\* A site is in the procedure that has begun and not ended.
LEMMA ScopeIsOpen ==
  ASSUME modules \in InlineFiles, NEW m \in DOMAIN modules, NEW i \in Sites(m)
  PROVE  /\ Scope(m, i) \in {0} \cup Open(m, i)
         /\ \A p \in Open(m, i) : p <= Scope(m, i)
         /\ Open(m, i) = {p \in DOMAIN modules[m] :
              modules[m][p].kind = "proc" /\ p < i /\ i < modules[m][p].end}
<1>1. /\ DOMAIN modules[m] = 1..Len(modules[m]) /\ Len(modules[m]) \in Nat
      /\ i \in DOMAIN modules[m] /\ modules[m][i].kind = "site"
  BY FilesAreModules DEF Sites
<1>2. Open(m, i) \subseteq 1..i-1 /\ i \in Nat
  BY <1>1 DEF Open
<1>3. {0} \cup Open(m, i) \subseteq 0..i
  BY <1>2
<1>4. Scope(m, i) \in {0} \cup Open(m, i) /\ \A p \in {0} \cup Open(m, i) : p <= Scope(m, i)
  BY <1>2, <1>3, MaxIsGreatest DEF Scope
<1>5. ASSUME NEW p \in DOMAIN modules[m], modules[m][p].kind = "proc", p < i
      PROVE  (\A j \in p+1..i-1 : modules[m][j].kind # "end") <=> i < modules[m][p].end
  <2> DEFINE e == modules[m][p].end
  <2>1. /\ e \in p+1..Len(modules[m]) /\ modules[m][e].kind = "end"
        /\ \A j \in p+1..e-1 : modules[m][j].kind \notin {"proc", "end"}
    BY <1>5, ProceduresNest
  <2> HIDE DEF e
  <2>2. e # i /\ e \in Nat /\ p \in Nat /\ i \in Nat
    BY <2>1, <1>1
  <2>3. ASSUME i < e, NEW j \in p+1..i-1 PROVE modules[m][j].kind # "end"
    <3>1. j \in p+1..e-1
      BY <2>2, <2>3
    <3> QED
      BY <3>1, <2>1
  <2>4. ASSUME e < i PROVE \E j \in p+1..i-1 : modules[m][j].kind = "end"
    <3>1. e \in p+1..i-1
      BY <2>1, <2>2, <2>4
    <3> QED
      BY <3>1, <2>1
  <2>5. i < e \/ e < i
    BY <2>2
  <2>6. i < e <=> ~(e < i)
    BY <2>2
  <2> QED
    BY <2>3, <2>4, <2>5, <2>6 DEF e
<1>6. Open(m, i) = {p \in DOMAIN modules[m] :
              modules[m][p].kind = "proc" /\ p < i /\ i < modules[m][p].end}
  <2>1. \A p \in 1..i-1 : p \in DOMAIN modules[m] /\ p < i
    BY <1>1
  <2>2. \A p \in DOMAIN modules[m] : p < i => p \in 1..i-1
    BY <1>1
  <2> QED
    BY <1>5, <2>1, <2>2 DEF Open
<1> QED
  BY <1>4, <1>6

\* The search among the procedures that can be read finds it, or nothing.
LEMMA SearchFindsTheScope ==
  ASSUME modules \in InlineFiles, mod \in DOMAIN modules, Collected(Len(Body) + 1),
         NEW i \in Sites(mod), NEW p, p = Before(i)
  PROVE  /\ Encloses(p, i) => p = Scope(mod, i) /\ p # 0 /\ p \in ReadProcs(mod)
         /\ Intact(mod) /\ Scope(mod, i) # 0 => Encloses(p, i)
<1> DEFINE b == modules[mod]
           T == {j \in ToSet(procs) : j <= i}
<1>1. /\ DOMAIN b = 1..Len(b) /\ Len(b) \in Nat /\ Body = b
      /\ i \in DOMAIN b /\ b[i].kind = "site"
  BY FilesAreModules DEF Sites, Body
<1>2. T = {j \in ReadProcs(mod) : j <= i}
  <2>1. ToSet(procs) = {j \in ReadProcs(mod) : j < Len(b) + 1}
    BY <1>1 DEF Collected
  <2>2. \A j \in ReadProcs(mod) : j < Len(b) + 1
    BY <1>1 DEF ReadProcs
  <2> QED
    BY <2>1, <2>2
<1>3. T \subseteq 1..i-1
  BY <1>1, <1>2 DEF ReadProcs
<1>4. p \in {0} \cup T /\ \A j \in {0} \cup T : j <= p
  <2>1. {0} \cup T \subseteq 0..i /\ i \in Nat
    BY <1>1, <1>3
  <2>2. p = Max({0} \cup T)
    BY DEF Before
  <2> HIDE DEF T
  <2> QED
    BY <2>1, <2>2, MaxIsGreatest
<1> DEFINE Begun(q) == b[q].kind = "proc" /\ q < i /\ i < b[q].end
<1>5. /\ Scope(mod, i) \in {0} \cup Open(mod, i)
      /\ \A q \in Open(mod, i) : q <= Scope(mod, i)
      /\ Open(mod, i) = {q \in DOMAIN b : Begun(q)}
  BY ScopeIsOpen
<1>n. ASSUME NEW q \in DOMAIN b, b[q].kind = "proc"
      PROVE  /\ b[q].end \in q+1..Len(b)
             /\ \A j \in q+1..b[q].end-1 : b[j].kind # "proc"
  BY <1>n, ProceduresNest
<1> HIDE DEF b, T
<1>6. ASSUME Encloses(p, i) PROVE p = Scope(mod, i) /\ p # 0 /\ p \in ReadProcs(mod)
  <2>1. p # 0 /\ p \in T
    BY <1>4, <1>6 DEF Encloses
  <2>2. p \in ReadProcs(mod) /\ p \in DOMAIN b /\ b[p].kind = "proc" /\ p < i
    BY <2>1, <1>1, <1>2, <1>3 DEF ReadProcs, b
  <2>3. b[p].end \in p+1..Len(b)
    BY <2>2, <1>n
  <2>4. i < b[p].end
    BY <1>6, <2>3, <2>2, <1>1 DEF Encloses
  <2>5. p \in Open(mod, i) /\ p <= Scope(mod, i)
    BY <2>2, <2>4, <1>5
  <2>6. ASSUME NEW q \in DOMAIN b, Begun(q), p < q PROVE FALSE
    <3>1. q \in p+1..b[p].end-1
      BY <2>6, <2>3, <2>4, <2>2, <1>1
    <3> QED
      BY <3>1, <2>6, <2>2, <1>n
  <2>7. Scope(mod, i) \in Open(mod, i) /\ Scope(mod, i) \in DOMAIN b
    BY <2>1, <2>2, <2>5, <1>5, <1>1
  <2>8. ~(p < Scope(mod, i))
    BY <2>6, <2>7, <1>5
  <2> QED
    BY <2>1, <2>2, <2>5, <2>7, <2>8, <1>1
<1>7. ASSUME Intact(mod), Scope(mod, i) # 0 PROVE Encloses(p, i)
  <2> DEFINE s == Scope(mod, i)
  <2>1. s \in DOMAIN b /\ Begun(s)
    BY <1>5, <1>7
  <2> HIDE DEF s
  <2>2. s \in ReadProcs(mod) /\ s \in T
    BY <2>1, <1>1, <1>2, <1>7 DEF Intact, ReadProcs, b
  <2>3. s <= p /\ p \in T /\ p # 0
    BY <2>1, <2>2, <1>1, <1>4
  <2>4. p \in DOMAIN b /\ b[p].kind = "proc" /\ p < i
    BY <2>3, <1>1, <1>2, <1>3 DEF ReadProcs, b
  <2>5. p = s
    <3>1. CASE s < p
      <4>1. b[s].end \in s+1..Len(b)
        BY <2>1, <1>n
      <4>2. p \in s+1..b[s].end-1
        BY <2>1, <2>4, <3>1, <4>1, <1>1
      <4> QED
        BY <4>2, <2>1, <2>4, <1>n
    <3> QED
      BY <3>1, <2>3, <2>4, <2>1, <1>1
  <2> QED
    BY <2>1, <2>3, <2>5, <1>1 DEF Encloses
<1> QED
  BY <1>6, <1>7

\* The ranges of a site are those of some records, each once: its procedure and the chunks it names.
RecordsOfRanges(q, p, i) ==
  LET own == ChunksOf(Addr(p))
  IN  /\ q \in Seq(CodeOf(mod, p)) /\ Len(RangesOf(p, i)) = Len(q)
      /\ RangesOf(p, i) \in Seq({Addr(k) : k \in CodeOf(mod, p)})
      /\ \A n \in 1..Len(q) : RangesOf(p, i)[n] = Addr(q[n])
      /\ \A n, l \in 1..Len(q) : q[n] = q[l] => n = l
      /\ {q[n] : n \in 1..Len(q)} =
           {k \in {p} : Body[i].own} \cup {own[c] : c \in Body[i].chunks \cap DOMAIN own}

\* So it is for every site, and every procedure that can be read.
LEMMA RangesComeFromRecords ==
  ASSUME modules \in InlineFiles, mod \in DOMAIN modules, Collected(Len(Body) + 1),
         NEW i \in Sites(mod), NEW p \in ReadProcs(mod)
  PROVE  \E q : RecordsOfRanges(q, p, i)
<1> DEFINE b == modules[mod]
           C == CodeOf(mod, p)
           Y == {Addr(k) : k \in C}
           own == ChunksOf(Addr(p))
           R == ReadChunks(mod, Addr(p), Len(b) + 1)
           N == b[i].chunks \cap DOMAIN own
           numbers == Ascending(N)
           head == IF b[i].own THEN <<p>> ELSE <<>>
           tail == [n \in DOMAIN numbers |-> own[numbers[n]]]
           q == head \o tail
           rhead == IF b[i].own THEN <<Addr(p)>> ELSE <<>>
           rtail == [n \in DOMAIN numbers |-> Addr(own[numbers[n]])]
<1>1. /\ DOMAIN b = 1..Len(b) /\ Len(b) \in Nat /\ Body = b
      /\ i \in DOMAIN b /\ b[i].kind = "site"
  BY FilesAreModules DEF Sites, Body
<1>2. b[i].own \in BOOLEAN /\ b[i].chunks \subseteq Nat
  BY <1>1, RecordsFit
<1>3. InOrder(own, R) /\ R \subseteq Nat /\ R \subseteq C
  <2>1. InOrder(own, R)
    BY <1>1 DEF Collected
  <2> QED
    BY <2>1, <1>1 DEF ReadChunks, CodeOf, Addr, Body
<1>4. p \in C /\ b[p].kind = "proc" /\ \A k \in R : b[k].kind = "sepcode"
  BY DEF ReadProcs, ReadChunks, CodeOf
<1>r. RangesOf(p, i) = rhead \o rtail
  BY <1>1, Zenon DEF RangesOf, Addr
<1> HIDE DEF R, C
<1>5. /\ own \in Seq(R) /\ DOMAIN own = 1..Len(own) /\ Len(own) \in Nat
      /\ \A n \in DOMAIN own : own[n] \in R
      /\ \A n, l \in DOMAIN own : own[n] = own[l] => n = l
  <2> HIDE DEF own
  <2> QED
    BY <1>3, OrderIsOnce
<1> HIDE DEF own
<1>6. N \subseteq 1..Len(own) /\ InOrder(numbers, N)
  <2>1. N \subseteq 1..Len(own)
    BY <1>5
  <2> HIDE DEF N
  <2> QED
    BY <2>1, <1>5, AscendingIsInOrder
<1>7. /\ numbers \in Seq(N) /\ DOMAIN numbers = 1..Len(numbers) /\ Len(numbers) \in Nat
      /\ \A n \in DOMAIN numbers : numbers[n] \in N
      /\ \A x \in N : \E n \in DOMAIN numbers : numbers[n] = x
      /\ \A n, l \in DOMAIN numbers : numbers[n] = numbers[l] => n = l
  <2>1. N \subseteq Nat
    BY <1>6
  <2> HIDE DEF N, numbers
  <2> QED
    BY <2>1, <1>6, OrderIsOnce
<1>8. \A n \in DOMAIN numbers : numbers[n] \in DOMAIN own /\ own[numbers[n]] \in R
  BY <1>5, <1>6, <1>7
<1> HIDE DEF numbers
<1>9. tail \in Seq(C) /\ Len(tail) = Len(numbers) /\ \A n \in 1..Len(numbers) : tail[n] = own[numbers[n]]
  BY <1>7, <1>8, <1>3
<1>10. rtail \in Seq(Y) /\ Len(rtail) = Len(numbers) /\ \A n \in 1..Len(numbers) : rtail[n] = Addr(own[numbers[n]])
  <2>1. \A n \in DOMAIN numbers : Addr(own[numbers[n]]) \in Y
    BY <1>8, <1>3
  <2> HIDE DEF Y
  <2> QED
    BY <1>7, <2>1
<1>11. head \in Seq(C) /\ rhead \in Seq(Y) /\ Len(head) = Len(rhead)
       /\ Len(head) = (IF b[i].own THEN 1 ELSE 0)
       /\ (b[i].own => head[1] = p /\ rhead[1] = Addr(p))
  <2>1. Addr(p) \in Y
    BY <1>4
  <2> HIDE DEF Y, b
  <2> QED
    BY <2>1, <1>4, <1>2
<1> HIDE DEF Y, head, tail, rhead, rtail
<1>12. /\ q \in Seq(C) /\ Len(q) = Len(head) + Len(numbers)
       /\ \A n \in 1..Len(q) : q[n] = IF n <= Len(head) THEN p ELSE own[numbers[n - Len(head)]]
  <2>1. /\ q \in Seq(C) /\ Len(q) = Len(head) + Len(tail)
        /\ \A n \in 1..(Len(head) + Len(tail)) : q[n] = IF n <= Len(head) THEN head[n] ELSE tail[n - Len(head)]
    <3>1. head \in Seq(C) /\ tail \in Seq(C)
      BY <1>9, <1>11
    <3> QED
      BY <3>1, PlacesOfConcat
  <2> HIDE DEF q
  <2>2. ASSUME NEW n \in 1..Len(q)
        PROVE  q[n] = IF n <= Len(head) THEN p ELSE own[numbers[n - Len(head)]]
    <3>1. CASE n <= Len(head)
      <4>1. b[i].own /\ n = 1
        BY <3>1, <1>11
      <4> QED
        BY <3>1, <4>1, <2>1, <1>9, <1>11
    <3>2. CASE ~(n <= Len(head))
      <4>1. n - Len(head) \in 1..Len(numbers)
        BY <3>2, <2>1, <1>9, <1>11, <1>7
      <4> QED
        BY <3>2, <4>1, <2>1, <1>9
    <3> QED
      BY <3>1, <3>2
  <2> QED
    BY <2>1, <2>2, <1>9
<1>13. /\ RangesOf(p, i) \in Seq(Y) /\ Len(RangesOf(p, i)) = Len(q)
       /\ \A n \in 1..Len(q) : RangesOf(p, i)[n] = Addr(q[n])
  <2> DEFINE r == rhead \o rtail
  <2>1. /\ r \in Seq(Y) /\ Len(r) = Len(rhead) + Len(rtail)
        /\ \A n \in 1..(Len(rhead) + Len(rtail)) : r[n] = IF n <= Len(rhead) THEN rhead[n] ELSE rtail[n - Len(rhead)]
    <3>1. rhead \in Seq(Y) /\ rtail \in Seq(Y)
      BY <1>10, <1>11
    <3> QED
      BY <3>1, PlacesOfConcat
  <2> HIDE DEF q, r
  <2>2. ASSUME NEW n \in 1..Len(q) PROVE r[n] = Addr(q[n])
    <3>1. CASE n <= Len(head)
      <4>1. b[i].own /\ n = 1
        BY <3>1, <1>11
      <4> QED
        BY <3>1, <4>1, <2>1, <1>10, <1>11, <1>12
    <3>2. CASE ~(n <= Len(head))
      <4>1. n - Len(head) \in 1..Len(numbers)
        BY <3>2, <1>12, <1>11, <1>7
      <4> QED
        BY <3>2, <4>1, <2>1, <1>10, <1>11, <1>12
    <3> QED
      BY <3>1, <3>2
  <2> QED
    BY <1>r, <1>10, <1>11, <1>12, <2>1, <2>2 DEF r
<1> HIDE DEF q
<1>14. ASSUME NEW n \in 1..Len(q), NEW l \in 1..Len(q), q[n] = q[l] PROVE n = l
  <2>1. \A k \in 1..Len(q) : k <= Len(head) => k = 1 /\ q[k] = p
    BY <1>11, <1>12
  <2>2. \A k \in 1..Len(q) : ~(k <= Len(head)) =>
          k - Len(head) \in DOMAIN numbers /\ q[k] = own[numbers[k - Len(head)]]
    BY <1>7, <1>11, <1>12
  <2>3. \A k \in DOMAIN numbers : own[numbers[k]] # p
    BY <1>8, <1>4
  <2>4. n <= Len(head) <=> l <= Len(head)
    BY <2>1, <2>2, <2>3, <1>14
  <2>5. CASE n <= Len(head)
    BY <2>1, <2>4, <2>5
  <2>6. CASE ~(n <= Len(head))
    <3>1. n - Len(head) \in DOMAIN numbers /\ l - Len(head) \in DOMAIN numbers
          /\ own[numbers[n - Len(head)]] = own[numbers[l - Len(head)]]
      BY <2>2, <2>4, <2>6, <1>14
    <3>2. numbers[n - Len(head)] = numbers[l - Len(head)]
      BY <3>1, <1>5, <1>8
    <3>3. n - Len(head) = l - Len(head)
      BY <3>1, <3>2, <1>7
    <3>4. Len(head) \in Nat /\ n \in Nat /\ l \in Nat
      BY <1>11
    <3> QED
      BY <3>3, <3>4
  <2> QED
    BY <2>5, <2>6
<1>15. {q[n] : n \in 1..Len(q)} = {k \in {p} : b[i].own} \cup {own[c] : c \in N}
  <2>1. ASSUME NEW n \in 1..Len(q)
        PROVE  q[n] \in {k \in {p} : b[i].own} \cup {own[c] : c \in N}
    <3>1. CASE n <= Len(head)
      BY <3>1, <1>11, <1>12
    <3>2. CASE ~(n <= Len(head))
      <4>1. n - Len(head) \in DOMAIN numbers
        BY <3>2, <1>7, <1>11, <1>12
      <4> QED
        BY <4>1, <3>2, <1>7, <1>12
    <3> QED
      BY <3>1, <3>2
  <2>2. ASSUME b[i].own PROVE p \in {q[n] : n \in 1..Len(q)}
    <3>1. 1 \in 1..Len(q) /\ 1 <= Len(head)
      BY <2>2, <1>7, <1>11, <1>12
    <3>2. q[1] = p
      BY <3>1, <1>12
    <3> QED
      BY <3>1, <3>2
  <2>3. ASSUME NEW c \in N PROVE own[c] \in {q[n] : n \in 1..Len(q)}
    <3>1. PICK l \in DOMAIN numbers : numbers[l] = c
      BY <1>7
    <3>0. Len(head) \in Nat /\ l \in 1..Len(numbers) /\ Len(q) = Len(head) + Len(numbers)
      BY <3>1, <1>7, <1>11, <1>12
    <3>2. l + Len(head) \in 1..Len(q) /\ ~(l + Len(head) <= Len(head)) /\ (l + Len(head)) - Len(head) = l
      BY <3>0, <1>7
    <3>3. q[l + Len(head)] = own[c]
      BY <3>1, <3>2, <1>12
    <3> QED
      BY <3>2, <3>3
  <2> HIDE DEF N
  <2> QED
    BY <2>1, <2>2, <2>3
<1>16. RecordsOfRanges(q, p, i)
  BY <1>1, <1>12, <1>13, <1>14, <1>15 DEF RecordsOfRanges, C, Y, own
<1> QED
  BY <1>16

\* Each range is at an address of its own.
LEMMA RangesDiffer ==
  ASSUME modules \in InlineFiles, mod \in DOMAIN modules, NEW i, NEW p, NEW q, RecordsOfRanges(q, p, i)
  PROVE  /\ RangesOf(p, i) \in Seq({Addr(k) : k \in CodeOf(mod, p)})
         /\ \A n, l \in 1..Len(RangesOf(p, i)) : RangesOf(p, i)[n] = RangesOf(p, i)[l] => n = l
<1> DEFINE R == RangesOf(p, i)
           C == CodeOf(mod, p)
<1>1. /\ q \in Seq(C) /\ Len(R) = Len(q) /\ R \in Seq({Addr(k) : k \in C})
      /\ \A n \in 1..Len(q) : R[n] = Addr(q[n])
      /\ \A n, l \in 1..Len(q) : q[n] = q[l] => n = l
  BY DEF RecordsOfRanges
<1> HIDE DEF R, C
<1>2. \A n \in 1..Len(q) : q[n] \in C
  BY <1>1
<1>3. \A k, l \in C : Addr(k) = Addr(l) => k = l
  BY AddressesDiffer DEF C, Addr, Body
<1>4. \A n, l \in 1..Len(R) : R[n] = R[l] => n = l
  BY <1>1, <1>2, <1>3
<1> QED
  BY <1>1, <1>4 DEF R, C

\* Where every record can be read, a site's ranges are those the records give.
LEMMA RangesAreTrue ==
  ASSUME modules \in InlineFiles, mod \in DOMAIN modules, Collected(Len(Body) + 1), Intact(mod),
         NEW i \in Sites(mod), NEW p \in ReadProcs(mod), p = Scope(mod, i),
         NEW q, RecordsOfRanges(q, p, i)
  PROVE  {RangesOf(p, i)[n] : n \in 1..Len(RangesOf(p, i))} = TrueAddresses(mod, i)
<1> DEFINE R == RangesOf(p, i)
           b == modules[mod]
           own == ChunksOf(Addr(p))
           mine == Chunks(mod, p)
           T == {k \in DOMAIN b : b[k].kind = "sepcode" /\ b[k].parent = b[p].addr}
<1>0. DOMAIN b = 1..Len(b) /\ Len(b) \in Nat
  BY FilesAreModules
<1>1. ReadChunks(mod, Addr(p), Len(Body) + 1) = T
  <2>1. \A k \in DOMAIN b : b[k].ok /\ k < Len(b) + 1
    BY <1>0 DEF Intact
  <2> QED
    BY <2>1 DEF ReadChunks, Addr, Body
<1>2. InOrder(own, T)
  BY <1>1 DEF Collected
<1>3. T \subseteq 1..Len(b) /\ mine = Ascending(T)
  BY <1>0 DEF Chunks
<1>4. own = mine
  <2>1. T \subseteq Nat
    BY <1>3
  <2> HIDE DEF T, own, mine
  <2>2. InOrder(mine, T)
    BY <1>0, <1>3, AscendingIsInOrder
  <2> QED
    BY <1>2, <2>1, <2>2, OrderIsUnique
<1>5. /\ Len(R) = Len(q)
      /\ \A n \in 1..Len(q) : R[n] = Addr(q[n])
      /\ {q[n] : n \in 1..Len(q)} =
           {k \in {p} : b[i].own} \cup {own[c] : c \in b[i].chunks \cap DOMAIN own}
  BY DEF RecordsOfRanges, Body
<1> HIDE DEF R, own, mine
<1>6. TrueAddresses(mod, i) = {Addr(k) : k \in {q[n] : n \in 1..Len(q)}}
  <2>1. TrueAddresses(mod, i) = {a \in {Addr(p)} : b[i].own} \cup {Addr(own[c]) : c \in b[i].chunks \cap DOMAIN own}
    BY <1>4, Zenon DEF TrueAddresses, Addr, Body, mine
  <2> DEFINE N == b[i].chunks \cap DOMAIN own
             S == {k \in {p} : b[i].own} \cup {own[c] : c \in N}
  <2>2. {a \in {Addr(p)} : b[i].own} \cup {Addr(own[c]) : c \in N} = {Addr(k) : k \in S}
    <3> HIDE DEF N, b
    <3> QED
      OBVIOUS
  <2> QED
    BY <2>1, <2>2, <1>5
<1>7. {R[n] : n \in 1..Len(R)} = {Addr(k) : k \in {q[n] : n \in 1..Len(q)}}
  BY <1>5
<1> QED
  BY <1>6, <1>7 DEF R

-----------------------------------------------------------------------------
\* The entries of a site cover its ranges: each once, in one entry per segment.
EntriesCover(es, R) ==
  LET places == UNION {{n} \X DOMAIN es[n].ranges : n \in DOMAIN es}
      at(x) == es[x[1]].ranges[x[2]]
  IN  /\ \A x \in places : \E k \in 1..Len(R) : at(x) = R[k]
      /\ \A k \in 1..Len(R) : \E x \in places : at(x) = R[k]
      /\ \A x, y \in places : at(x) = at(y) => x = y
      /\ \A x, y \in places : at(x).segment = at(y).segment <=> x[1] = y[1]

\* by_segment groups the ranges that way, whatever they are.
LEMMA EntriesAreOnePerSegment ==
  ASSUME NEW p, NEW i, NEW Y, RangesOf(p, i) \in Seq(Y),
         \A n, l \in 1..Len(RangesOf(p, i)) : RangesOf(p, i)[n] = RangesOf(p, i)[l] => n = l
  PROVE  EntriesCover(Entries(p, i), RangesOf(p, i))
<1> DEFINE R == RangesOf(p, i)
           es == Entries(p, i)
           firsts == {k \in DOMAIN R : \A j \in 1..k-1 : R[j].segment # R[k].segment}
           order == Ascending(firsts)
           Like(k) == {j \in DOMAIN R : R[j].segment = R[k].segment}
           alike(k) == Ascending(Like(k))
<1>1. DOMAIN R = 1..Len(R) /\ Len(R) \in Nat
  OBVIOUS
<1>2. es = [n \in DOMAIN order |->
            [mod |-> mod, site |-> i, parent |-> p,
             ranges |-> [k \in DOMAIN alike(order[n]) |-> R[alike(order[n])[k]]]]]
  BY DEF Entries
<1>d. \A n, l \in 1..Len(R) : R[n] = R[l] => n = l
  OBVIOUS
<1> HIDE DEF es, R
<1>3. firsts \subseteq 1..Len(R) /\ firsts \subseteq Nat /\ \A k : Like(k) \subseteq 1..Len(R) /\ Like(k) \subseteq Nat
  BY <1>1
<1>s. \A k, l \in DOMAIN R : l \in Like(k) <=> R[l].segment = R[k].segment
  OBVIOUS
<1>4. ASSUME NEW k \in DOMAIN R PROVE \E f \in firsts : k \in Like(f)
  <2>1. k \in Like(k) /\ Like(k) \subseteq Nat
    BY <1>4, <1>3
  <2>2. PICK f \in Like(k) : \A y \in Like(k) : f <= y
    <3> HIDE DEF Like
    <3> QED
      BY <2>1, LeastNumber
  <2>3. f \in DOMAIN R /\ R[f].segment = R[k].segment
    BY <2>2
  <2>4. \A j \in 1..f-1 : R[j].segment # R[f].segment
    <3>1. SUFFICES ASSUME NEW j \in 1..f-1, R[j].segment = R[f].segment PROVE FALSE
      OBVIOUS
    <3>2. j \in DOMAIN R /\ j < f
      BY <2>3, <1>1
    <3>3. j \in Like(k)
      BY <3>1, <3>2, <2>3
    <3> QED
      BY <2>2, <3>2, <3>3, <2>3, <1>1
  <2> QED
    BY <2>3, <2>4
<1>5. ASSUME NEW f \in firsts, NEW g \in firsts, R[f].segment = R[g].segment PROVE f = g
  <2>1. f \in 1..Len(R) /\ g \in 1..Len(R)
    BY <1>1
  <2>2. ~(f < g) /\ ~(g < f)
    BY <2>1, <1>1, <1>5
  <2> QED
    BY <2>1, <2>2
<1> HIDE DEF firsts, Like
<1>6. /\ \A n \in DOMAIN order : order[n] \in firsts
      /\ \A f \in firsts : \E n \in DOMAIN order : order[n] = f
      /\ \A n, l \in DOMAIN order : order[n] = order[l] => n = l
  <2>1. InOrder(order, firsts)
    BY <1>1, <1>3, AscendingIsInOrder
  <2> HIDE DEF order
  <2> QED
    BY <2>1, <1>3, OrderIsOnce
<1>7. ASSUME NEW k
      PROVE  /\ \A n \in DOMAIN alike(k) : alike(k)[n] \in Like(k)
             /\ \A x \in Like(k) : \E n \in DOMAIN alike(k) : alike(k)[n] = x
             /\ \A n, l \in DOMAIN alike(k) : alike(k)[n] = alike(k)[l] => n = l
  <2>1. InOrder(alike(k), Like(k))
    BY <1>1, <1>3, AscendingIsInOrder
  <2> DEFINE a == alike(k)
  <2> HIDE DEF alike
  <2>2. a \in Seq(Like(k)) /\ \A n \in DOMAIN a : a[n] \in Like(k)
    BY <2>1, <1>3, OrderIsOnce
  <2> QED
    BY <2>1, <2>2, <1>3, OrderIsOnce
<1> HIDE DEF order, alike
<1> DEFINE places == UNION {{n} \X DOMAIN es[n].ranges : n \in DOMAIN es}
           at(x) == es[x[1]].ranges[x[2]]
           pos(x) == alike(order[x[1]])[x[2]]
<1>8. \A n \in DOMAIN order : n \in DOMAIN es /\ DOMAIN es[n].ranges = DOMAIN alike(order[n])
        /\ \A k \in DOMAIN alike(order[n]) : es[n].ranges[k] = R[alike(order[n])[k]]
  BY <1>2
<1>9. DOMAIN es = DOMAIN order
  BY <1>2
<1>10. \A x \in places : /\ x[1] \in DOMAIN order /\ x[2] \in DOMAIN alike(order[x[1]])
                        /\ x = <<x[1], x[2]>>
                        /\ at(x) = R[pos(x)] /\ pos(x) \in Like(order[x[1]])
  <2>1. SUFFICES ASSUME NEW x \in places
                 PROVE  /\ x[1] \in DOMAIN order /\ x[2] \in DOMAIN alike(order[x[1]])
                        /\ x = <<x[1], x[2]>>
                        /\ at(x) = R[pos(x)] /\ pos(x) \in Like(order[x[1]])
    OBVIOUS
  <2>2. PICK n \in DOMAIN es : x \in {n} \X DOMAIN es[n].ranges
    OBVIOUS
  <2>3. x = <<x[1], x[2]>> /\ x[1] = n /\ x[2] \in DOMAIN es[n].ranges
    BY <2>2
  <2> HIDE DEF places
  <2> QED
    BY <2>3, <1>8, <1>9, <1>7
<1>11. \A n \in DOMAIN order : \A k \in DOMAIN alike(order[n]) :
         <<n, k>> \in places /\ at(<<n, k>>) = R[alike(order[n])[k]]
  BY <1>8, <1>9
<1> HIDE DEF places, at, pos
<1>12. \A n \in DOMAIN order : \A k \in Like(order[n]) : k \in DOMAIN R /\ R[k].segment = R[order[n]].segment
  BY DEF Like
<1>13. \A x \in places : \E k \in 1..Len(R) : at(x) = R[k]
  BY <1>1, <1>10, <1>12
<1>14. ASSUME NEW k \in 1..Len(R) PROVE \E x \in places : at(x) = R[k]
  <2>1. PICK f \in firsts : k \in Like(f)
    BY <1>1, <1>4
  <2>2. PICK n \in DOMAIN order : order[n] = f
    BY <1>6
  <2>3. PICK l \in DOMAIN alike(f) : alike(f)[l] = k
    BY <2>1, <1>7
  <2>4. <<n, l>> \in places /\ at(<<n, l>>) = R[k]
    BY <1>11, <2>2, <2>3
  <2> QED
    BY <2>4
<1>15. ASSUME NEW x \in places, NEW y \in places
       PROVE  at(x).segment = at(y).segment <=> x[1] = y[1]
  <2>1. at(x).segment = R[order[x[1]]].segment /\ at(y).segment = R[order[y[1]]].segment
    BY <1>10, <1>12
  <2>2. order[x[1]] \in firsts /\ order[y[1]] \in firsts /\ x[1] \in DOMAIN order /\ y[1] \in DOMAIN order
    BY <1>6, <1>10
  <2> QED
    BY <2>1, <2>2, <1>5, <1>6
<1>16. ASSUME NEW x \in places, NEW y \in places, at(x) = at(y) PROVE x = y
  <2>1. x[1] = y[1]
    BY <1>15, <1>16
  <2>2. pos(x) \in DOMAIN R /\ pos(y) \in DOMAIN R
    BY <1>10, <1>12
  <2>3. pos(x) = pos(y)
    BY <1>1, <1>10, <1>16, <2>2, <1>d
  <2>4. x[2] = y[2]
    BY <2>1, <2>3, <1>7, <1>10 DEF pos
  <2> QED
    BY <1>10, <2>1, <2>4
<1> QED
  BY <1>13, <1>14, <1>15, <1>16 DEF EntriesCover, R, es, places, at

\* Each entry says which site it is of and which procedure that is in.
EntriesOf(es, m, i, p) ==
  /\ es \in Seq(ToSet(es)) /\ DOMAIN es = 1..Len(es) /\ Len(es) \in Nat
  /\ \A n \in 1..Len(es) : es[n].mod = m /\ es[n].site = i /\ es[n].parent = p

\* _place_one_site fills them in so.
LEMMA EntriesSayWhere ==
  ASSUME NEW p, NEW i, NEW Y, RangesOf(p, i) \in Seq(Y)
  PROVE  EntriesOf(Entries(p, i), mod, i, p)
<1> DEFINE R == RangesOf(p, i)
           es == Entries(p, i)
           firsts == {k \in DOMAIN R : \A j \in 1..k-1 : R[j].segment # R[k].segment}
           order == Ascending(firsts)
           alike(k) == Ascending({j \in DOMAIN R : R[j].segment = R[k].segment})
           Entry(n) == [mod |-> mod, site |-> i, parent |-> p,
                        ranges |-> [k \in DOMAIN alike(order[n]) |-> R[alike(order[n])[k]]]]
<1>1. DOMAIN R = 1..Len(R) /\ Len(R) \in Nat
  OBVIOUS
<1>2. es = [n \in DOMAIN order |-> Entry(n)]
  BY DEF Entries
<1> HIDE DEF es, R
<1>3. firsts \subseteq 1..Len(R) /\ firsts \subseteq Nat
  BY <1>1
<1> HIDE DEF firsts
<1>4. DOMAIN order = 1..Len(order) /\ Len(order) \in Nat
  <2>1. InOrder(order, firsts)
    BY <1>1, <1>3, AscendingIsInOrder
  <2> HIDE DEF order
  <2> QED
    BY <2>1, <1>3, OrderIsOnce
<1> HIDE DEF order
<1>5. \A n \in DOMAIN order : Entry(n).mod = mod /\ Entry(n).site = i /\ Entry(n).parent = p
  OBVIOUS
<1> HIDE DEF Entry
<1> DEFINE Z == {Entry(n) : n \in DOMAIN order}
<1>6. \A n \in DOMAIN order : Entry(n) \in Z
  OBVIOUS
<1> HIDE DEF Z
<1>7. es \in Seq(Z) /\ DOMAIN es = DOMAIN order
  BY <1>2, <1>4, <1>6
<1>8. es \in Seq(ToSet(es)) /\ DOMAIN es = 1..Len(es) /\ Len(es) \in Nat
  BY <1>7, SeqOfItsElements
<1>9. \A n \in DOMAIN es : es[n] = Entry(n)
  BY <1>2
<1>10. \A n \in 1..Len(es) : es[n].mod = mod /\ es[n].site = i /\ es[n].parent = p
  BY <1>5, <1>7, <1>8, <1>9
<1> QED
  BY <1>8, <1>10 DEF EntriesOf, es

-----------------------------------------------------------------------------
\* Where a listing has the ranges of a site,
ListedIn(o, m, i) ==
  UNION {{k} \X DOMAIN o[k].ranges : k \in {l \in DOMAIN o : o[l].mod = m /\ o[l].site = i}}
RangeIn(o, x) == o[x[1]].ranges[x[2]]

\* and what is right about the site in it.
InItsScope(o, m, i) ==
  \A k \in DOMAIN o : o[k].mod = m /\ o[k].site = i =>
    o[k].parent = Scope(m, i) /\ o[k].parent # 0 /\ modules[m][o[k].parent].ok
RangesOnce(o, m, i) ==
  /\ {RangeIn(o, x) : x \in ListedIn(o, m, i)} = TrueAddresses(m, i)
  /\ \A x, y \in ListedIn(o, m, i) :
       /\ RangeIn(o, x) = RangeIn(o, y) => x = y
       /\ RangeIn(o, x).segment = RangeIn(o, y).segment <=> x[1] = y[1]
SiteIsRight(o, m, i) ==
  /\ InItsScope(o, m, i)
  /\ Intact(m) /\ Scope(m, i) # 0 => RangesOnce(o, m, i)

Mentions(o, m, i) == \E k \in DOMAIN o : o[k].mod = m /\ o[k].site = i

\* Entries of another site leave a site as it was.
LEMMA OthersStayRight ==
  ASSUME NEW o, o \in Seq(ToSet(o)), NEW es, NEW m, NEW i, NEW p, EntriesOf(es, m, i, p),
         NEW a, NEW j, <<a, j>> # <<m, i>>
  PROVE  /\ SiteIsRight(o, a, j) => SiteIsRight(o \o es, a, j)
         /\ Mentions(o \o es, a, j) <=> Mentions(o, a, j)
<1> DEFINE X == ToSet(o) \cup ToSet(es)
           z == o \o es
           K == {l \in DOMAIN o : o[l].mod = a /\ o[l].site = j}
<1>1. o \in Seq(X) /\ es \in Seq(X) /\ DOMAIN o = 1..Len(o) /\ Len(o) \in Nat /\ Len(es) \in Nat
  BY DEF EntriesOf
<1> HIDE DEF X
<1>2. /\ z \in Seq(X) /\ Len(z) = Len(o) + Len(es)
      /\ \A n \in 1..(Len(o) + Len(es)) : z[n] = IF n <= Len(o) THEN o[n] ELSE es[n - Len(o)]
  BY <1>1, PlacesOfConcat
<1>3. DOMAIN z = 1..(Len(o) + Len(es))
  BY <1>2
<1> HIDE DEF z
<1>4. \A n \in 1..Len(es) : es[n].mod # a \/ es[n].site # j
  BY DEF EntriesOf
<1>5. \A n \in DOMAIN z : z[n].mod = a /\ z[n].site = j => n \in DOMAIN o /\ z[n] = o[n]
  <2>1. SUFFICES ASSUME NEW n \in DOMAIN z, z[n].mod = a, z[n].site = j
                 PROVE  n \in DOMAIN o /\ z[n] = o[n]
    OBVIOUS
  <2>2. n <= Len(o)
    <3>1. SUFFICES ASSUME ~(n <= Len(o)) PROVE FALSE
      OBVIOUS
    <3>2. n - Len(o) \in 1..Len(es) /\ z[n] = es[n - Len(o)]
      BY <1>1, <1>2, <1>3, <3>1
    <3> QED
      BY <3>2, <2>1, <1>4
  <2> QED
    BY <2>2, <1>1, <1>2, <1>3
<1>6. \A n \in DOMAIN o : n \in DOMAIN z /\ z[n] = o[n]
  BY <1>1, <1>2, <1>3
<1>7. {l \in DOMAIN z : z[l].mod = a /\ z[l].site = j} = K
  BY <1>5, <1>6
<1>8. \A k \in K : z[k] = o[k]
  BY <1>6
<1> HIDE DEF K
<1>9. ListedIn(z, a, j) = ListedIn(o, a, j) /\ ListedIn(o, a, j) = UNION {{k} \X DOMAIN o[k].ranges : k \in K}
  BY <1>7, <1>8 DEF ListedIn, K
<1>10. \A x \in ListedIn(o, a, j) : RangeIn(z, x) = RangeIn(o, x)
  <2>1. \A x \in ListedIn(o, a, j) : x[1] \in K
    BY <1>9
  <2> QED
    BY <2>1, <1>8 DEF RangeIn
<1>11. RangesOnce(o, a, j) => RangesOnce(z, a, j)
  <2>1. {RangeIn(z, x) : x \in ListedIn(o, a, j)} = {RangeIn(o, x) : x \in ListedIn(o, a, j)}
    BY <1>10
  <2> QED
    BY <1>9, <1>10, <2>1 DEF RangesOnce
<1>12. InItsScope(o, a, j) => InItsScope(z, a, j)
  BY <1>5 DEF InItsScope
<1>13. Mentions(z, a, j) <=> Mentions(o, a, j)
  BY <1>5, <1>6 DEF Mentions
<1> QED
  BY <1>11, <1>12, <1>13 DEF SiteIsRight, z

\* The entries of a site not mentioned before are all that is said of it.
LEMMA NewSiteIsRight ==
  ASSUME NEW o, o \in Seq(ToSet(o)), NEW es, NEW m, NEW i, NEW p, EntriesOf(es, m, i, p),
         ~Mentions(o, m, i),
         es # <<>> => p = Scope(m, i) /\ p # 0 /\ modules[m][p].ok,
         Intact(m) /\ Scope(m, i) # 0 =>
            \E R : EntriesCover(es, R) /\ {R[k] : k \in 1..Len(R)} = TrueAddresses(m, i)
  PROVE  SiteIsRight(o \o es, m, i) /\ (Mentions(o \o es, m, i) <=> es # <<>>)
<1> DEFINE X == ToSet(o) \cup ToSet(es)
           z == o \o es
           c == Len(o)
           places == UNION {{n} \X DOMAIN es[n].ranges : n \in DOMAIN es}
           at(x) == es[x[1]].ranges[x[2]]
           L == ListedIn(z, m, i)
<1>1. /\ o \in Seq(X) /\ es \in Seq(X) /\ DOMAIN o = 1..Len(o) /\ Len(o) \in Nat
      /\ Len(es) \in Nat /\ DOMAIN es = 1..Len(es)
      /\ \A n \in 1..Len(es) : es[n].mod = m /\ es[n].site = i /\ es[n].parent = p
  BY DEF EntriesOf
<1> HIDE DEF X
<1>2. /\ z \in Seq(X) /\ Len(z) = Len(o) + Len(es)
      /\ \A n \in 1..(Len(o) + Len(es)) : z[n] = IF n <= Len(o) THEN o[n] ELSE es[n - Len(o)]
  BY <1>1, PlacesOfConcat
<1>3. DOMAIN z = 1..(Len(o) + Len(es))
  BY <1>2
<1> HIDE DEF z
<1>4. ASSUME NEW n \in DOMAIN z, z[n].mod = m, z[n].site = i
      PROVE  n - c \in DOMAIN es /\ z[n] = es[n - c]
  <2>1. ~(n <= c)
    <3>1. SUFFICES ASSUME n <= c PROVE FALSE
      OBVIOUS
    <3>2. n \in DOMAIN o /\ z[n] = o[n]
      BY <1>1, <1>2, <1>3, <3>1
    <3> QED
      BY <3>2, <1>4 DEF Mentions
  <2> QED
    BY <2>1, <1>1, <1>2, <1>3
<1>5. ASSUME NEW n \in DOMAIN es
      PROVE  n + c \in DOMAIN z /\ z[n + c] = es[n] /\ (n + c) - c = n
  BY <1>1, <1>2, <1>3
<1>6. Mentions(z, m, i) <=> es # <<>>
  <2>1. es # <<>> <=> \E n : n \in DOMAIN es
    BY <1>1
  <2> QED
    BY <2>1, <1>1, <1>4, <1>5 DEF Mentions
<1>7. InItsScope(z, m, i)
  <2>1. SUFFICES ASSUME NEW n \in DOMAIN z, z[n].mod = m, z[n].site = i
                 PROVE  /\ z[n].parent = Scope(m, i) /\ z[n].parent # 0
                        /\ modules[m][z[n].parent].ok
    BY DEF InItsScope
  <2>2. z[n].parent = p /\ es # <<>>
    BY <1>1, <1>4, <2>1
  <2> QED
    BY <2>2
<1>8. ASSUME Intact(m), Scope(m, i) # 0 PROVE RangesOnce(z, m, i)
  <2>1. PICK R : EntriesCover(es, R) /\ {R[k] : k \in 1..Len(R)} = TrueAddresses(m, i)
    BY <1>8
  <2>2. /\ \A x \in places : \E k \in 1..Len(R) : at(x) = R[k]
        /\ \A k \in 1..Len(R) : \E x \in places : at(x) = R[k]
        /\ \A x, y \in places : at(x) = at(y) => x = y
        /\ \A x, y \in places : at(x).segment = at(y).segment <=> x[1] = y[1]
    BY <2>1 DEF EntriesCover
  <2>3. \A x \in L : /\ x = <<x[1], x[2]>> /\ x[1] \in Nat /\ x[1] - c \in Nat
                     /\ <<x[1] - c, x[2]>> \in places
                     /\ RangeIn(z, x) = at(<<x[1] - c, x[2]>>)
    <3>1. SUFFICES ASSUME NEW x \in L
                   PROVE  /\ x = <<x[1], x[2]>> /\ x[1] \in Nat /\ x[1] - c \in Nat
                          /\ <<x[1] - c, x[2]>> \in places
                          /\ RangeIn(z, x) = at(<<x[1] - c, x[2]>>)
      OBVIOUS
    <3>2. PICK n \in {l \in DOMAIN z : z[l].mod = m /\ z[l].site = i} : x \in {n} \X DOMAIN z[n].ranges
      BY DEF ListedIn
    <3>3. x = <<x[1], x[2]>> /\ x[1] = n /\ x[2] \in DOMAIN z[n].ranges
      BY <3>2
    <3>4. n - c \in DOMAIN es /\ z[n] = es[n - c]
      BY <3>2, <1>4
    <3>5. n \in Nat /\ n - c \in Nat
      BY <3>2, <3>4, <1>1, <1>3
    <3>6. <<n - c, x[2]>> \in places
      BY <3>3, <3>4
    <3> QED
      BY <3>3, <3>4, <3>5, <3>6 DEF RangeIn
  <2>4. \A x \in places : <<x[1] + c, x[2]>> \in L /\ RangeIn(z, <<x[1] + c, x[2]>>) = at(x)
    <3>1. SUFFICES ASSUME NEW x \in places
                   PROVE  <<x[1] + c, x[2]>> \in L /\ RangeIn(z, <<x[1] + c, x[2]>>) = at(x)
      OBVIOUS
    <3>2. PICK n \in DOMAIN es : x \in {n} \X DOMAIN es[n].ranges
      OBVIOUS
    <3>3. x[1] = n /\ x[2] \in DOMAIN es[n].ranges
      BY <3>2
    <3>4. n + c \in DOMAIN z /\ z[n + c] = es[n]
      BY <1>5
    <3>5. z[n + c].mod = m /\ z[n + c].site = i /\ x[2] \in DOMAIN z[n + c].ranges
      BY <3>3, <3>4, <1>1
    <3>6. <<n + c, x[2]>> \in L
      BY <3>4, <3>5 DEF ListedIn
    <3> QED
      BY <3>3, <3>4, <3>6 DEF RangeIn
  <2> HIDE DEF L, places, at
  <2>5. {RangeIn(z, x) : x \in L} = {R[k] : k \in 1..Len(R)}
    <3>1. ASSUME NEW x \in L PROVE RangeIn(z, x) \in {R[k] : k \in 1..Len(R)}
      <4>1. <<x[1] - c, x[2]>> \in places /\ RangeIn(z, x) = at(<<x[1] - c, x[2]>>)
        BY <2>3
      <4>2. PICK k \in 1..Len(R) : at(<<x[1] - c, x[2]>>) = R[k]
        BY <4>1, <2>2
      <4> QED
        BY <4>1, <4>2
    <3>2. ASSUME NEW k \in 1..Len(R) PROVE R[k] \in {RangeIn(z, x) : x \in L}
      <4>1. PICK x \in places : at(x) = R[k]
        BY <2>2
      <4> QED
        BY <4>1, <2>4
    <3> QED
      BY <3>1, <3>2
  <2>6. ASSUME NEW x \in L, NEW y \in L
        PROVE  /\ RangeIn(z, x) = RangeIn(z, y) => x = y
               /\ RangeIn(z, x).segment = RangeIn(z, y).segment <=> x[1] = y[1]
    <3> DEFINE u == <<x[1] - c, x[2]>>
               v == <<y[1] - c, y[2]>>
    <3>1. u \in places /\ v \in places /\ RangeIn(z, x) = at(u) /\ RangeIn(z, y) = at(v)
      BY <2>3
    <3>2. x = <<x[1], x[2]>> /\ y = <<y[1], y[2]>> /\ x[1] \in Nat /\ y[1] \in Nat
      BY <2>3
    <3>3. u[1] = x[1] - c /\ v[1] = y[1] - c /\ u[2] = x[2] /\ v[2] = y[2]
      OBVIOUS
    <3> HIDE DEF u, v
    <3>4. u[1] = v[1] <=> x[1] = y[1]
      BY <3>2, <3>3, <1>1
    <3>5. at(u) = at(v) => u = v
      BY <3>1, <2>2
    <3>6. u = v => x = y
      BY <3>2, <3>3, <3>4
    <3> QED
      BY <3>1, <3>4, <3>5, <3>6, <2>2
  <2> QED
    BY <2>1, <2>5, <2>6 DEF RangesOnce, L
<1> QED
  BY <1>6, <1>7, <1>8 DEF SiteIsRight, z

\* What is right about a site stays so while its file is read.
LEMMA RightSiteStays ==
  ASSUME UNCHANGED modules, NEW o, out' = o, NEW m, NEW i
  PROVE  /\ SiteIsRight(out, m, i)' <=> SiteIsRight(o, m, i)
         /\ Mentions(out, m, i)' <=> Mentions(o, m, i)
<1>1. Open(m, i)' = Open(m, i)
  BY DEF Open
<1>2. Scope(m, i)' = Scope(m, i)
  BY <1>1 DEF Scope
<1>3. ASSUME NEW p PROVE Chunks(m, p)' = Chunks(m, p)
  BY DEF Chunks
<1>4. TrueAddresses(m, i)' = TrueAddresses(m, i)
  <2>1. PICK s : s = Scope(m, i)
    OBVIOUS
  <2>2. PICK mine : mine = Chunks(m, s)
    OBVIOUS
  <2>3. /\ TrueAddresses(m, i) = {a \in {modules[m][s].addr} : modules[m][i].own}
            \cup {modules[m][mine[c]].addr : c \in modules[m][i].chunks \cap DOMAIN mine}
    BY <2>1, <2>2 DEF TrueAddresses
  <2>4. Scope(m, i)' = s /\ Chunks(m, s)' = mine
    BY <1>2, <1>3, <2>1, <2>2
  <2>5. TrueAddresses(m, i)' = {a \in {modules[m][s].addr} : modules[m][i].own}
            \cup {modules[m][mine[c]].addr : c \in modules[m][i].chunks \cap DOMAIN mine}
    BY <2>4 DEF TrueAddresses
  <2> QED
    BY <2>3, <2>5
<1>5. Intact(m)' <=> Intact(m)
  BY DEF Intact
<1>6. ListedIn(out, m, i)' = ListedIn(o, m, i)
  BY DEF ListedIn
<1>7. ASSUME NEW x PROVE RangeIn(out, x)' = RangeIn(o, x)
  BY DEF RangeIn
<1>8. InItsScope(out, m, i)' <=> InItsScope(o, m, i)
  BY <1>2 DEF InItsScope
<1>9. RangesOnce(out, m, i)' <=> RangesOnce(o, m, i)
  <2>1. PICK L : L = ListedIn(o, m, i)
    OBVIOUS
  <2>2. ListedIn(out, m, i)' = L
    BY <2>1, <1>6
  <2>3. {RangeIn(out, x)' : x \in L} = {RangeIn(o, x) : x \in L}
    BY <1>7
  <2> QED
    BY <2>1, <2>2, <2>3, <1>4, <1>7 DEF RangesOnce
<1>10. Mentions(out, m, i)' <=> Mentions(o, m, i)
  BY DEF Mentions
<1> QED
  BY <1>2, <1>5, <1>8, <1>9, <1>10 DEF SiteIsRight

-----------------------------------------------------------------------------
\* A site is the place of a record.
LEMMA SitesArePlaces ==
  /\ \A x \in AllSites : x = <<x[1], x[2]>> /\ x[1] \in DOMAIN modules /\ x[2] \in Sites(x[1])
  /\ \A m \in DOMAIN modules : \A i \in Sites(m) : <<m, i>> \in AllSites
<1>1. ASSUME NEW x \in AllSites PROVE x = <<x[1], x[2]>> /\ x[1] \in DOMAIN modules /\ x[2] \in Sites(x[1])
  <2>1. PICK m \in DOMAIN modules : x \in {m} \X Sites(m)
    BY DEF AllSites
  <2> QED
    BY <2>1
<1>2. ASSUME NEW m \in DOMAIN modules, NEW i \in Sites(m) PROVE <<m, i>> \in AllSites
  BY DEF AllSites
<1> QED
  BY <1>1, <1>2

\* The sites behind the walk, and what has been made of them.
Visited ==
  {x \in AllSites : \/ pass = "done" \/ x[1] < mod
                    \/ x[1] = mod /\ pass = "place" /\ x[2] < record_no}
Unreadable == {x \in Visited : ~modules[x[1]][x[2]].ok}
Listed == {x \in Visited : Mentions(out, x[1], x[2])}

\* The walk is at a record or at the end of them, and has collected what it should;
WalkFits ==
  /\ modules \in InlineFiles /\ pass \in {"collect", "place", "done"}
  /\ pass # "done" => mod \in DOMAIN modules /\ record_no \in 1..(Len(Body) + 1)
  /\ pass = "collect" => Collected(record_no)
  /\ pass = "place" => Collected(Len(Body) + 1)

\* the listing mentions only readable sites behind the walk, and each of those is right in it;
ListingFits ==
  /\ out \in Seq(ToSet(out))
  /\ \A k \in DOMAIN out : <<out[k].mod, out[k].site>> \in Visited
  /\ \A x \in Visited : SiteIsRight(out, x[1], x[2])
  /\ Listed \cap Unreadable = {}

\* the counts of diagnose() are of the sites behind the walk.
CountsFit ==
  /\ IsFiniteSet(Visited)
  /\ malformed = Cardinality(Unreadable) /\ placed = Cardinality(Listed)

PlacementInv == WalkFits /\ ListingFits /\ CountsFit

\* It holds before the first record, and of a file without modules.
LEMMA PlacementBegins ==
  ASSUME PlacementInit
  PROVE  PlacementInv
<1>1. /\ modules \in InlineFiles /\ mod = 1 /\ record_no = 1 /\ procs = <<>> /\ chunks = <<>>
      /\ pass = IF modules = <<>> THEN "done" ELSE "collect"
      /\ out = <<>> /\ placed = 0 /\ malformed = 0
  BY DEF PlacementInit
<1>2. /\ DOMAIN modules = 1..Len(modules) /\ Len(modules) \in Nat
      /\ modules # <<>> => Len(modules) > 0
  BY <1>1, FilesAreModules
<1>3. WalkFits
  <2>1. CASE modules = <<>>
    BY <1>1, <2>1 DEF WalkFits
  <2>2. CASE modules # <<>>
    <3>1. mod \in DOMAIN modules /\ pass = "collect"
      BY <1>1, <1>2, <2>2
    <3>2. Len(Body) \in Nat
      BY <1>1, <3>1, FilesAreModules DEF Body
    <3>3. Collected(1)
      BY <1>1, <3>1, NothingCollected
    <3> QED
      BY <1>1, <3>1, <3>2, <3>3 DEF WalkFits
  <2> QED
    BY <2>1, <2>2
<1>4. Visited = {}
  <2>1. SUFFICES ASSUME NEW x \in Visited PROVE FALSE
    OBVIOUS
  <2>2. x \in AllSites /\ x[1] \in DOMAIN modules
    BY <2>1, SitesArePlaces DEF Visited
  <2>3. modules # <<>> /\ pass = "collect" /\ x[1] >= 1
    BY <1>1, <1>2, <2>2
  <2> QED
    BY <1>1, <1>2, <2>1, <2>2, <2>3 DEF Visited
<1>5. ListingFits
  <2>1. out \in Seq(ToSet(out)) /\ DOMAIN out = {}
    BY <1>1
  <2> QED
    BY <1>4, <2>1 DEF ListingFits, Listed
<1>6. CountsFit
  <2>1. Unreadable = {} /\ Listed = {}
    BY <1>4 DEF Unreadable, Listed
  <2> QED
    BY <1>1, <1>4, <2>1, FS_EmptySet DEF CountsFit
<1> QED
  BY <1>3, <1>5, <1>6 DEF PlacementInv

\* What has been collected stays known while sites are placed.
LEMMA CollectedStays ==
  ASSUME UNCHANGED <<modules, mod, procs, chunks>>, NEW k, Collected(k)
  PROVE  Collected(k)'
<1>1. ReadProcs(mod)' = ReadProcs(mod)
  BY DEF ReadProcs
<1>2. ASSUME NEW p
      PROVE  /\ ChunksOf(Addr(p))' = ChunksOf(Addr(p))
             /\ ReadChunks(mod, Addr(p), k)' = ReadChunks(mod, Addr(p), k)
  BY DEF ReadChunks, ChunksOf, Addr, Body
<1>3. ASSUME NEW p \in ReadProcs(mod)
      PROVE  InOrder(ChunksOf(Addr(p)), ReadChunks(mod, Addr(p), k))'
  BY <1>2, <1>3 DEF Collected, InOrder
<1> QED
  BY <1>1, <1>3 DEF Collected

\* The walk goes through the records of each module twice, and through the modules.
LEMMA WalkGoesOn ==
  ASSUME WalkFits, PlacementNext
  PROVE  WalkFits'
<1>0. pass # "done" /\ mod \in DOMAIN modules /\ record_no \in 1..(Len(Body) + 1) /\ modules \in InlineFiles
  BY DEF WalkFits, PlacementNext, CollectProc, CollectChunk, CollectNothing, BeginPlacing,
         PlaceSite, SkipMalformedSite, PlaceNothing, NextModule, Visiting
<1>1. /\ DOMAIN modules = 1..Len(modules) /\ Len(modules) \in Nat
      /\ DOMAIN Body = 1..Len(Body) /\ Len(Body) \in Nat
  BY <1>0, FilesAreModules DEF Body
<1>2. CASE CollectProc \/ CollectChunk \/ CollectNothing
  <2>1. /\ pass = "collect" /\ record_no <= Len(Body)
        /\ UNCHANGED <<modules, mod, pass>> /\ record_no' = record_no + 1
    BY <1>2 DEF CollectProc, CollectChunk, CollectNothing, Visiting
  <2>2. PICK k : k = record_no
    OBVIOUS
  <2>3. Collected(k) /\ k \in DOMAIN Body
    BY <1>0, <1>1, <2>1, <2>2 DEF WalkFits
  <2>4. Collected(k + 1)'
    BY <1>0, <1>2, <2>2, <2>3, CollectingOne
  <2>5. Collected(record_no)'
    BY <2>1, <2>2, <2>4 DEF Collected, ReadChunks
  <2>6. Len(Body)' = Len(Body)
    BY <2>1 DEF Body
  <2>7. record_no' \in 1..(Len(Body) + 1)
    BY <1>0, <1>1, <2>1
  <2> QED
    BY <1>0, <2>1, <2>5, <2>6, <2>7 DEF WalkFits
<1>3. CASE BeginPlacing
  <2>1. /\ pass = "collect" /\ record_no > Len(Body) /\ pass' = "place" /\ record_no' = 1
        /\ UNCHANGED <<modules, mod, procs, chunks>>
    BY <1>3 DEF BeginPlacing
  <2>2. PICK k : k = Len(Body) + 1
    OBVIOUS
  <2>3. k = record_no
    BY <1>0, <1>1, <2>1, <2>2
  <2>4. Collected(k)
    BY <2>1, <2>3 DEF WalkFits
  <2>5. Collected(k)'
    BY <2>1, <2>4, CollectedStays
  <2>6. Len(Body)' + 1 = k
    BY <2>1, <2>2 DEF Body
  <2>7. Collected(Len(Body) + 1)'
    BY <2>5, <2>6 DEF Collected, ReadChunks
  <2> QED
    BY <1>0, <1>1, <2>1, <2>2, <2>6, <2>7 DEF WalkFits
<1>4. CASE PlaceSite \/ SkipMalformedSite \/ PlaceNothing
  <2>1. /\ pass = "place" /\ record_no <= Len(Body) /\ record_no' = record_no + 1
        /\ UNCHANGED <<modules, mod, pass, procs, chunks>>
    BY <1>4 DEF PlaceSite, SkipMalformedSite, PlaceNothing, Visiting
  <2>2. PICK k : k = Len(Body) + 1
    OBVIOUS
  <2>3. Collected(k)
    BY <2>1, <2>2 DEF WalkFits
  <2>4. Collected(k)'
    BY <2>1, <2>3, CollectedStays
  <2>5. Len(Body)' + 1 = k
    BY <2>1, <2>2 DEF Body
  <2>6. Collected(Len(Body) + 1)'
    BY <2>4, <2>5 DEF Collected, ReadChunks
  <2>7. record_no' \in 1..k
    BY <1>0, <1>1, <2>1, <2>2
  <2> QED
    BY <1>0, <2>1, <2>5, <2>6, <2>7 DEF WalkFits
<1>5. CASE NextModule
  <2>1. UNCHANGED modules /\ procs' = <<>> /\ chunks' = <<>>
    BY <1>5 DEF NextModule
  <2>2. CASE mod = Len(modules)
    <3>1. pass' = "done"
      BY <1>5, <2>2 DEF NextModule
    <3> QED
      BY <1>0, <2>1, <3>1 DEF WalkFits
  <2>3. CASE mod # Len(modules)
    <3>1. pass' = "collect" /\ mod' = mod + 1 /\ record_no' = 1
      BY <1>5, <2>3 DEF NextModule
    <3>2. mod' \in DOMAIN modules'
      BY <1>0, <1>1, <2>1, <2>3, <3>1
    <3>3. modules' \in InlineFiles
      BY <1>0, <2>1
    <3>4. Len(Body)' \in Nat
      <4>1. PICK m : m = mod'
        OBVIOUS
      <4>2. m \in DOMAIN modules /\ Body' = modules[m]
        BY <2>1, <3>2, <4>1 DEF Body
      <4>3. Len(modules[m]) \in Nat
        BY <1>0, <4>2, FilesAreModules
      <4> QED
        BY <4>2, <4>3
    <3>5. Collected(1)'
      <4>1. ((/\ modules \in InlineFiles /\ mod \in DOMAIN modules
             /\ procs = <<>> /\ chunks = <<>>) => Collected(1))'
        BY NothingCollected, PTL
      <4> QED
        BY <2>1, <3>2, <3>3, <4>1
    <3>6. Collected(record_no)'
      BY <3>1, <3>5 DEF Collected, ReadChunks
    <3> QED
      BY <3>1, <3>2, <3>3, <3>4, <3>6 DEF WalkFits
  <2> QED
    BY <2>2, <2>3
<1> QED
  BY <1>2, <1>3, <1>4, <1>5 DEF PlacementNext

-----------------------------------------------------------------------------
\* The listing and the counts stay where no site goes by.
LEMMA NoSiteGoesBy ==
  ASSUME ListingFits, CountsFit, UNCHANGED <<modules, out, placed, malformed>>, Visited' = Visited
  PROVE  ListingFits' /\ CountsFit'
<1>1. PICK o : o = out
  OBVIOUS
<1>2. PICK V : V = Visited
  OBVIOUS
<1>3. out' = o /\ Visited' = V
  BY <1>1, <1>2
<1>4. \A x \in V : SiteIsRight(out, x[1], x[2])'
  BY <1>1, <1>2, <1>3, RightSiteStays DEF ListingFits
<1>5. Unreadable' = Unreadable
  BY DEF Unreadable
<1>6. Listed' = Listed
  <2>1. \A x \in V : Mentions(out, x[1], x[2])' <=> Mentions(out, x[1], x[2])
    BY <1>1, <1>3, RightSiteStays
  <2> QED
    BY <1>2, <1>3, <2>1 DEF Listed
<1>7. ListingFits'
  BY <1>4, <1>5, <1>6, <1>2, <1>3 DEF ListingFits
<1>8. CountsFit'
  BY <1>5, <1>6 DEF CountsFit
<1> QED
  BY <1>7, <1>8

\* A site that goes by is one more, right in the listing and in the counts.
LEMMA SiteGoesBy ==
  ASSUME ListingFits, CountsFit, UNCHANGED modules,
         NEW m, NEW i, NEW p, NEW es, EntriesOf(es, m, i, p), out' = out \o es,
         <<m, i>> \notin Visited, Visited' = Visited \cup {<<m, i>>},
         SiteIsRight(out \o es, m, i), Mentions(out \o es, m, i) <=> es # <<>>,
         es # <<>> => modules[m][i].ok,
         malformed' = malformed + (IF modules[m][i].ok THEN 0 ELSE 1),
         placed' = placed + (IF es = <<>> THEN 0 ELSE 1)
  PROVE  ListingFits' /\ CountsFit'
<1>1. PICK o : o = out
  OBVIOUS
<1>2. PICK V : V = Visited
  OBVIOUS
<1> DEFINE z == o \o es
           W == V \cup {<<m, i>>}
<1>3. out' = z /\ Visited' = W /\ <<m, i>> \notin V
  BY <1>1, <1>2
<1>4. o \in Seq(ToSet(o)) /\ \A k \in DOMAIN o : <<o[k].mod, o[k].site>> \in V
  BY <1>1, <1>2 DEF ListingFits
<1>5. z \in Seq(ToSet(z)) /\ \A k \in DOMAIN z : <<z[k].mod, z[k].site>> \in W
  <2> DEFINE X == ToSet(o) \cup ToSet(es)
  <2>1. o \in Seq(X) /\ es \in Seq(X) /\ DOMAIN o = 1..Len(o) /\ Len(o) \in Nat /\ Len(es) \in Nat
    BY <1>4 DEF EntriesOf
  <2> HIDE DEF X
  <2>2. /\ z \in Seq(X) /\ Len(z) = Len(o) + Len(es)
        /\ \A n \in 1..(Len(o) + Len(es)) : z[n] = IF n <= Len(o) THEN o[n] ELSE es[n - Len(o)]
    BY <2>1, PlacesOfConcat
  <2> HIDE DEF z
  <2>3. DOMAIN z = 1..(Len(o) + Len(es)) /\ z \in Seq(ToSet(z))
    BY <2>2, SeqOfItsElements
  <2>4. ASSUME NEW k \in DOMAIN z PROVE <<z[k].mod, z[k].site>> \in W
    <3>1. CASE k <= Len(o)
      <4>1. k \in DOMAIN o /\ z[k] = o[k]
        BY <2>1, <2>2, <2>3, <3>1
      <4> QED
        BY <4>1, <1>4
    <3>2. CASE ~(k <= Len(o))
      <4>1. k - Len(o) \in 1..Len(es) /\ z[k] = es[k - Len(o)]
        BY <2>1, <2>2, <2>3, <3>2
      <4>2. z[k].mod = m /\ z[k].site = i
        BY <4>1 DEF EntriesOf
      <4> QED
        BY <4>2
    <3> QED
      BY <3>1, <3>2
  <2> QED
    BY <2>3, <2>4
<1>x. \A x \in V : x = <<x[1], x[2]>> /\ <<x[1], x[2]>> # <<m, i>>
  <2>1. \A x \in V : x \in AllSites
    BY <1>2 DEF Visited
  <2> QED
    BY <2>1, <1>3, SitesArePlaces
<1>6. \A x \in V : /\ SiteIsRight(z, x[1], x[2])
                   /\ Mentions(z, x[1], x[2]) <=> Mentions(o, x[1], x[2])
  <2>1. \A x \in V : SiteIsRight(o, x[1], x[2])
    BY <1>1, <1>2 DEF ListingFits
  <2> QED
    BY <2>1, <1>4, <1>x, OthersStayRight
<1>7. SiteIsRight(z, m, i) /\ (Mentions(z, m, i) <=> es # <<>>)
  BY <1>1
<1> HIDE DEF z
<1>8. \A x \in W : /\ SiteIsRight(out, x[1], x[2])' <=> SiteIsRight(z, x[1], x[2])
                   /\ Mentions(out, x[1], x[2])' <=> Mentions(z, x[1], x[2])
  BY <1>3, RightSiteStays
<1>9. \A x \in W : SiteIsRight(out, x[1], x[2])'
  BY <1>6, <1>7, <1>8
<1>10. PICK U : U = Unreadable
  OBVIOUS
<1>11. PICK L : L = Listed
  OBVIOUS
<1> DEFINE x0 == <<m, i>>
<1>12. /\ Unreadable' \subseteq W /\ U \subseteq V
       /\ \A y \in V : y \in Unreadable' <=> y \in U
       /\ x0 \in Unreadable' <=> ~modules[m][i].ok
  <2>1. Unreadable' = {x \in W : ~modules[x[1]][x[2]].ok}
    BY <1>3 DEF Unreadable
  <2>2. U = {x \in V : ~modules[x[1]][x[2]].ok}
    BY <1>2, <1>10 DEF Unreadable
  <2>3. x0[1] = m /\ x0[2] = i /\ x0 \in W
    OBVIOUS
  <2> HIDE DEF x0
  <2>4. x0 \in Unreadable' <=> ~modules[m][i].ok
    BY <2>1, <2>3
  <2>5. \A y \in V : y \in Unreadable' <=> y \in U
    BY <2>1, <2>2
  <2> QED
    BY <2>1, <2>2, <2>4, <2>5
<1>13. /\ Listed' \subseteq W /\ L \subseteq V
       /\ \A y \in V : y \in Listed' <=> y \in L
       /\ x0 \in Listed' <=> es # <<>>
  <2>1. Listed' = {x \in W : Mentions(z, x[1], x[2])}
    BY <1>3, <1>8 DEF Listed
  <2>2. L = {x \in V : Mentions(o, x[1], x[2])}
    BY <1>1, <1>2, <1>11 DEF Listed
  <2>3. x0[1] = m /\ x0[2] = i /\ x0 \in W
    OBVIOUS
  <2> HIDE DEF x0
  <2>4. x0 \in Listed' <=> es # <<>>
    BY <2>1, <2>3, <1>7
  <2>5. \A y \in V : y \in Listed' <=> y \in L
    BY <2>1, <2>2, <1>6
  <2> QED
    BY <2>1, <2>2, <2>4, <2>5
<1>14. IsFiniteSet(V) /\ malformed = Cardinality(U) /\ placed = Cardinality(L) /\ L \cap U = {}
  BY <1>2, <1>10, <1>11 DEF CountsFit, ListingFits
<1>15. IsFiniteSet(W)
  BY <1>14, FS_AddElement
<1> HIDE DEF x0
<1>17. W = V \cup {x0} /\ x0 \notin V
  BY <1>3 DEF x0
<1>18. Cardinality(Unreadable') = Cardinality(U) + (IF x0 \in Unreadable' THEN 1 ELSE 0)
  <2>1. PICK T : T = Unreadable'
    OBVIOUS
  <2>2. T \subseteq V \cup {x0} /\ U \subseteq V /\ \A y \in V : y \in T <=> y \in U
    BY <2>1, <1>12, <1>17
  <2>3. Cardinality(T) = Cardinality(U) + (IF x0 \in T THEN 1 ELSE 0)
    BY <2>2, <1>14, <1>17, CountOneMore
  <2> QED
    BY <2>1, <2>3
<1>19. Cardinality(Listed') = Cardinality(L) + (IF x0 \in Listed' THEN 1 ELSE 0)
  <2>1. PICK T : T = Listed'
    OBVIOUS
  <2>2. T \subseteq V \cup {x0} /\ L \subseteq V /\ \A y \in V : y \in T <=> y \in L
    BY <2>1, <1>13, <1>17
  <2>3. Cardinality(T) = Cardinality(L) + (IF x0 \in T THEN 1 ELSE 0)
    BY <2>2, <1>14, <1>17, CountOneMore
  <2> QED
    BY <2>1, <2>3
<1>20. Cardinality(U) \in Nat /\ Cardinality(L) \in Nat
  BY <1>12, <1>13, <1>14, FS_Subset, FS_CardinalityType
<1>21. malformed' = Cardinality(Unreadable') /\ placed' = Cardinality(Listed')
  BY <1>12, <1>13, <1>14, <1>18, <1>19, <1>20
<1>22. Listed' \cap Unreadable' = {}
  BY <1>12, <1>13, <1>14, <1>17
<1>23. ListingFits'
  BY <1>3, <1>5, <1>9, <1>22 DEF ListingFits
<1>24. CountsFit'
  BY <1>3, <1>15, <1>21 DEF CountsFit
<1> QED
  BY <1>23, <1>24

\* Which sites are behind the walk after a step: the one just read is one more.
LEMMA WalkVisits ==
  ASSUME WalkFits, PlacementNext
  PROVE  /\ modules' = modules
         /\ PlaceSite \/ SkipMalformedSite =>
              /\ <<mod, record_no>> \in AllSites /\ <<mod, record_no>> \notin Visited
              /\ Visited' = Visited \cup {<<mod, record_no>>}
         /\ ~(PlaceSite \/ SkipMalformedSite) =>
              Visited' = Visited /\ UNCHANGED <<out, placed, malformed>>
<1>0. /\ pass # "done" /\ mod \in DOMAIN modules /\ record_no \in 1..(Len(Body) + 1)
      /\ modules \in InlineFiles
  BY DEF WalkFits, PlacementNext, CollectProc, CollectChunk, CollectNothing, BeginPlacing,
         PlaceSite, SkipMalformedSite, PlaceNothing, NextModule, Visiting
<1>1. /\ DOMAIN modules = 1..Len(modules) /\ Len(modules) \in Nat
      /\ DOMAIN Body = 1..Len(Body) /\ Len(Body) \in Nat
  BY <1>0, FilesAreModules DEF Body
<1>2. modules' = modules
  BY DEF PlacementNext, CollectProc, CollectChunk, CollectNothing, BeginPlacing,
         PlaceSite, SkipMalformedSite, PlaceNothing, NextModule
<1> DEFINE Behind(x, q, m, r) == q = "done" \/ x[1] < m \/ (x[1] = m /\ q = "place" /\ x[2] < r)
<1>3. AllSites' = AllSites
  BY <1>2 DEF AllSites, Sites
<1>4. /\ Visited = {x \in AllSites : Behind(x, pass, mod, record_no)}
      /\ Visited' = {x \in AllSites : Behind(x, pass', mod', record_no')}
  BY <1>3 DEF Visited
<1>5. \A x \in AllSites : /\ x = <<x[1], x[2]>> /\ x[1] \in 1..Len(modules)
                          /\ x[1] = mod => x[2] \in 1..Len(Body) /\ Body[x[2]].kind = "site"
  BY <1>1, SitesArePlaces DEF Sites, Body
<1>6. CASE PlaceSite \/ SkipMalformedSite
  <2>1. /\ pass = "place" /\ record_no <= Len(Body) /\ Rec.kind = "site"
        /\ pass' = "place" /\ mod' = mod /\ record_no' = record_no + 1
    BY <1>6 DEF PlaceSite, SkipMalformedSite, Visiting
  <2>2. <<mod, record_no>> \in AllSites
    <3>1. record_no \in Sites(mod)
      BY <1>0, <1>1, <2>1 DEF Sites, Rec, Body
    <3> QED
      BY <1>0, <3>1, SitesArePlaces
  <2>3. \A x \in AllSites : Behind(x, pass', mod', record_no')
                             <=> Behind(x, pass, mod, record_no) \/ x = <<mod, record_no>>
    BY <1>0, <1>1, <1>5, <2>1
  <2>4. ~Behind(<<mod, record_no>>, pass, mod, record_no)
    BY <1>0, <1>1, <2>1
  <2> HIDE DEF Behind
  <2>5. <<mod, record_no>> \notin Visited /\ Visited' = Visited \cup {<<mod, record_no>>}
    BY <1>4, <2>2, <2>3, <2>4
  <2> QED
    BY <1>2, <1>6, <2>2, <2>5
<1>7. CASE ~(PlaceSite \/ SkipMalformedSite)
  <2>1. UNCHANGED <<out, placed, malformed>>
    BY <1>7 DEF PlacementNext, CollectProc, CollectChunk, CollectNothing, BeginPlacing, PlaceNothing, NextModule
  <2>2. \A x \in AllSites : Behind(x, pass', mod', record_no') <=> Behind(x, pass, mod, record_no)
    <3>1. CASE CollectProc \/ CollectChunk \/ CollectNothing
      BY <3>1 DEF CollectProc, CollectChunk, CollectNothing, Visiting
    <3>2. CASE BeginPlacing
      BY <3>2, <1>1, <1>5 DEF BeginPlacing
    <3>3. CASE PlaceNothing
      <4>1. /\ pass = "place" /\ record_no <= Len(Body) /\ Rec.kind # "site"
            /\ pass' = "place" /\ mod' = mod /\ record_no' = record_no + 1
        BY <3>3 DEF PlaceNothing, Visiting
      <4>2. \A x \in AllSites : x[1] = mod => x[2] # record_no
        BY <1>5, <4>1 DEF Rec
      <4> QED
        BY <1>0, <1>1, <1>5, <4>1, <4>2
    <3>4. CASE NextModule
      <4>1. pass = "place" /\ record_no > Len(Body)
        BY <3>4 DEF NextModule
      <4>2. CASE mod = Len(modules)
        <5>1. pass' = "done"
          BY <3>4, <4>2 DEF NextModule
        <5> QED
          BY <1>0, <1>1, <1>5, <4>1, <4>2, <5>1
      <4>3. CASE mod # Len(modules)
        <5>1. pass' = "collect" /\ mod' = mod + 1
          BY <3>4, <4>3 DEF NextModule
        <5> QED
          BY <1>0, <1>1, <1>5, <4>1, <5>1
      <4> QED
        BY <4>2, <4>3
    <3> QED
      BY <1>7, <3>1, <3>2, <3>3, <3>4 DEF PlacementNext
  <2> HIDE DEF Behind
  <2>3. Visited' = Visited
    BY <1>4, <2>2
  <2> QED
    BY <1>2, <1>7, <2>1, <2>3
<1> QED
  BY <1>6, <1>7

\* What a readable site adds to the listing is right.
LEMMA PlacingIsRight ==
  ASSUME WalkFits, ListingFits, CountsFit, PlaceSite, <<mod, record_no>> \in AllSites,
         <<mod, record_no>> \notin Visited
  PROVE  \E p, es : /\ EntriesOf(es, mod, record_no, p)
                    /\ out' = out \o es /\ placed' = placed + (IF es = <<>> THEN 0 ELSE 1)
                    /\ SiteIsRight(out \o es, mod, record_no)
                    /\ Mentions(out \o es, mod, record_no) <=> es # <<>>
<1> DEFINE i == record_no
           p == Before(i)
           es == IF Encloses(p, i) THEN Entries(p, i) ELSE <<>>
<1>1. /\ pass = "place" /\ out' = out \o es
      /\ placed' = IF es = <<>> THEN placed ELSE placed + 1
  BY Zenon DEF PlaceSite, Visiting
<1>2. modules \in InlineFiles /\ mod \in DOMAIN modules /\ Collected(Len(Body) + 1)
  BY <1>1 DEF WalkFits
<1>3. i \in Sites(mod)
  BY SitesArePlaces
<1>4. /\ Encloses(p, i) => p = Scope(mod, i) /\ p # 0 /\ p \in ReadProcs(mod)
      /\ Intact(mod) /\ Scope(mod, i) # 0 => Encloses(p, i)
  BY <1>2, <1>3, SearchFindsTheScope
<1>5. out \in Seq(ToSet(out)) /\ ~Mentions(out, mod, i)
  <2>1. \A k \in DOMAIN out : <<out[k].mod, out[k].site>> # <<mod, i>>
    BY DEF ListingFits
  <2> QED
    BY <2>1 DEF ListingFits, Mentions
<1>6. PICK o : o = out
  OBVIOUS
<1>7. PICK c : c = placed
  OBVIOUS
<1>8. /\ EntriesOf(es, mod, i, p)
      /\ es # <<>> => p = Scope(mod, i) /\ p # 0 /\ modules[mod][p].ok
      /\ Intact(mod) /\ Scope(mod, i) # 0 =>
           \E R : EntriesCover(es, R) /\ {R[k] : k \in 1..Len(R)} = TrueAddresses(mod, i)
  <2>1. CASE Encloses(p, i)
    <3>1. es = Entries(p, i)
      BY <2>1
    <3>2. p = Scope(mod, i) /\ p # 0 /\ p \in ReadProcs(mod)
      BY <1>4, <2>1
    <3> HIDE DEF es, p, i
    <3>3. PICK q : RecordsOfRanges(q, p, i)
      BY <1>2, <1>3, <3>2, RangesComeFromRecords
    <3>4. PICK Y : RangesOf(p, i) \in Seq(Y)
      BY <1>2, <3>3, RangesDiffer
    <3>5. \A n, l \in 1..Len(RangesOf(p, i)) : RangesOf(p, i)[n] = RangesOf(p, i)[l] => n = l
      BY <1>2, <3>3, RangesDiffer
    <3>6. EntriesOf(es, mod, i, p)
      BY <3>1, <3>4, EntriesSayWhere
    <3>7. EntriesCover(es, RangesOf(p, i))
      BY <3>1, <3>4, <3>5, EntriesAreOnePerSegment
    <3>8. Intact(mod) => {RangesOf(p, i)[n] : n \in 1..Len(RangesOf(p, i))} = TrueAddresses(mod, i)
      BY <1>2, <1>3, <3>2, <3>3, RangesAreTrue
    <3>9. modules[mod][p].ok
      BY <3>2 DEF ReadProcs
    <3> QED
      BY <3>2, <3>6, <3>7, <3>8, <3>9
  <2>2. CASE ~Encloses(p, i)
    <3>1. es = <<>> /\ ~(Intact(mod) /\ Scope(mod, i) # 0)
      BY <1>4, <2>2
    <3> HIDE DEF es, p
    <3>2. EntriesOf(es, mod, i, p)
      <4>1. <<>> \in Seq(ToSet(<<>>)) /\ DOMAIN <<>> = 1..Len(<<>>) /\ Len(<<>>) = 0
        OBVIOUS
      <4> QED
        BY <3>1, <4>1 DEF EntriesOf
    <3> QED
      BY <3>1, <3>2
  <2> QED
    BY <2>1, <2>2
<1> HIDE DEF es, p, i
<1>9. SiteIsRight(out \o es, mod, i) /\ (Mentions(out \o es, mod, i) <=> es # <<>>)
  BY <1>5, <1>8, NewSiteIsRight
<1>10. placed \in Int
  <2>1. Listed \subseteq Visited
    BY DEF Listed
  <2> QED
    BY <2>1, FS_Subset, FS_CardinalityType DEF CountsFit
<1>11. placed' = placed + (IF es = <<>> THEN 0 ELSE 1)
  BY <1>1, <1>10
<1> QED
  BY <1>1, <1>8, <1>9, <1>11 DEF i

\* Every step keeps the invariant of the walk,
LEMMA PlacementGoesOn ==
  ASSUME PlacementInv, PlacementNext
  PROVE  PlacementInv'
<1>1. WalkFits'
  BY WalkGoesOn DEF PlacementInv
<1>2. /\ modules' = modules
      /\ PlaceSite \/ SkipMalformedSite =>
           /\ <<mod, record_no>> \in AllSites /\ <<mod, record_no>> \notin Visited
           /\ Visited' = Visited \cup {<<mod, record_no>>}
      /\ ~(PlaceSite \/ SkipMalformedSite) =>
           Visited' = Visited /\ UNCHANGED <<out, placed, malformed>>
  BY WalkVisits DEF PlacementInv
<1>0. WalkFits /\ ListingFits /\ CountsFit
  BY DEF PlacementInv
<1>3. PICK m : m = mod
  OBVIOUS
<1>4. PICK i : i = record_no
  OBVIOUS
<1>5. PICK o : o = out
  OBVIOUS
<1>n. malformed \in Int /\ placed \in Int
  <2>1. Listed \subseteq Visited /\ Unreadable \subseteq Visited
    BY DEF Listed, Unreadable
  <2> QED
    BY <2>1, <1>0, FS_Subset, FS_CardinalityType DEF CountsFit
<1>6. CASE PlaceSite
  <2>1. PICK p, es : /\ EntriesOf(es, m, i, p)
                     /\ out' = out \o es /\ placed' = placed + (IF es = <<>> THEN 0 ELSE 1)
                     /\ SiteIsRight(out \o es, m, i)
                     /\ Mentions(out \o es, m, i) <=> es # <<>>
    BY <1>0, <1>2, <1>3, <1>4, <1>6, PlacingIsRight
  <2>2. modules[m][i].ok /\ malformed' = malformed
    BY <1>3, <1>4, <1>6 DEF PlaceSite, Rec, Body
  <2>3. malformed' = malformed + (IF modules[m][i].ok THEN 0 ELSE 1)
    BY <2>2, <1>n
  <2>4. ListingFits' /\ CountsFit'
    BY <1>0, <1>2, <1>3, <1>4, <1>6, <2>1, <2>2, <2>3, SiteGoesBy
  <2> QED
    BY <1>1, <2>4 DEF PlacementInv
<1>7. CASE SkipMalformedSite
  <2>1. ~modules[m][i].ok /\ malformed' = malformed + 1 /\ out' = out /\ placed' = placed
    BY <1>3, <1>4, <1>7 DEF SkipMalformedSite, Rec, Body
  <2>2. o \in Seq(ToSet(o)) /\ ~Mentions(o, m, i)
    <3>1. \A k \in DOMAIN o : <<o[k].mod, o[k].site>> # <<m, i>>
      BY <1>0, <1>2, <1>3, <1>4, <1>5, <1>7 DEF ListingFits
    <3> QED
      BY <1>0, <1>5, <3>1 DEF ListingFits, Mentions
  <2>3. ~Intact(m)
    <3>1. i \in DOMAIN modules[m]
      BY <1>2, <1>3, <1>4, <1>7, SitesArePlaces DEF Sites
    <3> QED
      BY <2>1, <3>1 DEF Intact
  <2> DEFINE es == <<>>
  <2>4. EntriesOf(es, m, i, 0)
    <3>1. <<>> \in Seq(ToSet(<<>>)) /\ DOMAIN <<>> = 1..Len(<<>>) /\ Len(<<>>) = 0
      OBVIOUS
    <3> QED
      BY <3>1 DEF EntriesOf
  <2>5. out \o es = o
    BY <1>5, <2>2
  <2>6. es = <<>>
    OBVIOUS
  <2> HIDE DEF es
  <2>7. SiteIsRight(out \o es, m, i) /\ (Mentions(out \o es, m, i) <=> es # <<>>)
    BY <2>2, <2>3, <2>5, <2>6 DEF SiteIsRight, InItsScope, Mentions
  <2>8. /\ malformed' = malformed + (IF modules[m][i].ok THEN 0 ELSE 1)
        /\ placed' = placed + (IF es = <<>> THEN 0 ELSE 1)
    BY <2>1, <2>6, <1>n
  <2>9. out' = out \o es
    BY <1>5, <2>1, <2>5
  <2>10. ListingFits' /\ CountsFit'
    BY <1>0, <1>2, <1>3, <1>4, <1>7, <2>4, <2>6, <2>7, <2>8, <2>9, SiteGoesBy
  <2> QED
    BY <1>1, <2>10 DEF PlacementInv
<1>8. CASE ~(PlaceSite \/ SkipMalformedSite)
  <2>1. ListingFits' /\ CountsFit'
    BY <1>0, <1>2, <1>8, NoSiteGoesBy
  <2> QED
    BY <1>1, <2>1 DEF PlacementInv
<1> QED
  BY <1>6, <1>7, <1>8

\* A step of nothing keeps it.
LEMMA PlacementIdles ==
  ASSUME PlacementInv, UNCHANGED placementVars
  PROVE  PlacementInv'
<1>1. UNCHANGED <<modules, mod, pass, record_no, procs, chunks, out, placed, malformed>>
  BY DEF placementVars
<1>2. Visited' = Visited
  BY <1>1 DEF Visited, AllSites, Sites
<1>3. ListingFits' /\ CountsFit'
  BY <1>1, <1>2, NoSiteGoesBy DEF PlacementInv
<1>4. PICK k : k = record_no
  OBVIOUS
<1>5. PICK e : e = Len(Body) + 1
  OBVIOUS
<1>6. (pass = "collect" => Collected(k)') /\ (pass = "place" => Collected(e)')
  BY <1>1, <1>4, <1>5, CollectedStays DEF PlacementInv, WalkFits
<1>7. Len(Body)' + 1 = e /\ record_no' = k
  BY <1>1, <1>4, <1>5 DEF Body
<1>8. (pass = "collect" => Collected(record_no)') /\ (pass = "place" => Collected(Len(Body) + 1)')
  BY <1>6, <1>7 DEF Collected, ReadChunks
<1>9. (pass # "done" => mod \in DOMAIN modules /\ record_no \in 1..(Len(Body) + 1))'
  BY <1>1, <1>7, <1>4, <1>5 DEF PlacementInv, WalkFits
<1>10. WalkFits'
  BY <1>1, <1>8, <1>9 DEF PlacementInv, WalkFits
<1> QED
  BY <1>3, <1>10 DEF PlacementInv

\* so it holds throughout.
LEMMA PlacementKept == PlacementSpec => []PlacementInv
<1>1. PlacementInit => PlacementInv
  BY PlacementBegins
<1>2. PlacementInv /\ [PlacementNext]_placementVars => PlacementInv'
  BY PlacementGoesOn, PlacementIdles
<1> QED
  BY <1>1, <1>2, PTL DEF PlacementSpec

\* _inline_listing puts each site under the procedure it is nested in, and in a module
\* without damaged records with each of its ranges once, one entry per segment.
THEOREM SitesArePlaced == PlacementSpec => []SitesAreInPlace
<1>1. ASSUME PlacementInv PROVE SitesAreInPlace
  <2>1. \A k \in DOMAIN out : <<out[k].mod, out[k].site>> \in Visited
    BY <1>1 DEF PlacementInv, ListingFits
  <2>2. \A m, i : <<m, i>> \in Visited => SiteIsRight(out, m, i)
    <3>1. \A x \in Visited : SiteIsRight(out, x[1], x[2])
      BY <1>1 DEF PlacementInv, ListingFits
    <3>2. \A m, i : <<m, i>>[1] = m /\ <<m, i>>[2] = i
      OBVIOUS
    <3> QED
      BY <3>1, <3>2
  <2>3. SitesAreInScope
    <3>1. \A k \in DOMAIN out : InItsScope(out, out[k].mod, out[k].site)
      BY <2>1, <2>2 DEF SiteIsRight
    <3> QED
      BY <3>1 DEF SitesAreInScope, InItsScope
  <2>4. EveryRangeOnce
    <3>1. SUFFICES ASSUME pass = "done", NEW m \in DOMAIN modules, Intact(m), NEW i \in Sites(m), Scope(m, i) # 0
                   PROVE  /\ {RangeAt(x) : x \in ListedAt(m, i)} = TrueAddresses(m, i)
                          /\ \A x, y \in ListedAt(m, i) :
                              /\ RangeAt(x) = RangeAt(y) => x = y
                              /\ RangeAt(x).segment = RangeAt(y).segment <=> x[1] = y[1]
      BY DEF EveryRangeOnce
    <3>2. <<m, i>> \in Visited
      BY <3>1, SitesArePlaces DEF Visited
    <3>3. RangesOnce(out, m, i)
      BY <2>2, <3>1, <3>2 DEF SiteIsRight
    <3>4. ListedIn(out, m, i) = ListedAt(m, i) /\ \A x : RangeIn(out, x) = RangeAt(x)
      BY DEF ListedIn, ListedAt, RangeIn, RangeAt
    <3> QED
      BY <3>3, <3>4 DEF RangesOnce
  <2> QED
    BY <2>3, <2>4 DEF SitesAreInPlace
<1>2. PlacementInv => SitesAreInPlace
  BY <1>1
<1> QED
  BY <1>2, PlacementKept, PTL

\* Diagnostics.unplaced_inline_sites, made from three counts, is the number of readable
\* sites the listing does not mention.
THEOREM GapIsCounted == PlacementSpec => []UnplacedIsTheGap
<1>1. ASSUME PlacementInv, pass = "done"
      PROVE  Inline_records - malformed - placed =
               Cardinality({x \in AllSites :
                   /\ modules[x[1]][x[2]].ok
                   /\ \A k \in DOMAIN out : <<out[k].mod, out[k].site>> # x})
  <2> DEFINE A == AllSites
             U == Unreadable
             L == Listed
             gap == {x \in A : /\ modules[x[1]][x[2]].ok
                               /\ \A k \in DOMAIN out : <<out[k].mod, out[k].site>> # x}
  <2>1. Visited = A
    BY <1>1 DEF Visited
  <2>2. /\ IsFiniteSet(A) /\ malformed = Cardinality(U) /\ placed = Cardinality(L)
        /\ L \cap U = {}
    BY <1>1, <2>1 DEF PlacementInv, ListingFits, CountsFit
  <2>3. U = {x \in A : ~modules[x[1]][x[2]].ok} /\ L = {x \in A : Mentions(out, x[1], x[2])}
    BY <2>1 DEF Unreadable, Listed
  <2>4. \A x \in A : Mentions(out, x[1], x[2]) <=> \E k \in DOMAIN out : <<out[k].mod, out[k].site>> = x
    <3>1. \A x \in A : x = <<x[1], x[2]>>
      BY SitesArePlaces
    <3> QED
      BY <3>1 DEF Mentions
  <2>5. gap = (A \ U) \ L
    BY <2>3, <2>4
  <2>6. Inline_records = Cardinality(A)
    BY DEF Inline_records
  <2> HIDE DEF A, U, L, gap
  <2>7. /\ U \subseteq A /\ L \subseteq A /\ (A \ U) \cap L = L /\ A \cap U = U
    BY <2>2, <2>3
  <2>8. /\ IsFiniteSet(U) /\ IsFiniteSet(L)
        /\ Cardinality(A) \in Nat /\ Cardinality(U) \in Nat /\ Cardinality(L) \in Nat
    BY <2>2, <2>7, FS_Subset, FS_CardinalityType
  <2>9. IsFiniteSet(A \ U) /\ Cardinality(A \ U) = Cardinality(A) - Cardinality(U)
    BY <2>2, <2>7, FS_Difference
  <2>10. Cardinality((A \ U) \ L) = Cardinality(A \ U) - Cardinality(L)
    BY <2>7, <2>9, FS_Difference
  <2>11. Cardinality(gap) = Cardinality(A) - Cardinality(U) - Cardinality(L)
    BY <2>5, <2>9, <2>10
  <2> QED
    BY <2>2, <2>6, <2>11 DEF gap, A
<1>2. PlacementInv => UnplacedIsTheGap
  BY <1>1 DEF UnplacedIsTheGap
<1> QED
  BY <1>2, PlacementKept, PTL
=============================================================================
