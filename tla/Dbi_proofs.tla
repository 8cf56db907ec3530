------------------------------ MODULE Dbi_proofs ------------------------------
(***************************************************************************)
(* The DBI stream and what is looked up in it.                             *)
(*                                                                         *)
(* For every substream and every address: the binary search finds the      *)
(* owner.  The index is a total order of the live contributions; the       *)
(* search keeps everything below lo at or before the query and everything  *)
(* from hi on after it.  When they meet, an owner could only be the last   *)
(* one at or before the query: any other would contain the start of that   *)
(* one, and contributions do not overlap.  That what is found covers the   *)
(* query needs no such thing: Answer looks at it once more.                *)
(*                                                                         *)
(* Whatever sizes a header claims and wherever the stream was cut, the     *)
(* seven substreams lie one after the other behind the header and inside   *)
(* the stream, and substream_overrun names the first that was cut.  The    *)
(* running offset is the end of what was taken; once a substream was cut   *)
(* it is the end of the stream, which leaves nothing to those after it.    *)
(*                                                                         *)
(* The corpus sweep, which computes where the debug header lies without    *)
(* parsing the stream, sees in every whole header what the library does.   *)
(***************************************************************************)
EXTENDS ContributionMap, DbiStream, ShapeSurvey, Lemmas

-----------------------------------------------------------------------------
(* The contribution map                                                      *)

OrderIsSorted ==
    /\ \A i, j \in DOMAIN order : i < j => ComesFirst(order[i], order[j])
    /\ \A c \in Live : \E i \in DOMAIN order : order[i] = c

Bounds ==
    /\ lo >= 1 /\ lo <= hi /\ hi <= Len(order) + 1
    /\ \A i \in DOMAIN order : i < lo => ~Before(query, Start(order[i]))
    /\ \A i \in DOMAIN order : i >= hi => Before(query, Start(order[i]))

FoundCovers == pc = "answered" /\ found # 0 => Covers(found, query)

SearchInv ==
    /\ TypeOK
    /\ pc # "new" => OrderIsSorted
    /\ pc = "search" => Bounds
    /\ FindsTheOwner
    /\ FoundCovers

-----------------------------------------------------------------------------

LEMMA FieldsAreNumbers ==
    ASSUME TypeOK, NEW c \in DOMAIN contributions
    PROVE  /\ c \in Nat
           /\ contributions[c].segment \in Nat /\ contributions[c].offset \in Nat
           /\ contributions[c].size \in Nat
           /\ Start(c).segment = contributions[c].segment
           /\ Start(c).offset = contributions[c].offset
<1>1. c \in Nat /\ contributions[c] \in Entries
  BY DEF TypeOK
<1> QED
  BY <1>1, EntriesAssumption DEF Start

LEMMA SearchInvInit == Init => SearchInv
<1> SUFFICES ASSUME Init PROVE SearchInv
  OBVIOUS
<1> USE EntriesAssumption DEF Init
<1>1. contributions \in Seq(Entries)
  OBVIOUS
<1>2. order \in Seq(Live)
  OBVIOUS
<1>3. TypeOK
  BY <1>1, <1>2 DEF TypeOK
<1> QED
  BY <1>3 DEF SearchInv, FindsTheOwner, FoundCovers

LEMMA BuildStep == ASSUME SearchInv, Build PROVE SearchInv'
<1> USE DEF Build
<1>1. PICK n \in 0..Len(contributions) :
        /\ order' \in [1..n -> Live]
        /\ \A i, j \in 1..n : i < j => ComesFirst(order'[i], order'[j])
        /\ \A c \in Live : \E i \in 1..n : order'[i] = c
  OBVIOUS
<1>2. Live' = Live
  BY DEF Live
<1>3. DOMAIN order' = 1..n
  BY <1>1
<1>4. order' \in Seq(Live)
  BY <1>1 DEF SearchInv, TypeOK
<1>5. TypeOK'
  BY <1>2, <1>4 DEF SearchInv, TypeOK
<1>6. OrderIsSorted'
  BY <1>1, <1>2, <1>3 DEF OrderIsSorted, ComesFirst, Start, Before
<1> QED
  BY <1>5, <1>6 DEF SearchInv, FindsTheOwner, FoundCovers

LEMMA AskStep == ASSUME SearchInv, Ask PROVE SearchInv'
<1> USE DEF Ask
<1>1. Live' = Live
  BY DEF Live
<1>2. query' \in [segment : Nat, offset : Nat]
  BY EntriesAssumption
<1>3. Len(order) \in Nat /\ DOMAIN order = 1..Len(order)
  BY DEF SearchInv, TypeOK
<1>4. TypeOK'
  BY <1>1, <1>2, <1>3 DEF SearchInv, TypeOK
<1>5. OrderIsSorted'
  BY <1>1 DEF SearchInv, OrderIsSorted, ComesFirst, Start, Before
<1>6. Bounds'
  BY <1>3 DEF Bounds
<1> QED
  BY <1>4, <1>5, <1>6 DEF SearchInv, FindsTheOwner, FoundCovers

LEMMA ProbeStep == ASSUME SearchInv, Probe PROVE SearchInv'
<1> USE DEF Probe
<1> DEFINE mid == (lo + hi) \div 2
<1>1. Live' = Live
  BY DEF Live
<1>2. /\ lo \in Nat /\ hi \in Nat /\ Len(order) \in Nat
      /\ DOMAIN order = 1..Len(order)
      /\ TypeOK /\ OrderIsSorted /\ Bounds
  BY DEF SearchInv, TypeOK
<1>3. mid \in Nat /\ lo <= mid /\ mid < hi
  BY <1>2
<1>4. mid \in DOMAIN order
  BY <1>2, <1>3 DEF Bounds
<1>5. TypeOK'
  BY <1>1, <1>2, <1>3 DEF TypeOK
<1>6. OrderIsSorted'
  BY <1>1, <1>2 DEF OrderIsSorted, ComesFirst, Start, Before
<1>7. \A i \in DOMAIN order : /\ order[i] \in DOMAIN contributions
                              /\ Start(order[i]).segment \in Nat
                              /\ Start(order[i]).offset \in Nat
  <2> SUFFICES ASSUME NEW i \in DOMAIN order
               PROVE  order[i] \in DOMAIN contributions
    BY <1>2, FieldsAreNumbers
  <2> QED
    BY <1>2 DEF TypeOK, Live
<1>8. Bounds'
  <2>1. CASE Before(query, Start(order[mid]))
    <3>1. hi' = mid /\ lo' = lo
      BY <2>1
    <3>2. ASSUME NEW i \in DOMAIN order, i >= mid
          PROVE  Before(query, Start(order[i]))
      <4>1. i = mid \/ ComesFirst(order[mid], order[i])
        BY <3>2, <1>2, <1>3, <1>4 DEF OrderIsSorted
      <4>2. query.segment \in Nat /\ query.offset \in Nat
        BY <1>2 DEF TypeOK
      <4>3. CASE ComesFirst(order[mid], order[i])
        <5> HIDE DEF mid
        <5> QED
          BY <2>1, <4>2, <4>3, <1>4, <1>7 DEF ComesFirst, Before
      <4> QED
        BY <2>1, <4>1, <4>3
    <3> QED
      BY <3>1, <3>2, <1>2, <1>3 DEF Bounds, Start, Before
  <2>2. CASE ~Before(query, Start(order[mid]))
    <3>1. lo' = mid + 1 /\ hi' = hi
      BY <2>2
    <3>2. ASSUME NEW i \in DOMAIN order, i < mid + 1
          PROVE  ~Before(query, Start(order[i]))
      <4>1. i = mid \/ ComesFirst(order[i], order[mid])
        BY <3>2, <1>2, <1>3, <1>4 DEF OrderIsSorted
      <4>2. query.segment \in Nat /\ query.offset \in Nat
        BY <1>2 DEF TypeOK
      <4>3. CASE ComesFirst(order[i], order[mid])
        <5> HIDE DEF mid
        <5> QED
          BY <2>2, <4>2, <4>3, <1>4, <1>7 DEF ComesFirst, Before
      <4> QED
        BY <2>2, <4>1, <4>3
    <3> QED
      BY <3>1, <3>2, <1>2, <1>3 DEF Bounds, Start, Before
  <2> QED
    BY <2>1, <2>2
<1> QED
  BY <1>5, <1>6, <1>8 DEF SearchInv, FindsTheOwner, FoundCovers

(***************************************************************************)
(* When the bounds have met, an owner is the one before them.              *)
(***************************************************************************)
LEMMA OwnerIsTheLast ==
    ASSUME TypeOK, OrderIsSorted, Bounds, lo >= hi, Disjoint,
           NEW c \in Live, Covers(c, query)
    PROVE  lo # 1 /\ order[lo - 1] = c
<1>1. PICK j \in DOMAIN order : order[j] = c
  BY DEF OrderIsSorted
<1>2. DOMAIN order = 1..Len(order) /\ Len(order) \in Nat /\ lo = hi /\ lo \in Nat
  BY DEF TypeOK, Bounds
<1>3. c \in DOMAIN contributions
  BY DEF Live
<1>4. j < lo
  <2>1. ~Before(query, Start(c))
    BY <1>3, FieldsAreNumbers DEF Before, Covers, TypeOK
  <2> QED
    BY <1>1, <1>2, <2>1 DEF Bounds
<1>5. ASSUME j # lo - 1 PROVE FALSE
  <2> DEFINE d == order[lo - 1]
  <2>1. lo - 1 \in DOMAIN order /\ j < lo - 1
    BY <1>2, <1>4, <1>5 DEF Bounds
  <2>2. d \in DOMAIN contributions /\ contributions[d].size > 0
    BY <2>1 DEF TypeOK, Live
  <2>3. ComesFirst(c, d)
    BY <1>1, <2>1 DEF OrderIsSorted
  <2>4. ~Before(query, Start(d))
    BY <2>1, <1>2 DEF Bounds
  <2>5. c # d
    BY <2>3, <1>3, FieldsAreNumbers DEF ComesFirst, Before
  <2>6. Covers(c, Start(d))
    <3>1. /\ {Start(c).segment, Start(c).offset, contributions[c].size} \subseteq Nat
          /\ {Start(d).segment, Start(d).offset} \subseteq Nat
          /\ Start(c).segment = contributions[c].segment
          /\ Start(c).offset = contributions[c].offset
      BY <1>3, <2>2, FieldsAreNumbers
    <3>2. query.segment \in Nat /\ query.offset \in Nat
      BY DEF TypeOK
    <3>3. /\ Start(c).segment = query.segment
          /\ query.offset < Start(c).offset + contributions[c].size
      BY <3>1 DEF Covers
    <3>4. /\ Start(c).segment < Start(d).segment \/
             (Start(c).segment = Start(d).segment /\ Start(c).offset <= Start(d).offset)
      BY <2>3, <3>1 DEF ComesFirst, Before
    <3>5. /\ Start(d).segment < query.segment \/
             (Start(d).segment = query.segment /\ Start(d).offset <= query.offset)
      BY <2>4, <3>1, <3>2 DEF Before
    <3>6. /\ Start(d).segment = Start(c).segment
          /\ Start(c).offset <= Start(d).offset
          /\ Start(d).offset < Start(c).offset + contributions[c].size
      BY <3>1, <3>2, <3>3, <3>4, <3>5
    <3> QED
      BY <3>1, <3>6 DEF Covers
  <2> QED
    BY <1>3, <2>2, <2>5, <2>6 DEF Disjoint
<1> QED
  BY <1>1, <1>2, <1>4, <1>5

LEMMA AnswerStep == ASSUME SearchInv, Answer PROVE SearchInv'
<1> USE DEF Answer
<1>1. Live' = Live
  BY DEF Live
<1>2. TypeOK /\ OrderIsSorted /\ Bounds
  BY DEF SearchInv
<1>3. lo # 1 => order[lo - 1] \in Live
  BY <1>2 DEF TypeOK, Bounds
<1>4. TypeOK'
  BY <1>1, <1>2, <1>3 DEF TypeOK
<1>5. OrderIsSorted'
  BY <1>1, <1>2 DEF OrderIsSorted, ComesFirst, Start, Before
<1>6. ASSUME Disjoint, NEW c \in DOMAIN contributions
      PROVE  Covers(c, query) <=> found' = c
  <2>1. ASSUME Covers(c, query) PROVE found' = c
    <3>1. c \in Live
      <4>1. /\ contributions[c].offset \in Nat /\ contributions[c].size \in Nat
            /\ query.offset \in Nat
        BY <1>2, FieldsAreNumbers DEF TypeOK
      <4> QED
        BY <2>1, <4>1 DEF Live, Covers
    <3>2. lo # 1 /\ order[lo - 1] = c
      BY <2>1, <3>1, <1>2, <1>6, OwnerIsTheLast
    <3> QED
      BY <2>1, <3>2
  <2>2. ASSUME found' = c PROVE Covers(c, query)
    <3>1. c # 0
      BY <1>2 DEF TypeOK
    <3> QED
      BY <2>2, <3>1
  <2> QED
    BY <2>1, <2>2
<1>7. FindsTheOwner'
  BY <1>1, <1>6 DEF FindsTheOwner, Disjoint, Covers, Start
<1>8. FoundCovers'
  BY DEF FoundCovers, Covers
<1> QED
  BY <1>4, <1>5, <1>7, <1>8 DEF SearchInv

LEMMA StutterStep == ASSUME SearchInv, UNCHANGED vars PROVE SearchInv'
<1>1. Live' = Live
  BY DEF Live, vars
<1>2. TypeOK'
  BY <1>1 DEF SearchInv, TypeOK, vars
<1>3. (pc # "new" => OrderIsSorted)'
  BY <1>1 DEF SearchInv, OrderIsSorted, ComesFirst, Start, Before, vars
<1>4. (pc = "search" => Bounds)'
  BY DEF SearchInv, Bounds, Start, Before, vars
<1>5. FoundCovers'
  BY DEF SearchInv, FoundCovers, Covers, vars
<1> QED
  BY <1>1, <1>2, <1>3, <1>4, <1>5 DEF SearchInv, FindsTheOwner, Disjoint, Covers, Start, vars

(***************************************************************************)
(* A module that is named is one the file has, and claims the address:     *)
(* this needs no disjointness.                                             *)
(***************************************************************************)
LEMMA NamedModuleClaims ==
    ASSUME TypeOK, FoundCovers
    PROVE  NeverTheWrongOwner
<1> SUFFICES ASSUME pc = "answered", ModuleOf # 0
             PROVE  /\ ModuleOf <= modules
                    /\ \E c \in DOMAIN contributions :
                        Covers(c, query) /\ contributions[c].module = ModuleOf - 1
  BY DEF NeverTheWrongOwner
<1>1. /\ found # 0 /\ ~(contributions[found].module >= modules)
      /\ ModuleOf = contributions[found].module + 1
  BY DEF ModuleOf
<1>2. found \in DOMAIN contributions /\ Covers(found, query)
  BY <1>1 DEF TypeOK, Live, FoundCovers
<1>3. contributions[found].module \in Nat /\ modules \in Nat
  BY <1>2, EntriesAssumption DEF TypeOK
<1> QED
  BY <1>1, <1>2, <1>3

(***************************************************************************)
(* dbi.py:133-155 and PDB.module_of: whatever the contributions, their     *)
(* order in the file and the empty ones among them, find() returns the one *)
(* that covers the address -- if no two overlap -- and None only if none   *)
(* does; and, overlapping or not, the module named is one that the file    *)
(* has and that claims the address.                                        *)
(***************************************************************************)
THEOREM SearchFindsTheOwner == Spec => []OwnerIsRight
<1>1. Init => SearchInv
  BY SearchInvInit
<1>2. SearchInv /\ [Next]_vars => SearchInv'
  BY BuildStep, AskStep, ProbeStep, AnswerStep, StutterStep DEF Next
<1>3. SearchInv => OwnerIsRight
  BY NamedModuleClaims DEF SearchInv, OwnerIsRight
<1> QED
  BY <1>1, <1>2, <1>3, PTL DEF Spec

-----------------------------------------------------------------------------
(* The substreams                                                            *)

\* Where the next substream starts bounds every one taken before it.
OffsetBounds ==
    /\ off \in Nat /\ off >= HeaderSize
    /\ slices = <<>> \/ off <= file.len
    /\ slices = <<>> => off = HeaderSize
    /\ \A i \in DOMAIN slices : slices[i].at + slices[i].size <= off

\* After a cut nothing is left of the stream.
NothingLeftAfterCut ==
    \/ substream_overrun = None
    \/ substream_overrun \in DOMAIN slices /\ off = file.len

ParseTypes ==
    /\ file \in Files
    /\ slices \in Seq([at : Nat, size : Nat]) /\ Len(slices) <= 7

ParseInv ==
    /\ ParseTypes /\ OffsetBounds /\ NothingLeftAfterCut
    /\ SlicesDoNotAlias /\ OverrunIsTheFirstCut

LEMMA InitKeeps == ASSUME ParseInit PROVE ParseInv
BY NoneIsNoPlace
   DEF ParseInit, ParseInv, ParseTypes, OffsetBounds, NothingLeftAfterCut, SlicesDoNotAlias,
       OverrunIsTheFirstCut, HeaderSize

\* What one take is, in numbers.
LEMMA TakenFits ==
    ASSUME ParseInv, NEW n \in 1..7, Ready(n), ~IsNegative, Take
    PROVE  /\ n = Len(slices) + 1 /\ off <= file.len /\ file.len \in Nat
           /\ Taken \in Nat /\ off' = off + Taken /\ off' \in Nat /\ off' <= file.len
           /\ file.claimed[n] \in Nat
           /\ slices' = Append(slices, [at |-> off, size |-> Taken])
<1>1. n = Len(slices) + 1 /\ Current = n /\ file.len >= HeaderSize
  BY DEF Ready, Current
<1>2. file.len \in Nat /\ file.claimed[n] \in Int /\ off \in Nat
  BY FilesAssumption DEF ParseInv, ParseTypes, OffsetBounds
<1>3. off <= file.len
  BY <1>1, <1>2 DEF ParseInv, OffsetBounds, HeaderSize
<1>4. file.claimed[n] \in Nat
  BY <1>1, <1>2 DEF IsNegative, Claimed
<1>5. Taken \in Nat /\ off + Taken <= file.len
  BY <1>1, <1>2, <1>3, <1>4 DEF Taken, Overruns, Claimed
<1> QED BY <1>1, <1>2, <1>3, <1>4, <1>5 DEF Take

\* Every action that takes a substream keeps the invariant by this.
LEMMA TakeKeeps ==
    ASSUME ParseInv, NEW n \in 1..7, Ready(n), ~IsNegative, Take, file' = file
    PROVE  ParseInv'
<1> DEFINE taken == [at |-> off, size |-> Taken]
<1>1. /\ n = Len(slices) + 1 /\ off <= file.len /\ file.len \in Nat /\ off \in Nat
      /\ Taken \in Nat /\ off' = off + Taken /\ off' \in Nat /\ off' <= file.len
      /\ file.claimed[n] \in Nat /\ off >= HeaderSize
      /\ slices' = Append(slices, taken)
      /\ slices \in Seq([at : Nat, size : Nat]) /\ taken \in [at : Nat, size : Nat]
  BY TakenFits DEF ParseInv, ParseTypes, OffsetBounds
<1>2. /\ slices' \in Seq([at : Nat, size : Nat]) /\ Len(slices') = n
      /\ DOMAIN slices' = 1..n /\ DOMAIN slices = 1..(n - 1)
      /\ slices'[n] = taken
      /\ \A i \in 1..(n - 1) : slices'[i] = slices[i]
  BY <1>1
<1>n. /\ off \in Nat /\ file.len \in Nat /\ off <= file.len /\ file.claimed[n] \in Nat
      /\ Taken \in Nat /\ off' = off + Taken /\ off' <= file.len /\ off >= HeaderSize
  BY <1>1
<1>t. taken.at = off /\ taken.size = Taken
  OBVIOUS
<1>o. \A i \in 1..(n - 1) : /\ slices[i].at \in Nat /\ slices[i].size \in Nat
                            /\ slices[i].at + slices[i].size <= off
                            /\ slices[i].at >= HeaderSize
                            /\ \A j \in 1..(i - 1) : slices[j].at + slices[j].size <= slices[i].at
  <2>1. \A i \in 1..(n - 1) : slices[i] \in [at : Nat, size : Nat]
    <3> DEFINE Taking == [at : Nat, size : Nat]
    <3>1. slices \in Seq(Taking)
      BY <1>1
    <3> HIDE DEF Taking
    <3>2. \A i \in DOMAIN slices : slices[i] \in Taking
      BY <3>1
    <3> QED BY <1>2, <3>2 DEF Taking
  <2>2. \A i \in 1..(n - 1) : slices[i].at \in Nat /\ slices[i].size \in Nat
    BY <2>1
  <2>3. \A i \in 1..(n - 1) : slices[i].at + slices[i].size <= off
    BY <1>2 DEF ParseInv, OffsetBounds
  <2>4. \A i \in 1..(n - 1) :
            /\ slices[i].at >= HeaderSize
            /\ \A j \in 1..(i - 1) : slices[j].at + slices[j].size <= slices[i].at
    BY <1>2 DEF ParseInv, SlicesDoNotAlias
  <2> QED BY <2>2, <2>3, <2>4
<1>3. ParseTypes'
  BY <1>2 DEF ParseInv, ParseTypes
<1> HIDE DEF taken
<1>4. OffsetBounds'
  <2>1. ASSUME NEW i \in 1..n PROVE slices'[i].at + slices'[i].size <= off'
    <3>1. CASE i = n
      BY <1>n, <1>2, <1>t, <3>1
    <3>2. CASE i # n
      <4>1. i \in 1..(n - 1)
        BY <3>2
      <4>2. slices'[i] = slices[i]
        BY <1>2, <4>1
      <4>3. /\ slices[i].at \in Nat /\ slices[i].size \in Nat
            /\ slices[i].at + slices[i].size <= off
        BY <1>o, <4>1
      <4> QED BY <1>n, <4>2, <4>3
    <3> QED BY <3>1, <3>2
  <2>2. off' >= HeaderSize /\ off' <= file'.len /\ slices' # <<>>
    BY <1>1, <1>2 DEF HeaderSize
  <2> QED BY <1>1, <1>2, <2>1, <2>2 DEF OffsetBounds
<1>5. SlicesDoNotAlias'
  <2>1. ASSUME NEW i \in 1..n
        PROVE  /\ slices'[i].at >= HeaderSize
               /\ slices'[i].at + slices'[i].size <= file.len
               /\ \A j \in 1..(i - 1) : slices'[j].at + slices'[j].size <= slices'[i].at
    <3>1. CASE i = n
      <4>1. slices'[i].at = off /\ slices'[i].at + slices'[i].size = off'
        BY <1>n, <1>2, <1>t, <3>1
      <4>2. \A j \in 1..(i - 1) : slices'[j].at + slices'[j].size <= off
        BY <1>2, <1>o, <3>1
      <4> QED BY <1>n, <3>1, <4>1, <4>2
    <3>2. CASE i # n
      <4>1. i \in 1..(n - 1) /\ \A j \in 1..(i - 1) : j \in 1..(n - 1)
        BY <3>2
      <4>2. slices'[i] = slices[i] /\ \A j \in 1..(i - 1) : slices'[j] = slices[j]
        BY <1>2, <4>1
      <4>3. slices[i].at + slices[i].size <= file.len
        <5>1. slices[i].at \in Nat /\ slices[i].size \in Nat /\ slices[i].at + slices[i].size <= off
          BY <1>o, <4>1
        <5> QED BY <1>n, <5>1
      <4> QED BY <1>o, <4>1, <4>2, <4>3
    <3> QED BY <3>1, <3>2
  <2> QED BY <1>2, <2>1 DEF SlicesDoNotAlias
<1>6. NothingLeftAfterCut' /\ OverrunIsTheFirstCut'
  <2>1. /\ Current = n /\ Claimed = file.claimed[n]
        /\ Overruns <=> off + file.claimed[n] > file.len
        /\ Taken = IF Overruns THEN file.len - off ELSE file.claimed[n]
    BY <1>1 DEF Current, Claimed, Overruns, Taken
  <2>2. CASE substream_overrun = None /\ ~Overruns
    <3>1. substream_overrun' = None
      BY <2>2 DEF Take
    <3>2. \A i \in 1..n : slices'[i].size = file.claimed[i]
      <4>1. \A i \in 1..(n - 1) : slices[i].size = file.claimed[i]
        BY <1>2, <2>2 DEF ParseInv, OverrunIsTheFirstCut
      <4>2. slices'[n].size = file.claimed[n]
        BY <1>2, <1>t, <2>1, <2>2
      <4>3. \A i \in 1..n : i = n \/ i \in 1..(n - 1)
        OBVIOUS
      <4> QED BY <1>2, <4>1, <4>2, <4>3
    <3> QED BY <1>2, <3>1, <3>2 DEF NothingLeftAfterCut, OverrunIsTheFirstCut
  <2>3. CASE substream_overrun = None /\ Overruns
    <3>0. Taken = file.len - off
      BY <2>1, <2>3
    <3>1. substream_overrun' = n /\ off' = file.len /\ n # None
      <4>1. off' = file.len
        BY <1>n, <3>0
      <4>2. substream_overrun' = n /\ n # None
        BY <2>1, <2>3, NoneIsNoPlace DEF Take
      <4> QED BY <4>1, <4>2
    <3>2. \A i \in 1..(n - 1) : slices'[i].size = file.claimed[i]
      BY <1>2, <2>3 DEF ParseInv, OverrunIsTheFirstCut
    <3>3. slices'[n].at + slices'[n].size = file.len /\ slices'[n].size < file.claimed[n]
      <4>1. slices'[n].at = off /\ slices'[n].size = file.len - off
        BY <1>2, <1>t, <3>0
      <4>2. off + file.claimed[n] > file.len
        BY <2>1, <2>3
      <4> QED BY <1>n, <4>1, <4>2
    <3>4. NothingLeftAfterCut'
      BY <1>2, <3>1 DEF NothingLeftAfterCut
    <3>5. \A i \in 1..n : i < n => slices'[i].size = file'.claimed[i]
      BY <3>2
    <3>6. OverrunIsTheFirstCut'
      <4>1. ASSUME NEW i \in 1..n, ~(i < n) PROVE i = n
        BY <4>1
      <4> QED BY <1>2, <3>1, <3>3, <3>5, <4>1 DEF OverrunIsTheFirstCut
    <3> QED BY <3>4, <3>6
  <2>4. CASE substream_overrun # None
    <3>1. /\ substream_overrun' = substream_overrun /\ substream_overrun \in 1..(n - 1)
          /\ off = file.len
      BY <1>2, <2>4 DEF Take, ParseInv, NothingLeftAfterCut
    <3>2. Taken = 0 /\ off' = file.len
      <4>1. CASE Overruns
        BY <1>n, <2>1, <3>1, <4>1
      <4>2. CASE ~Overruns
        <5>1. file.claimed[n] = 0
          BY <1>n, <2>1, <3>1, <4>2
        <5> QED BY <1>n, <2>1, <3>1, <4>2, <5>1
      <4> QED BY <4>1, <4>2
    <3>3. slices'[n].at + slices'[n].size = file.len /\ slices'[n].size = 0
      BY <1>n, <1>2, <1>t, <3>1, <3>2
    <3>4. ASSUME NEW i \in 1..(n - 1)
          PROVE  IF i < substream_overrun
                 THEN slices'[i].size = file.claimed[i]
                 ELSE /\ slices'[i].at + slices'[i].size = file.len
                      /\ slices'[i].size < file.claimed[i] \/ i > substream_overrun
                      /\ i > substream_overrun => slices'[i].size = 0
      BY <1>2, <2>4, <3>1 DEF ParseInv, OverrunIsTheFirstCut
    <3>5. substream_overrun < n /\ ~(n < substream_overrun) /\ \A i \in 1..n : i = n \/ i \in 1..(n - 1)
      BY <3>1
    <3>6. OverrunIsTheFirstCut'
      BY <1>2, <2>4, <3>1, <3>3, <3>4, <3>5 DEF OverrunIsTheFirstCut
    <3>7. NothingLeftAfterCut'
      BY <1>2, <3>1, <3>2, <3>5 DEF NothingLeftAfterCut
    <3> QED BY <3>6, <3>7
  <2> QED BY <2>2, <2>3, <2>4
<1> QED BY <1>3, <1>4, <1>5, <1>6 DEF ParseInv

\* What the other actions leave alone is all the invariant looks at.
LEMMA LeftAlone == ASSUME ParseInv, UNCHANGED <<file, off, slices, substream_overrun>> PROVE ParseInv'
BY DEF ParseInv, ParseTypes, OffsetBounds, NothingLeftAfterCut, SlicesDoNotAlias,
       OverrunIsTheFirstCut

LEMMA StepKeeps == ASSUME ParseInv, [ParseNext]_parseVars PROVE ParseInv'
<1>1. CASE ShorterThanHeader \/ NegativeSize
  BY <1>1, LeftAlone DEF ShorterThanHeader, NegativeSize, Raise
<1>2. CASE BeginModules
  BY <1>2, TakeKeeps DEF BeginModules
<1>3. CASE ReadModule \/ EndModules
  BY <1>3, LeftAlone DEF ReadModule, EndModules
<1>4. CASE TakeContributions
  BY <1>4, TakeKeeps DEF TakeContributions
<1>5. CASE TakeSectionMap
  BY <1>5, TakeKeeps DEF TakeSectionMap
<1>6. CASE StepOver
  BY <1>6, TakeKeeps DEF StepOver
<1>7. CASE TakeDebugHeader
  BY <1>7, TakeKeeps DEF TakeDebugHeader
<1>8. CASE UNCHANGED parseVars
  BY <1>8, LeftAlone DEF parseVars
<1> QED BY <1>1, <1>2, <1>3, <1>4, <1>5, <1>6, <1>7, <1>8 DEF ParseNext

-----------------------------------------------------------------------------

(***************************************************************************)
(* _check_substream and the running offset of DbiStream.parse: no          *)
(* substream aliases the header, an earlier substream or what lies behind  *)
(* the stream, whatever seven sizes the header claims.                     *)
(***************************************************************************)
THEOREM SubstreamsLieApart == ParseSpec => []SlicesDoNotAlias
<1>1. ParseInit => ParseInv
  BY InitKeeps
<1>2. ParseInv /\ [ParseNext]_parseVars => ParseInv'
  BY StepKeeps
<1>3. ParseInv => SlicesDoNotAlias
  BY DEF ParseInv
<1> QED BY <1>1, <1>2, <1>3, PTL DEF ParseSpec

(***************************************************************************)
(* substream_overrun is the first substream that was cut: those before it  *)
(* are as long as the header claims, it has all the stream had left, and   *)
(* those after it are empty.                                               *)
(***************************************************************************)
THEOREM OverrunNamesTheFirstCut == ParseSpec => []OverrunIsTheFirstCut
<1>1. ParseInit => ParseInv
  BY InitKeeps
<1>2. ParseInv /\ [ParseNext]_parseVars => ParseInv'
  BY StepKeeps
<1>3. ParseInv => OverrunIsTheFirstCut
  BY DEF ParseInv
<1> QED BY <1>1, <1>2, <1>3, PTL DEF ParseSpec

-----------------------------------------------------------------------------
(* What is left of a stream that was cut                                     *)

\* A record takes its length, rounded up to four bytes.
LEMMA PaddedHolds == ASSUME NEW n \in Nat PROVE Padded(n) \in Nat /\ n <= Padded(n)
BY DEF Padded

\* Where the records of a file lie: end to end, each at least its fixed part long.
LEMMA RecordsLie ==
    ASSUME file \in Files
    PROVE  LET n == Len(file.records)
           IN  /\ n \in Nat /\ DOMAIN file.records = 1..n
               /\ \A i \in 1..n : /\ file.records[i] \in Nat
                                  /\ Padded(file.records[i]) \in Nat
                                  /\ Padded(file.records[i]) >= ModuleFixed
                                  /\ RecordAt[i + 1] = RecordAt[i] + Padded(file.records[i])
               /\ RecordAt[1] = 0 /\ RecordAt[n + 1] = file.wrote[1]
               /\ \A i \in 1..(n + 1) : RecordAt[i] \in Nat
               /\ \A i, j \in 1..(n + 1) : i <= j => RecordAt[i] <= RecordAt[j]
<1> DEFINE records == file.records
           n == Len(records)
           taken == [i \in 1..n |-> Padded(records[i])]
           Places(g) == g = [i \in 1..Len(records) + 1 |->
                                IF i = 1 THEN 0 ELSE g[i - 1] + Padded(records[i - 1])]
           at == CHOOSE g : Places(g)
<1>1. /\ records \in Seq(Nat) /\ \A i \in DOMAIN records : records[i] >= ModuleFixed
      /\ file.wrote[1] = PlacesOf(records)[n + 1]
  BY FilesAssumption, WrittenAssumption
<1>2. n \in Nat /\ DOMAIN records = 1..n /\ \A i \in 1..n : records[i] \in Nat
  BY <1>1
<1>3. RecordAt = at
  BY DEF RecordAt, PlacesOf
<1> HIDE DEF n, records
<1>4. \A i \in 1..n : Padded(records[i]) \in Nat /\ Padded(records[i]) >= ModuleFixed
  <2>1. ASSUME NEW i \in 1..n
        PROVE  Padded(records[i]) \in Nat /\ Padded(records[i]) >= ModuleFixed
    <3>1. records[i] \in Nat /\ records[i] >= ModuleFixed
      BY <1>1, <1>2
    <3>2. records[i] <= Padded(records[i]) /\ Padded(records[i]) \in Nat
      BY <3>1, PaddedHolds
    <3> QED BY <3>1, <3>2 DEF ModuleFixed
  <2> QED BY <2>1
<1>5. taken \in [1..n -> Nat]
  BY <1>4
<1>6. PICK g \in [1..(n + 1) -> Nat] : g[1] = 0 /\ \A i \in 1..n : g[i + 1] = g[i] + taken[i]
  <2> HIDE DEF taken
  <2>1. 0 \in Nat
    OBVIOUS
  <2>2. \E g : AreTotals(g, 0, taken, n)
    BY <1>2, <1>5, <2>1, TotalsExist
  <2> QED BY <2>2 DEF AreTotals
<1>7. Places(g)
  <2>1. ASSUME NEW i \in 1..n + 1
        PROVE  g[i] = IF i = 1 THEN 0 ELSE g[i - 1] + Padded(records[i - 1])
    <3>1. CASE i = 1
      BY <1>6, <3>1
    <3>2. CASE i # 1
      <4>1. i - 1 \in 1..n /\ (i - 1) + 1 = i
        BY <1>2, <3>2
      <4> QED BY <1>6, <3>2, <4>1
    <3> QED BY <3>1, <3>2
  <2>2. g = [i \in 1..n + 1 |-> g[i]]
    BY <1>6
  <2>3. g = [i \in 1..n + 1 |-> IF i = 1 THEN 0 ELSE g[i - 1] + Padded(records[i - 1])]
    BY <2>1, <2>2, Zenon
  <2> QED BY <2>3 DEF n
<1>8. Places(at)
  <2> HIDE DEF Places
  <2> QED BY <1>7
<1>9. at[1] = 0 /\ \A i \in 1..n : at[i + 1] = at[i] + taken[i]
  <2> HIDE DEF at
  <2>1. at = [i \in 1..n + 1 |-> IF i = 1 THEN 0 ELSE at[i - 1] + Padded(records[i - 1])]
    BY <1>8 DEF n
  <2> HIDE DEF Places
  <2>2. \A i \in 1..n + 1 : at[i] = IF i = 1 THEN 0 ELSE at[i - 1] + Padded(records[i - 1])
    BY <2>1
  <2>3. 1 \in 1..n + 1
    BY <1>2
  <2>4. ASSUME NEW i \in 1..n PROVE at[i + 1] = at[i] + taken[i]
    <3>1. i + 1 \in 1..n + 1 /\ i + 1 # 1 /\ (i + 1) - 1 = i
      BY <1>2
    <3> QED BY <2>2, <3>1
  <2> QED BY <2>2, <2>3, <2>4
<1> HIDE DEF at, Places
<1>10. /\ \A i \in 1..(n + 1) : at[i] \in Nat
       /\ \A i, j \in 1..(n + 1) : i <= j => at[i] <= at[j]
  <2> HIDE DEF taken
  <2>1. 0 \in Nat
    OBVIOUS
  <2>2. \A i \in 1..(n + 1) : at[i] \in Nat
    BY <1>2, <1>5, <1>9, <2>1, TotalsGrow
  <2>3. \A i, j \in 1..(n + 1) : i <= j => at[i] <= at[j]
    BY <1>2, <1>5, <1>9, <2>1, TotalsGrow
  <2> QED BY <2>2, <2>3
<1>11. at[n + 1] = file.wrote[1]
  BY <1>1, <1>3 DEF RecordAt, records
<1> QED BY <1>2, <1>3, <1>4, <1>9, <1>10, <1>11 DEF n, records

\* Where substream k ended when it was written; the header ends before the first.
EndOf(k) == IF k = 0 THEN HeaderSize ELSE WroteAt(k) + file.wrote[k]

\* What was written follows the header, substream after substream.
LEMMA SubstreamsLie ==
    ASSUME file \in Files
    PROVE  /\ \A k \in 1..7 : /\ file.wrote[k] \in Nat /\ WroteAt(k) \in Nat
                              /\ WroteAt(k) = EndOf(k - 1)
           /\ \A k \in 0..7 : EndOf(k) \in Nat
<1> DEFINE wrote == file.wrote
           Places(g) == g = [j \in 1..7 |-> IF j = 1 THEN HeaderSize ELSE g[j - 1] + wrote[j - 1]]
           at == CHOOSE g : Places(g)
           rest == [i \in 1..6 |-> wrote[i]]
<1>1. \A i \in 1..7 : wrote[i] \in Nat
  BY FilesAssumption
<1>2. \A k : WroteAt(k) = at[k]
  BY DEF WroteAt
<1> HIDE DEF wrote
<1>3. rest \in [1..6 -> Nat] /\ 6 \in Nat /\ HeaderSize \in Nat
  BY <1>1 DEF HeaderSize
<1>4. PICK g \in [1..(6 + 1) -> Nat] :
          g[1] = HeaderSize /\ \A i \in 1..6 : g[i + 1] = g[i] + rest[i]
  <2> HIDE DEF rest
  <2>1. \E g : AreTotals(g, HeaderSize, rest, 6)
    BY <1>3, TotalsExist
  <2> QED BY <2>1 DEF AreTotals
<1>5. Places(g)
  <2>1. ASSUME NEW j \in 1..7 PROVE g[j] = IF j = 1 THEN HeaderSize ELSE g[j - 1] + wrote[j - 1]
    <3>1. CASE j = 1
      BY <1>4, <3>1
    <3>2. CASE j # 1
      <4>1. j - 1 \in 1..6 /\ (j - 1) + 1 = j
        BY <3>2
      <4> QED BY <1>4, <3>2, <4>1
    <3> QED BY <3>1, <3>2
  <2>2. g = [j \in 1..7 |-> g[j]]
    BY <1>4
  <2> QED BY <2>1, <2>2, Zenon
<1>6. Places(at)
  <2> HIDE DEF Places
  <2> QED BY <1>5
<1>7. at[1] = HeaderSize /\ \A i \in 1..6 : at[i + 1] = at[i] + wrote[i]
  <2> HIDE DEF at
  <2>1. \A j \in 1..7 : at[j] = IF j = 1 THEN HeaderSize ELSE at[j - 1] + wrote[j - 1]
    BY <1>6
  <2> HIDE DEF Places
  <2>2. ASSUME NEW i \in 1..6 PROVE at[i + 1] = at[i] + wrote[i]
    <3>1. i + 1 \in 1..7 /\ i + 1 # 1 /\ (i + 1) - 1 = i
      OBVIOUS
    <3> QED BY <2>1, <3>1
  <2> QED BY <2>1, <2>2
<1> HIDE DEF at, Places
<1>8. \A i \in 1..(6 + 1) : at[i] \in Nat
  <2>1. \A i \in 1..6 : at[i + 1] = at[i] + rest[i]
    BY <1>7
  <2> HIDE DEF rest
  <2> QED BY <1>3, <1>7, <2>1, TotalsGrow
<1>9. ASSUME NEW k \in 1..7 PROVE WroteAt(k) \in Nat /\ WroteAt(k) = EndOf(k - 1)
  <2>1. CASE k = 1
    BY <1>2, <1>7, <1>8, <2>1 DEF EndOf
  <2>2. CASE k # 1
    <3>1. k - 1 \in 1..6 /\ (k - 1) + 1 = k /\ k - 1 # 0 /\ k \in 1..(6 + 1)
      BY <2>2
    <3>2. at[k] = at[k - 1] + wrote[k - 1]
      BY <1>7, <3>1
    <3> QED BY <1>2, <1>8, <3>1, <3>2 DEF EndOf, wrote
  <2> QED BY <2>1, <2>2
<1>10. ASSUME NEW k \in 0..7 PROVE EndOf(k) \in Nat
  <2>1. CASE k = 0
    BY <2>1, <1>3 DEF EndOf
  <2>2. CASE k # 0
    BY <1>1, <1>9, <2>2 DEF EndOf, wrote
  <2> QED BY <2>1, <2>2
<1> QED BY <1>1, <1>9, <1>10 DEF wrote

\* Until a substream is cut the next starts where it was written; afterwards the
\* stream has ended before the place of the next.
OffAsWritten ==
    IF substream_overrun = None THEN off = EndOf(Len(slices))
    ELSE file.len < EndOf(Len(slices))

\* The slice the modules are in is as long as it was written, or all that is left.
ModuleSlice ==
    slices # <<>> => /\ Slice \in {file.wrote[1], file.len - HeaderSize}
                     /\ Slice <= file.wrote[1] /\ Slice <= file.len - HeaderSize

\* The walk has read the first records, and stops before the first that is cut.
ModulesSoFar ==
    LET n == Len(module_list)
    IN  /\ module_list \in Seq([at : Nat, length : Nat]) /\ n <= Len(file.records)
        /\ \A i \in 1..n : /\ module_list[i].at = RecordAt[i]
                           /\ module_list[i].length = file.records[i]
        /\ IF slices = <<>> THEN n = 0 /\ pos = None ELSE RecordAt[n + 1] <= Slice
        /\ pos # None => pos = RecordAt[n + 1] /\ Len(slices) = 1
        /\ slices # <<>> /\ pos = None =>
               n = Len(file.records) \/ Slice < RecordAt[n + 2]

\* A list that was read has what is whole of it.
ListsSoFar ==
    /\ lists = [contributions |-> lists.contributions, map |-> lists.map,
                slots |-> lists.slots]
    /\ lists.contributions # 0 => WholeIn(WroteAt(2), ContribVersion)
    /\ Len(slices) >= 3 => lists.map = Cardinality(MapLeft)
    /\ outcome = "parsed" => Len(slices) = 7 /\ lists.slots = Cardinality(SlotsLeft)

\* What a reader of an undamaged file has at any time.
WholeSoFar == Undamaged => OffAsWritten /\ ModuleSlice /\ ModulesSoFar /\ ListsSoFar

\* The slices taken so far are numbered, and each has a place and a size.
LEMMA SliceElements ==
    ASSUME ParseInv
    PROVE  /\ Len(slices) \in 0..7 /\ DOMAIN slices = 1..Len(slices)
           /\ \A i \in 1..Len(slices) : slices[i].at \in Nat /\ slices[i].size \in Nat
<1> DEFINE Taking == [at : Nat, size : Nat]
<1>1. slices \in Seq(Taking)
  BY DEF ParseInv, ParseTypes
<1>2. Len(slices) <= 7
  BY DEF ParseInv, ParseTypes
<1>3. Len(slices) \in Nat /\ DOMAIN slices = 1..Len(slices)
  <2> HIDE DEF Taking
  <2> QED BY <1>1
<1>4. \A i \in 1..Len(slices) : slices[i] \in Taking
  <2> HIDE DEF Taking
  <2> QED BY <1>1
<1>5. Len(slices) \in 0..7
  <2>1. ASSUME NEW n \in Nat, n <= 7 PROVE n \in 0..7
    BY <2>1
  <2> QED BY <1>2, <1>3, <2>1
<1> QED BY <1>3, <1>4, <1>5

\* Taking substream n out of an undamaged stream: it is in its place and as whole
\* as the stream allows, or the stream has ended before it.
LEMMA TakeAsWritten ==
    ASSUME ParseInv, Undamaged, OffAsWritten,
           NEW n \in 1..7, Ready(n), ~IsNegative, Take, file' = file
    PROVE  /\ OffAsWritten' /\ n = Len(slices) + 1 /\ Current = n /\ Len(slices') = n
           /\ slices' # <<>> /\ slices'[n].size = Taken
           /\ \A i \in 1..(n - 1) : slices'[i] = slices[i]
           /\ Taken \in Nat /\ file.len \in Nat /\ WroteAt(n) \in Nat /\ file.wrote[n] \in Nat
           /\ \/ /\ off = WroteAt(n) /\ WroteAt(n) <= file.len
                 /\ Taken \in {file.wrote[n], file.len - WroteAt(n)}
                 /\ Taken <= file.wrote[n] /\ Taken <= file.len - WroteAt(n)
              \/ Taken = 0 /\ file.len < WroteAt(n)
<1>1. /\ n = Len(slices) + 1 /\ off <= file.len /\ file.len \in Nat /\ off \in Nat
      /\ Taken \in Nat /\ off' = off + Taken
      /\ slices' = Append(slices, [at |-> off, size |-> Taken])
  BY TakenFits DEF ParseInv, OffsetBounds
<1>2. /\ file \in Files /\ slices \in Seq([at : Nat, size : Nat])
      /\ NothingLeftAfterCut
  BY DEF ParseInv, ParseTypes
<1>3. /\ Len(slices') = n /\ slices' # <<>> /\ slices'[n] = [at |-> off, size |-> Taken]
      /\ \A i \in 1..(n - 1) : slices'[i] = slices[i]
  BY <1>1, <1>2
<1>4. /\ WroteAt(n) = EndOf(n - 1) /\ WroteAt(n) \in Nat /\ file.wrote[n] \in Nat
      /\ EndOf(n) = WroteAt(n) + file.wrote[n] /\ n - 1 = Len(slices)
  <2>1. WroteAt(n) = EndOf(n - 1) /\ WroteAt(n) \in Nat /\ file.wrote[n] \in Nat
    BY <1>2, SubstreamsLie
  <2>2. EndOf(n) = WroteAt(n) + file.wrote[n]
    BY DEF EndOf
  <2>3. n - 1 = Len(slices)
    <3>1. Len(slices) \in Nat
      BY <1>2
    <3> QED BY <1>1, <3>1
  <2> QED BY <2>1, <2>2, <2>3
<1>5. Current = n /\ Claimed = file.wrote[n]
  BY <1>1 DEF Current, Claimed, Undamaged
<1>6. /\ Overruns <=> off + file.wrote[n] > file.len
      /\ Taken = IF Overruns THEN file.len - off ELSE file.wrote[n]
  BY <1>5 DEF Overruns, Taken
<1>7. EndOf(Len(slices))' = EndOf(n)
  BY <1>3 DEF EndOf, WroteAt
<1>8. CASE substream_overrun = None
  <2>1. off = WroteAt(n)
    BY <1>4, <1>8 DEF OffAsWritten
  <2>2. /\ Taken \in {file.wrote[n], file.len - WroteAt(n)}
        /\ Taken <= file.wrote[n] /\ Taken <= file.len - WroteAt(n)
    <3>1. /\ file.len \in Nat /\ off \in Nat /\ Taken \in Nat /\ file.wrote[n] \in Nat
      BY <1>1, <1>4
    <3>2. CASE Overruns
      BY <1>6, <2>1, <3>1, <3>2
    <3>3. CASE ~Overruns
      BY <1>6, <2>1, <3>1, <3>3
    <3> QED BY <3>2, <3>3
  <2>3. OffAsWritten'
    <3>1. CASE Overruns
      <4>1. substream_overrun' = n /\ n # None
        BY <1>5, <1>8, <3>1, NoneIsNoPlace DEF Take
      <4>2. file.len < EndOf(n)
        BY <1>4, <1>6, <2>1, <3>1
      <4> QED BY <1>7, <4>1, <4>2 DEF OffAsWritten
    <3>2. CASE ~Overruns
      <4>1. substream_overrun' = None
        BY <1>8, <3>2 DEF Take
      <4>2. off' = EndOf(n)
        BY <1>1, <1>4, <1>6, <2>1, <3>2
      <4> QED BY <1>7, <4>1, <4>2 DEF OffAsWritten
    <3> QED BY <3>1, <3>2
  <2> QED BY <1>1, <1>3, <1>4, <1>5, <2>1, <2>2, <2>3
<1>9. CASE substream_overrun # None
  <2>1. off = file.len /\ file.len < WroteAt(n)
    BY <1>2, <1>4, <1>9 DEF NothingLeftAfterCut, OffAsWritten
  <2>2. Taken = 0
    BY <1>1, <1>4, <1>6, <2>1
  <2>3. OffAsWritten'
    <3>1. substream_overrun' = substream_overrun
      BY <1>9 DEF Take
    <3>2. file.len < EndOf(n)
      BY <1>1, <1>4, <2>1
    <3> QED BY <1>7, <1>9, <3>1, <3>2 DEF OffAsWritten
  <2> QED BY <1>1, <1>3, <1>4, <1>5, <2>1, <2>2, <2>3
<1> QED BY <1>8, <1>9

\* Nothing that a list of an undamaged file is compared with changes.
LEMMA WrittenStays ==
    ASSUME file' = file
    PROVE  /\ RecordAt' = RecordAt /\ MapLeft' = MapLeft /\ SlotsLeft' = SlotsLeft
           /\ \A k \in 1..7 : WroteAt(k)' = WroteAt(k)
           /\ Undamaged' = Undamaged /\ RecordsLeft' = RecordsLeft
BY DEF RecordAt, MapLeft, SlotsLeft, WroteAt, Undamaged, WholeIn, RecordsLeft

\* The walk over the modules is left alone by all that comes after it.
LEMMA LaterTakesKeepModules ==
    ASSUME ParseInv, Undamaged, OffAsWritten, ModuleSlice, ModulesSoFar,
           NEW n \in 2..7, Ready(n), ~IsNegative, Take, file' = file,
           UNCHANGED <<pos, module_list>>
    PROVE  ModuleSlice' /\ ModulesSoFar'
<1>1. n \in 1..7 /\ 1 \in 1..(n - 1)
  OBVIOUS
<1>2. /\ n = Len(slices) + 1 /\ slices' # <<>> /\ Len(slices') = n
      /\ \A i \in 1..(n - 1) : slices'[i] = slices[i]
  BY <1>1, TakeAsWritten
<1>3. slices # <<>> /\ Slice' = Slice
  <2>1. Len(slices) # 0
    BY <1>2
  <2> QED BY <1>1, <1>2, <2>1 DEF Slice
<1>4. pos = None
  BY DEF Ready
<1>5. ModuleSlice'
  BY <1>3 DEF ModuleSlice
<1>6. ModulesSoFar'
  BY <1>2, <1>3, <1>4, WrittenStays DEF ModulesSoFar
<1> QED BY <1>5, <1>6

\* Of n things of two bytes each, those that end by a bound are the first few.
LEMMA WholeSlots ==
    ASSUME NEW n \in Nat, NEW room \in Nat, NEW S, S = {i \in 1..n : i * 2 <= room}
    PROVE  Cardinality(S) = IF n < room \div 2 THEN n ELSE room \div 2
<1> DEFINE w == room \div 2
           m == IF n < w THEN n ELSE w
<1>1. w \in Nat /\ \A i \in Nat : i * 2 <= room <=> i <= w
  OBVIOUS
<1> HIDE DEF w
<1>2. S = 1..m /\ m \in Nat
  BY <1>1
<1>3. Cardinality(1..m) = m
  <2> HIDE DEF m
  <2> QED BY <1>2, FS_Interval
<1> QED BY <1>2, <1>3 DEF w

\* And so are those of twenty bytes each.
LEMMA WholeEntries ==
    ASSUME NEW n \in Nat, NEW room \in Nat, NEW S, S = {i \in 1..n : i * 20 <= room}
    PROVE  Cardinality(S) = IF n < room \div 20 THEN n ELSE room \div 20
<1> DEFINE w == room \div 20
           m == IF n < w THEN n ELSE w
<1>1. w \in Nat /\ \A i \in Nat : i * 20 <= room <=> i <= w
  OBVIOUS
<1> HIDE DEF w
<1>2. S = 1..m /\ m \in Nat
  BY <1>1
<1>3. Cardinality(1..m) = m
  <2> HIDE DEF m
  <2> QED BY <1>2, FS_Interval
<1> QED BY <1>2, <1>3 DEF w

\* The map's entries that are read are those that were written and are left.
LEMMA MapIsWhole ==
    ASSUME file \in Files, NEW taken \in Nat, NEW count,
           file.len \in Nat, WroteAt(3) \in Nat, file.wrote[3] \in Nat,
           \/ /\ WroteAt(3) <= file.len /\ taken \in {file.wrote[3], file.len - WroteAt(3)}
              /\ taken <= file.wrote[3] /\ taken <= file.len - WroteAt(3)
              /\ count = file.count
           \/ taken = 0 /\ file.len < WroteAt(3)
    PROVE  MapEntries(taken, count) = Cardinality(MapLeft)
<1>1. file.count \in Nat /\ (file.count = 0 \/ 4 + file.count * 20 <= file.wrote[3])
  BY FilesAssumption, WrittenAssumption DEF MapHeader, MapEntry
<1>2. MapLeft = {i \in 1..file.count : WroteAt(3) + 4 + i * 20 <= file.len}
  BY DEF MapLeft, WholeIn, MapHeader, MapEntry
<1>3. CASE taken < 4
  <2>1. MapLeft = {}
    BY <1>1, <1>2, <1>3
  <2>2. MapEntries(taken, count) = 0
    BY <1>3 DEF MapEntries, MapHeader
  <2> QED BY <2>1, <2>2, FS_EmptySet
<1>4. CASE taken >= 4
  <2>1. /\ count = file.count /\ WroteAt(3) <= file.len
        /\ taken \in {file.wrote[3], file.len - WroteAt(3)}
        /\ taken <= file.wrote[3] /\ taken <= file.len - WroteAt(3)
    BY <1>4
  <2>2. MapLeft = {i \in 1..file.count : i * 20 <= taken - 4}
    <3>1. ASSUME NEW i \in 1..file.count
          PROVE  WroteAt(3) + 4 + i * 20 <= file.len <=> i * 20 <= taken - 4
      BY <1>1, <1>4, <2>1
    <3> QED BY <1>2, <3>1
  <2>3. taken - 4 \in Nat 
    BY <1>4
  <2> DEFINE room == taken - 4
  <2> HIDE DEF room
  <2>r. room \in Nat /\ MapLeft = {i \in 1..file.count : i * 20 <= room}
    BY <2>2, <2>3 DEF room
  <2>s. Cardinality(MapLeft) = IF file.count < room \div 20 THEN file.count
                               ELSE room \div 20
    <3> DEFINE n == file.count
    <3>1. n \in Nat /\ room \in Nat /\ MapLeft = {i \in 1..n : i * 20 <= room}
      BY <1>1, <2>r
    <3> HIDE DEF n
    <3>2. Cardinality(MapLeft) = IF n < room \div 20 THEN n ELSE room \div 20
      BY <3>1, WholeEntries
    <3> QED BY <3>2 DEF n
  <2>4. Cardinality(MapLeft) = IF file.count < (taken - 4) \div 20 THEN file.count
                               ELSE (taken - 4) \div 20
    BY <2>s DEF room
  <2> QED BY <1>4, <2>1, <2>4 DEF MapEntries, MapHeader, MapEntry
<1> QED BY <1>3, <1>4

\* And so are the slots of the debug header.
LEMMA SlotsAreWhole ==
    ASSUME NEW taken \in Nat, file.len \in Nat, WroteAt(7) \in Nat, file.wrote[7] \in Nat,
           \/ /\ WroteAt(7) <= file.len /\ taken \in {file.wrote[7], file.len - WroteAt(7)}
              /\ taken <= file.wrote[7] /\ taken <= file.len - WroteAt(7)
           \/ taken = 0 /\ file.len < WroteAt(7)
    PROVE  taken \div SlotSize = Cardinality(SlotsLeft)
<1> DEFINE n == file.wrote[7] \div 2
<1>1. n \in Nat /\ n * 2 <= file.wrote[7] /\ \A i \in Nat : i <= n <=> i * 2 <= file.wrote[7]
  OBVIOUS
<1>2. SlotsLeft = {i \in 1..n : WroteAt(7) + i * 2 <= file.len}
  BY DEF SlotsLeft, WholeIn, SlotSize
<1> HIDE DEF n
<1>3. CASE file.len < WroteAt(7)
  <2>1. SlotsLeft = {} /\ taken = 0
    BY <1>1, <1>2, <1>3
  <2> QED BY <2>1, FS_EmptySet DEF SlotSize
<1>4. CASE ~(file.len < WroteAt(7))
  <2>1. SlotsLeft = {i \in 1..n : i * 2 <= taken}
    <3>1. ASSUME NEW i \in 1..n PROVE WroteAt(7) + i * 2 <= file.len <=> i * 2 <= taken
      BY <1>1, <1>4
    <3> QED BY <1>2, <3>1
  <2>2. Cardinality(SlotsLeft) = IF n < taken \div 2 THEN n ELSE taken \div 2
    BY <1>1, <2>1, WholeSlots
  <2>3. taken \div 2 \in Nat /\ (taken \div 2) * 2 <= taken
    OBVIOUS
  <2>4. taken \div 2 <= n
    BY <1>1, <1>4, <2>3
  <2> QED BY <1>1, <2>2, <2>3, <2>4 DEF SlotSize
<1> QED BY <1>3, <1>4

\* Nothing is taken yet.
LEMMA WholeAtFirst == ParseInit => WholeSoFar
BY DEF ParseInit, WholeSoFar, OffAsWritten, EndOf, ModuleSlice, ModulesSoFar, ListsSoFar

\* The walk starts at the first record that was written.
LEMMA BeginReadsTheFirst ==
    ASSUME ParseInv, WholeSoFar, Undamaged, BeginModules
    PROVE  WholeSoFar'
<1>1. /\ Ready(1) /\ ~IsNegative /\ Take /\ pos' = 0
      /\ UNCHANGED <<file, outcome, module_list, module_list_stopped_at, lists>>
      /\ OffAsWritten /\ ModulesSoFar /\ ListsSoFar /\ 1 \in 1..7
  BY DEF BeginModules, WholeSoFar
<1>2. /\ OffAsWritten' /\ 1 = Len(slices) + 1 /\ Len(slices') = 1
      /\ slices' # <<>> /\ slices'[1].size = Taken
      /\ Taken \in Nat /\ file.len \in Nat /\ WroteAt(1) \in Nat /\ file.wrote[1] \in Nat
      /\ \/ /\ WroteAt(1) <= file.len
            /\ Taken \in {file.wrote[1], file.len - WroteAt(1)}
            /\ Taken <= file.wrote[1] /\ Taken <= file.len - WroteAt(1)
         \/ Taken = 0 /\ file.len < WroteAt(1)
  BY <1>1, TakeAsWritten
<1>3. WroteAt(1) = HeaderSize /\ HeaderSize <= file.len /\ slices = <<>>
  <2>1. WroteAt(1) = EndOf(1 - 1) /\ EndOf(0) = HeaderSize
    BY SubstreamsLie DEF EndOf, ParseInv, ParseTypes
  <2>2. HeaderSize <= file.len
    BY <1>1, <1>2 DEF Ready, HeaderSize
  <2>3. slices = <<>>
    BY <1>2 DEF ParseInv, ParseTypes
  <2> QED BY <2>1, <2>2, <2>3
<1>4. ModuleSlice'
  <2>1. Slice' = Taken
    BY <1>2 DEF Slice
  <2> QED BY <1>1, <1>2, <1>3, <2>1 DEF ModuleSlice, HeaderSize
<1>5. ModulesSoFar'
  <2>1. Slice' = Taken
    BY <1>2 DEF Slice
  <2>2. RecordAt[1] = 0 /\ RecordAt' = RecordAt
    BY <1>1, RecordsLie, WrittenStays DEF ParseInv, ParseTypes
  <2>3. Len(module_list) = 0 /\ pos' # None
    BY <1>1, <1>3, NoneIsNoPlace DEF ModulesSoFar
  <2> QED BY <1>1, <1>2, <1>3, <2>1, <2>2, <2>3 DEF ModulesSoFar
<1>6. ListsSoFar'
  <2>1. outcome # "parsed"
    BY <1>1 DEF Ready
  <2>2. ~(Len(slices') >= 3)
    BY <1>2
  <2>3. lists.contributions # 0 => WholeIn(WroteAt(2), ContribVersion)'
    BY <1>1 DEF ListsSoFar, WholeIn, WroteAt
  <2> QED BY <1>1, <2>1, <2>2, <2>3 DEF ListsSoFar
<1> QED BY <1>2, <1>4, <1>5, <1>6 DEF WholeSoFar

\* The walk meets the records that were written one after another, and no others.
LEMMA ReadsTheNext ==
    ASSUME ParseInv, WholeSoFar, Undamaged, ReadModule
    PROVE  WholeSoFar'
<1> DEFINE n == Len(module_list)
           m == Len(file.records)
           r == file.records[n + 1]
<1>1. /\ pos # None /\ Slice - pos >= ModuleFixed
      /\ UNCHANGED <<file, outcome, off, slices, substream_overrun, lists>>
      /\ OffAsWritten /\ ModuleSlice /\ ModulesSoFar /\ ListsSoFar
      /\ file \in Files
  BY DEF ReadModule, WholeSoFar, Walking, ParseInv, ParseTypes
<1>2. /\ module_list \in Seq([at : Nat, length : Nat]) /\ n <= Len(file.records)
      /\ n \in Nat /\ pos = RecordAt[n + 1] /\ Len(slices) = 1 /\ slices # <<>>
      /\ \A i \in 1..n : /\ module_list[i].at = RecordAt[i]
                         /\ module_list[i].length = file.records[i]
  BY <1>1 DEF ModulesSoFar
<1>3. /\ m \in Nat /\ DOMAIN file.records = 1..m
      /\ \A i \in 1..m : /\ file.records[i] \in Nat
                         /\ Padded(file.records[i]) \in Nat
                         /\ Padded(file.records[i]) >= ModuleFixed
                         /\ RecordAt[i + 1] = RecordAt[i] + Padded(file.records[i])
      /\ RecordAt[1] = 0 /\ RecordAt[m + 1] = file.wrote[1]
      /\ \A i \in 1..(m + 1) : RecordAt[i] \in Nat
      /\ \A i, j \in 1..(m + 1) : i <= j => RecordAt[i] <= RecordAt[j]
  BY <1>1, RecordsLie
<1>4. Slice \in Nat /\ Slice <= file.wrote[1]
  BY <1>1, <1>2, SliceElements DEF ModuleSlice, Slice
<1> HIDE DEF n, m
<1>n. n \in Nat /\ n <= m
  BY <1>2 DEF m
<1>5. n < m /\ n + 1 \in 1..m /\ n + 1 \in 1..(m + 1)
  <2>1. ASSUME n = m PROVE FALSE
    <3>1. pos = file.wrote[1] /\ pos \in Nat
      <4>1. m + 1 \in 1..(m + 1)
        BY <1>3
      <4> QED BY <1>2, <1>3, <2>1, <4>1
    <3> QED BY <1>1, <1>4, <3>1 DEF ModuleFixed
  <2> QED BY <1>n, <1>3, <2>1
<1>6. /\ RecordAt[n + 1] \in Nat /\ r \in Nat /\ Padded(r) \in Nat /\ Padded(r) >= ModuleFixed
      /\ RecordAt[(n + 1) + 1] = RecordAt[n + 1] + Padded(r)
  BY <1>3, <1>5
<1>7. Lengths = {r}
  <2>1. ASSUME NEW i \in 1..m, RecordAt[i] = RecordAt[n + 1]
        PROVE  i = n + 1
    <3>0. i \in 1..(m + 1) /\ i + 1 \in 1..(m + 1) /\ (n + 1) + 1 \in 1..(m + 1)
      BY <1>3, <1>5
    <3>1. CASE i < n + 1
      <4>0. i + 1 <= n + 1
        BY <1>n, <3>1
      <4>1. /\ RecordAt[i + 1] <= RecordAt[n + 1]
            /\ RecordAt[i + 1] = RecordAt[i] + Padded(file.records[i])
            /\ RecordAt[i] \in Nat /\ Padded(file.records[i]) \in Nat
            /\ Padded(file.records[i]) >= ModuleFixed
        BY <1>3, <1>5, <3>0, <4>0
      <4> QED BY <2>1, <4>1, <1>6 DEF ModuleFixed
    <3>2. CASE i > n + 1
      <4>0. (n + 1) + 1 <= i
        BY <1>n, <3>2
      <4>1. RecordAt[(n + 1) + 1] <= RecordAt[i] /\ RecordAt[i] \in Nat
        BY <1>3, <1>5, <3>0, <4>0
      <4> QED BY <2>1, <4>1, <1>6 DEF ModuleFixed
    <3> QED BY <1>n, <3>1, <3>2
  <2>2. {i \in DOMAIN file.records : RecordAt[i] = pos} = {n + 1}
    BY <1>2, <1>3, <1>5, <2>1
  <2> QED BY <2>2 DEF Lengths
<1> HIDE DEF r
<1>8. IF pos + Padded(r) <= Slice
      THEN /\ module_list' = Append(module_list, [at |-> pos, length |-> r])
           /\ pos' = pos + Padded(r)
      ELSE pos' = None /\ module_list' = module_list
  BY <1>7 DEF ReadModule
<1>9. Slice' = Slice /\ RecordAt' = RecordAt
  BY <1>1, WrittenStays DEF Slice
<1>10. ModulesSoFar'
  <2>1. CASE pos + Padded(r) <= Slice
    <3>1. /\ module_list' = Append(module_list, [at |-> pos, length |-> r])
          /\ pos' = RecordAt[(n + 1) + 1] /\ pos' <= Slice /\ pos' # None
      BY <1>2, <1>6, <1>8, <2>1, NoneIsNoPlace
    <3>2. /\ module_list' \in Seq([at : Nat, length : Nat]) /\ Len(module_list') = n + 1
          /\ module_list'[n + 1] = [at |-> pos, length |-> r]
          /\ \A i \in 1..n : module_list'[i] = module_list[i]
      BY <1>2, <1>6, <3>1 DEF n
    <3>3. \A i \in 1..(n + 1) : /\ module_list'[i].at = RecordAt[i]
                                /\ module_list'[i].length = file.records[i]
      <4>1. \A i \in 1..(n + 1) : i \in 1..n \/ i = n + 1
        BY <1>2
      <4>2. /\ module_list'[n + 1].at = RecordAt[n + 1]
            /\ module_list'[n + 1].length = file.records[n + 1]
        BY <1>2, <3>2 DEF r
      <4> QED BY <1>2, <3>2, <4>1, <4>2
    <3> QED BY <1>1, <1>2, <1>n, <1>5, <1>9, <3>1, <3>2, <3>3 DEF ModulesSoFar, m
  <2>2. CASE ~(pos + Padded(r) <= Slice)
    <3>1. pos' = None /\ module_list' = module_list /\ Slice < RecordAt[n + 2]
      <4>1. n + 2 = (n + 1) + 1
        BY <1>2
      <4>2. Slice < RecordAt[(n + 1) + 1]
        BY <1>2, <1>4, <1>6, <2>2
      <4> QED BY <1>8, <2>2, <4>1, <4>2
    <3>2. RecordAt[n + 1] <= Slice
      BY <1>1, <1>2 DEF ModulesSoFar, n
    <3> QED BY <1>1, <1>2, <1>9, <3>1, <3>2 DEF ModulesSoFar, n
  <2> QED BY <2>1, <2>2
<1>11. OffAsWritten' /\ ModuleSlice' /\ ListsSoFar'
  <2>1. OffAsWritten'
    BY <1>1 DEF OffAsWritten, EndOf, WroteAt
  <2>2. ModuleSlice'
    BY <1>1, <1>9 DEF ModuleSlice
  <2>3. ListsSoFar'
    BY <1>1 DEF ListsSoFar, MapLeft, SlotsLeft, WroteAt, WholeIn
  <2> QED BY <2>1, <2>2, <2>3
<1> QED BY <1>10, <1>11 DEF WholeSoFar

\* Fewer bytes than a record's fixed part hold no record that was written.
LEMMA EndsBeforeACutRecord ==
    ASSUME ParseInv, WholeSoFar, Undamaged, EndModules
    PROVE  WholeSoFar'
<1> DEFINE n == Len(module_list)
           m == Len(file.records)
<1>1. /\ pos # None /\ Slice - pos < ModuleFixed /\ pos' = None
      /\ UNCHANGED <<file, outcome, off, slices, substream_overrun, module_list, lists>>
      /\ OffAsWritten /\ ModuleSlice /\ ModulesSoFar /\ ListsSoFar
      /\ file \in Files
  BY DEF EndModules, WholeSoFar, Walking, ParseInv, ParseTypes
<1>2. /\ n \in Nat /\ n <= m /\ pos = RecordAt[n + 1] /\ slices # <<>> /\ Len(slices) = 1
  BY <1>1 DEF ModulesSoFar
<1>3. /\ m \in Nat
      /\ \A i \in 1..m : /\ Padded(file.records[i]) \in Nat
                         /\ Padded(file.records[i]) >= ModuleFixed
                         /\ RecordAt[i + 1] = RecordAt[i] + Padded(file.records[i])
      /\ \A i \in 1..(m + 1) : RecordAt[i] \in Nat
  BY <1>1, RecordsLie
<1>4. Slice \in Nat
  BY <1>2, SliceElements DEF Slice
<1> HIDE DEF n, m
<1>5. n = m \/ Slice < RecordAt[n + 2]
  <2>1. CASE n < m
    <3>1. n + 1 \in 1..m /\ n + 1 \in 1..(m + 1) /\ n + 2 = (n + 1) + 1
      BY <1>2, <1>3, <2>1
    <3>2. /\ Padded(file.records[n + 1]) \in Nat /\ Padded(file.records[n + 1]) >= ModuleFixed
          /\ RecordAt[(n + 1) + 1] = pos + Padded(file.records[n + 1]) /\ pos \in Nat
      BY <1>2, <1>3, <3>1
    <3> QED BY <1>1, <1>4, <3>1, <3>2 DEF ModuleFixed
  <2> QED BY <1>2, <1>3, <2>1
<1>6. Slice' = Slice /\ RecordAt' = RecordAt
  BY <1>1, WrittenStays DEF Slice
<1>7. ModulesSoFar'
  BY <1>1, <1>2, <1>5, <1>6 DEF ModulesSoFar, n, m
<1>8. OffAsWritten' /\ ModuleSlice' /\ ListsSoFar'
  <2>1. OffAsWritten'
    BY <1>1 DEF OffAsWritten, EndOf, WroteAt
  <2>2. ModuleSlice'
    BY <1>1, <1>6 DEF ModuleSlice
  <2>3. ListsSoFar'
    BY <1>1 DEF ListsSoFar, MapLeft, SlotsLeft, WroteAt, WholeIn
  <2> QED BY <2>1, <2>2, <2>3
<1> QED BY <1>7, <1>8 DEF WholeSoFar

\* What taking one of the substreams after the first means for the lists.
LEMMA ALaterTake ==
    ASSUME ParseInv, WholeSoFar, Undamaged, NEW n \in 2..7, Ready(n), ~IsNegative, Take,
           UNCHANGED <<file, pos, module_list>>
    PROVE  /\ OffAsWritten' /\ ModuleSlice' /\ ModulesSoFar' /\ ListsSoFar
           /\ n = Len(slices) + 1 /\ Current = n /\ Len(slices') = n
           /\ Taken \in Nat /\ file.len \in Nat /\ WroteAt(n) \in Nat /\ file.wrote[n] \in Nat
           /\ outcome = "parsing" /\ file \in Files
           /\ MapLeft' = MapLeft /\ SlotsLeft' = SlotsLeft
           /\ WholeIn(WroteAt(2), ContribVersion)' = WholeIn(WroteAt(2), ContribVersion)
           /\ \/ /\ off = WroteAt(n) /\ WroteAt(n) <= file.len
                 /\ Taken \in {file.wrote[n], file.len - WroteAt(n)}
                 /\ Taken <= file.wrote[n] /\ Taken <= file.len - WroteAt(n)
              \/ Taken = 0 /\ file.len < WroteAt(n)
<1>1. /\ OffAsWritten /\ ModuleSlice /\ ModulesSoFar /\ ListsSoFar /\ n \in 1..7
      /\ file' = file
  BY DEF WholeSoFar
<1>2. /\ OffAsWritten' /\ n = Len(slices) + 1 /\ Current = n /\ Len(slices') = n
      /\ Taken \in Nat /\ file.len \in Nat /\ WroteAt(n) \in Nat /\ file.wrote[n] \in Nat
      /\ \/ /\ off = WroteAt(n) /\ WroteAt(n) <= file.len
            /\ Taken \in {file.wrote[n], file.len - WroteAt(n)}
            /\ Taken <= file.wrote[n] /\ Taken <= file.len - WroteAt(n)
         \/ Taken = 0 /\ file.len < WroteAt(n)
  BY <1>1, TakeAsWritten
<1>3. ModuleSlice' /\ ModulesSoFar'
  BY <1>1, LaterTakesKeepModules
<1>4. MapLeft' = MapLeft /\ SlotsLeft' = SlotsLeft
  BY <1>1, WrittenStays
<1>5. WholeIn(WroteAt(2), ContribVersion)' = WholeIn(WroteAt(2), ContribVersion)
  BY <1>1 DEF WholeIn, WroteAt
<1>6. outcome = "parsing" /\ file \in Files
  BY DEF Ready, ParseInv, ParseTypes
<1> QED BY <1>1, <1>2, <1>3, <1>4, <1>5, <1>6

\* Contributions are read from what has its version whole.
LEMMA ContributionsAreWhole ==
    ASSUME ParseInv, WholeSoFar, Undamaged, TakeContributions
    PROVE  WholeSoFar'
<1> DEFINE read == lists'.contributions
<1>1. /\ Ready(2) /\ ~IsNegative /\ Take /\ 2 \in 2..7
      /\ UNCHANGED <<file, outcome, pos, module_list>>
      /\ \E entry \in {file.entry, 0, 28, 32} :
             lists' = [lists EXCEPT !.contributions = Contributions(Taken, entry)]
  BY DEF TakeContributions
<1>2. /\ OffAsWritten' /\ ModuleSlice' /\ ModulesSoFar' /\ ListsSoFar
      /\ Len(slices') = 2 /\ Taken \in Nat /\ file.len \in Nat /\ WroteAt(2) \in Nat
      /\ outcome = "parsing"
      /\ WholeIn(WroteAt(2), ContribVersion)' = WholeIn(WroteAt(2), ContribVersion)
      /\ \/ /\ WroteAt(2) <= file.len /\ Taken <= file.len - WroteAt(2)
         \/ Taken = 0
  BY <1>1, ALaterTake
<1>3. PICK entry : lists' = [lists EXCEPT !.contributions = Contributions(Taken, entry)]
  BY <1>1
<1>4. lists' = [contributions |-> Contributions(Taken, entry), map |-> lists.map,
                slots |-> lists.slots]
  BY <1>2, <1>3 DEF ListsSoFar
<1>5. Contributions(Taken, entry) # 0 => WholeIn(WroteAt(2), ContribVersion)
  <2>1. ASSUME Contributions(Taken, entry) # 0 PROVE Taken >= 4
    BY <1>2, <2>1 DEF Contributions, ContribVersion
  <2> QED BY <1>2, <2>1 DEF WholeIn, ContribVersion
<1>6. ListsSoFar'
  <2>1. ~(Len(slices') >= 3) /\ outcome' # "parsed"
    BY <1>1, <1>2
  <2>2. lists'.contributions = Contributions(Taken, entry)
    BY <1>4
  <2>3. lists' = [contributions |-> lists'.contributions, map |-> lists'.map,
                  slots |-> lists'.slots]
    BY <1>4
  <2> QED BY <1>2, <1>5, <2>1, <2>2, <2>3 DEF ListsSoFar
<1> QED BY <1>2, <1>6 DEF WholeSoFar

\* The section map is where it was written, or nothing is left of it.
LEMMA TheMapIsWhole ==
    ASSUME ParseInv, WholeSoFar, Undamaged, TakeSectionMap
    PROVE  WholeSoFar'
<1>1. /\ Ready(3) /\ ~IsNegative /\ Take /\ 3 \in 2..7
      /\ UNCHANGED <<file, outcome, pos, module_list>>
      /\ \E count \in IF InPlace THEN {file.count} ELSE {0, 65535} :
             lists' = [lists EXCEPT !.map = MapEntries(Taken, count)]
  BY DEF TakeSectionMap
<1>2. /\ OffAsWritten' /\ ModuleSlice' /\ ModulesSoFar' /\ ListsSoFar
      /\ Len(slices') = 3 /\ Current = 3 /\ outcome = "parsing" /\ file \in Files
      /\ Taken \in Nat /\ file.len \in Nat /\ WroteAt(3) \in Nat /\ file.wrote[3] \in Nat
      /\ MapLeft' = MapLeft
      /\ WholeIn(WroteAt(2), ContribVersion)' = WholeIn(WroteAt(2), ContribVersion)
      /\ \/ /\ off = WroteAt(3) /\ WroteAt(3) <= file.len
            /\ Taken \in {file.wrote[3], file.len - WroteAt(3)}
            /\ Taken <= file.wrote[3] /\ Taken <= file.len - WroteAt(3)
         \/ Taken = 0 /\ file.len < WroteAt(3)
  BY <1>1, ALaterTake
<1>3. PICK count \in IF InPlace THEN {file.count} ELSE {0, 65535} :
          lists' = [lists EXCEPT !.map = MapEntries(Taken, count)]
  BY <1>1
<1>4. off = WroteAt(3) => count = file.count
  BY <1>2, <1>3 DEF InPlace
<1>5. MapEntries(Taken, count) = Cardinality(MapLeft)
  BY <1>2, <1>4, MapIsWhole
<1>6. lists' = [contributions |-> lists.contributions, map |-> MapEntries(Taken, count),
                slots |-> lists.slots]
  BY <1>2, <1>3 DEF ListsSoFar
<1>7. ListsSoFar'
  <2>1. outcome' # "parsed"
    BY <1>1, <1>2
  <2>2. /\ lists'.contributions = lists.contributions
        /\ lists'.map = Cardinality(MapLeft)
        /\ lists' = [contributions |-> lists'.contributions, map |-> lists'.map,
                     slots |-> lists'.slots]
    BY <1>5, <1>6
  <2>3. Cardinality(MapLeft)' = Cardinality(MapLeft)
    BY <1>2
  <2> QED BY <1>2, <2>1, <2>2, <2>3 DEF ListsSoFar
<1> QED BY <1>2, <1>7 DEF WholeSoFar

\* What is stepped over adds nothing to the lists.
LEMMA SteppedOverStaysWhole ==
    ASSUME ParseInv, WholeSoFar, Undamaged, StepOver
    PROVE  WholeSoFar'
<1>1. PICK n \in 4..6 : Ready(n)
  BY DEF StepOver
<1>2. ~IsNegative /\ Take /\ n \in 2..7 /\ UNCHANGED <<file, outcome, pos, module_list, lists>>
  BY <1>1 DEF StepOver
<1>3. /\ OffAsWritten' /\ ModuleSlice' /\ ModulesSoFar' /\ ListsSoFar
      /\ n = Len(slices) + 1 /\ Len(slices') = n /\ outcome = "parsing"
      /\ MapLeft' = MapLeft
      /\ WholeIn(WroteAt(2), ContribVersion)' = WholeIn(WroteAt(2), ContribVersion)
  BY <1>1, <1>2, ALaterTake
<1>4. ListsSoFar'
  <2>1. outcome' # "parsed" /\ Len(slices) >= 3
    <3>1. Len(slices) \in Nat
      BY SliceElements
    <3> QED BY <1>1, <1>2, <1>3, <3>1
  <2>2. lists.map = Cardinality(MapLeft)
    BY <1>3, <2>1 DEF ListsSoFar
  <2>3. Cardinality(MapLeft)' = Cardinality(MapLeft)
    BY <1>3
  <2> QED BY <1>2, <1>3, <2>1, <2>2, <2>3 DEF ListsSoFar
<1> QED BY <1>3, <1>4 DEF WholeSoFar

\* The debug header is the last substream; with it the stream is parsed.
LEMMA TheSlotsAreWhole ==
    ASSUME ParseInv, WholeSoFar, Undamaged, TakeDebugHeader
    PROVE  WholeSoFar'
<1>1. /\ Ready(7) /\ ~IsNegative /\ Take /\ 7 \in 2..7
      /\ UNCHANGED <<file, pos, module_list>>
      /\ lists' = [lists EXCEPT !.slots = Taken \div SlotSize]
  BY DEF TakeDebugHeader
<1>2. /\ OffAsWritten' /\ ModuleSlice' /\ ModulesSoFar' /\ ListsSoFar
      /\ 7 = Len(slices) + 1 /\ Len(slices') = 7
      /\ Taken \in Nat /\ file.len \in Nat /\ WroteAt(7) \in Nat /\ file.wrote[7] \in Nat
      /\ MapLeft' = MapLeft /\ SlotsLeft' = SlotsLeft
      /\ WholeIn(WroteAt(2), ContribVersion)' = WholeIn(WroteAt(2), ContribVersion)
      /\ \/ /\ WroteAt(7) <= file.len
            /\ Taken \in {file.wrote[7], file.len - WroteAt(7)}
            /\ Taken <= file.wrote[7] /\ Taken <= file.len - WroteAt(7)
         \/ Taken = 0 /\ file.len < WroteAt(7)
  BY <1>1, ALaterTake
<1>3. Taken \div SlotSize = Cardinality(SlotsLeft)
  BY <1>2, SlotsAreWhole
<1>4. lists' = [contributions |-> lists.contributions, map |-> lists.map,
                slots |-> Taken \div SlotSize]
  BY <1>1, <1>2 DEF ListsSoFar
<1>5. ListsSoFar'
  <2>1. Len(slices) >= 3
    <3>1. Len(slices) \in Nat
      BY SliceElements
    <3> QED BY <1>2, <3>1
  <2>2. lists.map = Cardinality(MapLeft)
    BY <1>2, <2>1 DEF ListsSoFar
  <2>3. /\ Cardinality(MapLeft)' = Cardinality(MapLeft)
        /\ Cardinality(SlotsLeft)' = Cardinality(SlotsLeft)
    BY <1>2
  <2>4. /\ lists'.contributions = lists.contributions /\ lists'.map = lists.map
        /\ lists'.slots = Cardinality(SlotsLeft)
        /\ lists' = [contributions |-> lists'.contributions, map |-> lists'.map,
                     slots |-> lists'.slots]
    BY <1>3, <1>4
  <2> QED BY <1>2, <2>2, <2>3, <2>4 DEF ListsSoFar
<1> QED BY <1>2, <1>5 DEF WholeSoFar

\* A reader that gives up, or does nothing, leaves what it has as it is.
LEMMA WholeLeftAlone ==
    ASSUME WholeSoFar, outcome' \in {outcome, "raised"},
           UNCHANGED <<file, off, slices, substream_overrun, pos, module_list, lists>>
    PROVE  WholeSoFar'
<1>1. OffAsWritten => OffAsWritten'
  BY DEF OffAsWritten, EndOf, WroteAt
<1>2. Slice' = Slice /\ RecordAt' = RecordAt /\ Undamaged' = Undamaged
  BY WrittenStays DEF Slice
<1>3. ModuleSlice => ModuleSlice'
  BY <1>2 DEF ModuleSlice
<1>4. ModulesSoFar => ModulesSoFar'
  BY <1>2 DEF ModulesSoFar
<1>5. ListsSoFar => ListsSoFar'
  BY DEF ListsSoFar, MapLeft, SlotsLeft, WroteAt, WholeIn
<1> QED BY <1>1, <1>2, <1>3, <1>4, <1>5 DEF WholeSoFar

\* One step after another, whichever it is.
LEMMA StaysWhole == ASSUME ParseInv, WholeSoFar, [ParseNext]_parseVars PROVE WholeSoFar'
<1>1. CASE Undamaged
  <2>1. CASE ShorterThanHeader \/ NegativeSize
    BY <2>1, WholeLeftAlone DEF ShorterThanHeader, NegativeSize, Raise
  <2>2. CASE UNCHANGED parseVars
    BY <2>2, WholeLeftAlone DEF parseVars
  <2>3. CASE BeginModules
    BY <1>1, <2>3, BeginReadsTheFirst
  <2>4. CASE ReadModule
    BY <1>1, <2>4, ReadsTheNext
  <2>5. CASE EndModules
    BY <1>1, <2>5, EndsBeforeACutRecord
  <2>6. CASE TakeContributions
    BY <1>1, <2>6, ContributionsAreWhole
  <2>7. CASE TakeSectionMap
    BY <1>1, <2>7, TheMapIsWhole
  <2>8. CASE StepOver
    BY <1>1, <2>8, SteppedOverStaysWhole
  <2>9. CASE TakeDebugHeader
    BY <1>1, <2>9, TheSlotsAreWhole
  <2> QED BY <2>1, <2>2, <2>3, <2>4, <2>5, <2>6, <2>7, <2>8, <2>9 DEF ParseNext
<1>2. CASE ~Undamaged
  <2>1. file' = file
    BY DEF ParseNext, parseVars, ShorterThanHeader, NegativeSize, Raise, BeginModules,
           ReadModule, EndModules, TakeContributions, TakeSectionMap, StepOver, TakeDebugHeader
  <2> QED BY <1>2, <2>1, WrittenStays DEF WholeSoFar
<1> QED BY <1>1, <1>2

\* The records that are whole in what is left are the first ones, as many as were read.
LEMMA RecordsReadAreLeft ==
    ASSUME ParseInv, Undamaged, ModuleSlice, ModulesSoFar, slices # <<>>, pos = None
    PROVE  Len(module_list) = Cardinality(RecordsLeft)
<1> DEFINE n == Len(module_list)
           m == Len(file.records)
<1>1. /\ n \in Nat /\ n <= m /\ RecordAt[n + 1] <= Slice
      /\ n = m \/ Slice < RecordAt[n + 2]
  BY DEF ModulesSoFar
<1>2. /\ m \in Nat /\ DOMAIN file.records = 1..m
      /\ \A i \in 1..m : /\ Padded(file.records[i]) \in Nat
                         /\ RecordAt[i + 1] = RecordAt[i] + Padded(file.records[i])
      /\ RecordAt[m + 1] = file.wrote[1]
      /\ \A i \in 1..(m + 1) : RecordAt[i] \in Nat
      /\ \A i, j \in 1..(m + 1) : i <= j => RecordAt[i] <= RecordAt[j]
  BY RecordsLie DEF ParseInv, ParseTypes
<1>3. /\ Slice \in Nat /\ file.len \in Nat
      /\ Slice \in {file.wrote[1], file.len - HeaderSize}
      /\ Slice <= file.wrote[1] /\ Slice <= file.len - HeaderSize
  <2>1. Slice \in Nat
    <3>1. Len(slices) # 0
      BY DEF ParseInv, ParseTypes
    <3>2. 1 \in 1..Len(slices)
      BY <3>1, SliceElements
    <3> QED BY <3>2, SliceElements DEF Slice
  <2> QED BY <2>1, FilesAssumption DEF ModuleSlice, ParseInv, ParseTypes
<1> HIDE DEF n, m
<1>4. ASSUME NEW i \in 1..m
      PROVE  HeaderSize + RecordAt[i] + Padded(file.records[i]) <= file.len <=> i <= n
  <2>1. /\ i \in 1..(m + 1) /\ i + 1 \in 1..(m + 1) /\ n + 1 \in 1..(m + 1) /\ m + 1 \in 1..(m + 1)
    BY <1>1, <1>2
  <2>2. /\ RecordAt[i] \in Nat /\ Padded(file.records[i]) \in Nat
        /\ RecordAt[i + 1] = RecordAt[i] + Padded(file.records[i])
        /\ RecordAt[i + 1] \in Nat /\ RecordAt[n + 1] \in Nat
    BY <1>2, <2>1
  <2>3. CASE i <= n
    <3>1. RecordAt[i + 1] <= RecordAt[n + 1]
      <4>1. i + 1 <= n + 1
        BY <1>1, <2>3
      <4> QED BY <1>2, <2>1, <4>1
    <3>2. Slice \in Nat /\ file.len \in Nat /\ Slice <= file.len - 64 /\ RecordAt[n + 1] <= Slice
      BY <1>1, <1>3 DEF HeaderSize
    <3> QED BY <2>2, <2>3, <3>1, <3>2 DEF HeaderSize
  <2>4. CASE ~(i <= n)
    <3>1. n + 2 <= i + 1 /\ n + 2 \in 1..(m + 1) /\ n # m
      BY <1>1, <1>2, <2>4
    <3>2. RecordAt[n + 2] <= RecordAt[i + 1] /\ RecordAt[n + 2] \in Nat
      BY <1>2, <2>1, <3>1
    <3>3. RecordAt[i + 1] <= RecordAt[m + 1]
      <4>1. i + 1 <= m + 1
        BY <1>2
      <4> QED BY <1>2, <2>1, <4>1
    <3>4. Slice < RecordAt[i + 1] /\ RecordAt[i + 1] <= file.wrote[1]
      BY <1>1, <1>2, <1>3, <2>2, <3>1, <3>2, <3>3
    <3>5. Slice = file.len - HeaderSize
      BY <1>3, <2>2, <3>4
    <3> QED BY <1>3, <2>2, <2>4, <3>4, <3>5 DEF HeaderSize
  <2> QED BY <2>3, <2>4
<1>5. RecordsLeft = 1..n
  <2>1. RecordsLeft = {i \in 1..m : HeaderSize + RecordAt[i] + Padded(file.records[i]) <= file.len}
    BY <1>2 DEF RecordsLeft, WholeIn
  <2>2. RecordsLeft = {i \in 1..m : i <= n}
    BY <1>4, <2>1
  <2> QED BY <1>1, <1>2, <2>2
<1>6. Cardinality(1..n) = n
  BY <1>1, FS_Interval
<1> QED BY <1>5, <1>6 DEF n

\* Once the stream is parsed, the invariant is what the property asks.
LEMMA WholeMeansTold == ASSUME ParseInv, WholeSoFar PROVE CutIsTold
<1>1. ASSUME outcome = "parsed", Undamaged
      PROVE  /\ Len(module_list) = Cardinality(RecordsLeft)
             /\ \A i \in DOMAIN module_list : /\ module_list[i].at = RecordAt[i]
                                              /\ module_list[i].length = file.records[i]
             /\ lists.map = Cardinality(MapLeft)
             /\ lists.slots = Cardinality(SlotsLeft)
             /\ lists.contributions # 0 => WholeIn(WroteAt(2), ContribVersion)
             /\ file.len < WroteAt(7) + file.wrote[7] => substream_overrun # None
  <2>1. OffAsWritten /\ ModuleSlice /\ ModulesSoFar /\ ListsSoFar
    BY <1>1 DEF WholeSoFar
  <2>2. Len(slices) = 7 /\ Len(slices) # 1 /\ Len(slices) >= 3 /\ slices # <<>>
    <3>1. Len(slices) = 7
      BY <1>1, <2>1 DEF ListsSoFar
    <3>2. Len(<<>>) = 0
      OBVIOUS
    <3> QED BY <3>1, <3>2
  <2>3. pos = None
    BY <2>1, <2>2 DEF ModulesSoFar
  <2>4. Len(module_list) = Cardinality(RecordsLeft)
    BY <1>1, <2>1, <2>2, <2>3, RecordsReadAreLeft
  <2>5. DOMAIN module_list = 1..Len(module_list)
    BY <2>1 DEF ModulesSoFar
  <2>6. ASSUME substream_overrun = None PROVE ~(file.len < WroteAt(7) + file.wrote[7])
    <3>1. off = WroteAt(7) + file.wrote[7] /\ off \in Nat /\ off <= file.len /\ file.len \in Nat
      <4>1. off = WroteAt(7) + file.wrote[7]
        BY <2>1, <2>2, <2>6 DEF OffAsWritten, EndOf
      <4>2. off \in Nat /\ file.len \in Nat
        BY FilesAssumption DEF ParseInv, ParseTypes, OffsetBounds
      <4>3. off <= file.len
        BY <2>2 DEF ParseInv, OffsetBounds
      <4> QED BY <4>1, <4>2, <4>3
    <3> QED BY <3>1
  <2> QED BY <1>1, <2>1, <2>2, <2>4, <2>5, <2>6 DEF ModulesSoFar, ListsSoFar
<1> QED BY <1>1 DEF CutIsTold, CutYieldsWhatIsLeft, ParseInv

(***************************************************************************)
(* DbiStream.parse over a stream cut at any byte: every module record, map *)
(* entry and debug-header slot that is whole in what is left is read, none *)
(* else is, and the overrun names the first substream that lost anything.  *)
(***************************************************************************)
THEOREM WhatIsCutIsTold == ParseSpec => []CutIsTold
<1>1. ParseInit => ParseInv /\ WholeSoFar
  BY InitKeeps, WholeAtFirst
<1>2. ParseInv /\ WholeSoFar /\ [ParseNext]_parseVars => (ParseInv /\ WholeSoFar)'
  BY StepKeeps, StaysWhole
<1>3. ParseInv /\ WholeSoFar => CutIsTold
  BY WholeMeansTold
<1> QED BY <1>1, <1>2, <1>3, PTL DEF ParseSpec

-----------------------------------------------------------------------------
(* The corpus sweep                                                          *)

LEMMA FieldsOfAFile ==
  ASSUME NEW f \in File
  PROVE  /\ f.stream \in Nat
         /\ f.first \in Int /\ f.last \in Int /\ f.declared \in Int
         /\ f.slots \in [Slots -> Streams]
<1>1. /\ f.stream \in StreamWords /\ f.first \in Sizes /\ f.last \in Sizes
      /\ f.declared \in DeclaredWords /\ f.slots \in [Slots -> Streams]
  BY DEF File
<1> QED
  BY <1>1, GeometryAssumption

LEMMA MinOfTwo ==
  ASSUME NEW a \in Int, NEW b \in Int
  PROVE  Min({a, b}) \in Int /\ Min({a, b}) <= a /\ Min({a, b}) <= b
<1>1. \E x \in {a, b} : \A y \in {a, b} : x <= y
  OBVIOUS
<1>2. Min({a, b}) \in {a, b} /\ \A y \in {a, b} : Min({a, b}) <= y
  BY <1>1 DEF Min
<1> QED
  BY <1>2

\* A header whose slots are all there lies in the stream.
LEMMA HeaderIsInTheStream ==
  ASSUME NEW f \in File, LibraryReads(f), SlotsThere(f) >= 3
  PROVE  /\ Optional(f) \in Nat /\ Optional(f) + 3 <= f.stream
         /\ SlotsThere(f) \in Int
<1>1. /\ f.first \in Nat /\ f.last \in Nat /\ f.declared \in Nat /\ f.stream \in Nat
      /\ HeaderWords \in Nat
  BY FieldsOfAFile, GeometryAssumption DEF LibraryReads
<1>2. Optional(f) \in Nat
  BY <1>1 DEF Optional, AtLeast0
<1> DEFINE room == AtLeast0(f.stream - Optional(f))
<1>3. room \in Nat /\ (room > 0 => room = f.stream - Optional(f))
  BY <1>1, <1>2 DEF AtLeast0
<1>4. SlotsThere(f) = Min({f.declared, room})
  BY DEF SlotsThere
<1> HIDE DEF room
<1>5. SlotsThere(f) \in Int /\ SlotsThere(f) <= room
  <2>1. f.declared \in Int /\ room \in Int
    BY <1>1, <1>3
  <2>2. Min({f.declared, room}) \in Int /\ Min({f.declared, room}) <= room
    BY <2>1, MinOfTwo, Zenon
  <2> QED
    BY <1>4, <2>2
<1> QED
  BY <1>1, <1>2, <1>3, <1>5

\* Three words that the stream holds lie in blocks that it has.
LEMMA WholeHeaderIsInRange ==
  ASSUME NEW f \in File, LibraryReads(f), SlotsThere(f) >= 3
  PROVE  RangeIsThere(f, Optional(f), 3)
<1> DEFINE end == Optional(f) + 3 - 1
           q == end \div BlockWords
           c == (f.stream + BlockWords - 1) \div BlockWords
<1>1. /\ end \in Nat /\ end < f.stream /\ f.stream \in Nat /\ BlockWords \in Nat \ {0}
  BY HeaderIsInTheStream, FieldsOfAFile, GeometryAssumption
<1>2. c \in Nat /\ f.stream <= c * BlockWords
  BY <1>1, CeilingHoldsAll
<1> HIDE DEF end, c
<1>3. q \in Nat /\ q * BlockWords <= end
  BY <1>1, QuotientFits
<1> HIDE DEF q
<1>4. ASSUME c <= q PROVE FALSE
  <2>1. c * BlockWords <= q * BlockWords
    BY <1>1, <1>2, <1>3, <1>4, TimesIsMonotonic
  <2>2. c * BlockWords \in Nat /\ q * BlockWords \in Nat
    BY <1>1, <1>2, <1>3
  <2> QED
    BY <1>1, <1>2, <1>3, <2>1, <2>2
<1>5. q < c
  BY <1>2, <1>3, <1>4
<1> QED
  BY <1>5 DEF RangeIsThere, Blocks, q, c, end

\* Of a whole header the two see the same slots.
LEMMA SlotsAreTheSame ==
  ASSUME NEW f \in File, LibraryReads(f), SlotsThere(f) >= 3, NEW i \in Slots
  PROVE  SlotAt(f, Optional(f), i) = f.slots[i] /\ DbgStream(f, i) = f.slots[i]
<1>1. SlotsThere(f) \in Int
  BY HeaderIsInTheStream
<1> QED
  BY <1>1 DEF SlotAt, Optional, DbgStream, Slots

LEMMA ShapesAreTheSame ==
  ASSUME NEW f \in File, LibraryReads(f), Whole(f)
  PROVE  Surveyed(f) /\ ShapeOf(f) = LibraryShape(f)
<1>1. Cardinality(Slots) = 3
  <2>1. Cardinality(1..3) = IF 1 > 3 THEN 0 ELSE 3 - 1 + 1
    <3>1. 1 \in Int /\ 3 \in Int
      OBVIOUS
    <3> QED
      BY <3>1, FS_Interval, Zenon
  <2> QED
    BY <2>1 DEF Slots
<1>2. SlotsThere(f) >= 3
  BY <1>1 DEF Whole
<1>3. Surveyed(f)
  BY <1>1, <1>2, WholeHeaderIsInRange DEF Surveyed, LibraryReads
<1>4. \A i \in Slots : SlotAt(f, Optional(f), i) = f.slots[i] /\ DbgStream(f, i) = f.slots[i]
  BY <1>2, SlotsAreTheSame
<1>5. \A i \in Slots : f.slots[i] \in Streams \ {"scrap"}
  BY FieldsOfAFile DEF Whole
<1>6. \A i \in Slots : /\ Present(SlotAt(f, Optional(f), i)) <=> f.slots[i] = "full"
                       /\ SlotAt(f, Optional(f), i) = "full" <=> f.slots[i] = "full"
                       /\ HasTable(f, i) <=> f.slots[i] = "full"
  BY <1>4, <1>5 DEF Present, HasTable, Streams
<1>7. ShapeOf(f) = LibraryShape(f)
  BY <1>6, {1, 2, 3} \subseteq Slots DEF ShapeOf, LibraryShape, Slots, OmapFromSrc, SectionHdr, SectionHdrOrig
<1> QED
  BY <1>3, <1>7

(***************************************************************************)
(* Whatever the sizes of header and blocks, a file the library reads and   *)
(* whose debug header is whole is given the shape its own tables have:     *)
(* the words of such a header lie in blocks that the stream has, so that   *)
(* the sweep never rejects it, and both see the same slots.                *)
(***************************************************************************)
THEOREM TheSweepIsNoSecondOpinion == SurveySpec => []AgreesWithTheLibrary
<1>1. SurveyInit => AgreesWithTheLibrary
  BY DEF SurveyInit, AgreesWithTheLibrary, Swept
<1>2. AgreesWithTheLibrary /\ [SurveyNext]_surveyVars => AgreesWithTheLibrary'
  <2> SUFFICES ASSUME AgreesWithTheLibrary, [SurveyNext]_surveyVars PROVE AgreesWithTheLibrary'
    OBVIOUS
  <2>1. CASE UNCHANGED surveyVars
    BY <2>1 DEF surveyVars, AgreesWithTheLibrary, Swept
  <2>2. CASE SurveyNext
    <3>1. PICK f \in File : Sweep(f)
      BY <2>2 DEF SurveyNext
    <3>2. path'[1] = f /\ (Read(f) \/ Reject(f))
      BY <3>1 DEF Sweep
    <3>3. LibraryReads(f) /\ Whole(f) => answer' = LibraryShape(f)
      BY <3>2, ShapesAreTheSame DEF Read, Reject
    <3> QED
      BY <3>2, <3>3 DEF AgreesWithTheLibrary
  <2> QED
    BY <2>1, <2>2
<1> QED
  BY <1>1, <1>2, PTL DEF SurveySpec
===============================================================================
