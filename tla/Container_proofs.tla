--------------------------- MODULE Container_proofs ---------------------------
(***************************************************************************)
(* For every block size, file length and block list the run-at-a-time read *)
(* of MsfRead implements the block-at-a-time read of MsfReadSpec.  And for *)
(* every set of file words, opening a container never unpacks past its     *)
(* directory, parses what is stored there, pairs every stream with the     *)
(* number of blocks its size calls for, claims no more than the file       *)
(* holds, and a stream is read whole or not at all.                        *)
(***************************************************************************)
EXTENDS MsfRead, MsfDirectory, Lemmas, SequenceTheorems, TLAPS

-----------------------------------------------------------------------------
(* MsfRead: _read_blocks.                                                  *)

\* A block lies in the file iff its index is below the number of whole blocks.
LEMMA InFileIffBelow ==
  ASSUME NEW b \in Nat
  PROVE  InFile(b) <=> b < FileLen \div BlockSize
<1> DEFINE q == FileLen \div BlockSize
           r == FileLen % BlockSize
<1>1. /\ q \in Int /\ r \in 0..(BlockSize - 1)
      /\ FileLen = BlockSize * q + r
  BY BlockSizeAssumption, FileLenAssumption, Z3
<1>q. q = FileLen \div BlockSize
  OBVIOUS
<1> HIDE DEF q, r
<1>2. CASE b < q
  <2>1. b + 1 <= q
    BY <1>1, <1>2
  <2>2. (b + 1) * BlockSize <= q * BlockSize
    BY <1>1, <2>1, BlockSizeAssumption, TimesIsMonotonic, SMT
  <2> QED
    BY <1>1, <1>2, <2>2, BlockSizeAssumption, FileLenAssumption, Z3 DEF InFile
<1>3. CASE b >= q
  <2>1. b * BlockSize >= q * BlockSize
    BY <1>1, <1>3, BlockSizeAssumption, TimesIsMonotonic, SMT
  <2> QED
    BY <1>1, <1>3, <2>1, BlockSizeAssumption, FileLenAssumption, Z3 DEF InFile
<1> QED
  BY <1>1, <1>2, <1>3, <1>q

\* _append_run's one check per run answers for every block of the run, and
\* the block it names is the first of the run that is outside the file.
LEMMA RunCheck ==
  ASSUME NEW first \in Nat, NEW count \in Nat \ {0}
  PROVE  /\ RunFits(first, count) =>
              \A b \in first..(first + count - 1) : InFile(b)
         /\ ~RunFits(first, count) =>
              /\ FirstBad(first) \in first..(first + count - 1)
              /\ ~InFile(FirstBad(first))
              /\ \A b \in first..(FirstBad(first) - 1) : InFile(b)
<1> DEFINE whole == FileLen \div BlockSize
           rest  == FileLen % BlockSize
<1>1. /\ whole \in Nat /\ rest \in 0..(BlockSize - 1)
      /\ FileLen = whole * BlockSize + rest
  BY BlockSizeAssumption, FileLenAssumption, Z3
<1>2. \A b \in Nat : InFile(b) <=> b < whole
  BY InFileIffBelow
<1> HIDE DEF whole, rest
<1>3. RunFits(first, count) <=> InFile(first + count - 1)
  BY BlockSizeAssumption, FileLenAssumption, Z3 DEF RunFits, InFile
<1>4. (FileLen - first * BlockSize) \div BlockSize = whole - first
  <2>1. FileLen - first * BlockSize = (whole - first) * BlockSize + rest
    BY <1>1, BlockSizeAssumption, Z3
  <2>2. FileLen - first * BlockSize \in Int
    BY BlockSizeAssumption, FileLenAssumption, Z3
  <2> QED
    BY <1>1, <2>1, <2>2, BlockSizeAssumption, QuotientIsUnique
<1>5. FirstBad(first) = IF whole > first THEN whole ELSE first
  BY <1>1, <1>4 DEF FirstBad
<1> QED
  BY <1>1, <1>2, <1>3, <1>5

------------------------------------------------------------------------------

\* Joining a slice to what was read: what each position of the join holds.
LEMMA JoinSlice ==
  ASSUME NEW s \in Seq(Nat), NEW first \in Nat, NEW count \in Nat
  PROVE  LET all == s \o Slice(first, count) IN
         /\ all \in Seq(Nat)
         /\ Len(all) = Len(s) + count
         /\ \A k \in 1..Len(all) :
              all[k] = IF k <= Len(s) THEN s[k] ELSE first + (k - Len(s)) - 1
<1>1. /\ Slice(first, count) \in Seq(Nat)
      /\ Len(Slice(first, count)) = count
      /\ \A k \in 1..count : Slice(first, count)[k] = first + k - 1
  BY DEF Slice
<1> DEFINE t == Slice(first, count)
<1>2. t \in Seq(Nat) /\ Len(t) = count /\ Len(s) \in Nat
  BY <1>1
<1>3. \A k \in 1..count : t[k] = first + k - 1
  BY <1>1
<1> HIDE DEF t
<1>4. /\ s \o t \in Seq(Nat)
      /\ Len(s \o t) = Len(s) + Len(t)
      /\ \A k \in 1..(Len(s) + Len(t)) :
           (s \o t)[k] = IF k <= Len(s) THEN s[k] ELSE t[k - Len(s)]
  BY <1>2, ConcatProperties
<1>5. \A k \in 1..Len(s \o t) :
        (s \o t)[k] = IF k <= Len(s) THEN s[k] ELSE first + (k - Len(s)) - 1
  <2> TAKE k \in 1..Len(s \o t)
  <2>1. CASE k <= Len(s)
    BY <1>2, <1>4, <2>1
  <2>2. CASE k > Len(s)
    <3>1. k - Len(s) \in 1..count
      BY <1>2, <1>4, <2>2
    <3> QED
      BY <1>2, <1>3, <1>4, <2>2, <3>1
  <2> QED
    BY <1>2, <1>4, <2>1, <2>2
<1> QED
  BY <1>2, <1>4, <1>5 DEF t

\* When the run being grown fits, taking it extends the prefix taken.
LEMMA RunJoinsPrefix ==
  ASSUME TypeOK, request.indices \in Seq(Nat), TakenPrefix, GrowingStretch,
         RunFits(run_start, expect - run_start)
  PROVE  LET all == runs \o Slice(run_start, expect - run_start) IN
         /\ all \in Seq(Nat)
         /\ Len(all) = pos - 1
         /\ \A k \in 1..Len(all) : all[k] = request.indices[k]
                                  /\ InFile(request.indices[k])
<1> DEFINE count == expect - run_start
           all == runs \o Slice(run_start, count)
<1>1. count \in Nat \ {0} /\ Len(runs) \in Nat
  BY DEF TypeOK, GrowingStretch
<1>2. /\ all \in Seq(Nat)
      /\ Len(all) = Len(runs) + count
      /\ \A k \in 1..Len(all) :
           all[k] = IF k <= Len(runs) THEN runs[k]
                    ELSE run_start + (k - Len(runs)) - 1
  BY <1>1, JoinSlice DEF TypeOK
<1>3. \A b \in run_start..(run_start + count - 1) : InFile(b)
  BY <1>1, RunCheck DEF TypeOK
<1>4. ASSUME NEW k \in 1..Len(all)
      PROVE  all[k] = request.indices[k] /\ InFile(request.indices[k])
  <2>1. CASE k <= Len(runs)
    BY <1>1, <1>2, <2>1 DEF TakenPrefix
  <2>2. CASE k > Len(runs)
    <3>1. k - Len(runs) \in 1..count
      BY <1>1, <1>2, <2>2
    <3>2. Len(runs) + (k - Len(runs)) = k
      BY <1>1
    <3>3. request.indices[k] = run_start + (k - Len(runs)) - 1
      BY <3>1, <3>2 DEF GrowingStretch
    <3>4. run_start + (k - Len(runs)) - 1 \in run_start..(run_start + count - 1)
      BY <1>1, <3>1 DEF TypeOK
    <3> QED
      BY <1>2, <1>3, <2>2, <3>3, <3>4
  <2> QED
    BY <1>1, <2>1, <2>2
<1> QED
  BY <1>1, <1>2, <1>4 DEF GrowingStretch

\* The types, the split of the list into taken, growing and unread blocks, and
\* that nothing is answered before the loop ends, hold throughout.
THEOREM SplitIsInvariant == Spec => []IInv
<1>1. Init => IInv
  BY RequestsAssumption DEF Init, SpecInit, IInv, TypeOK, SplitInv, PendingUntilDone
<1>2. IInv /\ [Next]_vars => IInv'
  <2> SUFFICES ASSUME IInv, [Next]_vars
               PROVE  IInv'
    OBVIOUS
  <2>0. /\ request.indices \in Seq(Nat)
        /\ request.size \in Nat
        /\ request \in Requests
    BY RequestsAssumption DEF IInv, TypeOK
  <2>1. CASE ReadNothing
    BY <2>0, <2>1 DEF ReadNothing, IInv, TypeOK, SplitInv, PendingUntilDone, Pending, Returned
  <2>2. CASE OpenFirstRun
    <3>1. request.indices[1] \in Nat /\ Len(request.indices) >= 1
      BY <2>0, <2>2 DEF OpenFirstRun
    <3>2. runs = <<>> /\ runs' = <<>> /\ request' = request
      BY <2>2 DEF OpenFirstRun, IInv, SplitInv
    <3>3. TakenPrefix'
      BY <3>2 DEF TakenPrefix
    <3>4. GrowingStretch'
      BY <3>1, <3>2, <2>2 DEF OpenFirstRun, GrowingStretch
    <3> QED
      BY <2>0, <2>2, <3>1, <3>2, <3>3, <3>4
         DEF OpenFirstRun, IInv, TypeOK, SplitInv, PendingUntilDone
  <2>3. CASE GrowRun
    <3>1. TypeOK' /\ PendingUntilDone'
      BY <2>0, <2>3 DEF GrowRun, IInv, TypeOK, PendingUntilDone
    <3>2. TakenPrefix'
      BY <2>3 DEF GrowRun, IInv, SplitInv, TakenPrefix
    <3>3. GrowingStretch'
      <4>1. /\ pos \in Nat /\ expect \in Nat /\ run_start \in Nat /\ Len(runs) \in Nat
            /\ Len(request.indices) \in Nat /\ GrowingStretch
        BY <2>0, <2>3 DEF GrowRun, IInv, TypeOK, SplitInv
      <4>2. /\ pos <= Len(request.indices) /\ request.indices[pos] = expect
            /\ expect' = expect + 1 /\ pos' = pos + 1
            /\ run_start' = run_start /\ runs' = runs /\ request' = request
        BY <2>3 DEF GrowRun
      <4>3. ASSUME NEW k \in 1..(expect + 1 - run_start)
            PROVE  request.indices[Len(runs) + k] = run_start + k - 1
        <5>1. CASE k \in 1..(expect - run_start)
          BY <4>1, <5>1 DEF GrowingStretch
        <5>2. CASE k = expect + 1 - run_start
          <6>1. Len(runs) + k = pos
            BY <4>1, <5>2 DEF GrowingStretch
          <6> QED
            BY <4>1, <4>2, <5>2, <6>1
        <5> QED
          BY <4>1, <5>1, <5>2
      <4>4. /\ run_start' < expect'
            /\ Len(runs') + (expect' - run_start') = pos' - 1
            /\ pos' - 1 <= Len(request'.indices)
        BY <4>1, <4>2 DEF GrowingStretch
      <4>5. \A k \in 1..(expect' - run_start') :
              request'.indices[Len(runs') + k] = run_start' + k - 1
        BY <4>1, <4>2, <4>3
      <4> QED
        BY <4>4, <4>5 DEF GrowingStretch
    <3> QED
      BY <2>3, <3>1, <3>2, <3>3 DEF GrowRun, IInv, SplitInv
  <2>4. CASE BreakRun
    <3>1. /\ TypeOK /\ TakenPrefix /\ GrowingStretch
          /\ pos \in 1..Len(request.indices)
      BY <2>0, <2>4 DEF BreakRun, IInv, SplitInv, TypeOK
    <3>2. request.indices[pos] \in Nat
      BY <2>0, <3>1
    <3>3. CASE RunFits(run_start, expect - run_start)
      <4>0. /\ runs' = runs \o Slice(run_start, expect - run_start)
            /\ run_start' = request.indices[pos]
            /\ expect' = request.indices[pos] + 1
            /\ pos' = pos + 1
            /\ answer' = answer /\ pc' = pc /\ request' = request
            /\ pc = "scan"
        BY <2>4, <3>3 DEF BreakRun
      <4>1. /\ runs' \in Seq(Nat)
            /\ Len(runs') = pos - 1
            /\ TakenPrefix'
        BY <2>0, <3>1, <3>3, <4>0, RunJoinsPrefix DEF TakenPrefix
      <4>2. GrowingStretch'
        <5>0. /\ pos \in Nat /\ pos <= Len(request.indices) /\ Len(runs') = pos - 1
              /\ pos' = pos + 1 /\ request' = request
              /\ run_start' = request.indices[pos] /\ expect' = request.indices[pos] + 1
          BY <3>1, <4>0, <4>1
        <5>1. /\ expect' - run_start' = 1
              /\ run_start' < expect'
              /\ Len(runs') + (expect' - run_start') = pos' - 1
              /\ pos' - 1 <= Len(request'.indices)
          <6>1. expect' - run_start' = 1 /\ run_start' < expect'
            BY <3>2, <5>0
          <6>2. Len(runs') + 1 = pos' - 1
            BY <5>0
          <6>3. pos' - 1 <= Len(request'.indices)
            BY <5>0
          <6> QED
            BY <6>1, <6>2, <6>3
        <5>2. ASSUME NEW k \in 1..1
              PROVE  request'.indices[Len(runs') + k] = run_start' + k - 1
          <6>1. k = 1 /\ Len(runs') + k = pos
            BY <5>0
          <6> QED
            BY <3>2, <5>0, <6>1
        <5>3. \A k \in 1..(expect' - run_start') :
                request'.indices[Len(runs') + k] = run_start' + k - 1
          BY <5>1, <5>2
        <5> QED
          BY <5>1, <5>3 DEF GrowingStretch
      <4>3. TypeOK'
        <5>1. request.indices[pos] \in Nat
          BY <3>2
        <5>2. run_start' \in Nat /\ expect' \in Nat /\ pos' \in Nat \ {0}
          BY <3>1, <4>0, <5>1 DEF TypeOK
        <5>3. request' \in Requests /\ pc' \in {"start", "scan", "done"}
          BY <3>1, <4>0 DEF TypeOK
        <5> QED
          BY <4>1, <5>2, <5>3 DEF TypeOK
      <4>4. PendingUntilDone'
        BY <4>0 DEF IInv, PendingUntilDone
      <4> QED
        BY <4>0, <4>1, <4>2, <4>3, <4>4 DEF IInv, SplitInv
    <3>4. CASE ~RunFits(run_start, expect - run_start)
      <4>1. /\ UNCHANGED <<request, runs, run_start, expect, pos>>
            /\ pc' = "done" /\ answer' # Pending
        BY <2>4, <3>4 DEF BreakRun, Raise, OutOfRange, Pending
      <4> QED
        BY <4>1 DEF IInv, TypeOK, SplitInv, PendingUntilDone
    <3> QED
      BY <3>3, <3>4
  <2>5. CASE TakeLastRun
    <3>1. expect - run_start \in Nat
      BY <2>5 DEF TakeLastRun, IInv, TypeOK, SplitInv, GrowingStretch
    <3>2. runs \o Slice(run_start, expect - run_start) \in Seq(Nat)
      BY <3>1, JoinSlice DEF IInv, TypeOK
    <3>3. runs' \in Seq(Nat)
      BY <2>5, <3>2 DEF TakeLastRun, IInv, TypeOK
    <3>4. answer' # Pending
      BY <2>5 DEF TakeLastRun, Raise, OutOfRange, Returned, Pending
    <3>5. pc' = "done" /\ UNCHANGED <<request, pos, run_start, expect>>
      BY <2>5 DEF TakeLastRun, Raise
    <3> QED
      BY <3>3, <3>4, <3>5 DEF IInv, TypeOK, SplitInv, PendingUntilDone
  <2>6. CASE UNCHANGED vars
    BY <2>6 DEF vars, IInv, TypeOK, SplitInv, PendingUntilDone, TakenPrefix, GrowingStretch
  <2> QED
    BY <2>1, <2>2, <2>3, <2>4, <2>5, <2>6 DEF Next
<1> QED
  BY <1>1, <1>2, PTL DEF Spec

------------------------------------------------------------------------------

(***************************************************************************)
(* The read of a stream a run at a time (MsfFile._read_blocks) always has  *)
(* joined a prefix of the block list and holds one growing stretch of it:  *)
(* the conjunct of the inductive invariant that the loop is about.         *)
(***************************************************************************)
THEOREM SplitAlways == Spec => []SplitInv
<1>1. IInv => SplitInv
  BY DEF IInv
<1> QED
  BY <1>1, SplitIsInvariant, PTL

\* The block-by-block read refuses at the first block outside the file.
LEMMA RefusalIsFirst ==
  ASSUME NEW list \in Seq(Nat), NEW size \in Nat, NEW k \in 1..Len(list),
         ~InFile(list[k]), \A j \in 1..(k - 1) : InFile(list[j])
  PROVE  PerBlock(list, size) = OutOfRange(list[k])
<1> DEFINE outside == {i \in DOMAIN list : ~InFile(list[i])}
           first == CHOOSE i \in outside : \A j \in outside : i <= j
<1>1. k \in outside /\ \A j \in outside : k <= j
  <2>1. DOMAIN list = 1..Len(list) /\ Len(list) \in Nat
    OBVIOUS
  <2>2. k \in outside
    BY <2>1
  <2>3. ASSUME NEW j \in outside PROVE k <= j
    <3>1. j \in 1..Len(list) /\ ~InFile(list[j])
      BY <2>1
    <3> QED
      BY <2>1, <3>1
  <2> QED
    BY <2>2, <2>3
<1>2. first \in outside /\ \A j \in outside : first <= j
  BY <1>1
<1>3. outside \subseteq Nat
  OBVIOUS
<1> HIDE DEF outside
<1>4. first = k
  <2>1. first <= k /\ k <= first
    BY <1>1, <1>2
  <2>2. first \in Nat /\ k \in Nat
    BY <1>1, <1>2, <1>3
  <2> HIDE DEF first
  <2> QED
    BY <2>1, <2>2
<1>5. outside # {}
  BY <1>1
<1> QED
  BY <1>4, <1>5 DEF PerBlock, outside

\* What a run's refusal names is what the block-by-block read would name.
LEMMA RunRefusal ==
  ASSUME TypeOK, request.indices \in Seq(Nat), request.size \in Nat,
         TakenPrefix, GrowingStretch, ~RunFits(run_start, expect - run_start)
  PROVE  PerBlock(request.indices, request.size) = OutOfRange(FirstBad(run_start))
<1> DEFINE count == expect - run_start
           bad == FirstBad(run_start)
           k == Len(runs) + (bad - run_start) + 1
<1>1. count \in Nat \ {0} /\ Len(runs) \in Nat /\ run_start \in Nat
  BY DEF TypeOK, GrowingStretch
<1>2. /\ bad \in run_start..(run_start + count - 1)
      /\ ~InFile(bad)
      /\ \A b \in run_start..(bad - 1) : InFile(b)
  BY <1>1, RunCheck
<1> HIDE DEF bad
<1>3. /\ bad \in Nat
      /\ k \in 1..Len(request.indices)
      /\ bad - run_start + 1 \in 1..count
  <2>1. bad \in Nat /\ bad - run_start + 1 \in 1..count
    BY <1>1, <1>2
  <2>2. Len(runs) + count <= Len(request.indices) /\ Len(request.indices) \in Nat
    BY <1>1 DEF TypeOK, GrowingStretch
  <2> QED
    BY <1>1, <2>1, <2>2
<1>4. request.indices[k] = bad
  <2>1. k = Len(runs) + (bad - run_start + 1)
    BY <1>1, <1>3
  <2>2. request.indices[Len(runs) + (bad - run_start + 1)]
          = run_start + (bad - run_start + 1) - 1
    BY <1>3 DEF GrowingStretch
  <2> QED
    BY <1>1, <1>3, <2>1, <2>2
<1>5. ASSUME NEW j \in 1..(k - 1)
      PROVE  InFile(request.indices[j])
  <2>1. CASE j <= Len(runs)
    BY <1>1, <2>1 DEF TakenPrefix
  <2>2. CASE j > Len(runs)
    <3>1. j - Len(runs) \in 1..count
      <4>1. j \in Int /\ bad \in Int /\ bad - run_start <= count - 1
        BY <1>1, <1>2, <1>3
      <4>2. j <= Len(runs) + (bad - run_start)
        BY <1>1, <1>3, <4>1
      <4> QED
        BY <1>1, <2>2, <4>1, <4>2
    <3>2. Len(runs) + (j - Len(runs)) = j
      BY <1>1
    <3>3. request.indices[j] = run_start + (j - Len(runs)) - 1
      BY <3>1, <3>2 DEF GrowingStretch
    <3>4. run_start + (j - Len(runs)) - 1 \in run_start..(bad - 1)
      BY <1>1, <1>3, <2>2
    <3> QED
      BY <1>2, <3>3, <3>4
  <2> QED
    BY <1>1, <1>3, <2>1, <2>2
<1> HIDE DEF k
<1>6. PerBlock(request.indices, request.size) = OutOfRange(request.indices[k])
  BY <1>2, <1>3, <1>4, <1>5, RefusalIsFirst
<1> QED
  BY <1>4, <1>6 DEF bad

\* The run-at-a-time read is the block-by-block read: whatever it returns or
\* raises, reading one block at a time returns or raises.
THEOREM RunsImplementBlocks == Spec => RefinesPerBlock
<1>1. Init => SpecInit
  BY DEF Init
<1>2. IInv /\ [Next]_vars => [ReadAtOnce]_specVars
  <2> SUFFICES ASSUME IInv, [Next]_vars
               PROVE  [ReadAtOnce]_specVars
    OBVIOUS
  <2>0. /\ request.indices \in Seq(Nat)
        /\ request.size \in Nat
        /\ TypeOK
    BY RequestsAssumption DEF IInv, TypeOK
  <2>1. CASE ReadNothing
    <3>1. answer = Pending /\ request' = request /\ request.indices = <<>>
          /\ answer' = Returned(<<>>, 0)
      BY <2>1 DEF ReadNothing, IInv, PendingUntilDone
    <3>2. Least(request.size, 0) = 0
      BY <2>0 DEF Least
    <3>3. PerBlock(<<>>, request.size) = Returned(<<>>, Least(request.size, 0))
      <4>1. {k \in DOMAIN <<>> : ~InFile(<<>>[k])} = {}
        OBVIOUS
      <4>2. Len(<<>>) * BlockSize = 0
        BY BlockSizeAssumption
      <4> QED
        BY <4>1, <4>2 DEF PerBlock
    <3> QED
      BY <3>1, <3>2, <3>3 DEF ReadAtOnce
  <2>2. CASE OpenFirstRun
    BY <2>2 DEF OpenFirstRun, specVars
  <2>3. CASE GrowRun
    BY <2>3 DEF GrowRun, specVars
  <2>4. CASE BreakRun
    <3>1. TakenPrefix /\ GrowingStretch /\ answer = Pending
      BY <2>4 DEF BreakRun, IInv, SplitInv, PendingUntilDone
    <3>2. CASE RunFits(run_start, expect - run_start)
      BY <2>4, <3>2 DEF BreakRun, specVars
    <3>3. CASE ~RunFits(run_start, expect - run_start)
      <4>1. answer' = OutOfRange(FirstBad(run_start)) /\ request' = request
        BY <2>4, <3>3 DEF BreakRun, Raise
      <4> QED
        BY <2>0, <3>1, <3>3, <4>1, RunRefusal DEF ReadAtOnce
    <3> QED
      BY <3>2, <3>3
  <2>5. CASE TakeLastRun
    <3>1. /\ TakenPrefix /\ GrowingStretch /\ answer = Pending
          /\ pos > Len(request.indices)
      BY <2>5 DEF TakeLastRun, IInv, SplitInv, PendingUntilDone
    <3>2. CASE RunFits(run_start, expect - run_start)
      <4> DEFINE all == runs \o Slice(run_start, expect - run_start)
      <4>1. /\ all \in Seq(Nat)
            /\ Len(all) = pos - 1
            /\ \A k \in 1..Len(all) : all[k] = request.indices[k]
                                     /\ InFile(request.indices[k])
        BY <2>0, <3>1, <3>2, RunJoinsPrefix
      <4>2. /\ answer' = Returned(all, Least(request.size, Len(all) * BlockSize))
            /\ request' = request
        BY <2>5, <3>2 DEF TakeLastRun
      <4> HIDE DEF all
      <4>3. Len(all) = Len(request.indices)
        <5>1. pos \in Nat /\ Len(request.indices) \in Nat
          BY <2>0 DEF TypeOK
        <5>2. pos - 1 <= Len(request.indices)
          BY <3>1 DEF GrowingStretch
        <5> QED
          BY <3>1, <4>1, <5>1, <5>2
      <4>4. all = request.indices
        <5>1. \A k \in 1..Len(all) : all[k] = request.indices[k]
          BY <4>1
        <5> QED
          BY <2>0, <4>1, <4>3, <5>1, SeqEqual
      <4>5. {k \in DOMAIN request.indices : ~InFile(request.indices[k])} = {}
        BY <2>0, <4>1, <4>3
      <4> QED
        BY <3>1, <4>2, <4>4, <4>5 DEF ReadAtOnce, PerBlock
    <3>3. CASE ~RunFits(run_start, expect - run_start)
      <4>1. answer' = OutOfRange(FirstBad(run_start)) /\ request' = request
        BY <2>5, <3>3 DEF TakeLastRun, Raise
      <4> QED
        BY <2>0, <3>1, <3>3, <4>1, RunRefusal DEF ReadAtOnce
    <3> QED
      BY <3>2, <3>3
  <2>6. CASE UNCHANGED vars
    BY <2>6 DEF vars, specVars
  <2> QED
    BY <2>1, <2>2, <2>3, <2>4, <2>5, <2>6 DEF Next
<1> QED
  BY <1>1, <1>2, SplitIsInvariant, PTL DEF Spec, RefinesPerBlock, ReadSpec

-----------------------------------------------------------------------------
(* MsfDirectory: open and read_stream.                                     *)

\* A mapped file begins with a superblock: nothing is read before it is.
NothingReadEarly == phase # "open" => reply = NoReply

\* What every step of an open and every read of an opened container keeps.
DirectoryInv == /\ DirectoryTypeOK /\ NeverPastEnd /\ ListsFitSizes /\ ReadsAreExact
        /\ NothingReadEarly

\* What Unpack gives is as many words as it was asked for.
LEMMA UnpackGives ==
  ASSUME DirectoryTypeOK, NEW n \in Nat, NEW at \in Nat
  PROVE  Unpack(n, at) \in Seq(Words) /\ Len(Unpack(n, at)) = n
<1>1. \A k \in 1..n : (IF at \div WordSize + k \in DOMAIN d.words
                       THEN d.words[at \div WordSize + k] ELSE Nil) \in Words
  BY WordsAssumption DEF DirectoryTypeOK
<1> QED
  BY <1>1 DEF Unpack

\* The blocks of a stream: a natural number, enough for its bytes.
LEMMA BlocksHoldSize ==
  ASSUME NEW size \in Nat, size # Nil
  PROVE  /\ BlocksOf(size) \in Nat
         /\ size <= BlocksOf(size) * BlockSize
  BY BlockSizeAssumption, CeilingHoldsAll DEF BlocksOf, CeilDiv

\* Words are natural numbers, alone and in sequences.
LEMMA WordsAreNat ==
  /\ \A s \in Seq(Words) : s \in Seq(Nat)
  /\ \A s \in Seq(Words) : \A i \in 1..Len(s) : s[i] \in Words /\ s[i] \in Nat
<1>1. Words \subseteq Nat
  BY WordsAssumption
<1>2. ASSUME NEW s \in Seq(Words), NEW i \in 1..Len(s)
      PROVE  s[i] \in Words
  OBVIOUS
<1>3. ASSUME NEW s \in Seq(Words)
      PROVE  s \in Seq(Nat)
  <2>1. s = [i \in 1..Len(s) |-> s[i]] /\ Len(s) \in Nat
    OBVIOUS
  <2>2. \A i \in 1..Len(s) : s[i] \in Nat
    BY <1>1, <1>2
  <2> QED
    BY <2>1, <2>2
<1> QED
  BY <1>1, <1>2, <1>3

\* A read that returns bytes returns the least of what was asked for and of
\* what the blocks hold.
LEMMA PerBlockLength ==
  ASSUME NEW list \in Seq(Nat), NEW size \in Nat,
         PerBlock(list, size).outcome = "bytes"
  PROVE  /\ PerBlock(list, size) = Returned(list, Least(size, Len(list) * BlockSize))
         /\ Least(size, Len(list) * BlockSize) \in Nat
<1>1. PerBlock(list, size) = Returned(list, Least(size, Len(list) * BlockSize))
  BY DEF PerBlock, Returned, OutOfRange
<1>2. Len(list) * BlockSize \in Nat
  BY BlockSizeAssumption
<1> QED
  BY <1>1, <1>2 DEF Least

\* After its addresses are revealed, every one of them holds a word.
LEMMA RevealGivesWords ==
  ASSUME NEW addrs, Reveal(addrs), DirectoryTypeOK
  PROVE  /\ \A a \in DOMAIN content' : content'[a] \in Words
         /\ \A k \in DOMAIN addrs : content'[addrs[k]] \in Words
<1>1. PICK new \in [Range(addrs) \ DOMAIN content -> Words] :
        content' = [a \in DOMAIN content \cup Range(addrs) |->
                      IF a \in DOMAIN content THEN content[a] ELSE new[a]]
  BY DEF Reveal
<1>2. \A k \in DOMAIN addrs : addrs[k] \in Range(addrs)
  BY DEF Range
<1>3. \A a \in DOMAIN content \cup Range(addrs) : content'[a] \in Words
  BY <1>1 DEF DirectoryTypeOK
<1> QED
  BY <1>1, <1>2, <1>3

------------------------------------------------------------------------------

\* The superblock's fields, and what is counted from them, are natural numbers.
LEMMA SuperIsTyped ==
  ASSUME DirectoryTypeOK
  PROVE  /\ DirBlocks \in Nat /\ MapBlocks \in Nat
         /\ super.block_map_addr \in Nat
         /\ super.num_directory_bytes \in Nat
<1>1. /\ super.block_map_addr \in Nat
      /\ super.num_directory_bytes \in Nat
  BY SuperBlocksAssumption DEF DirectoryTypeOK
<1>2. DirBlocks \in Nat
  BY <1>1, BlockSizeAssumption, CeilingHoldsAll DEF DirBlocks, CeilDiv
<1>3. DirBlocks * WordSize \in Nat
  BY <1>2 DEF WordSize
<1>4. MapBlocks \in Nat
  BY <1>3, BlockSizeAssumption, CeilingHoldsAll DEF MapBlocks, CeilDiv
<1> QED
  BY <1>1, <1>2, <1>4

\* Refusing, or passing to a phase that reads nothing, keeps the invariant.
LEMMA RefuseKeepsTypes ==
  ASSUME DirectoryInv, NEW what \in Phases, Refuse(what), UNCHANGED content,
         what \in {"streams", "open"} => phase = "streams",
         phase # "open"
  PROVE  DirectoryInv'
<1>1. DirectoryTypeOK'
  BY DEF Refuse, DirectoryInv, DirectoryTypeOK
<1>2. NeverPastEnd'
  BY DEF Refuse, DirectoryInv, NeverPastEnd
<1>3. ListsFitSizes'
  BY DEF Refuse, DirectoryInv, ListsFitSizes
<1>4. reply' = NoReply
  BY DEF Refuse, DirectoryInv, NothingReadEarly
<1> QED
  BY <1>1, <1>2, <1>3, <1>4 DEF DirectoryInv, ReadsAreExact, NothingReadEarly, NoReply

\* Types, bounds, pairing and whole reads hold in every behaviour.
THEOREM DirectoryIsSafe == DirectorySpec => []DirectoryInv
<1>1. DirectoryInit => DirectoryInv
  BY WordsAssumption
     DEF DirectoryInit, DirectoryInv, DirectoryTypeOK, NeverPastEnd, ListsFitSizes, ReadsAreExact,
         NothingReadEarly, NoReply, Phases, WordSize
<1>2. DirectoryInv /\ [DirectoryNext]_directoryVars => DirectoryInv'
  <2> SUFFICES ASSUME DirectoryInv, [DirectoryNext]_directoryVars
               PROVE  DirectoryInv'
    OBVIOUS
  <2>1. CASE ParseSuperBlock
    <3>1. PICK what \in {"unsupported", "refused", "map"} : Refuse(what)
      BY <2>1, SuperBlocksAssumption DEF ParseSuperBlock, DirectoryInv, DirectoryTypeOK
    <3> QED
      BY <2>1, <3>1, RefuseKeepsTypes DEF ParseSuperBlock, Phases
  <2>2. CASE ReadBlockMap
    <3>1. CASE BlockMapIsWhole
      <4> DEFINE addrs == WordAddresses(BlockMap)
      <4>1. /\ Reveal(addrs)
            /\ dir_blocks' = [k \in 1..DirBlocks |-> content'[addrs[k]]]
            /\ phase' = "directory" /\ phase = "map"
            /\ UNCHANGED <<super, d, off, sizes, stream_sizes, stream_blocks, reply>>
        BY <2>2, <3>1 DEF ReadBlockMap
      <4>2. dir_blocks' \in Seq(Words) /\ \A a \in DOMAIN content' : content'[a] \in Words
        <5>1. DirBlocks \in Nat /\ MapBlocks \in Nat /\ super.block_map_addr \in Nat
          BY SuperIsTyped DEF DirectoryInv
        <5>2. /\ BlockMap.outcome = "bytes"
              /\ BlockMap.len >= DirBlocks * WordSize
              /\ BlockMap.len \in Nat
          <6>1. [i \in 1..MapBlocks |-> super.block_map_addr + i - 1] \in Seq(Nat)
            BY <5>1
          <6>2. DirBlocks * WordSize \in Nat
            BY <5>1 DEF WordSize
          <6> QED
            BY <3>1, <6>1, <6>2, PerBlockLength DEF BlockMapIsWhole, BlockMap, Returned
        <5>3. DirBlocks <= BlockMap.len \div WordSize
          BY <5>1, <5>2 DEF WordSize
        <5>4. 1..DirBlocks \subseteq DOMAIN addrs
          BY <5>1, <5>2, <5>3 DEF WordAddresses, WordSize
        <5>5. /\ \A a \in DOMAIN content' : content'[a] \in Words
              /\ \A k \in DOMAIN addrs : content'[addrs[k]] \in Words
          BY <4>1, RevealGivesWords DEF DirectoryInv
        <5> HIDE DEF addrs
        <5>6. \A k \in 1..DirBlocks : content'[addrs[k]] \in Words
          BY <5>4, <5>5
        <5> QED
          BY <4>1, <5>1, <5>5, <5>6
      <4> QED
        BY <4>1, <4>2 DEF DirectoryInv, DirectoryTypeOK, NeverPastEnd, ListsFitSizes, ReadsAreExact,
                          NothingReadEarly, NoReply, Phases
    <3>2. CASE ~BlockMapIsWhole
      BY <2>2, <3>2, RefuseKeepsTypes DEF ReadBlockMap, Phases
    <3> QED
      BY <3>1, <3>2
  <2>3. CASE ReadDirectory
    <3>1. CASE Directory.outcome = "bytes"
      <4> DEFINE addrs == WordAddresses(Directory)
      <4>1. /\ Reveal(addrs)
            /\ d' = [words |-> [k \in DOMAIN addrs |-> content'[addrs[k]]],
                     len |-> Directory.len]
            /\ phase' = "count" /\ phase = "directory"
            /\ UNCHANGED <<super, dir_blocks, off, sizes, stream_sizes, stream_blocks, reply>>
        BY <2>3, <3>1 DEF ReadDirectory
      <4>2. Directory.len \in Nat
        <5>1. dir_blocks \in Seq(Nat) /\ super.num_directory_bytes \in Nat
          <6>1. dir_blocks \in Seq(Words)
            BY DEF DirectoryInv, DirectoryTypeOK
          <6> QED
            BY <6>1, WordsAreNat, SuperIsTyped DEF DirectoryInv
        <5> QED
          BY <3>1, <5>1, PerBlockLength DEF Directory, Returned
      <4>3. DOMAIN addrs = 1..(Directory.len \div WordSize)
        BY DEF WordAddresses
      <4>4. /\ \A a \in DOMAIN content' : content'[a] \in Words
            /\ \A k \in DOMAIN addrs : content'[addrs[k]] \in Words
        BY <4>1, RevealGivesWords DEF DirectoryInv
      <4> HIDE DEF addrs
      <4>5. Directory.len \div WordSize \in Nat
        BY <4>2 DEF WordSize
      <4>6. /\ d'.words \in Seq(Words) /\ d'.len \in Nat
            /\ Len(d'.words) = d'.len \div WordSize
        BY <4>1, <4>2, <4>3, <4>4, <4>5
      <4> QED
        BY <4>1, <4>4, <4>6 DEF DirectoryInv, DirectoryTypeOK, NeverPastEnd, ListsFitSizes, ReadsAreExact,
                          NothingReadEarly, NoReply, Phases
    <3>2. CASE Directory.outcome # "bytes"
      <4>1. Refuse("refused") /\ UNCHANGED content /\ phase # "open"
        BY <2>3, <3>2 DEF ReadDirectory
      <4> QED
        BY <4>1, RefuseKeepsTypes DEF Phases
    <3> QED
      BY <3>1, <3>2
  <2>4. CASE ReadStreamCount
    <3> DEFINE count == d.words[1]
    <3>1. CASE d.len >= WordSize /\ Holds(count, WordSize)
      <4>1. /\ sizes' = Unpack(count, WordSize)
            /\ off' = WordSize + WordSize * count
            /\ phase' = "streams" /\ phase = "count"
            /\ UNCHANGED <<super, dir_blocks, d, stream_sizes, stream_blocks, reply, content>>
        BY <2>4, <3>1 DEF ReadStreamCount
      <4>2. count \in Nat
        <5>1. /\ d.words \in Seq(Words) /\ d.len \in Nat
              /\ Len(d.words) = d.len \div WordSize
          BY DEF DirectoryInv, DirectoryTypeOK
        <5>2. 1 \in 1..Len(d.words)
          BY <3>1, <5>1 DEF WordSize
        <5> QED
          BY <5>1, <5>2, WordsAreNat
      <4>3. sizes' \in Seq(Words) /\ Len(sizes') = count
        BY <4>1, <4>2, UnpackGives DEF DirectoryInv, WordSize
      <4>4. /\ d.len \in Nat
            /\ WordSize + WordSize * count <= d.len
        <5>1. d.len \in Nat
          BY DEF DirectoryInv, DirectoryTypeOK
        <5>2. d.len >= 4 /\ count <= (d.len - 4) \div 4
          BY <3>1 DEF Holds, WordSize
        <5> HIDE DEF count
        <5>3. 4 * count <= d.len - 4
          BY <4>2, <5>1, <5>2
        <5> QED
          BY <4>2, <5>1, <5>3 DEF WordSize
      <4> HIDE DEF count
      <4>5. DirectoryTypeOK'
        BY <4>1, <4>2, <4>3 DEF DirectoryInv, DirectoryTypeOK, Phases, WordSize
      <4>6. NeverPastEnd'
        BY <4>1, <4>2, <4>3, <4>4 DEF NeverPastEnd, WordSize
      <4> QED
        BY <4>1, <4>5, <4>6 DEF DirectoryInv, ListsFitSizes, ReadsAreExact, NothingReadEarly, NoReply
    <3>2. CASE ~(d.len >= WordSize /\ Holds(count, WordSize))
      BY <2>4, <3>2, RefuseKeepsTypes DEF ReadStreamCount, Phases
    <3> QED
      BY <3>1, <3>2
  <2>5. CASE ReadStreamBlocks
    <3>1. CASE NextSize = Nil \/ Holds(BlocksOf(NextSize), off)
      <4>1. AppendStream /\ content' = content /\ phase = "streams"
            /\ Len(stream_sizes) < Len(sizes)
        BY <2>5, <3>1 DEF ReadStreamBlocks
      <4>2. NextSize \in Words /\ NextSize \in Nat
        <5>1. /\ sizes \in Seq(Words) /\ stream_sizes \in Seq(Words)
          BY DEF DirectoryInv, DirectoryTypeOK
        <5>2. Len(stream_sizes) + 1 \in 1..Len(sizes)
          BY <4>1, <5>1
        <5> QED
          BY <5>1, <5>2, WordsAreNat DEF NextSize
      <4>3. BlocksOf(NextSize) \in Nat
        <5>1. CASE NextSize = Nil
          BY <5>1 DEF BlocksOf
        <5>2. CASE NextSize # Nil
          BY <4>2, <5>2, BlocksHoldSize
        <5> QED
          BY <5>1, <5>2
      <4> DEFINE n == BlocksOf(NextSize)
                 list == Unpack(n, off)
      <4>4. list \in Seq(Words) /\ Len(list) = n
        BY <4>3, UnpackGives DEF DirectoryInv, DirectoryTypeOK
      <4>5. /\ stream_sizes' = Append(stream_sizes, NextSize)
            /\ stream_blocks' = Append(stream_blocks, list)
            /\ off' = off + WordSize * n
            /\ UNCHANGED <<super, phase, dir_blocks, d, sizes, reply>>
        BY <4>1 DEF AppendStream
      <4>6. n = IF NextSize = Nil THEN 0 ELSE CeilDiv(NextSize, BlockSize)
        BY DEF BlocksOf
      <4>7. /\ off \in Nat /\ d.len \in Nat /\ off <= d.len /\ off % WordSize = 0
            /\ WordSize * (1 + Len(sizes)) <= d.len
        BY <4>1 DEF DirectoryInv, DirectoryTypeOK, NeverPastEnd
      <4>8. NextSize = Nil => n = 0
        BY DEF BlocksOf
      <4>9. n <= (d.len - off) \div WordSize
        BY <3>1, <4>7, <4>8 DEF Holds, WordSize
      <4>n. n \in Nat
        BY <4>3
      <4> HIDE DEF n, list
      <4>10. off' \in Nat /\ off' <= d.len /\ off' % WordSize = 0
        <5>1. off' = off + 4 * n
          BY <4>5 DEF WordSize
        <5>2. off \in Nat /\ d.len \in Nat /\ off <= d.len /\ off % 4 = 0
          BY <4>7 DEF WordSize
        <5>3. n <= (d.len - off) \div 4
          BY <4>9 DEF WordSize
        <5>4. d.len - off \in Nat
          BY <5>2
        <5>5. 4 * n <= d.len - off
          BY <5>3, <5>4, <4>n
        <5>6. (off + 4 * n) % 4 = 0
          BY <5>2, <4>n, Z3
        <5> QED
          BY <5>1, <5>2, <5>5, <5>6, <4>n DEF WordSize
      <4>11. DirectoryTypeOK'
        BY <4>1, <4>2, <4>4, <4>5, <4>10 DEF DirectoryInv, DirectoryTypeOK
      <4>12. NeverPastEnd'
        BY <4>5, <4>7, <4>10 DEF NeverPastEnd
      <4>13. ListsFitSizes'
        <5>1. /\ stream_sizes \in Seq(Words) /\ stream_blocks \in Seq(Seq(Words))
              /\ Len(stream_blocks) = Len(stream_sizes)
          BY DEF DirectoryInv, DirectoryTypeOK, ListsFitSizes
        <5>2. ASSUME NEW i \in 1..(Len(stream_sizes) + 1)
              PROVE  Len(stream_blocks'[i]) =
                       IF stream_sizes'[i] = Nil THEN 0
                       ELSE CeilDiv(stream_sizes'[i], BlockSize)
          <6>1. CASE i <= Len(stream_sizes)
            <7>1. stream_sizes'[i] = stream_sizes[i] /\ stream_blocks'[i] = stream_blocks[i]
              BY <4>5, <5>1, <6>1
            <7> QED
              BY <5>1, <6>1, <7>1 DEF DirectoryInv, ListsFitSizes
          <6>2. CASE i = Len(stream_sizes) + 1
            <7>1. stream_sizes'[i] = NextSize /\ stream_blocks'[i] = list
              BY <4>5, <5>1, <6>2
            <7> QED
              BY <4>4, <4>6, <7>1
          <6> QED
            BY <5>1, <6>1, <6>2
        <5>3. /\ Len(stream_sizes') = Len(stream_sizes) + 1
              /\ Len(stream_blocks') = Len(stream_blocks) + 1
          BY <4>5, <5>1
        <5> QED
          BY <5>1, <5>2, <5>3 DEF ListsFitSizes
      <4>14. reply' = NoReply /\ phase' = "streams"
        BY <4>1, <4>5 DEF DirectoryInv, NothingReadEarly
      <4> QED
        BY <4>11, <4>12, <4>13, <4>14 DEF DirectoryInv, ReadsAreExact, NothingReadEarly, NoReply
    <3>2. CASE ~(NextSize = Nil \/ Holds(BlocksOf(NextSize), off))
      BY <2>5, <3>2, RefuseKeepsTypes DEF ReadStreamBlocks, Phases
    <3> QED
      BY <3>1, <3>2
  <2>6. CASE FinishDirectory
    <3>1. PICK what \in {"refused", "open"} : Refuse(what)
      BY <2>6 DEF FinishDirectory
    <3> QED
      BY <2>6, <3>1, RefuseKeepsTypes DEF FinishDirectory, Phases
  <2>7. ASSUME NEW i \in -1..Len(stream_sizes), ReadStream(i)
        PROVE  DirectoryInv'
    <3>1. phase = "open" /\ UNCHANGED <<super, content, phase, dir_blocks, d, off, sizes,
                                       stream_sizes, stream_blocks>>
      BY <2>7 DEF ReadStream
    <3>2. DirectoryTypeOK' /\ NeverPastEnd' /\ ListsFitSizes' /\ NothingReadEarly'
      BY <3>1 DEF DirectoryInv, DirectoryTypeOK, NeverPastEnd, ListsFitSizes, NothingReadEarly
    <3>3. CASE i \in 0..(Len(stream_sizes) - 1) /\ stream_sizes[i + 1] # Nil
      <4> DEFINE size == stream_sizes[i + 1]
                 list == stream_blocks[i + 1]
      <4>1. reply' = [outcome |-> "read", stream |-> i, read |-> PerBlock(list, size)]
        BY <2>7, <3>3 DEF ReadStream
      <4>2. /\ size \in Nat /\ list \in Seq(Nat)
            /\ Len(list) = CeilDiv(size, BlockSize)
        <5>1. /\ stream_sizes \in Seq(Words)
              /\ stream_blocks \in Seq(Seq(Words))
          BY DEF DirectoryInv, DirectoryTypeOK
        <5>2. i + 1 \in 1..Len(stream_sizes)
          BY <3>3, <5>1
        <5>3. /\ Len(stream_blocks) = Len(stream_sizes)
              /\ Len(list) = IF size = Nil THEN 0 ELSE CeilDiv(size, BlockSize)
          BY <5>2 DEF DirectoryInv, ListsFitSizes
        <5>4. list \in Seq(Words)
          BY <5>1, <5>2, <5>3
        <5> QED
          BY <3>3, <5>1, <5>2, <5>3, <5>4, WordsAreNat
      <4>3. size <= Len(list) * BlockSize
        BY <4>2, BlockSizeAssumption, CeilingHoldsAll DEF CeilDiv
      <4> HIDE DEF list
      <4>4. ASSUME PerBlock(list, size).outcome = "bytes"
            PROVE  PerBlock(list, size).len = size
        <5>1. PerBlock(list, size).len = Least(size, Len(list) * BlockSize)
          BY <4>2, <4>4, PerBlockLength DEF Returned
        <5>2. Len(list) * BlockSize \in Nat
          BY <4>2, BlockSizeAssumption
        <5> QED
          BY <4>2, <4>3, <5>1, <5>2 DEF Least
      <4>5. ReadsAreExact'
        BY <3>1, <4>1, <4>4 DEF ReadsAreExact
      <4> QED
        BY <3>2, <4>5 DEF DirectoryInv
    <3>4. CASE ~(i \in 0..(Len(stream_sizes) - 1) /\ stream_sizes[i + 1] # Nil)
      <4>1. reply'.outcome # "read"
        BY <2>7, <3>4 DEF ReadStream
      <4> QED
        BY <3>2, <4>1 DEF DirectoryInv, ReadsAreExact
    <3> QED
      BY <3>3, <3>4
  <2>8. CASE UNCHANGED directoryVars
    BY <2>8 DEF directoryVars, DirectoryInv, DirectoryTypeOK, NeverPastEnd, ListsFitSizes, ReadsAreExact,
                NothingReadEarly, NoReply
  <2> QED
    BY <2>1, <2>2, <2>3, <2>4, <2>5, <2>6, <2>7, <2>8 DEF DirectoryNext, OpenStep
<1> QED
  BY <1>1, <1>2, PTL DEF DirectorySpec

(***************************************************************************)
(* Whatever words a damaged directory holds, nothing is unpacked from past *)
(* its end (MsfFile._parse_directory), and no stream is read before the    *)
(* directory is whole.                                                     *)
(***************************************************************************)
THEOREM NothingIsUnpackedOutside == DirectorySpec => [](NeverPastEnd /\ NothingReadEarly)
<1>1. DirectoryInv => NeverPastEnd /\ NothingReadEarly
  BY DEF DirectoryInv
<1> QED
  BY <1>1, DirectoryIsSafe, PTL

(***************************************************************************)
(* Every stream the directory declares has the blocks its size needs, so   *)
(* read_stream() returns exactly that many bytes or raises.                *)
(***************************************************************************)
THEOREM StreamsReadExactly == DirectorySpec => [](ListsFitSizes /\ ReadsAreExact)
<1>1. DirectoryInv => ListsFitSizes /\ ReadsAreExact
  BY DEF DirectoryInv
<1> QED
  BY <1>1, DirectoryIsSafe, PTL

------------------------------------------------------------------------------

\* What the streams claim together is a number.
LEMMA ClaimedIsNumber ==
  ASSUME NEW lengths \in Seq(Nat)
  PROVE  Claimed(lengths) \in Nat
<1> DEFINE m == Len(lengths)
           Counts(i) == IF lengths[i] = Nil THEN 0 ELSE lengths[i]
           s == [i \in 1..m |-> Counts(i)]
           Sum(F) == F = [i \in 0..m |-> IF i = 0 THEN 0 ELSE F[i - 1] + Counts(i)]
<1>1. m \in Nat /\ s \in [1..m -> Nat] /\ \A i \in 1..m : s[i] = Counts(i)
  OBVIOUS
<1>2. \A i \in 0..m : i # 0 => s[i] = Counts(i)
  BY <1>1
<1> HIDE DEF s, Counts
<1>3. \A F : Sum(F) <=> Sums(F, s, m)
  BY <1>2 DEF Sums
<1>4. PICK F : Sum(F)
  BY <1>1, <1>3, SumsExist
<1> DEFINE C == CHOOSE G : Sum(G)
<1>5. Sum(C)
  BY <1>4
<1>6. Claimed(lengths) = C[m]
  BY DEF Claimed, Counts
<1> HIDE DEF C, Sum
<1>7. Sums(C, s, m)
  BY <1>3, <1>5
<1>8. C[m] \in Nat
  <2>1. m \in 0..m
    BY <1>1
  <2>2. \A i \in 0..m : C[i] \in Nat
    BY <1>1, <1>7, SumsGrow
  <2> QED
    BY <2>1, <2>2
<1> QED
  BY <1>6, <1>8

\* Unpacking what fits gives the words that lie there.
LEMMA UnpackIsStored ==
  ASSUME DirectoryTypeOK, NEW n \in Nat, NEW at \in Nat, at % WordSize = 0,
         WordSize * n <= d.len - at
  PROVE  /\ at \div WordSize \in Nat
         /\ (at + WordSize * n) \div WordSize = at \div WordSize + n
         /\ SubSeq(d.words, 1, at \div WordSize + n) =
              SubSeq(d.words, 1, at \div WordSize) \o Unpack(n, at)
<1> DEFINE w == d.words
           o == at \div WordSize
           list == Unpack(n, at)
<1>1. w \in Seq(Words) /\ d.len \in Nat /\ Len(w) = d.len \div 4
  BY DEF DirectoryTypeOK, WordSize
<1>2. o \in Nat /\ at = 4 * o
  BY DEF WordSize
<1>3. (at + WordSize * n) \div WordSize = o + n
  BY <1>2 DEF WordSize
<1>4. 4 * (o + n) <= d.len
  BY <1>1, <1>2 DEF WordSize
<1>5. o + n <= Len(w) /\ Len(w) \in Nat
  BY <1>1, <1>2, <1>4
<1>6. list = [k \in 1..n |-> IF o + k \in DOMAIN w THEN w[o + k] ELSE Nil]
  BY DEF Unpack
<1> HIDE DEF w, o, list
<1>7. list = [k \in 1..n |-> w[o + k]]
  BY <1>1, <1>2, <1>5, <1>6
<1>8. list \in Seq(Words) /\ Len(list) = n
  BY UnpackGives DEF list
<1>9. SubSeq(w, 1, o + n) = SubSeq(w, 1, o) \o list
  <2> DEFINE u == SubSeq(w, 1, o)
             v == SubSeq(w, 1, o + n)
  <2>1. u \in Seq(Words) /\ Len(u) = o /\ \A i \in 1..o : u[i] = w[i]
    BY <1>1, <1>2, <1>5
  <2>2. v \in Seq(Words) /\ Len(v) = o + n /\ \A i \in 1..(o + n) : v[i] = w[i]
    BY <1>1, <1>2, <1>5
  <2> HIDE DEF u, v
  <2>3. u \o list \in Seq(Words) /\ Len(u \o list) = o + n
    BY <2>1, <1>2, <1>8
  <2>4. ASSUME NEW i \in 1..(o + n)
        PROVE  (u \o list)[i] = w[i]
    <3>1. CASE i \in 1..o
      BY <3>1, <2>1, <1>2, <1>8
    <3>2. CASE i \notin 1..o
      <4>1. i - o \in 1..n /\ o + (i - o) = i
        BY <3>2, <1>2
      <4>2. (u \o list)[i] = list[i - Len(u)]
        <5>1. i \in 1..(Len(u) + Len(list)) /\ ~(i <= Len(u)) /\ i \in Int
          BY <3>2, <2>1, <1>2, <1>8
        <5>2. u \in Seq(Words) /\ list \in Seq(Words)
          BY <2>1, <1>8
        <5> QED
          BY <5>1, <5>2
      <4> QED
        BY <4>1, <4>2, <1>7, <2>1
    <3> QED
      BY <3>1, <3>2
  <2>5. v = u \o list
    <3> DEFINE x == u \o list
    <3>1. x \in Seq(Words) /\ Len(x) = o + n /\ \A i \in 1..(o + n) : x[i] = v[i]
      BY <2>2, <2>3, <2>4
    <3> HIDE DEF x
    <3>2. x = v
      BY <2>2, <3>1
    <3> QED
      BY <3>2 DEF x
  <2> QED
    BY <2>5 DEF u, v
<1> QED
  BY <1>2, <1>3, <1>9 DEF w, o, list

\* One more list of blocks, one more stretch of the directory.
LEMMA FlattenAppended ==
  ASSUME NEW s \in Seq(Seq(Words)), NEW list \in Seq(Words)
  PROVE  FlattenSeq(Append(s, list)) = FlattenSeq(s) \o list /\ FlattenSeq(s) \in Seq(Words)
<1> DEFINE t == Append(s, list)
           m == Len(s) + 1
<1>1. m \in Nat \ {0} /\ t \in [1..m -> Seq(Words)] /\ t[m] = list
  <2> DEFINE X == Seq(Words)
  <2>1. s \in Seq(X) /\ list \in X
    OBVIOUS
  <2> HIDE DEF X
  <2>2. Len(s) \in Nat /\ m \in Nat \ {0}
    BY <2>1
  <2>3. t \in Seq(X) /\ Len(t) = m
    BY <2>1
  <2>4. t[m] = list
    BY <2>1
  <2> HIDE DEF t
  <2>5. t \in [1..m -> X]
    BY <2>2, <2>3
  <2> QED
    BY <2>2, <2>4, <2>5 DEF X
<1>2. [i \in 1..(m - 1) |-> t[i]] = s
  OBVIOUS
<1> HIDE DEF t, m
<1>3. /\ FlattenSeq([i \in 1..(m - 1) |-> t[i]]) \in Seq(Words)
      /\ FlattenSeq(t) = FlattenSeq([i \in 1..(m - 1) |-> t[i]]) \o t[m]
  BY <1>1, FlattenOneMore
<1> QED
  BY <1>1, <1>2, <1>3 DEF t

\* What has been parsed is what is stored; nothing is before it is looked at.
ParsedAsStored ==
  /\ phase \in {"superblock", "map", "directory", "count"} => stream_blocks = <<>>
  /\ DirectoryRoundTrip

\* The file holds the blocks it claims, and an open one no more bytes than those.
ClaimsHold ==
  /\ phase \in {"map", "directory", "count", "streams", "open"} => Capacity <= FileLen
  /\ phase = "open" => Claimed(stream_sizes) <= Capacity

\* Before the superblock is looked at nothing is parsed and nothing claimed.
LEMMA StoredAndClaimedInit == DirectoryInit => ParsedAsStored /\ ClaimsHold
BY DEF DirectoryInit, ParsedAsStored, ClaimsHold, DirectoryRoundTrip

\* Blocks times their size.
LEMMA CapacityIsNumber == ASSUME DirectoryTypeOK PROVE Capacity \in Nat
<1>1. super.num_blocks \in Nat
  BY SuperBlocksAssumption DEF DirectoryTypeOK
<1> QED
  BY <1>1, BlockSizeAssumption DEF Capacity

\* Each unpack_from appends what lies at the cursor and moves past it.
LEMMA StoredStays ==
  ASSUME DirectoryInv, ParsedAsStored, [DirectoryNext]_directoryVars
  PROVE  ParsedAsStored'
<1>1. CASE ReadStreamCount
  <2> DEFINE count == d.words[1]
  <2>1. CASE d.len >= WordSize /\ Holds(count, WordSize)
    <3>1. /\ sizes' = Unpack(count, WordSize)
          /\ off' = WordSize + WordSize * count
          /\ phase' = "streams" /\ phase = "count"
          /\ UNCHANGED <<d, stream_blocks>>
      BY <1>1, <2>1 DEF ReadStreamCount
    <3>2. /\ d.words \in Seq(Words) /\ d.len \in Nat
          /\ Len(d.words) = d.len \div 4 /\ d.len >= 4
      BY <2>1 DEF DirectoryInv, DirectoryTypeOK, WordSize
    <3>3. count \in Words /\ count \in Nat /\ 1 <= Len(d.words)
      <4>1. 1 \in 1..Len(d.words)
        BY <3>2
      <4> QED
        BY <3>2, <4>1, WordsAreNat
    <3>4. count <= (d.len - 4) \div 4
      BY <2>1 DEF Holds, WordSize
    <3> HIDE DEF count
    <3>5. WordSize * count <= d.len - WordSize
      BY <3>2, <3>3, <3>4 DEF WordSize
    <3>6. /\ off' \div WordSize = 1 + count
          /\ SubSeq(d.words, 1, 1 + count) = SubSeq(d.words, 1, 1) \o sizes'
      <4>1. WordSize \in Nat /\ WordSize % WordSize = 0 /\ WordSize \div WordSize = 1
        BY DEF WordSize
      <4>2. /\ (WordSize + WordSize * count) \div WordSize = WordSize \div WordSize + count
            /\ SubSeq(d.words, 1, WordSize \div WordSize + count) =
                 SubSeq(d.words, 1, WordSize \div WordSize) \o Unpack(count, WordSize)
        BY <3>3, <3>5, <4>1, UnpackIsStored DEF DirectoryInv
      <4> QED
        BY <3>1, <4>1, <4>2
    <3>7. sizes' \in Seq(Words) /\ Len(sizes') = count
      BY <3>1, <3>3, UnpackGives DEF DirectoryInv, WordSize
    <3>8. SubSeq(d.words, 1, 1) = <<count>>
      <4> DEFINE one == SubSeq(d.words, 1, 1)
      <4>1. one \in Seq(Words) /\ Len(one) = 1 /\ one[1] = d.words[1]
        BY <3>2, <3>3
      <4> HIDE DEF one
      <4>2. one = <<one[1]>>
        BY <4>1
      <4> QED
        BY <4>1, <4>2 DEF one, count
    <3>9. stream_blocks' = <<>>
      BY <3>1 DEF ParsedAsStored
    <3>10. FlattenSeq(<<>>) = <<>>
      BY DEF FlattenSeq
    <3>11. <<count>> \o sizes' \in Seq(Words) /\ (<<count>> \o sizes') \o <<>> = <<count>> \o sizes'
      BY <3>3, <3>7
    <3>12. DirectoryRoundTrip'
      BY <3>1, <3>6, <3>7, <3>8, <3>9, <3>10, <3>11 DEF DirectoryRoundTrip
    <3> QED
      BY <3>1, <3>12 DEF ParsedAsStored
  <2>2. CASE ~(d.len >= WordSize /\ Holds(count, WordSize))
    BY <1>1, <2>2 DEF ReadStreamCount, Refuse, ParsedAsStored, DirectoryRoundTrip
  <2> QED
    BY <2>1, <2>2
<1>2. CASE ReadStreamBlocks
  <2>1. CASE NextSize = Nil \/ Holds(BlocksOf(NextSize), off)
    <3> DEFINE n == BlocksOf(NextSize)
               list == Unpack(n, off)
    <3>1. /\ stream_blocks' = Append(stream_blocks, list)
          /\ off' = off + WordSize * n
          /\ UNCHANGED <<phase, d, sizes>> /\ phase = "streams"
          /\ Len(stream_sizes) < Len(sizes)
      BY <1>2, <2>1 DEF ReadStreamBlocks, AppendStream
    <3>2. NextSize \in Nat
      <4>1. /\ sizes \in Seq(Words) /\ stream_sizes \in Seq(Words)
        BY DEF DirectoryInv, DirectoryTypeOK
      <4>2. Len(stream_sizes) + 1 \in 1..Len(sizes)
        BY <3>1, <4>1
      <4> QED
        BY <4>1, <4>2, WordsAreNat DEF NextSize
    <3>3. n \in Nat /\ (NextSize = Nil => n = 0)
      <4>1. CASE NextSize = Nil
        BY <4>1 DEF BlocksOf
      <4>2. CASE NextSize # Nil
        BY <3>2, <4>2, BlocksHoldSize
      <4> QED
        BY <4>1, <4>2
    <3>4. /\ off \in Nat /\ d.len \in Nat /\ off <= d.len /\ off % WordSize = 0
      BY <3>1 DEF DirectoryInv, DirectoryTypeOK, NeverPastEnd
    <3>5. n <= (d.len - off) \div 4
      BY <2>1, <3>3, <3>4 DEF Holds, WordSize
    <3>6. list \in Seq(Words)
      BY <3>3, UnpackGives DEF DirectoryInv, DirectoryTypeOK
    <3> HIDE DEF n
    <3>7. WordSize * n <= d.len - off
      BY <3>3, <3>4, <3>5 DEF WordSize
    <3>8. /\ off' \div WordSize = off \div WordSize + n
          /\ SubSeq(d.words, 1, off \div WordSize + n) = SubSeq(d.words, 1, off \div WordSize) \o list
      BY <3>1, <3>3, <3>4, <3>7, UnpackIsStored DEF DirectoryInv
    <3> HIDE DEF list
    <3>9. stream_blocks \in Seq(Seq(Words)) /\ sizes \in Seq(Nat) /\ Len(sizes) \in Nat
      <4>1. sizes \in Seq(Words)
        BY DEF DirectoryInv, DirectoryTypeOK
      <4> QED
        BY <4>1, WordsAreNat DEF DirectoryInv, DirectoryTypeOK
    <3> DEFINE flat == FlattenSeq(stream_blocks)
               head == <<Len(sizes)>> \o sizes
    <3>10. FlattenSeq(stream_blocks') = flat \o list /\ flat \in Seq(Words)
      BY <3>1, <3>6, <3>9, FlattenAppended
    <3>11. head \in Seq(Nat)
      BY <3>9
    <3>12. SubSeq(d.words, 1, off \div WordSize) = head \o flat
      BY <3>1 DEF ParsedAsStored, DirectoryRoundTrip
    <3> HIDE DEF head, flat
    <3>13. (head \o flat) \o list = head \o (flat \o list)
      BY <3>6, <3>10, <3>11, WordsAreNat
    <3>14. SubSeq(d.words, 1, off' \div WordSize) = head \o FlattenSeq(stream_blocks')
      BY <3>8, <3>10, <3>12, <3>13
    <3>15. DirectoryRoundTrip'
      BY <3>1, <3>14 DEF DirectoryRoundTrip, head
    <3> QED
      BY <3>1, <3>15 DEF ParsedAsStored
  <2>2. CASE ~(NextSize = Nil \/ Holds(BlocksOf(NextSize), off))
    BY <1>2, <2>2 DEF ReadStreamBlocks, Refuse, ParsedAsStored, DirectoryRoundTrip
  <2> QED
    BY <2>1, <2>2
<1>3. CASE FinishDirectory
  BY <1>3 DEF FinishDirectory, Refuse, ParsedAsStored, DirectoryRoundTrip
<1>4. CASE ParseSuperBlock
  BY <1>4, SuperBlocksAssumption
     DEF ParseSuperBlock, Refuse, ParsedAsStored, DirectoryRoundTrip, DirectoryInv, DirectoryTypeOK
<1>5. CASE ReadBlockMap
  BY <1>5 DEF ReadBlockMap, Refuse, ParsedAsStored, DirectoryRoundTrip
<1>6. CASE ReadDirectory
  BY <1>6 DEF ReadDirectory, Refuse, ParsedAsStored, DirectoryRoundTrip
<1>7. ASSUME NEW i \in -1..Len(stream_sizes), ReadStream(i)
      PROVE  ParsedAsStored'
  BY <1>7 DEF ReadStream, ParsedAsStored, DirectoryRoundTrip
<1>8. CASE UNCHANGED directoryVars
  BY <1>8 DEF directoryVars, ParsedAsStored, DirectoryRoundTrip
<1> QED
  BY <1>1, <1>2, <1>3, <1>4, <1>5, <1>6, <1>7, <1>8 DEF DirectoryNext, OpenStep

\* The superblock is checked against the file, the claims against the superblock.
LEMMA ClaimsStay ==
  ASSUME DirectoryInv, ClaimsHold, [DirectoryNext]_directoryVars
  PROVE  ClaimsHold'
<1>1. Capacity \in Nat
  BY CapacityIsNumber DEF DirectoryInv
<1>2. CASE ParseSuperBlock
  <2>1. CASE phase' = "map"
    <3>1. super' = super /\ phase' = CASE super.kind = "foreign" -> "unsupported"
              [] super.kind \in {"bad magic", "bad block size", "short"} -> "refused"
              [] super.kind = "msf7" -> IF FileLen < Capacity THEN "refused" ELSE "map"
      BY <1>2 DEF ParseSuperBlock, Refuse, Capacity
    <3>2. super.kind \in {"msf7", "foreign", "bad magic", "bad block size", "short"}
      BY SuperBlocksAssumption DEF DirectoryInv, DirectoryTypeOK
    <3>3. ~(FileLen < Capacity)
      BY <2>1, <3>1, <3>2
    <3>4. Capacity' = Capacity
      BY <3>1 DEF Capacity
    <3>5. Capacity' <= FileLen
      BY <1>1, <3>3, <3>4, FileLenAssumption
    <3> QED
      BY <2>1, <3>5 DEF ClaimsHold
  <2>2. CASE phase' # "map"
    <3>1. phase' \in {"unsupported", "refused"}
      BY <1>2, <2>2, SuperBlocksAssumption DEF ParseSuperBlock, Refuse, DirectoryInv, DirectoryTypeOK
    <3> QED
      BY <3>1 DEF ClaimsHold
  <2> QED
    BY <2>1, <2>2
<1>3. CASE FinishDirectory
  <2>1. Claimed(stream_sizes) \in Nat
    <3>1. stream_sizes \in Seq(Words)
      BY DEF DirectoryInv, DirectoryTypeOK
    <3> QED
      BY <3>1, WordsAreNat, ClaimedIsNumber
  <2>2. UNCHANGED <<super, stream_sizes>> /\ phase = "streams"
        /\ (phase' = "refused" \/ (phase' = "open" /\ ~(Claimed(stream_sizes) > Capacity)))
    BY <1>3 DEF FinishDirectory, Refuse
  <2>3. Capacity' = Capacity /\ Claimed(stream_sizes)' = Claimed(stream_sizes)
    BY <2>2 DEF Capacity, Claimed
  <2> QED
    BY <1>1, <2>1, <2>2, <2>3 DEF ClaimsHold
<1>4. CASE ReadBlockMap \/ ReadDirectory \/ ReadStreamCount \/ ReadStreamBlocks
  <2>1. super' = super /\ phase \in {"map", "directory", "count", "streams"} /\ phase' # "open"
    BY <1>4 DEF ReadBlockMap, ReadDirectory, ReadStreamCount, ReadStreamBlocks, Refuse, AppendStream
  <2>2. Capacity' = Capacity
    BY <2>1 DEF Capacity
  <2>3. Capacity <= FileLen
    BY <2>1 DEF ClaimsHold
  <2>4. Capacity' <= FileLen
    BY <2>2, <2>3
  <2> QED
    BY <2>1, <2>4 DEF ClaimsHold
<1>5. ASSUME NEW i \in -1..Len(stream_sizes), ReadStream(i)
      PROVE  ClaimsHold'
  <2>1. UNCHANGED <<super, phase, stream_sizes>>
    BY <1>5 DEF ReadStream
  <2>2. Capacity' = Capacity /\ Claimed(stream_sizes)' = Claimed(stream_sizes)
    BY <2>1 DEF Capacity, Claimed
  <2> QED
    BY <2>1, <2>2 DEF ClaimsHold
<1>6. CASE UNCHANGED directoryVars
  <2>1. UNCHANGED <<super, phase, stream_sizes>>
    BY <1>6 DEF directoryVars
  <2>2. Capacity' = Capacity /\ Claimed(stream_sizes)' = Claimed(stream_sizes)
    BY <2>1 DEF Capacity, Claimed
  <2> QED
    BY <2>1, <2>2 DEF ClaimsHold
<1> QED
  BY <1>2, <1>3, <1>4, <1>5, <1>6 DEF DirectoryNext, OpenStep

(***************************************************************************)
(* MsfFile._parse_directory parses what is stored: the count, the sizes    *)
(* and the block lists, written one after the other, are the words of the  *)
(* directory up to the cursor, for every content of every directory.       *)
(***************************************************************************)
THEOREM WhatIsParsedIsStored == DirectorySpec => []DirectoryRoundTrip
<1>1. ParsedAsStored => DirectoryRoundTrip
  BY DEF ParsedAsStored
<1> QED
  BY <1>1, DirectoryIsSafe, StoredAndClaimedInit, StoredStays, PTL DEF DirectorySpec

(***************************************************************************)
(* No directory makes an opened container promise more bytes than its file *)
(* has, however the claims are spread over streams that each fit.          *)
(***************************************************************************)
THEOREM TheFileBoundsItsStreams == DirectorySpec => []StreamsFit
<1>1. ASSUME DirectoryInv, ClaimsHold
      PROVE  StreamsFit
  <2> SUFFICES ASSUME phase = "open"
               PROVE  Claimed(stream_sizes) <= FileLen
    BY DEF StreamsFit
  <2>1. Claimed(stream_sizes) \in Nat
    <3>1. stream_sizes \in Seq(Words)
      BY <1>1 DEF DirectoryInv, DirectoryTypeOK
    <3> QED
      BY <3>1, WordsAreNat, ClaimedIsNumber
  <2>2. Capacity \in Nat
    BY <1>1, CapacityIsNumber DEF DirectoryInv
  <2> QED
    BY <1>1, <2>1, <2>2, FileLenAssumption DEF ClaimsHold
<1> QED
  BY <1>1, DirectoryIsSafe, StoredAndClaimedInit, ClaimsStay, PTL DEF DirectorySpec
==============================================================================
